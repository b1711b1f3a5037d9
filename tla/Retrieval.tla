------------------------------ MODULE Retrieval ------------------------------
(***************************************************************************)
(* One question through the RAG service, up to what its answer carries.    *)
(*                                                                         *)
(* Two channels are asked for passages and their rankings are fused; the   *)
(* best go on, and the evidence behind them decides whether the language   *)
(* model answers or the question is refused.  The answer's citations are   *)
(* judged by a second call, and retrieval and verdict make the confidence  *)
(* shown to the user and the signal the gap radar records.  Passages are   *)
(* model values; scores are percentages, a BM25 score being given as what  *)
(* its logistic squash makes of it, which keeps their order.               *)
(***************************************************************************)
EXTENDS Naturals, SequencesExt, FiniteSetsExt

CONSTANTS
    Passages,    \* chunks the channels may return
    Strengths,   \* scores of a passage in a channel, in percent
    MaxTopK,     \* bound on the top_k a question asks for
    MaxClaims,   \* bound on the claims the judge answers with
    Common,      \* every k + rank divides it: weights over it are whole numbers
    None

\* Percentages of the source.
Threshold == 35            \* GROUNDED_CONFIDENCE_THRESHOLD
High == 75                 \* HIGH_CONFIDENCE_THRESHOLD
Medium == 50               \* MEDIUM_CONFIDENCE_THRESHOLD
WeakRetrieval == 50        \* LOW_RETRIEVAL_CONFIDENCE_THRESHOLD
NoMatch == 11              \* the squash of a BM25 score of 0
VectorWeight == 6          \* vector_weight, in tenths
KeywordWeight == 4         \* bm25_weight, in tenths
RrfK == 60                 \* k
Lookback == 3              \* FUSED_LOOKBACK
RefusalSources == 2        \* REFUSAL_MAX_SOURCES
Widening == 2              \* RECALL_MULTIPLIER

ASSUME RetrievalAssumption ==
    /\ Strengths \subseteq 0..100 /\ MaxTopK \in Nat \ {0} /\ MaxClaims \in Nat
    /\ IsFiniteSet(Passages)
    /\ Common \in Nat \ {0}
    /\ \A rank \in 1..(Widening * MaxTopK) : Common % (RrfK + rank) = 0
    /\ None \notin Nat /\ None \notin {"rag_refusal", "low_retrieval_score"}

VARIABLES
    stage,    \* what comes next
    topK,     \* how many passages go on
    vector,   \* hits of the vector store, best first; None: it failed
    keyword,  \* hits of the BM25 snapshot, best first
    sources,  \* passages that go on, with the raw scores of their channels
    grounded, retrieval,  \* GroundingAssessment: the verdict and its confidence
    text,     \* what the user is told
    cited,    \* numbers of the [n] markers in it
    verdict,  \* VerificationResult, or None when there is no record of one
    badge,    \* AnswerConfidence, its score in thousandths
    signal    \* the kind of gap recorded

ragVars == <<stage, topK, vector, keyword, sources, grounded, retrieval, text, cited,
          verdict, badge, signal>>

RagInit ==
    /\ stage = "retrieve" /\ topK \in 1..MaxTopK
    /\ vector = <<>> /\ keyword = <<>> /\ sources = <<>>
    /\ grounded = FALSE /\ retrieval = 0
    /\ text = None /\ cited = {} /\ verdict = None /\ badge = None /\ signal = None

Best(s, n) == SubSeq(s, 1, Min({n, Len(s)}))

Recall == Widening * topK

-----------------------------------------------------------------------------
(* HybridRetriever.retrieve *)

Lists(hits, p) == \E i \in DOMAIN hits : hits[i].id = p
Rank(hits, p) == CHOOSE i \in DOMAIN hits : hits[i].id = p

\* What a channel may return: distinct passages, scores not increasing.
Hits ==
    UNION {{h \in [1..n -> [id : Passages, score : Strengths]] :
              \A i, j \in 1..n : i < j => h[i].id # h[j].id /\ h[i].score >= h[j].score} :
           n \in 0..Min({Recall, Cardinality(Passages)})}

\* The embedding service may be down, or answer with what is no embedding.
VectorHits == Hits \cup {None}

\* BM25Index.search keeps what the words of the question match at all.
KeywordHits == {h \in Hits : \A i \in DOMAIN h : h[i].score > NoMatch}

\* weight / (k + rank), as a fraction of Common.
Share(hits, weight, p) ==
    IF Lists(hits, p) THEN weight * (Common \div (RrfK + Rank(hits, p))) ELSE 0

\* Mutant: the second list overwrites the score of the first.
Rrf_Last(v, k, p) ==
    IF Lists(k, p) THEN Share(k, KeywordWeight, p) ELSE Share(v, VectorWeight, p)

Rrf(v, k, p) == Share(v, VectorWeight, p) + Share(k, KeywordWeight, p)

\* sorted() is stable, and the dictionary has the vector hits first.
Entered(v, k, p) == IF Lists(v, p) THEN Rank(v, p) ELSE Len(v) + Rank(k, p)

Above(v, k, a, b) ==
    \/ Rrf(v, k, a) > Rrf(v, k, b)
    \/ Rrf(v, k, a) = Rrf(v, k, b) /\ Entered(v, k, a) < Entered(v, k, b)

Listed(v, k) == {p \in Passages : Lists(v, p) \/ Lists(k, p)}
Fused(v, k) ==
    CHOOSE order \in [1..Cardinality(Listed(v, k)) -> Listed(v, k)] :
        \A i, j \in DOMAIN order : i < j => Above(v, k, order[i], order[j])

\* source and raw_scores of a result; a single channel's score is its own.
Result(source, v, k, p) ==
    [id |-> p, source |-> source,
     vector |-> IF source # "bm25" /\ Lists(v, p) THEN v[Rank(v, p)].score ELSE None,
     bm25 |-> IF source # "vector" /\ Lists(k, p) THEN k[Rank(k, p)].score ELSE None]

Retrieved(v, k) ==
    LET found == IF v = None THEN <<>> ELSE v
        source == IF k = <<>> THEN "vector" ELSE IF found = <<>> THEN "bm25" ELSE "fused"
        order == IF source = "fused" THEN Fused(found, k)
                 ELSE [i \in DOMAIN (found \o k) |-> (found \o k)[i].id]
    IN  Best([i \in DOMAIN order |-> Result(source, found, k, order[i])], Recall)

\* The question is embedded first; both channels are then asked in one go.
Retrieve ==
    /\ stage = "retrieve" /\ stage' = "assess"
    /\ \E v \in VectorHits, k \in KeywordHits :
         vector' = v /\ keyword' = k /\ sources' = Retrieved(v, k)
    /\ UNCHANGED <<topK, grounded, retrieval, text, cited, verdict, badge, signal>>

-----------------------------------------------------------------------------
(* RAGService._retrieve_and_assess; no reranker model is configured *)

Scores(results, channel) ==
    {results[i][channel] : i \in {j \in DOMAIN results : results[j][channel] # None}}

Confidence(results) ==
    LET first == Best(results, IF results # <<>> /\ results[1].source = "fused"
                               THEN Lookback ELSE 1)
    IN  CASE Scores(first, "vector") # {} -> Max(Scores(first, "vector"))
          [] Scores(first, "vector") = {} /\ Scores(first, "bm25") # {} ->
               Max(Scores(first, "bm25"))
          [] OTHER -> 0

\* Mutant: the evidence is assessed before the results are cut to top_k.
Assessed_All(results) == Confidence(results)

Assessed(results) == Confidence(Best(results, topK))

\* The channels' hits are local to the retrieval, and gone with it.
Answerable ==
    /\ stage = "assess" /\ Assessed(sources) >= Threshold
    /\ stage' = "generate"
    /\ grounded' = TRUE /\ retrieval' = Assessed(sources)
    /\ sources' = Best(sources, topK)
    /\ vector' = <<>> /\ keyword' = <<>>
    /\ UNCHANGED <<topK, text, cited, verdict, badge, signal>>

Refuse ==
    /\ stage = "assess" /\ Assessed(sources) < Threshold
    /\ stage' = "finish"
    /\ retrieval' = Assessed(sources)
    /\ sources' = Best(Best(sources, topK), RefusalSources)
    /\ text' = "refusal"
    /\ vector' = <<>> /\ keyword' = <<>>
    /\ UNCHANGED <<topK, grounded, cited, verdict, badge, signal>>

-----------------------------------------------------------------------------
(* query and query_stream: the answer, or what stands in for it *)

\* The prompt numbers the passages it gives from 1, as the sources shown do.
Citable == 1..Len(sources)

\* The markers are the model's own: a number may be out of range.
Generate ==
    /\ stage = "generate" /\ stage' = "verify"
    /\ text' = "answer" /\ cited' \in SUBSET (1..(MaxTopK + 1))
    /\ UNCHANGED <<topK, vector, keyword, sources, grounded, retrieval, verdict, badge, signal>>

\* The model is down: excerpts follow whatever it had said.
ModelDown ==
    /\ stage = "generate" /\ stage' = "verify"
    /\ text' = "excerpts" /\ cited' \in SUBSET (1..(MaxTopK + 1))
    /\ UNCHANGED <<topK, vector, keyword, sources, grounded, retrieval, verdict, badge, signal>>

\* A stream without a token: the harness puts its fallback there.
SaysNothing ==
    /\ stage = "generate" /\ stage' = "verify"
    /\ text' = "fallback"
    /\ UNCHANGED <<topK, vector, keyword, sources, grounded, retrieval, cited,
                   verdict, badge, signal>>

-----------------------------------------------------------------------------
(* verify_answer *)

ValidCitations == cited \cap Citable
Skipped == [checked |-> FALSE, supported |-> 0, total |-> 0]
Claims == BoundedSeq([citation : 1..(MaxTopK + 1), supported : BOOLEAN], MaxClaims)

\* The claims about passages the answer does cite.
Judged(claims) == {i \in DOMAIN claims : claims[i].citation \in ValidCitations}

Verdict(claims) ==
    LET judged == Judged(claims)
    IN  IF judged = {} THEN Skipped
        ELSE [checked |-> TRUE, total |-> Cardinality(judged),
              supported |-> Cardinality({i \in judged : claims[i].supported})]

Judge ==
    /\ stage = "verify" /\ ValidCitations # {} /\ stage' = "finish"
    /\ \E claims \in Claims : verdict' = Verdict(claims)
    /\ UNCHANGED <<topK, vector, keyword, sources, grounded, retrieval, text, cited, badge, signal>>

\* Nothing to check, a timeout, an error, or an answer that is no JSON.
SkipCheck ==
    /\ stage = "verify" /\ stage' = "finish"
    /\ verdict' = Skipped
    /\ UNCHANGED <<topK, vector, keyword, sources, grounded, retrieval, text, cited, badge, signal>>

-----------------------------------------------------------------------------
(* compute_answer_confidence, _detect_rag_signal *)

\* Mutant: a check that was skipped counts as one that passed.
Score_SkippedPasses ==
    LET v == verdict
    IN  IF v = None THEN 10 * retrieval
        ELSE IF ~v.checked THEN 6 * retrieval + 400
        ELSE 6 * retrieval + (400 * v.supported) \div v.total

Score ==
    IF verdict = None \/ ~verdict.checked THEN 10 * retrieval
    ELSE 6 * retrieval + (400 * verdict.supported) \div verdict.total

Band ==
    CASE ~grounded \/ Score < 10 * Medium -> "low"
      [] grounded /\ Score >= 10 * High -> "high"
      [] OTHER -> "medium"

Finish ==
    /\ stage = "finish" /\ stage' = "done"
    /\ badge' = [score |-> IF grounded THEN Score ELSE 10 * retrieval, band |-> Band]
    /\ signal' = CASE ~grounded \/ sources = <<>> \/ text = "fallback" -> "rag_refusal"
                   [] grounded /\ text # "fallback" /\ retrieval < WeakRetrieval ->
                        "low_retrieval_score"
                   [] OTHER -> None
    /\ UNCHANGED <<topK, vector, keyword, sources, grounded, retrieval, text, cited, verdict>>

-----------------------------------------------------------------------------
RagNext ==
    \/ Retrieve \/ Answerable \/ Refuse
    \/ Generate \/ ModelDown \/ SaysNothing
    \/ Judge \/ SkipCheck \/ Finish

RagSpec == RagInit /\ [][RagNext]_ragVars

-----------------------------------------------------------------------------
(* Properties *)

Hit == [id : Passages, score : Strengths]
Source == [id : Passages, source : {"vector", "bm25", "fused"},
           vector : Strengths \cup {None}, bm25 : Strengths \cup {None}]

RagTypeOK ==
    /\ stage \in {"retrieve", "assess", "generate", "verify", "finish", "done"}
    /\ topK \in 1..MaxTopK
    /\ vector \in Seq(Hit) \cup {None} /\ keyword \in Seq(Hit)
    /\ sources \in Seq(Source)
    /\ grounded \in BOOLEAN /\ retrieval \in 0..100
    /\ text \in {None, "refusal", "answer", "excerpts", "fallback"}
    /\ cited \subseteq 1..(MaxTopK + 1)
    /\ verdict \in {None} \cup [checked : BOOLEAN, supported : Nat, total : Nat]
    /\ badge \in {None} \cup [score : Nat, band : {"low", "medium", "high"}]
    /\ signal \in {None, "rag_refusal", "low_retrieval_score"}

\* The fusion overrules no agreement: a passage that is above another in every
\* channel that has the other stays above it, and is not cut off instead of it.
Channels == {keyword} \cup ({vector} \ {None})
Agreed(a, b) ==
    /\ a # b
    /\ \E hits \in Channels : Lists(hits, b)
    /\ \A hits \in Channels :
         Lists(hits, b) => Lists(hits, a) /\ Rank(hits, a) < Rank(hits, b)
FusionKeepsAgreement ==
    stage = "assess" =>
        \A a, b \in Passages :
            Agreed(a, b) /\ Lists(sources, b) =>
                Lists(sources, a) /\ Rank(sources, a) < Rank(sources, b)

\* What an answer rests on is shown: among its sources is one whose own score
\* in a channel reaches the threshold, whatever was recalled beyond top_k.
EvidenceIsShown ==
    grounded => \E i \in DOMAIN sources :
                   \E c \in {"vector", "bm25"} :
                      sources[i][c] # None /\ sources[i][c] >= Threshold

\* The badge is honest.  Confidence above that of the retrieval is earned: the
\* judge upheld a claim about a passage the answer cites and the user sees.  And
\* an answer nobody checked gets a low badge exactly when the radar files a gap,
\* though the two are decided in different places.
BadgeIsHonest ==
    stage = "done" =>
        /\ badge.score > 10 * retrieval =>
             /\ text \in {"answer", "excerpts"} /\ cited \cap Citable # {}
             /\ verdict.supported > 0
        /\ (verdict = None \/ ~verdict.checked) /\ text # "fallback" =>
             (badge.band = "low" <=> signal # None)
=============================================================================
