----------------------------- MODULE Knowledge -----------------------------
(***************************************************************************)
(* The knowledge loop: turns count what the assistant could not answer     *)
(* (gaps), staff draft an entry for a gap, edit it, and an administrator   *)
(* approves it, which publishes a document in PostgreSQL, MinIO and Chroma *)
(* and promotes the gap.                                                   *)
(*                                                                         *)
(* The gaps are those of one question.  A document is named by the request *)
(* that publishes it.  No document is deleted here: an administrator's     *)
(* DELETE of a published one is left out.                                  *)
(***************************************************************************)
EXTENDS Naturals, FiniteSets

CONSTANTS
    Gaps, Drafts,  \* ids rows may be given
    GapOf,         \* GapOf[d]: the gap a draft with this id is written for
    Signals,       \* transactions that record a signal: turns and ratings
    Requests,      \* requests of staff
    None

ASSUME KnowledgeAssumption ==
    /\ GapOf \in [Drafts -> Gaps]
    /\ IsFiniteSet(Signals)
    /\ None \notin Gaps \cup Drafts \cup Requests

VARIABLES
    gap,          \* knowledge_gaps.status, "absent" before the row is committed
    frequency,    \* knowledge_gaps.frequency
    promotedDoc,  \* knowledge_gaps.promoted_doc_id
    draft,        \* knowledge_drafts.status, "absent" before the row is committed
    body,         \* the request that last edited question and answer
    published,    \* knowledge_drafts.published_doc_id
    docs,         \* committed documents
    bytes,        \* documents whose bytes are in MinIO
    chunks,       \* documents whose chunks are in Chroma
    signal,       \* signal[s]: where the transaction is, the gap it counts in
    req,          \* req[p]: where the request is, what it has loaded
    abandoned     \* history: publications broken off before they were undone

gaps == <<gap, frequency, promotedDoc>>
drafts == <<draft, body, published>>
stores == <<bytes, chunks>>
vars == <<gaps, drafts, docs, stores, signal, req, abandoned>>

GapStatus == {"open", "promoted", "dismissed"}
DraftStatus == {"draft", "approved", "rejected"}

Publishing == {"put", "index", "undoChunks", "undoBytes", "undone", "settle", "promote", "promoted"}
Reviewing == Publishing \cup {"rejected"}    \* has moved the draft out of "draft"
Drafting == {"insert", "lookup", "inserted", "found"}
Active == Reviewing \cup Drafting \cup
          {"write", "written", "approve", "reject", "dismiss", "dismissed"}
ReqPC == Active \cup {"idle", "done", "failed"}
SignalPC == {"idle", "counted", "inserted", "done", "failed"}

NoSignal == [pc |-> "idle", gap |-> None, count |-> 0]
NoReq == [pc |-> "idle", draft |-> None, gap |-> None, loaded |-> "open", content |-> None]

TypeOK ==
    /\ gap \in [Gaps -> GapStatus \cup {"absent"}] /\ frequency \in [Gaps -> Nat]
    /\ promotedDoc \in [Gaps -> Requests \cup {None}]
    /\ draft \in [Drafts -> DraftStatus \cup {"absent"}]
    /\ body \in [Drafts -> Requests \cup {None}] /\ published \in [Drafts -> Requests \cup {None}]
    /\ docs \subseteq Requests /\ bytes \subseteq Requests /\ chunks \subseteq Requests
    /\ abandoned \subseteq Requests
    /\ signal \in [Signals -> [pc : SignalPC, gap : Gaps \cup {None}, count : Nat]]
    /\ req \in [Requests -> [pc : ReqPC, draft : Drafts \cup {None}, gap : Gaps \cup {None},
                             loaded : GapStatus, content : Requests \cup {None}]]

Init ==
    /\ gap = [g \in Gaps |-> "absent"] /\ frequency = [g \in Gaps |-> 0]
    /\ promotedDoc = [g \in Gaps |-> None]
    /\ draft = [d \in Drafts |-> "absent"]
    /\ body = [d \in Drafts |-> None] /\ published = [d \in Drafts |-> None]
    /\ docs = {} /\ bytes = {} /\ chunks = {} /\ abandoned = {}
    /\ signal = [s \in Signals |-> NoSignal] /\ req = [p \in Requests |-> NoReq]

-----------------------------------------------------------------------------
(* Row locks and indexes *)

OpenGaps == {g \in Gaps : gap[g] = "open"}
Pending(g) == {d \in Drafts : draft[d] = "draft" /\ GapOf[d] = g}

GapLocked(g) ==
    \/ \E s \in Signals : signal[s].pc = "counted" /\ signal[s].gap = g
    \/ \E p \in Requests : req[p].pc \in {"promoted", "dismissed"} /\ req[p].gap = g

DraftLocked(d) ==
    \E p \in Requests : req[p].pc \in Reviewing \cup {"written"} /\ req[p].draft = d

Go(p, pc) == req' = [req EXCEPT ![p].pc = pc]

-----------------------------------------------------------------------------
(* Gaps *)

\* Mutant: the counter is read and written back without waiting for the row.
Record_NoWait(s) ==
    /\ signal[s].pc = "idle"
    /\ \A t \in Signals : signal[t].pc # "inserted"
    /\ \/ \E g \in OpenGaps :
             signal' = [signal EXCEPT ![s] = [pc |-> "counted", gap |-> g, count |-> frequency[g] + 1]]
       \/ /\ OpenGaps = {}
          /\ \E g \in Gaps :
                /\ gap[g] = "absent" /\ \A t \in Signals : signal[t].gap # g
                /\ signal' = [signal EXCEPT ![s] = [pc |-> "inserted", gap |-> g, count |-> 1]]
    /\ UNCHANGED <<gaps, drafts, docs, stores, req, abandoned>>

\* KnowledgeGapRepo.record: INSERT .. ON CONFLICT DO UPDATE on the open gap of the
\* question waits for whoever inserts one or has its row, and starts over.
Record(s) ==
    /\ signal[s].pc = "idle"
    /\ \A t \in Signals : signal[t].pc # "inserted"
    /\ \A g \in OpenGaps : ~ GapLocked(g)
    /\ \/ \E g \in OpenGaps :
             signal' = [signal EXCEPT ![s] = [pc |-> "counted", gap |-> g, count |-> frequency[g] + 1]]
       \/ /\ OpenGaps = {}
          /\ \E g \in Gaps :
                /\ gap[g] = "absent" /\ \A t \in Signals : signal[t].gap # g
                /\ signal' = [signal EXCEPT ![s] = [pc |-> "inserted", gap |-> g, count |-> 1]]
    /\ UNCHANGED <<gaps, drafts, docs, stores, req, abandoned>>

CommitSignal(s) ==
    LET g == signal[s].gap IN
    /\ signal[s].pc \in {"counted", "inserted"}
    /\ signal' = [signal EXCEPT ![s].pc = "done"]
    /\ frequency' = [frequency EXCEPT ![g] = signal[s].count]
    /\ gap' = IF signal[s].pc = "inserted" THEN [gap EXCEPT ![g] = "open"] ELSE gap
    /\ UNCHANGED <<promotedDoc, drafts, docs, stores, req, abandoned>>

\* The turn rolls back, its signal with it.
AbortSignal(s) ==
    /\ signal[s].pc \in {"counted", "inserted"}
    /\ signal' = [signal EXCEPT ![s].pc = "failed"]
    /\ UNCHANGED <<gaps, drafts, docs, stores, req, abandoned>>

\* Mutant: the gap is not known to exist.
StartDismiss_Unchecked(p) ==
    /\ req[p].pc = "idle"
    /\ \E g \in Gaps :
          req' = [req EXCEPT ![p] = [NoReq EXCEPT !.pc = "dismiss", !.gap = g, !.loaded = gap[g]]]
    /\ UNCHANGED <<gaps, drafts, docs, stores, signal, abandoned>>

\* update_gap: the row is loaded, whatever its status, and dismissed.
StartDismiss(p) ==
    /\ req[p].pc = "idle"
    /\ \E g \in Gaps :
          /\ gap[g] # "absent"
          /\ req' = [req EXCEPT ![p] = [NoReq EXCEPT !.pc = "dismiss", !.gap = g, !.loaded = gap[g]]]
    /\ UNCHANGED <<gaps, drafts, docs, stores, signal, abandoned>>

Dismiss(p) ==
    /\ req[p].pc = "dismiss"
    /\ \/ req[p].loaded = "dismissed" /\ Go(p, "done")
       \/ req[p].loaded # "dismissed" /\ ~ GapLocked(req[p].gap) /\ Go(p, "dismissed")
    /\ UNCHANGED <<gaps, drafts, docs, stores, signal, abandoned>>

CommitDismiss(p) ==
    /\ req[p].pc = "dismissed"
    /\ Go(p, "done")
    /\ gap' = [gap EXCEPT ![req[p].gap] = "dismissed"]
    /\ UNCHANGED <<frequency, promotedDoc, drafts, docs, stores, signal, abandoned>>

-----------------------------------------------------------------------------
(* Drafts *)

\* create_from_gap: the gap may be open, promoted or dismissed.
StartDraft(p) ==
    /\ req[p].pc = "idle"
    /\ \E g \in Gaps :
          /\ gap[g] # "absent"
          /\ req' = [req EXCEPT ![p] = [NoReq EXCEPT !.pc = "insert", !.gap = g]]
    /\ UNCHANGED <<gaps, drafts, docs, stores, signal, abandoned>>

\* Mutant: the insert looks for a pending draft and waits for nobody.
Insert_CheckFirst(p) ==
    LET g == req[p].gap IN
    /\ req[p].pc = "insert"
    /\ \/ /\ Pending(g) = {}
          /\ \E d \in Drafts :
                /\ draft[d] = "absent" /\ GapOf[d] = g
                /\ \A q \in Requests : req[q].pc = "inserted" => req[q].draft # d
                /\ req' = [req EXCEPT ![p].pc = "inserted", ![p].draft = d]
       \/ Pending(g) # {} /\ Go(p, "lookup")
    /\ UNCHANGED <<gaps, drafts, docs, stores, signal, abandoned>>

\* KnowledgeDraftRepo.create: INSERT .. ON CONFLICT DO NOTHING waits for whoever
\* inserts a pending draft of the gap or is moving one out of "draft".
Insert(p) ==
    LET g == req[p].gap IN
    /\ req[p].pc = "insert"
    /\ \A q \in Requests : ~ (req[q].pc = "inserted" /\ req[q].gap = g)
    /\ \A d \in Pending(g) : ~ DraftLocked(d)
    /\ \/ /\ Pending(g) = {}
          /\ \E d \in Drafts :
                /\ draft[d] = "absent" /\ GapOf[d] = g
                /\ \A q \in Requests : req[q].pc = "inserted" => req[q].draft # d
                /\ req' = [req EXCEPT ![p].pc = "inserted", ![p].draft = d]
       \/ Pending(g) # {} /\ Go(p, "lookup")
    /\ UNCHANGED <<gaps, drafts, docs, stores, signal, abandoned>>

\* find_pending_by_gap: the request fails if the draft is no longer pending.
Lookup(p) ==
    /\ req[p].pc = "lookup"
    /\ \/ \E d \in Pending(req[p].gap) : req' = [req EXCEPT ![p].pc = "found", ![p].draft = d]
       \/ Pending(req[p].gap) = {} /\ Go(p, "failed")
    /\ UNCHANGED <<gaps, drafts, docs, stores, signal, abandoned>>

CommitDraft(p) ==
    /\ req[p].pc \in {"inserted", "found"}
    /\ Go(p, "done")
    /\ draft' = IF req[p].pc = "inserted" THEN [draft EXCEPT ![req[p].draft] = "draft"] ELSE draft
    /\ UNCHANGED <<gaps, body, published, docs, stores, signal, abandoned>>

\* update_draft: the status is checked on the row loaded; the UPDATE names the
\* draft and not its status.
StartEdit(p) ==
    /\ req[p].pc = "idle"
    /\ \E d \in Drafts :
          /\ draft[d] = "draft"
          /\ req' = [req EXCEPT ![p] = [NoReq EXCEPT !.pc = "write", !.draft = d]]
    /\ UNCHANGED <<gaps, drafts, docs, stores, signal, abandoned>>

WriteEdit(p) ==
    /\ req[p].pc = "write" /\ ~ DraftLocked(req[p].draft)
    /\ Go(p, "written")
    /\ UNCHANGED <<gaps, drafts, docs, stores, signal, abandoned>>

CommitEdit(p) ==
    /\ req[p].pc = "written"
    /\ Go(p, "done")
    /\ body' = [body EXCEPT ![req[p].draft] = p]
    /\ UNCHANGED <<gaps, draft, published, docs, stores, signal, abandoned>>

\* approve and reject find the draft, whatever its status.
StartReview(p) ==
    /\ req[p].pc = "idle"
    /\ \E d \in Drafts, pc \in {"approve", "reject"} :
          /\ draft[d] # "absent"
          /\ req' = [req EXCEPT ![p] = [NoReq EXCEPT !.pc = pc, !.draft = d, !.gap = GapOf[d]]]
    /\ UNCHANGED <<gaps, drafts, docs, stores, signal, abandoned>>

\* Mutant: the transition is not conditional.
Transition_AnyStatus(p) ==
    LET d == req[p].draft IN
    /\ req[p].pc \in {"approve", "reject"} /\ ~ DraftLocked(d)
    /\ \/ /\ req[p].pc = "approve"
          /\ req' = [req EXCEPT ![p].pc = "put", ![p].content = body[d]]
       \/ req[p].pc = "reject" /\ Go(p, "rejected")
    /\ UNCHANGED <<gaps, drafts, docs, stores, signal, abandoned>>

\* transition_status: an UPDATE with the status in its condition; the loser of a
\* race gets a conflict, the winner reads the row it has updated.
Transition(p) ==
    LET d == req[p].draft IN
    /\ req[p].pc \in {"approve", "reject"} /\ ~ DraftLocked(d)
    /\ \/ /\ draft[d] = "draft" /\ req[p].pc = "approve"
          /\ req' = [req EXCEPT ![p].pc = "put", ![p].content = body[d]]
       \/ draft[d] = "draft" /\ req[p].pc = "reject" /\ Go(p, "rejected")
       \/ draft[d] # "draft" /\ Go(p, "failed")
    /\ UNCHANGED <<gaps, drafts, docs, stores, signal, abandoned>>

CommitReject(p) ==
    /\ req[p].pc = "rejected"
    /\ Go(p, "done")
    /\ draft' = [draft EXCEPT ![req[p].draft] = "rejected"]
    /\ UNCHANGED <<gaps, body, published, docs, stores, signal, abandoned>>

-----------------------------------------------------------------------------
(* publish_document_bytes *)

\* A call to a store may raise, with or without having taken effect.
Put(p) ==
    /\ req[p].pc = "put"
    /\ \/ bytes' = bytes \cup {p} /\ Go(p, "index")
       \/ bytes' \in {bytes, bytes \cup {p}} /\ Go(p, "undoChunks")
    /\ UNCHANGED <<gaps, drafts, docs, chunks, signal, abandoned>>

Index(p) ==
    /\ req[p].pc = "index"
    /\ \/ chunks' = chunks \cup {p} /\ Go(p, "settle")
       \/ chunks' \in {chunks, chunks \cup {p}} /\ Go(p, "undoChunks")
    /\ UNCHANGED <<gaps, drafts, docs, bytes, signal, abandoned>>

\* _rollback, in the reverse order.
UndoChunks(p) ==
    /\ req[p].pc = "undoChunks"
    /\ chunks' = chunks \ {p} /\ Go(p, "undoBytes")
    /\ UNCHANGED <<gaps, drafts, docs, bytes, signal, abandoned>>

\* Mutant: the bytes are left.
UndoBytes_Keep(p) ==
    /\ req[p].pc = "undoBytes" /\ Go(p, "undone")
    /\ UNCHANGED <<gaps, drafts, docs, stores, signal, abandoned>>

UndoBytes(p) ==
    /\ req[p].pc = "undoBytes"
    /\ bytes' = bytes \ {p} /\ Go(p, "undone")
    /\ UNCHANGED <<gaps, drafts, docs, chunks, signal, abandoned>>

\* The row of the document is deleted, the draft goes back to "draft", and both
\* are committed: for everybody else nothing has happened.
CommitUndone(p) ==
    /\ req[p].pc = "undone" /\ Go(p, "done")
    /\ UNCHANGED <<gaps, drafts, docs, stores, signal, abandoned>>

\* Mutant: the draft is approved at once, not with its document.
LoadGap_CommitsDraft(p) ==
    /\ req[p].pc = "settle"
    /\ req' = [req EXCEPT ![p].pc = "promote", ![p].loaded = gap[req[p].gap]]
    /\ draft' = [draft EXCEPT ![req[p].draft] = "approved"]
    /\ UNCHANGED <<gaps, body, published, docs, stores, signal, abandoned>>

\* _promote_gap loads the gap, the flush writes it.
LoadGap(p) ==
    /\ req[p].pc = "settle"
    /\ req' = [req EXCEPT ![p].pc = "promote", ![p].loaded = gap[req[p].gap]]
    /\ UNCHANGED <<gaps, drafts, docs, stores, signal, abandoned>>

WriteGap(p) ==
    /\ req[p].pc = "promote" /\ ~ GapLocked(req[p].gap) /\ Go(p, "promoted")
    /\ UNCHANGED <<gaps, drafts, docs, stores, signal, abandoned>>

CommitApproval(p) ==
    LET d == req[p].draft
        g == req[p].gap
    IN  /\ req[p].pc = "promoted" /\ Go(p, "done")
        /\ docs' = docs \cup {p}
        /\ draft' = [draft EXCEPT ![d] = "approved"]
        /\ published' = [published EXCEPT ![d] = p]
        /\ gap' = IF req[p].loaded # "promoted" THEN [gap EXCEPT ![g] = "promoted"] ELSE gap
        /\ promotedDoc' = [promotedDoc EXCEPT ![g] = p]
        /\ UNCHANGED <<frequency, body, stores, signal, abandoned>>

\* A statement or a commit fails, an undoing call raises, or the process dies:
\* PostgreSQL rolls back, the stores stay as they are.
Abort(p) ==
    /\ req[p].pc \in Active
    /\ Go(p, "failed")
    /\ abandoned' = IF req[p].pc \in Publishing THEN abandoned \cup {p} ELSE abandoned
    /\ UNCHANGED <<gaps, drafts, docs, stores, signal>>

SignalStep(s) == Record(s) \/ CommitSignal(s) \/ AbortSignal(s)
DraftStep(p) ==
    \/ StartDraft(p) \/ Insert(p) \/ Lookup(p) \/ CommitDraft(p)
    \/ StartEdit(p) \/ WriteEdit(p) \/ CommitEdit(p)
PublishStep(p) ==
    \/ Put(p) \/ Index(p) \/ UndoChunks(p) \/ UndoBytes(p) \/ CommitUndone(p)
    \/ LoadGap(p) \/ WriteGap(p) \/ CommitApproval(p)
ReviewStep(p) == StartReview(p) \/ Transition(p) \/ CommitReject(p) \/ PublishStep(p)
DismissStep(p) == StartDismiss(p) \/ Dismiss(p) \/ CommitDismiss(p)

Next ==
    \/ \E s \in Signals : SignalStep(s)
    \/ \E p \in Requests : DraftStep(p) \/ ReviewStep(p) \/ DismissStep(p) \/ Abort(p)

Spec == Init /\ [][Next]_vars

-----------------------------------------------------------------------------

\* The frequency of a gap is the number of signals committed in it, however many
\* turns count at the same time and whoever dismisses or promotes the gap.
SignalsCounted ==
    \A g \in Gaps :
        frequency[g] = Cardinality({s \in Signals : signal[s].pc = "done" /\ signal[s].gap = g})

\* A question has one open gap, a gap one pending draft.
OnePending ==
    /\ \A f, g \in OpenGaps : f = g
    /\ \A g \in Gaps : \A c, d \in Pending(g) : c = d

\* An approved draft has its document in all three stores, no draft has two, and
\* a promoted gap names a document of a draft of its own.
\* This is about publication: a document deleted later leaves its draft approved.
PublishedWhole ==
    /\ \A d \in Drafts : draft[d] = "approved" => published[d] \in docs
    /\ \A p \in docs : /\ p \in bytes /\ p \in chunks
                       /\ req[p].draft \in Drafts /\ published[req[p].draft] = p
    /\ \A g \in Gaps : gap[g] = "promoted" =>
          promotedDoc[g] \in docs /\ GapOf[req[promotedDoc[g]].draft] = g

\* Bytes and chunks without a document are on their way to one or out again, or
\* were left by a publication that was broken off.
NoOrphans ==
    \A p \in (bytes \cup chunks) \ (docs \cup abandoned) : req[p].pc \in Publishing

\* A review is final: no other request ever changes an approved or rejected draft.
ReviewIsFinal ==
    [][\A d \in Drafts : draft[d] \in {"approved", "rejected"} => draft'[d] = draft[d]]_draft
=============================================================================
