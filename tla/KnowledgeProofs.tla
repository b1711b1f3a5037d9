-------------------------- MODULE KnowledgeProofs --------------------------
(***************************************************************************)
(* Proofs about Knowledge, for any gaps, drafts, turns and requests.       *)
(***************************************************************************)
EXTENDS Knowledge, FiniteSetTheorems, TLAPS

HoldsGap(p) == req[p].pc \in {"promoted", "dismissed"}
HoldsDraft(p) == req[p].pc \in Reviewing \cup {"written"}
Counts(s) == signal[s].pc = "counted"
CountedIn(g) == {s \in Signals : signal[s].pc = "done" /\ signal[s].gap = g}

\* A row has one writer, a free entry of an index one inserter.
Exclusive ==
    /\ \A p, q \in Requests : HoldsDraft(p) /\ HoldsDraft(q) /\ req[p].draft = req[q].draft => p = q
    /\ \A p, q \in Requests : HoldsGap(p) /\ HoldsGap(q) /\ req[p].gap = req[q].gap => p = q
    /\ \A p, q \in Requests :
          req[p].pc = "inserted" /\ req[q].pc = "inserted" /\ req[p].gap = req[q].gap => p = q
    /\ \A p \in Requests, s \in Signals : HoldsGap(p) /\ Counts(s) => req[p].gap # signal[s].gap
    /\ \A s, t \in Signals : Counts(s) /\ Counts(t) /\ signal[s].gap = signal[t].gap => s = t
    /\ \A s, t \in Signals : signal[s].pc = "inserted" /\ signal[t].pc = "inserted" => s = t

\* What a signal is about to commit is right for the rows it has locked.
SignalOK(s) ==
    /\ signal[s].pc \in {"counted", "inserted", "done"} => signal[s].gap \in Gaps
    /\ Counts(s) => gap[signal[s].gap] = "open" /\ signal[s].count = frequency[signal[s].gap] + 1
    /\ signal[s].pc = "inserted" =>
          gap[signal[s].gap] = "absent" /\ signal[s].count = 1 /\ OpenGaps = {}
    /\ signal[s].pc = "done" => gap[signal[s].gap] # "absent"

\* The rows a request has found or taken.
RowOK(p) ==
    /\ req[p].pc \in Drafting \cup Reviewing \cup {"approve", "reject", "dismiss", "dismissed"} =>
          req[p].gap \in Gaps /\ gap[req[p].gap] # "absent"
    /\ req[p].pc = "inserted" =>
          /\ req[p].draft \in Drafts /\ draft[req[p].draft] = "absent"
          /\ GapOf[req[p].draft] = req[p].gap /\ Pending(req[p].gap) = {}
    /\ req[p].pc \in Reviewing \cup {"approve", "reject", "write", "written"} =>
          req[p].draft \in Drafts /\ draft[req[p].draft] # "absent"
    /\ req[p].pc \in Reviewing \cup {"approve", "reject"} => req[p].gap = GapOf[req[p].draft]
    /\ req[p].pc \in Reviewing => draft[req[p].draft] = "draft"

\* What of a document is in the stores.
StoreOK(p) ==
    /\ req[p].pc = "index" => p \in bytes
    /\ req[p].pc \in {"settle", "promote", "promoted"} => p \in bytes /\ p \in chunks
    /\ req[p].pc = "undoBytes" => p \notin chunks
    /\ req[p].pc = "undone" => p \notin bytes /\ p \notin chunks
    /\ p \in bytes \cup chunks => p \in docs \/ p \in abandoned \/ req[p].pc \in Publishing
    /\ p \in docs =>
          /\ req[p].pc = "done" /\ p \in bytes /\ p \in chunks
          /\ req[p].draft \in Drafts
          /\ published[req[p].draft] = p /\ draft[req[p].draft] = "approved"

\* What the committed rows say of each other.
TableOK ==
    /\ OnePending
    /\ \A d \in Drafts : draft[d] # "absent" => gap[GapOf[d]] # "absent"
    /\ \A d \in Drafts : draft[d] = "approved" => published[d] \in docs
    /\ \A g \in Gaps : gap[g] = "promoted" =>
          promotedDoc[g] \in docs /\ GapOf[req[promotedDoc[g]].draft] = g

IInv ==
    /\ TypeOK
    /\ Exclusive
    /\ \A s \in Signals : SignalOK(s)
    /\ \A p \in Requests : RowOK(p) /\ StoreOK(p)
    /\ TableOK
    /\ \A g \in Gaps : frequency[g] = Cardinality(CountedIn(g))

SignalRecord == [pc : SignalPC, gap : Gaps \cup {None}, count : Nat]
ReqRecord == [pc : ReqPC, draft : Drafts \cup {None}, gap : Gaps \cup {None},
              loaded : GapStatus, content : Requests \cup {None}]

-----------------------------------------------------------------------------
(* Types *)

LEMMA PCs ==
    /\ Publishing \subseteq ReqPC /\ Reviewing \subseteq ReqPC /\ Drafting \subseteq ReqPC
    /\ {"write", "written", "approve", "reject", "dismiss", "dismissed"} \subseteq ReqPC
    /\ {"idle", "done", "failed"} \subseteq ReqPC
  BY DEF ReqPC, Active, Reviewing, Publishing, Drafting

LEMMA InitInv == Init => IInv
<1> SUFFICES ASSUME Init PROVE IInv
  OBVIOUS
<1>1. NoSignal \in SignalRecord /\ NoReq \in ReqRecord
  BY PCs DEF NoSignal, NoReq, SignalRecord, ReqRecord, SignalPC, GapStatus
<1>2. /\ signal \in [Signals -> SignalRecord] /\ req \in [Requests -> ReqRecord]
      /\ \A s \in Signals : signal[s].pc = "idle"
      /\ \A p \in Requests : req[p].pc = "idle"
  BY <1>1 DEF Init, NoSignal, NoReq
<1>3. TypeOK
  BY <1>2 DEF Init, TypeOK, SignalRecord, ReqRecord
<1>4. Exclusive
  BY <1>2 DEF Exclusive, HoldsDraft, HoldsGap, Counts, Reviewing, Publishing
<1>5. \A s \in Signals : SignalOK(s)
  BY <1>2 DEF SignalOK, Counts
<1>6. \A p \in Requests : RowOK(p) /\ StoreOK(p)
  BY <1>2 DEF RowOK, StoreOK, Reviewing, Publishing, Drafting, Init
<1>7. TableOK
  BY KnowledgeAssumption DEF TableOK, OnePending, OpenGaps, Pending, Init
<1>8. \A g \in Gaps : CountedIn(g) = {}
  BY <1>2 DEF CountedIn
<1>9. \A g \in Gaps : frequency[g] = Cardinality(CountedIn(g))
  BY <1>8, FS_EmptySet DEF Init
<1> QED
  BY <1>3, <1>4, <1>5, <1>6, <1>7, <1>9 DEF IInv

\* A request moves on, and its record stays a record.
LEMMA GoType ==
    ASSUME TypeOK, NEW p \in Requests, NEW pc \in ReqPC, Go(p, pc)
    PROVE  /\ req' \in [Requests -> ReqRecord]
           /\ \A q \in Requests \ {p} : req'[q] = req[q]
           /\ req'[p].pc = pc /\ req'[p].draft = req[p].draft /\ req'[p].gap = req[p].gap
<1>1. req \in [Requests -> ReqRecord]
  BY DEF TypeOK, ReqRecord
<1>2. req' = [req EXCEPT ![p].pc = pc]
  BY DEF Go
<1> QED
  BY <1>1, <1>2 DEF ReqRecord

LEMMA StartType ==
    ASSUME TypeOK, NEW p \in Requests, NEW r \in ReqRecord, req' = [req EXCEPT ![p] = r]
    PROVE  /\ req' \in [Requests -> ReqRecord]
           /\ \A q \in Requests \ {p} : req'[q] = req[q]
           /\ req'[p] = r
<1>1. req \in [Requests -> ReqRecord]
  BY DEF TypeOK, ReqRecord
<1> QED
  BY <1>1

\* A request finds a draft, content or the status of a gap.
LEMMA FindType ==
    ASSUME TypeOK, NEW p \in Requests, NEW pc \in ReqPC, NEW d \in Drafts,
           req' = [req EXCEPT ![p].pc = pc, ![p].draft = d]
    PROVE  /\ req' \in [Requests -> ReqRecord]
           /\ \A q \in Requests \ {p} : req'[q] = req[q]
           /\ req'[p].pc = pc /\ req'[p].draft = d /\ req'[p].gap = req[p].gap
<1>1. req \in [Requests -> ReqRecord]
  BY DEF TypeOK, ReqRecord
<1> QED
  BY <1>1 DEF ReqRecord

LEMMA ContentType ==
    ASSUME TypeOK, NEW p \in Requests, NEW pc \in ReqPC, NEW d \in Drafts,
           req' = [req EXCEPT ![p].pc = pc, ![p].content = body[d]]
    PROVE  /\ req' \in [Requests -> ReqRecord]
           /\ \A q \in Requests \ {p} : req'[q] = req[q]
           /\ req'[p].pc = pc /\ req'[p].draft = req[p].draft /\ req'[p].gap = req[p].gap
<1>1. req \in [Requests -> ReqRecord] /\ body[d] \in Requests \cup {None}
  BY DEF TypeOK, ReqRecord
<1> QED
  BY <1>1 DEF ReqRecord

LEMMA LoadType ==
    ASSUME TypeOK, NEW p \in Requests, NEW pc \in ReqPC, gap[req[p].gap] \in GapStatus,
           req' = [req EXCEPT ![p].pc = pc, ![p].loaded = gap[req[p].gap]]
    PROVE  /\ req' \in [Requests -> ReqRecord]
           /\ \A q \in Requests \ {p} : req'[q] = req[q]
           /\ req'[p].pc = pc /\ req'[p].draft = req[p].draft /\ req'[p].gap = req[p].gap
<1>1. req \in [Requests -> ReqRecord]
  BY DEF TypeOK, ReqRecord
<1> QED
  BY <1>1 DEF ReqRecord

-----------------------------------------------------------------------------
(* Steps of a request that leave the committed rows as they are *)

\* A request that moves on takes from the others only rows that are free.
LEMMA RequestMoves ==
    ASSUME IInv, NEW p \in Requests, UNCHANGED <<gaps, drafts, docs, signal>>,
           p \notin docs,
           req' \in [Requests -> ReqRecord],
           \A q \in Requests \ {p} : req'[q] = req[q],
           bytes' \subseteq Requests, chunks' \subseteq Requests, abandoned' \subseteq Requests,
           \A q \in Requests \ {p} : /\ q \in bytes' <=> q \in bytes
                                     /\ q \in chunks' <=> q \in chunks
                                     /\ q \in abandoned' <=> q \in abandoned,
           HoldsDraft(p)' =>
              \A q \in Requests \ {p} : HoldsDraft(q) => req[q].draft # req'[p].draft,
           HoldsGap(p)' =>
              /\ \A q \in Requests \ {p} : HoldsGap(q) => req[q].gap # req'[p].gap
              /\ \A s \in Signals : Counts(s) => signal[s].gap # req'[p].gap,
           req'[p].pc = "inserted" =>
              \A q \in Requests \ {p} : req[q].pc = "inserted" => req[q].gap # req'[p].gap,
           RowOK(p)', StoreOK(p)'
    PROVE  IInv'
<1>1. TypeOK'
  BY DEF IInv, TypeOK, ReqRecord, gaps, drafts
<1>2. \A q \in Requests \ {p} : /\ HoldsDraft(q)' <=> HoldsDraft(q)
                                /\ HoldsGap(q)' <=> HoldsGap(q)
  BY DEF HoldsDraft, HoldsGap
<1>3. \A s \in Signals : Counts(s)' <=> Counts(s)
  BY DEF Counts
<1>4. Exclusive'
  BY <1>2, <1>3 DEF IInv, Exclusive
<1>5. \A s \in Signals : SignalOK(s)'
  BY <1>3 DEF IInv, SignalOK, OpenGaps, gaps
<1>6. \A q \in Requests \ {p} : RowOK(q)'
  BY DEF IInv, RowOK, Pending, gaps, drafts
<1>7. \A q \in Requests \ {p} : StoreOK(q)'
  BY DEF IInv, StoreOK, drafts
<1>8. TableOK'
  <2>1. OnePending'
    BY DEF IInv, TableOK, OnePending, OpenGaps, Pending, gaps, drafts
  <2>2. docs \subseteq Requests
    BY DEF IInv, TypeOK
  <2>3. \A d \in Drafts : draft'[d] # "absent" => gap'[GapOf[d]] # "absent"
    BY DEF IInv, TableOK, drafts, gaps
  <2>5. \A d \in Drafts : draft'[d] = "approved" => published'[d] \in docs'
    BY DEF IInv, TableOK, drafts
  <2>4. \A g \in Gaps : gap'[g] = "promoted" =>
           promotedDoc'[g] \in docs' /\ GapOf[req'[promotedDoc'[g]].draft] = g
    BY <2>2 DEF IInv, TableOK, gaps
  <2> QED
    BY <2>1, <2>3, <2>4, <2>5, ZenonT(20) DEF TableOK
<1>9. \A g \in Gaps : frequency'[g] = Cardinality(CountedIn(g))'
  BY DEF IInv, CountedIn, gaps
<1> QED
  BY <1>1, <1>4, <1>5, <1>6, <1>7, <1>8, <1>9 DEF IInv

\* The same for a request that touches no store and is not publishing.
LEMMA QuietMoves ==
    ASSUME IInv, NEW p \in Requests,
           UNCHANGED <<gaps, drafts, docs, stores, signal, abandoned>>,
           req[p].pc # "done", req[p].pc \notin Publishing,
           req' \in [Requests -> ReqRecord],
           \A q \in Requests \ {p} : req'[q] = req[q],
           HoldsDraft(p)' =>
              \A q \in Requests \ {p} : HoldsDraft(q) => req[q].draft # req'[p].draft,
           HoldsGap(p)' =>
              /\ \A q \in Requests \ {p} : HoldsGap(q) => req[q].gap # req'[p].gap
              /\ \A s \in Signals : Counts(s) => signal[s].gap # req'[p].gap,
           req'[p].pc = "inserted" =>
              \A q \in Requests \ {p} : req[q].pc = "inserted" => req[q].gap # req'[p].gap,
           RowOK(p)', req'[p].pc \notin Publishing \ {"put"}
    PROVE  IInv'
<1>1. StoreOK(p)
  BY DEF IInv
<1>2. p \notin docs
  BY <1>1 DEF StoreOK
<1>3. StoreOK(p)'
  BY <1>1, <1>2 DEF StoreOK, stores, Publishing
<1>4. bytes' \subseteq Requests /\ chunks' \subseteq Requests /\ abandoned' \subseteq Requests
  BY DEF IInv, TypeOK, stores
<1> QED
  BY <1>2, <1>3, <1>4, RequestMoves DEF stores

LEMMA StartKeepsInv ==
    ASSUME IInv, NEW p \in Requests,
           StartDismiss(p) \/ StartDraft(p) \/ StartEdit(p) \/ StartReview(p)
    PROVE  IInv'
<1>1. TypeOK
  BY DEF IInv
<1>2. UNCHANGED <<gaps, drafts, docs, stores, signal, abandoned>> /\ req[p].pc = "idle"
  BY DEF StartDismiss, StartDraft, StartEdit, StartReview
<1>3. CASE StartDismiss(p)
  <2>1. PICK g \in Gaps : gap[g] # "absent"
           /\ req' = [req EXCEPT ![p] = [NoReq EXCEPT !.pc = "dismiss", !.gap = g, !.loaded = gap[g]]]
    BY <1>3 DEF StartDismiss
  <2> DEFINE r == [NoReq EXCEPT !.pc = "dismiss", !.gap = g, !.loaded = gap[g]]
  <2>2. gap[g] \in GapStatus
    BY <1>1, <2>1 DEF TypeOK
  <2>3. r \in ReqRecord /\ r.pc = "dismiss" /\ r.gap = g
    BY <2>2, PCs DEF NoReq, ReqRecord
  <2> HIDE DEF r
  <2>4. /\ req' \in [Requests -> ReqRecord] /\ req'[p] = r
        /\ \A q \in Requests \ {p} : req'[q] = req[q]
    BY <1>1, <2>1, <2>3, StartType DEF r
  <2>5. RowOK(p)'
    BY <1>2, <2>1, <2>3, <2>4 DEF RowOK, Reviewing, Publishing, Drafting, gaps
  <2> QED
    BY <1>2, <2>3, <2>4, <2>5, QuietMoves DEF HoldsDraft, HoldsGap, Reviewing, Publishing
<1>4. CASE StartDraft(p)
  <2>1. PICK g \in Gaps : gap[g] # "absent"
           /\ req' = [req EXCEPT ![p] = [NoReq EXCEPT !.pc = "insert", !.gap = g]]
    BY <1>4 DEF StartDraft
  <2> DEFINE r == [NoReq EXCEPT !.pc = "insert", !.gap = g]
  <2>2. r \in ReqRecord /\ r.pc = "insert" /\ r.gap = g
    BY PCs DEF NoReq, ReqRecord, GapStatus, Drafting
  <2> HIDE DEF r
  <2>3. /\ req' \in [Requests -> ReqRecord] /\ req'[p] = r
        /\ \A q \in Requests \ {p} : req'[q] = req[q]
    BY <1>1, <2>1, <2>2, StartType DEF r
  <2>4. RowOK(p)'
    BY <1>2, <2>1, <2>2, <2>3 DEF RowOK, Reviewing, Publishing, Drafting, gaps
  <2> QED
    BY <1>2, <2>2, <2>3, <2>4, QuietMoves DEF HoldsDraft, HoldsGap, Reviewing, Publishing
<1>5. CASE StartEdit(p)
  <2>1. PICK d \in Drafts : draft[d] = "draft"
           /\ req' = [req EXCEPT ![p] = [NoReq EXCEPT !.pc = "write", !.draft = d]]
    BY <1>5 DEF StartEdit
  <2> DEFINE r == [NoReq EXCEPT !.pc = "write", !.draft = d]
  <2>2. r \in ReqRecord /\ r.pc = "write" /\ r.draft = d
    BY PCs DEF NoReq, ReqRecord, GapStatus
  <2> HIDE DEF r
  <2>3. /\ req' \in [Requests -> ReqRecord] /\ req'[p] = r
        /\ \A q \in Requests \ {p} : req'[q] = req[q]
    BY <1>1, <2>1, <2>2, StartType DEF r
  <2>4. RowOK(p)'
    BY <1>2, <2>1, <2>2, <2>3 DEF RowOK, Reviewing, Publishing, Drafting, drafts
  <2> QED
    BY <1>2, <2>2, <2>3, <2>4, QuietMoves DEF HoldsDraft, HoldsGap, Reviewing, Publishing
<1>6. CASE StartReview(p)
  <2>1. PICK d \in Drafts, pc \in {"approve", "reject"} : draft[d] # "absent"
           /\ req' = [req EXCEPT ![p] = [NoReq EXCEPT !.pc = pc, !.draft = d, !.gap = GapOf[d]]]
    BY <1>6 DEF StartReview
  <2> DEFINE r == [NoReq EXCEPT !.pc = pc, !.draft = d, !.gap = GapOf[d]]
  <2>2. r \in ReqRecord /\ r.pc = pc /\ r.draft = d /\ r.gap = GapOf[d] /\ GapOf[d] \in Gaps
    BY PCs, KnowledgeAssumption DEF NoReq, ReqRecord, GapStatus
  <2> HIDE DEF r
  <2>3. /\ req' \in [Requests -> ReqRecord] /\ req'[p] = r
        /\ \A q \in Requests \ {p} : req'[q] = req[q]
    BY <1>1, <2>1, <2>2, StartType DEF r
  <2>4. gap[GapOf[d]] # "absent"
    BY <2>1 DEF IInv, TableOK
  <2>5. RowOK(p)'
    BY <1>2, <2>1, <2>2, <2>3, <2>4 DEF RowOK, Reviewing, Publishing, Drafting, gaps, drafts
  <2> QED
    BY <1>2, <2>2, <2>3, <2>5, QuietMoves DEF HoldsDraft, HoldsGap, Reviewing, Publishing
<1> QED
  BY <1>3, <1>4, <1>5, <1>6

LEMMA InsertKeepsInv ==
    ASSUME IInv, NEW p \in Requests, Insert(p)
    PROVE  IInv'
<1> DEFINE g == req[p].gap
<1>1. TypeOK /\ RowOK(p)
  BY DEF IInv
<1>2. /\ UNCHANGED <<gaps, drafts, docs, stores, signal, abandoned>> /\ req[p].pc = "insert"
      /\ \A q \in Requests : ~ (req[q].pc = "inserted" /\ req[q].gap = g)
  BY DEF Insert
<1>3. g \in Gaps /\ gap[g] # "absent"
  BY <1>1, <1>2 DEF RowOK, Drafting
<1>4. ASSUME NEW d \in Drafts, draft[d] = "absent", GapOf[d] = g, Pending(g) = {},
             req' = [req EXCEPT ![p].pc = "inserted", ![p].draft = d]
      PROVE  IInv'
  <2>1. /\ req' \in [Requests -> ReqRecord]
        /\ \A q \in Requests \ {p} : req'[q] = req[q]
        /\ req'[p].pc = "inserted" /\ req'[p].draft = d /\ req'[p].gap = g
    BY <1>1, <1>4, PCs, FindType DEF Drafting
  <2>2. RowOK(p)'
    BY <1>2, <1>3, <1>4, <2>1 DEF RowOK, Drafting, Reviewing, Publishing, Pending, gaps, drafts
  <2> QED
    BY <1>2, <2>1, <2>2, QuietMoves DEF HoldsDraft, HoldsGap, Reviewing, Publishing
<1>5. ASSUME Go(p, "lookup")
      PROVE  IInv'
  <2>1. /\ req' \in [Requests -> ReqRecord]
        /\ \A q \in Requests \ {p} : req'[q] = req[q]
        /\ req'[p].pc = "lookup" /\ req'[p].gap = g
    BY <1>1, <1>5, PCs, GoType DEF Drafting
  <2>2. RowOK(p)'
    BY <1>2, <1>3, <2>1 DEF RowOK, Drafting, Reviewing, Publishing, gaps
  <2> QED
    BY <1>2, <2>1, <2>2, QuietMoves DEF HoldsDraft, HoldsGap, Reviewing, Publishing
<1> QED
  BY <1>4, <1>5 DEF Insert

LEMMA LookupKeepsInv ==
    ASSUME IInv, NEW p \in Requests, Lookup(p)
    PROVE  IInv'
<1> DEFINE g == req[p].gap
<1>1. TypeOK /\ RowOK(p)
  BY DEF IInv
<1>2. UNCHANGED <<gaps, drafts, docs, stores, signal, abandoned>> /\ req[p].pc = "lookup"
  BY DEF Lookup
<1>3. g \in Gaps /\ gap[g] # "absent"
  BY <1>1, <1>2 DEF RowOK, Drafting
<1>4. ASSUME NEW d \in Drafts, req' = [req EXCEPT ![p].pc = "found", ![p].draft = d]
      PROVE  IInv'
  <2>1. /\ req' \in [Requests -> ReqRecord]
        /\ \A q \in Requests \ {p} : req'[q] = req[q]
        /\ req'[p].pc = "found" /\ req'[p].gap = g
    BY <1>1, <1>4, PCs, FindType DEF Drafting
  <2>2. RowOK(p)'
    BY <1>2, <1>3, <2>1 DEF RowOK, Drafting, Reviewing, Publishing, gaps
  <2> QED
    BY <1>2, <2>1, <2>2, QuietMoves DEF HoldsDraft, HoldsGap, Reviewing, Publishing
<1>5. ASSUME Go(p, "failed")
      PROVE  IInv'
  <2>1. /\ req' \in [Requests -> ReqRecord] /\ req'[p].pc = "failed"
        /\ \A q \in Requests \ {p} : req'[q] = req[q]
    BY <1>1, <1>5, PCs, GoType
  <2>2. RowOK(p)'
    BY <2>1 DEF RowOK, Drafting, Reviewing, Publishing
  <2> QED
    BY <1>2, <2>1, <2>2, QuietMoves DEF HoldsDraft, HoldsGap, Reviewing, Publishing
<1>6. Pending(g) \subseteq Drafts
  BY DEF Pending
<1> QED
  BY <1>4, <1>5, <1>6 DEF Lookup

LEMMA WriteEditKeepsInv ==
    ASSUME IInv, NEW p \in Requests, WriteEdit(p)
    PROVE  IInv'
<1>1. TypeOK /\ RowOK(p)
  BY DEF IInv
<1>2. /\ UNCHANGED <<gaps, drafts, docs, stores, signal, abandoned>>
      /\ req[p].pc = "write" /\ Go(p, "written")
      /\ \A q \in Requests : HoldsDraft(q) => req[q].draft # req[p].draft
  BY DEF WriteEdit, DraftLocked, HoldsDraft
<1>3. /\ req' \in [Requests -> ReqRecord] /\ req'[p].pc = "written"
      /\ req'[p].draft = req[p].draft
      /\ \A q \in Requests \ {p} : req'[q] = req[q]
  BY <1>1, <1>2, PCs, GoType
<1>4. RowOK(p)'
  BY <1>1, <1>2, <1>3 DEF RowOK, Drafting, Reviewing, Publishing, drafts
<1> QED
  BY <1>2, <1>3, <1>4, QuietMoves DEF HoldsGap, Publishing

\* Whoever moves a draft out of "draft" finds its row free.
LEMMA TransitionKeepsInv ==
    ASSUME IInv, NEW p \in Requests, Transition(p)
    PROVE  IInv'
<1> DEFINE d == req[p].draft
<1>1. TypeOK /\ RowOK(p)
  BY DEF IInv
<1>2. /\ UNCHANGED <<gaps, drafts, docs, stores, signal, abandoned>>
      /\ req[p].pc \in {"approve", "reject"}
      /\ \A q \in Requests : HoldsDraft(q) => req[q].draft # d
  BY DEF Transition, DraftLocked, HoldsDraft
<1>3. /\ d \in Drafts /\ draft[d] # "absent" /\ req[p].gap = GapOf[d]
      /\ req[p].gap \in Gaps /\ gap[req[p].gap] # "absent"
  BY <1>1, <1>2 DEF RowOK
<1>4. ASSUME draft[d] = "draft", NEW pc \in {"put", "rejected"},
             req' \in [Requests -> ReqRecord], \A q \in Requests \ {p} : req'[q] = req[q],
             req'[p].pc = pc, req'[p].draft = d, req'[p].gap = req[p].gap
      PROVE  IInv'
  <2>1. RowOK(p)'
    BY <1>2, <1>3, <1>4 DEF RowOK, Drafting, Reviewing, Publishing, drafts, gaps
  <2> QED
    BY <1>2, <1>4, <2>1, QuietMoves DEF HoldsGap, Publishing
<1>5. CASE draft[d] = "draft" /\ req[p].pc = "approve"
  <2>1. req' = [req EXCEPT ![p].pc = "put", ![p].content = body[d]]
    BY <1>5 DEF Transition
  <2> QED
    BY <1>1, <1>3, <1>4, <1>5, <2>1, PCs, ContentType DEF Publishing
<1>6. CASE draft[d] = "draft" /\ req[p].pc = "reject"
  <2>1. Go(p, "rejected")
    BY <1>6 DEF Transition
  <2> QED
    BY <1>1, <1>4, <1>6, <2>1, PCs, GoType DEF Reviewing
<1>7. CASE draft[d] # "draft"
  <2>1. Go(p, "failed")
    BY <1>7 DEF Transition
  <2>2. /\ req' \in [Requests -> ReqRecord] /\ req'[p].pc = "failed"
        /\ \A q \in Requests \ {p} : req'[q] = req[q]
    BY <1>1, <2>1, PCs, GoType
  <2>3. RowOK(p)'
    BY <2>2 DEF RowOK, Drafting, Reviewing, Publishing
  <2> QED
    BY <1>2, <2>2, <2>3, QuietMoves DEF HoldsDraft, HoldsGap, Reviewing, Publishing
<1> QED
  BY <1>2, <1>5, <1>6, <1>7

LEMMA DismissKeepsInv ==
    ASSUME IInv, NEW p \in Requests, Dismiss(p)
    PROVE  IInv'
<1>1. TypeOK /\ RowOK(p)
  BY DEF IInv
<1>2. UNCHANGED <<gaps, drafts, docs, stores, signal, abandoned>> /\ req[p].pc = "dismiss"
  BY DEF Dismiss
<1>3. req[p].gap \in Gaps /\ gap[req[p].gap] # "absent"
  BY <1>1, <1>2 DEF RowOK
<1>4. CASE Go(p, "done")
  <2>1. /\ req' \in [Requests -> ReqRecord] /\ req'[p].pc = "done"
        /\ \A q \in Requests \ {p} : req'[q] = req[q]
    BY <1>1, <1>4, PCs, GoType
  <2>2. RowOK(p)'
    BY <2>1 DEF RowOK, Drafting, Reviewing, Publishing
  <2> QED
    BY <1>2, <2>1, <2>2, QuietMoves DEF HoldsDraft, HoldsGap, Reviewing, Publishing
<1>5. CASE ~ GapLocked(req[p].gap) /\ Go(p, "dismissed")
  <2>1. /\ req' \in [Requests -> ReqRecord] /\ req'[p].pc = "dismissed"
        /\ req'[p].gap = req[p].gap
        /\ \A q \in Requests \ {p} : req'[q] = req[q]
    BY <1>1, <1>5, PCs, GoType
  <2>2. RowOK(p)'
    BY <1>2, <1>3, <2>1 DEF RowOK, Drafting, Reviewing, Publishing, gaps
  <2>3. /\ \A q \in Requests : HoldsGap(q) => req[q].gap # req[p].gap
        /\ \A s \in Signals : Counts(s) => signal[s].gap # req[p].gap
    BY <1>5 DEF GapLocked, HoldsGap, Counts
  <2> QED
    BY <1>2, <2>1, <2>2, <2>3, QuietMoves DEF HoldsDraft, Reviewing, Publishing
<1> QED
  BY <1>4, <1>5 DEF Dismiss

-----------------------------------------------------------------------------
(* Publishing *)

\* A publication that moves on has its draft already.
LEMMA PublishMoves ==
    ASSUME IInv, NEW p \in Requests, UNCHANGED <<gaps, drafts, docs, signal, abandoned>>,
           req[p].pc \in Publishing, NEW pc \in Publishing,
           req' \in [Requests -> ReqRecord], \A q \in Requests \ {p} : req'[q] = req[q],
           req'[p].pc = pc, req'[p].draft = req[p].draft, req'[p].gap = req[p].gap,
           bytes' \in {bytes, bytes \cup {p}, bytes \ {p}},
           chunks' \in {chunks, chunks \cup {p}, chunks \ {p}},
           pc = "promoted" =>
              /\ \A q \in Requests : HoldsGap(q) => req[q].gap # req[p].gap
              /\ \A s \in Signals : Counts(s) => signal[s].gap # req[p].gap,
           StoreOK(p)'
    PROVE  IInv'
<1>1. TypeOK /\ Exclusive /\ RowOK(p) /\ StoreOK(p)
  BY DEF IInv
<1>2. /\ bytes' \subseteq Requests /\ chunks' \subseteq Requests /\ abandoned' \subseteq Requests
      /\ \A q \in Requests \ {p} : /\ q \in bytes' <=> q \in bytes
                                   /\ q \in chunks' <=> q \in chunks
                                   /\ q \in abandoned' <=> q \in abandoned
  BY <1>1 DEF TypeOK
<1>3. p \notin docs
  BY <1>1 DEF StoreOK, Publishing
<1>4. HoldsDraft(p)
  BY DEF HoldsDraft, Reviewing
<1>5. \A q \in Requests \ {p} : HoldsDraft(q) => req[q].draft # req'[p].draft
  BY <1>1, <1>4 DEF Exclusive
<1>6. HoldsGap(p)' <=> pc = "promoted"
  BY DEF HoldsGap, Publishing
<1>7. RowOK(p)'
  BY <1>1 DEF RowOK, Drafting, Reviewing, Publishing, gaps, drafts
<1>8. req'[p].pc # "inserted"
  BY DEF Publishing
<1> QED
  BY <1>2, <1>3, <1>5, <1>6, <1>7, <1>8, RequestMoves

LEMMA StoreKeepsInv ==
    ASSUME IInv, NEW p \in Requests,
           Put(p) \/ Index(p) \/ UndoChunks(p) \/ UndoBytes(p)
    PROVE  IInv'
<1>1. TypeOK /\ StoreOK(p)
  BY DEF IInv
<1>2. ASSUME NEW pc \in Publishing, Go(p, pc)
      PROVE  /\ req' \in [Requests -> ReqRecord] /\ req'[p].pc = pc
             /\ req'[p].draft = req[p].draft /\ req'[p].gap = req[p].gap
             /\ \A q \in Requests \ {p} : req'[q] = req[q]
  BY <1>1, <1>2, PCs, GoType
<1>3. CASE Put(p)
  <2>1. UNCHANGED <<gaps, drafts, docs, chunks, signal, abandoned>> /\ req[p].pc = "put"
    BY <1>3 DEF Put
  <2>2. p \notin docs
    BY <1>1, <2>1 DEF StoreOK
  <2>3. CASE bytes' = bytes \cup {p} /\ Go(p, "index")
    <3>1. StoreOK(p)'
      BY <1>1, <1>2, <2>1, <2>2, <2>3 DEF StoreOK, Publishing
    <3> QED
      BY <1>2, <2>1, <2>3, <3>1, PublishMoves DEF Publishing
  <2>4. CASE bytes' \in {bytes, bytes \cup {p}} /\ Go(p, "undoChunks")
    <3>1. StoreOK(p)'
      BY <1>1, <1>2, <2>1, <2>2, <2>4 DEF StoreOK, Publishing
    <3> QED
      BY <1>2, <2>1, <2>4, <3>1, PublishMoves DEF Publishing
  <2> QED
    BY <1>3, <2>3, <2>4 DEF Put
<1>4. CASE Index(p)
  <2>1. UNCHANGED <<gaps, drafts, docs, bytes, signal, abandoned>> /\ req[p].pc = "index"
    BY <1>4 DEF Index
  <2>2. p \notin docs /\ p \in bytes
    BY <1>1, <2>1 DEF StoreOK
  <2>3. CASE chunks' = chunks \cup {p} /\ Go(p, "settle")
    <3>1. StoreOK(p)'
      BY <1>1, <1>2, <2>1, <2>2, <2>3 DEF StoreOK, Publishing
    <3> QED
      BY <1>2, <2>1, <2>3, <3>1, PublishMoves DEF Publishing
  <2>4. CASE chunks' \in {chunks, chunks \cup {p}} /\ Go(p, "undoChunks")
    <3>1. StoreOK(p)'
      BY <1>1, <1>2, <2>1, <2>2, <2>4 DEF StoreOK, Publishing
    <3> QED
      BY <1>2, <2>1, <2>4, <3>1, PublishMoves DEF Publishing
  <2> QED
    BY <1>4, <2>3, <2>4 DEF Index
<1>5. CASE UndoChunks(p)
  <2>1. /\ UNCHANGED <<gaps, drafts, docs, bytes, signal, abandoned>> /\ req[p].pc = "undoChunks"
        /\ chunks' = chunks \ {p} /\ Go(p, "undoBytes")
    BY <1>5 DEF UndoChunks
  <2>2. StoreOK(p)'
    BY <1>1, <1>2, <2>1 DEF StoreOK, Publishing
  <2> QED
    BY <1>2, <2>1, <2>2, PublishMoves DEF Publishing
<1>6. CASE UndoBytes(p)
  <2>1. /\ UNCHANGED <<gaps, drafts, docs, chunks, signal, abandoned>> /\ req[p].pc = "undoBytes"
        /\ bytes' = bytes \ {p} /\ Go(p, "undone")
    BY <1>6 DEF UndoBytes
  <2>2. StoreOK(p)'
    BY <1>1, <1>2, <2>1 DEF StoreOK, Publishing
  <2> QED
    BY <1>2, <2>1, <2>2, PublishMoves DEF Publishing
<1> QED
  BY <1>3, <1>4, <1>5, <1>6

LEMMA SettleKeepsInv ==
    ASSUME IInv, NEW p \in Requests, LoadGap(p) \/ WriteGap(p)
    PROVE  IInv'
<1>1. TypeOK /\ RowOK(p) /\ StoreOK(p)
  BY DEF IInv
<1>2. UNCHANGED <<gaps, drafts, docs, stores, signal, abandoned>>
  BY DEF LoadGap, WriteGap
<1>3. CASE LoadGap(p)
  <2>1. /\ req[p].pc = "settle"
        /\ req' = [req EXCEPT ![p].pc = "promote", ![p].loaded = gap[req[p].gap]]
    BY <1>3 DEF LoadGap
  <2>2. gap[req[p].gap] \in GapStatus
    BY <1>1, <2>1 DEF RowOK, Reviewing, Publishing, TypeOK
  <2>3. "promote" \in ReqPC
    BY PCs DEF Publishing
  <2>4. /\ req' \in [Requests -> ReqRecord] /\ req'[p].pc = "promote"
        /\ req'[p].draft = req[p].draft /\ req'[p].gap = req[p].gap
        /\ \A q \in Requests \ {p} : req'[q] = req[q]
    BY <1>1, <2>1, <2>2, <2>3, LoadType
  <2>5. StoreOK(p)'
    BY <1>1, <1>2, <2>1, <2>4 DEF StoreOK, Publishing, stores
  <2> QED
    BY <1>2, <2>1, <2>4, <2>5, PublishMoves DEF Publishing, stores
<1>4. CASE WriteGap(p)
  <2>1. req[p].pc = "promote" /\ ~ GapLocked(req[p].gap) /\ Go(p, "promoted")
    BY <1>4 DEF WriteGap
  <2>2. /\ req' \in [Requests -> ReqRecord] /\ req'[p].pc = "promoted"
        /\ req'[p].draft = req[p].draft /\ req'[p].gap = req[p].gap
        /\ \A q \in Requests \ {p} : req'[q] = req[q]
    BY <1>1, <2>1, PCs, GoType DEF Publishing
  <2>3. /\ \A q \in Requests : HoldsGap(q) => req[q].gap # req[p].gap
        /\ \A s \in Signals : Counts(s) => signal[s].gap # req[p].gap
    BY <2>1 DEF GapLocked, HoldsGap, Counts
  <2>4. StoreOK(p)'
    BY <1>1, <1>2, <2>1, <2>2 DEF StoreOK, Publishing, stores
  <2> QED
    BY <1>2, <2>1, <2>2, <2>3, <2>4, PublishMoves DEF Publishing, stores
<1> QED
  BY <1>3, <1>4

\* A publication undone leaves nothing, one broken off is counted as such.
LEMMA EndKeepsInv ==
    ASSUME IInv, NEW p \in Requests, CommitUndone(p) \/ Abort(p)
    PROVE  IInv'
<1>1. TypeOK /\ StoreOK(p)
  BY DEF IInv
<1>2. /\ UNCHANGED <<gaps, drafts, docs, stores, signal>>
      /\ req[p].pc \notin {"idle", "done", "failed"}
      /\ \E pc \in {"done", "failed"} : Go(p, pc)
      /\ abandoned' = abandoned \/ abandoned' = abandoned \cup {p}
      /\ req[p].pc \in Publishing \ {"undone"} => p \in abandoned'
  BY DEF CommitUndone, Abort, Active, Reviewing, Publishing, Drafting
<1>3. /\ req' \in [Requests -> ReqRecord] /\ req'[p].pc \in {"done", "failed"}
      /\ req'[p].draft = req[p].draft
      /\ \A q \in Requests \ {p} : req'[q] = req[q]
  BY <1>1, <1>2, PCs, GoType
<1>4. p \notin docs
  BY <1>1, <1>2 DEF StoreOK
<1>5. /\ bytes' \subseteq Requests /\ chunks' \subseteq Requests /\ abandoned' \subseteq Requests
      /\ \A q \in Requests \ {p} : q \in abandoned' <=> q \in abandoned
  BY <1>1, <1>2 DEF TypeOK, stores
<1>6. RowOK(p)'
  BY <1>3 DEF RowOK, Drafting, Reviewing, Publishing
<1>7. StoreOK(p)'
  BY <1>1, <1>2, <1>3, <1>4 DEF StoreOK, stores
<1>8. ~ HoldsDraft(p)' /\ ~ HoldsGap(p)'
  BY <1>3 DEF HoldsDraft, HoldsGap, Reviewing, Publishing
<1> QED
  BY <1>2, <1>3, <1>4, <1>5, <1>6, <1>7, <1>8, RequestMoves DEF stores

-----------------------------------------------------------------------------
(* Commits of a request *)

\* Who commits gives up the rows it had, and takes none.
LEMMA CommitReleases ==
    ASSUME IInv, NEW p \in Requests, Go(p, "done"), UNCHANGED signal
    PROVE  /\ req' \in [Requests -> ReqRecord] /\ Exclusive'
           /\ req'[p].pc = "done" /\ req'[p].draft = req[p].draft
           /\ \A q \in Requests \ {p} : req'[q] = req[q]
           /\ RowOK(p)'
<1>1. /\ req' \in [Requests -> ReqRecord] /\ req'[p].pc = "done"
      /\ req'[p].draft = req[p].draft
      /\ \A q \in Requests \ {p} : req'[q] = req[q]
  BY PCs, GoType DEF IInv
<1>2. ~ HoldsDraft(p)' /\ ~ HoldsGap(p)' /\ req'[p].pc # "inserted"
  BY <1>1 DEF HoldsDraft, HoldsGap, Reviewing, Publishing
<1>3. \A q \in Requests \ {p} : /\ HoldsDraft(q)' <=> HoldsDraft(q)
                                /\ HoldsGap(q)' <=> HoldsGap(q)
  BY <1>1 DEF HoldsDraft, HoldsGap
<1>4. \A s \in Signals : Counts(s)' <=> Counts(s)
  BY DEF Counts
<1>5. Exclusive'
  BY <1>1, <1>2, <1>3, <1>4 DEF IInv, Exclusive
<1>6. RowOK(p)'
  BY <1>1 DEF RowOK, Drafting, Reviewing, Publishing
<1> QED
  BY <1>1, <1>5, <1>6

LEMMA CommitDraftKeepsInv ==
    ASSUME IInv, NEW p \in Requests, CommitDraft(p)
    PROVE  IInv'
<1> DEFINE d == req[p].draft
<1>1. TypeOK /\ RowOK(p) /\ StoreOK(p) /\ Exclusive /\ TableOK
  BY DEF IInv
<1>2. /\ UNCHANGED <<gaps, body, published, docs, stores, signal, abandoned>>
      /\ req[p].pc \in {"inserted", "found"} /\ Go(p, "done")
  BY DEF CommitDraft
<1>3. /\ req' \in [Requests -> ReqRecord] /\ Exclusive'
      /\ req'[p].pc = "done" /\ req'[p].draft = d
      /\ \A q \in Requests \ {p} : req'[q] = req[q]
      /\ RowOK(p)'
  BY <1>2, CommitReleases
<1>4. CASE req[p].pc = "found"
  <2>1. UNCHANGED <<drafts, stores>>
    BY <1>2, <1>4 DEF CommitDraft, drafts
  <2> QED
    BY <1>2, <1>3, <1>4, <2>1, QuietMoves DEF HoldsDraft, HoldsGap, Reviewing, Publishing
<1>5. CASE req[p].pc = "inserted"
  <2>1. /\ d \in Drafts /\ draft[d] = "absent" /\ GapOf[d] = req[p].gap
        /\ Pending(req[p].gap) = {} /\ gap[req[p].gap] # "absent"
    BY <1>1, <1>5 DEF RowOK, Drafting
  <2>2. draft' = [draft EXCEPT ![d] = "draft"]
    BY <1>5 DEF CommitDraft
  <2>3. /\ draft' \in [Drafts -> DraftStatus \cup {"absent"}] /\ draft'[d] = "draft"
        /\ \A c \in Drafts \ {d} : draft'[c] = draft[c]
    BY <1>1, <2>1, <2>2 DEF TypeOK, DraftStatus
  <2>4. TypeOK'
    BY <1>1, <1>2, <1>3, <2>3 DEF TypeOK, ReqRecord, gaps, stores
  <2>5. \A s \in Signals : SignalOK(s)'
    BY <1>2 DEF IInv, SignalOK, Counts, OpenGaps, gaps
  <2>6. \A q \in Requests \ {p} :
           req[q].pc = "inserted" => req[q].gap # req[p].gap /\ req[q].draft # d
    BY <1>1, <1>5, <2>1 DEF Exclusive, IInv, RowOK
  <2>7. \A g \in Gaps : g # req[p].gap => Pending(g)' = Pending(g)
    BY <2>1, <2>3 DEF Pending
  <2>8. \A q \in Requests \ {p} : RowOK(q)'
    <3> TAKE q \in Requests \ {p}
    <3>1. RowOK(q) /\ req'[q] = req[q]
      BY <1>3 DEF IInv
    <3>2. req[q].pc = "inserted" => Pending(req[q].gap)' = Pending(req[q].gap)
      BY <2>6, <2>7, <3>1 DEF RowOK, Drafting
    <3> QED
      BY <1>2, <2>1, <2>3, <2>6, <3>1, <3>2 DEF RowOK, gaps
  <2>9. \A q \in Requests : StoreOK(q)'
    <3>1. StoreOK(p)'
      BY <1>1, <1>2, <1>3, <1>5 DEF StoreOK, stores, Publishing
    <3>2. \A q \in Requests \ {p} : StoreOK(q)'
      BY <1>2, <1>3, <2>1, <2>3 DEF IInv, StoreOK, stores
    <3> QED
      BY <3>1, <3>2
  <2>10. TableOK'
    <3>1. \A f, g \in OpenGaps' : f = g
      BY <1>1, <1>2 DEF TableOK, OnePending, OpenGaps, gaps
    <3>2. \A g \in Gaps : \A b, c \in Pending(g)' : b = c
      BY <1>1, <2>1, <2>3 DEF TableOK, OnePending, Pending
    <3>3. \A c \in Drafts : draft'[c] # "absent" => gap'[GapOf[c]] # "absent"
      BY <1>1, <1>2, <2>1, <2>3 DEF TableOK, gaps
    <3>4. \A c \in Drafts : draft'[c] = "approved" => published'[c] \in docs'
      BY <1>1, <1>2, <2>3 DEF TableOK
    <3>5. p \notin docs /\ docs \subseteq Requests
      BY <1>1, <1>5 DEF StoreOK, TypeOK
    <3>6. \A g \in Gaps : gap'[g] = "promoted" =>
             promotedDoc'[g] \in docs' /\ GapOf[req'[promotedDoc'[g]].draft] = g
      BY <1>1, <1>2, <1>3, <3>5 DEF TableOK, gaps
    <3> QED
      BY <3>1, <3>2, <3>3, <3>4, <3>6, ZenonT(20) DEF TableOK, OnePending
  <2>11. \A g \in Gaps : frequency'[g] = Cardinality(CountedIn(g))'
    BY <1>2 DEF IInv, CountedIn, gaps
  <2> QED
    BY <1>3, <2>4, <2>5, <2>8, <2>9, <2>10, <2>11 DEF IInv
<1> QED
  BY <1>2, <1>4, <1>5

LEMMA CommitEditKeepsInv ==
    ASSUME IInv, NEW p \in Requests, CommitEdit(p)
    PROVE  IInv'
<1>1. TypeOK /\ StoreOK(p) /\ TableOK
  BY DEF IInv
<1>2. /\ UNCHANGED <<gaps, draft, published, docs, stores, signal, abandoned>>
      /\ req[p].pc = "written" /\ Go(p, "done")
      /\ body' = [body EXCEPT ![req[p].draft] = p]
  BY DEF CommitEdit
<1>3. /\ req' \in [Requests -> ReqRecord] /\ Exclusive' /\ req'[p].pc = "done"
      /\ \A q \in Requests \ {p} : req'[q] = req[q]
      /\ RowOK(p)'
  BY <1>2, CommitReleases
<1>4. TypeOK'
  BY <1>1, <1>2, <1>3 DEF TypeOK, ReqRecord, gaps, stores
<1>5. \A s \in Signals : SignalOK(s)'
  BY <1>2 DEF IInv, SignalOK, Counts, OpenGaps, gaps
<1>6. \A q \in Requests \ {p} : RowOK(q)' /\ StoreOK(q)'
  BY <1>2, <1>3 DEF IInv, RowOK, StoreOK, Pending, gaps, stores
<1>7. p \notin docs /\ docs \subseteq Requests
  BY <1>1, <1>2 DEF StoreOK, TypeOK
<1>8. StoreOK(p)'
  BY <1>1, <1>2, <1>3, <1>7 DEF StoreOK, stores, Publishing
<1>9. OnePending'
  BY <1>1, <1>2 DEF TableOK, OnePending, OpenGaps, Pending, gaps
<1>10. TableOK'
  BY <1>1, <1>2, <1>3, <1>7, <1>9 DEF TableOK, gaps
<1>11. \A g \in Gaps : frequency'[g] = Cardinality(CountedIn(g))'
  BY <1>2 DEF IInv, CountedIn, gaps
<1> QED
  BY <1>3, <1>4, <1>5, <1>6, <1>8, <1>10, <1>11 DEF IInv

LEMMA CommitRejectKeepsInv ==
    ASSUME IInv, NEW p \in Requests, CommitReject(p)
    PROVE  IInv'
<1> DEFINE d == req[p].draft
<1>1. TypeOK /\ RowOK(p) /\ StoreOK(p) /\ Exclusive /\ TableOK
  BY DEF IInv
<1>2. /\ UNCHANGED <<gaps, body, published, docs, stores, signal, abandoned>>
      /\ req[p].pc = "rejected" /\ Go(p, "done")
      /\ draft' = [draft EXCEPT ![d] = "rejected"]
  BY DEF CommitReject
<1>3. /\ req' \in [Requests -> ReqRecord] /\ Exclusive' /\ req'[p].pc = "done"
      /\ \A q \in Requests \ {p} : req'[q] = req[q]
      /\ RowOK(p)'
  BY <1>2, CommitReleases
<1>4. d \in Drafts /\ draft[d] = "draft"
  BY <1>1, <1>2 DEF RowOK, Reviewing
<1>5. /\ draft' \in [Drafts -> DraftStatus \cup {"absent"}] /\ draft'[d] = "rejected"
      /\ \A c \in Drafts \ {d} : draft'[c] = draft[c]
  BY <1>1, <1>2, <1>4 DEF TypeOK, DraftStatus
<1>6. TypeOK'
  BY <1>1, <1>2, <1>3, <1>5 DEF TypeOK, ReqRecord, gaps, stores
<1>7. \A s \in Signals : SignalOK(s)'
  BY <1>2 DEF IInv, SignalOK, Counts, OpenGaps, gaps
<1>8. \A q \in Requests \ {p} : HoldsDraft(q) => req[q].draft # d
  BY <1>1, <1>2 DEF Exclusive, HoldsDraft, Reviewing
<1>9. \A g \in Gaps : Pending(g)' \subseteq Pending(g)
  BY <1>4, <1>5 DEF Pending
<1>10. \A q \in Requests \ {p} : RowOK(q)'
  <2> TAKE q \in Requests \ {p}
  <2>1. RowOK(q) /\ req'[q] = req[q]
    BY <1>3 DEF IInv
  <2>2. req[q].pc = "inserted" => Pending(req[q].gap)' = {}
    BY <1>9, <2>1 DEF RowOK, Drafting
  <2>3. req[q].pc \in Reviewing => req[q].draft # d
    BY <1>8 DEF HoldsDraft
  <2> QED
    BY <1>2, <1>4, <1>5, <2>1, <2>2, <2>3 DEF RowOK, gaps
<1>11. p \notin docs /\ docs \subseteq Requests
  BY <1>1, <1>2 DEF StoreOK, TypeOK
<1>12. StoreOK(p)'
  BY <1>1, <1>2, <1>3, <1>11 DEF StoreOK, stores, Publishing
<1>13. \A q \in Requests \ {p} : StoreOK(q)'
  BY <1>2, <1>3, <1>4, <1>5 DEF IInv, StoreOK, stores
<1>14. TableOK'
  <2>1. \A f, g \in OpenGaps' : f = g
    BY <1>1, <1>2 DEF TableOK, OnePending, OpenGaps, gaps
  <2>2. \A g \in Gaps : \A b, c \in Pending(g)' : b = c
    BY <1>1, <1>9 DEF TableOK, OnePending
  <2>3. \A c \in Drafts : draft'[c] # "absent" => gap'[GapOf[c]] # "absent"
    BY <1>1, <1>2, <1>4, <1>5 DEF TableOK, gaps
  <2>4. \A c \in Drafts : draft'[c] = "approved" => published'[c] \in docs'
    BY <1>1, <1>2, <1>5 DEF TableOK
  <2>5. \A g \in Gaps : gap'[g] = "promoted" =>
           promotedDoc'[g] \in docs' /\ GapOf[req'[promotedDoc'[g]].draft] = g
    BY <1>1, <1>2, <1>3, <1>11 DEF TableOK, gaps
  <2> QED
    BY <2>1, <2>2, <2>3, <2>4, <2>5, ZenonT(20) DEF TableOK, OnePending
<1>15. \A g \in Gaps : frequency'[g] = Cardinality(CountedIn(g))'
  BY <1>2 DEF IInv, CountedIn, gaps
<1> QED
  BY <1>3, <1>6, <1>7, <1>10, <1>12, <1>13, <1>14, <1>15 DEF IInv

\* Whoever has a gap closes it, and disturbs nobody who counts in it.
LEMMA ClosingGap ==
    ASSUME IInv, NEW p \in Requests, HoldsGap(p), UNCHANGED <<frequency, signal>>,
           gap' \in [Gaps -> GapStatus \cup {"absent"}],
           \A f \in Gaps \ {req[p].gap} : gap'[f] = gap[f],
           gap'[req[p].gap] \in {"promoted", "dismissed"} \/ gap' = gap
    PROVE  /\ \A s \in Signals : SignalOK(s)'
           /\ OpenGaps' \subseteq OpenGaps
           /\ \A f \in Gaps : gap[f] # "absent" => gap'[f] # "absent"
<1>1. Exclusive /\ RowOK(p)
  BY DEF IInv
<1>2. req[p].gap \in Gaps /\ gap[req[p].gap] # "absent"
  BY <1>1 DEF RowOK, HoldsGap, Reviewing, Publishing
<1>3. OpenGaps' \subseteq OpenGaps
  BY DEF OpenGaps
<1>4. \A f \in Gaps : gap[f] # "absent" => gap'[f] # "absent"
  BY <1>2
<1>5. \A s \in Signals : Counts(s) => signal[s].gap # req[p].gap
  BY <1>1 DEF Exclusive
<1>6. ASSUME NEW s \in Signals PROVE SignalOK(s)'
  <2>1. SignalOK(s)
    BY DEF IInv
  <2>2. signal[s].pc \in {"counted", "inserted"} => signal[s].gap # req[p].gap
    BY <1>2, <1>5, <2>1 DEF SignalOK, Counts
  <2> QED
    BY <1>3, <1>4, <2>1, <2>2 DEF SignalOK, Counts
<1> QED
  BY <1>3, <1>4, <1>6

LEMMA CommitDismissKeepsInv ==
    ASSUME IInv, NEW p \in Requests, CommitDismiss(p)
    PROVE  IInv'
<1> DEFINE g == req[p].gap
<1>1. TypeOK /\ RowOK(p) /\ StoreOK(p) /\ TableOK
  BY DEF IInv
<1>2. /\ UNCHANGED <<frequency, promotedDoc, drafts, docs, stores, signal, abandoned>>
      /\ req[p].pc = "dismissed" /\ Go(p, "done")
      /\ gap' = [gap EXCEPT ![g] = "dismissed"]
  BY DEF CommitDismiss
<1>3. /\ req' \in [Requests -> ReqRecord] /\ Exclusive' /\ req'[p].pc = "done"
      /\ \A q \in Requests \ {p} : req'[q] = req[q]
      /\ RowOK(p)'
  BY <1>2, CommitReleases
<1>4. g \in Gaps
  BY <1>1, <1>2 DEF RowOK
<1>5. /\ gap' \in [Gaps -> GapStatus \cup {"absent"}] /\ gap'[g] = "dismissed"
      /\ \A f \in Gaps \ {g} : gap'[f] = gap[f]
  BY <1>1, <1>2, <1>4 DEF TypeOK, GapStatus
<1>6. /\ \A s \in Signals : SignalOK(s)'
      /\ OpenGaps' \subseteq OpenGaps
      /\ \A f \in Gaps : gap[f] # "absent" => gap'[f] # "absent"
  <2>1. HoldsGap(p)
    BY <1>2 DEF HoldsGap
  <2> QED
    BY <1>2, <1>5, <2>1, ClosingGap
<1>7. TypeOK'
  BY <1>1, <1>2, <1>3, <1>5 DEF TypeOK, ReqRecord, drafts, stores
<1>8. \A q \in Requests \ {p} : RowOK(q)'
  BY <1>2, <1>3, <1>6 DEF IInv, RowOK, Pending, drafts
<1>9. p \notin docs /\ docs \subseteq Requests
  BY <1>1, <1>2 DEF StoreOK, TypeOK
<1>10. StoreOK(p)'
  BY <1>1, <1>2, <1>3, <1>9 DEF StoreOK, stores, Publishing
<1>11. \A q \in Requests \ {p} : StoreOK(q)'
  BY <1>2, <1>3 DEF IInv, StoreOK, stores, drafts
<1>12. TableOK'
  <2>1. OnePending'
    BY <1>1, <1>2, <1>6 DEF TableOK, OnePending, Pending, drafts
  <2>2. \A c \in Drafts : draft'[c] # "absent" => gap'[GapOf[c]] # "absent"
    BY <1>1, <1>2, <1>6, KnowledgeAssumption DEF TableOK, drafts
  <2>3. \A c \in Drafts : draft'[c] = "approved" => published'[c] \in docs'
    BY <1>1, <1>2 DEF TableOK, drafts
  <2>4. \A f \in Gaps : gap'[f] = "promoted" =>
           promotedDoc'[f] \in docs' /\ GapOf[req'[promotedDoc'[f]].draft] = f
    BY <1>1, <1>2, <1>3, <1>5, <1>9 DEF TableOK
  <2> QED
    BY <2>1, <2>2, <2>3, <2>4, ZenonT(20) DEF TableOK
<1>13. \A f \in Gaps : frequency'[f] = Cardinality(CountedIn(f))'
  BY <1>2 DEF IInv, CountedIn
<1> QED
  BY <1>3, <1>6, <1>7, <1>8, <1>10, <1>11, <1>12, <1>13 DEF IInv

LEMMA CommitApprovalKeepsInv ==
    ASSUME IInv, NEW p \in Requests, CommitApproval(p)
    PROVE  IInv'
<1> DEFINE d == req[p].draft
           g == req[p].gap
<1>1. TypeOK /\ RowOK(p) /\ StoreOK(p) /\ Exclusive /\ TableOK
  BY DEF IInv
<1>2. /\ UNCHANGED <<frequency, body, stores, signal, abandoned>>
      /\ req[p].pc = "promoted" /\ Go(p, "done")
      /\ docs' = docs \cup {p}
      /\ draft' = [draft EXCEPT ![d] = "approved"]
      /\ published' = [published EXCEPT ![d] = p]
      /\ promotedDoc' = [promotedDoc EXCEPT ![g] = p]
      /\ gap' = [gap EXCEPT ![g] = "promoted"] \/ gap' = gap
  BY DEF CommitApproval
<1>3. /\ req' \in [Requests -> ReqRecord] /\ Exclusive' /\ req'[p].pc = "done"
      /\ req'[p].draft = d
      /\ \A q \in Requests \ {p} : req'[q] = req[q]
      /\ RowOK(p)'
  BY <1>2, CommitReleases
<1>4. /\ g \in Gaps /\ gap[g] # "absent" /\ d \in Drafts /\ draft[d] = "draft" /\ g = GapOf[d]
  BY <1>1, <1>2 DEF RowOK, Reviewing, Publishing
<1>5. /\ gap' \in [Gaps -> GapStatus \cup {"absent"}]
      /\ gap'[g] = "promoted" \/ gap' = gap
      /\ \A f \in Gaps \ {g} : gap'[f] = gap[f]
      /\ promotedDoc' \in [Gaps -> Requests \cup {None}] /\ promotedDoc'[g] = p
      /\ \A f \in Gaps \ {g} : promotedDoc'[f] = promotedDoc[f]
  BY <1>1, <1>2, <1>4 DEF TypeOK, GapStatus
<1>6. /\ draft' \in [Drafts -> DraftStatus \cup {"absent"}] /\ draft'[d] = "approved"
      /\ \A c \in Drafts \ {d} : draft'[c] = draft[c]
      /\ published' \in [Drafts -> Requests \cup {None}] /\ published'[d] = p
      /\ \A c \in Drafts \ {d} : published'[c] = published[c]
  BY <1>1, <1>2, <1>4 DEF TypeOK, DraftStatus
<1>7. /\ \A s \in Signals : SignalOK(s)'
      /\ OpenGaps' \subseteq OpenGaps
      /\ \A f \in Gaps : gap[f] # "absent" => gap'[f] # "absent"
  <2>1. HoldsGap(p)
    BY <1>2 DEF HoldsGap
  <2> QED
    BY <1>2, <1>5, <2>1, ClosingGap
<1>8. TypeOK'
  <2>1. docs' \subseteq Requests
    BY <1>1, <1>2 DEF TypeOK
  <2> QED
    BY <1>1, <1>2, <1>3, <1>5, <1>6, <2>1 DEF TypeOK, ReqRecord, stores
<1>9. \A q \in Requests \ {p} : HoldsDraft(q) => req[q].draft # d
  BY <1>1, <1>2 DEF Exclusive, HoldsDraft, Reviewing, Publishing
<1>10. \A f \in Gaps : Pending(f)' \subseteq Pending(f)
  BY <1>4, <1>6 DEF Pending
<1>11. \A q \in Requests \ {p} : RowOK(q)'
  <2> TAKE q \in Requests \ {p}
  <2>1. RowOK(q) /\ req'[q] = req[q]
    BY <1>3 DEF IInv
  <2>2. req[q].pc = "inserted" => Pending(req[q].gap)' = {}
    BY <1>10, <2>1 DEF RowOK, Drafting
  <2>3. req[q].pc \in Reviewing => req[q].draft # d
    BY <1>9 DEF HoldsDraft
  <2> QED
    BY <1>4, <1>6, <1>7, <2>1, <2>2, <2>3 DEF RowOK
<1>12. p \notin docs /\ docs \subseteq Requests
  BY <1>1, <1>2 DEF StoreOK, TypeOK
<1>13. StoreOK(p)'
  BY <1>1, <1>2, <1>3, <1>4, <1>6 DEF StoreOK, stores
<1>14. \A q \in Requests \ {p} : StoreOK(q)'
  BY <1>2, <1>3, <1>4, <1>6 DEF IInv, StoreOK, stores
<1>15. TableOK'
  <2>1. OnePending'
    BY <1>1, <1>7, <1>10 DEF TableOK, OnePending
  <2>2. \A c \in Drafts : draft'[c] # "absent" => gap'[GapOf[c]] # "absent"
    BY <1>1, <1>4, <1>6, <1>7, KnowledgeAssumption DEF TableOK
  <2>3. \A c \in Drafts : draft'[c] = "approved" => published'[c] \in docs'
    BY <1>1, <1>2, <1>6 DEF TableOK
  <2>4. \A f \in Gaps : gap'[f] = "promoted" =>
           promotedDoc'[f] \in docs' /\ GapOf[req'[promotedDoc'[f]].draft] = f
    BY <1>1, <1>2, <1>3, <1>4, <1>5, <1>12 DEF TableOK
  <2> QED
    BY <2>1, <2>2, <2>3, <2>4, ZenonT(20) DEF TableOK
<1>16. \A f \in Gaps : frequency'[f] = Cardinality(CountedIn(f))'
  BY <1>2 DEF IInv, CountedIn
<1> QED
  BY <1>3, <1>7, <1>8, <1>11, <1>13, <1>14, <1>15, <1>16 DEF IInv

-----------------------------------------------------------------------------
(* Signals *)

LEMMA SignalType ==
    ASSUME TypeOK, NEW s \in Signals, NEW r \in SignalRecord, signal' = [signal EXCEPT ![s] = r]
    PROVE  /\ signal' \in [Signals -> SignalRecord] /\ signal'[s] = r
           /\ \A t \in Signals \ {s} : signal'[t] = signal[t]
<1>1. signal \in [Signals -> SignalRecord]
  BY DEF TypeOK, SignalRecord
<1> QED
  BY <1>1

LEMMA SignalGoType ==
    ASSUME TypeOK, NEW s \in Signals, NEW pc \in SignalPC, signal' = [signal EXCEPT ![s].pc = pc]
    PROVE  /\ signal' \in [Signals -> SignalRecord]
           /\ signal'[s].pc = pc /\ signal'[s].gap = signal[s].gap
           /\ \A t \in Signals \ {s} : signal'[t] = signal[t]
<1>1. signal \in [Signals -> SignalRecord]
  BY DEF TypeOK, SignalRecord
<1> QED
  BY <1>1 DEF SignalRecord

\* A turn that moves on without committing takes only a row that is free.
LEMMA SignalMoves ==
    ASSUME IInv, NEW s \in Signals, UNCHANGED <<gaps, drafts, docs, stores, req, abandoned>>,
           signal' \in [Signals -> SignalRecord],
           \A t \in Signals \ {s} : signal'[t] = signal[t],
           signal[s].pc # "done", signal'[s].pc # "done",
           signal'[s].pc = "counted" =>
              /\ \A q \in Requests : HoldsGap(q) => req[q].gap # signal'[s].gap
              /\ \A t \in Signals : Counts(t) => signal[t].gap # signal'[s].gap,
           signal'[s].pc = "inserted" => \A t \in Signals : signal[t].pc # "inserted",
           SignalOK(s)'
    PROVE  IInv'
<1>1. TypeOK'
  BY DEF IInv, TypeOK, SignalRecord, gaps, drafts, stores
<1>2. /\ \A q \in Requests : /\ HoldsDraft(q)' <=> HoldsDraft(q)
                             /\ HoldsGap(q)' <=> HoldsGap(q)
      /\ \A t \in Signals \ {s} : Counts(t)' <=> Counts(t)
      /\ Counts(s)' <=> signal'[s].pc = "counted"
  BY DEF HoldsDraft, HoldsGap, Counts
<1>3. Exclusive'
  BY <1>2 DEF IInv, Exclusive
<1>4. \A t \in Signals \ {s} : SignalOK(t)'
  BY DEF IInv, SignalOK, Counts, OpenGaps, gaps
<1>5. \A q \in Requests : RowOK(q)' /\ StoreOK(q)'
  BY DEF IInv, RowOK, StoreOK, Pending, gaps, drafts, stores
<1>6. TableOK'
  BY DEF IInv, TableOK, OnePending, OpenGaps, Pending, gaps, drafts
<1>7. \A g \in Gaps : CountedIn(g)' = CountedIn(g)
  BY DEF CountedIn
<1>8. \A g \in Gaps : frequency'[g] = Cardinality(CountedIn(g)')
  BY <1>7 DEF IInv, gaps
<1> QED
  BY <1>1, <1>3, <1>4, <1>5, <1>6, <1>8 DEF IInv

LEMMA RecordKeepsInv ==
    ASSUME IInv, NEW s \in Signals, Record(s) \/ AbortSignal(s)
    PROVE  IInv'
<1>1. TypeOK
  BY DEF IInv
<1>2. UNCHANGED <<gaps, drafts, docs, stores, req, abandoned>> /\ signal[s].pc # "done"
  BY DEF Record, AbortSignal
<1>3. ASSUME NEW g \in OpenGaps, ~ GapLocked(g),
             signal' = [signal EXCEPT ![s] = [pc |-> "counted", gap |-> g, count |-> frequency[g] + 1]]
      PROVE  IInv'
  <2> DEFINE r == [pc |-> "counted", gap |-> g, count |-> frequency[g] + 1]
  <2>1. g \in Gaps /\ gap[g] = "open" /\ r \in SignalRecord
    BY <1>1 DEF OpenGaps, TypeOK, SignalRecord, SignalPC
  <2>2. r.pc = "counted" /\ r.gap = g /\ r.count = frequency[g] + 1
    OBVIOUS
  <2> HIDE DEF r
  <2>3. /\ signal' \in [Signals -> SignalRecord] /\ signal'[s] = r
        /\ \A t \in Signals \ {s} : signal'[t] = signal[t]
    BY <1>1, <1>3, <2>1, SignalType DEF r
  <2>4. /\ \A q \in Requests : HoldsGap(q) => req[q].gap # g
        /\ \A t \in Signals : Counts(t) => signal[t].gap # g
    BY <1>3 DEF GapLocked, HoldsGap, Counts
  <2>5. SignalOK(s)'
    BY <1>2, <2>1, <2>2, <2>3 DEF SignalOK, Counts, gaps
  <2> QED
    BY <1>2, <2>2, <2>3, <2>4, <2>5, SignalMoves
<1>4. ASSUME NEW g \in Gaps, gap[g] = "absent", OpenGaps = {},
             \A t \in Signals : signal[t].pc # "inserted",
             signal' = [signal EXCEPT ![s] = [pc |-> "inserted", gap |-> g, count |-> 1]]
      PROVE  IInv'
  <2> DEFINE r == [pc |-> "inserted", gap |-> g, count |-> 1]
  <2>1. r \in SignalRecord
    BY DEF SignalRecord, SignalPC
  <2>2. r.pc = "inserted" /\ r.gap = g /\ r.count = 1
    OBVIOUS
  <2> HIDE DEF r
  <2>3. /\ signal' \in [Signals -> SignalRecord] /\ signal'[s] = r
        /\ \A t \in Signals \ {s} : signal'[t] = signal[t]
    BY <1>1, <1>4, <2>1, SignalType DEF r
  <2>4. SignalOK(s)'
    BY <1>2, <1>4, <2>2, <2>3 DEF SignalOK, Counts, OpenGaps, gaps
  <2> QED
    BY <1>2, <1>4, <2>2, <2>3, <2>4, SignalMoves
<1>5. ASSUME AbortSignal(s) PROVE IInv'
  <2>1. /\ signal' \in [Signals -> SignalRecord] /\ signal'[s].pc = "failed"
        /\ \A t \in Signals \ {s} : signal'[t] = signal[t]
    BY <1>1, <1>5, SignalGoType DEF AbortSignal, SignalPC
  <2>2. SignalOK(s)'
    BY <2>1 DEF SignalOK, Counts
  <2> QED
    BY <1>2, <2>1, <2>2, SignalMoves
<1> QED
  BY <1>3, <1>4, <1>5 DEF Record

\* The frequency written is one more than the signals counted so far.
LEMMA OneMore ==
    ASSUME IInv, NEW s \in Signals, NEW g \in Gaps, signal[s].pc # "done", signal'[s].pc = "done",
           signal'[s].gap = g, \A t \in Signals \ {s} : signal'[t] = signal[t]
    PROVE  /\ Cardinality(CountedIn(g)') = Cardinality(CountedIn(g)) + 1
           /\ \A f \in Gaps \ {g} : CountedIn(f)' = CountedIn(f)
<1>1. CountedIn(g)' = CountedIn(g) \cup {s} /\ s \notin CountedIn(g)
  BY DEF CountedIn
<1>2. IsFiniteSet(CountedIn(g))
  BY KnowledgeAssumption, FS_Subset DEF CountedIn
<1>3. Cardinality(CountedIn(g)') = Cardinality(CountedIn(g)) + 1
  BY <1>1, <1>2, FS_AddElement
<1>4. \A f \in Gaps \ {g} : CountedIn(f)' = CountedIn(f)
  BY DEF CountedIn
<1> QED
  BY <1>3, <1>4

LEMMA CommitSignalKeepsInv ==
    ASSUME IInv, NEW s \in Signals, CommitSignal(s)
    PROVE  IInv'
<1> DEFINE g == signal[s].gap
<1>1. TypeOK /\ SignalOK(s) /\ Exclusive /\ TableOK
  BY DEF IInv
<1>2. /\ UNCHANGED <<promotedDoc, drafts, docs, stores, req, abandoned>>
      /\ signal[s].pc \in {"counted", "inserted"}
      /\ signal' = [signal EXCEPT ![s].pc = "done"]
      /\ frequency' = [frequency EXCEPT ![g] = signal[s].count]
  BY DEF CommitSignal
<1>3. g \in Gaps
  BY <1>1, <1>2 DEF SignalOK
<1>4. /\ signal' \in [Signals -> SignalRecord]
      /\ signal'[s].pc = "done" /\ signal'[s].gap = g
      /\ \A t \in Signals \ {s} : signal'[t] = signal[t]
  BY <1>1, <1>2, SignalGoType DEF SignalPC
<1>5. gap' = [gap EXCEPT ![g] = "open"]
  <2>1. CASE signal[s].pc = "counted"
    BY <1>1, <2>1 DEF CommitSignal, SignalOK, Counts, TypeOK
  <2>2. CASE signal[s].pc = "inserted"
    BY <2>2 DEF CommitSignal
  <2> QED
    BY <1>2, <2>1, <2>2
<1>6. /\ gap' \in [Gaps -> GapStatus \cup {"absent"}] /\ gap'[g] = "open"
      /\ \A f \in Gaps \ {g} : gap'[f] = gap[f]
      /\ gap[g] \in {"absent", "open"}
  BY <1>1, <1>2, <1>3, <1>5 DEF TypeOK, GapStatus, SignalOK, Counts
<1>7. frequency[g] + 1 = signal[s].count
  <2>1. CASE signal[s].pc = "counted"
    BY <1>1, <2>1 DEF SignalOK, Counts
  <2>2. CASE signal[s].pc = "inserted"
    <3>1. CountedIn(g) = {}
      BY <1>1, <1>3, <2>2 DEF CountedIn, IInv, SignalOK
    <3>2. frequency[g] = 0
      BY <1>3, <3>1, FS_EmptySet DEF IInv
    <3> QED
      BY <1>1, <2>2, <3>2 DEF SignalOK
  <2> QED
    BY <1>2, <2>1, <2>2
<1>8. /\ frequency' \in [Gaps -> Nat] /\ frequency'[g] = frequency[g] + 1
      /\ \A f \in Gaps \ {g} : frequency'[f] = frequency[f]
  BY <1>1, <1>2, <1>3, <1>7 DEF TypeOK
<1>9. TypeOK'
  BY <1>1, <1>2, <1>4, <1>6, <1>8 DEF TypeOK, SignalRecord, drafts, stores
<1>10. Exclusive'
  <2>1. /\ \A q \in Requests : /\ HoldsDraft(q)' <=> HoldsDraft(q)
                               /\ HoldsGap(q)' <=> HoldsGap(q)
        /\ \A t \in Signals \ {s} : Counts(t)' <=> Counts(t)
        /\ ~ Counts(s)'
    BY <1>2, <1>4 DEF HoldsDraft, HoldsGap, Counts
  <2> QED
    BY <1>1, <1>2, <1>4, <2>1 DEF Exclusive
<1>11. \A t \in Signals : SignalOK(t)'
  <2>1. ASSUME NEW t \in Signals \ {s} PROVE SignalOK(t)'
    <3>1. SignalOK(t) /\ signal'[t] = signal[t]
      BY <1>4 DEF IInv
    <3>2. Counts(t) => signal[t].gap # g
      BY <1>1, <1>2, <2>1, <3>1 DEF Exclusive, SignalOK, Counts
    <3>3. signal[t].pc = "inserted" => signal[s].pc = "counted" /\ signal[t].gap # g
      BY <1>1, <1>2, <2>1, <3>1 DEF Exclusive, SignalOK, Counts
    <3>4. signal[s].pc = "counted" => OpenGaps' = OpenGaps
      BY <1>1, <1>3, <1>6 DEF OpenGaps, SignalOK, Counts
    <3> QED
      BY <1>3, <1>6, <1>8, <3>1, <3>2, <3>3, <3>4 DEF SignalOK, Counts
  <2>2. SignalOK(s)'
    BY <1>3, <1>4, <1>6 DEF SignalOK, Counts
  <2> QED
    BY <2>1, <2>2
<1>12. \A q \in Requests : RowOK(q)' /\ StoreOK(q)'
  <2>1. \A f \in Gaps : gap[f] # "absent" => gap'[f] # "absent"
    BY <1>6
  <2> QED
    BY <1>2, <2>1 DEF IInv, RowOK, StoreOK, Pending, drafts, stores
<1>13. TableOK'
  <2>1. OnePending'
    BY <1>1, <1>2, <1>3, <1>6 DEF TableOK, OnePending, OpenGaps, Pending, SignalOK, Counts, drafts
  <2>2. \A c \in Drafts : draft'[c] # "absent" => gap'[GapOf[c]] # "absent"
    BY <1>1, <1>2, <1>6, KnowledgeAssumption DEF TableOK, drafts
  <2>3. \A c \in Drafts : draft'[c] = "approved" => published'[c] \in docs'
    BY <1>1, <1>2 DEF TableOK, drafts
  <2>4. \A f \in Gaps : gap'[f] = "promoted" =>
           promotedDoc'[f] \in docs' /\ GapOf[req'[promotedDoc'[f]].draft] = f
    BY <1>1, <1>2, <1>6 DEF TableOK
  <2> QED
    BY <2>1, <2>2, <2>3, <2>4, ZenonT(20) DEF TableOK
<1>14. \A f \in Gaps : frequency'[f] = Cardinality(CountedIn(f)')
  <2>1. PICK h \in Gaps : h = g
    BY <1>3
  <2>2. /\ Cardinality(CountedIn(h)') = Cardinality(CountedIn(h)) + 1
        /\ \A f \in Gaps \ {h} : CountedIn(f)' = CountedIn(f)
    BY <1>2, <1>4, <2>1, OneMore
  <2>3. \A f \in Gaps : frequency[f] = Cardinality(CountedIn(f))
    BY DEF IInv
  <2> QED
    BY <1>8, <2>1, <2>2, <2>3
<1> QED
  BY <1>9, <1>10, <1>11, <1>12, <1>13, <1>14 DEF IInv

-----------------------------------------------------------------------------
(* Theorems *)

LEMMA NextInv == IInv /\ [Next]_vars => IInv'
<1> SUFFICES ASSUME IInv, [Next]_vars PROVE IInv'
  OBVIOUS
<1>1. ASSUME NEW s \in Signals, SignalStep(s) PROVE IInv'
  BY <1>1, RecordKeepsInv, CommitSignalKeepsInv DEF SignalStep
<1>2. ASSUME NEW p \in Requests, DraftStep(p) PROVE IInv'
  BY <1>2, StartKeepsInv, InsertKeepsInv, LookupKeepsInv, CommitDraftKeepsInv,
     WriteEditKeepsInv, CommitEditKeepsInv DEF DraftStep
<1>3. ASSUME NEW p \in Requests, ReviewStep(p) PROVE IInv'
  BY <1>3, StartKeepsInv, TransitionKeepsInv, CommitRejectKeepsInv, StoreKeepsInv,
     EndKeepsInv, SettleKeepsInv, CommitApprovalKeepsInv DEF ReviewStep, PublishStep
<1>4. ASSUME NEW p \in Requests, DismissStep(p) PROVE IInv'
  BY <1>4, StartKeepsInv, DismissKeepsInv, CommitDismissKeepsInv DEF DismissStep
<1>5. ASSUME NEW p \in Requests, Abort(p) PROVE IInv'
  BY <1>5, EndKeepsInv
<1>6. CASE UNCHANGED vars
  <2>1. /\ \A q \in Requests : /\ HoldsDraft(q)' <=> HoldsDraft(q)
                               /\ HoldsGap(q)' <=> HoldsGap(q)
        /\ \A s \in Signals : Counts(s)' <=> Counts(s)
    BY <1>6 DEF vars, HoldsDraft, HoldsGap, Counts
  <2>2. TypeOK' /\ Exclusive'
    BY <1>6, <2>1 DEF IInv, TypeOK, Exclusive, vars, gaps, drafts, stores
  <2>3. \A s \in Signals : SignalOK(s)'
    BY <1>6, <2>1 DEF IInv, SignalOK, OpenGaps, vars, gaps
  <2>4. \A q \in Requests : RowOK(q)' /\ StoreOK(q)'
    BY <1>6 DEF IInv, RowOK, StoreOK, Pending, vars, gaps, drafts, stores
  <2>5. TableOK'
    BY <1>6 DEF IInv, TableOK, OnePending, OpenGaps, Pending, vars, gaps, drafts
  <2>6. \A g \in Gaps : frequency'[g] = Cardinality(CountedIn(g)')
    BY <1>6 DEF IInv, CountedIn, vars, gaps
  <2> QED
    BY <2>2, <2>3, <2>4, <2>5, <2>6 DEF IInv
<1> QED
  BY <1>1, <1>2, <1>3, <1>4, <1>5, <1>6 DEF Next

LEMMA Invariance == Spec => []IInv
<1> QED
  BY InitInv, NextInv, PTL DEF Spec

\* Every variable keeps its type.
THEOREM TypeCorrect == Spec => []TypeOK
<1>1. IInv => TypeOK
  BY DEF IInv
<1> QED
  BY <1>1, Invariance, PTL

\* ON CONFLICT DO UPDATE loses no signal, for any number of turns.
THEOREM FrequencyCounts == Spec => []SignalsCounted
<1>1. IInv => SignalsCounted
  BY DEF IInv, SignalsCounted, CountedIn
<1> QED
  BY <1>1, Invariance, PTL

\* The partial indexes leave a question one open gap and a gap one pending draft.
THEOREM OneOfEach == Spec => []OnePending
<1>1. IInv => OnePending
  BY DEF IInv, TableOK
<1> QED
  BY <1>1, Invariance, PTL

\* What is approved is published whole, whatever fails on the way.
THEOREM WholeOrNothing == Spec => []PublishedWhole
<1>1. ASSUME IInv PROVE PublishedWhole
  <2>1. /\ TypeOK /\ TableOK /\ \A p \in Requests : StoreOK(p)
    BY <1>1 DEF IInv
  <2>2. \A p \in docs : /\ p \in bytes /\ p \in chunks
                        /\ req[p].draft \in Drafts /\ published[req[p].draft] = p
    BY <2>1 DEF TypeOK, StoreOK
  <2> QED
    BY <2>1, <2>2 DEF PublishedWhole, TableOK
<1> QED
  BY <1>1, Invariance, PTL

\* The stores hold nothing unaccounted for.
THEOREM StoresAccounted == Spec => []NoOrphans
<1>1. IInv => NoOrphans
  BY DEF IInv, TypeOK, StoreOK, NoOrphans
<1> QED
  BY <1>1, Invariance, PTL

\* A draft approved or rejected stays so, whoever reviews it at the same time.
THEOREM ReviewsAreFinal == Spec => ReviewIsFinal
<1> DEFINE Final == \A d \in Drafts : draft[d] \in {"approved", "rejected"} => draft'[d] = draft[d]
<1>1. ASSUME IInv, NEW p \in Requests, CommitDraft(p) \/ CommitReject(p) \/ CommitApproval(p)
      PROVE  Final
  <2>1. draft \in [Drafts -> DraftStatus \cup {"absent"}] /\ RowOK(p)
    BY <1>1 DEF IInv, TypeOK
  <2>2. \/ draft' = draft
        \/ /\ draft[req[p].draft] \in {"absent", "draft"}
           /\ \E st \in DraftStatus : draft' = [draft EXCEPT ![req[p].draft] = st]
    BY <1>1, <2>1 DEF CommitDraft, CommitReject, CommitApproval, RowOK, Reviewing, Publishing,
       DraftStatus
  <2> QED
    BY <2>1, <2>2
<1>2. IInv /\ [Next]_vars => [Final]_draft
  <2> SUFFICES ASSUME IInv, [Next]_vars PROVE [Final]_draft
    OBVIOUS
  <2>1. ASSUME NEW s \in Signals, SignalStep(s) PROVE UNCHANGED draft
    BY <2>1 DEF SignalStep, Record, CommitSignal, AbortSignal, drafts
  <2>2. ASSUME NEW p \in Requests, DraftStep(p) \/ ReviewStep(p) \/ DismissStep(p) \/ Abort(p)
        PROVE  UNCHANGED draft \/ CommitDraft(p) \/ CommitReject(p) \/ CommitApproval(p)
    <3>1. CASE DraftStep(p)
      BY <3>1 DEF DraftStep, StartDraft, Insert, Lookup, StartEdit, WriteEdit, CommitEdit, drafts
    <3>2. CASE ReviewStep(p)
      BY <3>2 DEF ReviewStep, PublishStep, StartReview, Transition, Put, Index, UndoChunks,
         UndoBytes, CommitUndone, LoadGap, WriteGap, drafts
    <3>3. CASE DismissStep(p) \/ Abort(p)
      BY <3>3 DEF DismissStep, StartDismiss, Dismiss, CommitDismiss, Abort, drafts
    <3> QED
      BY <2>2, <3>1, <3>2, <3>3
  <2> QED
    BY <1>1, <2>1, <2>2 DEF Next, vars, drafts
<1> QED
  BY <1>2, Invariance, PTL DEF Spec, ReviewIsFinal
=============================================================================
