--------------------------- MODULE AgentTurnProofs ---------------------------
(***************************************************************************)
(* Proofs about AgentTurn.  What a turn may come to is settled by the      *)
(* record it loaded (TurnOK); how often a slot was asked for follows from  *)
(* the committed record as long as turns do not overlap (Counted).         *)
(***************************************************************************)
EXTENDS AgentTurn, TLAPS

\* Why the turn r has given up waiting, or left, before any tool answered.
ReasonOf(r) ==
    \/ r.label = SlotIntent /\ r.pending # None /\ GivesUp(r.pending)
    \/ r.label # SlotIntent /\ r.conf >= AbandonConfidence

Early(r) ==
    /\ r.pc \in {"idle", "loaded"} => ~r.wrote /\ ~r.resumed
    /\ r.pc # "answered" => r.answer = "none" /\ r.value = None

Resumed(r) ==
    r.resumed =>
        /\ r.pending # None /\ r.label = SlotIntent /\ r.order
        /\ r.pc = "routed" => r.route = "tool"
        /\ r.pc = "answered" => r.answer \in OrderAnswers /\ r.wrote /\ r.value = None

Routed(r) ==
    r.pc = "routed" =>
        /\ r.route = "tool" /\ r.label = SlotIntent /\ r.pending # None /\ ~r.order
             => ~GivesUp(r.pending)
        /\ r.wrote => ReasonOf(r)
        /\ r.route # "clarify" => r.conf >= LowConfidence

Written(r) ==
    /\ r.value # None => r.wrote /\ r.value = IF r.pending = None THEN 0 ELSE r.pending + 1
    /\ r.pc = "answered" /\ r.route # "tool" => r.value = None /\ (r.wrote => ReasonOf(r))

Doubted(r) == r.answer \notin {"none", "stopped", "clarify"} => r.conf >= LowConfidence

TurnOK(r) ==
    r \in TurnRecord /\ Early(r) /\ Resumed(r) /\ Routed(r) /\ Written(r) /\ Doubted(r)

\* The count of questions follows from the record, for turns one after another.
Counted ==
    /\ meta = None => asks = 0
    /\ ~overlapped =>
         /\ asks = IF meta = None THEN 0 ELSE meta + 1
         /\ \A t \in Turns : turn[t].pc # "idle" => turn[t].pending = meta
         /\ \A t, u \in Turns : t # u => turn[t].pc = "idle" \/ turn[u].pc = "idle"

IInv == TypeOK /\ (\A t \in Turns : TurnOK(turn[t])) /\ Counted

-----------------------------------------------------------------------------
(* Types *)

\* The rules and the model, whichever prevails, name an intent there is.
LEMMA IntentTypes ==
    ASSUME AgentTurnAssumption, NEW i \in ClassifiedIntents
    PROVE  i.label \in Labels /\ i.conf \in 0..10
<1> DEFINE All == [label : Labels, conf : 0..10, vague : BOOLEAN]
<1>0. \A l \in Labels : Intent(l, RuleConfidence, FALSE) \in All
  BY DEF Intent, RuleConfidence
<1>1. RuleIntents \subseteq All
  BY <1>0 DEF RuleIntents, KeywordLabels
<1>2. Unclear \in All
  BY DEF AgentTurnAssumption, Unclear, Intent
<1>3. \A l \in Labels, c \in Confidences : Intent(l, c, c < 7) \in All
  BY DEF AgentTurnAssumption, Intent
<1>4. ModelIntents \subseteq All
  BY <1>2, <1>3 DEF ModelIntents
<1>5. PICK r \in RuleIntents \cup {None}, m \in ModelIntents \cup {None} : i = Classified(r, m)
  BY DEF ClassifiedIntents
<1>6. i \in RuleIntents \/ i \in ModelIntents \/ i = Unclear
  BY <1>5 DEF Classified, Overrules
<1>7. i \in All
  BY <1>1, <1>2, <1>4, <1>6
<1> QED BY <1>7

LEMMA IdleOK == ASSUME AgentTurnAssumption PROVE TurnOK(Idle)
<1>1. Idle \in TurnRecord
  BY DEF AgentTurnAssumption, Idle, TurnRecord, Waits, Routes, Answers
<1> QED BY <1>1 DEF Idle, TurnOK, Early, Resumed, Routed, Written, Doubted

LEMMA InitHolds == ASSUME AgentTurnAssumption PROVE Init => IInv
<1> SUFFICES ASSUME Init PROVE IInv
  OBVIOUS
<1>1. TurnOK(Idle) /\ Idle \in TurnRecord
  BY IdleOK DEF TurnOK
<1>2. TypeOK
  BY <1>1 DEF Init, TypeOK, Waits
<1>3. \A t \in Turns : TurnOK(turn[t])
  BY <1>1 DEF Init
<1>4. Counted
  BY DEF Init, Counted, Idle
<1> QED BY <1>2, <1>3, <1>4 DEF IInv

-----------------------------------------------------------------------------
(* A step of one turn that leaves the conversation alone *)

LEMMA TurnStep ==
    ASSUME IInv, NEW t \in Turns, NEW r, TurnOK(r),
           turn' = [turn EXCEPT ![t] = r],
           UNCHANGED <<meta, transferred, asks, overlapped>>,
           turn[t].pc # "idle",
           r.pc # "idle" => r.pending = turn[t].pending
    PROVE  IInv'
<1>1. TypeOK'
  BY DEF IInv, TypeOK, TurnOK
<1>2. turn'[t] = r /\ \A u \in Turns \ {t} : turn'[u] = turn[u]
  BY DEF IInv, TypeOK
<1>3. (\A u \in Turns : TurnOK(turn[u]))'
  BY <1>2 DEF IInv, TurnOK, TurnRecord, Early, Resumed, Routed, Written, Doubted, ReasonOf,
              GivesUp, Waits
<1>4. Counted'
  BY <1>2 DEF IInv, Counted
<1> QED BY <1>1, <1>3, <1>4 DEF IInv

-----------------------------------------------------------------------------
(* One lemma per action *)

LEMMA BeginStep ==
    ASSUME AgentTurnAssumption, IInv, NEW t \in Turns, Begin(t)
    PROVE  IInv'
<1> DEFINE r == [Idle EXCEPT !.pc = "loaded", !.pending = meta]
<1>1. TurnOK(r)
  <2>1. r \in TurnRecord
    BY IdleOK DEF IInv, TypeOK, TurnOK, TurnRecord
  <2> QED BY <2>1 DEF Idle, TurnOK, Early, Resumed, Routed, Written, Doubted
<1>2. turn' = [turn EXCEPT ![t] = r]
  BY DEF Begin
<1>3. r.pc = "loaded" /\ r.pending = meta
  BY DEF Idle
<1> HIDE DEF r
<1>4. turn'[t] = r /\ \A u \in Turns \ {t} : turn'[u] = turn[u]
  BY <1>2 DEF IInv, TypeOK
<1>5. TypeOK'
  BY <1>1, <1>2 DEF IInv, TypeOK, TurnOK, Begin
<1>6. (\A u \in Turns : TurnOK(turn[u]))'
  BY <1>1, <1>4 DEF IInv, TurnOK, TurnRecord, Early, Resumed, Routed, Written, Doubted,
                    ReasonOf, GivesUp, Waits
<1>7. Counted'
  BY <1>3, <1>4 DEF IInv, Counted, Begin
<1> QED BY <1>5, <1>6, <1>7 DEF IInv

LEMMA StopStep ==
    ASSUME IInv, NEW t \in Turns, Stop(t)
    PROVE  IInv'
<1> DEFINE r == [turn[t] EXCEPT !.pc = "answered", !.answer = "stopped"]
<1>1. TurnOK(turn[t]) /\ turn[t] \in TurnRecord /\ turn[t].pc = "loaded"
  BY DEF IInv, TurnOK, Stop
<1>2. TurnOK(r)
  <2>1. r \in TurnRecord
    BY <1>1 DEF TurnRecord, Answers
  <2> QED BY <1>1, <2>1 DEF TurnOK, TurnRecord, Early, Resumed, Routed, Written, Doubted
<1>3. turn' = [turn EXCEPT ![t] = r] /\ r.pending = turn[t].pending
  BY <1>1 DEF Stop, TurnRecord
<1> HIDE DEF r
<1> QED BY <1>1, <1>2, <1>3, TurnStep DEF Stop

LEMMA ResumeStep ==
    ASSUME AgentTurnAssumption, IInv, NEW t \in Turns, Resume(t)
    PROVE  IInv'
<1> DEFINE r == [turn[t] EXCEPT !.pc = "routed", !.order = TRUE, !.label = SlotIntent,
                                !.conf = ResumeConfidence, !.resumed = TRUE,
                                !.route = "tool"]
<1>1. TurnOK(turn[t]) /\ turn[t] \in TurnRecord /\ turn[t].pc = "loaded"
      /\ turn[t].pending # None
  BY DEF IInv, TurnOK, Resume
<1>2. ChooseRoute("tool", ResumeConfidence) = "tool"
  BY DEF ChooseRoute, ResumeConfidence, LowConfidence, Routes
<1>3. TurnOK(r)
  <2>1. r \in TurnRecord
    <3>1. SlotIntent \in Labels /\ ResumeConfidence \in 0..10 /\ "tool" \in Routes
      BY DEF AgentTurnAssumption, SlotIntent, ResumeConfidence, Routes
    <3> QED BY <1>1, <3>1 DEF TurnRecord
  <2> QED BY <1>1, <2>1 DEF TurnOK, TurnRecord, Early, Resumed, Routed, Written, Doubted,
                ResumeConfidence, LowConfidence
<1>4. turn' = [turn EXCEPT ![t] = r] /\ r.pending = turn[t].pending
  BY <1>1, <1>2 DEF Resume, TurnRecord
<1> HIDE DEF r
<1> QED BY <1>1, <1>3, <1>4, TurnStep DEF Resume

LEMMA ClassifyStep ==
    ASSUME AgentTurnAssumption, IInv, NEW t \in Turns, NEW order \in BOOLEAN,
           NEW i \in ClassifiedIntents, NEW map \in RouteMaps, Classify(t, order, i, map)
    PROVE  IInv'
<1> DEFINE p == turn[t].pending
           drop == Drops(p, i)
           route == ChooseRoute(Candidate(map, p, i), i.conf)
           r == [turn[t] EXCEPT !.pc = "routed", !.order = order, !.label = i.label,
                                !.conf = i.conf, !.route = route, !.wrote = drop]
<1>1. TurnOK(turn[t]) /\ turn[t] \in TurnRecord /\ turn[t].pc = "loaded"
  BY DEF IInv, TurnOK, Classify
<1>2. i.label \in Labels /\ i.conf \in 0..10
  BY IntentTypes
<1>3. route \in Routes /\ (route # "clarify" => i.conf >= LowConfidence)
  BY <1>2 DEF ChooseRoute, LowConfidence, Routes
<1>4. p # None /\ i.label = SlotIntent /\ GivesUp(p) => route = "clarify"
  BY DEF Candidate, ChooseRoute, Routes
<1>5. drop \in BOOLEAN
  BY DEF Drops
<1>6. TurnOK(r)
  <2>1. r \in TurnRecord
    BY <1>1, <1>2, <1>3, <1>5 DEF TurnRecord
  <2>2. /\ r.pc = "routed" /\ r.order = order /\ r.label = i.label /\ r.conf = i.conf
        /\ r.route = route /\ r.wrote = drop /\ r.pending = p
        /\ ~r.resumed /\ r.answer = "none" /\ r.value = None
    BY <1>1 DEF TurnRecord, TurnOK, Early
  <2> HIDE DEF r, route, drop
  <2>3. Early(r) /\ Resumed(r) /\ Written(r) /\ Doubted(r)
    BY <2>2 DEF Early, Resumed, Written, Doubted
  <2>4. Routed(r)
    BY <1>3, <1>4, <2>2 DEF Routed, drop, Drops, Abandons, ReasonOf
  <2> QED BY <2>1, <2>3, <2>4 DEF TurnOK
<1>7. turn' = [turn EXCEPT ![t] = r] /\ r.pending = turn[t].pending
  BY <1>1 DEF Classify, TurnRecord
<1> HIDE DEF r
<1> QED BY <1>1, <1>6, <1>7, TurnStep DEF Classify

\* A node answers, or the harness has the last word on what it may answer.
LEMMA AnswerStep ==
    ASSUME IInv, NEW t \in Turns, NEW route, NEW a \in Answers, Answer(t, route, a),
           a \notin {"none", "stopped", "clarify"} => route # "clarify",
           a = "clarify" <=> route = "clarify", route # "tool"
    PROVE  IInv'
<1> DEFINE r == [turn[t] EXCEPT !.pc = "answered", !.answer = a]
<1>1. TurnOK(turn[t]) /\ turn[t] \in TurnRecord /\ turn[t].pc = "routed" /\ turn[t].route = route
  BY DEF IInv, TurnOK, Answer
<1>2. TurnOK(r)
  <2>1. r \in TurnRecord
    BY <1>1 DEF TurnRecord
  <2>2. /\ r.pc = "answered" /\ r.answer = a /\ r.value = None
        /\ r.wrote = turn[t].wrote /\ r.pending = turn[t].pending /\ r.label = turn[t].label
        /\ r.conf = turn[t].conf /\ r.resumed = turn[t].resumed
    BY <1>1 DEF TurnRecord, TurnOK, Early
  <2> HIDE DEF r
  <2>3. Early(r) /\ Resumed(r) /\ Routed(r) /\ Doubted(r)
    BY <1>1, <2>2 DEF TurnOK, Early, Resumed, Routed, Doubted
  <2>4. Written(r)
    BY <1>1, <2>2 DEF TurnOK, Routed, Written, ReasonOf
  <2> QED BY <2>1, <2>3, <2>4 DEF TurnOK
<1>3. turn' = [turn EXCEPT ![t] = r] /\ r.pending = turn[t].pending
  BY <1>1 DEF Answer, TurnRecord
<1> HIDE DEF r
<1> QED BY <1>1, <1>2, <1>3, TurnStep DEF Answer

LEMMA NodeStep ==
    ASSUME IInv, NEW t \in Turns,
           RagNode(t) \/ TicketNode(t) \/ ClarifyNode(t) \/ HandoffNode(t)
    PROVE  IInv'
<1>1. CASE RagNode(t)
  BY <1>1, AnswerStep DEF RagNode, Answers
<1>2. CASE TicketNode(t)
  BY <1>2, AnswerStep DEF TicketNode, Answers
<1>3. CASE ClarifyNode(t)
  BY <1>3, AnswerStep DEF ClarifyNode, Answers
<1>4. CASE HandoffNode(t)
  BY <1>4, AnswerStep DEF HandoffNode, Answers
<1> QED BY <1>1, <1>2, <1>3, <1>4

\* A tool asks for its slot only while it may, and counts from the loaded record.
LEMMA ToolStep ==
    ASSUME AgentTurnAssumption, IInv, NEW t \in Turns, ToolNode(t)
    PROVE  IInv'
<1> DEFINE p == PendingNow(t)
<1>0. PICK a \in ToolAnswers(turn[t].label, turn[t].order) :
         turn' = [turn EXCEPT ![t].pc = "answered", ![t].answer = a,
           ![t].wrote = turn[t].wrote \/ Saves(a, p), ![t].value = NextRecord(a, p)]
  BY DEF ToolNode
<1> DEFINE save == Saves(a, p)
           value == NextRecord(a, p)
           r == [turn[t] EXCEPT !.pc = "answered", !.answer = a,
                                !.wrote = turn[t].wrote \/ save, !.value = value]
<1>1. TurnOK(turn[t]) /\ turn[t] \in TurnRecord /\ turn[t].pc = "routed"
      /\ turn[t].route = "tool"
  BY DEF IInv, TurnOK, ToolNode
<1>2. a \in {"ask", "unsupported"} \cup OrderAnswers \cup KnowledgeAnswers
  BY <1>0 DEF ToolAnswers
<1>3. a = "ask" <=> turn[t].label = SlotIntent /\ ~turn[t].order
  BY <1>0 DEF ToolAnswers, SlotIntent, OrderAnswers, KnowledgeAnswers
<1>4. a = "ask" => ~turn[t].wrote /\ p = turn[t].pending
  BY <1>1, <1>3 DEF TurnOK, Routed, PendingNow, ReasonOf
<1>5. value \in Waits
  <2>1. CASE a = "ask" /\ p # None
    <3>1. p \in 0..(MaxSlotTurns - 1) /\ ~GivesUp(p)
      BY <1>1, <1>3, <1>4, <2>1 DEF TurnOK, Routed, TurnRecord, Waits
    <3> QED BY <2>1, <3>1 DEF NextRecord, GivesUp, Waits, AgentTurnAssumption
  <2>2. CASE a = "ask" /\ p = None
    BY <2>2 DEF NextRecord, Waits, AgentTurnAssumption
  <2>3. CASE a # "ask"
    BY <2>3 DEF NextRecord, Waits
  <2> QED BY <2>1, <2>2, <2>3
<1>6. TurnOK(r)
  <2>1. r \in TurnRecord
    <3>1. a \in Answers /\ (turn[t].wrote \/ save) \in BOOLEAN
      BY <1>1, <1>2 DEF Answers, Saves, TurnRecord
    <3> HIDE DEF save, value
    <3> QED BY <1>1, <1>5, <3>1 DEF TurnRecord
  <2>2. /\ r.pc = "answered" /\ r.answer = a /\ r.value = value
        /\ r.wrote = (turn[t].wrote \/ save)
        /\ r.pending = turn[t].pending /\ r.label = turn[t].label /\ r.conf = turn[t].conf
        /\ r.resumed = turn[t].resumed /\ r.order = turn[t].order /\ r.route = "tool"
    BY <1>1 DEF TurnRecord
  <2> HIDE DEF r
  <2>3. Early(r) /\ Routed(r) /\ Doubted(r)
    BY <1>1, <2>2 DEF TurnOK, Early, Routed, Doubted
  <2>4. Resumed(r)
    <3>1. SUFFICES ASSUME turn[t].resumed PROVE Resumed(r)
      BY <2>2 DEF Resumed
    <3>2. turn[t].pending # None /\ turn[t].label = SlotIntent /\ turn[t].order
      BY <1>1, <3>1 DEF TurnOK, Resumed
    <3>3. a \in OrderAnswers /\ a # "ask"
      BY <1>0, <3>2 DEF ToolAnswers, SlotIntent, OrderAnswers
    <3>4. (turn[t].wrote \/ save) /\ value = None
      BY <3>2, <3>3 DEF PendingNow, Saves, NextRecord
    <3> QED BY <2>2, <3>2, <3>3, <3>4 DEF Resumed
  <2>5. Written(r)
    <3>1. CASE a = "ask"
      <4>1. r.value = IF r.pending = None THEN 0 ELSE r.pending + 1
        BY <1>4, <2>2, <3>1 DEF NextRecord
      <4>2. r.wrote
        BY <2>2, <3>1 DEF Saves
      <4>3. r.pending \in Waits
        BY <1>1, <2>2 DEF TurnRecord
      <4>4. r.value \in Nat
        BY <4>1, <4>3 DEF Waits, AgentTurnAssumption
      <4>5. r.value # None
        BY <4>4 DEF AgentTurnAssumption
      <4> QED BY <2>2, <4>1, <4>2, <4>5 DEF Written
    <3>2. CASE a # "ask"
      <4>1. r.value = None
        BY <2>2, <3>2 DEF NextRecord
      <4> QED BY <2>2, <4>1 DEF Written
    <3> QED BY <3>1, <3>2
  <2> QED BY <2>1, <2>3, <2>4, <2>5 DEF TurnOK
<1>7. turn' = [turn EXCEPT ![t] = r] /\ r.pending = turn[t].pending
  BY <1>0, <1>1 DEF TurnRecord
<1> HIDE DEF r
<1> QED BY <1>1, <1>6, <1>7, TurnStep DEF ToolNode

\* A commit publishes what the turn counted; Counted says it counted right.
LEMMA CommitStep ==
    ASSUME AgentTurnAssumption, IInv, NEW t \in Turns, Commit(t)
    PROVE  IInv'
<1>1. TurnOK(turn[t]) /\ turn[t] \in TurnRecord /\ turn[t].pc = "answered"
  BY DEF IInv, TurnOK, Commit
<1>2. turn'[t] = Idle /\ \A u \in Turns \ {t} : turn'[u] = turn[u]
  BY DEF IInv, TypeOK, Commit
<1>3. TypeOK'
  <2>1. meta' \in Waits
    BY <1>1 DEF Commit, IInv, TypeOK, TurnRecord
  <2>2. asks' \in Nat
    BY DEF Commit, IInv, TypeOK
  <2>3. turn' \in [Turns -> TurnRecord]
    BY IdleOK DEF Commit, IInv, TypeOK, TurnOK
  <2>4. transferred' \in BOOLEAN /\ overlapped' \in BOOLEAN
    BY DEF Commit, IInv, TypeOK
  <2> QED BY <2>1, <2>2, <2>3, <2>4 DEF TypeOK
<1>4. (\A u \in Turns : TurnOK(turn[u]))'
  <2> SUFFICES ASSUME NEW u \in Turns PROVE TurnOK(turn[u])'
    OBVIOUS
  <2>1. TurnOK(turn'[u])
    BY <1>2, IdleOK DEF IInv
  <2> QED BY <2>1 DEF TurnOK, TurnRecord, Early, Resumed, Routed, Written, Doubted,
                      ReasonOf, GivesUp, Waits
<1>5. Counted'
  <2>1. (meta = None => asks = 0)'
    BY <1>1 DEF Commit, IInv, Counted, TypeOK
  <2>2. ASSUME ~overlapped'
        PROVE  /\ asks' = IF meta' = None THEN 0 ELSE meta' + 1
               /\ \A u \in Turns : turn'[u].pc = "idle"
    <3>1. /\ ~overlapped /\ turn[t].pending = meta
          /\ asks = IF meta = None THEN 0 ELSE meta + 1
          /\ \A u \in Turns \ {t} : turn[u].pc = "idle"
      BY <1>1, <2>2 DEF Commit, IInv, Counted
    <3>2. \A u \in Turns : turn'[u].pc = "idle"
      BY <1>2, <3>1 DEF Idle
    <3>3. asks' = IF meta' = None THEN 0 ELSE meta' + 1
      BY <1>1, <3>1 DEF Commit, TurnOK, Written
    <3> QED BY <3>2, <3>3
  <2> QED BY <2>1, <2>2 DEF Counted
<1> QED BY <1>3, <1>4, <1>5 DEF IInv

LEMMA FailStep ==
    ASSUME AgentTurnAssumption, IInv, NEW t \in Turns, Fail(t)
    PROVE  IInv'
<1>1. Idle.pc = "idle"
  BY DEF Idle
<1> QED BY <1>1, IdleOK, TurnStep DEF Fail

LEMMA Unchanged == ASSUME IInv, UNCHANGED vars PROVE IInv'
<1>1. TypeOK'
  BY DEF IInv, TypeOK, vars
<1>2. (\A u \in Turns : TurnOK(turn[u]))'
  BY DEF IInv, vars, TurnOK, TurnRecord, Early, Resumed, Routed, Written, Doubted,
         ReasonOf, GivesUp, Waits
<1>3. Counted'
  BY DEF IInv, Counted, vars
<1> QED BY <1>1, <1>2, <1>3 DEF IInv

LEMMA HandBackStep == ASSUME IInv, HandBack PROVE IInv'
<1>1. TypeOK'
  BY DEF IInv, TypeOK, HandBack
<1>2. (\A u \in Turns : TurnOK(turn[u]))'
  BY DEF IInv, HandBack, TurnOK, TurnRecord, Early, Resumed, Routed, Written, Doubted,
         ReasonOf, GivesUp, Waits
<1>3. Counted'
  BY DEF IInv, Counted, HandBack
<1> QED BY <1>1, <1>2, <1>3 DEF IInv

-----------------------------------------------------------------------------
(* Theorems *)

\* What a turn may come to, and how questions are counted: for any number of
\* turns, intents, configurations and any bound on the waiting.
THEOREM Inductive == Spec => []IInv
<1>1. AgentTurnAssumption
  BY AgentTurnAssumption
<1>2. Init => IInv
  BY <1>1, InitHolds
<1>3. IInv /\ [Next]_vars => IInv'
  <2> SUFFICES ASSUME IInv, [Next]_vars PROVE IInv'
    OBVIOUS
  <2>1. ASSUME NEW t \in Turns, Begin(t) \/ Stop(t) \/ Resume(t) PROVE IInv'
    BY <1>1, <2>1, BeginStep, StopStep, ResumeStep
  <2>2. ASSUME NEW t \in Turns, NEW order \in BOOLEAN, NEW i \in ClassifiedIntents,
               NEW map \in RouteMaps, Classify(t, order, i, map)
        PROVE  IInv'
    BY <1>1, <2>2, ClassifyStep
  <2>3. ASSUME NEW t \in Turns,
               RagNode(t) \/ TicketNode(t) \/ ClarifyNode(t) \/ HandoffNode(t) \/ ToolNode(t)
        PROVE  IInv'
    BY <1>1, <2>3, NodeStep, ToolStep
  <2>4. ASSUME NEW t \in Turns, Commit(t) \/ Fail(t) PROVE IInv'
    BY <1>1, <2>4, CommitStep, FailStep
  <2>5. CASE HandBack
    BY <2>5, HandBackStep
  <2>6. CASE UNCHANGED vars
    BY <2>6, Unchanged
  <2> QED BY <2>1, <2>2, <2>3, <2>4, <2>5, <2>6 DEF Next
<1> QED BY <1>2, <1>3, PTL DEF Spec

\* Type correctness of the agent turn: no record counts MAX_SLOT_TURNS or more.
THEOREM TypeCorrect == Spec => []TypeOK
<1>1. IInv => TypeOK
  BY DEF IInv
<1> QED BY <1>1, Inductive, PTL

\* A slot is asked for at most MAX_SLOT_TURNS times while turns do not overlap.
THEOREM AskedEnough == Spec => []AsksBounded
<1>1. IInv => AsksBounded
  <2> SUFFICES ASSUME IInv, ~overlapped PROVE asks <= MaxSlotTurns
    BY DEF AsksBounded
  <2>1. asks = IF meta = None THEN 0 ELSE meta + 1
    BY DEF IInv, Counted
  <2>2. meta = None \/ meta \in 0..(MaxSlotTurns - 1)
    BY DEF IInv, TypeOK, Waits
  <2>3. MaxSlotTurns \in Nat \ {0}
    BY AgentTurnAssumption DEF AgentTurnAssumption
  <2> QED BY <2>1, <2>2, <2>3
<1> QED BY <1>1, Inductive, PTL

\* An intent without confidence leads to nothing but a question back.
THEOREM NothingInDoubt == Spec => []DoubtDoesNothing
<1>1. IInv => DoubtDoesNothing
  BY DEF IInv, TurnOK, Doubted, DoubtDoesNothing
<1> QED BY <1>1, Inductive, PTL

\* A turn that resumed with an order number looks it up and clears the record.
THEOREM SlotsFilled == Spec => SlotIsFilled
<1>1. IInv /\ [Next]_vars => [Fills]_vars
  <2> SUFFICES ASSUME IInv, NEW t \in Turns, Commit(t), turn[t].resumed
               PROVE  turn[t].answer \in OrderAnswers /\ meta' = None
    BY DEF Fills
  <2>1. turn[t].answer \in OrderAnswers /\ turn[t].wrote /\ turn[t].value = None
    BY DEF IInv, TurnOK, Resumed, Commit
  <2> QED BY <2>1 DEF Commit
<1> QED BY <1>1, Inductive, PTL DEF Spec, SlotIsFilled

\* A turn that drifts without confidence, and that no tool answers, writes nothing.
THEOREM SlotOutlivesDrift == Spec => DriftKeepsSlot
<1>1. IInv /\ [Next]_vars => [KeptOnDrift]_vars
  <2> SUFFICES ASSUME IInv, NEW t \in Turns, Commit(t), Drifts(t), turn[t].route # "tool"
               PROVE  meta' = meta
    BY DEF KeptOnDrift
  <2>1. turn[t] \in TurnRecord /\ turn[t].pc = "answered"
    BY DEF IInv, TurnOK, Commit
  <2>2. turn[t].wrote => ReasonOf(turn[t])
    BY <2>1 DEF IInv, TurnOK, Written
  <2>3. ~ReasonOf(turn[t])
    BY <2>1 DEF Drifts, ReasonOf, TurnRecord, AbandonConfidence
  <2> QED BY <2>2, <2>3 DEF Commit
<1> QED BY <1>1, Inductive, PTL DEF Spec, DriftKeepsSlot
=============================================================================
