------------------------------ MODULE AgentTurn ------------------------------
(***************************************************************************)
(* One turn of the agent, over the turns of a conversation.                *)
(*                                                                         *)
(* A turn loads the conversation, is stopped by the harness, resumed or    *)
(* classified, routed, and answered by one node; then its transaction      *)
(* commits.  A tool that lacks its slot (an order number) asks for it and  *)
(* leaves a record in conversations.metadata, which the next turns load:   *)
(* how often the slot was asked for decides when they give it up.  Turns   *)
(* of one conversation overlap when its user has it open twice, each with  *)
(* the record as it was when the turn began.                               *)
(***************************************************************************)
EXTENDS Naturals

CONSTANTS
    Turns,         \* turns that may be in progress at once
    Labels,        \* intents the classifier may answer with
    Confidences,   \* confidences of the language model, in tenths
    RouteMaps,     \* intent configurations that may be active: label -> route
    MaxSlotTurns,  \* MAX_SLOT_TURNS
    None

\* Confidences, in tenths.
RuleConfidence == 7      \* KEYWORD_HIT_CONFIDENCE
ResumeConfidence == 9    \* RESUME_SLOT_CONFIDENCE
AbandonConfidence == 7   \* ABANDON_CONFIDENCE
LowConfidence == 5       \* low_confidence_threshold of the harness

ASSUME AgentTurnAssumption ==
    /\ {"faq", "order_query"} \subseteq Labels
    /\ Confidences \subseteq 0..10
    /\ MaxSlotTurns \in Nat \ {0}
    /\ None \notin Nat

VARIABLES
    meta,         \* turns_waited of the committed pending_tool record, or None
    transferred,  \* conversations.status: the gate keeps turns from the agent
    turn,         \* turn[t]: what t has loaded and decided
    asks,         \* how often the slot was asked for since the record was made
    overlapped    \* have turns overlapped since the record was made

vars == <<meta, transferred, turn, asks, overlapped>>

Routes == {"rag", "ticket", "handoff", "clarify", "tool"}

\* search_order always answers: with the order the shop knows, or with sample data when
\* no webhook is configured or it fails.
OrderAnswers == {"order", "sample"}

\* search_knowledge: the passages found; none when the retrieval fails.
KnowledgeAnswers == {"knowledge", "noKnowledge"}

Answers == {"none", "stopped", "clarify", "rag", "ragFailed", "ticket", "noTicket",
            "handoff", "ask", "unsupported"} \cup OrderAnswers \cup KnowledgeAnswers

\* The only record a tool leaves: search_order waits for an order number.
SlotIntent == "order_query"

Idle == [pc |-> "idle", pending |-> None, order |-> FALSE, label |-> "faq", conf |-> 0,
         resumed |-> FALSE, route |-> "rag", answer |-> "none",
         wrote |-> FALSE, value |-> None]

Init ==
    /\ meta = None
    /\ transferred = FALSE
    /\ turn = [t \in Turns |-> Idle]
    /\ asks = 0
    /\ overlapped = FALSE

\* A turn that has updated the conversation holds its row until it ends.
HoldsRow(t) == turn[t].wrote \/ turn[t].answer = "handoff"
RowFree(t) == \A u \in Turns \ {t} : ~HoldsRow(u)

\* process_user_message reads the conversation once, when the turn begins.
Begin(t) ==
    /\ turn[t].pc = "idle" /\ ~transferred
    /\ turn' = [turn EXCEPT ![t] = [Idle EXCEPT !.pc = "loaded", !.pending = meta]]
    /\ overlapped' = \/ \E u \in Turns \ {t} : turn[u].pc # "idle"
                     \/ overlapped /\ meta # None
    /\ UNCHANGED <<meta, transferred, asks>>

\* The harness turns away an empty, overlong or prompt-controlling question.
Stop(t) ==
    /\ turn[t].pc = "loaded"
    /\ turn' = [turn EXCEPT ![t].pc = "answered", ![t].answer = "stopped"]
    /\ UNCHANGED <<meta, transferred, asks, overlapped>>

-----------------------------------------------------------------------------
(* Classification and routing *)

Intent(label, conf, vague) == [label |-> label, conf |-> conf, vague |-> vague]

\* An answer of the model that does not parse, or no answer and no keyword.
Unclear == Intent("faq", 5, TRUE)

\* What the keyword rules find, if anything.
KeywordLabels == {"handoff", "complaint", "fault_report", "order_query"}
RuleIntents == {Intent(l, RuleConfidence, FALSE) : l \in Labels \cap KeywordLabels}

ModelIntents == {Intent(l, c, c < 7) : l \in Labels, c \in Confidences} \cup {Unclear}

\* classify: the model overrules a keyword unless it is less confident or fails.
Overrules(m, r) == r = None \/ (m # None /\ m.conf >= r.conf)
Classified(r, m) ==
    IF ~Overrules(m, r) THEN r ELSE IF m = None THEN Unclear ELSE m
ClassifiedIntents ==
    {Classified(r, m) : r \in RuleIntents \cup {None}, m \in ModelIntents \cup {None}}

\* _FALLBACK_ROUTES: what the intents mean while no configuration is active.
FallbackRoutes ==
    [l \in {"faq", "product", "order_query", "fault_report", "complaint", "handoff"} |->
        CASE l \in {"faq", "product"} -> "rag"
          [] l = "order_query" -> "tool"
          [] l \in {"fault_report", "complaint"} -> "ticket"
          [] l = "handoff" -> "handoff"]

\* A configuration replaces the built-in table as a whole; what it does not name,
\* or sends to a route there is not, is answered from the knowledge base.
RouteByIntent(map, i) ==
    LET table == IF DOMAIN map = {} THEN FallbackRoutes ELSE map
        target == IF i.label \in DOMAIN table THEN table[i.label] ELSE "rag"
    IN  IF i.vague /\ i.conf < 5 THEN "clarify"
        ELSE IF target \in Routes THEN target ELSE "rag"

\* Mutant: a route the slot protocol asked for is not overridden.
ChooseRoute_Trusting(candidate, conf) ==
    IF candidate \notin Routes THEN "rag"
    ELSE IF conf < LowConfidence /\ candidate # "tool" THEN "clarify" ELSE candidate

\* The harness has the last word on the route.
ChooseRoute(candidate, conf) ==
    IF conf < LowConfidence THEN "clarify"
    ELSE IF candidate \in Routes THEN candidate ELSE "rag"

-----------------------------------------------------------------------------
(* The slot protocol, before the route is known *)

\* resume_pending_route: an order number while one is waited for needs no classifier.
Resume(t) ==
    LET p == turn[t].pending
    IN  /\ turn[t].pc = "loaded" /\ p # None
        /\ turn' = [turn EXCEPT ![t].pc = "routed", ![t].order = TRUE,
                                ![t].label = SlotIntent, ![t].conf = ResumeConfidence,
                                ![t].resumed = TRUE,
                                ![t].route = ChooseRoute("tool", ResumeConfidence)]
        /\ UNCHANGED <<meta, transferred, asks, overlapped>>

\* Mutant: the turn just waited is not counted.
GivesUp_Late(p) == p >= MaxSlotTurns

\* The slot has been asked for often enough.
GivesUp(p) == p + 1 >= MaxSlotTurns

\* Mutant: any other intent ends the wait.
Abandons_AnyIntent(i) == i.label # SlotIntent

\* The user is clearly after something else.
Abandons(i) == i.label # SlotIntent /\ i.conf >= AbandonConfidence

\* settle_pending_after_classify: what the classified intent means for the record.
Drops(p, i) == p # None /\ ((i.label = SlotIntent /\ GivesUp(p)) \/ Abandons(i))
Candidate(map, p, i) ==
    IF p = None \/ i.label # SlotIntent THEN RouteByIntent(map, i)
    ELSE IF GivesUp(p) THEN "clarify" ELSE "tool"

\* Without an order number, or without a record, the question is classified.
Classify(t, order, i, map) ==
    LET p == turn[t].pending
        drop == Drops(p, i)
    IN  /\ turn[t].pc = "loaded" /\ (p # None => ~order)
        /\ drop => RowFree(t)
        /\ turn' = [turn EXCEPT ![t].pc = "routed", ![t].order = order,
                                ![t].label = i.label, ![t].conf = i.conf,
                                ![t].route = ChooseRoute(Candidate(map, p, i), i.conf),
                                ![t].wrote = drop]
        /\ UNCHANGED <<meta, transferred, asks, overlapped>>

-----------------------------------------------------------------------------
(* The nodes *)

Answer(t, route, a) ==
    /\ turn[t].pc = "routed" /\ turn[t].route = route
    /\ turn' = [turn EXCEPT ![t].pc = "answered", ![t].answer = a]
    /\ UNCHANGED <<meta, transferred, asks, overlapped>>

RagNode(t) == \E a \in {"rag", "ragFailed"} : Answer(t, "rag", a)

\* TicketService.create_ticket answers or raises; see Tickets.
TicketNode(t) == \E a \in {"ticket", "noTicket"} : Answer(t, "ticket", a)

ClarifyNode(t) == Answer(t, "clarify", "clarify")

\* update_status of the conversation, then the queue; see Handoff.
HandoffNode(t) == RowFree(t) /\ Answer(t, "handoff", "handoff")

\* execute_tool: the label names the tool, not the route.
ToolAnswers(label, order) ==
    CASE label = "order_query" -> IF order THEN OrderAnswers ELSE {"ask"}
      [] label \in {"knowledge_search", "kb_search"} -> KnowledgeAnswers
      [] OTHER -> {"unsupported"}

\* state.pending_tool, after the record may have been dropped.
PendingNow(t) == IF turn[t].wrote THEN None ELSE turn[t].pending

\* Mutant: the record stays when the tool has its slot.
Saves_Ask(a, p) == a = "ask"

\* sync_pending_after_tool makes, advances or clears the record.
Saves(a, p) == a = "ask" \/ p # None
NextRecord(a, p) == IF a = "ask" THEN IF p = None THEN 0 ELSE p + 1 ELSE None

ToolNode(t) ==
    \E a \in ToolAnswers(turn[t].label, turn[t].order) :
        LET p == PendingNow(t)
        IN  /\ turn[t].pc = "routed" /\ turn[t].route = "tool"
            /\ Saves(a, p) => RowFree(t)
            /\ turn' = [turn EXCEPT ![t].pc = "answered", ![t].answer = a,
                 ![t].wrote = turn[t].wrote \/ Saves(a, p), ![t].value = NextRecord(a, p)]
            /\ UNCHANGED <<meta, transferred, asks, overlapped>>

-----------------------------------------------------------------------------
(* The end of a turn *)

Commit(t) ==
    LET mine == turn[t]
    IN  /\ mine.pc = "answered"
        /\ meta' = IF mine.wrote THEN mine.value ELSE meta
        /\ asks' = IF ~mine.wrote THEN asks ELSE IF mine.value = None THEN 0 ELSE asks + 1
        /\ transferred' = (transferred \/ mine.answer = "handoff")
        /\ turn' = [turn EXCEPT ![t] = Idle]
        /\ UNCHANGED overlapped

\* An error, a closed connection or a killed process: the transaction rolls back.
Fail(t) ==
    /\ turn[t].pc # "idle"
    /\ turn' = [turn EXCEPT ![t] = Idle]
    /\ UNCHANGED <<meta, transferred, asks, overlapped>>

\* Staff resolve the handoff, or nobody takes it in time.
HandBack ==
    /\ transferred
    /\ transferred' = FALSE
    /\ UNCHANGED <<meta, turn, asks, overlapped>>

Next ==
    \/ \E t \in Turns :
          \/ Begin(t) \/ Stop(t) \/ Resume(t)
          \/ \E order \in BOOLEAN, i \in ClassifiedIntents, map \in RouteMaps :
                Classify(t, order, i, map)
          \/ RagNode(t) \/ TicketNode(t) \/ ClarifyNode(t) \/ HandoffNode(t) \/ ToolNode(t)
          \/ Commit(t) \/ Fail(t)
    \/ HandBack

Spec == Init /\ [][Next]_vars

-----------------------------------------------------------------------------
(* Properties *)

Waits == {None} \cup 0..(MaxSlotTurns - 1)
TurnRecord ==
    [pc : {"idle", "loaded", "routed", "answered"}, pending : Waits, order : BOOLEAN,
     label : Labels, conf : 0..10, resumed : BOOLEAN, route : Routes, answer : Answers,
     wrote : BOOLEAN, value : Waits]

\* No record waits for more than its turns: whatever turns load, and however they
\* overlap, the count written stays below MAX_SLOT_TURNS.
TypeOK ==
    /\ meta \in Waits
    /\ transferred \in BOOLEAN /\ overlapped \in BOOLEAN
    /\ turn \in [Turns -> TurnRecord]
    /\ asks \in Nat

\* In a conversation open once, the user is asked for the same slot at most
\* MAX_SLOT_TURNS times, whatever turns come in between or are rolled back.  Turns
\* that overlap count their questions from the same record.
AsksBounded == overlapped \/ asks <= MaxSlotTurns

\* A turn that gave the awaited order number ends with that order looked up and the
\* record gone: neither the harness nor an overlapping turn makes it ask again.
Fills ==
    \A t \in Turns :
        Commit(t) /\ turn[t].resumed => turn[t].answer \in OrderAnswers /\ meta' = None
SlotIsFilled == [][Fills]_vars

\* Why a record may go: the slot was filled, asked for often enough, or the user is
\* clearly after something else.
Reason(t) ==
    \/ turn[t].answer \in OrderAnswers
    \/ /\ turn[t].label = SlotIntent
       /\ turn[t].pending # None /\ GivesUp(turn[t].pending)
    \/ turn[t].label # SlotIntent /\ turn[t].conf >= AbandonConfidence

\* No other turn is about to clear the record: settle_pending_after_classify keeps the
\* slot of a turn that drifts to another intent without confidence, "so that a number
\* given in the next turn still resumes it".  The code breaks this where that intent is
\* routed to a tool too: its answer clears the record in sync_pending_after_tool.
DroppedForAReason ==
    \A t \in Turns :
        turn[t].pc = "answered" /\ turn[t].wrote /\ turn[t].value = None => Reason(t)

\* Of the turns no tool answers the comment is true: one that loaded a record, drifts to
\* another intent without the confidence to abandon it and is answered from the
\* knowledge base, with a ticket, a handoff or a question, leaves the record as it is.
Drifts(t) ==
    /\ turn[t].pending # None /\ turn[t].label # SlotIntent
    /\ turn[t].conf < AbandonConfidence
KeptOnDrift ==
    \A t \in Turns : Commit(t) /\ Drifts(t) /\ turn[t].route # "tool" => meta' = meta
DriftKeepsSlot == [][KeptOnDrift]_vars

\* On an intent the harness has no confidence in the agent does nothing but ask
\* back: no ticket, no handoff, no lookup, whichever way the route was found.
DoubtDoesNothing ==
    \A t \in Turns :
        turn[t].answer \notin {"none", "stopped", "clarify"} => turn[t].conf >= LowConfidence
=============================================================================
