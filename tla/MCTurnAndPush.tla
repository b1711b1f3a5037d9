--------------------------- MODULE MCTurnAndPush ---------------------------
(***************************************************************************)
(* Instances of AgentTurn and ChatPush for TLC.  The two share no variable *)
(* and no property speaks of both, so they are checked one beside the      *)
(* other: a behaviour is one of a conversation's turns while no tab is     *)
(* open, or one of the tabs while no turn has begun.                       *)
(***************************************************************************)
EXTENDS MCAgentTurn, ChatPush

CONSTANTS b1, b2, b3

VARIABLE part   \* the part that moves

partVars == <<vars, pushVars, part>>

PartInit == Init /\ PushInit /\ part \in {"turns", "push"}

Turning(step) == part = "turns" /\ step /\ UNCHANGED <<pushVars, part>>
Pushing(step) == part = "push" /\ step /\ UNCHANGED <<vars, part>>

\* Next and PushNext, action by action: TLC then tells which of them are taken.
PartNext ==
    \/ \E t \in Turns :
          \/ Turning(Begin(t)) \/ Turning(Stop(t)) \/ Turning(Resume(t))
          \/ \E order \in BOOLEAN, i \in ClassifiedIntents, map \in RouteMaps :
                Turning(Classify(t, order, i, map))
          \/ Turning(RagNode(t)) \/ Turning(TicketNode(t)) \/ Turning(ClarifyNode(t))
          \/ Turning(HandoffNode(t)) \/ Turning(ToolNode(t))
          \/ Turning(Commit(t)) \/ Turning(Fail(t))
    \/ Turning(HandBack)
    \/ \E b \in Tabs : Pushing(Connect(b)) \/ Pushing(Lose(b)) \/ Pushing(Disconnect(b))
    \/ Pushing(Start) \/ Pushing(Die) \/ Pushing(Take)
    \/ \E reached \in BOOLEAN : Pushing(Publish(reached))
    \/ \E w \in walks :
          \/ \E b \in Tabs : Pushing(Visit(w, b)) \/ Pushing(VisitAgain(w, b))
          \/ Pushing(BreakOff(w)) \/ Pushing(Complete(w))

PartSpec == PartInit /\ [][PartNext]_partVars

PartSymmetry == Symmetry \cup Permutations(Tabs)
=============================================================================
