-------------------------- MODULE HandoffOwnership --------------------------
(***************************************************************************)
(* What the handoff protocol promises the customer: at every moment        *)
(* exactly one party is responsible for a conversation - the AI, the staff *)
(* queue, or one support agent - and responsibility changes hands in one   *)
(* step.  Module Handoff implements it with transactions over two tables.  *)
(***************************************************************************)
CONSTANTS Convs, Staff

VARIABLE owner  \* who answers the customer of each conversation

\* "active" and "closed" conversations are answered by the AI; an "abandoned"
\* one was archived by its customer during a handoff.
Owner == {"active", "closed", "queue", "abandoned"} \cup Staff

Init == owner = [c \in Convs |-> "active"]

Move(c, from, to) ==
    /\ owner[c] \in from
    /\ owner' = [owner EXCEPT ![c] = to]

Transfer(c) == Move(c, {"active", "closed"}, "queue")
Claim(c, a) == Move(c, {"queue"}, a)
Return(c) == Move(c, Staff, "active") \/ Move(c, Staff, "closed")
Archive(c) == Move(c, {"active"}, "closed")
Abandon(c) == Move(c, {"queue"} \cup Staff, "abandoned")

\* One sweep hands every expired conversation it found back to the AI.
TimeOut(C) ==
    /\ C # {} /\ \A c \in C : owner[c] = "queue"
    /\ owner' = [c \in Convs |-> IF c \in C THEN "active" ELSE owner[c]]

Next ==
    \/ \E c \in Convs : Transfer(c) \/ Return(c) \/ Archive(c) \/ Abandon(c)
    \/ \E c \in Convs, a \in Staff : Claim(c, a)
    \/ \E C \in SUBSET Convs : TimeOut(C)

Spec == Init /\ [][Next]_owner
=============================================================================
