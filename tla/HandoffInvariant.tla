-------------------------- MODULE HandoffInvariant --------------------------
(***************************************************************************)
(* The inductive invariant behind the safety properties of Handoff: what   *)
(* an open transaction may hold, given what is committed.                  *)
(***************************************************************************)
EXTENDS Handoff

Closing == {"resolved", "returned", "timed_out"}

\* A row has at most one writer, and a row id at most one inserter.
LocksExclusive ==
    \A p, q \in Procs : p # q =>
        /\ \A c \in Convs : "untouched" \in {convW[p][c], convW[q][c]}
        /\ \A s \in Sessions : "untouched" \in {sessW[p][s], sessW[q][s]}

\* A turn on its way to the INSERT owns the row id it drew.
Reserves(p) ==
    pc[p] \in {"transfer", "enqueue"} =>
        /\ sn[p] \in Sessions /\ ConvOf[sn[p]] = cv[p]
        /\ status[sn[p]] = "absent"
        /\ \A q \in Procs \ {p} : sn[q] # sn[p]

\* A queued row is inserted under the conversation's row lock, where none is open.
Inserts(p, s) ==
    sessW[p][s] = "queued" =>
        /\ pc[p] = "finish" /\ sn[p] = s /\ status[s] = "absent"
        /\ convW[p][ConvOf[s]] = "transferred"
        /\ Open(ConvOf[s]) = {}

Claims(p, s) ==
    sessW[p][s] = "claimed" =>
        /\ pc[p] = "commit" /\ sn[p] = s /\ status[s] = "queued"
        /\ who[p] \in Staff
        /\ convW[p] = NoConvWrites

\* Unless the conversation was archived under it, a session that is resolved
\* takes the conversation out of the transferred state in the same transaction.
Resolves(p, s) ==
    sessW[p][s] \in {"resolved", "returned"} =>
        /\ pc[p] \in {"readConv", "writeConv", "commit"}
        /\ cv[p] = ConvOf[s] /\ status[s] = "claimed"
        /\ pc[p] = "commit" /\ cv[p] \notin cut => convW[p][cv[p]] \in {"active", "closed"}

Sweeps(p, s) ==
    /\ sessW[p][s] \in {"locked", "ticketed", "timed_out"} =>
         pc[p] \in SweepPC /\ status[s] = "queued"
    /\ sessW[p][s] = "ticketed" =>
         pc[p] \in {"expire", "expireOnly"} /\ sn[p] = s /\ cv[p] = ConvOf[s]
    /\ sessW[p][s] = "timed_out" /\ ConvOf[s] \notin cut =>
         \/ convW[p][ConvOf[s]] = "active"
         \/ pc[p] = "handBack" /\ cv[p] = ConvOf[s]

\* What the program point of a process says about its locals.
AtPoint(p) ==
    /\ pc[p] \in {"agent", "metadata", "transfer", "enqueue"} => cv[p] \in Convs
    /\ pc[p] = "claim" => sn[p] \in Sessions /\ who[p] \in Staff
    /\ pc[p] \in {"idle", "claim", "reply", "close"} =>
         convW[p] = NoConvWrites /\ sessW[p] = NoSessionWrites
    /\ pc[p] \in {"claim", "reply", "close"} => sn[p] \in Sessions
    /\ pc[p] = "close" => cv[p] = ConvOf[sn[p]]
    /\ pc[p] = "reply" =>
         /\ who[p] \in Staff /\ assignee[sn[p]] = who[p]
         /\ status[sn[p]] \in {"claimed", "resolved", "returned"}
    /\ pc[p] = "readConv" => sn[p] \in Sessions /\ sessW[p][sn[p]] \in {"resolved", "returned"}
    /\ pc[p] = "writeConv" =>
         /\ cv[p] \in Convs
         /\ goal[p] = "active" =>
              \E s \in Sessions : ConvOf[s] = cv[p] /\ sessW[p][s] \in {"resolved", "returned"}
    /\ pc[p] \in {"expire", "expireOnly"} =>
         sn[p] \in Sessions /\ sessW[p][sn[p]] = "ticketed"
    /\ pc[p] = "expireOnly" => cv[p] \in cut
    /\ pc[p] = "handBack" =>
         /\ sn[p] \in Sessions /\ cv[p] = ConvOf[sn[p]]
         /\ sessW[p][sn[p]] = "timed_out"

\* A conversation row is marked transferred by a turn that makes sure of a session,
\* and handed back by the transaction that closes its session.
WritesConv(p, c) ==
    /\ convW[p][c] = "transferred" =>
         /\ pc[p] \in {"enqueue", "finish"} /\ cv[p] = c
         /\ pc[p] = "finish" /\ c \notin cut =>
              \/ Open(c) # {}
              \/ \E s \in Sessions : ConvOf[s] = c /\ sessW[p][s] = "queued"
    /\ convW[p][c] = "active" =>
         \E s \in Open(c) : sessW[p][s] \in Closing
    /\ convW[p][c] = "closed" => pc[p] = "commit" /\ cv[p] = c
    /\ pc[p] = "enqueue" => convW[p][cv[p]] = "transferred"

TransactionOK(p) ==
    /\ Reserves(p) /\ AtPoint(p)
    /\ \A c \in Convs : WritesConv(p, c)
    /\ \A s \in Sessions :
         /\ Inserts(p, s) /\ Claims(p, s) /\ Resolves(p, s) /\ Sweeps(p, s)
         /\ sessW[p][s] # "absent"

\* What assignments and staff messages say of each other.
AssignmentOK ==
    /\ \A s \in Sessions : status[s] = "claimed" => assignee[s] \in Staff
    /\ \A x \in replies : status[x[1]] \in {"claimed", "resolved", "returned"}

\* The committed tables and the open transactions fit together: the inductive
\* strengthening of the safety properties of Handoff.
IInv ==
    /\ TypeOK
    /\ LocksExclusive
    /\ \A p \in Procs : TransactionOK(p)
    /\ AssignmentOK
    /\ OneOpenSession /\ NobodyStranded /\ OpenMeansTransferred
    /\ EscalatedIffTimedOut /\ RepliesByAssignee
=============================================================================
