------------------------------ MODULE Handoff ------------------------------
(***************************************************************************)
(* Handing a conversation over to a human, and getting it back.            *)
(*                                                                         *)
(* A chat turn that the agent routes to "handoff" marks the conversation   *)
(* transferred and queues a handoff session; staff claim, answer and       *)
(* resolve it over REST; a sweeper escalates what nobody picked up.  Every *)
(* one of them is one PostgreSQL transaction at READ COMMITTED, so the     *)
(* model is one of transactions: what a process reads is what has been     *)
(* committed when it reads it, what it writes is private until it commits, *)
(* and a row it has written (or selected FOR UPDATE) makes others wait.    *)
(***************************************************************************)
EXTENDS Naturals, FiniteSets

CONSTANTS
    Convs,        \* conversations
    Sessions,     \* ids a handoff_sessions row may be given (bounds the queue)
    ConvOf,       \* the conversation the row with that id belongs to
    Turns,        \* WebSocket workers, each processing one user message
    Requests,     \* REST workers, each serving one staff or owner request
    Sweepers,     \* the timeout sweeper of each application worker
    Staff,        \* support agents
    NoConv, NoSession, NoStaff,
    AllowArchive, \* may the customer archive a conversation at any moment
    MaxCrashes    \* bound on the number of killed transactions

ASSUME HandoffAssumption ==
    /\ ConvOf \in [Sessions -> Convs]
    /\ NoStaff \notin Staff /\ NoConv \notin Convs /\ NoSession \notin Sessions
    /\ AllowArchive \in BOOLEAN
    /\ MaxCrashes \in Nat

Procs == Turns \cup Requests \cup Sweepers

ConvStatus == {"active", "closed", "transferred"}
OpenStatus == {"queued", "claimed"}
SessionStatus == OpenStatus \cup {"absent", "resolved", "returned", "timed_out"}

\* What a transaction holds of a row: nothing, a lock only, or a new version.
ConvWrite == ConvStatus \cup {"untouched", "locked"}
SessionWrite == SessionStatus \cup {"untouched", "locked", "ticketed"}

TurnPC == {"gate", "agent", "metadata", "transfer", "enqueue", "finish"}
RequestPC == {"claim", "reply", "close", "readConv", "writeConv", "commit"}
SweepPC == {"escalate", "expire", "expireOnly", "handBack"}
PC == {"idle"} \cup TurnPC \cup RequestPC \cup SweepPC

VARIABLES
    \* committed rows
    convStatus,   \* conversations.status
    status,       \* handoff_sessions.status
    assignee,     \* handoff_sessions.assignee
    escalated,    \* sessions whose escalation ticket is committed
    replies,      \* <<session, staff>> of the committed staff messages
    expired,      \* queued for longer than handoff_pickup_timeout_min
    \* transactions in flight
    pc, cv, sn, who, goal,
    convW,        \* convW[p][c]: what p holds of conversation row c
    sessW,        \* sessW[p][s]: what p holds of session row s
    \* history
    cut,          \* conversations archived while their handoff was open
    crashes

db == <<convStatus, status, assignee, escalated, replies>>
locals == <<cv, sn, who, goal>>
held == <<convW, sessW>>
history == <<cut, crashes>>
vars == <<db, expired, pc, locals, held, history>>

Open(c) == {s \in Sessions : ConvOf[s] = c /\ status[s] \in OpenStatus}

NoConvWrites == [c \in Convs |-> "untouched"]
NoSessionWrites == [s \in Sessions |-> "untouched"]

ConvFree(p, c) == \A q \in Procs \ {p} : convW[q][c] = "untouched"
SessionFree(p, s) == \A q \in Procs \ {p} : sessW[q][s] = "untouched"

Init ==
    /\ convStatus = [c \in Convs |-> "active"]
    /\ status = [s \in Sessions |-> "absent"]
    /\ assignee = [s \in Sessions |-> NoStaff]
    /\ escalated = {}
    /\ replies = {}
    /\ expired = {}
    /\ pc = [p \in Procs |-> "idle"]
    /\ cv = [p \in Procs |-> NoConv]
    /\ sn = [p \in Procs |-> NoSession]
    /\ who = [p \in Procs |-> NoStaff]
    /\ goal = [p \in Procs |-> "active"]
    /\ convW = [p \in Procs |-> NoConvWrites]
    /\ sessW = [p \in Procs |-> NoSessionWrites]
    /\ cut = {}
    /\ crashes = 0

-----------------------------------------------------------------------------
(* Transactions *)

\* The process is done with its transaction: its locals and locks are gone.
Release(p) ==
    /\ pc' = [pc EXCEPT ![p] = "idle"]
    /\ cv' = [cv EXCEPT ![p] = NoConv]
    /\ sn' = [sn EXCEPT ![p] = NoSession]
    /\ who' = [who EXCEPT ![p] = NoStaff]
    /\ goal' = [goal EXCEPT ![p] = "active"]
    /\ convW' = [convW EXCEPT ![p] = NoConvWrites]
    /\ sessW' = [sessW EXCEPT ![p] = NoSessionWrites]

\* COMMIT publishes the new versions of the rows p wrote.
Commit(p) ==
    /\ convStatus' = [c \in Convs |->
         IF convW[p][c] \in ConvStatus THEN convW[p][c] ELSE convStatus[c]]
    /\ status' = [s \in Sessions |->
         IF sessW[p][s] \in SessionStatus THEN sessW[p][s] ELSE status[s]]
    /\ assignee' = [s \in Sessions |->
         IF sessW[p][s] = "claimed" THEN who[p] ELSE assignee[s]]
    /\ escalated' = escalated \cup
         {s \in Sessions : sessW[p][s] \in {"ticketed", "timed_out"}}
    /\ replies' = IF pc[p] = "reply" THEN replies \cup {<<sn[p], who[p]>>}
                                     ELSE replies
    /\ cut' = cut \cup {c \in Convs :
         /\ convW[p][c] = "closed"
         /\ \E s \in Open(c) : sessW[p][s] \notin SessionStatus}
    /\ Release(p)
    /\ UNCHANGED <<expired, crashes>>

\* ROLLBACK: only the locks go away.
Rollback(p) == Release(p) /\ UNCHANGED <<db, expired, history>>

\* A step inside the transaction of p, from one program point to another.
Goto(p, from, to) ==
    /\ pc[p] = from
    /\ pc' = [pc EXCEPT ![p] = to]
    /\ UNCHANGED <<db, expired, history>>

\* UPDATE conversations SET status = v: waits until nobody else holds the row.
UpdateConv(p, c, v) ==
    /\ ConvFree(p, c)
    /\ convW' = [convW EXCEPT ![p][c] = v]

-----------------------------------------------------------------------------
(* A chat turn: process_user_message, handoff_node, HandoffService.enqueue *)

\* The status is read once; the ORM keeps serving it for the rest of the turn.
TurnStart(t, c) ==
    /\ Goto(t, "idle", IF convStatus[c] = "transferred" THEN "gate" ELSE "agent")
    /\ cv' = [cv EXCEPT ![t] = c]
    /\ UNCHANGED <<sn, who, goal, held>>

\* Under human care the message is stored and shown, never dispatched to the AI.
TurnGate(t) == pc[t] = "gate" /\ Commit(t)

\* The agent answers by itself, perhaps updating the conversation's metadata.
TurnAnswer(t) ==
    /\ \/ Goto(t, "agent", "finish")
       \/ Goto(t, "agent", "metadata")
    /\ UNCHANGED <<locals, held>>

TurnMetadata(t) ==
    /\ Goto(t, "metadata", "finish")
    /\ UpdateConv(t, cv[t], "locked")
    /\ UNCHANGED <<locals, sessW>>

\* The agent routes the message to the handoff node, with a fresh row id at hand.
TurnHandoff(t, s) ==
    /\ Goto(t, "agent", "transfer")
    /\ ConvOf[s] = cv[t] /\ status[s] = "absent"
    /\ \A q \in Procs : sn[q] # s
    /\ sn' = [sn EXCEPT ![t] = s]
    /\ UNCHANGED <<cv, who, goal, held>>

\* Mutant: the handoff node forgets to gate the conversation.
TurnTransfer_Ungated(t) ==
    /\ Goto(t, "transfer", "enqueue")
    /\ UNCHANGED <<locals, held>>

TurnTransfer(t) ==
    /\ Goto(t, "transfer", "enqueue")
    /\ UpdateConv(t, cv[t], "transferred")
    /\ UNCHANGED <<locals, sessW>>

\* The partial unique index makes an INSERT wait for whoever is inserting or
\* updating an open row of the conversation; a FOR UPDATE lock is no obstacle.
IndexFree(p, c) ==
    \A q \in Procs \ {p}, s \in Sessions :
        ConvOf[s] = c => sessW[q][s] \in {"untouched", "locked", "ticketed"}

\* Mutant: a plain INSERT, no matter what is open.
TurnEnqueue_Always(t) ==
    /\ Goto(t, "enqueue", "finish")
    /\ sessW' = [sessW EXCEPT ![t][sn[t]] = "queued"]
    /\ UNCHANGED <<locals, convW>>

\* INSERT .. ON CONFLICT DO NOTHING; an open session is reused as it is.
TurnEnqueue(t) ==
    /\ Goto(t, "enqueue", "finish")
    /\ IndexFree(t, cv[t])
    /\ sessW' = IF Open(cv[t]) = {} THEN [sessW EXCEPT ![t][sn[t]] = "queued"]
                                    ELSE sessW
    /\ UNCHANGED <<locals, convW>>

TurnFinish(t) == pc[t] = "finish" /\ Commit(t)

-----------------------------------------------------------------------------
(* Staff requests: claim, reply, resolve; and the customer's archive *)

ClaimStart(r, s, a) ==
    /\ status[s] # "absent"
    /\ Goto(r, "idle", "claim")
    /\ sn' = [sn EXCEPT ![r] = s]
    /\ cv' = [cv EXCEPT ![r] = ConvOf[s]]
    /\ who' = [who EXCEPT ![r] = a]
    /\ UNCHANGED <<goal, held>>

\* Mutant: a claim that does not look at the session's status.
Claim_AnyStatus(r) ==
    /\ Goto(r, "claim", "commit")
    /\ SessionFree(r, sn[r])
    /\ sessW' = [sessW EXCEPT ![r][sn[r]] = "claimed"]
    /\ UNCHANGED <<locals, convW>>

\* Mutant: a claim that does not wait for the sweeper's row locks.
Claim_NoWait(r) ==
    /\ Goto(r, "claim", "commit")
    /\ status[sn[r]] = "queued"
    /\ sessW' = [sessW EXCEPT ![r][sn[r]] = "claimed"]
    /\ UNCHANGED <<locals, convW>>

\* UPDATE .. WHERE status = 'queued', evaluated once the row is free.
Claim(r) ==
    /\ Goto(r, "claim", "commit")
    /\ SessionFree(r, sn[r])
    /\ status[sn[r]] = "queued"
    /\ sessW' = [sessW EXCEPT ![r][sn[r]] = "claimed"]
    /\ UNCHANGED <<locals, convW>>

\* Mutant: only a session that somebody else claimed counts as a conflict.
ClaimConflict_ClaimedOnly(r) ==
    /\ pc[r] = "claim" /\ SessionFree(r, sn[r]) /\ status[sn[r]] = "claimed"
    /\ Rollback(r)

\* The loser of the race gets 409.
ClaimConflict(r) ==
    /\ pc[r] = "claim" /\ SessionFree(r, sn[r]) /\ status[sn[r]] # "queued"
    /\ Rollback(r)

\* reply and resolve start by checking that the caller holds the claim.
RequireAssignee(s, a) == status[s] = "claimed" /\ assignee[s] = a

AssigneeStart(r, s, a) ==
    /\ RequireAssignee(s, a)
    /\ \/ Goto(r, "idle", "reply") /\ who' = [who EXCEPT ![r] = a]
       \/ Goto(r, "idle", "close") /\ UNCHANGED who
    /\ sn' = [sn EXCEPT ![r] = s]
    /\ cv' = [cv EXCEPT ![r] = ConvOf[s]]
    /\ UNCHANGED <<goal, held>>

Reply(r) == pc[r] = "reply" /\ Commit(r)

\* Mutant: the two statuses of a resolution in each other's place.
Close_Swapped(r, outcome, next) ==
    /\ Goto(r, "close", "readConv")
    /\ SessionFree(r, sn[r])
    /\ status[sn[r]] = "claimed"
    /\ sessW' = [sessW EXCEPT ![r][sn[r]] = next]
    /\ goal' = [goal EXCEPT ![r] = outcome]
    /\ UNCHANGED <<cv, sn, who, convW>>

\* UPDATE .. WHERE status = 'claimed'.
Close(r, outcome, next) ==
    /\ Goto(r, "close", "readConv")
    /\ SessionFree(r, sn[r])
    /\ status[sn[r]] = "claimed"
    /\ sessW' = [sessW EXCEPT ![r][sn[r]] = outcome]
    /\ goal' = [goal EXCEPT ![r] = next]
    /\ UNCHANGED <<cv, sn, who, convW>>

CloseConflict(r) ==
    /\ pc[r] = "close" /\ SessionFree(r, sn[r]) /\ status[sn[r]] # "claimed"
    /\ Rollback(r)

\* update_status loads the row; assigning the value it has emits no UPDATE.
ReadConv(r) ==
    /\ Goto(r, "readConv",
            IF convStatus[cv[r]] = goal[r] THEN "commit" ELSE "writeConv")
    /\ UNCHANGED <<locals, held>>

WriteConv(r) ==
    /\ Goto(r, "writeConv", "commit")
    /\ UpdateConv(r, cv[r], goal[r])
    /\ UNCHANGED <<locals, sessW>>

RequestCommit(r) == pc[r] = "commit" /\ Commit(r)

\* The customer archives the conversation, whatever its handoff is doing.
ArchiveStart(r, c) ==
    /\ AllowArchive /\ convStatus[c] # "closed"
    /\ Goto(r, "idle", "writeConv")
    /\ cv' = [cv EXCEPT ![r] = c]
    /\ goal' = [goal EXCEPT ![r] = "closed"]
    /\ UNCHANGED <<sn, who, held>>

-----------------------------------------------------------------------------
(* The sweeper: sweep_expired_handoffs and _escalate_expired *)

Batch(w) == {s \in Sessions : sessW[w][s] = "locked"}

\* SELECT .. WHERE queued AND too old FOR UPDATE SKIP LOCKED.
SweepSelect(w) ==
    LET found == {s \in expired : status[s] = "queued" /\ SessionFree(w, s)}
    IN  /\ found # {}
        /\ Goto(w, "idle", "escalate")
        /\ sessW' = [sessW EXCEPT ![w] =
             [s \in Sessions |-> IF s \in found THEN "locked" ELSE "untouched"]]
        /\ UNCHANGED <<locals, convW>>

\* Mutant: the sweeper never hands the conversation back.
SweepEscalate_Keep(w, s) ==
    /\ s \in Batch(w)
    /\ Goto(w, "escalate", "expireOnly")
    /\ sn' = [sn EXCEPT ![w] = s]
    /\ cv' = [cv EXCEPT ![w] = ConvOf[s]]
    /\ sessW' = [sessW EXCEPT ![w][s] = "ticketed"]
    /\ UNCHANGED <<who, goal, convW>>

\* Load the conversation and create the escalation ticket of the next session; while a
\* ticket of the conversation is open, create() returns that one instead of a new one.
\* A conversation loaded as active will need no UPDATE.
SweepEscalate(w, s) ==
    /\ s \in Batch(w)
    /\ Goto(w, "escalate",
            IF convStatus[ConvOf[s]] = "active" THEN "expireOnly" ELSE "expire")
    /\ sn' = [sn EXCEPT ![w] = s]
    /\ cv' = [cv EXCEPT ![w] = ConvOf[s]]
    /\ sessW' = [sessW EXCEPT ![w][s] = "ticketed"]
    /\ UNCHANGED <<who, goal, convW>>

\* Mutant: the sweeper closes the way a resolution does, WHERE status = 'claimed'.
SweepExpire_Claimed(w) ==
    /\ \/ Goto(w, "expire", "handBack")
       \/ Goto(w, "expireOnly", "escalate")
    /\ SessionFree(w, sn[w])
    /\ sessW' = IF status[sn[w]] = "claimed"
                THEN [sessW EXCEPT ![w][sn[w]] = "timed_out"] ELSE sessW
    /\ UNCHANGED <<locals, convW>>

\* UPDATE .. WHERE status = 'queued'; the result is not looked at.
SweepExpire(w) ==
    /\ \/ Goto(w, "expire", "handBack")
       \/ Goto(w, "expireOnly", "escalate")
    /\ SessionFree(w, sn[w])
    /\ sessW' = IF status[sn[w]] = "queued"
                THEN [sessW EXCEPT ![w][sn[w]] = "timed_out"] ELSE sessW
    /\ UNCHANGED <<locals, convW>>

\* Mutant: an expired handoff closes the conversation.
SweepHandBack_Close(w) ==
    /\ Goto(w, "handBack", "escalate")
    /\ UpdateConv(w, cv[w], "closed")
    /\ UNCHANGED <<locals, sessW>>

\* The conversation goes back to the AI.
SweepHandBack(w) ==
    /\ Goto(w, "handBack", "escalate")
    /\ UpdateConv(w, cv[w], "active")
    /\ UNCHANGED <<locals, sessW>>

SweepCommit(w) == pc[w] = "escalate" /\ Batch(w) = {} /\ Commit(w)

-----------------------------------------------------------------------------
(* Time, crashes and the database's deadlock detector *)

PickupTimeout(s) ==
    /\ status[s] = "queued" /\ s \notin expired
    /\ expired' = expired \cup {s}
    /\ UNCHANGED <<db, pc, locals, held, history>>

\* A killed worker, a lost database connection, an error in the handler.
Crash(p) ==
    /\ pc[p] # "idle" /\ crashes < MaxCrashes
    /\ Release(p)
    /\ crashes' = crashes + 1
    /\ UNCHANGED <<db, expired, cut>>

\* p waits for a row (or an index entry) that q holds.
WaitsFor(p, q) ==
    /\ p # q
    /\ \/ /\ pc[p] \in {"metadata", "transfer", "writeConv", "handBack"}
          /\ convW[q][cv[p]] # "untouched"
       \/ /\ pc[p] = "enqueue"
          /\ \E s \in Sessions :
                /\ ConvOf[s] = cv[p]
                /\ sessW[q][s] \notin {"untouched", "locked", "ticketed"}
       \/ /\ pc[p] \in {"claim", "close"}
          /\ sessW[q][sn[p]] # "untouched"

Waiting == {p \in Procs : \E q \in Procs : WaitsFor(p, q)}

InDeadlock(p) ==
    \E D \in SUBSET Waiting :
        /\ p \in D
        /\ \A q \in D : (\E r \in D : WaitsFor(q, r)) /\ (\E r \in D : WaitsFor(r, q))

DeadlockVictim(p) == InDeadlock(p) /\ Rollback(p)

-----------------------------------------------------------------------------
TurnStep(t) ==
    \/ TurnGate(t) \/ TurnAnswer(t) \/ TurnMetadata(t)
    \/ \E s \in Sessions : TurnHandoff(t, s)
    \/ TurnTransfer(t) \/ TurnEnqueue(t) \/ TurnFinish(t)

RequestStep(r) ==
    \/ Claim(r) \/ ClaimConflict(r) \/ Reply(r)
    \/ \E outcome \in {"resolved", "returned"}, next \in {"active", "closed"} :
           Close(r, outcome, next)
    \/ CloseConflict(r) \/ ReadConv(r) \/ WriteConv(r) \/ RequestCommit(r)

SweepStep(w) ==
    \/ \E s \in Sessions : SweepEscalate(w, s)
    \/ SweepExpire(w) \/ SweepHandBack(w) \/ SweepCommit(w)

Next ==
    \/ \E t \in Turns : TurnStep(t) \/ \E c \in Convs : TurnStart(t, c)
    \/ \E r \in Requests :
          \/ RequestStep(r)
          \/ \E s \in Sessions, a \in Staff : ClaimStart(r, s, a) \/ AssigneeStart(r, s, a)
          \/ \E c \in Convs : ArchiveStart(r, c)
    \/ \E w \in Sweepers : SweepStep(w) \/ SweepSelect(w)
    \/ \E s \in Sessions : PickupTimeout(s)
    \/ \E p \in Procs : Crash(p) \/ DeadlockVictim(p)

Spec == Init /\ [][Next]_vars

(***************************************************************************)
(* Handlers run on, waiting for a row is fair (PostgreSQL queues waiters), *)
(* the sweeper wakes up every HANDOFF_SWEEP_INTERVAL_S, time passes and    *)
(* the deadlock detector runs.  Nobody has to send a message or a request. *)
(***************************************************************************)
Fairness ==
    /\ \A t \in Turns : SF_vars(TurnStep(t))
    /\ \A r \in Requests : SF_vars(RequestStep(r))
    /\ \A w \in Sweepers : SF_vars(SweepStep(w)) /\ SF_vars(SweepSelect(w))
    /\ \A s \in Sessions : WF_vars(PickupTimeout(s))
    /\ \A p \in Procs : WF_vars(DeadlockVictim(p))

FairSpec == Spec /\ Fairness

-----------------------------------------------------------------------------
(* Properties *)

TypeOK ==
    /\ convStatus \in [Convs -> ConvStatus]
    /\ status \in [Sessions -> SessionStatus]
    /\ assignee \in [Sessions -> Staff \cup {NoStaff}]
    /\ escalated \subseteq Sessions
    /\ replies \subseteq Sessions \X Staff
    /\ expired \subseteq Sessions
    /\ pc \in [Procs -> PC]
    /\ cv \in [Procs -> Convs \cup {NoConv}]
    /\ sn \in [Procs -> Sessions \cup {NoSession}]
    /\ who \in [Procs -> Staff \cup {NoStaff}]
    /\ goal \in [Procs -> {"active", "closed"}]
    /\ convW \in [Procs -> [Convs -> ConvWrite]]
    /\ sessW \in [Procs -> [Sessions -> SessionWrite]]
    /\ cut \subseteq Convs
    /\ crashes \in Nat

\* A conversation never has two sessions that staff could work on.
OneOpenSession ==
    \A s1, s2 \in Sessions :
        /\ ConvOf[s1] = ConvOf[s2]
        /\ status[s1] \in OpenStatus /\ status[s2] \in OpenStatus
        => s1 = s2

\* A customer whom the gate keeps from the AI has a session somebody can claim,
\* holds or that will time out; only archiving an open handoff may break this.
NobodyStranded ==
    \A c \in Convs \ cut : convStatus[c] = "transferred" => Open(c) # {}

\* While a session is open its conversation is gated: what the customer writes
\* reaches staff and not the AI.
OpenMeansTransferred ==
    \A c \in Convs \ cut : Open(c) # {} => convStatus[c] = "transferred"

\* The sessions an escalation ticket was created for are exactly the timed-out
\* ones: never one that staff claimed while the sweeper was at work.
EscalatedIffTimedOut ==
    \A s \in Sessions : s \in escalated <=> status[s] = "timed_out"

\* Everything staff said in a session was said by the one agent it is assigned to.
RepliesByAssignee == \A x \in replies : assignee[x[1]] = x[2]

\* What a step may do to a session: nobody takes over a claim, a closed session
\* stays closed, and it is closed by the path its status says.
Lifecycle ==
    \A s \in Sessions :
        status'[s] # status[s] =>
            <<status[s], status'[s]>> \in
                {<<"absent", "queued">>, <<"queued", "claimed">>,
                 <<"queued", "timed_out">>, <<"claimed", "resolved">>,
                 <<"claimed", "returned">>}
SessionLifecycle == [][Lifecycle]_vars

ClaimedIn(c) == {s \in Open(c) : status[s] = "claimed"}

\* Who answers the customer of conversation c, by the two tables together.
OwnerOf(c) ==
    CASE c \in cut -> "abandoned"
      [] c \notin cut /\ convStatus[c] # "transferred" -> convStatus[c]
      [] c \notin cut /\ convStatus[c] = "transferred" ->
           IF ClaimedIn(c) # {} THEN assignee[CHOOSE s \in ClaimedIn(c) : TRUE]
           ELSE IF Open(c) # {} THEN "queue" ELSE "nobody"

owner == [c \in Convs |-> OwnerOf(c)]

Ownership == INSTANCE HandoffOwnership WITH
    Convs <- Convs, Staff <- Staff, owner <- owner

\* The two tables, changed by racing transactions, hand responsibility over the
\* way HandoffOwnership says: one owner at a time, no step that skips the queue.
ImplementsOwnership == Ownership!Spec

\* An unclaimed handoff does not wait forever.
QueuedIsServed ==
    \A s \in Sessions : status[s] = "queued" ~> status[s] # "queued"

\* No transaction waits forever, deadlocks between turns, staff and sweeper included.
EveryTransactionEnds == \A p \in Procs : pc[p] # "idle" ~> pc[p] = "idle"

\* The promise behind handing an expired session back to the AI, for any
\* conversation: the gate never holds a customer nobody is responsible for.
NeverStranded == \A c \in Convs : convStatus[c] = "transferred" => Open(c) # {}
=============================================================================
