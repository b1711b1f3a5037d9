-------------------------------- MODULE Chat --------------------------------
(***************************************************************************)
(* The chat of one user: several open connections, one conversation per    *)
(* id.                                                                     *)
(*                                                                         *)
(* Each connection reads one frame at a time and awaits the whole turn of  *)
(* a message before it reads the next.  A turn is one transaction; beside  *)
(* it every message is appended to a list in Redis, the context of later   *)
(* turns, which no rollback undoes.  Staff answer and the user deletes     *)
(* conversations over REST while turns are in progress.                    *)
(***************************************************************************)
EXTENDS Naturals, Sequences, SequencesExt

CONSTANTS
    Connections,      \* WebSocket connections of the user
    Conversations,    \* conversation ids
    Foreign,          \* conversations of another user
    MaxHistory,       \* MAX_HISTORY of the session store
    MaxTurns,         \* bound on the turns that get past the rate limiter
    MaxMessages,      \* bound on the messages when staff may still reply
    None

ASSUME ChatAssumption ==
    /\ Foreign \cap Conversations = {}
    /\ None \notin Conversations \cup Foreign
    /\ None \notin Nat
    /\ MaxHistory \in Nat \ {0}
    /\ MaxTurns \in Nat /\ MaxMessages \in Nat

VARIABLES
    \* PostgreSQL
    status,      \* conversations.status, or "absent"
    rows,        \* committed messages
    clock,       \* transactions begun: created_at is when a row's transaction began
    turns,       \* turns begun
    \* Redis
    history,     \* history[k]: the list chat:history:k of message ids
    \* the connections
    cancelFlag, pc, turn,
    \* the request that deletes a conversation
    deletion,
    \* history
    ids,         \* messages mirrored so far; a message's id is its place among them
    waiting,     \* has the connection not heard what became of its message
    unkept,      \* mirrored messages whose transaction rolled back, or deleted rows
    cleared      \* cleared[k]: ids when the list of k was last removed

db == <<status, rows>>
ghosts == <<unkept, cleared>>
vars == <<db, clock, turns, history, cancelFlag, pc, turn, deletion, ids, waiting, ghosts>>

NoTurn == [conv |-> None, at |-> 0, gated |-> FALSE, sets |-> None,
           question |-> None, answer |-> None, stored |-> {}]
NoDeletion == [pc |-> "none", conv |-> None, swept |-> {}]

Init ==
    /\ status = [k \in Conversations |-> "absent"]
    /\ rows = {}
    /\ clock = 0 /\ turns = 0
    /\ history = [k \in Conversations |-> << >>]
    /\ cancelFlag = [c \in Connections |-> FALSE]
    /\ pc = [c \in Connections |-> "closed"]
    /\ turn = [c \in Connections |-> NoTurn]
    /\ deletion = NoDeletion
    /\ ids = 0
    /\ waiting = [c \in Connections |-> FALSE]
    /\ unkept = {}
    /\ cleared = [k \in Conversations |-> 0]

-----------------------------------------------------------------------------
(* The session store and the rows *)

\* Mutant: LTRIM keeps the other end.
Newest_Oldest(list, n) == SubSeq(list, 1, IF Len(list) > n THEN n ELSE Len(list))

Newest(list, n) == SubSeq(list, IF Len(list) > n THEN Len(list) - n + 1 ELSE 1, Len(list))

\* SessionStore.add_message: append and keep the last MAX_HISTORY.  The three commands
\* are one step here: after a failure between them the list is one too long, or keeps
\* its old expiry, until the next message.
AddMessage(k) ==
    /\ ids' = ids + 1
    /\ history' = [history EXCEPT ![k] = Newest(Append(@, ids + 1), MaxHistory)]

Row(k, id, role, at, re) == [conv |-> k, id |-> id, role |-> role, at |-> at, re |-> re]

\* Mutant: created_at is the time of the statement.
CreatedAt_Statement(c, id) == id

\* server_default now(): the time the transaction began, also of its later rows.
CreatedAt(c, id) == turn[c].at

\* INSERT INTO messages checks the conversation: it waits for a deletion that has
\* the row, and holds the row against deletions until the end of the transaction.
Uses(c, k) == turn[c].conv = k /\ turn[c].stored # {}
RowHeld(k) == deletion.conv = k /\ deletion.pc \in {"removed", "cleared"}
Writers(k) == {c \in Connections : turn[c].conv = k /\ turn[c].sets # None}

-----------------------------------------------------------------------------
(* Frames *)

\* websocket_endpoint accepts a connection whose first frame carries a good token;
\* any other it closes, and so does the timeout when no frame comes.
Authenticate(c) ==
    /\ pc[c] = "closed"
    /\ pc' = [pc EXCEPT ![c] = "idle"]
    /\ UNCHANGED <<db, clock, turns, history, cancelFlag, turn, deletion, ids, waiting, ghosts>>

\* _run_session awaits each message's turn before it reads the next frame, so a frame
\* sent meanwhile is read afterwards.
Reads(c) == pc[c] = "idle"

ReceiveMessage(c) ==
    /\ Reads(c)
    /\ cancelFlag' = [cancelFlag EXCEPT ![c] = FALSE]
    /\ pc' = [pc EXCEPT ![c] = "received"]
    /\ waiting' = [waiting EXCEPT ![c] = TRUE]
    /\ UNCHANGED <<db, clock, turns, history, turn, deletion, ids, ghosts>>

ReceiveCancel(c) ==
    /\ Reads(c)
    /\ cancelFlag' = [cancelFlag EXCEPT ![c] = TRUE]
    /\ UNCHANGED <<db, clock, turns, history, pc, turn, deletion, ids, waiting, ghosts>>

\* The turn is over and the client has heard so.
Finish(c) ==
    /\ pc' = [pc EXCEPT ![c] = "idle"]
    /\ turn' = [turn EXCEPT ![c] = NoTurn]
    /\ waiting' = [waiting EXCEPT ![c] = FALSE]

\* The rate limiter refuses the message, or cannot be asked.
Refuse(c) ==
    /\ pc[c] = "received"
    /\ Finish(c)
    /\ UNCHANGED <<db, clock, turns, history, cancelFlag, deletion, ids, ghosts>>

-----------------------------------------------------------------------------
(* process_user_message *)

\* Mutant: a conversation of another user is dropped without a word.
Reject_Silent(c) ==
    /\ pc' = [pc EXCEPT ![c] = "idle"]
    /\ turn' = [turn EXCEPT ![c] = NoTurn]
    /\ UNCHANGED waiting

Reject(c) == Finish(c)

\* An id nobody has seen; one that is forgotten everywhere is as good as new.
Unused(k) ==
    /\ status[k] = "absent" /\ history[k] = << >> /\ deletion.conv # k
    /\ \A c \in Connections : turn[c].conv # k

\* _ensure_conversation: the named one, a new one if there is none, or an error.  The
\* status is read here, once.
Load(c, k) ==
    /\ pc[c] = "received" /\ turns < MaxTurns
    /\ clock' = clock + 1 /\ turns' = turns + 1
    /\ \/ k \in Foreign /\ Reject(c)
       \/ /\ k \in Conversations /\ status[k] # "absent"
          /\ turn' = [turn EXCEPT ![c].conv = k, ![c].at = clock + 1,
                                  ![c].gated = (status[k] = "transferred")]
          /\ pc' = [pc EXCEPT ![c] = "loaded"]
          /\ UNCHANGED waiting
       \/ /\ k = None
          /\ \E new \in Conversations :
                /\ Unused(new)
                /\ turn' = [turn EXCEPT ![c].conv = new, ![c].at = clock + 1,
                                        ![c].sets = "open"]
          /\ pc' = [pc EXCEPT ![c] = "loaded"]
          /\ UNCHANGED waiting
    /\ UNCHANGED <<db, history, cancelFlag, deletion, ids, ghosts>>

MirrorQuestion(c) ==
    /\ pc[c] = "loaded"
    /\ AddMessage(turn[c].conv)
    /\ turn' = [turn EXCEPT ![c].question = ids + 1]
    /\ pc' = [pc EXCEPT ![c] = "mirrored"]
    /\ UNCHANGED <<db, clock, turns, cancelFlag, deletion, waiting, ghosts>>

\* The question's row.  A gated message goes no further.
InsertQuestion(c) ==
    LET k == turn[c].conv
        q == turn[c].question
    IN  /\ pc[c] = "mirrored" /\ ~RowHeld(k)
        /\ status[k] # "absent" \/ turn[c].sets # None
        /\ turn' = [turn EXCEPT ![c].stored = {Row(k, q, "user", CreatedAt(c, q), None)}]
        /\ pc' = [pc EXCEPT ![c] = IF turn[c].gated THEN "commit" ELSE "agent"]
        /\ UNCHANGED <<db, clock, turns, history, cancelFlag, deletion, ids, waiting, ghosts>>

\* AgentService.process answers, or hands the conversation over (see AgentTurn and
\* Handoff): then it holds the row until the end of the transaction.
Agent(c, handsOver) ==
    /\ pc[c] = "agent"
    /\ handsOver => Writers(turn[c].conv) \subseteq {c}
    /\ turn' = [turn EXCEPT ![c].sets = IF handsOver THEN "transferred" ELSE @]
    /\ pc' = [pc EXCEPT ![c] = "streaming"]
    /\ UNCHANGED <<db, clock, turns, history, cancelFlag, deletion, ids, waiting, ghosts>>

\* stream_agent_response ends with the stream, a cancel or the error text; the answer
\* is mirrored and its row inserted, with the gap it may signal (see Knowledge).
StoreAnswer(c) ==
    LET a == ids + 1
    IN  /\ pc[c] = "streaming"
        /\ AddMessage(turn[c].conv)
        /\ turn' = [turn EXCEPT ![c].answer = a, ![c].stored = @ \cup
             {Row(turn[c].conv, a, "assistant", CreatedAt(c, a), turn[c].question)}]
        /\ pc' = [pc EXCEPT ![c] = "commit"]
        /\ UNCHANGED <<db, clock, turns, cancelFlag, deletion, waiting, ghosts>>

Commit(c) ==
    LET mine == turn[c]
    IN  /\ pc[c] = "commit"
        /\ status' = [status EXCEPT ![mine.conv] = IF mine.sets = None THEN @ ELSE mine.sets]
        /\ rows' = rows \cup mine.stored
        /\ turn' = [turn EXCEPT ![c].stored = {}, ![c].sets = None]
        /\ pc' = [pc EXCEPT ![c] = "ending"]
        /\ UNCHANGED <<clock, turns, history, cancelFlag, deletion, ids, waiting, ghosts>>

\* source, message_end or handoff_update, after the commit.
End(c) ==
    /\ pc[c] = "ending"
    /\ Finish(c)
    /\ UNCHANGED <<db, clock, turns, history, cancelFlag, deletion, ids, ghosts>>

\* The tab is gone and a send fails, Redis or the database fails, the conversation
\* was deleted, the process dies: the transaction rolls back and the connection
\* ends.  The client has to connect again.
Break(c) ==
    /\ pc[c] # "closed"
    /\ pc' = [pc EXCEPT ![c] = "closed"]
    /\ turn' = [turn EXCEPT ![c] = NoTurn]
    /\ waiting' = [waiting EXCEPT ![c] = FALSE]
    /\ cancelFlag' = [cancelFlag EXCEPT ![c] = FALSE]
    /\ unkept' = IF pc[c] = "ending" THEN unkept
                 ELSE unkept \cup ({turn[c].question, turn[c].answer} \ {None})
    /\ UNCHANGED <<db, clock, turns, history, deletion, ids, cleared>>

\* The question of a conversation deleted meanwhile violates the foreign key.
Orphaned(c) ==
    /\ pc[c] = "mirrored" /\ ~RowHeld(turn[c].conv)
    /\ status[turn[c].conv] = "absent" /\ turn[c].sets = None
    /\ Break(c)

-----------------------------------------------------------------------------
(* Other requests *)

\* create_conversation.
Create(k) ==
    /\ Unused(k)
    /\ status' = [status EXCEPT ![k] = "open"]
    /\ UNCHANGED <<rows, clock, turns, history, cancelFlag, pc, turn, deletion, ids, waiting, ghosts>>

\* reply_handoff: the row, the mirror, the commit - which may not come.
StaffReply(k, kept) ==
    /\ status[k] = "transferred" /\ ~RowHeld(k) /\ ids < MaxMessages
    /\ clock' = clock + 1
    /\ AddMessage(k)
    /\ rows' = IF kept THEN rows \cup {Row(k, ids + 1, "staff", clock + 1, None)} ELSE rows
    /\ unkept' = IF kept THEN unkept ELSE unkept \cup {ids + 1}
    /\ UNCHANGED <<status, turns, cancelFlag, pc, turn, deletion, waiting, cleared>>

\* The handoff is resolved, times out, or the conversation is archived; see Handoff.
HandBack(k) ==
    /\ status[k] = "transferred" /\ ~RowHeld(k) /\ Writers(k) = {}
    /\ status' = [status EXCEPT ![k] = "open"]
    /\ UNCHANGED <<rows, clock, turns, history, cancelFlag, pc, turn, deletion, ids, waiting, ghosts>>

\* The user messages among which get_preceding_user_message finds the latest.
Preceding(a) ==
    {q \in rows : q.conv = a.conv /\ q.role = "user" /\ q.at <= a.at /\ q.id # a.id}

Latest(messages) == {m \in messages : \A other \in messages : other.at <= m.at}

\* submit_feedback with a bad rating of a files a gap under one of these.
FiledUnder(a) == Latest(Preceding(a))

\* delete_conversation, statement by statement.  First the messages of the moment.
StartDelete(k) ==
    /\ deletion = NoDeletion /\ status[k] # "absent"
    /\ deletion' = [pc |-> "swept", conv |-> k, swept |-> {r \in rows : r.conv = k}]
    /\ UNCHANGED <<db, clock, turns, history, cancelFlag, pc, turn, ids, waiting, ghosts>>

\* DELETE FROM conversations waits for the turns that use the row; a message they
\* have left refuses it.
RemoveRow ==
    LET k == deletion.conv
    IN  /\ deletion.pc = "swept"
        /\ \A c \in Connections : ~Uses(c, k) /\ c \notin Writers(k)
        /\ deletion' = IF \E r \in rows \ deletion.swept : r.conv = k
                       THEN NoDeletion ELSE [deletion EXCEPT !.pc = "removed"]
        /\ UNCHANGED <<db, clock, turns, history, cancelFlag, pc, turn, ids, waiting, ghosts>>

\* session_store.clear comes before the commit.
ClearHistory ==
    /\ deletion.pc = "removed"
    /\ history' = [history EXCEPT ![deletion.conv] = << >>]
    /\ cleared' = [cleared EXCEPT ![deletion.conv] = ids]
    /\ deletion' = [deletion EXCEPT !.pc = "cleared"]
    /\ UNCHANGED <<db, clock, turns, cancelFlag, pc, turn, ids, waiting, unkept>>

CommitDelete ==
    /\ deletion.pc = "cleared"
    /\ status' = [status EXCEPT ![deletion.conv] = "absent"]
    /\ rows' = rows \ deletion.swept
    /\ unkept' = unkept \cup {r.id : r \in deletion.swept}
    /\ deletion' = NoDeletion
    /\ UNCHANGED <<clock, turns, history, cancelFlag, pc, turn, ids, waiting, cleared>>

\* An error or a killed process: the rows stay, a list that was cleared does not.
DeleteFails ==
    /\ deletion # NoDeletion
    /\ deletion' = NoDeletion
    /\ UNCHANGED <<db, clock, turns, history, cancelFlag, pc, turn, ids, waiting, ghosts>>

\* The list lives for a day after its last message; no turn takes that long.
Expire(k) ==
    /\ history[k] # << >>
    /\ \A c \in Connections : turn[c].conv # k
    /\ history' = [history EXCEPT ![k] = << >>]
    /\ cleared' = [cleared EXCEPT ![k] = ids]
    /\ UNCHANGED <<db, clock, turns, cancelFlag, pc, turn, deletion, ids, waiting, unkept>>

-----------------------------------------------------------------------------

TurnStep(c) ==
    \/ Refuse(c)
    \/ \E k \in Conversations \cup Foreign \cup {None} : Load(c, k)
    \/ MirrorQuestion(c) \/ InsertQuestion(c)
    \/ \E handsOver \in BOOLEAN : Agent(c, handsOver)
    \/ StoreAnswer(c) \/ Commit(c) \/ End(c) \/ Orphaned(c)

DeleteStep == RemoveRow \/ ClearHistory \/ CommitDelete

Next ==
    \/ \E c \in Connections :
          \/ Authenticate(c) \/ ReceiveMessage(c) \/ ReceiveCancel(c)
          \/ TurnStep(c) \/ Break(c)
    \/ \E k \in Conversations :
          \/ \E kept \in BOOLEAN : StaffReply(k, kept)
          \/ Create(k) \/ HandBack(k) \/ StartDelete(k) \/ Expire(k)
    \/ DeleteStep \/ DeleteFails

\* Calls in a turn end or time out, and so do the statements of a request.  PostgreSQL
\* grants a row to those who wait for it in turn, so that requests which take it again
\* and again do not keep an insert waiting.  Clients owe nothing.
Fairness ==
    /\ \A c \in Connections :
          /\ WF_vars(TurnStep(c))
          /\ SF_vars(InsertQuestion(c) \/ Orphaned(c))
    /\ WF_vars(DeleteStep)

Spec == Init /\ [][Next]_vars /\ Fairness

-----------------------------------------------------------------------------
(* Properties *)

Message == 1..ids
MessageRow ==
    [conv : Conversations, id : Message, role : {"user", "assistant", "staff"},
     at : 1..clock, re : Message \cup {None}]
TurnRecord ==
    [conv : Conversations \cup {None}, at : 0..clock, gated : BOOLEAN,
     sets : {None, "open", "transferred"},
     question : Message \cup {None}, answer : Message \cup {None},
     stored : SUBSET MessageRow]

TypeOK ==
    /\ status \in [Conversations -> {"absent", "open", "transferred"}]
    /\ rows \subseteq MessageRow
    /\ clock \in Nat /\ turns \in Nat /\ ids \in Nat
    /\ history \in [Conversations -> Seq(Message)]
    /\ cancelFlag \in [Connections -> BOOLEAN] /\ waiting \in [Connections -> BOOLEAN]
    /\ pc \in [Connections -> {"closed", "idle", "received", "loaded", "mirrored", "agent",
         "streaming", "commit", "ending"}]
    /\ turn \in [Connections -> TurnRecord]
    /\ deletion \in [pc : {"none", "swept", "removed", "cleared"},
                     conv : Conversations \cup {None}, swept : SUBSET MessageRow]
    /\ unkept \subseteq Message /\ cleared \in [Conversations -> Nat]

\* The context of later turns never lacks a stored message: a committed row is in its
\* list, or was pushed out of it by MAX_HISTORY newer messages, or was in a list that
\* was removed.  And what only the list knows was rolled back, deleted or is of a turn
\* still in progress.
InFlight == {turn[c].question : c \in Connections} \cup {turn[c].answer : c \in Connections}
HistoriesAgree ==
    /\ \A r \in rows :
          LET list == history[r.conv]
          IN  \/ r.id \in ToSet(list) \/ r.id <= cleared[r.conv]
              \/ Len(list) = MaxHistory /\ \A id \in ToSet(list) : id > r.id
    /\ \A k \in Conversations : \A id \in ToSet(history[k]) :
          id \in {r.id : r \in rows} \cup unkept \cup InFlight

\* A bad rating of an answer is filed under the question it answers, however the
\* turns of several connections overlap.
RatedQuestion ==
    \A a \in rows : a.role = "assistant" => {q.id : q \in FiledUnder(a)} = {a.re}

\* Every message is answered, refused, acknowledged under human care, or its
\* connection closes: no lock, deletion or other connection leaves it waiting.
EveryMessageAnswered ==
    \A c \in Connections : waiting[c] ~> ~waiting[c]
=============================================================================
