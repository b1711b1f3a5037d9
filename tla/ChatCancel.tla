----------------------------- MODULE ChatCancel -----------------------------
(***************************************************************************)
(* The cancel of a user who watches an answer stream.                      *)
(*                                                                         *)
(* Chat lets a connection read a cancel whenever its loop reads a frame.   *)
(* Here the frame is also sent: the page sends it while the answer         *)
(* streams, and it waits in the connection until the loop reads it, ahead  *)
(* of any message sent after it.  Staff and deletions touch no cancel and  *)
(* are left to Chat.                                                       *)
(***************************************************************************)
EXTENDS Chat

VARIABLE unread   \* unread[c]: a cancel has arrived at c that the loop has not read

cancelVars == <<vars, unread>>

CancelInit == Init /\ unread = [c \in Connections |-> FALSE]

\* cancelGeneration of the page.
SendCancel(c) ==
    /\ pc[c] = "streaming" /\ ~unread[c]
    /\ unread' = [unread EXCEPT ![c] = TRUE]
    /\ UNCHANGED vars

ReadCancel(c) ==
    /\ unread[c]
    /\ ReceiveCancel(c)
    /\ unread' = [unread EXCEPT ![c] = FALSE]

\* Frames are read in the order they were sent.
ReadMessage(c) ==
    /\ ~unread[c]
    /\ ReceiveMessage(c)
    /\ UNCHANGED unread

\* Whatever else the connection does; a frame it has not read is lost with it.
GoOn(c) ==
    /\ Authenticate(c) \/ TurnStep(c) \/ Break(c)
    /\ unread' = [unread EXCEPT ![c] = @ /\ pc'[c] # "closed"]

CancelNext ==
    \E c \in Connections :
        SendCancel(c) \/ ReadCancel(c) \/ ReadMessage(c) \/ GoOn(c)

CancelSpec == CancelInit /\ [][CancelNext]_cancelVars

-----------------------------------------------------------------------------
(* Properties *)

\* A generation can be cancelled: a cancel that has arrived while the answer streams can
\* be read while it streams.  The code breaks this: the loop that would read it awaits
\* the turn, so is_cancelled, asked before every token, never sees the flag up.
CancelIsRead ==
    \A c \in Connections : unread[c] /\ pc[c] = "streaming" => ENABLED ReadCancel(c)
=============================================================================
