------------------------------ MODULE Tickets ------------------------------
(***************************************************************************)
(* Tickets and the promise that a customer has one open ticket of a title. *)
(*                                                                         *)
(* A create looks for a recent duplicate, then inserts and lets the partial *)
(* unique index uniq_open_user_title decide, then looks up who won; it runs *)
(* inside the transaction of a chat turn or of a REST request and commits   *)
(* later.  An edit loads the row, assigns through the ORM and writes back   *)
(* only what differs from the row it loaded.                                *)
(***************************************************************************)
EXTENDS Naturals

CONSTANTS
    Tickets,    \* ids a ticket may be given
    Creates,    \* transactions that create a ticket
    Edits,      \* PUT requests
    Customers,  \* the edits made by customers, the others are made by staff
    Titles,     \* pairs of a customer and a title
    Wanted,     \* Wanted[p]: the customer and the title of the create p
    NoTicket

ASSUME TicketsAssumption ==
    /\ Wanted \in [Creates -> Titles]
    /\ Customers \subseteq Edits
    /\ NoTicket \notin Tickets

VARIABLES
    status,      \* tickets.status, "absent" before the row is committed
    title,       \* tickets.user_id and tickets.title; ids are as good as drawn
                 \* in advance, a create takes one of its title
    resolvedAt,  \* tickets whose resolved_at is set
    recent,      \* tickets created within the last 24 hours
    create,      \* create[p]: where the create is, and what it has found
    edit,        \* edit[e]: where the edit is, what it loaded, what it wants
    contested    \* history: tickets written from a row that had moved on

table == <<status, title, resolvedAt, recent>>
vars == <<table, create, edit, contested>>

Open == {"pending", "processing"}
Status == Open \cup {"resolved", "closed"}
Attempts == 2  \* range(2) in TicketRepo.create

CreatePC == {"idle", "insert", "lookup", "inserted", "answered", "done", "failed", "aborted"}
EditPC == {"idle", "loaded", "written", "done", "failed"}

\* closures is a history variable: how many tickets of the title stopped being
\* open since the create began, up to Attempts.
NoCreate == [pc |-> "idle", attempt |-> 1, ticket |-> NoTicket, closures |-> 0]
NoEdit == [pc |-> "idle", ticket |-> NoTicket, loaded |-> "closed", stamped |-> FALSE,
           target |-> "closed"]

TypeOK ==
    /\ status \in [Tickets -> Status \cup {"absent"}]
    /\ title \in [Tickets -> Titles]
    /\ resolvedAt \subseteq Tickets /\ recent \subseteq Tickets /\ contested \subseteq Tickets
    /\ create \in [Creates -> [pc : CreatePC, attempt : 1 .. Attempts,
                               ticket : Tickets \cup {NoTicket}, closures : 0 .. Attempts]]
    /\ edit \in [Edits -> [pc : EditPC, ticket : Tickets \cup {NoTicket}, loaded : Status,
                           stamped : BOOLEAN, target : Status]]

Init ==
    /\ status = [t \in Tickets |-> "absent"]
    /\ title \in [Tickets -> Titles]
    /\ resolvedAt = {} /\ recent = {} /\ contested = {}
    /\ create = [p \in Creates |-> NoCreate]
    /\ edit = [e \in Edits |-> NoEdit]

-----------------------------------------------------------------------------
(* Rows, locks and the index *)

IsOpen(t) == status[t] \in Open
OpenOf(k) == {t \in Tickets : IsOpen(t) /\ title[t] = k}

\* The columns an UPDATE sets: those whose new value is not the loaded one.
\* A resolution always has a new time.
SetsStatus(e) == edit[e].target # edit[e].loaded
SetsStamp(e) == edit[e].target = "resolved" \/ edit[e].stamped

\* The row is no longer the one the edit loaded.
Moved(e) ==
    \/ edit[e].loaded # status[edit[e].ticket]
    \/ edit[e].stamped # (edit[e].ticket \in resolvedAt)

RowLocked(t) == \E e \in Edits : edit[e].pc = "written" /\ edit[e].ticket = t

\* Whoever needs the entry k of the index waits for the transactions that have
\* inserted it, or are moving a row in or out of it.
Entering(k) ==
    \/ \E p \in Creates : create[p].pc = "inserted" /\ Wanted[p] = k
    \/ \E e \in Edits :
          /\ edit[e].pc = "written" /\ SetsStatus(e) /\ title[edit[e].ticket] = k
          /\ IsOpen(edit[e].ticket) \/ edit[e].target \in Open

Step(p, pc) == create' = [create EXCEPT ![p].pc = pc]
Answer(p, t) == create' = [create EXCEPT ![p].pc = "answered", ![p].ticket = t]

-----------------------------------------------------------------------------
(* TicketService.create_ticket and TicketRepo.create *)

\* find_duplicate: an open ticket of the last 24 hours is the answer.
FastPath(p) ==
    LET found == OpenOf(Wanted[p]) \cap recent IN
    /\ create[p].pc = "idle"
    /\ \/ \E t \in found : Answer(p, t)
       \/ found = {} /\ Step(p, "insert")
    /\ UNCHANGED <<table, edit, contested>>

\* Mutant: ON CONFLICT names no index, every insert succeeds.
Insert_Always(p) ==
    /\ create[p].pc = "insert"
    /\ \E t \in Tickets :
          /\ status[t] = "absent" /\ title[t] = Wanted[p]
          /\ \A q \in Creates : create[q].ticket # t
          /\ create' = [create EXCEPT ![p].pc = "inserted", ![p].ticket = t]
    /\ UNCHANGED <<table, edit, contested>>

\* INSERT .. ON CONFLICT DO NOTHING: waits for the entry, then inserts a row only
\* this transaction sees, or finds the entry taken.
Insert(p) ==
    /\ create[p].pc = "insert" /\ ~ Entering(Wanted[p])
    /\ IF OpenOf(Wanted[p]) = {}
       THEN \E t \in Tickets :
               /\ status[t] = "absent" /\ title[t] = Wanted[p]
               /\ \A q \in Creates : create[q].ticket # t
               /\ create' = [create EXCEPT ![p].pc = "inserted", ![p].ticket = t]
       ELSE Step(p, "lookup")
    /\ UNCHANGED <<table, edit, contested>>

\* Mutant: a retry without end.
TryAgain_Forever(p) ==
    create' = [create EXCEPT ![p].pc = "insert", ![p].attempt = @ + 1]

\* What follows a lookup that found nothing: one more attempt, then an error.
TryAgain(p) ==
    \/ /\ create[p].attempt < Attempts
       /\ create' = [create EXCEPT ![p].pc = "insert", ![p].attempt = @ + 1]
    \/ /\ create[p].attempt = Attempts
       /\ Step(p, "failed")

\* Mutant: the lookup has the window of the fast path.
Lookup_Recent(p) ==
    LET found == OpenOf(Wanted[p]) \cap recent IN
    /\ create[p].pc = "lookup"
    /\ \/ \E t \in found : Answer(p, t)
       \/ found = {} /\ TryAgain(p)
    /\ UNCHANGED <<table, edit, contested>>

\* Mutant: the lookup takes any ticket of the title.
Lookup_AnyStatus(p) ==
    LET found == {t \in Tickets : status[t] # "absent" /\ title[t] = Wanted[p]} IN
    /\ create[p].pc = "lookup"
    /\ \/ \E t \in found : Answer(p, t)
       \/ found = {} /\ TryAgain(p)
    /\ UNCHANGED <<table, edit, contested>>

\* find_open_duplicate: an open ticket of any age.
Lookup(p) ==
    LET found == OpenOf(Wanted[p]) IN
    /\ create[p].pc = "lookup"
    /\ \/ \E t \in found : Answer(p, t)
       \/ found = {} /\ TryAgain(p)
    /\ UNCHANGED <<table, edit, contested>>

\* The turn or the request commits, with what else it did.
CommitCreate(p) ==
    /\ create[p].pc \in {"inserted", "answered"}
    /\ Step(p, "done")
    /\ IF create[p].pc = "inserted"
       THEN /\ status' = [status EXCEPT ![create[p].ticket] = "pending"]
            /\ recent' = recent \cup {create[p].ticket}
       ELSE UNCHANGED <<status, recent>>
    /\ UNCHANGED <<title, resolvedAt, edit, contested>>

\* or rolls back.
AbortCreate(p) ==
    /\ create[p].pc \in {"insert", "lookup", "inserted", "answered"}
    /\ Step(p, "aborted")
    /\ UNCHANGED <<table, edit, contested>>

-----------------------------------------------------------------------------
(* update_ticket *)

\* The row is loaded, a customer may only close it.
LoadTicket(e) ==
    /\ edit[e].pc = "idle"
    /\ \E t \in Tickets, s \in Status :
          /\ status[t] # "absent"
          /\ e \in Customers => s = "closed"
          /\ edit' = [edit EXCEPT ![e] = [pc |-> "loaded", ticket |-> t, loaded |-> status[t],
                                          stamped |-> t \in resolvedAt, target |-> s]]
    /\ UNCHANGED <<table, create, contested>>

\* The flush sends an UPDATE if anything differs from what was loaded.  It waits
\* for the row; a row that becomes open needs its entry of the index, and the
\* request fails if another ticket has it.
Write(e) ==
    LET t == edit[e].ticket
        changes == SetsStatus(e) \/ SetsStamp(e)
        reopens == SetsStatus(e) /\ edit[e].target \in Open
        taken == reopens /\ OpenOf(title[t]) \ {t} # {}
    IN  /\ edit[e].pc = "loaded" /\ ~ RowLocked(t)
        /\ reopens => ~ Entering(title[t])
        /\ edit' = [edit EXCEPT ![e].pc =
              CASE ~ changes -> "done"
                [] taken -> "failed"
                [] OTHER -> "written"]
        /\ contested' = IF changes /\ Moved(e) THEN contested \cup {t} ELSE contested
        /\ UNCHANGED <<table, create>>

\* A ticket stops being open: counted for the creates under way.
Closing(k) ==
    create' = [p \in Creates |->
        IF Wanted[p] = k /\ create[p].pc \in {"insert", "lookup", "answered"}
        THEN [create[p] EXCEPT !.closures = IF @ < Attempts THEN @ + 1 ELSE @]
        ELSE create[p]]

\* Mutant: leaving the status resolved leaves the stamp.
CommitEdit_KeepsStamp(e) ==
    LET t == edit[e].ticket IN
    /\ edit[e].pc = "written"
    /\ edit' = [edit EXCEPT ![e].pc = "done"]
    /\ status' = IF SetsStatus(e) THEN [status EXCEPT ![t] = edit[e].target] ELSE status
    /\ resolvedAt' = IF edit[e].target = "resolved" THEN resolvedAt \cup {t} ELSE resolvedAt
    /\ IF IsOpen(t) /\ status'[t] \notin Open THEN Closing(title[t]) ELSE UNCHANGED create
    /\ UNCHANGED <<title, recent, contested>>

CommitEdit(e) ==
    LET t == edit[e].ticket IN
    /\ edit[e].pc = "written"
    /\ edit' = [edit EXCEPT ![e].pc = "done"]
    /\ status' = IF SetsStatus(e) THEN [status EXCEPT ![t] = edit[e].target] ELSE status
    /\ resolvedAt' = CASE edit[e].target = "resolved" -> resolvedAt \cup {t}
                       [] edit[e].target # "resolved" /\ edit[e].stamped -> resolvedAt \ {t}
                       [] OTHER -> resolvedAt
    /\ IF IsOpen(t) /\ status'[t] \notin Open THEN Closing(title[t]) ELSE UNCHANGED create
    /\ UNCHANGED <<title, recent, contested>>

\* The audit entry, the notification or the commit fails: all is rolled back.
FailEdit(e) ==
    /\ edit[e].pc \in {"loaded", "written"}
    /\ edit' = [edit EXCEPT ![e].pc = "failed"]
    /\ UNCHANGED <<table, create, contested>>

\* A day passes since a ticket was created.
GrowOld(t) ==
    /\ t \in recent
    /\ recent' = recent \ {t}
    /\ UNCHANGED <<status, title, resolvedAt, create, edit, contested>>

CreateStep(p) == FastPath(p) \/ Insert(p) \/ Lookup(p)
EditStep(e) == LoadTicket(e) \/ Write(e) \/ CommitEdit(e) \/ FailEdit(e)

Next ==
    \/ \E p \in Creates : CreateStep(p) \/ CommitCreate(p) \/ AbortCreate(p)
    \/ \E e \in Edits : EditStep(e)
    \/ \E t \in Tickets : GrowOld(t)

Spec == Init /\ [][Next]_vars

-----------------------------------------------------------------------------

\* A customer has at most one open ticket of a title, whoever creates, reopens
\* or closes at the same time.
OneOpenTicket ==
    \A s, t \in Tickets : s # t /\ IsOpen(s) /\ IsOpen(t) => title[s] # title[t]

\* Creating ends in ticket_create_conflict_unresolved only if two tickets of the
\* title were closed while it ran; an old open ticket is no reason.
FailsOnlyAfterTwoClosures ==
    \A p \in Creates : create[p].pc = "failed" => create[p].closures = Attempts

\* The ticket a create answers with is of the customer and the title, and open,
\* unless it was closed since the create began.
AnswerIsOpen ==
    \A p \in Creates : create[p].pc = "answered" =>
        /\ title[create[p].ticket] = Wanted[p] /\ status[create[p].ticket] # "absent"
        /\ IsOpen(create[p].ticket) \/ create[p].closures > 0

\* resolved_at says whether the ticket is resolved, as long as nobody writes a
\* row back that had moved on since it was loaded.
StampFollowsStatus ==
    \A t \in Tickets \ contested : status[t] = "resolved" <=> t \in resolvedAt
=============================================================================
