--------------------------- MODULE TicketsProofs ---------------------------
(***************************************************************************)
(* Proofs about Tickets, for any tickets, creates, edits and titles.       *)
(***************************************************************************)
EXTENDS Tickets, TLAPS

\* An edit that has written and will make its ticket open, if it was not.
Reopens(e) == edit[e].pc = "written" /\ SetsStatus(e) /\ edit[e].target \in Open
Inserted(p) == create[p].pc = "inserted"
Titled(e) == title[edit[e].ticket]

\* Whoever has an entry of the index has it alone, and no other ticket with
\* this entry is open.
EntryOK ==
    /\ \A p, q \in Creates : p # q /\ Inserted(p) /\ Inserted(q) => Wanted[p] # Wanted[q]
    /\ \A p \in Creates, e \in Edits : Inserted(p) /\ Reopens(e) => Wanted[p] # Titled(e)
    /\ \A e, f \in Edits : e # f /\ Reopens(e) /\ Reopens(f) => Titled(e) # Titled(f)
    /\ \A p \in Creates, t \in Tickets : Inserted(p) /\ IsOpen(t) => title[t] # Wanted[p]
    /\ \A e \in Edits, t \in Tickets :
          Reopens(e) /\ IsOpen(t) /\ title[t] = Titled(e) => t = edit[e].ticket

\* A row inserted is not committed, a row edited is; a row has one writer.
RowOK ==
    /\ \A p \in Creates : Inserted(p) =>
          /\ create[p].ticket \in Tickets
          /\ status[create[p].ticket] = "absent" /\ title[create[p].ticket] = Wanted[p]
    /\ \A e \in Edits : edit[e].pc \in {"loaded", "written"} =>
          edit[e].ticket \in Tickets /\ status[edit[e].ticket] # "absent"
    /\ \A e, f \in Edits :
          edit[e].pc = "written" /\ edit[f].pc = "written" /\ edit[e].ticket = edit[f].ticket
             => e = f

\* A ticket not contested is still what its writer loaded.
StampOK ==
    \A e \in Edits : edit[e].pc = "written" /\ edit[e].ticket \notin contested => ~ Moved(e)

\* An attempt that failed was made in vain because of a closure.
CreateOK(p) ==
    /\ create[p].pc = "idle" => create[p].attempt = 1
    /\ create[p].pc \in {"insert", "lookup"} => create[p].closures + 1 >= create[p].attempt
    /\ create[p].pc = "lookup" =>
          \/ \E t \in Tickets : IsOpen(t) /\ title[t] = Wanted[p]
          \/ create[p].closures >= create[p].attempt
    /\ create[p].pc = "failed" => create[p].closures = Attempts
    /\ create[p].pc = "answered" =>
          /\ create[p].ticket \in Tickets
          /\ title[create[p].ticket] = Wanted[p] /\ status[create[p].ticket] # "absent"
          /\ IsOpen(create[p].ticket) \/ create[p].closures > 0

IInv ==
    /\ TypeOK
    /\ EntryOK
    /\ RowOK
    /\ StampOK
    /\ \A p \in Creates : CreateOK(p)
    /\ OneOpenTicket
    /\ StampFollowsStatus

CreateRecord == [pc : CreatePC, attempt : 1 .. Attempts,
                 ticket : Tickets \cup {NoTicket}, closures : 0 .. Attempts]
EditRecord == [pc : EditPC, ticket : Tickets \cup {NoTicket}, loaded : Status,
               stamped : BOOLEAN, target : Status]

-----------------------------------------------------------------------------
(* Types *)

LEMMA InitInv == Init => IInv
<1> SUFFICES ASSUME Init PROVE IInv
  OBVIOUS
<1>1. NoCreate \in CreateRecord /\ NoEdit \in EditRecord
  BY DEF NoCreate, NoEdit, CreateRecord, EditRecord, CreatePC, EditPC, Status, Attempts
<1>2. /\ create \in [Creates -> CreateRecord] /\ edit \in [Edits -> EditRecord]
      /\ \A p \in Creates : create[p].pc = "idle" /\ create[p].attempt = 1
      /\ \A e \in Edits : edit[e].pc = "idle"
  BY <1>1 DEF Init, NoCreate, NoEdit
<1>3. TypeOK
  BY <1>2 DEF Init, TypeOK, CreateRecord, EditRecord
<1>4. \A t \in Tickets : ~ IsOpen(t) /\ status[t] # "resolved"
  BY DEF Init, IsOpen, Open
<1>5. EntryOK /\ RowOK /\ StampOK /\ \A p \in Creates : CreateOK(p)
  BY <1>2 DEF EntryOK, RowOK, StampOK, CreateOK, Inserted, Reopens
<1>6. OneOpenTicket /\ StampFollowsStatus
  BY <1>4 DEF OneOpenTicket, StampFollowsStatus, Init
<1> QED
  BY <1>3, <1>5, <1>6 DEF IInv

\* A create moves on, and its record stays a record.
LEMMA AnswerType ==
    ASSUME TypeOK, NEW p \in Creates, NEW pc \in CreatePC, NEW t \in Tickets
    PROVE  [create EXCEPT ![p].pc = pc, ![p].ticket = t] \in [Creates -> CreateRecord]
<1>1. create \in [Creates -> CreateRecord]
  BY DEF TypeOK, CreateRecord
<1> QED
  BY <1>1 DEF CreateRecord

LEMMA StepType ==
    ASSUME TypeOK, NEW p \in Creates, NEW pc \in CreatePC
    PROVE  [create EXCEPT ![p].pc = pc] \in [Creates -> CreateRecord]
<1>1. create \in [Creates -> CreateRecord]
  BY DEF TypeOK, CreateRecord
<1> QED
  BY <1>1 DEF CreateRecord

LEMMA TryAgainType ==
    ASSUME TypeOK, NEW p \in Creates, TryAgain(p)
    PROVE  create' \in [Creates -> CreateRecord]
<1>1. create \in [Creates -> CreateRecord]
  BY DEF TypeOK, CreateRecord
<1>2. CASE create[p].attempt < Attempts
  <2>1. create[p].attempt + 1 \in 1 .. Attempts
    BY <1>1, <1>2 DEF CreateRecord, Attempts
  <2>2. create' = [create EXCEPT ![p].pc = "insert", ![p].attempt = create[p].attempt + 1]
    BY <1>2 DEF TryAgain, Attempts
  <2> QED
    BY <1>1, <2>1, <2>2 DEF CreateRecord, CreatePC
<1>3. CASE ~ create[p].attempt < Attempts
  <2>1. create' = [create EXCEPT ![p].pc = "failed"]
    BY <1>3 DEF TryAgain, Step
  <2> QED
    BY <1>1, <2>1 DEF CreateRecord, CreatePC
<1> QED
  BY <1>2, <1>3

\* Counting a closure keeps every record a record, and every other field as it is.
LEMMA ClosingType ==
    ASSUME TypeOK, NEW k \in Titles, Closing(k)
    PROVE  /\ create' \in [Creates -> CreateRecord]
           /\ \A p \in Creates :
                 /\ create'[p].pc = create[p].pc /\ create'[p].ticket = create[p].ticket
                 /\ create'[p].attempt = create[p].attempt
                 /\ create'[p].closures >= create[p].closures
                 /\ Wanted[p] = k /\ create[p].pc \in {"insert", "lookup", "answered"} =>
                       create'[p].closures = Attempts \/ create'[p].closures = create[p].closures + 1
                 /\ create[p].pc \notin {"insert", "lookup", "answered"} =>
                       create'[p] = create[p]
<1> DEFINE Count(p) == IF create[p].closures < Attempts THEN create[p].closures + 1
                       ELSE create[p].closures
<1>1. create \in [Creates -> CreateRecord]
  BY DEF TypeOK, CreateRecord
<1>2. \A p \in Creates :
         /\ Count(p) \in 0 .. Attempts /\ Count(p) >= create[p].closures
         /\ Count(p) = Attempts \/ Count(p) = create[p].closures + 1
  BY <1>1 DEF CreateRecord, Attempts
<1>3. \A p \in Creates : [create[p] EXCEPT !.closures = Count(p)] \in CreateRecord
  BY <1>1, <1>2 DEF CreateRecord
<1>4. create' = [p \in Creates |->
          IF Wanted[p] = k /\ create[p].pc \in {"insert", "lookup", "answered"}
          THEN [create[p] EXCEPT !.closures = Count(p)] ELSE create[p]]
  BY DEF Closing
<1> HIDE DEF Count
<1>5. create' \in [Creates -> CreateRecord]
  BY <1>1, <1>3, <1>4
<1>6. \A p \in Creates : create[p].closures >= create[p].closures
  BY <1>1 DEF CreateRecord
<1> QED
  BY <1>1, <1>2, <1>4, <1>5, <1>6 DEF CreateRecord

-----------------------------------------------------------------------------
(* Steps that move a transaction and leave the table as it is *)

\* A create that moves on without inserting takes nothing from the others.
LEMMA CreateMoves ==
    ASSUME IInv, NEW p \in Creates, UNCHANGED <<table, edit, contested>>,
           create' \in [Creates -> CreateRecord],
           \A q \in Creates \ {p} : create'[q] = create[q],
           create'[p].pc # "inserted", CreateOK(p)'
    PROVE  IInv'
<1>1. TypeOK'
  BY DEF IInv, TypeOK, CreateRecord, table
<1>2. \A q \in Creates : Inserted(q)' => Inserted(q) /\ create'[q] = create[q]
  BY DEF Inserted
<1>3. /\ \A t \in Tickets : IsOpen(t)' <=> IsOpen(t)
      /\ \A e \in Edits : /\ Reopens(e)' <=> Reopens(e)
                          /\ Titled(e)' = Titled(e)
                          /\ Moved(e)' <=> Moved(e)
  BY DEF IsOpen, Reopens, SetsStatus, Titled, Moved, table
<1>4. EntryOK'
  BY <1>2, <1>3 DEF IInv, EntryOK, table
<1>5. RowOK'
  BY <1>2 DEF IInv, RowOK, table
<1>6. StampOK' /\ OneOpenTicket' /\ StampFollowsStatus'
  BY <1>3 DEF IInv, StampOK, OneOpenTicket, StampFollowsStatus, table
<1>7. \A q \in Creates : CreateOK(q)'
  BY <1>3 DEF IInv, CreateOK, table
<1> QED
  BY <1>1, <1>4, <1>5, <1>6, <1>7 DEF IInv

\* An edit that moves on without writing takes nothing from the others.
LEMMA EditMoves ==
    ASSUME IInv, NEW e \in Edits, UNCHANGED <<table, create>>,
           edit' \in [Edits -> EditRecord],
           \A f \in Edits \ {e} : edit'[f] = edit[f],
           edit'[e].pc # "written",
           edit'[e].pc = "loaded" =>
              edit'[e].ticket \in Tickets /\ status[edit'[e].ticket] # "absent",
           contested \subseteq contested', contested' \subseteq Tickets
    PROVE  IInv'
<1>1. TypeOK'
  BY DEF IInv, TypeOK, EditRecord, table
<1>2. \A f \in Edits : edit'[f].pc = "written" => edit'[f] = edit[f] /\ f # e
  OBVIOUS
<1>3. /\ \A t \in Tickets : IsOpen(t)' <=> IsOpen(t)
      /\ \A p \in Creates : Inserted(p)' <=> Inserted(p)
      /\ \A f \in Edits : edit'[f].pc = "written" =>
            /\ Titled(f)' = Titled(f)
            /\ Moved(f)' <=> Moved(f)
      /\ \A f \in Edits : Reopens(f)' => Reopens(f) /\ Titled(f)' = Titled(f) /\ edit'[f] = edit[f]
  BY <1>2 DEF IsOpen, Inserted, Reopens, SetsStatus, Titled, Moved, table
<1>4. EntryOK'
  BY <1>3 DEF IInv, EntryOK, table
<1>5. RowOK'
  BY <1>2, <1>3 DEF IInv, RowOK, table
<1>6. StampOK'
  BY <1>2, <1>3 DEF IInv, StampOK
<1>7. OneOpenTicket' /\ StampFollowsStatus'
  BY <1>3 DEF IInv, OneOpenTicket, StampFollowsStatus, table
<1>8. \A p \in Creates : CreateOK(p)'
  BY <1>3 DEF IInv, CreateOK, table
<1> QED
  BY <1>1, <1>4, <1>5, <1>6, <1>7, <1>8 DEF IInv

-----------------------------------------------------------------------------
(* The steps of a create *)

\* An answer found in the table is an open ticket of the title.
LEMMA AnswerInv ==
    ASSUME IInv, NEW p \in Creates, NEW t \in OpenOf(Wanted[p]), Answer(p, t),
           UNCHANGED <<table, edit, contested>>
    PROVE  IInv'
<1>1. t \in Tickets /\ IsOpen(t) /\ title[t] = Wanted[p]
  BY DEF OpenOf
<1>2. create' = [create EXCEPT ![p].pc = "answered", ![p].ticket = t]
  BY DEF Answer
<1>3. create \in [Creates -> CreateRecord]
  BY DEF IInv, TypeOK, CreateRecord
<1>4. create' \in [Creates -> CreateRecord]
  BY <1>1, <1>2, AnswerType DEF IInv, CreatePC
<1>5. create'[p].pc = "answered" /\ create'[p].ticket = t
  BY <1>2, <1>3 DEF CreateRecord
<1>6. \A q \in Creates \ {p} : create'[q] = create[q]
  BY <1>2, <1>3
<1>7. CreateOK(p)'
  BY <1>1, <1>5 DEF CreateOK, IsOpen, table, Open
<1> QED
  BY <1>4, <1>5, <1>6, <1>7, CreateMoves

LEMMA FastPathInv ==
    ASSUME IInv, NEW p \in Creates, FastPath(p)
    PROVE  IInv'
<1>1. CASE \E t \in OpenOf(Wanted[p]) : Answer(p, t)
  BY <1>1, AnswerInv DEF FastPath
<1>2. CASE Step(p, "insert")
  <2>1. create \in [Creates -> CreateRecord] /\ CreateOK(p)
    BY DEF IInv, TypeOK, CreateRecord
  <2>2. create' \in [Creates -> CreateRecord]
    BY <1>2, Zenon, StepType DEF IInv, Step, CreatePC
  <2>3. create' = [create EXCEPT ![p] = [create[p] EXCEPT !.pc = "insert"]]
    BY <1>2 DEF Step
  <2>4. create[p].pc = "idle"
    BY DEF FastPath
  <2>5. /\ create'[p].pc = "insert"
        /\ create'[p].attempt = create[p].attempt /\ create'[p].closures = create[p].closures
    BY <2>1, <2>3 DEF CreateRecord
  <2>6. create[p].attempt = 1 /\ create[p].closures \in 0 .. Attempts
    BY <2>1, <2>4 DEF CreateOK, CreateRecord
  <2>7. CreateOK(p)'
    BY <2>5, <2>6 DEF CreateOK, Attempts
  <2> QED
    BY <2>2, <2>3, <2>5, <2>7, CreateMoves DEF FastPath
<1> QED
  BY <1>1, <1>2 DEF FastPath

\* A step changes where the create is, and nothing else about it.
LEMMA StepFields ==
    ASSUME TypeOK, NEW p \in Creates, NEW pc \in CreatePC, Step(p, pc)
    PROVE  /\ create' \in [Creates -> CreateRecord]
           /\ \A q \in Creates \ {p} : create'[q] = create[q]
           /\ create'[p].pc = pc
           /\ create'[p].attempt = create[p].attempt
           /\ create'[p].closures = create[p].closures
           /\ create'[p].ticket = create[p].ticket
<1>1. create \in [Creates -> CreateRecord]
  BY DEF TypeOK, CreateRecord
<1>2. create' = [create EXCEPT ![p].pc = pc]
  BY DEF Step
<1> QED
  BY <1>1, <1>2, StepType DEF CreateRecord

\* Inserting takes an entry that is free: nobody is about to commit it, and no
\* open ticket has it.
LEMMA TakesEntry ==
    ASSUME IInv, NEW p \in Creates, NEW t \in Tickets,
           ~ Entering(Wanted[p]), OpenOf(Wanted[p]) = {},
           status[t] = "absent", title[t] = Wanted[p],
           create' = [create EXCEPT ![p].pc = "inserted", ![p].ticket = t],
           UNCHANGED <<table, edit, contested>>
    PROVE  IInv'
<1>1. create \in [Creates -> CreateRecord]
  BY DEF IInv, TypeOK, CreateRecord
<1>2. create' \in [Creates -> CreateRecord]
  BY AnswerType DEF IInv, CreatePC
<1>3. create'[p].pc = "inserted" /\ create'[p].ticket = t
  BY <1>1 DEF CreateRecord
<1>4. \A q \in Creates \ {p} : create'[q] = create[q]
  BY <1>1
<1>5. TypeOK'
  BY <1>2 DEF IInv, TypeOK, CreateRecord, table
<1>6. /\ \A s \in Tickets : IsOpen(s)' <=> IsOpen(s)
      /\ \A e \in Edits : /\ Reopens(e)' <=> Reopens(e)
                          /\ Titled(e)' = Titled(e)
                          /\ Moved(e)' <=> Moved(e)
  BY DEF IsOpen, Reopens, SetsStatus, Titled, Moved, table
<1>7. \A q \in Creates \ {p} : Inserted(q)' <=> Inserted(q)
  BY <1>4 DEF Inserted
<1>8. /\ \A q \in Creates : Inserted(q) => Wanted[q] # Wanted[p]
      /\ \A e \in Edits : Reopens(e) => Titled(e) # Wanted[p]
      /\ \A s \in Tickets : IsOpen(s) => title[s] # Wanted[p]
  BY DEF Entering, Inserted, Reopens, Titled, OpenOf
<1>9. EntryOK'
  BY <1>6, <1>7, <1>8 DEF IInv, EntryOK, table
<1>10. RowOK'
  BY <1>3, <1>4, <1>7 DEF IInv, RowOK, table
<1>11. StampOK' /\ OneOpenTicket' /\ StampFollowsStatus'
  BY <1>6 DEF IInv, StampOK, OneOpenTicket, StampFollowsStatus, table
<1>12. \A q \in Creates : CreateOK(q)'
  BY <1>3, <1>4, <1>6 DEF IInv, CreateOK, table
<1> QED
  BY <1>5, <1>9, <1>10, <1>11, <1>12 DEF IInv

LEMMA InsertInv ==
    ASSUME IInv, NEW p \in Creates, Insert(p)
    PROVE  IInv'
<1>1. CASE OpenOf(Wanted[p]) = {}
  BY <1>1, TakesEntry DEF Insert
<1>2. CASE OpenOf(Wanted[p]) # {}
  <2>1. Step(p, "lookup") /\ create[p].pc = "insert"
    BY <1>2 DEF Insert
  <2>2. TypeOK /\ CreateOK(p)
    BY DEF IInv
  <2>3. /\ create' \in [Creates -> CreateRecord]
        /\ \A q \in Creates \ {p} : create'[q] = create[q]
        /\ create'[p].pc = "lookup"
        /\ create'[p].attempt = create[p].attempt
        /\ create'[p].closures = create[p].closures
    BY <2>1, <2>2, StepFields DEF CreatePC
  <2>4. \E t \in Tickets : IsOpen(t)' /\ title'[t] = Wanted[p]
    BY <1>2 DEF OpenOf, IsOpen, Insert, table
  <2>5. CreateOK(p)'
    BY <2>1, <2>2, <2>3, <2>4 DEF CreateOK
  <2> QED
    BY <2>3, <2>5, CreateMoves DEF Insert
<1> QED
  BY <1>1, <1>2

\* A lookup that finds nothing comes after one closure for each attempt.
LEMMA LookupInv ==
    ASSUME IInv, NEW p \in Creates, Lookup(p)
    PROVE  IInv'
<1>1. CASE \E t \in OpenOf(Wanted[p]) : Answer(p, t)
  BY <1>1, AnswerInv DEF Lookup
<1>2. CASE OpenOf(Wanted[p]) = {} /\ TryAgain(p)
  <2>1. TypeOK /\ CreateOK(p) /\ create \in [Creates -> CreateRecord]
    BY DEF IInv, TypeOK, CreateRecord
  <2>2. create[p].pc = "lookup" /\ create[p].closures >= create[p].attempt
    BY <1>2, <2>1 DEF Lookup, CreateOK, OpenOf
  <2>3. create[p].closures \in 0 .. Attempts /\ create[p].attempt \in 1 .. Attempts
    BY <2>1 DEF CreateRecord
  <2>4. create' \in [Creates -> CreateRecord]
    BY <1>2, <2>1, TryAgainType
  <2>5. \A q \in Creates \ {p} : create'[q] = create[q]
    BY <1>2, <2>1 DEF TryAgain, Step
  <2>6. CASE create[p].attempt < Attempts
    <3>1. create' = [create EXCEPT ![p].pc = "insert", ![p].attempt = create[p].attempt + 1]
      BY <1>2, <2>6, <2>3 DEF TryAgain, Attempts
    <3>2. /\ create'[p].pc = "insert" /\ create'[p].attempt = create[p].attempt + 1
          /\ create'[p].closures = create[p].closures
      BY <2>1, <3>1 DEF CreateRecord
    <3>3. CreateOK(p)'
      BY <2>2, <2>3, <3>2 DEF CreateOK, Attempts
    <3> QED
      BY <2>4, <2>5, <3>2, <3>3, CreateMoves DEF Lookup
  <2>7. CASE create[p].attempt = Attempts
    <3>1. Step(p, "failed")
      BY <1>2, <2>7 DEF TryAgain, Attempts
    <3>2. create'[p].pc = "failed" /\ create'[p].closures = create[p].closures
      BY <2>1, <3>1, StepFields DEF CreatePC
    <3>3. CreateOK(p)'
      BY <2>2, <2>3, <2>7, <3>2 DEF CreateOK, Attempts
    <3> QED
      BY <2>4, <2>5, <3>2, <3>3, CreateMoves DEF Lookup
  <2> QED
    BY <2>3, <2>6, <2>7 DEF Attempts
<1> QED
  BY <1>1, <1>2 DEF Lookup

LEMMA AbortCreateInv ==
    ASSUME IInv, NEW p \in Creates, AbortCreate(p)
    PROVE  IInv'
<1>1. /\ create' \in [Creates -> CreateRecord]
      /\ \A q \in Creates \ {p} : create'[q] = create[q]
      /\ create'[p].pc = "aborted"
  BY StepFields DEF AbortCreate, IInv, CreatePC
<1>2. CreateOK(p)'
  BY <1>1 DEF CreateOK
<1> QED
  BY <1>1, <1>2, CreateMoves DEF AbortCreate

\* An inserted row becomes visible, open and alone.
LEMMA CommitCreateInv ==
    ASSUME IInv, NEW p \in Creates, CommitCreate(p)
    PROVE  IInv'
<1>1. /\ create' \in [Creates -> CreateRecord]
      /\ \A q \in Creates \ {p} : create'[q] = create[q]
      /\ create'[p].pc = "done"
  BY StepFields DEF CommitCreate, IInv, CreatePC
<1>2. CreateOK(p)'
  BY <1>1 DEF CreateOK
<1>3. CASE create[p].pc = "answered"
  BY <1>1, <1>2, <1>3, CreateMoves DEF CommitCreate, table
<1>4. CASE create[p].pc = "inserted"
  <2> DEFINE t == create[p].ticket
  <2>1. /\ t \in Tickets /\ status[t] = "absent" /\ title[t] = Wanted[p] /\ Inserted(p)
    BY <1>4 DEF IInv, RowOK, Inserted
  <2>2. /\ status' = [status EXCEPT ![t] = "pending"] /\ recent' = recent \cup {t}
        /\ UNCHANGED <<title, resolvedAt, edit, contested>>
    BY <1>4 DEF CommitCreate
  <2> HIDE DEF t
  <2>3. status \in [Tickets -> Status \cup {"absent"}] /\ edit \in [Edits -> EditRecord]
    BY DEF IInv, TypeOK, EditRecord
  <2>4. /\ status'[t] = "pending"
        /\ \A s \in Tickets \ {t} : status'[s] = status[s]
    BY <2>1, <2>2, <2>3
  <2>5. TypeOK'
    <3>1. status' \in [Tickets -> Status \cup {"absent"}]
      BY <2>1, <2>2, <2>3 DEF Status, Open
    <3> QED
      BY <1>1, <2>1, <2>2, <3>1 DEF IInv, TypeOK, CreateRecord
  <2>6. /\ \A s \in Tickets : IsOpen(s)' <=> s = t \/ IsOpen(s)
        /\ \A e \in Edits : (Reopens(e)' <=> Reopens(e)) /\ Titled(e)' = Titled(e)
        /\ \A q \in Creates : Inserted(q)' => Inserted(q) /\ q # p
    BY <1>1, <2>1, <2>2, <2>4 DEF IsOpen, Open, Reopens, SetsStatus, Titled, Inserted
  <2>7. \A e \in Edits : edit[e].pc \in {"loaded", "written"} => edit[e].ticket # t
    BY <2>1 DEF IInv, RowOK
  <2>8. EntryOK'
    <3>1. EntryOK /\ \A e \in Edits : Reopens(e) => Titled(e) # title[t]
      BY <2>1 DEF IInv, EntryOK
    <3> QED
      BY <2>1, <2>2, <2>6, <3>1 DEF EntryOK
  <2>9. RowOK'
    <3>1. \A q \in Creates : Inserted(q)' => create'[q].ticket # t
      BY <1>1, <2>1, <2>6 DEF IInv, EntryOK, RowOK, Inserted
    <3> QED
      BY <1>1, <2>2, <2>4, <2>6, <2>7, <3>1 DEF IInv, RowOK, Inserted
  <2>10. StampOK'
    BY <2>2, <2>4, <2>7 DEF IInv, StampOK, Moved, RowOK
  <2>11. OneOpenTicket'
    <3>1. \A s \in Tickets : IsOpen(s) => title[s] # title[t]
      BY <2>1 DEF IInv, EntryOK
    <3> QED
      BY <2>2, <2>6, <3>1 DEF IInv, OneOpenTicket
  <2>12. StampFollowsStatus'
    BY <2>1, <2>2, <2>4 DEF IInv, StampFollowsStatus
  <2>13. \A q \in Creates : CreateOK(q)'
    BY <1>1, <1>2, <2>1, <2>2, <2>4, <2>6 DEF IInv, CreateOK
  <2> QED
    BY <2>5, <2>8, <2>9, <2>10, <2>11, <2>12, <2>13 DEF IInv
<1> QED
  BY <1>3, <1>4 DEF CommitCreate

-----------------------------------------------------------------------------
(* The steps of an edit *)

LEMMA EditStepType ==
    ASSUME TypeOK, NEW e \in Edits, NEW pc \in EditPC,
           edit' = [edit EXCEPT ![e].pc = pc]
    PROVE  /\ edit' \in [Edits -> EditRecord]
           /\ \A f \in Edits \ {e} : edit'[f] = edit[f]
           /\ edit'[e].pc = pc
           /\ edit'[e].ticket = edit[e].ticket /\ edit'[e].loaded = edit[e].loaded
           /\ edit'[e].stamped = edit[e].stamped /\ edit'[e].target = edit[e].target
<1>1. edit \in [Edits -> EditRecord]
  BY DEF TypeOK, EditRecord
<1>2. edit' \in [Edits -> EditRecord]
  BY <1>1 DEF EditRecord
<1> QED
  BY <1>1, <1>2 DEF EditRecord

LEMMA LoadTicketInv ==
    ASSUME IInv, NEW e \in Edits, LoadTicket(e)
    PROVE  IInv'
<1>1. PICK t \in Tickets, s \in Status :
         /\ status[t] # "absent"
         /\ edit' = [edit EXCEPT ![e] = [pc |-> "loaded", ticket |-> t, loaded |-> status[t],
                                         stamped |-> t \in resolvedAt, target |-> s]]
  BY DEF LoadTicket
<1>2. edit \in [Edits -> EditRecord] /\ status[t] \in Status /\ contested \subseteq Tickets
  BY <1>1 DEF IInv, TypeOK, EditRecord
<1>3. [pc |-> "loaded", ticket |-> t, loaded |-> status[t],
       stamped |-> t \in resolvedAt, target |-> s] \in EditRecord
  <2>1. (t \in resolvedAt) \in BOOLEAN
    OBVIOUS
  <2> QED
    BY <1>2, <2>1 DEF EditRecord, EditPC
<1>4. edit' \in [Edits -> EditRecord] /\ \A f \in Edits \ {e} : edit'[f] = edit[f]
  BY <1>1, <1>2, <1>3
<1>5. edit'[e].pc = "loaded" /\ edit'[e].ticket = t
  BY <1>1, <1>2
<1> QED
  BY <1>1, <1>2, <1>4, <1>5, EditMoves DEF LoadTicket

LEMMA FailEditInv ==
    ASSUME IInv, NEW e \in Edits, FailEdit(e)
    PROVE  IInv'
<1>1. /\ edit' \in [Edits -> EditRecord]
      /\ \A f \in Edits \ {e} : edit'[f] = edit[f]
      /\ edit'[e].pc = "failed"
  BY EditStepType DEF FailEdit, IInv, EditPC
<1>2. contested' = contested /\ contested \subseteq Tickets
  BY DEF FailEdit, IInv, TypeOK
<1> QED
  BY <1>1, <1>2, EditMoves DEF FailEdit

\* A write takes the row, the entry if it reopens, and is noted if the row moved on.
LEMMA TakesRow ==
    ASSUME IInv, NEW e \in Edits, UNCHANGED <<table, create>>,
           edit[e].pc = "loaded", ~ RowLocked(edit[e].ticket),
           SetsStatus(e) /\ edit[e].target \in Open =>
              /\ ~ Entering(title[edit[e].ticket])
              /\ OpenOf(title[edit[e].ticket]) \ {edit[e].ticket} = {},
           edit' = [edit EXCEPT ![e].pc = "written"],
           contested \subseteq contested', contested' \subseteq Tickets,
           Moved(e) => edit[e].ticket \in contested'
    PROVE  IInv'
<1> DEFINE t == edit[e].ticket
<1>1. /\ edit' \in [Edits -> EditRecord]
      /\ \A f \in Edits \ {e} : edit'[f] = edit[f]
      /\ edit'[e].pc = "written"
      /\ edit'[e].ticket = t /\ edit'[e].loaded = edit[e].loaded
      /\ edit'[e].stamped = edit[e].stamped /\ edit'[e].target = edit[e].target
  BY EditStepType DEF IInv, EditPC
<1>2. t \in Tickets /\ status[t] # "absent"
  BY DEF IInv, RowOK
<1>3. TypeOK'
  BY <1>1 DEF IInv, TypeOK, EditRecord, table
<1>4. /\ \A s \in Tickets : IsOpen(s)' <=> IsOpen(s)
      /\ \A p \in Creates : Inserted(p)' <=> Inserted(p)
      /\ \A f \in Edits : Titled(f)' = Titled(f) /\ (Moved(f)' <=> Moved(f))
      /\ \A f \in Edits \ {e} : Reopens(f)' <=> Reopens(f)
  BY <1>1 DEF IsOpen, Inserted, Reopens, SetsStatus, Titled, Moved, table
<1>5. Reopens(e)' =>
         /\ \A p \in Creates : Inserted(p) => Wanted[p] # Titled(e)
         /\ \A f \in Edits : Reopens(f) => Titled(f) # Titled(e)
         /\ \A s \in Tickets : IsOpen(s) /\ title[s] = Titled(e) => s = t
  BY <1>1 DEF Reopens, SetsStatus, Entering, Inserted, Titled, OpenOf
<1>6. EntryOK'
  <2>1. EntryOK
    BY DEF IInv
  <2>2. title' = title
    BY DEF table
  <2> QED
    BY <1>1, <1>4, <1>5, <2>1, <2>2 DEF EntryOK
<1>7. RowOK'
  <2>1. \A f \in Edits : edit[f].pc = "written" => edit[f].ticket # t
    BY DEF RowLocked
  <2> QED
    BY <1>1, <1>2, <1>4, <2>1 DEF IInv, RowOK, table
<1>8. StampOK'
  BY <1>1, <1>4 DEF IInv, StampOK
<1>9. OneOpenTicket' /\ StampFollowsStatus'
  BY <1>4 DEF IInv, OneOpenTicket, StampFollowsStatus, table
<1>10. \A p \in Creates : CreateOK(p)'
  BY <1>4 DEF IInv, CreateOK, table
<1> QED
  BY <1>3, <1>6, <1>7, <1>8, <1>9, <1>10 DEF IInv

LEMMA WriteInv ==
    ASSUME IInv, NEW e \in Edits, Write(e)
    PROVE  IInv'
<1> DEFINE t == edit[e].ticket
           changes == SetsStatus(e) \/ SetsStamp(e)
           reopens == SetsStatus(e) /\ edit[e].target \in Open
           taken == reopens /\ OpenOf(title[t]) \ {t} # {}
<1>1. /\ edit[e].pc = "loaded" /\ ~ RowLocked(t)
      /\ reopens => ~ Entering(title[t])
      /\ edit' = [edit EXCEPT ![e].pc = CASE ~ changes -> "done"
                                          [] taken -> "failed"
                                          [] OTHER -> "written"]
      /\ contested' = IF changes /\ Moved(e) THEN contested \cup {t} ELSE contested
      /\ UNCHANGED <<table, create>>
  BY DEF Write
<1>2. t \in Tickets /\ contested \subseteq Tickets
  BY <1>1 DEF IInv, RowOK, TypeOK
<1>3. contested \subseteq contested' /\ contested' \subseteq Tickets
  BY <1>1, <1>2
<1>4. CASE ~ changes \/ taken
  <2>1. PICK pc \in {"done", "failed"} : edit' = [edit EXCEPT ![e].pc = pc]
    BY <1>1, <1>4
  <2>2. /\ edit' \in [Edits -> EditRecord]
        /\ \A f \in Edits \ {e} : edit'[f] = edit[f]
        /\ edit'[e].pc \in {"done", "failed"}
    BY <2>1, EditStepType DEF IInv, EditPC
  <2> QED
    BY <1>1, <1>3, <2>2, EditMoves
<1>5. CASE changes /\ ~ taken
  <2>1. edit' = [edit EXCEPT ![e].pc = "written"]
    BY <1>1, <1>5
  <2>2. Moved(e) => t \in contested'
    BY <1>1, <1>5
  <2> QED
    BY <1>1, <1>3, <1>5, <2>1, <2>2, TakesRow
<1> QED
  BY <1>4, <1>5

\* A commit writes what the edit set; if the row had not moved on, the row is
\* then what the edit wanted.
LEMMA CommitEditInv ==
    ASSUME IInv, NEW e \in Edits, CommitEdit(e)
    PROVE  IInv'
<1> DEFINE t == edit[e].ticket
<1>1. /\ edit[e].pc = "written"
      /\ edit' = [edit EXCEPT ![e].pc = "done"]
      /\ status' = IF SetsStatus(e) THEN [status EXCEPT ![t] = edit[e].target] ELSE status
      /\ resolvedAt' = CASE edit[e].target = "resolved" -> resolvedAt \cup {t}
                         [] edit[e].target # "resolved" /\ edit[e].stamped -> resolvedAt \ {t}
                         [] OTHER -> resolvedAt
      /\ IF IsOpen(t) /\ status'[t] \notin Open THEN Closing(title[t]) ELSE UNCHANGED create
      /\ UNCHANGED <<title, recent, contested>>
  BY DEF CommitEdit
<1>2. TypeOK /\ EntryOK /\ RowOK /\ StampOK /\ OneOpenTicket /\ StampFollowsStatus
  BY DEF IInv
<1>3. /\ edit \in [Edits -> EditRecord] /\ create \in [Creates -> CreateRecord]
      /\ status \in [Tickets -> Status \cup {"absent"}] /\ title \in [Tickets -> Titles]
  BY <1>2 DEF TypeOK, EditRecord, CreateRecord
<1>4. t \in Tickets /\ status[t] # "absent" /\ edit[e].target \in Status /\ title[t] \in Titles
  BY <1>1, <1>2, <1>3 DEF RowOK, EditRecord
<1>5. /\ edit' \in [Edits -> EditRecord]
      /\ \A f \in Edits \ {e} : edit'[f] = edit[f]
      /\ edit'[e].pc = "done"
  BY <1>1, <1>2, EditStepType DEF EditPC
<1>6. /\ status' \in [Tickets -> Status \cup {"absent"}]
      /\ status'[t] = IF SetsStatus(e) THEN edit[e].target ELSE status[t]
      /\ status'[t] # "absent"
      /\ \A s \in Tickets \ {t} : status'[s] = status[s]
  BY <1>1, <1>3, <1>4 DEF Status, Open
<1>7. /\ create' \in [Creates -> CreateRecord]
      /\ \A p \in Creates :
            /\ create'[p].pc = create[p].pc /\ create'[p].ticket = create[p].ticket
            /\ create'[p].attempt = create[p].attempt
            /\ create'[p].closures >= create[p].closures
  <2>1. CASE UNCHANGED create
    <3>1. \A p \in Creates : create[p].closures >= create[p].closures
      BY <1>3 DEF CreateRecord, Attempts
    <3> QED
      BY <1>3, <2>1, <3>1
  <2>2. CASE Closing(title[t])
    BY <1>2, <1>4, <2>2, ClosingType
  <2> QED
    BY <1>1, <2>1, <2>2
<1> HIDE DEF t
<1>8. TypeOK'
  <2>1. resolvedAt \subseteq Tickets
    BY <1>2 DEF TypeOK
  <2>2. resolvedAt' \subseteq Tickets
    BY <1>1, <1>4, <2>1
  <2> QED
    BY <1>1, <1>2, <1>5, <1>6, <1>7, <2>2 DEF TypeOK, CreateRecord, EditRecord
<1>9. /\ \A p \in Creates : Inserted(p)' <=> Inserted(p)
      /\ \A f \in Edits : Reopens(f)' <=> Reopens(f) /\ f # e
      /\ \A f \in Edits \ {e} : Titled(f)' = Titled(f)
      /\ \A s \in Tickets \ {t} : IsOpen(s)' <=> IsOpen(s)
      /\ IsOpen(t)' => IsOpen(t) \/ Reopens(e)
      /\ Titled(e) = title[t]
  BY <1>1, <1>5, <1>6, <1>7 DEF Inserted, Reopens, SetsStatus, Titled, IsOpen, t
<1>10. EntryOK'
  BY <1>1, <1>2, <1>9, <1>4 DEF EntryOK, OneOpenTicket, Titled, t
<1>11. RowOK'
  <2>1. \A p \in Creates : Inserted(p) =>
          /\ create[p].ticket \in Tickets \ {t}
          /\ status[create[p].ticket] = "absent" /\ title[create[p].ticket] = Wanted[p]
    BY <1>2, <1>4 DEF RowOK
  <2>2. \A p \in Creates : Inserted(p)' =>
          /\ create'[p].ticket \in Tickets
          /\ status'[create'[p].ticket] = "absent" /\ title'[create'[p].ticket] = Wanted[p]
    BY <1>1, <1>6, <1>7, <1>9, <2>1
  <2>3. \A f \in Edits : edit'[f].pc \in {"loaded", "written"} =>
          edit'[f].ticket \in Tickets /\ status'[edit'[f].ticket] # "absent"
    BY <1>2, <1>5, <1>6 DEF RowOK
  <2>4. \A f \in Edits : edit'[f].pc = "written" => edit'[f] = edit[f]
    BY <1>5
  <2>5. \A f, g \in Edits :
          edit'[f].pc = "written" /\ edit'[g].pc = "written" /\ edit'[f].ticket = edit'[g].ticket
             => f = g
    BY <1>2, <2>4 DEF RowOK
  <2> QED
    BY <2>2, <2>3, <2>5 DEF RowOK
<1>12. StampOK'
  <2>1. \A f \in Edits \ {e} : edit[f].pc = "written" => edit[f].ticket # t /\ edit[f].ticket \in Tickets
    BY <1>1, <1>2 DEF RowOK, t
  <2>2. \A s : s # t => (s \in resolvedAt' <=> s \in resolvedAt)
    BY <1>1
  <2> QED
    BY <1>1, <1>2, <1>5, <1>6, <2>1, <2>2 DEF StampOK, Moved
<1>13. OneOpenTicket'
  BY <1>1, <1>2, <1>4, <1>9 DEF OneOpenTicket, EntryOK, t
<1>14. StampFollowsStatus'
  <2>1. \A s \in Tickets \ {t} : (s \in resolvedAt' <=> s \in resolvedAt) /\ status'[s] = status[s]
    BY <1>1, <1>6
  <2>2. CASE t \in contested
    BY <1>1, <1>2, <2>1, <2>2 DEF StampFollowsStatus
  <2>3. CASE t \notin contested
    <3>1. ~ Moved(e) /\ (status[t] = "resolved" <=> t \in resolvedAt)
      BY <1>1, <1>2, <1>4, <2>3 DEF StampOK, StampFollowsStatus, t
    <3>2. edit[e].loaded = status[t] /\ (edit[e].stamped <=> t \in resolvedAt)
      BY <3>1 DEF Moved, t
    <3>3. status'[t] = edit[e].target
      BY <1>6, <3>2 DEF SetsStatus
    <3>4. status'[t] = "resolved" <=> t \in resolvedAt'
      BY <1>1, <3>1, <3>2, <3>3
    <3> QED
      BY <1>1, <1>2, <2>1, <3>4 DEF StampFollowsStatus
  <2> QED
    BY <2>2, <2>3
<1>15. ASSUME NEW p \in Creates PROVE CreateOK(p)'
  <2>1. CreateOK(p)
    BY DEF IInv
  <2>2. /\ create[p].closures \in 0 .. Attempts /\ create[p].attempt \in 1 .. Attempts
        /\ create'[p].closures \in 0 .. Attempts /\ create'[p].closures >= create[p].closures
        /\ create'[p].pc = create[p].pc /\ create'[p].ticket = create[p].ticket
        /\ create'[p].attempt = create[p].attempt
    BY <1>3, <1>7 DEF CreateRecord
  <2>3. create[p].pc = "idle" => create'[p].attempt = 1
    BY <2>1, <2>2 DEF CreateOK
  <2>4. create[p].pc \in {"insert", "lookup"} => create'[p].closures + 1 >= create'[p].attempt
    BY <2>1, <2>2 DEF CreateOK, Attempts
  <2>5. create[p].pc = "failed" => create'[p].closures = Attempts
    BY <2>1, <2>2 DEF CreateOK, Attempts
  <2>6. CASE IsOpen(t) /\ status'[t] \notin Open /\ Wanted[p] = title[t]
    <3>1. Closing(title[t])
      BY <1>1, <2>6
    <3>2. create[p].pc \in {"insert", "lookup", "answered"} =>
             create'[p].closures = Attempts \/ create'[p].closures = create[p].closures + 1
      BY <1>2, <1>4, <2>6, <3>1, ClosingType
    <3>3. create[p].pc = "lookup" => create'[p].closures >= create'[p].attempt
      BY <2>1, <2>2, <3>2 DEF CreateOK, Attempts
    <3>4. create[p].pc = "answered" =>
             /\ create'[p].ticket \in Tickets
             /\ title'[create'[p].ticket] = Wanted[p] /\ status'[create'[p].ticket] # "absent"
             /\ create'[p].closures > 0
      BY <1>1, <1>6, <2>1, <2>2, <3>2 DEF CreateOK, Attempts
    <3> QED
      BY <2>2, <2>3, <2>4, <2>5, <3>3, <3>4 DEF CreateOK
  <2>7. CASE ~ (IsOpen(t) /\ status'[t] \notin Open /\ Wanted[p] = title[t])
    <3>1. \A s \in Tickets : IsOpen(s) /\ title[s] = Wanted[p] => IsOpen(s)'
      BY <1>9, <2>7 DEF IsOpen
    <3>2. create[p].pc = "lookup" =>
             \/ \E s \in Tickets : IsOpen(s)' /\ title'[s] = Wanted[p]
             \/ create'[p].closures >= create'[p].attempt
      BY <1>1, <2>1, <2>2, <3>1 DEF CreateOK, Attempts
    <3>3. create[p].pc = "answered" =>
             /\ create'[p].ticket \in Tickets
             /\ title'[create'[p].ticket] = Wanted[p] /\ status'[create'[p].ticket] # "absent"
             /\ status'[create'[p].ticket] \in Open \/ create'[p].closures > 0
      BY <1>1, <1>6, <2>1, <2>2, <3>1 DEF CreateOK, IsOpen, Attempts
    <3> QED
      BY <2>2, <2>3, <2>4, <2>5, <3>2, <3>3 DEF CreateOK, IsOpen
  <2> QED
    BY <2>6, <2>7
<1> QED
  BY <1>8, <1>10, <1>11, <1>12, <1>13, <1>14, <1>15 DEF IInv

LEMMA GrowOldInv ==
    ASSUME IInv, NEW t \in Tickets, GrowOld(t)
    PROVE  IInv'
<1>1. /\ recent' = recent \ {t}
      /\ UNCHANGED <<status, title, resolvedAt, create, edit, contested>>
  BY DEF GrowOld
<1>2. TypeOK'
  BY <1>1 DEF IInv, TypeOK
<1>3. /\ \A s \in Tickets : IsOpen(s)' <=> IsOpen(s)
      /\ \A p \in Creates : Inserted(p)' <=> Inserted(p)
      /\ \A e \in Edits : /\ Reopens(e)' <=> Reopens(e)
                          /\ Titled(e)' = Titled(e)
                          /\ Moved(e)' <=> Moved(e)
  BY <1>1 DEF IsOpen, Inserted, Reopens, SetsStatus, Titled, Moved
<1>4. EntryOK' /\ OneOpenTicket'
  BY <1>1, <1>3 DEF IInv, EntryOK, OneOpenTicket
<1>5. RowOK' /\ StampOK' /\ StampFollowsStatus'
  BY <1>1, <1>3 DEF IInv, RowOK, StampOK, StampFollowsStatus
<1>6. \A p \in Creates : CreateOK(p)'
  BY <1>1, <1>3 DEF IInv, CreateOK
<1> QED
  BY <1>2, <1>4, <1>5, <1>6 DEF IInv

LEMMA StutterInv == IInv /\ UNCHANGED vars => IInv'
<1> SUFFICES ASSUME IInv, UNCHANGED vars PROVE IInv'
  OBVIOUS
<1>1. UNCHANGED <<table, create, edit, contested>>
  BY DEF vars
<1>2. TypeOK'
  BY <1>1 DEF IInv, TypeOK, table
<1>3. /\ \A s \in Tickets : IsOpen(s)' <=> IsOpen(s)
      /\ \A p \in Creates : Inserted(p)' <=> Inserted(p)
      /\ \A e \in Edits : /\ Reopens(e)' <=> Reopens(e)
                          /\ Titled(e)' = Titled(e)
                          /\ Moved(e)' <=> Moved(e)
  BY <1>1 DEF IsOpen, Inserted, Reopens, SetsStatus, Titled, Moved, table
<1>4. EntryOK' /\ OneOpenTicket'
  BY <1>1, <1>3 DEF IInv, EntryOK, OneOpenTicket, table
<1>5. RowOK' /\ StampOK' /\ StampFollowsStatus'
  BY <1>1, <1>3 DEF IInv, RowOK, StampOK, StampFollowsStatus, table
<1>6. \A p \in Creates : CreateOK(p)'
  BY <1>1, <1>3 DEF IInv, CreateOK, table
<1> QED
  BY <1>2, <1>4, <1>5, <1>6 DEF IInv

LEMMA NextInv == IInv /\ [Next]_vars => IInv'
<1> SUFFICES ASSUME IInv, [Next]_vars PROVE IInv'
  OBVIOUS
<1>1. ASSUME NEW p \in Creates, CreateStep(p) PROVE IInv'
  BY <1>1, FastPathInv, InsertInv, LookupInv DEF CreateStep
<1>2. ASSUME NEW p \in Creates, CommitCreate(p) PROVE IInv'
  BY <1>2, CommitCreateInv
<1>3. ASSUME NEW p \in Creates, AbortCreate(p) PROVE IInv'
  BY <1>3, AbortCreateInv
<1>4. ASSUME NEW e \in Edits, EditStep(e) PROVE IInv'
  BY <1>4, LoadTicketInv, WriteInv, CommitEditInv, FailEditInv DEF EditStep
<1>5. ASSUME NEW t \in Tickets, GrowOld(t) PROVE IInv'
  BY <1>5, GrowOldInv
<1>6. CASE UNCHANGED vars
  BY <1>6, StutterInv
<1> QED
  BY <1>1, <1>2, <1>3, <1>4, <1>5, <1>6 DEF Next

-----------------------------------------------------------------------------
(* Theorems *)

THEOREM Invariance == Spec => []IInv
  BY InitInv, NextInv, PTL DEF Spec

\* Every variable keeps its type; a create makes no third attempt.
THEOREM TypeCorrect == Spec => []TypeOK
<1>1. IInv => TypeOK
  BY DEF IInv
<1> QED
  BY <1>1, Invariance, PTL

\* The partial unique index, and the waits it imposes, keep one open ticket of a
\* title however many creates and reopening edits run at the same time.
THEOREM Unique == Spec => []OneOpenTicket
<1>1. IInv => OneOpenTicket
  BY DEF IInv
<1> QED
  BY <1>1, Invariance, PTL

\* Creating fails only if it was overtaken twice: one retry is enough for one
\* closure.
THEOREM Overtaken == Spec => []FailsOnlyAfterTwoClosures
<1>1. IInv => FailsOnlyAfterTwoClosures
  BY DEF IInv, CreateOK, FailsOnlyAfterTwoClosures
<1> QED
  BY <1>1, Invariance, PTL

\* A duplicate answered instead of a new ticket is the customer's, of that title,
\* and open unless it was closed meanwhile.
THEOREM Answered == Spec => []AnswerIsOpen
<1>1. IInv => AnswerIsOpen
  BY DEF IInv, CreateOK, AnswerIsOpen
<1> QED
  BY <1>1, Invariance, PTL

\* Writing only the columns that changed keeps resolved_at and status together
\* for every ticket nobody overtook.
THEOREM Stamped == Spec => []StampFollowsStatus
<1>1. IInv => StampFollowsStatus
  BY DEF IInv
<1> QED
  BY <1>1, Invariance, PTL
=============================================================================
