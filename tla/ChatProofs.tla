----------------------------- MODULE ChatProofs -----------------------------
(***************************************************************************)
(* Proofs about the chat of a user, for any number of connections,         *)
(* conversations, tabs and messages: what Chat says of the two histories,  *)
(* of ratings, and what ChatPush says of pushed frames.                    *)
(***************************************************************************)
EXTENDS Chat, ChatPush, TLAPS, SequenceTheorems, FiniteSetTheorems

-----------------------------------------------------------------------------
(* Chat: the invariant *)

Outside == {"closed", "idle", "received"}
Asked == {"mirrored", "agent", "streaming", "commit", "ending"}

\* The rows a turn has inserted and not committed.
Inserted(c) ==
    LET t == turn[c]
        question == Row(t.conv, t.question, "user", t.at, None)
        answer == Row(t.conv, t.answer, "assistant", t.at, t.question)
    IN  CASE pc[c] \in {"agent", "streaming"} -> {question}
          [] pc[c] = "commit" /\ t.answer = None -> {question}
          [] pc[c] = "commit" /\ t.answer # None -> {question, answer}
          [] OTHER -> {}

\* What a turn has in hand at each point of it.
TurnOK(c) ==
    LET t == turn[c]
    IN  /\ pc[c] \in Outside => t = NoTurn
        /\ pc[c] \notin Outside => t.conv \in Conversations /\ t.at \in Nat \ {0}
        /\ pc[c] \in Asked => t.question # None
        /\ pc[c] \notin Asked => t.question = None
        /\ pc[c] \notin {"commit", "ending"} => t.answer = None
        /\ t.answer # None => t.question # None /\ t.question < t.answer
        /\ t.stored = Inserted(c)
        /\ pc[c] = "ending" => t.sets = None

\* A time belongs to one transaction, which stores one message of the user at most.
OneTime ==
    /\ \A c, d \in Connections :
          c # d /\ pc[c] \notin Outside /\ pc[d] \notin Outside => turn[c].at # turn[d].at
    /\ \A c \in Connections : \A r \in rows :
          pc[c] \notin Outside \cup {"ending"} => r.at # turn[c].at
    /\ \A r, s \in rows : r.role = "user" /\ s.role = "user" /\ r.at = s.at => r = s

\* An answer is stored with its question, at the same time.
Paired(a, q) ==
    /\ q.conv = a.conv /\ q.role = "user" /\ q.at = a.at
    /\ q.id = a.re /\ q.id # a.id
Answered == \A a \in rows : a.role = "assistant" => \E q \in rows : Paired(a, q)

\* From the removal of its row a conversation's messages are those the deletion found,
\* and no turn has one in hand.
DeletionOK ==
    /\ deletion.pc # "none" => deletion.conv \in Conversations
    /\ deletion.pc = "none" => deletion = NoDeletion
    /\ \A r \in deletion.swept : r.conv = deletion.conv
    /\ deletion.pc \in {"removed", "cleared"} =>
          /\ \A r \in rows : r.conv = deletion.conv => r \in deletion.swept
          /\ \A c \in Connections : turn[c].conv = deletion.conv => turn[c].stored = {}

\* A list holds its messages in the order they were mirrored in.
Ascending(list) == \A i, j \in 1..Len(list) : i < j => list[i] < list[j]

\* The list of k has the message, or lost it to newer ones, or was removed since.
Kept(k, id) ==
    \/ id \in ToSet(history[k]) \/ id <= cleared[k]
    \/ Len(history[k]) = MaxHistory /\ \A m \in ToSet(history[k]) : m > id

\* Also of the messages of a turn in progress, which it is yet to commit.
AllKept ==
    /\ \A r \in rows : Kept(r.conv, r.id)
    /\ \A c \in Connections :
          /\ turn[c].question # None => Kept(turn[c].conv, turn[c].question)
          /\ turn[c].answer # None => Kept(turn[c].conv, turn[c].answer)

Known == {r.id : r \in rows} \cup unkept

\* A message of a list is known, or a turn will commit it or roll it back.
AllKnown ==
    /\ \A k \in Conversations : ToSet(history[k]) \subseteq Known \cup InFlight
    /\ \A c \in Connections :
          pc[c] = "ending" => {turn[c].question, turn[c].answer} \ {None} \subseteq Known

IInv ==
    /\ TypeOK
    /\ \A c \in Connections : TurnOK(c)
    /\ OneTime /\ Answered /\ DeletionOK
    /\ \A k \in Conversations : Ascending(history[k])
    /\ AllKept /\ AllKnown

-----------------------------------------------------------------------------
(* Chat: the lists *)

LEMMA NewestProps ==
    ASSUME NEW S, NEW list \in Seq(S), NEW n \in Nat
    PROVE  /\ Newest(list, n) \in Seq(S)
           /\ Len(Newest(list, n)) = IF Len(list) > n THEN n ELSE Len(list)
           /\ \A i \in 1..Len(Newest(list, n)) :
                 Newest(list, n)[i] = list[i + Len(list) - Len(Newest(list, n))]
  <1> DEFINE len == Len(list)
             first == IF len > n THEN len - n + 1 ELSE 1
             new == Newest(list, n)
  <1>1. len \in Nat /\ new = SubSeq(list, first, len)
    BY LenProperties DEF Newest
  <1>2. \A i \in 1..len : list[i] \in S
    BY ElementOfSeq
  <1> HIDE DEF len, new
  <1>3. /\ first \in 1..(len + 1)
        /\ len - first + 1 = IF len > n THEN n ELSE len
    BY <1>1
  <1> HIDE DEF first
  <1>4. /\ new \in Seq(S)
        /\ Len(new) = IF first <= len THEN len - first + 1 ELSE 0
        /\ \A i \in 1..(len - first + 1) : new[i] = list[first + i - 1]
    BY <1>1, <1>2, <1>3, SubSeqProperties
  <1>5. Len(new) = len - first + 1 /\ Len(new) \in Nat
    BY <1>1, <1>3, <1>4
  <1>6. \A i \in 1..Len(new) : new[i] = list[first + i - 1]
    BY <1>4, <1>5
  <1>7. \A i \in 1..Len(new) : first + i - 1 = i + len - Len(new)
    BY <1>1, <1>3, <1>5
  <1>8. \A i \in 1..Len(new) : new[i] = list[i + len - Len(new)]
    BY <1>6, <1>7
  <1> QED BY <1>3, <1>4, <1>5, <1>8 DEF new, len

LEMMA InList ==
    ASSUME NEW S, NEW list \in Seq(S), NEW id
    PROVE  id \in ToSet(list) <=> \E i \in 1..Len(list) : id = list[i]
  BY LenProperties DEF ToSet

\* One more message in a list that holds the newest n: what leaves it is older than
\* all that stays.
LEMMA PushMessage ==
    ASSUME NEW m \in Nat, NEW list \in Seq(1..m), Ascending(list), NEW n \in Nat \ {0}
    PROVE  LET new == Newest(Append(list, m + 1), n)
           IN  /\ new \in Seq(1..(m + 1)) /\ Ascending(new)
               /\ m + 1 \in ToSet(new)
               /\ ToSet(new) \subseteq ToSet(list) \cup {m + 1}
               /\ \A id \in ToSet(list) \ ToSet(new) :
                     Len(new) = n /\ \A o \in ToSet(new) : o > id
               /\ \A id \in Nat :
                     Len(list) = n /\ id <= m /\ (\A o \in ToSet(list) : o > id)
                       => Len(new) = n /\ \A o \in ToSet(new) : o > id
  <1> DEFINE longer == Append(list, m + 1)
             new == Newest(longer, n)
             gap == Len(longer) - Len(new)
  <1>0. list \in Seq(1..(m + 1)) /\ m + 1 \in 1..(m + 1)
    BY SeqMonotonic
  <1>1. /\ longer \in Seq(1..(m + 1)) /\ Len(longer) = Len(list) + 1
        /\ \A i \in 1..Len(list) : longer[i] = list[i]
        /\ longer[Len(list) + 1] = m + 1
        /\ Len(list) \in Nat
    BY <1>0, AppendProperties, LenProperties
  <1>2. \A i \in 1..Len(list) : list[i] \in 1..m
    BY ElementOfSeq
  <1>3. Ascending(longer)
    <2> SUFFICES ASSUME NEW i \in 1..Len(longer), NEW j \in 1..Len(longer), i < j
                 PROVE  longer[i] < longer[j]
      BY DEF Ascending
    <2> HIDE DEF longer
    <2>1. i \in 1..Len(list) /\ longer[i] = list[i] /\ longer[i] \in 1..m
      BY <1>1, <1>2
    <2>2. CASE j = Len(list) + 1
      BY <1>1, <2>1, <2>2
    <2>3. CASE j # Len(list) + 1
      <3>1. Len(list) \in Nat /\ j \in 1..(Len(list) + 1)
        BY <1>1
      <3>2. j \in 1..Len(list)
        BY <2>3, <3>1
      <3> QED BY <1>1, <2>1, <3>2 DEF Ascending
    <2> QED BY <2>2, <2>3
  <1>4. /\ new \in Seq(1..(m + 1)) /\ Len(new) \in Nat
        /\ Len(new) = IF Len(longer) > n THEN n ELSE Len(longer)
        /\ \A i \in 1..Len(new) : new[i] = longer[i + Len(longer) - Len(new)]
    <2>1. longer \in Seq(1..(m + 1)) /\ n \in Nat
      BY <1>1
    <2> HIDE DEF longer
    <2>2. /\ new \in Seq(1..(m + 1))
          /\ Len(new) = IF Len(longer) > n THEN n ELSE Len(longer)
          /\ \A i \in 1..Len(new) : new[i] = longer[i + Len(longer) - Len(new)]
      BY <2>1, NewestProps
    <2> QED BY <2>2, LenProperties
  <1> HIDE DEF longer, new
  <1>5. /\ gap \in Nat /\ Len(new) + gap = Len(list) + 1
        /\ Len(new) # 0 /\ (gap > 0 => Len(new) = n)
    BY <1>1, <1>4
  <1>6. \A i \in 1..Len(new) : i + gap \in 1..Len(longer) /\ i + gap = i + Len(longer) - Len(new)
    <2>1. /\ Len(longer) \in Nat /\ Len(new) \in Nat /\ gap \in Nat
          /\ gap = Len(longer) - Len(new)
      BY <1>1, <1>4, <1>5
    <2> HIDE DEF gap
    <2> SUFFICES ASSUME NEW i \in 1..Len(new)
                 PROVE  i + gap \in 1..Len(longer) /\ i + gap = i + Len(longer) - Len(new)
      OBVIOUS
    <2>2. i \in Nat /\ 1 <= i /\ i <= Len(new)
      BY <2>1
    <2>3. i + gap >= 1 /\ i + gap <= Len(longer) /\ i + gap \in Nat
      BY <2>1, <2>2
    <2> QED BY <2>1, <2>2, <2>3
  <1>7. \A i \in 1..Len(new) : new[i] = longer[i + gap]
    BY <1>4, <1>6
  <1> HIDE DEF gap
  <1>8. Ascending(new)
    <2> SUFFICES ASSUME NEW i \in 1..Len(new), NEW j \in 1..Len(new), i < j
                 PROVE  new[i] < new[j]
      BY DEF Ascending
    <2>1. i + gap < j + gap
      BY <1>5
    <2>2. longer[i + gap] < longer[j + gap]
      BY <1>3, <1>6, <2>1 DEF Ascending
    <2> QED BY <1>7, <2>2
  <1>9. \A o \in ToSet(new) : \E i \in 1..Len(new) : o = longer[i + gap]
    <2>1. \A o \in ToSet(new) : \E i \in 1..Len(new) : o = new[i]
      BY <1>4, InList
    <2> QED BY <1>7, <2>1
  <1>10. m + 1 \in ToSet(new)
    <2>1. Len(new) \in 1..Len(new)
      BY <1>4, <1>5
    <2>2. new[Len(new)] = m + 1
      BY <1>1, <1>5, <1>7, <2>1
    <2> QED BY <1>4, <2>1, <2>2, InList
  <1>11. ToSet(new) \subseteq ToSet(list) \cup {m + 1}
    <2> SUFFICES ASSUME NEW p \in 1..Len(longer)
                 PROVE  longer[p] \in ToSet(list) \cup {m + 1}
      BY <1>6, <1>9
    <2>1. CASE p = Len(list) + 1
      BY <1>1, <2>1
    <2>2. CASE p # Len(list) + 1
      <3>1. p \in 1..Len(list)
        BY <1>1, <2>2
      <3> QED BY <1>1, <3>1, InList
    <2> QED BY <2>1, <2>2
  <1>12. ASSUME NEW id \in ToSet(list) \ ToSet(new)
         PROVE  Len(new) = n /\ \A o \in ToSet(new) : o > id
    <2>1. PICK p \in 1..Len(list) : id = list[p]
      BY InList
    <2>2. p \in 1..Len(longer) /\ id = longer[p] /\ id \in Nat
      BY <1>1, <1>2, <2>1
    <2>3. p <= gap
      <3> SUFFICES ASSUME p > gap PROVE FALSE
        BY <1>5
      <3>1. p - gap \in 1..Len(new) /\ (p - gap) + gap = p
        BY <1>1, <1>5, <2>2
      <3>2. new[p - gap] = id
        BY <1>7, <2>2, <3>1
      <3> QED BY <1>4, <3>1, <3>2, InList
    <2>4. Len(new) = n
      BY <1>5, <2>2, <2>3
    <2>5. ASSUME NEW i \in 1..Len(new) PROVE longer[i + gap] > id
      <3>1. p < i + gap /\ i + gap \in 1..Len(longer)
        BY <1>5, <1>6, <2>3
      <3>2. longer[p] < longer[i + gap] /\ longer[i + gap] \in 1..(m + 1)
        BY <1>1, <1>3, <2>2, <3>1, ElementOfSeq DEF Ascending
      <3> QED BY <2>2, <3>2
    <2> QED BY <1>9, <2>4, <2>5
  <1>13. ASSUME NEW id \in Nat, Len(list) = n, id <= m, \A o \in ToSet(list) : o > id
         PROVE  Len(new) = n /\ \A o \in ToSet(new) : o > id
    <2>1. Len(new) = n
      BY <1>1, <1>4, <1>13
    <2>2. m + 1 > id
      BY <1>13
    <2> QED BY <1>11, <1>13, <2>1, <2>2
  <1> QED BY <1>4, <1>8, <1>10, <1>11, <1>12, <1>13 DEF new, longer

-----------------------------------------------------------------------------
(* Chat: the beginning, and what every step of a kind keeps *)

LEMMA InitInv == Init => IInv
  <1> SUFFICES ASSUME Init PROVE IInv
    OBVIOUS
  <1>1. TypeOK
    <2>1. NoTurn \in TurnRecord
      BY SMT DEF Init, NoTurn, TurnRecord
    <2>2. << >> \in Seq(Message)
      BY EmptySeq
    <2>3. /\ rows \subseteq MessageRow /\ unkept \subseteq Message
          /\ clock \in Nat /\ turns \in Nat /\ ids \in Nat
      BY DEF Init
    <2>4. history \in [Conversations -> Seq(Message)] /\ turn \in [Connections -> TurnRecord]
      BY <2>1, <2>2 DEF Init
    <2>5. deletion \in [pc : {"none", "swept", "removed", "cleared"},
                        conv : Conversations \cup {None}, swept : SUBSET MessageRow]
      BY DEF Init, NoDeletion
    <2> QED BY <2>3, <2>4, <2>5 DEF Init, TypeOK
  <1>2. \A c \in Connections : TurnOK(c)
    BY DEF Init, TurnOK, Outside, Asked, NoTurn, Inserted
  <1>3. OneTime /\ Answered /\ DeletionOK
    BY DEF Init, OneTime, Answered, DeletionOK, Outside, NoDeletion
  <1>4. \A k \in Conversations : Ascending(history[k])
    <2>1. \A k \in Conversations : Len(history[k]) = 0
      BY EmptySeq DEF Init
    <2> QED BY <2>1 DEF Ascending
  <1>5. AllKept
    BY DEF Init, AllKept, NoTurn
  <1>6. AllKnown
    <2>1. ToSet(<< >>) = {}
      BY DEF ToSet
    <2>2. \A k \in Conversations : ToSet(history[k]) = {}
      BY <2>1 DEF Init
    <2> QED BY <2>2 DEF Init, AllKnown, NoTurn
  <1> QED BY <1>1, <1>2, <1>3, <1>4, <1>5, <1>6 DEF IInv

\* Ids and times only grow, so what had its type keeps it.
LEMMA TypesGrow ==
    ASSUME TypeOK, ids' \in Nat, clock' \in Nat, ids <= ids', clock <= clock'
    PROVE  /\ Message \subseteq Message' /\ MessageRow \subseteq MessageRow'
           /\ TurnRecord \subseteq TurnRecord'
           /\ Seq(Message) \subseteq Seq(Message')
  <1>1. Message \subseteq Message' /\ 1..clock \subseteq (1..clock)' /\ 0..clock \subseteq (0..clock)'
    BY DEF TypeOK, Message
  <1>2. MessageRow \subseteq MessageRow'
    BY <1>1 DEF MessageRow
  <1>3. TurnRecord \subseteq TurnRecord'
    BY <1>1, <1>2 DEF TurnRecord
  <1>4. Seq(Message) \subseteq Seq(Message')
    BY <1>1, SeqMonotonic
  <1> QED BY <1>1, <1>2, <1>3, <1>4

\* A message is mirrored: the list stays in order, and nothing is lost but the oldest.
LEMMA MirrorStep ==
    ASSUME IInv, NEW k \in Conversations, AddMessage(k), cleared' = cleared
    PROVE  /\ ids' = ids + 1 /\ ids + 1 \in Message'
           /\ history' \in [Conversations -> Seq(Message')]
           /\ \A j \in Conversations : Ascending(history'[j])
           /\ \A j \in Conversations : \A id \in Message : Kept(j, id) => Kept(j, id)'
           /\ Kept(k, ids)'
           /\ \A j \in Conversations :
                 ToSet(history'[j]) \subseteq ToSet(history[j]) \cup {ids + 1}
  <1> DEFINE old == history[k]
             new == Newest(Append(old, ids + 1), MaxHistory)
  <1>1. /\ ids \in Nat /\ ids' = ids + 1 /\ old \in Seq(1..ids) /\ Ascending(old)
        /\ history \in [Conversations -> Seq(Message)] /\ MaxHistory \in Nat \ {0}
        /\ history' = [history EXCEPT ![k] = new]
    BY ChatAssumption DEF IInv, TypeOK, AddMessage, Message
  <1>2. /\ new \in Seq(1..(ids + 1)) /\ Ascending(new)
        /\ ids + 1 \in ToSet(new)
        /\ ToSet(new) \subseteq ToSet(old) \cup {ids + 1}
        /\ \A id \in ToSet(old) \ ToSet(new) :
              Len(new) = MaxHistory /\ \A o \in ToSet(new) : o > id
        /\ \A id \in Nat :
              Len(old) = MaxHistory /\ id <= ids /\ (\A o \in ToSet(old) : o > id)
                => Len(new) = MaxHistory /\ \A o \in ToSet(new) : o > id
    BY <1>1, PushMessage
  <1> HIDE DEF old, new
  <1>3. history'[k] = new /\ \A j \in Conversations \ {k} : history'[j] = history[j]
    BY <1>1
  <1>4. Message' = 1..(ids + 1) /\ ids + 1 \in Message' /\ Message \subseteq Message'
    BY <1>1 DEF Message
  <1>5. history' \in [Conversations -> Seq(Message')]
    <2>1. new \in Seq(Message') /\ Seq(Message) \subseteq Seq(Message')
      BY <1>2, <1>4, SeqMonotonic
    <2> QED BY <1>1, <2>1
  <1>6. \A j \in Conversations : Ascending(history'[j])
    BY <1>2, <1>3 DEF IInv
  <1>7. ASSUME NEW j \in Conversations, NEW id \in Message, Kept(j, id)
        PROVE  Kept(j, id)'
    <2>1. CASE j # k
      BY <1>3, <1>7, <2>1 DEF Kept
    <2>2. CASE j = k
      <3>1. id \in Nat /\ id <= ids
        BY <1>1 DEF Message
      <3>2. CASE id \in ToSet(old)
        BY <1>2, <1>3, <2>2, <3>2 DEF Kept
      <3>3. CASE id <= cleared[k]
        BY <2>2, <3>3 DEF Kept
      <3>4. CASE Len(old) = MaxHistory /\ \A o \in ToSet(old) : o > id
        BY <1>2, <1>3, <2>2, <3>1, <3>4 DEF Kept
      <3> QED BY <1>7, <2>2, <3>2, <3>3, <3>4 DEF Kept, old
    <2> QED BY <2>1, <2>2
  <1>8. Kept(k, ids)'
    BY <1>1, <1>2, <1>3 DEF Kept
  <1>9. \A j \in Conversations : ToSet(history'[j]) \subseteq ToSet(history[j]) \cup {ids + 1}
    BY <1>2, <1>3 DEF old
  <1> QED BY <1>1, <1>4, <1>5, <1>6, <1>7, <1>8, <1>9

LEMMA SameTurn ==
    ASSUME NEW c \in Connections, TurnOK(c), pc'[c] = pc[c], turn'[c] = turn[c]
    PROVE  TurnOK(c)'
  BY DEF TurnOK, Inserted, Row

\* A connection that is in no turn reads a frame.
LEMMA ReceiveInv ==
    ASSUME IInv, NEW c \in Connections, Authenticate(c) \/ ReceiveMessage(c) \/ ReceiveCancel(c)
    PROVE  IInv'
  <1>0. pc \in [Connections -> {"closed", "idle", "received", "loaded", "mirrored",
              "agent", "streaming", "commit", "ending"}]
    BY DEF IInv, TypeOK
  <1>1. /\ UNCHANGED <<status, rows, clock, turns, history, turn, deletion, ids, unkept, cleared>>
        /\ pc[c] \in Outside /\ pc'[c] \in Outside
        /\ pc' \in [Connections -> {"closed", "idle", "received", "loaded", "mirrored",
              "agent", "streaming", "commit", "ending"}]
        /\ \A d \in Connections : pc'[d] = pc[d] \/ (pc[d] \in Outside /\ pc'[d] \in Outside)
    <2>1. UNCHANGED <<status, rows, clock, turns, history, turn, deletion, ids, unkept, cleared>>
      BY DEF Authenticate, ReceiveMessage, ReceiveCancel, db, ghosts
    <2>2. \/ pc[c] = "closed" /\ pc' = [pc EXCEPT ![c] = "idle"]
          \/ pc[c] = "idle" /\ pc' = [pc EXCEPT ![c] = "received"]
          \/ pc[c] = "idle" /\ pc' = pc
      BY DEF Authenticate, ReceiveMessage, ReceiveCancel, Reads
    <2> QED BY <1>0, <2>1, <2>2 DEF Outside
  <1>2. cancelFlag' \in [Connections -> BOOLEAN] /\ waiting' \in [Connections -> BOOLEAN]
    BY Zenon DEF IInv, TypeOK, Authenticate, ReceiveMessage, ReceiveCancel
  <1>3. TypeOK'
    BY <1>1, <1>2 DEF IInv, TypeOK, Message, MessageRow, TurnRecord
  <1>4. ASSUME NEW d \in Connections PROVE TurnOK(d)'
    <2>1. CASE pc'[d] = pc[d]
      BY <1>1, <2>1, SameTurn DEF IInv
    <2>2. CASE pc[d] \in Outside /\ pc'[d] \in Outside
      <3>1. turn'[d] = NoTurn
        BY <1>1, <2>2 DEF IInv, TurnOK
      <3> QED BY <2>2, <3>1 DEF TurnOK, Inserted, Outside, Asked, NoTurn
    <2> QED BY <1>1, <2>1, <2>2
  <1>5. OneTime'
    BY <1>1 DEF IInv, OneTime
  <1>6. Answered' /\ DeletionOK' /\ (\A k \in Conversations : Ascending(history[k])')
    BY <1>1 DEF IInv, Answered, DeletionOK
  <1>7. AllKept'
    BY <1>1 DEF IInv, AllKept, Kept
  <1>8. AllKnown'
    BY <1>1 DEF IInv, AllKnown, Known, InFlight, Outside
  <1> QED BY <1>2, <1>3, <1>4, <1>5, <1>6, <1>7, <1>8 DEF IInv

\* A turn is over, finished or broken off: what it mirrored is accounted for.
LEMMA TurnOver ==
    ASSUME IInv, NEW c \in Connections,
           turn' = [turn EXCEPT ![c] = NoTurn],
           pc' = [pc EXCEPT ![c] = pc'[c]], pc'[c] \in Outside,
           cancelFlag' = [cancelFlag EXCEPT ![c] = FALSE] \/ UNCHANGED cancelFlag,
           waiting' = [waiting EXCEPT ![c] = FALSE], pc'[c] \in {"idle", "closed"},
           UNCHANGED <<status, rows, history, deletion, ids, cleared>>,
           clock' \in Nat, clock <= clock', turns' \in Nat,
           unkept \subseteq unkept', unkept' \subseteq Message,
           {turn[c].question, turn[c].answer} \ {None} \subseteq Known'
    PROVE  IInv'
  <1>1. /\ pc'[c] \in Outside /\ turn'[c] = NoTurn
        /\ \A d \in Connections \ {c} : pc'[d] = pc[d] /\ turn'[d] = turn[d]
    BY DEF IInv, TypeOK
  <1>2. NoTurn \in TurnRecord' /\ NoTurn.question = None /\ NoTurn.answer = None
        /\ NoTurn.stored = {}
    BY DEF NoTurn, TurnRecord
  <1>3. TypeOK'
    <2>1. MessageRow \subseteq MessageRow' /\ TurnRecord \subseteq TurnRecord' /\ Message' = Message
      BY TypesGrow DEF IInv, TypeOK, Message
    <2>2. turn' \in [Connections -> TurnRecord']
      BY <1>2, <2>1 DEF IInv, TypeOK
    <2>3. rows' \subseteq MessageRow' /\ history' \in [Conversations -> Seq(Message')]
      BY <2>1 DEF IInv, TypeOK
    <2>4. deletion' \in [pc : {"none", "swept", "removed", "cleared"},
                         conv : Conversations \cup {None}, swept : SUBSET MessageRow']
      BY <2>1 DEF IInv, TypeOK
    <2>5. pc' \in [Connections -> {"closed", "idle", "received", "loaded", "mirrored",
             "agent", "streaming", "commit", "ending"}]
      BY DEF IInv, TypeOK
    <2>6. cancelFlag' \in [Connections -> BOOLEAN] /\ waiting' \in [Connections -> BOOLEAN]
      BY Zenon DEF IInv, TypeOK
    <2>7. /\ status' \in [Conversations -> {"absent", "open", "transferred"}]
          /\ ids' \in Nat /\ unkept' \subseteq Message' /\ cleared' \in [Conversations -> Nat]
      BY <2>1 DEF IInv, TypeOK
    <2> QED BY <2>2, <2>3, <2>4, <2>5, <2>6, <2>7 DEF TypeOK
  <1>4. ASSUME NEW d \in Connections PROVE TurnOK(d)'
    <2>1. CASE d = c
      BY <1>1, <2>1 DEF TurnOK, Inserted, Outside, Asked, NoTurn
    <2>2. CASE d # c
      BY <1>1, <2>2, SameTurn DEF IInv
    <2> QED BY <2>1, <2>2
  <1>5. OneTime'
    BY <1>1 DEF IInv, OneTime
  <1>6. Answered' /\ (\A k \in Conversations : Ascending(history[k])')
    BY DEF IInv, Answered
  <1>7. DeletionOK'
    BY <1>1, <1>2 DEF IInv, DeletionOK
  <1>8. AllKept'
    BY <1>1, <1>2 DEF IInv, AllKept, Kept
  <1>9. AllKnown'
    <2>1. Known \subseteq Known' /\ InFlight \subseteq Known' \cup InFlight'
      <3>1. Known \subseteq Known'
        BY DEF Known
      <3>2. ASSUME NEW d \in Connections
            PROVE  {turn[d].question, turn[d].answer} \subseteq Known' \cup InFlight'
        <4>1. CASE d # c
          BY <1>1, <4>1 DEF InFlight
        <4>2. CASE d = c
          BY <1>1, <1>2, <4>2 DEF InFlight
        <4> QED BY <4>1, <4>2
      <3> QED BY <3>1, <3>2 DEF InFlight
    <2>2. \A k \in Conversations : ToSet(history'[k]) \subseteq Known' \cup InFlight'
      BY <2>1 DEF IInv, AllKnown
    <2>3. \A d \in Connections :
             pc'[d] = "ending" => {turn'[d].question, turn'[d].answer} \ {None} \subseteq Known'
      BY <1>1, <2>1 DEF IInv, AllKnown, Outside
    <2> QED BY <2>2, <2>3 DEF AllKnown
  <1> QED BY <1>3, <1>4, <1>5, <1>6, <1>7, <1>8, <1>9 DEF IInv

LEMMA FinishInv ==
    ASSUME IInv, NEW c \in Connections, Refuse(c) \/ End(c)
    PROVE  IInv'
  <1>1. /\ pc[c] \in {"received", "ending"} /\ Finish(c)
        /\ UNCHANGED <<status, rows, clock, turns, history, cancelFlag, deletion, ids,
                       unkept, cleared>>
    BY DEF Refuse, End, db, ghosts
  <1>2. /\ turn' = [turn EXCEPT ![c] = NoTurn] /\ pc' = [pc EXCEPT ![c] = "idle"]
        /\ waiting' = [waiting EXCEPT ![c] = FALSE] /\ pc'[c] = "idle"
    BY <1>1 DEF Finish, IInv, TypeOK
  <1>3. {turn[c].question, turn[c].answer} \ {None} \subseteq Known
    <2>1. CASE pc[c] = "received"
      BY <2>1 DEF IInv, TurnOK, Outside, NoTurn
    <2>2. CASE pc[c] = "ending"
      BY <2>2 DEF IInv, AllKnown
    <2> QED BY <1>1, <2>1, <2>2
  <1>4. /\ {turn[c].question, turn[c].answer} \ {None} \subseteq Known'
        /\ unkept \subseteq unkept' /\ unkept' \subseteq Message
        /\ clock' \in Nat /\ clock <= clock' /\ turns' \in Nat
    BY <1>1, <1>3 DEF Known, IInv, TypeOK
  <1> QED BY <1>1, <1>2, <1>4, TurnOver DEF Outside

\* A message to a conversation of another user: told so, and no more.
LEMMA RejectInv ==
    ASSUME IInv, NEW c \in Connections, NEW k \in Foreign, Load(c, k)
    PROVE  IInv'
  <1>1. k \notin Conversations /\ k # None
    BY ChatAssumption
  <1>2. /\ pc[c] = "received" /\ Finish(c)
        /\ clock' = clock + 1 /\ turns' = turns + 1
        /\ UNCHANGED <<status, rows, history, cancelFlag, deletion, ids, unkept, cleared>>
    BY <1>1 DEF Load, Reject, db, ghosts
  <1>3. /\ turn' = [turn EXCEPT ![c] = NoTurn] /\ pc' = [pc EXCEPT ![c] = "idle"]
        /\ waiting' = [waiting EXCEPT ![c] = FALSE] /\ pc'[c] = "idle"
    BY <1>2 DEF Finish, IInv, TypeOK
  <1>4. {turn[c].question, turn[c].answer} \ {None} = {}
    BY <1>2 DEF IInv, TurnOK, Outside, NoTurn
  <1>5. unkept' \subseteq Message /\ clock' \in Nat /\ turns' \in Nat /\ clock <= clock'
    BY <1>2 DEF IInv, TypeOK
  <1> QED BY <1>2, <1>3, <1>4, <1>5, TurnOver DEF Outside

LEMMA BreakInv ==
    ASSUME IInv, NEW c \in Connections, Break(c) \/ Orphaned(c)
    PROVE  IInv'
  <1>1. /\ Break(c)
        /\ UNCHANGED <<status, rows, clock, turns, history, deletion, ids, cleared>>
    BY DEF Orphaned, Break, db
  <1>2. /\ turn' = [turn EXCEPT ![c] = NoTurn] /\ pc' = [pc EXCEPT ![c] = "closed"]
        /\ waiting' = [waiting EXCEPT ![c] = FALSE]
        /\ cancelFlag' = [cancelFlag EXCEPT ![c] = FALSE]
        /\ pc'[c] = "closed" /\ cancelFlag'[c] = FALSE
    BY <1>1 DEF Break, IInv, TypeOK
  <1>3. /\ unkept' = IF pc[c] = "ending" THEN unkept
                     ELSE unkept \cup ({turn[c].question, turn[c].answer} \ {None})
        /\ unkept \subseteq unkept'
    BY <1>1 DEF Break
  <1>4. {turn[c].question, turn[c].answer} \ {None} \subseteq Message
    BY DEF IInv, TypeOK, TurnRecord
  <1>5. {turn[c].question, turn[c].answer} \ {None} \subseteq Known'
    <2>1. CASE pc[c] = "ending"
      BY <1>1, <1>3, <2>1 DEF IInv, AllKnown, Known
    <2>2. CASE pc[c] # "ending"
      BY <1>3, <2>2 DEF Known
    <2> QED BY <2>1, <2>2
  <1>6. unkept' \subseteq Message /\ clock' \in Nat /\ clock <= clock' /\ turns' \in Nat
    BY <1>1, <1>3, <1>4 DEF IInv, TypeOK
  <1> QED BY <1>1, <1>2, <1>3, <1>5, <1>6, TurnOver DEF Outside

\* A turn begins, in a conversation that is there or in a new one: its time is its own.
LEMMA LoadInv ==
    ASSUME IInv, NEW c \in Connections, NEW k \in Conversations \cup {None}, Load(c, k)
    PROVE  IInv'
  <1>0. pc \in [Connections -> {"closed", "idle", "received", "loaded", "mirrored",
              "agent", "streaming", "commit", "ending"}]
    BY DEF IInv, TypeOK
  <1>1. /\ pc[c] = "received" /\ pc' = [pc EXCEPT ![c] = "loaded"]
        /\ clock' = clock + 1 /\ turns' = turns + 1
        /\ UNCHANGED <<status, rows, history, cancelFlag, deletion, ids, waiting, unkept, cleared>>
    BY ChatAssumption DEF Load, db, ghosts
  <1>2. turn[c] = NoTurn
    BY <1>1 DEF IInv, TurnOK, Outside
  <1>3. /\ clock \in Nat /\ clock' \in Nat /\ clock <= clock' /\ clock + 1 \in 0..clock'
        /\ MessageRow \subseteq MessageRow' /\ TurnRecord \subseteq TurnRecord' /\ Message' = Message
    <2>1. clock \in Nat /\ ids \in Nat /\ clock' = clock + 1 /\ ids' = ids
      BY <1>1 DEF IInv, TypeOK
    <2> QED BY <2>1, TypesGrow DEF IInv, Message
  <1>4. /\ turn' \in [Connections -> TurnRecord']
        /\ turn'[c].conv \in Conversations /\ turn'[c].at = clock + 1
        /\ turn'[c].question = None /\ turn'[c].answer = None /\ turn'[c].stored = {}
        /\ \A d \in Connections \ {c} : turn'[d] = turn[d]
    <2>1. turn \in [Connections -> TurnRecord'] /\ turn[c] \in TurnRecord'
      BY <1>3 DEF IInv, TypeOK
    <2>2. turn[c].question = None /\ turn[c].answer = None /\ turn[c].stored = {}
      BY <1>2 DEF NoTurn
    <2>3. CASE k \in Conversations
      <3>1. turn' = [turn EXCEPT ![c] = [turn[c] EXCEPT !.conv = k, !.at = clock + 1,
                                            !.gated = (status[k] = "transferred")]]
        BY <2>3, ChatAssumption DEF Load
      <3>2. [turn[c] EXCEPT !.conv = k, !.at = clock + 1,
                            !.gated = (status[k] = "transferred")] \in TurnRecord'
        BY <1>3, <2>1, <2>3 DEF TurnRecord
      <3> QED BY <2>1, <2>2, <2>3, <3>1, <3>2 DEF TurnRecord
    <2>4. CASE k = None
      <3>1. PICK new \in Conversations :
               turn' = [turn EXCEPT ![c] = [turn[c] EXCEPT !.conv = new, !.at = clock + 1,
                                               !.sets = "open"]]
        BY <2>4, ChatAssumption DEF Load
      <3>2. [turn[c] EXCEPT !.conv = new, !.at = clock + 1, !.sets = "open"] \in TurnRecord'
        BY <1>3, <2>1 DEF TurnRecord
      <3> QED BY <2>1, <2>2, <3>1, <3>2 DEF TurnRecord
    <2> QED BY <2>3, <2>4
  <1>6. pc'[c] = "loaded" /\ \A d \in Connections \ {c} : pc'[d] = pc[d]
    BY <1>0, <1>1
  <1>7. TypeOK'
    <2>3. rows' \subseteq MessageRow' /\ history' \in [Conversations -> Seq(Message')]
      BY <1>1, <1>3 DEF IInv, TypeOK
    <2>4. deletion' \in [pc : {"none", "swept", "removed", "cleared"},
                         conv : Conversations \cup {None}, swept : SUBSET MessageRow']
      BY <1>1, <1>3 DEF IInv, TypeOK
    <2>5. pc' \in [Connections -> {"closed", "idle", "received", "loaded", "mirrored",
             "agent", "streaming", "commit", "ending"}]
      BY <1>0, <1>1
    <2>6. /\ status' \in [Conversations -> {"absent", "open", "transferred"}]
          /\ ids' \in Nat /\ unkept' \subseteq Message' /\ cleared' \in [Conversations -> Nat]
          /\ cancelFlag' \in [Connections -> BOOLEAN] /\ waiting' \in [Connections -> BOOLEAN]
          /\ clock' \in Nat /\ turns' \in Nat
      BY <1>1, <1>3 DEF IInv, TypeOK
    <2> QED BY <1>4, <2>3, <2>4, <2>5, <2>6 DEF TypeOK
  <1>8. ASSUME NEW d \in Connections PROVE TurnOK(d)'
    <2>1. CASE d = c
      <3>1. Inserted(c)' = {}
        BY <1>6 DEF Inserted
      <3>2. turn'[c].at \in Nat \ {0}
        BY <1>3, <1>4
      <3> QED BY <1>4, <1>6, <2>1, <3>1, <3>2 DEF TurnOK, Outside, Asked
    <2>2. CASE d # c
      BY <1>4, <1>6, <2>2, SameTurn DEF IInv
    <2> QED BY <2>1, <2>2
  <1>9. OneTime'
    <2>1. /\ \A r \in rows : r.at \in Nat /\ r.at < clock + 1
          /\ \A d \in Connections : turn[d].at \in Nat /\ turn[d].at < clock + 1
      BY DEF IInv, TypeOK, MessageRow, TurnRecord
    <2>2. \A d \in Connections \ {c} : turn'[d].at # turn'[c].at
      BY <1>4, <1>6, <2>1
    <2>3. \A r \in rows : r.at # turn'[c].at
      BY <1>4, <1>6, <2>1
    <2> QED BY <1>1, <1>4, <1>6, <2>2, <2>3 DEF IInv, OneTime
  <1>10. Answered' /\ (\A i \in Conversations : Ascending(history[i])')
    BY <1>1 DEF IInv, Answered
  <1>11. DeletionOK'
    BY <1>1, <1>4, <1>6 DEF IInv, DeletionOK
  <1>12. AllKept'
    BY <1>1, <1>4, <1>6 DEF IInv, AllKept, Kept
  <1>13. AllKnown'
    <2>1. Known' = Known /\ InFlight \subseteq InFlight'
      <3>1. turn[c].question = turn'[c].question /\ turn[c].answer = turn'[c].answer
        BY <1>2, <1>4 DEF NoTurn
      <3> QED BY <1>1, <1>4, <3>1 DEF Known, InFlight
    <2> QED BY <1>1, <1>4, <1>6, <2>1 DEF IInv, AllKnown
  <1> QED BY <1>7, <1>8, <1>9, <1>10, <1>11, <1>12, <1>13 DEF IInv

-----------------------------------------------------------------------------
(* Chat: the steps of a turn *)

\* The messages of a turn are of its conversation.
LEMMA TurnInHand ==
    ASSUME IInv, NEW d \in Connections
    PROVE  /\ turn[d].question # None =>
                 turn[d].conv \in Conversations /\ turn[d].question \in Message
           /\ turn[d].answer # None =>
                 turn[d].conv \in Conversations /\ turn[d].answer \in Message
  <1>1. turn[d] \in TurnRecord /\ TurnOK(d)
    BY DEF IInv, TypeOK
  <1>2. /\ turn[d].question \in Message \cup {None}
        /\ turn[d].answer \in Message \cup {None}
    BY <1>1 DEF TurnRecord
  <1>3. turn[d].answer # None => turn[d].question # None
    BY <1>1 DEF TurnOK
  <1>4. turn[d].question # None => turn[d].conv \in Conversations
    BY <1>1 DEF TurnOK, Outside, Asked
  <1> QED BY <1>2, <1>3, <1>4

\* What a step of a turn before its commit leaves in order.
LEMMA OwnStep ==
    ASSUME IInv, NEW c \in Connections,
           pc[c] \notin Outside \cup {"ending"}, pc'[c] \notin Outside \cup {"ending"},
           pc' \in [Connections -> {"closed", "idle", "received", "loaded", "mirrored",
              "agent", "streaming", "commit", "ending"}],
           turn' \in [Connections -> TurnRecord'],
           \A d \in Connections \ {c} : pc'[d] = pc[d] /\ turn'[d] = turn[d],
           turn'[c].conv = turn[c].conv, turn'[c].at = turn[c].at,
           TurnOK(c)',
           turn'[c].stored # {} => turn[c].stored # {} \/ ~RowHeld(turn[c].conv),
           UNCHANGED <<status, rows, clock, turns, cancelFlag, deletion, waiting,
                       unkept, cleared>>,
           ids' \in Nat, ids <= ids',
           history' \in [Conversations -> Seq(Message')]
    PROVE  /\ TypeOK' /\ OneTime' /\ Answered' /\ DeletionOK'
           /\ \A d \in Connections : TurnOK(d)'
  <1>1. clock' \in Nat /\ clock <= clock' /\ MessageRow \subseteq MessageRow' /\ Message \subseteq Message'
    BY TypesGrow DEF IInv, TypeOK
  <1>2. TypeOK'
    <2>1. rows' \subseteq MessageRow' /\ unkept' \subseteq Message'
      BY <1>1 DEF IInv, TypeOK
    <2>2. deletion' \in [pc : {"none", "swept", "removed", "cleared"},
                         conv : Conversations \cup {None}, swept : SUBSET MessageRow']
      BY <1>1 DEF IInv, TypeOK
    <2>3. /\ status' \in [Conversations -> {"absent", "open", "transferred"}]
          /\ cleared' \in [Conversations -> Nat] /\ turns' \in Nat
          /\ cancelFlag' \in [Connections -> BOOLEAN] /\ waiting' \in [Connections -> BOOLEAN]
      BY DEF IInv, TypeOK
    <2> QED BY <1>1, <2>1, <2>2, <2>3 DEF TypeOK
  <1>3. OneTime'
    BY DEF IInv, OneTime
  <1>4. Answered'
    BY DEF IInv, Answered
  <1>5. DeletionOK'
    BY DEF IInv, DeletionOK, RowHeld
  <1>7. \A d \in Connections : TurnOK(d)'
    BY SameTurn DEF IInv
  <1> QED BY <1>2, <1>3, <1>4, <1>5, <1>7

\* What a turn mirrors is in its list, and the list's until it is known.
LEMMA MirrorKeeps ==
    ASSUME IInv, NEW c \in Connections, pc[c] \notin Outside \cup {"ending"},
           AddMessage(turn[c].conv), pc'[c] # "ending",
           \A d \in Connections \ {c} : pc'[d] = pc[d] /\ turn'[d] = turn[d],
           turn'[c].conv = turn[c].conv,
           \/ /\ turn[c].question = None /\ turn'[c].question = ids'
              /\ turn[c].answer = None /\ turn'[c].answer = None
           \/ /\ turn[c].question # None /\ turn'[c].question = turn[c].question
              /\ turn[c].answer = None /\ turn'[c].answer = ids',
           UNCHANGED <<rows, unkept, cleared>>
    PROVE  (\A k \in Conversations : Ascending(history[k])') /\ AllKept' /\ AllKnown'
  <1>1. turn[c].conv \in Conversations
    BY DEF IInv, TurnOK
  <1>2. /\ ids' = ids + 1 /\ ids + 1 \in Message'
        /\ \A j \in Conversations : Ascending(history'[j])
        /\ \A j \in Conversations : \A id \in Message : Kept(j, id) => Kept(j, id)'
        /\ Kept(turn[c].conv, ids)'
        /\ \A j \in Conversations :
              ToSet(history'[j]) \subseteq ToSet(history[j]) \cup {ids + 1}
    BY <1>1, MirrorStep
  <1>3. ASSUME NEW d \in Connections
        PROVE  /\ turn[d].question # None =>
                     turn[d].conv \in Conversations /\ turn[d].question \in Message
               /\ turn[d].answer # None =>
                     turn[d].conv \in Conversations /\ turn[d].answer \in Message
    BY TurnInHand
  <1>4. AllKept'
    <2>1. ASSUME NEW r \in rows PROVE Kept(r.conv, r.id)'
      BY <1>2 DEF IInv, TypeOK, MessageRow, AllKept
    <2>2. ASSUME NEW d \in Connections
          PROVE  /\ turn[d].question # None => Kept(turn[d].conv, turn[d].question)'
                 /\ turn[d].answer # None => Kept(turn[d].conv, turn[d].answer)'
      BY <1>2, <1>3 DEF IInv, AllKept
    <2> QED BY <1>2, <2>1, <2>2 DEF AllKept
  <1>5. AllKnown'
    <2>1. Known' = Known /\ ids + 1 \in InFlight'
      BY <1>2 DEF Known, InFlight
    <2>2. InFlight \ {None} \subseteq InFlight'
      BY DEF InFlight
    <2>3. ASSUME NEW k \in Conversations PROVE ToSet(history'[k]) \subseteq Known' \cup InFlight'
      <3>1. None \notin ToSet(history[k])
        <4>1. history[k] \in Seq(Message) /\ None \notin Message
          BY ChatAssumption DEF IInv, TypeOK, Message
        <4> QED BY <4>1, InList, ElementOfSeq
      <3>2. ToSet(history[k]) \subseteq Known \cup InFlight
        BY DEF IInv, AllKnown
      <3> QED BY <1>2, <2>1, <2>2, <3>1, <3>2
    <2>4. \A d \in Connections :
             pc'[d] = "ending" => {turn'[d].question, turn'[d].answer} \ {None} \subseteq Known'
      BY <2>1 DEF IInv, AllKnown
    <2> QED BY <2>3, <2>4 DEF AllKnown
  <1> QED BY <1>2, <1>4, <1>5

LEMMA MirrorQuestionInv ==
    ASSUME IInv, NEW c \in Connections, MirrorQuestion(c)
    PROVE  IInv'
  <1>1. /\ pc[c] = "loaded" /\ pc' = [pc EXCEPT ![c] = "mirrored"]
        /\ AddMessage(turn[c].conv)
        /\ turn' = [turn EXCEPT ![c] = [turn[c] EXCEPT !.question = ids + 1]]
        /\ UNCHANGED <<status, rows, clock, turns, cancelFlag, deletion, waiting,
                       unkept, cleared>>
    BY DEF MirrorQuestion, db, ghosts
  <1>2. /\ turn \in [Connections -> TurnRecord] /\ clock \in Nat /\ ids \in Nat
        /\ pc \in [Connections -> {"closed", "idle", "received", "loaded", "mirrored",
              "agent", "streaming", "commit", "ending"}]
    BY DEF IInv, TypeOK
  <1>3. /\ turn[c].conv \in Conversations /\ turn[c].at \in Nat \ {0}
        /\ turn[c].question = None /\ turn[c].answer = None /\ turn[c].stored = {}
    BY <1>1 DEF IInv, TurnOK, Outside, Asked, Inserted
  <1>4. /\ ids' = ids + 1 /\ ids + 1 \in Message' /\ ids' \in Nat /\ ids <= ids'
        /\ history' \in [Conversations -> Seq(Message')]
    BY <1>1, <1>2, <1>3, MirrorStep
  <1>5. MessageRow \subseteq MessageRow' /\ TurnRecord \subseteq TurnRecord'
    BY <1>1, <1>2, <1>4, TypesGrow DEF IInv
  <1>6. /\ turn' \in [Connections -> TurnRecord']
        /\ turn'[c].question = ids' /\ turn'[c].answer = None
        /\ turn'[c].conv = turn[c].conv /\ turn'[c].at = turn[c].at
        /\ turn'[c].stored = {}
        /\ \A d \in Connections \ {c} : turn'[d] = turn[d]
    <2>1. turn \in [Connections -> TurnRecord'] /\ turn[c] \in TurnRecord'
      BY <1>2, <1>5
    <2>2. [turn[c] EXCEPT !.question = ids + 1] \in TurnRecord'
      BY <1>4, <2>1 DEF TurnRecord
    <2> QED BY <1>1, <1>3, <1>4, <2>1, <2>2 DEF TurnRecord
  <1>7. /\ pc'[c] = "mirrored" /\ \A d \in Connections \ {c} : pc'[d] = pc[d]
        /\ pc' \in [Connections -> {"closed", "idle", "received", "loaded", "mirrored",
              "agent", "streaming", "commit", "ending"}]
    BY <1>1, <1>2
  <1>8. None \notin Nat
    BY ChatAssumption
  <1>9. TurnOK(c)'
    <2>1. Inserted(c)' = {}
      BY <1>7 DEF Inserted
    <2> QED BY <1>3, <1>4, <1>6, <1>7, <1>8, <2>1 DEF TurnOK, Outside, Asked
  <1>10. /\ TypeOK' /\ OneTime' /\ Answered' /\ DeletionOK'
         /\ \A d \in Connections : TurnOK(d)'
    <2>1. pc[c] \notin Outside \cup {"ending"} /\ pc'[c] \notin Outside \cup {"ending"}
      BY <1>1, <1>7 DEF Outside
    <2> QED BY <1>1, <1>4, <1>6, <1>7, <1>9, <2>1, OwnStep
  <1>11. (\A k \in Conversations : Ascending(history[k])') /\ AllKept' /\ AllKnown'
    <2>1. pc[c] \notin Outside \cup {"ending"} /\ pc'[c] # "ending"
      BY <1>1, <1>7 DEF Outside
    <2> QED BY <1>1, <1>3, <1>6, <1>7, <2>1, MirrorKeeps
  <1> QED BY <1>10, <1>11 DEF IInv

\* The question's row, or the agent's decision: nothing is mirrored.
LEMMA UnmirroredKeeps ==
    ASSUME IInv, NEW c \in Connections, pc[c] # "ending", pc'[c] # "ending",
           \A d \in Connections \ {c} : pc'[d] = pc[d] /\ turn'[d] = turn[d],
           turn'[c].conv = turn[c].conv, turn'[c].question = turn[c].question,
           turn'[c].answer = turn[c].answer,
           UNCHANGED <<rows, history, ids, unkept, cleared>>
    PROVE  (\A k \in Conversations : Ascending(history[k])') /\ AllKept' /\ AllKnown'
  <1>1. \A d \in Connections : /\ turn'[d].conv = turn[d].conv
                               /\ turn'[d].question = turn[d].question
                               /\ turn'[d].answer = turn[d].answer
    OBVIOUS
  <1>2. \A k \in Conversations : Ascending(history[k])'
    BY DEF IInv
  <1>3. AllKept'
    BY <1>1 DEF IInv, AllKept, Kept
  <1>4. AllKnown'
    <2>1. Known' = Known /\ InFlight \subseteq InFlight'
      BY <1>1 DEF Known, InFlight
    <2>2. \A d \in Connections : pc'[d] = "ending" => pc[d] = "ending"
      OBVIOUS
    <2> QED BY <1>1, <2>1, <2>2 DEF IInv, AllKnown
  <1> QED BY <1>2, <1>3, <1>4

LEMMA InsertQuestionInv ==
    ASSUME IInv, NEW c \in Connections, InsertQuestion(c)
    PROVE  IInv'
  <1> DEFINE row == Row(turn[c].conv, turn[c].question, "user", turn[c].at, None)
  <1>1. /\ pc[c] = "mirrored" /\ ~RowHeld(turn[c].conv)
        /\ pc' = [pc EXCEPT ![c] = IF turn[c].gated THEN "commit" ELSE "agent"]
        /\ turn' = [turn EXCEPT ![c] = [turn[c] EXCEPT !.stored = {row}]]
        /\ UNCHANGED <<status, rows, clock, turns, history, cancelFlag, deletion, ids,
                       waiting, unkept, cleared>>
    BY DEF InsertQuestion, CreatedAt, db, ghosts
  <1>2. /\ turn \in [Connections -> TurnRecord] /\ turn[c] \in TurnRecord
        /\ clock \in Nat /\ ids \in Nat /\ history \in [Conversations -> Seq(Message)]
        /\ pc \in [Connections -> {"closed", "idle", "received", "loaded", "mirrored",
              "agent", "streaming", "commit", "ending"}]
    BY DEF IInv, TypeOK
  <1>3. /\ turn[c].conv \in Conversations /\ turn[c].at \in Nat \ {0}
        /\ turn[c].question # None /\ turn[c].answer = None
    BY <1>1 DEF IInv, TurnOK, Outside, Asked
  <1>4. row \in MessageRow
    <2>1. turn[c].question \in Message /\ turn[c].at \in 1..clock
      BY <1>2, <1>3 DEF TurnRecord
    <2> QED BY <1>3, <2>1 DEF Row, MessageRow
  <1>5. Message' = Message /\ MessageRow' = MessageRow /\ TurnRecord' = TurnRecord
    BY <1>1 DEF Message, MessageRow, TurnRecord
  <1>6. /\ turn' \in [Connections -> TurnRecord']
        /\ turn'[c].conv = turn[c].conv /\ turn'[c].at = turn[c].at
        /\ turn'[c].question = turn[c].question /\ turn'[c].answer = None
        /\ turn'[c].stored = {row}
        /\ \A d \in Connections \ {c} : turn'[d] = turn[d]
    <2> HIDE DEF row
    <2>1. [turn[c] EXCEPT !.stored = {row}] \in TurnRecord
      BY <1>2, <1>4 DEF TurnRecord
    <2> QED BY <1>1, <1>2, <1>3, <1>5, <2>1 DEF TurnRecord
  <1>7. /\ pc'[c] \in {"commit", "agent"} /\ \A d \in Connections \ {c} : pc'[d] = pc[d]
        /\ pc' \in [Connections -> {"closed", "idle", "received", "loaded", "mirrored",
              "agent", "streaming", "commit", "ending"}]
    BY <1>1, <1>2
  <1>8. TurnOK(c)'
    <2>1. Inserted(c)' = {row}
      BY <1>6, <1>7 DEF Inserted, Row
    <2> HIDE DEF row
    <2> QED BY <1>3, <1>6, <1>7, <2>1 DEF TurnOK, Outside, Asked
  <1>9. pc[c] \notin Outside \cup {"ending"} /\ pc'[c] \notin Outside \cup {"ending"}
    BY <1>1, <1>7 DEF Outside
  <1>10. /\ TypeOK' /\ OneTime' /\ Answered' /\ DeletionOK'
         /\ \A d \in Connections : TurnOK(d)'
    <2>1. ids' \in Nat /\ ids <= ids' /\ history' \in [Conversations -> Seq(Message')]
      BY <1>1, <1>2, <1>5
    <2> QED BY <1>1, <1>6, <1>7, <1>8, <1>9, <2>1, OwnStep
  <1>11. (\A k \in Conversations : Ascending(history[k])') /\ AllKept' /\ AllKnown'
    BY <1>1, <1>3, <1>6, <1>7, <1>9, UnmirroredKeeps
  <1> QED BY <1>10, <1>11 DEF IInv

LEMMA AgentInv ==
    ASSUME IInv, NEW c \in Connections, NEW handsOver \in BOOLEAN, Agent(c, handsOver)
    PROVE  IInv'
  <1> DEFINE sets == IF handsOver THEN "transferred" ELSE turn[c].sets
  <1>1. /\ pc[c] = "agent" /\ pc' = [pc EXCEPT ![c] = "streaming"]
        /\ turn' = [turn EXCEPT ![c] = [turn[c] EXCEPT !.sets = sets]]
        /\ UNCHANGED <<status, rows, clock, turns, history, cancelFlag, deletion, ids,
                       waiting, unkept, cleared>>
    BY DEF Agent, db, ghosts
  <1>2. /\ turn \in [Connections -> TurnRecord] /\ turn[c] \in TurnRecord
        /\ clock \in Nat /\ ids \in Nat /\ history \in [Conversations -> Seq(Message)]
        /\ pc \in [Connections -> {"closed", "idle", "received", "loaded", "mirrored",
              "agent", "streaming", "commit", "ending"}]
    BY DEF IInv, TypeOK
  <1>3. TurnOK(c) /\ turn[c].question # None /\ turn[c].answer = None
    BY <1>1 DEF IInv, TurnOK, Outside, Asked
  <1>5. Message' = Message /\ MessageRow' = MessageRow /\ TurnRecord' = TurnRecord
    BY <1>1 DEF Message, MessageRow, TurnRecord
  <1>6. /\ turn' \in [Connections -> TurnRecord']
        /\ turn'[c].conv = turn[c].conv /\ turn'[c].at = turn[c].at
        /\ turn'[c].question = turn[c].question /\ turn'[c].answer = turn[c].answer
        /\ turn'[c].stored = turn[c].stored
        /\ \A d \in Connections \ {c} : turn'[d] = turn[d]
    <2>1. sets \in {None, "open", "transferred"}
      BY <1>2 DEF TurnRecord
    <2> HIDE DEF sets
    <2>2. [turn[c] EXCEPT !.sets = sets] \in TurnRecord
      BY <1>2, <2>1 DEF TurnRecord
    <2> QED BY <1>1, <1>2, <1>5, <2>2 DEF TurnRecord
  <1>7. /\ pc'[c] = "streaming" /\ \A d \in Connections \ {c} : pc'[d] = pc[d]
        /\ pc' \in [Connections -> {"closed", "idle", "received", "loaded", "mirrored",
              "agent", "streaming", "commit", "ending"}]
    BY <1>1, <1>2
  <1>8. TurnOK(c)'
    <2>1. Inserted(c)' = Inserted(c)
      BY <1>1, <1>6, <1>7 DEF Inserted, Row
    <2> QED BY <1>1, <1>3, <1>6, <1>7, <2>1 DEF TurnOK, Outside, Asked
  <1>9. pc[c] \notin Outside \cup {"ending"} /\ pc'[c] \notin Outside \cup {"ending"}
    BY <1>1, <1>7 DEF Outside
  <1>10. /\ TypeOK' /\ OneTime' /\ Answered' /\ DeletionOK'
         /\ \A d \in Connections : TurnOK(d)'
    <2>1. ids' \in Nat /\ ids <= ids' /\ history' \in [Conversations -> Seq(Message')]
      BY <1>1, <1>2, <1>5
    <2> QED BY <1>1, <1>6, <1>7, <1>8, <1>9, <2>1, OwnStep
  <1>11. (\A k \in Conversations : Ascending(history[k])') /\ AllKept' /\ AllKnown'
    BY <1>1, <1>6, <1>7, <1>9, UnmirroredKeeps
  <1> QED BY <1>10, <1>11 DEF IInv

LEMMA StoreAnswerInv ==
    ASSUME IInv, NEW c \in Connections, StoreAnswer(c)
    PROVE  IInv'
  <1> DEFINE row == Row(turn[c].conv, ids + 1, "assistant", turn[c].at, turn[c].question)
             asked == Row(turn[c].conv, turn[c].question, "user", turn[c].at, None)
  <1>1. /\ pc[c] = "streaming" /\ pc' = [pc EXCEPT ![c] = "commit"]
        /\ AddMessage(turn[c].conv)
        /\ turn' = [turn EXCEPT ![c] = [turn[c] EXCEPT !.answer = ids + 1,
                                           !.stored = turn[c].stored \cup {row}]]
        /\ UNCHANGED <<status, rows, clock, turns, cancelFlag, deletion, waiting,
                       unkept, cleared>>
    BY DEF StoreAnswer, CreatedAt, db, ghosts
  <1>2. /\ turn \in [Connections -> TurnRecord] /\ turn[c] \in TurnRecord
        /\ clock \in Nat /\ ids \in Nat
        /\ pc \in [Connections -> {"closed", "idle", "received", "loaded", "mirrored",
              "agent", "streaming", "commit", "ending"}]
    BY DEF IInv, TypeOK
  <1>3. /\ turn[c].conv \in Conversations /\ turn[c].at \in Nat \ {0}
        /\ turn[c].question # None /\ turn[c].answer = None
        /\ turn[c].stored = {asked}
    BY <1>1 DEF IInv, TurnOK, Outside, Asked, Inserted, Row
  <1>4. /\ ids' = ids + 1 /\ ids + 1 \in Message' /\ ids' \in Nat /\ ids <= ids'
        /\ history' \in [Conversations -> Seq(Message')]
    BY <1>1, <1>2, <1>3, MirrorStep
  <1>5. /\ Message \subseteq Message'
        /\ MessageRow \subseteq MessageRow' /\ TurnRecord \subseteq TurnRecord'
    BY <1>1, <1>2, <1>4, TypesGrow DEF IInv
  <1>6. turn[c].question \in Message /\ turn[c].at \in 1..clock /\ turn[c].question < ids + 1
    <2>1. turn[c].question \in Message /\ turn[c].at \in 1..clock
      BY <1>2, <1>3 DEF TurnRecord
    <2> QED BY <1>2, <2>1 DEF Message
  <1>7. row \in MessageRow'
    BY <1>1, <1>3, <1>4, <1>5, <1>6 DEF Row, MessageRow
  <1>8. /\ turn' \in [Connections -> TurnRecord']
        /\ turn'[c].conv = turn[c].conv /\ turn'[c].at = turn[c].at
        /\ turn'[c].question = turn[c].question /\ turn'[c].answer = ids'
        /\ turn'[c].stored = {asked, row}
        /\ \A d \in Connections \ {c} : turn'[d] = turn[d]
    <2>0. turn \in [Connections -> TurnRecord'] /\ turn[c] \in TurnRecord'
      BY <1>2, <1>5
    <2> HIDE DEF row, asked
    <2>1. turn[c].stored \cup {row} \in SUBSET MessageRow'
      BY <1>7, <2>0 DEF TurnRecord
    <2>2. [turn[c] EXCEPT !.answer = ids + 1, !.stored = turn[c].stored \cup {row}] \in TurnRecord'
      BY <1>4, <2>0, <2>1 DEF TurnRecord
    <2>3. turn[c].stored \cup {row} = {asked, row}
      BY <1>3
    <2> QED BY <1>1, <1>4, <2>0, <2>2, <2>3 DEF TurnRecord
  <1>9. /\ pc'[c] = "commit" /\ \A d \in Connections \ {c} : pc'[d] = pc[d]
        /\ pc' \in [Connections -> {"closed", "idle", "received", "loaded", "mirrored",
              "agent", "streaming", "commit", "ending"}]
    BY <1>1, <1>2
  <1>10. None \notin Nat
    BY ChatAssumption
  <1>11. TurnOK(c)'
    <2>1. turn'[c].answer # None
      BY <1>4, <1>8, <1>10
    <2>2. Inserted(c)' = {asked, row}
      BY <1>4, <1>8, <1>9, <2>1 DEF Inserted, Row
    <2> HIDE DEF row, asked
    <2> QED BY <1>3, <1>4, <1>6, <1>8, <1>9, <2>1, <2>2 DEF TurnOK, Outside, Asked
  <1>12. pc[c] \notin Outside \cup {"ending"} /\ pc'[c] \notin Outside \cup {"ending"}
    BY <1>1, <1>9 DEF Outside
  <1>13. /\ TypeOK' /\ OneTime' /\ Answered' /\ DeletionOK'
         /\ \A d \in Connections : TurnOK(d)'
    <2>1. turn[c].stored # {}
      BY <1>3
    <2> QED BY <1>1, <1>4, <1>8, <1>9, <1>11, <1>12, <2>1, OwnStep
  <1>14. (\A k \in Conversations : Ascending(history[k])') /\ AllKept' /\ AllKnown'
    BY <1>1, <1>3, <1>8, <1>9, <1>12, MirrorKeeps
  <1> QED BY <1>13, <1>14 DEF IInv

\* The rows of a turn join the others: their time is the turn's own, an answer comes
\* with its question, and what the turn mirrored is known.
LEMMA CommitInv ==
    ASSUME IInv, NEW c \in Connections, Commit(c)
    PROVE  IInv'
  <1> DEFINE mine == turn[c]
             asked == Row(mine.conv, mine.question, "user", mine.at, None)
             row == Row(mine.conv, mine.answer, "assistant", mine.at, mine.question)
  <1>1. /\ pc[c] = "commit" /\ pc' = [pc EXCEPT ![c] = "ending"]
        /\ status' = [status EXCEPT ![mine.conv] = IF mine.sets = None THEN @ ELSE mine.sets]
        /\ rows' = rows \cup mine.stored
        /\ turn' = [turn EXCEPT ![c] = [turn[c] EXCEPT !.stored = {}, !.sets = None]]
        /\ UNCHANGED <<clock, turns, history, cancelFlag, deletion, ids, waiting, unkept, cleared>>
    BY DEF Commit, ghosts
  <1>2. /\ turn \in [Connections -> TurnRecord] /\ turn[c] \in TurnRecord
        /\ clock \in Nat /\ ids \in Nat
        /\ pc \in [Connections -> {"closed", "idle", "received", "loaded", "mirrored",
              "agent", "streaming", "commit", "ending"}]
    BY DEF IInv, TypeOK
  <1>3. /\ mine.conv \in Conversations /\ mine.at \in Nat \ {0}
        /\ mine.question # None
        /\ mine.answer # None => mine.question < mine.answer
        /\ mine.stored = IF mine.answer = None THEN {asked} ELSE {asked, row}
    BY <1>1 DEF IInv, TurnOK, Outside, Asked, Inserted
  <1>4. Message' = Message /\ MessageRow' = MessageRow /\ TurnRecord' = TurnRecord
    BY <1>1 DEF Message, MessageRow, TurnRecord
  <1>5. /\ turn' \in [Connections -> TurnRecord']
        /\ turn'[c].conv = mine.conv /\ turn'[c].at = mine.at
        /\ turn'[c].question = mine.question /\ turn'[c].answer = mine.answer
        /\ turn'[c].stored = {} /\ turn'[c].sets = None
        /\ \A d \in Connections \ {c} : turn'[d] = turn[d]
    <2>1. [turn[c] EXCEPT !.stored = {}, !.sets = None] \in TurnRecord
      BY <1>2 DEF TurnRecord
    <2> QED BY <1>1, <1>2, <1>4, <2>1 DEF TurnRecord
  <1>6. /\ pc'[c] = "ending" /\ \A d \in Connections \ {c} : pc'[d] = pc[d]
        /\ pc' \in [Connections -> {"closed", "idle", "received", "loaded", "mirrored",
              "agent", "streaming", "commit", "ending"}]
    BY <1>1, <1>2
  <1>7. TypeOK'
    <2>1. status' \in [Conversations -> {"absent", "open", "transferred"}]
      <3>1. mine.sets \in {None, "open", "transferred"}
        BY <1>2 DEF TurnRecord
      <3> HIDE DEF mine
      <3> QED BY <1>1, <3>1 DEF IInv, TypeOK
    <2>2. rows' \subseteq MessageRow'
      <3>1. mine.stored \subseteq MessageRow
        BY <1>2 DEF TurnRecord
      <3> QED BY <1>1, <1>4, <3>1 DEF IInv, TypeOK
    <2>3. deletion' \in [pc : {"none", "swept", "removed", "cleared"},
                         conv : Conversations \cup {None}, swept : SUBSET MessageRow']
      BY <1>1, <1>4 DEF IInv, TypeOK
    <2>4. /\ clock' \in Nat /\ turns' \in Nat /\ ids' \in Nat
          /\ history' \in [Conversations -> Seq(Message')]
          /\ unkept' \subseteq Message' /\ cleared' \in [Conversations -> Nat]
          /\ cancelFlag' \in [Connections -> BOOLEAN] /\ waiting' \in [Connections -> BOOLEAN]
      BY <1>1, <1>4 DEF IInv, TypeOK
    <2> QED BY <1>5, <1>6, <2>1, <2>2, <2>3, <2>4 DEF TypeOK
  <1>8. /\ asked.conv = mine.conv /\ asked.id = mine.question /\ asked.role = "user"
        /\ asked.at = mine.at
        /\ row.conv = mine.conv /\ row.id = mine.answer /\ row.role = "assistant"
        /\ row.at = mine.at /\ row.re = mine.question
    BY DEF Row
  <1> HIDE DEF asked, row
  <1>9. ASSUME NEW d \in Connections PROVE TurnOK(d)'
    <2>1. CASE d = c
      <3>1. Inserted(c)' = {}
        BY <1>6 DEF Inserted
      <3> QED BY <1>3, <1>5, <1>6, <2>1, <3>1 DEF TurnOK, Outside, Asked
    <2>2. CASE d # c
      BY <1>5, <1>6, <2>2, SameTurn DEF IInv
    <2> QED BY <2>1, <2>2
  <1>10. OneTime'
    <2>1. /\ \A r \in rows : r.at # mine.at
          /\ \A d \in Connections \ {c} : pc[d] \notin Outside => turn[d].at # mine.at
      BY <1>1 DEF IInv, OneTime, Outside
    <2>2. \A r \in mine.stored : r.at = mine.at /\ (r.role = "user" => r = asked)
      BY <1>3, <1>8
    <2>3. \A d, e \in Connections :
             d # e /\ pc'[d] \notin Outside /\ pc'[e] \notin Outside => turn'[d].at # turn'[e].at
      <3>1. \A d \in Connections : turn'[d].at = turn[d].at
        BY <1>5
      <3>2. \A d \in Connections : pc'[d] \notin Outside => pc[d] \notin Outside
        BY <1>1, <1>6 DEF Outside
      <3> QED BY <3>1, <3>2 DEF IInv, OneTime
    <2>4. \A d \in Connections : \A r \in rows' :
             pc'[d] \notin Outside \cup {"ending"} => r.at # turn'[d].at
      <3> SUFFICES ASSUME NEW d \in Connections, NEW r \in rows',
                          pc'[d] \notin Outside \cup {"ending"}
                   PROVE  r.at # turn'[d].at
        OBVIOUS
      <3>1. d # c /\ turn'[d] = turn[d] /\ pc[d] \notin Outside \cup {"ending"}
        BY <1>5, <1>6
      <3>2. CASE r \in rows
        BY <3>1, <3>2 DEF IInv, OneTime
      <3>3. CASE r \in mine.stored
        BY <2>1, <2>2, <3>1, <3>3
      <3> QED BY <1>1, <3>2, <3>3
    <2>5. \A r, s \in rows' : r.role = "user" /\ s.role = "user" /\ r.at = s.at => r = s
      <3> SUFFICES ASSUME NEW r \in rows', NEW s \in rows',
                          r.role = "user", s.role = "user", r.at = s.at
                   PROVE  r = s
        OBVIOUS
      <3>1. CASE r \in rows /\ s \in rows
        BY <3>1 DEF IInv, OneTime
      <3>2. CASE r \in rows /\ s \in mine.stored
        BY <2>1, <2>2, <3>2
      <3>3. CASE r \in mine.stored /\ s \in rows
        BY <2>1, <2>2, <3>3
      <3>4. CASE r \in mine.stored /\ s \in mine.stored
        BY <2>2, <3>4
      <3> QED BY <1>1, <3>1, <3>2, <3>3, <3>4
    <2> QED BY <2>3, <2>4, <2>5 DEF OneTime
  <1>11. Answered'
    <2> SUFFICES ASSUME NEW a \in rows', a.role = "assistant"
                 PROVE  \E q \in rows' : Paired(a, q)
      BY DEF Answered, Paired
    <2>1. CASE a \in rows
      BY <1>1, <2>1 DEF IInv, Answered
    <2>2. CASE a \in mine.stored
      <3>1. a = row /\ asked \in rows' /\ mine.answer # None
        BY <1>1, <1>3, <1>8, <2>2
      <3>2. mine.question # mine.answer
        BY <1>2, <1>3, <3>1 DEF TurnRecord, Message
      <3> QED BY <1>8, <3>1, <3>2 DEF Paired
    <2> QED BY <1>1, <2>1, <2>2
  <1>12. DeletionOK'
    <2>1. mine.stored # {} /\ \A r \in mine.stored : r.conv = mine.conv
      BY <1>3, <1>8
    <2>2. deletion.pc \in {"removed", "cleared"} => mine.conv # deletion.conv
      BY <2>1 DEF IInv, DeletionOK
    <2> QED BY <1>1, <1>5, <2>1, <2>2 DEF IInv, DeletionOK
  <1>13. (\A k \in Conversations : Ascending(history[k])')
    BY <1>1 DEF IInv
  <1>14. AllKept'
    <2>1. \A k \in Conversations, id \in Message : Kept(k, id)' <=> Kept(k, id)
      BY <1>1 DEF Kept
    <2>2. \A r \in rows' : Kept(r.conv, r.id)
      BY <1>1, <1>3, <1>8 DEF IInv, AllKept
    <2>3. \A r \in rows' : Kept(r.conv, r.id)'
      BY <1>4, <1>7, <2>1, <2>2 DEF TypeOK, MessageRow
    <2>4. \A d \in Connections :
             /\ turn'[d].conv = turn[d].conv
             /\ turn'[d].question = turn[d].question /\ turn'[d].answer = turn[d].answer
      BY <1>5
    <2> QED BY <1>1, <2>3, <2>4 DEF IInv, AllKept, Kept
  <1>15. AllKnown'
    <2>1. \A d \in Connections :
             turn'[d].question = turn[d].question /\ turn'[d].answer = turn[d].answer
      BY <1>5
    <2>2. InFlight' = InFlight /\ Known \subseteq Known'
      BY <1>1, <2>1 DEF InFlight, Known
    <2>3. {mine.question, mine.answer} \ {None} \subseteq Known'
      BY <1>1, <1>3, <1>8 DEF Known
    <2> QED BY <1>1, <1>5, <1>6, <2>1, <2>2, <2>3 DEF IInv, AllKnown
  <1> QED BY <1>7, <1>9, <1>10, <1>11, <1>12, <1>13, <1>14, <1>15 DEF IInv

-----------------------------------------------------------------------------
(* Chat: the other requests *)

\* A step that only moves the status or the deletion on.
LEMMA DeletionStep ==
    ASSUME IInv,
           UNCHANGED <<rows, clock, turns, history, cancelFlag, pc, turn, ids, waiting,
                       unkept, cleared>>,
           status' \in [Conversations -> {"absent", "open", "transferred"}],
           deletion' \in [pc : {"none", "swept", "removed", "cleared"},
                          conv : Conversations \cup {None}, swept : SUBSET MessageRow],
           DeletionOK'
    PROVE  IInv'
  <1>1. TypeOK'
    BY DEF IInv, TypeOK, Message, MessageRow, TurnRecord
  <1>2. \A c \in Connections : TurnOK(c)'
    BY SameTurn DEF IInv
  <1>3. OneTime' /\ Answered'
    BY DEF IInv, OneTime, Answered
  <1>4. (\A k \in Conversations : Ascending(history[k])') /\ AllKept'
    BY DEF IInv, AllKept, Kept
  <1>5. AllKnown'
    BY DEF IInv, AllKnown, Known, InFlight
  <1> QED BY <1>1, <1>2, <1>3, <1>4, <1>5 DEF IInv

\* A conversation is created or handed back; a deletion begins, fails, or removes the
\* row once no turn uses it and no message but those it found is left.
LEMMA RequestInv ==
    ASSUME IInv,
           \/ \E k \in Conversations : Create(k) \/ HandBack(k) \/ StartDelete(k)
           \/ RemoveRow \/ DeleteFails
    PROVE  IInv'
  <1>1. /\ status \in [Conversations -> {"absent", "open", "transferred"}]
        /\ deletion \in [pc : {"none", "swept", "removed", "cleared"},
                         conv : Conversations \cup {None}, swept : SUBSET MessageRow]
        /\ rows \subseteq MessageRow /\ DeletionOK
    BY DEF IInv, TypeOK
  <1>2. CASE \E k \in Conversations : Create(k) \/ HandBack(k)
    <2>1. /\ UNCHANGED <<rows, clock, turns, history, cancelFlag, pc, turn, deletion, ids,
                         waiting, unkept, cleared>>
          /\ status' \in [Conversations -> {"absent", "open", "transferred"}]
      BY <1>1, <1>2 DEF Create, HandBack, ghosts
    <2>2. DeletionOK'
      BY <1>1, <2>1 DEF DeletionOK
    <2> QED BY <1>1, <2>1, <2>2, DeletionStep
  <1>3. ASSUME NEW k \in Conversations, StartDelete(k) PROVE IInv'
    <2> DEFINE swept == {r \in rows : r.conv = k}
    <2>1. /\ deletion' = [pc |-> "swept", conv |-> k, swept |-> swept]
          /\ swept \in SUBSET MessageRow /\ \A r \in swept : r.conv = k
          /\ UNCHANGED <<status, rows, clock, turns, history, cancelFlag, pc, turn, ids,
                         waiting, unkept, cleared>>
      BY <1>1, <1>3 DEF StartDelete, db, ghosts
    <2> HIDE DEF swept
    <2>2. DeletionOK'
      BY <2>1 DEF DeletionOK
    <2>3. deletion' \in [pc : {"none", "swept", "removed", "cleared"},
                         conv : Conversations \cup {None}, swept : SUBSET MessageRow]
      BY <2>1
    <2> QED BY <1>1, <2>1, <2>2, <2>3, DeletionStep
  <1>4. ASSUME RemoveRow \/ DeleteFails PROVE IInv'
    <2>0. UNCHANGED <<status, rows, clock, turns, history, cancelFlag, pc, turn, ids,
                      waiting, unkept, cleared>>
      BY <1>4 DEF RemoveRow, DeleteFails, db, ghosts
    <2>1. CASE deletion' = NoDeletion
      <3>1. DeletionOK'
        BY <2>1 DEF DeletionOK, NoDeletion
      <3>2. deletion' \in [pc : {"none", "swept", "removed", "cleared"},
                           conv : Conversations \cup {None}, swept : SUBSET MessageRow]
        BY <2>1 DEF NoDeletion
      <3> QED BY <1>1, <2>0, <3>1, <3>2, DeletionStep
    <2>2. CASE deletion' # NoDeletion
      <3>1. /\ deletion.pc = "swept"
            /\ \A c \in Connections : ~Uses(c, deletion.conv)
            /\ \A r \in rows : r.conv = deletion.conv => r \in deletion.swept
            /\ deletion' = [deletion EXCEPT !.pc = "removed"]
        BY <1>4, <2>2 DEF RemoveRow, DeleteFails
      <3>2. /\ deletion' \in [pc : {"none", "swept", "removed", "cleared"},
                              conv : Conversations \cup {None}, swept : SUBSET MessageRow]
            /\ deletion'.pc = "removed" /\ deletion'.conv = deletion.conv
            /\ deletion'.swept = deletion.swept
        BY <1>1, <3>1
      <3>3. DeletionOK'
        BY <1>1, <2>0, <3>1, <3>2 DEF DeletionOK, Uses
      <3> QED BY <1>1, <2>0, <3>2, <3>3, DeletionStep
    <2> QED BY <2>1, <2>2
  <1> QED BY <1>2, <1>3, <1>4

\* A list is removed, by a deletion or because it expired.
LEMMA RemovalInv ==
    ASSUME IInv, ClearHistory \/ \E k \in Conversations : Expire(k)
    PROVE  IInv'
  <1>1. /\ history \in [Conversations -> Seq(Message)] /\ cleared \in [Conversations -> Nat]
        /\ ids \in Nat /\ DeletionOK
        /\ deletion \in [pc : {"none", "swept", "removed", "cleared"},
                         conv : Conversations \cup {None}, swept : SUBSET MessageRow]
    BY DEF IInv, TypeOK
  <1>2. /\ UNCHANGED <<status, rows, clock, turns, cancelFlag, pc, turn, ids, waiting, unkept>>
        /\ \/ UNCHANGED deletion
           \/ deletion.pc = "removed" /\ deletion' = [deletion EXCEPT !.pc = "cleared"]
    BY DEF ClearHistory, Expire, db
  <1>3. PICK k \in Conversations :
           history' = [history EXCEPT ![k] = << >>] /\ cleared' = [cleared EXCEPT ![k] = ids]
    <2>1. CASE ClearHistory
      <3>1. deletion.conv \in Conversations
        BY <1>1, <2>1 DEF ClearHistory, DeletionOK
      <3> QED BY <2>1, <3>1 DEF ClearHistory
    <2>2. CASE \E k \in Conversations : Expire(k)
      BY <2>2 DEF Expire
    <2> QED BY <2>1, <2>2
  <1>4. Message' = Message /\ MessageRow' = MessageRow /\ TurnRecord' = TurnRecord
    BY <1>2 DEF Message, MessageRow, TurnRecord
  <1>5. /\ history' \in [Conversations -> Seq(Message)] /\ cleared' \in [Conversations -> Nat]
        /\ history'[k] = << >> /\ cleared'[k] = ids
        /\ \A j \in Conversations \ {k} : history'[j] = history[j] /\ cleared'[j] = cleared[j]
    BY <1>1, <1>3, EmptySeq
  <1>6. /\ deletion' \in [pc : {"none", "swept", "removed", "cleared"},
                          conv : Conversations \cup {None}, swept : SUBSET MessageRow]
        /\ DeletionOK'
    <2>1. /\ deletion' \in [pc : {"none", "swept", "removed", "cleared"},
                             conv : Conversations \cup {None}, swept : SUBSET MessageRow]
          /\ deletion'.conv = deletion.conv /\ deletion'.swept = deletion.swept
          /\ \/ UNCHANGED deletion
             \/ deletion.pc = "removed" /\ deletion'.pc = "cleared"
      BY <1>1, <1>2
    <2> QED BY <1>1, <1>2, <2>1 DEF DeletionOK
  <1>7. TypeOK'
    BY <1>2, <1>4, <1>5, <1>6 DEF IInv, TypeOK
  <1>8. \A c \in Connections : TurnOK(c)'
    BY <1>2, SameTurn DEF IInv
  <1>9. OneTime' /\ Answered'
    BY <1>2 DEF IInv, OneTime, Answered
  <1>10. \A j \in Conversations : Ascending(history'[j])
    <2>1. \A j \in Conversations : Ascending(history[j])
      BY DEF IInv
    <2>2. Ascending(<< >>)
      BY EmptySeq DEF Ascending
    <2> QED BY <1>5, <2>1, <2>2
  <1>11. AllKept'
    <2>1. ASSUME NEW j \in Conversations, NEW id \in Message, Kept(j, id)
          PROVE  Kept(j, id)'
      <3>1. CASE j = k
        BY <1>1, <1>5, <3>1 DEF Kept, Message
      <3>2. CASE j # k
        BY <1>5, <2>1, <3>2 DEF Kept
      <3> QED BY <3>1, <3>2
    <2>2. \A r \in rows' : Kept(r.conv, r.id)'
      BY <1>2, <2>1 DEF IInv, TypeOK, MessageRow, AllKept
    <2>3. ASSUME NEW d \in Connections
          PROVE  /\ turn[d].question # None =>
                       turn[d].conv \in Conversations /\ turn[d].question \in Message
                 /\ turn[d].answer # None =>
                       turn[d].conv \in Conversations /\ turn[d].answer \in Message
      BY TurnInHand
    <2>4. ASSUME NEW d \in Connections
          PROVE  /\ turn'[d].question # None => Kept(turn[d].conv, turn[d].question)'
                 /\ turn'[d].answer # None => Kept(turn[d].conv, turn[d].answer)'
      BY <1>2, <2>1, <2>3 DEF IInv, AllKept
    <2> QED BY <2>2, <2>4 DEF AllKept
  <1>12. AllKnown'
    <2>1. \A j \in Conversations : ToSet(history'[j]) \subseteq ToSet(history[j])
      <3>1. ToSet(<< >>) = {}
        BY DEF ToSet
      <3> QED BY <1>5, <3>1
    <2>2. Known' = Known /\ InFlight' = InFlight
      BY <1>2 DEF Known, InFlight
    <2> QED BY <1>2, <2>1, <2>2 DEF IInv, AllKnown
  <1> QED BY <1>6, <1>7, <1>8, <1>9, <1>10, <1>11, <1>12 DEF IInv

\* Staff answer: the row has a time of its own, and a deletion does not hold the
\* conversation.  A reply that is not kept stays in the list.
LEMMA StaffReplyInv ==
    ASSUME IInv, NEW k \in Conversations, NEW kept \in BOOLEAN, StaffReply(k, kept)
    PROVE  IInv'
  <1> DEFINE row == Row(k, ids + 1, "staff", clock + 1, None)
  <1>1. /\ ~RowHeld(k) /\ clock' = clock + 1 /\ AddMessage(k)
        /\ rows' = IF kept THEN rows \cup {row} ELSE rows
        /\ unkept' = IF kept THEN unkept ELSE unkept \cup {ids + 1}
        /\ UNCHANGED <<status, turns, cancelFlag, pc, turn, deletion, waiting, cleared>>
    BY DEF StaffReply
  <1>2. clock \in Nat /\ ids \in Nat
    BY DEF IInv, TypeOK
  <1>3. /\ ids' = ids + 1 /\ ids + 1 \in Message'
        /\ history' \in [Conversations -> Seq(Message')]
        /\ \A j \in Conversations : Ascending(history'[j])
        /\ \A j \in Conversations : \A id \in Message : Kept(j, id) => Kept(j, id)'
        /\ Kept(k, ids)'
        /\ \A j \in Conversations :
              ToSet(history'[j]) \subseteq ToSet(history[j]) \cup {ids + 1}
    BY <1>1, MirrorStep
  <1>4. /\ clock' \in Nat /\ ids' \in Nat /\ ids <= ids' /\ clock <= clock'
        /\ clock + 1 \in (1..clock)'
    BY <1>1, <1>2, <1>3
  <1>5. /\ Message \subseteq Message' /\ MessageRow \subseteq MessageRow'
        /\ TurnRecord \subseteq TurnRecord'
    BY <1>4, TypesGrow DEF IInv
  <1>6. /\ row \in MessageRow' /\ row.conv = k /\ row.id = ids + 1 /\ row.at = clock + 1
        /\ row.role = "staff"
    BY <1>3, <1>4 DEF Row, MessageRow
  <1> HIDE DEF row
  <1>7. rows' \subseteq rows \cup {row} /\ rows \subseteq rows'
    BY <1>1
  <1>8. TypeOK'
    <2>1. rows' \subseteq MessageRow'
      BY <1>5, <1>6, <1>7 DEF IInv, TypeOK
    <2>2. unkept' \subseteq Message'
      BY <1>1, <1>3, <1>5 DEF IInv, TypeOK
    <2>3. deletion' \in [pc : {"none", "swept", "removed", "cleared"},
                         conv : Conversations \cup {None}, swept : SUBSET MessageRow']
      BY <1>1, <1>5 DEF IInv, TypeOK
    <2>4. turn' \in [Connections -> TurnRecord']
      BY <1>1, <1>5 DEF IInv, TypeOK
    <2>5. /\ status' \in [Conversations -> {"absent", "open", "transferred"}]
          /\ cleared' \in [Conversations -> Nat] /\ turns' \in Nat
          /\ cancelFlag' \in [Connections -> BOOLEAN] /\ waiting' \in [Connections -> BOOLEAN]
          /\ pc' \in [Connections -> {"closed", "idle", "received", "loaded", "mirrored",
               "agent", "streaming", "commit", "ending"}]
      BY <1>1 DEF IInv, TypeOK
    <2> QED BY <1>3, <1>4, <2>1, <2>2, <2>3, <2>4, <2>5 DEF TypeOK
  <1>9. \A c \in Connections : TurnOK(c)'
    BY <1>1, SameTurn DEF IInv
  <1>10. OneTime'
    <2>1. /\ \A r \in rows : r.at # clock + 1
          /\ \A c \in Connections : turn[c].at # clock + 1
      <3>1. /\ \A r \in rows : r.at \in 1..clock
            /\ \A c \in Connections : turn[c].at \in 0..clock
        BY DEF IInv, TypeOK, MessageRow, TurnRecord
      <3> QED BY <1>2, <3>1
    <2> QED BY <1>1, <1>6, <1>7, <2>1 DEF IInv, OneTime
  <1>11. Answered'
    BY <1>6, <1>7 DEF IInv, Answered, Paired
  <1>12. DeletionOK'
    BY <1>1, <1>6, <1>7 DEF IInv, DeletionOK, RowHeld
  <1>13. AllKept'
    <2>1. \A r \in rows : Kept(r.conv, r.id)'
      BY <1>3 DEF IInv, TypeOK, MessageRow, AllKept
    <2>3. ASSUME NEW r \in rows' PROVE Kept(r.conv, r.id)'
      <3>1. CASE r \in rows
        BY <2>1, <3>1
      <3>2. CASE r = row
        BY <1>3, <1>6, <3>2 DEF Kept
      <3> QED BY <1>7, <3>1, <3>2
    <2>4. ASSUME NEW d \in Connections
          PROVE  /\ turn[d].question # None =>
                       turn[d].conv \in Conversations /\ turn[d].question \in Message
                 /\ turn[d].answer # None =>
                       turn[d].conv \in Conversations /\ turn[d].answer \in Message
      BY TurnInHand
    <2>5. ASSUME NEW d \in Connections
          PROVE  /\ turn'[d].question # None => Kept(turn[d].conv, turn[d].question)'
                 /\ turn'[d].answer # None => Kept(turn[d].conv, turn[d].answer)'
      BY <1>1, <1>3, <2>4 DEF IInv, AllKept
    <2> QED BY <2>3, <2>5 DEF AllKept
  <1>14. AllKnown'
    <2>1. Known \subseteq Known' /\ ids + 1 \in Known' /\ InFlight' = InFlight
      BY <1>1, <1>6 DEF Known, InFlight
    <2> QED BY <1>1, <1>3, <2>1 DEF IInv, AllKnown
  <1> QED BY <1>3, <1>8, <1>9, <1>10, <1>11, <1>12, <1>13, <1>14 DEF IInv

\* The messages of the conversation go together, so no answer loses its question.
LEMMA CommitDeleteInv ==
    ASSUME IInv, CommitDelete
    PROVE  IInv'
  <1> DEFINE swept == deletion.swept
  <1>1. /\ deletion.pc = "cleared" /\ deletion' = NoDeletion
        /\ status' = [status EXCEPT ![deletion.conv] = "absent"]
        /\ rows' = rows \ swept
        /\ unkept' = unkept \cup {r.id : r \in swept}
        /\ UNCHANGED <<clock, turns, history, cancelFlag, pc, turn, ids, waiting, cleared>>
    BY DEF CommitDelete
  <1>2. /\ swept \subseteq MessageRow
        /\ \A r \in swept : r.conv = deletion.conv
        /\ \A r \in rows : r.conv = deletion.conv => r \in swept
    BY <1>1 DEF IInv, TypeOK, DeletionOK
  <1> HIDE DEF swept
  <1>3. Message' = Message /\ MessageRow' = MessageRow /\ TurnRecord' = TurnRecord
    BY <1>1 DEF Message, MessageRow, TurnRecord
  <1>4. TypeOK'
    <2>1. unkept' \subseteq Message'
      BY <1>1, <1>2, <1>3 DEF IInv, TypeOK, MessageRow
    <2>2. deletion' \in [pc : {"none", "swept", "removed", "cleared"},
                         conv : Conversations \cup {None}, swept : SUBSET MessageRow']
      BY <1>1 DEF NoDeletion
    <2>3. status' \in [Conversations -> {"absent", "open", "transferred"}]
      BY <1>1 DEF IInv, TypeOK
    <2> QED BY <1>1, <1>3, <2>1, <2>2, <2>3 DEF IInv, TypeOK
  <1>5. \A c \in Connections : TurnOK(c)'
    BY <1>1, SameTurn DEF IInv
  <1>6. OneTime' /\ \A k \in Conversations : Ascending(history[k])'
    BY <1>1 DEF IInv, OneTime
  <1>7. Answered'
    <2> SUFFICES ASSUME NEW a \in rows', a.role = "assistant"
                 PROVE  \E q \in rows' : Paired(a, q)
      BY DEF Answered, Paired
    <2>1. PICK q \in rows : Paired(a, q)
      BY <1>1 DEF IInv, Answered
    <2>2. q \notin swept
      BY <1>1, <1>2, <2>1 DEF Paired
    <2> QED BY <1>1, <2>1, <2>2
  <1>8. DeletionOK'
    BY <1>1 DEF DeletionOK, NoDeletion
  <1>9. AllKept'
    BY <1>1 DEF IInv, AllKept, Kept
  <1>10. AllKnown'
    <2>1. Known \subseteq Known' /\ InFlight' = InFlight
      BY <1>1 DEF Known, InFlight
    <2> QED BY <1>1, <2>1 DEF IInv, AllKnown
  <1> QED BY <1>4, <1>5, <1>6, <1>7, <1>8, <1>9, <1>10 DEF IInv

-----------------------------------------------------------------------------
(* Chat: the theorems *)

LEMMA StutterInv == IInv /\ UNCHANGED vars => IInv'
  <1> SUFFICES ASSUME IInv, UNCHANGED vars PROVE IInv'
    OBVIOUS
  <1>1. UNCHANGED <<status, rows, clock, turns, history, cancelFlag, pc, turn, deletion, ids,
                    waiting, unkept, cleared>>
    BY DEF vars, db, ghosts
  <1>2. DeletionOK'
    BY <1>1 DEF IInv, DeletionOK
  <1> QED BY <1>1, <1>2, DeletionStep DEF IInv, TypeOK

\* Every step of the chat keeps the invariant.
THEOREM ChatInductive == Spec => []IInv
  <1>1. IInv /\ [Next]_vars => IInv'
    <2> SUFFICES ASSUME IInv, Next PROVE IInv'
      BY StutterInv
    <2>1. ASSUME NEW c \in Connections,
                 Authenticate(c) \/ ReceiveMessage(c) \/ ReceiveCancel(c)
          PROVE  IInv'
      BY <2>1, ReceiveInv
    <2>2. ASSUME NEW c \in Connections, TurnStep(c) \/ Break(c) PROVE IInv'
      <3>1. CASE Refuse(c) \/ End(c)
        BY <3>1, FinishInv
      <3>2. CASE \E k \in Conversations \cup Foreign \cup {None} : Load(c, k)
        BY <3>2, LoadInv, RejectInv
      <3>3. CASE MirrorQuestion(c) \/ InsertQuestion(c)
        BY <3>3, MirrorQuestionInv, InsertQuestionInv
      <3>4. CASE \E handsOver \in BOOLEAN : Agent(c, handsOver)
        BY <3>4, AgentInv
      <3>5. CASE StoreAnswer(c) \/ Commit(c)
        BY <3>5, StoreAnswerInv, CommitInv
      <3>6. CASE Break(c) \/ Orphaned(c)
        BY <3>6, BreakInv
      <3> QED BY <2>2, <3>1, <3>2, <3>3, <3>4, <3>5, <3>6 DEF TurnStep
    <2>3. ASSUME NEW k \in Conversations, NEW kept \in BOOLEAN, StaffReply(k, kept)
          PROVE  IInv'
      BY <2>3, StaffReplyInv
    <2>4. ASSUME NEW k \in Conversations, Create(k) \/ HandBack(k) \/ StartDelete(k)
          PROVE  IInv'
      BY <2>4, RequestInv
    <2>5. ASSUME NEW k \in Conversations, Expire(k) PROVE IInv'
      BY <2>5, RemovalInv
    <2>6. CASE DeleteStep \/ DeleteFails
      BY <2>6, RequestInv, RemovalInv, CommitDeleteInv DEF DeleteStep
    <2> QED BY <2>1, <2>2, <2>3, <2>4, <2>5, <2>6 DEF Next
  <1> QED BY <1>1, InitInv, PTL DEF Spec

\* The list in Redis and the table of messages agree, however turns, staff replies,
\* expiries and the steps of a deletion interleave and whatever rolls back: a stored
\* message leaves its list only as one of the oldest or with the whole list, and what
\* only the list has belongs to a turn still in progress or was rolled back or deleted.
THEOREM ListsAndRowsAgree == Spec => []HistoriesAgree
  <1>1. IInv => HistoriesAgree
    <2> SUFFICES ASSUME IInv PROVE HistoriesAgree
      OBVIOUS
    <2>1. ASSUME NEW r \in rows
          PROVE  \/ r.id \in ToSet(history[r.conv]) \/ r.id <= cleared[r.conv]
                 \/ Len(history[r.conv]) = MaxHistory /\ \A id \in ToSet(history[r.conv]) : id > r.id
      BY DEF IInv, AllKept, Kept
    <2>2. ASSUME NEW k \in Conversations, NEW id \in ToSet(history[k])
          PROVE  id \in {r.id : r \in rows} \cup unkept \cup InFlight
      BY DEF IInv, AllKnown, Known
    <2> QED BY <2>1, <2>2 DEF HistoriesAgree
  <1> QED BY <1>1, ChatInductive, PTL

\* A bad rating is filed under the very question its answer was given to: the rows of a
\* turn share the time its transaction began at, which no other turn has, so the latest
\* user message that is not after the answer is the one stored with it.
THEOREM RatingFindsItsQuestion == Spec => []RatedQuestion
  <1>1. IInv => RatedQuestion
    <2> SUFFICES ASSUME IInv, NEW a \in rows, a.role = "assistant"
                 PROVE  {q.id : q \in FiledUnder(a)} = {a.re}
      BY DEF RatedQuestion
    <2>1. PICK q \in rows : Paired(a, q)
      BY DEF IInv, Answered
    <2>2. \A r \in rows : r.at \in Nat
      BY DEF IInv, TypeOK, MessageRow
    <2>3. q \in Preceding(a) /\ \A p \in Preceding(a) : p.at <= q.at
      BY <2>1, <2>2 DEF Preceding, Paired
    <2>4. q \in FiledUnder(a)
      BY <2>3 DEF FiledUnder, Latest
    <2>5. \A p \in FiledUnder(a) : p = q
      <3> SUFFICES ASSUME NEW p \in FiledUnder(a) PROVE p = q
        OBVIOUS
      <3>1. p \in rows /\ p.role = "user" /\ p.at <= q.at /\ q.at <= p.at
        BY <2>3 DEF FiledUnder, Latest, Preceding
      <3>2. p.at = q.at
        BY <2>2, <3>1
      <3> QED BY <2>1, <3>1, <3>2 DEF IInv, OneTime, Paired
    <2>6. FiledUnder(a) = {q}
      BY <2>4, <2>5
    <2> QED BY <2>1, <2>6 DEF Paired
  <1> QED BY <1>1, ChatInductive, PTL

-----------------------------------------------------------------------------
(* ChatPush: the invariant *)

\* f was published, and before all that is left in the channel.
Behind(f) == f <= published /\ \A j \in 1..Len(channel) : f < channel[j]

\* The channel is in order, and what has left it does not come again.
ChannelOK ==
    /\ Ascending(channel)
    /\ \A j \in 1..Len(channel) : channel[j] <= published
    /\ \A t \in Tabs : \A f \in ToSet(received[t]) : Behind(f)
    /\ \A f \in forwarded : Behind(f)

\* A loop is at the newest frame any tab has, and has seen the tabs that have it.
WalkOK(w) ==
    /\ Behind(w.frame)
    /\ \A t \in Tabs : \A f \in ToSet(received[t]) : f <= w.frame
    /\ \A t \in Tabs : w.frame \in ToSet(received[t]) <=> t \in w.seen
    /\ w.frame \notin disturbed => audience[w.frame] \subseteq Connected

PushIInv ==
    /\ PushTypeOK
    /\ \A v, w \in walks : v = w
    /\ ChannelOK
    /\ \A w \in walks : WalkOK(w)
    /\ InOrder /\ ReachesEveryTab

WalkRecord == [frame : Frame, seen : SUBSET Tabs, again : SUBSET Tabs, size : Nat]

-----------------------------------------------------------------------------
(* ChatPush: the steps *)

LEMMA AppendedProps ==
    ASSUME NEW S, NEW list \in Seq(S), NEW e \in S
    PROVE  /\ Append(list, e) \in Seq(S)
           /\ ToSet(Append(list, e)) = ToSet(list) \cup {e}
           /\ DOMAIN Append(list, e) = 1..(Len(list) + 1)
           /\ DOMAIN list = 1..Len(list) /\ Len(list) \in Nat
           /\ Len(Append(list, e)) = Len(list) + 1
           /\ \A i \in 1..Len(list) : Append(list, e)[i] = list[i]
           /\ Append(list, e)[Len(list) + 1] = e
  <1> DEFINE longer == Append(list, e)
  <1>1. /\ longer \in Seq(S) /\ Len(longer) = Len(list) + 1 /\ Len(list) \in Nat
        /\ \A i \in 1..Len(list) : longer[i] = list[i]
        /\ longer[Len(list) + 1] = e
        /\ DOMAIN list = 1..Len(list)
    BY AppendProperties, LenProperties
  <1> HIDE DEF longer
  <1>2. DOMAIN longer = 1..(Len(list) + 1)
    BY <1>1, LenProperties
  <1>3. ToSet(longer) = ToSet(list) \cup {e}
    <2>1. \A i \in 1..(Len(list) + 1) : i \in 1..Len(list) \/ i = Len(list) + 1
      BY <1>1
    <2>2. \A i \in 1..Len(list) : i \in 1..(Len(list) + 1)
      BY <1>1
    <2>3. Len(list) + 1 \in 1..(Len(list) + 1)
      BY <1>1
    <2> QED BY <1>1, <1>2, <2>1, <2>2, <2>3 DEF ToSet
  <1> QED BY <1>1, <1>2, <1>3 DEF longer

LEMMA PushInitInv == PushInit => PushIInv
  <1> SUFFICES ASSUME PushInit PROVE PushIInv
    OBVIOUS
  <1>1. << >> \in Seq(Frame) /\ Len(<< >>) = 0 /\ ToSet(<< >>) = {} /\ DOMAIN << >> = {}
    BY EmptySeq DEF ToSet
  <1>2. \A t \in Tabs : received[t] = << >>
    BY DEF PushInit
  <1>3. PushTypeOK
    <2>1. published \in 0..MaxFrames
      BY ChatPushAssumption DEF PushInit
    <2>2. /\ received \in [Tabs -> Seq(Frame)] /\ channel \in Seq(Frame)
          /\ audience \in [Frame -> SUBSET Tabs]
      BY <1>1 DEF PushInit
    <2> QED BY <2>1, <2>2 DEF PushInit, PushTypeOK
  <1>4. ChannelOK
    BY <1>1, <1>2 DEF PushInit, ChannelOK, Ascending
  <1>5. InOrder /\ ReachesEveryTab
    BY <1>1, <1>2 DEF PushInit, InOrder, ReachesEveryTab
  <1> QED BY <1>3, <1>4, <1>5 DEF PushInit, PushIInv

\* Tabs come and go: the frame that is on its way is disturbed, unless the tab was
\* merely lost, which leaves it in the set.
LEMMA TabInv ==
    ASSUME PushIInv, NEW t \in Tabs, Connect(t) \/ Lose(t) \/ Disconnect(t)
    PROVE  PushIInv'
  <1>1. /\ UNCHANGED <<listener, channel, walks, received, published, audience, forwarded>>
        /\ disturbed' = disturbed \/ Disturb
        /\ tab' \in [Tabs -> {"new", "open", "broken", "gone"}]
    BY DEF Connect, Lose, Disconnect, PushIInv, PushTypeOK
  <1>2. disturbed \subseteq disturbed' /\ disturbed' \subseteq Frame
    BY <1>1 DEF Disturb, PushIInv, PushTypeOK
  <1>3. PushTypeOK'
    BY <1>1, <1>2 DEF PushIInv, PushTypeOK
  <1>4. ChannelOK'
    BY <1>1 DEF PushIInv, ChannelOK, Behind
  <1>5. ASSUME NEW w \in walks PROVE WalkOK(w)'
    <2>1. CASE disturbed' = disturbed /\ Lose(t)
      <3>1. Connected \subseteq Connected'
        BY <2>1 DEF Lose, Connected, PushIInv, PushTypeOK
      <3> QED BY <1>1, <2>1, <3>1 DEF PushIInv, WalkOK, Behind
    <2>2. CASE Disturb
      <3>1. w.frame \in disturbed'
        BY <2>2 DEF Disturb
      <3> QED BY <1>1, <3>1 DEF PushIInv, WalkOK, Behind
    <2> QED BY <2>1, <2>2 DEF Connect, Lose, Disconnect
  <1>6. InOrder' /\ ReachesEveryTab'
    BY <1>1, <1>2 DEF PushIInv, InOrder, ReachesEveryTab
  <1> QED BY <1>1, <1>3, <1>4, <1>5, <1>6 DEF PushIInv

LEMMA PublishInv ==
    ASSUME PushIInv, NEW reached \in BOOLEAN, Publish(reached)
    PROVE  PushIInv'
  <1>1. /\ published' = published + 1 /\ published \in 0..MaxFrames
        /\ published + 1 \in Frame /\ published' \in 0..MaxFrames
        /\ \/ UNCHANGED channel \/ channel' = Append(channel, published + 1)
        /\ channel \in Seq(Frame)
        /\ UNCHANGED <<tab, listener, walks, received, audience, disturbed, forwarded>>
    BY ChatPushAssumption DEF Publish, PushIInv, PushTypeOK, Frame
  <1>2. /\ channel' \in Seq(Frame) /\ Ascending(channel')
        /\ \A j \in 1..Len(channel') : \/ j \in 1..Len(channel) /\ channel'[j] = channel[j]
                                       \/ channel'[j] = published + 1
        /\ \A j \in 1..Len(channel') : channel'[j] <= published + 1
    <2>0. /\ \A j \in 1..Len(channel) : channel[j] \in Frame /\ channel[j] <= published
          /\ Ascending(channel) /\ Len(channel) \in Nat
      BY <1>1, ElementOfSeq, LenProperties DEF PushIInv, ChannelOK
    <2>1. CASE UNCHANGED channel
      BY <1>1, <2>0, <2>1 DEF Frame
    <2>2. CASE channel' = Append(channel, published + 1)
      <3>1. /\ channel' \in Seq(Frame) /\ Len(channel') = Len(channel) + 1
            /\ \A j \in 1..Len(channel) : channel'[j] = channel[j]
            /\ channel'[Len(channel) + 1] = published + 1
        BY <1>1, <2>2, AppendedProps
      <3>2. \A j \in 1..Len(channel') : j \in 1..Len(channel) \/ j = Len(channel) + 1
        BY <2>0, <3>1
      <3>3. Ascending(channel')
        <4> SUFFICES ASSUME NEW i \in 1..Len(channel'), NEW j \in 1..Len(channel'), i < j
                     PROVE  channel'[i] < channel'[j]
          BY DEF Ascending
        <4>1. i \in 1..Len(channel)
          BY <2>0, <3>1
        <4>2. CASE j \in 1..Len(channel)
          BY <2>0, <3>1, <4>1, <4>2 DEF Ascending
        <4>3. CASE j = Len(channel) + 1
          BY <1>1, <2>0, <3>1, <4>1, <4>3 DEF Frame
        <4> QED BY <3>2, <4>2, <4>3
      <3>4. \A j \in 1..Len(channel') : channel'[j] <= published + 1
        BY <1>1, <2>0, <3>1, <3>2 DEF Frame
      <3> QED BY <3>1, <3>2, <3>3, <3>4
    <2> QED BY <1>1, <2>1, <2>2
  <1>3. ASSUME NEW f \in Frame, Behind(f) PROVE Behind(f)'
    BY <1>1, <1>2, <1>3 DEF Behind, Frame
  <1>4. PushTypeOK'
    BY <1>1, <1>2 DEF PushIInv, PushTypeOK
  <1>5. \A t \in Tabs : \A f \in ToSet(received[t]) : f \in Frame
    BY InList, ElementOfSeq DEF PushIInv, PushTypeOK
  <1>6. ChannelOK'
    BY <1>1, <1>2, <1>3, <1>5 DEF PushIInv, PushTypeOK, ChannelOK
  <1>7. \A w \in walks : WalkOK(w)'
    <2>1. UNCHANGED Connected
      BY <1>1 DEF Connected
    <2>2. \A w \in walks : w.frame \in Frame
      BY DEF PushIInv, PushTypeOK
    <2> QED BY <1>1, <1>3, <2>1, <2>2 DEF PushIInv, WalkOK
  <1>8. InOrder' /\ ReachesEveryTab'
    BY <1>1 DEF PushIInv, InOrder, ReachesEveryTab
  <1> QED BY <1>1, <1>4, <1>6, <1>7, <1>8 DEF PushIInv

LEMMA ListenerInv ==
    ASSUME PushIInv, Start \/ Die
    PROVE  PushIInv'
  <1>1. /\ UNCHANGED <<tab, walks, received, published, audience, disturbed, forwarded>>
        /\ channel' = channel \/ channel' = << >>
        /\ listener' \in {"on", "dead"}
    BY DEF Start, Die
  <1>2. channel' \in Seq(Frame) /\ (channel' = channel \/ Len(channel') = 0)
    BY <1>1, EmptySeq DEF PushIInv, PushTypeOK
  <1>3. PushTypeOK'
    BY <1>1, <1>2 DEF PushIInv, PushTypeOK
  <1>4. \A f : Behind(f) => Behind(f)'
    BY <1>1, <1>2 DEF Behind
  <1>5. ChannelOK'
    BY <1>1, <1>2, <1>4 DEF PushIInv, ChannelOK, Ascending
  <1>6. \A w \in walks : WalkOK(w)'
    <2>1. UNCHANGED Connected
      BY <1>1 DEF Connected
    <2> QED BY <1>1, <1>4, <2>1 DEF PushIInv, WalkOK
  <1>7. InOrder' /\ ReachesEveryTab'
    BY <1>1 DEF PushIInv, InOrder, ReachesEveryTab
  <1> QED BY <1>1, <1>3, <1>5, <1>6, <1>7 DEF PushIInv

\* The listener takes the next frame: it is newer than all that was sent.
LEMMA TakeInv ==
    ASSUME PushIInv, Take
    PROVE  PushIInv'
  <1> DEFINE next == Head(channel)
             open == {t \in Tabs : tab[t] = "open"}
  <1>1. /\ channel # << >> /\ walks = {} /\ walks' = {Walk(next)}
        /\ channel' = Tail(channel)
        /\ audience' = [audience EXCEPT ![next] = open]
        /\ UNCHANGED <<tab, listener, received, published, disturbed, forwarded>>
    BY DEF Take, Awaits
  <1>2. /\ channel \in Seq(Frame) /\ Ascending(channel)
        /\ audience \in [Frame -> SUBSET Tabs] /\ published \in 0..MaxFrames
    BY DEF PushIInv, PushTypeOK, ChannelOK
  <1>3. /\ channel' \in Seq(Frame) /\ Len(channel) \in Nat \ {0}
        /\ Len(channel') = Len(channel) - 1
        /\ \A j \in 1..Len(channel') : channel'[j] = channel[j + 1]
        /\ next = channel[1] /\ next \in Frame
    <2>1. Len(channel) \in Nat \ {0}
      BY <1>1, <1>2, EmptySeq, LenProperties
    <2>2. next = channel[1]
      OBVIOUS
    <2>3. next \in Frame
      BY <1>2, <2>1, <2>2, ElementOfSeq
    <2> QED BY <1>1, <1>2, <2>1, <2>2, <2>3, HeadTailProperties
  <1> HIDE DEF next
  <1>4. \A j \in 1..Len(channel') : j + 1 \in 1..Len(channel) /\ 1 < j + 1
    BY <1>3
  <1>5. \A j \in 1..Len(channel') : next < channel'[j] /\ channel'[j] <= published
    <2>1. 1 \in 1..Len(channel) /\ \A j \in 1..Len(channel) : channel[j] <= published
      BY <1>3 DEF PushIInv, ChannelOK
    <2>2. \A j \in 1..Len(channel') : channel[1] < channel[j + 1]
      BY <1>2, <1>4, <2>1 DEF Ascending
    <2> QED BY <1>3, <1>4, <2>1, <2>2
  <1>6. \A f : Behind(f) => Behind(f)' /\ f < next
    <2>1. 1 \in 1..Len(channel)
      BY <1>3
    <2> QED BY <1>1, <1>3, <1>4, <2>1 DEF Behind
  <1>7. Walk(next) \in WalkRecord
    <2>1. Cardinality(Connected) \in Nat
      BY ChatPushAssumption, FS_Subset, FS_CardinalityType DEF Connected
    <2> QED BY <1>3, <2>1 DEF Walk, WalkRecord
  <1>8. /\ Walk(next).frame = next /\ Walk(next).seen = {}
    BY DEF Walk
  <1>9. PushTypeOK'
    BY <1>1, <1>2, <1>3, <1>7 DEF PushIInv, PushTypeOK, WalkRecord
  <1>10. ChannelOK'
    <2>1. Ascending(channel')
      <3> SUFFICES ASSUME NEW i \in 1..Len(channel'), NEW j \in 1..Len(channel'), i < j
                   PROVE  channel'[i] < channel'[j]
        BY DEF Ascending
      <3>1. i + 1 < j + 1
        BY <1>3
      <3> QED BY <1>2, <1>3, <1>4, <3>1 DEF Ascending
    <2> QED BY <1>1, <1>5, <1>6, <2>1 DEF PushIInv, ChannelOK
  <1>11. ASSUME NEW w \in walks' PROVE WalkOK(w)'
    <2>1. w.frame = next /\ w.seen = {}
      BY <1>1, <1>8
    <2>2. Behind(w.frame)'
      <3>1. next <= published
        BY <1>3 DEF PushIInv, ChannelOK
      <3> QED BY <1>1, <1>5, <2>1, <3>1 DEF Behind
    <2>3. \A t \in Tabs : \A f \in ToSet(received'[t]) : f < next
      BY <1>1, <1>6 DEF PushIInv, ChannelOK
    <2>4. /\ \A t \in Tabs : \A f \in ToSet(received'[t]) : f <= w.frame
          /\ \A t \in Tabs : w.frame \in ToSet(received'[t]) <=> t \in w.seen
      <3>1. ~(next < next)
        BY <1>3 DEF Frame
      <3>2. \A t \in Tabs : \A f \in ToSet(received'[t]) : f \in Frame
        BY <1>1, InList, ElementOfSeq DEF PushIInv, PushTypeOK
      <3>3. \A f \in Frame : f < next => f <= next
        BY <1>3 DEF Frame
      <3> QED BY <2>1, <2>3, <3>1, <3>2, <3>3
    <2>5. audience'[w.frame] \subseteq Connected'
      BY <1>1, <1>2, <1>3, <2>1 DEF Connected
    <2> QED BY <2>2, <2>4, <2>5 DEF WalkOK
  <1>12. InOrder'
    BY <1>1 DEF PushIInv, InOrder
  <1>13. ReachesEveryTab'
    <2>1. \A f \in forwarded : f # next
      <3>1. ~(next < next)
        BY <1>3 DEF Frame
      <3> QED BY <1>6, <3>1 DEF PushIInv, ChannelOK
    <2>2. \A f \in forwarded : audience'[f] = audience[f]
      BY <1>1, <1>2, <2>1 DEF PushIInv, PushTypeOK
    <2>3. forwarded' = forwarded /\ disturbed' = disturbed /\ received' = received
      BY <1>1
    <2>4. \A f \in forwarded \ disturbed : \A t \in audience'[f] :
             \E i \in DOMAIN received[t] : received[t][i] = f
      BY <2>2 DEF PushIInv, ReachesEveryTab
    <2> QED BY <2>3, <2>4 DEF ReachesEveryTab
  <1> QED BY <1>1, <1>9, <1>10, <1>11, <1>12, <1>13 DEF PushIInv

\* A tab is sent the frame: for the first time, unless the iterator met it again.
LEMMA VisitInv ==
    ASSUME PushIInv, NEW w \in walks, NEW t \in Tabs, Visit(w, t) \/ VisitAgain(w, t)
    PROVE  PushIInv'
  <1> DEFINE f == w.frame
             got == received[t]
  <1>1. /\ received' = [received EXCEPT ![t] = Append(got, f)]
        /\ UNCHANGED <<tab, listener, channel, published, audience, disturbed, forwarded>>
        /\ t \notin w.seen \/ f \in disturbed
    BY DEF Visit, VisitAgain, Send, Swapped
  <1>2. PICK v \in WalkRecord :
           walks' = (walks \ {w}) \cup {v} /\ v.frame = f /\ v.seen = w.seen \cup {t}
    <2>1. w \in WalkRecord
      BY DEF PushIInv, PushTypeOK, WalkRecord
    <2>2. CASE Visit(w, t)
      <3>1. /\ walks' = (walks \ {w}) \cup {[w EXCEPT !.seen = @ \cup {t}]}
            /\ [w EXCEPT !.seen = @ \cup {t}] \in WalkRecord
            /\ [w EXCEPT !.seen = @ \cup {t}].frame = f
            /\ [w EXCEPT !.seen = @ \cup {t}].seen = w.seen \cup {t}
        BY <2>1, <2>2 DEF Visit, WalkRecord
      <3> QED BY <3>1
    <2>3. CASE VisitAgain(w, t)
      <3>1. /\ walks' = (walks \ {w}) \cup {[w EXCEPT !.again = @ \cup {t}]}
            /\ [w EXCEPT !.again = @ \cup {t}] \in WalkRecord
            /\ [w EXCEPT !.again = @ \cup {t}].frame = f
            /\ [w EXCEPT !.again = @ \cup {t}].seen = w.seen
            /\ w.seen = w.seen \cup {t}
        BY <2>1, <2>3 DEF VisitAgain, WalkRecord
      <3> QED BY <3>1
    <2> QED BY <2>2, <2>3
  <1>3. walks' = {v}
    BY <1>2 DEF PushIInv
  <1>4. WalkOK(w) /\ ChannelOK /\ PushTypeOK /\ f \in Frame /\ received \in [Tabs -> Seq(Frame)]
    BY DEF PushIInv, PushTypeOK
  <1>5. /\ \A x \in Tabs \ {t} : received'[x] = received[x]
        /\ received'[t] = Append(got, f)
        /\ received' \in [Tabs -> Seq(Frame)]
        /\ ToSet(received'[t]) = ToSet(got) \cup {f}
        /\ DOMAIN received'[t] = 1..(Len(got) + 1)
        /\ DOMAIN got = 1..Len(got) /\ Len(got) \in Nat
        /\ \A i \in 1..Len(got) : received'[t][i] = got[i]
        /\ received'[t][Len(got) + 1] = f
    <2>1. got \in Seq(Frame)
      BY <1>4
    <2> HIDE DEF f, got
    <2>2. /\ Append(got, f) \in Seq(Frame)
          /\ ToSet(Append(got, f)) = ToSet(got) \cup {f}
          /\ DOMAIN Append(got, f) = 1..(Len(got) + 1)
          /\ DOMAIN got = 1..Len(got) /\ Len(got) \in Nat
          /\ \A i \in 1..Len(got) : Append(got, f)[i] = got[i]
          /\ Append(got, f)[Len(got) + 1] = f
      BY <1>4, <2>1, AppendedProps
    <2>3. received'[t] = Append(got, f)
      BY <1>1, <1>4
    <2> QED BY <1>1, <1>4, <2>2, <2>3
  <1>6. PushTypeOK'
    BY <1>1, <1>3, <1>4, <1>5 DEF PushTypeOK, WalkRecord
  <1>7. \A g : Behind(g) => Behind(g)'
    BY <1>1 DEF Behind
  <1>8. \A x \in Tabs : \A g \in ToSet(received'[x]) : g \in ToSet(received[x]) \/ (x = t /\ g = f)
    BY <1>5
  <1>9. ChannelOK'
    BY <1>1, <1>4, <1>7, <1>8 DEF ChannelOK, WalkOK
  <1>10. WalkOK(v)'
    <2>1. \A x \in Tabs : \A g \in ToSet(received'[x]) : g <= f
      <3>1. f <= f
        BY <1>4 DEF Frame
      <3> QED BY <1>4, <1>8, <3>1 DEF WalkOK
    <2>2. \A x \in Tabs : f \in ToSet(received'[x]) <=> x \in v.seen
      BY <1>2, <1>4, <1>5 DEF WalkOK
    <2>3. f \notin disturbed => audience[f] \subseteq Connected'
      BY <1>1, <1>4 DEF WalkOK, Connected
    <2> QED BY <1>1, <1>2, <1>4, <1>7, <2>1, <2>2, <2>3 DEF WalkOK
  <1>11. InOrder'
    <2> SUFFICES ASSUME NEW x \in Tabs, NEW i \in DOMAIN received'[x],
                        NEW j \in DOMAIN received'[x], i < j
                 PROVE  \/ received'[x][i] < received'[x][j]
                        \/ received'[x][i] = received'[x][j] /\ received'[x][i] \in disturbed'
      BY DEF InOrder
    <2>1. CASE x # t
      BY <1>1, <1>5, <2>1 DEF PushIInv, InOrder
    <2>2. CASE x = t /\ j \in 1..Len(got)
      <3>1. i \in 1..Len(got)
        BY <1>5, <2>2
      <3> QED BY <1>1, <1>5, <2>2, <3>1 DEF PushIInv, InOrder
    <2>3. CASE x = t /\ j \notin 1..Len(got)
      <3>1. j = Len(got) + 1 /\ i \in 1..Len(got)
        BY <1>5, <2>3
      <3>2. received'[x][j] = f /\ received'[x][i] = got[i] /\ got[i] \in ToSet(got)
        BY <1>5, <2>3, <3>1 DEF ToSet
      <3>3. got[i] <= f /\ got[i] \in Frame
        BY <1>4, <1>5, <3>1, <3>2, ElementOfSeq DEF WalkOK
      <3>4. got[i] = f => f \in disturbed
        BY <1>1, <1>4, <3>2 DEF WalkOK
      <3>5. got[i] < f \/ got[i] = f
        BY <1>4, <3>3 DEF Frame
      <3> QED BY <1>1, <3>2, <3>4, <3>5
    <2> QED BY <2>1, <2>2, <2>3
  <1>12. ReachesEveryTab'
    <2> SUFFICES ASSUME NEW g \in forwarded \ disturbed, NEW x \in audience[g]
                 PROVE  \E i \in DOMAIN received'[x] : received'[x][i] = g
      BY <1>1 DEF ReachesEveryTab
    <2>1. PICK i \in DOMAIN received[x] : received[x][i] = g
      BY DEF PushIInv, ReachesEveryTab
    <2>2. x \in Tabs
      BY <1>4 DEF PushTypeOK
    <2>3. i \in DOMAIN received'[x] /\ received'[x][i] = received[x][i]
      BY <1>5, <2>1, <2>2
    <2> QED BY <2>1, <2>3
  <1> QED BY <1>3, <1>6, <1>9, <1>10, <1>11, <1>12 DEF PushIInv

\* A loop breaks off, or has passed every tab: one that nothing disturbed has then sent
\* the frame to all that were open, for they are still connected.
LEMMA WalkOverInv ==
    ASSUME PushIInv, NEW w \in walks, BreakOff(w) \/ Complete(w)
    PROVE  PushIInv'
  <1>1. /\ UNCHANGED <<tab, listener, channel, received, published, audience, disturbed>>
        /\ walks' = walks \ {w}
        /\ forwarded' = forwarded \/ Complete(w)
    BY DEF BreakOff, Complete
  <1>2. Complete(w) => /\ forwarded' = forwarded \cup {w.frame}
                       /\ w.frame \in disturbed \/ Connected \subseteq w.seen
    BY DEF Complete, Passed, Swapped
  <1>3. w.frame \in Frame /\ WalkOK(w) /\ received \in [Tabs -> Seq(Frame)]
    BY DEF PushIInv, PushTypeOK
  <1>4. PushTypeOK'
    BY <1>1, <1>2, <1>3 DEF PushIInv, PushTypeOK
  <1>5. ChannelOK'
    BY <1>1, <1>2, <1>3 DEF PushIInv, ChannelOK, WalkOK, Behind
  <1>6. \A v \in walks' : WalkOK(v)'
    BY <1>1 DEF PushIInv
  <1>7. InOrder'
    BY <1>1 DEF PushIInv, InOrder
  <1>8. ReachesEveryTab'
    <2> SUFFICES ASSUME NEW f \in forwarded' \ disturbed, NEW t \in audience[f]
                 PROVE  \E i \in DOMAIN received[t] : received[t][i] = f
      BY <1>1 DEF ReachesEveryTab
    <2>1. CASE f \in forwarded
      BY <2>1 DEF PushIInv, ReachesEveryTab
    <2>2. CASE f \notin forwarded
      <3>1. f = w.frame /\ t \in w.seen /\ t \in Tabs
        BY <1>1, <1>2, <1>3, <2>2 DEF WalkOK, Connected
      <3>2. f \in ToSet(received[t])
        BY <1>3, <3>1 DEF WalkOK
      <3> QED BY <3>2 DEF ToSet
    <2> QED BY <2>1, <2>2
  <1> QED BY <1>1, <1>4, <1>5, <1>6, <1>7, <1>8 DEF PushIInv

-----------------------------------------------------------------------------
(* ChatPush: the theorems *)

\* Every step of the push channel keeps the invariant.
THEOREM PushInductive == PushSpec => []PushIInv
  <1>1. PushIInv /\ [PushNext]_pushVars => PushIInv'
    <2> SUFFICES ASSUME PushIInv, [PushNext]_pushVars PROVE PushIInv'
      OBVIOUS
    <2>1. CASE UNCHANGED pushVars
      <3>1. UNCHANGED <<tab, listener, channel, walks, received, published, audience,
                        disturbed, forwarded>>
        BY <2>1 DEF pushVars
      <3>2. PushTypeOK' /\ ChannelOK'
        BY <3>1 DEF PushIInv, PushTypeOK, ChannelOK, Behind
      <3>3. \A w \in walks : WalkOK(w)'
        BY <3>1 DEF PushIInv, WalkOK, Behind, Connected
      <3> QED BY <3>1, <3>2, <3>3 DEF PushIInv, InOrder, ReachesEveryTab
    <2>2. ASSUME NEW t \in Tabs, Connect(t) \/ Lose(t) \/ Disconnect(t) PROVE PushIInv'
      BY <2>2, TabInv
    <2>3. CASE Start \/ Die \/ Take
      BY <2>3, ListenerInv, TakeInv
    <2>4. ASSUME NEW reached \in BOOLEAN, Publish(reached) PROVE PushIInv'
      BY <2>4, PublishInv
    <2>5. ASSUME NEW w \in walks, NEW t \in Tabs, Visit(w, t) \/ VisitAgain(w, t)
          PROVE  PushIInv'
      BY <2>5, VisitInv
    <2>6. ASSUME NEW w \in walks, BreakOff(w) \/ Complete(w) PROVE PushIInv'
      BY <2>6, WalkOverInv
    <2> QED BY <2>1, <2>2, <2>3, <2>4, <2>5, <2>6 DEF PushNext
  <1> QED BY <1>1, PushInitInv, PTL DEF PushSpec

\* Frames come in the order they were published in, however tabs come and go, because
\* the listener awaits each loop; twice only if a tab took another's place meanwhile.
THEOREM FramesComeInOrder == PushSpec => []InOrder
  <1>1. PushIInv => InOrder
    BY DEF PushIInv
  <1> QED BY <1>1, PushInductive, PTL

\* A loop that came to its end while the tabs stayed as they were has reached all that
\* were open when it began.
THEOREM FramesReachEveryTab == PushSpec => []ReachesEveryTab
  <1>1. PushIInv => ReachesEveryTab
    BY DEF PushIInv
  <1> QED BY <1>1, PushInductive, PTL
=============================================================================
