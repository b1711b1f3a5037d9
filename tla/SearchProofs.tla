---------------------------- MODULE SearchProofs ----------------------------
(***************************************************************************)
(* Proofs about the search for passages.  Of SearchIndex, for any number   *)
(* of processes: the freshest content is never lost sight of, and no       *)
(* process searches backwards.  Of Retrieval, for any passages and scores: *)
(* the fusion keeps what both channels agree on, an answer shows the       *)
(* evidence it rests on, and its badge is honest.                          *)
(***************************************************************************)
EXTENDS SearchIndex, Retrieval, TLAPS, SequenceTheorems, FiniteSetTheorems, WellFoundedInduction

\* The process w has, or is about to have, everything in the collection.
Current(w) ==
    \/ pc[w] \in {"changed", "refresh"}
    \/ pc[w] = "build" /\ fetched[w] = version
    \/ pc[w] \in {"save", "idle"} /\ snapshot[w] = version

\* Inductive: the last to change the collection has still to read it back.
IInv ==
    /\ TypeOK
    /\ ~lapsed => \E w \in Workers : Current(w)
    /\ \A w \in Workers : /\ pc[w] = "build" => snapshot[w] <= fetched[w]
                          /\ pc[w] = "down" => snapshot[w] = 0

LEMMA InitInv == Init => IInv
<1> SUFFICES ASSUME Init PROVE IInv
  OBVIOUS
<1>1. PICK w \in Workers : TRUE
  BY SearchIndexAssumption
<1>2. Current(w)
  BY DEF Init, Current
<1>3. TypeOK
  <2>1. version \in Nat \ {0} /\ file \in 1..version
    BY SMT DEF Init
  <2>2. snapshot \in [Workers -> 0..version] /\ fetched \in [Workers -> 0..version]
    BY SMT DEF Init
  <2>3. pc \in [Workers -> PC] /\ \A v \in Workers : pc[v] = "idle"
    BY DEF Init, PC
  <2>4. \A v \in Workers : pc[v] # "build" /\ pc[v] # "save"
    BY <2>3
  <2>5. lapsed \in BOOLEAN
    BY Zenon DEF Init
  <2>6. crashes \in Nat
    BY SMT DEF Init
  <2> QED  BY <2>1, <2>2, <2>3, <2>4, <2>5, <2>6 DEF TypeOK
<1> QED  BY <1>2, <1>3 DEF Init, IInv

\* A process moves on, the collection only grows, and what was current stays so.
LEMMA ChangeInv == ASSUME IInv, NEW w \in Workers, Change(w) \/ Sweep(w) PROVE IInv'
<1>1. version' \in Nat \ {0} /\ version <= version'
  BY SMT DEF Change, Sweep, IInv, TypeOK
<1>2. pc' = [pc EXCEPT ![w] = pc'[w]] /\ pc'[w] \in {"changed", "refresh"}
  BY SMT DEF Change, Sweep, Goto, IInv, TypeOK
<1>3. UNCHANGED <<snapshot, file, fetched, lapsed, crashes>>
  BY DEF Change, Sweep
<1>4. TypeOK'
  BY <1>1, <1>2, <1>3, SMT DEF IInv, TypeOK, PC
<1>5. Current(w)'
  BY <1>2 DEF Current
<1> QED  BY <1>2, <1>3, <1>4, <1>5, SMT DEF IInv, TypeOK

\* A refresh, step by step: what is read back is all there is.
LEMMA RefreshInv == ASSUME IInv, NEW w \in Workers, Fetch(w) \/ Build(w) \/ Save(w) PROVE IInv'
<1>1. version' = version /\ lapsed' = lapsed /\ crashes' = crashes
  BY DEF Fetch, Build, Save
<1>2. CASE Fetch(w)
  <2>1. pc' = [pc EXCEPT ![w] = "build"] /\ fetched' = [fetched EXCEPT ![w] = version]
    BY <1>2 DEF Fetch, Goto
  <2>2. UNCHANGED <<snapshot, file>>
    BY <1>2 DEF Fetch
  <2>3. TypeOK'
    BY <1>1, <2>1, <2>2, SMT DEF IInv, TypeOK, PC
  <2>4. Current(w)'
    BY <1>1, <2>1, SMT DEF Current, IInv, TypeOK
  <2> QED  BY <1>1, <2>1, <2>2, <2>3, <2>4, SMT DEF IInv, TypeOK
<1>3. CASE Build(w)
  <2>1. /\ pc[w] = "build" /\ pc' = [pc EXCEPT ![w] = "save"]
        /\ snapshot' = [snapshot EXCEPT ![w] = fetched[w]]
        /\ fetched' = [fetched EXCEPT ![w] = 0]
        /\ file' = file
    BY <1>3 DEF Build, Goto
  <2>2. TypeOK'
    BY <1>1, <2>1, SMT DEF IInv, TypeOK, PC
  <2>3. \A v \in Workers : Current(v) => Current(v)'
    BY <1>1, <2>1, SMT DEF Current, IInv, TypeOK
  <2> QED  BY <1>1, <2>1, <2>2, <2>3, SMT DEF IInv, TypeOK
<1>4. CASE Save(w)
  <2>1. /\ pc[w] = "save" /\ pc' = [pc EXCEPT ![w] = "idle"] /\ file' = snapshot[w]
        /\ UNCHANGED <<snapshot, fetched>>
    BY <1>4 DEF Save, Goto
  <2>2. TypeOK'
    BY <1>1, <2>1, SMT DEF IInv, TypeOK, PC
  <2>3. \A v \in Workers : Current(v) => Current(v)'
    BY <1>1, <2>1, SMT DEF Current, IInv, TypeOK
  <2> QED  BY <1>1, <2>1, <2>2, <2>3, SMT DEF IInv, TypeOK
<1> QED  BY <1>2, <1>3, <1>4

\* What cuts a refresh short is remembered, so only types are at stake.
LEMMA LapseInv ==
    ASSUME IInv, NEW w \in Workers,
           SweepFails(w) \/ FetchFails(w) \/ SaveFails(w) \/ Crash(w)
    PROVE  IInv'
<1>1. lapsed' = TRUE /\ version' = version /\ file' = file
  BY DEF SweepFails, FetchFails, SaveFails, Crash
<1>2. /\ pc' = [pc EXCEPT ![w] = pc'[w]] /\ pc'[w] \in {"idle", "down"}
      /\ crashes' \in Nat
  BY SMT DEF SweepFails, FetchFails, SaveFails, Crash, Goto, IInv, TypeOK
<1>3. /\ \/ snapshot' = snapshot /\ pc'[w] = "idle"
         \/ snapshot' = [snapshot EXCEPT ![w] = 0]
      /\ fetched' = fetched \/ fetched' = [fetched EXCEPT ![w] = 0]
  BY SMT DEF SweepFails, FetchFails, SaveFails, Crash, Goto, IInv, TypeOK
<1>4. TypeOK'
  BY <1>1, <1>2, <1>3, SMT DEF IInv, TypeOK, PC
<1> QED  BY <1>1, <1>2, <1>3, <1>4, SMT DEF IInv, TypeOK

\* A process that was down was restarted after a lapse.
LEMMA RestartInv ==
    ASSUME IInv, NEW w \in Workers, RestartFromFile(w) \/ RestartFromStore(w)
    PROVE  IInv'
<1>1. UNCHANGED <<version, file, fetched, lapsed, crashes>>
  BY DEF RestartFromFile, RestartFromStore
<1>2. /\ pc[w] = "down" /\ pc' = [pc EXCEPT ![w] = pc'[w]] /\ pc'[w] \in {"idle", "refresh"}
      /\ snapshot' = snapshot \/ snapshot' = [snapshot EXCEPT ![w] = file]
  BY SMT DEF RestartFromFile, RestartFromStore, Goto, IInv, TypeOK
<1>3. TypeOK'
  BY <1>1, <1>2, SMT DEF IInv, TypeOK, PC
<1>4. \A v \in Workers : Current(v) => Current(v)'
  BY <1>1, <1>2, SMT DEF Current, IInv, TypeOK
<1> QED  BY <1>1, <1>2, <1>3, <1>4, SMT DEF IInv, TypeOK

THEOREM Inductive == Spec => []IInv
<1>1. IInv /\ [Next]_vars => IInv'
  <2> SUFFICES ASSUME IInv, [Next]_vars PROVE IInv'
    OBVIOUS
  <2>1. CASE Next
    BY <2>1, ChangeInv, RefreshInv, LapseInv, RestartInv DEF Next
  <2>2. CASE UNCHANGED vars
    BY <2>2 DEF vars, IInv, TypeOK, Current
  <2> QED  BY <2>1, <2>2
<1> QED  BY InitInv, <1>1, PTL DEF Spec

\* A refresh that has come as far as building or saving has a content in hand.
THEOREM TypeCorrect == Spec => []TypeOK
<1>1. IInv => TypeOK  BY DEF IInv
<1> QED  BY Inductive, <1>1, PTL

\* When all processes are done and no refresh was cut short, one of them searches
\* everything that is in the collection.
THEOREM Freshness == Spec => []SomeoneIsFresh
<1>1. IInv => SomeoneIsFresh
  BY DEF IInv, SomeoneIsFresh, Quiet, Current
<1> QED  BY Inductive, <1>1, PTL

\* The searches of a living process never fall back to an earlier content.
THEOREM NoWayBack == Spec => NeverBackwards
<1>1. IInv /\ [Next]_vars => [Advances]_vars
  <2> SUFFICES ASSUME IInv, [Next]_vars, NEW w \in Workers,
                      snapshot[w] # 0, snapshot'[w] # 0
               PROVE  snapshot[w] <= snapshot'[w]
    BY DEF Advances
  <2>0. snapshot[w] \in Nat /\ snapshot \in [Workers -> 0..version]
    BY SMT DEF IInv, TypeOK
  <2>1. CASE UNCHANGED snapshot
    BY <2>0, <2>1, SMT
  <2>2. CASE \E v \in Workers : Build(v)
    BY <2>0, <2>2, SMT DEF Build, Goto, IInv
  <2>3. CASE \E v \in Workers : Crash(v)
    BY <2>0, <2>3, SMT DEF Crash
  <2>4. CASE \E v \in Workers : RestartFromFile(v)
    <3> PICK v \in Workers : RestartFromFile(v)
      BY <2>4
    <3>1. pc[v] = "down" /\ snapshot' = [snapshot EXCEPT ![v] = file]
      BY DEF RestartFromFile, Goto
    <3>2. snapshot[v] = 0
      BY <3>1 DEF IInv
    <3> QED  BY <2>0, <3>1, <3>2, SMT
  <2> QED
    BY <2>1, <2>2, <2>3, <2>4 DEF Next, Change, Sweep, SweepFails, Fetch, FetchFails,
       Save, SaveFails, RestartFromStore, vars
<1> QED  BY Inductive, <1>1, PTL DEF Spec, NeverBackwards

-----------------------------------------------------------------------------
(* Retrieval: numbers, and the first of a list *)

LEMMA MaxProps ==
    ASSUME NEW S \in SUBSET (0..100), S # {}
    PROVE  Max(S) \in S /\ \A y \in S : Max(S) >= y
  <1> DEFINE T == {100 - x : x \in S}
             below == {pair \in Nat \X Nat : pair[1] < pair[2]}
  <1>1. T \subseteq Nat /\ T # {}
    <2>1. \A x \in S : 100 - x \in Nat
      OBVIOUS
    <2> QED BY <2>1
  <1>2. PICK t \in T : \A u \in T : ~ (<<u, t>> \in below)
    <2>1. IsWellFoundedOn(below, Nat)
      BY NatLessThanWellFounded DEF OpToRel
    <2> HIDE DEF below, T
    <2> QED BY <1>1, <2>1, WFMin
  <1>3. \A u \in T : ~ (u < t)
    BY <1>1, <1>2
  <1>4. PICK x \in S : t = 100 - x
    OBVIOUS
  <1>5. \A y \in S : x >= y
    <2> SUFFICES ASSUME NEW y \in S PROVE x >= y
      OBVIOUS
    <2>1. 100 - y \in T /\ y \in 0..100 /\ x \in 0..100
      OBVIOUS
    <2>2. ~ (100 - y < 100 - x)
      BY <1>3, <1>4, <2>1
    <2> HIDE DEF T
    <2> QED BY <2>1, <2>2
  <1> QED BY <1>5 DEF Max

LEMMA MinProps ==
    ASSUME NEW S, \E x \in S : \A y \in S : x <= y
    PROVE  Min(S) \in S /\ \A y \in S : Min(S) <= y
  BY DEF Min

LEMMA BestProps ==
    ASSUME NEW S, NEW list \in Seq(S), NEW n \in Nat
    PROVE  /\ Best(list, n) \in Seq(S)
           /\ Len(Best(list, n)) = IF Len(list) > n THEN n ELSE Len(list)
           /\ \A i \in 1..Len(Best(list, n)) : i \in 1..Len(list) /\ Best(list, n)[i] = list[i]
           /\ DOMAIN list = 1..Len(list) /\ DOMAIN Best(list, n) = 1..Len(Best(list, n))
  <1> DEFINE least == Min({n, Len(list)})
             first == Best(list, n)
  <1>1. Len(list) \in Nat /\ DOMAIN list = 1..Len(list)
    BY LenProperties
  <1>2. \A i \in 1..Len(list) : list[i] \in S
    BY ElementOfSeq
  <1>3. least = IF Len(list) > n THEN n ELSE Len(list)
    <2>1. least \in {n, Len(list)} /\ \A m \in {n, Len(list)} : least <= m
      <3> DEFINE two == {n, Len(list)}
      <3>1. \E m \in two : \A o \in two : m <= o
        BY <1>1
      <3> HIDE DEF two
      <3>2. Min(two) \in two /\ \A o \in two : Min(two) <= o
        BY <3>1, MinProps
      <3> QED BY <3>2 DEF two
    <2>2. /\ least = n \/ least = Len(list)
          /\ least <= n /\ least <= Len(list)
      BY <2>1
    <2> HIDE DEF least
    <2>3. CASE Len(list) > n
      BY <1>1, <2>2, <2>3
    <2>4. CASE ~(Len(list) > n)
      BY <1>1, <2>2, <2>4
    <2> QED BY <2>3, <2>4
  <1>4. least \in Nat /\ least <= Len(list) /\ first = SubSeq(list, 1, least)
    BY <1>1, <1>3 DEF Best
  <1> HIDE DEF least, first
  <1>5. /\ first \in Seq(S)
        /\ Len(first) = IF 1 <= least THEN least - 1 + 1 ELSE 0
        /\ \A i \in 1..(least - 1 + 1) : first[i] = list[1 + i - 1]
    BY <1>1, <1>2, <1>4, SubSeqProperties
  <1>6. Len(first) = least /\ \A i \in 1..least : first[i] = list[i]
    BY <1>4, <1>5
  <1>7. DOMAIN first = 1..Len(first)
    BY <1>5, LenProperties
  <1>8. \A i \in 1..Len(first) : i \in 1..Len(list) /\ first[i] = list[i]
    BY <1>1, <1>4, <1>6
  <1> QED BY <1>1, <1>3, <1>5, <1>6, <1>7, <1>8 DEF first

\* A whole number over a greater one is not more.
LEMMA SmallerShare ==
    ASSUME NEW n \in Nat, NEW x \in Nat \ {0}, NEW y \in Nat \ {0}, x <= y
    PROVE  n \div x \in Nat /\ n \div y \in Nat /\ n \div y <= n \div x
  <1> DEFINE p == n \div x
             q == n \div y
  <1>1. p \in Int /\ n = x * p + (n % x) /\ n % x \in 0..(x - 1)
    OBVIOUS
  <1>2. q \in Int /\ n = y * q + (n % y) /\ n % y \in 0..(y - 1)
    OBVIOUS
  <1> HIDE DEF p, q
  <1> QED BY <1>1, <1>2

-----------------------------------------------------------------------------
(* Retrieval: rankings *)

Distinct(hits) == \A i, j \in DOMAIN hits : hits[i].id = hits[j].id => i = j

LEMMA RankProps ==
    ASSUME NEW hits, NEW p, Lists(hits, p)
    PROVE  /\ Rank(hits, p) \in DOMAIN hits /\ hits[Rank(hits, p)].id = p
           /\ Distinct(hits) => \A i \in DOMAIN hits : hits[i].id = p => i = Rank(hits, p)
  BY DEF Lists, Rank, Distinct

LEMMA HitsProps ==
    ASSUME NEW hits \in Hits
    PROVE  /\ hits \in Seq(Hit) /\ Distinct(hits)
           /\ Len(hits) \in Nat /\ DOMAIN hits = 1..Len(hits)
           /\ \A p : Lists(hits, p) => p \in Passages
  <1>1. PICK n \in Nat : /\ hits \in [1..n -> Hit]
                         /\ \A i, j \in 1..n : i < j => hits[i].id # hits[j].id
    BY DEF Hits, Hit
  <1>2. hits \in Seq(Hit) /\ DOMAIN hits = 1..n /\ Len(hits) = n
    BY <1>1, SeqDef, LenProperties
  <1>3. Distinct(hits)
    BY <1>1 DEF Distinct
  <1>4. \A p : Lists(hits, p) => p \in Passages
    BY <1>1 DEF Lists, Hit
  <1> QED BY <1>2, <1>3, <1>4

-----------------------------------------------------------------------------
(* Retrieval: a strict order of a finite set has its list *)

StrictOrder(R, S) ==
    /\ \A x \in S : <<x, x>> \notin R
    /\ \A x, y, z \in S : <<x, y>> \in R /\ <<y, z>> \in R => <<x, z>> \in R
    /\ \A x, y \in S : x # y => <<x, y>> \in R \/ <<y, x>> \in R

InOrderOf(R, list) == \A i, j \in DOMAIN list : i < j => <<list[i], list[j]>> \in R

\* Each element stands behind as many as are above it.
LEMMA OrderHasList ==
    ASSUME NEW S, IsFiniteSet(S), NEW R, StrictOrder(R, S)
    PROVE  /\ Cardinality(S) \in Nat
           /\ \E list \in [1..Cardinality(S) -> S] : InOrderOf(R, list)
  <1> DEFINE n == Cardinality(S)
             above(x) == {y \in S : <<y, x>> \in R}
             place == [x \in S |-> Cardinality(above(x)) + 1]
  <1>1. n \in Nat
    BY FS_CardinalityType
  <1>2. ASSUME NEW x \in S
        PROVE  /\ IsFiniteSet(above(x)) /\ Cardinality(above(x)) \in Nat
               /\ Cardinality(above(x)) + 1 \in 1..n
    <2>1. above(x) \subseteq S \ {x}
      BY DEF StrictOrder
    <2>2. IsFiniteSet(S \ {x}) /\ Cardinality(S \ {x}) = n - 1
      BY FS_RemoveElement
    <2> HIDE DEF above, n
    <2>3. IsFiniteSet(above(x)) /\ Cardinality(above(x)) <= n - 1
      BY <2>1, <2>2, FS_Subset
    <2>4. Cardinality(above(x)) \in Nat
      BY <2>3, FS_CardinalityType
    <2> QED BY <1>1, <2>3, <2>4
  <1>3. ASSUME NEW x \in S, NEW y \in S, <<x, y>> \in R
        PROVE  Cardinality(above(x)) < Cardinality(above(y))
    <2>1. above(x) \subseteq above(y) /\ x \in above(y) /\ x \notin above(x)
      BY <1>3 DEF StrictOrder
    <2> HIDE DEF above
    <2>2. Cardinality(above(x)) <= Cardinality(above(y))
          /\ Cardinality(above(x)) # Cardinality(above(y))
      BY <1>2, <2>1, FS_Subset
    <2> QED BY <1>2, <2>2
  <1> HIDE DEF above, n
  <1>4. /\ place \in [S -> 1..n]
        /\ \A x, y \in S : <<x, y>> \in R => place[x] < place[y]
    BY <1>2, <1>3
  <1>5. \A x, y \in S : place[x] = place[y] => x = y
    <2>1. \A x \in S : place[x] \in Nat
      BY <1>1, <1>4
    <2> HIDE DEF place
    <2> SUFFICES ASSUME NEW x \in S, NEW y \in S, x # y PROVE place[x] # place[y]
      OBVIOUS
    <2>2. place[x] < place[y] \/ place[y] < place[x]
      BY <1>4 DEF StrictOrder
    <2> QED BY <2>1, <2>2
  <1> HIDE DEF place
  <1>6. \A i \in 1..n : \E x \in S : place[x] = i
    <2>1. place \in Injection(S, 1..n)
      BY <1>4, <1>5 DEF Injection, IsInjective
    <2>2. IsFiniteSet(1..n) /\ Cardinality(1..n) = n
      <3>1. 1 \in Int /\ n \in Int
        BY <1>1
      <3>2. IsFiniteSet(1..n) /\ Cardinality(1..n) = IF 1 > n THEN 0 ELSE n - 1 + 1
        BY <3>1, FS_Interval
      <3> QED BY <1>1, <3>2
    <2>3. place \in Surjection(S, 1..n)
      BY <2>1, <2>2, FS_Injection DEF n
    <2> QED BY <2>3 DEF Surjection
  <1> DEFINE list == [i \in 1..n |-> CHOOSE x \in S : place[x] = i]
  <1>7. list \in [1..n -> S] /\ \A i \in 1..n : place[list[i]] = i
    BY <1>6
  <1> HIDE DEF list
  <1>8. InOrderOf(R, list)
    <2> SUFFICES ASSUME NEW i \in 1..n, NEW j \in 1..n, i < j
                 PROVE  <<list[i], list[j]>> \in R
      BY <1>7 DEF InOrderOf
    <2>1. list[i] # list[j]
      BY <1>1, <1>7
    <2>2. <<list[j], list[i]>> \notin R
      BY <1>1, <1>4, <1>7
    <2> QED BY <1>7, <2>1, <2>2 DEF StrictOrder
  <1> QED BY <1>1, <1>7, <1>8 DEF n

\* And such a list has every element once.
LEMMA ListIsWhole ==
    ASSUME NEW S, NEW R, NEW list, NEW n, n \in Nat, IsFiniteSet(S), n = Cardinality(S),
           StrictOrder(R, S), InOrderOf(R, list), list \in [1..n -> S]
    PROVE  /\ \A i, j \in 1..n : list[i] = list[j] => i = j
           /\ \A x \in S : \E i \in 1..n : list[i] = x
  <1>1. \A i, j \in 1..n : list[i] = list[j] => i = j
    <2> SUFFICES ASSUME NEW i \in 1..n, NEW j \in 1..n, i # j PROVE list[i] # list[j]
      OBVIOUS
    <2>1. i < j \/ j < i
      OBVIOUS
    <2>2. <<list[i], list[j]>> \in R \/ <<list[j], list[i]>> \in R
      BY <2>1 DEF InOrderOf
    <2> QED BY <2>2 DEF StrictOrder
  <1>2. IsFiniteSet(1..n) /\ Cardinality(1..n) = n
    <2>1. 1 \in Int /\ n \in Int
      OBVIOUS
    <2>2. IsFiniteSet(1..n) /\ Cardinality(1..n) = IF 1 > n THEN 0 ELSE n - 1 + 1
      BY <2>1, FS_Interval
    <2> QED BY <2>2
  <1>3. list \in Injection(1..n, S)
    BY <1>1 DEF Injection, IsInjective
  <1>4. list \in Surjection(1..n, S)
    BY <1>2, <1>3, FS_Injection
  <1> QED BY <1>1, <1>4 DEF Surjection

-----------------------------------------------------------------------------
(* Retrieval: the fusion *)

LEMMA ShareProps ==
    ASSUME NEW hits \in Seq(Hit), NEW weight \in Nat
    PROVE  /\ \A p : Lists(hits, p) => Rank(hits, p) \in 1..Len(hits)
           /\ Len(hits) \in Nat
           /\ \A p : Share(hits, weight, p) \in Nat
           /\ \A a, b : (Lists(hits, b) => Lists(hits, a) /\ Rank(hits, a) < Rank(hits, b))
                          => Share(hits, weight, b) <= Share(hits, weight, a)
  <1>1. Len(hits) \in Nat /\ DOMAIN hits = 1..Len(hits)
    BY LenProperties
  <1>2. \A p : Lists(hits, p) => Rank(hits, p) \in 1..Len(hits)
    BY <1>1, RankProps
  <1> DEFINE portion(p) == Common \div (RrfK + Rank(hits, p))
  <1>3. \A p : Lists(hits, p) => RrfK + Rank(hits, p) \in Nat \ {0} /\ portion(p) \in Nat
    <2> SUFFICES ASSUME NEW p, Lists(hits, p)
                 PROVE  RrfK + Rank(hits, p) \in Nat \ {0} /\ portion(p) \in Nat
      OBVIOUS
    <2>1. /\ RrfK + Rank(hits, p) \in Nat \ {0}
          /\ RrfK + Rank(hits, p) <= RrfK + Rank(hits, p)
      BY <1>1, <1>2 DEF RrfK
    <2>2. Common \in Nat
      BY RetrievalAssumption
    <2> QED BY <2>1, <2>2, SmallerShare
  <1>4. \A a, b : Lists(hits, a) /\ Lists(hits, b) /\ Rank(hits, a) < Rank(hits, b)
                    => portion(b) <= portion(a)
    <2> SUFFICES ASSUME NEW a, NEW b, Lists(hits, a), Lists(hits, b),
                        Rank(hits, a) < Rank(hits, b)
                 PROVE  portion(b) <= portion(a)
      OBVIOUS
    <2>1. /\ RrfK + Rank(hits, a) \in Nat \ {0} /\ RrfK + Rank(hits, b) \in Nat \ {0}
          /\ RrfK + Rank(hits, a) <= RrfK + Rank(hits, b)
      BY <1>1, <1>2 DEF RrfK
    <2> QED BY <2>1, SmallerShare, RetrievalAssumption
  <1>5. \A p : Share(hits, weight, p) = IF Lists(hits, p) THEN weight * portion(p) ELSE 0
    BY DEF Share
  <1> HIDE DEF portion
  <1>6. \A p : Share(hits, weight, p) \in Nat
    <2> SUFFICES ASSUME NEW p PROVE Share(hits, weight, p) \in Nat
      OBVIOUS
    <2>1. CASE Lists(hits, p)
      <3>1. portion(p) \in Nat /\ Share(hits, weight, p) = weight * portion(p)
        BY <1>3, <1>5, <2>1
      <3> QED BY <3>1
    <2>2. CASE ~Lists(hits, p)
      BY <1>5, <2>2
    <2> QED BY <2>1, <2>2
  <1>7. ASSUME NEW a, NEW b, Lists(hits, b) => Lists(hits, a) /\ Rank(hits, a) < Rank(hits, b)
        PROVE  Share(hits, weight, b) <= Share(hits, weight, a)
    <2>1. CASE Lists(hits, b)
      <3>1. /\ portion(a) \in Nat /\ portion(b) \in Nat /\ portion(b) <= portion(a)
            /\ Share(hits, weight, a) = weight * portion(a)
            /\ Share(hits, weight, b) = weight * portion(b)
        BY <1>3, <1>4, <1>5, <1>7, <2>1
      <3>2. weight * portion(b) <= weight * portion(a)
        BY <3>1
      <3> QED BY <3>1, <3>2
    <2>2. CASE ~Lists(hits, b)
      <3>1. Share(hits, weight, b) = 0 /\ Share(hits, weight, a) \in Nat
        BY <1>5, <1>6, <2>2
      <3> QED BY <3>1
    <2> QED BY <2>1, <2>2
  <1> QED BY <1>1, <1>2, <1>6, <1>7

\* A passage enters the dictionary once, and the vector hits before all others.
LEMMA EnteredProps ==
    ASSUME NEW v \in Seq(Hit), NEW k \in Seq(Hit)
    PROVE  /\ \A p \in Listed(v, k) : Entered(v, k, p) \in Nat
           /\ \A p, q \in Listed(v, k) : Entered(v, k, p) = Entered(v, k, q) => p = q
  <1>1. /\ Len(v) \in Nat /\ Len(k) \in Nat
        /\ \A p : Lists(v, p) => Rank(v, p) \in 1..Len(v) /\ v[Rank(v, p)].id = p
        /\ \A p : Lists(k, p) => Rank(k, p) \in 1..Len(k) /\ k[Rank(k, p)].id = p
    BY ShareProps, RankProps
  <1>2. \A p \in Listed(v, k) :
           \/ Lists(v, p) /\ Entered(v, k, p) = Rank(v, p) /\ Entered(v, k, p) \in 1..Len(v)
           \/ /\ Lists(k, p) /\ Entered(v, k, p) = Len(v) + Rank(k, p)
              /\ Entered(v, k, p) \in Nat /\ Entered(v, k, p) > Len(v)
              /\ Rank(k, p) \in Nat
    BY <1>1 DEF Entered, Listed
  <1>3. ASSUME NEW p \in Listed(v, k), NEW q \in Listed(v, k),
               Entered(v, k, p) = Entered(v, k, q)
        PROVE  p = q
    <2>1. CASE Entered(v, k, p) <= Len(v)
      <3>1. Lists(v, p) /\ Lists(v, q) /\ Rank(v, p) = Rank(v, q)
        BY <1>1, <1>2, <1>3, <2>1
      <3> QED BY <1>1, <3>1
    <2>2. CASE ~(Entered(v, k, p) <= Len(v))
      <3>1. /\ Lists(k, p) /\ Lists(k, q) /\ Rank(k, p) \in Nat /\ Rank(k, q) \in Nat
            /\ Len(v) + Rank(k, p) = Len(v) + Rank(k, q)
        BY <1>1, <1>2, <1>3, <2>2
      <3>2. Rank(k, p) = Rank(k, q)
        BY <1>1, <3>1
      <3> QED BY <1>1, <3>1, <3>2
    <2> QED BY <2>1, <2>2
  <1>4. \A p \in Listed(v, k) : Entered(v, k, p) \in Nat
    BY <1>1, <1>2
  <1> QED BY <1>3, <1>4

Ahead(v, k) == {pair \in Listed(v, k) \X Listed(v, k) : Above(v, k, pair[1], pair[2])}

LEMMA AboveIsOrder ==
    ASSUME NEW v \in Seq(Hit), NEW k \in Seq(Hit)
    PROVE  IsFiniteSet(Listed(v, k)) /\ StrictOrder(Ahead(v, k), Listed(v, k))
  <1> DEFINE S == Listed(v, k)
             score(p) == Rrf(v, k, p)
             entered(p) == Entered(v, k, p)
  <1>1. IsFiniteSet(S)
    <2>1. S \subseteq Passages
      BY DEF Listed
    <2> HIDE DEF S
    <2> QED BY <2>1, FS_Subset, RetrievalAssumption
  <1>2. \A p \in S : score(p) \in Nat /\ entered(p) \in Nat
    <2>1. \A p : Share(v, VectorWeight, p) \in Nat /\ Share(k, KeywordWeight, p) \in Nat
      <3>1. VectorWeight \in Nat /\ KeywordWeight \in Nat
        BY DEF VectorWeight, KeywordWeight
      <3> QED BY <3>1, ShareProps
    <2>2. \A p : Rrf(v, k, p) \in Nat
      BY <2>1 DEF Rrf
    <2> QED BY <2>2, EnteredProps
  <1>3. \A p, q \in S : entered(p) = entered(q) => p = q
    BY EnteredProps
  <1>4. \A p, q \in S : <<p, q>> \in Ahead(v, k) <=>
           (score(p) > score(q) \/ (score(p) = score(q) /\ entered(p) < entered(q)))
    BY DEF Ahead, Above
  <1> HIDE DEF S, score, entered
  <1>5. \A x \in S : <<x, x>> \notin Ahead(v, k)
    BY <1>2, <1>4
  <1>6. \A x, y, z \in S : <<x, y>> \in Ahead(v, k) /\ <<y, z>> \in Ahead(v, k)
                             => <<x, z>> \in Ahead(v, k)
    BY <1>2, <1>4
  <1>7. \A x, y \in S : x # y => <<x, y>> \in Ahead(v, k) \/ <<y, x>> \in Ahead(v, k)
    <2> SUFFICES ASSUME NEW x \in S, NEW y \in S, x # y
                 PROVE  <<x, y>> \in Ahead(v, k) \/ <<y, x>> \in Ahead(v, k)
      OBVIOUS
    <2>1. entered(x) # entered(y)
      BY <1>3
    <2> QED BY <1>2, <1>4, <2>1
  <1> QED BY <1>1, <1>5, <1>6, <1>7 DEF StrictOrder, S

\* The fused ranking has every listed passage once, each above those that follow it.
LEMMA FusedProps ==
    ASSUME NEW v \in Seq(Hit), NEW k \in Seq(Hit)
    PROVE  LET order == Fused(v, k)
           IN  /\ order \in Seq(Passages)
               /\ \A i, j \in 1..Len(order) : order[i] = order[j] => i = j
               /\ \A p \in Listed(v, k) : \E i \in 1..Len(order) : order[i] = p
               /\ \A i \in 1..Len(order) : order[i] \in Listed(v, k)
               /\ \A i, j \in 1..Len(order) : i < j => Above(v, k, order[i], order[j])
  <1> DEFINE S == Listed(v, k)
             n == Cardinality(S)
             order == Fused(v, k)
  <1>1. IsFiniteSet(S) /\ StrictOrder(Ahead(v, k), S)
    BY AboveIsOrder
  <1>2. /\ n \in Nat
        /\ \E list \in [1..n -> S] : InOrderOf(Ahead(v, k), list)
    BY <1>1, OrderHasList
  <1>3. \A list \in [1..n -> S] :
           InOrderOf(Ahead(v, k), list) <=>
           \A i, j \in DOMAIN list : i < j => Above(v, k, list[i], list[j])
    BY DEF InOrderOf, Ahead
  <1>4. order \in [1..n -> S] /\ \A i, j \in 1..n : i < j => Above(v, k, order[i], order[j])
    <2>1. \E list \in [1..n -> S] :
             \A i, j \in DOMAIN list : i < j => Above(v, k, list[i], list[j])
      BY <1>2, <1>3
    <2>2. order \in [1..n -> S] /\ \A i, j \in DOMAIN order : i < j => Above(v, k, order[i], order[j])
      BY <2>1 DEF Fused
    <2> QED BY <2>2
  <1> HIDE DEF order
  <1>5. InOrderOf(Ahead(v, k), order)
    BY <1>3, <1>4
  <1>6. /\ \A i, j \in 1..n : order[i] = order[j] => i = j
        /\ \A x \in S : \E i \in 1..n : order[i] = x
    <2>1. n = Cardinality(S) /\ order \in [1..n -> S]
      BY <1>4
    <2> DEFINE R == Ahead(v, k)
    <2>2. IsFiniteSet(S) /\ StrictOrder(R, S) /\ InOrderOf(R, order)
      BY <1>1, <1>5
    <2> HIDE DEF S, n, R
    <2> QED BY <1>2, <2>1, <2>2, ListIsWhole
  <1> HIDE DEF n
  <1>7. S \subseteq Passages
    BY DEF Listed
  <1> HIDE DEF S
  <1>8. order \in Seq(Passages) /\ Len(order) = n
    <2>1. order \in [1..n -> Passages]
      BY <1>4, <1>7
    <2>2. order \in Seq(Passages)
      BY <1>2, <2>1, SeqDef
    <2>3. Len(order) \in Nat /\ DOMAIN order = 1..Len(order) /\ DOMAIN order = 1..n
      BY <2>1, <2>2, LenProperties
    <2> QED BY <1>2, <2>1, <2>2, <2>3
  <1>9. \A i \in 1..Len(order) : order[i] \in S
    BY <1>4, <1>8
  <1> QED BY <1>4, <1>6, <1>8, <1>9 DEF order, S

\* What both channels agree on, and an order that keeps it.
Agrees(v, k, a, b) ==
    /\ a # b /\ (Lists(v, b) \/ Lists(k, b))
    /\ Lists(v, b) => Lists(v, a) /\ Rank(v, a) < Rank(v, b)
    /\ Lists(k, b) => Lists(k, a) /\ Rank(k, a) < Rank(k, b)

Keeps(order, v, k) ==
    \A a, b \in Passages : Agrees(v, k, a, b) =>
        \A j \in 1..Len(order) : order[j] = b => \E i \in 1..Len(order) : i < j /\ order[i] = a

Ranking(order) ==
    order \in Seq(Passages) /\ \A i, j \in 1..Len(order) : order[i] = order[j] => i = j

\* In the fused order: what agrees has the greater score, or came in earlier.
LEMMA FusedKeeps ==
    ASSUME NEW v \in Seq(Hit), NEW k \in Seq(Hit)
    PROVE  Ranking(Fused(v, k)) /\ Keeps(Fused(v, k), v, k)
  <1> DEFINE order == Fused(v, k)
  <1>1. /\ order \in Seq(Passages)
        /\ \A i, j \in 1..Len(order) : order[i] = order[j] => i = j
        /\ \A p \in Listed(v, k) : \E i \in 1..Len(order) : order[i] = p
        /\ \A i \in 1..Len(order) : order[i] \in Listed(v, k)
        /\ \A i, j \in 1..Len(order) : i < j => Above(v, k, order[i], order[j])
    BY FusedProps
  <1> HIDE DEF order
  <1>2. ASSUME NEW a \in Passages, NEW b \in Passages, Agrees(v, k, a, b)
        PROVE  a \in Listed(v, k) /\ ~Above(v, k, b, a)
    <2>1. a \in Listed(v, k)
      BY <1>2 DEF Agrees, Listed
    <2>2. Rrf(v, k, b) <= Rrf(v, k, a) /\ Rrf(v, k, b) \in Nat /\ Rrf(v, k, a) \in Nat
      <3>1. VectorWeight \in Nat /\ KeywordWeight \in Nat
        BY DEF VectorWeight, KeywordWeight
      <3>2. /\ Lists(v, b) => Lists(v, a) /\ Rank(v, a) < Rank(v, b)
            /\ Lists(k, b) => Lists(k, a) /\ Rank(k, a) < Rank(k, b)
        BY <1>2 DEF Agrees
      <3>3. /\ Share(v, VectorWeight, b) <= Share(v, VectorWeight, a)
            /\ Share(v, VectorWeight, a) \in Nat /\ Share(v, VectorWeight, b) \in Nat
        BY <3>1, <3>2, ShareProps
      <3>4. /\ Share(k, KeywordWeight, b) <= Share(k, KeywordWeight, a)
            /\ Share(k, KeywordWeight, a) \in Nat /\ Share(k, KeywordWeight, b) \in Nat
        BY <3>1, <3>2, ShareProps
      <3> QED BY <3>3, <3>4 DEF Rrf
    <2>3. Entered(v, k, a) < Entered(v, k, b)
          /\ Entered(v, k, a) \in Nat /\ Entered(v, k, b) \in Nat
      <3>1. /\ Len(v) \in Nat
            /\ \A p : Lists(v, p) => Rank(v, p) \in 1..Len(v)
            /\ \A p : Lists(k, p) => Rank(k, p) \in 1..Len(k)
            /\ Len(k) \in Nat
        BY ShareProps
      <3>2. CASE Lists(v, b)
        <4>1. /\ Entered(v, k, a) = Rank(v, a) /\ Entered(v, k, b) = Rank(v, b)
              /\ Rank(v, a) < Rank(v, b) /\ Rank(v, a) \in Nat /\ Rank(v, b) \in Nat
          BY <1>2, <3>1, <3>2 DEF Agrees, Entered
        <4> QED BY <4>1
      <3>3. CASE ~Lists(v, b)
        <4>1. /\ Lists(k, b) /\ Lists(k, a) /\ Rank(k, a) < Rank(k, b)
              /\ Entered(v, k, b) = Len(v) + Rank(k, b)
              /\ Rank(k, a) \in Nat /\ Rank(k, b) \in Nat /\ Rank(k, b) > 0
          BY <1>2, <3>1, <3>3 DEF Agrees, Entered
        <4>2. CASE Lists(v, a)
          <5>1. Entered(v, k, a) = Rank(v, a) /\ Rank(v, a) \in 1..Len(v)
            BY <3>1, <4>2 DEF Entered
          <5> QED BY <3>1, <4>1, <5>1
        <4>3. CASE ~Lists(v, a)
          <5>1. Entered(v, k, a) = Len(v) + Rank(k, a)
            BY <4>3 DEF Entered
          <5> QED BY <3>1, <4>1, <5>1
        <4> QED BY <4>2, <4>3
      <3> QED BY <3>2, <3>3
    <2>4. ~(Rrf(v, k, b) > Rrf(v, k, a)) /\ ~(Entered(v, k, b) < Entered(v, k, a))
      BY <2>2, <2>3
    <2> QED BY <2>1, <2>4 DEF Above
  <1>3. ASSUME NEW a \in Passages, NEW b \in Passages, Agrees(v, k, a, b),
               NEW j \in 1..Len(order), order[j] = b
        PROVE  \E i \in 1..Len(order) : i < j /\ order[i] = a
    <2>1. PICK i \in 1..Len(order) : order[i] = a
      BY <1>1, <1>2, <1>3
    <2>2. i # j
      BY <1>3, <2>1 DEF Agrees
    <2>3. ~ (j < i)
      BY <1>1, <1>2, <1>3, <2>1
    <2>4. Len(order) \in Nat
      BY <1>1, LenProperties
    <2> QED BY <2>1, <2>2, <2>3, <2>4
  <1> QED BY <1>1, <1>3 DEF Ranking, Keeps, order

\* A single channel's order is its ranking.
LEMMA SingleKeeps ==
    ASSUME NEW hits \in Seq(Hit), Distinct(hits), NEW v, NEW k,
           \/ v = hits /\ k = <<>>
           \/ v = <<>> /\ k = hits
    PROVE  LET order == [i \in DOMAIN hits |-> hits[i].id]
           IN  Ranking(order) /\ Keeps(order, v, k)
  <1> DEFINE order == [i \in DOMAIN hits |-> hits[i].id]
  <1>1. /\ Len(hits) \in Nat /\ DOMAIN hits = 1..Len(hits)
        /\ \A i \in 1..Len(hits) : hits[i].id \in Passages
    <2>1. \A i \in 1..Len(hits) : hits[i] \in Hit
      BY ElementOfSeq
    <2> QED BY <2>1, LenProperties DEF Hit
  <1>2. /\ order \in Seq(Passages) /\ Len(order) = Len(hits)
        /\ \A i \in 1..Len(hits) : order[i] = hits[i].id
    <2>1. order \in [1..Len(hits) -> Passages]
      BY <1>1
    <2>2. order \in Seq(Passages)
      BY <1>1, <2>1, SeqDef
    <2>3. Len(order) \in Nat /\ DOMAIN order = 1..Len(order) /\ DOMAIN order = 1..Len(hits)
      BY <2>1, <2>2, LenProperties
    <2> QED BY <1>1, <2>2, <2>3
  <1> HIDE DEF order
  <1>3. Ranking(order)
    BY <1>1, <1>2 DEF Ranking, Distinct
  <1>4. \A p : ~Lists(<<>>, p)
    BY DEF Lists
  <1>5. ASSUME NEW a \in Passages, NEW b \in Passages, Agrees(v, k, a, b),
               NEW j \in 1..Len(order), order[j] = b
        PROVE  \E i \in 1..Len(order) : i < j /\ order[i] = a
    <2>1. Lists(hits, a) /\ Lists(hits, b) /\ Rank(hits, a) < Rank(hits, b)
      BY <1>4, <1>5 DEF Agrees
    <2>2. Rank(hits, b) = j
      BY <1>1, <1>2, <1>5, <2>1, RankProps
    <2>3. Rank(hits, a) \in 1..Len(hits) /\ order[Rank(hits, a)] = a
      BY <1>1, <1>2, <2>1, RankProps
    <2> QED BY <1>2, <2>1, <2>2, <2>3
  <1> QED BY <1>3, <1>5 DEF Keeps, order

Cut(order, source, v, k, n) == Best([i \in DOMAIN order |-> Result(source, v, k, order[i])], n)

\* Cut to length, the results keep what the order keeps.
LEMMA CutKeeps ==
    ASSUME NEW v \in Seq(Hit), NEW k \in Seq(Hit), NEW n \in Nat, NEW order,
           NEW source \in {"vector", "bm25", "fused"}, Ranking(order), Keeps(order, v, k)
    PROVE  LET results == Cut(order, source, v, k, n)
           IN  /\ results \in Seq(Source) /\ Distinct(results)
               /\ \A a, b \in Passages : Agrees(v, k, a, b) /\ Lists(results, b)
                     => Lists(results, a) /\ Rank(results, a) < Rank(results, b)
  <1> DEFINE all == [i \in DOMAIN order |-> Result(source, v, k, order[i])]
             results == Best(all, n)
  <1>1. /\ order \in Seq(Passages) /\ Len(order) \in Nat /\ DOMAIN order = 1..Len(order)
        /\ \A i \in 1..Len(order) : order[i] \in Passages
        /\ \A i, j \in 1..Len(order) : order[i] = order[j] => i = j
    BY LenProperties, ElementOfSeq DEF Ranking
  <1>2. \A p \in Passages : Result(source, v, k, p) \in Source /\ Result(source, v, k, p).id = p
    <2>1. ASSUME NEW hits \in Seq(Hit), NEW p, Lists(hits, p)
          PROVE  hits[Rank(hits, p)].score \in Strengths
      <3>1. Rank(hits, p) \in 1..Len(hits)
        BY <2>1, ShareProps
      <3>2. hits[Rank(hits, p)] \in Hit
        BY <3>1, ElementOfSeq
      <3> QED BY <3>2 DEF Hit
    <2> QED BY <2>1 DEF Result, Source
  <1>3. /\ all \in Seq(Source) /\ Len(all) = Len(order)
        /\ \A i \in 1..Len(order) : all[i].id = order[i]
    <2>1. all \in [1..Len(order) -> Source]
      BY <1>1, <1>2
    <2>2. all \in Seq(Source)
      BY <1>1, <2>1, SeqDef
    <2>3. Len(all) \in Nat /\ DOMAIN all = 1..Len(all) /\ DOMAIN all = 1..Len(order)
      BY <2>1, <2>2, LenProperties
    <2>4. \A i \in 1..Len(order) : all[i].id = order[i]
      BY <1>1, <1>2
    <2> QED BY <1>1, <2>2, <2>3, <2>4
  <1> HIDE DEF all
  <1>4. /\ results \in Seq(Source) /\ DOMAIN results = 1..Len(results)
        /\ Len(results) = IF Len(all) > n THEN n ELSE Len(all)
        /\ \A i \in 1..Len(results) : i \in 1..Len(all) /\ results[i] = all[i]
    BY <1>3, BestProps
  <1> HIDE DEF results
  <1>5. /\ Len(results) \in Nat
        /\ \A i \in 1..Len(results) : i \in 1..Len(order) /\ results[i].id = order[i]
    BY <1>1, <1>3, <1>4
  <1>6. Distinct(results)
    BY <1>1, <1>4, <1>5 DEF Distinct
  <1>7. ASSUME NEW a \in Passages, NEW b \in Passages, Agrees(v, k, a, b), Lists(results, b)
        PROVE  Lists(results, a) /\ Rank(results, a) < Rank(results, b)
    <2> DEFINE j == Rank(results, b)
    <2>1. j \in 1..Len(results) /\ results[j].id = b
      BY <1>4, <1>7, RankProps
    <2> HIDE DEF j
    <2>2. j \in 1..Len(order) /\ order[j] = b
      BY <1>5, <2>1
    <2>3. PICK i \in 1..Len(order) : i < j /\ order[i] = a
      BY <1>7, <2>2 DEF Keeps
    <2>4. i \in 1..Len(results) /\ results[i].id = a
      BY <1>1, <1>5, <2>1, <2>3
    <2>5. Lists(results, a)
      BY <1>4, <2>4 DEF Lists
    <2>6. i = Rank(results, a)
      BY <1>4, <1>6, <2>4, <2>5, RankProps
    <2> QED BY <2>3, <2>5, <2>6 DEF j
  <1> QED BY <1>4, <1>6, <1>7 DEF Cut, all, results

Found(v) == IF v = None THEN <<>> ELSE v

LEMMA RetrievedProps ==
    ASSUME topK \in 1..MaxTopK, NEW v \in VectorHits, NEW k \in KeywordHits
    PROVE  /\ v \in Seq(Hit) \cup {None} /\ k \in Seq(Hit)
           /\ Retrieved(v, k) \in Seq(Source) /\ Distinct(Retrieved(v, k))
           /\ \A a, b \in Passages : Agrees(Found(v), k, a, b) /\ Lists(Retrieved(v, k), b)
                 => /\ Lists(Retrieved(v, k), a)
                    /\ Rank(Retrieved(v, k), a) < Rank(Retrieved(v, k), b)
  <1> DEFINE found == Found(v)
             source == IF k = <<>> THEN "vector" ELSE IF found = <<>> THEN "bm25" ELSE "fused"
             single == [i \in DOMAIN (found \o k) |-> (found \o k)[i].id]
             order == IF source = "fused" THEN Fused(found, k) ELSE single
  <1>1. /\ found \in Seq(Hit) /\ Distinct(found) /\ k \in Seq(Hit) /\ Distinct(k)
        /\ v \in Seq(Hit) \cup {None}
    <2>1. <<>> \in Seq(Hit) /\ Distinct(<<>>)
      BY EmptySeq DEF Distinct
    <2>2. \A h \in Hits : h \in Seq(Hit) /\ Distinct(h)
      BY HitsProps
    <2>3. found \in Hits \cup {<<>>} /\ k \in Hits /\ v \in Hits \cup {None}
      BY DEF VectorHits, KeywordHits, Found
    <2> HIDE DEF found
    <2> QED BY <2>1, <2>2, <2>3
  <1>2. Recall \in Nat
    BY RetrievalAssumption DEF Recall, Widening
  <1>3. Retrieved(v, k) = Cut(order, source, found, k, Recall)
    BY DEF Retrieved, Cut, Found
  <1> HIDE DEF found
  <1>4. Ranking(order) /\ Keeps(order, found, k) /\ source \in {"vector", "bm25", "fused"}
    <2>1. CASE k = <<>>
      <3>1. found \o k = found
        BY <1>1, <2>1, ConcatEmptySeq
      <3>2. order = [i \in DOMAIN found |-> found[i].id] /\ source = "vector"
        BY <2>1, <3>1
      <3> HIDE DEF order
      <3> QED BY <1>1, <2>1, <3>2, SingleKeeps
    <2>2. CASE k # <<>> /\ found = <<>>
      <3>1. found \o k = k
        BY <1>1, <2>2, ConcatEmptySeq
      <3>2. order = [i \in DOMAIN k |-> k[i].id] /\ source = "bm25"
        BY <2>2, <3>1
      <3> HIDE DEF order
      <3> QED BY <1>1, <2>2, <3>2, SingleKeeps
    <2>3. CASE k # <<>> /\ found # <<>>
      <3>1. order = Fused(found, k) /\ source = "fused"
        BY <2>3
      <3> HIDE DEF order
      <3> QED BY <1>1, <3>1, FusedKeeps
    <2> QED BY <2>1, <2>2, <2>3
  <1> HIDE DEF order, source
  <1>5. /\ Cut(order, source, found, k, Recall) \in Seq(Source)
        /\ Distinct(Cut(order, source, found, k, Recall))
        /\ \A a, b \in Passages :
              Agrees(found, k, a, b) /\ Lists(Cut(order, source, found, k, Recall), b)
                 => /\ Lists(Cut(order, source, found, k, Recall), a)
                    /\ Rank(Cut(order, source, found, k, Recall), a)
                         < Rank(Cut(order, source, found, k, Recall), b)
    BY <1>1, <1>2, <1>4, CutKeeps
  <1> QED BY <1>1, <1>3, <1>5 DEF found

-----------------------------------------------------------------------------
(* Retrieval: the assessment *)

\* The confidence is a percentage, and over the threshold some source has it.
LEMMA ConfidenceProps ==
    ASSUME NEW results \in Seq(Source)
    PROVE  /\ Confidence(results) \in 0..100
           /\ Confidence(results) >= Threshold =>
                \E i \in DOMAIN results : \E c \in {"vector", "bm25"} :
                   results[i][c] # None /\ results[i][c] >= Threshold
  <1> DEFINE n == IF results # <<>> /\ results[1].source = "fused" THEN Lookback ELSE 1
             first == Best(results, n)
  <1>1. n \in Nat
    BY DEF Lookback
  <1> HIDE DEF n
  <1>2. /\ first \in Seq(Source) /\ DOMAIN first = 1..Len(first)
        /\ \A i \in DOMAIN first : i \in DOMAIN results /\ first[i] = results[i]
    BY <1>1, BestProps
  <1> HIDE DEF first
  <1>3. \A c \in {"vector", "bm25"} : \A i \in DOMAIN first : first[i][c] \in Strengths \cup {None}
    <2>1. \A i \in DOMAIN first : first[i] \in Source
      BY <1>2, ElementOfSeq
    <2> QED BY <2>1 DEF Source
  <1>4. ASSUME NEW c \in {"vector", "bm25"}, Scores(first, c) # {}
        PROVE  /\ Max(Scores(first, c)) \in 0..100
               /\ Max(Scores(first, c)) >= Threshold =>
                    \E i \in DOMAIN results :
                       results[i][c] # None /\ results[i][c] >= Threshold
    <2>1. Scores(first, c) \subseteq 0..100
      BY <1>3, RetrievalAssumption DEF Scores
    <2>2. Max(Scores(first, c)) \in Scores(first, c)
      BY <1>4, <2>1, MaxProps
    <2>3. PICK i \in DOMAIN first :
             first[i][c] # None /\ Max(Scores(first, c)) = first[i][c]
      BY <2>2 DEF Scores
    <2>4. i \in DOMAIN results /\ first[i] = results[i]
      BY <1>2
    <2> QED BY <2>1, <2>2, <2>3, <2>4
  <1>5. Confidence(results) =
          CASE Scores(first, "vector") # {} -> Max(Scores(first, "vector"))
            [] Scores(first, "vector") = {} /\ Scores(first, "bm25") # {} ->
                 Max(Scores(first, "bm25"))
            [] OTHER -> 0
    BY DEF Confidence, first, n
  <1>6. CASE Scores(first, "vector") # {}
    <2>1. Confidence(results) = Max(Scores(first, "vector"))
      BY <1>5, <1>6
    <2> QED BY <1>4, <1>6, <2>1
  <1>7. CASE Scores(first, "vector") = {} /\ Scores(first, "bm25") # {}
    <2>1. Confidence(results) = Max(Scores(first, "bm25"))
      BY <1>5, <1>7
    <2> QED BY <1>4, <1>7, <2>1
  <1>8. CASE Scores(first, "vector") = {} /\ Scores(first, "bm25") = {}
    <2>1. Confidence(results) = 0
      BY <1>5, <1>8
    <2> QED BY <2>1 DEF Threshold
  <1> QED BY <1>6, <1>7, <1>8

LEMMA AssessedProps ==
    ASSUME RagTypeOK
    PROVE  /\ Best(sources, topK) \in Seq(Source)
           /\ Best(Best(sources, topK), RefusalSources) \in Seq(Source)
           /\ Assessed(sources) \in 0..100
           /\ Assessed(sources) >= Threshold =>
                \E i \in DOMAIN Best(sources, topK) : \E c \in {"vector", "bm25"} :
                   /\ Best(sources, topK)[i][c] # None
                   /\ Best(sources, topK)[i][c] >= Threshold
  <1>1. sources \in Seq(Source) /\ topK \in Nat /\ RefusalSources \in Nat
    BY RetrievalAssumption DEF RagTypeOK, RefusalSources
  <1> DEFINE shown == Best(sources, topK)
  <1>2. shown \in Seq(Source)
    BY <1>1, BestProps
  <1>3. Assessed(sources) = Confidence(shown)
    BY DEF Assessed
  <1> HIDE DEF shown
  <1>4. Best(shown, RefusalSources) \in Seq(Source)
    BY <1>1, <1>2, BestProps
  <1> QED BY <1>2, <1>3, <1>4, ConfidenceProps DEF shown

-----------------------------------------------------------------------------
(* Retrieval: the invariant *)

\* What has been settled by each stage.
StagesOK ==
    /\ stage \in {"retrieve", "assess"} => ~grounded /\ cited = {} /\ verdict = None
    /\ stage = "generate" => grounded /\ cited = {} /\ verdict = None
    /\ stage = "verify" => /\ grounded /\ verdict = None
                           /\ text \in {"answer", "excerpts", "fallback"}
                           /\ text = "fallback" => cited = {}

\* A check that took place was of an answer that cites a passage shown.
VerdictOK ==
    verdict # None /\ verdict.checked =>
        /\ text \in {"answer", "excerpts"}
        /\ cited \cap Citable # {} /\ verdict.total > 0

\* Inductive: the badge follows from what the earlier stages have settled.
RagIInv ==
    /\ RagTypeOK
    /\ StagesOK
    /\ VerdictOK
    /\ FusionKeepsAgreement
    /\ EvidenceIsShown
    /\ BadgeIsHonest

-----------------------------------------------------------------------------
(* Retrieval: the verdict and the score *)

LEMMA VerdictProps ==
    ASSUME NEW claims \in Claims
    PROVE  /\ Verdict(claims) \in [checked : BOOLEAN, supported : Nat, total : Nat]
           /\ Verdict(claims).checked => Verdict(claims).total > 0
  <1> DEFINE judged == Judged(claims)
             upheld == {i \in judged : claims[i].supported}
  <1> DEFINE Claim == [citation : 1..(MaxTopK + 1), supported : BOOLEAN]
  <1>1. claims \in UNION {[1..m -> Claim] : m \in 0..MaxClaims}
    BY DEF Claims, BoundedSeq, SeqOf
  <1> HIDE DEF Claim
  <1>2. PICK n \in Nat : DOMAIN claims = 1..n
    <2>1. \A m \in 0..MaxClaims : m \in Nat
      BY RetrievalAssumption
    <2> QED BY <1>1, <2>1
  <1>3. IsFiniteSet(judged) /\ IsFiniteSet(upheld)
    <2>1. IsFiniteSet(1..n)
      <3>1. 1 \in Int /\ n \in Int
        OBVIOUS
      <3> QED BY <3>1, FS_Interval
    <2>2. judged \subseteq 1..n /\ upheld \subseteq 1..n
      BY <1>2 DEF Judged
    <2> HIDE DEF judged, upheld
    <2> QED BY <2>1, <2>2, FS_Subset
  <1> HIDE DEF judged, upheld
  <1>4. /\ Cardinality(judged) \in Nat /\ Cardinality(upheld) \in Nat
        /\ judged # {} => Cardinality(judged) # 0
    BY <1>3, FS_CardinalityType, FS_EmptySet
  <1>5. Verdict(claims) =
          IF judged = {} THEN Skipped
          ELSE [checked |-> TRUE, total |-> Cardinality(judged), supported |-> Cardinality(upheld)]
    BY DEF Verdict, judged, upheld
  <1>6. CASE judged = {}
    <2>1. Verdict(claims) = Skipped
      BY <1>5, <1>6
    <2> QED BY <2>1 DEF Skipped
  <1>7. CASE judged # {}
    <2>1. Verdict(claims) =
            [checked |-> TRUE, total |-> Cardinality(judged), supported |-> Cardinality(upheld)]
      BY <1>5, <1>7
    <2> QED BY <1>4, <1>7, <2>1
  <1> QED BY <1>6, <1>7

\* Only a claim that was upheld lifts the score above the retrieval's.
LEMMA ScoreProps ==
    ASSUME RagTypeOK, VerdictOK
    PROVE  /\ Score \in Nat
           /\ verdict = None \/ ~verdict.checked => Score = 10 * retrieval
           /\ Score > 10 * retrieval =>
                /\ text \in {"answer", "excerpts"} /\ cited \cap Citable # {}
                /\ verdict.supported > 0
  <1>1. retrieval \in Nat
    BY DEF RagTypeOK
  <1>2. CASE verdict = None \/ ~verdict.checked
    <2>1. Score = 10 * retrieval
      BY <1>2 DEF Score
    <2> QED BY <1>1, <1>2, <2>1
  <1>3. CASE ~(verdict = None \/ ~verdict.checked)
    <2> DEFINE s == verdict.supported
               t == verdict.total
               part == (400 * s) \div t
    <2>1. s \in Nat /\ t \in Nat /\ t > 0
      BY <1>3 DEF RagTypeOK, VerdictOK
    <2>2. Score = 6 * retrieval + part
      BY <1>3 DEF Score
    <2>3. /\ text \in {"answer", "excerpts"} /\ cited \cap Citable # {}
      BY <1>3 DEF VerdictOK
    <2> HIDE DEF s, t
    <2>4. 400 * s \in Nat /\ t \in Nat \ {0} /\ t <= t
      BY <2>1
    <2>5. part \in Nat
      BY <2>4, SmallerShare
    <2>6. s = 0 => part = 0
      <3>1. s = 0 => 400 * s = 0
        BY <2>1
      <3>2. 0 \div t = 0
        BY <2>4
      <3> QED BY <3>1, <3>2
    <2> HIDE DEF part
    <2>7. Score \in Nat /\ (Score > 10 * retrieval => s > 0)
      BY <1>1, <2>1, <2>2, <2>5, <2>6
    <2> QED BY <1>3, <2>3, <2>7 DEF s
  <1> QED BY <1>2, <1>3

-----------------------------------------------------------------------------
(* Retrieval: the invariant is inductive *)

LEMMA RagStart == RagInit => RagIInv
  <1> SUFFICES ASSUME RagInit PROVE RagIInv
    OBVIOUS
  <1> USE DEF RagInit
  <1>1. RagTypeOK
    <2>1. <<>> \in Seq(Hit) /\ <<>> \in Seq(Source)
      BY EmptySeq
    <2>2. vector \in Seq(Hit) \cup {None} /\ keyword \in Seq(Hit) /\ sources \in Seq(Source)
      BY <2>1
    <2>3. retrieval \in 0..100 /\ topK \in 1..MaxTopK
      OBVIOUS
    <2>4. grounded \in BOOLEAN /\ cited \subseteq 1..(MaxTopK + 1)
      OBVIOUS
    <2> QED BY <2>2, <2>3, <2>4 DEF RagTypeOK
  <1>2. StagesOK /\ VerdictOK
    BY DEF StagesOK, VerdictOK
  <1>3. FusionKeepsAgreement /\ EvidenceIsShown /\ BadgeIsHonest
    BY DEF FusionKeepsAgreement, EvidenceIsShown, BadgeIsHonest
  <1> QED BY <1>1, <1>2, <1>3 DEF RagIInv

LEMMA RetrieveOK == RagIInv /\ Retrieve => RagIInv'
  <1> SUFFICES ASSUME RagIInv, Retrieve PROVE RagIInv'
    OBVIOUS
  <1>1. PICK v \in VectorHits, k \in KeywordHits :
           vector' = v /\ keyword' = k /\ sources' = Retrieved(v, k)
    BY DEF Retrieve
  <1>2. /\ stage = "retrieve" /\ stage' = "assess" /\ topK' = topK
        /\ grounded' = grounded /\ retrieval' = retrieval /\ text' = text
        /\ cited' = cited /\ verdict' = verdict /\ badge' = badge /\ signal' = signal
    BY DEF Retrieve
  <1>3. topK \in 1..MaxTopK
    BY DEF RagIInv, RagTypeOK
  <1>4. /\ vector' \in Seq(Hit) \cup {None} /\ keyword' \in Seq(Hit)
        /\ sources' \in Seq(Source)
    BY <1>1, <1>3, RetrievedProps
  <1>5. RagTypeOK'
    BY <1>2, <1>4 DEF RagIInv, RagTypeOK
  <1>6. StagesOK' /\ VerdictOK' /\ EvidenceIsShown' /\ BadgeIsHonest'
    BY <1>2 DEF RagIInv, StagesOK, VerdictOK, EvidenceIsShown, BadgeIsHonest
  <1>7. FusionKeepsAgreement'
    <2> SUFFICES ASSUME NEW a \in Passages, NEW b \in Passages,
                        Agreed(a, b)', Lists(sources', b)
                 PROVE  Lists(sources', a) /\ Rank(sources', a) < Rank(sources', b)
      BY DEF FusionKeepsAgreement
    <2>1. Agrees(Found(v), k, a, b)
      <3>1. Channels' = {k} \cup ({v} \ {None})
        BY <1>1 DEF Channels
      <3>2. /\ a # b /\ \E hits \in Channels' : Lists(hits, b)
            /\ \A hits \in Channels' :
                 Lists(hits, b) => Lists(hits, a) /\ Rank(hits, a) < Rank(hits, b)
        BY DEF Agreed
      <3>3. ~Lists(<<>>, b)
        BY DEF Lists
      <3>4. CASE v = None
        BY <3>1, <3>2, <3>3, <3>4 DEF Agrees, Found
      <3>5. CASE v # None
        BY <3>1, <3>2, <3>5 DEF Agrees, Found
      <3> QED BY <3>4, <3>5
    <2>2. Lists(Retrieved(v, k), b)
      BY <1>1
    <2>3. Lists(Retrieved(v, k), a)
          /\ Rank(Retrieved(v, k), a) < Rank(Retrieved(v, k), b)
      BY <1>3, <2>1, <2>2, RetrievedProps
    <2> QED BY <1>1, <2>3
  <1> QED BY <1>5, <1>6, <1>7 DEF RagIInv

LEMMA AnswerableOK == RagIInv /\ Answerable => RagIInv'
  <1> SUFFICES ASSUME RagIInv, Answerable PROVE RagIInv'
    OBVIOUS
  <1> USE DEF Answerable
  <1>1. /\ sources' \in Seq(Source) /\ retrieval' \in 0..100
        /\ \E i \in DOMAIN sources' : \E c \in {"vector", "bm25"} :
              sources'[i][c] # None /\ sources'[i][c] >= Threshold
    BY AssessedProps DEF RagIInv
  <1>2. RagTypeOK'
    <2>1. <<>> \in Seq(Hit)
      BY EmptySeq
    <2> QED BY <1>1, <2>1 DEF RagIInv, RagTypeOK
  <1>3. StagesOK' /\ VerdictOK'
    BY DEF RagIInv, StagesOK, VerdictOK
  <1>4. FusionKeepsAgreement' /\ EvidenceIsShown' /\ BadgeIsHonest'
    BY <1>1 DEF FusionKeepsAgreement, EvidenceIsShown, BadgeIsHonest
  <1> QED BY <1>2, <1>3, <1>4 DEF RagIInv

LEMMA RefuseOK == RagIInv /\ Refuse => RagIInv'
  <1> SUFFICES ASSUME RagIInv, Refuse PROVE RagIInv'
    OBVIOUS
  <1> USE DEF Refuse
  <1>1. sources' \in Seq(Source) /\ retrieval' \in 0..100
    BY AssessedProps DEF RagIInv
  <1>2. RagTypeOK'
    <2>1. <<>> \in Seq(Hit)
      BY EmptySeq
    <2> QED BY <1>1, <2>1 DEF RagIInv, RagTypeOK
  <1>3. ~grounded' /\ verdict' = None
    BY DEF RagIInv, StagesOK
  <1>4. StagesOK' /\ VerdictOK'
    BY <1>3 DEF StagesOK, VerdictOK
  <1>5. FusionKeepsAgreement' /\ EvidenceIsShown' /\ BadgeIsHonest'
    BY <1>3 DEF FusionKeepsAgreement, EvidenceIsShown, BadgeIsHonest
  <1> QED BY <1>2, <1>4, <1>5 DEF RagIInv

LEMMA TextOK ==
    RagIInv /\ (Generate \/ ModelDown \/ SaysNothing) => RagIInv'
  <1> SUFFICES ASSUME RagIInv, Generate \/ ModelDown \/ SaysNothing PROVE RagIInv'
    OBVIOUS
  <1>1. /\ stage = "generate" /\ stage' = "verify" /\ topK' = topK
        /\ vector' = vector /\ keyword' = keyword /\ sources' = sources
        /\ grounded' = grounded /\ retrieval' = retrieval
        /\ verdict' = verdict /\ badge' = badge /\ signal' = signal
        /\ text' \in {"answer", "excerpts", "fallback"}
        /\ cited' \subseteq 1..(MaxTopK + 1) \/ cited' = cited
        /\ text' = "fallback" => cited' = cited
    BY DEF Generate, ModelDown, SaysNothing
  <1>2. RagTypeOK'
    BY <1>1 DEF RagIInv, RagTypeOK
  <1>3. StagesOK' /\ VerdictOK'
    BY <1>1 DEF RagIInv, StagesOK, VerdictOK
  <1>4. FusionKeepsAgreement' /\ EvidenceIsShown' /\ BadgeIsHonest'
    BY <1>1 DEF RagIInv, FusionKeepsAgreement, EvidenceIsShown, BadgeIsHonest
  <1> QED BY <1>2, <1>3, <1>4 DEF RagIInv

LEMMA CheckOK == RagIInv /\ (Judge \/ SkipCheck) => RagIInv'
  <1> SUFFICES ASSUME RagIInv, Judge \/ SkipCheck PROVE RagIInv'
    OBVIOUS
  <1>1. /\ stage = "verify" /\ stage' = "finish" /\ topK' = topK
        /\ vector' = vector /\ keyword' = keyword /\ sources' = sources
        /\ grounded' = grounded /\ retrieval' = retrieval
        /\ text' = text /\ cited' = cited /\ badge' = badge /\ signal' = signal
    BY DEF Judge, SkipCheck
  <1>2. /\ verdict' \in [checked : BOOLEAN, supported : Nat, total : Nat]
        /\ verdict'.checked => verdict'.total > 0 /\ ValidCitations # {}
    <2>1. CASE Judge
      <3>1. PICK claims \in Claims : verdict' = Verdict(claims)
        BY <2>1 DEF Judge
      <3>2. ValidCitations # {}
        BY <2>1 DEF Judge
      <3> QED BY <3>1, <3>2, VerdictProps
    <2>2. CASE SkipCheck
      <3>1. verdict' = Skipped
        BY <2>2 DEF SkipCheck
      <3> QED BY <3>1 DEF Skipped
    <2> QED BY <2>1, <2>2
  <1>3. RagTypeOK'
    BY <1>1, <1>2 DEF RagIInv, RagTypeOK
  <1>4. StagesOK'
    BY <1>1 DEF StagesOK
  <1>5. VerdictOK'
    <2>1. /\ text \in {"answer", "excerpts", "fallback"}
          /\ text = "fallback" => cited = {}
      BY <1>1 DEF RagIInv, StagesOK
    <2>2. Citable' = Citable
      BY <1>1 DEF Citable
    <2> QED BY <1>1, <1>2, <2>1, <2>2 DEF VerdictOK, ValidCitations
  <1>6. FusionKeepsAgreement' /\ EvidenceIsShown' /\ BadgeIsHonest'
    BY <1>1 DEF RagIInv, FusionKeepsAgreement, EvidenceIsShown, BadgeIsHonest
  <1> QED BY <1>3, <1>4, <1>5, <1>6 DEF RagIInv

LEMMA FinishOK == RagIInv /\ Finish => RagIInv'
  <1> SUFFICES ASSUME RagIInv, Finish PROVE RagIInv'
    OBVIOUS
  <1> DEFINE score == IF grounded THEN Score ELSE 10 * retrieval
             kind == CASE ~grounded \/ sources = <<>> \/ text = "fallback" -> "rag_refusal"
                       [] grounded /\ text # "fallback" /\ retrieval < WeakRetrieval ->
                            "low_retrieval_score"
                       [] OTHER -> None
  <1>1. /\ stage = "finish" /\ stage' = "done" /\ topK' = topK
        /\ vector' = vector /\ keyword' = keyword /\ sources' = sources
        /\ grounded' = grounded /\ retrieval' = retrieval
        /\ text' = text /\ cited' = cited /\ verdict' = verdict
        /\ badge' = [score |-> score, band |-> Band] /\ signal' = kind
    BY DEF Finish
  <1>2. retrieval \in Nat /\ grounded \in BOOLEAN
    BY DEF RagIInv, RagTypeOK
  <1>3. /\ Score \in Nat
        /\ verdict = None \/ ~verdict.checked => Score = 10 * retrieval
        /\ Score > 10 * retrieval =>
             /\ text \in {"answer", "excerpts"} /\ cited \cap Citable # {}
             /\ verdict.supported > 0
    BY ScoreProps DEF RagIInv
  <1>4. /\ score \in Nat
        /\ verdict = None \/ ~verdict.checked => score = 10 * retrieval
        /\ score > 10 * retrieval => grounded /\ score = Score
    BY <1>2, <1>3
  <1>5. Band \in {"low", "medium", "high"}
    BY DEF Band
  <1>6. kind \in {None, "rag_refusal", "low_retrieval_score"}
    OBVIOUS
  <1>7. ASSUME verdict = None \/ ~verdict.checked, text # "fallback"
        PROVE  Band = "low" <=> kind # None
    <2>1. Band = "low" <=> ~grounded \/ Score < 500
      <3>1. 10 * Medium = 500 /\ 10 * High = 750
        BY DEF Medium, High
      <3>2. CASE ~grounded \/ Score < 500
        BY <1>3, <3>1, <3>2 DEF Band
      <3>3. CASE ~(~grounded \/ Score < 500)
        BY <1>3, <3>1, <3>3 DEF Band
      <3> QED BY <3>2, <3>3
    <2>2. grounded => sources # <<>>
      BY DEF RagIInv, EvidenceIsShown
    <2>3. kind # None <=> ~grounded \/ retrieval < 50
      BY <1>7, <2>2, RetrievalAssumption DEF WeakRetrieval
    <2>4. Score = 10 * retrieval
      BY <1>3, <1>7
    <2>5. Score < 500 <=> retrieval < 50
      BY <1>2, <2>4
    <2> QED BY <2>1, <2>3, <2>5
  <1> HIDE DEF score, kind
  <1>8. /\ badge' \in [score : Nat, band : {"low", "medium", "high"}]
        /\ badge'.score = score /\ badge'.band = Band
    BY <1>1, <1>4, <1>5
  <1>9. RagTypeOK'
    BY <1>1, <1>6, <1>8 DEF RagIInv, RagTypeOK
  <1>10. StagesOK' /\ VerdictOK' /\ FusionKeepsAgreement' /\ EvidenceIsShown'
    <2>1. Citable' = Citable
      BY <1>1 DEF Citable
    <2> QED BY <1>1, <2>1
            DEF RagIInv, StagesOK, VerdictOK, FusionKeepsAgreement, EvidenceIsShown
  <1>11. BadgeIsHonest'
    <2>1. Citable' = Citable
      BY <1>1 DEF Citable
    <2>2. badge'.score > 10 * retrieval' =>
            /\ text' \in {"answer", "excerpts"} /\ (cited \cap Citable)' # {}
            /\ verdict'.supported > 0
      BY <1>1, <1>3, <1>4, <1>8, <2>1
    <2>3. (verdict' = None \/ ~verdict'.checked) /\ text' # "fallback" =>
            (badge'.band = "low" <=> signal' # None)
      BY <1>1, <1>7, <1>8
    <2> QED BY <2>2, <2>3 DEF BadgeIsHonest
  <1> QED BY <1>9, <1>10, <1>11 DEF RagIInv

LEMMA RagStep == RagIInv /\ [RagNext]_ragVars => RagIInv'
  <1> SUFFICES ASSUME RagIInv, [RagNext]_ragVars PROVE RagIInv'
    OBVIOUS
  <1>1. CASE UNCHANGED ragVars
    BY <1>1 DEF ragVars, RagIInv, RagTypeOK, StagesOK, VerdictOK, FusionKeepsAgreement,
                EvidenceIsShown, BadgeIsHonest, Agreed, Channels, Citable
  <1>2. CASE Retrieve \/ Answerable \/ Refuse
    BY <1>2, RetrieveOK, AnswerableOK, RefuseOK
  <1>3. CASE Generate \/ ModelDown \/ SaysNothing \/ Judge \/ SkipCheck \/ Finish
    BY <1>3, TextOK, CheckOK, FinishOK
  <1> QED BY <1>1, <1>2, <1>3 DEF RagNext

\* The invariant of a question holds from its retrieval to its badge.
THEOREM RagInductive == RagSpec => []RagIInv
  BY RagStart, RagStep, PTL DEF RagSpec

\* A passage that is above another in every channel that has the other is above
\* it in what the fusion lets through (HybridRetriever.retrieve).
THEOREM FusionIsFair == RagSpec => []FusionKeepsAgreement
  <1>1. RagIInv => FusionKeepsAgreement
    BY DEF RagIInv
  <1> QED BY RagInductive, <1>1, PTL

\* An answer is given only with a source that reaches the threshold by itself, and
\* that source is among those shown (RAGService._retrieve_and_assess).
THEOREM AnswersShowEvidence == RagSpec => []EvidenceIsShown
  <1>1. RagIInv => EvidenceIsShown
    BY DEF RagIInv
  <1> QED BY RagInductive, <1>1, PTL

\* The badge claims more than the retrieval gave only for a claim upheld, and is
\* low for an unchecked answer exactly when a gap is recorded
\* (compute_answer_confidence, _detect_rag_signal).
THEOREM BadgesAreHonest == RagSpec => []BadgeIsHonest
  <1>1. RagIInv => BadgeIsHonest
    BY DEF RagIInv
  <1> QED BY RagInductive, <1>1, PTL
=============================================================================
