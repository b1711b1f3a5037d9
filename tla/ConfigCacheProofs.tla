------------------------- MODULE ConfigCacheProofs -------------------------
(***************************************************************************)
(* Proofs about ConfigCache, for any processes, calls, requests and TTL.   *)
(***************************************************************************)
EXTENDS ConfigCache, TLAPS

\* A position that has been replaced was replaced at most a after now.
ReplacedWithin(r, a) == r # Defaults /\ r < Revision => changeAge[r + 1] =< a

\* A number drawn is at most the next; whoever has inserted has the next one,
\* and there is one such request at most; a version found is there.
EditOK ==
    /\ \A e \in Edits : edit[e].pc = "drawn" =>
          edit[e].appends /\ edit[e].version \in 1 .. Len(versions) + 1
    /\ \A e \in Edits : Holds(e) => edit[e].version = Len(versions) + 1
    /\ \A e, f \in Edits : Holds(e) /\ Holds(f) => e = f
    /\ \A e \in Edits :
          edit[e].pc \in {"inserted", "activated", "published"} /\ ~ edit[e].appends
             => edit[e].version \in DOMAIN versions

\* What a call has read is no older than the call, and than the last
\* invalidation if there was none since the call began.
LoadOK(l) ==
    /\ load[l].got =< Revision
    /\ load[l].pc = "started" => load[l].got = Defaults
    /\ load[l].pc = "read" => ReplacedWithin(load[l].got, load[l].age)
    /\ load[l].pc = "read" /\ load[l].got # Defaults /\ load[l].seq = epoch[Home[l]]
          => seen[Home[l]] =< load[l].got

\* An epoch noted is one that has been.
SeqOK(l) == load[l].pc # "idle" => load[l].seq =< epoch[Home[l]]

CacheOK(w) ==
    /\ seen[w] =< Revision
    /\ value[w] # None => value[w] =< Revision /\ ReplacedWithin(value[w], age[w])
    /\ value[w] \notin {None, Defaults} => seen[w] =< value[w]

IInv ==
    /\ TypeOK
    /\ Len(changeAge) = Len(activated)
    /\ EditOK
    /\ \A l \in Loads : LoadOK(l) /\ SeqOK(l)
    /\ \A w \in Workers : CacheOK(w)

-----------------------------------------------------------------------------
(* Types *)

LEMMA InitInv == Init => IInv
<1> SUFFICES ASSUME Init PROVE IInv
  OBVIOUS
<1> USE TTLAssumption, NoneAssumption, CrashAssumption
<1>1. TypeOK
  BY SMTT(30) DEF Init, TypeOK, Editors, Defaults, NoEdit, NoLoad, EditPC, LoadPC
<1>2. Len(changeAge) = Len(activated) /\ EditOK
  BY DEF Init, EditOK, Holds, NoEdit
<1>3. \A l \in Loads : LoadOK(l) /\ SeqOK(l)
  BY DEF Init, LoadOK, SeqOK, NoLoad, Defaults, Revision
<1>4. \A w \in Workers : CacheOK(w)
  <2>1. Revision = 1
    BY DEF Init, Revision
  <2>2. \A w \in Workers : value[w] = None /\ seen[w] = 0
    BY DEF Init
  <2> QED
    BY <2>1, <2>2, 0 =< 1 DEF CacheOK
<1> QED
  BY <1>1, <1>2, <1>3, <1>4 DEF IInv

LEMMA FunctionIsSeq ==
    ASSUME NEW S, NEW n \in Nat, NEW f \in [1 .. n -> S]
    PROVE  f \in Seq(S) /\ Len(f) = n
  OBVIOUS

LEMMA SeqElement ==
    ASSUME NEW S, NEW s \in Seq(S)
    PROVE  /\ Len(s) \in Nat /\ DOMAIN s = 1 .. Len(s)
           /\ \A i \in 1 .. Len(s) : s[i] \in S
  OBVIOUS

LEMMA SeqWidens ==
    ASSUME NEW S, NEW T, S \subseteq T, NEW s \in Seq(S), NEW t \in T
    PROVE  Append(s, t) \in Seq(T)
<1>1. s \in Seq(T)
  <2>1. /\ Len(s) \in Nat /\ s \in [1 .. Len(s) -> S]
    OBVIOUS
  <2>2. s \in [1 .. Len(s) -> T]
    BY <2>1
  <2> QED
    BY <2>1, <2>2, FunctionIsSeq
<1> QED
  BY <1>1

\* An age grows by a tick and stops at TTL.
LEMMA OlderAge ==
    ASSUME NEW a \in 0 .. TTL, NEW b \in 0 .. TTL, a =< b
    PROVE  Older(a) \in 0 .. TTL /\ Older(a) =< Older(b)
  BY TTLAssumption DEF Older

\* invalidate() keeps the types of a cache.
LEMMA InvalidateType ==
    ASSUME TypeOK, NEW w \in Workers, Invalidate(w)
    PROVE  /\ value' \in [Workers -> Nat \cup {None}]
           /\ age' \in [Workers -> 0 .. TTL]
           /\ epoch' \in [Workers -> Nat]
           /\ seen' \in [Workers -> Nat]
  BY TTLAssumption DEF TypeOK, Invalidate, Revision

\* A commit adds version Len(versions) + 1 or none, and changes no other.
LEMMA CommitVersions ==
    ASSUME TypeOK, EditOK, NEW e \in Edits, Commit(e)
    PROVE  /\ versions' \in Seq(Editors)
           /\ Len(versions') \in {Len(versions), Len(versions) + 1}
           /\ DOMAIN versions \subseteq DOMAIN versions'
           /\ \A n \in DOMAIN versions : versions'[n] = versions[n]
<1>0. Len(versions) \in Nat /\ DOMAIN versions = 1 .. Len(versions)
  BY DEF TypeOK
<1>1. CASE edit[e].appends
  <2>1. edit[e].version = Len(versions) + 1
    BY <1>1 DEF Commit, EditOK, Holds
  <2>2. DOMAIN versions \cup {edit[e].version} = 1 .. Len(versions) + 1
    BY <1>0, <2>1
  <2>3. versions' = [n \in 1 .. Len(versions) + 1 |->
                       IF n = Len(versions) + 1 THEN e ELSE versions[n]]
    BY <1>1, <2>1, <2>2 DEF Commit
  <2>4. \A n \in 1 .. Len(versions) + 1 : versions'[n] \in Editors
    BY <1>0, <2>3 DEF Editors, TypeOK
  <2>5. versions' \in [1 .. Len(versions) + 1 -> Editors]
    BY <2>3, <2>4
  <2>6. versions' \in Seq(Editors) /\ Len(versions') = Len(versions) + 1
    BY <1>0, <2>5
  <2> QED
    BY <1>0, <2>3, <2>6
<1>2. CASE ~ edit[e].appends
  BY <1>0, <1>2 DEF Commit, TypeOK
<1> QED
  BY <1>1, <1>2

\* One record of a table of records is replaced.
LEMMA Updated ==
    ASSUME NEW D, NEW S, NEW f \in [D -> S], NEW x \in D, NEW y \in S
    PROVE  [f EXCEPT ![x] = y] \in [D -> S]
  OBVIOUS

\* A request moves on with the version it has.
LEMMA Moved ==
    ASSUME TypeOK, NEW e \in Edits, NEW p \in EditPC
    PROVE  [edit[e] EXCEPT !.pc = p] \in [pc : EditPC, version : Nat, appends : BOOLEAN]
<1>1. edit[e] \in [pc : EditPC, version : Nat, appends : BOOLEAN]
  BY DEF TypeOK
<1> QED
  BY <1>1

\* A call has read the position r.
LEMMA HasRead ==
    ASSUME TypeOK, NEW l \in Loads, NEW r \in Nat
    PROVE  [load[l] EXCEPT !.pc = "read", !.got = r]
              \in [pc : LoadPC, seq : Nat, age : 0 .. TTL, got : Nat]
<1>1. load[l] \in [pc : LoadPC, seq : Nat, age : 0 .. TTL, got : Nat]
  BY DEF TypeOK
<1> QED
  BY <1>1 DEF LoadPC

LEMMA RequestType == ASSUME TypeOK, EditOK, NEW e \in Edits, Request(e) PROVE TypeOK'
<1> USE TTLAssumption, HomeAssumption DEF TypeOK, database, caches, redis, Ended, NoEdit, EditPC
<1>1. CASE DrawVersion(e)
  BY <1>1 DEF DrawVersion
<1>2. CASE InsertVersion(e)
  <2>1. Ended("failed") \in [pc : EditPC, version : Nat, appends : BOOLEAN]
    OBVIOUS
  <2>2. [edit[e] EXCEPT !.pc = "inserted"] \in [pc : EditPC, version : Nat, appends : BOOLEAN]
    BY Moved
  <2>3. edit' \in [Edits -> [pc : EditPC, version : Nat, appends : BOOLEAN]]
    BY <1>2, <2>1, <2>2, Updated DEF InsertVersion
  <2> QED
    BY <1>2, <2>3 DEF InsertVersion
<1>3. CASE FindVersion(e)
  <2>1. edit' \in [Edits -> [pc : EditPC, version : Nat, appends : BOOLEAN]]
    BY <1>3 DEF FindVersion
  <2> QED
    BY <1>3, <2>1 DEF FindVersion
<1>4. CASE Activate(e)
  <2>1. Home[e] \in Workers
    OBVIOUS
  <2>2. edit' \in [Edits -> [pc : EditPC, version : Nat, appends : BOOLEAN]]
    <3>1. [edit[e] EXCEPT !.pc = "activated"] \in [pc : EditPC, version : Nat, appends : BOOLEAN]
      BY Moved
    <3>2. edit' = [edit EXCEPT ![e] = [edit[e] EXCEPT !.pc = "activated"]]
      BY <1>4 DEF Activate
    <3> QED
      BY <3>1, <3>2, Updated
  <2>3. /\ value' \in [Workers -> Nat \cup {None}] /\ age' \in [Workers -> 0 .. TTL]
        /\ epoch' \in [Workers -> Nat] /\ seen' \in [Workers -> Nat]
    BY <1>4, <2>1, InvalidateType DEF Activate
  <2> QED
    BY <1>4, <2>2, <2>3 DEF Activate
<1>5. CASE Publish(e)
  <2>1. inbox' \in [Workers -> Nat]
    BY <1>5 DEF Publish
  <2>2. edit' \in [Edits -> [pc : EditPC, version : Nat, appends : BOOLEAN]]
    <3>1. [edit[e] EXCEPT !.pc = "published"] \in [pc : EditPC, version : Nat, appends : BOOLEAN]
      BY Moved
    <3>2. edit' = [edit EXCEPT ![e] = [edit[e] EXCEPT !.pc = "published"]]
      BY <1>5 DEF Publish
    <3> QED
      BY <3>1, <3>2, Updated
  <2> QED
    BY <1>5, <2>1, <2>2 DEF Publish
<1>6. CASE PublishFails(e)
  BY <1>6 DEF PublishFails
<1>7. CASE Commit(e)
  <2>1. edit' \in [Edits -> [pc : EditPC, version : Nat, appends : BOOLEAN]]
    BY <1>7 DEF Commit
  <2>2. versions' \in Seq(Editors)
    BY <1>7, CommitVersions
  <2>3. activated' \in Seq(DOMAIN versions')
    <3>1. DOMAIN versions \subseteq DOMAIN versions'
      BY <1>7, CommitVersions
    <3>2. edit[e].version \in DOMAIN versions'
      BY <1>7, <3>1 DEF Commit, EditOK
    <3> QED
      BY <1>7, <3>1, <3>2, SeqWidens DEF Commit
  <2>4. changeAge' \in Seq(0 .. TTL)
    BY <1>7 DEF Commit
  <2> QED
    BY <1>7, <2>1, <2>2, <2>3, <2>4 DEF Commit
<1>8. CASE Fail(e)
  BY <1>8 DEF Fail
<1> QED
  BY <1>1, <1>2, <1>3, <1>4, <1>5, <1>6, <1>7, <1>8 DEF Request

LEMMA CallType == ASSUME TypeOK, NEW l \in Loads, Call(l) PROVE TypeOK'
<1> USE TTLAssumption, HomeAssumption DEF TypeOK, database, caches, redis, LoadPC
<1>1. CASE StartLoad(l)
  <2>1. [pc |-> "started", seq |-> epoch[Home[l]], age |-> 0, got |-> Defaults]
           \in [pc : LoadPC, seq : Nat, age : 0 .. TTL, got : Nat]
    BY DEF Defaults
  <2>2. load' \in [Loads -> [pc : LoadPC, seq : Nat, age : 0 .. TTL, got : Nat]]
    BY <1>1, <2>1, Updated DEF StartLoad
  <2> QED
    BY <1>1, <2>2 DEF StartLoad
<1>2. CASE Read(l)
  <2>1. Revision \in Nat
    BY SeqElement DEF Revision
  <2>2. load' \in [Loads -> [pc : LoadPC, seq : Nat, age : 0 .. TTL, got : Nat]]
    <3>1. [load[l] EXCEPT !.pc = "read", !.got = Revision]
             \in [pc : LoadPC, seq : Nat, age : 0 .. TTL, got : Nat]
      BY <2>1, HasRead
    <3>2. load' = [load EXCEPT ![l] = [load[l] EXCEPT !.pc = "read", !.got = Revision]]
      BY <1>2 DEF Read
    <3> QED
      BY <3>1, <3>2, Updated
  <2> QED
    BY <1>2, <2>2 DEF Read
<1>3. CASE ReadFails(l)
  BY <1>3 DEF ReadFails
<1>4. CASE Store(l)
  <2>1. load' \in [Loads -> [pc : LoadPC, seq : Nat, age : 0 .. TTL, got : Nat]]
    BY <1>4 DEF Store, NoLoad, Defaults
  <2>2. value' \in [Workers -> Nat \cup {None}] /\ age' \in [Workers -> 0 .. TTL]
    <3>1. load[l].got \in Nat /\ load[l].age \in 0 .. TTL
      OBVIOUS
    <3> QED
      BY <1>4, <3>1 DEF Store
  <2> QED
    BY <1>4, <2>1, <2>2 DEF Store
<1> QED
  BY <1>1, <1>2, <1>3, <1>4 DEF Call

LEMMA SubscriberType == ASSUME TypeOK, NEW w \in Workers, Subscriber(w) PROVE TypeOK'
<1>1. CASE Subscribe(w)
  BY <1>1 DEF TypeOK, Subscribe, database, caches
<1>2. CASE Deliver(w)
  <2>1. inbox' \in [Workers -> Nat]
    BY <1>2 DEF TypeOK, Deliver
  <2> QED
    BY <1>2, <2>1, InvalidateType DEF TypeOK, Deliver, database
<1>3. CASE Lose(w)
  BY <1>3 DEF TypeOK, Lose, database, caches
<1>4. CASE ListenerDies(w)
  BY <1>4 DEF TypeOK, ListenerDies, database, caches
<1> QED
  BY <1>1, <1>2, <1>3, <1>4 DEF Subscriber

LEMMA TickType == ASSUME TypeOK, Tick PROVE TypeOK'
<1>1. \A a \in 0 .. TTL : Older(a) \in 0 .. TTL
  BY OlderAge, TTLAssumption
<1>2. changeAge' \in Seq(0 .. TTL)
  <2>1. /\ DOMAIN changeAge = 1 .. Len(changeAge)
        /\ \A r \in DOMAIN changeAge : changeAge[r] \in 0 .. TTL
    BY SeqElement DEF TypeOK
  <2>2. changeAge' \in [1 .. Len(changeAge) -> 0 .. TTL]
    BY <1>1, <2>1 DEF Tick
  <2>3. Len(changeAge) \in Nat
    BY DEF TypeOK
  <2> QED
    BY <2>2, <2>3, FunctionIsSeq
<1>3. load' \in [Loads -> [pc : LoadPC, seq : Nat, age : 0 .. TTL, got : Nat]]
  BY <1>1 DEF TypeOK, Tick
<1>4. age' \in [Workers -> 0 .. TTL]
  BY <1>1 DEF TypeOK, Tick
<1> QED
  BY <1>2, <1>3, <1>4 DEF TypeOK, Tick

LEMMA RestartType == ASSUME TypeOK, NEW w \in Workers, Restart(w) PROVE TypeOK'
<1> USE TTLAssumption DEF TypeOK, Restart, database
<1>1. edit' \in [Edits -> [pc : EditPC, version : Nat, appends : BOOLEAN]]
  BY DEF Ended, NoEdit, EditPC
<1>2. load' \in [Loads -> [pc : LoadPC, seq : Nat, age : 0 .. TTL, got : Nat]]
  BY DEF NoLoad, LoadPC, Defaults
<1>3. /\ value' \in [Workers -> Nat \cup {None}]
      /\ age' \in [Workers -> 0 .. TTL]
      /\ epoch' \in [Workers -> Nat]
      /\ seen' \in [Workers -> Nat]
  BY DEF Revision
<1>4. listener' \in [Workers -> {"starting", "up", "down"}] /\ inbox' \in [Workers -> Nat]
  OBVIOUS
<1> QED
  BY <1>1, <1>2, <1>3, <1>4

LEMMA NextType == ASSUME IInv, [Next]_vars PROVE TypeOK'
<1>1. TypeOK /\ EditOK
  BY DEF IInv
<1>2. CASE UNCHANGED vars
  BY <1>1, <1>2 DEF vars, TypeOK
<1> QED
  BY <1>1, <1>2, RequestType, CallType, SubscriberType, TickType, RestartType DEF Next

-----------------------------------------------------------------------------
(* Version numbers *)

\* Only the requests' own steps write versions, and only they move a request.
LEMMA NextEdit == ASSUME IInv, [Next]_vars PROVE EditOK'
<1> USE DEF EditOK, Holds
<1>0. TypeOK /\ EditOK /\ Len(versions) \in Nat
  BY DEF IInv, TypeOK
<1>1. CASE UNCHANGED <<edit, versions>>
  BY <1>0, <1>1
<1>2. ASSUME NEW e \in Edits, Request(e) PROVE EditOK'
  <2> USE DEF TypeOK
  <2>1. CASE DrawVersion(e)
    BY <1>0, <2>1 DEF DrawVersion, database
  <2>2. CASE InsertVersion(e)
    <3>1. CASE edit[e].version \in DOMAIN versions
      BY <1>0, <2>2, <3>1 DEF InsertVersion, database, Ended, NoEdit
    <3>2. CASE edit[e].version \notin DOMAIN versions
      <4>1. edit[e].version = Len(versions) + 1
        BY <1>0, <2>2, <3>2 DEF InsertVersion
      <4>2. \A f \in Edits : ~ Holds(f)
        BY <1>0, <2>2, <4>1 DEF InsertVersion
      <4> QED
        BY <1>0, <2>2, <3>2, <4>1, <4>2 DEF InsertVersion, database
    <3> QED
      BY <3>1, <3>2
  <2>3. CASE FindVersion(e)
    BY <1>0, <2>3 DEF FindVersion, database
  <2>4. CASE Activate(e)
    BY <1>0, <2>4 DEF Activate, database
  <2>5. CASE Publish(e)
    BY <1>0, <2>5 DEF Publish, database
  <2>6. CASE PublishFails(e)
    BY <1>0, <2>6 DEF PublishFails, database
  <2>7. CASE Commit(e)
    <3>1. Len(versions') >= Len(versions) /\ Len(versions') \in Nat
      BY <1>0, <2>7, CommitVersions
    <3>2. CASE edit[e].appends
      <4>1. \A f \in Edits : f # e => ~ Holds(f)
        BY <1>0, <2>7, <3>2 DEF Commit
      <4> QED
        BY <1>0, <2>7, <3>1, <4>1 DEF Commit, Ended, NoEdit
    <3>3. CASE ~ edit[e].appends
      BY <1>0, <2>7, <3>3 DEF Commit, Ended, NoEdit
    <3> QED
      BY <3>2, <3>3
  <2>8. CASE Fail(e)
    BY <1>0, <2>8 DEF Fail, database, Ended, NoEdit
  <2> QED
    BY <1>2, <2>1, <2>2, <2>3, <2>4, <2>5, <2>6, <2>7, <2>8 DEF Request
<1>3. ASSUME NEW w \in Workers, Restart(w) PROVE EditOK'
  <2>1. \A e \in Edits : edit'[e].pc \in {"drawn", "inserted", "activated", "published"}
                            => edit'[e] = edit[e]
    BY <1>0, <1>3 DEF Restart, TypeOK, Ended, NoEdit
  <2> QED
    BY <1>0, <1>3, <2>1 DEF Restart, database
<1> QED
  BY <1>1, <1>2, <1>3
     DEF Next, Call, Subscriber, vars, database, StartLoad, Read, ReadFails, Store,
         Subscribe, Deliver, Lose, ListenerDies, Tick

-----------------------------------------------------------------------------
(* Loads and caches *)

\* A process that invalidates is left with nothing behind what is committed,
\* and the loads under way in it with an epoch that is over.
LEMMA InvalidateKeeps ==
    ASSUME IInv, NEW w \in Workers, Invalidate(w), UNCHANGED <<database, load>>
    PROVE  /\ \A l \in Loads : LoadOK(l)' /\ SeqOK(l)'
           /\ \A v \in Workers : CacheOK(v)'
<1> USE DEF TypeOK, database, Revision, Invalidate
<1>0. TypeOK /\ Revision \in Nat
  BY DEF IInv
<1>1. ASSUME NEW l \in Loads PROVE LoadOK(l)' /\ SeqOK(l)'
  <2>1. LoadOK(l) /\ SeqOK(l) /\ Home[l] \in Workers
    BY HomeAssumption DEF IInv
  <2>2. CASE Home[l] = w
    BY <1>0, <2>1, <2>2 DEF LoadOK, SeqOK, ReplacedWithin
  <2>3. CASE Home[l] # w
    BY <1>0, <2>1, <2>3 DEF LoadOK, SeqOK, ReplacedWithin
  <2> QED
    BY <2>2, <2>3
<1>2. ASSUME NEW v \in Workers PROVE CacheOK(v)'
  <2>1. CacheOK(v)
    BY DEF IInv
  <2> QED
    BY <1>0, <2>1 DEF CacheOK, ReplacedWithin
<1> QED
  BY <1>1, <1>2

LEMMA CommitKeeps ==
    ASSUME IInv, NEW e \in Edits, Commit(e)
    PROVE  /\ Len(changeAge') = Len(activated')
           /\ \A l \in Loads : LoadOK(l)' /\ SeqOK(l)'
           /\ \A w \in Workers : CacheOK(w)'
<1> USE DEF TypeOK, Commit, Revision, caches
<1>0. TypeOK /\ Revision \in Nat /\ Len(changeAge) = Revision
  BY DEF IInv
<1>1. /\ Revision' = Revision + 1
      /\ Len(changeAge') = Revision + 1
      /\ \A r \in 1 .. Revision : changeAge'[r] = changeAge[r]
      /\ changeAge'[Revision + 1] = 0
  BY <1>0
<1>2. ASSUME NEW r \in Nat, NEW a \in 0 .. TTL, r =< Revision, ReplacedWithin(r, a)
      PROVE  r =< Revision' /\ (r # Defaults /\ r < Revision' => changeAge'[r + 1] =< a)
  <2>1. CASE r = Revision
    BY <1>0, <1>1, <2>1, TTLAssumption
  <2>2. CASE r # Revision
    BY <1>0, <1>1, <1>2, <2>2 DEF ReplacedWithin, Defaults
  <2> QED
    BY <2>1, <2>2
<1>3. ASSUME NEW l \in Loads PROVE LoadOK(l)' /\ SeqOK(l)'
  <2>1. LoadOK(l) /\ SeqOK(l) /\ load[l].got \in Nat /\ load[l].age \in 0 .. TTL
    BY <1>0 DEF IInv
  <2>2. load' = load /\ epoch' = epoch /\ seen' = seen
    OBVIOUS
  <2>3. load[l].got =< Revision'
    BY <1>0, <1>1, <2>1 DEF LoadOK
  <2>4. load[l].pc = "read" => ReplacedWithin(load[l].got, load[l].age)'
    BY <1>2, <2>1, <2>2 DEF LoadOK, ReplacedWithin
  <2> QED
    BY <2>1, <2>2, <2>3, <2>4 DEF LoadOK, SeqOK
<1>4. ASSUME NEW w \in Workers PROVE CacheOK(w)'
  <2>1. CacheOK(w) /\ value[w] \in Nat \cup {None} /\ age[w] \in 0 .. TTL /\ seen[w] \in Nat
    BY <1>0 DEF IInv
  <2>2. value' = value /\ age' = age /\ seen' = seen
    OBVIOUS
  <2> QED
    BY <1>0, <1>1, <1>2, <2>1, <2>2 DEF CacheOK, ReplacedWithin
<1> QED
  BY <1>0, <1>1, <1>3, <1>4

LEMMA CallKeeps ==
    ASSUME IInv, NEW c \in Loads, Call(c)
    PROVE  /\ \A l \in Loads : LoadOK(l)' /\ SeqOK(l)'
           /\ \A w \in Workers : CacheOK(w)'
<1> USE DEF TypeOK, Revision, database, caches
<1>0. /\ TypeOK /\ Revision \in Nat /\ Home[c] \in Workers /\ Revision' = Revision
      /\ epoch' = epoch /\ seen' = seen /\ changeAge' = changeAge
      /\ \A l \in Loads : l # c => load'[l] = load[l]
  <2>1. TypeOK /\ Revision \in Nat /\ Home[c] \in Workers
    BY HomeAssumption DEF IInv
  <2>2. Revision' = Revision /\ epoch' = epoch /\ seen' = seen /\ changeAge' = changeAge
    BY DEF Call, StartLoad, Read, ReadFails, Store
  <2>3. \A l \in Loads : l # c => load'[l] = load[l]
    BY <2>1 DEF Call, StartLoad, Read, ReadFails, Store
  <2> QED
    BY <2>1, <2>2, <2>3
<1>1. load'[c].got =< Revision
  BY <1>0 DEF IInv, LoadOK, Call, StartLoad, Read, ReadFails, Store, NoLoad, Defaults
<1>2. ASSUME NEW l \in Loads PROVE LoadOK(l)' /\ SeqOK(l)'
  <2>1. LoadOK(l) /\ SeqOK(l)
    BY DEF IInv
  <2>2. CASE l # c
    BY <1>0, <2>1, <2>2 DEF LoadOK, SeqOK, ReplacedWithin
  <2>3. CASE l = c /\ StartLoad(c)
    BY <1>0, <1>1, <2>3 DEF StartLoad, LoadOK, SeqOK, ReplacedWithin
  <2>4. CASE l = c /\ Read(c)
    <3>1. CacheOK(Home[c])
      BY <1>0 DEF IInv
    <3> QED
      BY <1>0, <1>1, <2>1, <2>4, <3>1 DEF Read, LoadOK, SeqOK, CacheOK, ReplacedWithin
  <2>5. CASE l = c /\ ReadFails(c)
    <3>1. load[c].got = Defaults
      BY <2>5 DEF IInv, LoadOK, ReadFails
    <3> QED
      BY <1>0, <1>1, <2>1, <2>5, <3>1 DEF ReadFails, LoadOK, SeqOK, ReplacedWithin, Defaults
  <2>6. CASE l = c /\ Store(c)
    BY <1>0, <1>1, <2>6 DEF Store, NoLoad, LoadOK, SeqOK, ReplacedWithin
  <2> QED
    BY <2>2, <2>3, <2>4, <2>5, <2>6 DEF Call
<1>3. ASSUME NEW w \in Workers PROVE CacheOK(w)'
  <2>1. CacheOK(w) /\ LoadOK(c)
    BY DEF IInv
  <2>2. CASE value'[w] = value[w] /\ age'[w] = age[w]
    BY <1>0, <2>1, <2>2 DEF CacheOK, ReplacedWithin
  <2>3. CASE /\ w = Home[c] /\ load[c].pc = "read" /\ load[c].seq = epoch[w]
             /\ value'[w] = load[c].got /\ age'[w] = load[c].age
    BY <1>0, <2>1, <2>3 DEF CacheOK, LoadOK, ReplacedWithin
  <2>4. \/ value'[w] = value[w] /\ age'[w] = age[w]
        \/ /\ w = Home[c] /\ load[c].pc = "read" /\ load[c].seq = epoch[w]
           /\ value'[w] = load[c].got /\ age'[w] = load[c].age
    BY <1>0 DEF Call, StartLoad, Read, ReadFails, Store
  <2> QED
    BY <2>2, <2>3, <2>4
<1> QED
  BY <1>2, <1>3

LEMMA TickKeeps ==
    ASSUME IInv, Tick
    PROVE  /\ Len(changeAge') = Len(activated')
           /\ \A l \in Loads : LoadOK(l)' /\ SeqOK(l)'
           /\ \A w \in Workers : CacheOK(w)'
<1> USE DEF TypeOK, Revision
<1>0. TypeOK /\ Revision \in Nat /\ Len(changeAge) = Revision /\ Revision' = Revision
  BY DEF IInv, Tick
<1>1. DOMAIN changeAge = 1 .. Revision /\ Len(changeAge') = Revision
  BY <1>0 DEF Tick
<1>2. ASSUME NEW r \in Nat, NEW a \in 0 .. TTL, ReplacedWithin(r, a)
      PROVE  r # Defaults /\ r < Revision => changeAge'[r + 1] =< Older(a)
  <2> SUFFICES ASSUME r # Defaults, r < Revision PROVE changeAge'[r + 1] =< Older(a)
    OBVIOUS
  <2>1. changeAge[r + 1] =< a /\ changeAge[r + 1] \in 0 .. TTL
    <3>1. r + 1 \in 1 .. Revision
      BY <1>0, <1>1, <1>2 DEF Defaults
    <3>2. changeAge[r + 1] \in 0 .. TTL
      BY <1>0, <3>1, SeqElement
    <3> QED
      BY <1>2, <3>2 DEF ReplacedWithin
  <2>2. changeAge'[r + 1] = Older(changeAge[r + 1])
    BY <1>0, <1>1 DEF Tick
  <2> QED
    BY <2>1, <2>2, OlderAge
<1>3. ASSUME NEW l \in Loads PROVE LoadOK(l)' /\ SeqOK(l)'
  <2>1. LoadOK(l) /\ SeqOK(l) /\ load[l].got \in Nat /\ load[l].age \in 0 .. TTL
    BY <1>0 DEF IInv
  <2>2. /\ load'[l] = [load[l] EXCEPT !.age = Older(@)]
        /\ epoch' = epoch /\ seen' = seen
    BY DEF Tick
  <2> QED
    BY <1>0, <1>2, <2>1, <2>2 DEF LoadOK, SeqOK, ReplacedWithin
<1>4. ASSUME NEW w \in Workers PROVE CacheOK(w)'
  <2>1. CacheOK(w) /\ value[w] \in Nat \cup {None} /\ age[w] \in 0 .. TTL
    BY <1>0 DEF IInv
  <2>2. value' = value /\ age'[w] = Older(age[w]) /\ seen' = seen
    BY DEF Tick
  <2> QED
    BY <1>0, <1>2, <2>1, <2>2 DEF CacheOK, ReplacedWithin
<1> QED
  BY <1>0, <1>1, <1>3, <1>4

LEMMA RestartKeeps ==
    ASSUME IInv, NEW w \in Workers, Restart(w)
    PROVE  /\ \A l \in Loads : LoadOK(l)' /\ SeqOK(l)'
           /\ \A v \in Workers : CacheOK(v)'
<1> USE DEF TypeOK, Revision, database, Restart
<1>0. TypeOK /\ Revision \in Nat /\ Revision' = Revision /\ changeAge' = changeAge
  BY DEF IInv
<1>1. ASSUME NEW l \in Loads PROVE LoadOK(l)' /\ SeqOK(l)'
  <2>1. LoadOK(l) /\ SeqOK(l) /\ Home[l] \in Workers
    BY HomeAssumption DEF IInv
  <2>2. CASE Home[l] = w
    BY <1>0, <2>2 DEF LoadOK, SeqOK, NoLoad, Defaults
  <2>3. CASE Home[l] # w
    <3>1. load'[l] = load[l] /\ epoch'[Home[l]] = epoch[Home[l]] /\ seen'[Home[l]] = seen[Home[l]]
      BY <1>0, <2>1, <2>3
    <3> QED
      BY <1>0, <2>1, <3>1 DEF LoadOK, SeqOK, ReplacedWithin
  <2> QED
    BY <2>2, <2>3
<1>2. ASSUME NEW v \in Workers PROVE CacheOK(v)'
  <2>1. CacheOK(v)
    BY DEF IInv
  <2> QED
    BY <1>0, <2>1 DEF CacheOK, ReplacedWithin
<1> QED
  BY <1>1, <1>2

LEMMA NextInv == IInv /\ [Next]_vars => IInv'
<1> SUFFICES ASSUME IInv, [Next]_vars PROVE IInv'
  OBVIOUS
<1>1. TypeOK' /\ EditOK'
  BY NextType, NextEdit
<1> DEFINE Kept == /\ Len(changeAge') = Len(activated')
                   /\ \A l \in Loads : LoadOK(l)' /\ SeqOK(l)'
                   /\ \A w \in Workers : CacheOK(w)'
<1>2. ASSUME UNCHANGED <<database, caches, load>> PROVE Kept
  <2>1. Len(changeAge') = Len(activated')
    BY <1>2 DEF IInv, database
  <2>2. \A l \in Loads : LoadOK(l)' /\ SeqOK(l)'
    BY <1>2 DEF IInv, database, caches, LoadOK, SeqOK, ReplacedWithin, Revision
  <2>3. \A w \in Workers : CacheOK(w)'
    BY <1>2 DEF IInv, database, caches, CacheOK, ReplacedWithin, Revision
  <2> QED
    BY <2>1, <2>2, <2>3
<1>3. ASSUME NEW e \in Edits, Activate(e) PROVE Kept
  <2>1. Home[e] \in Workers
    BY HomeAssumption
  <2> QED
    BY <1>3, <2>1, InvalidateKeeps DEF Activate, IInv, database
<1>4. ASSUME NEW w \in Workers, Deliver(w) PROVE Kept
  BY <1>4, InvalidateKeeps DEF Deliver, IInv, database
<1>5. ASSUME NEW e \in Edits, Commit(e) PROVE Kept
  BY <1>5, CommitKeeps
<1>6. ASSUME NEW l \in Loads, Call(l) PROVE Kept
  <2>1. Len(changeAge') = Len(activated')
    BY <1>6 DEF IInv, Call, StartLoad, Read, ReadFails, Store, database
  <2> QED
    BY <1>6, <2>1, CallKeeps
<1>7. ASSUME Tick PROVE Kept
  BY <1>7, TickKeeps
<1>8. ASSUME NEW w \in Workers, Restart(w) PROVE Kept
  <2>1. Len(changeAge') = Len(activated')
    BY <1>8 DEF IInv, Restart, database
  <2> QED
    BY <1>8, <2>1, RestartKeeps
<1>9. Kept
  <2>1. ASSUME NEW e \in Edits, Request(e) PROVE Kept
    <3>1. CASE UNCHANGED <<database, caches, load>>
      BY <1>2, <3>1
    <3> QED
      BY <1>3, <1>5, <2>1, <3>1 DEF Request, DrawVersion, InsertVersion, FindVersion,
         Publish, PublishFails, Fail
  <2>2. ASSUME NEW w \in Workers, Subscriber(w) PROVE Kept
    <3>1. CASE UNCHANGED <<database, caches, load>>
      BY <1>2, <3>1
    <3> QED
      BY <1>4, <2>2, <3>1 DEF Subscriber, Subscribe, Lose, ListenerDies
  <2>3. ASSUME UNCHANGED vars PROVE Kept
    BY <1>2, <2>3 DEF vars, database, caches
  <2> HIDE DEF Kept
  <2> QED
    BY <1>6, <1>7, <1>8, <2>1, <2>2, <2>3 DEF Next
<1> QED
  BY <1>1, <1>9 DEF IInv

-----------------------------------------------------------------------------
(* Theorems *)

THEOREM Invariance == Spec => []IInv
  BY InitInv, NextInv, PTL DEF Spec

\* Every variable keeps its type, and version numbers have no holes.
THEOREM TypeCorrect == Spec => []TypeOK
<1>1. IInv => TypeOK
  BY DEF IInv
<1> QED
  BY <1>1, Invariance, PTL

\* No process answers with a content that was replaced TTL ago or longer,
\* whatever Redis loses: the time-out of ConfigCache.get holds by itself.
THEOREM Bounded == Spec => []BoundedStaleness
<1>1. ASSUME IInv PROVE BoundedStaleness
  <2> SUFFICES ASSUME NEW w \in Workers, Fresh(w), value[w] # Defaults, value[w] < Revision
               PROVE  changeAge[value[w] + 1] < TTL
    BY DEF BoundedStaleness
  <2>1. TypeOK /\ CacheOK(w) /\ value[w] \in Nat /\ age[w] \in 0 .. TTL
    BY <1>1 DEF IInv, TypeOK, Fresh
  <2>2. changeAge[value[w] + 1] =< age[w] /\ age[w] < TTL
    BY <2>1 DEF CacheOK, ReplacedWithin, Fresh
  <2>3. changeAge[value[w] + 1] \in 0 .. TTL
    <3>1. /\ changeAge \in Seq(0 .. TTL) /\ Len(changeAge) = Revision /\ Revision \in Nat
      BY <1>1 DEF IInv, TypeOK, Revision
    <3>2. value[w] + 1 \in 1 .. Len(changeAge)
      BY <2>1, <3>1
    <3> QED
      BY <3>1, <3>2, SeqElement
  <2> QED
    BY <2>1, <2>2, <2>3, TTLAssumption
<1> QED
  BY <1>1, Invariance, PTL

\* The epoch guard of ConfigCache.get: a load in flight across an invalidation
\* never brings back what was current before it.
THEOREM EpochGuard == Spec => []NeverBehindInvalidation
<1>1. IInv => NeverBehindInvalidation
  BY DEF IInv, CacheOK, NeverBehindInvalidation
<1> QED
  BY <1>1, Invariance, PTL

\* D2, append only: no edit, however many race for a number, changes a version
\* that is there.
THEOREM AppendOnly == Spec => HistoryOnlyGrows
<1>1. ASSUME IInv, [Next]_vars
      PROVE  [/\ DOMAIN versions \subseteq DOMAIN versions'
              /\ \A n \in DOMAIN versions : versions'[n] = versions[n]]_versions
  <2>1. TypeOK /\ EditOK
    BY <1>1 DEF IInv
  <2>2. ASSUME NEW e \in Edits, Commit(e)
        PROVE  /\ DOMAIN versions \subseteq DOMAIN versions'
               /\ \A n \in DOMAIN versions : versions'[n] = versions[n]
    <3>1. /\ versions' \in Seq(Editors) /\ versions \in Seq(Editors)
          /\ Len(versions') \in {Len(versions), Len(versions) + 1}
          /\ \A n \in DOMAIN versions : versions'[n] = versions[n]
      BY <2>1, <2>2, CommitVersions DEF TypeOK
    <3> QED
      BY <3>1
  <2>3. UNCHANGED versions \/ \E e \in Edits : Commit(e)
    BY <1>1 DEF Next, Request, Call, Subscriber, vars, database, DrawVersion, InsertVersion,
       FindVersion, Activate, Publish, PublishFails, Fail, StartLoad, Read, ReadFails, Store,
       Subscribe, Deliver, Lose, ListenerDies, Tick, Restart
  <2> QED
    BY <2>2, <2>3
<1> QED
  BY <1>1, Invariance, PTL DEF Spec, HistoryOnlyGrows
=============================================================================
