---------------------------- MODULE ConfigCache ----------------------------
(***************************************************************************)
(* Prompt templates edited at run time, and the cache every process reads  *)
(* them through.                                                           *)
(*                                                                         *)
(* An administrator appends a version and points the template at it, or    *)
(* points it back at an old version, in one database transaction.  Every   *)
(* process keeps the active contents for TTL, drops them when it edits or  *)
(* when Redis delivers an invalidation, and refuses to cache what it began *)
(* to load before the last invalidation (ConfigCache.get).  The route map  *)
(* of the agent goes through the same class.                               *)
(*                                                                         *)
(* A cached content is known by the position in `activated` it was read    *)
(* at.  Times are ages, counted up to TTL: older than that is all alike.   *)
(***************************************************************************)
EXTENDS Naturals, Sequences

CONSTANTS
    Workers,    \* application processes
    Loads,      \* calls of get() that find nothing fresh
    Edits,      \* administration requests
    Home,       \* Home[t]: the process that serves the call or request t
    None,       \* nothing cached
    Seed,       \* the author of the version the template starts with
    TTL,        \* CONFIG_CACHE_TTL_SECONDS, in ticks
    MaxCrashes, \* bound on the number of restarts
    Reliable    \* TRUE: Redis is up, loses nothing, and all have subscribed

ASSUME TTLAssumption == TTL \in Nat \ {0}
ASSUME HomeAssumption == Home \in [Loads \cup Edits -> Workers]
ASSUME NoneAssumption == None \notin Nat
ASSUME CrashAssumption == MaxCrashes \in Nat /\ Reliable \in BOOLEAN

VARIABLES
    versions,   \* versions[n]: the edit that wrote version n, prompt_versions
    activated,  \* the versions active_version_id pointed at, the last one now
    changeAge,  \* changeAge[r]: time since activated[r] was committed
    edit,       \* edit[e]: where the request is and the version it works on
    load,       \* load[l]: where the call is and what it has noted so far
    value,      \* value[w]: the position cached by w, ConfigCache._value
    age,        \* age[w]: time since _loaded_at
    epoch,      \* epoch[w]: ConfigCache._invalidate_seq
    listener,   \* listener[w]: the subscriber task
    inbox,      \* inbox[w]: invalidations published and not yet delivered
    seen,       \* seen[w]: what was committed when w last invalidated
    crashes

database == <<versions, activated, changeAge>>
caches == <<value, age, epoch, seen>>
redis == <<listener, inbox>>
vars == <<versions, activated, changeAge, edit, load, value, age, epoch,
          listener, inbox, seen, crashes>>

Defaults == 0  \* the empty table a failed load returns: get_prompt falls back

Editors == Edits \cup {Seed}
Revision == Len(activated)

EditPC == {"idle", "drawn", "inserted", "activated", "published", "done", "failed"}
LoadPC == {"idle", "started", "read"}

TypeOK ==
    /\ versions \in Seq(Editors)
    /\ activated \in Seq(DOMAIN versions)
    /\ changeAge \in Seq(0 .. TTL)
    /\ edit \in [Edits -> [pc : EditPC, version : Nat, appends : BOOLEAN]]
    /\ load \in [Loads -> [pc : LoadPC, seq : Nat, age : 0 .. TTL, got : Nat]]
    /\ value \in [Workers -> Nat \cup {None}]
    /\ age \in [Workers -> 0 .. TTL]
    /\ epoch \in [Workers -> Nat]
    /\ listener \in [Workers -> {"starting", "up", "down"}]
    /\ inbox \in [Workers -> Nat]
    /\ seen \in [Workers -> Nat]
    /\ crashes \in Nat

NoEdit == [pc |-> "idle", version |-> 0, appends |-> FALSE]
Ended(outcome) == [NoEdit EXCEPT !.pc = outcome]
NoLoad == [pc |-> "idle", seq |-> 0, age |-> TTL, got |-> Defaults]

Init ==
    /\ versions = <<Seed>>
    /\ activated = <<1>>
    /\ changeAge = <<TTL>>
    /\ edit = [e \in Edits |-> NoEdit]
    /\ load = [l \in Loads |-> NoLoad]
    /\ value = [w \in Workers |-> None]
    /\ age = [w \in Workers |-> TTL]
    /\ epoch = [w \in Workers |-> 0]
    /\ listener = [w \in Workers |-> IF Reliable THEN "up" ELSE "starting"]
    /\ inbox = [w \in Workers |-> 0]
    /\ seen = [w \in Workers |-> 0]
    /\ crashes = 0

-----------------------------------------------------------------------------
(* ConfigCache *)

\* get() answers from the cache: nothing is awaited and nothing changes.
Fresh(w) == value[w] # None /\ age[w] < TTL

\* invalidate()
Invalidate(w) ==
    /\ value' = [value EXCEPT ![w] = None]
    /\ age' = [age EXCEPT ![w] = TTL]
    /\ epoch' = [epoch EXCEPT ![w] = @ + 1]
    /\ seen' = [seen EXCEPT ![w] = Revision]

\* get(): nothing fresh; the time and the epoch are noted before the query.
\* Calls do not wait for each other: several loads may be under way.
StartLoad(l) ==
    /\ load[l].pc = "idle"
    /\ ~ Fresh(Home[l])
    /\ load' = [load EXCEPT ![l] = [pc |-> "started", seq |-> epoch[Home[l]],
                                    age |-> 0, got |-> Defaults]]
    /\ UNCHANGED <<database, caches, redis, edit, crashes>>

\* load_active_contents: one statement, a committed snapshot.
Read(l) ==
    /\ load[l].pc = "started"
    /\ load' = [load EXCEPT ![l].pc = "read", ![l].got = Revision]
    /\ UNCHANGED <<database, caches, redis, edit, crashes>>

\* _load_prompts swallows what the database raises and returns {}.
ReadFails(l) ==
    /\ load[l].pc = "started"
    /\ load' = [load EXCEPT ![l].pc = "read"]
    /\ UNCHANGED <<database, caches, redis, edit, crashes>>

\* Mutant: the snapshot is taken to be as old as its arrival.
Store_StampedAtArrival(l) ==
    LET w == Home[l] IN
    /\ load[l].pc = "read"
    /\ load' = [load EXCEPT ![l] = NoLoad]
    /\ IF load[l].seq = epoch[w]
       THEN value' = [value EXCEPT ![w] = load[l].got] /\ age' = [age EXCEPT ![w] = 0]
       ELSE UNCHANGED <<value, age>>
    /\ UNCHANGED <<database, redis, edit, epoch, seen, crashes>>

\* Mutant: the epoch is not compared.
Store_AnyEpoch(l) ==
    LET w == Home[l] IN
    /\ load[l].pc = "read"
    /\ load' = [load EXCEPT ![l] = NoLoad]
    /\ value' = [value EXCEPT ![w] = load[l].got]
    /\ age' = [age EXCEPT ![w] = load[l].age]
    /\ UNCHANGED <<database, redis, edit, epoch, seen, crashes>>

\* The caller has its answer; it is cached unless an invalidation came between.
Store(l) ==
    LET w == Home[l] IN
    /\ load[l].pc = "read"
    /\ load' = [load EXCEPT ![l] = NoLoad]
    /\ IF load[l].seq = epoch[w]
       THEN /\ value' = [value EXCEPT ![w] = load[l].got]
            /\ age' = [age EXCEPT ![w] = load[l].age]
       ELSE UNCHANGED <<value, age>>
    /\ UNCHANGED <<database, redis, edit, epoch, seen, crashes>>

\* _listener has subscribed; what was published before is not for it.
Subscribe(w) ==
    /\ listener[w] = "starting"
    /\ listener' = [listener EXCEPT ![w] = "up"]
    /\ UNCHANGED <<database, caches, inbox, edit, load, crashes>>

Deliver(w) ==
    /\ inbox[w] > 0
    /\ inbox' = [inbox EXCEPT ![w] = @ - 1]
    /\ Invalidate(w)
    /\ UNCHANGED <<database, listener, edit, load, crashes>>

\* The connection breaks and is made again: what was under way is lost.
Lose(w) ==
    /\ ~ Reliable
    /\ inbox[w] > 0
    /\ inbox' = [inbox EXCEPT ![w] = 0]
    /\ UNCHANGED <<database, caches, listener, edit, load, crashes>>

\* _listener logs the error and returns; nothing starts it again.
ListenerDies(w) ==
    /\ ~ Reliable
    /\ listener[w] # "down"
    /\ listener' = [listener EXCEPT ![w] = "down"]
    /\ inbox' = [inbox EXCEPT ![w] = 0]
    /\ UNCHANGED <<database, caches, edit, load, crashes>>

-----------------------------------------------------------------------------
(* AdminService.update_prompt and activate_prompt_version *)

\* The rows a request has written and not yet committed.
Holds(e) == edit[e].appends /\ edit[e].pc \in {"inserted", "activated", "published"}
Locks(e) == edit[e].pc \in {"activated", "published"}

\* The template and the largest committed version number are read.
DrawVersion(e) ==
    /\ edit[e].pc = "idle"
    /\ edit' = [edit EXCEPT ![e] = [pc |-> "drawn", version |-> Len(versions) + 1,
                                    appends |-> TRUE]]
    /\ UNCHANGED <<database, caches, redis, load, crashes>>

\* Mutant: no unique constraint on the version number.
InsertVersion_Unchecked(e) ==
    /\ edit[e].pc = "drawn"
    /\ edit' = [edit EXCEPT ![e].pc = "inserted"]
    /\ UNCHANGED <<database, caches, redis, load, crashes>>

\* uniq_prompt_version: the insert waits for an uncommitted row of the same
\* number, and a committed one is a conflict: 409, the request rolls back.
InsertVersion(e) ==
    /\ edit[e].pc = "drawn"
    /\ \A f \in Edits : Holds(f) => edit[f].version # edit[e].version
    /\ edit' = [edit EXCEPT ![e] = IF edit[e].version \in DOMAIN versions
                                   THEN Ended("failed")
                                   ELSE [edit[e] EXCEPT !.pc = "inserted"]]
    /\ UNCHANGED <<database, caches, redis, load, crashes>>

\* Mutant: whether the version was found is not looked at.
FindVersion_Unchecked(e) ==
    /\ edit[e].pc = "idle"
    /\ \E n \in 1 .. Len(versions) + 1 :
          edit' = [edit EXCEPT ![e] = [pc |-> "inserted", version |-> n, appends |-> FALSE]]
    /\ UNCHANGED <<database, caches, redis, load, crashes>>

\* activate_prompt_version has found the version it is asked for.
FindVersion(e) ==
    /\ edit[e].pc = "idle"
    /\ \E n \in DOMAIN versions :
          edit' = [edit EXCEPT ![e] = [pc |-> "inserted", version |-> n, appends |-> FALSE]]
    /\ UNCHANGED <<database, caches, redis, load, crashes>>

\* The UPDATE waits for the lock on the template's row; the process drops its
\* own copy at once, though nothing is committed yet.
Activate(e) ==
    /\ edit[e].pc = "inserted"
    /\ \A f \in Edits : ~ Locks(f)
    /\ edit' = [edit EXCEPT ![e].pc = "activated"]
    /\ Invalidate(Home[e])
    /\ UNCHANGED <<database, redis, load, crashes>>

\* publish_invalidation: every subscriber gets it, this process too.
Publish(e) ==
    /\ edit[e].pc = "activated"
    /\ edit' = [edit EXCEPT ![e].pc = "published"]
    /\ inbox' = [w \in Workers |-> IF listener[w] = "up" THEN inbox[w] + 1 ELSE inbox[w]]
    /\ UNCHANGED <<database, caches, listener, load, crashes>>

\* Redis is away: swallowed, the request goes on.
PublishFails(e) ==
    /\ ~ Reliable
    /\ edit[e].pc = "activated"
    /\ edit' = [edit EXCEPT ![e].pc = "published"]
    /\ UNCHANGED <<database, caches, redis, load, crashes>>

\* get_db commits after the handler has returned.
Commit(e) ==
    /\ edit[e].pc = "published"
    /\ edit' = [edit EXCEPT ![e] = Ended("done")]
    /\ versions' = IF edit[e].appends
                   THEN [n \in DOMAIN versions \cup {edit[e].version} |->
                            IF n = edit[e].version THEN e ELSE versions[n]]
                   ELSE versions
    /\ activated' = Append(activated, edit[e].version)
    /\ changeAge' = Append(changeAge, 0)
    /\ UNCHANGED <<caches, redis, load, crashes>>

\* Any await of the request raises: get_db rolls back.
Fail(e) ==
    /\ edit[e].pc \notin {"idle", "done", "failed"}
    /\ edit' = [edit EXCEPT ![e] = Ended("failed")]
    /\ UNCHANGED <<database, caches, redis, load, crashes>>

-----------------------------------------------------------------------------

Older(a) == IF a < TTL THEN a + 1 ELSE TTL

Tick ==
    /\ age' = [w \in Workers |-> Older(age[w])]
    /\ load' = [l \in Loads |-> [load[l] EXCEPT !.age = Older(@)]]
    /\ changeAge' = [r \in DOMAIN changeAge |-> Older(changeAge[r])]
    /\ UNCHANGED <<versions, activated, edit, value, epoch, listener, inbox, seen, crashes>>

\* A process is replaced: its transactions roll back, its calls are gone, and
\* the new one starts with an empty cache and subscribes in the background.
Restart(w) ==
    /\ crashes < MaxCrashes
    /\ crashes' = crashes + 1
    /\ edit' = [e \in Edits |->
                  IF Home[e] = w /\ edit[e].pc \notin {"idle", "done"}
                  THEN Ended("failed") ELSE edit[e]]
    /\ load' = [l \in Loads |-> IF Home[l] = w THEN NoLoad ELSE load[l]]
    /\ value' = [value EXCEPT ![w] = None]
    /\ age' = [age EXCEPT ![w] = TTL]
    /\ epoch' = [epoch EXCEPT ![w] = 0]
    /\ seen' = [seen EXCEPT ![w] = Revision]
    /\ listener' = [listener EXCEPT ![w] = "starting"]
    /\ inbox' = [inbox EXCEPT ![w] = 0]
    /\ UNCHANGED database

Request(e) ==
    \/ DrawVersion(e) \/ InsertVersion(e) \/ FindVersion(e)
    \/ Activate(e) \/ Publish(e) \/ PublishFails(e) \/ Commit(e) \/ Fail(e)

Call(l) == StartLoad(l) \/ Read(l) \/ ReadFails(l) \/ Store(l)

Subscriber(w) == Subscribe(w) \/ Deliver(w) \/ Lose(w) \/ ListenerDies(w)

Next ==
    \/ \E e \in Edits : Request(e)
    \/ \E l \in Loads : Call(l)
    \/ \E w \in Workers : Subscriber(w) \/ Restart(w)
    \/ Tick

Spec == Init /\ [][Next]_vars

-----------------------------------------------------------------------------

\* What a process still answers with was replaced less than TTL ago, whether
\* or not Redis works: a load counts its age from before the query.
BoundedStaleness ==
    \A w \in Workers :
       Fresh(w) /\ value[w] # Defaults /\ value[w] < Revision
          => changeAge[value[w] + 1] < TTL

\* A load under way when a process invalidates never brings back what was
\* current before.
NeverBehindInvalidation ==
    \A w \in Workers : value[w] \notin {None, Defaults} => seen[w] =< value[w]

\* A version once written keeps its number and its content (D2: append only).
HistoryOnlyGrows ==
    [][/\ DOMAIN versions \subseteq DOMAIN versions'
       /\ \A n \in DOMAIN versions : versions'[n] = versions[n]]_versions
=============================================================================
