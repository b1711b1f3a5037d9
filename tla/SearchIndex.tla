---------------------------- MODULE SearchIndex ----------------------------
(***************************************************************************)
(* The keyword index beside the vector store.                              *)
(*                                                                         *)
(* Every application process keeps an immutable BM25 snapshot of the whole *)
(* Chroma collection in memory and shares one pickle file on disk.  After  *)
(* changing the collection a process reads all of it back, replaces its    *)
(* snapshot and saves it; a starting process loads the file, and rebuilds  *)
(* from Chroma only when there is none to load.  What matters of a content *)
(* is which one it is: contents are numbered as the collection takes them  *)
(* on, and 0 stands for having none.                                       *)
(***************************************************************************)
EXTENDS Naturals

CONSTANTS
    Workers,     \* application processes
    MaxChanges,  \* bound on the changes to the collection
    MaxCrashes   \* bound on the number of killed processes

ASSUME SearchIndexAssumption == Workers # {} /\ MaxChanges \in Nat /\ MaxCrashes \in Nat

VARIABLES
    version,   \* the content of the Chroma collection
    snapshot,  \* snapshot[w]: the content w searches, BM25Index._snapshot
    file,      \* the content in the pickle file
    fetched,   \* what w has read back from the collection
    pc,
    lapsed,    \* has a refresh been cut short, or a process been restarted
    crashes

vars == <<version, snapshot, file, fetched, pc, lapsed, crashes>>

PC == {"idle", "changed", "refresh", "build", "save", "down"}

Init ==
    /\ version = 1
    /\ snapshot = [w \in Workers |-> 1]
    /\ file = 1
    /\ fetched = [w \in Workers |-> 0]
    /\ pc = [w \in Workers |-> "idle"]
    /\ lapsed = FALSE
    /\ crashes = 0

Goto(w, from, to) == pc[w] = from /\ pc' = [pc EXCEPT ![w] = to]

-----------------------------------------------------------------------------
(* index_document and delete_document change the collection *)

Change(w) ==
    /\ version < MaxChanges
    /\ Goto(w, "idle", "changed")
    /\ version' = version + 1
    /\ UNCHANGED <<snapshot, file, fetched, lapsed, crashes>>

\* Mutant: deleting the old chunks is the end of it.
Sweep_NoRefresh(w) ==
    /\ Goto(w, "changed", "idle")
    /\ version' \in {version, version + 1}
    /\ UNCHANGED <<snapshot, file, fetched, lapsed, crashes>>

\* The older generation goes, if there is one.
Sweep(w) ==
    /\ Goto(w, "changed", "refresh")
    /\ version' \in {version, version + 1}
    /\ UNCHANGED <<snapshot, file, fetched, lapsed, crashes>>

\* Chroma raises: the chunks are in, and the refresh is not reached.
SweepFails(w) ==
    /\ Goto(w, "changed", "idle")
    /\ lapsed' = TRUE
    /\ UNCHANGED <<version, snapshot, file, fetched, crashes>>

-----------------------------------------------------------------------------
(* _refresh_bm25_index, rebuild_from_vector_store: fetch, build, save *)

Fetch(w) ==
    /\ Goto(w, "refresh", "build")
    /\ fetched' = [fetched EXCEPT ![w] = version]
    /\ UNCHANGED <<version, snapshot, file, lapsed, crashes>>

\* Mutant: the exception is logged and the refresh goes on with nothing.
FetchFails_GoOn(w) ==
    /\ Goto(w, "refresh", "build")
    /\ lapsed' = TRUE
    /\ UNCHANGED <<version, snapshot, file, fetched, crashes>>

\* Mutant: without the vector store, the file has to do.
FetchFails_LoadFile(w) ==
    /\ Goto(w, "refresh", "idle")
    /\ snapshot' = [snapshot EXCEPT ![w] = file]
    /\ lapsed' = TRUE
    /\ UNCHANGED <<version, file, fetched, crashes>>

\* The vector store cannot be read: the snapshot stays as it is.
FetchFails(w) ==
    /\ Goto(w, "refresh", "idle")
    /\ lapsed' = TRUE
    /\ UNCHANGED <<version, snapshot, file, fetched, crashes>>

\* One assignment replaces the whole snapshot: a search sees one or the other.
Build(w) ==
    /\ Goto(w, "build", "save")
    /\ snapshot' = [snapshot EXCEPT ![w] = fetched[w]]
    /\ fetched' = [fetched EXCEPT ![w] = 0]
    /\ UNCHANGED <<version, file, lapsed, crashes>>

\* The file lock makes one write whole; which write comes last is not its business.
Save(w) ==
    /\ Goto(w, "save", "idle")
    /\ file' = snapshot[w]
    /\ UNCHANGED <<version, snapshot, fetched, lapsed, crashes>>

\* The lock is not had in time, the disk is full, or there was nothing to save.
SaveFails(w) ==
    /\ Goto(w, "save", "idle")
    /\ lapsed' = TRUE
    /\ UNCHANGED <<version, snapshot, file, fetched, crashes>>

-----------------------------------------------------------------------------
(* _warm_bm25_index *)

Crash(w) ==
    /\ pc[w] # "down" /\ crashes < MaxCrashes
    /\ pc' = [pc EXCEPT ![w] = "down"]
    /\ snapshot' = [snapshot EXCEPT ![w] = 0]
    /\ fetched' = [fetched EXCEPT ![w] = 0]
    /\ crashes' = crashes + 1
    /\ lapsed' = TRUE
    /\ UNCHANGED <<version, file>>

RestartFromFile(w) ==
    /\ Goto(w, "down", "idle")
    /\ snapshot' = [snapshot EXCEPT ![w] = file]
    /\ UNCHANGED <<version, file, fetched, lapsed, crashes>>

\* The file is missing, locked, damaged or of another version.
RestartFromStore(w) ==
    /\ Goto(w, "down", "refresh")
    /\ UNCHANGED <<version, snapshot, file, fetched, lapsed, crashes>>

-----------------------------------------------------------------------------
Next ==
    \E w \in Workers :
        \/ Change(w) \/ Sweep(w) \/ SweepFails(w)
        \/ Fetch(w) \/ FetchFails(w) \/ Build(w) \/ Save(w) \/ SaveFails(w)
        \/ Crash(w) \/ RestartFromFile(w) \/ RestartFromStore(w)

Spec == Init /\ [][Next]_vars

-----------------------------------------------------------------------------
(* Properties *)

\* A refresh that has come as far as building or saving has a content in hand.
TypeOK ==
    /\ version \in Nat \ {0} /\ file \in 1..version
    /\ snapshot \in [Workers -> 0..version]
    /\ fetched \in [Workers -> 0..version]
    /\ pc \in [Workers -> PC]
    /\ \A w \in Workers :
         /\ pc[w] = "build" => fetched[w] # 0
         /\ pc[w] = "save" => snapshot[w] # 0
    /\ lapsed \in BOOLEAN /\ crashes \in Nat

Quiet == \A w \in Workers : pc[w] = "idle"

\* When processes that change the collection at once are done, one of them at
\* least searches all of it: whoever fetches last has seen every change.
SomeoneIsFresh ==
    Quiet /\ ~lapsed => \E w \in Workers : snapshot[w] = version

\* While a process lives its searches never fall back to an earlier content,
\* whatever the other processes save.
Advances ==
    \A w \in Workers : snapshot[w] # 0 /\ snapshot'[w] # 0 => snapshot[w] <= snapshot'[w]
NeverBackwards == [][Advances]_vars
=============================================================================
