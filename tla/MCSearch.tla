------------------------------ MODULE MCSearch ------------------------------
(***************************************************************************)
(* Instances of SearchIndex and Retrieval for TLC.  The two share no       *)
(* variable and no property speaks of both, so they are checked one beside *)
(* the other: a behaviour is one of the index while no question is asked,  *)
(* or one of a question while the index rests.                             *)
(***************************************************************************)
EXTENDS SearchIndex, Retrieval, TLC

VARIABLE part   \* the part that moves

searchVars == <<vars, ragVars, part>>

SearchInit ==
    /\ Init /\ RagInit
    /\ part \in {"index", "question"}
    /\ part = "index" => topK = 1

Index(step) == part = "index" /\ step /\ UNCHANGED <<ragVars, part>>
Question(step) == part = "question" /\ step /\ UNCHANGED <<vars, part>>

\* Next and RagNext, action by action: TLC then tells which of them are taken.
SearchNext ==
    \/ \E w \in Workers :
          \/ Index(Change(w)) \/ Index(Sweep(w)) \/ Index(SweepFails(w))
          \/ Index(Fetch(w)) \/ Index(FetchFails(w)) \/ Index(Build(w))
          \/ Index(Save(w)) \/ Index(SaveFails(w))
          \/ Index(Crash(w)) \/ Index(RestartFromFile(w)) \/ Index(RestartFromStore(w))
    \/ Question(Retrieve) \/ Question(Answerable) \/ Question(Refuse)
    \/ Question(Generate) \/ Question(ModelDown) \/ Question(SaysNothing)
    \/ Question(Judge) \/ Question(SkipCheck) \/ Question(Finish)

SearchSpec == SearchInit /\ [][SearchNext]_searchVars

Symmetry == Permutations(Workers) \cup Permutations(Passages)
=============================================================================
