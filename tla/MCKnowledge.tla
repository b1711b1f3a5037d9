---------------------------- MODULE MCKnowledge ----------------------------
(* Instances of Knowledge for TLC. *)
EXTENDS Knowledge, TLC

CONSTANTS g1, g2, d1, d2, d3

\* Two drafts of the first gap, one of the next.
MCGapOf == (d1 :> g1) @@ (d2 :> g1) @@ (d3 :> g2)

Symmetry == Permutations(Signals) \cup Permutations(Requests)
=============================================================================
