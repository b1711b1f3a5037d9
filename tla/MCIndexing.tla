--------------------------- MODULE MCIndexing ---------------------------
(* Instances of Indexing for TLC. *)
EXTENDS Indexing, TLC

CONSTANTS d1, h1, w1, w2

\* One request slot, served by the first process.
MCHome == h1 :> w1

\* The document is cut into two chunks.
MCChunksOf == [d \in Docs |-> 2]

Symmetry == Permutations(Generations)
=============================================================================
