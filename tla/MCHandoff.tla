---------------------------- MODULE MCHandoff ----------------------------
(* Instances of Handoff for TLC. *)
EXTENDS HandoffInvariant, TLC

CONSTANTS c1, c2, s1, s2, s3

\* One conversation handed over twice.
MCConvOfOne == (s1 :> c1) @@ (s2 :> c1)

\* Two conversations, each handed over once: one sweep escalates both.
MCConvOfTwo == (s1 :> c1) @@ (s3 :> c2)

Symmetry == Permutations(Turns) \cup Permutations(Requests)
            \cup Permutations(Staff) \cup Permutations(Sweepers)

\* With one conversation its sessions are interchangeable too.
SymmetryOne == Symmetry \cup Permutations(Sessions)
=============================================================================
