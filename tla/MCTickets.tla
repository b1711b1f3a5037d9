----------------------------- MODULE MCTickets -----------------------------
(* Instances of Tickets for TLC. *)
EXTENDS Tickets, TLC

CONSTANTS t1, t2, t3, p1, p2, p3, e1, e2, e3, k1

MCWanted == [p \in {p1, p2, p3} |-> k1]

Symmetry == Permutations({t1, t2, t3}) \cup Permutations({p1, p2, p3}) \cup Permutations({e1, e2})
=============================================================================
