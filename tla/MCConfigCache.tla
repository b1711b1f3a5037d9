--------------------------- MODULE MCConfigCache ---------------------------
(* Instances of ConfigCache for TLC. *)
EXTENDS ConfigCache, TLC

CONSTANTS w1, w2, l1, e1, e2

\* The call is made in the first process, the requests go one to each.
MCHome == (l1 :> w1) @@ (e1 :> w1) @@ (e2 :> w2)
=============================================================================
