------------------------------- MODULE MCChat -------------------------------
(* Instances of Chat for TLC. *)
EXTENDS Chat

CONSTANTS c1, c2, k1, k3
=============================================================================
