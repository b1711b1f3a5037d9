---------------------------- MODULE MCAgentTurn ----------------------------
(* Instances of AgentTurn for TLC. *)
EXTENDS AgentTurn, TLC

CONSTANTS t1, t2

\* The built-in routes, and a table that sends a second intent to the tools and
\* one to a route there is not.
MCRouteMaps ==
    {<< >>,
     ("order_query" :> "tool") @@ ("knowledge_search" :> "tool") @@ ("complaint" :> "email")
        @@ ("handoff" :> "handoff")}

Symmetry == Permutations(Turns)
=============================================================================
