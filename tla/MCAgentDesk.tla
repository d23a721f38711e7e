------------------------------ MODULE MCAgentDesk ------------------------------
(* Instances of AgentDesk for TLC. *)
EXTENDS AgentDesk

CONSTANTS s1, s2, x1, b1, k1, g1, d1

\* The creator of a drop and the batch work on different servers.
Work == [p \in Procs |-> IF p \in {x1, g1} THEN s1 ELSE s2]
=============================================================================
