-------------------------- MODULE MCAgentOperations --------------------------
(* Small instances of AgentOperations for TLC. *)
EXTENDS AgentOperations, TLC

\* Operations are interchangeable, and so are connections.
Symmetry == Permutations(Ops) \cup Permutations(Conns)
=============================================================================
