---------------------------- MODULE MCAgentWake ----------------------------
(* Small instances of AgentWake. *)
EXTENDS AgentWake, TLC

CONSTANTS a1, a2, c1, c2, t1, t2

MCSymmetry == Permutations(Callers) \cup Permutations(Tasks) \cup Permutations(Agents)
=============================================================================
