---------------------------- MODULE MCAgentLoop ----------------------------
(* AgentLoop with more turns than may overlap.                              *)
EXTENDS AgentLoop, TLC

\* Turns differ in nothing but their names.
Alike == Permutations(Turns)
=============================================================================
