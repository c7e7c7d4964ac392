---------------------------- MODULE MCAgentRuns ----------------------------
(* Instances of AgentRuns for TLC.                                         *)
EXTENDS AgentRuns, TLC

\* The tasks of the agent are alike.
Symmetry == Permutations(TaskKey)
=============================================================================
