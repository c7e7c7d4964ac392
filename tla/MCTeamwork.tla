---------------------------- MODULE MCTeamwork ----------------------------
(* Instances of Teamwork for TLC: in each one of the two goes on.           *)
EXTENDS Teamwork, TLC

\* Calls are alike.
Symmetry == Permutations(Request)

\* On the board, agents and tasks are too.
BoardSymmetry == Symmetry \cup Permutations(Agent) \cup Permutations(Task)
=============================================================================
