------------------------------ MODULE MCRounds ------------------------------
(* Instances of Rounds for TLC: in each one of the two goes round.         *)
EXTENDS Rounds
=============================================================================
