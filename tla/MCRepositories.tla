--------------------------- MODULE MCRepositories ---------------------------
(* Instances of Repositories for TLC.                                      *)
EXTENDS Repositories
=============================================================================
