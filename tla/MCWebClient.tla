---------------------------- MODULE MCWebClient ----------------------------
(* Two channels, two requests that are served at a time, two happenings. *)
EXTENDS WebClient, TLC
CONSTANTS town, dm
Channels == {town, dm}

\* Requests are alike.
Symmetry == Permutations(Request)
=============================================================================
