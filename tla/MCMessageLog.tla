---------------------------- MODULE MCMessageLog ----------------------------
(* Instances of MessageLog and Posting for TLC.                            *)
EXTENDS Posting

CONSTANTS c1, s1, r3

\* Messages without files to two channels that stay open.
Appends ==
    /\ \A c \in Channel : ~archived[c]
    /\ \A r \in Request : submit[r].files = {} /\ submit[r].again = None

\* Two messages with files to one channel, which may be archived.
Files ==
    /\ submit[r3].pc = "idle"
    /\ \A r \in Request : submit[r].channel \in {c1, None} /\ submit[r].sender \in {s1, None}
    /\ \A c \in Channel \ {c1} : ~archived[c]

MCSpec == PostInit /\ [][PostNext /\ (Appends \/ Files)']_allVars
=============================================================================
