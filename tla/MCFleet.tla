------------------------------ MODULE MCFleet ------------------------------
EXTENDS Fleet, TLC

CONSTANTS s1

Symmetry == Permutations(Request)

Kinds == {op[q].kind : q \in Request} \ {None}
Set == \A m \in Machine : machine[m] = [row |-> "there", minted |-> 1, noted |-> 1]
Silent == \A s \in Socket : hello[s] = "none"

\* A second connection only to the server that starts again.
OneSocket == Silent /\ \A s \in Socket \ {s1} : socket[s].pc # "new" => life = 1 /\ socket[s1].pc \in {"new", "done"}

\* The connections of a machine that was set up before, with the first message
\* of the daemon or with inspections.
Connections == Set /\ Kinds \subseteq {"inspect"} /\ (Silent \/ Kinds = {})

\* Imports and other calls over one connection, which may break in the first life.
Imports ==
    /\ Set /\ OneSocket
    /\ \A s \in Socket : socket[s].events <= 1 - life
    /\ \A m \in Machine : ~raced[m] /\ running[m] = {}
    /\ \A q \in Request : op[q].kind = "form" => op[q].machine = None
    /\ \A h \in Handle, q \in Request : agent[h].by = q /\ op[q].kind = "form" => agent[h].machine = None

\* A status lands before anything else happens.
AtOnce == \A m \in Machine : Landing(m) => ~Landing(m)'

\* Everything but imports, and one connection that holds.
Directory ==
    /\ OneSocket /\ life = 0 /\ Kinds \subseteq {"form"}
    /\ socket[s1].events = 0

MCSpec == FleetInit /\ [][FleetNext /\ (Connections' \/ (Imports' /\ AtOnce) \/ Directory')]_allVars
=============================================================================
