--------------------------- MODULE MCWakeRouting ---------------------------
EXTENDS WakeRouting

CONSTANTS a1, a2, m1, m2, h1, h2, town, lab, dm

\* a1 is in both channels and has a machine of its own, a2 is in the town channel
\* and runs anywhere; humans talk to a1 in the direct channel, and
\* one of them is named like a1, which is the manager.
MCMembers == [c \in Channel |-> IF c = town THEN Agent ELSE {a1}]
MCMachineOf == [a \in Agent |-> IF a = a1 THEN m1 ELSE None]
MCNamesake == [h \in Human |-> IF h = h2 THEN a1 ELSE None]
MCTaskKey == Channel \cup 1 .. MaxMessage

Tasks == {n \in DOMAIN msgs : msgs[n].task # "none"}

\* One message to both agents, with two daemons that come and go.
Wide == Len(msgs) <= 1 /\ Tasks = {} /\ crashes = 0 /\ \A n \in DOMAIN msgs : msgs[n].channel \in {town, dm}

\* Two messages to one agent in one channel, one machine, and a restart.
Deep ==
    /\ Tasks = {}
    /\ online \in {<<>>, <<m1>>} /\ (cut => crashes = 1)
    /\ \A n \in DOMAIN msgs : /\ msgs[n].channel = msgs[1].channel /\ msgs[n].channel # town
                              /\ msgs[n].sender \in {h1, a1}
                              /\ msgs[n].mentions \subseteq {a1}
    /\ unfollowed \subseteq {<<a1, 1>>}

\* A message sent as a task, its hand-over and its end, with one daemon.
Hooked ==
    /\ Len(msgs) <= 1
    /\ \A n \in DOMAIN msgs : msgs[n].channel \in {town, dm} /\ msgs[n].sender \in Human
    /\ unfollowed = {} /\ crashes = 0
    /\ online \in {<<>>, <<m1>>}

Regions == Wide \/ Deep \/ Hooked

MCSpec == RoutingInit /\ [][RoutingNext /\ Regions']_vars
=============================================================================
