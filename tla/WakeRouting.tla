---------------------------- MODULE WakeRouting ----------------------------
(***************************************************************************)
(* Which agents a message wakes, and what comes of it:                     *)
(* server/src/services/wake.service.ts, the handlers in http/routes that   *)
(* post messages, the dispatch of realtime/daemon-hub.ts, and the daemons  *)
(* (module DaemonServe).                                                   *)
(*                                                                         *)
(* A handler stores the message, routes it, and for a human's message in a *)
(* direct channel wakes the agent there once more.  A message sent as a    *)
(* task is assigned or given to the manager for triage before it is        *)
(* routed; a task that is handed over wakes its new agent, one that is     *)
(* done wakes its agent to tidy up; either comes after the change is made. *)
(* Agents leave threads and daemons come and go between these steps.  A    *)
(* machine has one connection here (module ControlPlane has the rest), and *)
(* the task board is in module Tasks.                                      *)
(***************************************************************************)
EXTENDS DaemonServe

CONSTANTS Human,
          Channel,
          Members,     \* the agents of each channel
          Direct,      \* the direct channels; their first agent is the peer
          MachineOf,   \* agent.machineId, None when not bound
          None,
          Manager,     \* the agent that triages
          Namesake,    \* the agent whose handle is a person's name, if any
          MaxMessage   \* bound: messages posted

\* A task of the daemon is a channel or the message at the root of a thread.
ASSUME TaskKeyAssumption == TaskKey = Channel \cup 1 .. MaxMessage
ASSUME BoundAssumption == MaxMessage \in Nat /\ MaxWake >= MaxMessage * (Cardinality(Agent) + 4)
ASSUME MembersAssumption ==
    /\ Members \in [Channel -> SUBSET Agent]
    /\ \A c \in Direct : Cardinality(Members[c]) = 1
    /\ MachineOf \in [Agent -> Machine \cup {None}]
    /\ None \notin Agent
    /\ IsFiniteSet(Agent) /\ Human \cap Agent = {}
    /\ Namesake \in [Human -> Agent \cup {None}]

VARIABLES msgs,       \* the messages, each with the progress of its handler
          online,     \* the hub's connections, oldest first
          rr,         \* the round robin of dispatchAny
          unfollowed, \* rows of thread_unfollow
          cut         \* history: a connection or a daemon was lost

routeVars == <<msgs, online, rr, unfollowed, cut>>
vars == <<daemonVars, routeVars>>

Message == 1 .. MaxMessage

RoutingTypeOK ==
    /\ TypeOK
    /\ msgs \in Seq([channel : Channel, parent : 0 .. MaxMessage, sender : Human \cup Agent,
                     mentions : SUBSET Agent, pc : {"hook", "route", "peer", "done"},
                     task : {"none", "open", "handed", "prune", "done"},
                     assignee : Agent \cup {None},
                     hand : Agent \cup {None},    \* given the task, and not yet woken for it
                     hooked : Agent \cup {None},  \* history: whom the hook assigned
                     given : Agent \cup {None},   \* history: whom another agent gave the
                                                  \* task to while it was connected
                     muted : SUBSET Agent,   \* history: left the thread before and did
                                             \* not come back meanwhile
                     kept : SUBSET Agent])   \* history: connected before and did not
                                             \* leave the thread
    /\ Len(msgs) <= MaxMessage
    /\ online \in Seq(Machine) /\ IsInjective(online)
    /\ rr \in 0 .. MaxWake
    /\ unfollowed \subseteq (Agent \X Message)
    /\ cut \in BOOLEAN

RoutingInit ==
    /\ DaemonInit
    /\ msgs = <<>>
    /\ online = <<>>
    /\ rr = 0
    /\ unfollowed = {}
    /\ cut = FALSE

-----------------------------------------------------------------------------
\* The hub after wake: the agent's machine, or the next of all if it has none.
Hub == [wire |-> wire, rr |-> rr]

wake(hub, a, task, n, via) ==
    LET w == [agent |-> a, task |-> task, msg |-> n, via |-> via]
        m == MachineOf[a]
        next == (hub.rr % Len(online)) + 1
        send(to, r) == [wire |-> [hub.wire EXCEPT ![to] = Append(@, w)], rr |-> r] IN
    IF m # None
    THEN IF m \in ToSet(online) THEN send(m, hub.rr) ELSE hub
    ELSE IF online = <<>> THEN hub ELSE send(online[next], next)

\* dispatch changes the hub, and the handler or the task of a message goes on.
Becomes(hub, n, msg) ==
    /\ wire' = hub.wire
    /\ rr' = hub.rr
    /\ msgs' = [msgs EXCEPT ![n] = msg]
    /\ UNCHANGED <<running, agentSlots, waitQueue, run, crashes, online, unfollowed, cut>>

Connected(a) == IF MachineOf[a] = None THEN online # <<>> ELSE MachineOf[a] \in ToSet(online)

\* The message is stored.  A reply names a message of its channel; people may
\* send one as a task.
Post(c, parent, sender, mentions, asTask) ==
    /\ Len(msgs) < MaxMessage
    /\ parent \in {0} \cup {n \in DOMAIN msgs : msgs[n].channel = c}
    /\ msgs' = Append(msgs, [channel |-> c, parent |-> parent, sender |-> sender,
                             mentions |-> mentions,
                             pc |-> IF asTask THEN "hook" ELSE "route",
                             task |-> IF asTask THEN "open" ELSE "none",
                             assignee |-> None, hand |-> None, hooked |-> None, given |-> None,
                             muted |-> {a \in Agent : <<a, parent>> \in unfollowed},
                             kept |-> {a \in Agent : <<a, parent>> \notin unfollowed /\ Connected(a)}])
    /\ UNCHANGED <<daemonVars, online, rr, unfollowed, cut>>

NotSelf(msg, S) == S \ {msg.sender}

Broadcast(msg) == IF msg.sender \in Human THEN Members[msg.channel] ELSE {}

Muted(msg) == {a \in Agent : <<a, msg.parent>> \in unfollowed}

\* Each target once, the mentioned ones first.  Mutants: those who are mentioned
\* and members are there twice, or not at all.
TargetsNotMentioned(msg) == SetToSeq(NotSelf(msg, Broadcast(msg)) \ (Muted(msg) \cup msg.mentions))
TargetsTwice(msg) ==
    SetToSeq(NotSelf(msg, msg.mentions) \ Muted(msg)) \o SetToSeq(NotSelf(msg, Broadcast(msg)) \ Muted(msg))
Targets(msg) ==
    LET mentioned == NotSelf(msg, msg.mentions) \ Muted(msg)
        others == (NotSelf(msg, Broadcast(msg)) \ Muted(msg)) \ mentioned IN
    SetToSeq(mentioned) \o SetToSeq(others)

threadAnchor(n) == IF msgs[n].parent # 0 THEN msgs[n].parent ELSE n

\* The hook of a message sent as a task.  The assignment may fail, since others
\* are at the task already.
Peer(c) == CHOOSE a \in Members[c] : TRUE
Assignees(msg) == IF msg.channel \in Direct THEN {Peer(msg.channel)} ELSE msg.mentions

\* dispatchTriage, which leaves out a manager that sent the message: it compares
\* handles, and a person may be named like the manager.  Mutant: not for a
\* manager that the message wakes anyhow.
Sender(msg) == IF msg.sender \in Human THEN Namesake[msg.sender] ELSE msg.sender
TriageOutsider(msg, n) ==
    IF Manager \in Agent \ (Members[msg.channel] \cup {Sender(msg)})
    THEN wake(Hub, Manager, msg.channel, n, "triage") ELSE Hub
Triage(msg, n) ==
    IF Manager \in Agent \ {Sender(msg)} THEN wake(Hub, Manager, msg.channel, n, "triage") ELSE Hub

Hook(n) ==
    LET msg == msgs[n] next == [msg EXCEPT !.pc = "route"] IN
    /\ msg.pc = "hook"
    /\ \/ \E a \in Assignees(msg) : Becomes(Hub, n, [next EXCEPT !.assignee = a, !.hooked = a])
       \/ Assignees(msg) # {} /\ Becomes(Hub, n, next)
       \/ Assignees(msg) = {} /\ Becomes(Triage(msg, n), n, next)

\* An agent hands the task over, once (a bound), to itself or to another one
\* that it wakes next.
Assign(n, by, to) ==
    LET msg == msgs[n] IN
    /\ msg.task = "open" /\ msg.pc = "done"
    /\ msg.assignee \in {None, by}
    /\ Becomes(Hub, n, [msg EXCEPT !.assignee = to, !.task = "handed",
                                   !.hand = IF to = by THEN None ELSE to,
                                   !.given = IF to # by /\ Connected(to) THEN to ELSE None])

HandOver(n) ==
    LET msg == msgs[n] IN
    /\ msg.hand # None
    /\ Becomes(wake(Hub, msg.hand, msg.channel, n, "assign"), n, [msg EXCEPT !.hand = None])

\* The task is done or closed; its agent, if any, has to tidy up.
Done(n) ==
    LET msg == msgs[n] IN
    /\ msg.task \in {"open", "handed"} /\ msg.pc = "done"
    /\ Becomes(Hub, n, [msg EXCEPT !.task = IF msg.assignee = None THEN "done" ELSE "prune"])

\* maybePruneWorklog, which nobody waits for.
Prune(n) ==
    LET msg == msgs[n] IN
    /\ msg.task = "prune"
    /\ Becomes(wake(Hub, msg.assignee, n, n, "prune"), n, [msg EXCEPT !.task = "done"])

\* The targets are woken one after the other, and nothing comes between.
hubs(ts, task, n) ==
    LET hub[k \in 0 .. Len(ts)] == IF k = 0 THEN Hub ELSE wake(hub[k - 1], ts[k], task, n, "message") IN hub

\* onMessage.
Route(n) ==
    LET msg == msgs[n] IN
    /\ msg.pc = "route"
    /\ Becomes(hubs(Targets(msg), threadAnchor(n), n)[Len(Targets(msg))], n,
               [msg EXCEPT !.pc = IF msg.sender \in Human /\ msg.channel \in Direct THEN "peer" ELSE "done"])

\* wakeAgentByHandle, for a human's message in a direct channel, and not if the
\* human is named like the agent.
WakePeer(n) ==
    LET msg == msgs[n] peer == Peer(msg.channel) IN
    /\ msg.pc = "peer"
    /\ Becomes(IF Namesake[msg.sender] = peer THEN Hub
               ELSE wake(Hub, peer, IF msg.parent # 0 THEN msg.parent ELSE msg.channel, n, "message"),
               n, [msg EXCEPT !.pc = "done"])

Unfollow(a, n) ==
    /\ n \in DOMAIN msgs /\ <<a, n>> \notin unfollowed
    /\ unfollowed' = unfollowed \cup {<<a, n>>}
    /\ msgs' = [k \in DOMAIN msgs |-> IF msgs[k].parent = n /\ msgs[k].pc # "done"
                                      THEN [msgs[k] EXCEPT !.kept = @ \ {a}] ELSE msgs[k]]
    /\ UNCHANGED <<daemonVars, online, rr, cut>>

Follow(a, n) ==
    /\ <<a, n>> \in unfollowed
    /\ unfollowed' = unfollowed \ {<<a, n>>}
    /\ msgs' = [k \in DOMAIN msgs |-> IF msgs[k].parent = n /\ msgs[k].pc # "done"
                                      THEN [msgs[k] EXCEPT !.muted = @ \ {a}] ELSE msgs[k]]
    /\ UNCHANGED <<daemonVars, online, rr, cut>>

Register(m) ==
    /\ m \notin ToSet(online)
    /\ online' = Append(online, m)
    /\ UNCHANGED <<daemonVars, msgs, rr, unfollowed, cut>>

Without(m) ==
    IF m \in ToSet(online) THEN RemoveAt(online, CHOOSE i \in DOMAIN online : online[i] = m) ELSE online

\* A connection is lost with what is on its way; the runs of the daemon go on.
Unregister(m) ==
    /\ m \in ToSet(online)
    /\ online' = Without(m)
    /\ wire' = [wire EXCEPT ![m] = <<>>]
    /\ cut' = TRUE
    /\ UNCHANGED <<running, agentSlots, waitQueue, run, crashes, msgs, rr, unfollowed>>

DaemonStep ==
    \/ \E i \in DOMAIN run : (Resume(i) \/ Finish(i)) /\ UNCHANGED routeVars
    \/ \E m \in Machine :
        \/ Receive(m) /\ UNCHANGED routeVars
        \/ /\ Crash(m)
           /\ online' = Without(m)
           /\ cut' = TRUE
           /\ UNCHANGED <<msgs, rr, unfollowed>>

RoutingNext ==
    \/ \E c \in Channel, p \in 0 .. MaxMessage, h \in Human, S \in SUBSET Agent, asTask \in BOOLEAN :
          Post(c, p, h, S, asTask)
    \/ \E c \in Channel, p \in 0 .. MaxMessage, a \in Agent, S \in SUBSET Agent : Post(c, p, a, S, FALSE)
    \/ \E n \in DOMAIN msgs : Hook(n) \/ Route(n) \/ WakePeer(n) \/ HandOver(n) \/ Done(n) \/ Prune(n)
    \/ \E n \in DOMAIN msgs, by, to \in Agent : Assign(n, by, to)
    \/ \E a \in Agent, n \in Message : Unfollow(a, n) \/ Follow(a, n)
    \/ \E m \in Machine : Register(m) \/ Unregister(m)
    \/ DaemonStep

RoutingSpec == RoutingInit /\ [][RoutingNext]_vars

-----------------------------------------------------------------------------
Handled(n, a, via) == {i \in DOMAIN run : run[i].msg = n /\ run[i].agent = a /\ run[i].via \in via}

\* wake.service.ts:59: an agent's message wakes only whom it mentions, so that
\* agents do not wake each other in a storm.  Outside direct channels the routing
\* of a message wakes each agent at most once, and not one that had left the
\* thread before and did not come back meanwhile.
WakesAreDue ==
    \A n \in DOMAIN msgs, a \in Agent :
        LET msg == msgs[n] IN
        /\ msg.sender \in Agent /\ Handled(n, a, Via) # {} => a \in msg.mentions \ {msg.sender}
        /\ msg.channel \notin Direct =>
               Cardinality(Handled(n, a, {"message"})) <= IF a \in msg.muted THEN 0 ELSE 1

\* A wake of the agent for the message is on its way or was handled.
Sent(n, a, via) ==
    \/ Handled(n, a, via) # {}
    \/ \E m \in Machine : \E w \in ToSet(wire[m]) : w.agent = a /\ w.msg = n /\ w.via \in via

\* Once a message is routed, every agent it mentions that follows the thread and
\* whose machine was connected has a wake on its way or a handler for it, unless
\* a connection or a daemon was lost.
MentionIsSent ==
    \A n \in DOMAIN msgs :
        msgs[n].pc = "done" /\ ~cut =>
            \A a \in (msgs[n].mentions \cap msgs[n].kept) \ {msgs[n].sender} : Sent(n, a, {"message"})

\* web.ts:137, agent.ts:326: no task is left to nobody.  Whoever the hook gave it
\* to is woken by the message, whoever a colleague gave it to is woken for it,
\* and one that mentions nobody goes to the manager, whatever becomes of the task
\* meanwhile; unless they were not connected, had left the thread, the manager has
\* the sender's name, the assignment failed or a connection was lost.
TaskReachesSomeone ==
    \A n \in DOMAIN msgs :
        LET msg == msgs[n] IN
        msg.pc = "done" /\ msg.task # "none" /\ ~cut =>
            /\ msg.hooked \in msg.kept => Sent(n, msg.hooked, {"message"})
            /\ msg.given # None /\ msg.hand = None => Sent(n, msg.given, {"assign"})
            /\ Assignees(msg) = {} /\ Manager \in msg.kept \ {Sender(msg)} => Sent(n, Manager, {"triage"})

-----------------------------------------------------------------------------
(* What comments and tests say and the code does not keep.                 *)

\* test/wake.service.test.ts:64: an agent is not woken twice by a message.  In a
\* direct channel it is, for two tasks, so that both run at once; and a manager
\* in the channel of a new task is woken for the triage and for the message.
OncePerMessage ==
    \A n \in DOMAIN msgs, a \in Agent :
        Cardinality({i \in Handled(n, a, {"message", "triage"}) : run[i].pc \in Live}) <= 1

\* wake.service.ts:75: who left the thread is not woken by a reply.  In a direct
\* channel the second wake does not ask.
MutedSleeps ==
    \A n \in DOMAIN msgs : \A a \in msgs[n].muted : Handled(n, a, {"message"}) = {}

\* worklog-prune.ts:2: the agent of a finished task tidies up.  An agent that
\* finishes the task in the run for its thread is woken while that run goes on,
\* and the daemon drops the wake.
PruneRuns ==
    \A i \in DOMAIN run : run[i].via = "prune" => run[i].pc # "skipped"
=============================================================================
