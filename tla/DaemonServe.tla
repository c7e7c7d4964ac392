----------------------------- MODULE DaemonServe -----------------------------
(***************************************************************************)
(* How a daemon runs its agents: daemon/src/serve.ts.  A wake names an     *)
(* agent and a task, which is a thread or a channel.  A wake for a task    *)
(* that the agent is running or has queued is skipped; of other tasks an   *)
(* agent runs up to MaxParallel at once, and the rest queue.               *)
(*                                                                         *)
(* The event loop runs one handler at a time, and every continuation that  *)
(* is ready before the next event.  So a waiter that was handed a slot     *)
(* (resumed) takes it before another wake or the end of another run is     *)
(* handled: Quiet guards the actions that start with an event.             *)
(***************************************************************************)
EXTENDS Naturals, Sequences, FiniteSets, SequencesExt

CONSTANTS Machine,      \* one daemon each
          Agent, TaskKey,
          MaxParallel,
          MaxWake,      \* bound: wakes handled
          MaxCrash      \* bound: daemons that ended

ASSUME ParallelAssumption == MaxParallel \in Nat \ {0}

ASSUME WakeAssumption == MaxWake \in Nat /\ MaxCrash \in Nat

VARIABLES wire,      \* wakes on their way to a daemon
          running,   \* the agents' tasks that run or wait
          agentSlots,
          waitQueue, \* per agent, the handlers that wait
          run,       \* every handler of a wake, in the order they came in
          crashes

daemonVars == <<wire, running, agentSlots, waitQueue, run, crashes>>

\* What a wake is for: a message, or something else about the task made of it.
Via == {"message", "triage", "assign", "prune"}

Wake == [agent : Agent, task : TaskKey, msg : Nat, via : Via]

\* The number of wakes handled is the handler's name.
Handler == 1 .. MaxWake

TypeOK ==
    /\ wire \in [Machine -> Seq(Wake)]
    /\ running \in [Machine -> SUBSET (Agent \X TaskKey)]
    /\ agentSlots \in [Machine -> [Agent -> Nat]]
    /\ waitQueue \in [Machine -> [Agent -> Seq(Handler)]]
    /\ run \in Seq([machine : Machine, agent : Agent, task : TaskKey, msg : Nat, via : Via,
                    pc : {"queued", "resumed", "running", "ended", "skipped", "lost"}])
    /\ Len(run) <= MaxWake
    /\ crashes \in 0 .. MaxCrash

DaemonInit ==
    /\ wire = [m \in Machine |-> <<>>]
    /\ running = [m \in Machine |-> {}]
    /\ agentSlots = [m \in Machine |-> [a \in Agent |-> 0]]
    /\ waitQueue = [m \in Machine |-> [a \in Agent |-> <<>>]]
    /\ run = <<>>
    /\ crashes = 0

-----------------------------------------------------------------------------
At(m, a, pcs) == {i \in DOMAIN run : run[i].machine = m /\ run[i].agent = a /\ run[i].pc \in pcs}

Live == {"queued", "resumed", "running"}

Same(i, w) == run[i].agent = w.agent /\ run[i].task = w.task

Quiet(m) == \A i \in DOMAIN run : run[i].machine = m => run[i].pc # "resumed"

SlotFree(m, a) == agentSlots[m][a] < MaxParallel

\* The queue with a handler added.  Mutants: the youngest goes first; the
\* wrong one is queued.
PushNext(m, a, i) == [waitQueue EXCEPT ![m][a] = Append(@, i + 1)]
PushFront(m, a, i) == [waitQueue EXCEPT ![m][a] = <<i>> \o @]
Push(m, a, i) == [waitQueue EXCEPT ![m][a] = Append(@, i)]

\* running.add.  Mutant: only once the slot is there.
addWhenRunning(m, w) == IF SlotFree(m, w.agent) THEN running[m] \cup {<<w.agent, w.task>>} ELSE running[m]
add(m, w) == running[m] \cup {<<w.agent, w.task>>}

\* The handler of agent:start up to the wait for a slot: acquireSlot takes a
\* free one or queues.
Receive(m) ==
    LET w == Head(wire[m])
        i == Len(run) + 1
        new(pc) == [machine |-> m, agent |-> w.agent, task |-> w.task,
                    msg |-> w.msg, via |-> w.via, pc |-> pc] IN
    /\ wire[m] # <<>>
    /\ Quiet(m)
    /\ wire' = [wire EXCEPT ![m] = Tail(@)]
    /\ IF <<w.agent, w.task>> \in running[m]
       THEN /\ run' = Append(run, new("skipped"))
            /\ UNCHANGED <<running, agentSlots, waitQueue>>
       ELSE /\ running' = [running EXCEPT ![m] = add(m, w)]
            /\ IF SlotFree(m, w.agent)
               THEN /\ agentSlots' = [agentSlots EXCEPT ![m][w.agent] = @ + 1]
                    /\ run' = Append(run, new("running"))
                    /\ UNCHANGED waitQueue
               ELSE /\ waitQueue' = Push(m, w.agent, i)
                    /\ run' = Append(run, new("queued"))
                    /\ UNCHANGED agentSlots
    /\ UNCHANGED crashes

\* A waiter that was handed a slot takes it.
Resume(i) ==
    LET m == run[i].machine a == run[i].agent IN
    /\ run[i].pc = "resumed"
    /\ agentSlots' = [agentSlots EXCEPT ![m][a] = @ + 1]
    /\ run' = [run EXCEPT ![i].pc = "running"]
    /\ UNCHANGED <<wire, running, waitQueue, crashes>>

\* releaseSlot, which resumes the first waiter.  Mutant: it is not resumed.
releaseOnly(m, a, ended) ==
    /\ agentSlots' = [agentSlots EXCEPT ![m][a] = IF @ = 0 THEN 0 ELSE @ - 1]
    /\ run' = ended
    /\ UNCHANGED waitQueue
releaseSlot(m, a, ended) ==
    LET q == waitQueue[m][a] IN
    /\ agentSlots' = [agentSlots EXCEPT ![m][a] = IF @ = 0 THEN 0 ELSE @ - 1]
    /\ IF q = <<>> THEN run' = ended /\ UNCHANGED waitQueue
       ELSE /\ run' = [ended EXCEPT ![Head(q)].pc = "resumed"]
            /\ waitQueue' = [waitQueue EXCEPT ![m][a] = Tail(q)]

\* The agent's process has ended, or could not be started: finally.
Finish(i) ==
    LET m == run[i].machine a == run[i].agent IN
    /\ run[i].pc = "running"
    /\ Quiet(m)
    /\ running' = [running EXCEPT ![m] = @ \ {<<a, run[i].task>>}]
    /\ releaseSlot(m, a, [run EXCEPT ![i].pc = "ended"])
    /\ UNCHANGED <<wire, crashes>>

\* The daemon ends and is started again: its memory and the wakes on their
\* way are gone.
Crash(m) ==
    /\ crashes < MaxCrash
    /\ crashes' = crashes + 1
    /\ wire' = [wire EXCEPT ![m] = <<>>]
    /\ running' = [running EXCEPT ![m] = {}]
    /\ agentSlots' = [agentSlots EXCEPT ![m] = [a \in Agent |-> 0]]
    /\ waitQueue' = [waitQueue EXCEPT ![m] = [a \in Agent |-> <<>>]]
    /\ run' = [i \in DOMAIN run |-> IF run[i].machine = m /\ run[i].pc \in Live
                                    THEN [run[i] EXCEPT !.pc = "lost"] ELSE run[i]]

-----------------------------------------------------------------------------
\* serve.ts:53: a daemon never has two handlers for one task of an agent.
SameTaskAlone ==
    \A i, j \in DOMAIN run :
        /\ run[i].pc \in Live /\ run[j].pc \in Live
        /\ run[i].machine = run[j].machine
        /\ Same(i, run[j])
        => i = j

\* serve.ts:54: the queue is first in, first out.  No later wake of the agent
\* gets a slot while an earlier one waits.
NoOvertaking ==
    \A i, j \in DOMAIN run :
        i < j /\ run[i].pc = "queued" /\ run[i].machine = run[j].machine /\ run[i].agent = run[j].agent
        => run[j].pc \in {"queued", "skipped", "lost"}

\* serve.ts:54, 72: the count of slots is the number of runs, never more than
\* MaxParallel, and a task waits only while the slots of its agent are taken or
\* handed out, so that the end of every run lets one go on.
QueueOnlyWhenFull ==
    \A m \in Machine, a \in Agent :
        /\ agentSlots[m][a] = Cardinality(At(m, a, {"running"})) /\ agentSlots[m][a] <= MaxParallel
        /\ At(m, a, {"queued"}) # {} => Cardinality(At(m, a, {"running", "resumed"})) = MaxParallel

\* A task of an agent runs on one daemon at a time.  A daemon only knows of
\* its own runs.
SameTaskAloneAnywhere ==
    \A i, j \in DOMAIN run :
        run[i].pc \in Live /\ run[j].pc \in Live /\ Same(i, run[j]) => i = j
=============================================================================
