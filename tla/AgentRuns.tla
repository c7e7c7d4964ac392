----------------------------- MODULE AgentRuns -----------------------------
(***************************************************************************)
(* One run of an agent, from the wake to the end of its process:           *)
(* daemon/src/runner.ts, workspace.ts, token.ts, runtimes/claude.ts.       *)
(*                                                                         *)
(* Runs of one agent go on side by side (module DaemonServe).  Each has a  *)
(* working directory and a work log by task, but MEMORY.md, the command    *)
(* and the file of the system prompt are the agent's.  Every call of the   *)
(* file system is awaited, and a file that is written is empty first; the  *)
(* runtime is a process of its own, which reads the prompt once it is up   *)
(* and outlives a daemon that ends.  File systems do not fail.             *)
(***************************************************************************)
EXTENDS DaemonServe

VARIABLES home,  \* per machine and agent, the files
          step,  \* per handler, its run
          prepared  \* history: runs prepared while no other one of the agent was

allVars == <<daemonVars, home, step, prepared>>

\* A prompt is the runs whose text may be in it, a work log the number of its
\* entries.
Files == [memory : {"none", "empty", "seed", "own"},
          command : {"none", "empty", "whole"},
          prompt : SUBSET Handler,
          log : [TaskKey -> Nat]]

\* What a run read, its memory and work log, and what its process did: the prompt,
\* and the length of the log by then.
Progress == [pc : {"idle", "exists", "seed", "seeding", "memory", "command", "commanding", "log",
                   "prompt", "prompting", "boot", "up", "closed", "failed", "gone"},
             memory : {"none", "empty", "seed", "own"},
             log : Nat,
             got : SUBSET Handler,
             found : Nat]

RunsTypeOK ==
    /\ TypeOK
    /\ home \in [Machine -> [Agent -> Files]]
    /\ step \in [Handler -> Progress]
    /\ prepared \subseteq Handler

RunsInit ==
    /\ DaemonInit
    /\ home = [m \in Machine |-> [a \in Agent |->
                  [memory |-> "none", command |-> "none", prompt |-> {}, log |-> [k \in TaskKey |-> 0]]]]
    /\ step = [i \in Handler |-> [pc |-> "idle", memory |-> "none", log |-> 0, got |-> {}, found |-> 0]]
    /\ prepared = {}

-----------------------------------------------------------------------------
Home(i) == home[run[i].machine][run[i].agent]
OneHome(i, j) == run[i].machine = run[j].machine /\ run[i].agent = run[j].agent

\* runAgent up to the process, and the process up to its reading of the prompt.
ByDaemon == {"exists", "seed", "seeding", "memory", "command", "commanding", "log", "prompt", "prompting"}
Preparing == {i \in DOMAIN run : step[i].pc \in ByDaemon \cup {"boot"}}
Process == {i \in DOMAIN run : step[i].pc \in {"boot", "up"}}

To(i, pc) == step' = [step EXCEPT ![i].pc = pc]
Store(i, files) == home' = [home EXCEPT ![run[i].machine][run[i].agent] = files]

\* A wake comes in.
Wakes(m, a, k, via) ==
    /\ Len(run) + Len(wire[m]) < MaxWake
    /\ wire' = [wire EXCEPT ![m] = Append(@, [agent |-> a, task |-> k, msg |-> 0, via |-> via])]
    /\ UNCHANGED <<running, agentSlots, waitQueue, run, crashes, home, step, prepared>>

\* mintAgentToken, which may fail; then the directory is there.
MintToken(i) ==
    LET others == {j \in Preparing : OneHome(i, j)} IN
    /\ run[i].pc = "running" /\ step[i].pc = "idle"
    /\ \/ To(i, "failed") /\ UNCHANGED prepared
       \/ To(i, "exists") /\ prepared' = IF others = {} THEN prepared \cup {i} ELSE prepared \ others
    /\ UNCHANGED <<daemonVars, home>>

\* MEMORY.md is made when it is not there, and read.
ExistsMemory(i) ==
    /\ step[i].pc = "exists"
    /\ To(i, IF Home(i).memory = "none" THEN "seed" ELSE "memory")
    /\ UNCHANGED home
OpenMemory(i) ==
    /\ step[i].pc = "seed"
    /\ Store(i, [Home(i) EXCEPT !.memory = "empty"])
    /\ To(i, "seeding")
SeedMemory(i) ==
    /\ step[i].pc = "seeding"
    /\ Store(i, [Home(i) EXCEPT !.memory = "seed"])
    /\ To(i, "memory")
ReadMemory(i) ==
    /\ step[i].pc = "memory"
    /\ step' = [step EXCEPT ![i].memory = Home(i).memory, ![i].pc = "command"]
    /\ UNCHANGED home

\* The wrapper of the command line, the same each time.
OpenCommand(i) ==
    /\ step[i].pc = "command"
    /\ Store(i, [Home(i) EXCEPT !.command = "empty"])
    /\ To(i, "commanding")
WriteCommand(i) ==
    /\ step[i].pc = "commanding"
    /\ Store(i, [Home(i) EXCEPT !.command = "whole"])
    /\ To(i, "log")

\* The work log of the task.  Mutant: that of no task.
workLogDefault(i) == 0
workLog(i) == Home(i).log[run[i].task]
ReadLog(i) ==
    /\ step[i].pc = "log"
    /\ step' = [step EXCEPT ![i].log = workLog(i), ![i].pc = "prompt"]
    /\ UNCHANGED home

\* The prompt; then the process is spawned.  Of two that write one file, the end of
\* the longer may stay.  Mutant: a prompt that is there is kept.
OpenedWhenNone(i) == Home(i).prompt
Opened(i) == {}
OpenPrompt(i) ==
    /\ step[i].pc = "prompt"
    /\ Store(i, [Home(i) EXCEPT !.prompt = Opened(i)])
    /\ To(i, "prompting")
WritePrompt(i) ==
    /\ step[i].pc = "prompting"
    /\ Store(i, [Home(i) EXCEPT !.prompt = @ \cup {i}])
    /\ To(i, "boot")

Prepare(i) ==
    /\ run[i].pc = "running"
    /\ \/ ExistsMemory(i) \/ OpenMemory(i) \/ SeedMemory(i) \/ ReadMemory(i)
       \/ OpenCommand(i) \/ WriteCommand(i) \/ ReadLog(i)
       \/ OpenPrompt(i) \/ WritePrompt(i)
    /\ UNCHANGED <<daemonVars, prepared>>

-----------------------------------------------------------------------------
(* The agent's process.                                                    *)

Boot(i) ==
    /\ step[i].pc = "boot"
    /\ step' = [step EXCEPT ![i].got = Home(i).prompt, ![i].found = Home(i).log[run[i].task], ![i].pc = "up"]
    /\ UNCHANGED <<daemonVars, home, prepared>>

\* It writes to the log of its task, or, woken to tidy up, takes what is in it to
\* MEMORY.md; and it ends.
Work(i) ==
    /\ step[i].pc = "up"
    /\ \/ UNCHANGED home
       \/ /\ run[i].via = "message"
          /\ Store(i, [Home(i) EXCEPT !.log[run[i].task] = @ + 1])
       \/ /\ run[i].via = "prune"
          /\ Store(i, [Home(i) EXCEPT !.memory = "own", !.log[run[i].task] = 0])
    /\ To(i, "closed")
    /\ UNCHANGED <<daemonVars, prepared>>

\* child.on("close").  Mutant: the daemon does not wait for it.
ClosedEarly(i) == step[i].pc \in {"boot", "up", "closed", "failed"}
Closed(i) == step[i].pc \in {"closed", "failed"}
FinishRun(i) ==
    /\ Closed(i)
    /\ Finish(i)
    /\ UNCHANGED <<home, step, prepared>>

\* The daemon ends, also because a process cannot be started; what it was
\* preparing stays as it is.
CrashRuns(m) ==
    /\ Crash(m)
    /\ step' = [i \in Handler |-> IF i \in DOMAIN run /\ run[i].machine = m /\ step[i].pc \in ByDaemon
                                  THEN [step[i] EXCEPT !.pc = "gone"] ELSE step[i]]
    /\ UNCHANGED <<home, prepared>>

RunsNext ==
    \/ \E m \in Machine :
        \/ \E a \in Agent, k \in TaskKey, via \in {"message", "prune"} : Wakes(m, a, k, via)
        \/ Len(run) < MaxWake /\ Receive(m) /\ UNCHANGED <<home, step, prepared>>
        \/ CrashRuns(m)
    \/ \E i \in DOMAIN run :
        \/ Resume(i) /\ UNCHANGED <<home, step, prepared>>
        \/ MintToken(i) \/ Prepare(i) \/ Boot(i) \/ Work(i) \/ FinishRun(i)

RunsSpec == RunsInit /\ [][RunsNext]_allVars

-----------------------------------------------------------------------------
\* A daemon that ended left a process for the task of the run.
Orphaned(i) == \E j \in DOMAIN run : run[j].pc = "lost" /\ OneHome(i, j) /\ Same(i, run[j])

\* serve.ts:213: a working directory is one process's at a time, and the log in
\* the prompt has everything that earlier runs of the task wrote, unless a daemon
\* left one of them behind.
LogIsContinued ==
    \A i \in DOMAIN run : ~Orphaned(i) =>
        /\ i \in Process => \A j \in Process \ {i} : OneHome(i, j) => ~Same(i, run[j])
        /\ step[i].pc = "up" => step[i].log = step[i].found

\* runner.ts:69: a process is started with the prompt that was written for it, with
\* a memory in it, unless another run of the agent was prepared meanwhile; only a
\* daemon that ended early can have left an empty memory.
PromptUnlessShared ==
    \A i \in DOMAIN run : step[i].pc = "up" /\ i \in prepared =>
        /\ step[i].got = {i}
        /\ step[i].memory \in {"seed", "own"} \/ crashes > 0

-----------------------------------------------------------------------------
(* What comments say and the code does not keep.                           *)

\* serve.ts:213: parallel runs do not conflict.  The file of the prompt is one per
\* agent, and a process may be started with the channel and the log of another.
PromptIsOwn == \A i \in DOMAIN run : step[i].pc = "up" => step[i].got = {i}

\* workspace.ts:58: MEMORY.md is made once and then the agent's.  Two first runs
\* both find none; the later may write after the agent has.
MemoryIsKept ==
    [][\A m \in Machine, a \in Agent : home[m][a].memory = "own" => home'[m][a].memory = "own"]_allVars

\* The command is there while a process is up.  Each new run empties it first.
CommandIsWhole == \A i \in DOMAIN run : step[i].pc = "up" => Home(i).command = "whole"
=============================================================================
