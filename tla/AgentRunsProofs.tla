-------------------------- MODULE AgentRunsProofs --------------------------
(***************************************************************************)
(* Proofs about AgentRuns, and with it about the scheduler of DaemonServe, *)
(* for any number of daemons, agents, tasks and wakes.                     *)
(*                                                                         *)
(* Sched is about the daemons: the task of every live handler is among     *)
(* those that run or wait, and the queues hold handlers that wait, each    *)
(* once.  Paced ties the progress of a run to its handler, and Continued   *)
(* what a process found in its log to what is there.                       *)
(*                                                                         *)
(* PromptInv follows a run that is prepared while no other run of its      *)
(* agent is: no two of them are prepared in one home at a time, the prompt *)
(* in the file is its own from the write to the start, and the memory is   *)
(* empty only while it is being made.                                      *)
(*                                                                         *)
(* SlotsInv is about the slots: a slot on its way to a waiter is claimed   *)
(* as much as one that is held, never more than MaxParallel are, and when  *)
(* a handler waits all of them are.  The queue has all that wait, in the   *)
(* order they came in.                                                     *)
(***************************************************************************)
EXTENDS AgentRuns, TLAPS, SequenceTheorems, FiniteSetTheorems

Pc == {"queued", "resumed", "running", "ended", "skipped", "lost"}

Run == [machine : Machine, agent : Agent, task : TaskKey, msg : Nat, via : Via,
        pc : Pc]

Owned ==
    \A i \in DOMAIN run :
        run[i].pc \in Live => <<run[i].agent, run[i].task>> \in running[run[i].machine]

Queued ==
    \A m \in Machine, a \in Agent :
        LET q == waitQueue[m][a] IN
        /\ \A k \in 1 .. Len(q) :
            /\ q[k] \in DOMAIN run
            /\ run[q[k]].machine = m /\ run[q[k]].agent = a /\ run[q[k]].pc = "queued"
        /\ \A k, l \in 1 .. Len(q) : q[k] = q[l] => k = l

Sched == TypeOK /\ Owned /\ SameTaskAlone /\ Queued

\* A handler stays what it is, and what is lost stays lost.
SameRuns ==
    \A i \in DOMAIN run :
        /\ i \in DOMAIN run'
        /\ run'[i].machine = run[i].machine /\ run'[i].agent = run[i].agent
        /\ run'[i].task = run[i].task /\ run'[i].via = run[i].via
        /\ run[i].pc = "lost" => run'[i].pc = "lost"

-----------------------------------------------------------------------------
LEMMA SeqOfFun ==
  ASSUME NEW S, NEW n \in Nat, NEW f \in [1 .. n -> S]
  PROVE  f \in Seq(S) /\ Len(f) = n
  OBVIOUS

LEMMA RunIsFun ==
  ASSUME TypeOK
  PROVE  /\ Len(run) \in Nat /\ DOMAIN run = 1 .. Len(run)
         /\ run \in [1 .. Len(run) -> Run]
         /\ Len(run) <= MaxWake /\ DOMAIN run \subseteq Handler
  <1>1. run \in Seq(Run) /\ Len(run) <= MaxWake
    BY DEF TypeOK, Run, Pc
  <1>2. Len(run) \in Nat /\ DOMAIN run = 1 .. Len(run) /\ run \in [1 .. Len(run) -> Run]
    BY <1>1, LenProperties
  <1> QED BY <1>1, <1>2, WakeAssumption DEF Handler

LEMMA QueueIsSeq ==
  ASSUME TypeOK, NEW m \in Machine, NEW a \in Agent
  PROVE  waitQueue[m][a] \in Seq(Handler) /\ Len(waitQueue[m][a]) \in Nat
  BY LenProperties DEF TypeOK

LEMMA SlotsAreNat ==
  ASSUME TypeOK, NEW m \in Machine, NEW a \in Agent
  PROVE  agentSlots[m][a] \in Nat
  BY DEF TypeOK

LEMMA OneEntry ==
  ASSUME NEW S, NEW f \in [Machine -> [Agent -> S]], NEW m \in Machine, NEW a \in Agent, NEW e \in S
  PROVE  /\ [f EXCEPT ![m][a] = e] \in [Machine -> [Agent -> S]]
         /\ \A n \in Machine, b \in Agent :
              [f EXCEPT ![m][a] = e][n][b] = IF n = m /\ b = a THEN e ELSE f[n][b]
  OBVIOUS

LEMMA SchedInit == DaemonInit => Sched
  <1> SUFFICES ASSUME DaemonInit PROVE Sched
    OBVIOUS
  <1> USE DEF DaemonInit
  <1>1. TypeOK
    BY WakeAssumption DEF TypeOK
  <1>2. Owned /\ SameTaskAlone /\ Queued
    BY DEF Owned, SameTaskAlone, Queued
  <1> QED BY <1>1, <1>2 DEF Sched

\* A wake that comes in disturbs no handler.
LEMMA WakesSched ==
  ASSUME Sched, NEW m \in Machine, NEW a \in Agent, NEW k \in TaskKey, NEW via \in {"message", "prune"},
         Wakes(m, a, k, via)
  PROVE  Sched' /\ SameRuns
  <1>1. wire' = [wire EXCEPT ![m] = Append(@, [agent |-> a, task |-> k, msg |-> 0, via |-> via])]
        /\ UNCHANGED <<running, agentSlots, waitQueue, run, crashes>>
    BY DEF Wakes
  <1>2. TypeOK'
    <2>1. wire[m] \in Seq(Wake) /\ [agent |-> a, task |-> k, msg |-> 0, via |-> via] \in Wake
      BY DEF Sched, TypeOK, Wake, Via
    <2>2. Append(wire[m], [agent |-> a, task |-> k, msg |-> 0, via |-> via]) \in Seq(Wake)
      BY <2>1, AppendProperties
    <2> QED BY <1>1, <2>2 DEF Sched, TypeOK
  <1>3. (Owned /\ SameTaskAlone /\ Queued)'
    BY <1>1 DEF Sched, Owned, SameTaskAlone, Queued, Same
  <1> QED BY <1>1, <1>2, <1>3 DEF Sched, SameRuns

\* A handler that is added, skipped, running or queued; the others are as they were.
LEMMA ReceiveSched ==
  ASSUME Sched, NEW m \in Machine, Len(run) < MaxWake, Receive(m)
  PROVE  /\ Sched' /\ SameRuns
         /\ DOMAIN run' = 1 .. Len(run) + 1
         /\ \A i \in DOMAIN run : run'[i] = run[i]
         /\ run'[Len(run) + 1].pc \in {"skipped", "running", "queued"}
  <1> DEFINE w == Head(wire[m])
             i == Len(run) + 1
             new(pc) == [machine |-> m, agent |-> w.agent, task |-> w.task,
                         msg |-> w.msg, via |-> w.via, pc |-> pc]
  <1>1. TypeOK /\ Len(run) \in Nat /\ DOMAIN run = 1 .. Len(run) /\ run \in Seq(Run) /\ i \in Handler
    BY RunIsFun, SeqOfFun, WakeAssumption DEF Sched, Handler
  <1>2. w \in Wake /\ Tail(wire[m]) \in Seq(Wake)
    BY <1>1, HeadTailProperties DEF TypeOK, Receive
  <1>3. \A pc \in {"skipped", "running", "queued"} : new(pc) \in Run
    BY <1>2 DEF Run, Wake, Pc
  <1>4. PICK pc \in {"skipped", "running", "queued"} :
          /\ run' = Append(run, new(pc))
          /\ pc = "skipped" => UNCHANGED <<running, agentSlots, waitQueue>>
          /\ pc # "skipped" => /\ <<w.agent, w.task>> \notin running[m]
                               /\ running' = [running EXCEPT ![m] = running[m] \cup {<<w.agent, w.task>>}]
          /\ pc = "running" => /\ agentSlots' = [agentSlots EXCEPT ![m][w.agent] = @ + 1]
                               /\ UNCHANGED waitQueue
          /\ pc = "queued" => /\ waitQueue' = [waitQueue EXCEPT ![m][w.agent] = Append(@, i)]
                              /\ UNCHANGED agentSlots
          /\ wire' = [wire EXCEPT ![m] = Tail(@)] /\ UNCHANGED crashes
    BY DEF Receive, add, Push
  <1> HIDE DEF new, w
  <1>5. /\ run' \in Seq(Run) /\ Len(run') = i /\ DOMAIN run' = 1 .. i
        /\ \A j \in DOMAIN run : run'[j] = run[j]
        /\ run'[i] = new(pc)
    BY <1>1, <1>3, <1>4, AppendProperties, LenProperties
  <1>6. run'[i].machine = m /\ run'[i].agent = w.agent /\ run'[i].task = w.task /\ run'[i].pc = pc
    BY <1>5 DEF new
  <1>7. w.agent \in Agent /\ w.task \in TaskKey
    BY <1>2 DEF Wake
  <1>12. /\ running' \in [Machine -> SUBSET (Agent \X TaskKey)]
         /\ \A n \in Machine : running[n] \subseteq running'[n]
         /\ pc # "skipped" => <<w.agent, w.task>> \in running'[m]
    <2>1. running \in [Machine -> SUBSET (Agent \X TaskKey)]
      BY <1>1 DEF TypeOK
    <2>2. <<w.agent, w.task>> \in Agent \X TaskKey
      BY <1>7
    <2>3. running[m] \cup {<<w.agent, w.task>>} \in SUBSET (Agent \X TaskKey)
      BY <2>1, <2>2
    <2> QED BY <1>4, <2>1, <2>3
  <1>13. /\ waitQueue' \in [Machine -> [Agent -> Seq(Handler)]]
         /\ \A n \in Machine, a \in Agent :
              waitQueue'[n][a] = IF pc = "queued" /\ n = m /\ a = w.agent
                                 THEN Append(waitQueue[n][a], i) ELSE waitQueue[n][a]
    <2>1. Append(waitQueue[m][w.agent], i) \in Seq(Handler)
      BY <1>1, <1>7, QueueIsSeq, AppendProperties
    <2>2. waitQueue \in [Machine -> [Agent -> Seq(Handler)]]
      BY <1>1 DEF TypeOK
    <2>3. CASE pc = "queued"
      <3> DEFINE e == Append(waitQueue[m][w.agent], i)
      <3>1. waitQueue' = [waitQueue EXCEPT ![m][w.agent] = e] /\ e \in Seq(Handler)
        BY <1>4, <2>1, <2>3
      <3> HIDE DEF e
      <3>2. /\ waitQueue' \in [Machine -> [Agent -> Seq(Handler)]]
            /\ \A n \in Machine, b \in Agent :
                 waitQueue'[n][b] = IF n = m /\ b = w.agent THEN e ELSE waitQueue[n][b]
        BY <3>1, <2>2, <1>7, OneEntry
      <3> QED BY <3>2, <2>3 DEF e
    <2>4. CASE pc # "queued"
      BY <1>4, <2>2, <2>4
    <2> QED BY <2>3, <2>4
  <1>8. TypeOK'
    <2>1. wire' \in [Machine -> Seq(Wake)]
      BY <1>2, <1>4, <1>1 DEF TypeOK
    <2>3. agentSlots' \in [Machine -> [Agent -> Nat]]
      <3>1. agentSlots \in [Machine -> [Agent -> Nat]] /\ agentSlots[m][w.agent] + 1 \in Nat
        BY <1>1, <1>7 DEF TypeOK
      <3>2. CASE pc = "running"
        <4> DEFINE e == agentSlots[m][w.agent] + 1
        <4>1. agentSlots' = [agentSlots EXCEPT ![m][w.agent] = e] /\ e \in Nat
          BY <1>4, <3>1, <3>2
        <4> HIDE DEF e
        <4> QED BY <4>1, <3>1, <1>7, OneEntry
      <3> QED BY <1>4, <3>1, <3>2
    <2>5. Len(run') <= MaxWake
      BY <1>1, <1>5, WakeAssumption
    <2> QED BY <2>1, <2>3, <2>5, <1>1, <1>4, <1>5, <1>12, <1>13 DEF TypeOK, Run, Pc
  <1>9. Owned'
    <2> SUFFICES ASSUME NEW j \in DOMAIN run', run'[j].pc \in Live
                 PROVE  <<run'[j].agent, run'[j].task>> \in running'[run'[j].machine]
      BY DEF Owned
    <2>1. CASE j = i
      <3>1. pc # "skipped"
        BY <2>1, <1>6 DEF Live
      <3> QED BY <2>1, <3>1, <1>6, <1>12
    <2>2. CASE j # i
      <3>1. j \in DOMAIN run /\ run'[j] = run[j] /\ run[j].machine \in Machine
        <4>1. j \in 1 .. Len(run)
          BY <2>2, <1>5, <1>1
        <4> QED BY <4>1, <1>5, <1>1, RunIsFun DEF Run
      <3>2. <<run[j].agent, run[j].task>> \in running[run[j].machine]
        BY <3>1 DEF Sched, Owned
      <3> QED BY <3>1, <3>2, <1>12
    <2> QED BY <2>1, <2>2
  <1>10. SameTaskAlone'
    <2> SUFFICES ASSUME NEW j \in DOMAIN run', NEW l \in DOMAIN run', j # l,
                        run'[j].pc \in Live, run'[l].pc \in Live, run'[j].machine = run'[l].machine,
                        run'[j].agent = run'[l].agent, run'[j].task = run'[l].task
                 PROVE  FALSE
      BY DEF SameTaskAlone, Same
    <2>1. ASSUME NEW x \in DOMAIN run, run[x].pc \in Live, run[x].machine = m,
                 run[x].agent = w.agent, run[x].task = w.task, pc \in Live
          PROVE  FALSE
      BY <2>1, <1>4 DEF Sched, Owned, Live
    <2>2. CASE j = i
      BY <2>1, <2>2, <1>5, <1>6, <1>1
    <2>3. CASE l = i
      BY <2>1, <2>3, <1>5, <1>6, <1>1
    <2>4. CASE j # i /\ l # i
      BY <2>4, <1>5, <1>1 DEF Sched, SameTaskAlone, Same
    <2> QED BY <2>2, <2>3, <2>4
  <1>11. Queued'
    <2> SUFFICES ASSUME NEW n \in Machine, NEW a \in Agent
                 PROVE  /\ \A k \in 1 .. Len(waitQueue'[n][a]) :
                            /\ waitQueue'[n][a][k] \in DOMAIN run'
                            /\ run'[waitQueue'[n][a][k]].machine = n /\ run'[waitQueue'[n][a][k]].agent = a
                            /\ run'[waitQueue'[n][a][k]].pc = "queued"
                        /\ \A k, l \in 1 .. Len(waitQueue'[n][a]) :
                            waitQueue'[n][a][k] = waitQueue'[n][a][l] => k = l
      BY DEF Queued
    <2>1. CASE waitQueue'[n][a] = waitQueue[n][a]
      BY <2>1, <1>5 DEF Sched, Queued
    <2>2. CASE waitQueue'[n][a] # waitQueue[n][a]
      <3> DEFINE q == waitQueue[n][a]
      <3>1. n = m /\ a = w.agent /\ waitQueue'[n][a] = Append(q, i) /\ pc = "queued"
        BY <2>2, <1>13
      <3>2. q \in Seq(Handler) /\ Len(q) \in Nat
        BY <1>1, QueueIsSeq
      <3>3. /\ \A k \in 1 .. Len(q) : q[k] \in DOMAIN run /\ run[q[k]].machine = n /\ run[q[k]].agent = a /\ run[q[k]].pc = "queued"
            /\ \A k, l \in 1 .. Len(q) : q[k] = q[l] => k = l
        BY DEF Sched, Queued
      <3> HIDE DEF q
      <3>4. /\ Len(Append(q, i)) = Len(q) + 1
            /\ \A k \in 1 .. Len(q) : Append(q, i)[k] = q[k]
            /\ Append(q, i)[Len(q) + 1] = i
        BY <3>2, <1>1, AppendProperties
      <3> DEFINE p == Append(q, i)
      <3> HIDE DEF p
      <3>5. /\ Len(p) = Len(q) + 1 /\ p[Len(q) + 1] = i
            /\ \A k \in 1 .. Len(q) : p[k] = q[k] /\ p[k] # i
        BY <3>2, <3>3, <3>4, <1>1 DEF p
      <3>6. \A k \in 1 .. Len(p) : k \in 1 .. Len(q) \/ k = Len(q) + 1
        BY <3>2, <3>5
      <3>7. \A k \in 1 .. Len(p) :
              p[k] \in DOMAIN run' /\ run'[p[k]].machine = n /\ run'[p[k]].agent = a /\ run'[p[k]].pc = "queued"
        BY <3>1, <3>3, <3>5, <3>6, <1>5, <1>6, <1>1
      <3>8. \A k, l \in 1 .. Len(p) : p[k] = p[l] => k = l
        BY <3>3, <3>5, <3>6
      <3> QED BY <3>1, <3>7, <3>8 DEF p
    <2> QED BY <2>1, <2>2
  <1> QED BY <1>1, <1>4, <1>5, <1>6, <1>8, <1>9, <1>10, <1>11 DEF Sched, SameRuns

\* Only the state of handlers changes, and none comes to life.
PcOnly ==
    /\ DOMAIN run' = DOMAIN run
    /\ \A i \in DOMAIN run :
        /\ run'[i].machine = run[i].machine /\ run'[i].agent = run[i].agent
        /\ run'[i].task = run[i].task /\ run'[i].via = run[i].via
        /\ run'[i].pc \in Live => run[i].pc \in Live

LEMMA SetPc ==
  ASSUME NEW r \in Seq(Run), NEW i \in DOMAIN r, NEW pc \in Pc
  PROVE  /\ [r EXCEPT ![i].pc = pc] \in Seq(Run)
         /\ Len([r EXCEPT ![i].pc = pc]) = Len(r)
         /\ DOMAIN [r EXCEPT ![i].pc = pc] = DOMAIN r
         /\ \A j \in DOMAIN r : [r EXCEPT ![i].pc = pc][j] =
              IF j = i THEN [r[j] EXCEPT !.pc = pc] ELSE r[j]
  <1> DEFINE n == Len(r)
             s == [r EXCEPT ![i].pc = pc]
  <1>1. n \in Nat /\ DOMAIN r = 1 .. n /\ r \in [1 .. n -> Run]
    BY LenProperties
  <1> HIDE DEF n
  <1>2. s \in [1 .. n -> Run] /\ \A j \in 1 .. n : s[j] = IF j = i THEN [r[j] EXCEPT !.pc = pc] ELSE r[j]
    BY <1>1 DEF Run
  <1>3. s \in Seq(Run) /\ Len(s) = n /\ DOMAIN s = 1 .. n
    BY <1>1, <1>2, SeqOfFun
  <1> QED BY <1>1, <1>2, <1>3 DEF n

LEMMA PcOnlySched ==
  ASSUME Sched, PcOnly,
         \A i \in DOMAIN run' : run'[i].pc \in Live =>
            <<run[i].agent, run[i].task>> \in running'[run[i].machine]
  PROVE  (Owned /\ SameTaskAlone)'
  BY DEF Sched, PcOnly, Owned, SameTaskAlone, Same

LEMMA ResumeSched ==
  ASSUME Sched, NEW i \in DOMAIN run, Resume(i)
  PROVE  /\ Sched' /\ PcOnly /\ SameRuns
         /\ \A j \in DOMAIN run : run'[j].pc = IF j = i THEN "running" ELSE run[j].pc
  <1>1. /\ TypeOK /\ run \in Seq(Run) /\ run[i] \in Run
        /\ run[i].machine \in Machine /\ run[i].agent \in Agent
    BY RunIsFun, SeqOfFun DEF Sched, Run
  <1>2. run[i].pc = "resumed" /\ run' = [run EXCEPT ![i].pc = "running"] /\ UNCHANGED <<wire, running, waitQueue, crashes>>
    BY DEF Resume
  <1>3. /\ run' \in Seq(Run) /\ Len(run') = Len(run) /\ DOMAIN run' = DOMAIN run
        /\ \A j \in DOMAIN run : run'[j] = IF j = i THEN [run[j] EXCEPT !.pc = "running"] ELSE run[j]
    <2>1. "running" \in Pc
      BY DEF Pc
    <2> QED BY <1>1, <1>2, <2>1, SetPc
  <1>4. \A j \in DOMAIN run : run[j] \in Run
    BY <1>1, RunIsFun
  <1>5. /\ PcOnly /\ SameRuns
        /\ \A j \in DOMAIN run : run'[j].pc = IF j = i THEN "running" ELSE run[j].pc
    BY <1>2, <1>3, <1>4 DEF PcOnly, SameRuns, Live, Run
  <1>6. TypeOK'
    <2> DEFINE e == agentSlots[run[i].machine][run[i].agent] + 1
    <2>4. agentSlots \in [Machine -> [Agent -> Nat]]
      BY <1>1 DEF TypeOK
    <2>1. e \in Nat
      BY <1>1, SlotsAreNat
    <2>2. agentSlots' = [agentSlots EXCEPT ![run[i].machine][run[i].agent] = e]
      BY DEF Resume
    <2> HIDE DEF e
    <2>3. agentSlots' \in [Machine -> [Agent -> Nat]]
      BY <2>1, <2>2, <2>4, <1>1, OneEntry
    <2> QED BY <2>3, <1>1, <1>2, <1>3 DEF TypeOK, Run, Pc
  <1>7. (Owned /\ SameTaskAlone)'
    BY <1>2, <1>5, PcOnlySched DEF Sched, Owned, PcOnly
  <1>8. Queued'
    BY <1>2, <1>3, <1>5 DEF Sched, Queued, PcOnly
  <1> QED BY <1>5, <1>6, <1>7, <1>8 DEF Sched

\* The end of a run hands its slot to the first that waits.
LEMMA FinishSched ==
  ASSUME Sched, NEW i \in DOMAIN run, Finish(i)
  PROVE  /\ Sched' /\ PcOnly /\ SameRuns /\ run[i].pc = "running"
         /\ \A j \in DOMAIN run :
              \/ run'[j].pc = IF j = i THEN "ended" ELSE run[j].pc
              \/ run[j].pc = "queued" /\ run'[j].pc = "resumed"
  <1> DEFINE m == run[i].machine
             a == run[i].agent
             q == waitQueue[m][a]
             ended == [run EXCEPT ![i].pc = "ended"]
             e == IF agentSlots[m][a] = 0 THEN 0 ELSE agentSlots[m][a] - 1
  <1>1. TypeOK /\ run \in Seq(Run) /\ run[i] \in Run /\ m \in Machine /\ a \in Agent
    BY RunIsFun, SeqOfFun DEF Sched, Run
  <1>2. /\ run[i].pc = "running"
        /\ running' = [running EXCEPT ![m] = running[m] \ {<<a, run[i].task>>}]
        /\ agentSlots' = [agentSlots EXCEPT ![m][a] = e]
        /\ UNCHANGED <<wire, crashes>>
    BY DEF Finish, releaseSlot
  <1>3. \/ q = <<>> /\ run' = ended /\ waitQueue' = waitQueue
        \/ /\ q # <<>> /\ run' = [ended EXCEPT ![Head(q)].pc = "resumed"]
           /\ waitQueue' = [waitQueue EXCEPT ![m][a] = Tail(q)]
    BY DEF Finish, releaseSlot
  <1>4. /\ ended \in Seq(Run) /\ Len(ended) = Len(run) /\ DOMAIN ended = DOMAIN run
        /\ \A j \in DOMAIN run : ended[j] = IF j = i THEN [run[j] EXCEPT !.pc = "ended"] ELSE run[j]
    <2>1. "ended" \in Pc
      BY DEF Pc
    <2> QED BY <1>1, <2>1, SetPc
  <1>5. \A j \in DOMAIN run : run[j] \in Run
    BY <1>1, RunIsFun
  <1> HIDE DEF m, a, q, ended, e
  <1>6. /\ q \in Seq(Handler) /\ Len(q) \in Nat
        /\ \A k \in 1 .. Len(q) : q[k] \in DOMAIN run /\ run[q[k]].machine = m /\ run[q[k]].agent = a /\ run[q[k]].pc = "queued"
        /\ \A k, l \in 1 .. Len(q) : q[k] = q[l] => k = l
    BY <1>1, QueueIsSeq DEF Sched, Queued, q
  <1>7. e \in Nat
    BY <1>1, SlotsAreNat DEF e
  <1>8. q # <<>> => /\ Head(q) = q[1] /\ Len(q) >= 1 /\ Head(q) \in DOMAIN run /\ Head(q) # i
                    /\ run[Head(q)].pc = "queued"
                    /\ Tail(q) \in Seq(Handler) /\ Len(Tail(q)) = Len(q) - 1
                    /\ \A k \in 1 .. Len(Tail(q)) : Tail(q)[k] = q[k + 1]
    BY <1>2, <1>6, HeadTailProperties, EmptySeq
  <1>9. q # <<>> =>
          /\ run' \in Seq(Run) /\ Len(run') = Len(run) /\ DOMAIN run' = DOMAIN run
          /\ \A j \in DOMAIN run : run'[j] = IF j = Head(q) THEN [ended[j] EXCEPT !.pc = "resumed"] ELSE ended[j]
    <2> SUFFICES ASSUME q # <<>>
                 PROVE  /\ run' \in Seq(Run) /\ Len(run') = Len(run) /\ DOMAIN run' = DOMAIN run
                        /\ \A j \in DOMAIN run :
                             run'[j] = IF j = Head(q) THEN [ended[j] EXCEPT !.pc = "resumed"] ELSE ended[j]
      OBVIOUS
    <2> DEFINE h == Head(q)
    <2>1. h \in DOMAIN ended /\ run' = [ended EXCEPT ![h].pc = "resumed"]
      BY <1>3, <1>4, <1>8
    <2> HIDE DEF h
    <2>2. /\ run' \in Seq(Run) /\ Len(run') = Len(ended) /\ DOMAIN run' = DOMAIN ended
          /\ \A j \in DOMAIN ended :
               run'[j] = IF j = h THEN [ended[j] EXCEPT !.pc = "resumed"] ELSE ended[j]
      BY <2>1, <1>4, SetPc DEF Pc
    <2> QED BY <2>2, <1>4 DEF h
  <1>10. /\ run' \in Seq(Run) /\ Len(run') = Len(run) /\ DOMAIN run' = DOMAIN run
         /\ \A j \in DOMAIN run :
              /\ run'[j].machine = run[j].machine /\ run'[j].agent = run[j].agent
              /\ run'[j].task = run[j].task /\ run'[j].via = run[j].via
              /\ run'[j].pc = IF j = i THEN "ended" ELSE IF q # <<>> /\ j = Head(q) THEN "resumed" ELSE run[j].pc
    <2>1. /\ run' \in Seq(Run) /\ Len(run') = Len(run) /\ DOMAIN run' = DOMAIN run
      BY <1>3, <1>4, <1>9
    <2>2. ASSUME NEW j \in DOMAIN run
          PROVE  /\ ended[j].machine = run[j].machine /\ ended[j].agent = run[j].agent
                 /\ ended[j].task = run[j].task /\ ended[j].via = run[j].via
                 /\ ended[j].pc = IF j = i THEN "ended" ELSE run[j].pc
                 /\ ended[j] \in Run
      BY <1>4, <1>5 DEF Run, Pc
    <2>3. ASSUME NEW j \in DOMAIN run
          PROVE  /\ run'[j].machine = ended[j].machine /\ run'[j].agent = ended[j].agent
                 /\ run'[j].task = ended[j].task /\ run'[j].via = ended[j].via
                 /\ run'[j].pc = IF q # <<>> /\ j = Head(q) THEN "resumed" ELSE ended[j].pc
      BY <2>2, <1>3, <1>9 DEF Run
    <2> QED BY <2>1, <2>2, <2>3, <1>8
  <1>11. /\ PcOnly /\ SameRuns
         /\ \A j \in DOMAIN run :
              \/ run'[j].pc = IF j = i THEN "ended" ELSE run[j].pc
              \/ run[j].pc = "queued" /\ run'[j].pc = "resumed"
    BY <1>2, <1>8, <1>10 DEF PcOnly, SameRuns, Live
  <1>12. /\ waitQueue' \in [Machine -> [Agent -> Seq(Handler)]]
         /\ \A n \in Machine, b \in Agent :
              waitQueue'[n][b] = IF q # <<>> /\ n = m /\ b = a THEN Tail(q) ELSE waitQueue[n][b]
    <2>1. waitQueue \in [Machine -> [Agent -> Seq(Handler)]]
      BY <1>1 DEF TypeOK
    <2> DEFINE t == Tail(q)
    <2>2. q # <<>> => t \in Seq(Handler) /\ waitQueue' = [waitQueue EXCEPT ![m][a] = t]
      BY <1>3, <1>8
    <2> HIDE DEF t
    <2>3. CASE q # <<>>
      <3>2. waitQueue' = [waitQueue EXCEPT ![m][a] = t] /\ t \in Seq(Handler)
        BY <2>2, <2>3
      <3>1. /\ waitQueue' \in [Machine -> [Agent -> Seq(Handler)]]
            /\ \A n \in Machine, b \in Agent :
                 waitQueue'[n][b] = IF n = m /\ b = a THEN t ELSE waitQueue[n][b]
        BY <2>1, <3>2, <1>1, OneEntry
      <3> QED BY <3>1, <2>3 DEF t
    <2> QED BY <2>1, <2>3, <1>3
  <1>13. TypeOK'
    <2>1. running' \in [Machine -> SUBSET (Agent \X TaskKey)]
      BY <1>1, <1>2 DEF TypeOK
    <2>2. agentSlots' \in [Machine -> [Agent -> Nat]]
      BY <1>1, <1>2, <1>7, OneEntry DEF TypeOK
    <2> QED BY <2>1, <2>2, <1>1, <1>2, <1>10, <1>12 DEF TypeOK, Run, Pc
  <1>14. (Owned /\ SameTaskAlone)'
    <2> SUFFICES ASSUME NEW j \in DOMAIN run', run'[j].pc \in Live
                 PROVE  <<run[j].agent, run[j].task>> \in running'[run[j].machine]
      BY <1>11, PcOnlySched
    <2>1. j \in DOMAIN run /\ run[j].pc \in Live /\ j # i /\ run[i].pc \in Live
      BY <1>2, <1>10, <1>11 DEF PcOnly, Live
    <2>2. <<run[j].agent, run[j].task>> \in running[run[j].machine]
      BY <2>1 DEF Sched, Owned
    <2>3. ~(run[j].machine = m /\ run[j].agent = a /\ run[j].task = run[i].task)
      BY <2>1 DEF Sched, SameTaskAlone, Same, m, a
    <2>4. run[j].machine \in Machine /\ running \in [Machine -> SUBSET (Agent \X TaskKey)]
      BY <2>1, <1>1, <1>5 DEF Run, TypeOK
    <2> QED BY <2>2, <2>3, <2>4, <1>1, <1>2
  <1>15. Queued'
    <2> SUFFICES ASSUME NEW n \in Machine, NEW b \in Agent
                 PROVE  /\ \A k \in 1 .. Len(waitQueue'[n][b]) :
                            /\ waitQueue'[n][b][k] \in DOMAIN run'
                            /\ run'[waitQueue'[n][b][k]].machine = n /\ run'[waitQueue'[n][b][k]].agent = b
                            /\ run'[waitQueue'[n][b][k]].pc = "queued"
                        /\ \A k, l \in 1 .. Len(waitQueue'[n][b]) :
                            waitQueue'[n][b][k] = waitQueue'[n][b][l] => k = l
      BY DEF Queued
    <2>1. CASE q # <<>> /\ n = m /\ b = a
      <3>1. waitQueue'[n][b] = Tail(q)
        BY <2>1, <1>12
      <3>2. \A k \in 1 .. Len(Tail(q)) : k + 1 \in 1 .. Len(q) /\ k + 1 # 1 /\ Tail(q)[k] = q[k + 1] /\ q[k + 1] # Head(q)
        BY <2>1, <1>6, <1>8
      <3>3. \A k \in 1 .. Len(Tail(q)) :
              LET h == Tail(q)[k] IN
              h \in DOMAIN run' /\ run'[h].machine = n /\ run'[h].agent = b /\ run'[h].pc = "queued"
        <4> SUFFICES ASSUME NEW k \in 1 .. Len(Tail(q)), NEW h, h = Tail(q)[k]
                     PROVE  h \in DOMAIN run' /\ run'[h].machine = n /\ run'[h].agent = b /\ run'[h].pc = "queued"
          OBVIOUS
        <4>1. h = q[k + 1] /\ k + 1 \in 1 .. Len(q) /\ h # Head(q)
          BY <3>2
        <4>2. h \in DOMAIN run /\ run[h].machine = m /\ run[h].agent = a /\ run[h].pc = "queued"
          BY <4>1, <1>6
        <4> QED BY <2>1, <4>1, <4>2, <1>2, <1>10
      <3>4. \A k, l \in 1 .. Len(Tail(q)) : Tail(q)[k] = Tail(q)[l] => k = l
        BY <3>2, <1>6
      <3> QED BY <3>1, <3>3, <3>4
    <2>2. CASE ~(q # <<>> /\ n = m /\ b = a)
      <3> DEFINE p == waitQueue[n][b]
      <3>1. waitQueue'[n][b] = p
        BY <2>2, <1>12
      <3>2. /\ \A k \in 1 .. Len(p) : p[k] \in DOMAIN run /\ run[p[k]].machine = n /\ run[p[k]].agent = b /\ run[p[k]].pc = "queued"
            /\ \A k, l \in 1 .. Len(p) : p[k] = p[l] => k = l
        BY DEF Sched, Queued
      <3>3. q # <<>> => run[Head(q)].machine = m /\ run[Head(q)].agent = a
        BY <1>6, <1>8
      <3> HIDE DEF p
      <3>4. \A k \in 1 .. Len(p) :
              p[k] \in DOMAIN run' /\ run'[p[k]].machine = n /\ run'[p[k]].agent = b /\ run'[p[k]].pc = "queued"
        BY SMTT(30), <2>2, <3>2, <3>3, <1>2, <1>10
      <3> QED BY <3>1, <3>2, <3>4
    <2> QED BY <2>1, <2>2
  <1> QED BY <1>2, <1>11, <1>13, <1>14, <1>15 DEF Sched

LEMMA CrashSched ==
  ASSUME Sched, NEW m \in Machine, Crash(m)
  PROVE  /\ Sched' /\ PcOnly /\ SameRuns /\ crashes' > 0
         /\ \A j \in DOMAIN run :
              run'[j].pc = IF run[j].machine = m /\ run[j].pc \in Live THEN "lost" ELSE run[j].pc
  <1>1. TypeOK /\ run \in [1 .. Len(run) -> Run] /\ Len(run) \in Nat /\ DOMAIN run = 1 .. Len(run)
    BY RunIsFun DEF Sched
  <1>2. /\ crashes < MaxCrash /\ crashes' = crashes + 1
        /\ wire' = [wire EXCEPT ![m] = <<>>] /\ running' = [running EXCEPT ![m] = {}]
        /\ agentSlots' = [agentSlots EXCEPT ![m] = [a \in Agent |-> 0]]
        /\ waitQueue' = [waitQueue EXCEPT ![m] = [a \in Agent |-> <<>>]]
        /\ run' = [i \in DOMAIN run |-> IF run[i].machine = m /\ run[i].pc \in Live
                                         THEN [run[i] EXCEPT !.pc = "lost"] ELSE run[i]]
    BY DEF Crash
  <1>3. run' \in [1 .. Len(run) -> Run]
    BY <1>1, <1>2 DEF Run, Pc
  <1>4. run' \in Seq(Run) /\ Len(run') = Len(run) /\ DOMAIN run' = DOMAIN run
    BY <1>1, <1>3, SeqOfFun
  <1>5. \A j \in DOMAIN run :
          /\ run'[j].machine = run[j].machine /\ run'[j].agent = run[j].agent
          /\ run'[j].task = run[j].task /\ run'[j].via = run[j].via
          /\ run'[j].pc = IF run[j].machine = m /\ run[j].pc \in Live THEN "lost" ELSE run[j].pc
    BY <1>1, <1>2 DEF Run
  <1>6. PcOnly /\ SameRuns
    BY <1>4, <1>5 DEF PcOnly, SameRuns, Live
  <1>7. TypeOK'
    <2>1. wire' \in [Machine -> Seq(Wake)]
      BY <1>1, <1>2, EmptySeq DEF TypeOK
    <2>2. running' \in [Machine -> SUBSET (Agent \X TaskKey)]
      BY <1>1, <1>2 DEF TypeOK
    <2>3. agentSlots' \in [Machine -> [Agent -> Nat]]
      BY <1>1, <1>2 DEF TypeOK
    <2>4. waitQueue' \in [Machine -> [Agent -> Seq(Handler)]]
      BY <1>1, <1>2, EmptySeq DEF TypeOK
    <2>5. crashes' \in 0 .. MaxCrash
      BY <1>1, <1>2, WakeAssumption DEF TypeOK
    <2> QED BY <2>1, <2>2, <2>3, <2>4, <2>5, <1>1, <1>4 DEF TypeOK, Run, Pc
  <1>8. (Owned /\ SameTaskAlone)'
    <2> SUFFICES ASSUME NEW j \in DOMAIN run', run'[j].pc \in Live
                 PROVE  <<run[j].agent, run[j].task>> \in running'[run[j].machine]
      BY <1>6, PcOnlySched
    <2>1. j \in DOMAIN run /\ run[j].pc \in Live /\ run[j].machine # m
      BY <1>4, <1>5 DEF Live
    <2>2. <<run[j].agent, run[j].task>> \in running[run[j].machine] /\ run[j].machine \in Machine
      BY <2>1, <1>1 DEF Sched, Owned, Run
    <2> QED BY <2>1, <2>2, <1>1, <1>2 DEF TypeOK
  <1>9. Queued'
    <2> SUFFICES ASSUME NEW n \in Machine, NEW b \in Agent
                 PROVE  /\ \A k \in 1 .. Len(waitQueue'[n][b]) :
                            /\ waitQueue'[n][b][k] \in DOMAIN run'
                            /\ run'[waitQueue'[n][b][k]].machine = n /\ run'[waitQueue'[n][b][k]].agent = b
                            /\ run'[waitQueue'[n][b][k]].pc = "queued"
                        /\ \A k, l \in 1 .. Len(waitQueue'[n][b]) :
                            waitQueue'[n][b][k] = waitQueue'[n][b][l] => k = l
      BY DEF Queued
    <2>1. CASE n = m
      <3>1. waitQueue'[n][b] = <<>>
        BY <2>1, <1>1, <1>2 DEF TypeOK
      <3> QED BY <3>1
    <2>2. CASE n # m
      <3> DEFINE p == waitQueue[n][b]
      <3>1. waitQueue'[n][b] = p
        BY <2>2, <1>1, <1>2 DEF TypeOK
      <3>2. /\ \A k \in 1 .. Len(p) : p[k] \in DOMAIN run /\ run[p[k]].machine = n /\ run[p[k]].agent = b /\ run[p[k]].pc = "queued"
            /\ \A k, l \in 1 .. Len(p) : p[k] = p[l] => k = l
        BY DEF Sched, Queued
      <3> HIDE DEF p
      <3> QED BY <2>2, <3>1, <3>2, <1>4, <1>5
    <2> QED BY <2>1, <2>2
  <1>10. crashes' > 0
    BY <1>1, <1>2 DEF TypeOK
  <1> QED BY <1>5, <1>6, <1>7, <1>8, <1>9, <1>10 DEF Sched

-----------------------------------------------------------------------------
\* A run goes with its handler.
Paced ==
    \A i \in Handler :
        /\ step[i].pc # "idle" => i \in DOMAIN run /\ run[i].pc \in {"running", "ended", "lost"}
        /\ step[i].pc \in ByDaemon => run[i].pc = "running"
        /\ step[i].pc \in {"boot", "up"} => run[i].pc \in {"running", "lost"}

\* From its reading on, the log is what the run has read.
Continued ==
    \A i \in DOMAIN run : ~Orphaned(i) =>
        /\ step[i].pc \in {"prompt", "prompting", "boot"} => step[i].log = Home(i).log[run[i].task]
        /\ step[i].pc = "up" => step[i].log = step[i].found

RunsInv == Sched /\ RunsTypeOK /\ Paced /\ Continued

LEMMA LogFollows ==
  ASSUME RunsInv
  PROVE  LogIsContinued
  <1> SUFFICES ASSUME NEW i \in DOMAIN run, ~Orphaned(i)
               PROVE  /\ i \in Process => \A j \in Process \ {i} : OneHome(i, j) => ~Same(i, run[j])
                      /\ step[i].pc = "up" => step[i].log = step[i].found
    BY DEF LogIsContinued
  <1>1. step[i].pc = "up" => step[i].log = step[i].found
    BY DEF RunsInv, Continued
  <1>2. ASSUME i \in Process, NEW j \in Process \ {i}, OneHome(i, j), Same(i, run[j])
        PROVE  FALSE
    <2>1. j \in DOMAIN run /\ i \in Handler /\ j \in Handler
      BY <1>2, RunIsFun DEF Process, RunsInv, Sched
    <2>2. run[i].pc \in {"running", "lost"} /\ run[j].pc \in {"running", "lost"}
      BY <1>2, <2>1 DEF RunsInv, Paced, Process
    <2>3. OneHome(i, i) /\ Same(i, run[i])
      BY DEF OneHome, Same
    <2>4. run[i].pc # "lost" /\ run[j].pc # "lost"
      BY <1>2, <2>1, <2>3 DEF Orphaned
    <2> QED BY <1>2, <2>1, <2>2, <2>4 DEF RunsInv, Sched, SameTaskAlone, OneHome, Live
  <1> QED BY <1>1, <1>2

\* Whoever writes to the log of a task that another run goes on with is one that
\* a daemon has left behind.
LEMMA OneWriter ==
  ASSUME RunsInv, NEW i \in DOMAIN run, NEW j \in DOMAIN run, i # j,
         step[i].pc \in {"prompt", "prompting", "boot"}, step[j].pc = "up", OneHome(i, j), Same(i, run[j])
  PROVE  Orphaned(i)
  <1>1. i \in Handler /\ j \in Handler
    BY RunIsFun DEF RunsInv, Sched
  <1>2. run[i].pc \in {"running", "lost"} /\ run[j].pc \in {"running", "lost"}
    BY <1>1 DEF RunsInv, Paced, ByDaemon
  <1>3. run[i].pc = "lost" \/ run[j].pc = "lost"
    BY <1>2 DEF RunsInv, Sched, SameTaskAlone, OneHome, Live
  <1> QED BY <1>3 DEF Orphaned, OneHome, Same

\* Of what the daemons do, only what becomes of the handlers matters to the runs.
LEMMA DaemonStep ==
  ASSUME RunsInv, Sched', SameRuns, UNCHANGED <<home, prepared>>, step' \in [Handler -> Progress],
         \A i \in Handler : step'[i] = step[i] \/ (i \in DOMAIN run /\ step'[i].pc = "gone"),
         \A i \in DOMAIN run :
            /\ run'[i].pc \in {"running", "ended", "lost"} \/ step'[i].pc = "idle"
            /\ step'[i].pc \in ByDaemon => run'[i].pc = "running"
            /\ step'[i].pc \in {"boot", "up"} => run'[i].pc \in {"running", "lost"}
  PROVE  RunsInv'
  <1>1. RunsTypeOK'
    BY DEF RunsInv, RunsTypeOK, Sched
  <1>2. Paced'
    BY DEF RunsInv, Paced, SameRuns, ByDaemon
  <1>3. Continued'
    <2> SUFFICES ASSUME NEW i \in DOMAIN run', ~Orphaned(i)',
                        step'[i].pc \in {"prompt", "prompting", "boot", "up"}
                 PROVE  /\ step'[i].pc \in {"prompt", "prompting", "boot"} => step'[i].log = Home(i)'.log[run'[i].task]
                        /\ step'[i].pc = "up" => step'[i].log = step'[i].found
      BY DEF Continued
    <2>1. i \in Handler
      <3>1. run' \in Seq(Run) /\ Len(run') <= MaxWake
        BY DEF Sched, TypeOK, Run, Pc
      <3>2. Len(run') \in Nat /\ DOMAIN run' = 1 .. Len(run')
        BY <3>1, LenProperties
      <3> QED BY <3>1, <3>2, WakeAssumption DEF Handler
    <2>2. i \in DOMAIN run /\ step'[i] = step[i]
      BY <2>1 DEF RunsInv, Paced
    <2>3. ~Orphaned(i)
      BY <2>2 DEF Orphaned, SameRuns, OneHome, Same
    <2>4. Home(i)' = Home(i) /\ run'[i].task = run[i].task
      BY <2>2 DEF Home, SameRuns
    <2> QED BY <2>2, <2>3, <2>4 DEF RunsInv, Continued
  <1> QED BY <1>1, <1>2, <1>3 DEF RunsInv

\* A step of one run, which may write where no other goes on.
LEMMA RunStep ==
  ASSUME RunsInv, NEW i \in DOMAIN run, UNCHANGED daemonVars, RunsTypeOK',
         run[i].pc \in {"running", "lost"},
         \A j \in Handler \ {i} : step'[j] = step[j],
         step'[i].pc \in ByDaemon => run[i].pc = "running",
         \A j \in DOMAIN run \ {i} :
            step[j].pc \in {"prompt", "prompting", "boot"} /\ ~Orphaned(j)
                => Home(j)'.log[run[j].task] = Home(j).log[run[j].task],
         ~Orphaned(i) =>
            /\ step'[i].pc \in {"prompt", "prompting", "boot"} => step'[i].log = Home(i)'.log[run[i].task]
            /\ step'[i].pc = "up" => step'[i].log = step'[i].found
  PROVE  RunsInv'
  <1>1. UNCHANGED <<run, running, waitQueue>> /\ i \in Handler /\ DOMAIN run \subseteq Handler
    BY RunIsFun DEF daemonVars, RunsInv, Sched
  <1>2. Sched'
    <2>1. TypeOK'
      BY DEF RunsTypeOK
    <2>2. (Owned /\ SameTaskAlone /\ Queued)'
      BY <1>1 DEF RunsInv, Sched, Owned, SameTaskAlone, Queued, Same
    <2> QED BY <2>1, <2>2 DEF Sched
  <1>3. Paced'
    <2> SUFFICES ASSUME NEW j \in Handler
                 PROVE  /\ step'[j].pc # "idle" => j \in DOMAIN run /\ run[j].pc \in {"running", "ended", "lost"}
                        /\ step'[j].pc \in ByDaemon => run[j].pc = "running"
                        /\ step'[j].pc \in {"boot", "up"} => run[j].pc \in {"running", "lost"}
      BY <1>1 DEF Paced
    <2>1. CASE j = i
      BY <2>1
    <2>2. CASE j # i
      BY <2>2 DEF RunsInv, Paced
    <2> QED BY <2>1, <2>2
  <1>4. \A j \in DOMAIN run : Orphaned(j)' = Orphaned(j)
    BY <1>1 DEF Orphaned, OneHome, Same
  <1>5. Continued'
    <2> SUFFICES ASSUME NEW j \in DOMAIN run, ~Orphaned(j)
                 PROVE  /\ step'[j].pc \in {"prompt", "prompting", "boot"} => step'[j].log = Home(j)'.log[run[j].task]
                        /\ step'[j].pc = "up" => step'[j].log = step'[j].found
      BY <1>1, <1>4 DEF Continued
    <2>1. CASE j = i
      BY <2>1
    <2>2. CASE j # i
      BY <1>1, <2>2 DEF RunsInv, Continued
    <2> QED BY <2>1, <2>2
  <1> QED BY <1>2, <1>3, <1>5 DEF RunsInv

LEMMA StoreIsOne ==
  ASSUME RunsInv, NEW i \in DOMAIN run, NEW files \in Files, Store(i, files)
  PROVE  /\ home' \in [Machine -> [Agent -> Files]]
         /\ \A m \in Machine, a \in Agent :
              home'[m][a] = IF m = run[i].machine /\ a = run[i].agent THEN files ELSE home[m][a]
  <1>1. run[i].machine \in Machine /\ run[i].agent \in Agent
    BY RunIsFun DEF RunsInv, Sched, Run
  <1>2. home \in [Machine -> [Agent -> Files]]
    BY DEF RunsInv, RunsTypeOK
  <1> QED BY <1>1, <1>2, OneEntry DEF Store

LEMMA HomeIsFiles ==
  ASSUME RunsInv, NEW i \in DOMAIN run
  PROVE  /\ Home(i) \in Files /\ run[i].machine \in Machine /\ run[i].agent \in Agent /\ run[i].task \in TaskKey
         /\ i \in Handler /\ step[i] \in Progress /\ step \in [Handler -> Progress]
  <1>1. run[i].machine \in Machine /\ run[i].agent \in Agent /\ run[i].task \in TaskKey /\ i \in Handler
    BY RunIsFun DEF RunsInv, Sched, Run
  <1>2. Home(i) \in Files
    BY <1>1 DEF RunsInv, RunsTypeOK, Home
  <1> QED BY <1>1, <1>2 DEF RunsInv, RunsTypeOK

\* A step that only goes on to another statement, and may store files with the
\* same logs.
LEMMA GoOn ==
  ASSUME RunsInv, NEW i \in DOMAIN run, UNCHANGED daemonVars, run[i].pc \in {"running", "lost"},
         prepared' \subseteq Handler,
         NEW pc \in {"exists", "seed", "seeding", "memory", "command", "commanding", "log",
                     "prompting", "boot", "closed", "failed"}, To(i, pc),
         pc \in ByDaemon => run[i].pc = "running",
         pc \in {"prompting", "boot"} => step[i].pc \in {"prompt", "prompting"},
         NEW files \in Files, files.log = Home(i).log, Store(i, files) \/ UNCHANGED home
  PROVE  RunsInv'
  <1>1. Home(i) \in Files /\ i \in Handler /\ step[i] \in Progress /\ step \in [Handler -> Progress]
    BY HomeIsFiles
  <1>2. /\ step' \in [Handler -> Progress] /\ step'[i].pc = pc /\ step'[i].log = step[i].log
        /\ \A j \in Handler \ {i} : step'[j] = step[j]
    BY <1>1 DEF To, Progress
  <1>3. /\ home' \in [Machine -> [Agent -> Files]]
        /\ \A m \in Machine, a \in Agent : home'[m][a].log = home[m][a].log
    <2>1. CASE UNCHANGED home
      BY <2>1 DEF RunsInv, RunsTypeOK
    <2>2. CASE Store(i, files)
      BY <2>2, StoreIsOne DEF Home
    <2> QED BY <2>1, <2>2
  <1>4. RunsTypeOK'
    BY <1>2, <1>3 DEF RunsInv, RunsTypeOK, TypeOK, daemonVars
  <1>5. \A j \in DOMAIN run : Home(j)'.log = Home(j).log
    <2> SUFFICES ASSUME NEW j \in DOMAIN run
                 PROVE  Home(j)'.log = Home(j).log
      OBVIOUS
    <2>1. run[j].machine \in Machine /\ run[j].agent \in Agent
      BY HomeIsFiles
    <2> QED BY <1>3, <2>1 DEF Home, daemonVars
  <1>6. ~Orphaned(i) => (pc \in {"prompting", "boot"} => step'[i].log = Home(i)'.log[run[i].task])
    BY <1>2, <1>5 DEF RunsInv, Continued
  <1> QED BY <1>2, <1>4, <1>5, <1>6, RunStep

LEMMA PrepareInv ==
  ASSUME RunsInv, NEW i \in DOMAIN run, Prepare(i)
  PROVE  RunsInv'
  <1>1. run[i].pc = "running" /\ UNCHANGED <<daemonVars, prepared>>
    BY DEF Prepare
  <1>2. Home(i) \in Files /\ step[i] \in Progress /\ i \in Handler /\ step \in [Handler -> Progress]
    BY HomeIsFiles
  <1>3. prepared' \subseteq Handler
    BY <1>1 DEF RunsInv, RunsTypeOK
  <1>4. CASE ExistsMemory(i)
    BY <1>1, <1>2, <1>3, <1>4, GoOn DEF ExistsMemory
  <1>5. CASE OpenMemory(i)
    <2> DEFINE files == [Home(i) EXCEPT !.memory = "empty"]
    <2>1. files \in Files /\ files.log = Home(i).log
      BY <1>2 DEF Files
    <2> QED BY <1>1, <1>3, <1>5, <2>1, GoOn DEF OpenMemory
  <1>6. CASE SeedMemory(i)
    <2> DEFINE files == [Home(i) EXCEPT !.memory = "seed"]
    <2>1. files \in Files /\ files.log = Home(i).log
      BY <1>2 DEF Files
    <2> QED BY <1>1, <1>3, <1>6, <2>1, GoOn DEF SeedMemory
  <1>7. CASE ReadMemory(i)
    <2>1. /\ step' \in [Handler -> Progress] /\ step'[i].pc = "command"
          /\ \A j \in Handler \ {i} : step'[j] = step[j]
      BY <1>2, <1>7 DEF ReadMemory, Progress, Files
    <2>2. RunsTypeOK' /\ UNCHANGED home
      BY <1>1, <1>3, <1>7, <2>1 DEF ReadMemory, RunsInv, RunsTypeOK, TypeOK, daemonVars
    <2> QED BY <1>1, <2>1, <2>2, RunStep DEF Home, daemonVars
  <1>8. CASE OpenCommand(i)
    <2> DEFINE files == [Home(i) EXCEPT !.command = "empty"]
    <2>1. files \in Files /\ files.log = Home(i).log
      BY <1>2 DEF Files
    <2> QED BY <1>1, <1>3, <1>8, <2>1, GoOn DEF OpenCommand
  <1>9. CASE WriteCommand(i)
    <2> DEFINE files == [Home(i) EXCEPT !.command = "whole"]
    <2>1. files \in Files /\ files.log = Home(i).log
      BY <1>2 DEF Files
    <2> QED BY <1>1, <1>3, <1>9, <2>1, GoOn DEF WriteCommand
  <1>10. CASE ReadLog(i)
    <2>1. Home(i).log[run[i].task] \in Nat
      BY HomeIsFiles DEF Files
    <2>2. /\ step' \in [Handler -> Progress] /\ step'[i].pc = "prompt" /\ step'[i].log = Home(i).log[run[i].task]
          /\ \A j \in Handler \ {i} : step'[j] = step[j]
      BY <1>2, <1>10, <2>1 DEF ReadLog, workLog, Progress
    <2>3. RunsTypeOK' /\ UNCHANGED home
      BY <1>1, <1>3, <1>10, <2>2 DEF ReadLog, RunsInv, RunsTypeOK, TypeOK, daemonVars
    <2> QED BY <1>1, <2>2, <2>3, RunStep DEF Home, daemonVars
  <1>11. CASE OpenPrompt(i)
    <2> DEFINE files == [Home(i) EXCEPT !.prompt = Opened(i)]
    <2>1. files \in Files /\ files.log = Home(i).log
      BY <1>2 DEF Files, Opened
    <2> QED BY <1>1, <1>3, <1>11, <2>1, GoOn DEF OpenPrompt
  <1>12. CASE WritePrompt(i)
    <2> DEFINE files == [Home(i) EXCEPT !.prompt = @ \cup {i}]
    <2>1. files \in Files /\ files.log = Home(i).log
      BY <1>2 DEF Files
    <2> QED BY <1>1, <1>3, <1>12, <2>1, GoOn DEF WritePrompt
  <1> QED BY <1>4, <1>5, <1>6, <1>7, <1>8, <1>9, <1>10, <1>11, <1>12 DEF Prepare

LEMMA MintTokenInv ==
  ASSUME RunsInv, NEW i \in DOMAIN run, MintToken(i)
  PROVE  RunsInv'
  <1>1. run[i].pc = "running" /\ UNCHANGED <<daemonVars, home>> /\ (To(i, "failed") \/ To(i, "exists"))
    BY DEF MintToken
  <1>2. Home(i) \in Files /\ i \in Handler /\ prepared' \subseteq Handler
    BY HomeIsFiles DEF MintToken, RunsInv, RunsTypeOK
  <1> QED BY <1>1, <1>2, GoOn

\* The process reads what the run has read, if no other was to write there.
LEMMA BootInv ==
  ASSUME RunsInv, NEW i \in DOMAIN run, Boot(i)
  PROVE  RunsInv'
  <1>1. step[i].pc = "boot" /\ UNCHANGED <<daemonVars, home, prepared>>
    BY DEF Boot
  <1>2. /\ Home(i) \in Files /\ step[i] \in Progress /\ i \in Handler /\ step \in [Handler -> Progress]
        /\ Home(i).log[run[i].task] \in Nat
    BY HomeIsFiles DEF Files
  <1>3. /\ step' \in [Handler -> Progress] /\ step'[i].pc = "up"
        /\ step'[i].log = step[i].log /\ step'[i].found = Home(i).log[run[i].task]
        /\ \A j \in Handler \ {i} : step'[j] = step[j]
    BY <1>2 DEF Boot, Progress, Files
  <1>4. run[i].pc \in {"running", "lost"}
    BY <1>1, <1>2 DEF RunsInv, Paced
  <1>5. RunsTypeOK'
    BY <1>1, <1>3 DEF RunsInv, RunsTypeOK, TypeOK, daemonVars
  <1>6. ~Orphaned(i) => step'[i].log = step'[i].found
    BY <1>1, <1>3 DEF RunsInv, Continued
  <1> QED BY <1>1, <1>3, <1>4, <1>5, <1>6, RunStep DEF Home, daemonVars, ByDaemon

\* What a process writes to its log is read by no run under way, unless it or the
\* reader is left behind.
LEMMA WorkInv ==
  ASSUME RunsInv, NEW i \in DOMAIN run, Work(i)
  PROVE  RunsInv'
  <1>1. step[i].pc = "up" /\ UNCHANGED <<daemonVars, prepared>> /\ To(i, "closed")
    BY DEF Work
  <1>2. /\ Home(i) \in Files /\ step[i] \in Progress /\ i \in Handler /\ step \in [Handler -> Progress]
        /\ run[i].task \in TaskKey
    BY HomeIsFiles
  <1>3. run[i].pc \in {"running", "lost"}
    BY <1>1, <1>2 DEF RunsInv, Paced
  <1>4. CASE UNCHANGED home
    <2>1. prepared' \subseteq Handler
      BY <1>1 DEF RunsInv, RunsTypeOK
    <2> QED BY <1>1, <1>2, <1>3, <1>4, <2>1, GoOn DEF ByDaemon
  <1>5. ASSUME NEW files \in Files, Store(i, files),
               \A k \in TaskKey \ {run[i].task} : files.log[k] = Home(i).log[k]
        PROVE  RunsInv'
    <2>1. /\ step' \in [Handler -> Progress] /\ step'[i].pc = "closed"
          /\ \A j \in Handler \ {i} : step'[j] = step[j]
      BY <1>1, <1>2 DEF To, Progress
    <2>2. RunsTypeOK'
      BY <1>1, <1>5, <2>1, StoreIsOne DEF RunsInv, RunsTypeOK, TypeOK, daemonVars
    <2>3. ASSUME NEW j \in DOMAIN run, j # i, step[j].pc \in {"prompt", "prompting", "boot"}, ~Orphaned(j)
          PROVE  Home(j)'.log[run[j].task] = Home(j).log[run[j].task]
      <3>1. run[j].machine \in Machine /\ run[j].agent \in Agent /\ run[j].task \in TaskKey
        BY HomeIsFiles
      <3>2. Home(j)' = IF OneHome(i, j) THEN files ELSE Home(j)
        BY <1>1, <1>5, <3>1, StoreIsOne DEF Home, OneHome, daemonVars
      <3>3. OneHome(i, j) => Home(j) = Home(i) /\ run[j].task # run[i].task
        BY <1>1, <2>3, OneWriter DEF OneHome, Home, Same
      <3> QED BY <1>5, <3>1, <3>2, <3>3
    <2> QED BY <1>1, <1>3, <2>1, <2>2, <2>3, RunStep DEF ByDaemon
  <1>6. CASE Store(i, [Home(i) EXCEPT !.log[run[i].task] = @ + 1])
    <2> DEFINE files == [Home(i) EXCEPT !.log[run[i].task] = @ + 1]
    <2>1. files \in Files /\ \A k \in TaskKey \ {run[i].task} : files.log[k] = Home(i).log[k]
      BY <1>2 DEF Files
    <2> QED BY <1>5, <1>6, <2>1
  <1>7. CASE Store(i, [Home(i) EXCEPT !.memory = "own", !.log[run[i].task] = 0])
    <2> DEFINE files == [Home(i) EXCEPT !.memory = "own", !.log[run[i].task] = 0]
    <2>1. files \in Files /\ \A k \in TaskKey \ {run[i].task} : files.log[k] = Home(i).log[k]
      BY <1>2 DEF Files
    <2> QED BY <1>5, <1>7, <2>1
  <1> QED BY <1>4, <1>6, <1>7 DEF Work

LEMMA RunsInitInv == RunsInit => RunsInv
  <1> SUFFICES ASSUME RunsInit PROVE RunsInv
    OBVIOUS
  <1>1. Sched /\ run = <<>>
    BY SchedInit DEF RunsInit, DaemonInit
  <1>2. RunsTypeOK
    <2>1. TypeOK
      BY <1>1 DEF Sched
    <2>2. home \in [Machine -> [Agent -> Files]]
      BY DEF RunsInit, Files
    <2>3. step \in [Handler -> Progress] /\ prepared \subseteq Handler
      BY DEF RunsInit, Progress
    <2> QED BY <2>1, <2>2, <2>3 DEF RunsTypeOK
  <1>3. \A i \in Handler : step[i].pc = "idle"
    BY DEF RunsInit
  <1>4. Paced /\ Continued
    BY <1>1, <1>3 DEF Paced, Continued, ByDaemon
  <1> QED BY <1>1, <1>2, <1>4 DEF RunsInv

\* A step of the daemons that lets every run go on.
LEMMA QuietStep ==
  ASSUME RunsInv, Sched', SameRuns, UNCHANGED <<home, step, prepared>>,
         \A j \in DOMAIN run :
            \/ run'[j].pc = run[j].pc
            \/ run[j].pc \notin {"running", "ended", "lost"}
            \/ run[j].pc = "running" /\ run'[j].pc = "ended" /\ step[j].pc \in {"closed", "failed"}
  PROVE  RunsInv'
  <1>1. DOMAIN run \subseteq Handler /\ step' \in [Handler -> Progress]
    BY RunIsFun DEF RunsInv, Sched, RunsTypeOK
  <1>2. ASSUME NEW j \in DOMAIN run
        PROVE  /\ run'[j].pc \in {"running", "ended", "lost"} \/ step'[j].pc = "idle"
               /\ step'[j].pc \in ByDaemon => run'[j].pc = "running"
               /\ step'[j].pc \in {"boot", "up"} => run'[j].pc \in {"running", "lost"}
    <2>1. /\ step[j].pc # "idle" => run[j].pc \in {"running", "ended", "lost"}
          /\ step[j].pc \in ByDaemon => run[j].pc = "running"
          /\ step[j].pc \in {"boot", "up"} => run[j].pc \in {"running", "lost"}
      BY <1>1 DEF RunsInv, Paced
    <2> QED BY <2>1 DEF ByDaemon
  <1>3. UNCHANGED <<home, prepared>> /\ \A j \in Handler : step'[j] = step[j] \/ (j \in DOMAIN run /\ step'[j].pc = "gone")
    OBVIOUS
  <1> QED BY <1>1, <1>2, <1>3, DaemonStep

LEMMA RunsNextInv ==
  ASSUME RunsInv, [RunsNext]_allVars
  PROVE  RunsInv'
  <1>0. Sched /\ RunsTypeOK /\ Paced /\ DOMAIN run \subseteq Handler
    BY RunIsFun DEF RunsInv, Sched
  <1>1. ASSUME NEW m \in Machine, NEW a \in Agent, NEW k \in TaskKey, NEW via \in {"message", "prune"}, Wakes(m, a, k, via)
        PROVE  RunsInv'
    <2>1. Sched' /\ SameRuns /\ UNCHANGED <<run, home, step, prepared>>
      BY <1>0, <1>1, WakesSched DEF Wakes
    <2> QED BY <2>1, QuietStep
  <1>2. ASSUME NEW m \in Machine, Len(run) < MaxWake, Receive(m), UNCHANGED <<home, step, prepared>>
        PROVE  RunsInv'
    <2>1. Sched' /\ SameRuns /\ \A i \in DOMAIN run : run'[i] = run[i]
      BY <1>0, <1>2, ReceiveSched
    <2> QED BY <1>2, <2>1, QuietStep
  <1>3. ASSUME NEW m \in Machine, CrashRuns(m)
        PROVE  RunsInv'
    <2>1. /\ Sched' /\ SameRuns
          /\ \A j \in DOMAIN run : run'[j].pc = IF run[j].machine = m /\ run[j].pc \in Live THEN "lost" ELSE run[j].pc
      BY <1>0, <1>3, CrashSched DEF CrashRuns
    <2>2. /\ UNCHANGED <<home, prepared>> /\ step' \in [Handler -> Progress]
          /\ \A i \in Handler : step'[i] = IF i \in DOMAIN run /\ run[i].machine = m /\ step[i].pc \in ByDaemon
                                          THEN [step[i] EXCEPT !.pc = "gone"] ELSE step[i]
      <3>1. /\ UNCHANGED <<home, prepared>>
            /\ step' = [i \in Handler |-> IF i \in DOMAIN run /\ run[i].machine = m /\ step[i].pc \in ByDaemon
                                         THEN [step[i] EXCEPT !.pc = "gone"] ELSE step[i]]
        BY <1>3 DEF CrashRuns
      <3>2. \A i \in Handler : step[i] \in Progress
        BY <1>0 DEF RunsTypeOK
      <3>3. \A i \in Handler : [step[i] EXCEPT !.pc = "gone"] \in Progress
        BY <3>2 DEF Progress
      <3> QED BY <3>1, <3>2, <3>3
    <2>3. \A i \in Handler : step'[i] = step[i] \/ (i \in DOMAIN run /\ step'[i].pc = "gone")
      <3> SUFFICES ASSUME NEW i \in Handler
                   PROVE  step'[i] = step[i] \/ (i \in DOMAIN run /\ step'[i].pc = "gone")
        OBVIOUS
      <3>1. step[i] \in Progress
        BY <1>0 DEF RunsTypeOK
      <3> DEFINE b == i \in DOMAIN run /\ run[i].machine = m /\ step[i].pc \in ByDaemon
      <3>2. CASE b
        <4>1. step'[i] = [step[i] EXCEPT !.pc = "gone"]
          BY <2>2, <3>2
        <4> QED BY <3>1, <3>2, <4>1 DEF Progress
      <3>3. CASE ~b
        BY <2>2, <3>3
      <3> QED BY <3>2, <3>3
    <2>4. ASSUME NEW i \in DOMAIN run
          PROVE  /\ run'[i].pc \in {"running", "ended", "lost"} \/ step'[i].pc = "idle"
                 /\ step'[i].pc \in ByDaemon => run'[i].pc = "running"
                 /\ step'[i].pc \in {"boot", "up"} => run'[i].pc \in {"running", "lost"}
      <3>1. /\ step[i].pc # "idle" => run[i].pc \in {"running", "ended", "lost"}
            /\ step[i].pc \in ByDaemon => run[i].pc = "running"
            /\ step[i].pc \in {"boot", "up"} => run[i].pc \in {"running", "lost"}
        BY <1>0 DEF Paced
      <3>2. run'[i].pc \in {run[i].pc, "lost"}
        BY <2>1
      <3>3. CASE step'[i] = step[i]
        <4>1. step[i].pc \in ByDaemon => run'[i].pc = run[i].pc
          <5>1. CASE run[i].machine = m /\ step[i].pc \in ByDaemon
            <6>1. step'[i].pc = "gone"
              BY <1>0, <2>2, <5>1 DEF RunsTypeOK, Progress
            <6> QED BY <3>3, <5>1, <6>1 DEF ByDaemon
          <5>2. CASE run[i].machine # m
            BY <2>1, <5>2
          <5> QED BY <5>1, <5>2
        <4> QED BY <3>1, <3>2, <3>3, <4>1
      <3>4. CASE step'[i].pc = "gone"
        <4>1. run[i].pc \in {"running", "ended", "lost"}
          <5>1. step[i].pc # "idle"
            BY <1>0, <2>2, <3>4 DEF ByDaemon
          <5> QED BY <3>1, <5>1
        <4> QED BY <3>2, <3>4, <4>1 DEF ByDaemon
      <3> QED BY <1>0, <2>3, <3>3, <3>4
    <2> QED BY <2>1, <2>2, <2>3, <2>4, DaemonStep
  <1>4. ASSUME NEW i \in DOMAIN run, Resume(i), UNCHANGED <<home, step, prepared>>
        PROVE  RunsInv'
    <2>1. /\ Sched' /\ SameRuns /\ run[i].pc = "resumed"
          /\ \A j \in DOMAIN run : run'[j].pc = IF j = i THEN "running" ELSE run[j].pc
      BY <1>0, <1>4, ResumeSched DEF Resume
    <2> QED BY <1>4, <2>1, QuietStep
  <1>5. ASSUME NEW i \in DOMAIN run, FinishRun(i)
        PROVE  RunsInv'
    <2>1. /\ Sched' /\ SameRuns /\ run[i].pc = "running"
          /\ \A j \in DOMAIN run :
               \/ run'[j].pc = IF j = i THEN "ended" ELSE run[j].pc
               \/ run[j].pc = "queued" /\ run'[j].pc = "resumed"
      BY <1>0, <1>5, FinishSched DEF FinishRun
    <2>2. step[i].pc \in {"closed", "failed"} /\ UNCHANGED <<home, step, prepared>>
      BY <1>5 DEF FinishRun, Closed
    <2> QED BY <2>1, <2>2, QuietStep
  <1>6. ASSUME NEW i \in DOMAIN run, MintToken(i) \/ Prepare(i) \/ Boot(i) \/ Work(i)
        PROVE  RunsInv'
    BY <1>6, MintTokenInv, PrepareInv, BootInv, WorkInv
  <1>7. CASE UNCHANGED allVars
    <2>1. UNCHANGED <<run, running, waitQueue, home, step, prepared>>
      BY <1>7 DEF allVars, daemonVars
    <2>2. RunsTypeOK'
      BY <1>0, <1>7 DEF RunsTypeOK, TypeOK, allVars, daemonVars
    <2>3. (Owned /\ SameTaskAlone /\ Queued)'
      BY <1>0, <2>1 DEF Sched, Owned, SameTaskAlone, Queued, Same
    <2>4. (Paced /\ Continued)'
      BY <2>1 DEF RunsInv, Paced, Continued, Orphaned, OneHome, Same, Home
    <2> QED BY <2>2, <2>3, <2>4 DEF RunsInv, Sched, RunsTypeOK
  <1> QED BY <1>1, <1>2, <1>3, <1>4, <1>5, <1>6, <1>7 DEF RunsNext

LEMMA RunsAlways == RunsSpec => []RunsInv
  BY RunsInitInv, RunsNextInv, PTL DEF RunsSpec

-----------------------------------------------------------------------------
\* A run prepared alone is the only one of its agent that prepares; its prompt is
\* the one in the file, and an empty memory is one that another is just making.
Alone == \A i \in prepared, j \in DOMAIN run : i \in Preparing /\ j \in Preparing /\ OneHome(i, j) => i = j

Began == \A i \in prepared : i \in DOMAIN run /\ step[i].pc # "idle"

OwnPrompt ==
    \A i \in prepared :
        /\ step[i].pc = "prompting" => Home(i).prompt = {}
        /\ step[i].pc = "boot" => Home(i).prompt = {i}
        /\ step[i].pc = "up" => step[i].got = {i}

Seeds(j, m, a) == step[j].pc = "seeding" /\ run[j].machine = m /\ run[j].agent = a

OwnMemory ==
    crashes = 0 =>
        /\ \A m \in Machine, a \in Agent :
             home[m][a].memory = "empty" => \E j \in DOMAIN run : Seeds(j, m, a)
        /\ \A i \in DOMAIN run : step[i].pc \in {"seeding", "memory"} => Home(i).memory # "none"
        /\ \A i \in prepared :
             step[i].pc \in {"command", "commanding", "log", "prompt", "prompting", "boot", "up"}
                => step[i].memory \in {"seed", "own"}

PromptInv == Alone /\ Began /\ OwnPrompt /\ OwnMemory

LEMMA PromptFollows ==
  ASSUME RunsInv, PromptInv
  PROVE  PromptUnlessShared
  <1>1. crashes \in Nat
    BY DEF RunsInv, RunsTypeOK, TypeOK
  <1> QED BY <1>1 DEF PromptInv, OwnPrompt, OwnMemory, PromptUnlessShared

\* What the daemons do starts no preparation and ends some.
LEMMA PromptDaemonStep ==
  ASSUME RunsInv, PromptInv, SameRuns, UNCHANGED <<home, prepared>>, crashes' = crashes \/ crashes' > 0,
         \A i \in Handler : step'[i] = step[i] \/ (i \in DOMAIN run /\ step'[i].pc = "gone" /\ crashes' > 0),
         DOMAIN run' \subseteq Handler
  PROVE  PromptInv'
  <1>1. \A i \in Handler : i \in DOMAIN run \/ step[i].pc = "idle"
    BY DEF RunsInv, Paced
  <1>2. \A i \in DOMAIN run' : i \in Preparing' => i \in Preparing /\ step'[i] = step[i]
    BY <1>1 DEF Preparing, ByDaemon
  <1>3. DOMAIN run \subseteq Handler
    BY RunIsFun DEF RunsInv, Sched
  <1>4. Alone'
    <2> SUFFICES ASSUME NEW i \in prepared, NEW j \in DOMAIN run', (i \in Preparing)', (j \in Preparing)', OneHome(i, j)'
                 PROVE  i = j
      BY DEF Alone
    <2>1. i \in Preparing /\ j \in Preparing /\ i \in DOMAIN run /\ j \in DOMAIN run
      BY <1>2 DEF Preparing
    <2>2. OneHome(i, j)
      BY <2>1 DEF OneHome, SameRuns
    <2> QED BY <2>1, <2>2 DEF PromptInv, Alone
  <1>5. Began'
    BY <1>3 DEF PromptInv, Began, SameRuns
  <1>6. OwnPrompt'
    <2> SUFFICES ASSUME NEW i \in prepared, step'[i].pc \in {"prompting", "boot", "up"}
                 PROVE  /\ step'[i].pc = "prompting" => Home(i)'.prompt = {}
                        /\ step'[i].pc = "boot" => Home(i)'.prompt = {i}
                        /\ step'[i].pc = "up" => step'[i].got = {i}
      BY DEF OwnPrompt
    <2>1. i \in DOMAIN run /\ step'[i] = step[i]
      BY <1>3 DEF PromptInv, Began
    <2>2. Home(i)' = Home(i)
      BY <2>1 DEF Home, SameRuns
    <2> QED BY <2>1, <2>2 DEF PromptInv, OwnPrompt
  <1>7. CASE crashes' > 0
    BY <1>4, <1>5, <1>6, <1>7 DEF PromptInv, OwnMemory
  <1>8. CASE crashes' = crashes /\ ~(crashes' > 0)
    <2>1. \A i \in Handler : step'[i] = step[i]
      BY <1>8
    <2>2. ASSUME NEW m \in Machine, NEW a \in Agent, crashes = 0, home[m][a].memory = "empty"
          PROVE  \E j \in DOMAIN run' : Seeds(j, m, a)'
      <3>1. PICK j \in DOMAIN run : Seeds(j, m, a)
        BY <2>2 DEF PromptInv, OwnMemory
      <3> QED BY <3>1, <2>1, <1>3 DEF Seeds, SameRuns
    <2>3. ASSUME NEW i \in DOMAIN run', crashes = 0, step'[i].pc \in {"seeding", "memory"}
          PROVE  Home(i)'.memory # "none"
      <3>1. i \in DOMAIN run /\ step'[i] = step[i]
        BY <2>1, <2>3, <1>1
      <3>2. Home(i)' = Home(i)
        BY <3>1 DEF Home, SameRuns
      <3> QED BY <2>3, <3>1, <3>2 DEF PromptInv, OwnMemory
    <2>4. \A i \in prepared : step'[i] = step[i]
      BY <2>1, <1>3 DEF PromptInv, Began
    <2>5. OwnMemory'
      BY <1>8, <2>2, <2>3, <2>4 DEF PromptInv, OwnMemory
    <2> QED BY <1>4, <1>5, <1>6, <2>5 DEF PromptInv
  <1> QED BY <1>7, <1>8

\* A step of one run: it writes the prompt only while it prepares, and leaves the
\* memory empty only while it is making it.
LEMMA PromptStep ==
  ASSUME RunsInv, PromptInv, NEW i \in DOMAIN run, UNCHANGED <<daemonVars, prepared>>,
         \A j \in Handler \ {i} : step'[j] = step[j], step'[i].pc # "idle",
         step'[i].pc \in ByDaemon \cup {"boot"} => i \in Preparing,
         NEW files, UNCHANGED home \/ Store(i, files), files \in Files,
         UNCHANGED home => files = Home(i),
         files.prompt = Home(i).prompt \/ i \in Preparing,
         i \in prepared =>
            /\ step'[i].pc = "prompting" => files.prompt = {}
            /\ step'[i].pc = "boot" => files.prompt = {i}
            /\ step'[i].pc = "up" => step'[i].got = {i},
         crashes = 0 =>
            /\ files.memory = "empty" =>
                 \/ step'[i].pc = "seeding"
                 \/ Home(i).memory = "empty" /\ step[i].pc # "seeding"
            /\ files.memory = "none" => Home(i).memory = "none" /\ step'[i].pc \notin {"seeding", "memory"}
            /\ i \in prepared /\ step'[i].pc \in {"command", "commanding", "log", "prompt", "prompting", "boot", "up"}
                 => step'[i].memory \in {"seed", "own"}
  PROVE  PromptInv'
  <1>1. /\ UNCHANGED <<run, crashes>> /\ i \in Handler /\ DOMAIN run \subseteq Handler
        /\ \A j \in DOMAIN run : run[j].machine \in Machine /\ run[j].agent \in Agent
    BY HomeIsFiles DEF daemonVars
  <1>2. \A m \in Machine, a \in Agent :
          home'[m][a] = IF m = run[i].machine /\ a = run[i].agent THEN files ELSE home[m][a]
    BY <1>1, StoreIsOne DEF Home
  <1>3. \A j \in DOMAIN run : Home(j)' = IF OneHome(i, j) THEN files ELSE Home(j)
    BY <1>1, <1>2 DEF Home, OneHome
  <1>4. \A j \in DOMAIN run : j \in Preparing' => j \in Preparing
    BY <1>1 DEF Preparing
  <1>5. Alone'
    BY <1>1, <1>4 DEF PromptInv, Alone, OneHome, Preparing
  <1>6. Began'
    BY <1>1 DEF PromptInv, Began
  <1>7. OwnPrompt'
    <2> SUFFICES ASSUME NEW j \in prepared, step'[j].pc \in {"prompting", "boot", "up"}
                 PROVE  /\ step'[j].pc = "prompting" => Home(j)'.prompt = {}
                        /\ step'[j].pc = "boot" => Home(j)'.prompt = {j}
                        /\ step'[j].pc = "up" => step'[j].got = {j}
      BY DEF OwnPrompt
    <2>1. j \in DOMAIN run
      BY DEF PromptInv, Began
    <2>2. CASE j = i
      BY <2>1, <2>2, <1>3 DEF OneHome
    <2>3. CASE j # i
      <3>1. step'[j] = step[j]
        BY <2>1, <2>3, <1>1
      <3>2. ASSUME step[j].pc \in {"prompting", "boot"}
            PROVE  Home(j)'.prompt = Home(j).prompt
        <4>1. j \in Preparing
          BY <2>1, <3>2 DEF Preparing, ByDaemon
        <4>2. OneHome(i, j) => OneHome(j, i) /\ Home(j) = Home(i)
          BY DEF OneHome, Home
        <4>3. OneHome(i, j) => i \notin Preparing
          BY <2>3, <4>1, <4>2 DEF PromptInv, Alone
        <4> QED BY <2>1, <1>3, <4>2, <4>3
      <3> QED BY <3>1, <3>2 DEF PromptInv, OwnPrompt
    <2> QED BY <2>2, <2>3
  <1>8. OwnMemory'
    <2> SUFFICES ASSUME crashes = 0
                 PROVE  /\ \A m \in Machine, a \in Agent :
                             home'[m][a].memory = "empty" => \E j \in DOMAIN run : Seeds(j, m, a)'
                        /\ \A j \in DOMAIN run : step'[j].pc \in {"seeding", "memory"} => Home(j)'.memory # "none"
                        /\ \A j \in prepared :
                             step'[j].pc \in {"command", "commanding", "log", "prompt", "prompting", "boot", "up"}
                                => step'[j].memory \in {"seed", "own"}
      BY <1>1 DEF OwnMemory
    <2>1. ASSUME NEW m \in Machine, NEW a \in Agent, home'[m][a].memory = "empty"
          PROVE  \E j \in DOMAIN run : Seeds(j, m, a)'
      <3>1. CASE m = run[i].machine /\ a = run[i].agent
        <4>1. CASE step'[i].pc = "seeding"
          BY <1>1, <3>1, <4>1 DEF Seeds
        <4>2. CASE home[m][a].memory = "empty" /\ step[i].pc # "seeding"
          <5>1. PICK j \in DOMAIN run : Seeds(j, m, a)
            BY <4>2 DEF PromptInv, OwnMemory
          <5>2. j # i /\ step'[j] = step[j]
            BY <1>1, <4>2, <5>1 DEF Seeds
          <5> QED BY <1>1, <5>1, <5>2 DEF Seeds
        <4>3. files.memory = "empty" /\ Home(i) = home[m][a]
          BY <1>2, <2>1, <3>1 DEF Home
        <4> QED BY <4>1, <4>2, <4>3
      <3>2. CASE ~(m = run[i].machine /\ a = run[i].agent)
        <4>1. home[m][a].memory = "empty"
          BY <1>2, <2>1, <3>2
        <4>2. PICK j \in DOMAIN run : Seeds(j, m, a)
          BY <4>1 DEF PromptInv, OwnMemory
        <4>3. j # i /\ step'[j] = step[j]
          BY <1>1, <3>2, <4>2 DEF Seeds
        <4> QED BY <1>1, <4>2, <4>3 DEF Seeds
      <3> QED BY <3>1, <3>2
    <2>2. ASSUME NEW j \in DOMAIN run, step'[j].pc \in {"seeding", "memory"}
          PROVE  Home(j)'.memory # "none"
      <3>1. CASE j = i
        BY <1>3, <2>2, <3>1 DEF OneHome
      <3>2. CASE j # i
        <4>1. step'[j] = step[j] /\ Home(j).memory # "none"
          BY <1>1, <2>2, <3>2 DEF PromptInv, OwnMemory
        <4>2. OneHome(i, j) => Home(j) = Home(i)
          BY DEF OneHome, Home
        <4> QED BY <1>3, <4>1, <4>2
      <3> QED BY <3>1, <3>2
    <2>3. ASSUME NEW j \in prepared,
                 step'[j].pc \in {"command", "commanding", "log", "prompt", "prompting", "boot", "up"}
          PROVE  step'[j].memory \in {"seed", "own"}
      <3>1. j \in DOMAIN run
        BY DEF PromptInv, Began
      <3>2. CASE j = i
        BY <2>3, <3>2
      <3>3. CASE j # i
        BY <1>1, <2>3, <3>1, <3>3 DEF PromptInv, OwnMemory
      <3> QED BY <3>2, <3>3
    <2> QED BY <2>1, <2>2, <2>3
  <1> QED BY <1>5, <1>6, <1>7, <1>8 DEF PromptInv

\* The same of a step that stores files, of which the home then consists.
LEMMA Stored ==
  ASSUME RunsInv, PromptInv, NEW i \in DOMAIN run, UNCHANGED <<daemonVars, prepared>>,
         \A j \in Handler \ {i} : step'[j] = step[j], step'[i].pc # "idle",
         step'[i].pc \in ByDaemon \cup {"boot"} => i \in Preparing,
         NEW files \in Files, Store(i, files),
         files.prompt = Home(i).prompt \/ i \in Preparing,
         i \in prepared =>
            /\ step'[i].pc = "prompting" => files.prompt = {}
            /\ step'[i].pc = "boot" => files.prompt = {i}
            /\ step'[i].pc = "up" => step'[i].got = {i},
         crashes = 0 =>
            /\ files.memory = "empty" =>
                 \/ step'[i].pc = "seeding"
                 \/ Home(i).memory = "empty" /\ step[i].pc # "seeding"
            /\ files.memory = "none" => Home(i).memory = "none" /\ step'[i].pc \notin {"seeding", "memory"}
            /\ i \in prepared /\ step'[i].pc \in {"command", "commanding", "log", "prompt", "prompting", "boot", "up"}
                 => step'[i].memory \in {"seed", "own"}
  PROVE  PromptInv'
  <1>1. run[i].machine \in Machine /\ run[i].agent \in Agent
    BY HomeIsFiles
  <1>2. UNCHANGED home => files = Home(i)
    BY <1>1, StoreIsOne DEF Home
  <1> QED BY <1>2, PromptStep

LEMMA MintTokenPrompt ==
  ASSUME RunsInv, PromptInv, NEW i \in DOMAIN run, MintToken(i)
  PROVE  PromptInv'
  <1>1. step[i].pc = "idle" /\ UNCHANGED <<daemonVars, home>>
    BY DEF MintToken
  <1>2. i \in Handler /\ step[i] \in Progress /\ step \in [Handler -> Progress] /\ Home(i) \in Files
        /\ DOMAIN run \subseteq Handler /\ i \notin Preparing /\ i \notin prepared
    BY <1>1, HomeIsFiles DEF Preparing, ByDaemon, PromptInv, Began
  <1>3. CASE To(i, "failed") /\ UNCHANGED prepared
    <2>1. step'[i].pc = "failed" /\ \A j \in Handler \ {i} : step'[j] = step[j]
      BY <1>2, <1>3 DEF To, Progress
    <2> QED BY <1>1, <1>2, <1>3, <2>1, PromptStep DEF ByDaemon
  <1>4. CASE /\ To(i, "exists")
             /\ LET others == {j \in Preparing : OneHome(i, j)} IN
                prepared' = IF others = {} THEN prepared \cup {i} ELSE prepared \ others
    <2>1. step'[i].pc = "exists" /\ \A j \in Handler \ {i} : step'[j] = step[j]
      BY <1>2, <1>4 DEF To, Progress
    <2>2. prepared' \subseteq prepared \cup {i} /\ UNCHANGED <<run, crashes, home>>
      BY <1>1, <1>4 DEF daemonVars
    <2>3. \A j \in prepared', k \in Preparing : OneHome(i, k) => j # k /\ j # i
      BY <1>2, <1>4
    <2>4. Preparing' = Preparing \cup {i}
      BY <1>2, <2>1, <2>2 DEF Preparing, ByDaemon
    <2>5. Alone'
      <3> SUFFICES ASSUME NEW j \in prepared', NEW k \in DOMAIN run, j \in Preparing \cup {i}, k \in Preparing \cup {i},
                          OneHome(j, k), j # k
                   PROVE  FALSE
        BY <2>2, <2>4 DEF Alone, OneHome
      <3>1. CASE j = i
        BY <2>3, <3>1
      <3>2. CASE j # i /\ k = i
        <4>1. j \in Preparing /\ OneHome(i, j)
          BY <3>2 DEF OneHome
        <4> QED BY <2>3, <4>1
      <3>3. CASE j # i /\ k # i
        BY <2>2, <3>3 DEF PromptInv, Alone
      <3> QED BY <3>1, <3>2, <3>3
    <2>6. Began'
      BY <1>2, <2>1, <2>2 DEF PromptInv, Began
    <2>7. OwnPrompt'
      BY <1>2, <2>1, <2>2 DEF PromptInv, Began, OwnPrompt, Home
    <2>8. OwnMemory'
      <3> SUFFICES ASSUME crashes = 0
                   PROVE  /\ \A m \in Machine, a \in Agent :
                               home[m][a].memory = "empty" => \E j \in DOMAIN run : Seeds(j, m, a)'
                          /\ \A j \in DOMAIN run : step'[j].pc \in {"seeding", "memory"} => Home(j).memory # "none"
                          /\ \A j \in prepared' :
                               step'[j].pc \in {"command", "commanding", "log", "prompt", "prompting", "boot", "up"}
                                  => step'[j].memory \in {"seed", "own"}
        BY <2>2 DEF OwnMemory, Home
      <3>1. \A j \in DOMAIN run : step'[j] = step[j] \/ (j = i /\ step[j].pc = "idle" /\ step'[j].pc = "exists")
        BY <1>1, <1>2, <2>1
      <3>2. \A m \in Machine, a \in Agent :
              home[m][a].memory = "empty" => \E j \in DOMAIN run : Seeds(j, m, a)'
        BY <2>2, <3>1 DEF PromptInv, OwnMemory, Seeds
      <3>3. ASSUME NEW j \in DOMAIN run, step'[j].pc \in {"seeding", "memory"}
            PROVE  Home(j).memory # "none"
        <4>1. step'[j] = step[j]
          BY <3>1, <3>3
        <4> QED BY <3>3, <4>1 DEF PromptInv, OwnMemory
      <3>4. ASSUME NEW j \in prepared',
                   step'[j].pc \in {"command", "commanding", "log", "prompt", "prompting", "boot", "up"}
            PROVE  step'[j].memory \in {"seed", "own"}
        <4>1. j \in DOMAIN run
          BY <2>2 DEF PromptInv, Began
        <4>2. step'[j] = step[j] /\ j # i
          BY <3>1, <3>4, <4>1, <2>1
        <4>3. j \in prepared
          BY <2>2, <4>2
        <4> QED BY <3>4, <4>2, <4>3 DEF PromptInv, OwnMemory
      <3> QED BY <3>2, <3>3, <3>4
    <2> QED BY <2>5, <2>6, <2>7, <2>8 DEF PromptInv
  <1> QED BY <1>3, <1>4 DEF MintToken

LEMMA PreparePrompt ==
  ASSUME RunsInv, PromptInv, NEW i \in DOMAIN run, Prepare(i)
  PROVE  PromptInv'
  <1>1. run[i].pc = "running" /\ UNCHANGED <<daemonVars, prepared>>
    BY DEF Prepare
  <1>2. Home(i) \in Files /\ step[i] \in Progress /\ i \in Handler /\ step \in [Handler -> Progress]
    BY HomeIsFiles
  <1>3. ASSUME NEW pc \in {"seed", "seeding", "memory", "commanding", "log", "prompting", "boot"}, To(i, pc)
        PROVE  step'[i].pc = pc /\ step'[i].memory = step[i].memory /\ \A j \in Handler \ {i} : step'[j] = step[j]
    BY <1>2, <1>3 DEF To, Progress
  <1>4. crashes = 0 /\ i \in prepared =>
          /\ step[i].pc \in {"command", "commanding", "log", "prompt", "prompting"} => step[i].memory \in {"seed", "own"}
          /\ step[i].pc = "prompting" => Home(i).prompt = {}
    BY DEF PromptInv, OwnMemory, OwnPrompt
  <1>5. step[i].pc \in ByDaemon => i \in Preparing
    BY DEF Preparing
  <1>6. CASE ExistsMemory(i)
    <2>1. /\ step[i].pc = "exists" /\ UNCHANGED home
          /\ To(i, IF Home(i).memory = "none" THEN "seed" ELSE "memory")
      BY <1>6 DEF ExistsMemory
    <2>2. /\ step'[i].pc = IF Home(i).memory = "none" THEN "seed" ELSE "memory"
          /\ \A j \in Handler \ {i} : step'[j] = step[j]
      BY <1>3, <2>1
    <2> QED BY <1>1, <1>2, <1>5, <2>1, <2>2, PromptStep DEF ByDaemon
  <1>7. CASE OpenMemory(i)
    <2> DEFINE files == [Home(i) EXCEPT !.memory = "empty"]
    <2>1. files \in Files /\ files.prompt = Home(i).prompt /\ files.memory = "empty"
      BY <1>2 DEF Files
    <2>2. step[i].pc = "seed" /\ Store(i, files) /\ To(i, "seeding")
      BY <1>7 DEF OpenMemory
    <2>3. step'[i].pc = "seeding" /\ \A j \in Handler \ {i} : step'[j] = step[j]
      BY <1>3, <2>2
    <2> HIDE DEF files
    <2> QED BY <1>1, <1>5, <2>1, <2>2, <2>3, Stored DEF ByDaemon
  <1>8. CASE SeedMemory(i)
    <2> DEFINE files == [Home(i) EXCEPT !.memory = "seed"]
    <2>1. files \in Files /\ files.prompt = Home(i).prompt /\ files.memory = "seed"
      BY <1>2 DEF Files
    <2>2. step[i].pc = "seeding" /\ Store(i, files) /\ To(i, "memory")
      BY <1>8 DEF SeedMemory
    <2>3. step'[i].pc = "memory" /\ \A j \in Handler \ {i} : step'[j] = step[j]
      BY <1>3, <2>2
    <2> HIDE DEF files
    <2> QED BY <1>1, <1>5, <2>1, <2>2, <2>3, Stored DEF ByDaemon
  <1>9. CASE ReadMemory(i)
    <2>1. step[i].pc = "memory" /\ UNCHANGED home /\ i \in Preparing
      BY <1>5, <1>9 DEF ReadMemory, ByDaemon
    <2>2. /\ step'[i].pc = "command" /\ step'[i].memory = Home(i).memory
          /\ \A j \in Handler \ {i} : step'[j] = step[j]
      BY <1>2, <1>9 DEF ReadMemory, Progress
    <2>3. ASSUME crashes = 0, i \in prepared
          PROVE  Home(i).memory \in {"seed", "own"}
      <3>1. Home(i).memory # "none"
        BY <2>1, <2>3 DEF PromptInv, OwnMemory
      <3>2. ASSUME Home(i).memory = "empty" PROVE FALSE
        <4>1. PICK j \in DOMAIN run : Seeds(j, run[i].machine, run[i].agent)
          BY <2>3, <3>2, HomeIsFiles DEF PromptInv, OwnMemory, Home
        <4>2. j \in Preparing /\ OneHome(i, j) /\ j # i
          BY <2>1, <4>1 DEF Seeds, Preparing, ByDaemon, OneHome
        <4> QED BY <2>1, <2>3, <4>2 DEF PromptInv, Alone
      <3> QED BY <1>2, <3>1, <3>2 DEF Files
    <2> QED BY <1>1, <1>2, <2>1, <2>2, <2>3, PromptStep
  <1>10. CASE OpenCommand(i)
    <2> DEFINE files == [Home(i) EXCEPT !.command = "empty"]
    <2>1. files \in Files /\ files.prompt = Home(i).prompt /\ files.memory = Home(i).memory
      BY <1>2 DEF Files
    <2>2. step[i].pc = "command" /\ Store(i, files) /\ To(i, "commanding")
      BY <1>10 DEF OpenCommand
    <2>3. step'[i].pc = "commanding" /\ step'[i].memory = step[i].memory /\ \A j \in Handler \ {i} : step'[j] = step[j]
      BY <1>3, <2>2
    <2> HIDE DEF files
    <2> QED BY <1>1, <1>4, <1>5, <2>1, <2>2, <2>3, Stored DEF ByDaemon
  <1>11. CASE WriteCommand(i)
    <2> DEFINE files == [Home(i) EXCEPT !.command = "whole"]
    <2>1. files \in Files /\ files.prompt = Home(i).prompt /\ files.memory = Home(i).memory
      BY <1>2 DEF Files
    <2>2. step[i].pc = "commanding" /\ Store(i, files) /\ To(i, "log")
      BY <1>11 DEF WriteCommand
    <2>3. step'[i].pc = "log" /\ step'[i].memory = step[i].memory /\ \A j \in Handler \ {i} : step'[j] = step[j]
      BY <1>3, <2>2
    <2> HIDE DEF files
    <2> QED BY <1>1, <1>4, <1>5, <2>1, <2>2, <2>3, Stored DEF ByDaemon
  <1>12. CASE ReadLog(i)
    <2>1. step[i].pc = "log" /\ UNCHANGED home
      BY <1>12 DEF ReadLog
    <2>2. /\ step'[i].pc = "prompt" /\ step'[i].memory = step[i].memory
          /\ \A j \in Handler \ {i} : step'[j] = step[j]
      BY <1>2, <1>12 DEF ReadLog, Progress
    <2> QED BY <1>1, <1>2, <1>4, <1>5, <2>1, <2>2, PromptStep DEF ByDaemon
  <1>13. CASE OpenPrompt(i)
    <2> DEFINE files == [Home(i) EXCEPT !.prompt = Opened(i)]
    <2>1. files \in Files /\ files.prompt = {} /\ files.memory = Home(i).memory
      BY <1>2 DEF Files, Opened
    <2>2. step[i].pc = "prompt" /\ Store(i, files) /\ To(i, "prompting")
      BY <1>13 DEF OpenPrompt
    <2>3. step'[i].pc = "prompting" /\ step'[i].memory = step[i].memory /\ \A j \in Handler \ {i} : step'[j] = step[j]
      BY <1>3, <2>2
    <2> HIDE DEF files
    <2> QED BY <1>1, <1>4, <1>5, <2>1, <2>2, <2>3, Stored DEF ByDaemon
  <1>14. CASE WritePrompt(i)
    <2> DEFINE files == [Home(i) EXCEPT !.prompt = @ \cup {i}]
    <2>1. files \in Files /\ files.prompt = Home(i).prompt \cup {i} /\ files.memory = Home(i).memory
      BY <1>2 DEF Files
    <2>2. step[i].pc = "prompting" /\ Store(i, files) /\ To(i, "boot")
      BY <1>14 DEF WritePrompt
    <2>3. step'[i].pc = "boot" /\ step'[i].memory = step[i].memory /\ \A j \in Handler \ {i} : step'[j] = step[j]
      BY <1>3, <2>2
    <2>4. i \in prepared => files.prompt = {i}
      BY <2>1, <2>2 DEF PromptInv, OwnPrompt
    <2> HIDE DEF files
    <2> QED BY <1>1, <1>4, <1>5, <2>1, <2>2, <2>3, <2>4, Stored DEF ByDaemon
  <1> QED BY <1>6, <1>7, <1>8, <1>9, <1>10, <1>11, <1>12, <1>13, <1>14 DEF Prepare

LEMMA BootPrompt ==
  ASSUME RunsInv, PromptInv, NEW i \in DOMAIN run, Boot(i)
  PROVE  PromptInv'
  <1>1. step[i].pc = "boot" /\ UNCHANGED <<daemonVars, home, prepared>>
    BY DEF Boot
  <1>2. Home(i) \in Files /\ step[i] \in Progress /\ i \in Handler /\ step \in [Handler -> Progress]
    BY HomeIsFiles
  <1>3. /\ step'[i].pc = "up" /\ step'[i].got = Home(i).prompt /\ step'[i].memory = step[i].memory
        /\ \A j \in Handler \ {i} : step'[j] = step[j]
    BY <1>2 DEF Boot, Progress
  <1>4. i \in prepared =>
          /\ Home(i).prompt = {i}
          /\ crashes = 0 => step[i].memory \in {"seed", "own"}
    BY <1>1 DEF PromptInv, OwnPrompt, OwnMemory
  <1>5. UNCHANGED <<daemonVars, prepared>> /\ UNCHANGED home
    BY <1>1
  <1> QED BY <1>1, <1>2, <1>3, <1>4, <1>5, PromptStep DEF ByDaemon

LEMMA WorkPrompt ==
  ASSUME RunsInv, PromptInv, NEW i \in DOMAIN run, Work(i)
  PROVE  PromptInv'
  <1>1. step[i].pc = "up" /\ UNCHANGED <<daemonVars, prepared>> /\ To(i, "closed")
    BY DEF Work
  <1>2. Home(i) \in Files /\ step[i] \in Progress /\ i \in Handler /\ step \in [Handler -> Progress]
        /\ run[i].task \in TaskKey
    BY HomeIsFiles
  <1>3. step'[i].pc = "closed" /\ \A j \in Handler \ {i} : step'[j] = step[j]
    BY <1>1, <1>2 DEF To, Progress
  <1>4. CASE UNCHANGED home
    BY <1>1, <1>2, <1>3, <1>4, PromptStep DEF ByDaemon
  <1>5. CASE Store(i, [Home(i) EXCEPT !.log[run[i].task] = @ + 1])
    <2> DEFINE files == [Home(i) EXCEPT !.log[run[i].task] = @ + 1]
    <2>1. files \in Files /\ files.prompt = Home(i).prompt /\ files.memory = Home(i).memory /\ Store(i, files)
      BY <1>2, <1>5 DEF Files
    <2> HIDE DEF files
    <2> QED BY <1>1, <1>3, <2>1, Stored DEF ByDaemon
  <1>6. CASE Store(i, [Home(i) EXCEPT !.memory = "own", !.log[run[i].task] = 0])
    <2> DEFINE files == [Home(i) EXCEPT !.memory = "own", !.log[run[i].task] = 0]
    <2>1. files \in Files /\ files.prompt = Home(i).prompt /\ files.memory = "own" /\ Store(i, files)
      BY <1>2, <1>6 DEF Files
    <2> HIDE DEF files
    <2> QED BY <1>1, <1>3, <2>1, Stored DEF ByDaemon
  <1> QED BY <1>4, <1>5, <1>6 DEF Work

LEMMA PromptInit == RunsInit => PromptInv
  <1> SUFFICES ASSUME RunsInit PROVE PromptInv
    OBVIOUS
  <1>1. run = <<>> /\ prepared = {}
    BY DEF RunsInit, DaemonInit
  <1>2. \A m \in Machine, a \in Agent : home[m][a].memory = "none"
    BY DEF RunsInit
  <1>3. Alone /\ Began /\ OwnPrompt
    BY <1>1 DEF Alone, Began, OwnPrompt
  <1>4. OwnMemory
    BY <1>1, <1>2 DEF OwnMemory
  <1> QED BY <1>3, <1>4 DEF PromptInv

LEMMA PromptNext ==
  ASSUME RunsInv, RunsInv', PromptInv, [RunsNext]_allVars
  PROVE  PromptInv'
  <1>1. Sched /\ crashes \in Nat
    BY DEF RunsInv, RunsTypeOK, TypeOK
  <1>2. DOMAIN run' \subseteq Handler
    <2>1. run' \in Seq(Run) /\ Len(run') <= MaxWake
      BY DEF RunsInv, RunsTypeOK, TypeOK, Run, Pc
    <2>2. Len(run') \in Nat /\ DOMAIN run' = 1 .. Len(run')
      BY <2>1, LenProperties
    <2> QED BY <2>1, <2>2, WakeAssumption DEF Handler
  <1>3. ASSUME SameRuns, UNCHANGED <<home, step, prepared>>, UNCHANGED crashes
        PROVE  PromptInv'
    <2>1. UNCHANGED <<home, prepared>> /\ \A i \in Handler : step'[i] = step[i]
      BY <1>3
    <2> QED BY <1>2, <1>3, <2>1, PromptDaemonStep
  <1>4. ASSUME NEW m \in Machine, NEW a \in Agent, NEW k \in TaskKey, NEW via \in {"message", "prune"}, Wakes(m, a, k, via)
        PROVE  PromptInv'
    BY <1>1, <1>3, <1>4, WakesSched DEF Wakes
  <1>5. ASSUME NEW m \in Machine, Len(run) < MaxWake, Receive(m), UNCHANGED <<home, step, prepared>>
        PROVE  PromptInv'
    BY <1>1, <1>3, <1>5, ReceiveSched DEF Receive
  <1>6. ASSUME NEW m \in Machine, CrashRuns(m)
        PROVE  PromptInv'
    <2>1. SameRuns /\ crashes' > 0
      BY <1>1, <1>6, CrashSched DEF CrashRuns
    <2>2. /\ UNCHANGED <<home, prepared>>
          /\ \A i \in Handler : step'[i] = IF i \in DOMAIN run /\ run[i].machine = m /\ step[i].pc \in ByDaemon
                                          THEN [step[i] EXCEPT !.pc = "gone"] ELSE step[i]
      BY <1>6 DEF CrashRuns
    <2>3. \A i \in Handler : step'[i] = step[i] \/ (i \in DOMAIN run /\ step'[i].pc = "gone" /\ crashes' > 0)
      <3> SUFFICES ASSUME NEW i \in Handler
                   PROVE  step'[i] = step[i] \/ (i \in DOMAIN run /\ step'[i].pc = "gone")
        BY <2>1
      <3>1. step[i] \in Progress
        BY DEF RunsInv, RunsTypeOK
      <3>2. CASE i \in DOMAIN run /\ run[i].machine = m /\ step[i].pc \in ByDaemon
        <4>1. step'[i] = [step[i] EXCEPT !.pc = "gone"]
          BY <2>2, <3>2
        <4> QED BY <3>1, <3>2, <4>1 DEF Progress
      <3>3. CASE ~(i \in DOMAIN run /\ run[i].machine = m /\ step[i].pc \in ByDaemon)
        BY <2>2, <3>3
      <3> QED BY <3>2, <3>3
    <2> QED BY <1>2, <2>1, <2>2, <2>3, PromptDaemonStep
  <1>7. ASSUME NEW i \in DOMAIN run, Resume(i), UNCHANGED <<home, step, prepared>>
        PROVE  PromptInv'
    BY <1>1, <1>3, <1>7, ResumeSched DEF Resume
  <1>8. ASSUME NEW i \in DOMAIN run, FinishRun(i)
        PROVE  PromptInv'
    BY <1>1, <1>3, <1>8, FinishSched DEF FinishRun, Finish
  <1>9. ASSUME NEW i \in DOMAIN run, MintToken(i) \/ Prepare(i) \/ Boot(i) \/ Work(i)
        PROVE  PromptInv'
    BY <1>9, MintTokenPrompt, PreparePrompt, BootPrompt, WorkPrompt
  <1>10. CASE UNCHANGED allVars
    BY <1>3, <1>10 DEF allVars, daemonVars, SameRuns
  <1> QED BY <1>4, <1>5, <1>6, <1>7, <1>8, <1>9, <1>10 DEF RunsNext

-----------------------------------------------------------------------------
(* The slots.                                                              *)

\* Per daemon and agent, the handlers that hold a slot, those that hold one or were
\* handed one, and those that wait.
Holds == [m \in Machine |-> [a \in Agent |-> At(m, a, {"running"})]]
Claims == [m \in Machine |-> [a \in Agent |-> At(m, a, {"running", "resumed"})]]
Waits == [m \in Machine |-> [a \in Agent |-> At(m, a, {"queued"})]]

\* A queue has all that wait, in the order they came in.
InOrder ==
    \A m \in Machine, a \in Agent :
        /\ \A k, l \in 1 .. Len(waitQueue[m][a]) : k < l => waitQueue[m][a][k] < waitQueue[m][a][l]
        /\ \A i \in Waits[m][a] : \E k \in 1 .. Len(waitQueue[m][a]) : waitQueue[m][a][k] = i

\* What was handed a slot counts as much as what holds one.
Counted ==
    \A m \in Machine, a \in Agent :
        /\ agentSlots[m][a] = Cardinality(Holds[m][a])
        /\ Cardinality(Claims[m][a]) <= MaxParallel
        /\ Waits[m][a] # {} => Cardinality(Claims[m][a]) = MaxParallel

SlotsInv == InOrder /\ Counted /\ NoOvertaking

LEMMA SlotSets ==
  ASSUME NEW m \in Machine, NEW a \in Agent
  PROVE  /\ Holds[m][a] = {i \in DOMAIN run : run[i].machine = m /\ run[i].agent = a /\ run[i].pc = "running"}
         /\ Claims[m][a] = {i \in DOMAIN run : run[i].machine = m /\ run[i].agent = a
                                               /\ run[i].pc \in {"running", "resumed"}}
         /\ Waits[m][a] = {i \in DOMAIN run : run[i].machine = m /\ run[i].agent = a /\ run[i].pc = "queued"}
         /\ Holds'[m][a] = {i \in DOMAIN run' : run'[i].machine = m /\ run'[i].agent = a /\ run'[i].pc = "running"}
         /\ Claims'[m][a] = {i \in DOMAIN run' : run'[i].machine = m /\ run'[i].agent = a
                                                 /\ run'[i].pc \in {"running", "resumed"}}
         /\ Waits'[m][a] = {i \in DOMAIN run' : run'[i].machine = m /\ run'[i].agent = a /\ run'[i].pc = "queued"}
  BY DEF Holds, Claims, Waits, At

LEMMA InSlots ==
  ASSUME NEW m \in Machine, NEW a \in Agent
  PROVE  /\ \A j : j \in Holds[m][a] <=>
                    j \in DOMAIN run /\ run[j].machine = m /\ run[j].agent = a /\ run[j].pc = "running"
         /\ \A j : j \in Claims[m][a] <=>
                    j \in DOMAIN run /\ run[j].machine = m /\ run[j].agent = a /\ run[j].pc \in {"running", "resumed"}
         /\ \A j : j \in Waits[m][a] <=>
                    j \in DOMAIN run /\ run[j].machine = m /\ run[j].agent = a /\ run[j].pc = "queued"
         /\ \A j : j \in Holds'[m][a] <=>
                    j \in DOMAIN run' /\ run'[j].machine = m /\ run'[j].agent = a /\ run'[j].pc = "running"
         /\ \A j : j \in Claims'[m][a] <=>
                    j \in DOMAIN run' /\ run'[j].machine = m /\ run'[j].agent = a /\ run'[j].pc \in {"running", "resumed"}
         /\ \A j : j \in Waits'[m][a] <=>
                    j \in DOMAIN run' /\ run'[j].machine = m /\ run'[j].agent = a /\ run'[j].pc = "queued"
  BY SlotSets

LEMMA SetsFinite ==
  ASSUME TypeOK, NEW S \in SUBSET DOMAIN run
  PROVE  IsFiniteSet(S) /\ Cardinality(S) \in Nat
  <1>1. Len(run) \in Nat /\ DOMAIN run = 1 .. Len(run)
    BY RunIsFun
  <1>2. IsFiniteSet(1 .. Len(run))
    BY <1>1, FS_Interval
  <1>3. IsFiniteSet(S)
    BY <1>1, <1>2, FS_Subset
  <1> QED BY <1>3, FS_CardinalityType

LEMMA SlotsFinite ==
  ASSUME TypeOK, NEW m \in Machine, NEW a \in Agent
  PROVE  /\ IsFiniteSet(Holds[m][a]) /\ Cardinality(Holds[m][a]) \in Nat
         /\ IsFiniteSet(Claims[m][a]) /\ Cardinality(Claims[m][a]) \in Nat
         /\ Cardinality(Holds[m][a]) <= Cardinality(Claims[m][a])
  <1>1. Holds[m][a] \in SUBSET DOMAIN run /\ Claims[m][a] \in SUBSET DOMAIN run /\ Holds[m][a] \in SUBSET Claims[m][a]
    BY SlotSets
  <1>2. /\ IsFiniteSet(Holds[m][a]) /\ Cardinality(Holds[m][a]) \in Nat
        /\ IsFiniteSet(Claims[m][a]) /\ Cardinality(Claims[m][a]) \in Nat
    BY <1>1, SetsFinite
  <1> QED BY <1>1, <1>2, FS_Subset

LEMMA SlotsInit == DaemonInit => SlotsInv
  <1> SUFFICES ASSUME DaemonInit PROVE SlotsInv
    OBVIOUS
  <1>1. run = <<>> /\ \A m \in Machine, a \in Agent : agentSlots[m][a] = 0 /\ waitQueue[m][a] = <<>>
    BY DEF DaemonInit
  <1>2. \A m \in Machine, a \in Agent : Holds[m][a] = {} /\ Claims[m][a] = {} /\ Waits[m][a] = {}
    BY <1>1, SlotSets
  <1>3. NoOvertaking
    BY <1>1 DEF NoOvertaking
  <1>4. InOrder
    BY <1>1, <1>2 DEF InOrder
  <1>5. Counted
    <2>1. Cardinality({}) = 0
      BY FS_EmptySet
    <2> SUFFICES ASSUME NEW m \in Machine, NEW a \in Agent
                 PROVE  /\ agentSlots[m][a] = Cardinality(Holds[m][a])
                        /\ Cardinality(Claims[m][a]) <= MaxParallel
                        /\ Waits[m][a] # {} => Cardinality(Claims[m][a]) = MaxParallel
      BY DEF Counted
    <2>2. Holds[m][a] = {} /\ Claims[m][a] = {} /\ Waits[m][a] = {} /\ agentSlots[m][a] = 0
      BY <1>1, <1>2
    <2> QED BY <2>1, <2>2, ParallelAssumption
  <1> QED BY <1>3, <1>4, <1>5 DEF SlotsInv

\* A wake that gets a slot finds nobody waiting; one that waits finds every slot held,
\* since none is on its way to a waiter.
LEMMA ReceiveSlots ==
  ASSUME Sched, SlotsInv, NEW m \in Machine, Len(run) < MaxWake, Receive(m)
  PROVE  SlotsInv'
  <1> DEFINE w == Head(wire[m])
             i == Len(run) + 1
             b == w.agent
             q == waitQueue[m][b]
  <1>1. TypeOK /\ Len(run) \in Nat /\ DOMAIN run = 1 .. Len(run) /\ i \in Handler
    BY RunIsFun, WakeAssumption DEF Sched, Handler
  <1>2. b \in Agent
    <2>1. w \in Wake
      BY <1>1, HeadTailProperties DEF TypeOK, Receive
    <2> QED BY <2>1 DEF Wake
  <1>3. DOMAIN run' = 1 .. i /\ \A j \in DOMAIN run : run'[j] = run[j]
    BY ReceiveSched
  <1>4. PICK pc \in {"skipped", "running", "queued"} :
          /\ run'[i].machine = m /\ run'[i].agent = b /\ run'[i].pc = pc
          /\ pc = "skipped" => UNCHANGED <<agentSlots, waitQueue>>
          /\ pc = "running" => /\ agentSlots[m][b] < MaxParallel
                               /\ agentSlots' = [agentSlots EXCEPT ![m][b] = agentSlots[m][b] + 1]
                               /\ UNCHANGED waitQueue
          /\ pc = "queued" => /\ ~(agentSlots[m][b] < MaxParallel)
                              /\ waitQueue' = [waitQueue EXCEPT ![m][b] = Append(q, i)]
                              /\ UNCHANGED agentSlots
    <2> DEFINE new(pc) == [machine |-> m, agent |-> w.agent, task |-> w.task,
                           msg |-> w.msg, via |-> w.via, pc |-> pc]
    <2>1. PICK pc \in {"skipped", "running", "queued"} :
            /\ run' = Append(run, new(pc))
            /\ pc = "skipped" => UNCHANGED <<agentSlots, waitQueue>>
            /\ pc = "running" => /\ agentSlots[m][b] < MaxParallel
                                 /\ agentSlots' = [agentSlots EXCEPT ![m][b] = agentSlots[m][b] + 1]
                                 /\ UNCHANGED waitQueue
            /\ pc = "queued" => /\ ~(agentSlots[m][b] < MaxParallel)
                                /\ waitQueue' = [waitQueue EXCEPT ![m][b] = Append(q, i)]
                                /\ UNCHANGED agentSlots
      BY DEF Receive, Push, SlotFree
    <2>2. new(pc).machine = m /\ new(pc).agent = b /\ new(pc).pc = pc
      OBVIOUS
    <2> HIDE DEF new
    <2>3. run \in Seq(Run)
      BY <1>1, RunIsFun, SeqOfFun
    <2>4. run'[i] = new(pc)
      <3>1. run \in Seq(Run \cup {new(pc)}) /\ new(pc) \in Run \cup {new(pc)}
        <4>1. run \in [1 .. Len(run) -> Run \cup {new(pc)}]
          BY <1>1, RunIsFun
        <4> QED BY <1>1, <4>1, SeqOfFun
      <3> QED BY <3>1, <2>1, AppendProperties
    <2> QED BY <2>1, <2>2, <2>4
  <1> HIDE DEF w, i, b, q
  <1>5. \A j \in DOMAIN run : j \in Nat /\ j < i /\ j # i /\ j \in DOMAIN run'
    BY <1>1, <1>3 DEF i
  <1>6. i \in DOMAIN run' /\ DOMAIN run' = DOMAIN run \cup {i} /\ i \notin DOMAIN run /\ i \in Nat
    BY <1>1, <1>3 DEF i
  <1>7. \A n \in Machine, a \in Agent :
          IF n = m /\ a = b
          THEN /\ Holds'[n][a] = IF pc = "running" THEN Holds[n][a] \cup {i} ELSE Holds[n][a]
               /\ Claims'[n][a] = IF pc = "running" THEN Claims[n][a] \cup {i} ELSE Claims[n][a]
               /\ Waits'[n][a] = IF pc = "queued" THEN Waits[n][a] \cup {i} ELSE Waits[n][a]
          ELSE Holds'[n][a] = Holds[n][a] /\ Claims'[n][a] = Claims[n][a] /\ Waits'[n][a] = Waits[n][a]
    <2> SUFFICES ASSUME NEW n \in Machine, NEW a \in Agent
                 PROVE  IF n = m /\ a = b
                        THEN /\ Holds'[n][a] = IF pc = "running" THEN Holds[n][a] \cup {i} ELSE Holds[n][a]
                             /\ Claims'[n][a] = IF pc = "running" THEN Claims[n][a] \cup {i} ELSE Claims[n][a]
                             /\ Waits'[n][a] = IF pc = "queued" THEN Waits[n][a] \cup {i} ELSE Waits[n][a]
                        ELSE Holds'[n][a] = Holds[n][a] /\ Claims'[n][a] = Claims[n][a] /\ Waits'[n][a] = Waits[n][a]
      OBVIOUS
    <2>1. \A j \in DOMAIN run : run'[j] = run[j] /\ j # i
      BY <1>3, <1>6
    <2>2. CASE n = m /\ a = b
      <3>1. \A j : j \in Holds'[n][a] <=> j \in Holds[n][a] \/ (pc = "running" /\ j = i)
        BY <2>1, <2>2, <1>4, <1>6, InSlots
      <3>2. \A j : j \in Claims'[n][a] <=> j \in Claims[n][a] \/ (pc = "running" /\ j = i)
        BY <2>1, <2>2, <1>4, <1>6, InSlots
      <3>3. \A j : j \in Waits'[n][a] <=> j \in Waits[n][a] \/ (pc = "queued" /\ j = i)
        BY <2>1, <2>2, <1>4, <1>6, InSlots
      <3>4. Holds'[n][a] = IF pc = "running" THEN Holds[n][a] \cup {i} ELSE Holds[n][a]
        BY <2>2, <3>1
      <3>5. Claims'[n][a] = IF pc = "running" THEN Claims[n][a] \cup {i} ELSE Claims[n][a]
        BY <2>2, <3>2
      <3>6. Waits'[n][a] = IF pc = "queued" THEN Waits[n][a] \cup {i} ELSE Waits[n][a]
        BY <2>2, <3>3
      <3> QED BY <2>2, <3>4, <3>5, <3>6
    <2>3. CASE ~(n = m /\ a = b)
      <3>1. \A j : j \in Holds'[n][a] <=> j \in Holds[n][a]
        BY <2>1, <2>3, <1>4, <1>6, InSlots
      <3>2. \A j : j \in Claims'[n][a] <=> j \in Claims[n][a]
        BY <2>1, <2>3, <1>4, <1>6, InSlots
      <3>3. \A j : j \in Waits'[n][a] <=> j \in Waits[n][a]
        BY <2>1, <2>3, <1>4, <1>6, InSlots
      <3>4. Holds'[n][a] = Holds[n][a]
        BY <2>3, <3>1
      <3>5. Claims'[n][a] = Claims[n][a]
        BY <2>3, <3>2
      <3>6. Waits'[n][a] = Waits[n][a]
        BY <2>3, <3>3
      <3> QED BY <2>3, <3>4, <3>5, <3>6
    <2> QED BY <2>2, <2>3
  <1>8. \A a \in Agent : Claims[m][a] = Holds[m][a]
    <2>1. \A j \in DOMAIN run : run[j].machine = m => run[j].pc # "resumed"
      BY DEF Receive, Quiet
    <2> TAKE a \in Agent
    <2>2. \A j : j \in Claims[m][a] <=> j \in Holds[m][a]
      BY <2>1, InSlots
    <2> QED BY <2>2
  <1>9. \A n \in Machine, a \in Agent :
          /\ agentSlots'[n][a] = IF pc = "running" /\ n = m /\ a = b THEN agentSlots[n][a] + 1 ELSE agentSlots[n][a]
          /\ waitQueue'[n][a] = IF pc = "queued" /\ n = m /\ a = b THEN Append(q, i) ELSE waitQueue[n][a]
    <2>1. agentSlots \in [Machine -> [Agent -> Nat]] /\ waitQueue \in [Machine -> [Agent -> Seq(Handler)]]
      BY <1>1 DEF TypeOK
    <2> DEFINE e == agentSlots[m][b] + 1
               p == Append(q, i)
    <2>2. e \in Nat /\ p \in Seq(Handler)
      BY <1>1, <1>2, QueueIsSeq, SlotsAreNat, AppendProperties DEF q
    <2>3. pc = "running" => agentSlots' = [agentSlots EXCEPT ![m][b] = e] /\ waitQueue' = waitQueue
      BY <1>4
    <2>4. pc = "queued" => waitQueue' = [waitQueue EXCEPT ![m][b] = p] /\ agentSlots' = agentSlots
      BY <1>4
    <2>5. e = agentSlots[m][b] + 1 /\ p = Append(q, i)
      OBVIOUS
    <2> HIDE DEF e, p
    <2>6. CASE pc = "running"
      <3>1. \A n \in Machine, a \in Agent : agentSlots'[n][a] = IF n = m /\ a = b THEN e ELSE agentSlots[n][a]
        BY <2>1, <2>2, <2>3, <2>6, <1>2, OneEntry
      <3> QED BY <2>3, <2>5, <2>6, <3>1
    <2>7. CASE pc = "queued"
      <3>1. \A n \in Machine, a \in Agent : waitQueue'[n][a] = IF n = m /\ a = b THEN p ELSE waitQueue[n][a]
        BY <2>1, <2>2, <2>4, <2>7, <1>2, OneEntry
      <3> QED BY <2>4, <2>5, <2>7, <3>1
    <2>8. CASE pc = "skipped"
      BY <1>4, <2>8
    <2> QED BY <2>6, <2>7, <2>8
  <1>10. /\ IsFiniteSet(Holds[m][b]) /\ Cardinality(Holds[m][b]) \in Nat
         /\ agentSlots[m][b] = Cardinality(Holds[m][b]) /\ Cardinality(Holds[m][b]) <= MaxParallel
         /\ Waits[m][b] # {} => Cardinality(Holds[m][b]) = MaxParallel
    BY <1>1, <1>2, <1>8, SlotsFinite DEF SlotsInv, Counted
  <1>11. i \notin Holds[m][b]
    BY <1>2, <1>6, SlotSets
  <1>12. Cardinality(Holds[m][b] \cup {i}) = Cardinality(Holds[m][b]) + 1
    BY <1>10, <1>11, FS_AddElement
  <1>13. pc = "running" => Waits[m][b] = {}
    BY <1>4, <1>10, ParallelAssumption
  <1>14. Counted'
    <2> SUFFICES ASSUME NEW n \in Machine, NEW a \in Agent
                 PROVE  /\ agentSlots'[n][a] = Cardinality(Holds'[n][a])
                        /\ Cardinality(Claims'[n][a]) <= MaxParallel
                        /\ Waits'[n][a] # {} => Cardinality(Claims'[n][a]) = MaxParallel
      BY DEF Counted
    <2>1. CASE ~(n = m /\ a = b)
      <3>1. /\ Holds'[n][a] = Holds[n][a] /\ Claims'[n][a] = Claims[n][a] /\ Waits'[n][a] = Waits[n][a]
            /\ agentSlots'[n][a] = agentSlots[n][a]
        BY <2>1, <1>7, <1>9
      <3> QED BY <3>1 DEF SlotsInv, Counted
    <2>2. CASE n = m /\ a = b /\ pc = "skipped"
      <3>1. /\ Holds'[n][a] = Holds[n][a] /\ Claims'[n][a] = Claims[n][a] /\ Waits'[n][a] = Waits[n][a]
            /\ agentSlots'[n][a] = agentSlots[n][a]
        BY <2>2, <1>7, <1>9
      <3> QED BY <3>1 DEF SlotsInv, Counted
    <2>3. CASE n = m /\ a = b /\ pc = "running"
      <3>1. /\ Holds'[n][a] = Holds[m][b] \cup {i} /\ Claims'[n][a] = Holds[m][b] \cup {i} /\ Waits'[n][a] = {}
            /\ agentSlots'[n][a] = agentSlots[m][b] + 1 /\ agentSlots[m][b] < MaxParallel
        BY <2>3, <1>4, <1>7, <1>8, <1>9, <1>13
      <3> QED BY <3>1, <1>10, <1>12, ParallelAssumption
    <2>4. CASE n = m /\ a = b /\ pc = "queued"
      <3>1. /\ Holds'[n][a] = Holds[m][b] /\ Claims'[n][a] = Holds[m][b]
            /\ agentSlots'[n][a] = agentSlots[m][b] /\ ~(agentSlots[m][b] < MaxParallel)
        BY <2>4, <1>4, <1>7, <1>8, <1>9
      <3> QED BY <3>1, <1>10, ParallelAssumption
    <2> QED BY <2>1, <2>2, <2>3, <2>4
  <1>15. InOrder'
    <2> SUFFICES ASSUME NEW n \in Machine, NEW a \in Agent
                 PROVE  /\ \A k, l \in 1 .. Len(waitQueue'[n][a]) : k < l => waitQueue'[n][a][k] < waitQueue'[n][a][l]
                        /\ \A j \in Waits'[n][a] : \E k \in 1 .. Len(waitQueue'[n][a]) : waitQueue'[n][a][k] = j
      BY DEF InOrder
    <2>1. CASE ~(n = m /\ a = b /\ pc = "queued")
      <3>1. waitQueue'[n][a] = waitQueue[n][a] /\ Waits'[n][a] = Waits[n][a]
        BY <2>1, <1>7, <1>9
      <3> QED BY <3>1 DEF SlotsInv, InOrder
    <2>2. CASE n = m /\ a = b /\ pc = "queued"
      <3> DEFINE p == Append(q, i)
      <3>1. waitQueue'[n][a] = p /\ Waits'[n][a] = Waits[m][b] \cup {i}
        BY <2>2, <1>7, <1>9
      <3>2. q \in Seq(Handler) /\ Len(q) \in Nat
        BY <1>1, <1>2, QueueIsSeq DEF q
      <3>3. /\ \A k \in 1 .. Len(q) : q[k] \in DOMAIN run
            /\ \A k, l \in 1 .. Len(q) : k < l => q[k] < q[l]
            /\ \A j \in Waits[m][b] : \E k \in 1 .. Len(q) : q[k] = j
        BY <1>2 DEF Sched, Queued, SlotsInv, InOrder, q
      <3>4. /\ Len(p) = Len(q) + 1 /\ \A k \in 1 .. Len(q) : p[k] = q[k]
            /\ p[Len(q) + 1] = i
        BY <3>2, <1>1, AppendProperties DEF i
      <3> HIDE DEF p
      <3>5. \A k \in 1 .. Len(p) : k \in 1 .. Len(q) \/ k = Len(q) + 1
        BY <3>2, <3>4
      <3>6. \A k \in 1 .. Len(q) : p[k] < i /\ k \in 1 .. Len(p)
        BY <3>2, <3>3, <3>4, <1>5
      <3>7. \A k, l \in 1 .. Len(p) : k < l => p[k] < p[l]
        BY <3>2, <3>3, <3>4, <3>5, <3>6
      <3>8. \A j \in Waits[m][b] \cup {i} : \E k \in 1 .. Len(p) : p[k] = j
        BY <3>2, <3>3, <3>4, <3>6
      <3> QED BY <3>1, <3>7, <3>8
    <2> QED BY <2>1, <2>2
  <1>16. NoOvertaking'
    <2> SUFFICES ASSUME NEW x \in DOMAIN run', NEW y \in DOMAIN run', x < y, run'[x].pc = "queued",
                        run'[x].machine = run'[y].machine, run'[x].agent = run'[y].agent
                 PROVE  run'[y].pc \in {"queued", "skipped", "lost"}
      BY DEF NoOvertaking
    <2>1. x \in DOMAIN run
      <3>1. CASE x = i
        BY <3>1, <1>5, <1>6
      <3> QED BY <3>1, <1>6
    <2>2. CASE y = i
      <3>1. x \in Waits[m][b]
        BY <2>1, <2>2, <1>2, <1>3, <1>4, SlotSets
      <3> QED BY <3>1, <2>2, <1>4, <1>13
    <2>3. CASE y # i
      BY <2>1, <2>3, <1>3, <1>6 DEF SlotsInv, NoOvertaking
    <2> QED BY <2>2, <2>3
  <1> QED BY <1>14, <1>15, <1>16 DEF SlotsInv

\* The slot a waiter was handed becomes one it holds.
LEMMA ResumeSlots ==
  ASSUME Sched, SlotsInv, NEW i \in DOMAIN run, Resume(i)
  PROVE  SlotsInv'
  <1> DEFINE m == run[i].machine
             b == run[i].agent
             e == agentSlots[m][b] + 1
  <1>1. TypeOK /\ m \in Machine /\ b \in Agent
    BY RunIsFun DEF Sched, Run
  <1>2. run[i].pc = "resumed" /\ UNCHANGED waitQueue /\ agentSlots' = [agentSlots EXCEPT ![m][b] = e]
    BY DEF Resume
  <1>3. /\ DOMAIN run' = DOMAIN run
        /\ \A j \in DOMAIN run :
             /\ run'[j].machine = run[j].machine /\ run'[j].agent = run[j].agent
             /\ run'[j].pc = IF j = i THEN "running" ELSE run[j].pc
    BY ResumeSched DEF PcOnly
  <1> HIDE DEF m, b
  <1>4. \A n \in Machine, a \in Agent :
          agentSlots'[n][a] = IF n = m /\ a = b THEN agentSlots[n][a] + 1 ELSE agentSlots[n][a]
    <2>0. agentSlots[m][b] \in Nat
      BY <1>1, SlotsAreNat
    <2>3. e \in Nat /\ e = agentSlots[m][b] + 1
      BY <2>0
    <2> HIDE DEF e
    <2>1. agentSlots \in [Machine -> [Agent -> Nat]] /\ e \in Nat /\ e = agentSlots[m][b] + 1
      BY <1>1, <2>3 DEF TypeOK
    <2>2. \A n \in Machine, a \in Agent : agentSlots'[n][a] = IF n = m /\ a = b THEN e ELSE agentSlots[n][a]
      BY <2>1, <1>1, <1>2, OneEntry
    <2> QED BY <2>1, <2>2
  <1>5. \A n \in Machine, a \in Agent :
          /\ Holds'[n][a] = IF n = m /\ a = b THEN Holds[n][a] \cup {i} ELSE Holds[n][a]
          /\ Claims'[n][a] = Claims[n][a] /\ Waits'[n][a] = Waits[n][a]
    <2> SUFFICES ASSUME NEW n \in Machine, NEW a \in Agent
                 PROVE  /\ Holds'[n][a] = IF n = m /\ a = b THEN Holds[n][a] \cup {i} ELSE Holds[n][a]
                        /\ Claims'[n][a] = Claims[n][a] /\ Waits'[n][a] = Waits[n][a]
      OBVIOUS
    <2>0. run[i].machine = m /\ run[i].agent = b
      BY DEF m, b
    <2>1. CASE n = m /\ a = b
      <3>1. \A j : j \in Holds'[n][a] <=> j \in Holds[n][a] \/ j = i
        BY <2>0, <2>1, <1>2, <1>3, InSlots
      <3>2. \A j : j \in Claims'[n][a] <=> j \in Claims[n][a]
        BY <2>0, <2>1, <1>2, <1>3, InSlots
      <3>3. \A j : j \in Waits'[n][a] <=> j \in Waits[n][a]
        BY <2>0, <2>1, <1>2, <1>3, InSlots
      <3> QED BY <2>1, <3>1, <3>2, <3>3
    <2>2. CASE ~(n = m /\ a = b)
      <3>1. \A j : j \in Holds'[n][a] <=> j \in Holds[n][a]
        BY <2>0, <2>2, <1>2, <1>3, InSlots
      <3>2. \A j : j \in Claims'[n][a] <=> j \in Claims[n][a]
        BY <2>0, <2>2, <1>2, <1>3, InSlots
      <3>3. \A j : j \in Waits'[n][a] <=> j \in Waits[n][a]
        BY <2>0, <2>2, <1>2, <1>3, InSlots
      <3> QED BY <2>2, <3>1, <3>2, <3>3
    <2> QED BY <2>1, <2>2
  <1>6. i \notin Holds[m][b]
    BY <1>1, <1>2, SlotSets
  <1>7. Cardinality(Holds[m][b] \cup {i}) = Cardinality(Holds[m][b]) + 1
    BY <1>1, <1>6, SlotsFinite, FS_AddElement
  <1>8. Counted'
    <2> SUFFICES ASSUME NEW n \in Machine, NEW a \in Agent
                 PROVE  /\ agentSlots'[n][a] = Cardinality(Holds'[n][a])
                        /\ Cardinality(Claims'[n][a]) <= MaxParallel
                        /\ Waits'[n][a] # {} => Cardinality(Claims'[n][a]) = MaxParallel
      BY DEF Counted
    <2>0. /\ agentSlots[n][a] = Cardinality(Holds[n][a])
          /\ Cardinality(Claims[n][a]) <= MaxParallel
          /\ Waits[n][a] # {} => Cardinality(Claims[n][a]) = MaxParallel
      BY DEF SlotsInv, Counted
    <2>1. CASE n = m /\ a = b
      BY <2>0, <2>1, <1>4, <1>5, <1>7
    <2>2. CASE ~(n = m /\ a = b)
      <3>1. /\ Holds'[n][a] = Holds[n][a] /\ Claims'[n][a] = Claims[n][a] /\ Waits'[n][a] = Waits[n][a]
            /\ agentSlots'[n][a] = agentSlots[n][a]
        BY <2>2, <1>4, <1>5
      <3> QED BY <2>0, <3>1
    <2> QED BY <2>1, <2>2
  <1>9. InOrder'
    <2>1. \A n \in Machine, a \in Agent : Waits'[n][a] = Waits[n][a]
      BY <1>5
    <2> QED BY <1>2, <2>1 DEF SlotsInv, InOrder
  <1>10. NoOvertaking'
    <2> SUFFICES ASSUME NEW x \in DOMAIN run, NEW y \in DOMAIN run, x < y, run'[x].pc = "queued",
                        run[x].machine = run[y].machine, run[x].agent = run[y].agent
                 PROVE  run'[y].pc \in {"queued", "skipped", "lost"}
      BY <1>3 DEF NoOvertaking
    <2>1. run[x].pc = "queued"
      BY <1>3
    <2>2. run[y].pc \in {"queued", "skipped", "lost"}
      BY <2>1 DEF SlotsInv, NoOvertaking
    <2> QED BY <2>2, <1>2, <1>3
  <1> QED BY <1>8, <1>9, <1>10 DEF SlotsInv

\* The slot of a run that ends goes to the oldest that waits, if one does.
LEMMA FinishSlots ==
  ASSUME Sched, SlotsInv, NEW i \in DOMAIN run, Finish(i)
  PROVE  SlotsInv'
  <1> DEFINE m == run[i].machine
             b == run[i].agent
             q == waitQueue[m][b]
             e == IF agentSlots[m][b] = 0 THEN 0 ELSE agentSlots[m][b] - 1
  <1>1. TypeOK /\ run \in Seq(Run) /\ m \in Machine /\ b \in Agent /\ DOMAIN run \subseteq Nat
    <2>1. TypeOK /\ Len(run) \in Nat /\ DOMAIN run = 1 .. Len(run) /\ run \in [1 .. Len(run) -> Run]
      BY RunIsFun DEF Sched
    <2>2. run \in Seq(Run)
      BY <2>1, SeqOfFun
    <2>3. run[i] \in Run
      BY <2>1
    <2> QED BY <2>1, <2>2, <2>3 DEF Run
  <1>2. run[i].pc = "running" /\ agentSlots' = [agentSlots EXCEPT ![m][b] = e]
    BY DEF Finish, releaseSlot
  <1>3. /\ q \in Seq(Handler) /\ Len(q) \in Nat
        /\ \A k \in 1 .. Len(q) : q[k] \in DOMAIN run /\ run[q[k]].machine = m /\ run[q[k]].agent = b /\ run[q[k]].pc = "queued"
        /\ \A k, l \in 1 .. Len(q) : k < l => q[k] < q[l]
        /\ \A j \in Waits[m][b] : \E k \in 1 .. Len(q) : q[k] = j
    <2>1. q \in Seq(Handler) /\ Len(q) \in Nat
      BY <1>1, QueueIsSeq
    <2>2. \A k \in 1 .. Len(q) : q[k] \in DOMAIN run /\ run[q[k]].machine = m /\ run[q[k]].agent = b /\ run[q[k]].pc = "queued"
      BY <1>1 DEF Sched, Queued
    <2>3. /\ \A k, l \in 1 .. Len(q) : k < l => q[k] < q[l]
          /\ \A j \in Waits[m][b] : \E k \in 1 .. Len(q) : q[k] = j
      BY <1>1 DEF SlotsInv, InOrder
    <2> QED BY <2>1, <2>2, <2>3
  <1>4. q # <<>> => /\ Head(q) = q[1] /\ Len(q) >= 1 /\ Tail(q) \in Seq(Handler) /\ Len(Tail(q)) = Len(q) - 1
                    /\ \A k \in 1 .. Len(Tail(q)) : Tail(q)[k] = q[k + 1]
    BY <1>3, HeadTailProperties, EmptySeq
  <1>21. q # <<>> => /\ Head(q) \in DOMAIN run /\ run[Head(q)].pc = "queued" /\ Head(q) # i
                     /\ run[Head(q)].machine = m /\ run[Head(q)].agent = b
    <2> SUFFICES ASSUME q # <<>>
                 PROVE  /\ Head(q) \in DOMAIN run /\ run[Head(q)].pc = "queued" /\ Head(q) # i
                        /\ run[Head(q)].machine = m /\ run[Head(q)].agent = b
      OBVIOUS
    <2>1. Len(q) \in Nat /\ Len(q) >= 1 /\ Head(q) = q[1]
      BY <1>3, <1>4
    <2> HIDE DEF m, b, q
    <2>2. 1 \in 1 .. Len(q)
      BY <2>1
    <2> QED BY <1>2, <1>3, <2>1, <2>2
  <1>5. /\ DOMAIN run' = DOMAIN run
        /\ \A j \in DOMAIN run : run'[j].machine = run[j].machine /\ run'[j].agent = run[j].agent
    BY FinishSched DEF PcOnly
  <1>6. \A j \in DOMAIN run :
          run'[j].pc = IF j = i THEN "ended" ELSE IF q # <<>> /\ j = Head(q) THEN "resumed" ELSE run[j].pc
    <2> DEFINE ended == [run EXCEPT ![i].pc = "ended"]
               h == Head(q)
    <2>1. /\ ended \in Seq(Run) /\ DOMAIN ended = DOMAIN run
          /\ \A j \in DOMAIN run : ended[j] = IF j = i THEN [run[j] EXCEPT !.pc = "ended"] ELSE run[j]
      BY <1>1, SetPc DEF Pc
    <2>2. IF q = <<>> THEN run' = ended ELSE run' = [ended EXCEPT ![h].pc = "resumed"]
      BY DEF Finish, releaseSlot
    <2>3. \A j \in DOMAIN run : run[j] \in Run
      BY <1>1, RunIsFun
    <2>4. q # <<>> => h \in DOMAIN ended /\ h # i
      BY <1>21, <2>1
    <2> HIDE DEF ended, h, q
    <2>5. \A j \in DOMAIN run : ended[j].pc = (IF j = i THEN "ended" ELSE run[j].pc) /\ ended[j] \in Run
      BY <2>1, <2>3 DEF Run, Pc
    <2>6. CASE q = <<>>
      BY <2>2, <2>5, <2>6
    <2>7. CASE q # <<>>
      <3>1. run' = [ended EXCEPT ![h].pc = "resumed"] /\ h \in DOMAIN ended /\ h # i
        BY <2>2, <2>4, <2>7
      <3>2. \A j \in DOMAIN ended : run'[j] = IF j = h THEN [ended[j] EXCEPT !.pc = "resumed"] ELSE ended[j]
        BY <3>1, <2>1, SetPc DEF Pc
      <3>3. \A j \in DOMAIN run : run'[j].pc = IF j = h THEN "resumed" ELSE ended[j].pc
        BY <3>2, <2>1, <2>5 DEF Run
      <3> QED BY <3>1, <3>3, <2>5, <2>7 DEF h
    <2> QED BY <2>6, <2>7
  <1>7. \A n \in Machine, a \in Agent :
          /\ agentSlots'[n][a] = IF n = m /\ a = b THEN e ELSE agentSlots[n][a]
          /\ waitQueue'[n][a] = IF q # <<>> /\ n = m /\ a = b THEN Tail(q) ELSE waitQueue[n][a]
    <2>0. agentSlots[m][b] \in Nat
      BY <1>1, SlotsAreNat
    <2>6. e \in Nat
      BY <2>0
    <2> HIDE DEF e
    <2>1. agentSlots \in [Machine -> [Agent -> Nat]] /\ waitQueue \in [Machine -> [Agent -> Seq(Handler)]] /\ e \in Nat
      BY <1>1, <2>6 DEF TypeOK
    <2> DEFINE t == Tail(q)
    <2>2. IF q = <<>> THEN waitQueue' = waitQueue ELSE waitQueue' = [waitQueue EXCEPT ![m][b] = t]
      BY DEF Finish, releaseSlot
    <2>4. q # <<>> => t \in Seq(Handler)
      BY <1>4
    <2> HIDE DEF t, e, q, m, b
    <2>3. \A n \in Machine, a \in Agent : agentSlots'[n][a] = IF n = m /\ a = b THEN e ELSE agentSlots[n][a]
      BY <2>1, <1>1, <1>2, OneEntry
    <2>5. CASE q # <<>>
      <3>1. waitQueue' = [waitQueue EXCEPT ![m][b] = t] /\ t \in Seq(Handler)
        BY <2>2, <2>4, <2>5
      <3>2. \A n \in Machine, a \in Agent : waitQueue'[n][a] = IF n = m /\ a = b THEN t ELSE waitQueue[n][a]
        BY <3>1, <2>1, <1>1, OneEntry
      <3> QED BY <2>3, <2>5, <3>2 DEF t
    <2> QED BY <2>2, <2>3, <2>5
  <1>8. /\ IsFiniteSet(Holds[m][b]) /\ Cardinality(Holds[m][b]) \in Nat
        /\ agentSlots[m][b] = Cardinality(Holds[m][b]) /\ Cardinality(Holds[m][b]) <= MaxParallel
        /\ Waits[m][b] # {} => Cardinality(Holds[m][b]) = MaxParallel
        /\ Claims[m][b] = Holds[m][b]
    <2>1. \A j \in DOMAIN run : run[j].machine = m => run[j].pc # "resumed"
      BY DEF Finish, Quiet
    <2> HIDE DEF m, b
    <2>3. \A j : j \in Claims[m][b] <=> j \in Holds[m][b]
      BY <2>1, <1>1, InSlots
    <2>2. Claims[m][b] = Holds[m][b]
      BY <2>3
    <2> QED BY <2>2, <1>1, SlotsFinite DEF SlotsInv, Counted
  <1>9. i \in Holds[m][b]
    BY <1>1, <1>2, SlotSets
  <1>10. /\ IsFiniteSet(Holds[m][b] \ {i})
         /\ Cardinality(Holds[m][b] \ {i}) = Cardinality(Holds[m][b]) - 1
         /\ Cardinality(Holds[m][b]) # 0
    BY <1>8, <1>9, FS_RemoveElement, FS_EmptySet
  <1>11. e = Cardinality(Holds[m][b]) - 1
    BY <1>8, <1>10
  <1>12. q # <<>> => /\ Head(q) \in Waits[m][b] /\ Head(q) \in DOMAIN run /\ run[Head(q)].pc = "queued" /\ Head(q) # i
                     /\ run[Head(q)].machine = m /\ run[Head(q)].agent = b
                     /\ Cardinality((Holds[m][b] \ {i}) \cup {Head(q)}) = Cardinality(Holds[m][b])
    <2> SUFFICES ASSUME q # <<>>
                 PROVE  /\ Head(q) \in Waits[m][b] /\ Head(q) \in DOMAIN run /\ run[Head(q)].pc = "queued" /\ Head(q) # i
                        /\ run[Head(q)].machine = m /\ run[Head(q)].agent = b
                        /\ Cardinality((Holds[m][b] \ {i}) \cup {Head(q)}) = Cardinality(Holds[m][b])
      OBVIOUS
    <2> DEFINE h == Head(q)
    <2>1. h \in DOMAIN run /\ run[h].pc = "queued" /\ run[h].machine = m /\ run[h].agent = b /\ h # i
      BY <1>21
    <2> HIDE DEF h, m, b, q
    <2>2. h \in Waits[m][b] /\ h \notin Holds[m][b] \ {i}
      BY <2>1, <1>1, SlotSets
    <2>3. Cardinality((Holds[m][b] \ {i}) \cup {h}) = Cardinality(Holds[m][b] \ {i}) + 1
      BY <2>2, <1>10, FS_AddElement
    <2> QED BY <2>1, <2>2, <2>3, <1>8, <1>10 DEF h
  <1>20. m = run[i].machine /\ b = run[i].agent
    OBVIOUS
  <1> HIDE DEF m, b, q, e
  <1>13. \A n \in Machine, a \in Agent :
           IF n = m /\ a = b
           THEN /\ Holds'[n][a] = Holds[m][b] \ {i}
                /\ Claims'[n][a] = IF q # <<>> THEN (Holds[m][b] \ {i}) \cup {Head(q)} ELSE Holds[m][b] \ {i}
                /\ Waits'[n][a] = IF q # <<>> THEN Waits[m][b] \ {Head(q)} ELSE Waits[m][b]
           ELSE Holds'[n][a] = Holds[n][a] /\ Claims'[n][a] = Claims[n][a] /\ Waits'[n][a] = Waits[n][a]
    <2> SUFFICES ASSUME NEW n \in Machine, NEW a \in Agent
                 PROVE  IF n = m /\ a = b
                        THEN /\ Holds'[n][a] = Holds[m][b] \ {i}
                             /\ Claims'[n][a] = IF q # <<>> THEN (Holds[m][b] \ {i}) \cup {Head(q)} ELSE Holds[m][b] \ {i}
                             /\ Waits'[n][a] = IF q # <<>> THEN Waits[m][b] \ {Head(q)} ELSE Waits[m][b]
                        ELSE Holds'[n][a] = Holds[n][a] /\ Claims'[n][a] = Claims[n][a] /\ Waits'[n][a] = Waits[n][a]
      OBVIOUS
    <2> DEFINE h == Head(q)
    <2>1. /\ \A j \in DOMAIN run : run'[j].pc = IF j = i THEN "ended" ELSE IF q # <<>> /\ j = h THEN "resumed" ELSE run[j].pc
          /\ q # <<>> => h \in DOMAIN run /\ run[h].pc = "queued" /\ h # i /\ run[h].machine = m /\ run[h].agent = b
      BY <1>6, <1>12
    <2> HIDE DEF h
    <2>2. CASE n = m /\ a = b
      <3>1. \A j : j \in Holds'[n][a] <=> j \in Holds[n][a] /\ j # i
        BY <2>1, <2>2, <1>2, <1>5, <1>20, InSlots
      <3>2. \A j : j \in Claims'[n][a] <=> (j \in Claims[n][a] /\ j # i) \/ (q # <<>> /\ j = h)
        BY <2>1, <2>2, <1>2, <1>5, <1>20, InSlots
      <3>3. \A j : j \in Waits'[n][a] <=> j \in Waits[n][a] /\ ~(q # <<>> /\ j = h)
        BY <2>1, <2>2, <1>2, <1>5, <1>20, InSlots
      <3>4. Holds'[n][a] = Holds[m][b] \ {i}
        BY <2>2, <3>1
      <3>5. Claims'[n][a] = IF q # <<>> THEN (Claims[m][b] \ {i}) \cup {h} ELSE Claims[m][b] \ {i}
        BY <2>2, <3>2
      <3>6. Waits'[n][a] = IF q # <<>> THEN Waits[m][b] \ {h} ELSE Waits[m][b]
        BY <2>2, <3>3
      <3> QED BY <2>2, <3>4, <3>5, <3>6, <1>8 DEF h
    <2>3. CASE ~(n = m /\ a = b)
      <3>1. \A j : j \in Holds'[n][a] <=> j \in Holds[n][a]
        BY <2>1, <2>3, <1>2, <1>5, <1>20, InSlots
      <3>2. \A j : j \in Claims'[n][a] <=> j \in Claims[n][a]
        BY <2>1, <2>3, <1>2, <1>5, <1>20, InSlots
      <3>3. \A j : j \in Waits'[n][a] <=> j \in Waits[n][a]
        BY <2>1, <2>3, <1>2, <1>5, <1>20, InSlots
      <3>4. Holds'[n][a] = Holds[n][a]
        BY <2>3, <3>1
      <3>5. Claims'[n][a] = Claims[n][a]
        BY <2>3, <3>2
      <3>6. Waits'[n][a] = Waits[n][a]
        BY <2>3, <3>3
      <3> QED BY <2>3, <3>4, <3>5, <3>6
    <2> QED BY <2>2, <2>3
  <1>14. q = <<>> => Waits[m][b] = {}
    BY <1>3
  <1>15. Counted'
    <2> SUFFICES ASSUME NEW n \in Machine, NEW a \in Agent
                 PROVE  /\ agentSlots'[n][a] = Cardinality(Holds'[n][a])
                        /\ Cardinality(Claims'[n][a]) <= MaxParallel
                        /\ Waits'[n][a] # {} => Cardinality(Claims'[n][a]) = MaxParallel
      BY DEF Counted
    <2>1. CASE ~(n = m /\ a = b)
      <3>1. /\ Holds'[n][a] = Holds[n][a] /\ Claims'[n][a] = Claims[n][a] /\ Waits'[n][a] = Waits[n][a]
            /\ agentSlots'[n][a] = agentSlots[n][a]
        BY <2>1, <1>7, <1>13
      <3> QED BY <3>1 DEF SlotsInv, Counted
    <2>2. CASE n = m /\ a = b /\ q = <<>>
      <3>1. /\ Holds'[n][a] = Holds[m][b] \ {i} /\ Claims'[n][a] = Holds[m][b] \ {i} /\ Waits'[n][a] = {}
            /\ agentSlots'[n][a] = e
        BY <2>2, <1>7, <1>13, <1>14
      <3> QED BY <3>1, <1>8, <1>10, <1>11, ParallelAssumption
    <2>3. CASE n = m /\ a = b /\ q # <<>>
      <3>1. /\ Holds'[n][a] = Holds[m][b] \ {i} /\ Claims'[n][a] = (Holds[m][b] \ {i}) \cup {Head(q)}
            /\ agentSlots'[n][a] = e
        BY <2>3, <1>7, <1>13
      <3>2. Cardinality(Claims'[n][a]) = Cardinality(Holds[m][b]) /\ Waits[m][b] # {}
        BY <2>3, <3>1, <1>12
      <3> QED BY <3>1, <3>2, <1>8, <1>10, <1>11, ParallelAssumption
    <2> QED BY <2>1, <2>2, <2>3
  <1>16. InOrder'
    <2> SUFFICES ASSUME NEW n \in Machine, NEW a \in Agent
                 PROVE  /\ \A k, l \in 1 .. Len(waitQueue'[n][a]) : k < l => waitQueue'[n][a][k] < waitQueue'[n][a][l]
                        /\ \A j \in Waits'[n][a] : \E k \in 1 .. Len(waitQueue'[n][a]) : waitQueue'[n][a][k] = j
      BY DEF InOrder
    <2>1. CASE ~(n = m /\ a = b /\ q # <<>>)
      <3>1. waitQueue'[n][a] = waitQueue[n][a] /\ Waits'[n][a] = Waits[n][a]
        BY <2>1, <1>7, <1>13
      <3> QED BY <3>1 DEF SlotsInv, InOrder
    <2>2. CASE n = m /\ a = b /\ q # <<>>
      <3> DEFINE t == Tail(q)
      <3>1. waitQueue'[n][a] = t /\ Waits'[n][a] = Waits[m][b] \ {q[1]}
        BY <2>2, <1>4, <1>7, <1>13
      <3>2. Len(t) = Len(q) - 1 /\ \A k \in 1 .. Len(t) : t[k] = q[k + 1]
        BY <2>2, <1>4
      <3> HIDE DEF t
      <3>3. \A k \in 1 .. Len(t) : k + 1 \in 1 .. Len(q)
        BY <3>2, <1>3
      <3>4. \A k, l \in 1 .. Len(t) : k < l => t[k] < t[l]
        BY SMTT(30), <3>2, <3>3, <1>3
      <3>5. ASSUME NEW j \in Waits[m][b] \ {q[1]}
            PROVE  \E k \in 1 .. Len(t) : t[k] = j
        <4>1. PICK k \in 1 .. Len(q) : q[k] = j
          BY <1>3
        <4>2. k # 1 /\ k - 1 \in 1 .. Len(t) /\ k - 1 + 1 = k
          BY <4>1, <3>2, <3>5, <1>3
        <4>3. t[k - 1] = j
          BY <4>1, <4>2, <3>2
        <4> QED BY <4>2, <4>3
      <3> QED BY <3>1, <3>4, <3>5
    <2> QED BY <2>1, <2>2
  <1>17. NoOvertaking'
    <2> SUFFICES ASSUME NEW x \in DOMAIN run, NEW y \in DOMAIN run, x < y, run'[x].pc = "queued",
                        run[x].machine = run[y].machine, run[x].agent = run[y].agent
                 PROVE  run'[y].pc \in {"queued", "skipped", "lost"}
      BY <1>5 DEF NoOvertaking
    <2>1. run[x].pc = "queued" /\ ~(q # <<>> /\ x = Head(q))
      BY <1>6
    <2>2. run[y].pc \in {"queued", "skipped", "lost"}
      BY <2>1 DEF SlotsInv, NoOvertaking
    <2>3. y # i
      BY <2>2, <1>2
    <2>4. ASSUME q # <<>>, y = Head(q) PROVE FALSE
      <3>1. x \in Waits[m][b]
        BY <2>1, <2>4, <1>1, <1>12, SlotSets
      <3>2. PICK k \in 1 .. Len(q) : q[k] = x
        BY <3>1, <1>3
      <3>3. y = q[1] /\ Len(q) >= 1
        BY <2>4, <1>4
      <3>4. k # 1 /\ 1 < k /\ 1 \in 1 .. Len(q)
        BY <3>2, <3>3, <2>1, <2>4, <1>3
      <3>5. q[1] < q[k]
        BY <3>4, <1>3
      <3>6. y < x
        BY <3>2, <3>3, <3>5
      <3>7. x \in Nat /\ y \in Nat
        BY <1>1
      <3> QED BY <3>6, <3>7
    <2> QED BY <2>2, <2>3, <2>4, <1>6
  <1> QED BY <1>15, <1>16, <1>17 DEF SlotsInv

LEMMA CrashSlots ==
  ASSUME Sched, SlotsInv, NEW m \in Machine, Crash(m)
  PROVE  SlotsInv'
  <1>1. TypeOK /\ \A j \in DOMAIN run : run[j].machine \in Machine
    BY RunIsFun DEF Sched, Run
  <1>2. /\ DOMAIN run' = DOMAIN run
        /\ \A j \in DOMAIN run :
             /\ run'[j].machine = run[j].machine /\ run'[j].agent = run[j].agent
             /\ run'[j].pc = IF run[j].machine = m /\ run[j].pc \in Live THEN "lost" ELSE run[j].pc
    BY CrashSched DEF PcOnly
  <1>3. /\ agentSlots' = [agentSlots EXCEPT ![m] = [a \in Agent |-> 0]]
        /\ waitQueue' = [waitQueue EXCEPT ![m] = [a \in Agent |-> <<>>]]
    BY DEF Crash
  <1>4. \A n \in Machine, a \in Agent :
          /\ agentSlots'[n][a] = IF n = m THEN 0 ELSE agentSlots[n][a]
          /\ waitQueue'[n][a] = IF n = m THEN <<>> ELSE waitQueue[n][a]
    BY <1>1, <1>3 DEF TypeOK
  <1>5. \A n \in Machine, a \in Agent :
          IF n = m THEN Holds'[n][a] = {} /\ Claims'[n][a] = {} /\ Waits'[n][a] = {}
          ELSE Holds'[n][a] = Holds[n][a] /\ Claims'[n][a] = Claims[n][a] /\ Waits'[n][a] = Waits[n][a]
    <2> SUFFICES ASSUME NEW n \in Machine, NEW a \in Agent
                 PROVE  IF n = m THEN Holds'[n][a] = {} /\ Claims'[n][a] = {} /\ Waits'[n][a] = {}
                        ELSE Holds'[n][a] = Holds[n][a] /\ Claims'[n][a] = Claims[n][a] /\ Waits'[n][a] = Waits[n][a]
      OBVIOUS
    <2>1. CASE n = m
      BY <2>1, <1>2, InSlots DEF Live
    <2>2. CASE n # m
      <3>1. \A j : j \in Holds'[n][a] <=> j \in Holds[n][a]
        BY <2>2, <1>2, InSlots
      <3>2. \A j : j \in Claims'[n][a] <=> j \in Claims[n][a]
        BY <2>2, <1>2, InSlots
      <3>3. \A j : j \in Waits'[n][a] <=> j \in Waits[n][a]
        BY <2>2, <1>2, InSlots
      <3>4. Holds'[n][a] = Holds[n][a]
        BY <2>2, <3>1
      <3>5. Claims'[n][a] = Claims[n][a]
        BY <2>2, <3>2
      <3>6. Waits'[n][a] = Waits[n][a]
        BY <2>2, <3>3
      <3> QED BY <2>2, <3>4, <3>5, <3>6
    <2> QED BY <2>1, <2>2
  <1>6. Counted'
    <2> SUFFICES ASSUME NEW n \in Machine, NEW a \in Agent
                 PROVE  /\ agentSlots'[n][a] = Cardinality(Holds'[n][a])
                        /\ Cardinality(Claims'[n][a]) <= MaxParallel
                        /\ Waits'[n][a] # {} => Cardinality(Claims'[n][a]) = MaxParallel
      BY DEF Counted
    <2>1. CASE n = m
      <3>1. Cardinality({}) = 0
        BY FS_EmptySet
      <3>2. Holds'[n][a] = {} /\ Claims'[n][a] = {} /\ Waits'[n][a] = {} /\ agentSlots'[n][a] = 0
        BY <2>1, <1>4, <1>5
      <3> QED BY <3>1, <3>2, ParallelAssumption
    <2>2. CASE n # m
      BY <2>2, <1>4, <1>5 DEF SlotsInv, Counted
    <2> QED BY <2>1, <2>2
  <1>7. InOrder'
    <2> SUFFICES ASSUME NEW n \in Machine, NEW a \in Agent
                 PROVE  /\ \A k, l \in 1 .. Len(waitQueue'[n][a]) : k < l => waitQueue'[n][a][k] < waitQueue'[n][a][l]
                        /\ \A j \in Waits'[n][a] : \E k \in 1 .. Len(waitQueue'[n][a]) : waitQueue'[n][a][k] = j
      BY DEF InOrder
    <2>1. CASE n = m
      BY <2>1, <1>4, <1>5
    <2>2. CASE n # m
      BY <2>2, <1>4, <1>5 DEF SlotsInv, InOrder
    <2> QED BY <2>1, <2>2
  <1>8. NoOvertaking'
    BY <1>2 DEF SlotsInv, NoOvertaking, Live
  <1> QED BY <1>6, <1>7, <1>8 DEF SlotsInv

LEMMA SlotsNext ==
  ASSUME Sched, SlotsInv, [RunsNext]_allVars
  PROVE  SlotsInv'
  <1>1. ASSUME UNCHANGED <<agentSlots, waitQueue, run>>
        PROVE  SlotsInv'
    <2>1. \A m \in Machine, a \in Agent :
            Holds'[m][a] = Holds[m][a] /\ Claims'[m][a] = Claims[m][a] /\ Waits'[m][a] = Waits[m][a]
      <3> TAKE m \in Machine, a \in Agent
      <3>1. \A j : /\ j \in Holds'[m][a] <=> j \in Holds[m][a]
                   /\ j \in Claims'[m][a] <=> j \in Claims[m][a]
                   /\ j \in Waits'[m][a] <=> j \in Waits[m][a]
        BY <1>1, InSlots
      <3> QED BY <3>1
    <2>2. Counted' /\ InOrder'
      BY <1>1, <2>1 DEF SlotsInv, Counted, InOrder
    <2>3. NoOvertaking'
      BY <1>1 DEF SlotsInv, NoOvertaking
    <2> QED BY <2>2, <2>3 DEF SlotsInv
  <1>2. ASSUME NEW m \in Machine, NEW a \in Agent, NEW k \in TaskKey, NEW via \in {"message", "prune"}, Wakes(m, a, k, via)
        PROVE  SlotsInv'
    BY <1>1, <1>2 DEF Wakes
  <1>3. ASSUME NEW m \in Machine, Len(run) < MaxWake, Receive(m)
        PROVE  SlotsInv'
    BY <1>3, ReceiveSlots
  <1>4. ASSUME NEW m \in Machine, CrashRuns(m)
        PROVE  SlotsInv'
    BY <1>4, CrashSlots DEF CrashRuns
  <1>5. ASSUME NEW i \in DOMAIN run, Resume(i)
        PROVE  SlotsInv'
    BY <1>5, ResumeSlots
  <1>6. ASSUME NEW i \in DOMAIN run, FinishRun(i)
        PROVE  SlotsInv'
    BY <1>6, FinishSlots DEF FinishRun
  <1>7. ASSUME NEW i \in DOMAIN run, MintToken(i) \/ Prepare(i) \/ Boot(i) \/ Work(i)
        PROVE  SlotsInv'
    BY <1>1, <1>7 DEF MintToken, Prepare, Boot, Work, daemonVars
  <1>8. CASE UNCHANGED allVars
    BY <1>1, <1>8 DEF allVars, daemonVars
  <1> QED BY <1>2, <1>3, <1>4, <1>5, <1>6, <1>7, <1>8 DEF RunsNext

LEMMA SlotsFollow ==
  ASSUME Sched, SlotsInv
  PROVE  NoOvertaking /\ QueueOnlyWhenFull
  <1> SUFFICES ASSUME NEW m \in Machine, NEW a \in Agent
               PROVE  /\ agentSlots[m][a] = Cardinality(At(m, a, {"running"})) /\ agentSlots[m][a] <= MaxParallel
                      /\ At(m, a, {"queued"}) # {} => Cardinality(At(m, a, {"running", "resumed"})) = MaxParallel
    BY DEF SlotsInv, QueueOnlyWhenFull
  <1>1. /\ Holds[m][a] = At(m, a, {"running"}) /\ Claims[m][a] = At(m, a, {"running", "resumed"})
        /\ Waits[m][a] = At(m, a, {"queued"})
    BY DEF Holds, Claims, Waits
  <1>2. /\ Cardinality(Holds[m][a]) \in Nat /\ Cardinality(Claims[m][a]) \in Nat
        /\ Cardinality(Holds[m][a]) <= Cardinality(Claims[m][a])
    BY SlotsFinite DEF Sched
  <1> QED BY <1>1, <1>2, ParallelAssumption DEF SlotsInv, Counted

-----------------------------------------------------------------------------
\* Every variable stays in its range.
THEOREM RunsTypeCorrect == RunsSpec => []RunsTypeOK
  <1>1. RunsInv => RunsTypeOK
    BY DEF RunsInv
  <1> QED BY <1>1, RunsAlways, PTL

\* serve.ts:53: a daemon has at most one live handler for one task of an agent, with
\* any number of slots, wakes in the queue and restarts.
THEOREM OneRunPerTask == RunsSpec => []SameTaskAlone
  <1>1. RunsInv => SameTaskAlone
    BY DEF RunsInv, Sched
  <1> QED BY <1>1, RunsAlways, PTL

\* serve.ts:213: no two processes share a working directory, and a process starts
\* with all that was written to the log of its task, unless a daemon left one behind.
THEOREM RunsContinueTheLog == RunsSpec => []LogIsContinued
  <1>1. RunsInv => LogIsContinued
    BY LogFollows
  <1> QED BY <1>1, RunsAlways, PTL

\* runner.ts:69: a process starts with the prompt that was written for it, and with a
\* memory in it, unless another run of the agent was prepared meanwhile.
THEOREM PromptWhenAlone == RunsSpec => []PromptUnlessShared
  <1>1. RunsInv /\ PromptInv => PromptUnlessShared
    BY PromptFollows
  <1>2. RunsInit => PromptInv
    BY PromptInit
  <1>3. RunsInv /\ RunsInv' /\ PromptInv /\ [RunsNext]_allVars => PromptInv'
    BY PromptNext
  <1> QED BY <1>1, <1>2, <1>3, RunsAlways, PTL DEF RunsSpec

LEMMA SlotsAlways == RunsSpec => [](RunsInv /\ SlotsInv)
  <1>1. RunsInit => SlotsInv
    BY SlotsInit DEF RunsInit
  <1>2. RunsInv /\ SlotsInv /\ [RunsNext]_allVars => SlotsInv'
    BY SlotsNext DEF RunsInv
  <1> QED BY <1>1, <1>2, RunsAlways, PTL DEF RunsSpec

\* serve.ts:54: of one agent's wakes that wait on a daemon, no later one gets a slot
\* before an earlier one.
THEOREM FirstInFirstOut == RunsSpec => []NoOvertaking
  <1>1. RunsInv /\ SlotsInv => NoOvertaking
    BY SlotsFollow DEF RunsInv
  <1> QED BY <1>1, SlotsAlways, PTL

\* serve.ts:54, 72: the count of slots is the number of runs and never exceeds
\* MaxParallel, and none of them is idle while a wake waits.
THEOREM NoSlotIsIdle == RunsSpec => []QueueOnlyWhenFull
  <1>1. RunsInv /\ SlotsInv => QueueOnlyWhenFull
    BY SlotsFollow DEF RunsInv
  <1> QED BY <1>1, SlotsAlways, PTL
=============================================================================
