---------------------------- MODULE RoundsProofs ----------------------------
(***************************************************************************)
(* Proofs about the two workers of the server that go round by a timer,    *)
(* Reminders and OrphanSweeper, for any rows, rounds and times.            *)
(*                                                                         *)
(* HandsInv: a reminder that nothing disturbed is in the hands of one      *)
(* round at most, and one that was posted is about to be marked by it.     *)
(***************************************************************************)
EXTENDS Rounds, TLAPS

RoundInv(t) ==
    /\ tick[t].pc = "idle" => tick[t] = NoRound
    /\ tick[t].pc # "idle" => tick[t].cur \in Reminder \ tick[t].due

\* Round t has posted i and not marked it yet.
Posted(i, t) == tick[t].pc = "mark" /\ tick[t].cur = i

Alone(i) == \A t, u \in Tick : i \in Taken(t) /\ i \in Taken(u) => t = u

HandsInv(i) ==
    i \notin disturbed =>
        /\ Alone(i)
        /\ fires[i] # 0 => fires[i] = 1 /\ \E t \in Tick : Posted(i, t)

RemindersInv ==
    /\ TypeOK
    /\ \A t \in Tick : RoundInv(t)
    /\ \A i \in Reminder : HandsInv(i)

-----------------------------------------------------------------------------
\* What the worker does next is a round with a reminder out of the snapshot in
\* hand, or none.
LEMMA FollowIsRound ==
  ASSUME NEW S \in SUBSET Reminder, NEW n \in 0 .. MaxTime, NEW f \in Follow(S, n)
  PROVE  /\ f \in Round /\ f.pc # "mark"
         /\ f.pc = "idle" => f = NoRound
         /\ f.pc # "idle" => f.cur \in Reminder \ f.due
         /\ f.due \cup {f.cur} \subseteq S \cup {None}
  <1>1. CASE S = {}
    <2>1. f = NoRound
      BY <1>1 DEF Follow
    <2> QED BY <2>1, ReminderAssumption DEF NoRound, Round
  <1>2. CASE S # {}
    <2>1. PICK i \in S : f = [pc |-> "post", now |-> n, due |-> S \ {i}, cur |-> i]
      BY <1>2 DEF Follow
    <2> QED BY <2>1 DEF Round
  <1> QED BY <1>1, <1>2

\* A step that gives one round another state.
LEMMA OneRound ==
  ASSUME TypeOK, \A t \in Tick : RoundInv(t), NEW t \in Tick, NEW f \in Round,
         f.pc = "idle" => f = NoRound, f.pc # "idle" => f.cur \in Reminder \ f.due,
         tick' = [tick EXCEPT ![t] = f]
  PROVE  /\ tick' \in [Tick -> Round]
         /\ \A u \in Tick : RoundInv(u)'
         /\ tick'[t] = f /\ \A u \in Tick \ {t} : tick'[u] = tick[u]
  <1>1. tick \in [Tick -> Round]
    BY DEF TypeOK
  <1>2. tick'[t] = f /\ \A u \in Tick \ {t} : tick'[u] = tick[u]
    BY <1>1
  <1>3. ASSUME NEW u \in Tick PROVE RoundInv(u)'
    BY <1>2 DEF RoundInv
  <1> QED BY <1>1, <1>2, <1>3

\* A step of somebody else may start the count of a reminder anew.
LEMMA OthersStep ==
  ASSUME RemindersInv, TypeOK', tick' = tick, disturbed' = disturbed,
         \A i \in Reminder : fires'[i] \in {0, fires[i]}
  PROVE  RemindersInv'
  <1>1. ASSUME NEW t \in Tick PROVE RoundInv(t)'
    BY DEF RemindersInv, RoundInv
  <1>2. ASSUME NEW i \in Reminder PROVE HandsInv(i)'
    BY DEF RemindersInv, HandsInv, Alone, Taken, Posted
  <1> QED BY <1>1, <1>2 DEF RemindersInv

LEMMA TimesAreInside ==
  ASSUME TypeOK
  PROVE  /\ Times \subseteq 0 .. MaxTime + 1
         /\ nextCronFire(now) \in 0 .. MaxTime + 1
  BY ReminderAssumption DEF TypeOK, Times, nextCronFire

LEMMA ScheduleKeeps ==
  ASSUME RemindersInv, NEW i \in Reminder, NEW k \in {"once", "recurring"}, NEW n \in 0 .. MaxTime + 1,
         Schedule(i, k, n)
  PROVE  RemindersInv'
  <1>1. promise' \in [Reminder -> 0 .. MaxTime + 1 \cup {None}]
    BY DEF RemindersInv, TypeOK, Schedule, Promised
  <1>2. TypeOK'
    BY <1>1 DEF RemindersInv, TypeOK, Schedule
  <1> QED BY <1>2, OthersStep DEF Schedule

LEMMA OwnerKeeps ==
  ASSUME RemindersInv, NEW i \in Reminder, NEW n \in 0 .. MaxTime + 1,
         Snooze(i, n) \/ Update(i, n) \/ Cancel(i)
  PROVE  RemindersInv'
  <1> USE DEF RemindersInv
  <1>1. /\ rows' = rows /\ now' = now /\ kind' = kind /\ tick' = tick /\ disturbed' = disturbed
        /\ next' \in {next, [next EXCEPT ![i] = n]}
        /\ status' \in {status, [status EXCEPT ![i] = "snoozed"], [status EXCEPT ![i] = "cancelled"]}
        /\ fires' = [fires EXCEPT ![i] = 0]
        /\ promise' \in {[promise EXCEPT ![i] = None], [promise EXCEPT ![i] = n]}
    BY DEF Snooze, Update, Cancel, Promised
  <1>2. fires' \in [Reminder -> 0 .. 2] /\ \A j \in Reminder : fires'[j] \in {0, fires[j]}
    BY <1>1 DEF TypeOK
  <1>3. next' \in [Reminder -> 0 .. MaxTime + 1 \cup {None}]
    BY <1>1 DEF TypeOK
  <1>4. status' \in [Reminder -> {"scheduled", "snoozed", "cancelled", "done"}]
    BY <1>1 DEF TypeOK
  <1>5. promise' \in [Reminder -> 0 .. MaxTime + 1 \cup {None}]
    BY <1>1 DEF TypeOK
  <1>6. TypeOK'
    BY <1>1, <1>2, <1>3, <1>4, <1>5 DEF TypeOK
  <1> QED BY <1>1, <1>2, <1>6, OthersStep

LEMMA AdvanceKeeps ==
  ASSUME RemindersInv, Advance
  PROVE  RemindersInv'
  <1>1. TypeOK'
    BY ReminderAssumption DEF RemindersInv, TypeOK, Advance, owned
  <1> QED BY <1>1, OthersStep DEF Advance, owned

\* A round takes reminders up: those another has are disturbed from now on.
LEMMA StartTickKeeps ==
  ASSUME RemindersInv, NEW t \in Tick, StartTick(t)
  PROVE  RemindersInv'
  <1> USE DEF RemindersInv
  <1>0. PICK S \in SUBSET Due(now) :
          /\ \E f \in Follow(S, now) : tick' = [tick EXCEPT ![t] = f]
          /\ disturbed' = disturbed \cup (S \cap UNION {Taken(u) : u \in Tick \ {t}})
    BY DEF StartTick, Snapshots
  <1>1. PICK f \in Follow(S, now) : tick' = [tick EXCEPT ![t] = f]
    BY <1>0
  <1>2. S \in SUBSET Reminder /\ now \in 0 .. MaxTime
    BY DEF Due, TypeOK
  <1>3. /\ f \in Round /\ f.pc # "mark" /\ f.due \cup {f.cur} \subseteq S \cup {None}
        /\ f.pc = "idle" => f = NoRound
        /\ f.pc # "idle" => f.cur \in Reminder \ f.due
    BY <1>2, FollowIsRound
  <1>4. /\ tick' \in [Tick -> Round] /\ \A u \in Tick : RoundInv(u)'
        /\ tick'[t] = f /\ \A u \in Tick \ {t} : tick'[u] = tick[u]
    BY <1>1, <1>3, OneRound
  <1>5. TypeOK'
    BY <1>0, <1>2, <1>4 DEF TypeOK, StartTick, owned
  <1>6. ASSUME NEW i \in Reminder, i \notin disturbed' PROVE Alone(i)'
    <2>1. i \notin disturbed /\ (i \in S => \A u \in Tick \ {t} : i \notin Taken(u))
      BY <1>0, <1>6
    <2>2. Alone(i)
      BY <2>1 DEF HandsInv
    <2>3. \A u \in Tick \ {t} : Taken(u)' = Taken(u)
      BY <1>4 DEF Taken
    <2>4. i \in Taken(t)' => i \in S
      BY <1>3, <1>4, ReminderAssumption DEF Taken
    <2> QED BY <2>1, <2>2, <2>3, <2>4 DEF Alone
  <1>7. ASSUME NEW i \in Reminder, i \notin disturbed', fires'[i] # 0
        PROVE  fires'[i] = 1 /\ \E u \in Tick : Posted(i, u)'
    <2>1. i \notin disturbed /\ fires' = fires
      BY <1>0, <1>7 DEF StartTick, owned
    <2>2. fires[i] = 1 /\ \E u \in Tick : Posted(i, u)
      BY <1>7, <2>1 DEF HandsInv
    <2>3. PICK u \in Tick : Posted(i, u)
      BY <2>2
    <2>4. Posted(i, u)'
      BY <1>4, <2>3 DEF Posted, StartTick
    <2> QED BY <2>1, <2>2, <2>4
  <1> QED BY <1>4, <1>5, <1>6, <1>7 DEF HandsInv

\* The round that posts a reminder nothing disturbed is the only one that has it.
LEMMA FirePostKeeps ==
  ASSUME RemindersInv, NEW t \in Tick, FirePost(t)
  PROVE  RemindersInv'
  <1> USE DEF RemindersInv
  <1> DEFINE i == tick[t].cur
             f == [tick[t] EXCEPT !.pc = "mark"]
             n == IF i \in disturbed \/ fires[i] = 2 THEN fires[i] ELSE fires[i] + 1
  <1>1. /\ i \in Reminder \ tick[t].due /\ tick[t].pc = "post" /\ tick[t] \in Round
        /\ fires' \in {fires, [fires EXCEPT ![i] = n]} /\ disturbed' = disturbed
    BY DEF FirePost, RoundInv, TypeOK
  <1>2. f \in Round /\ f.pc = "mark" /\ f.cur = i /\ f.due = tick[t].due
    BY <1>1 DEF Round
  <1>3. tick' = [tick EXCEPT ![t] = f]
    BY DEF FirePost, TypeOK
  <1> HIDE DEF f
  <1>4. /\ tick' \in [Tick -> Round] /\ \A u \in Tick : RoundInv(u)'
        /\ tick'[t] = f /\ \A u \in Tick \ {t} : tick'[u] = tick[u]
    BY <1>1, <1>2, <1>3, OneRound
  <1>5. TypeOK'
    <2>1. fires[i] \in 0 .. 2
      BY <1>1 DEF TypeOK
    <2>2. n \in 0 .. 2
      BY <2>1
    <2>3. fires' \in [Reminder -> 0 .. 2]
      BY <1>1, <2>2 DEF TypeOK
    <2>4. promise' \in [Reminder -> 0 .. MaxTime + 1 \cup {None}]
      BY <1>1 DEF TypeOK, FirePost
    <2> QED BY <1>4, <2>3, <2>4 DEF TypeOK, FirePost
  <1>6. \A u \in Tick : Taken(u)' = Taken(u)
    BY <1>2, <1>4 DEF Taken
  <1>7. ASSUME NEW j \in Reminder, j \notin disturbed' PROVE Alone(j)'
    BY <1>1, <1>6, <1>7 DEF HandsInv, Alone
  <1>8. ASSUME NEW j \in Reminder, j \notin disturbed', fires'[j] # 0
        PROVE  fires'[j] = 1 /\ \E u \in Tick : Posted(j, u)'
    <2>1. CASE j = i
      <3>1. Posted(j, t)'
        BY <1>2, <1>4, <2>1 DEF Posted
      <3>2. fires[i] = 0
        <4>1. SUFFICES ASSUME fires[i] # 0 PROVE FALSE
          OBVIOUS
        <4>2. PICK u \in Tick : Posted(i, u)
          BY <1>1, <1>8, <2>1, <4>1 DEF HandsInv
        <4>3. i \in Taken(u) /\ i \in Taken(t) /\ Alone(i)
          BY <1>1, <1>8, <2>1, <4>2 DEF HandsInv, Posted, Taken
        <4> QED BY <1>1, <4>2, <4>3 DEF Posted, Alone
      <3>3. fires'[i] = 1
        BY <1>1, <1>8, <2>1, <3>2 DEF TypeOK
      <3> QED BY <2>1, <3>1, <3>3
    <2>2. CASE j # i
      <3>1. fires'[j] = fires[j]
        BY <1>1, <2>2 DEF TypeOK
      <3>2. fires[j] = 1 /\ \E u \in Tick : Posted(j, u)
        BY <1>1, <1>8, <3>1 DEF HandsInv
      <3>3. PICK u \in Tick : Posted(j, u)
        BY <3>2
      <3>4. u # t
        BY <1>1, <3>3 DEF Posted
      <3>5. Posted(j, u)'
        BY <1>4, <3>3, <3>4 DEF Posted
      <3> QED BY <3>1, <3>2, <3>5
    <2> QED BY <2>1, <2>2
  <1> QED BY <1>4, <1>5, <1>7, <1>8 DEF HandsInv

\* A mark starts a new count, and leaves disturbed what another round has.
LEMMA FireMarkKeeps ==
  ASSUME RemindersInv, NEW t \in Tick, FireMark(t)
  PROVE  RemindersInv'
  <1> USE DEF RemindersInv
  <1> DEFINE i == tick[t].cur
  <1>1. /\ i \in Reminder \ tick[t].due /\ tick[t].pc = "mark" /\ tick[t] \in Round
        /\ fires' = [fires EXCEPT ![i] = 0]
        /\ disturbed' = disturbed \ ({i} \ UNION {Taken(u) : u \in Tick \ {t}})
    BY DEF FireMark, RoundInv, TypeOK
  <1>2. PICK f \in Follow(tick[t].due, tick[t].now) : tick' = [tick EXCEPT ![t] = f]
    BY DEF FireMark
  <1>3. tick[t].due \in SUBSET Reminder /\ tick[t].now \in 0 .. MaxTime
    BY <1>1 DEF Round
  <1>4. /\ f \in Round /\ f.pc # "mark" /\ f.due \cup {f.cur} \subseteq tick[t].due \cup {None}
        /\ f.pc = "idle" => f = NoRound
        /\ f.pc # "idle" => f.cur \in Reminder \ f.due
    BY <1>3, FollowIsRound
  <1>5. /\ tick' \in [Tick -> Round] /\ \A u \in Tick : RoundInv(u)'
        /\ tick'[t] = f /\ \A u \in Tick \ {t} : tick'[u] = tick[u]
    BY <1>2, <1>4, OneRound
  <1>6. TypeOK'
    <2>1. fires' \in [Reminder -> 0 .. 2] /\ disturbed' \subseteq Reminder
      BY <1>1 DEF TypeOK
    <2>2. nextCronFire(tick[t].now) \in 0 .. MaxTime + 1
      BY <1>3, ReminderAssumption DEF nextCronFire
    <2>3. next' \in [Reminder -> 0 .. MaxTime + 1 \cup {None}]
      BY <2>2 DEF FireMark, TypeOK
    <2>4. status' \in [Reminder -> {"scheduled", "snoozed", "cancelled", "done"}]
      BY DEF FireMark, TypeOK
    <2>5. promise' \in [Reminder -> 0 .. MaxTime + 1 \cup {None}]
      BY <1>1, <2>2, <2>3 DEF FireMark, TypeOK
    <2> QED BY <1>5, <2>1, <2>3, <2>4, <2>5 DEF TypeOK, FireMark
  <1>7. \A u \in Tick \ {t} : Taken(u)' = Taken(u)
    BY <1>5 DEF Taken
  <1>8. \A j \in Reminder : j \in Taken(t)' => j # i /\ j \in Taken(t)
    BY <1>1, <1>4, <1>5, ReminderAssumption DEF Taken
  <1>9. ASSUME NEW j \in Reminder, j \notin disturbed' PROVE Alone(j)'
    <2>1. CASE j \in disturbed
      <3>1. j = i /\ \A u \in Tick \ {t} : j \notin Taken(u)
        BY <1>1, <1>9, <2>1
      <3> QED BY <1>7, <1>8, <3>1 DEF Alone
    <2>2. CASE j \notin disturbed
      <3>1. Alone(j)
        BY <2>2 DEF HandsInv
      <3> QED BY <1>7, <1>8, <3>1 DEF Alone
    <2> QED BY <2>1, <2>2
  <1>10. ASSUME NEW j \in Reminder, j \notin disturbed', fires'[j] # 0
         PROVE  fires'[j] = 1 /\ \E u \in Tick : Posted(j, u)'
    <2>1. j # i /\ fires'[j] = fires[j] /\ j \notin disturbed
      BY <1>1, <1>10 DEF TypeOK
    <2>2. fires[j] = 1 /\ \E u \in Tick : Posted(j, u)
      BY <1>10, <2>1 DEF HandsInv
    <2>3. PICK u \in Tick : Posted(j, u)
      BY <2>2
    <2>4. u # t
      BY <2>1, <2>3 DEF Posted
    <2>5. Posted(j, u)'
      BY <1>5, <2>3, <2>4 DEF Posted
    <2> QED BY <2>1, <2>2, <2>5
  <1> QED BY <1>5, <1>6, <1>9, <1>10 DEF HandsInv

\* The end of the server disturbs what was posted and not marked.
LEMMA CrashKeeps ==
  ASSUME RemindersInv, Crash
  PROVE  RemindersInv'
  <1> USE DEF RemindersInv
  <1>1. tick' \in [Tick -> Round] /\ \A t \in Tick : tick'[t] = NoRound
    BY ReminderAssumption DEF Crash, NoRound, Round
  <1>2. \A t \in Tick : RoundInv(t)'
    BY <1>1 DEF RoundInv, NoRound
  <1>3. TypeOK'
    <2>1. \A t \in Tick : tick[t].pc = "mark" => tick[t].cur \in Reminder
      BY DEF RoundInv
    <2>2. disturbed' \subseteq Reminder
      BY <2>1 DEF TypeOK, Crash
    <2> QED BY <1>1, <2>2 DEF TypeOK, Crash, owned
  <1>4. ASSUME NEW i \in Reminder, i \notin disturbed' PROVE Alone(i)' /\ fires'[i] = 0
    <2>1. Alone(i)'
      BY <1>1, ReminderAssumption DEF Alone, Taken, NoRound
    <2>2. i \notin disturbed /\ \A t \in Tick : ~Posted(i, t)
      BY <1>4 DEF Crash, Posted
    <2>3. fires[i] = 0
      BY <2>2 DEF HandsInv
    <2> QED BY <2>1, <2>3 DEF Crash, owned
  <1> QED BY <1>2, <1>3, <1>4 DEF HandsInv

\* No call of the owner and no step of a round of the worker breaks the
\* invariant.
THEOREM RemindersInvariance == Spec => []RemindersInv
  <1>1. Init => RemindersInv
    <2> SUFFICES ASSUME Init PROVE RemindersInv
      OBVIOUS
    <2>1. \A t \in Tick : tick[t] = NoRound
      BY DEF Init
    <2>2. TypeOK
      BY ReminderAssumption DEF Init, TypeOK, NoRound, Round
    <2>3. \A t \in Tick : RoundInv(t)
      BY <2>1 DEF RoundInv, NoRound
    <2>4. \A i \in Reminder : HandsInv(i)
      BY <2>1, ReminderAssumption DEF Init, HandsInv, Alone, Taken, NoRound
    <2> QED BY <2>2, <2>3, <2>4 DEF RemindersInv
  <1>2. RemindersInv /\ [Next]_vars => RemindersInv'
    <2> SUFFICES ASSUME RemindersInv, [Next]_vars PROVE RemindersInv'
      OBVIOUS
    <2>1. CASE UNCHANGED vars
      <3>1. TypeOK'
        BY <2>1 DEF RemindersInv, TypeOK, vars
      <3> QED BY <2>1, <3>1, OthersStep DEF vars
    <2>2. ASSUME NEW i \in Reminder, NEW n \in 0 .. MaxTime + 1,
                 Schedule(i, "once", n) \/ Schedule(i, "recurring", n) \/ Snooze(i, n) \/ Update(i, n)
          PROVE  RemindersInv'
      BY <2>2, ScheduleKeeps, OwnerKeeps
    <2>3. ASSUME NEW i \in Reminder, Cancel(i) PROVE RemindersInv'
      <3>1. 0 \in 0 .. MaxTime + 1
        BY ReminderAssumption
      <3> QED BY <2>3, <3>1, OwnerKeeps
    <2>4. ASSUME NEW t \in Tick, Worker(t) PROVE RemindersInv'
      BY <2>4, StartTickKeeps, FirePostKeeps, FireMarkKeeps DEF Worker
    <2> QED BY <2>1, <2>2, <2>3, <2>4, AdvanceKeeps, CrashKeeps DEF Next
  <1> QED BY <1>1, <1>2, PTL DEF Spec

\* What the columns of a reminder and the state of a round may be
\* (reminder-worker.ts:47).
THEOREM RemindersTypeOK == Spec => []TypeOK
  BY RemindersInvariance, PTL DEF RemindersInv

\* A reminder is posted once for each time it was scheduled for, however many
\* rounds the timer starts and whatever the owner does meanwhile, unless two of
\* them had it or the server ended after the post (reminder-worker.ts:57).
THEOREM PostedOnce == Spec => []OncePerSchedule
  <1>1. RemindersInv => OncePerSchedule
    BY DEF RemindersInv, HandsInv, OncePerSchedule, TypeOK
  <1> QED BY <1>1, RemindersInvariance, PTL

-----------------------------------------------------------------------------
(* OrphanSweeper, with a state of its own.                                 *)

\* A round that works on a task has it, and a record to mark if it marks one.
OnTask(c) ==
    /\ c.pc \in {"triage", "flag", "flag.late"} => c.cur \in Task
    /\ c.pc = "flag.late" => c.rec \in Sweeper!Escalation

SweeperTypes == Sweeper!TypeOK /\ \A k \in Tick : OnTask(round[k])

\* What a round c that works on a task knows of it is what the Map m says.
Current(c, m) ==
    /\ c.pc \in {"triage", "flag"} => m[c.cur] = None
    /\ c.pc = "flag.late" => c.rec = m[c.cur] /\ ~c.rec.humanFlagged

\* A round that works on a task nobody contests is the only one, and knows what
\* the Map says.
OnlyRound(t) == \A j, k \in Tick : round[j].cur = t /\ round[k].cur = t => j = k
RoundsKnow == \A k \in Tick : round[k].cur \notin contested => Current(round[k], escalated)

\* The humans were told of t in this life of the server once if the Map says so,
\* else not at all.
Told(t) == escalated[t] # None /\ escalated[t].humanFlagged
Counted(t) == flags[t] <= IF Told(t) THEN 1 ELSE 0

SweeperInv ==
    /\ SweeperTypes
    /\ RoundsKnow
    /\ \A t \in Task \ contested : OnlyRound(t) /\ Counted(t)

\* A step of round k leaves the others where they are, and contests the task it
\* takes up if another is at work on it.
Moved(k) ==
    /\ \A j \in Tick \ {k} : round'[j] = round[j]
    /\ contested \subseteq contested'
    /\ \A j \in Tick \ {k}, t \in Task :
          round'[k].cur = t /\ round[k].cur # t /\ round[j].cur = t => t \in contested'

-----------------------------------------------------------------------------
Cut(f) == [f EXCEPT !.due = @ \ {f.cur}]

\* A round takes up what the Map calls for.
LEMMA FollowKnows ==
  ASSUME Sweeper!ParametersOK,
         NEW m \in [Task -> {None} \cup Sweeper!Escalation], NEW S \in SUBSET Task, NEW n \in Sweeper!Time,
         NEW f \in Sweeper!Follow(m, S, n)
  PROVE  /\ Cut(f) \in Sweeper!Round /\ OnTask(Cut(f)) /\ Current(Cut(f), m)
         /\ Cut(f).cur = f.cur
  <1> DEFINE needy == {t \in S : Sweeper!Need(m, t, n) # "nothing"}
  <1>1. CASE needy = {}
    <2>1. f = Sweeper!NoRound
      BY <1>1 DEF Sweeper!Follow
    <2> QED BY <2>1 DEF Sweeper!NoRound, Sweeper!Round, Sweeper!Time, Sweeper!ParametersOK, Cut, OnTask, Current
  <1>2. CASE needy # {}
    <2>1. f \in {[pc |-> Sweeper!Need(m, t, n), now |-> n, due |-> rest, cur |-> t, rec |-> m[t]] :
                    t \in needy, rest \in {R \in SUBSET S : needy \subseteq R}}
      BY <1>2 DEF Sweeper!Follow
    <2>2. PICK t \in needy, rest \in SUBSET S :
             f = [pc |-> Sweeper!Need(m, t, n), now |-> n, due |-> rest, cur |-> t, rec |-> m[t]]
      BY <2>1
    <2>3. Cut(f) = [pc |-> Sweeper!Need(m, t, n), now |-> n, due |-> rest \ {t}, cur |-> t, rec |-> m[t]]
      BY <2>2 DEF Cut
    <2>4. t \in Task /\ m[t] \in {None} \cup Sweeper!Escalation /\ rest \ {t} \subseteq Task
      OBVIOUS
    <2>5. Cut(f).cur = f.cur
      BY <2>2, <2>3
    <2>6. CASE m[t] = None
      <3>1. Sweeper!Need(m, t, n) = "triage"
        BY <2>6 DEF Sweeper!Need
      <3> QED BY <2>3, <2>4, <2>6, <2>5, <3>1 DEF Sweeper!Round, OnTask, Current
    <2>7. CASE m[t] # None
      <3>1. Sweeper!Need(m, t, n) = "flag.late" /\ Sweeper!Late(m[t], n)
        BY <2>2, <2>7 DEF Sweeper!Need
      <3> QED BY <2>3, <2>4, <2>7, <2>5, <3>1 DEF Sweeper!Round, Sweeper!Late, OnTask, Current
    <2> QED BY <2>6, <2>7
  <1> QED BY <1>1, <1>2

\* A step of the sweeper that gives one round another state c.
LEMMA OneSweep ==
  ASSUME SweeperTypes, NEW k \in Tick, NEW c \in Sweeper!Round, OnTask(c),
         round' = [round EXCEPT ![k] = c]
  PROVE  /\ round' \in [Tick -> Sweeper!Round] /\ (\A j \in Tick : OnTask(round[j]))'
         /\ round'[k] = c /\ \A j \in Tick \ {k} : round'[j] = round[j]
  BY DEF SweeperTypes, Sweeper!TypeOK

LEMMA TakeUpKnows ==
  ASSUME Sweeper!ParametersOK, SweeperTypes, NEW k \in Tick,
         NEW m \in [Task -> {None} \cup Sweeper!Escalation], NEW S \in SUBSET Task,
         Sweeper!TakeUp(k, m, S)
  PROVE  /\ round' \in [Tick -> Sweeper!Round] /\ (\A j \in Tick : OnTask(round[j]))'
         /\ Current(round'[k], m) /\ Moved(k) /\ contested' \subseteq Task
  <1>1. round[k] \in Sweeper!Round /\ contested \subseteq Task
    BY DEF SweeperTypes, Sweeper!TypeOK
  <1>2. round[k].now \in Sweeper!Time
    BY <1>1 DEF Sweeper!Round
  <1>3. PICK f \in Sweeper!Follow(m, S, round[k].now) :
           /\ round' = [round EXCEPT ![k] = Cut(f)]
           /\ contested' = contested \cup
                {t \in Task : f.cur = t /\ \E j \in Tick \ {k} : round[j].cur = t}
    BY DEF Sweeper!TakeUp, Cut
  <1>4. Cut(f) \in Sweeper!Round /\ OnTask(Cut(f)) /\ Current(Cut(f), m) /\ Cut(f).cur = f.cur
    BY <1>2, <1>3, FollowKnows
  <1>5. /\ round' \in [Tick -> Sweeper!Round] /\ (\A j \in Tick : OnTask(round[j]))'
        /\ round'[k] = Cut(f) /\ \A j \in Tick \ {k} : round'[j] = round[j]
    BY <1>3, <1>4, OneSweep
  <1> QED BY <1>1, <1>3, <1>4, <1>5 DEF Moved

LEMMA ProceedKnows ==
  ASSUME Sweeper!ParametersOK, SweeperTypes, NEW k \in Tick, NEW done,
         escalated' \in [Task -> {None} \cup Sweeper!Escalation],
         Sweeper!Proceed(k, escalated', done)
  PROVE  /\ round' \in [Tick -> Sweeper!Round] /\ (\A j \in Tick : OnTask(round[j]))'
         /\ Current(round[k], escalated)' /\ Moved(k) /\ contested' \subseteq Task
  <1>1. round[k] \in Sweeper!Round
    BY DEF SweeperTypes, Sweeper!TypeOK
  <1>2. round[k].due \ {done} \in SUBSET Task
    BY <1>1 DEF Sweeper!Round
  <1>3. Sweeper!TakeUp(k, escalated', round[k].due \ {done})
    BY DEF Sweeper!Proceed
  <1>4. /\ round' \in [Tick -> Sweeper!Round] /\ (\A j \in Tick : OnTask(round[j]))'
        /\ Current(round'[k], escalated') /\ Moved(k) /\ contested' \subseteq Task
    BY <1>2, <1>3, TakeUpKnows
  <1> QED BY <1>4 DEF Current

-----------------------------------------------------------------------------
(* What the steps of a round do to it, to the Map and to the counts.       *)

LEMMA ScanTypes ==
  ASSUME Sweeper!ParametersOK, SweeperTypes, NEW k \in Tick, Sweeper!Scan(k)
  PROVE  SweeperTypes' /\ Moved(k) /\ Current(round[k], escalated)'
  <1>1. escalated \in [Task -> {None} \cup Sweeper!Escalation]
    BY DEF SweeperTypes, Sweeper!TypeOK
  <1>2. PICK S \in SUBSET Task : Sweeper!TakeUp(k, escalated, S)
    BY DEF Sweeper!Scan
  <1>3. /\ round' \in [Tick -> Sweeper!Round] /\ (\A j \in Tick : OnTask(round[j]))'
        /\ Current(round'[k], escalated) /\ Moved(k) /\ contested' \subseteq Task
    BY <1>1, <1>2, TakeUpKnows
  <1>4. Sweeper!TypeOK'
    BY <1>3 DEF SweeperTypes, Sweeper!TypeOK, Sweeper!Scan
  <1> QED BY <1>3, <1>4 DEF SweeperTypes, Current, Sweeper!Scan

LEMMA StartTypes ==
  ASSUME Sweeper!ParametersOK, SweeperTypes, NEW k \in Tick, Sweeper!StartTick(k)
  PROVE  SweeperTypes' /\ Moved(k) /\ Current(round[k], escalated)'
  <1> DEFINE c == [pc |-> "scan", now |-> clock, due |-> {}, cur |-> None, rec |-> None]
  <1>2. c \in Sweeper!Round /\ OnTask(c) /\ Current(c, escalated')
    BY DEF SweeperTypes, Sweeper!TypeOK, Sweeper!Round, OnTask, Current
  <1>3. round' = [round EXCEPT ![k] = c]
    <2> DEFINE d == [Sweeper!NoRound EXCEPT !.pc = "scan"]
    <2>1. d = [pc |-> "scan", now |-> 0, due |-> {}, cur |-> None, rec |-> None]
      BY DEF Sweeper!NoRound
    <2> HIDE DEF d
    <2>2. [d EXCEPT !.now = clock] = c
      BY <2>1
    <2> USE DEF d
    <2>3. [Sweeper!NoRound EXCEPT !.pc = "scan", !.now = clock] = c
      BY <2>2
    <2> QED BY <2>3 DEF Sweeper!StartTick
  <1> HIDE DEF c
  <1>4. /\ round' \in [Tick -> Sweeper!Round] /\ (\A j \in Tick : OnTask(round[j]))'
        /\ round'[k] = c /\ \A j \in Tick \ {k} : round'[j] = round[j]
    BY <1>2, <1>3, OneSweep
  <1>5. Sweeper!TypeOK'
    BY <1>4 DEF SweeperTypes, Sweeper!TypeOK, Sweeper!StartTick
  <1>6. c.cur \notin Task
    BY DEF Sweeper!ParametersOK, c
  <1>7. Moved(k)
    BY <1>4, <1>6 DEF Moved, Sweeper!StartTick
  <1> QED BY <1>2, <1>4, <1>5, <1>7 DEF SweeperTypes, Current

\* A new record is one, and says whether the humans were told.
LEMMA RecordIsOne ==
  ASSUME Sweeper!ParametersOK, SweeperTypes, NEW k \in Tick, NEW t \in Task, NEW b \in BOOLEAN,
         escalated' = Sweeper!Record(k, t, b)
  PROVE  /\ escalated' \in [Task -> {None} \cup Sweeper!Escalation]
         /\ Told(t)' <=> b
         /\ \A u \in Task \ {t} : escalated'[u] = escalated[u]
  <1> DEFINE r == [firstMs |-> round[k].now, by |-> k, humanFlagged |-> b]
  <1>1. round[k] \in Sweeper!Round /\ escalated \in [Task -> {None} \cup Sweeper!Escalation]
    BY DEF SweeperTypes, Sweeper!TypeOK
  <1>2. r \in Sweeper!Escalation
    BY <1>1 DEF Sweeper!Round, Sweeper!Escalation
  <1>3. r # None /\ r.humanFlagged = b
    BY <1>2 DEF Sweeper!ParametersOK
  <1>4. escalated' = [escalated EXCEPT ![t] = r]
    BY DEF Sweeper!Record
  <1> HIDE DEF r
  <1> QED BY <1>1, <1>2, <1>3, <1>4 DEF Told

\* The task is counted once more, within what the history counts.
LEMMA FlagHumanCounts ==
  ASSUME SweeperTypes, NEW t \in Task, Sweeper!FlagHuman(t)
  PROVE  /\ flags' \in [Task -> 0 .. 2]
         /\ flags'[t] <= flags[t] + 1 /\ \A u \in Task \ {t} : flags'[u] = flags[u]
  <1>1. flags \in [Task -> 0 .. 2] /\ flags[t] \in 0 .. 2
    BY DEF SweeperTypes, Sweeper!TypeOK
  <1>2. flags' = [flags EXCEPT ![t] = Sweeper!Smaller(flags[t] + 1, 2)]
    BY DEF Sweeper!FlagHuman
  <1>3. Sweeper!Smaller(flags[t] + 1, 2) \in 0 .. 2 /\ Sweeper!Smaller(flags[t] + 1, 2) <= flags[t] + 1
    BY <1>1 DEF Sweeper!Smaller
  <1> QED BY <1>1, <1>2, <1>3

LEMMA TriageTypes ==
  ASSUME Sweeper!ParametersOK, SweeperTypes, NEW k \in Tick, Sweeper!Triage(k)
  PROVE  /\ SweeperTypes' /\ Moved(k)
         /\ \/ Current(round[k], escalated)'
            \/ /\ round'[k].cur = round[k].cur
               /\ Current(round[k], escalated) => Current(round[k], escalated)'
  <1> DEFINE t == round[k].cur
  <1>1. t \in Task /\ round[k] \in Sweeper!Round
    BY DEF SweeperTypes, OnTask, Sweeper!TypeOK, Sweeper!Triage
  <1>2. CASE escalated' = Sweeper!Record(k, t, FALSE)
             /\ handled' = [handled EXCEPT ![t] = TRUE] /\ Sweeper!Proceed(k, escalated', t)
    <2>1. escalated' \in [Task -> {None} \cup Sweeper!Escalation]
      BY <1>1, <1>2, RecordIsOne
    <2>2. /\ round' \in [Tick -> Sweeper!Round] /\ (\A j \in Tick : OnTask(round[j]))'
          /\ Current(round[k], escalated)' /\ Moved(k) /\ contested' \subseteq Task
      BY <1>2, <2>1, ProceedKnows
    <2>3. Sweeper!TypeOK'
      BY <1>2, <2>1, <2>2 DEF SweeperTypes, Sweeper!TypeOK, Sweeper!Triage
    <2> QED BY <2>2, <2>3 DEF SweeperTypes
  <1>3. CASE round' = [round EXCEPT ![k].pc = "flag"] /\ UNCHANGED <<escalated, contested, handled>>
    <2> DEFINE c == [round[k] EXCEPT !.pc = "flag"]
    <2>1. c \in Sweeper!Round /\ OnTask(c) /\ c.pc = "flag" /\ c.cur = t
      BY <1>1 DEF Sweeper!Round, OnTask
    <2>2. round' = [round EXCEPT ![k] = c]
      BY <1>3 DEF SweeperTypes, Sweeper!TypeOK
    <2> HIDE DEF c
    <2>3. /\ round' \in [Tick -> Sweeper!Round] /\ (\A j \in Tick : OnTask(round[j]))'
          /\ round'[k] = c /\ \A j \in Tick \ {k} : round'[j] = round[j]
      BY <2>1, <2>2, OneSweep
    <2>4. Sweeper!TypeOK'
      BY <1>3, <2>3 DEF SweeperTypes, Sweeper!TypeOK, Sweeper!Triage
    <2>5. round[k].cur = t /\ round'[k].cur = t
      BY <2>1, <2>3
    <2>6. Moved(k)
      BY <1>3, <2>3, <2>5 DEF Moved
    <2> QED BY <1>3, <2>1, <2>3, <2>4, <2>6 DEF SweeperTypes, Current, Sweeper!Triage
  <1> QED BY <1>2, <1>3 DEF Sweeper!Triage

LEMMA FlagTypes ==
  ASSUME Sweeper!ParametersOK, SweeperTypes, NEW k \in Tick, Sweeper!Flag(k)
  PROVE  SweeperTypes' /\ Moved(k) /\ Current(round[k], escalated)'
  <1> DEFINE t == round[k].cur
  <1>1. t \in Task
    BY DEF SweeperTypes, OnTask, Sweeper!Flag
  <1>2. /\ escalated' = Sweeper!Record(k, t, TRUE) /\ Sweeper!FlagHuman(t)
        /\ handled' = [handled EXCEPT ![t] = TRUE] /\ Sweeper!Proceed(k, escalated', t)
    BY DEF Sweeper!Flag
  <1>3. escalated' \in [Task -> {None} \cup Sweeper!Escalation] /\ flags' \in [Task -> 0 .. 2]
    BY <1>1, <1>2, RecordIsOne, FlagHumanCounts
  <1>4. /\ round' \in [Tick -> Sweeper!Round] /\ (\A j \in Tick : OnTask(round[j]))'
        /\ Current(round[k], escalated)' /\ Moved(k) /\ contested' \subseteq Task
    BY <1>2, <1>3, ProceedKnows
  <1>5. Sweeper!TypeOK'
    BY <1>2, <1>3, <1>4 DEF SweeperTypes, Sweeper!TypeOK, Sweeper!Flag
  <1> QED BY <1>4, <1>5 DEF SweeperTypes

\* The mark goes to the record that the round has read, if it is still there.
LEMMA MarkedIsOne ==
  ASSUME Sweeper!ParametersOK, SweeperTypes, NEW k \in Tick, NEW t \in Task,
         round[k].rec \in Sweeper!Escalation, escalated' = Sweeper!Marked(k, t)
  PROVE  /\ escalated' \in [Task -> {None} \cup Sweeper!Escalation]
         /\ \A u \in Task \ {t} : escalated'[u] = escalated[u]
         /\ round[k].rec = escalated[t] => Told(t)'
  <1>1. escalated \in [Task -> {None} \cup Sweeper!Escalation]
    BY DEF SweeperTypes, Sweeper!TypeOK
  <1>2. CASE escalated[t] = round[k].rec
    <2> DEFINE r == [round[k].rec EXCEPT !.humanFlagged = TRUE]
    <2>1. r \in Sweeper!Escalation /\ r.humanFlagged
      BY DEF Sweeper!Escalation
    <2>2. escalated' = [escalated EXCEPT ![t] = r]
      BY <1>1, <1>2 DEF Sweeper!Marked
    <2> HIDE DEF r
    <2>3. r # None
      BY <2>1 DEF Sweeper!ParametersOK
    <2> QED BY <1>1, <2>1, <2>2, <2>3 DEF Told
  <1>3. CASE escalated[t] # round[k].rec
    BY <1>1, <1>3 DEF Sweeper!Marked
  <1> QED BY <1>2, <1>3

LEMMA FlagLateTypes ==
  ASSUME Sweeper!ParametersOK, SweeperTypes, NEW k \in Tick, Sweeper!FlagLate(k)
  PROVE  SweeperTypes' /\ Moved(k) /\ Current(round[k], escalated)'
  <1> DEFINE t == round[k].cur
  <1>1. t \in Task /\ round[k].rec \in Sweeper!Escalation
    BY DEF SweeperTypes, OnTask, Sweeper!FlagLate
  <1>2. /\ escalated' = Sweeper!Marked(k, t) /\ Sweeper!FlagHuman(t)
        /\ handled' = [handled EXCEPT ![t] = TRUE] /\ Sweeper!Proceed(k, escalated', t)
    BY DEF Sweeper!FlagLate
  <1>3. escalated' \in [Task -> {None} \cup Sweeper!Escalation] /\ flags' \in [Task -> 0 .. 2]
    BY <1>1, <1>2, MarkedIsOne, FlagHumanCounts
  <1>4. /\ round' \in [Tick -> Sweeper!Round] /\ (\A j \in Tick : OnTask(round[j]))'
        /\ Current(round[k], escalated)' /\ Moved(k) /\ contested' \subseteq Task
    BY <1>2, <1>3, ProceedKnows
  <1>5. Sweeper!TypeOK'
    BY <1>2, <1>3, <1>4 DEF SweeperTypes, Sweeper!TypeOK, Sweeper!FlagLate
  <1> QED BY <1>4, <1>5 DEF SweeperTypes

LEMMA CrashKeepsSweeper ==
  ASSUME Sweeper!ParametersOK, SweeperTypes, Sweeper!Crash
  PROVE  SweeperInv'
  <1>1. Sweeper!NoRound \in Sweeper!Round /\ OnTask(Sweeper!NoRound) /\ Sweeper!NoRound.pc = "idle"
    BY DEF Sweeper!ParametersOK, Sweeper!NoRound, Sweeper!Round, Sweeper!Time, OnTask
  <1>2. /\ round' \in [Tick -> Sweeper!Round] /\ (\A j \in Tick : OnTask(round[j]))'
        /\ \A j \in Tick : round'[j].pc = "idle"
    BY <1>1 DEF Sweeper!Crash
  <1>3. crashes' \in 0 .. MaxCrash
    BY DEF SweeperTypes, Sweeper!TypeOK, Sweeper!Crash, Sweeper!ParametersOK
  <1>4. Sweeper!TypeOK'
    BY <1>2, <1>3 DEF SweeperTypes, Sweeper!TypeOK, Sweeper!Crash
  <1>5. RoundsKnow'
    BY <1>2 DEF RoundsKnow, Current
  <1>6. \A t \in Task : OnlyRound(t)' /\ Counted(t)'
    <2>1. \A j \in Tick : round'[j].cur = None
      BY DEF Sweeper!Crash, Sweeper!NoRound
    <2>2. \A t \in Task : OnlyRound(t)'
      BY <2>1 DEF OnlyRound, Sweeper!ParametersOK
    <2>3. \A t \in Task : flags'[t] = 0 /\ ~Told(t)'
      BY DEF Sweeper!Crash, Told
    <2> QED BY <2>2, <2>3 DEF Counted
  <1> QED BY <1>2, <1>4, <1>5, <1>6 DEF SweeperInv, SweeperTypes

\* The other actors leave the rounds and the Map alone.
Elsewhere ==
    \/ \E t \in Task : Sweeper!Create(t) \/ Sweeper!Claim(t) \/ Sweeper!Release(t)
    \/ Sweeper!Advance
    \/ UNCHANGED Sweeper!vars

LEMMA ElsewhereTypes ==
  ASSUME Sweeper!ParametersOK, SweeperTypes, Elsewhere
  PROVE  /\ SweeperTypes'
         /\ round' = round /\ escalated' = escalated /\ flags' = flags /\ contested' = contested
  <1>1. round' = round /\ escalated' = escalated /\ flags' = flags /\ contested' = contested
    BY DEF Elsewhere, Sweeper!Create, Sweeper!Claim, Sweeper!Release, Sweeper!Advance, Sweeper!vars
  <1>2. Sweeper!TypeOK'
    <2> USE DEF SweeperTypes, Sweeper!TypeOK
    <2>1. CASE \E t \in Task : Sweeper!Create(t) \/ Sweeper!Claim(t) \/ Sweeper!Release(t)
      BY <2>1 DEF Sweeper!Create, Sweeper!Claim, Sweeper!Release
    <2>2. CASE Sweeper!Advance
      BY <2>2 DEF Sweeper!Advance, Sweeper!Time, Sweeper!ParametersOK
    <2>3. CASE UNCHANGED Sweeper!vars
      BY <2>3 DEF Sweeper!vars
    <2> QED BY <2>1, <2>2, <2>3 DEF Elsewhere
  <1> QED BY <1>1, <1>2 DEF SweeperTypes

LEMMA SweeperInit ==
  ASSUME Sweeper!ParametersOK, Sweeper!Init
  PROVE  SweeperInv
  <1>1. Sweeper!NoRound \in Sweeper!Round /\ OnTask(Sweeper!NoRound) /\ Sweeper!NoRound.pc = "idle"
    BY DEF Sweeper!ParametersOK, Sweeper!NoRound, Sweeper!Round, Sweeper!Time, OnTask
  <1>2. Sweeper!TypeOK
    BY <1>1 DEF Sweeper!Init, Sweeper!TypeOK, Sweeper!ParametersOK, Sweeper!Time
  <1>3. \A t \in Task : OnlyRound(t) /\ Counted(t)
    BY DEF Sweeper!Init, Sweeper!NoRound, Sweeper!ParametersOK, OnlyRound, Counted, Told
  <1> QED BY <1>1, <1>2, <1>3 DEF SweeperInv, SweeperTypes, RoundsKnow, Current, Sweeper!Init

\* What the Map and the state of a round may be, however many rounds overlap
\* (orphan-sweeper.ts:39).
THEOREM SweeperTypeOK == Sweeper!Spec => []Sweeper!TypeOK
  <1>1. Sweeper!Init => SweeperTypes
    BY SweeperInit, SweepAssumption DEF SweeperInv
  <1>2. SweeperTypes /\ [Sweeper!Next]_(Sweeper!vars) => SweeperTypes'
    <2> SUFFICES ASSUME SweeperTypes, [Sweeper!Next]_(Sweeper!vars) PROVE SweeperTypes'
      OBVIOUS
    <2>1. ASSUME NEW k \in Tick, Sweeper!Worker(k) PROVE SweeperTypes'
      BY <2>1, StartTypes, ScanTypes, TriageTypes, FlagTypes, FlagLateTypes, SweepAssumption DEF Sweeper!Worker
    <2>2. CASE Sweeper!Crash
      BY <2>2, CrashKeepsSweeper, SweepAssumption DEF SweeperInv
    <2> QED BY <2>1, <2>2, ElsewhereTypes, SweepAssumption DEF Sweeper!Next, Elsewhere
  <1>3. SweeperTypes => Sweeper!TypeOK
    BY DEF SweeperTypes
  <1> QED BY <1>1, <1>2, <1>3, PTL DEF Sweeper!Spec

-----------------------------------------------------------------------------
\* What a step of round k does to the Map and to the counts: nothing, or, to the
\* task it has in hand, what Told says.
LEMMA WorkerActs ==
  ASSUME Sweeper!ParametersOK, SweeperTypes, NEW k \in Tick, Sweeper!Worker(k)
  PROVE  \/ escalated' = escalated /\ flags' = flags
         \/ \E t \in Task :
               /\ t = round[k].cur
               /\ \A u \in Task \ {t} : escalated'[u] = escalated[u] /\ flags'[u] = flags[u]
               /\ Current(round[k], escalated) =>
                    /\ ~Told(t)
                    /\ \/ ~Told(t)' /\ flags'[t] = flags[t]
                       \/ Told(t)' /\ flags'[t] <= flags[t] + 1
  <1>1. CASE escalated' = escalated /\ flags' = flags
    BY <1>1
  <1>2. CASE Sweeper!Triage(k) /\ escalated' = Sweeper!Record(k, round[k].cur, FALSE)
    <2>1. PICK t \in Task : t = round[k].cur
      BY <1>2 DEF SweeperTypes, OnTask, Sweeper!Triage
    <2>2. flags' = flags /\ (Current(round[k], escalated) => ~Told(t))
      BY <1>2, <2>1 DEF Current, Told, Sweeper!Triage
    <2>3. ~Told(t)' /\ \A u \in Task \ {t} : escalated'[u] = escalated[u]
      BY <1>2, <2>1, RecordIsOne
    <2> QED BY <2>1, <2>2, <2>3
  <1>3. CASE Sweeper!Flag(k) \/ Sweeper!FlagLate(k)
    <2>1. PICK t \in Task : t = round[k].cur
      BY <1>3 DEF SweeperTypes, OnTask, Sweeper!Flag, Sweeper!FlagLate
    <2>2. flags'[t] <= flags[t] + 1 /\ \A u \in Task \ {t} : flags'[u] = flags[u]
      BY <1>3, <2>1, FlagHumanCounts DEF Sweeper!Flag, Sweeper!FlagLate
    <2>3. CASE Sweeper!Flag(k)
      <3>1. escalated' = Sweeper!Record(k, t, TRUE)
        BY <2>1, <2>3 DEF Sweeper!Flag
      <3>2. Told(t)' /\ \A u \in Task \ {t} : escalated'[u] = escalated[u]
        BY <3>1, RecordIsOne
      <3>3. Current(round[k], escalated) => ~Told(t)
        BY <2>1, <2>3 DEF Current, Told, Sweeper!Flag
      <3> QED BY <2>1, <2>2, <3>2, <3>3
    <2>4. CASE Sweeper!FlagLate(k)
      <3>1. escalated' = Sweeper!Marked(k, t) /\ round[k].rec \in Sweeper!Escalation
        BY <2>1, <2>4 DEF SweeperTypes, OnTask, Sweeper!FlagLate
      <3>2. /\ \A u \in Task \ {t} : escalated'[u] = escalated[u]
            /\ round[k].rec = escalated[t] => Told(t)'
        BY <3>1, MarkedIsOne
      <3>3. Current(round[k], escalated) => round[k].rec = escalated[t] /\ ~Told(t)
        BY <2>1, <2>4 DEF Current, Told, Sweeper!FlagLate
      <3> QED BY <2>1, <2>2, <3>2, <3>3
    <2> QED BY <1>3, <2>3, <2>4
  <1> QED BY <1>1, <1>2, <1>3
             DEF Sweeper!Worker, Sweeper!StartTick, Sweeper!Scan, Sweeper!Triage

LEMMA WorkerMoves ==
  ASSUME Sweeper!ParametersOK, SweeperTypes, NEW k \in Tick, Sweeper!Worker(k)
  PROVE  /\ SweeperTypes' /\ Moved(k)
         /\ \/ Current(round[k], escalated)'
            \/ /\ round'[k].cur = round[k].cur
               /\ Current(round[k], escalated) => Current(round[k], escalated)'
  BY StartTypes, ScanTypes, TriageTypes, FlagTypes, FlagLateTypes DEF Sweeper!Worker

\* A round that is alone with its task finds the Map as it read it.
LEMMA WorkerKeepsSweeper ==
  ASSUME Sweeper!ParametersOK, SweeperInv, NEW k \in Tick, Sweeper!Worker(k)
  PROVE  SweeperInv'
  <1>1. SweeperTypes /\ SweeperTypes' /\ Moved(k)
    BY WorkerMoves DEF SweeperInv
  <1>2. \/ escalated' = escalated /\ flags' = flags
        \/ \E t \in Task :
              /\ t = round[k].cur
              /\ \A u \in Task \ {t} : escalated'[u] = escalated[u] /\ flags'[u] = flags[u]
              /\ Current(round[k], escalated) =>
                   /\ ~Told(t)
                   /\ \/ ~Told(t)' /\ flags'[t] = flags[t]
                      \/ Told(t)' /\ flags'[t] <= flags[t] + 1
    BY <1>1, WorkerActs
  <1>3. \A t \in Task : flags[t] \in Nat /\ flags'[t] \in Nat
    <2>1. flags \in [Task -> 0 .. 2] /\ flags' \in [Task -> 0 .. 2]
      BY <1>1 DEF SweeperTypes, Sweeper!TypeOK
    <2> QED BY <2>1
  <1>4. ASSUME NEW j \in Tick, round'[j].cur \notin contested' PROVE Current(round[j], escalated)'
    <2>1. round[j].cur \notin contested => Current(round[j], escalated)
      BY DEF SweeperInv, RoundsKnow
    <2>2. CASE j = k
      BY <1>1, <1>4, <2>1, <2>2, WorkerMoves DEF Moved
    <2>3. CASE j # k
      <3>1. round'[j] = round[j] /\ round[j].cur \notin contested /\ Current(round[j], escalated)
        BY <1>1, <1>4, <2>1, <2>3 DEF Moved
      <3>2. CASE round[j].cur \in Task
        <4>1. round[k].cur # round[j].cur
          BY <2>3, <3>1, <3>2 DEF SweeperInv, OnlyRound
        <4>2. escalated'[round[j].cur] = escalated[round[j].cur]
          BY <1>2, <3>2, <4>1
        <4> QED BY <3>1, <4>2 DEF Current
      <3>3. CASE round[j].cur \notin Task
        BY <1>1, <3>1, <3>3 DEF SweeperTypes, OnTask, Current
      <3> QED BY <3>2, <3>3
    <2> QED BY <2>2, <2>3
  <1>5. ASSUME NEW t \in Task, t \notin contested' PROVE OnlyRound(t)' /\ Counted(t)'
    <2>1. t \notin contested /\ OnlyRound(t) /\ Counted(t)
      BY <1>1, <1>5 DEF Moved, SweeperInv
    <2>2. OnlyRound(t)'
      BY <1>1, <1>5, <2>1 DEF Moved, OnlyRound
    <2>3. Counted(t)'
      <3>1. CASE escalated' = escalated /\ flags' = flags
        BY <2>1, <3>1 DEF Counted, Told
      <3>2. CASE /\ round[k].cur = t /\ ~Told(t) /\ flags'[t] <= flags[t] + 1
                 /\ ~Told(t)' => flags'[t] = flags[t]
        BY <1>3, <2>1, <3>2 DEF Counted
      <3>3. CASE escalated'[t] = escalated[t] /\ flags'[t] = flags[t]
        BY <2>1, <3>3 DEF Counted, Told
      <3>4. round[k].cur = t => Current(round[k], escalated)
        BY <2>1 DEF SweeperInv, RoundsKnow
      <3>5. CASE round[k].cur = t
        BY <1>2, <1>3, <3>1, <3>2, <3>4, <3>5
      <3>6. CASE round[k].cur # t
        BY <1>2, <3>1, <3>3, <3>6
      <3> QED BY <3>5, <3>6
    <2> QED BY <2>2, <2>3
  <1> QED BY <1>1, <1>4, <1>5 DEF SweeperInv, RoundsKnow

\* No step of the sweeper or of those it sweeps breaks its invariant, however
\* many rounds overlap.
THEOREM SweeperInvariance == Sweeper!Spec => []SweeperInv
  <1>1. Sweeper!Init => SweeperInv
    BY SweeperInit, SweepAssumption
  <1>2. SweeperInv /\ [Sweeper!Next]_(Sweeper!vars) => SweeperInv'
    <2> SUFFICES ASSUME SweeperInv, [Sweeper!Next]_(Sweeper!vars) PROVE SweeperInv'
      OBVIOUS
    <2>1. ASSUME NEW k \in Tick, Sweeper!Worker(k) PROVE SweeperInv'
      BY <2>1, WorkerKeepsSweeper, SweepAssumption
    <2>2. CASE Sweeper!Crash
      BY <2>2, CrashKeepsSweeper, SweepAssumption DEF SweeperInv
    <2>3. CASE Elsewhere
      <3>1. /\ SweeperTypes' /\ round' = round /\ escalated' = escalated
            /\ flags' = flags /\ contested' = contested
        BY <2>3, ElsewhereTypes, SweepAssumption DEF SweeperInv
      <3>2. RoundsKnow'
        BY <3>1 DEF SweeperInv, RoundsKnow
      <3>3. \A t \in Task \ contested' : OnlyRound(t)' /\ Counted(t)'
        BY <3>1 DEF SweeperInv, OnlyRound, Counted, Told
      <3> QED BY <3>1, <3>2, <3>3 DEF SweeperInv
    <2> QED BY <2>1, <2>2, <2>3 DEF Sweeper!Next, Elsewhere
  <1> QED BY <1>1, <1>2, PTL DEF Sweeper!Spec

\* In a life of the server the humans hear of a task at most once, whatever
\* rounds overlap, but for one that two of them worked on at the same time
\* (orphan-sweeper.ts:8).
THEOREM ToldOncePerLife == Sweeper!Spec => []AtMostOncePerLife
  <1>1. SweeperInv => AtMostOncePerLife
    <2> SUFFICES ASSUME SweeperInv, NEW t \in Task \ contested PROVE flags[t] <= 1
      BY DEF AtMostOncePerLife, Sweeper!AtMostOncePerLife
    <2>1. flags \in [Task -> 0 .. 2] /\ Counted(t)
      BY DEF SweeperInv, SweeperTypes, Sweeper!TypeOK
    <2>2. flags[t] \in 0 .. 2
      BY <2>1
    <2> QED BY <2>1, <2>2 DEF Counted
  <1> QED BY <1>1, SweeperInvariance, PTL
=============================================================================
