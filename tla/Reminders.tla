----------------------------- MODULE Reminders -----------------------------
(***************************************************************************)
(* Reminders: server/src/services/reminder.service.ts, the calls of the    *)
(* owners, and reminder-worker.ts, which every 30 seconds scans for what   *)
(* is due and fires it, over repo/pg/reminder.repo.ts.                     *)
(*                                                                         *)
(* A tick works through a snapshot, one awaited call after another; the    *)
(* owner's calls, the next tick of the timer and the end of the server may *)
(* come between any two.  An owner's call is one step: the SELECT before   *)
(* its UPDATE looks only at the owner, which never changes.  A call that   *)
(* throws inside a tick is an unhandled rejection, which ends the process: *)
(* Crash stands for it too.                                                *)
(***************************************************************************)
EXTENDS Naturals, FiniteSets

CONSTANTS Reminder, Tick, None,
          Anchored,   \* the reminders scheduled with a channel, which none loses later
          MaxTime,    \* bound: the clock
          Batch       \* the reminders a tick takes

ASSUME ReminderAssumption ==
    None \notin Reminder /\ Anchored \subseteq Reminder /\ MaxTime \in Nat

VARIABLES now,      \* the clock
          rows,     \* the reminders that exist
          kind,     \* once or recurring, fixed when scheduled
          next,     \* next_fire_at
          status,
          tick,     \* the rounds of the worker in progress
          fires,    \* history: posts for the current time, at most 2 counted
          promise,  \* history: the time set for it that is neither posted nor taken off
          disturbed \* history, until the next mark: in the hands of two rounds, or
                    \* lost with the server between its post and its mark

owned == <<rows, kind, next, status, fires, promise>>
vars == <<now, rows, kind, next, status, tick, fires, promise, disturbed>>

Round == [pc  : {"idle", "post", "mark"},
          now : 0 .. MaxTime,          \* read once, when the round starts
          due : SUBSET Reminder,       \* the snapshot, what is left of it
          cur : Reminder \cup {None}]

NoRound == [pc |-> "idle", now |-> 0, due |-> {}, cur |-> None]

TypeOK ==
    /\ now \in 0 .. MaxTime
    /\ rows \subseteq Reminder
    /\ kind \in [Reminder -> {"once", "recurring"}]
    /\ next \in [Reminder -> 0 .. MaxTime + 1 \cup {None}]
    /\ status \in [Reminder -> {"scheduled", "snoozed", "cancelled", "done"}]
    /\ tick \in [Tick -> Round]
    /\ fires \in [Reminder -> 0 .. 2]
    /\ promise \in [Reminder -> 0 .. MaxTime + 1 \cup {None}]
    /\ disturbed \subseteq Reminder

Init ==
    /\ now = 0
    /\ rows = {}
    /\ kind = [i \in Reminder |-> "once"]
    /\ next = [i \in Reminder |-> None]
    /\ status = [i \in Reminder |-> "scheduled"]
    /\ tick = [t \in Tick |-> NoRound]
    /\ fires = [i \in Reminder |-> 0]
    /\ promise = [i \in Reminder |-> None]
    /\ disturbed = {}

\* The first time of the cron expression after t: every minute, say.
nextCronFire(t) == t + 1

\* The WHERE of dueAcrossWorkspaces.
IsDue(i, t) ==
    i \in rows /\ status[i] \in {"scheduled", "snoozed"} /\ next[i] # None /\ next[i] <= t

Due(t) == {i \in Reminder : IsDue(i, t)}

\* The times an owner can ask for: now or later (at may be in the past, which
\* is due at once as well).
Times == now .. MaxTime

\* The reminders a round has in hand.
Taken(t) == tick[t].due \cup {tick[t].cur}
InHand(i) == \E t \in Tick : i \in Taken(t)

\* A time its owner gives a reminder is promised, but for one that a round has
\* in hand: its mark will put another time there (SnoozeHolds below).
Promised(i, n) == promise' = [promise EXCEPT ![i] = IF InHand(i) THEN None ELSE n]

-----------------------------------------------------------------------------
\* resolveSchedule: at and in give a reminder that fires once, cron a
\* recurring one.
Schedule(i, k, n) ==
    /\ i \notin rows
    /\ IF k = "recurring" THEN n = nextCronFire(now) ELSE n \in Times
    /\ rows' = rows \cup {i}
    /\ kind' = [kind EXCEPT ![i] = k]
    /\ next' = [next EXCEPT ![i] = n]
    /\ Promised(i, n)
    /\ UNCHANGED <<now, status, tick, fires, disturbed>>

\* A new time starts a new count.
Snooze(i, n) ==
    /\ i \in rows
    /\ n \in Times
    /\ next' = [next EXCEPT ![i] = n]
    /\ status' = [status EXCEPT ![i] = "snoozed"]
    /\ fires' = [fires EXCEPT ![i] = 0]
    /\ Promised(i, n)
    /\ UNCHANGED <<now, rows, kind, tick, disturbed>>

\* update with a time or with cron: the status and the kind stay what they are,
\* so a reminder that fires once still does when it is given a cron expression,
\* and one that is cancelled or done is promised nothing.
Update(i, n) ==
    /\ i \in rows
    /\ n \in Times \cup {nextCronFire(now)}
    /\ next' = [next EXCEPT ![i] = n]
    /\ fires' = [fires EXCEPT ![i] = 0]
    /\ Promised(i, IF status[i] \in {"scheduled", "snoozed"} THEN n ELSE None)
    /\ UNCHANGED <<now, rows, kind, status, tick, disturbed>>

Cancel(i) ==
    /\ i \in rows
    /\ status' = [status EXCEPT ![i] = "cancelled"]
    /\ fires' = [fires EXCEPT ![i] = 0]
    /\ Promised(i, None)
    /\ UNCHANGED <<now, rows, kind, next, tick, disturbed>>

-----------------------------------------------------------------------------
\* The worker takes the next reminder of the snapshot, or the round ends.
Follow(due, t) == IF due = {} THEN {NoRound}
                  ELSE {[pc |-> "post", now |-> t, due |-> due \ {i}, cur |-> i] : i \in due}

\* The timer starts a round, whether or not the last one has ended.  Rows come
\* in no order, so any Batch of those due may be taken.
\* Mutant: what is taken is taken off the list before it is posted.
Snapshots == {S \in SUBSET Due(now) :
    Cardinality(S) = IF Cardinality(Due(now)) < Batch THEN Cardinality(Due(now)) ELSE Batch}
StartTickTakes(t) ==
    /\ tick[t].pc = "idle"
    /\ Due(now) # {}
    /\ \E S \in Snapshots :
        /\ \E f \in Follow(S, now) : tick' = [tick EXCEPT ![t] = f]
        /\ next' = [i \in Reminder |-> IF i \in S THEN None ELSE next[i]]
        /\ disturbed' = disturbed \cup (S \cap UNION {Taken(u) : u \in Tick \ {t}})
    /\ UNCHANGED <<now, rows, kind, status, fires, promise>>
StartTick(t) ==
    /\ tick[t].pc = "idle"
    /\ Due(now) # {}
    /\ \E S \in Snapshots :
        /\ \E f \in Follow(S, now) : tick' = [tick EXCEPT ![t] = f]
        /\ disturbed' = disturbed \cup (S \cap UNION {Taken(u) : u \in Tick \ {t}})
    /\ UNCHANGED <<now, owned>>

\* messages.append into the anchor channel, if there is one: without it nothing
\* is posted and nobody woken.  The event log and the wake change nothing here.
FirePost(t) ==
    LET i == tick[t].cur IN
    /\ tick[t].pc = "post"
    /\ IF i \in Anchored
       THEN /\ fires' = [fires EXCEPT ![i] = IF i \in disturbed \/ @ = 2 THEN @ ELSE @ + 1]
            /\ promise' = [promise EXCEPT ![i] = IF @ # None /\ @ <= tick[t].now THEN None ELSE @]
       ELSE UNCHANGED <<fires, promise>>
    /\ tick' = [tick EXCEPT ![t].pc = "mark"]
    /\ UNCHANGED <<now, rows, kind, next, status, disturbed>>

\* markFired: UPDATE by id alone.  The cron's next time is promised as well,
\* unless another round will mark it again; a promise not kept is left as it is.
\* Mutant: the row is left as it is.
FireMarkForgets(t) ==
    /\ tick[t].pc = "mark"
    /\ \E f \in Follow(tick[t].due, tick[t].now) : tick' = [tick EXCEPT ![t] = f]
    /\ UNCHANGED <<now, owned, disturbed>>
FireMark(t) ==
    LET i == tick[t].cur
        again == kind[i] = "recurring"
        another == \E u \in Tick \ {t} : i \in Taken(u) IN
    /\ tick[t].pc = "mark"
    /\ next' = [next EXCEPT ![i] = IF again THEN nextCronFire(tick[t].now) ELSE None]
    /\ status' = [status EXCEPT ![i] = IF again THEN "scheduled" ELSE "done"]
    /\ fires' = [fires EXCEPT ![i] = 0]
    /\ promise' = [promise EXCEPT ![i] = IF again /\ @ = None /\ ~another THEN next'[i] ELSE @]
    /\ disturbed' = disturbed \ ({i} \ UNION {Taken(u) : u \in Tick \ {t}})
    /\ \E f \in Follow(tick[t].due, tick[t].now) : tick' = [tick EXCEPT ![t] = f]
    /\ UNCHANGED <<now, rows, kind>>

Advance ==
    /\ now < MaxTime
    /\ now' = now + 1
    /\ UNCHANGED <<owned, tick, disturbed>>

\* The server ends and is started again.
Crash ==
    /\ tick' = [t \in Tick |-> NoRound]
    /\ disturbed' = disturbed \cup {tick[t].cur : t \in {u \in Tick : tick[u].pc = "mark"}}
    /\ UNCHANGED <<now, owned>>

Worker(t) == StartTick(t) \/ FirePost(t) \/ FireMark(t)

Next ==
    \/ \E i \in Reminder :
        \/ \E n \in 0 .. MaxTime + 1 :
            Schedule(i, "once", n) \/ Schedule(i, "recurring", n) \/ Snooze(i, n) \/ Update(i, n)
        \/ Cancel(i)
    \/ \E t \in Tick : Worker(t)
    \/ Advance
    \/ Crash

\* The timer goes on and database calls return.  Some round goes on is enough:
\* one whose call never returns may stay where it is.  The server may end any
\* number of times, and stays up in the end.
Spec == Init /\ [][Next]_vars
Fairness == WF_vars(\E t \in Tick : Worker(t)) /\ <>[][~Crash]_vars

-----------------------------------------------------------------------------
\* The time promised for i has come, and it has not been posted.
Owed(i) == promise[i] # None /\ promise[i] <= now

\* A reminder with an anchor channel is posted once its time has come, whatever
\* rounds overlap and whenever the server ends, unless its owner takes it off or
\* puts it off (schema.ts:394).  The worker's own marks excuse nothing.
FiresEventually == \A i \in Anchored : Owed(i) ~> ~Owed(i)

\* A reminder is posted once for each time it was scheduled for, unless two
\* rounds had it at a time or the server ended between its post and its mark.
OncePerSchedule == \A i \in Reminder \ disturbed : fires[i] <= 1

-----------------------------------------------------------------------------
(* What the tests and a comment say and the code does not keep.            *)

\* schema.ts:394: when its time comes the owner is woken, also of a reminder
\* without an anchor channel, which reminder.service.ts:20 lets one make.
EveryReminderFires == \A i \in Reminder : Owed(i) ~> ~Owed(i)

\* reminder.service.test.ts:63: cancel leaves the reminder cancelled.  The
\* worker never takes a cancelled reminder up again.
CancelSticks ==
    [][\A t \in Tick, i \in Reminder :
        Worker(t) /\ status[i] = "cancelled" => status'[i] # "scheduled"]_vars

\* reminder.service.test.ts:47: snooze puts the reminder off, so the worker
\* does not touch it before its new time.
SnoozeHolds ==
    [][\A t \in Tick, i \in Reminder :
        Worker(t) /\ status[i] = "snoozed" /\ next[i] > now
        => status'[i] = "snoozed" /\ next'[i] = next[i]]_vars
=============================================================================
