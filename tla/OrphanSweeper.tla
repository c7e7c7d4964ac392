--------------------------- MODULE OrphanSweeper ---------------------------
(***************************************************************************)
(* The sweep for tasks nobody claims:                                      *)
(* server/src/services/orphan-sweeper.ts.  Every 60 seconds a round takes  *)
(* the old todo tasks without an assignee.  One it does not know goes to   *)
(* the manager agent for triage, or to the humans if that cannot be sent;  *)
(* one it knows for long enough goes to the humans.  What it knows is a    *)
(* Map in memory.                                                          *)
(*                                                                         *)
(* The code of a round between two awaits is one action; task calls,       *)
(* other rounds and the end of the server come in between.  Claim and      *)
(* Release stand for the calls of module Tasks that take a task out of     *)
(* (todo, no assignee) and put it back.                                    *)
(***************************************************************************)
EXTENDS Naturals, FiniteSets

CONSTANTS Task, Tick, None,
          TriageThreshold, HumanThreshold,
          Batch,
          MaxTime,    \* bound: the clock
          MaxCrash    \* bound: ends of the server

VARIABLES now,
          created,    \* task.created_at, None before
          orphan,     \* todo and without an assignee
          escalated,  \* the Map: nothing, or the record of a task
          tick,       \* the rounds in progress
          flags,      \* history: messages to the humans since the server started,
                      \* at most 2 counted
          contested,  \* history: tasks two rounds worked on at a time since then
          handled,    \* history: escalated since it was last released
          crashes

vars == <<now, created, orphan, escalated, tick, flags, contested, handled, crashes>>

Time == 0 .. MaxTime

\* The record of a task.  It is an object that rounds share, so its maker is
\* kept to tell two of them apart.
Escalation == [firstMs : Time, by : Tick, humanFlagged : BOOLEAN]

Round == [pc  : {"idle", "scan", "triage", "flag", "flag.late"},
          now : Time,
          due : SUBSET Task,
          cur : Task \cup {None},
          rec : {None} \cup Escalation]    \* what the Map had for cur

\* None is no record and no task, and the bounds are numbers.
ParametersOK == None \notin Escalation \cup Task /\ MaxTime \in Nat /\ MaxCrash \in Nat

NoRound == [pc |-> "idle", now |-> 0, due |-> {}, cur |-> None, rec |-> None]

TypeOK ==
    /\ now \in Time
    /\ created \in [Task -> Time \cup {None}]
    /\ orphan \in [Task -> BOOLEAN]
    /\ escalated \in [Task -> {None} \cup Escalation]
    /\ tick \in [Tick -> Round]
    /\ flags \in [Task -> 0 .. 2]
    /\ contested \subseteq Task
    /\ handled \in [Task -> BOOLEAN]
    /\ crashes \in 0 .. MaxCrash

Init ==
    /\ now = 0
    /\ created = [t \in Task |-> None]
    /\ orphan = [t \in Task |-> FALSE]
    /\ escalated = [t \in Task |-> None]
    /\ tick = [k \in Tick |-> NoRound]
    /\ flags = [t \in Task |-> 0]
    /\ contested = {}
    /\ handled = [t \in Task |-> FALSE]
    /\ crashes = 0

\* staleOrphansAcrossWorkspaces: createdAt < now - triageThreshold.
Stale(t, time) == orphan[t] /\ created[t] + TriageThreshold < time

\* The manager is there, is not the creator, and a daemon is connected.
Dispatched == BOOLEAN

\* A known task whose turn for the humans has come.
\* Mutant: forgets that they were told.
LateForgets(rec, t) == rec # None /\ t >= rec.firstMs + HumanThreshold
Late(rec, t) == rec # None /\ ~rec.humanFlagged /\ t >= rec.firstMs + HumanThreshold

\* What a round does about t, in the order of the code.
Need(map, t, time) ==
    IF map[t] = None THEN "triage" ELSE IF Late(map[t], time) THEN "flag.late" ELSE "nothing"

\* The loop goes on to the next task it has to await something for, or ends.
\* Those it passes over before need nothing now.
Follow(map, due, time) ==
    LET needy == {t \in due : Need(map, t, time) # "nothing"} IN
    IF needy = {} THEN {NoRound}
    ELSE {[pc |-> Need(map, t, time), now |-> time, due |-> rest, cur |-> t, rec |-> map[t]] :
             t \in needy,
             rest \in {S \in SUBSET due : needy \subseteq S}}

\* Round k takes up the first task of due it has something to do about.  The
\* timer knows no round, so another may be at work on the same task.
TakeUp(k, map, due) ==
    \E f \in Follow(map, due, tick[k].now) :
        /\ tick' = [tick EXCEPT ![k] = [f EXCEPT !.due = @ \ {f.cur}]]
        /\ contested' = contested \cup
             {t \in Task : f.cur = t /\ \E j \in Tick \ {k} : tick[j].cur = t}

\* The round goes on without the task it is done with.
Proceed(k, map, done) == TakeUp(k, map, tick[k].due \ {done})

Smaller(a, b) == IF a < b THEN a ELSE b
FlagHuman(t) == flags' = [flags EXCEPT ![t] = Smaller(@ + 1, 2)]

-----------------------------------------------------------------------------
Create(t) ==
    /\ created[t] = None
    /\ created' = [created EXCEPT ![t] = now]
    /\ orphan' = [orphan EXCEPT ![t] = TRUE]
    /\ UNCHANGED <<now, escalated, tick, flags, contested, handled, crashes>>

Claim(t) ==
    /\ orphan[t]
    /\ orphan' = [orphan EXCEPT ![t] = FALSE]
    /\ UNCHANGED <<now, created, escalated, tick, flags, contested, handled, crashes>>

Release(t) ==
    /\ created[t] # None
    /\ ~orphan[t]
    /\ orphan' = [orphan EXCEPT ![t] = TRUE]
    /\ handled' = [handled EXCEPT ![t] = FALSE]
    /\ UNCHANGED <<now, created, escalated, tick, flags, contested, crashes>>

\* The timer starts a round, whether or not the last one has ended.
StartTick(k) ==
    /\ tick[k].pc = "idle"
    /\ tick' = [tick EXCEPT ![k] = [NoRound EXCEPT !.pc = "scan", !.now = now]]
    /\ UNCHANGED <<now, created, orphan, escalated, flags, contested, handled, crashes>>

\* The rows come in no order, so any Batch of the stale ones may be taken.
Scan(k) ==
    LET stale == {t \in Task : Stale(t, tick[k].now)} IN
    /\ tick[k].pc = "scan"
    /\ \E S \in SUBSET stale :
        /\ Cardinality(S) = Smaller(Batch, Cardinality(stale))
        /\ TakeUp(k, escalated, S)
    /\ UNCHANGED <<now, created, orphan, escalated, flags, handled, crashes>>

\* The Map's new record for a task met for the first time.
\* Mutant: the Map is not written.
RecordNothing(k, t, humanFlagged) == escalated
Record(k, t, humanFlagged) ==
    [escalated EXCEPT ![t] = [firstMs |-> tick[k].now, by |-> k, humanFlagged |-> humanFlagged]]

\* The roster is read and the triage sent; or it cannot be.
Triage(k) ==
    LET t == tick[k].cur IN
    /\ tick[k].pc = "triage"
    /\ \E ok \in Dispatched :
        IF ok THEN /\ escalated' = Record(k, t, FALSE)
                   /\ handled' = [handled EXCEPT ![t] = TRUE]
                   /\ Proceed(k, escalated', t)
              ELSE /\ tick' = [tick EXCEPT ![k].pc = "flag"]
                   /\ UNCHANGED <<escalated, contested, handled>>
    /\ UNCHANGED <<now, created, orphan, flags, crashes>>

\* flagHuman in place of the triage.
Flag(k) ==
    LET t == tick[k].cur IN
    /\ tick[k].pc = "flag"
    /\ FlagHuman(t)
    /\ escalated' = Record(k, t, TRUE)
    /\ handled' = [handled EXCEPT ![t] = TRUE]
    /\ Proceed(k, escalated', t)
    /\ UNCHANGED <<now, created, orphan, crashes>>

\* flagHuman after the triage; then the record the round holds is marked,
\* which is the one in the Map unless another round has replaced it.
\* Mutant: the mark is forgotten.
MarkedNot(k, t) == escalated
Marked(k, t) ==
    IF escalated[t] = tick[k].rec
    THEN [escalated EXCEPT ![t].humanFlagged = TRUE] ELSE escalated

FlagLate(k) ==
    LET t == tick[k].cur IN
    /\ tick[k].pc = "flag.late"
    /\ FlagHuman(t)
    /\ escalated' = Marked(k, t)
    /\ handled' = [handled EXCEPT ![t] = TRUE]
    /\ Proceed(k, escalated', t)
    /\ UNCHANGED <<now, created, orphan, crashes>>

Advance ==
    /\ now < MaxTime
    /\ now' = now + 1
    /\ UNCHANGED <<created, orphan, escalated, tick, flags, contested, handled, crashes>>

\* The server ends and is started again: the Map and the rounds are gone.
Crash ==
    /\ crashes < MaxCrash
    /\ crashes' = crashes + 1
    /\ escalated' = [t \in Task |-> None]
    /\ tick' = [k \in Tick |-> NoRound]
    /\ flags' = [t \in Task |-> 0]
    /\ contested' = {}
    /\ UNCHANGED <<now, created, orphan, handled>>

Worker(k) == StartTick(k) \/ Scan(k) \/ Triage(k) \/ Flag(k) \/ FlagLate(k)

Next ==
    \/ \E t \in Task : Create(t) \/ Claim(t) \/ Release(t)
    \/ \E k \in Tick : Worker(k)
    \/ Advance
    \/ Crash

\* The timer goes on, database calls return, and time passes.
Spec == Init /\ [][Next]_vars
Fairness == WF_vars(Advance) /\ \A k \in Tick : WF_vars(Worker(k))

-----------------------------------------------------------------------------
\* In a life of the server the humans are told of a task once (orphan-sweeper.ts:8,
\* and its test: only once), though rounds overlap, memory and task change hands
\* between their awaits, and a task comes back.  Only one that two rounds worked
\* on at the same time may be told of twice.
AtMostOncePerLife == \A t \in Task \ contested : flags[t] <= 1

\* A stale orphan the sweeper does not know gets into its memory, through the
\* manager or the humans, or is claimed, whatever comes between the awaits.
EveryOrphanIsMet ==
    \A t \in Task : (Stale(t, now) /\ escalated[t] = None) ~> (escalated[t] # None \/ ~orphan[t])

\* An orphan that the triage did not help goes to the humans after the second
\* threshold: it is late until the record is marked, or lost with the server, or
\* replaced by a round that met the task at the same time and starts its grace anew.
HumansHear ==
    \A t \in Task :
        (Stale(t, now) /\ Late(escalated[t], now)) ~> (~Late(escalated[t], now) \/ ~orphan[t])

-----------------------------------------------------------------------------
(* What a comment and a test say and the code does not keep.               *)

\* orphan-sweeper.test.ts:65: the humans are told once, contested or not.
OnceAtAll == \A t \in Task : flags[t] <= 1

\* orphan-sweeper.ts:4: no task is left without anyone to take it over, also
\* not one that was claimed and given back.
ReleasedIsMet == \A t \in Task : (Stale(t, now) /\ ~handled[t]) ~> (handled[t] \/ ~orphan[t])
=============================================================================
