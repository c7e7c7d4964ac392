------------------------------- MODULE Rounds -------------------------------
(***************************************************************************)
(* The two workers of server/src/server.ts that go round by a timer,       *)
(* Reminders and OrphanSweeper, in one server.  They have no state in      *)
(* common, so a step of one leaves the other alone, and what is said of    *)
(* one of them may be looked at while the other rests.                     *)
(***************************************************************************)
EXTENDS Reminders

CONSTANTS Task, TriageThreshold, HumanThreshold, MaxCrash
VARIABLES clock, created, orphan, escalated, round, flags, contested, handled, crashes

sweepVars == <<clock, created, orphan, escalated, round, flags, contested, handled, crashes>>

Sweeper == INSTANCE OrphanSweeper WITH now <- clock, tick <- round

ASSUME SweepAssumption == Sweeper!ParametersOK

\* One of them goes round, the other rests.
Start == Init /\ Sweeper!Init

RemindersSpec ==
    /\ Start /\ [][Next /\ UNCHANGED sweepVars]_<<vars, sweepVars>>
    /\ Fairness

SweeperSpec ==
    /\ Start /\ [][Sweeper!Next /\ UNCHANGED vars]_<<vars, sweepVars>>
    /\ Sweeper!Fairness

-----------------------------------------------------------------------------
\* orphan-sweeper.ts:8, and its test: in a life of the server the humans hear of
\* a task once, unless two rounds worked on it at the same time.
AtMostOncePerLife == Sweeper!AtMostOncePerLife

\* A stale orphan that the sweeper does not know is met, or claimed.
EveryOrphanIsMet == Sweeper!EveryOrphanIsMet

\* orphan-sweeper.ts:5: one that the triage did not help goes to the humans.
HumansHear == Sweeper!HumansHear
=============================================================================
