------------------------------- MODULE Tasks -------------------------------
(***************************************************************************)
(* The task board of one workspace: server/src/services/task.service.ts    *)
(* over the task repository of server/src/repo/pg/repos.ts.                *)
(*                                                                         *)
(* A service call is a sequence of awaited database statements and other   *)
(* calls run between any two of them.  Postgres runs at READ COMMITTED, so *)
(* each statement sees what is committed when it starts, also inside one   *)
(* transaction; a statement that takes a row lock decides at its commit.   *)
(* One action is therefore one statement, and what a call has read is kept *)
(* in its request record until it writes.                                  *)
(*                                                                         *)
(* No caller of tasks.create sets anchoredOnSystemMessage, so every row    *)
(* has it FALSE and its guards never bite: they are left out.  A call that *)
(* is refused (NOT_FOUND, FORBIDDEN, FRESHNESS_HOLD) changes nothing and   *)
(* is no step; the freshness preflight of claim is in module Freshness.    *)
(***************************************************************************)
EXTENDS Naturals, FiniteSets

CONSTANTS Task,      \* the task ids the workspace may create
          Human,     \* the human members
          Agent,     \* the agents
          Request,   \* the calls that can be in flight at one time
          None       \* SQL null: no assignee

Actor == Human \cup Agent

ParametersOK == Human \cap Agent = {} /\ None \notin Actor

VARIABLES rows,      \* the tasks that exist
          assignee,  \* column assignee_type, assignee_id
          status,    \* column status
          req,       \* what each call in flight has read and does next
          holders    \* history: who was last told that it holds the task

vars == <<rows, assignee, status, req, holders>>

TASK_STATUSES == {"todo", "in_progress", "in_review", "done", "closed"}

PC == {"idle", "claim.select", "claim.update", "claim.reread",
       "unclaim.write", "status.write", "assign.select", "assign.update"}

Call == [pc       : PC,
         actor    : Actor \cup {None},
         task     : Task \cup {None},
         to       : Agent \cup {None},     \* assign: the new assignee
         expected : Actor \cup {None},     \* updateStatus: the assignee read
         status   : TASK_STATUSES]         \* the status the call will write

Idle == [pc |-> "idle", actor |-> None, task |-> None, to |-> None,
         expected |-> None, status |-> "todo"]

TypeOK ==
    /\ rows \subseteq Task
    /\ assignee \in [Task -> Actor \cup {None}]
    /\ status \in [Task -> TASK_STATUSES]
    /\ req \in [Request -> Call]
    /\ holders \in [Task -> SUBSET Actor]

Init ==
    /\ rows = {}
    /\ assignee = [t \in Task |-> None]
    /\ status = [t \in Task |-> "todo"]
    /\ req = [r \in Request |-> Idle]
    /\ holders = [t \in Task |-> {}]

-----------------------------------------------------------------------------
(* What the pure rules of domain/claim.ts and domain/task-ops.ts decide.   *)

\* The status of a task that gets an assignee: todo starts, later ones stay.
TakenStatus(s) == IF s = "todo" THEN "in_progress" ELSE s

\* The status of a task that is released: work in progress goes back.
ReleasedStatus(s) == IF s = "in_progress" THEN "todo" ELSE s

\* Mutant: any actor may update any task.
MayUpdateStatusAnyone(a, t) == TRUE

MayUpdateStatus(a, t) == a \in Human \/ assignee[t] = a

MayAssign(a, t) == assignee[t] = None \/ a \in Human \/ assignee[t] = a

\* The WHERE clauses of the three conditional UPDATEs.
\* Mutants: an UPDATE by id alone.
UnassignedUnchecked(t) == TRUE
Unassigned(t) == assignee[t] = None

StillHeldByUnchecked(t, a) == TRUE
StillHeldBy(t, a) == assignee[t] = a

StillAsRead(t, expected) == assignee[t] = expected

Begin(r, call) == req[r] = Idle /\ req' = [req EXCEPT ![r] = call]
Finish(r) == req' = [req EXCEPT ![r] = Idle]

-----------------------------------------------------------------------------
Create(t) ==
    /\ t \notin rows
    /\ rows' = rows \cup {t}
    /\ UNCHANGED <<assignee, status, req, holders>>

\* claim: the service finds the task (an agent also passes freshness).
Claim(r, a, t) ==
    /\ t \in rows
    /\ Begin(r, [Idle EXCEPT !.pc = "claim.select", !.actor = a, !.task = t])
    /\ UNCHANGED <<rows, assignee, status, holders>>

\* The SELECT of repo.claim; only the status it saw is used later.
ClaimSelect(r) ==
    LET c == req[r] IN
    /\ c.pc = "claim.select"
    /\ \/ /\ assignee[c.task] = c.actor                    \* already_mine
          /\ holders' = [holders EXCEPT ![c.task] = @ \cup {c.actor}]
          /\ Finish(r)
       \/ /\ assignee[c.task] # c.actor
          /\ req' = [req EXCEPT ![r].pc = "claim.update",
                                ![r].status = TakenStatus(status[c.task])]
          /\ UNCHANGED holders
    /\ UNCHANGED <<rows, assignee, status>>

\* UPDATE ... WHERE assignee_id IS NULL.
ClaimUpdate(r) ==
    LET c == req[r] IN
    /\ c.pc = "claim.update"
    /\ \/ /\ Unassigned(c.task)                            \* claimed
          /\ assignee' = [assignee EXCEPT ![c.task] = c.actor]
          /\ status' = [status EXCEPT ![c.task] = c.status]
          /\ holders' = [holders EXCEPT ![c.task] = @ \cup {c.actor}]
          /\ Finish(r)
       \/ /\ ~Unassigned(c.task)
          /\ req' = [req EXCEPT ![r].pc = "claim.reread"]
          /\ UNCHANGED <<assignee, status, holders>>
    /\ UNCHANGED rows

\* The SELECT after an UPDATE of no row: already_mine or conflict.
ClaimReread(r) ==
    LET c == req[r] IN
    /\ c.pc = "claim.reread"
    /\ \/ /\ assignee[c.task] = c.actor
          /\ holders' = [holders EXCEPT ![c.task] = @ \cup {c.actor}]
       \/ /\ assignee[c.task] # c.actor
          /\ UNCHANGED holders
    /\ Finish(r)
    /\ UNCHANGED <<rows, assignee, status>>

\* unclaim: decideUnclaim on the row read by the service.
Unclaim(r, a, t) ==
    /\ t \in rows
    /\ assignee[t] = a
    /\ Begin(r, [Idle EXCEPT !.pc = "unclaim.write", !.actor = a, !.task = t,
                             !.status = ReleasedStatus(status[t])])
    /\ UNCHANGED <<rows, assignee, status, holders>>

\* UPDATE ... WHERE the assignee is still the actor, else CONFLICT.
UnclaimWrite(r) ==
    LET c == req[r] IN
    /\ c.pc = "unclaim.write"
    /\ \/ /\ StillHeldBy(c.task, c.actor)
          /\ assignee' = [assignee EXCEPT ![c.task] = None]
          /\ status' = [status EXCEPT ![c.task] = c.status]
          /\ holders' = [holders EXCEPT ![c.task] = @ \ {c.actor}]
       \/ /\ ~StillHeldBy(c.task, c.actor)
          /\ UNCHANGED <<assignee, status, holders>>
    /\ Finish(r)
    /\ UNCHANGED rows

\* updateStatus: decideStatusUpdate on the row read by the service.
UpdateStatus(r, a, t, next) ==
    /\ t \in rows
    /\ MayUpdateStatus(a, t)
    /\ Begin(r, [Idle EXCEPT !.pc = "status.write", !.actor = a, !.task = t,
                             !.expected = assignee[t], !.status = next])
    /\ UNCHANGED <<rows, assignee, status, holders>>

\* UPDATE ... WHERE the assignee is still the one read, else CONFLICT.
StatusWrite(r) ==
    LET c == req[r] IN
    /\ c.pc = "status.write"
    /\ \/ /\ StillAsRead(c.task, c.expected)
          /\ status' = [status EXCEPT ![c.task] = c.status]
       \/ /\ ~StillAsRead(c.task, c.expected)
          /\ UNCHANGED status
    /\ Finish(r)
    /\ UNCHANGED <<rows, assignee, holders>>

\* assign: the service checks the right on the row it reads.
Assign(r, a, t, to) ==
    /\ t \in rows
    /\ MayAssign(a, t)
    /\ Begin(r, [Idle EXCEPT !.pc = "assign.select", !.actor = a, !.task = t,
                             !.to = to])
    /\ UNCHANGED <<rows, assignee, status, holders>>

\* The SELECT of repo.assign: a done task is a CONFLICT.
AssignSelect(r) ==
    LET c == req[r] IN
    /\ c.pc = "assign.select"
    /\ \/ /\ status[c.task] = "done"
          /\ Finish(r)
       \/ /\ status[c.task] # "done"
          /\ req' = [req EXCEPT ![r].pc = "assign.update",
                                ![r].status = TakenStatus(status[c.task])]
    /\ UNCHANGED <<rows, assignee, status, holders>>

\* UPDATE ... WHERE id; the new assignee is then woken.
AssignUpdate(r) ==
    LET c == req[r] IN
    /\ c.pc = "assign.update"
    /\ assignee' = [assignee EXCEPT ![c.task] = c.to]
    /\ status' = [status EXCEPT ![c.task] = c.status]
    /\ holders' = [holders EXCEPT ![c.task] = {c.to}]
    /\ Finish(r)
    /\ UNCHANGED rows

\* The server stops: calls in flight are gone, open transactions roll back.
Crash ==
    /\ \E r \in Request : req[r] # Idle
    /\ req' = [r \in Request |-> Idle]
    /\ UNCHANGED <<rows, assignee, status, holders>>

Arrive(r) ==
    \E a \in Actor, t \in Task :
        \/ Claim(r, a, t)
        \/ Unclaim(r, a, t)
        \/ \E next \in TASK_STATUSES : UpdateStatus(r, a, t, next)
        \/ \E to \in Agent : Assign(r, a, t, to)

Serve(r) ==
    \/ ClaimSelect(r)
    \/ ClaimUpdate(r)
    \/ ClaimReread(r)
    \/ UnclaimWrite(r)
    \/ StatusWrite(r)
    \/ AssignSelect(r)
    \/ AssignUpdate(r)

Next ==
    \/ \E t \in Task : Create(t)
    \/ \E r \in Request : Arrive(r)
    \/ \E r \in Request : Serve(r)
    \/ Crash

Spec == Init /\ [][Next]_vars

-----------------------------------------------------------------------------
(* What the code keeps.                                                    *)

\* Whoever was last answered "claimed" or "already_mine", or was handed the
\* task, and has not given it up since, is its assignee in the table: no two
\* actors ever work on one task believing that it is theirs (claim.ts:4-6).
HoldersAgree == \A t \in Task : holders[t] \subseteq {assignee[t]}

\* How a task changes hands: a free task by anybody's claim or assignment, a
\* held one only by an assignment or by its own holder giving it up.  No claim
\* displaces a holder and nobody releases another's claim (task-ops.ts:8).
OwnershipMoves ==
    [][\A t \in Task : assignee'[t] # assignee[t] =>
          \/ assignee[t] = None
          \/ \E r \in Request :
                /\ req[r].task = t /\ req'[r] = Idle
                /\ \/ req[r].pc = "assign.update" /\ assignee'[t] = req[r].to
                   \/ /\ req[r].pc = "unclaim.write"
                      /\ req[r].actor = assignee[t] /\ assignee'[t] = None]_vars

\* A status that changes while the assignee stays was written by a human or by
\* the agent that holds the task at that moment, although the right to write
\* was decided on an earlier read (task-ops.ts:5-6); or the task was assigned
\* to the agent that already holds it.
AgentsWriteOwnTasks ==
    [][\A t \in Task : status'[t] # status[t] /\ assignee'[t] = assignee[t] =>
          \E r \in Request :
              /\ req[r].task = t /\ req'[r] = Idle
              /\ \/ /\ req[r].pc = "status.write"
                    /\ req[r].actor \in Human \/ req[r].actor = assignee[t]
                 \/ req[r].pc = "assign.update" /\ req[r].to = assignee[t]]_vars

-----------------------------------------------------------------------------
(* What comments say and interleaved calls break.                          *)

\* A claim keeps a status later than todo (domain/claim.ts:42).
ClaimKeepsLaterStatus ==
    [][\A r \in Request :
          LET t == req[r].task IN
          req[r].pc = "claim.update" /\ assignee'[t] # assignee[t]
              /\ status[t] # "todo" => status'[t] = status[t]]_vars

\* Giving a task up changes only the status in_progress (domain/task-ops.ts:9).
UnclaimKeepsOtherStatus ==
    [][\A t \in Task :
          assignee[t] # None /\ assignee'[t] = None /\ status[t] # "in_progress"
              => status'[t] = status[t]]_vars

\* An agent assigns a free task or its own (services/task.service.ts:195).
AgentsAssignByRight ==
    [][\A r \in Request :
          LET t == req[r].task IN
          req[r].pc = "assign.update" /\ assignee'[t] # assignee[t]
              /\ req[r].actor \in Agent => assignee[t] \in {None, req[r].actor}]_vars

\* A done task is not assigned (repo/pg/repos.ts:625).
DoneIsNotAssigned ==
    [][\A r \in Request :
          LET t == req[r].task IN
          req[r].pc = "assign.update" /\ assignee'[t] # assignee[t]
              => status[t] # "done"]_vars

\* A status update takes effect on a task that is not done (repo/types.ts:569).
DoneIsFinal ==
    [][\A r \in Request :
          LET t == req[r].task IN
          req[r].pc = "status.write" /\ status'[t] # status[t]
              => status[t] # "done"]_vars
=============================================================================
