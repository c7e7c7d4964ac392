------------------------------ MODULE Teamwork ------------------------------
(***************************************************************************)
(* The two things agents share in a channel, side by side: its messages,   *)
(* with the hold on who has not read them (Freshness), and the task board  *)
(* (Tasks).  A claim goes through both, one after the other: its preflight *)
(* is a call of Freshness, which ends where the call on the board begins.  *)
(* They have no variable in common, so what is said of one of them may be  *)
(* looked at while the other rests.                                        *)
(***************************************************************************)
EXTENDS Freshness

CONSTANT Task
VARIABLES rows, assignee, status, taskReq, holders

boardVars == <<rows, assignee, status, taskReq, holders>>

Board == INSTANCE Tasks WITH req <- taskReq

ASSUME BoardAssumption == Board!ParametersOK

\* One of them goes on, the other rests.
Start == Init /\ Board!Init

MessagesSpec == Start /\ [][Next /\ UNCHANGED boardVars]_<<vars, boardVars>>
BoardSpec == Start /\ [][Board!Next /\ UNCHANGED vars]_<<vars, boardVars>>

-----------------------------------------------------------------------------
\* claim.ts:4: at most one actor has been told that it holds a task, and it is
\* the assignee in the table.
HoldersAgree == Board!HoldersAgree

\* task-ops.ts:8: a held task changes hands by an assignment or by its holder
\* giving it up, and in no other way.
OwnershipMoves == Board!OwnershipMoves

\* task-ops.ts:5-6: a status that changes under an unchanged assignee was written
\* by a human or by the agent that holds the task at that moment.
AgentsWriteOwnTasks == Board!AgentsWriteOwnTasks
=============================================================================
