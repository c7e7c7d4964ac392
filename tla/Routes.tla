------------------------------- MODULE Routes -------------------------------
(***************************************************************************)
(* What the server's requests change and whom they tell: the handlers of   *)
(* server/src/http/routes/web.ts and agent.ts, the workers, and the        *)
(* control plane, as far as a web client can see.                          *)
(*                                                                         *)
(* A request is a sequence of stages.  A stage commits, in the channel of  *)
(* the request or in a list of the workspace, and then emits its events    *)
(* on the bus; another stage may follow.                                   *)
(***************************************************************************)
EXTENDS Sequences

\* What is read with a channel: its messages, what hangs on them (reactions,
\* attachments, bookmarks), its tasks.
Column == {"log", "marks", "board"}

\* What is read for the workspace: server-info, computers, action cards.
List == {"info", "machines", "actions"}

\* realtime/bus.ts, without agent.activity.
EventType == {"message.created", "task.updated", "reaction.updated",
              "action.prepared", "action.updated", "machine.updated"}

Stage(touches, events) == <<[touches |-> touches, events |-> events]>>

-----------------------------------------------------------------------------
(* In a channel.                                                           *)

Posted == Stage({"log"}, <<"message.created">>)
SendMessage == Posted
SendAsAgent == Posted    \* one that is held back is a draft, which nobody sees
ReminderFires == Posted
FlagHuman == Posted

\* asTask: the message is announced before its task exists, the task once it
\* is assigned or triaged (or that has failed).  Mutant: it is not announced.
SendAsTaskSilent == SendMessage \o Stage({"board"}, <<>>) \o Stage({"board"}, <<>>)
SendAsTask == SendMessage \o Stage({"board"}, <<>>) \o Stage({"board"}, <<"task.updated">>)

React == Stage({"marks"}, <<"reaction.updated">>)
ReactAsAgent == React
Save == Stage({"marks"}, <<>>)
UploadAttachment == Stage({"marks"}, <<>>)
UploadAsAgent == UploadAttachment

\* The page's sendWithFiles: the files follow the message, one by one.
SendWithFiles == SendMessage \o UploadAttachment

\* A task's announcement is a message of its own.  A batch is announced once it
\* is complete; here it has one.
CreateTask == Stage({"log"}, <<>>) \o Stage({"board"}, <<"message.created", "task.updated">>)
CreateTaskAsAgent == CreateTask

OnTask == Stage({"board"}, <<"task.updated">>)
TaskOperation == OnTask    \* claim, status, unclaim
ClaimAsAgent == OnTask
AssignAsAgent == OnTask
FinishAsAgent == OnTask    \* status, unclaim

\* A person becomes a member of the channel, with a row that has read nothing, as
\* no row has, or no longer is one: the row is deleted ("out").
JoinChannel == Stage({"info"}, <<>>)
AddMember == JoinChannel
LeaveChannel == Stage({"info", "out"}, <<>>)
RemoveMember == LeaveChannel

-----------------------------------------------------------------------------
(* In the workspace.                                                       *)

PrepareAction == Stage({"actions"}, <<"action.prepared">>)

\* What the card asks for is made first.  Mutant: announced before it is.
ExecuteAnnouncedEarly == Stage({"info"}, <<"action.updated">>) \o Stage({"actions"}, <<>>)
ExecuteAction == Stage({"info"}, <<>>) \o Stage({"actions"}, <<"action.updated">>)
DismissAction == Stage({"actions"}, <<"action.updated">>)

\* Channels, agents and people's profiles change without an event.
Directory == Stage({"info"}, <<>>)
CreateChannel == Directory
ArchiveChannel == Directory
OpenDm == Directory
EditMembers == Directory       \* somebody else is added or removed
MembersAsAgent == Directory    \* an agent joins or leaves
CreateAgent == Directory
ImportAgent == Directory
UpdateAgent == Directory
DeleteAgent == Directory
ProfileAsAgent == Directory
EditProfile == Directory
RemoveHuman == Directory

\* So do machines that are made or renamed, or deleted, which unbinds agents.
CreateMachine == Stage({"machines"}, <<>>)
RenameMachine == CreateMachine
DeleteMachine == Stage({"machines", "info"}, <<>>)

\* A machine comes, tells about itself, or goes: status and agents' online.
MachineStatus == Stage({"machines", "info"}, <<"machine.updated">>)

-----------------------------------------------------------------------------
\* What a person does in the page, and what agents, workers, daemons and other
\* people do.
OwnInChannel == {SendMessage, SendWithFiles, SendAsTask, React, Save, CreateTask, TaskOperation}
OwnMembership == {JoinChannel, LeaveChannel}
OwnDirectory == {CreateChannel, ArchiveChannel, OpenDm, EditMembers, CreateAgent,
                 ImportAgent, UpdateAgent, DeleteAgent, EditProfile, RemoveHuman}
OwnActions == {ExecuteAction, DismissAction}
OwnMachines == {CreateMachine, RenameMachine}

OthersInChannel == {SendMessage, SendAsTask, SendAsAgent, ReminderFires, FlagHuman, React,
                    ReactAsAgent, Save, UploadAttachment, UploadAsAgent, CreateTask,
                    CreateTaskAsAgent, TaskOperation, ClaimAsAgent, AssignAsAgent, FinishAsAgent,
                    JoinChannel, AddMember, LeaveChannel, RemoveMember}
Others == {PrepareAction, ExecuteAction, DismissAction, CreateChannel, ArchiveChannel, OpenDm,
           EditMembers, MembersAsAgent, CreateAgent, ImportAgent, UpdateAgent, DeleteAgent,
           ProfileAsAgent, EditProfile, RemoveHuman, CreateMachine, RenameMachine, DeleteMachine, MachineStatus}
=============================================================================
