---------------------------- MODULE Repositories ----------------------------
(***************************************************************************)
(* Both implementations of the repositories under one sequence of calls.   *)
(* The tests of the services run on the store in memory, the server on     *)
(* PostgreSQL: what such a test shows of the server is what the two answer *)
(* alike.                                                                  *)
(*                                                                         *)
(* Every action is one call as the services make it, made of both.  A      *)
(* history stays with the repositories of one suite.                       *)
(***************************************************************************)
EXTENDS Repository

CONSTANTS Workspace, Human, Agent,
          MaxCalls    \* bound: calls in a history

VARIABLES suite,
          mem, said,  \* the store in memory, and its last answer
          db, told,   \* the tables, and the last answer of PostgreSQL
          calls,      \* how many calls were made
          asked,      \* history: which calls were made of those that may tell the two apart
          last,       \* history: the last call, and of what
          parted      \* history: what was named from where it is not

vars == <<suite, mem, said, db, told, calls, asked, last, parted>>

Memory == INSTANCE MemoryStore WITH answer <- said
Pg == INSTANCE PgStore WITH answer <- told

Suites == {"talk", "channels", "board", "marks", "fleet", "reminders"}
Actors == ({"human"} \X Human) \cup ({"agent"} \X Agent)
Home == CHOOSE ws \in Workspace : TRUE
Maker == CHOOSE h \in Human : TRUE
Owner == <<"human", Maker>>

-----------------------------------------------------------------------------
(* The start: workspaces with their people, agents, a channel and a message. *)

Seeds == SetToSeq(Workspace)
Number(ws) == SelectInSeq(Seeds, LAMBDA w : w = ws)
ChannelSeed(ws) == [ws |-> ws, id |-> Number(ws), kind |-> "channel", private |-> FALSE]
MessageSeed(ws) == [ws |-> ws, id |-> Number(ws), seq |-> 1, channel |-> Number(ws), sender |-> Owner,
                    content |-> {}, parent |-> None]
AgentSeeds == FoldLeft(LAMBDA rows, ws : rows \o Each(SetToSeq(Agent),
    LAMBDA a : [ws |-> ws, id |-> a, rank |-> 1, profile |-> "new", machine |-> None]), <<>>, Seeds)
MemberSeed(ws) == [ws |-> ws, channel |-> Number(ws), who |-> Owner, role |-> "owner"]

Init ==
    /\ suite \in Suites
    /\ mem = [Memory!Empty EXCEPT !.users = Workspace \X Human, !.agents = AgentSeeds,
                !.channels = Each(Seeds, LAMBDA ws : [pair |-> None, archived |-> FALSE] @@ ChannelSeed(ws)),
                !.memberships = Each(Seeds, MemberSeed), !.messages = Each(Seeds, MessageSeed)]
    /\ db = [Pg!Empty EXCEPT !.appUser = Each(SetToSeq(Workspace \X Human), LAMBDA u : [ws |-> u[1], handle |-> u[2]]),
                !.agent = AgentSeeds,
                !.channel = Each(Seeds, LAMBDA ws : [slug |-> None, archivedAt |-> FALSE] @@ ChannelSeed(ws)),
                !.channelMember = Each(Seeds, LAMBDA ws : [lastReadSeq |-> 0] @@ MemberSeed(ws)),
                !.message = Each(Seeds, MessageSeed)]
    /\ said = None /\ told = None /\ calls = 0 /\ asked = {}
    /\ last = [call |-> "none", of |-> "here"] /\ parted = {}

Telling == {"read", "leave", "remove"}
\* A call of which the foreign key names what is "here", in the workspace of the
\* caller, "elsewhere" or "nowhere"; whatever hangs on it is in doubt otherwise.
CallOn(which, name, of, hanging) ==
    /\ suite \in which /\ calls < MaxCalls
    /\ calls' = calls + 1 /\ asked' = asked \cup ({name} \cap Telling) /\ last' = [call |-> name, of |-> of]
    /\ parted' = parted \cup (IF of \in {"elsewhere", "nowhere"} THEN hanging ELSE {})
    /\ UNCHANGED suite
Call(which, name) == CallOn(which, name, "here", {})

Place(ws, table, id) ==
    IF id = None \/ \E r \in Rows(Pg!Tenant(ws, table)) : r.id = id THEN "here"
    ELSE IF Pg!References(table, id) THEN "elsewhere" ELSE "nowhere"

Ids(table) == {r.id : r \in Rows(table)}
Channels(ws) == {c.id : c \in Rows(Pg!Tenant(ws, db.channel))}
Messages(ws) == {m.id : m \in Rows(Pg!Tenant(ws, db.message))}
Tasks(ws) == {t.id : t \in Rows(Pg!Tenant(ws, db.task))}
Machines(ws) == {m.id : m \in Rows(Pg!Tenant(ws, db.machine))}
Absent == 0    \* an identifier that no row has
Strange == {Absent} \cup (Ids(db.channel) \ Channels(Home))
Away == Workspace \ {Home}
Taken(channel) == {who \in Actors : Pg!Elsewhere(Home, channel, who)}

-----------------------------------------------------------------------------
(* Talk and channels: messages, cursors and members of one workspace.  Where  *)
(* no service looks a channel up first, any identifier may be in the call:    *)
(* message.service.ts:64, read-state.service.ts:36.                           *)

Send(who, channel, mentioned, parent) ==
    LET msg == [channel |-> channel, sender |-> who, content |-> mentioned, parent |-> parent]
        id == Len(mem.messages) + 1
    IN  /\ CallOn({"talk"}, "send", Place(Home, db.channel, channel), {})
        /\ Memory!appendMessage(Home, id, msg) /\ Pg!append(Home, id, msg)
Tops(channel) == {m.id : m \in {n \in Rows(Pg!Tenant(Home, db.message)) : n.channel = channel /\ n.parent = None}}
SendAny ==
    \/ \E who \in {Owner} \cup ({"agent"} \X Agent), channel \in Channels(Home) :
        \E mentioned \in {{}, {Maker}}, parent \in {None} \cup Tops(channel) : Send(who, channel, mentioned, parent)
    \/ \E a \in Agent, channel \in Strange : Send(<<"agent", a>>, channel, {Maker}, None)

Read(ws, who, channel, upTo) ==
    LET of == IF Pg!Elsewhere(ws, channel, who) THEN "taken" ELSE Place(ws, db.channel, channel)
    IN  /\ CallOn({"talk", "channels"}, "read", of, {})
        /\ Memory!advanceRead(ws, who, channel, upTo) /\ Pg!advanceRead(ws, who, channel, upTo)
See(agent, channel, upTo) ==
    /\ CallOn({"talk"}, "see", Place(Home, db.channel, channel), {})
    /\ Memory!advanceSeen(Home, agent, channel, upTo) /\ Pg!advanceSeen(Home, agent, channel, upTo)
CursorAny ==
    \/ \E channel \in Channels(Home) : \E upTo \in 1..Pg!latestSeq(Home, channel) :
        \/ \E who \in Actors : Read(Home, who, channel, upTo)
        \/ \E a \in Agent : See(a, channel, upTo)
    \/ \E a \in Agent, channel \in Strange : See(a, channel, 1)
    \/ /\ suite = "channels"
       /\ \E who \in Actors : \/ \E channel \in Strange : Read(Home, who, channel, 1)
                             \/ \E ws \in Away, channel \in Channels(Home) : Read(ws, who, channel, 1)

OpenDm(human, agent) ==
    /\ Call({"channels"}, "openDm")
    /\ Memory!getOrCreateDm(Home, human, agent) /\ Pg!getOrCreateDm(Home, human, agent)
CreateChannel(private, creator, members) ==
    /\ Call({"channels"}, "create")
    /\ Memory!createChannel(Home, private, creator, members) /\ Pg!create(Home, private, creator, members)
OpenAny ==
    \/ \E h \in Human, a \in Agent : OpenDm(<<"human", h>>, a)
    \/ \E a \in Agent : CreateChannel(FALSE, Owner, <<<<"agent", a>>, Owner>>)
    \/ CreateChannel(TRUE, Owner, <<>>)

Join(who, channel) ==
    /\ Call({"talk", "channels"}, "join")
    /\ Memory!joinChannel(Home, who, channel) /\ Pg!join(Home, who, channel)
Leave(who, channel) ==
    /\ Call({"talk", "channels"}, "leave")
    /\ Memory!leaveChannel(Home, who, channel) /\ Pg!leave(Home, who, channel)
AddMember(who, channel) ==
    /\ Call({"channels"}, "add")
    /\ Memory!addChannelMember(Home, channel, who, "member") /\ Pg!addMember(Home, channel, who, "member")
RemoveMember(who, channel) ==
    /\ Call({"channels"}, "remove")
    /\ Memory!removeChannelMember(Home, channel, who) /\ Pg!removeMember(Home, channel, who)
Archive(channel, archived) ==
    /\ Call({"channels"}, "archive")
    /\ Memory!setChannelArchived(Home, channel, archived) /\ Pg!setArchived(Home, channel, archived)
MemberAny == \E channel \in Channels(Home) :
    \/ \E who \in Actors : Join(who, channel) \/ Leave(who, channel) \/ RemoveMember(who, channel)
    \/ \E who \in Actors \cup {<<"human", None>>} : AddMember(who, channel)
    \/ Archive(channel, TRUE)
AbsentAny == Join(Owner, Absent) \/ Leave(Owner, Absent) \/ AddMember(Owner, Absent) \/ RemoveMember(Owner, Absent)
    \/ Archive(Absent, TRUE)

-----------------------------------------------------------------------------
(* Board: the tasks of every workspace.                                      *)

CreateTask(ws, anchored) ==
    LET task == [channel |-> Number(ws), anchored |-> anchored]
    IN  Call({"board"}, "create") /\ Memory!createTask(ws, task) /\ Pg!createTask(ws, task)
Claim(ws, id, who) == Call({"board"}, "claim") /\ Memory!claimTask(ws, id, who) /\ Pg!claim(ws, id, who)
Unclaim(ws, id, who, next) ==
    Call({"board"}, "unclaim") /\ Memory!unclaimTask(ws, id, who, next) /\ Pg!unclaim(ws, id, who, next)
UpdateStatus(ws, id, expected, next) ==
    /\ Call({"board"}, "status")
    /\ Memory!updateTaskStatus(ws, id, expected, next) /\ Pg!updateStatus(ws, id, expected, next)
Assign(ws, id, who) == Call({"board"}, "assign") /\ Memory!assignTask(ws, id, who) /\ Pg!assign(ws, id, who)

Status == {"todo", "in_progress", "in_review", "done", "closed"}
BoardAny == \E ws \in Workspace :
    \/ \E anchored \in BOOLEAN : CreateTask(ws, anchored)
    \/ \E id \in {Absent} \cup Tasks(ws) :
        \/ \E who \in Actors : Claim(ws, id, who) \/ Assign(ws, id, who)
        \/ \E who \in Actors, next \in {"todo", "done"} : Unclaim(ws, id, who, next)
        \/ \E who \in Actors \cup {None}, next \in Status : UpdateStatus(ws, id, who, next)

-----------------------------------------------------------------------------
(* Marks: what actors and agents leave on messages, logins and cards, in     *)
(* every workspace.  Reactions and attachments take the identifier of any    *)
(* message, cards that of any channel: reaction.service.ts:23,               *)
(* attachment.service.ts:50, agent.ts:184.                                   *)

React(ws, who, message, emoji) ==
    /\ CallOn({"marks"}, "react", Place(ws, db.message, message), {<<"reaction", message>>})
    /\ Memory!addReaction(ws, message, who, emoji) /\ Pg!addReaction(ws, message, who, emoji)
Unreact(ws, who, message, emoji) ==
    /\ Call({"marks"}, "unreact")
    /\ Memory!removeReaction(ws, message, who, emoji) /\ Pg!removeReaction(ws, message, who, emoji)
\* saved.service.ts: a message is looked up before it is saved.
Save(ws, who, message) ==
    /\ Call({"marks"}, "save")
    /\ \/ /\ Memory!getMessage(ws, message) = None /\ Memory!Reply(Refused("NOT_FOUND"))
          /\ Pg!getMessage(ws, message) = None /\ Pg!Select(Refused("NOT_FOUND"))
       \/ /\ Memory!getMessage(ws, message) # None /\ Memory!addSaved(ws, who, message)
          /\ Pg!getMessage(ws, message) # None /\ Pg!addSaved(ws, who, message)
Unsave(ws, who, message) ==
    Call({"marks"}, "unsave") /\ Memory!removeSaved(ws, who, message) /\ Pg!removeSaved(ws, who, message)
Attach(ws, message) ==
    LET id == Len(mem.attachments) + 1
    IN  /\ CallOn({"marks"}, "attach", Place(ws, db.message, message), {})
        /\ Memory!createAttachment(ws, id, message, Owner) /\ Pg!createAttachment(ws, id, message, Owner)
Follow(ws, agent, thread) ==
    /\ Call({"marks"}, "follow")
    /\ \/ Memory!unfollowThread(ws, agent, thread) /\ Pg!unfollow(ws, agent, thread)
       \/ Memory!followThread(ws, agent, thread) /\ Pg!follow(ws, agent, thread)
Login(ws, agent, integration) ==
    /\ Call({"marks"}, "login")
    /\ \/ Memory!recordLogin(ws, agent, integration) /\ Pg!recordLogin(ws, agent, integration)
       \/ Memory!removeLogin(ws, agent, integration) /\ Pg!removeLogin(ws, agent, integration)
Prepare(ws, agent, channel) ==
    LET id == Len(mem.actionCards) + 1
    IN  /\ CallOn({"marks"}, "prepare", Place(ws, db.channel, channel), {<<"card", id>>})
        /\ Memory!createActionCard(ws, id, channel, <<"agent", agent>>)
        /\ Pg!createCard(ws, id, channel, <<"agent", agent>>)
Resolve(ws, id, status, by) ==
    /\ Call({"marks"}, "resolve")
    /\ Memory!resolveActionCard(ws, id, status, by, None) /\ Pg!resolveCard(ws, id, status, by, None)

MarksAny == \E ws \in Workspace :
    \/ \E message \in {Absent} \cup Ids(db.message) :
        \/ \E who \in Actors : React(ws, who, message, "ok") \/ (message # Absent /\ Unreact(ws, who, message, "ok"))
        \/ Attach(ws, message) \/ Save(ws, Owner, message)
    \/ \E a \in Agent, message \in Messages(ws) : Unsave(ws, Owner, message) \/ Follow(ws, a, message) \/ Login(ws, a, "mail")
    \/ \E a \in Agent, channel \in {Absent} \cup Ids(db.channel) : Prepare(ws, a, channel)
    \/ \E id \in {Absent} \cup {c.id : c \in Rows(db.actionCard)}, status \in {"executed", "dismissed"} :
        Resolve(ws, id, status, Owner)

-----------------------------------------------------------------------------
(* Fleet: agents, machines and the work log.  The machine of an agent may be *)
(* any that the caller names (web.ts:63), one that was deleted included.     *)

\* Handles of agents that a history may make, and the machines to run them.
Handles == Agent \cup {"new agent"}
AgentCall(name, ws, handle, of) ==
    LET agent == <<"agent", <<ws, handle>>>>
    IN  CallOn({"fleet"}, name, IF agent \in parted THEN "parted" ELSE of, {agent})
CreateAgent(ws, handle, machine) ==
    /\ AgentCall("create", ws, handle, IF Pg!getAgent(ws, handle) = None THEN Place(ws, db.machine, machine) ELSE "here")
    /\ Memory!createAgent(ws, handle, 2, machine) /\ Pg!createAgent(ws, handle, 2, machine)
UpdateAgent(ws, handle, patch) ==
    LET named == IF Pg!getAgent(ws, handle) # None /\ "machine" \in DOMAIN patch THEN patch.machine ELSE None
    IN  /\ AgentCall("update", ws, handle, Place(ws, db.machine, named))
        /\ Memory!updateAgent(ws, handle, patch) /\ Pg!updateAgent(ws, handle, patch)
RemoveAgent(ws, handle) ==
    AgentCall("remove", ws, handle, "here") /\ Memory!removeAgent(ws, handle) /\ Pg!removeAgent(ws, handle)
CreateMachine(ws) ==
    LET id == calls + 1
    IN  Call({"fleet"}, "machine") /\ Memory!createMachine(ws, id) /\ Pg!createMachine(ws, id)
ChangeMachine(ws, id) ==
    /\ Call({"fleet"}, "change")
    /\ \/ Memory!renameMachine(ws, id, "other") /\ Pg!rename(ws, id, "other")
       \/ Memory!setMachineTokenPrefix(ws, id, "prefix") /\ Pg!setTokenPrefix(ws, id, "prefix")
       \/ Memory!updateMachineInfo(ws, id, "info") /\ Pg!updateInfo(ws, id, "info")
       \/ \E status \in {"online", "offline"} : Memory!setMachineStatus(ws, id, status) /\ Pg!setStatus(ws, id, status)
DeleteMachine(ws, id) == Call({"fleet"}, "delete") /\ Memory!deleteMachine(ws, id) /\ Pg!deleteMachine(ws, id)
Restart == Call({"fleet"}, "restart") /\ Memory!resetAllMachinesOffline /\ Pg!resetAllOffline(Workspace)
Work(ws, agent, activity) ==
    Call({"fleet"}, "work") /\ Memory!appendActivity(ws, agent, activity) /\ Pg!appendActivity(ws, agent, activity)

FleetAny ==
    \/ Restart
    \/ \E ws \in Workspace :
        \/ CreateMachine(ws)
        \/ \E h \in Handles :
            \/ RemoveAgent(ws, h) \/ UpdateAgent(ws, h, <<>>) \/ UpdateAgent(ws, h, [profile |-> "changed"])
            \/ \E m \in {None, Absent} \cup Ids(db.machine) : CreateAgent(ws, h, m) \/ UpdateAgent(ws, h, [machine |-> m])
        \/ \E a \in Agent, activity \in {"start", "done"} : Work(ws, a, activity)
        \/ \E id \in {Absent} \cup Machines(ws) : ChangeMachine(ws, id) \/ DeleteMachine(ws, id)

-----------------------------------------------------------------------------
(* Reminders of the agents of every workspace, anchored in any channel       *)
(* (reminder.service.ts:43).                                                 *)

Times == 1..2
CreateReminder(ws, channel, owner, kind, next) ==
    LET id == Len(mem.reminders) + 1
    IN  /\ CallOn({"reminders"}, "create", Place(ws, db.channel, channel), {<<"reminder", id>>})
        /\ Memory!createReminder(ws, id, channel, owner, kind, next)
        /\ Pg!createReminder(ws, id, channel, owner, kind, next)
UpdateReminder(ws, id, owner, patch) ==
    /\ Call({"reminders"}, "update")
    /\ Memory!updateReminder(ws, id, owner, patch) /\ Pg!updateReminder(ws, id, owner, patch)
AppendEvent(ws, id, kind) ==
    Call({"reminders"}, "event") /\ Memory!appendEvent(ws, id, kind) /\ Pg!appendEvent(ws, id, kind)
MarkFired(ws, id, next, status) ==
    Call({"reminders"}, "fired") /\ Memory!markFired(ws, id, next, status) /\ Pg!markFired(ws, id, next, status)

Reminders(ws) == {r.id : r \in Rows(Pg!Tenant(ws, db.reminder))}
RemindersAny == \E ws \in Workspace, owner \in {"agent"} \X Agent :
    \/ \E kind \in {"once", "recurring"}, at \in Times : CreateReminder(ws, None, owner, kind, at)
    \/ \E channel \in {Absent} \cup Ids(db.channel) : CreateReminder(ws, channel, owner, "once", 1)
    \/ \E id \in {Absent} \cup Reminders(ws) :
        \/ \E patch \in {[status |-> "cancelled"]} \cup {[nextFireAt |-> at] : at \in Times}
                \cup {[nextFireAt |-> at, status |-> "snoozed"] : at \in Times} : UpdateReminder(ws, id, owner, patch)
        \/ MarkFired(ws, id, 2, "scheduled") \/ MarkFired(ws, id, 0, "done")
    \/ \E id \in Reminders(ws) : AppendEvent(ws, id, "fired")

Next == SendAny \/ CursorAny \/ OpenAny \/ MemberAny \/ AbsentAny \/ BoardAny \/ MarksAny \/ FleetAny \/ RemindersAny

Spec == Init /\ [][Next]_vars

-----------------------------------------------------------------------------
(* What the two agree on.                                                    *)

\* types.ts: a call has the same outcome in memory as on PostgreSQL, a refusal
\* included, when what it refers to is there; the read cursor may be told lower,
\* see CursorsDiffer.  A row that would hang on nothing is refused by PostgreSQL,
\* and so is the read cursor of an actor whom another workspace made a member of
\* the channel; a row that would hang on one of another workspace may be.
SameAnswers ==
    LET refused == told = Refused("constraint")
        alike == IF last.call = "read" THEN told.row <= said.row ELSE said = told
    IN  CASE last.of = "here" -> alike
          [] last.of \in {"nowhere", "taken"} -> refused
          [] last.of = "elsewhere" -> refused \/ alike
          [] last.of = "parted" -> TRUE

TalkAgrees == \A channel \in Channels(Home) :
    /\ Memory!latestSeq(Home, channel) = Pg!latestSeq(Home, channel)
    /\ \A after \in 0..1, limit \in {None, 1} :
        Memory!listMessages(Home, channel, after, limit) = Pg!listMessages(Home, channel, after, limit)
    /\ Memory!searchMessages(Home, {Maker}, channel) = Pg!search(Home, {Maker}, channel)
    /\ Memory!channelArchived(Home, channel) = Pg!isArchived(Home, channel)
    /\ \A a \in Agent : Memory!getSeen(Home, a, channel) = Pg!getSeen(Home, a, channel)

BoardAgrees ==
    /\ Memory!staleOrphans = Pg!staleOrphans(Workspace)
    /\ \A ws \in Workspace :
        /\ Memory!listTasks(ws, <<>>) = Pg!listTasks(ws, <<>>)
        /\ \A s \in Status : Memory!listTasks(ws, [status |-> s]) = Pg!listTasks(ws, [status |-> s])
        /\ \A who \in Actors : Memory!listTasks(ws, [assignee |-> who]) = Pg!listTasks(ws, [assignee |-> who])

\* What both stores must know: the rows that hang on what is here.
Whole(table, rows) == SelectSeq(rows, LAMBDA r : <<table, r.id>> \notin parted)

MarksAgree == \A ws \in Workspace : LET all == Messages(ws) IN
    /\ \A m \in all :
        /\ Rows(Pg!listReactions(ws, {m})) \subseteq Rows(Memory!listReactionsFor(ws, {m}))
        /\ <<"reaction", m>> \notin parted => \A who \in Actors :
            summaryFor(Memory!listReactionsFor(ws, {m}), who) = summaryFor(Pg!listReactions(ws, {m}), who)
    /\ \A who \in Actors : /\ Memory!listSaved(ws, who) = Pg!listSaved(ws, who)
                           /\ Memory!savedSet(ws, who, all) = Pg!savedSet(ws, who, all)
    /\ Memory!listAttachmentsFor(ws, all) = Pg!listAttachments(ws, all)
    /\ Memory!listAttachmentsForChannel(ws, Number(ws)) = Pg!listAttachmentsForChannel(ws, Number(ws))
    /\ \A m \in all : Memory!unfollowedThreadHandles(ws, m) = Pg!unfollowedHandles(ws, m)
    /\ Whole("card", Memory!listPendingActions(ws)) = Whole("card", Pg!listPending(ws))

WholeAgents(ws, rows) == SelectSeq(rows, LAMBDA a : <<"agent", <<ws, a.id>>>> \notin parted)
FleetAgrees == \A ws \in Workspace :
    /\ WholeAgents(ws, Memory!listAgents(ws)) = WholeAgents(ws, Pg!listAgents(ws))
    /\ Memory!listMachines(ws) = Pg!listMachines(ws)
    /\ \A a \in Agent, limit \in 1..2 : Memory!listActivities(ws, a, limit) = Pg!listActivities(ws, a, limit)

WholeReminders(rows) == {r \in rows : <<"reminder", r.id>> \notin parted}
RemindersAgree ==
    /\ \A now \in Times :
        WholeReminders(Memory!dueAcrossWorkspaces(now)) = WholeReminders(Pg!dueAcrossWorkspaces(Workspace, now))
    /\ \A ws \in Workspace :
        /\ \A owner \in {"agent"} \X Agent :
            WholeReminders(Rows(Memory!listReminders(ws, owner))) = WholeReminders(Rows(Pg!listReminders(ws, owner)))
        /\ \A id \in Reminders(ws) : Pg!listEvents(ws, id) = Cons("scheduled", Memory!listEvents(id))

\* The side bar, in which PostgreSQL never counts fewer unread messages, and the
\* feed, in which it repeats as a reply a message that answers and mentions the
\* viewer.
BarsAgree == \A who \in Actors :
    LET old == Memory!serverInfo(Home, who)
        new == Pg!serverInfo(Home, who)
        here(entry) == entry[1] = "task" \/ Memory!getMessage(Home, entry[2]).channel \in Channels(Home)
        feed == {entry \in Memory!activityFeed(Home, who) : here(entry)}
        whole(agents) == {a \in agents : <<"agent", <<Home, a.handle>>>> \notin parted}
    IN  /\ whole(old.agents) = whole(new.agents) /\ old.humans = new.humans
        /\ \A c \in old.channels : \E d \in new.channels :
            /\ c.id = d.id /\ c.archived = d.archived /\ c.private = d.private /\ c.unread <= d.unread
            /\ c.joined => d.joined \/ who \in Taken(c.id)
            /\ c.memberCount <= d.memberCount + Cardinality(Taken(c.id))
        /\ Cardinality(old.channels) = Cardinality(new.channels)
        /\ feed \subseteq Pg!activity(Home, who)
        /\ \A entry \in Pg!activity(Home, who) \ feed : entry[1] = "reply" /\ <<"mention", entry[2]>> \in feed

\* types.ts: after the same calls every query finds the same in memory and on
\* PostgreSQL, in the same order where the order is fixed, but for the event
\* with which a reminder begins (pg/reminder.repo.ts) and for the rows of calls
\* that named what is in another workspace or nowhere.  Of a reaction that way
\* PostgreSQL may keep less, never more (schema.ts:204).
SameViews ==
    /\ suite \in {"talk", "channels"} => TalkAgrees /\ BarsAgree
    /\ suite = "board" => BoardAgrees /\ BarsAgree
    /\ suite = "marks" => MarksAgree
    /\ suite = "fleet" => FleetAgrees /\ BarsAgree
    /\ suite = "reminders" => RemindersAgree

InMemory(channel) == {m.who : m \in Memory!listChannelMembers(Home, channel)}
InTables(channel) == {m.who : m \in Pg!listMembers(Home, channel)}

\* repos.ts:708: on PostgreSQL the cursor of a reader is its membership, so that
\* reading makes a member of who is none, and leaving forgets what was read.
\* Apart from that members, cursors and peers are the same, nobody is missing
\* from a channel but whom another workspace has taken for it, and no message is
\* taken for read that is unread in memory.
CursorsDiffer == suite \in {"talk", "channels"} => \A channel \in Channels(Home) :
    LET taken == Taken(channel) IN
    /\ {m \in Memory!listChannelMembers(Home, channel) : m.who \notin taken} \subseteq Pg!listMembers(Home, channel)
    /\ "read" \notin asked => InMemory(channel) = InTables(channel)
    /\ InTables(channel) \ InMemory(channel) \subseteq {k[2] : k \in {l \in DOMAIN mem.read : l[1] = Home /\ l[3] = channel}}
    /\ \A who \in Actors : LET old == Memory!getRead(Home, who, channel)
                               new == Pg!getRead(Home, who, channel)
                           IN  new <= old /\ (asked \cap {"leave", "remove"} = {} /\ who \notin taken => new = old)
    /\ taken = {} =>
        Memory!dmPeerHandle(Home, channel) \in Pg!dmPeers(Home, channel) \cup (IF "read" \in asked THEN {None} ELSE {})

\* agent.ts:158: an agent that logged in and did not log out is logged in.
LoginIsRecorded == \A ws \in Workspace, a \in Agent : Memory!listLogins(ws, a) = Pg!listLogins(ws, a)
\* schema.ts:203: an actor has a reaction once it set it and until it takes it back.
ReactionIsKept == \A ws \in Workspace : \A m \in Messages(ws) :
    Rows(Memory!listReactionsFor(ws, {m})) = Rows(Pg!listReactions(ws, {m}))
\* types.ts:245: who joined a channel is a member of it.
JoinedIsMember == \A channel \in Channels(Home) : InMemory(channel) \subseteq InTables(channel)
\* What a test in memory shows of a call that names what is not there.
RefusedAlike == last.of = "nowhere" => said = told
=============================================================================
