---------------------------- MODULE MemoryStore ----------------------------
(***************************************************************************)
(* The repositories in memory (server/src/repo/memory/store.ts), which the *)
(* tests of the services run on: one object whose methods run to their end *)
(* on one thread, with every row kept under its workspace.                 *)
(*                                                                         *)
(* `mem` is that object, its lists in the order of insertion; `answer` is  *)
(* what the last call returned.  Names, descriptions, files and the slug   *)
(* of a channel are left out.                                              *)
(***************************************************************************)
EXTENDS Repository

VARIABLES mem, answer

Empty == [messages |-> <<>>, mentions |-> {}, reactions |-> <<>>, attachments |-> <<>>, saved |-> <<>>,
          threadUnfollows |-> {}, actionCards |-> <<>>, logins |-> {}, tasks |-> <<>>, seen |-> <<>>, read |-> <<>>,
          channels |-> <<>>, memberships |-> <<>>, agents |-> <<>>, machines |-> <<>>, activities |-> <<>>, users |-> {},
          reminders |-> <<>>, events |-> <<>>]

Reply(a) == answer' = a /\ UNCHANGED mem
Write(next, a) == answer' = a /\ mem' = next

In(ws, rows) == SelectSeq(rows, LAMBDA r : r.ws = ws)
Found(ws, rows, id) == First(In(ws, rows), LAMBDA r : r.id = id)
Replace(rows, row) == Each(rows, LAMBDA r : IF r.id = row.id /\ r.ws = row.ws THEN row ELSE r)
Without(rows, drop(_)) == SelectSeq(rows, LAMBDA r : ~drop(r))
PushNew(rows, row) == IF Contains(rows, row) THEN rows ELSE Append(rows, row)
ValueAt(map, key) == IF key \in DOMAIN map THEN map[key] ELSE 0

(***************************************************************************)
(* Messages and what hangs on them.                                        *)
(***************************************************************************)
latestSeq(ws, channel) == Largest({m.seq : m \in {r \in Rows(In(ws, mem.messages)) : r.channel = channel}})

appendMessage(ws, id, msg) ==
    LET row == [ws |-> ws, id |-> id, seq |-> latestSeq(ws, msg.channel) + 1] @@ msg
    IN  Write([mem EXCEPT !.messages = Append(@, row),
                          !.mentions = @ \cup {[ws |-> ws, message |-> row.id, handle |-> h] : h \in msg.content}], row)

getMessage(ws, id) == Found(ws, mem.messages, id)

listMessages(ws, channel, afterSeq, limit) ==
    LET rows == SelectSeq(In(ws, mem.messages), LAMBDA m : m.channel = channel /\ m.seq > afterSeq)
    IN  IF limit = None \/ limit >= Len(rows) THEN rows ELSE SubSeq(rows, 1, limit)

searchMessages(ws, query, channel) ==
    {m \in Rows(In(ws, mem.messages)) : query \subseteq m.content /\ channel \in {None, m.channel}}

addReaction(ws, message, who, emoji) ==
    Write([mem EXCEPT !.reactions = PushNew(@, [ws |-> ws, message |-> message, who |-> who, emoji |-> emoji])], None)
removeReaction(ws, message, who, emoji) ==
    Write([mem EXCEPT !.reactions = Without(@, LAMBDA r :
        r = [ws |-> ws, message |-> message, who |-> who, emoji |-> emoji])], None)
listReactionsFor(ws, messages) == SelectSeq(In(ws, mem.reactions), LAMBDA r : r.message \in messages)

createAttachment(ws, id, message, uploader) ==
    LET row == [ws |-> ws, id |-> id, message |-> message, uploader |-> uploader]
    IN  Write([mem EXCEPT !.attachments = Append(@, row)], row)
listAttachmentsFor(ws, messages) == SelectSeq(In(ws, mem.attachments), LAMBDA a : a.message \in messages)
listAttachmentsForChannel(ws, channel) ==
    LET ids == {m.id : m \in {r \in Rows(In(ws, mem.messages)) : r.channel = channel}}
    IN  Reverse(listAttachmentsFor(ws, ids))

addSaved(ws, who, message) ==
    Write([mem EXCEPT !.saved = PushNew(@, [ws |-> ws, who |-> who, message |-> message])], None)
removeSaved(ws, who, message) ==
    Write([mem EXCEPT !.saved = Without(@, LAMBDA s : s = [ws |-> ws, who |-> who, message |-> message])], None)
listSaved(ws, who) ==
    LET mine == Reverse(SelectSeq(In(ws, mem.saved), LAMBDA s : s.who = who))
    IN  Without(Each(mine, LAMBDA s : getMessage(ws, s.message)), LAMBDA m : m = None)
savedSet(ws, who, messages) ==
    {s.message : s \in {r \in Rows(In(ws, mem.saved)) : r.who = who /\ r.message \in messages}}

unfollowThread(ws, agent, thread) == Write([mem EXCEPT !.threadUnfollows = @ \cup {<<ws, agent, thread>>}], None)
followThread(ws, agent, thread) == Write([mem EXCEPT !.threadUnfollows = @ \ {<<ws, agent, thread>>}], None)
unfollowedThreadHandles(ws, thread) == {u[2] : u \in {v \in mem.threadUnfollows : v[1] = ws /\ v[3] = thread}}

createActionCard(ws, id, channel, preparedBy) ==
    LET row == [ws |-> ws, id |-> id, channel |-> channel, status |-> "pending", preparedBy |-> preparedBy,
                executedBy |-> None, resultRef |-> None]
    IN  Write([mem EXCEPT !.actionCards = Cons(row, @)], row)
getActionCard(ws, id) == Found(ws, mem.actionCards, id)
listPendingActions(ws) == SelectSeq(In(ws, mem.actionCards), LAMBDA c : c.status = "pending")
resolveActionCard(ws, id, status, by, ref) ==
    LET card == getActionCard(ws, id)
        row == [card EXCEPT !.status = status, !.executedBy = by, !.resultRef = ref]
    IN  \/ card = None /\ Reply(None)
        \/ card # None /\ card.status # "pending" /\ Reply(None)
        \/ card # None /\ card.status = "pending" /\ Write([mem EXCEPT !.actionCards = Replace(@, row)], row)

recordLogin(ws, agent, integration) == Write([mem EXCEPT !.logins = @ \cup {<<ws, agent, integration>>}], None)
removeLogin(ws, agent, integration) == Write([mem EXCEPT !.logins = @ \ {<<ws, agent, integration>>}], None)
listLogins(ws, agent) == {l[3] : l \in {k \in mem.logins : k[1] = ws /\ k[2] = agent}}

(***************************************************************************)
(* Tasks.                                                                  *)
(***************************************************************************)
getTask(ws, id) == Found(ws, mem.tasks, id)
WithTask(task) == [mem EXCEPT !.tasks = Replace(@, task)]

claimTask(ws, id, claimant) ==
    LET task == getTask(ws, id)
        result == decideClaim(task, claimant)
    IN  \/ task = None /\ Reply(Refused("not_claimable"))
        \/ /\ task # None /\ result.kind = "claimed"
           /\ Write(WithTask([task EXCEPT !.assignee = result.assignee, !.status = result.status]), result)
        \/ task # None /\ result.kind # "claimed" /\ Reply(result)

listTasks(ws, filter) ==
    LET rows == SelectSeq(In(ws, mem.tasks), LAMBDA t : \A f \in DOMAIN filter : t[f] = filter[f])
    IN  SortSeq(rows, LAMBDA s, t : s.number < t.number)

createTask(ws, t) ==
    LET row == [ws |-> ws, id |-> Len(mem.tasks) + 1, assignee |-> None, status |-> "todo",
                number |-> Largest({r.number : r \in Rows(In(ws, mem.tasks))}) + 1] @@ t
    IN  Write([mem EXCEPT !.tasks = Append(@, row)], row)

unclaimTask(ws, id, actor, next) ==
    LET task == getTask(ws, id)
        updated == [task EXCEPT !.assignee = None, !.status = next]
    IN  \/ task = None /\ Reply(Refused("not_found"))
        \/ task # None /\ (task.assignee = None \/ task.assignee # actor) /\ Reply(Refused("conflict"))
        \/ task # None /\ task.assignee = actor /\ Write(WithTask(updated), Done(updated))

updateTaskStatus(ws, id, expected, next) ==
    LET task == getTask(ws, id)
        updated == [task EXCEPT !.status = next]
    IN  \/ task = None /\ Reply(Refused("not_found"))
        \/ task # None /\ task.assignee # expected /\ Reply(Refused("conflict"))
        \/ task # None /\ task.assignee = expected /\ Write(WithTask(updated), Done(updated))

assignTask(ws, id, assignee) ==
    LET task == getTask(ws, id)
        fixed == task.anchored \/ task.status = "done"
        updated == [task EXCEPT !.assignee = assignee, !.status = OnClaim(@)]
    IN  \/ task = None /\ Reply(Refused("not_found"))
        \/ task # None /\ fixed /\ Reply(Refused("conflict"))
        \/ task # None /\ ~fixed /\ Write(WithTask(updated), Done(updated))

staleOrphans == {t \in Rows(mem.tasks) : t.assignee = None /\ t.status = "todo"}

(***************************************************************************)
(* Cursors.  Reading leaves the members of the channel as they are.        *)
(***************************************************************************)
getSeen(ws, agent, channel) == ValueAt(mem.seen, <<ws, agent, channel>>)
advanceSeen(ws, agent, channel, seq) ==
    LET next == advanceCursor(getSeen(ws, agent, channel), seq)
    IN  Write([mem EXCEPT !.seen = (<<ws, agent, channel>> :> next) @@ @], Done(next))

getRead(ws, member, channel) == ValueAt(mem.read, <<ws, member, channel>>)
advanceRead(ws, member, channel, seq) ==
    LET next == advanceCursor(getRead(ws, member, channel), seq)
    IN  Write([mem EXCEPT !.read = (<<ws, member, channel>> :> next) @@ @], Done(next))

(***************************************************************************)
(* Channels and their members.                                             *)
(***************************************************************************)
Info(c, joined) == [id |-> c.id, kind |-> c.kind, private |-> c.private, archived |-> c.archived, joined |-> joined]
Channel(ws, id) == Found(ws, mem.channels, id)
isMember(ws, channel, who) == \E m \in Rows(In(ws, mem.memberships)) : m.channel = channel /\ m.who = who
Enter(members, ws, channel, who, role) ==
    IF \E m \in Rows(members) : m.ws = ws /\ m.channel = channel /\ m.who = who THEN members
    ELSE Append(members, [ws |-> ws, channel |-> channel, who |-> who, role |-> role])
Leave(ws, channel, who) == Without(mem.memberships, LAMBDA m : m.ws = ws /\ m.channel = channel /\ m.who = who)

getOrCreateDm(ws, human, agent) ==
    LET old == First(In(ws, mem.channels), LAMBDA c : c.kind = "dm" /\ c.pair = <<Handle(human), agent>>)
        new == [ws |-> ws, id |-> Len(mem.channels) + 1, kind |-> "dm", pair |-> <<Handle(human), agent>>,
                private |-> TRUE, archived |-> FALSE]
    IN  \/ old # None /\ Reply(Info(old, TRUE))
        \/ /\ old = None
           /\ Write([mem EXCEPT !.channels = Append(@, new),
                     !.memberships = Enter(Enter(@, ws, new.id, human, "member"), ws, new.id, <<"agent", agent>>, "member")],
                    Info(new, TRUE))

dmPeerHandle(ws, id) ==
    LET c == Channel(ws, id)
        peer == First(In(ws, mem.memberships), LAMBDA m : m.channel = id /\ Type(m.who) = "agent")
    IN  IF c = None \/ peer = None \/ (c # None /\ c.kind # "dm") THEN None ELSE Handle(peer.who)

createChannel(ws, private, creator, members) ==
    LET new == [ws |-> ws, id |-> Len(mem.channels) + 1, kind |-> "channel", pair |-> None,
                private |-> private, archived |-> FALSE]
        owned == Enter(mem.memberships, ws, new.id, creator, "owner")
    IN  Write([mem EXCEPT !.channels = Append(@, new),
                          !.memberships = FoldLeft(LAMBDA rows, m : Enter(rows, ws, new.id, m, "member"), owned, members)],
              Info(new, TRUE))

listChannelMembers(ws, channel) == {[who |-> m.who, role |-> m.role] :
    m \in {r \in Rows(In(ws, mem.memberships)) : r.channel = channel}}

joinChannel(ws, who, id) ==
    LET c == Channel(ws, id)
    IN  \/ c = None /\ Reply(Refused("not_found"))
        \/ c # None /\ c.private /\ Reply(Refused("forbidden"))
        \/ /\ c # None /\ ~c.private
           /\ Write([mem EXCEPT !.memberships = Enter(@, ws, id, who, "member")], Done(Info(c, TRUE)))

addChannelMember(ws, id, who, role) ==
    LET c == Channel(ws, id)
        exists == IF Type(who) = "agent" THEN \E a \in Rows(mem.agents) : a.ws = ws /\ a.id = Handle(who)
                  ELSE <<ws, Handle(who)>> \in mem.users
    IN  \/ c = None /\ Reply(Refused("not_found"))
        \/ c # None /\ ~exists /\ Reply(Refused("invalid"))
        \/ c # None /\ exists /\ Write([mem EXCEPT !.memberships = Enter(@, ws, id, who, role)], Refused("ok"))

removeChannelMember(ws, id, who) ==
    \/ Channel(ws, id) = None /\ Reply(Refused("not_found"))
    \/ Channel(ws, id) # None /\ Write([mem EXCEPT !.memberships = Leave(ws, id, who)], Refused("ok"))

leaveChannel(ws, who, id) ==
    LET c == Channel(ws, id)
    IN  \/ c = None /\ Reply(Refused("not_found"))
        \/ c # None /\ Write([mem EXCEPT !.memberships = Leave(ws, id, who)], Done(Info(c, FALSE)))

setChannelArchived(ws, id, archived) ==
    LET c == Channel(ws, id)
    IN  \/ c = None /\ Reply(FALSE)
        \/ c # None /\ Write([mem EXCEPT !.channels = Replace(@, [c EXCEPT !.archived = archived])], TRUE)
channelArchived(ws, id) == LET c == Channel(ws, id) IN c # None /\ c.archived

\* What concerns a viewer: a message that mentions it and answers one of its own
\* messages is listed once, as the mention.
activityFeed(ws, viewer) ==
    LET messages == Rows(In(ws, mem.messages))
        mine == {m.id : m \in {r \in messages : r.sender = viewer}}
        mentioned == {x.message : x \in {y \in mem.mentions : y.ws = ws /\ y.handle = Handle(viewer)}}
        others == {m \in messages : m.sender # viewer}
    IN  {<<"mention", m.id>> : m \in {o \in others : o.id \in mentioned}}
        \cup {<<"reply", m.id>> : m \in {o \in others : o.id \notin mentioned /\ o.parent \in mine}}
        \cup {<<"task", t.id>> : t \in {r \in Rows(In(ws, mem.tasks)) : r.assignee = viewer}}

(***************************************************************************)
(* Agents, machines and people.                                            *)
(***************************************************************************)
listAgents(ws) == SortSeq(In(ws, mem.agents), LAMBDA a, b : a.rank < b.rank)
getAgent(ws, handle) == Found(ws, mem.agents, handle)

createAgent(ws, handle, rank, machine) ==
    LET row == [ws |-> ws, id |-> handle, rank |-> rank, profile |-> "new", machine |-> machine]
    IN  \/ getAgent(ws, handle) # None /\ Reply(Refused("duplicate"))
        \/ getAgent(ws, handle) = None /\ Write([mem EXCEPT !.agents = Append(@, row)], Done(row))

updateAgent(ws, handle, patch) ==
    LET row == patch @@ getAgent(ws, handle)
    IN  \/ getAgent(ws, handle) = None /\ Reply(None)
        \/ getAgent(ws, handle) # None /\ Write([mem EXCEPT !.agents = Replace(@, row)], row)

removeAgent(ws, handle) ==
    \/ getAgent(ws, handle) = None /\ Reply(FALSE)
    \/ /\ getAgent(ws, handle) # None
       /\ Write([mem EXCEPT !.agents = Without(@, LAMBDA a : a.ws = ws /\ a.id = handle)], TRUE)

listMachines(ws) == In(ws, mem.machines)
getMachine(ws, id) == Found(ws, mem.machines, id)
createMachine(ws, id) ==
    LET row == [ws |-> ws, id |-> id, name |-> "new", status |-> "offline", token |-> None, info |-> None, seen |-> FALSE]
    IN  Write([mem EXCEPT !.machines = Append(@, row)], row)

\* A change of one machine, which a machine that is gone does not hear of.
OnMachine(ws, id, patch, found, missing) ==
    LET row == patch @@ getMachine(ws, id)
    IN  \/ getMachine(ws, id) = None /\ Reply(missing)
        \/ getMachine(ws, id) # None /\ Write([mem EXCEPT !.machines = Replace(@, row)], IF found THEN row ELSE None)

renameMachine(ws, id, name) == OnMachine(ws, id, [name |-> name], TRUE, None)
setMachineTokenPrefix(ws, id, prefix) == OnMachine(ws, id, [token |-> prefix], FALSE, None)
setMachineStatus(ws, id, status) ==
    OnMachine(ws, id, IF status = "online" THEN [status |-> status, seen |-> TRUE] ELSE [status |-> status], FALSE, None)
updateMachineInfo(ws, id, info) == OnMachine(ws, id, [info |-> info, seen |-> TRUE], FALSE, None)
resetAllMachinesOffline == Write([mem EXCEPT !.machines = Each(@, LAMBDA m : [m EXCEPT !.status = "offline"])], None)

\* The agents of a deleted machine stay, on no machine.
deleteMachine(ws, id) ==
    \/ getMachine(ws, id) = None /\ Reply(FALSE)
    \/ /\ getMachine(ws, id) # None
       /\ Write([mem EXCEPT
            !.agents = Each(@, LAMBDA a : IF a.ws = ws /\ a.machine = id THEN [a EXCEPT !.machine = None] ELSE a),
            !.machines = Without(@, LAMBDA m : m.ws = ws /\ m.id = id)], TRUE)

appendActivity(ws, agent, activity) ==
    Write([mem EXCEPT !.activities = Append(@, [ws |-> ws, agent |-> agent, activity |-> activity])], None)
listActivities(ws, agent, limit) ==
    LET rows == SelectSeq(In(ws, mem.activities), LAMBDA a : a.agent = agent)
    IN  Reverse(SubSeq(rows, IF Len(rows) > limit THEN Len(rows) - limit + 1 ELSE 1, Len(rows)))

\* What the side bar of a viewer shows.
serverInfo(ws, viewer) ==
    [channels |-> {[id |-> c.id, archived |-> c.archived, private |-> c.private, joined |-> isMember(ws, c.id, viewer),
                    unread |-> unreadCount(getRead(ws, viewer, c.id), latestSeq(ws, c.id)),
                    memberCount |-> Cardinality(listChannelMembers(ws, c.id))] : c \in Rows(In(ws, mem.channels))},
     agents |-> {[handle |-> a.id, profile |-> a.profile, online |-> a.machine # None
                    /\ \E m \in Rows(In(ws, mem.machines)) : m.id = a.machine /\ m.status = "online"] :
                 a \in Rows(In(ws, mem.agents))},
     humans |-> {u[2] : u \in {v \in mem.users : v[1] = ws}}]

(***************************************************************************)
(* Reminders (repo/memory/reminder.repo.ts).                               *)
(***************************************************************************)
getReminder(ws, id) == Found(ws, mem.reminders, id)
createReminder(ws, id, channel, owner, kind, next) ==
    LET row == [ws |-> ws, id |-> id, anchorChannel |-> channel, owner |-> owner, kind |-> kind, nextFireAt |-> next,
                status |-> "scheduled"]
    IN  Write([mem EXCEPT !.reminders = Append(@, row)], row)
listReminders(ws, owner) == SortSeq(SelectSeq(In(ws, mem.reminders), LAMBDA r : r.owner = owner),
    LAMBDA r, q : r.nextFireAt < q.nextFireAt)
updateReminder(ws, id, owner, patch) ==
    LET cur == getReminder(ws, id)
    IN  \/ cur = None /\ Reply(Refused("not_found"))
        \/ cur # None /\ cur.owner # owner /\ Reply(Refused("forbidden"))
        \/ /\ cur # None /\ cur.owner = owner
           /\ Write([mem EXCEPT !.reminders = Replace(@, patch @@ cur)], Done(patch @@ cur))
appendEvent(ws, id, kind) == Write([mem EXCEPT !.events = Append(@, [id |-> id, kind |-> kind])], None)
listEvents(id) == Each(SelectSeq(mem.events, LAMBDA e : e.id = id), LAMBDA e : e.kind)
dueAcrossWorkspaces(now) ==
    {r \in Rows(mem.reminders) : r.status \in {"scheduled", "snoozed"} /\ r.nextFireAt > 0 /\ r.nextFireAt <= now}
markFired(ws, id, next, status) ==
    LET cur == getReminder(ws, id)
    IN  \/ cur = None /\ Reply(None)
        \/ cur # None /\ Write([mem EXCEPT !.reminders = Replace(@, [cur EXCEPT !.nextFireAt = next, !.status = status])], None)
=============================================================================
