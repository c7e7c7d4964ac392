------------------------------ MODULE PgStore ------------------------------
(***************************************************************************)
(* The repositories on PostgreSQL (server/src/repo/pg), each call a        *)
(* transaction of one tenant with no other transaction beside it; what     *)
(* happens when transactions interleave is the subject of MessageLog,      *)
(* Tasks, ActionCards and Reminders.                                       *)
(*                                                                         *)
(* `db` holds the tables, the rows of all workspaces together in the order *)
(* of their creation; `answer` is what the last call returned.  A          *)
(* transaction sees the rows of its own workspace only, but a unique       *)
(* constraint is checked against every row of its table, and a foreign key *)
(* against every row of the table it refers to (db/schema.ts).             *)
(***************************************************************************)
EXTENDS Repository

VARIABLES db, answer

Empty == [message |-> <<>>, mention |-> <<>>, reaction |-> <<>>, attachment |-> <<>>, saved |-> <<>>,
          threadUnfollow |-> <<>>, actionCard |-> <<>>, agentLogin |-> <<>>, task |-> <<>>, agentSeen |-> <<>>,
          channel |-> <<>>, channelMember |-> <<>>, agent |-> <<>>, machine |-> <<>>, agentActivity |-> <<>>,
          appUser |-> <<>>, reminder |-> <<>>, reminderEvent |-> <<>>]

Select(a) == answer' = a /\ UNCHANGED db
Commit(tables, a) == answer' = a /\ db' = tables
Violation == Select(Refused("constraint"))

\* Row level security: the statements of a transaction reach these rows.
Tenant(ws, table) == SelectSeq(table, LAMBDA r : r.ws = ws)
Where(ws, table, cond(_)) == SelectSeq(Tenant(ws, table), cond)
Some(ws, table, cond(_)) == First(Tenant(ws, table), cond)
ById(ws, table, id) == Some(ws, table, LAMBDA r : r.id = id)

Update(ws, table, cond(_), set(_)) == Each(table, LAMBDA r : IF r.ws = ws /\ cond(r) THEN set(r) ELSE r)
Delete(ws, table, cond(_)) == SelectSeq(table, LAMBDA r : ~(r.ws = ws /\ cond(r)))

\* INSERT ... ON CONFLICT DO NOTHING under the unique constraint on `key`.
InsertNew(table, row, key(_)) == IF \E r \in Rows(table) : key(r) = key(row) THEN table ELSE Append(table, row)

\* The foreign key on `id`, whose workspace it does not compare.
References(table, id) == \E r \in Rows(table) : r.id = id
NullOr(table, id) == id = None \/ References(table, id)

(***************************************************************************)
(* Messages and what hangs on them.                                        *)
(***************************************************************************)
latestSeq(ws, channel) == Largest({m.seq : m \in Rows(Where(ws, db.message, LAMBDA m : m.channel = channel))})

\* One message with a number in a channel (uq_message_channel_seq).
append(ws, id, msg) ==
    LET row == [ws |-> ws, id |-> id, seq |-> latestSeq(ws, msg.channel) + 1] @@ msg
        given == \E m \in Rows(db.message) : m.channel = row.channel /\ m.seq = row.seq
    IN  IF given \/ ~References(db.channel, msg.channel) THEN Violation
        ELSE Commit([db EXCEPT !.message = Append(@, row),
                 !.mention = @ \o Each(SetToSeq(msg.content), LAMBDA h : [ws |-> ws, message |-> row.id, handle |-> h])],
                    row)

getMessage(ws, id) == ById(ws, db.message, id)

listMessages(ws, channel, afterSeq, limit) ==
    LET after == Where(ws, db.message, LAMBDA m : m.channel = channel /\ m.seq > afterSeq)
        ordered == SortSeq(after, LAMBDA m, n : m.seq < n.seq)
    IN  IF limit = None THEN ordered ELSE SubSeq(ordered, 1, IF limit < Len(ordered) THEN limit ELSE Len(ordered))

search(ws, query, channel) == Rows(Where(ws, db.message,
    LAMBDA m : query \subseteq m.content /\ (channel # None => m.channel = channel)))

\* One reaction of an actor with an emoji to a message (uq_reaction_msg_actor_emoji).
addReaction(ws, message, who, emoji) ==
    IF ~References(db.message, message) THEN Violation
    ELSE Commit([db EXCEPT !.reaction = InsertNew(@, [ws |-> ws, message |-> message, who |-> who, emoji |-> emoji],
                                                  LAMBDA r : <<r.message, r.who, r.emoji>>)], None)
removeReaction(ws, message, who, emoji) ==
    Commit([db EXCEPT !.reaction = Delete(ws, @, LAMBDA r : r.message = message /\ r.who = who /\ r.emoji = emoji)], None)
listReactions(ws, messages) == Where(ws, db.reaction, LAMBDA r : r.message \in messages)

createAttachment(ws, id, message, uploader) ==
    LET row == [ws |-> ws, id |-> id, message |-> message, uploader |-> uploader]
    IN  IF ~NullOr(db.message, message) THEN Violation ELSE Commit([db EXCEPT !.attachment = Append(@, row)], row)
listAttachments(ws, messages) == Where(ws, db.attachment, LAMBDA a : a.message \in messages)
\* The join of attachments and messages, the latest first.
listAttachmentsForChannel(ws, channel) == Reverse(Where(ws, db.attachment,
    LAMBDA a : \E m \in Rows(Tenant(ws, db.message)) : m.id = a.message /\ m.channel = channel))

\* One bookmark of an actor on a message (uq_saved_actor_message).
addSaved(ws, who, message) ==
    IF ~References(db.message, message) THEN Violation
    ELSE Commit([db EXCEPT !.saved =
            InsertNew(@, [ws |-> ws, who |-> who, message |-> message], LAMBDA s : <<s.who, s.message>>)], None)
removeSaved(ws, who, message) ==
    Commit([db EXCEPT !.saved = Delete(ws, @, LAMBDA s : s.who = who /\ s.message = message)], None)
listSaved(ws, who) ==
    LET joined == Where(ws, db.saved, LAMBDA s : s.who = who /\ \E m \in Rows(Tenant(ws, db.message)) : m.id = s.message)
    IN  Each(Reverse(joined), LAMBDA s : getMessage(ws, s.message))
savedSet(ws, who, messages) == {s.message : s \in Rows(Where(ws, db.saved, LAMBDA s : s.who = who /\ s.message \in messages))}

unfollow(ws, agent, thread) ==
    Commit([db EXCEPT !.threadUnfollow = InsertNew(@, [ws |-> ws, agent |-> agent, thread |-> thread],
                                                   LAMBDA u : <<u.agent, u.thread>>)], None)
follow(ws, agent, thread) ==
    Commit([db EXCEPT !.threadUnfollow = Delete(ws, @, LAMBDA u : u.agent = agent /\ u.thread = thread)], None)
unfollowedHandles(ws, thread) == {u.agent : u \in Rows(Where(ws, db.threadUnfollow, LAMBDA u : u.thread = thread))}

createCard(ws, id, channel, preparedBy) ==
    LET row == [ws |-> ws, id |-> id, channel |-> channel, status |-> "pending", preparedBy |-> preparedBy,
                executedBy |-> None, resultRef |-> None]
    IN  IF ~NullOr(db.channel, channel) THEN Violation ELSE Commit([db EXCEPT !.actionCard = Append(@, row)], row)
getCard(ws, id) == ById(ws, db.actionCard, id)
listPending(ws) == Reverse(Where(ws, db.actionCard, LAMBDA c : c.status = "pending"))
resolveCard(ws, id, status, by, ref) ==
    LET pending(c) == c.id = id /\ c.status = "pending"
        table == Update(ws, db.actionCard, pending,
                        LAMBDA c : [c EXCEPT !.status = status, !.executedBy = by, !.resultRef = ref])
    IN  IF Some(ws, db.actionCard, pending) = None THEN Select(None)
        ELSE Commit([db EXCEPT !.actionCard = table], ById(ws, table, id))

\* One login of an agent with an integration (uq_agent_login), whose key leaves
\* the workspace out.
LoginKey(l) == <<l.agent, l.integration>>
recordLogin(ws, agent, integration) ==
    Commit([db EXCEPT !.agentLogin = InsertNew(@, [ws |-> ws, agent |-> agent, integration |-> integration], LoginKey)], None)
removeLogin(ws, agent, integration) ==
    Commit([db EXCEPT !.agentLogin = Delete(ws, @, LAMBDA l : l.agent = agent /\ l.integration = integration)], None)
listLogins(ws, agent) == {l.integration : l \in Rows(Where(ws, db.agentLogin, LAMBDA l : l.agent = agent))}

(***************************************************************************)
(* Tasks, each change under the condition of its UPDATE.                   *)
(***************************************************************************)
getTask(ws, id) == ById(ws, db.task, id)

\* UPDATE task SET ... WHERE id and `still`, RETURNING the row.
UpdateTask(ws, id, still(_), set(_)) == Update(ws, db.task, LAMBDA t : t.id = id /\ still(t), set)

claim(ws, id, claimant) ==
    LET cur == getTask(ws, id)
        status == OnClaim(cur.status)
        free(t) == t.assignee = None
    IN  \/ cur = None /\ Select(Refused("not_claimable"))
        \/ cur # None /\ cur.anchored /\ Select(Refused("not_claimable"))
        \/ cur # None /\ ~cur.anchored /\ cur.assignee = claimant /\ Select(Refused("already_mine"))
        \/ /\ cur # None /\ ~cur.anchored /\ cur.assignee # claimant
           /\ IF free(cur)
              THEN Commit([db EXCEPT !.task = UpdateTask(ws, id, free,
                                LAMBDA t : [t EXCEPT !.assignee = claimant, !.status = status])],
                          [kind |-> "claimed", assignee |-> claimant, status |-> status])
              ELSE Select([kind |-> "conflict", heldBy |-> cur.assignee])

listTasks(ws, filter) ==
    SortSeq(Where(ws, db.task, LAMBDA t : \A f \in DOMAIN filter : t[f] = filter[f]), LAMBDA s, t : s.number < t.number)

createTask(ws, t) ==
    LET row == [ws |-> ws, id |-> Len(db.task) + 1, assignee |-> None, status |-> "todo",
                number |-> Largest({r.number : r \in Rows(Tenant(ws, db.task))}) + 1] @@ t
    IN  Commit([db EXCEPT !.task = Append(@, row)], row)

\* A change that is made if its condition still holds, and answers what it made.
ChangeTask(ws, id, still(_), set(_)) ==
    LET cur == getTask(ws, id)
        table == UpdateTask(ws, id, still, set)
    IN  \/ cur = None /\ Select(Refused("not_found"))
        \/ cur # None /\ still(cur) /\ Commit([db EXCEPT !.task = table], Done(ById(ws, table, id)))
        \/ cur # None /\ ~still(cur) /\ Select(Refused("conflict"))

\* Mutant: whoever asks.
unclaimAnyones(ws, id, actor, next) ==
    ChangeTask(ws, id, LAMBDA t : TRUE, LAMBDA t : [t EXCEPT !.assignee = None, !.status = next])
unclaim(ws, id, actor, next) ==
    ChangeTask(ws, id, LAMBDA t : t.assignee = actor, LAMBDA t : [t EXCEPT !.assignee = None, !.status = next])
updateStatus(ws, id, expected, next) ==
    ChangeTask(ws, id, LAMBDA t : t.assignee = expected, LAMBDA t : [t EXCEPT !.status = next])
assign(ws, id, assignee) ==
    ChangeTask(ws, id, LAMBDA t : ~t.anchored /\ t.status # "done",
               LAMBDA t : [t EXCEPT !.assignee = assignee, !.status = OnClaim(@)])

staleOrphans(workspaces) ==
    UNION {Rows(Where(ws, db.task, LAMBDA t : t.assignee = None /\ t.status = "todo")) : ws \in workspaces}

(***************************************************************************)
(* Cursors.  That of a reader is a column of its membership, so that       *)
(* reading makes a member of who is none.                                  *)
(***************************************************************************)
getSeen(ws, agent, channel) ==
    LET row == Some(ws, db.agentSeen, LAMBDA r : r.agent = agent /\ r.channel = channel)
    IN  IF row = None THEN 0 ELSE row.modelSeenSeq
advanceSeen(ws, agent, channel, seq) ==
    LET mine(r) == r.agent = agent /\ r.channel = channel
        table == IF Some(ws, db.agentSeen, mine) = None
                 THEN Append(db.agentSeen, [ws |-> ws, agent |-> agent, channel |-> channel, modelSeenSeq |-> seq])
                 ELSE Update(ws, db.agentSeen, mine, LAMBDA r : [r EXCEPT !.modelSeenSeq = advanceCursor(@, seq)])
    IN  IF ~References(db.channel, channel) THEN Violation
        ELSE Commit([db EXCEPT !.agentSeen = table], Done(Some(ws, table, mine).modelSeenSeq))

MemberKey(m) == <<m.channel, m.who>>
Member(ws, channel, who, role, read) == [ws |-> ws, channel |-> channel, who |-> who, role |-> role, lastReadSeq |-> read]
MemberRow(ws, channel, who) == Some(ws, db.channelMember, LAMBDA m : MemberKey(m) = <<channel, who>>)

\* A member may be taken for its channel by the row of another workspace: the
\* primary key leaves the workspace out.
Elsewhere(ws, channel, who) == \E m \in Rows(db.channelMember) : m.ws # ws /\ MemberKey(m) = <<channel, who>>

getRead(ws, member, channel) ==
    LET row == MemberRow(ws, channel, member) IN IF row = None THEN 0 ELSE row.lastReadSeq
advanceRead(ws, member, channel, seq) ==
    LET mine(m) == MemberKey(m) = <<channel, member>>
        table == IF MemberRow(ws, channel, member) = None
                 THEN Append(db.channelMember, Member(ws, channel, member, "member", seq))
                 ELSE Update(ws, db.channelMember, mine, LAMBDA m : [m EXCEPT !.lastReadSeq = advanceCursor(@, seq)])
    IN  IF ~References(db.channel, channel) \/ Elsewhere(ws, channel, member) THEN Violation
        ELSE Commit([db EXCEPT !.channelMember = table], Done(Some(ws, table, mine).lastReadSeq))

(***************************************************************************)
(* Channels and their members.                                             *)
(***************************************************************************)
Info(c, joined) == [id |-> c.id, kind |-> c.kind, private |-> c.private, archived |-> c.archivedAt, joined |-> joined]
Channel(ws, id) == ById(ws, db.channel, id)
Join(table, ws, channel, who, role) == InsertNew(table, Member(ws, channel, who, role, 0), MemberKey)
\* Mutant: the type of the member is left out.
PartByHandle(ws, channel, who) ==
    Delete(ws, db.channelMember, LAMBDA m : m.channel = channel /\ Handle(m.who) = Handle(who))
Part(ws, channel, who) == Delete(ws, db.channelMember, LAMBDA m : MemberKey(m) = <<channel, who>>)

getOrCreateDm(ws, human, agent) ==
    LET old == Some(ws, db.channel, LAMBDA c : c.slug = <<Handle(human), agent>>)
        new == [ws |-> ws, id |-> Len(db.channel) + 1, kind |-> "dm", slug |-> <<Handle(human), agent>>,
                private |-> TRUE, archivedAt |-> FALSE]
    IN  IF old # None THEN Select(Info(old, TRUE))
        ELSE Commit([db EXCEPT !.channel = Append(@, new),
                     !.channelMember = Join(Join(@, ws, new.id, human, "member"), ws, new.id, <<"agent", agent>>, "member")],
                    Info(new, TRUE))

\* The rows of a table come in no order: any agent among the members may be taken.
dmPeers(ws, id) ==
    LET c == Channel(ws, id)
        agents == Where(ws, db.channelMember, LAMBDA m : m.channel = id /\ Type(m.who) = "agent")
    IN  IF c = None THEN {None} ELSE IF c.kind # "dm" \/ agents = <<>> THEN {None}
        ELSE {Handle(m.who) : m \in Rows(agents)}

create(ws, private, creator, members) ==
    LET new == [ws |-> ws, id |-> Len(db.channel) + 1, kind |-> "channel", slug |-> None,
                private |-> private, archivedAt |-> FALSE]
        initial == SelectSeq(members, LAMBDA m : m # creator)
        owned == Join(db.channelMember, ws, new.id, creator, "owner")
    IN  Commit([db EXCEPT !.channel = Append(@, new),
                          !.channelMember = FoldLeft(LAMBDA t, m : Join(t, ws, new.id, m, "member"), owned, initial)],
               Info(new, TRUE))

listMembers(ws, channel) == {[who |-> m.who, role |-> m.role] : m \in Rows(Where(ws, db.channelMember, LAMBDA m : m.channel = channel))}

join(ws, who, id) ==
    LET c == Channel(ws, id)
    IN  IF c = None THEN Select(Refused("not_found"))
        ELSE IF c.private THEN Select(Refused("forbidden"))
        ELSE Commit([db EXCEPT !.channelMember = Join(@, ws, id, who, "member")], Done(Info(c, TRUE)))

leave(ws, who, id) ==
    LET c == Channel(ws, id)
    IN  IF c = None THEN Select(Refused("not_found"))
        ELSE Commit([db EXCEPT !.channelMember = Part(ws, id, who)], Done(Info(c, FALSE)))

addMember(ws, id, who, role) ==
    LET exists == IF Type(who) = "agent" THEN ById(ws, db.agent, Handle(who)) # None
                  ELSE Some(ws, db.appUser, LAMBDA u : u.handle = Handle(who)) # None
    IN  IF Channel(ws, id) = None THEN Select(Refused("not_found"))
        ELSE IF ~exists THEN Select(Refused("invalid"))
        ELSE Commit([db EXCEPT !.channelMember = Join(@, ws, id, who, role)], Refused("ok"))

removeMember(ws, id, who) ==
    IF Channel(ws, id) = None THEN Select(Refused("not_found"))
    ELSE Commit([db EXCEPT !.channelMember = Part(ws, id, who)], Refused("ok"))

setArchived(ws, id, archived) ==
    Commit([db EXCEPT !.channel = Update(ws, @, LAMBDA c : c.id = id, LAMBDA c : [c EXCEPT !.archivedAt = archived])],
           Channel(ws, id) # None)
isArchived(ws, id) == LET c == Channel(ws, id) IN c # None /\ c.archivedAt

\* What concerns a viewer, in three queries: a message may come out of two of them.
activity(ws, viewer) ==
    LET mentions == {m \in Rows(Tenant(ws, db.message)) :
                        \E x \in Rows(Tenant(ws, db.mention)) : x.message = m.id /\ x.handle = Handle(viewer)}
        mine == {m.id : m \in Rows(Where(ws, db.message, LAMBDA m : m.sender = viewer))}
        replies == Rows(Where(ws, db.message, LAMBDA m : m.parent \in mine))
        tasks == Rows(Where(ws, db.task, LAMBDA t : t.assignee = viewer))
    IN  {<<"mention", m.id>> : m \in {n \in mentions : n.sender # viewer}}
        \cup {<<"reply", m.id>> : m \in {n \in replies : n.sender # viewer}}
        \cup {<<"task", t.id>> : t \in tasks}

(***************************************************************************)
(* Agents, machines and people.                                            *)
(***************************************************************************)
listAgents(ws) == SortSeq(Tenant(ws, db.agent), LAMBDA a, b : a.rank < b.rank)
getAgent(ws, handle) == ById(ws, db.agent, handle)

createAgent(ws, handle, rank, machine) ==
    LET row == [ws |-> ws, id |-> handle, rank |-> rank, profile |-> "new", machine |-> machine]
    IN  IF getAgent(ws, handle) # None THEN Select(Refused("duplicate"))
        ELSE IF ~NullOr(db.machine, machine) THEN Violation
        ELSE Commit([db EXCEPT !.agent = Append(@, row)], Done(row))

updateAgent(ws, handle, patch) ==
    LET table == Update(ws, db.agent, LAMBDA a : a.id = handle, LAMBDA a : patch @@ a)
    IN  IF patch = <<>> THEN Select(getAgent(ws, handle))
        ELSE IF ById(ws, table, handle) # None /\ ~NullOr(db.machine, ById(ws, table, handle).machine) THEN Violation
        ELSE Commit([db EXCEPT !.agent = table], ById(ws, table, handle))

removeAgent(ws, handle) ==
    Commit([db EXCEPT !.agent = Delete(ws, @, LAMBDA a : a.id = handle)], getAgent(ws, handle) # None)

listMachines(ws) == Tenant(ws, db.machine)
getMachine(ws, id) == ById(ws, db.machine, id)
createMachine(ws, id) ==
    LET row == [ws |-> ws, id |-> id, name |-> "new", status |-> "offline", token |-> None, info |-> None, seen |-> FALSE]
    IN  Commit([db EXCEPT !.machine = Append(@, row)], row)

SetMachine(ws, id, patch) == [db EXCEPT !.machine = Update(ws, @, LAMBDA m : m.id = id, LAMBDA m : patch @@ m)]
rename(ws, id, name) == LET next == SetMachine(ws, id, [name |-> name]) IN Commit(next, ById(ws, next.machine, id))
setTokenPrefix(ws, id, prefix) == Commit(SetMachine(ws, id, [token |-> prefix]), None)
setStatus(ws, id, status) ==
    Commit(SetMachine(ws, id, IF status = "online" THEN [status |-> status, seen |-> TRUE] ELSE [status |-> status]), None)
updateInfo(ws, id, info) == Commit(SetMachine(ws, id, [info |-> info, seen |-> TRUE]), None)
resetAllOffline(workspaces) ==
    Commit([db EXCEPT !.machine = Each(@, LAMBDA m :
        IF m.ws \in workspaces /\ m.status # "offline" THEN [m EXCEPT !.status = "offline"] ELSE m)], None)

\* The foreign key of the agents is ON DELETE SET NULL.  Mutant: it is not.
deleteMachineOnly(ws, id) ==
    IF getMachine(ws, id) = None THEN Select(FALSE)
    ELSE Commit([db EXCEPT !.machine = Delete(ws, @, LAMBDA m : m.id = id)], TRUE)
deleteMachine(ws, id) ==
    IF getMachine(ws, id) = None THEN Select(FALSE)
    ELSE Commit([db EXCEPT !.machine = Delete(ws, @, LAMBDA m : m.id = id),
                           !.agent = Each(@, LAMBDA a : IF a.machine = id THEN [a EXCEPT !.machine = None] ELSE a)], TRUE)

appendActivity(ws, agent, what) ==
    Commit([db EXCEPT !.agentActivity = Append(@, [ws |-> ws, agent |-> agent, activity |-> what])], None)
listActivities(ws, agent, limit) ==
    LET latest == Reverse(Where(ws, db.agentActivity, LAMBDA a : a.agent = agent))
    IN  SubSeq(latest, 1, IF limit < Len(latest) THEN limit ELSE Len(latest))

\* What the side bar of a viewer shows, from one read of each table.
serverInfo(ws, viewer) ==
    LET members == Rows(Tenant(ws, db.channelMember))
        own == {m \in members : m.who = viewer}
        lastRead(c) == Largest({m.lastReadSeq : m \in {o \in own : o.channel = c.id}})
        online == {m.id : m \in Rows(Where(ws, db.machine, LAMBDA m : m.status = "online"))}
    IN  [channels |-> {[id |-> c.id, archived |-> c.archivedAt, private |-> c.private,
                        joined |-> c.id \in {m.channel : m \in own}, unread |-> unreadCount(lastRead(c), latestSeq(ws, c.id)),
                        memberCount |-> Cardinality({m \in members : m.channel = c.id})] : c \in Rows(Tenant(ws, db.channel))},
         agents |-> {[handle |-> a.id, profile |-> a.profile, online |-> a.machine \in online] : a \in Rows(Tenant(ws, db.agent))},
         humans |-> {u.handle : u \in Rows(Tenant(ws, db.appUser))}]

(***************************************************************************)
(* Reminders (repo/pg/reminder.repo.ts), which begin with an event.        *)
(***************************************************************************)
getReminder(ws, id) == ById(ws, db.reminder, id)
createReminder(ws, id, channel, owner, kind, next) ==
    LET row == [ws |-> ws, id |-> id, anchorChannel |-> channel, owner |-> owner, kind |-> kind, nextFireAt |-> next,
                status |-> "scheduled"]
    IN  IF ~NullOr(db.channel, channel) THEN Violation
        ELSE Commit([db EXCEPT !.reminder = Append(@, row),
                               !.reminderEvent = Append(@, [ws |-> ws, id |-> id, kind |-> "scheduled"])], row)
listReminders(ws, owner) == SortSeq(Where(ws, db.reminder, LAMBDA r : r.owner = owner),
    LAMBDA r, q : r.nextFireAt # 0 /\ (q.nextFireAt = 0 \/ r.nextFireAt < q.nextFireAt))
updateReminder(ws, id, owner, patch) ==
    LET cur == getReminder(ws, id)
        table == Update(ws, db.reminder, LAMBDA r : r.id = id /\ r.owner = owner, LAMBDA r : patch @@ r)
    IN  IF cur = None THEN Select(Refused("not_found"))
        ELSE IF cur.owner # owner THEN Select(Refused("forbidden"))
        ELSE Commit([db EXCEPT !.reminder = table], Done(ById(ws, table, id)))
appendEvent(ws, id, kind) ==
    IF ~References(db.reminder, id) THEN Violation
    ELSE Commit([db EXCEPT !.reminderEvent = Append(@, [ws |-> ws, id |-> id, kind |-> kind])], None)
listEvents(ws, id) == Each(Where(ws, db.reminderEvent, LAMBDA e : e.id = id), LAMBDA e : e.kind)
dueAcrossWorkspaces(workspaces, now) == UNION {Rows(Where(ws, db.reminder,
    LAMBDA r : r.status \in {"scheduled", "snoozed"} /\ r.nextFireAt # 0 /\ r.nextFireAt <= now)) : ws \in workspaces}
markFired(ws, id, next, status) ==
    Commit([db EXCEPT !.reminder = Update(ws, @, LAMBDA r : r.id = id,
                LAMBDA r : [r EXCEPT !.nextFireAt = next, !.status = status])], None)
=============================================================================
