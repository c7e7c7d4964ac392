# OpenSlock: formal models

TLA+ models of OpenSlock (the repository this directory sits beside): a Fastify
server over Postgres, a daemon that runs agents on a machine, the command line
the agents use, and a web client. The models are about the collaboration
protocol: claim-before-work, freshness holds, delivery of wakes, reminders and
the escalation of orphaned tasks; about what surrounds it, accounts and members,
machines and the import of agents, messages with files; and about the two places
where one state is kept twice, the web page and the store in memory.

## Inventory

| Component | State it keeps | Operations | What is hard | Correct when |
|---|---|---|---|---|
| Task board (`services/task.service.ts`, `repo/pg/repos.ts` tasks) | assignee, status, number | create, claim, unclaim, assign, updateStatus | a call is several statements; rights and statuses decided on a row that changes before the write | one holder at a time, handed over by right |
| Message log (`services/message.service.ts`, `repo/pg/repos.ts` messages, drafts, seen) | messages with `seq`, drafts, `model_seen_seq`, `archived_at` | append, send, draft, read, archive | seq allocation under concurrency; the freshness preflight is not atomic with the append | dense numbers, append-only; a post is not made over unseen messages |
| Read state (`services/read-state.service.ts`) | `last_read_seq` | markRead, unread | cursors from the client, out of order, any number | cursors never go back, read implies seen |
| Reminders (`services/reminder*.ts`, `repo/pg/reminder.repo.ts`) | status, `next_fire_at` | schedule, snooze, update, cancel, tick | a tick works on a snapshot; ticks overlap; owner edits race the worker | what is due fires, once |
| Orphan sweeper (`services/orphan-sweeper.ts`) | in-memory escalation map | tick | memory lost at restart; a batch without order | every orphan reaches someone, humans are told once |
| Action cards (`services/action.service.ts`) | pending, executed, dismissed | prepare, execute, dismiss | the side effect precedes the guarded update | one outcome per card, which names what it made |
| Members (`services/members.service.ts`) | role per member | set role, remove, join | checks and writes are separate statements | an owner remains unless two calls race; one membership per account |
| Control plane (`realtime/control-plane.ts`, `daemon-hub.ts`) | connections per machine, pending requests, machine status | connect, hello, request, reply, close, dispatch | a close during the token lookup; request ids reused after a restart; racing status writes | status follows the hub; a reply settles its own request |
| Wake routing (`services/wake.service.ts`) | none | onMessage, triage | who is woken for which message | mentions arrive; nobody is woken twice or after leaving |
| Daemon (`daemon/src/serve.ts`) | running tasks, slots, wait queue | wake, run, finish, reconnect | a slot handed over while others ask for it; a wake during a run of the same task | one run per task, bounded slots, fair queue |
| Agent run (`runner.ts`, `workspace.ts`, `token.ts`, `prompt.ts`, `runtimes/claude.ts`) | the agent's files: MEMORY.md, command, prompt, a work log per task | get a token, prepare, start, work, end | runs of one agent side by side on shared files; a process outlives its daemon | a run goes on from its task's log, with its own prompt |
| Browser hub, bus and web client (`realtime/hub.ts`, `bus.ts`, `web/src/ws.ts`, `useCrew.ts`) | sockets; the page's copies of channels, messages, boards, computers and cards | subscribe, fan out; select, load, mark read | loads that overlap; events lost with the socket; changes that tell nobody | when all is quiet the page shows what the server has |
| Accounts (`auth/`, `TokenGate.vue`, `JoinPage.vue`, `WorkspaceSwitcher.vue`) | accounts, workspaces, memberships, the pointer to the last workspace, invitations, OAuth states, the token of a tab | signup, login, create, switch, join, OAuth callback, leave | several statements that are not one transaction, and answers that get lost | whoever is let in is a member of a workspace that is whole |
| Attachments (`attachment.service.ts`, `blob-store.ts`, `ChatView.vue`) | rows and bytes | submit, upload, clean up | the message is posted before its files; one half of a pair of writes fails | a file that is shown can be fetched; no bytes without a row |
| Machines, agents, import (`services-context.ts`, `machine.service.ts`, `agent.service.ts`, `daemon/src/workspace-import.ts`) | rows, tokens, the directories of a computer | create, bind, delete, inspect, import | the daemon copies on when the server has given up | a failed import leaves no agent, one that is done is complete |
| Repositories (`repo/pg`, `repo/memory`) | tables, or arrays | the calls of `repo/types.ts` | two implementations, and only one is under the tests of the services; ids that nobody looks up | both answer alike, but where a constraint of the tables decides |

## Modules

Each module models the server one awaited database call at a time: in Node
nothing else interleaves, and between two awaits anything may. A call in flight
is a record `req[r]` whose `pc` names the next statement; `Request` is the set
of calls that may be in flight together. A `Crash` (or `Lose`) ends calls
between any two statements. Statements are atomic, as in Postgres under READ
COMMITTED; a `WHERE` is a guard on the state at the time of the statement, an
unlocked `SELECT` is a value remembered in the record.

| Module | Code | State and actions |
|---|---|---|
| `Tasks` | `task.service.ts`, `repos.ts` tasks, `domain/claim.ts`, `domain/task-ops.ts` | `assignee`, `status` are the columns; a claim is `Claim`, `ClaimSelect`, `ClaimUpdate`, `ClaimReread`, the other calls likewise. `holders` is a history of who was told that the task is theirs. |
| `MessageLog`, `ChannelLog` | `repos.ts` messages.append, `domain/seq.ts` | An append is `Begin`, `TakeLock` (the advisory lock), `ReadMax`, `Insert`, or `Abort`. `ChannelLog` is the promise: one message goes to the end of one channel. |
| `Freshness` | `message.service.ts`, `read-state.service.ts`, `domain/freshness.ts`, claim's preflight | One channel. `seen` and `read` are the cursors, `log` the channel's authors; the preflight and the append are steps of their own. |
| `Reminders` | `reminder.service.ts`, `reminder-worker.ts`, `reminder.repo.ts` | The rows, and per round of the worker what is left of its snapshot; `fires`, `promise` (the time an owner or a cron set that is still owed) and `disturbed` are history. Only a reminder of `Anchored` has a channel to be posted to. |
| `OrphanSweeper` | `orphan-sweeper.ts` | The orphans, the Map `escalated`, the rounds, any number at a time; whether the triage reaches a manager is a free choice. `contested` is the history of tasks that two rounds worked on at a time. |
| `ControlPlane` | `control-plane.ts`, `daemon-hub.ts`, connection part of `serve.ts` | Sockets with events the server has still to see, `hub`, status transactions on their way, the Map of requests, the jobs and replies of the daemon. |
| `Fleet` | `services-context.ts` import and file view, `machine.service.ts`, `agent.service.ts`, `routes/daemon.ts`, `workspace-import.ts` | Extends `ControlPlane`: `machine`, `agent` are the rows, `op[q]` a call in flight, `work[q]` the daemon's side of an import, `disk` the directories it writes. |
| `DaemonServe` | `serve.ts` agent:start, acquireSlot, releaseSlot | `running`, `agentSlots`, `waitQueue`, and every handler of a wake in `run`. |
| `AgentRuns` | `runner.ts`, `workspace.ts`, `token.ts`, `prompt.ts`, `runtimes/claude.ts` | Extends `DaemonServe`: `home` is what is in the agent's files, `step[i]` how far the run of a handler is and what it read; a write empties the file in one step and fills it in another. |
| `WakeRouting` | `wake.service.ts`, dispatch in `daemon-hub.ts`, the posting handlers with their task hook (`web.ts:120-172`), hand-over, `worklog-prune.ts` | Composes the routing of messages with the daemons of `DaemonServe`: a wake travels on `wire`; a message goes through `Hook`, `Route`, `WakePeer`, its task through `Assign`, `HandOver` (the wake that follows an assignment), `Done`, `Prune`. `Namesake` is the agent that a person is named like, for the two places that compare handles alone. |
| `Posting` | `ChatView.vue` submit, `useCrew.ts` sendWithFiles, `attachment.service.ts`, `blob-store.ts` | Extends `MessageLog`: a submission checks, appends and uploads file by file; `blob` and `row` are the two halves of an attachment. |
| `Routes` | the handlers of `web.ts`, `agent.ts` and the workers | Not a state machine: for each route the stages in which it commits, and the events each emits. |
| `WebClient` | `useCrew.ts`, `ws.ts`, `ActionsView.vue`, `hub.ts`, `bus.ts` | One page. A column of a channel is the number of its changes, so that "current" is an equation. Every GET is read by the server in one step and stored by the page in another; `excused` remembers why the page may be old. |
| `ActionCards` | `action.service.ts`, `repos.ts` actionCards | Cards, the resources made for them with their unique names, calls of execute and dismiss. |
| `Membership` | `members.service.ts`, join in `auth/service.ts` | One workspace: memberships, profiles, and calls that change roles, remove and join, the check of the caller's role and the SELECT of the member being two steps. `raced` is the history of an owner taken while another call was about to take one. |
| `Accounts` | `auth/service.ts`, `oauth.ts`, their routes and pages | Many workspaces: what `Membership` leaves out. A tab has one call in flight, a row of single statements; `joined` is the history of who was a member. |
| `Repository`, `MemoryStore`, `PgStore`, `Repositories` | `repo/types.ts`, `repo/memory/*.ts`, `repo/pg/*.ts`, `db/schema.ts`, `db/rls.sql` | `MemoryStore` and `PgStore` translate the two implementations call by call, `PgStore` with row level security, the unique keys and the foreign keys; `Repositories` makes every call of both and keeps both answers. `last` and `parted` remember which calls named a row of another workspace or of none. |

`ModuleProofs` holds the proofs about `Module`, `MCModule` its instance for TLC;
`FleetProofs` is also about `ControlPlane`. `Teamwork` puts `Freshness` and `Tasks`
side by side, `Rounds` does so with `Reminders` and `OrphanSweeper`, `Workspaces` with
`Accounts`, `Membership` and `ActionCards`: they have no state in common, and runs and
proofs look at one of them at a time.
An operator with a suffix that a comment calls a mutant is a bug one could have
written in its place; each property of a run is violated when one of them
replaces the original.
A suite that checks several models, or one model from several sides, says so in its
MC module: `MCWorkspaces` moves in one of `Part` (people, cards, pages), `MCMessageLog`,
`MCWakeRouting` and `MCFleet` keep to the union of a few regions, each wide in one
direction. A region is a condition on the next state, so it cuts behaviours off and
adds none; each is listed below.

## Runs

| Run | Bounds | What it shows |
|---|---|---|
| `tasks` | 1 task, 1 human, 2 agents, 3 calls in flight | At most one actor has been told that it holds the task, and it is the assignee; the task changes hands by right; an agent's status lands only while it is the assignee, although the right was decided on an earlier read. Two claims and a third call that disturbs them need three calls; tasks do not interact, so one is enough. |
| `message_log` | `Appends`: 2 channels, 2 senders, 3 transactions. `Files`: 1 channel that may be archived, 2 submissions of up to 2 files, the second a new try of the first | Numbers are dense with aborts at every step, the unique constraint never bites, and `MessageLog` implements `ChannelLog`: a third append finds the number of one that aborted while a second waits. A shown file has its bytes and no bytes lie about, but for the failures the properties name. |
| `freshness` | 1 human, 1 agent, 2 calls, 2 messages, a seq that is marked read anywhere from 0 to 2 | What was read counts as seen, and a preflight misses nothing that was there when the call was made, in whichever order cursor and latest seq are read. |
| `freshness_race` | the same | **Violation.** A message committed between preflight and append goes unseen. |
| `reminders` | 2 reminders, one of them anchored in a channel, 2 rounds that may overlap, clock 0..1, batch 2, any number of restarts | What is due and has a channel is posted, and nothing but the post or the owner takes what is owed away: the worker's own marks do not. It is posted once for each time it was set for unless two rounds had it or it was posted and not marked when the server ended. Two rounds and two reminders make a round hold a stale snapshot of the other reminder. |
| `orphans` | 2 tasks, 2 rounds that may overlap, thresholds 1 and 0, clock 0..2, batch 2, 1 restart | Every stale orphan is met, and reaches the humans if the triage did not help; in a life of the server they hear of it at most once, unless two rounds worked on it at a time. A second threshold of 0 makes a task late in the round after its triage; the length of the grace is nothing these depend on, and a task may still be claimed and given back between rounds. |
| `fleet` | 1 machine, 2 requests, 1 restart, 1 file, 2 handles, 2 tokens. `Connections`: a connection and its successor, with the first message or inspections. `Imports`: two calls, one of them an import, over a connection that may break before the restart. `Directory`: forms, deletion, binding, tokens over one that holds | The status is what the hub says unless two status transactions met; the Map of requests is exact; within one life no reply settles the wrong request; a failed import leaves no agent, unless the removal of its row fails as well, and one reported done is complete. Two requests are a late one and its successor, or an import and whoever takes its handle. |
| `wake` | 2 people (one named like the agent that is the manager), 2 agents (one bound to a machine, one not), 2 machines, 1 slot. `Wide`: one message to both. `Deep`: two messages to one agent, and a restart. `Hooked`: one message as a task, with hand-over and end | An agent's message wakes only whom it mentions; outside direct channels nobody is woken twice or in a thread it left; a mention or a task is on its way to every agent concerned that is connected; slots are counted right, the queue is first in first out, and no task has two handlers on one daemon. |
| `agent_runs` | 1 machine, 1 agent, 2 tasks, 2 slots, 3 wakes, 1 restart | A working directory is one process's at a time and a run goes on from all that was written to the log of its task, unless a daemon left a process behind; a run is started with its own prompt and a memory in it, unless another of the agent was prepared meanwhile. Three wakes are two runs side by side and one that follows either. |
| `client` | 2 channels (one of them direct), 2 requests served at a time, 2 happenings (a request of the page or of anybody, a channel marked read in another page of the same person, a selection, the page opened anew, a failure) with everything that follows from them, 3 loads under way | When nothing is under way the page shows what the server has, and no badge on the channel it shows, unless for a reason the model names: a failure, an answer that overtook a newer one, a change without an event. Two happenings make two loads of one channel overlap, or a load and a selection. |
| `workspaces` | Cards: 2 cards of one name, 3 calls that may be lost. Pages: 2 people, 2 tabs, 2 workspaces, 1 OAuth state, 3 calls that overlap, 1 restart. People: 2 accounts of one name, 2 calls at a time, each of which may manage or join, 3 handles, 3 rows | One call wins a card, an executed card names what was made for it, and no two channels share a name, however calls overlap: three calls are two that race for a card and one that makes the other card's channel of the same name. Whoever is let in, or pointed to a workspace, is or was a member; a workspace is whole before anyone is in it, and its maker is first. Two tabs of one person race each other; the second workspace is one of somebody else. An owner remains unless one call takes an owner while another, past its count, is about to take one: two calls are the two that race, and two accounts the two last owners. Memberships and profiles match as long as calls do not overlap; with a third row one account has left and joined again. |
| `repositories` | Every history of 4 calls of one suite (talk, channels, board, marks, fleet, reminders), 2 workspaces, a person and an agent of one handle; ids of rows of the caller's workspace, of the other one and of none wherever no service looks them up | Both implementations answer alike where what a call names is there, and where it is nowhere PostgreSQL refuses; every query finds the same, except where the comments of the properties say. Four calls create, change, undo and change again; two workspaces tell row level security, and keys that leave the workspace out, from their absence. |

Every bound is a constant of the module (`MaxSeq`, `MaxTime`, `MaxCrash`,
`MaxWake`, `MaxMessage`, `MaxCopy`, `MaxNo`, `MaxId`, `MaxHandle`, `MaxToken`,
`MaxWorkspace`, `MaxCall`, `MaxCalls`, `MaxHappen`, `MaxLoad`, `Batch`) and a guard
in it (`MaxWake` also on what a daemon receives). Calls, agents, tasks, people and
sockets that are alike are symmetry sets where no liveness is checked. `CHECK_DEADLOCK FALSE` is set where a system with all
its bounded input used up has nothing to do; `client` checks deadlock instead of
liveness: a page that waits for something that will not come would be stuck.
`TypeOK` of each module was checked on these instances; no run repeats it, as the
theorems state it where there are proofs.

### Fairness

- `Reminders!Fairness`: some round of the worker goes on. The interval timer of
  `reminder-worker.ts:36` fires again and again, and database calls return; a
  single round may be stuck for ever. The server may end any number of times but
  stays up in the end. Owners and the clock are not fair.
- `OrphanSweeper!Fairness`: the timer and the database calls of each round, and time.
- `MessageLog!FairSpec` and `ControlPlane!Spec` state what `AppendsEnd` and
  `RequestsSettle` need: Postgres hands a lock to each that waits for it, the
  timers of requests go off. `AppendsEnd` holds on the instance of `message_log`
  under `FairSpec`, `RequestsSettle` on two sockets and one request without the
  symmetry, `Freshness!SeenMonotone` and `Freshness!OwnMessagesSeen` on the instance
  of `freshness`; no run repeats them.

No fairness is assumed of people, agents, or daemons. That a task in the queue of a
daemon runs in the end would need that every agent's process ends, and `serve.ts`
sets it no timeout; `QueueOnlyWhenFull` is what the code does promise.

## Proofs

`tlapm` proves the following for every value of the constants; the assumptions
are the named `ASSUME`s of the modules (`None` is no member of the other sets,
bounds are numbers, and the like). Where two components stand side by side,
in `Teamwork`, `Rounds` and `Workspaces`, `BoardAssumption`, `SweepAssumption` and
`WorkspacesAssumption` say so of all of them. No theorem has a hypothesis beyond these.

- `MessageLogProofs`: `TypeOK`, `SeqsContiguous`, `NoDuplicateKey`, and that
  the transactions implement `ChannelLog`. The strengthening is `SerialInv`: a
  transaction past the lock owns the lock of its channel, and the number it is
  about to insert is still the next. Every step then maps to an append at the
  end of one channel, or to a stutter. Of `Posting` it has `TypeOK`, `FilesHaveBytes`
  and `NoStrayBytes`: a step is one of `MessageLog` or leaves the log alone
  (`PostingUsesTheLog`), and `UploadInv` follows a file from its bytes to its row: bytes
  no row names yet are those of the upload at work, or were left by one that failed.
- `AgentRunsProofs`: `RunsTypeOK`, `SameTaskAlone` (of `DaemonServe`, whose actions
  the runs extend), `LogIsContinued`, `PromptUnlessShared`, for any number of
  daemons, agents, tasks, slots, wakes and restarts; `WakeAssumption` says that
  the bounds are numbers. `Sched` carries the scheduler: the task of every live
  handler is in the `running` of its daemon, and the queues hold handlers that wait,
  each once; without that, a finished run could resume a handler beside another of
  its task. `Paced` ties the progress of a run to its handler, so that two processes
  in one directory would be two live handlers of one task. With that only one run
  writes a log (`OneWriter`), and `Continued` says that what it read is still all
  that is there. `PromptInv` follows a run prepared alone: no second one of its
  agent prepares, so the prompt in the file is its own from the write to the start,
  and an empty memory is one that somebody is just making (`OwnMemory`), which a run
  alone has seen made.
  The scheduler's own promises, `NoOvertaking` and `QueueOnlyWhenFull`, are
  consequences of `SlotsInv`: the queue is complete and in the order of the wakes, and
  as long as a handler waits, the slots held and those handed to a handler that has
  not resumed yet are exactly `MaxParallel`.
- `TeamworkProofs`: of `Freshness` `TypeOK`, `PassedSawTheStart`, `ReadImpliesSeen`,
  and what no run checks, `OwnMessagesSeen` and `SeenMonotone`.
  `CallInv` says what a call knows: the seqs it read are in the log; what it has read
  before its verdict reaches the latest message there was at its start, which is the
  point, since the messages that come later are why the verdict may be stale
  (`freshness_race`); the cursor a claim read is no further than the one in the table.
  Of `Tasks` it has `TypeOK`, `HoldersAgree`, `OwnershipMoves`, `AgentsWriteOwnTasks`.
  `HoldersAgree` is not inductive alone: a status update checks `assignee = expected`,
  and that protects an agent only because `expected` is that agent, which is what
  `CallsWellFormed` adds.
- `WebClientProofs`: `TypeOK`, `QuietIsCurrent` and `SelectedIsRead`, for any channels,
  requests and loads at a time. What the page shows need not be what the server has,
  but what is old and not excused is `Due`: `Fetched` by a load that will store it as it
  is now, `Signalled` by an event on the socket, or `Promised` by a request that has yet
  to tell of it or to be answered (`ListInv`, `PageInv`; `ReadInv` says the like of the
  badge). Nothing that is due gets lost, for two reasons: a request covers itself
  (`CallInv`), since what a route changes it tells of, at once or in a later stage, or
  the page that made it fetches it, which `RoutesAreCovered` finds true of every route
  of `Routes`; and a load never holds what the server did not have (`LoadInv`), so a
  store is either current or excused as older. When all is quiet nothing is due. What an
  event is about (`Says`) is less than what the page fetches for it: a lost
  `task.updated` excuses the page alone, so the list of channels may not lean on it.
- `FleetProofs`: `StatusUnlessRaced`, `PendingAreWaiting`, `OwnAnswerWithinLife` of
  `ControlPlane`, `FailedLeavesNoAgent` and `ImportedIsWhole` of `Fleet`, both type
  invariants, and that every step of `Fleet` is one of `ControlPlane` or leaves its
  variables alone, by which the first three are proved once and hold in both.
  `ConnInv` has the statuses: unless they raced, all transactions under way write what
  the hub says. `RequestInv` has the requests: a number is given once in a life,
  and only what was made is worked on. In `FleetInv` a row of an agent belongs to a call
  that inserted it and has not failed (`RowInv`); a request with a reply is copied no
  more (`RepliesInv`), and an import that got its answer has all its files unless
  the answer is another life's (`TaggedIsWhole`).
- `RoundsProofs`: `TypeOK` and `OncePerSchedule` of `Reminders`, `TypeOK` and
  `AtMostOncePerLife` of `OrphanSweeper`. `HandsInv`: a reminder nobody disturbed is in
  the hands of one round at most, and if it was posted, that round is about to mark
  it. `SweeperInv` is for any number of rounds that overlap: as long as no second round
  has worked on a task, what the one at it read of the memory is still there when it
  writes, and `Counted` adds up what the humans were told and what is remembered.
- `WorkspacesProofs`: `LandsInside` and `MakerIsFirst` of `Accounts`, and of
  `Membership` `OneMembership`, `RowsMatch` and `OwnerUnlessRaced`, of `ActionCards`
  `OneWinner`, `ExecutedIsMade`, `NamesAreDistinct` and `ResolvedIsFinal`, which no run
  checks, with all three type invariants; `KeysDiffer` is what they say together of
  keys that are looked up before they are inserted. `PageInv` is what a call of a page has
  checked or made by each of its steps; an invitation that it carries is to a workspace
  whose maker is in. `RowsInv` holds however calls overlap: ids differ, and the bound
  leaves a row to each join at work. While calls come one after the other, `Phase`
  says where the one at work has left the two tables, a handle freed in one and not
  yet in the other. `ManagedInv` is for any number of people who manage at once: until
  two calls have raced, whoever is past its count and about to take an owner's role or
  row leaves another owner. The race is one step, the first of the two writes, and
  named by what both calls are about to do, not by its outcome. `CardProgress` remembers for each call on a card what it
  has achieved: one about to mark a card executed has made its resource, one that
  succeeded is the one on its card.

- `WakeRoutingProofs`: `WakesAreDue`, `MentionIsSent`, `TaskReachesSomeone`, for any
  people, agents, channels, machines and messages. `RoutingInv` is in parts. `Stages`
  is what a message's handler has seen to at each step: an agent's message is no task,
  and whom the hook assigned is one whom the message wakes (`Addressed`); `Given`
  is the wake of whom a colleague gave the task to. `Followers`
  says that an agent which a message keeps or mutes does or does not follow the thread
  until the message is routed. `AllDue` and `NoTwins` go over every wake on its way and
  every handler, for only together are they inductive: `Receive` moves a wake from one
  to the other. `Delivered` is what has been sent by each step, which is more than
  the properties say at the end. A handler's step is one `Goes`, whose wakes are in
  `Sends`: each agent of a set once, nobody else, and all who are connected. That the
  loop of `onMessage` (`hubs`, a recursive function) does this for a sequence of any
  length, `SendsAll`, is an induction, by a set of numbers (`SetInduction`) that
  follows from `<` on the numbers being well founded.

What stays with TLC alone: liveness (`FiresEventually`, `EveryOrphanIsMet`,
`HumansHear`), since the prover has no rule for fairness here;
`repositories`, whose properties compare whole states by folding, counting and
sorting; `RoutingTypeOK`, whose bound on the wakes needs a count of them (the proofs
need the types alone, `Shape`). No module declares a recursive operator.

## What comments and tests say and the code does not keep

The first has a run. The others are definitions under a heading of their own
at the end of the module; put the name into the run's cfg as an `INVARIANT` (or a
`PROPERTY`, if it is temporal) to get the trace.

| Property | Trace | What the repository says |
|---|---|---|
| `Freshness!ActsOnlyWhenFresh` (run `freshness_race`) | preflight reads latest seq; another message is committed; the append goes ahead | `domain/freshness.ts:5`: new messages the agent has not seen must block the operation |
| `Tasks!ClaimKeepsLaterStatus` | claim's SELECT; a human sets done; claim's UPDATE writes in_progress | `domain/claim.ts:42`: a later status is kept |
| `Tasks!UnclaimKeepsOtherStatus` | unclaim reads in_progress; a human sets done; unclaim writes todo | `domain/task-ops.ts:54` |
| `Tasks!AgentsAssignByRight` | an agent's assign reads a free task; another claims it; assign's UPDATE takes it | `task.service.ts:195` |
| `Tasks!DoneIsNotAssigned` | assign's SELECT; the task is set to done; assign's UPDATE | `repo/pg/repos.ts:625` |
| `Tasks!DoneIsFinal` | a status update of a done task | `repo/types.ts:569` says updates take effect on tasks that are not done; `domain/task-ops.ts:36` means them to |
| `Freshness!SeenPassesOnlyRead` | two messages come in; the agent creates a task; its cursor goes over both | `domain/freshness.ts:15` |
| `Freshness!CursorsWithinLog` | a call marks the channel read up to a seq that no message has; both clients send the largest seq they listed, the service does not look | `domain/freshness.ts:12`: the cursor is what the model has seen |
| `Freshness!ArchivedIsReadOnly` | the check, the archiving, the append; or a task announcement without a check | `db/schema.ts:124` |
| `Reminders!CancelSticks` | a round scans a recurring reminder; its owner cancels; markFired sets it to scheduled | `test/reminder.service.test.ts:63` |
| `Reminders!SnoozeHolds` | a round scans a reminder; its owner snoozes; markFired sets it to done | `test/reminder.service.test.ts:47` |
| (no property) | `Update` gives a reminder that fires once a cron expression and keeps its kind; `FireMark` sets it to done after one post | `domain/reminder.ts:24`: cron is periodic |
| `Reminders!EveryReminderFires` | a reminder without an anchor channel is due; the round passes its post over and marks it | `db/schema.ts:394`: when it is due its owner is woken; `reminder.service.ts:20` lets the channel be left out |
| `Reminders!FiresEventually` with `Batch = 1` | of two that are due the round takes the same one again and again, since rows come in no order | `db/schema.ts:394` |
| `OrphanSweeper!EveryOrphanIsMet` with `Batch = 1` | a flagged orphan fills the batch of every round | `orphan-sweeper.ts:4` |
| `OrphanSweeper!ReleasedIsMet` | escalated, claimed, given back; the Map still says handled | `orphan-sweeper.ts:4` |
| `OrphanSweeper!OnceAtAll` | both rounds flag before either writes the Map | `test/orphan-sweeper.test.ts:65` |
| `ControlPlane!OwnAnswer` | a request is out; the server restarts and numbers from 1 again; the old reply settles the new request | `daemon-hub.ts:121` |
| `ControlPlane!StatusIsHub` | the offline of the old connection lands after the online of the new one | `control-plane.ts:57` |
| `ControlPlane!NoZombie` | the socket closes during the token lookup, before its handlers are set | `test/daemon-hub.test.ts:56` |
| `ControlPlane!ConnectedIsReached` | the old connection is broken, not yet seen to be, and first in the hub | `daemon-hub.ts:81` |
| `ControlPlane!HelloIsHeard` | hello arrives during the lookup and meets no handler | `test/control-plane.test.ts:52` |
| `WakeRouting!OncePerMessage` | a human's message in a direct channel: the broadcast wakes the agent for the thread, the second path for the channel; or a new task in a channel of the manager, who is woken for the triage and for the message | `test/wake.service.test.ts:64` |
| `WakeRouting!MutedSleeps` | the second path does not ask who left the thread | `wake.service.ts:75` |
| `DaemonServe!SameTaskAloneAnywhere` (`wake` with two messages to both agents) | an agent without a machine is dispatched round robin to two daemons | `daemon/src/serve.ts:53` |
| `AgentRuns!PromptIsOwn` | two runs of one agent, for two tasks, write the one `system-prompt.md` before the first process reads it; it starts with the channel and the log of the other task | `daemon/src/serve.ts:213`, `workspace.ts:21`: parallel runs do not conflict |
| `AgentRuns!MemoryIsKept` | two first runs find no MEMORY.md; the later writes the skeleton when the agent has its own already | `workspace.ts:58`: made once, then kept by the agent |
| `AgentRuns!CommandIsWhole` | a new run empties the wrapper while a process of another is up | `workspace.ts:21` |
| `ActionCards!EffectOnce` | two calls read the card pending; both create a channel; one marks the card | `action.service.ts:6` |
| `Membership!ProfileHasMember` | one account joins twice at once; the second profile stays without a membership | `auth/service.ts:326` |
| `Membership!MemberHasProfile` | a removal comes between the profile and the membership of a join; `HandlesDiffer` fails the same way | `db/schema.ts:477` |
| `Membership!OwnerRemains` | two owners each demote the other; both counts see two | `members.service.ts:78`: the last owner is not demoted |
| `WakeRouting!PruneRuns` | an agent finishes its task in the run for its thread; the wake to tidy up is dropped, for that run goes on | `http/worklog-prune.ts:2` |
| `Accounts!HasOwner` | the server ends after the transaction of a workspace's profile; its membership is never made | `auth/service.ts:187` |
| (no property) | two callbacks of OAuth of one new person each find no workspace and make one (`service.ts:419`); two logins each upgrade an old password hash (`service.ts:77`) | in both the second is harmless but for a workspace too many |
| `Fleet!RollbackIsOwn` | an import fails late; its agent was deleted meanwhile and another made under the handle, which the rollback removes | `services-context.ts:487` |
| `Fleet!NoShell` | the server ends before the files are copied, or an old life's reply says that they are; or the import fails and so does the removal of its row, which nobody hears of (`services-context.ts:521`) | `services-context.ts:516` |
| `Fleet!DirectoryIsOwn` with `File = {f1, f2}` | an import times out, its handle is taken by the next, and both copy into one directory | `daemon/src/workspace-import.ts` writes for one agent |
| `Fleet!CreatorIsMaker` | an agent is made, deleted and made again by another before the first request notes its creator by handle | `http/routes/web.ts:667` |
| `Fleet!DeletedStays` | a wake is under way when its agent is deleted; the daemon's call for a token inserts it again | `http/routes/daemon.ts:36` |
| (no property) | deleting a machine revokes nothing that is open: its connection stays in the hub until it breaks | `machine.service.ts` delete |
| `Posting!ArchivedIsSilent` | the check, the archiving, the append | `db/schema.ts:124` |
| `Posting!FilesHaveBytesAlways` | an insert is committed and reported as failed; the clean-up takes the bytes | `attachment.service.ts:60` |
| `Posting!VisibleIsWhole` | the message is posted, and wakes agents, before its first file is there | `useCrew.ts:216` |
| `Posting!SubmittedOnce` | the second file fails; the person submits all again, and text and first file are there twice | `ChatView.vue` submit keeps the text for another try |
| `WebClient!QuietIsCurrent` without `excused` | the socket is down while a message is posted, and opening it again fetches nothing; two loads overlap and the older answer is stored last; archiving, joining, membership and profile changes emit no event | `domain/seq.ts:26` (a gap in seq means: fetch again), which nobody calls on the page |
| `Repositories!LoginIsRecorded` | agents of one handle in two workspaces log in to one integration; the unique index has no workspace (`schema.ts:237`), so the second INSERT does nothing | `repo/types.ts:105`, `http/routes/agent.ts:155` |
| `Repositories!ReactionIsKept` | an actor of one workspace reacts to a message of another, whose id nobody looks up; the key of a reaction leaves the workspace out (`schema.ts:204`), so that the reaction of the actor of that handle there does nothing | `db/schema.ts:203` |
| `Repositories!JoinedIsMember` | an actor of one workspace marks a channel of another as read, which makes a membership; its key leaves the workspace out (`schema.ts:144`), so the actor of that handle there joins without becoming a member | `repo/types.ts:245` |
| `Repositories!RefusedAlike` | a reaction to a message that is not there: a foreign key refuses it in Postgres, memory keeps it | the tests of the services, which run in memory |
| `Repositories!CursorsDiffer` without `"read" \notin asked` | a person leaves, the page marks the channel read, and the row that keeps the cursor is a membership again (`repos.ts:708`) | `repo/types.ts:247`: leaving removes the member |
| (no property) | `getOrCreateDm` of a channel that one of the two left answers `joined: true` and adds nobody (`repos.ts:278`, `store.ts:716`) | `repo/types.ts:232`: makes sure that both are members |
| (no property) | the conflict of two claims is settled by the `WHERE` alone | `repo/types.ts:551`, `domain/claim.ts:7` speak of a partial unique index, which is not in the schema |

`DaemonServe` also drops a wake whose task runs (`serve.ts:150`). Whether the run
still reads the channel after that is up to the agent, so nothing is stated of it.

### Where the store in memory is not Postgres

The services are tested on the store in memory. `Repositories` shows that the two
answer alike with these exceptions, which are in the models of both, or in the
properties:

- What a call names and nobody looked up, a message to react or attach to, a channel
  to post to, read, anchor or prepare a card in, the machine of an agent: Postgres
  refuses by the foreign key what is nowhere, memory keeps it (`RefusedAlike`). A row
  that hangs on one of another workspace is kept by both, since a foreign key sees
  through row level security, unless a unique key is in the way.
- Three unique keys leave the workspace out: of logins (`LoginIsRecorded`), of
  reactions (`ReactionIsKept`) and of memberships (`JoinedIsMember`); there a row that
  the tenant does not see takes the place of its own. A message that an agent posts to
  a channel of another workspace takes a number there in the same way, but in
  `uq_message_channel_seq`; in the run that channel has its first message already, so
  the insert is refused.
- Deleting a machine unbinds in Postgres, by `ON DELETE SET NULL`, the agents of any
  workspace that named it. `FleetAgrees` does not compare agents that named a machine
  of another workspace.
- Reading makes a member and leaving forgets the cursor in Postgres, where the two
  are one row; in memory they are two maps (`CursorsDiffer`).
- The feed of Postgres repeats as a reply a message that answers and mentions the
  viewer, and limits each part before it drops the viewer's own messages.
- A reminder begins with a "scheduled" event in Postgres alone; in lists it sorts
  reminders without a next time last, the store in memory first.
- `staleOrphans` in memory ignores the age; a claim in Postgres leaves
  `updatedAt` as it was. Time is not in these models, so neither shows in the run.
- Text search in Postgres falls back to `ILIKE`, which takes `%` and `_` of the
  query as wildcards. Texts are sets of words here.

## Not modelled

Listed with reasons in `PROJECT.json`. In short: HTTP parsing and envelopes,
formatting of prompts and activity, the file and skill views of a directory,
configuration, views and migrations have no state worth a model; the rest is planned.

What the models leave out on purpose:

- Tenancy, but for the repositories and accounts: a workspace is a world of its
  own, since every transaction sets its tenant (`db/client.ts`). `PgStore` has the
  policy of `db/rls.sql` as `Tenant`, the filter of every statement, and its unique
  indexes and foreign keys see through it.
- Texts and ids, passwords, hashes and cookies; a payload is what the properties
  tell apart, a handle or a number of changes.
- Transactions that fail other than by the end of the server or a constraint.
  `Posting` has a database that fails, and so has the removal that takes a failed
  import back in `Fleet`, because the code handles it.
- `Routes` and `WebClient`: `serverInfo` is one read; the GET of messages and of
  their reactions, attachments and bookmarks are one answer; a new channel or
  direct channel shows as a selection of one that is there. Badges of threads, the
  activity of agents and dialogs that fetch for themselves are left out.
- `WakeRouting`: a batch of tasks has one, a task is handed over once, and the
  assignment of the hook may fail for any reason. The agent that has a person's name
  is fixed (`Namesake`).
- `AgentRuns`: failures of the file system, which end the preparation as a refused
  token does; the labels of the activity that a run reports.
- `Fleet`: the answer of an import's own inspection, renaming and profiles.
- The repositories: drafts, profiles, search by prefix of an id, and limits but
  for messages and the work log. Where the code gives no order, the rows of a table
  are taken in the order of their creation.

## Plan

Done: 1 task board and message log, with proofs; 2 freshness; 3 reminders and
orphans; 4 control plane, daemons, wake routing with the hooks of tasks; 5 cards,
with proofs, and members; 6 the web client and the browser hub; 7 accounts,
imports, messages with files; 8 both repositories; 9 the runs of agents.

Next, in this order:

1. Proofs of what is only checked so far: the answers, the cursors and the views of
   `Repositories`.
2. Badges of threads and the activity of agents on the page.
3. The command line as a client: what a retry of a command does after an answer
   that got lost, composed with `Freshness`.
