----------------------------- MODULE Freshness -----------------------------
(***************************************************************************)
(* The freshness hold and the read cursors of one channel:                 *)
(* server/src/services/message.service.ts, read-state.service.ts and the   *)
(* preflight and the announcement of task.service.ts.  An agent may post   *)
(* or claim only if its model has seen the channel's latest message.       *)
(*                                                                         *)
(* Every awaited repository call is one action, and calls interleave.  An  *)
(* append is atomic here: module MessageLog shows that the transactions of *)
(* messages.append implement that.                                         *)
(***************************************************************************)
EXTENDS Naturals, Sequences, FiniteSets

CONSTANTS Human, Agent, Platform, Request, None,
          MaxSeq     \* bound: calls that append are begun while there is room,
                     \* and a seq that a caller names is at most this

Actor == Human \cup Agent

ASSUME ActorKindsDisjoint == Human \cap Agent = {}
ASSUME NoneIsNoActor == None \notin Actor
ASSUME PlatformIsNoActor == Platform \notin Actor
ASSUME MaxSeqIsNat == MaxSeq \in Nat

VARIABLES log,       \* message: the senders, in the order of seq
          archived,  \* channel.archived_at is set
          seen,      \* agent_seen.model_seen_seq
          read,      \* channel_member.last_read_seq, 0 without a row
          drafts,    \* draft: the agents that have one; nothing reads them
          req,       \* the calls in flight
          lost       \* history: cursor moves that died with the server

vars == <<log, archived, seen, read, drafts, req, lost>>

PC == {"idle", "send.append", "send.latest", "send.seen", "send.draft",
       "advance", "task.append", "claim.seen", "claim.latest", "claim.go",
       "read.read", "read.seen"}

Call == [pc     : PC,
         actor  : Actor \cup {None},
         force  : BOOLEAN,
         start  : Nat,     \* history: the latest seq when the call was made
         latest : Nat,     \* latestSeq, once read
         cursor : Nat]     \* modelSeenSeq once read, or the seq to move to

Idle == [pc |-> "idle", actor |-> None, force |-> FALSE,
         start |-> 0, latest |-> 0, cursor |-> 0]

TypeOK ==
    /\ log \in Seq(Actor \cup {Platform})
    /\ archived \in BOOLEAN
    /\ seen \in [Agent -> Nat]
    /\ read \in [Actor -> Nat]
    /\ drafts \subseteq Agent
    /\ req \in [Request -> Call]
    /\ lost \in [Agent -> SUBSET Nat]

Init ==
    /\ log = <<>>
    /\ archived = FALSE
    /\ seen = [a \in Agent |-> 0]
    /\ read = [m \in Actor |-> 0]
    /\ drafts = {}
    /\ req = [r \in Request |-> Idle]
    /\ lost = [a \in Agent |-> {}]

latestSeq == Len(log)

\* greatest(cursor, seq) of the two upserts.
greatest(cursor, seq) == IF seq > cursor THEN seq ELSE cursor

\* decideFreshness: TRUE when the operation passes.
\* Mutant: one unseen message is tolerated.
decideFreshnessLax(modelSeenSeq, latest, force) == force \/ latest <= modelSeenSeq + 1
decideFreshness(modelSeenSeq, latest, force) == force \/ latest <= modelSeenSeq

\* The seq a poster's own cursor moves to: that of its message.
OwnSeq(r) == latestSeq + 1

\* What markRead does after it moved the read cursor.
\* Mutant: the seen cursor is left to the next send.
AfterReadForgets(m) == "idle"
AfterRead(m) == IF m \in Agent THEN "read.seen" ELSE "idle"

Appends == {"send.append", "send.latest", "send.seen", "task.append"}

\* The calls begun fit under the bound.
Room == latestSeq + Cardinality({r \in Request : req[r].pc \in Appends}) < MaxSeq

Begin(r, pc, m, force, cursor) ==
    /\ req[r] = Idle
    /\ req' = [req EXCEPT ![r] = [pc |-> pc, actor |-> m, force |-> force,
                                  start |-> latestSeq, latest |-> 0, cursor |-> cursor]]

Go(r, pc) == req' = [req EXCEPT ![r].pc = pc]
Finish(r) == req' = [req EXCEPT ![r] = Idle]

-----------------------------------------------------------------------------
\* sendAsHuman: assertWritable, then the append.
SendAsHuman(r, h) ==
    /\ Room
    /\ ~archived
    /\ Begin(r, "send.append", h, FALSE, 0)
    /\ UNCHANGED <<log, archived, seen, read, drafts, lost>>

\* sendAsAgent: assertWritable.
SendAsAgent(r, a, force) ==
    /\ Room
    /\ ~archived
    /\ Begin(r, "send.latest", a, force, 0)
    /\ UNCHANGED <<log, archived, seen, read, drafts, lost>>

SendLatest(r) ==
    /\ req[r].pc = "send.latest"
    /\ req' = [req EXCEPT ![r].pc = "send.seen", ![r].latest = latestSeq]
    /\ UNCHANGED <<log, archived, seen, read, drafts, lost>>

SendSeen(r) ==
    LET c == req[r] IN
    /\ c.pc = "send.seen"
    /\ Go(r, IF decideFreshness(seen[c.actor], c.latest, c.force)
             THEN "send.append" ELSE "send.draft")
    /\ UNCHANGED <<log, archived, seen, read, drafts, lost>>

SendDraft(r) ==
    LET c == req[r] IN
    /\ c.pc = "send.draft"
    /\ drafts' = drafts \cup {c.actor}
    /\ Finish(r)
    /\ UNCHANGED <<log, archived, seen, read, lost>>

\* tasks.create announces the task: no preflight and no look at archived.
CreateTask(r, m) ==
    /\ Room
    /\ Begin(r, "task.append", m, FALSE, 0)
    /\ UNCHANGED <<log, archived, seen, read, drafts, lost>>

\* messages.append; an agent's own cursor follows.
AppendMessage(r) ==
    LET c == req[r] IN
    /\ c.pc \in {"send.append", "task.append"}
    /\ log' = Append(log, c.actor)
    /\ IF c.actor \in Agent
       THEN req' = [req EXCEPT ![r].pc = "advance", ![r].cursor = OwnSeq(r)]
       ELSE Finish(r)
    /\ UNCHANGED <<archived, seen, read, drafts, lost>>

\* appendSystem: reminders, wakes and welcomes; it looks at nothing.
AppendSystem ==
    /\ Room
    /\ log' = Append(log, Platform)
    /\ UNCHANGED <<archived, seen, read, drafts, req, lost>>

\* seen.advance, the last step of a post and of an agent's markRead.
Advance(r) ==
    LET c == req[r] IN
    /\ c.pc \in {"advance", "read.seen"}
    /\ seen' = [seen EXCEPT ![c.actor] = greatest(@, c.cursor)]
    /\ Finish(r)
    /\ UNCHANGED <<log, archived, read, drafts, lost>>

\* claim: the seen cursor, the latest seq, then tasks.claim (module Tasks).
Claim(r, a) ==
    /\ Begin(r, "claim.seen", a, FALSE, 0)
    /\ UNCHANGED <<log, archived, seen, read, drafts, lost>>

ClaimSeen(r) ==
    /\ req[r].pc = "claim.seen"
    /\ req' = [req EXCEPT ![r].pc = "claim.latest", ![r].cursor = seen[req[r].actor]]
    /\ UNCHANGED <<log, archived, seen, read, drafts, lost>>

ClaimLatest(r) ==
    LET c == req[r] IN
    /\ c.pc = "claim.latest"
    /\ \/ /\ decideFreshness(c.cursor, latestSeq, FALSE)
          /\ Go(r, "claim.go")
       \/ /\ ~decideFreshness(c.cursor, latestSeq, FALSE)     \* FRESHNESS_HOLD
          /\ Finish(r)
    /\ UNCHANGED <<log, archived, seen, read, drafts, lost>>

ClaimGo(r) ==
    /\ req[r].pc = "claim.go"
    /\ Finish(r)
    /\ UNCHANGED <<log, archived, seen, read, drafts, lost>>

\* markRead takes any seq from 0 on, one beyond the end of the channel too; the
\* clients send the largest they listed.
MarkRead(r, m, upToSeq) ==
    /\ Begin(r, "read.read", m, FALSE, upToSeq)
    /\ UNCHANGED <<log, archived, seen, read, drafts, lost>>

ReadRead(r) ==
    LET c == req[r] IN
    /\ c.pc = "read.read"
    /\ read' = [read EXCEPT ![c.actor] = greatest(@, c.cursor)]
    /\ IF AfterRead(c.actor) = "idle" THEN Finish(r) ELSE Go(r, AfterRead(c.actor))
    /\ UNCHANGED <<log, archived, seen, drafts, lost>>

\* leave and removeMember delete the row with the read cursor; seen stays.
Leave(m) ==
    /\ read' = [read EXCEPT ![m] = 0]
    /\ UNCHANGED <<log, archived, seen, drafts, req, lost>>

SetArchived(b) ==
    /\ archived' = b
    /\ UNCHANGED <<log, seen, read, drafts, req, lost>>

\* The server stops; the calls in flight are never finished.
Crash ==
    /\ req' = [r \in Request |-> Idle]
    /\ lost' = [a \in Agent |-> lost[a] \cup
                   {req[r].cursor : r \in {q \in Request :
                        req[q].pc \in {"advance", "read.seen"} /\ req[q].actor = a}}]
    /\ UNCHANGED <<log, archived, seen, read, drafts>>

Step(r) ==
    \/ SendLatest(r) \/ SendSeen(r) \/ SendDraft(r) \/ AppendMessage(r)
    \/ Advance(r) \/ ClaimSeen(r) \/ ClaimLatest(r) \/ ClaimGo(r) \/ ReadRead(r)

Next ==
    \/ \E r \in Request :
        \/ \E h \in Human : SendAsHuman(r, h)
        \/ \E a \in Agent, force \in BOOLEAN : SendAsAgent(r, a, force)
        \/ \E m \in Actor : CreateTask(r, m)
        \/ \E a \in Agent : Claim(r, a)
        \/ \E m \in Actor, n \in 0 .. MaxSeq : MarkRead(r, m, n)
        \/ Step(r)
    \/ AppendSystem
    \/ \E m \in Actor : Leave(m)
    \/ \E b \in BOOLEAN : SetArchived(b)
    \/ Crash

Spec == Init /\ [][Next]_vars

-----------------------------------------------------------------------------
\* The seen cursor never moves back, in whatever order concurrent reads and
\* posts of one agent reach the database (freshness.ts:59).
SeenMonotone == [][\A a \in Agent : seen'[a] >= seen[a]]_seen

\* The cursor of a is at n, on its way there, or was on its way in a crash.
Settled(a, n) ==
    \/ n <= seen[a]
    \/ \E r \in Request : /\ req[r].pc \in {"advance", "read.seen"}
                          /\ req[r].actor = a
                          /\ req[r].cursor = n
    \/ n \in lost[a]

\* What an agent has read counts as seen, so a later post is not held for it
\* (read-state.service.ts:4): the two cursors are written one after the other.
ReadImpliesSeen == \A a \in Agent : Settled(a, read[a])

\* An agent is not held for its own message (message.service.ts:113).
OwnMessagesSeen == \A n \in DOMAIN log : log[n] \in Agent => Settled(log[n], n)

\* A call past its preflight: its post or its claim comes next.
Passed(r) == req[r].pc = "claim.go" \/ (req[r].pc = "send.append" /\ req[r].actor \in Agent)

\* An operation that passed the preflight was not held for any message that
\* was there when the call was made: the cursor had reached them all, in
\* whichever order the cursor and the latest seq were read.
PassedSawTheStart ==
    \A r \in Request : Passed(r) /\ ~req[r].force => req[r].start <= seen[req[r].actor]

-----------------------------------------------------------------------------
(* What the comments say and the code does not keep.                       *)

\* freshness.ts:4: an operation with a side effect is blocked if a message the
\* model has not seen has come up.  It can come between preflight and append.
ActsOnlyWhenFresh ==
    [][\A r \in Request :
        Passed(r) /\ ~req[r].force /\ (AppendMessage(r) \/ ClaimGo(r))
        => latestSeq <= seen[req[r].actor]]_vars

\* freshness.ts:12: the cursor is what the model has seen.  A post moves it
\* over messages of others that came before it and were never read, so the
\* hold for them never comes; --send-draft says that they are known.
SeenPassesOnlyRead ==
    [][\A r \in Request :
        req[r].pc = "advance" /\ ~req[r].force /\ Advance(r)
        => LET a == req[r].actor IN
           \A n \in seen[a] + 1 .. seen'[a] : log[n] = a \/ n <= read[a]]_vars

\* freshness.ts:12: the cursor is what the model has seen, so it is never beyond
\* the end of the channel.  markRead does not look where that is, and what is
\* posted up to the seq it was given is never held for.
CursorsWithinLog ==
    /\ \A a \in Agent : seen[a] <= latestSeq
    /\ \A m \in Actor : read[m] <= latestSeq

\* schema.ts:124: an archived channel takes no message.
ArchivedIsReadOnly == [][archived => UNCHANGED log]_vars
=============================================================================
