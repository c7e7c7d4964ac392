-------------------------- MODULE TeamworkProofs ---------------------------
(***************************************************************************)
(* Proofs about Teamwork: about Freshness and Tasks, messages and board    *)
(* that agents share, for any humans, agents, calls, messages and tasks.   *)
(*                                                                         *)
(* Freshness: CallInv is what a call knows: the seqs it read are in the    *)
(* log, what it read before its verdict reaches the latest message of its  *)
(* start, and the cursor a claim has read is no further than the one in    *)
(* the table.                                                              *)
(*                                                                         *)
(* Tasks: CallsWellFormed is what a call on the board remembers: the right *)
(* of an agent to update a status was decided when it was the assignee, so *)
(* the compare-and-set of the UPDATE is on the agent itself.               *)
(***************************************************************************)
EXTENDS Teamwork, TLAPS

\* The steps that only calls of agents come to.
AgentPC == {"send.latest", "send.seen", "send.draft", "advance", "claim.seen", "claim.latest",
            "claim.go", "read.seen"}

CallInv(r) ==
    LET c == req[r] IN
    /\ c.pc # "idle" => c.actor \in Actor
    /\ c.pc \in AgentPC => c.actor \in Agent
    /\ c.start <= latestSeq /\ c.latest <= latestSeq
    /\ c.pc = "send.seen" => c.start <= c.latest
    /\ c.pc = "claim.latest" => c.cursor <= seen[c.actor]
    /\ Passed(r) /\ ~c.force => c.start <= seen[c.actor]

IInv ==
    /\ TypeOK
    /\ \A r \in Request : CallInv(r)
    /\ ReadImpliesSeen
    /\ OwnMessagesSeen

\* Nothing is taken back: the log and the cursors grow.
Grown ==
    /\ latestSeq <= latestSeq'
    /\ \A a \in Agent : seen[a] <= seen'[a] /\ lost[a] \subseteq lost'[a]

\* A cursor on its way stays on its way, arrives, or is lost.
MovesKept ==
    \A r \in Request :
        req[r].pc \in {"advance", "read.seen"} =>
            \/ req'[r] = req[r]
            \/ req[r].cursor <= seen'[req[r].actor]
            \/ req[r].cursor \in lost'[req[r].actor]

-----------------------------------------------------------------------------
LEMMA SettledStays ==
  ASSUME TypeOK, TypeOK', Grown, MovesKept, NEW a \in Agent, NEW n \in Nat, Settled(a, n)
  PROVE  Settled(a, n)'
  <1>1. seen[a] \in Nat /\ seen'[a] \in Nat /\ seen[a] <= seen'[a] /\ lost[a] \subseteq lost'[a]
    BY DEF TypeOK, Grown
  <1>2. CASE n <= seen[a]
    BY <1>1, <1>2 DEF Settled
  <1>3. CASE n \in lost[a]
    BY <1>1, <1>3 DEF Settled
  <1>4. ASSUME NEW r \in Request, req[r].pc \in {"advance", "read.seen"}, req[r].actor = a, req[r].cursor = n
        PROVE  Settled(a, n)'
    BY <1>4 DEF MovesKept, Settled
  <1> QED BY <1>2, <1>3, <1>4 DEF Settled

\* A call that a step leaves alone.
LEMMA CallStays ==
  ASSUME TypeOK, TypeOK', Grown, NEW r \in Request, CallInv(r), req'[r] = req[r]
  PROVE  CallInv(r)'
  <1>1. /\ latestSeq \in Nat /\ latestSeq' \in Nat /\ latestSeq <= latestSeq'
        /\ req[r] \in Call
    BY DEF TypeOK, Grown, latestSeq
  <1>2. \A a \in Agent : seen[a] \in Nat /\ seen'[a] \in Nat /\ seen[a] <= seen'[a]
    BY DEF TypeOK, Grown
  <1> QED BY <1>1, <1>2 DEF CallInv, Passed, Call, AgentPC

\* A step that is a call's own affair.
LEMMA OnlyCall ==
  ASSUME IInv, TypeOK', NEW r \in Request, UNCHANGED <<log, seen, read, lost>>,
         \A q \in Request \ {r} : req'[q] = req[q],
         req[r].pc \notin {"advance", "read.seen"}, CallInv(r)'
  PROVE  IInv'
  <1>1. Grown
    BY DEF IInv, TypeOK, Grown, latestSeq
  <1>2. MovesKept
    BY DEF MovesKept
  <1>3. ASSUME NEW q \in Request PROVE CallInv(q)'
    BY <1>1, CallStays DEF IInv
  <1>5. ReadImpliesSeen'
    <2> SUFFICES ASSUME NEW a \in Agent PROVE Settled(a, read[a])'
      BY DEF ReadImpliesSeen
    <2>1. Settled(a, read[a]) /\ read[a] \in Nat
      BY DEF IInv, ReadImpliesSeen, TypeOK, Actor
    <2>2. (\A n \in Nat : Settled(a, n) => Settled(a, n)')
      BY <1>1, <1>2, SettledStays DEF IInv
    <2> QED BY <2>1, <2>2
  <1>6. OwnMessagesSeen'
    <2> SUFFICES ASSUME NEW n \in DOMAIN log, log[n] \in Agent PROVE Settled(log[n], n)'
      BY DEF OwnMessagesSeen
    <2>1. n \in Nat /\ Settled(log[n], n)
      BY DEF IInv, OwnMessagesSeen, TypeOK
    <2> QED BY <1>1, <1>2, <2>1, SettledStays DEF IInv
  <1> QED BY <1>3, <1>5, <1>6 DEF IInv

-----------------------------------------------------------------------------
LEMMA CallFields ==
  ASSUME NEW c \in Call, NEW pc \in PC, NEW n \in Nat
  PROVE  /\ [c EXCEPT !.pc = pc] \in Call
         /\ [c EXCEPT !.pc = pc, !.latest = n] \in Call
         /\ [c EXCEPT !.pc = pc, !.cursor = n] \in Call
         /\ Idle \in Call
  BY DEF Call, PC, Idle

LEMMA GoType ==
  ASSUME TypeOK, NEW r \in Request, NEW pc \in PC, Go(r, pc) \/ Finish(r)
  PROVE  req' \in [Request -> Call]
  <1>1. [req[r] EXCEPT !.pc = pc] \in Call /\ Idle \in Call
    BY CallFields DEF TypeOK
  <1> QED BY <1>1 DEF Go, Finish, TypeOK

LEMMA TypeNext == IInv /\ [Next]_vars => TypeOK'
  <1> SUFFICES ASSUME TypeOK, \A r \in Request : CallInv(r), [Next]_vars PROVE TypeOK'
    BY DEF IInv
  <1>1. ASSUME NEW r \in Request, NEW m \in Actor, NEW pc \in PC, NEW force \in BOOLEAN,
               NEW n \in Nat, Begin(r, pc, m, force, n), UNCHANGED <<log, archived, seen, read, drafts, lost>>
        PROVE  TypeOK'
    <2>1. [pc |-> pc, actor |-> m, force |-> force, start |-> latestSeq, latest |-> 0, cursor |-> n] \in Call
      BY DEF Call, TypeOK, latestSeq
    <2> QED BY <1>1, <2>1 DEF Begin, TypeOK
  <1>2. ASSUME NEW r \in Request, Step(r)
        PROVE  TypeOK'
    <2>1. req[r] \in Call /\ Idle \in Call /\ latestSeq \in Nat
      BY DEF TypeOK, Idle, Call, PC, latestSeq
    <2>2. CASE SendLatest(r) \/ SendSeen(r) \/ ClaimSeen(r) \/ ClaimLatest(r) \/ ClaimGo(r)
      <3>1. req' \in [Request -> Call]
        <4>1. CASE SendLatest(r)
          <5>1. [req[r] EXCEPT !.pc = "send.seen", !.latest = latestSeq] \in Call
            BY <2>1, CallFields DEF PC
          <5> QED BY <4>1, <5>1 DEF SendLatest, TypeOK
        <4>2. CASE ClaimSeen(r)
          <5>1. req[r].actor \in Agent
            BY <4>2 DEF ClaimSeen, CallInv, AgentPC
          <5>2. [req[r] EXCEPT !.pc = "claim.latest", !.cursor = seen[req[r].actor]] \in Call
            BY <2>1, <5>1, CallFields DEF PC, TypeOK
          <5> QED BY <4>2, <5>2 DEF ClaimSeen, TypeOK
        <4>3. CASE SendSeen(r) \/ ClaimLatest(r) \/ ClaimGo(r)
          <5>1. \E pc \in PC : Go(r, pc) \/ Finish(r)
            BY <4>3 DEF SendSeen, ClaimLatest, ClaimGo, PC
          <5> QED BY <5>1, GoType
        <4> QED BY <2>2, <4>1, <4>2, <4>3
      <3> QED BY <2>2, <3>1 DEF TypeOK, SendLatest, SendSeen, ClaimSeen, ClaimLatest, ClaimGo
    <2>3. CASE SendDraft(r)
      BY <2>1, <2>3 DEF SendDraft, Finish, TypeOK, CallInv, AgentPC
    <2>4. CASE AppendMessage(r)
      <3>1. req[r].actor \in Actor
        BY <2>4 DEF AppendMessage, CallInv
      <3>2. log' \in Seq(Actor \cup {Platform})
        BY <2>4, <3>1 DEF AppendMessage, TypeOK
      <3>3. req' \in [Request -> Call]
        <4>1. [req[r] EXCEPT !.pc = "advance", !.cursor = OwnSeq(r)] \in Call
          <5>1. OwnSeq(r) \in Nat
            BY <2>1 DEF OwnSeq
          <5> QED BY <2>1, <5>1, CallFields DEF PC
        <4>2. Finish(r) => req' \in [Request -> Call]
          BY GoType DEF PC
        <4> QED BY <2>4, <4>1, <4>2 DEF AppendMessage, TypeOK
      <3> QED BY <2>4, <3>2, <3>3 DEF AppendMessage, TypeOK
    <2>5. CASE Advance(r)
      BY <2>1, <2>5 DEF Advance, Finish, TypeOK, greatest, Call
    <2>6. CASE ReadRead(r)
      <3>1. read' \in [Actor -> Nat]
        BY <2>1, <2>6 DEF ReadRead, TypeOK, greatest, Call
      <3>2. req' \in [Request -> Call]
        BY <2>6, GoType DEF ReadRead, AfterRead, PC
      <3> QED BY <2>6, <3>1, <3>2 DEF ReadRead, TypeOK
    <2> QED BY <1>2, <2>2, <2>3, <2>4, <2>5, <2>6 DEF Step
  <1>3. CASE AppendSystem
    BY <1>3 DEF AppendSystem, TypeOK
  <1>4. ASSUME NEW m \in Actor, Leave(m) PROVE TypeOK'
    BY <1>4 DEF Leave, TypeOK
  <1>5. ASSUME NEW b \in BOOLEAN, SetArchived(b) PROVE TypeOK'
    BY <1>5 DEF SetArchived, TypeOK
  <1>6. CASE Crash
    <2>1. Idle \in Call
      BY DEF Idle, Call, PC
    <2>2. \A a \in Agent : lost'[a] \subseteq Nat
      BY <1>6 DEF Crash, TypeOK, Call
    <2> QED BY <1>6, <2>1, <2>2 DEF Crash, TypeOK
  <1>7. CASE UNCHANGED vars
    BY <1>7 DEF vars, TypeOK
  <1>8. ASSUME NEW r \in Request, NEW h \in Human, SendAsHuman(r, h) PROVE TypeOK'
    BY <1>1, <1>8 DEF SendAsHuman, Actor, PC
  <1>9. ASSUME NEW r \in Request, NEW a \in Agent, NEW force \in BOOLEAN, SendAsAgent(r, a, force) PROVE TypeOK'
    BY <1>1, <1>9 DEF SendAsAgent, Actor, PC
  <1>10. ASSUME NEW r \in Request, NEW m \in Actor, CreateTask(r, m) PROVE TypeOK'
    BY <1>1, <1>10 DEF CreateTask, PC
  <1>11. ASSUME NEW r \in Request, NEW a \in Agent, Claim(r, a) PROVE TypeOK'
    BY <1>1, <1>11 DEF Claim, Actor, PC
  <1>12. ASSUME NEW r \in Request, NEW m \in Actor, NEW n \in 0 .. MaxSeq, MarkRead(r, m, n) PROVE TypeOK'
    <2>1. n \in Nat
      BY MaxSeqIsNat
    <2> QED BY <1>1, <1>12, <2>1 DEF MarkRead, PC
  <1> QED BY <1>2, <1>3, <1>4, <1>5, <1>6, <1>7, <1>8, <1>9, <1>10, <1>11, <1>12 DEF Next

-----------------------------------------------------------------------------
LEMMA BeginInv ==
  ASSUME IInv, TypeOK', NEW r \in Request, NEW pc \in PC, NEW m \in Actor, NEW force \in BOOLEAN, NEW n \in Nat,
         Begin(r, pc, m, force, n), UNCHANGED <<log, archived, seen, read, drafts, lost>>,
         pc \in AgentPC => m \in Agent,
         pc \in {"send.append", "send.latest", "task.append", "claim.seen", "read.read"},
         pc = "send.append" => m \in Human
  PROVE  IInv'
  <1>1. req[r] = Idle /\ req'[r].pc = pc /\ req'[r].actor = m /\ req'[r].start = latestSeq
        /\ req'[r].latest = 0 /\ req'[r].cursor = n /\ \A q \in Request \ {r} : req'[q] = req[q]
    BY DEF Begin, IInv, TypeOK
  <1>2. latestSeq \in Nat /\ latestSeq' = latestSeq
    BY DEF IInv, TypeOK, latestSeq
  <1>3. CallInv(r)'
    BY <1>1, <1>2, ActorKindsDisjoint DEF CallInv, Passed, AgentPC
  <1> QED BY <1>1, <1>3, OnlyCall DEF Idle

LEMMA ReadsInv ==
  ASSUME IInv, TypeOK', NEW r \in Request,
         SendLatest(r) \/ SendSeen(r) \/ SendDraft(r) \/ ClaimSeen(r) \/ ClaimLatest(r) \/ ClaimGo(r)
  PROVE  IInv'
  <1>1. /\ latestSeq \in Nat /\ UNCHANGED <<log, seen, read, lost>> /\ latestSeq' = latestSeq
        /\ req[r] \in Call /\ \A q \in Request \ {r} : req'[q] = req[q]
        /\ req[r].pc \notin {"advance", "read.seen", "idle"}
    <2>1. req[r] \in Call /\ latestSeq \in Nat
      BY DEF IInv, TypeOK, latestSeq
    <2>2. UNCHANGED <<log, seen, read, lost>> /\ req[r].pc \notin {"advance", "read.seen", "idle"}
      BY DEF SendLatest, SendSeen, SendDraft, ClaimSeen, ClaimLatest, ClaimGo
    <2>3. \A q \in Request \ {r} : req'[q] = req[q]
      <3>1. req \in [Request -> Call]
        BY DEF IInv, TypeOK
      <3>2. Go(r, "claim.go") \/ Go(r, "send.append") \/ Go(r, "send.draft") \/ Finish(r) \/ SendLatest(r) \/ ClaimSeen(r)
        BY DEF SendSeen, SendDraft, ClaimLatest, ClaimGo
      <3> QED BY <3>1, <3>2 DEF Go, Finish, SendLatest, ClaimSeen
    <2> QED BY <2>1, <2>2, <2>3 DEF latestSeq
  <1>2. CallInv(r) /\ (\A a \in Agent : seen[a] \in Nat)
    BY DEF IInv, TypeOK
  <1>3. CASE Finish(r)
    <2>1. req'[r] = Idle
      BY <1>3 DEF Finish, IInv, TypeOK
    <2>2. CallInv(r)'
      BY <1>1, <2>1 DEF CallInv, Passed, Idle, AgentPC
    <2> QED BY <1>1, <2>2, OnlyCall
  <1>4. CASE SendLatest(r)
    <2>1. req'[r] = [req[r] EXCEPT !.pc = "send.seen", !.latest = latestSeq]
      BY <1>4 DEF SendLatest, IInv, TypeOK
    <2>2. req[r].actor \in Agent /\ req[r].start <= latestSeq
      BY <1>2, <1>4 DEF SendLatest, CallInv, AgentPC
    <2>3. CallInv(r)'
      BY <1>1, <2>1, <2>2 DEF CallInv, Passed, AgentPC, Call, Actor
    <2> QED BY <1>1, <2>3, OnlyCall
  <1>5. CASE SendSeen(r)
    <2>1. req'[r] = [req[r] EXCEPT !.pc = IF decideFreshness(seen[req[r].actor], req[r].latest, req[r].force)
                                          THEN "send.append" ELSE "send.draft"]
      BY <1>5 DEF SendSeen, Go, IInv, TypeOK
    <2>2. req[r].actor \in Agent /\ req[r].start <= req[r].latest
      BY <1>2, <1>5 DEF SendSeen, CallInv, AgentPC
    <2>3. CallInv(r)'
      BY <1>1, <1>2, <2>1, <2>2 DEF CallInv, Passed, AgentPC, Call, Actor, decideFreshness
    <2> QED BY <1>1, <2>3, OnlyCall
  <1>6. CASE ClaimSeen(r)
    <2>1. req'[r] = [req[r] EXCEPT !.pc = "claim.latest", !.cursor = seen[req[r].actor]]
      BY <1>6 DEF ClaimSeen, IInv, TypeOK
    <2>2. req[r].actor \in Agent
      BY <1>2, <1>6 DEF ClaimSeen, CallInv, AgentPC
    <2>3. CallInv(r)'
      BY <1>1, <1>2, <2>1, <2>2 DEF CallInv, Passed, AgentPC, Call, Actor
    <2> QED BY <1>1, <2>3, OnlyCall
  <1>7. CASE ClaimLatest(r) /\ ~Finish(r)
    <2>1. req'[r] = [req[r] EXCEPT !.pc = "claim.go"] /\ latestSeq <= req[r].cursor
      BY <1>7 DEF ClaimLatest, Go, IInv, TypeOK, decideFreshness
    <2>2. req[r].actor \in Agent /\ req[r].cursor <= seen[req[r].actor]
      BY <1>2, <1>7 DEF ClaimLatest, CallInv, AgentPC
    <2>3. CallInv(r)'
      BY <1>1, <1>2, <2>1, <2>2 DEF CallInv, Passed, AgentPC, Call, Actor
    <2> QED BY <1>1, <2>3, OnlyCall
  <1> QED BY <1>3, <1>4, <1>5, <1>6, <1>7 DEF SendDraft, ClaimGo

LEMMA SettledKept ==
  ASSUME TypeOK, TypeOK', Grown, MovesKept, ReadImpliesSeen, OwnMessagesSeen
  PROVE  /\ \A a \in Agent : Settled(a, read[a])' \/ read'[a] # read[a]
         /\ \A n \in DOMAIN log, a \in Agent : log[n] = a => Settled(a, n)'
  <1>1. ASSUME NEW a \in Agent, read'[a] = read[a] PROVE Settled(a, read[a])'
    <2>1. Settled(a, read[a]) /\ read[a] \in Nat
      BY DEF ReadImpliesSeen, TypeOK, Actor
    <2>2. \A n \in Nat : Settled(a, n) => Settled(a, n)'
      BY SettledStays
    <2> QED BY <1>1, <2>1, <2>2
  <1>2. ASSUME NEW n \in DOMAIN log, NEW a \in Agent, log[n] = a PROVE Settled(a, n)'
    <2>1. n \in Nat /\ Settled(a, n)
      BY <1>2 DEF OwnMessagesSeen, TypeOK
    <2> QED BY <2>1, SettledStays
  <1> QED BY <1>1, <1>2

\* A post is the only step that adds a message of an agent, and its cursor goes
\* on its way with it.
LEMMA AppendInv ==
  ASSUME IInv, TypeOK', NEW r \in Request, AppendMessage(r)
  PROVE  IInv'
  <1>1. /\ latestSeq \in Nat /\ log' = Append(log, req[r].actor) /\ UNCHANGED <<seen, read, lost>>
        /\ log \in Seq(Actor \cup {Platform}) /\ req[r] \in Call /\ req[r].actor \in Actor
        /\ req[r].pc \notin {"advance", "read.seen"}
    BY DEF AppendMessage, IInv, TypeOK, latestSeq, CallInv
  <1>2. latestSeq' = latestSeq + 1 /\ DOMAIN log = 1 .. latestSeq /\ DOMAIN log' = 1 .. latestSeq + 1
        /\ log'[latestSeq + 1] = req[r].actor /\ \A n \in DOMAIN log : log'[n] = log[n]
    BY <1>1 DEF latestSeq
  <1>3. Grown
    BY <1>1, <1>2 DEF Grown, IInv, TypeOK
  <1>4. \A q \in Request \ {r} : req'[q] = req[q]
    BY DEF AppendMessage, Finish, IInv, TypeOK
  <1>5. MovesKept
    BY <1>1, <1>4 DEF MovesKept
  <1>6. req[r].actor \in Agent =>
          req'[r].pc = "advance" /\ req'[r].actor = req[r].actor /\ req'[r].cursor = latestSeq + 1
    BY DEF AppendMessage, OwnSeq, IInv, TypeOK, Call
  <1>7. CallInv(r)'
    <2>1. CASE req[r].actor \in Agent
      <3>1. req'[r] = [req[r] EXCEPT !.pc = "advance", !.cursor = latestSeq + 1]
        BY <2>1 DEF AppendMessage, OwnSeq, IInv, TypeOK
      <3>2. req[r].start <= latestSeq /\ req[r].latest <= latestSeq
        BY DEF IInv, CallInv
      <3> QED BY <1>1, <1>2, <2>1, <3>1, <3>2 DEF CallInv, Passed, AgentPC, Call
    <2>2. CASE req[r].actor \notin Agent
      <3>1. req'[r] = Idle
        BY <2>2 DEF AppendMessage, Finish, IInv, TypeOK
      <3> QED BY <1>1, <1>2, <3>1 DEF CallInv, Passed, Idle, AgentPC
    <2> QED BY <2>1, <2>2
  <1>8. ASSUME NEW q \in Request PROVE CallInv(q)'
    BY <1>3, <1>4, <1>7, CallStays DEF IInv
  <1>10. ReadImpliesSeen'
    BY <1>1, <1>3, <1>5, SettledKept DEF ReadImpliesSeen, IInv
  <1>11. OwnMessagesSeen'
    <2> SUFFICES ASSUME NEW n \in DOMAIN log', NEW a \in Agent, log'[n] = a PROVE Settled(a, n)'
      BY DEF OwnMessagesSeen
    <2>1. CASE n \in DOMAIN log
      BY <1>2, <1>3, <1>5, <2>1, SettledKept DEF IInv
    <2>2. CASE n = latestSeq + 1
      <3>1. req'[r].pc = "advance" /\ req'[r].actor = a /\ req'[r].cursor = n
        BY <1>2, <1>6, <2>2
      <3> QED BY <3>1 DEF Settled
    <2> QED BY <1>1, <1>2, <2>1, <2>2
  <1> QED BY <1>8, <1>10, <1>11 DEF IInv

LEMMA SystemInv ==
  ASSUME IInv, TypeOK', AppendSystem
  PROVE  IInv'
  <1>1. /\ latestSeq \in Nat /\ log' = Append(log, Platform) /\ UNCHANGED <<seen, read, req, lost>>
        /\ log \in Seq(Actor \cup {Platform}) /\ Platform \notin Agent
    BY PlatformIsNoActor DEF AppendSystem, IInv, TypeOK, latestSeq, Actor
  <1>2. latestSeq' = latestSeq + 1 /\ DOMAIN log = 1 .. latestSeq /\ DOMAIN log' = 1 .. latestSeq + 1
        /\ log'[latestSeq + 1] = Platform /\ \A n \in DOMAIN log : log'[n] = log[n]
    BY <1>1 DEF latestSeq
  <1>3. Grown
    BY <1>1, <1>2 DEF Grown, IInv, TypeOK
  <1>4. MovesKept
    BY <1>1 DEF MovesKept
  <1>5. ASSUME NEW q \in Request PROVE CallInv(q)'
    BY <1>1, <1>3, CallStays DEF IInv
  <1>7. ReadImpliesSeen'
    BY <1>1, <1>3, <1>4, SettledKept DEF ReadImpliesSeen, IInv
  <1>8. OwnMessagesSeen'
    <2> SUFFICES ASSUME NEW n \in DOMAIN log', NEW a \in Agent, log'[n] = a PROVE Settled(a, n)'
      BY DEF OwnMessagesSeen
    <2>1. n \in DOMAIN log
      BY <1>1, <1>2
    <2> QED BY <1>2, <1>3, <1>4, <2>1, SettledKept DEF IInv
  <1> QED BY <1>5, <1>7, <1>8 DEF IInv

\* A cursor arrives, or is lost with the server: the log stays as it is and the
\* cursors of the members are at most set back.
LEMMA MovesInv ==
  ASSUME IInv, TypeOK', log' = log, Grown, MovesKept,
         \A q \in Request : CallInv(q)' \/ req'[q] = req[q],
         \A a \in Agent : read'[a] # read[a] => Settled(a, read[a])'
  PROVE  IInv'
  <1>1. ASSUME NEW q \in Request PROVE CallInv(q)'
    BY CallStays DEF IInv
  <1>2. ReadImpliesSeen'
    BY SettledKept DEF ReadImpliesSeen, IInv
  <1>3. OwnMessagesSeen'
    <2> SUFFICES ASSUME NEW n \in DOMAIN log, NEW a \in Agent, log[n] = a PROVE Settled(a, n)'
      BY DEF OwnMessagesSeen
    <2> QED BY SettledKept DEF IInv
  <1> QED BY <1>1, <1>2, <1>3 DEF IInv

LEMMA IdleInv ==
  ASSUME TypeOK', NEW r \in Request, req'[r] = Idle
  PROVE  CallInv(r)'
  BY DEF TypeOK, latestSeq, CallInv, Passed, Idle, AgentPC

LEMMA AdvanceInv ==
  ASSUME IInv, TypeOK', NEW r \in Request, Advance(r)
  PROVE  IInv'
  <1>1. /\ latestSeq \in Nat /\ UNCHANGED <<log, read, lost>> /\ latestSeq' = latestSeq
        /\ req[r].actor \in Agent /\ req[r].cursor \in Nat
    BY DEF Advance, IInv, TypeOK, latestSeq, CallInv, AgentPC, Call
  <1>2. req'[r] = Idle /\ \A q \in Request \ {r} : req'[q] = req[q]
    BY DEF Advance, Finish, IInv, TypeOK
  <1>3. \A a \in Agent : /\ seen[a] \in Nat
                         /\ seen'[a] = IF a = req[r].actor THEN greatest(seen[a], req[r].cursor) ELSE seen[a]
    BY DEF Advance, IInv, TypeOK
  <1>4. \A a \in Agent : seen[a] <= seen'[a]
    BY <1>1, <1>3 DEF greatest
  <1>5. req[r].cursor <= seen'[req[r].actor]
    BY <1>1, <1>3 DEF greatest
  <1>6. Grown /\ MovesKept
    BY <1>1, <1>2, <1>4, <1>5 DEF Grown, MovesKept
  <1> QED BY <1>1, <1>2, <1>6, IdleInv, MovesInv

LEMMA ReadReadInv ==
  ASSUME IInv, TypeOK', NEW r \in Request, ReadRead(r)
  PROVE  IInv'
  <1>1. /\ latestSeq \in Nat /\ UNCHANGED <<log, seen, lost>> /\ latestSeq' = latestSeq
        /\ req[r].pc = "read.read" /\ req[r] \in Call /\ req[r].actor \in Actor
        /\ req[r].start <= latestSeq /\ req[r].latest <= latestSeq
    BY DEF ReadRead, IInv, TypeOK, latestSeq, CallInv
  <1>2. \A q \in Request \ {r} : req'[q] = req[q]
    BY DEF ReadRead, Finish, Go, IInv, TypeOK
  <1>3. \A m \in Actor : /\ read[m] \in Nat
                         /\ read'[m] = IF m = req[r].actor THEN greatest(read[m], req[r].cursor) ELSE read[m]
    BY DEF ReadRead, IInv, TypeOK
  <1>4. Grown /\ MovesKept
    BY <1>1, <1>2 DEF Grown, MovesKept, IInv, TypeOK
  <1>6. CASE req[r].actor \in Agent
    <2>1. req'[r] = [req[r] EXCEPT !.pc = "read.seen"]
      BY <1>6 DEF ReadRead, AfterRead, Go, IInv, TypeOK
    <2>2. CallInv(r)'
      BY <1>1, <1>6, <2>1 DEF CallInv, Passed, AgentPC, Call
    <2>3. req'[r].pc = "read.seen" /\ req'[r].actor = req[r].actor /\ req'[r].cursor = req[r].cursor
      BY <1>1, <2>1 DEF Call
    <2>4. \A a \in Agent : read'[a] # read[a] => a = req[r].actor /\ read'[a] = req[r].cursor
      BY <1>3 DEF greatest, Actor
    <2>5. \A a \in Agent : read'[a] # read[a] => Settled(a, read[a])'
      BY <2>3, <2>4 DEF Settled
    <2> QED BY <1>1, <1>2, <1>4, <2>2, <2>5, MovesInv
  <1>7. CASE req[r].actor \notin Agent
    <2>1. req'[r] = Idle
      BY <1>7 DEF ReadRead, AfterRead, Finish, IInv, TypeOK
    <2>2. \A a \in Agent : read'[a] = read[a]
      BY <1>3, <1>7 DEF Actor
    <2> QED BY <1>1, <1>2, <1>4, <2>1, <2>2, IdleInv, MovesInv
  <1> QED BY <1>6, <1>7

LEMMA LeaveInv ==
  ASSUME IInv, TypeOK', NEW m \in Actor, Leave(m)
  PROVE  IInv'
  <1>1. UNCHANGED <<log, seen, req, lost>>
    BY DEF Leave
  <1>2. \A a \in Actor : read[a] \in Nat /\ (read'[a] = read[a] \/ read'[a] = 0)
    BY DEF Leave, IInv, TypeOK
  <1>3. latestSeq \in Nat /\ Grown /\ MovesKept
    BY <1>1 DEF IInv, TypeOK, Grown, MovesKept, latestSeq
  <1>5. \A a \in Agent : read'[a] # read[a] => Settled(a, read[a])'
    BY <1>1, <1>2 DEF Settled, IInv, TypeOK, Actor
  <1> QED BY <1>1, <1>3, <1>5, MovesInv

LEMMA CrashInv ==
  ASSUME IInv, TypeOK', Crash
  PROVE  IInv'
  <1>1. UNCHANGED <<log, seen, read>>
    BY DEF Crash
  <1>2. \A r \in Request : req'[r] = Idle
    BY DEF Crash
  <1>3. ASSUME NEW r \in Request, req[r].pc \in {"advance", "read.seen"}
        PROVE  req[r].cursor \in lost'[req[r].actor]
    <2>1. req[r].actor \in Agent
      BY <1>3 DEF IInv, CallInv, AgentPC
    <2> QED BY <1>3, <2>1 DEF Crash
  <1>4. Grown
    BY <1>1 DEF Crash, Grown, IInv, TypeOK, latestSeq
  <1>5. MovesKept
    BY <1>3 DEF MovesKept
  <1> QED BY <1>1, <1>2, <1>4, <1>5, IdleInv, MovesInv

LEMMA InitInv == Init => IInv
  <1> SUFFICES ASSUME Init PROVE IInv
    OBVIOUS
  <1>1. TypeOK
    <2>1. Idle \in Call
      BY DEF Idle, Call, PC
    <2>2. <<>> \in Seq(Actor \cup {Platform})
      OBVIOUS
    <2>3. [a \in Agent |-> {}] \in [Agent -> SUBSET Nat]
      OBVIOUS
    <2>4. log \in Seq(Actor \cup {Platform}) /\ lost \in [Agent -> SUBSET Nat]
      BY <2>2, <2>3 DEF Init
    <2>5. seen \in [Agent -> Nat] /\ read \in [Actor -> Nat]
      BY DEF Init
    <2>6. archived \in BOOLEAN /\ drafts \subseteq Agent /\ req \in [Request -> Call]
      BY <2>1 DEF Init
    <2> QED BY <2>4, <2>5, <2>6 DEF TypeOK
  <1>2. OwnMessagesSeen
    BY DEF Init, OwnMessagesSeen
  <1>3. ReadImpliesSeen
    BY DEF Init, ReadImpliesSeen, Settled, Actor
  <1>4. \A r \in Request : CallInv(r)
    BY DEF Init, CallInv, Passed, Idle, AgentPC, latestSeq
  <1> QED BY <1>1, <1>2, <1>3, <1>4 DEF IInv

LEMMA NextInv == IInv /\ [Next]_vars => IInv'
  <1> SUFFICES ASSUME IInv, [Next]_vars PROVE IInv'
    OBVIOUS
  <1>1. TypeOK' /\ latestSeq \in Nat
    BY TypeNext DEF IInv, TypeOK, latestSeq
  <1>2. ASSUME NEW r \in Request, NEW h \in Human, SendAsHuman(r, h) PROVE IInv'
    <2>1. "send.append" \notin AgentPC /\ "send.append" \in PC /\ h \in Actor
      BY <1>1 DEF AgentPC, PC, Actor
    <2> QED BY <1>1, <1>2, <2>1, BeginInv DEF SendAsHuman
  <1>3. ASSUME NEW r \in Request, NEW a \in Agent, NEW force \in BOOLEAN, SendAsAgent(r, a, force) PROVE IInv'
    <2>1. "send.latest" \in PC /\ a \in Actor
      BY <1>1 DEF PC, Actor
    <2> QED BY <1>1, <1>3, <2>1, BeginInv DEF SendAsAgent
  <1>4. ASSUME NEW r \in Request, NEW m \in Actor, CreateTask(r, m) PROVE IInv'
    <2>1. "task.append" \notin AgentPC /\ "task.append" \in PC
      BY <1>1 DEF AgentPC, PC
    <2> QED BY <1>1, <1>4, <2>1, BeginInv DEF CreateTask
  <1>5. ASSUME NEW r \in Request, NEW a \in Agent, Claim(r, a) PROVE IInv'
    <2>1. "claim.seen" \in PC /\ a \in Actor
      BY <1>1 DEF PC, Actor
    <2> QED BY <1>1, <1>5, <2>1, BeginInv DEF Claim
  <1>6. ASSUME NEW r \in Request, NEW m \in Actor, NEW n \in 0 .. MaxSeq, MarkRead(r, m, n) PROVE IInv'
    <2>1. n \in Nat /\ "read.read" \notin AgentPC /\ "read.read" \in PC
      BY MaxSeqIsNat DEF AgentPC, PC
    <2> QED BY <1>1, <1>6, <2>1, BeginInv DEF MarkRead
  <1>7. ASSUME NEW r \in Request, Step(r) PROVE IInv'
    BY <1>1, <1>7, ReadsInv, AppendInv, AdvanceInv, ReadReadInv DEF Step
  <1>8. CASE AppendSystem
    BY <1>1, <1>8, SystemInv
  <1>9. ASSUME NEW m \in Actor, Leave(m) PROVE IInv'
    BY <1>1, <1>9, LeaveInv
  <1>10. ASSUME NEW b \in BOOLEAN, SetArchived(b) PROVE IInv'
    <2>1. UNCHANGED <<log, seen, read, req, lost>>
      BY <1>10 DEF SetArchived
    <2>2. Grown /\ MovesKept
      BY <1>1, <2>1 DEF IInv, TypeOK, Grown, MovesKept, latestSeq
    <2> QED BY <1>1, <2>1, <2>2, MovesInv
  <1>11. CASE Crash
    BY <1>1, <1>11, CrashInv
  <1>12. CASE UNCHANGED vars
    <2>1. UNCHANGED <<log, seen, read, req, lost>>
      BY <1>12 DEF vars
    <2>2. Grown /\ MovesKept
      BY <1>1, <2>1 DEF IInv, TypeOK, Grown, MovesKept, latestSeq
    <2> QED BY <1>1, <2>1, <2>2, MovesInv
  <1> QED BY <1>2, <1>3, <1>4, <1>5, <1>6, <1>7, <1>8, <1>9, <1>10, <1>11, <1>12 DEF Next

\* The invariant of the channel.
THEOREM Invariance == Spec => []IInv
  BY InitInv, NextInv, PTL DEF Spec

-----------------------------------------------------------------------------
\* Every variable stays in its range.
THEOREM TypeCorrect == Spec => []TypeOK
  <1>1. IInv => TypeOK
    BY DEF IInv
  <1> QED BY <1>1, Invariance, PTL

\* message.service.ts:83, freshness.ts:59: what passes the preflight was not held
\* for any message that was there when the call was made, whichever of cursor and
\* latest seq was read first, and whatever other calls did meanwhile.
THEOREM PassedIsFresh == Spec => []PassedSawTheStart
  <1>1. IInv => PassedSawTheStart
    BY DEF IInv, CallInv, PassedSawTheStart
  <1> QED BY <1>1, Invariance, PTL

\* read-state.service.ts:4: what an agent has read is seen, is on its way to the
\* seen cursor, or was when the server ended.
THEOREM ReadIsSeen == Spec => []ReadImpliesSeen
  <1>1. IInv => ReadImpliesSeen
    BY DEF IInv
  <1> QED BY <1>1, Invariance, PTL

\* message.service.ts:113: so is what an agent has posted.
THEOREM OwnIsSeen == Spec => []OwnMessagesSeen
  <1>1. IInv => OwnMessagesSeen
    BY DEF IInv
  <1> QED BY <1>1, Invariance, PTL

\* freshness.ts:59: the seen cursor never moves back.
THEOREM SeenGrows == Spec => SeenMonotone
  <1>1. ASSUME IInv, [Next]_vars, NEW a \in Agent PROVE seen'[a] >= seen[a]
    <2>1. seen \in [Agent -> Nat]
      BY <1>1 DEF IInv, TypeOK
    <2>2. CASE UNCHANGED seen
      BY <2>1, <2>2
    <2>3. ASSUME NEW r \in Request, Advance(r) PROVE seen'[a] >= seen[a]
      <3>1. req[r].cursor \in Nat
        BY <1>1 DEF IInv, TypeOK, Call
      <3> QED BY <2>1, <2>3, <3>1 DEF Advance, greatest
    <2> QED BY <1>1, <2>2, <2>3 DEF Next, Step, SendAsHuman, SendAsAgent, CreateTask, Claim, MarkRead, SendLatest,
                  SendSeen, SendDraft, AppendMessage, ClaimSeen, ClaimLatest, ClaimGo, ReadRead, AppendSystem,
                  Leave, SetArchived, Crash, vars
  <1>2. IInv /\ [Next]_vars => [\A a \in Agent : seen'[a] >= seen[a]]_seen
    BY <1>1
  <1> QED BY <1>2, Invariance, PTL DEF Spec, SeenMonotone

-----------------------------------------------------------------------------
(* The task board.                                                         *)

LEMMA BoardActors == Human \cap Agent = {} /\ None \notin Board!Actor
  BY BoardAssumption DEF Board!ParametersOK

\* A call past its first step names its actor and its task; an assignment
\* names the new assignee; an agent's status update expects itself.
CallsWellFormed ==
    \A r \in Request :
        /\ taskReq[r].pc # "idle" => taskReq[r].actor \in Board!Actor /\ taskReq[r].task \in Task
        /\ taskReq[r].pc \in {"assign.select", "assign.update"} => taskReq[r].to \in Agent
        /\ taskReq[r].pc = "status.write" /\ taskReq[r].actor \in Agent
              => taskReq[r].expected = taskReq[r].actor

BoardInv == Board!TypeOK /\ CallsWellFormed /\ Board!HoldersAgree

LEMMA TakenStatusType ==
    \A s \in Board!TASK_STATUSES : Board!TakenStatus(s) \in Board!TASK_STATUSES
  BY DEF Board!TakenStatus, Board!TASK_STATUSES

LEMMA ReleasedStatusType ==
    \A s \in Board!TASK_STATUSES : Board!ReleasedStatus(s) \in Board!TASK_STATUSES
  BY DEF Board!ReleasedStatus, Board!TASK_STATUSES

LEMMA IdleTaskCall == Board!Idle \in Board!Call /\ Board!Idle.pc = "idle"
  BY DEF Board!Idle, Board!Call, Board!PC, Board!TASK_STATUSES

LEMMA BoardInit == Board!Init => BoardInv
  BY BoardActors, IdleTaskCall
     DEF Board!Init, BoardInv, Board!TypeOK, CallsWellFormed, Board!HoldersAgree, Board!TASK_STATUSES

\* A call that begins or ends leaves the other calls alone.
LEMMA TaskBeginInv ==
    ASSUME Board!TypeOK, CallsWellFormed, NEW r \in Request, NEW c \in Board!Call,
           Board!Begin(r, c),
           c.actor \in Board!Actor, c.task \in Task,
           c.pc \in {"assign.select", "assign.update"} => c.to \in Agent,
           c.pc = "status.write" /\ c.actor \in Agent => c.expected = c.actor
    PROVE  taskReq' \in [Request -> Board!Call] /\ CallsWellFormed'
  BY DEF Board!TypeOK, CallsWellFormed, Board!Begin

LEMMA TaskFinishInv ==
    ASSUME Board!TypeOK, CallsWellFormed, NEW r \in Request, Board!Finish(r)
    PROVE  taskReq' \in [Request -> Board!Call] /\ CallsWellFormed'
  BY IdleTaskCall DEF Board!TypeOK, CallsWellFormed, Board!Finish

LEMMA TaskArriveInv ==
    ASSUME BoardInv, NEW r \in Request, Board!Arrive(r)
    PROVE  BoardInv'
<1> USE DEF BoardInv
<1>1. PICK a \in Board!Actor, t \in Task :
          \/ Board!Claim(r, a, t)
          \/ Board!Unclaim(r, a, t)
          \/ \E next \in Board!TASK_STATUSES : Board!UpdateStatus(r, a, t, next)
          \/ \E to \in Agent : Board!Assign(r, a, t, to)
  BY DEF Board!Arrive
<1>2. CASE Board!Claim(r, a, t)
  <2> DEFINE c == [Board!Idle EXCEPT !.pc = "claim.select", !.actor = a, !.task = t]
  <2>1. c \in Board!Call /\ c.pc = "claim.select" /\ c.actor = a /\ c.task = t
    BY DEF Board!Idle, Board!Call, Board!PC, Board!TASK_STATUSES
  <2>2. Board!Begin(r, c) /\ UNCHANGED <<rows, assignee, status, holders>>
    BY <1>2 DEF Board!Claim
  <2> HIDE DEF c
  <2>3. taskReq' \in [Request -> Board!Call] /\ CallsWellFormed'
    BY <2>1, <2>2, TaskBeginInv
  <2> QED BY <2>2, <2>3 DEF Board!TypeOK, Board!HoldersAgree
<1>3. CASE Board!Unclaim(r, a, t)
  <2> DEFINE c == [Board!Idle EXCEPT !.pc = "unclaim.write", !.actor = a, !.task = t,
                               !.status = Board!ReleasedStatus(status[t])]
  <2>0. Board!ReleasedStatus(status[t]) \in Board!TASK_STATUSES
    BY ReleasedStatusType DEF Board!TypeOK
  <2>1. c \in Board!Call /\ c.pc = "unclaim.write" /\ c.actor = a /\ c.task = t
    BY <2>0 DEF Board!Idle, Board!Call, Board!PC
  <2>2. Board!Begin(r, c) /\ UNCHANGED <<rows, assignee, status, holders>>
    BY <1>3 DEF Board!Unclaim
  <2> HIDE DEF c
  <2>3. taskReq' \in [Request -> Board!Call] /\ CallsWellFormed'
    BY <2>1, <2>2, TaskBeginInv
  <2> QED BY <2>2, <2>3 DEF Board!TypeOK, Board!HoldersAgree
<1>4. CASE \E next \in Board!TASK_STATUSES : Board!UpdateStatus(r, a, t, next)
  <2> PICK next \in Board!TASK_STATUSES : Board!UpdateStatus(r, a, t, next)
    BY <1>4
  <2> DEFINE c == [Board!Idle EXCEPT !.pc = "status.write", !.actor = a, !.task = t,
                               !.expected = assignee[t], !.status = next]
  <2>0. assignee[t] \in Board!Actor \cup {None} /\ (a \in Agent => assignee[t] = a)
    BY BoardActors DEF Board!TypeOK, Board!UpdateStatus, Board!MayUpdateStatus
  <2>1. c \in Board!Call /\ c.pc = "status.write" /\ c.actor = a /\ c.task = t
           /\ c.expected = assignee[t]
    BY <2>0 DEF Board!Idle, Board!Call, Board!PC
  <2>2. Board!Begin(r, c) /\ UNCHANGED <<rows, assignee, status, holders>>
    BY DEF Board!UpdateStatus
  <2> HIDE DEF c
  <2>3. taskReq' \in [Request -> Board!Call] /\ CallsWellFormed'
    BY <2>0, <2>1, <2>2, TaskBeginInv
  <2> QED BY <2>2, <2>3 DEF Board!TypeOK, Board!HoldersAgree
<1>5. CASE \E to \in Agent : Board!Assign(r, a, t, to)
  <2> PICK to \in Agent : Board!Assign(r, a, t, to)
    BY <1>5
  <2> DEFINE c == [Board!Idle EXCEPT !.pc = "assign.select", !.actor = a, !.task = t,
                               !.to = to]
  <2>1. c \in Board!Call /\ c.pc = "assign.select" /\ c.actor = a /\ c.task = t
           /\ c.to = to
    BY DEF Board!Idle, Board!Call, Board!PC, Board!TASK_STATUSES
  <2>2. Board!Begin(r, c) /\ UNCHANGED <<rows, assignee, status, holders>>
    BY DEF Board!Assign
  <2> HIDE DEF c
  <2>3. taskReq' \in [Request -> Board!Call] /\ CallsWellFormed'
    BY <2>1, <2>2, TaskBeginInv
  <2> QED BY <2>2, <2>3 DEF Board!TypeOK, Board!HoldersAgree
<1> QED BY <1>1, <1>2, <1>3, <1>4, <1>5

LEMMA TaskServeInv ==
    ASSUME BoardInv, NEW r \in Request, Board!Serve(r)
    PROVE  BoardInv'
<1> USE DEF BoardInv
<1> DEFINE c == taskReq[r]
           t == taskReq[r].task
<1>1. c.pc # "idle" => c.actor \in Board!Actor /\ t \in Task
  BY DEF CallsWellFormed
<1>2. CASE Board!ClaimSelect(r)
  <2>1. CASE assignee[t] = c.actor
    <3>1. Board!Finish(r) /\ holders' = [holders EXCEPT ![t] = @ \cup {c.actor}]
      BY <1>2, <2>1 DEF Board!ClaimSelect
    <3>2. taskReq' \in [Request -> Board!Call] /\ CallsWellFormed'
      BY <3>1, TaskFinishInv
    <3> QED BY <1>1, <1>2, <2>1, <3>1, <3>2 DEF Board!ClaimSelect, Board!TypeOK, Board!HoldersAgree
  <2>2. CASE assignee[t] # c.actor
    <3>1. /\ taskReq' = [taskReq EXCEPT ![r].pc = "claim.update",
                                ![r].status = Board!TakenStatus(status[t])]
          /\ UNCHANGED <<rows, assignee, status, holders>>
      BY <1>2, <2>2 DEF Board!ClaimSelect
    <3>2. Board!TakenStatus(status[t]) \in Board!TASK_STATUSES
      BY <1>1, <1>2, TakenStatusType DEF Board!ClaimSelect, Board!TypeOK
    <3>3. taskReq' \in [Request -> Board!Call]
      <4>1. c \in Board!Call
        BY DEF Board!TypeOK
      <4>2. [c EXCEPT !.pc = "claim.update", !.status = Board!TakenStatus(status[t])]
              \in Board!Call
        BY <3>2, <4>1 DEF Board!Call, Board!PC
      <4>3. taskReq' = [taskReq EXCEPT ![r] = [c EXCEPT !.pc = "claim.update",
                                               !.status = Board!TakenStatus(status[t])]]
        BY <3>1 DEF Board!TypeOK
      <4> QED BY <4>2, <4>3 DEF Board!TypeOK
    <3>4. \A q \in Request : q # r => taskReq'[q] = taskReq[q]
      BY <3>1 DEF Board!TypeOK
    <3>5. /\ taskReq'[r].pc = "claim.update"
          /\ taskReq'[r].actor = c.actor /\ taskReq'[r].task = t
      BY <3>1 DEF Board!TypeOK, Board!Call
    <3>6. c.actor \in Board!Actor /\ t \in Task
      BY <1>1, <1>2 DEF Board!ClaimSelect
    <3>7. CallsWellFormed'
      BY <3>4, <3>5, <3>6 DEF CallsWellFormed
    <3> QED BY <3>1, <3>3, <3>7 DEF Board!TypeOK, Board!HoldersAgree
  <2> QED BY <2>1, <2>2
<1>3. CASE Board!ClaimUpdate(r)
  <2>1. CASE Board!Unassigned(t)
    <3>1. /\ Board!Finish(r)
          /\ assignee' = [assignee EXCEPT ![t] = c.actor]
          /\ status' = [status EXCEPT ![t] = c.status]
          /\ holders' = [holders EXCEPT ![t] = @ \cup {c.actor}]
          /\ rows' = rows
      BY <1>3, <2>1 DEF Board!ClaimUpdate
    <3>2. taskReq' \in [Request -> Board!Call] /\ CallsWellFormed'
      BY <3>1, TaskFinishInv
    <3>3. Board!TypeOK'
      BY <1>1, <1>3, <3>1, <3>2 DEF Board!ClaimUpdate, Board!TypeOK, Board!Call
    <3>4. holders[t] = {}
      BY <1>1, <1>3, <2>1, BoardActors
         DEF Board!ClaimUpdate, Board!Unassigned, Board!TypeOK, Board!HoldersAgree
    <3>5. Board!HoldersAgree'
      BY <1>1, <1>3, <3>1, <3>4 DEF Board!ClaimUpdate, Board!TypeOK, Board!HoldersAgree
    <3> QED BY <3>2, <3>3, <3>5
  <2>2. CASE ~Board!Unassigned(t)
    <3>1. /\ taskReq' = [taskReq EXCEPT ![r].pc = "claim.reread"]
          /\ UNCHANGED <<rows, assignee, status, holders>>
      BY <1>3, <2>2 DEF Board!ClaimUpdate
    <3>2. taskReq' \in [Request -> Board!Call] /\ CallsWellFormed'
      BY <1>1, <1>3, <3>1 DEF Board!ClaimUpdate, Board!TypeOK, CallsWellFormed, Board!Call, Board!PC
    <3> QED BY <3>1, <3>2 DEF Board!TypeOK, Board!HoldersAgree
  <2> QED BY <2>1, <2>2
<1>4. CASE Board!ClaimReread(r)
  <2>1. taskReq' \in [Request -> Board!Call] /\ CallsWellFormed'
    BY <1>4, TaskFinishInv DEF Board!ClaimReread
  <2> QED BY <1>1, <1>4, <2>1 DEF Board!ClaimReread, Board!TypeOK, Board!HoldersAgree
<1>5. CASE Board!UnclaimWrite(r)
  <2>1. taskReq' \in [Request -> Board!Call] /\ CallsWellFormed'
    BY <1>5, TaskFinishInv DEF Board!UnclaimWrite
  <2>2. CASE Board!StillHeldBy(t, c.actor)
    <3>1. /\ assignee' = [assignee EXCEPT ![t] = None]
          /\ status' = [status EXCEPT ![t] = c.status]
          /\ holders' = [holders EXCEPT ![t] = @ \ {c.actor}]
          /\ rows' = rows
      BY <1>5, <2>2 DEF Board!UnclaimWrite
    <3>2. Board!TypeOK'
      BY <1>1, <1>5, <2>1, <3>1 DEF Board!UnclaimWrite, Board!TypeOK, Board!Call
    <3>3. holders[t] \ {c.actor} = {}
      BY <1>1, <1>5, <2>2 DEF Board!UnclaimWrite, Board!StillHeldBy, Board!TypeOK, Board!HoldersAgree
    <3>4. Board!HoldersAgree'
      BY <1>1, <1>5, <3>1, <3>3 DEF Board!UnclaimWrite, Board!TypeOK, Board!HoldersAgree
    <3> QED BY <2>1, <3>2, <3>4
  <2>3. CASE ~Board!StillHeldBy(t, c.actor)
    BY <1>5, <2>1, <2>3 DEF Board!UnclaimWrite, Board!TypeOK, Board!HoldersAgree
  <2> QED BY <2>2, <2>3
<1>6. CASE Board!StatusWrite(r)
  <2>1. taskReq' \in [Request -> Board!Call] /\ CallsWellFormed'
    BY <1>6, TaskFinishInv DEF Board!StatusWrite
  <2>2. c.status \in Board!TASK_STATUSES
    BY DEF Board!TypeOK, Board!Call
  <2> QED BY <1>1, <1>6, <2>1, <2>2 DEF Board!StatusWrite, Board!TypeOK, Board!HoldersAgree
<1>7. CASE Board!AssignSelect(r)
  <2>1. UNCHANGED <<rows, assignee, status, holders>>
    BY <1>7 DEF Board!AssignSelect
  <2>2. CASE Board!Finish(r)
    <3>1. taskReq' \in [Request -> Board!Call] /\ CallsWellFormed'
      BY <2>2, TaskFinishInv
    <3> QED BY <2>1, <3>1 DEF Board!TypeOK, Board!HoldersAgree
  <2>3. CASE taskReq' = [taskReq EXCEPT ![r].pc = "assign.update",
                               ![r].status = Board!TakenStatus(status[t])]
    <3>1. Board!TakenStatus(status[t]) \in Board!TASK_STATUSES
      BY <1>1, <1>7, TakenStatusType DEF Board!AssignSelect, Board!TypeOK
    <3> DEFINE next == [c EXCEPT !.pc = "assign.update", !.status = Board!TakenStatus(status[t])]
    <3>2. taskReq \in [Request -> Board!Call] /\ c.pc = "assign.select" /\ c \in Board!Call
      BY <1>7 DEF Board!AssignSelect, Board!TypeOK
    <3>3. /\ next \in Board!Call /\ next.pc = "assign.update"
          /\ next.actor = c.actor /\ next.task = c.task /\ next.to = c.to
      BY <3>1, <3>2 DEF Board!Call, Board!PC
    <3>4. taskReq' = [taskReq EXCEPT ![r] = next]
      BY <2>3, <3>2
    <3> HIDE DEF next
    <3>5. taskReq' \in [Request -> Board!Call] /\ CallsWellFormed'
      BY <3>2, <3>3, <3>4 DEF CallsWellFormed
    <3> QED BY <2>1, <3>5 DEF Board!TypeOK, Board!HoldersAgree
  <2> QED BY <1>7, <2>2, <2>3 DEF Board!AssignSelect
<1>8. CASE Board!AssignUpdate(r)
  <2>1. taskReq' \in [Request -> Board!Call] /\ CallsWellFormed'
    BY <1>8, TaskFinishInv DEF Board!AssignUpdate
  <2>2. c.to \in Agent /\ c.status \in Board!TASK_STATUSES
    BY <1>8 DEF Board!AssignUpdate, CallsWellFormed, Board!TypeOK, Board!Call
  <2> QED BY <1>1, <1>8, <2>1, <2>2 DEF Board!AssignUpdate, Board!TypeOK, Board!HoldersAgree, Board!Actor
<1> QED BY <1>2, <1>3, <1>4, <1>5, <1>6, <1>7, <1>8 DEF Board!Serve

LEMMA BoardNext == BoardInv /\ [Board!Next]_(Board!vars) => BoardInv'
<1> SUFFICES ASSUME BoardInv, [Board!Next]_(Board!vars) PROVE BoardInv'
  OBVIOUS
<1>1. CASE \E t \in Task : Board!Create(t)
  BY <1>1 DEF BoardInv, Board!Create, Board!TypeOK, CallsWellFormed, Board!HoldersAgree
<1>2. CASE \E r \in Request : Board!Arrive(r)
  BY <1>2, TaskArriveInv
<1>3. CASE \E r \in Request : Board!Serve(r)
  BY <1>3, TaskServeInv
<1>4. CASE Board!Crash
  BY <1>4, IdleTaskCall DEF BoardInv, Board!Crash, Board!TypeOK, CallsWellFormed, Board!HoldersAgree
<1>5. CASE UNCHANGED Board!vars
  BY <1>5 DEF BoardInv, Board!vars, Board!TypeOK, CallsWellFormed, Board!HoldersAgree
<1> QED BY <1>1, <1>2, <1>3, <1>4, <1>5 DEF Board!Next

THEOREM BoardInvariance == Board!Spec => []BoardInv
  BY BoardInit, BoardNext, PTL DEF Board!Spec

\* The variables keep their types.
THEOREM BoardTypeCorrect == Board!Spec => []Board!TypeOK
<1>1. BoardInv => Board!TypeOK
  BY DEF BoardInv
<1> QED BY <1>1, BoardInvariance, PTL

\* Claim-before-work: at any time at most one actor has been told that it
\* holds a task, and the table agrees (domain/claim.ts:4-6).
THEOREM ClaimExclusion == Board!Spec => []HoldersAgree
<1>1. BoardInv => HoldersAgree
  BY DEF BoardInv, HoldersAgree
<1> QED BY <1>1, BoardInvariance, PTL

\* A task changes hands only by a claim or an assignment of a free one, by an
\* assignment, or by its holder giving it up (domain/task-ops.ts:8).
THEOREM OwnershipSafe == Board!Spec => OwnershipMoves
<1> DEFINE Moved(t) ==
      \/ assignee[t] = None
      \/ \E r \in Request :
            /\ taskReq[r].task = t /\ taskReq'[r] = Board!Idle
            /\ \/ taskReq[r].pc = "assign.update" /\ assignee'[t] = taskReq[r].to
               \/ /\ taskReq[r].pc = "unclaim.write"
                  /\ taskReq[r].actor = assignee[t] /\ assignee'[t] = None
<1>1. ASSUME BoardInv, [Board!Next]_(Board!vars), NEW t \in Task, assignee'[t] # assignee[t]
      PROVE  Moved(t)
  <2>1. PICK r \in Request : Board!Serve(r)
    BY <1>1 DEF Board!Next, Board!vars, Board!Create, Board!Arrive, Board!Claim, Board!Unclaim,
                Board!UpdateStatus, Board!Assign, Board!Crash
  <2>2. Board!ClaimUpdate(r) \/ Board!UnclaimWrite(r) \/ Board!AssignUpdate(r)
    BY <1>1, <2>1 DEF Board!Serve, Board!ClaimSelect, Board!ClaimReread, Board!StatusWrite, Board!AssignSelect
  <2>3. CASE Board!ClaimUpdate(r)
    BY <1>1, <2>3 DEF Board!ClaimUpdate, Board!Unassigned, BoardInv, Board!TypeOK
  <2>4. CASE Board!UnclaimWrite(r)
    <3>1. taskReq'[r] = Board!Idle /\ taskReq[r].pc = "unclaim.write"
      BY <1>1, <2>4 DEF Board!UnclaimWrite, Board!Finish, BoardInv, Board!TypeOK
    <3>2. taskReq[r].task \in Task
      BY <1>1, <3>1 DEF BoardInv, CallsWellFormed
    <3>3. Board!StillHeldBy(taskReq[r].task, taskReq[r].actor)
            /\ assignee' = [assignee EXCEPT ![taskReq[r].task] = None]
      BY <1>1, <2>4 DEF Board!UnclaimWrite
    <3>4. taskReq[r].task = t /\ taskReq[r].actor = assignee[t] /\ assignee'[t] = None
      BY <1>1, <3>2, <3>3 DEF Board!StillHeldBy, BoardInv, Board!TypeOK
    <3> QED BY <3>1, <3>4
  <2>5. CASE Board!AssignUpdate(r)
    <3>1. taskReq'[r] = Board!Idle /\ taskReq[r].pc = "assign.update"
      BY <1>1, <2>5 DEF Board!AssignUpdate, Board!Finish, BoardInv, Board!TypeOK
    <3>2. taskReq[r].task \in Task
      BY <1>1, <3>1 DEF BoardInv, CallsWellFormed
    <3>3. assignee' = [assignee EXCEPT ![taskReq[r].task] = taskReq[r].to]
      BY <2>5 DEF Board!AssignUpdate
    <3>4. taskReq[r].task = t /\ assignee'[t] = taskReq[r].to
      BY <1>1, <3>2, <3>3 DEF BoardInv, Board!TypeOK
    <3> QED BY <3>1, <3>4
  <2> QED BY <2>2, <2>3, <2>4, <2>5
<1>2. BoardInv /\ [Board!Next]_(Board!vars)
        => [\A t \in Task : assignee'[t] # assignee[t] => Moved(t)]_(Board!vars)
  BY <1>1
<1> QED BY <1>2, BoardInvariance, PTL DEF Board!Spec, OwnershipMoves, Board!OwnershipMoves

\* A status written under an unchanged assignee was written by a human or by the
\* holder, or the task was assigned to its holder again (task-ops.ts:5-6).
THEOREM StatusSafe == Board!Spec => AgentsWriteOwnTasks
<1> DEFINE Rightful(t) ==
      \E r \in Request :
          /\ taskReq[r].task = t /\ taskReq'[r] = Board!Idle
          /\ \/ /\ taskReq[r].pc = "status.write"
                /\ taskReq[r].actor \in Human \/ taskReq[r].actor = assignee[t]
             \/ taskReq[r].pc = "assign.update" /\ taskReq[r].to = assignee[t]
<1>1. ASSUME BoardInv, [Board!Next]_(Board!vars), NEW t \in Task,
             status'[t] # status[t] /\ assignee'[t] = assignee[t]
      PROVE  Rightful(t)
  <2>1. PICK r \in Request : Board!Serve(r)
    BY <1>1 DEF Board!Next, Board!vars, Board!Create, Board!Arrive, Board!Claim, Board!Unclaim,
                Board!UpdateStatus, Board!Assign, Board!Crash
  <2>2. \/ Board!ClaimUpdate(r) \/ Board!UnclaimWrite(r)
        \/ Board!StatusWrite(r) \/ Board!AssignUpdate(r)
    BY <1>1, <2>1 DEF Board!Serve, Board!ClaimSelect, Board!ClaimReread, Board!AssignSelect
  <2>3. /\ taskReq[r].pc # "idle"
        /\ taskReq[r].task \in Task /\ taskReq[r].actor \in Board!Actor
    BY <1>1, <2>2 DEF Board!ClaimUpdate, Board!UnclaimWrite, Board!StatusWrite, Board!AssignUpdate,
                      BoardInv, CallsWellFormed
  <2>4. taskReq[r].task = t
    BY <1>1, <2>2, <2>3 DEF Board!ClaimUpdate, Board!UnclaimWrite, Board!StatusWrite, Board!AssignUpdate,
                           BoardInv, Board!TypeOK
  <2>5. ~Board!ClaimUpdate(r)
    BY <1>1, <2>3, <2>4, BoardActors DEF Board!ClaimUpdate, Board!Unassigned, BoardInv, Board!TypeOK
  <2>6. ~Board!UnclaimWrite(r)
    BY <1>1, <2>3, <2>4, BoardActors DEF Board!UnclaimWrite, Board!StillHeldBy, BoardInv, Board!TypeOK
  <2>7. CASE Board!StatusWrite(r)
    <3>1. taskReq'[r] = Board!Idle /\ taskReq[r].pc = "status.write"
      BY <1>1, <2>7 DEF Board!StatusWrite, Board!Finish, BoardInv, Board!TypeOK
    <3>2. assignee[t] = taskReq[r].expected
      BY <1>1, <2>4, <2>7 DEF Board!StatusWrite, Board!StillAsRead
    <3>3. taskReq[r].actor \in Human \/ taskReq[r].actor = assignee[t]
      BY <1>1, <2>3, <3>1, <3>2 DEF Board!Actor, BoardInv, CallsWellFormed
    <3> QED BY <2>4, <3>1, <3>3
  <2>8. CASE Board!AssignUpdate(r)
    <3>1. taskReq'[r] = Board!Idle /\ taskReq[r].pc = "assign.update"
      BY <1>1, <2>8 DEF Board!AssignUpdate, Board!Finish, BoardInv, Board!TypeOK
    <3>2. taskReq[r].to = assignee[t]
      BY <1>1, <2>3, <2>4, <2>8 DEF Board!AssignUpdate, BoardInv, Board!TypeOK
    <3> QED BY <2>4, <3>1, <3>2
  <2> QED BY <2>2, <2>5, <2>6, <2>7, <2>8
<1>2. BoardInv /\ [Board!Next]_(Board!vars)
        => [\A t \in Task : status'[t] # status[t] /\ assignee'[t] = assignee[t]
              => Rightful(t)]_(Board!vars)
  BY <1>1
<1> QED BY <1>2, BoardInvariance, PTL DEF Board!Spec, AgentsWriteOwnTasks, Board!AgentsWriteOwnTasks
=============================================================================
