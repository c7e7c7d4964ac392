----------------------------- MODULE FleetProofs -----------------------------
(***************************************************************************)
(* Proofs about ControlPlane and Fleet, for any machines, sockets,         *)
(* requests, files, handles, tokens and restarts.                          *)
(*                                                                         *)
(* Every step of Fleet is one of ControlPlane or leaves its variables      *)
(* alone, so what is invariant under Next holds in both.  Sockets and      *)
(* statuses (ConnInv) and requests (RequestInv) meet in Restart only.      *)
(***************************************************************************)
EXTENDS Fleet, FiniteSetTheorems, SequenceTheorems, WellFoundedInduction, TLAPS

-----------------------------------------------------------------------------
(* Sockets and statuses.                                                   *)

SocketState == [pc : {"new", "lookup", "open", "done"}, machine : Machine \cup {None},
                up : BOOLEAN, events : 0 .. 2]

ConnTypeOK ==
    /\ socket \in [Socket -> SocketState]
    /\ current \in [Machine -> Socket \cup {None}]
    /\ hello \in [Socket -> {"none", "sent", "heard", "dropped"}]
    /\ hub \in Seq(Socket) /\ IsInjective(hub)
    /\ status \in [Machine -> {"online", "offline"}]
    /\ writes \in [Machine -> [{"online", "offline"} -> Nat]]
    /\ raced \in [Machine -> BOOLEAN]

\* The hub holds open sockets; a socket that was opened is a machine's.
SocketsKnown ==
    /\ \A s \in ToSet(hub) : socket[s].pc = "open"
    /\ \A s \in Socket : socket[s].pc # "new" => socket[s].machine \in Machine

\* What the hub says of each machine.
HubStatus == [m \in Machine |-> IF isMachineOnline(hub, m) THEN "online" ELSE "offline"]

\* Unless they raced, the transactions of m under way all write what the hub
\* says, and the last that landed has.
WritesAgree ==
    \A m \in Machine :
        ~raced[m] => /\ \A st \in {"online", "offline"} : writes[m][st] > 0 => st = HubStatus[m]
                     /\ ~Landing(m) => status[m] = HubStatus[m]

ConnInv == ConnTypeOK /\ SocketsKnown /\ WritesAgree

-----------------------------------------------------------------------------
(* Requests.                                                               *)

RequestState == [pc : {"new", "waiting", "answered", "rejected", "lost"},
                 number : {0} \cup Number, life : 0 .. MaxCrash,
                 machine : Machine \cup {None}, answer : Request \cup {None}]

RequestTypeOK ==
    /\ reqSeq \in 0 .. Cardinality(Request)
    /\ pending \in [Number -> Request \cup {None}]
    /\ request \in [Request -> RequestState]
    /\ job \in [Machine -> SUBSET Request]
    /\ reply \subseteq (Socket \X Request)
    /\ life \in 0 .. MaxCrash

\* The requests that were made.
Made == {q \in Request : request[q].pc # "new"}

\* A request has a number its server had come to, an answer once it is answered,
\* and an answer is that of a request that was made.
MadeInv ==
    \A q \in Request :
        LET c == request[q] IN
        /\ q \in Made => /\ c.number \in Number /\ c.machine \in Machine
                         /\ c.life <= life /\ (c.life = life => c.number <= reqSeq)
        /\ c.pc = "waiting" => c.life = life
        /\ c.answer # None <=> c.pc = "answered"
        /\ c.answer # None => c.answer \in Made

\* Within one life a number is given once.
NumbersDiffer ==
    \A p, q \in Made : request[p].life = request[q].life /\ request[p].number = request[q].number => p = q

\* Only what was made is worked on and replied to.
WorkIsMade == (\A m \in Machine : job[m] \subseteq Made) /\ (\A x \in reply : x[2] \in Made)

RequestInv ==
    /\ RequestTypeOK
    /\ reqSeq <= Cardinality(Made)
    /\ MadeInv /\ NumbersDiffer /\ WorkIsMade
    /\ PendingAreWaiting /\ OwnAnswerWithinLife

-----------------------------------------------------------------------------
(* Calls of the web API.                                                   *)

\* Where a call of each kind can be, and what it has by then.
CallInv ==
    \A q \in Request :
        LET c == op[q] IN
        /\ c.pc \in {"list", "request", "waiting", "rollback"} => c.kind = "import"
        /\ c.pc # "idle" /\ c.kind = "import" => c.machine \in Machine
        /\ c.pc \in {"create", "request", "waiting", "tag", "rollback"} => c.handle \in Handle
        /\ c.pc \in {"idle", "list", "create", "request"} => q \notin Made

\* A row that a call has inserted has the handle of the call, which goes on.
RowInv ==
    \A q \in Request, h \in Handle :
        agent[h].by = q => /\ op[q].pc \in {"request", "waiting", "tag", "rollback", "ok", "kept", "lost"}
                           /\ op[q].handle = h

\* The requests with a reply under way or taken.  They are copied no more.
Replied ==
    {q \in Request : (\E s \in Socket : <<s, q>> \in reply) \/ (\E p \in Request : request[p].answer = q)}

RepliesInv == \A q \in Replied : CopyEnded(q) /\ q \notin job[request[q].machine]

\* An import that got its answer has its files, or the answer of another life.
TaggedIsWhole ==
    \A q \in Request :
        op[q].pc \in {"tag", "ok"} /\ op[q].kind = "import"
            => /\ request[q].pc = "answered"
               /\ work[q].copied = File \/ request[request[q].answer].life < request[q].life

FleetInv ==
    /\ FleetTypeOK
    /\ CallInv /\ RowInv /\ RepliesInv /\ TaggedIsWhole

-----------------------------------------------------------------------------
(* The connections of the hub.                                             *)

LEMMA UnregisterSet ==
  ASSUME hub \in Seq(Socket), IsInjective(hub), NEW s \in Socket
  PROVE  /\ unregister(s) \in Seq(Socket) /\ IsInjective(unregister(s))
         /\ ToSet(unregister(s)) = ToSet(hub) \ {s}
  <1>1. CASE s \notin ToSet(hub)
    BY <1>1 DEF unregister
  <1>2. CASE s \in ToSet(hub)
    <2> DEFINE k == CHOOSE i \in DOMAIN hub : hub[i] = s
               n == Len(hub)
               rest == RemoveAt(hub, k)
    <2>1. /\ n \in Nat /\ n = Len(hub) /\ DOMAIN hub = 1 .. n
          /\ k \in 1 .. n /\ hub[k] = s
      BY <1>2 DEF ToSet
    <2> HIDE DEF k, n
    <2>2. /\ SubSeq(hub, 1, k - 1) \in Seq(Socket) /\ Len(SubSeq(hub, 1, k - 1)) = k - 1
          /\ \A i \in 1 .. k - 1 : SubSeq(hub, 1, k - 1)[i] = hub[i]
      <3>1. \A i \in 1 .. k - 1 : hub[i] \in Socket
        BY <2>1
      <3>2. k - 1 \in Int /\ 1 \in Int
        BY <2>1
      <3> QED BY <2>1, <3>1, <3>2, SubSeqProperties
    <2>3. /\ SubSeq(hub, k + 1, n) \in Seq(Socket) /\ Len(SubSeq(hub, k + 1, n)) = n - k
          /\ \A i \in 1 .. n - k : SubSeq(hub, k + 1, n)[i] = hub[k + i]
      <3>1. \A i \in k + 1 .. n : hub[i] \in Socket
        BY <2>1
      <3>2. k + 1 \in Int /\ n \in Int
        BY <2>1
      <3>3. /\ SubSeq(hub, k + 1, n) \in Seq(Socket)
            /\ Len(SubSeq(hub, k + 1, n)) = IF k + 1 <= n THEN n - (k + 1) + 1 ELSE 0
            /\ \A i \in 1 .. n - (k + 1) + 1 : SubSeq(hub, k + 1, n)[i] = hub[k + 1 + i - 1]
        BY <3>1, <3>2, SubSeqProperties
      <3>4. ASSUME NEW i \in 1 .. n - k PROVE SubSeq(hub, k + 1, n)[i] = hub[k + i]
        <4>1. i \in 1 .. n - (k + 1) + 1 /\ k + 1 + i - 1 = k + i
          BY <2>1
        <4> QED BY <3>3, <4>1
      <3>5. (IF k + 1 <= n THEN n - (k + 1) + 1 ELSE 0) = n - k
        <4>1. CASE k = n
          BY <2>1, <4>1
        <4>2. CASE k < n
          BY <2>1, <4>2
        <4> QED BY <2>1, <4>1, <4>2
      <3> QED BY <3>3, <3>4, <3>5
    <2>4. /\ rest \in Seq(Socket) /\ Len(rest) = n - 1
          /\ \A i \in 1 .. n - 1 : rest[i] = IF i < k THEN hub[i] ELSE hub[i + 1]
      <3> DEFINE a == SubSeq(hub, 1, k - 1)
                 b == SubSeq(hub, k + 1, n)
      <3>1. /\ a \in Seq(Socket) /\ Len(a) = k - 1 /\ \A i \in 1 .. k - 1 : a[i] = hub[i]
            /\ b \in Seq(Socket) /\ Len(b) = n - k /\ \A i \in 1 .. n - k : b[i] = hub[k + i]
        BY <2>2, <2>3
      <3>2. rest = a \o b
        BY <2>1 DEF RemoveAt
      <3> HIDE DEF a, b, rest
      <3>3. /\ rest \in Seq(Socket) /\ Len(rest) = n - 1
            /\ \A i \in 1 .. n - 1 : rest[i] = IF i <= k - 1 THEN a[i] ELSE b[i - (k - 1)]
        <4>1. /\ a \o b \in Seq(Socket) /\ Len(a \o b) = Len(a) + Len(b)
              /\ \A i \in 1 .. Len(a) + Len(b) : (a \o b)[i] = IF i <= Len(a) THEN a[i] ELSE b[i - Len(a)]
          BY <3>1, ConcatProperties
        <4>2. Len(a) + Len(b) = n - 1
          BY <2>1, <3>1
        <4> QED BY <3>1, <3>2, <4>1, <4>2
      <3>4. ASSUME NEW i \in 1 .. n - 1, i >= k PROVE rest[i] = hub[i + 1]
        <4>1. i - (k - 1) \in 1 .. n - k /\ k + (i - (k - 1)) = i + 1 /\ ~(i <= k - 1)
          BY <2>1, <3>4
        <4> QED BY <3>1, <3>3, <4>1
      <3>5. ASSUME NEW i \in 1 .. n - 1, i < k PROVE rest[i] = hub[i]
        <4>1. i \in 1 .. k - 1 /\ i <= k - 1
          BY <2>1, <3>5
        <4> QED BY <3>1, <3>3, <4>1
      <3>6. ASSUME NEW i \in 1 .. n - 1 PROVE rest[i] = IF i < k THEN hub[i] ELSE hub[i + 1]
        <4>1. k \in Nat /\ i \in Nat
          BY <2>1
        <4> QED BY <3>4, <3>5, <4>1
      <3> QED BY <3>3, <3>6
    <2>5. \A i, j \in 1 .. n : hub[i] = hub[j] => i = j
      BY <2>1 DEF IsInjective
    <2> HIDE DEF rest
    <2>6. IsInjective(rest)
      BY <2>1, <2>4, <2>5 DEF IsInjective
    <2>7. ToSet(rest) \subseteq ToSet(hub) \ {s}
      <3>1. ToSet(hub) = {hub[i] : i \in 1 .. n} /\ ToSet(rest) = {rest[i] : i \in 1 .. n - 1}
        BY <2>1, <2>4 DEF ToSet
      <3>2. ASSUME NEW i \in 1 .. n - 1 PROVE rest[i] \in {hub[j] : j \in 1 .. n} \ {s}
        <4>1. CASE i < k
          BY <2>1, <2>4, <2>5, <4>1
        <4>2. CASE i >= k
          <5>1. i + 1 \in 1 .. n /\ i + 1 # k /\ rest[i] = hub[i + 1]
            BY <2>1, <2>4, <4>2
          <5> QED BY <2>1, <2>5, <5>1
        <4> QED BY <2>1, <4>1, <4>2
      <3> QED BY <3>1, <3>2
    <2>8. ASSUME NEW x \in ToSet(hub) \ {s} PROVE x \in ToSet(rest)
      <3>1. PICK i \in 1 .. n : hub[i] = x
        BY <2>1 DEF ToSet
      <3>2. i # k
        BY <2>1, <3>1
      <3>3. CASE i < k
        BY <2>1, <2>4, <3>1, <3>3 DEF ToSet
      <3>4. CASE i > k
        <4>1. i - 1 \in 1 .. n - 1 /\ rest[i - 1] = x
          BY <2>1, <2>4, <3>1, <3>4
        <4> QED BY <2>4, <4>1 DEF ToSet
      <3> QED BY <2>1, <3>2, <3>3, <3>4
    <2>9. unregister(s) = rest
      BY <1>2 DEF unregister, rest, k
    <2> QED BY <2>4, <2>6, <2>7, <2>8, <2>9
  <1> QED BY <1>1, <1>2

LEMMA RegisterSet ==
  ASSUME hub \in Seq(Socket), IsInjective(hub), NEW s \in Socket, s \notin ToSet(hub)
  PROVE  /\ register(s) \in Seq(Socket) /\ IsInjective(register(s))
         /\ ToSet(register(s)) = ToSet(hub) \cup {s}
  <1> DEFINE n == Len(hub)
  <1>1. /\ register(s) \in Seq(Socket) /\ n \in Nat /\ Len(register(s)) = n + 1
        /\ \A i \in 1 .. n : register(s)[i] = hub[i]
        /\ register(s)[n + 1] = s
    BY DEF register
  <1>2. IsInjective(register(s))
    <2>1. \A i, j \in 1 .. n : hub[i] = hub[j] => i = j
      BY DEF IsInjective
    <2>2. \A i \in 1 .. n : hub[i] # s
      BY DEF ToSet
    <2> QED BY <1>1, <2>1, <2>2 DEF IsInjective
  <1>3. ToSet(register(s)) = ToSet(hub) \cup {s}
    <2>1. ToSet(register(s)) = {register(s)[i] : i \in 1 .. n + 1}
      BY <1>1 DEF ToSet
    <2>2. ToSet(hub) = {hub[i] : i \in 1 .. n}
      BY DEF ToSet
    <2>3. 1 .. n + 1 = (1 .. n) \cup {n + 1}
      BY <1>1
    <2> QED BY <1>1, <2>1, <2>2, <2>3
  <1> QED BY <1>1, <1>2, <1>3

\* A transaction that writes what the hub says from now on.
LEMMA SetStatusAgrees ==
  ASSUME ConnInv, NEW m \in Machine, NEW st \in {"online", "offline"}, setStatus(m, st),
         HubStatus'[m] = st, \A x \in Machine \ {m} : HubStatus'[x] = HubStatus[x]
  PROVE  /\ status' \in [Machine -> {"online", "offline"}]
         /\ writes' \in [Machine -> [{"online", "offline"} -> Nat]]
         /\ raced' \in [Machine -> BOOLEAN]
         /\ WritesAgree'
  <1>1. /\ status \in [Machine -> {"online", "offline"}]
        /\ writes \in [Machine -> [{"online", "offline"} -> Nat]]
        /\ raced \in [Machine -> BOOLEAN]
    BY DEF ConnInv, ConnTypeOK
  <1>2. /\ writes' = [writes EXCEPT ![m][st] = @ + 1] /\ status' = status
        /\ raced' = [raced EXCEPT ![m] =
                       Landing(m) /\ (@ \/ \E other \in DOMAIN NoWrites \ {st} : writes[m][other] > 0)]
    BY DEF setStatus
  <1>3. writes' \in [Machine -> [{"online", "offline"} -> Nat]]
    BY <1>1, <1>2
  <1>4. raced' \in [Machine -> BOOLEAN]
    BY <1>1, <1>2 DEF Landing
  <1>5. ASSUME NEW x \in Machine, ~raced'[x], x # m
        PROVE  /\ \A w \in {"online", "offline"} : writes'[x][w] > 0 => w = HubStatus'[x]
               /\ ~Landing(x)' => status'[x] = HubStatus'[x]
    <2>1. writes'[x] = writes[x] /\ raced'[x] = raced[x] /\ HubStatus'[x] = HubStatus[x]
      BY <1>1, <1>2, <1>5
    <2> QED BY <1>2, <1>5, <2>1 DEF ConnInv, WritesAgree, Landing
  <1>6. ASSUME ~raced'[m]
        PROVE  /\ \A w \in {"online", "offline"} : writes'[m][w] > 0 => w = HubStatus'[m]
               /\ ~Landing(m)' => status'[m] = HubStatus'[m]
    <2>1. /\ writes'[m] = [writes[m] EXCEPT ![st] = @ + 1]
          /\ writes[m] \in [{"online", "offline"} -> Nat]
      BY <1>1, <1>2
    <2>2. ~(Landing(m) /\ \E other \in {"online", "offline"} \ {st} : writes[m][other] > 0)
      BY <1>1, <1>2, <1>6 DEF NoWrites
    <2>3. ASSUME NEW w \in {"online", "offline"}, w # st PROVE ~(writes'[m][w] > 0)
      <3>1. writes'[m][w] = writes[m][w]
        BY <2>1, <2>3
      <3>2. CASE ~Landing(m)
        BY <3>1, <3>2 DEF Landing, NoWrites
      <3> QED BY <2>2, <2>3, <3>1, <3>2
    <2>4. writes'[m][st] = writes[m][st] + 1 /\ writes[m][st] \in Nat
      BY <2>1
    <2>5. Landing(m)'
      <3>1. writes'[m][st] # 0 /\ NoWrites[st] = 0
        BY <2>4 DEF NoWrites
      <3> QED BY <3>1 DEF Landing
    <2> QED BY <2>3, <2>5
  <1>7. WritesAgree'
    BY <1>5, <1>6 DEF WritesAgree
  <1> QED BY <1>1, <1>2, <1>3, <1>4, <1>7

-----------------------------------------------------------------------------
(* Steps of sockets and statuses.                                          *)

\* The hub and the machines of its sockets say what they said.
LEMMA SameHub ==
  ASSUME UNCHANGED hub, \A s \in ToSet(hub) : socket'[s].machine = socket[s].machine
  PROVE  \A m \in Machine : HubStatus'[m] = HubStatus[m]
  BY DEF HubStatus, isMachineOnline, ToSet

\* A step that does not touch the hub or the statuses.
LEMMA OnlySocket ==
  ASSUME ConnInv, ConnTypeOK', UNCHANGED <<hub, statusVars>>, SocketsKnown',
         \A s \in ToSet(hub) : socket'[s].machine = socket[s].machine
  PROVE  ConnInv'
  <1>1. \A m \in Machine : HubStatus'[m] = HubStatus[m]
    BY SameHub
  <1>2. WritesAgree'
    BY <1>1 DEF ConnInv, WritesAgree, Landing, statusVars
  <1> QED BY <1>2 DEF ConnInv

LEMMA InHub ==
  ASSUME ConnInv
  PROVE  \A s \in ToSet(hub) : s \in Socket /\ socket[s].pc = "open"
  BY DEF ConnInv, ConnTypeOK, SocketsKnown, ToSet

LEMMA SocketSteps ==
  ASSUME NEW c \in SocketState
  PROVE  /\ \A n \in 1 .. 2 : [c EXCEPT !.up = FALSE, !.events = n] \in SocketState
         /\ [c EXCEPT !.pc = "done", !.up = FALSE, !.events = 0] \in SocketState
  <1>1. ASSUME NEW n \in 0 .. 2 PROVE [c EXCEPT !.up = FALSE, !.events = n] \in SocketState
    BY DEF SocketState
  <1>2. [c EXCEPT !.pc = "done", !.up = FALSE, !.events = 0] \in SocketState
    <2>1. 0 \in 0 .. 2
      OBVIOUS
    <2> QED BY <2>1 DEF SocketState
  <1>3. \A n \in 1 .. 2 : n \in 0 .. 2
    OBVIOUS
  <1> QED BY <1>1, <1>2, <1>3

LEMMA ConnectInv ==
  ASSUME ConnInv, NEW m \in Machine, NEW s \in Socket, Connect(m, s)
  PROVE  ConnInv'
  <1>1. s \notin ToSet(hub)
    BY InHub DEF Connect
  <1>2. ConnTypeOK'
    BY DEF Connect, ConnInv, ConnTypeOK, SocketState, statusVars
  <1>3. \A x \in Socket \ {s} : socket'[x] = socket[x]
    BY DEF Connect, ConnInv, ConnTypeOK, SocketState
  <1>4. socket'[s].machine = m
    BY DEF Connect, ConnInv, ConnTypeOK, SocketState
  <1>5. SocketsKnown'
    BY <1>1, <1>3, <1>4, InHub DEF Connect, ConnInv, SocketsKnown, ToSet
  <1> QED BY <1>1, <1>2, <1>3, <1>5, InHub, OnlySocket DEF Connect

LEMMA HelloInv ==
  ASSUME ConnInv, NEW s \in Socket, SendHello(s) \/ HearHello(s)
  PROVE  ConnInv'
  <1>1. UNCHANGED <<socket, current, hub, status, writes, raced>>
    BY DEF SendHello, HearHello, statusVars
  <1>2. hello' \in [Socket -> {"none", "sent", "heard", "dropped"}]
    BY DEF SendHello, HearHello, ConnInv, ConnTypeOK
  <1>3. ConnTypeOK' /\ SocketsKnown'
    BY <1>1, <1>2 DEF ConnInv, ConnTypeOK, SocketsKnown, ToSet
  <1> QED BY <1>1, <1>3, OnlySocket DEF statusVars

LEMMA RefuseInv ==
  ASSUME ConnInv, NEW s \in Socket, Refuse(s)
  PROVE  ConnInv'
  <1>1. s \notin ToSet(hub)
    BY InHub DEF Refuse
  <1>2. ConnTypeOK'
    BY ZenonT(30) DEF Refuse, ConnInv, ConnTypeOK, SocketState, statusVars
  <1>3. \A x \in Socket : socket'[x].machine = socket[x].machine
    BY DEF Refuse, ConnInv, ConnTypeOK, SocketState
  <1>4. \A x \in Socket \ {s} : socket'[x] = socket[x]
    BY DEF Refuse, ConnInv, ConnTypeOK, SocketState
  <1>5. SocketsKnown'
    BY <1>1, <1>3, <1>4, InHub DEF Refuse, ConnInv, SocketsKnown
  <1> QED BY <1>2, <1>3, <1>5, InHub, OnlySocket DEF Refuse

LEMMA BreakInv ==
  ASSUME ConnInv, NEW s \in Socket, Break(s)
  PROVE  ConnInv'
  <1>1. PICK n \in 1 .. 2 : socket' = [socket EXCEPT ![s].up = FALSE, ![s].events = n]
    BY DEF Break
  <1>2. ConnTypeOK'
    <2>1. socket \in [Socket -> SocketState]
      BY DEF ConnInv, ConnTypeOK
    <2>2. [socket[s] EXCEPT !.up = FALSE, !.events = n] \in SocketState
      BY <2>1, SocketSteps
    <2>3. socket' = [socket EXCEPT ![s] = [socket[s] EXCEPT !.up = FALSE, !.events = n]]
      BY <1>1, <2>1
    <2>4. socket' \in [Socket -> SocketState]
      BY <2>1, <2>2, <2>3
    <2> QED BY <2>4 DEF Break, ConnInv, ConnTypeOK, statusVars
  <1>3. \A x \in Socket : socket'[x].machine = socket[x].machine /\ socket'[x].pc = socket[x].pc
    BY <1>1 DEF ConnInv, ConnTypeOK, SocketState
  <1>4. SocketsKnown'
    BY <1>3, InHub DEF Break, ConnInv, SocketsKnown
  <1> QED BY <1>2, <1>3, <1>4, InHub, OnlySocket DEF Break

LEMMA AcceptInv ==
  ASSUME ConnInv, NEW s \in Socket, Accept(s)
  PROVE  ConnInv'
  <1> DEFINE m == socket[s].machine
  <1>1. s \notin ToSet(hub)
    BY InHub DEF Accept
  <1>2. hub \in Seq(Socket) /\ IsInjective(hub) /\ m \in Machine
    BY DEF Accept, ConnInv, ConnTypeOK, SocketsKnown
  <1>3. hub' \in Seq(Socket) /\ IsInjective(hub)' /\ ToSet(hub)' = ToSet(hub) \cup {s}
    BY <1>1, <1>2, RegisterSet DEF Accept
  <1>4. \A x \in Socket : socket'[x].machine = socket[x].machine
    BY DEF Accept, ConnInv, ConnTypeOK, SocketState
  <1>5. \A x \in Socket : socket'[x].pc = IF x = s THEN "open" ELSE socket[x].pc
    BY DEF Accept, ConnInv, ConnTypeOK, SocketState
  <1>6. SocketsKnown'
    BY <1>2, <1>3, <1>4, <1>5, InHub DEF ConnInv, SocketsKnown
  <1>7. HubStatus'[m] = "online"
    BY <1>2, <1>3, <1>4 DEF HubStatus, isMachineOnline
  <1>8. \A x \in Machine \ {m} : HubStatus'[x] = HubStatus[x]
    BY <1>3, <1>4, InHub DEF HubStatus, isMachineOnline
  <1>9. setStatus(m, "online")
    BY DEF Accept
  <1>10. /\ socket' \in [Socket -> SocketState]
         /\ UNCHANGED <<current, hello>>
    BY ZenonT(30) DEF Accept, ConnInv, ConnTypeOK, SocketState
  <1>11. /\ status' \in [Machine -> {"online", "offline"}]
         /\ writes' \in [Machine -> [{"online", "offline"} -> Nat]]
         /\ raced' \in [Machine -> BOOLEAN]
         /\ WritesAgree'
    <2>1. m \in Machine /\ "online" \in {"online", "offline"}
      BY <1>2
    <2> HIDE DEF m
    <2> QED BY <1>7, <1>8, <1>9, <2>1, SetStatusAgrees DEF m
  <1>12. ConnTypeOK'
    BY <1>3, <1>10, <1>11 DEF ConnInv, ConnTypeOK
  <1> QED BY <1>6, <1>11, <1>12 DEF ConnInv

LEMMA SeeCloseInv ==
  ASSUME ConnInv, NEW s \in Socket, SeeClose(s)
  PROVE  ConnInv'
  <1> DEFINE m == socket[s].machine
  <1>1. /\ socket' \in [Socket -> SocketState]
        /\ UNCHANGED <<current, hello>>
    <2>1. socket \in [Socket -> SocketState]
      BY DEF ConnInv, ConnTypeOK
    <2>2. socket[s].events \in 0 .. 2 /\ socket[s].events > 0
      BY <2>1 DEF SeeClose, SocketState
    <2>3. socket[s].events - 1 \in 0 .. 2
      BY <2>2
    <2>4. [socket[s] EXCEPT !.events = @ - 1] \in SocketState
      BY <2>1, <2>3 DEF SocketState
    <2>5. socket' = [socket EXCEPT ![s] = [socket[s] EXCEPT !.events = @ - 1]]
      BY <2>1 DEF SeeClose
    <2> QED BY <2>1, <2>4, <2>5 DEF SeeClose
  <1>2. \A x \in Socket : socket'[x].machine = socket[x].machine /\ socket'[x].pc = socket[x].pc
    BY DEF SeeClose, ConnInv, ConnTypeOK, SocketState
  <1>3. CASE UNCHANGED <<hub, statusVars>>
    <2>1. ConnTypeOK'
      BY <1>1, <1>3 DEF ConnInv, ConnTypeOK, statusVars
    <2>2. SocketsKnown'
      BY <1>2, <1>3, InHub DEF ConnInv, SocketsKnown
    <2> QED BY <1>2, <1>3, <2>1, <2>2, InHub, OnlySocket
  <1>4. CASE socket[s].pc = "open" /\ onClose(s)
    <2>1. m \in Machine /\ hub \in Seq(Socket) /\ IsInjective(hub)
      BY <1>4 DEF ConnInv, ConnTypeOK, SocketsKnown
    <2>2. hub' \in Seq(Socket) /\ IsInjective(hub)' /\ ToSet(hub)' = ToSet(hub) \ {s}
      BY <1>4, <2>1, UnregisterSet DEF onClose
    <2>3. SocketsKnown'
      BY <1>2, <2>2, InHub DEF ConnInv, SocketsKnown
    <2>4. \A x \in Machine \ {m} : HubStatus'[x] = HubStatus[x]
      BY <1>2, <2>2, InHub DEF HubStatus, isMachineOnline
    <2>5. isMachineOnline(unregister(s), m) <=> HubStatus'[m] = "online"
      BY <1>2, <1>4, <2>1, <2>2, UnregisterSet, InHub DEF HubStatus, isMachineOnline, onClose
    <2>6. CASE isMachineOnline(unregister(s), m)
      <3>1. HubStatus'[m] = HubStatus[m]
        BY <1>2, <2>2, <2>5, <2>6, InHub DEF HubStatus, isMachineOnline
      <3>2. UNCHANGED <<status, writes, raced>>
        BY <1>4, <2>6 DEF onClose, statusVars
      <3>3. ConnTypeOK'
        BY <1>1, <2>2, <3>2 DEF ConnInv, ConnTypeOK
      <3>4. \A x \in Machine : HubStatus'[x] = HubStatus[x]
        BY <2>4, <3>1
      <3>5. WritesAgree'
        BY <3>2, <3>4 DEF ConnInv, WritesAgree, Landing
      <3> QED BY <2>3, <3>3, <3>5 DEF ConnInv
    <2>7. CASE ~isMachineOnline(unregister(s), m)
      <3>1. HubStatus'[m] = "offline"
        BY <2>1, <2>5, <2>7 DEF HubStatus
      <3>2. setStatus(m, "offline")
        BY <1>4, <2>7 DEF onClose
      <3>3. "offline" \in {"online", "offline"}
        OBVIOUS
      <3>4. /\ status' \in [Machine -> {"online", "offline"}]
            /\ writes' \in [Machine -> [{"online", "offline"} -> Nat]]
            /\ raced' \in [Machine -> BOOLEAN]
            /\ WritesAgree'
        BY <2>1, <2>4, <3>1, <3>2, <3>3, SetStatusAgrees
      <3>5. ConnTypeOK'
        BY <1>1, <2>2, <3>4 DEF ConnInv, ConnTypeOK
      <3> QED BY <2>3, <3>4, <3>5 DEF ConnInv
    <2> QED BY <2>6, <2>7
  <1> QED BY <1>3, <1>4 DEF SeeClose

LEMMA LandStatusInv ==
  ASSUME ConnInv, NEW m \in Machine, NEW st \in {"online", "offline"}, LandStatus(m, st)
  PROVE  ConnInv'
  <1>1. UNCHANGED <<socket, current, hello, hub, raced>>
    BY DEF LandStatus, connVars
  <1>2. /\ status' = [status EXCEPT ![m] = st] /\ writes' = [writes EXCEPT ![m][st] = @ - 1]
        /\ status \in [Machine -> {"online", "offline"}]
        /\ writes \in [Machine -> [{"online", "offline"} -> Nat]]
        /\ writes[m][st] \in Nat /\ writes[m][st] > 0
    BY DEF LandStatus, ConnInv, ConnTypeOK
  <1>3. writes' \in [Machine -> [{"online", "offline"} -> Nat]] /\ status' \in [Machine -> {"online", "offline"}]
    BY <1>2
  <1>4. ConnTypeOK' /\ SocketsKnown'
    BY <1>1, <1>3 DEF ConnInv, ConnTypeOK, SocketsKnown, ToSet
  <1>5. \A x \in Machine : HubStatus'[x] = HubStatus[x]
    BY <1>1, SameHub
  <1>6. ASSUME NEW x \in Machine, ~raced'[x]
        PROVE  /\ \A w \in {"online", "offline"} : writes'[x][w] > 0 => w = HubStatus'[x]
               /\ ~Landing(x)' => status'[x] = HubStatus'[x]
    <2>1. /\ \A w \in {"online", "offline"} : writes[x][w] > 0 => w = HubStatus[x]
          /\ ~Landing(x) => status[x] = HubStatus[x]
      BY <1>1, <1>6 DEF ConnInv, WritesAgree
    <2>2. CASE x # m
      BY <1>2, <1>5, <2>1, <2>2 DEF Landing
    <2>3. CASE x = m
      <3>1. st = HubStatus'[x] /\ status'[x] = st
        BY <1>2, <1>5, <2>1, <2>3
      <3>2. \A w \in {"online", "offline"} : writes'[x][w] > 0 => writes[x][w] > 0
        BY <1>2, <2>3
      <3> QED BY <1>5, <2>1, <3>1, <3>2
    <2> QED BY <2>2, <2>3
  <1>7. WritesAgree'
    BY <1>6 DEF WritesAgree
  <1> QED BY <1>4, <1>7 DEF ConnInv

LEMMA RestartConn ==
  ASSUME ConnInv, Restart
  PROVE  ConnInv'
  <1>1. hub' = <<>> /\ UNCHANGED hello
    BY DEF Restart
  <1>2. hub' \in Seq(Socket) /\ IsInjective(hub)' /\ ToSet(hub)' = {}
    BY <1>1 DEF IsInjective, ToSet
  <1>3. socket' \in [Socket -> SocketState]
    <2>1. socket \in [Socket -> SocketState]
      BY DEF ConnInv, ConnTypeOK
    <2>2. \A s \in Socket : [socket[s] EXCEPT !.pc = "done", !.up = FALSE, !.events = 0] \in SocketState
      BY <2>1, SocketSteps
    <2> QED BY <2>1, <2>2 DEF Restart
  <1>4. \A s \in Socket : socket'[s].machine = socket[s].machine /\ (socket'[s].pc = "new" <=> socket[s].pc = "new")
    <2>1. socket \in [Socket -> SocketState]
      BY DEF ConnInv, ConnTypeOK
    <2>2. socket' = [s \in Socket |->
                       IF socket[s].pc = "new" THEN socket[s]
                       ELSE [socket[s] EXCEPT !.pc = "done", !.up = FALSE, !.events = 0]]
      BY DEF Restart
    <2> QED BY <2>1, <2>2 DEF SocketState
  <1>5. SocketsKnown'
    BY <1>2, <1>4 DEF ConnInv, SocketsKnown
  <1>6. /\ status' = [m \in Machine |-> "offline"] /\ writes' = [m \in Machine |-> NoWrites]
        /\ raced' = [m \in Machine |-> FALSE] /\ current' = [m \in Machine |-> None]
    BY DEF Restart, resetAllOffline
  <1>7. NoWrites \in [{"online", "offline"} -> Nat]
    BY DEF NoWrites
  <1>8. ConnTypeOK'
    BY <1>1, <1>2, <1>3, <1>6, <1>7 DEF ConnInv, ConnTypeOK
  <1>9. \A m \in Machine : HubStatus'[m] = "offline"
    BY <1>2 DEF HubStatus, isMachineOnline
  <1>10. WritesAgree'
    BY <1>6, <1>9 DEF WritesAgree, NoWrites
  <1> QED BY <1>5, <1>8, <1>10 DEF ConnInv

-----------------------------------------------------------------------------
(* Steps of requests.                                                      *)

LEMMA RequestsStay ==
  ASSUME RequestInv, UNCHANGED <<requestVars, life>>
  PROVE  RequestInv'
  <1>1. UNCHANGED <<reqSeq, pending, request, job, reply, life>>
    BY DEF requestVars
  <1>2. Made' = Made
    BY <1>1 DEF Made
  <1>3. RequestTypeOK' /\ reqSeq' <= Cardinality(Made')
    BY <1>1, <1>2 DEF RequestInv, RequestTypeOK
  <1>4. MadeInv' /\ NumbersDiffer' /\ WorkIsMade'
    BY <1>1, <1>2 DEF RequestInv, MadeInv, NumbersDiffer, WorkIsMade
  <1>5. PendingAreWaiting' /\ OwnAnswerWithinLife'
    BY <1>1 DEF RequestInv, PendingAreWaiting, OwnAnswerWithinLife
  <1> QED BY <1>3, <1>4, <1>5 DEF RequestInv

\* A request that is new can still be numbered.
LEMMA RoomForOne ==
  ASSUME RequestInv, NEW q \in Request, q \notin Made
  PROVE  /\ nextNumber \in Number /\ nextNumber \in 0 .. Cardinality(Request)
         /\ nextNumber <= Cardinality(Made \cup {q})
  <1>1. /\ reqSeq \in Nat /\ Cardinality(Request) \in Nat /\ reqSeq <= Cardinality(Made)
        /\ IsFiniteSet(Made) /\ Cardinality(Made) \in Nat
    <2>1. Made \in SUBSET Request /\ IsFiniteSet(Request)
      BY BoundAssumption DEF Made
    <2>2. IsFiniteSet(Made) /\ Cardinality(Request) \in Nat
      BY <2>1, FS_Subset, FS_CardinalityType
    <2>3. Cardinality(Made) \in Nat
      BY <2>2, FS_CardinalityType
    <2> QED BY <2>2, <2>3 DEF RequestInv, RequestTypeOK
  <1>2. Cardinality(Made \cup {q}) = Cardinality(Made) + 1
    BY <1>1, FS_AddElement
  <1>3. Cardinality(Made \cup {q}) <= Cardinality(Request)
    <2>1. Made \cup {q} \in SUBSET Request
      BY DEF Made
    <2> QED BY <2>1, BoundAssumption, FS_Subset
  <1> QED BY <1>1, <1>2, <1>3 DEF nextNumber, Number

LEMMA MakeRequestInv ==
  ASSUME RequestInv, NEW q \in Request, NEW m \in Machine, MakeRequest(q, m)
  PROVE  /\ RequestInv' /\ Made' = Made \cup {q} /\ q \notin Made /\ reply' = reply
         /\ \A p \in Request \ {q} : request'[p] = request[p]
         /\ request'[q].answer = None /\ request'[q].machine = m
         /\ \A x \in Machine : job'[x] \subseteq job[x] \cup {q}
         /\ UNCHANGED <<connVars, statusVars>>
  <1> DEFINE n == nextNumber
             rec(pc) == [pc |-> pc, number |-> n, life |-> life, machine |-> m, answer |-> None]
  <1>1. /\ request \in [Request -> RequestState] /\ pending \in [Number -> Request \cup {None}]
        /\ job \in [Machine -> SUBSET Request] /\ life \in 0 .. MaxCrash /\ reply \subseteq Socket \X Request
        /\ reqSeq \in Nat
    BY DEF RequestInv, RequestTypeOK
  <1>2. q \notin Made
    BY DEF Made, MakeRequest
  <1>3. n \in Number /\ n = reqSeq + 1 /\ reqSeq' = n /\ life' = life /\ reply' = reply
    BY <1>2, RoomForOne DEF nextNumber, MakeRequest
  <1>4. PICK pc \in {"waiting", "rejected"} :
            /\ request' = [request EXCEPT ![q] = rec(pc)]
            /\ pending' = IF pc = "waiting" THEN [pending EXCEPT ![n] = q] ELSE pending
    <2>1. CASE isMachineOnline(hub, m)
      BY <2>1 DEF MakeRequest
    <2>2. CASE ~isMachineOnline(hub, m)
      BY <2>2 DEF MakeRequest
    <2> QED BY <2>1, <2>2
  <1>5. job' \in [Machine -> SUBSET Request] /\ \A x \in Machine : job'[x] \subseteq job[x] \cup {q}
    <2>1. CASE job' = [job EXCEPT ![m] = @ \cup {q}]
      BY <1>1, <2>1
    <2>2. CASE job' = job
      BY <1>1, <2>2
    <2> QED BY <2>1, <2>2 DEF MakeRequest
  <1>6. rec(pc) \in RequestState
    BY <1>1, <1>3 DEF RequestState
  <1>7. n \in 0 .. Cardinality(Request) /\ n <= Cardinality(Made \cup {q})
    BY <1>2, RoomForOne
  <1> HIDE DEF n
  <1>8. \A p \in Request \ {q} : request'[p] = request[p]
    BY <1>1, <1>4
  <1>9. /\ request'[q].pc = pc /\ request'[q].number = n /\ request'[q].life = life
        /\ request'[q].machine = m /\ request'[q].answer = None
    BY <1>1, <1>4
  <1> HIDE DEF rec
  <1>10. Made' = Made \cup {q}
    BY <1>4, <1>8, <1>9 DEF Made
  <1>11. RequestTypeOK' /\ reqSeq' <= Cardinality(Made')
    <2>1. pending' \in [Number -> Request \cup {None}]
      BY <1>1, <1>4
    <2>2. request' \in [Request -> RequestState]
      BY <1>1, <1>4, <1>6
    <2> QED BY <1>1, <1>3, <1>5, <1>7, <1>10, <2>1, <2>2 DEF RequestTypeOK
  <1>12. MadeInv'
    <2> SUFFICES ASSUME NEW p \in Request
                 PROVE  LET c == request'[p] IN
                        /\ p \in Made' => /\ c.number \in Number /\ c.machine \in Machine
                                          /\ c.life <= life' /\ (c.life = life' => c.number <= reqSeq')
                        /\ c.pc = "waiting" => c.life = life'
                        /\ c.answer # None <=> c.pc = "answered"
                        /\ c.answer # None => c.answer \in Made'
      BY DEF MadeInv
    <2>1. CASE p = q
      BY <1>1, <1>3, <1>4, <1>9, <2>1
    <2>2. CASE p # q
      <3>1. request[p].number \in Nat
        BY <1>1 DEF RequestState, Number
      <3> QED BY <1>1, <1>3, <1>8, <1>10, <2>2, <3>1 DEF RequestInv, MadeInv
    <2> QED BY <2>1, <2>2
  <1>13. \A p \in Made : request[p].life = life => request[p].number # n
    <2>1. \A p \in Made : p \in Request /\ request[p].number \in Nat
      BY <1>1 DEF Made, RequestState, Number
    <2> QED BY <1>1, <1>3, <2>1 DEF RequestInv, MadeInv
  <1>14. NumbersDiffer'
    <2>1. \A p \in Made : p \in Request \ {q}
      BY <1>2 DEF Made
    <2> QED BY <1>8, <1>9, <1>10, <1>13, <2>1 DEF RequestInv, NumbersDiffer
  <1>15. WorkIsMade'
    BY <1>3, <1>5, <1>10 DEF RequestInv, WorkIsMade
  <1>16. PendingAreWaiting'
    <2>1. pending[n] \notin Request
      BY <1>3, <1>13 DEF RequestInv, PendingAreWaiting, MadeInv, Made
    <2>2. \A k \in Number : pending[k] # q
      BY <1>2 DEF RequestInv, PendingAreWaiting, Made
    <2> SUFFICES ASSUME NEW k \in Number, NEW p \in Request
                 PROVE  pending'[k] = p <=> request'[p].pc = "waiting" /\ request'[p].number = k
      BY DEF PendingAreWaiting
    <2>3. pending'[k] = IF pc = "waiting" /\ k = n THEN q ELSE pending[k]
      BY <1>1, <1>4
    <2>4. CASE p = q
      BY <1>4, <1>9, <2>2, <2>3, <2>4
    <2>5. CASE p # q
      BY <1>8, <2>1, <2>3, <2>5 DEF RequestInv, PendingAreWaiting
    <2> QED BY <2>4, <2>5
  <1>17. OwnAnswerWithinLife'
    <2> SUFFICES ASSUME NEW p \in Request, request'[p].answer # None, request'[p].answer # p
                 PROVE  request'[request'[p].answer].life < request'[p].life
      BY DEF OwnAnswerWithinLife
    <2>1. p # q
      BY <1>9
    <2>2. request[p].answer \in Made /\ request'[p] = request[p]
      BY <1>8, <2>1 DEF RequestInv, MadeInv
    <2>3. request[p].answer \in Request \ {q}
      BY <1>2, <2>2 DEF Made
    <2> QED BY <1>8, <2>2, <2>3 DEF RequestInv, OwnAnswerWithinLife
  <1>18. RequestInv'
    BY <1>11, <1>12, <1>14, <1>15, <1>16, <1>17 DEF RequestInv
  <1>19. UNCHANGED <<connVars, statusVars>>
    BY DEF MakeRequest
  <1> QED BY <1>2, <1>3, <1>5, <1>8, <1>9, <1>10, <1>18, <1>19

\* A request that waits is settled: by its timer, or with an answer.
LEMMA SettleInv ==
  ASSUME RequestInv, NEW p \in Request, request[p].pc = "waiting",
         NEW c \in RequestState, request' = [request EXCEPT ![p] = c],
         c.pc \in {"answered", "rejected"}, c.answer # None <=> c.pc = "answered",
         c.number = request[p].number, c.life = request[p].life, c.machine = request[p].machine,
         c.answer # None => c.answer \in Made /\ (c.answer # p => request[c.answer].life < c.life),
         pending' = Forget(request[p].number), reply' \subseteq reply, UNCHANGED <<reqSeq, job, life>>
  PROVE  RequestInv' /\ Made' = Made
  <1>1. /\ request \in [Request -> RequestState] /\ pending \in [Number -> Request \cup {None}]
        /\ job \in [Machine -> SUBSET Request] /\ life \in 0 .. MaxCrash /\ reply \subseteq Socket \X Request
        /\ reqSeq \in 0 .. Cardinality(Request)
    BY DEF RequestInv, RequestTypeOK
  <1>2. p \in Made
    BY DEF Made
  <1>3. /\ request[p].number \in Number /\ request[p].life = life /\ request[p].number <= reqSeq
        /\ request[p].machine \in Machine
    BY <1>2 DEF RequestInv, MadeInv
  <1>4. request'[p] = c /\ \A q \in Request \ {p} : request'[q] = request[q]
    BY <1>1
  <1>5. Made' = Made
    BY <1>2, <1>4 DEF Made
  <1>6. RequestTypeOK' /\ reqSeq' <= Cardinality(Made')
    <2>1. pending' \in [Number -> Request \cup {None}]
      BY <1>1 DEF Forget
    <2>2. request' \in [Request -> RequestState]
      BY <1>1
    <2>3. reqSeq' <= Cardinality(Made')
      BY <1>5 DEF RequestInv
    <2> QED BY <1>1, <2>1, <2>2, <2>3 DEF RequestTypeOK
  <1>7. MadeInv'
    <2> SUFFICES ASSUME NEW q \in Request
                 PROVE  LET r == request'[q] IN
                        /\ q \in Made' => /\ r.number \in Number /\ r.machine \in Machine
                                          /\ r.life <= life' /\ (r.life = life' => r.number <= reqSeq')
                        /\ r.pc = "waiting" => r.life = life'
                        /\ r.answer # None <=> r.pc = "answered"
                        /\ r.answer # None => r.answer \in Made'
      BY DEF MadeInv
    <2>1. CASE q = p
      BY <1>1, <1>3, <1>4, <1>5, <2>1
    <2>2. CASE q # p
      BY <1>4, <1>5, <2>2 DEF RequestInv, MadeInv
    <2> QED BY <2>1, <2>2
  <1>8. \A q \in Request : request'[q].life = request[q].life /\ request'[q].number = request[q].number
    BY <1>4
  <1>9. NumbersDiffer' /\ WorkIsMade'
    BY <1>5, <1>8 DEF RequestInv, NumbersDiffer, WorkIsMade, Made
  <1>10. PendingAreWaiting'
    <2> SUFFICES ASSUME NEW k \in Number, NEW q \in Request
                 PROVE  pending'[k] = q <=> request'[q].pc = "waiting" /\ request'[q].number = k
      BY DEF PendingAreWaiting
    <2>1. pending'[k] = IF k = request[p].number THEN None ELSE pending[k]
      BY <1>1 DEF Forget
    <2>2. pending[request[p].number] = p /\ None # q
      BY <1>3, SocketAssumption DEF RequestInv, PendingAreWaiting
    <2>3. CASE q = p
      BY <1>4, <2>1, <2>2, <2>3 DEF RequestInv, PendingAreWaiting
    <2>4. CASE q # p
      BY <1>4, <2>1, <2>2, <2>4 DEF RequestInv, PendingAreWaiting
    <2> QED BY <2>3, <2>4
  <1>11. OwnAnswerWithinLife'
    <2> SUFFICES ASSUME NEW q \in Request, request'[q].answer # None, request'[q].answer # q
                 PROVE  request'[request'[q].answer].life < request'[q].life
      BY DEF OwnAnswerWithinLife
    <2>1. CASE q = p
      BY <1>4, <1>8, <2>1 DEF Made
    <2>2. CASE q # p
      <3>1. request'[q] = request[q] /\ request[q].answer \in Request
        BY <1>4, <2>2 DEF RequestInv, MadeInv, Made
      <3> QED BY <1>8, <3>1 DEF RequestInv, OwnAnswerWithinLife
    <2> QED BY <2>1, <2>2
  <1> QED BY <1>5, <1>6, <1>7, <1>9, <1>10, <1>11 DEF RequestInv

LEMMA TimeoutInv ==
  ASSUME RequestInv, NEW q \in Request, Timeout(q)
  PROVE  /\ RequestInv' /\ Made' = Made
         /\ UNCHANGED <<reply, job>>
         /\ \A p \in Request : /\ request'[p].answer = request[p].answer
                               /\ request'[p].life = request[p].life /\ request'[p].machine = request[p].machine
                               /\ request[p].pc = "answered" => request'[p] = request[p]
  <1> DEFINE c == [request[q] EXCEPT !.pc = "rejected"]
  <1>1. request \in [Request -> RequestState] /\ request[q].pc = "waiting"
    BY DEF RequestInv, RequestTypeOK, Timeout
  <1>2. c \in RequestState /\ request' = [request EXCEPT ![q] = c]
    BY <1>1 DEF RequestState, Timeout
  <1>3. /\ c.pc = "rejected" /\ c.number = request[q].number /\ c.life = request[q].life
        /\ c.machine = request[q].machine /\ c.answer = request[q].answer
    BY <1>1 DEF RequestState
  <1>4. c.answer = None
    BY <1>1, <1>3 DEF RequestInv, MadeInv
  <1> HIDE DEF c
  <1>5. RequestInv' /\ Made' = Made
    BY <1>1, <1>2, <1>3, <1>4, SettleInv DEF Timeout
  <1>6. UNCHANGED <<reply, job>>
    BY DEF Timeout
  <1>7. \A p \in Request : request'[p] = IF p = q THEN c ELSE request[p]
    BY <1>1, <1>2
  <1> QED BY <1>1, <1>3, <1>5, <1>6, <1>7

LEMMA ReplyInv ==
  ASSUME ConnInv, RequestInv, NEW q \in Request, Reply(q)
  PROVE  /\ RequestInv' /\ Made' = Made /\ UNCHANGED request
         /\ \A m \in Machine : job'[m] \subseteq job[m]
         /\ q \in job[request[q].machine] /\ q \notin job'[request[q].machine]
         /\ \A x \in reply' : x \in reply \/ x[2] = q
  <1> DEFINE m == request[q].machine
  <1>1. /\ UNCHANGED <<reqSeq, pending, request, life>> /\ m # None /\ q \in job[m]
        /\ job' = [job EXCEPT ![m] = @ \ {q}]
        /\ reply' = IF current[m] = None THEN reply ELSE reply \cup {<<current[m], q>>}
    BY DEF Reply
  <1>2. /\ job \in [Machine -> SUBSET Request] /\ reply \subseteq Socket \X Request /\ m \in Machine
        /\ current[m] \in Socket \cup {None}
    BY <1>1 DEF RequestInv, RequestTypeOK, RequestState, ConnInv, ConnTypeOK
  <1>3. q \in Made
    BY <1>1, <1>2 DEF RequestInv, WorkIsMade
  <1> HIDE DEF m
  <1>4. /\ job' \in [Machine -> SUBSET Request] /\ \A x \in Machine : job'[x] \subseteq job[x]
        /\ q \notin job'[m]
    BY <1>1, <1>2
  <1>5. reply' \subseteq Socket \X Request /\ \A x \in reply' : x \in reply \/ x[2] = q
    BY <1>1, <1>2
  <1>6. Made' = Made
    BY <1>1 DEF Made
  <1>7. WorkIsMade'
    BY <1>3, <1>4, <1>5, <1>6 DEF RequestInv, WorkIsMade
  <1>8. RequestTypeOK' /\ reqSeq' <= Cardinality(Made')
    BY <1>1, <1>4, <1>5, <1>6 DEF RequestInv, RequestTypeOK
  <1>9. MadeInv' /\ NumbersDiffer'
    BY <1>1, <1>6 DEF RequestInv, MadeInv, NumbersDiffer
  <1>10. PendingAreWaiting' /\ OwnAnswerWithinLife'
    BY <1>1 DEF RequestInv, PendingAreWaiting, OwnAnswerWithinLife
  <1>11. RequestInv'
    BY <1>7, <1>8, <1>9, <1>10 DEF RequestInv
  <1> QED BY <1>1, <1>4, <1>5, <1>6, <1>11 DEF m

\* The number of a late reply from the same life is its own request's.
LEMMA ResolveInv ==
  ASSUME RequestInv, NEW s \in Socket, NEW q \in Request, Resolve(s, q)
  PROVE  /\ RequestInv' /\ Made' = Made
         /\ reply' \subseteq reply /\ <<s, q>> \in reply /\ UNCHANGED job
         /\ \A p \in Request : request'[p].answer \in {request[p].answer, q}
         /\ \A p \in Request : request[p].pc = "answered" => request'[p] = request[p]
         /\ \A p \in Request : request'[p].life = request[p].life /\ request'[p].machine = request[p].machine
  <1> DEFINE n == request[q].number
             p == pending[n]
             c == [request[p] EXCEPT !.pc = "answered", !.answer = q]
  <1>1. /\ <<s, q>> \in reply /\ reply' = reply \ {<<s, q>>} /\ UNCHANGED <<reqSeq, job, life>>
        /\ \/ UNCHANGED <<request, pending>>
           \/ p # None /\ request' = [request EXCEPT ![p].pc = "answered", ![p].answer = q] /\ pending' = Forget(n)
    BY DEF Resolve
  <1>2. q \in Made
    BY <1>1 DEF RequestInv, WorkIsMade
  <1>3. /\ request \in [Request -> RequestState] /\ pending \in [Number -> Request \cup {None}]
        /\ n \in Number
    BY <1>2 DEF RequestInv, RequestTypeOK, MadeInv
  <1>4. CASE UNCHANGED <<request, pending>>
    <2>1. Made' = Made
      BY <1>4 DEF Made
    <2>2. RequestTypeOK' /\ reqSeq' <= Cardinality(Made')
      BY <1>1, <1>4, <2>1 DEF RequestInv, RequestTypeOK
    <2>3. MadeInv' /\ NumbersDiffer' /\ WorkIsMade'
      BY <1>1, <1>4, <2>1 DEF RequestInv, MadeInv, NumbersDiffer, WorkIsMade
    <2>4. PendingAreWaiting' /\ OwnAnswerWithinLife'
      BY <1>4 DEF RequestInv, PendingAreWaiting, OwnAnswerWithinLife
    <2>5. RequestInv'
      BY <2>2, <2>3, <2>4 DEF RequestInv
    <2> QED BY <1>1, <1>4, <2>1, <2>5
  <1>5. CASE p # None /\ request' = [request EXCEPT ![p].pc = "answered", ![p].answer = q] /\ pending' = Forget(n)
    <2>1. p \in Request /\ request[p].pc = "waiting" /\ request[p].number = n
      BY <1>3, <1>5 DEF RequestInv, PendingAreWaiting
    <2>2. c \in RequestState /\ request' = [request EXCEPT ![p] = c]
      BY <1>3, <1>5, <2>1 DEF RequestState
    <2>3. /\ c.pc = "answered" /\ c.number = n /\ c.life = request[p].life
          /\ c.machine = request[p].machine /\ c.answer = q
      BY <1>3, <2>1 DEF RequestState
    <2>4. q # None
      BY SocketAssumption
    <2>5. q # p => request[q].life < request[p].life
      <3>1. request[p].life = life /\ request[q].life <= life /\ p \in Made
        BY <1>2, <2>1 DEF RequestInv, MadeInv, Made
      <3>2. q # p => request[q].life # life
        BY <1>2, <2>1, <3>1 DEF RequestInv, NumbersDiffer
      <3>3. request[q].life \in Nat /\ life \in Nat
        BY <1>3, <2>1, <3>1, BoundAssumption DEF RequestState
      <3> QED BY <3>1, <3>2, <3>3
    <2> HIDE DEF c, p
    <2>6. pending' = Forget(request[p].number) /\ reply' \subseteq reply
      BY <1>1, <1>5, <2>1
    <2>7. RequestInv' /\ Made' = Made
      BY <1>1, <1>2, <2>1, <2>2, <2>3, <2>4, <2>5, <2>6, SettleInv
    <2>8. \A r \in Request : request'[r] = IF r = p THEN c ELSE request[r]
      BY <1>3, <2>2
    <2> QED BY <1>1, <2>1, <2>3, <2>7, <2>8
  <1> QED BY <1>1, <1>4, <1>5

LEMMA RestartRequests ==
  ASSUME RequestInv, Restart
  PROVE  /\ RequestInv' /\ Made' = Made /\ reply' = {} /\ UNCHANGED job
         /\ \A q \in Request : /\ request'[q].answer = request[q].answer
                               /\ request'[q].life = request[q].life /\ request'[q].machine = request[q].machine
         /\ \A q \in Request : request[q].pc = "answered" => request'[q] = request[q]
  <1>1. /\ request \in [Request -> RequestState] /\ job \in [Machine -> SUBSET Request]
        /\ life \in 0 .. MaxCrash /\ life' = life + 1 /\ life < MaxCrash
        /\ reqSeq' = 0 /\ pending' = [n \in Number |-> None] /\ reply' = {} /\ job' = job
        /\ request' = [q \in Request |-> IF request[q].pc = "waiting" THEN [request[q] EXCEPT !.pc = "lost"]
                                         ELSE request[q]]
    BY DEF RequestInv, RequestTypeOK, Restart
  <1>2. \A q \in Request :
           /\ request'[q].answer = request[q].answer /\ request'[q].life = request[q].life
           /\ request'[q].number = request[q].number /\ request'[q].machine = request[q].machine
           /\ request'[q].pc = IF request[q].pc = "waiting" THEN "lost" ELSE request[q].pc
           /\ request[q].pc # "waiting" => request'[q] = request[q]
           /\ request'[q] \in RequestState
    BY <1>1 DEF RequestState
  <1>3. Made' = Made
    BY <1>2 DEF Made
  <1>4. RequestTypeOK'
    <2>1. request' \in [Request -> RequestState]
      BY <1>1, <1>2
    <2>2. life' \in 0 .. MaxCrash
      BY <1>1, BoundAssumption
    <2>3. Cardinality(Request) \in Nat
      BY BoundAssumption, FS_CardinalityType
    <2> QED BY <1>1, <2>1, <2>2, <2>3 DEF RequestTypeOK
  <1>5. reqSeq' <= Cardinality(Made')
    <2>1. Made \in SUBSET Request
      BY DEF Made
    <2>2. Cardinality(Made) \in Nat
      BY <2>1, BoundAssumption, FS_Subset, FS_CardinalityType
    <2> QED BY <1>1, <1>3, <2>2
  <1>6. MadeInv'
    <2> SUFFICES ASSUME NEW q \in Request
                 PROVE  LET c == request'[q] IN
                        /\ q \in Made' => /\ c.number \in Number /\ c.machine \in Machine
                                          /\ c.life <= life' /\ (c.life = life' => c.number <= reqSeq')
                        /\ c.pc = "waiting" => c.life = life'
                        /\ c.answer # None <=> c.pc = "answered"
                        /\ c.answer # None => c.answer \in Made'
      BY DEF MadeInv
    <2>1. request[q].life \in Nat /\ life \in Nat
      BY <1>1, BoundAssumption DEF RequestState
    <2>2. q \in Made => /\ request[q].number \in Number /\ request[q].machine \in Machine
                        /\ request[q].life <= life
      BY DEF RequestInv, MadeInv
    <2>3. /\ request[q].answer # None <=> request[q].pc = "answered"
          /\ request[q].answer # None => request[q].answer \in Made
      BY DEF RequestInv, MadeInv
    <2> QED BY <1>1, <1>2, <1>3, <2>1, <2>2, <2>3
  <1>7. NumbersDiffer' /\ WorkIsMade'
    BY <1>1, <1>2, <1>3 DEF RequestInv, NumbersDiffer, WorkIsMade, Made
  <1>8. PendingAreWaiting'
    BY <1>1, <1>2, SocketAssumption DEF PendingAreWaiting
  <1>9. OwnAnswerWithinLife'
    <2>1. \A q \in Request : request[q].answer # None => request[q].answer \in Request
      BY DEF RequestInv, MadeInv, Made
    <2> QED BY <1>2, <2>1 DEF RequestInv, OwnAnswerWithinLife
  <1> QED BY <1>1, <1>2, <1>3, <1>4, <1>5, <1>6, <1>7, <1>8, <1>9 DEF RequestInv

-----------------------------------------------------------------------------
(* The control plane.                                                      *)

HubInv == ConnInv /\ RequestInv

LEMMA HubInitInv == Init => HubInv
  <1> SUFFICES ASSUME Init PROVE HubInv
    OBVIOUS
  <1>1. hub \in Seq(Socket) /\ IsInjective(hub) /\ ToSet(hub) = {}
    BY DEF Init, IsInjective, ToSet
  <1>2. socket \in [Socket -> SocketState]
    BY DEF Init, SocketState
  <1>3. writes \in [Machine -> [{"online", "offline"} -> Nat]] /\ raced \in [Machine -> BOOLEAN]
        /\ status \in [Machine -> {"online", "offline"}]
    BY DEF Init, NoWrites
  <1>4. ConnTypeOK
    BY <1>1, <1>2, <1>3 DEF Init, ConnTypeOK
  <1>5. SocketsKnown
    BY <1>1 DEF Init, SocketsKnown
  <1>6. WritesAgree
    BY <1>1 DEF Init, WritesAgree, NoWrites, HubStatus, isMachineOnline
  <1>7. request \in [Request -> RequestState] /\ job \in [Machine -> SUBSET Request]
    BY BoundAssumption DEF Init, RequestState
  <1>8. Made = {} /\ Cardinality(Request) \in Nat /\ Cardinality({}) = 0
    BY BoundAssumption, FS_CardinalityType, FS_EmptySet DEF Init, Made
  <1>9. RequestTypeOK /\ reqSeq <= Cardinality(Made)
    BY <1>7, <1>8, BoundAssumption DEF Init, RequestTypeOK
  <1>10. MadeInv /\ NumbersDiffer /\ WorkIsMade
    BY <1>8 DEF Init, MadeInv, NumbersDiffer, WorkIsMade
  <1>11. PendingAreWaiting /\ OwnAnswerWithinLife
    BY SocketAssumption DEF Init, PendingAreWaiting, OwnAnswerWithinLife
  <1> QED BY <1>4, <1>5, <1>6, <1>9, <1>10, <1>11 DEF HubInv, ConnInv, RequestInv

\* The variables of the sockets and statuses do not move.
LEMMA ConnStays ==
  ASSUME ConnInv, UNCHANGED <<connVars, statusVars>>
  PROVE  ConnInv'
  <1>1. UNCHANGED <<socket, current, hello, hub, status, writes, raced>>
    BY DEF connVars, statusVars
  <1>2. ConnTypeOK' /\ SocketsKnown'
    BY <1>1 DEF ConnInv, ConnTypeOK, SocketsKnown, ToSet
  <1> QED BY <1>1, <1>2, OnlySocket DEF statusVars

LEMMA HubNextInv == HubInv /\ [Next]_vars => HubInv'
  <1> SUFFICES ASSUME HubInv, [Next]_vars PROVE HubInv'
    OBVIOUS
  <1>1. ConnInv /\ RequestInv
    BY DEF HubInv
  <1>2. ASSUME NEW m \in Machine, NEW s \in Socket, Connect(m, s) PROVE HubInv'
    <2>1. UNCHANGED <<requestVars, life>>
      BY <1>2 DEF Connect
    <2> QED BY <1>1, <1>2, <2>1, ConnectInv, RequestsStay DEF HubInv
  <1>3. ASSUME NEW s \in Socket, SendHello(s) \/ HearHello(s) PROVE HubInv'
    <2>1. UNCHANGED <<requestVars, life>>
      BY <1>3 DEF SendHello, HearHello
    <2> QED BY <1>1, <1>3, <2>1, HelloInv, RequestsStay DEF HubInv
  <1>4. ASSUME NEW s \in Socket, Accept(s) PROVE HubInv'
    <2>1. UNCHANGED <<requestVars, life>>
      BY <1>4 DEF Accept
    <2> QED BY <1>1, <1>4, <2>1, AcceptInv, RequestsStay DEF HubInv
  <1>5. ASSUME NEW s \in Socket, Refuse(s) PROVE HubInv'
    <2>1. UNCHANGED <<requestVars, life>>
      BY <1>5 DEF Refuse
    <2> QED BY <1>1, <1>5, <2>1, RefuseInv, RequestsStay DEF HubInv
  <1>6. ASSUME NEW s \in Socket, Break(s) PROVE HubInv'
    <2>1. UNCHANGED <<requestVars, life>>
      BY <1>6 DEF Break
    <2> QED BY <1>1, <1>6, <2>1, BreakInv, RequestsStay DEF HubInv
  <1>7. ASSUME NEW s \in Socket, SeeClose(s) PROVE HubInv'
    <2>1. UNCHANGED <<requestVars, life>>
      BY <1>7 DEF SeeClose
    <2> QED BY <1>1, <1>7, <2>1, SeeCloseInv, RequestsStay DEF HubInv
  <1>8. ASSUME NEW m \in Machine, NEW st \in {"online", "offline"}, LandStatus(m, st) PROVE HubInv'
    <2>1. UNCHANGED <<requestVars, life>>
      BY <1>8 DEF LandStatus
    <2> QED BY <1>1, <1>8, <2>1, LandStatusInv, RequestsStay DEF HubInv
  <1>9. ASSUME NEW q \in Request, NEW m \in Machine, MakeRequest(q, m) PROVE HubInv'
    BY <1>1, <1>9, MakeRequestInv, ConnStays DEF HubInv
  <1>10. ASSUME NEW q \in Request, Timeout(q) PROVE HubInv'
    <2>1. UNCHANGED <<connVars, statusVars>>
      BY <1>10 DEF Timeout
    <2> QED BY <1>1, <1>10, <2>1, TimeoutInv, ConnStays DEF HubInv
  <1>11. ASSUME NEW q \in Request, Reply(q) PROVE HubInv'
    <2>1. UNCHANGED <<connVars, statusVars>>
      BY <1>11 DEF Reply
    <2> QED BY <1>1, <1>11, <2>1, ReplyInv, ConnStays DEF HubInv
  <1>12. ASSUME NEW s \in Socket, NEW q \in Request, Resolve(s, q) PROVE HubInv'
    <2>1. UNCHANGED <<connVars, statusVars>>
      BY <1>12 DEF Resolve
    <2> QED BY <1>1, <1>12, <2>1, ResolveInv, ConnStays DEF HubInv
  <1>13. CASE Restart
    BY <1>1, <1>13, RestartConn, RestartRequests DEF HubInv
  <1>14. CASE UNCHANGED vars
    <2>1. UNCHANGED <<connVars, statusVars>> /\ UNCHANGED <<requestVars, life>>
      BY <1>14 DEF vars, connVars, statusVars, requestVars
    <2> QED BY <1>1, <2>1, ConnStays, RequestsStay DEF HubInv
  <1> QED BY <1>2, <1>3, <1>4, <1>5, <1>6, <1>7, <1>8, <1>9, <1>10, <1>11, <1>12, <1>13, <1>14 DEF Next

LEMMA HubInvImplies == HubInv => TypeOK /\ StatusUnlessRaced /\ PendingAreWaiting /\ OwnAnswerWithinLife
  <1> SUFFICES ASSUME HubInv PROVE TypeOK /\ StatusUnlessRaced /\ PendingAreWaiting /\ OwnAnswerWithinLife
    OBVIOUS
  <1>1. TypeOK
    BY DEF HubInv, ConnInv, ConnTypeOK, SocketState, RequestInv, RequestTypeOK, RequestState, TypeOK
  <1>2. StatusUnlessRaced
    BY DEF HubInv, ConnInv, ConnTypeOK, WritesAgree, HubStatus, StatusUnlessRaced
  <1> QED BY <1>1, <1>2 DEF HubInv, RequestInv

\* What a server and its daemons do, whatever composes them.
Connected == Init /\ [][Next]_vars

\* control-plane.ts:40, daemon-hub.ts:53: the invariant of sockets, status and requests.
THEOREM HubInvariance == Connected => []HubInv
  BY HubInitInv, HubNextInv, PTL DEF Connected

-----------------------------------------------------------------------------
(* The types of Fleet.                                                     *)

MachineState == [row : {"none", "there", "gone"}, minted : 0 .. MaxToken, noted : 0 .. MaxToken]
AgentState == [by : Request \cup {None, "daemon"}, machine : Machine \cup {None}, creator : Request \cup {None}]
CallPC == {"idle", "read", "list", "create", "request", "waiting", "tag", "rollback", "ok", "failed", "kept", "lost"}
CallState == [pc : CallPC, kind : {None, "inspect", "import", "form"}, machine : Machine \cup {None},
              handle : {0} \cup Handle]
WorkState == [copied : SUBSET File, failed : BOOLEAN]

LEMMA FleetTypes ==
  FleetTypeOK <=> /\ machine \in [Machine -> MachineState] /\ issuing \in [Machine -> SUBSET (1 .. MaxToken)]
                  /\ agent \in [Handle -> AgentState] /\ op \in [Request -> CallState]
                  /\ work \in [Request -> WorkState]
                  /\ disk \in [Machine -> [Handle -> [File -> Request \cup {None}]]]
                  /\ running \in [Machine -> SUBSET Handle]
  BY DEF FleetTypeOK, MachineState, AgentState, CallPC, CallState, WorkState

LEMMA FleetStates ==
  /\ \A c \in CallState, pc \in CallPC : [c EXCEPT !.pc = pc] \in CallState
  /\ \A c \in CallState, h \in Handle : [c EXCEPT !.pc = "create", !.handle = h] \in CallState
  /\ \A m \in Machine : /\ [NoOp EXCEPT !.pc = "read", !.kind = "inspect", !.machine = m] \in CallState
                        /\ [NoOp EXCEPT !.pc = "list", !.kind = "import", !.machine = m] \in CallState
  /\ \A a \in AgentState, m \in Machine \cup {None} : [a EXCEPT !.machine = m] \in AgentState
  /\ \A a \in AgentState, q \in Request : [a EXCEPT !.creator = q] \in AgentState
  /\ NoAgent \in AgentState /\ [NoAgent EXCEPT !.by = "daemon"] \in AgentState
  <1>1. \A c \in CallState, pc \in CallPC : [c EXCEPT !.pc = pc] \in CallState
    BY DEF CallState
  <1>2. ASSUME NEW c \in CallState, NEW h \in Handle PROVE [c EXCEPT !.pc = "create", !.handle = h] \in CallState
    <2>1. "create" \in CallPC /\ h \in {0} \cup Handle
      BY DEF CallPC
    <2> QED BY <2>1 DEF CallState
  <1>3. ASSUME NEW m \in Machine
        PROVE  /\ [NoOp EXCEPT !.pc = "read", !.kind = "inspect", !.machine = m] \in CallState
               /\ [NoOp EXCEPT !.pc = "list", !.kind = "import", !.machine = m] \in CallState
    BY DEF CallState, CallPC, NoOp
  <1>4. \A a \in AgentState, m \in Machine \cup {None} : [a EXCEPT !.machine = m] \in AgentState
    BY DEF AgentState
  <1>5. \A a \in AgentState, q \in Request : [a EXCEPT !.creator = q] \in AgentState
    BY DEF AgentState
  <1>6. NoAgent \in AgentState /\ [NoAgent EXCEPT !.by = "daemon"] \in AgentState
    BY DEF AgentState, NoAgent
  <1> QED BY <1>1, <1>2, <1>3, <1>4, <1>5, <1>6

-----------------------------------------------------------------------------
(* Steps of Fleet, by what they touch.                                     *)

\* What was replied to was made.
LEMMA RepliedMade ==
  ASSUME RequestInv
  PROVE  Replied \subseteq Made
  <1>1. \A s \in Socket, q \in Request : <<s, q>> \in reply => q \in Made
    BY DEF RequestInv, WorkIsMade
  <1>2. \A q, p \in Request : request[p].answer = q => q \in Made
    BY SocketAssumption DEF RequestInv, MadeInv
  <1> QED BY <1>1, <1>2 DEF Replied

\* Machines, rows and files: no call moves, and no row becomes a call's.
LEMMA RowStep ==
  ASSUME FleetInv, FleetTypeOK', UNCHANGED <<op, work, request, job, reply>>,
         \A h \in Handle : agent'[h].by = agent[h].by \/ agent'[h].by \notin Request
  PROVE  FleetInv'
  <1>1. Made' = Made /\ Replied' = Replied
    BY DEF Made, Replied
  <1>2. CallInv' /\ RepliesInv' /\ TaggedIsWhole'
    BY <1>1 DEF FleetInv, CallInv, RepliesInv, TaggedIsWhole, CopyEnded
  <1>3. RowInv'
    BY DEF FleetInv, RowInv
  <1> QED BY <1>2, <1>3 DEF FleetInv

\* A call moves on.
LEMMA CallStep ==
  ASSUME RequestInv, FleetInv, FleetTypeOK', NEW q \in Request, NEW c \in CallState, op' = [op EXCEPT ![q] = c],
         UNCHANGED <<work, request, job, reply>>,
         c.pc \in {"list", "request", "waiting", "rollback"} => c.kind = "import",
         c.pc # "idle" /\ c.kind = "import" => c.machine \in Machine,
         c.pc \in {"create", "request", "waiting", "tag", "rollback"} => c.handle \in Handle,
         c.pc \in {"idle", "list", "create", "request"} => q \notin Made,
         c.kind = op[q].kind \/ q \notin Made,
         c.pc \in {"tag", "ok"} /\ c.kind = "import" =>
            /\ request[q].pc = "answered"
            /\ work[q].copied = File \/ request[request[q].answer].life < request[q].life,
         RowInv'
  PROVE  FleetInv'
  <1>1. Made' = Made /\ Replied' = Replied
    BY DEF Made, Replied
  <1>2. op'[q] = c /\ \A p \in Request \ {q} : op'[p] = op[p]
    BY FleetTypes DEF FleetInv
  <1>3. CallInv'
    BY <1>1, <1>2 DEF FleetInv, CallInv
  <1>4. RepliesInv'
    <2>1. \A p \in Replied : p \in Request /\ op'[p].kind = op[p].kind
      BY <1>2, RepliedMade DEF Replied
    <2> QED BY <1>1, <2>1 DEF FleetInv, RepliesInv, CopyEnded
  <1>5. TaggedIsWhole'
    BY <1>2 DEF FleetInv, TaggedIsWhole
  <1> QED BY <1>3, <1>4, <1>5 DEF FleetInv

\* A call makes its request.
LEMMA MakeStep ==
  ASSUME RequestInv, FleetInv, FleetTypeOK', NEW q \in Request, NEW m \in Machine, MakeRequest(q, m),
         NEW c \in CallState, op' = [op EXCEPT ![q] = c], UNCHANGED <<agent, work>>,
         \/ c.pc = "read"
         \/ c.pc = "waiting" /\ c.kind = "import" /\ c.handle \in Handle,
         c.kind = "import" => c.machine \in Machine,
         RowInv'
  PROVE  FleetInv'
  <1>1. /\ Made' = Made \cup {q} /\ q \notin Made /\ reply' = reply
        /\ \A p \in Request \ {q} : request'[p] = request[p]
        /\ request'[q].answer = None
        /\ \A x \in Machine : job'[x] \subseteq job[x] \cup {q}
    BY MakeRequestInv
  <1>2. op'[q] = c /\ \A p \in Request \ {q} : op'[p] = op[p]
    BY FleetTypes DEF FleetInv
  <1>3. CallInv'
    BY <1>1, <1>2 DEF FleetInv, CallInv
  <1>4. Replied' \subseteq Replied /\ q \notin Replied /\ Replied \subseteq Made
    BY <1>1, RepliedMade, SocketAssumption DEF Replied
  <1>5. RepliesInv'
    <2> SUFFICES ASSUME NEW p \in Replied' PROVE CopyEnded(p)' /\ p \notin job'[request'[p].machine]
      BY DEF RepliesInv
    <2>1. p \in Replied /\ p \in Made /\ p \in Request \ {q}
      BY <1>4 DEF Made
    <2>2. CopyEnded(p)'
      BY <1>2, <2>1 DEF FleetInv, RepliesInv, CopyEnded
    <2>3. request'[p] = request[p] /\ request[p].machine \in Machine
      BY <1>1, <2>1 DEF RequestInv, MadeInv
    <2>4. p \notin job[request[p].machine]
      BY <2>1 DEF FleetInv, RepliesInv
    <2> QED BY <1>1, <2>1, <2>2, <2>3, <2>4
  <1>6. TaggedIsWhole'
    <2> SUFFICES ASSUME NEW p \in Request, op'[p].pc \in {"tag", "ok"}, op'[p].kind = "import"
                 PROVE  /\ request'[p].pc = "answered"
                        /\ work'[p].copied = File \/ request'[request'[p].answer].life < request'[p].life
      BY DEF TaggedIsWhole
    <2>1. p # q
      BY <1>2
    <2>2. /\ request[p].pc = "answered"
          /\ work[p].copied = File \/ request[request[p].answer].life < request[p].life
      BY <1>2, <2>1 DEF FleetInv, TaggedIsWhole
    <2>3. request[p].answer \in Request \ {q}
      BY <1>1, <2>2 DEF RequestInv, MadeInv, Made
    <2> QED BY <1>1, <2>1, <2>2, <2>3
  <1> QED BY <1>3, <1>5, <1>6 DEF FleetInv

\* A reply, a timer or an answer, which no call has a part in.
LEMMA RequestStep ==
  ASSUME RequestInv, FleetInv, UNCHANGED fleetVars, Made' = Made, Replied' \subseteq Replied,
         \A m \in Machine : job'[m] \subseteq job[m],
         \A p \in Request : /\ request'[p].life = request[p].life /\ request'[p].machine = request[p].machine
                            /\ request[p].pc = "answered" => request'[p] = request[p]
  PROVE  FleetInv'
  <1>1. UNCHANGED <<machine, issuing, agent, op, work, disk, running>>
    BY DEF fleetVars
  <1>2. FleetTypeOK' /\ CallInv' /\ RowInv'
    BY <1>1, FleetTypes DEF FleetInv, FleetTypeOK, CallInv, RowInv
  <1>3. RepliesInv'
    <2> SUFFICES ASSUME NEW p \in Replied' PROVE CopyEnded(p)' /\ p \notin job'[request'[p].machine]
      BY DEF RepliesInv
    <2>1. p \in Replied /\ p \in Request /\ p \in Made
      BY RepliedMade DEF Made
    <2>2. request[p].machine \in Machine
      BY <2>1 DEF RequestInv, MadeInv
    <2> QED BY <1>1, <2>1, <2>2 DEF FleetInv, RepliesInv, CopyEnded
  <1>4. TaggedIsWhole'
    <2> SUFFICES ASSUME NEW p \in Request, op'[p].pc \in {"tag", "ok"}, op'[p].kind = "import"
                 PROVE  /\ request'[p].pc = "answered"
                        /\ work'[p].copied = File \/ request'[request'[p].answer].life < request'[p].life
      BY DEF TaggedIsWhole
    <2>1. /\ request[p].pc = "answered"
          /\ work[p].copied = File \/ request[request[p].answer].life < request[p].life
      BY <1>1 DEF FleetInv, TaggedIsWhole
    <2>2. request[p].answer \in Request /\ request'[p] = request[p]
      BY <2>1 DEF RequestInv, MadeInv, Made
    <2> QED BY <1>1, <2>1, <2>2
  <1> QED BY <1>2, <1>3, <1>4 DEF FleetInv

\* The daemon copies a file or fails to, for a request it has not replied to.
LEMMA CopyStep ==
  ASSUME FleetInv, FleetTypeOK', NEW q \in Request, q \in job[request[q].machine],
         UNCHANGED <<op, agent, request, job, reply>>,
         \A p \in Request \ {q} : work'[p] = work[p],
         work[q].copied # File \/ work'[q].copied = File
  PROVE  FleetInv'
  <1>1. Made' = Made /\ Replied' = Replied
    BY DEF Made, Replied
  <1>2. CallInv' /\ RowInv'
    BY <1>1 DEF FleetInv, CallInv, RowInv
  <1>3. \A p \in Replied : p \in Request \ {q}
    BY DEF FleetInv, RepliesInv, Replied
  <1>4. RepliesInv'
    BY <1>1, <1>3 DEF FleetInv, RepliesInv, CopyEnded
  <1>5. TaggedIsWhole'
    BY DEF FleetInv, TaggedIsWhole
  <1> QED BY <1>2, <1>4, <1>5 DEF FleetInv

-----------------------------------------------------------------------------
(* The steps of Fleet.                                                     *)

\* A step of a machine or a row.
LEMMA MachineSteps ==
  ASSUME FleetInv, NEW m \in Machine,
         \/ createMachine(m) \/ Mint(m) \/ deleteMachine(m)
         \/ \E t \in issuing[m] : setTokenPrefix(m, t)
         \/ \E h \in Handle : updateAgent(h, m) \/ Woken(m, h) \/ agentToken(m, h)
  PROVE  FleetInv' /\ UNCHANGED vars
  <1>1. /\ machine \in [Machine -> MachineState] /\ issuing \in [Machine -> SUBSET (1 .. MaxToken)]
        /\ agent \in [Handle -> AgentState] /\ op \in [Request -> CallState]
        /\ work \in [Request -> WorkState]
        /\ disk \in [Machine -> [Handle -> [File -> Request \cup {None}]]]
        /\ running \in [Machine -> SUBSET Handle]
    BY FleetTypes DEF FleetInv
  <1>2. \A h \in Handle : agent[h] \in AgentState
    BY <1>1
  <1>3. UNCHANGED <<op, work, disk>> /\ UNCHANGED vars
    BY DEF createMachine, Mint, deleteMachine, setTokenPrefix, updateAgent, Woken, agentToken
  <1>4. UNCHANGED <<request, job, reply>>
    BY <1>3 DEF vars
  <1>5. CASE createMachine(m)
    <2>1. machine' = [machine EXCEPT ![m].row = "there"] /\ UNCHANGED <<issuing, agent, running>>
      BY <1>5 DEF createMachine
    <2>2. machine' \in [Machine -> MachineState]
      BY <1>1, <2>1 DEF MachineState
    <2>3. FleetTypeOK'
      BY <1>1, <1>3, <2>1, <2>2, FleetTypes DEF FleetTypeOK, MachineState
    <2> QED BY <1>3, <1>4, <2>1, <2>3, RowStep
  <1>6. CASE Mint(m)
    <2>1. /\ machine' = [machine EXCEPT ![m].minted = @ + 1] /\ machine[m].minted < MaxToken
          /\ issuing' = [issuing EXCEPT ![m] = @ \cup {machine'[m].minted}] /\ UNCHANGED <<agent, running>>
      BY <1>6 DEF Mint
    <2>2. machine[m].minted + 1 \in 0 .. MaxToken /\ machine[m].minted + 1 \in 1 .. MaxToken
      BY <1>1, <2>1, FleetAssumption DEF MachineState
    <2>3. machine' \in [Machine -> MachineState] /\ machine'[m].minted = machine[m].minted + 1
      BY <1>1, <2>1, <2>2 DEF MachineState
    <2>4. issuing' \in [Machine -> SUBSET (1 .. MaxToken)]
      BY <1>1, <2>1, <2>2, <2>3
    <2>5. FleetTypeOK'
      BY <1>1, <1>3, <2>1, <2>3, <2>4, FleetTypes DEF FleetTypeOK, MachineState
    <2> QED BY <1>3, <1>4, <2>1, <2>5, RowStep
  <1>7. CASE deleteMachine(m)
    <2>1. machine' = [machine EXCEPT ![m].row = "gone"] /\ agent' = Unbound(m) /\ UNCHANGED <<issuing, running>>
      BY <1>7 DEF deleteMachine
    <2>2. machine' \in [Machine -> MachineState]
      BY <1>1, <2>1 DEF MachineState
    <2>3. agent' \in [Handle -> AgentState]
      BY <1>2, <2>1, FleetStates DEF Unbound
    <2>4. \A h \in Handle : agent'[h].by = agent[h].by
      BY <1>2, <2>1 DEF Unbound, AgentState
    <2>5. FleetTypeOK'
      BY <1>1, <1>3, <2>1, <2>2, <2>3, FleetTypes DEF FleetTypeOK, MachineState, AgentState
    <2> QED BY <1>3, <1>4, <2>4, <2>5, RowStep
  <1>8. ASSUME NEW t \in issuing[m], setTokenPrefix(m, t) PROVE FleetInv'
    <2>1. t \in 0 .. MaxToken
      BY <1>1, FleetAssumption
    <2>2. machine' \in [Machine -> MachineState] /\ issuing' \in [Machine -> SUBSET (1 .. MaxToken)]
      BY <1>1, <1>8, <2>1 DEF setTokenPrefix, MachineState
    <2>3. UNCHANGED <<agent, running>>
      BY <1>8 DEF setTokenPrefix
    <2>4. FleetTypeOK'
      BY <1>1, <1>3, <2>2, <2>3, FleetTypes DEF FleetTypeOK, MachineState
    <2> QED BY <1>3, <1>4, <2>3, <2>4, RowStep
  <1>9. ASSUME NEW h \in Handle, updateAgent(h, m) PROVE FleetInv'
    <2>1. agent' = [agent EXCEPT ![h].machine = m] /\ UNCHANGED <<machine, issuing, running>>
      BY <1>9 DEF updateAgent
    <2>2. agent' \in [Handle -> AgentState]
      BY ZenonT(30), <1>1, <2>1 DEF AgentState
    <2>3. \A x \in Handle : agent'[x].by = agent[x].by
      BY <1>1, <1>2, <2>1 DEF AgentState
    <2>4. FleetTypeOK'
      BY <1>1, <1>3, <2>1, <2>2, FleetTypes DEF FleetTypeOK, AgentState
    <2> QED BY <1>3, <1>4, <2>3, <2>4, RowStep
  <1>10. ASSUME NEW h \in Handle, Woken(m, h) PROVE FleetInv'
    <2>1. running' = [running EXCEPT ![m] = @ \cup {h}] /\ UNCHANGED <<machine, issuing, agent>>
      BY <1>10 DEF Woken
    <2>2. running' \in [Machine -> SUBSET Handle]
      BY <1>1, <2>1
    <2>3. FleetTypeOK'
      BY <1>1, <1>3, <2>1, <2>2, FleetTypes DEF FleetTypeOK
    <2> QED BY <1>3, <1>4, <2>1, <2>3, RowStep
  <1>11. ASSUME NEW h \in Handle, agentToken(m, h) PROVE FleetInv'
    <2>1. /\ running' = [running EXCEPT ![m] = @ \ {h}] /\ UNCHANGED <<machine, issuing>>
          /\ agent' = IF Exists(h) THEN agent ELSE [agent EXCEPT ![h] = [NoAgent EXCEPT !.by = "daemon"]]
      BY <1>11 DEF agentToken
    <2>2. running' \in [Machine -> SUBSET Handle]
      BY <1>1, <2>1
    <2>3. agent' \in [Handle -> AgentState]
      BY <1>1, <2>1, FleetStates
    <2>4. \A x \in Handle : agent'[x].by = agent[x].by \/ agent'[x].by \notin Request
      BY <1>1, <2>1, FleetAssumption DEF NoAgent
    <2>5. FleetTypeOK'
      BY <1>1, <1>3, <2>1, <2>2, <2>3, FleetTypes DEF FleetTypeOK, AgentState
    <2> QED BY <1>3, <1>4, <2>4, <2>5, RowStep
  <1> QED BY <1>3, <1>5, <1>6, <1>7, <1>8, <1>9, <1>10, <1>11

LEMMA RemoveStep ==
  ASSUME FleetInv, NEW h \in Handle, removeAgent(h)
  PROVE  FleetInv' /\ UNCHANGED vars
  <1>1. UNCHANGED <<machine, issuing, op, work, disk, running>> /\ UNCHANGED vars
    BY DEF removeAgent
  <1>2. UNCHANGED <<request, job, reply>>
    BY <1>1 DEF vars
  <1>3. agent \in [Handle -> AgentState] /\ agent' = [agent EXCEPT ![h] = NoAgent]
    BY FleetTypes DEF FleetInv, removeAgent, Without
  <1>4. agent' \in [Handle -> AgentState]
    BY <1>3, FleetStates
  <1>5. FleetTypeOK'
    BY <1>1, <1>4 DEF FleetInv, FleetTypeOK, AgentState
  <1>6. \A x \in Handle : agent'[x].by = agent[x].by \/ agent'[x].by \notin Request
    BY <1>3, SocketAssumption DEF NoAgent
  <1> QED BY <1>1, <1>2, <1>5, <1>6, RowStep

\* A handle that is free.
LEMMA UniqueHandleType ==
  ASSUME NEW taken \in SUBSET Handle, taken # Handle
  PROVE  uniqueHandle(taken) \in Handle
  <1> DEFINE free == Handle \ taken
             less == OpToRel(<, Nat)
  <1>1. free \subseteq Nat /\ free # {}
    <2>1. \A h \in Handle : h \in Nat
      BY FleetAssumption DEF Handle
    <2>2. \E h \in Handle : h \notin taken
      OBVIOUS
    <2> QED BY <2>1, <2>2
  <1>2. PICK n \in free : \A m \in free : <<m, n>> \notin less
    <2>1. IsWellFoundedOn(less, Nat)
      BY NatLessThanWellFounded
    <2> HIDE DEF less, free
    <2> QED BY <1>1, <2>1, WFMin
  <1>3. ASSUME NEW m \in free PROVE n <= m
    <2>1. m \in Nat /\ n \in Nat
      BY <1>1
    <2>2. m < n => <<m, n>> \in less
      BY <2>1 DEF OpToRel
    <2> HIDE DEF less, free
    <2>3. ~(m < n)
      BY <1>2, <2>2
    <2> QED BY <2>1, <2>3
  <1> QED BY <1>3 DEF uniqueHandle, Min

\* A step of a call that makes no request.
LEMMA CallSteps ==
  ASSUME HubInv, FleetInv, NEW q \in Request,
         \/ \E h \in Handle, m \in Machine \cup {None} : StartForm(q, h, m)
         \/ \E m \in Machine : StartImport(q, m)
         \/ createAgent(q) \/ tagAgentCreator(q) \/ ListHandles(q) \/ Settle(q) \/ Rollback(q) \/ RollbackFails(q)
  PROVE  FleetInv' /\ UNCHANGED vars
  <1>1. /\ machine \in [Machine -> MachineState] /\ issuing \in [Machine -> SUBSET (1 .. MaxToken)]
        /\ agent \in [Handle -> AgentState] /\ op \in [Request -> CallState]
        /\ work \in [Request -> WorkState]
        /\ disk \in [Machine -> [Handle -> [File -> Request \cup {None}]]]
        /\ running \in [Machine -> SUBSET Handle]
    BY FleetTypes DEF FleetInv
  <1>2. /\ op[q] \in CallState /\ op[q].pc \in CallPC /\ op[q].handle \in {0} \cup Handle
        /\ op[q].machine \in Machine \cup {None}
    BY <1>1 DEF CallState
  <1>3. UNCHANGED <<machine, issuing, work, disk, running>> /\ UNCHANGED vars
    BY DEF StartForm, StartImport, createAgent, tagAgentCreator, ListHandles, Settle, Rollback, RollbackFails
  <1>4. UNCHANGED <<request, job, reply>> /\ RequestInv
    BY <1>3 DEF vars, HubInv
  <1>5. op' \in [Request -> CallState] /\ agent' \in [Handle -> AgentState] => FleetTypeOK'
    BY <1>1, <1>3, FleetTypes DEF FleetTypeOK, AgentState, CallState, CallPC
  \* A row of the call, of which there is none before it is created.
  <1>6. \A h \in Handle : agent[h].by = q => /\ op[q].pc \in {"request", "waiting", "tag", "rollback", "ok", "kept", "lost"}
                                             /\ op[q].handle = h
    BY DEF FleetInv, RowInv
  <1>7. ASSUME NEW c \in CallState, op' = [op EXCEPT ![q] = c],
               \A h \in Handle, p \in Request \ {q} : agent'[h].by = p => agent[h].by = p,
               \A h \in Handle : agent'[h].by = q =>
                   c.pc \in {"request", "waiting", "tag", "rollback", "ok", "kept", "lost"} /\ c.handle = h
        PROVE  RowInv'
    <2> SUFFICES ASSUME NEW p \in Request, NEW h \in Handle, agent'[h].by = p
                 PROVE  /\ op'[p].pc \in {"request", "waiting", "tag", "rollback", "ok", "kept", "lost"}
                        /\ op'[p].handle = h
      BY DEF RowInv
    <2>1. op'[p] = IF p = q THEN c ELSE op[p]
      BY <1>1, <1>7
    <2> QED BY <1>7, <2>1 DEF FleetInv, RowInv
  <1>8. ASSUME NEW h \in Handle, NEW m \in Machine \cup {None}, StartForm(q, h, m) PROVE FleetInv'
    <2> DEFINE c == [pc |-> "create", kind |-> "form", machine |-> m, handle |-> h]
    <2>1. op[q].pc = "idle" /\ op' = [op EXCEPT ![q] = c] /\ UNCHANGED agent
      BY <1>8 DEF StartForm
    <2>2. c \in CallState
      BY DEF CallState, CallPC
    <2>3. FleetTypeOK'
      BY <1>1, <1>5, <2>1, <2>2
    <2>4. RowInv'
      BY <1>6, <1>7, <2>1, <2>2
    <2>5. q \notin Made
      BY <2>1 DEF FleetInv, CallInv
    <2> QED BY <1>3, <1>4, <2>1, <2>2, <2>3, <2>4, <2>5, CallStep
  <1>9. ASSUME NEW m \in Machine, StartImport(q, m) PROVE FleetInv'
    <2> DEFINE c == [NoOp EXCEPT !.pc = "list", !.kind = "import", !.machine = m]
    <2>1. op[q].pc = "idle" /\ op' = [op EXCEPT ![q] = c] /\ UNCHANGED agent
      BY <1>9 DEF StartImport
    <2>2. c \in CallState /\ c.pc = "list" /\ c.kind = "import" /\ c.machine = m
      BY FleetStates DEF NoOp
    <2> HIDE DEF c
    <2>3. FleetTypeOK'
      BY <1>1, <1>5, <2>1, <2>2
    <2>4. RowInv'
      BY <1>6, <1>7, <2>1, <2>2
    <2>5. q \notin Made
      BY <2>1 DEF FleetInv, CallInv
    <2> QED BY <1>3, <1>4, <2>1, <2>2, <2>3, <2>4, <2>5, CallStep
  <1>10. CASE ListHandles(q)
    <2> DEFINE taken == {h \in Handle : Exists(h)}
               k == uniqueHandle(taken)
               c == [op[q] EXCEPT !.pc = "create", !.handle = k]
    <2>1. op[q].pc = "list" /\ taken # Handle /\ UNCHANGED agent
          /\ op' = [op EXCEPT ![q].pc = "create", ![q].handle = k]
      BY <1>10 DEF ListHandles
    <2>2. k \in Handle
      BY <2>1, UniqueHandleType
    <2> HIDE DEF k, taken
    <2>3. op' = [op EXCEPT ![q] = c]
      BY <1>1, <2>1
    <2>4. c \in CallState /\ c.pc = "create" /\ c.handle = k /\ c.machine = op[q].machine /\ c.kind = op[q].kind
      BY <1>2, <2>2, FleetStates DEF CallState
    <2> HIDE DEF c
    <2>5. FleetTypeOK'
      BY <1>1, <1>5, <2>1, <2>3, <2>4
    <2>6. RowInv'
      BY <1>6, <1>7, <2>1, <2>3, <2>4
    <2>7. q \notin Made /\ op[q].kind = "import" /\ op[q].machine \in Machine
      BY <2>1 DEF FleetInv, CallInv
    <2> QED BY <1>3, <1>4, <2>2, <2>3, <2>4, <2>5, <2>6, <2>7, CallStep
  <1>11. ASSUME NEW pc \in CallPC, Step(q, pc)
         PROVE  LET c == [op[q] EXCEPT !.pc = pc] IN
                /\ c \in CallState /\ op' = [op EXCEPT ![q] = c]
                /\ c.pc = pc /\ c.kind = op[q].kind /\ c.machine = op[q].machine /\ c.handle = op[q].handle
    BY <1>1, <1>2, <1>11, FleetStates DEF Step, CallState
  <1>12. CASE createAgent(q)
    <2> DEFINE h == op[q].handle
               row == [by |-> q, machine |-> op[q].machine, creator |-> None]
    <2>1. op[q].pc = "create" /\ h \in Handle /\ q \notin Made
      BY <1>12 DEF createAgent, FleetInv, CallInv
    <2>2. op[q].kind = "import" => op[q].machine \in Machine
      BY <2>1 DEF FleetInv, CallInv
    <2>3. CASE ~Exists(h) /\ Known(op[q].machine)
      <3> DEFINE pc == IF op[q].kind = "import" THEN "request" ELSE "tag"
                 c == [op[q] EXCEPT !.pc = pc]
      <3>1. agent' = [agent EXCEPT ![h] = row] /\ Step(q, pc) /\ pc \in CallPC
        BY <1>12, <2>3 DEF createAgent, CallPC
      <3>2. /\ c \in CallState /\ op' = [op EXCEPT ![q] = c]
            /\ c.pc = pc /\ c.kind = op[q].kind /\ c.machine = op[q].machine /\ c.handle = h
        BY <1>11, <3>1
      <3> HIDE DEF c
      <3>3. row \in AgentState
        BY <1>2 DEF AgentState
      <3>4. FleetTypeOK'
        BY <1>1, <1>5, <2>1, <3>1, <3>2, <3>3
      <3>5. RowInv'
        BY <1>1, <1>6, <1>7, <2>1, <3>1, <3>2
      <3> QED BY <1>3, <1>4, <2>1, <2>2, <3>2, <3>4, <3>5, CallStep
    <2>4. CASE ~(~Exists(h) /\ Known(op[q].machine))
      <3> DEFINE c == [op[q] EXCEPT !.pc = "failed"]
      <3>1. agent' = agent /\ Step(q, "failed") /\ "failed" \in CallPC
        BY <1>12, <2>4 DEF createAgent, CallPC
      <3>2. /\ c \in CallState /\ op' = [op EXCEPT ![q] = c]
            /\ c.pc = "failed" /\ c.kind = op[q].kind /\ c.machine = op[q].machine /\ c.handle = h
        BY <1>11, <3>1
      <3> HIDE DEF c
      <3>3. FleetTypeOK'
        BY <1>1, <1>5, <3>1, <3>2
      <3>4. RowInv'
        BY <1>6, <1>7, <2>1, <3>1, <3>2
      <3> QED BY <1>3, <1>4, <2>1, <2>2, <3>2, <3>3, <3>4, CallStep
    <2> QED BY <2>3, <2>4
  <1>13. CASE tagAgentCreator(q)
    <2> DEFINE h == op[q].handle
               c == [op[q] EXCEPT !.pc = "ok"]
    <2>1. /\ op[q].pc = "tag" /\ Step(q, "ok") /\ "ok" \in CallPC
          /\ agent' = IF Exists(h) THEN [agent EXCEPT ![h].creator = q] ELSE agent
      BY <1>13 DEF tagAgentCreator, CallPC
    <2>2. h \in Handle /\ (op[q].kind = "import" => op[q].machine \in Machine)
      BY <2>1 DEF FleetInv, CallInv
    <2>3. /\ c \in CallState /\ op' = [op EXCEPT ![q] = c]
          /\ c.pc = "ok" /\ c.kind = op[q].kind /\ c.machine = op[q].machine /\ c.handle = h
      BY <1>11, <2>1
    <2> HIDE DEF c
    <2>4. agent' \in [Handle -> AgentState] /\ \A x \in Handle : agent'[x].by = agent[x].by
      <3>1. agent[h] \in AgentState /\ [agent[h] EXCEPT !.creator = q] \in AgentState
        BY <1>1, <2>2, FleetStates
      <3>2. [agent[h] EXCEPT !.creator = q].by = agent[h].by
        BY <3>1 DEF AgentState
      <3> QED BY <1>1, <2>1, <3>1, <3>2
    <2>5. FleetTypeOK'
      BY <1>1, <1>5, <2>3, <2>4
    <2>6. RowInv'
      BY <1>6, <1>7, <2>1, <2>3, <2>4
    <2>7. op[q].kind = "import" => /\ request[q].pc = "answered"
                                   /\ work[q].copied = File \/ request[request[q].answer].life < request[q].life
      BY <2>1 DEF FleetInv, TaggedIsWhole
    <2> QED BY <1>3, <1>4, <2>2, <2>3, <2>5, <2>6, <2>7, CallStep
  <1>14. CASE Settle(q)
    <2> DEFINE pc == IF Succeeded(q) THEN "tag" ELSE "rollback"
               c == [op[q] EXCEPT !.pc = pc]
    <2>1. op[q].pc = "waiting" /\ Step(q, pc) /\ pc \in CallPC /\ UNCHANGED agent
      BY <1>14 DEF Settle, CallPC
    <2>2. op[q].kind = "import" /\ op[q].machine \in Machine /\ op[q].handle \in Handle
      BY <2>1 DEF FleetInv, CallInv
    <2>3. /\ c \in CallState /\ op' = [op EXCEPT ![q] = c]
          /\ c.pc = pc /\ c.kind = op[q].kind /\ c.machine = op[q].machine /\ c.handle = op[q].handle
      BY <1>11, <2>1
    <2> HIDE DEF c
    <2>4. FleetTypeOK'
      BY <1>1, <1>5, <2>1, <2>3
    <2>5. RowInv'
      BY <1>6, <1>7, <2>1, <2>3
    <2>6. ASSUME Succeeded(q)
          PROVE  /\ request[q].pc = "answered"
                 /\ work[q].copied = File \/ request[request[q].answer].life < request[q].life
      <3>1. request[q].pc = "answered" /\ ~work[request[q].answer].failed
        BY <2>6 DEF Succeeded
      <3>2. request[q].answer # None
        BY <1>4, <3>1 DEF RequestInv, MadeInv
      <3>3. CASE request[q].answer = q
        <4>1. CopyEnded(q)
          BY <3>3 DEF FleetInv, RepliesInv, Replied
        <4> QED BY <2>2, <3>1, <3>3, <4>1 DEF CopyEnded
      <3>4. CASE request[q].answer # q
        BY <1>4, <3>1, <3>2, <3>4 DEF RequestInv, OwnAnswerWithinLife
      <3> QED BY <3>3, <3>4
    <2> QED BY <1>3, <1>4, <2>2, <2>3, <2>4, <2>5, <2>6, CallStep
  <1>15. CASE Rollback(q)
    <2> DEFINE c == [op[q] EXCEPT !.pc = "failed"]
    <2>1. /\ op[q].pc = "rollback" /\ Step(q, "failed") /\ "failed" \in CallPC
          /\ agent' = [agent EXCEPT ![op[q].handle] = NoAgent]
      BY <1>15 DEF Rollback, CallPC, Without
    <2>2. op[q].kind = "import" /\ op[q].machine \in Machine /\ op[q].handle \in Handle
      BY <2>1 DEF FleetInv, CallInv
    <2>3. /\ c \in CallState /\ op' = [op EXCEPT ![q] = c]
          /\ c.pc = "failed" /\ c.kind = op[q].kind /\ c.machine = op[q].machine /\ c.handle = op[q].handle
      BY <1>11, <2>1
    <2> HIDE DEF c
    <2>4. agent' \in [Handle -> AgentState]
      BY <1>1, <2>1, FleetStates
    <2>5. FleetTypeOK'
      BY <1>1, <1>5, <2>3, <2>4
    <2>6. /\ \A h \in Handle : agent'[h].by # q
          /\ \A h \in Handle, p \in Request \ {q} : agent'[h].by = p => agent[h].by = p
      BY <1>1, <1>6, <2>1, <2>2, SocketAssumption DEF NoAgent
    <2>7. RowInv'
      BY <1>7, <2>3, <2>6
    <2> QED BY <1>3, <1>4, <2>2, <2>3, <2>5, <2>7, CallStep
  <1>16. CASE RollbackFails(q)
    <2> DEFINE c == [op[q] EXCEPT !.pc = "kept"]
    <2>1. op[q].pc = "rollback" /\ Step(q, "kept") /\ "kept" \in CallPC /\ UNCHANGED agent
      BY <1>16 DEF RollbackFails, CallPC
    <2>2. op[q].kind = "import" /\ op[q].machine \in Machine /\ op[q].handle \in Handle
      BY <2>1 DEF FleetInv, CallInv
    <2>3. /\ c \in CallState /\ op' = [op EXCEPT ![q] = c]
          /\ c.pc = "kept" /\ c.kind = op[q].kind /\ c.machine = op[q].machine /\ c.handle = op[q].handle
      BY <1>11, <2>1
    <2> HIDE DEF c
    <2>4. FleetTypeOK'
      BY <1>1, <1>5, <2>1, <2>3
    <2>5. RowInv'
      BY <1>6, <1>7, <2>1, <2>3
    <2> QED BY <1>3, <1>4, <2>2, <2>3, <2>4, <2>5, CallStep
  <1> QED BY <1>3, <1>8, <1>9, <1>10, <1>12, <1>13, <1>14, <1>15, <1>16

\* A step of a call that makes a request.
LEMMA MakeSteps ==
  ASSUME HubInv, FleetInv, NEW q \in Request,
         \/ \E m \in Machine : Inspect(q, m)
         \/ \E h \in Handle : Fetch(q, h)
         \/ RequestImport(q)
  PROVE  FleetInv' /\ \E m \in Machine : MakeRequest(q, m)
  <1>1. /\ machine \in [Machine -> MachineState] /\ issuing \in [Machine -> SUBSET (1 .. MaxToken)]
        /\ agent \in [Handle -> AgentState] /\ op \in [Request -> CallState]
        /\ work \in [Request -> WorkState]
        /\ disk \in [Machine -> [Handle -> [File -> Request \cup {None}]]]
        /\ running \in [Machine -> SUBSET Handle]
    BY FleetTypes DEF FleetInv
  <1>2. UNCHANGED <<machine, issuing, agent, work, disk, running>> /\ RequestInv
    BY DEF Inspect, Fetch, RequestImport, HubInv
  <1>3. op' \in [Request -> CallState] => FleetTypeOK'
    BY <1>1, <1>2, FleetTypes DEF FleetTypeOK, CallState, CallPC
  <1>4. ASSUME NEW m \in Machine, MakeRequest(q, m), op[q].pc = "idle",
               op' = [op EXCEPT ![q] = [NoOp EXCEPT !.pc = "read", !.kind = "inspect", !.machine = m]]
        PROVE  FleetInv'
    <2> DEFINE c == [NoOp EXCEPT !.pc = "read", !.kind = "inspect", !.machine = m]
    <2>1. c \in CallState /\ c.pc = "read" /\ c.kind = "inspect" /\ c.machine = m
      BY FleetStates DEF NoOp
    <2>2. op' = [op EXCEPT ![q] = c]
      BY <1>4
    <2> HIDE DEF c
    <2>3. FleetTypeOK'
      BY <1>1, <1>3, <2>1, <2>2
    <2>4. \A p \in Request : op'[p] = IF p = q THEN c ELSE op[p]
      BY <1>1, <2>2
    <2>5. RowInv'
      BY <1>2, <1>4, <2>4 DEF FleetInv, RowInv
    <2> QED BY <1>2, <1>4, <2>1, <2>2, <2>3, <2>5, MakeStep
  <1>5. ASSUME NEW m \in Machine, Inspect(q, m) PROVE FleetInv' /\ MakeRequest(q, m)
    BY <1>4, <1>5 DEF Inspect
  <1>6. ASSUME NEW h \in Handle, Fetch(q, h) PROVE FleetInv' /\ \E m \in Machine : MakeRequest(q, m)
    <2>1. agent[h].machine \in Machine
      BY <1>1, <1>6 DEF Fetch, AgentState
    <2> QED BY <1>4, <1>6, <2>1 DEF Fetch
  <1>7. ASSUME RequestImport(q) PROVE FleetInv' /\ \E m \in Machine : MakeRequest(q, m)
    <2> DEFINE c == [op[q] EXCEPT !.pc = "waiting"]
               m == op[q].machine
    <2>1. op[q].pc = "request" /\ MakeRequest(q, m) /\ op' = [op EXCEPT ![q] = c] /\ op[q] \in CallState
      BY <1>1, <1>7 DEF RequestImport, Step
    <2>2. op[q].kind = "import" /\ m \in Machine /\ op[q].handle \in Handle
      BY <2>1 DEF FleetInv, CallInv
    <2>3. c.pc = "waiting" /\ c.kind = op[q].kind /\ c.machine = m /\ c.handle = op[q].handle
      BY <2>1 DEF CallState
    <2>4. c \in CallState
      BY <2>1, FleetStates DEF CallPC
    <2> HIDE DEF c, m
    <2>5. FleetTypeOK'
      BY <1>1, <1>3, <2>1, <2>4
    <2>6. \A p \in Request : op'[p] = IF p = q THEN c ELSE op[p]
      BY <1>1, <2>1
    <2>7. RowInv'
      BY <1>2, <2>1, <2>3, <2>6 DEF FleetInv, RowInv
    <2> QED BY <1>2, <2>1, <2>2, <2>3, <2>4, <2>5, <2>7, MakeStep
  <1> QED BY <1>5, <1>6, <1>7

LEMMA CopySteps ==
  ASSUME FleetInv, NEW q \in Request, CopyFails(q) \/ \E f \in File : CopyFile(q, f)
  PROVE  FleetInv' /\ UNCHANGED vars
  <1>1. /\ machine \in [Machine -> MachineState] /\ issuing \in [Machine -> SUBSET (1 .. MaxToken)]
        /\ agent \in [Handle -> AgentState] /\ op \in [Request -> CallState]
        /\ work \in [Request -> WorkState]
        /\ disk \in [Machine -> [Handle -> [File -> Request \cup {None}]]]
        /\ running \in [Machine -> SUBSET Handle]
    BY FleetTypes DEF FleetInv
  <1>2. UNCHANGED <<machine, issuing, agent, op, running>> /\ UNCHANGED vars /\ q \in job[request[q].machine]
    BY DEF CopyFails, CopyFile
  <1>3. UNCHANGED <<request, job, reply>>
    BY <1>2 DEF vars
  <1>4. work' \in [Request -> WorkState] /\ disk' \in [Machine -> [Handle -> [File -> Request \cup {None}]]]
            => FleetTypeOK'
    BY <1>1, <1>2, FleetTypes DEF FleetTypeOK, WorkState
  <1>5. CASE CopyFails(q)
    <2>1. work' = [work EXCEPT ![q].failed = TRUE] /\ UNCHANGED disk
      BY <1>5 DEF CopyFails
    <2>2. work' \in [Request -> WorkState]
      BY <1>1, <2>1 DEF WorkState
    <2>3. FleetTypeOK' /\ \A p \in Request \ {q} : work'[p] = work[p]
      BY <1>1, <1>4, <2>1, <2>2
    <2>4. work'[q].copied = work[q].copied
      BY <1>1, <2>1 DEF WorkState
    <2> QED BY <1>2, <1>3, <2>3, <2>4, CopyStep
  <1>6. ASSUME NEW f \in File, CopyFile(q, f) PROVE FleetInv'
    <2> DEFINE m == request[q].machine
               h == op[q].handle
    <2>1. /\ work' = [work EXCEPT ![q].copied = @ \cup {f}] /\ f \notin work[q].copied
          /\ disk' = [disk EXCEPT ![m][h][f] = q]
      BY <1>6 DEF CopyFile
    <2>2. work' \in [Request -> WorkState]
      BY <1>1, <2>1 DEF WorkState
    <2> HIDE DEF m, h
    <2>3. disk' \in [Machine -> [Handle -> [File -> Request \cup {None}]]]
      <3>1. CASE m \notin Machine
        BY <1>1, <2>1, <3>1
      <3>2. CASE m \in Machine /\ h \notin Handle
        <4>1. [disk[m] EXCEPT ![h][f] = q] = disk[m]
          BY <1>1, <3>2
        <4> QED BY <1>1, <2>1, <3>2, <4>1
      <3>3. CASE m \in Machine /\ h \in Handle
        <4>1. [disk[m][h] EXCEPT ![f] = q] \in [File -> Request \cup {None}]
          BY <1>1, <3>3
        <4>2. [disk[m] EXCEPT ![h][f] = q] \in [Handle -> [File -> Request \cup {None}]]
          BY <1>1, <3>3, <4>1
        <4> QED BY <1>1, <2>1, <3>3, <4>2
      <3> QED BY <3>1, <3>2, <3>3
    <2>4. FleetTypeOK' /\ \A p \in Request \ {q} : work'[p] = work[p]
      BY <1>1, <1>4, <2>1, <2>2, <2>3
    <2> QED BY <1>2, <1>3, <2>1, <2>4, CopyStep
  <1> QED BY <1>2, <1>5, <1>6

\* The daemon replies when the copying has ended.
LEMMA ReplyStep ==
  ASSUME HubInv, FleetInv, NEW q \in Request, ReplyWhenDone(q)
  PROVE  FleetInv'
  <1>1. RequestInv /\ ConnInv /\ UNCHANGED fleetVars /\ CopyEnded(q) /\ Reply(q)
    BY DEF HubInv, ReplyWhenDone
  <1>2. /\ Made' = Made /\ UNCHANGED request
        /\ \A m \in Machine : job'[m] \subseteq job[m]
        /\ q \in job[request[q].machine] /\ q \notin job'[request[q].machine]
        /\ \A x \in reply' : x \in reply \/ x[2] = q
    BY <1>1, ReplyInv
  <1>3. UNCHANGED <<machine, issuing, agent, op, work, disk, running>>
    BY <1>1 DEF fleetVars
  <1>4. FleetTypeOK' /\ CallInv' /\ RowInv' /\ TaggedIsWhole'
    BY <1>2, <1>3, FleetTypes DEF FleetInv, FleetTypeOK, CallInv, RowInv, TaggedIsWhole
  <1>5. Replied' \subseteq Replied \cup {q}
    BY <1>2 DEF Replied
  <1>6. RepliesInv'
    <2> SUFFICES ASSUME NEW p \in Replied' PROVE CopyEnded(p)' /\ p \notin job'[request'[p].machine]
      BY DEF RepliesInv
    <2>1. CASE p = q
      BY <1>1, <1>2, <1>3, <2>1 DEF CopyEnded
    <2>2. CASE p \in Replied
      <3>1. p \in Request /\ request[p].machine \in Machine
        BY <1>1, <2>2, RepliedMade DEF RequestInv, MadeInv, Made
      <3> QED BY <1>2, <1>3, <2>2, <3>1 DEF FleetInv, RepliesInv, CopyEnded
    <2> QED BY <1>5, <2>1, <2>2
  <1> QED BY <1>4, <1>6 DEF FleetInv

\* The server ends: the calls are lost, the rows and the daemon's work stay.
LEMMA RestartStep ==
  ASSUME HubInv, FleetInv, RestartAll
  PROVE  FleetInv'
  <1>1. RequestInv /\ Restart /\ UNCHANGED <<machine, agent, work, disk, running>>
    BY DEF HubInv, RestartAll
  <1>2. /\ Made' = Made /\ reply' = {} /\ UNCHANGED job
        /\ \A q \in Request : /\ request'[q].answer = request[q].answer
                              /\ request'[q].life = request[q].life /\ request'[q].machine = request[q].machine
        /\ \A q \in Request : request[q].pc = "answered" => request'[q] = request[q]
    BY <1>1, RestartRequests
  <1>3. /\ machine \in [Machine -> MachineState] /\ issuing \in [Machine -> SUBSET (1 .. MaxToken)]
        /\ agent \in [Handle -> AgentState] /\ op \in [Request -> CallState]
        /\ work \in [Request -> WorkState]
        /\ disk \in [Machine -> [Handle -> [File -> Request \cup {None}]]]
        /\ running \in [Machine -> SUBSET Handle]
    BY FleetTypes DEF FleetInv
  <1>4. \A q \in Request :
           /\ op'[q] \in CallState /\ op'[q].kind = op[q].kind /\ op'[q].machine = op[q].machine
           /\ op'[q].handle = op[q].handle
           /\ op'[q].pc = IF op[q].pc \in {"idle", "ok", "failed", "kept", "read"} THEN op[q].pc ELSE "lost"
    <2>1. "lost" \in CallPC
      BY DEF CallPC
    <2>2. \A q \in Request : op[q] \in CallState
      BY <1>3
    <2>3. \A q \in Request : op'[q] = IF op[q].pc \in {"idle", "ok", "failed", "kept", "read"} THEN op[q]
                                      ELSE [op[q] EXCEPT !.pc = "lost"]
      BY DEF RestartAll
    <2>4. ASSUME NEW q \in Request
          PROVE  LET c == [op[q] EXCEPT !.pc = "lost"] IN
                 /\ c \in CallState /\ c.kind = op[q].kind /\ c.machine = op[q].machine
                 /\ c.handle = op[q].handle /\ c.pc = "lost"
      <3>1. [op[q] EXCEPT !.pc = "lost"] \in CallState
        BY <2>1, <2>2, FleetStates
      <3> QED BY <2>2, <3>1 DEF CallState
    <2> QED BY <2>2, <2>3, <2>4
  <1>5. FleetTypeOK'
    <2>1. issuing' \in [Machine -> SUBSET (1 .. MaxToken)]
      BY DEF RestartAll
    <2>2. op' \in [Request -> CallState]
      BY <1>4 DEF RestartAll
    <2> QED BY <1>1, <1>3, <2>1, <2>2, FleetTypes DEF FleetTypeOK, CallState, CallPC
  <1>6. CallInv' /\ RowInv'
    BY <1>1, <1>2, <1>4 DEF FleetInv, CallInv, RowInv
  <1>7. RepliesInv'
    <2>1. Replied' \subseteq Replied
      BY <1>2 DEF Replied
    <2> QED BY <1>1, <1>2, <1>4, <2>1 DEF FleetInv, RepliesInv, CopyEnded, Replied
  <1>8. TaggedIsWhole'
    <2> SUFFICES ASSUME NEW p \in Request, op'[p].pc \in {"tag", "ok"}, op'[p].kind = "import"
                 PROVE  /\ request'[p].pc = "answered"
                        /\ work'[p].copied = File \/ request'[request'[p].answer].life < request'[p].life
      BY DEF TaggedIsWhole
    <2>1. op[p].pc = "ok" /\ op[p].kind = "import"
      BY <1>4
    <2>2. /\ request[p].pc = "answered"
          /\ work[p].copied = File \/ request[request[p].answer].life < request[p].life
      BY <2>1 DEF FleetInv, TaggedIsWhole
    <2>3. request[p].answer \in Request /\ request'[p] = request[p]
      BY <1>1, <1>2, <2>2 DEF RequestInv, MadeInv, Made
    <2> QED BY <1>1, <1>2, <2>2, <2>3
  <1> QED BY <1>5, <1>6, <1>7, <1>8 DEF FleetInv

-----------------------------------------------------------------------------
(* The composition.                                                        *)

IInv == HubInv /\ FleetInv

LEMMA FleetInitInv == FleetInit => Init /\ IInv
  <1> SUFFICES ASSUME FleetInit PROVE Init /\ IInv
    OBVIOUS
  <1>1. Init /\ HubInv
    BY HubInitInv DEF FleetInit
  <1>2. Made = {} /\ Replied = {} /\ RequestInv
    BY <1>1, RepliedMade DEF Init, Made, HubInv
  <1>3. machine \in [Machine -> MachineState]
    <2>1. {NoMachine, [row |-> "there", minted |-> 1, noted |-> 1]} \subseteq MachineState
      BY FleetAssumption DEF MachineState, NoMachine
    <2> QED BY <2>1 DEF FleetInit
  <1>4. op \in [Request -> CallState] /\ agent \in [Handle -> AgentState] /\ work \in [Request -> WorkState]
    <2>1. NoOp \in CallState
      BY DEF CallState, CallPC, NoOp
    <2> QED BY <2>1, FleetStates DEF FleetInit, WorkState
  <1>5. FleetTypeOK
    BY <1>3, <1>4, FleetTypes DEF FleetInit
  <1>6. CallInv /\ RowInv /\ RepliesInv /\ TaggedIsWhole
    BY <1>2, SocketAssumption DEF FleetInit, CallInv, RowInv, RepliesInv, TaggedIsWhole, NoOp, NoAgent
  <1> QED BY <1>1, <1>5, <1>6 DEF IInv, FleetInv

\* Every step of Fleet keeps its invariant and is one of ControlPlane or none.
LEMMA FleetNextInv == IInv /\ [FleetNext]_allVars => [Next]_vars /\ IInv'
  <1> SUFFICES ASSUME IInv, [FleetNext]_allVars PROVE [Next]_vars /\ FleetInv'
    BY HubNextInv DEF IInv
  <1>1. HubInv /\ FleetInv /\ ConnInv /\ RequestInv
    BY DEF IInv, HubInv
  \* A step of the hub alone in which no request has a part.
  <1>2. ASSUME UNCHANGED fleetVars, UNCHANGED requestVars PROVE FleetInv'
    <2>1. UNCHANGED <<request, job, reply>>
      BY <1>2 DEF requestVars
    <2>2. Made' = Made /\ Replied' = Replied
      BY <2>1 DEF Made, Replied
    <2> QED BY <1>1, <1>2, <2>1, <2>2, RequestStep
  <1>3. ASSUME NEW m \in Machine,
               \/ createMachine(m) \/ Mint(m) \/ deleteMachine(m)
               \/ \E t \in issuing[m] : setTokenPrefix(m, t)
               \/ \E h \in Handle : updateAgent(h, m) \/ Woken(m, h) \/ agentToken(m, h)
        PROVE  [Next]_vars /\ FleetInv'
    BY <1>1, <1>3, MachineSteps
  <1>4. ASSUME NEW h \in Handle, removeAgent(h) PROVE [Next]_vars /\ FleetInv'
    BY <1>1, <1>4, RemoveStep
  <1>5. ASSUME NEW m \in Machine, NEW s \in Socket, ConnectWithToken(m, s) PROVE [Next]_vars /\ FleetInv'
    <2>1. Connect(m, s) /\ UNCHANGED fleetVars /\ UNCHANGED requestVars
      BY <1>5 DEF ConnectWithToken, Connect
    <2> QED BY <1>2, <2>1 DEF Next
  <1>6. ASSUME NEW m \in Machine, NEW st \in {"online", "offline"}, LandStatus(m, st), UNCHANGED fleetVars
        PROVE  [Next]_vars /\ FleetInv'
    <2>1. UNCHANGED requestVars
      BY <1>6 DEF LandStatus
    <2> QED BY <1>2, <1>6, <2>1 DEF Next
  <1>7. ASSUME NEW s \in Socket, UNCHANGED fleetVars,
               SendHello(s) \/ Accept(s) \/ Refuse(s) \/ HearHello(s) \/ Break(s) \/ SeeClose(s)
        PROVE  [Next]_vars /\ FleetInv'
    <2>1. UNCHANGED requestVars
      BY <1>7 DEF SendHello, Accept, Refuse, HearHello, Break, SeeClose
    <2> QED BY <1>2, <1>7, <2>1 DEF Next
  <1>8. ASSUME NEW q \in Request,
               \/ \E h \in Handle, m \in Machine \cup {None} : StartForm(q, h, m)
               \/ \E m \in Machine : StartImport(q, m)
               \/ createAgent(q) \/ tagAgentCreator(q) \/ ListHandles(q) \/ Settle(q) \/ Rollback(q) \/ RollbackFails(q)
        PROVE  [Next]_vars /\ FleetInv'
    BY <1>1, <1>8, CallSteps
  <1>9. ASSUME NEW q \in Request,
               \/ \E m \in Machine : Inspect(q, m)
               \/ \E h \in Handle : Fetch(q, h)
               \/ RequestImport(q)
        PROVE  [Next]_vars /\ FleetInv'
    BY <1>1, <1>9, MakeSteps DEF Next
  <1>10. ASSUME NEW q \in Request, CopyFails(q) \/ \E f \in File : CopyFile(q, f) PROVE [Next]_vars /\ FleetInv'
    BY <1>1, <1>10, CopySteps
  <1>11. ASSUME NEW q \in Request, ReplyWhenDone(q) PROVE [Next]_vars /\ FleetInv'
    <2>1. Next
      BY <1>11 DEF ReplyWhenDone, Next
    <2> QED BY <1>1, <1>11, <2>1, ReplyStep
  <1>12. ASSUME NEW q \in Request, Timeout(q), UNCHANGED fleetVars PROVE [Next]_vars /\ FleetInv'
    <2>1. Next
      BY <1>12 DEF Next
    <2>2. Replied' \subseteq Replied
      BY <1>1, <1>12, TimeoutInv DEF Replied
    <2> QED BY <1>1, <1>12, <2>1, <2>2, TimeoutInv, RequestStep
  <1>13. ASSUME NEW s \in Socket, NEW q \in Request, Resolve(s, q), UNCHANGED fleetVars
         PROVE  [Next]_vars /\ FleetInv'
    <2>1. Next
      BY <1>13 DEF Next
    <2>2. Replied' \subseteq Replied
      BY <1>1, <1>13, ResolveInv DEF Replied
    <2> QED BY <1>1, <1>13, <2>1, <2>2, ResolveInv, RequestStep
  <1>14. CASE RestartAll
    <2>1. Next
      BY <1>14 DEF RestartAll, Next
    <2> QED BY <1>1, <1>14, <2>1, RestartStep
  <1>15. CASE UNCHANGED allVars
    <2>1. UNCHANGED vars /\ UNCHANGED fleetVars /\ UNCHANGED requestVars
      BY <1>15 DEF allVars, vars, requestVars
    <2> QED BY <1>2, <2>1
  <1>16. CASE \E m \in Machine :
                \/ createMachine(m) \/ Mint(m) \/ deleteMachine(m)
                \/ \E t \in issuing[m] : setTokenPrefix(m, t)
                \/ \E s \in Socket : ConnectWithToken(m, s)
                \/ \E h \in Handle : updateAgent(h, m) \/ Woken(m, h) \/ agentToken(m, h)
                \/ \E q \in Request : Inspect(q, m) \/ StartImport(q, m)
                \/ \E st \in {"online", "offline"} : LandStatus(m, st) /\ UNCHANGED fleetVars
    BY <1>3, <1>5, <1>6, <1>8, <1>9, <1>16
  <1>17. CASE \E q \in Request :
                \/ \E h \in Handle, m \in Machine \cup {None} : StartForm(q, h, m)
                \/ \E h \in Handle : Fetch(q, h)
                \/ createAgent(q) \/ tagAgentCreator(q) \/ ListHandles(q) \/ RequestImport(q)
                \/ \E f \in File : CopyFile(q, f)
                \/ CopyFails(q) \/ ReplyWhenDone(q) \/ Settle(q) \/ Rollback(q) \/ RollbackFails(q)
                \/ Timeout(q) /\ UNCHANGED fleetVars
                \/ \E s \in Socket : Resolve(s, q) /\ UNCHANGED fleetVars
    BY <1>8, <1>9, <1>10, <1>11, <1>12, <1>13, <1>17
  <1> QED BY <1>4, <1>7, <1>14, <1>15, <1>16, <1>17 DEF FleetNext

\* The invariant of the composition.
THEOREM FleetInvariance == FleetSpec => []IInv
  BY FleetInitInv, FleetNextInv, PTL DEF FleetSpec

\* services-context.ts:460 and routes/daemon.ts: whatever machines, agents and
\* imports do, the connections and requests behave as ControlPlane says.
THEOREM FleetImplementsControlPlane == FleetSpec => Connected
  BY FleetInitInv, FleetNextInv, FleetInvariance, PTL DEF FleetSpec, Connected

LEMMA ConnectedEitherWay == Spec \/ FleetSpec => Connected
  <1>1. Spec => Connected
    BY PTL DEF Spec, Connected
  <1> QED BY <1>1, FleetImplementsControlPlane

\* Every variable stays in its range, the counters of requests and restarts too.
THEOREM TypesCorrect == FleetSpec => [](TypeOK /\ FleetTypeOK)
  <1>1. IInv => TypeOK /\ FleetTypeOK
    BY HubInvImplies DEF IInv, FleetInv
  <1> QED BY <1>1, FleetInvariance, PTL

\* control-plane.ts:57 and :118: once no status of a machine is under way, and
\* unless two different ones met, the status in the database is what the hub
\* says, for any sockets that break before, during and after their lookup.
THEOREM StatusIsTheHubs == Spec \/ FleetSpec => []StatusUnlessRaced
  BY ConnectedEitherWay, HubInvariance, HubInvImplies, PTL

\* daemon-hub.ts:53: the Map of requests holds those that wait and no others.
THEOREM MapIsExact == Spec \/ FleetSpec => []PendingAreWaiting
  BY ConnectedEitherWay, HubInvariance, HubInvImplies, PTL

\* daemon-hub.ts:121: within one life of the server an answer is the request's own.
THEOREM AnswersAreOwn == Spec \/ FleetSpec => []OwnAnswerWithinLife
  BY ConnectedEitherWay, HubInvariance, HubInvImplies, PTL

\* services-context.ts:520: an import, or a form, that fails leaves no row behind.
THEOREM FailureLeavesNothing == FleetSpec => []FailedLeavesNoAgent
  <1>1. IInv => FailedLeavesNoAgent
    BY DEF IInv, FleetInv, RowInv, FailedLeavesNoAgent
  <1> QED BY <1>1, FleetInvariance, PTL

\* services-context.ts:518: an import reported done has had all its files copied,
\* unless the reply that settled it is to another life of the server.
THEOREM ImportsAreWhole == FleetSpec => []ImportedIsWhole
  <1>1. IInv => ImportedIsWhole
    BY DEF IInv, FleetInv, TaggedIsWhole, ImportedIsWhole
  <1> QED BY <1>1, FleetInvariance, PTL
=============================================================================
