------------------------- MODULE WakeRoutingProofs -------------------------
(***************************************************************************)
(* Proofs about WakeRouting, for any number of people, agents, channels,   *)
(* messages and daemons.                                                   *)
(*                                                                         *)
(* RoutingInv ties the progress of each message to the wakes that are out. *)
(* Staged is what its handler has seen to, Reached whom it has woken by    *)
(* then, Due what a wake says of its message, Twins the two wakes that one *)
(* routing must not both have sent.  A handler's step is one Goes: the     *)
(* agents of a set are woken once each, and those who are connected get    *)
(* the wake (Sends).  That a sequence of wakes does so is an induction     *)
(* over its length (SendsAll); all other steps send nothing (Calm), move a *)
(* wake from its way to its handler (Receive) or lose some (Cut).          *)
(***************************************************************************)
EXTENDS WakeRouting, TLAPS, SequenceTheorems, FiniteSetTheorems, WellFoundedInduction

Run == [machine : Machine, agent : Agent, task : TaskKey, msg : Nat, via : Via,
        pc : {"queued", "resumed", "running", "ended", "skipped", "lost"}]

Msg == [channel : Channel, parent : 0 .. MaxMessage, sender : Human \cup Agent,
        mentions : SUBSET Agent, pc : {"hook", "route", "peer", "done"},
        task : {"none", "open", "handed", "prune", "done"},
        assignee : Agent \cup {None}, hand : Agent \cup {None},
        hooked : Agent \cup {None}, given : Agent \cup {None},
        muted : SUBSET Agent, kept : SUBSET Agent]

\* The types that the proofs need.
Shape ==
    /\ wire \in [Machine -> Seq(Wake)]
    /\ run \in Seq(Run)
    /\ msgs \in Seq(Msg) /\ Len(msgs) <= MaxMessage
    /\ online \in Seq(Machine)
    /\ rr \in Nat
    /\ unfollowed \subseteq (Agent \X Message)
    /\ cut \in BOOLEAN

\* What a handler has seen to by each of its steps.
Staged(msg) ==
    /\ msg.sender \in Agent => msg.pc \in {"route", "done"} /\ msg.task = "none"
    /\ msg.pc = "hook" => msg.task = "open" /\ msg.assignee = None
    /\ msg.pc = "peer" => msg.sender \in Human /\ msg.channel \in Direct
    /\ msg.task = "prune" => msg.assignee # None
    /\ msg.hooked # None => msg.hooked \in Assignees(msg)
    /\ msg.hand # None => msg.task # "none" /\ msg.pc = "done" /\ msg.given \in {None, msg.hand}

Stages == \A n \in DOMAIN msgs : Staged(msgs[n])

\* The agents that a message keeps or that are muted follow its thread, or do
\* not; and those it keeps are connected, and so is whom its task was given to.
Followers ==
    \A n \in DOMAIN msgs : \A a \in Agent :
        LET msg == msgs[n] IN
        /\ msg.pc # "done" /\ a \in msg.muted => <<a, msg.parent>> \in unfollowed
        /\ msg.pc # "done" /\ a \in msg.kept => <<a, msg.parent>> \notin unfollowed
        /\ ~cut /\ (a \in msg.kept \/ a = msg.given) => Connected(a)

\* A wake, or the handler of one, is one that its message asks for.
Due(w, ms) ==
    /\ w.msg \in DOMAIN ms
    /\ LET msg == ms[w.msg] IN
       /\ msg.sender \in Agent => w.agent \in msg.mentions \ {msg.sender}
       /\ w.via = "message" => msg.pc \in {"peer", "done"}
       /\ w.via = "message" /\ msg.channel \notin Direct => w.agent \notin msg.muted

AllDue ==
    /\ \A m \in Machine : \A k \in DOMAIN wire[m] : Due(wire[m][k], msgs)
    /\ \A i \in DOMAIN run : Due(run[i], msgs)

\* Two wakes that the routing of one message must not both have sent.
Twins(v, w, ms) ==
    /\ v.msg = w.msg /\ v.agent = w.agent /\ v.via = "message" /\ w.via = "message"
    /\ ms[v.msg].channel \notin Direct

NoTwins ==
    /\ \A m, o \in Machine : \A k \in DOMAIN wire[m], l \in DOMAIN wire[o] :
          Twins(wire[m][k], wire[o][l], msgs) => m = o /\ k = l
    /\ \A m \in Machine : \A k \in DOMAIN wire[m] : \A i \in DOMAIN run : ~Twins(wire[m][k], run[i], msgs)
    /\ \A i, j \in DOMAIN run : Twins(run[i], run[j], msgs) => i = j

\* What has been sent by each step: to those whom the message is for, to the
\* manager of a task that mentions nobody, and to whom another agent gave it.
Addressed(msg) == (msg.mentions \cup Broadcast(msg)) \ {msg.sender}

Mentioned(n, msg) ==
    msg.pc \in {"peer", "done"} => \A a \in Addressed(msg) \cap msg.kept : Sent(n, a, {"message"})

Triaged(n, msg) ==
    /\ msg.pc # "hook" /\ msg.task # "none" /\ Assignees(msg) = {} /\ Manager \in msg.kept \ {Sender(msg)}
    => Sent(n, Manager, {"triage"})

Given(n, msg) == msg.given # None /\ msg.hand = None => Sent(n, msg.given, {"assign"})

Reached(n, msg) == Mentioned(n, msg) /\ Triaged(n, msg) /\ Given(n, msg)

Delivered == ~cut => \A n \in DOMAIN msgs : Reached(n, msgs[n])

RoutingInv == Shape /\ Stages /\ Followers /\ AllDue /\ NoTwins /\ Delivered

Hubs == [wire : [Machine -> Seq(Wake)], rr : Nat]

\* The places that wire m has got on top of those it has.
New(h, m) == Len(wire[m]) + 1 .. Len(h.wire[m])

\* Hub h is Hub after the agents of S, and nobody else, were woken for message n:
\* each once, and all who are connected.
Sends(h, S, n, via) ==
    /\ h \in Hubs
    /\ \A m \in Machine :
          /\ Len(wire[m]) <= Len(h.wire[m])
          /\ \A k \in DOMAIN wire[m] : h.wire[m][k] = wire[m][k]
          /\ \A k \in New(h, m) : h.wire[m][k].agent \in S /\ h.wire[m][k].msg = n /\ h.wire[m][k].via = via
    /\ \A m, o \in Machine : \A k \in New(h, m), l \in New(h, o) :
          h.wire[m][k].agent = h.wire[o][l].agent => m = o /\ k = l
    /\ \A a \in S : Connected(a) => \E m \in Machine : \E k \in New(h, m) : h.wire[m][k].agent = a

-----------------------------------------------------------------------------
(* Induction.  The induction theorems of the library take an operator; a   *)
(* set of numbers says the same.                                           *)

Less == {p \in Nat \X Nat : p[1] < p[2]}

LEMMA LessIsWellFounded == IsWellFoundedOn(Less, Nat)
  BY NatLessThanWellFounded DEF Less, OpToRel

\* A set with 0 and the successor of all its numbers has all numbers.
LEMMA SetInduction ==
  ASSUME NEW T \in SUBSET Nat, 0 \in T, \A n \in T : n + 1 \in T
  PROVE  T = Nat
  <1> SUFFICES ASSUME Nat \ T # {} PROVE FALSE
    OBVIOUS
  <1>1. PICK x \in Nat \ T : \A y \in Nat \ T : ~(<<y, x>> \in Less)
    BY LessIsWellFounded, WFMin
  <1>2. x # 0 /\ x \in Nat
    OBVIOUS
  <1>3. x - 1 \in Nat /\ x - 1 < x /\ (x - 1) + 1 = x
    BY <1>2
  <1>4. <<x - 1, x>> \in Less
    BY <1>2, <1>3 DEF Less
  <1>5. x - 1 \in T
    BY <1>1, <1>3, <1>4
  <1> QED BY <1>3, <1>5

\* The hubs of a sequence of wakes are what their definition says.
LEMMA HubsAre ==
  ASSUME NEW ts \in Seq(Agent), NEW task, NEW n
  PROVE  hubs(ts, task, n) = [k \in 0 .. Len(ts) |->
             IF k = 0 THEN Hub ELSE wake(hubs(ts, task, n)[k - 1], ts[k], task, n, "message")]
  <1> DEFINE Is(f, j) == f = [k \in 0 .. j |-> IF k = 0 THEN Hub ELSE wake(f[k - 1], ts[k], task, n, "message")]
             T == {j \in Nat : \E f : Is(f, j)}
  <1>1. 0 \in T
    <2>1. Is([k \in 0 .. 0 |-> Hub], 0)
      OBVIOUS
    <2> QED BY <2>1
  <1>2. ASSUME NEW j \in T PROVE j + 1 \in T
    <2>1. PICK f : Is(f, j)
      OBVIOUS
    <2> DEFINE g == [k \in 0 .. j + 1 |-> IF k = j + 1 THEN wake(f[j], ts[j + 1], task, n, "message") ELSE f[k]]
    <2>2. \A k \in 0 .. j + 1 : g[k] = IF k = 0 THEN Hub ELSE wake(g[k - 1], ts[k], task, n, "message")
      BY <2>1
    <2>3. Is(g, j + 1)
      BY <2>2
    <2> HIDE DEF g
    <2> QED BY <2>3
  <1>3. T = Nat
    <2> HIDE DEF T
    <2> QED BY <1>1, <1>2, SetInduction DEF T
  <1>4. Len(ts) \in Nat
    OBVIOUS
  <1>5. \E f : Is(f, Len(ts))
    BY <1>3, <1>4
  <1> QED BY <1>5 DEF hubs

-----------------------------------------------------------------------------
(* What is sent.                                                           *)

LEMMA WiresAre ==
  ASSUME Shape, NEW m \in Machine
  PROVE  /\ wire[m] \in Seq(Wake) /\ Len(wire[m]) \in Nat /\ DOMAIN wire[m] = 1 .. Len(wire[m])
         /\ \A k \in DOMAIN wire[m] : wire[m][k] \in Wake
  <1>1. wire[m] \in Seq(Wake)
    BY DEF Shape
  <1> QED BY <1>1

\* Whom a single wake reaches, and what it leaves alone.
LEMMA WakeIs ==
  ASSUME Shape, NEW h \in Hubs, NEW a \in Agent, NEW task \in TaskKey, NEW n \in Nat, NEW via \in Via
  PROVE  \/ wake(h, a, task, n, via) = h /\ ~Connected(a)
         \/ \E m \in Machine, r \in Nat :
              wake(h, a, task, n, via) =
                [wire |-> [h.wire EXCEPT ![m] = Append(h.wire[m], [agent |-> a, task |-> task, msg |-> n, via |-> via])],
                 rr |-> r]
  <1> DEFINE w == [agent |-> a, task |-> task, msg |-> n, via |-> via]
  <1>1. CASE MachineOf[a] # None
    <2> DEFINE m == MachineOf[a]
    <2>1. m \in Machine
      BY <1>1, MembersAssumption
    <2>2. CASE m \in ToSet(online)
      <3>1. wake(h, a, task, n, via) = [wire |-> [h.wire EXCEPT ![m] = Append(h.wire[m], w)], rr |-> h.rr]
        BY <1>1, <2>2 DEF wake
      <3>2. h.rr \in Nat
        BY DEF Hubs
      <3> HIDE DEF m
      <3> QED BY <2>1, <3>1, <3>2
    <2>3. CASE m \notin ToSet(online)
      BY <1>1, <2>3 DEF wake, Connected
    <2> QED BY <2>2, <2>3
  <1>2. CASE MachineOf[a] = None /\ online = <<>>
    BY <1>2 DEF wake, Connected
  <1>3. CASE MachineOf[a] = None /\ online # <<>>
    <2> DEFINE l == Len(online)
               m == online[(h.rr % l) + 1]
               r == (h.rr % l) + 1
    <2>1. l \in Nat /\ l > 0 /\ online \in [1 .. l -> Machine] /\ h.rr \in Nat
      BY <1>3 DEF Shape, Hubs
    <2>2. h.rr % l \in 0 .. l - 1
      <3> HIDE DEF l
      <3> QED BY <2>1
    <2>3. m \in Machine /\ r \in Nat
      <3> HIDE DEF l
      <3> QED BY <2>1, <2>2
    <2>4. wake(h, a, task, n, via) = [wire |-> [h.wire EXCEPT ![m] = Append(h.wire[m], w)], rr |-> r]
      BY <1>3 DEF wake
    <2> HIDE DEF m, r, w
    <2>5. QED BY <2>3, <2>4 DEF w
  <1> QED BY <1>1, <1>2, <1>3

LEMMA SendsNone ==
  ASSUME Shape, NEW n, NEW via
  PROVE  Sends(Hub, {}, n, via)
  <1>1. Hub \in Hubs /\ Hub.wire = wire
    BY DEF Hub, Hubs, Shape
  <1>2. \A m \in Machine : Len(wire[m]) \in Nat
    BY WiresAre
  <1>3. \A m \in Machine : New(Hub, m) = {}
    BY <1>1, <1>2 DEF New
  <1> QED BY <1>1, <1>2, <1>3 DEF Sends

\* One more agent is woken.
LEMMA SendsOne ==
  ASSUME Shape, NEW h, NEW S, NEW n \in Nat, NEW via \in Via, Sends(h, S, n, via),
         NEW a \in Agent, a \notin S, NEW task \in TaskKey
  PROVE  Sends(wake(h, a, task, n, via), S \cup {a}, n, via)
  <1> DEFINE w == [agent |-> a, task |-> task, msg |-> n, via |-> via]
  <1>1. h \in Hubs
    BY DEF Sends
  <1>2. CASE wake(h, a, task, n, via) = h /\ ~Connected(a)
    BY <1>2 DEF Sends
  <1>3. CASE \E m \in Machine, r \in Nat :
                wake(h, a, task, n, via) = [wire |-> [h.wire EXCEPT ![m] = Append(h.wire[m], w)], rr |-> r]
    <2>1. PICK m \in Machine : \E r \in Nat :
                wake(h, a, task, n, via) = [wire |-> [h.wire EXCEPT ![m] = Append(h.wire[m], w)], rr |-> r]
      BY <1>3
    <2>2. PICK r \in Nat :
                wake(h, a, task, n, via) = [wire |-> [h.wire EXCEPT ![m] = Append(h.wire[m], w)], rr |-> r]
      BY <2>1
    <2>3. PICK f : f = h.wire
      OBVIOUS
    <2>4. f \in [Machine -> Seq(Wake)]
      BY <1>1, <2>3 DEF Hubs
    <2>5. w \in Wake
      BY DEF Wake
    <2>6. w.agent = a /\ w.msg = n /\ w.via = via
      OBVIOUS
    <2> HIDE DEF w
    <2> DEFINE g == wake(h, a, task, n, via)
    <2>7. g.wire = [f EXCEPT ![m] = Append(f[m], w)] /\ g.rr = r /\ g = [wire |-> g.wire, rr |-> g.rr]
      BY <2>2, <2>3
    <2> HIDE DEF g
    <2>8. g.wire \in [Machine -> Seq(Wake)]
      <3>1. Append(f[m], w) \in Seq(Wake)
        BY <2>4, <2>5
      <3> QED BY <2>4, <2>7, <3>1
    <2>9. g \in Hubs
      BY <2>7, <2>8 DEF Hubs
    <2>10. \A o \in Machine : f[o] \in Seq(Wake) /\ Len(f[o]) \in Nat
      BY <2>4
    <2>11. /\ Len(g.wire[m]) = Len(f[m]) + 1
           /\ g.wire[m][Len(f[m]) + 1] = w
           /\ \A k \in 1 .. Len(f[m]) : g.wire[m][k] = f[m][k]
           /\ \A o \in Machine \ {m} : g.wire[o] = f[o]
      <3>1. g.wire[m] = Append(f[m], w) /\ \A o \in Machine \ {m} : g.wire[o] = f[o]
        BY <2>4, <2>7
      <3>2. f[m] \in Seq(Wake)
        BY <2>4
      <3> QED BY <2>5, <3>1, <3>2
    <2>12. \A o \in Machine : /\ Len(wire[o]) \in Nat /\ DOMAIN wire[o] = 1 .. Len(wire[o])
                              /\ Len(wire[o]) <= Len(f[o]) /\ New(h, o) = Len(wire[o]) + 1 .. Len(f[o])
      BY <2>3, WiresAre DEF Sends, New
    <2>13. /\ New(g, m) = New(h, m) \cup {Len(f[m]) + 1}
           /\ \A o \in Machine \ {m} : New(g, o) = New(h, o)
      <3>1. New(g, m) = Len(wire[m]) + 1 .. Len(f[m]) + 1
        BY <2>11 DEF New
      <3>2. \A o \in Machine \ {m} : New(g, o) = Len(wire[o]) + 1 .. Len(f[o])
        BY <2>11 DEF New
      <3> QED BY <3>1, <3>2, <2>10, <2>12
    <2>14. /\ \A o \in Machine : \A k \in New(h, o) : g.wire[o][k] = f[o][k] /\ f[o][k].agent \in S
           /\ g.wire[m][Len(f[m]) + 1].agent = a
      <3>1. \A o \in Machine : \A k \in New(h, o) : k \in 1 .. Len(f[o])
        BY <2>12
      <3> QED BY <2>3, <2>6, <2>11, <3>1 DEF Sends
    <2>15. ASSUME NEW o \in Machine
           PROVE  /\ Len(wire[o]) <= Len(g.wire[o])
                  /\ \A k \in DOMAIN wire[o] : g.wire[o][k] = wire[o][k]
                  /\ \A k \in New(g, o) : g.wire[o][k].agent \in S \cup {a} /\ g.wire[o][k].msg = n /\ g.wire[o][k].via = via
      <3>1. Len(wire[o]) <= Len(g.wire[o])
        BY <2>10, <2>11, <2>12
      <3>2. \A k \in DOMAIN wire[o] : k \in 1 .. Len(f[o]) /\ f[o][k] = wire[o][k]
        BY <2>3, <2>10, <2>12 DEF Sends
      <3>3. \A k \in DOMAIN wire[o] : g.wire[o][k] = wire[o][k]
        BY <2>11, <3>2
      <3>4. \A k \in New(h, o) : f[o][k].msg = n /\ f[o][k].via = via
        BY <2>3 DEF Sends
      <3>5. ASSUME NEW k \in New(g, o)
            PROVE  g.wire[o][k].agent \in S \cup {a} /\ g.wire[o][k].msg = n /\ g.wire[o][k].via = via
        <4>1. CASE k \in New(h, o)
          <5>1. g.wire[o][k] = f[o][k] /\ f[o][k].agent \in S
            BY <2>14, <4>1
          <5> QED BY <3>4, <4>1, <5>1
        <4>2. CASE o = m /\ k = Len(f[m]) + 1
          BY <2>6, <2>11, <4>2
        <4> QED BY <2>13, <4>1, <4>2
      <3> QED BY <3>1, <3>3, <3>5
    <2>16. ASSUME NEW o \in Machine, NEW q \in Machine, NEW k \in New(g, o), NEW l \in New(g, q),
                  g.wire[o][k].agent = g.wire[q][l].agent
           PROVE  o = q /\ k = l
      <3>1. (o = m /\ k = Len(f[m]) + 1) \/ k \in New(h, o)
        BY <2>13
      <3>2. (q = m /\ l = Len(f[m]) + 1) \/ l \in New(h, q)
        BY <2>13
      <3>3. CASE k \in New(h, o) /\ l \in New(h, q)
        <4>1. f[o][k].agent = f[q][l].agent
          BY <2>14, <2>16, <3>3
        <4>2. \A y \in New(h, o), z \in New(h, q) : f[o][y].agent = f[q][z].agent => o = q /\ y = z
          BY <2>3 DEF Sends
        <4> QED BY <3>3, <4>1, <4>2
      <3> QED BY <2>14, <2>16, <3>1, <3>2, <3>3
    <2>17. ASSUME NEW b \in S \cup {a}, Connected(b)
           PROVE  \E o \in Machine : \E k \in New(g, o) : g.wire[o][k].agent = b
      <3>1. CASE b = a
        BY <2>13, <2>14, <3>1
      <3>2. CASE b \in S
        <4>1. PICK o \in Machine : \E k \in New(h, o) : f[o][k].agent = b
          BY <2>3, <2>17, <3>2 DEF Sends
        <4>2. PICK k \in New(h, o) : f[o][k].agent = b
          BY <4>1
        <4> QED BY <4>1, <4>2, <2>13, <2>14
      <3> QED BY <3>1, <3>2
    <2>18. Sends(g, S \cup {a}, n, via)
      BY <2>9, <2>15, <2>16, <2>17 DEF Sends
    <2> QED BY <2>18 DEF g
  <1> QED BY <1>1, <1>2, <1>3, WakeIs

\* One after the other, all are woken.
LEMMA SendsAll ==
  ASSUME Shape, NEW ts \in Seq(Agent), IsInjective(ts), NEW task \in TaskKey, NEW n \in Nat
  PROVE  Sends(hubs(ts, task, n)[Len(ts)], ToSet(ts), n, "message")
  <1> DEFINE h == hubs(ts, task, n)
             Upto(k) == {ts[j] : j \in 1 .. k}
             T == {k \in Nat : k <= Len(ts) => Sends(h[k], Upto(k), n, "message")}
  <1>1. Len(ts) \in Nat /\ DOMAIN ts = 1 .. Len(ts) /\ \A k \in 1 .. Len(ts) : ts[k] \in Agent
    OBVIOUS
  <1>2. \A k \in 0 .. Len(ts) : h[k] = IF k = 0 THEN Hub ELSE wake(h[k - 1], ts[k], task, n, "message")
    BY HubsAre
  <1> HIDE DEF h
  <1>3. 0 \in T
    <2>1. h[0] = Hub
      BY <1>1, <1>2
    <2>2. Upto(0) = {}
      OBVIOUS
    <2> QED BY <2>1, <2>2, SendsNone
  <1>4. ASSUME NEW k \in T PROVE k + 1 \in T
    <2> SUFFICES ASSUME k + 1 <= Len(ts) PROVE Sends(h[k + 1], Upto(k + 1), n, "message")
      OBVIOUS
    <2>1. k + 1 \in 1 .. Len(ts) /\ k \in Nat /\ k <= Len(ts) /\ (k + 1) - 1 = k /\ k + 1 # 0 /\ k + 1 \in 0 .. Len(ts)
      BY <1>1
    <2>2. h[k + 1] = wake(h[k], ts[k + 1], task, n, "message")
      BY <1>2, <2>1
    <2>3. Sends(h[k], Upto(k), n, "message")
      BY <2>1
    <2>4. ts[k + 1] \in Agent /\ ts[k + 1] \notin Upto(k)
      BY <1>1, <2>1 DEF IsInjective
    <2>5. Upto(k + 1) = Upto(k) \cup {ts[k + 1]}
      BY <2>1
    <2>6. "message" \in Via
      BY DEF Via
    <2> HIDE DEF Upto
    <2> QED BY <2>2, <2>3, <2>4, <2>5, <2>6, SendsOne
  <1>5. T = Nat
    <2> HIDE DEF T
    <2> QED BY <1>3, <1>4, SetInduction DEF T
  <1>6. Sends(h[Len(ts)], Upto(Len(ts)), n, "message")
    <2>1. Len(ts) \in T
      <3> HIDE DEF T
      <3> QED BY <1>1, <1>5
    <2>2. Len(ts) <= Len(ts)
      BY <1>1
    <2> HIDE DEF Upto
    <2> QED BY <2>1, <2>2
  <1>7. Upto(Len(ts)) = ToSet(ts)
    BY <1>1 DEF ToSet
  <1> QED BY <1>6, <1>7 DEF h

\* A finite set as a sequence has every element once.
LEMMA SetToSeqIs ==
  ASSUME NEW S, IsFiniteSet(S)
  PROVE  SetToSeq(S) \in Seq(S) /\ IsInjective(SetToSeq(S)) /\ ToSet(SetToSeq(S)) = S
  <1> DEFINE c == Cardinality(S)
             f == SetToSeq(S)
  <1>1. c \in Nat /\ ExistsBijection(1 .. c, S)
    BY FS_CardinalityType
  <1>2. \E g \in [1 .. c -> S] : IsInjective(g)
    BY <1>1 DEF ExistsBijection, Bijection, Injection, IsInjective
  <1>3. f \in [1 .. c -> S] /\ IsInjective(f)
    BY <1>2 DEF SetToSeq
  <1>4. f \in Seq(S) /\ DOMAIN f = 1 .. c
    BY <1>1, <1>3
  <1>5. IsFiniteSet(1 .. c) /\ Cardinality(1 .. c) = c
    BY <1>1, FS_Interval
  <1>6. f \in Injection(1 .. c, S)
    BY <1>3 DEF Injection
  <1>7. f \in Surjection(1 .. c, S)
    <2> HIDE DEF f
    <2> QED BY <1>5, <1>6, FS_Injection
  <1>8. ToSet(f) = S
    BY <1>3, <1>4, <1>7 DEF Surjection, ToSet
  <1> QED BY <1>3, <1>4, <1>8

LEMMA MessagesAre ==
  ASSUME Shape
  PROVE  /\ Len(msgs) \in Nat /\ DOMAIN msgs = 1 .. Len(msgs) /\ DOMAIN msgs \subseteq Message
         /\ DOMAIN msgs \subseteq Nat
         /\ \A n \in DOMAIN msgs : msgs[n] \in Msg
  <1>1. msgs \in Seq(Msg) /\ Len(msgs) <= MaxMessage
    BY DEF Shape
  <1>2. Len(msgs) \in Nat /\ DOMAIN msgs = 1 .. Len(msgs) /\ \A n \in DOMAIN msgs : msgs[n] \in Msg
    BY <1>1
  <1> QED BY <1>1, <1>2, BoundAssumption DEF Message

LEMMA RunsAre ==
  ASSUME Shape
  PROVE  /\ Len(run) \in Nat /\ DOMAIN run = 1 .. Len(run)
         /\ \A i \in DOMAIN run : run[i] \in Run
  <1>1. run \in Seq(Run)
    BY DEF Shape
  <1> QED BY <1>1

\* Of whom a message wakes everybody is there once.
LEMMA TargetsAre ==
  ASSUME NEW msg \in Msg
  PROVE  /\ Targets(msg) \in Seq(Agent) /\ IsInjective(Targets(msg))
         /\ ToSet(Targets(msg)) = ((msg.mentions \cup Broadcast(msg)) \ {msg.sender}) \ Muted(msg)
  <1> DEFINE S == NotSelf(msg, msg.mentions) \ Muted(msg)
             T == (NotSelf(msg, Broadcast(msg)) \ Muted(msg)) \ S
             p == SetToSeq(S)
             q == SetToSeq(T)
  <1>1. S \in SUBSET Agent /\ T \in SUBSET Agent /\ S \cap T = {}
    BY MembersAssumption DEF Msg, NotSelf, Broadcast
  <1>2. S \cup T = ((msg.mentions \cup Broadcast(msg)) \ {msg.sender}) \ Muted(msg)
    BY DEF NotSelf
  <1>3. Targets(msg) = p \o q
    BY DEF Targets
  <1> HIDE DEF S, T
  <1>4. IsFiniteSet(S) /\ IsFiniteSet(T)
    BY <1>1, MembersAssumption, FS_Subset
  <1>5. p \in Seq(S) /\ IsInjective(p) /\ ToSet(p) = S /\ q \in Seq(T) /\ IsInjective(q) /\ ToSet(q) = T
    BY <1>4, SetToSeqIs
  <1> HIDE DEF p, q
  <1>6. /\ Len(p) \in Nat /\ DOMAIN p = 1 .. Len(p) /\ \A i \in 1 .. Len(p) : p[i] \in S
        /\ Len(q) \in Nat /\ DOMAIN q = 1 .. Len(q) /\ \A i \in 1 .. Len(q) : q[i] \in T
    BY <1>5
  <1> DEFINE c == p \o q
  <1>7. /\ c \in Seq(Agent) /\ Len(c) = Len(p) + Len(q) /\ DOMAIN c = 1 .. Len(p) + Len(q)
        /\ \A i \in 1 .. Len(p) + Len(q) : c[i] = IF i <= Len(p) THEN p[i] ELSE q[i - Len(p)]
    <2>1. p \in Seq(Agent) /\ q \in Seq(Agent)
      BY <1>1, <1>5
    <2> QED BY <2>1, <1>6
  <1> HIDE DEF c
  <1>8. \A i \in DOMAIN c : \/ i \in 1 .. Len(p) /\ c[i] = p[i] /\ c[i] \in S
                            \/ i - Len(p) \in 1 .. Len(q) /\ c[i] = q[i - Len(p)] /\ c[i] \in T
    BY <1>6, <1>7
  <1>9. IsInjective(c)
    <2> SUFFICES ASSUME NEW i \in DOMAIN c, NEW j \in DOMAIN c, c[i] = c[j] PROVE i = j
      BY DEF IsInjective
    <2>1. i \in Nat /\ j \in Nat
      BY <1>6, <1>7
    <2>2. CASE i \in 1 .. Len(p) /\ j \in 1 .. Len(p) /\ c[i] = p[i] /\ c[j] = p[j]
      BY <1>5, <1>6, <2>2 DEF IsInjective
    <2>3. CASE i - Len(p) \in 1 .. Len(q) /\ j - Len(p) \in 1 .. Len(q) /\ c[i] = q[i - Len(p)] /\ c[j] = q[j - Len(p)]
      <3>1. i - Len(p) = j - Len(p)
        BY <1>5, <1>6, <2>3 DEF IsInjective
      <3> QED BY <1>6, <2>1, <3>1
    <2>4. ~(c[i] \in S /\ c[j] \in T) /\ ~(c[i] \in T /\ c[j] \in S)
      BY <1>1
    <2> QED BY <1>8, <2>2, <2>3, <2>4
  <1>10. ToSet(c) = S \cup T
    <2>1. ToSet(c) \subseteq S \cup T
      BY <1>8 DEF ToSet
    <2>2. ASSUME NEW x \in S PROVE x \in ToSet(c)
      <3>1. PICK i \in 1 .. Len(p) : p[i] = x
        BY <1>5, <1>6 DEF ToSet
      <3>2. i \in DOMAIN c /\ c[i] = x
        BY <1>6, <1>7, <3>1
      <3> QED BY <3>2 DEF ToSet
    <2>3. ASSUME NEW x \in T PROVE x \in ToSet(c)
      <3>1. PICK i \in 1 .. Len(q) : q[i] = x
        BY <1>5, <1>6 DEF ToSet
      <3>2. i + Len(p) \in 1 .. Len(p) + Len(q) /\ ~(i + Len(p) <= Len(p)) /\ (i + Len(p)) - Len(p) = i
        BY <1>6
      <3>3. i + Len(p) \in DOMAIN c /\ c[i + Len(p)] = x
        BY <1>7, <3>1, <3>2
      <3> QED BY <3>3 DEF ToSet
    <2> QED BY <2>1, <2>2, <2>3
  <1> QED BY <1>2, <1>3, <1>7, <1>9, <1>10 DEF c

-----------------------------------------------------------------------------
(* What a step of a handler keeps.                                         *)

\* The message n goes on as msg, and the agents of S were woken for it.
Goes(n, msg, h, S, via) ==
    /\ n \in DOMAIN msgs /\ msg \in Msg /\ via \in Via
    /\ Sends(h, S, n, via) /\ Becomes(h, n, msg)
    /\ msg.channel = msgs[n].channel /\ msg.parent = msgs[n].parent /\ msg.sender = msgs[n].sender
    /\ msg.mentions = msgs[n].mentions /\ msg.muted = msgs[n].muted /\ msg.kept = msgs[n].kept
    /\ msgs[n].pc = "done" => msg.pc = "done"
    /\ msgs[n].pc = "peer" => msg.pc \in {"peer", "done"}
    /\ msg.sender \in Agent => S \subseteq msg.mentions \ {msg.sender}
    /\ via = "message" /\ S # {} => msg.pc \in {"peer", "done"}
    /\ via = "message" /\ S # {} /\ msg.channel \notin Direct => S \cap msg.muted = {} /\ msgs[n].pc \notin {"peer", "done"}

LEMMA GoesShape ==
  ASSUME Shape, NEW n, NEW msg, NEW h, NEW S, NEW via, Goes(n, msg, h, S, via)
  PROVE  /\ Shape' /\ UNCHANGED <<run, online, unfollowed, cut>>
         /\ DOMAIN msgs' = DOMAIN msgs
         /\ msgs'[n] = msg /\ \A k \in DOMAIN msgs : k # n => msgs'[k] = msgs[k]
         /\ \A m \in Machine :
              /\ DOMAIN wire'[m] = DOMAIN wire[m] \cup New(h, m)
              /\ \A k \in DOMAIN wire[m] : wire'[m][k] = wire[m][k]
              /\ \A k \in New(h, m) :
                    /\ k \notin DOMAIN wire[m]
                    /\ wire'[m][k].agent \in S /\ wire'[m][k].msg = n /\ wire'[m][k].via = via
         /\ \A m, o \in Machine : \A k \in New(h, m), l \in New(h, o) :
              wire'[m][k].agent = wire'[o][l].agent => m = o /\ k = l
         /\ \A a \in S : Connected(a) => \E m \in Machine : \E k \in New(h, m) : wire'[m][k].agent = a
  <1>1. /\ wire' = h.wire /\ rr' = h.rr /\ msgs' = [msgs EXCEPT ![n] = msg]
        /\ UNCHANGED <<run, online, unfollowed, cut>> /\ n \in DOMAIN msgs /\ msg \in Msg
    BY DEF Goes, Becomes
  <1>2. Sends(h, S, n, via)
    BY DEF Goes
  <1>3. /\ msgs' \in Seq(Msg) /\ Len(msgs') = Len(msgs) /\ DOMAIN msgs' = DOMAIN msgs
        /\ msgs'[n] = msg /\ \A k \in DOMAIN msgs : k # n => msgs'[k] = msgs[k]
    <2>1. msgs \in Seq(Msg)
      BY DEF Shape
    <2> QED BY <1>1, <2>1
  <1>4. wire' \in [Machine -> Seq(Wake)] /\ rr' \in Nat
    BY <1>1, <1>2 DEF Sends, Hubs
  <1>5. Shape'
    BY <1>1, <1>3, <1>4 DEF Shape
  <1>6. ASSUME NEW m \in Machine
        PROVE  /\ DOMAIN wire'[m] = DOMAIN wire[m] \cup New(h, m)
               /\ \A k \in New(h, m) : k \notin DOMAIN wire[m]
    <2>1. Len(wire'[m]) \in Nat /\ DOMAIN wire'[m] = 1 .. Len(wire'[m])
      BY <1>4
    <2>2. Len(wire[m]) \in Nat /\ DOMAIN wire[m] = 1 .. Len(wire[m])
      BY WiresAre
    <2>3. Len(wire[m]) <= Len(wire'[m]) /\ New(h, m) = Len(wire[m]) + 1 .. Len(wire'[m])
      BY <1>1, <1>2 DEF Sends, New
    <2> QED BY <2>1, <2>2, <2>3
  <1>7. \A m \in Machine :
           /\ \A k \in DOMAIN wire[m] : wire'[m][k] = wire[m][k]
           /\ \A k \in New(h, m) : wire'[m][k].agent \in S /\ wire'[m][k].msg = n /\ wire'[m][k].via = via
    BY <1>1, <1>2 DEF Sends
  <1>8. /\ \A m, o \in Machine : \A k \in New(h, m), l \in New(h, o) :
              wire'[m][k].agent = wire'[o][l].agent => m = o /\ k = l
        /\ \A a \in S : Connected(a) => \E m \in Machine : \E k \in New(h, m) : wire'[m][k].agent = a
    BY <1>1, <1>2 DEF Sends
  <1> QED BY <1>1, <1>3, <1>5, <1>6, <1>7, <1>8

\* What was asked for stays so.
LEMMA DueStays ==
  ASSUME Shape, NEW n, NEW msg, NEW h, NEW S, NEW via, Goes(n, msg, h, S, via),
         NEW w, Due(w, msgs)
  PROVE  Due(w, msgs')
  <1>1. DOMAIN msgs' = DOMAIN msgs /\ msgs'[n] = msg /\ \A k \in DOMAIN msgs : k # n => msgs'[k] = msgs[k]
    BY GoesShape
  <1>2. CASE w.msg = n
    BY <1>1, <1>2 DEF Due, Goes
  <1>3. CASE w.msg # n
    BY <1>1, <1>3 DEF Due
  <1> QED BY <1>2, <1>3

LEMMA GoesDue ==
  ASSUME Shape, AllDue, NEW n, NEW msg, NEW h, NEW S, NEW via, Goes(n, msg, h, S, via)
  PROVE  AllDue'
  <1>1. ASSUME NEW m \in Machine, NEW k \in DOMAIN wire'[m] PROVE Due(wire'[m][k], msgs')
    <2>1. CASE k \in DOMAIN wire[m]
      <3>1. wire'[m][k] = wire[m][k] /\ Due(wire[m][k], msgs)
        BY <2>1, GoesShape DEF AllDue
      <3> QED BY <3>1, DueStays
    <2>2. CASE k \in New(h, m)
      <3>1. PICK w : w = wire'[m][k]
        OBVIOUS
      <3>2. w.agent \in S /\ w.msg = n /\ w.via = via
        BY <2>2, <3>1, GoesShape
      <3>3. n \in DOMAIN msgs' /\ msgs'[n] = msg
        BY GoesShape DEF Goes
      <3>4. Due(w, msgs')
        BY <3>2, <3>3 DEF Due, Goes
      <3> QED BY <3>1, <3>4
    <2> QED BY <2>1, <2>2, GoesShape
  <1>2. ASSUME NEW i \in DOMAIN run' PROVE Due(run'[i], msgs')
    <2>1. run' = run
      BY GoesShape
    <2>2. Due(run[i], msgs)
      BY <2>1 DEF AllDue
    <2> QED BY <2>1, <2>2, DueStays
  <1> QED BY <1>1, <1>2 DEF AllDue

LEMMA GoesTwins ==
  ASSUME Shape, AllDue, NoTwins, NEW n, NEW msg, NEW h, NEW S, NEW via, Goes(n, msg, h, S, via)
  PROVE  NoTwins'
  <1>1. \A k \in DOMAIN msgs : msgs'[k].channel = msgs[k].channel
    BY GoesShape DEF Goes
  <1>2. ASSUME NEW v, NEW w, v.msg \in DOMAIN msgs, Twins(v, w, msgs')
        PROVE  Twins(v, w, msgs)
    BY <1>1, <1>2 DEF Twins
  <1>3. ASSUME NEW v, NEW w, Due(v, msgs), w.msg = n, w.via = via, w.agent \in S
        PROVE  ~Twins(v, w, msgs') /\ ~Twins(w, v, msgs')
    <2> SUFFICES ASSUME v.msg = n, via = "message", v.via = "message", msgs'[n].channel \notin Direct PROVE FALSE
      BY <1>3 DEF Twins
    <2>1. msgs[n].pc \notin {"peer", "done"}
      BY <1>1, <1>3 DEF Goes
    <2> QED BY <1>3, <2>1 DEF Due
  <1>4. ASSUME NEW m \in Machine, NEW o \in Machine, NEW k \in DOMAIN wire'[m], NEW l \in DOMAIN wire'[o],
               Twins(wire'[m][k], wire'[o][l], msgs')
        PROVE  m = o /\ k = l
    <2>1. /\ k \in DOMAIN wire[m] => wire'[m][k] = wire[m][k] /\ Due(wire[m][k], msgs)
          /\ l \in DOMAIN wire[o] => wire'[o][l] = wire[o][l] /\ Due(wire[o][l], msgs)
      BY GoesShape DEF AllDue
    <2>2. CASE k \in DOMAIN wire[m] /\ l \in DOMAIN wire[o]
      <3>1. Twins(wire[m][k], wire[o][l], msgs)
        BY <1>2, <1>4, <2>1, <2>2 DEF Due
      <3> QED BY <2>2, <3>1 DEF NoTwins
    <2>3. CASE k \in New(h, m) /\ l \in New(h, o)
      <3>1. wire'[m][k].agent = wire'[o][l].agent
        BY <1>4 DEF Twins
      <3> QED BY <2>3, <3>1, GoesShape
    <2>4. CASE k \in DOMAIN wire[m] /\ l \in New(h, o)
      <3>1. wire'[o][l].msg = n /\ wire'[o][l].via = via /\ wire'[o][l].agent \in S
        BY <2>4, GoesShape
      <3> QED BY <1>3, <1>4, <2>1, <2>4, <3>1
    <2>5. CASE k \in New(h, m) /\ l \in DOMAIN wire[o]
      <3>1. wire'[m][k].msg = n /\ wire'[m][k].via = via /\ wire'[m][k].agent \in S
        BY <2>5, GoesShape
      <3> QED BY <1>3, <1>4, <2>1, <2>5, <3>1
    <2> QED BY <2>2, <2>3, <2>4, <2>5, GoesShape
  <1>5. run' = run
    BY GoesShape
  <1>6. ASSUME NEW m \in Machine, NEW k \in DOMAIN wire'[m], NEW i \in DOMAIN run
        PROVE  ~Twins(wire'[m][k], run[i], msgs')
    <2>1. Due(run[i], msgs)
      BY DEF AllDue
    <2>2. CASE k \in DOMAIN wire[m]
      <3>1. wire'[m][k] = wire[m][k] /\ Due(wire[m][k], msgs) /\ ~Twins(wire[m][k], run[i], msgs)
        BY <2>2, GoesShape DEF AllDue, NoTwins
      <3> QED BY <1>2, <3>1 DEF Due
    <2>3. CASE k \in New(h, m)
      <3>1. wire'[m][k].msg = n /\ wire'[m][k].via = via /\ wire'[m][k].agent \in S
        BY <2>3, GoesShape
      <3> QED BY <1>3, <2>1, <3>1
    <2> QED BY <2>2, <2>3, GoesShape
  <1>7. ASSUME NEW i \in DOMAIN run, NEW j \in DOMAIN run, Twins(run[i], run[j], msgs')
        PROVE  i = j
    <2>1. Due(run[i], msgs)
      BY DEF AllDue
    <2>2. Twins(run[i], run[j], msgs)
      BY <1>2, <1>7, <2>1 DEF Due
    <2> QED BY <2>2 DEF NoTwins
  <1> QED BY <1>4, <1>5, <1>6, <1>7 DEF NoTwins

\* What was sent stays sent, and the new wakes are.
LEMMA GoesSent ==
  ASSUME Shape, NEW n, NEW msg, NEW h, NEW S, NEW via, Goes(n, msg, h, S, via)
  PROVE  /\ \A k, a, vias : Sent(k, a, vias) => Sent(k, a, vias)'
         /\ \A a \in S : Connected(a) => Sent(n, a, {via})'
  <1>1. ASSUME NEW k, NEW a, NEW vias, Sent(k, a, vias) PROVE Sent(k, a, vias)'
    <2>1. CASE Handled(k, a, vias) # {}
      BY <2>1, GoesShape DEF Sent, Handled
    <2>2. CASE \E m \in Machine : \E w \in ToSet(wire[m]) : w.agent = a /\ w.msg = k /\ w.via \in vias
      <3>1. PICK m \in Machine : \E w \in ToSet(wire[m]) : w.agent = a /\ w.msg = k /\ w.via \in vias
        BY <2>2
      <3>2. PICK p \in DOMAIN wire[m] : wire[m][p].agent = a /\ wire[m][p].msg = k /\ wire[m][p].via \in vias
        BY <3>1 DEF ToSet
      <3>3. p \in DOMAIN wire'[m] /\ wire'[m][p] = wire[m][p]
        BY <3>2, GoesShape
      <3> QED BY <3>2, <3>3 DEF Sent, ToSet
    <2> QED BY <1>1, <2>1, <2>2 DEF Sent
  <1>2. ASSUME NEW a \in S, Connected(a) PROVE Sent(n, a, {via})'
    <2>1. PICK m \in Machine : \E k \in New(h, m) : wire'[m][k].agent = a
      BY <1>2, GoesShape
    <2>2. PICK k \in New(h, m) : wire'[m][k].agent = a
      BY <2>1
    <2>3. k \in DOMAIN wire'[m] /\ wire'[m][k].msg = n /\ wire'[m][k].via = via
      BY <2>2, GoesShape
    <2> QED BY <2>2, <2>3 DEF Sent, ToSet
  <1> QED BY <1>1, <1>2

-----------------------------------------------------------------------------
(* The steps of the handlers.                                              *)

\* What was seen to before the step stays so.
LEMMA GoesReached ==
  ASSUME Shape, NEW n, NEW msg, NEW h, NEW S, NEW via, Goes(n, msg, h, S, via), Reached(n, msgs[n])
  PROVE  /\ msgs[n].pc \in {"peer", "done"} => Mentioned(n, msg)'
         /\ msgs[n].pc # "hook" /\ msgs[n].task # "none" => Triaged(n, msg)'
         /\ msg.given = msgs[n].given /\ msg.hand = msgs[n].hand => Given(n, msg)'
  <1>1. \A a, vias : Sent(n, a, vias) => Sent(n, a, vias)'
    BY GoesSent
  <1>2. /\ msg.channel = msgs[n].channel /\ msg.sender = msgs[n].sender
        /\ msg.mentions = msgs[n].mentions /\ msg.kept = msgs[n].kept
    BY DEF Goes
  <1>3. Addressed(msg) = Addressed(msgs[n]) /\ Assignees(msg) = Assignees(msgs[n]) /\ Sender(msg) = Sender(msgs[n])
    BY <1>2 DEF Addressed, Broadcast, Assignees, Sender
  <1>4. ASSUME msgs[n].pc \in {"peer", "done"} PROVE Mentioned(n, msg)'
    BY <1>1, <1>2, <1>3, <1>4 DEF Mentioned, Reached
  <1>5. ASSUME msgs[n].pc # "hook", msgs[n].task # "none" PROVE Triaged(n, msg)'
    BY <1>1, <1>2, <1>3, <1>5 DEF Triaged, Reached
  <1>6. ASSUME msg.given = msgs[n].given, msg.hand = msgs[n].hand PROVE Given(n, msg)'
    BY <1>1, <1>6 DEF Given, Reached
  <1> QED BY <1>4, <1>5, <1>6

LEMMA GoesKeeps ==
  ASSUME RoutingInv, NEW n, NEW msg, NEW h, NEW S, NEW via, Goes(n, msg, h, S, via),
         Staged(msg), msg.given # msgs[n].given => msg.given = None \/ Connected(msg.given),
         ~cut => Reached(n, msg)'
  PROVE  RoutingInv'
  <1>1. /\ DOMAIN msgs' = DOMAIN msgs /\ msgs'[n] = msg /\ \A k \in DOMAIN msgs : k # n => msgs'[k] = msgs[k]
        /\ Shape' /\ UNCHANGED <<run, online, unfollowed, cut>>
    BY GoesShape DEF RoutingInv
  <1>2. Stages'
    BY <1>1 DEF Stages, RoutingInv
  <1>3. Followers'
    <2> SUFFICES ASSUME NEW k \in DOMAIN msgs, NEW a \in Agent
                 PROVE  /\ msgs'[k].pc # "done" /\ a \in msgs'[k].muted => <<a, msgs'[k].parent>> \in unfollowed'
                        /\ msgs'[k].pc # "done" /\ a \in msgs'[k].kept => <<a, msgs'[k].parent>> \notin unfollowed'
                        /\ ~cut' /\ (a \in msgs'[k].kept \/ a = msgs'[k].given) => Connected(a)'
      BY <1>1 DEF Followers
    <2>1. /\ msgs'[k].muted = msgs[k].muted /\ msgs'[k].kept = msgs[k].kept /\ msgs'[k].parent = msgs[k].parent
          /\ msgs[k].pc = "done" => msgs'[k].pc = "done"
      BY <1>1 DEF Goes
    <2>2. Connected(a)' <=> Connected(a)
      BY <1>1 DEF Connected
    <2>3. /\ msgs[k].pc # "done" /\ a \in msgs[k].muted => <<a, msgs[k].parent>> \in unfollowed
          /\ msgs[k].pc # "done" /\ a \in msgs[k].kept => <<a, msgs[k].parent>> \notin unfollowed
          /\ ~cut /\ (a \in msgs[k].kept \/ a = msgs[k].given) => Connected(a)
      BY DEF Followers, RoutingInv
    <2>4. a = msgs'[k].given => a = msgs[k].given \/ Connected(a)
      BY <1>1, MembersAssumption
    <2> QED BY <1>1, <2>1, <2>2, <2>3, <2>4
  <1>4. Delivered'
    <2> SUFFICES ASSUME ~cut, NEW k \in DOMAIN msgs, k # n PROVE Reached(k, msgs[k])'
      BY <1>1 DEF Delivered
    <2>1. PICK other : other = msgs[k]
      OBVIOUS
    <2>2. Reached(k, other)
      BY <2>1 DEF Delivered, RoutingInv
    <2>3. \A a, vias : Sent(k, a, vias) => Sent(k, a, vias)'
      BY GoesSent DEF RoutingInv
    <2>4. Reached(k, other)'
      BY <2>2, <2>3 DEF Reached, Mentioned, Triaged, Given
    <2> QED BY <1>1, <2>1, <2>4
  <1> QED BY <1>1, <1>2, <1>3, <1>4, GoesDue, GoesTwins DEF RoutingInv

LEMMA HubIs ==
  ASSUME Shape
  PROVE  Hub \in Hubs /\ \A n, via : Sends(Hub, {}, n, via)
  BY SendsNone DEF Sends

\* Whom a single wake is for, if somebody.
LEMMA WakesOne ==
  ASSUME Shape, NEW a \in Agent, NEW task \in TaskKey, NEW n \in Nat, NEW via \in Via
  PROVE  Sends(wake(Hub, a, task, n, via), {a}, n, via)
  <1>1. Sends(Hub, {}, n, via) /\ {} \cup {a} = {a}
    BY HubIs
  <1>2. Sends(wake(Hub, a, task, n, via), {} \cup {a}, n, via)
    BY <1>1, SendsOne
  <1> QED BY <1>1, <1>2

\* The peer of a direct channel is an agent.
LEMMA PeerIs ==
  ASSUME NEW c \in Direct, c \in Channel
  PROVE  Peer(c) \in Agent /\ Peer(c) \in Members[c]
  <1>1. Members[c] \in SUBSET Agent /\ Cardinality(Members[c]) = 1
    BY MembersAssumption
  <1>2. Members[c] # {}
    BY <1>1, FS_EmptySet
  <1> QED BY <1>1, <1>2 DEF Peer

LEMMA AssigneesAre ==
  ASSUME NEW msg \in Msg
  PROVE  Assignees(msg) \subseteq Agent
  BY PeerIs DEF Assignees, Msg

LEMMA TaskKeys ==
  ASSUME Shape, NEW n \in DOMAIN msgs
  PROVE  /\ msgs[n] \in Msg /\ n \in Nat /\ n \in TaskKey /\ msgs[n].channel \in TaskKey
         /\ threadAnchor(n) \in TaskKey
         /\ msgs[n].parent # 0 => msgs[n].parent \in TaskKey
  <1>1. msgs[n] \in Msg /\ n \in Nat /\ n \in 1 .. MaxMessage
    BY MessagesAre DEF Message
  <1>2. msgs[n].channel \in Channel /\ msgs[n].parent \in 0 .. MaxMessage
    BY <1>1 DEF Msg
  <1>3. msgs[n].parent # 0 => msgs[n].parent \in 1 .. MaxMessage
    BY <1>2, BoundAssumption
  <1> QED BY <1>1, <1>2, <1>3, TaskKeyAssumption DEF threadAnchor

LEMMA ViaIs == {"message", "triage", "assign", "prune"} = Via
  BY DEF Via

\* A message sent as a task is assigned, or its manager is woken.
LEMMA HookKeeps ==
  ASSUME RoutingInv, NEW n \in DOMAIN msgs, Hook(n)
  PROVE  RoutingInv'
  <1> DEFINE old == msgs[n]
             new == [old EXCEPT !.pc = "route"]
             task(a) == [new EXCEPT !.assignee = a, !.hooked = a]
  <1>0. PICK next : next = new
    OBVIOUS
  <1>1. Shape /\ old \in Msg /\ n \in Nat /\ old.channel \in TaskKey /\ Staged(old) /\ (~cut => Reached(n, old))
    BY TaskKeys DEF RoutingInv, Stages, Delivered
  <1>2. old.pc = "hook" /\ old.sender \notin Agent /\ old.task = "open" /\ old.hand = None
    BY <1>1 DEF Hook, Staged
  <1>3. Hub \in Hubs /\ Sends(Hub, {}, n, "triage") /\ "triage" \in Via
    BY <1>1, HubIs, ViaIs
  <1>4. /\ next \in Msg /\ next.channel = old.channel /\ next.parent = old.parent /\ next.sender = old.sender
        /\ next.mentions = old.mentions /\ next.muted = old.muted /\ next.kept = old.kept
        /\ next.pc = "route" /\ next.task = "open" /\ next.assignee = old.assignee
        /\ next.hooked = old.hooked /\ next.hand = None /\ next.given = old.given
    BY <1>0, <1>1, <1>2 DEF Msg
  <1>a. PICK S : S = Assignees(old)
    OBVIOUS
  <1>b. CASE \E a \in S : Becomes(Hub, n, task(a))
    <2>1. PICK a \in S : Becomes(Hub, n, task(a))
      BY <1>b
    <2>a. PICK msg : msg = task(a)
      OBVIOUS
    <2>2. a \in Agent /\ a # None
      BY <1>1, <1>a, AssigneesAre, MembersAssumption
    <2>3. /\ msg \in Msg /\ msg.channel = old.channel /\ msg.parent = old.parent /\ msg.sender = old.sender
          /\ msg.mentions = old.mentions /\ msg.muted = old.muted /\ msg.kept = old.kept
          /\ msg.pc = "route" /\ msg.task = "open" /\ msg.assignee = a
          /\ msg.hooked = a /\ msg.hand = None /\ msg.given = old.given
      BY <1>1, <1>2, <2>2, <2>a DEF Msg
    <2>4. Becomes(Hub, n, msg)
      BY <2>1, <2>a
    <2> HIDE DEF task, new
    <2>5. Goes(n, msg, Hub, {}, "triage")
      BY <1>2, <1>3, <2>3, <2>4 DEF Goes
    <2>6. Assignees(msg) = S
      BY <1>a, <2>3 DEF Assignees
    <2>7. Staged(msg)
      BY <1>2, <2>2, <2>3, <2>6 DEF Staged
    <2>8. ~cut => Reached(n, msg)'
      <3>1. ~cut => Given(n, msg)'
        BY <1>1, <1>2, <2>3, <2>5, GoesReached
      <3>2. Triaged(n, msg)'
        BY <2>6 DEF Triaged
      <3>3. Mentioned(n, msg)'
        BY <2>3 DEF Mentioned
      <3> QED BY <3>1, <3>2, <3>3 DEF Reached
    <2> QED BY <2>3, <2>5, <2>7, <2>8, GoesKeeps
  <1> HIDE DEF new, task
  <1>5. Assignees(next) = S
    BY <1>4, <1>a DEF Assignees
  <1>6. Staged(next)
    BY <1>1, <1>2, <1>4, <1>5, <1>a DEF Staged
  <1>7. CASE S # {} /\ Becomes(Hub, n, next)
    <2>1. Goes(n, next, Hub, {}, "triage")
      BY <1>2, <1>3, <1>4, <1>7 DEF Goes
    <2>2. ~cut => Given(n, next)'
      BY <1>1, <1>2, <1>4, <2>1, GoesReached
    <2>3. Triaged(n, next)' /\ Mentioned(n, next)'
      BY <1>4, <1>5, <1>7 DEF Triaged, Mentioned
    <2>4. ~cut => Reached(n, next)'
      BY <2>2, <2>3 DEF Reached
    <2> QED BY <1>4, <1>6, <2>1, <2>4, GoesKeeps
  <1>8. CASE S = {} /\ Becomes(Triage(old, n), n, next)
    <2>1. Mentioned(n, next)'
      BY <1>4 DEF Mentioned
    <2>2. CASE Manager \in Agent \ {Sender(old)}
      <3> DEFINE h == wake(Hub, Manager, old.channel, n, "triage")
      <3>1. Sends(h, {Manager}, n, "triage")
        BY <1>1, <1>3, <2>2, WakesOne
      <3>2. Becomes(h, n, next)
        BY <1>8, <2>2 DEF Triage
      <3> HIDE DEF h
      <3>3. Goes(n, next, h, {Manager}, "triage")
        BY <1>2, <1>3, <1>4, <3>1, <3>2 DEF Goes
      <3>4. ASSUME ~cut, Manager \in next.kept PROVE Sent(n, Manager, {"triage"})'
        <4>1. Connected(Manager)
          BY <1>4, <2>2, <3>4 DEF RoutingInv, Followers
        <4> QED BY <1>1, <3>3, <4>1, GoesSent
      <3>5. ~cut => Given(n, next)'
        BY <1>1, <1>2, <1>4, <3>3, GoesReached
      <3>6. ~cut => Triaged(n, next)'
        BY <3>4 DEF Triaged
      <3>7. ~cut => Reached(n, next)'
        BY <2>1, <3>5, <3>6 DEF Reached
      <3> QED BY <1>4, <1>6, <3>3, <3>7, GoesKeeps
    <2>3. CASE Manager \notin Agent \ {Sender(old)}
      <3>1. Goes(n, next, Hub, {}, "triage")
        BY <1>2, <1>3, <1>4, <1>8, <2>3 DEF Goes, Triage
      <3>2. Sender(next) = Sender(old)
        BY <1>4 DEF Sender
      <3>3. Manager \notin next.kept \ {Sender(next)}
        BY <1>4, <2>3, <3>2 DEF Msg
      <3>4. Triaged(n, next)'
        BY <3>3 DEF Triaged
      <3>5. ~cut => Given(n, next)'
        BY <1>1, <1>2, <1>4, <3>1, GoesReached
      <3>6. ~cut => Reached(n, next)'
        BY <2>1, <3>4, <3>5 DEF Reached
      <3> QED BY <1>4, <1>6, <3>1, <3>6, GoesKeeps
    <2> QED BY <2>2, <2>3
  <1> QED BY <1>0, <1>a, <1>b, <1>7, <1>8 DEF Hook, new, task

\* A task is given to an agent, which is not woken yet.
LEMMA AssignKeeps ==
  ASSUME RoutingInv, NEW n \in DOMAIN msgs, NEW by \in Agent, NEW to \in Agent, Assign(n, by, to)
  PROVE  RoutingInv'
  <1> DEFINE old == msgs[n]
             hand == IF to = by THEN None ELSE to
             given == IF to # by /\ Connected(to) THEN to ELSE None
             new == [old EXCEPT !.assignee = to, !.task = "handed", !.hand = hand, !.given = given]
  <1>0. PICK msg : msg = new
    OBVIOUS
  <1>1. Shape /\ old \in Msg /\ n \in Nat /\ Staged(old) /\ (~cut => Reached(n, old))
    BY TaskKeys DEF RoutingInv, Stages, Delivered
  <1>2. old.pc = "done" /\ old.task = "open" /\ old.sender \notin Agent /\ to # None
    BY <1>1, MembersAssumption DEF Assign, Staged
  <1>3. /\ msg \in Msg /\ msg.channel = old.channel /\ msg.parent = old.parent /\ msg.sender = old.sender
        /\ msg.mentions = old.mentions /\ msg.muted = old.muted /\ msg.kept = old.kept
        /\ msg.pc = "done" /\ msg.task = "handed" /\ msg.assignee = to
        /\ msg.hooked = old.hooked /\ msg.hand = hand /\ msg.given = given
    BY <1>0, <1>1, <1>2 DEF Msg
  <1>4. Becomes(Hub, n, msg)
    BY <1>0 DEF Assign
  <1>5. Sends(Hub, {}, n, "assign") /\ "assign" \in Via
    BY <1>1, HubIs, ViaIs
  <1>a. /\ hand # None => given \in {None, hand}
        /\ given = None \/ Connected(given)
        /\ given # None => hand # None
    BY <1>2
  <1> HIDE DEF new, hand, given
  <1>6. Goes(n, msg, Hub, {}, "assign")
    BY <1>2, <1>3, <1>4, <1>5 DEF Goes
  <1>7. Staged(msg)
    <2>1. Assignees(msg) = Assignees(old)
      BY <1>3 DEF Assignees
    <2> QED BY <1>1, <1>2, <1>3, <1>a, <2>1 DEF Staged
  <1>8. ~cut => Reached(n, msg)'
    <2>1. ~cut => Mentioned(n, msg)' /\ Triaged(n, msg)'
      BY <1>1, <1>2, <1>6, GoesReached
    <2>2. Given(n, msg)'
      BY <1>3, <1>a DEF Given
    <2> QED BY <2>1, <2>2 DEF Reached
  <1> QED BY <1>3, <1>6, <1>7, <1>8, <1>a, GoesKeeps

\* The agent to whom a task was given is woken.
LEMMA HandOverKeeps ==
  ASSUME RoutingInv, NEW n \in DOMAIN msgs, HandOver(n)
  PROVE  RoutingInv'
  <1> DEFINE old == msgs[n]
             new == [old EXCEPT !.hand = None]
             a == old.hand
             h == wake(Hub, a, old.channel, n, "assign")
  <1>0. PICK msg : msg = new
    OBVIOUS
  <1>1. Shape /\ old \in Msg /\ n \in Nat /\ old.channel \in TaskKey /\ Staged(old) /\ (~cut => Reached(n, old))
    BY TaskKeys DEF RoutingInv, Stages, Delivered
  <1>2. /\ old.pc = "done" /\ old.task # "none" /\ old.sender \notin Agent
        /\ a \in Agent /\ old.given \in {None, a}
    BY <1>1 DEF HandOver, Staged, Msg
  <1>3. /\ msg \in Msg /\ msg.channel = old.channel /\ msg.parent = old.parent /\ msg.sender = old.sender
        /\ msg.mentions = old.mentions /\ msg.muted = old.muted /\ msg.kept = old.kept
        /\ msg.pc = "done" /\ msg.task = old.task /\ msg.assignee = old.assignee
        /\ msg.hooked = old.hooked /\ msg.hand = None /\ msg.given = old.given
    BY <1>0, <1>1, <1>2 DEF Msg
  <1>4. Becomes(h, n, msg)
    BY <1>0 DEF HandOver
  <1>5. Sends(h, {a}, n, "assign") /\ "assign" \in Via
    BY <1>1, <1>2, WakesOne, ViaIs
  <1> HIDE DEF new, h
  <1>6. Goes(n, msg, h, {a}, "assign")
    BY <1>2, <1>3, <1>4, <1>5 DEF Goes
  <1>7. Staged(msg)
    <2>1. Assignees(msg) = Assignees(old)
      BY <1>3 DEF Assignees
    <2> QED BY <1>1, <1>2, <1>3, <2>1 DEF Staged
  <1>8. ~cut => Reached(n, msg)'
    <2>1. ~cut => Mentioned(n, msg)' /\ Triaged(n, msg)'
      BY <1>1, <1>2, <1>6, GoesReached
    <2>2. ASSUME ~cut, msg.given # None PROVE Sent(n, msg.given, {"assign"})'
      <3>1. msg.given = a /\ Connected(a)
        BY <1>2, <1>3, <2>2 DEF RoutingInv, Followers
      <3>2. msg.given \in {a} /\ Connected(msg.given)
        BY <3>1
      <3> QED BY <1>1, <1>6, <3>2, GoesSent
    <2>3. ~cut => Given(n, msg)'
      BY <2>2 DEF Given
    <2> QED BY <2>1, <2>3 DEF Reached
  <1> QED BY <1>3, <1>6, <1>7, <1>8, GoesKeeps

\* A task is done.
LEMMA DoneKeeps ==
  ASSUME RoutingInv, NEW n \in DOMAIN msgs, Done(n)
  PROVE  RoutingInv'
  <1> DEFINE old == msgs[n]
             new == [old EXCEPT !.task = IF old.assignee = None THEN "done" ELSE "prune"]
  <1>0. PICK msg : msg = new
    OBVIOUS
  <1>1. Shape /\ old \in Msg /\ n \in Nat /\ Staged(old) /\ (~cut => Reached(n, old))
    BY TaskKeys DEF RoutingInv, Stages, Delivered
  <1>2. old.pc = "done" /\ old.task # "none" /\ old.sender \notin Agent
    BY <1>1 DEF Done, Staged
  <1>3. /\ msg \in Msg /\ msg.channel = old.channel /\ msg.parent = old.parent /\ msg.sender = old.sender
        /\ msg.mentions = old.mentions /\ msg.muted = old.muted /\ msg.kept = old.kept
        /\ msg.pc = "done" /\ msg.assignee = old.assignee
        /\ msg.task = IF old.assignee = None THEN "done" ELSE "prune"
        /\ msg.hooked = old.hooked /\ msg.hand = old.hand /\ msg.given = old.given
    BY <1>0, <1>1, <1>2 DEF Msg
  <1>4. Becomes(Hub, n, msg)
    BY <1>0 DEF Done
  <1>5. Sends(Hub, {}, n, "prune") /\ "prune" \in Via
    BY <1>1, HubIs, ViaIs
  <1> HIDE DEF new
  <1>6. Goes(n, msg, Hub, {}, "prune")
    BY <1>2, <1>3, <1>4, <1>5 DEF Goes
  <1>7. Staged(msg)
    <2>1. Assignees(msg) = Assignees(old)
      BY <1>3 DEF Assignees
    <2> QED BY <1>1, <1>2, <1>3, <2>1 DEF Staged
  <1>8. ~cut => Reached(n, msg)'
    BY <1>1, <1>2, <1>3, <1>6, GoesReached DEF Reached
  <1> QED BY <1>3, <1>6, <1>7, <1>8, GoesKeeps

\* The agent of a finished task is woken to tidy up.
LEMMA PruneKeeps ==
  ASSUME RoutingInv, NEW n \in DOMAIN msgs, Prune(n)
  PROVE  RoutingInv'
  <1> DEFINE old == msgs[n]
             new == [old EXCEPT !.task = "done"]
             a == old.assignee
             h == wake(Hub, a, n, n, "prune")
  <1>0. PICK msg : msg = new
    OBVIOUS
  <1>1. Shape /\ old \in Msg /\ n \in Nat /\ n \in TaskKey /\ Staged(old) /\ (~cut => Reached(n, old))
    BY TaskKeys DEF RoutingInv, Stages, Delivered
  <1>2. old.task = "prune" /\ old.sender \notin Agent /\ a \in Agent /\ a # None /\ old.pc # "hook"
    BY <1>1 DEF Prune, Staged, Msg
  <1>3. /\ msg \in Msg /\ msg.channel = old.channel /\ msg.parent = old.parent /\ msg.sender = old.sender
        /\ msg.mentions = old.mentions /\ msg.muted = old.muted /\ msg.kept = old.kept
        /\ msg.pc = old.pc /\ msg.assignee = a /\ msg.task = "done"
        /\ msg.hooked = old.hooked /\ msg.hand = old.hand /\ msg.given = old.given
    BY <1>0, <1>1, <1>2 DEF Msg
  <1>4. Becomes(h, n, msg)
    BY <1>0 DEF Prune
  <1>5. Sends(h, {a}, n, "prune") /\ "prune" \in Via
    BY <1>1, <1>2, WakesOne, ViaIs
  <1> HIDE DEF new, h
  <1>6. Goes(n, msg, h, {a}, "prune")
    BY <1>2, <1>3, <1>4, <1>5 DEF Goes
  <1>7. Staged(msg)
    <2>1. Assignees(msg) = Assignees(old)
      BY <1>3 DEF Assignees
    <2> QED BY <1>1, <1>2, <1>3, <2>1 DEF Staged
  <1>8. ~cut => Reached(n, msg)'
    <2>1. ~cut => /\ old.pc \in {"peer", "done"} => Mentioned(n, msg)'
                  /\ Triaged(n, msg)' /\ Given(n, msg)'
      BY <1>1, <1>2, <1>3, <1>6, GoesReached
    <2>2. old.pc \notin {"peer", "done"} => Mentioned(n, msg)'
      BY <1>3 DEF Mentioned
    <2> QED BY <2>1, <2>2 DEF Reached
  <1> QED BY <1>3, <1>6, <1>7, <1>8, GoesKeeps

\* A message is routed: all whom it mentions and who follow are among those woken.
LEMMA RouteKeeps ==
  ASSUME RoutingInv, NEW n \in DOMAIN msgs, Route(n)
  PROVE  RoutingInv'
  <1> DEFINE old == msgs[n]
             step == IF old.sender \in Human /\ old.channel \in Direct THEN "peer" ELSE "done"
             new == [old EXCEPT !.pc = step]
             ts == Targets(old)
             S == ToSet(ts)
             h == hubs(ts, threadAnchor(n), n)[Len(ts)]
  <1>0. PICK msg : msg = new
    OBVIOUS
  <1>1. Shape /\ old \in Msg /\ n \in Nat /\ threadAnchor(n) \in TaskKey /\ Staged(old) /\ (~cut => Reached(n, old))
    BY TaskKeys DEF RoutingInv, Stages, Delivered
  <1>2. old.pc = "route"
    BY DEF Route
  <1>3. /\ msg \in Msg /\ msg.channel = old.channel /\ msg.parent = old.parent /\ msg.sender = old.sender
        /\ msg.mentions = old.mentions /\ msg.muted = old.muted /\ msg.kept = old.kept
        /\ msg.pc = step /\ msg.assignee = old.assignee /\ msg.task = old.task
        /\ msg.hooked = old.hooked /\ msg.hand = old.hand /\ msg.given = old.given
    BY <1>0, <1>1, <1>2 DEF Msg
  <1>4. Becomes(h, n, msg)
    BY <1>0 DEF Route
  <1>5. /\ ts \in Seq(Agent) /\ IsInjective(ts)
        /\ S = ((old.mentions \cup Broadcast(old)) \ {old.sender}) \ Muted(old)
    BY <1>1, TargetsAre
  <1>6. Sends(h, S, n, "message") /\ "message" \in Via
    <2> HIDE DEF ts
    <2> QED BY <1>1, <1>5, SendsAll, ViaIs
  <1>7. old.sender \in Agent => Broadcast(old) = {} /\ step = "done"
    BY MembersAssumption DEF Broadcast
  <1>8. \A a \in Agent : /\ a \in old.muted => a \in Muted(old)
                         /\ a \in old.kept => a \notin Muted(old)
                         /\ ~cut /\ a \in old.kept => Connected(a)
    BY <1>2 DEF RoutingInv, Followers, Muted
  <1>9. step \in {"peer", "done"} /\ (step = "peer" => old.sender \in Human /\ old.channel \in Direct)
        /\ (step = "done" => ~(old.sender \in Human /\ old.channel \in Direct))
    OBVIOUS
  <1> HIDE DEF new, h, S, ts, step
  <1>10. Goes(n, msg, h, S, "message")
    <2>1. msg.sender \in Agent => S \subseteq msg.mentions \ {msg.sender}
      BY <1>3, <1>5, <1>7
    <2>2. S \cap msg.muted = {}
      BY <1>1, <1>3, <1>5, <1>8 DEF Msg
    <2> QED BY <1>2, <1>3, <1>4, <1>6, <1>9, <2>1, <2>2 DEF Goes
  <1>11. Staged(msg)
    <2>1. Assignees(msg) = Assignees(old)
      BY <1>3 DEF Assignees
    <2> QED BY <1>1, <1>2, <1>3, <1>7, <1>9, <2>1 DEF Staged
  <1>12. ~cut => Reached(n, msg)'
    <2> SUFFICES ASSUME ~cut PROVE Reached(n, msg)'
      OBVIOUS
    <2>1. ASSUME NEW a \in Addressed(msg) \cap msg.kept PROVE Sent(n, a, {"message"})'
      <3>1. Addressed(msg) = (old.mentions \cup Broadcast(old)) \ {old.sender}
        BY <1>3 DEF Addressed, Broadcast
      <3>2. a \in Agent
        BY <1>3, <2>1 DEF Msg
      <3>3. a \in S /\ Connected(a)
        BY <1>3, <1>5, <1>8, <2>1, <3>1, <3>2
      <3> QED BY <1>1, <1>10, <3>3, GoesSent
    <2>2. Mentioned(n, msg)'
      BY <2>1 DEF Mentioned
    <2>3. old.task # "none" => Triaged(n, msg)'
      BY <1>1, <1>2, <1>10, GoesReached
    <2>4. old.task = "none" => Triaged(n, msg)'
      BY <1>3 DEF Triaged
    <2>5. Given(n, msg)'
      BY <1>1, <1>3, <1>10, GoesReached
    <2> QED BY <2>2, <2>3, <2>4, <2>5 DEF Reached
  <1> QED BY <1>3, <1>10, <1>11, <1>12, GoesKeeps

\* The peer of a direct channel is woken once more, if it has not the sender's name.
LEMMA WakePeerKeeps ==
  ASSUME RoutingInv, NEW n \in DOMAIN msgs, WakePeer(n)
  PROVE  RoutingInv'
  <1> DEFINE old == msgs[n]
             new == [old EXCEPT !.pc = "done"]
             key == IF old.parent # 0 THEN old.parent ELSE old.channel
  <1>0. PICK msg : msg = new
    OBVIOUS
  <1>a. PICK a : a = Peer(old.channel)
    OBVIOUS
  <1> DEFINE named == Namesake[old.sender] = a
             h == IF named THEN Hub ELSE wake(Hub, a, key, n, "message")
             S == IF named THEN {} ELSE {a}
  <1>1. Shape /\ old \in Msg /\ n \in Nat /\ key \in TaskKey /\ Staged(old) /\ (~cut => Reached(n, old))
    BY TaskKeys DEF RoutingInv, Stages, Delivered
  <1>2. old.pc = "peer" /\ old.sender \in Human /\ old.sender \notin Agent /\ old.channel \in Direct
    BY <1>1, MembersAssumption DEF WakePeer, Staged
  <1>3. /\ msg \in Msg /\ msg.channel = old.channel /\ msg.parent = old.parent /\ msg.sender = old.sender
        /\ msg.mentions = old.mentions /\ msg.muted = old.muted /\ msg.kept = old.kept
        /\ msg.pc = "done" /\ msg.assignee = old.assignee /\ msg.task = old.task
        /\ msg.hooked = old.hooked /\ msg.hand = old.hand /\ msg.given = old.given
    BY <1>0, <1>1, <1>2 DEF Msg
  <1>4. a \in Agent
    BY <1>1, <1>2, <1>a, PeerIs DEF Msg
  <1>5. Becomes(h, n, msg)
    BY <1>0, <1>a DEF WakePeer
  <1>6. Sends(h, S, n, "message") /\ "message" \in Via
    <2> HIDE DEF key
    <2> QED BY <1>1, <1>4, HubIs, WakesOne, ViaIs
  <1> HIDE DEF new, h, key, S
  <1>7. Goes(n, msg, h, S, "message")
    BY <1>2, <1>3, <1>5, <1>6 DEF Goes
  <1>8. Staged(msg)
    <2>1. Assignees(msg) = Assignees(old)
      BY <1>3 DEF Assignees
    <2> QED BY <1>1, <1>2, <1>3, <2>1 DEF Staged
  <1>9. ~cut => Reached(n, msg)'
    <2> SUFFICES ASSUME ~cut PROVE Reached(n, msg)'
      OBVIOUS
    <2>1. Mentioned(n, msg)' /\ Given(n, msg)' /\ (old.task # "none" => Triaged(n, msg)')
      BY <1>1, <1>2, <1>3, <1>7, GoesReached
    <2>2. old.task = "none" => Triaged(n, msg)'
      BY <1>3 DEF Triaged
    <2> QED BY <2>1, <2>2 DEF Reached
  <1> QED BY <1>3, <1>7, <1>8, <1>9, GoesKeeps

-----------------------------------------------------------------------------
(* The steps that send nothing.                                            *)

\* Wakes and handlers stay what they were, and the messages ask for no less.
Calm ==
    /\ wire' = wire
    /\ DOMAIN run' = DOMAIN run
    /\ \A i \in DOMAIN run : run'[i].msg = run[i].msg /\ run'[i].agent = run[i].agent /\ run'[i].via = run[i].via
    /\ DOMAIN msgs \subseteq DOMAIN msgs'
    /\ \A n \in DOMAIN msgs :
          /\ msgs'[n].channel = msgs[n].channel /\ msgs'[n].sender = msgs[n].sender
          /\ msgs'[n].mentions = msgs[n].mentions /\ msgs'[n].pc = msgs[n].pc
          /\ msgs'[n].muted \subseteq msgs[n].muted

LEMMA CalmKeeps ==
  ASSUME RoutingInv, Calm
  PROVE  /\ AllDue' /\ NoTwins'
         /\ \A n, a, vias : Sent(n, a, vias) => Sent(n, a, vias)'
  <1>1. ASSUME NEW w, NEW v, Due(w, msgs), v.msg = w.msg, v.agent = w.agent, v.via = w.via
        PROVE  Due(v, msgs')
    BY <1>1 DEF Due, Calm
  <1>2. AllDue'
    <2>1. ASSUME NEW m \in Machine, NEW k \in DOMAIN wire'[m] PROVE Due(wire'[m][k], msgs')
      BY <1>1 DEF Calm, RoutingInv, AllDue
    <2>2. ASSUME NEW i \in DOMAIN run' PROVE Due(run'[i], msgs')
      BY <1>1 DEF Calm, RoutingInv, AllDue
    <2> QED BY <2>1, <2>2 DEF AllDue
  <1>3. ASSUME NEW v, NEW w, NEW x, NEW y, Due(v, msgs), Twins(x, y, msgs'),
               x.msg = v.msg, x.agent = v.agent, x.via = v.via, y.msg = w.msg, y.agent = w.agent, y.via = w.via
        PROVE  Twins(v, w, msgs)
    BY <1>3 DEF Twins, Due, Calm
  <1>4. NoTwins'
    <2>1. /\ \A m \in Machine : \A k \in DOMAIN wire[m] : Due(wire[m][k], msgs)
          /\ \A i \in DOMAIN run : Due(run[i], msgs)
      BY DEF RoutingInv, AllDue
    <2>2. ASSUME NEW m \in Machine, NEW o \in Machine, NEW k \in DOMAIN wire'[m], NEW l \in DOMAIN wire'[o],
                 Twins(wire'[m][k], wire'[o][l], msgs')
          PROVE  m = o /\ k = l
      <3>1. k \in DOMAIN wire[m] /\ l \in DOMAIN wire[o] /\ wire'[m][k] = wire[m][k] /\ wire'[o][l] = wire[o][l]
        BY DEF Calm
      <3>2. Twins(wire[m][k], wire[o][l], msgs)
        BY <1>3, <2>1, <2>2, <3>1
      <3> QED BY <3>1, <3>2 DEF RoutingInv, NoTwins
    <2>3. ASSUME NEW m \in Machine, NEW k \in DOMAIN wire'[m], NEW i \in DOMAIN run', Twins(wire'[m][k], run'[i], msgs')
          PROVE  FALSE
      <3>1. k \in DOMAIN wire[m] /\ wire'[m][k] = wire[m][k] /\ i \in DOMAIN run
            /\ run'[i].msg = run[i].msg /\ run'[i].agent = run[i].agent /\ run'[i].via = run[i].via
        BY DEF Calm
      <3>2. Twins(wire[m][k], run[i], msgs)
        BY <1>3, <2>1, <2>3, <3>1
      <3> QED BY <3>1, <3>2 DEF RoutingInv, NoTwins
    <2>4. ASSUME NEW i \in DOMAIN run', NEW j \in DOMAIN run', Twins(run'[i], run'[j], msgs')
          PROVE  i = j
      <3>1. /\ i \in DOMAIN run /\ run'[i].msg = run[i].msg /\ run'[i].agent = run[i].agent /\ run'[i].via = run[i].via
            /\ j \in DOMAIN run /\ run'[j].msg = run[j].msg /\ run'[j].agent = run[j].agent /\ run'[j].via = run[j].via
        BY DEF Calm
      <3>2. Twins(run[i], run[j], msgs)
        BY <1>3, <2>1, <2>4, <3>1
      <3> QED BY <3>1, <3>2 DEF RoutingInv, NoTwins
    <2> QED BY <2>2, <2>3, <2>4 DEF NoTwins
  <1>5. ASSUME NEW n, NEW a, NEW vias, Sent(n, a, vias) PROVE Sent(n, a, vias)'
    <2>1. Handled(n, a, vias) # {} => Handled(n, a, vias)' # {}
      BY DEF Handled, Calm
    <2> QED BY <1>5, <2>1 DEF Sent, Calm
  <1> QED BY <1>2, <1>4, <1>5

LEMMA PostKeeps ==
  ASSUME RoutingInv, NEW c \in Channel, NEW p \in 0 .. MaxMessage, NEW s \in Human \cup Agent,
         NEW T \in SUBSET Agent, NEW asTask \in BOOLEAN, s \in Agent => ~asTask, Post(c, p, s, T, asTask)
  PROVE  RoutingInv'
  <1> DEFINE l == Len(msgs)
             new == [channel |-> c, parent |-> p, sender |-> s, mentions |-> T,
                     pc |-> IF asTask THEN "hook" ELSE "route", task |-> IF asTask THEN "open" ELSE "none",
                     assignee |-> None, hand |-> None, hooked |-> None, given |-> None,
                     muted |-> {a \in Agent : <<a, p>> \in unfollowed},
                     kept |-> {a \in Agent : <<a, p>> \notin unfollowed /\ Connected(a)}]
  <1>1. Shape /\ l \in Nat /\ DOMAIN msgs = 1 .. l /\ l < MaxMessage /\ MaxMessage \in Nat
    BY MessagesAre, BoundAssumption DEF RoutingInv, Post
  <1>2. msgs' = Append(msgs, new) /\ UNCHANGED <<wire, run, online, rr, unfollowed, cut>>
    BY DEF Post, daemonVars
  <1>0. PICK x : x = new
    OBVIOUS
  <1>3. /\ x \in Msg /\ x.sender = s /\ x.parent = p
        /\ x.assignee = None /\ x.hand = None /\ x.hooked = None /\ x.given = None
        /\ x.pc = (IF asTask THEN "hook" ELSE "route") /\ x.task = (IF asTask THEN "open" ELSE "none")
        /\ x.muted = {a \in Agent : <<a, p>> \in unfollowed}
        /\ x.kept = {a \in Agent : <<a, p>> \notin unfollowed /\ Connected(a)}
    BY <1>0 DEF Msg
  <1>4. msgs' = Append(msgs, x)
    BY <1>0, <1>2
  <1> HIDE DEF new
  <1>5. /\ msgs' \in Seq(Msg) /\ Len(msgs') = l + 1 /\ DOMAIN msgs' = 1 .. l + 1
        /\ msgs'[l + 1] = x /\ \A n \in DOMAIN msgs : msgs'[n] = msgs[n]
    <2>1. msgs \in Seq(Msg)
      BY <1>1 DEF Shape
    <2> QED BY <1>1, <1>3, <1>4, <2>1
  <1>6. DOMAIN msgs' = DOMAIN msgs \cup {l + 1}
    BY <1>1, <1>5
  <1>7. Shape'
    BY <1>1, <1>2, <1>5 DEF Shape
  <1>8. Calm
    BY <1>2, <1>5, <1>6 DEF Calm
  <1>9. Stages'
    <2>1. Staged(x)
      BY <1>3, MembersAssumption DEF Staged
    <2> QED BY <1>5, <1>6, <2>1 DEF RoutingInv, Stages
  <1>10. Followers'
    <2>1. \A a : Connected(a)' <=> Connected(a)
      BY <1>2 DEF Connected
    <2>2. ASSUME NEW n \in DOMAIN msgs', NEW a \in Agent
          PROVE  /\ msgs'[n].pc # "done" /\ a \in msgs'[n].muted => <<a, msgs'[n].parent>> \in unfollowed
                 /\ msgs'[n].pc # "done" /\ a \in msgs'[n].kept => <<a, msgs'[n].parent>> \notin unfollowed
                 /\ ~cut /\ (a \in msgs'[n].kept \/ a = msgs'[n].given) => Connected(a)
      <3>1. CASE n \in DOMAIN msgs
        BY <1>5, <3>1 DEF RoutingInv, Followers
      <3>2. CASE n = l + 1
        BY <1>3, <1>5, <3>2, MembersAssumption
      <3> QED BY <1>6, <3>1, <3>2
    <2> QED BY <1>2, <2>1, <2>2 DEF Followers
  <1>11. Delivered'
    <2>1. PICK e : e = l + 1
      OBVIOUS
    <2>2. Reached(e, x)'
      BY <1>3 DEF Reached, Mentioned, Triaged, Given
    <2>3. ASSUME ~cut, NEW n \in DOMAIN msgs PROVE Reached(n, msgs[n])'
      <3>1. PICK y : y = msgs[n]
        OBVIOUS
      <3>2. Reached(n, y)
        BY <2>3, <3>1 DEF RoutingInv, Delivered
      <3>3. Reached(n, y)'
        BY <1>8, <3>2, CalmKeeps DEF Reached, Mentioned, Triaged, Given
      <3> QED BY <1>5, <3>1, <3>3
    <2> QED BY <1>2, <1>5, <1>6, <2>1, <2>2, <2>3 DEF Delivered
  <1> QED BY <1>7, <1>8, <1>9, <1>10, <1>11, CalmKeeps DEF RoutingInv

\* The message as it was, but that it may keep or mute fewer agents.
AsksLess(new, old) ==
    /\ new \in Msg
    /\ new.channel = old.channel /\ new.parent = old.parent /\ new.sender = old.sender /\ new.mentions = old.mentions
    /\ new.pc = old.pc /\ new.task = old.task /\ new.assignee = old.assignee
    /\ new.hand = old.hand /\ new.hooked = old.hooked /\ new.given = old.given
    /\ new.muted \subseteq old.muted /\ new.kept \subseteq old.kept

LEMMA AskingLess ==
  ASSUME NEW x, x \in Msg, NEW b
  PROVE  /\ AsksLess([x EXCEPT !.kept = x.kept \ {b}], x)
         /\ AsksLess([x EXCEPT !.muted = x.muted \ {b}], x)
         /\ AsksLess(x, x)
  BY DEF AsksLess, Msg

\* An agent leaves a thread or comes back: the messages that are still to be
\* routed keep it no more, or it is muted for them no more.
LEMMA ThreadKeeps ==
  ASSUME RoutingInv, NEW b \in Agent, NEW q \in Message, Unfollow(b, q) \/ Follow(b, q)
  PROVE  RoutingInv'
  <1>1. Shape /\ msgs \in Seq(Msg) /\ Len(msgs) \in Nat /\ DOMAIN msgs = 1 .. Len(msgs) /\ Len(msgs) <= MaxMessage
        /\ \A n \in DOMAIN msgs : msgs[n] \in Msg
    BY MessagesAre DEF RoutingInv, Shape
  <1>2. UNCHANGED <<wire, run, online, rr, cut>>
    BY DEF Unfollow, Follow, daemonVars
  <1>3. \E g : /\ msgs' = [k \in DOMAIN msgs |-> g[k]]
               /\ \A n \in DOMAIN msgs : AsksLess(g[n], msgs[n])
    <2>1. CASE Unfollow(b, q)
      <3> DEFINE left(k) == [msgs[k] EXCEPT !.kept = msgs[k].kept \ {b}]
                 g == [k \in DOMAIN msgs |-> IF msgs[k].parent = q /\ msgs[k].pc # "done" THEN left(k) ELSE msgs[k]]
      <3>1. msgs' = g
        BY <2>1 DEF Unfollow
      <3>2. ASSUME NEW n \in DOMAIN msgs PROVE AsksLess(left(n), msgs[n]) /\ AsksLess(msgs[n], msgs[n])
        BY <1>1, AskingLess
      <3> HIDE DEF left
      <3>3. \A n \in DOMAIN msgs : AsksLess(g[n], msgs[n])
        BY <3>2
      <3> QED BY <3>1, <3>3
    <2>2. CASE Follow(b, q)
      <3> DEFINE back(k) == [msgs[k] EXCEPT !.muted = msgs[k].muted \ {b}]
                 g == [k \in DOMAIN msgs |-> IF msgs[k].parent = q /\ msgs[k].pc # "done" THEN back(k) ELSE msgs[k]]
      <3>1. msgs' = g
        BY <2>2 DEF Follow
      <3>2. ASSUME NEW n \in DOMAIN msgs PROVE AsksLess(back(n), msgs[n]) /\ AsksLess(msgs[n], msgs[n])
        BY <1>1, AskingLess
      <3> HIDE DEF back
      <3>3. \A n \in DOMAIN msgs : AsksLess(g[n], msgs[n])
        BY <3>2
      <3> QED BY <3>1, <3>3
    <2> QED BY <2>1, <2>2
  <1>4. /\ DOMAIN msgs' = DOMAIN msgs /\ \A n \in DOMAIN msgs : AsksLess(msgs'[n], msgs[n])
        /\ msgs' \in Seq(Msg) /\ Len(msgs') = Len(msgs)
    <2>1. DOMAIN msgs' = DOMAIN msgs /\ \A n \in DOMAIN msgs : AsksLess(msgs'[n], msgs[n])
      BY <1>3
    <2>2. msgs' \in [1 .. Len(msgs) -> Msg]
      BY <1>1, <1>3 DEF AsksLess
    <2> QED BY <1>1, <2>1, <2>2
  <1>5. Calm
    BY <1>2, <1>4 DEF Calm, AsksLess
  <1>6. Shape'
    <2>1. unfollowed' \subseteq Agent \X Message
      BY <1>1 DEF Shape, Unfollow, Follow
    <2> QED BY <1>1, <1>2, <1>4, <2>1 DEF Shape
  <1>7. Stages'
    <2>1. ASSUME NEW n \in DOMAIN msgs PROVE Staged(msgs'[n])
      <3>1. PICK x : x = msgs'[n]
        OBVIOUS
      <3>2. Staged(msgs[n]) /\ AsksLess(x, msgs[n])
        BY <1>4, <3>1 DEF RoutingInv, Stages
      <3>3. Assignees(x) = Assignees(msgs[n])
        BY <3>2 DEF Assignees, AsksLess
      <3>4. Staged(x)
        BY <3>2, <3>3 DEF Staged, AsksLess
      <3> QED BY <3>1, <3>4
    <2> QED BY <1>4, <2>1 DEF Stages
  <1>8. Followers'
    <2> SUFFICES ASSUME NEW n \in DOMAIN msgs, NEW a \in Agent
                 PROVE  /\ msgs'[n].pc # "done" /\ a \in msgs'[n].muted => <<a, msgs'[n].parent>> \in unfollowed'
                        /\ msgs'[n].pc # "done" /\ a \in msgs'[n].kept => <<a, msgs'[n].parent>> \notin unfollowed'
                        /\ ~cut' /\ (a \in msgs'[n].kept \/ a = msgs'[n].given) => Connected(a)'
      BY <1>4 DEF Followers
    <2>1. /\ msgs[n].pc # "done" /\ a \in msgs[n].muted => <<a, msgs[n].parent>> \in unfollowed
          /\ msgs[n].pc # "done" /\ a \in msgs[n].kept => <<a, msgs[n].parent>> \notin unfollowed
          /\ ~cut /\ (a \in msgs[n].kept \/ a = msgs[n].given) => Connected(a)
      BY DEF RoutingInv, Followers
    <2>2. Connected(a)' <=> Connected(a)
      BY <1>2 DEF Connected
    <2>3. msgs[n].parent = q /\ msgs[n].pc # "done" =>
             /\ Unfollow(b, q) => b \notin msgs'[n].kept
             /\ Follow(b, q) => b \notin msgs'[n].muted
      BY <1>1 DEF Unfollow, Follow, Msg
    <2>4. /\ Unfollow(b, q) => unfollowed' = unfollowed \cup {<<b, q>>}
          /\ Follow(b, q) => unfollowed' = unfollowed \ {<<b, q>>}
      BY DEF Unfollow, Follow
    <2> QED BY <1>2, <1>4, <2>1, <2>2, <2>3, <2>4 DEF AsksLess
  <1>9. Delivered'
    <2>1. ASSUME ~cut, NEW n \in DOMAIN msgs PROVE Reached(n, msgs[n])'
      <3>1. PICK x : x = msgs'[n]
        OBVIOUS
      <3>2. Reached(n, msgs[n])
        BY <2>1 DEF RoutingInv, Delivered
      <3>3. /\ x.channel = msgs[n].channel /\ x.sender = msgs[n].sender /\ x.mentions = msgs[n].mentions
            /\ x.pc = msgs[n].pc /\ x.task = msgs[n].task /\ x.assignee = msgs[n].assignee
            /\ x.kept \subseteq msgs[n].kept /\ x.hand = msgs[n].hand /\ x.given = msgs[n].given
        BY <1>4, <3>1 DEF AsksLess
      <3>6. /\ Addressed(x) = Addressed(msgs[n]) /\ Assignees(x) = Assignees(msgs[n])
            /\ Sender(x) = Sender(msgs[n])
        BY <3>3 DEF Addressed, Broadcast, Assignees, Sender
      <3>4. Reached(n, x)
        BY <3>2, <3>3, <3>6 DEF Reached, Mentioned, Triaged, Given
      <3>5. Reached(n, x)'
        BY <1>5, <3>4, CalmKeeps DEF Reached, Mentioned, Triaged, Given
      <3> QED BY <3>1, <3>5
    <2> QED BY <1>2, <1>4, <2>1 DEF Delivered
  <1> QED BY <1>5, <1>6, <1>7, <1>8, <1>9, CalmKeeps DEF RoutingInv

\* A daemon connects; those who were connected still are.
LEMMA RegisterKeeps ==
  ASSUME RoutingInv, NEW m \in Machine, Register(m)
  PROVE  RoutingInv'
  <1>1. Shape /\ online \in Seq(Machine)
    BY DEF RoutingInv, Shape
  <1>2. UNCHANGED <<wire, run, msgs, rr, unfollowed, cut>> /\ online' = Append(online, m)
    BY DEF Register, daemonVars
  <1>3. online' \in Seq(Machine) /\ online' # <<>> /\ ToSet(online) \subseteq ToSet(online')
    BY <1>1, <1>2 DEF ToSet
  <1>4. \A a : Connected(a) => Connected(a)'
    BY <1>3 DEF Connected
  <1>5. Calm
    BY <1>2 DEF Calm
  <1>6. Shape' /\ Stages'
    BY <1>1, <1>2, <1>3 DEF RoutingInv, Shape, Stages
  <1>7. Followers'
    BY <1>2, <1>4 DEF RoutingInv, Followers
  <1>8. Delivered'
    <2>1. ASSUME ~cut, NEW n \in DOMAIN msgs PROVE Reached(n, msgs[n])'
      <3>1. Reached(n, msgs[n])
        BY <2>1 DEF RoutingInv, Delivered
      <3> QED BY <1>2, <1>5, <3>1, CalmKeeps DEF Reached, Mentioned, Triaged, Given
    <2> QED BY <1>2, <2>1 DEF Delivered
  <1> QED BY <1>5, <1>6, <1>7, <1>8, CalmKeeps DEF RoutingInv

LEMMA WithoutIs ==
  ASSUME Shape, NEW m
  PROVE  Without(m) \in Seq(Machine)
  <1>1. online \in Seq(Machine) /\ Len(online) \in Nat /\ DOMAIN online = 1 .. Len(online)
    BY DEF Shape
  <1>2. CASE m \in ToSet(online)
    <2>1. PICK i : i = CHOOSE j \in DOMAIN online : online[j] = m
      OBVIOUS
    <2>2. i \in 1 .. Len(online)
      BY <1>1, <1>2, <2>1 DEF ToSet
    <2>3. Without(m) = SubSeq(online, 1, i - 1) \o SubSeq(online, i + 1, Len(online))
      BY <1>2, <2>1 DEF Without, RemoveAt
    <2>4. SubSeq(online, 1, i - 1) \in Seq(Machine) /\ SubSeq(online, i + 1, Len(online)) \in Seq(Machine)
      BY <1>1, <2>2
    <2> QED BY <2>3, <2>4
  <1> QED BY <1>1, <1>2 DEF Without

\* A connection or a daemon is lost, with the wakes on their way.
LEMMA CutKeeps ==
  ASSUME RoutingInv, NEW m \in Machine, wire' = [wire EXCEPT ![m] = <<>>], cut' = TRUE,
         run' \in Seq(Run), DOMAIN run' = DOMAIN run,
         \A i \in DOMAIN run : run'[i].msg = run[i].msg /\ run'[i].agent = run[i].agent /\ run'[i].via = run[i].via,
         online' = Without(m), UNCHANGED <<msgs, rr, unfollowed>>
  PROVE  RoutingInv'
  <1>1. Shape /\ Shape'
    <2>1. <<>> \in Seq(Wake)
      OBVIOUS
    <2>2. wire' \in [Machine -> Seq(Wake)]
      BY <2>1 DEF RoutingInv, Shape
    <2> QED BY <2>2, WithoutIs DEF RoutingInv, Shape
  <1>2. Stages' /\ Followers' /\ Delivered'
    BY DEF RoutingInv, Stages, Followers, Delivered
  <1>3. \A o \in Machine : \A k \in DOMAIN wire'[o] : k \in DOMAIN wire[o] /\ wire'[o][k] = wire[o][k]
    <2>1. wire \in [Machine -> Seq(Wake)]
      BY <1>1 DEF Shape
    <2>2. wire'[m] = <<>> /\ \A o \in Machine \ {m} : wire'[o] = wire[o]
      BY <2>1
    <2>3. DOMAIN wire'[m] = {}
      BY <2>2
    <2> QED BY <2>2, <2>3
  <1>4. AllDue'
    <2>1. ASSUME NEW o \in Machine, NEW k \in DOMAIN wire'[o] PROVE Due(wire'[o][k], msgs')
      BY <1>3 DEF RoutingInv, AllDue
    <2>2. ASSUME NEW i \in DOMAIN run' PROVE Due(run'[i], msgs')
      BY DEF RoutingInv, AllDue, Due
    <2> QED BY <2>1, <2>2 DEF AllDue
  <1>5. NoTwins'
    <2>1. ASSUME NEW o \in Machine, NEW q \in Machine, NEW k \in DOMAIN wire'[o], NEW l \in DOMAIN wire'[q],
                 Twins(wire'[o][k], wire'[q][l], msgs')
          PROVE  o = q /\ k = l
      BY <1>3, <2>1 DEF RoutingInv, NoTwins
    <2>2. ASSUME NEW o \in Machine, NEW k \in DOMAIN wire'[o], NEW i \in DOMAIN run', Twins(wire'[o][k], run'[i], msgs')
          PROVE  FALSE
      <3>1. Twins(wire[o][k], run[i], msgs)
        BY <1>3, <2>2 DEF Twins
      <3> QED BY <1>3, <3>1 DEF RoutingInv, NoTwins
    <2>3. ASSUME NEW i \in DOMAIN run', NEW j \in DOMAIN run', Twins(run'[i], run'[j], msgs')
          PROVE  i = j
      <3>1. Twins(run[i], run[j], msgs)
        BY <2>3 DEF Twins
      <3> QED BY <3>1 DEF RoutingInv, NoTwins
    <2> QED BY <2>1, <2>2, <2>3 DEF NoTwins
  <1> QED BY <1>1, <1>2, <1>4, <1>5 DEF RoutingInv

LEMMA UnregisterKeeps ==
  ASSUME RoutingInv, NEW m \in Machine, Unregister(m)
  PROVE  RoutingInv'
  <1>1. run' = run /\ run \in Seq(Run)
    BY DEF Unregister, RoutingInv, Shape
  <1> QED BY <1>1, CutKeeps DEF Unregister

LEMMA CrashKeeps ==
  ASSUME RoutingInv, NEW m \in Machine, Crash(m), online' = Without(m), cut' = TRUE, UNCHANGED <<msgs, rr, unfollowed>>
  PROVE  RoutingInv'
  <1>1. Len(run) \in Nat /\ DOMAIN run = 1 .. Len(run) /\ \A i \in DOMAIN run : run[i] \in Run
    BY RunsAre DEF RoutingInv
  <1> DEFINE lost(i) == IF run[i].machine = m /\ run[i].pc \in Live THEN [run[i] EXCEPT !.pc = "lost"] ELSE run[i]
  <1>2. run' = [i \in DOMAIN run |-> lost(i)] /\ wire' = [wire EXCEPT ![m] = <<>>]
    BY DEF Crash
  <1>3. ASSUME NEW i \in DOMAIN run
        PROVE  lost(i) \in Run /\ lost(i).msg = run[i].msg /\ lost(i).agent = run[i].agent /\ lost(i).via = run[i].via
    BY <1>1 DEF Run
  <1> HIDE DEF lost
  <1>4. run' \in [1 .. Len(run) -> Run]
    BY <1>1, <1>2, <1>3
  <1>5. run' \in Seq(Run) /\ DOMAIN run' = DOMAIN run
    BY <1>1, <1>4
  <1>6. \A i \in DOMAIN run : run'[i].msg = run[i].msg /\ run'[i].agent = run[i].agent /\ run'[i].via = run[i].via
    BY <1>2, <1>3
  <1> QED BY <1>2, <1>5, <1>6, CutKeeps

\* A handler goes on.
LEMMA HandlerKeeps ==
  ASSUME RoutingInv, UNCHANGED <<wire, msgs, online, rr, unfollowed, cut>>,
         run' \in Seq(Run), DOMAIN run' = DOMAIN run,
         \A i \in DOMAIN run : run'[i].msg = run[i].msg /\ run'[i].agent = run[i].agent /\ run'[i].via = run[i].via
  PROVE  RoutingInv'
  <1>1. Calm
    BY DEF Calm
  <1>2. Shape' /\ Stages'
    BY DEF RoutingInv, Shape, Stages
  <1>3. Followers'
    <2>1. \A a : Connected(a)' <=> Connected(a)
      BY DEF Connected
    <2> QED BY <2>1 DEF RoutingInv, Followers
  <1>4. Delivered'
    <2>1. ASSUME ~cut, NEW n \in DOMAIN msgs PROVE Reached(n, msgs[n])'
      <3>1. Reached(n, msgs[n])
        BY <2>1 DEF RoutingInv, Delivered
      <3> QED BY <1>1, <3>1, CalmKeeps DEF Reached, Mentioned, Triaged, Given
    <2> QED BY <2>1 DEF Delivered
  <1> QED BY <1>1, <1>2, <1>3, <1>4, CalmKeeps DEF RoutingInv

\* One handler's place is changed.
LEMMA PlaceKeeps ==
  ASSUME NEW r, r \in Run, NEW p, p \in {"resumed", "running", "ended"}
  PROVE  /\ [r EXCEPT !.pc = p] \in Run
         /\ [r EXCEPT !.pc = p].msg = r.msg /\ [r EXCEPT !.pc = p].agent = r.agent /\ [r EXCEPT !.pc = p].via = r.via
  BY DEF Run

LEMMA ResumeKeeps ==
  ASSUME RoutingInv, NEW i \in DOMAIN run, Resume(i), UNCHANGED routeVars
  PROVE  RoutingInv'
  <1>1. /\ run \in Seq(Run) /\ Len(run) \in Nat /\ DOMAIN run = 1 .. Len(run)
        /\ \A j \in DOMAIN run : run[j] \in Run
    BY RunsAre DEF RoutingInv, Shape
  <1>2. run' = [run EXCEPT ![i] = [run[i] EXCEPT !.pc = "running"]] /\ wire' = wire
    BY DEF Resume
  <1>3. UNCHANGED <<wire, msgs, online, rr, unfollowed, cut>>
    BY <1>2 DEF routeVars
  <1> DEFINE r == [run[i] EXCEPT !.pc = "running"]
  <1>4. r \in Run /\ r.msg = run[i].msg /\ r.agent = run[i].agent /\ r.via = run[i].via
    BY <1>1, PlaceKeeps
  <1>5. run' = [run EXCEPT ![i] = r]
    BY <1>2
  <1> HIDE DEF r
  <1>6. /\ run' \in Seq(Run) /\ DOMAIN run' = DOMAIN run
        /\ \A j \in DOMAIN run : run'[j].msg = run[j].msg /\ run'[j].agent = run[j].agent /\ run'[j].via = run[j].via
    BY <1>1, <1>4, <1>5
  <1> QED BY <1>3, <1>6, HandlerKeeps

LEMMA FinishKeeps ==
  ASSUME RoutingInv, NEW i \in DOMAIN run, Finish(i), UNCHANGED routeVars
  PROVE  RoutingInv'
  <1>1. /\ run \in Seq(Run) /\ Len(run) \in Nat /\ DOMAIN run = 1 .. Len(run)
        /\ \A j \in DOMAIN run : run[j] \in Run
    BY RunsAre DEF RoutingInv, Shape
  <1> DEFINE r == [run[i] EXCEPT !.pc = "ended"]
             ended == [run EXCEPT ![i] = r]
             q == waitQueue[run[i].machine][run[i].agent]
             e == Head(q)
             s == [ended[e] EXCEPT !.pc = "resumed"]
  <1>2. (run' = ended \/ run' = [ended EXCEPT ![e] = s]) /\ wire' = wire
    BY DEF Finish, releaseSlot
  <1>3. UNCHANGED <<wire, msgs, online, rr, unfollowed, cut>>
    BY <1>2 DEF routeVars
  <1>4. r \in Run /\ r.msg = run[i].msg /\ r.agent = run[i].agent /\ r.via = run[i].via
    BY <1>1, PlaceKeeps
  <1> HIDE DEF r
  <1>5. /\ ended \in Seq(Run) /\ DOMAIN ended = DOMAIN run /\ \A j \in DOMAIN run : ended[j] \in Run
        /\ \A j \in DOMAIN run : ended[j].msg = run[j].msg /\ ended[j].agent = run[j].agent /\ ended[j].via = run[j].via
    BY <1>1, <1>4
  <1> HIDE DEF ended, e
  <1>6. /\ run' \in Seq(Run) /\ DOMAIN run' = DOMAIN run
        /\ \A j \in DOMAIN run : run'[j].msg = run[j].msg /\ run'[j].agent = run[j].agent /\ run'[j].via = run[j].via
    <2>1. CASE run' = ended
      BY <1>5, <2>1
    <2>2. CASE run' = [ended EXCEPT ![e] = s] /\ e \in DOMAIN run
      <3>1. s \in Run /\ s.msg = ended[e].msg /\ s.agent = ended[e].agent /\ s.via = ended[e].via
        BY <1>5, <2>2, PlaceKeeps
      <3> HIDE DEF s
      <3> QED BY <1>5, <2>2, <3>1
    <2>3. CASE run' = [ended EXCEPT ![e] = s] /\ e \notin DOMAIN run
      <3>1. run' = ended
        <4> HIDE DEF s
        <4> QED BY <1>5, <2>3
      <3> QED BY <1>5, <3>1
    <2> QED BY <1>2, <2>1, <2>2, <2>3
  <1> QED BY <1>3, <1>6, HandlerKeeps

\* The daemon takes the first wake on its way, and has a handler for it.
LEMMA ReceiveIs ==
  ASSUME RoutingInv, NEW m \in Machine, Receive(m)
  PROVE  /\ 1 \in DOMAIN wire[m] /\ UNCHANGED crashes /\ wire' = [wire EXCEPT ![m] = Tail(wire[m])]
         /\ \E r \in Run : /\ run' = Append(run, r)
                           /\ r.msg = wire[m][1].msg /\ r.agent = wire[m][1].agent /\ r.via = wire[m][1].via
  <1> DEFINE w == Head(wire[m])
             new(pc) == [machine |-> m, agent |-> w.agent, task |-> w.task, msg |-> w.msg, via |-> w.via, pc |-> pc]
  <1>1. /\ wire[m] \in Seq(Wake) /\ Len(wire[m]) \in Nat /\ DOMAIN wire[m] = 1 .. Len(wire[m])
        /\ wire[m] # <<>>
    BY WiresAre DEF RoutingInv, Receive
  <1>2. 1 \in DOMAIN wire[m] /\ w = wire[m][1] /\ w \in Wake
    BY <1>1
  <1>3. \E p \in {"queued", "running", "skipped"} : run' = Append(run, new(p))
    BY DEF Receive
  <1>4. PICK p \in {"queued", "running", "skipped"} : run' = Append(run, new(p))
    BY <1>3
  <1> HIDE DEF w
  <1>5. new(p) \in Run /\ new(p).msg = w.msg /\ new(p).agent = w.agent /\ new(p).via = w.via
    BY <1>2 DEF Run, Wake
  <1>6. \E r \in Run : run' = Append(run, r) /\ r.msg = w.msg /\ r.agent = w.agent /\ r.via = w.via
    <2> HIDE DEF new
    <2> QED BY <1>4, <1>5
  <1>7. UNCHANGED crashes /\ wire' = [wire EXCEPT ![m] = Tail(wire[m])]
    BY DEF Receive
  <1> QED BY <1>2, <1>6, <1>7

LEMMA ReceiveKeeps ==
  ASSUME RoutingInv, NEW m \in Machine, Receive(m), UNCHANGED routeVars
  PROVE  RoutingInv'
  <1>1. PICK r \in Run : /\ run' = Append(run, r)
                         /\ r.msg = wire[m][1].msg /\ r.agent = wire[m][1].agent /\ r.via = wire[m][1].via
    BY ReceiveIs
  <1>2. 1 \in DOMAIN wire[m] /\ wire' = [wire EXCEPT ![m] = Tail(wire[m])]
    BY ReceiveIs
  <1>3. UNCHANGED <<msgs, online, rr, unfollowed, cut>>
    BY DEF routeVars
  <1> DEFINE e == Len(run) + 1
             at(o, k) == IF o = m THEN k + 1 ELSE k
  <1>4. /\ wire \in [Machine -> Seq(Wake)]
        /\ \A o \in Machine : Len(wire[o]) \in Nat /\ DOMAIN wire[o] = 1 .. Len(wire[o])
    BY WiresAre DEF RoutingInv, Shape
  <1>5. /\ run \in Seq(Run) /\ Len(run) \in Nat /\ DOMAIN run = 1 .. Len(run)
    BY RunsAre DEF RoutingInv, Shape
  <1>6. /\ run' \in Seq(Run) /\ DOMAIN run' = DOMAIN run \cup {e} /\ e \notin DOMAIN run
        /\ run'[e] = r /\ \A i \in DOMAIN run : run'[i] = run[i]
    <2>1. /\ run' \in Seq(Run) /\ Len(run') = e /\ DOMAIN run' = 1 .. e
          /\ run'[e] = r /\ \A i \in 1 .. Len(run) : run'[i] = run[i]
      BY <1>1, <1>5
    <2> QED BY <1>5, <2>1
  <1>7. /\ wire' \in [Machine -> Seq(Wake)]
        /\ Len(wire'[m]) = Len(wire[m]) - 1 /\ DOMAIN wire'[m] = 1 .. Len(wire[m]) - 1
        /\ \A k \in 1 .. Len(wire[m]) - 1 : wire'[m][k] = wire[m][k + 1]
        /\ \A o \in Machine \ {m} : wire'[o] = wire[o]
    <2>1. wire[m] \in Seq(Wake) /\ wire[m] # <<>>
      BY <1>2, <1>4
    <2>2. PICK t : t = Tail(wire[m])
      OBVIOUS
    <2>3. /\ t \in Seq(Wake) /\ Len(t) = Len(wire[m]) - 1 /\ DOMAIN t = 1 .. Len(wire[m]) - 1
          /\ \A k \in 1 .. Len(wire[m]) - 1 : t[k] = wire[m][k + 1]
      BY <2>1, <2>2
    <2>4. wire'[m] = t /\ \A o \in Machine \ {m} : wire'[o] = wire[o]
      BY <1>2, <1>4, <2>2
    <2>5. wire' \in [Machine -> Seq(Wake)]
      BY <1>2, <1>4, <2>2, <2>3
    <2> QED BY <2>3, <2>4, <2>5
  <1> HIDE DEF e
  <1>8. \A o \in Machine : \A k \in DOMAIN wire'[o] :
           /\ at(o, k) \in DOMAIN wire[o] /\ wire'[o][k] = wire[o][at(o, k)]
           /\ o = m => at(o, k) # 1
           /\ \A l \in DOMAIN wire'[o] : at(o, k) = at(o, l) => k = l
    <2>1. \A k \in DOMAIN wire'[m] : /\ k + 1 \in DOMAIN wire[m] /\ wire'[m][k] = wire[m][k + 1] /\ k + 1 # 1
                                     /\ \A l \in DOMAIN wire'[m] : k + 1 = l + 1 => k = l
      BY <1>4, <1>7
    <2> QED BY <1>7, <2>1
  <1>9. \A o \in Machine : \A p \in DOMAIN wire[o] :
           (o = m /\ p = 1) \/ \E k \in DOMAIN wire'[o] : wire'[o][k] = wire[o][p]
    <2>1. ASSUME NEW p \in DOMAIN wire[m], p # 1 PROVE \E k \in DOMAIN wire'[m] : wire'[m][k] = wire[m][p]
      <3>1. p - 1 \in 1 .. Len(wire[m]) - 1 /\ (p - 1) + 1 = p
        BY <1>4, <2>1
      <3> QED BY <1>7, <3>1
    <2> QED BY <1>7, <2>1
  <1> HIDE DEF at
  <1>10. Shape' /\ Stages'
    BY <1>3, <1>6, <1>7 DEF RoutingInv, Shape, Stages
  <1>11. Followers'
    <2>1. \A a : Connected(a)' <=> Connected(a)
      BY <1>3 DEF Connected
    <2> QED BY <1>3, <2>1 DEF RoutingInv, Followers
  <1>12. AllDue'
    <2>1. ASSUME NEW o \in Machine, NEW k \in DOMAIN wire'[o] PROVE Due(wire'[o][k], msgs')
      BY <1>3, <1>8 DEF RoutingInv, AllDue
    <2>2. ASSUME NEW i \in DOMAIN run' PROVE Due(run'[i], msgs')
      <3>1. CASE i \in DOMAIN run
        BY <1>3, <1>6, <3>1 DEF RoutingInv, AllDue
      <3>2. CASE i = e
        <4>1. Due(wire[m][1], msgs)
          BY <1>2 DEF RoutingInv, AllDue
        <4>2. Due(r, msgs)
          BY <1>1, <4>1 DEF Due
        <4> QED BY <1>3, <1>6, <3>2, <4>2
      <3> QED BY <1>6, <3>1, <3>2
    <2> QED BY <2>1, <2>2 DEF AllDue
  <1>13. NoTwins'
    <2>1. ASSUME NEW o \in Machine, NEW q \in Machine, NEW k \in DOMAIN wire'[o], NEW l \in DOMAIN wire'[q],
                 Twins(wire'[o][k], wire'[q][l], msgs')
          PROVE  o = q /\ k = l
      <3>1. Twins(wire[o][at(o, k)], wire[q][at(q, l)], msgs)
        BY <1>3, <1>8, <2>1
      <3>2. o = q /\ at(o, k) = at(q, l)
        BY <1>8, <3>1 DEF RoutingInv, NoTwins
      <3> QED BY <1>8, <3>2
    <2>2. ASSUME NEW o \in Machine, NEW k \in DOMAIN wire'[o], NEW i \in DOMAIN run', Twins(wire'[o][k], run'[i], msgs')
          PROVE  FALSE
      <3>1. CASE i \in DOMAIN run
        <4>1. Twins(wire[o][at(o, k)], run[i], msgs)
          BY <1>3, <1>6, <1>8, <2>2, <3>1
        <4> QED BY <1>8, <3>1, <4>1 DEF RoutingInv, NoTwins
      <3>2. CASE i = e
        <4>1. Twins(wire[o][at(o, k)], r, msgs)
          BY <1>3, <1>6, <1>8, <2>2, <3>2
        <4>2. Twins(wire[o][at(o, k)], wire[m][1], msgs)
          BY <1>1, <4>1 DEF Twins
        <4>3. o = m /\ at(o, k) = 1
          BY <1>2, <1>8, <4>2 DEF RoutingInv, NoTwins
        <4> QED BY <1>8, <4>3
      <3> QED BY <1>6, <3>1, <3>2
    <2>3. ASSUME NEW i \in DOMAIN run', NEW j \in DOMAIN run', Twins(run'[i], run'[j], msgs')
          PROVE  i = j
      <3>1. CASE i \in DOMAIN run /\ j \in DOMAIN run
        <4>1. Twins(run[i], run[j], msgs)
          BY <1>3, <1>6, <2>3, <3>1
        <4> QED BY <3>1, <4>1 DEF RoutingInv, NoTwins
      <3>2. CASE i = e /\ j \in DOMAIN run
        <4>1. Twins(wire[m][1], run[j], msgs)
          BY <1>1, <1>3, <1>6, <2>3, <3>2 DEF Twins
        <4> QED BY <1>2, <3>2, <4>1 DEF RoutingInv, NoTwins
      <3>3. CASE i \in DOMAIN run /\ j = e
        <4>1. Twins(wire[m][1], run[i], msgs)
          BY <1>1, <1>3, <1>6, <2>3, <3>3 DEF Twins
        <4> QED BY <1>2, <3>3, <4>1 DEF RoutingInv, NoTwins
      <3> QED BY <1>6, <3>1, <3>2, <3>3
    <2> QED BY <2>1, <2>2, <2>3 DEF NoTwins
  <1>14. ASSUME NEW n, NEW a, NEW vias, Sent(n, a, vias) PROVE Sent(n, a, vias)'
    <2>1. CASE Handled(n, a, vias) # {}
      BY <1>6, <2>1 DEF Sent, Handled
    <2>2. CASE \E o \in Machine : \E w \in ToSet(wire[o]) : w.agent = a /\ w.msg = n /\ w.via \in vias
      <3>1. PICK o \in Machine : \E w \in ToSet(wire[o]) : w.agent = a /\ w.msg = n /\ w.via \in vias
        BY <2>2
      <3>2. PICK p \in DOMAIN wire[o] : wire[o][p].agent = a /\ wire[o][p].msg = n /\ wire[o][p].via \in vias
        BY <3>1 DEF ToSet
      <3>3. CASE o = m /\ p = 1
        BY <1>1, <1>6, <3>2, <3>3 DEF Sent, Handled
      <3>4. CASE \E k \in DOMAIN wire'[o] : wire'[o][k] = wire[o][p]
        BY <3>2, <3>4 DEF Sent, ToSet
      <3> QED BY <1>9, <3>3, <3>4
    <2> QED BY <1>14, <2>1, <2>2 DEF Sent
  <1>15. Delivered'
    <2>1. ASSUME ~cut, NEW n \in DOMAIN msgs PROVE Reached(n, msgs[n])'
      <3>1. Reached(n, msgs[n])
        BY <2>1 DEF RoutingInv, Delivered
      <3> QED BY <1>3, <1>14, <3>1 DEF Reached, Mentioned, Triaged, Given
    <2> QED BY <1>3, <2>1 DEF Delivered
  <1> QED BY <1>10, <1>11, <1>12, <1>13, <1>15 DEF RoutingInv

-----------------------------------------------------------------------------
LEMMA RoutingInitKeeps == RoutingInit => RoutingInv
  <1> SUFFICES ASSUME RoutingInit PROVE RoutingInv
    OBVIOUS
  <1>1. /\ wire = [m \in Machine |-> <<>>] /\ run = <<>> /\ msgs = <<>> /\ online = <<>>
        /\ rr = 0 /\ unfollowed = {} /\ cut = FALSE
    BY DEF RoutingInit, DaemonInit
  <1>2. /\ wire \in [Machine -> Seq(Wake)] /\ run \in Seq(Run) /\ msgs \in Seq(Msg)
        /\ online \in Seq(Machine) /\ Len(msgs) = 0
    BY <1>1
  <1>3. DOMAIN msgs = {} /\ DOMAIN run = {} /\ \A m \in Machine : DOMAIN wire[m] = {}
    BY <1>1
  <1>4. Shape
    <2>1. 0 <= MaxMessage
      BY BoundAssumption
    <2>2. rr \in Nat /\ unfollowed \subseteq (Agent \X Message) /\ cut \in BOOLEAN
      BY <1>1
    <2>3. wire \in [Machine -> Seq(Wake)] /\ Len(msgs) <= MaxMessage
      BY <1>2, <2>1
    <2> QED BY <1>2, <2>2, <2>3 DEF Shape
  <1>5. Stages /\ Followers /\ AllDue /\ NoTwins /\ Delivered
    BY <1>3 DEF Stages, Followers, AllDue, NoTwins, Delivered
  <1> QED BY <1>4, <1>5 DEF RoutingInv

LEMMA DaemonStepKeeps ==
  ASSUME RoutingInv, DaemonStep
  PROVE  RoutingInv'
  <1>1. ASSUME NEW i \in DOMAIN run, (Resume(i) \/ Finish(i)) /\ UNCHANGED routeVars PROVE RoutingInv'
    BY <1>1, ResumeKeeps, FinishKeeps
  <1>2. ASSUME NEW m \in Machine, Receive(m) /\ UNCHANGED routeVars PROVE RoutingInv'
    BY <1>2, ReceiveKeeps
  <1>3. ASSUME NEW m \in Machine, Crash(m), online' = Without(m), cut' = TRUE, UNCHANGED <<msgs, rr, unfollowed>>
        PROVE  RoutingInv'
    BY <1>3, CrashKeeps
  <1> QED BY <1>1, <1>2, <1>3 DEF DaemonStep

LEMMA RoutingStepKeeps == RoutingInv /\ [RoutingNext]_vars => RoutingInv'
  <1> SUFFICES ASSUME RoutingInv, [RoutingNext]_vars PROVE RoutingInv'
    OBVIOUS
  <1>1. ASSUME NEW c \in Channel, NEW p \in 0 .. MaxMessage, NEW h \in Human, NEW S \in SUBSET Agent,
               NEW asTask \in BOOLEAN, Post(c, p, h, S, asTask)
        PROVE  RoutingInv'
    <2>1. h \notin Agent
      BY MembersAssumption
    <2> QED BY <1>1, <2>1, PostKeeps
  <1>2. ASSUME NEW c \in Channel, NEW p \in 0 .. MaxMessage, NEW a \in Agent, NEW S \in SUBSET Agent,
               Post(c, p, a, S, FALSE)
        PROVE  RoutingInv'
    BY <1>2, PostKeeps
  <1>3. ASSUME NEW n \in DOMAIN msgs, Hook(n) \/ Route(n) \/ WakePeer(n) \/ HandOver(n) \/ Done(n) \/ Prune(n)
        PROVE  RoutingInv'
    BY <1>3, HookKeeps, RouteKeeps, WakePeerKeeps, HandOverKeeps, DoneKeeps, PruneKeeps
  <1>4. ASSUME NEW n \in DOMAIN msgs, NEW by \in Agent, NEW to \in Agent, Assign(n, by, to)
        PROVE  RoutingInv'
    BY <1>4, AssignKeeps
  <1>5. ASSUME NEW a \in Agent, NEW n \in Message, Unfollow(a, n) \/ Follow(a, n)
        PROVE  RoutingInv'
    BY <1>5, ThreadKeeps
  <1>6. ASSUME NEW m \in Machine, Register(m) \/ Unregister(m)
        PROVE  RoutingInv'
    BY <1>6, RegisterKeeps, UnregisterKeeps
  <1>7. CASE DaemonStep
    BY <1>7, DaemonStepKeeps
  <1>8. CASE UNCHANGED vars
    <2>1. UNCHANGED <<wire, msgs, online, rr, unfollowed, cut>> /\ run' = run
      BY <1>8 DEF vars, daemonVars, routeVars
    <2>2. run \in Seq(Run)
      BY DEF RoutingInv, Shape
    <2> QED BY <2>1, <2>2, HandlerKeeps
  <1> QED BY <1>1, <1>2, <1>3, <1>4, <1>5, <1>6, <1>7, <1>8 DEF RoutingNext

\* The inductive invariant: what every handler has seen to by each of its steps
\* (web.ts:120, agent.ts:318, wake.service.ts:55), and that every wake on its way
\* and every handler of one is due, and none is there twice.
THEOREM RoutingIsSound == RoutingSpec => []RoutingInv
  BY RoutingInitKeeps, RoutingStepKeeps, PTL DEF RoutingSpec

\* An agent's message wakes only whom it mentions, and outside direct channels the
\* routing of a message wakes nobody twice and nobody who left the thread
\* (WakeService.onMessage).
THEOREM WakesAreDueAlways == RoutingSpec => []WakesAreDue
  <1>1. RoutingInv => WakesAreDue
    <2> SUFFICES ASSUME RoutingInv, NEW n \in DOMAIN msgs, NEW a \in Agent
                 PROVE  /\ msgs[n].sender \in Agent /\ Handled(n, a, Via) # {} => a \in msgs[n].mentions \ {msgs[n].sender}
                        /\ msgs[n].channel \notin Direct =>
                              Cardinality(Handled(n, a, {"message"})) <= IF a \in msgs[n].muted THEN 0 ELSE 1
      BY DEF WakesAreDue
    <2> DEFINE H == Handled(n, a, {"message"})
    <2>1. \A i \in DOMAIN run : Due(run[i], msgs)
      BY DEF RoutingInv, AllDue
    <2>2. msgs[n].sender \in Agent /\ Handled(n, a, Via) # {} => a \in msgs[n].mentions \ {msgs[n].sender}
      BY <2>1 DEF Handled, Due
    <2>3. ASSUME msgs[n].channel \notin Direct, a \in msgs[n].muted PROVE Cardinality(H) = 0
      <3>1. H = {}
        BY <2>1, <2>3 DEF Handled, Due
      <3> QED BY <3>1, FS_EmptySet
    <2>4. ASSUME msgs[n].channel \notin Direct PROVE Cardinality(H) <= 1
      <3>1. \A i, j \in H : i = j
        BY <2>4 DEF Handled, RoutingInv, NoTwins, Twins
      <3>2. CASE H = {}
        <4>1. Cardinality(H) = 0
          BY <3>2, FS_EmptySet
        <4> QED BY <4>1
      <3>3. CASE H # {}
        <4>1. PICK i : H = {i}
          BY <3>1, <3>3
        <4>2. Cardinality(H) = 1
          BY <4>1, FS_Singleton
        <4> QED BY <4>2
      <3> QED BY <3>2, <3>3
    <2> HIDE DEF H
    <2>5. msgs[n].channel \notin Direct => Cardinality(H) <= IF a \in msgs[n].muted THEN 0 ELSE 1
      BY <2>3, <2>4
    <2> QED BY <2>2, <2>5 DEF H
  <1> QED BY <1>1, RoutingIsSound, PTL

\* After a message is routed, all whom it mentions, who follow the thread and are
\* connected, have a wake on its way or a handler for it (WakeService.onMessage,
\* DaemonHub.dispatch).
THEOREM MentionIsSentAlways == RoutingSpec => []MentionIsSent
  <1>1. RoutingInv => MentionIsSent
    BY DEF RoutingInv, Delivered, Reached, Mentioned, Addressed, MentionIsSent
  <1> QED BY <1>1, RoutingIsSound, PTL

\* Whom the hook assigned a message sent as a task is woken by the message, whom
\* another agent gave it to is woken for it, and the manager for a task that
\* mentions nobody (the hook of web.ts:133, agent.ts:318 and dispatchTriage).
THEOREM TaskReachesSomeoneAlways == RoutingSpec => []TaskReachesSomeone
  <1>1. RoutingInv => TaskReachesSomeone
    <2> SUFFICES ASSUME RoutingInv, NEW n \in DOMAIN msgs, msgs[n].pc = "done", msgs[n].task # "none", ~cut
                 PROVE  /\ msgs[n].hooked \in msgs[n].kept => Sent(n, msgs[n].hooked, {"message"})
                        /\ msgs[n].given # None /\ msgs[n].hand = None => Sent(n, msgs[n].given, {"assign"})
                        /\ Assignees(msgs[n]) = {} /\ Manager \in msgs[n].kept \ {Sender(msgs[n])} =>
                              Sent(n, Manager, {"triage"})
      BY DEF TaskReachesSomeone
    <2>0. PICK msg : msg = msgs[n]
      OBVIOUS
    <2>1. msg \in Msg /\ Staged(msg) /\ Mentioned(n, msg) /\ Triaged(n, msg) /\ Given(n, msg)
      BY <2>0, MessagesAre DEF RoutingInv, Stages, Delivered, Reached
    <2>2. msg.sender \in Human /\ msg.sender \notin Agent /\ msg.kept \subseteq Agent /\ msg.channel \in Channel
      BY <2>0, <2>1 DEF Staged, Msg
    <2>3. ASSUME msg.hooked \in msg.kept PROVE Sent(n, msg.hooked, {"message"})
      <3>1. msg.hooked \in Assignees(msg) /\ msg.hooked # msg.sender
        BY <2>1, <2>2, <2>3, MembersAssumption DEF Staged
      <3>2. CASE msg.channel \in Direct
        <4>1. msg.hooked = Peer(msg.channel)
          BY <3>1, <3>2 DEF Assignees
        <4>2. Peer(msg.channel) \in Members[msg.channel]
          BY <2>2, <3>2, PeerIs
        <4>3. msg.hooked \in Addressed(msg)
          BY <2>2, <3>1, <4>1, <4>2 DEF Addressed, Broadcast
        <4> QED BY <2>0, <2>1, <2>3, <4>3 DEF Mentioned
      <3>3. CASE msg.channel \notin Direct
        <4>1. msg.hooked \in Addressed(msg)
          BY <3>1, <3>3 DEF Assignees, Addressed
        <4> QED BY <2>0, <2>1, <2>3, <4>1 DEF Mentioned
      <3> QED BY <3>2, <3>3
    <2>4. /\ msg.given # None /\ msg.hand = None => Sent(n, msg.given, {"assign"})
          /\ Assignees(msg) = {} /\ Manager \in msg.kept \ {Sender(msg)} => Sent(n, Manager, {"triage"})
      BY <2>0, <2>1 DEF Given, Triaged
    <2> QED BY <2>0, <2>3, <2>4
  <1> QED BY <1>1, RoutingIsSound, PTL
=============================================================================
