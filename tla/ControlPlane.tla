---------------------------- MODULE ControlPlane ----------------------------
(***************************************************************************)
(* The connections between the server and the daemons of one workspace:    *)
(* server/src/realtime/control-plane.ts and daemon-hub.ts, and the socket  *)
(* side of daemon/src/serve.ts.  A daemon keeps one socket and opens a new *)
(* one when it sees the old one close.  The server looks up the token of a *)
(* new socket, an await, and only then registers it in the hub and listens *)
(* to its events; it may learn of a close later than the daemon.           *)
(*                                                                         *)
(* Each status of a machine is a transaction of its own that nobody waits  *)
(* for, so two of them may land in either order.  A request to a daemon    *)
(* carries a number and is settled by the reply with that number, or by    *)
(* a timer.                                                                *)
(***************************************************************************)
EXTENDS Naturals, Sequences, FiniteSets, SequencesExt

CONSTANTS Machine, None,
          Socket,     \* bound: sockets ever opened
          Request,    \* bound: requests ever made
          MaxCrash    \* bound: ends of the server

ASSUME SocketAssumption == None \notin Socket \cup Machine \cup Request
ASSUME BoundAssumption == IsFiniteSet(Request) /\ MaxCrash \in Nat

VARIABLES socket,     \* the server's handler of each socket
          current,    \* daemon: ws
          hello,      \* the first message of the daemon over each socket
          hub,        \* the hub's connections, oldest first
          status,     \* machine.status
          writes,     \* status transactions in flight
          raced,      \* history: the last one to start may not be the last to land
          reqSeq,     \* the hub's counter
          pending,    \* the hub's pending requests: number to request
          request,    \* each request and how it was settled
          job,        \* daemon: requests being worked on
          reply,      \* replies on their way, over a socket
          life        \* how many servers ended so far

vars == <<socket, current, hello, hub, status, writes, raced, reqSeq, pending, request, job, reply, life>>

connVars == <<socket, current, hello, hub>>
statusVars == <<status, writes, raced>>
requestVars == <<reqSeq, pending, request, job, reply>>

Number == 1 .. Cardinality(Request)

TypeOK ==
    /\ socket \in [Socket -> [pc : {"new", "lookup", "open", "done"}, machine : Machine \cup {None},
                              up : BOOLEAN, events : 0 .. 2]]
    /\ current \in [Machine -> Socket \cup {None}]
    /\ hello \in [Socket -> {"none", "sent", "heard", "dropped"}]
    /\ hub \in Seq(Socket) /\ IsInjective(hub)
    /\ status \in [Machine -> {"online", "offline"}]
    /\ writes \in [Machine -> [{"online", "offline"} -> Nat]]
    /\ raced \in [Machine -> BOOLEAN]
    /\ reqSeq \in 0 .. Cardinality(Request)
    /\ pending \in [Number -> Request \cup {None}]
    /\ request \in [Request -> [pc : {"new", "waiting", "answered", "rejected", "lost"},
                                number : {0} \cup Number, life : 0 .. MaxCrash,
                                machine : Machine \cup {None}, answer : Request \cup {None}]]
    /\ job \in [Machine -> SUBSET Request]
    /\ reply \subseteq (Socket \X Request)
    /\ life \in 0 .. MaxCrash

NoWrites == [st \in {"online", "offline"} |-> 0]

Init ==
    /\ socket = [s \in Socket |-> [pc |-> "new", machine |-> None, up |-> FALSE, events |-> 0]]
    /\ current = [m \in Machine |-> None]
    /\ hello = [s \in Socket |-> "none"]
    /\ hub = <<>>
    /\ status = [m \in Machine |-> "offline"]
    /\ writes = [m \in Machine |-> NoWrites]
    /\ raced = [m \in Machine |-> FALSE]
    /\ reqSeq = 0
    /\ pending = [n \in Number |-> None]
    /\ request = [q \in Request |-> [pc |-> "new", number |-> 0, life |-> 0, machine |-> None, answer |-> None]]
    /\ job = [m \in Machine |-> {}]
    /\ reply = {}
    /\ life = 0

-----------------------------------------------------------------------------
\* The connections of the hub that belong to m.
Conns(list, m) == SelectSeq(list, LAMBDA s : socket[s].machine = m)

isMachineOnline(list, m) == \E s \in ToSet(list) : socket[s].machine = m

\* A status transaction of m is under way.
Landing(m) == writes[m] # NoWrites

\* A status transaction starts.
setStatus(m, st) ==
    /\ writes' = [writes EXCEPT ![m][st] = @ + 1]
    /\ raced' = [raced EXCEPT ![m] =
                    Landing(m) /\ (@ \/ \E other \in DOMAIN NoWrites \ {st} : writes[m][other] > 0)]
    /\ UNCHANGED status

\* The daemon of m opens its socket; the server starts to look up the token.
\* The message with the machine's data follows when it is collected.
Connect(m, s) ==
    /\ current[m] = None
    /\ socket[s].pc = "new"
    /\ socket' = [socket EXCEPT ![s] = [pc |-> "lookup", machine |-> m, up |-> TRUE, events |-> 0]]
    /\ current' = [current EXCEPT ![m] = s]
    /\ UNCHANGED <<hello, hub, statusVars, requestVars, life>>

SendHello(s) ==
    /\ socket[s].up /\ hello[s] = "none"
    /\ hello' = [hello EXCEPT ![s] = "sent"]
    /\ UNCHANGED <<socket, current, hub, statusVars, requestVars, life>>

\* The lookup ends: the token is a machine's, and the socket is registered
\* although it may be closed by now; or the token is refused.
register(s) == Append(hub, s)

Accept(s) ==
    /\ socket[s].pc = "lookup"
    /\ socket' = [socket EXCEPT ![s].pc = "open"]
    /\ hub' = register(s)
    /\ setStatus(socket[s].machine, "online")
    /\ UNCHANGED <<current, hello, requestVars, life>>

Refuse(s) ==
    /\ socket[s].pc = "lookup"
    /\ socket' = [socket EXCEPT ![s].pc = "done", ![s].up = FALSE]
    /\ current' = [m \in Machine |-> IF current[m] = s THEN None ELSE current[m]]
    /\ UNCHANGED <<hello, hub, statusVars, requestVars, life>>

\* The first message arrives; before the lookup has ended nobody listens.
HearHello(s) ==
    /\ socket[s].up /\ hello[s] = "sent"
    /\ hello' = [hello EXCEPT ![s] = IF socket[s].pc = "open" THEN "heard" ELSE "dropped"]
    /\ UNCHANGED <<socket, current, hub, statusVars, requestVars, life>>

\* The connection breaks and the daemon sees it.  The server will get an error
\* and a close, or a close.
Break(s) ==
    /\ socket[s].up
    /\ \E n \in 1 .. 2 : socket' = [socket EXCEPT ![s].up = FALSE, ![s].events = n]
    /\ current' = [m \in Machine |-> IF current[m] = s THEN None ELSE current[m]]
    /\ UNCHANGED <<hello, hub, statusVars, requestVars, life>>

\* The function that register returns.
unregister(s) ==
    IF s \in ToSet(hub) THEN RemoveAt(hub, CHOOSE i \in DOMAIN hub : hub[i] = s) ELSE hub

\* onClose, once for an error and once for the close.  Mutant: any close of a
\* machine's connection takes the machine offline.
onCloseAlways(s) ==
    /\ hub' = unregister(s)
    /\ setStatus(socket[s].machine, "offline")
onClose(s) ==
    LET m == socket[s].machine IN
    /\ hub' = unregister(s)
    /\ IF isMachineOnline(unregister(s), m) THEN UNCHANGED statusVars ELSE setStatus(m, "offline")

SeeClose(s) ==
    /\ socket[s].events > 0
    /\ socket' = [socket EXCEPT ![s].events = @ - 1]
    /\ IF socket[s].pc = "open" THEN onClose(s) ELSE UNCHANGED <<hub, statusVars>>
    /\ UNCHANGED <<current, hello, requestVars, life>>

LandStatus(m, st) ==
    /\ writes[m][st] > 0
    /\ writes' = [writes EXCEPT ![m][st] = @ - 1]
    /\ status' = [status EXCEPT ![m] = st]
    /\ raced' = raced
    /\ UNCHANGED <<connVars, requestVars, life>>

-----------------------------------------------------------------------------
\* dispatchToMachine and request take the first connection of the machine;
\* what is sent over a broken one is lost.
first(m) == Conns(hub, m)[1]
Received(m) == socket[first(m)].up

\* The number of a new request.  Mutant: the count of those that are pending.
nextNumberBySize == Cardinality({n \in Number : pending[n] # None}) + 1
nextNumber == reqSeq + 1

\* DaemonHub.request.  The number is used up even when nobody is connected.
MakeRequest(q, m) ==
    /\ request[q].pc = "new"
    /\ reqSeq' = nextNumber
    /\ LET online == isMachineOnline(hub, m) IN
       /\ request' = [request EXCEPT ![q] =
                        [pc |-> IF online THEN "waiting" ELSE "rejected", number |-> nextNumber,
                         life |-> life, machine |-> m, answer |-> None]]
       /\ pending' = IF online THEN [pending EXCEPT ![nextNumber] = q] ELSE pending
       /\ job' = IF online /\ Received(m) THEN [job EXCEPT ![m] = @ \cup {q}] ELSE job
    /\ UNCHANGED <<connVars, statusVars, reply, life>>

\* The timer of a request.  Mutant: the number stays in the Map.
ForgetNot(n) == pending
Forget(n) == [pending EXCEPT ![n] = None]

Timeout(q) ==
    /\ request[q].pc = "waiting"
    /\ request' = [request EXCEPT ![q].pc = "rejected"]
    /\ pending' = Forget(request[q].number)
    /\ UNCHANGED <<connVars, statusVars, reqSeq, job, reply, life>>

\* The daemon has done the work and sends the reply over the socket it has now.
Reply(q) ==
    LET m == request[q].machine IN
    /\ m # None /\ q \in job[m]
    /\ job' = [job EXCEPT ![m] = @ \ {q}]
    /\ reply' = IF current[m] = None THEN reply ELSE reply \cup {<<current[m], q>>}
    /\ UNCHANGED <<connVars, statusVars, reqSeq, pending, request, life>>

\* resolveRequest, for the number the reply carries.  Nobody listens during
\* the lookup, and a number that is not pending is ignored.
Resolve(s, q) ==
    LET n == request[q].number
        p == pending[n] IN
    /\ <<s, q>> \in reply
    /\ socket[s].up
    /\ reply' = reply \ {<<s, q>>}
    /\ IF socket[s].pc = "open" /\ p # None
       THEN /\ request' = [request EXCEPT ![p].pc = "answered", ![p].answer = q]
            /\ pending' = Forget(n)
       ELSE UNCHANGED <<request, pending>>
    /\ UNCHANGED <<connVars, statusVars, reqSeq, job, life>>

-----------------------------------------------------------------------------
\* The server ends and another starts: its memory and the sockets are gone,
\* the daemons go on, and every machine is set offline.
resetAllOffline == [m \in Machine |-> "offline"]

Restart ==
    /\ life < MaxCrash
    /\ life' = life + 1
    /\ socket' = [s \in Socket |-> IF socket[s].pc = "new" THEN socket[s]
                                   ELSE [socket[s] EXCEPT !.pc = "done", !.up = FALSE, !.events = 0]]
    /\ current' = [m \in Machine |-> None]
    /\ hub' = <<>>
    /\ status' = resetAllOffline
    /\ writes' = [m \in Machine |-> NoWrites]
    /\ raced' = [m \in Machine |-> FALSE]
    /\ reqSeq' = 0
    /\ pending' = [n \in Number |-> None]
    /\ request' = [q \in Request |-> IF request[q].pc = "waiting" THEN [request[q] EXCEPT !.pc = "lost"]
                                     ELSE request[q]]
    /\ reply' = {}
    /\ UNCHANGED <<hello, job>>

Next ==
    \/ \E m \in Machine, s \in Socket : Connect(m, s)
    \/ \E s \in Socket : SendHello(s) \/ Accept(s) \/ Refuse(s) \/ HearHello(s) \/ Break(s) \/ SeeClose(s)
    \/ \E m \in Machine, st \in {"online", "offline"} : LandStatus(m, st)
    \/ \E q \in Request, m \in Machine : MakeRequest(q, m)
    \/ \E q \in Request : Timeout(q) \/ Reply(q)
    \/ \E s \in Socket, q \in Request : Resolve(s, q)
    \/ Restart

\* Timers go off, transactions end, and the server gets the events of its
\* sockets; nothing is assumed of daemons, nor that the server stays up.
Spec ==
    /\ Init /\ [][Next]_vars
    /\ \A q \in Request : WF_vars(Timeout(q))
    /\ \A s \in Socket : WF_vars(Accept(s) \/ Refuse(s)) /\ WF_vars(SeeClose(s))
    /\ \A m \in Machine, st \in {"online", "offline"} : WF_vars(LandStatus(m, st))

-----------------------------------------------------------------------------
\* The status in the database is what the hub says, once no transaction is
\* under way, unless the last of them to start met a different one.
StatusUnlessRaced ==
    \A m \in Machine :
        ~raced[m] /\ ~Landing(m) => (status[m] = "online" <=> isMachineOnline(hub, m))

\* The hub remembers the numbers of the requests that wait and of no others, so
\* its Map does not grow, and a late reply finds nothing.
PendingAreWaiting ==
    \A n \in Number, q \in Request :
        pending[n] = q <=> request[q].pc = "waiting" /\ request[q].number = n

\* Every request is answered or rejected, or its server has ended.
RequestsSettle == \A q \in Request : request[q].pc = "waiting" ~> request[q].pc # "waiting"

\* A request that got another's answer got it from the life of another server:
\* within one life a late reply never settles the wrong request.
OwnAnswerWithinLife ==
    \A q \in Request :
        LET a == request[q].answer IN a # None /\ a # q => request[a].life < request[q].life

-----------------------------------------------------------------------------
(* What comments and tests say and the code does not keep.                 *)

\* A reply wakes the request it answers (daemon-hub.ts:121).  The counter
\* starts over with the server, the daemon's jobs do not, so it may not be.
OwnAnswer == \A q \in Request : request[q].answer \in {None, q}

\* control-plane.ts:57 and :118: online once connected, offline once no
\* connection is left.  Two transactions that land in the other order leave
\* the wrong one.
StatusIsHub ==
    \A m \in Machine : ~Landing(m) => (status[m] = "online" <=> isMachineOnline(hub, m))

\* A connection that is gone, and whose events the server has had, is out of
\* the hub.  One that closed during the lookup is registered for good.
NoZombie ==
    \A s \in Socket : socket[s].pc = "open" /\ ~socket[s].up /\ socket[s].events = 0 => s \notin ToSet(hub)

\* What is sent to a machine whose daemon is connected reaches it; the hub
\* takes the oldest connection of the machine, alive or not.
ConnectedIsReached ==
    \A m \in Machine :
        current[m] # None /\ current[m] \in ToSet(hub) => Received(m)

\* The machine's data that a daemon sends over a connection the hub knows is
\* taken in; what comes before the end of the lookup is lost.
HelloIsHeard == \A s \in ToSet(hub) : hello[s] # "dropped"
=============================================================================
