----------------------------- MODULE WebClient -----------------------------
(***************************************************************************)
(* One web page of one person, and what it shows of the workspace:         *)
(* composables/useCrew.ts, ws.ts and ActionsView.vue of the web client,    *)
(* hub.ts and bus.ts of the server, against the routes of module Routes.   *)
(*                                                                         *)
(* A column of a channel, and a list of the workspace, is the number of    *)
(* times it changed.  Everything asynchronous is a step of its own: a      *)
(* request commits and emits, the socket delivers, each GET is read by the *)
(* server and later stored by the client.                                  *)
(***************************************************************************)
EXTENDS Integers, FiniteSets, Sequences, Functions, Bags, Routes

CONSTANTS Channel,    \* the channels of the workspace
          Home,       \* the first of them in server-info
          Request,    \* bound: the requests that can be served at a time
          MaxHappen,  \* bound: requests, selections and failures
          MaxLoad     \* bound: loads of the page under way at a time

None == "none"

ASSUME ClientAssumption == /\ Home \in Channel /\ None \notin Channel
                           /\ {MaxHappen, MaxLoad} \subseteq Nat

VARIABLES at,        \* server: the columns of each channel
          version,   \* server: the lists
          cursor,    \* server: last_read_seq of this person, 0 without a row
          calls,     \* server: the requests being served
          conn,      \* the socket: "down", "opening" (the token is looked up), "up"
          events,    \* sent on the socket, not yet received
          selected,  \* client: selectedChannelId
          page,      \* client: messages and tasks, and the channel they are of
          shown,     \* client: what is shown of each list
          loads,     \* client: the loads under way
          excused,   \* ghost: what may be shown old, for a reason named below
          happened   \* requests, selections and failures so far

server == <<at, version, cursor>>
client == <<selected, page, shown>>
vars == <<server, client, calls, conn, events, loads, excused, happened>>

Thing == {"page", "read"} \union List

Happen == happened < MaxHappen /\ happened' = happened + 1

Swap(bag, old, new) == (bag (-) SetToBag({old})) (+) SetToBag(new)
Count(bag) == BagCardinality(bag)

-----------------------------------------------------------------------------
(* Loads.                                                                  *)

\* What is to be fetched in turn: the page, or lists.
Job == {<<"page">>, <<"info">>, <<"machines">>, <<"actions">>, <<"machines", "info">>}

\* "get": the GETs of a channel; "mark": POST .../read; "list": the GET of a
\* list, "listed" once the server read it.  Without a channel: server-info.
Load(job, ch) == IF job = <<"page">> /\ ch # None
                 THEN [pc |-> "get", ch |-> ch, got |-> << >>]
                 ELSE [pc |-> "list", todo |-> IF job = <<"page">> THEN <<"info">> ELSE job]

Start(jobs, ch) == /\ Count(loads) + Cardinality(jobs) <= MaxLoad
                   /\ loads' = loads (+) SetToBag({Load(j, ch) : j \in jobs})

\* One load goes on as given, or ends ({}).
Becomes(l, next) == loads' = Swap(loads, l, next)

\* The server answers GET messages, with what hangs on them, or GET tasks.
Answer(l, ks) ==
    /\ l.pc = "get"
    /\ ks \intersect DOMAIN l.got = {}
    /\ Becomes(l, {[l EXCEPT !.got = [k \in DOMAIN l.got \union ks |->
                                        IF k \in ks THEN at[l.ch][k] ELSE l.got[k]]]})
    /\ UNCHANGED <<server, client, calls, conn, events, excused>>

ListInfo == [pc |-> "list", todo |-> <<"info">>]

\* What is stored is excused if it is older than what it replaces, and no
\* longer if it is what the server has.
Excuse(thing, older, current) ==
    excused' = IF older THEN excused \union {thing}
               ELSE IF current THEN excused \ {thing} ELSE excused

\* loadChannel has both answers.  Mutant: of whatever channel.
StoreAny(l) ==
    /\ l.pc = "get" /\ DOMAIN l.got = Column
    /\ page' = [ch |-> l.ch, at |-> l.got]
    /\ Excuse("page", page.ch = l.ch /\ \E k \in Column : l.got[k] < page.at[k], l.got = at[l.ch])
    /\ Becomes(l, {IF l.got["log"] > 0 THEN [pc |-> "mark", ch |-> l.ch, upTo |-> l.got["log"]]
                                       ELSE ListInfo})
    /\ UNCHANGED <<server, selected, shown, calls, conn, events>>
Drop(l) == /\ Becomes(l, {})
           /\ UNCHANGED <<server, client, calls, conn, events, excused>>
Store(l) == /\ l.pc = "get" /\ DOMAIN l.got = Column
            /\ IF selected = l.ch THEN StoreAny(l) ELSE Drop(l)

\* readState.advance: the row is inserted or its cursor moves on; then the
\* badges are fetched.  Mutant: they are not.
MarkOnly(l) ==
    /\ l.pc = "mark"
    /\ cursor' = [cursor EXCEPT ![l.ch] = IF @ > l.upTo THEN @ ELSE l.upTo]
    /\ Excuse("read", FALSE, l.ch = selected /\ l.upTo = at[l.ch]["log"])
    /\ Becomes(l, {})
    /\ UNCHANGED <<at, version, client, calls, conn, events>>
Mark(l) ==
    /\ l.pc = "mark"
    /\ cursor' = [cursor EXCEPT ![l.ch] = IF @ > l.upTo THEN @ ELSE l.upTo]
    /\ Excuse("read", FALSE, l.ch = selected /\ l.upTo = at[l.ch]["log"])
    /\ Becomes(l, {ListInfo})
    /\ UNCHANGED <<at, version, client, calls, conn, events>>

\* What server-info counts unread, of what it has read.
Unread(info, c) == IF info.log[c] > info.cursor[c] THEN info.log[c] - info.cursor[c] ELSE 0

Never == [ver |-> -1, log |-> [c \in Channel |-> 0], cursor |-> [c \in Channel |-> 0]]
Now(list) == IF list = "info"
             THEN [ver |-> version[list], log |-> [c \in Channel |-> at[c]["log"]], cursor |-> cursor]
             ELSE [Never EXCEPT !.ver = version[list]]
Older(a, b) == \/ a.ver < b.ver
               \/ a.ver = b.ver /\ \E c \in Channel : a.log[c] < b.log[c] \/ a.cursor[c] < b.cursor[c]

ReadList(l) ==
    /\ l.pc = "list"
    /\ Becomes(l, {[pc |-> "listed", todo |-> l.todo, answer |-> Now(Head(l.todo))]})
    /\ UNCHANGED <<server, client, calls, conn, events, excused>>

Rest(l) == IF Len(l.todo) = 1 THEN {} ELSE {[pc |-> "list", todo |-> Tail(l.todo)]}

\* loadServerInfo selects a channel when none is; a selection is watched, and
\* loads the channel.
StoreList(l) ==
    LET list == Head(l.todo)
        first == list = "info" /\ selected = None
    IN /\ l.pc = "listed"
       /\ shown' = [shown EXCEPT ![list] = l.answer]
       /\ Excuse(list, Older(l.answer, shown[list]), l.answer = Now(list))
       /\ selected' = IF first THEN Home ELSE selected
       /\ loads' = Swap(loads, l, Rest(l) \union IF first THEN {Load(<<"page">>, Home)} ELSE {})
       /\ UNCHANGED <<server, page, calls, conn, events>>

Select(c) ==
    /\ selected # None /\ c # selected
    /\ selected' = c
    /\ Start({<<"page">>}, c)
    /\ excused' = excused \ {"page", "read"}
    /\ UNCHANGED <<server, page, shown, calls, conn, events>>

-----------------------------------------------------------------------------
(* Requests.                                                               *)

\* What the page fetches once a request of its own is answered.
Then(route) == CASE route \in OwnInChannel  -> {<<"page">>}
                 [] route \in OwnActions    -> {<<"actions">>}
                 [] route \in OwnMachines   -> {<<"machines">>}
                 [] route = DeleteMachine   -> {<<"machines", "info">>}
                 [] OTHER                   -> {<<"info">>}
Own == OwnInChannel \union OwnMembership \union OwnDirectory \union OwnActions \union OwnMachines
       \union {DeleteMachine}

Idle == [pc |-> "idle", stages |-> << >>, ch |-> None, then |-> {}]

\* own: by this page; by somebody else, or from another page, otherwise.
Arrive(r, route, ch, own) ==
    /\ calls[r] = Idle
    /\ calls' = [calls EXCEPT ![r] = [pc |-> "run", stages |-> route, ch |-> ch,
                                      then |-> IF own THEN Then(route) ELSE {}]]
    /\ UNCHANGED <<server, client, conn, events, loads, excused>>

\* What shows a change.
ShownAs(touches, ch) ==
    (touches \intersect List)
    \union (IF "log" \in touches THEN {"info"} ELSE {})
    \union (IF touches \intersect Column # {} /\ ch = selected THEN {"page"} ELSE {})

Announced(stages) == \E i \in DOMAIN stages : stages[i].events # << >>

\* A stage is stored.  What others change without an event may be shown old.
\* With the person's row goes what was read of the channel, shown or not.
Commit(r) ==
    LET call == calls[r]
        t == Head(call.stages).touches
    IN /\ call.pc = "run"
       /\ at' = [at EXCEPT ![call.ch] = [k \in Column |-> IF k \in t THEN @[k] + 1 ELSE @[k]]]
       /\ version' = [x \in List |-> IF x \in t THEN version[x] + 1 ELSE version[x]]
       /\ cursor' = [cursor EXCEPT ![call.ch] = IF "out" \in t THEN 0 ELSE @]
       /\ excused' = excused \union (IF call.then = {} /\ ~Announced(call.stages)
                                     THEN ShownAs(t, call.ch) ELSE {})
                             \union (IF "out" \in t /\ call.ch = selected THEN {"read"} ELSE {})
       /\ calls' = [calls EXCEPT ![r] = [call EXCEPT !.pc = "emit"]]
       /\ UNCHANGED <<client, conn, events, loads>>

\* What is lost with an event.
Lost(es) == UNION {CASE e.type = "message.created" -> ShownAs({"log"}, e.ch)
                     [] e.type \in {"task.updated", "reaction.updated"} -> ShownAs({"board"}, e.ch)
                     [] e.type = "action.prepared" -> {"actions"}
                     [] e.type = "action.updated" -> {"actions", "info"}
                     [] e.type = "machine.updated" -> {"machines", "info"} : e \in es}

\* The handler emits; a hub that is subscribed sends.  The request goes on, or
\* ends: one of the page's own is answered.
Emit(r) ==
    LET call == calls[r]
        types == Head(call.stages).events
        es == [i \in DOMAIN types |-> [type |-> types[i], ch |-> call.ch]]
        next == [call EXCEPT !.stages = Tail(@),
                             !.pc = IF Len(call.stages) = 1 THEN "done" ELSE "run"]
    IN /\ call.pc = "emit"
       /\ events' = IF conn = "up" THEN events \o es ELSE events
       /\ excused' = IF conn = "up" THEN excused ELSE excused \union Lost(Range(es))
       /\ calls' = [calls EXCEPT ![r] = IF next.pc = "done" /\ call.then = {} THEN Idle ELSE next]
       /\ UNCHANGED <<server, client, conn, loads>>

Answered(r) ==
    /\ calls[r].pc = "done"
    /\ Start(calls[r].then, selected)
    /\ calls' = [calls EXCEPT ![r] = Idle]
    /\ UNCHANGED <<server, client, conn, events, excused>>

\* The person reads on in another page, which lists up to seq n and marks it
\* read.  No event tells of it: the badges may be shown old.
ReadElsewhere(c, n) ==
    /\ n > cursor[c]
    /\ cursor' = [cursor EXCEPT ![c] = n]
    /\ excused' = excused \union {"info"}
    /\ UNCHANGED <<at, version, client, calls, conn, events, loads>>

-----------------------------------------------------------------------------
(* The socket.                                                             *)

\* useCrew's handler.  Mutant: no list of agents after machine.updated.
RefreshHalf(type) == IF type = "machine.updated" THEN {<<"machines">>}
                     ELSE IF type = "action.prepared" THEN {<<"actions">>}
                     ELSE IF type = "action.updated" THEN {<<"actions">>, <<"info">>}
                     ELSE {<<"page">>}
Refresh(type) == CASE type \in {"message.created", "task.updated", "reaction.updated"} -> {<<"page">>}
                   [] type = "action.prepared" -> {<<"actions">>}
                   [] type = "action.updated"  -> {<<"actions">>, <<"info">>}
                   [] type = "machine.updated" -> {<<"machines">>, <<"info">>}

Receive ==
    /\ events # << >>
    /\ Start(Refresh(Head(events).type), selected)
    /\ events' = Tail(events)
    /\ UNCHANGED <<server, client, calls, conn, excused>>

Connect == /\ conn = "down"
           /\ conn' = "opening"
           /\ UNCHANGED <<server, client, calls, events, loads, excused>>
Subscribe == /\ conn = "opening"
             /\ conn' = "up"
             /\ UNCHANGED <<server, client, calls, events, loads, excused>>

-----------------------------------------------------------------------------
(* Failures.                                                               *)

\* The socket closes: nothing is fetched when it is open again.
Close == /\ conn # "down"
         /\ conn' = "down"
         /\ events' = << >>
         /\ excused' = excused \union Lost(Range(events))
         /\ UNCHANGED <<server, client, calls, loads>>

\* A request of a load fails, or its answer is lost.
FailLoad(l) ==
    /\ CASE l.pc = "get"  -> Becomes(l, {}) /\ excused' = excused \union {"page", "info"}
         [] l.pc = "mark" -> Becomes(l, {ListInfo}) /\ excused' = excused \union {"read"}
         [] OTHER         -> Becomes(l, Rest(l)) /\ excused' = excused \union {Head(l.todo)}
    /\ UNCHANGED <<server, client, calls, conn, events>>

\* Nobody waits for the answer to a request.
Disowned(call) == IF call.pc = "done" THEN Idle ELSE [call EXCEPT !.then = {}]

\* The answer to a request of the page is lost: the page fetches nothing.
FailCall(r) ==
    /\ calls[r].then # {}
    /\ calls' = [calls EXCEPT ![r] = Disowned(@)]
    /\ excused' = excused \union List \union {"page"}
    /\ UNCHANGED <<server, client, conn, events, loads>>

\* The server ends: the bus is in its memory.  When it is up again no machine
\* is online.
Restart ==
    /\ version' = [version EXCEPT !["machines"] = @ + 1, !["info"] = @ + 1]
    /\ calls' = [r \in Request |-> Idle]
    /\ loads' = EmptyBag
    /\ events' = << >>
    /\ conn' = "down"
    /\ excused' = Thing
    /\ UNCHANGED <<at, cursor, client>>

-----------------------------------------------------------------------------
\* The page was opened, and everything fetched.
Init == /\ at = [c \in Channel |-> [k \in Column |-> 0]]
        /\ version = [l \in List |-> 0]
        /\ cursor = [c \in Channel |-> 0]
        /\ calls = [r \in Request |-> Idle]
        /\ conn = "up"
        /\ events = << >>
        /\ selected = Home
        /\ page = [ch |-> Home, at |-> at[Home]]
        /\ shown = [l \in List |-> Now(l)]
        /\ loads = EmptyBag
        /\ excused = {}
        /\ happened = 0

\* It is opened anew.  onMounted: server-info and computers are fetched;
\* ActionsView: cards.  The requests it made are nobody's.
Open ==
    /\ selected' = None
    /\ page' = [ch |-> None, at |-> [k \in Column |-> 0]]
    /\ shown' = [l \in List |-> Never]
    /\ loads' = SetToBag({Load(<<l>>, None) : l \in List})
    /\ conn' = "down"
    /\ events' = << >>
    /\ excused' = {}
    /\ calls' = [r \in Request |-> Disowned(calls[r])]
    /\ UNCHANGED server

Quiet == loads = EmptyBag /\ (\A r \in Request : calls[r] = Idle) /\ events = << >>

Step == \/ \E l \in BagToSet(loads) : \/ \E ks \in {{"log", "marks"}, {"board"}} : Answer(l, ks)
                                      \/ Store(l)
                                      \/ Mark(l)
                                      \/ ReadList(l)
                                      \/ StoreList(l)
        \/ \E r \in Request : Commit(r) \/ Emit(r) \/ Answered(r)
        \/ Receive
        \/ Connect
        \/ Subscribe
Failure == \/ Close \/ Restart
           \/ \E l \in BagToSet(loads) : FailLoad(l)
           \/ \E r \in Request : FailCall(r)

Next == \/ Step /\ UNCHANGED happened
        \/ /\ Happen
           /\ \/ \E c \in Channel : Select(c)
              \/ \E c \in Channel : \E n \in 1 .. at[c]["log"] : ReadElsewhere(c, n)
              \/ \E r \in Request :
                    \/ \E route \in Own : selected # None /\ Arrive(r, route, selected, TRUE)
                    \/ \E route \in OthersInChannel, c \in Channel : Arrive(r, route, c, FALSE)
                    \/ \E route \in Others : Arrive(r, route, Home, FALSE)
              \/ Open
              \/ Failure
        \* The bound is reached and nothing is under way.
        \/ Quiet /\ conn = "up" /\ happened = MaxHappen /\ UNCHANGED vars

Spec == Init /\ [][Next]_vars

-----------------------------------------------------------------------------
TypeOK == /\ at \in [Channel -> [Column -> Nat]]
          /\ version \in [List -> Nat]
          /\ cursor \in [Channel -> Nat]
          /\ conn \in {"down", "opening", "up"}
          /\ selected \in Channel \union {None}
          /\ page.ch \in Channel \union {None}
          /\ excused \subseteq Thing

\* Once nothing is under way the page shows the channel that is selected as the
\* server has it, and each list, unless a failure, an answer that overtook a
\* newer one or a change without an event is the reason.
QuietIsCurrent ==
    Quiet => /\ selected # None /\ "page" \notin excused => page = [ch |-> selected, at |-> at[selected]]
             /\ \A l \in List \ excused : shown[l] = Now(l)

\* Once nothing is under way the channel that is shown has no unread badge.
SelectedIsRead ==
    Quiet /\ selected # None /\ excused \intersect {"page", "info", "read"} = {}
        => Unread(shown["info"], selected) = 0
=============================================================================
