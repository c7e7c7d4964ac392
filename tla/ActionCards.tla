---------------------------- MODULE ActionCards ----------------------------
(***************************************************************************)
(* Cards on which an agent prepares an action for a human to execute:      *)
(* server/src/services/action.service.ts and the actionCards repository.   *)
(* Executing reads the card, creates the channel or the agent, and then    *)
(* marks the card, three transactions in a row; dismissing marks it.  The  *)
(* mark is only set while the card is pending.  A server may end at any    *)
(* step of a call.                                                         *)
(***************************************************************************)
EXTENDS Naturals, FiniteSets

CONSTANTS Card, Request, Name, None,
          MaxCopy     \* bound: channels of one name

\* None makes no call, and a channel's name can be had.
ParametersOK == None \notin Request /\ MaxCopy \in Nat \ {0}

VARIABLES card, made, req

vars == <<card, made, req>>

\* Channels get a number when the name is taken (slug, slug-2, ...), agents none.
Resource == ({"channel:create"} \X Name \X (1 .. MaxCopy)) \cup ({"agent:create"} \X Name \X {0})

NoCard == [status |-> "none", kind |-> None, name |-> None, by |-> None, resultRef |-> None]
Idle == [pc |-> "idle", op |-> None, card |-> None, ref |-> None]

TypeOK ==
    /\ card \in [Card -> [status : {"none", "pending", "executed", "dismissed"},
                          kind : {None, "channel:create", "agent:create"}, name : Name \cup {None},
                          by : Request \cup {None}, resultRef : Resource \cup {None}]]
    /\ made \subseteq (Card \X Resource)
    /\ req \in [Request -> [pc : {"idle", "get", "create", "insert", "resolve", "ok", "conflict", "lost"},
                            op : {None, "execute", "dismiss"}, card : Card \cup {None},
                            ref : Resource \cup {None}]]

Init ==
    /\ card = [c \in Card |-> NoCard]
    /\ made = {}
    /\ req = [r \in Request |-> Idle]

-----------------------------------------------------------------------------
Taken(x) == \E m \in made : m[2] = x

To(r, pc) == req' = [req EXCEPT ![r].pc = pc]

prepare(c, kind, name) ==
    /\ card[c].status = "none"
    /\ card' = [card EXCEPT ![c] = [status |-> "pending", kind |-> kind, name |-> name,
                                     by |-> None, resultRef |-> None]]
    /\ UNCHANGED <<made, req>>

Call(r, op, c) ==
    /\ req[r].pc = "idle"
    /\ req' = [req EXCEPT ![r] = [pc |-> IF op = "execute" THEN "get" ELSE "resolve", op |-> op,
                                  card |-> c, ref |-> None]]
    /\ UNCHANGED <<card, made>>

\* execute: the card must be pending when it is read.
Get(r) ==
    /\ req[r].pc = "get"
    /\ To(r, IF card[req[r].card].status = "pending" THEN "create" ELSE "conflict")
    /\ UNCHANGED <<card, made>>

\* The name: the first free number of a channel.
Create(r, x) ==
    LET c == card[req[r].card] IN
    /\ req[r].pc = "create"
    /\ x \in Resource /\ x[1] = c.kind /\ x[2] = c.name
    /\ c.kind = "channel:create" =>
        /\ ~Taken(x)
        /\ \A y \in Resource : y[1] = x[1] /\ y[2] = x[2] /\ ~Taken(y) => x[3] <= y[3]
    /\ req' = [req EXCEPT ![r].pc = "insert", ![r].ref = x]
    /\ UNCHANGED <<card, made>>

\* The insert fails if the name is taken by now.  Mutants: what cannot be
\* inserted is taken for there; nothing keeps the names apart.
InsertAnyway(r) ==
    /\ req[r].pc = "insert"
    /\ made' = made \cup {<<req[r].card, req[r].ref>>}
    /\ To(r, "resolve")
    /\ UNCHANGED card
InsertOrTaken(r) ==
    /\ req[r].pc = "insert"
    /\ made' = IF Taken(req[r].ref) THEN made ELSE made \cup {<<req[r].card, req[r].ref>>}
    /\ To(r, "resolve")
    /\ UNCHANGED card
Insert(r) ==
    /\ req[r].pc = "insert"
    /\ IF Taken(req[r].ref) THEN To(r, "conflict") /\ UNCHANGED made
       ELSE made' = made \cup {<<req[r].card, req[r].ref>>} /\ To(r, "resolve")
    /\ UNCHANGED card

\* Mutant: without the condition on the status.
StillPendingNot(c) == TRUE
StillPending(c) == card[c].status = "pending"

\* The new status.
Mark(op) == IF op = "execute" THEN "executed" ELSE "dismissed"

\* The mark of a dismissal leaves the result alone.
resolve(r) ==
    LET c == req[r].card IN
    /\ req[r].pc = "resolve"
    /\ IF StillPending(c)
       THEN /\ card' = [card EXCEPT ![c] = [@ EXCEPT !.status = Mark(req[r].op), !.by = r, !.resultRef = req[r].ref]]
            /\ To(r, "ok")
       ELSE To(r, "conflict") /\ UNCHANGED card
    /\ UNCHANGED made

\* The server ends, or a statement fails.
Lose(r) ==
    /\ req[r].pc \in {"get", "create", "insert", "resolve"}
    /\ To(r, "lost")
    /\ UNCHANGED <<card, made>>

Next ==
    \/ \E c \in Card, k \in {"channel:create", "agent:create"}, n \in Name : prepare(c, k, n)
    \/ \E r \in Request :
        \/ \E op \in {"execute", "dismiss"}, c \in Card : Call(r, op, c)
        \/ Get(r) \/ Insert(r) \/ resolve(r) \/ Lose(r)
        \/ \E x \in Resource : Create(r, x)

Spec == Init /\ [][Next]_vars

-----------------------------------------------------------------------------
\* action.service.ts:59: of all calls on a card one succeeds, and it is the one
\* the card names.
OneWinner ==
    \A r \in Request : req[r].pc = "ok" => card[req[r].card].by = r

\* An executed card names something that was created for it.
ExecutedIsMade ==
    \A c \in Card : card[c].status = "executed" => <<c, card[c].resultRef>> \in made

\* No two cards, nor two executions of one, get the same name.
NamesAreDistinct ==
    \A m, n \in made : m[2] = n[2] => m = n

\* Nothing changes on a card that is executed or dismissed.
ResolvedIsFinal ==
    [][\A c \in Card : card[c].status \in {"executed", "dismissed"} => card'[c] = card[c]]_vars

-----------------------------------------------------------------------------
(* What a comment says and the code does not keep.                         *)

\* action.service.ts:6: no card is executed twice.  The channel is created
\* before the card is marked, so two calls create two.
EffectOnce ==
    \A m, n \in made : m[1] = n[1] => m = n
=============================================================================
