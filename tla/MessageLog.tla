----------------------------- MODULE MessageLog -----------------------------
(***************************************************************************)
(* How messages.append of server/src/repo/pg/repos.ts gives a message its  *)
(* number: in one transaction it takes the channel's advisory lock, reads  *)
(* the largest seq, inserts the row with the next one and commits, which   *)
(* releases the lock.  Transactions of several server processes interleave *)
(* between the statements; (channel, seq) is UNIQUE in db/schema.ts.       *)
(* tasks.create numbers the tasks of a workspace in the same way.          *)
(***************************************************************************)
EXTENDS Naturals, FiniteSets, FiniteSetsExt

CONSTANTS Channel, Sender, Request, None,
          MaxSeq     \* bound: appends are begun while a channel has room

ASSUME NoneIsNoRequest == None \notin Request

VARIABLES message,   \* message[c]: the committed rows of c, seq to sender
          lock,      \* the transaction that holds the advisory lock of c
          req        \* the appends in flight

vars == <<message, lock, req>>

Transaction == [pc      : {"idle", "lock", "max", "insert"},
                channel : Channel \cup {None},
                sender  : Sender \cup {None},
                seq     : Nat]             \* max + 1, once read

Idle == [pc |-> "idle", channel |-> None, sender |-> None, seq |-> 0]

TypeOK ==
    /\ DOMAIN message = Channel
    /\ \A c \in Channel :
        /\ DOMAIN message[c] \subseteq Nat
        /\ \A n \in DOMAIN message[c] : message[c][n] \in Sender
    /\ lock \in [Channel -> Request \cup {None}]
    /\ req \in [Request -> Transaction]

Init ==
    /\ message = [c \in Channel |-> [i \in {} |-> None]]
    /\ lock = [c \in Channel |-> None]
    /\ req = [r \in Request |-> Idle]

\* coalesce(max(seq), 0) over the committed rows.
LargestOf(S) == IF S = {} THEN 0 ELSE Max(S)
Latest(c) == LargestOf(DOMAIN message[c])

\* domain/seq.ts: the number after the largest one.
\* Mutant: one is left out.
nextSeqSkips(max) == max + 2
nextSeq(max) == max + 1

\* pg_advisory_xact_lock waits for the holder.
\* Mutant: no lock is taken.
LockFreeIgnored(c) == TRUE
LockFree(c) == lock[c] = None

\* The row with the number is there already: the UNIQUE constraint fails.
Taken(c, seq) == seq \in DOMAIN message[c]

\* The rows with one more.
\* Mutant: an upsert without a key touches every row.
WithRowEverywhere(rows, n, s) == [i \in DOMAIN rows \cup {n} |-> s]
WithRow(rows, n, s) == [i \in DOMAIN rows \cup {n} |-> IF i = n THEN s ELSE rows[i]]

InFlight(c) == {r \in Request : req[r].channel = c}

\* The end of a transaction releases its lock.
Release(r, c) == lock' = [lock EXCEPT ![c] = None]

-----------------------------------------------------------------------------
Begin(r, c, s) ==
    /\ req[r] = Idle
    /\ Latest(c) + Cardinality(InFlight(c)) < MaxSeq
    /\ req' = [req EXCEPT ![r] = [pc |-> "lock", channel |-> c, sender |-> s, seq |-> 0]]
    /\ UNCHANGED <<message, lock>>

TakeLock(r) ==
    LET c == req[r].channel IN
    /\ req[r].pc = "lock"
    /\ LockFree(c)
    /\ lock' = [lock EXCEPT ![c] = r]
    /\ req' = [req EXCEPT ![r].pc = "max"]
    /\ UNCHANGED message

ReadMax(r) ==
    LET c == req[r].channel IN
    /\ req[r].pc = "max"
    /\ req' = [req EXCEPT ![r].pc = "insert", ![r].seq = nextSeq(Latest(c))]
    /\ UNCHANGED <<message, lock>>

\* INSERT and COMMIT, the mentions with it; or the constraint rolls it back.
Insert(r) ==
    LET c == req[r].channel
        n == req[r].seq IN
    /\ req[r].pc = "insert"
    /\ \/ /\ ~Taken(c, n)
          /\ message' = [message EXCEPT ![c] = WithRow(@, n, req[r].sender)]
       \/ /\ Taken(c, n)
          /\ UNCHANGED message
    /\ Release(r, c)
    /\ req' = [req EXCEPT ![r] = Idle]

\* The connection or the server process of one transaction is lost.
Abort(r) ==
    /\ req[r].pc \in {"max", "insert"}
    /\ Release(r, req[r].channel)
    /\ req' = [req EXCEPT ![r] = Idle]
    /\ UNCHANGED message

Step(r) == TakeLock(r) \/ ReadMax(r) \/ Insert(r)

Next ==
    \E r \in Request :
        \/ \E c \in Channel, s \in Sender : Begin(r, c, s)
        \/ Step(r)
        \/ Abort(r)

\* Postgres grants a lock in the order of arrival, so a waiting transaction
\* gets it if it is released over and over; the others run to their end.
Fairness ==
    \A r \in Request : SF_vars(TakeLock(r)) /\ WF_vars(ReadMax(r) \/ Insert(r))

Spec == Init /\ [][Next]_vars
FairSpec == Spec /\ Fairness

-----------------------------------------------------------------------------
\* The numbers of a channel are exactly 1..n: nothing is numbered twice and
\* no number is left out, aborted appends included (repo/types.ts:36).
SeqsContiguous == \A c \in Channel : DOMAIN message[c] = 1 .. Latest(c)

\* No append ever runs into the UNIQUE constraint: between its read of the
\* largest seq and its insert nobody else takes the number.
NoDuplicateKey ==
    \A r \in Request : req[r].pc = "insert" => ~(req[r].seq \in DOMAIN message[req[r].channel])

\* The rows of a channel, in the order of their numbers.
Log == [c \in Channel |-> [i \in 1 .. Latest(c) |-> message[c][i]]]

Abstract == INSTANCE ChannelLog WITH log <- Log

\* Each commit appends one message at the end of its channel and nothing ever
\* changes a message that is there: what clients page through by seq is stable.
Implements == Abstract!Spec

\* An append that waits for the lock ends, committed or aborted: no transaction
\* keeps the others out forever.
AppendsEnd == \A r \in Request : req[r].pc = "lock" ~> req[r].pc = "idle"
=============================================================================
