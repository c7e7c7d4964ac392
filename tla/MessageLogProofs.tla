-------------------------- MODULE MessageLogProofs --------------------------
(***************************************************************************)
(* Proofs about MessageLog, for any number of channels, senders and        *)
(* transactions.  The heart is SerialInv: a transaction past the lock is   *)
(* the one its channel's lock belongs to, and the number it is about to    *)
(* insert is still the next one.                                           *)
(*                                                                         *)
(* Posting with its files rests on it: to the log every step of Posting is *)
(* a step of MessageLog.  UploadInv says of each upload where its bytes    *)
(* and its row can be, by how far its submission is.                       *)
(***************************************************************************)
EXTENDS Posting, Integers, Sequences, TLAPS

Holding(r) == req[r].pc \in {"max", "insert"}

RowsInv ==
    /\ DOMAIN message = Channel
    /\ \A c \in Channel :
        /\ Latest(c) \in Nat
        /\ message[c] \in [1 .. Latest(c) -> Sender]

RequestInv ==
    \A r \in Request : req[r].pc # "idle" =>
        req[r].channel \in Channel /\ req[r].sender \in Sender

Serial(r) ==
    /\ Holding(r) => lock[req[r].channel] = r
    /\ req[r].pc = "insert" => req[r].seq = Latest(req[r].channel) + 1

SerialInv == \A r \in Request : Serial(r)

IInv ==
    /\ lock \in [Channel -> Request \cup {None}]
    /\ req \in [Request -> Transaction]
    /\ message = [c \in Channel |-> message[c]]
    /\ RowsInv
    /\ RequestInv
    /\ SerialInv

\* What coalesce(max(seq), 0) is when the numbers are 1..n.
LEMMA LargestOfDense == \A n \in Nat : LargestOf(1 .. n) = n
<1> SUFFICES ASSUME NEW n \in Nat PROVE LargestOf(1 .. n) = n
    OBVIOUS
<1>1. CASE n = 0
    BY <1>1, 1 .. 0 = {} DEF LargestOf
<1>2. CASE n # 0
    <2>1. n \in 1 .. n /\ \A y \in 1 .. n : n >= y
        BY <1>2
    <2>2. \A x \in 1 .. n : (\A y \in 1 .. n : x >= y) => x = n
        BY <2>1
    <2>3. (CHOOSE x \in 1 .. n : \A y \in 1 .. n : x >= y) = n
        BY <2>1, <2>2
    <2> QED
        BY <2>1, <2>3 DEF LargestOf, Max
<1> QED
    BY <1>1, <1>2

\* The rows after an insert of the next number.
LEMMA RowAppended ==
    ASSUME NEW n \in Nat, NEW rows \in [1 .. n -> Sender], NEW s \in Sender
    PROVE  /\ WithRow(rows, n + 1, s) \in [1 .. n + 1 -> Sender]
           /\ \A i \in 1 .. n : WithRow(rows, n + 1, s)[i] = rows[i]
           /\ WithRow(rows, n + 1, s)[n + 1] = s
<1>1. DOMAIN rows \cup {n + 1} = 1 .. n + 1
    OBVIOUS
<1> QED
    BY <1>1 DEF WithRow

LEMMA InitInv == Init => IInv
<1> SUFFICES ASSUME Init PROVE IInv
    OBVIOUS
<1>1. \A c \in Channel : DOMAIN message[c] = 1 .. 0
    BY 1 .. 0 = {} DEF Init
<1>2. \A c \in Channel : Latest(c) = 0
    BY <1>1, LargestOfDense DEF Latest
<1>3. RowsInv
    BY <1>1, <1>2 DEF Init, RowsInv
<1>4. \A r \in Request : req[r] = Idle
    BY DEF Init
<1>5. Idle \in Transaction /\ Idle.pc = "idle"
    BY DEF Idle, Transaction
<1>6. RequestInv /\ SerialInv
    BY <1>4, <1>5 DEF RequestInv, SerialInv, Serial, Holding
<1> QED
    BY <1>3, <1>5, <1>6 DEF Init, IInv

\* A step that leaves the rows alone leaves their numbers alone.
LEMMA LatestUnchanged ==
    ASSUME UNCHANGED message
    PROVE  \A c : Latest(c)' = Latest(c)
BY DEF Latest

LEMMA NextInv == IInv /\ [Next]_vars => IInv'
<1> SUFFICES ASSUME IInv, [Next]_vars PROVE IInv'
    OBVIOUS
<1> USE DEF IInv
<1>1. ASSUME NEW r \in Request, NEW c \in Channel, NEW s \in Sender, Begin(r, c, s)
      PROVE  IInv'
    <2>2. req' = [req EXCEPT ![r] = [pc |-> "lock", channel |-> c, sender |-> s, seq |-> 0]]
        BY <1>1 DEF Begin
    <2>3. req' \in [Request -> Transaction]
        BY <2>2 DEF Transaction
    <2>4. RowsInv' /\ RequestInv'
        BY <1>1, <2>2, <2>3, LatestUnchanged DEF Begin, RowsInv, RequestInv
    <2>5. SerialInv'
        BY <1>1, <2>2, <2>3, LatestUnchanged DEF Begin, SerialInv, Serial, Holding
    <2> QED
        BY <1>1, <2>3, <2>4, <2>5 DEF Begin
<1>2. ASSUME NEW r \in Request, TakeLock(r)
      PROVE  IInv'
    <2>1. PICK c \in Channel : c = req[r].channel
        BY <1>2 DEF TakeLock, RequestInv
    <2>2. /\ lock' = [lock EXCEPT ![c] = r] /\ lock[c] = None
          /\ req' = [req EXCEPT ![r].pc = "max"] /\ message' = message
        BY <1>2, <2>1 DEF TakeLock, LockFree
    <2>3. req' \in [Request -> Transaction] /\ lock' \in [Channel -> Request \cup {None}]
        BY <2>1, <2>2 DEF Transaction
    <2>4. RowsInv' /\ RequestInv'
        BY <1>2, <2>2, <2>3, LatestUnchanged DEF TakeLock, RowsInv, RequestInv, Transaction
    <2>5. SerialInv'
        <3> SUFFICES ASSUME NEW q \in Request
                     PROVE  Serial(q)'
            BY DEF SerialInv
        <3>1. CASE q = r
            BY <2>1, <2>2, <3>1 DEF Serial, Holding, Transaction
        <3>2. CASE q # r
            <4>1. req'[q] = req[q]
                BY <2>2, <3>2
            <4>2. Holding(q) => req[q].channel # c
                BY <2>2, NoneIsNoRequest DEF SerialInv, Serial
            <4> QED
                BY <2>1, <2>2, <4>1, <4>2, LatestUnchanged DEF SerialInv, Serial, Holding
        <3> QED
            BY <3>1, <3>2
    <2> QED
        BY <2>2, <2>3, <2>4, <2>5
<1>3. ASSUME NEW r \in Request, ReadMax(r)
      PROVE  IInv'
    <2>1. PICK c \in Channel : c = req[r].channel
        BY <1>3 DEF ReadMax, RequestInv
    <2>2. PICK n \in Nat : n = Latest(c)
        BY DEF RowsInv
    <2>3. UNCHANGED <<message, lock>>
        BY <1>3 DEF ReadMax
    <2>4. req' \in [Request -> Transaction]
        <3>1. [req[r] EXCEPT !.pc = "insert"] \in Transaction
            BY DEF Transaction
        <3>2. \A t \in Transaction : [t EXCEPT !.seq = n + 1] \in Transaction
            BY DEF Transaction
        <3>3. req' = [req EXCEPT ![r] = [[req[r] EXCEPT !.pc = "insert"] EXCEPT !.seq = n + 1]]
            BY <1>3, <2>1, <2>2 DEF ReadMax, nextSeq
        <3> QED
            BY <3>1, <3>2, <3>3
    <2>7. /\ req'[r].pc = "insert" /\ req'[r].channel = c /\ req'[r].seq = n + 1
          /\ req'[r].sender = req[r].sender
          /\ \A q \in Request : q # r => req'[q] = req[q]
        BY <1>3, <2>1, <2>2 DEF ReadMax, nextSeq, Transaction
    <2>5. RowsInv' /\ RequestInv'
        BY <1>3, <2>1, <2>3, <2>7, LatestUnchanged DEF ReadMax, RowsInv, RequestInv
    <2>6. SerialInv'
        <3>1. Serial(r)'
            BY <1>3, <2>1, <2>2, <2>3, <2>7, LatestUnchanged
            DEF ReadMax, SerialInv, Serial, Holding
        <3>2. ASSUME NEW q \in Request, q # r PROVE Serial(q)'
            BY <2>3, <2>7, <3>2, LatestUnchanged DEF SerialInv, Serial, Holding
        <3> QED
            BY <3>1, <3>2 DEF SerialInv
    <2> QED
        BY <2>3, <2>4, <2>5, <2>6
<1>4. ASSUME NEW r \in Request, Insert(r)
      PROVE  IInv'
    <2>1. PICK c \in Channel, n \in Nat, s \in Sender :
              c = req[r].channel /\ n = Latest(c) /\ s = req[r].sender /\ lock[c] = r
        BY <1>4 DEF Insert, RequestInv, RowsInv, SerialInv, Serial, Holding
    <2>2. /\ message' = [message EXCEPT ![c] = WithRow(message[c], n + 1, s)]
          /\ lock' = [lock EXCEPT ![c] = None]
          /\ req' = [req EXCEPT ![r] = Idle]
        <3>1. req[r].seq = n + 1
            BY <1>4, <2>1 DEF Insert, SerialInv, Serial
        <3>2. ~Taken(c, n + 1)
            BY <2>1 DEF Taken, RowsInv
        <3> QED
            BY <1>4, <2>1, <3>1, <3>2 DEF Insert, Release
    <2>3. Idle \in Transaction /\ Idle.pc = "idle"
        BY DEF Idle, Transaction
    <2>4. req' \in [Request -> Transaction] /\ lock' \in [Channel -> Request \cup {None}]
        BY <2>1, <2>2, <2>3
    <2>5. message'[c] \in [1 .. n + 1 -> Sender] /\ Latest(c)' = n + 1
        <3>1. message'[c] \in [1 .. n + 1 -> Sender]
            BY <2>1, <2>2, RowAppended DEF RowsInv
        <3>2. Latest(c)' = n + 1
            BY <2>1, <3>1, LargestOfDense DEF Latest
        <3> QED
            BY <3>1, <3>2
    <2>6. \A d \in Channel : d # c => message'[d] = message[d] /\ Latest(d)' = Latest(d)
        BY <2>2 DEF RowsInv, Latest
    <2>7. RowsInv'
        BY <2>1, <2>2, <2>5, <2>6 DEF RowsInv
    <2>8. RequestInv'
        BY <2>2, <2>3 DEF RequestInv
    <2>9. SerialInv'
        <3> SUFFICES ASSUME NEW q \in Request
                     PROVE  Serial(q)'
            BY DEF SerialInv
        <3>1. CASE q = r
            BY <2>2, <2>3, <3>1 DEF Serial, Holding
        <3>2. CASE q # r
            <4>1. req'[q] = req[q]
                BY <2>2, <3>2
            <4>2. Holding(q) => req[q].channel # c /\ req[q].channel \in Channel
                BY <2>1, <3>2 DEF SerialInv, Serial, RequestInv, Holding
            <4> QED
                BY <2>1, <2>2, <2>6, <4>1, <4>2 DEF SerialInv, Serial, Holding
        <3> QED
            BY <3>1, <3>2
    <2> QED
        BY <2>2, <2>4, <2>7, <2>8, <2>9
<1>5. ASSUME NEW r \in Request, Abort(r)
      PROVE  IInv'
    <2>1. PICK c \in Channel : c = req[r].channel /\ lock[c] = r
        BY <1>5 DEF Abort, RequestInv, SerialInv, Serial, Holding
    <2>2. /\ lock' = [lock EXCEPT ![c] = None]
          /\ req' = [req EXCEPT ![r] = Idle]
          /\ message' = message
        BY <1>5, <2>1 DEF Abort, Release
    <2>3. Idle \in Transaction /\ Idle.pc = "idle"
        BY DEF Idle, Transaction
    <2>4. req' \in [Request -> Transaction] /\ lock' \in [Channel -> Request \cup {None}]
        BY <2>1, <2>2, <2>3
    <2>5. RowsInv' /\ RequestInv'
        BY <2>2, <2>3, LatestUnchanged DEF RowsInv, RequestInv
    <2>6. SerialInv'
        <3> SUFFICES ASSUME NEW q \in Request
                     PROVE  Serial(q)'
            BY DEF SerialInv
        <3>1. CASE q = r
            BY <2>2, <2>3, <3>1 DEF Serial, Holding
        <3>2. CASE q # r
            BY <2>1, <2>2, <3>2, LatestUnchanged DEF SerialInv, Serial, RequestInv, Holding
        <3> QED
            BY <3>1, <3>2
    <2> QED
        BY <2>2, <2>4, <2>5, <2>6
<1>6. ASSUME UNCHANGED vars
      PROVE  IInv'
    BY <1>6 DEF vars, RowsInv, RequestInv, SerialInv, Serial, Holding, Latest
<1> QED
    BY <1>1, <1>2, <1>3, <1>4, <1>5, <1>6 DEF Next, Step

\* The serialization argument: the inductive invariant holds in every state.
THEOREM Invariance == Spec => []IInv
BY InitInv, NextInv, PTL DEF Spec

\* The repository's variables keep their types (messages.append, repos.ts:92).
THEOREM TypeCorrect == Spec => []TypeOK
<1>1. IInv => TypeOK
    <2> SUFFICES ASSUME IInv PROVE TypeOK
        OBVIOUS
    <2>1. ASSUME NEW c \in Channel
          PROVE  /\ DOMAIN message[c] \subseteq Nat
                 /\ \A n \in DOMAIN message[c] : message[c][n] \in Sender
        <3>1. PICK k \in Nat : message[c] \in [1 .. k -> Sender]
            BY DEF IInv, RowsInv
        <3> QED
            BY <3>1
    <2> QED
        BY <2>1 DEF IInv, TypeOK, RowsInv
<1> QED
    BY Invariance, <1>1, PTL

\* The numbers of a channel are exactly 1..n, whatever appends are aborted
\* (messages.append, repos.ts:92; the promise of repo/types.ts:36).
THEOREM NumbersAreDense == Spec => []SeqsContiguous
<1>1. IInv => SeqsContiguous
    BY DEF IInv, SeqsContiguous, RowsInv
<1> QED
    BY Invariance, <1>1, PTL

\* No append runs into the UNIQUE (channel, seq) constraint (schema.ts:165):
\* what it read of the largest seq is still true when it inserts.
THEOREM ConstraintNeverBites == Spec => []NoDuplicateKey
<1>1. IInv => NoDuplicateKey
    BY DEF IInv, NoDuplicateKey, RowsInv, RequestInv, SerialInv, Serial
<1> QED
    BY Invariance, <1>1, PTL

\* Every step of the repository appends one message at the end of one channel
\* or changes no channel at all: the rows implement the append-only log that
\* clients page through by seq (messages.list, repos.ts:161).
THEOREM Refinement == Spec => Implements
<1>1. Init => Abstract!Init
    <2> SUFFICES ASSUME Init PROVE Log = [c \in Channel |-> <<>>]
        BY DEF Abstract!Init
    <2>1. \A c \in Channel : Latest(c) = 0
        BY LargestOfDense, 1 .. 0 = {} DEF Init, Latest
    <2>2. \A c \in Channel : [i \in 1 .. Latest(c) |-> message[c][i]] = <<>>
        BY <2>1
    <2> QED
        BY <2>2 DEF Log
<1>2. IInv /\ [Next]_vars => [Abstract!Next]_Log
    <2> SUFFICES ASSUME IInv, [Next]_vars PROVE Abstract!Next \/ Log' = Log
        OBVIOUS
    <2>1. ASSUME UNCHANGED message PROVE Log' = Log
        BY <2>1 DEF Log, Latest
    <2>2. ASSUME NEW r \in Request, Insert(r) PROVE Abstract!Next
        <3>1. PICK c \in Channel, n \in Nat, s \in Sender :
                  c = req[r].channel /\ n = Latest(c) /\ s = req[r].sender
            BY <2>2 DEF IInv, Insert, RequestInv, RowsInv
        <3>2. message' = [message EXCEPT ![c] = WithRow(message[c], n + 1, s)]
            <4>1. req[r].seq = n + 1
                BY <2>2, <3>1 DEF IInv, Insert, SerialInv, Serial
            <4>2. ~Taken(c, n + 1)
                BY <3>1 DEF IInv, Taken, RowsInv
            <4> QED
                BY <2>2, <3>1, <4>1, <4>2 DEF Insert
        <3>3. /\ message'[c] \in [1 .. n + 1 -> Sender]
              /\ \A i \in 1 .. n : message'[c][i] = message[c][i]
              /\ message'[c][n + 1] = s
            <4>1. message'[c] = WithRow(message[c], n + 1, s) /\ message[c] \in [1 .. n -> Sender]
                BY <3>1, <3>2 DEF IInv, RowsInv
            <4>2. PICK rows \in [1 .. n -> Sender] : rows = message[c]
                BY <4>1
            <4>3. /\ WithRow(rows, n + 1, s) \in [1 .. n + 1 -> Sender]
                  /\ \A i \in 1 .. n : WithRow(rows, n + 1, s)[i] = rows[i]
                  /\ WithRow(rows, n + 1, s)[n + 1] = s
                BY RowAppended
            <4> QED
                BY <4>1, <4>2, <4>3
        <3>4. Latest(c)' = n + 1
            BY <3>1, <3>3, LargestOfDense DEF Latest
        <3>5. \A d \in Channel : d # c => message'[d] = message[d] /\ Latest(d)' = Latest(d)
            BY <3>2 DEF IInv, RowsInv, Latest
        <3>6. [i \in 1 .. n + 1 |-> message'[c][i]] =
              Append([i \in 1 .. n |-> message[c][i]], s)
            BY <3>1, <3>3 DEF IInv, RowsInv
        <3>7. Log' = [Log EXCEPT ![c] = Append(@, s)]
            <4>1. Log[c] = [i \in 1 .. n |-> message[c][i]]
                BY <3>1 DEF Log
            <4>2. Log'[c] = Append(Log[c], s)
                BY <3>1, <3>4, <3>6, <4>1 DEF Log
            <4>3. \A d \in Channel : d # c => Log'[d] = Log[d]
                BY <3>5 DEF Log
            <4>4. Log = [d \in Channel |-> Log[d]] /\ Log' = [d \in Channel |-> Log'[d]]
                BY DEF Log
            <4> QED
                BY <4>2, <4>3, <4>4
        <3> QED
            BY <3>1, <3>7 DEF Abstract!Next, Abstract!Post
    <2>3. ASSUME NEW r \in Request,
                 \/ \E c \in Channel, s \in Sender : Begin(r, c, s)
                 \/ TakeLock(r) \/ ReadMax(r) \/ Abort(r)
          PROVE  UNCHANGED message
        BY <2>3 DEF Begin, TakeLock, ReadMax, Abort
    <2> QED
        BY <2>1, <2>2, <2>3 DEF Next, Step, vars
<1> QED
    BY Invariance, <1>1, <1>2, PTL DEF Spec, Implements, Abstract!Spec

-----------------------------------------------------------------------------
(* Posting.                                                                *)

Submission == [pc : {"idle", "check", "append", "appending", "put", "insert", "clean", "ok", "failed"},
               channel : Channel \cup {None}, sender : Sender \cup {None},
               files : SUBSET File, again : Request \cup {None}, seq : Nat,
               left : SUBSET File, file : File \cup {None},
               why : {None, "refused", "append", "put", "insert", "unknown", "delete", "lost"}]

\* An append is in flight only while its submission waits for it, and a submission
\* that was made has a channel and a sender.
Appending ==
    \A r \in Request :
        /\ req[r].pc # "idle" => submit[r].pc = "appending"
        /\ submit[r].pc # "idle" => submit[r].channel \in Channel /\ submit[r].sender \in Sender

\* The upload under way has its bytes; what is left has no row; a row is without
\* its bytes, and bytes are without their row, only as the failures leave them.
Uploading ==
    \A r \in Request :
        /\ submit[r].pc \in {"insert", "clean"} => submit[r].file \in File
        /\ submit[r].pc = "insert" => submit[r].file \in submit[r].left
        /\ submit[r].pc = "clean" => submit[r].why \in {"insert", "unknown"}
        /\ \A f \in File :
            /\ submit[r].pc \in {"idle", "check", "append", "appending"} => <<r, f>> \notin row
            /\ submit[r].pc \in {"put", "insert"} /\ f \in submit[r].left => <<r, f>> \notin row
            /\ submit[r].pc \in {"insert", "clean"} /\ submit[r].file = f => <<r, f>> \in blob
            /\ submit[r].pc = "clean" /\ submit[r].file = f /\ submit[r].why = "insert" => <<r, f>> \notin row
            /\ <<r, f>> \in row /\ <<r, f>> \notin blob =>
                  submit[r].pc = "failed" /\ submit[r].why = "unknown" /\ submit[r].file = f
            /\ <<r, f>> \in blob /\ <<r, f>> \notin row =>
                  \/ submit[r].pc \in {"insert", "clean"} /\ submit[r].file = f
                  \/ submit[r].pc = "failed" /\ submit[r].why \in {"put", "delete", "lost"}

UploadInv == PostTypeOK /\ Appending /\ Uploading

LEMMA SubmissionType ==
    ASSUME PostTypeOK
    PROVE  submit \in [Request -> Submission]
BY DEF PostTypeOK, Submission

\* One submission changes.
LEMMA OneSubmission ==
    ASSUME PostTypeOK, NEW r \in Request, NEW call \in Submission, submit' = [submit EXCEPT ![r] = call]
    PROVE  /\ submit' \in [Request -> Submission]
           /\ submit'[r] = call
           /\ \A q \in Request : q # r => submit'[q] = submit[q]
BY SubmissionType

\* The invariant holds after a step of one submission if it does for that one.
LEMMA UploadStep ==
    ASSUME UploadInv, PostTypeOK',
           NEW r \in Request,
           \A q \in Request : q # r => submit'[q] = submit[q] /\ req'[q].pc = req[q].pc,
           \A q \in Request, f \in File : q # r =>
              (<<q, f>> \in row' <=> <<q, f>> \in row) /\ (<<q, f>> \in blob' <=> <<q, f>> \in blob),
           req'[r].pc # "idle" => submit'[r].pc = "appending",
           submit'[r].pc # "idle" => submit'[r].channel \in Channel /\ submit'[r].sender \in Sender,
           submit'[r].pc \in {"insert", "clean"} => submit'[r].file \in File,
           submit'[r].pc = "insert" => submit'[r].file \in submit'[r].left,
           submit'[r].pc = "clean" => submit'[r].why \in {"insert", "unknown"},
           \A f \in File :
            /\ submit'[r].pc \in {"idle", "check", "append", "appending"} => <<r, f>> \notin row'
            /\ submit'[r].pc \in {"put", "insert"} /\ f \in submit'[r].left => <<r, f>> \notin row'
            /\ submit'[r].pc \in {"insert", "clean"} /\ submit'[r].file = f => <<r, f>> \in blob'
            /\ submit'[r].pc = "clean" /\ submit'[r].file = f /\ submit'[r].why = "insert" => <<r, f>> \notin row'
            /\ <<r, f>> \in row' /\ <<r, f>> \notin blob' =>
                  submit'[r].pc = "failed" /\ submit'[r].why = "unknown" /\ submit'[r].file = f
            /\ <<r, f>> \in blob' /\ <<r, f>> \notin row' =>
                  \/ submit'[r].pc \in {"insert", "clean"} /\ submit'[r].file = f
                  \/ submit'[r].pc = "failed" /\ submit'[r].why \in {"put", "delete", "lost"}
    PROVE  UploadInv'
<1>1. Appending'
    BY DEF UploadInv, Appending
<1>2. ASSUME NEW q \in Request, q # r
      PROVE  /\ submit'[q].pc \in {"insert", "clean"} => submit'[q].file \in File
             /\ submit'[q].pc = "insert" => submit'[q].file \in submit'[q].left
             /\ submit'[q].pc = "clean" => submit'[q].why \in {"insert", "unknown"}
             /\ \A f \in File :
                 /\ submit'[q].pc \in {"idle", "check", "append", "appending"} => <<q, f>> \notin row'
                 /\ submit'[q].pc \in {"put", "insert"} /\ f \in submit'[q].left => <<q, f>> \notin row'
                 /\ submit'[q].pc \in {"insert", "clean"} /\ submit'[q].file = f => <<q, f>> \in blob'
                 /\ submit'[q].pc = "clean" /\ submit'[q].file = f /\ submit'[q].why = "insert" => <<q, f>> \notin row'
                 /\ <<q, f>> \in row' /\ <<q, f>> \notin blob' =>
                       submit'[q].pc = "failed" /\ submit'[q].why = "unknown" /\ submit'[q].file = f
                 /\ <<q, f>> \in blob' /\ <<q, f>> \notin row' =>
                       \/ submit'[q].pc \in {"insert", "clean"} /\ submit'[q].file = f
                       \/ submit'[q].pc = "failed" /\ submit'[q].why \in {"put", "delete", "lost"}
    <2>1. submit'[q] = submit[q]
        BY <1>2
    <2>2. \A f \in File : (<<q, f>> \in row' <=> <<q, f>> \in row) /\ (<<q, f>> \in blob' <=> <<q, f>> \in blob)
        BY <1>2
    <2> QED
        BY <2>1, <2>2 DEF UploadInv, Uploading
<1>3. Uploading'
    BY <1>2 DEF Uploading
<1> QED
    BY <1>1, <1>3 DEF UploadInv

LEMMA PostInitInv == PostInit => UploadInv
<1> SUFFICES ASSUME PostInit PROVE UploadInv
    OBVIOUS
<1>1. NoSubmit \in Submission /\ NoSubmit.pc = "idle"
    BY DEF NoSubmit, Submission
<1>2. submit = [r \in Request |-> NoSubmit] /\ blob = {} /\ row = {} /\ archived \in [Channel -> BOOLEAN]
    BY DEF PostInit
<1>3. PostTypeOK
    BY <1>1, <1>2 DEF PostTypeOK, Submission
<1>4. \A r \in Request : req[r].pc = "idle"
    BY DEF PostInit, Init, Idle
<1> QED
    BY <1>1, <1>2, <1>3, <1>4 DEF UploadInv, Appending, Uploading

LEMMA GoesTo ==
    ASSUME PostTypeOK, NEW r \in Request,
           NEW pc \in {"check", "append", "appending", "clean", "failed"}, To(r, pc)
    PROVE  /\ submit' \in [Request -> Submission]
           /\ submit'[r] = [submit[r] EXCEPT !.pc = pc]
           /\ submit'[r].pc = pc /\ submit'[r].channel = submit[r].channel /\ submit'[r].sender = submit[r].sender
           /\ submit'[r].left = submit[r].left /\ submit'[r].file = submit[r].file /\ submit'[r].why = submit[r].why
           /\ \A q \in Request : q # r => submit'[q] = submit[q]
<1> DEFINE call == [submit[r] EXCEPT !.pc = pc]
<1>1. submit[r] \in Submission
    BY SubmissionType
<1>2. call \in Submission /\ call.pc = pc /\ call.channel = submit[r].channel /\ call.sender = submit[r].sender
      /\ call.left = submit[r].left /\ call.file = submit[r].file /\ call.why = submit[r].why
    BY <1>1 DEF Submission
<1>3. submit' = [submit EXCEPT ![r] = call]
    BY DEF To
<1>4. call = [submit[r] EXCEPT !.pc = pc]
    OBVIOUS
<1> HIDE DEF call
<1>5. submit' \in [Request -> Submission] /\ submit'[r] = call /\ \A q \in Request : q # r => submit'[q] = submit[q]
    BY <1>2, <1>3, OneSubmission
<1> QED
    BY <1>2, <1>4, <1>5

LEMMA GoesWrong ==
    ASSUME PostTypeOK, NEW r \in Request,
           NEW pc \in {"clean", "failed"},
           NEW why \in {"refused", "append", "put", "insert", "unknown", "delete", "lost"},
           submit' = [submit EXCEPT ![r].pc = pc, ![r].why = why]
    PROVE  /\ submit' \in [Request -> Submission]
           /\ submit'[r].pc = pc /\ submit'[r].why = why
           /\ submit'[r].channel = submit[r].channel /\ submit'[r].sender = submit[r].sender
           /\ submit'[r].left = submit[r].left /\ submit'[r].file = submit[r].file
           /\ \A q \in Request : q # r => submit'[q] = submit[q]
<1> DEFINE call == [submit[r] EXCEPT !.pc = pc, !.why = why]
<1>1. submit \in [Request -> Submission] /\ submit[r] \in Submission
    BY SubmissionType
<1>2. call \in Submission /\ call.pc = pc /\ call.why = why
      /\ call.channel = submit[r].channel /\ call.sender = submit[r].sender
      /\ call.left = submit[r].left /\ call.file = submit[r].file
    BY ZenonT(30), <1>1 DEF Submission
<1>3. submit' = [submit EXCEPT ![r] = call]
    BY <1>1
<1> HIDE DEF call
<1>4. submit' \in [Request -> Submission] /\ submit'[r] = call /\ \A q \in Request : q # r => submit'[q] = submit[q]
    BY <1>2, <1>3, OneSubmission
<1> QED
    BY <1>2, <1>4

\* What the invariant says of one submission.
LEMMA OneUpload ==
    ASSUME UploadInv, NEW r \in Request
    PROVE  /\ PostTypeOK /\ submit[r] \in Submission
           /\ req[r].pc # "idle" => submit[r].pc = "appending"
           /\ submit[r].pc # "idle" => submit[r].channel \in Channel /\ submit[r].sender \in Sender
           /\ submit[r].pc \in {"insert", "clean"} => submit[r].file \in File
           /\ submit[r].pc = "insert" => submit[r].file \in submit[r].left
           /\ submit[r].pc = "clean" => submit[r].why \in {"insert", "unknown"}
           /\ \A f \in File :
               /\ submit[r].pc \in {"idle", "check", "append", "appending"} => <<r, f>> \notin row
               /\ submit[r].pc \in {"put", "insert"} /\ f \in submit[r].left => <<r, f>> \notin row
               /\ submit[r].pc \in {"insert", "clean"} /\ submit[r].file = f => <<r, f>> \in blob
               /\ submit[r].pc = "clean" /\ submit[r].file = f /\ submit[r].why = "insert" => <<r, f>> \notin row
               /\ <<r, f>> \in row /\ <<r, f>> \notin blob =>
                     submit[r].pc = "failed" /\ submit[r].why = "unknown" /\ submit[r].file = f
               /\ <<r, f>> \in blob /\ <<r, f>> \notin row =>
                     \/ submit[r].pc \in {"insert", "clean"} /\ submit[r].file = f
                     \/ submit[r].pc = "failed" /\ submit[r].why \in {"put", "delete", "lost"}
BY SubmissionType DEF UploadInv, Appending, Uploading

\* A submission is made, by itself or as that of one that failed.
LEMMA SubmitInv ==
    ASSUME UploadInv, NEW r \in Request, submit[r].pc = "idle", NEW call \in Submission,
           submit' = [submit EXCEPT ![r] = call], UNCHANGED <<vars, archived, blob, row>>,
           call.pc = "check", call.channel \in Channel, call.sender \in Sender
    PROVE  UploadInv'
<1>1. /\ PostTypeOK /\ req[r].pc = "idle"
      /\ \A f \in File : <<r, f>> \notin row /\ <<r, f>> \notin blob
    BY OneUpload
<1>2. submit' \in [Request -> Submission] /\ submit'[r] = call /\ \A q \in Request : q # r => submit'[q] = submit[q]
    BY <1>1, OneSubmission
<1>3. PostTypeOK'
    BY <1>1, <1>2 DEF PostTypeOK, Submission
<1>4. UNCHANGED <<req, row, blob>>
    BY DEF vars
<1> QED
    BY <1>1, <1>2, <1>3, <1>4, UploadStep

LEMMA SubmitUploads ==
    ASSUME UploadInv, NEW r \in Request, NEW c \in Channel, NEW s \in Sender, NEW files \in SUBSET File,
           Submit(r, c, s, files)
    PROVE  UploadInv'
<1> DEFINE call == [NoSubmit EXCEPT !.pc = "check", !.channel = c, !.sender = s, !.files = files, !.left = files]
<1>1. call \in Submission /\ call.pc = "check" /\ call.channel = c /\ call.sender = s
    BY DEF NoSubmit, Submission
<1>2. submit[r].pc = "idle" /\ submit' = [submit EXCEPT ![r] = call] /\ UNCHANGED <<vars, archived, blob, row>>
    BY DEF Submit
<1> HIDE DEF call
<1> QED
    BY <1>1, <1>2, SubmitInv

LEMMA ResubmitUploads ==
    ASSUME UploadInv, NEW r \in Request, NEW old \in Request, Resubmit(r, old)
    PROVE  UploadInv'
<1> DEFINE call == [submit[old] EXCEPT !.pc = "check", !.again = old, !.seq = 0,
                                       !.left = submit[old].files, !.file = None, !.why = None]
<1>1. submit[old] \in Submission /\ submit[old].channel \in Channel /\ submit[old].sender \in Sender
    BY OneUpload DEF Resubmit
<1>2. call \in Submission /\ call.pc = "check" /\ call.channel \in Channel /\ call.sender \in Sender
    BY <1>1 DEF Submission
<1>3. submit[r].pc = "idle" /\ submit' = [submit EXCEPT ![r] = call] /\ UNCHANGED <<vars, archived, blob, row>>
    BY DEF Resubmit
<1> HIDE DEF call
<1> QED
    BY <1>2, <1>3, SubmitInv

\* A step that goes on with the message, before any of its files.
LEMMA BeforeFiles ==
    ASSUME UploadInv, NEW r \in Request, submit[r].pc \in {"check", "append", "appending"},
           submit' \in [Request -> Submission],
           \A q \in Request : q # r => submit'[q] = submit[q] /\ req'[q].pc = req[q].pc,
           UNCHANGED <<archived, row, blob>>,
           submit'[r].pc \in {"append", "appending", "put", "ok"} \/ (submit'[r].pc = "failed" /\ submit'[r].why # "unknown"),
           req'[r].pc # "idle" => submit'[r].pc = "appending",
           submit'[r].channel \in Channel /\ submit'[r].sender \in Sender
    PROVE  UploadInv'
<1>1. PostTypeOK /\ \A f \in File : <<r, f>> \notin row /\ <<r, f>> \notin blob
    BY OneUpload
<1>2. PostTypeOK'
    BY <1>1 DEF PostTypeOK, Submission
<1>3. \A f \in File : <<r, f>> \notin row' /\ <<r, f>> \notin blob'
    BY <1>1
<1> QED
    BY <1>2, <1>3, UploadStep

LEMMA AppendUploads ==
    ASSUME UploadInv, req \in [Request -> Transaction], NEW r \in Request,
           assertWritable(r) \/ BeginAppend(r) \/ AppendStep(r) \/ Appended(r) \/ AppendAborts(r)
    PROVE  UploadInv'
<1>1. /\ PostTypeOK /\ submit[r] \in Submission
      /\ req[r].pc # "idle" => submit[r].pc = "appending"
      /\ submit[r].pc # "idle" => submit[r].channel \in Channel /\ submit[r].sender \in Sender
    BY OneUpload
<1>2. \A q \in Request : \A e : req' = [req EXCEPT ![r] = e] /\ q # r => req'[q] = req[q]
    OBVIOUS
<1>3. Idle.pc = "idle"
    BY DEF Idle
<1>4. CASE assertWritable(r)
    <2>1. submit[r].pc = "check" /\ UNCHANGED <<req, archived, row, blob>> /\ (Fail(r, "refused") \/ To(r, "append"))
        BY <1>4 DEF assertWritable, vars
    <2>2. /\ submit' \in [Request -> Submission]
          /\ \A q \in Request : q # r => submit'[q] = submit[q]
          /\ submit'[r].pc = "append" \/ (submit'[r].pc = "failed" /\ submit'[r].why = "refused")
          /\ submit'[r].channel = submit[r].channel /\ submit'[r].sender = submit[r].sender
        BY <1>1, <2>1, GoesTo, GoesWrong DEF Fail
    <2> QED
        BY <1>1, <2>1, <2>2, BeforeFiles
<1>5. CASE BeginAppend(r)
    <2>1. /\ submit[r].pc = "append" /\ UNCHANGED <<archived, row, blob>> /\ To(r, "appending")
          /\ \A q \in Request : q # r => req'[q] = req[q]
        BY <1>2, <1>5 DEF BeginAppend, Begin
    <2>2. /\ submit' \in [Request -> Submission]
          /\ \A q \in Request : q # r => submit'[q] = submit[q]
          /\ submit'[r].pc = "appending"
          /\ submit'[r].channel = submit[r].channel /\ submit'[r].sender = submit[r].sender
        BY <1>1, <2>1, GoesTo
    <2> QED
        BY <1>1, <2>1, <2>2, BeforeFiles
<1>6. CASE AppendStep(r)
    <2>1. UNCHANGED postVars /\ req[r].pc \in {"lock", "max"} /\ \A q \in Request : q # r => req'[q] = req[q]
        BY <1>6 DEF AppendStep, TakeLock, ReadMax
    <2>2. submit[r].pc = "appending" /\ UNCHANGED <<archived, submit, row, blob>>
        BY <1>1, <2>1 DEF postVars
    <2>3. submit' \in [Request -> Submission] /\ submit'[r] = submit[r]
        BY <1>1, <2>2, SubmissionType
    <2> QED
        BY <1>1, <2>1, <2>2, <2>3, BeforeFiles
<1>7. CASE Appended(r)
    <2> DEFINE n == req[r].seq
               pc == IF submit[r].files = {} THEN "ok" ELSE "put"
               call == [submit[r] EXCEPT !.pc = pc, !.seq = n]
    <2>1. /\ req[r].pc = "insert" /\ req' = [req EXCEPT ![r] = Idle] /\ UNCHANGED <<archived, row, blob>>
          /\ submit' = [submit EXCEPT ![r].pc = pc, ![r].seq = n] \/ Fail(r, "append")
        BY <1>7 DEF Appended, Insert
    <2>2. submit[r].pc = "appending" /\ req'[r] = Idle /\ \A q \in Request : q # r => req'[q] = req[q]
        BY <1>1, <2>1
    <2>3. n \in Nat /\ pc \in {"ok", "put"}
        BY DEF Transaction
    <2> HIDE DEF n, pc
    <2>4. CASE submit' = [submit EXCEPT ![r].pc = pc, ![r].seq = n]
        <3>1. call \in Submission /\ call.pc = pc /\ call.channel = submit[r].channel /\ call.sender = submit[r].sender
            BY <1>1, <2>3 DEF Submission
        <3>2. submit' = [submit EXCEPT ![r] = call]
            BY <2>4, <1>1, SubmissionType
        <3> HIDE DEF call
        <3>3. submit' \in [Request -> Submission] /\ submit'[r] = call /\ \A q \in Request : q # r => submit'[q] = submit[q]
            BY <1>1, <3>1, <3>2, OneSubmission
        <3> QED
            BY <1>1, <1>3, <2>1, <2>2, <2>3, <3>1, <3>3, BeforeFiles
    <2>5. CASE Fail(r, "append")
        <3>1. /\ submit' \in [Request -> Submission]
              /\ \A q \in Request : q # r => submit'[q] = submit[q]
              /\ submit'[r].pc = "failed" /\ submit'[r].why = "append"
              /\ submit'[r].channel = submit[r].channel /\ submit'[r].sender = submit[r].sender
            BY <1>1, <2>5, GoesWrong DEF Fail
        <3> QED
            BY <1>1, <1>3, <2>1, <2>2, <3>1, BeforeFiles
    <2> QED
        BY <2>1, <2>4, <2>5
<1>8. CASE AppendAborts(r)
    <2>1. req[r].pc \in {"max", "insert"} /\ req' = [req EXCEPT ![r] = Idle] /\ UNCHANGED <<archived, row, blob>> /\ Fail(r, "append")
        BY <1>8 DEF AppendAborts, Abort
    <2>2. submit[r].pc = "appending" /\ req'[r] = Idle /\ \A q \in Request : q # r => req'[q] = req[q]
        BY <1>1, <2>1
    <2>3. /\ submit' \in [Request -> Submission]
          /\ \A q \in Request : q # r => submit'[q] = submit[q]
          /\ submit'[r].pc = "failed" /\ submit'[r].why = "append"
          /\ submit'[r].channel = submit[r].channel /\ submit'[r].sender = submit[r].sender
        BY <1>1, <2>1, GoesWrong DEF Fail
    <2> QED
        BY <1>1, <1>3, <2>1, <2>2, <2>3, BeforeFiles
<1> QED
    BY <1>4, <1>5, <1>6, <1>7, <1>8

\* The bytes come before the row.
LEMMA PutUploads ==
    ASSUME UploadInv, NEW r \in Request, NEW f \in File, Put(r, f) \/ PutFails(r, f)
    PROVE  UploadInv'
<1>1. /\ PostTypeOK /\ submit[r] \in Submission /\ submit[r].pc = "put" /\ f \in submit[r].left /\ <<r, f>> \notin row
      /\ req[r].pc = "idle" /\ submit[r].channel \in Channel /\ submit[r].sender \in Sender
      /\ \A g \in File : /\ g \in submit[r].left => <<r, g>> \notin row
                         /\ <<r, g>> \in row <=> <<r, g>> \in blob
    <2>1. submit[r].pc = "put" /\ f \in submit[r].left
        BY DEF Put, PutFails
    <2> QED
        BY <2>1, OneUpload
<1>2. CASE Put(r, f)
    <2> DEFINE call == [submit[r] EXCEPT !.pc = "insert", !.file = f]
    <2>1. blob' = blob \cup {<<r, f>>} /\ UNCHANGED <<req, archived, row>>
          /\ submit' = [submit EXCEPT ![r].pc = "insert", ![r].file = f]
        BY <1>2 DEF Put, vars
    <2>2. /\ call \in Submission /\ call.pc = "insert" /\ call.file = f /\ call.left = submit[r].left
          /\ call.channel = submit[r].channel /\ call.sender = submit[r].sender
        BY <1>1 DEF Submission
    <2>3. submit' = [submit EXCEPT ![r] = call]
        BY <1>1, <2>1, SubmissionType
    <2> HIDE DEF call
    <2>4. submit' \in [Request -> Submission] /\ submit'[r] = call /\ \A q \in Request : q # r => submit'[q] = submit[q]
        BY <1>1, <2>2, <2>3, OneSubmission
    <2>5. PostTypeOK'
        BY <1>1, <2>1, <2>4 DEF PostTypeOK, Submission
    <2>6. \A q \in Request, g \in File : q # r =>
            (<<q, g>> \in row' <=> <<q, g>> \in row) /\ (<<q, g>> \in blob' <=> <<q, g>> \in blob)
        BY <2>1
    <2>7. \A g \in File : (<<r, g>> \in blob' <=> <<r, g>> \in blob \/ g = f) /\ (<<r, g>> \in row' <=> <<r, g>> \in row)
        BY <2>1
    <2> QED
        BY <1>1, <2>1, <2>2, <2>4, <2>5, <2>6, <2>7, UploadStep
<1>3. CASE PutFails(r, f)
    <2>1. blob' \in {blob, blob \cup {<<r, f>>}} /\ UNCHANGED <<req, archived, row>> /\ Fail(r, "put")
        BY <1>3 DEF PutFails, vars
    <2>2. /\ submit' \in [Request -> Submission]
          /\ submit'[r].pc = "failed" /\ submit'[r].why = "put"
          /\ submit'[r].channel = submit[r].channel /\ submit'[r].sender = submit[r].sender
          /\ \A q \in Request : q # r => submit'[q] = submit[q]
        BY <1>1, <2>1, GoesWrong DEF Fail
    <2>3. PostTypeOK'
        BY <1>1, <2>1, <2>2 DEF PostTypeOK, Submission
    <2>4. \A q \in Request, g \in File : q # r =>
            (<<q, g>> \in row' <=> <<q, g>> \in row) /\ (<<q, g>> \in blob' <=> <<q, g>> \in blob)
        BY <2>1
    <2>5. \A g \in File : (<<r, g>> \in blob => <<r, g>> \in blob') /\ (<<r, g>> \in row' <=> <<r, g>> \in row)
        BY <2>1
    <2> QED
        BY <1>1, <2>1, <2>2, <2>3, <2>4, <2>5, UploadStep
<1> QED
    BY <1>2, <1>3

LEMMA InsertUploads ==
    ASSUME UploadInv, NEW r \in Request, InsertRow(r)
    PROVE  UploadInv'
<1> DEFINE f == submit[r].file
           left == submit[r].left \ {f}
           pc == IF left = {} THEN "ok" ELSE "put"
           call == [submit[r] EXCEPT !.pc = pc, !.left = left, !.file = None]
<1>1. /\ PostTypeOK /\ submit[r] \in Submission /\ submit[r].pc = "insert" /\ f \in File /\ <<r, f>> \in blob
      /\ req[r].pc = "idle" /\ submit[r].channel \in Channel /\ submit[r].sender \in Sender
      /\ \A g \in File : /\ g \in submit[r].left => <<r, g>> \notin row
                         /\ <<r, g>> \in row => <<r, g>> \in blob
                         /\ <<r, g>> \in blob => <<r, g>> \in row \/ g = f
    <2>1. submit[r].pc = "insert"
        BY DEF InsertRow
    <2> QED
        BY <2>1, OneUpload
<1>2. /\ row' = row \cup {<<r, f>>} /\ UNCHANGED <<req, archived, blob>>
      /\ submit' = [submit EXCEPT ![r].pc = pc, ![r].left = left, ![r].file = None]
    BY DEF InsertRow, Upload, vars
<1>3. /\ call \in Submission /\ call.pc = pc /\ call.left = left /\ pc \in {"ok", "put"}
      /\ call.channel = submit[r].channel /\ call.sender = submit[r].sender
    BY <1>1 DEF Submission
<1>4. submit' = [submit EXCEPT ![r] = call]
    BY <1>1, <1>2, SubmissionType
<1> HIDE DEF call, pc
<1>5. submit' \in [Request -> Submission] /\ submit'[r] = call /\ \A q \in Request : q # r => submit'[q] = submit[q]
    BY <1>1, <1>3, <1>4, OneSubmission
<1>6. PostTypeOK'
    BY <1>1, <1>2, <1>5 DEF PostTypeOK, Submission
<1>7. \A q \in Request, g \in File : q # r =>
        (<<q, g>> \in row' <=> <<q, g>> \in row) /\ (<<q, g>> \in blob' <=> <<q, g>> \in blob)
    BY <1>2
<1>8. \A g \in File : (<<r, g>> \in row' <=> <<r, g>> \in row \/ g = f) /\ (<<r, g>> \in blob' <=> <<r, g>> \in blob)
    BY <1>2
<1> QED
    BY <1>1, <1>2, <1>3, <1>5, <1>6, <1>7, <1>8, UploadStep

LEMMA InsertFailsUploads ==
    ASSUME UploadInv, NEW r \in Request, InsertRowFails(r)
    PROVE  UploadInv'
<1> DEFINE f == submit[r].file
<1>1. /\ PostTypeOK /\ submit[r].pc = "insert" /\ f \in File /\ f \in submit[r].left /\ <<r, f>> \in blob
      /\ req[r].pc = "idle" /\ submit[r].channel \in Channel /\ submit[r].sender \in Sender
      /\ \A g \in File : /\ g \in submit[r].left => <<r, g>> \notin row
                         /\ <<r, g>> \in row => <<r, g>> \in blob
                         /\ <<r, g>> \in blob => <<r, g>> \in row \/ g = f
    <2>1. submit[r].pc = "insert"
        BY DEF InsertRowFails
    <2> QED
        BY <2>1, OneUpload
<1>2. PICK why \in {"insert", "unknown"} :
        /\ UNCHANGED <<req, archived, blob>>
        /\ row' = IF why = "insert" THEN row ELSE row \cup {<<r, f>>}
        /\ submit' = [submit EXCEPT ![r].pc = "clean", ![r].why = why]
    BY DEF InsertRowFails, Upload, vars
<1>3. /\ submit' \in [Request -> Submission]
      /\ submit'[r].pc = "clean" /\ submit'[r].why = why /\ submit'[r].file = f
      /\ submit'[r].channel = submit[r].channel /\ submit'[r].sender = submit[r].sender
      /\ \A q \in Request : q # r => submit'[q] = submit[q]
    BY <1>1, <1>2, GoesWrong
<1>4. PostTypeOK'
    BY <1>1, <1>2, <1>3 DEF PostTypeOK, Submission
<1>5. \A q \in Request, g \in File : q # r =>
        (<<q, g>> \in row' <=> <<q, g>> \in row) /\ (<<q, g>> \in blob' <=> <<q, g>> \in blob)
    BY <1>2
<1>6. \A g \in File : /\ <<r, g>> \in row' <=> <<r, g>> \in row \/ (why = "unknown" /\ g = f)
                      /\ <<r, g>> \in blob' <=> <<r, g>> \in blob
    BY <1>2
<1> QED
    BY <1>1, <1>2, <1>3, <1>4, <1>5, <1>6, UploadStep

LEMMA CleanUploads ==
    ASSUME UploadInv, NEW r \in Request, Clean(r)
    PROVE  UploadInv'
<1> DEFINE f == submit[r].file
<1>1. /\ PostTypeOK /\ submit[r].pc = "clean" /\ f \in File /\ <<r, f>> \in blob
      /\ submit[r].why \in {"insert", "unknown"}
      /\ submit[r].why = "insert" => <<r, f>> \notin row
      /\ req[r].pc = "idle" /\ submit[r].channel \in Channel /\ submit[r].sender \in Sender
      /\ \A g \in File : /\ <<r, g>> \in row => <<r, g>> \in blob
                         /\ <<r, g>> \in blob => <<r, g>> \in row \/ g = f
    <2>1. submit[r].pc = "clean"
        BY DEF Clean
    <2> QED
        BY <2>1, OneUpload
<1>2. CASE blob' = blob \ {<<r, f>>} /\ To(r, "failed") /\ UNCHANGED <<req, archived, row>>
    <2>1. /\ submit' \in [Request -> Submission]
          /\ submit'[r].pc = "failed" /\ submit'[r].why = submit[r].why /\ submit'[r].file = f
          /\ submit'[r].channel = submit[r].channel /\ submit'[r].sender = submit[r].sender
          /\ \A q \in Request : q # r => submit'[q] = submit[q]
        BY <1>1, <1>2, GoesTo
    <2>2. PostTypeOK'
        BY <1>1, <1>2, <2>1 DEF PostTypeOK, Submission
    <2>3. \A q \in Request, g \in File : q # r =>
            (<<q, g>> \in row' <=> <<q, g>> \in row) /\ (<<q, g>> \in blob' <=> <<q, g>> \in blob)
        BY <1>2
    <2>4. \A g \in File : (<<r, g>> \in blob' <=> <<r, g>> \in blob /\ g # f) /\ (<<r, g>> \in row' <=> <<r, g>> \in row)
        BY <1>2
    <2> QED
        BY <1>1, <1>2, <2>1, <2>2, <2>3, <2>4, UploadStep
<1>3. CASE blob' = blob /\ Fail(r, "delete") /\ UNCHANGED <<req, archived, row>>
    <2>1. /\ submit' \in [Request -> Submission]
          /\ submit'[r].pc = "failed" /\ submit'[r].why = "delete"
          /\ submit'[r].channel = submit[r].channel /\ submit'[r].sender = submit[r].sender
          /\ \A q \in Request : q # r => submit'[q] = submit[q]
        BY <1>1, <1>3, GoesWrong DEF Fail
    <2>2. PostTypeOK'
        BY <1>1, <1>3, <2>1 DEF PostTypeOK, Submission
    <2> QED
        BY <1>1, <1>3, <2>1, <2>2, UploadStep
<1> QED
    BY <1>2, <1>3 DEF Clean, Upload, vars

LEMMA LoseUploads ==
    ASSUME UploadInv, NEW r \in Request, Lose(r)
    PROVE  UploadInv'
<1>1. submit[r].pc \in {"check", "append", "put", "insert", "clean"} /\ Fail(r, "lost") /\ UNCHANGED <<req, archived, row, blob>>
    BY DEF Lose, vars
<1>2. /\ PostTypeOK
      /\ req[r].pc = "idle" /\ submit[r].channel \in Channel /\ submit[r].sender \in Sender
      /\ \A g \in File : <<r, g>> \in row => <<r, g>> \in blob
    BY <1>1, OneUpload
<1>3. /\ submit' \in [Request -> Submission]
      /\ submit'[r].pc = "failed" /\ submit'[r].why = "lost"
      /\ submit'[r].channel = submit[r].channel /\ submit'[r].sender = submit[r].sender
      /\ \A q \in Request : q # r => submit'[q] = submit[q]
    BY <1>1, <1>2, GoesWrong DEF Fail
<1>4. PostTypeOK'
    BY <1>1, <1>2, <1>3 DEF PostTypeOK, Submission
<1> QED
    BY <1>1, <1>2, <1>3, <1>4, UploadStep

LEMMA PostNextInv ==
    ASSUME UploadInv, req \in [Request -> Transaction], [PostNext]_allVars
    PROVE  UploadInv'
<1>1. ASSUME NEW c \in Channel, NEW is \in BOOLEAN, setArchived(c, is)
      PROVE  UploadInv'
    <2>1. UNCHANGED <<req, submit, row, blob>> /\ archived' = [archived EXCEPT ![c] = is]
        BY <1>1 DEF setArchived, vars
    <2>2. PostTypeOK'
        BY <2>1 DEF UploadInv, PostTypeOK
    <2> QED
        BY <2>1, <2>2 DEF UploadInv, Appending, Uploading
<1>2. CASE UNCHANGED allVars
    BY <1>2 DEF UploadInv, PostTypeOK, Appending, Uploading, allVars, vars, postVars
<1>3. ASSUME NEW r \in Request,
             \/ \E c \in Channel, s \in Sender, files \in SUBSET File : Submit(r, c, s, files)
             \/ \E old \in Request : Resubmit(r, old)
             \/ \E f \in File : Put(r, f) \/ PutFails(r, f)
             \/ assertWritable(r) \/ BeginAppend(r) \/ AppendStep(r) \/ Appended(r) \/ AppendAborts(r)
             \/ InsertRow(r) \/ InsertRowFails(r) \/ Clean(r) \/ Lose(r)
      PROVE  UploadInv'
    BY <1>3, SubmitUploads, ResubmitUploads, AppendUploads, PutUploads, InsertUploads, InsertFailsUploads,
       CleanUploads, LoseUploads
<1> QED
    BY <1>1, <1>2, <1>3 DEF PostNext

\* To the log a step of Posting is a step of MessageLog or none.
LEMMA PostIsLog ==
    ASSUME UploadInv, [PostNext]_allVars
    PROVE  [Next]_vars
<1>1. ASSUME NEW r \in Request, BeginAppend(r)
      PROVE  Next
    <2>1. submit[r].channel \in Channel /\ submit[r].sender \in Sender
        BY <1>1, OneUpload DEF BeginAppend
    <2> QED
        BY <1>1, <2>1 DEF BeginAppend, Next
<1>2. ASSUME NEW r \in Request, AppendStep(r) \/ Appended(r) \/ AppendAborts(r)
      PROVE  Next
    BY <1>2 DEF AppendStep, Appended, AppendAborts, Next, Step
<1>3. ASSUME NEW r \in Request,
             \/ \E c \in Channel, s \in Sender, files \in SUBSET File : Submit(r, c, s, files)
             \/ \E old \in Request : Resubmit(r, old)
             \/ \E f \in File : Put(r, f) \/ PutFails(r, f)
             \/ assertWritable(r) \/ InsertRow(r) \/ InsertRowFails(r) \/ Clean(r) \/ Lose(r)
      PROVE  UNCHANGED vars
    BY <1>3 DEF Submit, Resubmit, Put, PutFails, assertWritable, InsertRow, InsertRowFails, Clean, Lose
<1>4. ASSUME NEW c \in Channel, NEW is \in BOOLEAN, setArchived(c, is)
      PROVE  UNCHANGED vars
    BY <1>4 DEF setArchived
<1>5. CASE UNCHANGED allVars
    BY <1>5 DEF allVars
<1> QED
    BY <1>1, <1>2, <1>3, <1>4, <1>5 DEF PostNext

LEMMA PostInvariance == PostSpec => [](IInv /\ UploadInv)
<1>1. PostInit => IInv /\ UploadInv
    BY InitInv, PostInitInv DEF PostInit
<1>2. IInv /\ UploadInv /\ [PostNext]_allVars => IInv' /\ UploadInv'
    <2> SUFFICES ASSUME IInv, UploadInv, [PostNext]_allVars PROVE IInv' /\ UploadInv'
        OBVIOUS
    <2>1. [Next]_vars
        BY PostIsLog
    <2>2. req \in [Request -> Transaction]
        BY DEF IInv
    <2> QED
        BY <2>1, <2>2, NextInv, PostNextInv
<1> QED
    BY <1>1, <1>2, PTL DEF PostSpec

\* Posting uses the log as MessageLog says: messages with files, failed and sent
\* again, keep what is proved of the numbers (message.service.ts:56).
THEOREM PostingUsesTheLog == PostSpec => Spec
<1>1. PostInit => Init
    BY DEF PostInit
<1>2. UploadInv /\ [PostNext]_allVars => [Next]_vars
    BY PostIsLog
<1> QED
    BY <1>1, <1>2, PostInvariance, PTL DEF PostSpec, Spec

\* The variables of a submission keep their types (useCrew.ts:215).
THEOREM PostTypeCorrect == PostSpec => []PostTypeOK
<1>1. UploadInv => PostTypeOK
    BY DEF UploadInv
<1> QED
    BY <1>1, PostInvariance, PTL

\* attachment.service.ts:60: a file that a message shows can be downloaded, unless
\* its insert was committed and reported as failed.
THEOREM ShownFilesAreThere == PostSpec => []FilesHaveBytes
<1>1. ASSUME UploadInv PROVE FilesHaveBytes
    <2> SUFFICES ASSUME NEW u \in row \ blob
                 PROVE  submit[u[1]].pc = "failed" /\ submit[u[1]].why = "unknown" /\ submit[u[1]].file = u[2]
        BY DEF FilesHaveBytes
    <2>1. PICK r \in Request, f \in File : u = <<r, f>>
        BY <1>1 DEF UploadInv, PostTypeOK
    <2> QED
        BY <1>1, <2>1, OneUpload
<1> QED
    BY <1>1, PostInvariance, PTL

\* attachment.service.ts:60: bytes that no row names belong to an upload under way,
\* or the store itself or the server failed.
THEOREM BytesAreNamed == PostSpec => []NoStrayBytes
<1>1. ASSUME UploadInv PROVE NoStrayBytes
    <2> SUFFICES ASSUME NEW u \in blob \ row
                 PROVE  \/ submit[u[1]].pc \in {"insert", "clean"} /\ submit[u[1]].file = u[2]
                        \/ submit[u[1]].why \in {"put", "delete", "lost"}
        BY DEF NoStrayBytes
    <2>1. PICK r \in Request, f \in File : u = <<r, f>>
        BY <1>1 DEF UploadInv, PostTypeOK
    <2> QED
        BY <1>1, <2>1, OneUpload
<1> QED
    BY <1>1, PostInvariance, PTL
=============================================================================
