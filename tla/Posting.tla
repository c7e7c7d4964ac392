------------------------------ MODULE Posting ------------------------------
(***************************************************************************)
(* A message with files, from the page to the disk: submit of ChatView.vue *)
(* and sendWithFiles of useCrew.ts, MessageService, AttachmentService and  *)
(* the local BlobStore.  The page posts the message and then uploads one   *)
(* file after the other.  An upload writes the bytes, then inserts the     *)
(* row, and takes the bytes away again when the insert fails.  When any of *)
(* it fails the page keeps the text and all files, and the person may      *)
(* submit again.  The append itself is that of MessageLog.                 *)
(***************************************************************************)
EXTENDS MessageLog

CONSTANT File

VARIABLES archived,   \* channels that were archived
          submit,     \* submissions of a page, each with the append of the same name
          blob,       \* uploads whose bytes are in the store, whole or in part
          row         \* uploads that have an attachment row

postVars == <<archived, submit, blob, row>>
allVars == <<vars, postVars>>

NoSubmit == [pc |-> "idle", channel |-> None, sender |-> None, files |-> {}, again |-> None,
             seq |-> 0, left |-> {}, file |-> None, why |-> None]

PostTypeOK ==
    /\ archived \in [Channel -> BOOLEAN]
    /\ submit \in [Request -> [pc : {"idle", "check", "append", "appending", "put", "insert", "clean", "ok", "failed"},
                               channel : Channel \cup {None}, sender : Sender \cup {None},
                               files : SUBSET File, again : Request \cup {None}, seq : Nat,
                               left : SUBSET File, file : File \cup {None},
                               why : {None, "refused", "append", "put", "insert", "unknown", "delete", "lost"}]]
    /\ blob \subseteq Request \X File
    /\ row \subseteq Request \X File

PostInit ==
    /\ Init
    /\ archived = [c \in Channel |-> FALSE]
    /\ submit = [r \in Request |-> NoSubmit]
    /\ blob = {}
    /\ row = {}

-----------------------------------------------------------------------------
To(r, pc) == submit' = [submit EXCEPT ![r].pc = pc]
Fail(r, why) == submit' = [submit EXCEPT ![r].pc = "failed", ![r].why = why]

setArchived(c, is) ==
    /\ archived[c] # is
    /\ archived' = [archived EXCEPT ![c] = is]
    /\ UNCHANGED <<vars, submit, blob, row>>

Submit(r, c, s, files) ==
    /\ submit[r].pc = "idle"
    /\ submit' = [submit EXCEPT ![r] = [NoSubmit EXCEPT !.pc = "check", !.channel = c, !.sender = s,
                                                        !.files = files, !.left = files]]
    /\ UNCHANGED <<vars, archived, blob, row>>

\* The page kept what it could not send, and sends all of it again.
Resubmit(r, old) ==
    /\ submit[r].pc = "idle"
    /\ submit[old].pc = "failed"
    /\ \A other \in Request : submit[other].again # old
    /\ submit' = [submit EXCEPT ![r] = [submit[old] EXCEPT !.pc = "check", !.again = old, !.seq = 0,
                                                           !.left = submit[old].files, !.file = None, !.why = None]]
    /\ UNCHANGED <<vars, archived, blob, row>>

\* assertWritable, a transaction of its own.
assertWritable(r) ==
    /\ submit[r].pc = "check"
    /\ IF archived[submit[r].channel] THEN Fail(r, "refused") ELSE To(r, "append")
    /\ UNCHANGED <<vars, archived, blob, row>>

BeginAppend(r) ==
    /\ submit[r].pc = "append"
    /\ Begin(r, submit[r].channel, submit[r].sender)
    /\ To(r, "appending")
    /\ UNCHANGED <<archived, blob, row>>

AppendStep(r) ==
    /\ TakeLock(r) \/ ReadMax(r)
    /\ UNCHANGED postVars

\* The page goes on when it has the answer, which may be lost.
Appended(r) ==
    LET n == req[r].seq IN
    /\ Insert(r)
    /\ \/ /\ ~Taken(req[r].channel, n)
          /\ submit' = [submit EXCEPT ![r].pc = IF submit[r].files = {} THEN "ok" ELSE "put", ![r].seq = n]
       \/ Fail(r, "append")
    /\ UNCHANGED <<archived, blob, row>>

AppendAborts(r) ==
    /\ Abort(r)
    /\ Fail(r, "append")
    /\ UNCHANGED <<archived, blob, row>>

\* store.put of the next file.
Put(r, f) ==
    /\ submit[r].pc = "put" /\ f \in submit[r].left
    /\ blob' = blob \cup {<<r, f>>}
    /\ submit' = [submit EXCEPT ![r].pc = "insert", ![r].file = f]
    /\ UNCHANGED <<vars, archived, row>>

\* It fails, and may leave a part of the bytes.
PutFails(r, f) ==
    /\ submit[r].pc = "put" /\ f \in submit[r].left
    /\ blob' \in {blob, blob \cup {<<r, f>>}}
    /\ Fail(r, "put")
    /\ UNCHANGED <<vars, archived, row>>

Upload(r) == <<r, submit[r].file>>

InsertRow(r) ==
    LET left == submit[r].left \ {submit[r].file} IN
    /\ submit[r].pc = "insert"
    /\ row' = row \cup {Upload(r)}
    /\ submit' = [submit EXCEPT ![r].pc = IF left = {} THEN "ok" ELSE "put", ![r].left = left, ![r].file = None]
    /\ UNCHANGED <<vars, archived, blob>>

\* The insert fails, or the connection breaks when it had been committed.
\* Mutant: the error ends the call.
InsertRowFailsAtOnce(r) ==
    /\ submit[r].pc = "insert"
    /\ Fail(r, "insert")
    /\ UNCHANGED <<vars, archived, blob, row>>
InsertRowFails(r) ==
    /\ submit[r].pc = "insert"
    /\ \/ row' = row /\ submit' = [submit EXCEPT ![r].pc = "clean", ![r].why = "insert"]
       \/ row' = row \cup {Upload(r)} /\ submit' = [submit EXCEPT ![r].pc = "clean", ![r].why = "unknown"]
    /\ UNCHANGED <<vars, archived, blob>>

\* store.delete, whose own failure is ignored.  Mutant: of every file of the
\* message.
CleanAll(r) ==
    /\ submit[r].pc = "clean"
    /\ blob' = {u \in blob : u[1] # r}
    /\ To(r, "failed")
    /\ UNCHANGED <<vars, archived, row>>
Clean(r) ==
    /\ submit[r].pc = "clean"
    /\ \/ blob' = blob \ {Upload(r)} /\ To(r, "failed")
       \/ blob' = blob /\ Fail(r, "delete")
    /\ UNCHANGED <<vars, archived, row>>

\* The server process of a call ends.
Lose(r) ==
    /\ submit[r].pc \in {"check", "append", "put", "insert", "clean"}
    /\ Fail(r, "lost")
    /\ UNCHANGED <<vars, archived, blob, row>>

PostNext ==
    \/ \E c \in Channel, is \in BOOLEAN : setArchived(c, is)
    \/ \E r \in Request :
        \/ \E c \in Channel, s \in Sender, files \in SUBSET File : Submit(r, c, s, files)
        \/ \E old \in Request : Resubmit(r, old)
        \/ assertWritable(r) \/ BeginAppend(r) \/ AppendStep(r) \/ Appended(r) \/ AppendAborts(r)
        \/ \E f \in File : Put(r, f) \/ PutFails(r, f)
        \/ InsertRow(r) \/ InsertRowFails(r) \/ Clean(r) \/ Lose(r)

PostSpec == PostInit /\ [][PostNext]_allVars

-----------------------------------------------------------------------------
\* attachment.service.ts:60: a file that a message shows can be downloaded,
\* unless its insert was committed and reported as failed.
FilesHaveBytes ==
    \A u \in row \ blob : submit[u[1]].pc = "failed" /\ submit[u[1]].why = "unknown" /\ submit[u[1]].file = u[2]

\* attachment.service.ts:60: bytes that no row names belong to an upload under
\* way, or the store itself or the server failed.
NoStrayBytes ==
    \A u \in blob \ row :
        LET call == submit[u[1]] IN
        (call.pc \in {"insert", "clean"} /\ call.file = u[2]) \/ call.why \in {"put", "delete", "lost"}

-----------------------------------------------------------------------------
(* What comments say and the code does not keep.                           *)

\* attachment.service.ts:60, without the exception.
FilesHaveBytesAlways == row \subseteq blob

\* web.ts:214: a channel that is archived takes no message.  One that was
\* checked before is appended after.
ArchivedIsSilent ==
    [][\A c \in Channel : archived[c] => message'[c] = message[c]]_allVars

\* useCrew.ts:216: the files are those of the message.  It is posted, and wakes
\* agents, before the first is uploaded.
VisibleIsWhole ==
    \A r \in Request : submit[r].seq # 0 => \A f \in submit[r].files : <<r, f>> \in row

\* What is submitted once is in the channel once.  When a file fails, the text
\* and the files before it are posted again.
SubmittedOnce ==
    \A r \in Request : LET old == submit[r].again IN
        old # None => submit[old].seq = 0 \/ submit[r].seq = 0
=============================================================================
