----------------------------- MODULE Repository -----------------------------
(***************************************************************************)
(* What the two implementations of the repositories share                  *)
(* (server/src/repo/types.ts and the pure rules of server/src/domain): the *)
(* actors, the outcomes, and the arithmetic of the cursors.                *)
(*                                                                         *)
(* An actor is the pair of its type and its handle.  The body of a message *)
(* is the set of handles it mentions.  A channel, a message, a task, a     *)
(* card and a machine is known by the number of its creation, which stands *)
(* for the identifier both implementations make up.                        *)
(***************************************************************************)
EXTENDS Integers, SequencesExt

CONSTANT None

Type(actor) == actor[1]
Handle(actor) == actor[2]

\* The answers of a call that has no row to return.
Refused(kind) == [kind |-> kind]
Done(row) == [kind |-> "ok", row |-> row]

\* A task that is to do is in progress once somebody has it; other statuses stay.
OnClaim(status) == IF status = "todo" THEN "in_progress" ELSE status

\* What there is to read, and where a cursor moves: it never goes back.
unreadCount(read, latest) == IF latest > read THEN latest - read ELSE 0
advanceCursor(cursor, upTo) == IF upTo > cursor THEN upTo ELSE cursor

Rows(rows) == {rows[i] : i \in DOMAIN rows}
Each(rows, row(_)) == [i \in DOMAIN rows |-> row(rows[i])]
Largest(numbers) == Max({0} \cup numbers)
First(rows, is(_)) ==
    IF \E r \in Rows(rows) : is(r) THEN rows[SelectInSeq(rows, is)] ELSE None

\* The reactions to a message as its page shows them: every emoji with how many
\* actors chose it and whether the viewer is one of them, the earliest first.
summaryFor(reactions, viewer) ==
    LET emojis == FoldLeft(LAMBDA seq, r : IF Contains(seq, r.emoji) THEN seq ELSE Append(seq, r.emoji),
                           <<>>, reactions)
        by(emoji) == {r.who : r \in {q \in Rows(reactions) : q.emoji = emoji}}
    IN  Each(emojis, LAMBDA e : [emoji |-> e, count |-> Cardinality(by(e)), mine |-> viewer \in by(e)])

\* A task is claimed if it is nobody's and may be claimed at all.
decideClaim(task, claimant) ==
    IF task.anchored THEN Refused("not_claimable")
    ELSE IF task.assignee = None THEN [kind |-> "claimed", assignee |-> claimant, status |-> OnClaim(task.status)]
    ELSE IF task.assignee = claimant THEN Refused("already_mine")
    ELSE [kind |-> "conflict", heldBy |-> task.assignee]
=============================================================================
