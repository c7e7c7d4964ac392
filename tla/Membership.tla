----------------------------- MODULE Membership -----------------------------
(***************************************************************************)
(* The people of one workspace: server/src/services/members.service.ts and *)
(* joinWorkspace of server/src/auth/service.ts.  A person is two rows, a   *)
(* membership (the account's role) and a profile under the same handle,    *)
(* and every call is several transactions over the two tables.  One action *)
(* is one transaction.                                                     *)
(***************************************************************************)
EXTENDS Naturals, FiniteSets

CONSTANTS Account, Request, None,
          Base,        \* the name an account's handle is made from
          Admin,       \* requests that may change or remove members
          Joiner,      \* requests that may join an account
          MaxNo,       \* bound: handles made from one name
          MaxId        \* bound: membership rows ever inserted

VARIABLES member, profile, nextId, req,
          calm,        \* history: no two calls overlapped and none was lost
          raced        \* history: an owner was taken while another call was about to take one

vars == <<member, profile, nextId, req, calm, raced>>

Role == {"owner", "admin", "member"}
Handle == {Base[a] : a \in Account} \X (1 .. MaxNo)
Member == [id : 1 .. MaxId, account : Account, handle : Handle, role : Role]

\* A finite number of calls, and room for the first member.
ParametersOK ==
    IsFiniteSet(Request) /\ MaxNo \in Nat \ {0} /\ MaxId \in Nat \ {0}

Idle == [pc |-> "idle", handle |-> None, id |-> None, role |-> None, account |-> None]

TypeOK ==
    /\ member \subseteq Member
    /\ profile \subseteq Handle
    /\ nextId \in 1 .. MaxId + 1
    /\ req \in [Request ->
          [pc : {"idle", "role", "demote", "update", "remove", "owners", "delete", "profile",
                 "pick", "insert", "join"},
           handle : Handle \cup {None}, id : (1 .. MaxId) \cup {None}, role : Role \cup {None},
           account : Account \cup {None}]]
    /\ calm \in BOOLEAN /\ raced \in BOOLEAN

\* The workspace of an account that has just made it.
Init ==
    \E a \in Account :
        /\ member = {[id |-> 1, account |-> a, handle |-> <<Base[a], 1>>, role |-> "owner"]}
        /\ profile = {<<Base[a], 1>>}
        /\ nextId = 2
        /\ req = [r \in Request |-> Idle]
        /\ calm = TRUE /\ raced = FALSE

-----------------------------------------------------------------------------
Owners == {m \in member : m.role = "owner"}

AtRest == \A r \in Request : req[r].pc = "idle"

To(r, pc) == req' = [req EXCEPT ![r].pc = pc]

\* assertRole: some row of the caller's handle lets it manage people.
MayManage(h) == \E m \in member : m.handle = h /\ m.role \in {"owner", "admin"}

\* The handle that is taken or shown on the page; a row that has it, if any.
Known == profile \cup {m.handle : m \in member}

-----------------------------------------------------------------------------
\* The route asserts the caller's role; what follows reads the caller no more.
SetRole(r, by, h, role) ==
    /\ r \in Admin /\ req[r].pc = "idle" /\ MayManage(by)
    /\ req' = [req EXCEPT ![r] = [Idle EXCEPT !.pc = "role", !.handle = h, !.role = role]]
    /\ calm' = (calm /\ AtRest)
    /\ UNCHANGED <<member, profile, nextId, raced>>

\* setMemberRole reads the member; taking the role of an owner counts first.
ReadForRole(r) ==
    /\ req[r].pc = "role"
    /\ \/ \E m \in member :
            /\ m.handle = req[r].handle
            /\ req' = [req EXCEPT ![r].pc = IF m.role = "owner" /\ req[r].role # "owner" THEN "demote" ELSE "update",
                                  ![r].id = m.id]
       \/ /\ \A m \in member : m.handle # req[r].handle
          /\ req' = [req EXCEPT ![r] = Idle]
    /\ UNCHANGED <<member, profile, nextId, calm, raced>>

\* The last owner stays one.  Mutant: the count is of all members.
MoreThanOneMember == Cardinality(member) > 1
MoreThanOneOwner == Cardinality(Owners) > 1

CountBeforeDemote(r) ==
    /\ req[r].pc = "demote"
    /\ IF MoreThanOneOwner THEN To(r, "update") ELSE req' = [req EXCEPT ![r] = Idle]
    /\ UNCHANGED <<member, profile, nextId, calm, raced>>

\* What the call of r does next takes a member's row, or all but an owner's role;
\* an owner's, while another call is about to do the same.
Takes(r) == req[r].pc = "delete" \/ (req[r].pc = "update" /\ req[r].role # "owner")
Races(r) ==
    /\ Takes(r) /\ \E m \in Owners : m.id = req[r].id
    /\ \E q \in Request \ {r} : Takes(q)

\* The update is by id; a row that is gone is not there to update.
WriteRole(r) ==
    /\ req[r].pc = "update"
    /\ member' = {IF m.id = req[r].id THEN [m EXCEPT !.role = req[r].role] ELSE m : m \in member}
    /\ req' = [req EXCEPT ![r] = Idle]
    /\ raced' = (raced \/ Races(r))
    /\ UNCHANGED <<profile, nextId, calm>>

\* The route of a removal asserts the role, and that it is of another handle.
Remove(r, by, h) ==
    /\ r \in Admin /\ req[r].pc = "idle" /\ MayManage(by) /\ h # by
    /\ req' = [req EXCEPT ![r] = [Idle EXCEPT !.pc = "remove", !.handle = h]]
    /\ calm' = (calm /\ AtRest)
    /\ UNCHANGED <<member, profile, nextId, raced>>

\* removeMember: the row, if there is one; an owner counts.
ReadForRemoval(r) ==
    /\ req[r].pc = "remove"
    /\ \/ \E m \in member :
            /\ m.handle = req[r].handle
            /\ req' = [req EXCEPT ![r].pc = IF m.role = "owner" THEN "owners" ELSE "delete", ![r].id = m.id]
       \/ (\A m \in member : m.handle # req[r].handle) /\ To(r, "profile")
    /\ UNCHANGED <<member, profile, nextId, calm, raced>>

CountBeforeRemove(r) ==
    /\ req[r].pc = "owners"
    /\ IF MoreThanOneOwner THEN To(r, "delete") ELSE req' = [req EXCEPT ![r] = Idle]
    /\ UNCHANGED <<member, profile, nextId, calm, raced>>

\* Mutant: the row stays.
KeepMember(r) ==
    /\ req[r].pc = "delete"
    /\ To(r, "profile")
    /\ UNCHANGED <<member, profile, nextId, calm, raced>>
DeleteMember(r) ==
    /\ req[r].pc = "delete"
    /\ member' = {m \in member : m.id # req[r].id}
    /\ To(r, "profile")
    /\ raced' = (raced \/ Races(r))
    /\ UNCHANGED <<profile, nextId, calm>>

\* The profile goes by its handle, whoever has it by then.
DeleteProfile(r) ==
    /\ req[r].pc = "profile"
    /\ profile' = profile \ {req[r].handle}
    /\ req' = [req EXCEPT ![r] = Idle]
    /\ UNCHANGED <<member, nextId, calm, raced>>

-----------------------------------------------------------------------------
\* joinWorkspace with the role of the invitation, never owner.  An account that is a member
\* changes nothing.  The bound leaves a row for every call at work.
Join(r, a, role) ==
    /\ r \in Joiner /\ req[r].pc = "idle"
    /\ \A m \in member : m.account # a
    /\ nextId + Cardinality({q \in Request : req[q].pc \in {"pick", "insert", "join"}}) <= MaxId
    /\ req' = [req EXCEPT ![r] = [Idle EXCEPT !.pc = "pick", !.account = a, !.role = role]]
    /\ calm' = (calm /\ AtRest)
    /\ UNCHANGED <<member, profile, nextId, raced>>

\* uniqueHandleInTenant: the first number no profile has.
PickHandle(r) ==
    /\ req[r].pc = "pick"
    /\ \E n \in 1 .. MaxNo :
        LET h(k) == <<Base[req[r].account], k>> IN
        /\ h(n) \notin profile
        /\ \A k \in 1 .. n - 1 : h(k) \in profile
        /\ req' = [req EXCEPT ![r].pc = "insert", ![r].handle = h(n)]
    /\ UNCHANGED <<member, profile, nextId, calm, raced>>

\* In the same transaction, but others commit in between: uq_user_handle ends
\* the call if the handle is taken.
InsertProfile(r) ==
    /\ req[r].pc = "insert"
    /\ IF req[r].handle \in profile
       THEN req' = [req EXCEPT ![r] = Idle] /\ UNCHANGED profile
       ELSE To(r, "join") /\ profile' = profile \cup {req[r].handle}
    /\ UNCHANGED <<member, nextId, calm, raced>>

\* uq_membership_account_ws.  Mutant: no such constraint.
AccountIsFreeNot(a) == TRUE
AccountIsFree(a) == \A m \in member : m.account # a

InsertMember(r) ==
    /\ req[r].pc = "join"
    /\ IF AccountIsFree(req[r].account)
       THEN /\ member' = member \cup {[id |-> nextId, account |-> req[r].account,
                                       handle |-> req[r].handle, role |-> req[r].role]}
            /\ nextId' = nextId + 1
       ELSE UNCHANGED <<member, nextId>>
    /\ req' = [req EXCEPT ![r] = Idle]
    /\ UNCHANGED <<profile, calm, raced>>

\* The server ends, or a statement fails.
Lose(r) ==
    /\ req[r].pc # "idle"
    /\ req' = [req EXCEPT ![r] = Idle]
    /\ calm' = FALSE
    /\ UNCHANGED <<member, profile, nextId, raced>>

Next ==
    \E r \in Request :
        \/ \E by, h \in Known : Remove(r, by, h) \/ \E role \in Role : SetRole(r, by, h, role)
        \/ ReadForRole(r) \/ CountBeforeDemote(r) \/ WriteRole(r)
        \/ ReadForRemoval(r) \/ CountBeforeRemove(r) \/ DeleteMember(r) \/ DeleteProfile(r)
        \/ \E a \in Account, role \in {"admin", "member"} : Join(r, a, role)
        \/ PickHandle(r) \/ InsertProfile(r) \/ InsertMember(r)
        \/ Lose(r)

Spec == Init /\ [][Next]_vars

-----------------------------------------------------------------------------
\* members.service.ts:78: a workspace keeps an owner.  It fails when two calls
\* count the owners and each then takes one.
OwnerRemains == Owners # {}

\* However many manage the members at once, and whatever is promoted, joined or
\* lost between a call's read, its count and its write, nothing else takes the
\* last owner.
OwnerUnlessRaced == raced \/ OwnerRemains

\* No account is twice in the workspace, however many joins of it overlap.
OneMembership == \A m, n \in member : m.account = n.account => m = n

\* schema.ts:477: a membership names its account's profile.
MemberHasProfile == \A m \in member : m.handle \in profile

\* auth/service.ts:326: joining twice leaves one profile; when no call is at
\* work, every profile is some member's.
ProfileHasMember == AtRest => \A h \in profile : \E m \in member : m.handle = h

\* No two members share a handle, by which all they do is recorded.
HandlesDiffer == \A m, n \in member : m.handle = n.handle => m = n

\* As long as calls come one after the other the two tables match, though
\* handles are freed by removals and taken again.  Each part fails when they
\* overlap.
RowsMatch == calm => MemberHasProfile /\ ProfileHasMember /\ HandlesDiffer
=============================================================================
