------------------------------ MODULE Accounts ------------------------------
(***************************************************************************)
(* Accounts that sign up, make workspaces, move between them and come in   *)
(* by invitation or by OAuth: server/src/auth/service.ts and oauth.ts, the *)
(* routes over them, and the pages that call them (TokenGate.vue,          *)
(* JoinPage.vue, WorkspaceSwitcher.vue).                                   *)
(*                                                                         *)
(* The tables here are global, so a call is a row of single statements,    *)
(* and only the profile and #general of a workspace are made in one        *)
(* transaction.  A tab has one call in flight at a time (busy); tabs of    *)
(* one person overlap.  Handles, roles and what a removal leaves behind    *)
(* are in module Membership; passwords are right.                          *)
(***************************************************************************)
EXTENDS Naturals, Sequences, FiniteSets

CONSTANTS Email, Tab, None,
          State,         \* the states of OAuth logins, random
          MaxWorkspace,  \* bound: workspaces made
          MaxCall,       \* bound: calls of the pages
          MaxCrash       \* bound: ends of the server

VARIABLES account,    \* by email: the account, None before
          workspace,  \* the workspaces, in the order they were made
          member,     \* the memberships
          invited,    \* the workspaces with an invite; no route takes one back
          states,     \* the StateStore
          tab,
          joined,     \* history: the memberships there ever were
          calls, crashes

vars == <<account, workspace, member, invited, states, tab, joined, calls, crashes>>

Workspace == 1 .. MaxWorkspace

AccountRow == [home : {0} \cup Workspace]   \* workspace_id, where it was last

WorkspaceRow == [slug : Workspace, by : Email, ready : BOOLEAN]   \* ready: profile, #general

\* Where a tab is, the token it has, and its call.
Page == [at : {"gate", "second", "in"},
         who : Email \cup {None},
         ws : {0} \cup Workspace,
         op : {"login", "signup", "register", "create", "join", "first", "oauth", None},
         pc : {"idle", "auth", "exists", "insert", "find", "members", "slug", "workspace",
               "profile", "member", "touch", "mint", "cur", "target", "joined"},
         to : {0} \cup Workspace,      \* the workspace the call is about
         slug : {0} \cup Workspace,
         home : {0} \cup Workspace]    \* the account's, as the call read it

\* None is no account, and the bounds are numbers.
ParametersOK ==
    None \notin AccountRow /\ MaxWorkspace \in Nat /\ MaxCall \in Nat /\ MaxCrash \in Nat

TypeOK ==
    /\ account \in [Email -> {None} \cup AccountRow]
    /\ workspace \in Seq(WorkspaceRow) /\ Len(workspace) <= MaxWorkspace
    /\ member \subseteq joined /\ joined \subseteq Email \X Workspace
    /\ invited \subseteq Workspace
    /\ states \in [State -> {"new", "issued", "expired", "gone"}]
    /\ tab \in [Tab -> Page]
    /\ calls \in 0 .. MaxCall /\ crashes \in 0 .. MaxCrash

Gate == [at |-> "gate", who |-> None, ws |-> 0, op |-> None, pc |-> "idle", to |-> 0, slug |-> 0, home |-> 0]

Init ==
    /\ account = [e \in Email |-> None]
    /\ workspace = <<>>
    /\ member = {} /\ joined = {} /\ invited = {}
    /\ states = [s \in State |-> "new"]
    /\ tab = [t \in Tab |-> Gate]
    /\ calls = 0 /\ crashes = 0

-----------------------------------------------------------------------------
\* What the call of a tab leaves of the page: it ended, and failed or did not.
Ended(p) == IF p.at = "gate" THEN Gate
            ELSE [p EXCEPT !.op = None, !.pc = "idle", !.to = 0, !.slug = 0, !.home = 0]

Second(p) == [Gate EXCEPT !.at = "second", !.who = p.who]

Step(t, pc) == tab' = [tab EXCEPT ![t].pc = pc]
Fails(t) == tab' = [tab EXCEPT ![t] = Ended(@)]

Call(t, op, e, w, pc) ==
    /\ tab[t].pc = "idle"
    /\ calls < MaxCall /\ calls' = calls + 1
    /\ tab' = [tab EXCEPT ![t] = [@ EXCEPT !.op = op, !.who = e, !.to = w, !.pc = pc]]

\* The pages: sign in, create an account, and the second step; the invitation;
\* the switcher and the logout of one who is in.  register is the
\* one call of old clients, first the account made on the page of an invitation.
Press(t) ==
    LET me == tab[t].who IN
    /\ \/ /\ tab[t].at = "gate"
          /\ \E e \in Email :
              \/ Call(t, "login", e, 0, "auth")
              \/ \E op \in {"signup", "register"} : Call(t, op, e, 0, "exists")
              \/ \E w \in invited : Call(t, "join", e, w, "auth") \/ Call(t, "first", e, w, "exists")
       \/ tab[t].at = "second" /\ Call(t, "create", me, 0, "auth")
       \/ tab[t].at = "in" /\ \/ Call(t, "create", me, 0, "cur")
                              \/ \E w \in DOMAIN workspace : Call(t, "login", me, w, "cur")
                              \/ \E w \in invited : Call(t, "join", me, w, "cur")
    /\ UNCHANGED <<account, workspace, member, invited, states, joined, crashes>>

Leave(t) ==
    /\ tab[t].at # "gate" /\ tab[t].pc = "idle"
    /\ tab' = [tab EXCEPT ![t] = Gate]
    /\ UNCHANGED <<account, workspace, member, invited, states, joined, calls, crashes>>

\* Only who manages a workspace may invite, and only a member can.
Invite(t) ==
    /\ tab[t].at = "in" /\ <<tab[t].who, tab[t].ws>> \in member
    /\ tab[t].ws \notin invited
    /\ invited' = invited \cup {tab[t].ws}
    /\ UNCHANGED <<account, workspace, member, states, tab, joined, calls, crashes>>

\* removeMember; one other member does it.
Remove(e, w) ==
    /\ <<e, w>> \in member
    /\ \E other \in Email \ {e} : <<other, w>> \in member
    /\ member' = member \ {<<e, w>>}
    /\ UNCHANGED <<account, workspace, invited, states, tab, joined, calls, crashes>>

-----------------------------------------------------------------------------
(* OAuth: a state is put, and taken once within its time.                  *)

Put(s) ==
    /\ states[s] = "new"
    /\ states' = [states EXCEPT ![s] = "issued"]
    /\ UNCHANGED <<account, workspace, member, invited, tab, joined, calls, crashes>>

Expire(s) ==
    /\ states[s] = "issued"
    /\ states' = [states EXCEPT ![s] = "expired"]
    /\ UNCHANGED <<account, workspace, member, invited, tab, joined, calls, crashes>>

\* The callback takes the state, and its provider names the person.
Take(t, s, e) ==
    /\ tab[t].at = "gate"
    /\ states[s] \in {"issued", "expired"}
    /\ states' = [states EXCEPT ![s] = "gone"]
    /\ IF states[s] = "issued"
       THEN Call(t, "oauth", e, 0, "find")
       ELSE tab[t].pc = "idle" /\ UNCHANGED <<tab, calls>>
    /\ UNCHANGED <<account, workspace, member, invited, joined, crashes>>

-----------------------------------------------------------------------------
(* The steps of a call.                                                    *)

Read(t, pc) ==
    tab' = [tab EXCEPT ![t].home = IF pc = "members" THEN account[tab[t].who].home ELSE 0, ![t].pc = pc]

\* After the account is known: log in, make a workspace, or join one.
Purpose(op) == CASE op = "login" -> "members"
                 [] op \in {"create", "register"} -> "slug"
                 [] op \in {"join", "first"} -> "joined"

\* authAccount.
Auth(t) ==
    LET e == tab[t].who IN
    /\ tab[t].pc = "auth"
    /\ IF account[e] = None THEN Fails(t) ELSE Read(t, Purpose(tab[t].op))
    /\ UNCHANGED account

\* createAccountOnly.
Exists(t) ==
    /\ tab[t].pc = "exists"
    /\ IF account[tab[t].who] = None THEN Step(t, "insert") ELSE Fails(t)
    /\ UNCHANGED account

\* The unique constraint.
EmailIsFree(e) == account[e] = None

InsertAccount(t) ==
    LET p == tab[t] IN
    /\ p.pc = "insert"
    /\ IF ~EmailIsFree(p.who) THEN Fails(t) /\ UNCHANGED account
       ELSE /\ account' = [account EXCEPT ![p.who] = [home |-> 0]]
            /\ IF p.op = "signup" THEN tab' = [tab EXCEPT ![t] = Second(p)]
               ELSE Step(t, IF p.op = "first" THEN "auth" ELSE "find")

\* findAccountByEmail, before and after an account is made.
Find(t) ==
    /\ tab[t].pc = "find"
    /\ IF account[tab[t].who] = None THEN Step(t, "exists")
       ELSE Read(t, IF tab[t].op = "oauth" THEN "members" ELSE Purpose(tab[t].op))
    /\ UNCHANGED account

\* The workspaces of a login: the last one, else any, else the second step, or
\* a default one after OAuth.
Members(t) ==
    LET p == tab[t]
        mine == {w \in Workspace : <<p.who, w>> \in member} IN
    /\ p.pc = "members"
    /\ \/ \E w \in IF p.home \in mine THEN {p.home} ELSE mine :
             tab' = [tab EXCEPT ![t].to = w, ![t].home = 0, ![t].pc = "touch"]
       \/ mine = {} /\ IF p.op = "oauth" THEN tab' = [tab EXCEPT ![t].home = 0, ![t].pc = "slug"]
                       ELSE tab' = [tab EXCEPT ![t] = Second(p)]
    /\ UNCHANGED account

\* membershipByHandle of the token, for a call of one who is in.
Current(t) ==
    LET p == tab[t] IN
    /\ p.pc = "cur"
    /\ IF <<p.who, p.ws>> \notin member THEN Fails(t)
       ELSE CASE p.op = "login" -> Step(t, "target")
              [] OTHER -> Step(t, Purpose(p.op))
    /\ UNCHANGED account

\* switchWorkspace, or an invitation to a workspace one is in.
Target(t) ==
    /\ tab[t].pc \in {"target", "joined"}
    /\ IF <<tab[t].who, tab[t].to>> \in member THEN Step(t, "touch")
       ELSE IF tab[t].pc = "joined" THEN Step(t, "profile") ELSE Fails(t)
    /\ UNCHANGED account

\* touchActiveWorkspace.
Touch(t) ==
    /\ tab[t].pc = "touch"
    /\ account' = [account EXCEPT ![tab[t].who].home = tab[t].to]
    /\ Step(t, "mint")

\* mintCredential and the answer, which may get lost.
Mint(t) ==
    /\ tab[t].pc = "mint"
    /\ \/ tab' = [tab EXCEPT ![t] = [Gate EXCEPT !.at = "in", !.who = tab[t].who, !.ws = tab[t].to]]
       \/ Fails(t)
    /\ UNCHANGED account

AccountStep(t) ==
    /\ \/ Auth(t) \/ Exists(t) \/ InsertAccount(t) \/ Find(t) \/ Members(t)
       \/ Current(t) \/ Target(t) \/ Touch(t) \/ Mint(t)
    /\ UNCHANGED <<workspace, member, invited, states, joined, calls, crashes>>

\* uniqueWorkspaceSlug.  All names are alike; each slug has its number.
Slugs == {workspace[w].slug : w \in DOMAIN workspace}

PickSlug(t) ==
    /\ tab[t].pc = "slug"
    /\ Len(workspace) < MaxWorkspace
    /\ tab' = [tab EXCEPT ![t].slug = CHOOSE i \in Workspace \ Slugs : \A j \in Workspace \ Slugs : i <= j,
                          ![t].pc = "workspace"]
    /\ UNCHANGED <<workspace, member, joined>>

\* The unique constraint.
SlugIsFree(i) == i \notin Slugs

\* Mutant: its profile is forgotten.
AfterInsertMember == "member"
AfterInsert == "profile"

InsertWorkspace(t) ==
    /\ tab[t].pc = "workspace"
    /\ IF ~SlugIsFree(tab[t].slug) THEN Fails(t) /\ UNCHANGED workspace
       ELSE /\ Len(workspace) < MaxWorkspace
            /\ workspace' = Append(workspace, [slug |-> tab[t].slug, by |-> tab[t].who, ready |-> FALSE])
            /\ tab' = [tab EXCEPT ![t].to = Len(workspace) + 1, ![t].slug = 0, ![t].pc = AfterInsert]
    /\ UNCHANGED <<member, joined>>

\* Mutant: the membership is forgotten.
AfterProfileTouch == "touch"
AfterProfile == "member"

\* The transaction makes the profile, and #general in a new workspace.
InsertProfile(t) ==
    /\ tab[t].pc = "profile"
    /\ workspace' = [workspace EXCEPT ![tab[t].to].ready = TRUE]
    /\ Step(t, AfterProfile)
    /\ UNCHANGED <<member, joined>>

\* uq_membership_account_ws: a second one is refused.
InsertMember(t) ==
    LET m == <<tab[t].who, tab[t].to>> IN
    /\ tab[t].pc = "member"
    /\ IF m \in member THEN Fails(t) ELSE Step(t, "touch")
    /\ member' = member \cup {m}
    /\ joined' = joined \cup {m}
    /\ UNCHANGED workspace

WorkspaceStep(t) ==
    /\ PickSlug(t) \/ InsertWorkspace(t) \/ InsertProfile(t) \/ InsertMember(t)
    /\ UNCHANGED <<account, invited, states, calls, crashes>>

\* The server ends: its calls fail where they are, and the states are forgotten.
Crash ==
    /\ crashes < MaxCrash
    /\ crashes' = crashes + 1
    /\ tab' = [t \in Tab |-> Ended(tab[t])]
    /\ states' = [s \in State |-> IF states[s] = "new" THEN "new" ELSE "gone"]
    /\ UNCHANGED <<account, workspace, member, invited, joined, calls>>

Next ==
    \/ \E t \in Tab : Press(t) \/ Leave(t) \/ Invite(t) \/ AccountStep(t) \/ WorkspaceStep(t)
    \/ \E e \in Email, w \in Workspace : Remove(e, w)
    \/ \E s \in State : Put(s) \/ Expire(s)
    \/ \E t \in Tab, s \in State, e \in Email : Take(t, s, e)
    \/ Crash

Spec == Init /\ [][Next]_vars

-----------------------------------------------------------------------------
\* service.ts:205: whoever comes in, or is pointed somewhere, is or was a member
\* there, although the membership, the pointer and the token are three statements.
LandsInside ==
    /\ \A t \in Tab : tab[t].at = "in" => <<tab[t].who, tab[t].ws>> \in joined
    /\ \A e \in Email : account[e] # None /\ account[e].home # 0 => <<e, account[e].home>> \in joined

\* service.ts:187: a workspace has its profile and #general before anyone is in
\* it, and its maker is in it before anyone who was invited.
MakerIsFirst ==
    \A m \in joined : workspace[m[2]].ready /\ <<workspace[m[2]].by, m[2]>> \in joined

-----------------------------------------------------------------------------
(* What comments say and the code does not keep.                           *)

\* service.ts:187: a workspace is made with its owner.  One whose call ended early
\* has none for good.
HasOwner ==
    \A w \in DOMAIN workspace :
        <<workspace[w].by, w>> \in joined \/ \E t \in Tab : tab[t].to = w /\ tab[t].pc # "idle"
=============================================================================
