-------------------------- MODULE WorkspacesProofs --------------------------
(***************************************************************************)
(* Proofs about the accounts, the members and the cards of workspaces,     *)
(* Accounts, Membership and ActionCards, for any people, tabs, calls,      *)
(* cards and workspaces.                                                   *)
(*                                                                         *)
(* Accounts: PageInv is what a tab may be at, given the tables.  Whoever   *)
(* gets a token or a pointer has had its membership checked or made by the *)
(* call that gives it; and an invitation, which a call holds on to until   *)
(* it joins, is one to a workspace that its maker is in.                   *)
(*                                                                         *)
(* Membership: RowsInv holds however the calls overlap.  CalmInv adds      *)
(* where the one call at work has left the two tables while calls come     *)
(* one after the other; ManagedInv, that whoever is about to take an       *)
(* owner's role or row leaves another owner, until two calls have raced.   *)
(*                                                                         *)
(* ActionCards: CardsInv says what each call on a card has achieved.       *)
(***************************************************************************)
EXTENDS Workspaces, FiniteSetTheorems, TLAPS

\* Workspace w is whole, and its maker got into it.
Founded(w) ==
    w \in DOMAIN workspace /\ workspace[w].ready /\ <<workspace[w].by, w>> \in joined

\* Account e may get into w: it has made it, or the maker is in it.
Open(e, w) ==
    w \in DOMAIN workspace /\ (workspace[w].by = e \/ <<workspace[w].by, w>> \in joined)

\* The steps before the account is known.
Unknown == {"idle", "auth", "exists", "insert", "find"}

PageInv(p) ==
    /\ p.at # "gate" \/ p.pc # "idle" => p.who \in Email
    /\ p.at # "gate" \/ p.pc \notin Unknown => account[p.who] # None
    /\ p.at = "in" => <<p.who, p.ws>> \in joined
    /\ p.pc \in {"touch", "mint"} => <<p.who, p.to>> \in joined
    /\ p.op \in {"join", "first"} /\ p.pc \in {"auth", "exists", "insert", "cur"} => p.to \in invited
    /\ p.pc = "joined" => p.to \in invited
    /\ p.pc = "auth" => p.op \in {"login", "create", "join", "first"}
    /\ p.pc \in {"exists", "insert"} => p.op \in {"signup", "register", "first", "oauth"}
    /\ p.pc = "find" => p.op \in {"register", "oauth"}
    /\ p.pc = "cur" => p.op \in {"login", "create", "join"}
    /\ p.pc = "workspace" => p.slug \in Workspace
    /\ p.pc \in {"profile", "member"} => Open(p.who, p.to)
    /\ p.pc = "member" => workspace[p.to].ready

HomesInside ==
    \A e \in Email : account[e] # None /\ account[e].home # 0 => <<e, account[e].home>> \in joined

PagesInv ==
    /\ TypeOK
    /\ \A t \in Tab : PageInv(tab[t])
    /\ HomesInside
    /\ \A m \in joined : Founded(m[2])
    /\ \A w \in invited : Founded(w)

\* No table loses what the invariant is about.
Grown ==
    /\ \A e \in Email : account[e] # None => account'[e] # None
    /\ joined \subseteq joined' /\ invited \subseteq invited'
    /\ \A w \in DOMAIN workspace :
          /\ w \in DOMAIN workspace' /\ workspace'[w].by = workspace[w].by
          /\ workspace[w].ready => workspace'[w].ready

-----------------------------------------------------------------------------
(* Pages.                                                                  *)

LEMMA EndedIsPage ==
  ASSUME NEW p \in Page
  PROVE  /\ Ended(p) \in Page /\ Ended(p).pc = "idle" /\ Ended(p).at = p.at /\ Ended(p).op = None
         /\ p.at # "gate" => Ended(p).who = p.who /\ Ended(p).ws = p.ws
  BY DEF Page, Ended, Gate

LEMMA SecondIsPage ==
  ASSUME NEW p \in Page
  PROVE  /\ Second(p) \in Page /\ Second(p).pc = "idle" /\ Second(p).at = "second" /\ Second(p).op = None
         /\ Second(p).who = p.who
  BY DEF Page, Second, Gate

LEMMA GateIsPage == Gate \in Page /\ Gate.at = "gate" /\ Gate.pc = "idle" /\ Gate.op = None
  BY DEF Page, Gate

LEMMA OnePage ==
  ASSUME TypeOK, NEW t \in Tab, NEW c \in Page, tab' = [tab EXCEPT ![t] = c]
  PROVE  tab' \in [Tab -> Page] /\ tab'[t] = c /\ \A u \in Tab \ {t} : tab'[u] = tab[u]
  BY DEF TypeOK

LEMMA PageKeeps ==
  ASSUME TypeOK, Grown, NEW p \in Page, PageInv(p)
  PROVE  /\ p.at # "gate" \/ p.pc \notin Unknown => account'[p.who] # None
         /\ p.at = "in" => <<p.who, p.ws>> \in joined'
         /\ p.pc \in {"touch", "mint"} => <<p.who, p.to>> \in joined'
         /\ p.op \in {"join", "first"} /\ p.pc \in {"auth", "exists", "insert", "cur"} => p.to \in invited'
         /\ p.pc = "joined" => p.to \in invited'
         /\ p.pc \in {"profile", "member"} =>
               /\ p.to \in DOMAIN workspace'
               /\ workspace'[p.to].by = p.who \/ <<workspace'[p.to].by, p.to>> \in joined'
         /\ p.pc = "member" => workspace'[p.to].ready
  <1>1. p.at # "gate" \/ p.pc \notin Unknown => p.who \in Email
    BY DEF PageInv, Unknown
  <1> QED BY <1>1 DEF PageInv, Grown, Open

LEMMA TabKeeps ==
  ASSUME TypeOK, Grown, NEW u \in Tab, PageInv(tab[u]), tab'[u] = tab[u]
  PROVE  PageInv(tab[u])'
  <1>1. tab[u] \in Page
    BY DEF TypeOK
  <1> QED BY <1>1, PageKeeps DEF PageInv, Open

LEMMA FoundedStays ==
  ASSUME Grown, NEW w, Founded(w)
  PROVE  Founded(w)'
  BY DEF Grown, Founded

\* A step of one tab.
LEMMA TabStep ==
  ASSUME PagesInv, TypeOK', Grown, NEW t \in Tab, \A u \in Tab \ {t} : tab'[u] = tab[u],
         PageInv(tab[t])', HomesInside',
         \A m \in joined' \ joined : Founded(m[2])', \A w \in invited' \ invited : Founded(w)'
  PROVE  PagesInv'
  <1> USE DEF PagesInv
  <1>1. \A u \in Tab : PageInv(tab[u])'
    BY TabKeeps
  <1>2. ASSUME NEW m \in joined' PROVE Founded(m[2])'
    BY FoundedStays
  <1>3. ASSUME NEW w \in invited' PROVE Founded(w)'
    BY FoundedStays
  <1> QED BY <1>1, <1>2, <1>3

\* A step that changes nothing but the page of one tab.
LEMMA PageStep ==
  ASSUME ParametersOK, PagesInv, NEW t \in Tab, NEW c \in Page, PageInv(c), tab' = [tab EXCEPT ![t] = c],
         UNCHANGED <<account, workspace, member, invited, joined, crashes>>,
         calls' \in 0 .. MaxCall, states' \in [State -> {"new", "issued", "expired", "gone"}]
  PROVE  PagesInv'
  <1> USE DEF PagesInv
  <1>1. tab' \in [Tab -> Page] /\ tab'[t] = c /\ \A u \in Tab \ {t} : tab'[u] = tab[u]
    BY OnePage
  <1>2. TypeOK'
    BY <1>1 DEF TypeOK
  <1>3. Grown
    BY DEF Grown
  <1>4. PageInv(tab[t])'
    BY <1>1 DEF PageInv, Open
  <1>5. HomesInside'
    BY DEF HomesInside
  <1> QED BY <1>1, <1>2, <1>3, <1>4, <1>5, TabStep

\* The call goes on at another step, and nothing else of its page changes.
LEMMA StepIsPage ==
  ASSUME PagesInv, NEW t \in Tab, NEW pc, Step(t, pc),
         pc \in {"auth", "exists", "insert", "find", "members", "slug", "workspace",
                 "profile", "member", "touch", "mint", "cur", "target", "joined"}
  PROVE  \E c \in Page :
            /\ tab' = [tab EXCEPT ![t] = c]
            /\ c.pc = pc /\ c.at = tab[t].at /\ c.who = tab[t].who /\ c.ws = tab[t].ws /\ c.op = tab[t].op
            /\ c.to = tab[t].to /\ c.slug = tab[t].slug
  <1> DEFINE c == [tab[t] EXCEPT !.pc = pc]
  <1>1. tab[t] \in Page
    BY DEF PagesInv, TypeOK
  <1>2. /\ c \in Page /\ c.pc = pc /\ c.at = tab[t].at /\ c.who = tab[t].who /\ c.ws = tab[t].ws
        /\ c.op = tab[t].op /\ c.to = tab[t].to /\ c.slug = tab[t].slug
    BY <1>1 DEF Page
  <1>3. tab' = [tab EXCEPT ![t] = c]
    BY DEF Step, PagesInv, TypeOK
  <1> QED BY <1>2, <1>3

LEMMA FailsKeeps ==
  ASSUME ParametersOK, PagesInv, NEW t \in Tab, Fails(t),
         UNCHANGED <<account, workspace, member, invited, states, joined, calls, crashes>>
  PROVE  PagesInv'
  <1> DEFINE c == Ended(tab[t])
  <1>1. tab[t] \in Page /\ PageInv(tab[t])
    BY DEF PagesInv, TypeOK
  <1>2. /\ c \in Page /\ c.pc = "idle" /\ c.at = tab[t].at
        /\ c.at # "gate" => c.who = tab[t].who /\ c.ws = tab[t].ws
    BY <1>1, EndedIsPage
  <1>3. tab' = [tab EXCEPT ![t] = c]
    BY DEF Fails, PagesInv, TypeOK
  <1> HIDE DEF c
  <1>4. PageInv(c)
    BY <1>1, <1>2 DEF PageInv, Unknown
  <1>5. calls' \in 0 .. MaxCall /\ states' \in [State -> {"new", "issued", "expired", "gone"}]
    BY DEF PagesInv, TypeOK
  <1> QED BY <1>2, <1>3, <1>4, <1>5, PageStep

\* A call that goes on, with all that its next step needs.
LEMMA StepKeeps ==
  ASSUME ParametersOK, PagesInv, NEW t \in Tab, NEW pc, Step(t, pc),
         pc \in {"auth", "exists", "insert", "find", "members", "slug", "workspace",
                 "profile", "member", "touch", "mint", "cur", "target", "joined"},
         \A c \in Page :
            /\ c.pc = pc /\ c.at = tab[t].at /\ c.who = tab[t].who /\ c.ws = tab[t].ws /\ c.op = tab[t].op
            /\ c.to = tab[t].to /\ c.slug = tab[t].slug
            => PageInv(c),
         UNCHANGED <<account, workspace, member, invited, states, joined, calls, crashes>>
  PROVE  PagesInv'
  <1>1. PICK c \in Page :
            /\ tab' = [tab EXCEPT ![t] = c]
            /\ c.pc = pc /\ c.at = tab[t].at /\ c.who = tab[t].who /\ c.ws = tab[t].ws /\ c.op = tab[t].op
            /\ c.to = tab[t].to /\ c.slug = tab[t].slug
    BY StepIsPage
  <1>2. calls' \in 0 .. MaxCall /\ states' \in [State -> {"new", "issued", "expired", "gone"}]
    BY DEF PagesInv, TypeOK
  <1> QED BY <1>1, <1>2, PageStep

-----------------------------------------------------------------------------
(* What people do.                                                         *)

LEMMA CalledIsPage ==
  ASSUME TypeOK, NEW t \in Tab, NEW e \in Email, NEW w \in {0} \cup Workspace,
         NEW op \in {"login", "signup", "register", "create", "join", "first", "oauth"},
         NEW pc \in {"auth", "exists", "cur", "find"}, Call(t, op, e, w, pc)
  PROVE  \E c \in Page :
            /\ tab' = [tab EXCEPT ![t] = c]
            /\ c.pc = pc /\ c.op = op /\ c.who = e /\ c.to = w
            /\ c.at = tab[t].at /\ c.ws = tab[t].ws
  <1> DEFINE c == [tab[t] EXCEPT !.op = op, !.who = e, !.to = w, !.pc = pc]
  <1>1. tab[t] \in Page
    BY DEF TypeOK
  <1>2. /\ c \in Page /\ c.pc = pc /\ c.op = op /\ c.who = e /\ c.to = w
        /\ c.at = tab[t].at /\ c.ws = tab[t].ws
    <2> DEFINE d1 == [tab[t] EXCEPT !.op = op]
               d2 == [d1 EXCEPT !.who = e]
               d3 == [d2 EXCEPT !.to = w]
    <2>1. d1 \in Page /\ d1.op = op /\ d1.at = tab[t].at /\ d1.ws = tab[t].ws
      BY <1>1 DEF Page
    <2> HIDE DEF d1
    <2>2. d2 \in Page /\ d2.who = e /\ d2.op = op /\ d2.at = tab[t].at /\ d2.ws = tab[t].ws
      BY <2>1 DEF Page
    <2> HIDE DEF d2
    <2>3. d3 \in Page /\ d3.to = w /\ d3.who = e /\ d3.op = op /\ d3.at = tab[t].at /\ d3.ws = tab[t].ws
      BY <2>2 DEF Page
    <2> HIDE DEF d3
    <2> DEFINE d4 == [d3 EXCEPT !.pc = pc]
    <2>4. d4 \in Page /\ d4.pc = pc /\ d4.to = w /\ d4.who = e /\ d4.op = op /\ d4.at = tab[t].at /\ d4.ws = tab[t].ws
      BY <2>3 DEF Page
    <2>5. c = d4
      BY DEF d1, d2, d3
    <2> QED BY <2>4, <2>5
  <1>3. tab' = [tab EXCEPT ![t] = c]
    BY DEF Call, TypeOK
  <1> QED BY <1>2, <1>3

\* A call that a page makes has all that its first step needs.
LEMMA CallKeeps ==
  ASSUME ParametersOK, PagesInv, NEW t \in Tab, NEW op, NEW e, NEW w, NEW pc,
         e \in Email, w \in {0} \cup Workspace,
         op \in {"login", "signup", "register", "create", "join", "first", "oauth"},
         tab[t].at # "gate" => e = tab[t].who,
         \/ pc = "auth" /\ (op \in {"login", "create"} \/ (op = "join" /\ w \in invited))
         \/ pc = "exists" /\ (op \in {"signup", "register"} \/ (op = "first" /\ w \in invited))
         \/ pc = "cur" /\ tab[t].at = "in" /\ (op \in {"login", "create"} \/ (op = "join" /\ w \in invited))
         \/ pc = "find" /\ op = "oauth",
         Call(t, op, e, w, pc),
         UNCHANGED <<account, workspace, member, invited, joined, crashes>>,
         states' \in [State -> {"new", "issued", "expired", "gone"}]
  PROVE  PagesInv'
  <1>1. PageInv(tab[t]) /\ tab[t].pc = "idle"
    BY DEF PagesInv, Call
  <1>2. pc \in {"auth", "exists", "cur", "find"}
    OBVIOUS
  <1>3. PICK c \in Page :
           /\ tab' = [tab EXCEPT ![t] = c]
           /\ c.pc = pc /\ c.op = op /\ c.who = e /\ c.to = w
           /\ c.at = tab[t].at /\ c.ws = tab[t].ws
    BY <1>2, CalledIsPage DEF PagesInv
  <1>5. calls' \in 0 .. MaxCall
    BY DEF Call, PagesInv, TypeOK, ParametersOK
  <1>6. c.at # "gate" \/ c.pc \notin Unknown => account[e] # None
    BY <1>1, <1>2, <1>3 DEF PageInv, Unknown
  <1>7. c.at = "in" => <<e, c.ws>> \in joined
    BY <1>1, <1>3 DEF PageInv
  <1>8. PageInv(c)
    BY <1>2, <1>3, <1>6, <1>7 DEF PageInv
  <1> QED BY <1>3, <1>5, <1>8, PageStep

LEMMA PressKeeps ==
  ASSUME ParametersOK, PagesInv, NEW t \in Tab, Press(t)
  PROVE  PagesInv'
  <1>1. /\ UNCHANGED <<account, workspace, member, invited, joined, crashes>>
        /\ states' \in [State -> {"new", "issued", "expired", "gone"}]
    BY DEF Press, PagesInv, TypeOK
  <1>2. /\ invited \subseteq Workspace /\ DOMAIN workspace \subseteq Workspace
        /\ tab[t].at # "gate" => tab[t].who \in Email
    <2>1. invited \subseteq Workspace /\ workspace \in Seq(WorkspaceRow) /\ Len(workspace) <= MaxWorkspace
      BY DEF PagesInv, TypeOK
    <2>2. DOMAIN workspace \subseteq Workspace
      BY <2>1 DEF ParametersOK, Workspace
    <2>3. tab[t].at # "gate" => tab[t].who \in Email
      BY DEF PagesInv, PageInv
    <2> QED BY <2>1, <2>2, <2>3
  <1>0. PICK none \in {0} \cup Workspace : none = 0
    OBVIOUS
  <1>3. CASE tab[t].at = "gate" /\ \E e \in Email : Call(t, "login", e, none, "auth")
    BY <1>0, <1>1, <1>3, CallKeeps
  <1>4. CASE tab[t].at = "gate" /\ \E e \in Email, op \in {"signup", "register"} : Call(t, op, e, none, "exists")
    BY <1>0, <1>1, <1>4, CallKeeps
  <1>5. CASE tab[t].at = "gate" /\ \E e \in Email, w \in invited :
                Call(t, "join", e, w, "auth") \/ Call(t, "first", e, w, "exists")
    BY <1>1, <1>2, <1>5, CallKeeps
  <1>6. CASE tab[t].at = "second" /\ Call(t, "create", tab[t].who, none, "auth")
    BY <1>0, <1>1, <1>2, <1>6, CallKeeps
  <1>7. CASE tab[t].at = "in" /\ Call(t, "create", tab[t].who, none, "cur")
    BY <1>0, <1>1, <1>2, <1>7, CallKeeps
  <1>8. CASE tab[t].at = "in" /\ \E w \in DOMAIN workspace : Call(t, "login", tab[t].who, w, "cur")
    BY <1>0, <1>1, <1>2, <1>8, CallKeeps
  <1>9. CASE tab[t].at = "in" /\ \E w \in invited : Call(t, "join", tab[t].who, w, "cur")
    BY <1>1, <1>2, <1>9, CallKeeps
  <1> QED BY <1>0, <1>3, <1>4, <1>5, <1>6, <1>7, <1>8, <1>9 DEF Press

LEMMA TakeKeeps ==
  ASSUME ParametersOK, PagesInv, NEW t \in Tab, NEW s \in State, NEW e \in Email, Take(t, s, e)
  PROVE  PagesInv'
  <1>1. /\ UNCHANGED <<account, workspace, member, invited, joined, crashes>>
        /\ states' \in [State -> {"new", "issued", "expired", "gone"}]
    BY DEF Take, PagesInv, TypeOK
  <1>2. CASE states[s] = "issued"
    <2>1. Call(t, "oauth", e, 0, "find") /\ tab[t].at = "gate"
      BY <1>2 DEF Take
    <2> QED BY <1>1, <2>1, CallKeeps
  <1>3. CASE states[s] # "issued"
    <2>1. tab[t] \in Page /\ PageInv(tab[t]) /\ tab' = [tab EXCEPT ![t] = tab[t]] /\ calls' \in 0 .. MaxCall
      BY <1>3 DEF Take, PagesInv, TypeOK
    <2> QED BY <1>1, <2>1, PageStep
  <1> QED BY <1>2, <1>3

LEMMA LeaveKeeps ==
  ASSUME ParametersOK, PagesInv, NEW t \in Tab, Leave(t)
  PROVE  PagesInv'
  <1>1. PageInv(Gate) /\ Gate \in Page
    BY GateIsPage DEF PageInv, Unknown
  <1>2. calls' \in 0 .. MaxCall /\ states' \in [State -> {"new", "issued", "expired", "gone"}]
    BY DEF Leave, PagesInv, TypeOK
  <1> QED BY <1>1, <1>2, PageStep DEF Leave

\* The steps that move no tab.
LEMMA TablesKeep ==
  ASSUME ParametersOK, PagesInv, tab' = tab, UNCHANGED <<account, workspace, joined, calls, crashes>>,
         member' \subseteq member, invited \subseteq invited', invited' \subseteq Workspace,
         \A w \in invited' : Founded(w),
         states' \in [State -> {"new", "issued", "expired", "gone"}]
  PROVE  PagesInv'
  <1> USE DEF PagesInv
  <1>1. Grown
    BY DEF Grown
  <1>2. TypeOK'
    BY DEF TypeOK
  <1>3. \A u \in Tab : PageInv(tab[u])'
    BY <1>1, TabKeeps
  <1>4. HomesInside'
    BY DEF HomesInside
  <1>5. (\A m \in joined' : Founded(m[2])') /\ \A w \in invited' : Founded(w)'
    BY <1>1, FoundedStays
  <1> QED BY <1>2, <1>3, <1>4, <1>5

\* Only a member invites, and no workspace has one before its maker.
LEMMA InviteKeeps ==
  ASSUME ParametersOK, PagesInv, NEW t \in Tab, Invite(t)
  PROVE  PagesInv'
  <1>1. <<tab[t].who, tab[t].ws>> \in joined
    BY DEF Invite, PagesInv, TypeOK
  <1>2. Founded(tab[t].ws) /\ tab[t].ws \in Workspace
    BY <1>1 DEF PagesInv, TypeOK
  <1>3. \A w \in invited' : Founded(w)
    BY <1>2 DEF Invite, PagesInv
  <1> QED BY <1>2, <1>3, TablesKeep DEF Invite, PagesInv, TypeOK

LEMMA RemoveKeeps ==
  ASSUME ParametersOK, PagesInv, NEW e \in Email, NEW w \in Workspace, Remove(e, w)
  PROVE  PagesInv'
  BY TablesKeep DEF Remove, PagesInv, TypeOK

LEMMA StatesKeep ==
  ASSUME ParametersOK, PagesInv, NEW s \in State, Put(s) \/ Expire(s)
  PROVE  PagesInv'
  BY TablesKeep DEF Put, Expire, PagesInv, TypeOK

-----------------------------------------------------------------------------
(* The steps of a call over the accounts.                                  *)

LEMMA PageIsTyped ==
  ASSUME PagesInv, NEW t \in Tab
  PROVE  /\ tab[t] \in Page /\ PageInv(tab[t])
         /\ tab[t].pc # "idle" => tab[t].who \in Email
         /\ tab[t].pc \notin Unknown => account[tab[t].who] \in AccountRow
  <1>1. tab[t] \in Page /\ PageInv(tab[t])
    BY DEF PagesInv, TypeOK
  <1>2. tab[t].pc # "idle" => tab[t].who \in Email
    BY <1>1 DEF PageInv
  <1>3. tab[t].pc \notin Unknown => account[tab[t].who] \in AccountRow
    BY <1>1, <1>2 DEF PageInv, PagesInv, TypeOK, Unknown
  <1> QED BY <1>1, <1>2, <1>3

\* A call whose account is there goes on to what it is for.
LEMMA ReadKeeps ==
  ASSUME ParametersOK, PagesInv, NEW t \in Tab, NEW pc \in {"members", "slug", "joined"}, Read(t, pc),
         tab[t].pc # "idle", account[tab[t].who] # None, pc = "joined" => tab[t].to \in invited,
         UNCHANGED <<account, workspace, member, invited, states, joined, calls, crashes>>
  PROVE  PagesInv'
  <1> DEFINE h == IF pc = "members" THEN account[tab[t].who].home ELSE 0
             d == [tab[t] EXCEPT !.home = h]
             c == [d EXCEPT !.pc = pc]
  <1>1. tab[t] \in Page /\ PageInv(tab[t]) /\ tab[t].who \in Email
    BY PageIsTyped
  <1>2. account[tab[t].who] \in AccountRow
    BY <1>1 DEF PagesInv, TypeOK
  <1>3. h \in {0} \cup Workspace
    BY <1>2 DEF AccountRow
  <1>4. tab' = [tab EXCEPT ![t] = c]
    BY DEF Read, PagesInv, TypeOK
  <1> HIDE DEF h
  <1>5. d \in Page /\ d.at = tab[t].at /\ d.who = tab[t].who /\ d.ws = tab[t].ws /\ d.to = tab[t].to
    BY <1>1, <1>3 DEF Page
  <1> HIDE DEF d
  <1>6. /\ c \in Page /\ c.pc = pc /\ c.at = tab[t].at /\ c.who = tab[t].who
        /\ c.ws = tab[t].ws /\ c.to = tab[t].to
    BY <1>5 DEF Page
  <1> HIDE DEF c
  <1>7. PageInv(c)
    BY <1>1, <1>6 DEF PageInv
  <1>8. calls' \in 0 .. MaxCall /\ states' \in [State -> {"new", "issued", "expired", "gone"}]
    BY DEF PagesInv, TypeOK
  <1> QED BY <1>4, <1>6, <1>7, <1>8, PageStep

Quiet == UNCHANGED <<workspace, member, invited, states, joined, calls, crashes>>

LEMMA AuthKeeps ==
  ASSUME ParametersOK, PagesInv, NEW t \in Tab, Auth(t), Quiet
  PROVE  PagesInv'
  <1> USE DEF Quiet
  <1>1. CASE Fails(t)
    BY <1>1, FailsKeeps DEF Auth
  <1>2. CASE account[tab[t].who] # None /\ Read(t, Purpose(tab[t].op))
    <2>1. tab[t].op \in {"login", "create", "join", "first"} /\ PageInv(tab[t]) /\ tab[t].pc = "auth"
      BY PageIsTyped DEF PageInv, Auth
    <2>2. /\ Purpose(tab[t].op) \in {"members", "slug", "joined"}
          /\ Purpose(tab[t].op) = "joined" => tab[t].to \in invited
      BY <2>1 DEF Purpose, PageInv
    <2> QED BY <1>2, <2>1, <2>2, ReadKeeps DEF Auth
  <1> QED BY <1>1, <1>2 DEF Auth

LEMMA ExistsKeeps ==
  ASSUME ParametersOK, PagesInv, NEW t \in Tab, Exists(t), Quiet
  PROVE  PagesInv'
  <1> USE DEF Quiet
  <1>1. CASE Fails(t)
    BY <1>1, FailsKeeps DEF Exists
  <1>2. CASE Step(t, "insert")
    <2>1. PageInv(tab[t]) /\ tab[t].pc = "exists"
      BY PageIsTyped DEF Exists
    <2> QED BY <1>2, <2>1, StepKeeps DEF Exists, PageInv, Unknown
  <1> QED BY <1>1, <1>2 DEF Exists

LEMMA FindKeeps ==
  ASSUME ParametersOK, PagesInv, NEW t \in Tab, Find(t), Quiet
  PROVE  PagesInv'
  <1> USE DEF Quiet
  <1>1. PageInv(tab[t]) /\ tab[t].pc = "find" /\ tab[t].op \in {"register", "oauth"}
    BY PageIsTyped DEF Find, PageInv
  <1>2. CASE Step(t, "exists")
    BY <1>1, <1>2, StepKeeps DEF Find, PageInv, Unknown
  <1>3. CASE account[tab[t].who] # None
             /\ Read(t, IF tab[t].op = "oauth" THEN "members" ELSE Purpose(tab[t].op))
    <2>1. PICK pc \in {"members", "slug"} : Read(t, pc)
      BY <1>1, <1>3 DEF Purpose
    <2> QED BY <1>1, <1>3, <2>1, ReadKeeps DEF Find
  <1> QED BY <1>2, <1>3 DEF Find

\* The second step: the account is known, and nothing else.
LEMMA SecondKeeps ==
  ASSUME ParametersOK, PagesInv, NEW t \in Tab, tab' = [tab EXCEPT ![t] = Second(tab[t])],
         tab[t].pc \notin Unknown, account' = account, Quiet
  PROVE  PagesInv'
  <1>1. tab[t] \in Page /\ PageInv(tab[t])
    BY PageIsTyped
  <1>2. PICK c \in Page : c = Second(tab[t])
    BY <1>1, SecondIsPage
  <1>3. c.pc = "idle" /\ c.at = "second" /\ c.who = tab[t].who
    BY <1>1, <1>2, SecondIsPage
  <1>4. PageInv(c)
    BY <1>1, <1>3 DEF PageInv, Unknown
  <1>5. calls' \in 0 .. MaxCall /\ states' \in [State -> {"new", "issued", "expired", "gone"}]
    BY DEF PagesInv, TypeOK, Quiet
  <1> QED BY <1>2, <1>4, <1>5, PageStep DEF Quiet

LEMMA MembersKeeps ==
  ASSUME ParametersOK, PagesInv, NEW t \in Tab, Members(t), Quiet
  PROVE  PagesInv'
  <1> DEFINE mine == {w \in Workspace : <<tab[t].who, w>> \in member}
  <1>1. tab[t] \in Page /\ PageInv(tab[t]) /\ tab[t].pc = "members"
    BY PageIsTyped DEF Members
  <1>2. calls' \in 0 .. MaxCall /\ states' \in [State -> {"new", "issued", "expired", "gone"}]
    BY DEF PagesInv, TypeOK, Quiet
  <1>3. CASE \E w \in mine : tab' = [tab EXCEPT ![t].to = w, ![t].home = 0, ![t].pc = "touch"]
    <2>1. PICK w \in mine : tab' = [tab EXCEPT ![t].to = w, ![t].home = 0, ![t].pc = "touch"]
      BY <1>3
    <2>2. w \in Workspace /\ <<tab[t].who, w>> \in joined
      BY DEF PagesInv, TypeOK
    <2> DEFINE c == [tab[t] EXCEPT !.to = w, !.home = 0, !.pc = "touch"]
    <2>3. tab' = [tab EXCEPT ![t] = c]
      BY <2>1 DEF PagesInv, TypeOK
    <2>4. /\ c \in Page /\ c.pc = "touch" /\ c.to = w /\ c.at = tab[t].at
          /\ c.who = tab[t].who /\ c.ws = tab[t].ws
      BY <1>1, <2>2 DEF Page
    <2> HIDE DEF c
    <2>5. PageInv(c)
      BY <1>1, <2>2, <2>4 DEF PageInv, Unknown
    <2> QED BY <1>2, <2>3, <2>4, <2>5, PageStep DEF Members, Quiet
  <1>4. CASE tab' = [tab EXCEPT ![t].home = 0, ![t].pc = "slug"]
    <2> DEFINE c == [tab[t] EXCEPT !.home = 0, !.pc = "slug"]
    <2>1. tab' = [tab EXCEPT ![t] = c]
      BY <1>4 DEF PagesInv, TypeOK
    <2>2. c \in Page /\ c.pc = "slug" /\ c.at = tab[t].at /\ c.who = tab[t].who /\ c.ws = tab[t].ws
      BY <1>1 DEF Page
    <2> HIDE DEF c
    <2>3. PageInv(c)
      BY <1>1, <2>2 DEF PageInv, Unknown
    <2> QED BY <1>2, <2>1, <2>2, <2>3, PageStep DEF Members, Quiet
  <1>5. CASE tab' = [tab EXCEPT ![t] = Second(tab[t])]
    BY <1>1, <1>5, SecondKeeps DEF Members, Unknown
  <1> QED BY <1>3, <1>4, <1>5 DEF Members

LEMMA CurrentKeeps ==
  ASSUME ParametersOK, PagesInv, NEW t \in Tab, Current(t), Quiet
  PROVE  PagesInv'
  <1> USE DEF Quiet
  <1>1. PageInv(tab[t]) /\ tab[t].pc = "cur" /\ tab[t].op \in {"login", "create", "join"}
    BY PageIsTyped DEF Current, PageInv
  <1>2. CASE Fails(t)
    BY <1>2, FailsKeeps DEF Current
  <1>3. CASE tab[t].op = "login" /\ Step(t, "target")
    BY <1>1, <1>3, StepKeeps DEF Current, PageInv, Unknown
  <1>4. CASE tab[t].op = "create" /\ Step(t, "slug")
    BY <1>1, <1>4, StepKeeps DEF Current, PageInv, Unknown
  <1>5. CASE tab[t].op = "join" /\ Step(t, "joined")
    BY <1>1, <1>5, StepKeeps DEF Current, PageInv, Unknown
  <1> QED BY <1>1, <1>2, <1>3, <1>4, <1>5 DEF Current, Purpose

LEMMA TargetKeeps ==
  ASSUME ParametersOK, PagesInv, NEW t \in Tab, Target(t), Quiet
  PROVE  PagesInv'
  <1> USE DEF Quiet
  <1>1. PageInv(tab[t]) /\ tab[t].pc \in {"target", "joined"}
    BY PageIsTyped DEF Target
  <1>2. CASE <<tab[t].who, tab[t].to>> \in member /\ Step(t, "touch")
    <2>1. <<tab[t].who, tab[t].to>> \in joined
      BY <1>2 DEF PagesInv, TypeOK
    <2> QED BY <1>1, <1>2, <2>1, StepKeeps DEF Target, PageInv, Unknown
  <1>3. CASE tab[t].pc = "joined" /\ Step(t, "profile")
    <2>1. Open(tab[t].who, tab[t].to)
      BY <1>1, <1>3 DEF PageInv, PagesInv, Founded, Open
    <2> QED BY <1>1, <1>3, <2>1, StepKeeps DEF Target, PageInv, Unknown
  <1>4. CASE Fails(t)
    BY <1>4, FailsKeeps DEF Target
  <1> QED BY <1>2, <1>3, <1>4 DEF Target

\* A new account points nowhere.
LEMMA InsertAccountKeeps ==
  ASSUME ParametersOK, PagesInv, NEW t \in Tab, InsertAccount(t), Quiet
  PROVE  PagesInv'
  <1> DEFINE p == tab[t]
  <1>1. p \in Page /\ PageInv(p) /\ p.pc = "insert" /\ p.who \in Email
        /\ p.op \in {"signup", "register", "first", "oauth"}
    BY PageIsTyped DEF InsertAccount, PageInv
  <1>2. CASE Fails(t) /\ UNCHANGED account
    BY <1>2, FailsKeeps DEF Quiet
  <1>3. CASE /\ EmailIsFree(p.who)
             /\ account' = [account EXCEPT ![p.who] = [home |-> 0]]
             /\ IF p.op = "signup" THEN tab' = [tab EXCEPT ![t] = Second(p)]
                ELSE Step(t, IF p.op = "first" THEN "auth" ELSE "find")
    <2>1. /\ account' \in [Email -> {None} \cup AccountRow] /\ account'[p.who] = [home |-> 0]
          /\ \A e \in Email \ {p.who} : account'[e] = account[e]
          /\ account'[p.who] # None
      <3>1. [home |-> 0] \in AccountRow /\ [home |-> 0] # None
        BY DEF AccountRow, ParametersOK
      <3> QED BY <1>1, <1>3, <3>1 DEF PagesInv, TypeOK
    <2>2. Grown
      BY <2>1 DEF Grown, Quiet
    <2>3. HomesInside'
      <3>1. account'[p.who].home = 0
        BY <2>1
      <3> QED BY <2>1, <3>1 DEF HomesInside, PagesInv, Quiet
    <2>4. \E c \in Page :
            /\ tab' = [tab EXCEPT ![t] = c] /\ c.who = p.who
            /\ \/ c.at = "second" /\ c.pc = "idle"
               \/ c.at = p.at /\ c.ws = p.ws /\ c.op = "first" /\ c.to = p.to /\ c.pc = "auth" /\ p.op = "first"
               \/ c.at = p.at /\ c.ws = p.ws /\ c.op \in {"register", "oauth"} /\ c.pc = "find"
      <3>1. CASE p.op = "signup"
        BY <1>1, <1>3, <3>1, SecondIsPage
      <3>2. CASE p.op = "first"
        <4>1. Step(t, "auth")
          BY <1>3, <3>2
        <4> QED BY <1>1, <3>2, <4>1, StepIsPage
      <3>3. CASE p.op \in {"register", "oauth"}
        <4>1. Step(t, "find")
          BY <1>3, <3>3
        <4> QED BY <1>1, <3>3, <4>1, StepIsPage
      <3> QED BY <1>1, <3>1, <3>2, <3>3
    <2>5. PICK c \in Page :
            /\ tab' = [tab EXCEPT ![t] = c] /\ c.who = p.who
            /\ \/ c.at = "second" /\ c.pc = "idle"
               \/ c.at = p.at /\ c.ws = p.ws /\ c.op = "first" /\ c.to = p.to /\ c.pc = "auth" /\ p.op = "first"
               \/ c.at = p.at /\ c.ws = p.ws /\ c.op \in {"register", "oauth"} /\ c.pc = "find"
      BY <2>4
    <2>6. tab' \in [Tab -> Page] /\ tab'[t] = c /\ \A u \in Tab \ {t} : tab'[u] = tab[u]
      BY <2>5, OnePage DEF PagesInv
    <2>7. PageInv(tab[t])'
      <3>1. c.at = "in" => <<c.who, c.ws>> \in joined
        BY <1>1, <2>5 DEF PageInv
      <3>2. c.op = "first" /\ c.pc = "auth" => c.to \in invited
        BY <1>1, <2>5 DEF PageInv
      <3> QED BY <1>1, <2>1, <2>5, <2>6, <3>1, <3>2 DEF PageInv, Unknown, Quiet
    <2>8. TypeOK'
      BY <2>1, <2>6 DEF PagesInv, TypeOK, Quiet
    <2>9. joined' = joined /\ invited' = invited
      BY DEF Quiet
    <2> QED BY <2>2, <2>3, <2>6, <2>7, <2>8, <2>9, TabStep
  <1> QED BY <1>2, <1>3 DEF InsertAccount

\* The pointer goes where the call has seen or made the membership.
LEMMA TouchKeeps ==
  ASSUME ParametersOK, PagesInv, NEW t \in Tab, Touch(t), Quiet
  PROVE  PagesInv'
  <1> DEFINE p == tab[t]
  <1>1. p \in Page /\ PageInv(p) /\ p.pc = "touch" /\ p.who \in Email /\ account[p.who] \in AccountRow
    BY PageIsTyped DEF Touch, Unknown
  <1>2. <<p.who, p.to>> \in joined /\ p.to \in {0} \cup Workspace
    BY <1>1 DEF PageInv, Page
  <1> DEFINE row == [account[p.who] EXCEPT !.home = p.to]
  <1>3. row \in AccountRow /\ row.home = p.to
    BY <1>1, <1>2 DEF AccountRow
  <1>4. account' = [account EXCEPT ![p.who] = row]
    BY <1>1 DEF Touch, PagesInv, TypeOK
  <1> HIDE DEF row
  <1>5. /\ account' \in [Email -> {None} \cup AccountRow] /\ account'[p.who] = row /\ row # None
        /\ \A e \in Email \ {p.who} : account'[e] = account[e]
    BY <1>1, <1>3, <1>4 DEF PagesInv, TypeOK, ParametersOK
  <1>6. Grown
    BY <1>5 DEF Grown, Quiet
  <1>7. HomesInside'
    BY <1>2, <1>3, <1>5 DEF HomesInside, PagesInv, Quiet
  <1>8. PICK c \in Page :
            /\ tab' = [tab EXCEPT ![t] = c]
            /\ c.pc = "mint" /\ c.at = p.at /\ c.who = p.who /\ c.ws = p.ws /\ c.to = p.to
    BY StepIsPage DEF Touch
  <1>9. tab' \in [Tab -> Page] /\ tab'[t] = c /\ \A u \in Tab \ {t} : tab'[u] = tab[u]
    BY <1>8, OnePage DEF PagesInv
  <1>10. PageInv(tab[t])'
    <2>1. c.at = "in" => <<c.who, c.ws>> \in joined
      BY <1>1, <1>8 DEF PageInv
    <2> QED BY <1>1, <1>2, <1>5, <1>8, <1>9, <2>1 DEF PageInv, Quiet
  <1>11. TypeOK'
    BY <1>5, <1>9 DEF PagesInv, TypeOK, Quiet
  <1>12. joined' = joined /\ invited' = invited
    BY DEF Quiet
  <1> QED BY <1>6, <1>7, <1>9, <1>10, <1>11, <1>12, TabStep

LEMMA MintKeeps ==
  ASSUME ParametersOK, PagesInv, NEW t \in Tab, Mint(t), Quiet
  PROVE  PagesInv'
  <1>1. CASE Fails(t)
    BY <1>1, FailsKeeps DEF Mint, Quiet
  <1>2. CASE tab' = [tab EXCEPT ![t] = [Gate EXCEPT !.at = "in", !.who = tab[t].who, !.ws = tab[t].to]]
    <2> DEFINE c == [at |-> "in", who |-> tab[t].who, ws |-> tab[t].to, op |-> None, pc |-> "idle",
                     to |-> 0, slug |-> 0, home |-> 0]
    <2>1. tab[t] \in Page /\ PageInv(tab[t]) /\ tab[t].pc = "mint" /\ tab[t].who \in Email
      BY PageIsTyped DEF Mint
    <2>2. tab[t].to \in {0} \cup Workspace
      BY <2>1 DEF Page
    <2>3. c \in Page
      BY <2>1, <2>2 DEF Page
    <2>4. [Gate EXCEPT !.at = "in", !.who = tab[t].who, !.ws = tab[t].to] = c
      <3> DEFINE d1 == [Gate EXCEPT !.at = "in"]
                 d2 == [d1 EXCEPT !.who = tab[t].who]
                 d3 == [d2 EXCEPT !.ws = tab[t].to]
      <3>1. d1 = [at |-> "in", who |-> None, ws |-> 0, op |-> None, pc |-> "idle", to |-> 0, slug |-> 0, home |-> 0]
        BY DEF Gate
      <3> HIDE DEF d1
      <3>2. d2 = [at |-> "in", who |-> tab[t].who, ws |-> 0, op |-> None, pc |-> "idle", to |-> 0, slug |-> 0, home |-> 0]
        BY <3>1
      <3> HIDE DEF d2
      <3>3. d3 = c
        BY <3>2
      <3> QED BY <3>3 DEF d1, d2
    <2>5. tab' = [tab EXCEPT ![t] = c]
      BY <1>2, <2>4
    <2>6. PageInv(c)
      BY <2>1 DEF PageInv, Unknown
    <2>7. calls' \in 0 .. MaxCall /\ states' \in [State -> {"new", "issued", "expired", "gone"}]
      BY DEF PagesInv, TypeOK, Quiet
    <2> QED BY <2>3, <2>5, <2>6, <2>7, PageStep DEF Mint, Quiet
  <1> QED BY <1>1, <1>2 DEF Mint

LEMMA AccountStepKeeps ==
  ASSUME ParametersOK, PagesInv, NEW t \in Tab, AccountStep(t)
  PROVE  PagesInv'
  <1>1. Quiet
    BY DEF AccountStep, Quiet
  <1> QED BY <1>1, AuthKeeps, ExistsKeeps, InsertAccountKeeps, FindKeeps, MembersKeeps, CurrentKeeps,
             TargetKeeps, TouchKeeps, MintKeeps DEF AccountStep

-----------------------------------------------------------------------------
(* The steps of a call over the workspaces.                                *)

\* There is a slug left for one more workspace.
LEMMA SlugIsLeft ==
  ASSUME ParametersOK, TypeOK, Len(workspace) < MaxWorkspace
  PROVE  (CHOOSE i \in Workspace \ Slugs : \A j \in Workspace \ Slugs : i <= j) \in Workspace
  <1> DEFINE len == Len(workspace)
             free == Workspace \ Slugs
             less == OpToRel(<, Nat)
             f == [w \in 1 .. len |-> workspace[w].slug]
  <1>1. len \in Nat /\ DOMAIN workspace = 1 .. len
    BY DEF TypeOK
  <1>2. f \in Surjection(1 .. len, Slugs)
    BY <1>1 DEF Surjection, Slugs
  <1>3. IsFiniteSet(1 .. len) /\ Cardinality(1 .. len) = len
    <2> HIDE DEF len
    <2>1. 1 \in Int /\ len \in Int
      BY <1>1
    <2>2. IsFiniteSet(1 .. len) /\ Cardinality(1 .. len) = IF 1 > len THEN 0 ELSE len - 1 + 1
      BY <2>1, FS_Interval
    <2> QED BY <1>1, <2>2
  <1> HIDE DEF f, len
  <1>4. IsFiniteSet(Slugs) /\ Cardinality(Slugs) <= len
    BY <1>2, <1>3, FS_Surjection
  <1>5. IsFiniteSet(Workspace) /\ Cardinality(Workspace) = MaxWorkspace
    BY FS_Interval DEF Workspace, ParametersOK
  <1>6. free # {}
    <2>1. SUFFICES ASSUME Workspace \subseteq Slugs PROVE FALSE
      OBVIOUS
    <2>2. Cardinality(Workspace) <= Cardinality(Slugs)
      BY <1>4, <2>1, FS_Subset
    <2>3. Cardinality(Slugs) \in Nat
      BY <1>4, FS_CardinalityType
    <2> QED BY <1>1, <1>4, <1>5, <2>2, <2>3 DEF len, ParametersOK
  <1>7. free \subseteq Nat
    BY DEF Workspace
  <1>8. PICK n \in free : \A m \in free : <<m, n>> \notin less
    <2>1. IsWellFoundedOn(less, Nat)
      BY NatLessThanWellFounded
    <2> HIDE DEF less, free
    <2> QED BY <1>6, <1>7, <2>1, WFMin
  <1>9. ASSUME NEW m \in free PROVE n <= m
    <2>1. m \in Nat /\ n \in Nat
      BY <1>7
    <2>2. m < n => <<m, n>> \in less
      BY <2>1 DEF OpToRel
    <2> HIDE DEF less, free
    <2>3. ~(m < n)
      BY <1>8, <2>2
    <2> QED BY <2>1, <2>3
  <1> QED BY <1>9

Still == UNCHANGED <<account, invited, states, calls, crashes>>

LEMMA PickSlugKeeps ==
  ASSUME ParametersOK, PagesInv, NEW t \in Tab, PickSlug(t), Still
  PROVE  PagesInv'
  <1> DEFINE i == CHOOSE i \in Workspace \ Slugs : \A j \in Workspace \ Slugs : i <= j
             c == [tab[t] EXCEPT !.slug = i, !.pc = "workspace"]
  <1>1. i \in Workspace
    BY SlugIsLeft DEF PickSlug, PagesInv
  <1>0. tab' = [tab EXCEPT ![t].slug = i, ![t].pc = "workspace"]
    BY DEF PickSlug
  <1>3. tab[t] \in Page /\ PageInv(tab[t]) /\ tab[t].pc = "slug"
    BY PageIsTyped DEF PickSlug
  <1> HIDE DEF i
  <1>2. tab' = [tab EXCEPT ![t] = c]
    BY <1>0 DEF PagesInv, TypeOK
  <1>4. /\ c \in Page /\ c.pc = "workspace" /\ c.slug = i /\ c.at = tab[t].at
        /\ c.who = tab[t].who /\ c.ws = tab[t].ws
    BY <1>1, <1>3 DEF Page
  <1> HIDE DEF c
  <1>5. PageInv(c)
    BY <1>1, <1>3, <1>4 DEF PageInv, Unknown
  <1>6. calls' \in 0 .. MaxCall /\ states' \in [State -> {"new", "issued", "expired", "gone"}]
    BY DEF PagesInv, TypeOK, Still
  <1> QED BY <1>2, <1>4, <1>5, <1>6, PageStep DEF PickSlug, Still

\* The workspace is its maker's from the start.
LEMMA InsertWorkspaceKeeps ==
  ASSUME ParametersOK, PagesInv, NEW t \in Tab, InsertWorkspace(t), Still
  PROVE  PagesInv'
  <1> DEFINE p == tab[t]
             len == Len(workspace)
             row == [slug |-> p.slug, by |-> p.who, ready |-> FALSE]
             c == [p EXCEPT !.to = len + 1, !.slug = 0, !.pc = "profile"]
  <1>1. p \in Page /\ PageInv(p) /\ p.pc = "workspace" /\ p.who \in Email /\ p.slug \in Workspace
    BY PageIsTyped DEF InsertWorkspace, PageInv
  <1>2. CASE Fails(t) /\ UNCHANGED workspace
    BY <1>2, FailsKeeps DEF InsertWorkspace, Still
  <1>3. CASE /\ len < MaxWorkspace /\ workspace' = Append(workspace, row)
             /\ tab' = [tab EXCEPT ![t].to = len + 1, ![t].slug = 0, ![t].pc = AfterInsert]
    <2>1. workspace \in Seq(WorkspaceRow) /\ len \in Nat
      BY DEF PagesInv, TypeOK
    <2>2. row \in WorkspaceRow
      BY <1>1 DEF WorkspaceRow
    <2> HIDE DEF row
    <2>3. /\ workspace' \in Seq(WorkspaceRow) /\ Len(workspace') = len + 1
          /\ DOMAIN workspace' = 1 .. len + 1 /\ DOMAIN workspace = 1 .. len
          /\ workspace'[len + 1] = row
          /\ \A w \in 1 .. len : workspace'[w] = workspace[w]
      BY <1>3, <2>1, <2>2
    <2>4. len + 1 \in Workspace /\ Len(workspace') <= MaxWorkspace
      BY <1>3, <2>1, <2>3 DEF Workspace, ParametersOK
    <2>5. tab' = [tab EXCEPT ![t] = c]
      BY <1>3 DEF PagesInv, TypeOK, AfterInsert
    <2> HIDE DEF len
    <2>6. /\ c \in Page /\ c.pc = "profile" /\ c.to = len + 1 /\ c.at = p.at
          /\ c.who = p.who /\ c.ws = p.ws
      BY <1>1, <2>4 DEF Page
    <2> HIDE DEF c
    <2>7. tab' \in [Tab -> Page] /\ tab'[t] = c /\ \A u \in Tab \ {t} : tab'[u] = tab[u]
      BY <2>5, <2>6, OnePage DEF PagesInv
    <2>8. UNCHANGED <<account, member, invited, states, joined, calls, crashes>>
      BY DEF InsertWorkspace, Still
    <2>9. Grown
      BY <2>1, <2>3, <2>8 DEF Grown
    <2>10. PageInv(tab[t])'
      <3>1. len + 1 \in DOMAIN workspace' /\ workspace'[len + 1].by = p.who
        BY <2>1, <2>3 DEF row
      <3>2. account[p.who] # None /\ (p.at = "in" => <<p.who, p.ws>> \in joined)
        BY <1>1 DEF PageInv, Unknown
      <3> QED BY <1>1, <2>6, <2>7, <2>8, <3>1, <3>2 DEF PageInv, Open
    <2>11. TypeOK'
      BY <2>3, <2>4, <2>7, <2>8 DEF PagesInv, TypeOK
    <2>12. HomesInside'
      BY <2>8 DEF HomesInside, PagesInv
    <2> QED BY <2>7, <2>8, <2>9, <2>10, <2>11, <2>12, TabStep
  <1> QED BY <1>2, <1>3 DEF InsertWorkspace

LEMMA InsertProfileKeeps ==
  ASSUME ParametersOK, PagesInv, NEW t \in Tab, InsertProfile(t), Still
  PROVE  PagesInv'
  <1> DEFINE p == tab[t]
             row == [workspace[p.to] EXCEPT !.ready = TRUE]
  <1>1. p \in Page /\ PageInv(p) /\ p.pc = "profile" /\ p.who \in Email
    BY PageIsTyped DEF InsertProfile
  <1>2. Open(p.who, p.to) /\ workspace \in Seq(WorkspaceRow) /\ Len(workspace) <= MaxWorkspace
    BY <1>1 DEF PageInv, PagesInv, TypeOK
  <1>3. p.to \in DOMAIN workspace /\ workspace[p.to] \in WorkspaceRow
    BY <1>2 DEF Open
  <1>4. row \in WorkspaceRow /\ row.ready /\ row.by = workspace[p.to].by
    BY <1>3 DEF WorkspaceRow
  <1>5. workspace' = [workspace EXCEPT ![p.to] = row]
    BY DEF InsertProfile
  <1> HIDE DEF row
  <1>6. /\ workspace' \in Seq(WorkspaceRow) /\ Len(workspace') <= MaxWorkspace
        /\ DOMAIN workspace' = DOMAIN workspace /\ workspace'[p.to] = row
        /\ \A w \in DOMAIN workspace : w # p.to => workspace'[w] = workspace[w]
    BY <1>2, <1>3, <1>4, <1>5
  <1>7. UNCHANGED <<account, member, invited, states, joined, calls, crashes>>
    BY DEF InsertProfile, Still
  <1>8. Grown
    BY <1>4, <1>6, <1>7 DEF Grown
  <1>9. Step(t, "member")
    BY DEF InsertProfile, AfterProfile
  <1>10. PICK c \in Page :
            /\ tab' = [tab EXCEPT ![t] = c]
            /\ c.pc = "member" /\ c.at = p.at /\ c.who = p.who /\ c.ws = p.ws /\ c.to = p.to
    BY <1>9, StepIsPage
  <1>11. tab' \in [Tab -> Page] /\ tab'[t] = c /\ \A u \in Tab \ {t} : tab'[u] = tab[u]
    BY <1>10, OnePage DEF PagesInv
  <1>12. PageInv(tab[t])'
    <2>1. /\ p.to \in DOMAIN workspace' /\ workspace'[p.to].ready
          /\ workspace'[p.to].by = p.who \/ <<workspace'[p.to].by, p.to>> \in joined
      BY <1>2, <1>3, <1>4, <1>6 DEF Open
    <2>2. account[p.who] # None /\ (p.at = "in" => <<p.who, p.ws>> \in joined)
      BY <1>1 DEF PageInv, Unknown
    <2> QED BY <1>1, <1>7, <1>10, <1>11, <2>1, <2>2 DEF PageInv, Open
  <1>13. TypeOK'
    BY <1>6, <1>7, <1>11 DEF PagesInv, TypeOK
  <1>14. HomesInside'
    BY <1>7 DEF HomesInside, PagesInv
  <1> QED BY <1>7, <1>8, <1>11, <1>12, <1>13, <1>14, TabStep

\* Who gets in is the maker, or was let in after the maker.
LEMMA InsertMemberKeeps ==
  ASSUME ParametersOK, PagesInv, NEW t \in Tab, InsertMember(t), Still
  PROVE  PagesInv'
  <1> DEFINE p == tab[t]
             m == <<p.who, p.to>>
  <1>1. p \in Page /\ PageInv(p) /\ p.pc = "member" /\ p.who \in Email
    BY PageIsTyped DEF InsertMember
  <1>2. Open(p.who, p.to) /\ workspace[p.to].ready
    BY <1>1 DEF PageInv
  <1>3. /\ UNCHANGED <<account, workspace, invited, states, calls, crashes>>
        /\ member' = member \cup {m} /\ joined' = joined \cup {m}
    BY DEF InsertMember, Still
  <1>4. Grown
    BY <1>3 DEF Grown
  <1>5. m \in Email \X Workspace
    <2>1. workspace \in Seq(WorkspaceRow) /\ Len(workspace) <= MaxWorkspace /\ p.to \in DOMAIN workspace
      BY <1>2 DEF PagesInv, TypeOK, Open
    <2>2. p.to \in Workspace
      BY <2>1 DEF Workspace, ParametersOK
    <2> QED BY <1>1, <2>2
  <1>6. PICK c \in Page :
            /\ tab' = [tab EXCEPT ![t] = c] /\ c.at = p.at
            /\ c.at # "gate" \/ c.pc # "idle" => c.who = p.who
            /\ c.at # "gate" => c.ws = p.ws
            /\ c.pc = "idle" \/ (c.pc = "touch" /\ c.to = p.to)
    <2>1. CASE Fails(t)
      <3>1. tab' = [tab EXCEPT ![t] = Ended(p)]
        BY <2>1 DEF Fails, PagesInv, TypeOK
      <3> DEFINE d == Ended(p)
      <3>2. /\ d \in Page /\ d.pc = "idle" /\ d.at = p.at
            /\ p.at # "gate" => d.who = p.who /\ d.ws = p.ws
        BY <1>1, EndedIsPage
      <3>3. tab' = [tab EXCEPT ![t] = d]
        BY <3>1
      <3> HIDE DEF d
      <3> QED BY <3>2, <3>3
    <2>2. CASE Step(t, "touch")
      BY <2>2, StepIsPage
    <2> QED BY <2>1, <2>2 DEF InsertMember
  <1>7. tab' \in [Tab -> Page] /\ tab'[t] = c /\ \A u \in Tab \ {t} : tab'[u] = tab[u]
    BY <1>6, OnePage DEF PagesInv
  <1>8. PageInv(tab[t])'
    <2>1. account[p.who] # None /\ (p.at = "in" => <<p.who, p.ws>> \in joined)
      BY <1>1 DEF PageInv, Unknown
    <2> QED BY <1>1, <1>3, <1>6, <1>7, <2>1 DEF PageInv, Unknown
  <1>9. TypeOK'
    BY <1>3, <1>5, <1>7 DEF PagesInv, TypeOK
  <1>10. HomesInside'
    BY <1>3 DEF HomesInside, PagesInv
  <1>11. PICK w : w = p.to
    OBVIOUS
  <1>12. Founded(w)'
    <2>1. workspace[w].by = p.who => <<workspace[w].by, w>> \in joined'
      BY <1>3, <1>11
    <2> QED BY <1>2, <1>3, <1>11, <2>1 DEF Open, Founded
  <1>13. \A n \in joined' \ joined : Founded(n[2])'
    <2>1. \A n \in joined' \ joined : n[2] = w
      BY <1>3, <1>11
    <2> QED BY <1>12, <2>1
  <1> QED BY <1>3, <1>4, <1>7, <1>8, <1>9, <1>10, <1>13, TabStep

LEMMA WorkspaceStepKeeps ==
  ASSUME ParametersOK, PagesInv, NEW t \in Tab, WorkspaceStep(t)
  PROVE  PagesInv'
  <1>1. Still
    BY DEF WorkspaceStep, Still
  <1> QED BY <1>1, PickSlugKeeps, InsertWorkspaceKeeps, InsertProfileKeeps, InsertMemberKeeps
          DEF WorkspaceStep

\* The end of the server leaves the pages where they are, without their calls.
LEMMA CrashKeeps ==
  ASSUME ParametersOK, PagesInv, Crash
  PROVE  PagesInv'
  <1>1. UNCHANGED <<account, workspace, member, invited, joined, calls>> /\ Grown
    BY DEF Crash, Grown
  <1>2. /\ crashes' \in 0 .. MaxCrash
        /\ states' \in [State -> {"new", "issued", "expired", "gone"}]
    BY DEF Crash, PagesInv, TypeOK, ParametersOK
  <1>3. ASSUME NEW t \in Tab PROVE tab'[t] \in Page /\ PageInv(tab[t])'
    <2>1. tab'[t] = Ended(tab[t]) /\ tab[t] \in Page /\ PageInv(tab[t])
      BY PageIsTyped DEF Crash
    <2>2. /\ tab'[t] \in Page /\ tab'[t].pc = "idle" /\ tab'[t].at = tab[t].at
          /\ tab'[t].at # "gate" => tab'[t].who = tab[t].who /\ tab'[t].ws = tab[t].ws
      BY <2>1, EndedIsPage
    <2> QED BY <1>1, <2>1, <2>2 DEF PageInv, Unknown
  <1>4. tab' \in [Tab -> Page]
    BY <1>3 DEF Crash
  <1>5. TypeOK'
    BY <1>1, <1>2, <1>4 DEF PagesInv, TypeOK
  <1>6. HomesInside'
    BY <1>1 DEF HomesInside, PagesInv
  <1>7. (\A m \in joined' : Founded(m[2])') /\ \A w \in invited' : Founded(w)'
    BY <1>1, FoundedStays DEF PagesInv
  <1> QED BY <1>3, <1>5, <1>6, <1>7 DEF PagesInv

\* No call of a page, tab, invitation or end of the server breaks PagesInv.
THEOREM PagesInvariance == Spec => []PagesInv
  <1>0. ParametersOK
    BY WorkspacesAssumption
  <1> USE <1>0
  <1>1. Init => PagesInv
    <2> SUFFICES ASSUME Init PROVE PagesInv
      OBVIOUS
    <2>1. TypeOK
      BY GateIsPage DEF Init, TypeOK, ParametersOK
    <2>2. \A t \in Tab : PageInv(tab[t])
      BY GateIsPage DEF Init, PageInv, Unknown
    <2> QED BY <2>1, <2>2 DEF Init, PagesInv, HomesInside
  <1>2. PagesInv /\ [Next]_vars => PagesInv'
    <2> SUFFICES ASSUME PagesInv, [Next]_vars PROVE PagesInv'
      OBVIOUS
    <2>1. CASE UNCHANGED vars
      BY <2>1, TablesKeep DEF vars, PagesInv, TypeOK
    <2> QED BY <2>1, PressKeeps, LeaveKeeps, InviteKeeps, AccountStepKeeps, WorkspaceStepKeeps,
               RemoveKeeps, StatesKeep, TakeKeeps, CrashKeeps DEF Next
  <1> QED BY <1>1, <1>2, PTL DEF Spec

\* What the tables and the pages of the tabs may be (auth/service.ts:138).
THEOREM PagesTypeOK == Spec => []TypeOK
  <1>1. PagesInv => TypeOK
    BY DEF PagesInv
  <1> QED BY <1>1, PagesInvariance, PTL

\* Whoever comes in, or is pointed to a workspace, is or was a member of it,
\* whatever other tabs do and wherever the server ends between the statements of
\* a call (auth/service.ts:205).
THEOREM EveryoneLandsInside == Spec => []LandsInside
  <1>1. PagesInv => LandsInside
    BY DEF PagesInv, PageInv, HomesInside, LandsInside
  <1> QED BY <1>1, PagesInvariance, PTL

\* A workspace has its profile and #general before anyone is in it, and its maker
\* is in it before anyone who was invited (auth/service.ts:187).
THEOREM MakerGoesFirst == Spec => []MakerIsFirst
  <1>1. PagesInv => MakerIsFirst
    BY DEF PagesInv, Founded, MakerIsFirst
  <1> QED BY <1>1, PagesInvariance, PTL

-----------------------------------------------------------------------------
(* Membership, with a state of its own: the rows are its memberships.      *)

PC == {"idle", "role", "demote", "update", "remove", "owners", "delete", "profile",
       "pick", "insert", "join"}

Change == [pc : PC, handle : People!Handle \cup {None}, id : (1 .. MaxId) \cup {None},
           role : People!Role \cup {None}, account : Account \cup {None}]

\* What the call of r has got so far.
CallInv(r) ==
    LET c == req[r] IN
    /\ c.pc \in {"role", "demote", "update", "remove", "owners", "delete", "profile"} =>
          r \in Admin /\ c.handle \in People!Handle
    /\ c.pc \in {"demote", "update", "owners", "delete"} => c.id \in 1 .. MaxId /\ c.id < nextId
    /\ c.pc \in {"role", "demote", "update"} => c.role \in People!Role
    /\ c.pc \in {"pick", "insert", "join"} => c.account \in Account /\ c.role \in {"admin", "member"}
    /\ c.pc \in {"insert", "join"} => c.handle \in People!Handle

\* The calls that may insert a row: the bound leaves each of them one.
Joining == {r \in Request : req[r].pc \in {"pick", "insert", "join"}}

Numbered ==
    /\ IsFiniteSet(rows)
    /\ \A m, n \in rows : m.id = n.id => m = n
    /\ \A m \in rows : m.id < nextId
    /\ nextId + Cardinality(Joining) <= MaxId + 1

RowsInv ==
    /\ People!TypeOK
    /\ Numbered
    /\ \A r \in Request : CallInv(r)
    /\ People!OneMembership

\* A step of the call r that leaves it at c.
LEMMA OneCall ==
  ASSUME People!TypeOK, NEW r \in Request, NEW c \in Change, req' = [req EXCEPT ![r] = c]
  PROVE  req' \in [Request -> Change] /\ req'[r] = c /\ \A q \in Request \ {r} : req'[q] = req[q]
  BY DEF People!TypeOK, Change, PC

\* The instance counts the way this module does.
LEMMA PeopleCount ==
  \A S : (People!IsFiniteSet(S) <=> IsFiniteSet(S)) /\ People!Cardinality(S) = Cardinality(S)
  BY DEF People!IsFiniteSet, IsFiniteSet, People!Cardinality, Cardinality

LEMMA JoiningFinite ==
  ASSUME People!ParametersOK
  PROVE  IsFiniteSet(Joining)
  <1>1. Joining \in SUBSET Request
    BY DEF Joining
  <1>2. IsFiniteSet(Request)
    BY PeopleCount DEF People!ParametersOK
  <1> QED BY <1>1, <1>2, FS_Subset

\* A step of a call that inserts no row and starts no join.
LEMMA Unnumbered ==
  ASSUME People!ParametersOK, RowsInv, NEW r \in Request, req' \in [Request -> Change],
         \A q \in Request \ {r} : req'[q] = req[q],
         req'[r].pc \in {"pick", "insert", "join"} => req[r].pc \in {"pick", "insert", "join"}
  PROVE  nextId + Cardinality(Joining') <= MaxId + 1
  <1>1. IsFiniteSet(Joining)
    BY JoiningFinite
  <1>2. Joining' \in SUBSET Joining
    BY DEF Joining
  <1>3. /\ Cardinality(Joining') <= Cardinality(Joining) /\ Cardinality(Joining) \in Nat
        /\ Cardinality(Joining') \in Nat
    BY <1>1, <1>2, FS_Subset, FS_CardinalityType
  <1>4. nextId \in Nat /\ MaxId \in Nat /\ nextId + Cardinality(Joining) <= MaxId + 1
    BY DEF RowsInv, Numbered, People!TypeOK, People!ParametersOK
  <1> QED BY <1>3, <1>4

\* A step that leaves the memberships alone.
LEMMA RowsStay ==
  ASSUME People!ParametersOK, RowsInv, NEW r \in Request, NEW c \in Change, req' = [req EXCEPT ![r] = c],
         rows' = rows, nextId' = nextId, profile' \subseteq People!Handle, calm' \in BOOLEAN,
         raced' = raced, CallInv(r)',
         \/ c.pc \in {"pick", "insert", "join"} => req[r].pc \in {"pick", "insert", "join"}
         \/ nextId + Cardinality(Joining) <= MaxId
  PROVE  RowsInv'
  <1>1. req' \in [Request -> Change] /\ req'[r] = c /\ \A q \in Request \ {r} : req'[q] = req[q]
    BY OneCall DEF RowsInv
  <1>2. People!TypeOK'
    BY <1>1 DEF RowsInv, People!TypeOK, Change, PC
  <1>3. \A q \in Request : CallInv(q)'
    BY <1>1 DEF RowsInv, CallInv
  <1>4. People!OneMembership'
    BY DEF RowsInv, People!OneMembership
  <1>5. nextId + Cardinality(Joining') <= MaxId + 1
    <2>1. CASE c.pc \in {"pick", "insert", "join"} => req[r].pc \in {"pick", "insert", "join"}
      BY <1>1, <2>1, Unnumbered
    <2>2. CASE nextId + Cardinality(Joining) <= MaxId
      <3>1. IsFiniteSet(Joining) /\ IsFiniteSet(Joining \cup {r})
        BY JoiningFinite, FS_AddElement
      <3>2. Joining' \in SUBSET (Joining \cup {r})
        BY <1>1 DEF Joining
      <3>3. /\ Cardinality(Joining') <= Cardinality(Joining \cup {r}) /\ Cardinality(Joining') \in Nat
            /\ Cardinality(Joining \cup {r}) <= Cardinality(Joining) + 1 /\ Cardinality(Joining) \in Nat
            /\ Cardinality(Joining \cup {r}) \in Nat
        BY SMTT(30), <3>1, <3>2, FS_Subset, FS_AddElement, FS_CardinalityType
      <3>4. nextId \in Nat /\ MaxId \in Nat
        BY DEF RowsInv, People!TypeOK, People!ParametersOK
      <3> QED BY <2>2, <3>3, <3>4
    <2> QED BY <2>1, <2>2
  <1>6. Numbered'
    BY <1>5 DEF RowsInv, Numbered
  <1> QED BY <1>2, <1>3, <1>4, <1>6 DEF RowsInv

-----------------------------------------------------------------------------
(* What a step of a call does to the memberships and to the call.          *)

LEMMA CallIsTyped ==
  ASSUME RowsInv, NEW r \in Request
  PROVE  req[r] \in Change /\ CallInv(r)
  BY DEF RowsInv, People!TypeOK, Change, PC

LEMMA IdleIsChange == People!Idle \in Change /\ People!Idle.pc = "idle"
  BY DEF People!Idle, Change, PC

\* A call that ends leaves the memberships alone.
LEMMA EndKeeps ==
  ASSUME People!ParametersOK, RowsInv, NEW r \in Request, req' = [req EXCEPT ![r] = People!Idle],
         rows' = rows, nextId' = nextId, profile' \subseteq profile, calm' \in BOOLEAN,
         raced' = raced
  PROVE  RowsInv'
  <1>1. PICK c \in Change : c = People!Idle /\ c.pc = "idle"
    BY IdleIsChange
  <1>2. CallInv(r)'
    BY <1>1, OneCall DEF RowsInv, CallInv
  <1>3. profile' \subseteq People!Handle
    BY DEF RowsInv, People!TypeOK
  <1> QED BY <1>1, <1>2, <1>3, RowsStay

\* A call that goes on without new data.
LEMMA ToKeeps ==
  ASSUME People!ParametersOK, RowsInv, NEW r \in Request, NEW pc \in PC, People!To(r, pc),
         rows' = rows, nextId' = nextId, profile' \subseteq People!Handle, calm' = calm,
         raced' = raced,
         \/ req[r].pc = "demote" /\ pc = "update"
         \/ req[r].pc = "owners" /\ pc = "delete"
         \/ req[r].pc = "remove" /\ pc = "profile"
         \/ req[r].pc = "insert" /\ pc = "join"
  PROVE  RowsInv'
  <1> DEFINE c == [req[r] EXCEPT !.pc = pc]
  <1>1. req[r] \in Change /\ CallInv(r)
    BY CallIsTyped
  <1>2. /\ c \in Change /\ c.pc = pc /\ c.handle = req[r].handle /\ c.id = req[r].id
        /\ c.role = req[r].role /\ c.account = req[r].account
    BY <1>1 DEF Change
  <1>3. req' = [req EXCEPT ![r] = c]
    BY DEF People!To, RowsInv, People!TypeOK
  <1> HIDE DEF c
  <1>4. req'[r] = c
    BY <1>2, <1>3, OneCall DEF RowsInv
  <1>5. CallInv(r)'
    BY <1>1, <1>2, <1>4 DEF CallInv
  <1>6. calm' \in BOOLEAN
    BY DEF RowsInv, People!TypeOK
  <1> QED BY <1>2, <1>3, <1>5, <1>6, RowsStay

-----------------------------------------------------------------------------
(* The first step of a call.                                               *)

\* What a call begins with, given field by field.
LEMMA BegunForRole ==
  ASSUME NEW x, NEW h, NEW o
  PROVE  /\ [People!Idle EXCEPT !.pc = x, !.handle = h, !.role = o]
            = [pc |-> x, handle |-> h, id |-> None, role |-> o, account |-> None]
         /\ [People!Idle EXCEPT !.pc = x, !.handle = h]
            = [pc |-> x, handle |-> h, id |-> None, role |-> None, account |-> None]
  <1> DEFINE d1 == [People!Idle EXCEPT !.pc = x]
             d2 == [d1 EXCEPT !.handle = h]
             d3 == [d2 EXCEPT !.role = o]
  <1>1. d1 = [pc |-> x, handle |-> None, id |-> None, role |-> None, account |-> None]
    BY DEF People!Idle
  <1> HIDE DEF d1
  <1>2. d2 = [pc |-> x, handle |-> h, id |-> None, role |-> None, account |-> None]
    BY <1>1
  <1> HIDE DEF d2
  <1>3. d3 = [pc |-> x, handle |-> h, id |-> None, role |-> o, account |-> None]
    BY <1>2
  <1> QED BY <1>2, <1>3 DEF d1, d2

LEMMA BegunForJoin ==
  ASSUME NEW x, NEW a, NEW o
  PROVE  [People!Idle EXCEPT !.pc = x, !.account = a, !.role = o]
         = [pc |-> x, handle |-> None, id |-> None, role |-> o, account |-> a]
  <1> DEFINE d1 == [People!Idle EXCEPT !.pc = x]
             d2 == [d1 EXCEPT !.account = a]
             d3 == [d2 EXCEPT !.role = o]
  <1>1. d1 = [pc |-> x, handle |-> None, id |-> None, role |-> None, account |-> None]
    BY DEF People!Idle
  <1> HIDE DEF d1
  <1>2. d2 = [pc |-> x, handle |-> None, id |-> None, role |-> None, account |-> a]
    BY <1>1
  <1> HIDE DEF d2
  <1>3. d3 = [pc |-> x, handle |-> None, id |-> None, role |-> o, account |-> a]
    BY <1>2
  <1> QED BY <1>3 DEF d1, d2

\* What SetRole, Remove, their reads and Join leave of the call.
LEMMA SetRoleIs ==
  ASSUME RowsInv, NEW r \in Request, NEW by, NEW h \in People!Handle, NEW role \in People!Role,
         People!SetRole(r, by, h, role)
  PROVE  \E c \in Change :
            req' = [req EXCEPT ![r] = c] /\ c.pc = "role" /\ c.handle = h /\ c.role = role
  <1> DEFINE c == [pc |-> "role", handle |-> h, id |-> None, role |-> role, account |-> None]
  <1>1. req' = [req EXCEPT ![r] = c]
    BY BegunForRole DEF People!SetRole
  <1>2. c \in Change
    BY DEF Change, PC
  <1> QED BY <1>1, <1>2

LEMMA RemoveIs ==
  ASSUME RowsInv, NEW r \in Request, NEW by, NEW h \in People!Handle, People!Remove(r, by, h)
  PROVE  \E c \in Change : req' = [req EXCEPT ![r] = c] /\ c.pc = "remove" /\ c.handle = h
  <1> DEFINE c == [pc |-> "remove", handle |-> h, id |-> None, role |-> None, account |-> None]
  <1>1. req' = [req EXCEPT ![r] = c]
    BY BegunForRole DEF People!Remove
  <1>2. c \in Change
    BY DEF Change, PC
  <1> QED BY <1>1, <1>2

\* A call that goes on is the call it was, at another step.
LEMMA ToIs ==
  ASSUME RowsInv, NEW r \in Request, NEW pc \in PC, People!To(r, pc)
  PROVE  \E c \in Change :
            /\ req' = [req EXCEPT ![r] = c] /\ c.pc = pc
            /\ c.handle = req[r].handle /\ c.id = req[r].id /\ c.account = req[r].account
            /\ c.role = req[r].role
  <1> DEFINE c == [req[r] EXCEPT !.pc = pc]
  <1>1. req[r] \in Change
    BY CallIsTyped
  <1>2. /\ c \in Change /\ c.pc = pc /\ c.handle = req[r].handle /\ c.id = req[r].id
        /\ c.account = req[r].account /\ c.role = req[r].role
    BY <1>1 DEF Change
  <1>3. req' = [req EXCEPT ![r] = c]
    BY DEF People!To, RowsInv, People!TypeOK
  <1> QED BY <1>2, <1>3

\* The call after a read that finds the member m.
Found(c, m, pc) == [[c EXCEPT !.pc = pc] EXCEPT !.id = m.id]

LEMMA FoundIs ==
  ASSUME RowsInv, NEW r \in Request, NEW m \in rows, NEW pc \in PC
  PROVE  /\ Found(req[r], m, pc) \in Change
         /\ Found(req[r], m, pc).pc = pc /\ Found(req[r], m, pc).id = m.id
         /\ Found(req[r], m, pc).handle = req[r].handle /\ Found(req[r], m, pc).role = req[r].role
  <1> DEFINE d == [req[r] EXCEPT !.pc = pc]
             c == [d EXCEPT !.id = m.id]
  <1>1. req[r] \in Change
    BY CallIsTyped
  <1>2. m.id \in 1 .. MaxId
    BY DEF RowsInv, People!TypeOK, People!Member
  <1>3. d \in Change /\ d.pc = pc /\ d.handle = req[r].handle /\ d.role = req[r].role
    BY <1>1 DEF Change
  <1>4. Found(req[r], m, pc) = c
    BY DEF Found
  <1> HIDE DEF d
  <1>5. c \in Change /\ c.pc = pc /\ c.id = m.id /\ c.handle = req[r].handle /\ c.role = req[r].role
    BY <1>2, <1>3 DEF Change
  <1> QED BY <1>4, <1>5

LEMMA ReadForRoleIs ==
  ASSUME RowsInv, NEW r \in Request, People!ReadForRole(r)
  PROVE  \/ req' = [req EXCEPT ![r] = People!Idle]
         \/ \E m \in rows, c \in Change :
              /\ m.handle = req[r].handle /\ req' = [req EXCEPT ![r] = c]
              /\ c.pc \in {"demote", "update"}
              /\ c.pc = "update" => m.role # "owner" \/ req[r].role = "owner"
              /\ c.handle = req[r].handle /\ c.id = m.id /\ c.role = req[r].role
  <1>1. CASE req' = [req EXCEPT ![r] = People!Idle]
    BY <1>1
  <1>2. ASSUME NEW m \in rows, m.handle = req[r].handle,
               req' = [req EXCEPT ![r].pc = IF m.role = "owner" /\ req[r].role # "owner" THEN "demote" ELSE "update",
                                  ![r].id = m.id]
        PROVE  \E c \in Change :
                  /\ req' = [req EXCEPT ![r] = c] /\ c.pc \in {"demote", "update"}
                  /\ c.pc = "update" => m.role # "owner" \/ req[r].role = "owner"
                  /\ c.handle = req[r].handle /\ c.id = m.id /\ c.role = req[r].role
    <2> DEFINE x == IF m.role = "owner" /\ req[r].role # "owner" THEN "demote" ELSE "update"
    <2>1. x \in PC /\ x \in {"demote", "update"} /\ (x = "update" => m.role # "owner" \/ req[r].role = "owner")
      BY DEF PC
    <2>2. req' = [req EXCEPT ![r] = Found(req[r], m, x)]
      BY <1>2 DEF Found, RowsInv, People!TypeOK
    <2> HIDE DEF x
    <2> DEFINE c == Found(req[r], m, x)
    <2>3. c \in Change /\ c.pc = x /\ c.id = m.id /\ c.handle = req[r].handle /\ c.role = req[r].role
      BY <2>1, FoundIs
    <2> HIDE DEF c
    <2>4. req' = [req EXCEPT ![r] = c]
      BY <2>2 DEF c
    <2> QED BY <1>2, <2>1, <2>3, <2>4
  <1> QED BY <1>1, <1>2 DEF People!ReadForRole

LEMMA ReadForRemovalIs ==
  ASSUME RowsInv, NEW r \in Request, People!ReadForRemoval(r)
  PROVE  \E c \in Change :
            /\ req' = [req EXCEPT ![r] = c] /\ c.handle = req[r].handle
            /\ \/ c.pc = "profile" /\ \A m \in rows : m.handle # req[r].handle
               \/ \E m \in rows :
                    /\ m.handle = req[r].handle /\ c.id = m.id /\ c.pc \in {"owners", "delete"}
                    /\ c.pc = "delete" => m.role # "owner"
  <1>1. CASE (\A m \in rows : m.handle # req[r].handle) /\ People!To(r, "profile")
    <2>1. "profile" \in PC
      BY DEF PC
    <2>2. \E c \in Change : req' = [req EXCEPT ![r] = c] /\ c.pc = "profile" /\ c.handle = req[r].handle
      BY <1>1, <2>1, ToIs
    <2> QED BY <1>1, <2>2
  <1>2. CASE \E m \in rows :
             /\ m.handle = req[r].handle
             /\ req' = [req EXCEPT ![r].pc = IF m.role = "owner" THEN "owners" ELSE "delete", ![r].id = m.id]
    <2>1. PICK m \in rows :
             /\ m.handle = req[r].handle
             /\ req' = [req EXCEPT ![r].pc = IF m.role = "owner" THEN "owners" ELSE "delete", ![r].id = m.id]
      BY <1>2
    <2> DEFINE x == IF m.role = "owner" THEN "owners" ELSE "delete"
    <2>2. x \in PC /\ x \in {"owners", "delete"} /\ (x = "delete" => m.role # "owner")
      BY DEF PC
    <2>3. req' = [req EXCEPT ![r] = Found(req[r], m, x)]
      BY <2>1 DEF Found, RowsInv, People!TypeOK
    <2> HIDE DEF x
    <2> DEFINE c == Found(req[r], m, x)
    <2>4. c \in Change /\ c.pc = x /\ c.id = m.id /\ c.handle = req[r].handle
      BY <2>2, FoundIs
    <2> HIDE DEF c
    <2>5. req' = [req EXCEPT ![r] = c]
      BY <2>3 DEF c
    <2> QED BY <2>1, <2>2, <2>4, <2>5
  <1> QED BY <1>1, <1>2 DEF People!ReadForRemoval

LEMMA JoinIs ==
  ASSUME RowsInv, NEW r \in Request, NEW a \in Account, NEW role \in {"admin", "member"}, People!Join(r, a, role)
  PROVE  \E c \in Change :
            req' = [req EXCEPT ![r] = c] /\ c.pc = "pick" /\ c.account = a /\ c.role = role
  <1> DEFINE c == [pc |-> "pick", handle |-> None, id |-> None, role |-> role, account |-> a]
  <1>1. req' = [req EXCEPT ![r] = c]
    BY BegunForJoin DEF People!Join
  <1>2. c \in Change
    BY DEF Change, PC, People!Role
  <1> QED BY <1>1, <1>2

LEMMA PickIs ==
  ASSUME RowsInv, NEW r \in Request, People!PickHandle(r)
  PROVE  \E c \in Change, h \in People!Handle \ profile :
            /\ req' = [req EXCEPT ![r] = c]
            /\ c.pc = "insert" /\ c.handle = h /\ c.account = req[r].account /\ c.role = req[r].role
  <1>1. PICK n \in 1 .. MaxNo :
          /\ <<Base[req[r].account], n>> \notin profile
          /\ req' = [req EXCEPT ![r].pc = "insert", ![r].handle = <<Base[req[r].account], n>>]
    BY DEF People!PickHandle
  <1> DEFINE h == <<Base[req[r].account], n>>
             d == [req[r] EXCEPT !.pc = "insert"]
             c == [d EXCEPT !.handle = h]
  <1>2. req[r] \in Change /\ req[r].account \in Account
    BY CallIsTyped DEF CallInv, People!PickHandle
  <1>3. h \in People!Handle \ profile
    BY <1>1, <1>2 DEF People!Handle
  <1>4. req' = [req EXCEPT ![r] = c]
    BY <1>1 DEF RowsInv, People!TypeOK
  <1> HIDE DEF h
  <1>5. d \in Change /\ d.pc = "insert" /\ d.account = req[r].account /\ d.role = req[r].role
    BY <1>2 DEF Change, PC
  <1> HIDE DEF d
  <1>6. /\ c \in Change /\ c.pc = "insert" /\ c.handle = h
        /\ c.account = req[r].account /\ c.role = req[r].role
    BY <1>3, <1>5 DEF Change, PC
  <1> QED BY <1>3, <1>4, <1>6

-----------------------------------------------------------------------------
(* Every step keeps RowsInv.                                               *)

LEMMA KnownIsHandle ==
  ASSUME RowsInv
  PROVE  People!Known \subseteq People!Handle
  BY DEF RowsInv, People!TypeOK, People!Known, People!Member

LEMMA SetRoleKeeps ==
  ASSUME People!ParametersOK, RowsInv, NEW r \in Request, NEW by, NEW h \in People!Handle,
         NEW role \in People!Role, People!SetRole(r, by, h, role)
  PROVE  RowsInv'
  <1>1. PICK c \in Change :
            req' = [req EXCEPT ![r] = c] /\ c.pc = "role" /\ c.handle = h /\ c.role = role
    BY SetRoleIs
  <1>2. req'[r] = c /\ nextId' = nextId /\ r \in Admin
    BY <1>1, OneCall DEF RowsInv, People!SetRole
  <1>3. CallInv(r)'
    BY <1>1, <1>2 DEF CallInv
  <1>4. rows' = rows /\ profile' \subseteq People!Handle /\ calm' \in BOOLEAN /\ raced' = raced
    BY DEF RowsInv, People!TypeOK, People!SetRole
  <1> QED BY <1>1, <1>2, <1>3, <1>4, RowsStay

LEMMA RemovalKeeps ==
  ASSUME People!ParametersOK, RowsInv, NEW r \in Request, NEW by, NEW h \in People!Handle,
         People!Remove(r, by, h)
  PROVE  RowsInv'
  <1>1. PICK c \in Change : req' = [req EXCEPT ![r] = c] /\ c.pc = "remove" /\ c.handle = h
    BY RemoveIs
  <1>2. req'[r] = c /\ nextId' = nextId /\ r \in Admin
    BY <1>1, OneCall DEF RowsInv, People!Remove
  <1>3. CallInv(r)'
    BY <1>1, <1>2 DEF CallInv
  <1>4. rows' = rows /\ profile' \subseteq People!Handle /\ calm' \in BOOLEAN /\ raced' = raced
    BY DEF RowsInv, People!TypeOK, People!Remove
  <1> QED BY <1>1, <1>2, <1>3, <1>4, RowsStay

LEMMA ReadsKeep ==
  ASSUME People!ParametersOK, RowsInv, NEW r \in Request, People!ReadForRole(r) \/ People!ReadForRemoval(r)
  PROVE  RowsInv'
  <1>1. /\ rows' = rows /\ nextId' = nextId /\ profile' \subseteq People!Handle /\ profile' \subseteq profile
        /\ calm' \in BOOLEAN /\ raced' = raced
    BY DEF RowsInv, People!TypeOK, People!ReadForRole, People!ReadForRemoval
  <1>2. CallInv(r) /\ \A m \in rows : m \in People!Member /\ m.id \in 1 .. MaxId /\ m.id < nextId
    BY CallIsTyped DEF RowsInv, People!TypeOK, Numbered, People!Member
  <1>3. CASE req' = [req EXCEPT ![r] = People!Idle]
    BY <1>1, <1>3, EndKeeps
  <1>4. ASSUME NEW m \in rows, NEW c \in Change, req[r].pc = "role",
               req' = [req EXCEPT ![r] = c], c.pc \in {"demote", "update"},
               c.handle = req[r].handle, c.id = m.id, c.role = req[r].role
        PROVE  RowsInv'
    <2>1. req'[r] = c
      BY <1>4, OneCall DEF RowsInv
    <2>2. CallInv(r)'
      BY <1>1, <1>2, <1>4, <2>1 DEF CallInv
    <2> QED BY <1>1, <1>4, <2>2, RowsStay
  <1>5. CASE People!ReadForRemoval(r)
    <2>1. PICK c \in Change :
            /\ req' = [req EXCEPT ![r] = c] /\ c.handle = req[r].handle
            /\ \/ c.pc = "profile" /\ \A m \in rows : m.handle # req[r].handle
               \/ \E m \in rows :
                    /\ m.handle = req[r].handle /\ c.id = m.id /\ c.pc \in {"owners", "delete"}
                    /\ c.pc = "delete" => m.role # "owner"
      BY <1>5, ReadForRemovalIs
    <2>2. req'[r] = c /\ req[r].pc = "remove" /\ c.pc \in {"profile", "owners", "delete"}
      BY <1>5, <2>1, OneCall DEF RowsInv, People!ReadForRemoval
    <2>3. CallInv(r)'
      BY <1>1, <1>2, <2>1, <2>2 DEF CallInv
    <2> QED BY <1>1, <2>1, <2>2, <2>3, RowsStay
  <1>6. CASE People!ReadForRole(r)
    <2>1. req[r].pc = "role"
      BY <1>6 DEF People!ReadForRole
    <2> QED BY <1>3, <1>4, <1>6, <2>1, ReadForRoleIs
  <1> QED BY <1>5, <1>6

LEMMA JoinKeeps ==
  ASSUME People!ParametersOK, RowsInv, NEW r \in Request, NEW a \in Account, NEW role \in {"admin", "member"},
         People!Join(r, a, role)
  PROVE  RowsInv'
  <1>1. PICK c \in Change :
            req' = [req EXCEPT ![r] = c] /\ c.pc = "pick" /\ c.account = a /\ c.role = role
    BY JoinIs
  <1>2. CallInv(r)'
    BY <1>1, OneCall DEF RowsInv, CallInv
  <1>3. nextId + Cardinality(Joining) <= MaxId
    BY PeopleCount DEF People!Join, Joining
  <1>4. /\ rows' = rows /\ nextId' = nextId /\ profile' \subseteq People!Handle
        /\ calm' \in BOOLEAN /\ raced' = raced
    BY DEF RowsInv, People!TypeOK, People!Join
  <1> QED BY <1>1, <1>2, <1>3, <1>4, RowsStay

LEMMA PickKeeps ==
  ASSUME People!ParametersOK, RowsInv, NEW r \in Request, People!PickHandle(r)
  PROVE  RowsInv'
  <1>1. PICK c \in Change, h \in People!Handle \ profile :
            /\ req' = [req EXCEPT ![r] = c]
            /\ c.pc = "insert" /\ c.handle = h /\ c.account = req[r].account /\ c.role = req[r].role
    BY PickIs
  <1>2. CallInv(r) /\ req[r].pc = "pick"
    BY CallIsTyped DEF People!PickHandle
  <1>3. CallInv(r)'
    BY <1>1, <1>2, OneCall DEF RowsInv, CallInv
  <1>4. /\ rows' = rows /\ nextId' = nextId /\ profile' \subseteq People!Handle
        /\ calm' \in BOOLEAN /\ raced' = raced
    BY DEF RowsInv, People!TypeOK, People!PickHandle
  <1> QED BY <1>1, <1>2, <1>3, <1>4, RowsStay

LEMMA CountsKeep ==
  ASSUME People!ParametersOK, RowsInv, NEW r \in Request,
         People!CountBeforeDemote(r) \/ People!CountBeforeRemove(r)
  PROVE  RowsInv'
  <1>1. /\ rows' = rows /\ nextId' = nextId /\ profile' \subseteq People!Handle /\ profile' \subseteq profile
        /\ calm' = calm /\ calm' \in BOOLEAN /\ raced' = raced
    BY DEF RowsInv, People!TypeOK, People!CountBeforeDemote, People!CountBeforeRemove
  <1>2. CASE req' = [req EXCEPT ![r] = People!Idle]
    BY <1>1, <1>2, EndKeeps
  <1>3. CASE req[r].pc = "demote" /\ People!To(r, "update")
    BY <1>1, <1>3, ToKeeps DEF PC
  <1>4. CASE req[r].pc = "owners" /\ People!To(r, "delete")
    BY <1>1, <1>4, ToKeeps DEF PC
  <1> QED BY <1>2, <1>3, <1>4 DEF People!CountBeforeDemote, People!CountBeforeRemove

LEMMA EndsKeep ==
  ASSUME People!ParametersOK, RowsInv, NEW r \in Request, People!DeleteProfile(r) \/ People!Lose(r)
  PROVE  RowsInv'
  <1>1. /\ req' = [req EXCEPT ![r] = People!Idle]
        /\ rows' = rows /\ nextId' = nextId /\ profile' \subseteq profile /\ calm' \in BOOLEAN
        /\ raced' = raced
    BY DEF RowsInv, People!TypeOK, People!DeleteProfile, People!Lose
  <1> QED BY <1>1, EndKeeps

LEMMA ProfileKeeps ==
  ASSUME People!ParametersOK, RowsInv, NEW r \in Request, People!InsertProfile(r)
  PROVE  RowsInv'
  <1>1. CallInv(r) /\ req[r].pc = "insert" /\ req[r].handle \in People!Handle
    BY CallIsTyped DEF People!InsertProfile, CallInv
  <1>2. /\ rows' = rows /\ nextId' = nextId /\ profile' \subseteq People!Handle
        /\ calm' = calm /\ calm' \in BOOLEAN /\ raced' = raced
    BY <1>1 DEF RowsInv, People!TypeOK, People!InsertProfile
  <1>3. CASE req' = [req EXCEPT ![r] = People!Idle] /\ UNCHANGED profile
    BY <1>2, <1>3, EndKeeps
  <1>4. CASE People!To(r, "join")
    BY <1>1, <1>2, <1>4, ToKeeps DEF PC
  <1> QED BY <1>3, <1>4 DEF People!InsertProfile

\* A row as WriteRole of the call c leaves it.
Written(m, c) == IF m.id = c.id THEN [m EXCEPT !.role = c.role] ELSE m

LEMMA WrittenIs ==
  ASSUME RowsInv, NEW r \in Request, People!WriteRole(r), NEW m \in rows
  PROVE  /\ Written(m, req[r]) \in People!Member
         /\ Written(m, req[r]).id = m.id /\ Written(m, req[r]).account = m.account
         /\ Written(m, req[r]).handle = m.handle
         /\ m.id = req[r].id => Written(m, req[r]).role = req[r].role
         /\ m.id # req[r].id => Written(m, req[r]) = m
  <1>1. m \in People!Member /\ req[r].role \in People!Role
    BY CallIsTyped DEF RowsInv, People!TypeOK, CallInv, People!WriteRole
  <1> QED BY <1>1 DEF Written, People!Member

LEMMA WriteRoleKeeps ==
  ASSUME People!ParametersOK, RowsInv, NEW r \in Request, People!WriteRole(r)
  PROVE  RowsInv'
  <1> DEFINE f == [m \in rows |-> Written(m, req[r])]
  <1>1. rows' = {Written(m, req[r]) : m \in rows}
    BY DEF People!WriteRole, Written
  <1>2. f \in Surjection(rows, rows')
    BY <1>1 DEF Surjection
  <1>3. IsFiniteSet(rows')
    BY <1>2, FS_Surjection DEF RowsInv, Numbered
  <1>4. PICK c \in Change : c = People!Idle /\ c.pc = "idle" /\ req' = [req EXCEPT ![r] = c]
    BY IdleIsChange DEF People!WriteRole
  <1>5. req' \in [Request -> Change] /\ req'[r] = c /\ \A q \in Request \ {r} : req'[q] = req[q]
    BY <1>4, OneCall DEF RowsInv
  <1>6. nextId' = nextId /\ profile' = profile /\ calm' = calm /\ raced' \in BOOLEAN
    BY DEF People!WriteRole, RowsInv, People!TypeOK
  <1>7. \A n \in rows' : \E m \in rows : n = Written(m, req[r])
    BY <1>1
  <1>8. rows' \subseteq People!Member
    BY <1>7, WrittenIs
  <1>9. People!TypeOK'
    BY <1>5, <1>6, <1>8 DEF RowsInv, People!TypeOK, Change, PC
  <1>10. \A q \in Request : CallInv(q)'
    BY <1>4, <1>5, <1>6 DEF RowsInv, CallInv
  <1>11. \A n \in rows' : n.id < nextId
    BY <1>7, WrittenIs DEF RowsInv, Numbered
  <1>12. ASSUME NEW x \in rows', NEW y \in rows', x.id = y.id \/ x.account = y.account PROVE x = y
    <2>1. PICK m \in rows : x = Written(m, req[r])
      BY <1>7
    <2>2. PICK n \in rows : y = Written(n, req[r])
      BY <1>7
    <2>3. m.id = n.id \/ m.account = n.account
      BY <1>12, <2>1, <2>2, WrittenIs
    <2>4. m = n
      BY <2>3 DEF RowsInv, Numbered, People!OneMembership
    <2> QED BY <2>1, <2>2, <2>4
  <1>13. nextId + Cardinality(Joining') <= MaxId + 1
    BY <1>4, <1>5, Unnumbered
  <1> QED BY <1>3, <1>6, <1>9, <1>10, <1>11, <1>12, <1>13 DEF RowsInv, Numbered, People!OneMembership

LEMMA DeleteMemberKeeps ==
  ASSUME People!ParametersOK, RowsInv, NEW r \in Request, People!DeleteMember(r)
  PROVE  RowsInv'
  <1> DEFINE c == [req[r] EXCEPT !.pc = "profile"]
  <1>1. req[r] \in Change /\ CallInv(r) /\ req[r].pc = "delete"
    BY CallIsTyped DEF People!DeleteMember
  <1>2. c \in Change /\ c.pc = "profile" /\ c.handle = req[r].handle
    BY <1>1 DEF Change, PC
  <1>3. req' = [req EXCEPT ![r] = c]
    BY DEF People!DeleteMember, People!To, RowsInv, People!TypeOK
  <1> HIDE DEF c
  <1>4. req' \in [Request -> Change] /\ req'[r] = c /\ \A q \in Request \ {r} : req'[q] = req[q]
    BY <1>2, <1>3, OneCall DEF RowsInv
  <1>5. /\ rows' \in SUBSET rows /\ nextId' = nextId /\ profile' = profile /\ calm' = calm
        /\ raced' \in BOOLEAN
    BY DEF People!DeleteMember, RowsInv, People!TypeOK
  <1>6. IsFiniteSet(rows')
    BY <1>5, FS_Subset DEF RowsInv, Numbered
  <1>7. People!TypeOK'
    BY <1>4, <1>5 DEF RowsInv, People!TypeOK, Change, PC
  <1>8. \A q \in Request : CallInv(q)'
    BY <1>1, <1>2, <1>4, <1>5 DEF RowsInv, CallInv
  <1>9. nextId + Cardinality(Joining') <= MaxId + 1
    BY <1>2, <1>4, Unnumbered
  <1> QED BY <1>5, <1>6, <1>7, <1>8, <1>9 DEF RowsInv, Numbered, People!OneMembership

LEMMA InsertMemberKeepsRows ==
  ASSUME People!ParametersOK, RowsInv, NEW r \in Request, People!InsertMember(r)
  PROVE  RowsInv'
  <1> DEFINE new == [id |-> nextId, account |-> req[r].account, handle |-> req[r].handle, role |-> req[r].role]
  <1>1. CallInv(r) /\ req[r].pc = "join" /\ nextId \in Nat /\ MaxId \in Nat /\ nextId > 0
    BY CallIsTyped DEF People!InsertMember, RowsInv, People!TypeOK, People!ParametersOK
  <1>2. CASE rows' = rows /\ nextId' = nextId
    BY <1>2, EndKeeps DEF People!InsertMember, RowsInv, People!TypeOK
  <1>3. CASE People!AccountIsFree(req[r].account) /\ rows' = rows \cup {new} /\ nextId' = nextId + 1
    <2>1. PICK c \in Change : c = People!Idle /\ c.pc = "idle" /\ req' = [req EXCEPT ![r] = c]
      BY IdleIsChange DEF People!InsertMember
    <2>2. req' \in [Request -> Change] /\ req'[r] = c /\ \A q \in Request \ {r} : req'[q] = req[q]
      BY <2>1, OneCall DEF RowsInv
    <2>3. profile' = profile /\ calm' = calm /\ raced' = raced
      BY DEF People!InsertMember
    <2>4. nextId + Cardinality(Joining) <= MaxId + 1
      BY DEF RowsInv, Numbered
    <2>5. /\ Joining' = Joining \ {r} /\ r \in Joining
          /\ Cardinality(Joining') = Cardinality(Joining) - 1
          /\ Cardinality(Joining) \in Nat /\ Cardinality(Joining') \in Nat
      <3>1. Joining' = Joining \ {r} /\ r \in Joining
        BY <1>1, <2>1, <2>2 DEF Joining
      <3>2. IsFiniteSet(Joining) /\ IsFiniteSet(Joining \ {r})
        BY JoiningFinite, FS_RemoveElement
      <3> QED BY <3>1, <3>2, FS_RemoveElement, FS_CardinalityType
    <2>6. nextId <= MaxId /\ nextId' + Cardinality(Joining') <= MaxId + 1
      BY <1>1, <1>3, <2>4, <2>5
    <2>7. new \in People!Member
      BY <1>1, <2>6 DEF CallInv, People!Member, People!Role
    <2>8. /\ new.id = nextId /\ new.account = req[r].account
          /\ \A m \in rows : m.account # new.account
      BY <1>3 DEF People!AccountIsFree
    <2> HIDE DEF new
    <2>9. \A m \in rows : m.id \in Nat /\ m.id < nextId
      BY DEF RowsInv, Numbered, People!TypeOK, People!Member
    <2>10. People!TypeOK'
      BY <1>1, <1>3, <2>2, <2>3, <2>6, <2>7 DEF RowsInv, People!TypeOK, Change, PC
    <2>11. ASSUME NEW q \in Request PROVE CallInv(q)'
      <3>1. CASE q = r
        BY <2>1, <2>2, <3>1 DEF CallInv
      <3>2. CASE q # r
        <4>1. req'[q] = req[q] /\ CallInv(q) /\ req[q] \in Change
          BY <2>2, <3>2, CallIsTyped
        <4>2. req[q].id \in 1 .. MaxId /\ req[q].id < nextId => req[q].id < nextId'
          BY <1>1, <1>3
        <4> QED BY <4>1, <4>2 DEF CallInv
      <3> QED BY <3>1, <3>2
    <2>12. IsFiniteSet(rows')
      BY <1>3, FS_AddElement DEF RowsInv, Numbered
    <2>13. \A m \in rows' : m.id < nextId'
      BY <1>1, <1>3, <2>8, <2>9
    <2>14. \A m, n \in rows' : m.id = n.id \/ m.account = n.account => m = n
      BY <1>1, <1>3, <2>8, <2>9 DEF RowsInv, Numbered, People!OneMembership
    <2> QED BY <2>6, <2>10, <2>11, <2>12, <2>13, <2>14 DEF RowsInv, Numbered, People!OneMembership
  <1> QED BY <1>2, <1>3 DEF People!InsertMember

LEMMA RowsNext ==
  ASSUME People!ParametersOK, RowsInv, People!Next
  PROVE  RowsInv'
  <1>1. PICK r \in Request :
        \/ \E by, h \in People!Known : People!Remove(r, by, h) \/ \E role \in People!Role : People!SetRole(r, by, h, role)
        \/ People!ReadForRole(r) \/ People!CountBeforeDemote(r) \/ People!WriteRole(r)
        \/ People!ReadForRemoval(r) \/ People!CountBeforeRemove(r) \/ People!DeleteMember(r) \/ People!DeleteProfile(r)
        \/ \E a \in Account, role \in {"admin", "member"} : People!Join(r, a, role)
        \/ People!PickHandle(r) \/ People!InsertProfile(r) \/ People!InsertMember(r)
        \/ People!Lose(r)
    BY DEF People!Next
  <1>2. CASE \E by, h \in People!Known : People!Remove(r, by, h) \/ \E role \in People!Role : People!SetRole(r, by, h, role)
    BY <1>2, KnownIsHandle, RemovalKeeps, SetRoleKeeps
  <1>3. CASE \E a \in Account, role \in {"admin", "member"} : People!Join(r, a, role)
    BY <1>3, JoinKeeps
  <1> QED BY <1>1, <1>2, <1>3, ReadsKeep, CountsKeep, WriteRoleKeeps, DeleteMemberKeeps, EndsKeep, PickKeeps,
             ProfileKeeps, InsertMemberKeepsRows

LEMMA RowsInit ==
  ASSUME People!ParametersOK, People!Init
  PROVE  RowsInv
  <1>1. PICK a \in Account :
          /\ rows = {[id |-> 1, account |-> a, handle |-> <<Base[a], 1>>, role |-> "owner"]}
          /\ profile = {<<Base[a], 1>>}
    BY DEF People!Init
  <1>2. nextId = 2 /\ calm = TRUE /\ raced = FALSE /\ \A r \in Request : req[r] = People!Idle
    BY DEF People!Init
  <1>3. req \in [Request -> Change] /\ \A r \in Request : req[r].pc = "idle"
    BY IdleIsChange DEF People!Init
  <1>4. <<Base[a], 1>> \in People!Handle
    BY DEF People!Handle, People!ParametersOK
  <1>5. People!TypeOK
    <2>1. 1 \in 1 .. MaxId /\ 2 \in 1 .. MaxId + 1
      BY DEF People!ParametersOK
    <2>2. rows \subseteq People!Member
      BY <1>1, <1>4, <2>1 DEF People!Member, People!Role
    <2> QED BY <1>1, <1>2, <1>3, <1>4, <2>1, <2>2 DEF People!TypeOK, Change, PC
  <1>6. Numbered
    <2>1. IsFiniteSet(rows)
      BY <1>1, FS_Singleton
    <2>2. Joining = {}
      BY <1>3 DEF Joining
    <2>3. Cardinality(Joining) = 0
      BY <2>2, FS_EmptySet
    <2>4. \A m, n \in rows : m = n /\ m.id = 1
      BY <1>1
    <2> QED BY <1>2, <2>1, <2>3, <2>4 DEF Numbered, People!ParametersOK
  <1>7. People!OneMembership
    BY <1>1 DEF People!OneMembership
  <1> QED BY <1>3, <1>5, <1>6, <1>7 DEF RowsInv, CallInv

\* No call over the members breaks RowsInv, whichever others are at work.
THEOREM RowsInvariance == People!Spec => []RowsInv
  <1>0. People!ParametersOK
    BY WorkspacesAssumption
  <1> USE <1>0
  <1>1. RowsInv /\ [People!Next]_(People!vars) => RowsInv'
    <2> SUFFICES ASSUME RowsInv, UNCHANGED People!vars PROVE RowsInv'
      BY RowsNext
    <2>1. UNCHANGED <<rows, profile, nextId, req, calm, raced>>
      BY DEF People!vars
    <2>2. People!TypeOK' /\ Numbered' /\ People!OneMembership' /\ \A r \in Request : CallInv(r)'
      BY <2>1 DEF RowsInv, People!TypeOK, Numbered, Joining, People!OneMembership, CallInv
    <2> QED BY <2>2 DEF RowsInv
  <1> QED BY <1>1, RowsInit, PTL DEF People!Spec

\* Rows, profiles and the calls at work on them are typed however the calls
\* overlap; so are the ids the bound is kept by.
THEOREM PeopleTypeOK == People!Spec => []People!TypeOK
  <1>1. RowsInv => People!TypeOK
    BY DEF RowsInv
  <1> QED BY <1>1, RowsInvariance, PTL

\* auth/service.ts:326: however many joins of an account overlap, it is in the
\* workspace once.
THEOREM OneMembershipEach == People!Spec => []People!OneMembership
  <1>1. RowsInv => People!OneMembership
    BY DEF RowsInv
  <1> QED BY <1>1, RowsInvariance, PTL

-----------------------------------------------------------------------------
(* Calls that come one after the other keep the two tables matched.        *)

Handles == {m.handle : m \in rows}

\* Where the one call at work, that of r, has left the two tables.
Phase(r) ==
    LET c == req[r] IN
    /\ c.pc \in {"role", "demote", "update", "remove", "owners", "delete", "pick", "insert"} => profile = Handles
    /\ c.pc \in {"owners", "delete"} => \E m \in rows : m.id = c.id /\ m.handle = c.handle
    /\ c.pc = "insert" => c.handle \notin profile
    /\ c.pc \in {"profile", "join"} =>
          c.handle \notin Handles /\ Handles \subseteq profile /\ profile \subseteq Handles \cup {c.handle}
    /\ c.pc = "join" => c.handle \in profile
    /\ c.pc \in {"pick", "insert", "join"} => People!AccountIsFree(c.account)

CalmInv ==
    calm =>
      /\ People!HandlesDiffer
      /\ \A q, r \in Request : req[q].pc # "idle" /\ req[r].pc # "idle" => q = r
      /\ People!AtRest => profile = Handles
      /\ \A r \in Request : req[r].pc # "idle" => Phase(r)

LEMMA HandlesNext ==
  ASSUME rows' = rows
  PROVE  Handles' = Handles
  BY DEF Handles

\* The call r is the only one at work.
LEMMA CalmBefore ==
  ASSUME CalmInv, calm, NEW r \in Request, req[r].pc # "idle"
  PROVE  People!HandlesDiffer /\ Phase(r) /\ \A q \in Request \ {r} : req[q].pc = "idle"
  BY DEF CalmInv

LEMMA CalmAtRest ==
  ASSUME CalmInv, calm, People!AtRest
  PROVE  People!HandlesDiffer /\ profile = Handles /\ \A q \in Request : req[q].pc = "idle"
  BY DEF CalmInv, People!AtRest

\* And it still is after its step.
LEMMA CalmStep ==
  ASSUME RowsInv, NEW r \in Request, NEW c \in Change, req' = [req EXCEPT ![r] = c],
         calm' => /\ \A q \in Request \ {r} : req[q].pc = "idle"
                  /\ People!HandlesDiffer'
                  /\ c.pc = "idle" => profile' = Handles'
                  /\ c.pc # "idle" => Phase(r)'
  PROVE  CalmInv'
  <1>1. req'[r] = c /\ \A q \in Request \ {r} : req'[q] = req[q]
    BY OneCall DEF RowsInv
  <1> SUFFICES ASSUME calm'
      PROVE  /\ People!HandlesDiffer'
             /\ \A q, u \in Request : req'[q].pc # "idle" /\ req'[u].pc # "idle" => q = u
             /\ People!AtRest' => profile' = Handles'
             /\ \A q \in Request : req'[q].pc # "idle" => Phase(q)'
    BY DEF CalmInv
  <1>2. \A q \in Request : req'[q].pc # "idle" => q = r
    BY <1>1
  <1>3. People!AtRest' => c.pc = "idle"
    BY <1>1 DEF People!AtRest
  <1> QED BY <1>1, <1>2, <1>3

LEMMA FirstCalm ==
  ASSUME RowsInv, CalmInv, NEW r \in Request, NEW c \in Change, req' = [req EXCEPT ![r] = c],
         c.pc \in {"role", "remove"}, rows' = rows, profile' = profile, calm' => calm /\ People!AtRest
  PROVE  CalmInv'
  <1>1. req'[r] = c
    BY OneCall DEF RowsInv
  <1>2. ASSUME calm'
        PROVE  (\A q \in Request \ {r} : req[q].pc = "idle") /\ People!HandlesDiffer' /\ Phase(r)'
    <2>1. People!HandlesDiffer /\ profile = Handles /\ \A q \in Request : req[q].pc = "idle"
      BY <1>2, CalmAtRest
    <2>2. People!HandlesDiffer'
      BY <2>1 DEF People!HandlesDiffer
    <2>3. Phase(r)'
      BY <1>1, <2>1, HandlesNext DEF Phase
    <2> QED BY <2>1, <2>2, <2>3
  <1> QED BY <1>2, CalmStep

LEMMA SetRoleCalm ==
  ASSUME RowsInv, CalmInv, NEW r \in Request, NEW by, NEW h \in People!Handle, NEW role \in People!Role,
         People!SetRole(r, by, h, role)
  PROVE  CalmInv'
  <1>1. rows' = rows /\ profile' = profile /\ (calm' => calm /\ People!AtRest)
    BY DEF People!SetRole
  <1>2. PICK c \in Change : req' = [req EXCEPT ![r] = c] /\ c.pc = "role"
    BY SetRoleIs
  <1> QED BY <1>1, <1>2, FirstCalm

LEMMA RemoveCalm ==
  ASSUME RowsInv, CalmInv, NEW r \in Request, NEW by, NEW h \in People!Handle, People!Remove(r, by, h)
  PROVE  CalmInv'
  <1>1. rows' = rows /\ profile' = profile /\ (calm' => calm /\ People!AtRest)
    BY DEF People!Remove
  <1>2. PICK c \in Change : req' = [req EXCEPT ![r] = c] /\ c.pc = "remove"
    BY RemoveIs
  <1> QED BY <1>1, <1>2, FirstCalm

LEMMA JoinCalm ==
  ASSUME RowsInv, CalmInv, NEW r \in Request, NEW a \in Account, NEW role \in {"admin", "member"},
         People!Join(r, a, role)
  PROVE  CalmInv'
  <1>1. PICK c \in Change :
            req' = [req EXCEPT ![r] = c] /\ c.pc = "pick" /\ c.account = a /\ c.role = role
    BY JoinIs
  <1>2. req'[r] = c
    BY <1>1, OneCall DEF RowsInv
  <1>3. /\ rows' = rows /\ profile' = profile /\ (calm' => calm /\ People!AtRest)
        /\ \A m \in rows : m.account # a
    BY DEF People!Join
  <1>4. ASSUME calm'
        PROVE  (\A q \in Request \ {r} : req[q].pc = "idle") /\ People!HandlesDiffer' /\ Phase(r)'
    <2>1. People!HandlesDiffer /\ profile = Handles /\ \A q \in Request : req[q].pc = "idle"
      BY <1>3, <1>4, CalmAtRest
    <2>2. People!HandlesDiffer'
      BY <1>3, <2>1 DEF People!HandlesDiffer
    <2>3. Phase(r)'
      BY <1>1, <1>2, <1>3, <2>1, HandlesNext DEF Phase, People!AccountIsFree
    <2> QED BY <2>1, <2>2, <2>3
  <1> QED BY <1>1, <1>4, CalmStep

\* A call that ends where the tables match.
LEMMA EndCalm ==
  ASSUME RowsInv, CalmInv, NEW r \in Request, req' = [req EXCEPT ![r] = People!Idle],
         req[r].pc # "idle",
         calm' => calm /\ People!HandlesDiffer' /\ profile' = Handles'
  PROVE  CalmInv'
  <1>1. PICK c \in Change : c = People!Idle /\ c.pc = "idle"
    BY IdleIsChange
  <1>2. calm' => \A q \in Request \ {r} : req[q].pc = "idle"
    BY CalmBefore
  <1> QED BY <1>1, <1>2, CalmStep

LEMMA ReadForRoleCalm ==
  ASSUME RowsInv, CalmInv, NEW r \in Request, People!ReadForRole(r)
  PROVE  CalmInv'
  <1>1. rows' = rows /\ profile' = profile /\ calm' = calm /\ req[r].pc = "role"
    BY DEF People!ReadForRole
  <1>2. ASSUME calm
        PROVE  /\ People!HandlesDiffer' /\ profile' = Handles'
               /\ \A q \in Request \ {r} : req[q].pc = "idle"
    <2>1. People!HandlesDiffer /\ Phase(r) /\ \A q \in Request \ {r} : req[q].pc = "idle"
      BY <1>1, <1>2, CalmBefore
    <2>2. People!HandlesDiffer'
      BY <1>1, <2>1 DEF People!HandlesDiffer
    <2>3. profile' = Handles'
      BY <1>1, <2>1, HandlesNext DEF Phase
    <2> QED BY <2>1, <2>2, <2>3
  <1>3. CASE req' = [req EXCEPT ![r] = People!Idle]
    BY <1>1, <1>2, <1>3, EndCalm
  <1>4. ASSUME NEW c \in Change, req' = [req EXCEPT ![r] = c], c.pc \in {"demote", "update"}
        PROVE  CalmInv'
    <2>1. req'[r] = c
      BY <1>4, OneCall DEF RowsInv
    <2>2. calm => Phase(r)'
      BY <1>2, <1>4, <2>1 DEF Phase
    <2> QED BY <1>1, <1>2, <1>4, <2>2, CalmStep
  <1> QED BY <1>3, <1>4, ReadForRoleIs

LEMMA ReadForRemovalCalm ==
  ASSUME RowsInv, CalmInv, NEW r \in Request, People!ReadForRemoval(r)
  PROVE  CalmInv'
  <1>1. rows' = rows /\ profile' = profile /\ calm' = calm /\ req[r].pc = "remove"
    BY DEF People!ReadForRemoval
  <1>2. PICK c \in Change :
            /\ req' = [req EXCEPT ![r] = c] /\ c.handle = req[r].handle
            /\ \/ c.pc = "profile" /\ \A m \in rows : m.handle # req[r].handle
               \/ \E m \in rows :
                    /\ m.handle = req[r].handle /\ c.id = m.id /\ c.pc \in {"owners", "delete"}
                    /\ c.pc = "delete" => m.role # "owner"
    BY ReadForRemovalIs
  <1>3. req'[r] = c /\ c.pc # "idle"
    BY <1>2, OneCall DEF RowsInv
  <1>4. ASSUME calm
        PROVE  (\A q \in Request \ {r} : req[q].pc = "idle") /\ People!HandlesDiffer' /\ Phase(r)'
    <2>1. People!HandlesDiffer /\ Phase(r) /\ \A q \in Request \ {r} : req[q].pc = "idle"
      BY <1>1, <1>4, CalmBefore
    <2>2. People!HandlesDiffer' /\ profile = Handles
      BY <1>1, <2>1 DEF People!HandlesDiffer, Phase
    <2>3. CASE c.pc = "profile" /\ \A m \in rows : m.handle # req[r].handle
      <3>1. req[r].handle \notin Handles
        BY <2>3 DEF Handles
      <3>2. Phase(r)'
        BY <1>1, <1>2, <1>3, <2>2, <2>3, <3>1, HandlesNext DEF Phase
      <3> QED BY <2>1, <2>2, <3>2
    <2>4. CASE c.pc \in {"owners", "delete"} /\ \E m \in rows : m.handle = req[r].handle /\ c.id = m.id
      <3>1. Phase(r)'
        BY <1>1, <1>2, <1>3, <2>2, <2>4, HandlesNext DEF Phase
      <3> QED BY <2>1, <2>2, <3>1
    <2> QED BY <1>2, <2>3, <2>4
  <1> QED BY <1>1, <1>2, <1>3, <1>4, CalmStep

LEMMA CountsCalm ==
  ASSUME RowsInv, CalmInv, NEW r \in Request,
         People!CountBeforeDemote(r) \/ People!CountBeforeRemove(r)
  PROVE  CalmInv'
  <1>1. rows' = rows /\ profile' = profile /\ calm' = calm /\ req[r].pc \in {"demote", "owners"}
    BY DEF People!CountBeforeDemote, People!CountBeforeRemove
  <1>2. ASSUME calm
        PROVE  /\ People!HandlesDiffer' /\ Phase(r) /\ profile' = Handles'
               /\ \A q \in Request \ {r} : req[q].pc = "idle"
    <2>1. People!HandlesDiffer /\ Phase(r) /\ \A q \in Request \ {r} : req[q].pc = "idle"
      BY <1>1, <1>2, CalmBefore
    <2>2. People!HandlesDiffer'
      BY <1>1, <2>1 DEF People!HandlesDiffer
    <2>3. profile' = Handles'
      BY <1>1, <2>1, HandlesNext DEF Phase
    <2> QED BY <2>1, <2>2, <2>3
  <1>3. CASE req' = [req EXCEPT ![r] = People!Idle]
    BY <1>1, <1>2, <1>3, EndCalm
  <1>4. ASSUME NEW pc \in PC, People!To(r, pc),
               \/ req[r].pc = "demote" /\ pc = "update"
               \/ req[r].pc = "owners" /\ pc = "delete"
        PROVE  CalmInv'
    <2>1. PICK c \in Change :
            /\ req' = [req EXCEPT ![r] = c] /\ c.pc = pc
            /\ c.handle = req[r].handle /\ c.id = req[r].id /\ c.account = req[r].account
      BY <1>4, ToIs
    <2>2. req'[r] = c
      BY <2>1, OneCall DEF RowsInv
    <2>3. calm => Phase(r)'
      BY <1>1, <1>2, <1>4, <2>1, <2>2 DEF Phase
    <2> QED BY <1>1, <1>2, <1>4, <2>1, <2>3, CalmStep
  <1>5. "update" \in PC /\ "delete" \in PC
    BY DEF PC
  <1> QED BY <1>3, <1>4, <1>5 DEF People!CountBeforeDemote, People!CountBeforeRemove

LEMMA WriteRoleCalm ==
  ASSUME RowsInv, CalmInv, NEW r \in Request, People!WriteRole(r)
  PROVE  CalmInv'
  <1>1. /\ req[r].pc = "update" /\ profile' = profile /\ calm' = calm
        /\ req' = [req EXCEPT ![r] = People!Idle]
    BY DEF People!WriteRole
  <1>2. rows' = {Written(m, req[r]) : m \in rows}
    BY DEF People!WriteRole, Written
  <1>3. Handles' = Handles
    <2>1. ASSUME NEW h \in Handles PROVE h \in Handles'
      <3>1. PICK m \in rows : h = m.handle
        BY DEF Handles
      <3>2. Written(m, req[r]) \in rows' /\ Written(m, req[r]).handle = h
        BY <1>2, <3>1, WrittenIs
      <3> QED BY <3>2 DEF Handles
    <2>2. ASSUME NEW h \in Handles' PROVE h \in Handles
      <3>1. PICK n \in rows' : h = n.handle
        BY DEF Handles
      <3>2. PICK m \in rows : n = Written(m, req[r])
        BY <1>2
      <3>3. m.handle = h
        BY <3>1, <3>2, WrittenIs
      <3> QED BY <3>3 DEF Handles
    <2> QED BY <2>1, <2>2
  <1>4. ASSUME calm PROVE People!HandlesDiffer' /\ profile' = Handles'
    <2>1. People!HandlesDiffer /\ Phase(r)
      BY <1>1, <1>4, CalmBefore
    <2>2. ASSUME NEW x \in rows', NEW y \in rows', x.handle = y.handle PROVE x = y
      <3>1. PICK m \in rows : x = Written(m, req[r])
        BY <1>2
      <3>2. PICK n \in rows : y = Written(n, req[r])
        BY <1>2
      <3>3. m.handle = n.handle
        BY <2>2, <3>1, <3>2, WrittenIs
      <3>4. m = n
        BY <2>1, <3>3 DEF People!HandlesDiffer
      <3> QED BY <3>1, <3>2, <3>4
    <2>3. People!HandlesDiffer'
      BY <2>2 DEF People!HandlesDiffer
    <2>4. profile' = Handles'
      BY <1>1, <1>3, <2>1 DEF Phase
    <2> QED BY <2>3, <2>4
  <1> QED BY <1>1, <1>4, EndCalm

LEMMA DeleteMemberCalm ==
  ASSUME RowsInv, CalmInv, NEW r \in Request, People!DeleteMember(r)
  PROVE  CalmInv'
  <1>1. /\ req[r].pc = "delete" /\ profile' = profile /\ calm' = calm
        /\ rows' = {m \in rows : m.id # req[r].id}
    BY DEF People!DeleteMember
  <1>2. PICK c \in Change :
            /\ req' = [req EXCEPT ![r] = c] /\ c.pc = "profile" /\ c.handle = req[r].handle
    BY ToIs DEF People!DeleteMember, PC
  <1>3. req'[r] = c
    BY <1>2, OneCall DEF RowsInv
  <1>4. ASSUME calm
        PROVE  (\A q \in Request \ {r} : req[q].pc = "idle") /\ People!HandlesDiffer' /\ Phase(r)'
    <2>1. People!HandlesDiffer /\ Phase(r) /\ \A q \in Request \ {r} : req[q].pc = "idle"
      BY <1>1, <1>4, CalmBefore
    <2>2. profile = Handles
      BY <1>1, <2>1 DEF Phase
    <2>3. PICK m \in rows : m.id = req[r].id /\ m.handle = req[r].handle
      BY <1>1, <2>1 DEF Phase
    <2>4. People!HandlesDiffer'
      BY <1>1, <2>1 DEF People!HandlesDiffer
    <2>5. req[r].handle \notin Handles'
      <3>1. ASSUME NEW n \in rows' PROVE n.handle # req[r].handle
        BY <1>1, <2>1, <2>3, <3>1 DEF People!HandlesDiffer
      <3> QED BY <3>1 DEF Handles
    <2>6. Handles' \subseteq Handles
      BY <1>1 DEF Handles
    <2>7. Handles \subseteq Handles' \cup {req[r].handle}
      <3>1. ASSUME NEW h \in Handles PROVE h \in Handles' \cup {req[r].handle}
        <4>1. PICK n \in rows : h = n.handle
          BY DEF Handles
        <4>2. CASE n.id = req[r].id
          <5>1. n = m
            BY <2>3, <4>2 DEF RowsInv, Numbered
          <5> QED BY <2>3, <4>1, <5>1
        <4>3. CASE n.id # req[r].id
          <5>1. n \in rows'
            BY <1>1, <4>3
          <5> QED BY <4>1, <5>1 DEF Handles
        <4> QED BY <4>2, <4>3
      <3> QED BY <3>1
    <2>8. Phase(r)'
      BY <1>1, <1>2, <1>3, <2>2, <2>5, <2>6, <2>7 DEF Phase
    <2> QED BY <2>1, <2>4, <2>8
  <1> QED BY <1>1, <1>2, <1>4, CalmStep

LEMMA DeleteProfileCalm ==
  ASSUME RowsInv, CalmInv, NEW r \in Request, People!DeleteProfile(r)
  PROVE  CalmInv'
  <1>1. /\ req[r].pc = "profile" /\ rows' = rows /\ profile' = profile \ {req[r].handle} /\ calm' = calm
        /\ req' = [req EXCEPT ![r] = People!Idle]
    BY DEF People!DeleteProfile
  <1>2. ASSUME calm PROVE People!HandlesDiffer' /\ profile' = Handles'
    <2>1. People!HandlesDiffer /\ Phase(r)
      BY <1>1, <1>2, CalmBefore
    <2>2. People!HandlesDiffer'
      BY <1>1, <2>1 DEF People!HandlesDiffer
    <2>3. profile' = Handles'
      BY <1>1, <2>1, HandlesNext DEF Phase
    <2> QED BY <2>2, <2>3
  <1> QED BY <1>1, <1>2, EndCalm

LEMMA PickCalm ==
  ASSUME RowsInv, CalmInv, NEW r \in Request, People!PickHandle(r)
  PROVE  CalmInv'
  <1>1. PICK c \in Change, h \in People!Handle \ profile :
            /\ req' = [req EXCEPT ![r] = c]
            /\ c.pc = "insert" /\ c.handle = h /\ c.account = req[r].account /\ c.role = req[r].role
    BY PickIs
  <1>2. rows' = rows /\ profile' = profile /\ calm' = calm /\ req[r].pc = "pick"
    BY DEF People!PickHandle
  <1>3. req'[r] = c
    BY <1>1, OneCall DEF RowsInv
  <1>4. ASSUME calm
        PROVE  (\A q \in Request \ {r} : req[q].pc = "idle") /\ People!HandlesDiffer' /\ Phase(r)'
    <2>1. People!HandlesDiffer /\ Phase(r) /\ \A q \in Request \ {r} : req[q].pc = "idle"
      BY <1>2, <1>4, CalmBefore
    <2>2. People!HandlesDiffer'
      BY <1>2, <2>1 DEF People!HandlesDiffer
    <2>3. Phase(r)'
      BY <1>1, <1>2, <1>3, <2>1, HandlesNext DEF Phase, People!AccountIsFree
    <2> QED BY <2>1, <2>2, <2>3
  <1> QED BY <1>1, <1>2, <1>4, CalmStep

LEMMA InsertProfileCalm ==
  ASSUME RowsInv, CalmInv, NEW r \in Request, People!InsertProfile(r)
  PROVE  CalmInv'
  <1>1. rows' = rows /\ calm' = calm /\ req[r].pc = "insert"
    BY DEF People!InsertProfile
  <1>2. ASSUME calm
        PROVE  /\ People!HandlesDiffer' /\ Phase(r) /\ req[r].handle \notin profile
               /\ \A q \in Request \ {r} : req[q].pc = "idle"
    <2>1. People!HandlesDiffer /\ Phase(r) /\ \A q \in Request \ {r} : req[q].pc = "idle"
      BY <1>1, <1>2, CalmBefore
    <2>2. People!HandlesDiffer'
      BY <1>1, <2>1 DEF People!HandlesDiffer
    <2>3. req[r].handle \notin profile
      BY <1>1, <2>1 DEF Phase
    <2> QED BY <2>1, <2>2, <2>3
  <1>3. CASE req[r].handle \in profile
    <2>1. req' = [req EXCEPT ![r] = People!Idle]
      BY <1>3 DEF People!InsertProfile
    <2> QED BY <1>1, <1>2, <1>3, <2>1, EndCalm
  <1>4. CASE req[r].handle \notin profile
    <2>1. People!To(r, "join") /\ profile' = profile \cup {req[r].handle} /\ "join" \in PC
      BY <1>4 DEF People!InsertProfile, PC
    <2>2. PICK c \in Change :
            /\ req' = [req EXCEPT ![r] = c] /\ c.pc = "join"
            /\ c.handle = req[r].handle /\ c.id = req[r].id /\ c.account = req[r].account
      BY <2>1, ToIs
    <2>3. req'[r] = c
      BY <2>2, OneCall DEF RowsInv
    <2>4. ASSUME calm PROVE Phase(r)'
      <3>1. Phase(r) /\ req[r].handle \notin profile
        BY <1>2, <2>4
      <3>2. profile = Handles /\ People!AccountIsFree(req[r].account)
        BY <1>1, <3>1 DEF Phase
      <3> QED BY <1>1, <2>1, <2>2, <2>3, <3>1, <3>2, HandlesNext DEF Phase, People!AccountIsFree
    <2> QED BY <1>1, <1>2, <2>2, <2>4, CalmStep
  <1> QED BY <1>3, <1>4

LEMMA InsertMemberCalm ==
  ASSUME RowsInv, CalmInv, NEW r \in Request, People!InsertMember(r)
  PROVE  CalmInv'
  <1> DEFINE new == [id |-> nextId, account |-> req[r].account, handle |-> req[r].handle, role |-> req[r].role]
  <1>1. /\ req[r].pc = "join" /\ profile' = profile /\ calm' = calm
        /\ req' = [req EXCEPT ![r] = People!Idle]
        /\ People!AccountIsFree(req[r].account) => rows' = rows \cup {new}
    BY DEF People!InsertMember
  <1>2. new.handle = req[r].handle
    OBVIOUS
  <1> HIDE DEF new
  <1>3. ASSUME calm PROVE People!HandlesDiffer' /\ profile' = Handles'
    <2>1. People!HandlesDiffer /\ Phase(r)
      BY <1>1, <1>3, CalmBefore
    <2>2. /\ People!AccountIsFree(req[r].account) /\ req[r].handle \in profile
          /\ req[r].handle \notin Handles /\ Handles \subseteq profile
          /\ profile \subseteq Handles \cup {req[r].handle}
      BY <1>1, <2>1 DEF Phase
    <2>3. rows' = rows \cup {new}
      BY <1>1, <2>2
    <2>4. Handles' = Handles \cup {req[r].handle}
      BY <1>2, <2>3 DEF Handles
    <2>5. \A m \in rows : m.handle # new.handle
      BY <1>2, <2>2 DEF Handles
    <2>6. People!HandlesDiffer'
      BY <2>1, <2>3, <2>5 DEF People!HandlesDiffer
    <2>7. profile' = Handles'
      BY <1>1, <2>2, <2>4
    <2> QED BY <2>6, <2>7
  <1> QED BY <1>1, <1>3, EndCalm

LEMMA CalmNext ==
  ASSUME People!ParametersOK, RowsInv, CalmInv, People!Next
  PROVE  CalmInv'
  <1>1. PICK r \in Request :
        \/ \E by, h \in People!Known : People!Remove(r, by, h) \/ \E role \in People!Role : People!SetRole(r, by, h, role)
        \/ People!ReadForRole(r) \/ People!CountBeforeDemote(r) \/ People!WriteRole(r)
        \/ People!ReadForRemoval(r) \/ People!CountBeforeRemove(r) \/ People!DeleteMember(r) \/ People!DeleteProfile(r)
        \/ \E a \in Account, role \in {"admin", "member"} : People!Join(r, a, role)
        \/ People!PickHandle(r) \/ People!InsertProfile(r) \/ People!InsertMember(r)
        \/ People!Lose(r)
    BY DEF People!Next
  <1>2. CASE \E by, h \in People!Known : People!Remove(r, by, h) \/ \E role \in People!Role : People!SetRole(r, by, h, role)
    BY <1>2, KnownIsHandle, RemoveCalm, SetRoleCalm
  <1>3. CASE \E a \in Account, role \in {"admin", "member"} : People!Join(r, a, role)
    BY <1>3, JoinCalm
  <1>4. CASE People!Lose(r)
    BY <1>4 DEF People!Lose, CalmInv
  <1> QED BY <1>1, <1>2, <1>3, <1>4, ReadForRoleCalm, ReadForRemovalCalm, CountsCalm, WriteRoleCalm, DeleteMemberCalm, DeleteProfileCalm,
             PickCalm, InsertProfileCalm, InsertMemberCalm

LEMMA CalmInit ==
  ASSUME People!Init
  PROVE  CalmInv
  <1>1. PICK a \in Account :
          /\ rows = {[id |-> 1, account |-> a, handle |-> <<Base[a], 1>>, role |-> "owner"]}
          /\ profile = {<<Base[a], 1>>}
    BY DEF People!Init
  <1>2. \A r \in Request : req[r].pc = "idle"
    BY DEF People!Init, People!Idle
  <1>3. profile = Handles
    BY <1>1 DEF Handles
  <1>4. People!HandlesDiffer
    BY <1>1 DEF People!HandlesDiffer
  <1> QED BY <1>2, <1>3, <1>4 DEF CalmInv

\* auth/service.ts:326, schema.ts:477: while calls come one after the other and
\* none is lost, every member has its profile, no two have the same, and when no
\* call is at work every profile is some member's; whatever calls there are.
THEOREM TablesMatch == People!Spec => []RowsMatch
  <1>1. CalmInv /\ RowsInv /\ RowsInv' /\ [People!Next]_(People!vars) => CalmInv'
    <2> SUFFICES ASSUME CalmInv, UNCHANGED People!vars PROVE CalmInv'
      BY CalmNext, WorkspacesAssumption
    <2>1. UNCHANGED <<rows, profile, nextId, req, calm, raced>>
      BY DEF People!vars
    <2> QED BY <2>1 DEF CalmInv, People!HandlesDiffer, People!AtRest, Phase, Handles, People!AccountIsFree
  <1>2. CalmInv /\ RowsInv => RowsMatch
    <2> SUFFICES ASSUME CalmInv, RowsInv, calm
        PROVE  People!MemberHasProfile /\ People!ProfileHasMember /\ People!HandlesDiffer
      BY DEF RowsMatch, People!RowsMatch
    <2>1. People!HandlesDiffer
      BY DEF CalmInv
    <2>2. People!ProfileHasMember
      BY DEF CalmInv, People!ProfileHasMember, Handles
    <2>3. Handles \subseteq profile
      <3>1. CASE People!AtRest
        BY <3>1 DEF CalmInv
      <3>2. CASE ~People!AtRest
        <4>1. PICK r \in Request : req[r].pc # "idle"
          BY <3>2 DEF People!AtRest
        <4>2. req[r].pc \in PC \ {"idle"} /\ Phase(r)
          BY <4>1, CallIsTyped DEF CalmInv, Change
        <4> QED BY <4>2 DEF Phase, PC
      <3> QED BY <3>1, <3>2
    <2>4. People!MemberHasProfile
      BY <2>3 DEF People!MemberHasProfile, Handles
    <2> QED BY <2>1, <2>2, <2>4
  <1>3. People!Init => CalmInv
    BY CalmInit
  <1> QED BY <1>1, <1>2, <1>3, RowsInvariance, PTL DEF People!Spec

-----------------------------------------------------------------------------
(* However many manage the members: an owner stays until two calls race.   *)

\* Whoever is about to take a row or a role leaves another owner.
ManagedInv ==
    \/ raced
    \/ /\ People!Owners # {}
       /\ \A r \in Request : People!Takes(r) => \E m \in People!Owners : m.id # req[r].id

LEMMA OtherOwner ==
  ASSUME RowsInv, People!MoreThanOneOwner, NEW i
  PROVE  \E m \in People!Owners : m.id # i
  <1> SUFFICES ASSUME \A m \in People!Owners : m.id = i PROVE FALSE
    OBVIOUS
  <1>1. Cardinality(People!Owners) > 1
    BY PeopleCount DEF People!MoreThanOneOwner
  <1>2. People!Owners # {}
    <2> SUFFICES ASSUME People!Owners = {} PROVE FALSE
      OBVIOUS
    <2>1. Cardinality({}) = 0
      BY FS_EmptySet
    <2> QED BY <1>1, <2>1
  <1>3. PICK o \in People!Owners : TRUE
    BY <1>2
  <1>4. People!Owners = {o}
    BY <1>3 DEF People!Owners, RowsInv, Numbered
  <1>5. Cardinality({o}) = 1
    BY FS_Singleton
  <1> QED BY <1>1, <1>4, <1>5

\* An owner is not the member that is none.
LEMMA AnyOwner ==
  ASSUME RowsInv, People!Owners # {}, NEW n \in rows, n.role # "owner"
  PROVE  \E m \in People!Owners : m.id # n.id
  BY DEF People!Owners, RowsInv, Numbered

\* A step after which the owners are the owners there were, by their ids.
LEMMA ManagedStep ==
  ASSUME RowsInv, ManagedInv, NEW r \in Request,
         NEW c \in Change, req' = [req EXCEPT ![r] = c], raced \/ raced' = raced,
         raced => raced',
         \A m \in People!Owners : \E n \in People!Owners' : n.id = m.id,
         ~raced /\ People!Takes(r)' => \E m \in People!Owners : m.id # c.id
  PROVE  ManagedInv'
  <1> SUFFICES ASSUME ~raced' PROVE ManagedInv'
    BY DEF ManagedInv
  <1>1. req'[r] = c /\ \A q \in Request \ {r} : req'[q] = req[q]
    BY OneCall DEF RowsInv
  <1>2. People!Owners' # {}
    BY DEF ManagedInv
  <1>3. ASSUME NEW q \in Request, People!Takes(q)'
        PROVE  \E m \in People!Owners' : m.id # req'[q].id
    <2>1. CASE q = r
      BY <1>1, <1>3, <2>1
    <2>2. CASE q # r
      <3>1. People!Takes(q) /\ req'[q] = req[q]
        BY <1>1, <1>3, <2>2 DEF People!Takes
      <3>2. PICK m \in People!Owners : m.id # req[q].id
        BY <3>1 DEF ManagedInv
      <3> QED BY <3>1, <3>2
    <2> QED BY <2>1, <2>2
  <1> QED BY <1>2, <1>3 DEF ManagedInv

LEMMA SameOwners ==
  ASSUME rows \subseteq rows'
  PROVE  \A m \in People!Owners : \E n \in People!Owners' : n.id = m.id
  BY DEF People!Owners

\* A step that takes no row and no role, and leaves the call where it takes none.
LEMMA OthersManaged ==
  ASSUME RowsInv, ManagedInv, NEW r \in Request, rows \subseteq rows', raced' = raced,
         NEW c \in Change, req' = [req EXCEPT ![r] = c], c.pc \notin {"update", "delete"}
  PROVE  ManagedInv'
  <1>1. ~People!Takes(r)'
    BY OneCall DEF RowsInv, People!Takes
  <1> QED BY <1>1, SameOwners, ManagedStep

\* A call that ends without touching the memberships.
LEMMA EndManaged ==
  ASSUME RowsInv, ManagedInv, NEW r \in Request,
         req' = [req EXCEPT ![r] = People!Idle], rows \subseteq rows', raced' = raced
  PROVE  ManagedInv'
  <1>1. PICK c \in Change : c = People!Idle /\ c.pc = "idle"
    BY IdleIsChange
  <1> QED BY <1>1, OthersManaged

LEMMA ReadsManaged ==
  ASSUME RowsInv, ManagedInv, NEW r \in Request, People!ReadForRole(r) \/ People!ReadForRemoval(r)
  PROVE  ManagedInv'
  <1>1. rows \subseteq rows' /\ raced' = raced
    BY DEF People!ReadForRole, People!ReadForRemoval
  <1>2. ASSUME NEW n \in rows, NEW c \in Change, req' = [req EXCEPT ![r] = c], c.id = n.id,
               People!Takes(r)' => n.role # "owner"
        PROVE  ManagedInv'
    <2>1. ~raced /\ People!Takes(r)' => \E m \in People!Owners : m.id # c.id
      BY <1>2, AnyOwner DEF ManagedInv
    <2> QED BY <1>1, <1>2, <2>1, SameOwners, ManagedStep
  <1>3. CASE People!ReadForRole(r)
    <2>1. CASE req' = [req EXCEPT ![r] = People!Idle]
      BY <1>1, <2>1, EndManaged
    <2>2. ASSUME NEW n \in rows, NEW c \in Change, req' = [req EXCEPT ![r] = c],
                 c.pc \in {"demote", "update"}, c.pc = "update" => n.role # "owner" \/ req[r].role = "owner",
                 c.id = n.id, c.role = req[r].role
          PROVE  ManagedInv'
      <3>1. People!Takes(r)' => n.role # "owner"
        BY <2>2, OneCall DEF RowsInv, People!Takes
      <3> QED BY <1>2, <2>2, <3>1
    <2> QED BY <1>3, <2>1, <2>2, ReadForRoleIs
  <1>4. CASE People!ReadForRemoval(r)
    <2>1. PICK c \in Change :
            /\ req' = [req EXCEPT ![r] = c] /\ c.handle = req[r].handle
            /\ \/ c.pc = "profile" /\ \A m \in rows : m.handle # req[r].handle
               \/ \E m \in rows :
                    /\ m.handle = req[r].handle /\ c.id = m.id /\ c.pc \in {"owners", "delete"}
                    /\ c.pc = "delete" => m.role # "owner"
      BY <1>4, ReadForRemovalIs
    <2>2. CASE c.pc = "profile"
      BY <1>1, <2>1, <2>2, OthersManaged
    <2>3. ASSUME NEW n \in rows, c.id = n.id, c.pc \in {"owners", "delete"}, c.pc = "delete" => n.role # "owner"
          PROVE  ManagedInv'
      <3>1. People!Takes(r)' => n.role # "owner"
        BY <2>1, <2>3, OneCall DEF RowsInv, People!Takes
      <3> QED BY <1>2, <2>1, <2>3, <3>1
    <2> QED BY <2>1, <2>2, <2>3
  <1> QED BY <1>3, <1>4

LEMMA CountsManaged ==
  ASSUME RowsInv, ManagedInv, NEW r \in Request,
         People!CountBeforeDemote(r) \/ People!CountBeforeRemove(r)
  PROVE  ManagedInv'
  <1>1. rows \subseteq rows' /\ raced' = raced
    BY DEF People!CountBeforeDemote, People!CountBeforeRemove
  <1>2. CASE req' = [req EXCEPT ![r] = People!Idle]
    BY <1>1, <1>2, EndManaged
  <1>3. ASSUME People!MoreThanOneOwner, NEW pc \in PC, People!To(r, pc)
        PROVE  ManagedInv'
    <2>1. PICK c \in Change : req' = [req EXCEPT ![r] = c]
      BY <1>3, ToIs
    <2>2. \E m \in People!Owners : m.id # c.id
      BY <1>3, OtherOwner
    <2> QED BY <1>1, <2>1, <2>2, SameOwners, ManagedStep
  <1>4. "update" \in PC /\ "delete" \in PC
    BY DEF PC
  <1> QED BY <1>2, <1>3, <1>4 DEF People!CountBeforeDemote, People!CountBeforeRemove

\* A write that takes an owner's role or row: nobody else is about to, or it races.
LEMMA TakingManaged ==
  ASSUME RowsInv, ManagedInv, NEW r \in Request, NEW c \in Change, req' = [req EXCEPT ![r] = c],
         People!Takes(r), c.pc \notin {"update", "delete"}, raced' = (raced \/ People!Races(r)),
         \A m \in People!Owners : m.id # req[r].id => m \in People!Owners'
  PROVE  ManagedInv'
  <1>1. req'[r] = c /\ \A q \in Request \ {r} : req'[q] = req[q]
    BY OneCall DEF RowsInv
  <1>2. ~People!Takes(r)'
    BY <1>1 DEF People!Takes
  <1>3. CASE raced'
    BY <1>3 DEF ManagedInv
  <1>4. CASE \A m \in People!Owners : m.id # req[r].id
    <2>1. \A m \in People!Owners : \E n \in People!Owners' : n.id = m.id
      BY <1>4
    <2>2. raced' = raced
      BY <1>4 DEF People!Races, RowsInv, People!TypeOK
    <2> QED BY <1>2, <2>1, <2>2, ManagedStep
  <1>5. CASE ~raced' /\ \A q \in Request \ {r} : ~People!Takes(q)
    <2>1. \A q \in Request : ~People!Takes(q)'
      BY <1>1, <1>2, <1>5 DEF People!Takes
    <2>2. PICK m \in People!Owners : m.id # req[r].id
      BY <1>5 DEF ManagedInv
    <2> QED BY <2>1, <2>2 DEF ManagedInv
  <1> QED BY <1>3, <1>4, <1>5 DEF People!Races

LEMMA WriteRoleManaged ==
  ASSUME RowsInv, ManagedInv, NEW r \in Request, People!WriteRole(r)
  PROVE  ManagedInv'
  <1>1. req[r].pc = "update" /\ raced' = (raced \/ People!Races(r))
    BY DEF People!WriteRole
  <1>2. PICK c \in Change : c.pc = "idle" /\ req' = [req EXCEPT ![r] = c]
    BY IdleIsChange DEF People!WriteRole
  <1>3. rows' = {Written(m, req[r]) : m \in rows}
    BY DEF People!WriteRole, Written
  <1>4. ASSUME NEW m \in People!Owners, m.id # req[r].id
        PROVE  m \in People!Owners'
    <2>1. m \in rows /\ m.role = "owner"
      BY DEF People!Owners
    <2>2. Written(m, req[r]) = m
      BY <1>4, <2>1, WrittenIs
    <2> QED BY <1>3, <2>1, <2>2 DEF People!Owners
  <1>5. CASE People!Takes(r)
    BY <1>1, <1>2, <1>4, <1>5, TakingManaged
  <1>6. CASE ~People!Takes(r)
    <2>1. req[r].role = "owner" /\ raced' = raced
      BY <1>1, <1>6 DEF People!Takes, People!Races, RowsInv, People!TypeOK
    <2>2. ASSUME NEW m \in People!Owners
          PROVE  \E n \in People!Owners' : n.id = m.id
      <3>1. m \in rows /\ m.role = "owner"
        BY DEF People!Owners
      <3>2. /\ Written(m, req[r]) \in rows' /\ Written(m, req[r]).id = m.id
            /\ Written(m, req[r]).role = "owner"
        BY <1>3, <2>1, <3>1, WrittenIs
      <3> QED BY <3>2 DEF People!Owners
    <2>3. ~People!Takes(r)'
      BY <1>2, OneCall DEF RowsInv, People!Takes
    <2> QED BY <1>2, <2>1, <2>2, <2>3, ManagedStep
  <1> QED BY <1>5, <1>6

LEMMA DeleteMemberManaged ==
  ASSUME RowsInv, ManagedInv, NEW r \in Request, People!DeleteMember(r)
  PROVE  ManagedInv'
  <1>1. /\ People!Takes(r) /\ rows' = {m \in rows : m.id # req[r].id}
        /\ raced' = (raced \/ People!Races(r))
    BY DEF People!DeleteMember, People!Takes
  <1>2. PICK c \in Change : req' = [req EXCEPT ![r] = c] /\ c.pc = "profile"
    BY ToIs DEF People!DeleteMember, PC
  <1>3. \A m \in People!Owners : m.id # req[r].id => m \in People!Owners'
    BY <1>1 DEF People!Owners
  <1> QED BY <1>1, <1>2, <1>3, TakingManaged

LEMMA JoinsManaged ==
  ASSUME RowsInv, ManagedInv, NEW r \in Request,
         \/ \E a \in Account, role \in {"admin", "member"} : People!Join(r, a, role)
         \/ People!PickHandle(r) \/ People!InsertProfile(r) \/ People!InsertMember(r)
         \/ People!DeleteProfile(r) \/ People!Lose(r)
  PROVE  ManagedInv'
  <1>1. rows \subseteq rows' /\ raced' = raced
    BY DEF People!Join, People!PickHandle, People!InsertProfile, People!InsertMember,
           People!DeleteProfile, People!Lose
  <1>2. CASE \E a \in Account, role \in {"admin", "member"} : People!Join(r, a, role)
    BY <1>1, <1>2, JoinIs, OthersManaged
  <1>3. CASE People!PickHandle(r)
    BY <1>1, <1>3, PickIs, OthersManaged
  <1>4. CASE req' = [req EXCEPT ![r] = People!Idle]
    BY <1>1, <1>4, EndManaged
  <1>5. CASE People!To(r, "join")
    <2>1. "join" \in PC
      BY DEF PC
    <2> QED BY <1>1, <1>5, <2>1, ToIs, OthersManaged
  <1> QED BY <1>2, <1>3, <1>4, <1>5
          DEF People!InsertProfile, People!InsertMember, People!DeleteProfile, People!Lose

LEMMA FirstManaged ==
  ASSUME RowsInv, ManagedInv, NEW r \in Request, NEW by, NEW h \in People!Handle,
         People!Remove(r, by, h) \/ \E role \in People!Role : People!SetRole(r, by, h, role)
  PROVE  ManagedInv'
  <1>1. rows \subseteq rows' /\ raced' = raced
    BY DEF People!Remove, People!SetRole
  <1> QED BY <1>1, RemoveIs, SetRoleIs, OthersManaged

LEMMA ManagedNext ==
  ASSUME RowsInv, ManagedInv, People!Next
  PROVE  ManagedInv'
  <1>1. PICK r \in Request :
        \/ \E by, h \in People!Known : People!Remove(r, by, h) \/ \E role \in People!Role : People!SetRole(r, by, h, role)
        \/ People!ReadForRole(r) \/ People!CountBeforeDemote(r) \/ People!WriteRole(r)
        \/ People!ReadForRemoval(r) \/ People!CountBeforeRemove(r) \/ People!DeleteMember(r) \/ People!DeleteProfile(r)
        \/ \E a \in Account, role \in {"admin", "member"} : People!Join(r, a, role)
        \/ People!PickHandle(r) \/ People!InsertProfile(r) \/ People!InsertMember(r)
        \/ People!Lose(r)
    BY DEF People!Next
  <1>2. CASE \E by, h \in People!Known : People!Remove(r, by, h) \/ \E role \in People!Role : People!SetRole(r, by, h, role)
    BY <1>2, KnownIsHandle, FirstManaged
  <1> QED BY <1>1, <1>2, ReadsManaged, CountsManaged, WriteRoleManaged, DeleteMemberManaged, JoinsManaged

\* members.service.ts:78: however many manage the members at once, join or are
\* lost, the workspace keeps an owner, unless one call takes an owner while
\* another, past its count as well, is about to take one.
THEOREM OwnerStays == People!Spec => []OwnerUnlessRaced
  <1>1. ManagedInv /\ RowsInv /\ [People!Next]_(People!vars) => ManagedInv'
    <2> SUFFICES ASSUME ManagedInv, UNCHANGED People!vars PROVE ManagedInv'
      BY ManagedNext
    <2>1. UNCHANGED <<rows, profile, nextId, req, calm, raced>>
      BY DEF People!vars
    <2> QED BY <2>1 DEF ManagedInv, People!Takes, People!Owners
  <1>2. People!Init => ManagedInv
    <2> SUFFICES ASSUME People!Init PROVE ManagedInv
      OBVIOUS
    <2>1. PICK a \in Account :
            rows = {[id |-> 1, account |-> a, handle |-> <<Base[a], 1>>, role |-> "owner"]}
      BY DEF People!Init
    <2>2. \A r \in Request : ~People!Takes(r)
      BY DEF People!Init, People!Idle, People!Takes
    <2> DEFINE o == [id |-> 1, account |-> a, handle |-> <<Base[a], 1>>, role |-> "owner"]
    <2>3. o \in rows /\ o.role = "owner"
      BY <2>1
    <2> HIDE DEF o
    <2>4. People!Owners # {}
      BY <2>3 DEF People!Owners
    <2> QED BY <2>2, <2>4 DEF ManagedInv
  <1>3. ManagedInv => OwnerUnlessRaced
    BY DEF ManagedInv, OwnerUnlessRaced, People!OwnerUnlessRaced, People!OwnerRemains
  <1> QED BY <1>1, <1>2, <1>3, RowsInvariance, PTL DEF People!Spec

-----------------------------------------------------------------------------
(* ActionCards: what an execution has achieved so far, and who won. *)

\* A call at work on a card carries what it needs; one that is to mark a card
\* executed has made its resource; one that succeeded has marked its card.
CardProgress(r) ==
    /\ call[r].pc # "idle" => call[r].card \in Card /\ call[r].op \in {"execute", "dismiss"}
    /\ call[r].pc = "insert" => call[r].ref \in Cards!Resource
    /\ call[r].pc = "resolve" /\ call[r].op = "execute" => <<call[r].card, call[r].ref>> \in made
    /\ call[r].pc = "ok" => card[call[r].card].status \in {"executed", "dismissed"}
                           /\ card[call[r].card].by = r

CardsInv == Cards!TypeOK /\ Cards!ExecutedIsMade /\ Cards!NamesAreDistinct /\ \A r \in Caller : CardProgress(r)

\* Initially no card is there and no call.
LEMMA CardsInit == Cards!Init => CardsInv
  <1> SUFFICES ASSUME Cards!Init PROVE CardsInv
    OBVIOUS
  <1>1. Cards!TypeOK
    BY DEF Cards!Init, Cards!TypeOK, Cards!NoCard, Cards!Idle
  <1>2. Cards!ExecutedIsMade /\ Cards!NamesAreDistinct
    BY DEF Cards!Init, Cards!ExecutedIsMade, Cards!NamesAreDistinct, Cards!NoCard
  <1>3. \A r \in Caller : CardProgress(r)
    BY DEF Cards!Init, CardProgress, Cards!Idle
  <1> QED
    BY <1>1, <1>2, <1>3 DEF CardsInv

\* A call that goes from one step to the next, while cards and resources stay,
\* keeps the invariant if its new step asks for no more than it has.
LEMMA CardStepOnly ==
  ASSUME CardsInv, NEW r \in Caller,
         NEW pc \in {"get", "create", "resolve", "conflict", "lost"},
         call' = [call EXCEPT ![r].pc = pc], UNCHANGED <<card, made>>,
         call[r].pc # "idle",
         pc = "resolve" => call[r].op = "dismiss"
  PROVE  CardsInv'
  <1> USE DEF CardsInv
  <1>1. Cards!TypeOK'
    BY DEF Cards!TypeOK
  <1>2. (Cards!ExecutedIsMade /\ Cards!NamesAreDistinct)'
    BY DEF Cards!ExecutedIsMade, Cards!NamesAreDistinct
  <1>3. ASSUME NEW q \in Caller PROVE CardProgress(q)'
    <2>1. CASE q = r
      BY <2>1 DEF CardProgress, Cards!TypeOK
    <2>2. CASE q # r
      BY <2>2 DEF CardProgress, Cards!TypeOK
    <2> QED BY <2>1, <2>2
  <1> QED BY <1>1, <1>2, <1>3

LEMMA PrepareKeeps ==
  ASSUME CardsInv, NEW c \in Card, NEW k \in {"channel:create", "agent:create"}, NEW n \in Name,
         Cards!prepare(c, k, n)
  PROVE  CardsInv'
  <1> USE DEF CardsInv
  <1>1. card' = [card EXCEPT ![c] = [status |-> "pending", kind |-> k, name |-> n,
                                     by |-> None, resultRef |-> None]]
    BY DEF Cards!prepare
  <1>2. Cards!TypeOK'
    BY <1>1 DEF Cards!TypeOK, Cards!prepare
  <1>3. (Cards!ExecutedIsMade /\ Cards!NamesAreDistinct)'
    BY <1>1 DEF Cards!ExecutedIsMade, Cards!NamesAreDistinct, Cards!prepare, Cards!TypeOK
  <1>4. ASSUME NEW q \in Caller PROVE CardProgress(q)'
    BY <1>1 DEF CardProgress, Cards!TypeOK, Cards!prepare
  <1> QED BY <1>2, <1>3, <1>4

LEMMA CardCallKeeps ==
  ASSUME CardsInv, NEW r \in Caller, NEW op \in {"execute", "dismiss"}, NEW c \in Card, Cards!Call(r, op, c)
  PROVE  CardsInv'
  <1> USE DEF CardsInv
  <1>1. Cards!TypeOK'
    BY DEF Cards!TypeOK, Cards!Call
  <1>2. (Cards!ExecutedIsMade /\ Cards!NamesAreDistinct)'
    BY DEF Cards!ExecutedIsMade, Cards!NamesAreDistinct, Cards!Call
  <1>3. ASSUME NEW q \in Caller PROVE CardProgress(q)'
    <2>1. CASE q = r
      BY <2>1 DEF CardProgress, Cards!TypeOK, Cards!Call
    <2>2. CASE q # r
      BY <2>2 DEF CardProgress, Cards!TypeOK, Cards!Call
    <2> QED BY <2>1, <2>2
  <1> QED BY <1>1, <1>2, <1>3

LEMMA CreateKeeps ==
  ASSUME CardsInv, NEW r \in Caller, NEW x \in Cards!Resource, Cards!Create(r, x)
  PROVE  CardsInv'
  <1> USE DEF CardsInv
  <1>1. call' = [call EXCEPT ![r].pc = "insert", ![r].ref = x] /\ UNCHANGED <<card, made>> /\ call[r].pc = "create"
    BY DEF Cards!Create
  <1>2. Cards!TypeOK'
    BY ZenonT(30), <1>1 DEF Cards!TypeOK
  <1>3. (Cards!ExecutedIsMade /\ Cards!NamesAreDistinct)'
    BY <1>1 DEF Cards!ExecutedIsMade, Cards!NamesAreDistinct
  <1>4. ASSUME NEW q \in Caller PROVE CardProgress(q)'
    <2>1. CASE q = r
      <3>1. call'[r].pc = "insert" /\ call'[r].ref = x /\ call'[r].card = call[r].card /\ call'[r].op = call[r].op
        BY <1>1 DEF Cards!TypeOK
      <3>2. call[r].card \in Card /\ call[r].op \in {"execute", "dismiss"}
        BY <1>1 DEF CardProgress
      <3> QED
        BY <2>1, <3>1, <3>2 DEF CardProgress
    <2>2. CASE q # r
      BY <1>1, <2>2 DEF CardProgress, Cards!TypeOK
    <2> QED BY <2>1, <2>2
  <1> QED BY <1>2, <1>3, <1>4

\* A resource that is inserted has a name that was free.
LEMMA InsertKeeps ==
  ASSUME CardsInv, NEW r \in Caller, Cards!Insert(r)
  PROVE  CardsInv'
  <1> USE DEF CardsInv
  <1>1. CASE Cards!Taken(call[r].ref)
    BY <1>1, CardStepOnly DEF Cards!Insert, Cards!To
  <1>2. CASE ~Cards!Taken(call[r].ref)
    <2>1. call' = [call EXCEPT ![r].pc = "resolve"] /\ UNCHANGED card
          /\ made' = made \cup {<<call[r].card, call[r].ref>>} /\ call[r].pc = "insert"
      BY <1>2 DEF Cards!Insert, Cards!To
    <2>2. call[r].card \in Card /\ call[r].ref \in Cards!Resource
      BY <2>1 DEF CardProgress
    <2>3. Cards!TypeOK'
      BY SMTT(30), <2>1, <2>2 DEF Cards!TypeOK
    <2>4. Cards!ExecutedIsMade'
      BY <2>1 DEF Cards!ExecutedIsMade
    <2>5. Cards!NamesAreDistinct'
      BY <1>2, <2>1 DEF Cards!NamesAreDistinct, Cards!Taken
    <2>6. ASSUME NEW q \in Caller PROVE CardProgress(q)'
      <3>1. CASE q = r
        <4>1. call'[r].pc = "resolve" /\ call'[r].card = call[r].card /\ call'[r].ref = call[r].ref
              /\ call'[r].op = call[r].op
          BY <2>1 DEF Cards!TypeOK
        <4>2. <<call'[r].card, call'[r].ref>> \in made'
          BY <2>1, <4>1
        <4> QED
          BY ZenonT(30), <2>1, <3>1, <4>1, <4>2 DEF CardProgress
      <3>2. CASE q # r
        BY <2>1, <3>2 DEF CardProgress, Cards!TypeOK
      <3> QED BY <3>1, <3>2
    <2> QED BY <2>3, <2>4, <2>5, <2>6
  <1> QED BY <1>1, <1>2

\* A card that is marked was pending, so no call that succeeded before had it.
LEMMA ResolveKeeps ==
  ASSUME CardsInv, NEW r \in Caller, Cards!resolve(r)
  PROVE  CardsInv'
  <1> USE DEF CardsInv
  <1>1. CASE ~Cards!StillPending(call[r].card)
    BY <1>1, CardStepOnly DEF Cards!resolve, Cards!To
  <1>2. CASE Cards!StillPending(call[r].card)
    <2>1. call[r].card \in Card /\ call[r].op \in {"execute", "dismiss"} /\ call[r].pc = "resolve"
      BY DEF CardProgress, Cards!resolve
    <2>2. PICK c \in Card : c = call[r].card
      BY <2>1
    <2>3. PICK st \in {"executed", "dismissed"} : st = Cards!Mark(call[r].op)
      BY DEF Cards!Mark
    <2>4. PICK ref : ref = call[r].ref
      OBVIOUS
    <2>5. /\ card' = [card EXCEPT ![c] = [card[c] EXCEPT !.status = st, !.by = r, !.resultRef = ref]]
          /\ call' = [call EXCEPT ![r].pc = "ok"] /\ made' = made
          /\ card[c].status = "pending" /\ ref \in Cards!Resource \cup {None}
      BY <1>2, <2>2, <2>3, <2>4 DEF Cards!resolve, Cards!StillPending, Cards!To, Cards!TypeOK
    <2>6. Cards!TypeOK'
      <3>1. [card[c] EXCEPT !.status = st, !.by = r, !.resultRef = ref] \in
              [status : {"none", "pending", "executed", "dismissed"},
               kind : {None, "channel:create", "agent:create"}, name : Name \cup {None},
               by : Caller \cup {None}, resultRef : Cards!Resource \cup {None}]
        BY ZenonT(30), <2>5 DEF Cards!TypeOK
      <3>2. card' \in [Card -> [status : {"none", "pending", "executed", "dismissed"},
                   kind : {None, "channel:create", "agent:create"}, name : Name \cup {None},
                   by : Caller \cup {None}, resultRef : Cards!Resource \cup {None}]]
        BY <2>5, <3>1 DEF Cards!TypeOK
      <3>3. call' \in [Caller -> [pc : {"idle", "get", "create", "insert", "resolve", "ok", "conflict", "lost"},
                   op : {None, "execute", "dismiss"}, card : Card \cup {None}, ref : Cards!Resource \cup {None}]]
        BY SMTT(30), <2>5 DEF Cards!TypeOK
      <3> QED
        BY <2>5, <3>2, <3>3 DEF Cards!TypeOK
    <2>7. Cards!ExecutedIsMade'
      BY <2>1, <2>2, <2>3, <2>4, <2>5 DEF Cards!ExecutedIsMade, CardProgress, Cards!Mark, Cards!TypeOK
    <2>8. Cards!NamesAreDistinct'
      BY <2>5 DEF Cards!NamesAreDistinct
    <2>9. ASSUME NEW q \in Caller PROVE CardProgress(q)'
      <3>1. CASE q = r
        BY <2>1, <2>2, <2>5, <3>1 DEF CardProgress, Cards!TypeOK
      <3>2. CASE q # r
        <4>1. call'[q] = call[q] /\ call[q] \in [pc : {"idle", "get", "create", "insert", "resolve", "ok", "conflict", "lost"},
                            op : {None, "execute", "dismiss"}, card : Card \cup {None},
                            ref : Cards!Resource \cup {None}]
          BY <2>5, <3>2 DEF Cards!TypeOK
        <4>2. call[q].pc = "ok" => call[q].card # c
          BY <2>5 DEF CardProgress
        <4>3. call[q].pc = "ok" => card'[call[q].card] = card[call[q].card]
          BY <2>5, <4>2 DEF Cards!TypeOK, CardProgress
        <4> QED
          BY <2>5, <4>1, <4>3 DEF CardProgress
      <3> QED BY <3>1, <3>2
    <2> QED BY <2>6, <2>7, <2>8, <2>9
  <1> QED BY <1>1, <1>2

LEMMA CardsNext == CardsInv /\ [Cards!Next]_(Cards!vars) => CardsInv'
  <1> SUFFICES ASSUME CardsInv, [Cards!Next]_(Cards!vars) PROVE CardsInv'
    OBVIOUS
  <1>1. ASSUME NEW c \in Card, NEW k \in {"channel:create", "agent:create"}, NEW n \in Name, Cards!prepare(c, k, n)
        PROVE CardsInv'
    BY <1>1, PrepareKeeps
  <1>2. ASSUME NEW r \in Caller, NEW op \in {"execute", "dismiss"}, NEW c \in Card, Cards!Call(r, op, c)
        PROVE CardsInv'
    BY <1>2, CardCallKeeps
  <1>3. ASSUME NEW r \in Caller, Cards!Get(r) PROVE CardsInv'
    BY <1>3, CardStepOnly DEF Cards!Get, Cards!To
  <1>4. ASSUME NEW r \in Caller, NEW x \in Cards!Resource, Cards!Create(r, x) PROVE CardsInv'
    BY <1>4, CreateKeeps
  <1>5. ASSUME NEW r \in Caller, Cards!Insert(r) PROVE CardsInv'
    BY <1>5, InsertKeeps
  <1>6. ASSUME NEW r \in Caller, Cards!resolve(r) PROVE CardsInv'
    BY <1>6, ResolveKeeps
  <1>7. ASSUME NEW r \in Caller, Cards!Lose(r) PROVE CardsInv'
    BY <1>7, CardStepOnly DEF Cards!Lose, Cards!To
  <1>8. CASE UNCHANGED Cards!vars
    BY <1>8 DEF Cards!vars, CardsInv, Cards!TypeOK, Cards!ExecutedIsMade, Cards!NamesAreDistinct, CardProgress
  <1> QED
    BY <1>1, <1>2, <1>3, <1>4, <1>5, <1>6, <1>7, <1>8 DEF Cards!Next

\* The invariant holds of every behaviour, for any cards, calls and names.
THEOREM CardsInvariance == Cards!Spec => []CardsInv
  BY CardsInit, CardsNext, PTL DEF Cards!Spec

\* Every value is of its type.
THEOREM CardsTypeOK == Cards!Spec => []Cards!TypeOK
  BY CardsInvariance, PTL DEF CardsInv

\* Of all calls on a card one succeeds, whichever way they interleave.
THEOREM Winner == Cards!Spec => []OneWinner
  <1>1. CardsInv => OneWinner
    BY DEF CardsInv, OneWinner, Cards!OneWinner, CardProgress
  <1> QED
    BY <1>1, CardsInvariance, PTL

\* An executed card names a resource that was created for it.
THEOREM Made == Cards!Spec => []ExecutedIsMade
  BY CardsInvariance, PTL DEF CardsInv, ExecutedIsMade

\* No two resources have one name, though each is looked up before it is
\* inserted.
THEOREM Distinct == Cards!Spec => []Cards!NamesAreDistinct
  BY CardsInvariance, PTL DEF CardsInv

\* A card that is executed or dismissed stays as it is.
THEOREM Final == Cards!Spec => Cards!ResolvedIsFinal
  <1>1. CardsInv /\ [Cards!Next]_(Cards!vars) => [\A c \in Card : card[c].status \in {"executed", "dismissed"} => card'[c] = card[c]]_(Cards!vars)
    <2> SUFFICES ASSUME CardsInv, Cards!Next, NEW c \in Card, card[c].status \in {"executed", "dismissed"}
                 PROVE  card'[c] = card[c]
      OBVIOUS
    <2>1. ASSUME NEW d \in Card, NEW k \in {"channel:create", "agent:create"}, NEW n \in Name, Cards!prepare(d, k, n)
          PROVE card'[c] = card[c]
      BY <2>1 DEF Cards!prepare, CardsInv, Cards!TypeOK
    <2>2. ASSUME NEW r \in Caller, Cards!resolve(r) PROVE card'[c] = card[c]
      <3>1. CASE ~Cards!StillPending(call[r].card)
        BY <2>2, <3>1 DEF Cards!resolve
      <3>2. CASE Cards!StillPending(call[r].card)
        <4>1. call[r].card # c
          BY <3>2 DEF Cards!StillPending
        <4> QED
          BY <2>2, <4>1 DEF Cards!resolve, CardsInv, Cards!TypeOK
      <3> QED BY <3>1, <3>2
    <2>3. ASSUME NEW r \in Caller,
                 \/ \E op \in {"execute", "dismiss"}, d \in Card : Cards!Call(r, op, d)
                 \/ Cards!Get(r) \/ Cards!Insert(r) \/ Cards!Lose(r)
                 \/ \E x \in Cards!Resource : Cards!Create(r, x)
          PROVE card'[c] = card[c]
      BY <2>3 DEF Cards!Call, Cards!Get, Cards!Insert, Cards!Lose, Cards!Create
    <2> QED
      BY <2>1, <2>2, <2>3 DEF Cards!Next
  <1> QED
    BY <1>1, CardsInvariance, PTL DEF Cards!Spec, Cards!ResolvedIsFinal

\* action.service.ts:65, auth/service.ts:328: the name of a channel and the
\* account of a membership are looked up in one statement and inserted in a later
\* one; however calls of both kinds overlap, no two rows share one.
THEOREM KeysStayUnique == Cards!Spec /\ People!Spec => []KeysDiffer
  BY Distinct, OneMembershipEach, PTL DEF KeysDiffer
=============================================================================
