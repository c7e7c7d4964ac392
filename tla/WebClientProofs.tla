-------------------------- MODULE WebClientProofs --------------------------
(***************************************************************************)
(* Proofs about WebClient, for any channels, requests and loads.           *)
(*                                                                         *)
(* The page need not show what the server has, but what it does not show,  *)
(* and is not excused for, is due: a load under way will store it, an      *)
(* event on the socket starts one that will, or a request being served has *)
(* yet to tell of it or is answered by a load.  The rest of the invariant  *)
(* says why nothing that is due gets lost: a request covers itself, and a  *)
(* load never holds what the server did not have.                          *)
(***************************************************************************)
EXTENDS WebClient, SequenceTheorems, TLAPS

Shown == List \union {"page"}

\* What a job brings to the page, and what a set of them does.
Contents(job) == IF job = <<"page">> THEN {"page", "info"} ELSE Range(job)
Brought(jobs) == {x \in Shown : \E job \in jobs : x \in Contents(job)}

\* What an event is about.  The page fetches that, and sometimes more.
Says(type) == IF type \in {"task.updated", "reaction.updated"} THEN {"page"}
              ELSE Brought(Refresh(type))

\* The events that the stages from the i-th on emit, and what these say.
TypesFrom(stages, i) ==
    {type \in EventType : \E j \in DOMAIN stages :
                              j >= i /\ \E n \in DOMAIN stages[j].events : stages[j].events[n] = type}
Told(stages, i) == {x \in Shown : \E type \in TypesFrom(stages, i) : x \in Says(type)}

\* What a change is seen in while its channel is shown.
SeenIn(touches) == {x \in Shown : \/ x \in touches
                                  \/ x = "info" /\ "log" \in touches
                                  \/ x = "page" /\ touches \intersect Column # {}}

\* What a request changes it tells of, at once or in a later stage; if it tells
\* nothing, the page that made it fetches what it changed.
CoversAt(stages, then, i) ==
    IF TypesFrom(stages, i) # {} THEN SeenIn(stages[i].touches) \subseteq Told(stages, i)
    ELSE then = {} \/ SeenIn(stages[i].touches) \subseteq Brought(then)
CoversItself(stages, then) == \A i \in DOMAIN stages : CoversAt(stages, then, i)

Touch == Column \union List \union {"out"}
StageRec == [touches : {t \in SUBSET Touch : "out" \in t => "info" \in t}, events : Seq(EventType)]

CallRec == [pc : {"run", "emit", "done"}, stages : Seq(StageRec), ch : Channel, then : SUBSET Job]
CallInv(call) ==
    \/ call = Idle
    \/ /\ call \in CallRec
       /\ call.pc = "done" <=> call.stages = << >>
       /\ CoversItself(call.stages, call.then)

Todo == {<<"info">>, <<"machines">>, <<"actions">>, <<"machines", "info">>}
Got == UNION {[ks -> Nat] : ks \in SUBSET Column}
ListState == [ver : Nat \union {-1}, log : [Channel -> Nat], cursor : [Channel -> Nat]]
GetRec == [pc : {"get"}, ch : Channel, got : Got]
MarkRec == [pc : {"mark"}, ch : Channel, upTo : Nat]
ListRec == [pc : {"list"}, todo : Todo]
ListedRec == [pc : {"listed"}, todo : Todo, answer : ListState]
LoadRec == GetRec \union MarkRec \union ListRec \union ListedRec

TypeInv ==
    /\ at \in [Channel -> [Column -> Nat]]
    /\ version \in [List -> Nat]
    /\ cursor \in [Channel -> Nat]
    /\ calls \in [Request -> CallRec \union {Idle}]
    /\ conn \in {"down", "opening", "up"}
    /\ events \in Seq([type : EventType, ch : Channel])
    /\ selected \in Channel \union {None}
    /\ page \in [ch : Channel \union {None}, at : [Column -> Nat]]
    /\ shown \in [List -> ListState]
    /\ DOMAIN loads \subseteq LoadRec /\ loads \in [DOMAIN loads -> Nat \ {0}]
    /\ excused \subseteq Thing

\* A load holds what the server has, or had.
Behind(a, b) ==
    \/ a.ver < b.ver
    \/ a.ver = b.ver /\ \A c \in Channel : a.log[c] <= b.log[c] /\ a.cursor[c] <= b.cursor[c]
LoadInv(l) ==
    /\ l.pc = "get" => \A k \in DOMAIN l.got : l.got[k] <= at[l.ch][k]
    /\ l.pc = "listed" => Behind(l.answer, Now(Head(l.todo)))

\* A load that will bring x as the server has it now.
Brings(l, x) ==
    \/ l.pc = "list" /\ x \in Range(l.todo)
    \/ l.pc = "listed" /\ ((x = Head(l.todo) /\ l.answer = Now(x)) \/ x \in Range(Tail(l.todo)))
    \/ l.pc = "mark" /\ x = "info"
    \/ /\ l.pc = "get" /\ l.ch = selected
       /\ x = "info" \/ (x = "page" /\ \A k \in DOMAIN l.got : l.got[k] = at[l.ch][k])

\* The page is told of the channel that is selected only.
Concerns(x, ch) == x = "page" => ch = selected

Fetched(x) == \E l \in DOMAIN loads : Brings(l, x)
Signalled(x) == \E i \in DOMAIN events : x \in Says(events[i].type) /\ Concerns(x, events[i].ch)
PromisedBy(call, x) == /\ x \in Brought(call.then) \/ x \in Told(call.stages, 1)
                       /\ Concerns(x, call.ch)
Promised(x) == \E r \in Request : PromisedBy(calls[r], x)
Due(x) == Fetched(x) \/ Signalled(x) \/ Promised(x)

\* A load that is about to mark the selected channel read to its end.
MarkDue == \E l \in DOMAIN loads : /\ l.pc = "mark" /\ l.ch = selected
                                   /\ l.upTo = at[selected]["log"]

ListInv == \A x \in List \ excused : shown[x] = Now(x) \/ Due(x)
PageInv == selected # None /\ "page" \notin excused
              => page = [ch |-> selected, at |-> at[selected]] \/ Due("page")
ReadInv == selected # None /\ excused \intersect {"page", "read"} = {}
              => at[selected]["log"] <= cursor[selected] \/ Due("page") \/ MarkDue

IInv == /\ TypeInv
        /\ \A r \in Request : CallInv(calls[r])
        /\ \A l \in DOMAIN loads : LoadInv(l)
        /\ ListInv
        /\ PageInv
        /\ ReadInv

-----------------------------------------------------------------------------
(* What is fetched.                                                        *)

LEMMA ContentsOfJobs ==
  /\ Contents(<<"page">>) = {"page", "info"}
  /\ Contents(<<"info">>) = {"info"}
  /\ Contents(<<"machines">>) = {"machines"}
  /\ Contents(<<"actions">>) = {"actions"}
  /\ Contents(<<"machines", "info">>) = {"machines", "info"}
  BY DEF Contents, Range

LEMMA SaysByType ==
  /\ Says("message.created") = {"page", "info"}
  /\ Says("task.updated") = {"page"} /\ Says("reaction.updated") = {"page"}
  /\ Says("action.prepared") = {"actions"}
  /\ Says("action.updated") = {"actions", "info"}
  /\ Says("machine.updated") = {"machines", "info"}
  /\ \A type \in EventType : Says(type) \subseteq Brought(Refresh(type))
  <1>1. \A type \in {"message.created", "task.updated", "reaction.updated"} : Refresh(type) = {<<"page">>}
    BY DEF Refresh
  <1>2. /\ Refresh("action.prepared") = {<<"actions">>}
        /\ Refresh("action.updated") = {<<"actions">>, <<"info">>}
        /\ Refresh("machine.updated") = {<<"machines">>, <<"info">>}
    BY DEF Refresh
  <1>3. Brought({<<"page">>}) = {"page", "info"}
    BY ContentsOfJobs DEF Brought, Shown, List
  <1>4. /\ Says("message.created") = {"page", "info"}
        /\ Says("task.updated") = {"page"} /\ Says("reaction.updated") = {"page"}
    BY <1>1, <1>3 DEF Says
  <1>5. /\ Says("action.prepared") = {"actions"}
        /\ Says("action.updated") = {"actions", "info"}
        /\ Says("machine.updated") = {"machines", "info"}
    BY <1>2, ContentsOfJobs DEF Says, Brought, Shown, List
  <1>6. \A type \in EventType : Says(type) \subseteq Brought(Refresh(type))
    BY <1>1, <1>3 DEF Says
  <1> QED BY <1>4, <1>5, <1>6

LEMMA NothingBrought == Brought({}) = {}
  BY DEF Brought

-----------------------------------------------------------------------------
(* The stages of a request.                                                *)

\* What the stages after the first tell is told by the rest.
LEMMA TailTells ==
  ASSUME NEW s \in Seq(StageRec), s # << >>, NEW i \in DOMAIN Tail(s)
  PROVE  /\ i + 1 \in DOMAIN s /\ Tail(s)[i] = s[i + 1]
         /\ TypesFrom(Tail(s), i) = TypesFrom(s, i + 1)
  <1>1. /\ Len(Tail(s)) = Len(s) - 1 /\ Len(s) \in Nat
        /\ DOMAIN s = 1 .. Len(s) /\ DOMAIN Tail(s) = 1 .. Len(s) - 1
        /\ \A j \in DOMAIN Tail(s) : Tail(s)[j] = s[j + 1]
    OBVIOUS
  <1>2. i \in Int /\ i >= 1
    BY <1>1
  <1>3. ASSUME NEW type \in TypesFrom(Tail(s), i) PROVE type \in TypesFrom(s, i + 1)
    <2>1. PICK j \in DOMAIN Tail(s) :
              j >= i /\ \E n \in DOMAIN Tail(s)[j].events : Tail(s)[j].events[n] = type
      BY DEF TypesFrom
    <2>2. j + 1 \in DOMAIN s /\ j + 1 >= i + 1 /\ Tail(s)[j] = s[j + 1]
      BY <1>1, <1>2, <2>1
    <2> QED BY <2>1, <2>2 DEF TypesFrom
  <1>4. ASSUME NEW type \in TypesFrom(s, i + 1) PROVE type \in TypesFrom(Tail(s), i)
    <2>1. PICK j \in DOMAIN s :
              j >= i + 1 /\ \E n \in DOMAIN s[j].events : s[j].events[n] = type
      BY DEF TypesFrom
    <2>2. j - 1 \in DOMAIN Tail(s) /\ j - 1 >= i /\ Tail(s)[j - 1] = s[j]
      BY <1>1, <1>2, <2>1
    <2> QED BY <2>1, <2>2 DEF TypesFrom
  <1> QED BY <1>1, <1>2, <1>3, <1>4

\* The events of the first stage, and those of the rest.
LEMMA TypesOfStages ==
  ASSUME NEW s \in Seq(StageRec), s # << >>
  PROVE  TypesFrom(s, 1) = Range(Head(s).events) \union TypesFrom(Tail(s), 1)
  <1>1. /\ Len(Tail(s)) = Len(s) - 1 /\ Len(s) \in Nat /\ Len(s) >= 1
        /\ DOMAIN s = 1 .. Len(s) /\ DOMAIN Tail(s) = 1 .. Len(s) - 1
        /\ \A j \in DOMAIN Tail(s) : Tail(s)[j] = s[j + 1]
        /\ Head(s) = s[1]
    OBVIOUS
  <1>0. Head(s).events \in Seq(EventType)
    <2>1. Head(s) \in StageRec
      OBVIOUS
    <2> QED BY <2>1 DEF StageRec
  <1>2. Range(Head(s).events) \subseteq EventType
    BY <1>0 DEF Range
  <1>3. ASSUME NEW type \in TypesFrom(s, 1) PROVE type \in Range(Head(s).events) \union TypesFrom(Tail(s), 1)
    <2>1. PICK j \in DOMAIN s : \E n \in DOMAIN s[j].events : s[j].events[n] = type
      BY DEF TypesFrom
    <2>2. CASE j = 1
      BY <1>1, <2>1, <2>2 DEF Range
    <2>3. CASE j # 1
      <3>1. j - 1 \in DOMAIN Tail(s) /\ j - 1 >= 1 /\ Tail(s)[j - 1] = s[j]
        BY <1>1, <2>3
      <3> QED BY <2>1, <3>1 DEF TypesFrom
    <2> QED BY <2>2, <2>3
  <1>4. ASSUME NEW type \in Range(Head(s).events) PROVE type \in TypesFrom(s, 1)
    <2>1. 1 \in DOMAIN s /\ 1 >= 1 /\ \E n \in DOMAIN s[1].events : s[1].events[n] = type
      BY <1>1, <1>4 DEF Range
    <2> QED BY <1>2, <2>1 DEF TypesFrom
  <1>5. ASSUME NEW type \in TypesFrom(Tail(s), 1) PROVE type \in TypesFrom(s, 1)
    <2>1. PICK j \in DOMAIN Tail(s) : \E n \in DOMAIN Tail(s)[j].events : Tail(s)[j].events[n] = type
      BY <1>5 DEF TypesFrom
    <2>2. j + 1 \in DOMAIN s /\ j + 1 >= 1 /\ Tail(s)[j] = s[j + 1]
      BY <1>1, <2>1
    <2> QED BY <2>1, <2>2 DEF TypesFrom
  <1> QED BY <1>3, <1>4, <1>5

LEMMA ToldIsBrought ==
  ASSUME NEW s \in Seq(StageRec), s # << >>, NEW x
  PROVE  x \in Told(s, 1) <=>
            \/ \E n \in DOMAIN Head(s).events : x \in Says(Head(s).events[n])
            \/ x \in Told(Tail(s), 1)
  BY TypesOfStages DEF Told, Range, Says, Brought, Shown

LEMMA NothingTold == TypesFrom(<< >>, 1) = {} /\ Told(<< >>, 1) = {}
  BY DEF TypesFrom, Told

\* A request covers itself if the first stage is covered and the rest does.
LEMMA RestCovers ==
  ASSUME NEW s \in Seq(StageRec), s # << >>, NEW then, CoversItself(s, then)
  PROVE  CoversItself(Tail(s), then)
  <1> SUFFICES ASSUME NEW i \in DOMAIN Tail(s) PROVE CoversAt(Tail(s), then, i)
    BY DEF CoversItself
  <1>1. CoversAt(s, then, i + 1)
    BY TailTells DEF CoversItself
  <1> QED BY <1>1, TailTells DEF CoversAt, Told

LEMMA FirstCovers ==
  ASSUME NEW s \in Seq(StageRec), s # << >>, NEW then,
         CoversAt(s, then, 1), CoversItself(Tail(s), then)
  PROVE  CoversItself(s, then)
  <1> SUFFICES ASSUME NEW i \in DOMAIN s, i # 1 PROVE CoversAt(s, then, i)
    BY DEF CoversItself
  <1>1. i - 1 \in DOMAIN Tail(s) /\ i - 1 + 1 = i
    OBVIOUS
  <1>2. /\ Tail(s)[i - 1] = s[i] /\ TypesFrom(Tail(s), i - 1) = TypesFrom(s, i)
    BY <1>1, TailTells
  <1>3. CoversAt(Tail(s), then, i - 1)
    BY <1>1 DEF CoversItself
  <1> QED BY <1>2, <1>3 DEF CoversAt, Told

LEMMA DisownedCovers ==
  ASSUME NEW s, NEW then, CoversItself(s, then)
  PROVE  CoversItself(s, {})
  BY DEF CoversItself, CoversAt

\* A stage that is the last, and one that others follow.
LEMMA OneStage ==
  ASSUME NEW t, NEW es, [touches |-> t, events |-> es] \in StageRec, NEW then,
         IF es # << >>
         THEN \A x \in SeenIn(t) : \E n \in DOMAIN es : x \in Says(es[n])
         ELSE then = {} \/ SeenIn(t) \subseteq Brought(then)
  PROVE  Stage(t, es) \in Seq(StageRec) \ {<< >>} /\ CoversItself(Stage(t, es), then)
  <1> DEFINE st == [touches |-> t, events |-> es]
             q == Stage(t, es)
  <1>0. es \in Seq(EventType)
    BY DEF StageRec
  <1>1. q = <<st>> /\ st \in StageRec /\ st.touches = t /\ st.events = es
    BY DEF Stage
  <1> HIDE DEF st, q
  <1>2. q \in Seq(StageRec) /\ q # << >> /\ Tail(q) = << >> /\ Head(q) = st /\ q[1] = st
    BY <1>1
  <1>3. TypesFrom(q, 1) = Range(es)
    BY <1>1, <1>2, TypesOfStages, NothingTold
  <1>4. CoversAt(q, then, 1)
    <2>1. CASE es = << >>
      BY <1>1, <1>2, <1>3, <2>1 DEF CoversAt, Range
    <2>2. CASE es # << >>
      <3>1. Range(es) # {}
        BY <1>0, <2>2 DEF Range
      <3>2. SeenIn(t) \subseteq Told(q, 1)
        BY <1>1, <1>2, <2>2, ToldIsBrought
      <3> QED BY <1>1, <1>2, <1>3, <3>1, <3>2 DEF CoversAt
    <2> QED BY <2>1, <2>2
  <1>5. CoversItself(Tail(q), then)
    BY <1>2 DEF CoversItself
  <1>6. CoversItself(q, then)
    BY <1>2, <1>4, <1>5, FirstCovers
  <1> QED BY <1>2, <1>6 DEF q

LEMMA MoreStages ==
  ASSUME NEW t, NEW es, [touches |-> t, events |-> es] \in StageRec, NEW then,
         NEW s \in Seq(StageRec), CoversItself(s, then),
         es # << >> \/ TypesFrom(s, 1) # {},
         \A x \in SeenIn(t) : \/ \E n \in DOMAIN es : x \in Says(es[n])
                             \/ x \in Told(s, 1)
  PROVE  /\ Stage(t, es) \o s \in Seq(StageRec) \ {<< >>}
         /\ CoversItself(Stage(t, es) \o s, then)
  <1> DEFINE st == [touches |-> t, events |-> es]
             q == Stage(t, es) \o s
  <1>0. es \in Seq(EventType)
    BY DEF StageRec
  <1>1. q = <<st>> \o s /\ st \in StageRec /\ st.touches = t /\ st.events = es
    BY DEF Stage
  <1> HIDE DEF st, q
  <1>2. q \in Seq(StageRec) /\ q # << >> /\ Tail(q) = s /\ Head(q) = st /\ q[1] = st
    BY <1>1
  <1>3. TypesFrom(q, 1) = Range(es) \union TypesFrom(s, 1)
    BY <1>1, <1>2, TypesOfStages
  <1>4. TypesFrom(q, 1) # {}
    <2>1. es # << >> => 1 \in DOMAIN es
      BY <1>0
    <2> QED BY <1>3, <2>1 DEF Range
  <1>5. SeenIn(t) \subseteq Told(q, 1)
    BY <1>1, <1>2, ToldIsBrought
  <1>6. CoversAt(q, then, 1)
    BY <1>1, <1>2, <1>4, <1>5 DEF CoversAt
  <1>7. CoversItself(q, then)
    BY <1>2, <1>6, FirstCovers
  <1> QED BY <1>2, <1>7 DEF q

-----------------------------------------------------------------------------
(* The requests of Routes.                                                 *)

LEMMA Seen ==
  /\ SeenIn({"log"}) = {"page", "info"}
  /\ SeenIn({"marks"}) = {"page"} /\ SeenIn({"board"}) = {"page"}
  /\ SeenIn({"info"}) = {"info"} /\ SeenIn({"info", "out"}) = {"info"}
  /\ SeenIn({"actions"}) = {"actions"} /\ SeenIn({"machines"}) = {"machines"}
  /\ SeenIn({"machines", "info"}) = {"machines", "info"}
  BY DEF SeenIn, Shown, List, Column

LEMMA BroughtByThen ==
  /\ Brought({<<"page">>}) = {"page", "info"} /\ Brought({<<"info">>}) = {"info"}
  /\ Brought({<<"actions">>}) = {"actions"} /\ Brought({<<"machines">>}) = {"machines"}
  /\ Brought({<<"machines", "info">>}) = {"machines", "info"}
  BY ContentsOfJobs DEF Brought, Shown, List

IsCovered(route, then) == route \in Seq(StageRec) \ {<< >>} /\ CoversItself(route, then)

LEMMA SingleStages ==
  /\ \A then : /\ IsCovered(Posted, then) /\ IsCovered(React, then) /\ IsCovered(OnTask, then)
               /\ IsCovered(PrepareAction, then) /\ IsCovered(DismissAction, then)
               /\ IsCovered(MachineStatus, then)
  /\ \A then \in {{}, {<<"page">>}} : IsCovered(Save, then) /\ IsCovered(UploadAttachment, then)
  /\ \A then \in {{}, {<<"info">>}} : /\ IsCovered(JoinChannel, then) /\ IsCovered(LeaveChannel, then)
                                      /\ IsCovered(Directory, then)
  /\ \A then \in {{}, {<<"machines">>}} : IsCovered(CreateMachine, then)
  /\ \A then \in {{}, {<<"machines", "info">>}} : IsCovered(DeleteMachine, then)
  <1>1. ASSUME NEW t \in SUBSET Touch, "out" \in t => "info" \in t, NEW type \in EventType,
               SeenIn(t) \subseteq Says(type), NEW then
        PROVE  IsCovered(Stage(t, <<type>>), then)
    <2>1. [touches |-> t, events |-> <<type>>] \in StageRec
      BY <1>1 DEF StageRec
    <2>2. <<type>> # << >> /\ \A x \in SeenIn(t) : \E n \in DOMAIN <<type>> : x \in Says(<<type>>[n])
      BY <1>1
    <2> QED BY <2>1, <2>2, OneStage DEF IsCovered
  <1>2. ASSUME NEW t \in SUBSET Touch, "out" \in t => "info" \in t, NEW then,
               then = {} \/ SeenIn(t) \subseteq Brought(then)
        PROVE  IsCovered(Stage(t, << >>), then)
    <2>1. [touches |-> t, events |-> << >>] \in StageRec
      BY <1>2 DEF StageRec
    <2> QED BY <1>2, <2>1, OneStage DEF IsCovered
  <1>3. /\ {"log"} \subseteq Touch /\ {"marks"} \subseteq Touch /\ {"board"} \subseteq Touch
        /\ {"info"} \subseteq Touch /\ {"info", "out"} \subseteq Touch /\ {"actions"} \subseteq Touch
        /\ {"machines"} \subseteq Touch /\ {"machines", "info"} \subseteq Touch
        /\ "out" \notin {"log"} /\ "out" \notin {"marks"} /\ "out" \notin {"board"}
        /\ "out" \notin {"actions"} /\ "out" \notin {"machines"}
    BY DEF Touch, Column, List
  <1>4. /\ "message.created" \in EventType /\ "task.updated" \in EventType /\ "reaction.updated" \in EventType
        /\ "action.prepared" \in EventType /\ "action.updated" \in EventType /\ "machine.updated" \in EventType
    BY DEF EventType
  <1> HIDE DEF Touch, EventType
  <1>5. ASSUME NEW then
        PROVE  /\ IsCovered(Stage({"log"}, <<"message.created">>), then)
               /\ IsCovered(Stage({"marks"}, <<"reaction.updated">>), then)
               /\ IsCovered(Stage({"board"}, <<"task.updated">>), then)
               /\ IsCovered(Stage({"actions"}, <<"action.prepared">>), then)
               /\ IsCovered(Stage({"actions"}, <<"action.updated">>), then)
               /\ IsCovered(Stage({"machines", "info"}, <<"machine.updated">>), then)
    <2>1. IsCovered(Stage({"log"}, <<"message.created">>), then)
      <3>1. SeenIn({"log"}) \subseteq Says("message.created")
        BY Seen, SaysByType
      <3> QED BY <1>1, <1>3, <1>4, <3>1
    <2>2. IsCovered(Stage({"marks"}, <<"reaction.updated">>), then)
      <3>1. SeenIn({"marks"}) \subseteq Says("reaction.updated")
        BY Seen, SaysByType
      <3> QED BY <1>1, <1>3, <1>4, <3>1
    <2>3. IsCovered(Stage({"board"}, <<"task.updated">>), then)
      <3>1. SeenIn({"board"}) \subseteq Says("task.updated")
        BY Seen, SaysByType
      <3> QED BY <1>1, <1>3, <1>4, <3>1
    <2>4. IsCovered(Stage({"actions"}, <<"action.prepared">>), then)
      <3>1. SeenIn({"actions"}) \subseteq Says("action.prepared")
        BY Seen, SaysByType
      <3> QED BY <1>1, <1>3, <1>4, <3>1
    <2>5. IsCovered(Stage({"actions"}, <<"action.updated">>), then)
      <3>1. SeenIn({"actions"}) \subseteq Says("action.updated")
        BY Seen, SaysByType
      <3> QED BY <1>1, <1>3, <1>4, <3>1
    <2>6. IsCovered(Stage({"machines", "info"}, <<"machine.updated">>), then)
      <3>1. SeenIn({"machines", "info"}) \subseteq Says("machine.updated")
        BY Seen, SaysByType
      <3> QED BY <1>1, <1>3, <1>4, <3>1
    <2> QED BY <2>1, <2>2, <2>3, <2>4, <2>5, <2>6
  <1>6. ASSUME NEW then \in {{}, {<<"page">>}} PROVE IsCovered(Stage({"marks"}, << >>), then)
    <2>1. then = {} \/ SeenIn({"marks"}) \subseteq Brought(then)
      BY Seen, BroughtByThen
    <2> QED BY <1>2, <1>3, <2>1
  <1>7. ASSUME NEW then \in {{}, {<<"info">>}}
        PROVE  IsCovered(Stage({"info"}, << >>), then) /\ IsCovered(Stage({"info", "out"}, << >>), then)
    <2>1. /\ then = {} \/ SeenIn({"info"}) \subseteq Brought(then)
          /\ then = {} \/ SeenIn({"info", "out"}) \subseteq Brought(then)
      BY Seen, BroughtByThen
    <2>2. IsCovered(Stage({"info"}, << >>), then)
      BY <1>2, <1>3, <2>1
    <2>3. IsCovered(Stage({"info", "out"}, << >>), then)
      BY <1>2, <1>3, <2>1
    <2> QED BY <2>2, <2>3
  <1>8. ASSUME NEW then \in {{}, {<<"machines">>}} PROVE IsCovered(Stage({"machines"}, << >>), then)
    BY <1>2, <1>3, Seen, BroughtByThen
  <1>9. ASSUME NEW then \in {{}, {<<"machines", "info">>}} PROVE IsCovered(Stage({"machines", "info"}, << >>), then)
    BY <1>2, <1>3, Seen, BroughtByThen
  <1> QED BY <1>5, <1>6, <1>7, <1>8, <1>9
          DEF Posted, React, OnTask, PrepareAction, DismissAction, MachineStatus, Save, UploadAttachment,
              JoinChannel, LeaveChannel, Directory, CreateMachine, DeleteMachine

LEMMA ManyStages ==
  /\ \A then : IsCovered(SendAsTask, then) /\ IsCovered(CreateTask, then) /\ IsCovered(ExecuteAction, then)
  /\ \A then \in {{}, {<<"page">>}} : IsCovered(SendWithFiles, then)
  <1> DEFINE board == Stage({"board"}, <<"task.updated">>)
             acted == Stage({"actions"}, <<"action.updated">>)
             rest == Stage({"board"}, << >>) \o board
  <1>0. ASSUME NEW t \in SUBSET Touch, "out" \notin t, NEW then, NEW s, IsCovered(s, then),
               TypesFrom(s, 1) # {}, SeenIn(t) \subseteq Told(s, 1)
        PROVE  IsCovered(Stage(t, << >>) \o s, then)
    <2>1. [touches |-> t, events |-> << >>] \in StageRec
      BY <1>0 DEF StageRec
    <2>2. s \in Seq(StageRec) /\ CoversItself(s, then)
      BY <1>0 DEF IsCovered
    <2> QED BY <1>0, <2>1, <2>2, MoreStages DEF IsCovered
  <1>1. ASSUME NEW t \in SUBSET Touch, "out" \notin t, NEW type \in EventType, NEW then, NEW s,
               IsCovered(s, then), SeenIn(t) \subseteq Says(type)
        PROVE  IsCovered(Stage(t, <<type>>) \o s, then)
    <2>1. [touches |-> t, events |-> <<type>>] \in StageRec
      BY <1>1 DEF StageRec
    <2>2. s \in Seq(StageRec) /\ CoversItself(s, then)
      BY <1>1 DEF IsCovered
    <2>3. <<type>> # << >> /\ \A x \in SeenIn(t) : \E n \in DOMAIN <<type>> : x \in Says(<<type>>[n])
      BY <1>1
    <2> QED BY <2>1, <2>2, <2>3, MoreStages DEF IsCovered
  <1>2. /\ {"log"} \subseteq Touch /\ {"marks"} \subseteq Touch /\ {"board"} \subseteq Touch
        /\ {"info"} \subseteq Touch
        /\ "out" \notin {"log"} /\ "out" \notin {"marks"} /\ "out" \notin {"board"} /\ "out" \notin {"info"}
        /\ "message.created" \in EventType /\ <<"message.created", "task.updated">> \in Seq(EventType)
    BY DEF Touch, Column, List, EventType
  <1>3. \A then : IsCovered(board, then) /\ IsCovered(acted, then)
    BY SingleStages DEF OnTask, DismissAction
  <1>4. /\ TypesFrom(board, 1) # {} /\ {"page"} \subseteq Told(board, 1)
        /\ TypesFrom(acted, 1) # {} /\ {"actions", "info"} \subseteq Told(acted, 1)
    <2>1. board # << >> /\ board \in Seq(StageRec) /\ Head(board).events = <<"task.updated">>
      <3>1. Head(board).events = <<"task.updated">>
        BY DEF Stage
      <3> QED BY <1>3, <3>1 DEF IsCovered
    <2>2. acted # << >> /\ acted \in Seq(StageRec) /\ Head(acted).events = <<"action.updated">>
      <3>1. Head(acted).events = <<"action.updated">>
        BY DEF Stage
      <3> QED BY <1>3, <3>1 DEF IsCovered
    <2> HIDE DEF board, acted
    <2>3. \A x : /\ x \in Says("task.updated") => x \in Told(board, 1)
                 /\ x \in Says("action.updated") => x \in Told(acted, 1)
      <3>1. /\ 1 \in DOMAIN Head(board).events /\ Head(board).events[1] = "task.updated"
            /\ 1 \in DOMAIN Head(acted).events /\ Head(acted).events[1] = "action.updated"
        BY <2>1, <2>2
      <3>2. ASSUME NEW x, x \in Says("task.updated") PROVE x \in Told(board, 1)
        BY <2>1, <3>1, <3>2, ToldIsBrought
      <3>3. ASSUME NEW x, x \in Says("action.updated") PROVE x \in Told(acted, 1)
        BY <2>2, <3>1, <3>3, ToldIsBrought
      <3> QED BY <3>2, <3>3
    <2>4. TypesFrom(board, 1) # {} /\ TypesFrom(acted, 1) # {}
      BY <2>3, SaysByType DEF Told
    <2> QED BY <2>3, <2>4, SaysByType
  <1> HIDE DEF board, acted, Touch, EventType
  <1>5. ASSUME NEW then PROVE IsCovered(rest, then)
    <2>1. SeenIn({"board"}) \subseteq Told(board, 1)
      BY <1>4, Seen
    <2> QED BY <1>0, <1>2, <1>3, <1>4, <2>1
  <1> HIDE DEF rest
  <1>6. SeenIn({"log"}) \subseteq Says("message.created")
    BY Seen, SaysByType
  <1>7. ASSUME NEW then PROVE IsCovered(Stage({"log"}, <<"message.created">>) \o rest, then)
    BY <1>1, <1>2, <1>5, <1>6
  <1>8. ASSUME NEW then PROVE IsCovered(Stage({"info"}, << >>) \o acted, then)
    <2>1. SeenIn({"info"}) \subseteq Told(acted, 1)
      BY <1>4, Seen
    <2> QED BY <1>0, <1>2, <1>3, <1>4, <2>1
  <1>9. ASSUME NEW then \in {{}, {<<"page">>}}
        PROVE  IsCovered(Stage({"log"}, <<"message.created">>) \o UploadAttachment, then)
    BY <1>1, <1>2, <1>6, SingleStages
  <1>10. ASSUME NEW then
         PROVE  IsCovered(Stage({"log"}, << >>) \o Stage({"board"}, <<"message.created", "task.updated">>), then)
    <2> DEFINE both == Stage({"board"}, <<"message.created", "task.updated">>)
    <2>1. IsCovered(both, then)
      <3>1. [touches |-> {"board"}, events |-> <<"message.created", "task.updated">>] \in StageRec
        BY <1>2 DEF StageRec
      <3>2. 1 \in DOMAIN <<"message.created", "task.updated">>
            /\ <<"message.created", "task.updated">>[1] = "message.created"
        OBVIOUS
      <3>3. \A x \in SeenIn({"board"}) : x \in Says("message.created")
        BY Seen, SaysByType
      <3>4. <<"message.created", "task.updated">> # << >>
        OBVIOUS
      <3> QED BY <3>1, <3>2, <3>3, <3>4, OneStage DEF IsCovered
    <2>2. both # << >> /\ both \in Seq(StageRec) /\ Head(both).events = <<"message.created", "task.updated">>
      <3>1. Head(both).events = <<"message.created", "task.updated">>
        BY DEF Stage
      <3> QED BY <2>1, <3>1 DEF IsCovered
    <2> HIDE DEF both
    <2>3. 1 \in DOMAIN Head(both).events /\ Head(both).events[1] = "message.created"
      BY <2>2
    <2>4. ASSUME NEW x, x \in Says("message.created") PROVE x \in Told(both, 1)
      BY <2>2, <2>3, <2>4, ToldIsBrought
    <2>5. TypesFrom(both, 1) # {}
      BY <2>4, SaysByType DEF Told
    <2>6. SeenIn({"log"}) \subseteq Told(both, 1)
      BY <1>6, <2>4
    <2>7. IsCovered(Stage({"log"}, << >>) \o both, then)
      BY <1>0, <1>2, <2>1, <2>5, <2>6
    <2> QED BY <2>7 DEF both
  <1>11. SendAsTask = Stage({"log"}, <<"message.created">>) \o rest
    BY DEF SendAsTask, SendMessage, Posted, rest, board, Stage
  <1> QED BY <1>7, <1>8, <1>9, <1>10, <1>11
          DEF CreateTask, ExecuteAction, SendWithFiles, SendMessage, Posted, acted

\* What the page fetches after a request of its own: the requests differ in what
\* their first stage touches, or in the number of stages.
LEMMA ThenOfOwn ==
  /\ \A route \in OwnInChannel : Then(route) = {<<"page">>}
  /\ Then(CreateMachine) = {<<"machines">>}
  /\ Then(DeleteMachine) = {<<"machines", "info">>}
  /\ \A route \in {Directory, JoinChannel, LeaveChannel} : Then(route) = {<<"info">>}
  <1>1. ASSUME NEW t, NEW es
        PROVE  Len(Stage(t, es)) = 1 /\ Stage(t, es)[1].touches = t
    BY DEF Stage
  <1>2. ASSUME NEW t, NEW es, NEW u, NEW fs
        PROVE  Len(Stage(t, es) \o Stage(u, fs)) = 2 /\ (Stage(t, es) \o Stage(u, fs))[1].touches = t
    BY DEF Stage
  <1>3. OwnInChannel \subseteq {r \in OwnInChannel : r[1].touches \in {{"log"}, {"marks"}, {"board"}}}
    <2>1. SendMessage[1].touches = {"log"}
      BY <1>1 DEF SendMessage, Posted
    <2>2. SendWithFiles[1].touches = {"log"} /\ CreateTask[1].touches = {"log"}
      BY <1>2 DEF SendWithFiles, SendMessage, Posted, UploadAttachment, CreateTask
    <2>3. SendAsTask[1].touches = {"log"}
      BY DEF SendAsTask, SendMessage, Posted, Stage
    <2>4. React[1].touches = {"marks"} /\ Save[1].touches = {"marks"} /\ TaskOperation[1].touches = {"board"}
      BY <1>1 DEF React, Save, TaskOperation, OnTask
    <2> QED BY <2>1, <2>2, <2>3, <2>4 DEF OwnInChannel
  <1>4. /\ ExecuteAction[1].touches = {"info"} /\ Len(ExecuteAction) = 2
        /\ DismissAction[1].touches = {"actions"}
    BY <1>1, <1>2 DEF ExecuteAction, DismissAction
  <1>5. /\ CreateMachine[1].touches = {"machines"} /\ Len(CreateMachine) = 1
        /\ DeleteMachine[1].touches = {"machines", "info"} /\ Len(DeleteMachine) = 1
        /\ \A route \in {Directory, JoinChannel, LeaveChannel} :
              route[1].touches \in {{"info"}, {"info", "out"}} /\ Len(route) = 1
    BY <1>1 DEF CreateMachine, DeleteMachine, Directory, JoinChannel, LeaveChannel
  <1>6. OwnMachines = {CreateMachine} /\ OwnActions = {ExecuteAction, DismissAction}
    BY DEF OwnMachines, RenameMachine, OwnActions
  <1>7. ASSUME NEW route \in OwnInChannel PROVE Then(route) = {<<"page">>}
    <2>1. route[1].touches \in {{"log"}, {"marks"}, {"board"}}
      BY <1>3
    <2>2. "info" \notin route[1].touches /\ "actions" \notin route[1].touches /\ "machines" \notin route[1].touches
      BY <2>1
    <2>3. route \notin OwnActions /\ route \notin OwnMachines /\ route # DeleteMachine
      BY <1>4, <1>5, <1>6, <2>2
    <2> QED BY <2>3 DEF Then
  <1> HIDE DEF OwnInChannel, OwnActions, OwnMachines
  <1>10. Then(CreateMachine) = {<<"machines">>}
    <2>1. CreateMachine \notin OwnInChannel /\ CreateMachine \notin OwnActions /\ CreateMachine # DeleteMachine
      BY <1>3, <1>4, <1>5, <1>6
    <2> QED BY <1>6, <2>1 DEF Then
  <1>8. Then(DeleteMachine) = {<<"machines", "info">>}
    <2>1. DeleteMachine \notin OwnInChannel /\ DeleteMachine \notin OwnActions /\ DeleteMachine # CreateMachine
      BY <1>3, <1>4, <1>5, <1>6
    <2> QED BY <1>6, <2>1 DEF Then
  <1>9. ASSUME NEW route \in {Directory, JoinChannel, LeaveChannel} PROVE Then(route) = {<<"info">>}
    <2>1. route[1].touches \in {{"info"}, {"info", "out"}} /\ Len(route) = 1
      BY <1>5
    <2>2. "info" \in route[1].touches /\ "machines" \notin route[1].touches
      BY <2>1
    <2>3. route \notin OwnInChannel
      BY <1>3, <2>2
    <2>4. route \notin OwnActions
      BY <1>4, <1>6, <2>1, <2>2
    <2>5. route # CreateMachine /\ route # DeleteMachine
      BY <1>5, <2>2
    <2> QED BY <1>6, <2>3, <2>4, <2>5 DEF Then
  <1> QED BY <1>7, <1>8, <1>9, <1>10

\* Every request covers itself, whoever makes it.
LEMMA RoutesAreCovered ==
  /\ \A route \in Own : Then(route) \subseteq Job /\ IsCovered(route, Then(route))
  /\ \A route \in OthersInChannel \union Others : IsCovered(route, {})
  <1>1. \A route : Then(route) \subseteq Job
    BY DEF Then, Job
  <1>2. ASSUME NEW route \in Own PROVE IsCovered(route, Then(route))
    <2>1. CASE route \in OwnInChannel
      <3>1. Then(route) = {<<"page">>}
        BY <2>1, ThenOfOwn
      <3>2. IsCovered(route, {<<"page">>})
        BY <2>1, SingleStages, ManyStages DEF OwnInChannel, SendMessage, TaskOperation
      <3> QED BY <3>1, <3>2
    <2>2. CASE route \in OwnActions
      BY <2>2, SingleStages, ManyStages DEF OwnActions
    <2>3. CASE route \in OwnMachines \union {DeleteMachine}
      BY <2>3, ThenOfOwn, SingleStages DEF OwnMachines, RenameMachine
    <2>4. CASE route \in OwnMembership \union OwnDirectory
      <3>1. route \in {Directory, JoinChannel, LeaveChannel}
        BY <2>4 DEF OwnMembership, OwnDirectory, CreateChannel, ArchiveChannel, OpenDm, EditMembers, CreateAgent,
                    ImportAgent, UpdateAgent, DeleteAgent, EditProfile, RemoveHuman
      <3> QED BY <3>1, ThenOfOwn, SingleStages
    <2> QED BY <2>1, <2>2, <2>3, <2>4 DEF Own
  <1>3. ASSUME NEW route \in OthersInChannel PROVE IsCovered(route, {})
    BY SingleStages, ManyStages
       DEF OthersInChannel, SendMessage, SendAsAgent, ReminderFires, FlagHuman, ReactAsAgent, UploadAsAgent,
           CreateTaskAsAgent, TaskOperation, ClaimAsAgent, AssignAsAgent, FinishAsAgent, AddMember, RemoveMember
  <1>4. ASSUME NEW route \in Others PROVE IsCovered(route, {})
    BY SingleStages, ManyStages
       DEF Others, CreateChannel, ArchiveChannel, OpenDm, EditMembers, MembersAsAgent, CreateAgent, ImportAgent,
           UpdateAgent, DeleteAgent, ProfileAsAgent, EditProfile, RemoveHuman, RenameMachine
  <1> QED BY <1>1, <1>2, <1>3, <1>4

-----------------------------------------------------------------------------
(* Bags of loads, and what they hold.                                      *)

LEMMA SwapDomain ==
  ASSUME NEW bag, bag \in [DOMAIN bag -> Nat \ {0}], NEW old \in DOMAIN bag, NEW new
  PROVE  /\ DOMAIN Swap(bag, old, new) \subseteq DOMAIN bag \union new
         /\ (DOMAIN bag \ {old}) \union new \subseteq DOMAIN Swap(bag, old, new)
         /\ Swap(bag, old, new) \in [DOMAIN Swap(bag, old, new) -> Nat \ {0}]
  <1> DEFINE less == bag (-) SetToBag({old})
  <1>1. /\ DOMAIN less \subseteq DOMAIN bag /\ DOMAIN bag \ {old} \subseteq DOMAIN less
        /\ less \in [DOMAIN less -> Nat \ {0}]
    BY DEF (-), SetToBag
  <1> HIDE DEF less
  <1>2. Swap(bag, old, new) = less (+) SetToBag(new)
    BY DEF Swap, less
  <1>3. /\ DOMAIN (less (+) SetToBag(new)) = DOMAIN less \union new
        /\ less (+) SetToBag(new) \in [DOMAIN less \union new -> Nat \ {0}]
    BY <1>1 DEF (+), SetToBag
  <1> QED BY <1>1, <1>2, <1>3

LEMMA StartDomain ==
  ASSUME NEW bag, bag \in [DOMAIN bag -> Nat \ {0}], NEW new
  PROVE  /\ DOMAIN (bag (+) SetToBag(new)) = DOMAIN bag \union new
         /\ bag (+) SetToBag(new) \in [DOMAIN bag \union new -> Nat \ {0}]
  BY DEF (+), SetToBag

LEMMA EmptyDomain == DOMAIN EmptyBag = {} /\ EmptyBag \in [{} -> Nat \ {0}]
  BY DEF EmptyBag, SetToBag

LEMMA LoadsKept ==
  ASSUME TypeInv, NEW l \in DOMAIN loads, NEW next \in SUBSET LoadRec, Becomes(l, next)
  PROVE  /\ DOMAIN loads' \subseteq LoadRec /\ loads' \in [DOMAIN loads' -> Nat \ {0}]
         /\ DOMAIN loads' \subseteq DOMAIN loads \union next
         /\ (DOMAIN loads \ {l}) \union next \subseteq DOMAIN loads'
  BY SwapDomain DEF TypeInv, Becomes

\* A job started is a load that holds nothing yet and brings what the job does,
\* if it is for the channel that is then selected.
LEMMA LoadOfJob ==
  ASSUME NEW job \in Job, NEW ch \in Channel \union {None}
  PROVE  /\ Load(job, ch) \in LoadRec /\ LoadInv(Load(job, ch))
         /\ selected' = ch => \A x \in Contents(job) : (x = "page" /\ ch = None) \/ Brings(Load(job, ch), x)'
  <1> DEFINE load == Load(job, ch)
  <1>1. CASE job = <<"page">> /\ ch # None
    <2>1. /\ load = [pc |-> "get", ch |-> ch, got |-> << >>]
          /\ DOMAIN << >> = {} /\ << >> \in [{} -> Nat]
      BY <1>1 DEF Load
    <2>2. load \in GetRec
      <3>1. << >> \in Got
        BY <2>1 DEF Got
      <3> QED BY <1>1, <2>1, <3>1 DEF GetRec
    <2> QED BY <1>1, <2>1, <2>2, ContentsOfJobs DEF LoadRec, LoadInv, Brings
  <1>2. CASE job = <<"page">> /\ ch = None
    <2>1. load = [pc |-> "list", todo |-> <<"info">>]
      BY <1>2 DEF Load
    <2> QED BY <1>2, <2>1, ContentsOfJobs DEF LoadRec, ListRec, Todo, LoadInv, Brings, Range
  <1>3. CASE job # <<"page">>
    <2>1. load = [pc |-> "list", todo |-> job] /\ job \in Todo
      BY <1>3 DEF Load, Job, Todo
    <2>2. Contents(job) = Range(job)
      BY <1>3 DEF Contents
    <2> QED BY <2>1, <2>2 DEF LoadRec, ListRec, LoadInv, Brings
  <1> QED BY <1>1, <1>2, <1>3

LEMMA NowTypes ==
  ASSUME TypeInv, NEW x \in List
  PROVE  Now(x) \in ListState /\ Now(x).ver = version[x] /\ Now(x).ver \in Nat
  <1> DEFINE log == [c \in Channel |-> at[c]["log"]]
             none == [c \in Channel |-> 0]
  <1>1. log \in [Channel -> Nat] /\ none \in [Channel -> Nat] /\ cursor \in [Channel -> Nat]
        /\ version[x] \in Nat
    BY DEF TypeInv, Column
  <1>2. \/ Now(x) = [ver |-> version[x], log |-> log, cursor |-> cursor]
        \/ Now(x) = [ver |-> version[x], log |-> none, cursor |-> none]
    BY DEF Now, Never
  <1> HIDE DEF log, none
  <1> QED BY <1>1, <1>2 DEF ListState

LEMMA NowTypesNext ==
  ASSUME TypeInv', NEW x \in List
  PROVE  Now(x)' \in ListState /\ Now(x)'.ver = version'[x] /\ Now(x)'.ver \in Nat
  <1> DEFINE log == [c \in Channel |-> at'[c]["log"]]
             none == [c \in Channel |-> 0]
  <1>1. log \in [Channel -> Nat] /\ none \in [Channel -> Nat] /\ cursor' \in [Channel -> Nat]
        /\ version'[x] \in Nat
    BY DEF TypeInv, Column
  <1>2. \/ Now(x)' = [ver |-> version'[x], log |-> log, cursor |-> cursor']
        \/ Now(x)' = [ver |-> version'[x], log |-> none, cursor |-> none]
    BY DEF Now, Never
  <1> HIDE DEF log, none
  <1> QED BY <1>1, <1>2 DEF ListState

LEMMA TodoTypes ==
  ASSUME NEW todo \in Todo
  PROVE  /\ Head(todo) \in List /\ Range(todo) \subseteq List
         /\ Range(todo) = {Head(todo)} \union Range(Tail(todo))
         /\ Len(todo) # 1 => Tail(todo) \in Todo
         /\ Len(todo) = 1 => Range(Tail(todo)) = {}
  <1>1. CASE todo = <<"machines", "info">>
    <2>1. Head(todo) = "machines" /\ Tail(todo) = <<"info">> /\ Range(todo) = {"machines", "info"}
      BY <1>1 DEF Range
    <2>2. Range(Tail(todo)) = {"info"} /\ Len(todo) = 2
      BY <1>1, <2>1 DEF Range
    <2> QED BY <2>1, <2>2 DEF List, Todo
  <1>2. ASSUME NEW x \in List, todo = <<x>>
        PROVE  /\ Head(todo) \in List /\ Range(todo) \subseteq List
               /\ Range(todo) = {Head(todo)} \union Range(Tail(todo))
               /\ Len(todo) = 1 /\ Range(Tail(todo)) = {}
    <2>1. Head(todo) = x /\ Tail(todo) = << >> /\ Range(todo) = {x} /\ Len(todo) = 1
      BY <1>2 DEF Range
    <2>2. Range(Tail(todo)) = {}
      BY <2>1 DEF Range
    <2> QED BY <2>1, <2>2
  <1> QED BY <1>1, <1>2 DEF Todo, List

LEMMA RestTypes ==
  ASSUME NEW l, l.todo \in Todo
  PROVE  /\ Rest(l) \subseteq ListRec
         /\ \A m \in Rest(l) : LoadInv(m)
         /\ \A x \in Range(Tail(l.todo)) : \E m \in Rest(l) : Brings(m, x)
  <1>1. CASE Len(l.todo) = 1
    BY <1>1, TodoTypes DEF Rest
  <1>2. CASE Len(l.todo) # 1
    <2> DEFINE m == [pc |-> "list", todo |-> Tail(l.todo)]
    <2>1. Rest(l) = {m} /\ Tail(l.todo) \in Todo
      BY <1>2, TodoTypes DEF Rest
    <2>2. m \in ListRec /\ LoadInv(m) /\ \A x \in Range(Tail(l.todo)) : Brings(m, x)
      BY <2>1 DEF ListRec, LoadInv, Brings
    <2> QED BY <2>1, <2>2
  <1> QED BY <1>1, <1>2

LEMMA BehindTransitive ==
  ASSUME NEW a \in ListState, NEW b \in ListState, NEW c \in ListState, Behind(a, b), Behind(b, c)
  PROVE  Behind(a, c)
  BY DEF Behind, ListState

LEMMA BehindItself == ASSUME NEW a \in ListState PROVE Behind(a, a)
  BY DEF Behind, ListState

\* One that is behind and differs is older.
LEMMA BehindIsOlder ==
  ASSUME NEW a \in ListState, NEW b \in ListState, Behind(a, b), a # b
  PROVE  Older(a, b)
  <1> SUFFICES ASSUME a.ver = b.ver, \A c \in Channel : a.log[c] <= b.log[c] /\ a.cursor[c] <= b.cursor[c]
               PROVE  \E c \in Channel : a.log[c] < b.log[c] \/ a.cursor[c] < b.cursor[c]
    BY DEF Behind, Older
  <1>1. a.log # b.log \/ a.cursor # b.cursor
    BY DEF ListState
  <1>2. CASE a.log # b.log
    <2>1. PICK c \in Channel : a.log[c] # b.log[c]
      BY <1>2 DEF ListState
    <2> QED BY <2>1 DEF ListState
  <1>3. CASE a.cursor # b.cursor
    <2>1. PICK c \in Channel : a.cursor[c] # b.cursor[c]
      BY <1>3 DEF ListState
    <2> QED BY <2>1 DEF ListState
  <1> QED BY <1>1, <1>2, <1>3

\* What a load holds the server still has, or had.
ServerGrows == /\ \A c \in Channel : \A k \in Column : at[c][k] <= at'[c][k]
               /\ \A x \in List : Behind(Now(x), Now(x)')

LEMMA LoadsStayBehind ==
  ASSUME TypeInv, TypeInv', ServerGrows, \A l \in DOMAIN loads : LoadInv(l),
         NEW l \in DOMAIN loads
  PROVE  LoadInv(l)'
  <1>1. l \in LoadRec
    BY DEF TypeInv
  <1>2. CASE l \in GetRec
    <2>1. l.got \in Got /\ l.ch \in Channel /\ l.pc = "get"
      BY <1>2 DEF GetRec
    <2>2. \A k \in DOMAIN l.got : k \in Column /\ l.got[k] \in Nat
      BY <2>1 DEF Got
    <2>3. \A k \in DOMAIN l.got : l.got[k] <= at[l.ch][k] /\ at[l.ch][k] <= at'[l.ch][k]
      BY <2>1, <2>2 DEF LoadInv, ServerGrows
    <2>4. \A k \in DOMAIN l.got : at[l.ch][k] \in Nat /\ at'[l.ch][k] \in Nat
      BY <2>1, <2>2 DEF TypeInv
    <2>5. \A k \in DOMAIN l.got : l.got[k] <= at'[l.ch][k]
      BY <2>2, <2>3, <2>4
    <2> QED BY <2>1, <2>5 DEF LoadInv
  <1>3. CASE l \in ListedRec
    <2>1. l.todo \in Todo /\ l.answer \in ListState /\ l.pc = "listed"
      BY <1>3 DEF ListedRec
    <2>2. PICK x \in List : x = Head(l.todo)
      BY <2>1, TodoTypes
    <2>3. Behind(l.answer, Now(x)) /\ Behind(Now(x), Now(x)')
      BY <2>1, <2>2 DEF LoadInv, ServerGrows
    <2>4. Now(x) \in ListState /\ Now(x)' \in ListState
      BY NowTypes, NowTypesNext
    <2>5. Behind(l.answer, Now(x)')
      BY <2>1, <2>3, <2>4, BehindTransitive
    <2> QED BY <2>1, <2>2, <2>5 DEF LoadInv, Behind
  <1>4. CASE l \in MarkRec \union ListRec
    BY <1>4 DEF MarkRec, ListRec, LoadInv
  <1> QED BY <1>1, <1>2, <1>3, <1>4 DEF LoadRec

-----------------------------------------------------------------------------
(* Steps of loads.                                                         *)

\* What is due stays so while one load goes on, unless that was the one.
LEMMA StaysDue ==
  ASSUME UNCHANGED <<at, version, cursor, selected, calls, events>>,
         NEW l, DOMAIN loads \ {l} \subseteq DOMAIN loads',
         NEW x, Due(x), Brings(l, x) => Fetched(x)'
  PROVE  Due(x)'
  <1>1. ASSUME NEW m, Brings(m, x) PROVE Brings(m, x)'
    BY <1>1 DEF Brings, Now
  <1>2. CASE Fetched(x)
    BY <1>1, <1>2 DEF Fetched, Due
  <1>3. CASE Signalled(x)
    BY <1>3 DEF Signalled, Concerns, Due
  <1>4. CASE Promised(x)
    BY <1>4 DEF Promised, PromisedBy, Concerns, Due
  <1> QED BY <1>2, <1>3, <1>4 DEF Due

\* One load goes on, and nothing else changes but what is excused.
LEMMA LoadStep ==
  ASSUME IInv, NEW l \in DOMAIN loads, NEW next \in SUBSET LoadRec, Becomes(l, next),
         UNCHANGED <<server, client, calls, conn, events>>,
         excused \subseteq excused', excused' \subseteq Thing,
         \A m \in next : LoadInv(m),
         \A x \in Shown \ excused' : Brings(l, x) => \E m \in next : Brings(m, x),
         l.pc = "mark" => "read" \in excused'
  PROVE  IInv'
  <1>1. /\ DOMAIN loads' \subseteq LoadRec /\ loads' \in [DOMAIN loads' -> Nat \ {0}]
        /\ DOMAIN loads' \subseteq DOMAIN loads \union next
        /\ (DOMAIN loads \ {l}) \union next \subseteq DOMAIN loads'
    BY LoadsKept DEF IInv
  <1>2. UNCHANGED <<at, version, cursor, selected, page, shown, calls, conn, events>>
    BY DEF server, client
  <1>3. TypeInv'
    BY <1>1, <1>2 DEF IInv, TypeInv
  <1>4. \A r \in Request : CallInv(calls[r])'
    BY <1>2 DEF IInv
  <1>5. \A m \in DOMAIN loads' : LoadInv(m)'
    <2>1. \A m \in DOMAIN loads' : LoadInv(m)
      BY <1>1 DEF IInv
    <2> QED BY <1>2, <2>1 DEF LoadInv, Behind, Now
  <1>6. ASSUME NEW x \in Shown \ excused', Brings(l, x) PROVE Fetched(x)'
    <2>1. PICK m \in next : Brings(m, x)
      BY <1>6
    <2>2. m \in DOMAIN loads' /\ Brings(m, x)'
      BY <1>1, <1>2, <2>1 DEF Brings, Now
    <2> QED BY <2>2 DEF Fetched
  <1>7. ASSUME NEW x \in Shown \ excused', Due(x) PROVE Due(x)'
    BY <1>1, <1>2, <1>6, <1>7, StaysDue
  <1>8. ListInv'
    <2> SUFFICES ASSUME NEW x \in List, x \notin excused' PROVE shown'[x] = Now(x)' \/ Due(x)'
      BY DEF ListInv
    <2>1. shown[x] = Now(x) \/ Due(x)
      BY DEF IInv, ListInv
    <2> QED BY <1>2, <1>7, <2>1 DEF Now, Shown
  <1>9. PageInv'
    BY <1>2, <1>7 DEF IInv, PageInv, Shown
  <1>10. ReadInv'
    <2> SUFFICES ASSUME selected # None, "page" \notin excused', "read" \notin excused'
                 PROVE  at[selected]["log"] <= cursor[selected] \/ Due("page")' \/ MarkDue'
      BY <1>2 DEF ReadInv
    <2>1. at[selected]["log"] <= cursor[selected] \/ Due("page") \/ MarkDue
      BY DEF IInv, ReadInv
    <2>2. MarkDue => MarkDue'
      BY <1>1, <1>2 DEF MarkDue
    <2> QED BY <1>7, <2>1, <2>2 DEF Shown
  <1> QED BY <1>3, <1>4, <1>5, <1>8, <1>9, <1>10 DEF IInv

LEMMA AnswerInv ==
  ASSUME IInv, NEW l \in DOMAIN loads, NEW ks \in SUBSET Column, Answer(l, ks)
  PROVE  IInv'
  <1> DEFINE g == [k \in DOMAIN l.got \union ks |-> IF k \in ks THEN at[l.ch][k] ELSE l.got[k]]
             m == [l EXCEPT !.got = g]
  <1>1. l.pc = "get" /\ ks \intersect DOMAIN l.got = {} /\ Becomes(l, {m})
        /\ UNCHANGED <<server, client, calls, conn, events, excused>>
    BY DEF Answer
  <1>2. l \in GetRec /\ l.ch \in Channel /\ l.got \in Got
    BY <1>1 DEF IInv, TypeInv, LoadRec, GetRec, MarkRec, ListRec, ListedRec
  <1>3. DOMAIN l.got \subseteq Column /\ \A k \in DOMAIN l.got : l.got[k] \in Nat /\ l.got[k] <= at[l.ch][k]
    BY <1>1, <1>2 DEF Got, IInv, LoadInv
  <1>4. \A k \in Column : at[l.ch][k] \in Nat
    BY <1>2 DEF IInv, TypeInv
  <1>5. /\ DOMAIN g = DOMAIN l.got \union ks
        /\ \A k \in DOMAIN g : g[k] \in Nat /\ g[k] <= at[l.ch][k]
        /\ \A k \in DOMAIN g : (k \in DOMAIN l.got => g[k] = l.got[k]) /\ (k \notin DOMAIN l.got => g[k] = at[l.ch][k])
    BY <1>1, <1>3, <1>4
  <1>6. g \in Got
    <2>1. g \in [DOMAIN l.got \union ks -> Nat] /\ DOMAIN l.got \union ks \in SUBSET Column
      BY <1>3, <1>4
    <2> QED BY <2>1 DEF Got
  <1> HIDE DEF g
  <1>7. m \in GetRec /\ m.pc = "get" /\ m.ch = l.ch /\ m.got = g
    BY <1>1, <1>2, <1>6 DEF GetRec
  <1> HIDE DEF m
  <1>8. LoadInv(m)
    BY <1>5, <1>7 DEF LoadInv
  <1>9. \A x \in Shown : Brings(l, x) => Brings(m, x)
    BY <1>1, <1>5, <1>7 DEF Brings
  <1>10. excused' \subseteq Thing /\ excused \subseteq excused'
    BY <1>1 DEF IInv, TypeInv
  <1>11. {m} \in SUBSET LoadRec
    BY <1>7 DEF LoadRec
  <1> QED BY <1>1, <1>8, <1>9, <1>10, <1>11, LoadStep

LEMMA DropInv ==
  ASSUME IInv, NEW l \in DOMAIN loads, l.pc = "get", selected # l.ch, Drop(l)
  PROVE  IInv'
  <1>1. Becomes(l, {}) /\ UNCHANGED <<server, client, calls, conn, events, excused>>
    BY DEF Drop
  <1>2. \A x \in Shown : ~Brings(l, x)
    BY DEF Brings
  <1>3. excused' \subseteq Thing /\ excused \subseteq excused'
    BY <1>1 DEF IInv, TypeInv
  <1> QED BY <1>1, <1>2, <1>3, LoadStep

LEMMA ReadListInv ==
  ASSUME IInv, NEW l \in DOMAIN loads, ReadList(l)
  PROVE  IInv'
  <1> DEFINE m == [pc |-> "listed", todo |-> l.todo, answer |-> Now(Head(l.todo))]
  <1>1. l.pc = "list" /\ Becomes(l, {m}) /\ UNCHANGED <<server, client, calls, conn, events, excused>>
    BY DEF ReadList
  <1>2. l.todo \in Todo
    BY <1>1 DEF IInv, TypeInv, LoadRec, GetRec, MarkRec, ListRec, ListedRec
  <1>3. PICK x \in List : x = Head(l.todo)
    BY <1>2, TodoTypes
  <1>4. Now(x) \in ListState
    BY NowTypes DEF IInv
  <1>5. m \in ListedRec /\ m.pc = "listed" /\ m.todo = l.todo /\ m.answer = Now(x)
    BY <1>2, <1>3, <1>4 DEF ListedRec
  <1> HIDE DEF m
  <1>6. LoadInv(m)
    BY <1>3, <1>4, <1>5, BehindItself DEF LoadInv
  <1>7. \A y \in Shown : Brings(l, y) => Brings(m, y)
    <2>1. Range(l.todo) = {x} \union Range(Tail(l.todo))
      BY <1>2, <1>3, TodoTypes
    <2> QED BY <1>1, <1>3, <1>5, <2>1 DEF Brings
  <1>8. excused' \subseteq Thing /\ excused \subseteq excused'
    BY <1>1 DEF IInv, TypeInv
  <1>9. {m} \in SUBSET LoadRec
    BY <1>5 DEF LoadRec
  <1> QED BY <1>1, <1>6, <1>7, <1>8, <1>9, LoadStep

LEMMA FailLoadInv ==
  ASSUME IInv, NEW l \in DOMAIN loads, FailLoad(l)
  PROVE  IInv'
  <1>0. l \in LoadRec /\ excused \subseteq Thing /\ UNCHANGED <<server, client, calls, conn, events>>
    BY DEF IInv, TypeInv, FailLoad
  <1>1. CASE l.pc = "get"
    <2>1. Becomes(l, {}) /\ excused' = excused \union {"page", "info"}
      BY <1>1 DEF FailLoad
    <2>2. \A x \in Shown \ excused' : ~Brings(l, x)
      BY <1>1, <2>1 DEF Brings
    <2>3. excused' \subseteq Thing
      BY <1>0, <2>1 DEF Thing, List
    <2> QED BY <1>0, <1>1, <2>1, <2>2, <2>3, LoadStep
  <1>2. CASE l.pc = "mark"
    <2>1. Becomes(l, {ListInfo}) /\ excused' = excused \union {"read"}
      BY <1>2 DEF FailLoad
    <2>2. ListInfo \in ListRec /\ LoadInv(ListInfo) /\ Brings(ListInfo, "info")
      BY DEF ListInfo, ListRec, Todo, LoadInv, Brings, Range
    <2>3. \A x \in Shown : Brings(l, x) => Brings(ListInfo, x)
      BY <1>2, <2>2 DEF Brings
    <2>4. excused' \subseteq Thing /\ {ListInfo} \in SUBSET LoadRec
      BY <1>0, <2>1, <2>2 DEF Thing, LoadRec
    <2> QED BY <1>0, <1>2, <2>1, <2>2, <2>3, <2>4, LoadStep
  <1>3. CASE l.pc \notin {"get", "mark"}
    <2>1. Becomes(l, Rest(l)) /\ excused' = excused \union {Head(l.todo)}
      BY <1>3 DEF FailLoad
    <2>2. l.todo \in Todo
      BY <1>0, <1>3 DEF LoadRec, GetRec, MarkRec, ListRec, ListedRec
    <2>3. \A x \in Shown \ excused' : Brings(l, x) => \E m \in Rest(l) : Brings(m, x)
      <3>1. Range(l.todo) = {Head(l.todo)} \union Range(Tail(l.todo))
        BY <2>2, TodoTypes
      <3>2. \A x \in Shown \ excused' : Brings(l, x) => x \in Range(Tail(l.todo))
        BY <1>3, <2>1, <3>1 DEF Brings
      <3> QED BY <2>2, <3>2, RestTypes
    <2>4. excused' \subseteq Thing /\ Rest(l) \in SUBSET LoadRec /\ \A m \in Rest(l) : LoadInv(m)
      BY <1>0, <2>1, <2>2, TodoTypes, RestTypes DEF Thing, LoadRec
    <2> QED BY <1>0, <1>3, <2>1, <2>3, <2>4, LoadStep
  <1> QED BY <1>1, <1>2, <1>3

\* Both answers of a channel's load are there, and it is the one selected: the
\* page is what the server has if the load held that, or else was not, or another
\* load will make it so, or it is older than it was and excused.
LEMMA StoreAnyInv ==
  ASSUME IInv, NEW l \in DOMAIN loads, selected = l.ch, StoreAny(l)
  PROVE  IInv'
  <1> DEFINE m == IF l.got["log"] > 0 THEN [pc |-> "mark", ch |-> l.ch, upTo |-> l.got["log"]] ELSE ListInfo
             older == page.ch = l.ch /\ \E k \in Column : l.got[k] < page.at[k]
  <1>1. /\ l.pc = "get" /\ DOMAIN l.got = Column /\ Becomes(l, {m})
        /\ page' = [ch |-> l.ch, at |-> l.got]
        /\ excused' = IF older THEN excused \union {"page"}
                      ELSE IF l.got = at[l.ch] THEN excused \ {"page"} ELSE excused
        /\ UNCHANGED <<at, version, cursor, selected, shown, calls, conn, events>>
    BY DEF StoreAny, Excuse, server
  <1>2. l \in GetRec /\ l.ch \in Channel /\ l.got \in Got
    BY <1>1 DEF IInv, TypeInv, LoadRec, GetRec, MarkRec, ListRec, ListedRec
  <1>3. l.got \in [Column -> Nat] /\ \A k \in Column : l.got[k] <= at[l.ch][k]
    BY <1>1, <1>2 DEF Got, IInv, LoadInv
  <1>4. at[l.ch] \in [Column -> Nat]
    BY <1>2 DEF IInv, TypeInv
  <1>5. /\ m \in LoadRec /\ LoadInv(m) /\ Brings(m, "info")
        /\ l.got["log"] > 0 => m = [pc |-> "mark", ch |-> l.ch, upTo |-> l.got["log"]]
    <2>1. CASE l.got["log"] > 0
      <3>1. m = [pc |-> "mark", ch |-> l.ch, upTo |-> l.got["log"]] /\ l.got["log"] \in Nat
        BY <1>3, <2>1 DEF Column
      <3> QED BY <1>2, <3>1 DEF LoadRec, MarkRec, LoadInv, Brings
    <2>2. CASE ~(l.got["log"] > 0)
      BY <2>2 DEF ListInfo, LoadRec, ListRec, Todo, LoadInv, Brings, Range
    <2> QED BY <2>1, <2>2
  <1> HIDE DEF m
  <1>6. /\ DOMAIN loads' \subseteq LoadRec /\ loads' \in [DOMAIN loads' -> Nat \ {0}]
        /\ DOMAIN loads' \subseteq DOMAIN loads \union {m}
        /\ (DOMAIN loads \ {l}) \union {m} \subseteq DOMAIN loads'
    BY <1>1, <1>5, LoadsKept DEF IInv
  <1>7. TypeInv'
    <2>1. page' \in [ch : Channel \union {None}, at : [Column -> Nat]]
      BY <1>1, <1>2, <1>3
    <2>2. excused' \subseteq Thing
      BY <1>1 DEF IInv, TypeInv, Thing
    <2> QED BY <1>1, <1>6, <2>1, <2>2 DEF IInv, TypeInv
  <1>8. \A r \in Request : CallInv(calls[r])'
    BY <1>1 DEF IInv
  <1>9. \A k \in DOMAIN loads' : LoadInv(k)'
    <2>1. \A k \in DOMAIN loads' : LoadInv(k)
      BY <1>5, <1>6 DEF IInv
    <2> QED BY <1>1, <2>1 DEF LoadInv, Behind, Now
  <1>10. Fetched("info")'
    <2>1. Brings(m, "info")'
      BY <1>1, <1>5 DEF Brings, Now
    <2> QED BY <1>6, <2>1 DEF Fetched
  <1>11. ListInv'
    <2> SUFFICES ASSUME NEW x \in List, x \notin excused' PROVE shown'[x] = Now(x)' \/ Due(x)'
      BY DEF ListInv
    <2>1. x \notin excused
      BY <1>1 DEF List
    <2>2. shown[x] = Now(x) \/ Due(x)
      BY <2>1 DEF IInv, ListInv
    <2>3. Brings(l, x) => Fetched(x)'
      BY <1>1, <1>10 DEF Brings, List
    <2>4. Due(x) => Due(x)'
      BY <1>1, <1>6, <2>3, StaysDue
    <2> QED BY <1>1, <2>2, <2>4 DEF Now
  <1>12. Due("page") => l.got = at[l.ch] \/ Due("page")'
    <2>1. Brings(l, "page") => l.got = at[l.ch]
      BY <1>1, <1>3, <1>4 DEF Brings
    <2> SUFFICES ASSUME Due("page"), l.got # at[l.ch] PROVE Due("page")'
      OBVIOUS
    <2> QED BY <1>1, <1>6, <2>1, StaysDue
  <1>13. \/ l.got = at[l.ch]
         \/ Due("page")'
         \/ "page" \in excused'
    <2> SUFFICES ASSUME l.got # at[l.ch], "page" \notin excused, ~Due("page") PROVE "page" \in excused'
      BY <1>1, <1>12
    <2>1. page = [ch |-> l.ch, at |-> at[l.ch]]
      BY <1>2, ClientAssumption DEF IInv, PageInv
    <2>2. PICK k \in Column : l.got[k] # at[l.ch][k]
      BY <1>3, <1>4
    <2>3. l.got[k] < page.at[k]
      BY <1>3, <1>4, <2>1, <2>2
    <2> QED BY <1>1, <2>1, <2>3
  <1>14. PageInv'
    BY <1>1, <1>13 DEF PageInv
  <1>15. ReadInv'
    <2> SUFFICES ASSUME "page" \notin excused', ~Due("page")'
                 PROVE  at[selected]["log"] <= cursor[selected] \/ MarkDue'
      BY <1>1 DEF ReadInv
    <2>1. l.got = at[l.ch]
      BY <1>13
    <2>2. CASE l.got["log"] > 0
      <3>1. m \in DOMAIN loads' /\ m.pc = "mark" /\ m.ch = selected /\ m.upTo = at[selected]["log"]
        BY <1>5, <1>6, <2>1, <2>2
      <3> QED BY <1>1, <3>1 DEF MarkDue
    <2>3. CASE ~(l.got["log"] > 0)
      <3>1. at[selected]["log"] = 0 /\ cursor[selected] \in Nat
        BY <1>2, <1>3, <2>1, <2>3 DEF IInv, TypeInv, Column
      <3> QED BY <3>1
    <2> QED BY <2>2, <2>3
  <1> QED BY <1>7, <1>8, <1>9, <1>11, <1>14, <1>15 DEF IInv

LEMMA StoreInv ==
  ASSUME IInv, NEW l \in DOMAIN loads, Store(l)
  PROVE  IInv'
  BY StoreAnyInv, DropInv DEF Store

\* What a load fetches it still does after a step that leaves alone the load, the
\* selection, and what is fetched.
LEMMA FetchedStays ==
  ASSUME TypeInv, selected' = selected, NEW x \in Shown, x \in List => Now(x)' = Now(x),
         x = "page" /\ selected # None => at'[selected] = at[selected],
         Fetched(x), \A m \in DOMAIN loads \ DOMAIN loads' : Brings(m, x) => Fetched(x)'
  PROVE  Fetched(x)'
  <1>1. PICK m \in DOMAIN loads : Brings(m, x)
    BY DEF Fetched
  <1>2. SUFFICES ASSUME m \in DOMAIN loads' PROVE Brings(m, x)'
    BY <1>1 DEF Fetched
  <1>3. m \in LoadRec
    BY DEF TypeInv
  <1>4. CASE m \in ListedRec
    <2>1. Head(m.todo) \in List
      BY <1>4, TodoTypes DEF ListedRec
    <2> QED BY <1>1, <1>4, <2>1 DEF Brings, ListedRec
  <1>5. CASE m \in GetRec
    <2>1. m.ch = selected /\ selected # None
      BY <1>1, <1>5, ClientAssumption DEF Brings, GetRec
    <2> QED BY <1>1, <1>5, <2>1 DEF Brings, GetRec, Shown
  <1>6. CASE m \in MarkRec \union ListRec
    BY <1>1, <1>6 DEF Brings, MarkRec, ListRec
  <1> QED BY <1>3, <1>4, <1>5, <1>6 DEF LoadRec

LEMMA OthersStayDue ==
  ASSUME UNCHANGED <<selected, calls, events>>, NEW x, Signalled(x) \/ Promised(x)
  PROVE  Due(x)'
  BY DEF Signalled, Promised, PromisedBy, Concerns, Due

\* The selected channel is marked read, and the badges are fetched.
LEMMA MarkInv ==
  ASSUME IInv, NEW l \in DOMAIN loads, Mark(l)
  PROVE  IInv'
  <1>1. /\ l.pc = "mark" /\ Becomes(l, {ListInfo})
        /\ cursor' = [cursor EXCEPT ![l.ch] = IF @ > l.upTo THEN @ ELSE l.upTo]
        /\ excused' = IF l.ch = selected /\ l.upTo = at[l.ch]["log"] THEN excused \ {"read"} ELSE excused
        /\ UNCHANGED <<at, version, selected, page, shown, calls, conn, events>>
    BY DEF Mark, Excuse, client
  <1>2. l \in MarkRec /\ l.ch \in Channel /\ l.upTo \in Nat
    BY <1>1 DEF IInv, TypeInv, LoadRec, GetRec, MarkRec, ListRec, ListedRec
  <1>3. /\ cursor \in [Channel -> Nat] /\ cursor' \in [Channel -> Nat]
        /\ \A c \in Channel : cursor[c] <= cursor'[c]
        /\ l.upTo <= cursor'[l.ch]
    BY <1>1, <1>2 DEF IInv, TypeInv
  <1>4. ListInfo \in LoadRec /\ LoadInv(ListInfo)' /\ Brings(ListInfo, "info")'
    BY DEF ListInfo, LoadRec, ListRec, Todo, LoadInv, Brings, Range
  <1>5. /\ DOMAIN loads' \subseteq LoadRec /\ loads' \in [DOMAIN loads' -> Nat \ {0}]
        /\ DOMAIN loads' \subseteq DOMAIN loads \union {ListInfo}
        /\ (DOMAIN loads \ {l}) \union {ListInfo} \subseteq DOMAIN loads'
    BY <1>1, <1>4, LoadsKept DEF IInv
  <1>6. TypeInv'
    BY <1>1, <1>3, <1>5 DEF IInv, TypeInv
  <1>7. ServerGrows
    <2>1. ASSUME NEW c \in Channel, NEW k \in Column PROVE at[c][k] <= at'[c][k]
      BY <1>1 DEF IInv, TypeInv
    <2>2. ASSUME NEW x \in List PROVE Behind(Now(x), Now(x)')
      <3>1. Now(x) \in ListState
        BY NowTypes DEF IInv
      <3>2. CASE x = "info"
        <4>1. \A c \in Channel : at[c]["log"] \in Nat
          BY DEF IInv, TypeInv, Column
        <4> QED BY <1>1, <1>3, <3>2, <4>1 DEF Now, Behind
      <3>3. CASE x # "info"
        <4>1. Now(x)' = Now(x)
          BY <1>1, <3>3 DEF Now, Never
        <4> QED BY <3>1, <4>1, BehindItself DEF Behind
      <3> QED BY <3>2, <3>3
    <2> QED BY <2>1, <2>2 DEF ServerGrows
  <1>8. \A m \in DOMAIN loads' : LoadInv(m)'
    BY <1>4, <1>5, <1>6, <1>7, LoadsStayBehind DEF IInv
  <1>9. Fetched("info")'
    BY <1>4, <1>5 DEF Fetched
  <1>10. ASSUME NEW x \in Shown, x # "info" PROVE (Now(x)' = Now(x)) /\ (Due(x) => Due(x)')
    <2>1. Now(x)' = Now(x)
      BY <1>1, <1>10 DEF Now, Never
    <2>2. ~Brings(l, x)
      BY <1>1, <1>10 DEF Brings
    <2>3. Fetched(x) => Fetched(x)'
      BY <1>1, <1>5, <2>1, <2>2, FetchedStays DEF IInv
    <2> QED BY <1>1, <2>1, <2>3, OthersStayDue DEF Due
  <1>11. ListInv'
    <2> SUFFICES ASSUME NEW x \in List, x \notin excused', x # "info" PROVE shown'[x] = Now(x)' \/ Due(x)'
      BY <1>9 DEF ListInv, Due
    <2>1. x \notin excused /\ x \in Shown
      BY <1>1 DEF List, Shown
    <2> QED BY <1>1, <1>10, <2>1 DEF IInv, ListInv
  <1>12. Due("page") => Due("page")'
    BY <1>10 DEF Shown
  <1>13. PageInv'
    BY <1>1, <1>12 DEF IInv, PageInv
  <1>14. ReadInv'
    <2> SUFFICES ASSUME selected # None, "page" \notin excused', "read" \notin excused'
                 PROVE  at[selected]["log"] <= cursor'[selected] \/ Due("page")' \/ MarkDue'
      BY <1>1 DEF ReadInv
    <2>1. selected \in Channel /\ at[selected]["log"] \in Nat
      BY DEF IInv, TypeInv, Column
    <2>2. CASE l.ch = selected /\ l.upTo = at[selected]["log"]
      BY <1>3, <2>2
    <2>3. CASE ~(l.ch = selected /\ l.upTo = at[selected]["log"])
      <3>1. at[selected]["log"] <= cursor[selected] \/ Due("page") \/ MarkDue
        BY <1>1, <2>3 DEF IInv, ReadInv
      <3>2. MarkDue => MarkDue'
        BY <1>1, <1>5, <2>3 DEF MarkDue
      <3>3. at[selected]["log"] <= cursor[selected] => at[selected]["log"] <= cursor'[selected]
        BY <1>3, <2>1
      <3> QED BY <1>12, <3>1, <3>2, <3>3
    <2> QED BY <2>2, <2>3
  <1>15. \A r \in Request : CallInv(calls[r])'
    BY <1>1 DEF IInv
  <1> QED BY <1>6, <1>8, <1>11, <1>13, <1>14, <1>15 DEF IInv

\* The cursor moves on in another page: the badges are excused, and nothing else
\* is about it.
LEMMA ReadElsewhereInv ==
  ASSUME IInv, NEW c \in Channel, NEW n \in 1 .. at[c]["log"], ReadElsewhere(c, n)
  PROVE  IInv'
  <1>1. /\ cursor' = [cursor EXCEPT ![c] = n] /\ n > cursor[c]
        /\ excused' = excused \union {"info"}
        /\ UNCHANGED <<at, version, selected, page, shown, calls, conn, events, loads>>
    BY DEF ReadElsewhere, client
  <1>2. at[c]["log"] \in Nat /\ n \in Nat
    BY DEF IInv, TypeInv, Column
  <1>3. /\ cursor \in [Channel -> Nat] /\ cursor' \in [Channel -> Nat]
        /\ \A d \in Channel : cursor[d] <= cursor'[d]
    BY <1>1, <1>2 DEF IInv, TypeInv
  <1>4. TypeInv'
    <2>1. excused' \subseteq Thing
      BY <1>1 DEF IInv, TypeInv, Thing, List
    <2> QED BY <1>1, <1>3, <2>1 DEF IInv, TypeInv
  <1>5. ServerGrows
    <2>1. ASSUME NEW d \in Channel, NEW k \in Column PROVE at[d][k] <= at'[d][k]
      BY <1>1 DEF IInv, TypeInv
    <2>2. ASSUME NEW x \in List PROVE Behind(Now(x), Now(x)')
      <3>1. Now(x) \in ListState
        BY NowTypes DEF IInv
      <3>2. CASE x = "info"
        <4>1. \A d \in Channel : at[d]["log"] \in Nat
          BY DEF IInv, TypeInv, Column
        <4> QED BY <1>1, <1>3, <3>2, <4>1 DEF Now, Behind
      <3>3. CASE x # "info"
        <4>1. Now(x)' = Now(x)
          BY <1>1, <3>3 DEF Now, Never
        <4> QED BY <3>1, <4>1, BehindItself DEF Behind
      <3> QED BY <3>2, <3>3
    <2> QED BY <2>1, <2>2 DEF ServerGrows
  <1>6. \A m \in DOMAIN loads' : LoadInv(m)'
    BY <1>1, <1>4, <1>5, LoadsStayBehind DEF IInv
  <1>7. ASSUME NEW x \in Shown, x # "info" PROVE (Now(x)' = Now(x)) /\ (Due(x) => Due(x)')
    <2>1. Now(x)' = Now(x)
      BY <1>1, <1>7 DEF Now, Never
    <2>2. Fetched(x) => Fetched(x)'
      BY <1>1, <2>1, FetchedStays DEF IInv
    <2> QED BY <1>1, <2>1, <2>2, OthersStayDue DEF Due
  <1>8. ListInv'
    <2> SUFFICES ASSUME NEW x \in List, x \notin excused' PROVE shown'[x] = Now(x)' \/ Due(x)'
      BY DEF ListInv
    <2>1. x \notin excused /\ x # "info" /\ x \in Shown
      BY <1>1 DEF Shown
    <2> QED BY <1>1, <1>7, <2>1 DEF IInv, ListInv
  <1>9. Due("page") => Due("page")'
    BY <1>7 DEF Shown
  <1>10. PageInv'
    BY <1>1, <1>9 DEF IInv, PageInv
  <1>11. ReadInv'
    <2> SUFFICES ASSUME selected # None, "page" \notin excused, "read" \notin excused
                 PROVE  at[selected]["log"] <= cursor'[selected] \/ Due("page")' \/ MarkDue'
      BY <1>1 DEF ReadInv
    <2>1. selected \in Channel /\ at[selected]["log"] \in Nat
      BY DEF IInv, TypeInv, Column
    <2>2. at[selected]["log"] <= cursor[selected] \/ Due("page") \/ MarkDue
      BY DEF IInv, ReadInv
    <2>3. MarkDue => MarkDue'
      BY <1>1 DEF MarkDue
    <2>4. at[selected]["log"] <= cursor[selected] => at[selected]["log"] <= cursor'[selected]
      BY <1>3, <2>1
    <2> QED BY <1>9, <2>2, <2>3, <2>4
  <1>12. \A r \in Request : CallInv(calls[r])'
    BY <1>1 DEF IInv
  <1> QED BY <1>4, <1>6, <1>8, <1>10, <1>11, <1>12 DEF IInv

-----------------------------------------------------------------------------
(* Steps that start loads.                                                 *)

LEMMA Started ==
  ASSUME TypeInv, NEW jobs \in SUBSET Job, NEW ch \in Channel \union {None}, Start(jobs, ch)
  PROVE  /\ DOMAIN loads' \subseteq LoadRec /\ loads' \in [DOMAIN loads' -> Nat \ {0}]
         /\ DOMAIN loads \subseteq DOMAIN loads'
         /\ \A m \in DOMAIN loads' \ DOMAIN loads : LoadInv(m)
         /\ selected' = ch => \A x \in Brought(jobs) : (x = "page" /\ ch = None) \/ Fetched(x)'
  <1> DEFINE new == {Load(j, ch) : j \in jobs}
  <1>1. loads' = loads (+) SetToBag(new)
    BY DEF Start
  <1>2. \A m \in new : m \in LoadRec /\ LoadInv(m)
    BY LoadOfJob
  <1> HIDE DEF new
  <1>3. loads \in [DOMAIN loads -> Nat \ {0}]
    BY DEF TypeInv
  <1>4. DOMAIN loads' = DOMAIN loads \union new /\ loads' \in [DOMAIN loads' -> Nat \ {0}]
    BY <1>1, <1>3, StartDomain
  <1>5. ASSUME selected' = ch, NEW x \in Brought(jobs), x # "page" \/ ch # None PROVE Fetched(x)'
    <2>1. PICK job \in jobs : x \in Contents(job)
      BY DEF Brought
    <2>2. Brings(Load(job, ch), x)'
      BY <1>5, <2>1, LoadOfJob
    <2>3. Load(job, ch) \in DOMAIN loads'
      BY <1>4 DEF new
    <2> QED BY <2>2, <2>3 DEF Fetched
  <1> QED BY <1>2, <1>4, <1>5 DEF TypeInv

\* Another channel is selected, and loaded.
LEMMA SelectInv ==
  ASSUME IInv, NEW c \in Channel, Select(c)
  PROVE  IInv'
  <1>1. /\ Start({<<"page">>}, c) /\ selected' = c /\ excused' = excused \ {"page", "read"}
        /\ UNCHANGED <<at, version, cursor, page, shown, calls, conn, events>>
    BY DEF Select, server
  <1>2. {<<"page">>} \in SUBSET Job /\ c \in Channel \union {None}
    BY DEF Job
  <1>3. /\ DOMAIN loads' \subseteq LoadRec /\ loads' \in [DOMAIN loads' -> Nat \ {0}]
        /\ DOMAIN loads \subseteq DOMAIN loads'
        /\ \A m \in DOMAIN loads' \ DOMAIN loads : LoadInv(m)
        /\ \A x \in Brought({<<"page">>}) : (x = "page" /\ c = None) \/ Fetched(x)'
    BY <1>1, <1>2, Started DEF IInv
  <1>4. Fetched("info")' /\ Fetched("page")'
    BY <1>3, BroughtByThen, ClientAssumption
  <1>5. TypeInv'
    BY <1>1, <1>3 DEF IInv, TypeInv
  <1>6. \A m \in DOMAIN loads' : LoadInv(m)'
    <2>1. \A m \in DOMAIN loads' : LoadInv(m)
      BY <1>3 DEF IInv
    <2> QED BY <1>1, <2>1 DEF LoadInv, Behind, Now
  <1>7. ListInv'
    <2> SUFFICES ASSUME NEW x \in List, x \notin excused', x # "info" PROVE shown'[x] = Now(x)' \/ Due(x)'
      BY <1>4 DEF ListInv, Due
    <2>1. x \notin excused /\ x # "page"
      BY <1>1 DEF List
    <2>2. shown[x] = Now(x) \/ Due(x)
      BY <2>1 DEF IInv, ListInv
    <2>3. Fetched(x) => Fetched(x)'
      BY <1>1, <1>3, <2>1 DEF Fetched, Brings, Now
    <2>4. Signalled(x) \/ Promised(x) => Due(x)'
      BY <1>1, <2>1 DEF Signalled, Promised, PromisedBy, Concerns, Due
    <2> QED BY <1>1, <2>2, <2>3, <2>4 DEF Due, Now
  <1>8. PageInv' /\ ReadInv'
    BY <1>4 DEF PageInv, ReadInv, Due
  <1>9. \A r \in Request : CallInv(calls[r])'
    BY <1>1 DEF IInv
  <1> QED BY <1>5, <1>6, <1>7, <1>8, <1>9 DEF IInv

\* Jobs are started for what was due by one event or one request only.
LEMMA StartStep ==
  ASSUME IInv, TypeInv', NEW jobs \in SUBSET Job, Start(jobs, selected),
         UNCHANGED <<server, client, excused>>,
         \A r \in Request : CallInv(calls[r])',
         \A x \in Shown : Signalled(x) \/ Promised(x) => Signalled(x)' \/ Promised(x)' \/ x \in Brought(jobs)
  PROVE  IInv'
  <1>1. UNCHANGED <<at, version, cursor, selected, page, shown, excused>>
    BY DEF server, client
  <1>2. selected \in Channel \union {None}
    BY DEF IInv, TypeInv
  <1>3. /\ DOMAIN loads' \subseteq LoadRec /\ loads' \in [DOMAIN loads' -> Nat \ {0}]
        /\ DOMAIN loads \subseteq DOMAIN loads'
        /\ \A m \in DOMAIN loads' \ DOMAIN loads : LoadInv(m)
        /\ \A x \in Brought(jobs) : (x = "page" /\ selected = None) \/ Fetched(x)'
    BY <1>1, <1>2, Started DEF IInv
  <1>4. \A m \in DOMAIN loads' : LoadInv(m)'
    <2>1. \A m \in DOMAIN loads' : LoadInv(m)
      BY <1>3 DEF IInv
    <2> QED BY <1>1, <2>1 DEF LoadInv, Behind, Now
  <1>5. ASSUME NEW x \in Shown, x # "page" \/ selected # None, Due(x) PROVE Due(x)'
    <2>0. \A m : Brings(m, x) => Brings(m, x)'
      BY <1>1 DEF Brings, Now
    <2>1. Fetched(x) => Fetched(x)'
      BY <1>3, <2>0 DEF Fetched
    <2>2. x \in Brought(jobs) => Fetched(x)'
      BY <1>3, <1>5
    <2> QED BY <1>5, <2>1, <2>2 DEF Due
  <1>6. ListInv'
    <2> SUFFICES ASSUME NEW x \in List, x \notin excused' PROVE shown'[x] = Now(x)' \/ Due(x)'
      BY DEF ListInv
    <2>1. x \in Shown /\ x # "page"
      BY DEF Shown, List
    <2>2. shown[x] = Now(x) \/ Due(x)
      BY <1>1 DEF IInv, ListInv
    <2> QED BY <1>1, <1>5, <2>1, <2>2 DEF Now
  <1>7. PageInv'
    BY <1>1, <1>5 DEF IInv, PageInv, Shown
  <1>8. ReadInv'
    <2>1. MarkDue => MarkDue'
      BY <1>1, <1>3 DEF MarkDue
    <2> QED BY <1>1, <1>5, <2>1 DEF IInv, ReadInv, Shown
  <1> QED BY <1>4, <1>6, <1>7, <1>8 DEF IInv

LEMMA RefreshIsJobs ==
  ASSUME NEW type \in EventType
  PROVE  Refresh(type) \in SUBSET Job
  BY DEF EventType, Refresh, Job

LEMMA ReceiveInv ==
  ASSUME IInv, Receive
  PROVE  IInv'
  <1>1. /\ events # << >> /\ Start(Refresh(Head(events).type), selected) /\ events' = Tail(events)
        /\ UNCHANGED <<server, client, calls, conn, excused>>
    BY DEF Receive
  <1>2. events \in Seq([type : EventType, ch : Channel])
    BY DEF IInv, TypeInv
  <1>3. Head(events) \in [type : EventType, ch : Channel] /\ Tail(events) \in Seq([type : EventType, ch : Channel])
    <2> DEFINE Event == [type : EventType, ch : Channel]
    <2>1. events \in Seq(Event)
      BY <1>2
    <2> HIDE DEF Event
    <2>2. Head(events) \in Event /\ Tail(events) \in Seq(Event)
      BY <1>1, <2>1
    <2> QED BY <2>2 DEF Event
  <1>4. Refresh(Head(events).type) \in SUBSET Job
    BY <1>3, RefreshIsJobs
  <1>5. UNCHANGED <<at, version, cursor, selected, page, shown>>
    BY <1>1 DEF server, client
  <1>6. TypeInv'
    <2>1. DOMAIN loads' \subseteq LoadRec /\ loads' \in [DOMAIN loads' -> Nat \ {0}]
      BY <1>1, <1>4, Started DEF IInv, TypeInv
    <2> QED BY <1>1, <1>3, <1>5, <2>1 DEF IInv, TypeInv
  <1>7. ASSUME NEW x \in Shown, Signalled(x)
        PROVE  Signalled(x)' \/ x \in Brought(Refresh(Head(events).type))
    <2>1. PICK i \in DOMAIN events : x \in Says(events[i].type) /\ Concerns(x, events[i].ch)
      BY <1>7 DEF Signalled
    <2>2. CASE i = 1
      <3>1. x \in Says(Head(events).type) /\ Head(events).type \in EventType
        BY <1>1, <1>3, <2>1, <2>2
      <3> QED BY <3>1, SaysByType
    <2>3. CASE i # 1
      <3>1. i - 1 \in DOMAIN Tail(events) /\ Tail(events)[i - 1] = events[i]
        BY <1>1, <1>2, <2>3
      <3> QED BY <1>1, <1>5, <2>1, <3>1 DEF Signalled, Concerns
    <2> QED BY <2>2, <2>3
  <1>8. ASSUME NEW x \in Shown, Promised(x) PROVE Promised(x)'
    BY <1>1, <1>5, <1>8 DEF Promised, PromisedBy, Concerns
  <1>9. \A r \in Request : CallInv(calls[r])'
    BY <1>1 DEF IInv
  <1> QED BY <1>1, <1>4, <1>6, <1>7, <1>8, <1>9, StartStep

LEMMA AnsweredInv ==
  ASSUME IInv, NEW r \in Request, Answered(r)
  PROVE  IInv'
  <1>1. /\ calls[r].pc = "done" /\ Start(calls[r].then, selected)
        /\ calls' = [calls EXCEPT ![r] = Idle]
        /\ UNCHANGED <<server, client, conn, events, excused>>
    BY DEF Answered
  <1>2. /\ calls \in [Request -> CallRec \union {Idle}]
        /\ calls[r] \in CallRec /\ calls[r].stages = << >> /\ calls[r].then \in SUBSET Job
    BY <1>1 DEF IInv, TypeInv, CallInv, CallRec, Idle
  <1>3. UNCHANGED <<at, version, cursor, selected, page, shown>>
    BY <1>1 DEF server, client
  <1>4. calls' \in [Request -> CallRec \union {Idle}] /\ \A q \in Request : q # r => calls'[q] = calls[q]
    BY <1>1, <1>2
  <1>5. TypeInv'
    <2>1. DOMAIN loads' \subseteq LoadRec /\ loads' \in [DOMAIN loads' -> Nat \ {0}]
      BY <1>1, <1>2, Started DEF IInv, TypeInv
    <2> QED BY <1>1, <1>3, <1>4, <2>1 DEF IInv, TypeInv
  <1>6. \A q \in Request : CallInv(calls[q])'
    BY <1>1, <1>2, <1>4 DEF IInv, CallInv
  <1>7. ASSUME NEW x \in Shown, Promised(x) PROVE Promised(x)' \/ x \in Brought(calls[r].then)
    <2>1. PICK q \in Request : PromisedBy(calls[q], x)
      BY <1>7 DEF Promised
    <2>2. CASE q = r
      BY <1>2, <2>1, <2>2, NothingTold DEF PromisedBy
    <2>3. CASE q # r
      BY <1>3, <1>4, <2>1, <2>3 DEF Promised, PromisedBy, Concerns
    <2> QED BY <2>2, <2>3
  <1>8. ASSUME NEW x \in Shown, Signalled(x) PROVE Signalled(x)'
    BY <1>1, <1>3, <1>8 DEF Signalled, Concerns
  <1> QED BY <1>1, <1>2, <1>5, <1>6, <1>7, <1>8, StartStep

\* The answer of a list is stored, and if that was server-info and no channel is
\* selected, one is, and is loaded.
LEMMA StoreListInv ==
  ASSUME IInv, NEW l \in DOMAIN loads, StoreList(l)
  PROVE  IInv'
  <1> DEFINE first == Head(l.todo) = "info" /\ selected = None
             next == Rest(l) \union IF first THEN {Load(<<"page">>, Home)} ELSE {}
  <1>1. /\ l.pc = "listed" /\ Becomes(l, next)
        /\ shown' = [shown EXCEPT ![Head(l.todo)] = l.answer]
        /\ selected' = IF first THEN Home ELSE selected
        /\ Excuse(Head(l.todo), Older(l.answer, shown[Head(l.todo)]), l.answer = Now(Head(l.todo)))
        /\ UNCHANGED <<at, version, cursor, page, calls, conn, events>>
    BY DEF StoreList, server, Becomes
  <1>2. l \in ListedRec /\ l.todo \in Todo /\ l.answer \in ListState
    BY <1>1 DEF IInv, TypeInv, LoadRec, GetRec, MarkRec, ListRec, ListedRec
  <1>3. PICK list \in List : list = Head(l.todo)
    BY <1>2, TodoTypes
  <1>4. /\ shown \in [List -> ListState] /\ Now(list) \in ListState
        /\ Behind(l.answer, Now(list))
    BY <1>1, <1>3, NowTypes DEF IInv, TypeInv, LoadInv
  <1>5. /\ shown' = [shown EXCEPT ![list] = l.answer] /\ shown' \in [List -> ListState]
        /\ excused' = IF Older(l.answer, shown[list]) THEN excused \union {list}
                      ELSE IF l.answer = Now(list) THEN excused \ {list} ELSE excused
    BY <1>1, <1>2, <1>3, <1>4 DEF Excuse
  <1>6. /\ <<"page">> \in Job /\ Home \in Channel \union {None} /\ Home # None
        /\ Load(<<"page">>, Home) \in LoadRec /\ LoadInv(Load(<<"page">>, Home))
        /\ selected' = Home => Brings(Load(<<"page">>, Home), "page")'
    <2>1. <<"page">> \in Job /\ Home \in Channel \union {None} /\ Home # None
      BY ClientAssumption DEF Job
    <2> QED BY <2>1, LoadOfJob, ContentsOfJobs
  <1>7. /\ next \in SUBSET LoadRec /\ \A m \in next : LoadInv(m)
        /\ Rest(l) \subseteq next
        /\ first => Load(<<"page">>, Home) \in next
    BY <1>2, <1>6, RestTypes DEF LoadRec
  <1> HIDE DEF next
  <1>8. /\ DOMAIN loads' \subseteq LoadRec /\ loads' \in [DOMAIN loads' -> Nat \ {0}]
        /\ DOMAIN loads' \subseteq DOMAIN loads \union next
        /\ (DOMAIN loads \ {l}) \union next \subseteq DOMAIN loads'
    BY <1>1, <1>7, LoadsKept DEF IInv
  <1>9. selected' \in Channel \union {None} /\ (selected # None => selected' = selected)
    BY <1>1, ClientAssumption DEF IInv, TypeInv
  <1>10. TypeInv'
    <2>1. excused' \subseteq Thing
      BY <1>5 DEF IInv, TypeInv, Thing
    <2> QED BY <1>1, <1>5, <1>8, <1>9, <2>1 DEF IInv, TypeInv
  <1>11. \A m \in DOMAIN loads' : LoadInv(m)'
    <2>1. \A m \in DOMAIN loads' : LoadInv(m)
      BY <1>7, <1>8 DEF IInv
    <2> QED BY <1>1, <2>1 DEF LoadInv, Behind, Now
  <1>12. ASSUME NEW m \in DOMAIN loads, NEW x \in Shown, x # "page" \/ selected # None, Brings(m, x)
         PROVE  Brings(m, x)'
    <2>1. m \in LoadRec
      BY DEF IInv, TypeInv
    <2>2. m.pc = "get" => m.ch \in Channel
      BY <2>1 DEF LoadRec, GetRec, MarkRec, ListRec, ListedRec
    <2>3. m.pc = "get" => selected # None
      BY <1>12, <2>2, ClientAssumption DEF Brings
    <2> QED BY <1>1, <1>9, <1>12, <2>3 DEF Brings, Now
  <1>13. \A x \in Range(Tail(l.todo)) : Fetched(x)'
    <2> SUFFICES ASSUME NEW x \in Range(Tail(l.todo)) PROVE Fetched(x)'
      OBVIOUS
    <2>1. PICK m \in Rest(l) : Brings(m, x)
      BY <1>2, RestTypes
    <2>2. m \in ListRec
      BY <1>2, RestTypes
    <2>4. m \in next
      BY <1>7
    <2>5. m \in DOMAIN loads'
      BY <1>8, <2>4
    <2>3. Brings(m, x)'
      BY <2>1, <2>2 DEF Brings, ListRec
    <2> QED BY <2>3, <2>5 DEF Fetched
  <1>14. ASSUME NEW x \in Shown, x # "page" \/ selected # None, Due(x), ~(x = list /\ l.answer = Now(x))
         PROVE  Due(x)'
    <2>1. Brings(l, x) => x \in Range(Tail(l.todo))
      BY <1>1, <1>3, <1>14 DEF Brings
    <2>2. CASE Fetched(x)
      <3>1. PICK m \in DOMAIN loads : Brings(m, x)
        BY <2>2 DEF Fetched
      <3>2. CASE m = l
        BY <1>13, <2>1, <3>1, <3>2 DEF Due
      <3>3. CASE m # l
        <4>1. m \in DOMAIN loads' /\ Brings(m, x)'
          BY <1>8, <1>12, <1>14, <3>1, <3>3
        <4> QED BY <4>1 DEF Fetched, Due
      <3> QED BY <3>2, <3>3
    <2>3. CASE Signalled(x)
      BY <1>1, <1>9, <1>14, <2>3 DEF Signalled, Concerns, Due
    <2>4. CASE Promised(x)
      BY <1>1, <1>9, <1>14, <2>4 DEF Promised, PromisedBy, Concerns, Due
    <2> QED BY <1>14, <2>2, <2>3, <2>4 DEF Due
  <1>15. ListInv'
    <2> SUFFICES ASSUME NEW x \in List, x \notin excused' PROVE shown'[x] = Now(x)' \/ Due(x)'
      BY DEF ListInv
    <2>1. x \in Shown /\ x # "page" /\ Now(x)' = Now(x)
      BY <1>1 DEF Shown, List, Now
    <2>2. CASE x # list
      <3>1. x \notin excused /\ shown'[x] = shown[x]
        BY <1>4, <1>5, <2>2
      <3> QED BY <1>14, <2>1, <2>2, <3>1 DEF IInv, ListInv
    <2>3. CASE x = list /\ l.answer = Now(x)
      BY <1>4, <1>5, <2>1, <2>3
    <2>4. CASE x = list /\ l.answer # Now(x)
      <3>1. ~Older(l.answer, shown[x]) /\ x \notin excused
        BY <1>5, <2>4
      <3>2. shown[x] # Now(x)
        BY <1>2, <1>4, <2>4, <3>1, BehindIsOlder
      <3> QED BY <1>14, <2>1, <2>4, <3>1, <3>2 DEF IInv, ListInv
    <2> QED BY <2>2, <2>3, <2>4
  <1>16. "page" # list
    BY DEF List
  <1>17. CASE first
    <2>2. selected' = Home
      BY <1>1, <1>17
    <2>4. Load(<<"page">>, Home) \in next
      BY <1>7, <1>17
    <2>3. Load(<<"page">>, Home) \in DOMAIN loads'
      BY <1>8, <2>4
    <2>1. Due("page")'
      BY <1>6, <2>2, <2>3 DEF Fetched, Due
    <2> QED BY <1>1, <1>10, <1>11, <1>15, <2>1 DEF IInv, PageInv, ReadInv
  <1>18. CASE ~first
    <2>1. selected' = selected
      BY <1>1, <1>18
    <2>2. "page" \in excused' <=> "page" \in excused
      BY <1>5, <1>16
    <2>3. "read" \in excused' <=> "read" \in excused
      BY <1>5 DEF List
    <2>4. selected # None /\ Due("page") => Due("page")'
      BY <1>14, <1>16 DEF Shown
    <2>5. PageInv'
      BY <1>1, <2>1, <2>2, <2>4 DEF IInv, PageInv
    <2>6. MarkDue => MarkDue'
      BY <1>1, <1>8, <2>1 DEF MarkDue
    <2>7. ReadInv'
      BY <1>1, <2>1, <2>2, <2>3, <2>4, <2>6 DEF IInv, ReadInv
    <2> QED BY <1>1, <1>10, <1>11, <1>15, <2>5, <2>7 DEF IInv
  <1> QED BY <1>17, <1>18


-----------------------------------------------------------------------------
(* Steps of requests and of the socket.                                    *)

\* Nothing is read or stored: what the page does not show stays due if it is told
\* of as before, or is excused now.
LEMMA SignalStep ==
  ASSUME IInv, TypeInv', UNCHANGED <<server, client, loads>>, excused \subseteq excused',
         \A r \in Request : CallInv(calls[r])',
         \A x \in Shown \ excused' : Signalled(x) \/ Promised(x) => Signalled(x)' \/ Promised(x)'
  PROVE  IInv'
  <1>1. UNCHANGED <<at, version, cursor, selected, page, shown, loads>>
    BY DEF server, client
  <1>2. \A l \in DOMAIN loads' : LoadInv(l)'
    BY <1>1 DEF IInv, LoadInv, Behind, Now
  <1>3. ASSUME NEW x \in Shown \ excused', Due(x) PROVE Due(x)'
    <2>1. ASSUME NEW l \in DOMAIN loads, Brings(l, x) PROVE Brings(l, x)'
      BY <1>1, <2>1 DEF Brings, Now
    <2>2. Fetched(x) => Fetched(x)'
      BY <1>1, <2>1 DEF Fetched
    <2> QED BY <1>3, <2>2 DEF Due
  <1>4. ListInv'
    <2> SUFFICES ASSUME NEW x \in List, x \notin excused' PROVE shown'[x] = Now(x)' \/ Due(x)'
      BY DEF ListInv
    <2>1. shown[x] = Now(x) \/ Due(x)
      BY DEF IInv, ListInv
    <2> QED BY <1>1, <1>3, <2>1 DEF Now, Shown
  <1>5. PageInv'
    BY <1>1, <1>3 DEF IInv, PageInv, Shown
  <1>6. ReadInv'
    <2>1. MarkDue => MarkDue'
      BY <1>1 DEF MarkDue
    <2> QED BY <1>1, <1>3, <2>1 DEF IInv, ReadInv, Shown
  <1> QED BY <1>2, <1>4, <1>5, <1>6 DEF IInv

LEMMA IdleFacts ==
  CallInv(Idle) /\ \A x : ~PromisedBy(Idle, x) /\ ~PromisedBy(Idle, x)'
  BY NothingTold, NothingBrought DEF CallInv, Idle, PromisedBy

LEMMA CallTypes ==
  ASSUME IInv, NEW r \in Request, calls[r] # Idle
  PROVE  /\ calls[r] \in CallRec /\ CoversItself(calls[r].stages, calls[r].then)
         /\ calls[r].pc = "done" <=> calls[r].stages = << >>
  BY DEF IInv, CallInv

\* Another route is served.
LEMMA ArriveStep ==
  ASSUME IInv, NEW r \in Request, NEW route, NEW ch \in Channel, NEW own \in BOOLEAN,
         IsCovered(route, IF own THEN Then(route) ELSE {}), own => Then(route) \subseteq Job,
         Arrive(r, route, ch, own)
  PROVE  IInv'
  <1> DEFINE then == IF own THEN Then(route) ELSE {}
             call == [pc |-> "run", stages |-> route, ch |-> ch, then |-> then]
  <1>1. /\ calls[r] = Idle /\ calls' = [calls EXCEPT ![r] = call]
        /\ UNCHANGED <<server, client, conn, events, loads, excused>>
    BY DEF Arrive
  <1>2. then \subseteq Job /\ IsCovered(route, then)
    OBVIOUS
  <1> HIDE DEF then
  <1>3. call \in CallRec /\ CallInv(call)
    <2>1. route \in Seq(StageRec) /\ route # << >> /\ CoversItself(route, then)
      BY <1>2 DEF IsCovered
    <2>2. call \in CallRec
      BY <1>2, <2>1 DEF CallRec
    <2> QED BY <2>1, <2>2 DEF CallInv
  <1> HIDE DEF call
  <1>4. calls \in [Request -> CallRec \union {Idle}]
    BY DEF IInv, TypeInv
  <1>5. /\ calls' \in [Request -> CallRec \union {Idle}]
        /\ calls'[r] = call /\ \A q \in Request : q # r => calls'[q] = calls[q]
    BY <1>1, <1>3, <1>4
  <1>6. UNCHANGED <<at, version, cursor, selected, page, shown>>
    BY <1>1 DEF server, client
  <1>7. TypeInv'
    BY <1>1, <1>5, <1>6 DEF IInv, TypeInv
  <1>8. \A q \in Request : CallInv(calls[q])'
    BY <1>3, <1>5 DEF IInv, CallInv
  <1>9. ASSUME NEW x \in Shown, Promised(x) PROVE Promised(x)'
    <2>1. PICK q \in Request : PromisedBy(calls[q], x)
      BY <1>9 DEF Promised
    <2>2. q # r
      BY <1>1, <2>1, IdleFacts
    <2> QED BY <1>5, <1>6, <2>1, <2>2 DEF Promised, PromisedBy, Concerns
  <1>10. ASSUME NEW x \in Shown, Signalled(x) PROVE Signalled(x)'
    BY <1>1, <1>6, <1>10 DEF Signalled, Concerns
  <1> QED BY <1>1, <1>7, <1>8, <1>9, <1>10, SignalStep

LEMMA ArriveInv ==
  ASSUME IInv, NEW r \in Request
  PROVE  /\ \A route \in Own : selected # None /\ Arrive(r, route, selected, TRUE) => IInv'
         /\ \A route \in OthersInChannel, c \in Channel : Arrive(r, route, c, FALSE) => IInv'
         /\ \A route \in Others : Arrive(r, route, Home, FALSE) => IInv'
  <1>1. selected # None => selected \in Channel
    BY DEF IInv, TypeInv
  <1>2. Home \in Channel
    BY ClientAssumption
  <1>3. ASSUME NEW route \in Own, selected # None, Arrive(r, route, selected, TRUE) PROVE IInv'
    BY <1>1, <1>3, ArriveStep, RoutesAreCovered
  <1>4. ASSUME NEW route \in OthersInChannel \union Others, NEW c \in Channel, Arrive(r, route, c, FALSE)
        PROVE  IInv'
    <2>1. IsCovered(route, {})
      BY RoutesAreCovered
    <2> QED BY <1>4, <2>1, ArriveStep
  <1> QED BY <1>2, <1>3, <1>4

\* Nobody waits for the answer any more.
LEMMA DisownedInv ==
  ASSUME NEW call \in CallRec \union {Idle}, CallInv(call)
  PROVE  Disowned(call) \in CallRec \union {Idle} /\ CallInv(Disowned(call))
  <1>1. CASE call.pc = "done"
    BY <1>1, IdleFacts DEF Disowned
  <1>2. CASE call = Idle
    <2>1. Disowned(call) = Idle
      BY <1>2 DEF Disowned, Idle
    <2> QED BY <2>1, IdleFacts
  <1>3. CASE call # Idle /\ call.pc # "done"
    <2>1. call \in CallRec /\ call.stages # << >> /\ CoversItself(call.stages, call.then)
      BY <1>3 DEF CallInv
    <2> DEFINE next == [call EXCEPT !.then = {}]
    <2>2. /\ next \in CallRec /\ next.pc = call.pc /\ next.stages = call.stages /\ next.then = {}
      BY <2>1 DEF CallRec
    <2>3. CoversItself(next.stages, next.then)
      BY <2>1, <2>2, DisownedCovers
    <2>4. Disowned(call) = next
      BY <1>3 DEF Disowned
    <2> HIDE DEF next
    <2> QED BY <1>3, <2>1, <2>2, <2>3, <2>4 DEF CallInv
  <1> QED BY <1>1, <1>2, <1>3

\* The page does not learn of what its request did.
LEMMA FailCallInv ==
  ASSUME IInv, NEW r \in Request, FailCall(r)
  PROVE  IInv'
  <1>1. /\ calls[r].then # {} /\ calls' = [calls EXCEPT ![r] = Disowned(@)]
        /\ excused' = excused \union List \union {"page"}
        /\ UNCHANGED <<server, client, conn, events, loads>>
    BY DEF FailCall
  <1>2. calls \in [Request -> CallRec \union {Idle}] /\ excused' \subseteq Thing
    BY <1>1 DEF IInv, TypeInv, Thing
  <1>3. Disowned(calls[r]) \in CallRec \union {Idle} /\ CallInv(Disowned(calls[r]))
    BY DisownedInv DEF IInv, TypeInv
  <1>4. /\ calls' \in [Request -> CallRec \union {Idle}]
        /\ \A q \in Request : CallInv(calls'[q])
    BY <1>1, <1>2, <1>3 DEF IInv
  <1>5. TypeInv'
    BY <1>1, <1>2, <1>4 DEF IInv, TypeInv, server, client
  <1>6. \A q \in Request : CallInv(calls[q])'
    BY <1>4 DEF CallInv
  <1>7. Shown \ excused' = {}
    BY <1>1 DEF Shown
  <1> QED BY <1>1, <1>5, <1>6, <1>7, SignalStep

\* A stage is stored.  What it changes is excused, or is told of in what is left
\* of the request, or is fetched when the request is answered.
LEMMA CommitInv ==
  ASSUME IInv, NEW r \in Request, Commit(r)
  PROVE  IInv'
  <1> DEFINE call == calls[r]
             t == Head(call.stages).touches
             next == [call EXCEPT !.pc = "emit"]
  <1>1. /\ call.pc = "run"
        /\ at' = [at EXCEPT ![call.ch] = [k \in Column |-> IF k \in t THEN @[k] + 1 ELSE @[k]]]
        /\ version' = [x \in List |-> IF x \in t THEN version[x] + 1 ELSE version[x]]
        /\ cursor' = [cursor EXCEPT ![call.ch] = IF "out" \in t THEN 0 ELSE @]
        /\ excused' = excused \union (IF call.then = {} /\ ~Announced(call.stages)
                                      THEN ShownAs(t, call.ch) ELSE {})
                              \union (IF "out" \in t /\ call.ch = selected THEN {"read"} ELSE {})
        /\ calls' = [calls EXCEPT ![r] = next]
        /\ UNCHANGED <<selected, page, shown, conn, events, loads>>
    BY DEF Commit, client
  <1>2. /\ call \in CallRec /\ CoversItself(call.stages, call.then)
        /\ call.stages \in Seq(StageRec) /\ call.stages # << >> /\ call.ch \in Channel
    BY <1>1, CallTypes DEF Idle, CallRec
  <1>3. t \subseteq Touch /\ ("out" \in t => "info" \in t) /\ t = call.stages[1].touches
    <2>1. Head(call.stages) \in StageRec /\ Head(call.stages) = call.stages[1]
      BY <1>2
    <2> QED BY <2>1 DEF StageRec
  <1>4. next \in CallRec /\ next.stages = call.stages /\ next.then = call.then /\ next.ch = call.ch /\ next.pc = "emit"
    BY <1>2 DEF CallRec
  <1>5. CallInv(next)
    BY <1>2, <1>4 DEF CallInv
  <1>6. /\ calls \in [Request -> CallRec \union {Idle}] /\ at \in [Channel -> [Column -> Nat]]
        /\ version \in [List -> Nat] /\ cursor \in [Channel -> Nat]
    BY DEF IInv, TypeInv
  <1> HIDE DEF next, t, call
  <1>7. /\ calls' \in [Request -> CallRec \union {Idle}]
        /\ calls'[r] = next /\ \A q \in Request : q # r => calls'[q] = calls[q]
    BY <1>1, <1>4, <1>6
  <1>8. /\ at' \in [Channel -> [Column -> Nat]] /\ version' \in [List -> Nat] /\ cursor' \in [Channel -> Nat]
        /\ \A k \in Column : at'[call.ch][k] = IF k \in t THEN at[call.ch][k] + 1 ELSE at[call.ch][k]
        /\ \A c \in Channel : c # call.ch => at'[c] = at[c] /\ cursor'[c] = cursor[c]
        /\ \A x \in List : version'[x] = IF x \in t THEN version[x] + 1 ELSE version[x]
        /\ cursor'[call.ch] = IF "out" \in t THEN 0 ELSE cursor[call.ch]
    BY <1>1, <1>2, <1>6
  <1>9. TypeInv'
    <2>1. ShownAs(t, call.ch) \subseteq Thing
      BY DEF ShownAs, Thing, List
    <2>2. excused' \subseteq Thing
      BY <1>1, <2>1 DEF IInv, TypeInv, Thing
    <2> QED BY <1>1, <1>7, <1>8, <2>2 DEF IInv, TypeInv
  <1>10. \A q \in Request : CallInv(calls[q])'
    BY <1>5, <1>7 DEF IInv, CallInv
  <1>11. ServerGrows
    <2>1. ASSUME NEW c \in Channel, NEW k \in Column PROVE at[c][k] <= at'[c][k]
      BY <1>6, <1>8
    <2>2. ASSUME NEW x \in List PROVE Behind(Now(x), Now(x)')
      <3>1. /\ Now(x) \in ListState /\ Now(x).ver = version[x] /\ Now(x)' \in ListState /\ Now(x)'.ver = version'[x]
            /\ version[x] \in Nat /\ version'[x] \in Nat
        BY <1>6, <1>8, <1>9, NowTypes, NowTypesNext DEF IInv
      <3>2. CASE x \in t
        BY <1>8, <3>1, <3>2 DEF Behind
      <3>3. CASE x \notin t /\ x # "info"
        <4>1. Now(x)' = Now(x)
          BY <1>8, <3>3 DEF Now, Never
        <4> QED BY <3>1, <4>1, BehindItself DEF Behind
      <3>4. CASE x \notin t /\ x = "info"
        <4>1. cursor' = cursor /\ version'[x] = version[x]
          BY <1>1, <1>3, <1>6, <1>8, <3>4
        <4>2. \A c \in Channel : at[c]["log"] <= at'[c]["log"] /\ cursor[c] <= cursor[c]
          BY <1>6, <2>1 DEF Column
        <4>3. /\ Now(x) = [ver |-> version[x], log |-> [c \in Channel |-> at[c]["log"]], cursor |-> cursor]
              /\ Now(x)' = [ver |-> version'[x], log |-> [c \in Channel |-> at'[c]["log"]], cursor |-> cursor']
          BY <3>4 DEF Now
        <4> QED BY <4>1, <4>2, <4>3 DEF Behind
      <3> QED BY <3>2, <3>3, <3>4
    <2> QED BY <2>1, <2>2 DEF ServerGrows
  <1>12. \A m \in DOMAIN loads' : LoadInv(m)'
    BY <1>1, <1>9, <1>11, LoadsStayBehind DEF IInv
  <1>13. ASSUME NEW x \in List, x \notin SeenIn(t) PROVE Now(x)' = Now(x)
    <2>1. x \notin t /\ version'[x] = version[x]
      BY <1>8, <1>13 DEF SeenIn, Shown
    <2>2. CASE x # "info"
      BY <2>1, <2>2 DEF Now, Never
    <2>3. CASE x = "info"
      <3>1. "log" \notin t /\ "out" \notin t
        BY <1>3, <1>13, <2>1, <2>3 DEF SeenIn, Shown
      <3>2. cursor' = cursor /\ \A c \in Channel : at'[c]["log"] = at[c]["log"]
        BY <1>1, <1>6, <1>8, <3>1 DEF Column
      <3>3. [c \in Channel |-> at'[c]["log"]] = [c \in Channel |-> at[c]["log"]]
        BY <3>2
      <3> QED BY <2>1, <2>3, <3>2, <3>3 DEF Now
    <2> QED BY <2>2, <2>3
  <1>14. ASSUME selected # None, "page" \notin SeenIn(t) \/ call.ch # selected PROVE at'[selected] = at[selected]
    <2>1. selected \in Channel
      BY <1>14 DEF IInv, TypeInv
    <2>2. CASE call.ch # selected
      BY <1>8, <2>1, <2>2
    <2>3. CASE call.ch = selected
      <3>1. \A k \in Column : k \notin t
        BY <1>14, <2>3 DEF SeenIn, Shown
      <3>2. \A k \in Column : at'[selected][k] = at[selected][k]
        BY <1>8, <2>3, <3>1
      <3> QED BY <1>6, <1>8, <2>1, <3>2
    <2> QED BY <2>2, <2>3
  <1>15. ASSUME NEW x \in SeenIn(t), x \notin excused', Concerns(x, call.ch) PROVE Due(x)'
    <2>1. 1 \in DOMAIN call.stages /\ CoversAt(call.stages, call.then, 1)
      BY <1>2 DEF CoversItself
    <2>2. ASSUME x \in Brought(call.then) \/ x \in Told(call.stages, 1) PROVE Due(x)'
      <3>1. PromisedBy(calls[r], x)'
        BY <1>1, <1>4, <1>7, <1>15, <2>2 DEF PromisedBy, Concerns
      <3> QED BY <3>1 DEF Promised, Due, PromisedBy, Concerns
    <2>3. CASE TypesFrom(call.stages, 1) # {}
      BY <1>3, <2>1, <2>2, <2>3 DEF CoversAt
    <2>4. CASE TypesFrom(call.stages, 1) = {} /\ call.then # {}
      BY <1>3, <2>1, <2>2, <2>4 DEF CoversAt
    <2>5. CASE TypesFrom(call.stages, 1) = {} /\ call.then = {}
      <3>1. ~Announced(call.stages)
        <4> SUFFICES ASSUME NEW i \in DOMAIN call.stages, call.stages[i].events # << >> PROVE FALSE
          BY DEF Announced
        <4>1. call.stages[i] \in StageRec /\ i >= 1
          BY <1>2
        <4>2. call.stages[i].events \in Seq(EventType)
          BY <4>1 DEF StageRec
        <4>3. 1 \in DOMAIN call.stages[i].events /\ call.stages[i].events[1] \in EventType
          BY <4>2
        <4>4. call.stages[i].events[1] \in TypesFrom(call.stages, 1)
          BY <4>1, <4>3 DEF TypesFrom
        <4> QED BY <2>5, <4>4
      <3>2. x \in ShownAs(t, call.ch)
        <4>1. CASE x = "page"
          BY <1>3, <1>15, <4>1 DEF SeenIn, ShownAs, Concerns, List, Touch, Column
        <4>2. CASE x # "page"
          BY <1>15, <4>2 DEF SeenIn, ShownAs, Shown
        <4> QED BY <4>1, <4>2
      <3> QED BY <1>1, <1>15, <2>5, <3>1, <3>2
    <2> QED BY <2>3, <2>4, <2>5
  <1>16. ASSUME NEW x \in Shown, x \notin SeenIn(t) \/ ~Concerns(x, call.ch), x # "page" \/ selected # None, Due(x)
         PROVE  Due(x)'
    <2>1. x \in List => Now(x)' = Now(x)
      BY <1>13, <1>16 DEF Concerns, List
    <2>2. x = "page" /\ selected # None => at'[selected] = at[selected]
      BY <1>14, <1>16 DEF Concerns
    <2>3. Fetched(x) => Fetched(x)'
      BY <1>1, <2>1, <2>2, FetchedStays DEF IInv
    <2>4. Signalled(x) => Signalled(x)'
      BY <1>1 DEF Signalled, Concerns
    <2>5. Promised(x) => Promised(x)'
      <3> SUFFICES ASSUME NEW q \in Request, PromisedBy(calls[q], x) PROVE PromisedBy(calls[q], x)'
        BY DEF Promised, PromisedBy, Concerns
      <3>1. calls'[q].then = calls[q].then /\ calls'[q].stages = calls[q].stages /\ calls'[q].ch = calls[q].ch
        BY <1>4, <1>7 DEF call
      <3> QED BY <1>1, <3>1 DEF PromisedBy, Concerns
    <2> QED BY <1>16, <2>3, <2>4, <2>5 DEF Due
  <1>17. ListInv'
    <2> SUFFICES ASSUME NEW x \in List, x \notin excused' PROVE shown'[x] = Now(x)' \/ Due(x)'
      BY DEF ListInv
    <2>1. x \in Shown /\ x # "page" /\ Concerns(x, call.ch) /\ x \notin excused
      BY <1>1 DEF Shown, List, Concerns
    <2>2. CASE x \in SeenIn(t)
      BY <1>15, <2>1, <2>2
    <2>3. CASE x \notin SeenIn(t)
      BY <1>1, <1>13, <1>16, <2>1, <2>3 DEF IInv, ListInv
    <2> QED BY <2>2, <2>3
  <1>18. ASSUME "page" \notin excused', selected # None
         PROVE  \/ Due("page")'
                \/ at'[selected] = at[selected] /\ (Due("page") => Due("page")')
    <2>1. CASE "page" \in SeenIn(t) /\ call.ch = selected
      BY <1>15, <1>18, <2>1 DEF Concerns
    <2>2. CASE "page" \notin SeenIn(t) \/ call.ch # selected
      BY <1>14, <1>16, <1>18, <2>2 DEF Concerns, Shown
    <2> QED BY <2>1, <2>2
  <1>19. PageInv'
    BY <1>1, <1>18 DEF IInv, PageInv
  <1>20. ReadInv'
    <2> SUFFICES ASSUME selected # None, "page" \notin excused', "read" \notin excused', ~Due("page")'
                 PROVE  at'[selected]["log"] <= cursor'[selected] \/ MarkDue'
      BY <1>1 DEF ReadInv
    <2>1. at'[selected] = at[selected] /\ ~Due("page")
      BY <1>18
    <2>2. cursor'[selected] = cursor[selected]
      BY <1>1, <1>8 DEF IInv, TypeInv
    <2>3. at[selected]["log"] <= cursor[selected] \/ MarkDue
      BY <1>1, <2>1 DEF IInv, ReadInv
    <2>4. MarkDue => MarkDue'
      BY <1>1, <2>1 DEF MarkDue
    <2> QED BY <2>1, <2>2, <2>3, <2>4
  <1> QED BY <1>9, <1>10, <1>12, <1>17, <1>19, <1>20 DEF IInv

\* Whatever an event would have brought is excused when it is lost.
LEMMA LostIsExcused ==
  ASSUME NEW es, NEW e \in es, e.type \in EventType,
         NEW x \in Says(e.type), Concerns(x, e.ch)
  PROVE  x \in Lost(es)
  <1> DEFINE lost(d) == CASE d.type = "message.created" -> ShownAs({"log"}, d.ch)
                          [] d.type \in {"task.updated", "reaction.updated"} -> ShownAs({"board"}, d.ch)
                          [] d.type = "action.prepared" -> {"actions"}
                          [] d.type = "action.updated" -> {"actions", "info"}
                          [] d.type = "machine.updated" -> {"machines", "info"}
  <1>1. x \in lost(e)
    <2>1. CASE e.type = "message.created"
      <3>1. x \in {"page", "info"} /\ lost(e) = ShownAs({"log"}, e.ch)
        BY <2>1, SaysByType
      <3> QED BY <3>1 DEF Concerns, ShownAs, List, Column
    <2>2. CASE e.type \in {"task.updated", "reaction.updated"}
      <3>1. x = "page" /\ lost(e) = ShownAs({"board"}, e.ch)
        BY <2>2, SaysByType
      <3> QED BY <3>1 DEF Concerns, ShownAs, List, Column
    <2>3. CASE e.type = "action.prepared"
      BY <2>3, SaysByType
    <2>4. CASE e.type = "action.updated"
      BY <2>4, SaysByType
    <2>5. CASE e.type = "machine.updated"
      BY <2>5, SaysByType
    <2> QED BY <2>1, <2>2, <2>3, <2>4, <2>5 DEF EventType
  <1>2. Lost(es) = UNION {lost(d) : d \in es}
    BY DEF Lost
  <1> HIDE DEF lost
  <1> QED BY <1>1, <1>2

LEMMA LostIsThing == ASSUME NEW es, \A e \in es : e.type \in EventType PROVE Lost(es) \subseteq Thing
  <1> SUFFICES ASSUME NEW x \in Lost(es) PROVE x \in Thing
    OBVIOUS
  <1>1. \A t, ch : ShownAs(t, ch) \subseteq Thing
    BY DEF ShownAs, Thing, List
  <1> DEFINE lost(d) == CASE d.type = "message.created" -> ShownAs({"log"}, d.ch)
                          [] d.type \in {"task.updated", "reaction.updated"} -> ShownAs({"board"}, d.ch)
                          [] d.type = "action.prepared" -> {"actions"}
                          [] d.type = "action.updated" -> {"actions", "info"}
                          [] d.type = "machine.updated" -> {"machines", "info"}
  <1>2. PICK e \in es : x \in lost(e)
    BY DEF Lost
  <1>3. CASE e.type = "message.created"
    BY <1>1, <1>2, <1>3
  <1>4. CASE e.type \in {"task.updated", "reaction.updated"}
    <2>1. lost(e) = ShownAs({"board"}, e.ch)
      BY <1>4
    <2> QED BY <1>1, <1>2, <2>1
  <1>5. CASE e.type \in {"action.prepared", "action.updated", "machine.updated"}
    <2>1. lost(e) \subseteq {"actions", "machines", "info"}
      BY <1>5
    <2> QED BY <1>2, <2>1 DEF Thing, List
  <1> QED BY <1>3, <1>4, <1>5 DEF EventType

\* The events of a stage are sent, or are lost; the request goes on, or ends.
LEMMA EmitInv ==
  ASSUME IInv, NEW r \in Request, Emit(r)
  PROVE  IInv'
  <1> DEFINE call == calls[r]
             types == Head(call.stages).events
             es == [i \in DOMAIN types |-> [type |-> types[i], ch |-> call.ch]]
             next == [call EXCEPT !.stages = Tail(@),
                                  !.pc = IF Len(call.stages) = 1 THEN "done" ELSE "run"]
             Event == [type : EventType, ch : Channel]
  <1>1. /\ call.pc = "emit"
        /\ events' = IF conn = "up" THEN events \o es ELSE events
        /\ excused' = IF conn = "up" THEN excused ELSE excused \union Lost(Range(es))
        /\ calls' = [calls EXCEPT ![r] = IF next.pc = "done" /\ call.then = {} THEN Idle ELSE next]
        /\ UNCHANGED <<server, client, conn, loads>>
    BY DEF Emit
  <1>2. /\ call \in CallRec /\ CoversItself(call.stages, call.then)
        /\ call.stages \in Seq(StageRec) /\ call.stages # << >> /\ call.ch \in Channel
    BY <1>1, CallTypes DEF Idle, CallRec
  <1>3. types \in Seq(EventType)
    <2>1. Head(call.stages) \in StageRec
      BY <1>2
    <2> QED BY <2>1 DEF StageRec
  <1> HIDE DEF types
  <1>4. /\ es \in Seq(Event) /\ DOMAIN es = DOMAIN types
        /\ \A i \in DOMAIN types : types[i] \in EventType /\ es[i].type = types[i] /\ es[i].ch = call.ch
    <2>1. \A i \in DOMAIN types : types[i] \in EventType
      BY <1>3
    <2>2. DOMAIN types = 1 .. Len(types) /\ Len(types) \in Nat
      BY <1>3
    <2> QED BY <1>2, <2>1, <2>2
  <1>5. \A e \in Range(es) : e.type \in EventType
    BY <1>4 DEF Range
  <1>6. /\ next \in CallRec /\ next.stages = Tail(call.stages) /\ next.then = call.then /\ next.ch = call.ch
        /\ next.pc = "done" <=> Tail(call.stages) = << >>
    <2>1. \A s \in Seq(StageRec) : s # << >> => /\ Tail(s) \in Seq(StageRec)
                                             /\ Len(s) = 1 <=> Tail(s) = << >>
      <3> TAKE s \in Seq(StageRec)
      <3> HAVE s # << >>
      <3>1. Tail(s) \in Seq(StageRec) /\ Len(Tail(s)) = Len(s) - 1 /\ Len(s) \in Nat \ {0}
        OBVIOUS
      <3>2. Tail(s) = << >> <=> Len(Tail(s)) = 0
        BY <3>1, EmptySeq
      <3> QED BY <3>1, <3>2
    <2>2. /\ Tail(call.stages) \in Seq(StageRec)
          /\ Len(call.stages) = 1 <=> Tail(call.stages) = << >>
      BY <1>2, <2>1
    <2> QED BY <1>2, <2>2 DEF CallRec
  <1> HIDE DEF es, next, call
  <1>7. CallInv(next)
    <2>1. CoversItself(Tail(call.stages), call.then)
      BY <1>2, RestCovers
    <2> QED BY <1>6, <2>1 DEF CallInv
  <1>8. /\ calls \in [Request -> CallRec \union {Idle}] /\ events \in Seq(Event) /\ excused \subseteq Thing
    BY DEF IInv, TypeInv
  <1>9. /\ calls' \in [Request -> CallRec \union {Idle}]
        /\ \A q \in Request : q # r => calls'[q] = calls[q]
        /\ calls'[r] = next \/ (next.pc = "done" /\ call.then = {} /\ calls'[r] = Idle)
    BY <1>1, <1>6, <1>8
  <1>10. UNCHANGED <<at, version, cursor, selected, page, shown, conn, loads>>
    BY <1>1 DEF server, client
  <1> HIDE DEF Event
  <1>11. events' \in Seq(Event)
    BY <1>1, <1>4, <1>8
  <1>12. TypeInv'
    <2>1. excused' \subseteq Thing
      BY <1>1, <1>5, <1>8, LostIsThing
    <2> QED BY <1>9, <1>10, <1>11, <2>1 DEF IInv, TypeInv, Event
  <1>13. \A q \in Request : CallInv(calls[q])'
    <2>1. \A q \in Request : CallInv(calls'[q])
      BY <1>7, <1>9, IdleFacts DEF IInv
    <2> QED BY <2>1 DEF CallInv
  <1>14. ASSUME NEW x \in Shown \ excused', Signalled(x) PROVE Signalled(x)'
    <2>1. PICK i \in DOMAIN events : x \in Says(events[i].type) /\ Concerns(x, events[i].ch)
      BY <1>14 DEF Signalled
    <2>2. i \in DOMAIN events' /\ events'[i] = events[i]
      BY <1>1, <1>4, <1>8
    <2> QED BY <1>10, <2>1, <2>2 DEF Signalled, Concerns
  <1>15. ASSUME NEW x \in Shown \ excused', NEW n \in DOMAIN types, x \in Says(types[n]), Concerns(x, call.ch)
         PROVE  Signalled(x)'
    <2>1. CASE conn = "up"
      <3>1. Len(events) + n \in DOMAIN events' /\ events'[Len(events) + n] = es[n]
        BY <1>1, <1>3, <1>4, <1>8, <2>1
      <3> QED BY <1>4, <1>10, <1>15, <3>1 DEF Signalled, Concerns
    <2>2. CASE conn # "up"
      <3>1. es[n] \in Range(es) /\ es[n].type = types[n] /\ es[n].type \in EventType /\ es[n].ch = call.ch
        BY <1>4 DEF Range
      <3>2. x \in Lost(Range(es))
        BY <1>15, <3>1, LostIsExcused
      <3> QED BY <1>1, <1>15, <2>2, <3>2
    <2> QED BY <2>1, <2>2
  <1>16. ASSUME NEW x \in Shown \ excused', Promised(x) PROVE Signalled(x)' \/ Promised(x)'
    <2>1. PICK q \in Request : PromisedBy(calls[q], x)
      BY <1>16 DEF Promised
    <2>2. CASE q # r
      <3>1. calls'[q] = calls[q]
        BY <1>9, <2>2
      <3> QED BY <1>10, <2>1, <3>1 DEF Promised, PromisedBy, Concerns
    <2>3. CASE q = r
      <3>1. Concerns(x, call.ch) /\ (x \in Brought(call.then) \/ x \in Told(call.stages, 1))
        BY <2>1, <2>3 DEF PromisedBy, call
      <3>2. x \in Told(call.stages, 1) => \/ \E n \in DOMAIN types : x \in Says(types[n])
                                          \/ x \in Told(Tail(call.stages), 1)
        BY <1>2, ToldIsBrought DEF types
      <3>3. CASE \E n \in DOMAIN types : x \in Says(types[n])
        BY <1>15, <3>1, <3>3
      <3>4. CASE x \in Brought(call.then) \/ x \in Told(Tail(call.stages), 1)
        <4>1. calls'[r] # Idle => calls'[r] = next
          BY <1>9
        <4>2. calls'[r] = Idle => calls'[r] = next
          BY <1>6, <1>9, <3>4, NothingTold, NothingBrought
        <4> QED BY <1>6, <1>10, <3>1, <3>4, <4>1, <4>2 DEF Promised, PromisedBy, Concerns
      <3> QED BY <3>1, <3>2, <3>3, <3>4
    <2> QED BY <2>2, <2>3
  <1>17. excused \subseteq excused'
    BY <1>1
  <1> QED BY <1>1, <1>12, <1>13, <1>14, <1>16, <1>17, SignalStep

\* What the socket held is excused.
LEMMA CloseInv ==
  ASSUME IInv, Close
  PROVE  IInv'
  <1> DEFINE Event == [type : EventType, ch : Channel]
  <1>1. /\ conn' = "down" /\ events' = << >> /\ excused' = excused \union Lost(Range(events))
        /\ UNCHANGED <<server, client, calls, loads>>
    BY DEF Close
  <1>2. UNCHANGED <<at, version, cursor, selected, page, shown, calls, loads>>
    BY <1>1 DEF server, client
  <1>3. events \in Seq(Event) /\ excused \subseteq Thing
    BY DEF IInv, TypeInv
  <1>4. \A i \in DOMAIN events : events[i].type \in EventType /\ events[i] \in Range(events)
    <2> HIDE DEF Event
    <2>1. \A i \in DOMAIN events : events[i] \in Event
      BY <1>3
    <2> QED BY <2>1 DEF Range, Event
  <1>5. TypeInv'
    <2>1. \A e \in Range(events) : e.type \in EventType
      BY <1>4 DEF Range
    <2>2. excused' \subseteq Thing
      BY <1>1, <1>3, <2>1, LostIsThing
    <2> QED BY <1>1, <1>2, <2>2 DEF IInv, TypeInv
  <1>6. \A r \in Request : CallInv(calls[r])'
    BY <1>2 DEF IInv
  <1>7. ASSUME NEW x \in Shown \ excused', Signalled(x) PROVE FALSE
    <2>1. PICK i \in DOMAIN events : x \in Says(events[i].type) /\ Concerns(x, events[i].ch)
      BY <1>7 DEF Signalled
    <2>2. x \in Lost(Range(events))
      BY <1>4, <2>1, LostIsExcused
    <2> QED BY <1>1, <1>7, <2>2
  <1>8. ASSUME NEW x \in Shown \ excused', Promised(x) PROVE Promised(x)'
    BY <1>2, <1>8 DEF Promised, PromisedBy, Concerns
  <1>9. excused \subseteq excused'
    BY <1>1
  <1> QED BY <1>1, <1>5, <1>6, <1>7, <1>8, <1>9, SignalStep

\* The socket opens: nothing that is due changes.
LEMMA ConnectInv ==
  ASSUME IInv, Connect \/ Subscribe
  PROVE  IInv'
  <1>1. UNCHANGED <<server, client, calls, events, loads, excused>> /\ conn' \in {"opening", "up"}
    BY DEF Connect, Subscribe
  <1>2. UNCHANGED <<at, version, cursor, selected, page, shown, calls, events, loads, excused>>
    BY <1>1 DEF server, client
  <1>3. TypeInv'
    BY <1>1, <1>2 DEF IInv, TypeInv
  <1>4. \A r \in Request : CallInv(calls[r])'
    BY <1>2 DEF IInv
  <1>5. ASSUME NEW x \in Shown, Signalled(x) \/ Promised(x) PROVE Signalled(x)' \/ Promised(x)'
    BY <1>2, <1>5 DEF Signalled, Promised, PromisedBy, Concerns
  <1> QED BY <1>1, <1>3, <1>4, <1>5, SignalStep

\* The server starts again: everything is excused, and nothing is under way.
LEMMA RestartInv ==
  ASSUME IInv, Restart
  PROVE  IInv'
  <1>1. /\ version' = [version EXCEPT !["machines"] = @ + 1, !["info"] = @ + 1]
        /\ calls' = [r \in Request |-> Idle] /\ loads' = EmptyBag /\ events' = << >>
        /\ conn' = "down" /\ excused' = Thing
        /\ UNCHANGED <<at, cursor, selected, page, shown>>
    BY DEF Restart, client
  <1>2. DOMAIN loads' = {} /\ loads' \in [DOMAIN loads' -> Nat \ {0}]
    BY <1>1, EmptyDomain
  <1>3. version' \in [List -> Nat]
    <2>1. version \in [List -> Nat] /\ "machines" \in List /\ "info" \in List
      BY DEF IInv, TypeInv, List
    <2> QED BY <1>1, <2>1
  <1>4. TypeInv'
    <2>1. calls' \in [Request -> CallRec \union {Idle}]
      BY <1>1
    <2>2. events' \in Seq([type : EventType, ch : Channel]) /\ conn' = "down" /\ excused' \subseteq Thing
      BY <1>1
    <2>3. DOMAIN loads' \subseteq LoadRec
      BY <1>2
    <2>4. UNCHANGED <<at, cursor, selected, page, shown>>
      BY <1>1
    <2> QED BY <1>2, <1>3, <2>1, <2>2, <2>3, <2>4 DEF IInv, TypeInv
  <1>5. \A r \in Request : CallInv(calls[r])'
    BY <1>1, IdleFacts DEF CallInv
  <1>6. ListInv' /\ PageInv' /\ ReadInv'
    BY <1>1 DEF ListInv, PageInv, ReadInv, Thing
  <1> QED BY <1>2, <1>4, <1>5, <1>6 DEF IInv

\* The page is opened anew: it shows nothing, and each list is being loaded.
LEMMA OpenInv ==
  ASSUME IInv, Open
  PROVE  IInv'
  <1> DEFINE new == {Load(<<l>>, None) : l \in List}
  <1>1. /\ selected' = None /\ page' = [ch |-> None, at |-> [k \in Column |-> 0]]
        /\ shown' = [l \in List |-> Never] /\ loads' = SetToBag(new)
        /\ conn' = "down" /\ events' = << >> /\ excused' = {}
        /\ calls' = [r \in Request |-> Disowned(calls[r])]
        /\ UNCHANGED <<at, version, cursor>>
    BY DEF Open, server
  <1>2. DOMAIN loads' = new /\ loads' \in [DOMAIN loads' -> Nat \ {0}]
    BY <1>1 DEF SetToBag
  <1>3. ASSUME NEW l \in List
        PROVE  /\ Load(<<l>>, None) \in LoadRec /\ LoadInv(Load(<<l>>, None))'
               /\ Brings(Load(<<l>>, None), l)'
    <2>1. Load(<<l>>, None) = [pc |-> "list", todo |-> <<l>>]
      BY DEF Load, List
    <2>2. <<l>> \in Todo /\ l \in Range(<<l>>)
      BY DEF List, Todo, Range
    <2> QED BY <2>1, <2>2 DEF LoadRec, ListRec, LoadInv, Brings
  <1> HIDE DEF new
  <1>4. \A m \in DOMAIN loads' : m \in LoadRec /\ LoadInv(m)'
    BY <1>2, <1>3 DEF new
  <1>5. \A l \in List : Due(l)'
    BY <1>2, <1>3 DEF new, Due, Fetched
  <1>6. calls \in [Request -> CallRec \union {Idle}] /\ \A r \in Request : CallInv(calls[r])
    BY DEF IInv, TypeInv
  <1>7. \A r \in Request : calls'[r] \in CallRec \union {Idle} /\ CallInv(calls'[r])
    BY <1>1, <1>6, DisownedInv
  <1>8. Never \in ListState
    BY DEF Never, ListState
  <1>9. TypeInv'
    <2>1. calls' \in [Request -> CallRec \union {Idle}]
      BY <1>1, <1>7
    <2> QED BY <1>1, <1>2, <1>4, <1>8, <2>1 DEF IInv, TypeInv
  <1>10. \A r \in Request : CallInv(calls[r])'
    BY <1>7 DEF CallInv
  <1>11. ListInv' /\ PageInv' /\ ReadInv'
    BY <1>1, <1>5 DEF ListInv, PageInv, ReadInv
  <1> QED BY <1>4, <1>9, <1>10, <1>11 DEF IInv

-----------------------------------------------------------------------------
(* The invariant.                                                          *)

LEMMA InitInv == Init => IInv
  <1> SUFFICES ASSUME Init PROVE IInv
    OBVIOUS
  <1>1. /\ at = [c \in Channel |-> [k \in Column |-> 0]]
        /\ version = [l \in List |-> 0] /\ cursor = [c \in Channel |-> 0]
        /\ calls = [r \in Request |-> Idle] /\ conn = "up" /\ events = << >>
        /\ selected = Home /\ page = [ch |-> Home, at |-> at[Home]]
        /\ shown = [l \in List |-> Now(l)] /\ loads = EmptyBag /\ excused = {}
    BY DEF Init
  <1>2. DOMAIN loads = {} /\ loads \in [DOMAIN loads -> Nat \ {0}]
    BY <1>1, EmptyDomain
  <1>3. Home \in Channel
    BY ClientAssumption
  <1>4. /\ at \in [Channel -> [Column -> Nat]] /\ version \in [List -> Nat] /\ cursor \in [Channel -> Nat]
    BY <1>1
  <1>5. \A l \in List : Now(l) \in ListState
    <2> DEFINE none == [c \in Channel |-> 0]
    <2> SUFFICES ASSUME NEW l \in List PROVE Now(l) \in ListState
      OBVIOUS
    <2>1. version[l] = 0 /\ none \in [Channel -> Nat] /\ [c \in Channel |-> at[c]["log"]] \in [Channel -> Nat]
      BY <1>1, <1>4 DEF Column
    <2>2. \/ Now(l) = [ver |-> version[l], log |-> [c \in Channel |-> at[c]["log"]], cursor |-> cursor]
          \/ Now(l) = [ver |-> version[l], log |-> none, cursor |-> none]
      BY DEF Now, Never
    <2> HIDE DEF none
    <2> QED BY <1>4, <2>1, <2>2 DEF ListState
  <1>6. TypeInv
    <2>1. page \in [ch : Channel \union {None}, at : [Column -> Nat]]
      BY <1>1, <1>3, <1>4
    <2>2. shown \in [List -> ListState]
      BY <1>1, <1>5
    <2> QED BY <1>1, <1>2, <1>3, <1>4, <2>1, <2>2 DEF TypeInv
  <1>7. \A r \in Request : CallInv(calls[r])
    BY <1>1, IdleFacts
  <1>8. ListInv /\ PageInv
    BY <1>1 DEF ListInv, PageInv
  <1>9. at[selected]["log"] = 0 /\ cursor[selected] = 0
    BY <1>1, <1>3 DEF Column
  <1>10. ReadInv
    BY <1>9 DEF ReadInv
  <1> QED BY <1>2, <1>6, <1>7, <1>8, <1>10 DEF IInv

LEMMA StepInv ==
  ASSUME IInv, Step
  PROVE  IInv'
  <1>0. BagToSet(loads) = DOMAIN loads
    BY DEF BagToSet
  <1>1. ASSUME NEW l \in DOMAIN loads, NEW ks \in {{"log", "marks"}, {"board"}}, Answer(l, ks) PROVE IInv'
    <2>1. ks \in SUBSET Column
      BY DEF Column
    <2> QED BY <1>1, <2>1, AnswerInv
  <1>2. ASSUME NEW l \in DOMAIN loads, Store(l) PROVE IInv'
    BY <1>2, StoreInv
  <1>3. ASSUME NEW l \in DOMAIN loads, Mark(l) PROVE IInv'
    BY <1>3, MarkInv
  <1>4. ASSUME NEW l \in DOMAIN loads, ReadList(l) PROVE IInv'
    BY <1>4, ReadListInv
  <1>5. ASSUME NEW l \in DOMAIN loads, StoreList(l) PROVE IInv'
    BY <1>5, StoreListInv
  <1>6. ASSUME NEW r \in Request, Commit(r) PROVE IInv'
    BY <1>6, CommitInv
  <1>7. ASSUME NEW r \in Request, Emit(r) PROVE IInv'
    BY <1>7, EmitInv
  <1>8. ASSUME NEW r \in Request, Answered(r) PROVE IInv'
    BY <1>8, AnsweredInv
  <1>9. CASE Receive
    BY <1>9, ReceiveInv
  <1>10. CASE Connect \/ Subscribe
    BY <1>10, ConnectInv
  <1> QED BY <1>0, <1>1, <1>2, <1>3, <1>4, <1>5, <1>6, <1>7, <1>8, <1>9, <1>10 DEF Step

LEMMA FailureInv ==
  ASSUME IInv, Failure
  PROVE  IInv'
  <1>0. BagToSet(loads) = DOMAIN loads
    BY DEF BagToSet
  <1>1. CASE Close
    BY <1>1, CloseInv
  <1>2. CASE Restart
    BY <1>2, RestartInv
  <1>3. ASSUME NEW l \in DOMAIN loads, FailLoad(l) PROVE IInv'
    BY <1>3, FailLoadInv
  <1>4. ASSUME NEW r \in Request, FailCall(r) PROVE IInv'
    BY <1>4, FailCallInv
  <1> QED BY <1>0, <1>1, <1>2, <1>3, <1>4 DEF Failure

LEMMA UnchangedInv ==
  ASSUME IInv, UNCHANGED vars
  PROVE  IInv'
  <1>1. UNCHANGED <<at, version, cursor, selected, page, shown, calls, conn, events, loads, excused>>
    BY DEF vars, server, client
  <1>2. TypeInv' /\ \A r \in Request : CallInv(calls[r])'
    BY <1>1 DEF IInv, TypeInv
  <1>3. UNCHANGED <<server, client, loads>>
    BY DEF vars
  <1>4. ASSUME NEW x \in Shown, Signalled(x) \/ Promised(x) PROVE Signalled(x)' \/ Promised(x)'
    BY <1>1, <1>4 DEF Signalled, Promised, PromisedBy, Concerns
  <1> QED BY <1>1, <1>2, <1>3, <1>4, SignalStep

LEMMA NextInv == IInv /\ [Next]_vars => IInv'
  <1> SUFFICES ASSUME IInv, [Next]_vars PROVE IInv'
    OBVIOUS
  <1>1. CASE Step
    BY <1>1, StepInv
  <1>2. CASE \E c \in Channel : Select(c)
    BY <1>2, SelectInv
  <1>3. CASE \E r \in Request :
                    \/ \E route \in Own : selected # None /\ Arrive(r, route, selected, TRUE)
                    \/ \E route \in OthersInChannel, c \in Channel : Arrive(r, route, c, FALSE)
                    \/ \E route \in Others : Arrive(r, route, Home, FALSE)
    BY <1>3, ArriveInv
  <1>4. CASE Open
    BY <1>4, OpenInv
  <1>5. CASE Failure
    BY <1>5, FailureInv
  <1>6. CASE UNCHANGED vars
    BY <1>6, UnchangedInv
  <1>7. CASE \E c \in Channel : \E n \in 1 .. at[c]["log"] : ReadElsewhere(c, n)
    BY <1>7, ReadElsewhereInv
  <1> QED BY <1>1, <1>2, <1>3, <1>4, <1>5, <1>6, <1>7 DEF Next

\* Whatever the page does not show as the server has it, and is not excused for,
\* is being fetched, is announced on the socket, or will be.
THEOREM Invariance == Spec => []IInv
  BY InitInv, NextInv, PTL DEF Spec

\* The variables of the page and of the server have their types.
THEOREM TypeCorrect == Spec => []TypeOK
  <1>1. IInv => TypeOK
    BY DEF IInv, TypeInv, TypeOK
  <1> QED BY <1>1, Invariance, PTL

\* When nothing is under way nothing is due.
LEMMA QuietOwesNothing ==
  ASSUME TypeInv, Quiet
  PROVE  ~MarkDue /\ \A x : ~Due(x)
  <1>1. DOMAIN loads = {} /\ events = << >> /\ \A r \in Request : calls[r] = Idle
    BY EmptyDomain DEF Quiet
  <1>2. \A x : ~Promised(x)
    BY <1>1, IdleFacts DEF Promised
  <1> QED BY <1>1, <1>2 DEF MarkDue, Due, Fetched, Signalled

\* Once every load and request is done and every event received, the page shows
\* the selected channel and each list as the server has them, unless a failure,
\* an answer that overtook a newer one or a change without an event is the reason.
THEOREM QuietCurrent == Spec => []QuietIsCurrent
  <1>1. ASSUME IInv, Quiet
        PROVE  /\ selected # None /\ "page" \notin excused => page = [ch |-> selected, at |-> at[selected]]
               /\ \A l \in List \ excused : shown[l] = Now(l)
    BY <1>1, QuietOwesNothing DEF IInv, ListInv, PageInv
  <1>2. IInv => QuietIsCurrent
    BY <1>1 DEF QuietIsCurrent
  <1> QED BY <1>2, Invariance, PTL

\* Then the channel that is shown has no unread badge: what was stored of it was
\* marked read to its end, and the badges were fetched after that.
THEOREM SelectedRead == Spec => []SelectedIsRead
  <1>1. ASSUME IInv, Quiet, selected # None, excused \intersect {"page", "info", "read"} = {}
        PROVE  Unread(shown["info"], selected) = 0
    <2>1. "page" \notin excused /\ "info" \notin excused /\ "read" \notin excused
      BY <1>1
    <2>2. at[selected]["log"] <= cursor[selected]
      BY <1>1, <2>1, QuietOwesNothing DEF IInv, ReadInv
    <2>3. shown["info"] = Now("info")
      BY <1>1, <2>1, QuietOwesNothing DEF IInv, ListInv, List
    <2>4. selected \in Channel
      BY <1>1 DEF IInv, TypeInv
    <2>5. shown["info"].log[selected] = at[selected]["log"] /\ shown["info"].cursor[selected] = cursor[selected]
      BY <2>3, <2>4 DEF Now
    <2>6. at[selected]["log"] \in Nat /\ cursor[selected] \in Nat
      BY <1>1, <2>4 DEF IInv, TypeInv, Column
    <2> QED BY <2>2, <2>5, <2>6 DEF Unread
  <1>2. IInv => SelectedIsRead
    BY <1>1 DEF SelectedIsRead
  <1> QED BY <1>2, Invariance, PTL
=============================================================================
