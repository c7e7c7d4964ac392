------------------------------- MODULE Fleet -------------------------------
(***************************************************************************)
(* The computers and the agents of one workspace, and the import of an     *)
(* agent's directory: services-context.ts (inspectRaft, importRaft),       *)
(* machine.service.ts, agent.service.ts, the machines and agents           *)
(* repositories, routes/daemon.ts, and daemon/src/workspace-import.ts.     *)
(* The requests to a daemon are those of ControlPlane.                     *)
(*                                                                         *)
(* An import asks the daemon of a computer for the name, takes a handle    *)
(* that is free, inserts the agent's row, and has the daemon copy the      *)
(* files; when that fails the row is removed again.  Each of these is      *)
(* awaited, so other calls come in between, and the daemon copies on when  *)
(* the server has given up.                                                *)
(***************************************************************************)
EXTENDS ControlPlane, FiniteSetsExt

CONSTANTS File,       \* what an imported directory holds
          MaxHandle,  \* bound: handles derived from one name
          MaxToken    \* bound: tokens of a machine

ASSUME FleetAssumption == MaxHandle \in Nat \ {0} /\ MaxToken \in Nat \ {0} /\ "daemon" \notin Request

\* The name itself, name-2, name-3, ...
Handle == 1 .. MaxHandle

VARIABLES machine,   \* machine rows and their tokens
          issuing,   \* tokens that were inserted and are to be noted on their machine
          agent,     \* agent rows, by handle
          op,        \* calls of the web API, each with the request of the same name
          work,      \* daemon: what it has done of each request
          disk,      \* daemon: whose each file in the directory of a handle is
          running    \* daemon: agents it is about to run

fleetVars == <<machine, issuing, agent, op, work, disk, running>>
allVars == <<vars, fleetVars>>

NoMachine == [row |-> "none", minted |-> 0, noted |-> 0]
NoAgent == [by |-> None, machine |-> None, creator |-> None]
NoOp == [pc |-> "idle", kind |-> None, machine |-> None, handle |-> 0]

FleetTypeOK ==
    /\ machine \in [Machine -> [row : {"none", "there", "gone"}, minted : 0 .. MaxToken, noted : 0 .. MaxToken]]
    /\ issuing \in [Machine -> SUBSET (1 .. MaxToken)]
    /\ agent \in [Handle -> [by : Request \cup {None, "daemon"}, machine : Machine \cup {None},
                             creator : Request \cup {None}]]
    /\ op \in [Request -> [pc : {"idle", "read", "list", "create", "request", "waiting", "tag", "rollback",
                                 "ok", "failed", "kept", "lost"},
                           kind : {None, "inspect", "import", "form"}, machine : Machine \cup {None},
                           handle : {0} \cup Handle]]
    /\ work \in [Request -> [copied : SUBSET File, failed : BOOLEAN]]
    /\ disk \in [Machine -> [Handle -> [File -> Request \cup {None}]]]
    /\ running \in [Machine -> SUBSET Handle]

\* A machine may have been set up before.
FleetInit ==
    /\ Init
    /\ machine \in [Machine -> {NoMachine, [row |-> "there", minted |-> 1, noted |-> 1]}]
    /\ issuing = [m \in Machine |-> {}]
    /\ agent = [h \in Handle |-> NoAgent]
    /\ op = [q \in Request |-> NoOp]
    /\ work = [q \in Request |-> [copied |-> {}, failed |-> FALSE]]
    /\ disk = [m \in Machine |-> [h \in Handle |-> [f \in File |-> None]]]
    /\ running = [m \in Machine |-> {}]

-----------------------------------------------------------------------------
(* Machines.                                                               *)

createMachine(m) ==
    /\ machine[m].row = "none"
    /\ machine' = [machine EXCEPT ![m].row = "there"]
    /\ UNCHANGED <<vars, issuing, agent, op, work, disk, running>>

\* issueToken, of a new machine or again: the token is inserted, ...
Mint(m) ==
    /\ machine[m].row # "none" /\ machine[m].minted < MaxToken
    /\ machine' = [machine EXCEPT ![m].minted = @ + 1]
    /\ issuing' = [issuing EXCEPT ![m] = @ \cup {machine'[m].minted}]
    /\ UNCHANGED <<vars, agent, op, work, disk, running>>

\* ... and then its first letters are noted on the row, if that is there.
setTokenPrefix(m, t) ==
    /\ t \in issuing[m]
    /\ issuing' = [issuing EXCEPT ![m] = @ \ {t}]
    /\ machine' = IF machine[m].row = "there" THEN [machine EXCEPT ![m].noted = t] ELSE machine
    /\ UNCHANGED <<vars, agent, op, work, disk, running>>

\* Agents of a deleted machine belong to none.  Its tokens, its connections and
\* its requests stay.
Unbound(m) == [h \in Handle |-> IF agent[h].machine = m THEN [agent[h] EXCEPT !.machine = None] ELSE agent[h]]

deleteMachine(m) ==
    /\ machine[m].row = "there"
    /\ machine' = [machine EXCEPT ![m].row = "gone"]
    /\ agent' = Unbound(m)
    /\ UNCHANGED <<vars, issuing, op, work, disk, running>>

\* A daemon connects with a token of its machine.
ConnectWithToken(m, s) ==
    /\ machine[m].minted > 0
    /\ Connect(m, s)
    /\ UNCHANGED fleetVars

-----------------------------------------------------------------------------
(* Agents.                                                                 *)

Exists(h) == agent[h].by # None
Known(m) == m = None \/ machine[m].row = "there"

Step(q, pc) == op' = [op EXCEPT ![q].pc = pc]

\* POST /api/agents with a name and perhaps a machine.
StartForm(q, h, m) ==
    /\ op[q].pc = "idle"
    /\ op' = [op EXCEPT ![q] = [pc |-> "create", kind |-> "form", machine |-> m, handle |-> h]]
    /\ UNCHANGED <<vars, machine, issuing, agent, work, disk, running>>

\* The row is inserted unless the handle is taken or the machine unknown.
createAgent(q) ==
    LET h == op[q].handle IN
    /\ op[q].pc = "create"
    /\ IF ~Exists(h) /\ Known(op[q].machine)
       THEN /\ agent' = [agent EXCEPT ![h] = [by |-> q, machine |-> op[q].machine, creator |-> None]]
            /\ Step(q, IF op[q].kind = "import" THEN "request" ELSE "tag")
       ELSE Step(q, "failed") /\ UNCHANGED agent
    /\ UNCHANGED <<vars, machine, issuing, work, disk, running>>

\* tagAgentCreator: whatever row has the handle by now.
tagAgentCreator(q) ==
    LET h == op[q].handle IN
    /\ op[q].pc = "tag"
    /\ agent' = IF Exists(h) THEN [agent EXCEPT ![h].creator = q] ELSE agent
    /\ Step(q, "ok")
    /\ UNCHANGED <<vars, machine, issuing, work, disk, running>>

updateAgent(h, m) ==
    /\ Exists(h) /\ Known(m)
    /\ agent' = [agent EXCEPT ![h].machine = m]
    /\ UNCHANGED <<vars, machine, issuing, op, work, disk, running>>

Without(h) == [agent EXCEPT ![h] = NoAgent]

removeAgent(h) ==
    /\ Exists(h)
    /\ agent' = Without(h)
    /\ UNCHANGED <<vars, machine, issuing, op, work, disk, running>>

\* A wake of the agent reaches a daemon, which will run it.
Woken(m, h) ==
    /\ Exists(h) /\ agent[h].machine \in {m, None}
    /\ isMachineOnline(hub, m) /\ Received(m)
    /\ running' = [running EXCEPT ![m] = @ \cup {h}]
    /\ UNCHANGED <<vars, machine, issuing, agent, op, work, disk>>

\* POST /daemon/agents/token, at the start of the run: the row of an agent that
\* is gone is inserted again, without a machine.
agentToken(m, h) ==
    /\ h \in running[m]
    /\ running' = [running EXCEPT ![m] = @ \ {h}]
    /\ agent' = IF Exists(h) THEN agent ELSE [agent EXCEPT ![h] = [NoAgent EXCEPT !.by = "daemon"]]
    /\ UNCHANGED <<vars, machine, issuing, op, work, disk>>

-----------------------------------------------------------------------------
(* The import.                                                             *)

\* inspectRaftWorkspace alone: a request that changes nothing.
Inspect(q, m) ==
    /\ op[q].pc = "idle"
    /\ machine[m].row = "there" /\ isMachineOnline(hub, m)
    /\ MakeRequest(q, m)
    /\ op' = [op EXCEPT ![q] = [NoOp EXCEPT !.pc = "read", !.kind = "inspect", !.machine = m]]
    /\ UNCHANGED <<machine, issuing, agent, work, disk, running>>

\* workspaceFetch, a view of an agent's files or skills: a request to whatever
\* machine the agent is bound to.
Fetch(q, h) ==
    LET m == agent[h].machine IN
    /\ op[q].pc = "idle"
    /\ Exists(h) /\ m # None /\ isMachineOnline(hub, m)
    /\ MakeRequest(q, m)
    /\ op' = [op EXCEPT ![q] = [NoOp EXCEPT !.pc = "read", !.kind = "inspect", !.machine = m]]
    /\ UNCHANGED <<machine, issuing, agent, work, disk, running>>

\* importRaftAgent up to the answer of its own inspect request, whose number
\* and answer are left out: any import may fail here.
StartImport(q, m) ==
    /\ op[q].pc = "idle"
    /\ machine[m].row = "there" /\ isMachineOnline(hub, m)
    /\ op' = [op EXCEPT ![q] = [NoOp EXCEPT !.pc = "list", !.kind = "import", !.machine = m]]
    /\ UNCHANGED <<vars, machine, issuing, agent, work, disk, running>>

\* The first handle that is free.
uniqueHandle(taken) == Min(Handle \ taken)

ListHandles(q) ==
    LET taken == {h \in Handle : Exists(h)} IN
    /\ op[q].pc = "list"
    /\ taken # Handle
    /\ op' = [op EXCEPT ![q].pc = "create", ![q].handle = uniqueHandle(taken)]
    /\ UNCHANGED <<vars, machine, issuing, agent, work, disk, running>>

RequestImport(q) ==
    /\ op[q].pc = "request"
    /\ MakeRequest(q, op[q].machine)
    /\ Step(q, "waiting")
    /\ UNCHANGED <<machine, issuing, agent, work, disk, running>>

\* importRaftWorkspace copies one entry after the other into the directory of
\* the handle, over what is there.
CopyFile(q, f) ==
    LET m == request[q].machine IN
    /\ op[q].kind = "import" /\ m # None /\ q \in job[m]
    /\ ~work[q].failed /\ f \notin work[q].copied
    /\ work' = [work EXCEPT ![q].copied = @ \cup {f}]
    /\ disk' = [disk EXCEPT ![m][op[q].handle][f] = q]
    /\ UNCHANGED <<vars, machine, issuing, agent, op, running>>

CopyFails(q) ==
    /\ request[q].machine # None /\ q \in job[request[q].machine]
    /\ op[q].kind = "import" /\ ~work[q].failed
    /\ work' = [work EXCEPT ![q].failed = TRUE]
    /\ UNCHANGED <<vars, machine, issuing, agent, op, disk, running>>

\* The reply follows the last entry or the first error.  Mutant: the copy is not
\* awaited.
CopyEndedAnyway(q) == TRUE
CopyEnded(q) == op[q].kind = "import" => work[q].failed \/ work[q].copied = File

ReplyWhenDone(q) == CopyEnded(q) /\ Reply(q) /\ UNCHANGED fleetVars

\* The answer or the error of the request arrives.  Mutant: an error ends the
\* call at once.
Succeeded(q) == request[q].pc = "answered" /\ ~work[request[q].answer].failed

SettleAndLeave(q) ==
    /\ op[q].pc = "waiting" /\ request[q].pc \in {"answered", "rejected"}
    /\ Step(q, IF Succeeded(q) THEN "tag" ELSE "failed")
    /\ UNCHANGED <<vars, machine, issuing, agent, work, disk, running>>
Settle(q) ==
    /\ op[q].pc = "waiting" /\ request[q].pc \in {"answered", "rejected"}
    /\ Step(q, IF Succeeded(q) THEN "tag" ELSE "rollback")
    /\ UNCHANGED <<vars, machine, issuing, agent, work, disk, running>>

\* agentSvc.remove, by handle; that nothing is there is no error.
Rollback(q) ==
    /\ op[q].pc = "rollback"
    /\ agent' = Without(op[q].handle)
    /\ Step(q, "failed")
    /\ UNCHANGED <<vars, machine, issuing, work, disk, running>>
\* The removal may fail as well, of which the caller hears nothing.
RollbackFails(q) ==
    /\ op[q].pc = "rollback"
    /\ Step(q, "kept")
    /\ UNCHANGED <<vars, machine, issuing, agent, work, disk, running>>

\* The calls of the server that ends are lost, in whatever state.
RestartAll ==
    /\ Restart
    /\ op' = [q \in Request |-> IF op[q].pc \in {"idle", "ok", "failed", "kept", "read"} THEN op[q]
                                ELSE [op[q] EXCEPT !.pc = "lost"]]
    /\ issuing' = [m \in Machine |-> {}]
    /\ UNCHANGED <<machine, agent, work, disk, running>>

-----------------------------------------------------------------------------
FleetNext ==
    \/ \E m \in Machine :
        \/ createMachine(m) \/ Mint(m) \/ deleteMachine(m)
        \/ \E t \in issuing[m] : setTokenPrefix(m, t)
        \/ \E s \in Socket : ConnectWithToken(m, s)
        \/ \E h \in Handle : updateAgent(h, m) \/ Woken(m, h) \/ agentToken(m, h)
        \/ \E q \in Request : Inspect(q, m) \/ StartImport(q, m)
        \/ \E st \in {"online", "offline"} : LandStatus(m, st) /\ UNCHANGED fleetVars
    \/ \E h \in Handle : removeAgent(h)
    \/ \E q \in Request :
        \/ \E h \in Handle, m \in Machine \cup {None} : StartForm(q, h, m)
        \/ \E h \in Handle : Fetch(q, h)
        \/ createAgent(q) \/ tagAgentCreator(q) \/ ListHandles(q) \/ RequestImport(q)
        \/ \E f \in File : CopyFile(q, f)
        \/ CopyFails(q) \/ ReplyWhenDone(q) \/ Settle(q) \/ Rollback(q) \/ RollbackFails(q)
        \/ Timeout(q) /\ UNCHANGED fleetVars
        \/ \E s \in Socket : Resolve(s, q) /\ UNCHANGED fleetVars
    \/ /\ \E s \in Socket : SendHello(s) \/ Accept(s) \/ Refuse(s) \/ HearHello(s) \/ Break(s) \/ SeeClose(s)
       /\ UNCHANGED fleetVars
    \/ RestartAll

FleetSpec == FleetInit /\ [][FleetNext]_allVars

-----------------------------------------------------------------------------
\* services-context.ts:487: an import that fails leaves no agent behind, at
\* whichever step it fails, unless the server ends or the removal of the row
\* fails too, which line 521 swallows.
FailedLeavesNoAgent ==
    \A q \in Request, h \in Handle : op[q].pc = "failed" => agent[h].by # q

\* An import that is reported done has had all its files copied, although
\* another's request may have come to an end meanwhile; only a reply to another
\* life of the server can deceive it.
ImportedIsWhole ==
    \A q \in Request :
        op[q].kind = "import" /\ op[q].pc = "ok"
            => work[q].copied = File \/ request[request[q].answer].life < request[q].life

-----------------------------------------------------------------------------
(* What comments say and the code does not keep.                           *)

\* services-context.ts:487: the import that fails takes its agent back.  It
\* takes back whatever agent has the handle by then.
RollbackIsOwn ==
    [][\A q \in Request : op[q].pc = "rollback" /\ op'[q].pc = "failed"
            => agent[op[q].handle].by \in {q, None}]_allVars

\* services-context.ts:516, no shell stays.  It does when the server ends before
\* the files are copied, and when the removal fails.
NoShell ==
    \A h \in Handle :
        LET q == agent[h].by IN
        q \in Request /\ op[q].kind = "import" /\ op[q].pc \in {"ok", "kept", "lost"} => work[q].copied = File

\* An agent's directory holds the files of one import.  The daemon goes on
\* copying for one that timed out, and the next gets the same handle.
DirectoryIsOwn ==
    \A m \in Machine, h \in Handle, f, g \in File : disk[m][h][f] # None /\ disk[m][h][g] # None
        => disk[m][h][f] = disk[m][h][g]

\* Who is noted as an agent's creator made it (web.ts:667).
CreatorIsMaker == \A h \in Handle : agent[h].creator # None => agent[h].by = agent[h].creator

\* An agent that was deleted stays so.  A wake under way inserts it again.
DeletedStays == \A h \in Handle : agent[h].by # "daemon"
=============================================================================
