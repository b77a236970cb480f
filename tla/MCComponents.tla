---------------------------- MODULE MCComponents ----------------------------
(***************************************************************************)
(* Components that share no state, side by side for TLC: a behaviour is    *)
(* one of the component named by part, with the others at rest in their    *)
(* initial states, so each one's properties are checked as if it were      *)
(* alone.  Here are those whose properties are invariants and action       *)
(* properties; MCDesktop has those with liveness.                          *)
(***************************************************************************)
EXTENDS RelayAccess, SshTransport, ConnectionStore, RelayStream, MCMcp, Scheduler, TLC

CONSTANTS
    u, a, t1, t2, i1,            \* RelayAccess
    c1, c2, h1, h2, o1, o2,      \* SshTransport
    n1, n2, p1, v1, v2, x1,      \* ConnectionStore
    q1, q2,                      \* Scheduler
    Parts                        \* the components checked

VARIABLE part

componentVars ==
    <<part, accessVars, poolVars, storeVars, streamState, mcpVars, scheduleVars>>

(***************************************************************************)
(* A founder, a device that can be invited, two requests in flight.        *)
(***************************************************************************)
MCDevice == {u, a}
MCTask == {t1, t2}
MCInvitation == {i1}

(***************************************************************************)
(* Two connections, two operations in the lane of SFTP or on transports of *)
(* their own.                                                              *)
(***************************************************************************)
MCConn == {c1, c2}
MCAcceptNew == {c2}
MCHostKey == {h1, h2}
MCOp == {o1, o2}
MCLane == {"sftp"}

\* A strict host behind one that takes the first key; the user may have trusted it.
PoolStart ==
    /\ version = [c \in Conn |-> 1]
    /\ route = [c \in Conn |-> IF c = c1 THEN c2 ELSE None]
    /\ presented = [c \in Conn |-> h1]
    /\ \E trusted \in {{}, {c1}} :
         /\ known = [c \in Conn |-> IF c \in trusted THEN h1 ELSE None]
         /\ approved = [c \in Conn |-> IF c \in trusted THEN {h1} ELSE {}]
    /\ idle = [k \in PoolKey |-> <<>>] /\ gate = [k \in PoolKey |-> None]
    /\ op = [o \in Op |-> NewOp] /\ shut = {} /\ writing = None /\ edits = 0

\* Operations are interchangeable: o1 is the one that begins first.
FirstOpFirst == op[o1] = NewOp => op[o2] = NewOp

(***************************************************************************)
(* A connection of any kind with what it has in the credential store, an   *)
(* id for another, a proxy; one command at a time.  Commands that overlap  *)
(* are the matter of ConnectionStore_proofs.                               *)
(***************************************************************************)
MCEntry == {n1, n2, p1}
MCProxies == {p1}
MCValue == {v1, v2}
MCLong == {v2}
MCCommand == {x1}

EntriesOf(secret, key, certificate, drive) ==
    [secret |-> secret, key |-> key, certificate |-> certificate, drive |-> drive]

Stored(method, deleted) ==
    CASE method = "password" -> <<RowOf(method, None, TRUE, None, deleted), EntriesOf(v1, None, None, None)>>
      [] method = "key" -> <<RowOf(method, v1, FALSE, None, deleted), EntriesOf(None, v1, None, None)>>
      [] method = "certificate" -> <<RowOf(method, v1, TRUE, None, deleted), EntriesOf(v1, v1, v1, None)>>
      [] method = "agent" -> <<RowOf(method, None, FALSE, None, deleted), NoEntries>>
      [] method = "rdp" -> <<RowOf(method, None, TRUE, v1, deleted), EntriesOf(v1, None, None, v1)>>

StoreStart ==
    \E method \in Auth, deleted \in BOOLEAN :
      LET connection == Stored(method, deleted)
          proxy == Stored("password", FALSE)
          At(e, i) == IF e = n1 THEN connection[i] ELSE proxy[i]
      IN  /\ row = [e \in Entry |-> IF e = n2 THEN None ELSE At(e, 1)]
          /\ vault = [e \in Entry |-> IF e = n2 THEN NoEntries ELSE At(e, 2)]
          /\ job = [j \in Command |-> NoCall] /\ calls = 0 /\ lacking = {}
          /\ faults = 0 /\ tainted = {}

(***************************************************************************)
(* A team terminal under way, with all that was sent so far arrived and    *)
(* both clients online; left is the number of connections still to make.   *)
(***************************************************************************)
StreamUnderway(outputs, inputs, grants, live, left) ==
    /\ room = [r \in Side |->
                 [status |-> "online", conn |-> IF r = "host" THEN 1 ELSE 2, ready |-> TRUE,
                  pending |-> <<>>, next |-> (IF r = "host" THEN outputs ELSE inputs) + 1,
                  last |-> outputs, lease |-> live, why |-> "none"]]
    /\ hostLease = live /\ hostGen = grants /\ hostInput = inputs + 1
    /\ command = [at |-> "none", gen |-> 0]
    /\ output = outputs /\ kept = outputs + 1 /\ nextInput = inputs + 1
    /\ lease = live /\ leaseGen = grants /\ expired = IF live = 0 THEN grants ELSE grants - 1
    /\ hub = 1 /\ hubs = 1 /\ opened = MaxSockets - left
    /\ socket = [s \in Socket |->
                   IF s > 2 THEN NewSocket
                   ELSE [NewSocket EXCEPT !.by = IF s = 1 THEN "host" ELSE "viewer",
                                          !.phase = "loop", !.hub = 1]]
    /\ up = [s \in Socket |-> <<>>] /\ down = [s \in Socket |-> <<>>]
    /\ air = [top |-> outputs, bad |-> FALSE]

\* Output and reconnections; input under a lease that is revoked or expires; grants.
StreamStart ==
    \/ StreamUnderway(0, MaxInput, MaxGrants, 0, 1)
    \/ StreamUnderway(MaxOutput, 0, MaxGrants, MaxGrants, 1)
    \/ StreamUnderway(MaxOutput, MaxInput, 0, 0, 0)

(***************************************************************************)
(* A clock that is put back at tick 3, a single run, an interval, and a    *)
(* time of the day that the clock shows twice, daily and as a cron.        *)
(***************************************************************************)
MCSchedule == {q1, q2}
MCWall(at) == IF at = 3 THEN 1 ELSE at
KindOf(type, expr, skip, grace) == [type |-> type, expr |-> expr, skip |-> skip, grace |-> grace]
MCPlanKind ==
    {KindOf("once", 2, FALSE, 0), KindOf("interval", 2, TRUE, 2),
     KindOf("daily", {1, 4}, TRUE, 1), KindOf("cron", {1, 4}, TRUE, 1)}

(***************************************************************************)
(* The components side by side.                                            *)
(***************************************************************************)
MCParts == {"access", "transport", "store", "stream", "mcp", "schedule"}
MCTransport == {"transport"}

ComponentInit ==
    /\ part \in Parts
    /\ AccessInit /\ ScheduleInit
    /\ PoolStart /\ (part # "transport" => known = [c \in Conn |-> None])
    /\ IF part = "store" THEN StoreStart ELSE StoreInit
    /\ IF part = "stream" THEN StreamStart ELSE StreamRoomInit
    /\ IF part = "mcp" THEN McpStart ELSE McpInit

\* The step of one component, with the others at rest.
Only(name, step, others) == part = name /\ step /\ UNCHANGED <<part, others>>

ComponentNext ==
    \/ Only("access", AccessNext,
            <<poolVars, storeVars, streamState, mcpVars, scheduleVars>>)
    \/ Only("transport", PoolNext /\ FirstOpFirst',
            <<accessVars, storeVars, streamState, mcpVars, scheduleVars>>)
    \/ Only("store", StoreNext,
            <<accessVars, poolVars, streamState, mcpVars, scheduleVars>>)
    \/ Only("stream", StreamNext,
            <<accessVars, poolVars, storeVars, mcpVars, scheduleVars>>)
    \/ Only("mcp", McpNext,
            <<accessVars, poolVars, storeVars, streamState, scheduleVars>>)
    \/ Only("schedule", ScheduleNext,
            <<accessVars, poolVars, storeVars, streamState, mcpVars>>)

ComponentTypesOK ==
    /\ AccessTypeOK /\ PoolTypeOK /\ StoreTypeOK
    /\ StreamTypeOK /\ McpTypeOK /\ ScheduleTypeOK

ComponentSpec == ComponentInit /\ [][ComponentNext]_componentVars
=============================================================================
