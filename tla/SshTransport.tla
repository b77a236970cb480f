---------------------------- MODULE SshTransport ----------------------------
(***************************************************************************)
(* The SSH connections of the desktop application (src-tauri/src/ssh.rs):  *)
(* the pool of idle transports and its gates, the way to a host through    *)
(* its jump hosts, the check of every host key, and the operations that    *)
(* borrow a transport: SFTP and commands (one at a time in their lane),    *)
(* terminals and transfers (a transport of their own), the diagnosis.      *)
(*                                                                         *)
(* A connection has a host of its own; a key stands for an algorithm with  *)
(* its fingerprint.  A transport is named after the operation that made    *)
(* it, a gate after the operation that first asked for it.                 *)
(***************************************************************************)
EXTENDS Naturals, Sequences, NoValue

CONSTANTS
    Conn,       \* the connection profiles
    AcceptNew,  \* those whose policy is to record the first key they see
    HostKey,    \* host keys a server may present
    Op,         \* operations, each run once
    Lane,       \* lanes of reusable transports ("sftp", "command", "default")
    MaxIdle,    \* MAX_IDLE_TRANSPORTS_PER_PROFILE (2)
    MaxEdits    \* bound on the changes of the configuration and of the servers

ASSUME TransportAssumption ==
    /\ AcceptNew \subseteq Conn
    /\ MaxIdle \in Nat /\ MaxEdits \in Nat
    /\ None \notin Conn \union HostKey \union Op
    /\ Lane \intersect {"exclusive", "diagnosis"} = {}

VARIABLES
    version,   \* updated_at of each profile
    route,     \* the jump host of each profile's proxy, None without one
    known,     \* known_hosts
    presented, \* the key each server presents
    approved,  \* the keys the user trusted
    idle,      \* TransportPool.idle
    gate,      \* TransportPool.operation_gates
    op,        \* the operations
    shut,      \* transports whose socket a timeout shut down
    writing,   \* the command that has invalidated and not written yet
    edits

poolVars ==
    <<version, route, known, presented, approved, idle, gate, op, shut, writing, edits>>

LeaseKind == Lane \union {"exclusive", "diagnosis"}
ConnKey == Conn \X (1..MaxEdits + 1) \X LeaseKind
PoolKey == Conn \X (1..MaxEdits + 1) \X Lane

\* An operation: its key, the gate it waits at, the hops still to connect, the key
\* the last hop showed, the keys of the hops behind it, and its transport.
NewOp == [place |-> "new", key |-> None, gate |-> None, chain |-> <<>>, seen |-> None,
          way |-> <<>>, lease |-> None, caller |-> "waiting"]

Connecting == {"hopping", "dialling", "verifying", "trusting", "authenticating"}
Busy == {"choosing", "using", "returning"} \union Connecting
OpPlace == {"new", "queued", "failed", "done"} \union Busy

PoolInit ==
    /\ version = [c \in Conn |-> 1]
    /\ route \in [Conn -> Conn \union {None}]
    /\ known = [c \in Conn |-> None]
    /\ presented \in [Conn -> HostKey]
    /\ approved = [c \in Conn |-> {}]
    /\ idle = [k \in PoolKey |-> <<>>]
    /\ gate = [k \in PoolKey |-> None]
    /\ op = [o \in Op |-> NewOp]
    /\ shut = {}
    /\ writing = None
    /\ edits = 0

configVars == <<version, route, known, presented, approved, writing, edits>>

OpAt(o, place) == op[o].place = place
OpTo(o, place) == op' = [op EXCEPT ![o].place = place]
FailOp(o) == op' = [op EXCEPT ![o] = [NewOp EXCEPT !.place = "failed"]]
Reusable(o) == op[o].key[3] \in Lane
HopOf(o) == op[o].chain[Len(op[o].chain)]
Before(s) == SubSeq(s, 1, Len(s) - 1)
Elements(s) == {s[i] : i \in DOMAIN s}

(***************************************************************************)
(* TransportPool.acquire_in_lane: the gate, an idle transport, or a new    *)
(* one.  A session keeps the profile it was opened with.                   *)
(***************************************************************************)
Acquire(o, c, v, kind) ==
    /\ OpAt(o, "new")
    /\ v <= version[c]
    /\ LET k == <<c, v, kind>> IN
       IF kind \in Lane
       THEN /\ gate' = [gate EXCEPT ![k] = IF @ = None THEN o ELSE @]
            /\ op' = [op EXCEPT ![o] = [@ EXCEPT !.place = "queued", !.key = k, !.gate = gate'[k]]]
       ELSE /\ op' = [op EXCEPT ![o] = [@ EXCEPT !.place = "hopping", !.key = k, !.chain = <<c>>]]
            /\ UNCHANGED gate
    /\ UNCHANGED <<idle, shut, configVars>>

\* The semaphore of a gate has one permit; an operation that found an older gate
\* keeps the permit of that one.
GatePermit(o) ==
    /\ OpAt(o, "queued")
    /\ \A p \in Op : op[p].place \in Busy => op[p].gate # op[o].gate
    /\ OpTo(o, "choosing")
    /\ UNCHANGED <<idle, gate, shut, configVars>>

\* 30 seconds in the queue: the gate is thrown away, unless it is another by now.
GateTimeout(o) ==
    /\ OpAt(o, "queued")
    /\ gate' = [gate EXCEPT ![op[o].key] = IF @ = op[o].gate THEN None ELSE @]
    /\ FailOp(o)
    /\ UNCHANGED <<idle, shut, configVars>>

\* Fault: an idle transport is taken as it is.
Answers(t) == TRUE

\* keepalive_send: it fails on a socket that was shut down.
KeepaliveAnswers(t) == t \notin shut

\* The young ones are kept, the youngest is taken if it answers.
TakeIdle(o) ==
    /\ OpAt(o, "choosing")
    /\ \E young \in 0..Len(idle[op[o].key]) :
         LET k == op[o].key
             kept == SubSeq(idle[k], Len(idle[k]) - young + 1, Len(idle[k]))
             connect == op' = [op EXCEPT ![o].place = "hopping", ![o].chain = <<k[1]>>]
         IN  IF young = 0
             THEN connect /\ idle' = [idle EXCEPT ![k] = <<>>]
             ELSE /\ idle' = [idle EXCEPT ![k] = Before(kept)]
                  /\ \/ /\ KeepaliveAnswers(kept[young])
                        /\ op' = [op EXCEPT ![o].place = "using", ![o].lease = kept[young]]
                     \/ connect
    /\ UNCHANGED <<gate, shut, configVars>>

(***************************************************************************)
(* verified_connection_with_chain: from the target to the first jump host  *)
(* by the rows of the database, and back, each hop through the one before  *)
(* it.  Every step may fail.                                               *)
(***************************************************************************)
HopFails(o) ==
    /\ op[o].place \in Connecting
    /\ FailOp(o)
    /\ UNCHANGED <<idle, gate, shut, configVars>>

FollowRoute(o) ==
    /\ OpAt(o, "hopping")
    /\ LET next == route[HopOf(o)] IN
       \/ next = None /\ OpTo(o, "dialling")
       \/ next \in Elements(op[o].chain) /\ FailOp(o)
       \/ /\ next \notin Elements(op[o].chain) \union {None}
          /\ op' = [op EXCEPT ![o].chain = Append(@, next)]
    /\ UNCHANGED <<idle, gate, shut, configVars>>

\* handshake: directly, through a proxy, or through a channel of the hop before.
Handshake(o) ==
    /\ OpAt(o, "dialling")
    /\ op' = [op EXCEPT ![o].place = "verifying", ![o].seen = presented[HopOf(o)]]
    /\ UNCHANGED <<idle, gate, shut, configVars>>

\* Fault: only a host without a record is refused.
AcceptsKnown(row, key, permitUnknown) == row # None \/ permitUnknown

verify_host_identity(row, key, permitUnknown) ==
    IF row = None THEN permitUnknown ELSE row = key

\* The diagnosis checks its target by itself and does not record the key.
Diagnoses(o) == op[o].key[3] = "diagnosis" /\ Len(op[o].chain) = 1

VerifyHost(o) ==
    /\ OpAt(o, "verifying")
    /\ LET h == HopOf(o)
           records == /\ known[h] = None
                      /\ h \in AcceptNew
                      /\ ~Diagnoses(o)
       IN  IF verify_host_identity(known[h], op[o].seen, h \in AcceptNew)
           THEN OpTo(o, IF records THEN "trusting" ELSE "authenticating")
           ELSE FailOp(o)
    /\ UNCHANGED <<idle, gate, shut, configVars>>

\* The record is written over whatever is there by now.
TrustFirst(o) ==
    /\ OpAt(o, "trusting")
    /\ known' = [known EXCEPT ![HopOf(o)] = op[o].seen]
    /\ OpTo(o, "authenticating")
    /\ UNCHANGED <<version, route, presented, approved, idle, gate, shut, writing, edits>>

AuthenticateHop(o) ==
    /\ OpAt(o, "authenticating")
    /\ LET way == <<[hop |-> HopOf(o), key |-> op[o].seen]>> \o op[o].way IN
       IF Len(op[o].chain) > 1
       THEN op' = [op EXCEPT ![o] = [@ EXCEPT !.place = "dialling", !.way = way,
                                              !.chain = Before(op[o].chain), !.seen = None]]
       ELSE op' = [op EXCEPT ![o] = [@ EXCEPT !.place = "using", !.way = way, !.lease = o,
                                              !.chain = <<>>, !.seen = None]]
    /\ UNCHANGED <<idle, gate, shut, configVars>>

(***************************************************************************)
(* The operation runs on a thread of its own; its caller waits.  The       *)
(* transport goes back to the pool when the thread drops its lease.        *)
(***************************************************************************)
FinishOp(o, succeeds) ==
    /\ OpAt(o, "using")
    /\ OpTo(o, IF succeeds /\ op[o].caller \in {"waiting", "expired"} /\ Reusable(o)
               THEN "returning" ELSE "done")
    /\ UNCHANGED <<idle, gate, shut, configVars>>

Pooled(transports, t) == IF Len(transports) < MaxIdle THEN Append(transports, t) ELSE transports

ReturnLease(o) ==
    /\ OpAt(o, "returning")
    /\ idle' = [idle EXCEPT ![op[o].key] = Pooled(@, op[o].lease)]
    /\ OpTo(o, "done")
    /\ UNCHANGED <<gate, shut, configVars>>

Invalidated(c, map, empty) == [k \in PoolKey |-> IF k[1] = c THEN empty ELSE map[k]]

invalidate(c) ==
    /\ idle' = Invalidated(c, idle, <<>>)
    /\ gate' = Invalidated(c, gate, None)

clear ==
    /\ idle' = [k \in PoolKey |-> <<>>]
    /\ gate' = [k \in PoolKey |-> None]

\* with_sftp_timeout: the time is up before there is a transport.
AcquireTimeout(o) ==
    /\ op[o].place \in {"queued", "choosing"} \union Connecting
    /\ op[o].key[3] = "sftp"
    /\ FailOp(o)
    /\ invalidate(op[o].key[1])
    /\ UNCHANGED <<shut, configVars>>

\* The time of an operation is up.  Its caller notices, marks the operation, shuts the
\* socket down and resets the pool, while the thread may come to its end.
CallerOf(o, from, to) ==
    /\ op[o].caller = from
    /\ op' = [op EXCEPT ![o].caller = to]

Expire(o) ==
    /\ OpAt(o, "using") /\ Reusable(o)
    /\ CallerOf(o, "waiting", "expired")
    /\ UNCHANGED <<idle, gate, shut, configVars>>

MarkTimedOut(o) ==
    /\ CallerOf(o, "expired", "marked")
    /\ UNCHANGED <<idle, gate, shut, configVars>>

ShutSocket(o) ==
    /\ CallerOf(o, "marked", "shut")
    /\ shut' = shut \union {op[o].lease}
    /\ UNCHANGED <<idle, gate, configVars>>

ResetPool(o) ==
    /\ CallerOf(o, "shut", "answered")
    /\ invalidate(op[o].key[1])
    /\ UNCHANGED <<shut, configVars>>

(***************************************************************************)
(* The commands of the window: each resets what is pooled, then writes.    *)
(***************************************************************************)
BeginCommand(command) ==
    /\ writing = None
    /\ edits < MaxEdits
    /\ writing' = command
    /\ edits' = edits + 1
    /\ UNCHANGED <<version, route, known, presented, approved, op, shut>>

SaveConnection(c) == BeginCommand([what |-> "save", conn |-> c]) /\ invalidate(c)

SaveProxy(c, r) == BeginCommand([what |-> "proxy", conn |-> c, route |-> r]) /\ clear

TrustHost(c, key) == BeginCommand([what |-> "trust", conn |-> c, key |-> key]) /\ invalidate(c)

WriteRow ==
    /\ writing # None
    /\ LET c == writing.conn IN
       \/ /\ writing.what = "save"
          /\ version' = [version EXCEPT ![c] = @ + 1]
          /\ UNCHANGED <<route, known, approved>>
       \/ /\ writing.what = "proxy"
          /\ route' = [route EXCEPT ![c] = writing.route]
          /\ UNCHANGED <<version, known, approved>>
       \/ /\ writing.what = "trust"
          /\ known' = [known EXCEPT ![c] = writing.key]
          /\ approved' = [approved EXCEPT ![c] = @ \union {writing.key}]
          /\ UNCHANGED <<version, route>>
    /\ writing' = None
    /\ UNCHANGED <<presented, idle, gate, op, shut, edits>>

\* A server is given another key, or somebody else answers in its place.
Rekey(c, key) ==
    /\ edits < MaxEdits /\ presented[c] # key
    /\ presented' = [presented EXCEPT ![c] = key]
    /\ edits' = edits + 1
    /\ UNCHANGED <<version, route, known, approved, idle, gate, op, shut, writing>>

OpStep(o) ==
    \/ GatePermit(o) \/ TakeIdle(o) \/ FollowRoute(o) \/ Handshake(o) \/ VerifyHost(o)
    \/ TrustFirst(o) \/ AuthenticateHop(o) \/ ReturnLease(o)
    \/ \E succeeds \in BOOLEAN : FinishOp(o, succeeds)

PoolNext ==
    \/ \E o \in Op :
         \/ OpStep(o) \/ HopFails(o) \/ GateTimeout(o) \/ AcquireTimeout(o)
         \/ Expire(o) \/ MarkTimedOut(o) \/ ShutSocket(o) \/ ResetPool(o)
         \/ \E c \in Conn, v \in 1..MaxEdits + 1, kind \in LeaseKind : Acquire(o, c, v, kind)
    \/ \E c \in Conn :
         \/ SaveConnection(c)
         \/ \E r \in Conn \union {None} : SaveProxy(c, r)
         \/ \E key \in HostKey : TrustHost(c, key) \/ Rekey(c, key)
    \/ WriteRow

PoolSpec == PoolInit /\ [][PoolNext]_poolVars

(***************************************************************************)
(* Properties                                                              *)
(***************************************************************************)

\* The types; no more transports are idle under a key than the pool keeps.
Hop == [hop : Conn, key : HostKey \union {None}]

OpState ==
    [place : OpPlace,
     key : ConnKey \union {None},
     gate : Op \union {None}, chain : Seq(Conn), seen : HostKey \union {None},
     way : Seq(Hop), lease : Op \union {None},
     caller : {"waiting", "expired", "marked", "shut", "answered"}]

CommandState ==
    [what : {"save"}, conn : Conn]
        \union [what : {"proxy"}, conn : Conn, route : Conn \union {None}]
        \union [what : {"trust"}, conn : Conn, key : HostKey]

PoolTypeOK ==
    /\ version \in [Conn -> 1..MaxEdits + 1] /\ route \in [Conn -> Conn \union {None}]
    /\ known \in [Conn -> HostKey \union {None}] /\ presented \in [Conn -> HostKey]
    /\ approved \in [Conn -> SUBSET HostKey]
    /\ idle \in [PoolKey -> Seq(Op)] /\ \A k \in PoolKey : Len(idle[k]) <= MaxIdle
    /\ gate \in [PoolKey -> Op \union {None}]
    /\ op \in [Op -> OpState]
    /\ writing \in CommandState \union {None} /\ edits \in 0..MaxEdits

\* ssh.rs:1177: whatever the order in which rows change and hops are connected, a
\* transport in use leads through no host with a strict policy whose key nobody
\* trusted, and it leads to the host it was asked for.
StrictHostsApproved ==
    \A o \in Op : OpAt(o, "using") =>
        LET way == op[op[o].lease].way IN
        /\ way[1].hop = op[o].key[1]
        /\ \A i \in DOMAIN way : way[i].hop \in AcceptNew \/ way[i].key \in approved[way[i].hop]

\* ssh.rs:2197, 2204: a timeout shuts a socket down while the thread that uses it comes
\* to its end and returns it to the pool, even after the pool was reset; no operation
\* is given that transport afterwards.
ReuseIsAlive ==
    [][\A o \in Op : OpAt(o, "choosing") /\ op'[o].place = "using" => op'[o].lease \notin shut]_poolVars

(***************************************************************************)
(* What the documentation says and the order of the steps breaks.          *)
(***************************************************************************)

\* docs/ARCHITECTURE.md:21: a change of configuration, proxy or host identity puts the
\* old pool out of use.
WayIsCurrent(way) ==
    \A i \in DOMAIN way :
        /\ route[way[i].hop] = IF i < Len(way) THEN way[i + 1].hop ELSE None
        /\ known[way[i].hop] = way[i].key

ReuseIsCurrent ==
    [][\A o \in Op : OpAt(o, "choosing") /\ op'[o].place = "using" =>
         WayIsCurrent(op[op'[o].lease].way)]_poolVars
=============================================================================
