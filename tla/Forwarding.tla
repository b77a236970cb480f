------------------------------ MODULE Forwarding ------------------------------
(***************************************************************************)
(* Forwarded connections: the tunnels of tunnel.rs with their commands,    *)
(* the thread that copies between a socket and a channel (bridge), and the *)
(* X11 forwarder of a terminal (x11.rs).  The three share no state; each   *)
(* has a next-state relation of its own.                                   *)
(***************************************************************************)
EXTENDS Naturals, FiniteSets, NoValue

CONSTANTS
    ForwardId,   \* ids of port forwards
    MaxRuns,     \* bound of the model: starts of a tunnel
    Bytes,       \* bound of the model: bytes each side of a bridge sends
    XChannel,    \* channels the server opens to the X server
    MaxXChannels \* MAX_X11_CHANNELS

Run == 1..MaxRuns

\* No run is the lack of one, and no forward has the name of none.
ASSUME ForwardAssumption == None \notin Run \union ForwardId

ASSUME XChannelAssumption == IsFiniteSet(XChannel) /\ MaxXChannels \in Nat

(***************************************************************************)
(* Tunnels.                                                                *)
(***************************************************************************)
VARIABLES
    rows,    \* port_forwards
    run,     \* the calls of start, and the thread each of them spawns
    running, \* TunnelManager.running: the token, that is the run, of each id
    failed   \* TunnelManager.errors

tunnelVars == <<rows, run, running, failed>>

NoRun == [id |-> None, at |-> "none", token |-> FALSE]
FreeRuns == {r \in Run : run[r].at = "none"}
Live(r) == run[r].at \notin {"none", "loaded", "ended"}

TunnelInit ==
    /\ rows = ForwardId /\ run = [r \in Run |-> NoRun]
    /\ running = [f \in ForwardId |-> None] /\ failed = {}

\* tunnel_start: the row is read first...
LoadForward(f) ==
    /\ f \in rows
    /\ \E r \in FreeRuns :
          /\ \A q \in FreeRuns : r <= q
          /\ run' = [run EXCEPT ![r] = [NoRun EXCEPT !.id = f, !.at = "loaded"]]
    /\ UNCHANGED <<rows, running, failed>>

\* ... and then the id is taken, unless it has a token (start_token).
StartToken(r) ==
    /\ run[r].at = "loaded"
    /\ IF running[run[r].id] = None
       THEN /\ running' = [running EXCEPT ![run[r].id] = r]
            /\ failed' = failed \ {run[r].id}
            /\ run' = [run EXCEPT ![r].at = "connecting"]
       ELSE run' = [run EXCEPT ![r].at = "ended"] /\ UNCHANGED <<running, failed>>
    /\ UNCHANGED rows

\* finish: the entry of the id goes, whoever made it.  Fault: only an end in good order
\* takes it away.
FinishInOrder(r, error) ==
    /\ running' = IF error THEN running ELSE [running EXCEPT ![run[r].id] = None]
    /\ failed' = IF error THEN failed \union {run[r].id} ELSE failed

Finish(r, error) ==
    /\ running' = [running EXCEPT ![run[r].id] = None]
    /\ failed' = IF error THEN failed \union {run[r].id} ELSE failed

EndRun(r, error) ==
    /\ Finish(r, error) /\ run' = [run EXCEPT ![r].at = "ended"]
    /\ UNCHANGED rows

\* The profile is gone, or the transport cannot be had.
FailToConnect(r) == run[r].at = "connecting" /\ EndRun(r, TRUE)

SpawnTunnel(r) ==
    /\ run[r].at = "connecting"
    /\ run' = [run EXCEPT ![r].at = "thread"]
    /\ UNCHANGED <<rows, running, failed>>

\* The address is bound by one run at a time.  A remote forward asks its server to listen,
\* without a time-out (the time-out of 20 s is set for the other two).
Bound == {r \in Run : run[r].at \in {"asking", "accepting", "greeting", "opening"}}

Bind(r) ==
    /\ run[r].at = "thread"
    /\ \/ EndRun(r, TRUE)
       \/ /\ \A q \in Bound : run[q].id # run[r].id
          /\ run' \in {[run EXCEPT ![r].at = "accepting"], [run EXCEPT ![r].at = "asking"]}
          /\ UNCHANGED <<rows, running, failed>>

ServerListens(r) ==
    /\ run[r].at = "asking"
    /\ \/ EndRun(r, TRUE)
       \/ run' = [run EXCEPT ![r].at = "accepting"] /\ UNCHANGED <<rows, running, failed>>

\* The accepting loop: the token, then a client.  What a client or its target does wrong
\* ends the tunnel.  A local or a remote forward opens its connection at once; a dynamic
\* one reads the request of the client first (read_socks_target), for as long as it takes.
LeaveLoop(r) == run[r].at = "accepting" /\ run[r].token /\ EndRun(r, FALSE)

AcceptClient(r) ==
    /\ run[r].at = "accepting" /\ ~run[r].token
    /\ \/ EndRun(r, TRUE)
       \/ /\ run' \in {[run EXCEPT ![r].at = "opening"], [run EXCEPT ![r].at = "greeting"]}
          /\ UNCHANGED <<rows, running, failed>>

ReadGreeting(r) ==
    /\ run[r].at = "greeting"
    /\ \/ EndRun(r, TRUE)
       \/ run' = [run EXCEPT ![r].at = "opening"] /\ UNCHANGED <<rows, running, failed>>

OpenTarget(r) ==
    /\ run[r].at = "opening"
    /\ \/ EndRun(r, TRUE)
       \/ run' = [run EXCEPT ![r].at = "accepting"] /\ UNCHANGED <<rows, running, failed>>

\* tunnel_stop and tunnel_delete.
TakeToken(f) ==
    /\ running' = [running EXCEPT ![f] = None]
    /\ run' = [r \in Run |-> IF r = running[f] THEN [run[r] EXCEPT !.token = TRUE] ELSE run[r]]

StopTunnel(f) == running[f] # None /\ TakeToken(f) /\ UNCHANGED <<rows, failed>>

DeleteTunnel(f) == TakeToken(f) /\ rows' = rows \ {f} /\ UNCHANGED failed

\* What a run does without anyone's help: a target is opened under the time-out of the
\* session, or of the system.
TunnelThread(r) == Bind(r) \/ LeaveLoop(r) \/ OpenTarget(r)

TunnelNext ==
    \/ \E f \in ForwardId : LoadForward(f) \/ StopTunnel(f) \/ DeleteTunnel(f)
    \/ \E r \in Run : \/ StartToken(r) \/ FailToConnect(r) \/ SpawnTunnel(r) \/ TunnelThread(r)
                      \/ ServerListens(r) \/ AcceptClient(r) \/ ReadGreeting(r)

TunnelSpec == TunnelInit /\ [][TunnelNext]_tunnelVars

\* The handshake of a transport, the answer of a server asked to listen and the request of
\* a SOCKS client have no time-out: they may never come.
TunnelFairness == \A r \in Run : WF_tunnelVars(TunnelThread(r))

(***************************************************************************)
(* bridge: a loop that reads each side when what it read before is         *)
(* written, and the peers at both ends.                                    *)
(***************************************************************************)
VARIABLES
    side,  \* per end: bytes it sent, whether that was all, bytes read from it and written to it
    pump   \* the loop: bytes held for each end, the EOFs read and sent, how it ended

bridgeVars == <<side, pump>>

BridgeEnd == {"client", "remote"}
Other(e) == CHOOSE o \in BridgeEnd : o # e

BridgeInit ==
    /\ side = [e \in BridgeEnd |-> [sent |-> 0, closed |-> FALSE, taken |-> 0, got |-> 0]]
    /\ pump = [held |-> [e \in BridgeEnd |-> 0], eof |-> [e \in BridgeEnd |-> FALSE],
               eofSent |-> FALSE, at |-> "copying"]

PeerSends(e) ==
    /\ ~side[e].closed
    /\ \/ side[e].sent < Bytes /\ side' = [side EXCEPT ![e].sent = @ + 1]
       \/ side' = [side EXCEPT ![e].closed = TRUE]
    /\ UNCHANGED pump

\* A socket that fails counts as at its end.  Fault: so does an end with nothing to read.
AtEndOrIdle(e) == side[e].taken = side[e].sent

AtEnd(e) == e = "client" \/ (side[e].closed /\ side[e].taken = side[e].sent)

\* What was read from one end is held for the other; a channel that fails ends the bridge.
Pump(e) ==
    /\ pump.at = "copying" /\ ~pump.eof[e] /\ pump.held[Other(e)] = 0
    /\ \/ \E n \in 1..(side[e].sent - side[e].taken) :
             /\ side' = [side EXCEPT ![e].taken = @ + n]
             /\ pump' = [pump EXCEPT !.held[Other(e)] = n]
       \/ /\ AtEnd(e)
          /\ pump' = [pump EXCEPT !.eof[e] = TRUE] /\ UNCHANGED side
       \/ e = "remote" /\ pump' = [pump EXCEPT !.at = "broken"] /\ UNCHANGED side

Write(e) ==
    /\ pump.at = "copying" /\ pump.held[e] > 0
    /\ \/ \E n \in 1..pump.held[e] :
             /\ pump' = [pump EXCEPT !.held[e] = @ - n]
             /\ side' = [side EXCEPT ![e].got = @ + n]
       \/ pump' = [pump EXCEPT !.at = "broken"] /\ UNCHANGED side

\* send_eof, once all the client sent is written.
PassEof ==
    /\ pump.at = "copying" /\ pump.eof["client"] /\ pump.held["remote"] = 0 /\ ~pump.eofSent
    /\ pump' \in {[pump EXCEPT !.eofSent = TRUE], [pump EXCEPT !.at = "broken"]}
    /\ UNCHANGED side

\* The loop ends when the channel is at its end and all of it is written.
RemoteDone == pump.eof["remote"] /\ pump.held["client"] = 0

EndBridge ==
    /\ pump.at = "copying" /\ RemoteDone
    /\ pump' = [pump EXCEPT !.at = "done"]
    /\ UNCHANGED side

BridgeNext == (\E e \in BridgeEnd : PeerSends(e) \/ Pump(e) \/ Write(e)) \/ PassEof \/ EndBridge

BridgeSpec == BridgeInit /\ [][BridgeNext]_bridgeVars

(***************************************************************************)
(* The X11 forwarder of a terminal.                                        *)
(***************************************************************************)
VARIABLES
    xstop,      \* X11Forwarder.stop
    dispatcher, \* the dispatching thread
    xchan,      \* the channels: offered, being set up, open, ended
    reached     \* channels whose bytes have been written to the X server

x11Vars == <<xstop, dispatcher, xchan, reached>>

X11Init ==
    /\ xstop = FALSE /\ dispatcher = "waiting"
    /\ xchan = [c \in XChannel |-> "none"] /\ reached = {}

OfferChannel(c) ==
    /\ xchan[c] = "none" /\ xchan' = [xchan EXCEPT ![c] = "offered"]
    /\ UNCHANGED <<xstop, dispatcher, reached>>

Bridged == {c \in XChannel : xchan[c] \in {"setup", "open"}}

\* start: a channel above the limit is dropped.
DispatchAny(c) == Cardinality(Bridged) <= MaxXChannels

Admits(c) == Cardinality(Bridged) < MaxXChannels

Dispatch(c) ==
    /\ dispatcher = "waiting" /\ xchan[c] = "offered"
    /\ xchan' = [xchan EXCEPT ![c] = IF Admits(c) THEN "setup" ELSE "ended"]
    /\ UNCHANGED <<xstop, dispatcher, reached>>

\* Fault: stop is looked at only when no channel is waiting.
StopWhenIdle ==
    /\ dispatcher = "waiting" /\ xstop /\ dispatcher' = "ended"
    /\ \A c \in XChannel : xchan[c] # "offered"
    /\ UNCHANGED <<xstop, xchan, reached>>

StopDispatching ==
    /\ dispatcher = "waiting" /\ xstop /\ dispatcher' = "ended"
    /\ UNCHANGED <<xstop, xchan, reached>>

\* read_and_rewrite_setup: the first packet must carry the fake cookie, in time; then it
\* goes on with the real one.
SetUp(c) ==
    /\ xchan[c] = "setup"
    /\ \/ ~xstop /\ xchan' = [xchan EXCEPT ![c] = "open"] /\ reached' = reached \union {c}
       \/ xchan' = [xchan EXCEPT ![c] = "ended"] /\ UNCHANGED reached
    /\ UNCHANGED <<xstop, dispatcher>>

EndChannel(c) ==
    /\ xchan[c] = "open" /\ xchan' = [xchan EXCEPT ![c] = "ended"]
    /\ UNCHANGED <<xstop, dispatcher, reached>>

\* Drop of the forwarder, with the handle of its terminal.
DropForwarder ==
    /\ ~xstop /\ xstop' = TRUE
    /\ UNCHANGED <<dispatcher, xchan, reached>>

X11Next ==
    \/ \E c \in XChannel : OfferChannel(c) \/ Dispatch(c) \/ SetUp(c) \/ EndChannel(c)
    \/ StopDispatching \/ DropForwarder

X11Spec == X11Init /\ [][X11Next]_x11Vars

\* Every loop of x11.rs looks at stop, and the wait for a channel is bounded.
X11Fairness ==
    /\ WF_x11Vars(StopDispatching)
    /\ \A c \in XChannel : WF_x11Vars(SetUp(c)) /\ WF_x11Vars(xstop /\ EndChannel(c))

ForwardingFairness == TunnelFairness /\ X11Fairness

(***************************************************************************)
(* Properties.                                                             *)
(***************************************************************************)
\* The types of the tunnels, of a bridge and of the X11 channels, which are so many.
TunnelTypeOK ==
    /\ rows \subseteq ForwardId /\ failed \subseteq ForwardId
    /\ running \in [ForwardId -> Run \union {None}]
    /\ run \in [Run -> {NoRun} \union
                      [id : ForwardId,
                       at : {"loaded", "connecting", "thread", "asking", "accepting", "greeting",
                             "opening", "ended"},
                       token : BOOLEAN]]

BridgeTypeOK ==
    /\ side \in [BridgeEnd -> [sent : Nat, closed : BOOLEAN, taken : Nat, got : Nat]]
    /\ pump \in [held : [BridgeEnd -> Nat], eof : [BridgeEnd -> BOOLEAN], eofSent : BOOLEAN,
                 at : {"copying", "broken", "done"}]

X11TypeOK ==
    /\ xstop \in BOOLEAN /\ dispatcher \in {"waiting", "ended"} /\ reached \subseteq XChannel
    /\ xchan \in [XChannel -> {"none", "offered", "setup", "open", "ended"}]
    /\ Cardinality(Bridged) <= MaxXChannels

ForwardingTypeOK == TunnelTypeOK /\ BridgeTypeOK /\ X11TypeOK

\* tunnel.rs: what is listed as running is a run of that forward that has not ended,
\* whatever fails on the way.
ListedRunsLive ==
    \A f \in ForwardId : running[f] # None => Live(running[f]) /\ run[running[f]].id = f

\* What a thread waits for without a time-out.
Waits(r) == run[r].at \in {"connecting", "asking", "greeting"}

\* A run that tunnel_stop does not find.
Unlisted(r) == Live(r) /\ ~run[r].token /\ running[run[r].id] # r

EndedLate(r) == \E q \in Run \ {r} : run[q].id = run[r].id /\ run[q].token /\ run[q].at = "ended"

\* A run that is told to stop ends, unless its handshake, its server's answer or its
\* client's request never comes.  A run that lives can be told to: it is listed or told
\* already, except where an earlier run of its forward, told to stop, ended after it had
\* started and took its token away (tunnel_stop then finds nothing).  And the channels of
\* an X11 forwarder end with it.
ForwardsCanBeStopped ==
    /\ \A r \in Run : run[r].token ~> (run[r].at = "ended" \/ []Waits(r))
    /\ [](\A r \in Run : Unlisted(r) => EndedLate(r))
    /\ xstop ~> (dispatcher = "ended" /\ Bridged = {})

\* bridge: a connection that ends without an error has carried all the remote end sent,
\* and the remote end is told of the end of the client after its last byte.
BridgeLosesNothing ==
    /\ pump.at = "done" => side["client"].got = side["remote"].sent
    /\ pump.eofSent => side["remote"].got = side["client"].taken
=============================================================================
