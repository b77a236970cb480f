---------------------------- MODULE RelayStream ----------------------------
(***************************************************************************)
(* The frames of a team terminal from end to end: the desktop client of    *)
(* its host and of one participant (src-tauri/src/team_relay_terminal.rs,  *)
(* collaboration.rs) and the relay between them (services/team-relay/src/  *)
(* terminal.rs, handle_socket and process_frame).  Output goes from the    *)
(* host to the participant, input from the participant to the host under   *)
(* the present lease; each client keeps an outbox over its reconnections.  *)
(*                                                                         *)
(* A frame is its sequence and, for input, the generation of its lease; a  *)
(* lease is its generation, 0 where there is none.  Who may do what is     *)
(* RelayRoom's subject: here every device stays authorised and the room    *)
(* open.                                                                   *)
(***************************************************************************)
EXTENDS Naturals, Sequences, FiniteSets, NoValue

CONSTANTS
    MaxSockets, \* bound of the model: connections made
    MaxOutput,  \* bound of the model: output frames
    MaxInput,   \* bound of the model: input frames
    MaxGrants,  \* bound of the model: leases
    Window,     \* MAX_REPLAY_FRAMES (512)
    HubSize     \* capacity of the broadcast channel of a hub (1024)

ASSUME StreamAssumption ==
    /\ {MaxSockets, MaxOutput, MaxInput, MaxGrants, Window, HubSize} \subseteq Nat
    /\ Window > 0 /\ HubSize > 0
    /\ None \notin 0..MaxSockets /\ None \notin {"host", "viewer"}

Side == {"host", "viewer"}
Socket == 1..MaxSockets

VARIABLES
    room,      \* the ManagedRoom of each client, its outbox and its cursors
    hostLease, \* control_lease of the host's RoomState
    hostGen,   \* its lease_generation
    hostInput, \* its next_input_sequence for the participant
    command,   \* a control command of the host under way
    output,    \* next_output_sequence - 1 of the relay
    kept,      \* the first sequence left in relay_frames
    nextInput, \* next_input_sequence of the relay
    lease,     \* the generation in room_control_leases
    leaseGen,   \* lease_generation of the relay
    expired,   \* leases up to this generation have expired
    hub,       \* the room's entry in hubs
    hubs,      \* hubs made so far
    socket,    \* the relay's handle_socket tasks
    up, down,  \* what is under way on each connection
    opened,    \* connections made so far
    air        \* the last output broadcast; a hub has lost or swapped output

streamState ==
    <<room, hostLease, hostGen, hostInput, command, output, kept, nextInput, lease, leaseGen,
      expired, hub, hubs, socket, up, down, opened, air>>

clientVars == <<room, hostLease, hostGen, hostInput>>
tableVars == <<output, kept, nextInput, lease, leaseGen, expired>>
relayVars == <<hub, hubs, socket, air>>

Frame(seq, gen) == [seq |-> seq, gen |-> gen]
Message(is, n, m) == [is |-> is, n |-> n, m |-> m]
Control(gen) == Message("control", gen, 0)
NewSocket == [by |-> None, phase |-> "none", hub |-> 0, heard |-> <<>>, after |-> 0,
              cutoff |-> 0, stored |-> <<>>]

Done == [NewSocket EXCEPT !.phase = "done"]

OutboxOf(r) == room[r].pending
InRoom(r) == room[r].status # "failed"

\* A new room: the host has published nothing, the participant has just joined.
StreamRoomInit ==
    /\ room = [r \in Side |-> [status |-> "connecting", conn |-> None, ready |-> FALSE,
                               pending |-> <<>>, next |-> 1, last |-> 0, lease |-> 0,
                               why |-> "none"]]
    /\ hostLease = 0 /\ hostGen = 0 /\ hostInput = 1 /\ command = [at |-> "none", gen |-> 0]
    /\ output = 0 /\ kept = 1 /\ nextInput = 1 /\ lease = 0 /\ leaseGen = 0 /\ expired = 0
    /\ hub = 0 /\ hubs = 0 /\ opened = 0 /\ air = [top |-> 0, bad |-> FALSE]
    /\ socket = [s \in Socket |-> NewSocket]
    /\ up = [s \in Socket |-> <<>>] /\ down = [s \in Socket |-> <<>>]

(***************************************************************************)
(* The client: run_room and what it calls.                                 *)
(***************************************************************************)
\* connect_async at the client, and handle_socket up to self.sender(): a hub is made
\* where there is none.
Connect(r) ==
    /\ room[r].status \in {"connecting", "reconnecting"} /\ room[r].conn = None
    /\ opened < MaxSockets
    /\ opened' = opened + 1
    /\ hubs' = IF hub = 0 THEN hubs + 1 ELSE hubs
    /\ hub' = IF hub = 0 THEN hubs' ELSE hub
    /\ room' = [room EXCEPT ![r].conn = opened', ![r].ready = FALSE]
    /\ socket' = [socket EXCEPT ![opened'] =
                    [NewSocket EXCEPT !.by = r, !.phase = "accepted", !.hub = hub',
                                      !.after = room[r].last]]
    /\ UNCHANGED <<hostLease, hostGen, hostInput, command, tableVars, up, down, air>>

Disconnected(c, status) == [c EXCEPT !.status = status, !.conn = None, !.ready = FALSE]

\* finish_room drops the outbox with the task.
FailedWith(c, why) ==
    [Disconnected(c, "failed") EXCEPT !.pending = <<>>, !.lease = 0, !.why = why]

\* A broken connection, a failed heartbeat, or the token about to expire: the client
\* leaves the socket; what it has sent may still be read by the relay, or be lost.
Reconnect(r) ==
    /\ room[r].conn # None
    /\ room' = [room EXCEPT ![r] = Disconnected(@, "reconnecting")]
    /\ up' \in {up, [up EXCEPT ![room[r].conn] = <<>>]}
    /\ down' = [down EXCEPT ![room[r].conn] = <<>>]
    /\ UNCHANGED <<hostLease, hostGen, hostInput, command, tableVars, relayVars, opened>>

\* send_front on the client's own connection.
SendFront(r, c) ==
    IF c.pending = <<>> THEN up' = up
    ELSE up' = [up EXCEPT ![room[r].conn] = Append(@, Head(c.pending))]

\* encrypt_and_enqueue_output and encrypt_and_enqueue_input: under crypto_lock the frame
\* gets the next sequence and goes to the outbox, and at once to a ready socket that has
\* nothing before it.  Input needs a lease that is this device's.
Publish(r) ==
    LET c == room[r]
        gen == IF r = "host" THEN 0 ELSE c.lease
        d == [c EXCEPT !.pending = Append(@, Frame(c.next, gen)), !.next = @ + 1]
    IN  /\ InRoom(r)
        /\ c.next <= IF r = "host" THEN MaxOutput ELSE MaxInput
        /\ r = "viewer" => gen > expired
        /\ room' = [room EXCEPT ![r] = d]
        /\ IF c.ready /\ Len(d.pending) = 1 THEN SendFront(r, d) ELSE up' = up
        /\ UNCHANGED <<hostLease, hostGen, hostInput, command, tableVars, relayVars, down, opened>>

\* The next message of the connection; a client that leaves the connection takes nothing
\* more from it.
Arrives(r, is) ==
    /\ room[r].conn # None
    /\ down[room[r].conn] # <<>> /\ Head(down[room[r].conn]).is = is

Taken(r) ==
    /\ down' = [down EXCEPT ![room[r].conn] = IF room'[r].conn = None THEN <<>> ELSE Tail(@)]
    /\ UNCHANGED <<command, tableVars, relayVars, opened>>

Arriving(r) == Head(down[room[r].conn])

Fails(r, why) == room' = [room EXCEPT ![r] = FailedWith(@, why)] /\ UNCHANGED up

\* reconcile_pending: what the relay has committed leaves the outbox.
FromFirst(pending, expected) ==
    LET n == CHOOSE n \in 0..Len(pending) :
               /\ \A i \in 1..n : pending[i].seq < expected
               /\ n < Len(pending) => pending[n + 1].seq >= expected
    IN  SubSeq(pending, n + 1, Len(pending))

UnconfirmedAfter(pending, expected) == FromFirst(pending, expected + 1)

Unconfirmed(pending, expected) == FromFirst(pending, expected)

ReceiveReady(r) ==
    /\ Arrives(r, "ready")
    /\ LET expected == IF r = "host" THEN Arriving(r).n + 1 ELSE Arriving(r).m
           left == Unconfirmed(OutboxOf(r), expected)
           c == [room[r] EXCEPT !.pending = left, !.ready = TRUE, !.status = "online",
                   !.last = IF r = "host" /\ @ < Arriving(r).n THEN Arriving(r).n ELSE @]
       IN  IF left # <<>> /\ Head(left).seq > expected
           THEN Fails(r, "gap")
           ELSE room' = [room EXCEPT ![r] = c] /\ SendFront(r, c)
    /\ UNCHANGED <<hostLease, hostGen, hostInput>>
    /\ Taken(r)

\* acknowledge_front.
Acknowledges(r) == OutboxOf(r) # <<>> /\ Head(OutboxOf(r)).seq = Arriving(r).n

ReceiveAccepted(r) ==
    /\ Arrives(r, "accepted")
    /\ IF Acknowledges(r)
       THEN LET c == [room[r] EXCEPT !.pending = Tail(@),
                        !.last = IF r = "host" /\ @ < Arriving(r).n THEN Arriving(r).n ELSE @]
            IN  /\ room' = [room EXCEPT ![r] = c]
                /\ IF c.ready THEN SendFront(r, c) ELSE up' = up
       ELSE UNCHANGED <<room, up>>
    /\ UNCHANGED <<hostLease, hostGen, hostInput>>
    /\ Taken(r)

\* decrypt_output takes the next sequence and no other; the host only moves its cursor.
TakesLater(c, seq) == seq > c.last

TakesOutput(c, seq) == seq = c.last + 1

ReceiveOutput(r) ==
    /\ Arrives(r, "output")
    /\ LET seq == Arriving(r).n
       IN  IF r = "host"
           THEN /\ room' = [room EXCEPT ![r].last = IF @ < seq THEN seq ELSE @]
                /\ UNCHANGED up
           ELSE IF TakesOutput(room[r], seq)
                THEN room' = [room EXCEPT ![r].last = seq] /\ UNCHANGED up
                ELSE Fails(r, "order")
    /\ UNCHANGED <<hostLease, hostGen, hostInput>>
    /\ Taken(r)

\* receive_encrypted_input and receive_input: the lease of the frame must be the host's
\* present one; then the text goes to the shell.
TakesInput(f) == hostLease = f.m /\ f.m > expired /\ f.n = hostInput

ReceiveInput ==
    /\ Arrives("host", "input")
    /\ LET f == Arriving("host")
       IN  IF TakesInput(f)
           THEN /\ hostInput' = hostInput + 1
                /\ (UNCHANGED <<room, up>> \/ Fails("host", "shell"))
                /\ UNCHANGED hostLease
           ELSE /\ Fails("host", IF f.n = hostInput THEN "lease" ELSE "sequence")
                /\ hostLease' = IF hostLease > expired THEN hostLease ELSE 0
                /\ UNCHANGED hostInput
    /\ UNCHANGED hostGen
    /\ Taken("host")

\* apply_control_lease: a generation never goes back, and is one lease.
Applies(gen) == gen > hostGen \/ (gen = hostGen /\ hostLease = gen)

\* A lease that has expired is none.  The participant takes what it is told.
ReceiveControl(r) ==
    /\ Arrives(r, "control")
    /\ LET gen == IF Arriving(r).n > expired THEN Arriving(r).n ELSE 0
       IN  IF r = "viewer"
           THEN /\ room' = [room EXCEPT ![r].lease = gen]
                /\ UNCHANGED <<up, hostLease, hostGen>>
           ELSE IF gen = 0
           THEN /\ hostLease' = 0 /\ room' = [room EXCEPT ![r].lease = 0]
                /\ UNCHANGED <<up, hostGen>>
           ELSE IF Applies(gen)
           THEN /\ hostLease' = gen /\ hostGen' = gen /\ room' = [room EXCEPT ![r].lease = gen]
                /\ UNCHANGED up
           ELSE Fails(r, "control") /\ UNCHANGED <<hostLease, hostGen>>
    /\ UNCHANGED hostInput
    /\ Taken(r)

\* Any error but an expired token ends the room.
ReceiveError(r) ==
    /\ Arrives(r, "error")
    /\ Fails(r, "refused")
    /\ UNCHANGED <<hostLease, hostGen, hostInput>>
    /\ Taken(r)

ReceiveEnd(r) ==
    /\ Arrives(r, "end")
    /\ room' = [room EXCEPT ![r] = Disconnected(@, "reconnecting")]
    /\ UNCHANGED <<up, hostLease, hostGen, hostInput>>
    /\ Taken(r)

(***************************************************************************)
(* The relay: a handle_socket task for each connection, and the hub.       *)
(***************************************************************************)
Goes(s, phase) ==
    socket' = [socket EXCEPT ![s] = IF phase = "done" THEN Done ELSE [@ EXCEPT !.phase = phase]]

Listens(t) == socket[t].phase \in {"listening", "cut", "replayed", "loop"}

\* To the client of s, if it is still there.
Deliver(s, messages) ==
    down' = IF room[socket[s].by].conn = s THEN [down EXCEPT ![s] = @ \o messages] ELSE down

\* Sending to the hub of the room: a receiver that is full loses its oldest message.
HeardAll(heard, m) == Append(heard, m)

Heard(heard, m) ==
    IF Len(heard) = HubSize THEN Append(Tail(heard), m) ELSE Append(heard, m)

LosesOutput(m) ==
    \E t \in Socket : /\ Listens(t) /\ socket[t].hub = hub /\ Len(socket[t].heard) = HubSize
                      /\ Head(Append(socket[t].heard, m)).is = "output"

\* sender().send(m), after which socket s is as sock says.
Broadcast(m, sock) ==
    /\ hubs' = IF hub = 0 THEN hubs + 1 ELSE hubs
    /\ hub' = IF hub = 0 THEN hubs' ELSE hub
    /\ socket' = [t \in Socket |-> IF Listens(t) /\ sock[t].hub = hub'
                                   THEN [sock[t] EXCEPT !.heard = Heard(@, m)] ELSE sock[t]]
    /\ air' = IF m.is = "output"
              THEN [top |-> IF m.n > air.top THEN m.n ELSE air.top,
                    bad |-> air.bad \/ m.n # air.top + 1 \/ LosesOutput(m)]
              ELSE [air EXCEPT !.bad = @ \/ LosesOutput(m)]

relayRest == <<clientVars, command, up, opened>>

\* sender.subscribe(): the hub may have left the map since sender() gave it.
Subscribe(s) ==
    /\ socket[s].phase = "accepted"
    /\ Goes(s, "listening")
    /\ UNCHANGED <<relayRest, tableVars, hub, hubs, air, down>>

ReadCutoff(s) ==
    /\ socket[s].phase = "listening"
    /\ socket' = [socket EXCEPT ![s].phase = "cut", ![s].cutoff = output]
    /\ UNCHANGED <<relayRest, tableVars, hub, hubs, air, down>>

\* replay(): everything from after + 1 to the cutoff, or an error; then the cursors.
WindowCovers(c) == c.after = c.cutoff \/ (c.after < c.cutoff /\ kept <= c.after + 1)

Outputs(from, to) == [i \in 1..(to - from) |-> Message("output", from + i, 0)]

Replay(s) ==
    LET c == socket[s]
    IN  /\ c.phase = "cut"
        /\ IF WindowCovers(c)
           THEN /\ Deliver(s, Append(Outputs(c.after, c.cutoff),
                                     Message("ready", c.cutoff, nextInput)))
                /\ Goes(s, "replayed")
           ELSE Deliver(s, <<Message("error", 0, 0), Message("end", 0, 0)>>) /\ Goes(s, "done")
        /\ UNCHANGED <<relayRest, tableVars, hub, hubs, air>>

\* current_control, the last of the snapshots.
SendControl(s) ==
    /\ socket[s].phase = "replayed"
    /\ Deliver(s, <<Control(IF lease > expired THEN lease ELSE 0)>>)
    /\ Goes(s, "loop")
    /\ UNCHANGED <<relayRest, tableVars, hub, hubs, air>>

Serves(s) == socket[s].phase = "loop" /\ socket[s].stored = <<>>

\* process_frame up to its commit; a new output frame prunes the window.
\* The clock is not set back here, so that age takes the oldest frames (see RelayRoom).
CommitOutput(s) ==
    LET f == Head(up[s])
    IN  /\ Serves(s) /\ socket[s].by = "host" /\ up[s] # <<>>
        /\ f.seq = output + 1
        /\ output' = f.seq
        /\ kept' \in {k \in kept..f.seq : f.seq - k < Window}
        /\ socket' = [socket EXCEPT ![s].stored = <<Message("output", f.seq, 0)>>]
        /\ up' = [up EXCEPT ![s] = Tail(@)]
        /\ UNCHANGED <<clientVars, command, nextInput, lease, leaseGen, expired, hub, hubs, air,
                       down, opened>>

TakesLease(f) == lease = f.gen /\ f.gen > expired

CommitInput(s) ==
    LET f == Head(up[s])
    IN  /\ Serves(s) /\ socket[s].by = "viewer" /\ up[s] # <<>>
        /\ f.seq = nextInput /\ TakesLease(f)
        /\ nextInput' = nextInput + 1
        /\ socket' = [socket EXCEPT ![s].stored = <<Message("input", f.seq, f.gen)>>]
        /\ up' = [up EXCEPT ![s] = Tail(@)]
        /\ UNCHANGED <<clientVars, command, output, kept, lease, leaseGen, expired, hub, hubs, air,
                       down, opened>>

RefuseFrame(s) ==
    LET f == Head(up[s])
    IN  /\ Serves(s) /\ up[s] # <<>>
        /\ IF socket[s].by = "host" THEN f.seq # output + 1
           ELSE f.seq # nextInput \/ ~TakesLease(f)
        /\ Deliver(s, <<Message("error", 0, 0)>>)
        /\ up' = [up EXCEPT ![s] = Tail(@)]
        /\ UNCHANGED <<clientVars, command, tableVars, relayVars, opened>>

\* The end of process_frame: the frame to the hub, "accepted" to its sender.
AirFrame(s) ==
    LET stored == socket[s].stored
    IN  /\ stored # <<>>
        /\ Broadcast(stored[1], [socket EXCEPT ![s].stored = <<>>])
        /\ Deliver(s, <<Message("accepted", stored[1].n, 0)>>)
        /\ UNCHANGED <<relayRest, tableVars>>

\* What the hub has for this socket: output beyond the cutoff, input for the host only.
Passes(s, m) ==
    /\ m.is = "output" => m.n > socket[s].cutoff
    /\ m.is = "input" => socket[s].by = "host"

Forward(s) ==
    /\ Serves(s) /\ socket[s].heard # <<>>
    /\ LET m == Head(socket[s].heard) IN Deliver(s, IF Passes(s, m) THEN <<m>> ELSE <<>>)
    /\ socket' = [socket EXCEPT ![s].heard = Tail(@)]
    /\ UNCHANGED <<relayRest, tableVars, hub, hubs, air>>

\* A socket that ends (closed, broken, no longer authorised, or the relay shuts down)
\* drops its receiver; from its loop it looks whether another one is left.
Gone(s, phase) ==
    /\ socket' = [socket EXCEPT ![s] = [NewSocket EXCEPT !.phase = phase]]
    /\ Deliver(s, <<Message("end", 0, 0)>>)
    /\ up' = [up EXCEPT ![s] = <<>>]
    /\ UNCHANGED <<clientVars, command, tableVars, hub, hubs, air, opened>>

LastOfHub(s) == \A t \in Socket \ {s} : Listens(t) => socket[t].hub # socket[s].hub

Abandon(s) == socket[s].phase \in {"accepted", "listening", "cut", "replayed"} /\ Gone(s, "done")

EndSocket(s) == Serves(s) /\ Gone(s, IF LastOfHub(s) THEN "leaving" ELSE "done")

\* hubs.remove(room_id), whatever hub is there by now.
RemoveHub(s) ==
    /\ socket[s].phase = "leaving"
    /\ hub' = 0 /\ Goes(s, "done")
    /\ UNCHANGED <<relayRest, tableVars, hubs, air, down>>

(***************************************************************************)
(* Control: the commands of the host, which commit at the relay, are       *)
(* broadcast by it, and are then applied at the host; and time.            *)
(***************************************************************************)
commandRest == <<room, hostInput, output, kept, nextInput, up, opened>>

GrantAtRelay ==
    /\ command.at = "none" /\ leaseGen < MaxGrants
    /\ leaseGen' = leaseGen + 1 /\ lease' = leaseGen'
    /\ command' = [at |-> "granted", gen |-> leaseGen']
    /\ UNCHANGED <<commandRest, hostLease, hostGen, expired, relayVars, down>>

\* The model revokes a lease, never the lack of one.
RevokeAtRelay ==
    /\ command.at \in {"none", "undo"} /\ lease # 0
    /\ lease' = 0
    /\ command' = [command EXCEPT !.at = IF @ = "none" THEN "revoked" ELSE "undone"]
    /\ UNCHANGED <<commandRest, hostLease, hostGen, leaseGen, expired, relayVars, down>>

\* broadcast_control, then the response; the response may be lost.
AirControl ==
    /\ command.at \in {"granted", "revoked", "undone"}
    /\ Broadcast(Control(IF command.at = "granted" THEN command.gen ELSE 0), socket)
    /\ command' \in {[command EXCEPT !.at = IF @ = "granted" THEN "answered"
                                            ELSE IF @ = "revoked" THEN "cleared" ELSE "none"],
                     [command EXCEPT !.at = "none"]}
    /\ UNCHANGED <<commandRest, hostLease, hostGen, lease, leaseGen, expired, down>>

\* apply_control_lease of the command; what cannot be applied is revoked again.
ApplyGrant ==
    /\ command.at = "answered"
    /\ IF Applies(command.gen) /\ command.gen > expired
       THEN /\ hostLease' = command.gen /\ hostGen' = command.gen
            /\ room' = [room EXCEPT !["host"].lease = command.gen]
            /\ command' = [command EXCEPT !.at = "none"]
       ELSE /\ command' = [command EXCEPT !.at = IF lease = 0 THEN "none" ELSE "undo"]
            /\ UNCHANGED <<room, hostLease, hostGen>>
    /\ UNCHANGED <<hostInput, tableVars, relayVars, up, down, opened>>

ApplyRevoke ==
    /\ command.at = "cleared"
    /\ hostLease' = 0 /\ room' = [room EXCEPT !["host"].lease = 0]
    /\ command' = [command EXCEPT !.at = "none"]
    /\ UNCHANGED <<hostGen, hostInput, tableVars, relayVars, up, down, opened>>

LeaseExpires ==
    /\ expired < leaseGen
    /\ expired' = leaseGen
    /\ UNCHANGED <<clientVars, command, output, kept, nextInput, lease, leaseGen, relayVars, up,
                   down, opened>>

StreamNext ==
    \/ \E r \in Side :
         \/ Connect(r) \/ Reconnect(r) \/ Publish(r)
         \/ ReceiveReady(r) \/ ReceiveAccepted(r) \/ ReceiveOutput(r) \/ ReceiveControl(r)
         \/ ReceiveError(r) \/ ReceiveEnd(r)
    \/ ReceiveInput
    \/ \E s \in Socket :
         \/ Subscribe(s) \/ ReadCutoff(s) \/ Replay(s) \/ SendControl(s)
         \/ CommitOutput(s) \/ CommitInput(s) \/ RefuseFrame(s) \/ AirFrame(s) \/ Forward(s)
         \/ Abandon(s) \/ EndSocket(s) \/ RemoveHub(s)
    \/ GrantAtRelay \/ RevokeAtRelay \/ AirControl \/ ApplyGrant \/ ApplyRevoke \/ LeaseExpires

StreamRoomSpec == StreamRoomInit /\ [][StreamNext]_streamState

(***************************************************************************)
(* Properties.                                                             *)
(***************************************************************************)
Inputs == INSTANCE OrderedStream WITH sent <- room["viewer"].next - 1, given <- hostInput - 1
Output == INSTANCE OrderedStream WITH sent <- room["host"].next - 1, given <- room["viewer"].last

Frames == [seq : Nat, gen : 0..MaxGrants]
Messages ==
    [is : {"ready", "accepted", "output", "input", "control", "error", "end"}, n : Nat, m : Nat]

ClientState ==
    [status : {"connecting", "online", "reconnecting", "failed"}, conn : Socket \union {None},
     ready : BOOLEAN, pending : Seq(Frames), next : Nat \ {0}, last : Nat,
     lease : 0..MaxGrants,
     why : {"none", "gap", "order", "lease", "sequence", "shell", "control", "refused"}]

SocketState ==
    [by : Side \union {None},
     phase : {"none", "accepted", "listening", "cut", "replayed", "loop", "leaving", "done"},
     hub : Nat, heard : Seq(Messages), after : Nat, cutoff : Nat, stored : Seq(Messages)]

ControlState ==
    [at : {"none", "granted", "revoked", "undone", "answered", "cleared", "undo"},
     gen : 0..MaxGrants]

\* The type of everything above; a hub keeps no more for a socket than its capacity.
StreamTypeOK ==
    /\ room \in [Side -> ClientState] /\ socket \in [Socket -> SocketState]
    /\ up \in [Socket -> Seq(Frames)] /\ down \in [Socket -> Seq(Messages)]
    /\ {hostLease, hostGen, lease, leaseGen, expired} \subseteq 0..MaxGrants
    /\ output \in 0..MaxOutput /\ kept \in 1..output + 1 /\ nextInput \in 1..MaxInput + 1
    /\ hostInput \in 1..nextInput /\ opened \in 0..MaxSockets /\ hub \in Nat /\ hubs \in Nat
    /\ command \in ControlState
    /\ air \in [top : Nat, bad : BOOLEAN]
    /\ \A s \in Socket : socket[s].cutoff <= output /\ Len(socket[s].heard) <= HubSize

\* Both directions keep the promise of an ordered stream.
StreamsAreOrdered == Output!StreamSpec /\ Inputs!StreamSpec

Committed(r) == IF r = "host" THEN output ELSE nextInput - 1

\* What a client has sealed is in the tables of the relay or still in its outbox, and
\* the participant is only ever out of step when a hub has lost or swapped output.
LossIsNoticed ==
    /\ \A r \in Side : InRoom(r) =>
          \A n \in Committed(r) + 1..room[r].next - 1 :
              \E i \in 1..Len(OutboxOf(r)) : OutboxOf(r)[i].seq = n
    /\ room["viewer"].why = "order" => air.bad
=============================================================================
