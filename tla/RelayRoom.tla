----------------------------- MODULE RelayRoom -----------------------------
(***************************************************************************)
(* The shared-terminal rooms of one workspace as the relay's database      *)
(* keeps them (services/team-relay/src/terminal.rs), composed with the     *)
(* roster of RelayAccess: rooms, their invitations, participants, control  *)
(* lease and the replay window of encrypted output.                        *)
(*                                                                         *)
(* Most handlers check the room with queries of their own before they open *)
(* a transaction; what they found is the task's job, and the world may     *)
(* change before the transaction runs.  Delivery to the sockets is the     *)
(* subject of RelayStream: here a handler ends with its commit.            *)
(*                                                                         *)
(* Expiry times are the Boolean "live", switched off by a step of their    *)
(* own, and on again where the clock is set back; the lease id (a fresh    *)
(* UUID per grant) is the lease's generation.                              *)
(***************************************************************************)
EXTENDS RelayAccess

CONSTANTS
    Room,              \* room ids; the host draws a fresh UUID for each room
    MaxActiveRooms,    \* MAX_ACTIVE_ROOMS (64)
    MaxRoomHistory,    \* MAX_ROOM_HISTORY (4096)
    MaxParticipants,   \* MAX_ROOM_PARTICIPANTS (64)
    MaxReplayFrames,   \* MAX_REPLAY_FRAMES (512)
    MaxOutput,         \* bound of the model: output frames of a room
    MaxInput,          \* bound of the model: input frames of a device
    MaxGrants          \* bound of the model: leases granted in a room

ASSUME RoomAssumption ==
    /\ MaxActiveRooms \in Nat
    /\ MaxRoomHistory \in Nat
    /\ MaxParticipants \in Nat
    /\ MaxReplayFrames \in Nat \ {0}
    /\ MaxOutput \in Nat
    /\ MaxInput \in Nat
    /\ MaxGrants \in Nat

\* With the columns of a room: its outputs below `ahead` were stamped before the clock was
\* last set back.
RoomRow == [status : {"unused", "active", "closed", "purged"}, host : Device,
            epoch : Nat, nextOutput : Nat, generation : Nat, ahead : Nat]
Lease == [dev : Device, generation : Nat, live : BOOLEAN]

\* What a task has checked: the room it may act on, and for some operations
\* the device concerned or the frame received.
Job == [op : {"invite", "counted", "grant", "granted", "leave", "revoke", "close",
              "output", "input"},
        room : Room, dev : Device, frame : Nat, generation : Nat]

ASSUME NoneRoomAssumption == None \notin Lease /\ None \notin Job

VARIABLES
    room,     \* terminal_rooms
    invited,  \* room_invitations: "none", "pending", "expired" or "accepted"
    present,  \* room_participants with removed_at IS NULL, as a set per room
    nextInput,\* room_participants.next_input_sequence, 0 where there is no row
    lease,    \* room_control_leases
    kept,     \* relay_frames: the output sequences kept for replay
    job       \* what each task has checked so far, None before its first check

roomVars == <<room, invited, present, nextInput, lease, kept>>
vars == <<accessVars, roomVars, job>>

Active(r) == room[r].status = "active"

ActiveRooms == {r \in Room : Active(r)}

NoRooms ==
    /\ room = [r \in Room |-> [status |-> "unused", host |-> Founder, epoch |-> 0,
                               nextOutput |-> 0, generation |-> 0, ahead |-> 0]]
    /\ invited = [r \in Room |-> [d \in Device |-> "none"]]
    /\ present = [r \in Room |-> {}]
    /\ nextInput = [r \in Room |-> [d \in Device |-> 0]]
    /\ lease = [r \in Room |-> None]
    /\ kept = [r \in Room |-> {}]
    /\ job = [t \in Task |-> None]

RoomInit == AccessInit /\ NoRooms

(***************************************************************************)
(* What a handler does with its task.                                      *)
(***************************************************************************)
\* An authenticated request that has not begun another operation.
Fresh(t) == auth[t] # None /\ job[t] = None /\ t \notin inviting

Begin(t, op, r, d, n, g) ==
    /\ job' = [job EXCEPT ![t] =
                 [op |-> op, room |-> r, dev |-> d, frame |-> n, generation |-> g]]
    /\ UNCHANGED <<accessVars, roomVars>>

At(t, op) == job[t] # None /\ job[t].op = op

Advance(t, op) == job' = [job EXCEPT ![t].op = op]

Finish(t) ==
    /\ Answer(t)
    /\ job' = [job EXCEPT ![t] = None]
    /\ UNCHANGED <<workspace, keyEpoch, member, device, invitation>>

\* authorize_room: the device is a present participant of an active room of the
\* epoch its DeviceAuth carries.
Authorized(t, r) ==
    /\ Fresh(t)
    /\ auth[t].dev \in present[r]
    /\ room[r].epoch = auth[t].epoch
    /\ Active(r)

\* host_room
HostAuthorized(t, r) ==
    /\ Authorized(t, r)
    /\ auth[t].role \in ShareManage
    /\ room[r].host = auth[t].dev

(***************************************************************************)
(* create_room: one transaction that never reads workspaces.key_epoch: the *)
(* epoch it compares with the request is the one of the DeviceAuth.  It    *)
(* first deletes closed rooms beyond the history limit; which ones go      *)
(* (ordered by closed_at) is left open.                                    *)
(***************************************************************************)
RoomSlotFree == Cardinality(ActiveRooms) < MaxActiveRooms

CreateRoom(t, r) ==
    LET closed == {q \in Room : room[q].status = "closed"} IN
    \E gone \in SUBSET closed :
    /\ Fresh(t)
    /\ auth[t].role \in ShareManage
    /\ workspace = "active"
    /\ Cardinality(gone) = IF Cardinality(closed) > MaxRoomHistory
                             THEN Cardinality(closed) - MaxRoomHistory ELSE 0
    /\ RoomSlotFree
    /\ room[r].status = "unused"
    /\ room' = [q \in Room |->
                  IF q = r THEN [status |-> "active", host |-> auth[t].dev,
                                 epoch |-> auth[t].epoch, nextOutput |-> 1, generation |-> 0,
                                 ahead |-> 0]
                  ELSE IF q \in gone THEN [room[q] EXCEPT !.status = "purged"] ELSE room[q]]
    /\ invited' = [q \in Room |-> IF q \in gone THEN [d \in Device |-> "none"] ELSE invited[q]]
    /\ present' = [q \in Room |-> IF q = r THEN {auth[t].dev}
                                  ELSE IF q \in gone THEN {} ELSE present[q]]
    /\ nextInput' = [q \in Room |-> IF q = r THEN [nextInput[q] EXCEPT ![auth[t].dev] = 1]
                                    ELSE IF q \in gone THEN [d \in Device |-> 0] ELSE nextInput[q]]
    /\ lease' = [q \in Room |-> IF q \in gone THEN None ELSE lease[q]]
    /\ kept' = [q \in Room |-> IF q \in gone THEN {} ELSE kept[q]]
    /\ Finish(t)

(***************************************************************************)
(* route_invitation: host_room, the recipient query and the lookup of the  *)
(* host's signing key, then the cap query, then the upsert; none of them   *)
(* shares a transaction.                                                   *)
(***************************************************************************)
CheckInvitation(t, r, d) ==
    /\ HostAuthorized(t, r)
    /\ IsActive(d)
    /\ device[auth[t].dev] = "active"
    /\ Begin(t, "invite", r, d, 0, 0)

\* participant_count and already_invited.
InvitationSeats(r) == present[r] \union {d \in Device : invited[r][d] \in {"pending", "expired"}}

CountParticipants(t) ==
    LET r == job[t].room IN
    /\ At(t, "invite")
    /\ \/ Cardinality(InvitationSeats(r)) < MaxParticipants
       \/ invited[r][job[t].dev] # "none"
    /\ Advance(t, "counted")
    /\ UNCHANGED <<accessVars, roomVars>>

RouteInvitation(t) ==
    LET r == job[t].room IN
    /\ At(t, "counted")
    /\ room[r].status \in {"active", "closed"}
    /\ invited' = [invited EXCEPT ![r][job[t].dev] = "pending"]
    /\ Finish(t)
    /\ UNCHANGED <<room, present, nextInput, lease, kept>>

ExpireRoomInvitation(r, d) ==
    /\ invited[r][d] \in {"pending", "expired"}
    /\ invited' = [invited EXCEPT ![r][d] = IF @ = "pending" THEN "expired" ELSE "pending"]
    /\ UNCHANGED <<accessVars, room, present, nextInput, lease, kept, job>>

\* Fault: a device that comes back starts over.
FirstInput(r, d) == 1

(***************************************************************************)
(* join_room: one transaction.  The participant row outlives a leave, and  *)
(* so does its next_input_sequence; a first join takes the host's value    *)
(* from the envelope, 1 for a device that never wrote.                     *)
(***************************************************************************)
InputAtJoin(r, d) == IF nextInput[r][d] = 0 THEN 1 ELSE nextInput[r][d]

JoinRoom(t, r) ==
    LET d == auth[t].dev IN
    /\ Fresh(t)
    /\ invited[r][d] = "pending"
    /\ room[r].epoch = auth[t].epoch
    /\ Active(r)
    /\ present' = [present EXCEPT ![r] = @ \union {d}]
    /\ nextInput' = [nextInput EXCEPT ![r][d] = InputAtJoin(r, d)]
    /\ invited' = [invited EXCEPT ![r][d] = "accepted"]
    /\ Finish(t)
    /\ UNCHANGED <<room, lease, kept>>

(***************************************************************************)
(* leave_room                                                              *)
(***************************************************************************)
CheckLeave(t, r) ==
    /\ Authorized(t, r)
    /\ room[r].host # auth[t].dev
    /\ Begin(t, "leave", r, auth[t].dev, 0, 0)

LeaveRoom(t) ==
    LET r == job[t].room
        d == job[t].dev IN
    /\ At(t, "leave")
    /\ d \in present[r]
    /\ present' = [present EXCEPT ![r] = @ \ {d}]
    /\ lease' = IF lease[r] # None /\ lease[r].dev = d
                  THEN [lease EXCEPT ![r] = None] ELSE lease
    /\ Finish(t)
    /\ UNCHANGED <<room, invited, nextInput, kept>>

(***************************************************************************)
(* grant_control: host_room, the target query, then the transaction, which *)
(* looks at the room's status only.                                        *)
(***************************************************************************)
CheckGrant(t, r, d) ==
    /\ HostAuthorized(t, r)
    /\ Begin(t, "grant", r, d, 0, 0)

\* Fault: any participant will do.
CheckGrantPresence(t) ==
    /\ At(t, "grant")
    /\ job[t].dev \in present[job[t].room]
    /\ Advance(t, "granted")
    /\ UNCHANGED <<accessVars, roomVars>>

CheckGrantTarget(t) ==
    LET d == job[t].dev IN
    /\ At(t, "grant")
    /\ d \in present[job[t].room]
    /\ MayControl(d)
    /\ Advance(t, "granted")
    /\ UNCHANGED <<accessVars, roomVars>>

NextGeneration(r) == room[r].generation + 1

\* Fault: the transaction trusts the checks made before it.
GrantChecked(t) ==
    LET r == job[t].room
        g == NextGeneration(r) IN
    /\ At(t, "granted")
    /\ g <= MaxGrants
    /\ room' = [room EXCEPT ![r].generation = g]
    /\ lease' = [lease EXCEPT ![r] = [dev |-> job[t].dev, generation |-> g, live |-> TRUE]]
    /\ Finish(t)
    /\ UNCHANGED <<invited, present, nextInput, kept>>

GrantControl(t) ==
    LET r == job[t].room
        g == NextGeneration(r) IN
    /\ At(t, "granted")
    /\ Active(r)
    /\ g <= MaxGrants
    /\ room' = [room EXCEPT ![r].generation = g]
    /\ lease' = [lease EXCEPT ![r] = [dev |-> job[t].dev, generation |-> g, live |-> TRUE]]
    /\ Finish(t)
    /\ UNCHANGED <<invited, present, nextInput, kept>>

\* The clock passes expires_at, or is set back before it.
ExpireLease(r) ==
    /\ lease[r] # None
    /\ lease' = [lease EXCEPT ![r].live = ~@]
    /\ UNCHANGED <<accessVars, room, invited, present, nextInput, kept, job>>

(***************************************************************************)
(* revoke_control, close_room                                              *)
(***************************************************************************)
CheckHost(t, r, op) ==
    /\ op \in {"revoke", "close"}
    /\ HostAuthorized(t, r)
    /\ Begin(t, op, r, auth[t].dev, 0, 0)

RevokeControl(t) ==
    /\ At(t, "revoke")
    /\ lease' = [lease EXCEPT ![job[t].room] = None]
    /\ Finish(t)
    /\ UNCHANGED <<room, invited, present, nextInput, kept>>

CloseRoom(t) ==
    LET r == job[t].room IN
    /\ At(t, "close")
    /\ room' = IF Active(r) THEN [room EXCEPT ![r].status = "closed"] ELSE room
    /\ lease' = [lease EXCEPT ![r] = None]
    /\ kept' = [kept EXCEPT ![r] = {}]
    /\ Finish(t)
    /\ UNCHANGED <<invited, present, nextInput>>

(***************************************************************************)
(* process_frame: the sender's room and signing key are looked up, then    *)
(* one transaction tests the sequence (and the lease, for input) and       *)
(* counts the frame.                                                       *)
(***************************************************************************)
ReceiveOutput(t, r, n) ==
    /\ Authorized(t, r)
    /\ device[auth[t].dev] = "active"
    /\ Begin(t, "output", r, auth[t].dev, n, 0)

ReceiveInput(t, r, n, g) ==
    /\ Authorized(t, r)
    /\ device[auth[t].dev] = "active"
    /\ Begin(t, "input", r, auth[t].dev, n, g)

\* The frames stamped before the limit of age, in whatever place: stamps grow with the
\* sequence, except from before a step back of the clock to after it.
Aged(r, frames) ==
    {old \in SUBSET frames :
        \A n \in old, m \in frames : room[r].ahead <= m /\ m < n => m \in old}

\* prune_replay: these go, and then what exceeds the limit of frames or of bytes, from the
\* old end; the frame that has just come always stays.
Prune(r, frames) ==
    \E old \in Aged(r, frames), oldest \in frames :
        LET rest == {n \in frames \ old : n >= oldest} IN
        /\ room[r].nextOutput \in rest
        /\ Cardinality(rest) <= MaxReplayFrames
        /\ kept' = [kept EXCEPT ![r] = rest]

\* What is stamped from now on looks older than what is kept.
SetClockBack ==
    /\ room' = [r \in Room |-> IF Active(r) THEN [room[r] EXCEPT !.ahead = room[r].nextOutput]
                              ELSE room[r]]
    /\ UNCHANGED <<accessVars, invited, present, nextInput, lease, kept, job>>

(***************************************************************************)
(* replay, for a client that has the outputs up to `after`: it is refused  *)
(* when the window is exceeded, or the first or the last row is not there. *)
(***************************************************************************)
Replayed(r, after) == {n \in kept[r] : n > after /\ n < room[r].nextOutput}

\* Fault: the last row alone is looked at.
ReplaysUpTo(r, after) ==
    after < room[r].nextOutput - 1 => room[r].nextOutput - 1 \in Replayed(r, after)

Replays(r, after) ==
    after < room[r].nextOutput - 1 =>
        /\ room[r].nextOutput - 1 - after <= MaxReplayFrames
        /\ {after + 1, room[r].nextOutput - 1} \subseteq Replayed(r, after)

TakesOutput(r, d) == room[r].host = d /\ Active(r)

AcceptOutput(t) ==
    LET r == job[t].room
        n == job[t].frame IN
    /\ At(t, "output")
    /\ TakesOutput(r, job[t].dev)
    /\ n = room[r].nextOutput
    /\ n <= MaxOutput
    /\ room' = [room EXCEPT ![r].nextOutput = n + 1]
    /\ Prune(r, kept[r] \union {n})
    /\ Finish(t)
    /\ UNCHANGED <<invited, present, nextInput, lease>>

AcceptInput(t) ==
    LET r == job[t].room
        d == job[t].dev
        n == job[t].frame IN
    /\ At(t, "input")
    /\ auth[t].role \in TerminalControl
    /\ d \in present[r]
    /\ n = nextInput[r][d]
    /\ n <= MaxInput
    /\ lease[r] = [dev |-> d, generation |-> job[t].generation, live |-> TRUE]
    /\ nextInput' = [nextInput EXCEPT ![r][d] = n + 1]
    /\ Finish(t)
    /\ UNCHANGED <<room, invited, present, lease, kept>>

\* Fault: the epoch alone is meant to shut the old rooms out.
KeepRooms == UNCHANGED roomVars

(***************************************************************************)
(* The store's operations and what they do to the rooms.                   *)
(***************************************************************************)
\* close_workspace_rooms: leases and frames stay behind in the closed room.
CloseWorkspaceRooms ==
    /\ room' = [r \in Room |-> IF Active(r) THEN [room[r] EXCEPT !.status = "closed"] ELSE room[r]]
    /\ UNCHANGED <<invited, present, nextInput, lease, kept>>

\* The rooms go with their workspace.
PurgeRooms ==
    /\ room' = [r \in Room |-> IF room[r].status = "unused" THEN room[r]
                               ELSE [room[r] EXCEPT !.status = "purged"]]
    /\ invited' = [r \in Room |-> [d \in Device |-> "none"]]
    /\ present' = [r \in Room |-> {}]
    /\ nextInput' = [r \in Room |-> [d \in Device |-> 0]]
    /\ lease' = [r \in Room |-> None]
    /\ kept' = [r \in Room |-> {}]

ChangeRoster ==
    \/ /\ \E i \in Invitation : AcceptInvitation(i)
       /\ CloseWorkspaceRooms
       /\ UNCHANGED job
    \/ \E t \in Task, d \in Device :
          /\ Fresh(t)
          /\ \/ \E r \in Role, s \in {"active", "removed"} : UpdateMember(t, d, r, s)
             \/ RevokeDevice(t, d)
          /\ CloseWorkspaceRooms
          /\ UNCHANGED job

EndRequest(t) ==
    \/ /\ Reject(t)
       /\ job' = [job EXCEPT ![t] = None]
       /\ UNCHANGED roomVars
    \/ /\ Fresh(t)
       /\ DeleteWorkspace(t)
       /\ PurgeRooms
       /\ UNCHANGED job

UseStore ==
    /\ \/ \E t \in Task :
             \/ \E d \in Device : Authenticate(t, d)
             \/ Fresh(t) /\ CountInvitations(t)
             \/ \E i \in Invitation, d \in Device, r \in Role : InsertInvitation(t, i, d, r)
       \/ \E i \in Invitation : ExpireInvitation(i)
    /\ UNCHANGED <<roomVars, job>>

\* Checks made before a transaction: they only note their outcome.
Check(t) ==
    \/ \E r \in Room :
          \/ \E d \in Device : CheckInvitation(t, r, d) \/ CheckGrant(t, r, d)
          \/ \E op \in {"revoke", "close"} : CheckHost(t, r, op)
          \/ CheckLeave(t, r)
          \/ \E n \in 1..MaxOutput : ReceiveOutput(t, r, n)
          \/ \E n \in 1..MaxInput, g \in 1..MaxGrants : ReceiveInput(t, r, n, g)
    \/ CountParticipants(t)
    \/ CheckGrantTarget(t)

\* Transactions, each the end of its request.
Commit(t) ==
    \/ \E r \in Room : CreateRoom(t, r) \/ JoinRoom(t, r)
    \/ RouteInvitation(t)
    \/ GrantControl(t)
    \/ RevokeControl(t)
    \/ CloseRoom(t)
    \/ LeaveRoom(t)
    \/ AcceptOutput(t)
    \/ AcceptInput(t)

Expire ==
    \/ \E r \in Room : ExpireLease(r) \/ \E d \in Device : ExpireRoomInvitation(r, d)
    \/ SetClockBack

RoomNext ==
    \/ \E t \in Task : Check(t) \/ Commit(t) \/ EndRequest(t)
    \/ Expire
    \/ ChangeRoster
    \/ UseStore

RoomSpec == RoomInit /\ [][RoomNext]_vars

(***************************************************************************)
(* Properties                                                              *)
(***************************************************************************)

\* The shape of every table of the rooms.
RoomTypeOK ==
    /\ AccessTypeOK
    /\ room \in [Room -> RoomRow]
    /\ invited \in [Room -> [Device -> {"none", "pending", "expired", "accepted"}]]
    /\ present \in [Room -> SUBSET Device]
    /\ nextInput \in [Room -> [Device -> Nat]]
    /\ lease \in [Room -> Lease \union {None}]
    /\ kept \in [Room -> SUBSET Nat]
    /\ job \in [Task -> Job \union {None}]

\* docs/TEAM_SECURITY.md:76 and terminal.rs:352: whoever holds the lease of an
\* active room is an active device of an active member whose role, now, may
\* control a terminal, although grant_control looks at the target before its
\* transaction and AcceptInput never looks at the holder's present role.
LeaseHolderAuthorised ==
    \A r \in ActiveRooms : lease[r] # None => MayControl(lease[r].dev)

\* docs/TEAM_SECURITY.md:73: a guest present in an active room is an active
\* device of an active member, although route_invitation checks the recipient
\* in one statement, writes in another, and join_room looks at neither.
GuestsAreActive ==
    \A r \in ActiveRooms : \A d \in present[r] : d = room[r].host \/ IsActive(d)

\* terminal.rs:424-438: a room its host closed keeps no lease and no frame, whatever
\* grant or frame was in flight: only a room that a roster change closed, whose epoch
\* is then behind, still holds what it held.
HostCloseIsFinal ==
    \A r \in Room :
        room[r].status = "closed" /\ room[r].epoch = keyEpoch => lease[r] = None /\ kept[r] = {}

\* docs/TEAM_RELAY.md:35 and replay: a client that is replayed to is given every
\* output it lacks, although only the first and the last are looked at, and the last
\* output is there to be given.  It holds of what was stamped since the clock was last
\* set back: of earlier outputs some may be gone in the middle, and nobody notices.
ReplayWindowHasNoGap ==
    \A r \in ActiveRooms :
        /\ \A after \in 0..(room[r].nextOutput - 1) :
              Replays(r, after) /\ room[r].ahead <= after + 1 =>
                  Replayed(r, after) = (after + 1)..(room[r].nextOutput - 1)
        /\ room[r].nextOutput > 1 => room[r].nextOutput - 1 \in kept[r]

(***************************************************************************)
(* docs/TEAM_SECURITY.md:77 and 93-94: a frame is accepted once.  A lease  *)
(* that appears carries a generation above every generation its room has   *)
(* used, so that no frame sealed under an earlier lease can be mistaken    *)
(* for one under the present lease; and a device's input sequence never    *)
(* goes back while its room exists, through any number of leaves and       *)
(* invitations.                                                            *)
(***************************************************************************)
CountersNeverRewind ==
    [][\A r \in Room :
         /\ lease'[r] # None =>
              \/ lease[r] # None /\ lease'[r].generation = lease[r].generation
                                 /\ lease'[r].dev = lease[r].dev
              \/ lease'[r].generation > room[r].generation
         /\ room'[r].status # "purged" =>
              \A d \in Device : nextInput'[r][d] >= nextInput[r][d]]_vars

\* A frame on its way in a room closed by a roster change, sent under the role it had then.
WasAuthorised(r, d) ==
    /\ room[r].status = "closed" /\ room[r].epoch < keyEpoch
    /\ \E t \in Task : /\ At(t, "input") /\ job[t].room = r
                       /\ auth[t].dev = d /\ auth[t].epoch = room[r].epoch
                       /\ auth[t].role \in TerminalControl

(***************************************************************************)
(* docs/TEAM_SECURITY.md:78: whoever sends input that is accepted may      *)
(* control terminals at that moment, whatever the age of its DeviceAuth.   *)
(* process_frame does not look at the status of the room: a frame on its   *)
(* way while a roster change closes the room is accepted in the closed     *)
(* room, although its sender may have just lost its role.  Nothing else    *)
(* is: in a closed room the frame is of a request authenticated in the     *)
(* epoch of the room, before the change.                                   *)
(***************************************************************************)
InputIsAuthorised ==
    [][\A r \in Room, d \in Device :
         nextInput[r][d] # 0 /\ nextInput'[r][d] > nextInput[r][d]
           => d \in present[r] /\ (MayControl(d) \/ WasAuthorised(r, d))]_vars

\* terminal.rs:87: the cap on active rooms holds against concurrent creations.
ActiveRoomCap == Cardinality(ActiveRooms) <= MaxActiveRooms

(***************************************************************************)
(* What the documentation says and the interleavings of the handlers break.*)
(***************************************************************************)

\* docs/TEAM_RELAY.md:27-28: a roster change closes the rooms of the old epoch;
\* an active room is always of the workspace's current epoch.
ActiveRoomsAreCurrent == \A r \in ActiveRooms : room[r].epoch = keyEpoch
=============================================================================
