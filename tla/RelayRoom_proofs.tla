-------------------------- MODULE RelayRoom_proofs --------------------------
(***************************************************************************)
(* What the relay guarantees for every set of devices, rooms and requests  *)
(* in flight.  First the store, RelayAccess: its types, its roster and its *)
(* owners.  Then RelayRoom: the rooms refine the store                     *)
(* (RoomImplementsAccess), so the theorems about the roster hold of them;  *)
(* RoomSafe is the strengthening that carries what a check found to the    *)
(* transaction that relies on it.                                          *)
(***************************************************************************)
EXTENDS RelayRoom, FiniteSetTheorems, TLAPS

USE DEF Role, MemberManage, DeviceAuth, MemberRow, InvitationRow

(***************************************************************************)
(* Types                                                                   *)
(***************************************************************************)

\* The tables start well formed.
LEMMA AccessInitType == AccessInit => AccessTypeOK
  BY AccessAssumption DEF AccessInit, AccessTypeOK

\* Every handler keeps the tables well formed.
LEMMA AccessNextType == AccessTypeOK /\ [AccessNext]_accessVars => AccessTypeOK'
  <1> SUFFICES ASSUME AccessTypeOK, [AccessNext]_accessVars PROVE AccessTypeOK'
    OBVIOUS
  <1> USE AccessAssumption DEF AccessTypeOK
  <1>1. CASE UNCHANGED accessVars
    BY <1>1 DEF accessVars
  <1>2. ASSUME NEW t \in Task, NEW d \in Device, Authenticate(t, d) PROVE AccessTypeOK'
    BY <1>2 DEF Authenticate
  <1>3. ASSUME NEW t \in Task, CountInvitations(t) PROVE AccessTypeOK'
    BY <1>3 DEF CountInvitations, Purged
  <1>4. ASSUME NEW t \in Task, NEW i \in Invitation, NEW d \in Device, NEW r \in Role,
               InsertInvitation(t, i, d, r)
        PROVE  AccessTypeOK'
    <2> DEFINE row == [dev |-> d, role |-> r, accepted |-> FALSE, live |-> TRUE]
    <2>1. row \in InvitationRow /\ invitation' = [invitation EXCEPT ![i] = row]
      BY <1>4 DEF InsertInvitation, MayInvite
    <2> HIDE DEF row
    <2>2. invitation' \in [Invitation -> InvitationRow \union {None}]
      BY <2>1
    <2> QED
      BY <1>4, <2>2 DEF InsertInvitation, Answer
  <1>5. ASSUME NEW i \in Invitation, ExpireInvitation(i) PROVE AccessTypeOK'
    <2>1. invitation[i] \in InvitationRow
      BY <1>5 DEF ExpireInvitation
    <2>2. [invitation[i] EXCEPT !.live = ~invitation[i].live] \in InvitationRow
      BY <2>1
    <2>3. invitation' = [invitation EXCEPT ![i] = [invitation[i] EXCEPT !.live = ~invitation[i].live]]
      BY <1>5 DEF ExpireInvitation
    <2>4. invitation' \in [Invitation -> InvitationRow \union {None}]
      BY <2>2, <2>3
    <2> QED
      BY <1>5, <2>4 DEF ExpireInvitation
  <1>6. ASSUME NEW i \in Invitation, AcceptInvitation(i) PROVE AccessTypeOK'
    <2> DEFINE row == invitation[i]
    <2>1. row \in InvitationRow
      BY <1>6 DEF AcceptInvitation
    <2>2. keyEpoch' \in 1..MaxEpoch /\ workspace' \in {"active", "deleted"}
      BY <1>6 DEF AcceptInvitation, AdvanceEpoch
    <2>3. member' \in [Device -> MemberRow] /\ device' \in [Device -> {"absent", "active", "revoked"}]
      BY <1>6, <2>1 DEF AcceptInvitation
    <2>4. [row EXCEPT !.accepted = TRUE] \in InvitationRow
      BY <2>1
    <2>5. invitation' = [invitation EXCEPT ![i] = [row EXCEPT !.accepted = TRUE]]
      BY <1>6 DEF AcceptInvitation
    <2> QED
      BY <1>6, <2>2, <2>3, <2>4, <2>5 DEF AcceptInvitation
  <1>7. ASSUME NEW t \in Task, NEW d \in Device, NEW r \in Role, NEW s \in {"active", "removed"},
               UpdateMember(t, d, r, s)
        PROVE  AccessTypeOK'
    BY <1>7 DEF UpdateMember, AdvanceEpoch, Answer
  <1>8. ASSUME NEW t \in Task, NEW d \in Device, RevokeDevice(t, d) PROVE AccessTypeOK'
    BY <1>8 DEF RevokeDevice, AdvanceEpoch, Answer
  <1>9. ASSUME NEW t \in Task, Reject(t) PROVE AccessTypeOK'
    BY <1>9 DEF Reject, Answer
  <1>10. ASSUME NEW t \in Task, DeleteWorkspace(t) PROVE AccessTypeOK'
    BY <1>10 DEF DeleteWorkspace, Answer
  <1> QED
    BY <1>1, <1>2, <1>3, <1>4, <1>5, <1>6, <1>7, <1>8, <1>9, <1>10
       DEF AccessNext, AccessStep, RosterStep

\* The store's tables stay well formed through every interleaving of handlers.
THEOREM AccessTypeCorrect == AccessSpec => []AccessTypeOK
  BY AccessInitType, AccessNextType, PTL DEF AccessSpec

(***************************************************************************)
(* The roster and its epoch                                                *)
(***************************************************************************)

\* A step that leaves the workspace alive and changes the roster is one of the
\* transactions that call advance_epoch.
LEMMA RosterStepAdvancesEpoch ==
    ASSUME AccessTypeOK, [AccessNext]_accessVars, workspace' = "active",
           member' # member \/ device' # device
    PROVE  workspace = "active" /\ keyEpoch' = keyEpoch + 1 /\ RosterStep
  BY ZenonT(40) DEF AccessNext, AccessStep, RosterStep, accessVars, Authenticate, CountInvitations,
         InsertInvitation, ExpireInvitation, AcceptInvitation, UpdateMember, RevokeDevice,
         Reject, DeleteWorkspace, AdvanceEpoch

\* docs/TEAM_RELAY.md:27-28: the key epoch names the roster.
THEOREM EpochNamesRosterHolds == AccessSpec => EpochNamesRoster
  <1>1. AccessTypeOK /\ [AccessNext]_accessVars
          => [workspace' = "active" /\ (member' # member \/ device' # device)
                => keyEpoch' = keyEpoch + 1]_accessVars
    BY RosterStepAdvancesEpoch
  <1> QED
    BY <1>1, AccessTypeCorrect, PTL DEF AccessSpec, EpochNamesRoster

\* While the epoch of a live workspace stays, so do its members and devices.
LEMMA SameEpochSameRoster ==
    ASSUME AccessTypeOK, [AccessNext]_accessVars, workspace' = "active", keyEpoch' = keyEpoch
    PROVE  member' = member /\ device' = device
  BY RosterStepAdvancesEpoch DEF AccessTypeOK

\* The key epoch never goes back, and a deleted workspace stays deleted.
LEMMA EpochNeverGoesBack ==
    ASSUME AccessTypeOK, [AccessNext]_accessVars
    PROVE  /\ keyEpoch \in Nat /\ keyEpoch' \in Nat /\ keyEpoch <= keyEpoch'
           /\ workspace' = "active" => workspace = "active"
  <1>1. keyEpoch \in Nat
    BY AccessAssumption DEF AccessTypeOK
  <1>2. keyEpoch' = keyEpoch \/ keyEpoch' = keyEpoch + 1
    BY ZenonT(40) DEF AccessNext, AccessStep, RosterStep, accessVars, Authenticate, CountInvitations,
           InsertInvitation, ExpireInvitation, AcceptInvitation, UpdateMember, RevokeDevice,
           Reject, DeleteWorkspace, AdvanceEpoch
  <1>3. workspace' = "active" => workspace = "active"
    BY ZenonT(40) DEF AccessTypeOK, AccessNext, AccessStep, RosterStep, accessVars, Authenticate,
           CountInvitations, InsertInvitation, ExpireInvitation, AcceptInvitation, UpdateMember,
           RevokeDevice, Reject, DeleteWorkspace
  <1> QED
    BY <1>1, <1>2, <1>3

\* A DeviceAuth in flight is of the present epoch or of an earlier one, and when
\* it is of the present one it describes its caller as the store does now.
AuthTrue(t) ==
    auth[t] # None =>
      /\ auth[t].epoch <= keyEpoch
      /\ workspace = "active" /\ auth[t].epoch = keyEpoch =>
           IsActive(auth[t].dev) /\ member[auth[t].dev].role = auth[t].role

AuthInv == \A t \in Task : AuthTrue(t)

\* No request is in flight when the workspace is bootstrapped.
LEMMA AuthInit == AccessInit => AuthInv
  BY DEF AccessInit, AuthInv, AuthTrue

\* Only authenticate_device fills a task's DeviceAuth.
LEMMA AuthComesFromAuthenticate ==
    ASSUME AccessTypeOK, [AccessNext]_accessVars, NEW t \in Task
    PROVE  auth'[t] \in {auth[t], None} \/ \E d \in Device : Authenticate(t, d)
  BY ZenonT(40) DEF AccessTypeOK, AccessNext, AccessStep, RosterStep, accessVars, Authenticate,
         CountInvitations, InsertInvitation, ExpireInvitation, AcceptInvitation, UpdateMember,
         RevokeDevice, Reject, DeleteWorkspace, Answer

\* Handlers read the role and the epoch together, and neither changes alone.
LEMMA AuthStep == AccessTypeOK /\ AuthInv /\ [AccessNext]_accessVars => AuthInv'
  <1> SUFFICES ASSUME AccessTypeOK, AuthInv, [AccessNext]_accessVars, NEW t \in Task
               PROVE  AuthTrue(t)'
    BY DEF AuthInv
  <1>1. /\ keyEpoch \in Nat /\ keyEpoch' \in Nat /\ keyEpoch <= keyEpoch'
        /\ workspace' = "active" => workspace = "active"
    BY EpochNeverGoesBack
  <1>2. CASE auth'[t] = None
    BY <1>2 DEF AuthTrue
  <1>3. CASE auth'[t] = auth[t] /\ auth[t] # None
    <2>1. auth[t].epoch \in Nat /\ auth[t].epoch <= keyEpoch
      BY <1>3 DEF AuthInv, AuthTrue, AccessTypeOK
    <2>2. ASSUME workspace' = "active", auth[t].epoch = keyEpoch'
          PROVE  IsActive(auth[t].dev)' /\ member'[auth'[t].dev].role = auth'[t].role
      <3>1. keyEpoch' = keyEpoch
        BY <1>1, <2>1, <2>2
      <3>2. member' = member /\ device' = device
        BY <3>1, <2>2, SameEpochSameRoster
      <3> QED
        BY <1>1, <1>3, <2>2, <3>1, <3>2 DEF AuthInv, AuthTrue, IsActive
    <2> QED
      BY <1>1, <1>3, <2>1, <2>2 DEF AuthTrue
  <1>4. ASSUME NEW d \in Device, Authenticate(t, d) PROVE AuthTrue(t)'
    BY <1>1, <1>4 DEF Authenticate, AccessTypeOK, IsActive, AuthTrue
  <1> QED
    BY <1>2, <1>3, <1>4, AuthComesFromAuthenticate

\* In every behaviour, what a request in flight believes of its caller is
\* right for as long as its epoch is the workspace's.
THEOREM CurrentEpochMeansCurrentRoleHolds == AccessSpec => []CurrentEpochMeansCurrentRole
  <1>1. AuthInv => CurrentEpochMeansCurrentRole
    BY DEF AuthInv, AuthTrue, CurrentEpochMeansCurrentRole
  <1> QED
    BY <1>1, AuthInit, AuthStep, AccessTypeCorrect, PTL DEF AccessSpec

(***************************************************************************)
(* The last owner                                                          *)
(***************************************************************************)

\* Owners counted as more than one stay when one of them goes.
LEMMA AnotherOwner ==
    ASSUME NEW S, IsFiniteSet(S), Cardinality(S) > 1, NEW d
    PROVE  \E e \in S : e # d
  <1>1. Cardinality(S) \in Nat
    BY FS_CardinalityType
  <1>2. Cardinality(S \ {d}) = IF d \in S THEN Cardinality(S) - 1 ELSE Cardinality(S)
    BY FS_RemoveElement
  <1>3. S \ {d} # {}
    BY <1>1, <1>2, FS_EmptySet
  <1> QED
    BY <1>3

\* The workspace is bootstrapped with its owner.
LEMMA OwnerInit == AccessInit => ActiveOwnerRemains
  BY AccessAssumption DEF AccessInit, ActiveOwnerRemains, ActiveOwners, ActiveMembers

\* update_member is the only transaction that can take an owner away, and it
\* counts the others first.
LEMMA OwnerStep ==
    AccessTypeOK /\ ActiveOwnerRemains /\ [AccessNext]_accessVars => ActiveOwnerRemains'
  <1> SUFFICES ASSUME AccessTypeOK, ActiveOwnerRemains, [AccessNext]_accessVars,
                      workspace' = "active"
               PROVE  ActiveOwners' # {}
    BY DEF ActiveOwnerRemains
  <1> USE DEF ActiveOwners, ActiveMembers
  <1>1. workspace = "active"
    BY DEF AccessTypeOK, AccessNext, AccessStep, RosterStep, accessVars, Authenticate,
           CountInvitations, InsertInvitation, ExpireInvitation, AcceptInvitation, UpdateMember,
           RevokeDevice, Reject, DeleteWorkspace
  <1>2. PICK o \in Device : member[o].status = "active" /\ member[o].role = "owner"
    BY <1>1 DEF ActiveOwnerRemains
  <1>3. CASE member' = member
    BY <1>2, <1>3
  <1>4. ASSUME NEW i \in Invitation, AcceptInvitation(i) PROVE ActiveOwners' # {}
    BY <1>2, <1>4 DEF AcceptInvitation, AccessTypeOK
  <1>5. ASSUME NEW t \in Task, NEW d \in Device, NEW r \in Role, NEW s \in {"active", "removed"},
               UpdateMember(t, d, r, s)
        PROVE  ActiveOwners' # {}
    <2>1. member' = [member EXCEPT ![d] = [role |-> r, status |-> s]]
      BY <1>5 DEF UpdateMember, OwnerStays
    <2>2. CASE d \notin ActiveOwners
      BY <1>2, <2>1, <2>2 DEF AccessTypeOK
    <2>3. CASE r = "owner" /\ s = "active"
      <3>1. member'[d].status = "active" /\ member'[d].role = "owner"
        BY <2>1, <2>3 DEF AccessTypeOK
      <3> QED
        BY <3>1
    <2>4. CASE d \in ActiveOwners /\ ~(r = "owner" /\ s = "active")
      <3>1. Cardinality(ActiveOwners) > 1
        BY <1>5, <2>4 DEF UpdateMember, OwnerStays
      <3>2. IsFiniteSet(ActiveOwners)
        BY AccessAssumption, FS_Subset
      <3>3. PICK e \in ActiveOwners : e # d
        BY <3>1, <3>2, AnotherOwner
      <3> QED
        BY <2>1, <3>3 DEF AccessTypeOK
    <2> QED
      BY <2>2, <2>3, <2>4
  <1>6. ASSUME NEW t \in Task, DeleteWorkspace(t) PROVE FALSE
    BY <1>6 DEF DeleteWorkspace
  <1> QED
    BY <1>3, <1>4, <1>5, <1>6
       DEF AccessNext, AccessStep, RosterStep, accessVars, Authenticate, CountInvitations,
           InsertInvitation, ExpireInvitation, RevokeDevice, Reject

\* docs/TEAM_SECURITY.md:49: the workspace always keeps an active owner.
THEOREM ActiveOwnerRemainsHolds == AccessSpec => []ActiveOwnerRemains
  BY OwnerInit, OwnerStep, AccessTypeCorrect, PTL DEF AccessSpec

HIDE DEF Role, MemberManage, DeviceAuth, MemberRow, InvitationRow

-----------------------------------------------------------------------------
(***************************************************************************)
(* A step of the composition, seen from its parts                          *)
(***************************************************************************)

\* A task with a job serves a request, and not the one that invites to the
\* workspace.
JobInv ==
    \A t \in Task : job[t] # None => auth[t] # None /\ t \notin inviting

\* A check changes no table, and begins or advances the job of one task.
LEMMA CheckStep ==
    ASSUME NEW t \in Task, JobInv, job \in [Task -> Job \union {None}], Check(t)
    PROVE  /\ UNCHANGED <<accessVars, roomVars>>
           /\ auth[t] # None /\ t \notin inviting
           /\ \E j : job' = [job EXCEPT ![t] = j]
  <1> USE DEF Begin, Authorized, HostAuthorized, Fresh
  <1>1. ASSUME NEW r \in Room, NEW d \in Device, CheckInvitation(t, r, d) \/ CheckGrant(t, r, d)
        PROVE  /\ UNCHANGED <<accessVars, roomVars>>
               /\ auth[t] # None /\ t \notin inviting
               /\ \E j : job' = [job EXCEPT ![t] = j]
    BY <1>1 DEF CheckInvitation, CheckGrant
  <1>2. ASSUME NEW r \in Room, NEW op \in {"revoke", "close"}, CheckHost(t, r, op) \/ CheckLeave(t, r)
        PROVE  /\ UNCHANGED <<accessVars, roomVars>>
               /\ auth[t] # None /\ t \notin inviting
               /\ \E j : job' = [job EXCEPT ![t] = j]
    BY <1>2 DEF CheckHost, CheckLeave
  <1>3. ASSUME NEW r \in Room, NEW n, NEW g, ReceiveOutput(t, r, n) \/ ReceiveInput(t, r, n, g)
        PROVE  /\ UNCHANGED <<accessVars, roomVars>>
               /\ auth[t] # None /\ t \notin inviting
               /\ \E j : job' = [job EXCEPT ![t] = j]
    BY <1>3 DEF ReceiveOutput, ReceiveInput
  <1>4. ASSUME CountParticipants(t) \/ CheckGrantTarget(t)
        PROVE  /\ UNCHANGED <<accessVars, roomVars>>
               /\ auth[t] # None /\ t \notin inviting
               /\ \E j : job' = [job EXCEPT ![t] = j]
    BY <1>4 DEF CountParticipants, CheckGrantTarget, At, Advance, JobInv
  <1> QED
    BY <1>1, <1>2, <1>3, <1>4 DEF Check

\* A commit ends its request, which for the store is Reject.
LEMMA CommitStep ==
    ASSUME NEW t \in Task, JobInv, Commit(t)
    PROVE  Reject(t) /\ job' = [job EXCEPT ![t] = None]
  BY DEF Commit, CreateRoom, JoinRoom, RouteInvitation, GrantControl, RevokeControl, CloseRoom,
         LeaveRoom, AcceptOutput, AcceptInput, Finish, Fresh, At, Reject, JobInv

\* A roster step of the rooms is one of the store, and closes every room.
LEMMA ChangeRosterStep ==
    ASSUME ChangeRoster
    PROVE  RosterStep /\ CloseWorkspaceRooms /\ UNCHANGED job
  BY DEF ChangeRoster, RosterStep

\* Every step of the rooms is a step of the store or leaves it unchanged.
LEMMA RoomStepIsAccessStep ==
    ASSUME JobInv, job \in [Task -> Job \union {None}], [RoomNext]_vars
    PROVE  [AccessNext]_accessVars
  <1>1. CASE UNCHANGED vars
    BY <1>1 DEF vars
  <1>2. ASSUME NEW t \in Task, Check(t) PROVE UNCHANGED accessVars
    BY <1>2, CheckStep
  <1>3. ASSUME NEW t \in Task, Commit(t) PROVE AccessNext
    BY <1>3, CommitStep DEF AccessNext
  <1>4. ASSUME NEW t \in Task, EndRequest(t) PROVE AccessNext
    BY <1>4 DEF EndRequest, AccessNext
  <1>5. CASE Expire
    BY <1>5 DEF Expire, ExpireLease, ExpireRoomInvitation, SetClockBack
  <1>6. CASE ChangeRoster
    BY <1>6, ChangeRosterStep DEF AccessNext
  <1>7. CASE UseStore
    BY <1>7 DEF UseStore, AccessNext, AccessStep
  <1> QED
    BY <1>1, <1>2, <1>3, <1>4, <1>5, <1>6, <1>7 DEF RoomNext

(***************************************************************************)
(* Types                                                                   *)
(***************************************************************************)

USE DEF Role, DeviceAuth, RoomRow, Lease, Job

\* Updating a field of a room keeps its shape.
LEMMA RoomRowFields ==
    ASSUME NEW row \in RoomRow, NEW n \in Nat
    PROVE  /\ [row EXCEPT !.status = "closed"] \in RoomRow
           /\ [row EXCEPT !.status = "purged"] \in RoomRow
           /\ [row EXCEPT !.generation = n] \in RoomRow
           /\ [row EXCEPT !.nextOutput = n] \in RoomRow
           /\ [row EXCEPT !.ahead = n] \in RoomRow
  OBVIOUS

\* The rooms start empty.
LEMMA RoomInitType == RoomInit => RoomTypeOK /\ JobInv
  BY AccessInitType, AccessAssumption
     DEF RoomInit, NoRooms, AccessInit, RoomTypeOK, JobInv

\* A check notes a job of the right shape.
LEMMA CheckType ==
    ASSUME NEW t \in Task, RoomTypeOK, JobInv, Check(t)
    PROVE  job' \in [Task -> Job \union {None}]
  <1> USE RoomAssumption DEF Begin, Authorized, HostAuthorized, Fresh, RoomTypeOK, AccessTypeOK
  <1>1. auth[t] # None /\ auth[t] \in DeviceAuth
    BY CheckStep
  <1>2. ASSUME NEW r \in Room, NEW d \in Device, CheckInvitation(t, r, d) \/ CheckGrant(t, r, d)
        PROVE  job' \in [Task -> Job \union {None}]
    BY <1>2 DEF CheckInvitation, CheckGrant
  <1>3. ASSUME NEW r \in Room, NEW op \in {"revoke", "close"}, CheckHost(t, r, op) \/ CheckLeave(t, r)
        PROVE  job' \in [Task -> Job \union {None}]
    BY <1>1, <1>3 DEF CheckHost, CheckLeave
  <1>4. ASSUME NEW r \in Room, NEW n \in Nat, NEW g \in Nat,
               ReceiveOutput(t, r, n) \/ ReceiveInput(t, r, n, g)
        PROVE  job' \in [Task -> Job \union {None}]
    BY <1>1, <1>4 DEF ReceiveOutput, ReceiveInput
  <1>5. ASSUME CountParticipants(t) \/ CheckGrantTarget(t)
        PROVE  job' \in [Task -> Job \union {None}]
    <2>1. job[t] \in Job
      BY <1>5 DEF CountParticipants, CheckGrantTarget, At
    <2>2. PICK op \in {"counted", "granted"} : job' = [job EXCEPT ![t].op = op]
      BY <1>5 DEF CountParticipants, CheckGrantTarget, Advance
    <2>3. [job[t] EXCEPT !.op = op] \in Job
      BY <2>1
    <2> QED
      BY <2>2, <2>3
  <1> QED
    BY <1>2, <1>3, <1>4, <1>5 DEF Check

\* A transaction keeps the tables of the rooms well formed.
LEMMA CommitType ==
    ASSUME NEW t \in Task, RoomTypeOK, JobInv, Commit(t)
    PROVE  /\ room' \in [Room -> RoomRow]
           /\ invited' \in [Room -> [Device -> {"none", "pending", "expired", "accepted"}]]
           /\ present' \in [Room -> SUBSET Device]
           /\ nextInput' \in [Room -> [Device -> Nat]]
           /\ lease' \in [Room -> Lease \union {None}]
           /\ kept' \in [Room -> SUBSET Nat]
  <1> DEFINE Rooms == /\ room' \in [Room -> RoomRow]
                      /\ invited' \in [Room -> [Device -> {"none", "pending", "expired", "accepted"}]]
                      /\ present' \in [Room -> SUBSET Device]
                      /\ nextInput' \in [Room -> [Device -> Nat]]
                      /\ lease' \in [Room -> Lease \union {None}]
                      /\ kept' \in [Room -> SUBSET Nat]
  <1> USE DEF RoomTypeOK, AccessTypeOK
  <1>1. auth[t] \in DeviceAuth
    BY CommitStep DEF Reject
  <1>2. job[t] # None => job[t] \in Job
    OBVIOUS
  <1>3. ASSUME NEW r \in Room, CreateRoom(t, r) PROVE Rooms
    <2> USE <1>1, <1>3
    <2>1. room' \in [Room -> RoomRow]
      <3> DEFINE new == [status |-> "active", host |-> auth[t].dev, epoch |-> auth[t].epoch,
                         nextOutput |-> 1, generation |-> 0, ahead |-> 0]
      <3>1. new \in RoomRow
        BY CommitStep DEF Reject
      <3>2. PICK gone \in SUBSET Room :
              room' = [q \in Room |-> IF q = r THEN new
                                     ELSE IF q \in gone THEN [room[q] EXCEPT !.status = "purged"]
                                     ELSE room[q]]
        BY DEF CreateRoom
      <3> HIDE DEF RoomRow, new
      <3> QED
        BY <3>1, <3>2, RoomRowFields
    <2>2. /\ invited' \in [Room -> [Device -> {"none", "pending", "expired", "accepted"}]]
          /\ present' \in [Room -> SUBSET Device]
      BY DEF CreateRoom
    <2>3. nextInput' \in [Room -> [Device -> Nat]]
      BY DEF CreateRoom
    <2>4. lease' \in [Room -> Lease \union {None}] /\ kept' \in [Room -> SUBSET Nat]
      BY DEF CreateRoom
    <2> QED
      BY <2>1, <2>2, <2>3, <2>4
  <1>4. ASSUME NEW r \in Room, JoinRoom(t, r) PROVE Rooms
    <2> USE <1>1, <1>4
    <2>1. nextInput' \in [Room -> [Device -> Nat]]
      BY DEF JoinRoom, InputAtJoin
    <2>2. /\ invited' \in [Room -> [Device -> {"none", "pending", "expired", "accepted"}]]
          /\ present' \in [Room -> SUBSET Device]
      BY DEF JoinRoom, InputAtJoin
    <2> QED
      BY <2>1, <2>2 DEF JoinRoom, InputAtJoin
  <1>5. CASE RouteInvitation(t)
    BY <1>2, <1>5 DEF RouteInvitation, At
  <1>6. CASE GrantControl(t)
    <2> DEFINE r == job[t].room
    <2>1. job[t] \in Job /\ room[r] \in RoomRow
      BY <1>2, <1>6 DEF GrantControl, NextGeneration, At
    <2>2. room' = [room EXCEPT ![r] = [room[r] EXCEPT !.generation = room[r].generation + 1]]
      BY <1>6 DEF GrantControl, NextGeneration
    <2>3. [room[r] EXCEPT !.generation = room[r].generation + 1] \in RoomRow
      <3>1. room[r].generation + 1 \in Nat
        BY <2>1
      <3> HIDE DEF RoomRow, Job
      <3> QED
        BY <2>1, <3>1, RoomRowFields
    <2>4. lease' \in [Room -> Lease \union {None}]
      BY <1>6, <2>1 DEF GrantControl, NextGeneration
    <2> QED
      BY <1>6, <2>1, <2>2, <2>3, <2>4 DEF GrantControl, NextGeneration
  <1>7. CASE RevokeControl(t) \/ CloseRoom(t)
    <2> DEFINE r == job[t].room
    <2>1. job[t] \in Job /\ room[r] \in RoomRow
      BY <1>2, <1>7 DEF RevokeControl, CloseRoom, At
    <2>2. [room[r] EXCEPT !.status = "closed"] \in RoomRow
      BY <2>1
    <2>3. room' = room \/ room' = [room EXCEPT ![r] = [room[r] EXCEPT !.status = "closed"]]
      BY <1>7 DEF RevokeControl, CloseRoom
    <2>4. room' \in [Room -> RoomRow]
      <3> HIDE DEF RoomRow
      <3> QED
        BY <2>1, <2>2, <2>3
    <2> QED
      BY <1>7, <2>1, <2>4, ZenonT(40) DEF RevokeControl, CloseRoom
  <1>8. CASE LeaveRoom(t)
    BY <1>2, <1>8 DEF LeaveRoom, At
  <1>9. CASE AcceptOutput(t)
    <2> DEFINE r == job[t].room
               n == job[t].frame
    <2>1. job[t] \in Job /\ room[r] \in RoomRow
      BY <1>2, <1>9 DEF AcceptOutput, At
    <2>2. room' = [room EXCEPT ![r] = [room[r] EXCEPT !.nextOutput = n + 1]]
      BY <1>9 DEF AcceptOutput
    <2>3. [room[r] EXCEPT !.nextOutput = n + 1] \in RoomRow
      <3>1. n + 1 \in Nat
        BY <2>1
      <3> HIDE DEF RoomRow, Job
      <3> QED
        BY <2>1, <3>1, RoomRowFields
    <2>4. PICK rest \in SUBSET (kept[r] \union {n}) : kept' = [kept EXCEPT ![r] = rest]
      BY <1>9 DEF AcceptOutput, Prune
    <2>5. kept' \in [Room -> SUBSET Nat]
      BY <2>1, <2>4
    <2>6. room' \in [Room -> RoomRow]
      BY <2>1, <2>2, <2>3
    <2> QED
      BY <1>9, <2>5, <2>6 DEF AcceptOutput
  <1>10. CASE AcceptInput(t)
    BY <1>2, <1>10 DEF AcceptInput, At
  <1> QED
    BY <1>3, <1>4, <1>5, <1>6, <1>7, <1>8, <1>9, <1>10 DEF Commit

\* Every step keeps the shape of the tables, and jobs stay with live requests.
LEMMA RoomTypeStep == RoomTypeOK /\ JobInv /\ [RoomNext]_vars => RoomTypeOK' /\ JobInv'
  <1> SUFFICES ASSUME RoomTypeOK, JobInv, [RoomNext]_vars PROVE RoomTypeOK' /\ JobInv'
    OBVIOUS
  <1>1. AccessTypeOK'
    BY RoomStepIsAccessStep, AccessNextType DEF RoomTypeOK
  <1>2. CASE UNCHANGED vars
    BY <1>1, <1>2 DEF vars, roomVars, accessVars, RoomTypeOK, JobInv
  <1>3. ASSUME NEW t \in Task, Check(t) PROVE RoomTypeOK' /\ JobInv'
    <2>1. RoomTypeOK'
      BY <1>1, <1>3, CheckStep, CheckType DEF RoomTypeOK, roomVars
    <2>2. JobInv'
      BY <1>3, CheckStep DEF JobInv, RoomTypeOK, accessVars
    <2> QED
      BY <2>1, <2>2
  <1>4. ASSUME NEW t \in Task, Commit(t) PROVE RoomTypeOK' /\ JobInv'
    <2>1. Reject(t) /\ job' = [job EXCEPT ![t] = None]
      BY <1>4, CommitStep
    <2>2. RoomTypeOK'
      BY <1>1, <1>4, <2>1, CommitType DEF RoomTypeOK
    <2>3. JobInv'
      BY <2>1 DEF JobInv, RoomTypeOK, AccessTypeOK, Reject, Answer
    <2> QED
      BY <2>2, <2>3
  <1>5. ASSUME NEW t \in Task, EndRequest(t) PROVE RoomTypeOK' /\ JobInv'
    <2>1. CASE Reject(t) /\ job' = [job EXCEPT ![t] = None] /\ UNCHANGED roomVars
      BY <1>1, <2>1 DEF RoomTypeOK, AccessTypeOK, JobInv, Reject, Answer, roomVars
    <2>2. CASE Fresh(t) /\ DeleteWorkspace(t) /\ PurgeRooms /\ UNCHANGED job
      <3>1. JobInv'
        BY <2>2 DEF JobInv, RoomTypeOK, AccessTypeOK, DeleteWorkspace, Answer, Fresh
      <3>2. room' \in [Room -> RoomRow]
        <4> HIDE DEF RoomRow
        <4> QED
          BY <2>2, RoomRowFields DEF PurgeRooms, RoomTypeOK
      <3> QED
        BY <1>1, <2>2, <3>1, <3>2 DEF PurgeRooms, RoomTypeOK
    <2> QED
      BY <1>5, <2>1, <2>2 DEF EndRequest
  <1>6. CASE Expire
    <2>1. UNCHANGED <<accessVars, present, nextInput, kept, job>>
      BY <1>6 DEF Expire, ExpireLease, ExpireRoomInvitation, SetClockBack
    <2>2. lease' \in [Room -> Lease \union {None}]
      <3>1. ASSUME NEW r \in Room, ExpireLease(r) PROVE lease' \in [Room -> Lease \union {None}]
        <4>1. lease[r] \in Lease
          BY <3>1 DEF ExpireLease, RoomTypeOK
        <4>2. [lease[r] EXCEPT !.live = ~lease[r].live] \in Lease
          BY <4>1
        <4>3. lease' = [lease EXCEPT ![r] = [lease[r] EXCEPT !.live = ~lease[r].live]]
          BY <3>1 DEF ExpireLease
        <4> HIDE DEF Lease
        <4> QED
          BY <4>2, <4>3 DEF RoomTypeOK
      <3> QED
        BY <1>6, <3>1 DEF Expire, ExpireRoomInvitation, SetClockBack, RoomTypeOK
    <2>3. invited' \in [Room -> [Device -> {"none", "pending", "expired", "accepted"}]]
      <3>1. ASSUME NEW r \in Room, NEW d \in Device, ExpireRoomInvitation(r, d)
            PROVE  invited' \in [Room -> [Device -> {"none", "pending", "expired", "accepted"}]]
        BY <3>1 DEF ExpireRoomInvitation, RoomTypeOK
      <3> QED
        BY <1>6, <3>1 DEF Expire, ExpireLease, SetClockBack, RoomTypeOK
    <2>4. room' \in [Room -> RoomRow]
      <3>1. CASE room' = room
        BY <3>1 DEF RoomTypeOK
      <3>2. CASE SetClockBack
        <4>1. \A r \in Room : room[r] \in RoomRow /\ room[r].nextOutput \in Nat
          BY DEF RoomTypeOK
        <4> HIDE DEF RoomRow
        <4>2. \A r \in Room : [room[r] EXCEPT !.ahead = room[r].nextOutput] \in RoomRow
          BY <4>1, RoomRowFields
        <4> QED
          BY <3>2, <4>1, <4>2 DEF SetClockBack
      <3> QED
        BY <1>6, <3>1, <3>2 DEF Expire, ExpireLease, ExpireRoomInvitation
    <2> QED
      BY <1>1, <2>1, <2>2, <2>3, <2>4 DEF RoomTypeOK, JobInv, accessVars
  <1>7. CASE ChangeRoster
    <2>1. UNCHANGED job /\ CloseWorkspaceRooms
      BY <1>7, ChangeRosterStep
    <2>2. room' \in [Room -> RoomRow]
      <3> HIDE DEF RoomRow
      <3> QED
        BY <2>1, RoomRowFields DEF CloseWorkspaceRooms, RoomTypeOK
    <2>3. \/ UNCHANGED <<auth, inviting>>
          \/ \E t \in Task : job[t] = None /\ Answer(t)
      BY <1>7, ZenonT(40) DEF ChangeRoster, AcceptInvitation, UpdateMember, RevokeDevice, Fresh
    <2>4. JobInv'
      BY <2>1, <2>3 DEF JobInv, RoomTypeOK, AccessTypeOK, Answer
    <2> QED
      BY <1>1, <2>1, <2>2, <2>4 DEF CloseWorkspaceRooms, RoomTypeOK
  <1>8. CASE UseStore
    <2>1. JobInv'
      BY <1>8, NoneAssumption
         DEF UseStore, JobInv, RoomTypeOK, AccessTypeOK, Authenticate, CountInvitations,
             InsertInvitation, ExpireInvitation, Answer, Fresh
    <2> QED
      BY <1>1, <1>8, <2>1 DEF UseStore, roomVars, RoomTypeOK
  <1> QED
    BY <1>2, <1>3, <1>4, <1>5, <1>6, <1>7, <1>8 DEF RoomNext

\* The rooms' tables stay well formed through every interleaving of handlers.
THEOREM RoomTypeCorrect == RoomSpec => [](RoomTypeOK /\ JobInv)
  BY RoomInitType, RoomTypeStep, PTL DEF RoomSpec

\* The composition is an implementation of the store alone: nothing a room
\* does reaches the roster, so every theorem of RelayAccess holds of it.
THEOREM RoomImplementsAccess == RoomSpec => AccessSpec
  <1>1. RoomInit => AccessInit
    BY DEF RoomInit
  <1>2. RoomTypeOK /\ JobInv /\ [RoomNext]_vars => [AccessNext]_accessVars
    BY RoomStepIsAccessStep DEF RoomTypeOK
  <1> QED
    BY <1>1, <1>2, RoomTypeCorrect, PTL DEF RoomSpec, AccessSpec

(***************************************************************************)
(* What a check found is still true when the transaction runs              *)
(*                                                                         *)
(* A roster change closes every room, and rooms are never reused.  So what *)
(* a handler found out about a device while a room existed stays true for  *)
(* as long as that room is active, and nobody needs to look again.         *)
(***************************************************************************)

\* A job is about a room that exists or existed.
JobRoomInv == \A t \in Task : job[t] # None => room[job[t].room].status # "unused"

\* A room id not drawn yet has no rows.
UnusedInv ==
    \A r \in Room : room[r].status = "unused" =>
        lease[r] = None /\ present[r] = {} /\ invited[r] = [d \in Device |-> "none"]

\* The target a grant has checked may still control if the room is active.
TargetInv ==
    \A t \in Task : At(t, "granted") /\ Active(job[t].room) => MayControl(job[t].dev)

\* The recipient an invitation has checked is still active if the room is.
RecipientInv ==
    \A t \in Task :
        (At(t, "invite") \/ At(t, "counted")) /\ Active(job[t].room) => IsActive(job[t].dev)

\* Whoever an active room has invited is active.
InvitedInv ==
    \A r \in Room, d \in Device : Active(r) /\ invited[r][d] # "none" => IsActive(d)

RoomSafe ==
    /\ JobRoomInv
    /\ UnusedInv
    /\ TargetInv
    /\ RecipientInv
    /\ InvitedInv
    /\ GuestsAreActive
    /\ LeaseHolderAuthorised

\* There is nothing to guarantee before the first room.
LEMMA RoomSafeInit == RoomInit => RoomSafe
  BY DEF RoomInit, NoRooms, RoomSafe, JobRoomInv, UnusedInv, TargetInv, RecipientInv, InvitedInv,
         GuestsAreActive, LeaseHolderAuthorised, ActiveRooms, Active, At

\* With no active room only the two bookkeeping parts say anything.
LEMMA NoActiveRoomIsSafe ==
    ASSUME JobRoomInv', UnusedInv', \A r \in Room : ~Active(r)', RoomTypeOK'
    PROVE  RoomSafe'
  BY DEF RoomSafe, TargetInv, RecipientInv, InvitedInv, GuestsAreActive, LeaseHolderAuthorised,
         ActiveRooms, At, RoomTypeOK

\* A roster change closes the rooms it could make unsafe.
LEMMA RosterSafe ==
    ASSUME RoomTypeOK, RoomTypeOK', RoomSafe, ChangeRoster
    PROVE  RoomSafe'
  <1>1. CloseWorkspaceRooms /\ UNCHANGED job
    BY ChangeRosterStep
  <1>2. \A r \in Room : ~Active(r)' /\ (room'[r].status = "unused" <=> room[r].status = "unused")
    BY <1>1 DEF CloseWorkspaceRooms, Active, RoomTypeOK
  <1>3. JobRoomInv' /\ UnusedInv'
    BY <1>1, <1>2 DEF RoomSafe, JobRoomInv, UnusedInv, CloseWorkspaceRooms, RoomTypeOK
  <1> QED
    BY <1>2, <1>3, NoActiveRoomIsSafe

\* Deleting the workspace purges them.
LEMMA EndRequestSafe ==
    ASSUME NEW t \in Task, RoomTypeOK, RoomTypeOK', JobInv, RoomSafe, EndRequest(t)
    PROVE  RoomSafe'
  <1>1. CASE Reject(t) /\ job' = [job EXCEPT ![t] = None] /\ UNCHANGED roomVars
    <2>1. UNCHANGED <<member, device>>
      BY <1>1 DEF Reject
    <2>2. \A u \in Task : job'[u] # None => job'[u] = job[u]
      BY <1>1 DEF RoomTypeOK
    <2> QED
      BY <1>1, <2>1, <2>2
         DEF RoomSafe, JobRoomInv, UnusedInv, TargetInv, RecipientInv, InvitedInv, GuestsAreActive,
             LeaseHolderAuthorised, ActiveRooms, Active, At, IsActive, MayControl, roomVars
  <1>2. CASE Fresh(t) /\ PurgeRooms /\ UNCHANGED job
    <2>1. \A r \in Room : ~Active(r)' /\ (room'[r].status = "unused" <=> room[r].status = "unused")
      BY <1>2 DEF PurgeRooms, Active, RoomTypeOK
    <2>2. JobRoomInv' /\ UnusedInv'
      BY <1>2, <2>1 DEF RoomSafe, JobRoomInv, UnusedInv, PurgeRooms, RoomTypeOK
    <2> QED
      BY <2>1, <2>2, NoActiveRoomIsSafe
  <1> QED
    BY <1>1, <1>2 DEF EndRequest

\* A lease that expires stays the lease of its device.
LEMMA ExpiredLease ==
    ASSUME RoomTypeOK, NEW r \in Room, ExpireLease(r)
    PROVE  \A q \in Room : /\ lease'[q] = None <=> lease[q] = None
                           /\ lease[q] # None => lease'[q].dev = lease[q].dev
  <1>1. lease \in [Room -> Lease \union {None}] /\ lease[r] # None
    BY DEF ExpireLease, RoomTypeOK
  <1>2. lease' = [lease EXCEPT ![r] = [lease[r] EXCEPT !.live = ~lease[r].live]]
    BY DEF ExpireLease
  <1>3. lease[r] \in Lease
    BY <1>1
  <1>4. /\ lease'[r] = [lease[r] EXCEPT !.live = ~lease[r].live]
        /\ \A q \in Room \ {r} : lease'[q] = lease[q]
    BY <1>1, <1>2
  <1>5. lease'[r] \in Lease /\ lease'[r].dev = lease[r].dev
    BY <1>3, <1>4 DEF Lease
  <1>6. lease'[r] # None
    BY <1>5, NoneRoomAssumption
  <1> QED
    BY <1>1, <1>4, <1>5, <1>6

\* The clock touches nothing RoomSafe speaks of, whichever way it goes.
LEMMA ExpireSafe ==
    ASSUME RoomTypeOK, RoomSafe, Expire
    PROVE  RoomSafe'
  <1>1. UNCHANGED <<member, device, present, job>>
    BY DEF Expire, ExpireLease, ExpireRoomInvitation, SetClockBack, accessVars
  <1> USE DEF RoomSafe, JobRoomInv, UnusedInv, TargetInv, RecipientInv, InvitedInv,
              GuestsAreActive, LeaseHolderAuthorised, ActiveRooms, Active, At, IsActive, MayControl
  <1>2. ASSUME NEW r \in Room, ExpireLease(r) PROVE RoomSafe'
    <2>1. \A q \in Room : lease'[q] = None <=> lease[q] = None
      BY <1>2, ExpiredLease
    <2>2. \A q \in Room : lease[q] # None => lease'[q].dev = lease[q].dev
      BY <1>2, ExpiredLease
    <2>3. invited' = invited /\ room' = room
      BY <1>2 DEF ExpireLease
    <2> QED
      BY <1>1, <2>1, <2>2, <2>3
  <1>3. ASSUME NEW r \in Room, NEW d \in Device, ExpireRoomInvitation(r, d) PROVE RoomSafe'
    <2>1. lease' = lease /\ room' = room /\ invited[r][d] # "none"
      BY <1>3 DEF ExpireRoomInvitation
    <2>2. \A q \in Room, e \in Device : invited'[q][e] # "none" => invited[q][e] # "none"
      BY <1>3, <2>1 DEF ExpireRoomInvitation, RoomTypeOK
    <2>3. \A q \in Room : invited[q] = [e \in Device |-> "none"] => invited'[q] = invited[q]
      BY <1>3, <2>1 DEF ExpireRoomInvitation, RoomTypeOK
    <2> QED
      BY <1>1, <2>1, <2>2, <2>3
  <1>4. CASE SetClockBack
    <2>1. \A r \in Room : room'[r].status = room[r].status /\ room'[r].host = room[r].host
      BY <1>4 DEF SetClockBack, RoomTypeOK
    <2>2. UNCHANGED <<lease, invited>>
      BY <1>4 DEF SetClockBack
    <2> QED
      BY <1>1, <2>1, <2>2 DEF RoomTypeOK
  <1> QED
    BY <1>2, <1>3, <1>4 DEF Expire

\* The store's other operations touch no room and no device.
LEMMA UseStoreSafe ==
    ASSUME RoomSafe, UseStore
    PROVE  RoomSafe'
  <1>1. UNCHANGED <<member, device, room, present, invited, lease, job>>
    BY DEF UseStore, roomVars, Authenticate, CountInvitations, InsertInvitation, ExpireInvitation
  <1> QED
    BY <1>1
       DEF RoomSafe, JobRoomInv, UnusedInv, TargetInv, RecipientInv, InvitedInv, GuestsAreActive,
           LeaseHolderAuthorised, ActiveRooms, Active, At, IsActive, MayControl

\* A check that succeeds finds what the job will rely on.
LEMMA CheckSafe ==
    ASSUME NEW t \in Task, RoomTypeOK, JobInv, RoomSafe, Check(t)
    PROVE  RoomSafe'
  <1>1. UNCHANGED <<accessVars, roomVars>>
    BY CheckStep DEF RoomTypeOK
  <1>2. \E j : job' = [job EXCEPT ![t] = j]
    BY CheckStep DEF RoomTypeOK
  <1>3. \A u \in Task : u # t => job'[u] = job[u]
    BY <1>2 DEF RoomTypeOK
  <1> DEFINE Kept(j) == /\ j.room \in Room
                        /\ room[j.room].status # "unused"
                        /\ j.op = "granted" => (Active(j.room) => MayControl(j.dev))
                        /\ j.op \in {"invite", "counted"} => (Active(j.room) => IsActive(j.dev))
  <1>4. Kept(job'[t])
    <2> USE DEF RoomTypeOK
    <2>1. ASSUME NEW r \in Room, NEW d \in Device, CheckInvitation(t, r, d) PROVE Kept(job'[t])
      BY <2>1 DEF CheckInvitation, HostAuthorized, Authorized, Begin, Active
    <2>2. ASSUME NEW r \in Room, NEW d \in Device, CheckGrant(t, r, d) PROVE Kept(job'[t])
      BY <2>2 DEF CheckGrant, HostAuthorized, Authorized, Begin, Active
    <2>3. ASSUME NEW r \in Room, NEW op \in {"revoke", "close"}, CheckHost(t, r, op) \/ CheckLeave(t, r)
          PROVE  Kept(job'[t])
      BY <2>3 DEF CheckHost, CheckLeave, HostAuthorized, Authorized, Begin, Active
    <2>4. ASSUME NEW r \in Room, NEW n, NEW g, ReceiveOutput(t, r, n) \/ ReceiveInput(t, r, n, g)
          PROVE  Kept(job'[t])
      BY <2>4 DEF ReceiveOutput, ReceiveInput, Authorized, Begin, Active
    <2>5. CASE CountParticipants(t)
      <3>1. job[t] \in Job /\ job[t].op = "invite"
        BY <2>5 DEF CountParticipants, At
      <3>2. job'[t] = [job[t] EXCEPT !.op = "counted"]
        BY <2>5 DEF CountParticipants, Advance
      <3>3. job'[t].op = "counted" /\ job'[t].room = job[t].room /\ job'[t].dev = job[t].dev
        BY <3>1, <3>2
      <3> QED
        BY <2>5, <3>1, <3>3 DEF RoomSafe, JobRoomInv, RecipientInv, At, CountParticipants
    <2>6. CASE CheckGrantTarget(t)
      <3>1. job[t] \in Job /\ MayControl(job[t].dev)
        BY <2>6 DEF CheckGrantTarget, At
      <3>2. job'[t] = [job[t] EXCEPT !.op = "granted"]
        BY <2>6 DEF CheckGrantTarget, Advance
      <3>3. job'[t].op = "granted" /\ job'[t].room = job[t].room /\ job'[t].dev = job[t].dev
        BY <3>1, <3>2
      <3> QED
        BY <2>6, <3>1, <3>3 DEF RoomSafe, JobRoomInv, CheckGrantTarget, At
    <2> QED
      BY <2>1, <2>2, <2>3, <2>4, <2>5, <2>6 DEF Check
  <1> QED
    BY <1>1, <1>3, <1>4
       DEF RoomSafe, JobRoomInv, UnusedInv, TargetInv, RecipientInv, InvitedInv, GuestsAreActive,
           LeaseHolderAuthorised, ActiveRooms, Active, At, IsActive, MayControl, accessVars, roomVars

\* A room becomes active only when it is created, from an id never used, and
\* keeps its host.
LEMMA CommitStatus ==
    ASSUME NEW t \in Task, RoomTypeOK, JobInv, RoomSafe, Commit(t), NEW r \in Room
    PROVE  /\ Active(r)' => Active(r) \/ room[r].status = "unused"
           /\ room'[r].status = "unused" => room[r].status = "unused"
           /\ room[r].status # "unused" => room'[r].host = room[r].host /\ room'[r].epoch = room[r].epoch
  <1> DEFINE Goal == /\ Active(r)' => Active(r) \/ room[r].status = "unused"
                     /\ room'[r].status = "unused" => room[r].status = "unused"
                     /\ room[r].status # "unused" => room'[r].host = room[r].host /\ room'[r].epoch = room[r].epoch
  <1> USE DEF Active
  <1>1. ASSUME NEW q \in Room, CreateRoom(t, q) PROVE Goal
    BY <1>1 DEF CreateRoom, RoomTypeOK
  <1>2. CASE room' = room
    BY <1>2
  <1>3. CASE GrantControl(t) \/ AcceptOutput(t)
    <2>1. ASSUME NEW q, NEW n, room' = [room EXCEPT ![q].generation = n] PROVE Goal
      BY <2>1 DEF RoomTypeOK
    <2>2. ASSUME NEW q, NEW n, room' = [room EXCEPT ![q].nextOutput = n] PROVE Goal
      BY <2>2 DEF RoomTypeOK
    <2> QED
      BY <1>3, <2>1, <2>2 DEF GrantControl, NextGeneration, AcceptOutput, TakesOutput
  <1>4. CASE CloseRoom(t)
    <2>1. ASSUME NEW q, room' = [room EXCEPT ![q].status = "closed"], room[q].status = "active"
          PROVE  Goal
      BY <2>1 DEF RoomTypeOK
    <2> QED
      BY <1>2, <1>4, <2>1 DEF CloseRoom
  <1> QED
    BY <1>1, <1>2, <1>3, <1>4
       DEF Commit, JoinRoom, RouteInvitation, RevokeControl, LeaveRoom, AcceptInput

\* A commit ends one job; what the others rely on is untouched.
LEMMA CommitJobs ==
    ASSUME NEW t \in Task, RoomTypeOK, JobInv, RoomSafe, Commit(t)
    PROVE  JobRoomInv' /\ TargetInv' /\ RecipientInv'
  <1>1. job' = [job EXCEPT ![t] = None] /\ UNCHANGED <<member, device>>
    BY CommitStep DEF Reject
  <1>2. \A u \in Task : job'[u] # None => job'[u] = job[u] /\ job[u].room \in Room
    BY <1>1 DEF RoomTypeOK
  <1>3. \A u \in Task : job'[u] # None =>
          /\ room'[job[u].room].status # "unused"
          /\ Active(job[u].room)' => Active(job[u].room)
    BY <1>2, CommitStatus DEF RoomSafe, JobRoomInv
  <1>4. \A d \in Device : (IsActive(d)' <=> IsActive(d)) /\ (MayControl(d)' <=> MayControl(d))
    BY <1>1 DEF IsActive, MayControl
  <1>5. JobRoomInv'
    BY <1>2, <1>3 DEF JobRoomInv
  <1>6. TargetInv'
    BY <1>1, <1>2, <1>3 DEF RoomSafe, TargetInv, At, Active, MayControl, IsActive
  <1>7. RecipientInv'
    BY <1>1, <1>2, <1>3 DEF RoomSafe, RecipientInv, At, Active, IsActive
  <1> QED
    BY <1>5, <1>6, <1>7

\* What a transaction writes about a device is what its checks established.
LEMMA CommitTables ==
    ASSUME NEW t \in Task, RoomTypeOK, JobInv, RoomSafe, Commit(t)
    PROVE  UnusedInv' /\ InvitedInv' /\ GuestsAreActive' /\ LeaseHolderAuthorised'
  <1> DEFINE Goal == UnusedInv' /\ InvitedInv' /\ GuestsAreActive' /\ LeaseHolderAuthorised'
  <1>1. UNCHANGED <<member, device>>
    BY CommitStep DEF Reject
  <1>3. \A r \in Room :
          /\ Active(r)' => Active(r) \/ room[r].status = "unused"
          /\ room'[r].status = "unused" => room[r].status = "unused"
          /\ room[r].status # "unused" => room'[r].host = room[r].host /\ room'[r].epoch = room[r].epoch
    BY CommitStatus
  <1>4. UnusedInv /\ InvitedInv /\ GuestsAreActive /\ LeaseHolderAuthorised
    BY DEF RoomSafe
  <1>5. job[t] # None => /\ job[t] \in Job /\ job[t].room \in Room
                         /\ room[job[t].room].status # "unused"
    BY DEF RoomSafe, JobRoomInv, RoomTypeOK
  <1> USE DEF UnusedInv, InvitedInv, GuestsAreActive, LeaseHolderAuthorised, ActiveRooms
  <1>6. ASSUME NEW q \in Room, CreateRoom(t, q) PROVE Goal
    <2> DEFINE NoInvitation == [d \in Device |-> "none"]
    <2>1. PICK gone \in SUBSET {r \in Room : room[r].status = "closed"} :
            /\ room[q].status = "unused"
            /\ room' = [r \in Room |->
                  IF r = q THEN [status |-> "active", host |-> auth[t].dev,
                                 epoch |-> auth[t].epoch, nextOutput |-> 1, generation |-> 0,
                                 ahead |-> 0]
                  ELSE IF r \in gone THEN [room[r] EXCEPT !.status = "purged"] ELSE room[r]]
            /\ invited' = [r \in Room |-> IF r \in gone THEN NoInvitation ELSE invited[r]]
            /\ present' = [r \in Room |-> IF r = q THEN {auth[t].dev}
                                          ELSE IF r \in gone THEN {} ELSE present[r]]
            /\ lease' = [r \in Room |-> IF r \in gone THEN None ELSE lease[r]]
      BY <1>6 DEF CreateRoom
    <2>2. q \notin gone
      BY <2>1
    <2>3. /\ room'[q].host = auth[t].dev /\ room'[q].status = "active"
          /\ present'[q] = {auth[t].dev} /\ lease'[q] = lease[q] /\ invited'[q] = invited[q]
      BY <2>1, <2>2
    <2>4. ASSUME NEW r \in Room \ {q}
          PROVE  \/ room'[r].status = "purged"
                 \/ /\ room'[r] = room[r] /\ present'[r] = present[r]
                    /\ lease'[r] = lease[r] /\ invited'[r] = invited[r]
      <3>1. CASE r \in gone
        <4>1. room'[r] = [room[r] EXCEPT !.status = "purged"]
          BY <2>1, <2>4, <3>1
        <4>2. room[r] \in RoomRow
          BY <2>4 DEF RoomTypeOK
        <4> QED
          BY <4>1, <4>2 DEF RoomRow
      <3>2. CASE r \notin gone
        BY <2>1, <2>4, <3>2
      <3> QED
        BY <3>1, <3>2
    <2>5. /\ lease[q] = None /\ invited[q] = NoInvitation
      BY <1>4, <2>1
    <2> QED
      BY <1>1, <1>4, <2>3, <2>4, <2>5 DEF Active, IsActive, MayControl
  <1>7. ASSUME NEW q \in Room, JoinRoom(t, q) PROVE Goal
    <2> DEFINE d == auth[t].dev
    <2>1. d \in Device /\ Active(q) /\ invited[q][d] = "pending"
      BY <1>7, CommitStep DEF JoinRoom, InputAtJoin, Reject, RoomTypeOK, AccessTypeOK
    <2>2. IsActive(d)
      BY <1>4, <2>1
    <2>3. /\ room' = room /\ lease' = lease
          /\ \A r \in Room \ {q} : present'[r] = present[r] /\ invited'[r] = invited[r]
          /\ present'[q] = present[q] \union {d}
          /\ \A e \in Device : invited'[q][e] \in {invited[q][e], "accepted"}
          /\ \A e \in Device : invited'[q][e] # invited[q][e] => e = d
      BY <1>7, <2>1 DEF JoinRoom, InputAtJoin, RoomTypeOK
    <2> QED
      BY <1>1, <1>4, <2>1, <2>2, <2>3 DEF Active, IsActive, MayControl
  <1>8. CASE RouteInvitation(t)
    <2> DEFINE q == job[t].room
               d == job[t].dev
    <2>1. /\ q \in Room /\ d \in Device /\ room[q].status # "unused"
          /\ Active(q) => IsActive(d)
      BY <1>5, <1>8 DEF RouteInvitation, At, RoomSafe, RecipientInv
    <2>2. /\ room' = room /\ lease' = lease /\ present' = present
          /\ \A r \in Room \ {q} : invited'[r] = invited[r]
          /\ \A e \in Device : invited'[q][e] # invited[q][e] => e = d
      BY <1>8, <2>1 DEF RouteInvitation, RoomTypeOK
    <2> QED
      BY <1>1, <1>4, <2>1, <2>2 DEF Active, IsActive, MayControl
  <1>9. CASE GrantControl(t)
    <2> DEFINE q == job[t].room
               d == job[t].dev
    <2>1. q \in Room /\ d \in Device /\ Active(q) /\ MayControl(d)
      BY <1>5, <1>9 DEF GrantControl, NextGeneration, At, RoomSafe, TargetInv
    <2>2. /\ present' = present /\ invited' = invited
          /\ lease'[q].dev = d
          /\ \A r \in Room \ {q} : lease'[r] = lease[r]
      BY <1>9, <2>1 DEF GrantControl, NextGeneration, RoomTypeOK
    <2> QED
      BY <1>1, <1>3, <1>4, <2>1, <2>2 DEF Active, IsActive, MayControl
  <1>10. CASE RevokeControl(t) \/ CloseRoom(t) \/ LeaveRoom(t)
    <2>1. /\ invited' = invited
          /\ \A r \in Room : present'[r] \subseteq present[r] /\ lease'[r] \in {lease[r], None}
      BY <1>5, <1>10 DEF RevokeControl, CloseRoom, LeaveRoom, At, RoomTypeOK
    <2> QED
      BY <1>1, <1>3, <1>4, <2>1 DEF Active, IsActive, MayControl
  <1>11. CASE AcceptOutput(t) \/ AcceptInput(t)
    <2>1. UNCHANGED <<invited, present, lease>>
      BY <1>11 DEF AcceptOutput, AcceptInput
    <2> QED
      BY <1>1, <1>3, <1>4, <2>1 DEF Active, IsActive, MayControl
  <1> QED
    BY <1>6, <1>7, <1>8, <1>9, <1>10, <1>11 DEF Commit

\* RoomSafe is inductive.
LEMMA RoomSafeStep ==
    RoomTypeOK /\ JobInv /\ RoomSafe /\ [RoomNext]_vars => RoomSafe'
  <1> SUFFICES ASSUME RoomTypeOK, JobInv, RoomSafe, [RoomNext]_vars PROVE RoomSafe'
    OBVIOUS
  <1>1. RoomTypeOK'
    BY RoomTypeStep
  <1>2. CASE UNCHANGED vars
    BY <1>2
       DEF RoomSafe, JobRoomInv, UnusedInv, TargetInv, RecipientInv, InvitedInv, GuestsAreActive,
           LeaseHolderAuthorised, ActiveRooms, Active, At, IsActive, MayControl, vars, accessVars,
           roomVars
  <1>3. ASSUME NEW t \in Task, Commit(t) PROVE RoomSafe'
    BY <1>3, CommitJobs, CommitTables DEF RoomSafe
  <1> QED
    BY <1>1, <1>2, <1>3, CheckSafe, EndRequestSafe, ExpireSafe, RosterSafe, UseStoreSafe
       DEF RoomNext

\* Everything RoomSafe names holds in every reachable state.
LEMMA RoomSafeCorrect == RoomSpec => []RoomSafe
  BY RoomSafeInit, RoomSafeStep, RoomTypeCorrect, PTL DEF RoomSpec

\* docs/TEAM_SECURITY.md:76: the holder of an active room's lease may control
\* terminals by its present role and status.
THEOREM LeaseHolderAuthorisedHolds == RoomSpec => []LeaseHolderAuthorised
  <1>1. RoomSafe => LeaseHolderAuthorised
    BY DEF RoomSafe
  <1> QED
    BY <1>1, RoomSafeCorrect, PTL

\* docs/TEAM_SECURITY.md:73: guests present in an active room are active.
THEOREM GuestsAreActiveHolds == RoomSpec => []GuestsAreActive
  <1>1. RoomSafe => GuestsAreActive
    BY DEF RoomSafe
  <1> QED
    BY <1>1, RoomSafeCorrect, PTL

(***************************************************************************)
(* Closed rooms, the replay window and the counters                        *)
(***************************************************************************)

\* What the rows of a room say together: an id not drawn has no frames and no
\* counters, a room is of the present epoch or of an earlier one, a purged room has
\* no lease, and the two invariants to prove, of this room.  From `ahead` on the
\* window is closed upwards, because stamps grow with the sequence there.
Window(r) ==
    /\ \A m \in kept[r], n \in 1..(room[r].nextOutput - 1) :
          room[r].ahead <= m /\ m <= n => n \in kept[r]
    /\ \A n \in kept[r] : n < room[r].nextOutput
    /\ room[r].nextOutput > 1 => room[r].nextOutput - 1 \in kept[r]

BookInv(r) ==
    /\ room[r].status = "unused" => kept[r] = {} /\ \A d \in Device : nextInput[r][d] = 0
    /\ room[r].status # "unused" => room[r].epoch <= keyEpoch
    /\ room[r].status = "closed" /\ room[r].epoch = keyEpoch => lease[r] = None /\ kept[r] = {}
    /\ room[r].status = "purged" => lease[r] = None
    /\ Active(r) => Window(r)

RoomBooks == \A r \in Room : BookInv(r)

\* What holds before every step, for the lemmas that follow.
RoomInv == RoomTypeOK /\ JobInv /\ RoomSafe /\ AuthInv /\ RoomBooks

\* There are no rows before the first room.
LEMMA BooksInit == RoomInit => RoomBooks
  BY DEF RoomInit, NoRooms, RoomBooks, BookInv, Active

\* Every step moves the epoch forward, if at all.
LEMMA RoomEpoch ==
    ASSUME RoomInv, [RoomNext]_vars
    PROVE  keyEpoch \in Nat /\ keyEpoch' \in Nat /\ keyEpoch <= keyEpoch'
  BY RoomStepIsAccessStep, EpochNeverGoesBack DEF RoomInv, RoomTypeOK

\* A room whose own rows stay keeps its books, under any later epoch.
LEMMA BooksStay ==
    ASSUME RoomInv, NEW r \in Room, keyEpoch \in Nat, keyEpoch' \in Nat, keyEpoch <= keyEpoch',
           room'[r] = room[r], lease[r] = None => lease'[r] = None, kept'[r] = kept[r],
           room[r].status = "unused" => \A d \in Device : nextInput'[r][d] = 0
    PROVE  BookInv(r)'
  <1>1. BookInv(r) /\ room[r].epoch \in Nat
    BY DEF RoomInv, RoomBooks, RoomTypeOK
  <1>2. room[r].status # "unused" => room[r].epoch <= keyEpoch'
    BY <1>1 DEF BookInv
  <1>3. room[r].status # "unused" /\ room[r].epoch = keyEpoch' => room[r].epoch = keyEpoch
    BY <1>1 DEF BookInv
  <1> QED
    BY <1>1, <1>2, <1>3 DEF BookInv, Active, Window

\* A room that a roster change or a deletion closes keeps them too.
LEMMA BooksOfClosed ==
    ASSUME RoomInv, NEW r \in Room, keyEpoch \in Nat, keyEpoch' \in Nat,
           room[r].status # "unused", room'[r].epoch = room[r].epoch,
           \/ room'[r].status = "purged" /\ keyEpoch <= keyEpoch' /\ lease'[r] = None
           \/ room'[r].status = "closed" /\ keyEpoch < keyEpoch'
           \/ room'[r].status = "closed" /\ keyEpoch = keyEpoch' /\ lease'[r] = None /\ kept'[r] = {}
    PROVE  BookInv(r)'
  <1>1. room[r].epoch \in Nat /\ room[r].epoch <= keyEpoch
    BY DEF RoomInv, RoomBooks, BookInv, RoomTypeOK
  <1> QED
    BY <1>1 DEF BookInv, Active

\* create_room starts a room at the epoch of its request, without frames.
LEMMA BooksCreate ==
    ASSUME RoomInv, NEW t \in Task, NEW q \in Room, CreateRoom(t, q), keyEpoch \in Nat,
           keyEpoch' = keyEpoch, NEW r \in Room
    PROVE  BookInv(r)'
  <1>1. PICK gone \in SUBSET {p \in Room : room[p].status = "closed"} :
          /\ room[q].status = "unused"
          /\ room' = [p \in Room |->
                IF p = q THEN [status |-> "active", host |-> auth[t].dev,
                               epoch |-> auth[t].epoch, nextOutput |-> 1, generation |-> 0,
                                 ahead |-> 0]
                ELSE IF p \in gone THEN [room[p] EXCEPT !.status = "purged"] ELSE room[p]]
          /\ nextInput' = [p \in Room |->
                IF p = q THEN [nextInput[p] EXCEPT ![auth[t].dev] = 1]
                ELSE IF p \in gone THEN [d \in Device |-> 0] ELSE nextInput[p]]
          /\ lease' = [p \in Room |-> IF p \in gone THEN None ELSE lease[p]]
          /\ kept' = [p \in Room |-> IF p \in gone THEN {} ELSE kept[p]]
    BY DEF CreateRoom
  <1>2. auth[t] # None /\ auth[t].epoch <= keyEpoch
    BY DEF CreateRoom, Fresh, RoomInv, AuthInv, AuthTrue
  <1>3. CASE r = q
    <2>1. kept'[r] = {}
      BY <1>1, <1>3 DEF RoomInv, RoomBooks, BookInv
    <2>2. room'[r].status = "active" /\ room'[r].epoch = auth[t].epoch /\ room'[r].nextOutput = 1
      BY <1>1, <1>3
    <2> QED
      BY <1>2, <2>1, <2>2 DEF BookInv, Active, Window
  <1>4. CASE r # q /\ r \in gone
    <2>1. room[r] \in RoomRow /\ room'[r] = [room[r] EXCEPT !.status = "purged"]
      BY <1>1, <1>4 DEF RoomInv, RoomTypeOK
    <2>2. room'[r].status = "purged" /\ room'[r].epoch = room[r].epoch
      BY <2>1 DEF RoomRow
    <2> QED
      BY <1>1, <1>4, <2>2, BooksOfClosed
  <1>5. CASE r # q /\ r \notin gone
    <2>1. room'[r] = room[r] /\ nextInput'[r] = nextInput[r] /\ lease'[r] = lease[r]
          /\ kept'[r] = kept[r]
      BY <1>1, <1>5
    <2> QED
      BY <2>1, BooksStay DEF RoomInv, RoomBooks, BookInv
  <1> QED
    BY <1>3, <1>4, <1>5

\* prune_replay takes frames from the old end, whatever the limits.
LEMMA BooksOutput ==
    ASSUME RoomInv, NEW t \in Task, AcceptOutput(t), keyEpoch \in Nat, keyEpoch' = keyEpoch,
           NEW r \in Room
    PROVE  BookInv(r)'
  <1> DEFINE q == job[t].room
             n == job[t].frame
  <1>1. q \in Room /\ n \in Nat /\ room[q] \in RoomRow /\ kept[q] \in SUBSET Nat
    BY DEF AcceptOutput, At, RoomInv, RoomTypeOK
  <1>2. Active(q) /\ n = room[q].nextOutput
    BY DEF AcceptOutput, TakesOutput
  <1>3. room' = [room EXCEPT ![q] = [room[q] EXCEPT !.nextOutput = n + 1]]
    BY DEF AcceptOutput
  <1>4. PICK old \in Aged(q, kept[q] \union {n}), oldest \in kept[q] \union {n} :
           /\ n \in {m \in (kept[q] \union {n}) \ old : m >= oldest}
           /\ kept' = [kept EXCEPT ![q] = {m \in (kept[q] \union {n}) \ old : m >= oldest}]
    BY <1>2 DEF AcceptOutput, Prune
  <1>5. lease' = lease /\ nextInput' = nextInput
    BY DEF AcceptOutput
  <1>6. room \in [Room -> RoomRow] /\ kept \in [Room -> SUBSET Nat] /\ BookInv(r) /\ BookInv(q)
    BY <1>1 DEF RoomInv, RoomTypeOK, RoomBooks
  <1>7. CASE r # q
    BY <1>1, <1>3, <1>4, <1>5, <1>6, <1>7, BooksStay DEF BookInv
  <1>8. CASE r = q
    <2>1. /\ room'[q].status = "active" /\ room'[q].epoch = room[q].epoch
          /\ room'[q].nextOutput = n + 1 /\ room'[q].ahead = room[q].ahead
      BY <1>1, <1>2, <1>3, <1>6 DEF RoomRow, Active
    <2>2. kept'[q] = {m \in (kept[q] \union {n}) \ old : m >= oldest}
      BY <1>1, <1>4, <1>6
    <2>3. Window(q)
      BY <1>2, <1>6 DEF BookInv
    <2>4. \A m \in kept[q] : m \in Nat /\ m < n
      BY <1>1, <1>2, <2>3 DEF Window
    <2>5. oldest \in Nat /\ oldest <= n
      BY <1>1, <1>4, <2>4
    <2>6. n \in kept'[q] /\ \A m \in kept'[q] : m < n + 1
      BY <1>1, <1>4, <2>2, <2>4, <2>5
    <2>7. ASSUME NEW m \in kept'[q], NEW k \in 1..n, room[q].ahead <= m, m <= k
          PROVE  k \in kept'[q]
      <3>1. k >= oldest
        BY <1>1, <2>2, <2>4, <2>5, <2>7
      <3>2. CASE k = n
        BY <2>6, <3>2
      <3>3. CASE k # n
        <4>1. k \in 1..(n - 1) /\ m # n
          BY <1>1, <2>7, <3>3
        <4>2. m \in kept[q]
          BY <2>2, <4>1
        <4>3. k \in kept[q]
          BY <1>2, <2>3, <2>7, <4>1, <4>2 DEF Window
        <4>4. k \notin old
          <5>1. m \in (kept[q] \union {n}) \ old
            BY <2>2
          <5>2. CASE m = k
            BY <5>1, <5>2
          <5>3. CASE m # k
            <6>1. m < k
              BY <1>1, <2>4, <2>7, <4>2, <5>3
            <6> QED
              BY <2>7, <4>3, <5>1, <6>1 DEF Aged
          <5> QED
            BY <5>2, <5>3
        <4> QED
          BY <2>2, <3>1, <4>3, <4>4
      <3> QED
        BY <3>2, <3>3
    <2>8. Window(r)'
      <3>1. /\ room'[r].nextOutput - 1 = n /\ room'[r].nextOutput = n + 1
            /\ room'[r].ahead = room[q].ahead
        BY <1>1, <1>8, <2>1
      <3> HIDE DEF q, n
      <3> QED
        BY <1>8, <2>6, <2>7, <3>1 DEF Window
    <2> QED
      BY <1>2, <1>6, <1>8, <2>1, <2>8 DEF BookInv, Active
  <1> QED
    BY <1>7, <1>8

\* The other transactions leave a room's rows alone, or close it for good.
LEMMA BooksCommit ==
    ASSUME RoomInv, NEW t \in Task, Commit(t), keyEpoch \in Nat, NEW r \in Room
    PROVE  BookInv(r)'
  <1>1. keyEpoch' = keyEpoch
    BY CommitStep DEF Reject, RoomInv
  <1>2. job[t] # None => /\ job[t] \in Job /\ job[t].room \in Room /\ job[t].dev \in Device
                         /\ room[job[t].room].status # "unused"
    BY DEF RoomInv, RoomSafe, JobRoomInv, RoomTypeOK
  <1>3. /\ BookInv(r) /\ room[r] \in RoomRow /\ room \in [Room -> RoomRow]
        /\ kept \in [Room -> SUBSET Nat] /\ lease \in [Room -> Lease \union {None}]
        /\ nextInput \in [Room -> [Device -> Nat]]
    BY DEF RoomInv, RoomTypeOK, RoomBooks
  <1>4. ASSUME NEW q \in Room, CreateRoom(t, q) PROVE BookInv(r)'
    BY <1>1, <1>4, BooksCreate
  <1>5. CASE AcceptOutput(t)
    BY <1>1, <1>5, BooksOutput
  <1>6. ASSUME NEW q \in Room, JoinRoom(t, q) PROVE BookInv(r)'
    <2>1. UNCHANGED <<room, lease, kept>> /\ Active(q)
      BY <1>6 DEF JoinRoom
    <2>2. r # q => nextInput'[r] = nextInput[r]
      BY <1>3, <1>6 DEF JoinRoom
    <2> QED
      BY <1>1, <1>3, <2>1, <2>2, BooksStay DEF BookInv, Active
  <1>7. CASE AcceptInput(t)
    <2>1. UNCHANGED <<room, lease, kept>> /\ job[t] # None
      BY <1>7 DEF AcceptInput, At
    <2>2. r # job[t].room => nextInput'[r] = nextInput[r]
      BY <1>2, <1>3, <1>7 DEF AcceptInput
    <2> QED
      BY <1>1, <1>2, <1>3, <2>1, <2>2, BooksStay DEF BookInv
  <1>8. CASE GrantControl(t)
    <2> DEFINE q == job[t].room
    <2>1. q \in Room /\ Active(q) /\ UNCHANGED <<nextInput, kept>>
      BY <1>2, <1>8 DEF GrantControl, At
    <2>2. r # q => room'[r] = room[r] /\ lease'[r] = lease[r]
      BY <1>3, <1>8, <2>1 DEF GrantControl
    <2>3. r = q => /\ room'[r].status = "active" /\ room'[r].epoch = room[r].epoch
                   /\ room'[r].nextOutput = room[r].nextOutput
                   /\ room'[r].ahead = room[r].ahead
      BY <1>3, <1>8, <2>1 DEF GrantControl, RoomRow, Active
    <2>4. CASE r # q
      BY <1>1, <1>3, <2>1, <2>2, <2>4, BooksStay DEF BookInv
    <2>5. CASE r = q
      BY <1>1, <1>3, <2>1, <2>3, <2>5 DEF BookInv, Active, Window
    <2> QED
      BY <2>4, <2>5
  <1>9. CASE CloseRoom(t)
    <2> DEFINE q == job[t].room
    <2>1. q \in Room /\ room[q].status # "unused" /\ nextInput' = nextInput
      BY <1>2, <1>9 DEF CloseRoom, At
    <2>2. /\ r # q => room'[r] = room[r] /\ lease'[r] = lease[r] /\ kept'[r] = kept[r]
          /\ r = q => lease'[r] = None /\ kept'[r] = {}
          /\ room' = IF Active(q) THEN [room EXCEPT ![q].status = "closed"] ELSE room
      BY <1>3, <1>9, <2>1 DEF CloseRoom
    <2>3. CASE r # q
      <3>1. room[r].status = "unused" => \A d \in Device : nextInput'[r][d] = 0
        BY <1>3, <2>1 DEF BookInv
      <3>2. room'[r] = room[r] /\ lease'[r] = lease[r] /\ kept'[r] = kept[r]
        BY <2>2, <2>3
      <3> QED
        BY <1>1, <3>1, <3>2, BooksStay
    <2>4. CASE r = q /\ Active(q)
      <3>1. room'[r].status = "closed" /\ room'[r].epoch = room[r].epoch
        BY <1>3, <2>2, <2>4 DEF RoomRow
      <3> QED
        BY <1>1, <2>1, <2>2, <2>4, <3>1, BooksOfClosed
    <2>5. CASE r = q /\ ~Active(q)
      BY <1>1, <1>3, <2>1, <2>2, <2>5 DEF BookInv, Active
    <2> QED
      BY <2>3, <2>4, <2>5
  <1>10. CASE RouteInvitation(t) \/ RevokeControl(t) \/ LeaveRoom(t)
    <2>1. UNCHANGED <<room, nextInput, kept>> /\ lease'[r] \in {lease[r], None}
      BY <1>2, <1>3, <1>10 DEF RouteInvitation, RevokeControl, LeaveRoom, At
    <2> QED
      BY <1>1, <1>3, <2>1, BooksStay DEF BookInv
  <1> QED
    BY <1>4, <1>5, <1>6, <1>7, <1>8, <1>9, <1>10 DEF Commit

\* Every step keeps the books of every room.
LEMMA BooksStep == RoomInv /\ [RoomNext]_vars => RoomBooks'
  <1> SUFFICES ASSUME RoomInv, [RoomNext]_vars, NEW r \in Room PROVE BookInv(r)'
    BY DEF RoomBooks
  <1>1. keyEpoch \in Nat /\ keyEpoch' \in Nat /\ keyEpoch <= keyEpoch'
    BY RoomEpoch
  <1>2. RoomTypeOK /\ JobInv /\ BookInv(r) /\ room[r] \in RoomRow
    BY DEF RoomInv, RoomTypeOK, RoomBooks
  <1>3. UNCHANGED roomVars => BookInv(r)'
    BY <1>1, <1>2, BooksStay DEF roomVars, BookInv
  <1>4. ASSUME NEW t \in Task, Check(t) PROVE BookInv(r)'
    BY <1>2, <1>3, <1>4, CheckStep DEF RoomTypeOK
  <1>5. ASSUME NEW t \in Task, Commit(t) PROVE BookInv(r)'
    BY <1>1, <1>5, BooksCommit
  <1>6. ASSUME NEW t \in Task, EndRequest(t) PROVE BookInv(r)'
    <2>1. CASE UNCHANGED roomVars
      BY <1>3, <2>1
    <2>2. CASE PurgeRooms
      <3>1. /\ kept'[r] = {} /\ lease'[r] = None /\ \A d \in Device : nextInput'[r][d] = 0
            /\ room[r].status = "unused" => room'[r] = room[r]
        BY <2>2 DEF PurgeRooms
      <3>2. room[r].status # "unused" => room'[r] = [room[r] EXCEPT !.status = "purged"]
        BY <2>2 DEF PurgeRooms
      <3>3. room[r].status # "unused" =>
               room'[r].status = "purged" /\ room'[r].epoch = room[r].epoch
        BY <1>2, <3>2 DEF RoomRow
      <3>4. CASE room[r].status = "unused"
        BY <1>1, <1>2, <3>1, <3>4, BooksStay DEF BookInv
      <3> QED
        BY <1>1, <3>1, <3>3, <3>4, BooksOfClosed
    <2> QED
      BY <1>6, <2>1, <2>2 DEF EndRequest
  <1>7. CASE Expire
    <2>1. UNCHANGED <<nextInput, kept>>
      BY <1>7 DEF Expire, ExpireLease, ExpireRoomInvitation, SetClockBack
    <2>2. lease[r] = None => lease'[r] = None
      BY <1>2, <1>7, ExpiredLease DEF Expire, ExpireRoomInvitation, SetClockBack
    <2>3. CASE room'[r] = room[r]
      BY <1>1, <1>2, <2>1, <2>2, <2>3, BooksStay DEF BookInv
    <2>4. CASE SetClockBack /\ Active(r)
      <3>1. room' = [q \in Room |-> IF Active(q) THEN [room[q] EXCEPT !.ahead = room[q].nextOutput]
                                    ELSE room[q]]
        BY <2>4 DEF SetClockBack
      <3>2. room'[r] = [room[r] EXCEPT !.ahead = room[r].nextOutput]
        BY <2>4, <3>1
      <3>3. /\ room'[r].status = "active" /\ room'[r].epoch = room[r].epoch
            /\ room'[r].nextOutput = room[r].nextOutput /\ room'[r].ahead = room[r].nextOutput
        BY <1>2, <2>4, <3>2 DEF RoomRow, Active
      <3>4. Window(r) /\ room[r].epoch <= keyEpoch /\ room[r].epoch \in Nat
        BY <1>2, <2>4 DEF BookInv, Active, RoomRow
      <3>5. Window(r)'
        BY <1>2, <2>1, <3>3, <3>4 DEF Window, RoomTypeOK, RoomRow
      <3> QED
        BY <1>1, <3>3, <3>4, <3>5 DEF BookInv
    <2> QED
      BY <1>7, <2>3, <2>4 DEF Expire, ExpireLease, ExpireRoomInvitation, SetClockBack
  <1>8. CASE ChangeRoster
    <2>1. CloseWorkspaceRooms /\ keyEpoch < keyEpoch'
      <3>1. CloseWorkspaceRooms
        BY <1>8, ChangeRosterStep
      <3>2. keyEpoch' = keyEpoch + 1
        <4>1. AdvanceEpoch
          BY <1>8, ZenonT(40) DEF ChangeRoster, AcceptInvitation, UpdateMember, RevokeDevice
        <4> QED
          BY <4>1 DEF AdvanceEpoch
      <3> QED
        BY <1>1, <3>1, <3>2
    <2>2. /\ UNCHANGED <<nextInput, lease, kept>>
          /\ room'[r] = IF Active(r) THEN [room[r] EXCEPT !.status = "closed"] ELSE room[r]
      BY <2>1 DEF CloseWorkspaceRooms
    <2>3. Active(r) => room'[r].status = "closed" /\ room'[r].epoch = room[r].epoch
      BY <1>2, <2>2 DEF RoomRow
    <2>4. CASE Active(r)
      BY <1>1, <2>1, <2>3, <2>4, BooksOfClosed DEF Active
    <2>5. CASE ~Active(r)
      BY <1>1, <1>2, <2>2, <2>5, BooksStay DEF BookInv
    <2> QED
      BY <2>4, <2>5
  <1>9. CASE UseStore
    BY <1>3, <1>9 DEF UseStore
  <1>10. CASE UNCHANGED vars
    BY <1>3, <1>10 DEF vars
  <1> QED
    BY <1>4, <1>5, <1>6, <1>7, <1>8, <1>9, <1>10 DEF RoomNext

\* RoomInv holds in every reachable state.
LEMMA RoomInvCorrect == RoomSpec => []RoomInv
  <1>1. RoomInit => RoomInv
    BY RoomInitType, RoomSafeInit, AuthInit, BooksInit DEF RoomInv, RoomInit
  <1>2. RoomInv /\ [RoomNext]_vars => RoomInv'
    BY RoomTypeStep, RoomSafeStep, AuthStep, RoomStepIsAccessStep, BooksStep DEF RoomInv, RoomTypeOK
  <1> QED
    BY <1>1, <1>2, PTL DEF RoomSpec

\* terminal.rs:424-438: a closed room whose epoch is the workspace's, one that its host
\* and no roster change has closed, holds no lease and no frame, whatever was in flight.
THEOREM HostCloseIsFinalHolds == RoomSpec => []HostCloseIsFinal
  <1>1. RoomInv => HostCloseIsFinal
    BY DEF RoomInv, RoomBooks, BookInv, HostCloseIsFinal
  <1> QED
    BY <1>1, RoomInvCorrect, PTL

\* docs/TEAM_RELAY.md:35: a replay that is served is complete, for any limits and
\* wherever the clock's age limit takes frames from, as to the outputs stamped since
\* the clock was last set back.
THEOREM ReplayWindowHasNoGapHolds == RoomSpec => []ReplayWindowHasNoGap
  <1>1. ASSUME RoomInv, NEW r \in Room, Active(r),
               NEW after \in 0..(room[r].nextOutput - 1), Replays(r, after),
               room[r].ahead <= after + 1
        PROVE  Replayed(r, after) = (after + 1)..(room[r].nextOutput - 1)
    <2>1. /\ Window(r) /\ kept[r] \subseteq Nat
          /\ room[r].nextOutput \in Nat /\ room[r].ahead \in Nat /\ after \in Nat
      BY <1>1 DEF RoomInv, RoomBooks, BookInv, RoomTypeOK, RoomRow
    <2>2. CASE after = room[r].nextOutput - 1
      BY <2>1, <2>2 DEF Replayed
    <2>3. CASE after < room[r].nextOutput - 1
      <3>1. after + 1 \in kept[r]
        BY <1>1, <2>3 DEF Replays, Replayed
      <3>2. \A n \in (after + 1)..(room[r].nextOutput - 1) : n \in kept[r]
        BY <1>1, <2>1, <3>1 DEF Window
      <3> QED
        BY <2>1, <3>2 DEF Replayed
    <2> QED
      BY <2>1, <2>2, <2>3
  <1>2. ASSUME RoomInv, NEW r \in Room, Active(r)
        PROVE  room[r].nextOutput > 1 => room[r].nextOutput - 1 \in kept[r]
    BY <1>2 DEF RoomInv, RoomBooks, BookInv, Window
  <1>3. RoomInv => ReplayWindowHasNoGap
    BY <1>1, <1>2 DEF ReplayWindowHasNoGap, ActiveRooms
  <1> QED
    BY <1>3, RoomInvCorrect, PTL

(***************************************************************************)
(* The request behind an input in flight                                   *)
(***************************************************************************)

\* A frame that is being counted is of the device its request authenticated,
\* and of the epoch of its room, whatever has become of both since.
InputJobInv ==
    \A t \in Task : At(t, "input") =>
        auth[t].dev = job[t].dev /\ auth[t].epoch = room[job[t].room].epoch

\* No room changes its epoch.
LEMMA EpochOfRoom ==
    ASSUME RoomInv, [RoomNext]_vars, NEW r \in Room, room[r].status # "unused"
    PROVE  room'[r].epoch = room[r].epoch
  <1>1. room[r] \in RoomRow /\ room \in [Room -> RoomRow] /\ RoomTypeOK /\ JobInv /\ RoomSafe
    BY DEF RoomInv, RoomTypeOK
  <1>2. ASSUME room'[r] \in {room[r], [room[r] EXCEPT !.status = "closed"],
                             [room[r] EXCEPT !.status = "purged"],
                             [room[r] EXCEPT !.ahead = room[r].nextOutput]}
        PROVE  room'[r].epoch = room[r].epoch
    BY <1>1, <1>2 DEF RoomRow
  <1>3. ASSUME NEW t \in Task, Check(t) PROVE room'[r].epoch = room[r].epoch
    BY <1>1, <1>3, CheckStep DEF roomVars, RoomTypeOK
  <1>4. ASSUME NEW t \in Task, Commit(t) PROVE room'[r].epoch = room[r].epoch
    BY <1>1, <1>4, CommitStatus
  <1>5. ASSUME NEW t \in Task, EndRequest(t) PROVE room'[r].epoch = room[r].epoch
    BY <1>1, <1>2, <1>5 DEF EndRequest, PurgeRooms, roomVars
  <1>6. CASE Expire
    BY <1>1, <1>2, <1>6 DEF Expire, ExpireLease, ExpireRoomInvitation, SetClockBack
  <1>7. CASE ChangeRoster
    BY <1>1, <1>2, <1>7, ChangeRosterStep DEF CloseWorkspaceRooms
  <1>8. CASE UseStore \/ UNCHANGED vars
    BY <1>8 DEF UseStore, vars, roomVars
  <1> QED
    BY <1>3, <1>4, <1>5, <1>6, <1>7, <1>8 DEF RoomNext

\* A step leaves the job of a task alone, or ends it, or is its own check.
LEMMA JobGoesOn ==
    ASSUME RoomInv, [RoomNext]_vars, NEW t \in Task, job'[t] # None
    PROVE  job'[t] = job[t] \/ Check(t)
  <1>1. job \in [Task -> Job \union {None}] /\ JobInv
    BY DEF RoomInv, RoomTypeOK
  <1>2. ASSUME NEW u \in Task, Check(u) PROVE job'[t] = job[t] \/ Check(t)
    BY <1>1, <1>2, CheckStep
  <1>3. ASSUME NEW u \in Task, Commit(u) PROVE job'[t] = job[t]
    BY <1>1, <1>3, CommitStep
  <1>4. ASSUME NEW u \in Task, EndRequest(u) PROVE job'[t] = job[t]
    BY <1>1, <1>4 DEF EndRequest
  <1>5. CASE Expire \/ ChangeRoster \/ UseStore \/ UNCHANGED vars
    BY <1>5, ChangeRosterStep
       DEF Expire, ExpireLease, ExpireRoomInvitation, SetClockBack, UseStore, vars
  <1> QED
    BY <1>2, <1>3, <1>4, <1>5 DEF RoomNext

\* No request is in flight at first.
LEMMA InputJobInit == RoomInit => InputJobInv
  BY DEF RoomInit, NoRooms, InputJobInv, At

\* process_frame looks the room up under the request's epoch, and neither
\* changes while the frame waits for its transaction.
LEMMA InputJobStep == RoomInv /\ InputJobInv /\ [RoomNext]_vars => InputJobInv'
  <1> SUFFICES ASSUME RoomInv, InputJobInv, [RoomNext]_vars, NEW t \in Task, At(t, "input")'
               PROVE  auth'[t].dev = job'[t].dev /\ auth'[t].epoch = room'[job'[t].room].epoch
    BY DEF InputJobInv
  <1>1. job'[t] # None /\ JobInv /\ RoomTypeOK /\ job \in [Task -> Job \union {None}]
    BY DEF At, RoomInv, RoomTypeOK
  <1>2. CASE Check(t)
    <2>1. UNCHANGED <<accessVars, roomVars>>
      BY <1>1, <1>2, CheckStep
    <2>2. \/ \E r \in Room, n \in 1..MaxInput, g \in 1..MaxGrants : ReceiveInput(t, r, n, g)
          \/ job'[t].op # "input"
      <3>1. ASSUME NEW r \in Room, NEW d \in Device, CheckInvitation(t, r, d) \/ CheckGrant(t, r, d)
            PROVE  job'[t].op # "input"
        BY <1>1, <3>1 DEF CheckInvitation, CheckGrant, Begin
      <3>2. ASSUME NEW r \in Room, NEW op \in {"revoke", "close"}, CheckHost(t, r, op) \/ CheckLeave(t, r)
            PROVE  job'[t].op # "input"
        BY <1>1, <3>2 DEF CheckHost, CheckLeave, Begin
      <3>3. ASSUME NEW r \in Room, NEW n, ReceiveOutput(t, r, n)
            PROVE  job'[t].op # "input"
        BY <1>1, <3>3 DEF ReceiveOutput, Begin
      <3>4. CASE CountParticipants(t) \/ CheckGrantTarget(t)
        <4>1. job[t] \in Job
          BY <1>1, <3>4 DEF CountParticipants, CheckGrantTarget, At
        <4>2. PICK op \in {"counted", "granted"} : job'[t] = [job[t] EXCEPT !.op = op]
          BY <1>1, <3>4 DEF CountParticipants, CheckGrantTarget, Advance
        <4> QED
          BY <4>1, <4>2 DEF Job
      <3> QED
        BY <1>2, <3>1, <3>2, <3>3, <3>4 DEF Check
    <2>3. PICK r \in Room, n \in 1..MaxInput, g \in 1..MaxGrants : ReceiveInput(t, r, n, g)
      BY <2>2 DEF At
    <2>4. /\ job'[t] = [op |-> "input", room |-> r, dev |-> auth[t].dev, frame |-> n, generation |-> g]
          /\ room[r].epoch = auth[t].epoch
      BY <1>1, <2>3 DEF ReceiveInput, Begin, Authorized
    <2> QED
      BY <2>1, <2>4 DEF accessVars, roomVars
  <1>3. CASE job'[t] = job[t]
    <2>1. At(t, "input") /\ job[t] \in Job /\ auth[t] # None
      BY <1>1, <1>3 DEF At, JobInv
    <2>2. auth'[t] # None
      BY <1>1, RoomTypeStep DEF JobInv
    <2>3. auth'[t] = auth[t]
      <3>1. ~\E d \in Device : Authenticate(t, d)
        BY <2>1 DEF Authenticate
      <3>2. [AccessNext]_accessVars
        BY <1>1, RoomStepIsAccessStep
      <3> QED
        BY <1>1, <2>2, <3>1, <3>2, AuthComesFromAuthenticate DEF RoomTypeOK
    <2>4. job[t].room \in Room /\ room[job[t].room].status # "unused"
      BY <2>1 DEF At, Job, RoomInv, RoomSafe, JobRoomInv
    <2>5. room'[job[t].room].epoch = room[job[t].room].epoch
      BY <2>4, EpochOfRoom
    <2> QED
      BY <1>3, <2>1, <2>3, <2>5 DEF InputJobInv
  <1> QED
    BY <1>1, <1>2, <1>3, JobGoesOn

\* It holds in every reachable state.
LEMMA InputJobCorrect == RoomSpec => []InputJobInv
  BY InputJobInit, InputJobStep, RoomInvCorrect, PTL DEF RoomSpec

\* What a step does to a room's lease and to the counters of its inputs.
LeaseAbove(r) ==
    lease'[r] # None =>
        \/ lease[r] # None /\ lease'[r].generation = lease[r].generation
                           /\ lease'[r].dev = lease[r].dev
        \/ lease'[r].generation > room[r].generation

InputsGoOn(r) ==
    /\ room'[r].status # "purged" => \A d \in Device : nextInput'[r][d] >= nextInput[r][d]
    /\ InputJobInv => \A d \in Device :
         nextInput[r][d] # 0 /\ nextInput'[r][d] > nextInput[r][d]
           => d \in present[r] /\ (MayControl(d) \/ WasAuthorised(r, d))

\* Nothing happens to the counters of a room where its rows stay.
LEMMA CountersStay ==
    ASSUME RoomInv, NEW r \in Room, lease'[r] \in {lease[r], None}, nextInput'[r] = nextInput[r]
    PROVE  LeaseAbove(r) /\ InputsGoOn(r)
  <1>1. \A d \in Device : nextInput[r][d] \in Nat
    BY DEF RoomInv, RoomTypeOK
  <1> QED
    BY <1>1 DEF LeaseAbove, InputsGoOn

\* Only a grant makes a lease, and only a join and an accepted input move a
\* counter of a room that stays.
LEMMA CountersCommit ==
    ASSUME RoomInv, NEW t \in Task, Commit(t), NEW r \in Room
    PROVE  LeaseAbove(r) /\ InputsGoOn(r)
  <1> DEFINE Goal == LeaseAbove(r) /\ InputsGoOn(r)
  <1>2. job[t] # None => /\ job[t] \in Job /\ job[t].room \in Room /\ job[t].dev \in Device
    BY DEF RoomInv, RoomTypeOK
  <1>3. /\ room[r] \in RoomRow /\ room \in [Room -> RoomRow]
        /\ lease \in [Room -> Lease \union {None}]
        /\ nextInput \in [Room -> [Device -> Nat]]
        /\ auth \in [Task -> DeviceAuth \union {None}]
    BY DEF RoomInv, RoomTypeOK, AccessTypeOK
  <1>4. ASSUME NEW q \in Room, CreateRoom(t, q) PROVE Goal
    <2>1. PICK gone \in SUBSET {p \in Room : room[p].status = "closed"} :
            /\ room[q].status = "unused"
            /\ room' = [p \in Room |->
                  IF p = q THEN [status |-> "active", host |-> auth[t].dev,
                                 epoch |-> auth[t].epoch, nextOutput |-> 1, generation |-> 0,
                                 ahead |-> 0]
                  ELSE IF p \in gone THEN [room[p] EXCEPT !.status = "purged"] ELSE room[p]]
            /\ nextInput' = [p \in Room |->
                  IF p = q THEN [nextInput[p] EXCEPT ![auth[t].dev] = 1]
                  ELSE IF p \in gone THEN [d \in Device |-> 0] ELSE nextInput[p]]
            /\ lease' = [p \in Room |-> IF p \in gone THEN None ELSE lease[p]]
      BY <1>4 DEF CreateRoom
    <2>2. lease'[r] \in {lease[r], None}
      BY <2>1
    <2>3. CASE r = q
      <3>1. \A d \in Device : nextInput[r][d] = 0
        BY <2>1, <2>3 DEF RoomInv, RoomBooks, BookInv
      <3>2. \A d \in Device : nextInput'[r][d] \in {0, 1}
        BY <1>3, <2>1, <2>3, <3>1
      <3> QED
        BY <2>2, <3>1, <3>2 DEF LeaseAbove, InputsGoOn
    <2>4. CASE r # q /\ r \in gone
      <3>1. room'[r].status = "purged"
        BY <1>3, <2>1, <2>4 DEF RoomRow
      <3>2. \A d \in Device : nextInput[r][d] \in Nat /\ nextInput'[r][d] = 0
        BY <1>3, <2>1, <2>4
      <3> QED
        BY <2>2, <3>1, <3>2 DEF LeaseAbove, InputsGoOn
    <2>5. CASE r # q /\ r \notin gone
      BY <2>1, <2>2, <2>5, CountersStay
    <2> QED
      BY <2>3, <2>4, <2>5
  <1>5. ASSUME NEW q \in Room, JoinRoom(t, q) PROVE Goal
    <2>1. lease' = lease
          /\ nextInput' = [nextInput EXCEPT ![q][auth[t].dev] = InputAtJoin(q, auth[t].dev)]
      BY <1>5 DEF JoinRoom
    <2>2. \A d \in Device : nextInput'[r][d] \in {nextInput[r][d], InputAtJoin(r, d)}
      BY <1>3, <2>1
    <2>3. \A d \in Device : nextInput[r][d] \in Nat
      BY <1>3
    <2> QED
      BY <2>1, <2>2, <2>3 DEF LeaseAbove, InputsGoOn, InputAtJoin
  <1>6. CASE AcceptInput(t)
    <2> DEFINE q == job[t].room
               d == job[t].dev
    <2>1. /\ q \in Room /\ d \in Device /\ d \in present[q] /\ lease' = lease
          /\ lease[q] = [dev |-> d, generation |-> job[t].generation, live |-> TRUE]
      BY <1>2, <1>6 DEF AcceptInput, At
    <2>2. nextInput' = [nextInput EXCEPT ![q][d] = nextInput[q][d] + 1]
      BY <1>6 DEF AcceptInput
    <2>3. InputJobInv => MayControl(d) \/ WasAuthorised(q, d)
      <3>1. lease[q] # None /\ lease[q].dev = d
        <4>1. job[t].generation \in Nat
          BY <1>2, <1>6 DEF AcceptInput, At, Job
        <4>2. lease[q] \in Lease /\ lease[q].dev = d
          BY <2>1, <4>1 DEF Lease
        <4> QED
          BY <4>2, NoneRoomAssumption
      <3>2. CASE Active(q)
        BY <2>1, <3>1, <3>2 DEF RoomInv, RoomSafe, LeaseHolderAuthorised, ActiveRooms
      <3>3. CASE room[q].status = "closed"
        <4>1. BookInv(q) /\ room[q].epoch \in Nat /\ keyEpoch \in Nat
          BY <2>1, AccessAssumption DEF RoomInv, RoomBooks, RoomTypeOK, AccessTypeOK, RoomRow
        <4>2. room[q].epoch < keyEpoch
          BY <3>1, <3>3, <4>1 DEF BookInv
        <4>3. At(t, "input") /\ auth[t].role \in TerminalControl
          BY <1>6 DEF AcceptInput
        <4> QED
          BY <3>3, <4>2, <4>3 DEF InputJobInv, WasAuthorised
      <3>4. room[q].status \in {"active", "closed"}
        <4>1. BookInv(q) /\ UnusedInv /\ room[q] \in RoomRow
          BY <2>1 DEF RoomInv, RoomBooks, RoomSafe, RoomTypeOK
        <4>2. room[q].status \notin {"unused", "purged"}
          BY <2>1, <3>1, <4>1 DEF BookInv, UnusedInv
        <4> QED
          BY <4>1, <4>2 DEF RoomRow
      <3> QED
        BY <3>2, <3>3, <3>4 DEF Active
    <2>4. \A e \in Device : /\ nextInput[r][e] \in Nat
                            /\ \/ nextInput'[r][e] = nextInput[r][e]
                               \/ /\ r = q /\ e = d
                                  /\ nextInput'[r][e] = nextInput[r][e] + 1
      BY <1>3, <2>1, <2>2
    <2> QED
      BY <2>1, <2>3, <2>4 DEF LeaseAbove, InputsGoOn
  <1>7. CASE GrantControl(t)
    <2> DEFINE q == job[t].room
    <2>1. q \in Room /\ nextInput' = nextInput
      BY <1>2, <1>7 DEF GrantControl, At
    <2>2. CASE r = q
      <3>1. lease'[r].generation = room[r].generation + 1 /\ room[r].generation \in Nat
        BY <1>3, <1>7, <2>1, <2>2 DEF GrantControl, NextGeneration, RoomRow
      <3>2. \A d \in Device : nextInput[r][d] \in Nat
        BY <1>3
      <3> QED
        BY <2>1, <3>1, <3>2 DEF LeaseAbove, InputsGoOn
    <2>3. CASE r # q
      <3>1. lease'[r] = lease[r]
        BY <1>3, <1>7, <2>1, <2>3 DEF GrantControl
      <3> QED
        BY <2>1, <3>1, CountersStay
    <2> QED
      BY <2>2, <2>3
  <1>8. CASE CloseRoom(t) \/ RouteInvitation(t) \/ RevokeControl(t) \/ LeaveRoom(t) \/ AcceptOutput(t)
    <2>1. nextInput' = nextInput /\ lease'[r] \in {lease[r], None}
      BY <1>2, <1>3, <1>8
         DEF CloseRoom, RouteInvitation, RevokeControl, LeaveRoom, AcceptOutput, At
    <2> QED
      BY <2>1, CountersStay
  <1> QED
    BY <1>4, <1>5, <1>6, <1>7, <1>8 DEF Commit

\* No other step makes a lease or moves a counter, but for a purge.
LEMMA CountersStep ==
    ASSUME RoomInv, [RoomNext]_vars, NEW r \in Room
    PROVE  LeaseAbove(r) /\ InputsGoOn(r)
  <1> DEFINE Goal == LeaseAbove(r) /\ InputsGoOn(r)
  <1>1. RoomTypeOK /\ JobInv /\ lease \in [Room -> Lease \union {None}] /\ room[r] \in RoomRow
    BY DEF RoomInv, RoomTypeOK
  <1>2. lease' = lease /\ nextInput' = nextInput => Goal
    BY CountersStay
  <1>3. ASSUME NEW t \in Task, Check(t) PROVE Goal
    BY <1>1, <1>2, <1>3, CheckStep DEF RoomTypeOK, roomVars
  <1>4. ASSUME NEW t \in Task, Commit(t) PROVE Goal
    BY <1>4, CountersCommit
  <1>5. ASSUME NEW t \in Task, EndRequest(t) PROVE Goal
    <2>1. CASE UNCHANGED roomVars
      BY <1>2, <2>1 DEF roomVars
    <2>2. CASE PurgeRooms
      <3>1. lease'[r] = None /\ \A d \in Device : nextInput'[r][d] = 0
        BY <2>2 DEF PurgeRooms
      <3>2. CASE room[r].status = "unused"
        BY <3>1, <3>2 DEF RoomInv, RoomBooks, BookInv, LeaseAbove, InputsGoOn
      <3>3. CASE room[r].status # "unused"
        <4>1. room'[r].status = "purged"
          BY <1>1, <2>2, <3>3 DEF PurgeRooms, RoomRow
        <4>2. \A d \in Device : nextInput[r][d] \in Nat
          BY <1>1 DEF RoomTypeOK
        <4> QED
          BY <3>1, <4>1, <4>2 DEF LeaseAbove, InputsGoOn
      <3> QED
        BY <3>2, <3>3
    <2> QED
      BY <1>5, <2>1, <2>2 DEF EndRequest
  <1>6. ASSUME NEW q \in Room, ExpireLease(q) PROVE Goal
    <2>1. /\ nextInput' = nextInput
          /\ lease' = [lease EXCEPT ![q] = [lease[q] EXCEPT !.live = ~lease[q].live]]
      BY <1>6 DEF ExpireLease
    <2>2. \/ lease'[r] = lease[r]
          \/ /\ lease[r] # None /\ lease[r] \in Lease
             /\ lease'[r] = [lease[r] EXCEPT !.live = ~lease[r].live]
      BY <1>1, <1>6, <2>1 DEF ExpireLease
    <2>3. \/ lease'[r] = lease[r]
          \/ /\ lease[r] # None /\ lease'[r].generation = lease[r].generation
             /\ lease'[r].dev = lease[r].dev
      BY <2>2 DEF Lease
    <2>4. \A d \in Device : nextInput[r][d] \in Nat
      BY <1>1 DEF RoomTypeOK
    <2> QED
      BY <2>1, <2>3, <2>4 DEF LeaseAbove, InputsGoOn
  <1>7. CASE Expire
    BY <1>2, <1>6, <1>7 DEF Expire, ExpireRoomInvitation, SetClockBack
  <1>8. CASE ChangeRoster
    BY <1>2, <1>8, ChangeRosterStep DEF CloseWorkspaceRooms
  <1>9. CASE UseStore \/ UNCHANGED vars
    BY <1>2, <1>9 DEF UseStore, roomVars, vars
  <1> QED
    BY <1>3, <1>4, <1>5, <1>7, <1>8, <1>9 DEF RoomNext

\* docs/TEAM_SECURITY.md:77 and 93-94: no generation of a lease is used twice,
\* and no input sequence comes back while its room exists.
THEOREM CountersNeverRewindHolds == RoomSpec => CountersNeverRewind
  <1>1. RoomInv /\ [RoomNext]_vars =>
          [\A r \in Room :
             /\ lease'[r] # None =>
                  \/ lease[r] # None /\ lease'[r].generation = lease[r].generation
                                     /\ lease'[r].dev = lease[r].dev
                  \/ lease'[r].generation > room[r].generation
             /\ room'[r].status # "purged" =>
                  \A d \in Device : nextInput'[r][d] >= nextInput[r][d]]_vars
    BY CountersStep DEF LeaseAbove, InputsGoOn
  <1> QED
    BY <1>1, RoomInvCorrect, PTL DEF RoomSpec, CountersNeverRewind

\* docs/TEAM_SECURITY.md:78: input is accepted only of a participant that may control
\* the terminal at that moment, or, in a room that a roster change has closed while the
\* frame was on its way, of one that might when the room was open; process_frame does
\* not look at the status of the room.
THEOREM InputIsAuthorisedHolds == RoomSpec => InputIsAuthorised
  <1>1. RoomInv /\ InputJobInv /\ [RoomNext]_vars =>
          [\A r \in Room, d \in Device :
             nextInput[r][d] # 0 /\ nextInput'[r][d] > nextInput[r][d]
               => d \in present[r] /\ (MayControl(d) \/ WasAuthorised(r, d))]_vars
    BY CountersStep DEF InputsGoOn
  <1> QED
    BY <1>1, RoomInvCorrect, InputJobCorrect, PTL DEF RoomSpec, InputIsAuthorised
=============================================================================
