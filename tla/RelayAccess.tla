---------------------------- MODULE RelayAccess ----------------------------
(***************************************************************************)
(* The roster of one team workspace as the relay's SQLite store keeps it   *)
(* (services/team-relay/src/store.rs): its key epoch, its members and      *)
(* their devices, the pending workspace invitations, and the requests the  *)
(* relay is serving.                                                       *)
(*                                                                         *)
(* A handler runs in two parts that other handlers interleave with: the    *)
(* extractor resolves the bearer token to a DeviceAuth, a copy of the      *)
(* caller's role and of the key epoch at that moment, and the handler then *)
(* acts with that copy.  A Task is one such request in flight.  A SQLite   *)
(* transaction is one step: a writer that finds its snapshot overtaken     *)
(* fails and changes nothing.                                              *)
(*                                                                         *)
(* A member owns exactly one device: only bootstrap_workspace and          *)
(* accept_workspace_invitation insert devices, each one together with its  *)
(* member.  One element of Device therefore stands for both rows.          *)
(*                                                                         *)
(* A definition introduced by "Fault" is what a plausible mistake would    *)
(* make of the definition that follows it.  No specification uses it: it   *)
(* shows that a property would notice the mistake.                         *)
(***************************************************************************)
EXTENDS Integers, FiniteSets, NoValue

CONSTANTS
    Device,          \* devices, each with the member that owns it
    Founder,         \* the device that bootstraps the workspace
    Invitation,      \* workspace_invitations row ids
    Task,            \* requests the relay serves at the same time
    MaxMembers,      \* MAX_WORKSPACE_MEMBERS (256)
    MaxInvitations,  \* MAX_WORKSPACE_INVITATIONS (256)
    MaxEpoch         \* bound of the model: the last key epoch explored

ASSUME AccessAssumption ==
    /\ Founder \in Device
    /\ IsFiniteSet(Device)
    /\ MaxMembers \in Nat \ {0}
    /\ MaxInvitations \in Nat
    /\ MaxEpoch \in Nat \ {0}

Role == {"owner", "admin", "operator", "viewer"}

\* require_permission: the roles that hold each permission.  Every role holds
\* memberRead and terminalView.
MemberManage == {"owner", "admin"}
ShareManage == {"owner", "admin"}
TerminalControl == {"owner", "admin", "operator"}

DeviceAuth == [dev : Device, role : Role, epoch : Nat]
MemberRow == [role : Role, status : {"absent", "active", "removed"}]
InvitationRow == [dev : Device, role : Role \ {"owner"}, accepted : BOOLEAN, live : BOOLEAN]

ASSUME NoneAssumption == None \notin DeviceAuth /\ None \notin InvitationRow

VARIABLES
    workspace,  \* "active", or "deleted" once its row is gone
    keyEpoch,   \* workspaces.key_epoch
    member,     \* members: role and status, "absent" before the row exists
    device,     \* devices: "absent", "active" or "revoked"
    invitation, \* workspace_invitations, None where there is no row
    auth,       \* the DeviceAuth each task holds, None for an idle task
    inviting    \* tasks past the cap check of create_workspace_invitation

accessVars == <<workspace, keyEpoch, member, device, invitation, auth, inviting>>

(***************************************************************************)
(* What the queries read.                                                  *)
(***************************************************************************)
IsActive(d) == member[d].status = "active" /\ device[d] = "active"

MayControl(d) == IsActive(d) /\ member[d].role \in TerminalControl

ActiveMembers == {d \in Device : member[d].status = "active"}

ActiveOwners == {d \in ActiveMembers : member[d].role = "owner"}

\* The rows invitation_count counts once the purge has removed the expired.
PendingInvitations ==
    {i \in Invitation : invitation[i] # None /\ invitation[i].live /\ ~invitation[i].accepted}

Purged == [i \in Invitation |->
             IF invitation[i] # None /\ invitation[i].live THEN invitation[i] ELSE None]

(***************************************************************************)
(* bootstrap_workspace: a workspace at epoch 1 with one owner.             *)
(***************************************************************************)
AccessInit ==
    /\ workspace = "active"
    /\ keyEpoch = 1
    /\ member = [d \in Device |-> IF d = Founder THEN [role |-> "owner", status |-> "active"]
                                  ELSE [role |-> "viewer", status |-> "absent"]]
    /\ device = [d \in Device |-> IF d = Founder THEN "active" ELSE "absent"]
    /\ invitation = [i \in Invitation |-> None]
    /\ auth = [t \in Task |-> None]
    /\ inviting = {}

\* Fault: the device's own status is not looked at.
AuthenticateMember(t, d) ==
    /\ auth[t] = None
    /\ workspace = "active"
    /\ member[d].status = "active"
    /\ auth' = [auth EXCEPT ![t] = [dev |-> d, role |-> member[d].role, epoch |-> keyEpoch]]
    /\ UNCHANGED <<workspace, keyEpoch, member, device, invitation, inviting>>

(***************************************************************************)
(* authenticate_device: token, session, member, device and workspace must  *)
(* all be active; the role and epoch it returns are a copy.                *)
(***************************************************************************)
Authenticate(t, d) ==
    /\ auth[t] = None
    /\ workspace = "active"
    /\ IsActive(d)
    /\ auth' = [auth EXCEPT ![t] = [dev |-> d, role |-> member[d].role, epoch |-> keyEpoch]]
    /\ UNCHANGED <<workspace, keyEpoch, member, device, invitation, inviting>>

\* The request answers and its task is free again: the tail of every handler.
Answer(t) ==
    /\ auth' = [auth EXCEPT ![t] = None]
    /\ inviting' = inviting \ {t}

\* A check fails or the caller goes away: the request ends without effect.
Reject(t) ==
    /\ auth[t] # None
    /\ Answer(t)
    /\ UNCHANGED <<workspace, keyEpoch, member, device, invitation>>

\* Fault: the transaction forgets the epoch.
KeepEpoch == workspace = "active" /\ UNCHANGED keyEpoch

\* advance_epoch, of an active workspace only.  close_workspace_rooms always
\* follows it in the same transaction: RelayRoom adds that effect.
AdvanceEpoch ==
    /\ workspace = "active"
    /\ keyEpoch < MaxEpoch
    /\ keyEpoch' = keyEpoch + 1

(***************************************************************************)
(* create_workspace_invitation: three statements outside any transaction.  *)
(* The purge and the count come first, the insert when they allow it.      *)
(***************************************************************************)
CountInvitations(t) ==
    /\ auth[t] # None
    /\ t \notin inviting
    /\ auth[t].role \in MemberManage
    /\ invitation' = Purged
    /\ Cardinality(PendingInvitations) < MaxInvitations
    /\ inviting' = inviting \union {t}
    /\ UNCHANGED <<workspace, keyEpoch, member, device, auth>>

\* Nobody is invited as an owner, and an admin invites no admin.
MayInvite(t, r) == r # "owner" /\ ~(auth[t].role = "admin" /\ r = "admin")

InsertInvitation(t, i, d, r) ==
    /\ t \in inviting
    /\ workspace = "active"
    /\ MayInvite(t, r)
    /\ invitation[i] = None
    /\ invitation' = [invitation EXCEPT ![i] =
                        [dev |-> d, role |-> r, accepted |-> FALSE, live |-> TRUE]]
    /\ Answer(t)
    /\ UNCHANGED <<workspace, keyEpoch, member, device>>

\* The clock passes expires_at, or is set back before it.
ExpireInvitation(i) ==
    /\ invitation[i] # None
    /\ invitation' = [invitation EXCEPT ![i].live = ~@]
    /\ UNCHANGED <<workspace, keyEpoch, member, device, auth, inviting>>

(***************************************************************************)
(* accept_workspace_invitation, one transaction on an account session, so  *)
(* without a DeviceAuth.  A second acceptance only issues another session; *)
(* a member row that exists already makes the insert conflict.             *)
(***************************************************************************)
AcceptInvitation(i) ==
    LET row == invitation[i] IN
    /\ row # None
    /\ row.live
    /\ ~row.accepted
    /\ member[row.dev].status = "absent"
    /\ Cardinality(ActiveMembers) < MaxMembers
    /\ member' = [member EXCEPT ![row.dev] = [role |-> row.role, status |-> "active"]]
    /\ device' = [device EXCEPT ![row.dev] = "active"]
    /\ invitation' = [invitation EXCEPT ![i].accepted = TRUE]
    /\ AdvanceEpoch
    /\ UNCHANGED <<workspace, auth, inviting>>

\* Fault: it counts itself.
SomeOwnerStays(d, r, s) ==
    d \in ActiveOwners /\ (r # "owner" \/ s # "active") => Cardinality(ActiveOwners) > 0

(***************************************************************************)
(* update_member, one transaction; the caller's own rights are those of    *)
(* its DeviceAuth, the target's are read inside.                           *)
(***************************************************************************)
\* An active owner that stops being one leaves another behind.
OwnerStays(d, r, s) ==
    d \in ActiveOwners /\ (r # "owner" \/ s # "active") => Cardinality(ActiveOwners) > 1

UpdateMember(t, d, r, s) ==
    /\ auth[t] # None
    /\ t \notin inviting
    /\ auth[t].role \in MemberManage
    /\ member[d].status # "absent"
    /\ s \in {"active", "removed"}
    /\ auth[t].role # "owner" => member[d].role # "owner" /\ r # "owner"
    /\ ~(d = auth[t].dev /\ s = "removed")
    /\ OwnerStays(d, r, s)
    /\ member' = [member EXCEPT ![d] = [role |-> r, status |-> s]]
    /\ device' = IF s = "removed" /\ device[d] = "active"
                   THEN [device EXCEPT ![d] = "revoked"] ELSE device
    /\ AdvanceEpoch
    /\ Answer(t)
    /\ UNCHANGED <<workspace, invitation>>

(***************************************************************************)
(* revoke_device, one transaction.                                         *)
(***************************************************************************)
RevokeDevice(t, d) ==
    /\ auth[t] # None
    /\ t \notin inviting
    /\ auth[t].role \in MemberManage
    /\ device[d] = "active"
    /\ device' = [device EXCEPT ![d] = "revoked"]
    /\ AdvanceEpoch
    /\ Answer(t)
    /\ UNCHANGED <<workspace, member, invitation>>

(***************************************************************************)
(* delete_workspace: the row goes, and every row of the workspace with it  *)
(* (ON DELETE CASCADE).                                                    *)
(***************************************************************************)
DeleteWorkspace(t) ==
    /\ auth[t] # None
    /\ t \notin inviting
    /\ auth[t].role = "owner"
    /\ workspace = "active"
    /\ workspace' = "deleted"
    /\ member' = [d \in Device |-> [role |-> "viewer", status |-> "absent"]]
    /\ device' = [d \in Device |-> "absent"]
    /\ invitation' = [i \in Invitation |-> None]
    /\ Answer(t)
    /\ UNCHANGED keyEpoch

RosterStep ==
    \/ \E i \in Invitation : AcceptInvitation(i)
    \/ \E t \in Task, d \in Device :
          \/ \E r \in Role, s \in {"active", "removed"} : UpdateMember(t, d, r, s)
          \/ RevokeDevice(t, d)

AccessStep ==
    \/ \E t \in Task :
          \/ \E d \in Device : Authenticate(t, d)
          \/ CountInvitations(t)
          \/ \E i \in Invitation, d \in Device, r \in Role : InsertInvitation(t, i, d, r)
    \/ \E i \in Invitation : ExpireInvitation(i)

AccessNext ==
    \/ AccessStep
    \/ RosterStep
    \/ \E t \in Task : Reject(t) \/ DeleteWorkspace(t)

AccessSpec == AccessInit /\ [][AccessNext]_accessVars

(***************************************************************************)
(* Properties                                                              *)
(***************************************************************************)

\* The shape of every variable of the store.
AccessTypeOK ==
    /\ workspace \in {"active", "deleted"}
    /\ keyEpoch \in 1..MaxEpoch
    /\ member \in [Device -> MemberRow]
    /\ device \in [Device -> {"absent", "active", "revoked"}]
    /\ invitation \in [Invitation -> InvitationRow \union {None}]
    /\ auth \in [Task -> DeviceAuth \union {None}]
    /\ inviting \in SUBSET Task

\* docs/TEAM_SECURITY.md:49: a workspace always keeps an active owner, whichever
\* handlers race with authentications that have gone stale (update_member
\* counts the owners inside its transaction).
ActiveOwnerRemains == workspace = "active" => ActiveOwners # {}

\* docs/TEAM_RELAY.md:27-28: the key epoch names the roster.  A role, a member's
\* status or a device's status never changes while the epoch of a live
\* workspace stays, so a DeviceAuth whose epoch is current is current in full.
EpochNamesRoster ==
    [][workspace' = "active" /\ (member' # member \/ device' # device)
         => keyEpoch' = keyEpoch + 1]_accessVars

\* What EpochNamesRoster gives the handlers: the copy of the role a task holds
\* can be wrong only if the epoch it holds is wrong too, so a handler that
\* compares the epoch inside its transaction needs no second look at the role.
CurrentEpochMeansCurrentRole ==
    workspace = "active" =>
      \A t \in Task :
        auth[t] # None /\ auth[t].epoch = keyEpoch =>
          IsActive(auth[t].dev) /\ member[auth[t].dev].role = auth[t].role
=============================================================================
