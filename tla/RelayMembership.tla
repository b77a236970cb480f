--------------------------- MODULE RelayMembership ---------------------------
(***************************************************************************)
(* How a desktop becomes and stays a device of a workspace at the relay:   *)
(* team_relay.rs with the key store of team_share.rs on one side, the      *)
(* requests they send to store.rs on the other.  The desktop makes its     *)
(* identity first, then registers it; the relay may have registered it     *)
(* although the answer is lost, so the identity is written down with the   *)
(* invitation and used again by the next attempt.                          *)
(*                                                                         *)
(* The commands of the desktop run side by side (Job), with a request, a   *)
(* query or a call of the key store as one step; the database and the key  *)
(* store outlive the application.  A request may be lost, and so may its   *)
(* answer.  The relay's roster is a set of active devices: how it comes    *)
(* to change is the subject of RelayAccess.                                *)
(***************************************************************************)
EXTENDS Naturals, NoValue

CONSTANTS
    Fresh,           \* device ids the desktop may draw
    Peer, Other,     \* devices of other desktops
    Job,             \* commands that run at the same time
    InvitationLife,  \* 24 hours
    PendingLife,     \* 25 hours
    LastHour,        \* bound of the model: the last hour
    LastEpoch        \* bound of the model: the last epoch the others reach

ASSUME MembershipAssumption ==
    /\ Peer # Other /\ {Peer, Other} \cap Fresh = {} /\ None \notin Fresh
    /\ InvitationLife \in Nat /\ PendingLife \in Nat /\ InvitationLife < PendingLife
    /\ LastHour \in Nat /\ LastEpoch \in Nat \ {0}
    /\ None \notin [device : Fresh, born : 0..LastHour]

VARIABLES
    site,     \* the relay: the workspace's epoch (0: none), its active devices, and the
              \* device that accepted the invitation
    mine,     \* the desktop's database
    keys,     \* devices whose private keys are in the key store
    drawn,    \* ids drawn so far
    job,      \* the commands that run
    hour,
    spoiled   \* the relay refused the account, or a finished acceptance was not deleted

membershipVars == <<site, mine, keys, drawn, job, hour, spoiled>>

Rest == [op |-> "none", at |-> "idle", dev |-> None, epoch |-> 0, roster |-> {}]
NoWorkspace == [here |-> FALSE, device |-> None, epoch |-> 0, roster |-> {}]

MembershipTypeOK ==
    /\ site.epoch \in 0..(LastEpoch + 1) /\ site.roster \subseteq Fresh \union {Peer, Other}
    /\ site.accepted \in Fresh \union {None}
    /\ mine.profile \in BOOLEAN /\ mine.bound \in BOOLEAN
    /\ mine.pending # None => mine.pending.device \in Fresh /\ mine.pending.born \in 0..LastHour
    /\ keys \subseteq drawn /\ drawn \subseteq Fresh
    /\ \A j \in Job : job[j].dev \in Fresh \union {None}
    /\ hour \in 0..LastHour /\ spoiled \in BOOLEAN

\* The desktop owns a workspace that is not online, or holds an invitation to one that is.
MembershipInit ==
    /\ \E own \in BOOLEAN :
          /\ site = [epoch |-> IF own THEN 0 ELSE 1, roster |-> IF own THEN {} ELSE {Peer},
                     accepted |-> None]
          /\ mine = [profile |-> TRUE, bound |-> FALSE, pending |-> None,
                     workspace |-> IF own THEN [NoWorkspace EXCEPT !.here = TRUE, !.epoch = 1]
                                   ELSE NoWorkspace]
    /\ keys = {} /\ drawn = {} /\ hour = 0 /\ spoiled = FALSE
    /\ job = [j \in Job |-> Rest]

-----------------------------------------------------------------------------
At(j, op, at) == job[j].op \in op /\ job[j].at = at
Goes(j, at) == job' = [job EXCEPT ![j].at = at]
With(j, at, dev) == job' = [job EXCEPT ![j].at = at, ![j].dev = dev]
Ends(j) == job' = [job EXCEPT ![j] = Rest]

Local == <<mine, keys, drawn, hour, spoiled>>
Remote == <<site, hour, spoiled>>

Begin(j, op, at) ==
    /\ job[j] = Rest
    /\ job' = [job EXCEPT ![j] = [Rest EXCEPT !.op = op, !.at = at]]
    /\ UNCHANGED <<site, Local>>

(***************************************************************************)
(* The commands.  The account session is looked at first: that it ends is  *)
(* an answer of the relay.                                                 *)
(***************************************************************************)
EnsureDevice(j) == mine.workspace.here /\ mine.workspace.device = None /\ Begin(j, "device", "make")

Publish(j) ==
    /\ mine.profile /\ ~mine.bound /\ mine.workspace.here /\ mine.workspace.device # None
    /\ mine.workspace.roster = {mine.workspace.device}
    /\ job[j] = Rest
    /\ job' = [job EXCEPT ![j] = [Rest EXCEPT !.op = "publish", !.at = "bootstrap",
                                              !.dev = mine.workspace.device]]
    /\ UNCHANGED <<site, Local>>

\* The window disables its button while an acceptance runs.
Accept(j) ==
    /\ mine.profile /\ \A k \in Job : job[k].op # "accept"
    /\ Begin(j, "accept", "purge")

DeleteProfile(j) == mine.profile /\ ~mine.bound /\ Begin(j, "delete", "list")

\* sync_workspace, and what looks for the session of the device before a request of its
\* own: update_member, revoke_device and the requests of a room.
Bound(j, op) ==
    /\ mine.bound /\ mine.workspace.device # None
    /\ job[j] = Rest
    /\ job' = [job EXCEPT ![j] = [Rest EXCEPT !.op = op, !.at = "ensure",
                                              !.dev = mine.workspace.device]]
    /\ UNCHANGED <<site, Local>>

(***************************************************************************)
(* An identity: its keys are stored before the row that names it, and go   *)
(* again when the row cannot be written.                                   *)
(***************************************************************************)
\* One id is like another, so that the next one may be chosen.
DrawKeys(j, at) ==
    LET d == CHOOSE d \in Fresh \ drawn : TRUE IN
       /\ Fresh # drawn
       /\ drawn' = drawn \union {d} /\ keys' = keys \union {d} /\ With(j, at, d)
       /\ UNCHANGED <<mine, Remote>>

DropKeys(j, d) == keys' = keys \ {d} /\ Ends(j) /\ UNCHANGED <<mine, drawn, Remote>>

MakeDevice(j) == At(j, {"device"}, "make") /\ DrawKeys(j, "insert")

\* One active local device of a workspace (a unique index).
InsertDevice(j) ==
    LET d == job[j].dev IN
    /\ At(j, {"device"}, "insert")
    /\ \/ /\ mine.workspace.device = None
          /\ mine' = [mine EXCEPT !.workspace.device = d, !.workspace.roster = @ \union {d}]
          /\ Ends(j) /\ UNCHANGED <<keys, drawn, Remote>>
       \/ DropKeys(j, d)

\* Mutant: an identity is kept only as long as the invitation may still arrive.
PastInvitation(p) == hour + 1 >= p.born + InvitationLife

Expired(p) == hour >= p.born + PendingLife

PurgePending(j) ==
    /\ At(j, {"accept"}, "purge")
    /\ IF mine.pending # None /\ Expired(mine.pending)
       THEN mine' = [mine EXCEPT !.pending = None] /\ With(j, "purgeKeys", mine.pending.device)
       ELSE Goes(j, "find") /\ UNCHANGED mine
    /\ UNCHANGED <<keys, drawn, Remote>>

PurgeKeys(j) ==
    /\ At(j, {"accept"}, "purgeKeys")
    /\ keys' = keys \ {job[j].dev}
    /\ With(j, "find", None) /\ UNCHANGED <<mine, drawn, Remote>>

FindPending(j) ==
    /\ At(j, {"accept"}, "find")
    /\ IF mine.pending # None
       THEN With(j, "ask", mine.pending.device) /\ UNCHANGED <<mine, keys, drawn, Remote>>
       ELSE DrawKeys(j, "note")

\* The row has the hash of the invitation as its key, and needs the profile.
NotePending(j) ==
    LET d == job[j].dev IN
    /\ At(j, {"accept"}, "note")
    /\ \/ /\ mine.pending = None /\ mine.profile
          /\ mine' = [mine EXCEPT !.pending = [device |-> d, born |-> hour]]
          /\ Goes(j, "ask") /\ UNCHANGED <<keys, drawn, Remote>>
       \/ DropKeys(j, d)

-----------------------------------------------------------------------------
(***************************************************************************)
(* accept_workspace_invitation: once, and again for the same device.       *)
(***************************************************************************)
Welcome(d) ==
    /\ Peer \in site.roster /\ hour < InvitationLife
    /\ site.accepted = None \/ (site.accepted = d /\ d \in site.roster)

Enrol(d) ==
    site' = IF site.accepted = d THEN site
            ELSE [epoch |-> site.epoch + 1, roster |-> site.roster \union {d}, accepted |-> d]

\* The answer may be lost; so may the request (the second disjunct of Ask).
Answered(j, at) == (Goes(j, at) \/ Ends(j)) /\ UNCHANGED Local

AskAccepted(j) ==
    /\ At(j, {"accept"}, "ask") /\ Welcome(job[j].dev)
    /\ Enrol(job[j].dev) /\ Answered(j, "first")

AskRefused(j) ==
    /\ At(j, {"accept"}, "ask") /\ ~Welcome(job[j].dev)
    /\ Answered(j, "drop") /\ UNCHANGED site

\* authenticate_account finds the session at its end, or pushed out by later ones.
AccountRefused(j) ==
    /\ At(j, {"accept"}, "ask") /\ Goes(j, "drop") /\ spoiled' = TRUE
    /\ UNCHANGED <<site, mine, keys, drawn, hour>>

RequestLost(j) ==
    /\ job[j].at \in {"ask", "bootstrap", "challenge", "session", "request", "first", "second"}
    /\ Ends(j) /\ UNCHANGED <<site, Local>>

\* A refusal that is no failure of the network or the server: the identity is given up.
DropPending(j) ==
    /\ At(j, {"accept"}, "drop")
    /\ mine' = [mine EXCEPT !.pending = None]
    /\ Goes(j, "dropKeys") /\ UNCHANGED <<keys, drawn, Remote>>

DropPendingKeys(j) == At(j, {"accept"}, "dropKeys") /\ DropKeys(j, job[j].dev)

\* bootstrap_workspace; a conflict is taken for an earlier request whose answer was lost.
Bootstrap(j) ==
    LET d == job[j].dev IN
    /\ At(j, {"publish"}, "bootstrap")
    /\ IF site.epoch = 0
       THEN site' = [site EXCEPT !.epoch = 1, !.roster = {d}] /\ Answered(j, "first")
       ELSE Answered(j, "challenge") /\ UNCHANGED site

-----------------------------------------------------------------------------
(***************************************************************************)
(* The session of a device: the stored one if it lasts long enough, or a   *)
(* challenge and its answer.                                               *)
(***************************************************************************)
Ensure(j) ==
    /\ At(j, {"sync", "request"}, "ensure")
    /\ Goes(j, "request") \/ Goes(j, "challenge")
    /\ UNCHANGED <<site, Local>>

Challenge(j) ==
    /\ job[j].at = "challenge"
    /\ IF job[j].dev \in site.roster /\ job[j].dev \in keys THEN Goes(j, "session") ELSE Ends(j)
    /\ UNCHANGED <<site, Local>>

\* The new session is stored, or the command fails.
CreateSession(j) ==
    /\ job[j].at = "session"
    /\ \/ /\ job[j].dev \in site.roster
          /\ Goes(j, IF job[j].op \in {"accept", "publish"} THEN "first" ELSE "request")
       \/ Ends(j)
    /\ UNCHANGED <<site, Local>>

\* What the command is about: a sync has no request but that for the snapshot, a room's
\* request changes nothing here, and update_member or revoke_device is followed by a sync.
Request(j) ==
    /\ job[j].at = "request"
    /\ \/ job[j].op = "sync" /\ Goes(j, "first") /\ UNCHANGED site
       \/ job[j].op = "request" /\ Ends(j) /\ UNCHANGED site
       \/ /\ job[j].op = "request" /\ job[j].dev \in site.roster /\ site.epoch < LastEpoch
          /\ site' = [site EXCEPT !.epoch = @ + 1,
                        !.roster = IF Other \in @ THEN @ \ {Other} ELSE @ \union {Other}]
          /\ job' = [job EXCEPT ![j].op = "sync", ![j].at = "ensure"]
    /\ UNCHANGED Local

(***************************************************************************)
(* workspace_snapshot reads the workspace first, then members and devices. *)
(***************************************************************************)
ReadOrder == <<"epoch", "roster">>

ReadPart(j, part) ==
    IF part = "epoch" THEN [job[j] EXCEPT !.epoch = site.epoch]
    ELSE [job[j] EXCEPT !.roster = site.roster]

ReadFirst(j) ==
    /\ job[j].at = "first"
    /\ IF job[j].dev \in site.roster
       THEN job' = [job EXCEPT ![j] = [ReadPart(j, ReadOrder[1]) EXCEPT !.at = "second"]]
       ELSE Ends(j)
    /\ UNCHANGED <<site, Local>>

ReadSecond(j) ==
    /\ job[j].at = "second"
    /\ \/ job' = [job EXCEPT ![j] = [ReadPart(j, ReadOrder[2]) EXCEPT !.at = "apply"]]
       \/ Ends(j)
    /\ UNCHANGED <<site, Local>>

-----------------------------------------------------------------------------
(***************************************************************************)
(* The snapshot is applied in one transaction, if this device is in it:    *)
(* materialize_snapshot for a workspace that is not here yet,              *)
(* apply_existing_snapshot with or without a new binding.                  *)
(***************************************************************************)
Applies(j) ==
    LET d == job[j].dev IN
    /\ d \in job[j].roster
    /\ CASE job[j].op = "accept"  -> ~mine.workspace.here /\ mine.profile
         [] job[j].op = "publish" -> mine.workspace.device = d /\ ~mine.bound /\ mine.profile
         [] OTHER                 -> mine.workspace.device = d

Apply(j) ==
    /\ job[j].at = "apply"
    /\ \/ /\ Applies(j)
          /\ mine' = [mine EXCEPT !.bound = TRUE,
                        !.workspace = [here |-> TRUE, device |-> job[j].dev,
                                       epoch |-> job[j].epoch, roster |-> job[j].roster]]
          /\ IF job[j].op = "accept" THEN Goes(j, "finish") ELSE Ends(j)
       \/ Ends(j) /\ UNCHANGED mine
    /\ UNCHANGED <<keys, drawn, Remote>>

FinishAccept(j) ==
    /\ At(j, {"accept"}, "finish")
    /\ Ends(j)
    /\ \/ mine' = [mine EXCEPT !.pending = None] /\ UNCHANGED spoiled
       \/ spoiled' = TRUE /\ UNCHANGED mine
    /\ UNCHANGED <<site, keys, drawn, hour>>

(***************************************************************************)
(* delete_profile counts the bindings and lists the pending identities;    *)
(* the row goes with them, unless a binding has come to refer to it.       *)
(***************************************************************************)
ListPending(j) ==
    /\ At(j, {"delete"}, "list")
    /\ With(j, "remove", IF mine.pending = None THEN None ELSE mine.pending.device)
    /\ UNCHANGED <<site, Local>>

RemoveProfile(j) ==
    /\ At(j, {"delete"}, "remove")
    /\ IF ~mine.bound
       THEN mine' = [mine EXCEPT !.profile = FALSE, !.pending = None] /\ Goes(j, "unkey")
       ELSE Ends(j) /\ UNCHANGED mine
    /\ UNCHANGED <<keys, drawn, Remote>>

RemoveKeys(j) == At(j, {"delete"}, "unkey") /\ DropKeys(j, job[j].dev)

-----------------------------------------------------------------------------
(***************************************************************************)
(* The relay's other clients, time, and a crash.                            *)
(***************************************************************************)
OthersChange ==
    /\ site.epoch \in 1..(LastEpoch - 1)
    /\ \E roster \in {site.roster \union {Other}} \union {site.roster \ {d} : d \in site.roster \ {Peer}} :
          roster # site.roster /\ site' = [site EXCEPT !.epoch = @ + 1, !.roster = roster]
    /\ UNCHANGED <<job, Local>>

HourPasses == hour < LastHour /\ hour' = hour + 1 /\ UNCHANGED <<site, mine, keys, drawn, job, spoiled>>

Crash ==
    /\ \E j \in Job : job[j] # Rest
    /\ job' = [j \in Job |-> Rest]
    /\ spoiled' = (spoiled \/ \E j \in Job : job[j].at = "finish")
    /\ UNCHANGED <<site, mine, keys, drawn, hour>>

UserCommand(j) ==
    \/ EnsureDevice(j) \/ Publish(j) \/ Accept(j) \/ DeleteProfile(j)
    \/ \E op \in {"sync", "request"} : Bound(j, op)

Step(j) ==
    \/ MakeDevice(j) \/ InsertDevice(j)
    \/ PurgePending(j) \/ PurgeKeys(j) \/ FindPending(j) \/ NotePending(j)
    \/ AskAccepted(j) \/ AskRefused(j) \/ AccountRefused(j) \/ RequestLost(j)
    \/ DropPending(j) \/ DropPendingKeys(j) \/ Bootstrap(j)
    \/ Ensure(j) \/ Challenge(j) \/ CreateSession(j) \/ Request(j)
    \/ ReadFirst(j) \/ ReadSecond(j) \/ Apply(j) \/ FinishAccept(j)
    \/ ListPending(j) \/ RemoveProfile(j) \/ RemoveKeys(j)

MembershipNext ==
    \/ \E j \in Job : UserCommand(j) \/ Step(j)
    \/ OthersChange \/ HourPasses \/ Crash

MembershipSpec == MembershipInit /\ [][MembershipNext]_membershipVars

-----------------------------------------------------------------------------
(***************************************************************************)
(* A desktop whose epoch is that of the relay has the relay's roster: the  *)
(* snapshot is read in three queries, with changes between them, and two   *)
(* snapshots may be applied in the wrong order.                            *)
(***************************************************************************)
RosterMatchesEpoch ==
    mine.bound /\ mine.workspace.epoch = site.epoch => mine.workspace.roster = site.roster

(***************************************************************************)
(* A device that the relay has registered can prove who it is: its private *)
(* keys are here, whatever answer was lost and whatever crashed, until the *)
(* invitation is past or the profile deleted.                              *)
(***************************************************************************)
RegisteredKeepsKeys ==
    \A d \in Fresh \cap site.roster :
       /\ ~spoiled /\ mine.profile
       /\ hour < InvitationLife \/ mine.workspace.device = d
       => d \in keys

(***************************************************************************)
(* workspace_snapshot and accept_invitation: what the desktop has about a  *)
(* workspace is what the relay has about the desktop, although both change *)
(* by requests whose answers may be lost, late or out of order.  Two paths *)
(* of the code break it, and `spoiled` exempts both: an acceptance that    *)
(* was finished but whose row the application did not come to delete, or   *)
(* could not, costs the keys of the live device 25 hours later; and an     *)
(* account refused by the relay gives up an identity that an earlier, lost *)
(* answer had registered.                                                  *)
(***************************************************************************)
MemberAgreesWithRelay == RosterMatchesEpoch /\ RegisteredKeepsKeys
=============================================================================
