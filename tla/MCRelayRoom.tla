---------------------------- MODULE MCRelayRoom ----------------------------
(***************************************************************************)
(* RelayRoom for TLC: a founder that hosts, an operator, and two requests  *)
(* in flight.  A behaviour is about the control of one room, or about the  *)
(* output of two rooms; part says which, and bounds the other.  Behaviours *)
(* start from a roster that some acceptances have built, so that the       *)
(* epochs explored go to the rooms; where it is about output, the operator *)
(* is a newcomer that has not accepted its invitation yet.                 *)
(***************************************************************************)
EXTENDS RelayRoom, TLC

CONSTANTS f, a, t1, t2, i1, r1, r2, Parts

VARIABLE part

MCDevice == {f, a}
MCTask == {t1, t2}
MCInvitation == {i1}
MCRoom == {r1, r2}
MCSymmetry == Permutations(MCTask) \union Permutations(MCRoom)

MCParts == {"control", "output"}
MCControl == {"control"}

Members == IF part = "output" THEN {f} ELSE Device

Assembled ==
    /\ part \in Parts
    /\ workspace = "active"
    /\ keyEpoch = Cardinality(Members)
    /\ member = [d \in Device |->
                   [status |-> IF d \in Members THEN "active" ELSE "absent",
                    role |-> IF d = Founder THEN "owner" ELSE "operator"]]
    /\ device = [d \in Device |-> IF d \in Members THEN "active" ELSE "absent"]
    /\ invitation = [i \in Invitation |->
                       [dev |-> a, role |-> "operator",
                        accepted |-> part = "control", live |-> part = "output"]]
    /\ auth = [t \in Task |-> None]
    /\ inviting = {}
    /\ NoRooms

Doing(ops) == \E t \in Task : job[t] # None /\ job[t].op \in ops

\* Whether an accepted invitation is past its time makes no difference.
LapsedOnceAccepted(i) == i # None /\ i.accepted => ~i.live

InBounds ==
    IF part = "control"
    THEN /\ ~Doing({"output"})
         /\ Cardinality({r \in Room : room[r].status # "unused"}) <= 1
         /\ \A r \in Room : room[r].ahead = 0
         /\ \A i \in Invitation : LapsedOnceAccepted(invitation[i])
    ELSE /\ ~Doing({"invite", "counted", "leave", "grant", "granted", "input"})
         /\ keyEpoch <= 2
         /\ \A r \in Room : room[r].ahead \in {0, 3}

MCSpec == Assembled /\ [][RoomNext /\ UNCHANGED part /\ InBounds']_<<vars, part>>
=============================================================================
