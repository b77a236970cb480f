--------------------------- MODULE Desktop_proofs ---------------------------
(***************************************************************************)
(* What holds of the SSH connections of the desktop application, for any   *)
(* number of profiles, keys, operations, sessions, shells, forwards,       *)
(* starts, bytes and channels.  Transports (SshTransport): a strict        *)
(* connection has only approved host keys on its way, and what the pool    *)
(* hands out was alive.  Terminals (SshTerminal): no shell is left to      *)
(* nobody, and a terminal that is listed has a reader.  Forwarded          *)
(* connections (Forwarding): what is listed as running has not ended, a    *)
(* bridge loses nothing, and the X11 channels are as many as they may be.  *)
(***************************************************************************)
EXTENDS Forwarding, SshTransport, SshTerminal, FiniteSetTheorems, SequenceTheorems, TLAPS

(***************************************************************************)
(* Tunnels.  The invariant is inductive: a run leaves the list before it   *)
(* ends, by whichever way it ends.                                         *)
(***************************************************************************)
TunnelInv == TunnelTypeOK /\ ListedRunsLive

RunPlace ==
    {"loaded", "connecting", "thread", "asking", "accepting", "greeting", "opening", "ended"}
Started == [id : ForwardId, at : RunPlace, token : BOOLEAN]
RunState == {NoRun} \union Started

LEMMA TunnelTypes == TunnelTypeOK <=>
    /\ rows \subseteq ForwardId /\ failed \subseteq ForwardId
    /\ running \in [ForwardId -> Run \union {None}]
    /\ run \in [Run -> RunState]
BY Zenon DEF TunnelTypeOK, RunState, Started, RunPlace

\* What is not "none" is a run of some forward.
LEMMA RunIsStarted ==
    ASSUME TunnelTypeOK, NEW r \in Run, run[r].at # "none"
    PROVE  run[r] \in Started
BY TunnelTypes DEF RunState, NoRun

LEMMA StartedMoves ==
    ASSUME NEW s \in Started, NEW place \in RunPlace
    PROVE  [s EXCEPT !.at = place] \in Started
BY DEF Started

\* A run moves on: it is still the run of its forward, and lives if it is not at its end.
LEMMA RunMoves ==
    ASSUME TunnelInv, NEW r \in Run, run[r].at # "none", NEW place \in RunPlace \ {"loaded", "ended"},
           run' = [run EXCEPT ![r].at = place], UNCHANGED <<rows, running, failed>>
    PROVE  TunnelInv'
<1>1. run' \in [Run -> RunState]
  <2>1. run[r] \in Started /\ [run[r] EXCEPT !.at = place] \in RunState
    BY RunIsStarted, StartedMoves DEF TunnelInv, RunState
  <2> QED  BY <2>1, TunnelTypes DEF TunnelInv
<1>2. TunnelTypeOK'
  BY <1>1 DEF TunnelInv, TunnelTypeOK, RunState, Started, RunPlace
<1>3. ASSUME NEW f \in ForwardId, running[f] # None
      PROVE  run'[running[f]].at \notin {"none", "loaded", "ended"} /\ run'[running[f]].id = f
  <2>1. running[f] \in Run /\ run[running[f]] \in RunState
    BY <1>3, TunnelTypes DEF TunnelInv
  <2>2. run[running[f]].id = f /\ run[running[f]].at \notin {"none", "loaded", "ended"}
    BY <1>3 DEF TunnelInv, ListedRunsLive, Live
  <2> QED  BY <2>1, <2>2, TunnelTypes DEF TunnelInv, RunState, Started, RunPlace
<1> QED  BY <1>2, <1>3 DEF TunnelInv, ListedRunsLive, Live

\* A run ends, with or without an error.
LEMMA RunEnds ==
    ASSUME TunnelInv, NEW r \in Run, run[r].at # "none", NEW error \in BOOLEAN, EndRun(r, error)
    PROVE  TunnelInv'
<1>1. run' = [run EXCEPT ![r].at = "ended"] /\ rows' = rows
      /\ running' = [running EXCEPT ![run[r].id] = None] /\ failed' \subseteq ForwardId
  BY RunIsStarted DEF EndRun, Finish, TunnelInv, TunnelTypeOK, Started
<1>2. run' \in [Run -> RunState]
  <2>1. run[r] \in Started /\ [run[r] EXCEPT !.at = "ended"] \in RunState
    BY RunIsStarted, StartedMoves DEF TunnelInv, RunState, RunPlace
  <2> QED  BY <1>1, <2>1, TunnelTypes DEF TunnelInv
<1>3. TunnelTypeOK'
  BY <1>1, <1>2 DEF TunnelInv, TunnelTypeOK, RunState, Started, RunPlace
<1>4. ASSUME NEW f \in ForwardId, running'[f] # None
      PROVE  run'[running'[f]].at \notin {"none", "loaded", "ended"} /\ run'[running'[f]].id = f
  <2>1. f # run[r].id /\ running'[f] = running[f]
    BY <1>1, <1>4, TunnelTypes DEF TunnelInv
  <2>2. running[f] \in Run /\ running[f] # r /\ run[running[f]].id = f
        /\ run[running[f]].at \notin {"none", "loaded", "ended"}
    BY <1>4, <2>1, TunnelTypes DEF TunnelInv, ListedRunsLive, Live
  <2>3. run'[running[f]] = run[running[f]]
    BY <1>1, <2>2, TunnelTypes DEF TunnelInv
  <2> QED  BY <2>1, <2>2, <2>3
<1> QED  BY <1>3, <1>4 DEF TunnelInv, ListedRunsLive, Live


\* One run changes, and no forward is listed for it.
LEMMA RunBegins ==
    ASSUME TunnelInv, NEW r \in Run, NEW s \in RunState, run' = [run EXCEPT ![r] = s],
           \A f \in ForwardId : running[f] # r, UNCHANGED <<rows, running, failed>>
    PROVE  TunnelInv'
<1>1. run' \in [Run -> RunState]
  BY TunnelTypes DEF TunnelInv
<1>2. TunnelTypeOK'
  BY <1>1 DEF TunnelInv, TunnelTypeOK, RunState, Started, RunPlace
<1>3. ASSUME NEW f \in ForwardId, running[f] # None
      PROVE  run'[running[f]] = run[running[f]]
  BY <1>3, TunnelTypes DEF TunnelInv
<1> QED  BY <1>2, <1>3 DEF TunnelInv, ListedRunsLive, Live

\* A run that is not living is not listed.
LEMMA DeadIsUnlisted ==
    ASSUME TunnelInv, NEW r \in Run, run[r].at \in {"none", "loaded", "ended"},
           NEW f \in ForwardId
    PROVE  running[f] # r
BY ForwardAssumption DEF TunnelInv, ListedRunsLive, Live

LEMMA TunnelStep == TunnelInv /\ [TunnelNext]_tunnelVars => TunnelInv'
<1> SUFFICES ASSUME TunnelInv, [TunnelNext]_tunnelVars
             PROVE  TunnelInv'
  OBVIOUS
<1>1. ASSUME NEW f \in ForwardId, LoadForward(f)
      PROVE  TunnelInv'
  <2>1. PICK r \in FreeRuns : run' = [run EXCEPT ![r] = [NoRun EXCEPT !.id = f, !.at = "loaded"]]
    BY <1>1 DEF LoadForward
  <2>2. r \in Run /\ run[r].at = "none"
    BY <2>1 DEF FreeRuns
  <2>3. [NoRun EXCEPT !.id = f, !.at = "loaded"] \in RunState
    BY DEF NoRun, RunState, Started, RunPlace
  <2>4. UNCHANGED <<rows, running, failed>>
    BY <1>1 DEF LoadForward
  <2> QED  BY <2>1, <2>2, <2>3, <2>4, DeadIsUnlisted, RunBegins
<1>2. ASSUME NEW r \in Run, StartToken(r)
      PROVE  TunnelInv'
  <2>1. run[r] \in Started /\ run[r].at = "loaded"
    BY <1>2, RunIsStarted DEF StartToken, TunnelInv
  <2>2. CASE running[run[r].id] = None
    <3>1. /\ running' = [running EXCEPT ![run[r].id] = r] /\ rows' = rows
          /\ failed' \subseteq ForwardId /\ run' = [run EXCEPT ![r].at = "connecting"]
      BY <1>2, <2>2 DEF StartToken, TunnelInv, TunnelTypeOK
    <3>2. run' \in [Run -> RunState]
      <4>1. [run[r] EXCEPT !.at = "connecting"] \in RunState
        BY <2>1, StartedMoves DEF RunState, Started, RunPlace
      <4> QED  BY <3>1, <4>1, TunnelTypes DEF TunnelInv
    <3>3. TunnelTypeOK'
      BY <3>1, <3>2 DEF TunnelInv, TunnelTypeOK, RunState, Started, RunPlace
    <3>4. ASSUME NEW f \in ForwardId, running'[f] # None
          PROVE  /\ run'[running'[f]].at \notin {"none", "loaded", "ended"}
                 /\ run'[running'[f]].id = f
      <4>1. CASE f = run[r].id
        <5>1. running'[f] = r /\ run'[r].at = "connecting" /\ run'[r].id = f
          BY <2>1, <3>1, <4>1, TunnelTypes DEF TunnelInv, Started
        <5> QED  BY <5>1
      <4>2. CASE f # run[r].id
        <5>1. running'[f] = running[f] /\ running[f] # r /\ running[f] \in Run
          BY <2>1, <3>1, <3>4, <4>2, TunnelTypes, DeadIsUnlisted DEF TunnelInv
        <5>2. run'[running[f]] = run[running[f]]
          BY <3>1, <5>1, TunnelTypes DEF TunnelInv
        <5> QED  BY <3>4, <5>1, <5>2 DEF TunnelInv, ListedRunsLive, Live
      <4> QED  BY <4>1, <4>2
    <3> QED  BY <3>3, <3>4 DEF TunnelInv, ListedRunsLive, Live
  <2>3. CASE running[run[r].id] # None
    <3>1. run' = [run EXCEPT ![r].at = "ended"] /\ UNCHANGED <<rows, running, failed>>
      BY <1>2, <2>3 DEF StartToken
    <3>2. [run[r] EXCEPT !.at = "ended"] \in RunState
      BY <2>1, StartedMoves DEF RunState, Started, RunPlace
    <3> QED  BY <2>1, <3>1, <3>2, DeadIsUnlisted, RunBegins
  <2> QED  BY <2>2, <2>3
<1>3. ASSUME NEW r \in Run,
             \/ FailToConnect(r) \/ SpawnTunnel(r) \/ TunnelThread(r) \/ ServerListens(r)
             \/ AcceptClient(r) \/ ReadGreeting(r)
      PROVE  TunnelInv'
  <2> run[r].at # "none"
    BY <1>3 DEF FailToConnect, TunnelThread, AcceptClient, ReadGreeting, SpawnTunnel, Bind,
                ServerListens, LeaveLoop, OpenTarget
  <2>1. \/ \E error \in BOOLEAN : EndRun(r, error)
        \/ /\ \E place \in RunPlace \ {"loaded", "ended"} : run' = [run EXCEPT ![r].at = place]
           /\ UNCHANGED <<rows, running, failed>>
    BY <1>3 DEF FailToConnect, TunnelThread, AcceptClient, ReadGreeting, SpawnTunnel, Bind,
                ServerListens, LeaveLoop, OpenTarget, RunPlace
  <2> QED  BY <2>1, RunEnds, RunMoves
<1>4. ASSUME NEW f \in ForwardId, TakeToken(f), rows' \subseteq rows, UNCHANGED failed
      PROVE  TunnelInv'
  <2>1. running' = [running EXCEPT ![f] = None]
        /\ run' = [r \in Run |-> IF r = running[f] THEN [run[r] EXCEPT !.token = TRUE] ELSE run[r]]
    BY <1>4 DEF TakeToken
  <2>2. \A s \in Started : /\ [s EXCEPT !.token = TRUE] \in RunState
                           /\ [s EXCEPT !.token = TRUE].id = s.id
                           /\ [s EXCEPT !.token = TRUE].at = s.at
    BY DEF RunState, Started
  <2>6. \A r \in Run : r = running[f] => run[r] \in Started
    BY ForwardAssumption, RunIsStarted DEF TunnelInv, ListedRunsLive, Live
  <2>3. run' \in [Run -> RunState]
        /\ \A r \in Run : run'[r].id = run[r].id /\ run'[r].at = run[r].at
    BY <2>1, <2>2, <2>6, TunnelTypes DEF TunnelInv
  <2>4. TunnelTypeOK'
    BY <1>4, <2>1, <2>3 DEF TunnelInv, TunnelTypeOK, RunState, Started, RunPlace
  <2>5. ASSUME NEW g \in ForwardId, running'[g] # None
        PROVE  running'[g] = running[g] /\ running[g] \in Run
    BY <2>1, <2>5, TunnelTypes DEF TunnelInv
  <2> QED  BY <2>3, <2>4, <2>5 DEF TunnelInv, ListedRunsLive, Live
<1>5. CASE UNCHANGED tunnelVars
  BY <1>5 DEF tunnelVars, TunnelInv, TunnelTypeOK, ListedRunsLive, Live
<1>6. ASSUME NEW f \in ForwardId, StopTunnel(f) \/ DeleteTunnel(f)
      PROVE  TunnelInv'
  BY <1>4, <1>6 DEF StopTunnel, DeleteTunnel
<1> QED  BY <1>1, <1>2, <1>3, <1>5, <1>6 DEF TunnelNext

\* Tunnels: the types, and that a listed run is one of its forward that lives.
THEOREM TunnelInvHolds == TunnelSpec => []TunnelInv
<1>1. TunnelInit => TunnelInv
  BY ForwardAssumption DEF TunnelInit, TunnelInv, TunnelTypeOK, ListedRunsLive, NoRun
<1> QED  BY <1>1, TunnelStep, PTL DEF TunnelSpec

\* What the registry lists as running has not ended: `finish` unlists a run with its end.
THEOREM ListedRunsLiveHolds == TunnelSpec => []ListedRunsLive
<1>1. TunnelInv => ListedRunsLive
  BY DEF TunnelInv
<1> QED  BY <1>1, TunnelInvHolds, PTL

(***************************************************************************)
(* A bridge.  What was read from one end and not yet written is held; an   *)
(* end is at its end once all of it was read; the client's end is passed   *)
(* on when nothing of it is held.                                          *)
(***************************************************************************)
SideState == [sent : Nat, closed : BOOLEAN, taken : Nat, got : Nat]

HeldIsBetween ==
    /\ side["remote"].taken = side["client"].got + pump.held["client"]
    /\ side["client"].taken = side["remote"].got + pump.held["remote"]

ReadNoFurther == \A e \in BridgeEnd : side[e].taken <= side[e].sent

EofsAreTrue ==
    /\ pump.eof["remote"] => side["remote"].closed /\ side["remote"].taken = side["remote"].sent
    /\ pump.eofSent => pump.eof["client"] /\ pump.held["remote"] = 0
    /\ pump.at = "done" => pump.eof["remote"] /\ pump.held["client"] = 0

BridgeInv == BridgeTypeOK /\ HeldIsBetween /\ ReadNoFurther /\ EofsAreTrue

LEMMA Others == Other("client") = "remote" /\ Other("remote") = "client"
BY DEF Other, BridgeEnd

\* The fields of pump after a step that holds n more bytes for an end, or fewer.
LEMMA PumpHolds ==
    ASSUME BridgeTypeOK, NEW e \in BridgeEnd, NEW n \in Nat, pump' = [pump EXCEPT !.held[e] = n]
    PROVE  /\ pump' \in [held : [BridgeEnd -> Nat], eof : [BridgeEnd -> BOOLEAN],
                         eofSent : BOOLEAN, at : {"copying", "broken", "done"}]
           /\ pump'.held = [pump.held EXCEPT ![e] = n]
           /\ pump'.eof = pump.eof /\ pump'.eofSent = pump.eofSent /\ pump'.at = pump.at
BY DEF BridgeTypeOK

LEMMA BridgeStep == BridgeInv /\ [BridgeNext]_bridgeVars => BridgeInv'
<1> SUFFICES ASSUME BridgeInv, [BridgeNext]_bridgeVars
             PROVE  BridgeInv'
  OBVIOUS
<1> BridgeTypeOK
  BY DEF BridgeInv
<1>1. ASSUME NEW e \in BridgeEnd, PeerSends(e)
      PROVE  BridgeInv'
  <2>1. /\ side' \in [BridgeEnd -> SideState] /\ pump' = pump
        /\ \A o \in BridgeEnd : /\ side'[o].taken = side[o].taken /\ side'[o].got = side[o].got
                                /\ side'[o].sent >= side[o].sent
                                /\ side[o].closed => side'[o] = side[o]
    <3>1. side[e] \in SideState
      BY DEF BridgeTypeOK, SideState
    <3>2. side \in [BridgeEnd -> SideState] /\ side[e].closed = FALSE /\ pump' = pump
      BY <1>1 DEF PeerSends, BridgeTypeOK, SideState
    <3>3. CASE side' = [side EXCEPT ![e].sent = @ + 1]
      <4>1. [side[e] EXCEPT !.sent = side[e].sent + 1] \in SideState
        BY <3>1 DEF SideState
      <4> QED  BY <3>1, <3>2, <3>3, <4>1 DEF SideState
    <3>4. CASE side' = [side EXCEPT ![e].closed = TRUE]
      <4>1. [side[e] EXCEPT !.closed = TRUE] \in SideState
        BY <3>1 DEF SideState
      <4>2. side' = [side EXCEPT ![e] = [side[e] EXCEPT !.closed = TRUE]]
        BY <3>4
      <4>3. /\ [side[e] EXCEPT !.closed = TRUE].sent = side[e].sent
            /\ [side[e] EXCEPT !.closed = TRUE].taken = side[e].taken
            /\ [side[e] EXCEPT !.closed = TRUE].got = side[e].got
        BY <3>1 DEF SideState
      <4> HIDE DEF SideState
      <4>4. side' \in [BridgeEnd -> SideState] /\ side'[e] = [side[e] EXCEPT !.closed = TRUE]
            /\ \A o \in BridgeEnd \ {e} : side'[o] = side[o]
        BY <3>2, <4>1, <4>2, Zenon
      <4>5. \A o \in BridgeEnd : side[o].sent \in Nat
        BY DEF BridgeTypeOK
      <4>6. \A o \in BridgeEnd : o = e \/ side'[o] = side[o]
        BY <4>4
      <4>7. \A o \in BridgeEnd : side'[o].taken = side[o].taken /\ side'[o].got = side[o].got
        BY <4>3, <4>4, <4>6, Zenon
      <4>8. \A o \in BridgeEnd : side'[o].sent = side[o].sent
        BY <4>3, <4>4, <4>6, Zenon
      <4>9. \A o \in BridgeEnd : side[o].closed => side'[o] = side[o]
        BY <3>2, <4>6, Zenon
      <4>10. \A o \in BridgeEnd : side'[o].sent >= side[o].sent
        BY <4>5, <4>8
      <4> QED  BY <3>2, <4>4, <4>7, <4>9, <4>10, Zenon
    <3> QED  BY <1>1, <3>3, <3>4 DEF PeerSends
  <2> QED  BY <2>1 DEF BridgeInv, BridgeTypeOK, HeldIsBetween, ReadNoFurther, EofsAreTrue,
                       BridgeEnd, SideState
<1>2. ASSUME NEW e \in BridgeEnd, Pump(e)
      PROVE  BridgeInv'
  <2>1. ASSUME NEW n \in 1..(side[e].sent - side[e].taken),
               side' = [side EXCEPT ![e].taken = @ + n],
               pump' = [pump EXCEPT !.held[Other(e)] = n]
        PROVE  BridgeInv'
    <3>1. /\ side' \in [BridgeEnd -> SideState]
          /\ side'[e] = [side[e] EXCEPT !.taken = side[e].taken + n]
          /\ side'[Other(e)] = side[Other(e)]
      BY <2>1, Others DEF BridgeTypeOK, SideState, BridgeEnd
    <3>2. n \in Nat /\ Other(e) \in BridgeEnd
      BY Others DEF BridgeTypeOK, SideState, BridgeEnd
    <3>3. BridgeTypeOK'
      BY <2>1, <3>1, <3>2, PumpHolds DEF BridgeTypeOK, SideState
    <3>4. /\ pump'.held = [pump.held EXCEPT ![Other(e)] = n] /\ pump'.eof = pump.eof
          /\ pump'.eofSent = pump.eofSent /\ pump'.at = pump.at
      BY <2>1, <3>2, PumpHolds
    <3>5. pump.at = "copying" /\ pump.eof[e] = FALSE /\ pump.held[Other(e)] = 0
      BY <1>2 DEF Pump, BridgeTypeOK
    <3> QED  BY <3>1, <3>2, <3>3, <3>4, <3>5, Others
             DEF BridgeInv, BridgeTypeOK, HeldIsBetween, ReadNoFurther, EofsAreTrue, BridgeEnd
  <2>2. CASE AtEnd(e) /\ pump' = [pump EXCEPT !.eof[e] = TRUE] /\ side' = side
    BY <1>2, <2>2 DEF Pump, AtEnd, BridgeInv, BridgeTypeOK, HeldIsBetween, ReadNoFurther,
                      EofsAreTrue, BridgeEnd
  <2>3. CASE pump' = [pump EXCEPT !.at = "broken"] /\ side' = side
    BY <2>3 DEF BridgeInv, BridgeTypeOK, HeldIsBetween, ReadNoFurther, EofsAreTrue, BridgeEnd
  <2> QED  BY <1>2, <2>1, <2>2, <2>3 DEF Pump
<1>3. ASSUME NEW e \in BridgeEnd, Write(e)
      PROVE  BridgeInv'
  <2>1. ASSUME NEW n \in 1..pump.held[e],
               pump' = [pump EXCEPT !.held[e] = @ - n],
               side' = [side EXCEPT ![e].got = @ + n]
        PROVE  BridgeInv'
    <3>1. /\ side' \in [BridgeEnd -> SideState]
          /\ side'[e] = [side[e] EXCEPT !.got = side[e].got + n]
          /\ side'[Other(e)] = side[Other(e)]
      BY <2>1, Others DEF BridgeTypeOK, SideState, BridgeEnd
    <3>2. pump.held[e] - n \in Nat
      BY DEF BridgeTypeOK
    <3>3. BridgeTypeOK'
      BY <2>1, <3>1, <3>2, PumpHolds DEF BridgeTypeOK, SideState
    <3>4. /\ pump'.held = [pump.held EXCEPT ![e] = pump.held[e] - n] /\ pump'.eof = pump.eof
          /\ pump'.eofSent = pump.eofSent /\ pump'.at = pump.at
      BY <2>1, <3>2, PumpHolds
    <3>5. pump.at = "copying" /\ pump.held[e] > 0
      BY <1>3 DEF Write
    <3> QED  BY <3>1, <3>2, <3>3, <3>4, <3>5, Others
             DEF BridgeInv, BridgeTypeOK, HeldIsBetween, ReadNoFurther, EofsAreTrue, BridgeEnd
  <2>2. CASE pump' = [pump EXCEPT !.at = "broken"] /\ side' = side
    BY <2>2 DEF BridgeInv, BridgeTypeOK, HeldIsBetween, ReadNoFurther, EofsAreTrue, BridgeEnd
  <2> QED  BY <1>3, <2>1, <2>2 DEF Write
<1>4. CASE PassEof
  BY <1>4 DEF PassEof, BridgeInv, BridgeTypeOK, HeldIsBetween, ReadNoFurther, EofsAreTrue,
              BridgeEnd
<1>5. CASE EndBridge
  BY <1>5 DEF EndBridge, RemoteDone, BridgeInv, BridgeTypeOK, HeldIsBetween, ReadNoFurther,
              EofsAreTrue, BridgeEnd
<1>6. CASE UNCHANGED bridgeVars
  BY <1>6 DEF bridgeVars, BridgeInv, BridgeTypeOK, HeldIsBetween, ReadNoFurther, EofsAreTrue
<1> QED  BY <1>1, <1>2, <1>3, <1>4, <1>5, <1>6 DEF BridgeNext

\* A bridge: the types, where every byte is, and that the ends it knows of are ends.
THEOREM BridgeInvHolds == BridgeSpec => []BridgeInv
<1>1. BridgeInit => BridgeInv
  BY DEF BridgeInit, BridgeInv, BridgeTypeOK, HeldIsBetween, ReadNoFurther, EofsAreTrue, BridgeEnd
<1> QED  BY <1>1, BridgeStep, PTL DEF BridgeSpec

\* A bridge that ends in good order has written all the remote end sent, and the remote
\* end hears of the client's end after its last byte.
THEOREM BridgeLosesNothingHolds == BridgeSpec => []BridgeLosesNothing
<1>1. BridgeInv => BridgeLosesNothing
  BY DEF BridgeInv, BridgeTypeOK, HeldIsBetween, EofsAreTrue, BridgeLosesNothing, BridgeEnd
<1> QED  BY <1>1, BridgeInvHolds, PTL

(***************************************************************************)
(* X11.                                                                    *)
(***************************************************************************)
LEMMA BridgedFinite == IsFiniteSet(Bridged) /\ Cardinality(Bridged) \in Nat
BY XChannelAssumption, FS_Subset, FS_CardinalityType DEF Bridged

\* A step that bridges no further channel leaves the limit kept.
LEMMA BridgedShrinks ==
    ASSUME X11TypeOK, xchan' \in [XChannel -> {"none", "offered", "setup", "open", "ended"}],
           \A c \in XChannel : xchan'[c] \in {"setup", "open"} => xchan[c] \in {"setup", "open"}
    PROVE  Cardinality(Bridged') <= MaxXChannels
<1>1. Bridged' \subseteq Bridged
  BY DEF Bridged
<1>2. Cardinality(Bridged') <= Cardinality(Bridged) /\ Cardinality(Bridged') \in Nat
  BY <1>1, BridgedFinite, FS_Subset, FS_CardinalityType
<1> QED  BY <1>2, BridgedFinite, XChannelAssumption DEF X11TypeOK

LEMMA X11Step == X11TypeOK /\ [X11Next]_x11Vars => X11TypeOK'
<1> SUFFICES ASSUME X11TypeOK, [X11Next]_x11Vars
             PROVE  X11TypeOK'
  OBVIOUS
<1>1. ASSUME NEW c \in XChannel, Dispatch(c), Admits(c)
      PROVE  X11TypeOK'
  <2>1. xchan' = [xchan EXCEPT ![c] = "setup"] /\ xchan[c] = "offered"
        /\ UNCHANGED <<xstop, dispatcher, reached>>
    BY <1>1 DEF Dispatch
  <2>2. Bridged' = Bridged \union {c}
    BY <2>1 DEF Bridged, X11TypeOK
  <2>3. Cardinality(Bridged') <= Cardinality(Bridged) + 1
    BY <2>2, BridgedFinite, FS_AddElement
  <2>4. Cardinality(Bridged') \in Nat
    BY <2>2, BridgedFinite, FS_AddElement, FS_CardinalityType
  <2> QED  BY <1>1, <2>1, <2>3, <2>4, BridgedFinite, XChannelAssumption DEF Admits, X11TypeOK
<1>2. ASSUME NEW c \in XChannel,
             \/ OfferChannel(c) \/ SetUp(c) \/ EndChannel(c)
             \/ Dispatch(c) /\ ~Admits(c)
      PROVE  X11TypeOK'
  <2>1. xchan' \in [XChannel -> {"none", "offered", "setup", "open", "ended"}]
        /\ \A d \in XChannel : xchan'[d] \in {"setup", "open"} => xchan[d] \in {"setup", "open"}
    BY <1>2 DEF OfferChannel, SetUp, EndChannel, Dispatch, X11TypeOK
  <2>2. UNCHANGED <<xstop, dispatcher>> /\ reached' \subseteq XChannel
    BY <1>2 DEF OfferChannel, SetUp, EndChannel, Dispatch, X11TypeOK
  <2> QED  BY <2>1, <2>2, BridgedShrinks DEF X11TypeOK
<1>3. CASE StopDispatching \/ DropForwarder \/ UNCHANGED x11Vars
  <2>1. UNCHANGED <<xchan, reached>> /\ xstop' \in BOOLEAN /\ dispatcher' \in {"waiting", "ended"}
    BY <1>3 DEF StopDispatching, DropForwarder, x11Vars, X11TypeOK
  <2> QED  BY <2>1, BridgedShrinks DEF X11TypeOK
<1> QED  BY <1>1, <1>2, <1>3 DEF X11Next

\* No more channels than MAX_X11_CHANNELS reach the X server at a time.
THEOREM X11TypeOKHolds == X11Spec => []X11TypeOK
<1>1. X11Init => X11TypeOK
  <2> SUFFICES ASSUME X11Init
               PROVE  X11TypeOK
    OBVIOUS
  <2>1. Bridged = {}
    BY DEF X11Init, Bridged
  <2>2. Cardinality(Bridged) = 0
    BY <2>1, FS_EmptySet
  <2>3. Cardinality(Bridged) <= MaxXChannels
    BY <2>2, XChannelAssumption
  <2> QED  BY <2>3, Zenon DEF X11Init, X11TypeOK
<1> QED  BY <1>1, X11Step, PTL DEF X11Spec

(***************************************************************************)
(* SSH transports.                                                         *)
(*                                                                         *)
(* A transport is the way of the operation that made it, and that          *)
(* operation keeps its way for good: whoever holds the transport later,    *)
(* and the pool, hold a way that leads to the host of their key.  A way    *)
(* grows by hops whose key was checked, against a record that only trusted *)
(* keys get into unless the host takes the first key it shows.             *)
(***************************************************************************)
Made(t) == op[t].place \in {"using", "returning", "done"}
LeadsTo(t, c) == op[t].way # <<>> /\ op[t].way[1].hop = c

\* The key and the hops of an operation.
PathOK(r) ==
    /\ r.place \in {"queued", "choosing"} => r.key \in PoolKey
    /\ r.place \in Connecting => r.key \in ConnKey /\ r.chain # <<>> /\ r.chain[1] = r.key[1]

Leads(r) ==
    r.place \in {"using", "returning"} =>
        /\ r.key \in ConnKey /\ r.lease \in Op
        /\ Made(r.lease) /\ LeadsTo(r.lease, r.key[1])

Approved(h, key) == h \in AcceptNew \/ key \in approved[h]
LastHop(r) == r.chain[Len(r.chain)]

\* The hop an operation is at, once its key is checked, and those behind it.
HopsApproved(r) ==
    /\ r.place = "trusting" => LastHop(r) \in AcceptNew
    /\ r.place = "authenticating" => Approved(LastHop(r), r.seen)
    /\ \A i \in DOMAIN r.way : Approved(r.way[i].hop, r.way[i].key)

OpsOK == \A o \in Op : PathOK(op[o]) /\ Leads(op[o]) /\ HopsApproved(op[o])

IdleLeads ==
    \A k \in PoolKey : \A i \in DOMAIN idle[k] : Made(idle[k][i]) /\ LeadsTo(idle[k][i], k[1])

RecordsApproved == \A h \in Conn : known[h] = None \/ Approved(h, known[h])

\* Every version is a change that was counted, and so will be the one that is being written.
VersionsCounted ==
    \A c \in Conn : version[c] + (IF writing = None THEN 0 ELSE 1) <= edits + 1

PoolInv == PoolTypeOK /\ OpsOK /\ IdleLeads /\ RecordsApproved /\ VersionsCounted

\* The record of an operation that has not begun, and of one that has failed.
LEMMA NewOpState == NewOp \in OpState /\ [NewOp EXCEPT !.place = "failed"] \in OpState
<1>1. <<>> \in Seq(Conn) /\ <<>> \in Seq(Hop)
  OBVIOUS
<1>2. {"new", "failed"} \subseteq OpPlace
  BY DEF OpPlace
<1> QED  BY <1>1, <1>2 DEF NewOp, OpState

\* One operation moves on, and the pool with it: an operation that made a transport keeps
\* its way.
LEMMA OpChanges ==
    ASSUME PoolTypeOK, OpsOK, NEW o \in Op, NEW x \in OpState,
           op' = [op EXCEPT ![o] = x],
           Made(o) => x.place \in {"using", "returning", "done"} /\ x.way = op[o].way,
           PathOK(x), HopsApproved(x), approved' = approved,
           x.place \in {"using", "returning"} =>
               /\ x.key \in ConnKey /\ x.lease \in Op
               /\ \/ x.lease = o /\ x.way # <<>> /\ x.way[1].hop = x.key[1]
                  \/ Made(x.lease) /\ LeadsTo(x.lease, x.key[1]),
           \A k \in PoolKey : \A i \in DOMAIN idle'[k] :
               Made(idle'[k][i]) /\ LeadsTo(idle'[k][i], k[1]),
           idle' \in [PoolKey -> Seq(Op)]
    PROVE  OpsOK' /\ IdleLeads'
<1>1. op \in [Op -> OpState] /\ op' \in [Op -> OpState]
      /\ op'[o] = x /\ \A q \in Op \ {o} : op'[q] = op[q]
  BY DEF PoolTypeOK
<1>2. \A t \in Op : \A c : Made(t) /\ LeadsTo(t, c) => Made(t)' /\ (op'[t].way # <<>> /\ op'[t].way[1].hop = c)
  BY <1>1, Zenon DEF Made, LeadsTo
<1>3. \A q \in Op : PathOK(op[q])' /\ HopsApproved(op[q])'
  BY <1>1, Zenon DEF OpsOK, PathOK, HopsApproved, Approved, LastHop
<1>4. \A q \in Op : Leads(op[q])'
  <2>1. ASSUME NEW q \in Op \ {o}
        PROVE  Leads(op[q])'
    BY <1>1, <1>2, <2>1 DEF OpsOK, Leads, LeadsTo
  <2>2. Leads(op[o])'
    <3>1. ASSUME x.place \in {"using", "returning"}
          PROVE  x.key \in ConnKey /\ x.lease \in Op /\ Made(x.lease)' /\ LeadsTo(x.lease, x.key[1])'
      BY <1>1, <1>2, <3>1, Zenon DEF Made, LeadsTo
    <3> QED  BY <1>1, <3>1 DEF Leads
  <2> QED  BY <2>1, <2>2
<1>5. IdleLeads'
  BY <1>2 DEF IdleLeads, LeadsTo
<1> QED  BY <1>3, <1>4, <1>5 DEF OpsOK

\* An operation that made no transport and has none is given up.
LEMMA OpFails ==
    ASSUME PoolTypeOK, OpsOK, NEW o \in Op, FailOp(o), ~Made(o), approved' = approved,
           idle' \in [PoolKey -> Seq(Op)],
           \A k \in PoolKey : \A i \in DOMAIN idle'[k] :
               Made(idle'[k][i]) /\ LeadsTo(idle'[k][i], k[1])
    PROVE  op' \in [Op -> OpState] /\ OpsOK' /\ IdleLeads'
<1> DEFINE x == [NewOp EXCEPT !.place = "failed"]
<1>1. x \in OpState /\ x.place = "failed" /\ x.way = <<>>
  BY NewOpState DEF NewOp
<1>2. op' = [op EXCEPT ![o] = x]
  BY DEF FailOp
<1> HIDE DEF x
<1>3. PathOK(x) /\ HopsApproved(x)
  BY <1>1 DEF PathOK, HopsApproved, Connecting
<1>4. op' \in [Op -> OpState]
  BY <1>1, <1>2 DEF PoolTypeOK
<1> QED  BY <1>1, <1>2, <1>3, <1>4, OpChanges

\* The fields of an operation's record when its place changes.
LEMMA PlaceChanges ==
    ASSUME NEW r \in OpState, NEW place \in OpPlace
    PROVE  /\ [r EXCEPT !.place = place] \in OpState
           /\ [r EXCEPT !.place = place].place = place
           /\ [r EXCEPT !.place = place].key = r.key
           /\ [r EXCEPT !.place = place].chain = r.chain
           /\ [r EXCEPT !.place = place].way = r.way
           /\ [r EXCEPT !.place = place].seen = r.seen
           /\ [r EXCEPT !.place = place].lease = r.lease
           /\ [r EXCEPT !.place = place].gate = r.gate
BY DEF OpState

\* An operation goes on to its next place with what it has.
LEMMA OpMoves ==
    ASSUME PoolTypeOK, OpsOK, NEW o \in Op, NEW place \in OpPlace, OpTo(o, place),
           Made(o) => place \in {"using", "returning", "done"},
           place \in {"using", "returning"} => op[o].place \in {"using", "returning"},
           place \in {"queued", "choosing"} => op[o].place \in {"queued", "choosing"},
           place \in Connecting => op[o].place \in Connecting,
           place = "trusting" => LastHop(op[o]) \in AcceptNew,
           place = "authenticating" => Approved(LastHop(op[o]), op[o].seen),
           approved' = approved, idle' \in [PoolKey -> Seq(Op)],
           \A k \in PoolKey : \A i \in DOMAIN idle'[k] :
               Made(idle'[k][i]) /\ LeadsTo(idle'[k][i], k[1])
    PROVE  op' \in [Op -> OpState] /\ OpsOK' /\ IdleLeads'
<1> DEFINE x == [op[o] EXCEPT !.place = place]
<1>0. op[o] \in OpState
  BY DEF PoolTypeOK
<1>1. /\ x \in OpState /\ x.place = place /\ x.key = op[o].key /\ x.chain = op[o].chain
      /\ x.way = op[o].way /\ x.seen = op[o].seen /\ x.lease = op[o].lease
  BY <1>0, PlaceChanges
<1>2. op' = [op EXCEPT ![o] = x]
  BY DEF OpTo
<1> HIDE DEF x
<1>3. PathOK(x) /\ HopsApproved(x)
  BY <1>1 DEF OpsOK, PathOK, HopsApproved, LastHop
<1>4. op' \in [Op -> OpState]
  BY <1>1, <1>2 DEF PoolTypeOK
<1>5. x.place \in {"using", "returning"} =>
          x.key \in ConnKey /\ x.lease \in Op /\ Made(x.lease) /\ LeadsTo(x.lease, x.key[1])
  BY <1>1 DEF OpsOK, Leads
<1> QED  BY <1>1, <1>2, <1>3, <1>4, <1>5, OpChanges

\* An operation or the pool has changed, and no row.
LEMMA ConfigStays ==
    ASSUME PoolInv, UNCHANGED configVars, op' \in [Op -> OpState], OpsOK', IdleLeads',
           idle' \in [PoolKey -> Seq(Op)], \A k \in PoolKey : Len(idle'[k]) <= MaxIdle,
           gate' \in [PoolKey -> Op \union {None}]
    PROVE  PoolInv'
<1>1. PoolTypeOK'
  BY Zenon DEF PoolInv, PoolTypeOK, configVars
<1>2. RecordsApproved' /\ VersionsCounted'
  BY Zenon DEF PoolInv, RecordsApproved, VersionsCounted, Approved, configVars
<1> QED  BY <1>1, <1>2 DEF PoolInv

\* What is left in the pool when the transports of a profile, or all of them, are dropped.
LEMMA Invalidating ==
    ASSUME PoolInv, (\E c : invalidate(c)) \/ clear
    PROVE  /\ idle' \in [PoolKey -> Seq(Op)] /\ \A k \in PoolKey : Len(idle'[k]) <= MaxIdle
           /\ gate' \in [PoolKey -> Op \union {None}]
           /\ \A k \in PoolKey : \A i \in DOMAIN idle'[k] :
                  Made(idle'[k][i]) /\ LeadsTo(idle'[k][i], k[1])
<1>1. <<>> \in Seq(Op) /\ Len(<<>>) <= MaxIdle /\ DOMAIN <<>> = {}
  BY TransportAssumption
<1>2. /\ idle' \in [PoolKey -> Seq(Op)] /\ \A k \in PoolKey : idle'[k] \in {<<>>, idle[k]}
      /\ gate' \in [PoolKey -> Op \union {None}]
  BY <1>1, Zenon DEF invalidate, clear, Invalidated, PoolInv, PoolTypeOK
<1>3. \A k \in PoolKey : Len(idle[k]) <= MaxIdle
  BY DEF PoolInv, PoolTypeOK
<1>4. \A k \in PoolKey : Len(idle'[k]) <= MaxIdle
  BY <1>1, <1>2, <1>3, Zenon
<1>5. ASSUME NEW k \in PoolKey, NEW i \in DOMAIN idle'[k]
      PROVE  Made(idle'[k][i]) /\ LeadsTo(idle'[k][i], k[1])
  <2>1. idle'[k] = idle[k]
    BY <1>1, <1>2, <1>5
  <2> QED  BY <1>5, <2>1, Zenon DEF PoolInv, IdleLeads
<1> QED  BY <1>2, <1>4, <1>5

LEMMA KeysOfProfiles == \A k \in ConnKey : k[1] \in Conn
BY DEF ConnKey

LEMMA PoolKeys == PoolKey \subseteq ConnKey
BY DEF PoolKey, ConnKey, LeaseKind

\* The steps that leave the pool alone.
LEMMA IdleStays ==
    ASSUME PoolInv, UNCHANGED <<idle, gate, configVars>>,
           op' \in [Op -> OpState], OpsOK', IdleLeads'
    PROVE  PoolInv'
BY ConfigStays DEF PoolInv, PoolTypeOK

LEMMA IdleAsItIs ==
    ASSUME PoolInv, idle' = idle
    PROVE  /\ idle' \in [PoolKey -> Seq(Op)]
           /\ \A k \in PoolKey : \A i \in DOMAIN idle'[k] :
                  Made(idle'[k][i]) /\ LeadsTo(idle'[k][i], k[1])
BY DEF PoolInv, PoolTypeOK, IdleLeads

LEMMA GivingUp ==
    ASSUME PoolInv, NEW o \in Op,
           HopFails(o) \/ GateTimeout(o) \/ AcquireTimeout(o)
    PROVE  PoolInv'
<1>1. ~Made(o) /\ FailOp(o) /\ UNCHANGED configVars
  BY DEF Made, HopFails, GateTimeout, AcquireTimeout, OpAt, Connecting
<1>2. PoolTypeOK /\ OpsOK /\ approved' = approved
  BY <1>1 DEF PoolInv, configVars
<1>3. CASE HopFails(o) \/ GateTimeout(o)
  <2>1. UNCHANGED idle /\ gate' \in [PoolKey -> Op \union {None}]
    BY <1>3 DEF HopFails, GateTimeout, PoolInv, PoolTypeOK
  <2>2. \A k \in PoolKey : Len(idle'[k]) <= MaxIdle
    BY <2>1 DEF PoolInv, PoolTypeOK
  <2> QED  BY <1>1, <1>2, <2>1, <2>2, IdleAsItIs, OpFails, ConfigStays
<1>4. CASE AcquireTimeout(o)
  <2>1. \E c : invalidate(c)
    BY <1>4 DEF AcquireTimeout
  <2> QED  BY <1>1, <1>2, <2>1, Invalidating, OpFails, ConfigStays
<1> QED  BY <1>3, <1>4

\* The steps of one place to the next with nothing new.
LEMMA GoingOn ==
    ASSUME PoolInv, NEW o \in Op, NEW succeeds \in BOOLEAN,
           GatePermit(o) \/ VerifyHost(o) \/ FinishOp(o, succeeds)
    PROVE  PoolInv'
<1>1. PoolTypeOK /\ OpsOK /\ UNCHANGED <<idle, gate, configVars>> /\ approved' = approved
  BY DEF PoolInv, GatePermit, VerifyHost, FinishOp, configVars
<1>2. CASE VerifyHost(o) /\ ~FailOp(o)
  <2>1. (OpTo(o, "trusting") /\ HopOf(o) \in AcceptNew) \/ OpTo(o, "authenticating")
    BY <1>2 DEF VerifyHost
  <2>2. op[o].place = "verifying" /\ LastHop(op[o]) = HopOf(o)
    BY <1>2 DEF VerifyHost, OpAt, LastHop, HopOf
  <2>3. op[o].chain # <<>> /\ op[o].chain \in Seq(Conn)
    BY <1>1, <2>2 DEF OpsOK, PathOK, Connecting, PoolTypeOK, OpState
  <2>4. HopOf(o) \in Conn
    BY <2>3 DEF HopOf
  <2>6. Approved(HopOf(o), op[o].seen)
    <3>1. IF known[HopOf(o)] = None THEN HopOf(o) \in AcceptNew ELSE known[HopOf(o)] = op[o].seen
      BY <1>2, Zenon DEF VerifyHost, verify_host_identity
    <3>2. HopOf(o) \in AcceptNew \/ (known[HopOf(o)] = op[o].seen /\ known[HopOf(o)] # None)
      BY <3>1
    <3> QED  BY <2>4, <3>2 DEF PoolInv, RecordsApproved, Approved
  <2>7. op' \in [Op -> OpState] /\ OpsOK' /\ IdleLeads'
    BY <1>1, <2>1, <2>2, <2>6, IdleAsItIs, OpMoves DEF Made, Connecting, OpPlace, Busy
  <2> QED  BY <1>1, <2>7, IdleStays
<1>3. CASE VerifyHost(o) /\ FailOp(o)
  <2>1. ~Made(o)
    BY <1>3 DEF VerifyHost, OpAt, Made
  <2> QED  BY <1>1, <1>3, <2>1, IdleAsItIs, OpFails, IdleStays
<1>4. CASE GatePermit(o) \/ FinishOp(o, succeeds)
  <2>1. op' \in [Op -> OpState] /\ OpsOK' /\ IdleLeads'
    BY <1>1, <1>4, IdleAsItIs, OpMoves
       DEF GatePermit, FinishOp, OpAt, Made, Connecting, OpPlace, Busy
  <2> QED  BY <1>1, <2>1, IdleStays
<1> QED  BY <1>2, <1>3, <1>4

\* The elements of what is left of a way or a chain.
LEMMA BeforeLast ==
    ASSUME NEW S, NEW s \in Seq(S), Len(s) > 1
    PROVE  /\ Before(s) \in Seq(S) /\ Before(s) # <<>> /\ Before(s)[1] = s[1]
<1>1. Len(s) - 1 \in Int /\ \A i \in 1..Len(s) - 1 : s[i] \in S
  OBVIOUS
<1>2. Before(s) \in Seq(S) /\ Len(Before(s)) = Len(s) - 1
      /\ \A i \in 1..Len(s) - 1 : Before(s)[i] = s[i]
  BY <1>1, SubSeqProperties DEF Before
<1> QED  BY <1>2

\* acquire: an operation gets its key, and queues at a gate or goes to its host.
LEMMA Acquiring ==
    ASSUME PoolInv, NEW o \in Op, NEW c \in Conn, NEW v \in 1..MaxEdits + 1,
           NEW kind \in LeaseKind, Acquire(o, c, v, kind)
    PROVE  PoolInv'
<1> DEFINE k == <<c, v, kind>>
<1>1. PoolTypeOK /\ OpsOK /\ UNCHANGED <<idle, configVars>> /\ approved' = approved
      /\ op[o] \in OpState /\ op[o].place = "new" /\ ~Made(o)
  BY DEF PoolInv, PoolTypeOK, Acquire, configVars, OpAt, Made
<1>2. k \in ConnKey /\ k[1] = c /\ (kind \in Lane => k \in PoolKey)
  BY DEF ConnKey, PoolKey
<1>3. CASE kind \in Lane
  <2> DEFINE x == [op[o] EXCEPT !.place = "queued", !.key = k, !.gate = gate'[k]]
  <2>1. gate' = [gate EXCEPT ![k] = IF @ = None THEN o ELSE @] /\ op' = [op EXCEPT ![o] = x]
    BY <1>3 DEF Acquire
  <2>2. gate' \in [PoolKey -> Op \union {None}] /\ gate'[k] \in Op \union {None}
    BY <1>1, <1>2, <1>3, <2>1 DEF PoolTypeOK
  <2> HIDE DEF k
  <2>3. x \in OpState /\ x.place = "queued" /\ x.key = k /\ x.way = op[o].way
    BY <1>1, <1>2, <2>2 DEF OpState, OpPlace
  <2> HIDE DEF x
  <2>4. PathOK(x) /\ HopsApproved(x)
    BY <1>1, <1>2, <1>3, <2>3 DEF OpsOK, PathOK, HopsApproved, Connecting
  <2>5. op' \in [Op -> OpState]
    BY <1>1, <2>1, <2>3 DEF PoolTypeOK
  <2>6. OpsOK' /\ IdleLeads'
    BY <1>1, <2>1, <2>3, <2>4, IdleAsItIs, OpChanges
  <2>7. \A q \in PoolKey : Len(idle'[q]) <= MaxIdle
    BY <1>1 DEF PoolTypeOK
  <2> QED  BY <1>1, <2>2, <2>5, <2>6, <2>7, IdleAsItIs, ConfigStays
<1>4. CASE kind \notin Lane
  <2> DEFINE x == [op[o] EXCEPT !.place = "hopping", !.key = k, !.chain = <<c>>]
  <2>1. UNCHANGED gate /\ op' = [op EXCEPT ![o] = x]
    BY <1>4 DEF Acquire
  <2> HIDE DEF k
  <2> <<c>> \in Seq(Conn)
    OBVIOUS
  <2>2. x \in OpState /\ x.place = "hopping" /\ x.key = k /\ x.way = op[o].way /\ x.chain = <<c>>
    BY <1>1, <1>2 DEF OpState, OpPlace, Busy, Connecting
  <2> HIDE DEF x
  <2>3. PathOK(x) /\ HopsApproved(x)
    BY <1>1, <1>2, <2>2 DEF OpsOK, PathOK, HopsApproved, Connecting
  <2>4. op' \in [Op -> OpState]
    BY <1>1, <2>1, <2>2 DEF PoolTypeOK
  <2>5. OpsOK' /\ IdleLeads'
    BY <1>1, <2>1, <2>2, <2>3, IdleAsItIs, OpChanges
  <2> QED  BY <1>1, <2>1, <2>4, <2>5, IdleStays
<1> QED  BY <1>3, <1>4

\* Along the route, to a hop and through it.
LEMMA Following ==
    ASSUME PoolInv, NEW o \in Op, FollowRoute(o)
    PROVE  PoolInv'
<1>1. PoolTypeOK /\ OpsOK /\ UNCHANGED <<idle, gate, configVars>> /\ approved' = approved
      /\ op[o] \in OpState /\ op[o].place = "hopping" /\ ~Made(o)
  BY DEF PoolInv, PoolTypeOK, FollowRoute, configVars, OpAt, Made
<1>2. /\ op[o].chain \in Seq(Conn) /\ op[o].chain # <<>> /\ op[o].key \in ConnKey
      /\ op[o].chain[1] = op[o].key[1]
  BY <1>1 DEF OpsOK, PathOK, Connecting, OpState
<1> DEFINE next == route[HopOf(o)]
<1>3. next \in Conn \union {None}
  <2>1. HopOf(o) \in Conn
    BY <1>2 DEF HopOf
  <2> QED  BY <1>1, <2>1 DEF PoolTypeOK
<1>4. CASE FailOp(o)
  BY <1>1, <1>4, IdleAsItIs, OpFails, IdleStays
<1>5. CASE OpTo(o, "dialling")
  BY <1>1, <1>5, IdleAsItIs, OpMoves, IdleStays DEF Connecting, OpPlace, Busy
<1>6. CASE next \in Conn /\ op' = [op EXCEPT ![o].chain = Append(@, next)]
  <2> DEFINE x == [op[o] EXCEPT !.chain = Append(op[o].chain, next)]
  <2>1. op' = [op EXCEPT ![o] = x]
    BY <1>6
  <2> HIDE DEF next
  <2>2. /\ Append(op[o].chain, next) \in Seq(Conn) /\ Append(op[o].chain, next) # <<>>
        /\ Append(op[o].chain, next)[1] = op[o].chain[1]
    BY <1>2, <1>6
  <2>3. /\ x \in OpState /\ x.place = "hopping" /\ x.key = op[o].key /\ x.way = op[o].way
        /\ x.chain = Append(op[o].chain, next)
    BY <1>1, <2>2 DEF OpState
  <2> HIDE DEF x
  <2>4. PathOK(x) /\ HopsApproved(x)
    BY <1>1, <1>2, <2>2, <2>3 DEF OpsOK, PathOK, HopsApproved, Connecting
  <2>5. op' \in [Op -> OpState]
    BY <1>1, <2>1, <2>3 DEF PoolTypeOK
  <2>6. OpsOK' /\ IdleLeads'
    BY <1>1, <2>1, <2>3, <2>4, IdleAsItIs, OpChanges
  <2> QED  BY <1>1, <2>5, <2>6, IdleStays
<1> QED  BY <1>3, <1>4, <1>5, <1>6 DEF FollowRoute

LEMMA Dialling ==
    ASSUME PoolInv, NEW o \in Op, Handshake(o)
    PROVE  PoolInv'
<1>1. PoolTypeOK /\ OpsOK /\ UNCHANGED <<idle, gate, configVars>> /\ approved' = approved
      /\ op[o] \in OpState /\ op[o].place = "dialling" /\ ~Made(o)
  BY DEF PoolInv, PoolTypeOK, Handshake, configVars, OpAt, Made
<1>2. op[o].chain \in Seq(Conn) /\ op[o].chain # <<>>
  BY <1>1 DEF OpsOK, PathOK, Connecting, OpState
<1>3. presented[HopOf(o)] \in HostKey
  <2>1. HopOf(o) \in Conn
    BY <1>2 DEF HopOf
  <2> QED  BY <1>1, <2>1 DEF PoolTypeOK
<1> DEFINE x == [op[o] EXCEPT !.place = "verifying", !.seen = presented[HopOf(o)]]
<1>4. op' = [op EXCEPT ![o] = x]
  BY DEF Handshake
<1>5. /\ x \in OpState /\ x.place = "verifying" /\ x.key = op[o].key /\ x.way = op[o].way
      /\ x.chain = op[o].chain
  BY <1>1, <1>3 DEF OpState, OpPlace, Busy, Connecting
<1> HIDE DEF x
<1>6. PathOK(x) /\ HopsApproved(x)
  BY <1>1, <1>5 DEF OpsOK, PathOK, HopsApproved, Connecting
<1>7. op' \in [Op -> OpState]
  BY <1>1, <1>4, <1>5 DEF PoolTypeOK
<1>8. OpsOK' /\ IdleLeads'
  BY <1>1, <1>4, <1>5, <1>6, IdleAsItIs, OpChanges
<1> QED  BY <1>1, <1>7, <1>8, IdleStays

\* The youngest idle transport, or a new one.
LEMMA Choosing ==
    ASSUME PoolInv, NEW o \in Op, TakeIdle(o)
    PROVE  PoolInv'
<1> DEFINE k == op[o].key
<1>1. PoolTypeOK /\ OpsOK /\ UNCHANGED <<gate, configVars>> /\ approved' = approved
      /\ op[o] \in OpState /\ op[o].place = "choosing" /\ ~Made(o)
  BY DEF PoolInv, PoolTypeOK, TakeIdle, configVars, OpAt, Made
<1>2. k \in PoolKey /\ k \in ConnKey /\ k[1] \in Conn
  BY <1>1, PoolKeys, KeysOfProfiles DEF OpsOK, PathOK
<1>3. PICK young \in 0..Len(idle[k]) :
         LET kept == SubSeq(idle[k], Len(idle[k]) - young + 1, Len(idle[k]))
             connect == op' = [op EXCEPT ![o].place = "hopping", ![o].chain = <<k[1]>>]
         IN  IF young = 0
             THEN connect /\ idle' = [idle EXCEPT ![k] = <<>>]
             ELSE /\ idle' = [idle EXCEPT ![k] = Before(kept)]
                  /\ \/ /\ KeepaliveAnswers(kept[young])
                        /\ op' = [op EXCEPT ![o].place = "using", ![o].lease = kept[young]]
                     \/ connect
  BY DEF TakeIdle
<1> DEFINE kept == SubSeq(idle[k], Len(idle[k]) - young + 1, Len(idle[k]))
<1>4. /\ kept \in Seq(Op) /\ Len(kept) = young
      /\ \A i \in 1..young : kept[i] = idle[k][Len(idle[k]) - young + i]
  <2>1. idle[k] \in Seq(Op) /\ young \in 0..Len(idle[k])
    BY <1>1, <1>2 DEF PoolTypeOK
  <2> DEFINE s == idle[k]
  <2> HIDE DEF s
  <2>2. s \in Seq(Op) /\ young \in 0..Len(s)
    BY <2>1 DEF s
  <2>3. \A i \in Len(s) - young + 1..Len(s) : s[i] \in Op
    BY <2>2
  <2>4. /\ SubSeq(s, Len(s) - young + 1, Len(s)) \in Seq(Op)
        /\ Len(SubSeq(s, Len(s) - young + 1, Len(s)))
               = IF Len(s) - young + 1 <= Len(s) THEN Len(s) - (Len(s) - young + 1) + 1 ELSE 0
        /\ \A i \in 1..Len(s) - (Len(s) - young + 1) + 1 :
               SubSeq(s, Len(s) - young + 1, Len(s))[i] = s[Len(s) - young + 1 + i - 1]
    BY <2>2, <2>3, SubSeqProperties
  <2>5. /\ SubSeq(s, Len(s) - young + 1, Len(s)) \in Seq(Op)
        /\ Len(SubSeq(s, Len(s) - young + 1, Len(s))) = young
        /\ \A i \in 1..young : SubSeq(s, Len(s) - young + 1, Len(s))[i] = s[Len(s) - young + i]
    BY <2>2, <2>4
  <2> QED  BY <2>5 DEF s
<1>5. \A i \in 1..young : kept[i] \in Op /\ Made(kept[i]) /\ LeadsTo(kept[i], k[1])
  <2>1. \A i \in 1..young : Len(idle[k]) - young + i \in DOMAIN idle[k]
    BY <1>1, <1>2 DEF PoolTypeOK
  <2> QED  BY <1>2, <1>4, <2>1 DEF PoolInv, IdleLeads, PoolTypeOK
<1> DEFINE left == IF young = 0 THEN <<>> ELSE Before(kept)
<1>6. /\ left \in Seq(Op) /\ Len(left) <= Len(idle[k])
      /\ \A i \in DOMAIN left : Made(left[i]) /\ LeadsTo(left[i], k[1])
  <2>1. CASE young = 0
    BY <2>1
  <2>2. CASE young # 0
    <3> HIDE DEF kept
    <3>1. \A i \in 1..Len(kept) - 1 : kept[i] \in Op
      BY <1>4, <1>5
    <3>2. /\ Before(kept) \in Seq(Op) /\ Len(Before(kept)) = young - 1
          /\ \A i \in 1..young - 1 : Before(kept)[i] = kept[i]
      <4>1. Len(kept) - 1 \in Int /\ 1 \in Int
        BY <1>4
      <4> QED  BY <1>4, <2>2, <3>1, <4>1, SubSeqProperties DEF Before
    <3> QED  BY <1>4, <1>5, <2>2, <3>2
  <2> QED  BY <2>1, <2>2
<1>7. idle' = [idle EXCEPT ![k] = left]
  BY <1>3
<1> HIDE DEF left
<1>8. idle' \in [PoolKey -> Seq(Op)] /\ \A q \in PoolKey : Len(idle'[q]) <= MaxIdle
  <2>1. Len(idle[k]) <= MaxIdle /\ Len(left) \in Nat /\ Len(idle[k]) \in Nat
    BY <1>1, <1>2, <1>6 DEF PoolTypeOK
  <2>2. Len(left) <= MaxIdle
    BY <1>6, <2>1, TransportAssumption
  <2> QED  BY <1>1, <1>2, <1>6, <1>7, <2>2 DEF PoolTypeOK
<1>9. \A q \in PoolKey : \A i \in DOMAIN idle'[q] : Made(idle'[q][i]) /\ LeadsTo(idle'[q][i], q[1])
  <2>1. ASSUME NEW q \in PoolKey, q # k
        PROVE  idle'[q] = idle[q]
    BY <1>1, <1>7, <2>1 DEF PoolTypeOK
  <2>2. idle'[k] = left
    BY <1>1, <1>2, <1>7 DEF PoolTypeOK
  <2> QED  BY <1>6, <2>1, <2>2, Zenon DEF PoolInv, IdleLeads
<1> HIDE DEF kept
<1>10. CASE op' = [op EXCEPT ![o].place = "hopping", ![o].chain = <<k[1]>>]
  <2> DEFINE x == [op[o] EXCEPT !.place = "hopping", !.chain = <<k[1]>>]
  <2>1. op' = [op EXCEPT ![o] = x]
    BY <1>10
  <2> <<k[1]>> \in Seq(Conn)
    BY <1>2
  <2>2. /\ x \in OpState /\ x.place = "hopping" /\ x.key = k /\ x.way = op[o].way
        /\ x.chain = <<k[1]>>
    BY <1>1, <1>2 DEF OpState, OpPlace, Busy, Connecting
  <2> HIDE DEF x
  <2>3. PathOK(x) /\ HopsApproved(x)
    BY <1>1, <1>2, <2>2 DEF OpsOK, PathOK, HopsApproved, Connecting
  <2>4. op' \in [Op -> OpState]
    BY <1>1, <2>1, <2>2 DEF PoolTypeOK
  <2>5. OpsOK' /\ IdleLeads'
    BY <1>1, <1>8, <1>9, <2>1, <2>2, <2>3, OpChanges
  <2> QED  BY <1>1, <1>8, <2>4, <2>5, ConfigStays DEF PoolTypeOK
<1>11. CASE young # 0 /\ op' = [op EXCEPT ![o].place = "using", ![o].lease = kept[young]]
  <2> DEFINE t == kept[young]
             x == [op[o] EXCEPT !.place = "using", !.lease = t]
  <2>1. t \in Op /\ Made(t) /\ LeadsTo(t, k[1])
    BY <1>5, <1>11
  <2>2. op' = [op EXCEPT ![o] = x]
    BY <1>11
  <2> HIDE DEF t
  <2>3. x \in OpState /\ x.place = "using" /\ x.key = k /\ x.way = op[o].way /\ x.lease = t
    BY <1>1, <2>1 DEF OpState, OpPlace, Busy
  <2> HIDE DEF x
  <2>4. PathOK(x) /\ HopsApproved(x)
    BY <1>1, <2>3 DEF OpsOK, PathOK, HopsApproved, Connecting
  <2>5. op' \in [Op -> OpState]
    BY <1>1, <2>2, <2>3 DEF PoolTypeOK
  <2>6. OpsOK' /\ IdleLeads'
    BY <1>1, <1>2, <1>8, <1>9, <2>1, <2>2, <2>3, <2>4, OpChanges
  <2> QED  BY <1>1, <1>8, <2>5, <2>6, ConfigStays DEF PoolTypeOK
<1> QED  BY <1>3, <1>10, <1>11 DEF kept

\* A hop is authenticated: it is part of the way, which may be complete now.
LEMMA Authenticating ==
    ASSUME PoolInv, NEW o \in Op, AuthenticateHop(o)
    PROVE  PoolInv'
<1>1. PoolTypeOK /\ OpsOK /\ UNCHANGED <<idle, gate, configVars>> /\ approved' = approved
      /\ op[o] \in OpState /\ op[o].place = "authenticating" /\ ~Made(o)
  BY DEF PoolInv, PoolTypeOK, AuthenticateHop, configVars, OpAt, Made
<1>2. /\ op[o].chain \in Seq(Conn) /\ op[o].chain # <<>> /\ op[o].key \in ConnKey
      /\ op[o].chain[1] = op[o].key[1] /\ op[o].way \in Seq(Hop) /\ op[o].seen \in HostKey \union {None}
      /\ Approved(HopOf(o), op[o].seen)
      /\ \A i \in DOMAIN op[o].way : Approved(op[o].way[i].hop, op[o].way[i].key)
  BY <1>1 DEF OpsOK, PathOK, HopsApproved, Connecting, OpState, HopOf, LastHop
<1> DEFINE hop == [hop |-> HopOf(o), key |-> op[o].seen]
           way == <<hop>> \o op[o].way
<1>3. hop \in Hop /\ hop.hop = HopOf(o) /\ hop.key = op[o].seen
  <2>1. HopOf(o) \in Conn
    BY <1>2 DEF HopOf
  <2> QED  BY <1>2, <2>1 DEF Hop
<1>4. way \in Seq(Hop) /\ way # <<>> /\ way[1] = hop
      /\ \A i \in DOMAIN way : Approved(way[i].hop, way[i].key)
  <2> HIDE DEF hop
  <2>1. way \in Seq(Hop) /\ Len(way) = Len(op[o].way) + 1 /\ way[1] = hop
        /\ \A i \in 2..Len(way) : i - 1 \in DOMAIN op[o].way /\ way[i] = op[o].way[i - 1]
    BY <1>2, <1>3
  <2>2. ASSUME NEW i \in DOMAIN way
        PROVE  Approved(way[i].hop, way[i].key)
    <3>1. i = 1 \/ i \in 2..Len(way)
      BY <2>1
    <3> QED  BY <1>2, <1>3, <2>1, <3>1
  <2> QED  BY <2>1, <2>2
<1> HIDE DEF way
<1>5. CASE Len(op[o].chain) > 1
  <2> DEFINE x == [op[o] EXCEPT !.place = "dialling", !.way = way, !.chain = Before(op[o].chain),
                                !.seen = None]
  <2>1. op' = [op EXCEPT ![o] = x]
    BY <1>5 DEF AuthenticateHop, way
  <2>2. /\ Before(op[o].chain) \in Seq(Conn) /\ Before(op[o].chain) # <<>>
        /\ Before(op[o].chain)[1] = op[o].chain[1]
    BY <1>2, <1>5, BeforeLast
  <2>3. /\ x \in OpState /\ x.place = "dialling" /\ x.key = op[o].key /\ x.way = way
        /\ x.chain = Before(op[o].chain)
    BY <1>1, <1>4, <2>2 DEF OpState, OpPlace, Busy, Connecting
  <2> HIDE DEF x
  <2>4. PathOK(x) /\ HopsApproved(x)
    BY <1>2, <1>4, <2>2, <2>3 DEF PathOK, HopsApproved, Connecting
  <2>5. op' \in [Op -> OpState]
    BY <1>1, <2>1, <2>3 DEF PoolTypeOK
  <2>6. OpsOK' /\ IdleLeads'
    BY <1>1, <2>1, <2>3, <2>4, IdleAsItIs, OpChanges
  <2> QED  BY <1>1, <2>5, <2>6, IdleStays
<1>6. CASE ~(Len(op[o].chain) > 1)
  <2> DEFINE x == [op[o] EXCEPT !.place = "using", !.way = way, !.lease = o, !.chain = <<>>,
                                !.seen = None]
  <2>1. op' = [op EXCEPT ![o] = x]
    BY <1>6 DEF AuthenticateHop, way
  <2>2. HopOf(o) = op[o].key[1]
    BY <1>2, <1>6 DEF HopOf
  <2> <<>> \in Seq(Conn)
    OBVIOUS
  <2>3. x \in OpState /\ x.place = "using" /\ x.key = op[o].key /\ x.way = way /\ x.lease = o
    BY <1>1, <1>4 DEF OpState, OpPlace, Busy
  <2> HIDE DEF x
  <2>4. PathOK(x) /\ HopsApproved(x)
    BY <1>4, <2>3 DEF PathOK, HopsApproved, Connecting
  <2>5. op' \in [Op -> OpState]
    BY <1>1, <2>1, <2>3 DEF PoolTypeOK
  <2>6. x.way # <<>> /\ x.way[1].hop = x.key[1] /\ x.key \in ConnKey
    BY <1>2, <1>3, <1>4, <2>2, <2>3
  <2>7. OpsOK' /\ IdleLeads'
    BY <1>1, <2>1, <2>3, <2>4, <2>6, IdleAsItIs, OpChanges
  <2> QED  BY <1>1, <2>5, <2>7, IdleStays
<1> QED  BY <1>5, <1>6

\* The first key of a host that takes any is recorded.
LEMMA Trusting ==
    ASSUME PoolInv, NEW o \in Op, TrustFirst(o)
    PROVE  PoolInv'
<1>1. /\ PoolTypeOK /\ OpsOK /\ RecordsApproved /\ op[o] \in OpState /\ op[o].place = "trusting"
      /\ UNCHANGED <<version, route, presented, approved, idle, gate, writing, edits>>
      /\ known' = [known EXCEPT ![HopOf(o)] = op[o].seen] /\ OpTo(o, "authenticating")
  BY DEF PoolInv, PoolTypeOK, TrustFirst, OpAt
<1>2. HopOf(o) \in AcceptNew /\ op[o].seen \in HostKey \union {None} /\ LastHop(op[o]) = HopOf(o)
  BY <1>1 DEF OpsOK, HopsApproved, LastHop, HopOf, OpState
<1>3. op' \in [Op -> OpState] /\ OpsOK' /\ IdleLeads'
  BY <1>1, <1>2, IdleAsItIs, OpMoves DEF Approved, Made, Connecting, OpPlace, Busy
<1>4. PoolTypeOK'
  <2>1. known' \in [Conn -> HostKey \union {None}]
    BY <1>1, <1>2 DEF PoolTypeOK
  <2> QED  BY <1>1, <1>3, <2>1, Zenon DEF PoolTypeOK
<1>5. RecordsApproved'
  BY <1>1, <1>2 DEF RecordsApproved, Approved, PoolTypeOK
<1>6. VersionsCounted'
  BY <1>1 DEF PoolInv, VersionsCounted
<1> QED  BY <1>3, <1>4, <1>5, <1>6 DEF PoolInv

\* A transport goes back to the pool.
LEMMA Returning ==
    ASSUME PoolInv, NEW o \in Op, ReturnLease(o)
    PROVE  PoolInv'
<1>1. /\ PoolTypeOK /\ OpsOK /\ op[o] \in OpState /\ op[o].place = "returning"
      /\ UNCHANGED <<gate, configVars>> /\ approved' = approved /\ OpTo(o, "done")
      /\ idle' = [idle EXCEPT ![op[o].key] = Pooled(idle[op[o].key], op[o].lease)]
  BY DEF PoolInv, PoolTypeOK, ReturnLease, configVars, OpAt
<1>2. op[o].lease \in Op /\ Made(op[o].lease) /\ LeadsTo(op[o].lease, op[o].key[1])
  BY <1>1 DEF OpsOK, Leads
<1>3. ASSUME NEW k \in PoolKey
      PROVE  /\ idle'[k] \in Seq(Op) /\ Len(idle'[k]) <= MaxIdle
             /\ \A i \in DOMAIN idle'[k] : Made(idle'[k][i]) /\ LeadsTo(idle'[k][i], k[1])
  <2>1. /\ idle[k] \in Seq(Op) /\ Len(idle[k]) <= MaxIdle
        /\ \A i \in DOMAIN idle[k] : Made(idle[k][i]) /\ LeadsTo(idle[k][i], k[1])
    BY DEF PoolInv, PoolTypeOK, IdleLeads
  <2>2. CASE idle'[k] = idle[k]
    BY <2>1, <2>2
  <2>3. CASE k = op[o].key /\ Len(idle[k]) < MaxIdle /\ idle'[k] = Append(idle[k], op[o].lease)
    BY <1>2, <2>1, <2>3, TransportAssumption
  <2>4. \/ idle'[k] = idle[k]
        \/ k = op[o].key /\ Len(idle[k]) < MaxIdle /\ idle'[k] = Append(idle[k], op[o].lease)
    BY <1>1 DEF Pooled, PoolTypeOK
  <2> QED  BY <2>2, <2>3, <2>4
<1>4. idle' \in [PoolKey -> Seq(Op)]
  <2>1. DOMAIN idle' = PoolKey /\ idle' = [k \in PoolKey |-> idle'[k]]
    BY <1>1 DEF PoolTypeOK
  <2> QED  BY <1>3, <2>1
<1>5. op' \in [Op -> OpState] /\ OpsOK' /\ IdleLeads'
  BY <1>1, <1>3, <1>4, OpMoves DEF Connecting, OpPlace, Busy
<1>6. gate' \in [PoolKey -> Op \union {None}]
  BY <1>1 DEF PoolTypeOK
<1> QED  BY <1>1, <1>3, <1>4, <1>5, <1>6, ConfigStays

\* The caller of an operation, whose time is up.
LEMMA CallerActs ==
    ASSUME PoolInv, NEW o \in Op,
           Expire(o) \/ MarkTimedOut(o) \/ ShutSocket(o) \/ ResetPool(o)
    PROVE  PoolInv'
<1>1. PoolTypeOK /\ OpsOK /\ UNCHANGED configVars /\ approved' = approved /\ op[o] \in OpState
  BY DEF PoolInv, PoolTypeOK, Expire, MarkTimedOut, ShutSocket, ResetPool, configVars
<1>2. PICK to \in {"expired", "marked", "shut", "answered"} : op' = [op EXCEPT ![o].caller = to]
  BY DEF Expire, MarkTimedOut, ShutSocket, ResetPool, CallerOf
<1> DEFINE x == [op[o] EXCEPT !.caller = to]
<1>3. /\ x \in OpState /\ x.place = op[o].place /\ x.key = op[o].key /\ x.way = op[o].way
      /\ x.chain = op[o].chain /\ x.seen = op[o].seen /\ x.lease = op[o].lease
  BY <1>1 DEF OpState
<1>4. op' = [op EXCEPT ![o] = x]
  BY <1>2
<1> HIDE DEF x
<1>5. PathOK(x) /\ HopsApproved(x)
  BY <1>1, <1>3 DEF OpsOK, PathOK, HopsApproved, LastHop
<1>6. x.place \in {"using", "returning"} =>
          x.key \in ConnKey /\ x.lease \in Op /\ Made(x.lease) /\ LeadsTo(x.lease, x.key[1])
  BY <1>1, <1>3 DEF OpsOK, Leads
<1>7. Made(o) => x.place \in {"using", "returning", "done"}
  BY <1>3 DEF Made
<1>8. op' \in [Op -> OpState]
  BY <1>1, <1>3, <1>4 DEF PoolTypeOK
<1>9. CASE UNCHANGED <<idle, gate>>
  <2>1. OpsOK' /\ IdleLeads'
    BY <1>1, <1>3, <1>4, <1>5, <1>6, <1>7, <1>9, IdleAsItIs, OpChanges
  <2> QED  BY <1>1, <1>8, <1>9, <2>1, IdleStays
<1>10. CASE \E c : invalidate(c)
  <2>1. OpsOK' /\ IdleLeads'
    BY <1>1, <1>3, <1>4, <1>5, <1>6, <1>7, <1>10, Invalidating, OpChanges
  <2> QED  BY <1>1, <1>8, <1>10, <2>1, Invalidating, ConfigStays
<1>11. CASE ResetPool(o)
  BY <1>10, <1>11 DEF ResetPool
<1> QED  BY <1>9, <1>11 DEF Expire, MarkTimedOut, ShutSocket

\* The rows.  A change is counted when its command begins, and written after.
LEMMA Beginning ==
    ASSUME PoolInv, NEW command \in CommandState, BeginCommand(command),
           (\E c : invalidate(c)) \/ clear
    PROVE  PoolInv'
<1>1. /\ writing = None /\ edits < MaxEdits /\ writing' = command /\ edits' = edits + 1
      /\ UNCHANGED <<version, route, known, presented, approved, op, shut>>
  BY DEF BeginCommand
<1>2. PoolTypeOK'
  <2>1. edits' \in 0..MaxEdits
    BY <1>1, TransportAssumption DEF PoolInv, PoolTypeOK
  <2> QED  BY <1>1, <2>1, Invalidating, Zenon DEF PoolInv, PoolTypeOK
<1>3. OpsOK' /\ RecordsApproved'
  BY <1>1, Zenon DEF PoolInv, OpsOK, PathOK, Leads, HopsApproved, Approved, LastHop, Made, LeadsTo,
                     RecordsApproved
<1>4. IdleLeads'
  BY <1>1, Invalidating, Zenon DEF IdleLeads, Made, LeadsTo
<1>5. VersionsCounted'
  BY <1>1 DEF PoolInv, PoolTypeOK, VersionsCounted
<1> QED  BY <1>2, <1>3, <1>4, <1>5 DEF PoolInv

LEMMA Commands ==
    ASSUME NEW c \in Conn
    PROVE  /\ [what |-> "save", conn |-> c] \in CommandState
           /\ \A r \in Conn \union {None} : [what |-> "proxy", conn |-> c, route |-> r] \in CommandState
           /\ \A key \in HostKey : [what |-> "trust", conn |-> c, key |-> key] \in CommandState
BY DEF CommandState

LEMMA Writing ==
    ASSUME PoolInv, WriteRow
    PROVE  PoolInv'
<1>1. /\ writing \in CommandState /\ writing # None /\ writing' = None /\ writing.conn \in Conn
      /\ UNCHANGED <<presented, idle, gate, op, shut, edits>>
  <2>1. writing \in CommandState
    BY DEF WriteRow, PoolInv, PoolTypeOK
  <2> QED  BY <2>1 DEF WriteRow, CommandState
<1> DEFINE c == writing.conn
<1>2. /\ version' \in [Conn -> 1..MaxEdits + 1]
      /\ \A d \in Conn : version'[d] <= edits + 1
  <2>1. \A d \in Conn : version[d] \in 1..MaxEdits + 1 /\ version[d] + 1 <= edits + 1
    BY <1>1 DEF PoolInv, VersionsCounted, PoolTypeOK
  <2>2. edits \in 0..MaxEdits /\ version \in [Conn -> 1..MaxEdits + 1]
    BY DEF PoolInv, PoolTypeOK
  <2>3. version' = version \/ version' = [version EXCEPT ![c] = @ + 1]
    BY DEF WriteRow
  <2>4. \A d \in Conn : version'[d] \in {version[d], version[d] + 1}
    BY <1>1, <2>2, <2>3
  <2>5. \A d \in Conn : version'[d] \in 1..MaxEdits + 1 /\ version'[d] <= edits + 1
    BY <2>1, <2>2, <2>4, TransportAssumption
  <2>6. version' = [d \in Conn |-> version'[d]]
    BY <1>1, <2>2, <2>3
  <2> QED  BY <2>5, <2>6
<1>3. route' \in [Conn -> Conn \union {None}]
  <2>1. writing.what = "proxy" => writing.route \in Conn \union {None}
    BY <1>1 DEF CommandState
  <2> QED  BY <1>1, <2>1 DEF WriteRow, PoolInv, PoolTypeOK
<1>4. /\ known' \in [Conn -> HostKey \union {None}] /\ approved' \in [Conn -> SUBSET HostKey]
      /\ \A h \in Conn : approved[h] \subseteq approved'[h]
      /\ \A h \in Conn : known'[h] = known[h] \/ known'[h] \in approved'[h]
  <2>1. known \in [Conn -> HostKey \union {None}] /\ approved \in [Conn -> SUBSET HostKey]
    BY DEF PoolInv, PoolTypeOK
  <2>2. CASE writing.what = "trust"
    <3>1. writing.key \in HostKey
      BY <1>1, <2>2 DEF CommandState
    <3>2. /\ known' = [known EXCEPT ![c] = writing.key]
          /\ approved' = [approved EXCEPT ![c] = approved[c] \union {writing.key}]
      BY <2>2 DEF WriteRow
    <3> QED  BY <1>1, <2>1, <3>1, <3>2
  <2>3. CASE writing.what # "trust"
    BY <2>1, <2>3 DEF WriteRow
  <2> QED  BY <2>2, <2>3
<1>5. PoolTypeOK'
  BY <1>1, <1>2, <1>3, <1>4, Zenon DEF PoolInv, PoolTypeOK
<1>7. OpsOK'
  <2>1. ASSUME NEW o \in Op
        PROVE  PathOK(op[o])' /\ Leads(op[o])' /\ HopsApproved(op[o])'
    <3>1. PathOK(op[o]) /\ Leads(op[o]) /\ HopsApproved(op[o]) /\ op[o] \in OpState
      BY DEF PoolInv, OpsOK, PoolTypeOK
    <3>2. PathOK(op[o])' /\ Leads(op[o])'
      BY <1>1, <3>1, Zenon DEF PathOK, Leads, Made, LeadsTo
    <3>3. ASSUME NEW i \in DOMAIN op[o].way
          PROVE  op[o].way[i].hop \in Conn
      <4>1. op[o].way \in Seq(Hop)
        BY <3>1 DEF OpState
      <4>2. op[o].way[i] \in Hop
        BY <3>3, <4>1
      <4> QED  BY <4>2 DEF Hop
    <3>4. op[o].place = "authenticating" => LastHop(op[o]) \in Conn
      BY <3>1 DEF PathOK, OpState, LastHop, Connecting
    <3> QED  BY <1>1, <1>4, <3>1, <3>2, <3>3, <3>4 DEF HopsApproved, Approved, LastHop
  <2> QED  BY <2>1 DEF OpsOK
<1>8. IdleLeads'
  BY <1>1, Zenon DEF PoolInv, IdleLeads, Made, LeadsTo
<1>9. RecordsApproved'
  BY <1>4 DEF PoolInv, RecordsApproved, Approved
<1>10. VersionsCounted'
  BY <1>1, <1>2 DEF VersionsCounted
<1> QED  BY <1>5, <1>7, <1>8, <1>9, <1>10 DEF PoolInv

LEMMA Rekeying ==
    ASSUME PoolInv, NEW c \in Conn, NEW key \in HostKey, Rekey(c, key)
    PROVE  PoolInv'
<1>1. /\ edits < MaxEdits /\ presented' = [presented EXCEPT ![c] = key] /\ edits' = edits + 1
      /\ UNCHANGED <<version, route, known, approved, idle, gate, op, shut, writing>>
  BY DEF Rekey
<1>2. PoolTypeOK'
  <2>1. edits' \in 0..MaxEdits /\ presented' \in [Conn -> HostKey]
    BY <1>1, TransportAssumption DEF PoolInv, PoolTypeOK
  <2> QED  BY <1>1, <2>1, Zenon DEF PoolInv, PoolTypeOK
<1>3. OpsOK' /\ RecordsApproved' /\ IdleLeads'
  BY <1>1, Zenon DEF PoolInv, OpsOK, PathOK, Leads, HopsApproved, Approved, LastHop, Made, LeadsTo,
                     RecordsApproved, IdleLeads
<1>4. VersionsCounted'
  BY <1>1 DEF PoolInv, PoolTypeOK, VersionsCounted
<1> QED  BY <1>2, <1>3, <1>4 DEF PoolInv

LEMMA PoolStep == PoolInv /\ [PoolNext]_poolVars => PoolInv'
<1> SUFFICES ASSUME PoolInv, [PoolNext]_poolVars
             PROVE  PoolInv'
  OBVIOUS
<1>1. ASSUME NEW o \in Op, OpStep(o)
      PROVE  PoolInv'
  BY <1>1, GoingOn, Choosing, Following, Dialling, Trusting, Authenticating, Returning DEF OpStep
<1>3. CASE UNCHANGED poolVars
  <2>1. PoolTypeOK' /\ VersionsCounted'
    BY <1>3 DEF PoolInv, PoolTypeOK, VersionsCounted, poolVars
  <2>2. OpsOK' /\ RecordsApproved' /\ IdleLeads'
    BY <1>3, Zenon DEF PoolInv, OpsOK, PathOK, Leads, HopsApproved, Approved, LastHop, Made,
                       LeadsTo, RecordsApproved, IdleLeads, poolVars
  <2> QED  BY <2>1, <2>2 DEF PoolInv
<1>4. ASSUME NEW c \in Conn, SaveConnection(c)
      PROVE  PoolInv'
  BY <1>4, Commands, Beginning DEF SaveConnection
<1>5. ASSUME NEW c \in Conn, NEW r \in Conn \union {None}, SaveProxy(c, r)
      PROVE  PoolInv'
  BY <1>5, Commands, Beginning DEF SaveProxy
<1>6. ASSUME NEW c \in Conn, NEW key \in HostKey, TrustHost(c, key)
      PROVE  PoolInv'
  BY <1>6, Commands, Beginning DEF TrustHost
<1> QED  BY <1>1, <1>3, <1>4, <1>5, <1>6, GivingUp, CallerActs, Acquiring, Writing, Rekeying
         DEF PoolNext

\* SSH transports: the types, where every operation and every idle transport is, and that
\* only trusted keys are on record and on the way of strict hosts.
THEOREM PoolInvHolds == PoolSpec => []PoolInv
<1>1. PoolInit => PoolInv
  <2> SUFFICES ASSUME PoolInit
               PROVE  PoolInv
    OBVIOUS
  <2>1. PoolTypeOK
    <3>1. op \in [Op -> OpState]
      BY NewOpState DEF PoolInit
    <3>2. idle \in [PoolKey -> Seq(Op)] /\ \A k \in PoolKey : Len(idle[k]) <= MaxIdle
      BY TransportAssumption DEF PoolInit
    <3>3. version \in [Conn -> 1..MaxEdits + 1] /\ edits \in 0..MaxEdits
      BY TransportAssumption DEF PoolInit
    <3> QED  BY <3>1, <3>2, <3>3, Zenon DEF PoolInit, PoolTypeOK
  <2>2. OpsOK
    BY DEF PoolInit, OpsOK, NewOp, PathOK, Leads, HopsApproved, Connecting
  <2>3. IdleLeads /\ RecordsApproved
    BY DEF PoolInit, IdleLeads, RecordsApproved
  <2>4. VersionsCounted
    BY DEF PoolInit, VersionsCounted
  <2> QED  BY <2>1, <2>2, <2>3, <2>4 DEF PoolInv
<1> QED  BY <1>1, PoolStep, PTL DEF PoolSpec

\* The pool, its transports and the operations under way keep their shape.
THEOREM PoolTypeOKHolds == PoolSpec => []PoolTypeOK
<1>1. PoolInv => PoolTypeOK
  BY DEF PoolInv
<1> QED  BY <1>1, PoolInvHolds, PTL

\* No transport in use leads through a strict host whose key nobody trusted, and each
\* leads to the host it was asked for.
THEOREM StrictHostsApprovedHolds == PoolSpec => []StrictHostsApproved
<1>1. PoolInv => StrictHostsApproved
  <2> SUFFICES ASSUME PoolInv, NEW o \in Op, op[o].place = "using"
               PROVE  LET way == op[op[o].lease].way IN
                      /\ way[1].hop = op[o].key[1]
                      /\ \A i \in DOMAIN way : Approved(way[i].hop, way[i].key)
    BY DEF StrictHostsApproved, OpAt, Approved
  <2>1. op[o].lease \in Op /\ LeadsTo(op[o].lease, op[o].key[1])
    BY DEF PoolInv, OpsOK, Leads
  <2>2. HopsApproved(op[op[o].lease])
    BY <2>1 DEF PoolInv, OpsOK
  <2> QED  BY <2>1, <2>2 DEF LeadsTo, HopsApproved
<1> QED  BY <1>1, PoolInvHolds, PTL

\* An operation that chooses and then uses a transport has taken an idle one that answers.
LEMMA TakenIsAlive ==
    ASSUME PoolTypeOK, [PoolNext]_poolVars, NEW o \in Op,
           op[o].place = "choosing", op'[o].place = "using"
    PROVE  op'[o].lease \notin shut
<1>1. op \in [Op -> OpState]
  BY DEF PoolTypeOK
<1>2. ASSUME TakeIdle(o)
      PROVE  op'[o].lease \notin shut
  <2> DEFINE k == op[o].key
  <2>1. PICK young \in 0..Len(idle[k]) :
          LET kept == SubSeq(idle[k], Len(idle[k]) - young + 1, Len(idle[k]))
          IN  \/ /\ kept[young] \notin shut
                 /\ op' = [op EXCEPT ![o].place = "using", ![o].lease = kept[young]]
              \/ op' = [op EXCEPT ![o].place = "hopping", ![o].chain = <<k[1]>>]
    BY <1>2 DEF TakeIdle, KeepaliveAnswers
  <2> DEFINE t == SubSeq(idle[k], Len(idle[k]) - young + 1, Len(idle[k]))[young]
  <2>2. CASE op' = [op EXCEPT ![o].place = "hopping", ![o].chain = <<k[1]>>]
    BY <1>1, <2>2 DEF OpState
  <2>3. CASE t \notin shut /\ op' = [op EXCEPT ![o].place = "using", ![o].lease = t]
    <3> HIDE DEF t
    <3> QED  BY <1>1, <2>3 DEF OpState
  <2> QED  BY <2>1, <2>2, <2>3
<1>3. CASE op' = op
  BY <1>3
<1>6. ASSUME NEW p \in Op \ {o},
             \/ OpStep(p) \/ HopFails(p) \/ GateTimeout(p) \/ AcquireTimeout(p)
             \/ Expire(p) \/ MarkTimedOut(p) \/ ShutSocket(p) \/ ResetPool(p)
             \/ \E c \in Conn, v \in 1..MaxEdits + 1, kind \in LeaseKind : Acquire(p, c, v, kind)
      PROVE  FALSE
  <2>1. op'[o] = op[o]
    BY <1>1, <1>6
       DEF OpStep, HopFails, GateTimeout, AcquireTimeout, Expire, MarkTimedOut, ShutSocket,
           ResetPool, Acquire, GatePermit, TakeIdle, FollowRoute, Handshake, VerifyHost,
           TrustFirst, AuthenticateHop, ReturnLease, FinishOp, OpTo, FailOp, CallerOf
  <2> QED  BY <2>1
<1>7. ASSUME \/ HopFails(o) \/ GateTimeout(o) \/ AcquireTimeout(o)
             \/ Expire(o) \/ MarkTimedOut(o) \/ ShutSocket(o) \/ ResetPool(o)
             \/ \E c \in Conn, v \in 1..MaxEdits + 1, kind \in LeaseKind : Acquire(o, c, v, kind)
      PROVE  FALSE
  <2>1. op[o] \in OpState
    BY <1>1
  <2>2. CASE AcquireTimeout(o)
    BY <1>1, <2>2 DEF AcquireTimeout, FailOp, NewOp
  <2>3. CASE Expire(o) \/ MarkTimedOut(o) \/ ShutSocket(o) \/ ResetPool(o)
    <3>1. PICK to : op' = [op EXCEPT ![o].caller = to]
      BY <2>3 DEF Expire, MarkTimedOut, ShutSocket, ResetPool, CallerOf
    <3> QED  BY <1>1, <2>1, <3>1 DEF OpState
  <2> QED  BY <1>7, <2>2, <2>3 DEF HopFails, GateTimeout, Acquire, OpAt, Connecting
<1>8. OpStep(o) => TakeIdle(o)
  BY DEF OpStep, GatePermit, FollowRoute, Handshake, VerifyHost, TrustFirst, AuthenticateHop,
         ReturnLease, FinishOp, OpAt
<1>9. ASSUME \/ \E c \in Conn :
                  \/ SaveConnection(c)
                  \/ \E r \in Conn \union {None} : SaveProxy(c, r)
                  \/ \E key \in HostKey : TrustHost(c, key) \/ Rekey(c, key)
             \/ WriteRow
             \/ UNCHANGED poolVars
      PROVE  op' = op
  BY <1>9 DEF SaveConnection, SaveProxy, TrustHost, Rekey, BeginCommand, WriteRow, poolVars
<1> QED  BY <1>2, <1>3, <1>6, <1>7, <1>8, <1>9 DEF PoolNext

\* No operation is given a transport that a timeout has shut down, whatever the thread
\* that used it puts back.
THEOREM ReuseIsAliveHolds == PoolSpec => ReuseIsAlive
<1>1. PoolTypeOK /\ [PoolNext]_poolVars =>
        [\A o \in Op : OpAt(o, "choosing") /\ op'[o].place = "using" =>
             op'[o].lease \notin shut]_poolVars
  BY TakenIsAlive DEF OpAt
<1> QED  BY <1>1, PoolTypeOKHolds, PTL DEF PoolSpec, ReuseIsAlive

(***************************************************************************)
(* Terminals.                                                              *)
(***************************************************************************)
\* NoShellLeaks and RegisteredIsServed with what keeps them: whoever needs the
\* handle finds it, a new shell waits in opened and nowhere else, and the size is
\* there when the new handle needs it.
Attempting == {"waiting", "connecting", "opening", "replacing"}

SessionInv(s) ==
    /\ reader[s] = "none" => handle[s] = None /\ alive[s] = {}
    /\ reader[s] \notin {"none", "ended"} \/ closer[s] = "closing" => handle[s] # None
    /\ reader[s] = "replacing" <=> opened[s] # None
    /\ reader[s] \in Attempting => wanted[s] \in Size

TerminalInv ==
    /\ TypeOK
    /\ \A s \in Session : SessionInv(s)
    /\ RegisteredIsServed
    /\ NoShellLeaks

\* A handle is never mistaken for no handle.
LEMMA HandleIsSome ==
  \A k \in Shell, c \in BOOLEAN, z \in Size : [shell |-> k, closed |-> c, size |-> z] # None
BY TerminalAssumption DEF Handle

LEMMA MarkedHandleIsSome == \A h \in Handle : [h EXCEPT !.closed = TRUE] # None
<1> TAKE h \in Handle
<1>1. [h EXCEPT !.closed = TRUE] \in Handle
  BY DEF Handle
<1> QED
  BY <1>1, TerminalAssumption

LEMMA InitTyped == Init => TypeOK
BY TerminalAssumption DEF Init, TypeOK, Place

\* Every step keeps the types; a new handle takes the size copied before.
LEMMA StepTyped == TerminalInv /\ [Next]_vars => TypeOK'
<1> SUFFICES ASSUME TerminalInv, [Next]_vars PROVE TypeOK'
  OBVIOUS
<1> USE TerminalAssumption DEF TerminalInv, TypeOK, Handle, Goto, Place
<1>stutter CASE UNCHANGED vars
  BY <1>stutter DEF vars
<1>1. ASSUME NEW s \in Session, NoticeEnd(s) PROVE TypeOK'
  BY <1>1 DEF NoticeEnd
<1>2. ASSUME NEW s \in Session, Capture(s) PROVE TypeOK'
  BY <1>2 DEF Capture, Return, Report, SessionInv, Attempting
<1>3. ASSUME NEW s \in Session, Wake(s) PROVE TypeOK'
  BY <1>3 DEF Wake, Return, SessionInv, Attempting
<1>4. ASSUME NEW s \in Session, Connect(s) PROVE TypeOK'
  BY <1>4 DEF Connect, NextAttempt, Report
<1>5. ASSUME NEW s \in Session, OpenPty(s) PROVE TypeOK'
  BY <1>5 DEF OpenPty, NextAttempt, Report, NewShell
<1>6. ASSUME NEW s \in Session, Replace(s) PROVE TypeOK'
  BY <1>6 DEF Replace, Report, SessionInv, Attempting
<1>7. ASSUME NEW s \in Session, Abandon(s) PROVE TypeOK'
  BY <1>7 DEF Abandon, Return, Report, SessionInv, Attempting
<1>8. ASSUME NEW s \in Session, NoticeError(s) PROVE TypeOK'
  BY <1>8 DEF NoticeError
<1>9. ASSUME NEW s \in Session, Remove(s) PROVE TypeOK'
  BY <1>9 DEF Remove
<1>10. ASSUME NEW s \in Session, NEW size \in Size, OpenTerminal(s, size) PROVE TypeOK'
  BY <1>10 DEF OpenTerminal, NewShell
<1>11. ASSUME NEW s \in Session, NEW size \in Size, Resize(s, size) PROVE TypeOK'
  BY <1>11 DEF Resize, RegisteredIsServed, SessionInv
<1>12. ASSUME NEW s \in Session, Shut(s) PROVE TypeOK'
  BY <1>12, ZenonT(40) DEF Shut, SessionInv
<1>13. ASSUME NEW s \in Session, Disconnect(s) PROVE TypeOK'
  BY <1>13 DEF Disconnect
<1> QED
  BY <1>stutter, <1>1, <1>2, <1>3, <1>4, <1>5, <1>6, <1>7, <1>8, <1>9, <1>10, <1>11, <1>12, <1>13 DEF Next, ReaderStep, OwnStep, User

\* Every step keeps each session's part of the invariant.
LEMMA StepKeepsSessions ==
  TerminalInv /\ TypeOK' /\ [Next]_vars => \A s \in Session : SessionInv(s)'
<1> SUFFICES ASSUME TerminalInv, TypeOK', [Next]_vars,
                    NEW u \in Session
             PROVE  SessionInv(u)'
  OBVIOUS
<1> USE TerminalAssumption DEF TerminalInv, TypeOK, Handle, Goto, Place, SessionInv, Attempting
<1>stutter CASE UNCHANGED vars
  BY <1>stutter DEF vars
<1>1. ASSUME NEW s \in Session, NoticeEnd(s) PROVE SessionInv(u)'
  BY <1>1 DEF NoticeEnd
<1>2. ASSUME NEW s \in Session, Capture(s) PROVE SessionInv(u)'
  BY <1>2 DEF Capture, Return
<1>3. ASSUME NEW s \in Session, Wake(s) PROVE SessionInv(u)'
  BY <1>3 DEF Wake, Return
<1>4. ASSUME NEW s \in Session, Connect(s) PROVE SessionInv(u)'
  BY <1>4 DEF Connect, NextAttempt
<1>5. ASSUME NEW s \in Session, OpenPty(s) PROVE SessionInv(u)'
  BY <1>5 DEF OpenPty, NextAttempt, NewShell
<1>6. ASSUME NEW s \in Session, Replace(s) PROVE SessionInv(u)'
  <2>1. opened[s] \in Shell /\ wanted[s] \in Size
    BY <1>6 DEF Replace
  <2>2. handle'[s] # None
    BY <1>6, <2>1, HandleIsSome, ZenonT(40) DEF Replace
  <2>3. CASE u = s
    <3>1. reader'[u] = "reading" /\ opened'[u] = None
      BY <1>6, <2>3 DEF Replace
    <3> QED
      BY <2>2, <2>3, <3>1
  <2>4. CASE u # s
    <3>1. /\ reader'[u] = reader[u] /\ opened'[u] = opened[u] /\ handle'[u] = handle[u]
          /\ alive'[u] = alive[u] /\ wanted'[u] = wanted[u] /\ closer'[u] = closer[u]
      BY <1>6, <2>4 DEF Replace
    <3> QED
      BY <3>1
  <2> QED
    BY <2>3, <2>4
<1>7. ASSUME NEW s \in Session, Abandon(s) PROVE SessionInv(u)'
  BY <1>7 DEF Abandon, Return
<1>8. ASSUME NEW s \in Session, NoticeError(s) PROVE SessionInv(u)'
  BY <1>8 DEF NoticeError
<1>9. ASSUME NEW s \in Session, Remove(s) PROVE SessionInv(u)'
  BY <1>9 DEF Remove, RegisteredIsServed
<1>10. ASSUME NEW s \in Session, NEW size \in Size, OpenTerminal(s, size)
       PROVE  SessionInv(u)'
  <2>1. PICK k \in Shell :
          /\ handle' = [handle EXCEPT ![s] = [shell |-> k, closed |-> FALSE, size |-> size]]
          /\ alive' = [alive EXCEPT ![s] = {k}]
    BY <1>10 DEF OpenTerminal, NewShell
  <2>2. handle'[s] # None
    BY <2>1, HandleIsSome
  <2>3. CASE u = s
    <3>1. reader'[u] = "reading" /\ opened'[u] = opened[u] /\ opened[u] = None
      BY <1>10, <2>3 DEF OpenTerminal
    <3> QED
      BY <2>2, <2>3, <3>1
  <2>4. CASE u # s
    <3>1. /\ reader'[u] = reader[u] /\ opened'[u] = opened[u] /\ handle'[u] = handle[u]
          /\ alive'[u] = alive[u] /\ wanted'[u] = wanted[u] /\ closer'[u] = closer[u]
      BY <1>10, <2>1, <2>4 DEF OpenTerminal
    <3> QED
      BY <3>1
  <2> QED
    BY <2>3, <2>4
<1>11. ASSUME NEW s \in Session, NEW size \in Size, Resize(s, size) PROVE SessionInv(u)'
  BY <1>11 DEF Resize, RegisteredIsServed
<1>12. ASSUME NEW s \in Session, Shut(s) PROVE SessionInv(u)'
  <2>1. reader' = reader /\ opened' = opened /\ wanted' = wanted
    BY <1>12 DEF Shut
  <2>2. CASE u = s
    <3>1. handle[s] # None /\ closer'[s] # "closing" /\ reader[s] # "none"
      BY <1>12 DEF Shut
    <3>2. reader[s] # "ended" => handle'[s] # None
      <4>1. handle[s] \in Handle
        BY <3>1
      <4>2. [handle[s] EXCEPT !.closed = TRUE] # None
        BY <4>1, MarkedHandleIsSome
      <4>3. reader[s] # "ended" => handle'[s] = [handle[s] EXCEPT !.closed = TRUE]
        BY <1>12 DEF Shut
      <4> QED
        BY <4>2, <4>3
    <3> QED
      BY <2>1, <2>2, <3>1, <3>2
  <2>3. CASE u # s
    <3>1. handle'[u] = handle[u] /\ alive'[u] = alive[u] /\ closer'[u] = closer[u]
      BY <1>12, <2>3 DEF Shut
    <3> QED
      BY <2>1, <3>1
  <2> QED
    BY <2>2, <2>3
<1>13. ASSUME NEW s \in Session, Disconnect(s) PROVE SessionInv(u)'
  BY <1>13 DEF Disconnect
<1> QED
  BY <1>stutter, <1>1, <1>2, <1>3, <1>4, <1>5, <1>6, <1>7, <1>8, <1>9, <1>10, <1>11, <1>12, <1>13 DEF Next, ReaderStep, OwnStep, User

\* Whoever ends a reader has taken its session out of the map.
LEMMA StepKeepsReaders ==
  TerminalInv /\ TypeOK' /\ [Next]_vars => RegisteredIsServed'
<1> SUFFICES ASSUME TerminalInv, TypeOK', [Next]_vars PROVE RegisteredIsServed'
  OBVIOUS
<1> USE DEF TerminalInv, TypeOK, Goto, Place, RegisteredIsServed
<1>stutter CASE UNCHANGED vars
  BY <1>stutter DEF vars
<1>1. ASSUME NEW s \in Session, NoticeEnd(s) PROVE RegisteredIsServed'
  BY <1>1 DEF NoticeEnd
<1>2. ASSUME NEW s \in Session, Capture(s) PROVE RegisteredIsServed'
  BY <1>2 DEF Capture, Return
<1>3. ASSUME NEW s \in Session, Wake(s) PROVE RegisteredIsServed'
  BY <1>3 DEF Wake, Return
<1>4. ASSUME NEW s \in Session, Connect(s) PROVE RegisteredIsServed'
  BY <1>4 DEF Connect, NextAttempt
<1>5. ASSUME NEW s \in Session, OpenPty(s) PROVE RegisteredIsServed'
  BY <1>5 DEF OpenPty, NextAttempt, NewShell
<1>6. ASSUME NEW s \in Session, Replace(s) PROVE RegisteredIsServed'
  BY <1>6 DEF Replace
<1>7. ASSUME NEW s \in Session, Abandon(s) PROVE RegisteredIsServed'
  BY <1>7 DEF Abandon, Return
<1>8. ASSUME NEW s \in Session, NoticeError(s) PROVE RegisteredIsServed'
  BY <1>8 DEF NoticeError
<1>9. ASSUME NEW s \in Session, Remove(s) PROVE RegisteredIsServed'
  BY <1>9 DEF Remove
<1>10. ASSUME NEW s \in Session, NEW size \in Size, OpenTerminal(s, size) PROVE RegisteredIsServed'
  BY <1>10 DEF OpenTerminal, NewShell
<1>11. ASSUME NEW s \in Session, NEW size \in Size, Resize(s, size) PROVE RegisteredIsServed'
  BY <1>11 DEF Resize
<1>12. ASSUME NEW s \in Session, Shut(s) PROVE RegisteredIsServed'
  BY <1>12 DEF Shut
<1>13. ASSUME NEW s \in Session, Disconnect(s) PROVE RegisteredIsServed'
  BY <1>13 DEF Disconnect
<1> QED
  BY <1>stutter, <1>1, <1>2, <1>3, <1>4, <1>5, <1>6, <1>7, <1>8, <1>9, <1>10, <1>11, <1>12, <1>13 DEF Next, ReaderStep, OwnStep, User

\* Whoever lets go of a handle closes its shell, and a new shell goes where the
\* reader will find it.
LEMMA StepLeaksNothing ==
  TerminalInv /\ TypeOK' /\ [Next]_vars => NoShellLeaks'
<1> SUFFICES ASSUME TerminalInv, TypeOK', [Next]_vars,
                    NEW u \in Session, NEW k \in alive'[u]
             PROVE  /\ reader'[u] \notin {"none", "ended"} \/ closer'[u] = "closing"
                    /\ \/ handle'[u] # None /\ k = handle'[u].shell
                       \/ reader'[u] = "replacing" /\ k = opened'[u]
  BY DEF NoShellLeaks
<1> USE TerminalAssumption DEF TerminalInv, TypeOK, Handle, Goto, Place, SessionInv, NoShellLeaks
<1> DEFINE Kept ==
      /\ reader'[u] \notin {"none", "ended"} \/ closer'[u] = "closing"
      /\ \/ handle'[u] # None /\ k = handle'[u].shell
         \/ reader'[u] = "replacing" /\ k = opened'[u]
<1>stutter CASE UNCHANGED vars
  BY <1>stutter DEF vars
<1>1. ASSUME NEW s \in Session, NoticeEnd(s) PROVE Kept
  BY <1>1 DEF NoticeEnd
<1>2. ASSUME NEW s \in Session, Capture(s) PROVE Kept
  BY <1>2 DEF Capture, Return
<1>3. ASSUME NEW s \in Session, Wake(s) PROVE Kept
  BY <1>3 DEF Wake, Return
<1>4. ASSUME NEW s \in Session, Connect(s) PROVE Kept
  BY <1>4 DEF Connect, NextAttempt
<1>5. ASSUME NEW s \in Session, OpenPty(s) PROVE Kept
  BY <1>5 DEF OpenPty, NextAttempt, NewShell
<1>6. ASSUME NEW s \in Session, Replace(s) PROVE Kept
  <2>1. opened[s] \in Shell /\ wanted[s] \in Size
    BY <1>6 DEF Replace, Attempting
  <2>2. CASE u = s
    <3>1. k = opened[s]
      BY <1>6, <2>2 DEF Replace
    <3>2. reader'[s] = "reading"
      BY <1>6 DEF Replace
    <3>3. handle'[s] = [shell |-> opened[s], closed |-> FALSE, size |-> wanted[s]]
      BY <1>6 DEF Replace
    <3>4. [shell |-> opened[s], closed |-> FALSE, size |-> wanted[s]] # None
      BY <2>1, HandleIsSome
    <3>5. handle'[s].shell = opened[s]
      BY <3>3
    <3> QED
      BY <2>2, <3>1, <3>2, <3>3, <3>4, <3>5
  <2>3. CASE u # s
    BY <1>6, <2>3 DEF Replace
  <2> QED
    BY <2>2, <2>3
<1>7. ASSUME NEW s \in Session, Abandon(s) PROVE Kept
  BY <1>7 DEF Abandon, Return
<1>8. ASSUME NEW s \in Session, NoticeError(s) PROVE Kept
  BY <1>8 DEF NoticeError
<1>9. ASSUME NEW s \in Session, Remove(s) PROVE Kept
  BY <1>9 DEF Remove, RegisteredIsServed
<1>10. ASSUME NEW s \in Session, NEW size \in Size, OpenTerminal(s, size) PROVE Kept
  <2>1. PICK m \in Shell :
          /\ handle' = [handle EXCEPT ![s] = [shell |-> m, closed |-> FALSE, size |-> size]]
          /\ alive' = [alive EXCEPT ![s] = {m}]
    BY <1>10 DEF OpenTerminal, NewShell
  <2>2. CASE u = s
    <3>1. k = m /\ reader'[s] = "reading"
      BY <1>10, <2>1, <2>2 DEF OpenTerminal
    <3>2. handle'[s] # None /\ handle'[s].shell = m
      BY <2>1, HandleIsSome, ZenonT(40)
    <3> QED
      BY <2>2, <3>1, <3>2
  <2>3. CASE u # s
    BY <1>10, <2>1, <2>3 DEF OpenTerminal
  <2> QED
    BY <2>2, <2>3
<1>11. ASSUME NEW s \in Session, NEW size \in Size, Resize(s, size) PROVE Kept
  BY <1>11 DEF Resize, RegisteredIsServed
<1>12. ASSUME NEW s \in Session, Shut(s) PROVE Kept
  BY <1>12 DEF Shut
<1>13. ASSUME NEW s \in Session, Disconnect(s) PROVE Kept
  BY <1>13 DEF Disconnect
<1> QED
  BY <1>stutter, <1>1, <1>2, <1>3, <1>4, <1>5, <1>6, <1>7, <1>8, <1>9, <1>10, <1>11, <1>12, <1>13 DEF Next, ReaderStep, OwnStep, User

LEMMA InitInv == Init => TerminalInv
BY InitTyped, TerminalAssumption
DEF Init, TerminalInv, SessionInv, Attempting, RegisteredIsServed, NoShellLeaks

\* TerminalInv is inductive.
THEOREM TerminalInvHolds == Spec => []TerminalInv
<1>1. TerminalInv /\ [Next]_vars => TerminalInv'
  BY StepTyped, StepKeepsSessions, StepKeepsReaders, StepLeaksNothing DEF TerminalInv
<1> QED
  BY InitInv, <1>1, PTL DEF Spec

\* The shape of the terminals' state; no reconnection exceeds MaxAttempts.
THEOREM TerminalTypeCorrect == Spec => []TypeOK
BY TerminalInvHolds, PTL DEF TerminalInv

\* A terminal in the map always has a reader.
THEOREM RegisteredIsServedHolds == Spec => []RegisteredIsServed
BY TerminalInvHolds, PTL DEF TerminalInv

\* However a close, a failure and a reconnection meet, no shell that is alive is
\* left without a reader or a close that answers for it.
THEOREM NoShellLeaksHolds == Spec => []NoShellLeaks
BY TerminalInvHolds, PTL DEF TerminalInv
=============================================================================
