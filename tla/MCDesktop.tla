----------------------------- MODULE MCDesktop -----------------------------
(***************************************************************************)
(* Desktop components that share no state, side by side for TLC, as in     *)
(* MCComponents: a behaviour is one of the component named by part, with   *)
(* the others at rest.  A component at rest has no step that its fairness  *)
(* asks for.                                                               *)
(***************************************************************************)
EXTENDS SshTerminal, MCMcp, TaskRegistry, Batch, Forwarding

CONSTANTS
    s1, k1, k2, k3, small, large, \* SshTerminal
    n1, n2, n3,                   \* Batch
    p1, c1, c2,                   \* Forwarding
    Parts                         \* the components checked

VARIABLE part

jobVars == <<taskVars, batchVars>>
forwardVars == <<tunnelVars, bridgeVars, x11Vars>>
desktopVars == <<part, vars, mcpVars, jobVars, forwardVars>>

(***************************************************************************)
(* A terminal with three shells.                                           *)
(***************************************************************************)
MCSession == {s1}
MCShell == {k1, k2, k3}
MCSize == {small, large}

(***************************************************************************)
(* Plans whose steps are of each kind, and a script that needs a local     *)
(* path; tasks share nothing, so there is one.  Three targets of a batch.  *)
(***************************************************************************)
MCPlan == {<<"command", "transfer">>, <<"condition", "command">>}
MCScript ==
    {[calls |-> <<"upload">>, permissions |-> {"transferUpload"}, listed |-> b] : b \in BOOLEAN}

MCConnection == {n1, n2, n3}

(***************************************************************************)
(* A tunnel started twice; two channels for one place.                     *)
(***************************************************************************)
MCForwardId == {p1}
MCXChannel == {c1, c2}

(***************************************************************************)
(* The components side by side.                                            *)
(***************************************************************************)
MCParts == {"terminal", "mcp", "task", "batch", "tunnel", "bridge", "x11"}
MCTerminal == {"terminal"}

DesktopInit ==
    /\ part \in Parts
    /\ Init /\ TaskInit /\ BatchInit /\ TunnelInit /\ BridgeInit /\ X11Init
    /\ IF part = "mcp" THEN McpAlone ELSE McpInit

DesktopNext ==
    \/ part = "terminal" /\ Next /\ UNCHANGED <<part, mcpVars, jobVars, forwardVars>>
    \/ part = "mcp" /\ McpNext /\ UNCHANGED <<part, vars, jobVars, forwardVars>>
    \/ /\ part = "task" /\ TaskNext
       /\ UNCHANGED <<part, vars, mcpVars, batchVars, forwardVars>>
    \/ /\ part = "batch" /\ BatchNext
       /\ UNCHANGED <<part, vars, mcpVars, taskVars, forwardVars>>
    \/ /\ part = "tunnel" /\ TunnelNext
       /\ UNCHANGED <<part, vars, mcpVars, jobVars, bridgeVars, x11Vars>>
    \/ /\ part = "bridge" /\ BridgeNext
       /\ UNCHANGED <<part, vars, mcpVars, jobVars, tunnelVars, x11Vars>>
    \/ /\ part = "x11" /\ X11Next
       /\ UNCHANGED <<part, vars, mcpVars, jobVars, tunnelVars, bridgeVars>>

DesktopTypesOK == TypeOK /\ TaskTypeOK /\ BatchTypeOK /\ ForwardingTypeOK

DesktopSpec ==
    /\ DesktopInit /\ [][DesktopNext]_desktopVars
    /\ Fairness /\ McpFairness /\ TaskFairness /\ BatchFairness /\ ForwardingFairness
=============================================================================
