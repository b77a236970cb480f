------------------------------ MODULE MCLines ------------------------------
(***************************************************************************)
(* The sessions that are not SSH terminals, what moves over their lines,   *)
(* the desktop as a device of a relay workspace, and its plugins, side by  *)
(* side for TLC as in MCComponents: a behaviour is one of the component    *)
(* named by part, and of the sessions without a component of their own the *)
(* one named.                                                              *)
(***************************************************************************)
EXTENDS ChildSession, SerialSession, BlockTransfer, RelayMembership, PluginTrust,
        ZmodemSession

CONSTANTS
    y1, y2,                       \* SerialSession
    d1, d2, j1, j2,               \* RelayMembership
    v1, v2, c1, c2,               \* PluginTrust
    Parts                         \* the components checked

VARIABLE part

linesVars == <<part, childVars, serialVars, blockVars, membershipVars, pluginVars,
               zmodemVars>>

\* A transfer of each way to run, on one line.
MCTransfer == {y1, y2}
MCModem == {y1}

\* Two ids to draw, for two commands at a time.
MCFresh == {d1, d2}
MCJob == {j1, j2}

MCVersion == {v1, v2}
MCCall == {c1, c2}

MCParts == Kind \union {"serial", "blocks", "membership", "plugin", "zmodem"}
MCSerial == {"serial"}
MCZmodem == {"zmodem"}

LinesInit ==
    /\ part \in Parts /\ SerialInit
    /\ ChildInit /\ child.kind = (IF part \in Kind THEN part ELSE "local")
    /\ BlocksInit /\ (ymodem \/ part = "blocks")
    /\ MembershipInit /\ (site.epoch = 1 \/ part = "membership")
    /\ PluginInit /\ files.module = v1 /\ (publisher = "unknown" \/ part = "plugin")
    /\ ZmodemInit

LinesNext ==
    /\ UNCHANGED part
    /\ \/ /\ part \in Kind /\ ChildNext
          /\ UNCHANGED <<serialVars, blockVars, membershipVars, pluginVars, zmodemVars>>
       \/ /\ part = "serial" /\ SerialNext
          /\ UNCHANGED <<childVars, blockVars, membershipVars, pluginVars, zmodemVars>>
       \/ /\ part = "blocks" /\ BlocksNext
          /\ UNCHANGED <<childVars, serialVars, membershipVars, pluginVars, zmodemVars>>
       \/ /\ part = "membership" /\ MembershipNext
          /\ UNCHANGED <<childVars, serialVars, blockVars, pluginVars, zmodemVars>>
       \/ /\ part = "plugin" /\ PluginNext
          /\ UNCHANGED <<childVars, serialVars, blockVars, membershipVars, zmodemVars>>
       \/ /\ part = "zmodem" /\ ZmodemNext
          /\ UNCHANGED <<childVars, serialVars, blockVars, membershipVars, pluginVars>>

LinesTypesOK ==
    /\ ChildTypeOK /\ SerialTypeOK /\ BlocksTypeOK /\ MembershipTypeOK /\ PluginTypeOK
    /\ ZmodemTypeOK

LinesSpec == LinesInit /\ [][LinesNext]_linesVars /\ ChildFairness /\ SerialFairness
=============================================================================
