-------------------------------- MODULE MCMcp --------------------------------
(***************************************************************************)
(* McpBroker for TLC: the instances of MCDesktop and MCShared.             *)
(***************************************************************************)
EXTENDS McpBroker

CONSTANTS a1, r1, r2, r3, r4

(***************************************************************************)
(* An MCP client with four requests.                                       *)
(***************************************************************************)
MCClient == {a1}
MCReq == {r1, r2, r3, r4}
MCAsks ==
    ({r1} \X {"open_session", "file_upload", "file_delete"} \X {"inside"})
    \union ({r2} \X {"file_upload", "run_command"} \X {"inside"})
    \union ({r4} \X Tools \X {"inside", "root", "outside"})

\* A client that registers and asks; a client with a session, whose requests meet, or
\* that uses each of the tools.
McpQuiet ==
    /\ starting = 0 /\ backoff = {} /\ cutting = {} /\ swapped = FALSE
    /\ approvals = {} /\ activeReqs = {} /\ targets = {}
    /\ inFlight = [c \in Client |-> 0]
    /\ rules = {} /\ agreed = {} /\ standing = {}

McpCold ==
    /\ enabled = FALSE /\ broker = 0 /\ starts = 0 /\ listeners = {}
    /\ client = [c \in Client |-> "unbound"]
    /\ granted = {} /\ admin = 0 /\ mcpSessions = {} /\ confirmed = {}
    /\ local = [c \in Client |-> "none"]
    /\ req = [r \in Req |-> IF r = r1 THEN NewReq ELSE [NewReq EXCEPT !.place = "failed"]]

McpWarm(live, grants) ==
    /\ enabled = TRUE /\ broker = 1 /\ starts = 1 /\ listeners = {1}
    /\ client = [c \in Client |-> "bound"]
    /\ granted = Client /\ admin = MaxAdmin - 1 /\ mcpSessions = {r3} /\ confirmed = Client
    /\ local \in [Client -> grants]
    /\ req = [r \in Req |->
          IF r = r3 THEN [NewReq EXCEPT !.place = "done", !.client = a1]
          ELSE IF r \in live THEN NewReq ELSE [NewReq EXCEPT !.place = "failed"]]

McpMeeting == McpQuiet /\ McpWarm({r1, r2}, {"file_upload"})
McpAnyTool == McpQuiet /\ McpWarm({r4}, {"none"} \union Transfers)

McpAlone == McpAnyTool \/ (McpQuiet /\ McpCold)

McpStart ==
    \/ McpAlone
    \/ McpMeeting
=============================================================================
