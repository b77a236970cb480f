------------------------------ MODULE McpBroker ------------------------------
(***************************************************************************)
(* The MCP broker of the desktop application (src-tauri/src/mcp.rs and the *)
(* sidecar bin/cnshell-mcp.rs): a local listener that authenticates a      *)
(* registered client, admits a few of its requests, asks the user to       *)
(* approve what changes something, and executes it; the user may decide,   *)
(* change grants, revoke the client or switch the broker off meanwhile.    *)
(*                                                                         *)
(* One SSH connection; a path is inside the granted root, the root itself  *)
(* or outside; a command is plain (its exact text may be allowed again) or *)
(* risky; a session is named after the request that opened it.             *)
(***************************************************************************)
EXTENDS Naturals, FiniteSets, NoValue

CONSTANTS
    Client,      \* registered clients
    Req,         \* requests, each made once
    Asks,        \* bound of the model: the tools and paths each request may be for
    MaxInFlight, \* requests of a client in execution (2)
    MaxPending,  \* approvals of a client that may wait (10; 50 for all)
    MaxSessions, \* sessions of a client (4)
    MaxStarts,   \* bound on the starts of the broker
    MaxAdmin     \* bound on the changes of grants, clients and remote paths

ReadTools == {"list_connections", "open_session", "close_session", "file_list", "file_read",
              "system_info"}
Transfers == {"file_upload", "file_download"}
Changes == {"file_write", "file_mkdir", "file_rename", "file_delete"} \union Transfers
Tools == ReadTools \union {"run_command"} \union Changes

ASSUME BrokerAssumption ==
    /\ None \notin {"reject", "once", "session", "saved"}
    /\ Asks \subseteq Req \X Tools \X {"inside", "root", "outside"}
    /\ MaxInFlight \in Nat /\ MaxPending \in Nat /\ MaxSessions \in Nat
    /\ MaxStarts \in Nat /\ MaxAdmin \in Nat

VARIABLES
    enabled,   \* the setting
    starting,  \* starts that found the broker stopped and did not set it running yet
    broker,    \* the generation that is running, 0 without one
    starts,    \* generations so far
    listeners, \* generations whose listener has not been cancelled
    client,    \* "unbound", "bound" to its sidecar and secret, or "revoked"
    granted,   \* clients with tool grants
    backoff,   \* clients that failed to authenticate and have to wait
    local,     \* the local grant of each client: "none", "used", or the transfer it is for
    standing,  \* clients whose local grant is persistent
    cutting,   \* clients whose row has changed and whose runtime access has not
    swapped,   \* whether the remote path leads out of the root by now
    admin,     \* number of changes so far
    req,       \* the requests
    mcpSessions,  \* McpRuntime.mcpSessions
    approvals,   \* McpRuntime.approvals
    activeReqs,    \* McpRuntime.active_requests
    inFlight,  \* McpRuntime.in_flight
    targets,   \* McpRuntime.transfer_targets
    rules,     \* session_rules and mcp_approval_rules: <<client, "session" or "saved">>
    confirmed, \* McpRuntime.confirmed_connections
    agreed     \* requests the user said yes to, and clients whose command he allowed

switchVars == <<enabled, starting, broker, starts, listeners>>
rosterVars == <<client, granted, backoff, local, standing, cutting, swapped, admin>>
runtimeVars == <<mcpSessions, approvals, activeReqs, inFlight, targets, rules, confirmed>>
mcpVars == <<switchVars, rosterVars, runtimeVars, req, agreed>>

NewReq == [place |-> "new", client |-> None, tool |-> None, gen |-> 0, path |-> None,
           plain |-> FALSE, decision |-> None, cancelled |-> FALSE, effect |-> FALSE]

McpInit ==
    /\ enabled = FALSE /\ starting = 0 /\ broker = 0 /\ starts = 0 /\ listeners = {}
    /\ client = [c \in Client |-> "unbound"]
    /\ granted = {} /\ backoff = {} /\ cutting = {} /\ swapped = FALSE /\ admin = 0
    /\ local = [c \in Client |-> "none"] /\ standing = {}
    /\ req = [r \in Req |-> NewReq]
    /\ mcpSessions = {} /\ approvals = {} /\ activeReqs = {} /\ targets = {}
    /\ inFlight = [c \in Client |-> 0]
    /\ rules = {} /\ confirmed = {} /\ agreed = {}

ReqAt(r, place) == req[r].place = place
PutReq(r, place) == req' = [req EXCEPT ![r].place = place]
OfClient(c, requests) == {r \in requests : req[r].client = c}

(***************************************************************************)
(* set_enabled, start and stop.  A start looks at running once, binds its  *)
(* listener and only then sets running.                                    *)
(***************************************************************************)
EnableBroker ==
    /\ enabled' = TRUE
    /\ starting' = IF broker = 0 THEN starting + 1 ELSE starting
    /\ starting < 2 /\ starts < MaxStarts
    /\ UNCHANGED <<broker, starts, listeners, rosterVars, runtimeVars, req, agreed>>

StartBroker ==
    /\ starting > 0 /\ starts < MaxStarts
    /\ starting' = starting - 1
    /\ starts' = starts + 1
    /\ broker' = starts'
    /\ listeners' = listeners \union {starts'}
    /\ UNCHANGED <<enabled, rosterVars, runtimeVars, req, agreed>>

RejectAll(requests) ==
    [r \in Req |-> IF r \in requests /\ req[r].decision = None
                   THEN [req[r] EXCEPT !.decision = "reject"] ELSE req[r]]

CancelAll(requests, of) ==
    [r \in Req |-> IF r \in requests THEN [of[r] EXCEPT !.cancelled = TRUE] ELSE of[r]]

\* The requests in execution keep their permits while the counters are reset.
DisableBroker ==
    /\ enabled
    /\ enabled' = FALSE
    /\ listeners' = listeners \ {broker}
    /\ broker' = 0
    /\ req' = CancelAll(activeReqs, RejectAll(approvals))
    /\ mcpSessions' = {} /\ approvals' = {} /\ activeReqs' = {} /\ targets' = {}
    /\ inFlight' = [c \in Client |-> 0]
    /\ rules' = {rule \in rules : rule[2] = "saved"}
    /\ confirmed' = {} /\ backoff' = {}
    /\ UNCHANGED <<starting, starts, client, granted, local, standing, cutting, swapped, admin, agreed>>

(***************************************************************************)
(* A request: broker_operation_call in the sidecar, handle_stream and      *)
(* execute_request in the broker.                                          *)
(***************************************************************************)
SendRequest(r, c, tool, path, plain) ==
    /\ ReqAt(r, "new") /\ broker # 0
    /\ req' = [req EXCEPT ![r] = [NewReq EXCEPT !.place = "sent", !.client = c, !.tool = tool,
                                                !.gen = broker, !.path = path, !.plain = plain]]
    /\ UNCHANGED <<switchVars, rosterVars, runtimeVars, agreed>>

\* Without a listener of its generation, or while its client has to wait, it is refused.
Receive(r) ==
    /\ ReqAt(r, "sent")
    /\ PutReq(r, IF req[r].gen \in listeners /\ req[r].client \notin backoff
              THEN "authenticating" ELSE "failed")
    /\ UNCHANGED <<switchVars, rosterVars, runtimeVars, agreed>>

AuthenticateClient(r) ==
    /\ ReqAt(r, "authenticating")
    /\ LET c == req[r].client IN
       IF client[c] = "bound"
       THEN PutReq(r, "known") /\ backoff' = backoff \ {c}
       ELSE PutReq(r, "failed") /\ backoff' = backoff \union {c}
    /\ UNCHANGED <<switchVars, client, granted, local, standing, cutting, swapped, admin, runtimeVars,
                   agreed>>

BackoffEnds(c) ==
    /\ c \in backoff
    /\ backoff' = backoff \ {c}
    /\ UNCHANGED <<switchVars, client, granted, local, standing, cutting, swapped, admin, req,
                   runtimeVars, agreed>>

\* acquire_execution, register_request, authorize_rate: one look at the runtime.
Admit(r) ==
    /\ ReqAt(r, "known")
    /\ LET c == req[r].client IN
       \/ /\ inFlight[c] < MaxInFlight
          /\ inFlight' = [inFlight EXCEPT ![c] = @ + 1]
          /\ activeReqs' = activeReqs \union {r}
          /\ PutReq(r, "admitted")
       \/ PutReq(r, "failed") /\ UNCHANGED <<inFlight, activeReqs>>
    /\ UNCHANGED <<switchVars, rosterVars, mcpSessions, approvals, targets, rules, confirmed, agreed>>

\* The permits of a request go with it.
ReleaseReq(r) ==
    /\ inFlight' = [inFlight EXCEPT ![req[r].client] = IF @ > 0 THEN @ - 1 ELSE 0]
    /\ activeReqs' = activeReqs \ {r}
    /\ targets' = IF ReqAt(r, "transferring") THEN {} ELSE targets

\* What a request was for is forgotten with it, except by an effect.
EndReq(r, how) ==
    /\ req' = [req EXCEPT ![r] = [NewReq EXCEPT !.place = how, !.client = req[r].client]]
    /\ ReleaseReq(r)

\* An error at any of its steps.
ToolFails(r) ==
    /\ req[r].place \in {"admitted", "asking", "approved", "checked", "executing", "transferring"}
    /\ EndReq(r, "failed")
    /\ UNCHANGED <<switchVars, rosterVars, mcpSessions, approvals, rules, confirmed, agreed>>

(***************************************************************************)
(* The tools.  A tool on a session wants a session of its client, a grant  *)
(* for the tool, and a path within the root that the server confirms.      *)
(***************************************************************************)
OnSession(r) ==
    /\ OfClient(req[r].client, mcpSessions) # {}
    /\ req[r].client \in granted
    /\ req[r].path # "outside" /\ ~swapped

ListConnections(r) ==
    /\ ReqAt(r, "admitted") /\ req[r].tool = "list_connections"
    /\ EndReq(r, "done")
    /\ UNCHANGED <<switchVars, rosterVars, mcpSessions, approvals, rules, confirmed, agreed>>

NewSession(r) ==
    IF Cardinality(OfClient(req[r].client, mcpSessions)) < MaxSessions
    THEN mcpSessions' = mcpSessions \union {r} /\ EndReq(r, "done")
    ELSE mcpSessions' = mcpSessions /\ EndReq(r, "failed")

\* The first session of a client is for the user to allow.
OpenSession(r) ==
    /\ req[r].tool = "open_session"
    /\ \/ /\ ReqAt(r, "admitted") /\ req[r].client \in granted
          /\ IF req[r].client \in confirmed
             THEN NewSession(r)
             ELSE PutReq(r, "asking") /\ UNCHANGED <<mcpSessions, activeReqs, inFlight, targets>>
          /\ UNCHANGED confirmed
       \/ /\ ReqAt(r, "approved")
          /\ confirmed' = confirmed \union {req[r].client}
          /\ NewSession(r)
    /\ UNCHANGED <<switchVars, rosterVars, approvals, rules, agreed>>

CloseSession(r) ==
    /\ ReqAt(r, "admitted") /\ req[r].tool = "close_session"
    /\ \E s \in OfClient(req[r].client, mcpSessions) : mcpSessions' = mcpSessions \ {s}
    /\ EndReq(r, "done")
    /\ UNCHANGED <<switchVars, rosterVars, approvals, rules, confirmed, agreed>>

\* remove_expired_sessions, by whoever looks at the sessions next.
ExpireSession(s) ==
    /\ s \in mcpSessions
    /\ mcpSessions' = mcpSessions \ {s}
    /\ UNCHANGED <<switchVars, rosterVars, req, approvals, activeReqs, inFlight, targets, rules,
                   confirmed, agreed>>

ReadFile(r) ==
    /\ ReqAt(r, "admitted") /\ req[r].tool \in {"file_list", "file_read"} /\ OnSession(r)
    /\ EndReq(r, "done")
    /\ UNCHANGED <<switchVars, rosterVars, mcpSessions, approvals, rules, confirmed, agreed>>

SystemInfo(r) ==
    /\ ReqAt(r, "admitted") /\ req[r].tool = "system_info" /\ OnSession(r)
    /\ EndReq(r, "done")
    /\ UNCHANGED <<switchVars, rosterVars, mcpSessions, approvals, rules, confirmed, agreed>>

AskUser(r) ==
    /\ ReqAt(r, "admitted") /\ OnSession(r)
    /\ PutReq(r, "asking")
    /\ UNCHANGED <<switchVars, rosterVars, runtimeVars, agreed>>

AskCommand(r) == req[r].tool = "run_command" /\ AskUser(r)
AskWrite(r) == req[r].tool = "file_write" /\ AskUser(r)
AskMkdir(r) == req[r].tool = "file_mkdir" /\ AskUser(r)
AskRename(r) == req[r].tool = "file_rename" /\ AskUser(r)
AskDelete(r) == req[r].tool = "file_delete" /\ req[r].path # "root" /\ AskUser(r)

\* A transfer also wants a local grant that nobody used; approve_transfer comes next.
HasLocalGrant(r) == local[req[r].client] = req[r].tool
AskUpload(r) == req[r].tool = "file_upload" /\ HasLocalGrant(r) /\ AskUser(r)
AskDownload(r) == req[r].tool = "file_download" /\ HasLocalGrant(r) /\ AskUser(r)

(***************************************************************************)
(* request_approval: a rule that applies, or the user within 120 seconds.  *)
(* The entry stays in the queue until the request takes the decision.      *)
(***************************************************************************)
Ruled(r) == req[r].tool = "run_command" /\ req[r].plain /\ \E kind \in {"session", "saved"} :
                <<req[r].client, kind>> \in rules

RequestApproval(r) ==
    /\ ReqAt(r, "asking")
    /\ \/ Ruled(r) /\ PutReq(r, "approved") /\ UNCHANGED <<approvals, activeReqs, inFlight, targets>>
       \/ /\ ~Ruled(r) /\ Cardinality(OfClient(req[r].client, approvals)) < MaxPending
          /\ approvals' = approvals \union {r}
          /\ PutReq(r, "waiting")
          /\ UNCHANGED <<activeReqs, inFlight, targets>>
       \/ /\ ~Ruled(r) /\ Cardinality(OfClient(req[r].client, approvals)) >= MaxPending
          /\ EndReq(r, "failed")
          /\ UNCHANGED approvals
    /\ UNCHANGED <<switchVars, rosterVars, mcpSessions, rules, confirmed, agreed>>

decide(r, decision) ==
    /\ r \in approvals /\ req[r].decision = None
    /\ decision \in {"session", "saved"} => req[r].tool = "run_command" /\ req[r].plain
    /\ req' = [req EXCEPT ![r].decision = decision]
    /\ agreed' = agreed \union
         (IF decision = "reject" THEN {}
          ELSE {r} \union (IF decision = "once" THEN {} ELSE {<<req[r].client, decision>>}))
    /\ UNCHANGED <<switchVars, rosterVars, runtimeVars>>

\* A decision for the session or for good becomes a rule for the exact command.
KeepRule(r) ==
    rules' = IF req[r].decision \in {"session", "saved"}
             THEN rules \union {<<req[r].client, req[r].decision>>} ELSE rules

\* Fault: whoever waited long enough goes on.
TimeoutApproves(r) ==
    /\ ReqAt(r, "waiting")
    /\ approvals' = approvals \ {r}
    /\ IF req[r].decision = "reject"
       THEN EndReq(r, "failed") ELSE PutReq(r, "approved") /\ UNCHANGED <<activeReqs, inFlight, targets>>
    /\ KeepRule(r)
    /\ UNCHANGED <<switchVars, rosterVars, mcpSessions, confirmed, agreed>>

\* Fault: the request waits for a decision, however long it takes.
WaitForUser(r) ==
    /\ ReqAt(r, "waiting") /\ req[r].decision # None
    /\ approvals' = approvals \ {r}
    /\ IF req[r].decision = "reject"
       THEN EndReq(r, "failed") ELSE PutReq(r, "approved") /\ UNCHANGED <<activeReqs, inFlight, targets>>
    /\ KeepRule(r)
    /\ UNCHANGED <<switchVars, rosterVars, mcpSessions, confirmed, agreed>>

\* The decision, or the end of the 120 seconds, which rejects.
TakeDecision(r) ==
    /\ ReqAt(r, "waiting")
    /\ approvals' = approvals \ {r}
    /\ IF req[r].decision \in {"reject", None}
       THEN EndReq(r, "failed") ELSE PutReq(r, "approved") /\ UNCHANGED <<activeReqs, inFlight, targets>>
    /\ KeepRule(r)
    /\ UNCHANGED <<switchVars, rosterVars, mcpSessions, confirmed, agreed>>

\* ensure_not_cancelled and the path once more, for what changes a file.
Revalidate(r) ==
    /\ ReqAt(r, "approved") /\ req[r].tool \in Changes
    /\ IF req[r].cancelled \/ swapped
       THEN EndReq(r, "failed")
       ELSE /\ PutReq(r, IF req[r].tool \in Transfers THEN "checked" ELSE "executing")
            /\ UNCHANGED <<activeReqs, inFlight, targets>>
    /\ UNCHANGED <<switchVars, rosterVars, mcpSessions, approvals, rules, confirmed, agreed>>

\* A persistent grant stays as it is, and nobody looks at its row again; the row of
\* another is taken only while it is unused.
consume_local_grant(r) ==
    \/ req[r].client \in standing /\ UNCHANGED local
    \/ /\ req[r].client \notin standing /\ HasLocalGrant(r)
       /\ local' = [local EXCEPT ![req[r].client] = "used"]

\* One transfer for a target at a time, and one for a grant.
StartTransfer(r) ==
    /\ ReqAt(r, "checked") /\ targets = {}
    /\ consume_local_grant(r)
    /\ targets' = {r}
    /\ PutReq(r, "transferring")
    /\ UNCHANGED <<switchVars, client, granted, backoff, standing, cutting, swapped, admin, mcpSessions,
                   approvals, activeReqs, inFlight, rules, confirmed, agreed>>

\* A command is sent before its cancellation is looked at.
RunCommand(r) ==
    /\ ReqAt(r, "approved") /\ req[r].tool = "run_command"
    /\ req' = [req EXCEPT ![r].place = "done", ![r].effect = TRUE]
    /\ ReleaseReq(r)
    /\ UNCHANGED <<switchVars, rosterVars, mcpSessions, approvals, rules, confirmed, agreed>>

ExecuteTool(r) ==
    /\ req[r].place \in {"executing", "transferring"} /\ ~req[r].cancelled
    /\ req' = [req EXCEPT ![r].place = "done", ![r].effect = TRUE]
    /\ ReleaseReq(r)
    /\ UNCHANGED <<switchVars, rosterVars, mcpSessions, approvals, rules, confirmed, agreed>>

\* The sidecar hangs up while its request is in execution.
HangUp(r) ==
    /\ r \in activeReqs /\ ~req[r].cancelled
    /\ req' = CancelAll({r}, RejectAll({r} \intersect approvals))
    /\ approvals' = approvals \ {r}
    /\ UNCHANGED <<switchVars, rosterVars, mcpSessions, activeReqs, inFlight, targets, rules, confirmed,
                   agreed>>

(***************************************************************************)
(* The user's commands.  A change of the grants and a revocation write the *)
(* row, and then cut what the client has in the runtime.                   *)
(***************************************************************************)
Administer ==
    /\ admin < MaxAdmin
    /\ admin' = admin + 1
    /\ UNCHANGED <<switchVars, backoff, mcpSessions, approvals, activeReqs, inFlight, targets, confirmed,
                   req, agreed>>

\* client_config: the sidecar makes the secret, the row takes its digest.
BindClient(c) ==
    /\ client[c] = "unbound"
    /\ client' = [client EXCEPT ![c] = "bound"]
    /\ Administer /\ UNCHANGED <<granted, local, standing, cutting, swapped, rules>>

SaveGrants(c, grants) ==
    /\ client[c] # "revoked"
    /\ granted' = IF grants THEN granted \union {c} ELSE granted \ {c}
    /\ rules' = rules \ {<<c, "saved">>}
    /\ cutting' = cutting \union {c}
    /\ Administer /\ UNCHANGED <<client, local, standing, swapped>>

RevokeClient(c) ==
    /\ client[c] # "revoked"
    /\ client' = [client EXCEPT ![c] = "revoked"]
    /\ cutting' = cutting \union {c}
    /\ Administer /\ UNCHANGED <<granted, local, standing, swapped, rules>>

CreateLocalGrant(c, direction, persistent) ==
    /\ client[c] # "revoked" /\ local[c] = "none"
    /\ local' = [local EXCEPT ![c] = direction]
    /\ standing' = IF persistent THEN standing \union {c} ELSE standing
    /\ Administer /\ UNCHANGED <<client, granted, cutting, swapped, rules>>

RevokeLocalGrant(c) ==
    /\ local[c] \in Transfers
    /\ local' = [local EXCEPT ![c] = "used"]
    /\ Administer /\ UNCHANGED <<client, granted, standing, cutting, swapped, rules>>

RevokeRule(c) ==
    /\ <<c, "saved">> \in rules
    /\ rules' = rules \ {<<c, "saved">>}
    /\ Administer /\ UNCHANGED <<client, granted, local, standing, cutting, swapped>>

\* Somebody on the server replaces a directory of the path by a link.
SwapPath ==
    /\ swapped' = ~swapped
    /\ Administer /\ UNCHANGED <<client, granted, local, standing, cutting, rules>>

\* revoke_runtime_access, invalidate_client_authorizations; a revoked client loses its
\* local grants afterwards.
CutAccess(c) ==
    /\ c \in cutting
    /\ cutting' = cutting \ {c}
    /\ mcpSessions' = mcpSessions \ OfClient(c, mcpSessions)
    /\ approvals' = approvals \ OfClient(c, approvals)
    /\ req' = CancelAll(OfClient(c, activeReqs), RejectAll(OfClient(c, approvals)))
    /\ rules' = rules \ {<<c, "session">>}
    /\ confirmed' = confirmed \ {c}
    /\ local' = [local EXCEPT ![c] = IF client[c] = "revoked" /\ @ \in Transfers THEN "used" ELSE @]
    /\ UNCHANGED <<switchVars, client, granted, backoff, standing, swapped, admin, activeReqs,
                   inFlight, targets, agreed>>

RequestStep(r) ==
    \/ Receive(r) \/ AuthenticateClient(r) \/ Admit(r)
    \/ ListConnections(r) \/ OpenSession(r) \/ CloseSession(r) \/ ReadFile(r) \/ SystemInfo(r)
    \/ AskCommand(r) \/ AskWrite(r) \/ AskMkdir(r) \/ AskRename(r) \/ AskDelete(r)
    \/ AskUpload(r) \/ AskDownload(r)
    \/ RequestApproval(r) \/ TakeDecision(r) \/ Revalidate(r) \/ StartTransfer(r)
    \/ RunCommand(r) \/ ExecuteTool(r) \/ ToolFails(r)

McpNext ==
    \/ EnableBroker \/ StartBroker \/ DisableBroker \/ SwapPath
    \/ \E r \in Req :
         \/ RequestStep(r) \/ HangUp(r) \/ ExpireSession(r)
         \/ \E decision \in {"reject", "once", "session", "saved"} : decide(r, decision)
         \/ \E c \in Client, ask \in Asks, plain \in BOOLEAN :
              /\ ask[1] = r
              /\ ask[2] # "run_command" => ~plain
              /\ SendRequest(r, c, ask[2], ask[3], plain)
    \/ \E c \in Client :
         \/ BackoffEnds(c) \/ BindClient(c) \/ RevokeClient(c) \/ CutAccess(c)
         \/ RevokeLocalGrant(c) \/ RevokeRule(c)
         \/ \E direction \in Transfers, persistent \in BOOLEAN :
              CreateLocalGrant(c, direction, persistent)
         \/ \E grants \in BOOLEAN : SaveGrants(c, grants)

McpSpec == McpInit /\ [][McpNext]_mcpVars

\* Where a request waits for a server without a time-out: for the transport of a
\* command, whose handshake has none, and for each answer of a transfer.
Unbounded(r) ==
    \/ ReqAt(r, "admitted") /\ req[r].tool = "system_info"
    \/ ReqAt(r, "approved") /\ req[r].tool = "run_command"
    \/ ReqAt(r, "transferring")

\* The runtime polls every request; the other answers have a time-out.
McpFairness == \A r \in Req : WF_mcpVars(~Unbounded(r) /\ RequestStep(r))

(***************************************************************************)
(* Properties                                                              *)
(***************************************************************************)

McpTypeOK ==
    /\ broker \in 0..MaxStarts /\ listeners \subseteq 1..MaxStarts
    /\ client \in [Client -> {"unbound", "bound", "revoked"}]
    /\ approvals \subseteq Req /\ activeReqs \subseteq Req /\ mcpSessions \subseteq Req
    /\ inFlight \in [Client -> 0..MaxInFlight]
    /\ \A c \in Client : Cardinality(OfClient(c, mcpSessions)) <= MaxSessions

\* mcp.rs:622, 2264, 1931: nothing is changed on a server without a yes of the user to
\* that request, or to the same plain command; nothing outside the granted root; and a
\* grant for one transfer, unless persistent, serves one, however many requests found
\* it unused.
EffectsAreAuthorised ==
    /\ \A r \in Req : req[r].effect =>
         /\ r \in agreed \/ (req[r].plain /\ \E kind \in {"session", "saved"} :
                                                <<req[r].client, kind>> \in agreed)
         /\ req[r].path # "outside" /\ (req[r].tool = "file_delete" => req[r].path = "inside")
    /\ \A c \in Client \ standing :
         Cardinality({r \in Req : req[r].effect /\ req[r].client = c /\ req[r].tool \in Transfers})
           <= 1

\* mcp.rs:3024: whatever the requests of a client were doing when it was revoked, they
\* come to an end, those that wait for the user included; only one that a server never
\* answers, where the code sets no time-out, goes on.
RevokedRequestsEnd ==
    \A r \in Req, c \in Client :
        \/ <>[]Unbounded(r)
        \/ client[c] = "revoked" ~>
             (req[r].client = c => req[r].place \in {"done", "failed"})
=============================================================================
