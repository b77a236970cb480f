------------------------- MODULE Automation_proofs --------------------------
(***************************************************************************)
(* Proofs about what acts while nobody looks.  McpBroker: for any number   *)
(* of clients, requests, starts and changes by the user, an effect on a    *)
(* server was agreed to, stays within the granted root, and one grant for  *)
(* a transfer serves one transfer.  Scheduler: for any number of           *)
(* schedules, edits, rounds and starts, and for any clock, no occurrence   *)
(* runs twice, but for the edits and the expressions named there.          *)
(* TaskRegistry: an end is final, and who waits in the window agrees with  *)
(* it.  Batch: a batch that has ended is settled, and kept to its limit.   *)
(***************************************************************************)
EXTENDS McpBroker, Scheduler, TaskRegistry, Batch, FiniteSetTheorems, WellFoundedInduction, TLAPS

Places == {"new", "sent", "authenticating", "known", "admitted", "asking", "waiting", "approved",
           "checked", "executing", "transferring", "done", "failed"}

Allows == {"once", "session", "saved"}

ReqState ==
    [place : Places, client : Client \union {None}, tool : Tools \union {None}, gen : Nat,
     path : {"inside", "root", "outside"} \union {None}, plain : BOOLEAN,
     decision : Allows \union {"reject", None}, cancelled : BOOLEAN, effect : BOOLEAN]

(***************************************************************************)
(* What is known of request r, which is x, when yes is what the user has   *)
(* agreed to.  A decision and a rule are what the user has agreed to, so   *)
(* a request that got past the approval was agreed to; it got there by a   *)
(* tool on a session, which looks at the path first (open_session, which   *)
(* has none, changes nothing).                                             *)
(***************************************************************************)
AtRest == {"new", "done", "failed"}

PastApproval == {"approved", "checked", "executing", "transferring"}

AgreedTo(r, x, yes) ==
    r \in yes \/ (x.plain /\ \E kind \in {"session", "saved"} : <<x.client, kind>> \in yes)

Confined(x) == x.path # "outside" /\ (x.tool = "file_delete" => x.path = "inside")

ReqInv(r, x, yes) ==
    /\ x \in ReqState
    /\ x.place \notin AtRest => x.path \in {"inside", "root", "outside"}
    /\ x.decision \in Allows => r \in yes
    /\ x.decision \in {"session", "saved"} => <<x.client, x.decision>> \in yes
    /\ x.place \in PastApproval => AgreedTo(r, x, yes)
    /\ x.place \in {"asking", "waiting"} \union PastApproval /\ x.tool # "open_session" => Confined(x)
    /\ x.place \in {"checked", "transferring"} => x.tool \in Transfers
    /\ x.place = "executing" => x.tool \in Changes \ Transfers
    /\ x.effect => x.place = "done" /\ AgreedTo(r, x, yes) /\ Confined(x)

\* A request that has the local grant of client c for itself, or had.
UsesGrant(x, c) == x.client = c /\ (x.place = "transferring" \/ (x.effect /\ x.tool \in Transfers))

(***************************************************************************)
(* Many requests may find a grant unused, and ask the user; the one that   *)
(* consumes it finds nobody who has, since a used grant stays used.        *)
(***************************************************************************)
GrantInv ==
    /\ local \in [Client -> {"none", "used"} \union Transfers]
    /\ \A c \in Client \ standing, r \in Req : UsesGrant(req[r], c) => local[c] = "used"
    /\ \A c \in Client \ standing, r, u \in Req : UsesGrant(req[r], c) /\ UsesGrant(req[u], c) => r = u

McpInv ==
    /\ broker \in Nat /\ starts \in Nat
    /\ req \in [Req -> ReqState]
    /\ rules \subseteq agreed
    /\ \A r \in Req : ReqInv(r, req[r], agreed)
    /\ GrantInv

-----------------------------------------------------------------------------
\* What the user has agreed to stays agreed.
LEMMA ReqInvGrows ==
  ASSUME NEW yes, NEW more, yes \subseteq more, NEW r, NEW x, ReqInv(r, x, yes)
  PROVE  ReqInv(r, x, more)
BY DEF ReqInv, AgreedTo

\* A step in which one request changes, and takes no grant.
LEMMA OneRequestKeeps ==
  ASSUME McpInv, standing \subseteq standing', NEW r \in Req, NEW x, req' = [req EXCEPT ![r] = x],
         ReqInv(r, x, agreed'), \A c \in Client : UsesGrant(x, c) => UsesGrant(req[r], c),
         agreed \subseteq agreed', rules' \subseteq agreed',
         local' = local, broker' \in Nat, starts' \in Nat
  PROVE  McpInv'
<1>1. x \in ReqState
  BY DEF ReqInv
<1>2. /\ req' \in [Req -> ReqState]
      /\ \A u \in Req : req'[u] = IF u = r THEN x ELSE req[u]
  BY <1>1 DEF McpInv
<1>3. \A u \in Req : ReqInv(u, req[u], agreed')
  BY ReqInvGrows DEF McpInv
<1>4. \A u \in Req : ReqInv(u, req'[u], agreed')
  BY <1>2, <1>3
<1>5. \A c \in Client, u \in Req : UsesGrant(req'[u], c) => UsesGrant(req[u], c)
  BY <1>2
<1>6. GrantInv'
  BY <1>5 DEF McpInv, GrantInv
<1> QED
  BY <1>2, <1>4, <1>6 DEF McpInv

\* A step of the user or of the broker: requests may be cancelled and their
\* open decisions rejected, and no used grant comes back.
LEMMA AllRequestsKeep ==
  ASSUME McpInv, standing \subseteq standing', req' \in [Req -> ReqState],
         \A r \in Req : /\ ReqInv(r, req'[r], agreed)
                        /\ \A c \in Client : UsesGrant(req'[r], c) => UsesGrant(req[r], c),
         agreed' = agreed, rules' \subseteq agreed, broker' \in Nat, starts' \in Nat,
         local' \in [Client -> {"none", "used"} \union Transfers],
         \A c \in Client : local[c] = "used" => local'[c] = "used"
  PROVE  McpInv'
<1>1. GrantInv'
  BY DEF McpInv, GrantInv
<1> QED
  BY <1>1 DEF McpInv

\* An open decision is rejected, and a request cancelled: nothing else changes.
LEMMA CutKeeps ==
  ASSUME NEW yes, NEW r, NEW x, ReqInv(r, x, yes), NEW cut \in BOOLEAN, NEW open \in BOOLEAN
  PROVE  LET y == IF open /\ x.decision = None THEN [x EXCEPT !.decision = "reject"] ELSE x
             z == IF cut THEN [y EXCEPT !.cancelled = TRUE] ELSE y
         IN  ReqInv(r, z, yes) /\ \A c \in Client : UsesGrant(z, c) => UsesGrant(x, c)
<1> DEFINE y == IF open /\ x.decision = None THEN [x EXCEPT !.decision = "reject"] ELSE x
           z == IF cut THEN [y EXCEPT !.cancelled = TRUE] ELSE y
<1>1. /\ z \in ReqState /\ z.place = x.place /\ z.client = x.client /\ z.tool = x.tool
      /\ z.path = x.path /\ z.plain = x.plain /\ z.effect = x.effect
      /\ z.decision = x.decision \/ z.decision = "reject"
  BY DEF ReqInv, ReqState
<1> HIDE DEF z
<1>2. ReqInv(r, z, yes)
  BY <1>1 DEF ReqInv, AgreedTo, Confined, Allows
<1>3. \A c \in Client : UsesGrant(z, c) => UsesGrant(x, c)
  BY <1>1 DEF UsesGrant
<1> QED
  BY <1>2, <1>3 DEF z

LEMMA CancelAllKeeps ==
  ASSUME McpInv, NEW cut, NEW open, req' = CancelAll(cut, RejectAll(open))
  PROVE  /\ req' \in [Req -> ReqState]
         /\ \A r \in Req : /\ ReqInv(r, req'[r], agreed)
                           /\ \A c \in Client : UsesGrant(req'[r], c) => UsesGrant(req[r], c)
<1>1. ASSUME NEW r \in Req
      PROVE  /\ ReqInv(r, req'[r], agreed)
             /\ \A c \in Client : UsesGrant(req'[r], c) => UsesGrant(req[r], c)
  <2> DEFINE x == req[r]
             y == IF r \in open /\ x.decision = None THEN [x EXCEPT !.decision = "reject"] ELSE x
             z == IF r \in cut THEN [y EXCEPT !.cancelled = TRUE] ELSE y
  <2>1. req'[r] = z
    BY DEF CancelAll, RejectAll
  <2>2. ReqInv(r, x, agreed)
    BY DEF McpInv
  <2>3. (r \in open) \in BOOLEAN /\ (r \in cut) \in BOOLEAN
    OBVIOUS
  <2>4. ReqInv(r, z, agreed) /\ \A c \in Client : UsesGrant(z, c) => UsesGrant(x, c)
    BY <2>2, <2>3, CutKeeps
  <2> QED
    BY <2>1, <2>4
<1>2. req' = [r \in Req |-> req'[r]]
  BY DEF CancelAll
<1>3. \A r \in Req : req'[r] \in ReqState
  BY <1>1 DEF ReqInv
<1> QED
  BY <1>1, <1>2, <1>3

\* The end of a request, by an error or with an answer, has no effect.
LEMMA EndReqKeeps ==
  ASSUME McpInv, standing \subseteq standing', NEW r \in Req, NEW how \in {"done", "failed"}, EndReq(r, how),
         agreed' = agreed, rules' \subseteq agreed, local' = local, broker' = broker, starts' = starts
  PROVE  McpInv'
<1> DEFINE x == [NewReq EXCEPT !.place = how, !.client = req[r].client]
<1>1. req' = [req EXCEPT ![r] = x]
  BY DEF EndReq
<1>2. req[r].client \in Client \union {None}
  BY DEF McpInv, ReqState
<1>3. x \in ReqState /\ x.place = how /\ x.effect = FALSE /\ x.decision = None
  BY <1>2 DEF NewReq, ReqState, Places
<1> HIDE DEF x
<1>4. ReqInv(r, x, agreed) /\ \A c \in Client : ~UsesGrant(x, c)
  BY <1>3, BrokerAssumption DEF ReqInv, AtRest, PastApproval, Allows, UsesGrant
<1> QED
  BY <1>1, <1>4, OneRequestKeeps DEF McpInv

\* A request that goes on to its next place as it is.
LEMMA PutReqKeeps ==
  ASSUME McpInv, standing \subseteq standing', NEW r \in Req, NEW place \in Places, PutReq(r, place),
         agreed' = agreed, rules' \subseteq agreed, local' = local, broker' = broker, starts' = starts,
         req[r].place \notin AtRest, place # "transferring",
         place \in PastApproval => AgreedTo(r, req[r], agreed),
         place \in {"asking", "waiting"} \union PastApproval /\ req[r].tool # "open_session"
            => Confined(req[r]),
         place = "checked" => req[r].tool \in Transfers,
         place = "executing" => req[r].tool \in Changes \ Transfers
  PROVE  McpInv'
<1> DEFINE x == [req[r] EXCEPT !.place = place]
<1>1. req' = [req EXCEPT ![r] = x]
  BY DEF PutReq, McpInv
<1>2. req[r] \in ReqState /\ ReqInv(r, req[r], agreed) /\ ~req[r].effect
  BY DEF McpInv, ReqInv, AtRest
<1>3. /\ x \in ReqState /\ x.place = place /\ x.client = req[r].client /\ x.tool = req[r].tool
      /\ x.path = req[r].path /\ x.plain = req[r].plain /\ x.effect = req[r].effect
      /\ x.decision = req[r].decision
  BY <1>2 DEF ReqState
<1> HIDE DEF x
<1>4. ReqInv(r, x, agreed)
  BY <1>2, <1>3 DEF ReqInv, AgreedTo, Confined
<1>5. \A c \in Client : ~UsesGrant(x, c)
  BY <1>2, <1>3 DEF UsesGrant
<1> QED
  BY <1>1, <1>4, <1>5, OneRequestKeeps DEF McpInv

-----------------------------------------------------------------------------
LEMMA SwitchKeeps == ASSUME McpInv, standing \subseteq standing', EnableBroker \/ StartBroker \/ DisableBroker PROVE McpInv'
<1>1. CASE EnableBroker
  BY <1>1 DEF EnableBroker, rosterVars, runtimeVars, McpInv, GrantInv
<1>2. CASE StartBroker
  BY <1>2 DEF StartBroker, rosterVars, runtimeVars, McpInv, GrantInv
<1>3. CASE DisableBroker
  <2>1. req' = CancelAll(activeReqs, RejectAll(approvals)) /\ agreed' = agreed /\ local' = local
        /\ broker' = 0 /\ starts' = starts /\ rules' \subseteq rules
    BY <1>3 DEF DisableBroker
  <2> QED
    BY <2>1, CancelAllKeeps, AllRequestsKeep DEF McpInv, GrantInv
<1> QED
  BY <1>1, <1>2, <1>3

LEMMA SendKeeps ==
  ASSUME McpInv, standing \subseteq standing', NEW r \in Req, NEW c \in Client, NEW ask \in Asks, NEW plain \in BOOLEAN,
         SendRequest(r, c, ask[2], ask[3], plain)
  PROVE  McpInv'
<1> DEFINE x == [NewReq EXCEPT !.place = "sent", !.client = c, !.tool = ask[2], !.gen = broker,
                               !.path = ask[3], !.plain = plain]
<1>1. /\ req' = [req EXCEPT ![r] = x] /\ agreed' = agreed /\ rules' = rules /\ local' = local
      /\ broker' = broker /\ starts' = starts
  BY DEF SendRequest, switchVars, rosterVars, runtimeVars
<1>2. ask[2] \in Tools /\ ask[3] \in {"inside", "root", "outside"}
  BY BrokerAssumption
<1>3. x \in ReqState /\ x.place = "sent" /\ x.effect = FALSE /\ x.decision = None
      /\ x.path \in {"inside", "root", "outside"}
  BY <1>2 DEF NewReq, ReqState, Places, McpInv
<1> HIDE DEF x
<1>4. ReqInv(r, x, agreed) /\ \A d \in Client : ~UsesGrant(x, d)
  BY <1>3, BrokerAssumption DEF ReqInv, AtRest, PastApproval, Allows, UsesGrant
<1> QED
  BY <1>1, <1>4, OneRequestKeeps DEF McpInv

\* Up to the tool.
LEMMA ArrivalKeeps ==
  ASSUME McpInv, standing \subseteq standing', NEW r \in Req, Receive(r) \/ AuthenticateClient(r) \/ Admit(r)
  PROVE  McpInv'
<1>0. /\ agreed' = agreed /\ rules' = rules /\ local' = local /\ broker' = broker
      /\ starts' = starts /\ req[r].place \notin AtRest /\ rules \subseteq agreed
  BY DEF AtRest, Receive, AuthenticateClient, Admit, ReqAt, switchVars, rosterVars, runtimeVars, McpInv
<1>1. PICK place \in {"authenticating", "failed", "known", "admitted"} : PutReq(r, place)
  BY Zenon DEF Receive, AuthenticateClient, Admit
<1> QED
  BY <1>0, <1>1, PutReqKeeps DEF Places, PastApproval

\* The tools that change nothing.
LEMMA QuietToolKeeps ==
  ASSUME McpInv, standing \subseteq standing', NEW r \in Req,
         \/ ListConnections(r) \/ OpenSession(r) \/ CloseSession(r) \/ ReadFile(r) \/ SystemInfo(r)
         \/ ToolFails(r)
  PROVE  McpInv'
<1>0. /\ agreed' = agreed /\ rules' = rules /\ local' = local /\ broker' = broker
      /\ starts' = starts /\ rules \subseteq agreed
  BY DEF ListConnections, OpenSession, CloseSession, ReadFile, SystemInfo, ToolFails, switchVars,
         rosterVars, McpInv
<1>1. ASSUME NEW how \in {"done", "failed"}, EndReq(r, how) PROVE McpInv'
  BY <1>0, <1>1, EndReqKeeps
<1>2. CASE OpenSession(r)
  <2>1. CASE NewSession(r)
    BY <1>1, <2>1 DEF NewSession
  <2>2. CASE PutReq(r, "asking") /\ req[r].tool = "open_session" /\ ReqAt(r, "admitted")
    <3>1. req[r].place \notin AtRest
      BY <2>2 DEF ReqAt, AtRest
    <3> QED
      BY <1>0, <2>2, <3>1, PutReqKeeps DEF Places, PastApproval
  <2> QED
    BY <1>2, <2>1, <2>2 DEF OpenSession
<1> QED
  BY <1>1, <1>2 DEF ListConnections, CloseSession, ReadFile, SystemInfo, ToolFails

\* The tools that ask, after a look at the path.
LEMMA AskKeeps ==
  ASSUME McpInv, standing \subseteq standing', NEW r \in Req,
         \/ AskCommand(r) \/ AskWrite(r) \/ AskMkdir(r) \/ AskRename(r) \/ AskDelete(r)
         \/ AskUpload(r) \/ AskDownload(r)
  PROVE  McpInv'
<1>1. AskUser(r) /\ (req[r].tool = "file_delete" => req[r].path # "root")
  BY DEF AskCommand, AskWrite, AskMkdir, AskRename, AskDelete, AskUpload, AskDownload
<1>2. /\ agreed' = agreed /\ rules' = rules /\ local' = local /\ broker' = broker
      /\ starts' = starts /\ rules \subseteq agreed /\ req[r].place \notin AtRest /\ PutReq(r, "asking")
  BY <1>1 DEF AtRest, AskUser, ReqAt, switchVars, rosterVars, runtimeVars, McpInv
<1>3. Confined(req[r])
  BY <1>1 DEF AskUser, ReqAt, OnSession, Confined, AtRest, McpInv, ReqInv
<1> QED
  BY <1>2, <1>3, PutReqKeeps DEF Places, PastApproval

LEMMA ApprovalKeeps ==
  ASSUME McpInv, standing \subseteq standing', NEW r \in Req, RequestApproval(r) \/ TakeDecision(r)
  PROVE  McpInv'
<1>0. ReqInv(r, req[r], agreed) /\ rules \subseteq agreed
  BY DEF McpInv
<1>1. CASE RequestApproval(r)
  <2>1. /\ agreed' = agreed /\ rules' = rules /\ local' = local /\ broker' = broker
        /\ starts' = starts /\ ReqAt(r, "asking")
    BY <1>1 DEF RequestApproval, switchVars, rosterVars
  <2>2. req[r].place \notin AtRest /\ (req[r].tool # "open_session" => Confined(req[r]))
    BY <1>0, <2>1 DEF ReqAt, ReqInv, AtRest
  <2>3. CASE Ruled(r) /\ PutReq(r, "approved")
    <3>1. AgreedTo(r, req[r], agreed)
      BY <1>0, <2>3 DEF Ruled, AgreedTo
    <3> QED
      BY <1>0, <2>1, <2>2, <2>3, <3>1, PutReqKeeps DEF Places, PastApproval
  <2>4. CASE PutReq(r, "waiting")
    BY <1>0, <2>1, <2>2, <2>4, PutReqKeeps DEF Places, PastApproval
  <2>5. CASE EndReq(r, "failed")
    BY <1>0, <2>1, <2>5, EndReqKeeps
  <2> QED
    BY <1>1, <2>3, <2>4, <2>5 DEF RequestApproval
<1>2. CASE TakeDecision(r)
  <2>1. /\ agreed' = agreed /\ local' = local /\ broker' = broker
        /\ starts' = starts /\ ReqAt(r, "waiting")
    BY <1>2 DEF TakeDecision, switchVars, rosterVars
  <2>2. req[r].place \notin AtRest /\ (req[r].tool # "open_session" => Confined(req[r]))
    BY <1>0, <2>1 DEF ReqAt, ReqInv, AtRest
  <2>3. rules' \subseteq agreed
    BY <1>0, <1>2 DEF TakeDecision, KeepRule, ReqInv
  <2>4. CASE EndReq(r, "failed")
    BY <2>1, <2>3, <2>4, EndReqKeeps
  <2>5. CASE req[r].decision \notin {"reject", None} /\ PutReq(r, "approved")
    <3>1. AgreedTo(r, req[r], agreed)
      BY <1>0, <2>5 DEF ReqInv, ReqState, AgreedTo
    <3> QED
      BY <2>1, <2>2, <2>3, <2>5, <3>1, PutReqKeeps DEF Places, PastApproval
  <2> QED
    BY <1>2, <2>4, <2>5 DEF TakeDecision
<1> QED
  BY <1>1, <1>2

LEMMA RevalidateKeeps == ASSUME McpInv, standing \subseteq standing', NEW r \in Req, Revalidate(r) PROVE McpInv'
<1>0. /\ ReqInv(r, req[r], agreed) /\ rules \subseteq agreed
      /\ agreed' = agreed /\ rules' = rules /\ local' = local /\ broker' = broker
      /\ starts' = starts /\ ReqAt(r, "approved") /\ req[r].tool \in Changes
  BY DEF McpInv, Revalidate, switchVars, rosterVars
<1>1. CASE EndReq(r, "failed")
  BY <1>0, <1>1, EndReqKeeps
<1>2. CASE PutReq(r, IF req[r].tool \in Transfers THEN "checked" ELSE "executing")
  <2> DEFINE place == IF req[r].tool \in Transfers THEN "checked" ELSE "executing"
  <2>1. AgreedTo(r, req[r], agreed) /\ Confined(req[r]) /\ req[r].place \notin AtRest
    BY <1>0 DEF ReqAt, ReqInv, PastApproval, AtRest, Changes, Transfers
  <2>2. /\ place \in Places /\ place # "transferring"
        /\ place = "checked" => req[r].tool \in Transfers
        /\ place = "executing" => req[r].tool \in Changes \ Transfers
    BY <1>0 DEF Places
  <2>3. PutReq(r, place)
    BY <1>2
  <2> HIDE DEF place
  <2> QED
    BY <1>0, <2>1, <2>2, <2>3, PutReqKeeps
<1> QED
  BY <1>1, <1>2 DEF Revalidate

\* The grant is unused, so nobody of this client has it.
LEMMA StartTransferKeeps == ASSUME McpInv, standing \subseteq standing', NEW r \in Req, StartTransfer(r) PROVE McpInv'
<1> DEFINE x == [req[r] EXCEPT !.place = "transferring"]
           c == req[r].client
<1>0. /\ req[r] \in ReqState /\ ReqInv(r, req[r], agreed) /\ ReqAt(r, "checked") /\ GrantInv
      /\ agreed' = agreed /\ rules' = rules /\ rules \subseteq agreed /\ broker' = broker
      /\ starts' = starts
  BY DEF McpInv, StartTransfer, switchVars
<1>1. req' = [req EXCEPT ![r] = x]
  BY DEF StartTransfer, PutReq, McpInv
<1>2. /\ x \in ReqState /\ x.place = "transferring" /\ x.client = req[r].client
      /\ x.tool = req[r].tool /\ x.path = req[r].path /\ x.plain = req[r].plain
      /\ x.effect = req[r].effect /\ x.decision = req[r].decision
  BY <1>0 DEF ReqState, Places
<1> HIDE DEF x
<1>3. ReqInv(r, x, agreed)
  BY <1>0, <1>2 DEF ReqInv, ReqAt, AgreedTo, Confined, PastApproval, AtRest, Transfers
<1>4. /\ req' \in [Req -> ReqState]
      /\ \A u \in Req : req'[u] = IF u = r THEN x ELSE req[u]
  BY <1>1, <1>2 DEF McpInv
<1>5. \/ c \in standing /\ local' = local
      \/ local[c] \in Transfers /\ local' = [local EXCEPT ![c] = "used"]
  BY <1>0 DEF StartTransfer, consume_local_grant, HasLocalGrant, ReqInv, ReqAt
<1>6. \A u \in Req, d \in Client \ standing : UsesGrant(req[u], d) => d # c
  BY <1>0, <1>5 DEF GrantInv, Transfers
<1>7. \A u \in Req, d \in Client : UsesGrant(req'[u], d) => IF u = r THEN d = c ELSE UsesGrant(req[u], d)
  BY <1>2, <1>4 DEF UsesGrant
<1>8. /\ local' \in [Client -> {"none", "used"} \union Transfers]
      /\ \A d \in Client \ standing : local'[d] = IF d = c THEN "used" ELSE local[d]
  BY <1>0, <1>5 DEF GrantInv
<1> HIDE DEF c
<1>9. GrantInv'
  BY <1>0, <1>4, <1>6, <1>7, <1>8 DEF GrantInv
<1>10. \A u \in Req : ReqInv(u, req'[u], agreed')
  BY <1>0, <1>3, <1>4 DEF McpInv
<1> QED
  BY <1>0, <1>4, <1>9, <1>10 DEF McpInv

\* The effect of a request that was agreed to, on a confined path.
LEMMA EffectKeeps == ASSUME McpInv, standing \subseteq standing', NEW r \in Req, RunCommand(r) \/ ExecuteTool(r) PROVE McpInv'
<1> DEFINE x == [req[r] EXCEPT !.place = "done", !.effect = TRUE]
<1>0. /\ req[r] \in ReqState /\ ReqInv(r, req[r], agreed)
      /\ agreed' = agreed /\ rules' = rules /\ rules \subseteq agreed /\ broker' = broker
      /\ starts' = starts /\ local' = local
      /\ req[r].place \in PastApproval /\ req[r].tool # "open_session"
      /\ req[r].tool \in Transfers => req[r].place = "transferring"
  BY DEF McpInv, RunCommand, ExecuteTool, ReqAt, ReqInv, switchVars, rosterVars, PastApproval,
         Transfers, Changes
<1>1. req' = [req EXCEPT ![r] = x]
  BY DEF RunCommand, ExecuteTool, McpInv, ReqState
<1>2. /\ x \in ReqState /\ x.place = "done" /\ x.client = req[r].client
      /\ x.tool = req[r].tool /\ x.path = req[r].path /\ x.plain = req[r].plain
      /\ x.effect = TRUE /\ x.decision = req[r].decision
  BY <1>0 DEF ReqState, Places
<1> HIDE DEF x
<1>3. ReqInv(r, x, agreed)
  BY <1>0, <1>2 DEF ReqInv, AgreedTo, Confined, PastApproval, AtRest
<1>4. \A c \in Client : UsesGrant(x, c) => UsesGrant(req[r], c)
  BY <1>0, <1>2 DEF UsesGrant
<1> QED
  BY <1>0, <1>1, <1>3, <1>4, OneRequestKeeps DEF McpInv

LEMMA DecideKeeps ==
  ASSUME McpInv, standing \subseteq standing', NEW r \in Req, NEW decision \in Allows \union {"reject"}, decide(r, decision)
  PROVE  McpInv'
<1> DEFINE x == [req[r] EXCEPT !.decision = decision]
<1>0. /\ req[r] \in ReqState /\ ReqInv(r, req[r], agreed)
      /\ rules' = rules /\ rules \subseteq agreed /\ broker' = broker
      /\ starts' = starts /\ local' = local
  BY DEF McpInv, decide, switchVars, rosterVars, runtimeVars
<1>1. req' = [req EXCEPT ![r] = x]
  BY DEF decide, McpInv
<1>2. /\ x \in ReqState /\ x.place = req[r].place /\ x.client = req[r].client
      /\ x.tool = req[r].tool /\ x.path = req[r].path /\ x.plain = req[r].plain
      /\ x.effect = req[r].effect /\ x.decision = decision
  BY <1>0 DEF ReqState
<1> HIDE DEF x
<1>3. /\ agreed \subseteq agreed'
      /\ decision \in Allows => r \in agreed'
      /\ decision \in {"session", "saved"} => <<req[r].client, decision>> \in agreed'
  BY DEF decide, Allows
<1>4. ReqInv(r, req[r], agreed')
  BY <1>0, <1>3, ReqInvGrows
<1>5. ReqInv(r, x, agreed')
  BY <1>2, <1>3, <1>4 DEF ReqInv, AgreedTo, Confined
<1>6. \A c \in Client : UsesGrant(x, c) => UsesGrant(req[r], c)
  BY <1>2 DEF UsesGrant
<1> QED
  BY <1>0, <1>1, <1>3, <1>5, <1>6, OneRequestKeeps DEF McpInv

\* The sidecar, the user and time, without a request of their own.
LEMMA OtherKeeps ==
  ASSUME McpInv, standing \subseteq standing',
         \/ SwapPath
         \/ \E r \in Req : HangUp(r) \/ ExpireSession(r)
         \/ \E c \in Client :
              \/ BackoffEnds(c) \/ BindClient(c) \/ RevokeClient(c) \/ CutAccess(c)
              \/ RevokeLocalGrant(c) \/ RevokeRule(c)
              \/ \E direction \in Transfers, persistent \in BOOLEAN :
                   CreateLocalGrant(c, direction, persistent)
              \/ \E grants \in BOOLEAN : SaveGrants(c, grants)
  PROVE  McpInv'
<1>0. /\ rules \subseteq agreed /\ broker \in Nat /\ starts \in Nat
      /\ local \in [Client -> {"none", "used"} \union Transfers]
  BY DEF McpInv, GrantInv
<1>1. ASSUME NEW cut, NEW open, req' = CancelAll(cut, RejectAll(open)) \/ req' = req,
             agreed' = agreed, rules' \subseteq rules, broker' = broker, starts' = starts,
             local' \in [Client -> {"none", "used"} \union Transfers],
             \A c \in Client : local[c] = "used" => local'[c] = "used"
      PROVE  McpInv'
  <2>1. /\ req' \in [Req -> ReqState]
        /\ \A r \in Req : /\ ReqInv(r, req'[r], agreed)
                          /\ \A c \in Client : UsesGrant(req'[r], c) => UsesGrant(req[r], c)
    BY <1>1, CancelAllKeeps DEF McpInv
  <2> QED
    BY <1>0, <1>1, <2>1, AllRequestsKeep
<1>2. ASSUME UNCHANGED <<req, agreed, broker, starts, local>>, rules' \subseteq rules PROVE McpInv'
  BY <1>0, <1>1, <1>2
<1>3. CASE SwapPath
  BY <1>2, <1>3 DEF SwapPath, Administer, switchVars
<1>4. ASSUME NEW r \in Req, HangUp(r) \/ ExpireSession(r) PROVE McpInv'
  <2>1. CASE HangUp(r)
    BY <1>0, <1>1, <2>1 DEF HangUp, switchVars, rosterVars
  <2>2. CASE ExpireSession(r)
    BY <1>2, <2>2 DEF ExpireSession, switchVars, rosterVars
  <2> QED
    BY <1>4, <2>1, <2>2
<1>5. ASSUME NEW c \in Client,
             BackoffEnds(c) \/ BindClient(c) \/ RevokeClient(c) \/ RevokeRule(c)
             \/ \E grants \in BOOLEAN : SaveGrants(c, grants)
      PROVE  McpInv'
  BY <1>2, <1>5 DEF BackoffEnds, BindClient, RevokeClient, RevokeRule, SaveGrants, Administer,
     switchVars, runtimeVars
<1>6. ASSUME NEW c \in Client, CutAccess(c) PROVE McpInv'
  BY <1>0, <1>1, <1>6 DEF CutAccess, switchVars
<1>7. ASSUME NEW c \in Client, RevokeLocalGrant(c) PROVE McpInv'
  BY <1>0, <1>1, <1>7 DEF RevokeLocalGrant, Administer, switchVars
<1>8. ASSUME NEW c \in Client, NEW direction \in Transfers, NEW persistent \in BOOLEAN,
             CreateLocalGrant(c, direction, persistent)
      PROVE  McpInv'
  BY <1>0, <1>1, <1>8 DEF CreateLocalGrant, Administer, switchVars
<1> QED
  BY <1>3, <1>4, <1>5, <1>6, <1>7, <1>8

\* A grant is persistent from its creation on.
LEMMA StandingGrows == [McpNext]_mcpVars => standing \subseteq standing'
<1> SUFFICES ASSUME [McpNext]_mcpVars, UNCHANGED rosterVars => standing' = standing
             PROVE  standing \subseteq standing'
  BY DEF rosterVars
<1>1. CASE UNCHANGED mcpVars
  BY <1>1 DEF mcpVars
<1>2. CASE EnableBroker \/ StartBroker \/ DisableBroker \/ SwapPath
  BY <1>2 DEF EnableBroker, StartBroker, DisableBroker, SwapPath
<1>3. ASSUME NEW r \in Req, RequestStep(r) PROVE standing' = standing
  BY <1>3 DEF RequestStep, Receive, AuthenticateClient, Admit, ListConnections, OpenSession, CloseSession,
     ReadFile, SystemInfo, AskCommand, AskWrite, AskMkdir, AskRename, AskDelete, AskUpload, AskDownload,
     AskUser, RequestApproval, TakeDecision, Revalidate, StartTransfer, RunCommand, ExecuteTool, ToolFails
<1>4. ASSUME NEW r \in Req, HangUp(r) \/ ExpireSession(r) \/ \E decision : decide(r, decision)
      PROVE  standing' = standing
  BY <1>4 DEF HangUp, ExpireSession, decide
<1>5. ASSUME NEW r \in Req, NEW c, NEW tool, NEW path, NEW plain, SendRequest(r, c, tool, path, plain)
      PROVE  standing' = standing
  BY <1>5 DEF SendRequest
<1>6. ASSUME NEW c \in Client,
             \/ BackoffEnds(c) \/ BindClient(c) \/ RevokeClient(c) \/ CutAccess(c)
             \/ RevokeLocalGrant(c) \/ RevokeRule(c) \/ \E grants \in BOOLEAN : SaveGrants(c, grants)
      PROVE  standing' = standing
  BY <1>6 DEF BackoffEnds, BindClient, RevokeClient, CutAccess, RevokeLocalGrant, RevokeRule, SaveGrants
<1>7. ASSUME NEW c \in Client, NEW direction, NEW persistent, CreateLocalGrant(c, direction, persistent)
      PROVE  standing \subseteq standing'
  BY <1>7 DEF CreateLocalGrant
<1> QED
  BY <1>1, <1>2, <1>3, <1>4, <1>5, <1>6, <1>7 DEF McpNext

\* Every request that acts, and every rule in force, is one the user has agreed to.
THEOREM McpInvHolds == McpSpec => []McpInv
<1>1. McpInit => McpInv
  BY BrokerAssumption DEF McpInit, McpInv, NewReq, ReqState, Places, ReqInv, AtRest, PastApproval,
     Allows, GrantInv, UsesGrant
<1>2. McpInv /\ [McpNext]_mcpVars => McpInv'
  <2> SUFFICES ASSUME McpInv, [McpNext]_mcpVars, standing \subseteq standing' PROVE McpInv'
    BY StandingGrows
  <2>1. CASE UNCHANGED mcpVars
    BY <2>1 DEF mcpVars, switchVars, rosterVars, runtimeVars, McpInv, GrantInv
  <2>2. ASSUME NEW r \in Req, RequestStep(r) PROVE McpInv'
    BY <2>2, ArrivalKeeps, QuietToolKeeps, AskKeeps, ApprovalKeeps, RevalidateKeeps,
       StartTransferKeeps, EffectKeeps DEF RequestStep
  <2>3. ASSUME NEW r \in Req, NEW decision \in {"reject", "once", "session", "saved"},
               decide(r, decision)
        PROVE  McpInv'
    BY <2>3, DecideKeeps DEF Allows
  <2> QED
    BY <2>1, <2>2, <2>3, SwitchKeeps, SendKeeps, OtherKeeps DEF McpNext
<1> QED
  BY <1>1, <1>2, PTL DEF McpSpec

\* mcp.rs:622, 2264 and 1931: an effect was agreed to and confined, and a client's
\* grant served one transfer.
THEOREM EffectsAreAuthorisedHolds == McpSpec => []EffectsAreAuthorised
<1>1. McpInv => EffectsAreAuthorised
  <2> SUFFICES ASSUME McpInv PROVE EffectsAreAuthorised
    OBVIOUS
  <2>1. ASSUME NEW r \in Req, req[r].effect
        PROVE  /\ r \in agreed \/ (req[r].plain /\ \E kind \in {"session", "saved"} :
                                                       <<req[r].client, kind>> \in agreed)
               /\ req[r].path # "outside" /\ (req[r].tool = "file_delete" => req[r].path = "inside")
    BY <2>1 DEF McpInv, ReqInv, AgreedTo, Confined
  <2>2. ASSUME NEW c \in Client \ standing
        PROVE  Cardinality({r \in Req : req[r].effect /\ req[r].client = c /\ req[r].tool \in Transfers})
                 <= 1
    <3> DEFINE S == {r \in Req : req[r].effect /\ req[r].client = c /\ req[r].tool \in Transfers}
    <3>1. \A r, u \in S : r = u
      BY DEF McpInv, GrantInv, UsesGrant
    <3>2. S = {} \/ \E r \in S : S = {r}
      BY <3>1
    <3> HIDE DEF S
    <3>3. Cardinality(S) = 0 \/ Cardinality(S) = 1
      BY <3>2, FS_EmptySet, FS_Singleton
    <3> QED
      BY <3>3 DEF S
  <2> QED
    BY <2>1, <2>2 DEF EffectsAreAuthorised
<1> QED
  BY <1>1, McpInvHolds, PTL

(***************************************************************************)
(* The runtime of the broker keeps to its limits.  A session is named      *)
(* after a request that was made, which stays its client's, so that the    *)
(* sessions of a client are counted where they were.                       *)
(***************************************************************************)
RequestsStay ==
    \A r \in Req : req[r].place # "new" => req'[r].place # "new" /\ req'[r].client = req[r].client

SessionsOK ==
    /\ mcpSessions \subseteq Req /\ \A r \in mcpSessions : req[r].place # "new"
    /\ \A c \in Client : /\ IsFiniteSet(OfClient(c, mcpSessions))
                         /\ Cardinality(OfClient(c, mcpSessions)) <= MaxSessions

CountersOK ==
    /\ starts \in 0..MaxStarts /\ broker \in 0..starts /\ listeners \subseteq 1..starts
    /\ client \in [Client -> {"unbound", "bound", "revoked"}]
    /\ approvals \subseteq Req /\ activeReqs \subseteq Req
    /\ inFlight \in [Client -> 0..MaxInFlight]

RuntimeInv == SessionsOK /\ CountersOK

\* No request is unmade, and none changes its client.
LEMMA RequestsStayHolds == McpInv /\ [McpNext]_mcpVars => RequestsStay
<1> SUFFICES ASSUME McpInv, [McpNext]_mcpVars PROVE RequestsStay
  OBVIOUS
<1>0. req \in [Req -> ReqState]
  BY DEF McpInv
<1>1. CASE req' = req
  BY <1>1 DEF RequestsStay
<1>2. ASSUME NEW cut, NEW open, req' = CancelAll(cut, RejectAll(open)) PROVE RequestsStay
  BY <1>0, <1>2 DEF CancelAll, RejectAll, RequestsStay, ReqState
<1>3. ASSUME NEW r \in Req, NEW place, place # "new", PutReq(r, place) PROVE RequestsStay
  BY <1>0, <1>3 DEF PutReq, RequestsStay, ReqState
<1>4. ASSUME NEW r \in Req, NEW how \in {"done", "failed"}, EndReq(r, how) PROVE RequestsStay
  BY <1>0, <1>4 DEF EndReq, NewReq, RequestsStay, ReqState
<1>5. ASSUME NEW r \in Req, RequestStep(r) PROVE RequestsStay
  <2>1. CASE Receive(r) \/ AuthenticateClient(r) \/ Admit(r)
    BY <2>1, <1>3 DEF Receive, AuthenticateClient, Admit
  <2>2. CASE ListConnections(r) \/ CloseSession(r) \/ ReadFile(r) \/ SystemInfo(r) \/ ToolFails(r)
    BY <2>2, <1>4 DEF ListConnections, CloseSession, ReadFile, SystemInfo, ToolFails
  <2>3. CASE OpenSession(r)
    BY <2>3, <1>3, <1>4 DEF OpenSession, NewSession
  <2>4. CASE AskCommand(r) \/ AskWrite(r) \/ AskMkdir(r) \/ AskRename(r) \/ AskDelete(r)
             \/ AskUpload(r) \/ AskDownload(r)
    BY <2>4, <1>3 DEF AskCommand, AskWrite, AskMkdir, AskRename, AskDelete, AskUpload, AskDownload, AskUser
  <2>5. CASE RequestApproval(r) \/ TakeDecision(r)
    BY <2>5, <1>3, <1>4 DEF RequestApproval, TakeDecision
  <2>6. CASE Revalidate(r) \/ StartTransfer(r)
    BY <2>6, <1>3, <1>4 DEF Revalidate, StartTransfer
  <2>7. CASE RunCommand(r) \/ ExecuteTool(r)
    BY <2>7, <1>0 DEF RunCommand, ExecuteTool, RequestsStay, ReqState
  <2> QED  BY <1>5, <2>1, <2>2, <2>3, <2>4, <2>5, <2>6, <2>7 DEF RequestStep
<1>6. ASSUME NEW r \in Req, HangUp(r) \/ ExpireSession(r) PROVE RequestsStay
  BY <1>6, <1>1, <1>2 DEF HangUp, ExpireSession
<1>7. ASSUME NEW r \in Req, NEW decision, decide(r, decision) PROVE RequestsStay
  BY <1>0, <1>7 DEF decide, RequestsStay, ReqState
<1>8. ASSUME NEW r \in Req, NEW c, NEW tool, NEW path, NEW plain, SendRequest(r, c, tool, path, plain)
      PROVE  RequestsStay
  BY <1>0, <1>8 DEF SendRequest, ReqAt, NewReq, RequestsStay, ReqState
<1>9. ASSUME NEW c \in Client,
             \/ BackoffEnds(c) \/ BindClient(c) \/ RevokeClient(c) \/ CutAccess(c)
             \/ RevokeLocalGrant(c) \/ RevokeRule(c)
             \/ \E direction \in Transfers, persistent \in BOOLEAN :
                  CreateLocalGrant(c, direction, persistent)
             \/ \E grants \in BOOLEAN : SaveGrants(c, grants)
      PROVE  RequestsStay
  BY <1>9, <1>1, <1>2 DEF BackoffEnds, BindClient, RevokeClient, CutAccess, RevokeLocalGrant, RevokeRule,
     CreateLocalGrant, SaveGrants, Administer
<1>10. CASE EnableBroker \/ StartBroker \/ DisableBroker \/ SwapPath
  BY <1>10, <1>1, <1>2 DEF EnableBroker, StartBroker, DisableBroker, SwapPath, Administer
<1>11. CASE UNCHANGED mcpVars
  BY <1>11, <1>1 DEF mcpVars
<1> QED  BY <1>5, <1>6, <1>7, <1>8, <1>9, <1>10, <1>11 DEF McpNext

\* Sessions that are closed, expire or are cut.
LEMMA FewerSessions ==
  ASSUME SessionsOK, RequestsStay, mcpSessions' \subseteq mcpSessions
  PROVE  SessionsOK'
<1>1. ASSUME NEW c \in Client
      PROVE  /\ IsFiniteSet(OfClient(c, mcpSessions)')
             /\ Cardinality(OfClient(c, mcpSessions)') <= MaxSessions
  <2>1. OfClient(c, mcpSessions)' \subseteq OfClient(c, mcpSessions)
    BY DEF OfClient, SessionsOK, RequestsStay
  <2>2. /\ IsFiniteSet(OfClient(c, mcpSessions)')
        /\ Cardinality(OfClient(c, mcpSessions)') <= Cardinality(OfClient(c, mcpSessions))
    BY <2>1, FS_Subset DEF SessionsOK
  <2>3. /\ Cardinality(OfClient(c, mcpSessions)) \in Nat
        /\ Cardinality(OfClient(c, mcpSessions)') \in Nat
    BY <2>2, FS_CardinalityType DEF SessionsOK
  <2> QED  BY <2>2, <2>3, BrokerAssumption DEF SessionsOK
<1> QED  BY <1>1 DEF SessionsOK, RequestsStay

\* A session of a client that has fewer than the limit.
LEMMA OneMoreSession ==
  ASSUME McpInv, SessionsOK, RequestsStay, NEW r \in Req, req[r].place # "new",
         Cardinality(OfClient(req[r].client, mcpSessions)) < MaxSessions,
         mcpSessions' = mcpSessions \union {r}
  PROVE  SessionsOK'
<1>1. ASSUME NEW c \in Client
      PROVE  /\ IsFiniteSet(OfClient(c, mcpSessions)')
             /\ Cardinality(OfClient(c, mcpSessions)') <= MaxSessions
  <2> DEFINE S == OfClient(c, mcpSessions)
  <2>1. OfClient(c, mcpSessions)' = IF req[r].client = c THEN S \union {r} ELSE S
    BY DEF OfClient, SessionsOK, RequestsStay
  <2>2. IsFiniteSet(S) /\ Cardinality(S) <= MaxSessions /\ Cardinality(S) \in Nat
    BY FS_CardinalityType DEF SessionsOK
  <2>3. CASE req[r].client = c
    <3>1. Cardinality(S) < MaxSessions
      BY <2>3
    <3> HIDE DEF S
    <3>2. /\ IsFiniteSet(S \union {r})
          /\ Cardinality(S \union {r}) = Cardinality(S) \/ Cardinality(S \union {r}) = Cardinality(S) + 1
      BY <2>2, FS_AddElement
    <3>3. Cardinality(S \union {r}) <= MaxSessions
      BY <2>2, <3>1, <3>2, BrokerAssumption
    <3> QED  BY <2>1, <2>3, <3>2, <3>3
  <2>4. CASE req[r].client # c
    BY <2>1, <2>2, <2>4
  <2> QED  BY <2>3, <2>4
<1> QED  BY <1>1 DEF SessionsOK, RequestsStay

LEMMA SessionsStep == McpInv /\ SessionsOK /\ [McpNext]_mcpVars => SessionsOK'
<1> SUFFICES ASSUME McpInv, SessionsOK, [McpNext]_mcpVars PROVE SessionsOK'
  OBVIOUS
<1>0. RequestsStay
  BY RequestsStayHolds
<1>1. ASSUME NEW r \in Req, OpenSession(r) PROVE SessionsOK'
  <2>1. req[r].place # "new"
    BY <1>1 DEF OpenSession, ReqAt
  <2>2. \/ mcpSessions' = mcpSessions
        \/ /\ Cardinality(OfClient(req[r].client, mcpSessions)) < MaxSessions
           /\ mcpSessions' = mcpSessions \union {r}
    BY <1>1 DEF OpenSession, NewSession
  <2> QED  BY <1>0, <2>1, <2>2, FewerSessions, OneMoreSession
<1>2. ASSUME mcpSessions' \subseteq mcpSessions PROVE SessionsOK'
  BY <1>0, <1>2, FewerSessions
<1>3. ASSUME NEW r \in Req, RequestStep(r), ~OpenSession(r) PROVE mcpSessions' \subseteq mcpSessions
  BY <1>3 DEF RequestStep, Receive, AuthenticateClient, Admit, ListConnections, CloseSession, ReadFile,
     SystemInfo, ToolFails, AskCommand, AskWrite, AskMkdir, AskRename, AskDelete, AskUpload,
     AskDownload, AskUser, RequestApproval, TakeDecision, Revalidate, StartTransfer, RunCommand,
     ExecuteTool, runtimeVars
<1>4. ASSUME NEW r \in Req, HangUp(r) \/ ExpireSession(r) PROVE mcpSessions' \subseteq mcpSessions
  BY <1>4 DEF HangUp, ExpireSession
<1>5. ASSUME NEW r \in Req,
             \/ \E decision : decide(r, decision)
             \/ \E c, tool, path, plain : SendRequest(r, c, tool, path, plain)
      PROVE  mcpSessions' \subseteq mcpSessions
  BY <1>5 DEF decide, SendRequest, runtimeVars
<1>6. ASSUME NEW c \in Client,
             \/ BackoffEnds(c) \/ BindClient(c) \/ RevokeClient(c) \/ CutAccess(c)
             \/ RevokeLocalGrant(c) \/ RevokeRule(c)
             \/ \E direction \in Transfers, persistent \in BOOLEAN :
                  CreateLocalGrant(c, direction, persistent)
             \/ \E grants \in BOOLEAN : SaveGrants(c, grants)
      PROVE  mcpSessions' \subseteq mcpSessions
  BY <1>6 DEF BackoffEnds, BindClient, RevokeClient, CutAccess, RevokeLocalGrant, RevokeRule,
     CreateLocalGrant, SaveGrants, Administer, runtimeVars
<1>7. CASE EnableBroker \/ StartBroker \/ DisableBroker \/ SwapPath \/ UNCHANGED mcpVars
  BY <1>7, <1>2 DEF EnableBroker, StartBroker, DisableBroker, SwapPath, Administer, runtimeVars, mcpVars
<1> QED  BY <1>1, <1>2, <1>3, <1>4, <1>5, <1>6, <1>7 DEF McpNext

LEMMA CountersStep == McpInv /\ CountersOK /\ [McpNext]_mcpVars => CountersOK'
<1> SUFFICES ASSUME McpInv, CountersOK, [McpNext]_mcpVars PROVE CountersOK'
  OBVIOUS
<1>0. starts \in Nat /\ broker \in Nat /\ MaxStarts \in Nat /\ MaxInFlight \in Nat
  BY BrokerAssumption DEF CountersOK
<1>1. CASE EnableBroker \/ StartBroker \/ DisableBroker
  <2>1. CASE EnableBroker
    BY <2>1 DEF EnableBroker, rosterVars, runtimeVars, CountersOK
  <2>2. CASE StartBroker
    BY <2>2, <1>0 DEF StartBroker, rosterVars, runtimeVars, CountersOK
  <2>3. CASE DisableBroker
    BY <2>3, <1>0 DEF DisableBroker, CountersOK
  <2> QED  BY <1>1, <2>1, <2>2, <2>3
<1> DEFINE switchKept == UNCHANGED <<starts, broker, listeners>>
<1>2. ASSUME NEW r \in Req, Admit(r) PROVE CountersOK'
  BY <1>2, <1>0 DEF Admit, switchVars, rosterVars, CountersOK
<1>3. ASSUME NEW r \in Req, ReleaseReq(r)
      PROVE  activeReqs' \subseteq activeReqs /\ inFlight' \in [Client -> 0..MaxInFlight]
  <2> DEFINE c == req[r].client
             left == IF inFlight[c] > 0 THEN inFlight[c] - 1 ELSE 0
  <2>1. inFlight' = [inFlight EXCEPT ![c] = left]
    BY <1>3 DEF ReleaseReq
  <2>2. inFlight \in [Client -> 0..MaxInFlight] /\ (c \in Client => left \in 0..MaxInFlight)
    BY <1>0 DEF CountersOK
  <2> HIDE DEF c, left
  <2>3. inFlight' \in [Client -> 0..MaxInFlight]
    BY <2>1, <2>2
  <2> QED  BY <1>3, <2>3 DEF ReleaseReq
<1>4. ASSUME NEW r \in Req, NEW how, EndReq(r, how)
      PROVE  activeReqs' \subseteq activeReqs /\ inFlight' \in [Client -> 0..MaxInFlight]
  BY <1>3, <1>4 DEF EndReq
<1>5. ASSUME switchKept, client' = client, approvals' \subseteq Req, activeReqs' \subseteq activeReqs,
             inFlight' = inFlight \/ inFlight' \in [Client -> 0..MaxInFlight]
      PROVE  CountersOK'
  BY <1>5 DEF CountersOK
<1>6. approvals \subseteq Req
  BY DEF CountersOK
<1> HIDE DEF switchKept
<1>7. ASSUME NEW r \in Req, RequestStep(r), ~Admit(r) PROVE CountersOK'
  <2>1. switchKept /\ client' = client
    BY <1>7 DEF switchKept, RequestStep, Receive, AuthenticateClient, ListConnections, OpenSession,
       CloseSession, ReadFile, SystemInfo, ToolFails, AskCommand, AskWrite, AskMkdir, AskRename,
       AskDelete, AskUpload, AskDownload, AskUser, RequestApproval, TakeDecision, Revalidate,
       StartTransfer, RunCommand, ExecuteTool, switchVars, rosterVars
  <2>2. approvals' \subseteq Req
    BY <1>6, <1>7 DEF RequestStep, Receive, AuthenticateClient, ListConnections, OpenSession,
       CloseSession, ReadFile, SystemInfo, ToolFails, AskCommand, AskWrite, AskMkdir, AskRename,
       AskDelete, AskUpload, AskDownload, AskUser, RequestApproval, TakeDecision, Revalidate,
       StartTransfer, RunCommand, ExecuteTool, runtimeVars
  <2>3. \/ UNCHANGED <<activeReqs, inFlight>>
        \/ ReleaseReq(r) \/ \E how : EndReq(r, how)
    BY <1>7 DEF RequestStep, Receive, AuthenticateClient, ListConnections, OpenSession, NewSession,
       CloseSession, ReadFile, SystemInfo, ToolFails, AskCommand, AskWrite, AskMkdir, AskRename,
       AskDelete, AskUpload, AskDownload, AskUser, RequestApproval, TakeDecision, Revalidate,
       StartTransfer, RunCommand, ExecuteTool, runtimeVars
  <2> QED  BY <1>3, <1>4, <1>5, <2>1, <2>2, <2>3
<1>8. ASSUME NEW r \in Req,
             \/ HangUp(r) \/ ExpireSession(r) \/ \E decision : decide(r, decision)
             \/ \E c, tool, path, plain : SendRequest(r, c, tool, path, plain)
      PROVE  CountersOK'
  BY <1>6, <1>8, <1>5 DEF switchKept, HangUp, ExpireSession, decide, SendRequest, switchVars, rosterVars,
     runtimeVars
<1>9. ASSUME NEW c \in Client,
             \/ BackoffEnds(c) \/ CutAccess(c) \/ RevokeLocalGrant(c) \/ RevokeRule(c)
             \/ \E direction \in Transfers, persistent \in BOOLEAN :
                  CreateLocalGrant(c, direction, persistent)
             \/ \E grants \in BOOLEAN : SaveGrants(c, grants)
      PROVE  CountersOK'
  BY <1>6, <1>9, <1>5 DEF switchKept, BackoffEnds, CutAccess, RevokeLocalGrant, RevokeRule,
     CreateLocalGrant, SaveGrants, Administer, switchVars, runtimeVars
<1>10. ASSUME NEW c \in Client, BindClient(c) \/ RevokeClient(c) PROVE CountersOK'
  BY <1>10 DEF BindClient, RevokeClient, Administer, switchVars, CountersOK
<1>11. CASE SwapPath \/ UNCHANGED mcpVars
  BY <1>11 DEF SwapPath, Administer, mcpVars, switchVars, rosterVars, runtimeVars, CountersOK
<1> QED  BY <1>1, <1>2, <1>7, <1>8, <1>9, <1>10, <1>11 DEF McpNext

\* The limits of the runtime (mcp.rs: acquire_execution and open_session): for any number
\* of requests and restarts of the broker, no client has more sessions than it may, and
\* its count of requests in execution is within its limit.  The count is not the number
\* at work: switching off resets it under those that are.
THEOREM McpTypeCorrect == McpSpec => []McpTypeOK
<1>1. McpInit => RuntimeInv
  <2> SUFFICES ASSUME McpInit PROVE RuntimeInv
    OBVIOUS
  <2>1. \A c \in Client : OfClient(c, mcpSessions) = {}
    BY DEF McpInit, OfClient
  <2>2. SessionsOK
    BY <2>1, FS_EmptySet, BrokerAssumption DEF McpInit, SessionsOK
  <2> QED  BY <2>2, BrokerAssumption DEF McpInit, RuntimeInv, CountersOK
<1>2. McpInv /\ RuntimeInv /\ [McpNext]_mcpVars => RuntimeInv'
  BY SessionsStep, CountersStep DEF RuntimeInv
<1>3. RuntimeInv => McpTypeOK
  BY BrokerAssumption DEF RuntimeInv, SessionsOK, CountersOK, McpTypeOK
<1> QED  BY <1>1, <1>2, <1>3, McpInvHolds, PTL DEF McpSpec

(***************************************************************************)
(* Schedules.  A row of the list remembers one occurrence; what it must    *)
(* not forget is every occurrence it has run.  Ran says which those may    *)
(* be, by its kind: all that has been, the times of the day already shown, *)
(* or, of a cron expression, those up to the one it remembers.             *)
(***************************************************************************)
Tick == 0..MaxTime
Row == [kind : PlanKind, enabled : BOOLEAN, next : Nat \union {None}, lastRun : Nat,
        lastKey : Nat \union {None}]

Cron(row) == row.kind.type = "cron"
Daily(row) == row.kind.type = "daily"

NextOK(row) ==
    row.next # None =>
        /\ row.enabled /\ row.next > row.lastRun
        /\ Daily(row) => row.next \in Tick /\ FirstShown(row.next)
        /\ Cron(row) => /\ row.next \in Tick /\ Wall(row.next) \in row.kind.expr
                        /\ Wall(row.next) # row.lastKey

RowsOK(rows, time) ==
    /\ rows \in [Schedule -> Row \union {None}]
    /\ \A s \in Schedule : rows[s] # None => NextOK(rows[s]) /\ rows[s].lastRun <= time

Ran(row, w) ==
    /\ Daily(row) => \E a \in Tick : a <= row.lastRun /\ Wall(a) = w
    /\ Cron(row) => /\ w \in row.kind.expr
                    /\ \E a, b \in Tick : /\ a <= b /\ b <= row.lastRun
                                          /\ Wall(a) = w /\ Wall(b) = row.lastKey
                                          /\ Wall(b) \in row.kind.expr
    /\ ~Calendar(row.kind) => w <= row.lastRun

TickState ==
    [at : {"idle", "tick", "save", "spawn"}, time : Nat, rows : {<<>>} \union [Schedule -> Row \union {None}],
     due : SUBSET (Schedule \X Tick)]

ScheduleTypes ==
    /\ now \in Tick /\ tick.time \in 0..now
    /\ tick \in TickState /\ edit.at \in {"idle", "save"}
    /\ tick.at \in {"idle", "tick"} => tick.due = {}
    /\ started \in [Schedule -> [Tick -> Nat]]

RowsInTime ==
    /\ RowsOK(schedules, now)
    /\ tick.at = "save" => RowsOK(tick.rows, now)
    /\ edit.at = "save" => RowsOK(edit.rows, now)
    /\ tick.at = "tick" => /\ RowsOK(schedules, tick.time)
                           /\ edit.at = "save" => RowsOK(edit.rows, tick.time)

\* Schedules that have not come to the list yet.
Never(s) ==
    /\ schedules[s] = None /\ (tick.at = "save" => tick.rows[s] = None)
    /\ \A w \in Tick : started[s][w] = 0 /\ <<s, w>> \notin tick.due

Newcomers ==
    /\ \A s \in Schedule \ minted :
         Never(s) /\ (edit.at = "save" => edit.rows[s] = None)
    /\ \A s \in Schedule :
         edit.at = "save" /\ edit.rows[s] # None =>
            IF edit.due[s] = None THEN Never(s)
            ELSE /\ edit.rows[s].lastRun = edit.due[s].lastRun
                 /\ edit.rows[s].lastKey = edit.due[s].lastKey

\* What the rows remember, for the schedules about which something is claimed.
Remembered ==
    \A s \in Schedule \ edited : \A w \in Tick :
        /\ schedules[s] # None /\ started[s][w] > 0 => Ran(schedules[s], w)
        /\ tick.at = "spawn" /\ schedules[s] # None /\ <<s, w>> \in tick.due => Ran(schedules[s], w)
        /\ tick.at = "save" /\ tick.rows[s] # None =>
              (started[s][w] > 0 \/ <<s, w>> \in tick.due => Ran(tick.rows[s], w))
        /\ <<s, w>> \in tick.due => started[s][w] = 0 \/ SeveralInRepeat(w)

ScheduleInv ==
    /\ ScheduleTypes /\ RowsInTime /\ Newcomers /\ Remembered /\ OccurrenceRunsOnce

(***************************************************************************)
(* Rows.                                                                   *)
(***************************************************************************)
LEMMA MinIsIn ==
  ASSUME NEW S \in SUBSET Nat, S # {}
  PROVE  Min(S) \in S
<1> DEFINE Less == OpToRel(<, Nat)
<1>1. \A x, y \in Nat : <<y, x>> \in Less <=> y < x
  BY DEF OpToRel
<1>2. IsWellFoundedOn(Less, Nat)
  BY NatLessThanWellFounded
<1> HIDE DEF Less
<1>3. PICK x \in S : \A y \in S : ~(<<y, x>> \in Less)
  BY <1>2, WFMin, Zenon
<1>4. \A y \in S : ~(y < x)
  BY <1>1, <1>3
<1>5. \A y \in S : x =< y
  BY <1>4
<1> QED  BY <1>5, Zenon DEF Min

LEMMA RowFields ==
  ASSUME NEW row \in Row
  PROVE  /\ row.kind \in PlanKind /\ row.kind \in InstantKind \union CalendarKind
         /\ row.enabled \in BOOLEAN /\ row.next \in Nat \union {None}
         /\ row.lastRun \in Nat /\ row.lastKey \in Nat \union {None}
BY ScheduleAssumption DEF Row

\* The next run lies after the time it is computed for, and before nothing forgotten.
LEMMA NextRunOK ==
  ASSUME NEW row \in Row, NEW at \in Tick, row.lastRun <= at
  PROVE  /\ NextRun(row, at) \in Nat \union {None}
         /\ NextOK([row EXCEPT !.next = NextRun(row, at)])
<1> DEFINE new == [row EXCEPT !.next = NextRun(row, at)]  times == NextTimes(row, at)
<1>1. /\ row.kind \in InstantKind \union CalendarKind /\ row.lastRun \in Nat
      /\ row.enabled \in BOOLEAN /\ row.lastKey \in Nat \union {None} /\ at \in Nat
  BY RowFields, ScheduleAssumption DEF Tick
<1>2. \A x \in times : x \in Nat /\ x > at
  <2>1. CASE row.kind.type = "once"
    BY <2>1, <1>1, SMT DEF NextTimes, InstantKind, CalendarKind
  <2>2. CASE row.kind.type = "interval"
    BY <2>2, <1>1, SMT DEF NextTimes, InstantKind, CalendarKind
  <2>3. CASE row.kind.type \notin {"once", "interval"}
    BY <2>3, <1>1, ScheduleAssumption, SMT DEF NextTimes
  <2> QED  BY <2>1, <2>2, <2>3
<1>3. \A x \in times :
        /\ Daily(row) => x \in Tick /\ FirstShown(x)
        /\ Cron(row) => x \in Tick /\ Wall(x) \in row.kind.expr /\ Wall(x) # row.lastKey
  BY <1>1, ScheduleAssumption DEF NextTimes, Daily, Cron, Tick
<1>4. new.kind = row.kind /\ new.lastRun = row.lastRun /\ new.lastKey = row.lastKey
      /\ new.enabled = row.enabled /\ new.next = NextRun(row, at)
  BY DEF Row
<1>5. CASE NextRun(row, at) = None
  BY <1>4, <1>5 DEF NextOK
<1>6. CASE NextRun(row, at) # None
  <2>1. row.enabled /\ times # {} /\ NextRun(row, at) = Min(times)
    BY <1>6 DEF NextRun
  <2>2. Min(times) \in times
    BY <2>1, <1>2, MinIsIn
  <2> DEFINE m == Min(times)
  <2> HIDE DEF times, m
  <2>3. m \in times /\ new.next = m /\ m \in Nat /\ m > at
    BY <2>1, <2>2, <1>2, <1>4 DEF m
  <2>4. m > row.lastRun
    BY <2>3, <1>1
  <2> HIDE DEF new
  <2>5. NextOK(new)
    BY <2>1, <2>3, <2>4, <1>3, <1>4 DEF NextOK, Daily, Cron
  <2> QED  BY <2>5, <2>1, <2>3 DEF new, m
<1> QED  BY <1>5, <1>6

LEMMA AdvanceOK ==
  ASSUME NEW row \in Row, NEW at \in Tick, row.next \in Nat, row.next <= at, row.enabled, NextOK(row)
  PROVE  /\ Advance(row, at) \in Row /\ NextOK(Advance(row, at))
         /\ Advance(row, at).kind = row.kind /\ Advance(row, at).lastRun = at
         /\ Advance(row, at).lastKey = Key(row, row.next)
<1> DEFINE run == [row EXCEPT !.lastRun = at, !.lastKey = Key(row, row.next)]
           off == [run EXCEPT !.enabled = FALSE, !.next = None]
           on == [run EXCEPT !.next = NextRun(run, at)]
<1>1. row.next \in Tick /\ at \in Nat
  BY ScheduleAssumption DEF Tick
<1>2. Key(row, row.next) \in Nat
  BY <1>1, ScheduleAssumption DEF Key, Tick
<1>3. run \in Row /\ run.lastRun = at /\ run.kind = row.kind /\ run.lastKey = Key(row, row.next)
  BY <1>1, <1>2, RowFields DEF Row
<1>4. off \in Row /\ off.next = None /\ off.kind = row.kind /\ off.lastRun = at
      /\ off.lastKey = Key(row, row.next)
  BY <1>3, RowFields DEF Row
<1>5. NextRun(run, at) \in Nat \union {None} /\ NextOK(on)
  <2> HIDE DEF run
  <2>1. run.lastRun <= at
    BY <1>1, <1>3
  <2> QED  BY <2>1, <1>3, NextRunOK
<1>6. on \in Row /\ on.kind = row.kind /\ on.lastRun = at /\ on.lastKey = Key(row, row.next)
  <2> HIDE DEF run
  <2> QED  BY <1>3, <1>5, RowFields DEF Row
<1>7. NextOK(off)
  BY <1>4 DEF NextOK
<1>8. Advance(row, at) = off \/ Advance(row, at) = on
  BY DEF Advance
<1> HIDE DEF on, off
<1> QED  BY <1>4, <1>5, <1>6, <1>7, <1>8

LEMMA SettleOK ==
  ASSUME NEW row \in Row, NEW at \in Tick, row.lastRun <= at, row.enabled
  PROVE  /\ Settle(row, at) \in Row /\ NextOK(Settle(row, at))
         /\ Settle(row, at).kind = row.kind /\ Settle(row, at).lastRun = row.lastRun
         /\ Settle(row, at).lastKey = row.lastKey
<1> DEFINE n == NextRun(row, at)
           timed == [row EXCEPT !.next = n]
           on == row.kind.type # "once" \/ n # None
           new == [row EXCEPT !.next = n, !.enabled = on]
<1>1. n \in Nat \union {None} /\ NextOK(timed)
  BY NextRunOK
<1>2. Settle(row, at) = new
  BY DEF Settle
<1> HIDE DEF n
<1>3. /\ new \in Row /\ new.kind = row.kind /\ new.lastRun = row.lastRun
      /\ new.lastKey = row.lastKey /\ new.next = n /\ new.enabled = on
      /\ timed.kind = row.kind /\ timed.lastRun = row.lastRun
      /\ timed.lastKey = row.lastKey /\ timed.next = n
  BY <1>1, RowFields DEF Row
<1> HIDE DEF new, timed
<1>4. n # None => on
  BY DEF on
<1>5. NextOK(new)
  BY <1>1, <1>3, <1>4 DEF NextOK, Daily, Cron
<1> QED  BY <1>2, <1>3, <1>5

LEMMA PreparedOK ==
  ASSUME NEW kind \in PlanKind, NEW turnedOn \in BOOLEAN, NEW at \in Tick, NEW old,
         old # None => old \in Row /\ old.lastRun <= at
  PROVE  LET row == Prepared(kind, turnedOn, old, at) IN
         /\ row \in Row /\ NextOK(row) /\ row.kind = kind /\ row.lastRun <= at
         /\ IF old = None THEN row.lastRun = 0
            ELSE row.lastRun = old.lastRun /\ row.lastKey = old.lastKey
<1> DEFINE r == IF old = None THEN 0 ELSE old.lastRun
           k == IF old = None THEN None ELSE old.lastKey
           row == [kind |-> kind, enabled |-> turnedOn, next |-> None, lastRun |-> r, lastKey |-> k]
           new == [row EXCEPT !.next = NextRun(row, at)]
<1>1. r \in Nat /\ r <= at /\ k \in Nat \union {None}
  BY RowFields, ScheduleAssumption DEF Tick
<1> HIDE DEF r, k
<1>2. row \in Row /\ row.lastRun = r /\ row.lastKey = k /\ row.kind = kind
  BY <1>1 DEF Row
<1> HIDE DEF row
<1>3. NextRun(row, at) \in Nat \union {None} /\ NextOK(new)
  BY <1>1, <1>2, NextRunOK
<1>4. new \in Row /\ new.lastRun = r /\ new.lastKey = k /\ new.kind = kind
  BY <1>2, <1>3, RowFields DEF Row
<1>5. Prepared(kind, turnedOn, old, at) = new
  BY Zenon DEF Prepared, new, row, r, k
<1> QED  BY <1>1, <1>3, <1>4, <1>5 DEF r, k

(***************************************************************************)
(* What is run next has not been run, and is remembered once it has been.  *)
(***************************************************************************)
LEMMA NextIsNew ==
  ASSUME NEW row \in Row, NextOK(row), row.next # None, row.next \in Tick,
         Ran(row, Key(row, row.next))
  PROVE  SeveralInRepeat(Key(row, row.next))
<1> DEFINE c == row.next
<1>1. row.lastRun \in Nat /\ c \in Nat /\ c > row.lastRun /\ Tick \subseteq Nat
  BY RowFields, ScheduleAssumption DEF NextOK, Tick
<1>2. CASE Daily(row)
  <2>1. PICK a \in Tick : a <= row.lastRun /\ Wall(a) = Wall(c)
    BY <1>2 DEF Ran, Key, Calendar, Daily
  <2>2. c <= a
    BY <1>2, <2>1 DEF NextOK, FirstShown, Tick
  <2> QED  BY <1>1, <2>1, <2>2
<1>3. CASE Cron(row)
  <2>1. PICK a \in Tick : \E b \in Tick :
          /\ a <= b /\ b <= row.lastRun
          /\ Wall(a) = Wall(c) /\ Wall(b) = row.lastKey /\ Wall(b) \in row.kind.expr
    BY <1>3, Zenon DEF Ran, Key, Calendar, Cron
  <2>2. PICK b \in Tick :
          /\ a <= b /\ b <= row.lastRun
          /\ Wall(a) = Wall(c) /\ Wall(b) = row.lastKey /\ Wall(b) \in row.kind.expr
    BY <2>1
  <2>3. Wall(c) \in row.kind.expr /\ Wall(b) # Wall(c)
    BY <1>3, <2>2 DEF NextOK
  <2>4. a < b /\ b < c
    BY <1>1, <2>2, <2>3
  <2>5. Key(row, c) = Wall(c) /\ row.kind \in PlanKind
    BY <1>3, RowFields DEF Key, Calendar, Cron
  <2> QED  BY <1>3, <2>2, <2>3, <2>4, <2>5 DEF SeveralInRepeat, Cron, Tick
<1>4. CASE ~Daily(row) /\ ~Cron(row)
  <2>1. Key(row, c) = c /\ c <= row.lastRun
    BY <1>4 DEF Ran, Key, Calendar, Daily, Cron
  <2> QED  BY <1>1, <2>1
<1> QED  BY <1>2, <1>3, <1>4

LEMMA RunIsRemembered ==
  ASSUME NEW row \in Row, NEW new \in Row, NEW at \in Tick, NEW w \in Tick,
         NextOK(row), row.next # None, row.next \in Tick, row.next <= at,
         new.kind = row.kind, new.lastRun = at, new.lastKey = Key(row, row.next),
         Ran(row, w) \/ w = Key(row, row.next)
  PROVE  Ran(new, w)
<1> DEFINE c == row.next
<1>1. row.lastRun \in Nat /\ c \in Nat /\ c > row.lastRun /\ Tick \subseteq Nat
  BY RowFields, ScheduleAssumption DEF NextOK, Tick
<1>2. CASE Daily(row)
  <2>1. \E a \in Tick : (a <= row.lastRun \/ a = c) /\ Wall(a) = w
    BY <1>2 DEF Ran, Key, Calendar, Daily
  <2>2. \E a \in Tick : a <= at /\ Wall(a) = w
    BY <1>1, <2>1
  <2> QED  BY <1>2, <2>2 DEF Ran, Daily, Cron, Calendar
<1>3. CASE Cron(row)
  <2>1. Key(row, c) = Wall(c) /\ Wall(c) \in row.kind.expr
    BY <1>3 DEF NextOK, Key, Calendar, Cron
  <2>2. w \in row.kind.expr
    BY <1>3, <2>1 DEF Ran
  <2>3. \E a \in Tick : a <= c /\ Wall(a) = w
    <3>1. CASE Ran(row, w)
      <4>1. PICK a \in Tick : \E b \in Tick : a <= b /\ b <= row.lastRun /\ Wall(a) = w
        BY <1>3, <3>1, Zenon DEF Ran
      <4> QED  BY <1>1, <4>1
    <3>2. CASE w = Key(row, c)
      BY <1>1, <2>1, <3>2
    <3> QED  BY <3>1, <3>2
  <2>4. PICK a \in Tick : a <= c /\ Wall(a) = w
    BY <2>3
  <2> QED  BY <1>3, <2>1, <2>2, <2>4 DEF Ran, Daily, Cron, Calendar
<1>4. CASE ~Daily(row) /\ ~Cron(row)
  <2>1. Key(row, c) = c /\ (w <= row.lastRun \/ w = c)
    BY <1>4 DEF Ran, Key, Calendar, Daily, Cron
  <2>2. w <= at
    BY <1>1, <2>1
  <2> QED  BY <1>4, <2>2 DEF Ran, Daily, Cron, Calendar
<1> QED  BY <1>2, <1>3, <1>4

\* An edit keeps what the row remembers, unless it makes it another kind of schedule.
LEMMA EditRemembers ==
  ASSUME NEW row \in Row, NEW new \in Row, NEW w, SameKind(new.kind, row.kind),
         new.lastRun = row.lastRun, new.lastKey = row.lastKey, Ran(row, w)
  PROVE  Ran(new, w)
<1>1. CASE new.kind = row.kind
  BY <1>1 DEF Ran, Daily, Cron, Calendar
<1>2. CASE new.kind.type = "daily" /\ row.kind.type = "daily"
  BY <1>2 DEF Ran, Daily, Cron, Calendar
<1>3. CASE {new.kind.type, row.kind.type} \subseteq {"once", "interval"}
  BY <1>3 DEF Ran, Daily, Cron, Calendar
<1> QED  BY <1>1, <1>2, <1>3 DEF SameKind

(***************************************************************************)
(* The steps.                                                              *)
(***************************************************************************)
LEMMA RowsLater ==
  ASSUME NEW rows, NEW t \in Nat, NEW u \in Nat, t <= u, RowsOK(rows, t)
  PROVE  RowsOK(rows, u)
<1>1. \A s \in Schedule : rows[s] # None => rows[s].lastRun \in Nat
  BY RowFields DEF RowsOK
<1> QED  BY <1>1 DEF RowsOK

LEMMA IdleIsATick == /\ Idle \in TickState /\ Idle.at = "idle" /\ Idle.time = 0 /\ Idle.due = {}
BY DEF Idle, TickState

LEMMA InitOK == ScheduleInit => ScheduleInv
<1> SUFFICES ASSUME ScheduleInit PROVE ScheduleInv
  OBVIOUS
<1>1. 0 \in Tick
  BY ScheduleAssumption DEF Tick
<1>2. ScheduleTypes
  BY <1>1, IdleIsATick DEF ScheduleInit, ScheduleTypes, Tick
<1>3. RowsInTime
  BY DEF ScheduleInit, RowsInTime, RowsOK, Idle
<1>4. Newcomers
  BY DEF ScheduleInit, Newcomers, Never, Idle, Tick
<1>5. Remembered /\ OccurrenceRunsOnce
  BY DEF ScheduleInit, Remembered, OccurrenceRunsOnce, Idle, Tick
<1> QED  BY <1>2, <1>3, <1>4, <1>5 DEF ScheduleInv

LEMMA TickStartOK == ASSUME ScheduleInv, TickStart PROVE ScheduleInv'
<1>1. /\ tick'.at = "tick" /\ tick'.time = now /\ tick'.due = {}
      /\ UNCHANGED <<now, schedules, edit, started, edited, minted>> /\ tick.at = "idle"
  BY DEF TickStart, Idle
<1>2. now \in Nat
  BY ScheduleAssumption DEF ScheduleInv, ScheduleTypes, Tick
<1>3. ScheduleTypes'
  <2>1. tick' \in TickState
    BY <1>2 DEF TickStart, Idle, TickState
  <2> QED  BY <1>1, <1>2, <2>1 DEF ScheduleInv, ScheduleTypes
<1>4. RowsInTime'
  BY <1>1 DEF ScheduleInv, RowsInTime
<1>5. Newcomers'
  BY <1>1 DEF ScheduleInv, Newcomers, Never
<1>6. Remembered'
  BY <1>1 DEF ScheduleInv, Remembered
<1>7. OccurrenceRunsOnce'
  BY <1>1 DEF ScheduleInv, OccurrenceRunsOnce
<1> QED  BY <1>3, <1>4, <1>5, <1>6, <1>7 DEF ScheduleInv

LEMMA CollectedOK ==
  ASSUME NEW at \in Tick, NEW rows, RowsOK(rows, at), NEW s \in Schedule
  PROVE  LET new == Collected(rows, at)[s]  old == rows[s] IN
         /\ old = None => new = None
         /\ old # None =>
              /\ new \in Row /\ NextOK(new) /\ new.lastRun <= at
              /\ \A w \in Tick : Ran(old, w) => Ran(new, w)
              /\ Arrived(old, at) => Key(old, old.next) \in Tick /\ Ran(new, Key(old, old.next))
<1> DEFINE old == rows[s]
<1>1. Collected(rows, at)[s] =
        IF old = None \/ ~old.enabled THEN old
        ELSE IF old.next = None THEN Settle(old, at)
        ELSE IF Arrived(old, at) THEN Advance(old, at) ELSE old
  BY DEF Collected
<1> DEFINE new == Collected(rows, at)[s]
<1> HIDE DEF new
<1>2. CASE old = None
  BY <1>1, <1>2 DEF new
<1>3. CASE old # None
  <2>1. old \in Row /\ NextOK(old) /\ old.lastRun <= at /\ old.lastRun \in Nat
        /\ old.next \in Nat \union {None}
    BY <1>3, RowFields DEF RowsOK
  <2> HIDE DEF old
  <2>2. CASE ~old.enabled \/ (old.next # None /\ ~Arrived(old, at))
    <3>1. new = old /\ ~Arrived(old, at)
      BY <1>1, <1>3, <2>2 DEF new, old, Arrived
    <3> QED  BY <1>3, <2>1, <3>1 DEF new, old
  <2>3. CASE old.enabled /\ old.next = None
    <3>1. new = Settle(old, at) /\ ~Arrived(old, at)
      BY <1>1, <1>3, <2>3 DEF new, old, Arrived
    <3>2. /\ new \in Row /\ NextOK(new) /\ new.kind = old.kind
          /\ new.lastRun = old.lastRun /\ new.lastKey = old.lastKey
      BY <2>1, <2>3, <3>1, SettleOK
    <3>3. \A w \in Tick : Ran(old, w) => Ran(new, w)
      BY <2>1, <3>2, EditRemembers DEF SameKind
    <3> QED  BY <1>3, <2>1, <3>1, <3>2, <3>3 DEF new, old
  <2>4. CASE Arrived(old, at)
    <3>1. old.enabled /\ old.next # None /\ old.next <= at /\ old.next \in Nat
      BY <2>1, <2>4 DEF Arrived
    <3>2. new = Advance(old, at)
      BY <1>1, <1>3, <2>4, <3>1 DEF new, old
    <3>3. /\ new \in Row /\ NextOK(new) /\ new.kind = old.kind /\ new.lastRun = at
          /\ new.lastKey = Key(old, old.next)
      BY <2>1, <3>1, <3>2, AdvanceOK
    <3>4. old.next \in Tick /\ at \in Nat
      BY <3>1, ScheduleAssumption DEF Tick
    <3>5. Key(old, old.next) \in Tick
      BY <3>4, ScheduleAssumption DEF Key, Tick
    <3>6. \A w \in Tick : Ran(old, w) \/ w = Key(old, old.next) => Ran(new, w)
      BY <2>1, <3>1, <3>3, <3>4, RunIsRemembered
    <3>7. new.lastRun <= at
      BY <3>3, <3>4
    <3> QED  BY <1>3, <3>3, <3>5, <3>6, <3>7 DEF new, old
  <2> QED  BY <2>1, <2>2, <2>3, <2>4
<1> QED  BY <1>2, <1>3

LEMMA TickLoadOK == ASSUME ScheduleInv, TickLoad PROVE ScheduleInv'
<1> DEFINE time == tick.time
           list == Collected(schedules, time)
           plans == DuePlans(schedules, time)
           due == {<<s, Key(schedules[s], schedules[s].next)>> : s \in plans}
<1>1. tick.at = "tick" /\ tick.due = {} /\ UNCHANGED <<now, schedules, edit, started, edited, minted>>
  BY DEF TickLoad, ScheduleInv, ScheduleTypes
<1>2. now \in Tick /\ time \in Tick /\ time \in 0..now /\ now \in Nat
  BY ScheduleAssumption DEF ScheduleInv, ScheduleTypes, Tick
<1>3. RowsOK(schedules, time)
  BY <1>1 DEF ScheduleInv, RowsInTime
<1>4. CASE tick' = Idle
  <2>1. tick'.at = "idle" /\ tick'.due = {} /\ tick'.time = 0
    BY <1>4 DEF Idle
  <2>2. ScheduleTypes'
    BY <1>1, <1>2, <1>4, <2>1, IdleIsATick DEF ScheduleInv, ScheduleTypes
  <2>3. RowsInTime'
    BY <1>1, <2>1 DEF ScheduleInv, RowsInTime
  <2>4. Newcomers'
    BY <1>1, <2>1 DEF ScheduleInv, Newcomers, Never
  <2>5. Remembered' /\ OccurrenceRunsOnce'
    BY <1>1, <2>1 DEF ScheduleInv, Remembered, OccurrenceRunsOnce
  <2> QED  BY <2>2, <2>3, <2>4, <2>5 DEF ScheduleInv
<1>5. CASE tick' = [tick EXCEPT !.at = "save", !.rows = list, !.due = due]
  <2> HIDE DEF list
  <2>1. \A s \in Schedule :
          /\ schedules[s] = None => list[s] = None
          /\ schedules[s] # None =>
               /\ list[s] \in Row /\ NextOK(list[s]) /\ list[s].lastRun <= time
               /\ \A w \in Tick : Ran(schedules[s], w) => Ran(list[s], w)
               /\ Arrived(schedules[s], time) =>
                     /\ Key(schedules[s], schedules[s].next) \in Tick
                     /\ Ran(list[s], Key(schedules[s], schedules[s].next))
    BY <1>2, <1>3, CollectedOK DEF list
  <2>2. \A s \in plans : s \in Schedule /\ Arrived(schedules[s], time) /\ schedules[s] # None
    BY DEF DuePlans, Arrived
  <2>3. due \subseteq Schedule \X Tick
    BY <2>1, <2>2
  <2>4. \A s \in Schedule, w \in Tick : <<s, w>> \in due =>
          s \in plans /\ w = Key(schedules[s], schedules[s].next)
    OBVIOUS
  <2> HIDE DEF due, plans
  <2>5. tick'.at = "save" /\ tick'.rows = list /\ tick'.due = due /\ tick'.time = time
    BY <1>1, <1>5 DEF ScheduleInv, ScheduleTypes, TickState
  <2>6. ScheduleTypes'
    <3>1. list \in [Schedule -> Row \union {None}]
      BY <2>1 DEF list, Collected
    <3>2. tick' \in TickState
      BY <1>5, <2>3, <3>1 DEF ScheduleInv, ScheduleTypes, TickState
    <3> QED  BY <1>1, <1>2, <2>5, <3>2 DEF ScheduleInv, ScheduleTypes
  <2>7. RowsOK(list, now)
    <3>1. list \in [Schedule -> Row \union {None}]
      BY <2>1 DEF list, Collected
    <3>2. RowsOK(list, time)
      BY <2>1, <3>1 DEF RowsOK
    <3> QED  BY <1>2, <3>2, RowsLater DEF Tick
  <2>8. RowsInTime'
    BY <1>1, <2>5, <2>7 DEF ScheduleInv, RowsInTime
  <2>9. ASSUME NEW s \in Schedule, Never(s) PROVE Never(s)'
    BY <1>1, <2>1, <2>2, <2>4, <2>5, <2>9 DEF Never
  <2>10. Newcomers'
    BY <1>1, <2>9 DEF ScheduleInv, Newcomers
  <2>11. ASSUME NEW s \in Schedule \ edited, NEW w \in Tick, <<s, w>> \in due
         PROVE  started[s][w] = 0 \/ SeveralInRepeat(w)
    <3>1. schedules[s] # None /\ Arrived(schedules[s], time) /\ w = Key(schedules[s], schedules[s].next)
      BY <2>2, <2>4, <2>11
    <3>2. schedules[s] \in Row /\ NextOK(schedules[s]) /\ schedules[s].next # None
          /\ schedules[s].next \in Tick
      BY <1>2, <1>3, <3>1, RowFields, ScheduleAssumption DEF RowsOK, Arrived, Tick
    <3>3. CASE started[s][w] > 0
      <4>1. Ran(schedules[s], w)
        BY <3>1, <3>3 DEF ScheduleInv, Remembered
      <4> QED  BY <3>1, <3>2, <4>1, NextIsNew
    <3>4. started[s][w] \in Nat
      BY DEF ScheduleInv, ScheduleTypes
    <3> QED  BY <3>3, <3>4
  <2>12. Remembered'
    <3>1. ASSUME NEW s \in Schedule \ edited, NEW w \in Tick, list[s] # None,
                 started[s][w] > 0 \/ <<s, w>> \in due
          PROVE  Ran(list[s], w)
      <4>1. schedules[s] # None
        BY <2>1, <3>1
      <4>2. CASE started[s][w] > 0
        BY <2>1, <4>1, <4>2 DEF ScheduleInv, Remembered
      <4>3. CASE <<s, w>> \in due
        BY <2>1, <2>2, <2>4, <4>1, <4>3
      <4> QED  BY <3>1, <4>2, <4>3
    <3>2. ASSUME NEW s \in Schedule \ edited, NEW w \in Tick, schedules[s] # None, started[s][w] > 0
          PROVE  Ran(schedules[s], w)
      BY <3>2 DEF ScheduleInv, Remembered
    <3> QED  BY <1>1, <2>5, <2>11, <3>1, <3>2 DEF Remembered
  <2>13. OccurrenceRunsOnce'
    BY <1>1 DEF ScheduleInv, OccurrenceRunsOnce
  <2> QED  BY <2>6, <2>8, <2>10, <2>12, <2>13 DEF ScheduleInv
<1> QED  BY <1>1, <1>4, <1>5 DEF TickLoad

LEMMA TickSaveOK == ASSUME ScheduleInv, TickSave PROVE ScheduleInv'
<1>1. tick.at = "save" /\ UNCHANGED <<now, edit, started, edited, minted>>
  BY DEF TickSave
<1>2. tick \in TickState /\ now \in Nat
  BY ScheduleAssumption DEF ScheduleInv, ScheduleTypes, Tick
<1>3. CASE tick' = Idle /\ UNCHANGED schedules
  <2>1. ScheduleTypes'
    BY <1>1, <1>2, <1>3, IdleIsATick DEF ScheduleInv, ScheduleTypes
  <2>2. RowsInTime'
    BY <1>1, <1>3, IdleIsATick DEF ScheduleInv, RowsInTime
  <2>3. Newcomers'
    BY <1>1, <1>3, IdleIsATick DEF ScheduleInv, Newcomers, Never
  <2>4. Remembered' /\ OccurrenceRunsOnce'
    BY <1>1, <1>3, IdleIsATick DEF ScheduleInv, Remembered, OccurrenceRunsOnce
  <2> QED  BY <2>1, <2>2, <2>3, <2>4 DEF ScheduleInv
<1>4. CASE schedules' = tick.rows /\ tick' = [tick EXCEPT !.at = "spawn"]
  <2>1. /\ tick' \in TickState /\ tick'.at = "spawn" /\ tick'.due = tick.due
        /\ tick'.time = tick.time
    BY <1>2, <1>4 DEF TickState
  <2>2. ScheduleTypes'
    BY <1>1, <2>1 DEF ScheduleInv, ScheduleTypes
  <2>3. RowsInTime'
    BY <1>1, <1>4, <2>1 DEF ScheduleInv, RowsInTime
  <2>4. Newcomers'
    BY <1>1, <1>4, <2>1 DEF ScheduleInv, Newcomers, Never
  <2>5. Remembered'
    BY <1>1, <1>4, <2>1 DEF ScheduleInv, Remembered
  <2>6. OccurrenceRunsOnce'
    BY <1>1 DEF ScheduleInv, OccurrenceRunsOnce
  <2> QED  BY <2>2, <2>3, <2>4, <2>5, <2>6 DEF ScheduleInv
<1> QED  BY <1>3, <1>4 DEF TickSave

LEMMA TickSpawnOK == ASSUME ScheduleInv, TickSpawn PROVE ScheduleInv'
<1>1. tick.at = "spawn" /\ UNCHANGED <<now, schedules, edit, edited, minted>>
  BY DEF TickSpawn
<1>2. tick \in TickState /\ now \in Nat
  BY ScheduleAssumption DEF ScheduleInv, ScheduleTypes, Tick
<1>3. CASE tick' = Idle /\ UNCHANGED started
  <2>1. ScheduleTypes'
    BY <1>1, <1>2, <1>3, IdleIsATick DEF ScheduleInv, ScheduleTypes
  <2>2. RowsInTime'
    BY <1>1, <1>3, IdleIsATick DEF ScheduleInv, RowsInTime
  <2>3. Newcomers'
    BY <1>1, <1>3, IdleIsATick DEF ScheduleInv, Newcomers, Never
  <2>4. Remembered' /\ OccurrenceRunsOnce'
    BY <1>1, <1>3, IdleIsATick DEF ScheduleInv, Remembered, OccurrenceRunsOnce
  <2> QED  BY <2>1, <2>2, <2>3, <2>4 DEF ScheduleInv
<1>4. ASSUME NEW d \in tick.due,
             started' = [started EXCEPT ![d[1]][d[2]] = @ + 1],
             tick' = [tick EXCEPT !.due = @ \ {d}]
      PROVE  ScheduleInv'
  <2>1. PICK s \in Schedule, w \in Tick : d = <<s, w>>
    BY <1>2 DEF TickState
  <2>2. /\ tick' \in TickState /\ tick'.at = "spawn" /\ tick'.due = tick.due \ {d}
        /\ tick'.time = tick.time
    BY <1>1, <1>2, <1>4 DEF TickState
  <2>3. started \in [Schedule -> [Tick -> Nat]]
    BY DEF ScheduleInv, ScheduleTypes
  <2>4. /\ started' \in [Schedule -> [Tick -> Nat]]
        /\ \A t \in Schedule, x \in Tick :
             started'[t][x] = IF t = s /\ x = w THEN started[t][x] + 1 ELSE started[t][x]
    BY <1>4, <2>1, <2>3
  <2>5. ScheduleTypes'
    BY <1>1, <2>2, <2>4 DEF ScheduleInv, ScheduleTypes
  <2>6. RowsInTime'
    BY <1>1, <2>2 DEF ScheduleInv, RowsInTime
  <2>7. ASSUME NEW t \in Schedule, Never(t) PROVE Never(t)'
    BY <1>1, <1>4, <2>1, <2>2, <2>4, <2>7 DEF Never
  <2>8. Newcomers'
    BY <1>1, <2>7 DEF ScheduleInv, Newcomers
  <2>9. ASSUME NEW t \in Schedule \ edited, NEW x \in Tick
        PROVE  /\ schedules[t] # None /\ started'[t][x] > 0 => Ran(schedules[t], x)
               /\ schedules[t] # None /\ <<t, x>> \in tick'.due => Ran(schedules[t], x)
               /\ <<t, x>> \in tick'.due => started'[t][x] = 0 \/ SeveralInRepeat(x)
               /\ started'[t][x] <= 1 \/ SeveralInRepeat(x)
    <3>1. /\ schedules[t] # None /\ started[t][x] > 0 => Ran(schedules[t], x)
          /\ schedules[t] # None /\ <<t, x>> \in tick.due => Ran(schedules[t], x)
          /\ <<t, x>> \in tick.due => started[t][x] = 0 \/ SeveralInRepeat(x)
      BY <1>1 DEF ScheduleInv, Remembered
    <3>2. started[t][x] <= 1 \/ SeveralInRepeat(x)
      BY DEF ScheduleInv, OccurrenceRunsOnce, Tick
    <3>3. CASE t = s /\ x = w
      BY <1>4, <2>1, <2>2, <2>4, <3>1, <3>2, <3>3
    <3>4. CASE ~(t = s /\ x = w)
      BY <2>1, <2>2, <2>4, <3>1, <3>2, <3>4
    <3> QED  BY <3>3, <3>4
  <2>10. Remembered'
    BY <1>1, <2>2, <2>9 DEF Remembered
  <2>11. OccurrenceRunsOnce'
    BY <1>1, <2>9 DEF OccurrenceRunsOnce, Tick
  <2> QED  BY <2>5, <2>6, <2>8, <2>10, <2>11 DEF ScheduleInv
<1> QED  BY <1>3, <1>4 DEF TickSpawn

\* The list a command has prepared.
LEMMA EditPreparedOK ==
  ASSUME ScheduleInv, NEW s \in Schedule, NEW row \in Row \union {None},
         row # None => NextOK(row) /\ row.lastRun <= now,
         row # None /\ schedules[s] # None =>
            row.lastRun = schedules[s].lastRun /\ row.lastKey = schedules[s].lastKey,
         row # None /\ schedules[s] = None => s \notin minted /\ row.lastRun = 0,
         edit' = [Idle EXCEPT !.at = "save", !.rows = [schedules EXCEPT ![s] = row],
                              !.due = schedules],
         minted \subseteq minted', row # None => s \in minted',
         UNCHANGED <<now, schedules, tick, started, edited>>
  PROVE  ScheduleInv'
<1> DEFINE list == [schedules EXCEPT ![s] = row]
<1>1. edit'.at = "save" /\ edit'.rows = list /\ edit'.due = schedules
  BY DEF Idle
<1>2. RowsOK(schedules, now) /\ (tick.at = "tick" => RowsOK(schedules, tick.time))
  BY DEF ScheduleInv, RowsInTime
<1>3. /\ list \in [Schedule -> Row \union {None}] /\ list[s] = row
      /\ \A t \in Schedule : t # s => list[t] = schedules[t]
  BY <1>2 DEF RowsOK
<1> HIDE DEF list
<1>4. RowsOK(list, now)
  BY <1>2, <1>3 DEF RowsOK
<1>5. ASSUME tick.at = "tick" PROVE RowsOK(list, tick.time)
  <2>1. tick.time \in Nat /\ 0 <= tick.time
    BY DEF ScheduleInv, ScheduleTypes, TickState
  <2> QED  BY <1>2, <1>3, <1>5, <2>1 DEF RowsOK
<1>6. ScheduleTypes'
  BY <1>1 DEF ScheduleInv, ScheduleTypes
<1>7. RowsInTime'
  BY <1>1, <1>4, <1>5 DEF ScheduleInv, RowsInTime
<1>8. \A t \in Schedule : Never(t) => Never(t)'
  BY DEF Never
<1>9. \A t \in Schedule \ minted : Never(t) /\ schedules[t] = None
  BY DEF ScheduleInv, Newcomers, Never
<1>10. ASSUME NEW t \in Schedule \ minted' PROVE list[t] = None
  BY <1>3, <1>9
<1>11. ASSUME NEW t \in Schedule, list[t] # None
       PROVE  IF schedules[t] = None THEN Never(t)
              ELSE list[t].lastRun = schedules[t].lastRun /\ list[t].lastKey = schedules[t].lastKey
  BY <1>3, <1>9, <1>11
<1>12. Newcomers'
  BY <1>1, <1>8, <1>9, <1>10, <1>11 DEF Newcomers
<1>13. Remembered' /\ OccurrenceRunsOnce'
  BY DEF ScheduleInv, Remembered, OccurrenceRunsOnce
<1> QED  BY <1>6, <1>7, <1>12, <1>13 DEF ScheduleInv

LEMMA LoadForSaveOK == ASSUME ScheduleInv, NEW s \in Schedule, LoadForSave(s) PROVE ScheduleInv'
<1>1. PICK kind \in PlanKind : \E turnedOn \in BOOLEAN :
        LET row == Prepared(kind, turnedOn, schedules[s], now)
        IN  /\ schedules[s] # None \/ s \notin minted
            /\ edit' = [Idle EXCEPT !.at = "save", !.rows = [schedules EXCEPT ![s] = row],
                                    !.due = schedules]
            /\ minted' = minted \union {s}
            /\ UNCHANGED <<now, schedules, tick, started, edited>>
  BY Zenon DEF LoadForSave
<1>2. PICK turnedOn \in BOOLEAN :
        LET row == Prepared(kind, turnedOn, schedules[s], now)
        IN  /\ schedules[s] # None \/ s \notin minted
            /\ edit' = [Idle EXCEPT !.at = "save", !.rows = [schedules EXCEPT ![s] = row],
                                    !.due = schedules]
            /\ minted' = minted \union {s}
            /\ UNCHANGED <<now, schedules, tick, started, edited>>
  BY <1>1, Zenon
<1> DEFINE row == Prepared(kind, turnedOn, schedules[s], now)
<1>3. now \in Tick /\ (schedules[s] # None => schedules[s] \in Row /\ schedules[s].lastRun <= now)
  BY DEF ScheduleInv, ScheduleTypes, RowsInTime, RowsOK
<1>4. /\ row \in Row /\ NextOK(row) /\ row.lastRun <= now
      /\ schedules[s] # None => row.lastRun = schedules[s].lastRun /\ row.lastKey = schedules[s].lastKey
      /\ schedules[s] = None => row.lastRun = 0
  BY <1>3, PreparedOK
<1> HIDE DEF row
<1>5. edit' = [Idle EXCEPT !.at = "save", !.rows = [schedules EXCEPT ![s] = row], !.due = schedules]
  BY <1>2 DEF row
<1>6. /\ schedules[s] # None \/ s \notin minted
      /\ minted \subseteq minted' /\ s \in minted'
      /\ UNCHANGED <<now, schedules, tick, started, edited>>
  BY <1>2
<1> QED  BY <1>4, <1>5, <1>6, EditPreparedOK

LEMMA LoadForDeleteOK == ASSUME ScheduleInv, NEW s \in Schedule, LoadForDelete(s) PROVE ScheduleInv'
<1>1. /\ edit' = [Idle EXCEPT !.at = "save", !.rows = [schedules EXCEPT ![s] = None],
                              !.due = schedules]
      /\ UNCHANGED <<now, schedules, tick, started, edited, minted>>
  BY DEF LoadForDelete
<1> QED  BY <1>1, EditPreparedOK

LEMMA StoreEditOK == ASSUME ScheduleInv, StoreEdit PROVE ScheduleInv'
<1>1. /\ edit.at = "save" /\ schedules' = edit.rows /\ edit' = Idle
      /\ UNCHANGED <<now, tick, started, minted>>
  BY DEF StoreEdit
<1>2. ScheduleTypes'
  BY <1>1, IdleIsATick DEF ScheduleInv, ScheduleTypes
<1>3. RowsInTime'
  BY <1>1, IdleIsATick DEF ScheduleInv, RowsInTime
<1>4. Newcomers'
  BY <1>1, IdleIsATick DEF ScheduleInv, Newcomers, Never
<1>5. \A s \in Schedule \ edited' :
        /\ s \notin edited /\ schedules[s] = edit.due[s]
        /\ edit.rows[s] # None /\ edit.due[s] # None => SameKind(edit.rows[s].kind, edit.due[s].kind)
  BY DEF StoreEdit
<1>6. ASSUME NEW s \in Schedule \ edited', NEW w \in Tick, edit.rows[s] # None,
             started[s][w] > 0 \/ (<<s, w>> \in tick.due /\ tick.at = "spawn")
      PROVE  Ran(edit.rows[s], w)
  <2>1. CASE edit.due[s] = None
    <3>1. Never(s)
      BY <1>1, <1>6, <2>1 DEF ScheduleInv, Newcomers
    <3> QED  BY <1>6, <3>1 DEF Never
  <2>2. CASE edit.due[s] # None
    <3>1. /\ edit.rows[s].lastRun = schedules[s].lastRun /\ edit.rows[s].lastKey = schedules[s].lastKey
          /\ SameKind(edit.rows[s].kind, schedules[s].kind) /\ schedules[s] # None
      BY <1>1, <1>5, <1>6, <2>2 DEF ScheduleInv, Newcomers
    <3>2. edit.rows[s] \in Row /\ schedules[s] \in Row
      BY <1>1, <1>6, <3>1 DEF ScheduleInv, RowsInTime, RowsOK
    <3>3. Ran(schedules[s], w)
      BY <1>5, <1>6, <3>1 DEF ScheduleInv, Remembered
    <3> QED  BY <3>1, <3>2, <3>3, EditRemembers
  <2> QED  BY <2>1, <2>2
<1>7. Remembered'
  <2>1. ASSUME NEW s \in Schedule \ edited', NEW w \in Tick
        PROVE  /\ tick.at = "save" /\ tick.rows[s] # None =>
                     (started[s][w] > 0 \/ <<s, w>> \in tick.due => Ran(tick.rows[s], w))
               /\ <<s, w>> \in tick.due => started[s][w] = 0 \/ SeveralInRepeat(w)
    BY <1>5 DEF ScheduleInv, Remembered
  <2>2. ASSUME NEW s \in Schedule \ edited', NEW w \in Tick
        PROVE  /\ edit.rows[s] # None /\ started[s][w] > 0 => Ran(edit.rows[s], w)
               /\ tick.at = "spawn" /\ edit.rows[s] # None /\ <<s, w>> \in tick.due =>
                     Ran(edit.rows[s], w)
    BY <1>6
  <2>3. tick' = tick /\ started' = started /\ schedules' = edit.rows
    BY <1>1
  <2> QED  BY <2>1, <2>2, <2>3, Zenon DEF Remembered
<1>8. OccurrenceRunsOnce'
  BY <1>1, <1>5 DEF ScheduleInv, OccurrenceRunsOnce
<1> QED  BY <1>2, <1>3, <1>4, <1>7, <1>8 DEF ScheduleInv

\* Time goes on, and what no round or command is at work on stays as it is.
LEMMA PassOK == ASSUME ScheduleInv, Pass PROVE ScheduleInv'
<1>1. now' = now + 1 /\ now' <= MaxTime /\ UNCHANGED <<schedules, tick, edit, started, edited, minted>>
  BY ScheduleAssumption DEF Pass, ScheduleInv, ScheduleTypes, Tick
<1>2. now \in Nat /\ now' \in Nat /\ now <= now' /\ now' \in Tick
  BY <1>1, ScheduleAssumption DEF ScheduleInv, ScheduleTypes, Tick
<1>3. ScheduleTypes'
  BY <1>1, <1>2 DEF ScheduleInv, ScheduleTypes
<1>4. RowsInTime'
  <2>1. \A rows : RowsOK(rows, now) => RowsOK(rows, now')
    <3> DEFINE later == now'
    <3>1. later \in Nat /\ now <= later
      BY <1>2
    <3> HIDE DEF later
    <3>2. \A rows : RowsOK(rows, now) => RowsOK(rows, later)
      BY <1>2, <3>1, RowsLater
    <3> QED  BY <3>2 DEF later
  <2> QED  BY <1>1, <2>1 DEF ScheduleInv, RowsInTime
<1>5. Newcomers'
  BY <1>1 DEF ScheduleInv, Newcomers, Never
<1>6. Remembered' /\ OccurrenceRunsOnce'
  BY <1>1 DEF ScheduleInv, Remembered, OccurrenceRunsOnce
<1> QED  BY <1>3, <1>4, <1>5, <1>6 DEF ScheduleInv

LEMMA RelaunchOK == ASSUME ScheduleInv, Relaunch PROVE ScheduleInv'
<1>1. now' \in now..MaxTime /\ tick' = Idle /\ edit' = Idle
      /\ UNCHANGED <<schedules, started, edited, minted>>
  BY DEF Relaunch
<1>2. now \in Nat /\ now' \in Nat /\ now <= now' /\ now' \in Tick
  BY <1>1, ScheduleAssumption DEF ScheduleInv, ScheduleTypes, Tick
<1>3. ScheduleTypes'
  BY <1>1, <1>2, IdleIsATick DEF ScheduleInv, ScheduleTypes
<1>4. RowsInTime'
  <2>1. RowsOK(schedules, now)
    BY DEF ScheduleInv, RowsInTime
  <2>2. PICK later \in Nat : later = now'
    BY <1>2
  <2>3. RowsOK(schedules, later)
    BY <1>2, <2>1, <2>2, RowsLater
  <2> QED  BY <1>1, <2>2, <2>3, IdleIsATick DEF RowsInTime
<1>5. Newcomers'
  BY <1>1, IdleIsATick DEF ScheduleInv, Newcomers, Never
<1>6. Remembered' /\ OccurrenceRunsOnce'
  BY <1>1, IdleIsATick DEF ScheduleInv, Remembered, OccurrenceRunsOnce
<1> QED  BY <1>3, <1>4, <1>5, <1>6 DEF ScheduleInv

LEMMA ScheduleStutters == ScheduleInv /\ UNCHANGED scheduleVars => ScheduleInv'
<1> SUFFICES ASSUME ScheduleInv, UNCHANGED scheduleVars PROVE ScheduleInv'
  OBVIOUS
<1>1. UNCHANGED <<now, schedules, tick, edit, started, edited, minted>>
  BY DEF scheduleVars
<1>2. ScheduleTypes' /\ RowsInTime'
  BY <1>1 DEF ScheduleInv, ScheduleTypes, RowsInTime
<1>3. Newcomers'
  BY <1>1 DEF ScheduleInv, Newcomers, Never
<1>4. Remembered' /\ OccurrenceRunsOnce'
  BY <1>1 DEF ScheduleInv, Remembered, OccurrenceRunsOnce
<1> QED  BY <1>2, <1>3, <1>4 DEF ScheduleInv

LEMMA ScheduleStep == ScheduleInv /\ [ScheduleNext]_scheduleVars => ScheduleInv'
<1> SUFFICES ASSUME ScheduleInv, ScheduleNext PROVE ScheduleInv'
  BY ScheduleStutters
<1>1. CASE TickStart \/ TickLoad \/ TickSave \/ TickSpawn
  BY <1>1, TickStartOK, TickLoadOK, TickSaveOK, TickSpawnOK
<1>2. CASE \E s \in Schedule : LoadForSave(s) \/ LoadForDelete(s)
  BY <1>2, LoadForSaveOK, LoadForDeleteOK
<1>3. CASE StoreEdit \/ Pass \/ Relaunch
  BY <1>3, StoreEditOK, PassOK, RelaunchOK
<1> QED  BY <1>1, <1>2, <1>3, Zenon DEF ScheduleNext

\* For any number of schedules, edits, rounds and starts, with any clock: a row remembers
\* what it has run (the scheduler of automation.rs and its commands).
THEOREM ScheduleInvHolds == ScheduleSpec => []ScheduleInv
<1> QED  BY InitOK, ScheduleStep, PTL DEF ScheduleSpec

\* No occurrence runs twice, but for edits that forget it and for cron expressions that
\* match several times of a repeated stretch (collect_due_plans, next_run_at).
THEOREM OccurrenceRunsOnceHolds == ScheduleSpec => []OccurrenceRunsOnce
<1>1. ScheduleInv => OccurrenceRunsOnce
  BY DEF ScheduleInv
<1> QED  BY <1>1, ScheduleInvHolds, PTL

\* The rows and the rounds keep their shape.
THEOREM ScheduleTypeCorrect == ScheduleSpec => []ScheduleTypeOK
<1>1. ScheduleInv => ScheduleTypeOK
  BY DEF ScheduleInv, ScheduleTypes, RowsInTime, RowsOK, NextOK, TickState, ScheduleTypeOK
<1> QED  BY <1>1, ScheduleInvHolds, PTL

(***************************************************************************)
(* Tasks.  The status of a task ends once: with the update behind its last *)
(* step, or with a cancellation, whose token turns later updates away.     *)
(* Events of an end, on their way to a waiter of the window, tell it.      *)
(***************************************************************************)
TaskStatus == Ended \union {"none", "queued", "running"}
TaskPlace == {"none", "spawned", "step", "doing", "record", "ending", "last", "ended"}
StepKinds == {"command", "waitForMatch", "condition", "transfer"}

TaskState ==
    [status : TaskStatus, token : BOOLEAN, at : TaskPlace, plan : Seq(StepKinds), step : Nat,
     outcome : Ended \union {"none", "error"}]

TaskOK(f) ==
    /\ f.at = "none" <=> f.status = "none"
    /\ f.at # "none" => f.plan # <<>>
    /\ f.at \in {"step", "doing"} => f.step \in 1..Len(f.plan)
    /\ f.at = "last" => f.outcome \in Ended
    /\ f.status \in Ended => f.at = "ended" \/ (f.token /\ f.status = "cancelled")

TaskInv ==
    /\ task \in [BgTask -> TaskState]
    /\ \A t \in BgTask : TaskOK(task[t])
    /\ \A e \in emitted : e \in BgTask \X TaskStatus
    /\ \A e \in emitted : e[2] \in Ended => task[e[1]].status = e[2]
    /\ wait \in [BgTask -> [at : {"none", "listening", "asked", "closed"},
                            outcome : Ended \union {"none"}]]
    /\ \A t \in BgTask : wait[t].at = "closed" => wait[t].outcome \in Ended
    /\ WaitersAgree

\* No step of the future of a task, and no command on it, takes an end back.
EndsOnce == \A t \in BgTask : task[t].status \in Ended => task'[t].status = task[t].status

LEMMA TaskInitOK == TaskInit => TaskInv
<1> SUFFICES ASSUME TaskInit PROVE TaskInv
  OBVIOUS
<1>1. NoTask \in TaskState /\ TaskOK(NoTask) /\ NoTask.status = "none"
  BY DEF NoTask, TaskState, TaskOK, TaskStatus, TaskPlace, Ended
<1> QED  BY <1>1 DEF TaskInit, TaskInv, Unheard, WaitersAgree, WaiterAgrees

\* What a step makes of one task, when it sends no event or the one that tells the new status.
LEMMA TaskChanges ==
  ASSUME TaskInv, NEW t \in BgTask, NEW x \in TaskState, TaskOK(x),
         task' = [task EXCEPT ![t] = x],
         task[t].status \in Ended => x.status = task[t].status,
         \/ UNCHANGED emitted
         \/ emitted' = emitted \union {<<t, x.status>>},
         UNCHANGED wait
  PROVE  TaskInv' /\ EndsOnce
<1>1. task' \in [BgTask -> TaskState] /\ task'[t] = x /\ \A u \in BgTask \ {t} : task'[u] = task[u]
  BY DEF TaskInv
<1>2. \A u \in BgTask : TaskOK(task'[u])
  BY <1>1 DEF TaskInv
<1>3. EndsOnce
  BY <1>1 DEF EndsOnce
<1>4. x.status \in TaskStatus
  BY DEF TaskState
<1>5. \A e \in emitted' : e \in BgTask \X TaskStatus
  BY <1>4 DEF TaskInv
<1>6. \A e \in emitted' : e[2] \in Ended => task'[e[1]].status = e[2]
  <2> SUFFICES ASSUME NEW e \in emitted', e[2] \in Ended PROVE task'[e[1]].status = e[2]
    OBVIOUS
  <2>1. CASE e \in emitted
    BY <2>1, <1>1, <1>3 DEF TaskInv, EndsOnce
  <2>2. CASE e = <<t, x.status>>
    BY <2>2, <1>1
  <2> QED  BY <2>1, <2>2
<1>7. WaitersAgree'
  BY <1>3 DEF TaskInv, WaitersAgree, EndsOnce, WaiterAgrees
<1> QED  BY <1>1, <1>2, <1>3, <1>5, <1>6, <1>7 DEF TaskInv

LEMMA SpawnOK ==
  ASSUME TaskInv, NEW plan \in Seq(StepKinds), plan # <<>>, Spawn(plan), UNCHANGED <<emitted, wait>>
  PROVE  TaskInv' /\ EndsOnce
<1>1. FreeTasks \in SUBSET Nat /\ FreeTasks # {}
  BY DEF FreeTasks, BgTask, Spawn
<1> DEFINE t == Min(FreeTasks)
           x == [NoTask EXCEPT !.status = "queued", !.at = "spawned", !.plan = plan]
<1>2. t \in FreeTasks
  BY <1>1, MinIsIn
<1>3. t \in BgTask /\ task[t].status = "none"
  BY <1>2 DEF FreeTasks
<1>4. x \in TaskState /\ TaskOK(x)
  BY DEF NoTask, TaskState, TaskOK, TaskStatus, TaskPlace, Ended
<1>5. task' = [task EXCEPT ![t] = x]
  BY DEF Spawn
<1>6. task[t].status \notin Ended
  BY <1>3 DEF Ended
<1> QED  BY <1>3, <1>4, <1>5, <1>6, TaskChanges

LEMMA StartOK ==
  ASSUME TaskInv, StartPlan \/ StartScript
  PROVE  TaskInv' /\ EndsOnce
<1>1. CASE StartPlan
  BY <1>1, SpawnOK, TaskAssumption DEF StartPlan, StepKinds
<1>2. CASE StartScript
  <2>1. PICK script \in Script : Compiles(script) /\ Spawn([i \in DOMAIN script.calls |-> StepOf(script.calls[i])])
    BY <1>2 DEF StartScript
  <2> DEFINE calls == script.calls
             plan == [i \in DOMAIN calls |-> StepOf(calls[i])]
  <2>2. calls \in Seq({"command", "wait_for", "require", "upload", "download"}) /\ calls # <<>>
    BY <2>1, TaskAssumption DEF Compiles
  <2>3. \A i \in DOMAIN calls : StepOf(calls[i]) \in StepKinds
    BY <2>2 DEF StepOf, StepKinds
  <2> HIDE DEF calls
  <2>4. DOMAIN calls = 1..Len(calls) /\ Len(calls) \in Nat /\ Len(calls) # 0
    BY <2>2
  <2>5. plan \in Seq(StepKinds) /\ plan # <<>>
    <3>1. plan \in [1..Len(calls) -> StepKinds]
      BY <2>3, <2>4
    <3>2. plan \in Seq(StepKinds) /\ Len(plan) = Len(calls)
      BY <3>1, <2>4
    <3> QED  BY <3>2, <2>4
  <2>6. UNCHANGED <<emitted, wait>>
    BY <1>2 DEF StartScript
  <2> QED  BY <2>1, <2>5, <2>6, SpawnOK DEF calls
<1> QED  BY <1>1, <1>2

LEMMA ContinuesOK ==
  ASSUME NEW f \in TaskState, TaskOK(f), f.at = "doing"
  PROVE  /\ Continues(f) \in TaskState /\ TaskOK(Continues(f)) /\ Continues(f).status = f.status
         /\ Continues(f).token = f.token
<1>1. Len(f.plan) \in Nat /\ f.step \in 1..Len(f.plan) /\ f.plan # <<>>
  BY DEF TaskState, TaskOK
<1>2. f.status # "none"
  BY DEF TaskOK
<1>3. CASE f.step = Len(f.plan)
  BY <1>1, <1>2, <1>3 DEF Continues, Ends, TaskState, TaskOK, TaskPlace, Ended
<1>4. CASE f.step # Len(f.plan)
  <2> DEFINE x == [f EXCEPT !.at = "step", !.step = f.step + 1]
  <2>1. Continues(f) = x
    BY <1>4 DEF Continues
  <2>2. f.step + 1 \in Nat /\ f.step + 1 \in 1..Len(f.plan)
    BY <1>1, <1>4
  <2>3. x \in TaskState /\ x.at = "step" /\ x.step = f.step + 1 /\ x.plan = f.plan
        /\ x.status = f.status /\ x.token = f.token
    BY <2>2 DEF TaskState, TaskPlace
  <2>4. TaskOK(x)
    BY <1>1, <1>2, <2>2, <2>3 DEF TaskOK
  <2> QED  BY <2>1, <2>3, <2>4
<1> QED  BY <1>3, <1>4

\* A step that ends the plan, or that sets the token over its time before it does.
LEMMA EndsOK ==
  ASSUME NEW f \in TaskState, TaskOK(f), f.at \in {"step", "doing"},
         NEW outcome \in Ended \union {"error"}, NEW token_ \in {f.token, TRUE}
  PROVE  LET g == Ends([f EXCEPT !.token = token_], outcome)
         IN  g \in TaskState /\ TaskOK(g) /\ g.status = f.status
BY DEF Ends, TaskState, TaskOK, TaskPlace, Ended

LEMMA EndsPlainly ==
  ASSUME NEW f \in TaskState, TaskOK(f), f.at \in {"step", "doing"},
         NEW outcome \in Ended \union {"error"}
  PROVE  Ends(f, outcome) \in TaskState /\ TaskOK(Ends(f, outcome)) /\ Ends(f, outcome).status = f.status
BY DEF Ends, TaskState, TaskOK, TaskPlace, Ended

LEMMA UpdateOK ==
  ASSUME TaskInv, NEW t \in BgTask, NEW x \in TaskState, NEW status \in TaskStatus \ {"none"},
         TaskOK(x), x.status = task[t].status, TaskOK([x EXCEPT !.status = status]),
         task[t].status \in Ended => task[t].token /\ task[t].status = "cancelled",
         Update(t, status, x), UNCHANGED wait
  PROVE  TaskInv' /\ EndsOnce
<1> DEFINE y == [x EXCEPT !.status = status]
<1>1. y \in TaskState /\ y.status = status
  BY DEF TaskState
<1>2. CASE Updates(t, status)
  <2>1. task' = [task EXCEPT ![t] = y] /\ emitted' = emitted \union {<<t, y.status>>}
    BY <1>1, <1>2 DEF Update
  <2>2. task[t].status \in Ended => y.status = task[t].status
    BY <1>1, <1>2 DEF Updates
  <2> QED  BY <1>1, <2>1, <2>2, TaskChanges
<1>3. CASE ~Updates(t, status)
  <2>1. task' = [task EXCEPT ![t] = x] /\ UNCHANGED emitted
    BY <1>3 DEF Update
  <2> QED  BY <2>1, TaskChanges
<1> QED  BY <1>2, <1>3

\* The steps of the future of a task.
LEMMA FutureOK ==
  ASSUME TaskInv, NEW t \in BgTask,
         \/ Begin(t) \/ StepTop(t) \/ Unstarted(t) \/ RunStep(t) \/ OpenCopy(t) \/ EndCopy(t)
         \/ AwaitCopy(t) \/ Record(t) \/ ReadToken(t) \/ EndTask(t) \/ CancelTask(t)
  PROVE  TaskInv' /\ EndsOnce
<1> DEFINE f == task[t]
<1>1. f \in TaskState /\ TaskOK(f)
  BY DEF TaskInv
<1>2. task = [task EXCEPT ![t] = f]
  BY DEF TaskInv
<1>3. CASE Begin(t)
  <2> DEFINE x == [f EXCEPT !.at = "step", !.step = 1]
  <2>1. f.at = "spawned" /\ Update(t, "running", x) /\ UNCHANGED wait
    BY <1>3 DEF Begin
  <2>2. f.plan \in Seq(StepKinds) /\ f.plan # <<>>
    BY <1>1, <2>1 DEF TaskState, TaskOK
  <2>3. 1 \in 1..Len(f.plan)
    BY <2>2
  <2>4. x \in TaskState /\ x.at = "step" /\ x.token = f.token /\ x.status = f.status
    BY <1>1 DEF TaskState, TaskPlace
  <2>5. f.status # "none" /\ (f.status \in Ended => f.token /\ f.status = "cancelled")
    BY <1>1, <2>1 DEF TaskOK
  <2>6. TaskOK([x EXCEPT !.status = "running"]) /\ TaskOK(x)
    BY <1>1, <2>1, <2>2, <2>3, <2>5 DEF TaskState, TaskOK, Ended
  <2> QED  BY <2>1, <2>4, <2>5, <2>6, UpdateOK DEF TaskStatus, Ended
<1>4. CASE StepTop(t)
  <2>1. f.at = "step" /\ UNCHANGED <<emitted, wait>>
    BY <1>4 DEF StepTop
  <2>2. CASE f.token
    BY <1>1, <2>1, <2>2, <1>4, EndsPlainly, TaskChanges DEF StepTop, Ended
  <2>3. CASE ~f.token
    <3> DEFINE x == [f EXCEPT !.at = "doing"]
    <3>1. x \in TaskState /\ TaskOK(x) /\ x.status = f.status
      BY <1>1, <2>1 DEF TaskState, TaskOK, TaskPlace
    <3>2. task' = [task EXCEPT ![t] = x]
      BY <1>4, <2>3 DEF StepTop
    <3> QED  BY <2>1, <3>1, <3>2, TaskChanges
  <2> QED  BY <2>2, <2>3
<1>5. CASE Unstarted(t)
  BY <1>1, <1>5, EndsPlainly, TaskChanges DEF Unstarted
<1>6. CASE RunStep(t)
  <2>1. f.at = "doing" /\ UNCHANGED <<emitted, wait>>
    BY <1>6 DEF RunStep
  <2>2. CASE task' = [task EXCEPT ![t] = Continues(@)]
    BY <1>1, <2>1, <2>2, ContinuesOK, TaskChanges
  <2>3. CASE task' = [task EXCEPT ![t] = Ends(@, "failed")] \/ task' = [task EXCEPT ![t] = Ends(@, "completed")]
    BY <1>1, <2>1, <2>3, EndsPlainly, TaskChanges DEF Ended
  <2>4. CASE task' = [task EXCEPT ![t] = Ends([@ EXCEPT !.token = TRUE], "failed")]
    BY <1>1, <2>1, <2>4, EndsOK, TaskChanges DEF Ended
  <2> QED  BY <1>6, <2>2, <2>3, <2>4 DEF RunStep
<1>7. CASE OpenCopy(t) \/ EndCopy(t) \/ AwaitCopy(t)
  <2>1. UNCHANGED <<emitted, wait>>
    BY <1>7 DEF OpenCopy, EndCopy, AwaitCopy
  <2>2. CASE UNCHANGED task
    BY <1>1, <1>2, <2>1, <2>2, TaskChanges
  <2>3. CASE f.at = "doing" /\ task' = [task EXCEPT ![t] = Ends(@, "failed")]
    BY <1>1, <2>1, <2>3, EndsPlainly, TaskChanges DEF Ended
  <2>4. CASE f.at = "doing" /\ task' = [task EXCEPT ![t] = Continues(@)]
    BY <1>1, <2>1, <2>4, ContinuesOK, TaskChanges
  <2> QED  BY <1>7, <2>2, <2>3, <2>4 DEF OpenCopy, EndCopy, AwaitCopy
<1>8. CASE Record(t)
  <2> DEFINE x == [f EXCEPT !.at = "ending"]
  <2>1. f.at = "record" /\ UNCHANGED <<emitted, wait>> /\ task' = [task EXCEPT ![t] = x]
    BY <1>8 DEF Record
  <2>2. x \in TaskState /\ TaskOK(x) /\ x.status = f.status
    BY <1>1, <2>1 DEF TaskState, TaskOK, TaskPlace
  <2> QED  BY <2>1, <2>2, TaskChanges
<1>9. CASE ReadToken(t)
  <2> DEFINE outcome == IF f.token THEN "cancelled" ELSE IF f.outcome = "error" THEN "failed" ELSE "completed"
             x == [f EXCEPT !.at = "last", !.outcome = outcome]
  <2>1. f.at = "ending" /\ UNCHANGED <<emitted, wait>> /\ task' = [task EXCEPT ![t] = x]
    BY <1>9 DEF ReadToken
  <2>2. outcome \in Ended
    BY DEF Ended
  <2> HIDE DEF outcome
  <2>3. x \in TaskState /\ TaskOK(x) /\ x.status = f.status
    BY <1>1, <2>1, <2>2 DEF TaskState, TaskOK, TaskPlace
  <2> QED  BY <2>1, <2>3, TaskChanges
<1>10. CASE EndTask(t)
  <2> DEFINE x == [f EXCEPT !.at = "ended"]
  <2>1. f.at = "last" /\ Update(t, f.outcome, x) /\ UNCHANGED wait
    BY <1>10 DEF EndTask
  <2>2. f.status # "none" /\ f.outcome \in Ended /\ (f.status \in Ended => f.token /\ f.status = "cancelled")
    BY <1>1, <2>1 DEF TaskOK
  <2>3. x \in TaskState /\ x.at = "ended" /\ x.token = f.token /\ x.status = f.status
    BY <1>1 DEF TaskState, TaskPlace
  <2>4. TaskOK([x EXCEPT !.status = f.outcome]) /\ TaskOK(x)
    BY <1>1, <2>1, <2>2 DEF TaskState, TaskOK, Ended
  <2> QED  BY <2>1, <2>2, <2>3, <2>4, UpdateOK DEF TaskStatus, Ended
<1>11. CASE CancelTask(t)
  <2> DEFINE x == [f EXCEPT !.token = TRUE, !.status = "cancelled"]
  <2>1. /\ f.status \in {"queued", "running"} /\ UNCHANGED wait
        /\ task' = [task EXCEPT ![t] = x] /\ emitted' = emitted \union {<<t, "cancelled">>}
    BY <1>11 DEF CancelTask
  <2>2. x \in TaskState /\ TaskOK(x) /\ x.status = "cancelled"
    BY <1>1, <2>1 DEF TaskState, TaskOK, TaskStatus, Ended
  <2>3. f.status \notin Ended
    BY <2>1 DEF Ended
  <2> QED  BY <2>1, <2>2, <2>3, TaskChanges
<1> QED  BY <1>3, <1>4, <1>5, <1>6, <1>7, <1>8, <1>9, <1>10, <1>11

\* The window takes for the end what it finds or hears, which is one.
LEMMA WindowOK ==
  ASSUME TaskInv, NEW t \in BgTask, Listen(t) \/ Ask(t) \/ Arrive(t)
  PROVE  TaskInv' /\ EndsOnce
<1> DEFINE WaitState == [at : {"none", "listening", "asked", "closed"}, outcome : Ended \union {"none"}]
<1>1. task' = task /\ EndsOnce
  BY DEF Listen, Ask, Arrive, EndsOnce
<1>2. \A e \in emitted' : e \in emitted
  BY DEF Listen, Ask, Arrive
<1>3. wait \in [BgTask -> WaitState]
  BY DEF TaskInv
<1>4. PICK w \in WaitState :
        /\ wait' = [wait EXCEPT ![t] = w]
        /\ w.at = "closed" => w.outcome \in Ended /\ w.outcome = task[t].status
  <2>1. CASE Listen(t)
    <3> DEFINE w == [wait[t] EXCEPT !.at = "listening"]
    <3>1. w \in WaitState /\ w.at = "listening" /\ wait' = [wait EXCEPT ![t] = w]
      BY <2>1, <1>3 DEF Listen
    <3> QED  BY <3>1
  <2>2. ASSUME NEW status, status \in Ended => status = task[t].status,
               Hears(t, status)
        PROVE  \E w \in WaitState :
                 /\ wait' = [wait EXCEPT ![t] = w]
                 /\ w.at = "closed" => w.outcome \in Ended /\ w.outcome = task[t].status
    <3>1. CASE status \in Ended
      <4> DEFINE w == [at |-> "closed", outcome |-> status]
      <4>1. w \in WaitState /\ wait' = [wait EXCEPT ![t] = w]
        BY <2>2, <3>1 DEF Hears
      <4> QED  BY <4>1, <3>1, <2>2
    <3>2. CASE status \notin Ended
      <4>1. wait' = [wait EXCEPT ![t] = wait[t]]
        BY <2>2, <3>2, <1>3 DEF Hears
      <4> QED  BY <4>1, <1>3 DEF TaskInv, WaitersAgree, WaiterAgrees
    <3> QED  BY <3>1, <3>2
  <2>3. CASE Ask(t)
    <3>1. CASE task[t].status \in Ended
      BY <2>2, <2>3, <3>1 DEF Ask
    <3>2. CASE task[t].status \notin Ended
      <4> DEFINE w == [wait[t] EXCEPT !.at = "asked"]
      <4>1. w \in WaitState /\ w.at = "asked" /\ wait' = [wait EXCEPT ![t] = w]
        BY <2>3, <3>2, <1>3 DEF Ask
      <4> QED  BY <4>1
    <3> QED  BY <3>1, <3>2
  <2>4. CASE Arrive(t)
    <3>1. PICK e \in emitted : /\ e[1] = t
                               /\ IF wait[t].at \in {"listening", "asked"} THEN Hears(t, e[2])
                                  ELSE UNCHANGED wait
      BY <2>4 DEF Arrive
    <3>2. e[2] \in Ended => e[2] = task[t].status
      BY <3>1 DEF TaskInv
    <3>3. CASE Hears(t, e[2])
      BY <3>2, <3>3, <2>2
    <3>4. CASE UNCHANGED wait
      <4>1. wait' = [wait EXCEPT ![t] = wait[t]]
        BY <3>4, <1>3
      <4> QED  BY <4>1, <1>3 DEF TaskInv, WaitersAgree, WaiterAgrees
    <3> QED  BY <3>1, <3>3, <3>4
  <2> QED  BY <2>1, <2>3, <2>4
<1>5. wait' \in [BgTask -> WaitState] /\ wait'[t] = w /\ \A u \in BgTask \ {t} : wait'[u] = wait[u]
  BY <1>3, <1>4
<1>6. \A u \in BgTask : wait'[u].at = "closed" => wait'[u].outcome \in Ended /\ wait'[u].outcome = task[u].status
  BY <1>4, <1>5 DEF TaskInv, WaitersAgree, WaiterAgrees
<1> QED  BY <1>1, <1>2, <1>5, <1>6 DEF TaskInv, WaitersAgree, WaiterAgrees

LEMMA TaskStep == TaskInv /\ [TaskNext]_taskVars => TaskInv' /\ EndsOnce
<1> SUFFICES ASSUME TaskInv, [TaskNext]_taskVars PROVE TaskInv' /\ EndsOnce
  OBVIOUS
<1>1. CASE StartPlan \/ StartScript
  BY <1>1, StartOK
<1>2. CASE \E t \in BgTask :
             \/ Begin(t) \/ CancelTask(t) \/ StepTop(t) \/ Unstarted(t) \/ RunStep(t) \/ OpenCopy(t)
             \/ EndCopy(t) \/ AwaitCopy(t) \/ Record(t) \/ ReadToken(t) \/ EndTask(t)
  BY <1>2, FutureOK
<1>3. CASE \E t \in BgTask : Listen(t) \/ Ask(t) \/ Arrive(t)
  BY <1>3, WindowOK
<1>4. CASE ClearRecords \/ UNCHANGED taskVars
  BY <1>4 DEF ClearRecords, taskVars, TaskInv, EndsOnce, WaitersAgree, WaiterAgrees
<1> QED  BY <1>1, <1>2, <1>3, <1>4 DEF TaskNext

\* For any number of tasks, plans and events, what a task has ended as it stays, and
\* events of ends tell it (TaskManager of task.rs).
THEOREM TaskInvHolds == TaskSpec => []TaskInv
<1> QED  BY TaskInitOK, TaskStep, PTL DEF TaskSpec

\* The shape of the tasks.
THEOREM TaskTypeCorrect == TaskSpec => []TaskTypeOK
<1>1. TaskInv => TaskTypeOK
  BY DEF TaskInv, TaskTypeOK, TaskState, TaskStatus, TaskOK
<1> QED  BY <1>1, TaskInvHolds, PTL

\* Whoever in the window has taken something for the end of a task has its end
\* (waitForTask of background-task.ts), however late or disordered the events are.
THEOREM WaitersAgreeHolds == TaskSpec => []WaitersAgree
<1>1. TaskInv => WaitersAgree
  BY DEF TaskInv
<1> QED  BY <1>1, TaskInvHolds, PTL

\* An end is final: a late report, a late cancellation or the last update of a run
\* does not change it (TaskManager::update and cancel).
THEOREM TaskEndsOnce == TaskSpec => [][EndsOnce]_taskVars
<1> QED  BY TaskInvHolds, TaskStep, PTL DEF TaskSpec

(***************************************************************************)
(* Batches.  A target is queued, or cancelled while it was, until its      *)
(* future reports; who is at work has a permit.                            *)
(***************************************************************************)
BatchPlace == {"none", "spawned", "working", "ended"}
WorkPlace == {"none", "waiting", "permitted", "starting", "connecting", "executing", "done"}
TargetStatus == TargetEnds \union {"none", "queued", "running"}

FutureFits(c) ==
    /\ work[c] = "none" => target[c] = "none"
    /\ work[c] \in {"waiting", "permitted", "starting"} => target[c] \in {"queued", "cancelled"}
    /\ work[c] = "done" => target[c] \in TargetEnds

BatchInv ==
    /\ batch \in [status : TargetStatus, at : BatchPlace]
    /\ target \in [Connection -> TargetStatus] /\ work \in [Connection -> WorkPlace]
    /\ \A c \in Connection : FutureFits(c)
    /\ batch.at = "ended" =>
         batch.status \in TargetEnds /\ \A c \in Connection : work[c] \in {"none", "done"}
    /\ batch.status = "none" => batch.at = "none" /\ \A c \in Connection : work[c] = "none"
    /\ batch.at = "none" => batch.status = "none"
    /\ IsFiniteSet(Permits) /\ Cardinality(Permits) <= Limit

LEMMA BatchInitOK == BatchInit => BatchInv
<1> SUFFICES ASSUME BatchInit PROVE BatchInv
  OBVIOUS
<1>1. Permits = {}
  BY DEF BatchInit, Permits
<1>2. IsFiniteSet(Permits) /\ Cardinality(Permits) <= Limit
  BY <1>1, FS_EmptySet, BatchAssumption
<1> QED  BY <1>2 DEF BatchInit, BatchInv, FutureFits, TargetStatus, BatchPlace, WorkPlace

\* Whoever works already, or nobody new, keeps to the limit.
LEMMA PermitsShrink ==
  ASSUME BatchInv, \A c \in Connection : work'[c] \in {"none", "waiting", "done"} \/ c \in Permits
  PROVE  IsFiniteSet(Permits') /\ Cardinality(Permits') <= Limit
<1>1. Permits' \subseteq Permits
  BY DEF Permits
<1>2. IsFiniteSet(Permits') /\ Cardinality(Permits') <= Cardinality(Permits)
  BY <1>1, FS_Subset DEF BatchInv
<1>3. Cardinality(Permits) \in Nat /\ Cardinality(Permits') \in Nat
  BY <1>2, FS_CardinalityType DEF BatchInv
<1> QED  BY <1>2, <1>3, BatchAssumption DEF BatchInv

LEMMA StartBatchOK == BatchInv /\ StartBatch => BatchInv'
<1> SUFFICES ASSUME BatchInv, StartBatch PROVE BatchInv'
  OBVIOUS
<1>1. PICK chosen \in SUBSET Connection :
        /\ target' = [c \in Connection |-> IF c \in chosen THEN "queued" ELSE "none"]
        /\ work' = [c \in Connection |-> IF c \in chosen THEN "waiting" ELSE "none"]
  BY DEF StartBatch
<1>2. IsFiniteSet(Permits') /\ Cardinality(Permits') <= Limit
  BY <1>1, PermitsShrink
<1> QED  BY <1>1, <1>2 DEF StartBatch, BatchInv, FutureFits, TargetStatus, BatchPlace, WorkPlace, TargetEnds

LEMMA RunBatchOK == BatchInv /\ RunBatch => BatchInv'
BY DEF BatchInv, RunBatch, FutureFits, Permits, TargetStatus, BatchPlace

LEMMA CancelBatchOK == BatchInv /\ CancelBatch => BatchInv'
<1> SUFFICES ASSUME BatchInv, CancelBatch PROVE BatchInv'
  OBVIOUS
<1>1. \A c \in Connection : target'[c] = IF target[c] = "queued" THEN "cancelled" ELSE target[c]
  BY DEF CancelBatch
<1>2. target' \in [Connection -> TargetStatus] /\ batch' \in [status : TargetStatus, at : BatchPlace]
  BY DEF CancelBatch, BatchInv, TargetStatus, TargetEnds
<1>3. \A c \in Connection : FutureFits(c)'
  BY <1>1 DEF BatchInv, FutureFits, CancelBatch, TargetEnds
<1>4. work' = work /\ Permits' = Permits /\ batch'.at = batch.at /\ batch'.status = "cancelled"
  BY DEF CancelBatch, Permits, BatchInv
<1> QED  BY <1>2, <1>3, <1>4 DEF BatchInv, CancelBatch, TargetEnds

LEMMA FinishBatchOK == BatchInv /\ FinishBatch => BatchInv'
<1> SUFFICES ASSUME BatchInv, FinishBatch PROVE BatchInv'
  OBVIOUS
<1>1. batch'.at = "ended" /\ batch'.status \in TargetEnds
      /\ batch' \in [status : TargetStatus, at : BatchPlace]
  BY DEF FinishBatch, TargetEnds, TargetStatus, BatchPlace
<1>2. UNCHANGED <<target, work>> /\ Permits' = Permits
  BY DEF FinishBatch, Permits
<1> QED  BY <1>1, <1>2 DEF BatchInv, FinishBatch, FutureFits, TargetEnds

\* What a step makes of the future of one target that has a permit, or takes one.
LEMMA FutureMoves ==
  ASSUME BatchInv, NEW c \in Connection, NEW place \in WorkPlace, NEW status \in TargetStatus,
         work' = [work EXCEPT ![c] = place], target' = [target EXCEPT ![c] = status],
         UNCHANGED batch, batch.at = "working" \/ work[c] # "none",
         work[c] \notin {"none", "done"},
         c \in Permits \/ Cardinality(Permits) < Limit,
         place # "none",
         place \in {"waiting", "permitted", "starting"} => status \in {"queued", "cancelled"},
         place = "done" => status \in TargetEnds
  PROVE  BatchInv'
<1>1. work' \in [Connection -> WorkPlace] /\ target' \in [Connection -> TargetStatus]
  BY DEF BatchInv
<1>2. \A d \in Connection : d # c => work'[d] = work[d] /\ target'[d] = target[d]
  BY DEF BatchInv
<1>3. work'[c] = place /\ target'[c] = status
  BY DEF BatchInv
<1>4. \A d \in Connection : FutureFits(d)'
  BY <1>2, <1>3 DEF BatchInv, FutureFits
<1>5. batch.at # "ended" /\ batch.status # "none"
  BY DEF BatchInv
<1>6. IsFiniteSet(Permits') /\ Cardinality(Permits') <= Limit
  <2>1. CASE c \in Permits
    BY <2>1, <1>2, PermitsShrink DEF Permits
  <2>2. CASE c \notin Permits
    <3>1. Permits' \subseteq Permits \union {c}
      BY <1>2 DEF Permits
    <3>2. IsFiniteSet(Permits \union {c}) /\ Cardinality(Permits \union {c}) = Cardinality(Permits) + 1
      BY <2>2, FS_AddElement DEF BatchInv
    <3>3. IsFiniteSet(Permits') /\ Cardinality(Permits') <= Cardinality(Permits) + 1
      BY <3>1, <3>2, FS_Subset
    <3>4. Cardinality(Permits) \in Nat /\ Cardinality(Permits') \in Nat
      BY <3>3, FS_CardinalityType DEF BatchInv
    <3> QED  BY <2>2, <3>3, <3>4, BatchAssumption
  <2> QED  BY <2>1, <2>2
<1> QED  BY <1>1, <1>4, <1>5, <1>6 DEF BatchInv

LEMMA TargetStepOK ==
  ASSUME BatchInv, NEW c \in Connection, TargetStep(c)
  PROVE  BatchInv'
<1>1. work \in [Connection -> WorkPlace] /\ target \in [Connection -> TargetStatus] /\ FutureFits(c)
  BY DEF BatchInv
<1>2. target = [target EXCEPT ![c] = target[c]] /\ target[c] \in TargetStatus
  BY <1>1
<1>3. \A w \in WorkPlace \ {"none", "waiting", "done"} : work[c] = w => c \in Permits
  BY DEF Permits
<1>4. CASE AcquirePermit(c)
  BY <1>1, <1>2, <1>4, FutureMoves DEF AcquirePermit, WorkPlace, FutureFits
<1>5. CASE LookAtToken(c)
  <2>1. work[c] = "permitted" /\ c \in Permits /\ UNCHANGED batch
    BY <1>3, <1>5 DEF LookAtToken, WorkPlace
  <2>2. CASE token
    BY <2>1, <2>2, <1>5, FutureMoves DEF LookAtToken, FinishCancelled, WorkPlace, TargetStatus, TargetEnds
  <2>3. CASE ~token
    BY <1>1, <1>2, <2>1, <2>3, <1>5, FutureMoves DEF LookAtToken, WorkPlace, FutureFits
  <2> QED  BY <2>2, <2>3
<1>6. CASE SetRunning(c)
  BY <1>3, <1>6, FutureMoves DEF SetRunning, WorkPlace, TargetStatus
<1>7. ASSUME NEW result \in TargetEnds, FinishTarget(c, result), c \in Permits, UNCHANGED batch
      PROVE  BatchInv'
  BY <1>7, FutureMoves DEF FinishTarget, WorkPlace, TargetStatus, Permits
<1>8. CASE ConnectTarget(c)
  <2>1. work[c] = "connecting" /\ c \in Permits /\ UNCHANGED batch
    BY <1>3, <1>8 DEF ConnectTarget, WorkPlace
  <2>2. CASE FinishTarget(c, "failed")
    BY <2>1, <2>2, <1>7 DEF TargetEnds
  <2>3. CASE work' = [work EXCEPT ![c] = "executing"] /\ UNCHANGED target
    BY <1>1, <1>2, <2>1, <2>3, FutureMoves DEF WorkPlace
  <2> QED  BY <1>8, <2>2, <2>3 DEF ConnectTarget
<1>9. CASE EndCommand(c) \/ TimeOut(c)
  <2>1. work[c] = "executing" /\ c \in Permits /\ UNCHANGED batch
    BY <1>3, <1>9 DEF EndCommand, TimeOut, WorkPlace
  <2>2. \E result \in TargetEnds : FinishTarget(c, result)
    BY <1>9 DEF EndCommand, TimeOut, TargetEnds
  <2> QED  BY <2>1, <2>2, <1>7
<1> QED  BY <1>4, <1>5, <1>6, <1>8, <1>9 DEF TargetStep

LEMMA BatchStep == BatchInv /\ [BatchNext]_batchVars => BatchInv'
<1> SUFFICES ASSUME BatchInv, [BatchNext]_batchVars PROVE BatchInv'
  OBVIOUS
<1>1. CASE UNCHANGED batchVars
  BY <1>1 DEF batchVars, BatchInv, FutureFits, Permits
<1> QED  BY <1>1, StartBatchOK, RunBatchOK, CancelBatchOK, FinishBatchOK, TargetStepOK DEF BatchNext

\* For any number of targets and any limit, a target's status follows its future, and a
\* permit is what lets it work (start_batch and finish_target of batch.rs).
THEOREM BatchInvHolds == BatchSpec => []BatchInv
<1> QED  BY BatchInitOK, BatchStep, PTL DEF BatchSpec

\* The shape of a batch; never more targets at work than the limit (the semaphore of
\* batch.rs).
THEOREM BatchTypeCorrect == BatchSpec => []BatchTypeOK
<1>1. BatchInv => BatchTypeOK
  BY DEF BatchInv, BatchTypeOK, TargetStatus
<1> QED  BY <1>1, BatchInvHolds, PTL

\* A batch that has ended has no target left queued or running, though a cancellation, a
\* late report "running" and the targets' ends come in any order (finish_batch).
THEOREM EndedIsSettledHolds == BatchSpec => []EndedIsSettled
<1>1. BatchInv => EndedIsSettled
  BY DEF BatchInv, EndedIsSettled, Settled, FutureFits
<1> QED  BY <1>1, BatchInvHolds, PTL
=============================================================================
