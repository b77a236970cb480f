-------------------------------- MODULE Batch --------------------------------
(***************************************************************************)
(* A batch execution (batch.rs): one command on several connections, a     *)
(* bounded number of them at a time, and the remote command it runs there  *)
(* (execute_profile_command, ssh.rs).  All targets share one cancellation  *)
(* token, which a command that exceeds its time sets too.                  *)
(***************************************************************************)
EXTENDS Naturals, FiniteSets

CONSTANTS
    Connection, \* connections of the workspace
    Limit       \* validate_batch: the concurrency asked for

ASSUME BatchAssumption == Limit \in Nat \ {0}

VARIABLES
    batch,  \* BatchExecution: its status, and where the task that runs it is
    token,  \* the shared AtomicBool
    target, \* BatchTargetResult.status
    work    \* where the future of each target is

batchVars == <<batch, token, target, work>>

TargetEnds == {"completed", "failed", "cancelled"}

BatchInit ==
    /\ batch = [status |-> "none", at |-> "none"] /\ token = FALSE
    /\ target = [c \in Connection |-> "none"] /\ work = [c \in Connection |-> "none"]

\* batch_start: the connections asked for, without repetition.
StartBatch ==
    /\ batch.status = "none"
    /\ \E chosen \in SUBSET Connection \ {{}} :
          /\ target' = [c \in Connection |-> IF c \in chosen THEN "queued" ELSE "none"]
          /\ work' = [c \in Connection |-> IF c \in chosen THEN "waiting" ELSE "none"]
    /\ batch' = [status |-> "queued", at |-> "spawned"]
    /\ UNCHANGED token

\* set_batch_status, whatever the status was.
RunBatch ==
    /\ batch.at = "spawned"
    /\ batch' = [status |-> "running", at |-> "working"]
    /\ UNCHANGED <<token, target, work>>

\* batch_cancel, at any time after the start.
CancelBatch ==
    /\ batch.status # "none"
    /\ token' = TRUE
    /\ batch' = [batch EXCEPT !.status = "cancelled"]
    /\ target' = [c \in Connection |-> IF target[c] = "queued" THEN "cancelled" ELSE target[c]]
    /\ UNCHANGED work

(***************************************************************************)
(* The future of a target.                                                 *)
(***************************************************************************)
Permits == {c \in Connection : work[c] \notin {"none", "waiting", "done"}}

AcquirePermit(c) ==
    /\ batch.at = "working" /\ work[c] = "waiting" /\ Cardinality(Permits) < Limit
    /\ work' = [work EXCEPT ![c] = "permitted"]
    /\ UNCHANGED <<batch, token, target>>

\* finish_cancelled_target; Fault: it is left to the command that cancels.
FinishQuietly(c) == UNCHANGED target

FinishCancelled(c) == target' = [target EXCEPT ![c] = "cancelled"]

LookAtToken(c) ==
    /\ work[c] = "permitted"
    /\ IF token THEN FinishCancelled(c) /\ work' = [work EXCEPT ![c] = "done"]
       ELSE work' = [work EXCEPT ![c] = "starting"] /\ UNCHANGED target
    /\ UNCHANGED <<batch, token>>

SetRunning(c) ==
    /\ work[c] = "starting"
    /\ target' = [target EXCEPT ![c] = "running"] /\ work' = [work EXCEPT ![c] = "connecting"]
    /\ UNCHANGED <<batch, token>>

\* finish_target.
FinishTarget(c, result) ==
    /\ target' = [target EXCEPT ![c] = result] /\ work' = [work EXCEPT ![c] = "done"]

\* verified_connection, and channel.exec: the token is not looked at before the command runs.
ConnectTarget(c) ==
    /\ work[c] = "connecting"
    /\ \/ work' = [work EXCEPT ![c] = "executing"] /\ UNCHANGED target
       \/ FinishTarget(c, "failed")
    /\ UNCHANGED <<batch, token>>

\* execute_command_on_session: the command ends, breaks, or is seen to be cancelled.
EndCommand(c) ==
    /\ work[c] = "executing"
    /\ \/ \E result \in {"completed", "failed"} : FinishTarget(c, result)
       \/ token /\ FinishTarget(c, "cancelled")
    /\ UNCHANGED <<batch, token>>

\* execute_command_with_transport: the time is over.
TimeOut(c) ==
    /\ work[c] = "executing"
    /\ token' = TRUE /\ FinishTarget(c, "failed")
    /\ UNCHANGED batch

\* finish_batch, once every future is done.
FinishBatch ==
    /\ batch.at = "working" /\ \A c \in Connection : work[c] \in {"none", "done"}
    /\ batch' = [at |-> "ended",
                 status |-> IF batch.status = "cancelled" THEN "cancelled"
                            ELSE IF \A c \in Connection : target[c] \in {"none", "completed"}
                            THEN "completed" ELSE "failed"]
    /\ UNCHANGED <<token, target, work>>

TargetStep(c) ==
    \/ AcquirePermit(c) \/ LookAtToken(c) \/ SetRunning(c) \/ ConnectTarget(c)
    \/ EndCommand(c) \/ TimeOut(c)

BatchNext ==
    \/ StartBatch \/ RunBatch \/ CancelBatch \/ FinishBatch
    \/ \E c \in Connection : TargetStep(c)

\* The spawned task is polled and the command has a time limit; connecting has none, and
\* no server has to answer.
BatchFairness ==
    /\ WF_batchVars(RunBatch \/ FinishBatch)
    /\ \A c \in Connection : WF_batchVars(work[c] # "connecting" /\ TargetStep(c))

BatchSpec == BatchInit /\ [][BatchNext]_batchVars /\ BatchFairness

(***************************************************************************)
(* Properties.                                                             *)
(***************************************************************************)
\* The type of a batch; no more targets are worked on than the limit.
BatchTypeOK ==
    /\ batch.status \in TargetEnds \union {"none", "queued", "running"}
    /\ \A c \in Connection : target[c] \in TargetEnds \union {"none", "queued", "running"}
    /\ Cardinality(Permits) <= Limit

\* No target is left queued or running.
Settled ==
    /\ batch.status \in TargetEnds
    /\ \A c \in Connection : target[c] \in TargetEnds \union {"none"}

\* Without fairness: what has ended, a cancellation that comes later included.
EndedIsSettled == batch.at = "ended" => Settled

\* batch.rs: a batch comes to an end, and then no target of it is left queued or running,
\* though a cancellation may come at any point and a target that exceeds its time stops
\* the ones that have not begun.  One server that never answers a handshake keeps it from
\* ending, cancelled or not.
BatchSettles ==
    \/ \E c \in Connection : <>[](work[c] = "connecting")
    \/ batch.at = "spawned" ~> batch.at = "ended" /\ Settled
=============================================================================
