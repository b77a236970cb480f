----------------------------- MODULE TaskRegistry -----------------------------
(***************************************************************************)
(* Background tasks: the registry (task.rs), the runs of automation plans  *)
(* (automation.rs) and of restricted Python scripts (python_automation.rs) *)
(* that it carries, the commands that start them (commands.rs), and the    *)
(* window that waits for a task (src/lib/background-task.ts).              *)
(***************************************************************************)
EXTENDS Naturals, Sequences, FiniteSets, FiniteSetsExt

CONSTANTS
    Plan,    \* plans, each a sequence of kinds of steps
    Script,  \* restricted Python scripts
    MaxTasks \* bound of the model: tasks started

\* automation::validate, and the calls that compile knows.
ASSUME TaskAssumption ==
    /\ MaxTasks \in Nat
    /\ \A plan \in Plan :
         plan # <<>> /\ plan \in Seq({"command", "waitForMatch", "condition", "transfer"})
    /\ \A script \in Script :
         script.calls \in Seq({"command", "wait_for", "require", "upload", "download"})

BgTask == 1..MaxTasks

VARIABLES
    task,    \* TaskEntry and the future that runs it
    copy,    \* the blocking part of a transfer step
    records, \* automation_runs
    emitted, \* background-task events under way to the window
    wait     \* waitForTask in the window

taskVars == <<task, copy, records, emitted, wait>>

Ended == {"completed", "failed", "cancelled"}
NoTask == [status |-> "none", token |-> FALSE, at |-> "none", plan |-> <<>>, step |-> 0,
           outcome |-> "none"]
Unheard == [at |-> "none", outcome |-> "none"]

TaskInit ==
    /\ task = [t \in BgTask |-> NoTask] /\ copy = [t \in BgTask |-> "none"]
    /\ records = [t \in BgTask |-> "none"] /\ emitted = {}
    /\ wait = [t \in BgTask |-> Unheard]

\* TaskManager::spawn.
FreeTasks == {t \in BgTask : task[t].status = "none"}

Spawn(plan) ==
    /\ FreeTasks # {}
    /\ task' = [task EXCEPT ![Min(FreeTasks)] =
                  [NoTask EXCEPT !.status = "queued", !.at = "spawned", !.plan = plan]]

\* python_automation::compile and plan: every call is one step, needs its permission, and
\* a transfer its local path.
Needs(call) ==
    CASE call = "command" -> "executeCommand" [] call \in {"wait_for", "require"} -> "readResults"
      [] call = "upload" -> "transferUpload" [] OTHER -> "transferDownload"

StepOf(call) ==
    CASE call = "wait_for" -> "waitForMatch" [] call = "require" -> "condition"
      [] call \in {"upload", "download"} -> "transfer" [] OTHER -> call

Compiles(script) ==
    /\ script.calls # <<>>
    /\ \A i \in DOMAIN script.calls : Needs(script.calls[i]) \in script.permissions
    /\ script.listed \/ \A i \in DOMAIN script.calls : StepOf(script.calls[i]) # "transfer"

\* automation_start and automation_schedule_run_now; automation_python_start.
StartPlan ==
    /\ \E plan \in Plan : Spawn(plan)
    /\ UNCHANGED <<copy, records, emitted, wait>>

StartScript ==
    \E script \in Script :
        /\ Compiles(script)
        /\ Spawn([i \in DOMAIN script.calls |-> StepOf(script.calls[i])])
        /\ UNCHANGED <<copy, records, emitted, wait>>

\* TaskManager::update: a task that was cancelled only becomes "cancelled".
UpdatesAny(t, status) == TRUE

Updates(t, status) == task[t].token => status = "cancelled"

Update(t, status, future) ==
    IF Updates(t, status)
    THEN /\ task' = [task EXCEPT ![t] = [future EXCEPT !.status = status]]
         /\ emitted' = emitted \union {<<t, status>>}
    ELSE task' = [task EXCEPT ![t] = future] /\ UNCHANGED emitted

Begin(t) ==
    /\ task[t].at = "spawned"
    /\ Update(t, "running", [task[t] EXCEPT !.at = "step", !.step = 1])
    /\ UNCHANGED <<copy, records, wait>>

\* TaskManager::cancel.
CancelTask(t) ==
    /\ task[t].status \in {"queued", "running"}
    /\ task' = [task EXCEPT ![t].token = TRUE, ![t].status = "cancelled"]
    /\ emitted' = emitted \union {<<t, "cancelled">>}
    /\ UNCHANGED <<copy, records, wait>>

\* automation::run: before each step the token is read.
StepKind(t) == task[t].plan[task[t].step]

Ends(f, outcome) == [f EXCEPT !.at = "record", !.outcome = outcome]

Continues(f) ==
    IF f.step = Len(f.plan) THEN Ends(f, "completed") ELSE [f EXCEPT !.at = "step", !.step = @ + 1]

StepTop(t) ==
    /\ task[t].at = "step"
    /\ task' = [task EXCEPT ![t] = IF task[t].token THEN Ends(@, "cancelled") ELSE [@ EXCEPT !.at = "doing"]]
    /\ UNCHANGED <<copy, records, emitted, wait>>

\* The plan's connection is gone, or it is not one for automation.
Unstarted(t) ==
    /\ task[t].at = "step" /\ task[t].step = 1
    /\ task' = [task EXCEPT ![t] = Ends(@, "error")]
    /\ UNCHANGED <<copy, records, emitted, wait>>

\* execute_step: a step continues, ends the plan as it asks to, or fails.  A command that
\* exceeds its time sets the token of the task (execute_command_with_transport).
RunStep(t) ==
    /\ task[t].at = "doing" /\ StepKind(t) # "transfer"
    /\ \/ task' = [task EXCEPT ![t] = Continues(@)]
       \/ task' = [task EXCEPT ![t] = Ends(@, "failed")]
       \/ StepKind(t) = "condition" /\ task' = [task EXCEPT ![t] = Ends(@, "completed")]
       \/ /\ StepKind(t) = "command"
          /\ task' = [task EXCEPT ![t] = Ends([@ EXCEPT !.token = TRUE], "failed")]
    /\ UNCHANGED <<copy, records, emitted, wait>>

\* transfer: the copying is a blocking thread of its own...
OpenCopy(t) ==
    /\ task[t].at = "doing" /\ StepKind(t) = "transfer" /\ copy[t] = "none"
    /\ \/ copy' = [copy EXCEPT ![t] = "copying"] /\ UNCHANGED task
       \/ task' = [task EXCEPT ![t] = Ends(@, "failed")] /\ UNCHANGED copy
    /\ UNCHANGED <<records, emitted, wait>>

\* ... which looks at the token before each chunk, and then puts the file in its place.
EndCopy(t) ==
    /\ \/ copy[t] = "copying" /\ ~task[t].token /\ copy' = [copy EXCEPT ![t] = "renaming"]
       \/ copy[t] = "renaming" /\ copy' = [copy EXCEPT ![t] = "placed"]
       \/ copy[t] \in {"copying", "renaming"} /\ copy' = [copy EXCEPT ![t] = "failed"]
    /\ UNCHANGED <<task, records, emitted, wait>>

\* The step waits for the thread, no longer than its time; the thread goes on.
AwaitCopy(t) ==
    /\ task[t].at = "doing" /\ StepKind(t) = "transfer"
    /\ \/ /\ copy[t] = "placed" /\ copy' = [copy EXCEPT ![t] = "none"]
          /\ task' = [task EXCEPT ![t] = Continues(@)]
       \/ /\ copy[t] \in {"copying", "renaming", "failed"} /\ UNCHANGED copy
          /\ task' = [task EXCEPT ![t] = Ends(@, "failed")]
    /\ UNCHANGED <<records, emitted, wait>>

\* run_recorded: the record, which may fail to be saved.
Recorded(t) == IF task[t].outcome = "error" THEN "failed" ELSE task[t].outcome

Record(t) ==
    /\ task[t].at = "record"
    /\ records' \in {records, [records EXCEPT ![t] = Recorded(t)]}
    /\ task' = [task EXCEPT ![t].at = "ending"]
    /\ UNCHANGED <<copy, emitted, wait>>

ClearRecords ==
    /\ \E t \in BgTask : records[t] # "none"
    /\ records' = [t \in BgTask |-> "none"]
    /\ UNCHANGED <<task, copy, emitted, wait>>

\* spawn: the token is read, then the task is updated.  A run that failed is a result;
\* only one that could not start fails its task.
ReadToken(t) ==
    /\ task[t].at = "ending"
    /\ task' = [task EXCEPT ![t].at = "last",
                  ![t].outcome = IF task[t].token THEN "cancelled"
                                 ELSE IF @ = "error" THEN "failed" ELSE "completed"]
    /\ UNCHANGED <<copy, records, emitted, wait>>

EndTask(t) ==
    /\ task[t].at = "last"
    /\ Update(t, task[t].outcome, [task[t] EXCEPT !.at = "ended"])
    /\ UNCHANGED <<copy, records, wait>>

(***************************************************************************)
(* waitForTask in the window: it listens, then asks, and takes the first   *)
(* end it hears of.                                                        *)
(***************************************************************************)
Hears(t, status) ==
    wait' = IF status \in Ended THEN [wait EXCEPT ![t] = [at |-> "closed", outcome |-> status]]
            ELSE wait

Listen(t) ==
    /\ wait[t].at = "none" /\ task[t].status # "none"
    /\ wait' = [wait EXCEPT ![t].at = "listening"]
    /\ UNCHANGED <<task, copy, records, emitted>>

Ask(t) ==
    /\ wait[t].at = "listening"
    /\ IF task[t].status \in Ended THEN Hears(t, task[t].status)
       ELSE wait' = [wait EXCEPT ![t].at = "asked"]
    /\ UNCHANGED <<task, copy, records, emitted>>

\* Events of different threads arrive in any order.
Arrive(t) ==
    \E e \in emitted :
        /\ e[1] = t /\ emitted' = emitted \ {e}
        /\ IF wait[t].at \in {"listening", "asked"} THEN Hears(t, e[2]) ELSE UNCHANGED wait
        /\ UNCHANGED <<task, copy, records>>

TaskNext ==
    \/ StartPlan \/ StartScript
    \/ \E t \in BgTask :
         \/ Begin(t) \/ CancelTask(t) \/ StepTop(t) \/ Unstarted(t) \/ RunStep(t) \/ OpenCopy(t)
         \/ EndCopy(t) \/ AwaitCopy(t) \/ Record(t) \/ ReadToken(t) \/ EndTask(t)
         \/ Listen(t) \/ Ask(t) \/ Arrive(t)
    \/ ClearRecords

\* verified_connection, before the command or the thread of a transfer: it comes before
\* the time limit of the step, does not look at the token, and its handshake has no end.
Connecting(t) ==
    /\ task[t].at = "doing"
    /\ StepKind(t) = "command" \/ (StepKind(t) = "transfer" /\ copy[t] = "none")

\* A spawned future runs, and its other waits have a time limit; the window asks and hears.
\* No server has to answer a handshake.
TaskFairness ==
    \A t \in BgTask :
        /\ WF_taskVars(/\ ~Connecting(t)
                       /\ \/ Begin(t) \/ StepTop(t) \/ RunStep(t) \/ AwaitCopy(t)
                          \/ Record(t) \/ ReadToken(t) \/ EndTask(t))
        /\ WF_taskVars(Ask(t) \/ Arrive(t))

TaskSpec == TaskInit /\ [][TaskNext]_taskVars /\ TaskFairness

(***************************************************************************)
(* Properties.                                                             *)
(***************************************************************************)
\* The type of the tasks.
TaskTypeOK ==
    \A t \in BgTask :
        /\ task[t].status \in Ended \union {"none", "queued", "running"}
        /\ task[t].at \in {"step", "doing"} => task[t].step \in 1..Len(task[t].plan)

\* What a waiter took for the end of a task is its end, then and ever after.
WaiterAgrees(t) == wait[t].at = "closed" => wait[t].outcome = task[t].status
WaitersAgree == \A t \in BgTask : WaiterAgrees(t)

\* background-task.ts and task.rs: whoever waits for a task learns how it ended, however its
\* start, its end, a cancellation and their events interleave; unless the task, which nobody
\* cancels, waits for ever for a server.
WaiterLearnsTheEnd ==
    /\ [](\A t \in BgTask : WaiterAgrees(t))
    /\ \A t \in BgTask :
         \/ <>[](Connecting(t) /\ ~task[t].token)
         \/ wait[t].at = "listening" ~> wait[t].at = "closed"
=============================================================================
