--------------------------- MODULE TransferQueue ---------------------------
(***************************************************************************)
(* The file transfer queue of the desktop application (src-tauri/src/      *)
(* sftp.rs, with the commands of commands.rs and the table of db.rs): the  *)
(* reservation of a target, the four slots, pause, resume and cancel       *)
(* through a shared token, the conflict policies, the temporary file and   *)
(* the row that survives a restart.                                        *)
(*                                                                         *)
(* A transfer runs beside the others and beside the user's commands.  The  *)
(* exists() test, the reservation of the final name and the final rename   *)
(* are steps of their own.  A name is a number: the name n renamed once is *)
(* n + 1 ("file", "file (1)", ...).                                        *)
(***************************************************************************)
EXTENDS Integers, FiniteSets, NoValue

CONSTANTS
    Transfer,   \* transfer ids, a fresh UUID for each enqueue
    Direction,  \* the directions explored, a subset of {"upload", "download"}
    Policy,     \* the conflict policies explored: "ask", "overwrite", "skip", "rename"
    MaxName,    \* bound of the model: the last name of the family
    Requested,  \* the names users ask for, and may already have files at
    Size,       \* bound of the model: chunks in a file
    MaxSlots,   \* MAX_CONCURRENT_TRANSFERS (4)
    Silent,     \* bound of the model: the transfers whose server may fall silent
    MaxRestart  \* bound of the model: restarts of the application

ASSUME QueueAssumption ==
    /\ Direction \subseteq {"upload", "download"}
    /\ Policy \subseteq {"ask", "overwrite", "skip", "rename"}
    /\ MaxName \in Nat
    /\ Requested \subseteq 0..MaxName
    /\ Size \in Nat
    /\ MaxSlots \in Nat \ {0}
    /\ Silent \subseteq Transfer
    /\ MaxRestart \in Nat

Name == 0..MaxName

\* transfer_target_key: uploads are scoped to their connection, downloads are
\* local, so the two never share a target.
Target == Direction \X Name

Ended == {"completed", "failed", "cancelled"}

\* What a target holds: nothing, a file of the user, a file partly written by
\* a transfer, or one a transfer has finished.
Content == [is : {"absent", "user", "partial", "whole"}, by : Transfer \union {None}]
Absent == [is |-> "absent", by |-> None]
UserFile == [is |-> "user", by |-> None]
Partial(t) == [is |-> "partial", by |-> t]
Whole(t) == [is |-> "whole", by |-> t]

\* unseen: a lookup of the name failed, and failed lookups count as absence.
\* saved: the name in the transfer's row.
Work == [direction : Direction, name : Name, saved : Name, policy : Policy, sent : 0..Size,
         unseen : BOOLEAN, outcome : Ended \union {"none"}]

ASSUME NoneAssumption == None \notin Work /\ None \notin Target /\ None \notin {0, 1, 2}

VARIABLES
    pc,       \* where enqueue's task is
    work,     \* its TransferTask, None before it is enqueued
    token,    \* controls: 0 runs, 1 is paused, 2 is cancelled, None when absent
    target,   \* targets, None when absent
    slot,     \* transfers that hold a permit of the semaphore
    part,     \* transfers whose .cnshell-part file exists
    disk,     \* the contents of every target
    row,      \* the status in transfer_tasks, "none" where there is no row
    shown,    \* the status of the last transfer-progress event
    calling,  \* transfers inside a call of the SSH session that has no answer yet
    restarts

vars == <<pc, work, token, target, slot, part, disk, row, shown, calling, restarts>>

Label == {"idle", "storing", "waiting", "starting", "connecting", "opening", "resolving",
          "reserving", "copying", "renaming", "sending", "ending", "stopping", "done"}

Writing == {"copying", "renaming", "sending"}

\* Where pulse looks at the token, before a call is made.
Pulsing == {"opening", "copying", "sending"}

Dest(t) == <<work[t].direction, work[t].name>>

Init ==
    /\ pc = [t \in Transfer |-> "idle"]
    /\ work = [t \in Transfer |-> None]
    /\ token = [t \in Transfer |-> None]
    /\ target = [t \in Transfer |-> None]
    /\ slot = {}
    /\ part = {}
    /\ disk \in [Target -> {Absent, UserFile}]
    /\ \A key \in Target : disk[key] = UserFile => key[2] \in Requested
    /\ row = [t \in Transfer |-> "none"]
    /\ shown = [t \in Transfer |-> "none"]
    /\ calling = {}
    /\ restarts = 0

Goto(t, label) == pc' = [pc EXCEPT ![t] = label]

\* Only the task's own place moves.
Move(t, label) ==
    /\ Goto(t, label)
    /\ UNCHANGED <<work, token, target, slot, part, disk, row, shown, restarts>>

\* What an error or a success makes of the transfer.
EndWith(t, outcome) ==
    /\ work' = [work EXCEPT ![t].outcome = outcome]
    /\ Goto(t, "ending")

\* An error while the token says cancelled is a cancellation.
ErrorOutcome(t) == IF token[t] = 2 THEN "cancelled" ELSE "failed"

(***************************************************************************)
(* enqueue: TransferManager::token reserves the target, the row is stored, *)
(* and a task takes over.                                                  *)
(***************************************************************************)
FreeTarget(key) == \A u \in Transfer : target[u] # key

Enqueue(t, d, n, policy) ==
    /\ pc[t] = "idle"
    /\ FreeTarget(<<d, n>>)
    /\ target' = [target EXCEPT ![t] = <<d, n>>]
    /\ token' = [token EXCEPT ![t] = 0]
    /\ work' = [work EXCEPT ![t] = [direction |-> d, name |-> n, saved |-> n, policy |-> policy,
                                    sent |-> 0, unseen |-> FALSE, outcome |-> "none"]]
    /\ Goto(t, "storing")
    /\ UNCHANGED <<slot, part, disk, row, shown, restarts>>

\* transfer_retry: a new transfer with the request of an old row.
Retry(t, old) ==
    /\ row[old] \in {"failed", "cancelled"}
    /\ Enqueue(t, work[old].direction, work[old].saved, work[old].policy)

\* TransferManager::finish
Forget(t) ==
    /\ token' = [token EXCEPT ![t] = None]
    /\ target' = [target EXCEPT ![t] = None]

Store(t) ==
    /\ pc[t] = "storing"
    /\ \/ /\ row' = [row EXCEPT ![t] = "queued"]
          /\ Goto(t, "waiting")
          /\ UNCHANGED <<token, target>>
       \/ /\ Forget(t)
          /\ Goto(t, "done")
          /\ UNCHANGED row
    /\ UNCHANGED <<work, slot, part, disk, shown, restarts>>

(***************************************************************************)
(* acquire_slot.  The token is polled every 100 ms, so a slot can still be *)
(* taken by a transfer whose cancellation has not been noticed.            *)
(***************************************************************************)
AcquireSlot(t) ==
    /\ pc[t] = "waiting"
    /\ Cardinality(slot) < MaxSlots
    /\ slot' = slot \union {t}
    /\ Goto(t, "starting")
    /\ UNCHANGED <<work, token, target, part, disk, row, shown, restarts>>

\* Fault: the token is looked at once there is a slot.
CancelWithSlot(t) ==
    /\ pc[t] = "waiting"
    /\ t \in slot
    /\ token[t] = 2
    /\ EndWith(t, "cancelled")
    /\ UNCHANGED <<token, target, slot, part, disk, row, shown, restarts>>

CancelWaiting(t) ==
    /\ pc[t] = "waiting"
    /\ token[t] = 2
    /\ EndWith(t, "cancelled")
    /\ UNCHANGED <<token, target, slot, part, disk, row, shown, restarts>>

\* The row may fail to be stored; the event is sent all the same.
Show(t, status) ==
    /\ \/ /\ row' = [row EXCEPT ![t] = status]
          /\ work' = [work EXCEPT ![t].saved = work[t].name]
       \/ UNCHANGED <<row, work>>
    /\ shown' = [shown EXCEPT ![t] = status]

Start(t) ==
    /\ pc[t] = "starting"
    /\ Show(t, "running")
    /\ Goto(t, "connecting")
    /\ UNCHANGED <<token, target, slot, part, disk, restarts>>

Connect(t) ==
    /\ pc[t] = "connecting"
    /\ \/ Goto(t, "opening") /\ UNCHANGED work
       \/ EndWith(t, "failed")
    /\ UNCHANGED <<token, target, slot, part, disk, row, shown, restarts>>

(***************************************************************************)
(* run_queued_transfer: pulse comes first and between chunks.  It lets the *)
(* transfer pass while the token is 0, holds it while the token is 1 and   *)
(* fails it once the token is 2.  Who is inside a call has passed.         *)
(***************************************************************************)
Passes(t) == token[t] = 0 \/ t \in calling

\* Fault: the temporary file stays when the transfer fails.
FailKeepingPart(t, outcome) ==
    /\ EndWith(t, outcome)
    /\ UNCHANGED <<token, target, slot, part, disk, row, shown, restarts>>

Fail(t, outcome) ==
    /\ part' = part \ {t}
    /\ EndWith(t, outcome)
    /\ UNCHANGED <<token, target, slot, disk, row, shown, restarts>>

\* pulse finds the token cancelled.
NoticeCancel(t) ==
    /\ pc[t] \in Pulsing
    /\ t \notin calling
    /\ token[t] = 2
    /\ Fail(t, "cancelled")

Open(t) ==
    /\ pc[t] = "opening"
    /\ Passes(t)
    /\ Move(t, "resolving")

\* Where SFTP is not available an upload falls back to SCP, which writes the
\* destination itself, from nothing, and so accepts no policy but overwrite.
OpenScp(t) ==
    /\ pc[t] = "opening"
    /\ Passes(t)
    /\ work[t].direction = "upload"
    /\ \/ /\ work[t].policy = "overwrite"
          /\ disk' = [disk EXCEPT ![Dest(t)] = Partial(t)]
          /\ Goto(t, "sending")
          /\ UNCHANGED <<work, token, target, slot, part, row, shown, restarts>>
       \/ Fail(t, ErrorOutcome(t))

(***************************************************************************)
(* resolve_local_destination, resolve_remote_destination.  exists() and    *)
(* stat().is_err() take every failed lookup for absence: a dangling link,  *)
(* a refused or failing stat.  A rename goes on to the next name as long   *)
(* as the lookup finds a file.                                             *)
(***************************************************************************)
\* The names a rename looks up.
LookedUp(t) ==
    {n \in Name : /\ n >= work[t].name
                  /\ \A m \in work[t].name..(n - 1) : disk[<<work[t].direction, m>>] # Absent}

Settle(t, n, unseen) ==
    /\ work' = [work EXCEPT ![t].name = n, ![t].unseen = unseen]
    /\ Goto(t, "reserving")

\* Fault: the renamed name is not looked up.
RenameToNext(t) == \E n \in Name : n = work[t].name + 1 /\ Settle(t, n, FALSE)

TakeFreeName(t) ==
    \E n \in LookedUp(t), unseen \in BOOLEAN :
        /\ ~unseen => disk[<<work[t].direction, n>>] = Absent
        /\ Settle(t, n, unseen)

Resolve(t) ==
    /\ pc[t] = "resolving"
    /\ \/ \E unseen \in BOOLEAN :
             /\ ~unseen => disk[Dest(t)] = Absent
             /\ Settle(t, work[t].name, unseen)
       \/ /\ disk[Dest(t)] # Absent
          /\ \/ work[t].policy = "skip" /\ EndWith(t, "completed")
             \/ work[t].policy = "overwrite" /\ Settle(t, work[t].name, FALSE)
             \/ work[t].policy = "ask" /\ EndWith(t, ErrorOutcome(t))
             \/ work[t].policy = "rename" /\ TakeFreeName(t)
    /\ UNCHANGED <<token, target, slot, part, disk, row, shown, restarts>>

\* Fault: the transfer stays reserved under the name it was asked for.
KeepTarget(t) == UNCHANGED target

Retarget(t) == target' = [target EXCEPT ![t] = Dest(t)]

\* reserve (TransferManager::retarget), then the temporary file.
Reserve(t) ==
    /\ pc[t] = "reserving"
    /\ \/ /\ \A u \in Transfer \ {t} : target[u] # Dest(t)
          /\ Retarget(t)
          /\ part' = part \union {t}
          /\ Goto(t, "copying")
          /\ UNCHANGED <<work, token, slot, disk, row, shown, restarts>>
       \/ Fail(t, ErrorOutcome(t))

MoreToSend(t) == work[t].sent < Size

Copy(t) ==
    /\ pc[t] = "copying"
    /\ Passes(t)
    /\ \/ /\ MoreToSend(t)
          /\ work' = [work EXCEPT ![t].sent = @ + 1]
          /\ UNCHANGED pc
       \/ /\ ~MoreToSend(t)
          /\ Goto(t, "renaming")
          /\ UNCHANGED work
    /\ UNCHANGED <<token, target, slot, part, disk, row, shown, restarts>>

\* The file is whole: it takes its final name, and nobody looks at the token.
\* atomic_replace may refuse, and so may the file system; of an upload the
\* answer may be lost, and with it the chance to remove the temporary file.
Rename(t) ==
    /\ pc[t] = "renaming"
    /\ \/ \E outcome \in {"completed", ErrorOutcome(t)} :
             /\ outcome = "completed" \/ work[t].direction = "upload"
             /\ disk' = [disk EXCEPT ![Dest(t)] = Whole(t)]
             /\ part' = part \ {t}
             /\ EndWith(t, outcome)
             /\ UNCHANGED <<token, target, slot, row, shown, restarts>>
       \/ Fail(t, ErrorOutcome(t))

\* transfer_with_scp, an upload: the destination grows chunk by chunk.
Send(t) ==
    /\ pc[t] = "sending"
    /\ Passes(t)
    /\ \/ /\ MoreToSend(t)
          /\ work' = [work EXCEPT ![t].sent = @ + 1]
          /\ UNCHANGED <<pc, disk>>
       \/ /\ ~MoreToSend(t)
          /\ disk' = [disk EXCEPT ![Dest(t)] = Whole(t)]
          /\ EndWith(t, "completed")
    /\ UNCHANGED <<token, target, slot, part, row, shown, restarts>>

\* Any read, write, size check or network error on the way.  When the network
\* is what failed, the temporary file of an upload cannot be removed.
Break(t) ==
    /\ pc[t] \in {"copying", "renaming", "sending"}
    /\ \/ Fail(t, ErrorOutcome(t))
       \/ /\ work[t].direction = "upload"
          /\ EndWith(t, ErrorOutcome(t))
          /\ UNCHANGED <<token, target, slot, part, disk, row, shown, restarts>>

End(t) ==
    /\ pc[t] = "ending"
    /\ Show(t, work[t].outcome)
    /\ Goto(t, "stopping")
    /\ UNCHANGED <<token, target, slot, part, disk, restarts>>

\* Fault: only a transfer that completed gives its slot back.
KeepSlot(t) == slot' = IF work[t].outcome = "completed" THEN slot \ {t} ELSE slot

ReleaseSlot(t) == slot' = slot \ {t}

Stop(t) ==
    /\ pc[t] = "stopping"
    /\ Forget(t)
    /\ ReleaseSlot(t)
    /\ Goto(t, "done")
    /\ UNCHANGED <<work, part, disk, row, shown, restarts>>

(***************************************************************************)
(* The user's commands on the token: swap and compare_exchange.            *)
(***************************************************************************)
Cancel(t) ==
    /\ token[t] \in {0, 1}
    /\ token' = [token EXCEPT ![t] = 2]
    /\ UNCHANGED <<pc, work, target, slot, part, disk, row, shown, restarts>>

Pause(t) ==
    /\ token[t] = 0
    /\ token' = [token EXCEPT ![t] = 1]
    /\ UNCHANGED <<pc, work, target, slot, part, disk, row, shown, restarts>>

\* Fault: whatever the token says, it runs again.
ResumeAny(t) ==
    /\ token[t] \in {1, 2}
    /\ token' = [token EXCEPT ![t] = 0]
    /\ UNCHANGED <<pc, work, target, slot, part, disk, row, shown, restarts>>

Resume(t) ==
    /\ token[t] = 1
    /\ token' = [token EXCEPT ![t] = 0]
    /\ UNCHANGED <<pc, work, target, slot, part, disk, row, shown, restarts>>

(***************************************************************************)
(* The application ends at any point and starts again: Database::open      *)
(* settles the rows, the managers are empty, files stay as they are.       *)
(***************************************************************************)
Restart ==
    /\ restarts < MaxRestart
    /\ restarts' = restarts + 1
    /\ pc' = [t \in Transfer |-> IF pc[t] = "idle" THEN "idle" ELSE "done"]
    /\ token' = [t \in Transfer |-> None]
    /\ target' = [t \in Transfer |-> None]
    /\ slot' = {}
    /\ row' = [t \in Transfer |-> IF row[t] \in {"queued", "running"} THEN "failed" ELSE row[t]]
    /\ shown' = [t \in Transfer |-> row'[t]]
    /\ calling' = {}
    /\ UNCHANGED <<work, part, disk>>

(***************************************************************************)
(* A transfer calls the server to connect, to open the file, to read or    *)
(* write a chunk, and for an upload to look at a name and to rename.  Most *)
(* answers come within a step; of one that is late nothing is known.  The  *)
(* session of a transfer has no operation timeout.                         *)
(***************************************************************************)
Call(t) ==
    /\ t \in Silent \ calling
    /\ \/ pc[t] \in Pulsing /\ token[t] = 0
       \/ pc[t] \in {"connecting", "reserving"}
       \/ pc[t] \in {"resolving", "renaming"} /\ work[t].direction = "upload"
    /\ calling' = calling \union {t}
    /\ UNCHANGED <<pc, work, token, target, slot, part, disk, row, shown, restarts>>

\* What a transfer's own task does, as long as nothing breaks.
Progress(t) ==
    /\ \/ Store(t) \/ AcquireSlot(t) \/ CancelWaiting(t) \/ Start(t) \/ Connect(t) \/ Open(t)
       \/ OpenScp(t) \/ NoticeCancel(t) \/ Resolve(t) \/ Reserve(t) \/ Copy(t) \/ Rename(t)
       \/ Send(t) \/ End(t) \/ Stop(t)
    /\ calling' = calling \ {t}

Command(t) ==
    \/ \E d \in Direction, n \in Requested, policy \in Policy : Enqueue(t, d, n, policy)
    \/ \E old \in Transfer : Retry(t, old)
    \/ Cancel(t) \/ Pause(t) \/ Resume(t)

Next ==
    \/ Restart
    \/ \E t \in Transfer :
         \/ Progress(t)
         \/ Call(t)
         \/ Break(t) /\ calling' = calling \ {t}
         \/ Command(t) /\ UNCHANGED calling

\* The runtime polls every task that can make progress.  A server owes no
\* answer to a call under way, users owe nothing and nothing needs to break.
Fairness == \A t \in Transfer : WF_vars(t \notin calling /\ Progress(t))

Spec == Init /\ [][Next]_vars /\ Fairness

(***************************************************************************)
(* Properties                                                              *)
(***************************************************************************)

\* The shape of the queue's state.
TypeOK ==
    /\ pc \in [Transfer -> Label]
    /\ work \in [Transfer -> Work \union {None}]
    /\ token \in [Transfer -> {0, 1, 2, None}]
    /\ target \in [Transfer -> Target \union {None}]
    /\ slot \subseteq Transfer
    /\ part \subseteq Transfer
    /\ disk \in [Target -> Content]
    /\ row \in [Transfer -> Ended \union {"none", "queued", "running"}]
    /\ shown \in [Transfer -> Ended \union {"none", "queued", "running"}]
    /\ calling \subseteq Transfer
    /\ restarts \in 0..MaxRestart

\* sftp.rs:1983: whichever names the policies resolve to, two transfers never
\* write the same target at the same time.
OneWriterPerTarget ==
    \A t, u \in Transfer :
        t # u /\ pc[t] \in Writing /\ pc[u] \in Writing => Dest(t) # Dest(u)

\* Only a transfer told to overwrite, or one whose lookup failed, replaces a
\* file the user already had: no interleaving of two transfers does.
UserFilesSurvive ==
    [][\A t \in Transfer, key \in Target :
         disk[key] = UserFile /\ disk'[key] \in {Partial(t), Whole(t)}
           => work[t].policy = "overwrite" \/ work[t].unseen]_vars

\* sftp.rs:2860: a cancelled transfer is never brought back: from then on it
\* only ends, and it lets go of its token as cancelled or finished.
CancelIsFinal ==
    [][\A t \in Transfer : token[t] = 2 => token'[t] \in {2, None}]_vars

\* sftp.rs:1949-1968: a transfer that is cancelled ends and frees its slot and
\* its target, even when every slot is held by a paused transfer, unless it
\* waits for ever for the answer to a call of its own.
CancelEnds ==
    \A t \in Transfer : <>[](t \in calling) \/ (token[t] = 2 ~> token[t] = None)

\* sftp.rs:1959: what keeps a queued transfer waiting for ever is a transfer in
\* a slot that the user pauses again and again, or that never has an answer.
QueueAdvances ==
    \/ \E u \in Transfer : []<>(u \in slot /\ token[u] = 1) \/ <>[](u \in slot \cap calling)
    \/ \A t \in Transfer : pc[t] = "waiting" ~> pc[t] # "waiting"

\* download_to_path and upload_sftp_file: a transfer that has let go of its
\* target leaves no temporary file behind, unless the network broke under an
\* upload, and the window has been told how it ended.
LeavesNothingBehind ==
    restarts = 0 =>
      \A t \in Transfer :
        pc[t] = "done" =>
          /\ t \in part => work[t].direction = "upload" /\ work[t].outcome # "completed"
          /\ row[t] # "none" => shown[t] \in Ended

(***************************************************************************)
(* What the documentation says and the interleavings break.                *)
(***************************************************************************)

\* docs/ACCEPTANCE.md:56: with the rename policy the file already there is kept
\* (resolve_remote_destination takes a failed stat for absence).
RenameKeepsFiles ==
    [][\A t \in Transfer, key \in Target :
         disk'[key] = Whole(t) /\ disk[key] # Whole(t) /\ work[t].policy = "rename"
           => disk[key] = Absent]_vars
=============================================================================
