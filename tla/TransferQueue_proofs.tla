------------------------ MODULE TransferQueue_proofs ------------------------
(***************************************************************************)
(* Proofs about TransferQueue: for any number of transfers, names, chunks, *)
(* slots and restarts, two transfers never write the same target, a        *)
(* cancellation is final, no file of the user is replaced by an            *)
(* interleaving, and an ended transfer leaves no temporary file.           *)
(***************************************************************************)
EXTENDS TransferQueue, TLAPS

\* Where a transfer's reservation is the name it works on: until the policies
\* choose another name, and again once it has reserved that one.
Reserved == {"storing", "waiting", "starting", "connecting", "opening"} \union Writing

\* An id not used yet has nothing; any other has a TransferTask.
TaskInv(t) ==
    /\ pc[t] = "idle" => token[t] = None /\ target[t] = None /\ row[t] = "none"
    /\ pc[t] # "idle" => work[t] # None
    /\ pc[t] \in Reserved => target[t] = Dest(t)

\* TransferManager's targets, where token and retarget refuse a name in use.
TargetsApart ==
    \A t, u \in Transfer : t # u /\ target[t] # None => target[t] # target[u]

QueueInv ==
    /\ TypeOK
    /\ \A t \in Transfer : TaskInv(t)
    /\ TargetsApart

\* A transfer that was given up is enqueued again as its row has it.
LEMMA RetryEnqueues ==
  ASSUME QueueInv, NEW t \in Transfer, NEW old \in Transfer, Retry(t, old)
  PROVE  \E d \in Direction, n \in Name, policy \in Policy : Enqueue(t, d, n, policy)
<1>1. work[old] \in Work
  BY DEF QueueInv, TypeOK, TaskInv, Retry
<1> QED
  BY <1>1 DEF Retry, Work

\* The steps of the queue, with a retry seen as the enqueueing it is.
Step ==
    \/ Restart
    \/ \E t \in Transfer :
          \/ Progress(t) \/ Break(t) \/ Cancel(t) \/ Pause(t) \/ Resume(t)
          \/ \E d \in Direction, n \in Name, policy \in Policy : Enqueue(t, d, n, policy)

\* Everything but the calls under way, which no other part of the state reads.
others == <<pc, work, token, target, slot, part, disk, row, shown, restarts>>

LEMMA NextIsStep == QueueInv /\ [Next]_vars => Step \/ UNCHANGED others
BY RetryEnqueues, QueueAssumption DEF Next, Command, Call, Step, Name, vars, others

\* Only transfers make calls.
LEMMA CallsTyped == QueueInv /\ [Next]_vars => calling' \subseteq Transfer
<1> SUFFICES ASSUME QueueInv, [Next]_vars PROVE calling' \subseteq Transfer
  OBVIOUS
<1>1. calling \subseteq Transfer
  BY DEF QueueInv, TypeOK
<1>2. CASE Restart
  BY <1>2 DEF Restart
<1>3. ASSUME NEW t \in Transfer, Progress(t) \/ Call(t) \/ calling' \in {calling, calling \ {t}}
      PROVE  calling' \subseteq Transfer
  BY <1>1, <1>3 DEF Progress, Call
<1> QED
  BY <1>1, <1>2, <1>3 DEF Next, vars

LEMMA InitTyped == Init => TypeOK
BY QueueAssumption, NoneAssumption DEF Init, TypeOK, Label, Content, Absent, UserFile

(***************************************************************************)
(* The TransferTask                                                        *)
(***************************************************************************)

\* What a step writes into a TransferTask leaves it one, and only Settle gives
\* it another name.
SameDest(v, w) == v.direction = w.direction /\ v.name = w.name

LEMMA WorkUpdates ==
  ASSUME NEW w \in Work
  PROVE  /\ \A o \in Ended : /\ [w EXCEPT !.outcome = o] \in Work
                             /\ SameDest([w EXCEPT !.outcome = o], w)
         /\ [w EXCEPT !.saved = w.name] \in Work
         /\ SameDest([w EXCEPT !.saved = w.name], w)
         /\ w.sent < Size => /\ [w EXCEPT !.sent = @ + 1] \in Work
                             /\ SameDest([w EXCEPT !.sent = @ + 1], w)
         /\ \A n \in Name, b \in BOOLEAN : [w EXCEPT !.name = n, !.unseen = b] \in Work
<1> USE DEF Work, SameDest
<1>1. \A o \in Ended : [w EXCEPT !.outcome = o] \in Work /\ SameDest([w EXCEPT !.outcome = o], w)
  OBVIOUS
<1>2. [w EXCEPT !.saved = w.name] \in Work /\ SameDest([w EXCEPT !.saved = w.name], w)
  OBVIOUS
<1>3. w.sent < Size => [w EXCEPT !.sent = @ + 1] \in Work /\ SameDest([w EXCEPT !.sent = @ + 1], w)
  BY QueueAssumption
<1>4. \A n \in Name, b \in BOOLEAN : [w EXCEPT !.name = n, !.unseen = b] \in Work
  OBVIOUS
<1> QED
  BY <1>1, <1>2, <1>3, <1>4

\* The target of a TransferTask, and what a transfer can make of it.
LEMMA DestIsTarget ==
  ASSUME NEW t \in Transfer, work[t] \in Work
  PROVE  Dest(t) \in Target /\ Partial(t) \in Content /\ Whole(t) \in Content
BY DEF Work, Dest, Target, Content, Partial, Whole

\* What a step may do to the TransferTasks.
WorkStep ==
    /\ work' \in [Transfer -> Work \union {None}]
    /\ \A u \in Transfer : work'[u] = work[u] \/ work'[u] \in Work
    /\ \A u \in Transfer : pc[u] \notin {"idle", "resolving"} => SameDest(work'[u], work[u])

\* Every update of one TransferTask is a WorkStep.
LEMMA OneUpdate ==
  ASSUME TypeOK, NEW t \in Transfer, NEW w \in Work, work' = [work EXCEPT ![t] = w],
         pc[t] \in {"idle", "resolving"} \/ SameDest(w, work[t])
  PROVE  WorkStep
BY DEF TypeOK, WorkStep, SameDest

\* EndWith, Show and Settle, the helpers that write one.
LEMMA EndWithWorks ==
  ASSUME TypeOK, NEW t \in Transfer, work[t] \in Work, NEW o \in Ended, EndWith(t, o)
  PROVE  WorkStep
<1>1. work' = [work EXCEPT ![t] = [work[t] EXCEPT !.outcome = o]]
  BY DEF EndWith
<1> QED
  BY <1>1, WorkUpdates, OneUpdate

LEMMA ShowWorks ==
  ASSUME TypeOK, NEW t \in Transfer, work[t] \in Work, NEW status, Show(t, status)
  PROVE  WorkStep
<1>1. CASE work' = [work EXCEPT ![t].saved = work[t].name]
  <2>1. work' = [work EXCEPT ![t] = [work[t] EXCEPT !.saved = work[t].name]]
    BY <1>1
  <2> QED
    BY <2>1, WorkUpdates, OneUpdate
<1>2. CASE work' = work
  BY <1>2 DEF WorkStep, SameDest, TypeOK
<1> QED
  BY <1>1, <1>2 DEF Show

LEMMA SettleWorks ==
  ASSUME TypeOK, NEW t \in Transfer, work[t] \in Work, pc[t] = "resolving",
         NEW n \in Name, NEW b \in BOOLEAN, Settle(t, n, b)
  PROVE  WorkStep
<1>1. work' = [work EXCEPT ![t] = [work[t] EXCEPT !.name = n, !.unseen = b]]
  BY DEF Settle
<1> QED
  BY <1>1, WorkUpdates, OneUpdate

LEMMA SendWorks ==
  ASSUME TypeOK, NEW t \in Transfer, work[t] \in Work, MoreToSend(t),
         work' = [work EXCEPT ![t].sent = @ + 1]
  PROVE  WorkStep
<1>1. work' = [work EXCEPT ![t] = [work[t] EXCEPT !.sent = @ + 1]]
  OBVIOUS
<1> QED
  BY <1>1, WorkUpdates, OneUpdate DEF MoreToSend

\* Every step treats the TransferTasks well.
LEMMA StepWorks == QueueInv /\ [Next]_vars => WorkStep
<1> SUFFICES ASSUME QueueInv, Step \/ UNCHANGED others PROVE WorkStep
  BY NextIsStep
<1>same. work' = work => WorkStep
  BY DEF QueueInv, TypeOK, WorkStep, SameDest
<1>busy. \A t \in Transfer : pc[t] # "idle" => work[t] \in Work
  BY DEF QueueInv, TypeOK, TaskInv
<1>type. TypeOK
  BY DEF QueueInv
<1>ended. \A t \in Transfer : ErrorOutcome(t) \in Ended
  BY DEF ErrorOutcome, Ended
<1>out. {"completed", "failed", "cancelled"} = Ended
  BY DEF Ended
<1>stutter CASE UNCHANGED others
  BY <1>same, <1>stutter DEF others
<1>1. ASSUME NEW t \in Transfer, Store(t) PROVE WorkStep
  BY <1>1, <1>same DEF Store
<1>2. ASSUME NEW t \in Transfer, AcquireSlot(t) PROVE WorkStep
  BY <1>2, <1>same DEF AcquireSlot
<1>3. ASSUME NEW t \in Transfer, CancelWaiting(t) PROVE WorkStep
  BY <1>3, <1>busy, <1>type, <1>out, EndWithWorks DEF CancelWaiting
<1>4. ASSUME NEW t \in Transfer, Start(t) PROVE WorkStep
  BY <1>4, <1>busy, <1>type, <1>out, ShowWorks DEF Start
<1>5. ASSUME NEW t \in Transfer, Connect(t) PROVE WorkStep
  BY <1>5, <1>busy, <1>type, <1>out, <1>same, EndWithWorks DEF Connect
<1>6. ASSUME NEW t \in Transfer, Open(t) PROVE WorkStep
  BY <1>6, <1>same DEF Open, Move
<1>7. ASSUME NEW t \in Transfer, OpenScp(t) PROVE WorkStep
  BY <1>7, <1>busy, <1>type, <1>out, <1>same, <1>ended, EndWithWorks DEF OpenScp, Fail
<1>8. ASSUME NEW t \in Transfer, NoticeCancel(t) PROVE WorkStep
  BY <1>8, <1>busy, <1>type, <1>out, EndWithWorks DEF NoticeCancel, Pulsing, Fail
<1>9. ASSUME NEW t \in Transfer, Resolve(t) PROVE WorkStep
  <2>1. pc[t] = "resolving" /\ work[t] \in Work /\ work[t].name \in Name
    BY <1>9, <1>busy DEF Resolve, Work
  <2>2. ASSUME NEW n \in Name, NEW b \in BOOLEAN, Settle(t, n, b) PROVE WorkStep
    BY <1>type, <2>1, <2>2, SettleWorks
  <2>3. ASSUME NEW o \in Ended, EndWith(t, o) PROVE WorkStep
    BY <1>type, <2>1, <2>3, EndWithWorks
  <2>4. \/ \E n \in Name, b \in BOOLEAN : Settle(t, n, b)
        \/ \E o \in Ended : EndWith(t, o)
    BY <1>9, <2>1, <1>ended, <1>out DEF Resolve, TakeFreeName, LookedUp
  <2> QED
    BY <2>2, <2>3, <2>4
<1>10. ASSUME NEW t \in Transfer, Reserve(t) PROVE WorkStep
  BY <1>10, <1>busy, <1>type, <1>out, <1>same, <1>ended, EndWithWorks DEF Reserve, Fail
<1>11. ASSUME NEW t \in Transfer, Copy(t) PROVE WorkStep
  BY <1>11, <1>busy, <1>type, <1>out, <1>same, SendWorks DEF Copy
<1>12. ASSUME NEW t \in Transfer, Rename(t) PROVE WorkStep
  BY <1>12, <1>busy, <1>type, <1>out, <1>ended, EndWithWorks DEF Rename, Fail
<1>13. ASSUME NEW t \in Transfer, Send(t) PROVE WorkStep
  BY <1>13, <1>busy, <1>type, <1>out, SendWorks, EndWithWorks DEF Send
<1>14. ASSUME NEW t \in Transfer, End(t) PROVE WorkStep
  BY <1>14, <1>busy, <1>type, <1>out, ShowWorks DEF End
<1>15. ASSUME NEW t \in Transfer, Stop(t) PROVE WorkStep
  BY <1>15, <1>same DEF Stop
<1>16. ASSUME NEW t \in Transfer, Break(t) PROVE WorkStep
  BY <1>16, <1>busy, <1>type, <1>out, <1>ended, EndWithWorks DEF Break, Fail
<1>17. ASSUME NEW t \in Transfer, Cancel(t) PROVE WorkStep
  BY <1>17, <1>same DEF Cancel
<1>18. ASSUME NEW t \in Transfer, Pause(t) PROVE WorkStep
  BY <1>18, <1>same DEF Pause
<1>19. ASSUME NEW t \in Transfer, Resume(t) PROVE WorkStep
  BY <1>19, <1>same DEF Resume
<1>20. ASSUME NEW t \in Transfer, NEW d \in Direction, NEW n \in Name,
             NEW policy \in Policy, Enqueue(t, d, n, policy)
      PROVE  WorkStep
  <2>1. [direction |-> d, name |-> n, saved |-> n, policy |-> policy, sent |-> 0,
         unseen |-> FALSE, outcome |-> "none"] \in Work
    BY QueueAssumption DEF Work
  <2> QED
    BY <1>20, <1>type, <2>1, OneUpdate DEF Enqueue
<1>21. ASSUME Restart PROVE WorkStep
  BY <1>21, <1>same DEF Restart
<1> QED
  BY <1>stutter, <1>1, <1>2, <1>3, <1>4, <1>5, <1>6, <1>7, <1>8, <1>9, <1>10, <1>11, <1>12, <1>13, <1>14, <1>15, <1>16, <1>17, <1>18, <1>19, <1>20, <1>21 DEF Step, Progress

(***************************************************************************)
(* The invariant                                                           *)
(***************************************************************************)

\* Every step keeps the types.
LEMMA StepTyped == QueueInv /\ [Next]_vars => TypeOK'
<1> SUFFICES ASSUME QueueInv, Step \/ UNCHANGED others, WorkStep, calling' \subseteq Transfer
             PROVE  TypeOK'
  BY NextIsStep, StepWorks, CallsTyped
<1>busy. \A t \in Transfer : pc[t] # "idle" => work[t] \in Work
  BY DEF QueueInv, TypeOK, TaskInv
<1>outcome. \A t \in Transfer : work[t] \in Work => work[t].outcome \in Ended \union {"none"}
  BY DEF Work
<1> USE QueueAssumption DEF QueueInv, TypeOK, WorkStep, Goto, Label, Ended
<1>stutter CASE UNCHANGED others
  BY <1>stutter DEF others
<1>1. ASSUME NEW t \in Transfer, Store(t) PROVE TypeOK'
  BY <1>1 DEF Store, Forget
<1>2. ASSUME NEW t \in Transfer, AcquireSlot(t) PROVE TypeOK'
  BY <1>2 DEF AcquireSlot
<1>3. ASSUME NEW t \in Transfer, CancelWaiting(t) PROVE TypeOK'
  BY <1>3 DEF CancelWaiting, EndWith
<1>4. ASSUME NEW t \in Transfer, Start(t) PROVE TypeOK'
  BY <1>4 DEF Start, Show
<1>5. ASSUME NEW t \in Transfer, Connect(t) PROVE TypeOK'
  BY <1>5 DEF Connect, EndWith
<1>6. ASSUME NEW t \in Transfer, Open(t) PROVE TypeOK'
  BY <1>6 DEF Open, Move
<1>7. ASSUME NEW t \in Transfer, OpenScp(t) PROVE TypeOK'
  BY <1>7, <1>busy, DestIsTarget DEF OpenScp, Fail, EndWith, ErrorOutcome
<1>8. ASSUME NEW t \in Transfer, NoticeCancel(t) PROVE TypeOK'
  BY <1>8 DEF NoticeCancel, Fail, EndWith
<1>9. ASSUME NEW t \in Transfer, Resolve(t) PROVE TypeOK'
  BY <1>9 DEF Resolve, TakeFreeName, Settle, EndWith, ErrorOutcome, LookedUp
<1>10. ASSUME NEW t \in Transfer, Reserve(t) PROVE TypeOK'
  BY <1>10, <1>busy, DestIsTarget DEF Reserve, Retarget, Fail, EndWith, ErrorOutcome
<1>11. ASSUME NEW t \in Transfer, Copy(t) PROVE TypeOK'
  BY <1>11 DEF Copy, MoreToSend
<1>12. ASSUME NEW t \in Transfer, Rename(t) PROVE TypeOK'
  BY <1>12, <1>busy, DestIsTarget DEF Rename, Fail, EndWith, ErrorOutcome
<1>13. ASSUME NEW t \in Transfer, Send(t) PROVE TypeOK'
  BY <1>13, <1>busy, DestIsTarget DEF Send, MoreToSend, EndWith
<1>14. ASSUME NEW t \in Transfer, End(t) PROVE TypeOK'
  BY <1>14, <1>busy, <1>outcome DEF End, Show
<1>15. ASSUME NEW t \in Transfer, Stop(t) PROVE TypeOK'
  BY <1>15 DEF Stop, Forget, ReleaseSlot
<1>16. ASSUME NEW t \in Transfer, Break(t) PROVE TypeOK'
  BY <1>16 DEF Break, Fail, EndWith, ErrorOutcome
<1>17. ASSUME NEW t \in Transfer, Cancel(t) PROVE TypeOK'
  BY <1>17 DEF Cancel
<1>18. ASSUME NEW t \in Transfer, Pause(t) PROVE TypeOK'
  BY <1>18 DEF Pause
<1>19. ASSUME NEW t \in Transfer, Resume(t) PROVE TypeOK'
  BY <1>19 DEF Resume
<1>20. ASSUME NEW t \in Transfer, NEW d \in Direction, NEW n \in Name,
             NEW policy \in Policy, Enqueue(t, d, n, policy)
      PROVE  TypeOK'
  BY <1>20 DEF Enqueue, Target, Name
<1>21. ASSUME Restart PROVE TypeOK'
  BY <1>21 DEF Restart
<1> QED
  BY <1>stutter, <1>1, <1>2, <1>3, <1>4, <1>5, <1>6, <1>7, <1>8, <1>9, <1>10, <1>11, <1>12, <1>13, <1>14, <1>15, <1>16, <1>17, <1>18, <1>19, <1>20, <1>21 DEF Step, Progress

\* Every step keeps each transfer's part of the invariant.
LEMMA StepKeepsTasks == QueueInv /\ TypeOK' /\ [Next]_vars => \A t \in Transfer : TaskInv(t)'
<1> SUFFICES ASSUME QueueInv, TypeOK', Step \/ UNCHANGED others, WorkStep, NEW u \in Transfer
             PROVE  TaskInv(u)'
  BY NextIsStep, StepWorks
<1>some. \A w \in Work : w # None
  BY NoneAssumption
<1> USE NoneAssumption
    DEF QueueInv, TypeOK, TaskInv, WorkStep, SameDest, Goto, Reserved, Writing, Dest
<1>stutter CASE UNCHANGED others
  BY <1>stutter DEF others
<1>1. ASSUME NEW t \in Transfer, Store(t) PROVE TaskInv(u)'
  BY <1>1, <1>some DEF Store, Forget
<1>2. ASSUME NEW t \in Transfer, AcquireSlot(t) PROVE TaskInv(u)'
  BY <1>2, <1>some DEF AcquireSlot
<1>3. ASSUME NEW t \in Transfer, CancelWaiting(t) PROVE TaskInv(u)'
  BY <1>3, <1>some DEF CancelWaiting, EndWith
<1>4. ASSUME NEW t \in Transfer, Start(t) PROVE TaskInv(u)'
  BY <1>4, <1>some DEF Start, Show
<1>5. ASSUME NEW t \in Transfer, Connect(t) PROVE TaskInv(u)'
  BY <1>5, <1>some DEF Connect, EndWith
<1>6. ASSUME NEW t \in Transfer, Open(t) PROVE TaskInv(u)'
  BY <1>6, <1>some DEF Open, Move
<1>7. ASSUME NEW t \in Transfer, OpenScp(t) PROVE TaskInv(u)'
  BY <1>7, <1>some DEF OpenScp, Fail, EndWith, ErrorOutcome
<1>8. ASSUME NEW t \in Transfer, NoticeCancel(t) PROVE TaskInv(u)'
  BY <1>8, <1>some DEF NoticeCancel, Fail, EndWith
<1>9. ASSUME NEW t \in Transfer, Resolve(t) PROVE TaskInv(u)'
  <2>1. /\ pc[t] = "resolving"
        /\ \E place \in {"reserving", "ending"} : pc' = [pc EXCEPT ![t] = place]
        /\ UNCHANGED <<token, target, row>>
    BY <1>9 DEF Resolve, TakeFreeName, Settle, EndWith
  <2> QED
    BY <2>1, <1>some
<1>10. ASSUME NEW t \in Transfer, Reserve(t) PROVE TaskInv(u)'
  BY <1>10, <1>some DEF Reserve, Retarget, Fail, EndWith, ErrorOutcome
<1>11. ASSUME NEW t \in Transfer, Copy(t) PROVE TaskInv(u)'
  BY <1>11, <1>some DEF Copy, MoreToSend
<1>12. ASSUME NEW t \in Transfer, Rename(t) PROVE TaskInv(u)'
  BY <1>12, <1>some DEF Rename, Fail, EndWith, ErrorOutcome
<1>13. ASSUME NEW t \in Transfer, Send(t) PROVE TaskInv(u)'
  BY <1>13, <1>some DEF Send, MoreToSend, EndWith
<1>14. ASSUME NEW t \in Transfer, End(t) PROVE TaskInv(u)'
  BY <1>14, <1>some DEF End, Show
<1>15. ASSUME NEW t \in Transfer, Stop(t) PROVE TaskInv(u)'
  BY <1>15, <1>some DEF Stop, Forget, ReleaseSlot
<1>16. ASSUME NEW t \in Transfer, Break(t) PROVE TaskInv(u)'
  BY <1>16, <1>some DEF Break, Fail, EndWith, ErrorOutcome
<1>17. ASSUME NEW t \in Transfer, Cancel(t) PROVE TaskInv(u)'
  BY <1>17, <1>some DEF Cancel
<1>18. ASSUME NEW t \in Transfer, Pause(t) PROVE TaskInv(u)'
  BY <1>18, <1>some DEF Pause
<1>19. ASSUME NEW t \in Transfer, Resume(t) PROVE TaskInv(u)'
  BY <1>19, <1>some DEF Resume
<1>20. ASSUME NEW t \in Transfer, NEW d \in Direction, NEW n \in Name,
             NEW policy \in Policy, Enqueue(t, d, n, policy)
      PROVE  TaskInv(u)'
  <2>1. CASE u = t
    <3>1. work'[t].direction = d /\ work'[t].name = n /\ target'[t] = <<d, n>> /\ pc'[t] = "storing"
      BY <1>20 DEF Enqueue
    <3>2. work'[t] \in Work
      <4>1. [direction |-> d, name |-> n, saved |-> n, policy |-> policy, sent |-> 0,
             unseen |-> FALSE, outcome |-> "none"] \in Work
        BY QueueAssumption DEF Work
      <4> QED
        BY <1>20, <4>1 DEF Enqueue
    <3> QED
      BY <2>1, <3>1, <3>2, <1>some
  <2>2. CASE u # t
    BY <1>20, <2>2 DEF Enqueue
  <2> QED
    BY <2>1, <2>2
<1>21. ASSUME Restart PROVE TaskInv(u)'
  BY <1>21, <1>some DEF Restart
<1> QED
  BY <1>stutter, <1>1, <1>2, <1>3, <1>4, <1>5, <1>6, <1>7, <1>8, <1>9, <1>10, <1>11, <1>12, <1>13, <1>14, <1>15, <1>16, <1>17, <1>18, <1>19, <1>20, <1>21 DEF Step, Progress

\* Whoever reserves a name finds it free, and nobody else's changes.
LEMMA StepKeepsTargetsApart == QueueInv /\ TypeOK' /\ [Next]_vars => TargetsApart'
<1> SUFFICES ASSUME QueueInv, TypeOK', Step \/ UNCHANGED others PROVE TargetsApart'
  BY NextIsStep
<1> USE QueueAssumption, NoneAssumption DEF QueueInv, TypeOK, TaskInv, Goto, TargetsApart
<1>stutter CASE UNCHANGED others
  BY <1>stutter DEF others
<1>1. ASSUME NEW t \in Transfer, Store(t) PROVE TargetsApart'
  BY <1>1 DEF Store, Forget
<1>2. ASSUME NEW t \in Transfer, AcquireSlot(t) PROVE TargetsApart'
  BY <1>2 DEF AcquireSlot
<1>3. ASSUME NEW t \in Transfer, CancelWaiting(t) PROVE TargetsApart'
  BY <1>3 DEF CancelWaiting, EndWith
<1>4. ASSUME NEW t \in Transfer, Start(t) PROVE TargetsApart'
  BY <1>4 DEF Start, Show
<1>5. ASSUME NEW t \in Transfer, Connect(t) PROVE TargetsApart'
  BY <1>5 DEF Connect, EndWith
<1>6. ASSUME NEW t \in Transfer, Open(t) PROVE TargetsApart'
  BY <1>6 DEF Open, Move
<1>7. ASSUME NEW t \in Transfer, OpenScp(t) PROVE TargetsApart'
  BY <1>7 DEF OpenScp, Fail, EndWith, ErrorOutcome
<1>8. ASSUME NEW t \in Transfer, NoticeCancel(t) PROVE TargetsApart'
  BY <1>8 DEF NoticeCancel, Fail, EndWith
<1>9. ASSUME NEW t \in Transfer, Resolve(t) PROVE TargetsApart'
  BY <1>9 DEF Resolve, TakeFreeName, Settle, EndWith, ErrorOutcome, LookedUp
<1>10. ASSUME NEW t \in Transfer, Reserve(t) PROVE TargetsApart'
  BY <1>10 DEF Reserve, Retarget, Fail, EndWith, ErrorOutcome
<1>11. ASSUME NEW t \in Transfer, Copy(t) PROVE TargetsApart'
  BY <1>11 DEF Copy, MoreToSend
<1>12. ASSUME NEW t \in Transfer, Rename(t) PROVE TargetsApart'
  BY <1>12 DEF Rename, Fail, EndWith, ErrorOutcome
<1>13. ASSUME NEW t \in Transfer, Send(t) PROVE TargetsApart'
  BY <1>13 DEF Send, MoreToSend, EndWith
<1>14. ASSUME NEW t \in Transfer, End(t) PROVE TargetsApart'
  BY <1>14 DEF End, Show
<1>15. ASSUME NEW t \in Transfer, Stop(t) PROVE TargetsApart'
  BY <1>15 DEF Stop, Forget, ReleaseSlot
<1>16. ASSUME NEW t \in Transfer, Break(t) PROVE TargetsApart'
  BY <1>16 DEF Break, Fail, EndWith, ErrorOutcome
<1>17. ASSUME NEW t \in Transfer, Cancel(t) PROVE TargetsApart'
  BY <1>17 DEF Cancel
<1>18. ASSUME NEW t \in Transfer, Pause(t) PROVE TargetsApart'
  BY <1>18 DEF Pause
<1>19. ASSUME NEW t \in Transfer, Resume(t) PROVE TargetsApart'
  BY <1>19 DEF Resume
<1>20. ASSUME NEW t \in Transfer, NEW d \in Direction, NEW n \in Name,
             NEW policy \in Policy, Enqueue(t, d, n, policy)
      PROVE  TargetsApart'
  BY <1>20 DEF Enqueue, FreeTarget
<1>21. ASSUME Restart PROVE TargetsApart'
  BY <1>21 DEF Restart
<1> QED
  BY <1>stutter, <1>1, <1>2, <1>3, <1>4, <1>5, <1>6, <1>7, <1>8, <1>9, <1>10, <1>11, <1>12, <1>13, <1>14, <1>15, <1>16, <1>17, <1>18, <1>19, <1>20, <1>21 DEF Step, Progress

\* Nobody takes a cancellation back.
LEMMA StepKeepsCancelled ==
  QueueInv /\ [Next]_vars => \A t \in Transfer : token[t] = 2 => token'[t] \in {2, None}
<1> SUFFICES ASSUME QueueInv, Step \/ UNCHANGED others, NEW u \in Transfer, token[u] = 2
             PROVE  token'[u] \in {2, None}
  BY NextIsStep
<1> USE QueueAssumption, NoneAssumption DEF QueueInv, TypeOK, TaskInv, Goto
<1>stutter CASE UNCHANGED others
  BY <1>stutter DEF others
<1>1. ASSUME NEW t \in Transfer, Store(t) PROVE token'[u] \in {2, None}
  BY <1>1 DEF Store, Forget
<1>2. ASSUME NEW t \in Transfer, AcquireSlot(t) PROVE token'[u] \in {2, None}
  BY <1>2 DEF AcquireSlot
<1>3. ASSUME NEW t \in Transfer, CancelWaiting(t) PROVE token'[u] \in {2, None}
  BY <1>3 DEF CancelWaiting, EndWith
<1>4. ASSUME NEW t \in Transfer, Start(t) PROVE token'[u] \in {2, None}
  BY <1>4 DEF Start, Show
<1>5. ASSUME NEW t \in Transfer, Connect(t) PROVE token'[u] \in {2, None}
  BY <1>5 DEF Connect, EndWith
<1>6. ASSUME NEW t \in Transfer, Open(t) PROVE token'[u] \in {2, None}
  BY <1>6 DEF Open, Move
<1>7. ASSUME NEW t \in Transfer, OpenScp(t) PROVE token'[u] \in {2, None}
  BY <1>7 DEF OpenScp, Fail, EndWith, ErrorOutcome
<1>8. ASSUME NEW t \in Transfer, NoticeCancel(t) PROVE token'[u] \in {2, None}
  BY <1>8 DEF NoticeCancel, Fail, EndWith
<1>9. ASSUME NEW t \in Transfer, Resolve(t) PROVE token'[u] \in {2, None}
  BY <1>9 DEF Resolve, TakeFreeName, Settle, EndWith, ErrorOutcome, LookedUp
<1>10. ASSUME NEW t \in Transfer, Reserve(t) PROVE token'[u] \in {2, None}
  BY <1>10 DEF Reserve, Retarget, Fail, EndWith, ErrorOutcome
<1>11. ASSUME NEW t \in Transfer, Copy(t) PROVE token'[u] \in {2, None}
  BY <1>11 DEF Copy, MoreToSend
<1>12. ASSUME NEW t \in Transfer, Rename(t) PROVE token'[u] \in {2, None}
  BY <1>12 DEF Rename, Fail, EndWith, ErrorOutcome
<1>13. ASSUME NEW t \in Transfer, Send(t) PROVE token'[u] \in {2, None}
  BY <1>13 DEF Send, MoreToSend, EndWith
<1>14. ASSUME NEW t \in Transfer, End(t) PROVE token'[u] \in {2, None}
  BY <1>14 DEF End, Show
<1>15. ASSUME NEW t \in Transfer, Stop(t) PROVE token'[u] \in {2, None}
  BY <1>15 DEF Stop, Forget, ReleaseSlot
<1>16. ASSUME NEW t \in Transfer, Break(t) PROVE token'[u] \in {2, None}
  BY <1>16 DEF Break, Fail, EndWith, ErrorOutcome
<1>17. ASSUME NEW t \in Transfer, Cancel(t) PROVE token'[u] \in {2, None}
  BY <1>17 DEF Cancel
<1>18. ASSUME NEW t \in Transfer, Pause(t) PROVE token'[u] \in {2, None}
  BY <1>18 DEF Pause
<1>19. ASSUME NEW t \in Transfer, Resume(t) PROVE token'[u] \in {2, None}
  BY <1>19 DEF Resume
<1>20. ASSUME NEW t \in Transfer, NEW d \in Direction, NEW n \in Name,
             NEW policy \in Policy, Enqueue(t, d, n, policy)
      PROVE  token'[u] \in {2, None}
  BY <1>20 DEF Enqueue
<1>21. ASSUME Restart PROVE token'[u] \in {2, None}
  BY <1>21 DEF Restart
<1> QED
  BY <1>stutter, <1>1, <1>2, <1>3, <1>4, <1>5, <1>6, <1>7, <1>8, <1>9, <1>10, <1>11, <1>12, <1>13, <1>14, <1>15, <1>16, <1>17, <1>18, <1>19, <1>20, <1>21 DEF Step, Progress

(***************************************************************************)
(* What becomes of files                                                   *)
(***************************************************************************)

\* A transfer on its way to a file of the user was told to overwrite it, or saw
\* nothing there.
FileInv(t) ==
    /\ pc[t] = "sending" => work[t].policy = "overwrite"
    /\ pc[t] \in {"reserving", "copying", "renaming"} /\ disk[Dest(t)] = UserFile =>
          work[t].policy = "overwrite" \/ work[t].unseen

\* Until the application restarts: a temporary file is of a transfer that writes
\* it or of an upload that failed, and a transfer that has ended was shown so.
TidyInv(t) ==
    /\ t \in part => \/ pc[t] \in {"copying", "renaming"}
                     \/ /\ pc[t] \in {"ending", "stopping", "done"}
                        /\ work[t].direction = "upload" /\ work[t].outcome # "completed"
    /\ pc[t] = "storing" => row[t] = "none"
    /\ pc[t] = "ending" => work[t].outcome \in Ended
    /\ pc[t] = "stopping" => shown[t] \in Ended
    /\ pc[t] = "done" /\ row[t] # "none" => shown[t] \in Ended

FilesInv == \A t \in Transfer : FileInv(t) /\ (restarts = 0 => TidyInv(t))

\* What a step leaves of another transfer's variables.
Apart(u) ==
    /\ pc'[u] = pc[u] /\ work'[u] = work[u] /\ row'[u] = row[u] /\ shown'[u] = shown[u]
    /\ u \in part' <=> u \in part

\* Nothing makes a file the user's, and a transfer's step is about itself.
LEMMA StepsApart ==
    ASSUME QueueInv, NEW t \in Transfer,
           \/ Progress(t) \/ Break(t) \/ Cancel(t) \/ Pause(t) \/ Resume(t)
           \/ \E d \in Direction, n \in Name, policy \in Policy : Enqueue(t, d, n, policy)
    PROVE  /\ \A u \in Transfer \ {t} : Apart(u)
           /\ \A key \in Target : disk'[key] = UserFile => disk[key] = UserFile
           /\ restarts' = restarts
  <1>0. /\ pc \in [Transfer -> Label] /\ work \in [Transfer -> Work \union {None}]
        /\ row \in [Transfer -> Ended \union {"none", "queued", "running"}]
        /\ shown \in [Transfer -> Ended \union {"none", "queued", "running"}]
        /\ disk \in [Target -> Content]
    BY DEF QueueInv, TypeOK
  <1>1. UserFile # Partial(t) /\ UserFile # Whole(t)
    BY DEF UserFile, Partial, Whole
  <1> USE DEF Apart, Goto, EndWith, Fail
  <1>2. CASE Store(t) \/ AcquireSlot(t) \/ CancelWaiting(t) \/ Start(t) \/ Connect(t) \/ Open(t)
    BY <1>0, <1>2 DEF Store, AcquireSlot, CancelWaiting, Start, Show, Connect, Open, Move
  <1>3. CASE OpenScp(t) \/ NoticeCancel(t)
    BY <1>0, <1>1, <1>3 DEF OpenScp, NoticeCancel
  <1>4. CASE Resolve(t)
    BY <1>0, <1>4 DEF Resolve, TakeFreeName, Settle
  <1>5. CASE Reserve(t) \/ Copy(t) \/ End(t) \/ Stop(t) \/ Break(t)
    BY <1>0, <1>5 DEF Reserve, Copy, End, Show, Stop, Break
  <1>6. CASE Rename(t) \/ Send(t)
    BY <1>0, <1>1, <1>6 DEF Rename, Send
  <1>7. CASE Cancel(t) \/ Pause(t) \/ Resume(t)
    BY <1>7 DEF Cancel, Pause, Resume
  <1>8. CASE \E d \in Direction, n \in Name, policy \in Policy : Enqueue(t, d, n, policy)
    BY <1>0, <1>8 DEF Enqueue
  <1> QED
    BY <1>2, <1>3, <1>4, <1>5, <1>6, <1>7, <1>8 DEF Progress

\* A transfer that stands still keeps its part.
LEMMA FilesApart ==
    ASSUME QueueInv, FilesInv, NEW u \in Transfer, Apart(u), restarts' = restarts,
           \A key \in Target : disk'[key] = UserFile => disk[key] = UserFile
    PROVE  FileInv(u)' /\ (restarts' = 0 => TidyInv(u)')
  <1>1. pc[u] # "idle" => Dest(u) \in Target
    BY DestIsTarget DEF QueueInv, TypeOK, TaskInv
  <1>2. Dest(u)' = Dest(u)
    BY DEF Apart, Dest
  <1> QED
    BY <1>1, <1>2 DEF FilesInv, FileInv, TidyInv, Apart

\* What a transfer's own step makes of its part.
LEMMA FilesOwn ==
    ASSUME QueueInv, FilesInv, NEW t \in Transfer,
           \/ Progress(t) \/ Break(t) \/ Cancel(t) \/ Pause(t) \/ Resume(t)
           \/ \E d \in Direction, n \in Name, policy \in Policy : Enqueue(t, d, n, policy)
    PROVE  FileInv(t)' /\ (restarts' = 0 => TidyInv(t)')
  <1> DEFINE Goal == FileInv(t)' /\ (restarts' = 0 => TidyInv(t)')
  <1>0. /\ pc \in [Transfer -> Label] /\ work \in [Transfer -> Work \union {None}]
        /\ row \in [Transfer -> Ended \union {"none", "queued", "running"}]
        /\ shown \in [Transfer -> Ended \union {"none", "queued", "running"}]
        /\ disk \in [Target -> Content]
    BY DEF QueueInv, TypeOK
  <1>1. pc[t] # "idle" => work[t] \in Work
    BY DEF QueueInv, TypeOK, TaskInv
  <1>2. pc[t] = "idle" => row[t] = "none"
    BY DEF QueueInv, TaskInv
  <1>3. FileInv(t) /\ (restarts = 0 => TidyInv(t))
    BY DEF FilesInv
  <1>4. ErrorOutcome(t) \in {"cancelled", "failed"}
    BY DEF ErrorOutcome
  <1> USE DEF FileInv, TidyInv, Goto, Ended
  <1>5. ASSUME NEW o \in Ended, EndWith(t, o),
               restarts = 0 /\ t \in part' => work[t].direction = "upload" /\ o # "completed",
               UNCHANGED <<row, shown, restarts>>, pc[t] # "idle"
        PROVE  Goal
    <2>1. work' = [work EXCEPT ![t] = [work[t] EXCEPT !.outcome = o]] /\ pc'[t] = "ending"
      BY <1>0, <1>5 DEF EndWith
    <2>2. work'[t].outcome = o /\ work'[t].direction = work[t].direction
      BY <1>0, <1>1, <1>5, <2>1 DEF Work
    <2> QED
      BY <1>5, <2>1, <2>2
  <1>6. ASSUME NEW o \in Ended, Fail(t, o), pc[t] # "idle" PROVE Goal
    BY <1>5, <1>6 DEF Fail
  <1>7. CASE Store(t) \/ AcquireSlot(t) \/ Open(t)
    BY <1>0, <1>3, <1>7 DEF Store, AcquireSlot, Open, Move
  <1>8. CASE Start(t)
    BY <1>0, <1>3, <1>8 DEF Start, Show
  <1>9. CASE Connect(t) \/ CancelWaiting(t)
    <2>1. CASE Goto(t, "opening") /\ UNCHANGED work
      BY <1>0, <1>3, <1>9, <2>1 DEF Connect, CancelWaiting
    <2>2. CASE EndWith(t, "failed") \/ EndWith(t, "cancelled")
      BY <1>3, <1>5, <1>9, <2>2 DEF Connect, CancelWaiting
    <2> QED
      BY <1>9, <2>1, <2>2 DEF Connect, CancelWaiting
  <1>10. CASE OpenScp(t) \/ NoticeCancel(t)
    <2>1. CASE /\ pc[t] = "opening" /\ work[t].policy = "overwrite" /\ Goto(t, "sending")
               /\ UNCHANGED <<work, part, row, shown, restarts>>
      BY <1>0, <1>3, <2>1
    <2> QED
      BY <1>4, <1>6, <1>10, <2>1 DEF OpenScp, NoticeCancel, Pulsing
  <1>11. CASE Resolve(t)
    <2>0. /\ pc[t] = "resolving" /\ UNCHANGED <<part, disk, row, shown, restarts>>
          /\ restarts = 0 => t \notin part
      BY <1>3, <1>11 DEF Resolve
    <2>1. ASSUME NEW o \in Ended, EndWith(t, o) PROVE Goal
      BY <1>5, <2>0, <2>1
    <2>2. ASSUME NEW n \in Name, NEW unseen \in BOOLEAN, Settle(t, n, unseen),
                 \/ unseen \/ disk[<<work[t].direction, n>>] = Absent
                 \/ work[t].policy = "overwrite"
          PROVE  Goal
      <3>1. work' = [work EXCEPT ![t] = [work[t] EXCEPT !.name = n, !.unseen = unseen]]
            /\ pc'[t] = "reserving"
        BY <1>0, <2>2 DEF Settle
      <3>2. /\ work'[t].name = n /\ work'[t].unseen = unseen
            /\ work'[t].policy = work[t].policy /\ work'[t].direction = work[t].direction
        BY <1>0, <1>1, <2>0, <3>1 DEF Work
      <3>3. Absent # UserFile
        BY DEF Absent, UserFile
      <3> QED
        BY <2>0, <2>2, <3>1, <3>2, <3>3 DEF Dest
    <2>3. work[t].name \in Name /\ FALSE \in BOOLEAN /\ Dest(t) = <<work[t].direction, work[t].name>>
      BY <1>1, <2>0 DEF Work, Dest
    <2> QED
      BY <1>4, <1>11, <2>1, <2>2, <2>3 DEF Resolve, TakeFreeName, LookedUp
  <1>12. CASE Reserve(t)
    <2>1. CASE /\ part' = part \union {t} /\ Goto(t, "copying")
               /\ UNCHANGED <<work, disk, row, shown, restarts>>
      BY <1>0, <1>3, <1>12, <2>1 DEF Reserve, Dest
    <2> QED
      BY <1>4, <1>6, <1>12, <2>1 DEF Reserve
  <1>13. CASE Copy(t)
    <2>1. CASE work' = [work EXCEPT ![t].sent = @ + 1] /\ UNCHANGED pc
      <3>1. work' = [work EXCEPT ![t] = [work[t] EXCEPT !.sent = work[t].sent + 1]]
        BY <2>1
      <3>2. /\ work'[t].name = work[t].name /\ work'[t].unseen = work[t].unseen
            /\ work'[t].policy = work[t].policy /\ work'[t].direction = work[t].direction
            /\ work'[t].outcome = work[t].outcome
        BY <1>0, <1>1, <1>13, <3>1 DEF Copy, Work
      <3> QED
        BY <1>3, <1>13, <2>1, <3>2 DEF Copy, Dest
    <2>2. CASE UNCHANGED work /\ Goto(t, "renaming")
      BY <1>0, <1>3, <1>13, <2>2 DEF Copy, Dest
    <2> QED
      BY <1>13, <2>1, <2>2 DEF Copy
  <1>14. CASE Rename(t)
    <2>1. pc[t] = "renaming"
      BY <1>14 DEF Rename
    <2>2. ASSUME NEW o \in {"completed", ErrorOutcome(t)}, part' = part \ {t}, EndWith(t, o),
                 UNCHANGED <<row, shown, restarts>>
          PROVE  Goal
      BY <1>4, <1>5, <2>1, <2>2
    <2> QED
      BY <1>4, <1>6, <1>14, <2>1, <2>2 DEF Rename
  <1>15. CASE Send(t)
    <2>0. pc[t] = "sending" /\ UNCHANGED <<part, row, shown, restarts>>
      BY <1>15 DEF Send
    <2>1. CASE work' = [work EXCEPT ![t].sent = @ + 1] /\ UNCHANGED pc
      <3>1. work' = [work EXCEPT ![t] = [work[t] EXCEPT !.sent = work[t].sent + 1]]
        BY <2>1
      <3>2. work'[t].policy = work[t].policy
        BY <1>0, <1>1, <2>0, <3>1 DEF Work
      <3> QED
        BY <1>3, <2>0, <2>1, <3>2
    <2>2. CASE EndWith(t, "completed")
      BY <1>3, <1>5, <2>0, <2>2
    <2> QED
      BY <1>15, <2>1, <2>2 DEF Send
  <1>16. CASE End(t)
    <2>1. /\ pc[t] = "ending" /\ pc'[t] = "stopping" /\ shown'[t] = work[t].outcome
          /\ UNCHANGED <<part, restarts>>
      BY <1>0, <1>16 DEF End, Show
    <2>2. work'[t].outcome = work[t].outcome /\ work'[t].direction = work[t].direction
      <3>1. \/ work' = work
            \/ work' = [work EXCEPT ![t] = [work[t] EXCEPT !.saved = work[t].name]]
        BY <1>16 DEF End, Show
      <3> QED
        BY <1>0, <1>1, <2>1, <3>1 DEF Work
    <2> QED
      BY <1>3, <2>1, <2>2
  <1>17. CASE Stop(t)
    BY <1>0, <1>3, <1>17 DEF Stop
  <1>18. CASE Break(t)
    BY <1>4, <1>5, <1>6, <1>18 DEF Break
  <1>19. CASE Cancel(t) \/ Pause(t) \/ Resume(t)
    BY <1>3, <1>19 DEF Cancel, Pause, Resume, Dest
  <1>20. CASE \E d \in Direction, n \in Name, policy \in Policy : Enqueue(t, d, n, policy)
    BY <1>0, <1>2, <1>3, <1>20 DEF Enqueue
  <1> QED
    BY <1>7, <1>8, <1>9, <1>10, <1>11, <1>12, <1>13, <1>14, <1>15, <1>16, <1>17, <1>18, <1>19,
       <1>20 DEF Progress

\* FilesInv is inductive.
LEMMA FilesStep == QueueInv /\ FilesInv /\ [Next]_vars => FilesInv'
  <1> SUFFICES ASSUME QueueInv, FilesInv, Step \/ UNCHANGED others, NEW u \in Transfer
               PROVE  FileInv(u)' /\ (restarts' = 0 => TidyInv(u)')
    BY NextIsStep DEF FilesInv
  <1>1. CASE UNCHANGED others
    BY <1>1 DEF FilesInv, FileInv, TidyInv, Dest, others
  <1>2. CASE Restart
    <2>1. pc'[u] \in {"idle", "done"} /\ restarts' # 0
      BY <1>2 DEF Restart, QueueInv, TypeOK
    <2> QED
      BY <2>1 DEF FileInv
  <1>3. ASSUME NEW t \in Transfer,
               \/ Progress(t) \/ Break(t) \/ Cancel(t) \/ Pause(t) \/ Resume(t)
               \/ \E d \in Direction, n \in Name, policy \in Policy : Enqueue(t, d, n, policy)
        PROVE  FileInv(u)' /\ (restarts' = 0 => TidyInv(u)')
    <2>1. CASE u = t
      BY <1>3, <2>1, FilesOwn
    <2>2. CASE u # t
      BY <1>3, <2>2, StepsApart, FilesApart
    <2> QED
      BY <2>1, <2>2
  <1> QED
    BY <1>1, <1>2, <1>3 DEF Step

\* Only the two that write a target change it, and what they meet there is what
\* FileInv says.
LEMMA FilesReplaced ==
    ASSUME QueueInv, FilesInv, [Next]_vars, NEW t \in Transfer, NEW key \in Target,
           disk[key] = UserFile, disk'[key] \in {Partial(t), Whole(t)}
    PROVE  work[t].policy = "overwrite" \/ work[t].unseen
  <1>1. UserFile # Partial(t) /\ UserFile # Whole(t)
    BY DEF UserFile, Partial, Whole
  <1>2. PICK u \in Transfer : OpenScp(u) \/ Rename(u) \/ Send(u)
    <2>1. disk' # disk
      BY <1>1
    <2>2. Step
      BY <2>1, NextIsStep DEF others
    <2>3. ASSUME NEW u \in Transfer, Progress(u) PROVE OpenScp(u) \/ Rename(u) \/ Send(u)
      BY <2>1, <2>3, ZenonT(40)
         DEF Progress, Store, AcquireSlot, CancelWaiting, Start, Connect, Open, Move, NoticeCancel,
             Fail, Resolve, Reserve, Copy, End, Stop
    <2>4. ASSUME NEW u \in Transfer, Break(u) \/ Cancel(u) \/ Pause(u) \/ Resume(u) PROVE FALSE
      BY <2>1, <2>4 DEF Break, Fail, Cancel, Pause, Resume
    <2>5. ASSUME NEW u \in Transfer, NEW d, NEW n, NEW policy, Enqueue(u, d, n, policy) PROVE FALSE
      BY <2>1, <2>5 DEF Enqueue
    <2> QED
      BY <2>1, <2>2, <2>3, <2>4, <2>5 DEF Step, Restart
  <1>3. disk' \in {[disk EXCEPT ![Dest(u)] = Partial(u)], [disk EXCEPT ![Dest(u)] = Whole(u)]}
    BY <1>1, <1>2 DEF OpenScp, Fail, Rename, Send
  <1>4. key = Dest(u) /\ disk'[key] \in {Partial(u), Whole(u)}
    BY <1>1, <1>3 DEF QueueInv, TypeOK
  <1>5. u = t
    BY <1>4 DEF Partial, Whole
  <1> QED
    BY <1>1, <1>2, <1>3, <1>4, <1>5 DEF FilesInv, FileInv, OpenScp, Fail, Rename, Send

LEMMA InitInv == Init => QueueInv
BY InitTyped DEF Init, QueueInv, TaskInv, TargetsApart, Reserved, Writing

\* QueueInv is inductive.
THEOREM QueueInvHolds == Spec => []QueueInv
<1>1. QueueInv /\ [Next]_vars => QueueInv'
  BY StepTyped, StepKeepsTasks, StepKeepsTargetsApart DEF QueueInv
<1> QED
  BY InitInv, <1>1, PTL DEF Spec

\* The queue's state keeps its shape.
THEOREM QueueTypeCorrect == Spec => []TypeOK
BY QueueInvHolds, PTL DEF QueueInv

\* sftp.rs:1983: two transfers never write the same target at the same time:
\* whoever writes has that target reserved.
THEOREM OneWriterPerTargetHolds == Spec => []OneWriterPerTarget
<1>1. QueueInv => OneWriterPerTarget
  <2> SUFFICES ASSUME QueueInv, NEW t \in Transfer, NEW u \in Transfer, t # u,
                      pc[t] \in Writing, pc[u] \in Writing
               PROVE  Dest(t) # Dest(u)
    BY DEF OneWriterPerTarget
  <2>1. target[t] = Dest(t) /\ target[u] = Dest(u)
    BY DEF QueueInv, TaskInv, Reserved
  <2>2. Dest(t) # None
    BY NoneAssumption DEF QueueInv, TypeOK, TaskInv, Writing, Work, Dest, Target
  <2> QED
    BY <2>1, <2>2 DEF QueueInv, TargetsApart
<1> QED
  BY <1>1, QueueInvHolds, PTL

\* sftp.rs:2860: a cancelled transfer is never brought back.
THEOREM CancelIsFinalHolds == Spec => CancelIsFinal
<1>1. QueueInv /\ [Next]_vars =>
        [\A t \in Transfer : token[t] = 2 => token'[t] \in {2, None}]_vars
  BY StepKeepsCancelled
<1> QED
  BY <1>1, QueueInvHolds, PTL DEF Spec, CancelIsFinal

\* QueueInv and FilesInv together, in every reachable state.
LEMMA FilesInvHolds == Spec => [](QueueInv /\ FilesInv)
<1>1. Init => QueueInv /\ FilesInv
  BY InitInv DEF Init, FilesInv, FileInv, TidyInv
<1>2. QueueInv /\ FilesInv /\ [Next]_vars => QueueInv' /\ FilesInv'
  BY StepTyped, StepKeepsTasks, StepKeepsTargetsApart, FilesStep DEF QueueInv
<1> QED
  BY <1>1, <1>2, PTL DEF Spec

\* sftp.rs: no interleaving of transfers replaces a file of the user, only a
\* policy that says so or a lookup that failed.
THEOREM UserFilesSurviveHolds == Spec => UserFilesSurvive
<1>1. QueueInv /\ FilesInv /\ [Next]_vars =>
        [\A t \in Transfer, key \in Target :
           disk[key] = UserFile /\ disk'[key] \in {Partial(t), Whole(t)}
             => work[t].policy = "overwrite" \/ work[t].unseen]_vars
  BY FilesReplaced
<1> QED
  BY <1>1, FilesInvHolds, PTL DEF Spec, UserFilesSurvive

\* A transfer that has ended leaves a temporary file only where the network broke
\* under an upload, and the window knows how it ended.
THEOREM LeavesNothingBehindHolds == Spec => []LeavesNothingBehind
<1>1. FilesInv => LeavesNothingBehind
  BY DEF FilesInv, TidyInv, LeavesNothingBehind
<1> QED
  BY <1>1, FilesInvHolds, PTL
=============================================================================
