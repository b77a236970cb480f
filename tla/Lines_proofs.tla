---------------------------- MODULE Lines_proofs ----------------------------
(***************************************************************************)
(* Proofs about what is neither an SSH terminal nor a transfer of files:   *)
(* SerialSession (for any number of transfers and delays, the reader, the  *)
(* transfers and the flags they leave each other share the line as         *)
(* LineHasOneUser says), PluginTrust (for any number of commands and       *)
(* versions, RunsWhatWasSigned), ZmodemSession (for any number of          *)
(* requests, files and pieces of the wire, ZmodemAsksFirst),               *)
(* RelayMembership (for any number of devices, commands and hours,         *)
(* MemberAgreesWithRelay) and ChildSession (what a session's record may    *)
(* be, whatever the order of its steps).                                   *)
(***************************************************************************)
EXTENDS SerialSession, ChildSession, PluginTrust, ZmodemSession, RelayMembership, FiniteSetTheorems, TLAPS

(***************************************************************************)
(* LineHasOneUser with what keeps it.  A transfer that saw reader_paused   *)
(* may have seen an old pause, so the reader need not be paused while it   *)
(* works; but a reader on its way from that pause passes the top of its    *)
(* loop, where transfer_active stops it.  It could only read, or reopen    *)
(* the port, if it were beyond the top already.                            *)
(***************************************************************************)
SerialInv ==
    /\ SerialTypeOK
    /\ line.active <=> \E t \in Transfer : Holds(t)
    /\ \A t, u \in Transfer : Holds(t) /\ Holds(u) => t = u
    /\ line.paused <=> lineReader.at \in {"paused", "resuming"}
    /\ \A t \in Transfer : Moves(t) => lineReader.at \notin {"reading", "delay"}

\* A transfer's step is about that transfer alone.
LEMMA OneTransferChanges ==
  ASSUME SerialTypeOK, NEW t \in Transfer, NEW x \in TransferState, TransferIs(t, x)
  PROVE  /\ xfer' \in [Transfer -> TransferState]
         /\ xfer'[t] = x
         /\ \A u \in Transfer : u # t => xfer'[u] = xfer[u]
BY DEF SerialTypeOK, TransferIs

\* After a failure: the next attempt, or the end.
LEMMA NextDelayKeepsFlags ==
  ASSUME SerialTypeOK, NEW n \in 0..MaxReconnects, NextDelay(n)
  PROVE  /\ lineReader' \in ReaderState /\ lineReader'.at \in {"delay", "ending"}
         /\ line' \in LineState /\ line'.active = line.active /\ line'.paused = line.paused
<1> DEFINE p == line.port /\ n > 0
<1>1. p \in BOOLEAN /\ line \in LineState /\ lineReader \in ReaderState
  BY DEF SerialTypeOK
<1>2. \/ /\ n < MaxReconnects
         /\ lineReader' = [lineReader EXCEPT !.at = "delay", !.attempt = n + 1]
         /\ line' = [line EXCEPT !.port = p, !.shown = "reconnecting"]
      \/ /\ lineReader' = [lineReader EXCEPT !.at = "ending"] /\ line' = [line EXCEPT !.port = p]
  BY Zenon DEF NextDelay, DelaysLeft, ReaderAt
<1> HIDE DEF p
<1>3. /\ line' \in LineState /\ line'.active = line.active /\ line'.paused = line.paused
  <2>1. \A shown \in {"online", "reconnecting", "closed", "failed"} :
          LET l == [line EXCEPT !.port = p, !.shown = shown] IN
          l \in LineState /\ l.active = line.active /\ l.paused = line.paused
    BY <1>1 DEF LineState
  <2>2. [line EXCEPT !.port = p] = [line EXCEPT !.port = p, !.shown = line.shown]
    BY <1>1 DEF LineState
  <2>3. line.shown \in {"online", "reconnecting", "closed", "failed"}
    BY <1>1 DEF LineState
  <2> QED
    BY <1>2, <2>1, <2>2, <2>3
<1>4. lineReader' \in ReaderState /\ lineReader'.at \in {"delay", "ending"}
  <2>1. CASE n < MaxReconnects /\ lineReader' = [lineReader EXCEPT !.at = "delay", !.attempt = n + 1]
    <3>1. n + 1 \in 0..MaxReconnects
      BY <2>1, ReconnectsAssumption
    <3> QED
      BY <1>1, <2>1, <3>1 DEF ReaderState
  <2>2. CASE lineReader' = [lineReader EXCEPT !.at = "ending"]
    BY <1>1, <2>2 DEF ReaderState
  <2> QED
    BY <1>2, <2>1, <2>2
<1> QED
  BY <1>3, <1>4

\* Whatever the steps of the reader, the closer and the device do, the
\* transfers keep their places and the line its flags of them.
LEMMA ReaderStepKeeps ==
  ASSUME SerialInv,
         \/ Turn \/ Pause \/ LeavePause \/ Unpause \/ ReadReturns \/ ReadFails
         \/ ReconnectCancelled \/ Reopen \/ ReopenFails \/ ReaderReports
  PROVE  SerialInv'
<1> USE ReconnectsAssumption DEF SerialInv, SerialTypeOK, LineState, ReaderState, Holds, Moves,
        Line, ReaderAt
<1>1. CASE Turn
  BY <1>1 DEF Turn
<1>2. CASE Pause
  BY <1>2 DEF Pause
<1>3. CASE LeavePause
  BY <1>3 DEF LeavePause
<1>4. CASE Unpause
  BY <1>4 DEF Unpause, AfterPause
<1>5. CASE ReadReturns
  BY <1>5 DEF ReadReturns
<1>6. CASE ReadFails
  <2>1. /\ lineReader' \in ReaderState /\ lineReader'.at \in {"delay", "ending"}
        /\ line' \in LineState /\ line'.active = line.active /\ line'.paused = line.paused
        /\ lineCloser' = lineCloser /\ xfer' = xfer
    BY <1>6, NextDelayKeepsFlags DEF ReadFails
  <2>2. \A t \in Transfer : ~Moves(t)
    BY <1>6 DEF ReadFails
  <2> QED
    BY <1>6, <2>1, <2>2 DEF ReadFails
<1>7. CASE ReconnectCancelled
  BY <1>7 DEF ReconnectCancelled
<1>8. CASE Reopen
  <2>1. line' \in LineState /\ line'.active = line.active /\ line'.paused = line.paused
    BY <1>8 DEF Reopen
  <2>2. lineReader' = [at |-> "top", live |-> TRUE, attempt |-> 0]
    BY <1>8 DEF Reopen
  <2>3. lineReader' \in ReaderState /\ lineReader'.at = "top"
    BY <2>2
  <2> QED
    BY <1>8, <2>1, <2>3 DEF Reopen
<1>9. CASE ReopenFails
  <2>1. /\ lineReader' \in ReaderState /\ lineReader'.at \in {"delay", "ending"}
        /\ line' \in LineState /\ line'.active = line.active /\ line'.paused = line.paused
        /\ lineCloser' = lineCloser /\ xfer' = xfer
    BY <1>9, NextDelayKeepsFlags DEF ReopenFails
  <2>2. \A t \in Transfer : ~Moves(t)
    BY <1>9 DEF ReopenFails
  <2> QED
    BY <1>9, <2>1, <2>2 DEF ReopenFails
<1>10. CASE ReaderReports
  BY <1>10 DEF ReaderReports
<1> QED
  BY <1>1, <1>2, <1>3, <1>4, <1>5, <1>6, <1>7, <1>8, <1>9, <1>10

LEMMA OutsideStepKeeps ==
  ASSUME SerialInv,
         Unplug \/ Replug \/ CloseRemove \/ MarkClosing \/ CloseCancels \/ CloseTakes
  PROVE  SerialInv'
<1> USE DEF SerialInv, SerialTypeOK, LineState, ReaderState, TransferState, Holds, Moves, Line
<1>1. CASE Unplug
  <2>1. /\ lineReader' \in ReaderState /\ lineReader'.at = lineReader.at
        /\ line' \in LineState /\ line'.active = line.active /\ line'.paused = line.paused
        /\ lineCloser' = lineCloser
    BY <1>1 DEF Unplug
  <2>2. xfer' = [t \in Transfer |-> [xfer[t] EXCEPT !.live = FALSE]]
    BY <1>1 DEF Unplug
  <2>3. \A t \in Transfer : LET x == [xfer[t] EXCEPT !.live = FALSE] IN
                              x \in TransferState /\ x.at = xfer[t].at
    <3> TAKE t \in Transfer
    <3>1. xfer[t] \in TransferState
      OBVIOUS
    <3> QED
      BY <3>1
  <2>4. /\ xfer' \in [Transfer -> TransferState]
        /\ \A t \in Transfer : xfer'[t].at = xfer[t].at
    BY Zenon, <2>2, <2>3
  <2> QED
    BY <2>1, <2>4
<1>2. CASE Replug
  BY <1>2 DEF Replug
<1>3. CASE CloseRemove
  BY <1>3 DEF CloseRemove
<1>4. CASE MarkClosing
  BY <1>4 DEF MarkClosing
<1>5. CASE CloseCancels
  <2>1. lineReader' = lineReader /\ line' = line /\ lineCloser' = "cancelled"
    BY <1>5 DEF CloseCancels
  <2> DEFINE c(t) == xfer[t].cancelled \/ xfer[t].mapped
  <2>2. xfer' = [t \in Transfer |-> [xfer[t] EXCEPT !.cancelled = c(t)]]
    BY <1>5 DEF CloseCancels
  <2>3. \A t \in Transfer : c(t) \in BOOLEAN
    OBVIOUS
  <2> HIDE DEF c
  <2>4. \A t \in Transfer, b \in BOOLEAN : LET x == [xfer[t] EXCEPT !.cancelled = b] IN
                              x \in TransferState /\ x.at = xfer[t].at
    OBVIOUS
  <2>5. /\ xfer' \in [Transfer -> TransferState]
        /\ \A t \in Transfer : xfer'[t].at = xfer[t].at
    <3>1. ASSUME NEW t \in Transfer
          PROVE  /\ [xfer[t] EXCEPT !.cancelled = c(t)] \in TransferState
                 /\ [xfer[t] EXCEPT !.cancelled = c(t)].at = xfer[t].at
      <4>1. PICK b \in BOOLEAN : b = c(t)
        BY <2>3
      <4>2. /\ [xfer[t] EXCEPT !.cancelled = b] \in TransferState
            /\ [xfer[t] EXCEPT !.cancelled = b].at = xfer[t].at
        BY <2>4
      <4> QED
        BY <4>1, <4>2
    <3> QED
      BY Zenon, <2>2, <3>1
  <2> QED
    BY <2>1, <2>5
<1>6. CASE CloseTakes
  BY <1>6 DEF CloseTakes
<1> QED
  BY <1>1, <1>2, <1>3, <1>4, <1>5, <1>6

\* A step of a transfer that neither takes nor gives back the line, and moves
\* blocks after it only if it did before or saw the reader paused.
LEMMA QuietStepKeeps ==
  ASSUME SerialInv, NEW t \in Transfer, NEW x \in TransferState, OnlyTransfer(t, x),
         Holds(t) <=> x.at \in {"claimed", "ready", "cloned", "running", "flushing", "joining",
                                "finished"},
         x.at \in {"ready", "cloned", "running", "flushing", "joining"}
           => Moves(t) \/ line.paused
  PROVE  SerialInv'
<1>1. /\ xfer' \in [Transfer -> TransferState]
      /\ xfer'[t] = x
      /\ \A u \in Transfer : u # t => xfer'[u] = xfer[u]
  BY OneTransferChanges DEF SerialInv, OnlyTransfer
<1>2. /\ SerialTypeOK' /\ line' = line /\ lineReader' = lineReader
  BY <1>1 DEF SerialInv, SerialTypeOK, OnlyTransfer
<1>3. \A u \in Transfer : Holds(u)' <=> Holds(u)
  BY <1>1 DEF Holds
<1>4. \A u \in Transfer : Moves(u)' => Moves(u) \/ line.paused
  BY <1>1 DEF Moves
<1> QED
  BY <1>2, <1>3, <1>4 DEF SerialInv

\* Giving the line back: the holder was the only one.
LEMMA ReleaseKeeps ==
  ASSUME SerialInv, NEW t \in Transfer, NEW x \in TransferState, Holds(t), x.at = "done",
         Line("active", FALSE), TransferIs(t, x), UNCHANGED <<lineReader, lineCloser>>
  PROVE  SerialInv'
<1>1. /\ xfer' \in [Transfer -> TransferState]
      /\ xfer'[t] = x
      /\ \A u \in Transfer : u # t => xfer'[u] = xfer[u]
  BY OneTransferChanges DEF SerialInv
<1>2. /\ line' \in LineState /\ line'.active = FALSE /\ line'.paused = line.paused
      /\ lineReader' = lineReader /\ lineCloser' = lineCloser
  BY DEF SerialInv, SerialTypeOK, LineState, Line
<1>3. \A u \in Transfer : ~Holds(u)'
  BY <1>1 DEF SerialInv, Holds
<1>4. \A u \in Transfer : ~Moves(u)'
  BY <1>3 DEF Holds, Moves
<1> QED
  BY <1>1, <1>2, <1>3, <1>4 DEF SerialInv, SerialTypeOK

\* Taking it: transfer_active was clear, so there was no holder.
LEMMA ClaimKeeps == ASSUME SerialInv, NEW t \in Transfer, Claim(t) PROVE SerialInv'
<1> DEFINE x == [xfer[t] EXCEPT !.at = "claimed"]
<1>0. x \in TransferState /\ x.at = "claimed"
  BY DEF SerialInv, SerialTypeOK, TransferState
<1> HIDE DEF x
<1>1. /\ xfer' \in [Transfer -> TransferState]
      /\ xfer'[t] = x
      /\ \A u \in Transfer : u # t => xfer'[u] = xfer[u]
  BY <1>0, OneTransferChanges DEF SerialInv, Claim, x
<1>2. /\ line' \in LineState /\ line'.active = TRUE /\ line'.paused = line.paused
      /\ lineReader' = lineReader /\ lineCloser' = lineCloser
  BY DEF SerialInv, SerialTypeOK, LineState, Line, Claim
<1>3. \A u \in Transfer : Holds(u)' <=> u = t
  BY <1>0, <1>1 DEF SerialInv, Holds, Claim
<1>4. \A u \in Transfer : ~Moves(u)'
  BY <1>0, <1>1, <1>3 DEF Holds, Moves
<1> QED
  BY <1>1, <1>2, <1>3, <1>4 DEF SerialInv, SerialTypeOK

LEMMA TransferStepKeeps ==
  ASSUME SerialInv, NEW t \in Transfer,
         \/ Find(t) \/ Claim(t) \/ ClaimFails(t) \/ SeePaused(t) \/ PauseTimesOut(t)
         \/ ClonePort(t) \/ CloneFails(t) \/ EnterMap(t) \/ SpawnFails(t)
         \/ ModemBlock(t) \/ ModemFlush(t) \/ ModemEnds(t)
         \/ HelperExits(t) \/ KillHelper(t) \/ NoticeExit(t)
         \/ InputBlocks(t) \/ InputMoves(t) \/ InputEnds(t)
         \/ OutputBlocks(t) \/ OutputMoves(t) \/ OutputEnds(t) \/ Join(t)
         \/ GiveBack(t) \/ LeaveMap(t) \/ CancelTransfer(t)
  PROVE  SerialInv'
<1>0. xfer[t] \in TransferState /\ line \in LineState
  BY DEF SerialInv, SerialTypeOK
<1> USE <1>0 DEF Holds, Moves
<1>1. CASE Find(t)
  BY <1>1, QuietStepKeeps DEF Find, TransferState
<1>2. CASE Claim(t)
  BY <1>2, ClaimKeeps
<1>3. CASE ClaimFails(t)
  BY <1>3, QuietStepKeeps DEF ClaimFails, Refused, TransferState, Outcomes
<1>4. CASE SeePaused(t)
  BY <1>4, QuietStepKeeps DEF SeePaused, TransferState
<1>5. CASE PauseTimesOut(t)
  BY <1>5, ReleaseKeeps DEF PauseTimesOut, Refused, TransferState, Outcomes
<1>6. CASE ClonePort(t)
  BY <1>6, QuietStepKeeps DEF ClonePort, TransferState, LineState
<1>7. CASE CloneFails(t)
  BY <1>7, ReleaseKeeps DEF CloneFails, Refused, TransferState, Outcomes
<1>8. CASE EnterMap(t)
  BY <1>8, QuietStepKeeps DEF EnterMap, TransferState
<1>9. CASE SpawnFails(t)
  BY <1>9, ReleaseKeeps DEF SpawnFails, Refused, TransferState, Outcomes
<1>10. CASE ModemBlock(t)
  BY <1>10, QuietStepKeeps DEF ModemBlock, TransferState
<1>11. CASE ModemFlush(t)
  BY <1>11, QuietStepKeeps DEF ModemFlush, Over, TransferState, Outcomes
<1>12. CASE ModemEnds(t)
  <2> PICK s \in {"completed", "failed"} : OnlyTransfer(t, Over(t, s))
    BY <1>12 DEF ModemEnds
  <2> QED
    BY <1>12, QuietStepKeeps DEF ModemEnds, Over, TransferState, Outcomes
<1>13. CASE HelperExits(t)
  BY <1>13, QuietStepKeeps DEF HelperExits, TransferState
<1>14. CASE KillHelper(t)
  BY <1>14, QuietStepKeeps DEF KillHelper, TransferState
<1>15. CASE NoticeExit(t)
  BY <1>15, QuietStepKeeps DEF NoticeExit, TransferState
<1>16. CASE InputBlocks(t)
  BY <1>16, QuietStepKeeps DEF InputBlocks, TransferState
<1>17. CASE InputMoves(t)
  BY <1>17, QuietStepKeeps DEF InputMoves, TransferState
<1>18. CASE InputEnds(t)
  <2> DEFINE b == xfer[t].broken \/ (xfer[t].to = "moving" /\ ~xfer[t].live)
             x == [xfer[t] EXCEPT !.to = "off", !.broken = b]
  <2>1. OnlyTransfer(t, x)
    BY <1>18 DEF InputEnds, TransferState
  <2>2. x \in TransferState /\ x.at = xfer[t].at
    <3>1. b \in BOOLEAN
      OBVIOUS
    <3> HIDE DEF b
    <3> QED
      BY <3>1 DEF TransferState
  <2> QED
    BY <2>1, <2>2, QuietStepKeeps
<1>19. CASE OutputEnds(t)
  <2> DEFINE b == xfer[t].broken \/ ~xfer[t].live
             x == [xfer[t] EXCEPT !.from = "off", !.broken = b]
  <2>1. OnlyTransfer(t, x)
    BY <1>19 DEF OutputEnds, TransferState
  <2>2. x \in TransferState /\ x.at = xfer[t].at
    <3>1. b \in BOOLEAN
      OBVIOUS
    <3> HIDE DEF b
    <3> QED
      BY <3>1 DEF TransferState
  <2> QED
    BY <2>1, <2>2, QuietStepKeeps
<1>20. CASE Join(t)
  <2> PICK s \in {"completed", "failed"} : OnlyTransfer(t, Over(t, s))
    BY <1>20 DEF Join
  <2> QED
    BY <1>20, QuietStepKeeps DEF Join, Over, TransferState, Outcomes
<1>21. CASE GiveBack(t)
  BY <1>21, ReleaseKeeps DEF GiveBack, TransferState
<1>22. CASE LeaveMap(t)
  BY <1>22, QuietStepKeeps DEF LeaveMap, TransferState
<1>23. CASE CancelTransfer(t)
  <2> DEFINE x == [xfer[t] EXCEPT !.cancelled = TRUE, !.status = "cancelled"]
  <2>1. x \in TransferState /\ x.at = xfer[t].at
    BY DEF TransferState, Outcomes
  <2>2. OnlyTransfer(t, x)
    BY <1>23 DEF CancelTransfer
  <2> QED
    BY <2>1, <2>2, QuietStepKeeps
<1>24. CASE OutputBlocks(t)
  BY <1>24, QuietStepKeeps DEF OutputBlocks, TransferState
<1>25. CASE OutputMoves(t)
  BY <1>25, QuietStepKeeps DEF OutputMoves, TransferState
<1> QED
  BY <1>1, <1>2, <1>3, <1>4, <1>5, <1>6, <1>7, <1>8, <1>9, <1>10, <1>11, <1>12, <1>13, <1>14,
     <1>15, <1>16, <1>17, <1>18, <1>19, <1>20, <1>21, <1>22, <1>23, <1>24, <1>25

\* The line has a user exactly while `active` is set, and its reader rests meanwhile.
THEOREM SerialInvHolds == SerialSpec => []SerialInv
<1>1. SerialInit => SerialInv
  BY ReconnectsAssumption
     DEF SerialInit, SerialInv, SerialTypeOK, LineState, ReaderState, TransferState, NewTransfer,
         Holds, Moves
<1>2. SerialInv /\ [SerialNext]_serialVars => SerialInv'
  <2>1. CASE UNCHANGED serialVars
    BY <2>1 DEF serialVars, SerialInv, SerialTypeOK, Holds, Moves
  <2> QED
    BY <2>1, ReaderStepKeeps, OutsideStepKeeps, TransferStepKeeps DEF SerialNext
<1> QED
  BY <1>1, <1>2, PTL DEF SerialSpec

\* serial.rs:206-303 and 712-724: while a transfer moves its blocks the reader
\* does not read, and transfer_active is set exactly while one transfer has it.
THEOREM LineHasOneUserHolds == SerialSpec => []LineHasOneUser
<1>1. SerialInv => LineHasOneUser
  BY DEF SerialInv, LineHasOneUser
<1> QED
  BY <1>1, SerialInvHolds, PTL

-----------------------------------------------------------------------------
(***************************************************************************)
(* PluginTrust.  A command carries what it has read from step to step, so  *)
(* the invariant says of each place what is known there: which record a    *)
(* registration or a command writes back, and that from the signature on   *)
(* the manifest and the module that were read belong together.             *)
(***************************************************************************)
Entry(r) == r \in Record /\ (r.enabled => r.executable)

Running == {"fetch", "directory", "execute", "ask"}

RegisterInv(x) ==
    /\ x.at \in {"report", "module", "key", "digest"} => x.record \in Version
    /\ x.at \in {"report", "module", "key", "digest", "record"} => x.module \in Version
    /\ x.at \in {"module", "key", "digest", "record"} => x.report \in Version
    /\ x.at = "record" => x.digest \in Version

EntryInv(x) ==
    /\ x.at \in {"report", "module", "key", "digest", "invalidate", "enable", "run"} \union Running
         => x.op \in {"enable", "run"} /\ Entry(x.record)
    /\ x.at = "digest" => x.report = x.module
    /\ x.at \in {"enable", "run"} \union Running =>
          /\ x.report = x.module
          /\ x.report = x.record.report /\ x.module = x.record.module
    /\ x.at \in Running => x.bytes = x.module
    /\ x.at # "record"

CallInv(x) ==
    /\ x \in CallState
    /\ IF x.op = "register" THEN RegisterInv(x) /\ x.at \notin {"enable", "run"} \union Running
       ELSE EntryInv(x)
    /\ x.at = "save" /\ x.op \notin {"import", "revoke", "remove"} => Entry(x.record)
    /\ x.at = "save" /\ x.op = "revoke" => x.record = None \/ Entry(x.record)

RequestsOK == asked \subseteq (1..MaxAsked) \X Version

PluginInv ==
    /\ files \in [manifest : Version, module : Version]
    /\ plugin # None => Entry(plugin)
    /\ RequestsOK
    /\ call \in [Call -> CallState]
    /\ \A c \in Call : CallInv(call[c])

LEMMA ReadyKept == CallInv(Ready)
BY DEF CallInv, Ready, CallState, EntryInv, Running

\* A step of one command keeps the invariant if that command and the registry do.
LEMMA CallStepKeeps ==
  ASSUME PluginInv, NEW c \in Call, NEW x, CallInv(x), call' = [call EXCEPT ![c] = x],
         files' = files, RequestsOK', plugin' # None => Entry(plugin')
  PROVE  PluginInv'
<1>1. x \in CallState
  BY DEF CallInv
<1>2. call' \in [Call -> CallState] /\ \A d \in Call : call'[d] = IF d = c THEN x ELSE call[d]
  BY <1>1 DEF PluginInv
<1> QED
  BY <1>2 DEF PluginInv

LEMMA ReturnKeeps ==
  ASSUME PluginInv, NEW c \in Call, Returns(c), files' = files, RequestsOK',
         plugin' # None => Entry(plugin')
  PROVE  PluginInv'
BY ReadyKept, CallStepKeeps DEF Returns

\* A command that has only moved on, or noted what it read.
LEMMA TwoFields ==
  ASSUME NEW f \in [Call -> CallState], NEW c \in Call, NEW at, NEW value
  PROVE  /\ [f EXCEPT ![c].at = at, ![c].record = value]
              = [f EXCEPT ![c] = [f[c] EXCEPT !.at = at, !.record = value]]
         /\ [f EXCEPT ![c].at = at, ![c].report = value]
              = [f EXCEPT ![c] = [f[c] EXCEPT !.at = at, !.report = value]]
         /\ [f EXCEPT ![c].at = at, ![c].module = value]
              = [f EXCEPT ![c] = [f[c] EXCEPT !.at = at, !.module = value]]
         /\ [f EXCEPT ![c].at = at, ![c].digest = value]
              = [f EXCEPT ![c] = [f[c] EXCEPT !.at = at, !.digest = value]]
         /\ [f EXCEPT ![c].at = at, ![c].bytes = value]
              = [f EXCEPT ![c] = [f[c] EXCEPT !.at = at, !.bytes = value]]
         /\ [f EXCEPT ![c].at = at, ![c].trusted = value]
              = [f EXCEPT ![c] = [f[c] EXCEPT !.at = at, !.trusted = value]]
BY DEF CallState

LEMMA ReachesStep ==
  ASSUME PluginInv, NEW c \in Call, NEW at, Reaches(c, at)
  PROVE  call' = [call EXCEPT ![c] = [call[c] EXCEPT !.at = at]]
BY DEF Reaches, PluginInv, CallInv, CallState

LEMMA InvalidIsEntry ==
  ASSUME NEW r \in Record, NEW status \in {"publisher-revoked", "invalidated"}
  PROVE  Entry(Invalid(r, status))
BY DEF Invalid, Entry, Record

\* A command that begins has read the registry, or the two files.
LEMMA BeginningKeeps ==
  ASSUME PluginInv, NEW c \in Call,
         \/ Import(c) \/ Revoke(c) \/ Disable(c) \/ Remove(c) \/ Enable(c) \/ Run(c) \/ Register(c)
  PROVE  PluginInv'
<1> DEFINE x(op, at, r) == [Ready EXCEPT !.op = op, !.at = at, !.record = r]
<1>1. ASSUME NEW op, NEW at, NEW r, Begins(c, op, at, r), CallInv(x(op, at, r))
      PROVE  PluginInv'
  <2>1. call' = [call EXCEPT ![c] = x(op, at, r)] /\ files' = files /\ plugin' = plugin
    BY <1>1 DEF Begins, Quiet, documents
  <2>2. RequestsOK' /\ (plugin' # None => Entry(plugin'))
    BY <1>1, <2>1 DEF PluginInv, RequestsOK, Begins, Quiet
  <2> HIDE DEF x
  <2> QED
    BY <1>1, <2>1, <2>2, CallStepKeeps
<1>2. CASE Import(c)
  <2>1. CallInv(x("import", "save", None))
    BY DEF CallInv, CallState, Ready, EntryInv, Running
  <2> QED
    BY <1>1, <1>2, <2>1 DEF Import
<1>3. CASE Revoke(c)
  <2>1. CallInv(x("revoke", "save", plugin))
    BY DEF PluginInv, CallInv, CallState, Ready, EntryInv, Running, Entry
  <2> QED
    BY <1>1, <1>3, <2>1 DEF Revoke
<1>4. CASE Disable(c)
  <2>1. CallInv(x("disable", "save", plugin))
    BY <1>4 DEF Disable, PluginInv, CallInv, CallState, Ready, EntryInv, Running, Entry
  <2> QED
    BY <1>1, <1>4, <2>1 DEF Disable
<1>5. CASE Remove(c)
  <2>1. CallInv(x("remove", "save", plugin))
    BY <1>5 DEF Remove, PluginInv, CallInv, CallState, Ready, EntryInv, Running, Entry
  <2> QED
    BY <1>1, <1>5, <2>1 DEF Remove
<1>6. CASE Enable(c)
  <2>1. CallInv(x("enable", "report", plugin))
    BY <1>6 DEF Enable, PluginInv, CallInv, CallState, Ready, EntryInv, Running, Entry
  <2> QED
    BY <1>1, <1>6, <2>1 DEF Enable
<1>7. CASE Run(c)
  <2>1. CallInv(x("run", "report", plugin))
    BY <1>7 DEF Run, PluginInv, CallInv, CallState, Ready, EntryInv, Running, Entry
  <2> QED
    BY <1>1, <1>7, <2>1 DEF Run
<1>8. CASE Register(c)
  <2> DEFINE y == [Ready EXCEPT !.op = "register", !.at = "report", !.record = files.manifest,
                                !.module = files.module]
  <2>1. call' = [call EXCEPT ![c] = y] /\ files' = files /\ plugin' = plugin
    BY <1>8 DEF Register, Quiet, documents, PluginInv, CallInv, CallState, Ready
  <2>2. CallInv(y)
    BY DEF PluginInv, CallInv, CallState, Ready, RegisterInv, Running
  <2>3. RequestsOK' /\ (plugin' # None => Entry(plugin'))
    BY <1>8, <2>1 DEF PluginInv, RequestsOK, Register, Quiet
  <2> HIDE DEF y
  <2> QED
    BY <2>1, <2>2, <2>3, CallStepKeeps
<1> QED
  BY <1>2, <1>3, <1>4, <1>5, <1>6, <1>7, <1>8

\* What is written back is a record of the registry, as it was once.
LEMMA SaveKeeps == ASSUME PluginInv, NEW c \in Call, SaveDocuments(c) PROVE PluginInv'
<1> DEFINE r == call[c].record
<1>1. CallInv(call[c]) /\ call[c].at = "save" /\ Returns(c) /\ files' = files /\ RequestsOK'
  BY DEF PluginInv, SaveDocuments, Quiet, RequestsOK
<1>2. plugin' # None => Entry(plugin')
  <2>1. CASE call[c].op = "import" \/ call[c].op = "remove"
    BY <2>1 DEF SaveDocuments, PluginInv
  <2>2. CASE call[c].op = "revoke"
    BY <1>1, <2>2, InvalidIsEntry DEF SaveDocuments, CallInv, Entry
  <2>3. CASE call[c].op = "disable"
    BY <1>1, <2>3 DEF SaveDocuments, CallInv, Entry, Record
  <2>4. CASE call[c].op \notin {"import", "remove", "revoke", "disable"}
    BY <1>1, <2>4 DEF SaveDocuments, CallInv
  <2> QED
    BY <2>1, <2>2, <2>3, <2>4
<1> QED
  BY <1>1, <1>2, ReturnKeeps

\* The steps of verify_package.
LEMMA VerifyKeeps ==
  ASSUME PluginInv, NEW c \in Call,
         ReadReport(c) \/ HashModule(c) \/ CheckSignature(c) \/ ReadDigest(c)
  PROVE  PluginInv'
<1>0. /\ CallInv(call[c]) /\ files' = files /\ plugin' = plugin
      /\ files.manifest \in Version /\ files.module \in Version
  BY DEF PluginInv, ReadReport, HashModule, CheckSignature, ReadDigest, Quiet, documents
<1>1. RequestsOK' /\ (plugin' # None => Entry(plugin'))
  BY <1>0 DEF PluginInv, RequestsOK, ReadReport, HashModule, CheckSignature, ReadDigest, Quiet
<1>2. ASSUME NEW x, CallInv(x), call' = [call EXCEPT ![c] = x]
      PROVE  PluginInv'
  BY <1>0, <1>1, <1>2, CallStepKeeps
<1>3. CASE ReadReport(c)
  <2> DEFINE x == [call[c] EXCEPT !.at = "module", !.report = files.manifest]
  <2>1. CallInv(x)
    <3>1. /\ x \in CallState /\ x.at = "module" /\ x.report = files.manifest
          /\ x.op = call[c].op /\ x.record = call[c].record /\ x.module = call[c].module
          /\ x.digest = call[c].digest /\ x.bytes = call[c].bytes
      BY <1>0 DEF CallInv, CallState
    <3> HIDE DEF x
    <3> QED
      BY <1>0, <1>3, <3>1 DEF ReadReport, CallInv, RegisterInv, EntryInv, Running
  <2>2. call' = [call EXCEPT ![c] = [call[c] EXCEPT !.at = "module", !.report = files.manifest]]
    BY <1>3, TwoFields DEF ReadReport, Notes, PluginInv
  <2> QED
    BY <1>2, <2>1, <2>2
<1>4. CASE HashModule(c)
  <2>1. CASE call[c].op = "register"
    <3>1. CallInv([call[c] EXCEPT !.at = "key", !.bytes = files.module])
      BY <1>0, <1>4, <2>1 DEF HashModule, CallInv, CallState, RegisterInv, EntryInv, Running
    <3>2. call' = [call EXCEPT ![c] = [call[c] EXCEPT !.at = "key", !.bytes = files.module]]
      BY <1>4, <2>1, TwoFields DEF HashModule, Notes, PluginInv
    <3> QED
      BY <1>2, <3>1, <3>2
  <2>2. CASE call[c].op # "register"
    <3> DEFINE x == [call[c] EXCEPT !.at = "key", !.module = files.module]
    <3>1. CallInv(x)
      <4>1. /\ x \in CallState /\ x.at = "key" /\ x.module = files.module
            /\ x.op = call[c].op /\ x.record = call[c].record /\ x.report = call[c].report
            /\ x.digest = call[c].digest /\ x.bytes = call[c].bytes
        BY <1>0 DEF CallInv, CallState
      <4> HIDE DEF x
      <4> QED
        BY <1>0, <1>4, <2>2, <4>1 DEF HashModule, CallInv, EntryInv, Running
    <3>2. call' = [call EXCEPT ![c] = [call[c] EXCEPT !.at = "key", !.module = files.module]]
      BY <1>4, <2>2, TwoFields DEF HashModule, Notes, PluginInv
    <3> QED
      BY <1>2, <3>1, <3>2
  <2> QED
    BY <2>1, <2>2
<1>5. CASE CheckSignature(c)
  <2>1. CASE Signed(c)
    <3> DEFINE x == [call[c] EXCEPT !.at = "digest", !.trusted = TRUE]
    <3>1. call' = [call EXCEPT ![c] = x]
      BY <1>5, <2>1, TwoFields DEF CheckSignature, PluginInv
    <3>2. CallInv(x)
      <4>1. /\ call[c].at = "key" /\ call[c] \in CallState
            /\ call[c].op # "register" => call[c].report = call[c].module
        BY <1>0, <1>5, <2>1 DEF CheckSignature, Signed, CallInv
      <4>2. /\ x \in CallState /\ x.at = "digest" /\ x.op = call[c].op /\ x.record = call[c].record
            /\ x.report = call[c].report /\ x.module = call[c].module
        BY <4>1 DEF CallState
      <4> HIDE DEF x
      <4> QED
        BY <1>0, <4>1, <4>2 DEF CallInv, RegisterInv, EntryInv, Running
    <3> QED
      BY <1>2, <3>1, <3>2
  <2>2. CASE ~Signed(c) /\ call[c].op = "register"
    <3> DEFINE x == [call[c] EXCEPT !.at = "digest", !.report = call[c].record]
    <3>1. call' = [call EXCEPT ![c] = x]
      BY <1>5, <2>2, TwoFields DEF CheckSignature, PluginInv
    <3>2. CallInv(x)
      BY <1>0, <1>5, <2>2 DEF CheckSignature, CallInv, CallState, RegisterInv, EntryInv, Running
    <3> QED
      BY <1>2, <3>1, <3>2
  <2>3. CASE ~Signed(c) /\ call[c].op # "register"
    <3>1. CallInv([call[c] EXCEPT !.at = "invalidate"])
      BY <1>0, <1>5, <2>3 DEF CheckSignature, CallInv, CallState, RegisterInv, EntryInv, Running
    <3> QED
      BY <1>2, <1>5, <2>3, <3>1, ReachesStep DEF CheckSignature
  <2> QED
    BY <2>1, <2>2, <2>3
<1>6. CASE ReadDigest(c)
  <2>1. CASE call[c].op = "register"
    <3>1. CallInv([call[c] EXCEPT !.at = "record", !.digest = files.manifest])
      BY <1>0, <1>6, <2>1 DEF ReadDigest, CallInv, CallState, RegisterInv, EntryInv, Running
    <3>2. call' = [call EXCEPT ![c] = [call[c] EXCEPT !.at = "record", !.digest = files.manifest]]
      BY <1>6, <2>1, TwoFields DEF ReadDigest, Notes, PluginInv
    <3> QED
      BY <1>2, <3>1, <3>2
  <2>2. CASE call[c].op # "register" /\ Matches(c, files.manifest)
    <3>1. CallInv([call[c] EXCEPT !.at = call[c].op])
      BY <1>0, <1>6, <2>2 DEF ReadDigest, Matches,
         CallInv, CallState, RegisterInv, EntryInv, Running
    <3> QED
      BY <1>2, <1>6, <2>2, <3>1, ReachesStep DEF ReadDigest
  <2>3. CASE call[c].op # "register" /\ ~Matches(c, files.manifest)
    <3>1. CallInv([call[c] EXCEPT !.at = "invalidate"])
      BY <1>0, <1>6, <2>3 DEF ReadDigest, CallInv, CallState, RegisterInv, EntryInv, Running
    <3> QED
      BY <1>2, <1>6, <2>3, <3>1, ReachesStep DEF ReadDigest
  <2> QED
    BY <2>1, <2>2, <2>3
<1> QED
  BY <1>3, <1>4, <1>5, <1>6

\* The registry, read again, and the record that is going to replace its own.
LEMMA LoadKeeps ==
  ASSUME PluginInv, NEW c \in Call, LoadRegistry(c) \/ LoadInvalid(c) \/ LoadEnabled(c)
  PROVE  PluginInv'
<1>0. CallInv(call[c]) /\ files' = files /\ plugin' = plugin
  BY DEF PluginInv, LoadRegistry, LoadInvalid, LoadEnabled, Quiet, documents
<1>1. RequestsOK' /\ (plugin' # None => Entry(plugin'))
  BY <1>0 DEF PluginInv, RequestsOK, LoadRegistry, LoadInvalid, LoadEnabled, Quiet
<1>2. ASSUME NEW r, Entry(r), call[c].op \in {"register", "enable", "run"},
             Notes(c, "save", "record", r)
      PROVE  PluginInv'
  <2> DEFINE x == [call[c] EXCEPT !.at = "save", !.record = r]
  <2>1. call' = [call EXCEPT ![c] = x]
    BY <1>2, TwoFields DEF Notes, PluginInv
  <2>2. CallInv(x)
    <3>1. /\ x.at = "save" /\ x.op = call[c].op /\ x.record = r /\ x \in CallState
      BY <1>0, <1>2 DEF CallInv, CallState, Entry
    <3> QED
      BY <1>2, <3>1 DEF CallInv, RegisterInv, EntryInv, Running
  <2> HIDE DEF x
  <2> QED
    BY <1>0, <1>1, <2>1, <2>2, CallStepKeeps
<1>3. CASE LoadRegistry(c)
  <2>1. call[c].op = "register" /\ Entry(NewRecord(c))
    BY <1>0, <1>3 DEF LoadRegistry, NewRecord, CallInv, CallState, RegisterInv, EntryInv, Entry, Record
  <2> QED
    BY <1>2, <1>3, <2>1 DEF LoadRegistry
<1>4. CASE LoadInvalid(c)
  <2>1. CASE plugin = None
    BY <1>0, <1>1, <1>4, <2>1, ReturnKeeps DEF LoadInvalid
  <2>2. CASE plugin # None
    <3>1. Entry(Invalid(plugin, "invalidated"))
      BY <2>2, InvalidIsEntry DEF PluginInv, Entry
    <3>2. call[c].op \in {"register", "enable", "run"}
      BY <1>0, <1>4 DEF LoadInvalid, CallInv, EntryInv
    <3> QED
      BY <1>2, <1>4, <2>2, <3>1, <3>2 DEF LoadInvalid
  <2> QED
    BY <2>1, <2>2
<1>5. CASE LoadEnabled(c)
  <2>1. CASE Returns(c)
    BY <1>0, <1>1, <2>1, ReturnKeeps
  <2>2. CASE ~Returns(c)
    <3>1. PICK granted \in {{}, {call[c].report}} :
            /\ plugin # None
            /\ Notes(c, "save", "record",
                     [plugin EXCEPT !.status = "verified", !.executable = TRUE,
                                    !.enabled = TRUE, !.granted = granted])
      BY <1>5, <2>2 DEF LoadEnabled
    <3>2. call[c].op = "enable" \/ call[c].op = "run"
      BY <1>0, <1>5 DEF LoadEnabled, CallInv, EntryInv
    <3>3. call[c].report \in Version
      BY <1>0, <1>5 DEF LoadEnabled, CallInv, EntryInv, Entry, Record
    <3>4. Entry([plugin EXCEPT !.status = "verified", !.executable = TRUE,
                               !.enabled = TRUE, !.granted = granted])
      BY <3>1, <3>3 DEF PluginInv, Entry, Record
    <3> QED
      BY <1>2, <3>1, <3>2, <3>4
  <2> QED
    BY <2>1, <2>2
<1> QED
  BY <1>3, <1>4, <1>5

\* The steps of a run, and the decision on what it asked for.
LEMMA RunKeeps ==
  ASSUME PluginInv, NEW c \in Call,
         \/ ReadModule(c) \/ FetchResource(c) \/ ReadDirectory(c) \/ Execute(c) \/ Ask(c)
         \/ Decide(c) \/ Validate(c) \/ Approved(c)
  PROVE  PluginInv'
<1>0. /\ call \in [Call -> CallState] /\ CallInv(call[c]) /\ files' = files /\ plugin' = plugin
      /\ files.module \in Version
  BY DEF PluginInv, ReadModule, FetchResource, ReadDirectory, GoesOn, Execute, Ask, Decide, Validate,
         Approved, Quiet, documents
<1>1. plugin' # None => Entry(plugin')
  BY <1>0 DEF PluginInv
<1>req. RequestsOK'
  <2>1. CASE UNCHANGED asked
    BY <2>1 DEF PluginInv, RequestsOK
  <2>2. CASE Ask(c)
    <3> DEFINE free == (1..MaxAsked) \ {a[1] : a \in asked}
               n == CHOOSE m \in free : TRUE
    <3>1. asked' = IF free = {} THEN asked ELSE asked \union {<<n, call[c].record.digest>>}
      BY <2>2 DEF Ask
    <3>2. call[c].record.digest \in Version
      BY <1>0, <2>2 DEF Ask, CallInv, RegisterInv, EntryInv, Running, Entry, Record
    <3>3. free # {} => n \in 1..MaxAsked
      OBVIOUS
    <3> HIDE DEF n, free
    <3> QED
      BY <3>1, <3>2, <3>3 DEF PluginInv, RequestsOK
  <2>3. CASE Decide(c)
    BY <2>3 DEF Decide, PluginInv, RequestsOK
  <2> QED
    BY <2>1, <2>2, <2>3 DEF ReadModule, FetchResource, ReadDirectory, GoesOn, Execute, Validate,
       Approved, Quiet
<1>2. ASSUME NEW x, CallInv(x), call' = [call EXCEPT ![c] = x]
      PROVE  PluginInv'
  BY <1>0, <1>1, <1>req, <1>2, CallStepKeeps
<1>3. ASSUME Returns(c) PROVE PluginInv'
  BY <1>0, <1>1, <1>req, <1>3, ReturnKeeps
<1>4. ASSUME NEW at \in {"directory", "execute", "ask"}, call[c].at \in Running, Reaches(c, at)
      PROVE  PluginInv'
  <2>1. CallInv([call[c] EXCEPT !.at = at])
    BY <1>0, <1>4 DEF CallInv, CallState, RegisterInv, EntryInv, Running
  <2> QED
    BY <1>2, <1>4, <2>1, ReachesStep
<1>5. CASE ReadModule(c)
  <2> DEFINE at == IF SameModule([call[c] EXCEPT !.bytes = files.module]) THEN "fetch" ELSE "invalidate"
             x == [call[c] EXCEPT !.at = at, !.bytes = files.module]
  <2>1. call' = [call EXCEPT ![c] = x]
    BY <1>0, <1>5 DEF ReadModule, CallState
  <2>2. /\ call[c].at = "run" /\ call[c].op # "register"
        /\ call[c].op \in {"enable", "run"} /\ Entry(call[c].record)
        /\ call[c].report = call[c].module /\ call[c].report = call[c].record.report
        /\ call[c].module = call[c].record.module
    BY <1>0, <1>5 DEF ReadModule, CallInv, EntryInv
  <2>3. /\ x \in CallState /\ x.op = call[c].op /\ x.record = call[c].record
        /\ x.report = call[c].report /\ x.module = call[c].module /\ x.bytes = files.module
        /\ x.at \in {"fetch", "invalidate"} /\ (x.at = "fetch" => x.bytes = x.module)
    <3>1. at \in {"fetch", "invalidate"} /\ call[c] \in CallState
      BY <1>0
    <3>2. at = "fetch" => files.module = call[c].module
      BY <3>1 DEF SameModule, CallState
    <3> HIDE DEF at
    <3> QED
      BY <1>0, <3>1, <3>2 DEF CallState
  <2>4. CallInv(x)
    <3> HIDE DEF x
    <3> QED
      BY <2>2, <2>3 DEF CallInv, EntryInv, Running
  <2> QED
    BY <1>2, <2>1, <2>4
<1>6. CASE FetchResource(c)
  BY <1>3, <1>4, <1>6 DEF FetchResource, GoesOn, Running
<1>7. CASE ReadDirectory(c)
  BY <1>3, <1>4, <1>7 DEF ReadDirectory, GoesOn, Running
<1>8. CASE Execute(c)
  BY <1>3, <1>4, <1>8 DEF Execute, Running
<1>9. CASE Ask(c)
  BY <1>3, <1>9 DEF Ask
<1>10. CASE Decide(c)
  <2>1. CASE UNCHANGED call
    BY <1>0, <1>1, <1>req, <2>1 DEF PluginInv
  <2>2. CASE \E a \in asked : call' = [call EXCEPT ![c].op = "approve", ![c].at = "validate",
                                                 ![c].digest = a[2]] 
    <3>1. PICK a \in asked : call' = [call EXCEPT ![c].op = "approve", ![c].at = "validate",
                                                  ![c].digest = a[2]]
      BY <2>2
    <3> DEFINE x == [call[c] EXCEPT !.op = "approve", !.at = "validate", !.digest = a[2]]
    <3>2. call' = [call EXCEPT ![c] = x]
      BY <1>0, <3>1 DEF CallState
    <3>4. a[2] \in Version
      BY DEF PluginInv, RequestsOK
    <3>3. CallInv(x)
      <4>1. x \in CallState /\ x.op = "approve" /\ x.at = "validate"
        <5>1. call[c] \in CallState
          BY <1>0
        <5> HIDE <1>0
        <5> QED
          BY <3>4, <5>1 DEF CallState
      <4> HIDE DEF x
      <4> QED
        BY <4>1 DEF CallInv, EntryInv, Running
    <3> HIDE DEF x
    <3> QED
      BY <1>2, <3>2, <3>3
  <2> QED
    BY <1>10, <2>1, <2>2 DEF Decide
<1>11. CASE Validate(c)
  <2>1. ASSUME Reaches(c, "approved") PROVE PluginInv'
    <3>1. CallInv([call[c] EXCEPT !.at = "approved"])
      BY <1>0, <1>11 DEF Validate, CallInv, CallState, RegisterInv, EntryInv, Running
    <3> QED
      BY <1>2, <2>1, <3>1, ReachesStep
  <2> QED
    BY <1>3, <1>11, <2>1 DEF Validate
<1>12. CASE Approved(c)
  BY <1>3, <1>12 DEF Approved
<1> QED
  BY <1>5, <1>6, <1>7, <1>8, <1>9, <1>10, <1>11, <1>12

\* Every call runs an entry of its caller, prepared from files that were verified.
THEOREM PluginInvHolds == PluginSpec => []PluginInv
<1>1. PluginInit => PluginInv
  BY ReadyKept DEF PluginInit, PluginInv, RequestsOK, CallInv
<1>2. PluginInv /\ [PluginNext]_pluginVars => PluginInv'
  <2> SUFFICES ASSUME PluginInv, [PluginNext]_pluginVars PROVE PluginInv'
    OBVIOUS
  <2>1. CASE UNCHANGED pluginVars
    BY <2>1 DEF pluginVars, PluginInv, RequestsOK
  <2>2. CASE RequestExpires \/ FileChanges
    BY <2>2 DEF RequestExpires, FileChanges, documents, PluginInv, RequestsOK
  <2>3. ASSUME NEW c \in Call, CallStep(c) PROVE PluginInv'
    BY <2>3, BeginningKeeps, SaveKeeps, VerifyKeeps, LoadKeeps, RunKeeps DEF CallStep
  <2> QED
    BY <2>1, <2>2, <2>3 DEF PluginNext
<1> QED
  BY <1>1, <1>2, PTL DEF PluginSpec

\* plugin.rs:1653-1684: what a run executes is what the signature covers and the
\* record has, for any number of commands, versions and changes of the files.
THEOREM RunsWhatWasSignedHolds == PluginSpec => []RunsWhatWasSigned
<1>1. PluginInv => RunsWhatWasSigned
  BY DEF PluginInv, CallInv, EntryInv, Running, RunsWhatWasSigned
<1> QED
  BY <1>1, PluginInvHolds, PTL

(***************************************************************************)
(* A request of a plugin takes a number that is free, so the numbers tell  *)
(* the requests apart and there are never more than numbers.               *)
(***************************************************************************)
AskedApart == \A a, b \in asked : a[1] = b[1] => a = b

\* Only a run that asks adds a request.
LEMMA AskedApartKept == RequestsOK /\ AskedApart /\ [PluginNext]_pluginVars => AskedApart'
<1> SUFFICES ASSUME RequestsOK, AskedApart, [PluginNext]_pluginVars PROVE AskedApart'
  OBVIOUS
<1>1. ASSUME asked' \subseteq asked PROVE AskedApart'
  BY <1>1 DEF AskedApart
<1>2. ASSUME NEW c \in Call, Ask(c) PROVE AskedApart'
  <2> DEFINE free == (1..MaxAsked) \ {a[1] : a \in asked}
             n == CHOOSE n \in free : TRUE
             added == <<n, call[c].record.digest>>
  <2>1. CASE free = {}
    BY <1>1, <1>2, <2>1 DEF Ask
  <2>2. CASE free # {}
    <3>1. asked' = asked \union {added}
      BY <1>2, <2>2 DEF Ask
    <3>2. \A a \in asked : a[1] # n
      BY <2>2
    <3>3. added[1] = n
      OBVIOUS
    <3> HIDE DEF n, added
    <3> QED  BY <3>1, <3>2, <3>3 DEF AskedApart
  <2> QED  BY <2>1, <2>2
<1>3. ASSUME NEW c \in Call, CallStep(c), ~Ask(c) PROVE asked' \subseteq asked
  <2>1. CASE Import(c) \/ Revoke(c) \/ Disable(c) \/ Remove(c) \/ Enable(c) \/ Run(c) \/ Register(c)
             \/ SaveDocuments(c)
    BY <2>1 DEF Import, Revoke, Disable, Remove, Enable, Run, Register, Begins, SaveDocuments, Quiet
  <2>2. CASE ReadReport(c) \/ HashModule(c) \/ CheckSignature(c) \/ ReadDigest(c)
             \/ LoadRegistry(c) \/ LoadInvalid(c) \/ LoadEnabled(c)
    BY <2>2 DEF ReadReport, HashModule, CheckSignature, ReadDigest, LoadRegistry, LoadInvalid,
       LoadEnabled, Quiet
  <2>3. CASE ReadModule(c) \/ FetchResource(c) \/ ReadDirectory(c) \/ Execute(c) \/ Decide(c)
             \/ Validate(c) \/ Approved(c)
    BY <2>3 DEF ReadModule, FetchResource, ReadDirectory, GoesOn, Execute, Decide, Validate, Approved,
       Quiet
  <2> QED  BY <1>3, <2>1, <2>2, <2>3 DEF CallStep
<1>4. CASE RequestExpires \/ FileChanges \/ UNCHANGED pluginVars
  BY <1>1, <1>4 DEF RequestExpires, FileChanges, pluginVars
<1> QED  BY <1>1, <1>2, <1>3, <1>4 DEF PluginNext

\* The publisher's key is not trusted, trusted or revoked.
PublisherOK == publisher \in {"unknown", "trusted", "revoked"}

LEMMA PublisherKept == PublisherOK /\ [PluginNext]_pluginVars => PublisherOK'
<1> SUFFICES ASSUME PublisherOK, [PluginNext]_pluginVars, publisher' # publisher PROVE PublisherOK'
  BY DEF PublisherOK
<1>1. PICK c \in Call : SaveDocuments(c)
  BY DEF PluginNext, pluginVars, documents, RequestExpires, FileChanges, CallStep, Import, Revoke, Disable,
     Remove, Enable, Run, Register, Begins, ReadReport, HashModule, CheckSignature, ReadDigest,
     LoadRegistry, LoadInvalid, LoadEnabled, ReadModule, FetchResource, ReadDirectory, GoesOn, Execute,
     Ask, Decide, Validate, Approved
<1> QED  BY <1>1 DEF SaveDocuments, PublisherOK

\* MAX_PENDING_PROXY_REQUESTS of plugin.rs, and the shape of the registry: what is enabled
\* may be executed.
THEOREM PluginTypeCorrect == PluginSpec => []PluginTypeOK
<1>1. PluginInit => AskedApart /\ PublisherOK
  BY DEF PluginInit, AskedApart, PublisherOK
<1>2. PluginInv => RequestsOK
  BY DEF PluginInv
<1>3. PluginInv /\ AskedApart /\ PublisherOK => PluginTypeOK
  <2> SUFFICES ASSUME PluginInv, AskedApart, PublisherOK PROVE PluginTypeOK
    OBVIOUS
  <2> DEFINE number == [a \in asked |-> a[1]]
  <2>1. number \in Injection(asked, 1..MaxAsked)
    BY DEF PluginInv, RequestsOK, AskedApart, Injection, IsInjective
  <2>2. IsFiniteSet(1..MaxAsked) /\ Cardinality(1..MaxAsked) = MaxAsked
    BY FS_Interval, PluginAssumption
  <2>3. Cardinality(asked) <= MaxAsked
    BY <2>1, <2>2, FS_Injection
  <2> QED  BY <2>3 DEF PluginInv, Entry, RequestsOK, PublisherOK, PluginTypeOK
<1> QED  BY <1>1, <1>2, <1>3, PluginInvHolds, AskedApartKept, PublisherKept, PTL DEF PluginSpec
-----------------------------------------------------------------------------
(***************************************************************************)
(* Zmodem.  What drives a transfer (Drive) may give any status: the        *)
(* invariant only says whose transfer it is.                               *)
(***************************************************************************)
ZmodemInv ==
    /\ DOMAIN zmodem = DOMAIN Detecting /\ DOMAIN lastEvent = Detected
    /\ zmodem.at \in {"detecting", "awaiting", "active", "finishing"}
    /\ zmodem.at \in {"awaiting", "active"} => zmodem.id \in Detected
    /\ ZmodemAsksFirst

\* An event changes the status of its own transfer.
LEMMA TellsOne ==
  ASSUME DOMAIN lastEvent = Detected, NEW i \in Detected, NEW what, Tells(i, what)
  PROVE  /\ DOMAIN lastEvent' = Detected /\ lastEvent'[i] = what
         /\ \A j \in Detected : j # i => lastEvent'[j] = lastEvent[j]
BY DEF Tells

\* The terminal goes back to its detector, or waits for the last bytes of a download.
LEMMA FinishOwnsNothing ==
  ASSUME NEW rest
  PROVE  DOMAIN Finish(rest) = DOMAIN Detecting /\ Finish(rest).at \in {"detecting", "finishing"}
BY DEF Finish, Detecting

\* A step that ends in no transfer may tell of anything that is no progress, and of
\* progress where the user has answered.
LEMMA NobodyOwns ==
  ASSUME ZmodemInv, NEW i \in Detected, NEW what, Tells(i, what),
         answered \subseteq answered', i \in answered' \/ what \notin {"running", "completed"},
         DOMAIN zmodem' = DOMAIN Detecting, zmodem'.at \in {"detecting", "finishing"}
  PROVE  ZmodemInv'
<1>1. /\ DOMAIN lastEvent' = Detected /\ lastEvent'[i] = what
      /\ \A j \in Detected : j # i => lastEvent'[j] = lastEvent[j]
  BY TellsOne DEF ZmodemInv
<1> QED
  BY <1>1 DEF ZmodemInv, ZmodemAsksFirst

\* A transfer that is driven was answered.
LEMMA DriveKeeps ==
  ASSUME ZmodemInv, NEW z, DOMAIN z = DOMAIN Detecting, z.id \in Detected,
         answered \subseteq answered', z.id \in answered', AfterDrive(z)
  PROVE  ZmodemInv'
<1>1. PICK d \in Drive(z) :
        /\ zmodem' = IF d.status = "completed" /\ ~z.upload THEN Finish(d.rest)
                     ELSE IF d.status # None THEN Detecting
                     ELSE [z EXCEPT !.at = "active", !.wire = d.rest, !.stage = d.stage, !.left = d.left]
        /\ Tells(z.id, IF d.status = None THEN "running" ELSE d.status)
  BY DEF AfterDrive
<1> DEFINE what == IF d.status = None THEN "running" ELSE d.status
<1>2. /\ DOMAIN lastEvent' = Detected /\ lastEvent'[z.id] = what
      /\ \A j \in Detected : j # z.id => lastEvent'[j] = lastEvent[j]
  <2>1. Tells(z.id, what)
    BY <1>1
  <2> HIDE DEF what
  <2> QED
    BY <2>1, TellsOne DEF ZmodemInv
<1>3. CASE (d.status = "completed" /\ ~z.upload) \/ d.status # None
  <2>1. DOMAIN zmodem' = DOMAIN Detecting /\ zmodem'.at \in {"detecting", "finishing"}
    BY <1>1, <1>3, FinishOwnsNothing DEF Detecting
  <2> QED
    BY <1>1, <2>1, NobodyOwns
<1>4. CASE d.status = None /\ ~(d.status = "completed" /\ ~z.upload)
  <2>1. DOMAIN zmodem' = DOMAIN Detecting /\ zmodem'.at = "active" /\ zmodem'.id = z.id
    BY <1>1, <1>4 DEF Detecting
  <2>2. lastEvent'[z.id] = "running"
    BY <1>2, <1>4
  <2> QED
    BY <1>2, <2>1, <2>2 DEF ZmodemInv, ZmodemAsksFirst
<1> QED
  BY <1>3, <1>4

\* The reader of the terminal.
LEMMA ReaderKeeps ==
  ASSUME ZmodemInv, NEW chunk,
         Detect(chunk) \/ KeepBytes(chunk) \/ TransferBytes(chunk) \/ FinishFeed(chunk)
  PROVE  ZmodemInv'
<1>1. CASE Detect(chunk)
  <2>1. PICK id \in Detected : \E wire, upload :
          /\ zmodem' = [Detecting EXCEPT !.at = "awaiting", !.id = id, !.upload = upload, !.wire = wire]
          /\ Tells(id, "awaitingAuthorization") /\ answered' = answered
    <3> DEFINE headers == {k \in DOMAIN chunk : chunk[k] \in Header}
               first == CHOOSE k \in headers : \A l \in headers : k <= l
    <3>1. PICK id \in Unused :
            /\ zmodem' = [Detecting EXCEPT !.at = "awaiting", !.id = id, !.upload = chunk[first] = "zrinit",
                                           !.wire = SubSeq(chunk, first, Len(chunk))]
            /\ Tells(id, "awaitingAuthorization") /\ answered' = answered
      BY <1>1, Zenon DEF Detect
    <3> QED
      BY <3>1, Zenon DEF Unused
  <2>3. DOMAIN zmodem' = DOMAIN Detecting /\ zmodem'.at = "awaiting" /\ zmodem'.id = id
    BY <2>1 DEF Detecting
  <2>4. /\ DOMAIN lastEvent' = Detected /\ lastEvent'[id] = "awaitingAuthorization"
        /\ \A j \in Detected : j # id => lastEvent'[j] = lastEvent[j]
    BY <2>1, TellsOne DEF ZmodemInv
  <2> QED
    BY <2>1, <2>3, <2>4 DEF ZmodemInv, ZmodemAsksFirst
<1>2. CASE KeepBytes(chunk)
  <2>1. CASE TooMuch(chunk)
    BY <1>2, <2>1, NobodyOwns DEF KeepBytes, ZmodemInv, Detecting
  <2>2. CASE ~TooMuch(chunk)
    <3>1. /\ DOMAIN zmodem' = DOMAIN zmodem /\ zmodem'.at = zmodem.at /\ zmodem'.id = zmodem.id
          /\ UNCHANGED <<lastEvent, answered>>
      BY <1>2, <2>2 DEF KeepBytes, ZmodemInv, Detecting
    <3> QED
      BY <3>1 DEF ZmodemInv, ZmodemAsksFirst
  <2> QED
    BY <2>1, <2>2
<1>3. CASE TransferBytes(chunk)
  <2>1. CASE TooMuch(chunk)
    BY <1>3, <2>1, NobodyOwns DEF TransferBytes, ZmodemInv, Detecting
  <2>2. CASE ~TooMuch(chunk)
    <3> DEFINE z == [zmodem EXCEPT !.wire = Appended(chunk)]
    <3>1. AfterDrive(z) /\ answered' = answered
      BY <1>3, <2>2 DEF TransferBytes
    <3>2. DOMAIN z = DOMAIN Detecting /\ z.id = zmodem.id
      BY DEF ZmodemInv, Detecting
    <3>3. z.id \in Detected /\ z.id \in answered
      BY <1>3, <3>2 DEF TransferBytes, ZmodemInv, ZmodemAsksFirst
    <3> HIDE DEF z
    <3> QED
      BY <3>1, <3>2, <3>3, DriveKeeps
  <2> QED
    BY <2>1, <2>2
<1>4. CASE FinishFeed(chunk)
  <2>1. DOMAIN zmodem' = DOMAIN Detecting /\ zmodem'.at \in {"detecting", "finishing"}
    BY <1>4, FinishOwnsNothing DEF FinishFeed
  <2> QED
    BY <1>4, <2>1 DEF FinishFeed, ZmodemInv, ZmodemAsksFirst
<1> QED
  BY <1>1, <1>2, <1>3, <1>4

\* The commands of the window, a time-out and the end of the connection.
LEMMA CommandKeeps ==
  ASSUME ZmodemInv, NEW i \in Detected, NEW n,
         Expire \/ Disconnect \/ Cancel(i) \/ Start(i, n)
  PROVE  ZmodemInv'
<1>0. DOMAIN Detecting' = DOMAIN Detecting /\ Detecting.at = "detecting"
  BY DEF Detecting
<1>1. CASE Expire \/ Disconnect \/ Cancel(i)
  <2>1. zmodem' = Detecting /\ answered' = answered
    BY <1>1 DEF Expire, Disconnect, Cancel
  <2>2. CASE UNCHANGED lastEvent
    BY <1>0, <2>1, <2>2 DEF ZmodemInv, ZmodemAsksFirst
  <2>3. CASE ~UNCHANGED lastEvent
    <3>1. PICK what \in {"cancelled", "failed"} : Tells(zmodem.id, what)
      BY <1>1, <2>3 DEF Expire, Disconnect, Cancel
    <3>2. zmodem.id \in Detected
      BY <1>1, <2>3 DEF Expire, Disconnect, Cancel, ZmodemInv
    <3> QED
      BY <1>0, <2>1, <3>1, <3>2, NobodyOwns
  <2> QED
    BY <2>2, <2>3
<1>2. CASE Start(i, n)
  <2>1. answered' = answered \union {i}
    BY <1>2 DEF Start
  <2>2. CASE ~IsAwaited(i)
    BY <1>2, <2>1, <2>2 DEF Start, ZmodemInv, ZmodemAsksFirst
  <2>3. CASE IsAwaited(i) /\ ~Usable(n)
    BY <1>0, <1>2, <2>1, <2>3, NobodyOwns DEF Start, IsAwaited
  <2>4. CASE IsAwaited(i) /\ Usable(n)
    <3> DEFINE z == [zmodem EXCEPT !.left = IF zmodem.upload THEN n ELSE 0]
    <3>1. AfterDrive(z)
      BY <1>2, <2>4 DEF Start
    <3>2. DOMAIN z = DOMAIN Detecting /\ z.id = i
      BY <2>4 DEF ZmodemInv, Detecting, IsAwaited
    <3> HIDE DEF z
    <3> QED
      BY <2>1, <3>1, <3>2, DriveKeeps
  <2> QED
    BY <2>2, <2>3, <2>4
<1> QED
  BY <1>1, <1>2

\* ssh.rs:1998-2105: for any number of detections, frames and files, whatever zmodem2 makes
\* of them, nothing moves for a request that its user has not answered.
THEOREM ZmodemAsksFirstHolds == ZmodemSpec => []ZmodemAsksFirst
<1>1. ZmodemInit => ZmodemInv
  BY DEF ZmodemInit, ZmodemInv, ZmodemAsksFirst, Detecting
<1>2. ZmodemInv /\ [ZmodemNext]_zmodemVars => ZmodemInv'
  <2> SUFFICES ASSUME ZmodemInv, [ZmodemNext]_zmodemVars PROVE ZmodemInv'
    OBVIOUS
  <2>1. CASE UNCHANGED zmodemVars
    BY <2>1 DEF zmodemVars, ZmodemInv, ZmodemAsksFirst
  <2>2. ASSUME NEW chunk \in Chunk,
               Detect(chunk) \/ KeepBytes(chunk) \/ TransferBytes(chunk) \/ FinishFeed(chunk)
        PROVE  ZmodemInv'
    BY <2>2, ReaderKeeps
  <2>3. CASE Expire \/ Disconnect
    <3>1. CASE Detected = {}
      BY <2>3, <3>1 DEF Expire, Disconnect, ZmodemInv, ZmodemAsksFirst, Detecting, Tells
    <3>2. CASE Detected # {}
      BY <2>3, <3>2, CommandKeeps
    <3> QED
      BY <3>1, <3>2
  <2>4. ASSUME NEW i \in Detected, Cancel(i) PROVE ZmodemInv'
    BY <2>4, CommandKeeps
  <2>5. ASSUME NEW i \in Detected, NEW n \in 0..MaxFiles, Start(i, n) PROVE ZmodemInv'
    BY <2>5, CommandKeeps
  <2> QED
    BY <2>1, <2>2, <2>3, <2>4, <2>5 DEF ZmodemNext
<1>3. ZmodemInv => ZmodemAsksFirst
  BY DEF ZmodemInv
<1> QED
  BY <1>1, <1>2, <1>3, PTL DEF ZmodemSpec

-----------------------------------------------------------------------------
(***************************************************************************)
(* MemberAgreesWithRelay with what keeps it.                               *)
(***************************************************************************)
OwnDevice == mine.workspace.device
SiteDevice == Fresh \union {Peer, Other}
SiteRecord ==
    [epoch : 0..(LastEpoch + 1), roster : SUBSET SiteDevice, accepted : Fresh \union {None}]
WorkspaceRecord ==
    [here : BOOLEAN, device : Fresh \union {None}, epoch : Nat, roster : SUBSET SiteDevice]
PendingRecord == [device : Fresh, born : 0..LastHour]
MineRecord ==
    [profile : BOOLEAN, bound : BOOLEAN, pending : PendingRecord \union {None},
     workspace : WorkspaceRecord]

\* Where a command is that has a device.
NamedAt ==
    {"insert", "purgeKeys", "note", "ask", "drop", "dropKeys", "bootstrap", "ensure",
     "challenge", "session", "request", "first", "second", "apply", "finish"}
OpName == {"none", "device", "publish", "accept", "delete", "sync", "request"}
PlaceName == NamedAt \union {"idle", "make", "purge", "find", "list", "remove", "unkey"}
JobRecord ==
    [op : OpName, at : PlaceName, dev : Fresh \union {None}, epoch : Nat,
     roster : SUBSET SiteDevice]

MemberTypes ==
    /\ site \in SiteRecord /\ (site.accepted = None => site.epoch <= LastEpoch)
    /\ mine \in MineRecord
    /\ keys \subseteq drawn /\ drawn \subseteq Fresh
    /\ job \in [Job -> JobRecord]
    /\ hour \in 0..LastHour /\ spoiled \in BOOLEAN

\* What was read of the relay is no later than the relay, and the roster read after an
\* epoch is that of the epoch if the epoch is still the relay's.
Reads(j) ==
    /\ job[j].at \in {"second", "apply"} => job[j].epoch <= site.epoch
    /\ job[j].at = "apply" /\ job[j].epoch = site.epoch => job[j].roster = site.roster

Copy ==
    mine.bound =>
      /\ OwnDevice # None
      /\ mine.workspace.epoch <= site.epoch
      /\ mine.workspace.epoch = site.epoch => mine.workspace.roster = site.roster

\* The commands that speak for the desktop's own device, and the one that makes it.
Speaks(j) ==
    /\ job[j].at \in NamedAt => job[j].dev # None
    /\ job[j].op \in {"publish", "sync", "request"} => job[j].dev = OwnDevice /\ OwnDevice # None
    /\ job[j].op = "device" => mine.workspace.here
    /\ job[j].dev # None => job[j].dev \in drawn

OneAccept == \A j, k \in Job : job[j].op = "accept" /\ job[k].op = "accept" => j = k

\* A device that was drawn and is not written down yet is known to one command alone.
Drawing(j) == job[j].at \in {"insert", "note"}
OnlyHere(j) ==
    Drawing(j) =>
      /\ job[j].dev \in keys /\ job[j].dev \notin site.roster /\ job[j].dev # OwnDevice
      /\ mine.pending # None => mine.pending.device # job[j].dev
      /\ \A k \in Job \ {j} : job[k].dev # job[j].dev

\* An acceptance asks for the device that is written down.
AsksFor(j) ==
    job[j].op = "accept" =>
      /\ job[j].at # "finish" /\ job[j].dev # None => spoiled \/ OwnDevice # job[j].dev
      /\ job[j].at \in {"ask", "drop", "challenge", "session", "first", "second", "apply"} =>
           \/ ~mine.profile
           \/ mine.pending # None /\ mine.pending.device = job[j].dev

\* It gives up keys when the relay has not registered them and no longer will.
GivesUp(j) ==
    /\ job[j].op = "accept" /\ job[j].at \in {"purgeKeys", "dropKeys"} => mine.pending = None
    /\ job[j].op = "accept" /\ job[j].at = "purgeKeys" => hour >= InvitationLife
    /\ job[j].op = "accept" /\ job[j].at \in {"drop", "dropKeys"} =>
         spoiled \/ job[j].dev \notin site.roster \/ hour >= InvitationLife
    /\ job[j].op = "delete" /\ job[j].at = "unkey" => ~mine.profile

\* The device of the workspace and the one that is written down have their keys.
Desk ==
    /\ OwnDevice # None =>
         /\ mine.workspace.here /\ OwnDevice \in drawn
         /\ OwnDevice \in keys \/ spoiled \/ ~mine.profile
    /\ mine.pending # None =>
         /\ mine.profile /\ mine.pending.device \in keys
         /\ mine.pending.device = OwnDevice =>
              spoiled \/ \E j \in Job : At(j, {"accept"}, "finish")

\* The relay has a device of the desktop because it owns the workspace, or was invited.
Registered ==
    \A d \in Fresh \cap site.roster :
      d \in drawn /\ (d = OwnDevice \/ (Peer \in site.roster /\ site.accepted = d))

JobFits(j) == Reads(j) /\ Speaks(j) /\ AsksFor(j) /\ GivesUp(j)

MemberInv ==
    /\ MemberTypes /\ Copy /\ Desk /\ Registered /\ RegisteredKeepsKeys /\ OneAccept
    /\ \A j \in Job : JobFits(j) /\ OnlyHere(j)

LEMMA JobChanges ==
  ASSUME job \in [Job -> JobRecord], NEW j \in Job, NEW x \in JobRecord,
         job' = [job EXCEPT ![j] = x]
  PROVE  /\ job' \in [Job -> JobRecord] /\ job'[j] = x
         /\ \A k \in Job : k # j => job'[k] = job[k]
OBVIOUS

LEMMA JobWith ==
  ASSUME job \in [Job -> JobRecord], NEW j \in Job, NEW at \in PlaceName,
         NEW dev \in Fresh \union {None}, With(j, at, dev)
  PROVE  /\ job' \in [Job -> JobRecord] /\ \A k \in Job : k # j => job'[k] = job[k]
         /\ job'[j].op = job[j].op /\ job'[j].at = at /\ job'[j].dev = dev
         /\ job'[j].epoch = job[j].epoch /\ job'[j].roster = job[j].roster
<1> DEFINE x == [job[j] EXCEPT !.at = at, !.dev = dev]
<1>1. job[j] \in JobRecord
  OBVIOUS
<1>2. /\ x \in JobRecord /\ x.op = job[j].op /\ x.at = at /\ x.dev = dev
      /\ x.epoch = job[j].epoch /\ x.roster = job[j].roster
  BY <1>1 DEF JobRecord
<1>3. job' = [job EXCEPT ![j] = x]
  BY DEF With
<1> HIDE DEF x
<1> QED
  BY <1>2, <1>3, JobChanges

LEMMA JobGoes ==
  ASSUME job \in [Job -> JobRecord], NEW j \in Job, NEW at \in PlaceName, Goes(j, at)
  PROVE  /\ job' \in [Job -> JobRecord] /\ \A k \in Job : k # j => job'[k] = job[k]
         /\ job'[j].op = job[j].op /\ job'[j].at = at /\ job'[j].dev = job[j].dev
         /\ job'[j].epoch = job[j].epoch /\ job'[j].roster = job[j].roster
<1> DEFINE x == [job[j] EXCEPT !.at = at]
<1>1. job[j] \in JobRecord
  OBVIOUS
<1>2. /\ x \in JobRecord /\ x.op = job[j].op /\ x.at = at /\ x.dev = job[j].dev
      /\ x.epoch = job[j].epoch /\ x.roster = job[j].roster
  BY <1>1 DEF JobRecord
<1>3. job' = [job EXCEPT ![j] = x]
  BY DEF Goes
<1> HIDE DEF x
<1> QED
  BY <1>2, <1>3, JobChanges

LEMMA RestIsJob == Rest \in JobRecord /\ Rest.op = "none" /\ Rest.at = "idle" /\ Rest.dev = None
BY DEF Rest, JobRecord, OpName, PlaceName

LEMMA JobEnds ==
  ASSUME job \in [Job -> JobRecord], NEW j \in Job, Ends(j)
  PROVE  /\ job' \in [Job -> JobRecord] /\ \A k \in Job : k # j => job'[k] = job[k]
         /\ job'[j].op = "none" /\ job'[j].at = "idle" /\ job'[j].dev = None
BY RestIsJob, JobChanges DEF Ends

LEMMA JobBegins ==
  ASSUME job \in [Job -> JobRecord], NEW j \in Job, NEW op \in OpName, NEW at \in PlaceName,
         NEW dev \in Fresh \union {None},
         job' = [job EXCEPT ![j] = [Rest EXCEPT !.op = op, !.at = at, !.dev = dev]]
  PROVE  /\ job' \in [Job -> JobRecord] /\ \A k \in Job : k # j => job'[k] = job[k]
         /\ job'[j].op = op /\ job'[j].at = at /\ job'[j].dev = dev
<1> DEFINE x == [Rest EXCEPT !.op = op, !.at = at, !.dev = dev]
<1>1. x \in JobRecord /\ x.op = op /\ x.at = at /\ x.dev = dev
  BY DEF JobRecord, Rest
<1> HIDE DEF x
<1> QED
  BY <1>1, JobChanges DEF x

(***************************************************************************)
(* The step of one command that only reads, or asks the relay: the desk is *)
(* as it was, and the relay gains at most the device that was written down *)
(* or is the workspace's own.                                              *)
(***************************************************************************)
Moved(j) ==
    /\ job[j].at # "finish" /\ ~Drawing(j)'
    /\ \/ job'[j].dev \in {None, job[j].dev, OwnDevice}
       \/ mine.pending # None /\ job'[j].dev = mine.pending.device
    /\ job'[j].op = "accept" => job[j].op = "accept" \/ \A k \in Job : job[k].op # "accept"
    /\ JobFits(j)'

SiteGrows(j) ==
    /\ site' \in SiteRecord /\ (site'.accepted = None => site'.epoch <= LastEpoch)
    /\ site'.epoch > site.epoch
    /\ \A d \in Fresh \cap site'.roster :
         \/ /\ d \in site.roster
            /\ Peer \in site.roster /\ site.accepted = d =>
                 Peer \in site'.roster /\ site'.accepted = d
         \/ d = OwnDevice
         \/ /\ Peer \in site'.roster /\ site'.accepted = d
            /\ j \in Job /\ At(j, {"accept"}, "ask") /\ d = job[j].dev

LEMMA MemberMoves ==
  ASSUME MemberInv, UNCHANGED <<mine, keys, drawn, hour, spoiled>>, NEW j,
         job' \in [Job -> JobRecord],
         \A k \in Job : job'[k] = job[k] \/ (k = j /\ Moved(k)),
         site' = site \/ SiteGrows(j)
  PROVE  MemberInv'
<1> USE MembershipAssumption
<1>0. /\ OwnDevice' = OwnDevice /\ MemberTypes /\ Copy /\ Desk /\ Registered
      /\ RegisteredKeepsKeys /\ OneAccept
      /\ site.epoch \in Nat /\ mine.workspace.epoch \in Nat /\ LastHour \in Nat
      /\ \A k \in Job : JobFits(k) /\ OnlyHere(k) /\ job[k] \in JobRecord
  BY DEF OwnDevice, MemberInv, MemberTypes, SiteRecord, MineRecord, WorkspaceRecord
<1>1. MemberTypes'
  BY <1>0 DEF MemberTypes, SiteGrows
<1>2. site'.epoch \in Nat /\ site'.epoch >= site.epoch
  BY <1>0, <1>1 DEF SiteGrows, MemberTypes, SiteRecord
<1>3. Copy'
  <2>1. CASE site' = site
    BY <1>0, <2>1 DEF Copy
  <2>2. CASE site'.epoch > site.epoch
    <3>1. mine.bound => mine.workspace.epoch <= site'.epoch /\ mine.workspace.epoch # site'.epoch
      BY <1>0, <1>2, <2>2 DEF Copy
    <3> QED
      BY <1>0, <3>1 DEF Copy
  <2> QED
    BY <2>1, <2>2 DEF SiteGrows
<1>4. ASSUME NEW d \in Fresh \cap site'.roster
      PROVE  d \in site.roster \/ d = OwnDevice
               \/ (j \in Job /\ At(j, {"accept"}, "ask") /\ d = job[j].dev)
  BY <1>0 DEF SiteGrows
<1>5. Desk'
  <2>1. \A k \in Job : At(k, {"accept"}, "finish") => job'[k] = job[k]
    BY DEF Moved, At
  <2> QED
    BY <1>0, <2>1 DEF Desk, At
<1>6. Registered'
  <2> SUFFICES ASSUME NEW d \in Fresh \cap site'.roster, d # OwnDevice
               PROVE  d \in drawn /\ Peer \in site'.roster /\ site'.accepted = d
    BY <1>0 DEF Registered, Desk
  <2>1. CASE site' = site
    BY <1>0, <2>1 DEF Registered
  <2>2. CASE SiteGrows(j) /\ d \in site.roster
    BY <1>0, <2>2 DEF Registered, SiteGrows, At, JobFits, Speaks, NamedAt
  <2>3. CASE SiteGrows(j) /\ d \notin site.roster
    BY <1>0, <2>3 DEF SiteGrows, At, JobFits, Speaks, NamedAt
  <2> QED
    BY <2>1, <2>2, <2>3
<1>7. RegisteredKeepsKeys'
  <2> SUFFICES ASSUME NEW d \in Fresh \cap site'.roster, ~spoiled, mine.profile,
                      hour < InvitationLife \/ mine.workspace.device = d
               PROVE  d \in keys
    BY DEF RegisteredKeepsKeys
  <2>1. CASE d \in site.roster
    BY <1>0, <2>1 DEF RegisteredKeepsKeys
  <2>2. CASE d = OwnDevice
    BY <1>0, <2>2 DEF Desk
  <2>3. CASE j \in Job /\ At(j, {"accept"}, "ask") /\ d = job[j].dev
    BY <1>0, <2>3 DEF Desk, JobFits, AsksFor, At
  <2> QED
    BY <1>4, <2>1, <2>2, <2>3
<1>8. OneAccept'
  <2>1. \A k \in Job : job'[k].op = "accept" =>
          job[k].op = "accept" \/ (k = j /\ \A i \in Job : job[i].op # "accept")
    BY DEF Moved
  <2> QED
    BY <1>0, <2>1 DEF OneAccept
<1>9. ASSUME NEW k \in Job PROVE JobFits(k)'
  <2>1. CASE k = j /\ Moved(k)
    BY <2>1 DEF Moved
  <2>2. CASE job'[k] = job[k]
    <3>1. Reads(k)'
      <4>1. job[k].epoch \in Nat
        BY <1>0 DEF JobRecord
      <4>2. CASE site' = site
        BY <1>0, <2>2, <4>2 DEF JobFits, Reads
      <4>3. CASE site'.epoch > site.epoch
        <5>1. job[k].epoch <= site.epoch => job[k].epoch <= site'.epoch /\ job[k].epoch # site'.epoch
          BY <1>0, <1>2, <4>1, <4>3
        <5>2. job[k].at \in {"second", "apply"} => job[k].epoch <= site.epoch
          BY <1>0 DEF JobFits, Reads
        <5> QED
          BY <2>2, <5>1, <5>2 DEF Reads
      <4> QED
        BY <4>2, <4>3 DEF SiteGrows
    <3>2. Speaks(k)' /\ AsksFor(k)'
      BY <1>0, <2>2 DEF JobFits, Speaks, AsksFor
    <3>3. GivesUp(k)'
      <4>1. job[k].op = "accept" /\ job[k].at \in {"drop", "dropKeys"} =>
              spoiled \/ job[k].dev \notin site'.roster \/ hour >= InvitationLife
        <5> SUFFICES ASSUME job[k].op = "accept", job[k].at \in {"drop", "dropKeys"}, ~spoiled,
                            job[k].dev \in site'.roster
                     PROVE  hour >= InvitationLife
          OBVIOUS
        <5>1. job[k].dev \in Fresh /\ job[k].dev # OwnDevice
          BY <1>0 DEF JobFits, Speaks, AsksFor, NamedAt, JobRecord
        <5>2. ~(j \in Job /\ At(j, {"accept"}, "ask"))
          BY <1>0 DEF OneAccept, At
        <5>3. job[k].dev \in site.roster
          BY <1>4, <5>1, <5>2
        <5> QED
          BY <1>0, <5>3 DEF JobFits, GivesUp
      <4> QED
        BY <1>0, <2>2, <4>1 DEF JobFits, GivesUp
    <3> QED
      BY <3>1, <3>2, <3>3 DEF JobFits
  <2> QED
    BY <2>1, <2>2
<1>10. ASSUME NEW k \in Job PROVE OnlyHere(k)'
  <2> SUFFICES ASSUME Drawing(k)'
               PROVE  /\ job'[k].dev \in keys /\ job'[k].dev \notin site'.roster
                      /\ job'[k].dev # OwnDevice
                      /\ mine.pending # None => mine.pending.device # job'[k].dev
                      /\ \A i \in Job \ {k} : job'[i].dev # job'[k].dev
    BY <1>0 DEF OnlyHere
  <2>1. job'[k] = job[k] /\ Drawing(k)
    BY DEF Moved, Drawing
  <2>2. OnlyHere(k) /\ job[k].dev \in Fresh /\ job[k].dev # None
    BY <1>0, <2>1 DEF Drawing, JobFits, Speaks, NamedAt, JobRecord
  <2>3. job[k].dev \notin site'.roster
    <3>1. j \in Job /\ At(j, {"accept"}, "ask") => job[j].dev # job[k].dev
      BY <2>1, <2>2 DEF Drawing, OnlyHere, At
    <3> QED
      BY <1>4, <2>1, <2>2, <3>1 DEF OnlyHere
  <2>4. ASSUME NEW i \in Job \ {k} PROVE job'[i].dev # job[k].dev
    BY <2>1, <2>2 DEF OnlyHere, Moved
  <2> QED
    BY <2>1, <2>2, <2>3, <2>4 DEF OnlyHere
<1> QED
  BY <1>1, <1>3, <1>5, <1>6, <1>7, <1>8, <1>9, <1>10 DEF MemberInv

(***************************************************************************)
(* The keys of a device go, by a command that ends or begins anew: neither *)
(* the desk nor the relay needs them any more.                             *)
(***************************************************************************)
NotNeeded(d) ==
    /\ OwnDevice = d => spoiled \/ ~mine.profile
    /\ mine.pending # None => mine.pending.device # d
    /\ d \in Fresh \cap site.roster => spoiled \/ ~mine.profile \/ (hour >= InvitationLife /\ OwnDevice # d)

LEMMA KeysGo ==
  ASSUME MemberInv, UNCHANGED <<site, mine, drawn, hour, spoiled>>, NEW j \in Job,
         job' \in [Job -> JobRecord], \A k \in Job : k # j => job'[k] = job[k],
         job[j].at # "finish", job'[j].dev = None,
         (job'[j].op = "none" /\ job'[j].at = "idle")
           \/ (job'[j].op = job[j].op /\ job[j].op = "accept" /\ job'[j].at = "find"),
         keys' = keys \ {job[j].dev}, NotNeeded(job[j].dev)
  PROVE  MemberInv'
<1> USE MembershipAssumption
<1>0. /\ OwnDevice' = OwnDevice /\ MemberTypes /\ Copy /\ Desk /\ Registered
      /\ RegisteredKeepsKeys /\ OneAccept
      /\ LastHour \in Nat
      /\ \A k \in Job : JobFits(k) /\ OnlyHere(k) /\ job[k] \in JobRecord
  BY DEF OwnDevice, MemberInv, MemberTypes
<1>1. MemberTypes'
  BY <1>0 DEF MemberTypes
<1>2. Copy' /\ Registered'
  BY <1>0 DEF Copy, Registered
<1>3. Desk'
  <2>1. \A k \in Job : At(k, {"accept"}, "finish") => job'[k] = job[k]
    BY DEF At
  <2> QED
    BY <1>0, <2>1 DEF Desk, At, NotNeeded
<1>4. RegisteredKeepsKeys'
  BY <1>0 DEF RegisteredKeepsKeys, NotNeeded, MemberTypes, OwnDevice
<1>5. OneAccept'
  BY <1>0 DEF OneAccept
<1>6. ASSUME NEW k \in Job PROVE JobFits(k)'
  <2>1. CASE k = j
    <3>1. Reads(k)' /\ AsksFor(k)' /\ GivesUp(k)'
      BY <1>0, <2>1 DEF Reads, AsksFor, GivesUp
    <3>2. Speaks(k)'
      BY <1>0, <2>1 DEF Speaks, NamedAt
    <3> QED
      BY <3>1, <3>2 DEF JobFits
  <2>2. CASE k # j
    BY <1>0, <2>2 DEF JobFits, Reads, Speaks, AsksFor, GivesUp
  <2> QED
    BY <2>1, <2>2
<1>7. ASSUME NEW k \in Job PROVE OnlyHere(k)'
  <2>1. CASE k = j
    BY <2>1 DEF OnlyHere, Drawing
  <2>2. CASE k # j /\ Drawing(k)
    BY <1>0, <2>2 DEF OnlyHere, Drawing, JobFits, Speaks, NamedAt
  <2>3. CASE k # j /\ ~Drawing(k)
    BY <1>0, <2>3 DEF OnlyHere, Drawing
  <2> QED
    BY <2>1, <2>2, <2>3
<1> QED
  BY <1>1, <1>2, <1>3, <1>4, <1>5, <1>6, <1>7 DEF MemberInv

\* A new device: nobody knows it yet.
LEMMA DrawKeysKeeps ==
  ASSUME MemberInv, NEW j \in Job, NEW at \in {"insert", "note"}, DrawKeys(j, at),
         (job[j].op = "device" /\ at = "insert") \/ (job[j].op = "accept" /\ at = "note"),
         job[j].at # "finish"
  PROVE  MemberInv'
<1> USE MembershipAssumption
<1>0. /\ OwnDevice' = OwnDevice /\ MemberTypes /\ Copy /\ Desk /\ Registered
      /\ RegisteredKeepsKeys /\ OneAccept
      /\ LastHour \in Nat
      /\ \A k \in Job : JobFits(k) /\ OnlyHere(k) /\ job[k] \in JobRecord
  BY DEF OwnDevice, MemberInv, MemberTypes, DrawKeys
<1>1. PICK d \in Fresh \ drawn :
        /\ drawn' = drawn \union {d} /\ keys' = keys \union {d} /\ With(j, at, d)
        /\ UNCHANGED <<mine, site, hour, spoiled>>
  BY <1>0 DEF DrawKeys, Remote, MemberTypes
<1>2. /\ job' \in [Job -> JobRecord] /\ \A k \in Job : k # j => job'[k] = job[k]
      /\ job'[j].op = job[j].op /\ job'[j].at = at /\ job'[j].dev = d
  BY <1>0, <1>1, JobWith DEF MemberTypes, PlaceName, NamedAt
<1>3. MemberTypes'
  BY <1>0, <1>1, <1>2 DEF MemberTypes
<1>4. Copy' /\ Registered'
  BY <1>0, <1>1 DEF Copy, Registered
<1>5. Desk'
  <2>1. \A k \in Job : At(k, {"accept"}, "finish") => job'[k] = job[k]
    BY <1>2 DEF At
  <2> QED
    BY <1>0, <1>1, <2>1 DEF Desk, At
<1>6. RegisteredKeepsKeys'
  BY <1>0, <1>1 DEF RegisteredKeepsKeys
<1>7. OneAccept'
  BY <1>0, <1>2 DEF OneAccept
<1>8. d # OwnDevice /\ d # None /\ d \notin site.roster
        /\ (mine.pending # None => mine.pending.device # d)
        /\ \A k \in Job : job[k].dev # d
  <2>1. mine.pending # None => mine.pending.device \in drawn
    BY <1>0 DEF Desk, MemberTypes
  <2>2. \A k \in Job : job[k].dev # None => job[k].dev \in drawn
    BY <1>0 DEF JobFits, Speaks
  <2> QED
    BY <1>0, <1>1, <2>1, <2>2 DEF Desk, Registered
<1>9. ASSUME NEW k \in Job PROVE JobFits(k)'
  <2>1. CASE k = j
    <3>1. Reads(k)' /\ GivesUp(k)'
      BY <1>0, <1>1, <1>2, <2>1 DEF Reads, GivesUp
    <3>2. Speaks(k)' /\ AsksFor(k)'
      BY <1>0, <1>1, <1>2, <1>8, <2>1 DEF Speaks, AsksFor, JobFits
    <3> QED
      BY <3>1, <3>2 DEF JobFits
  <2>2. CASE k # j
    BY <1>0, <1>1, <1>2, <2>2 DEF JobFits, Reads, Speaks, AsksFor, GivesUp
  <2> QED
    BY <2>1, <2>2
<1>10. ASSUME NEW k \in Job PROVE OnlyHere(k)'
  <2>1. CASE k = j
    BY <1>0, <1>1, <1>2, <1>8, <2>1 DEF OnlyHere
  <2>2. CASE k # j
    BY <1>0, <1>1, <1>2, <1>8, <2>2 DEF OnlyHere, Drawing
  <2> QED
    BY <2>1, <2>2
<1> QED
  BY <1>3, <1>4, <1>5, <1>6, <1>7, <1>9, <1>10 DEF MemberInv

LEMMA InsertDeviceKeeps ==
  ASSUME MemberInv, NEW j \in Job, InsertDevice(j)
  PROVE  MemberInv'
<1> USE MembershipAssumption
<1>0. /\ MemberTypes /\ Copy /\ Desk /\ Registered
      /\ RegisteredKeepsKeys /\ OneAccept
      /\ LastHour \in Nat
      /\ \A k \in Job : JobFits(k) /\ OnlyHere(k) /\ job[k] \in JobRecord
  BY DEF MemberInv, MemberTypes
<1> DEFINE d == job[j].dev
<1>1. /\ d \in Fresh /\ d # None /\ d \in drawn /\ d \in keys /\ d \notin site.roster /\ d # OwnDevice
      /\ mine.pending # None => mine.pending.device # d
      /\ \A k \in Job \ {j} : job[k].dev # d
      /\ mine.workspace.here
      /\ Drawing(j) /\ job[j].op = "device"
  BY <1>0 DEF InsertDevice, At, OnlyHere, Drawing, JobFits, Speaks, NamedAt, JobRecord
<1>2. CASE DropKeys(j, d)
  <2>1. NotNeeded(d)
    BY <1>1 DEF NotNeeded
  <2>2. /\ keys' = keys \ {d} /\ Ends(j) /\ UNCHANGED <<site, mine, drawn, hour, spoiled>>
    BY <1>2 DEF DropKeys, Remote
  <2>3. /\ job' \in [Job -> JobRecord] /\ \A k \in Job : k # j => job'[k] = job[k]
        /\ job'[j].op = "none" /\ job'[j].at = "idle" /\ job'[j].dev = None
    BY <1>0, <2>2, JobEnds DEF MemberTypes
  <2> QED
    BY <1>1, <2>1, <2>2, <2>3, KeysGo DEF Drawing
<1>3. CASE /\ mine.workspace.device = None
           /\ mine' = [mine EXCEPT !.workspace.device = d, !.workspace.roster = @ \union {d}]
           /\ Ends(j) /\ UNCHANGED <<keys, drawn, Remote>>
  <2>1. /\ job' \in [Job -> JobRecord] /\ \A k \in Job : k # j => job'[k] = job[k]
        /\ job'[j].op = "none" /\ job'[j].at = "idle" /\ job'[j].dev = None
    BY <1>0, <1>3, JobEnds DEF MemberTypes
  <2>2. /\ mine' \in MineRecord /\ OwnDevice' = d /\ mine'.workspace.here
        /\ mine'.profile = mine.profile /\ mine'.pending = mine.pending
        /\ mine'.bound = mine.bound
    <3>1. mine \in MineRecord /\ mine.workspace \in WorkspaceRecord
      BY <1>0 DEF MemberTypes, MineRecord
    <3> DEFINE w == [mine.workspace EXCEPT !.device = d, !.roster = @ \union {d}]
    <3>2. w \in WorkspaceRecord /\ w.device = d /\ w.here
      BY <1>1, <3>1 DEF WorkspaceRecord, SiteDevice
    <3>3. mine' = [mine EXCEPT !.workspace = w]
      BY <1>3, <3>1 DEF MineRecord, WorkspaceRecord
    <3> HIDE DEF w
    <3> QED
      BY <3>1, <3>2, <3>3 DEF MineRecord, OwnDevice
  <2>3. UNCHANGED <<site, keys, drawn, hour, spoiled>> /\ OwnDevice = None
    BY <1>3 DEF Remote, OwnDevice
  <2> HIDE DEF d
  <2>4. MemberTypes'
    BY <1>0, <2>1, <2>2, <2>3 DEF MemberTypes
  <2>5. Copy'
    BY <1>0, <2>2, <2>3 DEF Copy
  <2>6. Registered'
    BY <1>0, <1>1, <2>2, <2>3 DEF Registered
  <2>7. Desk'
    <3>1. \A k \in Job : At(k, {"accept"}, "finish") => job'[k] = job[k]
      BY <1>1, <2>1 DEF At
    <3> QED
      BY <1>0, <1>1, <2>2, <2>3, <3>1 DEF Desk, At
  <2>8. RegisteredKeepsKeys'
    BY <1>0, <1>1, <2>2, <2>3 DEF RegisteredKeepsKeys, OwnDevice
  <2>9. OneAccept'
    BY <1>0, <2>1 DEF OneAccept
  <2>10. ASSUME NEW k \in Job PROVE JobFits(k)' /\ OnlyHere(k)'
    <3>1. CASE k = j
      BY <1>0, <2>1, <2>3, <3>1 DEF JobFits, Reads, Speaks, AsksFor, GivesUp, NamedAt, OnlyHere, Drawing
    <3>2. CASE k # j
      <4>1. job'[k] = job[k] /\ job[k].dev # d
        BY <1>1, <2>1, <3>2
      <4>2. JobFits(k)'
        BY <1>0, <2>2, <2>3, <4>1 DEF JobFits, Reads, Speaks, AsksFor, GivesUp
      <4>3. OnlyHere(k)'
        BY <1>0, <1>1, <2>1, <2>2, <2>3, <4>1 DEF OnlyHere, Drawing, JobFits, Speaks, NamedAt
      <4> QED
        BY <4>2, <4>3
    <3> QED
      BY <3>1, <3>2
  <2> QED
    BY <2>4, <2>5, <2>6, <2>7, <2>8, <2>9, <2>10 DEF MemberInv
<1> QED
  BY <1>2, <1>3 DEF InsertDevice

\* What was written down goes: by the acceptance itself, or with the profile.
LEMMA PendingGoes ==
  ASSUME MemberInv, UNCHANGED <<site, keys, drawn, hour, spoiled>>, NEW j \in Job,
         mine' \in MineRecord, mine'.workspace = mine.workspace, mine'.bound = mine.bound,
         mine'.pending = None,
         (mine'.profile = mine.profile /\ job[j].op = "accept") \/ ~mine'.profile,
         job' \in [Job -> JobRecord], \A k \in Job : k # j => job'[k] = job[k],
         JobFits(j)', ~Drawing(j)', job'[j].op = "accept" => job[j].op = "accept",
         job'[j].dev \in {None, job[j].dev}
           \/ (mine.pending # None /\ job'[j].dev = mine.pending.device)
  PROVE  MemberInv'
<1> USE MembershipAssumption
<1>0. /\ OwnDevice' = OwnDevice /\ MemberTypes /\ Copy /\ Desk /\ Registered
      /\ RegisteredKeepsKeys /\ OneAccept
      /\ LastHour \in Nat
      /\ \A k \in Job : JobFits(k) /\ OnlyHere(k) /\ job[k] \in JobRecord
  BY DEF OwnDevice, MemberInv, MemberTypes
<1>1. MemberTypes'
  BY <1>0 DEF MemberTypes
<1>2. Copy' /\ Registered'
  BY <1>0 DEF Copy, Registered
<1>3. Desk'
  <2>1. mine'.profile => mine.profile
    OBVIOUS
  <2> QED
    BY <1>0, <2>1 DEF Desk
<1>4. RegisteredKeepsKeys'
  BY <1>0 DEF RegisteredKeepsKeys
<1>5. OneAccept'
  BY <1>0 DEF OneAccept
<1>6. ASSUME NEW k \in Job PROVE JobFits(k)'
  <2>1. CASE k = j
    BY <2>1
  <2>2. CASE k # j
    <3>1. job'[k] = job[k]
      BY <2>2
    <3>2. job[k].op = "accept" => ~mine'.profile
      BY <1>0, <2>2 DEF OneAccept
    <3> QED
      BY <1>0, <3>1, <3>2 DEF JobFits, Reads, Speaks, AsksFor, GivesUp
  <2> QED
    BY <2>1, <2>2
<1>7. ASSUME NEW k \in Job PROVE OnlyHere(k)'
  <2>1. CASE k = j
    BY <2>1 DEF OnlyHere
  <2>2. CASE k # j /\ Drawing(k)
    BY <1>0, <2>2 DEF OnlyHere, Drawing, JobFits, Speaks, NamedAt
  <2>3. CASE k # j /\ ~Drawing(k)
    BY <2>3 DEF OnlyHere, Drawing
  <2> QED
    BY <2>1, <2>2, <2>3
<1> QED
  BY <1>1, <1>2, <1>3, <1>4, <1>5, <1>6, <1>7 DEF MemberInv

\* Commands that end, at will or in a crash, or whose acceptance is refused; an acceptance
\* that ends although its device is still written down spoils the invitation.
LEMMA CommandsEnd ==
  ASSUME MemberInv, UNCHANGED <<site, mine, keys, drawn, hour>>,
         spoiled' \in BOOLEAN, spoiled => spoiled',
         job' \in [Job -> JobRecord],
         \A k \in Job :
           \/ job'[k] = job[k]
           \/ /\ job'[k].op = "none" /\ job'[k].at = "idle" /\ job'[k].dev = None
              /\ job[k].at = "finish" => spoiled'
           \/ /\ spoiled' /\ job[k].op = "accept" /\ job[k].at = "ask"
              /\ job'[k].op = "accept" /\ job'[k].at = "drop" /\ job'[k].dev = job[k].dev
  PROVE  MemberInv'
<1> USE MembershipAssumption
<1>0. /\ OwnDevice' = OwnDevice /\ MemberTypes /\ Copy /\ Desk /\ Registered
      /\ RegisteredKeepsKeys /\ OneAccept
      /\ LastHour \in Nat
      /\ \A k \in Job : JobFits(k) /\ OnlyHere(k) /\ job[k] \in JobRecord
  BY DEF OwnDevice, MemberInv, MemberTypes
<1>1. MemberTypes'
  BY <1>0 DEF MemberTypes
<1>2. Copy' /\ Registered'
  BY <1>0 DEF Copy, Registered
<1>3. Desk'
  <2>1. \A k \in Job : At(k, {"accept"}, "finish") => spoiled' \/ job'[k] = job[k]
    BY DEF At
  <2> QED
    BY <1>0, <2>1 DEF Desk, At
<1>4. RegisteredKeepsKeys'
  BY <1>0 DEF RegisteredKeepsKeys
<1>5. OneAccept'
  <2>1. \A k \in Job : job'[k].op = "accept" => job[k].op = "accept"
    OBVIOUS
  <2> QED
    BY <1>0, <2>1 DEF OneAccept
<1>6. ASSUME NEW k \in Job PROVE JobFits(k)'
  <2>1. CASE job'[k] = job[k]
    BY <1>0, <2>1 DEF JobFits, Reads, Speaks, AsksFor, GivesUp
  <2>2. CASE job'[k].op = "none" /\ job'[k].at = "idle" /\ job'[k].dev = None
    BY <1>0, <2>2 DEF JobFits, Reads, Speaks, AsksFor, GivesUp, NamedAt
  <2>3. CASE /\ spoiled' /\ job[k].op = "accept" /\ job[k].at = "ask"
             /\ job'[k].op = "accept" /\ job'[k].at = "drop" /\ job'[k].dev = job[k].dev
    BY <1>0, <2>3 DEF JobFits, Reads, Speaks, AsksFor, GivesUp, NamedAt
  <2> QED
    BY <2>1, <2>2, <2>3
<1>7. ASSUME NEW k \in Job PROVE OnlyHere(k)'
  <2>1. Drawing(k)' => job'[k] = job[k]
    BY DEF Drawing
  <2>2. \A i \in Job : job'[i].dev \in {None, job[i].dev}
    OBVIOUS
  <2>3. Drawing(k) => job[k].dev # None
    BY <1>0 DEF Drawing, JobFits, Speaks, NamedAt
  <2> QED
    BY <1>0, <2>1, <2>2, <2>3 DEF OnlyHere, Drawing
<1> QED
  BY <1>1, <1>2, <1>3, <1>4, <1>5, <1>6, <1>7 DEF MemberInv

LEMMA HourPassesKeeps == ASSUME MemberInv, HourPasses PROVE MemberInv'
<1> USE MembershipAssumption
<1>0. /\ OwnDevice' = OwnDevice /\ MemberTypes /\ Copy /\ Desk /\ Registered
      /\ RegisteredKeepsKeys /\ OneAccept
      /\ hour \in Nat /\ LastHour \in Nat
      /\ \A k \in Job : JobFits(k) /\ OnlyHere(k) /\ job[k] \in JobRecord
  BY DEF OwnDevice, MemberInv, MemberTypes, HourPasses
<1>1. hour' \in 0..LastHour /\ UNCHANGED <<site, mine, keys, drawn, job, spoiled>>
  BY <1>0 DEF HourPasses
<1>2. \A n \in Nat : hour >= n => hour' >= n
  BY <1>0 DEF HourPasses
<1>3. hour' < InvitationLife => hour < InvitationLife
  BY <1>0 DEF HourPasses
<1>4. MemberTypes' /\ Copy' /\ Registered' /\ OneAccept'
  BY <1>0, <1>1 DEF MemberTypes, Copy, Registered, OneAccept
<1>5. Desk' /\ RegisteredKeepsKeys'
  BY <1>0, <1>1, <1>3 DEF Desk, RegisteredKeepsKeys, At
<1>6. ASSUME NEW k \in Job PROVE JobFits(k)' /\ OnlyHere(k)'
  BY <1>0, <1>1, <1>2 DEF JobFits, Reads, Speaks, AsksFor, GivesUp, OnlyHere, Drawing
<1> QED
  BY <1>4, <1>5, <1>6 DEF MemberInv

LEMMA CrashKeeps == ASSUME MemberInv, Crash PROVE MemberInv'
<1>1. \A k \in Job : job'[k] = Rest
  BY DEF Crash
<1>2. job' \in [Job -> JobRecord] /\ spoiled' \in BOOLEAN /\ (spoiled => spoiled')
  BY RestIsJob DEF Crash, MemberInv, MemberTypes
<1>3. \A k \in Job : job[k].at = "finish" => spoiled'
  BY DEF Crash
<1> QED
  BY <1>1, <1>2, <1>3, RestIsJob, CommandsEnd DEF Crash

LEMMA FinishAcceptKeeps == ASSUME MemberInv, NEW j \in Job, FinishAccept(j) PROVE MemberInv'
<1>0. /\ MemberTypes /\ Ends(j) /\ UNCHANGED <<site, keys, drawn, hour>>
      /\ job[j].op = "accept"
  BY DEF MemberInv, FinishAccept, At
<1>1. /\ job' \in [Job -> JobRecord] /\ \A k \in Job : k # j => job'[k] = job[k]
      /\ job'[j].op = "none" /\ job'[j].at = "idle" /\ job'[j].dev = None
  BY <1>0, JobEnds DEF MemberTypes
<1>2. CASE spoiled' = TRUE /\ UNCHANGED mine
  BY <1>0, <1>1, <1>2, CommandsEnd DEF MemberTypes
<1>3. CASE mine' = [mine EXCEPT !.pending = None] /\ UNCHANGED spoiled
  <2>1. /\ mine' \in MineRecord /\ mine'.workspace = mine.workspace /\ mine'.bound = mine.bound
        /\ mine'.pending = None /\ mine'.profile = mine.profile
    BY <1>0, <1>3 DEF MemberTypes, MineRecord
  <2>2. JobFits(j)' /\ ~Drawing(j)'
    BY <1>1 DEF JobFits, Reads, Speaks, AsksFor, GivesUp, NamedAt, Drawing
  <2>3. job'[j].op # "accept"
    BY <1>1
  <2> QED
    BY <1>0, <1>1, <1>3, <2>1, <2>2, <2>3, PendingGoes
<1> QED
  BY <1>2, <1>3 DEF FinishAccept

\* The keys that an acceptance gives up.
LEMMA GivenUpNotNeeded ==
  ASSUME MemberInv, NEW j \in Job, job[j].op = "accept", job[j].at \in {"purgeKeys", "dropKeys"}
  PROVE  NotNeeded(job[j].dev)
<1>1. /\ MemberTypes /\ JobFits(j) /\ job[j] \in JobRecord
      /\ job[j].dev # None
  BY DEF MemberInv, MemberTypes, JobFits, Speaks, NamedAt
<1> QED
  BY <1>1 DEF NotNeeded, JobFits, AsksFor, GivesUp

LEMMA PurgeKeysKeeps ==
  ASSUME MemberInv, NEW j \in Job, PurgeKeys(j) \/ DropPendingKeys(j)
  PROVE  MemberInv'
<1>0. /\ MemberTypes /\ job[j].op = "accept" /\ job[j].at \in {"purgeKeys", "dropKeys"}
      /\ keys' = keys \ {job[j].dev} /\ UNCHANGED <<site, mine, drawn, hour, spoiled>>
      /\ With(j, "find", None) \/ Ends(j)
  BY DEF MemberInv, PurgeKeys, DropPendingKeys, DropKeys, At, Remote
<1>1. NotNeeded(job[j].dev)
  BY <1>0, GivenUpNotNeeded
<1>2. CASE With(j, "find", None)
  <2>1. /\ job' \in [Job -> JobRecord] /\ \A k \in Job : k # j => job'[k] = job[k]
        /\ job'[j].op = job[j].op /\ job'[j].at = "find" /\ job'[j].dev = None
    BY <1>0, <1>2, JobWith DEF MemberTypes, PlaceName
  <2> QED
    BY <1>0, <1>1, <2>1, KeysGo
<1>3. CASE Ends(j)
  <2>1. /\ job' \in [Job -> JobRecord] /\ \A k \in Job : k # j => job'[k] = job[k]
        /\ job'[j].op = "none" /\ job'[j].at = "idle" /\ job'[j].dev = None
    BY <1>0, <1>3, JobEnds DEF MemberTypes
  <2> QED
    BY <1>0, <1>1, <2>1, KeysGo
<1> QED
  BY <1>0, <1>2, <1>3

LEMMA RemoveKeysKeeps ==
  ASSUME MemberInv, NEW j \in Job, RemoveKeys(j)
  PROVE  MemberInv'
<1>0. /\ MemberTypes /\ Desk /\ JobFits(j) /\ job[j].op = "delete" /\ job[j].at = "unkey"
      /\ keys' = keys \ {job[j].dev} /\ UNCHANGED <<site, mine, drawn, hour, spoiled>>
      /\ Ends(j)
  BY DEF MemberInv, RemoveKeys, DropKeys, At, Remote
<1>1. NotNeeded(job[j].dev)
  BY <1>0 DEF NotNeeded, JobFits, GivesUp, Desk
<1>2. /\ job' \in [Job -> JobRecord] /\ \A k \in Job : k # j => job'[k] = job[k]
      /\ job'[j].op = "none" /\ job'[j].at = "idle" /\ job'[j].dev = None
  BY <1>0, JobEnds DEF MemberTypes
<1> QED
  BY <1>0, <1>1, <1>2, KeysGo

\* The device that is written down is not yet the workspace's, or the invitation is spoiled,
\* while the acceptance has not come to its end.
LEMMA PendingIsNotOwn ==
  ASSUME MemberInv, NEW j \in Job, job[j].op = "accept", job[j].at # "finish", mine.pending # None
  PROVE  spoiled \/ mine.pending.device # OwnDevice
BY DEF MemberInv, Desk, OneAccept, At

LEMMA PurgePendingKeeps ==
  ASSUME MemberInv, NEW j \in Job, PurgePending(j)
  PROVE  MemberInv'
<1> USE MembershipAssumption
<1>0. /\ MemberTypes /\ JobFits(j) /\ OnlyHere(j) /\ Desk /\ job[j].op = "accept" /\ job[j].at = "purge"
      /\ UNCHANGED <<site, keys, drawn, hour, spoiled>>
      /\ mine \in MineRecord /\ hour \in Nat
  BY DEF MemberInv, MemberTypes, PurgePending, At, Remote
<1>1. CASE mine' = mine /\ Goes(j, "find")
  <2>1. /\ job' \in [Job -> JobRecord] /\ \A k \in Job : k # j => job'[k] = job[k]
        /\ job'[j].op = "accept" /\ job'[j].at = "find" /\ job'[j].dev = job[j].dev
    BY <1>0, <1>1, JobGoes DEF MemberTypes, PlaceName
  <2>2. JobFits(j)'
    BY <1>0, <1>1, <2>1 DEF JobFits, Reads, Speaks, AsksFor, GivesUp, NamedAt, OwnDevice
  <2>3. Moved(j)
    BY <1>0, <2>1, <2>2 DEF Moved, Drawing
  <2> QED
    BY <1>0, <1>1, <2>1, <2>3, MemberMoves
<1>2. CASE /\ mine.pending # None /\ Expired(mine.pending)
           /\ mine' = [mine EXCEPT !.pending = None] /\ With(j, "purgeKeys", mine.pending.device)
  <2>1. /\ mine.pending.device \in Fresh /\ mine.pending.device # None
        /\ mine.pending.born \in Nat /\ hour >= InvitationLife
    <3>1. mine.pending \in PendingRecord
      BY <1>0, <1>2 DEF MineRecord
    <3>2. mine.pending.born \in Nat
      BY <3>1 DEF PendingRecord
    <3>3. hour >= InvitationLife
      BY <1>0, <1>2, <3>2 DEF Expired
    <3> QED
      BY <3>1, <3>2, <3>3 DEF PendingRecord
  <2>2. /\ job' \in [Job -> JobRecord] /\ \A k \in Job : k # j => job'[k] = job[k]
        /\ job'[j].op = "accept" /\ job'[j].at = "purgeKeys" /\ job'[j].dev = mine.pending.device
    BY <1>0, <1>2, <2>1, JobWith DEF MemberTypes, PlaceName, NamedAt
  <2>3. /\ mine' \in MineRecord /\ mine'.workspace = mine.workspace /\ mine'.bound = mine.bound
        /\ mine'.pending = None /\ mine'.profile = mine.profile
    BY <1>0, <1>2 DEF MineRecord
  <2>4. spoiled \/ mine.pending.device # OwnDevice
    BY <1>0, <1>2, PendingIsNotOwn
  <2>5. mine.pending.device \in drawn
    BY <1>0, <1>2 DEF Desk, MemberTypes
  <2>6. JobFits(j)'
    BY <1>0, <2>1, <2>2, <2>3, <2>4, <2>5 DEF JobFits, Reads, Speaks, AsksFor, GivesUp, OwnDevice
  <2>7. ~Drawing(j)'
    BY <2>2 DEF Drawing
  <2> QED
    BY <1>0, <1>2, <2>2, <2>3, <2>6, <2>7, PendingGoes
<1> QED
  BY <1>1, <1>2 DEF PurgePending

LEMMA DropPendingKeeps ==
  ASSUME MemberInv, NEW j \in Job, DropPending(j)
  PROVE  MemberInv'
<1>0. /\ MemberTypes /\ JobFits(j) /\ job[j].op = "accept" /\ job[j].at = "drop"
      /\ UNCHANGED <<site, keys, drawn, hour, spoiled>> /\ Goes(j, "dropKeys")
      /\ mine \in MineRecord /\ mine' = [mine EXCEPT !.pending = None]
  BY DEF MemberInv, MemberTypes, DropPending, At, Remote
<1>1. /\ job' \in [Job -> JobRecord] /\ \A k \in Job : k # j => job'[k] = job[k]
      /\ job'[j].op = "accept" /\ job'[j].at = "dropKeys" /\ job'[j].dev = job[j].dev
  BY <1>0, JobGoes DEF MemberTypes, PlaceName, NamedAt
<1>2. /\ mine' \in MineRecord /\ mine'.workspace = mine.workspace /\ mine'.bound = mine.bound
      /\ mine'.pending = None /\ mine'.profile = mine.profile
  BY <1>0 DEF MineRecord
<1>3. JobFits(j)'
  BY <1>0, <1>1, <1>2 DEF JobFits, Reads, Speaks, AsksFor, GivesUp, NamedAt, OwnDevice
<1>4. ~Drawing(j)'
  BY <1>1 DEF Drawing
<1> QED
  BY <1>0, <1>1, <1>2, <1>3, <1>4, PendingGoes

LEMMA RemoveProfileKeeps ==
  ASSUME MemberInv, NEW j \in Job, RemoveProfile(j)
  PROVE  MemberInv'
<1>0. /\ MemberTypes /\ JobFits(j) /\ job[j].op = "delete" /\ job[j].at = "remove"
      /\ UNCHANGED <<site, keys, drawn, hour, spoiled>>
      /\ mine \in MineRecord
  BY DEF MemberInv, MemberTypes, RemoveProfile, At, Remote
<1>1. CASE Ends(j) /\ UNCHANGED mine
  <2>1. /\ job' \in [Job -> JobRecord] /\ \A k \in Job : k # j => job'[k] = job[k]
        /\ job'[j].op = "none" /\ job'[j].at = "idle" /\ job'[j].dev = None
    BY <1>0, <1>1, JobEnds DEF MemberTypes
  <2> QED
    BY <1>0, <1>1, <2>1, CommandsEnd DEF MemberTypes
<1>2. CASE mine' = [mine EXCEPT !.profile = FALSE, !.pending = None] /\ Goes(j, "unkey")
  <2>1. /\ job' \in [Job -> JobRecord] /\ \A k \in Job : k # j => job'[k] = job[k]
        /\ job'[j].op = "delete" /\ job'[j].at = "unkey" /\ job'[j].dev = job[j].dev
    BY <1>0, <1>2, JobGoes DEF MemberTypes, PlaceName
  <2>2. /\ mine' \in MineRecord /\ mine'.workspace = mine.workspace /\ mine'.bound = mine.bound
        /\ mine'.pending = None /\ ~mine'.profile
    BY <1>0, <1>2 DEF MineRecord
  <2>3. JobFits(j)'
    BY <1>0, <2>1, <2>2 DEF JobFits, Reads, Speaks, AsksFor, GivesUp, NamedAt, OwnDevice
  <2>4. ~Drawing(j)'
    BY <2>1 DEF Drawing
  <2> QED
    BY <1>0, <2>1, <2>2, <2>3, <2>4, PendingGoes
<1> QED
  BY <1>1, <1>2 DEF RemoveProfile

LEMMA FindPendingKeeps ==
  ASSUME MemberInv, NEW j \in Job, FindPending(j)
  PROVE  MemberInv'
<1> USE MembershipAssumption
<1>0. /\ MemberTypes /\ JobFits(j) /\ Desk /\ job[j].op = "accept" /\ job[j].at = "find"
      /\ mine \in MineRecord
  BY DEF MemberInv, MemberTypes, FindPending, At
<1>1. CASE mine.pending = None
  BY <1>0, <1>1, DrawKeysKeeps DEF FindPending
<1>2. CASE mine.pending # None
  <2>1. With(j, "ask", mine.pending.device) /\ UNCHANGED <<mine, keys, drawn, site, hour, spoiled>>
    BY <1>2 DEF FindPending, Remote
  <2>2. mine.pending.device \in Fresh /\ mine.pending.device # None /\ mine.pending.device \in drawn
    BY <1>0, <1>2 DEF MineRecord, PendingRecord, Desk, MemberTypes
  <2>3. /\ job' \in [Job -> JobRecord] /\ \A k \in Job : k # j => job'[k] = job[k]
        /\ job'[j].op = "accept" /\ job'[j].at = "ask" /\ job'[j].dev = mine.pending.device
    BY <1>0, <2>1, <2>2, JobWith DEF MemberTypes, PlaceName, NamedAt
  <2>4. spoiled \/ mine.pending.device # OwnDevice
    BY <1>0, <1>2, PendingIsNotOwn
  <2>5. JobFits(j)'
    BY <1>0, <1>2, <2>1, <2>2, <2>3, <2>4 DEF JobFits, Reads, Speaks, AsksFor, GivesUp, OwnDevice
  <2>6. Moved(j)
    BY <1>0, <1>2, <2>3, <2>5 DEF Moved, Drawing
  <2> QED
    BY <2>1, <2>3, <2>6, MemberMoves
<1> QED
  BY <1>1, <1>2

LEMMA NotePendingKeeps ==
  ASSUME MemberInv, NEW j \in Job, NotePending(j)
  PROVE  MemberInv'
<1> USE MembershipAssumption
<1>0. /\ MemberTypes /\ Copy /\ Desk /\ Registered
      /\ RegisteredKeepsKeys /\ OneAccept
      /\ LastHour \in Nat
      /\ \A k \in Job : JobFits(k) /\ OnlyHere(k) /\ job[k] \in JobRecord
  BY DEF MemberInv, MemberTypes
<1> DEFINE d == job[j].dev
<1>1. /\ d \in Fresh /\ d # None /\ d \in drawn /\ d \in keys /\ d \notin site.roster /\ d # OwnDevice
      /\ mine.pending # None => mine.pending.device # d
      /\ \A k \in Job \ {j} : job[k].dev # d
      /\ Drawing(j) /\ job[j].op = "accept" /\ job[j].at = "note"
  BY <1>0 DEF NotePending, At, OnlyHere, Drawing, JobFits, Speaks, NamedAt, JobRecord
<1>2. CASE DropKeys(j, d)
  <2>1. NotNeeded(d)
    BY <1>1 DEF NotNeeded
  <2>2. /\ keys' = keys \ {d} /\ Ends(j) /\ UNCHANGED <<site, mine, drawn, hour, spoiled>>
    BY <1>2 DEF DropKeys, Remote
  <2>3. /\ job' \in [Job -> JobRecord] /\ \A k \in Job : k # j => job'[k] = job[k]
        /\ job'[j].op = "none" /\ job'[j].at = "idle" /\ job'[j].dev = None
    BY <1>0, <2>2, JobEnds DEF MemberTypes
  <2> QED
    BY <1>1, <2>1, <2>2, <2>3, KeysGo
<1>3. CASE /\ mine.pending = None /\ mine.profile
           /\ mine' = [mine EXCEPT !.pending = [device |-> d, born |-> hour]]
           /\ Goes(j, "ask") /\ UNCHANGED <<keys, drawn, Remote>>
  <2> DEFINE p == [device |-> d, born |-> hour]
  <2>1. p \in PendingRecord /\ p.device = d /\ p # None
    BY <1>0, <1>1 DEF PendingRecord, MemberTypes
  <2>2. mine' = [mine EXCEPT !.pending = p] /\ mine.profile
    BY <1>3
  <2> HIDE DEF p
  <2>3. /\ mine' \in MineRecord /\ mine'.workspace = mine.workspace /\ mine'.bound = mine.bound
        /\ mine'.pending = p /\ mine'.profile = mine.profile /\ OwnDevice' = OwnDevice
    BY <1>0, <2>1, <2>2 DEF MineRecord, MemberTypes, OwnDevice
  <2>4. /\ job' \in [Job -> JobRecord] /\ \A k \in Job : k # j => job'[k] = job[k]
        /\ job'[j].op = "accept" /\ job'[j].at = "ask" /\ job'[j].dev = d
    BY <1>0, <1>1, <1>3, JobGoes DEF MemberTypes, PlaceName, NamedAt
  <2>5. UNCHANGED <<site, keys, drawn, hour, spoiled>>
    BY <1>3 DEF Remote
  <2> HIDE DEF d
  <2>6. MemberTypes'
    BY <1>0, <2>3, <2>4, <2>5 DEF MemberTypes
  <2>7. Copy' /\ Registered' /\ OneAccept'
    BY <1>0, <1>1, <2>3, <2>4, <2>5 DEF Copy, Registered, OneAccept
  <2>8. Desk' /\ RegisteredKeepsKeys'
    BY <1>0, <1>1, <2>1, <2>2, <2>3, <2>5 DEF Desk, RegisteredKeepsKeys
  <2>9. ASSUME NEW k \in Job PROVE JobFits(k)' /\ OnlyHere(k)'
    <3>1. CASE k = j
      BY <1>1, <2>1, <2>3, <2>4, <2>5, <3>1 DEF JobFits, Reads, Speaks, AsksFor, GivesUp, OnlyHere, Drawing
    <3>2. CASE k # j
      <4>1. job'[k] = job[k] /\ job[k].op # "accept" /\ job[k].dev # d
        BY <1>0, <1>1, <2>4, <3>2 DEF OneAccept
      <4>2. JobFits(k)'
        BY <1>0, <2>3, <2>5, <4>1 DEF JobFits, Reads, Speaks, AsksFor, GivesUp
      <4>3. OnlyHere(k)'
        BY <1>0, <1>1, <2>1, <2>3, <2>4, <2>5, <4>1 DEF OnlyHere, Drawing
      <4> QED
        BY <4>2, <4>3
    <3> QED
      BY <3>1, <3>2
  <2> QED
    BY <2>6, <2>7, <2>8, <2>9 DEF MemberInv
<1> QED
  BY <1>2, <1>3 DEF NotePending

\* A snapshot is applied: the workspace of this device, or one that was not here yet.
LEMMA ApplyKeeps ==
  ASSUME MemberInv, NEW j \in Job, Apply(j)
  PROVE  MemberInv'
<1> USE MembershipAssumption
<1>0. /\ MemberTypes /\ Copy /\ Desk /\ Registered
      /\ RegisteredKeepsKeys /\ OneAccept
      /\ LastHour \in Nat /\ mine \in MineRecord
      /\ \A k \in Job : JobFits(k) /\ OnlyHere(k) /\ job[k] \in JobRecord
      /\ UNCHANGED <<site, keys, drawn, hour, spoiled>> /\ job[j].at = "apply"
  BY DEF MemberInv, MemberTypes, Apply, Remote
<1>1. CASE Ends(j) /\ UNCHANGED mine
  <2>1. /\ job' \in [Job -> JobRecord] /\ \A k \in Job : k # j => job'[k] = job[k]
        /\ job'[j].op = "none" /\ job'[j].at = "idle" /\ job'[j].dev = None
    BY <1>0, <1>1, JobEnds DEF MemberTypes
  <2> QED
    BY <1>0, <1>1, <2>1, CommandsEnd DEF MemberTypes
<1> DEFINE d == job[j].dev
           w == [here |-> TRUE, device |-> d, epoch |-> job[j].epoch, roster |-> job[j].roster]
<1>2. CASE /\ Applies(j) /\ mine' = [mine EXCEPT !.bound = TRUE, !.workspace = w]
           /\ IF job[j].op = "accept" THEN Goes(j, "finish") ELSE Ends(j)
  <2>1. /\ d \in Fresh /\ d # None /\ d \in drawn /\ job[j].epoch <= site.epoch
        /\ job[j].epoch = site.epoch => job[j].roster = site.roster
    BY <1>0 DEF JobFits, Reads, Speaks, NamedAt, JobRecord
  <2>2. \/ job[j].op = "accept" /\ ~mine.workspace.here /\ mine.profile
        \/ job[j].op # "accept" /\ OwnDevice = d
    BY <1>2 DEF Applies, OwnDevice
  <2>3. w \in WorkspaceRecord /\ w.here /\ w.device = d /\ w.epoch = job[j].epoch
          /\ w.roster = job[j].roster
    BY <1>0, <2>1 DEF WorkspaceRecord, JobRecord
  <2>4. mine' = [mine EXCEPT !.bound = TRUE, !.workspace = w]
    BY <1>2
  <2> HIDE DEF w
  <2>5. /\ mine' \in MineRecord /\ mine'.workspace = w /\ mine'.bound
        /\ mine'.pending = mine.pending /\ mine'.profile = mine.profile /\ OwnDevice' = d
    BY <1>0, <2>3, <2>4 DEF MineRecord, OwnDevice
  <2>6. /\ job' \in [Job -> JobRecord] /\ \A k \in Job : k # j => job'[k] = job[k]
        /\ \/ job[j].op = "accept" /\ job'[j].op = "accept" /\ job'[j].at = "finish" /\ job'[j].dev = d
           \/ /\ job[j].op # "accept"
              /\ job'[j].op = "none" /\ job'[j].at = "idle" /\ job'[j].dev = None
    <3>1. CASE job[j].op = "accept"
      BY <1>0, <1>2, <3>1, JobGoes DEF MemberTypes, PlaceName, NamedAt
    <3>2. CASE job[j].op # "accept"
      BY <1>0, <1>2, <3>2, JobEnds DEF MemberTypes
    <3> QED
      BY <3>1, <3>2
  <2> HIDE DEF d
  <2>7. OwnDevice = None \/ OwnDevice = d
    BY <1>0, <2>2 DEF Desk
  <2>8. d \in keys \/ spoiled \/ ~mine.profile
    <3>1. CASE job[j].op = "accept"
      BY <1>0, <3>1 DEF JobFits, AsksFor, Desk, d
    <3>2. CASE OwnDevice = d
      BY <1>0, <2>1, <3>2 DEF Desk
    <3> QED
      BY <2>2, <3>1, <3>2
  <2>9. MemberTypes'
    BY <1>0, <2>5, <2>6 DEF MemberTypes
  <2>10. Copy'
    BY <1>0, <2>1, <2>3, <2>5 DEF Copy
  <2>11. Registered' /\ OneAccept'
    <3>1. Registered'
      BY <1>0, <2>5, <2>7 DEF Registered
    <3>2. OneAccept'
      <4>1. \A k \in Job : job'[k].op = "accept" => job[k].op = "accept"
        BY <2>6
      <4> QED
        BY <1>0, <4>1 DEF OneAccept
    <3> QED
      BY <3>1, <3>2
  <2>12. Desk'
    <3>1. mine.pending # None /\ mine.pending.device = d =>
            spoiled \/ \E k \in Job : At(k, {"accept"}, "finish")'
      <4>1. CASE job[j].op = "accept"
        BY <2>6, <4>1 DEF At
      <4>2. CASE job[j].op # "accept"
        <5>1. \A k \in Job : At(k, {"accept"}, "finish") => job'[k] = job[k]
          BY <2>6, <4>2 DEF At
        <5> QED
          BY <1>0, <2>2, <4>2, <5>1 DEF Desk, At
      <4> QED
        BY <4>1, <4>2
    <3> QED
      BY <1>0, <2>1, <2>3, <2>5, <2>8, <3>1 DEF Desk
  <2>13. RegisteredKeepsKeys'
    BY <1>0, <2>3, <2>5, <2>8 DEF RegisteredKeepsKeys
  <2>14. ASSUME NEW k \in Job PROVE JobFits(k)' /\ OnlyHere(k)'
    <3>1. CASE k = j
      BY <1>0, <2>1, <2>5, <2>6, <3>1 DEF JobFits, Reads, Speaks, AsksFor, GivesUp, OnlyHere, Drawing, NamedAt
    <3>2. CASE k # j
      <4>1. job'[k] = job[k] /\ (job[k].op = "accept" => job[j].op # "accept")
        BY <1>0, <2>6, <3>2 DEF OneAccept
      <4>2. job[k].op = "accept" => OwnDevice = d
        BY <2>2, <4>1
      <4>3. job[k].op \in {"publish", "sync", "request"} => OwnDevice = d
        BY <1>0, <2>7 DEF JobFits, Speaks
      <4>4. mine'.workspace.here
        BY <2>3, <2>5
      <4>5. JobFits(k)'
        BY <1>0, <2>5, <4>1, <4>2, <4>3, <4>4 DEF JobFits, Reads, Speaks, AsksFor, GivesUp
      <4>6. OnlyHere(k)'
        BY <1>0, <2>1, <2>5, <2>6, <3>2, <4>1 DEF OnlyHere, Drawing, JobFits, Speaks, NamedAt, d
      <4> QED
        BY <4>5, <4>6
    <3> QED
      BY <3>1, <3>2
  <2> QED
    BY <2>9, <2>10, <2>11, <2>12, <2>13, <2>14 DEF MemberInv
<1> QED
  BY <1>1, <1>2 DEF Apply

\* A command that has ended fits whatever the state.
LEMMA EndMoves ==
  ASSUME MemberInv, NEW j \in Job, job[j].at # "finish", Ends(j)
  PROVE  /\ job' \in [Job -> JobRecord] /\ \A k \in Job : job'[k] = job[k] \/ k = j
         /\ Moved(j)
<1>1. /\ job' \in [Job -> JobRecord] /\ \A k \in Job : k # j => job'[k] = job[k]
      /\ job'[j].op = "none" /\ job'[j].at = "idle" /\ job'[j].dev = None
  BY JobEnds DEF MemberInv, MemberTypes
<1>2. JobFits(j)'
  BY <1>1 DEF JobFits, Reads, Speaks, AsksFor, GivesUp, NamedAt
<1> QED
  BY <1>1, <1>2 DEF Moved, Drawing

\* A command that goes on with the device it has.
PlainAt ==
    {"find", "bootstrap", "ensure", "challenge", "session", "request", "first", "remove"}

LEMMA GoMoves ==
  ASSUME MemberInv, NEW j \in Job, NEW at \in PlainAt, Goes(j, at),
         UNCHANGED <<mine, keys, drawn, hour, spoiled>>,
         job[j].at \in NamedAt \ {"finish", "purgeKeys", "dropKeys"},
         job[j].op = "accept" =>
           job[j].at \in {"ask", "drop", "challenge", "session", "first", "second", "apply"}
  PROVE  /\ job' \in [Job -> JobRecord] /\ \A k \in Job : job'[k] = job[k] \/ k = j
         /\ Moved(j)
<1>0. MemberTypes /\ JobFits(j) /\ job[j] \in JobRecord
  BY DEF MemberInv, MemberTypes
<1>1. /\ job' \in [Job -> JobRecord] /\ \A k \in Job : k # j => job'[k] = job[k]
      /\ job'[j].op = job[j].op /\ job'[j].at = at /\ job'[j].dev = job[j].dev
  BY <1>0, JobGoes DEF MemberTypes, PlainAt, PlaceName, NamedAt
<1>2. Reads(j)' /\ GivesUp(j)'
  BY <1>1 DEF Reads, GivesUp, PlainAt
<1>3. Speaks(j)' /\ AsksFor(j)'
  BY <1>0, <1>1 DEF JobFits, Speaks, AsksFor, PlainAt, NamedAt, OwnDevice
<1>4. JobFits(j)'
  BY <1>2, <1>3 DEF JobFits
<1> QED
  BY <1>1, <1>4 DEF Moved, Drawing, PlainAt

\* The commands begin with no device or with that of the workspace.
LEMMA BeginMoves ==
  ASSUME MemberInv, NEW j \in Job, UserCommand(j)
  PROVE  MemberInv'
<1>0. /\ MemberTypes /\ Desk /\ job[j] = Rest /\ UNCHANGED <<site, mine, keys, drawn, hour, spoiled>>
      /\ OwnDevice \in Fresh \union {None}
  BY DEF UserCommand, EnsureDevice, Publish, Accept, DeleteProfile, Bound, Begin, Local,
         MemberInv, MemberTypes, MineRecord, WorkspaceRecord, OwnDevice
<1> SUFFICES Moved(j) /\ job' \in [Job -> JobRecord] /\ \A k \in Job : k # j => job'[k] = job[k]
  BY <1>0, MemberMoves
<1>1. job[j].op = "none" /\ job[j].at = "idle" /\ job[j].dev = None
  BY <1>0, RestIsJob
<1>2. ASSUME NEW op \in {"device", "accept", "delete"}, NEW at \in {"make", "purge", "list"},
             op = "device" => mine.workspace.here,
             op = "accept" => \A k \in Job : job[k].op # "accept",
             Begin(j, op, at)
      PROVE  Moved(j) /\ job' \in [Job -> JobRecord] /\ \A k \in Job : k # j => job'[k] = job[k]
  <2> DEFINE x == [Rest EXCEPT !.op = op, !.at = at]
  <2>1. job' = [job EXCEPT ![j] = x]
    BY <1>2 DEF Begin
  <2>2. x \in JobRecord /\ x.op = op /\ x.at = at /\ x.dev = None
    BY DEF Rest, JobRecord, OpName, PlaceName
  <2> HIDE DEF x
  <2>3. /\ job' \in [Job -> JobRecord] /\ \A k \in Job : k # j => job'[k] = job[k]
        /\ job'[j].op = op /\ job'[j].at = at /\ job'[j].dev = None
    BY <1>0, <2>1, <2>2, JobChanges DEF MemberTypes
  <2>4. JobFits(j)'
    BY <1>0, <1>2, <2>3 DEF JobFits, Reads, Speaks, AsksFor, GivesUp, NamedAt
  <2> QED
    BY <1>1, <1>2, <2>3, <2>4 DEF Moved, Drawing
<1>3. ASSUME NEW op \in {"publish", "sync", "request"}, NEW at \in {"bootstrap", "ensure"},
             OwnDevice # None,
             job' = [job EXCEPT ![j] = [Rest EXCEPT !.op = op, !.at = at, !.dev = OwnDevice]]
      PROVE  Moved(j) /\ job' \in [Job -> JobRecord] /\ \A k \in Job : k # j => job'[k] = job[k]
  <2>1. op \in OpName /\ at \in PlaceName
    BY DEF OpName, PlaceName, NamedAt
  <2>2. /\ job' \in [Job -> JobRecord] /\ \A k \in Job : k # j => job'[k] = job[k]
        /\ job'[j].op = op /\ job'[j].at = at /\ job'[j].dev = OwnDevice
    BY <1>0, <1>3, <2>1, JobBegins DEF MemberTypes
  <2>3. JobFits(j)'
    BY <1>0, <1>3, <2>2 DEF JobFits, Reads, Speaks, AsksFor, GivesUp, Desk, OwnDevice
  <2> QED
    BY <1>1, <2>2, <2>3 DEF Moved, Drawing
<1>4. CASE EnsureDevice(j)
  BY <1>2, <1>4 DEF EnsureDevice
<1>5. CASE Publish(j)
  BY <1>3, <1>5 DEF Publish, OwnDevice
<1>6. CASE Accept(j)
  BY <1>2, <1>6 DEF Accept
<1>7. CASE DeleteProfile(j)
  BY <1>2, <1>7 DEF DeleteProfile
<1>8. CASE \E op \in {"sync", "request"} : Bound(j, op)
  BY <1>3, <1>8 DEF Bound, OwnDevice
<1> QED
  BY <1>4, <1>5, <1>6, <1>7, <1>8 DEF UserCommand

\* What the relay answers, and what is lost on the way.
LEMMA AskKeeps ==
  ASSUME MemberInv, NEW j \in Job,
         AskAccepted(j) \/ AskRefused(j) \/ AccountRefused(j) \/ Bootstrap(j)
  PROVE  MemberInv'
<1> USE MembershipAssumption
<1>0. /\ MemberTypes /\ JobFits(j) /\ Desk /\ Registered /\ OneAccept /\ job[j] \in JobRecord
      /\ site \in SiteRecord /\ LastEpoch \in Nat \ {0} /\ site.epoch \in 0..(LastEpoch + 1)
  BY DEF MemberInv, MemberTypes, SiteRecord
<1> DEFINE d == job[j].dev
<1>1. CASE AskAccepted(j)
  <2>1. /\ job[j].op = "accept" /\ job[j].at = "ask" /\ d \in Fresh
        /\ UNCHANGED <<mine, keys, drawn, hour, spoiled>> /\ (Goes(j, "first") \/ Ends(j))
    BY <1>0, <1>1 DEF AskAccepted, At, Answered, Local, JobFits, Speaks, NamedAt, JobRecord
  <2>2. /\ job' \in [Job -> JobRecord] /\ \A k \in Job : job'[k] = job[k] \/ k = j
        /\ Moved(j)
    BY <2>1, EndMoves, GoMoves DEF PlainAt, NamedAt
  <2>3. site' = site \/ SiteGrows(j)
    <3>1. CASE site.accepted = d
      BY <1>1, <3>1 DEF AskAccepted, Enrol
    <3>2. CASE site.accepted # d
      <4>1. /\ site' = [epoch |-> site.epoch + 1, roster |-> site.roster \union {d}, accepted |-> d]
            /\ site.accepted = None /\ Peer \in site.roster
        BY <1>1, <3>2 DEF AskAccepted, Enrol, Welcome
      <4>2. site.epoch <= LastEpoch
        BY <1>0, <4>1 DEF MemberTypes
      <4>3. site' \in SiteRecord /\ site'.epoch > site.epoch /\ site'.accepted # None
        BY <1>0, <2>1, <4>1, <4>2 DEF SiteRecord, SiteDevice
      <4> HIDE DEF d
      <4>4. \A e \in Fresh \cap site'.roster : e = d \/ (e \in site.roster /\ site.accepted # e)
        BY <4>1
      <4>5. Peer \in site'.roster /\ site'.accepted = d
        BY <4>1
      <4> QED
        BY <2>1, <4>3, <4>4, <4>5 DEF SiteGrows, At, d
    <3> QED
      BY <3>1, <3>2
  <2> QED
    BY <2>1, <2>2, <2>3, MemberMoves
<1>2. CASE AskRefused(j)
  <2>1. /\ job[j].op = "accept" /\ job[j].at = "ask" /\ d \in Fresh /\ ~Welcome(d)
        /\ UNCHANGED <<site, mine, keys, drawn, hour, spoiled>> /\ (Goes(j, "drop") \/ Ends(j))
    BY <1>0, <1>2 DEF AskRefused, At, Answered, Local, JobFits, Speaks, NamedAt, JobRecord
  <2>2. CASE Ends(j)
    BY <2>1, <2>2, EndMoves, MemberMoves
  <2>3. CASE Goes(j, "drop")
    <3>1. /\ job' \in [Job -> JobRecord] /\ \A k \in Job : k # j => job'[k] = job[k]
          /\ job'[j].op = "accept" /\ job'[j].at = "drop" /\ job'[j].dev = d
      BY <1>0, <2>1, <2>3, JobGoes DEF MemberTypes, PlaceName, NamedAt
    <3>2. spoiled \/ d \notin site.roster \/ hour >= InvitationLife
      <4>1. spoiled \/ d # OwnDevice
        BY <1>0, <2>1 DEF JobFits, AsksFor
      <4>2. hour \in Nat
        BY <1>0 DEF MemberTypes
      <4> QED
        BY <1>0, <2>1, <4>1, <4>2 DEF Registered, Welcome
    <3>3. JobFits(j)'
      BY <1>0, <2>1, <3>1, <3>2 DEF JobFits, Reads, Speaks, AsksFor, GivesUp, NamedAt, OwnDevice
    <3>4. Moved(j)
      BY <2>1, <3>1, <3>3 DEF Moved, Drawing
    <3> QED
      BY <2>1, <3>1, <3>4, MemberMoves
  <2> QED
    BY <2>1, <2>2, <2>3
<1>3. CASE AccountRefused(j)
  <2>1. /\ job[j].op = "accept" /\ job[j].at = "ask" /\ Goes(j, "drop") /\ spoiled' = TRUE
        /\ UNCHANGED <<site, mine, keys, drawn, hour>>
    BY <1>3 DEF AccountRefused, At
  <2>2. /\ job' \in [Job -> JobRecord] /\ \A k \in Job : k # j => job'[k] = job[k]
        /\ job'[j].op = "accept" /\ job'[j].at = "drop" /\ job'[j].dev = d
    BY <1>0, <2>1, JobGoes DEF MemberTypes, PlaceName, NamedAt
  <2> QED
    BY <2>1, <2>2, CommandsEnd
<1>4. CASE Bootstrap(j)
  <2>1. /\ job[j].op = "publish" /\ job[j].at = "bootstrap" /\ d \in Fresh /\ d = OwnDevice
        /\ UNCHANGED <<mine, keys, drawn, hour, spoiled>>
        /\ (Goes(j, "first") \/ Goes(j, "challenge") \/ Ends(j))
    BY <1>0, <1>4 DEF Bootstrap, At, Answered, Local, JobFits, Speaks, NamedAt, JobRecord
  <2>2. /\ job' \in [Job -> JobRecord] /\ \A k \in Job : job'[k] = job[k] \/ k = j
        /\ Moved(j)
    BY <2>1, EndMoves, GoMoves DEF PlainAt, NamedAt
  <2>3. site' = site \/ SiteGrows(j)
    <3>1. CASE site.epoch # 0
      BY <1>4, <3>1 DEF Bootstrap
    <3>2. CASE site.epoch = 0
      <4>1. site' = [site EXCEPT !.epoch = 1, !.roster = {d}]
        BY <1>4, <3>2 DEF Bootstrap
      <4>2. /\ site' \in SiteRecord /\ site'.epoch = 1 /\ site'.roster = {d}
            /\ site'.epoch > site.epoch /\ site'.epoch <= LastEpoch
        <5>1. 1 \in 0..(LastEpoch + 1) /\ 1 <= LastEpoch /\ {d} \in SUBSET SiteDevice
          BY <1>0, <2>1 DEF SiteDevice
        <5>2. site'.epoch = 1 /\ site'.roster = {d} /\ site' \in SiteRecord
          BY <1>0, <4>1, <5>1 DEF SiteRecord
        <5>3. site'.epoch > site.epoch /\ site'.epoch <= LastEpoch
          BY <3>2, <5>1, <5>2
        <5> QED
          BY <5>2, <5>3
      <4> QED
        BY <2>1, <4>2 DEF SiteGrows
    <3> QED
      BY <3>1, <3>2
  <2> QED
    BY <2>1, <2>2, <2>3, MemberMoves
<1> QED
  BY <1>1, <1>2, <1>3, <1>4

LEMMA SessionKeeps ==
  ASSUME MemberInv, NEW j \in Job,
         RequestLost(j) \/ Ensure(j) \/ Challenge(j) \/ CreateSession(j) \/ ListPending(j)
  PROVE  MemberInv'
<1> USE MembershipAssumption
<1>0. /\ MemberTypes /\ JobFits(j) /\ Desk /\ job[j] \in JobRecord
      /\ UNCHANGED <<site, mine, keys, drawn, hour, spoiled>>
  BY DEF MemberInv, MemberTypes, RequestLost, Ensure, Challenge, CreateSession, ListPending, Local
<1>1. CASE RequestLost(j) \/ Ensure(j) \/ Challenge(j) \/ CreateSession(j)
  <2>1. CASE Ends(j)
    <3>1. job[j].at # "finish"
      BY <1>1 DEF RequestLost, Ensure, Challenge, CreateSession, At
    <3> QED
      BY <1>0, <2>1, <3>1, EndMoves, MemberMoves
  <2>2. ASSUME NEW at \in {"request", "challenge", "session", "first"}, Goes(j, at),
               Ensure(j) \/ Challenge(j) \/ CreateSession(j)
        PROVE  MemberInv'
    <3>1. /\ job[j].at \in {"ensure", "challenge", "session"}
          /\ job[j].op = "accept" => job[j].at # "ensure"
      BY <2>2 DEF Ensure, Challenge, CreateSession, At
    <3>2. /\ job' \in [Job -> JobRecord] /\ \A k \in Job : job'[k] = job[k] \/ k = j
          /\ Moved(j)
      BY <1>0, <2>2, <3>1, GoMoves DEF PlainAt, NamedAt
    <3> QED
      BY <1>0, <3>2, MemberMoves
  <2> QED
    BY <1>1, <2>1, <2>2 DEF RequestLost, Ensure, Challenge, CreateSession
<1>2. CASE ListPending(j)
  <2> DEFINE d == IF mine.pending = None THEN None ELSE mine.pending.device
  <2>1. d \in Fresh \union {None} /\ (d # None => d \in drawn)
    BY <1>0 DEF MemberTypes, MineRecord, PendingRecord, Desk
  <2>2. job[j].op = "delete" /\ job[j].at = "list" /\ With(j, "remove", d)
    BY <1>2 DEF ListPending, At
  <2>3. d = None \/ (mine.pending # None /\ d = mine.pending.device)
    OBVIOUS
  <2> HIDE DEF d
  <2>4. /\ job' \in [Job -> JobRecord] /\ \A k \in Job : k # j => job'[k] = job[k]
        /\ job'[j].op = "delete" /\ job'[j].at = "remove" /\ job'[j].dev = d
    BY <1>0, <2>1, <2>2, JobWith DEF MemberTypes, PlaceName
  <2>5. JobFits(j)'
    BY <1>0, <2>1, <2>4 DEF JobFits, Reads, Speaks, AsksFor, GivesUp, NamedAt
  <2>6. Moved(j)
    BY <2>2, <2>3, <2>4, <2>5 DEF Moved, Drawing
  <2> QED
    BY <1>0, <2>4, <2>6, MemberMoves
<1> QED
  BY <1>1, <1>2

\* The roster changes at the relay, by this desktop or by others.
LEMMA RosterGrows ==
  ASSUME MemberInv, NEW j, NEW roster \in SUBSET SiteDevice, site.epoch < LastEpoch,
         \A d \in Fresh \cap roster : d \in site.roster,
         Peer \in site.roster => Peer \in roster,
         site' = [site EXCEPT !.epoch = @ + 1, !.roster = roster]
  PROVE  SiteGrows(j)
<1> USE MembershipAssumption
<1>0. site \in SiteRecord /\ site.epoch \in 0..(LastEpoch + 1) /\ LastEpoch \in Nat
  BY DEF MemberInv, MemberTypes, SiteRecord
<1>1. /\ site' \in SiteRecord /\ site'.epoch = site.epoch + 1 /\ site'.roster = roster
      /\ site'.accepted = site.accepted /\ site'.epoch <= LastEpoch /\ site'.epoch > site.epoch
  <2> DEFINE n == site.epoch + 1
  <2>1. n \in 0..(LastEpoch + 1) /\ n <= LastEpoch /\ n > site.epoch
    BY <1>0
  <2>2. site' = [site EXCEPT !.epoch = n, !.roster = roster]
    BY <1>0 DEF SiteRecord
  <2> HIDE DEF n
  <2>3. /\ site' \in SiteRecord /\ site'.epoch = n /\ site'.roster = roster
        /\ site'.accepted = site.accepted
    BY <1>0, <2>1, <2>2 DEF SiteRecord
  <2> QED
    BY <2>1, <2>3 DEF n
<1> QED
  BY <1>1 DEF SiteGrows

LEMMA RequestKeeps ==
  ASSUME MemberInv, NEW j \in Job, Request(j)
  PROVE  MemberInv'
<1> USE MembershipAssumption
<1>0. /\ MemberTypes /\ JobFits(j) /\ job[j] \in JobRecord /\ site \in SiteRecord
      /\ UNCHANGED <<mine, keys, drawn, hour, spoiled>> /\ job[j].at = "request"
  BY DEF MemberInv, MemberTypes, Request, Local
<1>1. CASE job[j].op = "sync" /\ Goes(j, "first") /\ UNCHANGED site
  <2>1. /\ job' \in [Job -> JobRecord] /\ \A k \in Job : job'[k] = job[k] \/ k = j
        /\ Moved(j)
    BY <1>0, <1>1, GoMoves DEF PlainAt, NamedAt
  <2> QED
    BY <1>0, <1>1, <2>1, MemberMoves
<1>2. CASE job[j].op = "request" /\ Ends(j) /\ UNCHANGED site
  BY <1>0, <1>2, EndMoves, MemberMoves
<1>3. CASE /\ job[j].op = "request" /\ job[j].dev \in site.roster /\ site.epoch < LastEpoch
           /\ site' = [site EXCEPT !.epoch = @ + 1,
                         !.roster = IF Other \in @ THEN @ \ {Other} ELSE @ \union {Other}]
           /\ job' = [job EXCEPT ![j].op = "sync", ![j].at = "ensure"]
  <2> DEFINE x == [job[j] EXCEPT !.op = "sync", !.at = "ensure"]
             roster == IF Other \in site.roster THEN site.roster \ {Other}
                       ELSE site.roster \union {Other}
  <2>1. x \in JobRecord /\ x.op = "sync" /\ x.at = "ensure" /\ x.dev = job[j].dev
    BY <1>0 DEF JobRecord, OpName, PlaceName, NamedAt
  <2>2. job' = [job EXCEPT ![j] = x]
    BY <1>3
  <2> HIDE DEF x
  <2>3. /\ job' \in [Job -> JobRecord] /\ \A k \in Job : k # j => job'[k] = job[k]
        /\ job'[j].op = "sync" /\ job'[j].at = "ensure" /\ job'[j].dev = job[j].dev
    BY <1>0, <2>1, <2>2, JobChanges DEF MemberTypes
  <2>4. JobFits(j)'
    BY <1>0, <1>3, <2>3 DEF JobFits, Reads, Speaks, AsksFor, GivesUp, NamedAt, OwnDevice
  <2>5. Moved(j)
    BY <1>0, <2>3, <2>4 DEF Moved, Drawing
  <2>6. roster \in SUBSET SiteDevice /\ (\A d \in Fresh \cap roster : d \in site.roster)
          /\ (Peer \in site.roster => Peer \in roster)
    BY <1>0 DEF SiteRecord, SiteDevice
  <2>7. site' = [site EXCEPT !.epoch = @ + 1, !.roster = roster]
    BY <1>0, <1>3 DEF SiteRecord
  <2> HIDE DEF roster
  <2>8. SiteGrows(j)
    BY <1>3, <2>6, <2>7, RosterGrows
  <2> QED
    BY <1>0, <2>3, <2>5, <2>8, MemberMoves
<1> QED
  BY <1>1, <1>2, <1>3 DEF Request

LEMMA OthersChangeKeeps == ASSUME MemberInv, OthersChange PROVE MemberInv'
<1> USE MembershipAssumption
<1>0. /\ MemberTypes /\ site \in SiteRecord /\ site.epoch < LastEpoch
      /\ UNCHANGED <<job, mine, keys, drawn, hour, spoiled>>
  BY DEF MemberInv, MemberTypes, OthersChange, Local
<1>1. PICK roster \in {site.roster \union {Other}} \union {site.roster \ {d} : d \in site.roster \ {Peer}} :
        site' = [site EXCEPT !.epoch = @ + 1, !.roster = roster]
  BY DEF OthersChange
<1>2. roster \in SUBSET SiteDevice /\ (\A d \in Fresh \cap roster : d \in site.roster)
        /\ (Peer \in site.roster => Peer \in roster)
  BY <1>0 DEF SiteRecord, SiteDevice
<1>3. SiteGrows(None)
  BY <1>0, <1>1, <1>2, RosterGrows
<1>4. job' \in [Job -> JobRecord]
  BY <1>0 DEF MemberTypes
<1> QED
  BY <1>0, <1>3, <1>4, MemberMoves

(***************************************************************************)
(* A snapshot: the epoch first, then the roster.                           *)
(***************************************************************************)
LEMMA ReadKeeps ==
  ASSUME MemberInv, NEW j \in Job, ReadFirst(j) \/ ReadSecond(j)
  PROVE  MemberInv'
<1> USE MembershipAssumption
<1>0. /\ MemberTypes /\ JobFits(j) /\ job[j] \in JobRecord /\ site \in SiteRecord
      /\ UNCHANGED <<site, mine, keys, drawn, hour, spoiled>>
      /\ job[j].at \in {"first", "second"} /\ site.epoch \in Nat /\ site.roster \in SUBSET SiteDevice
  BY DEF MemberInv, MemberTypes, ReadFirst, ReadSecond, Local, SiteRecord
<1>1. CASE Ends(j)
  BY <1>0, <1>1, EndMoves, MemberMoves
<1>2. CASE job[j].at = "first" /\ job' = [job EXCEPT ![j] = [ReadPart(j, ReadOrder[1]) EXCEPT !.at = "second"]]
  <2> DEFINE x == [job[j] EXCEPT !.epoch = site.epoch, !.at = "second"]
  <2>1. /\ x \in JobRecord /\ x.op = job[j].op /\ x.at = "second" /\ x.dev = job[j].dev
        /\ x.epoch = site.epoch
    BY <1>0 DEF JobRecord, PlaceName, NamedAt
  <2>2. job' = [job EXCEPT ![j] = x]
    <3>1. ReadOrder[1] = "epoch"
      BY DEF ReadOrder
    <3> QED
      BY <1>2, <3>1 DEF ReadPart
  <2> HIDE DEF x
  <2>3. /\ job' \in [Job -> JobRecord] /\ job'[j] = x /\ \A k \in Job : k # j => job'[k] = job[k]
    BY <1>0, <2>1, <2>2, JobChanges DEF MemberTypes
  <2>4. JobFits(j)'
    <3>1. /\ job'[j].op = job[j].op /\ job'[j].at = "second" /\ job'[j].dev = job[j].dev
          /\ job'[j].epoch = site.epoch
      BY <2>1, <2>3
    <3>2. Reads(j)'
      BY <1>0, <1>2, <3>1 DEF JobFits, Reads
    <3>3. Speaks(j)' /\ GivesUp(j)'
      BY <1>0, <1>2, <3>1 DEF JobFits, Speaks, GivesUp, NamedAt, OwnDevice
    <3>4. AsksFor(j)'
      BY <1>0, <1>2, <3>1 DEF JobFits, AsksFor, OwnDevice
    <3> QED
      BY <3>2, <3>3, <3>4 DEF JobFits
  <2>5. Moved(j)
    BY <1>0, <2>1, <2>3, <2>4 DEF Moved, Drawing
  <2> QED
    BY <1>0, <2>3, <2>5, MemberMoves
<1>3. CASE job[j].at = "second" /\ job' = [job EXCEPT ![j] = [ReadPart(j, ReadOrder[2]) EXCEPT !.at = "apply"]]
  <2> DEFINE x == [job[j] EXCEPT !.roster = site.roster, !.at = "apply"]
  <2>1. /\ x \in JobRecord /\ x.op = job[j].op /\ x.at = "apply" /\ x.dev = job[j].dev
        /\ x.epoch = job[j].epoch /\ x.roster = site.roster
    BY <1>0 DEF JobRecord, PlaceName, NamedAt
  <2>2. job' = [job EXCEPT ![j] = x]
    <3>1. ReadOrder[2] = "roster"
      BY DEF ReadOrder
    <3> QED
      BY <1>3, <3>1 DEF ReadPart
  <2> HIDE DEF x
  <2>3. /\ job' \in [Job -> JobRecord] /\ job'[j] = x /\ \A k \in Job : k # j => job'[k] = job[k]
    BY <1>0, <2>1, <2>2, JobChanges DEF MemberTypes
  <2>4. JobFits(j)'
    <3>1. /\ job'[j].op = job[j].op /\ job'[j].at = "apply" /\ job'[j].dev = job[j].dev
          /\ job'[j].epoch = job[j].epoch /\ job'[j].roster = site.roster
      BY <2>1, <2>3
    <3>2. Reads(j)'
      BY <1>0, <1>3, <3>1 DEF JobFits, Reads
    <3>3. Speaks(j)' /\ GivesUp(j)'
      BY <1>0, <1>3, <3>1 DEF JobFits, Speaks, GivesUp, NamedAt, OwnDevice
    <3>4. AsksFor(j)'
      BY <1>0, <1>3, <3>1 DEF JobFits, AsksFor, OwnDevice
    <3> QED
      BY <3>2, <3>3, <3>4 DEF JobFits
  <2>5. Moved(j)
    BY <1>0, <2>1, <2>3, <2>4 DEF Moved, Drawing
  <2> QED
    BY <1>0, <2>3, <2>5, MemberMoves
<1> QED
  BY <1>1, <1>2, <1>3 DEF ReadFirst, ReadSecond

LEMMA MemberStarts == MembershipInit => MemberInv
<1> USE MembershipAssumption
<1> SUFFICES ASSUME MembershipInit PROVE MemberInv
  OBVIOUS
<1>1. PICK own \in BOOLEAN :
          /\ site = [epoch |-> IF own THEN 0 ELSE 1, roster |-> IF own THEN {} ELSE {Peer},
                     accepted |-> None]
          /\ mine = [profile |-> TRUE, bound |-> FALSE, pending |-> None,
                     workspace |-> IF own THEN [NoWorkspace EXCEPT !.here = TRUE, !.epoch = 1]
                                   ELSE NoWorkspace]
  BY DEF MembershipInit
<1>2. /\ keys = {} /\ drawn = {} /\ hour = 0 /\ spoiled = FALSE /\ job = [j \in Job |-> Rest]
  BY DEF MembershipInit
<1>3. mine \in MineRecord /\ ~mine.bound /\ mine.pending = None /\ OwnDevice = None
  <2>1. mine.workspace \in WorkspaceRecord /\ mine.workspace.device = None
    BY <1>1 DEF NoWorkspace, WorkspaceRecord
  <2> QED
    BY <1>1, <2>1 DEF MineRecord, OwnDevice
<1>4. /\ site \in SiteRecord /\ site.epoch <= LastEpoch /\ Fresh \cap site.roster = {}
  BY <1>1 DEF SiteRecord, SiteDevice
<1>5. \A j \in Job : job[j] = Rest
  BY <1>2
<1>6. MemberTypes
  <2>1. job \in [Job -> JobRecord]
    BY <1>2, RestIsJob
  <2>2. hour \in 0..LastHour
    BY <1>2
  <2> QED
    BY <1>2, <1>3, <1>4, <2>1, <2>2 DEF MemberTypes
<1>7. Copy /\ Desk /\ Registered /\ RegisteredKeepsKeys
  BY <1>3, <1>4 DEF Copy, Desk, Registered, RegisteredKeepsKeys
<1>8. \A j \in Job : JobFits(j) /\ OnlyHere(j)
  BY <1>5, RestIsJob DEF JobFits, Reads, Speaks, AsksFor, GivesUp, NamedAt, OnlyHere, Drawing
<1>9. OneAccept
  BY <1>5, RestIsJob DEF OneAccept
<1> QED
  BY <1>6, <1>7, <1>8, <1>9 DEF MemberInv

LEMMA MakeDeviceKeeps == ASSUME MemberInv, NEW j \in Job, MakeDevice(j) PROVE MemberInv'
BY DrawKeysKeeps DEF MakeDevice, At

\* What a command does next keeps the invariant, wherever it is.
LEMMA MemberStepKeeps == ASSUME MemberInv, [MembershipNext]_membershipVars PROVE MemberInv'
<1>1. CASE UNCHANGED membershipVars
  <2>1. job' \in [Job -> JobRecord] /\ UNCHANGED <<site, mine, keys, drawn, job, hour, spoiled>>
    BY <1>1 DEF membershipVars, MemberInv, MemberTypes
  <2> QED
    BY <2>1, MemberMoves
<1>2. ASSUME NEW j \in Job, UserCommand(j) PROVE MemberInv'
  BY <1>2, BeginMoves
<1>3. ASSUME NEW j \in Job, Step(j) PROVE MemberInv'
  <2>1. CASE MakeDevice(j) \/ InsertDevice(j)
    BY <2>1, MakeDeviceKeeps, InsertDeviceKeeps
  <2>2. CASE PurgePending(j) \/ PurgeKeys(j) \/ FindPending(j) \/ NotePending(j)
    BY <2>2, PurgePendingKeeps, PurgeKeysKeeps, FindPendingKeeps, NotePendingKeeps
  <2>3. CASE DropPending(j) \/ DropPendingKeys(j)
    BY <2>3, DropPendingKeeps, PurgeKeysKeeps
  <2>4. CASE AskAccepted(j) \/ AskRefused(j) \/ AccountRefused(j) \/ Bootstrap(j)
    BY <2>4, AskKeeps
  <2>5. CASE RequestLost(j) \/ Ensure(j) \/ Challenge(j) \/ CreateSession(j) \/ ListPending(j)
    BY <2>5, SessionKeeps
  <2>6. CASE Request(j) \/ ReadFirst(j) \/ ReadSecond(j)
    BY <2>6, RequestKeeps, ReadKeeps
  <2>7. CASE Apply(j) \/ FinishAccept(j)
    BY <2>7, ApplyKeeps, FinishAcceptKeeps
  <2>8. CASE RemoveProfile(j) \/ RemoveKeys(j)
    BY <2>8, RemoveProfileKeeps, RemoveKeysKeeps
  <2> QED
    BY <1>3, <2>1, <2>2, <2>3, <2>4, <2>5, <2>6, <2>7, <2>8 DEF Step
<1>4. CASE OthersChange \/ HourPasses \/ Crash
  BY <1>4, OthersChangeKeeps, HourPassesKeeps, CrashKeeps
<1> QED
  BY <1>1, <1>2, <1>3, <1>4 DEF MembershipNext

\* team_relay.rs and team_share.rs against store.rs: the invariant, for any number of devices,
\* commands and hours, with requests and answers lost at any point.
THEOREM MemberInvHolds == MembershipSpec => []MemberInv
<1>1. MembershipInit => MemberInv
  BY MemberStarts
<1>2. MemberInv /\ [MembershipNext]_membershipVars => MemberInv'
  BY MemberStepKeeps
<1> QED
  BY <1>1, <1>2, PTL DEF MembershipSpec

\* The records of the relay, the desk and its commands keep their shape.
THEOREM MembershipTypeCorrect == MembershipSpec => []MembershipTypeOK
<1>1. MemberInv => MembershipTypeOK
  <2> SUFFICES ASSUME MemberInv PROVE MembershipTypeOK
    OBVIOUS
  <2>1. MemberTypes
    BY DEF MemberInv
  <2>2. mine.pending # None => mine.pending \in PendingRecord
    BY <2>1 DEF MemberTypes, MineRecord
  <2> QED
    BY <2>1, <2>2 DEF MemberTypes, SiteRecord, SiteDevice, MineRecord, PendingRecord, JobRecord,
                      MembershipTypeOK
<1> QED
  BY <1>1, MemberInvHolds, PTL

\* workspace_snapshot and accept_invitation: the desktop's roster is the relay's if the epochs
\* are, and a device that the relay has registered has its keys here.
THEOREM MemberAgreesWithRelayHolds == MembershipSpec => []MemberAgreesWithRelay
<1>1. MemberInv => MemberAgreesWithRelay
  BY DEF MemberInv, Copy, MemberAgreesWithRelay, RosterMatchesEpoch
<1> QED
  BY <1>1, MemberInvHolds, PTL
-----------------------------------------------------------------------------
(***************************************************************************)
(* Sessions with a process or a server of their own (ChildSession).        *)
(***************************************************************************)
\* What a record of a session may be.
ChildTyped(c) == c \in
       [kind : Kind,
        peer : {"none", "running", "detached", "exited", "reaped"},
        well : BOOLEAN, held : BOOLEAN, listed : BOOLEAN, external : BOOLEAN, closing : BOOLEAN,
        finished : BOOLEAN,
        lock : {"free", "input", "reader"},
        reader : {"none", "reading", "waiting", "joining", "ending", "reporting", "done"},
        requested : BOOLEAN,
        close : {"idle", "found", "asked"},
        shown : {"none", "refused", "connecting", "online", "reconnecting", "closed", "failed"}]

\* In whatever order the process of a session, its thread, its input and its closing come, the
\* session stays in a known state of its process, its thread and its lock.
THEOREM ChildTypeCorrect == ChildInit /\ [][ChildNext]_childVars => []ChildTypeOK
<1>1. ChildInit => ChildTypeOK
  BY DEF ChildInit, ChildTypeOK, Kind
<1>2. ChildTypeOK /\ [ChildNext]_childVars => ChildTypeOK'
  <2> SUFFICES ASSUME ChildTypeOK, [ChildNext]_childVars PROVE ChildTypeOK'
    OBVIOUS
  <2> USE DEF ChildTypeOK, Becomes, Kind
  <2>1. CASE Open
    <3> DEFINE c == [child EXCEPT !.peer = "running", !.listed = TRUE]
    <3>1. CASE child.kind = "mosh"
      <4>1. child' = [c EXCEPT !.external = TRUE]
        BY <2>1, <3>1 DEF Open
      <4> QED  BY <4>1
    <3>2. CASE child.kind # "mosh"
      <4>1. PICK s \in {"connecting", "online"} : child' = [c EXCEPT !.reader = "reading", !.shown = s]
        BY <2>1, <3>2 DEF Open
      <4> QED  BY <4>1
    <3> QED  BY <3>1, <3>2
  <2>2. CASE PeerExits
    BY <2>2 DEF PeerExits
  <2>3. CASE LetsGo
    BY <2>3 DEF LetsGo
  <2>4. CASE Observe
    BY <2>4 DEF Observe
  <2>5. CASE SeeEnd
    BY <2>5 DEF SeeEnd
  <2>6. CASE WaitReturns
    BY <2>6 DEF WaitReturns
  <2>7. CASE ReadTimesOut
    BY <2>7 DEF ReadTimesOut
  <2>8. CASE EndFirst
    BY <2>8 DEF EndFirst
  <2>9. CASE ReportEnd
    <3> DEFINE wanted == IF child.kind \in {"local", "rdp"} THEN child.closing ELSE child.requested
               end == IF wanted \/ (child.kind # "telnet" /\ child.well) THEN "closed" ELSE "failed"
               told == [child EXCEPT !.reader = "done", !.requested = wanted, !.shown = end]
    <3>1. wanted \in BOOLEAN /\ end \in {"closed", "failed"}
      OBVIOUS
    <3>2. ChildTyped(told)
      <4>1. \A a \in BOOLEAN, s \in {"closed", "failed"} :
               ChildTyped([child EXCEPT !.reader = "done", !.requested = a, !.shown = s])
        BY DEF ChildTyped
      <4> HIDE DEF wanted, end
      <4> QED  BY <3>1, <4>1
    <3>3. CASE child.kind = "telnet"
      <4>1. child' = [told EXCEPT !.listed = FALSE]
        BY <2>9, <3>3 DEF ReportEnd
      <4> HIDE DEF wanted, end
      <4> HIDE DEF told
      <4> QED  BY <3>2, <4>1 DEF ChildTyped
    <3>4. CASE child.kind = "mosh"
      <4> DEFINE l == child.listed /\ ~wanted
                 e == child.external /\ ~wanted
      <4>1. child' = [told EXCEPT !.listed = l, !.external = e]
        BY <2>9, <3>4 DEF ReportEnd
      <4>2. l \in BOOLEAN /\ e \in BOOLEAN
        OBVIOUS
      <4> HIDE DEF wanted, end, l, e
      <4> HIDE DEF told
      <4> QED  BY <3>2, <4>1, <4>2 DEF ChildTyped
    <3>5. CASE child.kind \notin {"telnet", "mosh"}
      <4>1. child' = [told EXCEPT !.closing = FALSE]
        BY <2>9, <3>5 DEF ReportEnd
      <4> HIDE DEF wanted, end
      <4> HIDE DEF told
      <4> QED  BY <3>2, <4>1 DEF ChildTyped
    <3> QED  BY <3>3, <3>4, <3>5
  <2>10. CASE Input
    BY <2>10 DEF Input
  <2>11. CASE InputTaken
    BY <2>11 DEF InputTaken
  <2>12. CASE StartupWritten
    BY <2>12 DEF StartupWritten
  <2>13. CASE StartupFails
    BY <2>13 DEF StartupFails
  <2>14. CASE CloseFind
    <3>1. \/ child' = [child EXCEPT !.close = "found", !.listed = FALSE]
          \/ child' = [child EXCEPT !.listed = FALSE, !.closing = FALSE]
          \/ child' = [child EXCEPT !.close = "found"]
      BY <2>14 DEF CloseFind
    <3> QED  BY <3>1
  <2>15. CASE CloseMark
    BY <2>15 DEF CloseMark
  <2>16. CASE CloseKill
    BY <2>16 DEF CloseKill, Killed
  <2>17. CASE UNCHANGED childVars
    BY <2>17 DEF childVars
  <2>18. CASE StartsAnother
    BY <2>18 DEF StartsAnother
  <2>19. CASE OtherExits
    BY <2>19 DEF OtherExits
  <2>20. CASE JoinStderr
    BY <2>20 DEF JoinStderr
  <2>21. CASE PollFails
    BY <2>21 DEF PollFails
  <2> QED
    BY <2>1, <2>2, <2>3, <2>4, <2>5, <2>6, <2>7, <2>8, <2>9, <2>10, <2>11, <2>12, <2>13, <2>14, <2>15, <2>16,
       <2>17, <2>18, <2>19, <2>20, <2>21 DEF ChildNext
<1> QED  BY <1>1, <1>2, PTL
=============================================================================
