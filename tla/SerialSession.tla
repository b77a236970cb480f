---------------------------- MODULE SerialSession ----------------------------
(***************************************************************************)
(* A serial terminal and the file transfers on its line (serial.rs).  The  *)
(* reader thread owns the line and reads it in turns; a transfer claims    *)
(* transfer_active, waits until the reader says that it has paused, and    *)
(* works on a clone of the port.  The device may be pulled out: the reader *)
(* then opens it again after growing delays.  The blocks a transfer sends  *)
(* are the subject of BlockTransfer; here are the two ways it runs: X/Y    *)
(* modem in the thread itself, which reads and writes whole blocks and     *)
(* flushes after each, and Kermit in a helper process between two threads  *)
(* that carry its bytes.                                                   *)
(***************************************************************************)
EXTENDS Naturals, FiniteSets

CONSTANTS
    Transfer,           \* calls of serial_transfer_start
    Modem,              \* those for X/Ymodem; the others are for Kermit
    MaxReconnects       \* the number of RECONNECT_DELAYS

ASSUME ReconnectsAssumption == MaxReconnects \in Nat

VARIABLES
    line,       \* the SerialSession and its entries in the manager
    lineReader, \* the reader thread
    lineCloser, \* a call of close
    xfer        \* the transfers

serialVars == <<line, lineReader, lineCloser, xfer>>

Outcomes == {"refused", "completed", "failed", "cancelled"}

LineState ==
    [device : BOOLEAN,          \* plugged in
     listed : BOOLEAN, closing : BOOLEAN,
     port : BOOLEAN,            \* ManagedSerial::port is there
     active : BOOLEAN,          \* transfer_active
     paused : BOOLEAN,          \* reader_paused
     shown : {"online", "reconnecting", "closed", "failed"}]

ReaderState ==
    [at : {"top", "pausing", "paused", "resuming", "reading", "delay", "ending", "done"},
     live : BOOLEAN,            \* its handle is of the device as plugged in
     attempt : 0..MaxReconnects]

TransferState ==
    [at : {"none", "found", "claimed", "ready", "cloned", "running", "flushing", "joining",
           "finished", "done"},
     live : BOOLEAN, cancelled : BOOLEAN, mapped : BOOLEAN,
     status : {"none", "running"} \union Outcomes,
     helper : {"none", "running", "exited"},
     broken : BOOLEAN,                    \* bridge_error
     to : {"off", "moving", "blocked"},   \* cnshell-kermit-input
     from : {"off", "moving", "blocked"}] \* cnshell-kermit-output

SerialTypeOK ==
    /\ line \in LineState
    /\ lineReader \in ReaderState
    /\ lineCloser \in {"idle", "removed", "marked", "cancelled", "done"}
    /\ xfer \in [Transfer -> TransferState]

NewTransfer ==
    [at |-> "none", live |-> FALSE, cancelled |-> FALSE, mapped |-> FALSE,
     status |-> "none", helper |-> "none", broken |-> FALSE, to |-> "off", from |-> "off"]

SerialInit ==
    /\ line = [device |-> TRUE, listed |-> TRUE, closing |-> FALSE, port |-> TRUE,
               active |-> FALSE, paused |-> FALSE, shown |-> "online"]
    /\ lineReader = [at |-> "top", live |-> TRUE, attempt |-> 0]
    /\ lineCloser = "idle"
    /\ xfer = [t \in Transfer |-> NewTransfer]

Line(f, v) == line' = [line EXCEPT ![f] = v]
ReaderAt(p) == lineReader' = [lineReader EXCEPT !.at = p]
\* A step that changes transfer t, or nothing but it.
TransferIs(t, x) == xfer' = [xfer EXCEPT ![t] = x]
OnlyTransfer(t, x) == TransferIs(t, x) /\ UNCHANGED <<line, lineReader, lineCloser>>

-----------------------------------------------------------------------------
(***************************************************************************)
(* The device is pulled out, with every handle there is, or put back.      *)
(***************************************************************************)
Unplug ==
    /\ line.device /\ Line("device", FALSE)
    /\ lineReader' = [lineReader EXCEPT !.live = FALSE]
    /\ xfer' = [t \in Transfer |-> [xfer[t] EXCEPT !.live = FALSE]]
    /\ UNCHANGED lineCloser

Replug == ~line.device /\ Line("device", TRUE) /\ UNCHANGED <<lineReader, lineCloser, xfer>>

-----------------------------------------------------------------------------
(***************************************************************************)
(* The reader: stop for a close, pause for a transfer, or read once.       *)
(***************************************************************************)
\* Mutant: the pause over, the reader reads without another look.
ReadsOn == "reading"

AfterPause == "top"

Turn ==
    /\ lineReader.at = "top"
    /\ ReaderAt(IF line.closing THEN "ending" ELSE IF line.active THEN "pausing" ELSE "reading")
    /\ UNCHANGED <<line, lineCloser, xfer>>

Pause ==
    /\ lineReader.at = "pausing"
    /\ Line("paused", TRUE) /\ ReaderAt("paused") /\ UNCHANGED <<lineCloser, xfer>>

LeavePause ==
    /\ lineReader.at = "paused" /\ (~line.active \/ line.closing)
    /\ ReaderAt("resuming") /\ UNCHANGED <<line, lineCloser, xfer>>

Unpause ==
    /\ lineReader.at = "resuming"
    /\ Line("paused", FALSE) /\ ReaderAt(AfterPause) /\ UNCHANGED <<lineCloser, xfer>>

\* Bytes, or the time-out of 200 ms.
ReadReturns ==
    /\ lineReader.at = "reading" /\ lineReader.live
    /\ ReaderAt("top") /\ UNCHANGED <<line, lineCloser, xfer>>

\* Mutant: one more attempt than there are delays.
OneMoreDelay(n) == n <= MaxReconnects

DelaysLeft(n) == n < MaxReconnects

\* Without a delay left, as at the end of reconnect, the reader gives up.
NextDelay(n) ==
    IF DelaysLeft(n)
    THEN /\ lineReader' = [lineReader EXCEPT !.at = "delay", !.attempt = n + 1]
         /\ line' = [line EXCEPT !.port = @ /\ n > 0, !.shown = "reconnecting"]
    ELSE ReaderAt("ending") /\ line' = [line EXCEPT !.port = @ /\ n > 0]

ReadFails ==
    /\ lineReader.at = "reading" /\ ~lineReader.live
    /\ NextDelay(0) /\ UNCHANGED <<lineCloser, xfer>>

ReconnectCancelled ==
    /\ lineReader.at = "delay" /\ line.closing
    /\ ReaderAt("ending") /\ UNCHANGED <<line, lineCloser, xfer>>

\* The port is installed although a close may have taken the old one meanwhile.
Reopen ==
    /\ lineReader.at = "delay" /\ line.device
    /\ line' = [line EXCEPT !.port = TRUE, !.shown = "online"]
    /\ lineReader' = [at |-> "top", live |-> TRUE, attempt |-> 0]
    /\ UNCHANGED <<lineCloser, xfer>>

ReopenFails ==
    /\ lineReader.at = "delay"
    /\ NextDelay(lineReader.attempt) /\ UNCHANGED <<lineCloser, xfer>>

ReaderReports ==
    /\ lineReader.at = "ending" /\ ReaderAt("done")
    /\ line' = [line EXCEPT !.closing = FALSE, !.listed = FALSE,
                            !.shown = IF line.closing THEN "closed" ELSE "failed"]
    /\ UNCHANGED <<lineCloser, xfer>>

-----------------------------------------------------------------------------
(***************************************************************************)
(* transfer_start.                                                         *)
(***************************************************************************)
Find(t) ==
    /\ xfer[t].at = "none" /\ line.listed
    /\ OnlyTransfer(t, [xfer[t] EXCEPT !.at = "found"])

\* run_transfer looks at the flag once more when the protocol is over.
Over(t, s) ==
    [xfer[t] EXCEPT !.at = "finished", !.status = IF xfer[t].cancelled THEN "cancelled" ELSE s]

Refused(t) == [xfer[t] EXCEPT !.at = "done", !.status = "refused"]

Claim(t) ==
    /\ xfer[t].at = "found" /\ ~line.active
    /\ Line("active", TRUE) /\ TransferIs(t, [xfer[t] EXCEPT !.at = "claimed"])
    /\ UNCHANGED <<lineReader, lineCloser>>

ClaimFails(t) ==
    /\ xfer[t].at = "found" /\ line.active
    /\ OnlyTransfer(t, Refused(t))

SeePaused(t) ==
    /\ xfer[t].at = "claimed" /\ line.paused
    /\ OnlyTransfer(t, [xfer[t] EXCEPT !.at = "ready"])

\* Two seconds without a pause: the reader is reconnecting, or gone.
PauseTimesOut(t) ==
    /\ xfer[t].at = "claimed" /\ ~line.paused
    /\ Line("active", FALSE) /\ TransferIs(t, Refused(t)) /\ UNCHANGED <<lineReader, lineCloser>>

ClonePort(t) ==
    /\ xfer[t].at = "ready" /\ line.port
    /\ OnlyTransfer(t, [xfer[t] EXCEPT !.at = "cloned", !.live = line.device])

CloneFails(t) ==
    /\ xfer[t].at = "ready" /\ (~line.port \/ ~line.device)
    /\ Line("active", FALSE) /\ TransferIs(t, Refused(t)) /\ UNCHANGED <<lineReader, lineCloser>>

EnterMap(t) ==
    LET x == [xfer[t] EXCEPT !.at = "running", !.mapped = TRUE, !.status = "running"] IN
    /\ xfer[t].at = "cloned"
    /\ OnlyTransfer(t, IF t \in Modem THEN x
                       ELSE [x EXCEPT !.helper = "running", !.to = "moving", !.from = "moving"])

SpawnFails(t) ==
    /\ xfer[t].at = "cloned"
    /\ Line("active", FALSE) /\ TransferIs(t, Refused(t)) /\ UNCHANGED <<lineReader, lineCloser>>

-----------------------------------------------------------------------------
(***************************************************************************)
(* X/Ymodem.  CancellablePort answers a cancelled transfer with the error  *)
(* kind Interrupted, on which read_exact and write_all of the standard     *)
(* library try again: only a flush hands the cancellation on.              *)
(***************************************************************************)
ModemBlock(t) ==
    /\ t \in Modem /\ xfer[t].at = "running" /\ ~xfer[t].cancelled
    /\ OnlyTransfer(t, [xfer[t] EXCEPT !.at = "flushing"])

ModemFlush(t) ==
    /\ xfer[t].at = "flushing"
    /\ OnlyTransfer(t, IF xfer[t].cancelled THEN Over(t, "failed")
                       ELSE [xfer[t] EXCEPT !.at = "running"])

\* The last block, too many retries, or a cancellation by the device.
ModemEnds(t) ==
    /\ t \in Modem /\ xfer[t].at = "running" /\ ~xfer[t].cancelled
    /\ \E s \in {"completed", "failed"} :
          /\ s = "completed" => xfer[t].live
          /\ OnlyTransfer(t, Over(t, s))

(***************************************************************************)
(* Kermit: the transfer's thread polls the helper, which the two carriers  *)
(* feed and drain; a carrier that meets an error leaves it for the thread. *)
(***************************************************************************)
HelperExits(t) ==
    /\ xfer[t].helper = "running"
    /\ OnlyTransfer(t, [xfer[t] EXCEPT !.helper = "exited"])

\* Mutant: a cancellation is left to the carriers.
KillBroken(x) == x.broken

MustKill(x) == x.cancelled \/ x.broken

KillHelper(t) ==
    /\ xfer[t].helper = "running" /\ MustKill(xfer[t])
    /\ OnlyTransfer(t, [xfer[t] EXCEPT !.helper = "exited"])

NoticeExit(t) ==
    /\ t \notin Modem /\ xfer[t].at = "running" /\ xfer[t].helper = "exited"
    /\ OnlyTransfer(t, [xfer[t] EXCEPT !.at = "joining"])

\* The helper does not read what is written to it; it does, or is gone.
InputBlocks(t) ==
    /\ xfer[t].to = "moving" /\ xfer[t].helper = "running"
    /\ OnlyTransfer(t, [xfer[t] EXCEPT !.to = "blocked"])

InputMoves(t) ==
    /\ xfer[t].to = "blocked" /\ xfer[t].helper = "running"
    /\ OnlyTransfer(t, [xfer[t] EXCEPT !.to = "moving"])

InputEnds(t) ==
    LET x == xfer[t] IN
    /\ \/ x.to = "moving" /\ (x.cancelled \/ x.at = "joining" \/ ~x.live)
       \/ x.to = "blocked" /\ x.helper = "exited"
    /\ OnlyTransfer(t, [x EXCEPT !.to = "off", !.broken = @ \/ (x.to = "moving" /\ ~x.live)])

\* A flush waits until the line has taken all of it: for ever, where flow control holds it
\* back.  Then the carrier looks at the flags.
OutputBlocks(t) ==
    /\ xfer[t].from = "moving" /\ xfer[t].live
    /\ OnlyTransfer(t, [xfer[t] EXCEPT !.from = "blocked"])

OutputMoves(t) ==
    /\ xfer[t].from = "blocked"
    /\ OnlyTransfer(t, [xfer[t] EXCEPT !.from = IF xfer[t].cancelled \/ xfer[t].at = "joining"
                                               THEN "off" ELSE "moving"])

\* The output of the helper ends with it; what is left in the pipe when the
\* thread has noticed the exit is not carried.
OutputEnds(t) ==
    LET x == xfer[t] IN
    /\ x.from = "moving" /\ (x.helper = "exited" \/ ~x.live)
    /\ OnlyTransfer(t, [x EXCEPT !.from = "off", !.broken = @ \/ ~x.live])

Join(t) ==
    /\ xfer[t].at = "joining" /\ xfer[t].to = "off" /\ xfer[t].from = "off"
    /\ \E s \in {"completed", "failed"} :
          /\ s = "completed" => ~xfer[t].broken
          /\ OnlyTransfer(t, Over(t, s))

(***************************************************************************)
(* The line is given back before the transfer leaves the map.              *)
(***************************************************************************)
GiveBack(t) ==
    /\ xfer[t].at = "finished"
    /\ Line("active", FALSE) /\ TransferIs(t, [xfer[t] EXCEPT !.at = "done"])
    /\ UNCHANGED <<lineReader, lineCloser>>

LeaveMap(t) ==
    /\ xfer[t].at = "done" /\ xfer[t].mapped
    /\ OnlyTransfer(t, [xfer[t] EXCEPT !.mapped = FALSE])

\* transfer_cancel writes the status of whatever the map still holds.
CancelTransfer(t) ==
    /\ xfer[t].mapped
    /\ OnlyTransfer(t, [xfer[t] EXCEPT !.cancelled = TRUE, !.status = "cancelled"])

-----------------------------------------------------------------------------
(***************************************************************************)
(* close, a lock at a time.                                                *)
(***************************************************************************)
CloseRemove ==
    /\ lineCloser = "idle" /\ line.listed
    /\ lineCloser' = "removed" /\ Line("listed", FALSE) /\ UNCHANGED <<lineReader, xfer>>

MarkClosing ==
    /\ lineCloser = "removed"
    /\ lineCloser' = "marked" /\ Line("closing", TRUE) /\ UNCHANGED <<lineReader, xfer>>

CloseCancels ==
    /\ lineCloser = "marked" /\ lineCloser' = "cancelled"
    /\ xfer' = [t \in Transfer |-> [xfer[t] EXCEPT !.cancelled = @ \/ xfer[t].mapped]]
    /\ UNCHANGED <<line, lineReader>>

CloseTakes ==
    /\ lineCloser = "cancelled"
    /\ lineCloser' = "done" /\ Line("port", FALSE) /\ UNCHANGED <<lineReader, xfer>>

-----------------------------------------------------------------------------
SerialNext ==
    \/ Unplug \/ Replug
    \/ Turn \/ Pause \/ LeavePause \/ Unpause \/ ReadReturns \/ ReadFails
    \/ ReconnectCancelled \/ Reopen \/ ReopenFails \/ ReaderReports
    \/ \E t \in Transfer :
          \/ Find(t) \/ Claim(t) \/ ClaimFails(t) \/ SeePaused(t) \/ PauseTimesOut(t)
          \/ ClonePort(t) \/ CloneFails(t) \/ EnterMap(t) \/ SpawnFails(t)
          \/ ModemBlock(t) \/ ModemFlush(t) \/ ModemEnds(t)
          \/ HelperExits(t) \/ KillHelper(t) \/ NoticeExit(t)
          \/ InputBlocks(t) \/ InputMoves(t) \/ InputEnds(t)
          \/ OutputBlocks(t) \/ OutputMoves(t) \/ OutputEnds(t) \/ Join(t)
          \/ GiveBack(t) \/ LeaveMap(t) \/ CancelTransfer(t)
    \/ CloseRemove \/ MarkClosing \/ CloseCancels \/ CloseTakes

SerialSpec == SerialInit /\ [][SerialNext]_serialVars

(***************************************************************************)
(* Threads run on; a device need not answer or take what a carrier         *)
(* flushes, nor a helper read, write or exit.  That a flush of X/Ymodem    *)
(* returns is used by no property that holds: CancelledTransferEnds, the   *)
(* one that speaks of those transfers, fails even so.                      *)
(***************************************************************************)
SerialFairness ==
    /\ \A t \in Transfer :
          /\ WF_serialVars(ModemFlush(t) \/ KillHelper(t) \/ NoticeExit(t) \/ Join(t)
                            \/ GiveBack(t) \/ LeaveMap(t))
          /\ WF_serialVars(InputEnds(t)) /\ WF_serialVars(OutputEnds(t))

-----------------------------------------------------------------------------
(***************************************************************************)
(* The line has one user: while a transfer moves its blocks the reader     *)
(* does not read them away, although a transfer may find reader_paused set *)
(* by the pause of an earlier one; and transfer_active, which refuses the  *)
(* user's input, is set exactly while one transfer has claimed it, on      *)
(* every way a start can fail.                                             *)
(***************************************************************************)
Holds(t) ==
    xfer[t].at \in {"claimed", "ready", "cloned", "running", "flushing", "joining", "finished"}
Moves(t) == xfer[t].at \in {"ready", "cloned", "running", "flushing", "joining"}

LineHasOneUser ==
    /\ line.active <=> \E t \in Transfer : Holds(t)
    /\ \A t, u \in Transfer : Holds(t) /\ Holds(u) => t = u
    /\ \A t \in Transfer : Moves(t) => lineReader.at # "reading"

(***************************************************************************)
(* A Kermit transfer that is cancelled, by the user or by a close, gives   *)
(* the line back: with a helper that neither reads nor exits, a carrier    *)
(* blocked in its pipe, or a device pulled out; unless the other carrier   *)
(* waits for ever in a flush, which the transfer then joins in vain.       *)
(***************************************************************************)
CancelledKermitEnds ==
    \A t \in Transfer \ Modem :
        xfer[t].cancelled ~> (~Holds(t) \/ [](xfer[t].from = "blocked"))

(***************************************************************************)
(* docs/USER_GUIDE.md:53 says that the user's input, which a transfer      *)
(* pauses, comes back when the transfer completes, is cancelled or fails.  *)
(***************************************************************************)
CancelledTransferEnds == \A t \in Transfer : xfer[t].cancelled ~> ~Holds(t)
=============================================================================
