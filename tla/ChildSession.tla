---------------------------- MODULE ChildSession ----------------------------
(***************************************************************************)
(* Sessions that are not SSH terminals: a local shell and a mosh client    *)
(* behind a PTY, a FreeRDP helper, and a telnet connection.  Each manager  *)
(* keeps a map of sessions, a set of ids whose close was asked for, and a  *)
(* thread per session that waits for the end of its peer (the process or   *)
(* the server), takes the id out of both and reports.  Sessions share      *)
(* nothing but those maps, whose keys are fresh, so there is one session,  *)
(* of any kind.                                                            *)
(*                                                                         *)
(* The lock of a session guards the writer and the process together: input *)
(* writes under it, close kills under it, and the thread of a PTY waits    *)
(* for the process under it.                                               *)
(***************************************************************************)

Kind == {"local", "mosh", "rdp", "telnet"}
OnPty == {"local", "mosh"}

VARIABLE child

childVars == <<child>>

ChildTypeOK ==
    child \in [
        kind : Kind,
        peer : {"none", "running", "detached", "exited", "reaped"},
        well : BOOLEAN,         \* it exited with success
        held : BOOLEAN,         \* another process has its terminal, or its stderr, open
        listed : BOOLEAN,       \* in the manager's map
        external : BOOLEAN,     \* known to the SSH sessions (mosh)
        closing : BOOLEAN,      \* in the manager's closing set
        finished : BOOLEAN,     \* ManagedMosh::finished
        lock : {"free", "input", "reader"},
        reader : {"none", "reading", "waiting", "joining", "ending", "reporting", "done"},
        requested : BOOLEAN,    \* what the thread found in closing
        close : {"idle", "found", "asked"},
        shown : {"none", "refused", "connecting", "online", "reconnecting", "closed",
                 "failed"}]

ChildInit ==
    \E k \in Kind : child =
        [kind |-> k, peer |-> "none", well |-> FALSE, held |-> FALSE, listed |-> FALSE,
         external |-> FALSE, closing |-> FALSE, finished |-> FALSE, lock |-> "free", reader |-> "none",
         requested |-> FALSE, close |-> "idle", shown |-> "none"]

Becomes(c) == child' = c

-----------------------------------------------------------------------------
(***************************************************************************)
(* Opening.  A local shell gets its startup command before it is listed    *)
(* (its failure drops the PTY and leaves nothing); mosh lists the session  *)
(* first and takes it back.                                                *)
(***************************************************************************)
Open ==
    /\ child.peer = "none"
    /\ LET c == [child EXCEPT !.peer = "running", !.listed = TRUE] IN
       Becomes(IF child.kind = "mosh" THEN [c EXCEPT !.external = TRUE]
                  ELSE [c EXCEPT !.reader = "reading",
                                 !.shown = IF child.kind = "rdp" THEN "connecting" ELSE "online"])

StartupWritten ==
    /\ child.kind = "mosh" /\ child.peer # "none" /\ child.reader = "none" /\ child.lock = "free"
    /\ Becomes([child EXCEPT !.reader = "reading", !.shown = "online"])

StartupFails ==
    /\ child.kind = "mosh" /\ child.peer # "none" /\ child.reader = "none" /\ child.lock = "free"
    /\ Becomes([child EXCEPT !.peer = "exited", !.listed = FALSE, !.external = FALSE,
                                 !.reader = "done", !.shown = "refused"])

(***************************************************************************)
(* What the peer does: a process may exit, or live on after it has let go  *)
(* of its terminal; a process it started may have that open as well, and   *)
(* outlive it (so may the pseudo console of Windows); a telnet server      *)
(* closes or is lost.                                                      *)
(***************************************************************************)
PeerExits ==
    /\ child.peer \in {"running", "detached"}
    /\ \E w \in BOOLEAN : Becomes([child EXCEPT !.peer = "exited", !.well = w])

LetsGo ==
    /\ child.kind \in OnPty /\ child.peer = "running"
    /\ Becomes([child EXCEPT !.peer = "detached"])

StartsAnother ==
    /\ child.kind # "telnet" /\ child.peer = "running" /\ ~child.held
    /\ Becomes([child EXCEPT !.held = TRUE])

OtherExits == child.held /\ Becomes([child EXCEPT !.held = FALSE])

-----------------------------------------------------------------------------
(***************************************************************************)
(* The thread of a session.  mosh recognises the client's own messages     *)
(* about a lost server, FreeRDP's lines become events (without them a      *)
(* helper counts as online after ten seconds).                             *)
(***************************************************************************)
Observe ==
    /\ child.kind \in {"mosh", "rdp"} /\ child.reader = "reading" /\ child.peer = "running"
    /\ \E s \in {"online", "reconnecting"} \ {child.shown} :
          /\ child.shown = "connecting" => s = "online"
          /\ Becomes([child EXCEPT !.shown = s])

\* A read of a PTY ends when no process has it open any more, whatever became of the first.
AtTheEnd ==
    CASE child.kind \in OnPty -> /\ child.peer \in {"detached", "exited"} /\ ~child.held
                                /\ child.lock = "free"
      [] child.kind = "rdp"   -> child.peer = "exited"
      [] OTHER       -> child.peer = "exited" \/ child.closing

\* The PTY is at its end: the thread takes the lock to wait for the process.  That of
\* FreeRDP has polled the process, and joins the reader of its stderr.
SeeEnd ==
    /\ child.reader = "reading" /\ AtTheEnd
    /\ Becomes(CASE child.kind \in OnPty -> [child EXCEPT !.reader = "waiting", !.lock = "reader"]
                 [] child.kind = "rdp" -> [child EXCEPT !.reader = "joining", !.peer = "reaped"]
                 [] OTHER -> [child EXCEPT !.reader = "ending"])

WaitReturns ==
    /\ child.reader = "waiting" /\ child.peer = "exited"
    /\ Becomes([child EXCEPT !.peer = "reaped", !.reader = "ending", !.lock = "free",
                            !.finished = child.kind = "mosh"])

JoinStderr ==
    /\ child.reader = "joining" /\ ~child.held
    /\ Becomes([child EXCEPT !.reader = "ending"])

\* A poll that fails ends the thread at once; a close that is on its way leaves its mark.
PollFails ==
    /\ child.kind = "rdp" /\ child.reader = "reading"
    /\ Becomes([child EXCEPT !.reader = "done", !.listed = FALSE, !.shown = "failed"])

\* On Unix a read that times out is WouldBlock, which the loop takes for a failure.
ReadTimesOut ==
    /\ child.kind = "telnet" /\ child.reader = "reading" /\ ~child.closing
    /\ Becomes([child EXCEPT !.reader = "ending"])

\* The two maps are left one after the other, in an order of each kind's own.
EndFirst ==
    /\ child.reader = "ending"
    /\ Becomes(IF child.kind \in {"local", "rdp"}
                  THEN [child EXCEPT !.reader = "reporting", !.listed = FALSE]
                  ELSE [child EXCEPT !.reader = "reporting", !.requested = child.closing,
                                 !.closing = FALSE])

ReportEnd ==
    LET asked == IF child.kind \in {"local", "rdp"} THEN child.closing ELSE child.requested
        end == IF asked \/ (child.kind # "telnet" /\ child.well) THEN "closed" ELSE "failed"
        told == [child EXCEPT !.reader = "done", !.requested = asked, !.shown = end] IN
    /\ child.reader = "reporting"
    /\ Becomes(CASE child.kind = "telnet" -> [told EXCEPT !.listed = FALSE]
                    [] child.kind = "mosh"   -> [told EXCEPT !.listed = child.listed /\ ~asked,
                                                    !.external = child.external /\ ~asked]
                    [] OTHER        -> [told EXCEPT !.closing = FALSE])

-----------------------------------------------------------------------------
(***************************************************************************)
(* Input holds the lock until its bytes are taken: a terminal that nobody  *)
(* reads keeps it, a telnet server only for the ten seconds of the write   *)
(* time-out.  The lock is fair to those that wait for it: an input that    *)
(* comes later counts as having come before them, or waits.                *)
(***************************************************************************)
Waited == child.close = "asked" \/ AtTheEnd

Input ==
    /\ child.kind # "rdp" /\ child.listed /\ ~child.finished /\ child.lock = "free" /\ ~Waited
    /\ Becomes([child EXCEPT !.lock = "input"])

InputTaken ==
    /\ child.lock = "input"
    /\ Becomes([child EXCEPT !.lock = "free"])

InputFails ==
    /\ child.kind = "telnet" \/ (child.peer \in {"exited", "reaped"} /\ ~child.held)
    /\ InputTaken

(***************************************************************************)
(* Closing: find the session, note the request, end the peer.              *)
(***************************************************************************)
CloseFind ==
    /\ child.close = "idle" /\ child.listed
    /\ CASE child.kind = "telnet" -> Becomes([child EXCEPT !.close = "found", !.listed = FALSE])
         [] child.kind = "mosh" /\ child.finished ->
               Becomes([child EXCEPT !.listed = FALSE, !.closing = FALSE])
         [] OTHER -> /\ child.kind = "mosh" => child.lock = "free"
                     /\ Becomes([child EXCEPT !.close = "found"])

CloseMark ==
    /\ child.close = "found"
    /\ Becomes([child EXCEPT !.close = "asked", !.closing = TRUE])

\* Mutant: close leaves the end to the thread, as a telnet close could.
MarkedOnly(c) == c

Killed(c) == IF c.peer = "reaped" THEN c ELSE [c EXCEPT !.peer = "exited", !.well = FALSE]

\* A process that the thread has waited for cannot be killed: mosh takes its mark back.
CloseKill ==
    LET c == [Killed(child) EXCEPT !.close = "idle"] IN
    /\ child.close = "asked" /\ child.lock = "free"
    /\ Becomes(CASE child.kind = "mosh" /\ c.peer = "reaped" -> [c EXCEPT !.closing = FALSE]
                    [] child.kind = "rdp" -> [c EXCEPT !.listed = FALSE]
                    [] OTHER -> c)

-----------------------------------------------------------------------------
ChildNext ==
    \/ Open \/ PeerExits \/ LetsGo \/ StartsAnother \/ OtherExits \/ Observe
    \/ SeeEnd \/ WaitReturns \/ JoinStderr \/ PollFails \/ EndFirst \/ ReportEnd
    \/ Input \/ InputTaken \/ CloseFind \/ CloseMark \/ CloseKill
    \/ StartupWritten \/ StartupFails \/ ReadTimesOut

(***************************************************************************)
(* Threads and calls run on.  Nothing makes a process exit or take its     *)
(* input, or those it started let go of its terminal.                      *)
(***************************************************************************)
ChildFairness ==
    /\ WF_childVars(SeeEnd \/ WaitReturns \/ JoinStderr \/ EndFirst \/ ReportEnd)
    /\ WF_childVars(CloseMark \/ CloseKill) /\ WF_childVars(InputFails)
    /\ WF_childVars(StartupWritten \/ StartupFails)

-----------------------------------------------------------------------------
(***************************************************************************)
(* A session that was told to close comes to an end and leaves the map: at *)
(* whatever point its peer exits, its start fails, its input waits or      *)
(* another process lets go of its terminal.  It does not where the code    *)
(* cannot, and only there: the kill needs the lock, which an input keeps   *)
(* that nobody ever takes, or the thread, that waits for a process that    *)
(* has let go of its terminal and never exits; and the thread reads on as  *)
(* long as another process has the terminal open.  (A mosh session that    *)
(* ended by itself stays listed as finished until it is closed again.)     *)
(***************************************************************************)
CloseEndsSession ==
    child.close = "asked" ~>
        \/ child.reader = "done" /\ (child.listed => child.finished)
        \/ [](child.lock = "input") \/ [](child.peer = "detached") \/ []child.held
=============================================================================
