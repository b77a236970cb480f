---------------------------- MODULE SshTerminal ----------------------------
(***************************************************************************)
(* The SSH terminals of the desktop application (src-tauri/src/ssh.rs):    *)
(* open_terminal, the reader task that notices the end of a shell and      *)
(* reconnects after 1, 2, 5, 10 and 30 seconds, terminal_resize and        *)
(* terminal_close.  A handle is shared by the map of the SessionManager,   *)
(* the reader and a close in progress; it lives while one of them has it.  *)
(*                                                                         *)
(* A shell is the client's end of a channel with its transport and its X11 *)
(* forwarder: it is alive until either side closes it.                     *)
(***************************************************************************)
EXTENDS Naturals, NoValue

CONSTANTS
    Session,     \* session ids, a fresh UUID for each terminal
    Shell,       \* the shells a session may own in turn
    Size,        \* sizes of a window
    MaxAttempts  \* RECONNECT_DELAYS.len() (5)

Handle == [shell : Shell, closed : BOOLEAN, size : Size]

ASSUME TerminalAssumption ==
    /\ MaxAttempts \in Nat \ {0}
    /\ None \notin Shell
    /\ None \notin Handle

VARIABLES
    registered, \* sessions in SessionManager.sessions
    handle,     \* TerminalHandle of each session, None once nobody has it
    alive,      \* the shells of each session that nobody has closed
    opened,     \* the shell open_pty returned to the reader, not yet in the handle
    reader,     \* where the reader task is
    attempt,    \* the attempts of the present reconnection
    wanted,     \* the size copied when the reconnection began
    status,     \* the status of the last terminal-status event
    closer      \* terminal_close: "closing" between the map and the handle

vars == <<registered, handle, alive, opened, reader, attempt, wanted, status, closer>>

Place == {"none", "reading", "lost", "waiting", "connecting", "opening", "replacing", "failing",
          "ended"}

Init ==
    /\ registered = {}
    /\ handle = [s \in Session |-> None]
    /\ alive = [s \in Session |-> {}]
    /\ opened = [s \in Session |-> None]
    /\ reader = [s \in Session |-> "none"]
    /\ attempt = [s \in Session |-> 0]
    /\ wanted = [s \in Session |-> None]
    /\ status = [s \in Session |-> "none"]
    /\ closer = [s \in Session |-> "none"]

Goto(s, place) == reader' = [reader EXCEPT ![s] = place]

Report(s, news) == status' = [status EXCEPT ![s] = news]

\* A shell that is not in use yet.
NewShell(s) == {k \in Shell : k \notin alive[s] /\ (handle[s] # None => handle[s].shell # k)}

(***************************************************************************)
(* open_terminal: the shell, the entry in the map and the reader.          *)
(***************************************************************************)
OpenTerminal(s, size) ==
    /\ reader[s] = "none"
    /\ \E k \in NewShell(s) :
         /\ handle' = [handle EXCEPT ![s] = [shell |-> k, closed |-> FALSE, size |-> size]]
         /\ alive' = [alive EXCEPT ![s] = {k}]
    /\ registered' = registered \union {s}
    /\ Goto(s, "reading")
    /\ UNCHANGED <<opened, attempt, wanted, status, closer>>

(***************************************************************************)
(* spawn_reader: it reads until the handle is closed, the shell is at its  *)
(* end, or reading or the keepalive failed.  In the last case the shell    *)
(* itself may still be alive.                                              *)
(***************************************************************************)
NoticeEnd(s) ==
    /\ reader[s] = "reading"
    /\ handle[s].closed \/ handle[s].shell \notin alive[s]
    /\ Goto(s, "lost")
    /\ UNCHANGED <<registered, handle, alive, opened, attempt, wanted, status, closer>>

NoticeError(s) ==
    /\ reader[s] = "reading"
    /\ Goto(s, "lost")
    /\ UNCHANGED <<registered, handle, alive, opened, attempt, wanted, status, closer>>

\* The reader returns and lets go of its handle.  The map no longer has it; the
\* shell is closed with the handle unless a close is still holding it.
Return(s) ==
    /\ Goto(s, "ended")
    /\ IF closer[s] = "closing"
       THEN UNCHANGED <<handle, alive>>
       ELSE /\ alive' = [alive EXCEPT ![s] = @ \ {handle[s].shell}]
            /\ handle' = [handle EXCEPT ![s] = None]

\* A session that is no longer in the map has been closed: the reader returns.
\* Otherwise it copies what a new shell needs and announces the first attempt.
Capture(s) ==
    /\ reader[s] = "lost"
    /\ \/ /\ s \notin registered
          /\ Return(s)
          /\ UNCHANGED <<attempt, wanted, status>>
       \/ /\ s \in registered
          /\ wanted' = [wanted EXCEPT ![s] = handle[s].size]
          /\ attempt' = [attempt EXCEPT ![s] = 1]
          /\ Report(s, "reconnecting")
          /\ Goto(s, "waiting")
          /\ UNCHANGED <<handle, alive>>
    /\ UNCHANGED <<registered, opened, closer>>

\* The delay is over: the map is looked at once more, for the last time.
Wake(s) ==
    /\ reader[s] = "waiting"
    /\ \/ /\ s \notin registered
          /\ Return(s)
       \/ /\ s \in registered
          /\ Goto(s, "connecting")
          /\ UNCHANGED <<handle, alive>>
    /\ UNCHANGED <<registered, opened, attempt, wanted, status, closer>>

\* Fault: a failed attempt is not counted.
RetryForever(s) ==
    /\ Goto(s, "waiting")
    /\ Report(s, "reconnecting")
    /\ UNCHANGED attempt

NextAttempt(s) ==
    IF attempt[s] < MaxAttempts
    THEN /\ attempt' = [attempt EXCEPT ![s] = @ + 1]
         /\ Report(s, "reconnecting")
         /\ Goto(s, "waiting")
    ELSE /\ Goto(s, "failing")
         /\ UNCHANGED <<attempt, status>>

\* acquire_transport: connected, an error worth another attempt, or one that is
\* not (authentication, host key, validation).
Connect(s) ==
    /\ reader[s] = "connecting"
    /\ \/ Goto(s, "opening") /\ UNCHANGED <<attempt, status>>
       \/ NextAttempt(s)
       \/ Goto(s, "failing") /\ UNCHANGED <<attempt, status>>
    /\ UNCHANGED <<registered, handle, alive, opened, wanted, closer>>

\* open_pty with the size copied before the delay.
OpenPty(s) ==
    /\ reader[s] = "opening"
    /\ \/ /\ \E k \in NewShell(s) :
               /\ opened' = [opened EXCEPT ![s] = k]
               /\ alive' = [alive EXCEPT ![s] = @ \union {k}]
          /\ Goto(s, "replacing")
          /\ UNCHANGED <<attempt, status>>
       \/ /\ NextAttempt(s)
          /\ UNCHANGED <<opened, alive>>
    /\ UNCHANGED <<registered, handle, wanted, closer>>

\* *handle.lock() = replacement: the old shell is dropped, and with it the size
\* and the closed mark of the handle.
Replace(s) ==
    /\ reader[s] = "replacing"
    /\ handle' = [handle EXCEPT ![s] = [shell |-> opened[s], closed |-> FALSE, size |-> wanted[s]]]
    /\ alive' = [alive EXCEPT ![s] = @ \ {handle[s].shell}]
    /\ opened' = [opened EXCEPT ![s] = None]
    /\ attempt' = [attempt EXCEPT ![s] = 0]
    /\ wanted' = [wanted EXCEPT ![s] = None]
    /\ Report(s, "online")
    /\ Goto(s, "reading")
    /\ UNCHANGED <<registered, closer>>

\* Fault: the session stays in the map.
AbandonKeepingEntry(s) ==
    /\ reader[s] = "failing"
    /\ Report(s, "failed")
    /\ Goto(s, "ended")
    /\ UNCHANGED <<registered, handle, alive, opened, attempt, wanted, closer>>

\* Every attempt failed, or one did for good.
Abandon(s) ==
    /\ reader[s] = "failing"
    /\ registered' = registered \ {s}
    /\ Report(s, "failed")
    /\ Return(s)
    /\ UNCHANGED <<opened, attempt, wanted, closer>>

(***************************************************************************)
(* terminal_resize and terminal_close.  The close takes the handle out of  *)
(* the map first and closes what the handle holds afterwards.              *)
(***************************************************************************)
Resize(s, size) ==
    /\ s \in registered
    /\ handle' = [handle EXCEPT ![s].size = size]
    /\ UNCHANGED <<registered, alive, opened, reader, attempt, wanted, status, closer>>

Remove(s) ==
    /\ s \in registered
    /\ registered' = registered \ {s}
    /\ closer' = [closer EXCEPT ![s] = "closing"]
    /\ UNCHANGED <<handle, alive, opened, reader, attempt, wanted, status>>

Shut(s) ==
    /\ closer[s] = "closing"
    /\ closer' = [closer EXCEPT ![s] = "closed"]
    /\ alive' = [alive EXCEPT ![s] = @ \ {handle[s].shell}]
    /\ handle' = [handle EXCEPT ![s] = IF reader[s] = "ended" THEN None ELSE [@ EXCEPT !.closed = TRUE]]
    /\ UNCHANGED <<registered, opened, reader, attempt, wanted, status>>

\* The server ends a shell, or its connection resets.
Disconnect(s) ==
    /\ \E k \in alive[s] : alive' = [alive EXCEPT ![s] = @ \ {k}]
    /\ UNCHANGED <<registered, handle, opened, reader, attempt, wanted, status, closer>>

\* What the reader does of itself, and what it does when a server has answered.
OwnStep(s) == NoticeEnd(s) \/ Capture(s) \/ Wake(s) \/ Replace(s) \/ Abandon(s)

ReaderStep(s) == OwnStep(s) \/ Connect(s) \/ OpenPty(s)

\* Inside acquire_transport or open_pty: the handshake and the opening of the
\* channel have no time-out, only the authentication has (30 s).
Asking(s) == reader[s] \in {"connecting", "opening"}

User(s) == Remove(s) \/ \E size \in Size : OpenTerminal(s, size) \/ Resize(s, size)

Next ==
    \E s \in Session : ReaderStep(s) \/ NoticeError(s) \/ User(s) \/ Shut(s) \/ Disconnect(s)

\* The runtime polls the reader and runs the blocking part of a close.  No server
\* has to answer an attempt, and nobody has to fail or to disconnect.
Fairness == \A s \in Session : WF_vars(OwnStep(s)) /\ WF_vars(Shut(s))

Spec == Init /\ [][Next]_vars /\ Fairness

(***************************************************************************)
(* Properties                                                              *)
(***************************************************************************)

\* The shape of the terminals' state; a reconnection makes MaxAttempts attempts.
TypeOK ==
    /\ registered \subseteq Session
    /\ handle \in [Session -> Handle \union {None}]
    /\ alive \in [Session -> SUBSET Shell]
    /\ opened \in [Session -> Shell \union {None}]
    /\ reader \in [Session -> Place]
    /\ attempt \in [Session -> 0..MaxAttempts]
    /\ wanted \in [Session -> Size \union {None}]
    /\ status \in [Session -> {"none", "reconnecting", "online", "failed"}]
    /\ closer \in [Session -> {"none", "closing", "closed"}]

\* A terminal in the map has a reader: its input has somebody to answer it, and
\* its end will be noticed.
RegisteredIsServed == \A s \in registered : reader[s] \notin {"none", "ended"}

\* ssh.rs:1696, 1735, 2396: whatever a close, a failure and a reconnection do to
\* each other, a shell that is alive has a reader or a close to answer for it, and
\* is the one in the handle or the one about to take its place.
NoShellLeaks ==
    \A s \in Session : \A k \in alive[s] :
        /\ reader[s] \notin {"none", "ended"} \/ closer[s] = "closing"
        /\ \/ handle[s] # None /\ k = handle[s].shell
           \/ reader[s] = "replacing" /\ k = opened[s]

\* The terminal is closed for its user, while its reader has a shell that lives.
Orphan(s) ==
    closer[s] = "closed" /\ reader[s] = "reading" /\ handle[s].shell \in alive[s]

\* ssh.rs:1569, 1696: a reconnection does not go on for ever, and a close ends the
\* reader, whatever the reader was doing; except where one attempt is never
\* answered, and where the close comes in the middle of a reconnection that then
\* succeeds and whose shell lives on.
ReaderSettles ==
    \A s \in Session :
        \/ <>[]Asking(s)
        \/ /\ status[s] = "reconnecting" ~> status[s] # "reconnecting" \/ reader[s] = "ended"
           /\ <>[]Orphan(s) \/ (closer[s] = "closing" ~> reader[s] = "ended")

(***************************************************************************)
(* What the documentation says and the interleavings break.                *)
(***************************************************************************)

\* docs/SECURITY.md:11: closing a terminal stops what its shell holds.
ClosedHoldsNoShell == \A s \in Session : ~Orphan(s)
=============================================================================
