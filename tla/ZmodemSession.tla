--------------------------- MODULE ZmodemSession ---------------------------
(***************************************************************************)
(* Zmodem over an SSH terminal (src-tauri/src/zmodem.rs; ssh.rs,           *)
(* route_terminal_bytes to zmodem_cancel).  The reader of the terminal     *)
(* looks for the header of rz or sz in what it reads, asks the user, and   *)
(* then gives everything to the transfer until it is over; the commands    *)
(* of the window come at any time.  Each step holds the lock of the        *)
(* terminal.  What the remote program sends is a sequence of frames, in    *)
(* any order; terminal output that is no frame is "text".                  *)
(***************************************************************************)
EXTENDS Naturals, Sequences, NoValue

CONSTANTS
    MaxDetected, \* bound of the model: headers found
    MaxWire,     \* MAX_PENDING_WIRE_BYTES, in frames: a read of the channel is less
    MaxFiles     \* bound of the model: files of an upload (100)

ASSUME ZmodemAssumption == {MaxDetected, MaxWire, MaxFiles} \subseteq Nat /\ MaxWire >= 2

VARIABLES
    zmodem,    \* SessionState of the terminal handle
    lastEvent, \* the status in the last event of each transfer
    answered   \* transfers the user has chosen files or a directory for

zmodemVars == <<zmodem, lastEvent, answered>>

\* zmodem2's frames: the headers of sz and rz, a file's name, its end, the position
\* the receiver asks for, the end of the session, an abort.  A "bad" one is refused, or
\* reading or writing a file or the channel fails because of it.
Wire == {"text", "zrqinit", "zrinit", "zfile", "zeof", "zrpos", "zfin", "can", "bad", "O"}
Chunk == UNION {[1..n -> Wire] : n \in 1..2}
Detected == 1..MaxDetected

Detecting == [at |-> "detecting", id |-> 0, upload |-> FALSE, wire |-> <<>>, stage |-> "begin", left |-> 0]

ZmodemInit ==
    /\ zmodem = Detecting
    /\ lastEvent = [i \in Detected |-> "none"]
    /\ answered = {}

Tells(i, what) == lastEvent' = [lastEvent EXCEPT ![i] = what]

(***************************************************************************)
(* DownloadTransfer.drive and UploadTransfer.drive: zmodem2 takes some of  *)
(* the wire, a frame at a time, until there is a status; status is None as *)
(* long as there is none.                                                  *)
(***************************************************************************)
Receive(d, frame) ==
    CASE frame = "zfile" /\ d.stage = "begin" -> [d EXCEPT !.stage = "file", !.status = "running"]
      [] frame = "zeof" /\ d.stage = "file" -> [d EXCEPT !.stage = "begin"]
      [] frame = "zfin" /\ d.stage = "begin" -> [d EXCEPT !.status = "completed"]
      [] frame = "can" -> [d EXCEPT !.status = "cancelled"]
      [] frame = "bad" -> [d EXCEPT !.status = "failed"]
      [] OTHER -> d

Send(d, frame) ==
    CASE frame = "zrinit" /\ d.stage = "begin" -> [d EXCEPT !.stage = "offered"]
      [] frame = "zrpos" /\ d.stage = "offered" -> [d EXCEPT !.stage = "sent"]
      [] frame = "zrinit" /\ d.stage = "sent" ->
            IF d.left > 1 THEN [d EXCEPT !.left = @ - 1, !.stage = "offered"]
            ELSE [d EXCEPT !.left = 0, !.stage = "finish"]
      [] frame = "zfin" /\ d.stage = "finish" -> [d EXCEPT !.status = "completed"]
      [] frame = "can" -> [d EXCEPT !.status = "cancelled"]
      [] frame = "bad" -> [d EXCEPT !.status = "failed"]
      [] OTHER -> d

Drive(z) ==
    LET Take(d, frame) ==
            IF d.status # None \/ d.take = 0 THEN [d EXCEPT !.rest = Append(@, frame)]
            ELSE [IF z.upload THEN Send(d, frame) ELSE Receive(d, frame) EXCEPT !.take = @ - 1]
        after[n \in 0..Len(z.wire), k \in 0..Len(z.wire)] ==
            IF k = 0 THEN [stage |-> z.stage, left |-> z.left, status |-> None, rest |-> <<>>, take |-> n]
            ELSE Take(after[n, k - 1], z.wire[k])
    IN  {after[n, Len(z.wire)] : n \in 0..Len(z.wire)}

\* FinishingTransfer: the "OO" after a download goes, anything else is output.
Finish(rest) ==
    IF rest = <<"O">> THEN [Detecting EXCEPT !.at = "finishing", !.wire = rest] ELSE Detecting

\* What becomes of a transfer that was driven: any status ends it.
AfterDrive(z) ==
    \E d \in Drive(z) :
        /\ zmodem' = IF d.status = "completed" /\ ~z.upload THEN Finish(d.rest)
                     ELSE IF d.status # None THEN Detecting
                     ELSE [z EXCEPT !.at = "active", !.wire = d.rest, !.stage = d.stage, !.left = d.left]
        /\ Tells(z.id, IF d.status = None THEN "running" ELSE d.status)

(***************************************************************************)
(* The reader: route_terminal_bytes in each state, the time-outs it looks  *)
(* after when nothing was read, and the end of the connection.             *)
(***************************************************************************)
\* HandshakeDetector.feed: the first header and all that follows it.
Header == {"zrqinit", "zrinit"}

Unused == {i \in Detected : lastEvent[i] = "none"}

Detect(chunk) ==
    LET headers == {k \in DOMAIN chunk : chunk[k] \in Header}
        first == CHOOSE k \in headers : \A l \in headers : k <= l
    IN  \E id \in Unused :
           /\ zmodem.at = "detecting" /\ headers # {} /\ \A i \in Unused : id <= i
           /\ zmodem' = [Detecting EXCEPT !.at = "awaiting", !.id = id, !.upload = chunk[first] = "zrinit",
                                          !.wire = SubSeq(chunk, first, Len(chunk))]
           /\ Tells(id, "awaitingAuthorization")
           /\ UNCHANGED answered

\* AwaitingTransfer.append and ActiveTransfer.append_wire.
Appended(chunk) == zmodem.wire \o chunk
TooMuch(chunk) == Len(Appended(chunk)) > MaxWire

KeepBytes(chunk) ==
    /\ zmodem.at = "awaiting"
    /\ IF TooMuch(chunk) THEN zmodem' = Detecting /\ Tells(zmodem.id, "failed")
       ELSE zmodem' = [zmodem EXCEPT !.wire = Appended(chunk)] /\ UNCHANGED lastEvent
    /\ UNCHANGED answered

TransferBytes(chunk) ==
    /\ zmodem.at = "active"
    /\ IF TooMuch(chunk) THEN zmodem' = Detecting /\ Tells(zmodem.id, "failed")
       ELSE AfterDrive([zmodem EXCEPT !.wire = Appended(chunk)])
    /\ UNCHANGED answered

FinishFeed(chunk) ==
    /\ zmodem.at = "finishing"
    /\ zmodem' = Finish(Appended(chunk))
    /\ UNCHANGED <<lastEvent, answered>>

\* expire_zmodem_authorization: AUTHORIZATION_TIMEOUT, or FINISH_TIMEOUT.
Expire ==
    /\ zmodem.at \in {"awaiting", "finishing"}
    /\ zmodem' = Detecting
    /\ IF zmodem.at = "awaiting" THEN Tells(zmodem.id, "cancelled") ELSE UNCHANGED lastEvent
    /\ UNCHANGED answered

\* fail_zmodem_for_disconnect; a new connection begins with a new state.
Disconnect ==
    /\ zmodem.at # "detecting"
    /\ zmodem' = Detecting
    /\ IF zmodem.at = "finishing" THEN UNCHANGED lastEvent ELSE Tells(zmodem.id, "failed")
    /\ UNCHANGED answered

(***************************************************************************)
(* The commands of the window, with the id of any event it ever got.       *)
(***************************************************************************)
Asked(i) == i \in Detected /\ lastEvent[i] # "none"

\* Fault: any answer will do.
AnyAwaited(i) == zmodem.at = "awaiting"

IsAwaited(i) == zmodem.at = "awaiting" /\ zmodem.id = i

\* ActiveTransfer.download and upload: files is how many are sent, or 0 for what cannot be
\* used: no directory, no file, or one that cannot be opened.
Usable(files) == files > 0

\* zmodem_start.
Start(i, files) ==
    /\ Asked(i)
    /\ answered' = answered \union {i}
    /\ IF ~IsAwaited(i) THEN UNCHANGED <<zmodem, lastEvent>>
       ELSE IF ~Usable(files) THEN zmodem' = Detecting /\ Tells(zmodem.id, "failed")
       ELSE AfterDrive([zmodem EXCEPT !.left = IF zmodem.upload THEN files ELSE 0])

\* zmodem_cancel: the state goes first; where the channel then refuses the sequence the
\* command fails without an event.
Cancel(i) ==
    /\ Asked(i)
    /\ zmodem.at \in {"awaiting", "active"} /\ zmodem.id = i
    /\ zmodem' = Detecting
    /\ Tells(i, "cancelled") \/ UNCHANGED lastEvent
    /\ UNCHANGED answered

ZmodemNext ==
    \/ \E chunk \in Chunk : Detect(chunk) \/ KeepBytes(chunk) \/ TransferBytes(chunk) \/ FinishFeed(chunk)
    \/ Expire \/ Disconnect
    \/ \E i \in Detected : Cancel(i) \/ \E files \in 0..MaxFiles : Start(i, files)

ZmodemSpec == ZmodemInit /\ [][ZmodemNext]_zmodemVars

(***************************************************************************)
(* Properties.                                                             *)
(***************************************************************************)
ZmodemTypeOK ==
    /\ zmodem \in [at : {"detecting", "awaiting", "active", "finishing"}, id : 0..MaxDetected,
                   upload : BOOLEAN, wire : Seq(Wire),
                   stage : {"begin", "file", "offered", "sent", "finish"}, left : 0..MaxFiles]
    /\ zmodem.at # "finishing" => Len(zmodem.wire) <= MaxWire
    /\ lastEvent \in [Detected -> {"none", "awaitingAuthorization", "running", "completed", "cancelled", "failed"}]
    /\ answered \subseteq Detected

\* zmodem_start: files move only for a request its own user has answered, whatever older
\* requests the window still knows; and what is moving is said to be running.
ZmodemAsksFirst ==
    /\ zmodem.at = "active" => zmodem.id \in answered /\ lastEvent[zmodem.id] = "running"
    /\ \A i \in Detected : lastEvent[i] \in {"running", "completed"} => i \in answered

\* A transfer that is said to be running is one the terminal drives.
RunningIsDriven ==
    \A i \in Detected : lastEvent[i] = "running" => zmodem.at = "active" /\ zmodem.id = i
=============================================================================
