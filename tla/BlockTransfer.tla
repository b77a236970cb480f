---------------------------- MODULE BlockTransfer ----------------------------
(***************************************************************************)
(* The X/Ymodem protocol of xymodem.rs: its sender at one end of a serial  *)
(* line, its receiver at the other, and noise between them.  Every read    *)
(* has a time-out, after which a block, a request or a refusal is sent     *)
(* again; so an answer may come late, and the answers a sender finds are   *)
(* not those to its last block.  Block numbers have eight bits.            *)
(*                                                                         *)
(* A block travels as one message, and so do the two CANs of cancel_peer.  *)
(* A block damaged in its data is refused once.  Where its first bytes are *)
(* hit, the receiver goes on reading inside it: it finds more wrong bytes  *)
(* than it has retries, a start of block that swallows the rest (which is  *)
(* then refused), or an EOT.                                               *)
(***************************************************************************)
EXTENDS Naturals, Sequences

CONSTANTS
    Blocks,       \* blocks of a file
    Files,        \* files of a Ymodem batch
    Modulus,      \* values of a block number (256)
    MaxRetries,   \* MAX_RETRIES (16)
    MaxNoise,     \* bound of the model: messages damaged or lost
    MaxEnds       \* bound of the model: EOTs of a batch among them

ASSUME BlocksAssumption ==
    /\ Blocks \in Nat \ {0} /\ Files \in Nat \ {0} /\ MaxNoise \in Nat /\ MaxEnds \in Nat
    /\ Modulus \in Nat /\ MaxRetries \in Nat \ {0} /\ MaxRetries + 2 <= Modulus

VARIABLES
    ymodem,       \* Ymodem, or Xmodem with one file
    blockSender, blockReceiver,
    forth, back,  \* what is on its way
    installed,    \* the files renamed to their final names, with their blocks
    noise,        \* how many messages were damaged or lost
    endNoise      \* how many of these were EOTs of a batch

blockVars == <<ymodem, blockSender, blockReceiver, forth, back, installed, noise, endNoise>>

Controls == {"ACK", "NAK", "C", "CAN", "noise"}
Silence == [kind |-> "none"]
Sign(kind) == [kind |-> kind]
BlockOf(number, data, check) ==
    [kind |-> "block", number |-> number, data |-> data, check |-> check]

Stopped(end) == end.phase \in {"done", "failed"}

BlocksTypeOK ==
    /\ ymodem \in BOOLEAN /\ noise \in 0..MaxNoise /\ endNoise \in 0..MaxEnds
    /\ blockSender.file \in 1..Files /\ blockSender.block \in 1..Blocks
    /\ blockSender.tries \in 0..(MaxRetries - 1)
    /\ blockReceiver.errors \in 0..MaxRetries /\ blockReceiver.expected \in 0..(Modulus - 1)
    /\ \A i \in DOMAIN back : back[i] \in Controls

\* The receiver asks first, by the control that names its checksum.
BlocksInit ==
    /\ ymodem \in BOOLEAN
    /\ \E check \in (IF ymodem THEN {"C"} ELSE {"C", "NAK"}) :
          /\ blockReceiver = [phase |-> IF ymodem THEN "header" ELSE "data", file |-> 1,
                              expected |-> 1, got |-> <<>>, errors |-> 0, check |-> check]
          /\ back = <<check>>
    /\ blockSender = [phase |-> "await", file |-> 1, block |-> 1, tries |-> 0, check |-> "C"]
    /\ forth = <<>> /\ installed = {} /\ noise = 0 /\ endNoise = 0

-----------------------------------------------------------------------------
(***************************************************************************)
(* The sender: each phase is one of its loops, and sends what it has to    *)
(* before every read.                                                      *)
(***************************************************************************)
Sends(s) ==
    CASE s.phase = "header" -> <<BlockOf(0, <<s.file, 0>>, "C")>>
      [] s.phase = "data"   -> <<BlockOf(s.block % Modulus, <<s.file, s.block>>, s.check)>>
      [] s.phase = "last"   -> <<BlockOf(0, <<0, 0>>, "C")>>
      [] s.phase \in {"eot", "eot1", "eot2"} -> <<Sign("EOT")>>
      [] s.phase = "failed" -> <<Sign("CAN")>>
      [] OTHER -> <<>>

\* What ends a phase well, and the phase after it.
Accepts(s) ==
    CASE s.phase = "await" -> IF ymodem THEN {"C"} ELSE {"C", "NAK"}
      [] s.phase \in {"awaitData", "awaitNext"} -> {"C"}
      [] s.phase = "eot1" -> {"NAK"}
      [] OTHER -> {"ACK"}

MoreBlocks(s) == s.block < Blocks

NextPhase(s) ==
    CASE s.phase = "await"     -> [s EXCEPT !.phase = IF ymodem THEN "header" ELSE "data"]
      [] s.phase = "header"    -> [s EXCEPT !.phase = "awaitData"]
      [] s.phase = "awaitData" -> [s EXCEPT !.phase = "data", !.block = 1]
      [] s.phase = "data"      -> IF MoreBlocks(s) THEN [s EXCEPT !.block = @ + 1]
                                  ELSE [s EXCEPT !.phase = IF ymodem THEN "eot1" ELSE "eot"]
      [] s.phase = "eot1"      -> [s EXCEPT !.phase = "eot2"]
      [] s.phase = "eot2"      -> [s EXCEPT !.phase = "awaitNext"]
      [] s.phase = "awaitNext" -> IF s.file < Files
                                  THEN [s EXCEPT !.phase = "header", !.file = @ + 1]
                                  ELSE [s EXCEPT !.phase = "last"]
      [] OTHER                 -> [s EXCEPT !.phase = "done"]

Chosen(s, c) == IF s.phase = "await" THEN [s EXCEPT !.check = c] ELSE s

\* The two loops that end a Ymodem file do not look for a cancellation.
SenderAfter(s, c) ==
    LET cancelled == c = "CAN" /\ s.phase \notin {"eot1", "eot2"} IN
    IF c \in Accepts(s) THEN [NextPhase(Chosen(s, c)) EXCEPT !.tries = 0]
    ELSE IF ~cancelled /\ s.tries + 1 < MaxRetries THEN [s EXCEPT !.tries = @ + 1]
    ELSE [s EXCEPT !.phase = "failed"]

SenderTakes(c) ==
    /\ ~Stopped(blockSender)
    /\ blockSender' = SenderAfter(blockSender, c)
    /\ forth' = forth \o Sends(blockSender')
    /\ UNCHANGED <<ymodem, blockReceiver, installed, noise, endNoise>>

SenderReads == back # <<>> /\ SenderTakes(Head(back)) /\ back' = Tail(back)

SenderTimesOut == SenderTakes("none") /\ UNCHANGED back

-----------------------------------------------------------------------------
(***************************************************************************)
(* The receiver.                                                           *)
(***************************************************************************)
Answers(r, controls) == blockReceiver' = r /\ back' = back \o controls

\* One error more, with what is sent because of it; or one too many.
Wrong(r, controls) ==
    LET worse == [r EXCEPT !.errors = @ + 1] IN
    IF worse.errors < MaxRetries THEN Answers(worse, controls)
    ELSE Answers([worse EXCEPT !.phase = "failed"], controls \o <<"CAN">>)

\* Wrong bytes to the last retry, or the cancellation of the peer.
GivesUp(r) == Answers([r EXCEPT !.phase = "failed"], <<"CAN">>)

Sound(m) == m.kind = "block" /\ m.check = blockReceiver.check

Keep == installed' = installed \union
            {[file |-> blockReceiver.file, blocks |-> Len(blockReceiver.got)]}

\* A data block in the place of a header is refused: it is no name and no size.
TakeHeader(m) ==
    LET r == blockReceiver IN
    /\ r.phase = "header"
    /\ CASE Sound(m) /\ m.number = 0 /\ m.data = <<0, 0>> ->
               Answers([r EXCEPT !.phase = "done"], <<"ACK">>)
         [] Sound(m) /\ m.number = 0 /\ m.data[2] = 0 /\ m.data # <<0, 0>> ->
               Answers([r EXCEPT !.phase = "data", !.file = m.data[1], !.got = <<>>,
                                 !.expected = 1, !.errors = 0], <<"ACK", "C">>)
         [] Sound(m) /\ m.number = 0 /\ m.data[2] # 0 -> GivesUp(r)
         [] (Sound(m) /\ m.number # 0) \/ m.kind = "noise" -> Wrong(r, <<"NAK">>)
         [] m.kind \in {"CAN", "strays"} -> GivesUp(r)
         [] OTHER -> Wrong(r, <<"C">>)
    /\ UNCHANGED installed

Before(number) == (number + Modulus - 1) % Modulus

\* Mutant: the block before is not told from the one expected.
ExpectedOrAgain(m) == m.number \in {blockReceiver.expected, Before(blockReceiver.expected)}

Expected(m) == m.number = blockReceiver.expected

\* The header of a Ymodem file names its size, and nothing is written beyond it.
Written(got, data) == IF ymodem /\ Len(got) >= Blocks THEN got ELSE Append(got, data)

TakeBlock(m) ==
    LET r == blockReceiver IN
    /\ r.phase = "data"
    /\ CASE Sound(m) /\ Expected(m) ->
               Answers([r EXCEPT !.got = Written(@, m.data), !.errors = 0,
                                 !.expected = (@ + 1) % Modulus], <<"ACK">>)
         [] Sound(m) /\ ~Expected(m) /\ m.number = Before(r.expected) -> Answers(r, <<"ACK">>)
         [] m.kind \in {"CAN", "strays"} -> GivesUp(r)
         [] m.kind = "EOT" ->
               IF ymodem THEN Answers([r EXCEPT !.phase = "eot", !.errors = 0], <<"NAK">>)
               ELSE Answers([r EXCEPT !.phase = "done"], <<"ACK">>)
         [] OTHER -> Wrong(r, <<"NAK">>)
    /\ IF m.kind = "EOT" /\ ~ymodem THEN Keep ELSE UNCHANGED installed

\* The second EOT of a Ymodem file is looked for byte by byte, with no answer: a block
\* is longer than the retries, unless one of its first bytes is an EOT.
TakeEnd(m) ==
    LET r == blockReceiver
        ends == /\ Answers([r EXCEPT !.phase = "header", !.errors = 0], <<"ACK", "C">>)
                /\ Keep
        fails == GivesUp(r) /\ UNCHANGED installed IN
    /\ r.phase = "eot"
    /\ CASE m.kind = "EOT" -> ends
         [] m.kind = "block" -> ends \/ fails
         [] m.kind \in {"CAN", "strays"} -> fails
         [] OTHER -> Wrong(r, <<>>) /\ UNCHANGED installed

ReceiverTakes(m) ==
    /\ TakeHeader(m) \/ TakeBlock(m) \/ TakeEnd(m)
    /\ UNCHANGED <<ymodem, blockSender, noise, endNoise>>

ReceiverReads == forth # <<>> /\ ReceiverTakes(Head(forth)) /\ forth' = Tail(forth)

ReceiverTimesOut == ReceiverTakes(Silence) /\ UNCHANGED forth

-----------------------------------------------------------------------------
(***************************************************************************)
(* Noise: what was sent last is damaged or lost.                           *)
(***************************************************************************)
Instead(line, damaged) ==
    SubSeq(line, 1, Len(line) - 1) \o damaged

HitsEnd == ymodem /\ forth[Len(forth)].kind = "EOT"

Damage ==
    /\ noise < MaxNoise /\ noise' = noise + 1
    /\ \/ /\ forth # <<>> /\ UNCHANGED back
          /\ IF HitsEnd THEN endNoise < MaxEnds /\ endNoise' = endNoise + 1 ELSE UNCHANGED endNoise
          /\ \E damaged \in {<<>>} \union {<<Sign(k)>> : k \in {"noise", "strays", "EOT"}} :
                /\ forth[Len(forth)].kind # "block" => damaged \in {<<>>, <<Sign("noise")>>}
                /\ forth' = Instead(forth, damaged)
       \/ /\ back # <<>> /\ UNCHANGED <<forth, endNoise>>
          /\ \E damaged \in {<<>>} \union {<<c>> : c \in Controls \ {"CAN"}} :
                back' = Instead(back, damaged)
    /\ UNCHANGED <<ymodem, blockSender, blockReceiver, installed>>

BlocksNext ==
    \/ SenderReads \/ SenderTimesOut
    \/ ReceiverReads \/ ReceiverTimesOut
    \/ Damage

BlocksSpec == BlocksInit /\ [][BlocksNext]_blockVars

-----------------------------------------------------------------------------
(***************************************************************************)
(* What is written is the file from its beginning: no block is left out,   *)
(* doubled or taken for another, although the sender goes on to the next   *)
(* block on answers to earlier ones, and numbers come round.  It rests on  *)
(* the retries being fewer than the numbers: a receiver that misses a      *)
(* block gives up before the block with the same number arrives.  That is  *)
(* so while the noise (MaxNoise) is less than it takes to lead a sender    *)
(* round all the numbers past a receiver that hears nothing of it, and     *)
(* while one EOT of a batch at most is damaged (MaxEnds).  A file of a     *)
(* multiple of 256 blocks ends with a block of number 0, as a header has:  *)
(* where that block and both EOTs after it are lost, and an answer becomes *)
(* the request for the next file, its header is taken for the lost block.  *)
(* Four damaged messages break the property so.  The run has one.          *)
(* And answers that come late cost no block: on a line that damages        *)
(* nothing, what is installed is the whole file.  (On a line with noise it *)
(* may be less: receive_data_blocks returns at an EOT without a look at    *)
(* the size in the header.)                                                *)
(***************************************************************************)
ReceivedIsPrefix ==
    /\ \A i \in DOMAIN blockReceiver.got : blockReceiver.got[i] = <<blockReceiver.file, i>>
    /\ noise = 0 => \A f \in installed : f.blocks = Blocks
=============================================================================
