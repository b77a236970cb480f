------------------------ MODULE BlockTransfer_proofs ------------------------
(***************************************************************************)
(* What the X/Ymodem protocol of BlockTransfer guarantees for every number *)
(* of blocks, of files, of retries and of block numbers.                   *)
(*                                                                         *)
(* Numbers come round, so whether the block that arrives is the one after  *)
(* what was received cannot be read from its number alone.  BlocksInv says *)
(* why it can: blocks are on their way in the order of the file; what is   *)
(* missing between two of them was damaged, and what is missing behind the *)
(* receiver was damaged or refused; and less can be damaged and refused    *)
(* than there are numbers.  Between two files of a batch there is an EOT.  *)
(***************************************************************************)
EXTENDS BlockTransfer, FiniteSetTheorems, TLAPS

(***************************************************************************)
(* The line, its two ends, and the invariant.                              *)
(***************************************************************************)
SenderPhase ==
    {"await", "header", "awaitData", "data", "eot", "eot1", "eot2", "awaitNext", "last", "done", "failed"}

SenderRecord ==
    [phase : SenderPhase, file : 1..Files, block : 1..Blocks, tries : 0..(MaxRetries - 1),
     check : {"C", "NAK"}]
ReceiverRecord ==
    [phase : {"header", "data", "eot", "done", "failed"}, file : 1..Files,
     expected : 0..(Modulus - 1), got : Seq(Nat \X Nat), errors : 0..MaxRetries, check : {"C", "NAK"}]

\* What a block is of: the last header of a batch is of no file.
BlockPlace == {<<0, 0>>} \union ((1..Files) \X (0..Blocks))
BlockMessage == [kind : {"block"}, number : Nat, data : BlockPlace, check : {"C", "NAK"}]
SignMessage == [kind : {"EOT", "CAN", "noise", "strays"}]
Messages == BlockMessage \union SignMessage

MessageOK(m) ==
    m.kind = "block" =>
        /\ m.number = m.data[2] % Modulus
        /\ ymodem => m.check = "C"
        /\ ~ymodem => m.data[1] = 1

Live == blockSender.phase # "failed"

\* What was sent last: a sender is on its way through its files and their blocks.
Place ==
    CASE blockSender.phase \in {"last", "done"} -> IF ymodem THEN <<0, 0>> ELSE <<1, Blocks>>
      [] blockSender.phase \in {"await", "header", "awaitData"} -> <<blockSender.file, 0>>
      [] OTHER -> <<blockSender.file, blockSender.block>>

NotAfter(x, y) == y[1] = 0 \/ (x[1] # 0 /\ (x[1] < y[1] \/ (x[1] = y[1] /\ x[2] <= y[2])))

IsBlock(i) == i \in 1..Len(forth) /\ forth[i].kind = "block"
IsEot(i) == i \in 1..Len(forth) /\ forth[i].kind = "EOT"

\* Block b of file k is on its way.
Under(k, b) == \E i \in 1..Len(forth) : IsBlock(i) /\ forth[i].data = <<k, b>>

\* The sender has sent all there is of file k, or block t of it, which is on its way or the last.
Overtaken(k) == Place[1] = 0 \/ k < Place[1]
Reached(k, t) == Under(k, t) \/ (Live /\ (Place = <<k, t>> \/ (t = Blocks /\ Overtaken(k))))

\* The blocks after block j of file k, up to block t, that are not on their way.
Gap(k, j, t) == {b \in (j + 1)..t : ~Under(k, b)}

\* What was taken last, as message 0, or a message on its way.
From(i, k, j) ==
    \/ i = 0 /\ blockReceiver.phase = "data" /\ k = blockReceiver.file /\ j = Len(blockReceiver.got)
    \/ IsBlock(i) /\ forth[i].data = <<k, j>>

SenderOK ==
    /\ blockSender \in SenderRecord /\ ymodem \in BOOLEAN
    /\ blockSender.phase \in {"eot", "eot1", "eot2", "awaitNext"} => blockSender.block = Blocks
    /\ blockSender.phase = "await" => forth = <<>> /\ blockSender.file = 1 /\ blockSender.block = 1
    /\ ymodem => blockSender.phase # "eot" /\ blockSender.check = "C"
    /\ ~ymodem => /\ blockSender.phase \in {"await", "data", "eot", "done", "failed"}
                  /\ blockSender.file = 1

ReceiverOK ==
    /\ blockReceiver \in ReceiverRecord
    /\ blockReceiver.phase \in {"header", "data", "eot"} => blockReceiver.errors < MaxRetries
    /\ ymodem => blockReceiver.check = "C"
    /\ ~ymodem => blockReceiver.phase \notin {"header", "eot"} /\ blockReceiver.file = 1

\* A block that is acknowledged is written, as long as the file is not whole.
Numbered ==
    blockReceiver.phase = "data" => blockReceiver.expected = (Len(blockReceiver.got) + 1) % Modulus

LineOK ==
    /\ forth \in Seq(Messages) /\ back \in Seq(Controls) /\ noise \in 0..MaxNoise
    /\ endNoise \in 0..MaxEnds
    /\ \A i \in 1..Len(forth) : MessageOK(forth[i])

EndsOK == SenderOK /\ ReceiverOK /\ LineOK

\* On a line that damages nothing, no block is refused for its checksum.
ChecksOK ==
    noise = 0 =>
        /\ blockSender.phase = "await" => back # <<>> /\ Head(back) = blockReceiver.check
        /\ blockSender.phase \notin {"await", "failed"} => blockSender.check = blockReceiver.check
        /\ \A i \in 1..Len(forth) : IsBlock(i) => forth[i].check = blockReceiver.check

\* Blocks arrive in the order of the file, and from where the receiver is.
Ordered ==
    /\ \A i, j \in 1..Len(forth) :
         i < j /\ IsBlock(i) /\ IsBlock(j) => NotAfter(forth[i].data, forth[j].data)
    /\ Live => \A i \in 1..Len(forth) : IsBlock(i) => NotAfter(forth[i].data, Place)

Behind ==
    blockReceiver.phase = "data" =>
        LET at == <<blockReceiver.file, Len(blockReceiver.got)>> IN
        /\ at[2] <= Blocks
        /\ \A i \in 1..Len(forth) : IsBlock(i) => NotAfter(at, forth[i].data)
        /\ Live => NotAfter(at, Place)

\* Behind a block on its way, only noise makes gaps; behind the receiver, so does every block
\* it has refused.
LostInNoise ==
    \A k \in 1..Files, j, t \in 0..Blocks :
        Under(k, j) /\ Reached(k, t) => Cardinality(Gap(k, j, t)) <= noise

LostOrRefused ==
    blockReceiver.phase = "data" =>
        \A t \in 0..Blocks : Reached(blockReceiver.file, t) =>
            LET gap == Gap(blockReceiver.file, Len(blockReceiver.got), t) IN
            /\ Cardinality(gap) <= noise + blockReceiver.errors
            /\ noise = 0 => gap = {}

\* Between two files of a batch there is an EOT, and a second one as long as no EOT was damaged.
Beyond(k) == Overtaken(k) \/ (Place[1] = k /\ blockSender.phase \in {"eot2", "awaitNext"})
Followed(i, k) ==
    \/ Live /\ Beyond(k)
    \/ \E l \in 1..Len(forth) : i < l /\ IsBlock(l) /\ forth[l].data[1] # k
Closing(i, k, j) ==
    /\ IsEot(j) /\ i < j
    /\ \A l \in 1..Len(forth) : i < l /\ IsBlock(l) /\ forth[l].data[1] # k => j < l

Closed ==
    ymodem => \A i \in 0..Len(forth), k \in 1..Files, b \in 0..Blocks : From(i, k, b) =>
        /\ Followed(i, k) => \E j \in 1..Len(forth) : Closing(i, k, j)
        /\ Followed(i, k) /\ endNoise = 0 =>
             \E j, l \in 1..Len(forth) : j # l /\ Closing(i, k, j) /\ Closing(i, k, l)
        /\ endNoise = 0 /\ blockSender.phase = "eot1" /\ blockSender.file = k =>
             \E j \in 1..Len(forth) : Closing(i, k, j)

\* On a line that damages nothing, an EOT follows all blocks of its file.
EndsAreReal ==
    noise = 0 => \A i \in 0..Len(forth), j \in 1..Len(forth), k \in 1..Files, b \in 0..Blocks :
        i < j /\ IsEot(j) /\ From(i, k, b) =>
            \A c \in (b + 1)..Blocks : \E l \in (i + 1)..(j - 1) : IsBlock(l) /\ forth[l].data = <<k, c>>

WholeFiles ==
    noise = 0 =>
        /\ blockReceiver.phase = "eot" => Len(blockReceiver.got) = Blocks
        /\ \A f \in installed : f.blocks = Blocks

InPlace == \A i \in DOMAIN blockReceiver.got : blockReceiver.got[i] = <<blockReceiver.file, i>>

\* Less is damaged in a transfer than it takes to lead a sender past all the numbers, and in a
\* batch at most one of what is damaged is an EOT: each file there ends in two.
LittleNoise == MaxNoise + MaxRetries < Modulus /\ (ymodem => MaxEnds <= 1)

BlocksInv ==
    /\ LittleNoise /\ EndsOK /\ ChecksOK /\ Ordered /\ Behind /\ LostInNoise /\ LostOrRefused
    /\ Closed /\ EndsAreReal /\ WholeFiles /\ InPlace /\ Numbered

-----------------------------------------------------------------------------
\* Numbers that come round.
LEMMA DivMod ==
  ASSUME NEW a \in Nat, NEW m \in Nat \ {0}
  PROVE  a % m \in 0..(m - 1) /\ a \div m \in Nat /\ a = m * (a \div m) + (a % m)
OBVIOUS

\* No multiple of a number lies strictly between it and 0.
LEMMA NoMultipleBetween ==
  ASSUME NEW d \in Int, NEW m \in Nat \ {0}, NEW q \in Int, d = m * q, 0 < d, d < m
  PROVE  FALSE
<1>1. CASE q <= 0
  <2>1. m * q <= 0
    BY <1>1
  <2> QED  BY <2>1
<1>2. CASE q >= 1
  <2>1. m * q >= m
    BY <1>2
  <2> QED  BY <2>1
<1> QED  BY <1>1, <1>2

\* A remainder is the only one in its range.
LEMMA RemainderIs ==
  ASSUME NEW a \in Nat, NEW m \in Nat \ {0}, NEW q \in Int, NEW r \in 0..(m - 1), a = m * q + r
  PROVE  a % m = r
<1> DEFINE p == a \div m
           s == a % m
<1>1. s \in 0..(m - 1) /\ p \in Nat /\ a = m * p + s
  BY DivMod
<1>7. s = a % m
  OBVIOUS
<1> HIDE DEF p, s
<1>2. m * p \in Int /\ m * q \in Int /\ m * (q - p) = m * q - m * p /\ m * (p - q) = m * p - m * q
  BY <1>1
<1>3. q - p \in Int /\ p - q \in Int /\ s - r \in Int /\ r - s \in Int
  BY <1>1
<1>4. s - r = m * (q - p) /\ r - s = m * (p - q) /\ s - r < m /\ r - s < m
  BY <1>1, <1>2
<1>5. ~(0 < s - r)
  BY <1>3, <1>4, NoMultipleBetween
<1>6. ~(0 < r - s)
  BY <1>3, <1>4, NoMultipleBetween
<1> QED  BY <1>1, <1>5, <1>6, <1>7

\* The number after a number, and the one before.
LEMMA NumberAfter ==
  ASSUME NEW a \in Nat, NEW m \in Nat \ {0}
  PROVE  ((a % m) + 1) % m = (a + 1) % m
<1> DEFINE p == a \div m
           s == a % m
<1>1. s \in 0..(m - 1) /\ p \in Nat /\ a = m * p + s
  BY DivMod
<1>0. s = a % m
  OBVIOUS
<1> HIDE DEF p, s
<1>2. CASE s + 1 < m
  <2>1. a + 1 = m * p + (s + 1) /\ s + 1 = m * 0 + (s + 1)
    BY <1>1
  <2>2. s + 1 \in 0..(m - 1)
    BY <1>1, <1>2
  <2>3. (a + 1) % m = s + 1
    BY <1>1, <2>1, <2>2, RemainderIs
  <2>4. (s + 1) % m = s + 1
    BY <1>1, <2>1, <2>2, RemainderIs
  <2> QED  BY <1>0, <2>3, <2>4
<1>3. CASE s + 1 = m
  <2>1. a + 1 = m * (p + 1) + 0 /\ s + 1 = m * 1 + 0
    BY <1>1, <1>3
  <2>2. (a + 1) % m = 0
    BY <1>1, <2>1, RemainderIs
  <2>3. (s + 1) % m = 0
    BY <1>1, <2>1, RemainderIs
  <2> QED  BY <1>0, <2>2, <2>3
<1> QED  BY <1>0, <1>1, <1>2, <1>3

\* The number before the next one is this one.
LEMMA NumberBefore ==
  ASSUME NEW a \in Nat, NEW m \in Nat \ {0}
  PROVE  (((a + 1) % m) + m - 1) % m = a % m
<1> DEFINE p == a \div m
           s == a % m
<1>1. s \in 0..(m - 1) /\ p \in Nat /\ a = m * p + s
  BY DivMod
<1>0. s = a % m
  OBVIOUS
<1> HIDE DEF p, s
<1>2. CASE s + 1 < m
  <2>1. (a + 1) % m = s + 1
    <3>1. a + 1 = m * p + (s + 1) /\ s + 1 \in 0..(m - 1)
      BY <1>1, <1>2
    <3> QED  BY <1>1, <3>1, RemainderIs
  <2>2. ((s + 1) + m - 1) = m * 1 + s
    BY <1>1
  <2>3. ((s + 1) + m - 1) % m = s
    BY <1>1, <2>2, RemainderIs
  <2> QED  BY <1>0, <2>1, <2>3
<1>3. CASE s + 1 = m
  <2>1. (a + 1) % m = 0
    <3>1. a + 1 = m * (p + 1) + 0 /\ 0 \in 0..(m - 1)
      BY <1>1, <1>3
    <3> QED  BY <1>1, <3>1, RemainderIs
  <2>2. 0 + m - 1 = m * 0 + s
    BY <1>1, <1>3
  <2>3. (0 + m - 1) % m = s
    BY <1>1, <2>2, RemainderIs
  <2> QED  BY <1>0, <2>1, <2>3
<1> QED  BY <1>1, <1>2, <1>3

\* Numbers less than a round apart differ.
LEMMA NumbersDiffer ==
  ASSUME NEW a \in Nat, NEW b \in Nat, NEW m \in Nat \ {0}, a < b, b < a + m
  PROVE  b % m # a % m
<1> SUFFICES ASSUME b % m = a % m PROVE FALSE
  OBVIOUS
<1> DEFINE q == b \div m
           p == a \div m
           s == a % m
<1>1. b = m * q + (b % m) /\ q \in Nat
  BY DivMod
<1>2. a = m * p + s /\ p \in Nat /\ s \in 0..(m - 1)
  BY DivMod
<1>3. b = m * q + s /\ a = m * p + s /\ q \in Nat /\ p \in Nat /\ s \in Nat
  BY <1>1, <1>2
<1> HIDE DEF q, p, s
<1>4. m * q \in Nat /\ m * p \in Nat /\ m * (q - p) = m * q - m * p
  BY <1>3
<1>5. b - a = m * (q - p) /\ b - a \in Int /\ q - p \in Int
  BY <1>3, <1>4
<1> QED  BY <1>5, NoMultipleBetween

\* Blocks with fewer than a round of others between them are less than a round apart.
LEMMA LessThanARound ==
  ASSUME NEW a \in Nat, NEW b \in Nat, NEW n \in Nat, NEW m \in Nat,
         (b - 1) - (a + 1) + 1 <= n, n + 1 < m
  PROVE  b < a + m
OBVIOUS

-----------------------------------------------------------------------------
\* Sets of blocks.
LEMMA GapIsFinite ==
  ASSUME NEW k, NEW j \in Nat, NEW t \in Nat
  PROVE  IsFiniteSet(Gap(k, j, t)) /\ Cardinality(Gap(k, j, t)) \in Nat
<1>1. IsFiniteSet((j + 1)..t)
  BY FS_Interval
<1>2. Gap(k, j, t) \subseteq (j + 1)..t
  BY DEF Gap
<1> QED  BY <1>1, <1>2, FS_Subset, FS_CardinalityType

\* A part of a set has no more elements.
LEMMA FewerThan ==
  ASSUME NEW S, NEW T, IsFiniteSet(S), T \subseteq S, NEW n \in Nat, Cardinality(S) <= n
  PROVE  IsFiniteSet(T) /\ Cardinality(T) \in Nat /\ Cardinality(T) <= n
<1>1. IsFiniteSet(T) /\ Cardinality(T) <= Cardinality(S)
  BY FS_Subset
<1> QED  BY <1>1, FS_CardinalityType

\* An element more is one more at most.
LEMMA OneMoreThan ==
  ASSUME NEW S, NEW T, NEW x, IsFiniteSet(S), T \subseteq S \union {x}, NEW n \in Nat, Cardinality(S) <= n
  PROVE  IsFiniteSet(T) /\ Cardinality(T) \in Nat /\ Cardinality(T) <= n + 1
<1>1. Cardinality(S) \in Nat
  BY FS_CardinalityType
<1>2. /\ IsFiniteSet(S \union {x})
      /\ Cardinality(S \union {x}) = Cardinality(S) \/ Cardinality(S \union {x}) = Cardinality(S) + 1
  BY FS_AddElement
<1>3. IsFiniteSet(S \union {x}) /\ Cardinality(S \union {x}) <= n + 1
  BY <1>1, <1>2
<1> QED  BY <1>3, FewerThan

\* The empty set is the one with no elements.
LEMMA EmptyCounts ==
  ASSUME NEW S, IsFiniteSet(S)
  PROVE  S = {} <=> Cardinality(S) <= 0
BY FS_EmptySet, FS_CardinalityType

\* What the constants are.
LEMMA BlocksNumbers ==
  /\ Blocks \in Nat \ {0} /\ Files \in Nat \ {0} /\ MaxNoise \in Nat /\ MaxEnds \in Nat
  /\ Modulus \in Nat \ {0} /\ MaxRetries \in Nat \ {0}
BY BlocksAssumption

\* What the counters begin with is in their range.
LEMMA CountersBegin ==
  0 \in 0..(MaxRetries - 1) /\ 0 \in 0..MaxRetries /\ 1 \in 0..(Modulus - 1)
BY BlocksAssumption

-----------------------------------------------------------------------------
(***************************************************************************)
(* What a step does to the line and to its two ends.                       *)
(***************************************************************************)
\* A message more at the end, or none.
Longer ==
    /\ Len(forth') \in {Len(forth), Len(forth) + 1}
    /\ \A i \in 1..Len(forth) : forth'[i] = forth[i]

\* The first message taken.
Shorter ==
    /\ Len(forth) = Len(forth') + 1
    /\ \A i \in 1..Len(forth') : forth'[i] = forth[i + 1]

\* The last message lost, or a sign in its place.
Struck ==
    /\ Len(forth) \in Nat \ {0} /\ Len(forth') \in {Len(forth) - 1, Len(forth)}
    /\ \A i \in 1..(Len(forth) - 1) : forth'[i] = forth[i]
    /\ Len(forth') = Len(forth) => forth'[Len(forth)].kind # "block"

\* A message more is the last one.
LEMMA LineAppended ==
  ASSUME forth \in Seq(Messages), NEW m \in Messages, forth' = Append(forth, m)
  PROVE  /\ Longer /\ forth' \in Seq(Messages)
         /\ Len(forth') = Len(forth) + 1 /\ forth'[Len(forth) + 1] = m
<1> HIDE DEF Messages
<1> QED  BY DEF Longer

\* The receiver reads the first message.
LEMMA LineShortened ==
  ASSUME forth \in Seq(Messages), forth # <<>>, forth' = Tail(forth)
  PROVE  /\ Shorter /\ forth' \in Seq(Messages)
         /\ Head(forth) = forth[1] /\ Head(forth) \in Messages
<1> HIDE DEF Messages
<1> QED  BY DEF Shorter

\* Noise leaves the line with signs and blocks only.
LEMMA LineStruck ==
  ASSUME forth \in Seq(Messages), forth # <<>>,
         NEW damaged \in {<<>>} \union {<<Sign(k)>> : k \in {"noise", "strays", "EOT"}},
         forth' = Instead(forth, damaged)
  PROVE  Struck /\ forth' \in Seq(Messages)
<1>1. \A k \in {"noise", "strays", "EOT"} : Sign(k) \in Messages /\ Sign(k).kind # "block"
  BY DEF Sign, Messages, SignMessage
<1> HIDE DEF Messages
<1> DEFINE rest == SubSeq(forth, 1, Len(forth) - 1)
<1>6. Len(forth) \in Nat \ {0} /\ \A i \in 1..Len(forth) : forth[i] \in Messages
  OBVIOUS
<1>2. /\ rest \in Seq(Messages) /\ Len(forth) \in Nat \ {0} /\ Len(rest) = Len(forth) - 1
      /\ \A i \in 1..(Len(forth) - 1) : rest[i] = forth[i]
  <2>1. rest = [i \in 1..(Len(forth) - 1) |-> forth[i]]
    BY <1>6
  <2>2. \A i \in 1..(Len(forth) - 1) : forth[i] \in Messages
    BY <1>6
  <2>3. \A n \in Nat : \A f \in [1..n -> Messages] : f \in Seq(Messages) /\ Len(f) = n
    OBVIOUS
  <2>7. [i \in 1..(Len(forth) - 1) |-> forth[i]] \in [1..(Len(forth) - 1) -> Messages]
    BY <2>2
  <2>4. Len(forth) - 1 \in Nat /\ rest \in [1..(Len(forth) - 1) -> Messages]
    <3>1. Len(forth) - 1 \in Nat
      BY <1>6
    <3> QED  BY <2>1, <2>7, <3>1, Zenon
  <2>5. rest \in Seq(Messages) /\ Len(rest) = Len(forth) - 1
    BY <2>3, <2>4
  <2> HIDE DEF rest
  <2>6. \A i \in 1..(Len(forth) - 1) : rest[i] = forth[i]
    BY <2>1
  <2> QED  BY <1>6, <2>5, <2>6
<1> HIDE DEF rest
<1>3. forth' = rest \o damaged
  BY DEF Instead, rest
<1>4. CASE damaged = <<>>
  <2>1. forth' = rest
    BY <1>2, <1>3, <1>4
  <2> QED  BY <1>2, <2>1 DEF Struck
<1>5. ASSUME NEW k \in {"noise", "strays", "EOT"}, damaged = <<Sign(k)>>
      PROVE  Struck /\ forth' \in Seq(Messages)
  <2> DEFINE m == Sign(k)
  <2>1. m \in Messages /\ m.kind # "block"
    BY <1>1
  <2>4. damaged = <<m>>
    BY <1>5
  <2> HIDE DEF m
  <2>2. forth' = Append(rest, m)
    BY <1>2, <1>3, <2>1, <2>4
  <2>3. /\ Len(forth') = Len(forth) /\ forth'[Len(forth)] = m /\ forth' \in Seq(Messages)
        /\ \A i \in 1..(Len(forth) - 1) : forth'[i] = rest[i]
    BY <1>2, <2>1, <2>2
  <2> QED  BY <1>2, <2>1, <2>3 DEF Struck
<1> QED  BY <1>4, <1>5

\* Places are in an order.
LEMMA PlacesInOrder ==
  ASSUME NEW x \in BlockPlace, NEW y \in BlockPlace, NEW z \in BlockPlace
  PROVE  /\ NotAfter(x, x)
         /\ NotAfter(x, y) /\ NotAfter(y, z) => NotAfter(x, z)
BY BlocksNumbers DEF NotAfter, BlockPlace

\* What the sender becomes.
SenderIs(phase, file, block) ==
    blockSender'.phase = phase /\ blockSender'.file = file /\ blockSender'.block = block

SenderGoesOn(c) ==
    LET s == blockSender IN
    /\ blockSender'.check = IF s.phase = "await" THEN c ELSE s.check
    /\ \/ s.phase = "await" /\ c \in {"C", "NAK"} /\ SenderIs(IF ymodem THEN "header" ELSE "data", 1, 1)
       \/ s.phase = "header" /\ SenderIs("awaitData", s.file, s.block)
       \/ s.phase = "awaitData" /\ SenderIs("data", s.file, 1)
       \/ s.phase = "data" /\ s.block < Blocks /\ SenderIs("data", s.file, s.block + 1)
       \/ s.phase = "data" /\ s.block = Blocks /\ SenderIs(IF ymodem THEN "eot1" ELSE "eot", s.file, Blocks)
       \/ s.phase = "eot1" /\ SenderIs("eot2", s.file, Blocks)
       \/ s.phase = "eot2" /\ SenderIs("awaitNext", s.file, Blocks)
       \/ s.phase = "awaitNext" /\ s.file < Files /\ SenderIs("header", s.file + 1, Blocks)
       \/ s.phase = "awaitNext" /\ s.file = Files /\ SenderIs("last", s.file, Blocks)
       \/ s.phase \in {"eot", "last"} /\ SenderIs("done", s.file, s.block)

SenderMoves(c) ==
    \/ c \in Accepts(blockSender) /\ SenderGoesOn(c)
    \/ /\ c \notin Accepts(blockSender) /\ blockSender'.check = blockSender.check
       /\ \/ SenderIs(blockSender.phase, blockSender.file, blockSender.block)
          \/ SenderIs("failed", blockSender.file, blockSender.block)

\* An answer that ends a phase moves the sender to the next one.
LEMMA AcceptedMoves ==
  ASSUME SenderOK, ~Stopped(blockSender), NEW c, c \in Accepts(blockSender),
         blockSender' = SenderAfter(blockSender, c)
  PROVE  blockSender' \in SenderRecord /\ SenderMoves(c)
<1> DEFINE s == blockSender
           r == Chosen(s, c)
<1>1. s \in SenderRecord /\ ymodem \in BOOLEAN
  BY DEF SenderOK
<1>2. blockSender' = [NextPhase(r) EXCEPT !.tries = 0]
  BY DEF SenderAfter
<1>3. s.phase = "await" => c \in {"C", "NAK"}
  BY <1>1 DEF Accepts
<1>4. /\ r \in SenderRecord /\ r.phase = s.phase /\ r.file = s.file /\ r.block = s.block
      /\ r.check = IF s.phase = "await" THEN c ELSE s.check
  BY <1>1, <1>3 DEF Chosen, SenderRecord
<1>5. SUFFICES /\ NextPhase(r) \in SenderRecord
               /\ SenderGoesOn(c)
  BY <1>2, CountersBegin DEF SenderRecord, SenderMoves
<1>6. s.phase \in {"await", "header", "awaitData", "data", "eot", "eot1", "eot2", "awaitNext", "last"}
  BY <1>1 DEF Stopped, SenderRecord, SenderPhase
<1> HIDE DEF r
<1>7. s.phase = "await" => s.file = 1 /\ s.block = 1
  BY DEF SenderOK
<1>8. s.phase \in {"eot", "eot1", "eot2", "awaitNext"} => s.block = Blocks
  BY DEF SenderOK
<1>9. CASE s.phase = "await"
  BY <1>1, <1>2, <1>3, <1>4, <1>7, <1>9 DEF NextPhase, SenderGoesOn, SenderIs, SenderRecord, SenderPhase
<1>10. CASE s.phase = "data"
  BY <1>1, <1>2, <1>4, <1>10, BlocksNumbers DEF NextPhase, MoreBlocks, SenderGoesOn, SenderIs, SenderRecord, SenderPhase
<1>11. CASE s.phase = "awaitNext"
  <2>1. r.phase = "awaitNext" /\ s.block = Blocks
    BY <1>4, <1>8, <1>11
  <2>2. CASE r.file < Files
    <3>1. NextPhase(r) = [r EXCEPT !.phase = "header", !.file = @ + 1]
      BY <2>1, <2>2 DEF NextPhase
    <3>2. r.file + 1 \in 1..Files
      BY <1>4, <2>2, BlocksNumbers DEF SenderRecord
    <3>3. NextPhase(r) \in SenderRecord
      BY <1>4, <3>1, <3>2 DEF SenderRecord, SenderPhase
    <3> QED  BY <1>2, <1>4, <1>11, <2>1, <2>2, <3>1, <3>3 DEF SenderGoesOn, SenderIs, SenderRecord
  <2>3. CASE ~(r.file < Files)
    <3>1. NextPhase(r) = [r EXCEPT !.phase = "last"]
      BY <2>1, <2>3 DEF NextPhase
    <3>2. r.file = Files
      BY <1>4, <2>3, BlocksNumbers DEF SenderRecord
    <3>3. NextPhase(r) \in SenderRecord
      BY <1>4, <3>1 DEF SenderRecord, SenderPhase
    <3> QED  BY <1>2, <1>4, <1>11, <2>1, <3>1, <3>2, <3>3 DEF SenderGoesOn, SenderIs, SenderRecord
  <2> QED  BY <2>2, <2>3
<1>12. CASE s.phase = "header"
  BY <1>1, <1>2, <1>4, <1>12 DEF NextPhase, SenderGoesOn, SenderIs, SenderRecord, SenderPhase
<1>13. CASE s.phase = "awaitData"
  <2>1. NextPhase(r) = [r EXCEPT !.phase = "data", !.block = 1]
    BY <1>4, <1>13 DEF NextPhase
  <2>2. NextPhase(r) \in SenderRecord
    <3>1. 1 \in 1..Blocks
      BY BlocksNumbers
    <3> QED  BY <1>4, <2>1, <3>1 DEF SenderRecord, SenderPhase
  <2> QED  BY <1>2, <1>4, <1>13, <2>1, <2>2 DEF SenderGoesOn, SenderIs, SenderRecord
<1>14. CASE s.phase \in {"eot", "eot1", "eot2", "last"}
  BY <1>1, <1>2, <1>4, <1>8, <1>14 DEF NextPhase, SenderGoesOn, SenderIs, SenderRecord, SenderPhase
<1> QED  BY <1>6, <1>9, <1>10, <1>11, <1>12, <1>13, <1>14

\* Any other answer, or none, leaves the sender where it was, or makes it give up.
LEMMA RefusedMoves ==
  ASSUME SenderOK, ~Stopped(blockSender), NEW c, c \notin Accepts(blockSender),
         blockSender' = SenderAfter(blockSender, c)
  PROVE  blockSender' \in SenderRecord /\ SenderMoves(c)
<1>1. blockSender \in SenderRecord
  BY DEF SenderOK
<1>2. \/ blockSender' = [blockSender EXCEPT !.tries = @ + 1] /\ blockSender.tries + 1 < MaxRetries
      \/ blockSender' = [blockSender EXCEPT !.phase = "failed"]
  BY DEF SenderAfter
<1>3. blockSender.tries + 1 < MaxRetries => blockSender.tries + 1 \in 0..(MaxRetries - 1)
  BY <1>1, BlocksNumbers DEF SenderRecord
<1> QED  BY <1>1, <1>2, <1>3 DEF SenderMoves, SenderIs, SenderRecord, SenderPhase

\* So each read moves the sender by one phase at most.
LEMMA SenderTakesMoves ==
  ASSUME SenderOK, NEW c, SenderTakes(c)
  PROVE  blockSender' \in SenderRecord /\ SenderMoves(c) /\ Live
BY AcceptedMoves, RefusedMoves DEF SenderTakes, Stopped, Live

\* Every step of the sender keeps it well formed.
LEMMA SenderStaysOK ==
  ASSUME SenderOK, NEW c, SenderTakes(c)
  PROVE  SenderOK'
<1>1. blockSender' \in SenderRecord /\ SenderMoves(c) /\ blockSender \in SenderRecord
  BY SenderTakesMoves DEF SenderOK
<1>2. ymodem' = ymodem
  BY DEF SenderTakes
<1>3. blockSender.phase \in SenderPhase \ {"done", "failed"}
  BY <1>1 DEF SenderTakes, Stopped, SenderRecord
<1>4. blockSender'.phase = "await" => blockSender.phase = "await"
  BY <1>1, <1>2 DEF SenderMoves, SenderGoesOn, SenderIs, SenderOK
<1>5. blockSender'.phase = "await" => forth' = <<>> /\ blockSender'.file = 1 /\ blockSender'.block = 1
  <2> SUFFICES ASSUME blockSender'.phase = "await"
               PROVE  forth' = <<>> /\ blockSender'.file = 1 /\ blockSender'.block = 1
    OBVIOUS
  <2>1. forth = <<>> /\ blockSender.file = 1 /\ blockSender.block = 1
    BY <1>4 DEF SenderOK
  <2>2. Sends(blockSender') = <<>>
    BY DEF Sends
  <2>3. forth' = <<>>
    BY <2>1, <2>2 DEF SenderTakes
  <2> QED  BY <1>1, <1>4, <2>1, <2>3 DEF SenderMoves, SenderGoesOn, SenderIs
<1>6. blockSender'.phase \in {"eot", "eot1", "eot2", "awaitNext"} => blockSender'.block = Blocks
  BY <1>1, <1>2 DEF SenderMoves, SenderGoesOn, SenderIs, SenderOK
<1>7. ymodem => blockSender'.phase # "eot" /\ blockSender'.check = "C"
  <2>1. ymodem /\ blockSender.phase = "await" /\ c \in Accepts(blockSender) => c = "C"
    BY DEF Accepts
  <2> QED  BY <1>1, <2>1 DEF SenderMoves, SenderGoesOn, SenderIs, SenderOK
<1>8. ~ymodem => /\ blockSender'.phase \in {"await", "data", "eot", "done", "failed"}
                 /\ blockSender'.file = 1
  BY <1>1 DEF SenderMoves, SenderGoesOn, SenderIs, SenderOK
<1> QED  BY <1>1, <1>2, <1>5, <1>6, <1>7, <1>8 DEF SenderOK

LastIs(kind) == Len(forth') = Len(forth) + 1 /\ forth'[Len(forth) + 1].kind = kind

\* What the sender sends in each phase.
SentInPhase ==
    LET phase == blockSender'.phase IN
    \/ phase \in {"await", "awaitData", "awaitNext", "done"} /\ Len(forth') = Len(forth)
    \/ /\ phase \in {"header", "data", "last"} /\ LastIs("block")
       /\ forth'[Len(forth) + 1].data = Place'
       /\ forth'[Len(forth) + 1].check = IF phase = "data" THEN blockSender'.check ELSE "C"
    \/ phase \in {"eot", "eot1", "eot2"} /\ LastIs("EOT")
    \/ phase = "failed" /\ LastIs("CAN")

\* What the sender sent last is a place of a block.
LEMMA PlaceIsOne == SenderOK => Place \in BlockPlace /\ (~ymodem => Place[1] = 1)
<1> SUFFICES ASSUME SenderOK PROVE Place \in BlockPlace /\ (~ymodem => Place[1] = 1)
  OBVIOUS
<1>1. blockSender \in SenderRecord
  BY DEF SenderOK
<1>2. 0 \in 0..Blocks /\ Blocks \in 0..Blocks /\ 1 \in 1..Files /\ 1..Blocks \subseteq 0..Blocks
  BY BlocksNumbers
<1> QED  BY <1>1, <1>2 DEF Place, BlockPlace, SenderRecord, SenderOK

\* The number of a header is that of block 0.
LEMMA HeadersHaveNumberZero == 0 % Modulus = 0
<1>1. 0 = Modulus * 0 + 0 /\ 0 \in 0..(Modulus - 1)
  BY BlocksNumbers
<1> QED  BY <1>1, BlocksNumbers, RemainderIs

\* The sender sends what its new phase asks for.
LEMMA SendsMessage ==
  ASSUME SenderOK', forth \in Seq(Messages), forth' = forth \o Sends(blockSender'), ymodem' = ymodem,
         \A i \in 1..Len(forth) : MessageOK(forth[i])
  PROVE  /\ Longer /\ SentInPhase /\ forth' \in Seq(Messages)
         /\ (\A i \in 1..Len(forth) : MessageOK(forth[i]))'
<1> DEFINE n == blockSender'
           p == Place'
<1>1. n \in SenderRecord /\ p \in BlockPlace /\ (~ymodem => p[1] = 1)
  <2>1. (SenderOK => Place \in BlockPlace /\ (~ymodem => Place[1] = 1))'
    BY PlaceIsOne, PTL
  <2> QED  BY <2>1 DEF SenderOK
<1>2. \A m : m \in SignMessage => m \in Messages /\ MessageOK(m)'
  BY DEF SignMessage, Messages, MessageOK
<1>3. \A q \in BlockPlace, check \in {"C", "NAK"} :
         (ymodem => check = "C") /\ (~ymodem => q[1] = 1) =>
         \A m : m = BlockOf(q[2] % Modulus, q, check) => m \in Messages /\ MessageOK(m)'
  <2> SUFFICES ASSUME NEW q \in BlockPlace, NEW check \in {"C", "NAK"},
                      (ymodem => check = "C") /\ (~ymodem => q[1] = 1),
                      NEW m, m = BlockOf(q[2] % Modulus, q, check)
               PROVE  m \in Messages /\ MessageOK(m)'
    OBVIOUS
  <2>1. q[2] \in Nat
    BY BlocksNumbers DEF BlockPlace
  <2>2. q[2] % Modulus \in 0..(Modulus - 1)
    BY <2>1, BlocksNumbers, DivMod
  <2>3. q[2] % Modulus \in Nat
    BY <2>2, BlocksNumbers
  <2> QED  BY <2>3 DEF BlockOf, Messages, BlockMessage, MessageOK
<1>4. \A m : m \in Messages /\ MessageOK(m)' /\ forth' = forth \o <<m>> =>
        /\ Longer /\ forth' \in Seq(Messages) /\ Len(forth') = Len(forth) + 1 /\ forth'[Len(forth) + 1] = m
        /\ (\A i \in 1..Len(forth) : MessageOK(forth[i]))'
  <2> SUFFICES ASSUME NEW m \in Messages, MessageOK(m)', forth' = forth \o <<m>>
               PROVE  /\ Longer /\ forth' \in Seq(Messages)
                      /\ Len(forth') = Len(forth) + 1 /\ forth'[Len(forth) + 1] = m
                      /\ (\A i \in 1..Len(forth) : MessageOK(forth[i]))'
    OBVIOUS
  <2> HIDE DEF Messages
  <2>1. forth' = Append(forth, m)
    OBVIOUS
  <2>2. /\ Longer /\ forth' \in Seq(Messages) /\ Len(forth') = Len(forth) + 1 /\ forth'[Len(forth) + 1] = m
    BY <2>1, LineAppended
  <2>3. \A x : MessageOK(x) => MessageOK(x)'
    BY DEF MessageOK
  <2>4. Len(forth) \in Nat
    OBVIOUS
  <2>5. Len(forth') = Len(forth) + 1
    BY <2>2
  <2>6. \A i \in 1..Len(forth') : i \in 1..Len(forth) \/ i = Len(forth) + 1
    BY <2>4, <2>5
  <2>7. \A i \in 1..Len(forth) : forth'[i] = forth[i]
    BY <2>2 DEF Longer
  <2>8. \A i \in 1..Len(forth') : \E x : forth'[i] = x /\ MessageOK(x)'
    BY <2>2, <2>3, <2>6, <2>7
  <2>9. (\A i \in 1..Len(forth) : MessageOK(forth[i]))'
    BY <2>8 DEF MessageOK
  <2> QED  BY <2>2, <2>9
<1>5. CASE n.phase \in {"eot", "eot1", "eot2"}
  <2>1. Sends(n) = <<Sign("EOT")>> /\ Sign("EOT") \in SignMessage /\ Sign("EOT").kind = "EOT"
    BY <1>5 DEF Sends, Sign, SignMessage
  <2> QED  BY <1>2, <1>4, <1>5, <2>1 DEF SentInPhase, LastIs
<1>6. CASE n.phase = "failed"
  <2>1. Sends(n) = <<Sign("CAN")>> /\ Sign("CAN") \in SignMessage /\ Sign("CAN").kind = "CAN"
    BY <1>6 DEF Sends, Sign, SignMessage
  <2> QED  BY <1>2, <1>4, <1>6, <2>1 DEF SentInPhase, LastIs
<1>7. CASE n.phase \in {"header", "data", "last"}
  <2> DEFINE check == IF n.phase = "data" THEN n.check ELSE "C"
  <2>1. check \in {"C", "NAK"} /\ (ymodem => check = "C")
    BY <1>1 DEF SenderRecord, SenderOK
  <2>2. n.phase \in {"header", "last"} => ymodem
    BY DEF SenderOK
  <2> PICK m : m = BlockOf(p[2] % Modulus, p, check)
    OBVIOUS
  <2>3. Sends(n) = <<m>>
    BY <1>1, <1>7, <2>2, HeadersHaveNumberZero DEF Sends, Place, BlockOf
  <2>4. m \in Messages /\ MessageOK(m)' /\ m.kind = "block" /\ m.data = p /\ m.check = check
    BY <1>1, <1>3, <2>1 DEF BlockOf
  <2>5. /\ Longer /\ forth' \in Seq(Messages) /\ Len(forth') = Len(forth) + 1 /\ forth'[Len(forth) + 1] = m
        /\ (\A i \in 1..Len(forth) : MessageOK(forth[i]))'
    BY <1>4, <2>3, <2>4, Zenon
  <2> QED  BY <1>7, <2>4, <2>5 DEF SentInPhase, LastIs
<1>8. CASE n.phase \in {"await", "awaitData", "awaitNext", "done"}
  <2>1. Sends(n) = <<>>
    BY <1>8 DEF Sends
  <2>2. forth' = forth
    <3> HIDE DEF Messages
    <3> QED  BY <2>1
  <2>3. \A x : MessageOK(x) => MessageOK(x)'
    BY DEF MessageOK
  <2>4. Len(forth) \in Nat
    OBVIOUS
  <2>5. (\A i \in 1..Len(forth) : MessageOK(forth[i]))'
    BY <2>2 DEF MessageOK
  <2> HIDE DEF Messages
  <2> QED  BY <1>8, <2>2, <2>4, <2>5 DEF SentInPhase, Longer
<1> QED  BY <1>1, <1>5, <1>6, <1>7, <1>8 DEF SenderRecord, SenderPhase

\* The sender stays where it is, or goes on by one block or from file to file.
Travels ==
    \/ Place' = Place
    \/ /\ LastIs("block") /\ Place[1] \in 1..Files /\ Place[2] \in 0..(Blocks - 1)
       /\ Place' = <<Place[1], Place[2] + 1>>
    \/ /\ LastIs("block") /\ Place[1] \in 1..Files /\ Place[2] = Blocks
       /\ blockSender.phase = "awaitNext"
       /\ (Place' = <<0, 0>> /\ Place[1] = Files) \/ Place' = <<Place[1] + 1, 0>>

\* The ends of a file.
SendsEnds ==
    LET phase == blockSender.phase IN
    /\ blockSender'.phase \in {"eot", "eot1", "eot2", "awaitNext"} =>
          Place' = Place /\ Place = <<blockSender.file, Blocks>> /\ blockSender'.file = blockSender.file
    /\ blockSender'.phase = "awaitNext" => phase \in {"eot2", "awaitNext"}
    /\ blockSender'.phase = "eot2" => phase \in {"eot1", "eot2"}

\* The sender's place moves by one block, or to the next header once the file is done.
LEMMA SenderTravels ==
  ASSUME NEW c, SenderOK, SenderOK', SentInPhase, SenderMoves(c), Live, Live', ~Stopped(blockSender),
         ymodem' = ymodem
  PROVE  Travels /\ SendsEnds
<1> DEFINE s == blockSender
           n == blockSender'
<1>1. /\ s \in SenderRecord /\ n \in SenderRecord /\ Live /\ Live'
      /\ s.file \in 1..Files /\ s.block \in 1..Blocks /\ s.phase \in SenderPhase \ {"done", "failed"}
      /\ n.phase # "failed"
  BY DEF SenderOK, SenderRecord, Live, Stopped
<1>2. /\ s.phase \in {"eot", "eot1", "eot2", "awaitNext"} => s.block = Blocks
      /\ ~ymodem => s.phase \in {"await", "data", "eot"} /\ s.file = 1
      /\ ymodem => s.phase # "eot"
      /\ s.phase = "await" => s.file = 1 /\ s.block = 1
  BY <1>1 DEF SenderOK
<1> DEFINE PlaceOf(phase, file, block) ==
             CASE phase \in {"last", "done"} -> IF ymodem THEN <<0, 0>> ELSE <<1, Blocks>>
               [] phase \in {"await", "header", "awaitData"} -> <<file, 0>>
               [] OTHER -> <<file, block>>
<1>3. Place = PlaceOf(s.phase, s.file, s.block) /\ Place' = PlaceOf(n.phase, n.file, n.block)
  BY DEF Place
<1>4. CASE SenderIs(s.phase, s.file, s.block)
  <2>1. Place' = Place
    BY <1>3, <1>4 DEF SenderIs
  <2>2. s.phase \in {"eot", "eot1", "eot2", "awaitNext"} => Place = <<s.file, Blocks>>
    BY <1>2, <1>3
  <2> QED  BY <1>4, <2>1, <2>2 DEF SenderIs, Travels, SendsEnds
<1>5. CASE SenderGoesOn(c)
  <2>1. CASE s.phase \in {"await", "header"} /\ n.phase # "data"
    BY <1>1, <1>2, <1>3, <1>5, <2>1 DEF SenderGoesOn, SenderIs, Travels, SendsEnds
  <2>2. CASE n.phase = "data"
    <3>1. LastIs("block")
      BY <2>2 DEF SentInPhase
    <3>2. \/ Place = <<s.file, 0>> /\ n.block = 1
          \/ Place = <<s.file, s.block>> /\ s.block < Blocks /\ n.block = s.block + 1
      BY <1>1, <1>2, <1>3, <1>5, <2>2 DEF SenderGoesOn, SenderIs
    <3>3. Place' = <<s.file, n.block>>
      BY <1>1, <1>2, <1>3, <1>5, <2>2 DEF SenderGoesOn, SenderIs
    <3> QED  BY <1>1, <2>2, <3>1, <3>2, <3>3, BlocksNumbers DEF Travels, SendsEnds
  <2>3. CASE s.phase = "data" /\ n.phase # "data"
    BY <1>1, <1>2, <1>3, <1>5, <2>3 DEF SenderGoesOn, SenderIs, Travels, SendsEnds
  <2>4. CASE s.phase \in {"eot", "eot1", "eot2"}
    BY <1>1, <1>2, <1>3, <1>5, <2>4 DEF SenderGoesOn, SenderIs, Travels, SendsEnds
  <2>5. CASE s.phase = "awaitNext"
    <3>1. n.phase \in {"header", "last"} /\ LastIs("block")
      BY <1>5, <2>5 DEF SenderGoesOn, SenderIs, SentInPhase
    <3>2. /\ Place = <<s.file, Blocks>>
          /\ (Place' = <<0, 0>> /\ s.file = Files) \/ Place' = <<s.file + 1, 0>>
      BY <1>1, <1>2, <1>3, <1>5, <2>5 DEF SenderGoesOn, SenderIs
    <3> QED  BY <1>1, <2>5, <3>1, <3>2 DEF Travels, SendsEnds
  <2>6. CASE s.phase = "last"
    BY <1>1, <1>2, <1>3, <1>5, <2>6 DEF SenderGoesOn, SenderIs, Travels, SendsEnds
  <2>7. s.phase = "awaitData" => n.phase = "data"
    BY <1>5 DEF SenderGoesOn, SenderIs
  <2> QED  BY <1>1, <2>1, <2>2, <2>3, <2>4, <2>5, <2>6, <2>7 DEF SenderPhase
<1> QED  BY <1>1, <1>4, <1>5 DEF SenderMoves, SenderIs

SenderSteps ==
    /\ Longer /\ SentInPhase /\ Live /\ (Live' => Travels /\ SendsEnds)
    /\ UNCHANGED <<ymodem, blockReceiver, installed, noise, endNoise>>

\* What a step of the sender does, in one statement for the lemmas that follow.
LEMMA SenderDoes ==
  ASSUME EndsOK, NEW c, SenderTakes(c)
  PROVE  /\ SenderSteps /\ SenderOK' /\ SenderMoves(c) /\ forth' \in Seq(Messages)
         /\ (\A i \in 1..Len(forth) : MessageOK(forth[i]))'
<1>1. SenderOK' /\ SenderMoves(c) /\ Live
  BY SenderStaysOK, SenderTakesMoves DEF EndsOK
<1>2. /\ Longer /\ SentInPhase /\ forth' \in Seq(Messages)
      /\ (\A i \in 1..Len(forth) : MessageOK(forth[i]))'
  <2> HIDE DEF Messages
  <2>1. /\ forth \in Seq(Messages) /\ forth' = forth \o Sends(blockSender') /\ ymodem' = ymodem
        /\ \A i \in 1..Len(forth) : MessageOK(forth[i])
    BY DEF SenderTakes, EndsOK, LineOK
  <2> QED  BY <1>1, <2>1, SendsMessage
<1>3. Live' => Travels /\ SendsEnds
  <2>1. ~Stopped(blockSender) /\ ymodem' = ymodem
    BY DEF SenderTakes
  <2> QED  BY <1>1, <1>2, <2>1, SenderTravels DEF EndsOK
<1> QED  BY <1>1, <1>2, <1>3 DEF SenderSteps, SenderTakes

\* What is on the line, and where it is from.
LEMMA LineHolds == LineOK =>
  /\ Len(forth) \in Nat
  /\ \A i \in 1..Len(forth) : forth[i].kind = "block" => forth[i].data \in BlockPlace
  /\ \A i : IsBlock(i) => i \in 1..Len(forth) /\ forth[i].kind = "block" /\ forth[i].data \in BlockPlace
<1> SUFFICES ASSUME LineOK
             PROVE  /\ Len(forth) \in Nat
                    /\ \A i \in 1..Len(forth) : forth[i].kind = "block" => forth[i].data \in BlockPlace
  BY DEF IsBlock
<1>1. Len(forth) \in Nat /\ \A i \in 1..Len(forth) : forth[i] \in Messages
  <2> HIDE DEF Messages
  <2> QED  BY DEF LineOK
<1> QED  BY <1>1 DEF Messages, BlockMessage, SignMessage

\* What the sender adds to the line is at its end, and of its new place.
LEMMA SenderLine ==
  ASSUME EndsOK, SenderSteps
  PROVE  /\ Len(forth) \in Nat /\ Len(forth') \in Nat
         /\ \A i \in 1..Len(forth') : (i \in 1..Len(forth) /\ forth'[i] = forth[i]) \/ i = Len(forth) + 1
         /\ \A i \in 1..Len(forth) : i \in 1..Len(forth') /\ forth'[i] = forth[i] /\ i # Len(forth) + 1
         /\ Len(forth) + 1 \in 1..Len(forth') /\ forth'[Len(forth) + 1].kind = "block" =>
              Live' /\ forth'[Len(forth) + 1].data = Place'
         /\ Len(forth) + 1 \in 1..Len(forth') /\ forth'[Len(forth) + 1].kind = "EOT" =>
              Live' /\ blockSender'.phase \in {"eot", "eot1", "eot2"}
<1>1. Len(forth) \in Nat
  BY LineHolds DEF EndsOK
<1>2. Len(forth') \in {Len(forth), Len(forth) + 1} /\ \A i \in 1..Len(forth) : forth'[i] = forth[i]
  BY DEF SenderSteps, Longer
<1>3. /\ Len(forth') \in Nat
      /\ \A i \in 1..Len(forth') : (i \in 1..Len(forth) /\ forth'[i] = forth[i]) \/ i = Len(forth) + 1
      /\ \A i \in 1..Len(forth) : i \in 1..Len(forth') /\ forth'[i] = forth[i] /\ i # Len(forth) + 1
      /\ Len(forth) + 1 \in 1..Len(forth') => Len(forth') # Len(forth)
  BY <1>1, <1>2
<1>4. Len(forth') # Len(forth) =>
        /\ forth'[Len(forth) + 1].kind = "block" => Live' /\ forth'[Len(forth) + 1].data = Place'
        /\ forth'[Len(forth) + 1].kind = "EOT" => Live' /\ blockSender'.phase \in {"eot", "eot1", "eot2"}
  BY DEF SenderSteps, SentInPhase, LastIs, Live
<1> QED  BY <1>1, <1>3, <1>4

\* The sender never goes back.
LEMMA PlaceMovesOn ==
  ASSUME EndsOK, SenderSteps, SenderOK', Live'
  PROVE  Place \in BlockPlace /\ Place' \in BlockPlace /\ NotAfter(Place, Place')
<1>1. Place \in BlockPlace
  BY PlaceIsOne DEF EndsOK
<1>2. Place' \in BlockPlace
  <2>1. (SenderOK => Place \in BlockPlace /\ (~ymodem => Place[1] = 1))'
    BY PlaceIsOne, PTL
  <2> QED  BY <2>1
<1>3. Travels
  BY DEF SenderSteps
<1>4. CASE Place' = Place
  BY <1>1, <1>4, PlacesInOrder
<1>5. CASE Place[1] \in 1..Files /\ Place[2] \in 0..(Blocks - 1) /\ Place' = <<Place[1], Place[2] + 1>>
  <2>1. Place'[1] = Place[1] /\ Place'[2] = Place[2] + 1
    BY <1>5
  <2> QED  BY <1>1, <1>2, <1>5, <2>1, BlocksNumbers DEF NotAfter
<1>6. CASE Place[1] \in 1..Files /\ Place' \in {<<0, 0>>, <<Place[1] + 1, 0>>}
  <2>1. Place'[1] \in {0, Place[1] + 1} /\ Place[1] \in Nat \ {0}
    BY <1>6, BlocksNumbers
  <2> QED  BY <1>1, <1>2, <2>1 DEF NotAfter
<1> QED  BY <1>1, <1>2, <1>3, <1>4, <1>5, <1>6 DEF Travels

\* So blocks are on their way in the order of the file.
LEMMA SenderKeepsOrder ==
  ASSUME EndsOK, Ordered, SenderSteps, SenderOK'
  PROVE  Ordered'
<1>1. \A i \in 1..Len(forth) : forth[i].kind = "block" => forth[i].data \in BlockPlace
  BY LineHolds DEF EndsOK
<1>2. \A i \in 1..Len(forth') : forth'[i].kind = "block" /\ Live' => NotAfter(forth'[i].data, Place')
  <2> SUFFICES ASSUME NEW i \in 1..Len(forth'), forth'[i].kind = "block", Live'
               PROVE  NotAfter(forth'[i].data, Place')
    OBVIOUS
  <2>1. Place \in BlockPlace /\ Place' \in BlockPlace /\ NotAfter(Place, Place') /\ NotAfter(Place', Place')
    BY PlaceMovesOn, PlacesInOrder
  <2>2. CASE i \in 1..Len(forth) /\ forth'[i] = forth[i]
    <3>1. forth[i].data \in BlockPlace /\ NotAfter(forth[i].data, Place)
      BY <1>1, <2>2 DEF Ordered, IsBlock, SenderSteps
    <3> QED  BY <2>1, <2>2, <3>1, PlacesInOrder
  <2>3. CASE i = Len(forth) + 1
    BY <2>1, <2>3, SenderLine
  <2> QED  BY <2>2, <2>3, SenderLine
<1>3. \A i, j \in 1..Len(forth') : i < j /\ forth'[i].kind = "block" /\ forth'[j].kind = "block" =>
         NotAfter(forth'[i].data, forth'[j].data)
  <2> SUFFICES ASSUME NEW i \in 1..Len(forth'), NEW j \in 1..Len(forth'), i < j,
                      forth'[i].kind = "block", forth'[j].kind = "block"
               PROVE  NotAfter(forth'[i].data, forth'[j].data)
    OBVIOUS
  <2>1. CASE j \in 1..Len(forth) /\ forth'[j] = forth[j]
    <3>1. i \in 1..Len(forth) /\ forth'[i] = forth[i]
      BY <2>1, SenderLine
    <3> QED  BY <2>1, <3>1 DEF Ordered, IsBlock
  <2>2. CASE j = Len(forth) + 1
    <3>1. Live' /\ forth'[j].data = Place'
      BY <2>2, SenderLine
    <3> QED  BY <1>2, <3>1
  <2> QED  BY <2>1, <2>2, SenderLine
<1> QED  BY <1>2, <1>3 DEF Ordered, IsBlock

\* And the receiver stays behind all of them.
LEMMA SenderKeepsBehind ==
  ASSUME EndsOK, Behind, SenderSteps, SenderOK'
  PROVE  Behind'
<1> DEFINE at == <<blockReceiver.file, Len(blockReceiver.got)>>
<1> SUFFICES ASSUME blockReceiver.phase = "data"
             PROVE  /\ at[2] <= Blocks
                    /\ \A i \in 1..Len(forth') : forth'[i].kind = "block" => NotAfter(at, forth'[i].data)
                    /\ Live' => NotAfter(at, Place')
  BY DEF Behind, IsBlock, SenderSteps
<1>1. /\ at[2] <= Blocks
      /\ \A i \in 1..Len(forth) : forth[i].kind = "block" => NotAfter(at, forth[i].data)
      /\ NotAfter(at, Place)
  BY DEF Behind, IsBlock, SenderSteps
<1>2. at \in BlockPlace
  BY <1>1, BlocksNumbers DEF EndsOK, ReceiverOK, ReceiverRecord, BlockPlace
<1> HIDE DEF at
<1>3. Live' => NotAfter(at, Place')
  BY <1>1, <1>2, PlaceMovesOn, PlacesInOrder
<1> QED  BY <1>1, <1>3, SenderLine

\* What the sender sends is on its way.
LEMMA SenderUnder ==
  ASSUME EndsOK, SenderSteps, NEW k, NEW b
  PROVE  /\ Under(k, b) => Under(k, b)'
         /\ Under(k, b)' => Under(k, b) \/ (Live' /\ Place' = <<k, b>>)
         /\ LastIs("block") /\ Place' = <<k, b>> => Under(k, b)'
<1>1. Under(k, b) <=> \E i \in 1..Len(forth) : forth[i].kind = "block" /\ forth[i].data = <<k, b>>
  BY DEF Under, IsBlock
<1>2. Under(k, b)' <=> \E i \in 1..Len(forth') : forth'[i].kind = "block" /\ forth'[i].data = <<k, b>>
  BY DEF Under, IsBlock
<1>3. Under(k, b) => Under(k, b)'
  BY <1>1, <1>2, SenderLine
<1>4. Under(k, b)' => Under(k, b) \/ (Live' /\ Place' = <<k, b>>)
  BY <1>1, <1>2, SenderLine
<1>5. LastIs("block") /\ Place' = <<k, b>> => Under(k, b)'
  <2> SUFFICES ASSUME LastIs("block"), Place' = <<k, b>> PROVE Under(k, b)'
    OBVIOUS
  <2>1. Len(forth) + 1 \in 1..Len(forth') /\ forth'[Len(forth) + 1].kind = "block"
    BY SenderLine DEF LastIs
  <2> QED  BY <1>2, <2>1, SenderLine
<1> QED  BY <1>3, <1>4, <1>5

\* The more is on its way, the smaller a gap.
LEMMA GapShrinks ==
  ASSUME NEW k, NEW j, NEW t, \A b : Under(k, b) => Under(k, b)'
  PROVE  Gap(k, j, t)' \subseteq Gap(k, j, t)
BY DEF Gap

\* No block is left out by the sender.
LEMMA SenderLeavesNoGap ==
  ASSUME EndsOK, SenderSteps, SenderOK', NEW k \in 1..Files, NEW j \in 0..Blocks, NEW t \in 0..Blocks,
         Reached(k, t)'
  PROVE  \/ Gap(k, j, t)' = {}
         \/ \E u \in 0..Blocks : Reached(k, u) /\ Gap(k, j, t)' \subseteq Gap(k, j, u)
<1>1. \A b : Under(k, b) => Under(k, b)'
  BY SenderUnder
<1>2. Gap(k, j, t)' \subseteq Gap(k, j, t)
  BY <1>1, GapShrinks
<1>3. CASE Under(k, t)
  BY <1>2, <1>3 DEF Reached
<1>4. Under(k, t)' => Under(k, t) \/ (Live' /\ Place' = <<k, t>>)
  BY SenderUnder
<1>5. k \in Nat \ {0} /\ j \in Nat /\ t \in Nat /\ Blocks \in Nat /\ Live
  BY BlocksNumbers DEF SenderSteps
<1>6. CASE Live' /\ Place' = <<k, t>>
  <2>1. CASE Place' = Place
    BY <1>2, <1>5, <1>6, <2>1 DEF Reached
  <2>2. CASE /\ LastIs("block") /\ Place[1] \in 1..Files /\ Place[2] \in 0..(Blocks - 1)
             /\ Place' = <<Place[1], Place[2] + 1>>
    <3>1. Place[1] = k /\ Place[2] + 1 = t /\ Place[2] \in 0..Blocks
      BY <1>5, <1>6, <2>2
    <3>2. Reached(k, Place[2])
      <4>1. Place \in BlockPlace
        BY PlaceIsOne DEF EndsOK
      <4>2. Place = <<k, Place[2]>>
        BY <3>1, <4>1 DEF BlockPlace
      <4> QED  BY <1>5, <4>2 DEF Reached
    <3>3. Under(k, t)'
      BY <1>6, <2>2, SenderUnder
    <3>4. Gap(k, j, t)' \subseteq Gap(k, j, Place[2])
      <4> SUFFICES ASSUME NEW b \in Gap(k, j, t)' PROVE b \in Gap(k, j, Place[2])
        OBVIOUS
      <4>1. b \in (j + 1)..t /\ ~Under(k, b)' /\ ~Under(k, b)
        BY <1>1 DEF Gap
      <4>2. b # t
        BY <3>3, <4>1
      <4> QED  BY <1>5, <3>1, <4>1, <4>2 DEF Gap
    <3> QED  BY <3>1, <3>2, <3>4
  <2>3. CASE (Place' = <<0, 0>> /\ Place[1] = Files) \/ Place' = <<Place[1] + 1, 0>>
    <3>1. t = 0
      BY <1>5, <1>6, <2>3
    <3> QED  BY <1>5, <3>1 DEF Gap
  <2> QED  BY <1>6, <2>1, <2>2, <2>3 DEF SenderSteps, Travels
<1>7. CASE Live' /\ t = Blocks /\ Overtaken(k)'
  <2>1. Place'[1] = 0 \/ k < Place'[1]
    BY <1>7 DEF Overtaken
  <2>2. (Place[1] = 0 \/ k < Place[1]) \/ Place = <<k, Blocks>>
    <3>1. CASE Place' = Place
      BY <2>1, <3>1
    <3>2. CASE Place[1] \in 1..Files /\ Place' = <<Place[1], Place[2] + 1>>
      BY <2>1, <3>2
    <3>3. CASE /\ Place[1] \in 1..Files /\ Place[2] = Blocks
               /\ (Place' = <<0, 0>> /\ Place[1] = Files) \/ Place' = <<Place[1] + 1, 0>>
      <4>1. k <= Place[1]
        BY <2>1, <3>3, <1>5, BlocksNumbers
      <4>2. Place = <<Place[1], Blocks>>
        BY <3>3, PlaceIsOne DEF EndsOK, BlockPlace
      <4>3. k < Place[1] \/ k = Place[1]
        BY <3>3, <4>1, BlocksNumbers
      <4> QED  BY <4>2, <4>3
    <3> QED  BY <1>7, <3>1, <3>2, <3>3 DEF SenderSteps, Travels
  <2>3. Reached(k, t)
    BY <1>5, <1>7, <2>2 DEF Reached, Overtaken
  <2> QED  BY <1>2, <2>3
<1> QED  BY <1>3, <1>4, <1>6, <1>7 DEF Reached

\* Only noise makes gaps behind a block on its way.
LEMMA SenderKeepsLost ==
  ASSUME EndsOK, Ordered', LostInNoise, SenderSteps, SenderOK'
  PROVE  LostInNoise'
<1> SUFFICES ASSUME NEW k \in 1..Files, NEW j \in 0..Blocks, NEW t \in 0..Blocks,
                    Under(k, j)', Reached(k, t)'
             PROVE  Cardinality(Gap(k, j, t)') <= noise
  BY DEF LostInNoise, SenderSteps
<1>1. noise \in Nat /\ k \in Nat \ {0} /\ j \in Nat /\ t \in Nat
  BY BlocksNumbers DEF EndsOK, LineOK
<1>2. CASE Gap(k, j, t)' = {}
  BY <1>1, <1>2, FS_EmptySet
<1>3. ASSUME NEW u \in 0..Blocks, Reached(k, u), Gap(k, j, t)' \subseteq Gap(k, j, u), Under(k, j)
      PROVE  Cardinality(Gap(k, j, t)') <= noise
  <2>1. IsFiniteSet(Gap(k, j, u)) /\ Cardinality(Gap(k, j, u)) <= noise
    BY <1>1, <1>3, BlocksNumbers, GapIsFinite DEF LostInNoise
  <2> QED  BY <1>1, <1>3, <2>1, FewerThan
<1>4. ASSUME ~Under(k, j) PROVE Gap(k, j, t)' = {}
  <2>1. Live' /\ Place' = <<k, j>>
    BY <1>4, SenderUnder
  <2>2. Reached(k, t)' => NotAfter(<<k, t>>, Place')
    <3>1. Under(k, t)' => NotAfter(<<k, t>>, Place')
      BY <2>1 DEF Under, Ordered, IsBlock
    <3>2. Place' = <<k, t>> => t <= j
      BY <1>1, <2>1
    <3>3. Place'[1] = k /\ Place'[2] = j
      BY <2>1
    <3> QED  BY <1>1, <3>1, <3>2, <3>3 DEF Reached, Overtaken, NotAfter
  <2>3. t <= j
    BY <1>1, <2>1, <2>2 DEF NotAfter
  <2> QED  BY <1>1, <2>3 DEF Gap
<1> QED  BY <1>2, <1>3, <1>4, SenderLeavesNoGap

\* Only noise and refusals make gaps behind the receiver.
LEMMA SenderKeepsRefused ==
  ASSUME EndsOK, Behind, LostOrRefused, SenderSteps, SenderOK'
  PROVE  LostOrRefused'
<1> SUFFICES ASSUME NEW k, NEW j, NEW e, k = blockReceiver.file, j = Len(blockReceiver.got),
                    e = blockReceiver.errors, blockReceiver.phase = "data",
                    NEW t \in 0..Blocks, Reached(k, t)'
             PROVE  Cardinality(Gap(k, j, t)') <= noise + e /\ (noise = 0 => Gap(k, j, t)' = {})
  BY DEF LostOrRefused, SenderSteps
<1>1. noise \in Nat /\ k \in 1..Files /\ j \in 0..Blocks /\ e \in Nat /\ j \in Nat
  BY BlocksNumbers DEF EndsOK, LineOK, ReceiverOK, ReceiverRecord, Behind
<1>2. CASE Gap(k, j, t)' = {}
  BY <1>1, <1>2, FS_EmptySet
<1>3. ASSUME NEW u \in 0..Blocks, Reached(k, u), Gap(k, j, t)' \subseteq Gap(k, j, u)
      PROVE  Cardinality(Gap(k, j, t)') <= noise + e /\ (noise = 0 => Gap(k, j, t)' = {})
  <2>1. /\ Cardinality(Gap(k, j, u)) <= noise + e
        /\ noise = 0 => Gap(k, j, u) = {}
    BY <1>3 DEF LostOrRefused
  <2>2. IsFiniteSet(Gap(k, j, u))
    BY <1>1, BlocksNumbers, GapIsFinite
  <2>4. PICK n \in Nat : n = noise + e
    BY <1>1
  <2>3. Cardinality(Gap(k, j, t)') <= noise + e
    BY <1>3, <2>1, <2>2, <2>4, FewerThan
  <2> QED  BY <1>3, <2>1, <2>3
<1>4. \/ Gap(k, j, t)' = {}
      \/ \E u \in 0..Blocks : Reached(k, u) /\ Gap(k, j, t)' \subseteq Gap(k, j, u)
  BY <1>1, SenderLeavesNoGap
<1> QED  BY <1>2, <1>3, <1>4

\* A message is before all that is after it.
LEMMA FromIsBefore ==
  ASSUME EndsOK, Ordered, Behind, NEW i \in 0..Len(forth), NEW k, NEW b, From(i, k, b)
  PROVE  /\ Live => NotAfter(<<k, b>>, Place)
         /\ \A l \in 1..Len(forth) : i < l /\ forth[l].kind = "block" => NotAfter(<<k, b>>, forth[l].data)
<1>1. CASE i = 0 /\ blockReceiver.phase = "data" /\ k = blockReceiver.file /\ b = Len(blockReceiver.got)
  BY <1>1 DEF Behind, IsBlock
<1>2. CASE IsBlock(i) /\ forth[i].data = <<k, b>>
  BY <1>2 DEF Ordered, IsBlock
<1> QED  BY <1>1, <1>2 DEF From

\* A block on its way was there before, or is the one just sent.
LEMMA SenderFrom ==
  ASSUME EndsOK, SenderSteps, NEW i \in 0..Len(forth'), NEW k, NEW b, From(i, k, b)'
  PROVE  \/ i \in 0..Len(forth) /\ From(i, k, b)
         \/ /\ i = Len(forth) + 1 /\ Live' /\ Place' = <<k, b>> /\ LastIs("block")
            /\ blockSender'.phase \in {"header", "data", "last"}
<1>1. CASE i = 0 /\ blockReceiver.phase = "data" /\ k = blockReceiver.file /\ b = Len(blockReceiver.got)
  BY <1>1, SenderLine DEF From
<1>2. CASE i \in 1..Len(forth') /\ forth'[i].kind = "block" /\ forth'[i].data = <<k, b>>
  <2>1. CASE i \in 1..Len(forth) /\ forth'[i] = forth[i]
    BY <1>2, <2>1, SenderLine DEF From, IsBlock
  <2>2. CASE i = Len(forth) + 1
    <3>1. Live' /\ Place' = <<k, b>>
      BY <1>2, <2>2, SenderLine
    <3>2. Len(forth') = Len(forth) + 1
      BY <1>2, <2>2, SenderLine DEF SenderSteps, Longer
    <3> QED  BY <1>2, <2>2, <3>1, <3>2, SenderLine DEF LastIs, SenderSteps, SentInPhase
  <2> QED  BY <1>2, <2>1, <2>2, SenderLine
<1> QED  BY <1>1, <1>2 DEF From, IsBlock, SenderSteps

\* An EOT stays the end of a file.
LEMMA SenderClosing ==
  ASSUME EndsOK, SenderSteps, NEW i, NEW k, NEW j, Closing(i, k, j)
  PROVE  Closing(i, k, j)' /\ j \in 1..Len(forth)
<1>1. j \in 1..Len(forth) /\ forth[j].kind = "EOT" /\ i < j
  BY DEF Closing, IsEot
<1>2. j \in 1..Len(forth') /\ forth'[j].kind = "EOT"
  BY <1>1, SenderLine
<1>3. ASSUME NEW l \in 1..Len(forth'), i < l, forth'[l].kind = "block", forth'[l].data[1] # k
      PROVE  j < l
  <2>1. CASE l \in 1..Len(forth) /\ forth'[l] = forth[l]
    BY <1>3, <2>1 DEF Closing, IsBlock
  <2>2. CASE l = Len(forth) + 1
    BY <1>1, <2>2, SenderLine
  <2> QED  BY <1>3, <2>1, <2>2, SenderLine
<1> QED  BY <1>1, <1>2, <1>3 DEF Closing, IsEot, IsBlock

\* One more EOT is an end of the file that is sent.
LEMMA SenderEnds ==
  ASSUME EndsOK, Ordered, Behind, SenderSteps, SenderOK', LastIs("EOT"),
         NEW i \in 0..Len(forth), NEW k \in 1..Files, NEW b, From(i, k, b), blockSender.file = k,
         NEW n, n = Len(forth) + 1
  PROVE  Closing(i, k, n)'
<1>1. n \in 1..Len(forth') /\ forth'[n].kind = "EOT" /\ i < n /\ Len(forth) \in Nat
  BY SenderLine DEF LastIs
<1>2. Live' /\ blockSender'.phase \in {"eot", "eot1", "eot2"}
  BY <1>1, SenderLine
<1>3. Place = <<k, Blocks>> /\ Live
  BY <1>2 DEF SenderSteps, SendsEnds
<1>4. ASSUME NEW l \in 1..Len(forth), i < l, forth[l].kind = "block" PROVE forth[l].data[1] = k
  <2>1. NotAfter(<<k, b>>, forth[l].data) /\ NotAfter(forth[l].data, Place)
    BY <1>3, <1>4, FromIsBefore DEF Ordered, IsBlock
  <2>2. forth[l].data[1] \in Nat
    <3>1. forth[l].data \in BlockPlace
      BY <1>4, LineHolds DEF EndsOK
    <3> QED  BY <3>1, BlocksNumbers DEF BlockPlace
  <2>3. k \in Nat \ {0}
    BY BlocksNumbers
  <2> QED  BY <1>3, <2>1, <2>2, <2>3 DEF NotAfter
<1>5. ASSUME NEW l \in 1..Len(forth'), i < l, forth'[l].kind = "block" PROVE forth'[l].data[1] = k
  BY <1>1, <1>4, <1>5, SenderLine
<1> QED  BY <1>1, <1>5 DEF Closing, IsEot, IsBlock

\* A file is followed by another only after its second EOT was asked for.
LEMMA SenderFollows ==
  ASSUME EndsOK, Ordered, Behind, SenderSteps, SenderOK',
         NEW i \in 0..Len(forth), NEW k \in 1..Files, NEW b, From(i, k, b), Followed(i, k)'
  PROVE  \/ Followed(i, k)
         \/ blockSender.phase = "eot1" /\ blockSender'.phase = "eot2" /\ blockSender.file = k
<1>1. Live /\ NotAfter(<<k, b>>, Place) /\ k \in Nat \ {0} /\ Place \in BlockPlace
  BY FromIsBefore, PlaceIsOne, BlocksNumbers DEF SenderSteps, EndsOK
<1>2. ASSUME Live', Place'[1] = 0 \/ k < Place'[1] PROVE Followed(i, k)
  <2>1. CASE Place'[1] = Place[1]
    BY <1>1, <1>2, <2>1 DEF Followed, Beyond, Overtaken
  <2>2. CASE Place[1] \in 1..Files /\ blockSender.phase = "awaitNext"
    <3>1. k < Place[1] \/ Place[1] = k
      BY <1>1, <2>2, BlocksNumbers DEF NotAfter
    <3> QED  BY <1>1, <2>2, <3>1 DEF Followed, Beyond, Overtaken
  <2>3. \/ Place'[1] = Place[1]
        \/ Place[1] \in 1..Files /\ blockSender.phase = "awaitNext"
    BY <1>2 DEF SenderSteps, Travels
  <2> QED  BY <2>1, <2>2, <2>3
<1>3. CASE Live' /\ Place'[1] = k /\ blockSender'.phase \in {"eot2", "awaitNext"}
  <2>1. /\ Place' = Place /\ Place = <<blockSender.file, Blocks>>
        /\ blockSender.phase \in {"eot1", "eot2", "awaitNext"}
        /\ blockSender.phase = "eot1" => blockSender'.phase = "eot2"
    BY <1>3 DEF SenderSteps, SendsEnds
  <2> QED  BY <1>1, <1>3, <2>1 DEF Followed, Beyond
<1>4. ASSUME NEW l \in 1..Len(forth'), i < l, forth'[l].kind = "block", forth'[l].data[1] # k
      PROVE  Followed(i, k)
  <2>1. CASE l \in 1..Len(forth) /\ forth'[l] = forth[l]
    BY <1>4, <2>1 DEF Followed, IsBlock
  <2>2. CASE l = Len(forth) + 1
    <3>1. Live' /\ forth'[l].data = Place'
      BY <1>4, <2>2, SenderLine
    <3>2. Place \in BlockPlace /\ Place' \in BlockPlace /\ NotAfter(Place, Place')
      BY <3>1, PlaceMovesOn
    <3>3. Place'[1] = 0 \/ k < Place'[1]
      BY <1>1, <1>4, <3>1, <3>2, BlocksNumbers DEF NotAfter, BlockPlace
    <3> QED  BY <1>2, <3>1, <3>3
  <2> QED  BY <1>4, <2>1, <2>2, SenderLine
<1> QED  BY <1>2, <1>3, <1>4 DEF Followed, Beyond, Overtaken, IsBlock

\* The EOTs of a file are sent before anything of the next one.
LEMMA SenderKeepsClosed ==
  ASSUME EndsOK, Ordered, Behind, Closed, SenderSteps, SenderOK'
  PROVE  Closed'
<1> SUFFICES ASSUME ymodem, NEW i \in 0..Len(forth'), NEW k \in 1..Files, NEW b \in 0..Blocks, From(i, k, b)'
             PROVE  /\ Followed(i, k)' => \E j \in 1..Len(forth') : Closing(i, k, j)'
                    /\ Followed(i, k)' /\ endNoise = 0 =>
                         \E j, l \in 1..Len(forth') : j # l /\ Closing(i, k, j)' /\ Closing(i, k, l)'
                    /\ endNoise = 0 /\ blockSender'.phase = "eot1" /\ blockSender'.file = k =>
                         \E j \in 1..Len(forth') : Closing(i, k, j)'
  BY DEF Closed, SenderSteps
<1>1. CASE i \in 0..Len(forth) /\ From(i, k, b)
  <2> PICK n : n = Len(forth) + 1
    OBVIOUS
  <2>1. \A j : Closing(i, k, j) => Closing(i, k, j)' /\ j \in 1..Len(forth') /\ j # n
    BY SenderClosing, SenderLine
  <2>2. LastIs("EOT") /\ blockSender.file = k => n \in 1..Len(forth') /\ Closing(i, k, n)'
    BY <1>1, SenderEnds, SenderLine DEF LastIs
  <2>3. blockSender'.phase \in {"eot1", "eot2"} => LastIs("EOT") /\ Live'
    BY DEF SenderSteps, SentInPhase, Live
  <2>4. /\ Followed(i, k) => \E j \in 1..Len(forth) : Closing(i, k, j)
        /\ Followed(i, k) /\ endNoise = 0 =>
             \E j, l \in 1..Len(forth) : j # l /\ Closing(i, k, j) /\ Closing(i, k, l)
        /\ endNoise = 0 /\ blockSender.phase = "eot1" /\ blockSender.file = k =>
             \E j \in 1..Len(forth) : Closing(i, k, j)
    BY <1>1 DEF Closed
  <2>5. \/ ~Followed(i, k)'
        \/ Followed(i, k)
        \/ blockSender.phase = "eot1" /\ blockSender'.phase = "eot2" /\ blockSender.file = k
    BY <1>1, SenderFollows
  <2>6. blockSender'.phase = "eot1" /\ blockSender'.file = k => blockSender.file = k
    BY <2>3 DEF SenderSteps, SendsEnds
  <2> QED  BY <2>1, <2>2, <2>3, <2>4, <2>5, <2>6
<1>2. CASE /\ i = Len(forth) + 1 /\ Live' /\ Place' = <<k, b>> /\ LastIs("block")
           /\ blockSender'.phase \in {"header", "data", "last"}
  <2>1. ~\E l \in 1..Len(forth') : i < l
    BY <1>2, SenderLine DEF LastIs
  <2>2. ~Beyond(k)'
    BY <1>2, BlocksNumbers DEF Beyond, Overtaken
  <2>3. ~Followed(i, k)'
    BY <2>1, <2>2 DEF Followed
  <2> QED  BY <1>2, <2>3
<1> QED  BY <1>1, <1>2, SenderFrom

\* An EOT that is sent is of a file all of whose blocks are on their way.
LEMMA SenderKeepsEnds ==
  ASSUME EndsOK, Ordered, Behind, LostInNoise, LostOrRefused, EndsAreReal, SenderSteps, SenderOK'
  PROVE  EndsAreReal'
<1> SUFFICES ASSUME noise = 0, NEW i \in 0..Len(forth'), NEW j \in 1..Len(forth'), NEW k \in 1..Files,
                    NEW b \in 0..Blocks, i < j, forth'[j].kind = "EOT", From(i, k, b)',
                    NEW c \in (b + 1)..Blocks
             PROVE  \E l \in (i + 1)..(j - 1) :
                       l \in 1..Len(forth') /\ forth'[l].kind = "block" /\ forth'[l].data = <<k, c>>
  BY DEF EndsAreReal, IsEot, IsBlock, SenderSteps
<1>1. i \in 0..Len(forth) /\ From(i, k, b)
  <2>1. Len(forth') <= Len(forth) + 1 /\ Len(forth) \in Nat
    BY SenderLine DEF SenderSteps, Longer
  <2> QED  BY <2>1, SenderFrom
<1>2. CASE j \in 1..Len(forth) /\ forth'[j] = forth[j]
  <2>1. \E l \in (i + 1)..(j - 1) : l \in 1..Len(forth) /\ forth[l].kind = "block" /\ forth[l].data = <<k, c>>
    BY <1>1, <1>2 DEF EndsAreReal, IsEot, IsBlock
  <2> QED  BY <2>1, SenderLine
<1>3. CASE j = Len(forth) + 1
  <2>1. Live' /\ blockSender'.phase \in {"eot", "eot1", "eot2"}
    BY <1>3, SenderLine
  <2>2. Place = <<blockSender.file, Blocks>> /\ blockSender.file \in 1..Files
    BY <2>1 DEF SenderSteps, SendsEnds, EndsOK, SenderOK, SenderRecord
  <2>3. NotAfter(<<k, b>>, Place)
    BY <1>1, FromIsBefore DEF SenderSteps
  <2>4. Reached(k, Blocks)
    BY <2>2, <2>3, BlocksNumbers DEF SenderSteps, Reached, Overtaken, NotAfter
  <2>5. Blocks \in 0..Blocks /\ b \in Nat /\ Blocks \in Nat
    BY BlocksNumbers
  <2>6. Gap(k, b, Blocks) = {}
    <3>1. CASE i = 0 /\ blockReceiver.phase = "data" /\ k = blockReceiver.file /\ b = Len(blockReceiver.got)
      BY <2>4, <2>5, <3>1 DEF LostOrRefused
    <3>2. CASE IsBlock(i) /\ forth[i].data = <<k, b>>
      <4>1. Under(k, b)
        BY <3>2 DEF Under, IsBlock
      <4>2. Cardinality(Gap(k, b, Blocks)) <= 0
        BY <2>4, <2>5, <4>1 DEF LostInNoise
      <4> QED  BY <2>5, <4>2, GapIsFinite, EmptyCounts
    <3> QED  BY <1>1, <3>1, <3>2 DEF From
  <2>7. Under(k, c)
    BY <2>6 DEF Gap
  <2>8. PICK l \in 1..Len(forth) : forth[l].kind = "block" /\ forth[l].data = <<k, c>>
    BY <2>7 DEF Under, IsBlock
  <2>9. i < l
    <3>1. CASE i = 0
      BY <3>1
    <3>2. CASE IsBlock(i) /\ forth[i].data = <<k, b>>
      <4>1. i # l
        <5>1. b # c
          BY <2>5
        <5> QED  BY <2>8, <3>2, <5>1
      <4>2. ~(l < i)
        <5>1. l < i => NotAfter(<<k, c>>, <<k, b>>)
          BY <2>8, <3>2 DEF Ordered, IsBlock
        <5> QED  BY <2>5, <5>1, BlocksNumbers DEF NotAfter
      <4> QED  BY <4>1, <4>2 DEF IsBlock
    <3> QED  BY <1>1, <3>1, <3>2 DEF From
  <2> QED  BY <1>3, <2>8, <2>9, SenderLine
<1> QED  BY <1>2, <1>3, SenderLine

\* The checksum is the one the receiver asked for.
LEMMA SenderKeepsChecks ==
  ASSUME EndsOK, ChecksOK, NEW c, SenderTakes(c), SenderSteps, SenderOK', SenderMoves(c), noise' = noise,
         \/ c = "none" /\ UNCHANGED back
         \/ back # <<>> /\ c = Head(back)
  PROVE  ChecksOK'
<1> DEFINE check == blockReceiver.check
<1> SUFFICES ASSUME noise = 0
             PROVE  /\ blockSender'.phase = "await" => back' # <<>> /\ Head(back') = check
                    /\ blockSender'.phase \notin {"await", "failed"} => blockSender'.check = check
                    /\ \A i \in 1..Len(forth') : forth'[i].kind = "block" => forth'[i].check = check
  BY DEF ChecksOK, IsBlock, SenderSteps
<1>1. /\ blockSender.phase = "await" => back # <<>> /\ Head(back) = check
      /\ blockSender.phase \notin {"await", "failed"} => blockSender.check = check
      /\ \A i \in 1..Len(forth) : forth[i].kind = "block" => forth[i].check = check
  BY DEF ChecksOK, IsBlock
<1>2. check \in {"C", "NAK"} /\ (ymodem => check = "C") /\ ymodem \in BOOLEAN
  BY DEF EndsOK, ReceiverOK, ReceiverRecord, SenderOK
<1>3. blockSender.phase = "await" =>
        /\ c = "none" => c \notin Accepts(blockSender)
        /\ c = check => c \in Accepts(blockSender)
  <2>1. blockSender.phase = "await" => Accepts(blockSender) = IF ymodem THEN {"C"} ELSE {"C", "NAK"}
    BY DEF Accepts
  <2> QED  BY <1>2, <2>1
<1>4. blockSender'.phase = "await" => back' # <<>> /\ Head(back') = check
  <2> SUFFICES ASSUME blockSender'.phase = "await" PROVE back' # <<>> /\ Head(back') = check
    OBVIOUS
  <2>1. blockSender.phase = "await" /\ c \notin Accepts(blockSender)
    BY DEF SenderMoves, SenderGoesOn, SenderIs
  <2> QED  BY <1>1, <1>3, <2>1
<1>5. blockSender'.phase \notin {"await", "failed"} => blockSender'.check = check
  <2> SUFFICES ASSUME blockSender'.phase \notin {"await", "failed"} PROVE blockSender'.check = check
    OBVIOUS
  <2>1. CASE blockSender.phase = "await"
    <3>1. c \in Accepts(blockSender)
      BY <2>1 DEF SenderMoves, SenderIs
    <3>2. c = check
      BY <1>1, <1>3, <2>1, <3>1
    <3> QED  BY <2>1, <3>1, <3>2 DEF SenderMoves, SenderGoesOn
  <2>2. CASE blockSender.phase # "await"
    <3>1. blockSender'.check = blockSender.check
      BY <2>2 DEF SenderMoves, SenderGoesOn
    <3> QED  BY <1>1, <2>2, <3>1 DEF SenderSteps, Live
  <2> QED  BY <2>1, <2>2
<1>6. \A i \in 1..Len(forth') : forth'[i].kind = "block" => forth'[i].check = check
  <2> SUFFICES ASSUME NEW i \in 1..Len(forth'), forth'[i].kind = "block" PROVE forth'[i].check = check
    OBVIOUS
  <2>1. CASE i \in 1..Len(forth) /\ forth'[i] = forth[i]
    BY <1>1, <2>1
  <2>2. CASE i = Len(forth) + 1
    <3>1. Len(forth') = Len(forth) + 1
      BY <2>2, SenderLine DEF SenderSteps, Longer
    <3>2. /\ blockSender'.phase \in {"header", "data", "last"}
          /\ forth'[i].check = IF blockSender'.phase = "data" THEN blockSender'.check ELSE "C"
      BY <2>2, <3>1, SenderLine DEF SenderSteps, SentInPhase, LastIs
    <3>3. blockSender'.phase \in {"header", "last"} => check = "C"
      BY <1>2 DEF SenderOK, SenderSteps
    <3> QED  BY <1>5, <3>2, <3>3
  <2> QED  BY <2>1, <2>2, SenderLine
<1> QED  BY <1>4, <1>5, <1>6

\* Every step of the sender keeps the ends and the line well formed.
LEMMA SenderKeepsEndsOK ==
  ASSUME EndsOK, NEW c, SenderTakes(c), back' \in Seq(Controls)
  PROVE  EndsOK'
<1> HIDE DEF Messages
<1>1. /\ SenderSteps /\ SenderOK' /\ forth' \in Seq(Messages)
      /\ (\A i \in 1..Len(forth) : MessageOK(forth[i]))'
  BY SenderDoes
<1>2. LineOK'
  BY <1>1 DEF EndsOK, LineOK, SenderSteps
<1>3. ReceiverOK'
  BY <1>1 DEF EndsOK, ReceiverOK, SenderSteps
<1> QED  BY <1>1, <1>2, <1>3 DEF EndsOK

\* Every step of the sender keeps the invariant.
LEMMA SenderKeepsInv ==
  ASSUME BlocksInv, NEW c, SenderTakes(c), back' \in Seq(Controls),
         \/ c = "none" /\ UNCHANGED back
         \/ back # <<>> /\ c = Head(back)
  PROVE  BlocksInv'
<1>1. EndsOK /\ ChecksOK /\ Ordered /\ Behind /\ LostInNoise /\ LostOrRefused /\ Closed /\ EndsAreReal
  BY DEF BlocksInv
<1>2. SenderSteps /\ SenderOK' /\ SenderMoves(c)
  BY <1>1, SenderDoes
<1>3. EndsOK'
  BY <1>1, SenderKeepsEndsOK
<1>4. ChecksOK'
  BY <1>1, <1>2, SenderKeepsChecks DEF SenderSteps
<1>5. Ordered' /\ Behind'
  BY <1>1, <1>2, SenderKeepsOrder, SenderKeepsBehind
<1>6. LostInNoise' /\ LostOrRefused'
  BY <1>1, <1>2, <1>5, SenderKeepsLost, SenderKeepsRefused
<1>7. Closed' /\ EndsAreReal'
  BY <1>1, <1>2, SenderKeepsClosed, SenderKeepsEnds
<1>8. LittleNoise' /\ WholeFiles' /\ InPlace' /\ Numbered'
  BY <1>2 DEF SenderSteps, BlocksInv, LittleNoise, WholeFiles, InPlace, Numbered
<1> QED  BY <1>3, <1>4, <1>5, <1>6, <1>7, <1>8 DEF BlocksInv

(***************************************************************************)
(* The receiver.                                                           *)
(***************************************************************************)
BackGrows ==
    /\ back' \in Seq(Controls)
    /\ back # <<>> => back' # <<>> /\ Head(back') = Head(back)

\* Answers go behind what is on its way back.
LEMMA AnswersFollow ==
  ASSUME back \in Seq(Controls), NEW controls \in Seq(Controls), back' = back \o controls
  PROVE  BackGrows
<1> HIDE DEF Controls
<1>1. back' \in Seq(Controls)
  OBVIOUS
<1>2. back # <<>> => back' # <<>> /\ Head(back') = Head(back)
  <2> SUFFICES ASSUME back # <<>> PROVE back' # <<>> /\ Head(back') = Head(back)
    OBVIOUS
  <2>1. /\ Len(back) \in Nat \ {0} /\ Len(controls) \in Nat /\ Len(back') = Len(back) + Len(controls)
        /\ back'[1] = back[1] /\ back' \in Seq(Controls)
    OBVIOUS
  <2> QED  BY <2>1
<1> QED  BY <1>1, <1>2 DEF BackGrows

\* What the receiver answers.
LEMMA ControlSequences ==
  /\ <<>> \in Seq(Controls) /\ <<"ACK">> \in Seq(Controls) /\ <<"NAK">> \in Seq(Controls)
  /\ <<"C">> \in Seq(Controls) /\ <<"CAN">> \in Seq(Controls) /\ <<"ACK", "C">> \in Seq(Controls)
  /\ \A controls \in {<<>>, <<"NAK">>, <<"C">>} : controls \o <<"CAN">> \in Seq(Controls)
BY DEF Controls

\* The receiver keeps what it has, and is in another phase or has one error more.
ReceiverHas(phase, errors) ==
    /\ blockReceiver' \in ReceiverRecord
    /\ blockReceiver'.phase = phase /\ blockReceiver'.errors = errors
    /\ blockReceiver'.file = blockReceiver.file /\ blockReceiver'.got = blockReceiver.got
    /\ blockReceiver'.check = blockReceiver.check /\ blockReceiver'.expected = blockReceiver.expected

\* A wrong message costs the receiver one of its retries, or its phase.
LEMMA WrongIs ==
  ASSUME ReceiverOK, back \in Seq(Controls), NEW controls \in {<<>>, <<"NAK">>, <<"C">>},
         blockReceiver.errors < MaxRetries, Wrong(blockReceiver, controls)
  PROVE  /\ BackGrows
         /\ \/ ReceiverHas("failed", blockReceiver.errors + 1)
            \/ /\ ReceiverHas(blockReceiver.phase, blockReceiver.errors + 1)
               /\ blockReceiver.errors + 1 < MaxRetries
<1> DEFINE r == blockReceiver
           worse == [r EXCEPT !.errors = @ + 1]
<1>1. r \in ReceiverRecord
  BY DEF ReceiverOK
<1>2. worse \in ReceiverRecord /\ worse.errors = r.errors + 1
  <2>1. r.errors + 1 \in 0..MaxRetries
    BY <1>1, BlocksNumbers DEF ReceiverRecord
  <2> QED  BY <1>1, <2>1 DEF ReceiverRecord
<1>3. CASE worse.errors < MaxRetries
  <2>1. blockReceiver' = worse /\ back' = back \o controls
    BY <1>3 DEF Wrong, Answers
  <2>2. BackGrows
    BY <2>1, ControlSequences, AnswersFollow
  <2>3. ReceiverHas(r.phase, r.errors + 1)
    BY <1>1, <1>2, <2>1 DEF ReceiverHas, ReceiverRecord
  <2> QED  BY <1>2, <1>3, <2>2, <2>3
<1>4. CASE ~(worse.errors < MaxRetries)
  <2>1. blockReceiver' = [worse EXCEPT !.phase = "failed"] /\ back' = back \o (controls \o <<"CAN">>)
    BY <1>4 DEF Wrong, Answers
  <2>2. BackGrows
    BY <2>1, ControlSequences, AnswersFollow
  <2>3. ReceiverHas("failed", r.errors + 1)
    BY <1>1, <1>2, <2>1 DEF ReceiverHas, ReceiverRecord
  <2> QED  BY <2>2, <2>3
<1> QED  BY <1>3, <1>4

\* A cancellation ends it.
LEMMA GivesUpIs ==
  ASSUME ReceiverOK, back \in Seq(Controls), GivesUp(blockReceiver)
  PROVE  BackGrows /\ ReceiverHas("failed", blockReceiver.errors)
<1>1. blockReceiver \in ReceiverRecord
  BY DEF ReceiverOK
<1>2. blockReceiver' = [blockReceiver EXCEPT !.phase = "failed"] /\ back' = back \o <<"CAN">>
  BY DEF GivesUp, Answers
<1> QED  BY <1>1, <1>2, ControlSequences, AnswersFollow DEF ReceiverHas, ReceiverRecord

\* What the receiver does with message m.
GetsBlock(m) ==
    /\ blockReceiver.phase = "data" /\ Sound(m) /\ Expected(m)
    /\ blockReceiver' \in ReceiverRecord
    /\ blockReceiver'.phase = "data" /\ blockReceiver'.errors = 0
    /\ blockReceiver'.file = blockReceiver.file /\ blockReceiver'.check = blockReceiver.check
    /\ blockReceiver'.got = Append(blockReceiver.got, m.data)
    /\ blockReceiver'.expected = (blockReceiver.expected + 1) % Modulus

WritesNothing(m) ==
    /\ blockReceiver.phase = "data" /\ Sound(m) /\ Expected(m)
    /\ ymodem /\ Len(blockReceiver.got) >= Blocks
    /\ blockReceiver' \in ReceiverRecord
    /\ blockReceiver'.phase = "data" /\ blockReceiver'.errors = 0
    /\ blockReceiver'.file = blockReceiver.file /\ blockReceiver'.check = blockReceiver.check
    /\ blockReceiver'.got = blockReceiver.got

GetsHeader(m) ==
    /\ blockReceiver.phase = "header" /\ Sound(m) /\ m.data[2] = 0 /\ m.data # <<0, 0>>
    /\ blockReceiver' \in ReceiverRecord
    /\ blockReceiver'.phase = "data" /\ blockReceiver'.errors = 0
    /\ blockReceiver'.file = m.data[1] /\ blockReceiver'.check = blockReceiver.check
    /\ blockReceiver'.got = <<>> /\ blockReceiver'.expected = 1

GetsAgain(m) ==
    /\ blockReceiver.phase = "data" /\ Sound(m) /\ m.number = Before(blockReceiver.expected)
    /\ ReceiverHas("data", blockReceiver.errors)

RefusesIt(m) ==
    /\ m.kind # "EOT" /\ ~(Sound(m) /\ Expected(m))
    /\ ~(Sound(m) /\ m.number = Before(blockReceiver.expected))
    /\ blockReceiver.phase = "data" /\ blockReceiver.errors + 1 < MaxRetries
    /\ ReceiverHas("data", blockReceiver.errors + 1)

LeavesData(m) ==
    \E phase \in {"header", "eot", "done", "failed"}, errors \in Nat :
        /\ ReceiverHas(phase, errors)
        /\ phase \in {"header", "eot"} => ymodem /\ errors < MaxRetries
        /\ phase = "eot" => blockReceiver.phase = "eot" \/ (blockReceiver.phase = "data" /\ m.kind = "EOT")

InstallsIt(m) ==
    \/ installed' = installed
    \/ /\ Keep
       /\ blockReceiver.phase = "eot" \/ (blockReceiver.phase = "data" /\ m.kind = "EOT")

ReceiverSteps(m) ==
    /\ \/ GetsBlock(m) \/ WritesNothing(m) \/ GetsHeader(m) \/ GetsAgain(m)
       \/ RefusesIt(m) \/ LeavesData(m)
    /\ InstallsIt(m) /\ BackGrows
    /\ UNCHANGED <<ymodem, blockSender, noise, endNoise>>

\* What it does with a message when it waits for a header.
LEMMA HeaderSteps ==
  ASSUME ReceiverOK, SenderOK, back \in Seq(Controls), NEW m, TakeHeader(m),
         m.kind = "block" => m \in BlockMessage,
         UNCHANGED <<ymodem, blockSender, noise, endNoise>>
  PROVE  ReceiverSteps(m)
<1> DEFINE r == blockReceiver
<1>1. /\ r \in ReceiverRecord /\ r.phase = "header" /\ r.errors < MaxRetries /\ ymodem /\ r.errors \in Nat
      /\ installed' = installed
  BY DEF TakeHeader, ReceiverOK, SenderOK, ReceiverRecord
<1>2. \A controls \in {<<>>, <<"NAK">>, <<"C">>} : Wrong(r, controls) => BackGrows /\ LeavesData(m)
  <2>1. r.errors + 1 \in Nat
    BY <1>1
  <2> QED  BY <1>1, <2>1, WrongIs DEF LeavesData
<1>3. GivesUp(r) => BackGrows /\ LeavesData(m)
  BY <1>1, GivesUpIs DEF LeavesData
<1>4. CASE Sound(m) /\ m.number = 0 /\ m.data = <<0, 0>>
  <2>1. Answers([r EXCEPT !.phase = "done"], <<"ACK">>)
    <3>1. m.data[2] = 0 /\ m.kind = "block"
      BY <1>4 DEF Sound
    <3> QED  BY <1>4, <3>1 DEF TakeHeader
  <2>2. BackGrows
    BY <2>1, ControlSequences, AnswersFollow DEF Answers
  <2>3. ReceiverHas("done", r.errors)
    BY <1>1, <2>1 DEF Answers, ReceiverHas, ReceiverRecord
  <2> QED  BY <1>1, <2>2, <2>3 DEF ReceiverSteps, LeavesData, InstallsIt
<1>5. CASE Sound(m) /\ m.number = 0 /\ m.data[2] = 0 /\ m.data # <<0, 0>>
  <2>1. Answers([r EXCEPT !.phase = "data", !.file = m.data[1], !.got = <<>>, !.expected = 1, !.errors = 0],
                <<"ACK", "C">>)
    BY <1>5 DEF TakeHeader, Sound
  <2>2. BackGrows
    BY <2>1, ControlSequences, AnswersFollow DEF Answers
  <2>3. m.data[1] \in 1..Files
    <3>1. m.data \in BlockPlace
      BY <1>5 DEF Sound, BlockMessage
    <3> QED  BY <1>5, <3>1 DEF BlockPlace
  <2>4. GetsHeader(m)
    <3>1. <<>> \in Seq(Nat \X Nat)
      OBVIOUS
    <3> QED  BY <1>1, <1>5, <2>1, <2>3, <3>1, CountersBegin DEF Answers, GetsHeader, ReceiverRecord
  <2> QED  BY <1>1, <2>2, <2>4 DEF ReceiverSteps, InstallsIt
<1>6. CASE Sound(m) /\ m.number = 0 /\ m.data[2] # 0
  <2>1. GivesUp(r)
    BY <1>6 DEF TakeHeader, Sound
  <2> QED  BY <1>1, <1>3, <2>1 DEF ReceiverSteps, InstallsIt
<1>7. CASE (Sound(m) /\ m.number # 0) \/ m.kind = "noise"
  <2>1. Wrong(r, <<"NAK">>)
    BY <1>7 DEF TakeHeader, Sound
  <2> QED  BY <1>1, <1>2, <2>1 DEF ReceiverSteps, InstallsIt
<1>8. CASE m.kind \in {"CAN", "strays"}
  <2>1. GivesUp(r)
    BY <1>8 DEF TakeHeader, Sound
  <2> QED  BY <1>1, <1>3, <2>1 DEF ReceiverSteps, InstallsIt
<1>9. CASE ~Sound(m) /\ m.kind \notin {"noise", "CAN", "strays"}
  <2>1. Wrong(r, <<"C">>)
    BY <1>9 DEF TakeHeader, Sound
  <2> QED  BY <1>1, <1>2, <2>1 DEF ReceiverSteps, InstallsIt
<1> QED  BY <1>4, <1>5, <1>6, <1>7, <1>8, <1>9

\* What it does when it waits for the second EOT.
LEMMA EndSteps ==
  ASSUME ReceiverOK, SenderOK, back \in Seq(Controls), NEW m, TakeEnd(m),
         UNCHANGED <<ymodem, blockSender, noise, endNoise>>
  PROVE  ReceiverSteps(m)
<1> DEFINE r == blockReceiver
<1>1. r \in ReceiverRecord /\ r.phase = "eot" /\ r.errors < MaxRetries /\ ymodem /\ r.errors \in Nat
  BY DEF TakeEnd, ReceiverOK, SenderOK, ReceiverRecord
<1>2. ASSUME Wrong(r, <<>>), installed' = installed PROVE ReceiverSteps(m)
  <2>1. r.errors + 1 \in Nat
    BY <1>1
  <2>2. BackGrows /\ LeavesData(m)
    BY <1>1, <1>2, <2>1, WrongIs DEF LeavesData
  <2> QED  BY <1>2, <2>2 DEF ReceiverSteps, InstallsIt
<1>3. ASSUME GivesUp(r), installed' = installed PROVE ReceiverSteps(m)
  BY <1>1, <1>3, GivesUpIs DEF LeavesData, ReceiverSteps, InstallsIt
<1>4. ASSUME Answers([r EXCEPT !.phase = "header", !.errors = 0], <<"ACK", "C">>), Keep
      PROVE  ReceiverSteps(m)
  <2>1. BackGrows
    BY <1>4, ControlSequences, AnswersFollow DEF Answers
  <2>2. ReceiverHas("header", 0)
    BY <1>1, <1>4, CountersBegin DEF Answers, ReceiverHas, ReceiverRecord
  <2>3. 0 < MaxRetries
    BY BlocksNumbers
  <2>4. LeavesData(m)
    BY <1>1, <2>2, <2>3 DEF LeavesData
  <2> QED  BY <1>1, <1>4, <2>1, <2>4 DEF ReceiverSteps, InstallsIt
<1> QED  BY <1>2, <1>3, <1>4 DEF TakeEnd

\* What it does when it waits for a block.
LEMMA BlockSteps ==
  ASSUME ReceiverOK, SenderOK, back \in Seq(Controls), NEW m, TakeBlock(m),
         m.kind = "block" => m \in BlockMessage,
         UNCHANGED <<ymodem, blockSender, noise, endNoise>>
  PROVE  ReceiverSteps(m)
<1> DEFINE r == blockReceiver
<1>1. /\ r \in ReceiverRecord /\ r.phase = "data" /\ r.errors < MaxRetries /\ r.errors \in Nat
      /\ ymodem \in BOOLEAN /\ r.expected \in Nat /\ r.got \in Seq(Nat \X Nat)
  BY DEF TakeBlock, ReceiverOK, SenderOK, ReceiverRecord
<1>2. m.kind # "EOT" \/ ymodem => installed' = installed
  BY DEF TakeBlock
<1>3. CASE Sound(m) /\ Expected(m)
  <2>1. Answers([r EXCEPT !.got = Written(@, m.data), !.errors = 0, !.expected = (@ + 1) % Modulus], <<"ACK">>)
    BY <1>3 DEF TakeBlock, Sound
  <2>2. BackGrows
    BY <2>1, ControlSequences, AnswersFollow DEF Answers
  <2>3. Append(r.got, m.data) \in Seq(Nat \X Nat)
    <3>1. m.data \in Nat \X Nat
      BY <1>3, BlocksNumbers DEF Sound, BlockMessage, BlockPlace
    <3> QED  BY <1>1, <3>1
  <2>4. (r.expected + 1) % Modulus \in 0..(Modulus - 1)
    <3>1. r.expected + 1 \in Nat
      BY <1>1
    <3> QED  BY <3>1, BlocksNumbers, DivMod
  <2>5. CASE ymodem /\ Len(r.got) >= Blocks
    <3>1. WritesNothing(m)
      BY <1>1, <1>3, <2>1, <2>4, <2>5, CountersBegin DEF Answers, WritesNothing, Written, ReceiverRecord
    <3> QED  BY <1>2, <1>3, <2>2, <3>1 DEF ReceiverSteps, InstallsIt, Sound
  <2>6. CASE ~(ymodem /\ Len(r.got) >= Blocks)
    <3>1. GetsBlock(m)
      BY <1>1, <1>3, <2>1, <2>3, <2>4, <2>6, CountersBegin DEF Answers, GetsBlock, Written, ReceiverRecord
    <3> QED  BY <1>2, <1>3, <2>2, <3>1 DEF ReceiverSteps, InstallsIt, Sound
  <2> QED  BY <2>5, <2>6
<1>4. CASE Sound(m) /\ ~Expected(m) /\ m.number = Before(r.expected)
  <2>1. blockReceiver' = r /\ back' = back \o <<"ACK">>
    BY <1>4 DEF TakeBlock, Answers, Sound
  <2>2. BackGrows
    BY <2>1, ControlSequences, AnswersFollow
  <2>3. GetsAgain(m)
    BY <1>1, <1>4, <2>1 DEF GetsAgain, ReceiverHas
  <2> QED  BY <1>2, <1>4, <2>2, <2>3 DEF ReceiverSteps, InstallsIt, Sound
<1>5. CASE m.kind \in {"CAN", "strays"}
  <2>1. GivesUp(r)
    BY <1>5 DEF TakeBlock, Sound
  <2>2. BackGrows /\ LeavesData(m)
    BY <1>1, <2>1, GivesUpIs DEF LeavesData
  <2> QED  BY <1>2, <1>5, <2>2 DEF ReceiverSteps, InstallsIt
<1>6. CASE m.kind = "EOT"
  <2>1. IF ymodem THEN Answers([r EXCEPT !.phase = "eot", !.errors = 0], <<"NAK">>)
        ELSE Answers([r EXCEPT !.phase = "done"], <<"ACK">>) /\ Keep
    BY <1>6 DEF TakeBlock, Sound
  <2>2. InstallsIt(m)
    BY <1>1, <1>2, <1>6, <2>1 DEF InstallsIt
  <2>3. 0 < MaxRetries
    BY BlocksNumbers
  <2>4. CASE ymodem
    <3>4. blockReceiver' = [r EXCEPT !.phase = "eot", !.errors = 0] /\ back' = back \o <<"NAK">>
      BY <2>1, <2>4 DEF Answers
    <3>1. BackGrows
      BY <3>4, ControlSequences, AnswersFollow
    <3>2. ReceiverHas("eot", 0)
      BY <1>1, <3>4, CountersBegin DEF ReceiverHas, ReceiverRecord
    <3>3. LeavesData(m)
      BY <1>1, <1>6, <2>3, <2>4, <3>2 DEF LeavesData
    <3> QED  BY <2>2, <3>1, <3>3 DEF ReceiverSteps
  <2>5. CASE ~ymodem
    <3>1. BackGrows
      BY <2>1, <2>5, ControlSequences, AnswersFollow DEF Answers
    <3>2. ReceiverHas("done", r.errors)
      BY <1>1, <2>1, <2>5 DEF Answers, ReceiverHas, ReceiverRecord
    <3>3. LeavesData(m)
      BY <1>1, <3>2 DEF LeavesData
    <3> QED  BY <2>2, <3>1, <3>3 DEF ReceiverSteps
  <2> QED  BY <2>4, <2>5
<1>7. CASE /\ ~(Sound(m) /\ Expected(m)) /\ ~(Sound(m) /\ m.number = Before(r.expected))
           /\ m.kind \notin {"CAN", "strays", "EOT"}
  <2>1. Wrong(r, <<"NAK">>)
    BY <1>7 DEF TakeBlock
  <2>2. r.errors + 1 \in Nat
    BY <1>1
  <2>3. /\ BackGrows
        /\ \/ ReceiverHas("failed", r.errors + 1)
           \/ ReceiverHas("data", r.errors + 1) /\ r.errors + 1 < MaxRetries
    BY <1>1, <2>1, WrongIs
  <2>4. LeavesData(m) \/ RefusesIt(m)
    BY <1>1, <1>7, <2>2, <2>3 DEF LeavesData, RefusesIt
  <2> QED  BY <1>2, <1>7, <2>3, <2>4 DEF ReceiverSteps, InstallsIt
<1> QED  BY <1>3, <1>4, <1>5, <1>6, <1>7 DEF Sound

\* So every step of the receiver is one of six.
LEMMA ReceiverDoes ==
  ASSUME EndsOK, NEW m, ReceiverTakes(m), m.kind = "block" => m \in BlockMessage
  PROVE  ReceiverSteps(m)
<1>1. ReceiverOK /\ SenderOK /\ back \in Seq(Controls)
  BY DEF EndsOK, LineOK
<1> QED  BY <1>1, HeaderSteps, BlockSteps, EndSteps DEF ReceiverTakes

\* The block that arrives is of the file that is received, and no further than numbers can tell.
LEMMA HeadIsOfFile ==
  ASSUME BlocksInv, blockReceiver.phase = "data", 1 \in 1..Len(forth), forth[1].kind = "block"
  PROVE  /\ forth[1].data = <<blockReceiver.file, forth[1].data[2]>>
         /\ forth[1].data[2] \in 0..Blocks /\ Len(blockReceiver.got) <= forth[1].data[2]
<1> DEFINE f == blockReceiver.file
           g == Len(blockReceiver.got)
           d == forth[1].data
<1>1. /\ EndsOK /\ Behind /\ Closed /\ ymodem \in BOOLEAN /\ f \in 1..Files /\ g \in 0..Blocks
      /\ NotAfter(<<f, g>>, d) /\ d \in BlockPlace
  <2>1. EndsOK /\ Behind /\ Closed /\ ymodem \in BOOLEAN /\ f \in 1..Files /\ g \in Nat
    BY DEF BlocksInv, EndsOK, SenderOK, ReceiverOK, ReceiverRecord
  <2>2. g <= Blocks /\ NotAfter(<<f, g>>, d)
    BY <2>1 DEF Behind, IsBlock
  <2>3. d \in BlockPlace
    BY <2>1, LineHolds DEF EndsOK
  <2> QED  BY <2>1, <2>2, <2>3, BlocksNumbers
<1>2. d[1] = f
  <2>1. CASE ~ymodem
    <3>1. MessageOK(forth[1]) /\ f = 1
      BY <1>1, <2>1 DEF EndsOK, LineOK, ReceiverOK
    <3> QED  BY <2>1, <3>1 DEF MessageOK
  <2>2. CASE ymodem
    <3> SUFFICES ASSUME d[1] # f PROVE FALSE
      OBVIOUS
    <3>1. From(0, f, g) /\ 0 \in 0..Len(forth)
      BY DEF From
    <3>2. Followed(0, f)
      BY DEF Followed, IsBlock
    <3>3. PICK j \in 1..Len(forth) : Closing(0, f, j)
      BY <1>1, <2>2, <3>1, <3>2 DEF Closed
    <3>4. j < 1
      BY <3>3 DEF Closing, IsBlock
    <3> QED  BY <3>3, <3>4
  <2> QED  BY <1>1, <2>1, <2>2
<1>3. d[2] \in 0..Blocks /\ d = <<d[1], d[2]>>
  <2>1. d # <<0, 0>>
    BY <1>1, <1>2, BlocksNumbers
  <2> QED  BY <1>1, <2>1 DEF BlockPlace
<1>4. g <= d[2]
  BY <1>1, <1>2, <1>3, BlocksNumbers DEF NotAfter
<1> QED  BY <1>2, <1>3, <1>4

\* The retries and the noise together leave out fewer blocks than there are numbers.
LEMMA HeadIsNear ==
  ASSUME BlocksInv, blockReceiver.phase = "data", 1 \in 1..Len(forth), forth[1].kind = "block",
         NEW g, g = Len(blockReceiver.got), NEW b, b = forth[1].data[2]
  PROVE  /\ b \in Nat /\ g \in Nat /\ g <= b /\ b < g + Modulus
         /\ noise = 0 => b <= g + 1
<1>1. PICK f \in 1..Files : f = blockReceiver.file
  BY DEF BlocksInv, EndsOK, ReceiverOK, ReceiverRecord
<1>2. forth[1].data = <<f, b>> /\ b \in 0..Blocks /\ g <= b
  BY <1>1, HeadIsOfFile
<1>3. /\ EndsOK /\ Ordered /\ LostOrRefused /\ LittleNoise /\ b \in Nat /\ g \in 0..Blocks /\ g \in Nat
      /\ noise \in 0..MaxNoise /\ blockReceiver.errors \in Nat /\ blockReceiver.errors < MaxRetries
  <2>1. EndsOK /\ Ordered /\ LostOrRefused /\ LittleNoise
    BY DEF BlocksInv
  <2>2. noise \in 0..MaxNoise /\ ReceiverOK
    BY <2>1 DEF EndsOK, LineOK
  <2>3. blockReceiver.errors \in Nat /\ blockReceiver.errors < MaxRetries /\ g \in Nat
    BY <2>2 DEF ReceiverOK, ReceiverRecord
  <2>4. b \in Nat /\ g \in 0..Blocks
    BY <1>2, <2>3, BlocksNumbers
  <2> QED  BY <2>1, <2>2, <2>3, <2>4
<1>4. /\ Cardinality(Gap(f, g, b)) <= noise + blockReceiver.errors
      /\ noise = 0 => Gap(f, g, b) = {}
  <2>1. Reached(f, b)
    BY <1>2 DEF Reached, Under, IsBlock
  <2> QED  BY <1>1, <1>2, <1>3, <2>1 DEF LostOrRefused
<1>5. (g + 1)..(b - 1) \subseteq Gap(f, g, b)
  <2> SUFFICES ASSUME NEW c \in (g + 1)..(b - 1), Under(f, c) PROVE FALSE
    BY <1>3 DEF Gap
  <2>1. PICK l \in 1..Len(forth) : forth[l].kind = "block" /\ forth[l].data = <<f, c>>
    BY DEF Under, IsBlock
  <2>2. l # 1
    <3>1. b # c
      BY <1>3
    <3> QED  BY <1>2, <2>1, <3>1
  <2>3. NotAfter(<<f, b>>, <<f, c>>)
    <3>1. 1 < l
      BY <2>1, <2>2
    <3> QED  BY <1>2, <1>3, <2>1, <3>1 DEF Ordered, IsBlock
  <2> QED  BY <1>3, <2>3, BlocksNumbers DEF NotAfter
<1>6. noise = 0 => b <= g + 1
  <2> SUFFICES ASSUME noise = 0, b > g + 1 PROVE FALSE
    BY <1>3
  <2>1. g + 1 \in (g + 1)..(b - 1)
    BY <1>3
  <2> QED  BY <1>4, <1>5, <2>1
<1>7. CASE b > g + 1
  <2>1. Cardinality((g + 1)..(b - 1)) = (b - 1) - (g + 1) + 1
    <3>1. g + 1 \in Int /\ b - 1 \in Int /\ ~(g + 1 > b - 1)
      BY <1>3, <1>7
    <3> QED  BY <3>1, FS_Interval
  <2>2. PICK n \in Nat : n = noise + blockReceiver.errors
    BY <1>3, BlocksNumbers
  <2>3. IsFiniteSet(Gap(f, g, b))
    BY <1>3, GapIsFinite
  <2>4. Cardinality((g + 1)..(b - 1)) <= n
    BY <1>4, <1>5, <2>2, <2>3, FewerThan
  <2>5. (b - 1) - (g + 1) + 1 <= n
    BY <2>1, <2>4
  <2>6. n + 1 < Modulus
    BY <1>3, <2>2, BlocksNumbers DEF LittleNoise
  <2>7. b < g + Modulus
    <3>1. b \in Nat /\ g \in Nat /\ n \in Nat /\ Modulus \in Nat
      BY <1>3, BlocksNumbers
    <3> QED  BY <2>5, <2>6, <3>1, LessThanARound
  <2> QED  BY <1>2, <1>3, <1>6, <2>7
<1>8. CASE ~(b > g + 1)
  <2>1. 1 < Modulus
    BY BlocksAssumption
  <2> QED  BY <1>2, <1>3, <1>6, <1>8, <2>1, BlocksNumbers
<1> QED  BY <1>7, <1>8

\* So numbers do tell the block after what was received, and the last one again, from all others.
LEMMA HeadIsNext ==
  ASSUME BlocksInv, blockReceiver.phase = "data", 1 \in 1..Len(forth), forth[1].kind = "block",
         NEW g, g = Len(blockReceiver.got), NEW b, b = forth[1].data[2], NEW m, m = forth[1]
  PROVE  /\ Expected(m) => b = g + 1
         /\ m.number = Before(blockReceiver.expected) => b = g
         /\ noise = 0 => Sound(m) /\ (Expected(m) \/ m.number = Before(blockReceiver.expected))
<1>1. b \in Nat /\ g \in Nat /\ g <= b /\ b < g + Modulus /\ (noise = 0 => b <= g + 1)
  BY HeadIsNear
<1>2. Modulus \in Nat \ {0} /\ 1 < Modulus
  BY BlocksAssumption
<1>3. m.number = b % Modulus /\ blockReceiver.expected = (g + 1) % Modulus
  BY DEF BlocksInv, EndsOK, LineOK, Numbered, MessageOK
<1>4. Before(blockReceiver.expected) = g % Modulus
  BY <1>1, <1>2, <1>3, NumberBefore DEF Before
<1>5. ASSUME b % Modulus = (g + 1) % Modulus PROVE b = g + 1
  <2>1. g + 1 \in Nat /\ g + 1 < g + Modulus
    BY <1>1, <1>2
  <2>2. (g + 1) % Modulus # g % Modulus
    <3>1. g < g + 1
      BY <1>1
    <3> QED  BY <1>1, <1>2, <2>1, <3>1, NumbersDiffer
  <2>3. b # g
    BY <1>5, <2>2
  <2>4. g + 1 < b => b % Modulus # (g + 1) % Modulus
    <3>1. b < (g + 1) + Modulus
      BY <1>1, <1>2
    <3> QED  BY <1>1, <1>2, <2>1, <3>1, NumbersDiffer
  <2> QED  BY <1>1, <1>5, <2>3, <2>4
<1>6. ASSUME b % Modulus = g % Modulus PROVE b = g
  <2>1. g < b => b % Modulus # g % Modulus
    BY <1>1, <1>2, NumbersDiffer
  <2> QED  BY <1>1, <1>6, <2>1
<1>7. noise = 0 => Sound(m) /\ (Expected(m) \/ m.number = Before(blockReceiver.expected))
  <2> SUFFICES ASSUME noise = 0 PROVE Sound(m) /\ (Expected(m) \/ m.number = Before(blockReceiver.expected))
    OBVIOUS
  <2>1. Sound(m)
    BY DEF BlocksInv, ChecksOK, IsBlock, Sound
  <2>2. b = g \/ b = g + 1
    BY <1>1
  <2> QED  BY <1>3, <1>4, <2>1, <2>2 DEF Expected
<1> QED  BY <1>3, <1>4, <1>5, <1>6, <1>7 DEF Expected

\* The receiver has read the first message (d is 1), or nothing (d is 0).
Taken(d, m) ==
    /\ d \in {0, 1} /\ Len(forth) = Len(forth') + d /\ forth' \in Seq(Messages)
    /\ \A i \in 1..Len(forth') : forth'[i] = forth[i + d]
    /\ IF d = 1 THEN m = forth[1] ELSE m.kind = "none" /\ forth' = forth

ReceiverWorks(d, m) == Taken(d, m) /\ ReceiverSteps(m)

\* A read and a time-out are two cases of one step.
LEMMA ReceiverReadsOrWaits ==
  ASSUME EndsOK, ReceiverReads \/ ReceiverTimesOut
  PROVE  \E d, m : ReceiverWorks(d, m)
<1> HIDE DEF Messages
<1>1. forth \in Seq(Messages)
  BY DEF EndsOK, LineOK
<1>2. CASE ReceiverReads
  <2> DEFINE m == forth[1]
  <2>1. forth # <<>> /\ forth' = Tail(forth) /\ ReceiverTakes(Head(forth))
    BY <1>2 DEF ReceiverReads
  <2>2. Shorter /\ forth' \in Seq(Messages) /\ Head(forth) = m /\ m \in Messages
    BY <1>1, <2>1, LineShortened
  <2>3. m.kind = "block" => m \in BlockMessage
    BY <2>2 DEF Messages, SignMessage
  <2>4. ReceiverSteps(m)
    BY <2>1, <2>2, <2>3, ReceiverDoes
  <2>5. Taken(1, m)
    BY <2>2 DEF Taken, Shorter
  <2> HIDE DEF m
  <2> QED  BY <2>4, <2>5 DEF ReceiverWorks
<1>3. CASE ReceiverTimesOut
  <2>1. Silence.kind = "none" /\ ReceiverTakes(Silence) /\ forth' = forth
    BY <1>3 DEF ReceiverTimesOut, Silence
  <2>2. ReceiverSteps(Silence)
    BY <2>1, ReceiverDoes
  <2>3. Taken(0, Silence)
    <3>1. Len(forth') \in Nat /\ Len(forth) = Len(forth') + 0 /\ forth' \in Seq(Messages)
      BY <1>1, <2>1
    <3>2. \A i \in 1..Len(forth') : i + 0 = i
      BY <3>1
    <3> QED  BY <2>1, <3>1, <3>2 DEF Taken
  <2> QED  BY <2>2, <2>3 DEF ReceiverWorks
<1> QED  BY <1>2, <1>3

\* The messages that stay are one place further to the front.
LEMMA TakenLine ==
  ASSUME EndsOK, NEW d, NEW m, Taken(d, m)
  PROVE  /\ d \in {0, 1} /\ Len(forth) \in Nat /\ Len(forth') \in Nat /\ Len(forth) = Len(forth') + d
         /\ \A i \in 1..Len(forth') : i + d \in 1..Len(forth) /\ forth'[i] = forth[i + d]
         /\ \A i \in 1..Len(forth) :
              (d = 1 /\ i = 1 /\ m = forth[1]) \/ (i - d \in 1..Len(forth') /\ forth'[i - d] = forth[i])
         /\ d = 1 => 1 \in 1..Len(forth) /\ m = forth[1]
         /\ d = 0 => m.kind = "none"
<1> HIDE DEF Messages
<1>1. /\ d \in {0, 1} /\ Len(forth) \in Nat /\ Len(forth') \in Nat /\ Len(forth) = Len(forth') + d
      /\ \A i \in 1..Len(forth') : forth'[i] = forth[i + d]
      /\ d = 1 => m = forth[1]
      /\ d = 0 => m.kind = "none"
  BY LineHolds DEF Taken, EndsOK
<1>2. \A i \in 1..Len(forth') : i + d \in 1..Len(forth)
  BY <1>1
<1>3. ASSUME NEW i \in 1..Len(forth)
      PROVE  (d = 1 /\ i = 1) \/ (i - d \in 1..Len(forth') /\ forth'[i - d] = forth[i])
  <2> SUFFICES ASSUME ~(d = 1 /\ i = 1) PROVE i - d \in 1..Len(forth') /\ forth'[i - d] = forth[i]
    OBVIOUS
  <2>1. i - d \in 1..Len(forth') /\ (i - d) + d = i
    BY <1>1
  <2> QED  BY <1>1, <2>1
<1>4. d = 1 => 1 \in 1..Len(forth)
  BY <1>1
<1> QED  BY <1>1, <1>2, <1>3, <1>4

\* The sender does not move when its variables do not.
LEMMA SenderStill ==
  ASSUME UNCHANGED <<ymodem, blockSender>>
  PROVE  /\ Place' = Place /\ (Live' <=> Live)
         /\ \A k : (Overtaken(k)' <=> Overtaken(k)) /\ (Beyond(k)' <=> Beyond(k))
BY DEF Place, Live, Overtaken, Beyond

\* What is still on its way was on its way, and so was what was read.
LEMMA TakenUnder ==
  ASSUME EndsOK, NEW d, NEW m, ReceiverWorks(d, m), NEW k, NEW b
  PROVE  /\ Under(k, b)' => Under(k, b)
         /\ Under(k, b) => Under(k, b)' \/ (d = 1 /\ m.kind = "block" /\ m.data = <<k, b>>)
         /\ d = 1 /\ m.kind = "block" /\ m.data = <<k, b>> => Under(k, b)
<1>1. Under(k, b) <=> \E i \in 1..Len(forth) : forth[i].kind = "block" /\ forth[i].data = <<k, b>>
  BY DEF Under, IsBlock
<1>2. Under(k, b)' <=> \E i \in 1..Len(forth') : forth'[i].kind = "block" /\ forth'[i].data = <<k, b>>
  BY DEF Under, IsBlock
<1>3. /\ \A i \in 1..Len(forth') : i + d \in 1..Len(forth) /\ forth'[i] = forth[i + d]
      /\ \A i \in 1..Len(forth) :
           (d = 1 /\ i = 1 /\ m = forth[1]) \/ (i - d \in 1..Len(forth') /\ forth'[i - d] = forth[i])
      /\ d = 1 => 1 \in 1..Len(forth) /\ m = forth[1]
  BY TakenLine DEF ReceiverWorks
<1>4. Under(k, b)' => Under(k, b)
  BY <1>1, <1>2, <1>3
<1>5. Under(k, b) => Under(k, b)' \/ (d = 1 /\ m.kind = "block" /\ m.data = <<k, b>>)
  BY <1>1, <1>2, <1>3
<1>6. d = 1 /\ m.kind = "block" /\ m.data = <<k, b>> => Under(k, b)
  BY <1>1, <1>3
<1> QED  BY <1>4, <1>5, <1>6

\* What the sender has reached it had reached before.
LEMMA TakenReached ==
  ASSUME EndsOK, NEW d, NEW m, ReceiverWorks(d, m), NEW k, NEW t, Reached(k, t)'
  PROVE  Reached(k, t)
<1>1. Place' = Place /\ (Live' <=> Live) /\ (Overtaken(k)' <=> Overtaken(k))
  BY SenderStill DEF ReceiverWorks, ReceiverSteps
<1> QED  BY <1>1, TakenUnder DEF Reached

\* A gap grows by the block that was read at most.
LEMMA TakenGap ==
  ASSUME EndsOK, NEW d, NEW m, ReceiverWorks(d, m), NEW k, NEW j, NEW t
  PROVE  /\ Gap(k, j, t)' \subseteq Gap(k, j, t) \union {m.data[2]}
         /\ ~(d = 1 /\ m.kind = "block" /\ m.data[1] = k /\ m.data[2] \in (j + 1)..t) =>
              Gap(k, j, t)' \subseteq Gap(k, j, t)
<1>1. \A b : Under(k, b) => Under(k, b)' \/ (d = 1 /\ m.kind = "block" /\ m.data = <<k, b>>)
  BY TakenUnder
<1> QED  BY <1>1 DEF Gap

\* Behind a block on its way no gap grows: what was read was before it.
LEMMA ReceiverKeepsLost ==
  ASSUME EndsOK, Ordered, LostInNoise, NEW d, NEW m, ReceiverWorks(d, m)
  PROVE  LostInNoise'
<1> SUFFICES ASSUME NEW k \in 1..Files, NEW j \in 0..Blocks, NEW t \in 0..Blocks,
                    Under(k, j)', Reached(k, t)'
             PROVE  Cardinality(Gap(k, j, t)') <= noise
  BY DEF LostInNoise, ReceiverWorks, ReceiverSteps
<1>1. noise \in Nat /\ k \in Nat \ {0} /\ j \in Nat /\ t \in Nat
  BY BlocksNumbers DEF EndsOK, LineOK
<1>2. Cardinality(Gap(k, j, t)) <= noise /\ IsFiniteSet(Gap(k, j, t))
  BY <1>1, TakenUnder, TakenReached, GapIsFinite DEF LostInNoise
<1>3. ~(d = 1 /\ m.kind = "block" /\ m.data[1] = k /\ m.data[2] \in (j + 1)..t)
  <2> SUFFICES ASSUME d = 1, m.kind = "block", m.data[1] = k, m.data[2] \in (j + 1)..t PROVE FALSE
    OBVIOUS
  <2>1. PICK i \in 1..Len(forth') : forth'[i].kind = "block" /\ forth'[i].data = <<k, j>>
    BY DEF Under, IsBlock
  <2>2. /\ i + 1 \in 1..Len(forth) /\ forth[i + 1].kind = "block" /\ forth[i + 1].data = <<k, j>>
        /\ 1 \in 1..Len(forth) /\ forth[1] = m /\ 1 < i + 1
    <3>1. /\ \A l \in 1..Len(forth') : l + d \in 1..Len(forth) /\ forth'[l] = forth[l + d]
          /\ d = 1 => 1 \in 1..Len(forth) /\ m = forth[1]
          /\ Len(forth') \in Nat
      BY TakenLine DEF ReceiverWorks
    <3>2. i + 1 \in 1..Len(forth) /\ forth'[i] = forth[i + 1]
      BY <3>1
    <3>3. 1 \in 1..Len(forth) /\ forth[1] = m /\ 1 < i + 1
      BY <3>1
    <3> QED  BY <2>1, <3>2, <3>3
  <2>3. NotAfter(m.data, <<k, j>>)
    BY <2>2 DEF Ordered, IsBlock
  <2> QED  BY <1>1, <2>3 DEF NotAfter
<1>4. Gap(k, j, t)' \subseteq Gap(k, j, t)
  BY <1>3, TakenGap
<1> QED  BY <1>1, <1>2, <1>4, FewerThan

\* Where the receiver is after a step: at the block it has read, or where it was.
ComesTo(d, m, k, g) ==
    /\ d = 1 /\ m.kind = "block" /\ m.data = <<k, g>> /\ m.check = blockReceiver.check
    /\ k \in 1..Files /\ g \in 0..Blocks /\ blockReceiver'.errors = 0
    /\ \/ blockReceiver.phase = "data" /\ blockReceiver.file = k /\ g = Len(blockReceiver.got) + 1
          /\ blockReceiver'.got = Append(blockReceiver.got, m.data)
          /\ blockReceiver'.expected = (blockReceiver.expected + 1) % Modulus
       \/ blockReceiver.phase = "header" /\ blockReceiver'.got = <<>> /\ blockReceiver'.expected = 1

StaysAt(d, m, k, g) ==
    /\ blockReceiver.phase = "data" /\ blockReceiver.file = k /\ Len(blockReceiver.got) = g
    /\ blockReceiver'.got = blockReceiver.got /\ blockReceiver'.expected = blockReceiver.expected
    /\ \/ d = 1 /\ m.kind = "block" /\ m.data = <<k, g>> /\ blockReceiver'.errors = blockReceiver.errors
       \/ m.kind # "EOT" /\ (noise = 0 /\ d = 1 => m.kind # "block")
          /\ blockReceiver'.errors = blockReceiver.errors + 1 /\ blockReceiver'.errors < MaxRetries

\* A receiver that has the whole file meets no block with the number it expects: each block it
\* takes is written.
LEMMA EachIsWritten ==
  ASSUME BlocksInv, NEW d, NEW m, ReceiverWorks(d, m)
  PROVE  ~WritesNothing(m)
<1> SUFFICES ASSUME WritesNothing(m) PROVE FALSE
  OBVIOUS
<1> PICK h : h = Len(blockReceiver.got)
  OBVIOUS
<1>1. /\ blockReceiver.phase = "data" /\ Sound(m) /\ Expected(m) /\ h >= Blocks
      /\ blockReceiver \in ReceiverRecord
  BY DEF WritesNothing, BlocksInv, EndsOK, ReceiverOK
<1>2. 1 \in 1..Len(forth) /\ m = forth[1] /\ m.kind = "block"
  BY <1>1, TakenLine DEF BlocksInv, ReceiverWorks, Sound
<1>3. m.data[2] \in 0..Blocks /\ m.data[2] = h + 1
  BY <1>1, <1>2, HeadIsOfFile, HeadIsNext
<1> QED  BY <1>1, <1>3, BlocksNumbers DEF ReceiverRecord

\* The receiver is at the block it has read, or stays where it was.
LEMMA ReceiverPlace ==
  ASSUME BlocksInv, NEW d, NEW m, ReceiverWorks(d, m), blockReceiver'.phase = "data",
         NEW k, k = blockReceiver'.file, NEW g, g = Len(blockReceiver'.got)
  PROVE  k \in 1..Files /\ (ComesTo(d, m, k, g) \/ StaysAt(d, m, k, g))
<1> PICK h : h = Len(blockReceiver.got)
  OBVIOUS
<1>1. EndsOK /\ ReceiverSteps(m) /\ blockReceiver \in ReceiverRecord /\ h \in Nat
  BY DEF BlocksInv, EndsOK, ReceiverOK, ReceiverRecord, ReceiverWorks
<1>2. d \in {0, 1} /\ (d = 0 => m.kind = "none") /\ (d = 1 => 1 \in 1..Len(forth) /\ m = forth[1])
  BY <1>1, TakenLine DEF ReceiverWorks
<1>3. blockReceiver.phase = "data" /\ d = 1 /\ m.kind = "block" =>
        /\ m.data = <<blockReceiver.file, m.data[2]>> /\ m.data[2] \in 0..Blocks
        /\ Expected(m) => m.data[2] = h + 1
        /\ m.number = Before(blockReceiver.expected) => m.data[2] = h
        /\ noise = 0 => Sound(m) /\ (Expected(m) \/ m.number = Before(blockReceiver.expected))
  BY <1>2, HeadIsOfFile, HeadIsNext
<1>4. Sound(m) => d = 1 /\ m.kind = "block" /\ m.check = blockReceiver.check
  BY <1>2 DEF Sound
<1>5. CASE GetsBlock(m)
  <2>1. blockReceiver.got \in Seq(Nat \X Nat)
    BY <1>1 DEF ReceiverRecord
  <2>2. blockReceiver'.got = Append(blockReceiver.got, m.data) /\ m.data[2] = h + 1 /\ k = blockReceiver.file
    BY <1>3, <1>4, <1>5 DEF GetsBlock
  <2>3. m.data \in Nat \X Nat
    <3>1. blockReceiver.file \in Nat
      BY <1>1, BlocksNumbers DEF ReceiverRecord
    <3>2. m.data = <<blockReceiver.file, m.data[2]>> /\ m.data[2] \in Nat
      BY <1>3, <1>4, <1>5, BlocksNumbers DEF GetsBlock
    <3>3. \A x, y \in Nat : <<x, y>> \in Nat \X Nat
      OBVIOUS
    <3> QED  BY <3>1, <3>2, <3>3, Zenon
  <2>4. g = h + 1
    BY <2>1, <2>2, <2>3
  <2> QED  BY <1>1, <1>3, <1>4, <1>5, <2>2, <2>4 DEF GetsBlock, ComesTo, ReceiverRecord
<1>6. CASE GetsHeader(m)
  <2>1. g = 0 /\ k = m.data[1] /\ m.data[2] = 0
    BY <1>6 DEF GetsHeader
  <2>2. m.data \in BlockPlace
    BY <1>1, <1>2, <1>4, <1>6, LineHolds DEF EndsOK, GetsHeader
  <2>3. k \in 1..Files /\ m.data = <<k, 0>>
    BY <1>6, <2>1, <2>2 DEF GetsHeader, BlockPlace
  <2> QED  BY <1>4, <1>6, <2>1, <2>3, BlocksNumbers DEF GetsHeader, ComesTo
<1>7. CASE GetsAgain(m)
  BY <1>1, <1>3, <1>4, <1>7 DEF GetsAgain, ReceiverHas, StaysAt, ReceiverRecord
<1>8. CASE RefusesIt(m)
  <2>1. noise = 0 /\ d = 1 => m.kind # "block"
    BY <1>3, <1>8 DEF RefusesIt
  <2> QED  BY <1>1, <1>8, <2>1 DEF RefusesIt, ReceiverHas, StaysAt, ReceiverRecord
<1>9. CASE LeavesData(m)
  BY <1>9 DEF LeavesData, ReceiverHas
<1> QED  BY <1>1, <1>5, <1>6, <1>7, <1>8, <1>9, EachIsWritten DEF ReceiverSteps

\* A block that is refused costs a retry; a block that is taken ends the gap before it.
LEMMA ReceiverKeepsRefused ==
  ASSUME BlocksInv, NEW d, NEW m, ReceiverWorks(d, m)
  PROVE  LostOrRefused'
<1> SUFFICES ASSUME NEW k, NEW g, NEW e, k = blockReceiver'.file, g = Len(blockReceiver'.got),
                    e = blockReceiver'.errors, blockReceiver'.phase = "data",
                    NEW t \in 0..Blocks, Reached(k, t)'
             PROVE  Cardinality(Gap(k, g, t)') <= noise + e /\ (noise = 0 => Gap(k, g, t)' = {})
  BY DEF LostOrRefused, ReceiverWorks, ReceiverSteps
<1>1. EndsOK /\ LostInNoise /\ LostOrRefused /\ noise \in Nat /\ t \in Nat /\ blockReceiver.errors \in Nat
  BY BlocksNumbers DEF BlocksInv, EndsOK, LineOK, ReceiverOK, ReceiverRecord
<1>2. k \in 1..Files /\ (ComesTo(d, m, k, g) \/ StaysAt(d, m, k, g)) /\ Reached(k, t)
  BY <1>1, ReceiverPlace, TakenReached
<1>3. CASE ComesTo(d, m, k, g)
  <2>1. g \in Nat /\ g \in 0..Blocks /\ e = 0
    BY <1>3, BlocksNumbers DEF ComesTo
  <2>2. Under(k, g)
    BY <1>1, <1>3, TakenUnder DEF ComesTo
  <2>3. Cardinality(Gap(k, g, t)) <= noise /\ IsFiniteSet(Gap(k, g, t))
    BY <1>1, <1>2, <2>1, <2>2, GapIsFinite DEF LostInNoise
  <2>4. Gap(k, g, t)' \subseteq Gap(k, g, t)
    <3>1. m.data = <<k, g>> /\ g \notin (g + 1)..t
      BY <1>3, <2>1 DEF ComesTo
    <3> QED  BY <1>1, <3>1, TakenGap
  <2>5. Cardinality(Gap(k, g, t)') <= noise /\ IsFiniteSet(Gap(k, g, t)')
    BY <1>1, <2>3, <2>4, FewerThan
  <2> QED  BY <1>1, <2>1, <2>5, EmptyCounts
<1>4. CASE StaysAt(d, m, k, g)
  <2>1. /\ k = blockReceiver.file /\ g = Len(blockReceiver.got) /\ blockReceiver.phase = "data" /\ g \in Nat
    BY <1>1, <1>4 DEF StaysAt, EndsOK, ReceiverOK, ReceiverRecord
  <2>2. PICK n \in Nat : n = noise + blockReceiver.errors
    BY <1>1
  <2>3. Cardinality(Gap(k, g, t)) <= n /\ (noise = 0 => Gap(k, g, t) = {}) /\ IsFiniteSet(Gap(k, g, t))
    BY <1>1, <1>2, <2>1, <2>2, GapIsFinite DEF LostOrRefused
  <2>4. CASE d = 1 /\ m.kind = "block" /\ m.data = <<k, g>> /\ e = blockReceiver.errors
    <3>1. g \notin (g + 1)..t
      BY <2>1
    <3>2. Gap(k, g, t)' \subseteq Gap(k, g, t)
      BY <1>1, <2>4, <3>1, TakenGap
    <3>3. Cardinality(Gap(k, g, t)') <= n
      BY <2>3, <3>2, FewerThan
    <3> QED  BY <2>2, <2>3, <2>4, <3>2, <3>3
  <2>5. CASE (noise = 0 /\ d = 1 => m.kind # "block") /\ e = blockReceiver.errors + 1
    <3>1. Gap(k, g, t)' \subseteq Gap(k, g, t) \union {m.data[2]}
      BY <1>1, TakenGap
    <3>2. Cardinality(Gap(k, g, t)') <= n + 1
      BY <2>3, <3>1, OneMoreThan
    <3>3. noise = 0 => Gap(k, g, t)' \subseteq Gap(k, g, t)
      BY <1>1, <2>5, TakenGap
    <3>4. n + 1 = noise + e
      BY <1>1, <2>2, <2>5
    <3> QED  BY <2>3, <3>2, <3>3, <3>4
  <2> QED  BY <1>4, <2>4, <2>5 DEF StaysAt
<1> QED  BY <1>2, <1>3, <1>4

\* The rest of the line stays in order, and behind nothing that was taken.
LEMMA ReceiverKeepsOrder ==
  ASSUME BlocksInv, NEW d, NEW m, ReceiverWorks(d, m)
  PROVE  Ordered' /\ Behind'
<1>1. EndsOK /\ Ordered /\ Behind
  BY DEF BlocksInv
<1>2. /\ \A i \in 1..Len(forth') : i + d \in 1..Len(forth) /\ forth'[i] = forth[i + d]
      /\ d = 1 => 1 \in 1..Len(forth) /\ m = forth[1]
      /\ d \in {0, 1} /\ Len(forth') \in Nat
  BY <1>1, TakenLine DEF ReceiverWorks
<1>3. Place' = Place /\ (Live' <=> Live)
  BY SenderStill DEF ReceiverWorks, ReceiverSteps
<1>4. Ordered'
  <2>1. ASSUME NEW i \in 1..Len(forth'), NEW j \in 1..Len(forth'), i < j,
               forth'[i].kind = "block", forth'[j].kind = "block"
        PROVE  NotAfter(forth'[i].data, forth'[j].data)
    <3>1. i + d < j + d
      BY <1>2, <2>1
    <3> QED  BY <1>1, <1>2, <2>1, <3>1 DEF Ordered, IsBlock
  <2>2. ASSUME NEW i \in 1..Len(forth'), forth'[i].kind = "block", Live
        PROVE  NotAfter(forth'[i].data, Place)
    BY <1>1, <1>2, <2>2 DEF Ordered, IsBlock
  <2> QED  BY <1>3, <2>1, <2>2 DEF Ordered, IsBlock
<1>5. ASSUME blockReceiver'.phase = "data", NEW k, k = blockReceiver'.file, NEW g, g = Len(blockReceiver'.got)
      PROVE  /\ g <= Blocks
             /\ \A i \in 1..Len(forth') : forth'[i].kind = "block" => NotAfter(<<k, g>>, forth'[i].data)
             /\ Live => NotAfter(<<k, g>>, Place)
  <2>1. CASE ComesTo(d, m, k, g)
    <3>1. g \in 0..Blocks /\ d = 1 /\ forth[1].kind = "block" /\ forth[1].data = <<k, g>>
      BY <1>2, <2>1 DEF ComesTo
    <3>2. \A i \in 1..Len(forth') : 1 < i + 1 /\ i + 1 \in 1..Len(forth) /\ forth'[i] = forth[i + 1]
      BY <1>2, <3>1
    <3>3. ASSUME NEW i \in 1..Len(forth'), forth'[i].kind = "block"
          PROVE  NotAfter(<<k, g>>, forth'[i].data)
      <4>1. 1 < i + 1 /\ i + 1 \in 1..Len(forth) /\ forth[i + 1].kind = "block" /\ 1 \in 1..Len(forth)
        BY <1>2, <3>1, <3>2, <3>3
      <4>2. NotAfter(forth[1].data, forth[i + 1].data)
        BY <1>1, <3>1, <4>1 DEF Ordered, IsBlock
      <4> QED  BY <3>1, <3>2, <3>3, <4>2
    <3>4. Live => NotAfter(<<k, g>>, Place)
      BY <1>1, <1>2, <3>1 DEF Ordered, IsBlock
    <3>5. g <= Blocks
      BY <3>1, BlocksNumbers
    <3> QED  BY <3>3, <3>4, <3>5
  <2>2. CASE StaysAt(d, m, k, g)
    <3>1. blockReceiver.phase = "data" /\ blockReceiver.file = k /\ Len(blockReceiver.got) = g
      BY <2>2 DEF StaysAt
    <3> QED  BY <1>1, <1>2, <3>1 DEF Behind, IsBlock
  <2> QED  BY <1>5, <2>1, <2>2, ReceiverPlace
<1>6. Behind'
  BY <1>3, <1>5 DEF Behind, IsBlock
<1> QED  BY <1>4, <1>6

\* The block that is appended is the next one of the file.
LEMMA ReceiverKeepsPlaces ==
  ASSUME BlocksInv, NEW d, NEW m, ReceiverWorks(d, m)
  PROVE  InPlace'
<1>1. InPlace /\ blockReceiver.got \in Seq(Nat \X Nat) /\ ReceiverSteps(m)
  BY DEF BlocksInv, EndsOK, ReceiverOK, ReceiverRecord, ReceiverWorks
<1>2. CASE blockReceiver'.got = blockReceiver.got /\ blockReceiver'.file = blockReceiver.file
  BY <1>1, <1>2 DEF InPlace
<1>3. CASE blockReceiver'.got = <<>>
  BY <1>3 DEF InPlace
<1>4. CASE GetsBlock(m)
  <2>1. PICK g : g = Len(blockReceiver'.got)
    OBVIOUS
  <2>2. /\ m.data = <<blockReceiver.file, g>> /\ g = Len(blockReceiver.got) + 1
        /\ blockReceiver'.got = Append(blockReceiver.got, m.data) /\ blockReceiver'.file = blockReceiver.file
    <3>1. blockReceiver'.phase = "data" /\ blockReceiver'.file = blockReceiver.file /\ blockReceiver.phase = "data"
          /\ blockReceiver'.got = Append(blockReceiver.got, m.data)
      BY <1>4 DEF GetsBlock
    <3>2. g # Len(blockReceiver.got)
      <4>1. blockReceiver'.got \in Seq(Nat \X Nat)
        BY <1>4 DEF GetsBlock, ReceiverRecord
      <4>2. \A s \in Seq(Nat \X Nat) : \A x : Len(Append(s, x)) = Len(s) + 1 /\ Len(s) \in Nat
        OBVIOUS
      <4>3. g = Len(blockReceiver.got) + 1 /\ Len(blockReceiver.got) \in Nat
        BY <1>1, <2>1, <3>1, <4>2
      <4> QED  BY <4>3
    <3> QED  BY <2>1, <3>1, <3>2, ReceiverPlace DEF ComesTo, StaysAt
  <2>3. m.data \in Nat \X Nat
    <3>1. blockReceiver'.got \in Seq(Nat \X Nat) /\ g \in DOMAIN blockReceiver'.got
          /\ blockReceiver'.got[g] = m.data
      BY <1>1, <1>4, <2>1, <2>2 DEF GetsBlock, ReceiverRecord
    <3> QED  BY <3>1
  <2>4. \A i \in DOMAIN blockReceiver'.got :
           (i \in DOMAIN blockReceiver.got /\ blockReceiver'.got[i] = blockReceiver.got[i])
           \/ (i = g /\ blockReceiver'.got[i] = m.data)
    BY <1>1, <2>2, <2>3
  <2> QED  BY <1>1, <2>2, <2>4 DEF InPlace
<1> QED  BY <1>1, <1>2, <1>3, <1>4, EachIsWritten
         DEF ReceiverSteps, GetsHeader, GetsAgain, RefusesIt, LeavesData, ReceiverHas

\* Every step of the receiver keeps both ends and the line well formed.
LEMMA ReceiverStaysOK ==
  ASSUME EndsOK, NEW d, NEW m, ReceiverWorks(d, m)
  PROVE  EndsOK' /\ (ChecksOK => ChecksOK')
<1>1. /\ EndsOK /\ ReceiverSteps(m) /\ ymodem' = ymodem /\ blockSender' = blockSender
      /\ noise' = noise /\ endNoise' = endNoise
  BY DEF ReceiverWorks, ReceiverSteps
<1>2. /\ \A i \in 1..Len(forth') : i + d \in 1..Len(forth) /\ forth'[i] = forth[i + d]
      /\ d = 1 => 1 \in 1..Len(forth) /\ m = forth[1]
      /\ d \in {0, 1} /\ Len(forth') \in Nat
  BY <1>1, TakenLine DEF ReceiverWorks
<1>3. forth' \in Seq(Messages) /\ (d = 0 => forth' = forth)
  BY DEF ReceiverWorks, Taken
<1>4. BackGrows /\ blockReceiver'.check = blockReceiver.check /\ blockReceiver' \in ReceiverRecord
  BY <1>1 DEF ReceiverSteps, GetsBlock, WritesNothing, GetsHeader, GetsAgain,
         RefusesIt, LeavesData, ReceiverHas
<1>5. SenderOK'
  <2>1. SenderOK /\ Len(forth) = 0 => SenderOK'
    <3>1. Len(forth) = 0 => d = 0
      BY <1>2
    <3> QED  BY <1>1, <1>3, <3>1 DEF SenderOK
  <2>2. SenderOK /\ Len(forth) # 0 => SenderOK'
    <3>1. Len(forth) # 0 => forth # <<>>
      OBVIOUS
    <3> QED  BY <1>1, <3>1 DEF SenderOK
  <2> QED  BY <1>1, <2>1, <2>2 DEF EndsOK
<1>6. LineOK'
  <2>1. (\A i \in 1..Len(forth) : MessageOK(forth[i]))'
    BY <1>1, <1>2 DEF EndsOK, LineOK, MessageOK
  <2> HIDE DEF Messages
  <2> QED  BY <1>1, <1>3, <1>4, <2>1 DEF EndsOK, LineOK, BackGrows
<1>7. ReceiverOK'
  <2>1. ReceiverOK /\ ymodem \in BOOLEAN /\ 0 < MaxRetries
    BY <1>1, BlocksNumbers DEF EndsOK, SenderOK
  <2>2. /\ blockReceiver'.phase \in {"header", "data", "eot"} => blockReceiver'.errors < MaxRetries
        /\ ~ymodem => blockReceiver'.phase \notin {"header", "eot"} /\ blockReceiver'.file = 1
    BY <1>1, <2>1 DEF ReceiverOK, ReceiverSteps, GetsBlock, WritesNothing, GetsHeader, GetsAgain,
                      RefusesIt, LeavesData, ReceiverHas
  <2> QED  BY <1>1, <1>4, <2>1, <2>2 DEF ReceiverOK
<1>8. ChecksOK => ChecksOK'
  <2>1. \A i \in 1..Len(forth') : IsBlock(i)' => IsBlock(i + d)
    BY <1>2 DEF IsBlock
  <2> QED  BY <1>1, <1>2, <1>4, <2>1 DEF ChecksOK, BackGrows
<1> QED  BY <1>5, <1>6, <1>7, <1>8 DEF EndsOK

\* The number expected is that of the block after what is written.
LEMMA ReceiverKeepsNumbers ==
  ASSUME BlocksInv, NEW d, NEW m, ReceiverWorks(d, m)
  PROVE  Numbered'
<1> SUFFICES ASSUME blockReceiver'.phase = "data"
             PROVE  blockReceiver'.expected = (Len(blockReceiver'.got) + 1) % Modulus
  BY DEF Numbered
<1>1. PICK g : g = Len(blockReceiver.got)
  OBVIOUS
<1>2. ReceiverSteps(m) /\ Numbered /\ g \in Nat /\ blockReceiver.got \in Seq(Nat \X Nat)
  BY <1>1 DEF BlocksInv, EndsOK, ReceiverOK, ReceiverRecord, ReceiverWorks
<1>3. CASE GetsBlock(m)
  <2>1. /\ blockReceiver.phase = "data" /\ blockReceiver'.got = Append(blockReceiver.got, m.data)
        /\ blockReceiver'.expected = (blockReceiver.expected + 1) % Modulus
    BY <1>3 DEF GetsBlock
  <2>2. \A s \in Seq(Nat \X Nat) : \A x : Len(Append(s, x)) = Len(s) + 1
    OBVIOUS
  <2>3. Len(blockReceiver'.got) = g + 1
    BY <1>1, <1>2, <2>1, <2>2
  <2>4. blockReceiver.expected = (g + 1) % Modulus
    BY <1>1, <1>2, <2>1 DEF Numbered
  <2>5. g + 1 \in Nat
    BY <1>2
  <2> QED  BY <2>1, <2>3, <2>4, <2>5, BlocksNumbers, NumberAfter
<1>4. CASE GetsHeader(m)
  <2>1. blockReceiver'.expected = 1 /\ Len(blockReceiver'.got) = 0
    BY <1>4 DEF GetsHeader
  <2>2. 1 \in 0..(Modulus - 1) /\ 1 = Modulus * 0 + 1 /\ Modulus \in Nat \ {0}
    BY BlocksAssumption
  <2>3. 1 % Modulus = 1
    BY <2>2, RemainderIs
  <2> QED  BY <2>1, <2>3
<1>5. CASE GetsAgain(m) \/ RefusesIt(m)
  BY <1>2, <1>5 DEF GetsAgain, RefusesIt, ReceiverHas, Numbered
<1>6. ~LeavesData(m)
  BY DEF LeavesData, ReceiverHas
<1> QED  BY <1>2, <1>3, <1>4, <1>5, <1>6, EachIsWritten DEF ReceiverSteps

\* What a message, or what was taken last, comes from: the message one place further, or what
\* was taken last before.
LEMMA TakenFrom ==
  ASSUME BlocksInv, NEW d, NEW m, ReceiverWorks(d, m), NEW i \in 0..Len(forth'), NEW k, NEW b, From(i, k, b)'
  PROVE  \E o \in 0..Len(forth) :
            /\ From(o, k, b)
            /\ \/ o = i + d
               \/ o = 0 /\ i = 0 /\ d = 1 /\ m.kind # "EOT" /\ (noise = 0 => m.kind # "block")
<1>1. EndsOK
  BY DEF BlocksInv
<1>2. /\ d \in {0, 1} /\ Len(forth) = Len(forth') + d /\ Len(forth') \in Nat /\ Len(forth) \in Nat
      /\ \A l \in 1..Len(forth') : l + d \in 1..Len(forth) /\ forth'[l] = forth[l + d]
      /\ d = 1 => 1 \in 1..Len(forth) /\ m = forth[1]
  BY <1>1, TakenLine DEF ReceiverWorks
<1>3. i + d \in 0..Len(forth)
  BY <1>2
<1>4. CASE i \in 1..Len(forth') /\ forth'[i].kind = "block" /\ forth'[i].data = <<k, b>>
  <2>1. From(i + d, k, b)
    BY <1>2, <1>4 DEF From, IsBlock
  <2> QED  BY <1>3, <2>1
<1>5. CASE i = 0 /\ blockReceiver'.phase = "data" /\ k = blockReceiver'.file /\ b = Len(blockReceiver'.got)
  <2>1. ComesTo(d, m, k, b) \/ StaysAt(d, m, k, b)
    BY <1>5, ReceiverPlace
  <2>2. CASE d = 1 /\ m.kind = "block" /\ m.data = <<k, b>>
    <3>1. From(i + d, k, b)
      BY <1>2, <1>5, <2>2 DEF From, IsBlock
    <3> QED  BY <1>3, <3>1
  <2>3. CASE ~(d = 1 /\ m.kind = "block" /\ m.data = <<k, b>>)
    <3>1. /\ blockReceiver.phase = "data" /\ blockReceiver.file = k /\ Len(blockReceiver.got) = b
          /\ m.kind # "EOT" /\ (noise = 0 /\ d = 1 => m.kind # "block")
      BY <2>1, <2>3 DEF ComesTo, StaysAt
    <3>2. From(0, k, b) /\ 0 \in 0..Len(forth)
      BY <1>2, <3>1 DEF From
    <3>3. d = 1 \/ 0 = i + d
      BY <1>2, <1>5
    <3> QED  BY <1>5, <3>1, <3>2, <3>3
  <2> QED  BY <2>2, <2>3
<1> QED  BY <1>4, <1>5 DEF From, IsBlock

\* The EOT of a file stays before the next file.
LEMMA TakenClosing ==
  ASSUME EndsOK, NEW d, NEW m, ReceiverWorks(d, m), NEW i \in 0..Len(forth'), NEW o \in 0..Len(forth), NEW k,
         o = i + d \/ (o = 0 /\ i = 0 /\ d = 1 /\ m.kind # "EOT"),
         NEW j, Closing(o, k, j), NEW n, n = j - d
  PROVE  n \in 1..Len(forth') /\ Closing(i, k, n)'
<1>2. /\ d \in {0, 1} /\ Len(forth) = Len(forth') + d /\ Len(forth') \in Nat /\ Len(forth) \in Nat
      /\ \A l \in 1..Len(forth') : l + d \in 1..Len(forth) /\ forth'[l] = forth[l + d]
      /\ d = 1 => 1 \in 1..Len(forth) /\ m = forth[1]
  BY TakenLine DEF ReceiverWorks
<1>3. j \in 1..Len(forth) /\ forth[j].kind = "EOT" /\ o < j
  BY DEF Closing, IsEot
<1>4. i < n /\ n \in 1..Len(forth') /\ n + d = j
  <2>1. CASE o = i + d
    BY <1>2, <1>3, <2>1
  <2>2. CASE o = 0 /\ i = 0 /\ d = 1 /\ m.kind # "EOT"
    <3>1. j # 1
      BY <1>2, <1>3, <2>2
    <3> QED  BY <1>2, <1>3, <2>2, <3>1
  <2> QED  BY <2>1, <2>2
<1>5. ASSUME NEW l \in 1..Len(forth'), i < l, forth'[l].kind = "block", forth'[l].data[1] # k
      PROVE  n < l
  <2>1. l + d \in 1..Len(forth) /\ forth[l + d] = forth'[l] /\ o < l + d
    BY <1>2, <1>5
  <2>2. j < l + d
    BY <1>5, <2>1 DEF Closing, IsBlock
  <2> QED  BY <1>2, <1>3, <2>2
<1>6. forth'[n].kind = "EOT"
  BY <1>2, <1>3, <1>4
<1> QED  BY <1>4, <1>5, <1>6 DEF Closing, IsEot, IsBlock

\* A receiver reads no EOT without leaving the phase in which it takes blocks.
LEMMA ReceiverKeepsClosed ==
  ASSUME BlocksInv, NEW d, NEW m, ReceiverWorks(d, m)
  PROVE  Closed'
<1>1. EndsOK /\ Closed /\ ymodem' = ymodem /\ blockSender' = blockSender /\ noise' = noise /\ endNoise' = endNoise
  BY DEF BlocksInv, ReceiverWorks, ReceiverSteps
<1>2. \A k : Live' = Live /\ (Beyond(k)' <=> Beyond(k))
  BY SenderStill DEF ReceiverWorks, ReceiverSteps, Live
<1> SUFFICES ASSUME ymodem, NEW i \in 0..Len(forth'), NEW k \in 1..Files, NEW b \in 0..Blocks, From(i, k, b)'
             PROVE  /\ Followed(i, k)' => \E j \in 1..Len(forth') : Closing(i, k, j)'
                    /\ Followed(i, k)' /\ endNoise = 0 =>
                         \E j, l \in 1..Len(forth') : j # l /\ Closing(i, k, j)' /\ Closing(i, k, l)'
                    /\ endNoise = 0 /\ blockSender.phase = "eot1" /\ blockSender.file = k =>
                         \E j \in 1..Len(forth') : Closing(i, k, j)'
  BY <1>1 DEF Closed
<1>3. PICK o \in 0..Len(forth) :
         /\ From(o, k, b)
         /\ \/ o = i + d
            \/ o = 0 /\ i = 0 /\ d = 1 /\ m.kind # "EOT" /\ (noise = 0 => m.kind # "block")
  BY TakenFrom
<1>4. /\ d \in {0, 1} /\ Len(forth') \in Nat /\ Len(forth) \in Nat
      /\ \A l \in 1..Len(forth') : l + d \in 1..Len(forth) /\ forth'[l] = forth[l + d]
  BY <1>1, TakenLine DEF ReceiverWorks
<1>5. Followed(i, k)' => Followed(o, k)
  <2>1. CASE Live /\ Beyond(k)
    BY <2>1 DEF Followed
  <2>2. ASSUME NEW l \in 1..Len(forth'), i < l, forth'[l].kind = "block", forth'[l].data[1] # k
        PROVE  Followed(o, k)
    <3>1. l + d \in 1..Len(forth) /\ forth[l + d] = forth'[l]
      BY <1>4
    <3>2. o < l + d
      BY <1>3, <1>4, <2>2
    <3> QED  BY <2>2, <3>1, <3>2 DEF Followed, IsBlock
  <2> QED  BY <1>2, <2>1, <2>2 DEF Followed, IsBlock
<1>6. \A j \in 1..Len(forth) : Closing(o, k, j) => j - d \in 1..Len(forth') /\ Closing(i, k, j - d)'
  <2> SUFFICES ASSUME NEW j \in 1..Len(forth), Closing(o, k, j)
               PROVE  j - d \in 1..Len(forth') /\ Closing(i, k, j - d)'
    OBVIOUS
  <2>1. PICK n : n = j - d
    OBVIOUS
  <2>2. n \in 1..Len(forth') /\ Closing(i, k, n)'
    BY <1>1, <1>3, <2>1, TakenClosing
  <2> QED  BY <2>1, <2>2
<1>7. Followed(i, k)' => \E j \in 1..Len(forth') : Closing(i, k, j)'
  <2> SUFFICES ASSUME Followed(i, k)' PROVE \E j \in 1..Len(forth') : Closing(i, k, j)'
    OBVIOUS
  <2>1. PICK j \in 1..Len(forth) : Closing(o, k, j)
    BY <1>1, <1>3, <1>5 DEF Closed
  <2> QED  BY <1>6, <2>1
<1>8. Followed(i, k)' /\ endNoise = 0 =>
        \E j, l \in 1..Len(forth') : j # l /\ Closing(i, k, j)' /\ Closing(i, k, l)'
  <2> SUFFICES ASSUME Followed(i, k)', endNoise = 0
               PROVE  \E j, l \in 1..Len(forth') : j # l /\ Closing(i, k, j)' /\ Closing(i, k, l)'
    OBVIOUS
  <2>1. PICK j \in 1..Len(forth), l \in 1..Len(forth) : j # l /\ Closing(o, k, j) /\ Closing(o, k, l)
    BY <1>1, <1>3, <1>5 DEF Closed
  <2>2. j - d # l - d
    BY <1>4, <2>1
  <2> QED  BY <1>6, <2>1, <2>2
<1>9. endNoise = 0 /\ blockSender.phase = "eot1" /\ blockSender.file = k =>
        \E j \in 1..Len(forth') : Closing(i, k, j)'
  <2> SUFFICES ASSUME endNoise = 0, blockSender.phase = "eot1", blockSender.file = k
               PROVE  \E j \in 1..Len(forth') : Closing(i, k, j)'
    OBVIOUS
  <2>1. PICK j \in 1..Len(forth) : Closing(o, k, j)
    BY <1>1, <1>3 DEF Closed
  <2> QED  BY <1>6, <2>1
<1> QED  BY <1>7, <1>8, <1>9

\* On a line without noise the blocks before an EOT stay before it.
LEMMA ReceiverKeepsEnds ==
  ASSUME BlocksInv, NEW d, NEW m, ReceiverWorks(d, m)
  PROVE  EndsAreReal'
<1>1. EndsOK /\ EndsAreReal /\ noise' = noise
  BY DEF BlocksInv, ReceiverWorks, ReceiverSteps
<1> SUFFICES ASSUME noise = 0, NEW i \in 0..Len(forth'), NEW j \in 1..Len(forth'), NEW k \in 1..Files,
                    NEW b \in 0..Blocks, i < j, forth'[j].kind = "EOT", From(i, k, b)',
                    NEW c \in (b + 1)..Blocks
             PROVE  \E l \in (i + 1)..(j - 1) :
                       l \in 1..Len(forth') /\ forth'[l].kind = "block" /\ forth'[l].data = <<k, c>>
  BY <1>1 DEF EndsAreReal, IsEot, IsBlock
<1>2. PICK o \in 0..Len(forth) :
         /\ From(o, k, b)
         /\ o = i + d \/ (o = 0 /\ i = 0 /\ d = 1 /\ m.kind # "block")
  BY TakenFrom
<1>3. /\ d \in {0, 1} /\ Len(forth) = Len(forth') + d /\ Len(forth') \in Nat /\ Len(forth) \in Nat
      /\ \A l \in 1..Len(forth') : l + d \in 1..Len(forth) /\ forth'[l] = forth[l + d]
      /\ d = 1 => m = forth[1]
  BY <1>1, TakenLine DEF ReceiverWorks
<1> PICK n : n = j + d
  OBVIOUS
<1>4. PICK l \in (o + 1)..(n - 1) :
         l \in 1..Len(forth) /\ forth[l].kind = "block" /\ forth[l].data = <<k, c>>
  <2>1. n \in 1..Len(forth) /\ forth[n].kind = "EOT" /\ o < n
    BY <1>2, <1>3
  <2> QED  BY <1>1, <1>2, <2>1 DEF EndsAreReal, IsEot, IsBlock
<1>5. l - d \in (i + 1)..(j - 1) /\ l - d \in 1..Len(forth')
  <2>1. CASE o = i + d
    BY <1>3, <1>4, <2>1
  <2>2. CASE o = 0 /\ i = 0 /\ d = 1 /\ m.kind # "block"
    <3>1. l # 1
      BY <1>3, <1>4, <2>2
    <3> QED  BY <1>3, <1>4, <2>2, <3>1
  <2> QED  BY <1>2, <2>1, <2>2
<1>6. forth'[l - d] = forth[l]
  <2>1. (l - d) + d = l
    BY <1>3, <1>4
  <2> QED  BY <1>3, <1>5, <2>1
<1> QED  BY <1>4, <1>5, <1>6

\* On such a line an EOT that is read follows the last block.
LEMMA EotIsReal ==
  ASSUME BlocksInv, NEW d, NEW m, Taken(d, m), noise = 0, blockReceiver.phase = "data", m.kind = "EOT"
  PROVE  Len(blockReceiver.got) = Blocks
<1> PICK k, g : k = blockReceiver.file /\ g = Len(blockReceiver.got)
  OBVIOUS
<1>1. /\ EndsOK /\ EndsAreReal /\ Behind /\ k \in 1..Files /\ g \in Nat
  BY DEF BlocksInv, EndsOK, ReceiverOK, ReceiverRecord
<1>2. g \in 0..Blocks /\ Blocks \in Nat
  BY <1>1, BlocksNumbers DEF Behind
<1>3. From(0, k, g) /\ IsEot(1) /\ 0 \in 0..Len(forth) /\ 1 \in 1..Len(forth)
  BY <1>1, TakenLine DEF From, IsEot
<1>4. \A c \in (g + 1)..Blocks : \E l \in (0 + 1)..(1 - 1) : IsBlock(l) /\ forth[l].data = <<k, c>>
  <2>1. 0 < 1
    OBVIOUS
  <2> QED  BY <1>1, <1>2, <1>3, <2>1 DEF EndsAreReal
<1>5. ~(g < Blocks)
  <2> SUFFICES ASSUME g < Blocks PROVE FALSE
    OBVIOUS
  <2>1. g + 1 \in (g + 1)..Blocks
    BY <1>2
  <2> QED  BY <1>4, <2>1
<1> QED  BY <1>2, <1>5

\* So what is installed there is whole.
LEMMA ReceiverKeepsWhole ==
  ASSUME BlocksInv, NEW d, NEW m, ReceiverWorks(d, m)
  PROVE  WholeFiles'
<1>1. WholeFiles /\ ReceiverSteps(m) /\ Taken(d, m) /\ noise' = noise
  BY DEF BlocksInv, ReceiverWorks, ReceiverSteps
<1> SUFFICES ASSUME noise = 0
             PROVE  /\ blockReceiver'.phase = "eot" => Len(blockReceiver'.got) = Blocks
                    /\ \A f \in installed' : f.blocks = Blocks
  BY <1>1 DEF WholeFiles
<1>2. blockReceiver.phase = "eot" \/ (blockReceiver.phase = "data" /\ m.kind = "EOT") =>
        Len(blockReceiver.got) = Blocks
  BY <1>1, EotIsReal DEF WholeFiles
<1>3. blockReceiver'.phase = "eot" => Len(blockReceiver'.got) = Blocks
  BY <1>1, <1>2 DEF ReceiverSteps, GetsBlock, WritesNothing, GetsHeader, GetsAgain,
         RefusesIt, LeavesData, ReceiverHas
<1>4. \A f \in installed' : f.blocks = Blocks
  BY <1>1, <1>2 DEF ReceiverSteps, InstallsIt, Keep, WholeFiles
<1> QED  BY <1>3, <1>4

\* Every step of the receiver keeps the invariant.
LEMMA ReceiverKeepsInv ==
  ASSUME BlocksInv, ReceiverReads \/ ReceiverTimesOut
  PROVE  BlocksInv'
<1>1. PICK d, m : ReceiverWorks(d, m)
  BY ReceiverReadsOrWaits DEF BlocksInv
<1>2. LittleNoise'
  BY <1>1 DEF ReceiverWorks, ReceiverSteps, BlocksInv, LittleNoise
<1>3. EndsOK' /\ ChecksOK' /\ Ordered' /\ Behind'
  BY <1>1, ReceiverStaysOK, ReceiverKeepsOrder DEF BlocksInv
<1>4. LostInNoise'
  BY <1>1, ReceiverKeepsLost DEF BlocksInv
<1>5. LostOrRefused'
  BY <1>1, ReceiverKeepsRefused
<1>6. Closed' /\ EndsAreReal'
  BY <1>1, ReceiverKeepsClosed, ReceiverKeepsEnds
<1>7. WholeFiles' /\ InPlace' /\ Numbered'
  BY <1>1, ReceiverKeepsWhole, ReceiverKeepsPlaces, ReceiverKeepsNumbers
<1> QED  BY <1>2, <1>3, <1>4, <1>5, <1>6, <1>7 DEF BlocksInv

(***************************************************************************)
(* Noise: all but the last message is kept.                                *)
(***************************************************************************)
Kept(n) ==
    /\ n \in 0..Len(forth) /\ n \in 0..Len(forth') /\ Len(forth) \in Nat /\ Len(forth') \in Nat
    /\ \A i \in 1..n : forth'[i] = forth[i]
    /\ \A i \in 1..Len(forth') : i \in 1..n \/ forth'[i].kind # "block"
    /\ \A i \in 1..Len(forth) : i \in 1..n \/ i = n + 1
    /\ forth' \in Seq(Messages) /\ back' \in Seq(Controls)
    /\ forth = <<>> => forth' = <<>>
    /\ noise' = noise + 1 /\ noise < MaxNoise
    /\ \/ endNoise' = endNoise /\ (ymodem => \A i \in 1..Len(forth) : i \in 1..n \/ ~IsEot(i))
       \/ ymodem /\ endNoise < MaxEnds /\ endNoise' = endNoise + 1
    /\ UNCHANGED <<ymodem, blockSender, blockReceiver, installed>>

\* Noise leaves the way back with controls only.
LEMMA ControlsStruck ==
  ASSUME back \in Seq(Controls), back # <<>>,
         NEW damaged \in {<<>>} \union {<<c>> : c \in Controls \ {"CAN"}},
         back' = Instead(back, damaged)
  PROVE  back' \in Seq(Controls)
<1> HIDE DEF Controls
<1>1. damaged \in Seq(Controls)
  <2>1. \A c \in Controls : <<c>> \in Seq(Controls)
    OBVIOUS
  <2>2. <<>> \in Seq(Controls)
    OBVIOUS
  <2> QED  BY <2>1, <2>2
<1> DEFINE rest == SubSeq(back, 1, Len(back) - 1)
<1>2. rest \in Seq(Controls)
  <2>1. Len(back) \in Nat \ {0} /\ \A i \in 1..Len(back) : back[i] \in Controls
    OBVIOUS
  <2>2. rest = [i \in 1..(Len(back) - 1) |-> back[i]]
    BY <2>1
  <2>3. [i \in 1..(Len(back) - 1) |-> back[i]] \in [1..(Len(back) - 1) -> Controls]
    BY <2>1
  <2>4. \A n \in Nat : \A f \in [1..n -> Controls] : f \in Seq(Controls)
    OBVIOUS
  <2>5. Len(back) - 1 \in Nat
    BY <2>1
  <2> HIDE DEF rest
  <2> QED  BY <2>2, <2>3, <2>4, <2>5
<1> HIDE DEF rest
<1>3. back' = rest \o damaged
  BY DEF Instead, rest
<1> QED  BY <1>1, <1>2, <1>3

\* Noise takes one message away, or puts a sign in its place.
LEMMA DamageKeeps ==
  ASSUME EndsOK, Damage
  PROVE  \E n : Kept(n)
<1> HIDE DEF Messages, Controls
<1>1. /\ forth \in Seq(Messages) /\ back \in Seq(Controls) /\ Len(forth) \in Nat
      /\ noise' = noise + 1 /\ noise < MaxNoise
      /\ UNCHANGED <<ymodem, blockSender, blockReceiver, installed>>
  BY DEF EndsOK, LineOK, Damage
<1>2. CASE forth' = forth /\ back' \in Seq(Controls) /\ endNoise' = endNoise
  <2>1. /\ Len(forth) \in 0..Len(forth') /\ Len(forth') = Len(forth)
        /\ \A i \in 1..Len(forth) : forth'[i] = forth[i]
    BY <1>1, <1>2
  <2>2. Kept(Len(forth))
    BY <1>1, <1>2, <2>1 DEF Kept
  <2> QED  BY <2>2
<1>3. CASE /\ Struck /\ forth # <<>> /\ forth' \in Seq(Messages) /\ back' = back
           /\ IF HitsEnd THEN endNoise < MaxEnds /\ endNoise' = endNoise + 1 ELSE UNCHANGED endNoise
  <2>1. PICK n : n = Len(forth) - 1
    OBVIOUS
  <2>2. Len(forth) \in Nat \ {0} /\ Len(forth') \in {n, n + 1} /\ n \in Nat /\ Len(forth) = n + 1
    BY <1>3, <2>1 DEF Struck
  <2>3. \A i \in 1..n : forth'[i] = forth[i]
    BY <1>3, <2>1 DEF Struck
  <2>4. ASSUME NEW i \in 1..Len(forth'), i \notin 1..n PROVE forth'[i].kind # "block"
    <3>1. i = Len(forth) /\ Len(forth') = Len(forth)
      BY <2>2, <2>4
    <3> QED  BY <1>3, <3>1 DEF Struck
  <2>5. \A i \in 1..Len(forth) : i \in 1..n \/ i = n + 1
    BY <2>2
  <2>6. n \in 0..Len(forth) /\ n \in 0..Len(forth') /\ Len(forth') \in Nat
    BY <2>2
  <2>8. \/ endNoise' = endNoise /\ (ymodem => \A i \in 1..Len(forth) : i \in 1..n \/ ~IsEot(i))
        \/ ymodem /\ endNoise < MaxEnds /\ endNoise' = endNoise + 1
    BY <1>3, <2>2, <2>5 DEF HitsEnd, IsEot
  <2>7. Kept(n)
    BY <1>1, <1>3, <2>3, <2>4, <2>5, <2>6, <2>8 DEF Kept
  <2> QED  BY <2>7
<1>4. \/ forth' = forth /\ back' \in Seq(Controls) /\ endNoise' = endNoise
      \/ /\ Struck /\ forth # <<>> /\ forth' \in Seq(Messages) /\ back' = back
         /\ IF HitsEnd THEN endNoise < MaxEnds /\ endNoise' = endNoise + 1 ELSE UNCHANGED endNoise
  <2>1. CASE /\ forth # <<>> /\ UNCHANGED back
             /\ IF HitsEnd THEN endNoise < MaxEnds /\ endNoise' = endNoise + 1 ELSE UNCHANGED endNoise
             /\ \E damaged \in {<<>>} \union {<<Sign(k)>> : k \in {"noise", "strays", "EOT"}} :
                   forth' = Instead(forth, damaged)
    <3>1. PICK damaged \in {<<>>} \union {<<Sign(k)>> : k \in {"noise", "strays", "EOT"}} :
             forth' = Instead(forth, damaged)
      BY <2>1
    <3> QED  BY <1>1, <2>1, <3>1, LineStruck
  <2>2. CASE /\ back # <<>> /\ UNCHANGED <<forth, endNoise>>
             /\ \E damaged \in {<<>>} \union {<<c>> : c \in Controls \ {"CAN"}} :
                   back' = Instead(back, damaged)
    <3>1. PICK damaged \in {<<>>} \union {<<c>> : c \in Controls \ {"CAN"}} : back' = Instead(back, damaged)
      BY <2>2
    <3> QED  BY <1>1, <2>2, <3>1, ControlsStruck
  <2> QED  BY <2>1, <2>2 DEF Damage
<1> QED  BY <1>2, <1>3, <1>4

\* All blocks but the one hit stay where they are.
LEMMA KeptBlocks ==
  ASSUME NEW n, Kept(n)
  PROVE  /\ \A i : IsBlock(i)' => i \in 1..n /\ IsBlock(i) /\ forth'[i] = forth[i]
         /\ \A i : IsBlock(i) => (IsBlock(i)' /\ forth'[i] = forth[i]) \/ i = n + 1
<1>1. \A i \in 1..n : i \in 1..Len(forth) /\ i \in 1..Len(forth') /\ forth'[i] = forth[i]
  BY DEF Kept
<1>2. ASSUME NEW i, IsBlock(i)' PROVE i \in 1..n /\ IsBlock(i) /\ forth'[i] = forth[i]
  <2>1. i \in 1..n
    BY <1>2 DEF Kept, IsBlock
  <2> QED  BY <1>1, <1>2, <2>1 DEF IsBlock
<1>3. ASSUME NEW i, IsBlock(i), i # n + 1 PROVE IsBlock(i)' /\ forth'[i] = forth[i]
  <2>1. i \in 1..n
    BY <1>3 DEF Kept, IsBlock
  <2> QED  BY <1>1, <1>3, <2>1 DEF IsBlock
<1> QED  BY <1>2, <1>3

\* A gap grows by one block at most.
LEMMA KeptGap ==
  ASSUME NEW n, Kept(n), NEW k, NEW j \in Nat, NEW t \in Nat, NEW c \in Nat, Cardinality(Gap(k, j, t)) <= c
  PROVE  /\ Cardinality(Gap(k, j, t)') <= c + 1
         /\ Under(k, j)' => Under(k, j)
         /\ Reached(k, t)' => Reached(k, t)
<1>1. \A b : Under(k, b) <=> \E i \in 1..Len(forth) : IsBlock(i) /\ forth[i].data = <<k, b>>
  BY DEF Under
<1>2. \A b : Under(k, b)' <=> \E i \in 1..Len(forth') : IsBlock(i)' /\ forth'[i].data = <<k, b>>
  BY DEF Under
<1>3. \A i : IsBlock(i) => i \in 1..Len(forth)
  BY DEF IsBlock
<1>4. \A i : IsBlock(i)' => i \in 1..Len(forth')
  BY DEF IsBlock
<1>5. \A b : Under(k, b)' => Under(k, b)
  BY <1>1, <1>2, <1>3, KeptBlocks
<1>6. \A b : Under(k, b) => Under(k, b)' \/ forth[n + 1].data = <<k, b>>
  BY <1>1, <1>2, <1>4, KeptBlocks
<1>7. Place' = Place /\ (Live' <=> Live) /\ (Overtaken(k)' <=> Overtaken(k))
  BY SenderStill DEF Kept
<1>8. Gap(k, j, t)' \subseteq Gap(k, j, t) \union {forth[n + 1].data[2]}
  BY <1>6 DEF Gap
<1>9. Cardinality(Gap(k, j, t)') <= c + 1
  BY <1>8, GapIsFinite, OneMoreThan
<1> QED  BY <1>5, <1>7, <1>9 DEF Reached

\* Noise keeps the ends and the line well formed.
LEMMA DamageKeepsEndsOK ==
  ASSUME EndsOK, Damage
  PROVE  EndsOK'
<1>1. PICK n : Kept(n)
  BY DamageKeeps
<1>2. SenderOK' /\ ReceiverOK'
  BY <1>1 DEF EndsOK, SenderOK, ReceiverOK, Kept
<1>3. (\A i \in 1..Len(forth) : MessageOK(forth[i]))'
  <2>1. \A i \in 1..Len(forth') : forth'[i].kind = "block" => i \in 1..Len(forth) /\ forth'[i] = forth[i]
    BY <1>1 DEF Kept
  <2>2. (\A i \in 1..Len(forth) : MessageOK(forth[i])) /\ ymodem' = ymodem
    BY <1>1 DEF EndsOK, LineOK, Kept
  <2> QED  BY <2>1, <2>2 DEF MessageOK
<1>4. noise' \in 0..MaxNoise
  <2>1. noise \in 0..MaxNoise /\ noise' = noise + 1 /\ noise < MaxNoise
    BY <1>1 DEF EndsOK, LineOK, Kept
  <2> QED  BY <2>1, BlocksNumbers
<1>6. endNoise' \in 0..MaxEnds
  <2>1. /\ endNoise \in 0..MaxEnds
        /\ endNoise' = endNoise \/ (endNoise' = endNoise + 1 /\ endNoise < MaxEnds)
    BY <1>1 DEF EndsOK, LineOK, Kept
  <2> QED  BY <2>1, BlocksNumbers
<1>5. LineOK'
  BY <1>1, <1>3, <1>4, <1>6 DEF LineOK, Kept
<1> QED  BY <1>2, <1>5 DEF EndsOK

\* Noise keeps the invariant: it adds to the count what it takes from the line.
LEMMA DamageKeepsInv ==
  ASSUME BlocksInv, Damage
  PROVE  BlocksInv'
<1>1. PICK n : Kept(n)
  BY DamageKeeps DEF BlocksInv
<1>2. /\ EndsOK /\ Ordered /\ Behind /\ LostInNoise /\ LostOrRefused /\ Closed /\ InPlace /\ LittleNoise
      /\ noise' = noise + 1 /\ noise < MaxNoise /\ noise \in Nat /\ noise' \in Nat \ {0}
      /\ ymodem' = ymodem /\ blockSender' = blockSender /\ blockReceiver' = blockReceiver
      /\ MaxNoise \in Nat
  <2>1. noise \in Nat
    BY BlocksNumbers DEF BlocksInv, EndsOK, LineOK
  <2>2. noise + 1 \in Nat \ {0}
    BY <2>1
  <2> QED  BY <1>1, <2>1, <2>2, BlocksNumbers DEF BlocksInv, Kept
<1>3. Place' = Place /\ (Live' <=> Live) /\ \A k : (Overtaken(k)' <=> Overtaken(k)) /\ (Beyond(k)' <=> Beyond(k))
  BY <1>2, SenderStill
<1>4. \A i : IsBlock(i)' => IsBlock(i) /\ forth'[i] = forth[i] /\ i \in 1..Len(forth)
  BY <1>1, KeptBlocks DEF IsBlock
<1>5. EndsOK'
  BY <1>2, DamageKeepsEndsOK
<1>6. Ordered' /\ Behind'
  <2>1. \A i, j \in 1..Len(forth') :
          i < j /\ IsBlock(i)' /\ IsBlock(j)' => NotAfter(forth'[i].data, forth'[j].data)
    BY <1>2, <1>4 DEF Ordered
  <2>2. Live => \A i \in 1..Len(forth') : IsBlock(i)' => NotAfter(forth'[i].data, Place)
    BY <1>2, <1>4 DEF Ordered
  <2>3. Ordered'
    BY <1>3, <2>1, <2>2 DEF Ordered, IsBlock
  <2>4. ASSUME blockReceiver.phase = "data", NEW at, at = <<blockReceiver.file, Len(blockReceiver.got)>>
        PROVE  /\ at[2] <= Blocks
               /\ \A i \in 1..Len(forth') : IsBlock(i)' => NotAfter(at, forth'[i].data)
               /\ Live => NotAfter(at, Place)
    BY <1>2, <1>4, <2>4 DEF Behind
  <2>5. Behind'
    BY <1>2, <1>3, <2>4 DEF Behind, IsBlock
  <2> QED  BY <2>3, <2>5
<1>7. LostInNoise'
  <2> SUFFICES ASSUME NEW k \in 1..Files, NEW j \in 0..Blocks, NEW t \in 0..Blocks, Under(k, j)', Reached(k, t)'
               PROVE  Cardinality(Gap(k, j, t)') <= noise + 1
    BY <1>2 DEF LostInNoise
  <2>1. j \in Nat /\ t \in Nat
    BY BlocksNumbers
  <2>2. Under(k, j) /\ Reached(k, t)
    <3>1. PICK c \in Nat : Cardinality(Gap(k, j, t)) <= c
      BY <2>1, GapIsFinite
    <3> QED  BY <1>1, <2>1, <3>1, KeptGap
  <2>3. Cardinality(Gap(k, j, t)) <= noise
    BY <1>2, <2>2 DEF LostInNoise
  <2> QED  BY <1>1, <1>2, <2>1, <2>3, KeptGap
<1>8. LostOrRefused'
  <2> SUFFICES ASSUME blockReceiver.phase = "data", NEW t \in 0..Blocks,
                      NEW k, NEW g, k = blockReceiver.file, g = Len(blockReceiver.got), Reached(k, t)'
               PROVE  Cardinality(Gap(k, g, t)') <= noise + 1 + blockReceiver.errors
    BY <1>2 DEF LostOrRefused
  <2>1. g \in Nat /\ t \in Nat /\ blockReceiver.errors \in Nat
    BY <1>2, BlocksNumbers DEF EndsOK, ReceiverOK, ReceiverRecord
  <2>2. Reached(k, t)
    <3>1. PICK c \in Nat : Cardinality(Gap(k, g, t)) <= c
      BY <2>1, GapIsFinite
    <3> QED  BY <1>1, <2>1, <3>1, KeptGap
  <2>3. PICK c \in Nat : c = noise + blockReceiver.errors
    BY <1>2, <2>1
  <2>4. Cardinality(Gap(k, g, t)) <= c
    BY <1>2, <2>2, <2>3 DEF LostOrRefused
  <2>5. Cardinality(Gap(k, g, t)') <= c + 1
    BY <1>1, <2>1, <2>4, KeptGap
  <2>6. c + 1 = noise + 1 + blockReceiver.errors
    BY <1>2, <2>1, <2>3
  <2> QED  BY <2>5, <2>6
<1>9. Closed'
  <2> SUFFICES ASSUME ymodem, NEW i \in 0..Len(forth'), NEW k \in 1..Files, NEW b \in 0..Blocks,
                      From(i, k, b)'
               PROVE  /\ Followed(i, k)' => \E j \in 1..Len(forth') : Closing(i, k, j)'
                      /\ Followed(i, k)' /\ endNoise' = 0 =>
                           \E j, l \in 1..Len(forth') : j # l /\ Closing(i, k, j)' /\ Closing(i, k, l)'
                      /\ endNoise' = 0 /\ blockSender.phase = "eot1" /\ blockSender.file = k =>
                           \E j \in 1..Len(forth') : Closing(i, k, j)'
    BY <1>2 DEF Closed
  <2>1. endNoise' = endNoise \/ (endNoise = 0 /\ endNoise' # 0)
    <3>1. endNoise \in 0..MaxEnds /\ MaxEnds \in Nat BY <1>2, BlocksNumbers DEF EndsOK, LineOK
    <3>2. MaxEnds <= 1 BY <1>2 DEF LittleNoise
    <3>3. endNoise' = endNoise \/ (endNoise < MaxEnds /\ endNoise' = endNoise + 1)
      BY <1>1 DEF Kept
    <3> QED  BY <3>1, <3>2, <3>3
  <2>2. i \in 0..Len(forth) /\ From(i, k, b)
    BY <1>1, <1>2, <1>4 DEF From, Kept
  <2>3. Followed(i, k)' => Followed(i, k)
    <3>1. CASE Live /\ Beyond(k)
      BY <3>1 DEF Followed
    <3>2. ASSUME NEW l \in 1..Len(forth'), i < l, IsBlock(l)', forth'[l].data[1] # k PROVE Followed(i, k)
      BY <1>4, <3>2 DEF Followed
    <3> QED  BY <1>3, <3>1, <3>2 DEF Followed, IsBlock
  <2>4. ASSUME NEW c \in 1..n, Closing(i, k, c) PROVE c \in 1..Len(forth') /\ Closing(i, k, c)'
    <3>1. c \in 1..Len(forth') /\ forth'[c].kind = "EOT" /\ i < c
      BY <1>1, <2>4 DEF Kept, Closing, IsEot
    <3>2. ASSUME NEW x \in 1..Len(forth'), i < x, IsBlock(x)', forth'[x].data[1] # k PROVE c < x
      BY <1>4, <2>4, <3>2 DEF Closing
    <3> QED  BY <3>1, <3>2 DEF Closing, IsEot, IsBlock
  <2>5. CASE endNoise' = endNoise
    <3>1. \A j \in 1..Len(forth) : Closing(i, k, j) => j \in 1..n
      <4>1. \A j \in 1..Len(forth) : j \in 1..n \/ ~IsEot(j)
        <5>1. CASE endNoise' = endNoise + 1
          <6>1. endNoise \in Nat BY <1>2, BlocksNumbers DEF EndsOK, LineOK
          <6> QED  BY <2>5, <5>1, <6>1
        <5>2. CASE endNoise' # endNoise + 1 BY <1>1, <5>2 DEF Kept
        <5> QED  BY <5>1, <5>2
      <4> QED  BY <4>1 DEF Closing
    <3>2. \A j \in 1..Len(forth) : Closing(i, k, j) => j \in 1..Len(forth') /\ Closing(i, k, j)'
      BY <2>4, <3>1
    <3>3. /\ Followed(i, k) => \E j \in 1..Len(forth) : Closing(i, k, j)
          /\ Followed(i, k) /\ endNoise = 0 =>
               \E j, l \in 1..Len(forth) : j # l /\ Closing(i, k, j) /\ Closing(i, k, l)
          /\ endNoise = 0 /\ blockSender.phase = "eot1" /\ blockSender.file = k =>
               \E j \in 1..Len(forth) : Closing(i, k, j)
      BY <1>2, <2>2 DEF Closed
    <3> QED  BY <2>3, <2>5, <3>2, <3>3
  <2>6. CASE endNoise = 0 /\ endNoise' # 0
    <3> SUFFICES ASSUME Followed(i, k)' PROVE \E j \in 1..Len(forth') : Closing(i, k, j)'
      BY <2>6
    <3>1. PICK j \in 1..Len(forth), l \in 1..Len(forth) : j # l /\ Closing(i, k, j) /\ Closing(i, k, l)
      BY <1>2, <2>2, <2>3, <2>6 DEF Closed
    <3>2. PICK c \in 1..n : Closing(i, k, c)
      BY <1>1, <3>1 DEF Kept
    <3> QED  BY <2>4, <3>2
  <2> QED  BY <2>1, <2>5, <2>6
<1>10. ChecksOK' /\ EndsAreReal' /\ WholeFiles'
  BY <1>2 DEF ChecksOK, EndsAreReal, WholeFiles
<1>11. InPlace' /\ LittleNoise' /\ Numbered'
  BY <1>2 DEF BlocksInv, InPlace, LittleNoise, Numbered
<1> QED  BY <1>5, <1>6, <1>7, <1>8, <1>9, <1>10, <1>11 DEF BlocksInv

\* Both ends and the line are well formed at first.
LEMMA EndsOKAtInit == BlocksInit => EndsOK
<1> SUFFICES ASSUME BlocksInit PROVE EndsOK
  OBVIOUS
<1>1. ymodem \in BOOLEAN /\ forth = <<>> /\ noise = 0 /\ endNoise = 0 /\ Len(forth) = 0
  BY DEF BlocksInit
<1>2. blockSender = [phase |-> "await", file |-> 1, block |-> 1, tries |-> 0, check |-> "C"]
  BY DEF BlocksInit
<1>3. PICK check \in (IF ymodem THEN {"C"} ELSE {"C", "NAK"}) :
         /\ blockReceiver = [phase |-> IF ymodem THEN "header" ELSE "data", file |-> 1,
                             expected |-> 1, got |-> <<>>, errors |-> 0, check |-> check]
         /\ back = <<check>>
  BY DEF BlocksInit
<1>4. /\ 1 \in 1..Files /\ 1 \in 1..Blocks /\ 0 < MaxRetries /\ Blocks \in Nat /\ 0 \in 0..MaxNoise
      /\ 0 \in 0..MaxEnds
  BY BlocksNumbers
<1>5. SenderOK
  BY <1>1, <1>2, <1>4, CountersBegin DEF SenderOK, SenderRecord, SenderPhase
<1>6. ReceiverOK
  <2>1. 1 \in 0..(Modulus - 1)
    BY BlocksAssumption
  <2>2. Len(<<>>) = 0 /\ <<>> \in Seq(Nat \X Nat)
    OBVIOUS
  <2> QED  BY <1>1, <1>3, <1>4, <2>1, <2>2, CountersBegin DEF ReceiverOK, ReceiverRecord
<1>7. LineOK
  <2>1. check \in Controls
    BY <1>1, <1>3 DEF Controls
  <2>2. forth \in Seq(Messages) /\ back \in Seq(Controls)
    <3> HIDE DEF Messages, Controls
    <3> QED  BY <1>1, <1>3, <2>1
  <2> QED  BY <1>1, <1>4, <2>2 DEF LineOK
<1> QED  BY <1>5, <1>6, <1>7 DEF EndsOK

\* An empty line is in order.
LEMMA BlocksInvAtInit ==
  ASSUME BlocksInit, LittleNoise
  PROVE  BlocksInv
<1>1. /\ ymodem \in BOOLEAN /\ forth = <<>> /\ noise = 0 /\ installed = {} /\ Len(forth) = 0
      /\ \A i : ~IsBlock(i) /\ ~IsEot(i)
  BY DEF BlocksInit, IsBlock, IsEot
<1>2. blockSender = [phase |-> "await", file |-> 1, block |-> 1, tries |-> 0, check |-> "C"]
  BY DEF BlocksInit
<1>3. PICK check \in (IF ymodem THEN {"C"} ELSE {"C", "NAK"}) :
         /\ blockReceiver = [phase |-> IF ymodem THEN "header" ELSE "data", file |-> 1,
                             expected |-> 1, got |-> <<>>, errors |-> 0, check |-> check]
         /\ back = <<check>>
  BY DEF BlocksInit
<1>4. /\ 1 \in 1..Files /\ 1 \in 1..Blocks /\ 0 < MaxRetries /\ Blocks \in Nat /\ 0 \in 0..MaxNoise
      /\ 0 \in 0..MaxEnds
  BY BlocksNumbers
<1>5. EndsOK
  BY EndsOKAtInit
<1>8. ChecksOK
  BY <1>1, <1>2, <1>3 DEF ChecksOK
<1>9. Place = <<1, 0>> /\ ~Overtaken(1) /\ Live
  BY <1>2 DEF Place, Overtaken, Live
<1>10. Ordered /\ Behind
  BY <1>1, <1>3, <1>4, <1>9 DEF Ordered, Behind, NotAfter
<1>11. \A k, b : ~Under(k, b)
  BY <1>1 DEF Under
<1>12. LostInNoise
  BY <1>11 DEF LostInNoise
<1>13. LostOrRefused
  <2> SUFFICES ASSUME NEW t \in 0..Blocks, Reached(1, t)
               PROVE  Cardinality(Gap(1, 0, t)) <= 0 + 0 /\ Gap(1, 0, t) = {}
    BY <1>1, <1>3 DEF LostOrRefused
  <2>1. t = 0
    BY <1>9, <1>11 DEF Reached
  <2>2. Gap(1, 0, t) = {}
    BY <2>1 DEF Gap
  <2> QED  BY <2>2, FS_EmptySet
<1>14. Closed /\ EndsAreReal /\ WholeFiles
  BY <1>1, <1>3 DEF Closed, EndsAreReal, WholeFiles, From
<1>15. InPlace
  BY <1>3 DEF InPlace
<1>16. Numbered
  <2>1. 1 \in 0..(Modulus - 1) /\ 1 = Modulus * 0 + 1 /\ Modulus \in Nat \ {0}
    BY BlocksAssumption
  <2>2. 1 % Modulus = 1
    BY <2>1, RemainderIs
  <2> QED  BY <1>3, <2>2 DEF Numbered
<1> QED  BY <1>5, <1>8, <1>10, <1>12, <1>13, <1>14, <1>15, <1>16 DEF BlocksInv

\* What the invariant says is of the protocol's variables alone.
LEMMA BlocksInvStutters ==
  ASSUME BlocksInv, UNCHANGED blockVars
  PROVE  BlocksInv'
<1>1. /\ ymodem' = ymodem /\ blockSender' = blockSender /\ blockReceiver' = blockReceiver /\ forth' = forth
      /\ back' = back /\ installed' = installed /\ noise' = noise /\ endNoise' = endNoise
  BY DEF blockVars
<1>2. EndsOK'
  BY <1>1 DEF BlocksInv, EndsOK, SenderOK, ReceiverOK, LineOK, MessageOK
<1>3. Place' = Place /\ (Live' <=> Live)
  BY <1>1 DEF Place, Live
<1>4. ChecksOK' /\ Ordered' /\ Behind'
  BY <1>1, <1>3 DEF BlocksInv, ChecksOK, Ordered, Behind, IsBlock
<1>5. \A k, b : Under(k, b)' <=> Under(k, b)
  BY <1>1 DEF Under, IsBlock
<1>6. \A k, j, t : Gap(k, j, t)' = Gap(k, j, t) /\ (Reached(k, t)' <=> Reached(k, t))
  BY <1>3, <1>5 DEF Gap, Reached, Overtaken
<1>7. LostInNoise'
  BY <1>1, <1>5, <1>6 DEF BlocksInv, LostInNoise
<1>8. LostOrRefused'
  <2> SUFFICES ASSUME blockReceiver.phase = "data", NEW t \in 0..Blocks,
                      NEW k, NEW g, k = blockReceiver.file, g = Len(blockReceiver.got), Reached(k, t)'
               PROVE  /\ Cardinality(Gap(k, g, t)') <= noise + blockReceiver.errors
                      /\ noise = 0 => Gap(k, g, t)' = {}
    BY <1>1 DEF LostOrRefused
  <2> QED  BY <1>6 DEF BlocksInv, LostOrRefused
<1>9. Closed'
  BY <1>1, <1>3 DEF BlocksInv, Closed, From, Followed, Beyond, Overtaken, Closing, IsBlock, IsEot
<1>10. EndsAreReal' /\ WholeFiles' /\ InPlace' /\ LittleNoise' /\ Numbered'
  <2>1. (\A i : IsBlock(i)' <=> IsBlock(i)) /\ (\A i : IsEot(i)' <=> IsEot(i))
    BY <1>1 DEF IsBlock, IsEot
  <2>2. \A i, k, b : From(i, k, b)' <=> From(i, k, b)
    BY <1>1, <2>1 DEF From
  <2>3. EndsAreReal'
    <3>1. noise' = noise
      BY <1>1
    <3> SUFFICES ASSUME noise = 0, NEW i \in 0..Len(forth'), NEW j \in 1..Len(forth'), NEW k \in 1..Files,
                        NEW b \in 0..Blocks, i < j, forth'[j].kind = "EOT", From(i, k, b)',
                        NEW c \in (b + 1)..Blocks
                 PROVE  \E l \in (i + 1)..(j - 1) :
                           l \in 1..Len(forth') /\ forth'[l].kind = "block" /\ forth'[l].data = <<k, c>>
      BY <3>1 DEF EndsAreReal, IsEot, IsBlock
    <3>2. /\ i \in 0..Len(forth) /\ j \in 1..Len(forth) /\ IsEot(j) /\ From(i, k, b)
      BY <1>1, <2>2 DEF IsEot
    <3>3. \E l \in (i + 1)..(j - 1) : IsBlock(l) /\ forth[l].data = <<k, c>>
      BY <3>2 DEF BlocksInv, EndsAreReal
    <3> QED  BY <1>1, <3>3 DEF IsBlock
  <2> QED  BY <1>1, <2>3 DEF BlocksInv, WholeFiles, InPlace, LittleNoise, Numbered
<1> QED  BY <1>2, <1>4, <1>7, <1>8, <1>9, <1>10 DEF BlocksInv

\* Both ends and the line stay well formed, on a line with any noise.
LEMMA EndsOKStep ==
  ASSUME EndsOK, [BlocksNext]_blockVars
  PROVE  EndsOK'
<1>1. back \in Seq(Controls)
  BY DEF EndsOK, LineOK
<1>2. CASE SenderReads
  <2>1. SenderTakes(Head(back)) /\ back # <<>> /\ back' = Tail(back)
    BY <1>2 DEF SenderReads
  <2>2. back' \in Seq(Controls)
    <3> HIDE DEF Controls
    <3> QED  BY <1>1, <2>1
  <2> QED  BY <2>1, <2>2, SenderKeepsEndsOK
<1>3. CASE SenderTimesOut
  BY <1>1, <1>3, SenderKeepsEndsOK DEF SenderTimesOut
<1>4. CASE ReceiverReads \/ ReceiverTimesOut
  BY <1>4, ReceiverReadsOrWaits, ReceiverStaysOK
<1>5. CASE Damage
  BY <1>5, DamageKeepsEndsOK
<1>6. CASE UNCHANGED blockVars
  BY <1>6 DEF blockVars, EndsOK, SenderOK, ReceiverOK, LineOK, MessageOK
<1> QED  BY <1>2, <1>3, <1>4, <1>5, <1>6 DEF BlocksNext

\* The retries of both ends, the block numbers and the places in the batch stay in their bounds,
\* whatever the noise does: neither end goes on beyond MAX_RETRIES.
THEOREM BlocksTypeCorrect == BlocksSpec => []BlocksTypeOK
<1>1. EndsOK => BlocksTypeOK
  <2> SUFFICES ASSUME EndsOK PROVE BlocksTypeOK
    OBVIOUS
  <2>1. blockSender \in SenderRecord /\ blockReceiver \in ReceiverRecord /\ ymodem \in BOOLEAN
    BY DEF EndsOK, SenderOK, ReceiverOK
  <2>2. noise \in 0..MaxNoise /\ endNoise \in 0..MaxEnds /\ back \in Seq(Controls)
    BY DEF EndsOK, LineOK
  <2>3. \A i \in DOMAIN back : back[i] \in Controls
    <3> HIDE DEF Controls
    <3> QED  BY <2>2
  <2> QED  BY <2>1, <2>2, <2>3 DEF BlocksTypeOK, SenderRecord, ReceiverRecord
<1>2. BlocksInit => EndsOK
  BY EndsOKAtInit
<1>3. EndsOK /\ [BlocksNext]_blockVars => EndsOK'
  BY EndsOKStep
<1> QED  BY <1>1, <1>2, <1>3, PTL DEF BlocksSpec

\* Every step keeps the invariant.
LEMMA BlocksInvStep ==
  ASSUME BlocksInv, [BlocksNext]_blockVars
  PROVE  BlocksInv'
<1>1. back \in Seq(Controls)
  BY DEF BlocksInv, EndsOK, LineOK
<1>2. CASE SenderReads
  <2>1. back # <<>> /\ SenderTakes(Head(back)) /\ back' = Tail(back)
    BY <1>2 DEF SenderReads
  <2>2. back' \in Seq(Controls)
    <3> HIDE DEF Controls
    <3> QED  BY <1>1, <2>1
  <2> QED  BY <2>1, <2>2, SenderKeepsInv
<1>3. CASE SenderTimesOut
  BY <1>1, <1>3, SenderKeepsInv DEF SenderTimesOut
<1>4. CASE ReceiverReads \/ ReceiverTimesOut
  BY <1>4, ReceiverKeepsInv
<1>5. CASE Damage
  BY <1>5, DamageKeepsInv
<1>6. CASE UNCHANGED blockVars
  BY <1>6, BlocksInvStutters
<1> QED  BY <1>2, <1>3, <1>4, <1>5, <1>6 DEF BlocksNext

\* The invariant above, for every number of blocks, files, retries and block numbers, in the
\* transfers of xymodem.rs for which LittleNoise holds: over the whole transfer the damaged
\* messages and MAX_RETRIES are together fewer than the numbers (the code itself allows 16 errors
\* of each block and counts none of the transfer), and in a batch at most one EOT is among them.
THEOREM BlocksInvHolds == BlocksSpec /\ LittleNoise => []BlocksInv
<1>1. BlocksInit /\ LittleNoise => BlocksInv
  BY BlocksInvAtInit
<1>2. BlocksInv /\ [BlocksNext]_blockVars => BlocksInv'
  BY BlocksInvStep
<1> QED  BY <1>1, <1>2, PTL DEF BlocksSpec

\* receive_data_blocks, under the same hypothesis: what is written is the file from its beginning,
\* each block at its place and none twice; and on a line without noise a file that is installed is
\* whole.  Where the last block of a file and both its EOTs are lost the first half can fail, and
\* the hypothesis leaves that case out.
THEOREM ReceivedIsPrefixHolds == BlocksSpec /\ LittleNoise => []ReceivedIsPrefix
<1>1. BlocksInv => ReceivedIsPrefix
  BY DEF BlocksInv, InPlace, WholeFiles, ReceivedIsPrefix
<1> QED  BY <1>1, BlocksInvHolds, PTL
=============================================================================
