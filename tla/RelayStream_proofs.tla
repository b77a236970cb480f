-------------------------- MODULE RelayStream_proofs --------------------------
(***************************************************************************)
(* The frames of a team terminal (RelayStream), for any number of          *)
(* connections, frames and leases: both directions keep the promise of     *)
(* OrderedStream, step by step; what a client has sealed is in its outbox  *)
(* until the relay has it; and the participant only falls out of step when *)
(* a hub has lost output.                                                  *)
(***************************************************************************)
EXTENDS RelayStream, SequenceTheorems, TLAPS

(***************************************************************************)
(* The invariant.  What is said on a connection is true of the tables of   *)
(* the relay, now and for ever: a cursor or a frame it names is not beyond *)
(* them, and a lease is one that can be given.                             *)
(***************************************************************************)
TrueOf(outputs, inputs) ==
    {m \in Messages : /\ m.is = "output" => m.n <= outputs
                      /\ m.is = "input" => m.n < inputs
                      /\ m.is = "ready" => m.n <= outputs /\ m.m <= inputs
                      /\ m.is = "control" => m.n <= MaxGrants}
Told == TrueOf(output, nextInput)

SealedBefore(n) == {f \in Frames : f.seq < n}
AcceptedUpTo(n) == {m \in Messages : m.is = "accepted" => m.n <= n}

\* An outbox holds the last frames its client has sealed, in their order.
Contiguous(pending, next) ==
    /\ Len(pending) < next
    /\ \A i \in DOMAIN pending : pending[i].seq = next - Len(pending) + i - 1

MostOf(r) == IF r = "host" THEN MaxOutput ELSE MaxInput

\* What a client has sealed is committed, or in its outbox.
ClientOK(r) ==
    /\ Contiguous(room[r].pending, room[r].next) /\ room[r].next <= MostOf(r) + 1
    /\ Committed(r) < room[r].next
    /\ InRoom(r) => room[r].next - Len(room[r].pending) <= Committed(r) + 1
    /\ room[r].conn # None => InRoom(r)

\* The socket of a client is a task that serves it, or has ended.
ConnOK(r) ==
    \A s \in Socket : room[r].conn = s => s <= opened /\ socket[s].by \in {r, None}

\* What a connection carries to its client, and from it.
DownOK ==
    \A s \in Socket :
        /\ down[s] \in Seq(Told)
        /\ s > opened => down[s] = <<>>
        /\ \A r \in Side : room[r].conn = s => down[s] \in Seq(AcceptedUpTo(Committed(r)))

UpOK ==
    \A s \in Socket :
        /\ s > opened => up[s] = <<>>
        /\ \A r \in Side : socket[s].by = r => up[s] \in Seq(SealedBefore(room[r].next))

\* What a task of the relay holds, when made hubs have been made.
Serving == {"accepted", "listening", "cut", "replayed", "loop"}

SocketOK(k, told, made) ==
    /\ k.heard \in Seq(told) /\ k.stored \in Seq(told)
    /\ k.heard \in Seq(AcceptedUpTo(0)) \* only a sender hears that it was accepted
    /\ k.hub <= made
    /\ k.phase \in Serving => k.hub > 0 /\ k.by \in Side
    /\ k.phase = "accepted" => k.heard = <<>>
    /\ k.stored # <<>> =>
          /\ k.stored[1].is \in {"output", "input"}
          /\ k.by = IF k.stored[1].is = "output" THEN "host" ELSE "viewer"

SocketsOK ==
    \A s \in Socket :
        SocketOK(socket[s], Told, hubs) /\ (s > opened => socket[s] = NewSocket)

StreamInv ==
    /\ StreamTypeOK
    /\ \A r \in Side : ClientOK(r) /\ ConnOK(r)
    /\ DownOK /\ UpOK /\ SocketsOK
    /\ hub <= hubs
    /\ room["viewer"].last <= output

(***************************************************************************)
(* Sequences.                                                              *)
(***************************************************************************)
LEMMA SeqGrows ==
    ASSUME NEW S, NEW T, S \subseteq T
    PROVE  Seq(S) \subseteq Seq(T)
<1>1. ASSUME NEW q \in Seq(S)
      PROVE  q \in Seq(T)
  <2>1. Len(q) \in Nat /\ q = [i \in 1..Len(q) |-> q[i]] /\ \A i \in 1..Len(q) : q[i] \in T
    OBVIOUS
  <2> QED  BY <2>1, SeqDef
<1> QED  BY <1>1

LEMMA TailOf ==
    ASSUME NEW S, NEW q \in Seq(S), q # <<>>
    PROVE  Tail(q) \in Seq(S) /\ Head(q) \in S
OBVIOUS

LEMMA EmptyOf == \A S : <<>> \in Seq(S)
OBVIOUS

LEMMA SealedGrows ==
    ASSUME NEW n \in Nat, NEW m \in Nat, n <= m
    PROVE  Seq(SealedBefore(n)) \subseteq Seq(SealedBefore(m))
<1>1. SealedBefore(n) \subseteq SealedBefore(m)
  BY DEF SealedBefore, Frames
<1> QED  BY <1>1, SeqGrows

LEMMA AcceptedGrows ==
    ASSUME NEW n \in Nat, NEW m \in Nat, n <= m
    PROVE  Seq(AcceptedUpTo(n)) \subseteq Seq(AcceptedUpTo(m))
<1>1. AcceptedUpTo(n) \subseteq AcceptedUpTo(m)
  BY DEF AcceptedUpTo, Messages
<1> QED  BY <1>1, SeqGrows

\* reconcile_pending takes frames from the front, and those only that are before expected.
LEMMA FromFirstTakes ==
    ASSUME NEW p \in Seq(Frames), NEW next \in Nat, NEW expected \in Nat, Contiguous(p, next)
    PROVE  \E n \in 0..Len(p) : /\ FromFirst(p, expected) = SubSeq(p, n + 1, Len(p))
                                /\ \A i \in 1..n : p[i].seq < expected
                                /\ n < Len(p) => p[n + 1].seq >= expected
<1> DEFINE first == next - Len(p)
           Passed(n) == /\ \A i \in 1..n : p[i].seq < expected
                        /\ n < Len(p) => p[n + 1].seq >= expected
<1>1. \A i \in 1..Len(p) : p[i].seq = first + i - 1
  BY DEF Contiguous
<1>2. Len(p) \in Nat /\ first \in Nat
  BY DEF Contiguous
<1>3. \E n \in 0..Len(p) : Passed(n)
  <2>1. CASE first >= expected
    BY <1>1, <1>2, <2>1
  <2>2. CASE first < expected /\ expected - first <= Len(p)
    <3> HIDE DEF first
    <3>1. expected - first \in 0..Len(p) /\ \A i \in 1..expected - first : i \in 1..Len(p)
      BY <1>2, <2>2
    <3>2. \A i \in 1..expected - first : p[i].seq < expected
      <4>1. ASSUME NEW i \in 1..expected - first
            PROVE  p[i].seq < expected
        <5>1. p[i].seq = first + i - 1
          BY <1>1, <3>1
        <5> QED  BY <1>2, <5>1
      <4> QED  BY <4>1
    <3>3. expected - first < Len(p) => p[expected - first + 1].seq >= expected
      <4>1. ASSUME expected - first < Len(p)
            PROVE  expected - first + 1 \in 1..Len(p)
        BY <1>2, <3>1, <4>1
      <4>2. ASSUME expected - first < Len(p)
            PROVE  p[expected - first + 1].seq = first + (expected - first + 1) - 1
        BY <1>1, <4>1, <4>2
      <4> QED  BY <1>2, <4>2
    <3> QED  BY <3>1, <3>2, <3>3
  <2>3. CASE first < expected /\ expected - first > Len(p)
    <3> HIDE DEF first
    <3>1. Passed(Len(p))
      BY <1>1, <1>2, <2>3
    <3> QED  BY <1>2, <3>1
  <2> QED  BY <1>2, <2>1, <2>2, <2>3
<1> DEFINE c == CHOOSE n \in 0..Len(p) : Passed(n)
<1>4. c \in 0..Len(p) /\ Passed(c)
  BY <1>3
<1>5. FromFirst(p, expected) = SubSeq(p, c + 1, Len(p))
  BY DEF FromFirst
<1> HIDE DEF c
<1> QED  BY <1>4, <1>5

LEMMA OutboxLeft ==
    ASSUME NEW p \in Seq(Frames), NEW next \in Nat, NEW expected \in Nat, Contiguous(p, next)
    PROVE  LET q == Unconfirmed(p, expected)
           IN  /\ q \in Seq(Frames) /\ Contiguous(q, next)
               /\ \/ next - Len(q) <= next - Len(p)
                  \/ next - Len(q) <= expected
<1> DEFINE q == Unconfirmed(p, expected)
<1>1. PICK n \in 0..Len(p) : /\ q = SubSeq(p, n + 1, Len(p))
                             /\ \A i \in 1..n : p[i].seq < expected
                             /\ n < Len(p) => p[n + 1].seq >= expected
  BY FromFirstTakes DEF Unconfirmed
<1>2. \A i \in n + 1..Len(p) : p[i] \in Frames
  OBVIOUS
<1>3. /\ q \in Seq(Frames) /\ Len(q) = Len(p) - n
      /\ \A i \in 1..Len(p) - n : q[i] = p[n + i]
  <2>1. /\ SubSeq(p, n + 1, Len(p)) \in Seq(Frames)
        /\ Len(SubSeq(p, n + 1, Len(p))) = IF n + 1 <= Len(p) THEN Len(p) - (n + 1) + 1 ELSE 0
        /\ \A i \in 1..Len(p) - (n + 1) + 1 : SubSeq(p, n + 1, Len(p))[i] = p[n + 1 + i - 1]
    BY <1>2, SubSeqProperties
  <2> HIDE DEF q
  <2> QED  BY <1>1, <2>1
<1> HIDE DEF q
<1>4. /\ n \in Nat /\ n <= Len(p) /\ Len(p) \in Nat /\ Len(p) < next
      /\ \A i \in 1..Len(p) : p[i].seq = next - Len(p) + i - 1
  BY DEF Contiguous
<1>5. Contiguous(q, next)
  <2>1. ASSUME NEW i \in DOMAIN q
        PROVE  q[i].seq = next - Len(q) + i - 1
    <3>1. i \in 1..Len(p) - n /\ q[i] = p[n + i] /\ n + i \in 1..Len(p)
      BY <1>3, <1>4
    <3>2. p[n + i].seq = next - Len(p) + (n + i) - 1
      BY <1>4, <3>1
    <3> QED  BY <1>3, <1>4, <3>1, <3>2
  <2> QED  BY <1>3, <1>4, <2>1 DEF Contiguous
<1>6. next - Len(q) <= next - Len(p) \/ next - Len(q) <= expected
  <2>1. CASE n = 0
    BY <1>3, <1>4, <2>1
  <2>2. CASE n > 0
    <3>1. n \in 1..n /\ n \in 1..Len(p)
      BY <1>4, <2>2
    <3>2. p[n].seq < expected /\ p[n].seq = next - Len(p) + n - 1
      BY <1>1, <1>4, <3>1
    <3> QED  BY <1>3, <1>4, <3>2
  <2> QED  BY <1>4, <2>1, <2>2
<1> QED  BY <1>3, <1>5, <1>6 DEF q

LEMMA OutboxTail ==
    ASSUME NEW p \in Seq(Frames), NEW next \in Nat, Contiguous(p, next), p # <<>>
    PROVE  /\ Tail(p) \in Seq(Frames) /\ Contiguous(Tail(p), next)
           /\ Len(Tail(p)) = Len(p) - 1 /\ Head(p).seq = next - Len(p)
<1>1. /\ Tail(p) \in Seq(Frames) /\ Len(Tail(p)) = Len(p) - 1 /\ Len(p) \in Nat /\ Len(p) > 0
      /\ \A i \in 1..Len(p) - 1 : Tail(p)[i] = p[i + 1]
  OBVIOUS
<1>2. \A i \in 1..Len(p) : p[i].seq = next - Len(p) + i - 1
  BY DEF Contiguous
<1>3. Head(p) = p[1] /\ 1 \in 1..Len(p) /\ Len(p) < next
  BY <1>1 DEF Contiguous
<1>4. Head(p).seq = next - Len(p)
  BY <1>1, <1>2, <1>3
<1>5. ASSUME NEW i \in 1..Len(p) - 1
      PROVE  Tail(p)[i].seq = next - (Len(p) - 1) + i - 1
  <2>1. i + 1 \in 1..Len(p)
    BY <1>1
  <2>2. p[i + 1].seq = next - Len(p) + (i + 1) - 1
    BY <1>2, <2>1
  <2> QED  BY <1>1, <2>2
<1> QED  BY <1>1, <1>3, <1>4, <1>5 DEF Contiguous

LEMMA OutboxGrows ==
    ASSUME NEW p \in Seq(Frames), NEW next \in Nat, NEW gen \in 0..MaxGrants, Contiguous(p, next)
    PROVE  /\ Append(p, Frame(next, gen)) \in Seq(Frames)
           /\ Contiguous(Append(p, Frame(next, gen)), next + 1)
           /\ Len(Append(p, Frame(next, gen))) = Len(p) + 1
<1>1. Frame(next, gen) \in Frames /\ Frame(next, gen).seq = next
  BY DEF Frame, Frames
<1> QED  BY <1>1 DEF Contiguous

\* Whatever is in an outbox was sealed.
LEMMA OutboxSealed ==
    ASSUME NEW p \in Seq(Frames), NEW next \in Nat, Contiguous(p, next), p # <<>>
    PROVE  Head(p) \in SealedBefore(next)
BY DEF Contiguous, SealedBefore

(***************************************************************************)
(* What is used everywhere.                                                *)
(***************************************************************************)
LEMMA NoneIsNoSocket == None \notin Socket
BY StreamAssumption DEF Socket

LEMMA NoneIsNoSide == None \notin Side
BY StreamAssumption DEF Side

LEMMA OpenedIsNat == StreamInv => opened \in Nat /\ Socket \subseteq Nat
BY DEF StreamInv, StreamTypeOK, Socket

(***************************************************************************)
(* The clients.                                                            *)
(***************************************************************************)
\* A step of one client, with the relay at rest: r becomes c, what it sends is the head
\* of its outbox, and what it takes from its connection is the head of that.
LEMMA ClientChanges ==
    ASSUME StreamInv, NEW r \in Side, NEW c \in ClientState,
           room' = [room EXCEPT ![r] = c],
           c.conn \in {room[r].conn, None}, c.next >= room[r].next,
           Contiguous(c.pending, c.next), c.next <= MostOf(r) + 1,
           c.status # "failed" => c.next - Len(c.pending) <= Committed(r) + 1,
           c.status = "failed" => c.conn = None,
           r = "viewer" => c.last <= output,
           up' \in [Socket -> Seq(Frames)], down' \in [Socket -> Seq(Messages)],
           \A s \in Socket :
               \/ up'[s] \in {up[s], <<>>}
               \/ /\ room[r].conn = s /\ c.pending # <<>>
                  /\ up'[s] = Append(up[s], Head(c.pending)),
           \A s \in Socket :
               \/ down'[s] \in {down[s], <<>>}
               \/ down[s] # <<>> /\ down'[s] = Tail(down[s]),
           {hostLease', hostGen'} \subseteq 0..MaxGrants, hostInput' \in 1..nextInput,
           command' \in ControlState,
           UNCHANGED <<tableVars, relayVars, opened>>
    PROVE  StreamInv'
<1> USE DEF tableVars, relayVars
<1>1. /\ room \in [Side -> ClientState] /\ room' \in [Side -> ClientState] /\ room'[r] = c
      /\ \A q \in Side : q # r => room'[q] = room[q]
  BY DEF StreamInv, StreamTypeOK
<1>2. StreamTypeOK'
  BY <1>1 DEF StreamInv, StreamTypeOK
<1>3. /\ Told' = Told /\ \A q \in Side : Committed(q)' = Committed(q)
      /\ \A q \in Side : room[q].next \in Nat /\ room'[q].next \in Nat /\ room[q].next <= room'[q].next
  BY <1>1 DEF Told, Committed, ClientState
<1>4. \A q \in Side : ClientOK(q)'
  <2>1. ClientOK(r)'
    <3>1. Committed(r) < room[r].next /\ Committed(r) \in Int
      BY DEF StreamInv, ClientOK, Committed, StreamTypeOK
    <3> QED  BY <1>1, <1>3, <3>1 DEF ClientOK, InRoom
  <2>2. ASSUME NEW q \in Side, q # r
        PROVE  ClientOK(q)'
    BY <1>1, <1>3, <2>2 DEF StreamInv, ClientOK, InRoom
  <2> QED  BY <2>1, <2>2
<1>5. \A q \in Side : ConnOK(q)'
  BY <1>1, NoneIsNoSocket DEF StreamInv, ConnOK
<1>6. DownOK'
  <2>1. ASSUME NEW s \in Socket, NEW S, down[s] \in Seq(S)
        PROVE  down'[s] \in Seq(S)
    <3>1. CASE down'[s] \in {down[s], <<>>}
      BY <2>1, <3>1, EmptyOf
    <3>2. CASE down[s] # <<>> /\ down'[s] = Tail(down[s])
      BY <2>1, <3>2, TailOf
    <3> QED  BY <3>1, <3>2
  <2>2. ASSUME NEW s \in Socket, s > opened
        PROVE  down'[s] = <<>>
    BY <2>2 DEF StreamInv, DownOK
  <2>3. ASSUME NEW s \in Socket, NEW q \in Side, room'[q].conn = s
        PROVE  room[q].conn = s
    BY <1>1, <2>3, NoneIsNoSocket
  <2> QED  BY <1>3, <2>1, <2>2, <2>3 DEF StreamInv, DownOK
<1>7. UpOK'
  <2>1. ASSUME NEW s \in Socket, s > opened
        PROVE  up'[s] = <<>>
    <3>1. up[s] = <<>>
      BY <2>1 DEF StreamInv, UpOK
    <3>2. room[r].conn # s
      <4>1. ConnOK(r) /\ opened \in Nat /\ s \in Nat
        BY OpenedIsNat DEF StreamInv
      <4> QED  BY <2>1, <4>1 DEF ConnOK
    <3> QED  BY <3>1, <3>2
  <2>2. ASSUME NEW s \in Socket, NEW q \in Side, socket[s].by = q
        PROVE  up'[s] \in Seq(SealedBefore(room'[q].next))
    <3>1. up[s] \in Seq(SealedBefore(room'[q].next))
      <4>1. up[s] \in Seq(SealedBefore(room[q].next))
        BY <2>2 DEF StreamInv, UpOK
      <4>2. Seq(SealedBefore(room[q].next)) \subseteq Seq(SealedBefore(room'[q].next))
        BY <1>3, SealedGrows
      <4> QED  BY <4>1, <4>2
    <3>2. CASE up'[s] \in {up[s], <<>>}
      BY <3>1, <3>2, EmptyOf
    <3>3. CASE /\ room[r].conn = s /\ c.pending # <<>>
               /\ up'[s] = Append(up[s], Head(c.pending))
      <4>1. q = r
        BY <2>2, <3>3, NoneIsNoSide DEF StreamInv, ConnOK
      <4>2. Head(c.pending) \in SealedBefore(c.next)
        BY <1>3, <3>3, OutboxSealed DEF ClientState
      <4> QED  BY <1>1, <3>1, <3>3, <4>1, <4>2
    <3> QED  BY <3>2, <3>3
  <2> QED  BY <2>1, <2>2 DEF UpOK
<1>8. SocketsOK'
  BY <1>3 DEF StreamInv, SocketsOK
<1>9. room'["viewer"].last <= output
  BY <1>1 DEF StreamInv, Side
<1> QED  BY <1>2, <1>4, <1>5, <1>6, <1>7, <1>8, <1>9 DEF StreamInv

LEMMA ClientFacts ==
    ASSUME StreamInv, NEW r \in Side
    PROVE  /\ room[r] \in ClientState /\ Committed(r) \in Nat /\ nextInput \in Nat /\ output \in Nat
           /\ Contiguous(room[r].pending, room[r].next) /\ room[r].next <= MostOf(r) + 1
           /\ Committed(r) < room[r].next
           /\ InRoom(r) => room[r].next - Len(room[r].pending) <= Committed(r) + 1
           /\ room[r].conn # None => InRoom(r)
           /\ r = "viewer" => room[r].last <= output
<1>1. room[r] \in ClientState /\ output \in Nat /\ nextInput \in Nat \ {0}
  BY StreamAssumption DEF StreamInv, StreamTypeOK
<1>2. Committed(r) \in Nat
  BY <1>1 DEF Committed
<1> QED  BY <1>1, <1>2 DEF StreamInv, ClientOK

\* send_front adds the head of the outbox to what is under way.
LEMMA FrontSent ==
    ASSUME StreamInv, NEW r \in Side, NEW c \in ClientState, SendFront(r, c)
    PROVE  /\ up' \in [Socket -> Seq(Frames)]
           /\ \A s \in Socket :
                \/ up'[s] \in {up[s], <<>>}
                \/ /\ room[r].conn = s /\ c.pending # <<>>
                   /\ up'[s] = Append(up[s], Head(c.pending))
<1>1. up \in [Socket -> Seq(Frames)] /\ c.pending \in Seq(Frames)
  BY DEF StreamInv, StreamTypeOK, ClientState
<1>2. CASE c.pending = <<>>
  BY <1>1, <1>2 DEF SendFront
<1>3. CASE c.pending # <<>>
  <2>1. up' = [up EXCEPT ![room[r].conn] = Append(@, Head(c.pending))] /\ Head(c.pending) \in Frames
    BY <1>1, <1>3 DEF SendFront
  <2>2. CASE room[r].conn \in Socket
    <3>1. Append(up[room[r].conn], Head(c.pending)) \in Seq(Frames)
      BY <1>1, <2>1, <2>2
    <3> QED  BY <1>1, <1>3, <2>1, <2>2, <3>1
  <2>3. CASE room[r].conn \notin Socket
    BY <1>1, <2>1, <2>3
  <2> QED  BY <2>2, <2>3
<1> QED  BY <1>2, <1>3

LEMMA ArrivingIsTrue ==
    ASSUME StreamInv, NEW r \in Side, NEW is, Arrives(r, is)
    PROVE  /\ room[r].conn \in Socket /\ Arriving(r) \in Told /\ Arriving(r).is = is
           /\ Arriving(r) \in AcceptedUpTo(Committed(r))
<1>1. room[r].conn \in Socket
  BY ClientFacts DEF Arrives, ClientState
<1> DEFINE q == down[room[r].conn]
<1>2. q \in Seq(Told) /\ q \in Seq(AcceptedUpTo(Committed(r))) /\ q # <<>>
  BY <1>1 DEF StreamInv, DownOK, Arrives
<1> HIDE DEF q
<1>3. Head(q) \in Told /\ Head(q) \in AcceptedUpTo(Committed(r))
  BY <1>2
<1> QED  BY <1>1, <1>3 DEF Arriving, Arrives, q

\* A client that takes a message from its connection and becomes c.
LEMMA Receives ==
    ASSUME StreamInv, NEW r \in Side, NEW is, Arrives(r, is), Taken(r), NEW c \in ClientState,
           room' = [room EXCEPT ![r] = c], c.conn \in {room[r].conn, None},
           c.next = room[r].next, Contiguous(c.pending, c.next),
           c.status # "failed" => c.next - Len(c.pending) <= Committed(r) + 1,
           c.status = "failed" => c.conn = None,
           r = "viewer" => c.last <= output,
           \/ up' = up
           \/ SendFront(r, c),
           {hostLease', hostGen'} \subseteq 0..MaxGrants, hostInput' \in 1..nextInput
    PROVE  StreamInv'
<1>1. up' \in [Socket -> Seq(Frames)] /\ up \in [Socket -> Seq(Frames)]
  BY FrontSent DEF StreamInv, StreamTypeOK
<1>2. \A s \in Socket :
        \/ up'[s] \in {up[s], <<>>}
        \/ room[r].conn = s /\ c.pending # <<>> /\ up'[s] = Append(up[s], Head(c.pending))
  BY FrontSent
<1>3. down' \in [Socket -> Seq(Messages)]
  <2>1. /\ down \in [Socket -> Seq(Messages)] /\ room[r].conn \in Socket
        /\ down[room[r].conn] # <<>>
    BY ArrivingIsTrue DEF StreamInv, StreamTypeOK, Arrives
  <2>2. Tail(down[room[r].conn]) \in Seq(Messages) /\ <<>> \in Seq(Messages)
    BY <2>1, EmptyOf, TailOf
  <2> QED  BY <2>1, <2>2 DEF Taken
<1>4. \A s \in Socket :
        \/ down'[s] \in {down[s], <<>>}
        \/ down[s] # <<>> /\ down'[s] = Tail(down[s])
  <2>1. down \in [Socket -> Seq(Messages)] /\ down[room[r].conn] # <<>>
    BY DEF StreamInv, StreamTypeOK, Arrives
  <2> QED  BY <2>1 DEF Taken
<1>5. UNCHANGED <<tableVars, relayVars, opened>> /\ command' \in ControlState
  BY DEF Taken, StreamInv, StreamTypeOK
<1>6. c.next >= room[r].next /\ c.next <= MostOf(r) + 1
  BY ClientFacts DEF ClientState
<1> QED  BY <1>1, <1>2, <1>3, <1>4, <1>5, <1>6, ClientChanges

\* finish_room.
LEMMA FailingKeeps ==
    ASSUME StreamInv, NEW r \in Side, NEW is, Arrives(r, is), Taken(r), NEW why, Fails(r, why),
           why \in {"gap", "order", "lease", "sequence", "shell", "control", "refused"},
           {hostLease', hostGen'} \subseteq 0..MaxGrants, hostInput' \in 1..nextInput
    PROVE  StreamInv'
<1> DEFINE c == FailedWith(room[r], why)
<1>1. /\ c \in ClientState /\ c.conn = None /\ c.next = room[r].next /\ c.pending = <<>>
      /\ c.status = "failed" /\ c.last = room[r].last
  <2>1. room[r] \in ClientState /\ 0 \in 0..MaxGrants /\ <<>> \in Seq(Frames)
    BY ClientFacts, EmptyOf, StreamAssumption
  <2> QED  BY <2>1 DEF FailedWith, Disconnected, ClientState
<1>2. room' = [room EXCEPT ![r] = c] /\ up' = up
  BY DEF Fails
<1> HIDE DEF c
<1>3. Contiguous(c.pending, c.next)
  BY <1>1 DEF Contiguous, ClientState
<1> QED  BY <1>1, <1>2, <1>3, ClientFacts, Receives

LEMMA HostFacts ==
    StreamInv => /\ {hostLease, hostGen, lease, leaseGen, expired} \subseteq 0..MaxGrants
                 /\ hostInput \in 1..nextInput /\ command \in ControlState
BY DEF StreamInv, StreamTypeOK

LEMMA ReadyStep ==
    ASSUME StreamInv, NEW r \in Side, ReceiveReady(r)
    PROVE  StreamInv'
<1> DEFINE expected == IF r = "host" THEN Arriving(r).n + 1 ELSE Arriving(r).m
           left == Unconfirmed(OutboxOf(r), expected)
           c == [room[r] EXCEPT !.pending = left, !.ready = TRUE, !.status = "online",
                   !.last = IF r = "host" /\ @ < Arriving(r).n THEN Arriving(r).n ELSE @]
<1>1. /\ Arrives(r, "ready") /\ Taken(r) /\ UNCHANGED <<hostLease, hostGen, hostInput>>
      /\ Fails(r, "gap") \/ (room' = [room EXCEPT ![r] = c] /\ SendFront(r, c))
  BY DEF ReceiveReady
<1>2. /\ Arriving(r).n \in Nat /\ Arriving(r).m \in Nat
      /\ Arriving(r).n <= output /\ Arriving(r).m <= nextInput
  BY <1>1, ArrivingIsTrue DEF Told, TrueOf, Messages
<1>3. expected \in Nat /\ expected <= Committed(r) + 1
  BY <1>2, ClientFacts DEF Committed
<1>4. CASE Fails(r, "gap")
  BY <1>1, <1>4, FailingKeeps, HostFacts
<1>5. CASE room' = [room EXCEPT ![r] = c] /\ SendFront(r, c)
  <2>1. /\ left \in Seq(Frames) /\ Contiguous(left, room[r].next)
        /\ \/ room[r].next - Len(left) <= room[r].next - Len(room[r].pending)
           \/ room[r].next - Len(left) <= expected
    <3>1. room[r].pending \in Seq(Frames) /\ room[r].next \in Nat
      BY ClientFacts DEF ClientState
    <3> HIDE DEF expected
    <3> QED  BY <1>3, <3>1, ClientFacts, OutboxLeft DEF OutboxOf
  <2>2. /\ c \in ClientState /\ c.conn = room[r].conn /\ c.next = room[r].next
        /\ c.pending = left /\ (r = "viewer" => c.last = room[r].last)
    <3> HIDE DEF left, expected
    <3> QED  BY <1>2, <2>1, ClientFacts DEF ClientState
  <2>3. room[r].next - Len(room[r].pending) <= Committed(r) + 1 /\ c.status = "online"
    BY <1>1, ClientFacts DEF Arrives, ClientState
  <2> HIDE DEF c
  <2>4. c.next - Len(c.pending) <= Committed(r) + 1
    <3>1. /\ Len(left) \in Nat /\ Len(room[r].pending) \in Nat /\ room[r].next \in Nat
          /\ Committed(r) \in Nat
      BY <2>1, ClientFacts DEF ClientState
    <3> HIDE DEF left, expected
    <3> QED  BY <1>3, <2>1, <2>2, <2>3, <3>1
  <2> QED
    BY <1>1, <1>5, <2>1, <2>2, <2>3, <2>4, ClientFacts, HostFacts, Receives
<1> QED  BY <1>1, <1>4, <1>5

LEMMA AcceptedStep ==
    ASSUME StreamInv, NEW r \in Side, ReceiveAccepted(r)
    PROVE  StreamInv'
<1> DEFINE c == [room[r] EXCEPT !.pending = Tail(@),
                   !.last = IF r = "host" /\ @ < Arriving(r).n THEN Arriving(r).n ELSE @]
<1>1. /\ Arrives(r, "accepted") /\ Taken(r) /\ UNCHANGED <<hostLease, hostGen, hostInput>>
      /\ \/ UNCHANGED <<room, up>>
         \/ /\ Acknowledges(r) /\ room' = [room EXCEPT ![r] = c]
            /\ SendFront(r, c) \/ up' = up
  BY DEF ReceiveAccepted
<1>2. Arriving(r).n \in Nat /\ Arriving(r).n <= Committed(r)
  BY <1>1, ArrivingIsTrue DEF AcceptedUpTo, Messages
<1>3. InRoom(r) /\ room[r].next - Len(room[r].pending) <= Committed(r) + 1
  BY <1>1, ClientFacts DEF Arrives
<1>4. CASE UNCHANGED <<room, up>>
  <2>1. room' = [room EXCEPT ![r] = room[r]]
    BY <1>4 DEF StreamInv, StreamTypeOK
  <2> QED
    BY <1>1, <1>3, <1>4, <2>1, ClientFacts, HostFacts, Receives DEF InRoom
<1>5. CASE /\ Acknowledges(r) /\ room' = [room EXCEPT ![r] = c]
           /\ SendFront(r, c) \/ up' = up
  <2>1. room[r].pending \in Seq(Frames) /\ room[r].pending # <<>> /\ room[r].next \in Nat
    BY <1>5, ClientFacts DEF Acknowledges, OutboxOf, ClientState
  <2>2. /\ Tail(room[r].pending) \in Seq(Frames) /\ Contiguous(Tail(room[r].pending), room[r].next)
        /\ Len(Tail(room[r].pending)) = Len(room[r].pending) - 1
        /\ room[r].next - Len(room[r].pending) = Arriving(r).n
    BY <1>5, <2>1, ClientFacts, OutboxTail DEF Acknowledges, OutboxOf
  <2>3. /\ c \in ClientState /\ c.conn = room[r].conn /\ c.next = room[r].next
        /\ c.pending = Tail(room[r].pending) /\ (r = "viewer" => c.last = room[r].last)
        /\ c.status = room[r].status
    BY <1>2, <2>2, ClientFacts DEF ClientState
  <2> HIDE DEF c
  <2>4. c.next - Len(c.pending) <= Committed(r) + 1
    <3>1. Len(room[r].pending) \in Nat /\ Committed(r) \in Nat
      BY <2>1, ClientFacts
    <3>2. c.next = room[r].next /\ Len(c.pending) = Len(room[r].pending) - 1
      BY <2>2, <2>3
    <3> QED  BY <1>2, <2>1, <2>2, <3>1, <3>2
  <2> QED
    BY <1>1, <1>3, <1>5, <2>2, <2>3, <2>4, ClientFacts, HostFacts, Receives DEF InRoom
<1> QED  BY <1>1, <1>4, <1>5

LEMMA OutputStep ==
    ASSUME StreamInv, NEW r \in Side, ReceiveOutput(r)
    PROVE  StreamInv'
<1> DEFINE seq == Arriving(r).n
           c == [room[r] EXCEPT !.last = IF r = "host" /\ seq <= @ THEN @ ELSE seq]
<1>1. /\ Arrives(r, "output") /\ Taken(r) /\ UNCHANGED <<hostLease, hostGen, hostInput>>
      /\ Fails(r, "order") \/ (room' = [room EXCEPT ![r] = c] /\ up' = up)
  <2>1. Arrives(r, "output") /\ room \in [Side -> ClientState] /\ room[r] \in ClientState
    BY DEF ReceiveOutput, StreamInv, StreamTypeOK
  <2>2. seq \in Nat /\ room[r].last \in Nat
    BY <2>1, ArrivingIsTrue DEF Told, TrueOf, Messages, ClientState
  <2> HIDE DEF seq
  <2>3. CASE r = "host"
    <3>1. room' = [room EXCEPT ![r].last = IF @ < seq THEN seq ELSE @]
      BY <2>3 DEF ReceiveOutput, seq
    <3>2. room' = [room EXCEPT ![r] = [room[r] EXCEPT !.last =
                                         IF room[r].last < seq THEN seq ELSE room[r].last]]
      BY <2>1, <3>1
    <3>3. (IF room[r].last < seq THEN seq ELSE room[r].last)
          = (IF r = "host" /\ seq <= room[r].last THEN room[r].last ELSE seq)
      BY <2>2, <2>3
    <3>4. c = [room[r] EXCEPT !.last = IF room[r].last < seq THEN seq ELSE room[r].last]
      BY <3>3
    <3> QED  BY <2>1, <2>3, <3>2, <3>4 DEF ReceiveOutput
  <2>4. CASE r # "host"
    BY <2>1, <2>2, <2>4 DEF ReceiveOutput, seq
  <2> QED  BY <2>3, <2>4
<1>2. seq \in Nat /\ seq <= output
  BY <1>1, ArrivingIsTrue DEF Told, TrueOf, Messages
<1>3. CASE Fails(r, "order")
  BY <1>1, <1>3, FailingKeeps, HostFacts
<1>4. CASE room' = [room EXCEPT ![r] = c] /\ up' = up
  <2> HIDE DEF seq
  <2>1. /\ c \in ClientState /\ c.conn = room[r].conn /\ c.next = room[r].next
        /\ c.pending = room[r].pending /\ (r = "viewer" => c.last = seq)
        /\ c.status = room[r].status
    BY <1>2, ClientFacts DEF ClientState
  <2> HIDE DEF c
  <2> QED
    BY <1>1, <1>2, <1>4, <2>1, ClientFacts, HostFacts, Receives DEF InRoom, Arrives
<1> QED  BY <1>1, <1>3, <1>4

\* The leases a client knows of are the relay's.
LEMMA ControlStep ==
    ASSUME StreamInv, NEW r \in Side, ReceiveControl(r)
    PROVE  StreamInv'
<1> DEFINE gen == IF Arriving(r).n > expired THEN Arriving(r).n ELSE 0
           c == [room[r] EXCEPT !.lease = gen]
<1>1. Arrives(r, "control") /\ Taken(r) /\ UNCHANGED hostInput
  BY DEF ReceiveControl
<1>2. gen \in 0..MaxGrants
  BY <1>1, ArrivingIsTrue, HostFacts, StreamAssumption DEF Told, TrueOf, Messages
<1>3. /\ {hostLease', hostGen'} \subseteq 0..MaxGrants
      /\ Fails(r, "control") \/ (room' = [room EXCEPT ![r] = c] /\ up' = up)
  <2>1. room[r] = room[r] /\ room \in [Side -> ClientState] /\ 0 \in 0..MaxGrants
    BY StreamAssumption DEF StreamInv, StreamTypeOK
  <2> HIDE DEF gen
  <2>2. CASE r = "viewer"
    BY <1>2, <2>1, <2>2, HostFacts DEF ReceiveControl, gen
  <2>3. CASE r # "viewer"
    BY <1>2, <2>1, <2>3, HostFacts DEF ReceiveControl, gen
  <2> QED  BY <2>2, <2>3
<1>4. CASE Fails(r, "control")
  BY <1>1, <1>3, <1>4, FailingKeeps, HostFacts
<1>5. CASE room' = [room EXCEPT ![r] = c] /\ up' = up
  <2> HIDE DEF gen
  <2>1. /\ c \in ClientState /\ c.conn = room[r].conn /\ c.next = room[r].next
        /\ c.pending = room[r].pending /\ c.last = room[r].last /\ c.status = room[r].status
    BY <1>2, ClientFacts DEF ClientState
  <2> HIDE DEF c
  <2> QED
    BY <1>1, <1>3, <1>5, <2>1, ClientFacts, HostFacts, Receives DEF InRoom, Arrives
<1> QED  BY <1>3, <1>4, <1>5

\* Only input the relay has committed reaches the shell.
LEMMA InputStep ==
    ASSUME StreamInv, ReceiveInput
    PROVE  StreamInv'
<1>1. Arrives("host", "input") /\ Taken("host") /\ hostGen' = hostGen /\ "host" \in Side
  BY DEF ReceiveInput, Side
<1>2. hostInput' \in 1..nextInput
  <2>1. /\ Arriving("host").n < nextInput /\ Arriving("host").n \in Nat
        /\ \/ Arriving("host").n = hostInput /\ hostInput' = hostInput + 1
           \/ hostInput' = hostInput
    BY <1>1, ArrivingIsTrue DEF Told, TrueOf, Messages, ReceiveInput, TakesInput
  <2> QED  BY <2>1, HostFacts, ClientFacts, <1>1
<1>3. hostLease' \in 0..MaxGrants
  BY HostFacts, StreamAssumption DEF ReceiveInput
<1>4. CASE UNCHANGED <<room, up>>
  <2>1. room' = [room EXCEPT !["host"] = room["host"]]
    BY <1>1, <1>4 DEF StreamInv, StreamTypeOK
  <2> QED
    BY <1>1, <1>2, <1>3, <1>4, <2>1, ClientFacts, HostFacts, Receives DEF InRoom, Arrives
<1>5. ASSUME NEW why \in {"lease", "sequence", "shell"}, Fails("host", why)
      PROVE  StreamInv'
  BY <1>1, <1>2, <1>3, <1>5, FailingKeeps, HostFacts
<1> QED  BY <1>4, <1>5 DEF ReceiveInput

LEMMA EndingStep ==
    ASSUME StreamInv, NEW r \in Side, ReceiveError(r) \/ ReceiveEnd(r)
    PROVE  StreamInv'
<1>1. CASE ReceiveError(r)
  <2>1. Arrives(r, "error") /\ Taken(r) /\ Fails(r, "refused")
        /\ UNCHANGED <<hostLease, hostGen, hostInput>>
    BY <1>1 DEF ReceiveError
  <2> QED  BY <2>1, FailingKeeps, HostFacts
<1>2. CASE ReceiveEnd(r)
  <2> DEFINE c == Disconnected(room[r], "reconnecting")
  <2>1. /\ Arrives(r, "end") /\ Taken(r) /\ UNCHANGED <<hostLease, hostGen, hostInput>>
        /\ room' = [room EXCEPT ![r] = c] /\ up' = up
    BY <1>2 DEF ReceiveEnd
  <2>2. /\ c \in ClientState /\ c.conn = None /\ c.next = room[r].next
        /\ c.pending = room[r].pending /\ c.last = room[r].last /\ c.status = "reconnecting"
    BY ClientFacts DEF ClientState, Disconnected
  <2> HIDE DEF c
  <2> QED  BY <2>1, <2>2, ClientFacts, HostFacts, Receives DEF InRoom, Arrives
<1> QED  BY <1>1, <1>2

LEMMA ReconnectStep ==
    ASSUME StreamInv, NEW r \in Side, Reconnect(r)
    PROVE  StreamInv'
<1> DEFINE c == Disconnected(room[r], "reconnecting")
<1>1. /\ c \in ClientState /\ c.conn = None /\ c.next = room[r].next
      /\ c.pending = room[r].pending /\ c.last = room[r].last /\ c.status = "reconnecting"
  BY ClientFacts DEF ClientState, Disconnected
<1>2. /\ room' = [room EXCEPT ![r] = c] /\ room[r].conn # None
      /\ up' \in {up, [up EXCEPT ![room[r].conn] = <<>>]}
      /\ down' = [down EXCEPT ![room[r].conn] = <<>>]
      /\ UNCHANGED <<hostLease, hostGen, hostInput, command, tableVars, relayVars, opened>>
  BY DEF Reconnect
<1> HIDE DEF c
<1>3. up \in [Socket -> Seq(Frames)] /\ down \in [Socket -> Seq(Messages)]
  BY DEF StreamInv, StreamTypeOK
<1>4. up' \in [Socket -> Seq(Frames)] /\ down' \in [Socket -> Seq(Messages)]
  BY <1>2, <1>3, EmptyOf
<1>5. \A s \in Socket : up'[s] \in {up[s], <<>>} /\ down'[s] \in {down[s], <<>>}
  BY <1>2, <1>3
<1>6. c.next >= room[r].next /\ c.next <= MostOf(r) + 1
  BY <1>1, ClientFacts DEF ClientState
<1>7. /\ Contiguous(c.pending, c.next) /\ (InRoom(r) => c.next - Len(c.pending) <= Committed(r) + 1)
      /\ InRoom(r) /\ (r = "viewer" => c.last <= output)
  BY <1>1, <1>2, ClientFacts
<1>8. /\ {hostLease', hostGen'} \subseteq 0..MaxGrants /\ hostInput' \in 1..nextInput
      /\ command' \in ControlState
  BY <1>2, HostFacts
<1> QED  BY <1>1, <1>2, <1>4, <1>5, <1>6, <1>7, <1>8, ClientChanges

LEMMA PublishStep ==
    ASSUME StreamInv, NEW r \in Side, Publish(r)
    PROVE  StreamInv'
<1> DEFINE n == room[r].next
           gen == IF r = "host" THEN 0 ELSE room[r].lease
           c == [room[r] EXCEPT !.pending = Append(@, Frame(room[r].next, gen)), !.next = @ + 1]
<1>1. /\ InRoom(r) /\ n <= MostOf(r) /\ room' = [room EXCEPT ![r] = c]
      /\ SendFront(r, c) \/ up' = up
      /\ UNCHANGED <<hostLease, hostGen, hostInput, command, tableVars, relayVars, down, opened>>
  BY DEF Publish, MostOf
<1>2. n \in Nat /\ gen \in 0..MaxGrants /\ room[r].pending \in Seq(Frames)
  BY ClientFacts, StreamAssumption DEF ClientState
<1>3. /\ Append(room[r].pending, Frame(n, gen)) \in Seq(Frames)
      /\ Contiguous(Append(room[r].pending, Frame(n, gen)), n + 1)
      /\ Len(Append(room[r].pending, Frame(n, gen))) = Len(room[r].pending) + 1
  <2> HIDE DEF n, gen
  <2> QED  BY <1>2, ClientFacts, OutboxGrows DEF n
<1>4. /\ c \in ClientState /\ c.conn = room[r].conn /\ c.next = n + 1
      /\ c.pending = Append(room[r].pending, Frame(n, gen)) /\ c.last = room[r].last
      /\ c.status = room[r].status
  <2> DEFINE p == Append(room[r].pending, Frame(room[r].next, gen))
  <2>1. p \in Seq(Frames) /\ room[r] \in ClientState /\ n + 1 \in Nat \ {0}
    BY <1>2, <1>3, ClientFacts
  <2>2. c = [room[r] EXCEPT !.pending = p, !.next = n + 1]
    OBVIOUS
  <2> HIDE DEF p, c
  <2>3. /\ c \in ClientState /\ c.conn = room[r].conn /\ c.next = n + 1
        /\ c.pending = p /\ c.last = room[r].last /\ c.status = room[r].status
    BY <2>1, <2>2 DEF ClientState
  <2> QED  BY <2>3 DEF p
<1> HIDE DEF c
<1>5. /\ up' \in [Socket -> Seq(Frames)] /\ down' \in [Socket -> Seq(Messages)]
      /\ \A s \in Socket : down'[s] \in {down[s], <<>>}
      /\ \A s \in Socket :
           \/ up'[s] \in {up[s], <<>>}
           \/ /\ room[r].conn = s /\ c.pending # <<>>
              /\ up'[s] = Append(up[s], Head(c.pending))
  BY <1>1, <1>4, FrontSent DEF StreamInv, StreamTypeOK
<1>6. c.next >= room[r].next /\ c.next <= MostOf(r) + 1
  <2>1. MostOf(r) \in Nat
    BY StreamAssumption DEF MostOf
  <2> QED  BY <1>1, <1>2, <1>4, <2>1
<1>7. c.next - Len(c.pending) <= Committed(r) + 1
  <2>1. n - Len(room[r].pending) <= Committed(r) + 1 /\ Len(room[r].pending) \in Nat
    BY <1>1, <1>2, ClientFacts
  <2>2. Len(c.pending) = Len(room[r].pending) + 1 /\ Committed(r) \in Nat
    BY <1>3, <1>4, ClientFacts
  <2>3. c.next = n + 1 /\ n \in Nat
    BY <1>2, <1>4
  <2>4. \A x, l, k \in Nat : x - l <= k + 1 => (x + 1) - (l + 1) <= k + 1
    OBVIOUS
  <2>5. (n + 1) - (Len(room[r].pending) + 1) <= Committed(r) + 1
    BY <2>1, <2>2, <2>3, <2>4
  <2> QED  BY <2>2, <2>3, <2>5
<1>8. Contiguous(c.pending, c.next)
  BY <1>3, <1>4
<1> HIDE DEF n, gen
<1> QED
  BY <1>1, <1>4, <1>5, <1>6, <1>7, <1>8, ClientFacts, HostFacts, ClientChanges DEF InRoom

LEMMA ApplyStep ==
    ASSUME StreamInv, ApplyGrant \/ ApplyRevoke
    PROVE  StreamInv'
<1>1. /\ UNCHANGED <<hostInput, tableVars, relayVars, up, down, opened>> /\ "host" \in Side
      /\ {hostLease', hostGen'} \subseteq 0..MaxGrants /\ command' \in ControlState
      /\ \E gen \in 0..MaxGrants :
            room' = [room EXCEPT !["host"] = [room["host"] EXCEPT !.lease = gen]]
  <2>1. /\ room["host"] = [room["host"] EXCEPT !.lease = room["host"].lease]
        /\ room["host"].lease \in 0..MaxGrants /\ room = [room EXCEPT !["host"] = room["host"]]
        /\ 0 \in 0..MaxGrants /\ command.gen \in 0..MaxGrants
        /\ room \in [Side -> ClientState]
    BY HostFacts, StreamAssumption
       DEF StreamInv, StreamTypeOK, Side, ClientState, ControlState
  <2>2. CASE ApplyGrant
    <3>1. command' \in ControlState
      BY <2>2, HostFacts DEF ApplyGrant, ControlState
    <3> QED  BY <2>1, <2>2, <3>1, HostFacts DEF ApplyGrant, Side
  <2>3. CASE ApplyRevoke
    <3>1. command' \in ControlState
      BY <2>3, HostFacts DEF ApplyRevoke, ControlState
    <3> QED  BY <2>1, <2>3, <3>1, HostFacts DEF ApplyRevoke, Side
  <2> QED  BY <2>2, <2>3
<1>2. PICK gen \in 0..MaxGrants :
        room' = [room EXCEPT !["host"] = [room["host"] EXCEPT !.lease = gen]]
  BY <1>1
<1> DEFINE c == [room["host"] EXCEPT !.lease = gen]
<1>3. /\ c \in ClientState /\ c.conn = room["host"].conn /\ c.next = room["host"].next
      /\ c.pending = room["host"].pending /\ c.last = room["host"].last
      /\ c.status = room["host"].status /\ room' = [room EXCEPT !["host"] = c]
  BY <1>1, <1>2, ClientFacts DEF ClientState
<1> HIDE DEF c
<1>4. /\ up' \in [Socket -> Seq(Frames)] /\ down' \in [Socket -> Seq(Messages)]
      /\ \A s \in Socket : up'[s] \in {up[s], <<>>} /\ down'[s] \in {down[s], <<>>}
  BY <1>1 DEF StreamInv, StreamTypeOK
<1>5. c.next >= room["host"].next /\ c.next <= MostOf("host") + 1
  BY <1>1, <1>3, ClientFacts DEF ClientState
<1> QED  BY <1>1, <1>3, <1>4, <1>5, ClientFacts, HostFacts, ClientChanges DEF InRoom

(***************************************************************************)
(* The relay.                                                              *)
(***************************************************************************)
LEMMA TableFacts ==
    StreamInv => /\ output \in Nat /\ nextInput \in Nat \ {0} /\ hub \in Nat /\ hubs \in Nat
                 /\ opened \in Nat /\ Socket \subseteq Nat
                 /\ socket \in [Socket -> SocketState] /\ room \in [Side -> ClientState]
                 /\ down \in [Socket -> Seq(Messages)] /\ up \in [Socket -> Seq(Frames)]
                 /\ air \in [top : Nat, bad : BOOLEAN] /\ hub <= hubs
<1> SUFFICES ASSUME StreamInv
             PROVE  /\ output \in Nat /\ nextInput \in Nat \ {0} /\ hub \in Nat /\ hubs \in Nat
                    /\ opened \in Nat /\ Socket \subseteq Nat
                    /\ socket \in [Socket -> SocketState] /\ room \in [Side -> ClientState]
                    /\ down \in [Socket -> Seq(Messages)] /\ up \in [Socket -> Seq(Frames)]
                    /\ air \in [top : Nat, bad : BOOLEAN] /\ hub <= hubs
  OBVIOUS
<1>1. /\ output \in 0..MaxOutput /\ nextInput \in 1..MaxInput + 1 /\ opened \in 0..MaxSockets
      /\ hub \in Nat /\ hubs \in Nat /\ hub <= hubs
      /\ socket \in [Socket -> SocketState] /\ room \in [Side -> ClientState]
      /\ down \in [Socket -> Seq(Messages)] /\ up \in [Socket -> Seq(Frames)]
      /\ air \in [top : Nat, bad : BOOLEAN]
  BY DEF StreamInv, StreamTypeOK
<1>2. output \in Nat /\ nextInput \in Nat \ {0} /\ opened \in Nat
  BY <1>1, StreamAssumption
<1>3. Socket \subseteq Nat
  BY DEF Socket
<1> QED  BY <1>1, <1>2, <1>3

\* What holds of the tables keeps holding when they grow.
Grown == output <= output' /\ nextInput <= nextInput'

LEMMA ToldGrows ==
    ASSUME StreamInv, output' \in Nat, nextInput' \in Nat, Grown
    PROVE  /\ Seq(Told) \subseteq Seq(Told')
           /\ \A r \in Side : /\ Committed(r) \in Nat /\ Committed(r)' \in Int
                              /\ Committed(r) <= Committed(r)'
                              /\ Seq(AcceptedUpTo(Committed(r))) \subseteq Seq(AcceptedUpTo(Committed(r)'))
<1>1. Seq(Told) \subseteq Seq(Told')
  <2>1. output \in Nat /\ nextInput \in Nat
    BY TableFacts
  <2>2. output <= output' /\ nextInput <= nextInput'
    BY DEF Grown
  <2>3. \A n, m, k \in Nat : n <= m /\ m <= k => n <= k
    OBVIOUS
  <2>4. \A n, m, k \in Nat : n < m /\ m <= k => n < k
    OBVIOUS
  <2>5. Told \subseteq Told'
    BY <2>1, <2>2, <2>3, <2>4 DEF Told, TrueOf, Messages
  <2> QED  BY <2>5, SeqGrows
<1>2. ASSUME NEW r \in Side
      PROVE  Committed(r) \in Nat /\ Committed(r)' \in Nat /\ Committed(r) <= Committed(r)'
  <2>1. output \in Nat /\ nextInput \in Nat \ {0} /\ output <= output' /\ nextInput <= nextInput'
    BY TableFacts DEF Grown
  <2>2. CASE r = "host"
    BY <2>1, <2>2 DEF Committed
  <2>3. CASE r # "host"
    <3>1. \A n, m \in Nat : n # 0 /\ n <= m => n - 1 \in Nat /\ m - 1 \in Nat /\ n - 1 <= m - 1
      OBVIOUS
    <3>2. nextInput - 1 \in Nat /\ nextInput' - 1 \in Nat /\ nextInput - 1 <= nextInput' - 1
      BY <2>1, <3>1
    <3> QED  BY <2>3, <3>2 DEF Committed
  <2> QED  BY <2>2, <2>3
<1>3. ASSUME NEW r \in Side
      PROVE  Seq(AcceptedUpTo(Committed(r))) \subseteq Seq(AcceptedUpTo(Committed(r)'))
  BY <1>2, AcceptedGrows
<1> QED  BY <1>1, <1>2, <1>3

\* A step of the relay that leaves the clients alone.
LEMMA RelayStep ==
    ASSUME StreamInv, StreamTypeOK', UNCHANGED <<room, opened>>, Grown,
           output' < room["host"].next, nextInput' <= room["viewer"].next, hub' <= hubs',
           DownOK', SocketsOK',
           \A s \in Socket :
               /\ socket'[s].by \in {socket[s].by, None}
               /\ \/ up'[s] \in {up[s], <<>>}
                  \/ up[s] # <<>> /\ up'[s] = Tail(up[s])
    PROVE  StreamInv'
<1>1. output' \in Nat /\ nextInput' \in Nat
  BY DEF StreamTypeOK
<1>2. ASSUME NEW r \in Side
      PROVE  ClientOK(r)'
  <2>1. /\ Committed(r) \in Nat /\ Committed(r)' \in Int /\ Committed(r) <= Committed(r)'
        /\ room[r].next \in Nat /\ Len(room[r].pending) \in Nat
    BY <1>1, ToldGrows, ClientFacts DEF ClientState
  <2>2. Committed(r)' < room[r].next
    BY <1>1, ClientFacts DEF Committed, ClientState, Side
  <2>3. /\ Contiguous(room[r].pending, room[r].next) /\ room[r].next <= MostOf(r) + 1
        /\ room[r].conn # None => InRoom(r) /\ room' = room
        /\ InRoom(r)' = InRoom(r)
    BY ClientFacts DEF InRoom
  <2>4. InRoom(r) => room[r].next - Len(room[r].pending) <= Committed(r)' + 1
    BY <2>1, ClientFacts
  <2> QED  BY <2>2, <2>3, <2>4 DEF ClientOK
<1>3. ASSUME NEW r \in Side
      PROVE  ConnOK(r)'
  <2>1. ConnOK(r)
    BY DEF StreamInv
  <2> QED  BY <2>1 DEF ConnOK
<1>4. UpOK'
  <2>1. ASSUME NEW s \in Socket, s > opened
        PROVE  up'[s] = <<>>
    BY <2>1 DEF StreamInv, UpOK
  <2>2. ASSUME NEW s \in Socket, NEW r \in Side, socket'[s].by = r
        PROVE  up'[s] \in Seq(SealedBefore(room[r].next))
    <3>1. socket[s].by = r
      BY <2>2, NoneIsNoSide
    <3>2. up[s] \in Seq(SealedBefore(room[r].next))
      BY <3>1 DEF StreamInv, UpOK
    <3> QED  BY <3>2, EmptyOf, TailOf
  <2> QED  BY <2>1, <2>2 DEF UpOK
<1>5. room["viewer"].last <= output'
  <2>1. room["viewer"].last \in Nat /\ output \in Nat
    BY ClientFacts, TableFacts DEF ClientState, Side
  <2>2. room["viewer"].last <= output /\ output <= output'
    BY DEF StreamInv, Grown
  <2> QED  BY <1>1, <2>1, <2>2
<1> QED  BY <1>2, <1>3, <1>4, <1>5 DEF StreamInv

LEMMA DownStays ==
    ASSUME StreamInv, output' \in Nat, nextInput' \in Nat, Grown,
           UNCHANGED <<room, opened, down>>
    PROVE  DownOK'
BY ToldGrows DEF StreamInv, DownOK

\* What the relay sends to a client that is still there.
LEMMA Delivers ==
    ASSUME StreamInv, NEW s \in Socket, s <= opened, socket[s].by \in Side, NEW q \in Seq(Told),
           \A r \in Side : socket[s].by = r => q \in Seq(AcceptedUpTo(Committed(r))),
           Deliver(s, q), UNCHANGED <<room, opened, output, nextInput>>
    PROVE  DownOK' /\ down' \in [Socket -> Seq(Messages)]
<1>1. down \in [Socket -> Seq(Messages)] /\ Seq(Told) \subseteq Seq(Messages)
  <2>1. Told \subseteq Messages
    BY DEF Told, TrueOf
  <2> QED  BY <2>1, SeqGrows, TableFacts
<1>2. Told' = Told /\ \A r \in Side : Committed(r)' = Committed(r)
  BY DEF Told, Committed
<1>3. CASE down' = down
  BY <1>1, <1>2, <1>3 DEF StreamInv, DownOK
<1>4. CASE down' = [down EXCEPT ![s] = @ \o q]
  <2>1. down[s] \in Seq(Told)
    BY DEF StreamInv, DownOK
  <2>2. down[s] \o q \in Seq(Told)
    BY <2>1
  <2>3. /\ down'[s] = down[s] \o q
        /\ \A t \in Socket : t # s => down'[t] = down[t]
        /\ down' \in [Socket -> Seq(Messages)]
    BY <1>1, <1>4, <2>2
  <2>4. ASSUME NEW r \in Side, room[r].conn = s
        PROVE  down'[s] \in Seq(AcceptedUpTo(Committed(r)))
    <3>1. socket[s].by = r
      BY <2>4, NoneIsNoSide DEF StreamInv, ConnOK
    <3>2. down[s] \in Seq(AcceptedUpTo(Committed(r))) /\ q \in Seq(AcceptedUpTo(Committed(r)))
      BY <2>4, <3>1 DEF StreamInv, DownOK
    <3>3. down[s] \o q \in Seq(AcceptedUpTo(Committed(r)))
      BY <3>2
    <3> QED  BY <2>3, <3>3
  <2>5. ~(s > opened)
    BY TableFacts
  <2>6. ASSUME NEW t \in Socket
        PROVE  /\ down'[t] \in Seq(Told) /\ (t > opened => down'[t] = <<>>)
               /\ \A r \in Side : room[r].conn = t => down'[t] \in Seq(AcceptedUpTo(Committed(r)))
    <3>1. CASE t = s
      BY <2>2, <2>3, <2>4, <2>5, <3>1
    <3>2. CASE t # s
      BY <2>3, <3>2 DEF StreamInv, DownOK
    <3> QED  BY <3>1, <3>2
  <2> QED  BY <1>2, <2>3, <2>6 DEF DownOK
<1> QED  BY <1>3, <1>4 DEF Deliver

\* One task goes on.
LEMMA TaskChanges ==
    ASSUME StreamInv, NEW s \in Socket, s <= opened, NEW k \in SocketState,
           socket' = [socket EXCEPT ![s] = k], k.by \in {socket[s].by, None},
           SocketOK(k, Told', hubs'), hubs <= hubs', hubs' \in Nat, opened' = opened,
           Seq(Told) \subseteq Seq(Told')
    PROVE  /\ SocketsOK' /\ socket' \in [Socket -> SocketState]
           /\ \A t \in Socket : socket'[t].by \in {socket[t].by, None}
<1>1. /\ socket \in [Socket -> SocketState] /\ hubs \in Nat /\ opened \in Nat /\ s \in Nat
      /\ \A t \in Socket : SocketOK(socket[t], Told, hubs) /\ (t > opened => socket[t] = NewSocket)
  BY TableFacts DEF StreamInv, SocketsOK
<1>2. ASSUME NEW t \in Socket
      PROVE  SocketOK(socket[t], Told', hubs')
  <2>1. socket[t].hub \in Nat
    BY <1>1 DEF SocketState
  <2> QED  BY <1>1, <2>1 DEF SocketOK
<1>3. socket' \in [Socket -> SocketState] /\ socket'[s] = k /\ \A t \in Socket : t # s => socket'[t] = socket[t]
  BY <1>1
<1>4. ASSUME NEW t \in Socket
      PROVE  SocketOK(socket'[t], Told', hubs') /\ (t > opened' => socket'[t] = NewSocket)
  BY <1>1, <1>2, <1>3
<1> QED  BY <1>3, <1>4 DEF SocketsOK

\* One task goes on, with the tables at rest; q is what it sends to its client.
LEMMA TaskStep ==
    ASSUME StreamInv, NEW s \in Socket, s <= opened, NEW k \in SocketState,
           socket' = [socket EXCEPT ![s] = k], k.by \in {socket[s].by, None},
           SocketOK(k, Told, hubs), k.cutoff <= output, Len(k.heard) <= HubSize,
           NEW q \in Seq(Told), q \in Seq(AcceptedUpTo(0)),
           down' = down \/ (socket[s].by \in Side /\ Deliver(s, q)),
           \/ up' \in {up, [up EXCEPT ![s] = <<>>]}
           \/ up[s] # <<>> /\ up' = [up EXCEPT ![s] = Tail(@)],
           hub' \in {0, hub}, UNCHANGED <<clientVars, command, tableVars, hubs, air, opened>>
    PROVE  StreamInv'
<1> USE DEF clientVars, tableVars
<1>1. /\ Told' = Told /\ Grown /\ output' \in Nat /\ nextInput' \in Nat
      /\ hubs' \in Nat /\ hubs <= hubs'
  BY TableFacts DEF Told, Grown
<1>2. /\ SocketsOK' /\ socket' \in [Socket -> SocketState]
      /\ \A t \in Socket : socket'[t].by \in {socket[t].by, None}
  BY <1>1, TaskChanges
<1>3. DownOK' /\ down' \in [Socket -> Seq(Messages)]
  <2>1. CASE down' = down
    BY <1>1, <2>1, DownStays, TableFacts
  <2>2. CASE socket[s].by \in Side /\ Deliver(s, q)
    <3>1. \A r \in Side : q \in Seq(AcceptedUpTo(Committed(r)))
      <4>1. \A r \in Side : Committed(r) \in Nat /\ 0 <= Committed(r)
        BY <1>1, ToldGrows
      <4>2. \A r \in Side : Seq(AcceptedUpTo(0)) \subseteq Seq(AcceptedUpTo(Committed(r)))
        BY <4>1, AcceptedGrows
      <4> QED  BY <4>2
    <3> QED  BY <2>2, <3>1, Delivers
  <2> QED  BY <2>1, <2>2
<1>4. up \in [Socket -> Seq(Frames)] /\ (up[s] # <<>> => Tail(up[s]) \in Seq(Frames))
  BY TableFacts, TailOf
<1>5. /\ up' \in [Socket -> Seq(Frames)]
      /\ \A t \in Socket :
            \/ up'[t] \in {up[t], <<>>}
            \/ up[t] # <<>> /\ up'[t] = Tail(up[t])
  <2>1. CASE up' \in {up, [up EXCEPT ![s] = <<>>]}
    BY <1>4, <2>1, EmptyOf
  <2>2. CASE up[s] # <<>> /\ up' = [up EXCEPT ![s] = Tail(@)]
    <3>1. Tail(up[s]) \in Seq(Frames)
      BY <1>4, <2>2
    <3> QED  BY <1>4, <2>2, <3>1
  <2> QED  BY <2>1, <2>2
<1>6. StreamTypeOK'
  <2>1. \A t \in Socket : socket'[t].cutoff <= output' /\ Len(socket'[t].heard) <= HubSize
    BY TableFacts DEF StreamInv, StreamTypeOK
  <2>2. hub' \in Nat
    BY TableFacts
  <2> QED  BY <1>2, <1>3, <1>5, <2>1, <2>2 DEF StreamInv, StreamTypeOK
<1>7. /\ output' < room["host"].next /\ nextInput' <= room["viewer"].next /\ hub' <= hubs'
  <2>1. "host" \in Side /\ "viewer" \in Side
    BY DEF Side
  <2>2. /\ output < room["host"].next /\ nextInput - 1 < room["viewer"].next
        /\ room["viewer"].next \in Nat /\ nextInput \in Nat
    BY <2>1, ClientFacts, TableFacts DEF Committed, ClientState
  <2> QED  BY <2>2, TableFacts
<1> QED  BY <1>1, <1>2, <1>3, <1>5, <1>6, <1>7, RelayStep

LEMMA TaskFacts ==
    ASSUME StreamInv, NEW s \in Socket
    PROVE  /\ socket[s] \in SocketState /\ SocketOK(socket[s], Told, hubs)
           /\ socket[s].cutoff <= output /\ Len(socket[s].heard) <= HubSize
           /\ socket[s].phase # "none" => s <= opened
<1>1. s > opened => socket[s] = NewSocket
  BY DEF StreamInv, SocketsOK
<1>2. socket[s].phase # "none" => s <= opened
  BY <1>1, TableFacts DEF NewSocket
<1>3. socket[s].cutoff <= output /\ Len(socket[s].heard) <= HubSize
  BY DEF StreamInv, StreamTypeOK
<1> QED  BY <1>2, <1>3, TableFacts DEF StreamInv, SocketsOK

\* A socket that has come to its end.
LEMMA EmptySocket ==
    ASSUME StreamInv, NEW phase \in {"done", "leaving"}
    PROVE  LET k == [NewSocket EXCEPT !.phase = phase]
           IN  /\ k \in SocketState /\ k.by = None /\ SocketOK(k, Told, hubs)
               /\ k.cutoff <= output /\ Len(k.heard) <= HubSize
<1> DEFINE k == [NewSocket EXCEPT !.phase = phase]
<1>1. k \in SocketState
  BY EmptyOf DEF NewSocket, SocketState
<1>2. /\ k.by = None /\ k.phase = phase /\ k.hub = 0 /\ k.heard = <<>> /\ k.stored = <<>>
      /\ k.cutoff = 0
  BY DEF NewSocket
<1> HIDE DEF k
<1>3. SocketOK(k, Told, hubs)
  BY <1>2, EmptyOf, TableFacts DEF SocketOK, Serving
<1>4. k.cutoff <= output /\ Len(k.heard) <= HubSize
  BY <1>2, TableFacts, StreamAssumption
<1> QED  BY <1>1, <1>2, <1>3, <1>4 DEF k

\* Messages that say nothing of what was accepted.
Quiet == Seq(Told) \intersect Seq(AcceptedUpTo(0))

LEMMA Said ==
    ASSUME StreamInv, NEW m \in Messages, m.is # "accepted",
           m.is = "output" => m.n <= output, m.is # "input", m.is = "ready" => m.n <= output /\ m.m <= nextInput,
           m.is = "control" => m.n <= MaxGrants
    PROVE  <<m>> \in Quiet
<1>1. m \in Told /\ m \in AcceptedUpTo(0)
  BY DEF Told, TrueOf, AcceptedUpTo
<1> QED  BY <1>1 DEF Quiet

LEMMA SubscribeStep ==
    ASSUME StreamInv, NEW s \in Socket, Subscribe(s) \/ ReadCutoff(s)
    PROVE  StreamInv'
<1>1. UNCHANGED <<clientVars, command, tableVars, hub, hubs, air, opened, up, down>>
  BY DEF Subscribe, ReadCutoff, relayRest
<1>2. PICK phase \in {"listening", "cut"}, n \in {socket[s].cutoff, output} :
        /\ socket' = [socket EXCEPT ![s] = [socket[s] EXCEPT !.phase = phase, !.cutoff = n]]
        /\ socket[s].phase \in {"accepted", "listening"}
  <2>1. socket \in [Socket -> SocketState] /\ socket[s] \in SocketState
    BY TableFacts
  <2>2. CASE Subscribe(s)
    <3>1. socket' = [socket EXCEPT ![s] = [socket[s] EXCEPT !.phase = "listening"]]
      BY <2>2 DEF Subscribe, Goes
    <3>2. [socket[s] EXCEPT !.phase = "listening"]
          = [socket[s] EXCEPT !.phase = "listening", !.cutoff = socket[s].cutoff]
      BY <2>1 DEF SocketState
    <3> QED  BY <2>2, <3>1, <3>2 DEF Subscribe
  <2>3. CASE ReadCutoff(s)
    <3>1. socket' = [socket EXCEPT ![s] = [socket[s] EXCEPT !.phase = "cut", !.cutoff = output]]
      BY <2>1, <2>3 DEF ReadCutoff
    <3> QED  BY <2>3, <3>1 DEF ReadCutoff
  <2> QED  BY <2>2, <2>3
<1> DEFINE k == [socket[s] EXCEPT !.phase = phase, !.cutoff = n]
<1>3. /\ k \in SocketState /\ k.by = socket[s].by /\ k.hub = socket[s].hub
      /\ k.heard = socket[s].heard /\ k.stored = socket[s].stored /\ k.cutoff = n
      /\ k.phase = phase
  BY TaskFacts, TableFacts DEF SocketState
<1> HIDE DEF k
<1>4. SocketOK(k, Told, hubs)
  BY <1>2, <1>3, TaskFacts DEF SocketOK, Serving
<1>5. k.cutoff <= output /\ Len(k.heard) <= HubSize /\ s <= opened
  BY <1>2, <1>3, TaskFacts, TableFacts
<1>6. <<>> \in Seq(Told) /\ <<>> \in Seq(AcceptedUpTo(0))
  BY EmptyOf
<1> QED  BY <1>1, <1>2, <1>3, <1>4, <1>5, <1>6, TaskStep DEF k

\* The replay, and what follows it on the way to the loop.
LEMMA ReplayStep ==
    ASSUME StreamInv, NEW s \in Socket, Replay(s) \/ SendControl(s)
    PROVE  StreamInv'
<1>1. /\ UNCHANGED <<clientVars, command, tableVars, hub, hubs, air, opened, up>>
      /\ socket[s].phase \in {"cut", "replayed"} /\ socket[s].by \in Side
  BY TaskFacts DEF Replay, SendControl, relayRest, SocketOK, Serving
<1>2. PICK q \in Quiet, phase \in {"replayed", "loop", "done"} : Goes(s, phase) /\ Deliver(s, q)
  <2>1. CASE Replay(s)
    <3> DEFINE c == socket[s]
               q == Outputs(c.after, c.cutoff)
               m == Message("ready", c.cutoff, nextInput)
    <3>1. CASE WindowCovers(c)
      <4>1. c.after \in Nat /\ c.cutoff \in Nat /\ c.cutoff <= output /\ c.after <= c.cutoff
        BY <3>1, TaskFacts DEF WindowCovers, SocketState
      <4>2. m \in Told /\ m \in AcceptedUpTo(0)
        <5>1. m \in Messages /\ m.is = "ready" /\ m.n = c.cutoff /\ m.m = nextInput
          BY <4>1, TableFacts DEF Message, Messages
        <5> HIDE DEF m, c
        <5> QED  BY <4>1, <5>1, TableFacts DEF Told, TrueOf, AcceptedUpTo
      <4>3. ASSUME NEW i \in 1..c.cutoff - c.after
            PROVE  /\ Message("output", c.after + i, 0) \in Told
                   /\ Message("output", c.after + i, 0) \in AcceptedUpTo(0)
        <5> HIDE DEF c
        <5>1. c.after + i \in Nat /\ c.after + i <= output
          <6>1. \A a, b, n \in Nat : b <= n /\ a <= b => \A j \in 1..b - a : a + j \in Nat /\ a + j <= n
            OBVIOUS
          <6>2. output \in Nat
            BY TableFacts
          <6> QED  BY <4>1, <6>1, <6>2
        <5> QED  BY <5>1 DEF Message, Messages, Told, TrueOf, AcceptedUpTo
      <4> HIDE DEF c, m
      <4>4. c.cutoff - c.after \in Nat
        BY <4>1
      <4>5. q \in Seq(Told) /\ q \in Seq(AcceptedUpTo(0))
        BY <4>3, <4>4, SeqDef DEF Outputs
      <4> HIDE DEF q
      <4>6. Append(q, m) \in Quiet
        BY <4>2, <4>5 DEF Quiet
      <4> QED  BY <2>1, <3>1, <4>6 DEF Replay, c, q, m
    <3>2. CASE ~WindowCovers(c)
      <4>1. Message("error", 0, 0) \in Told \intersect AcceptedUpTo(0)
            /\ Message("end", 0, 0) \in Told \intersect AcceptedUpTo(0)
        BY DEF Message, Messages, Told, TrueOf, AcceptedUpTo
      <4>2. <<Message("error", 0, 0), Message("end", 0, 0)>> \in Quiet
        BY <4>1 DEF Quiet
      <4> QED  BY <2>1, <3>2, <4>2 DEF Replay
    <3> QED  BY <3>1, <3>2
  <2>2. CASE SendControl(s)
    <3> DEFINE gen == IF lease > expired THEN lease ELSE 0
    <3>1. gen \in Nat /\ gen <= MaxGrants
      BY HostFacts, StreamAssumption
    <3> HIDE DEF gen
    <3>2. <<Control(gen)>> \in Quiet
      <4>1. /\ Control(gen) \in Messages /\ Control(gen).is = "control" /\ Control(gen).n = gen
        BY <3>1 DEF Control, Message, Messages
      <4> QED  BY <3>1, <4>1, Said
    <3> QED  BY <2>2, <3>2 DEF SendControl, gen
  <2> QED  BY <2>1, <2>2
<1>3. CASE phase = "done"
  <2>1. socket' = [socket EXCEPT ![s] = Done]
    BY <1>2, <1>3 DEF Goes
  <2> QED
    BY <1>1, <1>2, <2>1, TaskStep, TaskFacts, EmptySocket DEF Done, Quiet
<1>4. CASE phase # "done"
  <2> DEFINE k == [socket[s] EXCEPT !.phase = phase]
  <2>1. socket' = [socket EXCEPT ![s] = k]
    BY <1>2, <1>4 DEF Goes
  <2>2. /\ k \in SocketState /\ k.by = socket[s].by /\ k.hub = socket[s].hub
        /\ k.heard = socket[s].heard /\ k.stored = socket[s].stored
        /\ k.cutoff = socket[s].cutoff /\ k.phase = phase
    BY TaskFacts DEF SocketState
  <2> HIDE DEF k
  <2>3. SocketOK(k, Told, hubs)
    BY <1>1, <1>4, <2>2, TaskFacts DEF SocketOK, Serving
  <2> QED
    BY <1>1, <1>2, <2>1, <2>2, <2>3, TaskStep, TaskFacts DEF Quiet
<1> QED  BY <1>3, <1>4

LEMMA CommitStep ==
    ASSUME StreamInv, NEW s \in Socket, CommitOutput(s) \/ CommitInput(s)
    PROVE  StreamInv'
<1> DEFINE f == Head(up[s])
<1>1. /\ Serves(s) /\ up[s] # <<>> /\ up' = [up EXCEPT ![s] = Tail(@)]
      /\ UNCHANGED <<clientVars, command, lease, leaseGen, expired, hub, hubs, air, down, opened>>
  BY DEF CommitOutput, CommitInput
<1>2. f \in Frames /\ \A r \in Side : socket[s].by = r => f.seq < room[r].next
  <2>1. up[s] \in Seq(Frames) /\ f \in Frames
    BY <1>1, TableFacts, TailOf
  <2>2. ASSUME NEW r \in Side, socket[s].by = r
        PROVE  f \in SealedBefore(room[r].next)
    <3>1. up[s] \in Seq(SealedBefore(room[r].next))
      BY <2>2 DEF StreamInv, UpOK
    <3> QED  BY <1>1, <3>1, TailOf
  <2> QED  BY <2>1, <2>2 DEF SealedBefore
<1> HIDE DEF f
<1>3. PICK m \in Told' :
        /\ socket' = [socket EXCEPT ![s] = [socket[s] EXCEPT !.stored = <<m>>]]
        /\ m.is \in {"output", "input"}
        /\ socket[s].by = IF m.is = "output" THEN "host" ELSE "viewer"
        /\ output' \in output..MaxOutput /\ nextInput' \in nextInput..MaxInput + 1
        /\ output' < room["host"].next /\ nextInput' <= room["viewer"].next
        /\ kept' \in 1..output' + 1
  <2>1. /\ "host" \in Side /\ "viewer" \in Side /\ socket \in [Socket -> SocketState]
        /\ output \in Nat /\ nextInput \in Nat \ {0} /\ output \in 0..MaxOutput
        /\ nextInput \in 1..MaxInput + 1 /\ kept \in 1..output + 1
    BY TableFacts DEF Side, StreamInv, StreamTypeOK
  <2>2. /\ output < room["host"].next /\ nextInput <= room["viewer"].next
        /\ room["host"].next <= MaxOutput + 1 /\ room["viewer"].next <= MaxInput + 1
        /\ room["host"].next \in Nat /\ room["viewer"].next \in Nat
    BY <2>1, ClientFacts DEF Committed, MostOf, ClientState
  <2>3. CASE CommitOutput(s)
    <3> DEFINE m == Message("output", f.seq, 0)
    <3>1. /\ f.seq = output + 1 /\ output' = f.seq /\ nextInput' = nextInput
          /\ kept' \in kept..f.seq /\ socket[s].by = "host"
          /\ socket' = [socket EXCEPT ![s].stored = <<m>>]
      BY <2>3 DEF CommitOutput, f
    <3>2. f.seq \in Nat /\ f.seq < room["host"].next
      BY <1>2, <2>1, <3>1 DEF Frames
    <3>3. m \in Messages /\ m.is = "output" /\ m.n = f.seq
      BY <3>2 DEF Message, Messages
    <3> HIDE DEF m
    <3>4. m \in Told'
      BY <2>1, <3>1, <3>2, <3>3 DEF Told, TrueOf
    <3>5. /\ output' \in output..MaxOutput /\ nextInput' \in nextInput..MaxInput + 1
          /\ kept' \in 1..output' + 1
      BY <2>1, <2>2, <3>1, <3>2, StreamAssumption
    <3>6. socket' = [socket EXCEPT ![s] = [socket[s] EXCEPT !.stored = <<m>>]]
      BY <2>1, <3>1
    <3> QED  BY <2>2, <3>1, <3>2, <3>3, <3>4, <3>5, <3>6
  <2>4. CASE CommitInput(s)
    <3> DEFINE m == Message("input", f.seq, f.gen)
    <3>1. /\ f.seq = nextInput /\ nextInput' = nextInput + 1 /\ output' = output
          /\ kept' = kept /\ socket[s].by = "viewer"
          /\ socket' = [socket EXCEPT ![s].stored = <<m>>]
      BY <2>4 DEF CommitInput, f
    <3>2. f.seq \in Nat /\ f.seq < room["viewer"].next /\ f.gen \in Nat
      BY <1>2, <2>1, <3>1, StreamAssumption DEF Frames
    <3>3. m \in Messages /\ m.is = "input" /\ m.n = f.seq
      BY <3>2 DEF Message, Messages
    <3> HIDE DEF m
    <3>4. m \in Told'
      BY <2>1, <3>1, <3>2, <3>3 DEF Told, TrueOf
    <3>5. /\ output' \in output..MaxOutput /\ nextInput' \in nextInput..MaxInput + 1
          /\ kept' \in 1..output' + 1
      BY <2>1, <2>2, <3>1, <3>2, StreamAssumption
    <3>6. socket' = [socket EXCEPT ![s] = [socket[s] EXCEPT !.stored = <<m>>]]
      BY <2>1, <3>1
    <3>7. nextInput' <= room["viewer"].next
      BY <2>1, <2>2, <3>1, <3>2
    <3> QED  BY <2>2, <3>1, <3>2, <3>3, <3>4, <3>5, <3>6, <3>7
  <2> QED  BY <2>3, <2>4
<1>4. /\ output' \in Nat /\ nextInput' \in Nat /\ Grown /\ Seq(Told) \subseteq Seq(Told')
  <2>1. output' \in Nat /\ nextInput' \in Nat /\ Grown
    <3>1. MaxOutput \in Nat /\ MaxInput \in Nat /\ output \in Nat /\ nextInput \in Nat
      BY TableFacts, StreamAssumption
    <3>2. output' \in Nat /\ output <= output'
      BY <1>3, <3>1
    <3>3. nextInput' \in Nat /\ nextInput <= nextInput'
      BY <1>3, <3>1
    <3> QED  BY <3>2, <3>3 DEF Grown
  <2> QED  BY <2>1, ToldGrows
<1> DEFINE k == [socket[s] EXCEPT !.stored = <<m>>]
<1>5. <<m>> \in Seq(Told') /\ <<m>> \in Seq(Messages)
  BY DEF Told, TrueOf
<1>6. /\ k \in SocketState /\ k.by = socket[s].by /\ k.hub = socket[s].hub
      /\ k.heard = socket[s].heard /\ k.stored = <<m>>
      /\ k.cutoff = socket[s].cutoff /\ k.phase = socket[s].phase
  BY <1>5, TaskFacts DEF SocketState
<1>7. socket' = [socket EXCEPT ![s] = k]
  BY <1>3
<1> HIDE DEF k
<1>8. SocketOK(k, Told', hubs') /\ s <= opened
  <2>1. socket[s].heard \in Seq(Told')
    BY <1>4, TaskFacts DEF SocketOK
  <2> QED  BY <1>1, <1>3, <1>5, <1>6, <2>1, TaskFacts DEF SocketOK, Serves
<1>9. /\ SocketsOK' /\ socket' \in [Socket -> SocketState]
      /\ \A t \in Socket : socket'[t].by \in {socket[t].by, None}
  <2>1. opened' = opened /\ hubs' = hubs /\ hubs' \in Nat /\ hubs <= hubs'
    BY <1>1, TableFacts
  <2>2. k.by \in {socket[s].by, None}
    BY <1>6
  <2> QED  BY <1>4, <1>6, <1>7, <1>8, <2>1, <2>2, TaskChanges
<1>10. up' \in [Socket -> Seq(Frames)]
       /\ \A t \in Socket : up'[t] = up[t] \/ (up[t] # <<>> /\ up'[t] = Tail(up[t]))
  <2>1. up \in [Socket -> Seq(Frames)] /\ Tail(up[s]) \in Seq(Frames)
    BY <1>1, TableFacts, TailOf
  <2> QED  BY <1>1, <2>1
<1>11. DownOK'
  BY <1>1, <1>4, DownStays DEF clientVars
<1>12. StreamTypeOK'
  <2>1. ASSUME NEW t \in Socket
        PROVE  socket'[t].cutoff <= output' /\ Len(socket'[t].heard) <= HubSize
    <3>1. socket'[t].cutoff = socket[t].cutoff /\ socket'[t].heard = socket[t].heard
      BY <1>6, <1>7, TableFacts
    <3>2. socket[t].cutoff \in Nat /\ socket[t].cutoff <= output /\ output <= output'
      BY <1>4, TaskFacts DEF Grown, SocketState
    <3> QED  BY <1>4, <3>1, <3>2, TaskFacts, TableFacts
  <2>2. /\ output' \in 0..MaxOutput /\ nextInput' \in 1..MaxInput + 1 /\ kept' \in 1..output' + 1
        /\ hostInput' \in 1..nextInput'
    <3>1. hostInput' = hostInput /\ hostInput \in 1..nextInput /\ nextInput \in Nat /\ output \in Nat
      BY <1>1, HostFacts, TableFacts DEF clientVars
    <3>2. MaxOutput \in Nat /\ MaxInput \in Nat /\ nextInput >= 1
      BY <3>1, StreamAssumption
    <3> QED  BY <1>3, <3>1, <3>2
  <2> QED  BY <1>1, <1>9, <1>10, <2>1, <2>2 DEF StreamInv, StreamTypeOK, clientVars
<1>13. UNCHANGED <<room, opened>> /\ hub' <= hubs'
  BY <1>1, TableFacts DEF clientVars
<1> QED  BY <1>3, <1>4, <1>9, <1>10, <1>11, <1>12, <1>13, RelayStep

\* A task that sends to its client, forgets what it has read, or ends.
LEMMA ServingStep ==
    ASSUME StreamInv, NEW s \in Socket, RefuseFrame(s) \/ Forward(s)
    PROVE  StreamInv'
<1>1. /\ Serves(s) /\ UNCHANGED <<clientVars, command, tableVars, hub, hubs, air, opened>>
  BY DEF RefuseFrame, Forward, relayRest, relayVars
<1>2. s <= opened /\ socket[s].by \in Side
  BY <1>1, TaskFacts DEF Serves, SocketOK, Serving
<1>3. CASE RefuseFrame(s)
  <2>1. <<Message("error", 0, 0)>> \in Quiet
    BY Said DEF Message, Messages
  <2>2. socket' = [socket EXCEPT ![s] = socket[s]]
    BY <1>3, TableFacts DEF RefuseFrame, relayVars
  <2>3. /\ Deliver(s, <<Message("error", 0, 0)>>) /\ up[s] # <<>>
        /\ up' = [up EXCEPT ![s] = Tail(@)]
    BY <1>3 DEF RefuseFrame
  <2> QED  BY <1>1, <1>2, <2>1, <2>2, <2>3, TaskFacts, TaskStep DEF Quiet
<1>4. CASE Forward(s)
  <2> DEFINE m == Head(socket[s].heard)
             k == [socket[s] EXCEPT !.heard = Tail(@)]
             q == IF Passes(s, m) THEN <<m>> ELSE <<>>
  <2>1. /\ socket[s].heard # <<>> /\ Deliver(s, q) /\ up' = up
        /\ socket' = [socket EXCEPT ![s] = k]
    BY <1>4, TableFacts DEF Forward, relayRest
  <2>2. /\ socket[s].heard \in Seq(Told) /\ socket[s].heard \in Seq(Messages)
        /\ Len(socket[s].heard) \in Nat
    BY TaskFacts DEF SocketOK, SocketState
  <2>3. /\ Tail(socket[s].heard) \in Seq(Told) /\ Tail(socket[s].heard) \in Seq(Messages)
        /\ Len(Tail(socket[s].heard)) <= HubSize /\ m \in Told
    <3>1. Len(Tail(socket[s].heard)) = Len(socket[s].heard) - 1 /\ HubSize \in Nat
      BY <2>1, <2>2, StreamAssumption
    <3>2. Len(socket[s].heard) <= HubSize
      BY TaskFacts
    <3>3. Len(Tail(socket[s].heard)) <= HubSize
      BY <2>2, <3>1, <3>2
    <3> QED  BY <2>1, <2>2, <3>3, TailOf
  <2>4. /\ k \in SocketState /\ k.by = socket[s].by /\ k.hub = socket[s].hub
        /\ k.heard = Tail(socket[s].heard) /\ k.stored = socket[s].stored
        /\ k.cutoff = socket[s].cutoff /\ k.phase = socket[s].phase
    BY <2>3, TaskFacts DEF SocketState
  <2> HIDE DEF k
  <2>5. SocketOK(k, Told, hubs)
    <3>1. Tail(socket[s].heard) \in Seq(AcceptedUpTo(0))
      BY <2>1, TaskFacts, TailOf DEF SocketOK
    <3> QED  BY <1>1, <2>3, <2>4, <3>1, TaskFacts DEF SocketOK, Serves
  <2>6. q \in Seq(Told) /\ q \in Seq(AcceptedUpTo(0))
    <3>1. m \in AcceptedUpTo(0)
      BY <2>1, TaskFacts, TailOf DEF SocketOK
    <3> HIDE DEF m
    <3> QED  BY <2>3, <3>1, EmptyOf
  <2> HIDE DEF q, m
  <2> QED  BY <1>1, <1>2, <2>1, <2>3, <2>4, <2>5, <2>6, TaskFacts, TaskStep
<1> QED  BY <1>3, <1>4

LEMMA SocketEnds ==
    ASSUME StreamInv, NEW s \in Socket, Abandon(s) \/ EndSocket(s) \/ RemoveHub(s)
    PROVE  StreamInv'
<1>1. CASE Abandon(s) \/ EndSocket(s)
  <2>1. PICK phase \in {"done", "leaving"} : Gone(s, phase)
    BY <1>1 DEF Abandon, EndSocket
  <2> DEFINE k == [NewSocket EXCEPT !.phase = phase]
  <2>2. s <= opened /\ socket[s].by \in Side
    BY <1>1, TaskFacts DEF Abandon, EndSocket, Serves, SocketOK, Serving
  <2>3. <<Message("end", 0, 0)>> \in Quiet
    BY Said DEF Message, Messages
  <2>4. /\ socket' = [socket EXCEPT ![s] = k] /\ Deliver(s, <<Message("end", 0, 0)>>)
        /\ up' = [up EXCEPT ![s] = <<>>]
        /\ UNCHANGED <<clientVars, command, tableVars, hub, hubs, air, opened>>
    BY <2>1 DEF Gone
  <2>5. /\ k \in SocketState /\ k.by = None /\ SocketOK(k, Told, hubs)
        /\ k.cutoff <= output /\ Len(k.heard) <= HubSize
    BY EmptySocket
  <2> HIDE DEF k
  <2> QED  BY <2>2, <2>3, <2>4, <2>5, TaskStep DEF Quiet
<1>2. CASE RemoveHub(s)
  <2>1. /\ socket' = [socket EXCEPT ![s] = Done] /\ s <= opened /\ hub' = 0
        /\ UNCHANGED <<clientVars, command, tableVars, hubs, air, opened, up, down>>
    BY <1>2, TaskFacts DEF RemoveHub, Goes, relayRest
  <2>2. /\ Done \in SocketState /\ Done.by = None /\ SocketOK(Done, Told, hubs)
        /\ Done.cutoff <= output /\ Len(Done.heard) <= HubSize
    BY EmptySocket DEF Done
  <2>3. <<>> \in Seq(Told) /\ <<>> \in Seq(AcceptedUpTo(0))
    BY EmptyOf
  <2> QED  BY <2>1, <2>2, <2>3, TaskStep
<1> QED  BY <1>1, <1>2

\* The steps that only change leases.
LEMMA LeaseStep ==
    ASSUME StreamInv, GrantAtRelay \/ RevokeAtRelay \/ LeaseExpires
    PROVE  StreamInv'
<1>1. /\ UNCHANGED <<clientVars, output, kept, nextInput, relayVars, up, down, opened>>
      /\ {lease', leaseGen', expired'} \subseteq 0..MaxGrants /\ command' \in ControlState
  <2>1. {lease, leaseGen, expired} \subseteq 0..MaxGrants /\ 0 \in 0..MaxGrants /\ MaxGrants \in Nat
    BY HostFacts, StreamAssumption
  <2>2. CASE GrantAtRelay
    <3>1. leaseGen + 1 \in 0..MaxGrants
      BY <2>1, <2>2 DEF GrantAtRelay
    <3> QED  BY <2>1, <2>2, <3>1 DEF GrantAtRelay, commandRest, clientVars, ControlState
  <2>3. CASE RevokeAtRelay
    <3>1. command' \in ControlState
      BY <2>3, HostFacts DEF RevokeAtRelay, ControlState
    <3> QED  BY <2>1, <2>3, <3>1 DEF RevokeAtRelay, commandRest, clientVars
  <2>4. CASE LeaseExpires
    BY <2>1, <2>4, HostFacts DEF LeaseExpires
  <2> QED  BY <2>2, <2>3, <2>4
<1>2. StreamTypeOK'
  BY <1>1, HostFacts DEF StreamInv, StreamTypeOK, clientVars, relayVars
<1>3. /\ \A r \in Side : ClientOK(r)' /\ ConnOK(r)'
      /\ Told' = Told
  <2>1. \A r \in Side : Committed(r)' = Committed(r) /\ InRoom(r)' = InRoom(r)
    BY <1>1 DEF Committed, InRoom, clientVars
  <2> QED  BY <1>1, <2>1 DEF StreamInv, ClientOK, ConnOK, Told, clientVars, relayVars
<1>4. DownOK' /\ UpOK' /\ SocketsOK'
  <2>1. \A r \in Side : Committed(r)' = Committed(r)
    BY <1>1 DEF Committed
  <2> QED  BY <1>1, <1>3, <2>1 DEF StreamInv, DownOK, UpOK, SocketsOK, clientVars, relayVars
<1> QED  BY <1>1, <1>2, <1>3, <1>4 DEF StreamInv, clientVars, relayVars

\* What a receiver of the hub has after m.
LEMMA HeardKeeps ==
    ASSUME NEW S, NEW q \in Seq(S), NEW m \in S, Len(q) <= HubSize
    PROVE  Heard(q, m) \in Seq(S) /\ Len(Heard(q, m)) <= HubSize
<1>1. Len(q) \in Nat /\ HubSize \in Nat /\ HubSize > 0
  BY StreamAssumption
<1>2. CASE Len(q) = HubSize
  <2>1. q # <<>>
    BY <1>1, <1>2
  <2>2. Tail(q) \in Seq(S) /\ Len(Tail(q)) = Len(q) - 1
    BY <2>1
  <2>3. Append(Tail(q), m) \in Seq(S) /\ Len(Append(Tail(q), m)) = Len(q)
    BY <1>1, <2>2
  <2> QED  BY <1>2, <2>3 DEF Heard
<1>3. CASE Len(q) # HubSize
  BY <1>1, <1>3 DEF Heard
<1> QED  BY <1>2, <1>3

\* Whatever is sent to the hub, by a task or by a command.
LEMMA BroadcastStep ==
    ASSUME StreamInv, NEW m \in Told, m \in AcceptedUpTo(0),
           NEW sock \in [Socket -> SocketState], Broadcast(m, sock),
           \A t \in Socket :
               /\ SocketOK(sock[t], Told, hubs)
               /\ sock[t].cutoff = socket[t].cutoff /\ sock[t].heard = socket[t].heard
               /\ sock[t].by = socket[t].by /\ sock[t].phase = socket[t].phase
               /\ t > opened => sock[t] = NewSocket,
           DownOK', down' \in [Socket -> Seq(Messages)], command' \in ControlState,
           UNCHANGED <<clientVars, tableVars, up, opened>>
    PROVE  StreamInv'
<1> USE DEF clientVars, tableVars
<1>1. /\ Told' = Told /\ Grown /\ output' \in Nat /\ nextInput' \in Nat
  BY TableFacts DEF Told, Grown
<1>2. hubs' \in Nat /\ hubs <= hubs' /\ hub' \in Nat /\ hub' <= hubs'
  BY TableFacts DEF Broadcast
<1>3. ASSUME NEW t \in Socket
      PROVE  /\ socket'[t] \in SocketState /\ socket'[t].by = socket[t].by
             /\ socket'[t].cutoff = socket[t].cutoff /\ Len(socket'[t].heard) <= HubSize
             /\ SocketOK(socket'[t], Told, hubs') /\ (t > opened => socket'[t] = NewSocket)
  <2>1. /\ sock[t] \in SocketState /\ sock[t].hub \in Nat /\ sock[t].heard \in Seq(Messages)
        /\ Len(sock[t].heard) <= HubSize
    BY TaskFacts DEF SocketState
  <2>2. SocketOK(sock[t], Told, hubs')
    BY <1>2, <2>1, TableFacts DEF SocketOK
  <2>3. CASE socket'[t] = sock[t]
    BY <2>1, <2>2, <2>3
  <2>4. CASE Listens(t) /\ socket'[t] = [sock[t] EXCEPT !.heard = Heard(@, m)]
    <3> DEFINE k == [sock[t] EXCEPT !.heard = Heard(@, m)]
               h == Heard(sock[t].heard, m)
    <3>1. /\ h \in Seq(Told) /\ h \in Seq(AcceptedUpTo(0)) /\ h \in Seq(Messages)
          /\ Len(h) <= HubSize
      <4>1. m \in Messages
        BY DEF Told, TrueOf
      <4>2. sock[t].heard \in Seq(Told) /\ sock[t].heard \in Seq(AcceptedUpTo(0))
        BY <2>2 DEF SocketOK
      <4> QED  BY <2>1, <4>1, <4>2, HeardKeeps
    <3> HIDE DEF h
    <3>2. k = [sock[t] EXCEPT !.heard = h]
      BY DEF h
    <3> HIDE DEF k
    <3>3. /\ k \in SocketState /\ k.by = sock[t].by /\ k.hub = sock[t].hub
          /\ k.heard = h /\ k.stored = sock[t].stored
          /\ k.cutoff = sock[t].cutoff /\ k.phase = sock[t].phase
      BY <2>1, <3>1, <3>2 DEF SocketState
    <3>4. SocketOK(k, Told, hubs')
      BY <2>2, <2>4, <3>1, <3>3 DEF SocketOK, Listens
    <3>5. ~(t > opened)
      <4>1. t <= opened
        BY <2>4, TaskFacts DEF Listens
      <4> QED  BY <4>1, TableFacts
    <3> QED  BY <2>4, <3>1, <3>3, <3>4, <3>5 DEF k
  <2>5. socket'[t] = sock[t] \/ (Listens(t) /\ socket'[t] = [sock[t] EXCEPT !.heard = Heard(@, m)])
    BY DEF Broadcast
  <2> QED  BY <2>3, <2>4, <2>5
<1>4. socket' \in [Socket -> SocketState]
  <2>1. socket' = [t \in Socket |-> socket'[t]]
    BY DEF Broadcast
  <2> QED  BY <1>3, <2>1
<1>5. SocketsOK'
  BY <1>1, <1>3 DEF SocketsOK
<1>6. air' \in [top : Nat, bad : BOOLEAN]
  <2>1. m.n \in Nat /\ air.top \in Nat /\ air.bad \in BOOLEAN
    BY TableFacts DEF Told, TrueOf, Messages
  <2>2. LosesOutput(m) \in BOOLEAN
    BY DEF LosesOutput
  <2>3. CASE m.is = "output"
    <3>1. air' = [top |-> IF m.n > air.top THEN m.n ELSE air.top,
                  bad |-> air.bad \/ m.n # air.top + 1 \/ LosesOutput(m)]
      BY <2>3 DEF Broadcast
    <3> QED  BY <2>1, <2>2, <3>1
  <2>4. CASE m.is # "output"
    <3>1. air' = [air EXCEPT !.bad = air.bad \/ LosesOutput(m)]
      BY <2>4 DEF Broadcast
    <3>2. (air.bad \/ LosesOutput(m)) \in BOOLEAN
      OBVIOUS
    <3> QED  BY <3>1, <3>2, TableFacts
  <2> QED  BY <2>3, <2>4
<1>7. StreamTypeOK'
  <2>1. \A t \in Socket : socket'[t].cutoff <= output' /\ Len(socket'[t].heard) <= HubSize
    BY <1>3, TaskFacts
  <2> QED  BY <1>2, <1>4, <1>6, <2>1 DEF StreamInv, StreamTypeOK
<1>8. output' < room["host"].next /\ nextInput' <= room["viewer"].next
  <2>1. "host" \in Side /\ "viewer" \in Side
    BY DEF Side
  <2>2. /\ output < room["host"].next /\ nextInput - 1 < room["viewer"].next
        /\ room["viewer"].next \in Nat /\ nextInput \in Nat
    BY <2>1, ClientFacts, TableFacts DEF Committed, ClientState
  <2> QED  BY <2>2
<1> QED  BY <1>1, <1>2, <1>3, <1>5, <1>7, <1>8, RelayStep

LEMMA AirControlStep ==
    ASSUME StreamInv, AirControl
    PROVE  StreamInv'
<1> DEFINE m == Control(IF command.at = "granted" THEN command.gen ELSE 0)
<1>1. /\ Broadcast(m, socket) /\ UNCHANGED <<commandRest, hostLease, hostGen, lease, leaseGen, expired, down>>
      /\ command' \in ControlState
  <2>1. command' \in ControlState
    BY HostFacts DEF AirControl, ControlState
  <2> QED  BY <2>1 DEF AirControl
<1>2. m \in Told /\ m \in AcceptedUpTo(0)
  <2>1. command.gen \in 0..MaxGrants /\ MaxGrants \in Nat
    BY HostFacts, StreamAssumption DEF ControlState
  <2> QED  BY <2>1 DEF Control, Message, Told, TrueOf, AcceptedUpTo, Messages
<1>3. DownOK' /\ down' \in [Socket -> Seq(Messages)]
  <2>1. /\ UNCHANGED <<room, opened, down>> /\ output' \in Nat /\ nextInput' \in Nat /\ Grown
    BY <1>1, TableFacts DEF commandRest, Grown
  <2> QED  BY <2>1, DownStays, TableFacts
<1>4. UNCHANGED <<clientVars, tableVars, up, opened>>
  BY <1>1 DEF clientVars, tableVars, commandRest
<1>5. \A t \in Socket : SocketOK(socket[t], Told, hubs) /\ (t > opened => socket[t] = NewSocket)
  BY DEF StreamInv, SocketsOK
<1> HIDE DEF m
<1> QED  BY <1>1, <1>2, <1>3, <1>4, <1>5, TableFacts, BroadcastStep

LEMMA AirFrameStep ==
    ASSUME StreamInv, NEW s \in Socket, AirFrame(s)
    PROVE  StreamInv'
<1> DEFINE m == socket[s].stored[1]
           k == [socket[s] EXCEPT !.stored = <<>>]
           sock == [socket EXCEPT ![s] = k]
<1>1. /\ socket[s].stored # <<>> /\ Broadcast(m, sock) /\ Deliver(s, <<Message("accepted", m.n, 0)>>)
      /\ UNCHANGED <<clientVars, command, up, opened, tableVars>>
  <2>1. [socket EXCEPT ![s].stored = <<>>] = sock
    BY TableFacts
  <2> QED  BY <2>1 DEF AirFrame, relayRest
<1>2. /\ m \in Told /\ m.is \in {"output", "input"} /\ m.n \in Nat
      /\ socket[s].by = (IF m.is = "output" THEN "host" ELSE "viewer")
      /\ m \in AcceptedUpTo(0)
  <2>1. socket[s].stored \in Seq(Told) /\ 1 \in 1..Len(socket[s].stored)
    BY <1>1, TaskFacts DEF SocketOK
  <2>2. m \in Told
    BY <2>1
  <2> QED  BY <1>1, <2>2, TaskFacts DEF SocketOK, Told, TrueOf, Messages, AcceptedUpTo
<1>3. socket[s].by \in Side /\ s <= opened
  <2>1. socket[s].by \in Side
    BY <1>2 DEF Side
  <2>2. s > opened => socket[s] = NewSocket
    BY DEF StreamInv, SocketsOK
  <2>3. ~(s > opened)
    BY <1>1, <2>2 DEF NewSocket
  <2> QED  BY <2>1, <2>3, TableFacts
<1>4. DownOK' /\ down' \in [Socket -> Seq(Messages)]
  <2> DEFINE a == Message("accepted", m.n, 0)
  <2>1. a \in Messages /\ a.is = "accepted" /\ a.n = m.n
    BY <1>2 DEF Message, Messages
  <2>2. ASSUME NEW r \in Side, socket[s].by = r
        PROVE  m.n <= Committed(r)
    BY <1>2, <2>2, TableFacts DEF Told, TrueOf, Committed
  <2> HIDE DEF a, m
  <2>3. a \in Told /\ \A r \in Side : socket[s].by = r => a \in AcceptedUpTo(Committed(r))
    BY <2>1, <2>2 DEF Told, TrueOf, AcceptedUpTo
  <2>4. <<a>> \in Seq(Told) /\ \A r \in Side : socket[s].by = r => <<a>> \in Seq(AcceptedUpTo(Committed(r)))
    BY <2>3
  <2> QED  BY <1>1, <1>3, <2>4, Delivers DEF a, clientVars, tableVars
<1>5. /\ k \in SocketState /\ k.by = socket[s].by /\ k.hub = socket[s].hub
      /\ k.heard = socket[s].heard /\ k.stored = <<>>
      /\ k.cutoff = socket[s].cutoff /\ k.phase = socket[s].phase
  BY EmptyOf, TaskFacts DEF SocketState
<1> HIDE DEF k, m
<1>6. SocketOK(k, Told, hubs)
  BY <1>5, EmptyOf, TaskFacts DEF SocketOK
<1>7. /\ sock \in [Socket -> SocketState] /\ sock[s] = k
      /\ \A t \in Socket : t # s => sock[t] = socket[t]
  BY <1>5, TableFacts
<1> HIDE DEF sock
<1>8. ASSUME NEW t \in Socket
      PROVE  /\ SocketOK(sock[t], Told, hubs)
             /\ sock[t].cutoff = socket[t].cutoff /\ sock[t].heard = socket[t].heard
             /\ sock[t].by = socket[t].by /\ sock[t].phase = socket[t].phase
             /\ t > opened => sock[t] = NewSocket
  <2>1. CASE t = s
    <3>1. ~(t > opened)
      BY <1>3, <2>1, TableFacts
    <3> QED  BY <1>5, <1>6, <1>7, <2>1, <3>1
  <2>2. CASE t # s
    BY <1>7, <2>2 DEF StreamInv, SocketsOK
  <2> QED  BY <2>1, <2>2
<1>9. command' \in ControlState
  BY <1>1, HostFacts
<1> QED  BY <1>1, <1>2, <1>4, <1>7, <1>8, <1>9, BroadcastStep

LEMMA ConnectStep ==
    ASSUME StreamInv, NEW r \in Side, Connect(r)
    PROVE  StreamInv'
<1> DEFINE s == opened + 1
           c == [room[r] EXCEPT !.conn = s, !.ready = FALSE]
           k == [NewSocket EXCEPT !.by = r, !.phase = "accepted", !.hub = hub', !.after = room[r].last]
<1>1. /\ opened' = s /\ s \in Socket /\ s \in Nat /\ s > opened /\ opened \in Nat /\ s <= MaxSockets
      /\ \A t \in Socket : t \in Nat /\ (t > s => t > opened) /\ (t # s /\ t > opened => t > s)
  <2>1. opened \in Nat /\ MaxSockets \in Nat /\ opened < MaxSockets /\ opened' = s
    BY TableFacts, StreamAssumption DEF Connect
  <2>2. \A t \in Socket : t \in Nat
    BY DEF Socket
  <2>3. s \in Socket
    BY <2>1 DEF Socket
  <2> QED  BY <2>1, <2>2, <2>3
<1>2. /\ hub' \in Nat /\ hubs' \in Nat /\ hubs <= hubs' /\ hub' <= hubs' /\ hub' > 0
  BY TableFacts DEF Connect
<1>3. /\ room' = [room EXCEPT ![r] = c] /\ socket' = [socket EXCEPT ![s] = k]
      /\ room[r].status \in {"connecting", "reconnecting"}
      /\ UNCHANGED <<hostLease, hostGen, hostInput, command, tableVars, up, down, air>>
  BY <1>1, TableFacts DEF Connect
<1>4. /\ c \in ClientState /\ c.conn = s /\ c.next = room[r].next /\ c.pending = room[r].pending
      /\ c.last = room[r].last /\ c.status = room[r].status
  BY <1>1, ClientFacts DEF ClientState
<1>5. /\ k \in SocketState /\ k.by = r /\ k.hub = hub' /\ k.heard = <<>> /\ k.stored = <<>>
      /\ k.cutoff = 0 /\ k.phase = "accepted"
  BY <1>2, EmptyOf, ClientFacts DEF NewSocket, SocketState, ClientState
<1> HIDE DEF c, k, s
<1>6. /\ room' \in [Side -> ClientState] /\ room'[r] = c
      /\ \A q \in Side : q # r => room'[q] = room[q]
      /\ socket' \in [Socket -> SocketState] /\ socket'[s] = k
      /\ \A t \in Socket : t # s => socket'[t] = socket[t]
  BY <1>1, <1>3, <1>4, <1>5, TableFacts
<1>7. Told' = Told /\ \A q \in Side : Committed(q)' = Committed(q)
  BY <1>3 DEF Told, Committed, tableVars
<1>8. ASSUME NEW q \in Side
      PROVE  ClientOK(q)'
  <2>1. CASE q = r
    BY <1>3, <1>4, <1>6, <1>7, <2>1, ClientFacts DEF ClientOK, InRoom
  <2>2. CASE q # r
    BY <1>6, <1>7, <2>2 DEF StreamInv, ClientOK, InRoom
  <2> QED  BY <2>1, <2>2
<1>9. ASSUME NEW q \in Side, NEW t \in Socket, room'[q].conn = t
      PROVE  t <= opened' /\ socket'[t].by \in {q, None} /\ (t = s \/ room[q].conn = t)
  <2>1. CASE q = r
    BY <1>1, <1>4, <1>5, <1>6, <1>9, <2>1
  <2>2. CASE q # r
    <3>1. room[q].conn = t
      BY <1>6, <1>9, <2>2
    <3>2. ConnOK(q)
      BY DEF StreamInv
    <3>3. t <= opened /\ socket[t].by \in {q, None}
      BY <3>1, <3>2 DEF ConnOK
    <3>4. t # s /\ t <= opened'
      BY <1>1, <3>3
    <3> QED  BY <1>6, <3>1, <3>3, <3>4
  <2> QED  BY <2>1, <2>2
<1>10. \A q \in Side : ConnOK(q)'
  BY <1>9 DEF ConnOK
<1>11. down[s] = <<>> /\ up[s] = <<>> /\ down' = down /\ up' = up
  BY <1>1, <1>3 DEF StreamInv, DownOK, UpOK
<1>12. DownOK'
  <2>1. ASSUME NEW t \in Socket
        PROVE  down[t] \in Seq(Told) /\ (t > s => down[t] = <<>>)
    BY <1>1 DEF StreamInv, DownOK
  <2>2. ASSUME NEW t \in Socket, NEW q \in Side, room'[q].conn = t
        PROVE  down[t] \in Seq(AcceptedUpTo(Committed(q)))
    <3>1. CASE t = s
      BY <1>11, <3>1, EmptyOf
    <3>2. CASE t # s
      <4>1. room[q].conn = t
        BY <1>9, <2>2, <3>2
      <4> QED  BY <4>1 DEF StreamInv, DownOK
    <3> QED  BY <3>1, <3>2
  <2> QED  BY <1>1, <1>7, <1>11, <2>1, <2>2 DEF DownOK
<1>13. UpOK'
  <2>1. ASSUME NEW q \in Side
        PROVE  room'[q].next = room[q].next
    BY <1>4, <1>6
  <2>2. ASSUME NEW t \in Socket, NEW q \in Side, socket'[t].by = q
        PROVE  up[t] \in Seq(SealedBefore(room[q].next))
    <3>1. CASE t = s
      BY <1>11, <3>1, EmptyOf
    <3>2. CASE t # s
      <4>1. socket[t].by = q
        BY <1>6, <2>2, <3>2
      <4> QED  BY <4>1 DEF StreamInv, UpOK
    <3> QED  BY <3>1, <3>2
  <2>3. ASSUME NEW t \in Socket, t > s
        PROVE  up[t] = <<>>
    BY <1>1, <2>3 DEF StreamInv, UpOK
  <2> QED  BY <1>1, <1>11, <2>1, <2>2, <2>3 DEF UpOK
<1>14. SocketsOK'
  <2>1. ASSUME NEW t \in Socket
        PROVE  SocketOK(socket'[t], Told, hubs') /\ (t > s => socket'[t] = NewSocket)
    <3>1. CASE t = s
      <4>1. SocketOK(k, Told, hubs')
        BY <1>2, <1>5, EmptyOf DEF SocketOK, Serving
      <4> QED  BY <1>1, <1>6, <3>1, <4>1
    <3>2. CASE t # s
      <4>1. SocketOK(socket[t], Told, hubs) /\ (t > opened => socket[t] = NewSocket) /\ socket[t].hub \in Nat
        BY TableFacts DEF StreamInv, SocketsOK, SocketState
      <4>2. SocketOK(socket[t], Told, hubs')
        BY <1>2, <4>1, TableFacts DEF SocketOK
      <4> QED  BY <1>1, <1>6, <3>2, <4>1, <4>2
    <3> QED  BY <3>1, <3>2
  <2> QED  BY <1>1, <1>7, <2>1 DEF SocketsOK
<1>15. StreamTypeOK'
  <2>1. ASSUME NEW t \in Socket
        PROVE  socket'[t].cutoff <= output /\ Len(socket'[t].heard) <= HubSize
    <3>1. CASE t = s
      BY <1>5, <1>6, <3>1, TableFacts, StreamAssumption
    <3>2. CASE t # s
      BY <1>6, <3>2, TaskFacts
    <3> QED  BY <3>1, <3>2
  <2>2. opened' \in 0..MaxSockets
    BY <1>1, StreamAssumption
  <2> QED  BY <1>2, <1>3, <1>6, <2>1, <2>2 DEF StreamInv, StreamTypeOK, tableVars
<1>16. room'["viewer"].last <= output'
  <2>1. room'["viewer"].last = room["viewer"].last /\ output' = output
    BY <1>3, <1>4, <1>6 DEF Side, tableVars
  <2> QED  BY <2>1 DEF StreamInv
<1> QED  BY <1>2, <1>8, <1>10, <1>12, <1>13, <1>14, <1>15, <1>16 DEF StreamInv

(***************************************************************************)
(* Theorems.                                                               *)
(***************************************************************************)
LEMMA StreamStep == StreamInv /\ [StreamNext]_streamState => StreamInv'
<1> SUFFICES ASSUME StreamInv, [StreamNext]_streamState
             PROVE  StreamInv'
  OBVIOUS
<1>1. CASE UNCHANGED streamState
  <2>1. /\ UNCHANGED <<room, hostLease, hostGen, hostInput, command, output, kept, nextInput, lease>>
        /\ UNCHANGED <<leaseGen, expired, hub, hubs, socket, up, down, opened, air>>
    BY <1>1 DEF streamState
  <2>2. StreamTypeOK'
    BY <2>1 DEF StreamInv, StreamTypeOK
  <2>3. \A r \in Side : ClientOK(r)' /\ ConnOK(r)'
    BY <2>1 DEF StreamInv, ClientOK, ConnOK, Committed, InRoom
  <2>4. DownOK' /\ UpOK' /\ SocketsOK'
    <3>1. Told' = Told /\ \A r \in Side : Committed(r)' = Committed(r)
      BY <2>1 DEF Told, Committed
    <3> QED  BY <2>1, <3>1 DEF StreamInv, DownOK, UpOK, SocketsOK
  <2> QED  BY <2>1, <2>2, <2>3, <2>4 DEF StreamInv
<1>2. ASSUME NEW r \in Side,
             \/ Connect(r) \/ Reconnect(r) \/ Publish(r)
             \/ ReceiveReady(r) \/ ReceiveAccepted(r) \/ ReceiveOutput(r) \/ ReceiveControl(r)
             \/ ReceiveError(r) \/ ReceiveEnd(r)
      PROVE  StreamInv'
  BY <1>2, ConnectStep, ReconnectStep, PublishStep, ReadyStep, AcceptedStep, OutputStep,
     ControlStep, EndingStep
<1>3. ASSUME NEW s \in Socket,
             \/ Subscribe(s) \/ ReadCutoff(s) \/ Replay(s) \/ SendControl(s)
             \/ CommitOutput(s) \/ CommitInput(s) \/ RefuseFrame(s) \/ AirFrame(s) \/ Forward(s)
             \/ Abandon(s) \/ EndSocket(s) \/ RemoveHub(s)
      PROVE  StreamInv'
  BY <1>3, SubscribeStep, ReplayStep, CommitStep, ServingStep, AirFrameStep, SocketEnds
<1> QED
  BY <1>1, <1>2, <1>3, InputStep, LeaseStep, AirControlStep, ApplyStep DEF StreamNext

LEMMA StreamInit == StreamRoomInit => StreamInv
<1> SUFFICES ASSUME StreamRoomInit
             PROVE  StreamInv
  OBVIOUS
<1>1. /\ <<>> \in Seq(Frames) /\ <<>> \in Seq(Messages) /\ <<>> \in Seq(Told) /\ 0 \in 0..MaxGrants
      /\ \A n : <<>> \in Seq(AcceptedUpTo(n)) /\ <<>> \in Seq(SealedBefore(n))
      /\ {MaxSockets, MaxOutput, MaxInput, MaxGrants, HubSize} \subseteq Nat
  BY EmptyOf, StreamAssumption
<1>2. /\ NewSocket \in SocketState /\ NewSocket.cutoff = 0 /\ NewSocket.heard = <<>>
      /\ NewSocket.stored = <<>> /\ NewSocket.hub = 0 /\ NewSocket.phase = "none" /\ NewSocket.by = None
  BY <1>1 DEF NewSocket, SocketState
<1>3. \A r \in Side :
        /\ room[r] \in ClientState /\ room[r].conn = None /\ room[r].status = "connecting"
        /\ room[r].pending = <<>> /\ room[r].next = 1 /\ room[r].last = 0
  BY <1>1 DEF StreamRoomInit, ClientState
<1>4. /\ output = 0 /\ nextInput = 1 /\ kept = 1 /\ hostInput = 1 /\ opened = 0 /\ hub = 0 /\ hubs = 0
      /\ \A s \in Socket : socket[s] = NewSocket /\ up[s] = <<>> /\ down[s] = <<>>
  BY DEF StreamRoomInit
<1>5. StreamTypeOK
  <2>1. room \in [Side -> ClientState] /\ socket \in [Socket -> SocketState]
    <3>1. room = [r \in Side |-> room[r]] /\ socket = [s \in Socket |-> socket[s]]
      BY DEF StreamRoomInit
    <3> QED  BY <1>2, <1>3, <1>4, <3>1
  <2>2. up \in [Socket -> Seq(Frames)] /\ down \in [Socket -> Seq(Messages)]
    BY <1>1 DEF StreamRoomInit
  <2>3. command \in ControlState /\ air \in [top : Nat, bad : BOOLEAN]
    BY <1>1 DEF StreamRoomInit, ControlState
  <2>4. {hostLease, hostGen, lease, leaseGen, expired} \subseteq 0..MaxGrants
    BY <1>1 DEF StreamRoomInit
  <2>5. \A s \in Socket : socket[s].cutoff <= output /\ Len(socket[s].heard) <= HubSize
    BY <1>1, <1>2, <1>4
  <2> QED  BY <1>1, <1>4, <2>1, <2>2, <2>3, <2>4, <2>5 DEF StreamTypeOK
<1>6. ASSUME NEW r \in Side
      PROVE  ClientOK(r) /\ ConnOK(r)
  <2>1. Committed(r) = 0 /\ MostOf(r) \in Nat
    BY <1>1, <1>4 DEF Committed, MostOf
  <2> QED  BY <1>3, <2>1, NoneIsNoSocket DEF ClientOK, ConnOK, Contiguous, InRoom
<1>7. DownOK /\ UpOK
  BY <1>1, <1>2, <1>3, <1>4 DEF DownOK, UpOK
<1>8. SocketsOK
  <2>1. SocketOK(NewSocket, Told, 0)
    BY <1>1, <1>2 DEF SocketOK, Serving
  <2> QED  BY <1>4, <2>1 DEF SocketsOK
<1> QED  BY <1>3, <1>4, <1>5, <1>6, <1>7, <1>8 DEF StreamInv, Side

\* What is under way, in an outbox or with a task of the relay agrees with the tables,
\* whatever connections break and whoever reconnects.
THEOREM StreamInvHolds == StreamRoomSpec => []StreamInv
BY StreamInit, StreamStep, PTL DEF StreamRoomSpec

(***************************************************************************)
(* Both directions are ordered streams.                                    *)
(***************************************************************************)
\* r becomes c and takes a message that is no output, if it stays.
TakesNoOutput(r, c) ==
    /\ room' = [room EXCEPT ![r] = c] /\ c.next = room[r].next
    /\ r = "viewer" => c.last = room[r].last
    /\ c.conn \in {room[r].conn, None} /\ c.why \in {room[r].why} \union {"gap", "lease", "sequence", "shell", "control", "refused"}
    /\ down' = [down EXCEPT ![room[r].conn] = IF c.conn = None THEN <<>> ELSE Tail(@)]
    /\ c.conn # None => down[c.conn] # <<>> /\ Head(down[c.conn]).is # "output"

LEMMA FailsTakesNone ==
    ASSUME StreamInv, NEW r \in Side, NEW is, Arrives(r, is), Taken(r), NEW why, Fails(r, why),
           why \in {"gap", "lease", "sequence", "shell", "control", "refused"}
    PROVE  TakesNoOutput(r, FailedWith(room[r], why))
<1>1. room \in [Side -> ClientState] /\ room[r] \in ClientState
  BY TableFacts
<1> DEFINE c == FailedWith(room[r], why)
<1>2. c.next = room[r].next /\ c.last = room[r].last /\ c.conn = None /\ c.why = why
  BY <1>1 DEF FailedWith, Disconnected, ClientState
<1>3. room' = [room EXCEPT ![r] = c]
  BY DEF Fails
<1> HIDE DEF c
<1>4. room'[r] = c
  BY <1>1, <1>3
<1>5. down' = [down EXCEPT ![room[r].conn] = IF c.conn = None THEN <<>> ELSE Tail(@)]
  BY <1>4 DEF Taken
<1> QED  BY <1>2, <1>3, <1>5 DEF TakesNoOutput, c

LEMMA TakingSame ==
    ASSUME StreamInv, NEW r \in Side, NEW is, Arrives(r, is), is # "output", Taken(r), NEW c \in ClientState,
           room' = [room EXCEPT ![r] = c], c.next = room[r].next, r = "viewer" => c.last = room[r].last,
           c.conn \in {room[r].conn, None}, c.why = room[r].why
    PROVE  TakesNoOutput(r, c)
<1>1. room'[r] = c
  BY TableFacts
<1>2. down' = [down EXCEPT ![room[r].conn] = IF c.conn = None THEN <<>> ELSE Tail(@)]
  BY <1>1 DEF Taken
<1>3. down[room[r].conn] # <<>> /\ Head(down[room[r].conn]).is # "output"
  BY DEF Arrives
<1> QED  BY <1>2, <1>3 DEF TakesNoOutput

LEMMA ClientGoesOn ==
    ASSUME StreamInv, NEW r \in Side,
           \/ Reconnect(r) \/ ReceiveReady(r) \/ ReceiveAccepted(r) \/ ReceiveControl(r)
           \/ ReceiveError(r) \/ ReceiveEnd(r)
    PROVE  /\ UNCHANGED <<hostInput, tableVars, relayVars, opened>>
           /\ \E c : TakesNoOutput(r, c)
<1>1. room \in [Side -> ClientState] /\ room[r] \in ClientState
  BY TableFacts
<1>2. CASE Reconnect(r)
  <2> DEFINE c == Disconnected(room[r], "reconnecting")
  <2>1. c.next = room[r].next /\ c.last = room[r].last /\ c.conn = None /\ c.why = room[r].why
    BY <1>1 DEF Disconnected, ClientState
  <2>2. room' = [room EXCEPT ![r] = c] /\ down' = [down EXCEPT ![room[r].conn] = <<>>]
        /\ UNCHANGED <<hostInput, tableVars, relayVars, opened>>
    BY <1>2 DEF Reconnect
  <2> HIDE DEF c
  <2> QED  BY <2>1, <2>2 DEF TakesNoOutput
<1>3. CASE ReceiveReady(r)
  <2>1. PICK left, last :
          \/ Fails(r, "gap")
          \/ LET c == [room[r] EXCEPT !.pending = left, !.ready = TRUE, !.status = "online", !.last = last]
             IN  room' = [room EXCEPT ![r] = c] /\ (r = "viewer" => last = room[r].last)
                 /\ left \in Seq(Frames) /\ last \in Nat
    <3> DEFINE expected == IF r = "host" THEN Arriving(r).n + 1 ELSE Arriving(r).m
               left == Unconfirmed(OutboxOf(r), expected)
               last == IF r = "host" /\ room[r].last < Arriving(r).n THEN Arriving(r).n ELSE room[r].last
               c == [room[r] EXCEPT !.pending = left, !.ready = TRUE, !.status = "online", !.last = last]
    <3>1. Fails(r, "gap") \/ room' = [room EXCEPT ![r] = c]
      BY <1>3 DEF ReceiveReady
    <3>2. Arriving(r).n \in Nat /\ Arriving(r).m \in Nat
      BY <1>3, ArrivingIsTrue DEF ReceiveReady, Told, TrueOf, Messages
    <3>3. expected \in Nat /\ last \in Nat /\ (r = "viewer" => last = room[r].last)
      BY <1>1, <3>2 DEF ClientState
    <3> HIDE DEF expected, last
    <3>4. left \in Seq(Frames)
      BY <3>3, ClientFacts, OutboxLeft DEF OutboxOf, ClientState
    <3> HIDE DEF left
    <3> QED  BY <3>1, <3>3, <3>4
  <2>2. Arrives(r, "ready") /\ Taken(r) /\ UNCHANGED hostInput
    BY <1>3 DEF ReceiveReady
  <2>3. CASE Fails(r, "gap")
    BY <2>2, <2>3, FailsTakesNone DEF Taken
  <2>4. CASE ~Fails(r, "gap")
    <3> DEFINE c == [room[r] EXCEPT !.pending = left, !.ready = TRUE, !.status = "online", !.last = last]
    <3>1. /\ c \in ClientState /\ c.next = room[r].next /\ c.conn = room[r].conn /\ c.why = room[r].why
          /\ (r = "viewer" => c.last = room[r].last) /\ room' = [room EXCEPT ![r] = c]
      BY <1>1, <2>1, <2>4 DEF ClientState
    <3> HIDE DEF c
    <3> QED  BY <2>2, <3>1, TakingSame DEF Taken
  <2> QED  BY <2>3, <2>4
<1>4. CASE ReceiveAccepted(r)
  <2>1. Arrives(r, "accepted") /\ Taken(r) /\ UNCHANGED hostInput
    BY <1>4 DEF ReceiveAccepted
  <2>2. CASE room' = room
    <3>1. room' = [room EXCEPT ![r] = room[r]]
      BY <1>1, <2>2
    <3> QED  BY <1>1, <2>1, <3>1, TakingSame DEF Taken
  <2>3. CASE room' # room
    <3> DEFINE last == IF r = "host" /\ room[r].last < Arriving(r).n THEN Arriving(r).n ELSE room[r].last
               c == [room[r] EXCEPT !.pending = Tail(@), !.last = last]
    <3>1. room' = [room EXCEPT ![r] = c] /\ Acknowledges(r)
      BY <1>4, <2>3 DEF ReceiveAccepted
    <3>2. Tail(room[r].pending) \in Seq(Frames)
      BY <1>1, <3>1, TailOf DEF Acknowledges, OutboxOf, ClientState
    <3>3. last \in Nat /\ (r = "viewer" => last = room[r].last)
      BY <1>1, <2>1, ArrivingIsTrue DEF Told, TrueOf, Messages, ClientState
    <3> HIDE DEF last
    <3>4. /\ c \in ClientState /\ c.next = room[r].next /\ c.conn = room[r].conn /\ c.why = room[r].why
          /\ c.last = last
      BY <1>1, <3>2, <3>3 DEF ClientState
    <3> HIDE DEF c
    <3> QED  BY <2>1, <3>1, <3>3, <3>4, TakingSame DEF Taken
  <2> QED  BY <2>2, <2>3
<1>5. CASE ReceiveControl(r)
  <2>1. Arrives(r, "control") /\ Taken(r) /\ UNCHANGED hostInput
    BY <1>5 DEF ReceiveControl
  <2>2. CASE Fails(r, "control")
    BY <2>1, <2>2, FailsTakesNone DEF Taken
  <2>3. CASE ~Fails(r, "control")
    <3>1. PICK gen : room' = [room EXCEPT ![r] = [room[r] EXCEPT !.lease = gen]] /\ gen \in 0..MaxGrants
      <4> DEFINE gen == IF Arriving(r).n > expired THEN Arriving(r).n ELSE 0
      <4>1. gen \in 0..MaxGrants
        BY <2>1, ArrivingIsTrue, HostFacts, StreamAssumption DEF Told, TrueOf, Messages
      <4>2. room' = [room EXCEPT ![r].lease = gen]
        <5> HIDE DEF gen
        <5> QED  BY <1>5, <2>3, <4>1, StreamAssumption DEF ReceiveControl, gen
      <4> HIDE DEF gen
      <4> QED  BY <1>1, <4>1, <4>2
    <3> DEFINE c == [room[r] EXCEPT !.lease = gen]
    <3>2. /\ c \in ClientState /\ c.next = room[r].next /\ c.conn = room[r].conn /\ c.why = room[r].why
          /\ c.last = room[r].last
      BY <1>1, <3>1 DEF ClientState
    <3> HIDE DEF c
    <3> QED  BY <2>1, <3>1, <3>2, TakingSame DEF Taken, c
  <2> QED  BY <2>2, <2>3
<1>6. CASE ReceiveError(r)
  <2>1. Arrives(r, "error") /\ Taken(r) /\ Fails(r, "refused") /\ UNCHANGED hostInput
    BY <1>6 DEF ReceiveError
  <2> QED  BY <2>1, FailsTakesNone DEF Taken
<1>7. CASE ReceiveEnd(r)
  <2> DEFINE c == Disconnected(room[r], "reconnecting")
  <2>1. Arrives(r, "end") /\ Taken(r) /\ room' = [room EXCEPT ![r] = c] /\ UNCHANGED hostInput
    BY <1>7 DEF ReceiveEnd
  <2>2. /\ c \in ClientState /\ c.next = room[r].next /\ c.conn = None /\ c.why = room[r].why
        /\ c.last = room[r].last
    BY <1>1 DEF ClientState, Disconnected
  <2> HIDE DEF c
  <2> QED  BY <2>1, <2>2, TakingSame DEF Taken
<1> QED  BY <1>2, <1>3, <1>4, <1>5, <1>6, <1>7

\* The steps in which neither direction goes on.
StreamsRest ==
    /\ \A r \in Side : room'[r].next = room[r].next
    /\ room'["viewer"].last = room["viewer"].last /\ hostInput' = hostInput

LEMMA NoOutputRests ==
    ASSUME StreamInv, NEW r \in Side, NEW c, TakesNoOutput(r, c)
    PROVE  /\ \A q \in Side : room'[q].next = room[q].next
           /\ room'["viewer"].last = room["viewer"].last
<1>1. /\ room'[r] = c /\ \A q \in Side : q # r => room'[q] = room[q]
  BY TableFacts DEF TakesNoOutput
<1> QED  BY <1>1 DEF TakesNoOutput, Side

LEMMA RestingSteps ==
    ASSUME StreamInv,
           \/ \E r \in Side :
                  \/ Connect(r) \/ Reconnect(r) \/ ReceiveReady(r) \/ ReceiveAccepted(r)
                  \/ ReceiveControl(r) \/ ReceiveError(r) \/ ReceiveEnd(r)
           \/ ApplyGrant \/ ApplyRevoke
           \/ UNCHANGED <<room, hostInput>>
    PROVE  StreamsRest
<1>1. room \in [Side -> ClientState] /\ \A r \in Side : room[r] \in ClientState
  BY TableFacts
<1>2. ASSUME NEW r \in Side,
             \/ Reconnect(r) \/ ReceiveReady(r) \/ ReceiveAccepted(r) \/ ReceiveControl(r)
             \/ ReceiveError(r) \/ ReceiveEnd(r)
      PROVE  StreamsRest
  BY <1>2, ClientGoesOn, NoOutputRests DEF StreamsRest
<1>3. ASSUME NEW r \in Side, NEW c, c.next = room[r].next, c.last = room[r].last,
             room' = [room EXCEPT ![r] = c], hostInput' = hostInput
      PROVE  StreamsRest
  BY <1>1, <1>3 DEF StreamsRest, Side
<1>4. ASSUME NEW r \in Side, Connect(r)
      PROVE  StreamsRest
  <2> DEFINE c == [room[r] EXCEPT !.conn = opened', !.ready = FALSE]
  <2>1. room' = [room EXCEPT ![r] = c] /\ hostInput' = hostInput
    BY <1>1, <1>4 DEF Connect
  <2>2. c.next = room[r].next /\ c.last = room[r].last
    BY <1>1 DEF ClientState
  <2> HIDE DEF c
  <2> QED  BY <1>3, <2>1, <2>2
<1>5. CASE ApplyGrant \/ ApplyRevoke
  <2>1. hostInput' = hostInput /\ (room' = room \/ \E gen : room' = [room EXCEPT !["host"].lease = gen])
    BY <1>5 DEF ApplyGrant, ApplyRevoke
  <2>2. CASE room' = room
    BY <2>1, <2>2 DEF StreamsRest
  <2>3. CASE room' # room
    <3>1. PICK gen : room' = [room EXCEPT !["host"].lease = gen]
      BY <2>1, <2>3
    <3> DEFINE c == [room["host"] EXCEPT !.lease = gen]
    <3>2. c.next = room["host"].next /\ c.last = room["host"].last
      BY <1>1 DEF ClientState, Side
    <3>3. room' = [room EXCEPT !["host"] = c] /\ "host" \in Side
      BY <1>1, <3>1 DEF Side
    <3> HIDE DEF c
    <3> QED  BY <1>3, <2>1, <3>2, <3>3
  <2> QED  BY <2>2, <2>3
<1>6. CASE UNCHANGED <<room, hostInput>>
  BY <1>6 DEF StreamsRest
<1> QED  BY <1>2, <1>4, <1>5, <1>6

\* The participant takes the output after the last it has, or leaves the room.
LEMMA OutputGoesOn ==
    ASSUME StreamInv, NEW r \in Side, ReceiveOutput(r)
    PROVE  /\ hostInput' = hostInput /\ \A q \in Side : room'[q].next = room[q].next
           /\ \/ room'["viewer"].last = room["viewer"].last
              \/ /\ room'["viewer"].last = room["viewer"].last + 1
                 /\ room["viewer"].last < room["host"].next - 1
<1>1. room \in [Side -> ClientState] /\ room[r] \in ClientState /\ "host" \in Side /\ "viewer" \in Side
  BY TableFacts DEF Side
<1>2. /\ hostInput' = hostInput /\ Arriving(r).n \in Nat /\ Arriving(r).n <= output
  BY ArrivingIsTrue DEF ReceiveOutput, Told, TrueOf, Messages
<1>3. CASE Fails(r, "order")
  <2> DEFINE c == FailedWith(room[r], "order")
  <2>1. c.next = room[r].next /\ c.last = room[r].last
    BY <1>1 DEF FailedWith, Disconnected, ClientState
  <2>2. room' = [room EXCEPT ![r] = c]
    BY <1>3 DEF Fails
  <2> HIDE DEF c
  <2>3. room'[r] = c /\ \A q \in Side : q # r => room'[q] = room[q]
    BY <1>1, <2>2
  <2> QED  BY <1>1, <1>2, <2>1, <2>3
<1>4. CASE ~Fails(r, "order")
  <2>1. PICK last : /\ room' = [room EXCEPT ![r].last = last]
                    /\ r = "viewer" => last = room[r].last + 1 /\ last = Arriving(r).n
    BY <1>1, <1>4 DEF ReceiveOutput, TakesOutput
  <2> DEFINE c == [room[r] EXCEPT !.last = last]
  <2>2. c.next = room[r].next /\ c.last = last
    BY <1>1 DEF ClientState
  <2>3. room' = [room EXCEPT ![r] = c]
    BY <1>1, <2>1
  <2> HIDE DEF c
  <2>4. room'[r] = c /\ \A q \in Side : q # r => room'[q] = room[q]
    BY <1>1, <2>3
  <2>5. output < room["host"].next /\ output \in Nat /\ room["host"].next \in Nat
    BY <1>1, ClientFacts, TableFacts DEF Committed, ClientState
  <2>6. CASE r = "viewer"
    <3>1. room["viewer"].last + 1 <= output /\ room["viewer"].last \in Nat
      BY <1>1, <1>2, <2>1, <2>6 DEF ClientState
    <3> QED  BY <1>2, <2>1, <2>2, <2>4, <2>5, <2>6, <3>1
  <2>7. CASE r # "viewer"
    BY <1>1, <1>2, <2>2, <2>4, <2>7
  <2> QED  BY <2>6, <2>7
<1> QED  BY <1>3, <1>4

LEMMA InputGoesOn ==
    ASSUME StreamInv, ReceiveInput
    PROVE  /\ \A q \in Side : room'[q].next = room[q].next
           /\ room'["viewer"].last = room["viewer"].last
           /\ \/ hostInput' = hostInput
              \/ hostInput' = hostInput + 1 /\ hostInput - 1 < room["viewer"].next - 1
<1>1. room \in [Side -> ClientState] /\ "host" \in Side /\ "viewer" \in Side
  BY TableFacts DEF Side
<1>2. /\ Arrives("host", "input")
      /\ room' = room \/ \E why \in {"lease", "sequence", "shell"} : Fails("host", why)
      /\ hostInput' = hostInput \/ (hostInput' = hostInput + 1 /\ Arriving("host").n = hostInput)
  BY DEF ReceiveInput, TakesInput
<1>3. /\ \A q \in Side : room'[q].next = room[q].next
      /\ room'["viewer"].last = room["viewer"].last
  <2>1. CASE room' = room
    BY <2>1
  <2>2. ASSUME NEW why, Fails("host", why)
        PROVE  /\ \A q \in Side : room'[q].next = room[q].next
               /\ room'["viewer"].last = room["viewer"].last
    <3> DEFINE c == FailedWith(room["host"], why)
    <3>1. c.next = room["host"].next
      BY <1>1 DEF FailedWith, Disconnected, ClientState
    <3>2. room' = [room EXCEPT !["host"] = c]
      BY <2>2 DEF Fails
    <3> HIDE DEF c
    <3>3. room'["host"] = c /\ \A q \in Side : q # "host" => room'[q] = room[q]
      BY <1>1, <3>2
    <3> QED  BY <1>1, <3>1, <3>3
  <2> QED  BY <1>2, <2>1, <2>2
<1>4. CASE Arriving("host").n = hostInput
  <2>1. hostInput < nextInput
    BY <1>1, <1>2, <1>4, ArrivingIsTrue DEF Told, TrueOf
  <2>2. nextInput - 1 < room["viewer"].next /\ nextInput \in Nat /\ room["viewer"].next \in Nat
    BY <1>1, ClientFacts, TableFacts DEF Committed, ClientState
  <2>3. hostInput \in Nat
    BY HostFacts, TableFacts
  <2>4. hostInput - 1 < room["viewer"].next - 1
    BY <2>1, <2>2, <2>3
  <2> QED  BY <1>2, <1>3, <2>4
<1> QED  BY <1>1, <1>2, <1>3, <1>4

LEMMA PublishGoesOn ==
    ASSUME StreamInv, NEW r \in Side, Publish(r)
    PROVE  /\ room'[r].next = room[r].next + 1 /\ \A q \in Side : q # r => room'[q].next = room[q].next
           /\ room'["viewer"].last = room["viewer"].last /\ hostInput' = hostInput
<1>1. room \in [Side -> ClientState] /\ room[r] \in ClientState
  BY TableFacts
<1>2. PICK f : room' = [room EXCEPT ![r] = [room[r] EXCEPT !.pending = f, !.next = room[r].next + 1]]
  BY DEF Publish
<1> DEFINE c == [room[r] EXCEPT !.pending = f, !.next = room[r].next + 1]
<1>3. c.next = room[r].next + 1 /\ c.last = room[r].last
  BY <1>1 DEF ClientState
<1>4. room' = [room EXCEPT ![r] = c]
  BY <1>2
<1> HIDE DEF c
<1>5. room'[r] = c /\ \A q \in Side : q # r => room'[q] = room[q]
  BY <1>1, <1>4
<1> QED  BY <1>3, <1>5 DEF Publish, Side

\* Every step seals a piece, gives one, or leaves a direction alone.
LEMMA StreamsStep ==
    ASSUME StreamInv, [StreamNext]_streamState
    PROVE  /\ [Output!Seal \/ Output!Give]_<<room["host"].next - 1, room["viewer"].last>>
           /\ [Inputs!Seal \/ Inputs!Give]_<<room["viewer"].next - 1, hostInput - 1>>
<1> DEFINE Steps == /\ [Output!Seal \/ Output!Give]_<<room["host"].next - 1, room["viewer"].last>>
                    /\ [Inputs!Seal \/ Inputs!Give]_<<room["viewer"].next - 1, hostInput - 1>>
<1>1. /\ "host" \in Side /\ "viewer" \in Side /\ hostInput \in Nat
      /\ room["host"].next \in Nat /\ room["viewer"].next \in Nat /\ room["viewer"].last \in Nat
  <2>1. hostInput \in Nat
    BY HostFacts, TableFacts
  <2>2. room["host"] \in ClientState /\ room["viewer"] \in ClientState
    BY TableFacts DEF Side
  <2> QED  BY <2>1, <2>2 DEF Side, ClientState
<1>2. CASE StreamsRest
  BY <1>1, <1>2 DEF StreamsRest
<1>3. ASSUME NEW r \in Side, Publish(r)
      PROVE  Steps
  <2>1. CASE r = "host"
    BY <1>1, <1>3, <2>1, PublishGoesOn DEF Output!Seal
  <2>2. CASE r = "viewer"
    BY <1>1, <1>3, <2>2, PublishGoesOn DEF Inputs!Seal
  <2> QED  BY <2>1, <2>2 DEF Side
<1>4. ASSUME NEW r \in Side, ReceiveOutput(r)
      PROVE  Steps
  BY <1>1, <1>4, OutputGoesOn DEF Output!Give
<1>5. CASE ReceiveInput
  BY <1>1, <1>5, InputGoesOn DEF Inputs!Give
<1>6. CASE UNCHANGED streamState
  BY <1>2, <1>6, RestingSteps DEF streamState
<1>7. ASSUME NEW r \in Side,
             \/ Connect(r) \/ Reconnect(r) \/ ReceiveReady(r) \/ ReceiveAccepted(r)
             \/ ReceiveControl(r) \/ ReceiveError(r) \/ ReceiveEnd(r)
      PROVE  Steps
  BY <1>2, <1>7, RestingSteps
<1>8. ASSUME NEW s \in Socket,
             \/ Subscribe(s) \/ ReadCutoff(s) \/ Replay(s) \/ SendControl(s)
             \/ CommitOutput(s) \/ CommitInput(s) \/ RefuseFrame(s) \/ AirFrame(s) \/ Forward(s)
             \/ Abandon(s) \/ EndSocket(s) \/ RemoveHub(s)
      PROVE  Steps
  <2>1. UNCHANGED <<room, hostInput>>
    BY <1>8 DEF Subscribe, ReadCutoff, Replay, SendControl, CommitOutput, CommitInput, RefuseFrame,
                AirFrame, Forward, Abandon, EndSocket, Gone, RemoveHub, relayRest, clientVars
  <2> QED  BY <1>2, <2>1, RestingSteps
<1>9. CASE GrantAtRelay \/ RevokeAtRelay \/ AirControl \/ LeaseExpires
  <2>1. UNCHANGED <<room, hostInput>>
    BY <1>9 DEF GrantAtRelay, RevokeAtRelay, AirControl, LeaseExpires, commandRest, clientVars
  <2> QED  BY <1>2, <2>1, RestingSteps
<1>10. CASE ApplyGrant \/ ApplyRevoke
  BY <1>2, <1>10, RestingSteps
<1> QED
  BY <1>3, <1>4, <1>5, <1>6, <1>7, <1>8, <1>9, <1>10 DEF StreamNext

\* team_relay_terminal.rs: however often connections break and frames are sent again, the
\* participant is given the output, and the host the input, in the order in which they
\* were sealed, each once and without a hole: RelayStream implements OrderedStream twice.
THEOREM StreamsAreOrderedHolds == StreamRoomSpec => StreamsAreOrdered
<1>1. StreamRoomInit => Output!StreamInit /\ Inputs!StreamInit
  BY DEF StreamRoomInit, Output!StreamInit, Inputs!StreamInit, Side
<1> QED
  BY <1>1, StreamInvHolds, StreamsStep, PTL
     DEF StreamRoomSpec, StreamsAreOrdered, Output!StreamSpec, Inputs!StreamSpec,
         Output!streamVars, Inputs!streamVars

(***************************************************************************)
(* The participant is only out of step when a hub has lost output.         *)
(*                                                                         *)
(* The outputs in what a receiver of the hub has, and in what is under way *)
(* to the participant, follow one another without a hole; what is under    *)
(* way begins after the participant's cursor, and what the task will send  *)
(* begins where that ends.                                                 *)
(***************************************************************************)
\* The outputs in q are a + 1, ..., b, in this order: f counts them.
Counts(f, q) ==
    /\ \A i, j \in 0..Len(q) : i <= j => f[i] <= f[j]
    /\ \A i \in 1..Len(q) : IF q[i].is = "output" THEN q[i].n = f[i - 1] + 1 /\ f[i] = f[i - 1] + 1
                                                  ELSE f[i] = f[i - 1]

Follows(q, a, b) ==
    \E f \in [0..Len(q) -> Nat] : f[0] = a /\ f[Len(q)] = b /\ Counts(f, q)

NoOutput(q) == \A i \in 1..Len(q) : q[i].is # "output"

LEMMA FollowsNothing ==
    ASSUME NEW q \in Seq(Messages), NoOutput(q), NEW a \in Nat
    PROVE  Follows(q, a, a)
<1> DEFINE f == [i \in 0..Len(q) |-> a]
<1>1. Len(q) \in Nat /\ f \in [0..Len(q) -> Nat] /\ f[0] = a /\ f[Len(q)] = a
  OBVIOUS
<1>2. Counts(f, q)
  BY <1>1 DEF Counts, NoOutput
<1> QED  BY <1>1, <1>2 DEF Follows

\* What is sent after q.
LEMMA FollowsMore ==
    ASSUME NEW q \in Seq(Messages), NEW a \in Nat, NEW b \in Nat, Follows(q, a, b),
           NEW p \in Seq(Messages), NEW c \in Nat, Follows(p, b, c)
    PROVE  Follows(q \o p, a, c)
<1>1. PICK f \in [0..Len(q) -> Nat] : f[0] = a /\ f[Len(q)] = b /\ Counts(f, q)
  BY DEF Follows
<1>2. PICK g \in [0..Len(p) -> Nat] : g[0] = b /\ g[Len(p)] = c /\ Counts(g, p)
  BY DEF Follows
<1>3. /\ q \o p \in Seq(Messages) /\ Len(q \o p) = Len(q) + Len(p) /\ Len(q) \in Nat /\ Len(p) \in Nat
      /\ \A i \in 1..Len(q) + Len(p) : (q \o p)[i] = IF i <= Len(q) THEN q[i] ELSE p[i - Len(q)]
  BY ConcatProperties
<1> DEFINE h == [i \in 0..Len(q) + Len(p) |-> IF i <= Len(q) THEN f[i] ELSE g[i - Len(q)]]
<1>4. /\ h \in [0..Len(q) + Len(p) -> Nat] /\ h[0] = a
      /\ \A i \in 0..Len(q) : h[i] = f[i]
      /\ \A i \in Len(q)..Len(q) + Len(p) : h[i] = g[i - Len(q)]
  <2>1. ASSUME NEW i \in 0..Len(q) + Len(p)
        PROVE  /\ h[i] \in Nat
               /\ i <= Len(q) => h[i] = f[i]
               /\ i >= Len(q) => h[i] = g[i - Len(q)]
    <3>1. CASE i < Len(q)
      <4>1. i \in 0..Len(q) /\ i <= Len(q) /\ ~(i >= Len(q))
        BY <1>3, <3>1
      <4> QED  BY <4>1
    <3>2. CASE i = Len(q)
      BY <1>1, <1>2, <1>3, <3>2
    <3>3. CASE i > Len(q)
      <4>1. i - Len(q) \in 0..Len(p) /\ ~(i <= Len(q))
        BY <1>3, <3>3
      <4> QED  BY <3>3, <4>1
    <3> QED  BY <1>3, <3>1, <3>2, <3>3
  <2> HIDE DEF h
  <2>2. h = [i \in 0..Len(q) + Len(p) |-> h[i]]
    BY DEF h
  <2>3. h \in [0..Len(q) + Len(p) -> Nat]
    BY <2>1, <2>2
  <2>4. \A i \in 0..Len(q) : i \in 0..Len(q) + Len(p) /\ i <= Len(q)
    BY <1>3
  <2>5. \A i \in Len(q)..Len(q) + Len(p) : i \in 0..Len(q) + Len(p) /\ i >= Len(q)
    BY <1>3
  <2>6. 0 \in 0..Len(q) /\ f[0] = a
    BY <1>1, <1>3
  <2> QED  BY <2>1, <2>3, <2>4, <2>5, <2>6
<1> HIDE DEF h
<1>5. ASSUME NEW i \in 0..Len(q) + Len(p), NEW j \in 0..Len(q) + Len(p), i <= j
      PROVE  h[i] <= h[j]
  <2>1. CASE j <= Len(q)
    <3>1. i \in 0..Len(q) /\ j \in 0..Len(q)
      BY <1>3, <1>5, <2>1
    <3> QED  BY <1>1, <1>4, <1>5, <3>1 DEF Counts
  <2>2. CASE i >= Len(q)
    <3>1. /\ i \in Len(q)..Len(q) + Len(p) /\ j \in Len(q)..Len(q) + Len(p)
          /\ i - Len(q) \in 0..Len(p) /\ j - Len(q) \in 0..Len(p) /\ i - Len(q) <= j - Len(q)
      BY <1>3, <1>5, <2>2
    <3> QED  BY <1>2, <1>4, <3>1 DEF Counts
  <2>3. CASE i < Len(q) /\ j > Len(q)
    <3>1. /\ i \in 0..Len(q) /\ Len(q) \in 0..Len(q) /\ i <= Len(q)
          /\ j \in Len(q)..Len(q) + Len(p) /\ j - Len(q) \in 0..Len(p) /\ 0 \in 0..Len(p) /\ 0 <= j - Len(q)
      BY <1>3, <2>3
    <3>2. f[i] <= b /\ b <= g[j - Len(q)]
      BY <1>1, <1>2, <3>1 DEF Counts
    <3>3. f[i] \in Nat /\ g[j - Len(q)] \in Nat
      BY <3>1
    <3> QED  BY <1>4, <3>1, <3>2, <3>3
  <2> QED  BY <1>3, <2>1, <2>2, <2>3
<1>6. ASSUME NEW i \in 1..Len(q) + Len(p)
      PROVE  IF (q \o p)[i].is = "output" THEN (q \o p)[i].n = h[i - 1] + 1 /\ h[i] = h[i - 1] + 1
                                         ELSE h[i] = h[i - 1]
  <2>1. CASE i <= Len(q)
    <3>1. i \in 1..Len(q) /\ i \in 0..Len(q) /\ i - 1 \in 0..Len(q)
      BY <1>3, <2>1
    <3> QED  BY <1>1, <1>3, <1>4, <2>1, <3>1 DEF Counts
  <2>2. CASE i > Len(q)
    <3>1. /\ i - Len(q) \in 1..Len(p) /\ i \in Len(q)..Len(q) + Len(p)
          /\ i - 1 \in Len(q)..Len(q) + Len(p) /\ (i - 1) - Len(q) = (i - Len(q)) - 1 /\ ~(i <= Len(q))
      BY <1>3, <2>2
    <3>2. h[i] = g[i - Len(q)] /\ h[i - 1] = g[(i - Len(q)) - 1] /\ (q \o p)[i] = p[i - Len(q)]
      BY <1>3, <1>4, <3>1
    <3> QED  BY <1>2, <3>1, <3>2 DEF Counts
  <2> QED  BY <1>3, <2>1, <2>2
<1>7. Len(q) + Len(p) \in Len(q)..Len(q) + Len(p) /\ (Len(q) + Len(p)) - Len(q) = Len(p)
  BY <1>3
<1>8. h[Len(q) + Len(p)] = c
  BY <1>2, <1>4, <1>7
<1>9. Counts(h, q \o p)
  BY <1>3, <1>5, <1>6 DEF Counts
<1> QED  BY <1>3, <1>4, <1>8, <1>9 DEF Follows

\* A message that is no output, and the next output.
LEMMA FollowsOne ==
    ASSUME NEW m \in Messages, NEW b \in Nat
    PROVE  /\ m.is # "output" => Follows(<<m>>, b, b)
           /\ m.is = "output" /\ m.n = b + 1 => Follows(<<m>>, b, b + 1)
<1>1. <<m>> \in Seq(Messages) /\ Len(<<m>>) = 1 /\ <<m>>[1] = m
  OBVIOUS
<1>2. CASE m.is # "output"
  <2>1. NoOutput(<<m>>)
    BY <1>1, <1>2 DEF NoOutput
  <2> QED  BY <1>1, <1>2, <2>1, FollowsNothing
<1>3. CASE m.is = "output"
  <2> DEFINE f == [i \in 0..1 |-> b + i]
  <2>1. f \in [0..1 -> Nat] /\ f[0] = b /\ f[1] = b + 1
    OBVIOUS
  <2> HIDE DEF f
  <2>2. \A i, j \in 0..1 : i <= j => f[i] <= f[j]
    <3>1. \A i \in 0..1 : i = 0 \/ i = 1
      OBVIOUS
    <3> QED  BY <2>1, <3>1
  <2>3. m.n = b + 1 => Counts(f, <<m>>)
    BY <1>1, <1>3, <2>1, <2>2 DEF Counts
  <2> QED  BY <1>1, <1>3, <2>1, <2>3 DEF Follows
<1> QED  BY <1>2, <1>3

\* The first message goes.
LEMMA FollowsTail ==
    ASSUME NEW q \in Seq(Messages), q # <<>>, NEW a \in Nat, NEW b \in Nat, Follows(q, a, b)
    PROVE  /\ Head(q).is # "output" => Follows(Tail(q), a, b)
           /\ Head(q).is = "output" => Head(q).n = a + 1 /\ Follows(Tail(q), a + 1, b)
           /\ a <= b
<1>1. PICK f \in [0..Len(q) -> Nat] : f[0] = a /\ f[Len(q)] = b /\ Counts(f, q)
  BY DEF Follows
<1>2. /\ Len(q) \in Nat /\ Len(q) > 0 /\ Head(q) = q[1] /\ Tail(q) \in Seq(Messages)
      /\ Len(Tail(q)) = Len(q) - 1 /\ \A i \in 1..Len(q) - 1 : Tail(q)[i] = q[i + 1]
  BY HeadTailProperties
<1> DEFINE g == [i \in 0..Len(q) - 1 |-> f[i + 1]]
<1>3. \A i \in 0..Len(q) - 1 : i + 1 \in 0..Len(q) /\ i + 1 \in 1..Len(q)
  BY <1>2
<1>4. g \in [0..Len(q) - 1 -> Nat] /\ \A i \in 0..Len(q) - 1 : g[i] = f[i + 1]
  BY <1>3
<1> HIDE DEF g
<1>5. g[0] = f[1] /\ g[Len(q) - 1] = b
  <2>1. 0 \in 0..Len(q) - 1 /\ Len(q) - 1 \in 0..Len(q) - 1 /\ (Len(q) - 1) + 1 = Len(q) /\ 0 + 1 = 1
    BY <1>2
  <2> QED  BY <1>1, <1>4, <2>1
<1>6. Counts(g, Tail(q))
  <2>1. ASSUME NEW i \in 0..Len(q) - 1, NEW j \in 0..Len(q) - 1, i <= j
        PROVE  g[i] <= g[j]
    <3>1. i + 1 <= j + 1
      BY <2>1
    <3> QED  BY <1>1, <1>3, <1>4, <3>1 DEF Counts
  <2>2. ASSUME NEW i \in 1..Len(q) - 1
        PROVE  IF Tail(q)[i].is = "output" THEN Tail(q)[i].n = g[i - 1] + 1 /\ g[i] = g[i - 1] + 1
                                           ELSE g[i] = g[i - 1]
    <3>1. i \in 0..Len(q) - 1 /\ i - 1 \in 0..Len(q) - 1 /\ (i - 1) + 1 = i /\ (i + 1) - 1 = i /\ i + 1 \in 1..Len(q)
      BY <1>2
    <3>2. g[i] = f[i + 1] /\ g[i - 1] = f[i] /\ Tail(q)[i] = q[i + 1]
      BY <1>2, <1>4, <3>1
    <3> QED  BY <1>1, <3>1, <3>2 DEF Counts
  <2> QED  BY <1>2, <2>1, <2>2 DEF Counts
<1>7. 1 \in 1..Len(q) /\ 0 \in 0..Len(q) /\ Len(q) \in 0..Len(q) /\ 0 <= Len(q) /\ 1 - 1 = 0
  BY <1>2
<1>8. /\ Head(q).is = "output" => Head(q).n = a + 1 /\ f[1] = a + 1
      /\ Head(q).is # "output" => f[1] = a
      /\ a <= b
  BY <1>1, <1>2, <1>7 DEF Counts
<1>9. Follows(Tail(q), f[1], b)
  BY <1>2, <1>4, <1>5, <1>6 DEF Follows
<1> QED  BY <1>8, <1>9

\* What a receiver of the hub still has to send: outputs after a, up to b.
Reach(t, a) == IF a < socket[t].cutoff THEN socket[t].cutoff ELSE a

Receiver(t, a, b) ==
    /\ Follows(socket[t].heard, a, b)
    /\ socket[t].hub = hub => b = air.top
    /\ socket[t].phase = "listening" => a <= output
    /\ socket[t].phase \in {"cut", "replayed"} => a <= socket[t].cutoff
    /\ socket[t].phase = "loop" /\ room["viewer"].conn = t =>
          Follows(down[t], room["viewer"].last, Reach(t, a))

\* What is under way to the participant on its connection.
Underway(t) ==
    /\ socket[t].phase \in {"accepted", "listening", "cut"} =>
          socket[t].after = room["viewer"].last /\ NoOutput(down[t])
    /\ socket[t].phase = "replayed" => Follows(down[t], room["viewer"].last, socket[t].cutoff)
    /\ \E d \in Nat : Follows(down[t], room["viewer"].last, d)

InStep ==
    /\ air.top <= output
    /\ room["viewer"].why # "order"
    /\ \A t \in Socket : Listens(t) => \E a, b \in Nat : Receiver(t, a, b)
    /\ \A t \in Socket : room["viewer"].conn = t => Underway(t) /\ room["host"].conn # t

\* Types of what the lemmas below are about.
LEMMA StepFacts ==
    ASSUME StreamInv, NEW t \in Socket
    PROVE  /\ down[t] \in Seq(Messages) /\ socket[t].heard \in Seq(Messages)
           /\ socket[t].cutoff \in Nat /\ socket[t].cutoff <= output /\ socket[t].after \in Nat
           /\ room["viewer"].last \in Nat /\ air.top \in Nat /\ output \in Nat
           /\ Listens(t) => socket[t].hub > 0 /\ t <= opened
<1>1. /\ down[t] \in Seq(Messages) /\ air.top \in Nat /\ output \in Nat
  BY TableFacts
<1>2. room["viewer"].last \in Nat
  BY ClientFacts DEF ClientState, Side
<1>3. /\ socket[t].heard \in Seq(Messages) /\ socket[t].cutoff \in Nat /\ socket[t].cutoff <= output
      /\ socket[t].after \in Nat
  BY TaskFacts DEF SocketState
<1>4. Listens(t) => socket[t].hub > 0 /\ t <= opened
  BY TaskFacts DEF Listens, SocketOK, Serving
<1> QED  BY <1>1, <1>2, <1>3, <1>4

LEMMA FollowsQuiet ==
    ASSUME NEW q \in Seq(Messages), NEW a \in Nat, NEW b \in Nat, Follows(q, a, b),
           NEW p \in Seq(Messages), NoOutput(p)
    PROVE  Follows(q \o p, a, b)
BY FollowsNothing, FollowsMore

LEMMA NoOutputMore ==
    ASSUME NEW q \in Seq(Messages), NEW p \in Seq(Messages), NoOutput(q), NoOutput(p)
    PROVE  NoOutput(q \o p)
<1>1. /\ Len(q \o p) = Len(q) + Len(p) /\ Len(q) \in Nat /\ Len(p) \in Nat
      /\ \A i \in 1..Len(q) + Len(p) : (q \o p)[i] = IF i <= Len(q) THEN q[i] ELSE p[i - Len(q)]
  BY ConcatProperties
<1>2. ASSUME NEW i \in 1..Len(q) + Len(p)
      PROVE  (q \o p)[i].is # "output"
  <2>1. CASE i <= Len(q)
    BY <1>1, <2>1 DEF NoOutput
  <2>2. CASE i > Len(q)
    <3>1. i - Len(q) \in 1..Len(p) /\ ~(i <= Len(q))
      BY <1>1, <2>2
    <3> QED  BY <1>1, <3>1 DEF NoOutput
  <2> QED  BY <1>1, <2>1, <2>2
<1> QED  BY <1>1, <1>2 DEF NoOutput

LEMMA NoOutputTail ==
    ASSUME NEW q \in Seq(Messages), q # <<>>, NoOutput(q)
    PROVE  NoOutput(Tail(q)) /\ Head(q).is # "output"
<1>1. /\ Len(q) \in Nat /\ Len(q) > 0 /\ Head(q) = q[1]
      /\ Len(Tail(q)) = Len(q) - 1 /\ \A i \in 1..Len(q) - 1 : Tail(q)[i] = q[i + 1]
  BY HeadTailProperties
<1>2. 1 \in 1..Len(q) /\ \A i \in 1..Len(q) - 1 : i + 1 \in 1..Len(q)
  BY <1>1
<1> QED  BY <1>1, <1>2 DEF NoOutput

\* A client takes the next message; the participant takes outputs in their order.
LEMMA ClientsInStep ==
    ASSUME StreamInv, InStep, UNCHANGED <<tableVars, relayVars>>,
           room'["viewer"].why # "order",
           \A r \in Side : room'[r].conn \in {room[r].conn, None},
           \A t \in Socket : room'["viewer"].conn = t =>
              \/ room'["viewer"].last = room["viewer"].last /\ down'[t] = down[t]
              \/ /\ down[t] # <<>> /\ down'[t] = Tail(down[t])
                 /\ Head(down[t]).is # "output" /\ room'["viewer"].last = room["viewer"].last
              \/ /\ down[t] # <<>> /\ down'[t] = Tail(down[t])
                 /\ Head(down[t]).is = "output" /\ room'["viewer"].last = Head(down[t]).n
    PROVE  InStep'
<1>1. ASSUME NEW t \in Socket, room'["viewer"].conn = t
      PROVE  room["viewer"].conn = t /\ room'["host"].conn # t
  BY <1>1, NoneIsNoSocket DEF InStep, Side
<1>2. ASSUME NEW t \in Socket, room'["viewer"].conn = t, NEW d \in Nat,
             Follows(down[t], room["viewer"].last, d)
      PROVE  Follows(down'[t], room'["viewer"].last, d)
  <2>1. down[t] \in Seq(Messages) /\ room["viewer"].last \in Nat
    BY StepFacts
  <2>2. CASE room'["viewer"].last = room["viewer"].last /\ down'[t] = down[t]
    BY <1>2, <2>2
  <2>3. CASE /\ down[t] # <<>> /\ down'[t] = Tail(down[t])
             /\ Head(down[t]).is # "output" /\ room'["viewer"].last = room["viewer"].last
    BY <1>2, <2>1, <2>3, FollowsTail
  <2>4. CASE /\ down[t] # <<>> /\ down'[t] = Tail(down[t])
             /\ Head(down[t]).is = "output" /\ room'["viewer"].last = Head(down[t]).n
    BY <1>2, <2>1, <2>4, FollowsTail
  <2> QED  BY <1>2, <2>2, <2>3, <2>4
<1>3. ASSUME NEW t \in Socket, room'["viewer"].conn = t
      PROVE  Underway(t)'
  <2>1. Underway(t) /\ down[t] \in Seq(Messages) /\ socket[t].cutoff \in Nat
    BY <1>1, <1>3, StepFacts DEF InStep
  <2>2. socket' = socket
    BY DEF relayVars
  <2>3. CASE socket[t].phase \in {"accepted", "listening", "cut"}
    <3>1. NoOutput(down[t]) /\ socket[t].after = room["viewer"].last
      BY <2>1, <2>3 DEF Underway
    <3>2. down'[t] \in {down[t], Tail(down[t])} /\ room'["viewer"].last = room["viewer"].last /\ NoOutput(down'[t])
      BY <1>3, <2>1, <3>1, NoOutputTail
    <3> QED  BY <1>2, <1>3, <2>1, <2>2, <2>3, <3>1, <3>2 DEF Underway
  <2>4. CASE socket[t].phase \notin {"accepted", "listening", "cut"}
    BY <1>2, <1>3, <2>1, <2>2, <2>4 DEF Underway
  <2> QED  BY <2>3, <2>4
<1>4. ASSUME NEW t \in Socket, Listens(t)'
      PROVE  \E a, b \in Nat : Receiver(t, a, b)'
  <2>1. UNCHANGED <<socket, hub, air, output>>
    BY DEF relayVars, tableVars
  <2>2. PICK a \in Nat, b \in Nat : Receiver(t, a, b)
    BY <1>4, <2>1 DEF InStep, Listens
  <2>3. Reach(t, a) \in Nat /\ Reach(t, a)' = Reach(t, a)
    BY <2>1, StepFacts DEF Reach
  <2>4. Receiver(t, a, b)'
    BY <1>1, <1>2, <2>1, <2>2, <2>3 DEF Receiver
  <2> QED  BY <2>4
<1>5. air'.top <= output'
  BY DEF InStep, relayVars, tableVars
<1> QED  BY <1>1, <1>3, <1>4, <1>5 DEF InStep

\* One task of the relay goes on.
LEMMA TaskInStep ==
    ASSUME StreamInv, InStep, NEW s \in Socket, UNCHANGED <<room, air>>,
           output' \in Nat, output <= output', hub' \in {0, hub},
           \A t \in Socket : t # s => socket'[t] = socket[t] /\ down'[t] = down[t],
           Listens(s)' => \E a, b \in Nat : Receiver(s, a, b)',
           room["viewer"].conn = s => Underway(s)'
    PROVE  InStep'
<1>1. ASSUME NEW t \in Socket, Listens(t)'
      PROVE  \E a, b \in Nat : Receiver(t, a, b)'
  <2>1. CASE t = s
    BY <1>1, <2>1
  <2>2. CASE t # s
    <3>1. socket'[t] = socket[t] /\ down'[t] = down[t] /\ Listens(t)
      BY <1>1, <2>2 DEF Listens
    <3>2. PICK a \in Nat, b \in Nat : Receiver(t, a, b)
      BY <3>1 DEF InStep
    <3>3. Reach(t, a)' = Reach(t, a)
      BY <3>1 DEF Reach
    <3>4. /\ socket'[t].hub = hub' => b = air'.top
          /\ socket'[t].phase = "listening" => a <= output'
      <4>1. socket[t].hub > 0 /\ output \in Nat
        BY <3>1, StepFacts
      <4>2. socket'[t].hub = hub' => socket[t].hub = hub
        BY <3>1, <4>1
      <4> QED  BY <3>1, <3>2, <4>1, <4>2 DEF Receiver
    <3>5. Receiver(t, a, b)'
      BY <3>1, <3>2, <3>3, <3>4 DEF Receiver
    <3> QED  BY <3>5
  <2> QED  BY <2>1, <2>2
<1>2. ASSUME NEW t \in Socket, room'["viewer"].conn = t
      PROVE  Underway(t)' /\ room'["host"].conn # t
  <2>1. room["host"].conn # t /\ Underway(t)
    BY <1>2 DEF InStep
  <2>2. CASE t = s
    BY <1>2, <2>1, <2>2
  <2>3. CASE t # s
    BY <2>1, <2>3 DEF Underway
  <2> QED  BY <2>1, <2>2, <2>3
<1>3. air'.top <= output' /\ room'["viewer"].why # "order"
  BY TableFacts DEF InStep
<1> QED  BY <1>1, <1>2, <1>3 DEF InStep

\* What a task sends arrives at the participant if it serves it.
LEMMA DeliversToViewer ==
    ASSUME StreamInv, NEW s \in Socket, socket[s].by \in Side, NEW q, Deliver(s, q)
    PROVE  /\ \A t \in Socket : t # s => down'[t] = down[t]
           /\ room["viewer"].conn = s => down'[s] = down[s] \o q
<1>1. room["viewer"].conn = s => socket[s].by = "viewer"
  BY NoneIsNoSide DEF StreamInv, ConnOK, Side
<1>2. down \in [Socket -> Seq(Messages)]
  BY TableFacts
<1> QED  BY <1>1, <1>2 DEF Deliver

LEMMA TakingInStep ==
    ASSUME StreamInv, InStep, NEW r \in Side, NEW c, TakesNoOutput(r, c),
           UNCHANGED <<tableVars, relayVars>>
    PROVE  InStep'
<1>1. room \in [Side -> ClientState] /\ down \in [Socket -> Seq(Messages)]
  BY TableFacts
<1>2. room'[r] = c /\ \A q \in Side : q # r => room'[q] = room[q]
  BY <1>1 DEF TakesNoOutput
<1>3. \A q \in Side : room'[q].conn \in {room[q].conn, None}
  BY <1>2 DEF TakesNoOutput
<1>4. room'["viewer"].why # "order"
  BY <1>2 DEF TakesNoOutput, InStep, Side
<1>5. ASSUME NEW t \in Socket, room'["viewer"].conn = t
      PROVE  \/ room'["viewer"].last = room["viewer"].last /\ down'[t] = down[t]
             \/ /\ down[t] # <<>> /\ down'[t] = Tail(down[t])
                /\ Head(down[t]).is # "output" /\ room'["viewer"].last = room["viewer"].last
  <2>1. room["viewer"].conn = t /\ room["host"].conn # t
    BY <1>3, <1>5, NoneIsNoSocket DEF InStep, Side
  <2>2. down' = [down EXCEPT ![room[r].conn] = IF c.conn = None THEN <<>> ELSE Tail(@)]
    BY DEF TakesNoOutput
  <2>3. CASE r = "viewer"
    <3>1. c.conn = t /\ t # None
      BY <1>2, <1>5, <2>3, NoneIsNoSocket
    <3>2. down[t] # <<>> /\ Head(down[t]).is # "output" /\ c.last = room["viewer"].last
      BY <2>3, <3>1 DEF TakesNoOutput
    <3>3. down'[t] = Tail(down[t])
      BY <1>1, <2>1, <2>2, <2>3, <3>1
    <3> QED  BY <1>2, <2>3, <3>2, <3>3
  <2>4. CASE r = "host"
    BY <1>1, <1>2, <2>1, <2>2, <2>4 DEF Side
  <2> QED  BY <2>3, <2>4 DEF Side
<1> QED  BY <1>3, <1>4, <1>5, ClientsInStep

LEMMA ClientsKeepStep ==
    ASSUME StreamInv, InStep, NEW r \in Side,
           \/ Reconnect(r) \/ ReceiveReady(r) \/ ReceiveAccepted(r) \/ ReceiveControl(r)
           \/ ReceiveError(r) \/ ReceiveEnd(r)
    PROVE  InStep'
BY ClientGoesOn, TakingInStep

\* The participant takes the next output; the host moves its cursor.
LEMMA OutputKeepsStep ==
    ASSUME StreamInv, InStep, NEW r \in Side, ReceiveOutput(r)
    PROVE  InStep'
<1>1. room \in [Side -> ClientState] /\ down \in [Socket -> Seq(Messages)] /\ room[r] \in ClientState
  BY TableFacts
<1> DEFINE q == down[room[r].conn]
<1>2. /\ room[r].conn \in Socket /\ q # <<>> /\ Head(q).is = "output" /\ Arriving(r) = Head(q)
      /\ UNCHANGED <<tableVars, relayVars>>
      /\ down' = [down EXCEPT ![room[r].conn] = IF room'[r].conn = None THEN <<>> ELSE Tail(@)]
  BY ArrivingIsTrue DEF ReceiveOutput, Arrives, Arriving, Taken
<1>3. CASE r = "host"
  <2>1. PICK last : room' = [room EXCEPT !["host"].last = last]
    BY <1>2, <1>3 DEF ReceiveOutput
  <2>2. room'["viewer"] = room["viewer"] /\ room'["host"].conn = room["host"].conn
    BY <1>1, <2>1 DEF Side, ClientState
  <2>3. ASSUME NEW t \in Socket, room'["viewer"].conn = t
        PROVE  down'[t] = down[t]
    BY <1>1, <1>2, <1>3, <2>2, <2>3 DEF InStep
  <2> QED  BY <2>2, <2>3, <1>2, ClientsInStep DEF InStep, Side
<1>4. CASE r = "viewer"
  <2>1. Underway(room[r].conn)
    BY <1>2, <1>4 DEF InStep
  <2>2. PICK d \in Nat : Follows(q, room["viewer"].last, d)
    BY <2>1, <1>4 DEF Underway
  <2>3. q \in Seq(Messages) /\ room["viewer"].last \in Nat
    BY <1>2, StepFacts
  <2>4. Head(q).n = room["viewer"].last + 1
    BY <1>2, <2>2, <2>3, FollowsTail
  <2>5. room' = [room EXCEPT !["viewer"].last = Head(q).n]
    BY <1>2, <1>4, <2>4 DEF ReceiveOutput, TakesOutput
  <2>6. /\ room'["viewer"].last = Head(q).n /\ room'["viewer"].conn = room["viewer"].conn
        /\ room'["viewer"].why = room["viewer"].why /\ room'["host"] = room["host"]
    BY <1>1, <2>5 DEF Side, ClientState
  <2>7. ASSUME NEW t \in Socket, room'["viewer"].conn = t
        PROVE  /\ down[t] # <<>> /\ down'[t] = Tail(down[t])
               /\ Head(down[t]).is = "output" /\ room'["viewer"].last = Head(down[t]).n
    BY <1>1, <1>2, <1>4, <2>6, <2>7, NoneIsNoSocket
  <2> QED  BY <1>2, <2>6, <2>7, ClientsInStep DEF InStep, Side
<1> QED  BY <1>3, <1>4 DEF Side

\* The host reads a line, a client publishes, a command is applied.
LEMMA HostKeepsStep ==
    ASSUME StreamInv, InStep, ReceiveInput \/ ApplyGrant \/ ApplyRevoke \/ \E r \in Side : Publish(r)
    PROVE  InStep'
<1>1. room \in [Side -> ClientState] /\ down \in [Socket -> Seq(Messages)]
  BY TableFacts
<1>2. UNCHANGED <<tableVars, relayVars>>
  BY DEF ReceiveInput, Taken, ApplyGrant, ApplyRevoke, Publish, relayVars, tableVars
<1>3. /\ \A r \in Side : room'[r].conn \in {room[r].conn, None}
      /\ room'["viewer"].last = room["viewer"].last /\ room'["viewer"].why = room["viewer"].why
  <2>1. CASE ReceiveInput
    <3>1. room' = room \/ \E why : Fails("host", why)
      BY <2>1 DEF ReceiveInput
    <3>2. room' = room \/ \E why : room' = [room EXCEPT !["host"] = FailedWith(@, why)]
      BY <3>1 DEF Fails
    <3>3. \A why : FailedWith(room["host"], why).conn = None
      BY <1>1 DEF FailedWith, Disconnected, ClientState, Side
    <3> QED  BY <1>1, <3>2, <3>3 DEF Side
  <2>2. CASE ApplyGrant \/ ApplyRevoke
    <3>1. room' = room \/ \E l : room' = [room EXCEPT !["host"].lease = l]
      BY <2>2 DEF ApplyGrant, ApplyRevoke
    <3>2. room'["viewer"] = room["viewer"] /\ room'["host"].conn = room["host"].conn
      BY <1>1, <3>1 DEF Side, ClientState
    <3> QED  BY <3>2 DEF Side
  <2>3. ASSUME NEW r \in Side, Publish(r)
        PROVE  <1>3
    <3>1. PICK p, n : room' = [room EXCEPT ![r] = [@ EXCEPT !.pending = p, !.next = n]]
      BY <2>3 DEF Publish
    <3>2. room[r] \in ClientState
      BY <1>1
    <3> DEFINE c == [room[r] EXCEPT !.pending = p, !.next = n]
    <3>3. c.conn = room[r].conn /\ c.last = room[r].last /\ c.why = room[r].why
      BY <3>2 DEF ClientState
    <3>4. room' = [room EXCEPT ![r] = c]
      BY <3>1
    <3> HIDE DEF c
    <3> QED  BY <1>1, <3>3, <3>4 DEF Side
  <2> QED  BY <2>1, <2>2, <2>3
<1>4. ASSUME NEW t \in Socket, room'["viewer"].conn = t
      PROVE  down'[t] = down[t]
  <2>1. room["viewer"].conn = t /\ room["host"].conn # t
    BY <1>3, <1>4, NoneIsNoSocket DEF InStep, Side
  <2>2. down' = down \/ \E e : down' = [down EXCEPT ![room["host"].conn] = e]
    BY DEF ReceiveInput, Taken, ApplyGrant, ApplyRevoke, Publish
  <2> QED  BY <1>1, <2>1, <2>2
<1> QED  BY <1>2, <1>3, <1>4, ClientsInStep DEF InStep

\* A new connection begins at the client's cursor, with nothing under way.
LEMMA ConnectKeepsStep ==
    ASSUME StreamInv, InStep, NEW r \in Side, Connect(r)
    PROVE  InStep'
<1> DEFINE s == opened + 1
           k == [NewSocket EXCEPT !.by = r, !.phase = "accepted", !.hub = hub', !.after = room[r].last]
<1>1. /\ opened' = s /\ s \in Socket /\ \A t \in Socket : t <= opened => t # s
      /\ opened \in Nat
  <2>1. opened \in Nat /\ MaxSockets \in Nat /\ opened < MaxSockets /\ opened' = s
    BY TableFacts, StreamAssumption DEF Connect
  <2>2. s \in Socket /\ \A t \in Socket : t \in Nat
    BY <2>1 DEF Socket
  <2> QED  BY <2>1, <2>2
<1>2. /\ room \in [Side -> ClientState] /\ socket \in [Socket -> SocketState]
      /\ hub \in Nat /\ hubs \in Nat /\ hub <= hubs /\ output \in Nat
  BY TableFacts
<1>3. /\ room' = [room EXCEPT ![r].conn = s, ![r].ready = FALSE] /\ socket' = [socket EXCEPT ![s] = k]
      /\ UNCHANGED <<output, down, air>> /\ hub' = IF hub = 0 THEN hubs + 1 ELSE hub
  BY <1>1 DEF Connect, tableVars
<1>4. k.phase = "accepted" /\ k.after = room[r].last
  BY DEF NewSocket
<1> HIDE DEF k
<1>5. /\ socket'[s].phase = "accepted" /\ socket'[s].after = room[r].last
      /\ \A t \in Socket : t # s => socket'[t] = socket[t]
  BY <1>1, <1>2, <1>3, <1>4
<1>6. /\ room'[r].conn = s /\ room'[r].last = room[r].last /\ room'[r].why = room[r].why
      /\ \A q \in Side : q # r => room'[q] = room[q]
  <2>1. room[r] \in ClientState
    BY <1>2
  <2>2. /\ room'[r] = [room[r] EXCEPT !.conn = s, !.ready = FALSE]
        /\ \A q \in Side : q # r => room'[q] = room[q]
    BY <1>2, <1>3
  <2> QED  BY <2>1, <2>2 DEF ClientState
<1>7. ASSUME NEW q \in Side, NEW t \in Socket, room[q].conn = t
      PROVE  t <= opened /\ t # s
  BY <1>1, <1>7 DEF StreamInv, ConnOK
<1> HIDE DEF s
<1>8. ASSUME NEW t \in Socket, Listens(t)'
      PROVE  \E a, b \in Nat : Receiver(t, a, b)'
  <2>1. t # s /\ socket'[t] = socket[t] /\ Listens(t)
    BY <1>5, <1>8 DEF Listens
  <2>2. PICK a \in Nat, b \in Nat : Receiver(t, a, b)
    BY <2>1 DEF InStep
  <2>3. socket'[t].hub = hub' => socket[t].hub = hub
    <3>1. socket[t].hub <= hubs /\ socket[t].hub \in Nat
      BY TaskFacts DEF SocketOK, SocketState
    <3> QED  BY <1>2, <1>3, <2>1, <3>1
  <2>4. room'["viewer"].conn = t => room["viewer"].conn = t /\ room'["viewer"].last = room["viewer"].last
    BY <1>6, <2>1 DEF Side
  <2>5. Reach(t, a)' = Reach(t, a)
    BY <2>1 DEF Reach
  <2>6. Receiver(t, a, b)'
    BY <1>3, <2>1, <2>2, <2>3, <2>4, <2>5 DEF Receiver
  <2> QED  BY <2>6
<1>9. ASSUME NEW t \in Socket, room'["viewer"].conn = t
      PROVE  Underway(t)' /\ room'["host"].conn # t
  <2>1. CASE r = "viewer"
    <3>1. t = s /\ room'["host"].conn = room["host"].conn /\ room["host"].conn # s
      BY <1>1, <1>6, <1>7, <1>9, <2>1 DEF Side
    <3>2. down'[s] = <<>> /\ room["viewer"].last \in Nat
      <4>1. s > opened
        BY <1>1 DEF s
      <4> QED  BY <1>1, <1>3, <4>1, StepFacts DEF StreamInv, DownOK
    <3>3. NoOutput(<<>>) /\ <<>> \in Seq(Messages)
      BY EmptyOf DEF NoOutput
    <3>4. Follows(<<>>, room["viewer"].last, room["viewer"].last)
      BY <3>2, <3>3, FollowsNothing
    <3>5. Underway(t)'
      BY <1>5, <1>6, <2>1, <3>1, <3>2, <3>3, <3>4 DEF Underway
    <3> QED  BY <3>1, <3>5
  <2>2. CASE r = "host"
    <3>1. /\ room["viewer"].conn = t /\ t # s /\ room'["viewer"].last = room["viewer"].last
          /\ room'["host"].conn = s
      BY <1>6, <1>7, <1>9, <2>2 DEF Side
    <3>2. Underway(t) /\ socket'[t] = socket[t] /\ down' = down
      BY <1>3, <1>5, <3>1 DEF InStep
    <3>3. Underway(t)'
      BY <3>1, <3>2 DEF Underway
    <3> QED  BY <3>1, <3>3
  <2> QED  BY <2>1, <2>2 DEF Side
<1>10. air'.top <= output' /\ room'["viewer"].why # "order"
  BY <1>3, <1>6 DEF InStep, Side
<1> QED  BY <1>8, <1>9, <1>10 DEF InStep

\* What is replayed follows the cursor of the client.
LEMMA OutputsFollow ==
    ASSUME NEW a \in Nat, NEW b \in Nat, a <= b
    PROVE  Outputs(a, b) \in Seq(Messages) /\ Follows(Outputs(a, b), a, b)
<1> DEFINE q == Outputs(a, b)
           f == [i \in 0..b - a |-> a + i]
<1>1. b - a \in Nat
  OBVIOUS
<1>2. \A i \in 1..b - a : Message("output", a + i, 0) \in Messages
  BY <1>1 DEF Message, Messages
<1>3. q = [i \in 1..b - a |-> Message("output", a + i, 0)]
  BY DEF Outputs
<1>4. q \in [1..b - a -> Messages]
  BY <1>2, <1>3
<1>5. q \in Seq(Messages) /\ Len(q) = b - a
  BY <1>1, <1>4
<1>6. \A i \in 1..b - a : q[i].is = "output" /\ q[i].n = a + i
  BY <1>3 DEF Message
<1>7. f \in [0..b - a -> Nat] /\ f[0] = a /\ f[b - a] = b /\ \A i \in 0..b - a : f[i] = a + i
  BY <1>1
<1> HIDE DEF f, q
<1>8. \A i \in 1..b - a : i \in 0..b - a /\ i - 1 \in 0..b - a /\ a + i = (a + (i - 1)) + 1
  BY <1>1
<1>9. \A i, j \in 0..b - a : i <= j => f[i] <= f[j]
  BY <1>1, <1>7
<1>10. Counts(f, q)
  <2>1. ASSUME NEW i \in 1..b - a
        PROVE  IF q[i].is = "output" THEN q[i].n = f[i - 1] + 1 /\ f[i] = f[i - 1] + 1
                                     ELSE f[i] = f[i - 1]
    BY <1>6, <1>7, <1>8
  <2> QED  BY <1>5, <1>9, <2>1 DEF Counts
<1>11. Follows(q, a, b)
  BY <1>5, <1>7, <1>10 DEF Follows
<1> QED  BY <1>5, <1>11 DEF q

LEMMA SubscribeKeepsStep ==
    ASSUME StreamInv, InStep, NEW s \in Socket, Subscribe(s) \/ ReadCutoff(s)
    PROVE  InStep'
<1>1. /\ socket \in [Socket -> SocketState] /\ socket[s] \in SocketState /\ output \in Nat
      /\ air.top \in Nat /\ air.top <= output
  BY TableFacts, StepFacts DEF InStep
<1>2. /\ UNCHANGED <<room, air, hub, output, down>>
  BY DEF Subscribe, ReadCutoff, relayRest, clientVars, tableVars
<1>3. CASE Subscribe(s)
  <2> DEFINE k == [socket[s] EXCEPT !.phase = "listening"]
  <2>1. socket[s].phase = "accepted" /\ socket' = [socket EXCEPT ![s] = k]
    BY <1>3 DEF Subscribe, Goes
  <2>2. /\ k.phase = "listening" /\ k.heard = socket[s].heard /\ k.cutoff = socket[s].cutoff
        /\ k.hub = socket[s].hub /\ k.after = socket[s].after
    BY <1>1 DEF SocketState
  <2> HIDE DEF k
  <2>3. socket'[s] = k /\ \A t \in Socket : t # s => socket'[t] = socket[t]
    BY <1>1, <2>1
  <2>4. socket[s].heard = <<>>
    BY <2>1, TaskFacts DEF SocketOK
  <2>5. Follows(<<>>, air.top, air.top)
    <3>1. <<>> \in Seq(Messages) /\ NoOutput(<<>>)
      BY EmptyOf DEF NoOutput
    <3> QED  BY <1>1, <3>1, FollowsNothing
  <2>6. Receiver(s, air.top, air.top)'
    BY <1>1, <1>2, <2>2, <2>3, <2>4, <2>5 DEF Receiver
  <2>7. \E a, b \in Nat : Receiver(s, a, b)'
    <3>1. air'.top \in Nat
      BY <1>1, <1>2
    <3> QED  BY <2>6, <3>1
  <2>8. room["viewer"].conn = s => Underway(s)'
    BY <1>2, <2>1, <2>2, <2>3 DEF InStep, Underway
  <2> QED  BY <1>1, <1>2, <2>3, <2>7, <2>8, TaskInStep
<1>4. CASE ReadCutoff(s)
  <2> DEFINE k == [socket[s] EXCEPT !.phase = "cut", !.cutoff = output]
  <2>1. socket[s].phase = "listening" /\ socket' = [socket EXCEPT ![s] = k]
    BY <1>1, <1>4 DEF ReadCutoff
  <2>2. /\ k.phase = "cut" /\ k.heard = socket[s].heard /\ k.cutoff = output
        /\ k.hub = socket[s].hub /\ k.after = socket[s].after
    BY <1>1 DEF SocketState
  <2> HIDE DEF k
  <2>3. socket'[s] = k /\ \A t \in Socket : t # s => socket'[t] = socket[t]
    BY <1>1, <2>1
  <2>4. PICK a \in Nat, b \in Nat : Receiver(s, a, b)
    BY <2>1 DEF InStep, Listens
  <2>5. Receiver(s, a, b)'
    BY <1>2, <2>1, <2>2, <2>3, <2>4 DEF Receiver
  <2>6. room["viewer"].conn = s => Underway(s)'
    BY <1>2, <2>1, <2>2, <2>3 DEF InStep, Underway
  <2> QED  BY <1>1, <1>2, <2>3, <2>5, <2>6, TaskInStep
<1> QED  BY <1>3, <1>4

\* The replay ends where the receiver begins, at the latest.
LEMMA ReplayKeepsStep ==
    ASSUME StreamInv, InStep, NEW s \in Socket, Replay(s)
    PROVE  InStep'
<1> DEFINE c == socket[s]
           end == Message("ready", c.cutoff, nextInput)
           said == Append(Outputs(c.after, c.cutoff), end)
           failed == <<Message("error", 0, 0), Message("end", 0, 0)>>
<1>1. /\ socket \in [Socket -> SocketState] /\ c \in SocketState /\ output \in Nat /\ nextInput \in Nat
      /\ c.cutoff \in Nat /\ c.after \in Nat /\ down[s] \in Seq(Messages) /\ room["viewer"].last \in Nat
  BY TableFacts, StepFacts
<1>2. c.phase = "cut" /\ UNCHANGED <<room, air, hub, output>>
  BY DEF Replay, relayRest, clientVars, tableVars
<1>3. c.by \in Side
  BY <1>2, TaskFacts DEF SocketOK, Serving
<1>4. room["viewer"].conn = s =>
        c.after = room["viewer"].last /\ NoOutput(down[s]) /\ Follows(down[s], c.after, c.after)
  BY <1>1, <1>2, FollowsNothing DEF InStep, Underway
<1>5. CASE WindowCovers(c)
  <2> DEFINE k == [c EXCEPT !.phase = "replayed"]
  <2>1. Deliver(s, said) /\ socket' = [socket EXCEPT ![s] = k]
    BY <1>5 DEF Replay, Goes
  <2>2. /\ k.phase = "replayed" /\ k.heard = c.heard /\ k.cutoff = c.cutoff /\ k.hub = c.hub
    BY <1>1 DEF SocketState
  <2> HIDE DEF k
  <2>3. socket'[s] = k /\ \A t \in Socket : t # s => socket'[t] = socket[t]
    BY <1>1, <2>1
  <2>4. PICK a \in Nat, b \in Nat : Receiver(s, a, b)
    BY <1>2 DEF InStep, Listens
  <2>5. Receiver(s, a, b)'
    BY <1>2, <2>2, <2>3, <2>4 DEF Receiver
  <2>6. c.after <= c.cutoff
    BY <1>1, <1>5 DEF WindowCovers
  <2>7. Outputs(c.after, c.cutoff) \in Seq(Messages) /\ Follows(Outputs(c.after, c.cutoff), c.after, c.cutoff)
    BY <1>1, <2>6, OutputsFollow
  <2>8. <<end>> \in Seq(Messages) /\ NoOutput(<<end>>)
    <3>1. end \in Messages /\ end.is # "output"
      BY <1>1 DEF Messages, Message
    <3> HIDE DEF end
    <3>2. <<end>> \in Seq(Messages) /\ Len(<<end>>) = 1 /\ <<end>>[1] = end
      BY <3>1
    <3> QED  BY <3>1, <3>2 DEF NoOutput
  <2>9. said = Outputs(c.after, c.cutoff) \o <<end>> /\ said \in Seq(Messages)
    <3>1. end \in Messages
      BY <1>1 DEF Messages, Message
    <3> HIDE DEF end
    <3>2. said = Outputs(c.after, c.cutoff) \o <<end>>
      BY <2>7, <3>1, AppendIsConcat
    <3> QED  BY <2>7, <2>8, <3>2
  <2>10. Follows(said, c.after, c.cutoff)
    BY <1>1, <2>7, <2>8, <2>9, FollowsQuiet
  <2> HIDE DEF said, end
  <2>11. /\ \A t \in Socket : t # s => down'[t] = down[t]
         /\ room["viewer"].conn = s => down'[s] = down[s] \o said
    BY <1>3, <2>1, DeliversToViewer
  <2>12. room["viewer"].conn = s => Follows(down[s] \o said, room["viewer"].last, c.cutoff)
    BY <1>1, <1>4, <2>9, <2>10, FollowsMore
  <2>13. room["viewer"].conn = s => Underway(s)'
    BY <1>1, <1>2, <2>2, <2>3, <2>11, <2>12 DEF Underway
  <2> QED  BY <1>1, <1>2, <2>3, <2>5, <2>11, <2>13, TaskInStep
<1>6. CASE ~WindowCovers(c)
  <2>1. Deliver(s, failed) /\ socket' = [socket EXCEPT ![s] = Done]
    BY <1>6 DEF Replay, Goes
  <2>2. Done.phase = "done"
    BY DEF Done, NewSocket
  <2>3. socket'[s] = Done /\ \A t \in Socket : t # s => socket'[t] = socket[t]
    BY <1>1, <2>1
  <2>4. failed \in Seq(Messages) /\ NoOutput(failed)
    <3>1. /\ Message("error", 0, 0) \in Messages /\ Message("end", 0, 0) \in Messages
          /\ Message("error", 0, 0).is # "output" /\ Message("end", 0, 0).is # "output"
      BY DEF Messages, Message
    <3>2. failed \in Seq(Messages) /\ Len(failed) = 2 /\ \A i \in 1..2 : i = 1 \/ i = 2
      BY <3>1
    <3> QED  BY <3>1, <3>2 DEF NoOutput
  <2> HIDE DEF failed
  <2>5. /\ \A t \in Socket : t # s => down'[t] = down[t]
        /\ room["viewer"].conn = s => down'[s] = down[s] \o failed
    BY <1>3, <2>1, DeliversToViewer
  <2>6. room["viewer"].conn = s => Follows(down[s] \o failed, room["viewer"].last, c.after)
    BY <1>1, <1>4, <2>4, FollowsQuiet
  <2>7. room["viewer"].conn = s => Underway(s)'
    BY <1>1, <1>2, <2>2, <2>3, <2>5, <2>6 DEF Underway
  <2>8. ~Listens(s)'
    BY <2>2, <2>3 DEF Listens
  <2> QED  BY <1>1, <1>2, <2>3, <2>5, <2>7, <2>8, TaskInStep
<1> QED  BY <1>5, <1>6

\* What a serving task sends that is no output changes nothing for the participant.
LEMMA QuietKeepsStep ==
    ASSUME StreamInv, InStep, NEW s \in Socket, Listens(s), NEW k, NEW q \in Seq(Messages), NoOutput(q),
           socket' = [socket EXCEPT ![s] = k],
           k.heard = socket[s].heard, k.cutoff = socket[s].cutoff, k.hub = socket[s].hub,
           k.phase = "loop", socket[s].phase \in {"replayed", "loop"},
           down' = down \/ Deliver(s, q), UNCHANGED <<room, air, hub>>,
           output' \in Nat, output <= output'
    PROVE  InStep'
<1>1. /\ socket \in [Socket -> SocketState] /\ output \in Nat
      /\ socket[s].cutoff \in Nat /\ down[s] \in Seq(Messages) /\ room["viewer"].last \in Nat
  BY TableFacts, StepFacts
<1>2. socket'[s] = k /\ \A t \in Socket : t # s => socket'[t] = socket[t]
  BY <1>1
<1>3. socket[s].by \in Side
  BY TaskFacts DEF SocketOK, Serving
<1>4. \A t \in Socket : t # s => down'[t] = down[t]
  BY <1>3, DeliversToViewer
<1>5. ASSUME room["viewer"].conn = s, NEW d \in Nat, Follows(down[s], room["viewer"].last, d)
      PROVE  Follows(down'[s], room["viewer"].last, d)
  <2>1. CASE down' = down
    BY <1>5, <2>1
  <2>2. CASE Deliver(s, q)
    <3>1. down'[s] = down[s] \o q
      BY <1>3, <1>5, <2>2, DeliversToViewer
    <3> QED  BY <1>1, <1>5, <3>1, FollowsQuiet
  <2> QED  BY <2>1, <2>2
<1>6. PICK a \in Nat, b \in Nat : Receiver(s, a, b)
  BY DEF InStep
<1>7. Reach(s, a)' = Reach(s, a) /\ Reach(s, a) \in Nat
  BY <1>1, <1>2 DEF Reach
<1>8. room["viewer"].conn = s => Follows(down[s], room["viewer"].last, Reach(s, a))
  <2>1. CASE socket[s].phase = "loop"
    BY <1>6, <2>1 DEF Receiver
  <2>2. CASE socket[s].phase = "replayed"
    <3>1. Reach(s, a) = socket[s].cutoff
      BY <1>1, <1>6, <2>2 DEF Receiver, Reach
    <3> QED  BY <2>2, <3>1 DEF InStep, Underway
  <2> QED  BY <2>1, <2>2
<1>9. Receiver(s, a, b)'
  BY <1>2, <1>5, <1>6, <1>7, <1>8 DEF Receiver
<1>10. room["viewer"].conn = s => Underway(s)'
  BY <1>2, <1>5, <1>7, <1>8 DEF Underway
<1> QED  BY <1>1, <1>2, <1>4, <1>9, <1>10, TaskInStep

LEMMA ServingKeepsStep ==
    ASSUME StreamInv, InStep, NEW s \in Socket,
           SendControl(s) \/ CommitOutput(s) \/ CommitInput(s) \/ RefuseFrame(s)
    PROVE  InStep'
<1>1. /\ socket \in [Socket -> SocketState] /\ socket[s] \in SocketState /\ output \in Nat
  BY TableFacts
<1>2. UNCHANGED <<room, air, hub>>
  BY DEF SendControl, CommitOutput, CommitInput, RefuseFrame, relayRest, relayVars, clientVars
<1>3. CASE SendControl(s)
  <2> DEFINE k == [socket[s] EXCEPT !.phase = "loop"]
             m == Control(IF lease > expired THEN lease ELSE 0)
  <2>1. socket[s].phase = "replayed" /\ socket' = [socket EXCEPT ![s] = k] /\ Deliver(s, <<m>>) /\ output' = output
    BY <1>3 DEF SendControl, Goes, tableVars
  <2>2. /\ k.phase = "loop" /\ k.heard = socket[s].heard /\ k.cutoff = socket[s].cutoff
        /\ k.hub = socket[s].hub
    BY <1>1 DEF SocketState
  <2>3. m \in Messages /\ m.is # "output"
    <3>1. lease \in 0..MaxGrants /\ MaxGrants \in Nat
      BY HostFacts, StreamAssumption
    <3> QED  BY <3>1 DEF Control, Message, Messages
  <2> HIDE DEF k, m
  <2>4. <<m>> \in Seq(Messages) /\ NoOutput(<<m>>)
    <3>1. <<m>> \in Seq(Messages) /\ Len(<<m>>) = 1 /\ <<m>>[1] = m
      BY <2>3
    <3> QED  BY <2>3, <3>1 DEF NoOutput
  <2>5. Listens(s) /\ output' \in Nat /\ output <= output'
    BY <1>1, <2>1 DEF Listens
  <2> QED  BY <1>2, <2>1, <2>2, <2>4, <2>5, QuietKeepsStep
<1>4. CASE CommitOutput(s) \/ CommitInput(s)
  <2>1. PICK stored : socket' = [socket EXCEPT ![s].stored = stored]
    BY <1>4 DEF CommitOutput, CommitInput
  <2> DEFINE k == [socket[s] EXCEPT !.stored = stored]
  <2>2. socket' = [socket EXCEPT ![s] = k] /\ socket[s].phase = "loop"
    BY <1>4, <2>1 DEF CommitOutput, CommitInput, Serves
  <2>3. /\ k.phase = "loop" /\ k.heard = socket[s].heard /\ k.cutoff = socket[s].cutoff
        /\ k.hub = socket[s].hub
    BY <1>1, <2>2 DEF SocketState
  <2>4. down' = down /\ output' \in Nat /\ output <= output'
    <3>1. output' \in {output, output + 1} /\ down' = down
      BY <1>4 DEF CommitOutput, CommitInput
    <3> QED  BY <1>1, <3>1
  <2> HIDE DEF k
  <2>5. Listens(s) /\ <<>> \in Seq(Messages) /\ NoOutput(<<>>)
    BY <2>2, EmptyOf DEF Listens, NoOutput
  <2> QED  BY <1>2, <2>2, <2>3, <2>4, <2>5, QuietKeepsStep
<1>5. CASE RefuseFrame(s)
  <2> DEFINE m == Message("error", 0, 0)
  <2>1. /\ socket[s].phase = "loop" /\ socket' = socket /\ Deliver(s, <<m>>) /\ output' = output
    BY <1>5 DEF RefuseFrame, Serves, relayVars, tableVars
  <2>2. m \in Messages /\ m.is # "output"
    BY DEF Message, Messages
  <2> HIDE DEF m
  <2>3. <<m>> \in Seq(Messages) /\ NoOutput(<<m>>)
    <3>1. <<m>> \in Seq(Messages) /\ Len(<<m>>) = 1 /\ <<m>>[1] = m
      BY <2>2
    <3> QED  BY <2>2, <3>1 DEF NoOutput
  <2>4. socket' = [socket EXCEPT ![s] = socket[s]]
    BY <1>1, <2>1
  <2>5. Listens(s) /\ output' \in Nat /\ output <= output'
    BY <1>1, <2>1 DEF Listens
  <2> QED  BY <1>2, <2>1, <2>3, <2>4, <2>5, QuietKeepsStep
<1> QED  BY <1>3, <1>4, <1>5

\* A socket that ends hears nothing more and sends no output.
LEMMA EndingKeepsStep ==
    ASSUME StreamInv, InStep, NEW s \in Socket, Abandon(s) \/ EndSocket(s) \/ RemoveHub(s)
    PROVE  InStep'
<1>1. /\ socket \in [Socket -> SocketState] /\ output \in Nat
      /\ down[s] \in Seq(Messages) /\ room["viewer"].last \in Nat
  BY TableFacts, StepFacts
<1>2. UNCHANGED <<room, air, output>> /\ hub' \in {0, hub}
  BY DEF Abandon, EndSocket, RemoveHub, Gone, relayRest, clientVars, tableVars
<1>3. PICK k : socket' = [socket EXCEPT ![s] = k] /\ k.phase \in {"done", "leaving"}
  <2>1. CASE RemoveHub(s)
    BY <2>1 DEF RemoveHub, Goes, Done, NewSocket
  <2>2. CASE Abandon(s) \/ EndSocket(s)
    <3>1. \E phase \in {"done", "leaving"} : socket' = [socket EXCEPT ![s] = [NewSocket EXCEPT !.phase = phase]]
      BY <2>2 DEF Abandon, EndSocket, Gone
    <3>2. \A phase : [NewSocket EXCEPT !.phase = phase].phase = phase
      BY DEF NewSocket
    <3> QED  BY <3>1, <3>2
  <2> QED  BY <2>1, <2>2
<1>4. /\ socket'[s] = k /\ ~Listens(s)' /\ \A t \in Socket : t # s => socket'[t] = socket[t]
  BY <1>1, <1>3 DEF Listens
<1> DEFINE end == <<Message("end", 0, 0)>>
<1>5. end \in Seq(Messages) /\ NoOutput(end)
  <2>1. Message("end", 0, 0) \in Messages /\ Message("end", 0, 0).is # "output"
    BY DEF Message, Messages
  <2>2. end \in Seq(Messages) /\ Len(end) = 1 /\ end[1] = Message("end", 0, 0)
    BY <2>1
  <2> QED  BY <2>1, <2>2 DEF NoOutput
<1>6. down' = down \/ (socket[s].by \in Side /\ Deliver(s, end))
  <2>1. CASE RemoveHub(s)
    BY <2>1 DEF RemoveHub
  <2>2. CASE Abandon(s) \/ EndSocket(s)
    <3>1. socket[s].phase \in Serving /\ Deliver(s, end)
      BY <2>2 DEF Abandon, EndSocket, Gone, Serves, Serving
    <3> QED  BY <3>1, TaskFacts DEF SocketOK
  <2> QED  BY <2>1, <2>2
<1> HIDE DEF end
<1>7. /\ \A t \in Socket : t # s => down'[t] = down[t]
      /\ room["viewer"].conn = s => down'[s] \in {down[s], down[s] \o end}
  BY <1>6, DeliversToViewer
<1>8. ASSUME room["viewer"].conn = s
      PROVE  Underway(s)'
  <2>1. PICK d \in Nat : Follows(down[s], room["viewer"].last, d)
    BY <1>8 DEF InStep, Underway
  <2>2. Follows(down'[s], room["viewer"].last, d)
    BY <1>1, <1>5, <1>7, <1>8, <2>1, FollowsQuiet
  <2> QED  BY <1>2, <1>3, <1>4, <2>2 DEF Underway
<1> QED  BY <1>1, <1>2, <1>4, <1>7, <1>8, TaskInStep

\* A task forwards what it hears beyond its cutoff: the output after what is under way.
LEMMA ForwardKeepsStep ==
    ASSUME StreamInv, InStep, NEW s \in Socket, Forward(s)
    PROVE  InStep'
<1> DEFINE q == socket[s].heard
           m == Head(q)
           k == [socket[s] EXCEPT !.heard = Tail(q)]
           said == IF Passes(s, m) THEN <<m>> ELSE <<>>
<1>1. /\ socket \in [Socket -> SocketState] /\ socket[s] \in SocketState /\ output \in Nat
      /\ socket[s].cutoff \in Nat /\ down[s] \in Seq(Messages) /\ room["viewer"].last \in Nat
      /\ q \in Seq(Messages)
  BY TableFacts, StepFacts
<1>2. /\ socket[s].phase = "loop" /\ q # <<>> /\ socket' = [socket EXCEPT ![s] = k] /\ Deliver(s, said)
      /\ UNCHANGED <<room, air, hub, output>>
  BY <1>1 DEF Forward, Serves, relayRest, clientVars, tableVars
<1>3. /\ k.phase = "loop" /\ k.heard = Tail(q) /\ k.cutoff = socket[s].cutoff /\ k.hub = socket[s].hub
  BY <1>1, <1>2 DEF SocketState
<1> HIDE DEF k
<1>4. socket'[s] = k /\ \A t \in Socket : t # s => socket'[t] = socket[t]
  BY <1>1, <1>2
<1>5. socket[s].by \in Side
  BY <1>2, TaskFacts DEF SocketOK, Serving
<1>6. m \in Messages /\ <<m>> \in Seq(Messages) /\ <<>> \in Seq(Messages) /\ NoOutput(<<>>)
  <2>1. m \in Messages
    BY <1>1, <1>2
  <2> QED  BY <2>1, EmptyOf DEF NoOutput
<1>7. /\ \A t \in Socket : t # s => down'[t] = down[t]
      /\ room["viewer"].conn = s => down'[s] = down[s] \o said
  BY <1>2, <1>5, DeliversToViewer
<1>8. PICK a \in Nat, b \in Nat : Receiver(s, a, b)
  BY <1>2 DEF InStep, Listens
<1>9. /\ Follows(q, a, b) /\ (socket[s].hub = hub => b = air.top)
      /\ room["viewer"].conn = s => Follows(down[s], room["viewer"].last, Reach(s, a))
  BY <1>2, <1>8 DEF Receiver
<1>10. Reach(s, a) \in Nat
  BY <1>1 DEF Reach
<1>11. \E c \in Nat : /\ Follows(Tail(q), c, b) /\ Reach(s, c) \in Nat
                      /\ room["viewer"].conn = s => Follows(down'[s], room["viewer"].last, Reach(s, c))
  <2>1. CASE m.is # "output"
    <3>1. Follows(Tail(q), a, b)
      BY <1>1, <1>2, <1>9, <2>1, FollowsTail
    <3>2. said \in Seq(Messages) /\ NoOutput(said)
      <4>1. Len(<<m>>) = 1 /\ <<m>>[1] = m
        OBVIOUS
      <4>2. NoOutput(<<m>>)
        BY <2>1, <4>1 DEF NoOutput
      <4> QED  BY <1>6, <4>2
    <3> HIDE DEF said
    <3>3. room["viewer"].conn = s => Follows(down'[s], room["viewer"].last, Reach(s, a))
      BY <1>1, <1>7, <1>9, <1>10, <3>2, FollowsQuiet
    <3> QED  BY <1>10, <3>1, <3>3
  <2>2. CASE m.is = "output" /\ a >= socket[s].cutoff
    <3>1. m.n = a + 1 /\ Follows(Tail(q), a + 1, b)
      BY <1>1, <1>2, <1>9, <2>2, FollowsTail
    <3>2. Reach(s, a) = a /\ Reach(s, a + 1) = a + 1 /\ a + 1 \in Nat /\ a + 1 > socket[s].cutoff
      BY <1>1, <2>2 DEF Reach
    <3>3. said = <<m>>
      BY <2>2, <3>1, <3>2 DEF Passes
    <3>4. Follows(<<m>>, a, a + 1)
      BY <1>6, <2>2, <3>1, FollowsOne
    <3> HIDE DEF said, m
    <3>5. room["viewer"].conn = s => Follows(down[s] \o <<m>>, room["viewer"].last, a + 1)
      BY <1>1, <1>6, <1>9, <3>2, <3>4, FollowsMore
    <3> QED  BY <1>7, <3>1, <3>2, <3>3, <3>5
  <2>3. CASE m.is = "output" /\ a < socket[s].cutoff
    <3>1. m.n = a + 1 /\ Follows(Tail(q), a + 1, b)
      BY <1>1, <1>2, <1>9, <2>3, FollowsTail
    <3>2. Reach(s, a) = socket[s].cutoff /\ Reach(s, a + 1) = socket[s].cutoff /\ a + 1 \in Nat
          /\ ~(a + 1 > socket[s].cutoff)
      BY <1>1, <2>3 DEF Reach
    <3>3. said = <<>>
      BY <2>3, <3>1, <3>2 DEF Passes
    <3> HIDE DEF said, m
    <3>4. room["viewer"].conn = s => Follows(down'[s], room["viewer"].last, socket[s].cutoff)
      BY <1>1, <1>6, <1>7, <1>9, <3>2, <3>3, FollowsQuiet
    <3> QED  BY <1>1, <3>1, <3>2, <3>4
  <2> QED  BY <1>1, <2>1, <2>2, <2>3
<1>12. PICK c \in Nat :
          /\ Follows(Tail(q), c, b) /\ Reach(s, c) \in Nat
          /\ room["viewer"].conn = s => Follows(down'[s], room["viewer"].last, Reach(s, c))
  BY <1>11
<1>13. Reach(s, c)' = Reach(s, c)
  BY <1>3, <1>4 DEF Reach
<1>14. Receiver(s, c, b)'
  BY <1>2, <1>3, <1>4, <1>9, <1>12, <1>13 DEF Receiver
<1>15. room["viewer"].conn = s => Underway(s)'
  BY <1>2, <1>3, <1>4, <1>12 DEF Underway
<1> QED  BY <1>1, <1>2, <1>4, <1>7, <1>14, <1>15, TaskInStep

\* A receiver that is not full, or drops no output, follows what is sent to its hub.
LEMMA HeardFollows ==
    ASSUME NEW q \in Seq(Messages), NEW m \in Messages, NEW a \in Nat, NEW b \in Nat, NEW c \in Nat,
           Follows(q, a, b), Follows(<<m>>, b, c),
           Len(q) = HubSize => Head(Append(q, m)).is # "output"
    PROVE  Follows(Heard(q, m), a, c)
<1>1. <<m>> \in Seq(Messages) /\ HubSize \in Nat /\ HubSize > 0
  BY StreamAssumption
<1>2. CASE Len(q) # HubSize
  <2>1. Heard(q, m) = q \o <<m>>
    BY <1>2, AppendIsConcat DEF Heard
  <2> QED  BY <1>1, <2>1, FollowsMore
<1>3. CASE Len(q) = HubSize
  <2>1. q # <<>> /\ Tail(q) \in Seq(Messages) /\ Head(Append(q, m)) = Head(q)
    <3>1. q # <<>>
      BY <1>1, <1>3
    <3> QED  BY <3>1
  <2>2. Follows(Tail(q), a, b)
    BY <1>3, <2>1, FollowsTail
  <2>3. Heard(q, m) = Tail(q) \o <<m>>
    BY <1>3, <2>1, AppendIsConcat DEF Heard
  <2> QED  BY <1>1, <2>1, <2>2, <2>3, FollowsMore
<1> QED  BY <1>2, <1>3

LEMMA BroadcastKeepsStep ==
    ASSUME StreamInv, InStep, NEW m \in Messages, m.is = "output" => m.n <= output,
           NEW sock \in [Socket -> SocketState], Broadcast(m, sock), ~air'.bad,
           \A t \in Socket :
               /\ sock[t].cutoff = socket[t].cutoff /\ sock[t].heard = socket[t].heard
               /\ sock[t].hub = socket[t].hub /\ sock[t].phase = socket[t].phase
               /\ sock[t].after = socket[t].after,
           NEW p \in Seq(Messages), NoOutput(p),
           \A t \in Socket : room["viewer"].conn = t => down'[t] \in {down[t], down[t] \o p},
           UNCHANGED <<room, output>>
    PROVE  InStep'
<1>1. /\ hub \in Nat /\ hubs \in Nat /\ hub <= hubs /\ output \in Nat /\ air.top \in Nat
      /\ air \in [top : Nat, bad : BOOLEAN] /\ air.top <= output /\ m.n \in Nat
  BY TableFacts DEF InStep, Messages
<1>2. /\ ~LosesOutput(m)
      /\ m.is = "output" => m.n = air.top + 1 /\ air'.top = air.top + 1
      /\ m.is # "output" => air'.top = air.top
  <2>1. CASE m.is = "output"
    <3>1. air' = [top |-> IF m.n > air.top THEN m.n ELSE air.top,
                  bad |-> air.bad \/ m.n # air.top + 1 \/ LosesOutput(m)]
      BY <2>1 DEF Broadcast
    <3>2. /\ air'.bad = (air.bad \/ m.n # air.top + 1 \/ LosesOutput(m))
          /\ air'.top = IF m.n > air.top THEN m.n ELSE air.top
      BY <3>1
    <3>3. ~LosesOutput(m) /\ m.n = air.top + 1
      BY <3>2, Zenon
    <3> QED  BY <1>1, <2>1, <3>2, <3>3
  <2>2. CASE m.is # "output"
    <3>1. air' = [air EXCEPT !.bad = @ \/ LosesOutput(m)]
      BY <2>2 DEF Broadcast
    <3>2. air'.bad = (air.bad \/ LosesOutput(m)) /\ air'.top = air.top
      BY <1>1, <3>1
    <3> QED  BY <2>2, <3>2
  <2> QED  BY <2>1, <2>2
<1>3. air'.top \in Nat /\ Follows(<<m>>, air.top, air'.top) /\ air'.top <= output
  BY <1>1, <1>2, FollowsOne
<1>4. ASSUME NEW t \in Socket
      PROVE  /\ Listens(t) /\ socket[t].hub = hub' =>
                   hub' = hub /\ socket'[t].heard = Heard(socket[t].heard, m)
             /\ ~(Listens(t) /\ socket[t].hub = hub') => socket'[t].heard = socket[t].heard
             /\ socket'[t].cutoff = socket[t].cutoff /\ socket'[t].hub = socket[t].hub
             /\ socket'[t].phase = socket[t].phase /\ socket'[t].after = socket[t].after
  <2> DEFINE k == [sock[t] EXCEPT !.heard = Heard(@, m)]
  <2>1. sock[t] \in SocketState
    OBVIOUS
  <2>2. /\ k.heard = Heard(socket[t].heard, m) /\ k.cutoff = socket[t].cutoff /\ k.hub = socket[t].hub
        /\ k.phase = socket[t].phase /\ k.after = socket[t].after
    BY <2>1 DEF SocketState
  <2>3. socket'[t] = IF Listens(t) /\ socket[t].hub = hub' THEN k ELSE sock[t]
    BY DEF Broadcast
  <2>4. Listens(t) /\ socket[t].hub = hub' => hub' = hub
    <3>1. socket[t].hub <= hubs /\ socket[t].hub \in Nat
      BY TaskFacts DEF SocketOK, SocketState
    <3> QED  BY <1>1, <3>1 DEF Broadcast
  <2> HIDE DEF k
  <2> QED  BY <2>2, <2>3, <2>4
<1>5. ASSUME NEW t \in Socket, room["viewer"].conn = t, NEW d \in Nat,
             Follows(down[t], room["viewer"].last, d)
      PROVE  Follows(down'[t], room["viewer"].last, d)
  <2>1. down[t] \in Seq(Messages) /\ room["viewer"].last \in Nat
    BY StepFacts
  <2>2. Follows(down[t] \o p, room["viewer"].last, d)
    BY <1>5, <2>1, FollowsQuiet
  <2> QED  BY <1>5, <2>2
<1>6. ASSUME NEW t \in Socket, Listens(t)'
      PROVE  \E a, b \in Nat : Receiver(t, a, b)'
  <2>1. Listens(t)
    BY <1>4, <1>6 DEF Listens
  <2>2. PICK a \in Nat, b \in Nat : Receiver(t, a, b)
    BY <2>1 DEF InStep
  <2>3. Reach(t, a)' = Reach(t, a) /\ Reach(t, a) \in Nat
    BY <1>4, StepFacts DEF Reach
  <2>4. CASE socket[t].hub = hub'
    <3>1. hub' = hub /\ socket'[t].heard = Heard(socket[t].heard, m) /\ b = air.top
      BY <1>4, <2>1, <2>2, <2>4 DEF Receiver
    <3>2. Len(socket[t].heard) = HubSize => Head(Append(socket[t].heard, m)).is # "output"
      BY <1>2, <2>1, <2>4, <3>1 DEF LosesOutput
    <3>3. Follows(socket[t].heard, a, air.top) /\ socket[t].heard \in Seq(Messages)
      BY <2>2, <3>1, StepFacts DEF Receiver
    <3>4. Follows(socket'[t].heard, a, air'.top)
      BY <1>1, <1>3, <3>1, <3>2, <3>3, HeardFollows
    <3>5. PICK c \in Nat : c = air'.top
      BY <1>3
    <3>6. socket'[t].phase = "loop" /\ room'["viewer"].conn = t =>
             Follows(down'[t], room'["viewer"].last, Reach(t, a)')
      BY <1>4, <1>5, <2>2, <2>3 DEF Receiver
    <3>7. /\ socket'[t].phase = "listening" => a <= output'
          /\ socket'[t].phase \in {"cut", "replayed"} => a <= socket'[t].cutoff
      BY <1>4, <2>2 DEF Receiver
    <3>8. Receiver(t, a, c)'
      BY <3>4, <3>5, <3>6, <3>7 DEF Receiver
    <3> QED  BY <3>8
  <2>5. CASE socket[t].hub # hub'
    <3>1. Receiver(t, a, b)'
      BY <1>4, <1>5, <2>2, <2>3, <2>5 DEF Receiver
    <3> QED  BY <3>1
  <2> QED  BY <2>4, <2>5
<1>7. ASSUME NEW t \in Socket, room'["viewer"].conn = t
      PROVE  Underway(t)' /\ room'["host"].conn # t
  <2>1. Underway(t) /\ room["host"].conn # t /\ down[t] \in Seq(Messages) /\ socket[t].cutoff \in Nat
    BY <1>7, StepFacts DEF InStep
  <2>2. NoOutput(down[t]) => NoOutput(down'[t])
    BY <1>7, <2>1, NoOutputMore
  <2> QED  BY <1>4, <1>5, <1>7, <2>1, <2>2 DEF Underway
<1>8. air'.top <= output' /\ room'["viewer"].why # "order"
  BY <1>3 DEF InStep
<1> QED  BY <1>6, <1>7, <1>8 DEF InStep

\* A frame goes to the hub, and its sender hears that it was accepted.
LEMMA AirFrameKeepsStep ==
    ASSUME StreamInv, InStep, NEW s \in Socket, AirFrame(s), ~air'.bad
    PROVE  InStep'
<1> DEFINE m == socket[s].stored[1]
           k == [socket[s] EXCEPT !.stored = <<>>]
           sock == [socket EXCEPT ![s] = k]
           said == <<Message("accepted", m.n, 0)>>
<1>1. socket \in [Socket -> SocketState] /\ socket[s] \in SocketState
  BY TableFacts
<1>2. /\ socket[s].stored # <<>> /\ Broadcast(m, sock) /\ Deliver(s, said) /\ UNCHANGED <<room, output>>
  <2>1. [socket EXCEPT ![s].stored = <<>>] = sock
    BY <1>1
  <2> QED  BY <2>1 DEF AirFrame, relayRest, clientVars, tableVars
<1>3. /\ m \in Messages /\ (m.is = "output" => m.n <= output) /\ m.n \in Nat
      /\ socket[s].by \in Side
  <2>1. socket[s].stored \in Seq(Told) /\ 1 \in 1..Len(socket[s].stored)
    BY <1>2, TaskFacts DEF SocketOK
  <2>2. m \in Told
    BY <2>1
  <2>3. m \in Messages /\ (m.is = "output" => m.n <= output) /\ m.n \in Nat
    BY <2>2 DEF Told, TrueOf, Messages
  <2>4. socket[s].by \in Side
    BY <1>2, TaskFacts DEF SocketOK, Side
  <2> QED  BY <2>3, <2>4
<1>4. said \in Seq(Messages) /\ NoOutput(said)
  <2> DEFINE e == Message("accepted", m.n, 0)
  <2>1. e \in Messages /\ e.is # "output"
    BY <1>3 DEF Message, Messages
  <2> HIDE DEF e
  <2>2. <<e>> \in Seq(Messages) /\ Len(<<e>>) = 1 /\ <<e>>[1] = e
    BY <2>1
  <2> QED  BY <2>1, <2>2 DEF NoOutput, e
<1>5. /\ k \in SocketState /\ k.heard = socket[s].heard /\ k.cutoff = socket[s].cutoff
      /\ k.hub = socket[s].hub /\ k.phase = socket[s].phase /\ k.after = socket[s].after
  <2>1. <<>> \in Seq(Messages)
    BY EmptyOf
  <2> QED  BY <1>1, <2>1 DEF SocketState
<1> HIDE DEF k, said, m
<1>6. /\ sock \in [Socket -> SocketState]
      /\ \A t \in Socket :
            /\ sock[t].cutoff = socket[t].cutoff /\ sock[t].heard = socket[t].heard
            /\ sock[t].hub = socket[t].hub /\ sock[t].phase = socket[t].phase
            /\ sock[t].after = socket[t].after
  BY <1>1, <1>5
<1> HIDE DEF sock
<1>7. \A t \in Socket : room["viewer"].conn = t => down'[t] \in {down[t], down[t] \o said}
  BY <1>2, <1>3, DeliversToViewer
<1> QED  BY <1>2, <1>3, <1>4, <1>6, <1>7, BroadcastKeepsStep

LEMMA AirControlKeepsStep ==
    ASSUME StreamInv, InStep, AirControl, ~air'.bad
    PROVE  InStep'
<1> DEFINE m == Control(IF command.at = "granted" THEN command.gen ELSE 0)
<1>1. Broadcast(m, socket) /\ UNCHANGED <<room, output, down>>
  BY DEF AirControl, commandRest
<1>2. m \in Messages /\ m.is # "output"
  <2>1. command.gen \in Nat
    BY HostFacts, StreamAssumption DEF ControlState
  <2> QED  BY <2>1 DEF Control, Message, Messages
<1> HIDE DEF m
<1>3. socket \in [Socket -> SocketState] /\ <<>> \in Seq(Messages) /\ NoOutput(<<>>)
  BY TableFacts, EmptyOf DEF NoOutput
<1> QED  BY <1>1, <1>2, <1>3, BroadcastKeepsStep

\* Until a hub loses output, the participant stays in step.
LEMMA InStepStep ==
    StreamInv /\ InStep /\ [StreamNext]_streamState /\ ~air'.bad => InStep'
<1> SUFFICES ASSUME StreamInv, InStep, [StreamNext]_streamState, ~air'.bad
             PROVE  InStep'
  OBVIOUS
<1>1. CASE UNCHANGED streamState \/ GrantAtRelay \/ RevokeAtRelay \/ LeaseExpires
  <2>1. UNCHANGED <<room, output, hub, socket, air, down>>
    BY <1>1 DEF streamState, GrantAtRelay, RevokeAtRelay, LeaseExpires, commandRest, relayVars, clientVars
  <2>2. \A t \in Socket : /\ Listens(t)' = Listens(t) /\ Underway(t)' = Underway(t)
                          /\ \A a, b \in Nat : Receiver(t, a, b)' = Receiver(t, a, b)
    BY <2>1 DEF Listens, Underway, Receiver, Reach
  <2> QED  BY <2>1, <2>2 DEF InStep
<1>2. ASSUME NEW r \in Side,
             \/ Connect(r) \/ Reconnect(r) \/ Publish(r)
             \/ ReceiveReady(r) \/ ReceiveAccepted(r) \/ ReceiveOutput(r) \/ ReceiveControl(r)
             \/ ReceiveError(r) \/ ReceiveEnd(r)
      PROVE  InStep'
  BY <1>2, ConnectKeepsStep, ClientsKeepStep, OutputKeepsStep, HostKeepsStep
<1>3. ASSUME NEW s \in Socket,
             \/ Subscribe(s) \/ ReadCutoff(s) \/ Replay(s) \/ SendControl(s)
             \/ CommitOutput(s) \/ CommitInput(s) \/ RefuseFrame(s) \/ AirFrame(s) \/ Forward(s)
             \/ Abandon(s) \/ EndSocket(s) \/ RemoveHub(s)
      PROVE  InStep'
  BY <1>3, SubscribeKeepsStep, ReplayKeepsStep, ServingKeepsStep, AirFrameKeepsStep,
     ForwardKeepsStep, EndingKeepsStep
<1> QED
  BY <1>1, <1>2, <1>3, HostKeepsStep, AirControlKeepsStep DEF StreamNext

\* What a hub has lost stays lost.
LEMMA BadStays == StreamInv /\ [StreamNext]_streamState /\ air.bad => air'.bad
<1> SUFFICES ASSUME StreamInv, [StreamNext]_streamState, air.bad
             PROVE  air'.bad
  OBVIOUS
<1>1. ASSUME NEW m, NEW sock, Broadcast(m, sock)
      PROVE  air'.bad
  <2>1. air \in [top : Nat, bad : BOOLEAN]
    BY TableFacts
  <2>2. CASE m.is = "output"
    <3>1. air'.bad = (air.bad \/ m.n # air.top + 1 \/ LosesOutput(m))
      BY <1>1, <2>2 DEF Broadcast
    <3> QED  BY <3>1
  <2>3. CASE m.is # "output"
    <3>1. air' = [air EXCEPT !.bad = @ \/ LosesOutput(m)]
      BY <1>1, <2>3 DEF Broadcast
    <3>2. air'.bad = (air.bad \/ LosesOutput(m))
      BY <2>1, <3>1
    <3> QED  BY <3>2
  <2> QED  BY <2>2, <2>3
<1>2. CASE air' = air
  BY <1>2
<1>3. ASSUME NEW r \in Side,
             \/ Connect(r) \/ Reconnect(r) \/ Publish(r)
             \/ ReceiveReady(r) \/ ReceiveAccepted(r) \/ ReceiveOutput(r) \/ ReceiveControl(r)
             \/ ReceiveError(r) \/ ReceiveEnd(r)
      PROVE  air' = air
  <2>1. CASE Connect(r) \/ Publish(r)
    BY <2>1 DEF Connect, Publish, relayVars
  <2>2. CASE ReceiveOutput(r)
    BY <2>2 DEF ReceiveOutput, Taken, relayVars
  <2> QED  BY <1>3, <2>1, <2>2, ClientGoesOn DEF relayVars
<1>4. ASSUME NEW s \in Socket,
             \/ Subscribe(s) \/ ReadCutoff(s) \/ Replay(s) \/ SendControl(s)
             \/ CommitOutput(s) \/ CommitInput(s) \/ RefuseFrame(s) \/ Forward(s)
             \/ Abandon(s) \/ EndSocket(s) \/ RemoveHub(s)
      PROVE  air' = air
  BY <1>4 DEF Subscribe, ReadCutoff, Replay, SendControl, CommitOutput, CommitInput, RefuseFrame,
     Forward, Abandon, EndSocket, Gone, RemoveHub, relayVars
<1>5. CASE UNCHANGED streamState \/ GrantAtRelay \/ RevokeAtRelay \/ LeaseExpires
           \/ ReceiveInput \/ ApplyGrant \/ ApplyRevoke
  BY <1>5 DEF streamState, GrantAtRelay, RevokeAtRelay, LeaseExpires, ReceiveInput, Taken, ApplyGrant,
     ApplyRevoke, relayVars
<1>6. CASE AirControl \/ \E s \in Socket : AirFrame(s)
  BY <1>1, <1>6 DEF AirControl, AirFrame
<1> QED  BY <1>2, <1>3, <1>4, <1>5, <1>6 DEF StreamNext

\* What a client has sealed is committed at the relay or still in its outbox, and the
\* participant fails for a hole in the output only if a hub has lost or swapped output.
THEOREM LossIsNoticedHolds == StreamRoomSpec => []LossIsNoticed
<1> DEFINE NoticeInv == StreamInv /\ (air.bad \/ InStep)
<1>1. StreamRoomInit => InStep
  <2> SUFFICES ASSUME StreamRoomInit
               PROVE  InStep
    OBVIOUS
  <2>1. /\ air.top = 0 /\ output = 0 /\ room["viewer"].why = "none" /\ room["viewer"].conn = None
        /\ \A t \in Socket : socket[t] = NewSocket
    BY DEF StreamRoomInit, Side
  <2>2. NewSocket.phase = "none"
    BY DEF NewSocket
  <2> QED  BY <2>1, <2>2, NoneIsNoSocket DEF InStep, Listens
<1>2. NoticeInv /\ [StreamNext]_streamState => NoticeInv'
  BY StreamStep, InStepStep, BadStays
<1>3. NoticeInv => LossIsNoticed
  <2> SUFFICES ASSUME NoticeInv
               PROVE  LossIsNoticed
    OBVIOUS
  <2>1. ASSUME NEW r \in Side, InRoom(r), NEW n \in Committed(r) + 1..room[r].next - 1
        PROVE  \E i \in 1..Len(OutboxOf(r)) : OutboxOf(r)[i].seq = n
    <3> DEFINE pending == room[r].pending
               length == Len(pending)
               next == room[r].next
               i == n - (next - length) + 1
    <3>1. /\ pending \in Seq(Frames) /\ length \in Nat /\ next \in Nat /\ Committed(r) \in Nat
          /\ next - length <= Committed(r) + 1 /\ Contiguous(pending, next)
      BY <2>1, ClientFacts DEF ClientState
    <3> HIDE DEF pending, next
    <3>2. n \in Int /\ Committed(r) + 1 <= n /\ n <= next - 1
      BY <3>1, <2>1 DEF next
    <3> HIDE DEF length
    <3>3. i \in 1..length /\ next - length + i - 1 = n
      BY <3>1, <3>2
    <3>4. pending[i].seq = n
      <4>1. \A j \in DOMAIN pending : pending[j].seq = next - length + j - 1
        BY <3>1 DEF Contiguous, length
      <4>2. i \in DOMAIN pending
        BY <3>1, <3>3 DEF length
      <4> QED  BY <3>3, <4>1, <4>2
    <3> QED  BY <3>3, <3>4 DEF OutboxOf, pending, length
  <2>2. room["viewer"].why = "order" => air.bad
    BY DEF InStep
  <2> QED  BY <2>1, <2>2 DEF LossIsNoticed
<1>4. StreamRoomInit => StreamInv
  BY StreamInit
<1> QED  BY <1>1, <1>2, <1>3, <1>4, PTL DEF StreamRoomSpec
=============================================================================
