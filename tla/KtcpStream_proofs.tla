-------------------------- MODULE KtcpStream_proofs --------------------------
(* Theorems about KtcpStream, for any threads, frames, sockets and messages. *)
EXTENDS KtcpStream, SequenceTheorems, TLAPS

-----------------------------------------------------------------------------
(* The inductive invariant, beyond the types.                              *)

\* A thread past a mutex holds it.
LockInv ==
  /\ \A t \in Senders : spc[t] = "write" => slock = t
  /\ \A t \in Receivers : rpc[t] \in {"read", "oops"} => rlock = t

\* What a sender has written of its frame.
Written(t) == Len(sframe[t]) - left[t]

\* The sender that writes has the last message that was built, and what it has written
\* is the end of the wire; until it writes, nothing of the message is on the wire.
WriterInv ==
  \A t \in Senders : spc[t] = "write" =>
    /\ left[t] > 0 /\ Written(t) <= Len(wire)
    /\ \A i \in DOMAIN sframe[t] : sframe[t][i].msg = nmsg /\ sframe[t][i].pos = i
    /\ \A i \in 1 .. Written(t) : wire[Len(wire) - Written(t) + i] = sframe[t][i]
    /\ Written(t) = 0 => \A k \in DOMAIN wire : wire[k].msg < nmsg

\* The wire has no message that was not built.
WireInv == \A k \in DOMAIN wire : wire[k].msg <= nmsg

\* The whole of an acknowledged frame is on the wire, one unit after the other.
OnWire(frame) ==
  \E k \in 0 .. Len(wire) - Len(frame) : \A i \in DOMAIN frame : wire[k + i] = frame[i]

AckInv == conn # "reset" => \A frame \in acked : OnWire(frame)

\* What has been read into the buffer of the call that holds rlock.
Held == IF rlock = NoThread THEN <<>> ELSE rbuf[rlock]

\* The stream has ended and all of it has been read.
Drained == conn # "up" /\ stream = <<>> /\ Held = <<>>

\* What was returned is the beginning of its page, one unit of it at least.  Only when
\* everything has been read may the end of the last be 0.
ReturnedPages ==
  \A k \in DOMAIN received :
    /\ 1 \in DOMAIN received[k] /\ received[k][1] # Zero
    /\ \A i \in DOMAIN received[k] :
         \/ Page(k) + i <= Len(wire) /\ received[k][i] = wire[Page(k) + i]
         \/ k = Len(received) /\ Drained /\ received[k][i] = Zero

\* The buffer that is filled, and then the stream, go on behind the n-th unit of the wire.
Follows(n) ==
  /\ n + Len(Held) + Len(stream) <= Len(wire)
  /\ conn # "reset" => n + Len(Held) + Len(stream) = Len(wire)
  /\ \A i \in DOMAIN Held : Held[i] = wire[n + i]
  /\ \A i \in DOMAIN stream : stream[i] = wire[n + Len(Held) + i]

PlaceInv == ReturnedPages /\ (Drained \/ Follows(Page(Len(received) + 1)))

IInv == TypeOK /\ LockInv /\ WriterInv /\ WireInv /\ FramesContiguous /\ AckInv /\ PlaceInv

-----------------------------------------------------------------------------
(* Sequences.                                                              *)

\* Two sequences put together.
LEMMA Joined ==
  ASSUME NEW S, NEW a \in Seq(S), NEW b \in Seq(S), NEW q, q = a \o b
  PROVE  /\ q \in Seq(S) /\ Len(q) = Len(a) + Len(b)
         /\ Len(a) \in Nat /\ Len(b) \in Nat
         /\ DOMAIN a = 1 .. Len(a) /\ DOMAIN b = 1 .. Len(b)
         /\ DOMAIN q = 1 .. Len(a) + Len(b)
         /\ \A i \in 1 .. Len(a) : q[i] = a[i]
         /\ \A i \in 1 .. Len(b) : q[Len(a) + i] = b[i]
<1>1. /\ Len(a) \in Nat /\ DOMAIN a = 1 .. Len(a)
      /\ Len(b) \in Nat /\ DOMAIN b = 1 .. Len(b)
  BY LenProperties
<1>2. /\ q \in Seq(S) /\ Len(q) = Len(a) + Len(b)
      /\ \A i \in 1 .. Len(a) + Len(b) : q[i] = IF i <= Len(a) THEN a[i] ELSE b[i - Len(a)]
  BY ConcatProperties
<1>3. DOMAIN q = 1 .. Len(a) + Len(b)
  BY <1>2, LenProperties
<1>4. \A i \in 1 .. Len(a) : q[i] = a[i]
  BY <1>1, <1>2
<1>5. \A i \in 1 .. Len(b) : q[Len(a) + i] = b[i]
  BY <1>1, <1>2
<1> QED BY <1>1, <1>2, <1>3, <1>4, <1>5

\* The sequence of units q is a and then b.
IsJoined(q, a, b) ==
  /\ q \in Seq(Unit) /\ Len(q) = Len(a) + Len(b)
  /\ \A i \in 1 .. Len(a) : q[i] = a[i]
  /\ \A i \in 1 .. Len(b) : q[Len(a) + i] = b[i]

LEMMA JoinedUnits ==
  ASSUME NEW a \in Seq(Unit), NEW b \in Seq(Unit), NEW q, q = a \o b
  PROVE  IsJoined(q, a, b)
BY Joined DEF IsJoined

\* A part of a sequence.
LEMMA Part ==
  ASSUME NEW S, NEW q \in Seq(S), NEW m \in Nat, NEW n \in Nat, m + n <= Len(q),
         NEW r, r = SubSeq(q, m + 1, m + n)
  PROVE  /\ r \in Seq(S) /\ Len(r) = n /\ DOMAIN r = 1 .. n
         /\ \A i \in 1 .. n : r[i] = q[m + i]
<1>1. Len(q) \in Nat /\ \A i \in 1 .. Len(q) : q[i] \in S
  BY LenProperties, ElementOfSeq
<1>2. \A i \in (m + 1) .. (m + n) : q[i] \in S
  BY <1>1
<1>3. /\ r \in Seq(S) /\ Len(r) = IF m + 1 <= m + n THEN m + n - (m + 1) + 1 ELSE 0
      /\ \A i \in 1 .. m + n - (m + 1) + 1 : r[i] = q[m + 1 + i - 1]
  BY <1>2, SubSeqProperties
<1>4. Len(r) = n /\ \A i \in 1 .. n : r[i] = q[m + i]
  BY <1>3
<1>5. DOMAIN r = 1 .. n
  BY <1>3, <1>4, LenProperties
<1> QED BY <1>3, <1>4, <1>5

-----------------------------------------------------------------------------
(* What the operations do.                                                 *)

\* The numbers.
LEMMA Constants ==
  /\ Full \in Nat \ {0} /\ Sizes \subseteq 1 .. Full /\ SockBuf \in Nat \ {0} /\ MaxMsgs \in Nat
  /\ NoThread \notin Senders /\ NoThread \notin Receivers
BY ThreadAssumption, SizeAssumption, BoundAssumption

\* A frame is a sequence of units of its message, in order.
LEMMA FrameFacts ==
  ASSUME NEW m \in 1 .. MaxMsgs, NEW n \in Sizes
  PROVE  /\ Frame(m, n) \in Seq(Unit) /\ Len(Frame(m, n)) = n /\ DOMAIN Frame(m, n) = 1 .. n
         /\ \A i \in 1 .. n : Frame(m, n)[i].msg = m /\ Frame(m, n)[i].pos = i
                              /\ Frame(m, n)[i].len = n
<1>1. n \in Nat /\ n \in 1 .. Full
  BY Constants
<1>2. \A i \in 1 .. n : [msg |-> m, pos |-> i, len |-> n] \in Unit
  BY <1>1, Constants DEF Unit
<1>3. Frame(m, n) \in [1 .. n -> Unit]
  BY <1>2 DEF Frame
<1>4. Frame(m, n) \in Seq(Unit)
  BY <1>1, <1>3, SeqDef
<1>5. DOMAIN Frame(m, n) = 1 .. n
  BY <1>3
<1>6. Len(Frame(m, n)) = n
  BY <1>1, <1>4, <1>5, LenProperties
<1>7. \A i \in 1 .. n : Frame(m, n)[i] = [msg |-> m, pos |-> i, len |-> n]
  BY DEF Frame
<1> QED BY <1>4, <1>5, <1>6, <1>7

\* The buffers and the wire are sequences of units.
LEMMA SeqFacts ==
  ASSUME TypeOK
  PROVE  /\ wire \in Seq(Unit) /\ Len(wire) \in Nat /\ DOMAIN wire = 1 .. Len(wire)
         /\ stream \in Seq(Unit) /\ Len(stream) \in Nat /\ DOMAIN stream = 1 .. Len(stream)
         /\ \A t \in Senders : /\ sframe[t] \in Seq(Unit) /\ Len(sframe[t]) \in Nat
                               /\ DOMAIN sframe[t] = 1 .. Len(sframe[t])
                               /\ left[t] \in Nat /\ Written(t) \in Nat
                               /\ Written(t) + left[t] = Len(sframe[t])
         /\ \A t \in Receivers : /\ rbuf[t] \in Seq(Unit) /\ Len(rbuf[t]) \in Nat
                                 /\ DOMAIN rbuf[t] = 1 .. Len(rbuf[t])
<1>1. /\ wire \in Seq(Unit) /\ Len(wire) \in Nat /\ DOMAIN wire = 1 .. Len(wire)
      /\ stream \in Seq(Unit) /\ Len(stream) \in Nat /\ DOMAIN stream = 1 .. Len(stream)
  BY LenProperties DEF TypeOK
<1>2. ASSUME NEW t \in Senders
      PROVE  /\ sframe[t] \in Seq(Unit) /\ Len(sframe[t]) \in Nat
             /\ DOMAIN sframe[t] = 1 .. Len(sframe[t])
             /\ left[t] \in Nat /\ Written(t) \in Nat /\ Written(t) + left[t] = Len(sframe[t])
  <2>1. sframe[t] \in Seq(Unit) /\ left[t] \in Nat /\ left[t] <= Len(sframe[t])
    BY DEF TypeOK
  <2>2. Len(sframe[t]) \in Nat /\ DOMAIN sframe[t] = 1 .. Len(sframe[t])
    BY <2>1, LenProperties
  <2> QED BY <2>1, <2>2 DEF Written
<1>3. ASSUME NEW t \in Receivers
      PROVE  /\ rbuf[t] \in Seq(Unit) /\ Len(rbuf[t]) \in Nat
             /\ DOMAIN rbuf[t] = 1 .. Len(rbuf[t])
  BY LenProperties DEF TypeOK
<1> QED BY <1>1, <1>2, <1>3

\* The sequence s becomes r when the next n units of the frame are appended.
Extends(s, r, t, n) ==
  /\ r \in Seq(Unit) /\ Len(r) = Len(s) + n
  /\ \A i \in 1 .. Len(s) : r[i] = s[i]
  /\ \A i \in 1 .. n : r[Len(s) + i] = sframe[t][Written(t) + i]

\* A write appends the next units of the frame to the stream and to the wire.
WritesPart(t, n) ==
  /\ n \in 1 .. left[t] /\ Len(stream) + n <= SockBuf
  /\ Extends(stream, stream', t, n) /\ Extends(wire, wire', t, n)
  /\ left' = [left EXCEPT ![t] = left[t] - n]
  /\ \/ /\ n = left[t] /\ slock' = NoThread /\ spc' = [spc EXCEPT ![t] = "idle"]
        /\ acked' = acked \cup {sframe[t]}
     \/ n # left[t] /\ UNCHANGED <<slock, spc, acked>>

LEMMA WriteStep ==
  ASSUME TypeOK, NEW t \in Senders, SendWrite(t)
  PROVE  /\ spc[t] = "write" /\ conn = "up" /\ UNCHANGED <<conn, sframe, nmsg, recvVars>>
         /\ \E n : WritesPart(t, n)
<1>1. spc[t] = "write" /\ conn = "up" /\ UNCHANGED <<conn, sframe, nmsg, recvVars>>
  BY DEF SendWrite
<1>2. PICK n \in 1 .. left[t] :
        LET w    == Len(sframe[t]) - left[t]
            part == SubSeq(sframe[t], w + 1, w + n)
        IN /\ Len(stream) + n <= SockBuf
           /\ stream' = stream \o part
           /\ wire' = wire \o part
           /\ left' = [left EXCEPT ![t] = @ - n]
           /\ IF n = left[t]
                THEN /\ slock' = NoThread
                     /\ spc' = [spc EXCEPT ![t] = "idle"]
                     /\ acked' = acked \cup {sframe[t]}
                ELSE UNCHANGED <<slock, spc, acked>>
  BY DEF SendWrite
<1>3. PICK part : part = SubSeq(sframe[t], Written(t) + 1, Written(t) + n)
  OBVIOUS
<1>4. Written(t) = Len(sframe[t]) - left[t]
  BY DEF Written
<1>5. /\ Len(stream) + n <= SockBuf
      /\ stream' = stream \o part
      /\ wire' = wire \o part
      /\ left' = [left EXCEPT ![t] = left[t] - n]
      /\ \/ /\ n = left[t] /\ slock' = NoThread /\ spc' = [spc EXCEPT ![t] = "idle"]
            /\ acked' = acked \cup {sframe[t]}
         \/ n # left[t] /\ UNCHANGED <<slock, spc, acked>>
  BY <1>2, <1>3, <1>4, Zenon
<1>6. n \in Nat /\ Written(t) + n <= Len(sframe[t])
  BY SeqFacts
<1>7. /\ part \in Seq(Unit) /\ Len(part) = n /\ DOMAIN part = 1 .. n
      /\ \A i \in 1 .. n : part[i] = sframe[t][Written(t) + i]
  <2> DEFINE frame == sframe[t]
             w == Written(t)
  <2>1. /\ frame \in Seq(Unit) /\ w \in Nat /\ n \in Nat /\ w + n <= Len(frame)
        /\ part = SubSeq(frame, w + 1, w + n)
    BY <1>3, <1>6, SeqFacts
  <2> HIDE DEF frame, w
  <2>2. /\ part \in Seq(Unit) /\ Len(part) = n /\ DOMAIN part = 1 .. n
        /\ \A i \in 1 .. n : part[i] = frame[w + i]
    BY <2>1, Part
  <2> QED BY <2>2 DEF frame, w
<1>8. ASSUME NEW s, NEW r, s \in Seq(Unit), r = s \o part
      PROVE  Extends(s, r, t, n)
  <2> DEFINE frame == sframe[t]
             w == Written(t)
  <2>1. \A i \in 1 .. n : part[i] = frame[w + i]
    BY <1>7
  <2> HIDE DEF frame, w
  <2>2. /\ r \in Seq(Unit) /\ Len(r) = Len(s) + n
        /\ \A i \in 1 .. Len(s) : r[i] = s[i]
        /\ \A i \in 1 .. n : r[Len(s) + i] = part[i]
    <3>1. /\ r \in Seq(Unit) /\ Len(r) = Len(s) + Len(part)
          /\ \A i \in 1 .. Len(s) : r[i] = s[i]
          /\ \A i \in 1 .. Len(part) : r[Len(s) + i] = part[i]
      <4>1. part \in Seq(Unit)
        BY <1>7
      <4>2. IsJoined(r, s, part)
        BY <1>8, <4>1, JoinedUnits, Zenon
      <4> QED BY <4>2 DEF IsJoined
    <3>2. Len(part) = n
      BY <1>7
    <3> QED BY <3>1, <3>2
  <2>3. \A i \in 1 .. n : r[Len(s) + i] = frame[w + i]
    BY <2>1, <2>2
  <2> QED BY <2>2, <2>3 DEF Extends, frame, w
<1>9. Extends(stream, stream', t, n) /\ Extends(wire, wire', t, n)
  BY <1>5, <1>8, SeqFacts, Zenon
<1> QED BY <1>1, <1>5, <1>9 DEF WritesPart

\* What a call returns of the buffer.
Cut(buffer, n) == [k \in 1 .. n |-> IF k <= Len(buffer) THEN buffer[k] ELSE Zero]

LEMMA CutFacts ==
  ASSUME NEW buffer \in Seq(Unit), NEW n \in 1 .. Full, NEW b, b = Cut(buffer, n)
  PROVE  /\ b \in Seq(Unit \cup {Zero}) /\ Len(b) = n /\ DOMAIN b = 1 .. n
         /\ \A i \in 1 .. n : b[i] = IF i <= Len(buffer) THEN buffer[i] ELSE Zero
<1>1. n \in Nat /\ Len(buffer) \in Nat /\ \A i \in 1 .. Len(buffer) : buffer[i] \in Unit
  BY Constants, LenProperties, ElementOfSeq
<1>2. \A i \in 1 .. n : (IF i <= Len(buffer) THEN buffer[i] ELSE Zero) \in Unit \cup {Zero}
  BY <1>1
<1>3. b \in [1 .. n -> Unit \cup {Zero}]
  BY <1>2 DEF Cut
<1>4. b \in Seq(Unit \cup {Zero}) /\ DOMAIN b = 1 .. n
  BY <1>1, <1>3, SeqDef
<1>5. Len(b) = n
  BY <1>1, <1>4, LenProperties
<1>6. \A i \in 1 .. n : b[i] = IF i <= Len(buffer) THEN buffer[i] ELSE Zero
  BY DEF Cut
<1> QED BY <1>4, <1>5, <1>6

\* The call returns the beginning of the buffer, or is an oops.
Returns(t, buffer) ==
  /\ buffer # <<>> /\ rlock' = NoThread /\ rpc' = [rpc EXCEPT ![t] = "idle"]
  /\ \E n \in 1 .. Full : received' = Append(received, Cut(buffer, n))

Oopses(t, buffer) ==
  /\ buffer # <<>> => buffer[1].pos # 1
  /\ rpc' = [rpc EXCEPT ![t] = "oops"]
  /\ UNCHANGED <<received, rlock>>

LEMMA OutputCases ==
  ASSUME NEW t, NEW buffer, Output(t, buffer)
  PROVE  Returns(t, buffer) \/ Oopses(t, buffer)
<1>1. \/ \E n \in 1 .. Full :
            /\ buffer # <<>> /\ rlock' = NoThread /\ rpc' = [rpc EXCEPT ![t] = "idle"]
            /\ received' = Append(received, Cut(buffer, n))
      \/ Oopses(t, buffer)
  BY Zenon DEF Output, Oopses, Cut
<1> QED BY <1>1, Zenon DEF Returns

\* A read moves n units from the stream to the buffer, and the call goes on, or ends with a
\* full buffer or at the end of the stream.
ReadsPart(t, n, buffer) ==
  /\ n \in Nat /\ n <= Len(stream) /\ Len(rbuf[t]) + n <= Full
  /\ stream' \in Seq(Unit) /\ Len(stream') = Len(stream) - n
  /\ \A i \in 1 .. Len(stream) - n : stream'[i] = stream[n + i]
  /\ buffer \in Seq(Unit) /\ Len(buffer) = Len(rbuf[t]) + n
  /\ \A i \in 1 .. Len(rbuf[t]) : buffer[i] = rbuf[t][i]
  /\ \A i \in 1 .. n : buffer[Len(rbuf[t]) + i] = stream[i]
  /\ rbuf' = [rbuf EXCEPT ![t] = buffer]
  /\ \/ UNCHANGED <<received, rlock, rpc>>
     \/ /\ Len(buffer) = Full \/ (conn # "up" /\ stream = <<>>)
        /\ Returns(t, buffer) \/ Oopses(t, buffer)

LEMMA ReadStep ==
  ASSUME TypeOK, NEW t \in Receivers, RecvRead(t) \/ RecvEnd(t)
  PROVE  /\ rpc[t] = "read" /\ UNCHANGED <<conn, sendVars, wire>>
         /\ \E n, buffer : ReadsPart(t, n, buffer)
<1>1. rpc[t] = "read" /\ UNCHANGED <<conn, sendVars, wire>>
  BY DEF RecvRead, RecvEnd
<1>2. /\ stream \in Seq(Unit) /\ Len(stream) \in Nat
      /\ rbuf[t] \in Seq(Unit) /\ Len(rbuf[t]) \in Nat /\ Len(rbuf[t]) <= Full /\ Full \in Nat
  BY SeqFacts, Constants DEF TypeOK
<1>3. CASE RecvRead(t)
  <2>1. PICK n \in 1 .. Full - Len(rbuf[t]) :
          LET buffer == rbuf[t] \o SubSeq(stream, 1, n)
          IN /\ n <= Len(stream)
             /\ stream' = SubSeq(stream, n + 1, Len(stream))
             /\ rbuf' = [rbuf EXCEPT ![t] = buffer]
             /\ IF Len(buffer) = Full THEN Output(t, buffer)
                ELSE UNCHANGED <<received, rlock, rpc>>
    BY <1>3 DEF RecvRead
  <2>2. PICK got : got = SubSeq(stream, 0 + 1, 0 + n)
    OBVIOUS
  <2>3. PICK buffer : buffer = rbuf[t] \o got
    OBVIOUS
  <2>4. n \in Nat /\ n <= Len(stream) /\ Len(rbuf[t]) + n <= Full
    BY <1>2, <2>1
  <2>5. got = SubSeq(stream, 1, n) /\ 0 + n <= Len(stream)
    BY <2>2, <2>4
  <2>6. got \in Seq(Unit) /\ Len(got) = n /\ \A i \in 1 .. n : got[i] = stream[i]
    <3>1. /\ got \in Seq(Unit) /\ Len(got) = n
          /\ \A i \in 1 .. n : got[i] = stream[0 + i]
      BY <1>2, <2>2, <2>4, <2>5, Part
    <3> QED BY <3>1
  <2>7. /\ buffer \in Seq(Unit) /\ Len(buffer) = Len(rbuf[t]) + n
        /\ \A i \in 1 .. Len(rbuf[t]) : buffer[i] = rbuf[t][i]
        /\ \A i \in 1 .. n : buffer[Len(rbuf[t]) + i] = got[i]
    <3> DEFINE held == rbuf[t]
    <3>1. held \in Seq(Unit) /\ buffer = held \o got
      BY <1>2, <2>3
    <3> HIDE DEF held
    <3>2. /\ buffer \in Seq(Unit) /\ Len(buffer) = Len(held) + n
          /\ \A i \in 1 .. Len(held) : buffer[i] = held[i]
          /\ \A i \in 1 .. n : buffer[Len(held) + i] = got[i]
      <4>1. got \in Seq(Unit) /\ Len(got) = n
        BY <2>6
      <4>2. /\ buffer \in Seq(Unit) /\ Len(buffer) = Len(held) + Len(got)
            /\ \A i \in 1 .. Len(held) : buffer[i] = held[i]
            /\ \A i \in 1 .. Len(got) : buffer[Len(held) + i] = got[i]
        <5>1. IsJoined(buffer, held, got)
          BY <3>1, <4>1, JoinedUnits, Zenon
        <5> QED BY <5>1 DEF IsJoined
      <4> QED BY <4>1, <4>2
    <3> QED BY <3>2 DEF held
  <2>8. /\ stream' \in Seq(Unit) /\ Len(stream') = Len(stream) - n
        /\ \A i \in 1 .. Len(stream) - n : stream'[i] = stream[n + i]
    <3>1. PICK k \in Nat : k = Len(stream) - n /\ n + k = Len(stream)
      BY <1>2, <2>4
    <3>2. stream' = SubSeq(stream, n + 1, n + k)
      BY <2>1, <3>1
    <3>3. /\ stream' \in Seq(Unit) /\ Len(stream') = k
          /\ \A i \in 1 .. k : stream'[i] = stream[n + i]
      <4>1. n + k <= Len(stream) /\ n \in Nat /\ stream \in Seq(Unit)
        BY <1>2, <2>4, <3>1
      <4> QED BY <3>2, <4>1, Part, SMTT(40)
    <3> QED BY <3>1, <3>3
  <2>9. rbuf' = [rbuf EXCEPT ![t] = buffer]
    BY <2>1, <2>3, <2>5, Zenon
  <2>10. (Len(buffer) = Full /\ Output(t, buffer)) \/ UNCHANGED <<received, rlock, rpc>>
    BY <2>1, <2>3, <2>5, Zenon
  <2>11. \/ UNCHANGED <<received, rlock, rpc>>
         \/ Len(buffer) = Full /\ (Returns(t, buffer) \/ Oopses(t, buffer))
    BY <2>10, OutputCases
  <2> QED BY <1>1, <2>4, <2>6, <2>7, <2>8, <2>9, <2>11 DEF ReadsPart
<1>4. CASE RecvEnd(t)
  <2>1. /\ conn # "up" /\ stream = <<>> /\ stream' = stream /\ rbuf' = rbuf
        /\ Output(t, rbuf[t])
    BY <1>4 DEF RecvEnd
  <2>2. rbuf' = [rbuf EXCEPT ![t] = rbuf[t]]
    BY <2>1 DEF TypeOK
  <2>3. Len(stream) = 0
    BY <2>1
  <2>4. /\ conn # "up" /\ stream = <<>>
        /\ Returns(t, rbuf[t]) \/ Oopses(t, rbuf[t])
    BY <2>1, OutputCases
  <2>5. /\ Len(rbuf[t]) + 0 <= Full /\ Len(rbuf[t]) = Len(rbuf[t]) + 0
        /\ Len(stream') = Len(stream) - 0 /\ 0 <= Len(stream)
        /\ \A i \in 1 .. Len(stream) - 0 : stream'[i] = stream[0 + i]
        /\ \A i \in 1 .. 0 : rbuf[t][Len(rbuf[t]) + i] = stream[i]
    BY <1>2, <2>1, <2>3
  <2>6. stream' \in Seq(Unit)
    BY <1>2, <2>1
  <2>7. ReadsPart(t, 0, rbuf[t])
    BY <1>2, <2>2, <2>4, <2>5, <2>6, Zenon DEF ReadsPart
  <2> QED BY <1>1, <2>7
<1> QED BY <1>3, <1>4

\* A step of a thread or of the connection, one by one.
LEMMA StepCases ==
  ASSUME [Next]_vars
  PROVE  \/ \E t \in Senders : \/ SendCall(t) \/ SendStart(t) \/ SendNoMemory(t)
                               \/ SendWrite(t) \/ SendFails(t)
         \/ \E t \in Receivers : \/ RecvCall(t) \/ RecvStart(t) \/ RecvNoMemory(t)
                                 \/ RecvRead(t) \/ RecvEnd(t) \/ RecvFails(t)
         \/ ktcp_release
         \/ Reset
         \/ UNCHANGED vars
BY DEF Next, SendStep, RecvStep

\* What the steps that neither write nor read change of the sequences.
LEMMA StartStep ==
  ASSUME TypeOK, NEW t \in Senders, SendStart(t)
  PROVE  /\ spc[t] = "lock" /\ slock = NoThread /\ nmsg < MaxMsgs
         /\ nmsg' = nmsg + 1 /\ slock' = t /\ spc' = [spc EXCEPT ![t] = "write"]
         /\ UNCHANGED <<conn, acked, stream, recvVars, wire>>
         /\ \E n \in 1 .. Full, frame \in Seq(Unit) :
              /\ Len(frame) = n /\ DOMAIN frame = 1 .. n
              /\ \A i \in 1 .. n : frame[i].msg = nmsg + 1 /\ frame[i].pos = i
              /\ sframe' = [sframe EXCEPT ![t] = frame]
              /\ left' = [left EXCEPT ![t] = n]
<1>1. /\ spc[t] = "lock" /\ slock = NoThread /\ nmsg < MaxMsgs
      /\ nmsg' = nmsg + 1 /\ slock' = t /\ spc' = [spc EXCEPT ![t] = "write"]
      /\ UNCHANGED <<conn, acked, stream, recvVars, wire>>
  BY DEF SendStart
<1>2. PICK n \in Sizes : /\ sframe' = [sframe EXCEPT ![t] = Frame(nmsg + 1, n)]
                         /\ left' = [left EXCEPT ![t] = n]
  BY DEF SendStart
<1>3. nmsg + 1 \in 1 .. MaxMsgs /\ n \in 1 .. Full
  BY <1>1, Constants DEF TypeOK
<1>4. PICK m \in 1 .. MaxMsgs : m = nmsg + 1
  BY <1>3
<1>5. PICK frame : frame = Frame(m, n)
  OBVIOUS
<1>6. /\ frame \in Seq(Unit) /\ Len(frame) = n /\ DOMAIN frame = 1 .. n
      /\ \A i \in 1 .. n : frame[i].msg = m /\ frame[i].pos = i
  BY <1>5, FrameFacts
<1> QED BY <1>1, <1>2, <1>3, <1>4, <1>5, <1>6

\* A reset leaves the beginning of the stream.
LEMMA ResetStep ==
  ASSUME TypeOK, Reset
  PROVE  /\ conn = "up" /\ conn' = "reset" /\ UNCHANGED <<sendVars, recvVars, wire>>
         /\ stream' \in Seq(Unit) /\ Len(stream') <= Len(stream) /\ Len(stream') \in Nat
         /\ \A i \in 1 .. Len(stream') : stream'[i] = stream[i]
<1>1. conn = "up" /\ conn' = "reset" /\ UNCHANGED <<sendVars, recvVars, wire>>
  BY DEF Reset
<1>2. PICK n \in 0 .. Len(stream) : stream' = SubSeq(stream, 1, n)
  BY DEF Reset
<1>3. stream \in Seq(Unit) /\ n \in Nat /\ n <= Len(stream) /\ 0 + n <= Len(stream)
      /\ stream' = SubSeq(stream, 0 + 1, 0 + n)
  BY <1>2, SeqFacts
<1>4. /\ stream' \in Seq(Unit) /\ Len(stream') = n
      /\ \A i \in 1 .. n : stream'[i] = stream[0 + i]
  BY <1>3, Part
<1>5. \A i \in 1 .. n : 0 + i = i
  OBVIOUS
<1> QED BY <1>1, <1>3, <1>4, <1>5

-----------------------------------------------------------------------------
(* The types and the locks.                                                *)

\* Every step of a sender keeps the types.
LEMMA TypeSend ==
  ASSUME TypeOK, NEW t \in Senders,
         SendCall(t) \/ SendStart(t) \/ SendNoMemory(t) \/ SendWrite(t) \/ SendFails(t)
  PROVE  TypeOK'
<1>1. CASE SendCall(t) \/ SendNoMemory(t)
  BY <1>1 DEF SendCall, SendNoMemory, recvVars, TypeOK
<1>2. CASE SendStart(t)
  <2>1. /\ nmsg < MaxMsgs /\ nmsg' = nmsg + 1 /\ slock' = t
        /\ spc' = [spc EXCEPT ![t] = "write"] /\ UNCHANGED <<conn, acked, stream, recvVars, wire>>
    BY <1>2, StartStep
  <2>2. PICK n \in 1 .. Full, frame \in Seq(Unit) :
          /\ Len(frame) = n
          /\ sframe' = [sframe EXCEPT ![t] = frame] /\ left' = [left EXCEPT ![t] = n]
    BY <1>2, StartStep
  <2>3. nmsg' \in 0 .. MaxMsgs /\ n \in 0 .. Full /\ n <= n
    BY <2>1, Constants DEF TypeOK
  <2>4. sframe' \in [Senders -> Seq(Unit)] /\ left' \in [Senders -> 0 .. Full]
    BY <2>2, <2>3 DEF TypeOK
  <2>5. \A x \in Senders : left'[x] <= Len(sframe'[x])
    <3> SUFFICES ASSUME NEW x \in Senders PROVE left'[x] <= Len(sframe'[x])
      OBVIOUS
    <3>1. CASE x = t
      <4>1. left'[x] = n /\ sframe'[x] = frame
        BY <2>2, <3>1 DEF TypeOK
      <4> QED BY <2>2, <2>3, <4>1
    <3>2. CASE x # t
      <4>1. left'[x] = left[x] /\ sframe'[x] = sframe[x]
        BY <2>2, <3>2 DEF TypeOK
      <4> QED BY <4>1 DEF TypeOK
    <3> QED BY <3>1, <3>2
  <2> QED BY <2>1, <2>3, <2>4, <2>5 DEF recvVars, TypeOK
<1>3. CASE SendWrite(t)
  <2>1. spc[t] = "write" /\ conn = "up" /\ UNCHANGED <<conn, sframe, nmsg, recvVars>>
    BY <1>3, WriteStep
  <2>2. PICK n : WritesPart(t, n)
    BY <1>3, WriteStep
  <2>3. /\ n \in 1 .. left[t] /\ Len(stream) + n <= SockBuf
        /\ left' = [left EXCEPT ![t] = left[t] - n]
    BY <2>2 DEF WritesPart
  <2>4. stream' \in Seq(Unit) /\ Len(stream') = Len(stream) + n /\ wire' \in Seq(Unit)
    BY <2>2 DEF WritesPart, Extends
  <2>5. left' \in [Senders -> 0 .. Full] /\ \A x \in Senders : left'[x] <= left[x]
    <3>1. left \in [Senders -> 0 .. Full] /\ Full \in Nat
      BY Constants DEF TypeOK
    <3>2. left[t] - n \in 0 .. Full /\ left[t] - n <= left[t]
      BY <2>3, <3>1
    <3>3. \A x \in Senders : left[x] <= left[x]
      BY <3>1
    <3> QED BY <2>3, <3>1, <3>2, <3>3
  <2>6. \A x \in Senders : left'[x] <= Len(sframe'[x])
    <3> SUFFICES ASSUME NEW x \in Senders PROVE left'[x] <= Len(sframe[x])
      BY <2>1
    <3>1. left'[x] <= left[x] /\ left[x] <= Len(sframe[x]) /\ left'[x] \in Nat /\ left[x] \in Nat
      BY <2>5 DEF TypeOK
    <3> QED BY <3>1, SeqFacts
  <2>7. /\ spc' \in [Senders -> {"idle", "lock", "write"}] /\ slock' \in Senders \cup {NoThread}
        /\ acked' \subseteq Seq(Unit)
    BY <2>2, SeqFacts DEF WritesPart, TypeOK
  <2> QED BY <2>1, <2>3, <2>4, <2>5, <2>6, <2>7 DEF recvVars, TypeOK
<1>4. CASE SendFails(t)
  <2>1. /\ slock' = NoThread /\ spc' = [spc EXCEPT ![t] = "idle"]
        /\ acked' \subseteq acked \cup {sframe[t]}
        /\ UNCHANGED <<conn, sframe, left, nmsg, stream, recvVars, wire>>
    BY <1>4 DEF SendFails
  <2>2. acked' \subseteq Seq(Unit)
    BY <2>1, SeqFacts DEF TypeOK
  <2> QED BY <2>1, <2>2 DEF recvVars, TypeOK
<1> QED BY <1>1, <1>2, <1>3, <1>4

\* Every step of a receiver keeps the types.
LEMMA TypeRecv ==
  ASSUME TypeOK, NEW t \in Receivers,
         \/ RecvCall(t) \/ RecvStart(t) \/ RecvNoMemory(t)
         \/ RecvRead(t) \/ RecvEnd(t) \/ RecvFails(t)
  PROVE  TypeOK'
<1>1. CASE RecvCall(t) \/ RecvNoMemory(t) \/ RecvFails(t)
  BY <1>1 DEF RecvCall, RecvNoMemory, RecvFails, sendVars, TypeOK
<1>2. CASE RecvStart(t)
  <2>1. /\ rlock' = t /\ rbuf' = [rbuf EXCEPT ![t] = <<>>] /\ rpc' = [rpc EXCEPT ![t] = "read"]
        /\ UNCHANGED <<conn, sendVars, stream, received, wire>>
    BY <1>2 DEF RecvStart
  <2>2. <<>> \in Seq(Unit) /\ Len(<<>>) <= Full
    BY Constants
  <2>3. rbuf' \in [Receivers -> Seq(Unit)] /\ \A x \in Receivers : Len(rbuf'[x]) <= Full
    BY <2>1, <2>2 DEF TypeOK
  <2> QED BY <2>1, <2>3 DEF sendVars, TypeOK
<1>3. CASE RecvRead(t) \/ RecvEnd(t)
  <2>1. UNCHANGED <<conn, sendVars, wire>>
    BY <1>3, ReadStep
  <2>2. PICK n, buffer : ReadsPart(t, n, buffer)
    BY <1>3, ReadStep
  <2>3. /\ n \in Nat /\ stream' \in Seq(Unit) /\ Len(stream') = Len(stream) - n
        /\ buffer \in Seq(Unit) /\ Len(buffer) <= Full
        /\ rbuf' = [rbuf EXCEPT ![t] = buffer]
    BY <2>2 DEF ReadsPart
  <2>4. Len(stream') <= SockBuf
    BY <2>3, SeqFacts, Constants DEF TypeOK
  <2>5. rbuf' \in [Receivers -> Seq(Unit)] /\ \A x \in Receivers : Len(rbuf'[x]) <= Full
    BY <2>3 DEF TypeOK
  <2>6. received' \in Seq(Seq(Unit \cup {Zero}))
    <3>1. received \in Seq(Seq(Unit \cup {Zero}))
      BY DEF TypeOK
    <3>2. ASSUME NEW k \in 1 .. Full, received' = Append(received, Cut(buffer, k))
          PROVE  received' \in Seq(Seq(Unit \cup {Zero}))
      <4>1. Cut(buffer, k) \in Seq(Unit \cup {Zero})
        BY <2>3, CutFacts
      <4> QED BY <3>1, <3>2, <4>1, AppendProperties, Zenon
    <3> QED BY <2>2, <3>1, <3>2 DEF ReadsPart, Returns, Oopses
  <2>7. /\ rlock' \in Receivers \cup {NoThread}
        /\ rpc' \in [Receivers -> {"idle", "lock", "read", "oops"}]
    BY <2>2 DEF ReadsPart, Returns, Oopses, TypeOK
  <2> QED BY <2>1, <2>3, <2>4, <2>5, <2>6, <2>7 DEF sendVars, TypeOK
<1> QED BY <1>1, <1>2, <1>3

\* Every step keeps the types.
LEMMA TypeStep ==
  ASSUME TypeOK, [Next]_vars
  PROVE  TypeOK'
<1>1. CASE ktcp_release
  BY <1>1 DEF ktcp_release, sendVars, recvVars, TypeOK
<1>2. CASE Reset
  <2>1. /\ conn' = "reset" /\ UNCHANGED <<sendVars, recvVars, wire>>
        /\ stream' \in Seq(Unit) /\ Len(stream') <= Len(stream) /\ Len(stream') \in Nat
    BY <1>2, ResetStep
  <2>2. Len(stream') <= SockBuf
    BY <2>1, SeqFacts, Constants DEF TypeOK
  <2> QED BY <2>1, <2>2 DEF sendVars, recvVars, TypeOK
<1>3. CASE UNCHANGED vars
  BY <1>3 DEF vars, sendVars, recvVars, TypeOK
<1> QED BY <1>1, <1>2, <1>3, StepCases, TypeSend, TypeRecv

\* Every step keeps the locks.
LEMMA LockStep ==
  ASSUME TypeOK, LockInv, [Next]_vars
  PROVE  LockInv'
<1>1. ASSUME NEW t \in Senders, SendCall(t) \/ SendNoMemory(t) \/ SendFails(t)
      PROVE  LockInv'
  BY <1>1 DEF SendCall, SendNoMemory, SendFails, recvVars, TypeOK, LockInv
<1>2. ASSUME NEW t \in Senders, SendStart(t)
      PROVE  LockInv'
  BY <1>2, Constants DEF SendStart, recvVars, TypeOK, LockInv
<1>3. ASSUME NEW t \in Senders, SendWrite(t)
      PROVE  LockInv'
  <2>1. spc[t] = "write" /\ UNCHANGED recvVars /\ \E n : WritesPart(t, n)
    BY <1>3, WriteStep
  <2>2. \/ slock' = NoThread /\ spc' = [spc EXCEPT ![t] = "idle"]
        \/ UNCHANGED <<slock, spc>>
    BY <2>1 DEF WritesPart
  <2> QED BY <2>1, <2>2 DEF recvVars, TypeOK, LockInv
<1>4. ASSUME NEW t \in Receivers, RecvCall(t) \/ RecvStart(t) \/ RecvNoMemory(t) \/ RecvFails(t)
      PROVE  LockInv'
  <2>1. CASE RecvCall(t) \/ RecvNoMemory(t)
    BY <2>1 DEF RecvCall, RecvNoMemory, sendVars, TypeOK, LockInv
  <2>2. CASE RecvStart(t)
    BY <2>2, Constants DEF RecvStart, sendVars, TypeOK, LockInv
  <2>3. CASE RecvFails(t)
    BY <2>3 DEF RecvFails, sendVars, TypeOK, LockInv
  <2> QED BY <1>4, <2>1, <2>2, <2>3
<1>5. ASSUME NEW t \in Receivers, RecvRead(t) \/ RecvEnd(t)
      PROVE  LockInv'
  <2>1. rpc[t] = "read" /\ UNCHANGED sendVars /\ \E n, buffer : ReadsPart(t, n, buffer)
    BY <1>5, ReadStep
  <2>2. \/ UNCHANGED <<rlock, rpc>>
        \/ rlock' = NoThread /\ rpc' = [rpc EXCEPT ![t] = "idle"]
        \/ rpc' = [rpc EXCEPT ![t] = "oops"] /\ UNCHANGED rlock
    BY <2>1 DEF ReadsPart, Returns, Oopses
  <2> QED BY <2>1, <2>2 DEF sendVars, TypeOK, LockInv
<1>6. CASE ktcp_release \/ Reset \/ UNCHANGED vars
  BY <1>6 DEF ktcp_release, Reset, vars, sendVars, recvVars, LockInv
<1> QED BY <1>1, <1>2, <1>3, <1>4, <1>5, <1>6, StepCases

-----------------------------------------------------------------------------
(* The wire.                                                               *)

\* What a write does to the wire, in the terms of WriterInv.
LEMMA WrittenUnits ==
  ASSUME TypeOK, LockInv, WriterInv, NEW t \in Senders, spc[t] = "write", NEW n, WritesPart(t, n)
  PROVE  /\ n \in 1 .. left[t] /\ n \in Nat /\ Written(t) \in Nat
         /\ Written(t) + left[t] = Len(sframe[t]) /\ Written(t) <= Len(wire)
         /\ wire' \in Seq(Unit) /\ Len(wire') = Len(wire) + n
         /\ DOMAIN wire' = 1 .. Len(wire) + n
         /\ \A i \in 1 .. Len(wire) : wire'[i] = wire[i]
         /\ \A i \in 1 .. n : wire'[Len(wire) + i].msg = nmsg
         /\ \A i \in 1 .. n : wire'[Len(wire) + i].pos = Written(t) + i
         /\ \A i \in 1 .. Written(t) + n :
              wire'[Len(wire) + n - (Written(t) + n) + i] = sframe[t][i]
<1>1. /\ n \in 1 .. left[t] /\ wire' \in Seq(Unit) /\ Len(wire') = Len(wire) + n
      /\ \A i \in 1 .. Len(wire) : wire'[i] = wire[i]
      /\ \A i \in 1 .. n : wire'[Len(wire) + i] = sframe[t][Written(t) + i]
  BY DEF WritesPart, Extends
<1>2. /\ Written(t) \in Nat /\ left[t] \in Nat /\ Written(t) + left[t] = Len(sframe[t])
      /\ Len(wire) \in Nat /\ DOMAIN sframe[t] = 1 .. Len(sframe[t])
  BY SeqFacts
<1>3. /\ Written(t) <= Len(wire)
      /\ \A i \in 1 .. Written(t) : wire[Len(wire) - Written(t) + i] = sframe[t][i]
      /\ \A i \in DOMAIN sframe[t] : sframe[t][i].msg = nmsg /\ sframe[t][i].pos = i
  BY DEF WriterInv
<1>4. n \in Nat /\ n <= left[t] /\ DOMAIN wire' = 1 .. Len(wire) + n
  <2>1. n \in 1 .. left[t] /\ left[t] \in Nat
    BY <1>1, <1>2
  <2>2. wire' \in Seq(Unit) /\ Len(wire') = Len(wire) + n
    BY <1>1
  <2>3. DOMAIN wire' = 1 .. Len(wire')
    BY <2>2, LenProperties
  <2> QED BY <2>1, <2>2, <2>3
<1>5. ASSUME NEW i \in 1 .. n
      PROVE  Written(t) + i \in DOMAIN sframe[t]
  <2>1. /\ Written(t) \in Nat /\ left[t] \in Nat /\ n \in Nat /\ n <= left[t]
        /\ Written(t) + left[t] = Len(sframe[t])
    BY <1>2, <1>4
  <2>2. Written(t) + i \in 1 .. Len(sframe[t])
    BY <2>1
  <2> QED BY <1>2, <2>2
<1>6. ASSUME NEW i \in 1 .. n
      PROVE  wire'[Len(wire) + i].msg = nmsg /\ wire'[Len(wire) + i].pos = Written(t) + i
  <2>1. Written(t) + i \in DOMAIN sframe[t]
    BY <1>5
  <2>2. wire'[Len(wire) + i] = sframe[t][Written(t) + i]
    BY <1>1
  <2> QED BY <1>3, <2>1, <2>2, Zenon
<1>7. ASSUME NEW i \in 1 .. Written(t) + n
      PROVE  wire'[Len(wire) + n - (Written(t) + n) + i] = sframe[t][i]
  <2>1. Len(wire) + n - (Written(t) + n) + i = Len(wire) - Written(t) + i
    BY <1>2, <1>4
  <2>2. CASE i <= Written(t)
    <3>1. i \in 1 .. Written(t) /\ Len(wire) - Written(t) + i \in 1 .. Len(wire)
      BY <1>2, <1>3, <1>4, <2>2
    <3> QED BY <1>1, <1>3, <2>1, <3>1
  <2>3. CASE i > Written(t)
    <3>1. PICK j \in 1 .. n : j = i - Written(t) /\ i = Written(t) + j
                              /\ Len(wire) - Written(t) + i = Len(wire) + j
      BY <1>2, <1>4, <2>3
    <3> QED BY <1>1, <2>1, <3>1
  <2> QED BY <1>2, <2>2, <2>3
<1> QED BY <1>1, <1>2, <1>3, <1>4, <1>6, <1>7

\* A step that leaves the senders that write and the wire as they are.
LEMMA WireSame ==
  ASSUME WriterInv, WireInv, FramesContiguous, AckInv,
         UNCHANGED <<sframe, left, nmsg, wire>>,
         \A t \in Senders : spc'[t] = "write" => spc[t] = "write",
         conn' # "reset" => conn # "reset" /\ acked' = acked
  PROVE  WriterInv' /\ WireInv' /\ FramesContiguous' /\ AckInv'
<1>1. WriterInv' /\ WireInv' /\ FramesContiguous'
  BY DEF WriterInv, WireInv, FramesContiguous, Written
<1>2. AckInv'
  BY DEF AckInv, OnWire
<1> QED BY <1>1, <1>2

\* The start of a call.
LEMMA WireStart ==
  ASSUME TypeOK, LockInv, WriterInv, WireInv, FramesContiguous, AckInv,
         NEW t \in Senders, SendStart(t)
  PROVE  WriterInv' /\ WireInv' /\ FramesContiguous' /\ AckInv'
<1>1. /\ slock = NoThread /\ nmsg' = nmsg + 1 /\ spc' = [spc EXCEPT ![t] = "write"]
      /\ UNCHANGED <<conn, acked, stream, recvVars, wire>>
  BY StartStep
<1>2. PICK n \in 1 .. Full, frame \in Seq(Unit) :
        /\ Len(frame) = n /\ DOMAIN frame = 1 .. n
        /\ \A i \in 1 .. n : frame[i].msg = nmsg + 1 /\ frame[i].pos = i
        /\ sframe' = [sframe EXCEPT ![t] = frame]
        /\ left' = [left EXCEPT ![t] = n]
  BY StartStep
<1>3. \A x \in Senders : spc'[x] = "write" => x = t
  BY <1>1, Constants DEF LockInv, TypeOK
<1>4. sframe'[t] = frame /\ left'[t] = n
  BY <1>2 DEF TypeOK
<1>5. nmsg \in Nat /\ nmsg' \in Nat /\ n \in Nat /\ n > 0 /\ Len(wire) \in Nat
  BY <1>1, Constants, SeqFacts DEF TypeOK
<1>6. \A k \in DOMAIN wire : wire[k].msg \in Nat /\ wire[k].msg < nmsg'
  <2> SUFFICES ASSUME NEW k \in DOMAIN wire PROVE wire[k].msg \in Nat /\ wire[k].msg < nmsg'
    OBVIOUS
  <2>1. wire[k] \in Unit
    BY SeqFacts, ElementOfSeq
  <2>2. wire[k].msg \in 1 .. MaxMsgs
    BY <2>1 DEF Unit
  <2>3. wire[k].msg <= nmsg
    BY DEF WireInv
  <2> QED BY <1>1, <1>5, <2>2, <2>3, Constants
<1>7. Len(frame) - n = 0
  BY <1>2, <1>5
<1>8. WriterInv'
  <2> SUFFICES
        /\ left'[t] > 0 /\ Len(sframe'[t]) - left'[t] <= Len(wire')
        /\ \A i \in DOMAIN sframe'[t] : sframe'[t][i].msg = nmsg' /\ sframe'[t][i].pos = i
        /\ \A i \in 1 .. Len(sframe'[t]) - left'[t] :
             wire'[Len(wire') - (Len(sframe'[t]) - left'[t]) + i] = sframe'[t][i]
        /\ \A k \in DOMAIN wire' : wire'[k].msg < nmsg'
    BY <1>3 DEF WriterInv, Written
  <2> QED BY <1>1, <1>2, <1>4, <1>5, <1>6, <1>7
<1>9. WireInv'
  BY <1>1, <1>5, <1>6 DEF WireInv
<1>10. FramesContiguous' /\ AckInv'
  BY <1>1 DEF FramesContiguous, AckInv, OnWire
<1> QED BY <1>8, <1>9, <1>10

\* A write keeps what a sender relies on.
LEMMA WriterWrite ==
  ASSUME TypeOK, LockInv, WriterInv, NEW t \in Senders, spc[t] = "write",
         UNCHANGED <<sframe, nmsg>>, NEW n, WritesPart(t, n)
  PROVE  WriterInv'
<1>1. \A x \in Senders : spc'[x] = "write" => x = t
  BY Constants DEF WritesPart, LockInv, TypeOK
<1>2. /\ n \in 1 .. left[t] /\ n \in Nat /\ Written(t) \in Nat
      /\ Written(t) + left[t] = Len(sframe[t]) /\ Written(t) <= Len(wire)
      /\ wire' \in Seq(Unit) /\ Len(wire') = Len(wire) + n
      /\ \A i \in 1 .. Written(t) + n :
           wire'[Len(wire) + n - (Written(t) + n) + i] = sframe[t][i]
  BY WrittenUnits
<1>3. CASE n = left[t] /\ spc' = [spc EXCEPT ![t] = "idle"]
  BY <1>1, <1>3 DEF TypeOK, WriterInv
<1>4. CASE n # left[t] /\ UNCHANGED <<slock, spc, acked>>
  <2> DEFINE w == Written(t)
             L == Len(wire)
             frame == sframe[t]
  <2>1. /\ n \in 1 .. left[t] /\ n \in Nat /\ w \in Nat /\ w + left[t] = Len(frame) /\ w <= L
        /\ wire' \in Seq(Unit) /\ Len(wire') = L + n
        /\ \A i \in 1 .. w + n : wire'[L + n - (w + n) + i] = frame[i]
    BY <1>2
  <2>2. left'[t] = left[t] - n /\ sframe'[t] = frame /\ left[t] \in Nat /\ L \in Nat
    BY SeqFacts DEF WritesPart, TypeOK
  <2>3. Written(t)' = Len(frame) - left'[t]
    BY <2>2 DEF Written
  <2>4. \A i \in DOMAIN frame : frame[i].msg = nmsg /\ frame[i].pos = i
    BY DEF WriterInv
  <2> HIDE DEF w, L, frame
  <2>5. /\ Written(t)' = w + n /\ left'[t] > 0
        /\ w + n <= L + n /\ w + n # 0
    BY <1>4, <2>1, <2>2, <2>3
  <2>6. \A i \in 1 .. Written(t)' : wire'[Len(wire') - Written(t)' + i] = sframe'[t][i]
    BY <2>1, <2>2, <2>5
  <2>7. \A i \in DOMAIN sframe'[t] : sframe'[t][i].msg = nmsg' /\ sframe'[t][i].pos = i
    BY <2>2, <2>4
  <2>8. Written(t)' <= Len(wire') /\ Written(t)' # 0
    BY <2>1, <2>5
  <2> QED BY <1>1, <2>5, <2>6, <2>7, <2>8, Zenon DEF WriterInv
<1> QED BY <1>3, <1>4 DEF WritesPart

\* A write keeps the frames contiguous.
LEMMA ContiguousWrite ==
  ASSUME TypeOK, LockInv, WriterInv, WireInv, FramesContiguous,
         NEW t \in Senders, spc[t] = "write", UNCHANGED nmsg, NEW n, WritesPart(t, n)
  PROVE  WireInv' /\ FramesContiguous'
<1> DEFINE w == Written(t)
           L == Len(wire)
<1>1. /\ n \in Nat /\ w \in Nat /\ w <= L /\ Len(wire') = L + n /\ DOMAIN wire' = 1 .. L + n
      /\ \A i \in 1 .. L : wire'[i] = wire[i]
      /\ \A i \in 1 .. n : wire'[L + i].msg = nmsg
      /\ \A i \in 1 .. n : wire'[L + i].pos = w + i
  BY WrittenUnits
<1>2. L \in Nat /\ DOMAIN wire = 1 .. L /\ nmsg \in Nat
  BY SeqFacts, Constants DEF TypeOK
<1>3. /\ w = 0 => \A k \in DOMAIN wire : wire[k].msg < nmsg
      /\ w # 0 => wire[L].msg = nmsg /\ wire[L].pos = w
  <2>1. w = 0 => \A k \in DOMAIN wire : wire[k].msg < nmsg
    BY DEF WriterInv
  <2>2. ASSUME w # 0
        PROVE  wire[L].msg = nmsg /\ wire[L].pos = w
    <3>1. w \in 1 .. w /\ L - w + w = L /\ w \in DOMAIN sframe[t]
      BY <1>1, <1>2, <2>2, SeqFacts
    <3>2. wire[L - w + w] = sframe[t][w]
      BY <3>1 DEF WriterInv
    <3>3. sframe[t][w].msg = nmsg /\ sframe[t][w].pos = w
      BY <3>1 DEF WriterInv
    <3> QED BY <3>1, <3>2, <3>3
  <2> QED BY <2>1, <2>2
<1> HIDE DEF w, L
<1>4. ASSUME NEW k \in 1 .. L + n
      PROVE  \/ k \in 1 .. L
             \/ \E i \in 1 .. n : k = L + i
  <2>1. k \in 1 .. L \/ (k - L \in 1 .. n /\ k = L + (k - L))
    BY <1>1, <1>2
  <2> QED BY <2>1
<1>5. WireInv'
  <2> SUFFICES ASSUME NEW k \in 1 .. L + n PROVE wire'[k].msg <= nmsg
    BY <1>1 DEF WireInv
  <2>1. CASE k \in 1 .. L
    BY <1>1, <1>2, <2>1 DEF WireInv
  <2>2. CASE \E i \in 1 .. n : k = L + i
    <3>1. wire'[k].msg = nmsg
      BY <1>1, <2>2
    <3> QED BY <1>2, <3>1
  <2> QED BY <1>4, <2>1, <2>2
<1>6. ASSUME NEW k \in 1 .. L + n - 1
      PROVE  \/ wire'[k + 1].msg = wire'[k].msg /\ wire'[k + 1].pos = wire'[k].pos + 1
             \/ wire'[k + 1].msg > wire'[k].msg /\ wire'[k + 1].pos = 1
  <2>1. CASE k < L
    <3>1. k \in 1 .. L - 1 /\ k \in 1 .. L /\ k + 1 \in 1 .. L
      BY <1>1, <1>2, <2>1
    <3>2. wire'[k] = wire[k] /\ wire'[k + 1] = wire[k + 1]
      BY <1>1, <3>1
    <3>3. \/ wire[k + 1].msg = wire[k].msg /\ wire[k + 1].pos = wire[k].pos + 1
          \/ wire[k + 1].msg > wire[k].msg /\ wire[k + 1].pos = 1
      BY <3>1 DEF FramesContiguous, L
    <3> QED BY <3>2, <3>3
  <2>2. CASE k = L
    <3>1. k \in 1 .. L /\ 1 \in 1 .. n
      BY <1>1, <1>2, <2>2
    <3>2. wire'[k] = wire[L] /\ wire'[k + 1].msg = nmsg /\ wire'[k + 1].pos = w + 1
      BY <1>1, <2>2, <3>1
    <3>3. CASE w = 0
      <4>1. wire[L].msg < nmsg
        BY <1>2, <1>3, <2>2, <3>1, <3>3
      <4>2. wire'[L].msg < nmsg /\ wire'[k + 1].pos = 1
        BY <2>2, <3>2, <3>3, <4>1
      <4>3. wire[L].msg \in Nat
        <5>1. wire \in Seq(Unit) /\ L \in 1 .. Len(wire)
          BY <2>2, <3>1, SeqFacts DEF L
        <5>2. wire[L] \in Unit
          BY <5>1, ElementOfSeq
        <5> QED BY <5>2, Constants DEF Unit
      <4> QED BY <1>2, <3>2, <4>1, <4>2, <4>3
    <3>4. CASE w # 0
      BY <1>3, <3>2, <3>4
    <3> QED BY <3>3, <3>4
  <2>3. CASE k > L
    <3>1. PICK i \in 1 .. n : k = L + i /\ i + 1 \in 1 .. n /\ k + 1 = L + (i + 1)
      <4>1. /\ k - L \in 1 .. n /\ k = L + (k - L) /\ (k - L) + 1 \in 1 .. n
            /\ k + 1 = L + ((k - L) + 1)
        BY <1>1, <1>2, <2>3
      <4> QED BY <4>1
    <3>2. /\ wire'[k].msg = nmsg /\ wire'[k].pos = w + i
          /\ wire'[k + 1].msg = nmsg /\ wire'[k + 1].pos = w + (i + 1)
      BY <1>1, <3>1
    <3> QED BY <1>1, <3>1, <3>2
  <2> QED BY <1>1, <1>2, <2>1, <2>2, <2>3
<1>7. Len(wire') - 1 = L + n - 1
  <2>1. Len(wire') = L + n /\ L \in Nat /\ n \in Nat
    BY <1>1, <1>2
  <2> QED BY <2>1
<1>8. FramesContiguous'
  BY <1>6, <1>7 DEF FramesContiguous
<1> QED BY <1>5, <1>8

\* A write that ends its frame has put the whole of it on the wire.
LEMMA AckWrite ==
  ASSUME TypeOK, LockInv, WriterInv, AckInv, NEW t \in Senders, spc[t] = "write",
         UNCHANGED conn, NEW n, WritesPart(t, n)
  PROVE  AckInv'
<1>1. /\ n \in 1 .. left[t] /\ n \in Nat /\ Written(t) \in Nat
      /\ Written(t) + left[t] = Len(sframe[t]) /\ Written(t) <= Len(wire)
      /\ wire' \in Seq(Unit) /\ Len(wire') = Len(wire) + n
      /\ \A i \in 1 .. Len(wire) : wire'[i] = wire[i]
      /\ \A i \in 1 .. Written(t) + n :
           wire'[Len(wire) + n - (Written(t) + n) + i] = sframe[t][i]
  BY WrittenUnits
<1>2. /\ Len(wire) \in Nat /\ DOMAIN sframe[t] = 1 .. Len(sframe[t]) /\ left[t] \in Nat
  BY SeqFacts
<1>3. ASSUME NEW frame \in Seq(Unit), OnWire(frame)
      PROVE  OnWire(frame)'
  <2>1. PICK k \in 0 .. Len(wire) - Len(frame) : \A i \in DOMAIN frame : wire[k + i] = frame[i]
    BY <1>3 DEF OnWire
  <2>2. Len(frame) \in Nat /\ DOMAIN frame = 1 .. Len(frame)
    BY LenProperties
  <2>3. k \in 0 .. Len(wire') - Len(frame) /\ \A i \in 1 .. Len(frame) : k + i \in 1 .. Len(wire)
    BY <1>1, <1>2, <2>2
  <2>4. \A i \in DOMAIN frame : wire'[k + i] = frame[i]
    BY <1>1, <2>1, <2>2, <2>3
  <2> QED BY <2>3, <2>4 DEF OnWire
<1>4. ASSUME NEW frame, n = left[t], frame = sframe[t]
      PROVE  OnWire(frame)'
  <2>1. Written(t) + n = Len(frame) /\ DOMAIN frame = 1 .. Len(frame) /\ Len(frame) \in Nat
    BY <1>1, <1>2, <1>4
  <2>2. PICK k : k = Len(wire) + n - (Written(t) + n)
    OBVIOUS
  <2>3. k \in 0 .. Len(wire') - Len(frame)
    BY <1>1, <1>2, <2>1, <2>2
  <2>4. \A i \in DOMAIN frame : wire'[k + i] = frame[i]
    BY <1>1, <1>4, <2>1, <2>2
  <2> QED BY <2>3, <2>4 DEF OnWire
<1>5. acked' = acked \/ (n = left[t] /\ acked' = acked \cup {sframe[t]})
  BY DEF WritesPart
<1>6. acked \subseteq Seq(Unit)
  BY DEF TypeOK
<1>7. ASSUME conn' # "reset", NEW frame \in acked'
      PROVE  OnWire(frame)'
  <2>1. CASE frame \in acked
    <3>1. OnWire(frame) /\ frame \in Seq(Unit)
      BY <1>6, <1>7, <2>1 DEF AckInv
    <3> QED BY <1>3, <3>1
  <2>2. CASE frame \notin acked
    <3>1. n = left[t] /\ frame = sframe[t]
      BY <1>5, <1>7, <2>2
    <3> QED BY <1>4, <3>1
  <2> QED BY <2>1, <2>2
<1> QED BY <1>7 DEF AckInv

\* Every step keeps the frames on the wire.
LEMMA WireStep ==
  ASSUME TypeOK, LockInv, WriterInv, WireInv, FramesContiguous, AckInv, [Next]_vars
  PROVE  WriterInv' /\ WireInv' /\ FramesContiguous' /\ AckInv'
<1>1. ASSUME NEW t \in Senders, SendCall(t) \/ SendNoMemory(t) \/ SendFails(t)
      PROVE  WriterInv' /\ WireInv' /\ FramesContiguous' /\ AckInv'
  <2>1. /\ UNCHANGED <<conn, sframe, left, nmsg, wire>>
        /\ \A x \in Senders : spc'[x] = "write" => spc[x] = "write"
        /\ conn' # "reset" => acked' = acked
    BY <1>1 DEF SendCall, SendNoMemory, SendFails, TypeOK
  <2> QED BY <2>1, WireSame
<1>2. ASSUME NEW t \in Senders, SendStart(t)
      PROVE  WriterInv' /\ WireInv' /\ FramesContiguous' /\ AckInv'
  BY <1>2, WireStart
<1>3. ASSUME NEW t \in Senders, SendWrite(t)
      PROVE  WriterInv' /\ WireInv' /\ FramesContiguous' /\ AckInv'
  BY <1>3, WriteStep, WriterWrite, ContiguousWrite, AckWrite
<1>4. ASSUME UNCHANGED <<sendVars, wire>>, conn' # "reset" => conn # "reset"
      PROVE  WriterInv' /\ WireInv' /\ FramesContiguous' /\ AckInv'
  BY <1>4, WireSame DEF sendVars
<1>5. ASSUME NEW t \in Receivers,
             \/ RecvCall(t) \/ RecvStart(t) \/ RecvNoMemory(t)
             \/ RecvRead(t) \/ RecvEnd(t) \/ RecvFails(t)
      PROVE  UNCHANGED <<conn, sendVars, wire>>
  BY <1>5 DEF RecvCall, RecvStart, RecvNoMemory, RecvRead, RecvEnd, RecvFails
<1>6. ASSUME ktcp_release \/ Reset \/ UNCHANGED vars
      PROVE  UNCHANGED <<sendVars, wire>> /\ (conn' # "reset" => conn # "reset")
  BY <1>6 DEF ktcp_release, Reset, vars
<1> QED BY <1>1, <1>2, <1>3, <1>4, <1>5, <1>6, StepCases

-----------------------------------------------------------------------------
(* Where the units that were written are.                                  *)

\* What is held and what was returned are sequences.
LEMMA HeldFacts ==
  ASSUME TypeOK
  PROVE  /\ Held \in Seq(Unit) /\ Len(Held) \in Nat /\ DOMAIN Held = 1 .. Len(Held)
         /\ received \in Seq(Seq(Unit \cup {Zero})) /\ Len(received) \in Nat
         /\ DOMAIN received = 1 .. Len(received)
         /\ \A k \in DOMAIN received : /\ Len(received[k]) \in Nat
                                       /\ DOMAIN received[k] = 1 .. Len(received[k])
         /\ \A t \in Receivers : rlock = t => Held = rbuf[t]
<1>1. Held \in Seq(Unit)
  <2>1. CASE rlock = NoThread
    BY <2>1 DEF Held
  <2>2. CASE rlock \in Receivers
    BY <2>2, Constants DEF Held, TypeOK
  <2> QED BY <2>1, <2>2 DEF TypeOK
<1>2. Len(Held) \in Nat /\ DOMAIN Held = 1 .. Len(Held)
  BY <1>1, LenProperties
<1>3. /\ received \in Seq(Seq(Unit \cup {Zero})) /\ Len(received) \in Nat
      /\ DOMAIN received = 1 .. Len(received)
  BY LenProperties DEF TypeOK
<1>4. ASSUME NEW k \in DOMAIN received
      PROVE  Len(received[k]) \in Nat /\ DOMAIN received[k] = 1 .. Len(received[k])
  <2>1. received[k] \in Seq(Unit \cup {Zero})
    BY <1>3, ElementOfSeq
  <2> QED BY <2>1, LenProperties
<1>5. \A t \in Receivers : rlock = t => Held = rbuf[t]
  BY Constants DEF Held
<1> QED BY <1>1, <1>2, <1>3, <1>4, <1>5

\* Pages lie one behind the other.
LEMMA PageFacts ==
  ASSUME NEW k \in Nat \ {0}
  PROVE  Page(k) \in Nat /\ Page(k + 1) = Page(k) + Full /\ Full * k = Page(k + 1)
<1>1. PICK F \in Nat : F = Full
  BY Constants
<1>2. F * (k - 1) \in Nat /\ F * ((k + 1) - 1) = F * (k - 1) + F /\ F * k = F * ((k + 1) - 1)
  OBVIOUS
<1> QED BY <1>1, <1>2 DEF Page

\* What was returned stays where it was when the wire only grows.
LEMMA PagesKept ==
  ASSUME TypeOK, ReturnedPages, received' = received, Drained => Drained',
         Len(wire') \in Nat, Len(wire) <= Len(wire'),
         \A i \in 1 .. Len(wire) : wire'[i] = wire[i]
  PROVE  ReturnedPages'
<1>1. ASSUME NEW k \in DOMAIN received, NEW i \in DOMAIN received[k]
      PROVE  \/ Page(k) + i <= Len(wire') /\ received[k][i] = wire'[Page(k) + i]
             \/ k = Len(received) /\ Drained' /\ received[k][i] = Zero
  <2>1. CASE Page(k) + i <= Len(wire) /\ received[k][i] = wire[Page(k) + i]
    <3>1. k \in Nat \ {0} /\ i \in Nat /\ 1 <= i /\ Len(wire) \in Nat
      BY HeldFacts, SeqFacts
    <3>2. PICK o \in Nat : o = Page(k)
      BY <3>1, PageFacts
    <3>3. o + i \in 1 .. Len(wire) /\ o + i <= Len(wire')
      BY <2>1, <3>1, <3>2
    <3> QED BY <2>1, <3>2, <3>3
  <2>2. CASE k = Len(received) /\ Drained /\ received[k][i] = Zero
    BY <2>2
  <2> QED BY <2>1, <2>2 DEF ReturnedPages
<1> QED BY <1>1 DEF ReturnedPages, Page

\* A step that moves nothing.
LEMMA PlaceSame ==
  ASSUME TypeOK, PlaceInv, UNCHANGED <<received, wire, stream, Held>>,
         conn' # "reset" => conn # "reset", conn' = "up" => conn = "up"
  PROVE  PlaceInv'
<1>1. Drained => Drained'
  BY DEF Drained
<1>2. Len(wire') \in Nat /\ Len(wire) <= Len(wire')
  BY SeqFacts
<1>3. ReturnedPages'
  BY <1>1, <1>2, PagesKept DEF PlaceInv
<1>4. ASSUME NEW n, Follows(n) PROVE Follows(n)'
  BY <1>4 DEF Follows
<1>5. Len(received') = Len(received)
  OBVIOUS
<1> QED BY <1>1, <1>3, <1>4, <1>5 DEF PlaceInv, Page

\* A step that loses something, after a reset: what is left is where it was.
LEMMA PlaceLost ==
  ASSUME TypeOK, TypeOK', PlaceInv, UNCHANGED <<received, wire>>, conn' = "reset",
         \/ /\ conn = "up" /\ Held' = Held /\ Len(stream') <= Len(stream)
            /\ \A i \in 1 .. Len(stream') : stream'[i] = stream[i]
         \/ Held' = <<>> /\ stream' = <<>>
  PROVE  PlaceInv'
<1>1. Drained => Drained'
  BY DEF Drained
<1>2. Len(wire') \in Nat /\ Len(wire) <= Len(wire')
  BY SeqFacts
<1>3. ReturnedPages'
  BY <1>1, <1>2, PagesKept DEF PlaceInv
<1>4. ASSUME NEW n \in Nat, Follows(n) PROVE Follows(n)'
  <2>1. /\ Len(Held) \in Nat /\ Len(stream) \in Nat /\ Len(stream') \in Nat /\ Len(wire) \in Nat
        /\ DOMAIN stream = 1 .. Len(stream) /\ DOMAIN stream' = 1 .. Len(stream')
    <3>1. stream' \in Seq(Unit)
      BY DEF TypeOK
    <3> QED BY <3>1, LenProperties, HeldFacts, SeqFacts
  <2>2. /\ n + Len(Held) + Len(stream) <= Len(wire)
        /\ \A i \in DOMAIN Held : Held[i] = wire[n + i]
        /\ \A i \in DOMAIN stream : stream[i] = wire[n + Len(Held) + i]
    BY <1>4 DEF Follows
  <2>3. /\ n + Len(Held') + Len(stream') <= Len(wire)
        /\ \A i \in DOMAIN Held' : Held'[i] = wire[n + i]
        /\ \A i \in DOMAIN stream' : stream'[i] = wire[n + Len(Held') + i]
    <3>1. CASE /\ Held' = Held /\ Len(stream') <= Len(stream)
               /\ \A i \in 1 .. Len(stream') : stream'[i] = stream[i]
      BY <2>1, <2>2, <3>1
    <3>2. CASE Held' = <<>> /\ stream' = <<>>
      <4>1. Len(Held') = 0 /\ Len(stream') = 0 /\ DOMAIN Held' = {} /\ DOMAIN stream' = {}
        BY <3>2
      <4>2. n + 0 + 0 <= Len(wire)
        BY <2>1, <2>2
      <4> QED BY <4>1, <4>2
    <3> QED BY <3>1, <3>2
  <2> QED BY <2>3 DEF Follows
<1>5. Page(Len(received) + 1) \in Nat /\ Len(received') = Len(received)
  <2>1. Len(received) + 1 \in Nat \ {0}
    BY HeldFacts
  <2> QED BY <2>1, PageFacts
<1> QED BY <1>1, <1>3, <1>4, <1>5 DEF PlaceInv, Page

\* A write puts the same units at the end of the stream and at the end of the wire.
LEMMA PlaceWrite ==
  ASSUME TypeOK, PlaceInv, conn = "up", NEW t \in Senders, NEW n, WritesPart(t, n),
         UNCHANGED <<conn, received, Held>>
  PROVE  PlaceInv'
<1>0. PICK m \in Nat : m = Page(Len(received) + 1)
  <2>1. Len(received) + 1 \in Nat \ {0}
    BY HeldFacts
  <2> QED BY <2>1, PageFacts
<1>1. ReturnedPages /\ ~ Drained /\ Follows(m)
  BY <1>0 DEF PlaceInv, Drained
<1> DEFINE L == Len(wire)
           S == Len(stream)
           H == Len(Held)
<1>2. m \in Nat /\ L \in Nat /\ S \in Nat /\ H \in Nat /\ n \in Nat
  <2>1. n \in 1 .. left[t] /\ left[t] \in Nat
    BY SeqFacts DEF WritesPart
  <2> QED BY <2>1, HeldFacts, SeqFacts
<1>3. /\ m + H + S = L /\ DOMAIN Held = 1 .. H
      /\ \A i \in 1 .. H : Held[i] = wire[m + i]
      /\ \A i \in 1 .. S : stream[i] = wire[m + H + i]
  BY <1>1, HeldFacts, SeqFacts DEF Follows
<1>4. /\ Len(wire') = L + n /\ Len(stream') = S + n /\ DOMAIN stream' = 1 .. S + n
      /\ \A i \in 1 .. L : wire'[i] = wire[i]
      /\ \A i \in 1 .. S : stream'[i] = stream[i]
      /\ \A i \in 1 .. n : stream'[S + i] = wire'[L + i]
  <2>1. /\ stream' \in Seq(Unit) /\ Len(wire') = L + n /\ Len(stream') = S + n
        /\ \A i \in 1 .. L : wire'[i] = wire[i]
        /\ \A i \in 1 .. S : stream'[i] = stream[i]
        /\ \A i \in 1 .. n : stream'[S + i] = sframe[t][Written(t) + i]
        /\ \A i \in 1 .. n : wire'[L + i] = sframe[t][Written(t) + i]
    BY DEF WritesPart, Extends
  <2>2. DOMAIN stream' = 1 .. S + n
    BY <2>1, LenProperties
  <2> QED BY <2>1, <2>2
<1>5. ReturnedPages'
  <2>1. Len(wire') \in Nat /\ Len(wire) <= Len(wire')
    BY <1>2, <1>4
  <2> QED BY <1>1, <1>4, <2>1, PagesKept
<1> HIDE DEF L, S, H
<1>6. m + H + (S + n) = L + n
  BY <1>2, <1>3
<1>7. \A i \in 1 .. H : Held[i] = wire'[m + i]
  <2>1. \A i \in 1 .. H : m + i \in 1 .. L
    BY <1>2, <1>3
  <2> QED BY <1>3, <1>4, <2>1
<1>8. ASSUME NEW i \in 1 .. S + n
      PROVE  stream'[i] = wire'[m + H + i]
  <2>1. CASE i <= S
    <3>1. i \in 1 .. S /\ m + H + i \in 1 .. L
      BY <1>2, <1>3, <2>1
    <3> QED BY <1>3, <1>4, <3>1
  <2>2. CASE i > S
    <3>1. PICK j \in 1 .. n : j = i - S /\ i = S + j /\ m + H + i = L + j
      <4>1. i - S \in 1 .. n /\ i = S + (i - S) /\ m + H + i = L + (i - S)
        BY <1>2, <1>3, <2>2
      <4> QED BY <4>1
    <3> QED BY <1>4, <3>1
  <2> QED BY <1>2, <2>1, <2>2
<1>9. /\ m + Len(Held') + Len(stream') = Len(wire')
      /\ \A i \in DOMAIN Held' : Held'[i] = wire'[m + i]
      /\ \A i \in DOMAIN stream' : stream'[i] = wire'[m + Len(Held') + i]
  <2>1. Held' = Held /\ Len(Held') = H
    BY DEF H
  <2>2. m + Len(Held') + Len(stream') = Len(wire')
    BY <1>4, <1>6, <2>1
  <2>3. \A i \in DOMAIN Held' : Held'[i] = wire'[m + i]
    BY <1>3, <1>7, <2>1
  <2>4. \A i \in DOMAIN stream' : stream'[i] = wire'[m + Len(Held') + i]
    BY <1>4, <1>8, <2>1
  <2> QED BY <2>2, <2>3, <2>4
<1>10. m + Len(Held') + Len(stream') <= Len(wire')
  <2>1. L + n <= L + n
    BY <1>2
  <2> QED BY <1>4, <1>9, <2>1
<1>11. Follows(m)'
  BY <1>9, <1>10 DEF Follows
<1> QED BY <1>0, <1>5, <1>11 DEF PlaceInv, Page

\* A read moves units from the stream to the buffer, and what ends the call behind the pages.
LEMMA PlaceRead ==
  ASSUME TypeOK, LockInv, PlaceInv, NEW t \in Receivers, rpc[t] = "read",
         NEW n, NEW buffer, ReadsPart(t, n, buffer), UNCHANGED <<conn, wire>>
  PROVE  PlaceInv'
<1> DEFINE K == Len(received)
           L == Len(wire)
           S == Len(stream)
           H == Len(rbuf[t])
<1>0. PICK m \in Nat : m = Page(K + 1) /\ m + Full = Page((K + 1) + 1)
  <2>1. K + 1 \in Nat \ {0}
    BY HeldFacts
  <2> QED BY <2>1, PageFacts
<1>1. ReturnedPages /\ (Drained \/ Follows(m))
  BY <1>0 DEF PlaceInv
<1>2. K \in Nat /\ L \in Nat /\ S \in Nat /\ H \in Nat /\ n \in Nat /\ Full \in Nat \ {0}
  BY HeldFacts, SeqFacts, Constants DEF ReadsPart
<1>3. rlock = t /\ t # NoThread /\ Held = rbuf[t]
  BY HeldFacts, Constants DEF LockInv
<1>5. /\ n <= S /\ stream' \in Seq(Unit) /\ Len(stream') = S - n /\ H + n <= Full
      /\ \A i \in 1 .. S - n : stream'[i] = stream[n + i]
      /\ buffer \in Seq(Unit) /\ Len(buffer) = H + n
      /\ \A i \in 1 .. H : buffer[i] = rbuf[t][i]
      /\ \A i \in 1 .. n : buffer[H + i] = stream[i]
      /\ rbuf' = [rbuf EXCEPT ![t] = buffer]
  BY DEF ReadsPart
<1>6. DOMAIN stream' = 1 .. S - n /\ DOMAIN buffer = 1 .. H + n
  BY <1>5, LenProperties
<1>7. rbuf'[t] = buffer
  BY <1>5 DEF TypeOK
<1>8. \/ UNCHANGED <<received, rlock>>
      \/ /\ Len(buffer) = Full \/ (conn # "up" /\ stream = <<>>)
         /\ Returns(t, buffer)
  BY DEF ReadsPart, Oopses
<1>w. Len(wire') \in Nat /\ Len(wire) <= Len(wire')
  BY <1>2
<1>d. ASSUME Drained
      PROVE  buffer = <<>> /\ stream' = <<>>
  <2>1. S = 0 /\ H = 0
    BY <1>3, <1>d DEF Drained
  <2>2. n = 0 /\ Len(buffer) = 0 /\ Len(stream') = 0
    BY <1>2, <1>5, <2>1
  <2> QED BY <1>5, <2>2, EmptySeq
<1>e. CASE Drained
  <2>1. UNCHANGED <<received, rlock>>
    BY <1>8, <1>d, <1>e DEF Returns
  <2>2. Held' = <<>>
    BY <1>3, <1>7, <1>d, <1>e, <2>1 DEF Held
  <2>3. Drained'
    BY <1>d, <1>e, <2>2 DEF Drained
  <2>4. ReturnedPages'
    BY <1>1, <1>w, <2>1, <2>3, PagesKept
  <2> QED BY <2>3, <2>4 DEF PlaceInv
<1>f. CASE ~ Drained
  <2>4. /\ m + H + S <= L /\ (conn # "reset" => m + H + S = L)
        /\ \A i \in 1 .. H : rbuf[t][i] = wire[m + i]
        /\ \A i \in 1 .. S : stream[i] = wire[m + H + i]
    BY <1>1, <1>3, <1>f, HeldFacts, SeqFacts DEF Follows
  <2> HIDE DEF L, S, H
  <2>9. ASSUME NEW i \in 1 .. H + n
        PROVE  buffer[i] = wire[m + i]
    <3>1. CASE i <= H
      <4>1. i \in 1 .. H
        BY <1>2, <3>1
      <4> QED BY <1>5, <2>4, <4>1
    <3>2. CASE i > H
      <4>1. PICK j \in 1 .. n : i = H + j /\ m + i = m + H + j /\ j \in 1 .. S
        <5>1. /\ i - H \in 1 .. n /\ i = H + (i - H) /\ m + i = m + H + (i - H)
              /\ i - H \in 1 .. S
          BY <1>2, <1>5, <3>2
        <5> QED BY <5>1
      <4> QED BY <1>5, <2>4, <4>1
    <3> QED BY <1>2, <3>1, <3>2
  <2>10. ASSUME NEW i \in 1 .. S - n
         PROVE  stream'[i] = wire[m + (H + n) + i]
    <3>1. n + i \in 1 .. S /\ m + H + (n + i) = m + (H + n) + i
      BY <1>2, <1>5
    <3> QED BY <1>5, <2>4, <3>1
  <2>11. /\ m + (H + n) + (S - n) = m + H + S
         /\ (m + (H + n)) + 0 + (S - n) = m + H + S
         /\ m + (H + n) <= L
    BY <1>2, <1>5, <2>4
  <2>12. CASE UNCHANGED <<received, rlock>>
    <3>1. Held' = buffer
      BY <1>3, <1>7, <2>12 DEF Held
    <3>2. ReturnedPages'
      BY <1>1, <1>f, <1>w, <2>12, PagesKept
    <3>3. m + Len(Held') + Len(stream') = m + H + S
      BY <1>5, <2>11, <3>1
    <3>4. /\ \A i \in DOMAIN Held' : Held'[i] = wire[m + i]
          /\ \A i \in DOMAIN stream' : stream'[i] = wire[m + Len(Held') + i]
      BY <1>5, <1>6, <2>9, <2>10, <3>1
    <3>5. Follows(m)'
      BY <2>4, <3>3, <3>4 DEF Follows, L
    <3> QED BY <1>0, <2>12, <3>2, <3>5 DEF PlaceInv, Page
  <2>13. CASE Returns(t, buffer)
    <3>1. Held' = <<>> /\ Len(Held') = 0 /\ DOMAIN Held' = {}
      BY <2>13 DEF Returns, Held
    <3>2. PICK N \in 1 .. Full : received' = Append(received, Cut(buffer, N))
      BY <2>13 DEF Returns
    <3>3. PICK b : b = Cut(buffer, N)
      OBVIOUS
    <3>4. /\ b \in Seq(Unit \cup {Zero}) /\ DOMAIN b = 1 .. N
          /\ \A i \in 1 .. N : b[i] = IF i <= H + n THEN buffer[i] ELSE Zero
      BY <1>5, <3>3, CutFacts
    <3>5. /\ received' \in Seq(Seq(Unit \cup {Zero})) /\ Len(received') = K + 1
          /\ \A k \in 1 .. K : received'[k] = received[k]
          /\ received'[K + 1] = b
      <4>1. received \in Seq(Seq(Unit \cup {Zero}))
        BY HeldFacts
      <4>2. received' = Append(received, b)
        BY <3>2, <3>3
      <4> QED BY <3>4, <4>1, <4>2, AppendProperties
    <3>6. DOMAIN received' = 1 .. K + 1
      BY <3>5, LenProperties
    <3>7. H + n # 0 /\ (H + n = Full \/ (conn # "up" /\ stream = <<>>))
      <4>1. buffer # <<>>
        BY <2>13 DEF Returns
      <4>2. Len(buffer) = Full \/ (conn # "up" /\ stream = <<>>)
        <5>1. CASE UNCHANGED <<received, rlock>>
          BY <1>3, <2>13, <5>1 DEF Returns
        <5> QED BY <1>8, <5>1
      <4>3. Len(buffer) # 0
        BY <1>5, <4>1, EmptySeq
      <4> QED BY <1>5, <4>2, <4>3
    <3>8. H + n = Full \/ Drained'
      <4>1. ASSUME conn # "up", stream = <<>> PROVE Drained'
        <5>1. S = 0
          BY <4>1 DEF S
        <5>2. Len(stream') = 0
          BY <1>2, <1>5, <5>1
        <5> QED BY <1>5, <3>1, <4>1, <5>2, EmptySeq DEF Drained
      <4> QED BY <3>7, <4>1
    <3>9. ASSUME NEW i \in 1 .. N
          PROVE  /\ \/ m + i <= L /\ b[i] = wire[m + i]
                    \/ Drained' /\ b[i] = Zero
                 /\ i = 1 => b[i] # Zero
      <4>1. CASE i <= H + n
        <5>1. i \in 1 .. H + n /\ m + i <= L
          BY <1>2, <2>11, <4>1
        <5>2. b[i] = buffer[i] /\ b[i] = wire[m + i]
          BY <2>9, <3>4, <4>1, <5>1
        <5>3. b[i] # Zero
          <6>1. buffer[i] \in Unit
            BY <1>5, <5>1, ElementOfSeq
          <6>2. buffer[i].msg # 0
            BY <6>1, Constants DEF Unit
          <6> QED BY <5>2, <6>2 DEF Zero
        <5> QED BY <5>1, <5>2, <5>3
      <4>2. CASE ~ (i <= H + n)
        <5>1. H + n # Full /\ i # 1
          BY <1>2, <3>7, <4>2
        <5> QED BY <3>4, <3>8, <4>2, <5>1
      <4> QED BY <4>1, <4>2
    <3>10. ReturnedPages'
      <4>1. ASSUME NEW k \in 1 .. K + 1
            PROVE  /\ 1 \in DOMAIN received'[k] /\ received'[k][1] # Zero
                   /\ \A i \in DOMAIN received'[k] :
                        \/ Page(k) + i <= L /\ received'[k][i] = wire[Page(k) + i]
                        \/ k = K + 1 /\ Drained' /\ received'[k][i] = Zero
        <5>1. CASE k = K + 1
          <6>1. 1 \in 1 .. N /\ received'[k] = b /\ Page(k) = m
            BY <1>0, <3>5, <5>1
          <6> QED BY <3>4, <3>9, <5>1, <6>1
        <5>2. CASE k # K + 1
          <6>1. k \in 1 .. K /\ DOMAIN received = 1 .. K
            BY <1>2, <5>2, HeldFacts
          <6>2. received'[k] = received[k]
            BY <3>5, <6>1
          <6> QED BY <1>1, <1>f, <6>1, <6>2 DEF ReturnedPages, L
        <5> QED BY <5>1, <5>2
      <4> QED BY <3>5, <3>6, <4>1 DEF ReturnedPages, Page, L
    <3>11. CASE H + n = Full
      <4>a. Len(received') + 1 = (K + 1) + 1
        BY <3>5
      <4>b. Page(Len(received') + 1) = m + Full
        BY <1>0, <4>a
      <4>c. m + (H + n) \in Nat /\ m + (H + n) = m + Full
        BY <1>2, <3>11
      <4>0. PICK p \in Nat : p = m + (H + n) /\ p = Page(Len(received') + 1)
        BY <4>b, <4>c
      <4>1. p + Len(Held') + Len(stream') = m + H + S
        BY <1>5, <2>11, <3>1, <4>0
      <4>2. p + Len(Held') + Len(stream') <= Len(wire')
        BY <2>4, <4>1 DEF L
      <4>3. conn' # "reset" => p + Len(Held') + Len(stream') = Len(wire')
        BY <2>4, <4>1 DEF L
      <4>4. \A i \in DOMAIN stream' : stream'[i] = wire'[p + Len(Held') + i]
        <5>1. p + Len(Held') = m + (H + n)
          BY <3>1, <4>0
        <5> QED BY <1>6, <2>10, <5>1
      <4>5. Follows(p)'
        BY <3>1, <4>2, <4>3, <4>4 DEF Follows
      <4> QED BY <3>10, <4>0, <4>5 DEF PlaceInv, Page
    <3>12. CASE Drained'
      BY <3>10, <3>12 DEF PlaceInv
    <3> QED BY <3>8, <3>11, <3>12
  <2> QED BY <1>8, <2>12, <2>13
<1> QED BY <1>e, <1>f

\* Every step keeps the places.
LEMMA PlaceStep ==
  ASSUME TypeOK, TypeOK', LockInv, PlaceInv, [Next]_vars
  PROVE  PlaceInv'
<1>1. ASSUME NEW t \in Senders, SendCall(t) \/ SendStart(t) \/ SendNoMemory(t) \/ SendFails(t)
      PROVE  UNCHANGED <<conn, received, wire, stream, rlock, rbuf>>
  BY <1>1 DEF SendCall, SendStart, SendNoMemory, SendFails, recvVars
<1>2. ASSUME NEW t \in Senders, SendWrite(t)
      PROVE  PlaceInv'
  <2>1. conn = "up" /\ UNCHANGED <<conn, recvVars>> /\ \E n : WritesPart(t, n)
    BY <1>2, WriteStep
  <2>2. UNCHANGED <<conn, received, Held>>
    BY <2>1 DEF recvVars, Held
  <2> QED BY <2>1, <2>2, PlaceWrite
<1>3. ASSUME NEW t \in Receivers, RecvCall(t) \/ RecvNoMemory(t)
      PROVE  UNCHANGED <<conn, received, wire, stream, rlock, rbuf>>
  BY <1>3 DEF RecvCall, RecvNoMemory
<1>4. ASSUME NEW t \in Receivers, RecvStart(t)
      PROVE  PlaceInv'
  <2>1. /\ rlock = NoThread /\ rlock' = t /\ rbuf' = [rbuf EXCEPT ![t] = <<>>]
        /\ UNCHANGED <<conn, received, wire, stream>>
    BY <1>4 DEF RecvStart
  <2>2. Held = <<>> /\ Held' = <<>>
    BY <2>1, Constants DEF Held, TypeOK
  <2> QED BY <2>1, <2>2, PlaceSame
<1>5. ASSUME NEW t \in Receivers, RecvRead(t) \/ RecvEnd(t)
      PROVE  PlaceInv'
  <2>1. rpc[t] = "read" /\ UNCHANGED <<conn, wire>> /\ \E n, buffer : ReadsPart(t, n, buffer)
    BY <1>5, ReadStep
  <2> QED BY <2>1, PlaceRead
<1>6. ASSUME NEW t \in Receivers, RecvFails(t)
      PROVE  PlaceInv'
  <2>1. /\ conn' = "reset" /\ stream' = <<>> /\ rlock' = NoThread /\ UNCHANGED <<received, wire>>
    BY <1>6 DEF RecvFails
  <2>2. Held' = <<>>
    BY <2>1 DEF Held
  <2> QED BY <2>1, <2>2, PlaceLost
<1>7. CASE Reset
  <2>1. /\ conn = "up" /\ conn' = "reset" /\ UNCHANGED <<recvVars, wire>>
        /\ Len(stream') <= Len(stream) /\ \A i \in 1 .. Len(stream') : stream'[i] = stream[i]
    BY <1>7, ResetStep
  <2>2. Held' = Held /\ received' = received
    BY <2>1 DEF recvVars, Held
  <2> QED BY <2>1, <2>2, PlaceLost
<1>8. ASSUME ktcp_release \/ UNCHANGED vars
      PROVE  /\ UNCHANGED <<received, wire, stream, rlock, rbuf>>
             /\ conn' # "reset" => conn # "reset"
             /\ conn' = "up" => conn = "up"
  BY <1>8 DEF ktcp_release, vars, recvVars
<1>9. ASSUME UNCHANGED <<received, wire, stream, rlock, rbuf>>,
             conn' # "reset" => conn # "reset", conn' = "up" => conn = "up"
      PROVE  PlaceInv'
  <2>1. Held' = Held
    BY <1>9 DEF Held
  <2> QED BY <1>9, <2>1, PlaceSame
<1> QED BY <1>1, <1>2, <1>3, <1>4, <1>5, <1>6, <1>7, <1>8, <1>9, StepCases

-----------------------------------------------------------------------------
(* The theorems.                                                           *)

\* Every initial state has the invariant.
LEMMA InvariantInit == Init => IInv
<1> SUFFICES ASSUME Init PROVE IInv
  OBVIOUS
<1>1. /\ <<>> \in Seq(Unit) /\ Len(<<>>) = 0 /\ DOMAIN <<>> = {}
      /\ <<>> \in Seq(Seq(Unit \cup {Zero}))
  OBVIOUS
<1>2. TypeOK
  BY <1>1, Constants DEF Init, TypeOK
<1>3. LockInv /\ WriterInv /\ WireInv /\ AckInv
  BY <1>1 DEF Init, LockInv, WriterInv, WireInv, AckInv
<1>4. FramesContiguous
  BY <1>1 DEF Init, FramesContiguous
<1>5. PlaceInv
  <2>1. Held = <<>> /\ stream = <<>> /\ wire = <<>> /\ received = <<>>
    BY DEF Init, Held
  <2>2. ReturnedPages
    BY <1>1, <2>1 DEF ReturnedPages
  <2>3. Page(Len(received) + 1) = 0
    BY <1>1, <2>1, Constants DEF Page
  <2>4. Follows(0)
    BY <1>1, <2>1 DEF Follows
  <2> QED BY <2>2, <2>3, <2>4 DEF PlaceInv
<1> QED BY <1>2, <1>3, <1>4, <1>5 DEF IInv

\* The invariant holds in every reachable state, for any threads and sizes: the locks, the
\* writer's place on the wire, the acknowledged frames and the places of what was read.
THEOREM Invariant == Spec => []IInv
<1>1. IInv /\ [Next]_vars => IInv'
  BY TypeStep, LockStep, WireStep, PlaceStep DEF IInv
<1> QED BY <1>1, InvariantInit, PTL DEF Spec

\* The variables keep their types.
THEOREM TypeCorrect == Spec => []TypeOK
<1>1. IInv => TypeOK
  BY DEF IInv
<1> QED BY <1>1, Invariant, PTL

\* However many threads send, frames are never mixed on the wire (ktcp.c:60-133).
THEOREM Contiguous == Spec => []FramesContiguous
<1>1. IInv => FramesContiguous
  BY DEF IInv
<1> QED BY <1>1, Invariant, PTL

\* A success of ktcp_send means that the whole frame was written (ktcp.c:83-101, 132).
THEOREM AckedOnWire == Spec => []AckedWritten
<1>1. ASSUME IInv PROVE AckedWritten
  <2> SUFFICES ASSUME conn # "reset", NEW frame \in acked
               PROVE  \E k \in 1 .. Len(wire) - Len(frame) + 1 :
                        SubSeq(wire, k, k + Len(frame) - 1) = frame
    BY DEF AckedWritten
  <2>1. frame \in Seq(Unit) /\ wire \in Seq(Unit) /\ OnWire(frame)
    BY <1>1 DEF IInv, TypeOK, AckInv
  <2>2. /\ Len(frame) \in Nat /\ DOMAIN frame = 1 .. Len(frame)
        /\ Len(wire) \in Nat
    BY <2>1, LenProperties
  <2>3. PICK k \in 0 .. Len(wire) - Len(frame) : \A i \in DOMAIN frame : wire[k + i] = frame[i]
    BY <2>1 DEF OnWire
  <2>4. /\ k \in Nat /\ k + Len(frame) <= Len(wire) /\ k + 1 \in 1 .. Len(wire) - Len(frame) + 1
        /\ (k + 1) + Len(frame) - 1 = k + Len(frame)
    BY <2>2, <2>3
  <2>5. PICK n \in Nat : n = Len(frame)
    BY <2>2
  <2>6. PICK part : part = SubSeq(wire, k + 1, k + n)
    OBVIOUS
  <2>7. /\ part \in Seq(Unit) /\ Len(part) = n
        /\ \A i \in 1 .. n : part[i] = wire[k + i]
    BY <2>1, <2>4, <2>5, <2>6, Part
  <2>8. part = frame
    BY <2>1, <2>2, <2>3, <2>5, <2>7, SeqEqual
  <2>9. SubSeq(wire, k + 1, (k + 1) + Len(frame) - 1) = frame
    BY <2>4, <2>5, <2>6, <2>8
  <2> QED BY <2>4, <2>9
<1> QED BY <1>1, Invariant, PTL

\* However many threads read, whatever a read takes and wherever the stream ends, the k-th
\* message that ktcp_receive returns is the beginning of the k-th page of what was written
\* (ktcp.c:166-287).
THEOREM PagesOrdered == Spec => []PagesInOrder
<1>1. IInv => PagesInOrder
  BY DEF IInv, PlaceInv, ReturnedPages, Drained, PagesInOrder
<1> QED BY <1>1, Invariant, PTL
=============================================================================
