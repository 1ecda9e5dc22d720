-------------------- MODULE KrdmaSendRecvChannel_proofs --------------------
(* krdma_send and krdma_receive implement MessageChannel, for any number of *)
(* threads, slots and messages.                                             *)
EXTENDS KrdmaSendRecv_proofs

\* The messages k + 1, ..., k + n.
Run(k, n) == [i \in 1 .. n |-> k + i]

\* The abstract queue is such a run.
Queue == Run(Len(received), Top - Len(received))

-----------------------------------------------------------------------------
(* Runs.                                                                   *)

\* A run is a sequence.
LEMMA RunIsSeq ==
  ASSUME NEW k \in Nat, NEW n \in Nat
  PROVE  /\ Run(k, n) \in Seq(Nat) /\ Len(Run(k, n)) = n
         /\ DOMAIN Run(k, n) = 1 .. n
         /\ \A i \in 1 .. n : Run(k, n)[i] = k + i
BY DEF Run

\* What the operations of a queue make of a run.
LEMMA RunAppend ==
  ASSUME NEW k \in Nat, NEW n \in Nat
  PROVE  Run(k, n + 1) = Append(Run(k, n), k + n + 1)
<1> DEFINE q == Run(k, n)
           r == Run(k, n + 1)
           a == Append(q, k + n + 1)
<1>1. q \in Seq(Nat) /\ Len(q) = n /\ \A i \in 1 .. n : q[i] = k + i
  BY RunIsSeq
<1>2. r \in Seq(Nat) /\ Len(r) = n + 1 /\ \A i \in 1 .. n + 1 : r[i] = k + i
  BY RunIsSeq
<1>3. k + n + 1 \in Nat
  OBVIOUS
<1> HIDE DEF q, r
<1>4. /\ a \in Seq(Nat) /\ Len(a) = n + 1
      /\ \A i \in 1 .. n : a[i] = q[i]
      /\ a[n + 1] = k + n + 1
  BY <1>1, <1>3, AppendProperties
<1> HIDE DEF a
<1>5. \A i \in 1 .. Len(r) : r[i] = a[i]
  BY <1>1, <1>2, <1>4
<1>6. r = a
  BY <1>2, <1>4, <1>5, SeqEqual
<1> QED BY <1>6 DEF q, r, a

\* The tail of a run is a run.
LEMMA RunTail ==
  ASSUME NEW k \in Nat, NEW n \in Nat \ {0}
  PROVE  /\ Run(k, n) # <<>> /\ Head(Run(k, n)) = k + 1
         /\ Run(k + 1, n - 1) = Tail(Run(k, n))
<1> DEFINE q == Run(k, n)
           r == Run(k + 1, n - 1)
<1>1. q \in Seq(Nat) /\ Len(q) = n /\ \A i \in 1 .. n : q[i] = k + i
  BY RunIsSeq
<1>2. r \in Seq(Nat) /\ Len(r) = n - 1 /\ \A i \in 1 .. n - 1 : r[i] = k + 1 + i
  <2>1. k + 1 \in Nat /\ n - 1 \in Nat
    OBVIOUS
  <2> QED BY <2>1, RunIsSeq
<1> HIDE DEF q, r
<1>3. q # <<>> /\ Head(q) = q[1]
  BY <1>1, LenFacts, TailFacts
<1>4. /\ Tail(q) \in Seq(Nat) /\ Len(Tail(q)) = n - 1
      /\ \A i \in 1 .. n - 1 : Tail(q)[i] = q[i + 1]
  BY <1>1, <1>3, HeadTailProperties
<1>5. \A i \in 1 .. Len(r) : r[i] = Tail(q)[i]
  BY <1>1, <1>2, <1>4
<1>6. r = Tail(q)
  BY <1>2, <1>4, <1>5, SeqEqual
<1>7. Head(q) = k + 1
  BY <1>1, <1>3
<1> QED BY <1>3, <1>6, <1>7 DEF q, r

\* A prefix of a run is a run.
LEMMA RunPrefix ==
  ASSUME NEW k \in Nat, NEW n \in Nat, NEW m \in 0 .. n
  PROVE  Run(k, m) = SubSeq(Run(k, n), 1, m)
<1> DEFINE q == Run(k, n)
           r == Run(k, m)
           p == SubSeq(q, 1, m)
<1>1. \A i \in 1 .. n : q[i] = k + i
  BY RunIsSeq
<1>2. r \in Seq(Nat) /\ Len(r) = m /\ \A i \in 1 .. m : r[i] = k + i
  BY RunIsSeq
<1> HIDE DEF q, r
<1>3. \A i \in 1 .. m : q[i] \in Nat
  BY <1>1
<1>4. /\ p \in Seq(Nat) /\ Len(p) = IF 1 <= m THEN m - 1 + 1 ELSE 0
      /\ \A i \in 1 .. m - 1 + 1 : p[i] = q[1 + i - 1]
  BY <1>3, SubSeqProperties
<1> HIDE DEF p
<1>5. Len(p) = m /\ \A i \in 1 .. Len(r) : r[i] = p[i]
  BY <1>1, <1>2, <1>4
<1>6. r = p
  BY <1>2, <1>4, <1>5, SeqEqual
<1> QED BY <1>6 DEF q, r, p

-----------------------------------------------------------------------------
(* The abstract state.                                                     *)

\* The messages taken have arrived, and those that have arrived have been sent.
LEMMA Bounds ==
  ASSUME IInv
  PROVE  /\ Len(received) \in Nat /\ narrived \in Nat /\ nsent \in Nat /\ Top \in Nat
         /\ Len(received) <= narrived /\ narrived <= Top
         /\ Top - Len(received) \in Nat
<1>1. /\ Len(received) \in Nat /\ narrived \in Nat /\ nsent \in Nat
      /\ link => narrived <= nsent
  <2>1. narrived \in Nat /\ nsent \in Nat
    BY BoundAssumption DEF IInv, TypeOK, Message
  <2>2. Len(received) \in Nat /\ Len(sq) \in Nat
    BY TakenValue, SendLengths DEF IInv
  <2> QED BY <2>1, <2>2 DEF IInv, LinkInv
<1>2. Len(received) <= Taken /\ Taken <= narrived /\ Taken \in Nat
  BY TakenValue DEF IInv, OrderInv
<1>3. Top \in Nat /\ narrived <= Top
  BY <1>1 DEF Top
<1> QED BY <1>1, <1>2, <1>3

\* What the channel knows is exactly the messages up to Top.
LEMMA KnownIs ==
  ASSUME IInv
  PROVE  Channel!Known = 1 .. Top
<1> DEFINE k == Len(received)
           n == Top - k
<1>1. k \in Nat /\ n \in Nat /\ Top = k + n
  BY Bounds
<1>2. DOMAIN received = 1 .. k /\ \A i \in DOMAIN received : received[i].msg = i
  BY RecvLengths DEF IInv, OrderInv, InOrder
<1>3. Channel!Known = {[i \in 1 .. n |-> k + i][j] : j \in DOMAIN [i \in 1 .. n |-> k + i]}
                      \cup {received[i].msg : i \in DOMAIN received}
  BY DEF Channel!Known, Channel!Elements
<1>4. {[i \in 1 .. n |-> k + i][j] : j \in DOMAIN [i \in 1 .. n |-> k + i]} = k + 1 .. k + n
  <2>1. ASSUME NEW m \in k + 1 .. k + n
        PROVE  m - k \in 1 .. n /\ [i \in 1 .. n |-> k + i][m - k] = m
    BY <1>1, <2>1
  <2> HIDE DEF k, n
  <2>2. \A j \in 1 .. n : [i \in 1 .. n |-> k + i][j] \in k + 1 .. k + n
    BY <1>1
  <2> QED BY <2>1, <2>2
<1>5. {received[i].msg : i \in DOMAIN received} = 1 .. k
  BY <1>2
<1> QED BY <1>1, <1>3, <1>4, <1>5
-----------------------------------------------------------------------------
(* The steps.  Each lemma is about one kind of abstract step.              *)

ChannelStep == [Channel!Next]_(Channel!vars)

\* A step that neither takes nor acknowledges a message nor breaks the link, and posts
\* none on a link that is up, is invisible.
LEMMA Invisible ==
  ASSUME UNCHANGED <<link, received, acked>>,
         link => UNCHANGED nsent,
         ~link => UNCHANGED narrived
  PROVE  ChannelStep
<1>1. UNCHANGED Top
  BY DEF Top
<1> QED BY <1>1 DEF ChannelStep, Channel!vars

\* A krdma_send that posts on a link that is up is an Accept.
LEMMA PostAccepts ==
  ASSUME IInv, link, nsent < MaxMsgs, nsent' = nsent + 1,
         UNCHANGED <<link, received, acked>>
  PROVE  ChannelStep
<1> DEFINE k == Len(received)
           n == Top - k
<1>1. /\ k \in Nat /\ n \in Nat /\ nsent \in Nat /\ Top = nsent /\ Top' = nsent + 1
      /\ k' = k /\ n' = n + 1 /\ k + n + 1 = nsent + 1
  BY Bounds DEF Top
<1>2. PICK m \in 1 .. MaxMsgs : m = nsent + 1
  BY <1>1, BoundAssumption
<1>3. m \notin Channel!Known
  BY <1>1, <1>2, KnownIs
<1>4. [i \in 1 .. n + 1 |-> k + i] = Append([i \in 1 .. n |-> k + i], m)
  BY <1>1, <1>2, RunAppend DEF Run
<1>5. Channel!Accept(m)
  BY <1>1, <1>3, <1>4 DEF Channel!Accept
<1> QED BY <1>5 DEF ChannelStep, Channel!Next

\* A krdma_send that reports success is an Acknowledge.
LEMMA SuccessAcknowledges ==
  ASSUME IInv, IInv', NEW m \in Message, acked' = acked \cup {m},
         UNCHANGED <<link, received, nsent, narrived>>
  PROVE  ChannelStep
<1>1. m \in 1 .. MaxMsgs /\ m <= narrived
  BY BoundAssumption DEF IInv, SendInv, AckedArrived, Message
<1>2. m \in Channel!Known
  BY <1>1, Bounds, KnownIs
<1>3. UNCHANGED Top
  BY DEF Top
<1>4. Channel!Acknowledge(m)
  BY <1>2, <1>3 DEF Channel!Acknowledge
<1> QED BY <1>1, <1>4 DEF ChannelStep, Channel!Next

\* A krdma_receive that takes a message, whether or not it returns it, is a Fetch.
LEMMA TakeFetches ==
  ASSUME IInv, IInv', NEW m \in Nat, NEW ok \in BOOLEAN,
         received' = Append(received, [msg |-> m, ok |-> ok]),
         UNCHANGED <<link, acked, nsent, narrived>>
  PROVE  ChannelStep
<1> DEFINE k == Len(received)
           n == Top - k
<1>1. /\ k \in Nat /\ n \in Nat /\ UNCHANGED Top
      /\ k' \in Nat /\ n' \in Nat
  <2>1. k \in Nat /\ n \in Nat /\ Top \in Nat /\ narrived \in Nat /\ narrived <= Top
    BY Bounds
  <2>2. UNCHANGED Top
    BY DEF Top
  <2>3. k' \in Nat
    <3>1. received' \in Seq([msg : Nat, ok : BOOLEAN])
      BY DEF IInv, TypeOK
    <3> QED BY <3>1, LenFacts
  <2>4. k' <= narrived
    BY <2>1, <2>3 DEF IInv, OrderInv, Taken
  <2> QED BY <2>1, <2>2, <2>3, <2>4
<1>2. /\ k' = k + 1 /\ k + 1 \in DOMAIN received'
      /\ received'[k + 1] = [msg |-> m, ok |-> ok]
  <2>1. received \in Seq([msg : Nat, ok : BOOLEAN])
    BY DEF IInv, TypeOK
  <2> QED BY <2>1, AppendFacts
<1>3. m = k + 1
  <2>1. received'[k + 1].msg = k + 1
    BY <1>2 DEF IInv, OrderInv, InOrder
  <2> QED BY <1>2, <2>1
<1>4. n \in Nat /\ n # 0 /\ n' = n - 1
  <2>1. n' = Top' - k' /\ Top' = Top /\ k' = k + 1 /\ n = Top - k
    BY <1>1, <1>2
  <2>2. Top \in Nat /\ k \in Nat /\ n' \in Nat
    BY <1>1, Bounds
  <2> HIDE DEF k, n
  <2> QED BY <2>1, <2>2
<1>5. /\ [i \in 1 .. n |-> k + i] # <<>> /\ Head([i \in 1 .. n |-> k + i]) = m
      /\ [i \in 1 .. n' |-> k' + i] = Tail([i \in 1 .. n |-> k + i])
  <2>1. k \in Nat /\ n \in Nat \ {0} /\ k' = k + 1 /\ n' = n - 1
    BY <1>1, <1>2, <1>4
  <2> HIDE DEF k, n
  <2> QED BY <1>3, <2>1, RunTail DEF Run
<1>6. Channel!Fetch(ok)
  BY <1>5 DEF Channel!Fetch
<1> QED BY <1>6 DEF ChannelStep, Channel!Next

\* A broken link is a Break that keeps what has arrived.
LEMMA LinkDownBreaks ==
  ASSUME IInv, LinkDown
  PROVE  ChannelStep
<1> DEFINE k == Len(received)
           n == Top - k
<1>1. /\ UNCHANGED <<nsent, narrived, received, acked>> /\ link /\ link' = FALSE
      /\ k' = k /\ Top' = narrived
  BY DEF LinkDown, history, Top
<1>m. PICK m \in Nat : m = narrived - k
  BY Bounds
<1>2. k \in Nat /\ n \in Nat /\ m \in 0 .. n /\ n' = m
  BY <1>1, <1>m, Bounds
<1>3. /\ [i \in 1 .. n' |-> k' + i] = SubSeq([i \in 1 .. n |-> k + i], 1, m)
      /\ Len([i \in 1 .. n |-> k + i]) = n
  BY <1>1, <1>2, RunPrefix, RunIsSeq DEF Run
<1>4. acked \subseteq 1 .. narrived
  BY Bounds DEF IInv, TypeOK, SendInv, AckedArrived, Message
<1>5. 1 .. narrived
        \subseteq Channel!Elements([i \in 1 .. n' |-> k' + i])
                  \cup {received[i].msg : i \in DOMAIN received}
  <2>1. DOMAIN received = 1 .. k /\ \A i \in DOMAIN received : received[i].msg = i
    BY RecvLengths DEF IInv, OrderInv, InOrder
  <2>2. ASSUME NEW a \in 1 .. narrived, a > k
        PROVE  a - k \in 1 .. m /\ [i \in 1 .. m |-> k + i][a - k] = a
    BY <1>2, <1>m, <2>2, Bounds
  <2>3. n' = m /\ k' = k /\ k \in Nat /\ narrived \in Nat
    BY <1>1, <1>2, Bounds
  <2> HIDE DEF k, n
  <2>4. ASSUME NEW a \in 1 .. narrived, a > k
        PROVE  a \in Channel!Elements([i \in 1 .. m |-> k + i])
    BY <2>2, <2>4 DEF Channel!Elements
  <2>5. ASSUME NEW a \in 1 .. narrived, ~(a > k)
        PROVE  a \in {received[i].msg : i \in DOMAIN received}
    BY <2>1, <2>3, <2>5
  <2> QED BY <2>3, <2>4, <2>5
<1>6. Channel!Break(m)
  BY <1>1, <1>3, <1>4, <1>5 DEF Channel!Break
<1> QED BY <1>2, <1>3, <1>6 DEF ChannelStep, Channel!Next
-----------------------------------------------------------------------------
(* The refinement.                                                         *)

\* The initial state is an initial state of the channel.
LEMMA InitImplements == Init => Channel!Init
<1> SUFFICES ASSUME Init PROVE Channel!Init
  OBVIOUS
<1>1. Len(received) = 0 /\ Top = 0
  BY DEF Init, Top
<1>2. [i \in 1 .. Top - Len(received) |-> Len(received) + i] = <<>>
  <2>1. Run(0, 0) = <<>>
    BY RunIsSeq, LenFacts
  <2> QED BY <1>1, <2>1 DEF Run
<1> QED BY <1>2 DEF Init, Channel!Init

\* Every step of the detailed specification is a step of the channel or invisible.
LEMMA StepImplements == IInv /\ IInv' /\ [Next]_vars => ChannelStep
<1> SUFFICES ASSUME IInv, IInv', [Next]_vars PROVE ChannelStep
  OBVIOUS
<1>1. ASSUME NEW t \in Senders, SendPost(t) PROVE ChannelStep
  <2>1. nsent < MaxMsgs /\ nsent' = nsent + 1 /\ UNCHANGED <<link, narrived, received, acked>>
    BY <1>1 DEF SendPost
  <2>2. CASE link
    BY <2>1, <2>2, PostAccepts
  <2>3. CASE ~link
    BY <2>1, <2>3, Invisible
  <2> QED BY <2>2, <2>3
<1>2. ASSUME NEW t \in Senders, SendPoll(t) PROVE ChannelStep
  <2>1. UNCHANGED <<link, nsent, narrived, received>>
    BY <1>2 DEF SendPoll
  <2>2. Head(scq).status \in {"SUCCESS", "ERR", "FLUSH"}
    <3>1. Head(scq) \in [status : {"SUCCESS"} \cup ErrStatus, msg : Nat]
      BY <1>2, QueueTypes DEF SendPoll, IInv, TypeOK
    <3> QED BY <3>1 DEF ErrStatus
  <2>3. acked' = acked \cup {smsg[t]} \/ UNCHANGED acked
    BY <1>2, <2>2 DEF SendPoll, SendError
  <2>4. PICK m \in Message : m = smsg[t]
    BY DEF IInv, TypeOK
  <2>5. CASE acked' = acked \cup {smsg[t]}
    BY <2>1, <2>4, <2>5, SuccessAcknowledges
  <2>6. CASE UNCHANGED acked
    BY <2>1, <2>6, Invisible
  <2> QED BY <2>3, <2>5, <2>6
<1>3. ASSUME NEW t \in Senders,
             \/ SendCall(t) \/ SendPostFails(t) \/ SendOverflow(t)
             \/ SendCheck(t) \/ SendPollEmpty(t)
      PROVE  ChannelStep
  <2>1. UNCHANGED <<link, nsent, narrived, received, acked>>
    BY <1>3 DEF SendCall, SendPostFails, SendOverflow, SendCheck, SendError, SendPollEmpty,
                history
  <2> QED BY <2>1, Invisible
<1>4. ASSUME NEW t \in Receivers, RecvPoll(t) \/ RecvOutput(t) PROVE ChannelStep
  <2>1. UNCHANGED <<link, nsent, narrived, acked>>
    BY <1>4, RecvSideFrame DEF RecvStep
  <2>2. UNCHANGED received
        \/ \E m \in Nat, ok \in BOOLEAN : received' = Append(received, [msg |-> m, ok |-> ok])
    <3>1. CASE RecvPoll(t)
      <4>1. Head(rcq).slot \in RecvSlots
        BY <3>1, QueueFacts DEF RecvPoll, IInv, Completion
      <4>2. recvBuf[Head(rcq).slot] \in Nat
        BY <4>1 DEF IInv, TypeOK
      <4>3. \/ UNCHANGED received
            \/ received' = Append(received, [msg |-> recvBuf[Head(rcq).slot], ok |-> FALSE])
        BY <3>1 DEF RecvPoll
      <4> QED BY <4>2, <4>3
    <3>2. CASE RecvOutput(t)
      <4>1. recvBuf[rtrans[t]] \in Nat
        BY DEF IInv, TypeOK
      <4>2. received' = Append(received, [msg |-> recvBuf[rtrans[t]], ok |-> TRUE])
        BY <3>2 DEF RecvOutput, build_krdma_recv_output
      <4> QED BY <4>1, <4>2
    <3> QED BY <1>4, <3>1, <3>2
  <2>3. CASE UNCHANGED received
    BY <2>1, <2>3, Invisible
  <2>4. CASE \E m \in Nat, ok \in BOOLEAN :
               received' = Append(received, [msg |-> m, ok |-> ok])
    BY <2>1, <2>4, TakeFetches
  <2> QED BY <2>2, <2>3, <2>4
<1>5. ASSUME NEW t \in Receivers,
             \/ RecvCall(t) \/ RecvCheck(t) \/ RecvPollEmpty(t)
             \/ RecvPollError(t) \/ RecvPolled(t)
      PROVE  ChannelStep
  <2>1. UNCHANGED <<link, nsent, narrived, received, acked>>
    BY <1>5 DEF RecvCall, RecvCheck, RecvPollEmpty, RecvPollError, RecvPolled, history
  <2> QED BY <2>1, Invisible
<1>6. CASE Transmit
  <2>1. link /\ UNCHANGED <<link, nsent, received, acked>>
    BY <1>6 DEF Transmit
  <2> QED BY <2>1, Invisible
<1>7. CASE LinkDown
  BY <1>7, LinkDownBreaks
<1>8. CASE \/ SendComplete \/ FlushSend \/ FlushRecv \/ UNCHANGED vars
           \/ \E e \in Ends : Disconnected(e)
  <2>1. UNCHANGED <<link, nsent, narrived, received, acked>>
    BY <1>8 DEF SendComplete, FlushSend, FlushRecv, Disconnected, vars, history
  <2> QED BY <2>1, Invisible
<1> QED
  BY <1>1, <1>2, <1>3, <1>4, <1>5, <1>6, <1>7, <1>8 DEF Next, SendStep, RecvStep, Fabric

\* krdma_send and krdma_receive (krdma.c:1151-1302) implement the message channel, for
\* any number of threads, slots and retries: whatever the interleaving and whenever the
\* connection breaks, messages are handed over once and in order, and none that was
\* acknowledged is lost.
THEOREM Refinement == Spec => ImplementsChannel
<1>1. IInv /\ IInv' /\ [Next]_vars => [Channel!Next]_(Channel!vars)
  BY StepImplements DEF ChannelStep
<1> QED
  BY InitImplements, Invariant, <1>1, PTL DEF Spec, ImplementsChannel, Channel!Spec
=============================================================================
