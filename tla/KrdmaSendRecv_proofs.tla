------------------------ MODULE KrdmaSendRecv_proofs ------------------------
(* Theorems about KrdmaSendRecv, for any number of threads and slots. *)
EXTENDS KrdmaSendRecv, SequenceTheorems, TLAPS

\* The two ends of a queue.
LEMMA QueueTypes ==
  ASSUME NEW S, NEW q \in Seq(S)
  PROVE  /\ q # <<>> => Head(q) \in S /\ Tail(q) \in Seq(S)
         /\ \A x \in S : Append(q, x) \in Seq(S)
         /\ \A i \in DOMAIN q : q[i] \in S
BY HeadTailProperties, AppendProperties, ElementOfSeq

\* The elements of a queue after its head is taken and after an element is added.
LEMMA TailFacts ==
  ASSUME NEW S, NEW q \in Seq(S), q # <<>>
  PROVE  /\ 1 \in DOMAIN q /\ Head(q) = q[1]
         /\ Len(q) \in Nat \ {0} /\ Len(Tail(q)) = Len(q) - 1
         /\ \A i \in DOMAIN Tail(q) : i \in Nat \ {0} /\ i + 1 \in DOMAIN q /\ Tail(q)[i] = q[i + 1]
BY HeadTailProperties, LenProperties, EmptySeq

\* The elements of a sequence and of the sequence with one more.
LEMMA AppendFacts ==
  ASSUME NEW S, NEW q \in Seq(S), NEW x \in S
  PROVE  /\ Len(q) \in Nat /\ Len(Append(q, x)) = Len(q) + 1
         /\ DOMAIN Append(q, x) = DOMAIN q \cup {Len(q) + 1}
         /\ Len(q) + 1 \notin DOMAIN q
         /\ \A i \in DOMAIN q : Append(q, x)[i] = q[i]
         /\ Append(q, x)[Len(q) + 1] = x
BY AppendProperties, LenProperties

\* The length and the indices of a sequence.
LEMMA LenFacts ==
  ASSUME NEW S, NEW q \in Seq(S)
  PROVE  /\ Len(q) \in Nat /\ (q = <<>> <=> Len(q) = 0)
         /\ DOMAIN q = 1 .. Len(q)
BY LenProperties, EmptySeq

\* What the queues of a state with the right types hold.
LEMMA QueueFacts ==
  ASSUME TypeOK
  PROVE  /\ sq # <<>> => Head(sq) \in SendSlots /\ Tail(sq) \in Seq(SendSlots)
         /\ unacked # <<>> => Head(unacked) \in Nat /\ Tail(unacked) \in Seq(Nat)
         /\ rcq # <<>> => Head(rcq) \in Completion /\ Tail(rcq) \in Seq(Completion)
         /\ \A x \in [status : {"SUCCESS"} \cup ErrStatus, msg : Nat] :
              Append(scq, x) \in Seq([status : {"SUCCESS"} \cup ErrStatus, msg : Nat])
         /\ \A x \in [msg : Nat, ok : BOOLEAN] :
              Append(received, x) \in Seq([msg : Nat, ok : BOOLEAN])
         /\ \A x \in Nat : Append(unacked, x) \in Seq(Nat)
         /\ \A x \in Completion : Append(rcq, x) \in Seq(Completion)
<1> USE DEF TypeOK
<1>1. sq # <<>> => Head(sq) \in SendSlots /\ Tail(sq) \in Seq(SendSlots)
  BY QueueTypes
<1>2. unacked # <<>> => Head(unacked) \in Nat /\ Tail(unacked) \in Seq(Nat)
  BY QueueTypes
<1>3. rcq # <<>> => Head(rcq) \in Completion /\ Tail(rcq) \in Seq(Completion)
  BY QueueTypes
<1>4. \A x \in [status : {"SUCCESS"} \cup ErrStatus, msg : Nat] :
        Append(scq, x) \in Seq([status : {"SUCCESS"} \cup ErrStatus, msg : Nat])
  BY QueueTypes
<1>5. \A x \in [msg : Nat, ok : BOOLEAN] :
        Append(received, x) \in Seq([msg : Nat, ok : BOOLEAN])
  BY QueueTypes
<1>6. \A x \in Nat : Append(unacked, x) \in Seq(Nat)
  BY QueueTypes
<1>7. \A x \in Completion : Append(rcq, x) \in Seq(Completion)
  BY QueueTypes
<1> QED
  BY <1>1, <1>2, <1>3, <1>4, <1>5, <1>6, <1>7

\* The initial state and every step keep the types.
LEMMA TypeInit == Init => TypeOK
<1> SUFFICES ASSUME Init PROVE TypeOK
  OBVIOUS
<1>1. 0 \in SendSlots /\ 0 \in RecvSlots /\ 0 \in Message /\ 0 \in 0 .. MaxRetry
  BY DepthAssumption, BoundAssumption DEF SendSlots, RecvSlots, Message
<1>2. /\ sq \in Seq(SendSlots) /\ unacked \in Seq(Nat)
      /\ scq \in Seq([status : {"SUCCESS"} \cup ErrStatus, msg : Nat])
      /\ rcq \in Seq(Completion) /\ received \in Seq([msg : Nat, ok : BOOLEAN])
  BY EmptySeq DEF Init
<1> QED
  BY <1>1, <1>2 DEF Init, TypeOK, SlotState

\* Every step keeps the types.
LEMMA TypeStep == TypeOK /\ [Next]_vars => TypeOK'
<1> SUFFICES ASSUME TypeOK, [Next]_vars PROVE TypeOK'
  OBVIOUS
<1> USE DEF TypeOK
<1>1. ASSUME NEW t \in Senders, SendCall(t) PROVE TypeOK'
  BY <1>1 DEF SendCall, sendHca, recvVars, recvHca, history
<1>2. ASSUME NEW t \in Senders, SendPost(t) PROVE TypeOK'
  <2> PICK s \in SendSlots :
        /\ lastSchedule' = s
        /\ sendState' = [sendState EXCEPT ![s] = "POSTED"]
        /\ sendBuf' = [sendBuf EXCEPT ![s] = nsent + 1]
        /\ sq' = Append(sq, s)
    BY <1>2 DEF SendPost
  <2> QED BY <1>2, BoundAssumption, SMTT(30) DEF SendPost, recvVars, recvHca, Message
<1>3. ASSUME NEW t \in Senders, SendPostFails(t) PROVE TypeOK'
  <2> PICK s \in SendSlots :
        /\ lastSchedule' = s
        /\ sendState' = [sendState EXCEPT ![s] = "POSTED"]
        /\ sendBuf' = [sendBuf EXCEPT ![s] = nsent + 1]
    BY <1>3 DEF SendPostFails
  <2> QED BY <1>3, SMTT(30) DEF SendPostFails, sendHca, recvVars, recvHca, Message
<1>4. ASSUME NEW t \in Senders, SendOverflow(t) PROVE TypeOK'
  <2>1. (lastSchedule + 1) % SendDepth \in SendSlots
    BY DepthAssumption DEF SendSlots
  <2> QED BY <1>4, <2>1 DEF SendOverflow, sendHca, recvVars, recvHca, history
<1>5. ASSUME NEW t \in Senders, SendCheck(t) PROVE TypeOK'
  BY <1>5 DEF SendCheck, SendError, sendHca, recvVars, recvHca
<1>6. ASSUME NEW t \in Senders, SendPollEmpty(t) PROVE TypeOK'
  BY <1>6 DEF SendPollEmpty, sendHca, recvVars, recvHca, history
<1>7. ASSUME NEW t \in Senders, SendPoll(t) PROVE TypeOK'
  <2> DEFINE S == [status : {"SUCCESS"} \cup ErrStatus, msg : Nat]
  <2>1. Head(scq) \in S /\ scq' \in Seq(S)
    BY <1>7, QueueTypes DEF SendPoll
  <2> HIDE DEF S
  <2>2. Head(scq).status \in {"SUCCESS", "ERR", "FLUSH"}
    BY <2>1 DEF S, ErrStatus
  <2>3. /\ slock' \in Senders \cup {NoThread}
        /\ spc' \in [Senders -> {"idle", "lock", "check", "poll", "bug"}]
        /\ sendState' \in [SendSlots -> {"INVALID", "POSTED"}]
        /\ acked' \in SUBSET Message
        /\ sendFailed' \in BOOLEAN
    <3>1. CASE Head(scq).status = "FLUSH"
      BY <1>7, <3>1 DEF SendPoll
    <3>2. CASE Head(scq).status = "ERR"
      BY <1>7, <3>2 DEF SendPoll, SendError
    <3>3. CASE Head(scq).status = "SUCCESS"
      <4>1. slock' = NoThread /\ UNCHANGED sendFailed
        BY <1>7, <3>3 DEF SendPoll
      <4>2. CASE \E s \in SendSlots : sendState[s] = "POSTED"
        <5>1. PICK s \in SendSlots : sendState' = [sendState EXCEPT ![s] = "INVALID"]
          BY <1>7, <3>3, <4>2 DEF SendPoll
        <5>2. spc' = [spc EXCEPT ![t] = "idle"] /\ acked' = acked \cup {smsg[t]}
          BY <1>7, <3>3, <4>2 DEF SendPoll
        <5> QED BY <4>1, <5>1, <5>2
      <4>3. CASE ~\E s \in SendSlots : sendState[s] = "POSTED"
        <5>1. spc' = [spc EXCEPT ![t] = "bug"] /\ UNCHANGED <<sendState, acked>>
          BY <1>7, <3>3, <4>3 DEF SendPoll
        <5> QED BY <4>1, <5>1
      <4> QED BY <4>2, <4>3
    <3> QED BY <2>2, <3>1, <3>2, <3>3
  <2> QED
    BY <1>7, <2>1, <2>3 DEF SendPoll, recvVars, recvHca, S
<1>8. ASSUME NEW t \in Receivers, RecvCall(t) PROVE TypeOK'
  BY <1>8, BoundAssumption, SMTT(30) DEF RecvCall, sendVars, sendHca, recvHca, history
<1>9. ASSUME NEW t \in Receivers, RecvCheck(t) PROVE TypeOK'
  BY <1>9 DEF RecvCheck, sendVars, sendHca, recvHca, history
<1>10. ASSUME NEW t \in Receivers, RecvPollEmpty(t) PROVE TypeOK'
  <2>1. /\ rlock' \in Receivers \cup {NoThread}
        /\ rpc' \in [Receivers -> {"idle", "lock", "poll", "polled", "output", "bug"}]
    BY <1>10 DEF RecvPollEmpty
  <2>2. retry' \in [Receivers -> 0 .. MaxRetry]
    <3>1. retry[t] \in 0 .. MaxRetry
      OBVIOUS
    <3>2. (IF retry[t] < MaxRetry THEN retry[t] + 1 ELSE 0) \in 0 .. MaxRetry
      BY <3>1, BoundAssumption
    <3> QED BY <1>10, <3>2 DEF RecvPollEmpty
  <2>3. UNCHANGED <<cbState, link, sendVars, sendHca, recvState, recvBuf, rtrans, recvHca,
                    history>>
    BY <1>10 DEF RecvPollEmpty
  <2> QED BY <2>1, <2>2, <2>3 DEF sendVars, sendHca, recvHca, history
<1>11. ASSUME NEW t \in Receivers, RecvPollError(t) PROVE TypeOK'
  <2>1. rcq' \in Seq(Completion)
    BY <1>11, QueueTypes DEF RecvPollError
  <2>2. /\ rlock' \in Receivers \cup {NoThread}
        /\ rpc' \in [Receivers -> {"idle", "lock", "poll", "polled", "output", "bug"}]
    BY <1>11 DEF RecvPollError
  <2> QED
    BY <1>11, <2>1, <2>2 DEF RecvPollError, sendVars, sendHca, history
<1>12. ASSUME NEW t \in Receivers, RecvPoll(t) PROVE TypeOK'
  <2>1. rcq' \in Seq(Completion) /\ Head(rcq) \in Completion
    BY <1>12, QueueTypes DEF RecvPoll
  <2>2. Head(rcq).slot \in RecvSlots
    BY <2>1 DEF Completion
  <2>3. ASSUME NEW failed, krdma_post_recv(failed)
        PROVE  recvState' \in [RecvSlots -> SlotState] /\ rq' \in [RecvSlots -> Nat]
    BY <2>3 DEF krdma_post_recv, SlotState
  <2>4. recvState' \in [RecvSlots -> SlotState] /\ rq' \in [RecvSlots -> Nat]
    BY <1>12, <2>3 DEF RecvPoll
  <2>5. received' \in Seq([msg : Nat, ok : BOOLEAN])
    <3>1. [msg |-> recvBuf[Head(rcq).slot], ok |-> FALSE] \in [msg : Nat, ok : BOOLEAN]
      BY <2>2
    <3> QED BY <1>12, <3>1, QueueFacts, ZenonT(60) DEF RecvPoll
  <2>6. /\ rlock' \in Receivers \cup {NoThread}
        /\ rpc' \in [Receivers -> {"idle", "lock", "poll", "polled", "output", "bug"}]
        /\ rtrans' \in [Receivers -> RecvSlots]
    BY <1>12, <2>2 DEF RecvPoll
  <2> QED
    BY <1>12, <2>1, <2>4, <2>5, <2>6 DEF RecvPoll, sendVars, sendHca
<1>13. ASSUME NEW t \in Receivers, RecvPolled(t) PROVE TypeOK'
  <2>1. recvState' \in [RecvSlots -> SlotState]
    <3>1. \/ recvState' = recvState
          \/ recvState' = [recvState EXCEPT ![rtrans[t]] = "POLLED"]
      BY <1>13 DEF RecvPolled, build_polled_recv_trans
    <3>2. rtrans[t] \in RecvSlots /\ "POLLED" \in SlotState
      BY DEF SlotState
    <3> QED BY <3>1, <3>2
  <2>2. /\ rlock' \in Receivers \cup {NoThread}
        /\ rpc' \in [Receivers -> {"idle", "lock", "poll", "polled", "output", "bug"}]
    BY <1>13 DEF RecvPolled
  <2> QED
    BY <1>13, <2>1, <2>2 DEF RecvPolled, sendVars, sendHca, recvHca, history
<1>14. ASSUME NEW t \in Receivers, RecvOutput(t) PROVE TypeOK'
  <2>1. [msg |-> recvBuf[rtrans[t]], ok |-> TRUE] \in [msg : Nat, ok : BOOLEAN]
    OBVIOUS
  <2>2. received' \in Seq([msg : Nat, ok : BOOLEAN])
    BY <1>14, <2>1, QueueTypes DEF RecvOutput, build_krdma_recv_output
  <2>3. 0 \in RecvSlots /\ 0 \in 0 .. MaxRetry
    BY DepthAssumption, BoundAssumption DEF RecvSlots
  <2>4. /\ recvState' \in [RecvSlots -> SlotState]
        /\ rtrans' \in [Receivers -> RecvSlots] /\ retry' \in [Receivers -> 0 .. MaxRetry]
    BY <1>14, <2>3 DEF RecvOutput, build_krdma_recv_output, SlotState
  <2>5. /\ rlock' \in Receivers \cup {NoThread}
        /\ rpc' \in [Receivers -> {"idle", "lock", "poll", "polled", "output", "bug"}]
    BY <1>14 DEF RecvOutput
  <2> QED
    BY <1>14, <2>2, <2>4, <2>5 DEF RecvOutput, sendVars, sendHca, recvHca
<1>15. CASE Transmit
  <2>1. PICK s \in RecvSlots :
          /\ rq[s] > 0
          /\ rq' = [rq EXCEPT ![s] = @ - 1]
          /\ recvBuf' = [recvBuf EXCEPT ![s] = sendBuf[Head(sq)]]
          /\ rcq' = Append(rcq, [slot |-> s, status |-> "SUCCESS"])
    BY <1>15 DEF Transmit
  <2>2. sendBuf[Head(sq)] \in Nat
    BY <1>15, QueueFacts DEF Transmit
  <2>3. rq' \in [RecvSlots -> Nat] /\ recvBuf' \in [RecvSlots -> Nat]
    BY <2>1, <2>2, SMTT(30)
  <2>4. [slot |-> s, status |-> "SUCCESS"] \in Completion
    BY DEF Completion
  <2>5. rcq' \in Seq(Completion)
    BY <2>1, <2>4, QueueFacts
  <2>6. sq' \in Seq(SendSlots) /\ unacked' \in Seq(Nat)
    BY <1>15, <2>2, QueueFacts DEF Transmit
  <2>7. narrived' = narrived + 1
    BY <1>15 DEF Transmit
  <2>8. UNCHANGED <<cbState, link, sendVars, scq, rlock, recvState, rpc, rtrans, retry,
                    nsent, received, acked, sendFailed>>
    BY <1>15 DEF Transmit
  <2>9. narrived' \in Nat
    BY <2>7
  <2> QED
    BY <2>3, <2>5, <2>6, <2>8, <2>9, Zenon DEF sendVars
<1>16. CASE SendComplete
  <2>1. unacked' \in Seq(Nat) /\ Head(unacked) \in Nat
    BY <1>16, QueueTypes DEF SendComplete
  <2>2. scq' \in Seq([status : {"SUCCESS"} \cup ErrStatus, msg : Nat])
    BY <1>16, <2>1, QueueTypes DEF SendComplete
  <2> QED
    BY <1>16, <2>1, <2>2 DEF SendComplete, sendVars, recvVars, recvHca, history
<1>17. CASE FlushSend
  <2>1. PICK status \in ErrStatus :
          \/ /\ unacked # <<>>
             /\ unacked' = Tail(unacked)
             /\ scq' = Append(scq, [status |-> status, msg |-> Head(unacked)])
             /\ UNCHANGED sq
          \/ /\ unacked = <<>> /\ sq # <<>>
             /\ sq' = Tail(sq)
             /\ scq' = Append(scq, [status |-> status, msg |-> sendBuf[Head(sq)]])
             /\ UNCHANGED unacked
    BY <1>17 DEF FlushSend
  <2>2. sq' \in Seq(SendSlots) /\ unacked' \in Seq(Nat)
    BY <2>1, QueueFacts
  <2>3. (unacked # <<>> => Head(unacked) \in Nat) /\ (sq # <<>> => sendBuf[Head(sq)] \in Nat)
    BY QueueFacts
  <2>4. \A m \in Nat :
          [status |-> status, msg |-> m] \in [status : {"SUCCESS"} \cup ErrStatus, msg : Nat]
    OBVIOUS
  <2>5. scq' \in Seq([status : {"SUCCESS"} \cup ErrStatus, msg : Nat])
    <3>1. PICK m \in Nat : scq' = Append(scq, [status |-> status, msg |-> m])
      BY <2>1, <2>3
    <3> QED BY <2>4, <3>1, QueueFacts
  <2> QED
    BY <1>17, <2>2, <2>5 DEF FlushSend, sendVars, recvVars, recvHca, history
<1>18. CASE FlushRecv
  BY <1>18, SMTT(30) DEF FlushRecv, sendVars, sendHca, recvVars, history, Completion
<1>19. CASE LinkDown
  BY <1>19 DEF LinkDown, sendVars, sendHca, recvVars, recvHca, history
<1>20. ASSUME NEW e \in Ends, Disconnected(e) PROVE TypeOK'
  BY <1>20 DEF Disconnected, sendVars, sendHca, recvVars, recvHca, history
<1>21. CASE UNCHANGED vars
  BY <1>21 DEF vars, sendVars, sendHca, recvVars, recvHca, history
<1> QED
  BY <1>1, <1>2, <1>3, <1>4, <1>5, <1>6, <1>7, <1>8, <1>9, <1>10, <1>11, <1>12, <1>13,
     <1>14, <1>15, <1>16, <1>17, <1>18, <1>19, <1>20, <1>21
     DEF Next, SendStep, RecvStep, Fabric

\* The variables of every reachable state have their types (krdma.c:875-1302).
THEOREM TypeCorrect == Spec => []TypeOK
BY TypeInit, TypeStep, PTL DEF Spec
-----------------------------------------------------------------------------
(* The inductive invariant.  The mutexes are held by the threads past      *)
(* them; a slot has one owner; while the link is up at most one message is *)
(* between the sender and the receiving end; and the completions of the    *)
(* receive queue continue the sequence of the messages already taken.      *)

LockInv ==
  /\ \A t \in Receivers : rpc[t] \in {"poll", "polled", "output"} => rlock = t
  /\ \A t \in Senders : spc[t] \in {"check", "poll"} => slock = t

SlotInv ==
  /\ RecvSlotOwned
  /\ \A t \in Receivers : rpc[t] = "polled" => recvState[rtrans[t]] = "POSTED"
  /\ \A s \in RecvSlots : recvState[s] = "POLLED" =>
       \E t \in Receivers : rpc[t] = "output" /\ rtrans[t] = s

\* Until its end knows that the connection is gone, a sender has at most its own
\* message on the way, and only a message that has arrived is acknowledged.
SendInv ==
  /\ cbState["sender"] = "CONNECTED" \/ (\E t \in Senders : spc[t] = "poll") =>
       /\ Len(sq) + Len(unacked) + Len(scq) <= 1
       /\ slock = NoThread => Len(sq) + Len(unacked) + Len(scq) = 0
       /\ \A t \in Senders : spc[t] \in {"check", "poll"} =>
            /\ \A i \in DOMAIN sq : sendBuf[sq[i]] = smsg[t]
            /\ \A i \in DOMAIN unacked : unacked[i] = smsg[t]
            /\ \A i \in DOMAIN scq : scq[i].msg = smsg[t]
  /\ \A i \in DOMAIN unacked : unacked[i] <= narrived
  /\ \A i \in DOMAIN scq : scq[i].status = "SUCCESS" => scq[i].msg <= narrived
  /\ \A t \in Senders : spc[t] \in {"check", "poll"} => smsg[t] # 0
  /\ 0 \notin acked /\ AckedArrived

LinkInv ==
  link =>
    /\ \A e \in Ends : cbState[e] = "CONNECTED"
    /\ \A i \in DOMAIN scq : scq[i].status = "SUCCESS"
    /\ nsent = narrived + Len(sq)
    /\ \A i \in DOMAIN sq : sendBuf[sq[i]] = narrived + 1

\* The messages that have left the completion queue.
Taken == Len(received) + (IF \E t \in Receivers : Holding(t) THEN 1 ELSE 0)

OrderInv ==
  /\ InOrder
  /\ \A t \in Receivers : Holding(t) => recvBuf[rtrans[t]] = Len(received) + 1
  /\ Taken <= narrived
  /\ \A i \in DOMAIN rcq : rcq[i].status = "SUCCESS" =>
       /\ recvBuf[rcq[i].slot] = Taken + i
       /\ Taken + i <= narrived
       /\ \A j \in 1 .. i : rcq[j].status = "SUCCESS"
  /\ link => /\ narrived = Taken + Len(rcq)
             /\ \A i \in DOMAIN rcq : rcq[i].status = "SUCCESS"

\* Until a send has failed, a slot is POSTED exactly while its sender waits.
BugInv ==
  ~sendFailed =>
    /\ slock = NoThread => \A s \in SendSlots : sendState[s] = "INVALID"
    /\ \A t \in Senders : spc[t] \in {"check", "poll"} =>
         \E s \in SendSlots : \A u \in SendSlots : sendState[u] = "POSTED" <=> u = s
    /\ \A t \in Senders : spc[t] # "bug"

\* While the link is up and no refill has failed, a slot that neither the adapter nor
\* the completion queue has is INVALID or held by a receiver, and there is at most one.
CreditInv ==
  /\ RecvCredit
  /\ link /\ (\A i \in DOMAIN received : received[i].ok) =>
       \A s \in RecvSlots :
         \/ rq[s] = 1
         \/ \E i \in DOMAIN rcq : rcq[i].slot = s
         \/ \E t \in Receivers : Holding(t) /\ rtrans[t] = s
         \/ recvState[s] = "INVALID"

IInv == /\ TypeOK /\ LockInv /\ SlotInv /\ SendInv /\ LinkInv /\ OrderInv
        /\ BugInv /\ CreditInv
-----------------------------------------------------------------------------
(* The mutexes and the slots.                                              *)

\* What the actions of the senders, of the sending adapter and of the connection leave
\* alone.
LEMMA SendFrame ==
  ASSUME \/ \E t \in Senders : SendCall(t) \/ SendStep(t)
         \/ SendComplete \/ FlushSend \/ LinkDown
         \/ \E e \in Ends : Disconnected(e)
         \/ UNCHANGED vars
  PROVE  /\ UNCHANGED <<rlock, recvState, recvBuf, rpc, rtrans, retry, rq, rcq>>
         /\ UNCHANGED <<narrived, received>>
BY DEF SendCall, SendStep, SendPost, SendPostFails, SendOverflow, SendCheck,
       SendPollEmpty, SendPoll, SendComplete, FlushSend, LinkDown, Disconnected,
       vars, recvVars, recvHca, history

\* What the actions of the receivers, of the adapters and of the connection leave alone.
LEMMA RecvFrame ==
  ASSUME \/ \E t \in Receivers : RecvCall(t) \/ RecvStep(t)
         \/ Fabric \/ LinkDown
         \/ \E e \in Ends : Disconnected(e)
         \/ UNCHANGED vars
  PROVE  UNCHANGED <<slock, sendState, sendBuf, lastSchedule, spc, smsg>>
BY DEF RecvCall, RecvStep, RecvCheck, RecvPollEmpty, RecvPollError, RecvPoll,
       RecvPolled, RecvOutput, Fabric, Transmit, SendComplete, FlushSend, FlushRecv,
       LinkDown, Disconnected, vars, sendVars

\* What the receivers leave alone of the other end and of its adapter.
LEMMA RecvSideFrame ==
  ASSUME \E t \in Receivers : RecvCall(t) \/ RecvStep(t)
  PROVE  UNCHANGED <<cbState, link, sq, unacked, scq, nsent, narrived, acked, sendFailed>>
BY DEF RecvCall, RecvStep, RecvCheck, RecvPollEmpty, RecvPollError, RecvPoll,
       RecvPolled, RecvOutput, sendHca, history

\* What the senders leave alone of the connection and of the adapter.
LEMMA SendSideFrame ==
  ASSUME \E t \in Senders : SendCall(t) \/ SendStep(t)
  PROVE  UNCHANGED <<cbState, link, unacked>>
BY DEF SendCall, SendStep, SendPost, SendPostFails, SendOverflow, SendCheck,
       SendPollEmpty, SendPoll, sendHca

\* A thread past a mutex holds it.
LEMMA LockStep == TypeOK /\ LockInv /\ [Next]_vars => LockInv'
<1> SUFFICES ASSUME TypeOK, LockInv, [Next]_vars PROVE LockInv'
  OBVIOUS
<1> USE ThreadAssumption DEF LockInv
<1>t. /\ spc \in [Senders -> {"idle", "lock", "check", "poll", "bug"}]
      /\ rpc \in [Receivers -> {"idle", "lock", "poll", "polled", "output", "bug"}]
  BY DEF TypeOK
<1>1. ASSUME NEW t \in Senders, SendCall(t) \/ SendStep(t) PROVE LockInv'
  <2>1. UNCHANGED <<rlock, rpc>>
    BY <1>1, SendFrame
  <2>2. ASSUME NEW u \in Senders, spc'[u] \in {"check", "poll"} PROVE slock' = u
    <3>1. CASE SendCall(t)
      BY <1>t, <2>2, <3>1 DEF SendCall
    <3>2. CASE SendPost(t)
      BY <1>t, <2>2, <3>2 DEF SendPost
    <3>3. CASE SendPostFails(t)
      BY <1>t, <2>2, <3>3 DEF SendPostFails
    <3>4. CASE SendOverflow(t)
      BY <1>t, <2>2, <3>4 DEF SendOverflow
    <3>5. CASE SendCheck(t)
      BY <1>t, <2>2, <3>5 DEF SendCheck, SendError
    <3>6. CASE SendPollEmpty(t)
      BY <1>t, <2>2, <3>6 DEF SendPollEmpty
    <3>7. CASE SendPoll(t)
      <4>1. \/ UNCHANGED <<slock, spc>>
            \/ \E to \in {"idle", "bug"} : spc' = [spc EXCEPT ![t] = to]
        <5>1. Head(scq).status \in {"SUCCESS", "ERR", "FLUSH"}
          <6>1. Head(scq) \in [status : {"SUCCESS"} \cup ErrStatus, msg : Nat]
            BY <3>7, QueueTypes DEF TypeOK, SendPoll
          <6> QED BY <6>1 DEF ErrStatus
        <5> QED BY <3>7, <5>1 DEF SendPoll, SendError
      <4>2. spc[t] = "poll"
        BY <3>7 DEF SendPoll
      <4> QED BY <1>t, <2>2, <4>1, <4>2
    <3> QED BY <1>1, <3>1, <3>2, <3>3, <3>4, <3>5, <3>6, <3>7 DEF SendStep
  <2> QED BY <2>1, <2>2
<1>2. ASSUME NEW t \in Receivers, RecvCall(t) \/ RecvStep(t) PROVE LockInv'
  <2>1. UNCHANGED <<slock, spc>>
    BY <1>2, RecvFrame
  <2>2. ASSUME NEW u \in Receivers, rpc'[u] \in {"poll", "polled", "output"}
        PROVE  rlock' = u
    <3>1. CASE RecvCall(t)
      BY <1>t, <2>2, <3>1 DEF RecvCall
    <3>2. CASE RecvCheck(t)
      BY <1>t, <2>2, <3>2 DEF RecvCheck
    <3>3. CASE RecvPollEmpty(t)
      <4>1. rpc[t] = "poll" /\ \E to \in {"lock", "idle"} : rpc' = [rpc EXCEPT ![t] = to]
        BY <3>3 DEF RecvPollEmpty
      <4> QED BY <1>t, <2>2, <4>1
    <3>4. CASE RecvPollError(t)
      BY <1>t, <2>2, <3>4 DEF RecvPollError
    <3>5. CASE RecvPoll(t)
      BY <1>t, <2>2, <3>5 DEF RecvPoll
    <3>6. CASE RecvPolled(t)
      BY <1>t, <2>2, <3>6 DEF RecvPolled
    <3>7. CASE RecvOutput(t)
      BY <1>t, <2>2, <3>7 DEF RecvOutput
    <3> QED BY <1>2, <3>1, <3>2, <3>3, <3>4, <3>5, <3>6, <3>7 DEF RecvStep
  <2> QED BY <2>1, <2>2
<1>3. CASE Fabric \/ LinkDown \/ (\E e \in Ends : Disconnected(e)) \/ UNCHANGED vars
  <2>1. UNCHANGED <<slock, spc>>
    BY <1>3, RecvFrame
  <2>2. UNCHANGED <<rlock, rpc>>
    BY <1>3, SendFrame DEF Fabric, Transmit, FlushRecv, recvVars
  <2> QED BY <2>1, <2>2
<1> QED
  BY <1>1, <1>2, <1>3 DEF Next

\* While a thread is past rlock no other one is.
LEMMA Alone ==
  ASSUME LockInv, NEW t \in Receivers, rpc[t] \in {"poll", "polled", "output"},
         NEW u \in Receivers, rpc[u] \in {"poll", "polled", "output"}
  PROVE  u = t
BY DEF LockInv

\* The slots after krdma_post_recv.
LEMMA PostRecv ==
  ASSUME TypeOK, RecvSlotOwned, NEW failed, krdma_post_recv(failed)
  PROVE  \A s \in RecvSlots :
           /\ recvState[s] # "INVALID" => recvState'[s] = recvState[s] /\ rq'[s] = rq[s]
           /\ rq'[s] > 0 => rq'[s] = 1 /\ recvState'[s] = "POSTED"
           /\ recvState'[s] = "POLLED" => recvState[s] = "POLLED"
<1> TAKE s \in RecvSlots
<1>1. recvState[s] \in SlotState /\ rq[s] \in Nat
  BY DEF TypeOK
<1>2. rq[s] > 0 => rq[s] = 1 /\ recvState[s] = "POSTED"
  BY DEF RecvSlotOwned
<1>3. CASE recvState[s] = "INVALID"
  <2>1. rq[s] = 0
    BY <1>1, <1>2, <1>3
  <2>2. \/ recvState'[s] = "POSTED" /\ rq'[s] \in {0, 1}
        \/ recvState'[s] = "INVALID" /\ rq'[s] = 0
    BY <1>3, <2>1 DEF krdma_post_recv, search_empty_recv_buf
  <2> QED BY <1>3, <2>2
<1>4. CASE recvState[s] # "INVALID"
  <2>1. recvState'[s] = recvState[s] /\ rq'[s] = rq[s]
    BY <1>4 DEF krdma_post_recv, search_empty_recv_buf
  <2> QED BY <1>2, <1>4, <2>1
<1> QED BY <1>3, <1>4

\* The adapter takes a posted slot and puts it into the completion queue.
LEMMA SlotUsed ==
  ASSUME TypeOK, SlotInv, NEW s \in RecvSlots, rq[s] > 0,
         NEW status \in {"SUCCESS"} \cup ErrStatus,
         rq' = [rq EXCEPT ![s] = @ - 1],
         rcq' = Append(rcq, [slot |-> s, status |-> status]),
         UNCHANGED <<recvState, rpc, rtrans>>
  PROVE  SlotInv'
<1> USE DEF SlotInv
<1>1. rq[s] = 1 /\ recvState[s] = "POSTED"
  BY DEF RecvSlotOwned
<1>2. rq \in [RecvSlots -> Nat] /\ rcq \in Seq(Completion) /\ rtrans \in [Receivers -> RecvSlots]
  BY DEF TypeOK
<1>3. rq'[s] = 0 /\ \A u \in RecvSlots : u # s => rq'[u] = rq[u]
  BY <1>1, <1>2
<1>4. [slot |-> s, status |-> status] \in Completion
  BY DEF Completion
<1> DEFINE new == Len(rcq) + 1
<1>5. /\ DOMAIN rcq' = DOMAIN rcq \cup {new} /\ new \notin DOMAIN rcq
      /\ \A i \in DOMAIN rcq : rcq'[i] = rcq[i]
      /\ rcq'[new].slot = s
  BY <1>2, <1>4, AppendFacts
<1> HIDE DEF new
<1>6. \A i \in DOMAIN rcq : rcq[i].slot \in RecvSlots /\ rcq[i].slot # s
  <2>1. \A i \in DOMAIN rcq : rcq[i] \in Completion
    BY <1>2, QueueTypes
  <2> QED BY <1>1, <2>1 DEF RecvSlotOwned, Completion
<1>7. RecvSlotOwned'
  <2>1. \A u \in RecvSlots : rq'[u] > 0 => rq'[u] = 1 /\ recvState[u] = "POSTED"
    BY <1>3 DEF RecvSlotOwned
  <2>2. \A i \in DOMAIN rcq' : rq'[rcq'[i].slot] = 0 /\ recvState[rcq'[i].slot] = "POSTED"
    BY <1>1, <1>3, <1>5, <1>6 DEF RecvSlotOwned
  <2>3. \A i, j \in DOMAIN rcq' : rcq'[i].slot = rcq'[j].slot => i = j
    BY <1>5, <1>6 DEF RecvSlotOwned
  <2>4. ASSUME NEW t \in Receivers, Holding(t)
        PROVE  rq'[rtrans[t]] = 0 /\ \A i \in DOMAIN rcq' : rcq'[i].slot # rtrans[t]
    <3>1. rtrans[t] \in RecvSlots /\ rtrans[t] # s
      BY <1>1, <1>2, <2>4 DEF RecvSlotOwned
    <3> QED BY <1>3, <1>5, <2>4, <3>1 DEF RecvSlotOwned
  <2> QED BY <2>1, <2>2, <2>3, <2>4 DEF RecvSlotOwned, Holding
<1> QED BY <1>7

\* A slot has one owner, and keeps it until it is handed on.
LEMMA SlotStep == TypeOK /\ LockInv /\ SlotInv /\ [Next]_vars => SlotInv'
<1> SUFFICES ASSUME TypeOK, LockInv, SlotInv, [Next]_vars PROVE SlotInv'
  OBVIOUS
<1> USE DEF SlotInv
<1>t. /\ rpc \in [Receivers -> {"idle", "lock", "poll", "polled", "output", "bug"}]
      /\ rtrans \in [Receivers -> RecvSlots] /\ recvState \in [RecvSlots -> SlotState]
      /\ rcq \in Seq(Completion)
  BY DEF TypeOK
<1>c. \A i \in DOMAIN rcq : rcq[i].slot \in RecvSlots
  <2>1. \A i \in DOMAIN rcq : rcq[i] \in Completion
    BY <1>t, QueueTypes
  <2> QED BY <2>1 DEF Completion
<1>1. ASSUME \/ \E t \in Senders : SendCall(t) \/ SendStep(t)
             \/ SendComplete \/ FlushSend \/ LinkDown
             \/ \E e \in Ends : Disconnected(e)
             \/ UNCHANGED vars
      PROVE  SlotInv'
  BY <1>1, SendFrame DEF RecvSlotOwned, Holding
<1>2. ASSUME NEW t \in Receivers, RecvCall(t) PROVE SlotInv'
  BY <1>t, <1>2 DEF RecvCall, recvHca, RecvSlotOwned, Holding
<1>3. ASSUME NEW t \in Receivers, RecvCheck(t) PROVE SlotInv'
  <2>1. ~\E s \in RecvSlots : recvState[s] = "POLLED"
    BY <1>3, ThreadAssumption DEF RecvCheck, LockInv
  <2>2. \E to \in {"idle", "poll"} : rpc' = [rpc EXCEPT ![t] = to]
    BY <1>3, <2>1 DEF RecvCheck
  <2>3. UNCHANGED <<recvState, rtrans, rq, rcq>>
    BY <1>3, <2>1 DEF RecvCheck, recvHca
  <2> QED BY <1>t, <2>1, <2>2, <2>3 DEF RecvSlotOwned, Holding
<1>4. ASSUME NEW t \in Receivers, RecvPollEmpty(t) PROVE SlotInv'
  <2>1. rpc[t] = "poll" /\ \E to \in {"lock", "idle"} : rpc' = [rpc EXCEPT ![t] = to]
    BY <1>4 DEF RecvPollEmpty
  <2>2. UNCHANGED <<recvState, rtrans, rq, rcq>>
    BY <1>4 DEF RecvPollEmpty, recvHca
  <2> QED BY <1>t, <2>1, <2>2 DEF RecvSlotOwned, Holding
<1>5. ASSUME NEW t \in Receivers, RecvPollError(t) PROVE SlotInv'
  <2>1. rpc[t] = "poll" /\ \E to \in {"poll", "idle"} : rpc' = [rpc EXCEPT ![t] = to]
    BY <1>t, <1>5 DEF RecvPollError
  <2>2. rcq # <<>> /\ rcq' = Tail(rcq) /\ UNCHANGED <<recvState, rtrans, rq>>
    BY <1>5 DEF RecvPollError
  <2>3. \A i \in DOMAIN rcq' : i \in Nat \ {0} /\ i + 1 \in DOMAIN rcq /\ rcq'[i] = rcq[i + 1]
    BY <1>t, <2>2, TailFacts
  <2>4. RecvSlotOwned'
    <3>1. \A i \in DOMAIN rcq' : rq[rcq'[i].slot] = 0 /\ recvState[rcq'[i].slot] = "POSTED"
      BY <2>3 DEF RecvSlotOwned
    <3>2. \A i, j \in DOMAIN rcq' : rcq'[i].slot = rcq'[j].slot => i = j
      BY <2>3 DEF RecvSlotOwned
    <3>3. \A u \in Receivers : Holding(u)' =>
            rq[rtrans[u]] = 0 /\ \A i \in DOMAIN rcq' : rcq'[i].slot # rtrans[u]
      BY <1>t, <2>1, <2>3 DEF RecvSlotOwned, Holding
    <3> QED BY <2>2, <3>1, <3>2, <3>3 DEF RecvSlotOwned
  <2> QED BY <1>t, <2>1, <2>2, <2>4
<1>6. ASSUME NEW t \in Receivers, RecvPoll(t) PROVE SlotInv'
  <2>1. rpc[t] = "poll" /\ rcq # <<>> /\ rcq' = Tail(rcq)
    BY <1>6 DEF RecvPoll
  <2> DEFINE h == rcq[1].slot
  <2>2. /\ 1 \in DOMAIN rcq /\ Head(rcq) = rcq[1]
        /\ \A i \in DOMAIN rcq' : i \in Nat \ {0} /\ i + 1 \in DOMAIN rcq /\ rcq'[i] = rcq[i + 1]
    BY <1>t, <2>1, TailFacts
  <2>3. h \in RecvSlots /\ rq[h] = 0 /\ recvState[h] = "POSTED"
    BY <1>c, <2>2 DEF RecvSlotOwned
  <2>4. \A i \in DOMAIN rcq' : rcq'[i].slot # h
    BY <2>2 DEF RecvSlotOwned
  <2>5. \E failed : krdma_post_recv(failed)
    BY <1>6 DEF RecvPoll
  <2>6. \A s \in RecvSlots :
          /\ recvState[s] # "INVALID" => recvState'[s] = recvState[s] /\ rq'[s] = rq[s]
          /\ rq'[s] > 0 => rq'[s] = 1 /\ recvState'[s] = "POSTED"
          /\ recvState'[s] = "POLLED" => recvState[s] = "POLLED"
    BY <2>5, PostRecv
  <2>7. \/ rpc' = [rpc EXCEPT ![t] = "polled"] /\ rtrans' = [rtrans EXCEPT ![t] = h]
        \/ rpc' = [rpc EXCEPT ![t] = "idle"] /\ rtrans' = rtrans
    BY <1>6, <2>2 DEF RecvPoll
  <2>8. \A u \in Receivers : rpc'[u] \in {"polled", "output"} => u = t /\ rtrans'[u] = h
    BY <1>t, <2>1, <2>7, Alone
  <2>9. \A s \in RecvSlots : recvState[s] # "POLLED"
    BY <2>1, Alone
  <2> HIDE DEF h
  <2>10. RecvSlotOwned'
    <3>1. \A i \in DOMAIN rcq' : rq'[rcq'[i].slot] = 0 /\ recvState'[rcq'[i].slot] = "POSTED"
      BY <1>c, <2>2, <2>6 DEF RecvSlotOwned
    <3>2. \A i, j \in DOMAIN rcq' : rcq'[i].slot = rcq'[j].slot => i = j
      BY <2>2 DEF RecvSlotOwned
    <3>3. \A u \in Receivers : Holding(u)' =>
            rq'[rtrans'[u]] = 0 /\ \A i \in DOMAIN rcq' : rcq'[i].slot # rtrans'[u]
      BY <2>3, <2>4, <2>6, <2>8 DEF Holding
    <3> QED BY <2>6, <3>1, <3>2, <3>3 DEF RecvSlotOwned
  <2>11. \A u \in Receivers : rpc'[u] = "polled" => recvState'[rtrans'[u]] = "POSTED"
    BY <2>3, <2>6, <2>8
  <2>12. \A s \in RecvSlots : recvState'[s] # "POLLED"
    BY <2>6, <2>9
  <2> QED BY <2>10, <2>11, <2>12
<1>7. ASSUME NEW t \in Receivers, RecvPolled(t) PROVE SlotInv'
  <2> DEFINE r == rtrans[t]
  <2>1. /\ rpc[t] = "polled" /\ rpc' = [rpc EXCEPT ![t] = "output"]
        /\ recvState' = [recvState EXCEPT ![r] = "POLLED"]
        /\ UNCHANGED <<rtrans, rq, rcq>>
    BY <1>7 DEF RecvPolled, build_polled_recv_trans, recvHca
  <2>2. r \in RecvSlots /\ rq[r] = 0 /\ \A i \in DOMAIN rcq : rcq[i].slot # r
    BY <1>t, <2>1 DEF RecvSlotOwned, Holding
  <2>3. \A s \in RecvSlots : s # r => recvState'[s] = recvState[s]
    BY <1>t, <2>1
  <2>4. \A u \in Receivers : rpc'[u] \in {"polled", "output"} => u = t
    BY <1>t, <2>1, Alone
  <2>5. rpc'[t] = "output" /\ rtrans'[t] = r
    BY <1>t, <2>1
  <2> HIDE DEF r
  <2>6. RecvSlotOwned'
    BY <1>c, <2>1, <2>2, <2>3, <2>4, <2>5 DEF RecvSlotOwned, Holding
  <2>7. \A s \in RecvSlots : recvState'[s] = "POLLED" => s = r
    <3>1. \A s \in RecvSlots : recvState[s] # "POLLED"
      BY <2>1, Alone
    <3> QED BY <2>3, <3>1
  <2> QED BY <2>4, <2>5, <2>6, <2>7
<1>8. ASSUME NEW t \in Receivers, RecvOutput(t) PROVE SlotInv'
  <2> DEFINE r == rtrans[t]
  <2>1. /\ rpc[t] = "output" /\ rpc' = [rpc EXCEPT ![t] = "idle"]
        /\ recvState' = [recvState EXCEPT ![r] = "INVALID"]
        /\ UNCHANGED <<rq, rcq>>
    BY <1>8 DEF RecvOutput, build_krdma_recv_output, recvHca
  <2>2. r \in RecvSlots /\ rq[r] = 0 /\ \A i \in DOMAIN rcq : rcq[i].slot # r
    BY <1>t, <2>1 DEF RecvSlotOwned, Holding
  <2>3. recvState'[r] = "INVALID" /\ \A s \in RecvSlots : s # r => recvState'[s] = recvState[s]
    BY <1>t, <2>1, <2>2
  <2>4. \A u \in Receivers : rpc'[u] \notin {"polled", "output"}
    BY <1>t, <2>1, Alone
  <2>5. \A s \in RecvSlots : recvState[s] = "POLLED" => s = r
    BY <2>1, Alone
  <2> HIDE DEF r
  <2>6. RecvSlotOwned'
    BY <1>c, <2>1, <2>2, <2>3, <2>4 DEF RecvSlotOwned, Holding
  <2> QED BY <2>3, <2>4, <2>5, <2>6
<1>9. CASE Transmit
  <2>1. PICK s \in RecvSlots :
          /\ rq[s] > 0
          /\ rq' = [rq EXCEPT ![s] = @ - 1]
          /\ rcq' = Append(rcq, [slot |-> s, status |-> "SUCCESS"])
    BY <1>9 DEF Transmit
  <2>2. UNCHANGED <<recvState, rpc, rtrans>>
    BY <1>9 DEF Transmit
  <2> QED BY <2>1, <2>2, SlotUsed
<1>10. CASE FlushRecv
  <2>1. PICK s \in RecvSlots, status \in ErrStatus :
          /\ rq[s] > 0
          /\ rq' = [rq EXCEPT ![s] = @ - 1]
          /\ rcq' = Append(rcq, [slot |-> s, status |-> status])
    BY <1>10 DEF FlushRecv
  <2>2. UNCHANGED <<recvState, rpc, rtrans>>
    BY <1>10 DEF FlushRecv, recvVars
  <2> QED BY <2>1, <2>2, SlotUsed
<1> QED
  BY <1>1, <1>2, <1>3, <1>4, <1>5, <1>6, <1>7, <1>8, <1>9, <1>10
     DEF Next, RecvStep, Fabric
-----------------------------------------------------------------------------
(* One message at a time on the sending side.                              *)

\* While slock is free nobody waits for a completion, and a waiting thread is alone.
LEMMA AloneSend ==
  ASSUME LockInv, NEW t \in Senders, spc[t] \in {"check", "poll"}
  PROVE  /\ slock # NoThread
         /\ \A u \in Senders : spc[u] \in {"check", "poll"} => u = t
BY ThreadAssumption DEF LockInv

\* The sending side's queues have lengths.
LEMMA SendLengths ==
  ASSUME TypeOK
  PROVE  /\ Len(sq) \in Nat /\ (sq = <<>> <=> Len(sq) = 0) /\ DOMAIN sq = 1 .. Len(sq)
         /\ Len(unacked) \in Nat /\ (unacked = <<>> <=> Len(unacked) = 0)
         /\ DOMAIN unacked = 1 .. Len(unacked)
         /\ Len(scq) \in Nat /\ (scq = <<>> <=> Len(scq) = 0) /\ DOMAIN scq = 1 .. Len(scq)
<1> USE DEF TypeOK
<1>1. Len(sq) \in Nat /\ (sq = <<>> <=> Len(sq) = 0) /\ DOMAIN sq = 1 .. Len(sq)
  BY LenFacts
<1>2. /\ Len(unacked) \in Nat /\ (unacked = <<>> <=> Len(unacked) = 0)
      /\ DOMAIN unacked = 1 .. Len(unacked)
  BY LenFacts
<1>3. Len(scq) \in Nat /\ (scq = <<>> <=> Len(scq) = 0) /\ DOMAIN scq = 1 .. Len(scq)
  BY LenFacts
<1> QED BY <1>1, <1>2, <1>3

\* While the link is up there is at most one message on the way.
LEMMA LinkUp ==
  ASSUME TypeOK, SendInv, LinkInv, link
  PROVE  /\ Len(sq) + Len(unacked) + Len(scq) <= 1
         /\ slock = NoThread => sq = <<>> /\ unacked = <<>> /\ scq = <<>>
<1>1. cbState["sender"] = "CONNECTED"
  BY DEF LinkInv, Ends
<1>2. /\ Len(sq) + Len(unacked) + Len(scq) <= 1
      /\ slock = NoThread => Len(sq) + Len(unacked) + Len(scq) = 0
  BY <1>1 DEF SendInv
<1> QED BY <1>2, SendLengths

\* While the link is up the message on the way is the last one sent.
LEMMA LinkStep == TypeOK /\ LockInv /\ SendInv /\ LinkInv /\ [Next]_vars => LinkInv'
<1> SUFFICES ASSUME TypeOK, LockInv, SendInv, LinkInv, [Next]_vars, link' PROVE LinkInv'
  BY DEF LinkInv
<1>1. ASSUME NEW t \in Senders, SendCall(t) PROVE LinkInv'
  BY <1>1 DEF LinkInv, SendCall, sendHca, history
<1>2. ASSUME NEW t \in Senders, SendPost(t) PROVE LinkInv'
  <2>1. PICK s \in SendSlots :
          sq' = Append(sq, s) /\ sendBuf' = [sendBuf EXCEPT ![s] = nsent + 1]
    BY <1>2 DEF SendPost
  <2>2. /\ link /\ slock = NoThread /\ nsent' = nsent + 1
        /\ UNCHANGED <<cbState, scq, narrived>>
    BY <1>2 DEF SendPost
  <2>3. sq = <<>> /\ Len(sq) = 0
    BY <2>2, LinkUp, SendLengths
  <2>4. Len(sq') = 1 /\ DOMAIN sq' = {1} /\ sq'[1] = s
    <3>1. sq \in Seq(SendSlots) /\ DOMAIN sq = {}
      BY <2>3, SendLengths DEF TypeOK
    <3> QED BY <2>1, <2>3, <3>1, AppendFacts
  <2>5. sendBuf'[s] = nsent + 1
    BY <2>1 DEF TypeOK
  <2>6. nsent = narrived /\ nsent \in Nat
    BY <2>2, <2>3 DEF LinkInv, TypeOK, Message
  <2> QED BY <2>2, <2>4, <2>5, <2>6 DEF LinkInv
<1>3. ASSUME NEW t \in Senders, SendPostFails(t) PROVE LinkInv'
  <2>1. /\ link /\ slock = NoThread
        /\ UNCHANGED <<cbState, sq, scq, nsent, narrived>>
    BY <1>3 DEF SendPostFails, sendHca
  <2>2. DOMAIN sq = {}
    BY <2>1, LinkUp, SendLengths
  <2> QED BY <2>1, <2>2 DEF LinkInv
<1>4. ASSUME NEW t \in Senders, SendOverflow(t) PROVE LinkInv'
  BY <1>4 DEF LinkInv, SendOverflow, sendHca, history
<1>5. ASSUME NEW t \in Senders, SendCheck(t) PROVE LinkInv'
  BY <1>5 DEF LinkInv, SendCheck, sendHca
<1>6. ASSUME NEW t \in Senders, SendPollEmpty(t) PROVE LinkInv'
  BY <1>6 DEF LinkInv, SendPollEmpty, sendHca, history
<1>7. ASSUME NEW t \in Senders, SendPoll(t) PROVE LinkInv'
  <2>1. /\ link /\ scq # <<>> /\ scq' = Tail(scq)
        /\ UNCHANGED <<cbState, sq, sendBuf, nsent, narrived>>
    BY <1>7 DEF SendPoll
  <2>2. \A i \in DOMAIN scq' : i + 1 \in DOMAIN scq /\ scq'[i] = scq[i + 1]
    BY <2>1, TailFacts DEF TypeOK
  <2> QED BY <2>1, <2>2 DEF LinkInv
<1>8. ASSUME NEW t \in Receivers, RecvCall(t) \/ RecvStep(t) PROVE LinkInv'
  BY <1>8, RecvFrame, RecvSideFrame DEF LinkInv
<1>9. CASE Transmit
  <2>1. /\ link /\ sq # <<>> /\ sq' = Tail(sq) /\ narrived' = narrived + 1
        /\ UNCHANGED <<cbState, sendBuf, scq, nsent>>
    BY <1>9 DEF Transmit, sendVars
  <2>2. Len(sq) = 1
    BY <2>1, LinkUp, SendLengths
  <2>3. Len(sq') = 0 /\ DOMAIN sq' = {}
    <3>1. sq \in Seq(SendSlots)
      BY DEF TypeOK
    <3>2. Len(sq') = 0 /\ sq' \in Seq(SendSlots)
      BY <2>1, <2>2, <3>1, TailFacts, QueueTypes
    <3> QED BY <3>2, LenFacts
  <2>4. nsent = narrived + 1 /\ narrived \in Nat
    BY <2>1, <2>2 DEF LinkInv, TypeOK
  <2> QED BY <2>1, <2>3, <2>4 DEF LinkInv
<1>10. CASE SendComplete
  <2>1. /\ link /\ unacked # <<>>
        /\ scq' = Append(scq, [status |-> "SUCCESS", msg |-> Head(unacked)])
        /\ UNCHANGED <<cbState, sendBuf, sq, nsent, narrived>>
    BY <1>10 DEF SendComplete, sendVars, history
  <2>2. [status |-> "SUCCESS", msg |-> Head(unacked)]
          \in [status : {"SUCCESS"} \cup ErrStatus, msg : Nat]
    BY <2>1, QueueFacts
  <2>3. \A i \in DOMAIN scq' : scq'[i].status = "SUCCESS"
    <3>1. scq \in Seq([status : {"SUCCESS"} \cup ErrStatus, msg : Nat])
      BY DEF TypeOK
    <3>2. /\ DOMAIN scq' = DOMAIN scq \cup {Len(scq) + 1}
          /\ \A i \in DOMAIN scq : scq'[i] = scq[i]
          /\ scq'[Len(scq) + 1].status = "SUCCESS"
      BY <2>1, <2>2, <3>1, AppendFacts
    <3> QED BY <2>1, <3>2 DEF LinkInv
  <2> QED BY <2>1, <2>3 DEF LinkInv
<1>11. CASE FlushSend \/ FlushRecv \/ LinkDown \/ (\E e \in Ends : Disconnected(e))
  BY <1>11 DEF FlushSend, FlushRecv, LinkDown, Disconnected
<1>12. CASE UNCHANGED vars
  BY <1>12 DEF LinkInv, vars, sendVars, sendHca, history
<1> QED
  BY <1>1, <1>2, <1>3, <1>4, <1>5, <1>6, <1>7, <1>8, <1>9, <1>10, <1>11, <1>12
     DEF Next, SendStep, Fabric

\* A sender that knows of no disconnection.
Unaware == cbState["sender"] = "CONNECTED" \/ \E t \in Senders : spc[t] = "poll"

\* The part of SendInv that speaks of the message on the way.
OneMessage ==
  /\ Len(sq) + Len(unacked) + Len(scq) <= 1
  /\ slock = NoThread => Len(sq) + Len(unacked) + Len(scq) = 0
  /\ \A t \in Senders : spc[t] \in {"check", "poll"} =>
       /\ \A i \in DOMAIN sq : sendBuf[sq[i]] = smsg[t]
       /\ \A i \in DOMAIN unacked : unacked[i] = smsg[t]
       /\ \A i \in DOMAIN scq : scq[i].msg = smsg[t]

\* The part that speaks of the messages that have arrived.
OnlyArrived ==
  /\ \A i \in DOMAIN unacked : unacked[i] <= narrived
  /\ \A i \in DOMAIN scq : scq[i].status = "SUCCESS" => scq[i].msg <= narrived
  /\ \A t \in Senders : spc[t] \in {"check", "poll"} => smsg[t] # 0
  /\ 0 \notin acked /\ AckedArrived

\* SendInv, split into what each of the cases below needs.
LEMMA SendInvParts == SendInv <=> (Unaware => OneMessage) /\ OnlyArrived
BY DEF SendInv, Unaware, OneMessage, OnlyArrived

\* Every step keeps the one message on the way.
LEMMA SendInvStep == TypeOK /\ LockInv /\ SendInv /\ LinkInv /\ [Next]_vars => SendInv'
<1> SUFFICES ASSUME TypeOK, LockInv, SendInv, LinkInv, [Next]_vars
             PROVE  (Unaware => OneMessage)' /\ OnlyArrived'
  BY SendInvParts, PTL
<1>i. (Unaware => OneMessage) /\ OnlyArrived
  BY SendInvParts
<1> DEFINE Status == [status : {"SUCCESS"} \cup ErrStatus, msg : Nat]
<1>t. /\ spc \in [Senders -> {"idle", "lock", "check", "poll", "bug"}]
      /\ smsg \in [Senders -> Message] /\ sendBuf \in [SendSlots -> Nat]
      /\ cbState \in [Ends -> {"CONNECTED", "DISCONNECTED"}]
      /\ sq \in Seq(SendSlots) /\ unacked \in Seq(Nat) /\ scq \in Seq(Status)
      /\ nsent \in Nat /\ narrived \in Nat /\ acked \in SUBSET Nat
  BY DEF TypeOK, Message
<1> HIDE DEF Status
<1>1. ASSUME NEW t \in Senders, SendCall(t) PROVE (Unaware => OneMessage)' /\ OnlyArrived'
  <2>1. /\ \A u \in Senders : spc'[u] \in {"check", "poll"} => spc'[u] = spc[u]
        /\ UNCHANGED <<cbState, slock, sendBuf, smsg, sq, unacked, scq, narrived, acked>>
    BY <1>t, <1>1 DEF SendCall, sendHca, history
  <2> QED BY <1>i, <2>1 DEF Unaware, OneMessage, OnlyArrived, AckedArrived
<1>2. ASSUME NEW t \in Senders, SendPost(t) PROVE (Unaware => OneMessage)' /\ OnlyArrived'
  <2>1. PICK s \in SendSlots :
          sq' = Append(sq, s) /\ sendBuf' = [sendBuf EXCEPT ![s] = nsent + 1]
    BY <1>2 DEF SendPost
  <2>2. /\ slock = NoThread /\ slock' = t
        /\ spc' = [spc EXCEPT ![t] = "check"]
        /\ smsg' = [smsg EXCEPT ![t] = nsent + 1]
        /\ UNCHANGED <<cbState, unacked, scq, narrived, acked>>
    BY <1>2 DEF SendPost
  <2>3. \A u \in Senders : spc'[u] \in {"check", "poll"} => u = t /\ smsg'[u] = nsent + 1
    BY <1>t, <2>2, AloneSend
  <2>4. \A u \in Senders : spc'[u] # "poll"
    BY <1>t, <2>2, AloneSend
  <2>5. OnlyArrived'
    BY <1>i, <1>t, <2>2, <2>3 DEF OnlyArrived, AckedArrived
  <2>6. ASSUME Unaware' PROVE OneMessage'
    <3>1. Len(sq) + Len(unacked) + Len(scq) = 0
      BY <1>i, <2>2, <2>4, <2>6 DEF Unaware, OneMessage
    <3>2. Len(sq) = 0 /\ Len(unacked) = 0 /\ Len(scq) = 0
      BY <3>1, SendLengths
    <3>3. DOMAIN sq = {} /\ DOMAIN unacked = {} /\ DOMAIN scq = {}
      BY <3>2, SendLengths
    <3>4. Len(sq') = 1 /\ DOMAIN sq' = {1} /\ sq'[1] = s
      BY <1>t, <2>1, <3>2, <3>3, AppendFacts
    <3>5. sendBuf'[s] = nsent + 1
      BY <1>t, <2>1
    <3>6. slock' # NoThread
      BY <2>2, ThreadAssumption
    <3> QED BY <2>2, <2>3, <3>2, <3>3, <3>4, <3>5, <3>6 DEF OneMessage
  <2> QED BY <2>5, <2>6
<1>3. ASSUME NEW t \in Senders, SendPostFails(t)
      PROVE  (Unaware => OneMessage)' /\ OnlyArrived'
  <2>1. /\ slock = NoThread /\ spc' = [spc EXCEPT ![t] = "idle"]
        /\ UNCHANGED <<cbState, slock, smsg, sq, unacked, scq, narrived, acked>>
    BY <1>3 DEF SendPostFails, sendHca
  <2>2. \A u \in Senders : spc'[u] \notin {"check", "poll"}
    BY <1>t, <2>1, AloneSend
  <2>3. OnlyArrived'
    BY <1>i, <2>1, <2>2 DEF OnlyArrived, AckedArrived
  <2>4. Unaware' => OneMessage'
    BY <1>i, <2>1, <2>2 DEF Unaware, OneMessage
  <2> QED BY <2>3, <2>4
<1>4. ASSUME NEW t \in Senders, SendOverflow(t)
      PROVE  (Unaware => OneMessage)' /\ OnlyArrived'
  <2>1. /\ slock = NoThread /\ slock' = t /\ spc' = [spc EXCEPT ![t] = "bug"]
        /\ UNCHANGED <<cbState, sendBuf, smsg, sq, unacked, scq, narrived, acked>>
    BY <1>4 DEF SendOverflow, sendHca, history
  <2>2. \A u \in Senders : spc'[u] \notin {"check", "poll"}
    BY <1>t, <2>1, AloneSend
  <2>3. OnlyArrived'
    BY <1>i, <2>1, <2>2 DEF OnlyArrived, AckedArrived
  <2>4. Unaware' => OneMessage'
    BY <1>i, <2>1, <2>2, ThreadAssumption DEF Unaware, OneMessage
  <2> QED BY <2>3, <2>4
<1>5. ASSUME NEW t \in Senders, SendCheck(t) PROVE (Unaware => OneMessage)' /\ OnlyArrived'
  <2>1. /\ spc[t] = "check"
        /\ UNCHANGED <<cbState, sendBuf, smsg, sq, unacked, scq, narrived, acked>>
    BY <1>5 DEF SendCheck, SendError, sendHca
  <2>2. CASE cbState["sender"] = "DISCONNECTED"
    <3>1. spc' = [spc EXCEPT ![t] = "idle"]
      BY <1>5, <2>2 DEF SendCheck, SendError
    <3>2. \A u \in Senders : spc'[u] \notin {"check", "poll"}
      BY <1>t, <2>1, <3>1, AloneSend
    <3>3. ~Unaware'
      BY <2>1, <2>2, <3>2 DEF Unaware
    <3> QED BY <1>i, <2>1, <3>2, <3>3 DEF OnlyArrived, AckedArrived
  <2>3. CASE cbState["sender"] # "DISCONNECTED"
    <3>1. spc' = [spc EXCEPT ![t] = "poll"] /\ UNCHANGED slock
      BY <1>5, <2>3 DEF SendCheck
    <3>2. cbState["sender"] = "CONNECTED"
      BY <1>t, <2>3 DEF Ends
    <3>3. \A u \in Senders : spc'[u] \in {"check", "poll"} => spc[u] \in {"check", "poll"}
      BY <1>t, <2>1, <3>1
    <3> QED BY <1>i, <2>1, <3>1, <3>2, <3>3 DEF Unaware, OneMessage, OnlyArrived, AckedArrived
  <2> QED BY <2>2, <2>3
<1>6. ASSUME NEW t \in Senders, SendPollEmpty(t)
      PROVE  (Unaware => OneMessage)' /\ OnlyArrived'
  <2>1. /\ spc[t] = "poll" /\ spc' = [spc EXCEPT ![t] = "check"]
        /\ UNCHANGED <<cbState, slock, sendBuf, smsg, sq, unacked, scq, narrived, acked>>
    BY <1>6 DEF SendPollEmpty, sendHca, history
  <2>2. \A u \in Senders : spc'[u] \in {"check", "poll"} => spc[u] \in {"check", "poll"}
    BY <1>t, <2>1
  <2> QED BY <1>i, <2>1, <2>2 DEF Unaware, OneMessage, OnlyArrived, AckedArrived
<1>7. ASSUME NEW t \in Senders, SendPoll(t) PROVE (Unaware => OneMessage)' /\ OnlyArrived'
  <2>1. /\ spc[t] = "poll" /\ scq # <<>> /\ scq' = Tail(scq)
        /\ UNCHANGED <<cbState, sendBuf, smsg, sq, unacked, narrived>>
    BY <1>7 DEF SendPoll
  <2>2. OneMessage
    BY <1>i, <2>1 DEF Unaware
  <2>3. /\ 1 \in DOMAIN scq /\ Head(scq) = scq[1] /\ Head(scq) \in Status
        /\ Len(scq) \in Nat \ {0} /\ Len(scq') = Len(scq) - 1
    <3>1. Head(scq) \in Status
      BY <1>t, <2>1, QueueTypes
    <3> QED BY <1>t, <2>1, <3>1, TailFacts
  <2>4. Len(scq) = 1 /\ Len(sq) = 0 /\ Len(unacked) = 0
    BY <2>2, <2>3, SendLengths DEF OneMessage
  <2>5. Len(scq') = 0 /\ DOMAIN scq' = {} /\ DOMAIN sq = {} /\ DOMAIN unacked = {}
    <3>1. scq' \in Seq(Status)
      BY <1>t, <2>1, QueueTypes
    <3>2. DOMAIN scq' = 1 .. Len(scq')
      BY <3>1, LenFacts
    <3>3. Len(scq') = 0
      BY <2>3, <2>4
    <3>4. DOMAIN sq = {} /\ DOMAIN unacked = {}
      BY <2>4, SendLengths
    <3> QED BY <3>2, <3>3, <3>4
  <2>6. OneMessage'
    <3>1. Len(sq') = 0 /\ Len(unacked') = 0 /\ DOMAIN sq' = {} /\ DOMAIN unacked' = {}
      BY <2>1, <2>4, <2>5
    <3> QED BY <2>5, <3>1 DEF OneMessage
  <2>7. Head(scq).status \in {"SUCCESS", "ERR", "FLUSH"}
    BY <2>3 DEF ErrStatus, Status
  <2>8. \A u \in Senders : spc'[u] \in {"check", "poll"} => spc[u] \in {"check", "poll"}
    <3>1. UNCHANGED spc \/ \E to \in {"idle", "bug"} : spc' = [spc EXCEPT ![t] = to]
      BY <1>7, <2>7 DEF SendPoll, SendError
    <3> QED BY <1>t, <3>1
  <2>9. acked' = acked \/ (Head(scq).status = "SUCCESS" /\ acked' = acked \cup {smsg[t]})
    BY <1>7, <2>7 DEF SendPoll, SendError
  <2>10. Head(scq).status = "SUCCESS" => smsg[t] <= narrived /\ smsg[t] # 0
    BY <1>i, <2>1, <2>2, <2>3 DEF OneMessage, OnlyArrived
  <2>11. 0 \notin acked' /\ AckedArrived'
    BY <1>i, <2>1, <2>9, <2>10 DEF OnlyArrived, AckedArrived
  <2>12. OnlyArrived'
    BY <1>i, <2>1, <2>5, <2>8, <2>11 DEF OnlyArrived
  <2> QED BY <2>6, <2>12
<1>8. ASSUME NEW t \in Receivers, RecvCall(t) \/ RecvStep(t)
      PROVE  (Unaware => OneMessage)' /\ OnlyArrived'
  BY <1>8, <1>i, RecvFrame, RecvSideFrame DEF Unaware, OneMessage, OnlyArrived, AckedArrived
<1>9. CASE Transmit
  <2>1. /\ link /\ sq # <<>> /\ sq' = Tail(sq) /\ narrived' = narrived + 1
        /\ unacked' = Append(unacked, sendBuf[Head(sq)])
        /\ UNCHANGED <<cbState, slock, sendBuf, spc, smsg, scq, acked>>
    BY <1>9 DEF Transmit, sendVars
  <2>2. cbState["sender"] = "CONNECTED"
    BY <2>1 DEF LinkInv, Ends
  <2>3. OneMessage
    BY <1>i, <2>2 DEF Unaware
  <2>4. /\ 1 \in DOMAIN sq /\ Head(sq) = sq[1] /\ Len(sq) \in Nat \ {0}
        /\ Len(sq') = Len(sq) - 1 /\ sq' \in Seq(SendSlots) /\ sq[1] \in SendSlots
    BY <1>t, <2>1, TailFacts, QueueTypes
  <2>5. Len(sq) = 1 /\ Len(unacked) = 0 /\ Len(scq) = 0
    BY <2>3, <2>4, SendLengths DEF OneMessage
  <2>6. DOMAIN sq' = {} /\ DOMAIN unacked = {} /\ DOMAIN scq = {}
    <3>1. DOMAIN sq' = 1 .. Len(sq')
      BY <2>4, LenFacts
    <3>2. Len(sq') = 0
      BY <2>4, <2>5
    <3>3. DOMAIN unacked = {} /\ DOMAIN scq = {}
      BY <2>5, SendLengths
    <3> QED BY <3>1, <3>2, <3>3
  <2>7. /\ Len(unacked') = 1 /\ DOMAIN unacked' = {1}
        /\ unacked'[1] = sendBuf[sq[1]]
    <3>1. sendBuf[Head(sq)] \in Nat
      BY <1>t, <2>4
    <3> QED BY <1>t, <2>1, <2>4, <2>5, <2>6, <3>1, AppendFacts
  <2>8. sendBuf[sq[1]] = narrived + 1
    BY <2>1, <2>4 DEF LinkInv
  <2>9. slock # NoThread
    BY <2>3, <2>5 DEF OneMessage
  <2>10. OneMessage'
    BY <2>1, <2>3, <2>4, <2>5, <2>6, <2>7, <2>9 DEF OneMessage
  <2>11. OnlyArrived'
    BY <1>i, <1>t, <2>1, <2>6, <2>7, <2>8 DEF OnlyArrived, AckedArrived
  <2> QED BY <2>10, <2>11
<1>10. ASSUME NEW status \in {"SUCCESS"} \cup ErrStatus, NEW m \in Nat,
              scq' = Append(scq, [status |-> status, msg |-> m]),
              UNCHANGED <<cbState, slock, sendBuf, spc, smsg, narrived, acked>>,
              \/ unacked # <<>> /\ unacked' = Tail(unacked) /\ m = Head(unacked) /\ sq' = sq
              \/ /\ status # "SUCCESS"
                 /\ sq # <<>> /\ sq' = Tail(sq) /\ m = sendBuf[Head(sq)] /\ unacked' = unacked
       PROVE  (Unaware => OneMessage)' /\ OnlyArrived'
  <2> DEFINE new == Len(scq) + 1
  <2>1. [status |-> status, msg |-> m] \in Status
    BY DEF Status
  <2>2. /\ Len(scq') = new /\ DOMAIN scq' = DOMAIN scq \cup {new}
        /\ \A i \in DOMAIN scq : scq'[i] = scq[i]
        /\ scq'[new].status = status /\ scq'[new].msg = m
    <3>1. /\ Len(scq') = new /\ DOMAIN scq' = DOMAIN scq \cup {new}
          /\ \A i \in DOMAIN scq : scq'[i] = scq[i]
          /\ scq'[new] = [status |-> status, msg |-> m]
      BY <1>10, <1>t, <2>1, AppendFacts, SMTT(30)
    <3> QED BY <3>1
  <2>3. Unaware' => Unaware
    BY <1>10 DEF Unaware
  <2>4. CASE unacked # <<>> /\ unacked' = Tail(unacked) /\ m = Head(unacked) /\ sq' = sq
    <3>1. /\ 1 \in DOMAIN unacked /\ m = unacked[1]
          /\ Len(unacked) \in Nat \ {0} /\ Len(unacked') = Len(unacked) - 1
          /\ \A i \in DOMAIN unacked' :
               i + 1 \in DOMAIN unacked /\ unacked'[i] = unacked[i + 1]
      BY <1>t, <2>4, TailFacts
    <3>2. OnlyArrived'
      BY <1>10, <1>i, <2>2, <3>1 DEF OnlyArrived, AckedArrived
    <3>3. ASSUME OneMessage PROVE OneMessage'
      <4>1. Len(sq') + Len(unacked') + Len(scq') = Len(sq) + Len(unacked) + Len(scq)
        BY <2>2, <2>4, <3>1, SendLengths
      <4>2. ASSUME NEW t \in Senders, spc'[t] \in {"check", "poll"}
            PROVE  /\ \A i \in DOMAIN sq' : sendBuf'[sq'[i]] = smsg'[t]
                   /\ \A i \in DOMAIN unacked' : unacked'[i] = smsg'[t]
                   /\ \A i \in DOMAIN scq' : scq'[i].msg = smsg'[t]
        BY <1>10, <2>2, <2>4, <3>1, <3>3, <4>2, ZenonT(60) DEF OneMessage
      <4> QED BY <1>10, <3>3, <4>1, <4>2 DEF OneMessage
    <3> QED BY <1>i, <2>3, <3>2, <3>3
  <2>5. CASE /\ status # "SUCCESS"
             /\ sq # <<>> /\ sq' = Tail(sq) /\ m = sendBuf[Head(sq)] /\ unacked' = unacked
    <3>1. /\ 1 \in DOMAIN sq /\ m = sendBuf[sq[1]]
          /\ Len(sq) \in Nat \ {0} /\ Len(sq') = Len(sq) - 1
          /\ \A i \in DOMAIN sq' : i + 1 \in DOMAIN sq /\ sq'[i] = sq[i + 1]
      BY <1>t, <2>5, TailFacts
    <3>2. OnlyArrived'
      BY <1>10, <1>i, <2>2, <2>5 DEF OnlyArrived, AckedArrived
    <3>3. ASSUME OneMessage PROVE OneMessage'
      <4>1. Len(sq') + Len(unacked') + Len(scq') = Len(sq) + Len(unacked) + Len(scq)
        BY <2>2, <2>5, <3>1, SendLengths
      <4>2. ASSUME NEW t \in Senders, spc'[t] \in {"check", "poll"}
            PROVE  /\ \A i \in DOMAIN sq' : sendBuf'[sq'[i]] = smsg'[t]
                   /\ \A i \in DOMAIN unacked' : unacked'[i] = smsg'[t]
                   /\ \A i \in DOMAIN scq' : scq'[i].msg = smsg'[t]
        <5>1. spc[t] \in {"check", "poll"} /\ smsg'[t] = smsg[t] /\ sendBuf' = sendBuf
          BY <1>10, <4>2
        <5>2. \A i \in DOMAIN sq : sendBuf[sq[i]] = smsg[t]
          BY <3>3, <5>1 DEF OneMessage
        <5>3. \A i \in DOMAIN unacked' : unacked'[i] = smsg[t]
          BY <2>5, <3>3, <5>1 DEF OneMessage
        <5>4. \A i \in DOMAIN scq' : scq'[i].msg = smsg[t]
          BY <2>2, <2>5, <3>1, <3>3, <5>1, <5>2 DEF OneMessage
        <5> QED BY <3>1, <5>1, <5>2, <5>3, <5>4
      <4> QED BY <1>10, <3>3, <4>1, <4>2 DEF OneMessage
    <3> QED BY <1>i, <2>3, <3>2, <3>3
  <2> QED BY <1>10, <2>4, <2>5
<1>11. CASE SendComplete
  <2>1. /\ unacked # <<>> /\ unacked' = Tail(unacked) /\ sq' = sq
        /\ scq' = Append(scq, [status |-> "SUCCESS", msg |-> Head(unacked)])
        /\ UNCHANGED <<cbState, slock, sendBuf, spc, smsg, narrived, acked>>
    BY <1>11 DEF SendComplete, sendVars, history
  <2>2. Head(unacked) \in Nat
    BY <2>1, QueueFacts
  <2> QED BY <1>10, <2>1, <2>2
<1>12. CASE FlushSend
  <2>1. UNCHANGED <<cbState, slock, sendBuf, spc, smsg, narrived, acked>>
    BY <1>12 DEF FlushSend, sendVars, history
  <2>2. PICK status \in ErrStatus :
          \/ /\ unacked # <<>>
             /\ unacked' = Tail(unacked)
             /\ scq' = Append(scq, [status |-> status, msg |-> Head(unacked)])
             /\ UNCHANGED sq
          \/ /\ unacked = <<>> /\ sq # <<>>
             /\ sq' = Tail(sq)
             /\ scq' = Append(scq, [status |-> status, msg |-> sendBuf[Head(sq)]])
             /\ UNCHANGED unacked
    BY <1>12 DEF FlushSend
  <2>3. /\ unacked # <<>> => Head(unacked) \in Nat
        /\ sq # <<>> => sendBuf[Head(sq)] \in Nat
    BY <1>t, QueueFacts
  <2>4. status # "SUCCESS" /\ status \in {"SUCCESS"} \cup ErrStatus
    BY DEF ErrStatus
  <2> QED BY <1>10, <2>1, <2>2, <2>3, <2>4
<1>13. CASE FlushRecv \/ LinkDown \/ (\E e \in Ends : Disconnected(e)) \/ UNCHANGED vars
  <2>1. UNCHANGED <<slock, sendBuf, spc, smsg, sq, unacked, scq, narrived, acked>>
    BY <1>13 DEF FlushRecv, LinkDown, Disconnected, vars, sendVars, sendHca, history
  <2>2. cbState'["sender"] = "CONNECTED" => cbState["sender"] = "CONNECTED"
    BY <1>13, <1>t DEF FlushRecv, LinkDown, Disconnected, vars, Ends
  <2> QED BY <1>i, <2>1, <2>2 DEF Unaware, OneMessage, OnlyArrived, AckedArrived
<1> QED
  BY <1>1, <1>2, <1>3, <1>4, <1>5, <1>6, <1>7, <1>8, <1>9, <1>11, <1>12, <1>13
     DEF Next, SendStep, Fabric
-----------------------------------------------------------------------------
(* The order of the messages.                                              *)

\* Taken depends on what has been returned and on whether a receiver holds a message.
LEMMA TakenValue ==
  ASSUME TypeOK
  PROVE  /\ Len(received) \in Nat
         /\ (\E t \in Receivers : Holding(t)) => Taken = Len(received) + 1
         /\ ~(\E t \in Receivers : Holding(t)) => Taken = Len(received)
<1>1. Len(received) \in Nat
  BY LenFacts DEF TypeOK
<1> QED BY <1>1 DEF Taken

\* The receive completion queue.
LEMMA RecvLengths ==
  ASSUME TypeOK
  PROVE  /\ Len(rcq) \in Nat /\ (rcq = <<>> <=> Len(rcq) = 0) /\ DOMAIN rcq = 1 .. Len(rcq)
         /\ Len(received) \in Nat /\ DOMAIN received = 1 .. Len(received)
<1>1. Len(rcq) \in Nat /\ (rcq = <<>> <=> Len(rcq) = 0) /\ DOMAIN rcq = 1 .. Len(rcq)
  BY LenFacts DEF TypeOK
<1>2. Len(received) \in Nat /\ DOMAIN received = 1 .. Len(received)
  BY LenFacts DEF TypeOK
<1> QED BY <1>1, <1>2

\* A message is added to those that have been returned.
LEMMA OneMoreReceived ==
  ASSUME TypeOK, InOrder, NEW ok \in BOOLEAN,
         received' = Append(received, [msg |-> Len(received) + 1, ok |-> ok])
  PROVE  Len(received') = Len(received) + 1 /\ InOrder'
<1>1. received \in Seq([msg : Nat, ok : BOOLEAN]) /\ Len(received) \in Nat
  BY LenFacts DEF TypeOK
<1>2. [msg |-> Len(received) + 1, ok |-> ok] \in [msg : Nat, ok : BOOLEAN]
  BY <1>1
<1>3. /\ Len(received') = Len(received) + 1
      /\ DOMAIN received' = DOMAIN received \cup {Len(received) + 1}
      /\ \A i \in DOMAIN received : received'[i] = received[i]
      /\ received'[Len(received) + 1] = [msg |-> Len(received) + 1, ok |-> ok]
  BY <1>1, <1>2, AppendFacts
<1> QED BY <1>3 DEF InOrder

\* The completion queue continues the sequence of the messages taken.
LEMMA OrderStep ==
  TypeOK /\ LockInv /\ SlotInv /\ LinkInv /\ OrderInv /\ TypeOK' /\ [Next]_vars => OrderInv'
<1> SUFFICES ASSUME TypeOK, LockInv, SlotInv, LinkInv, OrderInv, TypeOK', [Next]_vars
             PROVE  OrderInv'
  OBVIOUS
<1>t. /\ rpc \in [Receivers -> {"idle", "lock", "poll", "polled", "output", "bug"}]
      /\ rtrans \in [Receivers -> RecvSlots] /\ recvBuf \in [RecvSlots -> Nat]
      /\ rcq \in Seq(Completion) /\ narrived \in Nat
      /\ received \in Seq([msg : Nat, ok : BOOLEAN])
  BY DEF TypeOK
<1>c. \A i \in DOMAIN rcq : rcq[i].slot \in RecvSlots
  <2>1. \A i \in DOMAIN rcq : rcq[i] \in Completion
    BY <1>t, QueueTypes
  <2> QED BY <2>1 DEF Completion
<1>n. Taken \in Nat /\ Len(rcq) \in Nat /\ Len(received) \in Nat
      /\ DOMAIN rcq = 1 .. Len(rcq)
  BY TakenValue, RecvLengths
<1>1. ASSUME UNCHANGED <<recvBuf, rtrans, rcq, narrived, received>>,
             \A u \in Receivers : rpc'[u] \in {"polled", "output"}
                                 <=> rpc[u] \in {"polled", "output"},
             link' => link
      PROVE  OrderInv'
  <2>1. \A u \in Receivers : Holding(u)' <=> Holding(u)
    BY <1>1 DEF Holding
  <2>2. Taken' = Taken
    BY <1>1, <2>1 DEF Taken
  <2>3. InOrder'
    BY <1>1 DEF OrderInv, InOrder
  <2> QED BY <1>1, <2>1, <2>2, <2>3 DEF OrderInv
<1>2. ASSUME \/ \E t \in Senders : SendCall(t) \/ SendStep(t)
             \/ SendComplete \/ FlushSend \/ LinkDown
             \/ \E e \in Ends : Disconnected(e)
             \/ UNCHANGED vars
      PROVE  OrderInv'
  <2>1. UNCHANGED <<recvBuf, rpc, rtrans, rcq, narrived, received>>
    BY <1>2, SendFrame
  <2>2. link' => link
    <3>1. CASE \E t \in Senders : SendCall(t) \/ SendStep(t)
      BY <3>1, SendSideFrame
    <3>2. CASE SendComplete \/ FlushSend \/ LinkDown
      BY <3>2 DEF SendComplete, FlushSend, LinkDown
    <3>3. CASE (\E e \in Ends : Disconnected(e)) \/ UNCHANGED vars
      BY <3>3 DEF Disconnected, vars
    <3> QED BY <1>2, <3>1, <3>2, <3>3
  <2> QED BY <1>1, <2>1, <2>2
<1>3. ASSUME NEW t \in Receivers, RecvCall(t) PROVE OrderInv'
  <2>1. UNCHANGED <<link, recvBuf, rtrans, rcq, narrived, received>>
    BY <1>3 DEF RecvCall, recvHca, history
  <2>2. rpc[t] = "idle" /\ rpc' = [rpc EXCEPT ![t] = "lock"]
    BY <1>3 DEF RecvCall
  <2> QED BY <1>1, <1>t, <2>1, <2>2
<1>4. ASSUME NEW t \in Receivers, RecvCheck(t) PROVE OrderInv'
  <2>1. ~\E s \in RecvSlots : recvState[s] = "POLLED"
    BY <1>4, ThreadAssumption DEF RecvCheck, LockInv, SlotInv
  <2>2. /\ UNCHANGED <<link, recvBuf, rtrans, rcq, narrived, received>>
        /\ rpc[t] = "lock" /\ \E to \in {"idle", "poll"} : rpc' = [rpc EXCEPT ![t] = to]
    BY <1>4, <2>1 DEF RecvCheck, recvHca, history
  <2> QED BY <1>1, <1>t, <2>2
<1>5. ASSUME NEW t \in Receivers, RecvPollEmpty(t) PROVE OrderInv'
  <2>1. /\ UNCHANGED <<link, recvBuf, rtrans, rcq, narrived, received>>
        /\ rpc[t] = "poll" /\ \E to \in {"lock", "idle"} : rpc' = [rpc EXCEPT ![t] = to]
    BY <1>5 DEF RecvPollEmpty, recvHca, history
  <2> QED BY <1>1, <1>t, <2>1
<1>6. ASSUME NEW t \in Receivers, RecvPollError(t) PROVE OrderInv'
  <2>1. /\ rpc[t] = "poll" /\ \E to \in {"poll", "idle"} : rpc' = [rpc EXCEPT ![t] = to]
        /\ rcq # <<>> /\ Head(rcq).status # "SUCCESS" /\ rcq' = Tail(rcq)
        /\ UNCHANGED <<link, recvBuf, rtrans, narrived, received>>
    BY <1>6, <1>t DEF RecvPollError, ErrStatus, history
  <2>2. /\ 1 \in DOMAIN rcq /\ Head(rcq) = rcq[1]
        /\ \A i \in DOMAIN rcq' : i \in Nat \ {0} /\ i + 1 \in DOMAIN rcq /\ rcq'[i] = rcq[i + 1]
    BY <1>t, <2>1, TailFacts
  <2>3. \A i \in DOMAIN rcq : rcq[i].status # "SUCCESS"
    BY <1>n, <2>1, <2>2 DEF OrderInv
  <2>4. ~link
    BY <2>2, <2>3 DEF OrderInv
  <2>5. \A u \in Receivers : Holding(u)' <=> Holding(u)
    BY <1>t, <2>1 DEF Holding
  <2>6. Taken' = Taken /\ InOrder'
    BY <2>1, <2>5 DEF Taken, OrderInv, InOrder
  <2> QED BY <2>1, <2>2, <2>3, <2>4, <2>5, <2>6 DEF OrderInv
<1>7. ASSUME NEW t \in Receivers, RecvPoll(t) PROVE OrderInv'
  <2>1. /\ rpc[t] = "poll" /\ rcq # <<>> /\ Head(rcq).status = "SUCCESS" /\ rcq' = Tail(rcq)
        /\ UNCHANGED <<link, recvBuf, narrived>>
    BY <1>7 DEF RecvPoll
  <2> DEFINE h == rcq[1].slot
  <2>2. /\ 1 \in DOMAIN rcq /\ Head(rcq) = rcq[1] /\ Len(rcq') = Len(rcq) - 1
        /\ \A i \in DOMAIN rcq' : i \in Nat \ {0} /\ i + 1 \in DOMAIN rcq /\ rcq'[i] = rcq[i + 1]
    BY <1>t, <2>1, TailFacts
  <2>3. ~\E u \in Receivers : Holding(u)
    BY <2>1, Alone DEF Holding
  <2>4. Taken = Len(received)
    BY <2>3, TakenValue
  <2>5. recvBuf[h] = Len(received) + 1 /\ Len(received) + 1 <= narrived
    BY <2>1, <2>2, <2>4 DEF OrderInv
  <2>6. Taken' = Len(received) + 1 /\ InOrder'
        /\ \A u \in Receivers : Holding(u)' => recvBuf'[rtrans'[u]] = Len(received') + 1
    <3>1. CASE /\ rtrans' = [rtrans EXCEPT ![t] = Head(rcq).slot]
               /\ rpc' = [rpc EXCEPT ![t] = "polled"]
               /\ UNCHANGED received
      <4>1. /\ Holding(t)' /\ rtrans'[t] = h
            /\ \A u \in Receivers : Holding(u)' => u = t
        BY <1>t, <2>2, <2>3, <3>1 DEF Holding
      <4>2. Taken' = Len(received) + 1
        BY <3>1, <4>1 DEF Taken
      <4> QED BY <2>1, <2>5, <3>1, <4>1, <4>2 DEF InOrder, OrderInv
    <3>2. CASE /\ received' = Append(received, [msg |-> recvBuf[Head(rcq).slot], ok |-> FALSE])
               /\ rpc' = [rpc EXCEPT ![t] = "idle"]
      <4>1. ~\E u \in Receivers : Holding(u)'
        BY <1>t, <2>3, <3>2 DEF Holding
      <4>2. Len(received') = Len(received) + 1 /\ InOrder'
        BY <2>2, <2>5, <3>2, OneMoreReceived DEF OrderInv
      <4>3. Taken' = Len(received')
        BY <1>n, <4>1, <4>2 DEF Taken
      <4> QED BY <4>1, <4>2, <4>3
    <3> QED BY <1>7, <3>1, <3>2 DEF RecvPoll
  <2>7. Taken' = Taken + 1
    BY <2>4, <2>6
  <2>8. \A i \in DOMAIN rcq' : rcq'[i].status = "SUCCESS" =>
          /\ recvBuf'[rcq'[i].slot] = Taken' + i
          /\ Taken' + i <= narrived'
          /\ \A j \in 1 .. i : rcq'[j].status = "SUCCESS"
    <3> SUFFICES ASSUME NEW i \in DOMAIN rcq', rcq'[i].status = "SUCCESS"
                 PROVE  /\ recvBuf'[rcq'[i].slot] = Taken' + i
                        /\ Taken' + i <= narrived'
                        /\ \A j \in 1 .. i : rcq'[j].status = "SUCCESS"
      OBVIOUS
    <3>1. i \in Nat \ {0} /\ i + 1 \in DOMAIN rcq /\ rcq'[i] = rcq[i + 1]
      BY <2>2
    <3>2. /\ recvBuf[rcq[i + 1].slot] = Taken + (i + 1) /\ Taken + (i + 1) <= narrived
          /\ \A j \in 1 .. i + 1 : rcq[j].status = "SUCCESS"
      BY <3>1 DEF OrderInv
    <3>3. ASSUME NEW j \in 1 .. i PROVE rcq'[j].status = "SUCCESS"
      <4>1. DOMAIN rcq' = 1 .. Len(rcq')
        <5>1. rcq' \in Seq(Completion)
          BY DEF TypeOK
        <5> QED BY <5>1, LenFacts
      <4>2. j \in DOMAIN rcq' /\ j + 1 \in 1 .. i + 1
        BY <1>n, <2>2, <3>1, <4>1
      <4> QED BY <2>2, <3>2, <4>2
    <3> QED BY <1>n, <2>1, <2>7, <3>1, <3>2, <3>3
  <2>9. link' => narrived' = Taken' + Len(rcq') /\ \A i \in DOMAIN rcq' : rcq'[i].status = "SUCCESS"
    BY <1>n, <2>1, <2>2, <2>7 DEF OrderInv
  <2> QED BY <1>n, <2>1, <2>5, <2>6, <2>8, <2>9 DEF OrderInv
<1>8. ASSUME NEW t \in Receivers, RecvPolled(t) PROVE OrderInv'
  <2>1. UNCHANGED <<link, recvBuf, rtrans, rcq, narrived, received>>
    BY <1>8 DEF RecvPolled, recvHca, history
  <2>2. rpc[t] = "polled" /\ rpc' = [rpc EXCEPT ![t] = "output"]
    BY <1>8 DEF RecvPolled, SlotInv
  <2> QED BY <1>1, <1>t, <2>1, <2>2
<1>9. ASSUME NEW t \in Receivers, RecvOutput(t) PROVE OrderInv'
  <2>1. /\ rpc[t] = "output" /\ rpc' = [rpc EXCEPT ![t] = "idle"]
        /\ received' = Append(received, [msg |-> recvBuf[rtrans[t]], ok |-> TRUE])
        /\ UNCHANGED <<link, recvBuf, rcq, narrived>>
    BY <1>9 DEF RecvOutput, build_krdma_recv_output, recvHca
  <2>2. Holding(t) /\ recvBuf[rtrans[t]] = Len(received) + 1
    BY <2>1 DEF Holding, OrderInv
  <2>3. Taken = Len(received) + 1
    BY <2>2, TakenValue
  <2>4. ~\E u \in Receivers : Holding(u)'
    BY <1>t, <2>1, Alone DEF Holding
  <2>5. Len(received') = Len(received) + 1 /\ InOrder'
    BY <2>1, <2>2, OneMoreReceived DEF OrderInv
  <2>6. Taken' = Taken
    BY <1>n, <2>3, <2>4, <2>5 DEF Taken
  <2> QED BY <2>1, <2>4, <2>5, <2>6 DEF OrderInv
<1>10. CASE Transmit
  <2>1. /\ link /\ sq # <<>> /\ narrived' = narrived + 1
        /\ UNCHANGED <<link, rpc, rtrans, received>>
    BY <1>10 DEF Transmit
  <2>2. PICK s \in RecvSlots :
          /\ rq[s] > 0
          /\ recvBuf' = [recvBuf EXCEPT ![s] = sendBuf[Head(sq)]]
          /\ rcq' = Append(rcq, [slot |-> s, status |-> "SUCCESS"])
    BY <1>10 DEF Transmit
  <2>3. sendBuf[Head(sq)] = narrived + 1
    <3>1. 1 \in DOMAIN sq /\ Head(sq) = sq[1]
      BY <2>1, TailFacts DEF TypeOK
    <3> QED BY <2>1, <3>1 DEF LinkInv
  <2>4. recvBuf'[s] = narrived + 1 /\ \A u \in RecvSlots : u # s => recvBuf'[u] = recvBuf[u]
    BY <1>t, <2>2, <2>3
  <2> DEFINE new == Len(rcq) + 1
  <2>5. /\ Len(rcq') = new /\ DOMAIN rcq' = DOMAIN rcq \cup {new} /\ new \notin DOMAIN rcq
        /\ \A i \in DOMAIN rcq : rcq'[i] = rcq[i]
        /\ rcq'[new].slot = s /\ rcq'[new].status = "SUCCESS"
    <3>1. [slot |-> s, status |-> "SUCCESS"] \in Completion
      BY DEF Completion
    <3>2. /\ Len(rcq') = new /\ DOMAIN rcq' = DOMAIN rcq \cup {new} /\ new \notin DOMAIN rcq
          /\ \A i \in DOMAIN rcq : rcq'[i] = rcq[i]
          /\ rcq'[new] = [slot |-> s, status |-> "SUCCESS"]
      BY <1>t, <2>2, <3>1, AppendFacts
    <3> QED BY <3>2
  <2>6. \A i \in DOMAIN rcq : rcq[i].slot # s
    BY <2>2 DEF SlotInv, RecvSlotOwned
  <2>7. \A u \in Receivers : (Holding(u)' <=> Holding(u)) /\ (Holding(u) => rtrans[u] # s)
    BY <2>1, <2>2 DEF SlotInv, RecvSlotOwned, Holding
  <2>8. Taken' = Taken /\ InOrder'
    BY <2>1, <2>7 DEF Taken, OrderInv, InOrder
  <2>9. narrived = Taken + Len(rcq) /\ \A i \in DOMAIN rcq : rcq[i].status = "SUCCESS"
    BY <2>1 DEF OrderInv
  <2>10. \A i \in DOMAIN rcq' : rcq'[i].status = "SUCCESS"
    BY <2>5, <2>9
  <2>11. \A i \in DOMAIN rcq' : recvBuf'[rcq'[i].slot] = Taken' + i
    <3>1. ASSUME NEW i \in DOMAIN rcq PROVE recvBuf'[rcq'[i].slot] = Taken' + i
      BY <1>c, <2>4, <2>5, <2>6, <2>8, <2>9 DEF OrderInv
    <3>2. recvBuf'[rcq'[new].slot] = Taken' + new
      BY <1>n, <2>4, <2>5, <2>8, <2>9
    <3> QED BY <2>5, <3>1, <3>2
  <2>12. narrived' = Taken' + Len(rcq') /\ Taken' <= narrived'
    BY <1>n, <1>t, <2>1, <2>5, <2>8, <2>9
  <2>13. \A i \in DOMAIN rcq' : i \in 1 .. Len(rcq') /\ Taken' + i <= narrived'
    BY <1>n, <2>5, <2>8, <2>12
  <2>14. \A i \in DOMAIN rcq' : \A j \in 1 .. i : rcq'[j].status = "SUCCESS"
    BY <1>n, <2>5, <2>10, <2>13
  <2>15. \A u \in Receivers : Holding(u)' => recvBuf'[rtrans'[u]] = Len(received') + 1
    BY <1>t, <2>1, <2>4, <2>7 DEF OrderInv
  <2> QED BY <2>8, <2>10, <2>11, <2>12, <2>13, <2>14, <2>15 DEF OrderInv
<1>11. CASE FlushRecv
  <2>1. /\ ~link /\ UNCHANGED <<link, rpc, rtrans, recvBuf, narrived, received>>
    BY <1>11 DEF FlushRecv, recvVars, history
  <2>2. PICK s \in RecvSlots, status \in ErrStatus :
          rcq' = Append(rcq, [slot |-> s, status |-> status])
    BY <1>11 DEF FlushRecv
  <2>3. [slot |-> s, status |-> status] \in Completion /\ status # "SUCCESS"
    BY DEF Completion, ErrStatus
  <2>4. /\ DOMAIN rcq' = DOMAIN rcq \cup {Len(rcq) + 1}
        /\ \A i \in DOMAIN rcq : rcq'[i] = rcq[i]
        /\ rcq'[Len(rcq) + 1] = [slot |-> s, status |-> status]
    BY <1>t, <2>2, <2>3, AppendFacts
  <2>5. Taken' = Taken /\ InOrder' /\ \A u \in Receivers : Holding(u)' <=> Holding(u)
    BY <2>1 DEF Taken, OrderInv, InOrder, Holding
  <2>6. ASSUME NEW i \in DOMAIN rcq', rcq'[i].status = "SUCCESS"
        PROVE  /\ recvBuf'[rcq'[i].slot] = Taken' + i
               /\ Taken' + i <= narrived'
               /\ \A j \in 1 .. i : rcq'[j].status = "SUCCESS"
    <3>1. i \in DOMAIN rcq /\ rcq'[i] = rcq[i]
      BY <2>3, <2>4, <2>6
    <3>2. \A j \in 1 .. i : j \in DOMAIN rcq
      BY <1>n, <3>1
    <3> QED BY <2>1, <2>4, <2>5, <2>6, <3>1, <3>2 DEF OrderInv
  <2> QED BY <2>1, <2>5, <2>6 DEF OrderInv
<1> QED
  BY <1>2, <1>3, <1>4, <1>5, <1>6, <1>7, <1>8, <1>9, <1>10, <1>11
     DEF Next, RecvStep, Fabric
-----------------------------------------------------------------------------
(* The BUG() of krdma_send, and the receive credits.                       *)

\* Until a send has failed, every send finds a slot and its completion finds it too.
LEMMA BugStep == TypeOK /\ LockInv /\ BugInv /\ [Next]_vars => BugInv'
<1> SUFFICES ASSUME TypeOK, LockInv, BugInv, [Next]_vars, ~sendFailed' PROVE BugInv'
  BY DEF BugInv
<1>t. /\ spc \in [Senders -> {"idle", "lock", "check", "poll", "bug"}]
      /\ sendState \in [SendSlots -> {"INVALID", "POSTED"}]
  BY DEF TypeOK
<1> USE DEF BugInv
<1>1. ASSUME NEW t \in Senders, SendCall(t) PROVE BugInv'
  BY <1>t, <1>1 DEF SendCall, history
<1>2. ASSUME NEW t \in Senders, SendPost(t) PROVE BugInv'
  <2>1. PICK s \in SendSlots : sendState' = [sendState EXCEPT ![s] = "POSTED"]
    BY <1>2 DEF SendPost
  <2>2. /\ slock = NoThread /\ slock' = t /\ spc' = [spc EXCEPT ![t] = "check"]
        /\ UNCHANGED sendFailed
    BY <1>2 DEF SendPost
  <2>3. \A u \in SendSlots : sendState'[u] = "POSTED" <=> u = s
    BY <1>t, <2>1, <2>2
  <2>4. \A u \in Senders : spc'[u] # "bug" /\ (spc'[u] \in {"check", "poll"} => u = t)
    BY <1>t, <2>2, AloneSend
  <2> QED BY <2>2, <2>3, <2>4, ThreadAssumption
<1>3. ASSUME NEW t \in Senders, SendPostFails(t) PROVE BugInv'
  BY <1>3 DEF SendPostFails
<1>4. ASSUME NEW t \in Senders, SendOverflow(t) PROVE BugInv'
  <2>1. slock = NoThread /\ FreeSend = {} /\ UNCHANGED sendFailed
    BY <1>4 DEF SendOverflow, history
  <2>2. 0 \in FreeSend
    BY <2>1, DepthAssumption DEF FreeSend, SendSlots
  <2> QED BY <2>1, <2>2
<1>5. ASSUME NEW t \in Senders, SendCheck(t) PROVE BugInv'
  BY <1>t, <1>5 DEF SendCheck, SendError
<1>6. ASSUME NEW t \in Senders, SendPollEmpty(t) PROVE BugInv'
  BY <1>t, <1>6 DEF SendPollEmpty, history
<1>7. ASSUME NEW t \in Senders, SendPoll(t) PROVE BugInv'
  <2>1. spc[t] = "poll" /\ Head(scq) \in [status : {"SUCCESS"} \cup ErrStatus, msg : Nat]
    BY <1>7, QueueTypes DEF SendPoll, TypeOK
  <2>2. Head(scq).status \in {"SUCCESS", "ERR", "FLUSH"}
    BY <2>1 DEF ErrStatus
  <2>3. CASE Head(scq).status = "FLUSH"
    BY <1>7, <2>3 DEF SendPoll
  <2>4. CASE Head(scq).status = "ERR"
    BY <1>7, <2>4 DEF SendPoll, SendError
  <2>5. CASE Head(scq).status = "SUCCESS"
    <3>1. ~sendFailed
      BY <1>7, <2>5 DEF SendPoll
    <3>2. PICK s \in SendSlots : \A u \in SendSlots : sendState[u] = "POSTED" <=> u = s
      BY <2>1, <3>1
    <3>3. \E u \in SendSlots : sendState[u] = "POSTED"
      BY <3>2
    <3>4. PICK r \in SendSlots :
            search_send_buf(r) /\ sendState' = [sendState EXCEPT ![r] = "INVALID"]
      BY <1>7, <2>5, <3>3 DEF SendPoll
    <3>5. spc' = [spc EXCEPT ![t] = "idle"]
      BY <1>7, <2>5, <3>3 DEF SendPoll
    <3>6. \A u \in SendSlots : sendState'[u] = "INVALID"
      BY <1>t, <3>2, <3>4 DEF search_send_buf
    <3>7. \A u \in Senders : spc'[u] \notin {"check", "poll", "bug"}
      BY <1>t, <2>1, <3>1, <3>5, AloneSend
    <3> QED BY <3>6, <3>7
  <2> QED BY <2>2, <2>3, <2>4, <2>5
<1>8. ASSUME NEW t \in Receivers, RecvCall(t) \/ RecvStep(t) PROVE BugInv'
  BY <1>8, RecvFrame, RecvSideFrame
<1>9. CASE Fabric \/ LinkDown \/ (\E e \in Ends : Disconnected(e)) \/ UNCHANGED vars
  <2>1. UNCHANGED <<slock, sendState, spc>>
    BY <1>9, RecvFrame
  <2>2. UNCHANGED sendFailed
    BY <1>9 DEF Fabric, Transmit, SendComplete, FlushSend, FlushRecv, LinkDown,
                Disconnected, vars, history
  <2> QED BY <2>1, <2>2
<1> QED
  BY <1>1, <1>2, <1>3, <1>4, <1>5, <1>6, <1>7, <1>8, <1>9 DEF Next, SendStep

\* The adapter has the slot or has put it into the completion queue.
WithAdapter(s) == rq[s] = 1 \/ \E i \in DOMAIN rcq : rcq[i].slot = s

NoRefillFailed == \A i \in DOMAIN received : received[i].ok

\* A step by which the adapter loses no slot, and a slot that is not with it stays
\* INVALID or with its receiver.
LEMMA CreditKept ==
  ASSUME CreditInv, link' /\ NoRefillFailed' => link /\ NoRefillFailed,
         \A s \in RecvSlots : WithAdapter(s) => WithAdapter(s)',
         \A s \in RecvSlots :
           recvState[s] = "INVALID" =>
             recvState'[s] = "INVALID" \/ \E u \in Receivers : Holding(u)' /\ rtrans'[u] = s,
         \A t \in Receivers :
           Holding(t) => \/ recvState'[rtrans[t]] = "INVALID"
                         \/ Holding(t)' /\ rtrans'[t] = rtrans[t]
  PROVE  CreditInv'
<1> SUFFICES ASSUME link', NoRefillFailed'
             PROVE  /\ \A s, u \in RecvSlots : s # u => \E v \in {s, u} : WithAdapter(v)'
                    /\ \A s \in RecvSlots :
                         \/ WithAdapter(s)'
                         \/ \E t \in Receivers : Holding(t)' /\ rtrans'[t] = s
                         \/ recvState'[s] = "INVALID"
  BY DEF CreditInv, RecvCredit, WithAdapter, NoRefillFailed
<1>1. /\ \A s, u \in RecvSlots : s # u => \E v \in {s, u} : WithAdapter(v)
      /\ \A s \in RecvSlots :
           \/ WithAdapter(s)
           \/ \E t \in Receivers : Holding(t) /\ rtrans[t] = s
           \/ recvState[s] = "INVALID"
  BY DEF CreditInv, RecvCredit, WithAdapter, NoRefillFailed
<1>2. \A s, u \in RecvSlots : s # u => \E v \in {s, u} : WithAdapter(v)'
  BY <1>1
<1>3. ASSUME NEW s \in RecvSlots
      PROVE  \/ WithAdapter(s)'
             \/ \E t \in Receivers : Holding(t)' /\ rtrans'[t] = s
             \/ recvState'[s] = "INVALID"
  BY <1>1
<1> QED BY <1>2, <1>3

\* Every step keeps the credit of the receive queue.
LEMMA CreditStep ==
  TypeOK /\ LockInv /\ SlotInv /\ OrderInv /\ CreditInv /\ [Next]_vars => CreditInv'
<1> SUFFICES ASSUME TypeOK, LockInv, SlotInv, OrderInv, CreditInv, [Next]_vars
             PROVE  CreditInv'
  OBVIOUS
<1>t. /\ rpc \in [Receivers -> {"idle", "lock", "poll", "polled", "output", "bug"}]
      /\ rtrans \in [Receivers -> RecvSlots] /\ recvState \in [RecvSlots -> SlotState]
      /\ rcq \in Seq(Completion) /\ rq \in [RecvSlots -> Nat]
      /\ received \in Seq([msg : Nat, ok : BOOLEAN])
  BY DEF TypeOK
<1>1. ASSUME UNCHANGED <<recvState, rtrans, rq, rcq, received>>, link' => link,
             \A u \in Receivers : rpc'[u] \in {"polled", "output"}
                                 <=> rpc[u] \in {"polled", "output"}
      PROVE  CreditInv'
  <2>1. link' /\ NoRefillFailed' => link /\ NoRefillFailed
    BY <1>1 DEF NoRefillFailed
  <2>2. \A s \in RecvSlots : WithAdapter(s) => WithAdapter(s)'
    BY <1>1 DEF WithAdapter
  <2>3. \A u \in Receivers : Holding(u) => Holding(u)' /\ rtrans'[u] = rtrans[u]
    BY <1>1 DEF Holding
  <2>4. \A s \in RecvSlots : recvState[s] = "INVALID" => recvState'[s] = "INVALID"
    BY <1>1
  <2> QED BY <2>1, <2>2, <2>3, <2>4, CreditKept
<1>2. ASSUME \/ \E t \in Senders : SendCall(t) \/ SendStep(t)
             \/ SendComplete \/ FlushSend \/ LinkDown
             \/ \E e \in Ends : Disconnected(e)
             \/ UNCHANGED vars
      PROVE  CreditInv'
  <2>1. UNCHANGED <<recvState, rpc, rtrans, rq, rcq, received>>
    BY <1>2, SendFrame
  <2>2. link' => link
    <3>1. CASE \E t \in Senders : SendCall(t) \/ SendStep(t)
      BY <3>1, SendSideFrame
    <3>2. CASE SendComplete \/ FlushSend \/ LinkDown
      BY <3>2 DEF SendComplete, FlushSend, LinkDown
    <3>3. CASE (\E e \in Ends : Disconnected(e)) \/ UNCHANGED vars
      BY <3>3 DEF Disconnected, vars
    <3> QED BY <1>2, <3>1, <3>2, <3>3
  <2> QED BY <1>1, <2>1, <2>2
<1>3. ASSUME NEW t \in Receivers, RecvCall(t) PROVE CreditInv'
  <2>1. /\ UNCHANGED <<link, recvState, rtrans, rq, rcq, received>>
        /\ rpc[t] = "idle" /\ rpc' = [rpc EXCEPT ![t] = "lock"]
    BY <1>3 DEF RecvCall, recvHca, history
  <2> QED BY <1>1, <1>t, <2>1
<1>4. ASSUME NEW t \in Receivers, RecvCheck(t) PROVE CreditInv'
  <2>1. ~\E s \in RecvSlots : recvState[s] = "POLLED"
    BY <1>4, ThreadAssumption DEF RecvCheck, LockInv, SlotInv
  <2>2. /\ UNCHANGED <<link, recvState, rtrans, rq, rcq, received>>
        /\ rpc[t] = "lock" /\ \E to \in {"idle", "poll"} : rpc' = [rpc EXCEPT ![t] = to]
    BY <1>4, <2>1 DEF RecvCheck, recvHca, history
  <2> QED BY <1>1, <1>t, <2>2
<1>5. ASSUME NEW t \in Receivers, RecvPollEmpty(t) PROVE CreditInv'
  <2>1. /\ UNCHANGED <<link, recvState, rtrans, rq, rcq, received>>
        /\ rpc[t] = "poll" /\ \E to \in {"lock", "idle"} : rpc' = [rpc EXCEPT ![t] = to]
    BY <1>5 DEF RecvPollEmpty, recvHca, history
  <2> QED BY <1>1, <1>t, <2>1
<1>6. ASSUME NEW t \in Receivers, RecvPollError(t) PROVE CreditInv'
  <2>1. rcq # <<>> /\ Head(rcq).status # "SUCCESS" /\ UNCHANGED link
    BY <1>6 DEF RecvPollError, ErrStatus
  <2>2. ~link
    BY <1>t, <2>1, TailFacts DEF OrderInv
  <2> QED BY <2>1, <2>2 DEF CreditInv, RecvCredit
<1>7. ASSUME NEW t \in Receivers, RecvPoll(t) PROVE CreditInv'
  <2>1. rpc[t] = "poll" /\ rcq # <<>> /\ rcq' = Tail(rcq) /\ UNCHANGED link
    BY <1>7 DEF RecvPoll
  <2>2. /\ 1 \in DOMAIN rcq /\ Head(rcq) = rcq[1]
        /\ \A i \in DOMAIN rcq : i # 1 => \E j \in DOMAIN rcq' : rcq'[j] = rcq[i]
    <3>1. rcq' \in Seq(Completion)
      BY <1>t, <2>1, QueueTypes
    <3>2. DOMAIN rcq' = 1 .. Len(rcq') /\ DOMAIN rcq = 1 .. Len(rcq) /\ Len(rcq) \in Nat
      BY <1>t, <3>1, LenFacts
    <3>3. /\ 1 \in DOMAIN rcq /\ Head(rcq) = rcq[1] /\ Len(rcq') = Len(rcq) - 1
          /\ \A j \in DOMAIN rcq' : rcq'[j] = rcq[j + 1]
      BY <1>t, <2>1, TailFacts
    <3>4. ASSUME NEW i \in DOMAIN rcq, i # 1 PROVE \E j \in DOMAIN rcq' : rcq'[j] = rcq[i]
      <4>1. i - 1 \in DOMAIN rcq' /\ (i - 1) + 1 = i
        BY <3>2, <3>3, <3>4
      <4> QED BY <3>3, <4>1
    <3> QED BY <3>3, <3>4
  <2>3. ~\E u \in Receivers : Holding(u)
    BY <2>1, Alone DEF Holding
  <2>4. CASE /\ krdma_post_recv({}) /\ UNCHANGED received
             /\ rtrans' = [rtrans EXCEPT ![t] = Head(rcq).slot]
             /\ rpc' = [rpc EXCEPT ![t] = "polled"]
    <3> SUFFICES ASSUME link', NoRefillFailed' PROVE CreditInv'
      BY DEF CreditInv, RecvCredit, NoRefillFailed
    <3>1. NoRefillFailed /\ link
      BY <2>1, <2>4 DEF NoRefillFailed
    <3>2. Holding(t)' /\ rtrans'[t] = rcq[1].slot
      BY <1>t, <2>2, <2>4 DEF Holding
    <3>3. ASSUME NEW s \in RecvSlots, s # rcq[1].slot PROVE WithAdapter(s)'
      <4>1. WithAdapter(s) \/ recvState[s] = "INVALID"
        BY <2>3, <3>1 DEF CreditInv, WithAdapter, NoRefillFailed
      <4>2. CASE \E i \in DOMAIN rcq : rcq[i].slot = s
        BY <2>2, <3>3, <4>2 DEF WithAdapter
      <4>3. CASE rq[s] = 1
        <5>1. recvState[s] = "POSTED"
          BY <4>3 DEF SlotInv, RecvSlotOwned
        <5>2. rq'[s] = 1
          BY <2>4, <4>3, <5>1 DEF krdma_post_recv, search_empty_recv_buf
        <5> QED BY <5>2 DEF WithAdapter
      <4>4. CASE recvState[s] = "INVALID"
        <5>1. rq[s] = 0
          <6>1. rq[s] \in Nat /\ ~(rq[s] > 0)
            BY <1>t, <4>4 DEF SlotInv, RecvSlotOwned
          <6> QED BY <6>1
        <5>2. rq'[s] = 1
          BY <2>4, <4>4, <5>1 DEF krdma_post_recv, search_empty_recv_buf
        <5> QED BY <5>2 DEF WithAdapter
      <4> QED BY <4>1, <4>2, <4>3, <4>4 DEF WithAdapter
    <3>4. \A s, u \in RecvSlots : s # u => \E v \in {s, u} : WithAdapter(v)'
      BY <3>3
    <3>5. \A s \in RecvSlots :
            WithAdapter(s)' \/ \E u \in Receivers : Holding(u)' /\ rtrans'[u] = s
      BY <3>2, <3>3
    <3> QED BY <3>4, <3>5 DEF CreditInv, RecvCredit, WithAdapter
  <2>5. CASE received' = Append(received, [msg |-> recvBuf[Head(rcq).slot], ok |-> FALSE])
    <3>1. Head(rcq) \in Completion
      BY <1>t, <2>1, QueueTypes
    <3>2. [msg |-> recvBuf[Head(rcq).slot], ok |-> FALSE] \in [msg : Nat, ok : BOOLEAN]
      BY <3>1 DEF Completion, TypeOK
    <3>3. Len(received) + 1 \in DOMAIN received' /\ ~received'[Len(received) + 1].ok
      BY <1>t, <2>5, <3>2, AppendFacts
    <3> QED BY <3>3 DEF CreditInv, RecvCredit
  <2> QED BY <1>7, <2>4, <2>5 DEF RecvPoll
<1>8. ASSUME NEW t \in Receivers, RecvPolled(t) PROVE CreditInv'
  <2>1. /\ rpc[t] = "polled" /\ rpc' = [rpc EXCEPT ![t] = "output"]
        /\ recvState' = [recvState EXCEPT ![rtrans[t]] = "POLLED"]
        /\ UNCHANGED <<link, rtrans, rq, rcq, received>>
    BY <1>8 DEF RecvPolled, build_polled_recv_trans, SlotInv, recvHca, history
  <2>2. \A u \in Receivers : Holding(u) => Holding(u)' /\ rtrans'[u] = rtrans[u]
    BY <1>t, <2>1 DEF Holding
  <2>3. Holding(t)' /\ rtrans'[t] = rtrans[t]
    BY <2>1, <2>2 DEF Holding
  <2>4. \A s \in RecvSlots : recvState[s] = "INVALID" =>
          recvState'[s] = "INVALID" \/ \E u \in Receivers : Holding(u)' /\ rtrans'[u] = s
    BY <1>t, <2>1, <2>3
  <2>5. link' /\ NoRefillFailed' => link /\ NoRefillFailed
    BY <2>1 DEF NoRefillFailed
  <2>6. \A s \in RecvSlots : WithAdapter(s) => WithAdapter(s)'
    BY <2>1 DEF WithAdapter
  <2> QED BY <2>2, <2>4, <2>5, <2>6, CreditKept
<1>9. ASSUME NEW t \in Receivers, RecvOutput(t) PROVE CreditInv'
  <2>1. /\ rpc[t] = "output"
        /\ recvState' = [recvState EXCEPT ![rtrans[t]] = "INVALID"]
        /\ received' = Append(received, [msg |-> recvBuf[rtrans[t]], ok |-> TRUE])
        /\ UNCHANGED <<link, rq, rcq>>
    BY <1>9 DEF RecvOutput, build_krdma_recv_output, recvHca
  <2>2. \A u \in Receivers : Holding(u) => u = t
    BY <2>1, Alone DEF Holding
  <2>3. \A u \in Receivers : Holding(u) => recvState'[rtrans[u]] = "INVALID"
    BY <1>t, <2>1, <2>2
  <2>4. \A s \in RecvSlots : recvState[s] = "INVALID" => recvState'[s] = "INVALID"
    BY <1>t, <2>1
  <2>5. NoRefillFailed' => NoRefillFailed
    <3>1. [msg |-> recvBuf[rtrans[t]], ok |-> TRUE] \in [msg : Nat, ok : BOOLEAN]
      BY <1>t DEF TypeOK
    <3>2. /\ DOMAIN received' = DOMAIN received \cup {Len(received) + 1}
          /\ \A i \in DOMAIN received : received'[i] = received[i]
      BY <1>t, <2>1, <3>1, AppendFacts
    <3> QED BY <3>2 DEF NoRefillFailed
  <2>6. \A s \in RecvSlots : WithAdapter(s) => WithAdapter(s)'
    BY <2>1 DEF WithAdapter
  <2> QED BY <2>1, <2>3, <2>4, <2>5, <2>6, CreditKept
<1>10. CASE Transmit
  <2>1. /\ UNCHANGED <<link, recvState, rpc, rtrans, received>>
    BY <1>10 DEF Transmit
  <2>2. PICK s \in RecvSlots :
          /\ rq' = [rq EXCEPT ![s] = @ - 1]
          /\ rcq' = Append(rcq, [slot |-> s, status |-> "SUCCESS"])
    BY <1>10 DEF Transmit
  <2>3. [slot |-> s, status |-> "SUCCESS"] \in Completion
    BY DEF Completion
  <2>4. /\ DOMAIN rcq' = DOMAIN rcq \cup {Len(rcq) + 1}
        /\ \A i \in DOMAIN rcq : rcq'[i] = rcq[i]
        /\ rcq'[Len(rcq) + 1] = [slot |-> s, status |-> "SUCCESS"]
    BY <1>t, <2>2, <2>3, AppendFacts
  <2>5. WithAdapter(s)'
    BY <2>4 DEF WithAdapter
  <2>6. ASSUME NEW u \in RecvSlots, WithAdapter(u), u # s PROVE WithAdapter(u)'
    <3>1. rq'[u] = rq[u]
      BY <1>t, <2>2, <2>6
    <3> QED BY <2>4, <2>6, <3>1 DEF WithAdapter
  <2>7. \A u \in RecvSlots : WithAdapter(u) => WithAdapter(u)'
    BY <2>5, <2>6
  <2>8. \A u \in Receivers : Holding(u) => Holding(u)' /\ rtrans'[u] = rtrans[u]
    BY <2>1 DEF Holding
  <2>9. link' /\ NoRefillFailed' => link /\ NoRefillFailed
    BY <2>1 DEF NoRefillFailed
  <2> QED BY <2>1, <2>7, <2>8, <2>9, CreditKept
<1>11. CASE FlushRecv
  BY <1>11 DEF FlushRecv, CreditInv, RecvCredit
<1> QED
  BY <1>2, <1>3, <1>4, <1>5, <1>6, <1>7, <1>8, <1>9, <1>10, <1>11
     DEF Next, RecvStep, Fabric
-----------------------------------------------------------------------------
(* The theorems.                                                           *)

\* The inductive invariant holds at the start.
LEMMA InvariantInit == Init => IInv
<1> SUFFICES ASSUME Init PROVE IInv
  OBVIOUS
<1>1. TypeOK
  BY TypeInit
<1>2. /\ Len(sq) = 0 /\ Len(unacked) = 0 /\ Len(scq) = 0 /\ Len(rcq) = 0 /\ Len(received) = 0
      /\ DOMAIN sq = {} /\ DOMAIN unacked = {} /\ DOMAIN scq = {}
      /\ DOMAIN rcq = {} /\ DOMAIN received = {}
  BY DEF Init
<1>3. ~\E t \in Receivers : Holding(t)
  BY DEF Init, Holding
<1>4. LockInv
  BY DEF Init, LockInv
<1>5. SlotInv
  BY <1>2, <1>3 DEF Init, SlotInv, RecvSlotOwned
<1>6. SendInv
  BY <1>2 DEF Init, SendInv, AckedArrived
<1>7. LinkInv
  BY <1>2 DEF Init, LinkInv
<1>8. OrderInv
  BY <1>2, <1>3 DEF Init, OrderInv, InOrder, Taken
<1>9. BugInv
  BY DEF Init, BugInv
<1>10. CreditInv
  BY <1>2 DEF Init, CreditInv, RecvCredit
<1> QED
  BY <1>1, <1>4, <1>5, <1>6, <1>7, <1>8, <1>9, <1>10 DEF IInv

\* Every reachable state satisfies the inductive invariant (krdma.c:875-1302).
THEOREM Invariant == Spec => []IInv
<1>1. IInv /\ [Next]_vars => IInv'
  BY TypeStep, LockStep, SlotStep, SendInvStep, LinkStep, OrderStep, BugStep, CreditStep
     DEF IInv
<1> QED
  BY InvariantInit, <1>1, PTL DEF Spec

\* A receive buffer has one owner at a time, whatever the number of receivers and slots
\* (krdma.c:1126-1144, 1186-1225): krdma_post_recv never posts a slot a second time and
\* never one whose message waits in the completion queue or is being copied out.
THEOREM SlotsOwned == Spec => []RecvSlotOwned
<1>1. IInv => RecvSlotOwned
  BY DEF IInv, SlotInv
<1> QED
  BY Invariant, <1>1, PTL

\* The messages krdma_receive takes are those sent, in order, none lost, repeated or
\* with the contents of another (krdma.c:1151-1232).
THEOREM Ordered == Spec => []InOrder
<1>1. IInv => InOrder
  BY DEF IInv, OrderInv
<1> QED
  BY Invariant, <1>1, PTL

\* A krdma_send that reports success has its message in the memory of the other end
\* (krdma.c:1275-1301), although a completion does not say which send it belongs to.
THEOREM Acknowledged == Spec => []AckedArrived
<1>1. IInv => AckedArrived
  BY DEF IInv, SendInv
<1> QED
  BY Invariant, <1>1, PTL

\* No krdma_send meets a BUG() before some krdma_send has returned an error
\* (krdma.c:1046, 1285, 1293).
THEOREM BugNeedsError == Spec => []BugOnlyAfterError
<1>1. IInv => BugOnlyAfterError
  BY DEF IInv, BugInv, BugOnlyAfterError
<1> QED
  BY Invariant, <1>1, PTL

\* While the link is up and no refill has failed, all the receive slots but at most one
\* are posted or hold a message that has arrived (krdma.c:937-940, 1134-1141).
THEOREM Credit == Spec => []RecvCredit
<1>1. IInv => RecvCredit
  BY DEF IInv, CreditInv
<1> QED
  BY Invariant, <1>1, PTL
-----------------------------------------------------------------------------
(* The send buffers.                                                       *)

\* A slot in the send queue is POSTED, so no sender can choose it.
SendSlotInv == \A i \in DOMAIN sq : sendState[sq[i]] = "POSTED"

\* Every step keeps the slots of the send queue POSTED.
LEMMA SendSlotStep == IInv /\ SendSlotInv /\ [Next]_vars => SendSlotInv'
<1> SUFFICES ASSUME TypeOK, LockInv, SendInv, SendSlotInv, [Next]_vars PROVE SendSlotInv'
  BY DEF IInv
<1>t. /\ sendState \in [SendSlots -> {"INVALID", "POSTED"}] /\ sq \in Seq(SendSlots)
      /\ \A i \in DOMAIN sq : sq[i] \in SendSlots
  BY QueueTypes DEF TypeOK
<1>1. ASSUME UNCHANGED sendState, sq # <<>>, sq' = Tail(sq) PROVE SendSlotInv'
  <2>1. \A i \in DOMAIN sq' : i + 1 \in DOMAIN sq /\ sq'[i] = sq[i + 1]
    BY <1>t, <1>1, TailFacts
  <2> QED BY <1>1, <2>1 DEF SendSlotInv
<1>2. ASSUME NEW t \in Senders, SendPost(t) PROVE SendSlotInv'
  <2>1. PICK s \in SendSlots :
          /\ sendState' = [sendState EXCEPT ![s] = "POSTED"]
          /\ sq' = Append(sq, s)
    BY <1>2 DEF SendPost
  <2>2. /\ DOMAIN sq' = DOMAIN sq \cup {Len(sq) + 1} /\ sq'[Len(sq) + 1] = s
        /\ \A i \in DOMAIN sq : sq'[i] = sq[i]
    BY <1>t, <2>1, AppendFacts
  <2> QED BY <1>t, <2>1, <2>2 DEF SendSlotInv
<1>3. ASSUME NEW t \in Senders, SendPostFails(t) PROVE SendSlotInv'
  <2>1. UNCHANGED sq /\ \E s \in SendSlots : sendState' = [sendState EXCEPT ![s] = "POSTED"]
    BY <1>3 DEF SendPostFails, sendHca
  <2> QED BY <1>t, <2>1 DEF SendSlotInv
<1>4. ASSUME NEW t \in Senders, SendPoll(t) PROVE SendSlotInv'
  <2>1. Head(scq).status = "SUCCESS" => sq = <<>>
    <3>1. Len(sq) + Len(unacked) + Len(scq) <= 1 /\ scq # <<>>
      BY <1>4 DEF SendPoll, SendInv
    <3> QED BY <3>1, SendLengths
  <2>2. UNCHANGED sq /\ (UNCHANGED sendState \/ sq = <<>>)
    <3>1. Head(scq).status \in {"SUCCESS", "ERR", "FLUSH"}
      <4>1. Head(scq) \in [status : {"SUCCESS"} \cup ErrStatus, msg : Nat]
        BY <1>4, QueueTypes DEF SendPoll, TypeOK
      <4> QED BY <4>1 DEF ErrStatus
    <3> QED BY <1>4, <2>1, <3>1 DEF SendPoll, SendError
  <2> QED BY <2>2 DEF SendSlotInv
<1>5. ASSUME NEW t \in Senders,
             SendCall(t) \/ SendOverflow(t) \/ SendCheck(t) \/ SendPollEmpty(t)
      PROVE  SendSlotInv'
  BY <1>5 DEF SendCall, SendOverflow, SendCheck, SendError, SendPollEmpty, sendHca, SendSlotInv
<1>6. ASSUME NEW t \in Receivers, RecvCall(t) \/ RecvStep(t) PROVE SendSlotInv'
  BY <1>6, RecvFrame, RecvSideFrame DEF SendSlotInv
<1>7. CASE Transmit \/ FlushSend
  <2>1. UNCHANGED sendState
    BY <1>7, RecvFrame DEF Fabric
  <2>2. UNCHANGED sq \/ (sq # <<>> /\ sq' = Tail(sq))
    BY <1>7 DEF Transmit, FlushSend
  <2> QED BY <1>1, <2>1, <2>2 DEF SendSlotInv
<1>8. CASE \/ SendComplete \/ FlushRecv \/ LinkDown \/ UNCHANGED vars
           \/ \E e \in Ends : Disconnected(e)
  <2>1. UNCHANGED sendState
    BY <1>8, RecvFrame DEF Fabric
  <2>2. UNCHANGED sq
    BY <1>8 DEF SendComplete, FlushRecv, LinkDown, Disconnected, sendHca, vars
  <2> QED BY <2>1, <2>2 DEF SendSlotInv
<1> QED
  BY <1>2, <1>3, <1>4, <1>5, <1>6, <1>7, <1>8 DEF Next, SendStep, Fabric

\* A send buffer is not written while the adapter may still read it, however many
\* senders there are and whatever sends have been abandoned (krdma.c:1252-1280).
THEOREM BuffersStable == Spec => SendBufStable
<1>1. Init => SendSlotInv
  BY DEF Init, SendSlotInv
<1>2. IInv /\ SendSlotInv /\ [Next]_vars =>
        [\A i \in DOMAIN sq : sendBuf'[sq[i]] = sendBuf[sq[i]]]_vars
  <2> SUFFICES ASSUME IInv, SendSlotInv, Next, NEW i \in DOMAIN sq
               PROVE  sendBuf'[sq[i]] = sendBuf[sq[i]]
    OBVIOUS
  <2>t. sendBuf \in [SendSlots -> Nat] /\ sq[i] \in SendSlots /\ sendState[sq[i]] = "POSTED"
    BY QueueTypes DEF IInv, TypeOK, SendSlotInv
  <2>1. ASSUME NEW t \in Senders, SendPost(t) \/ SendPostFails(t)
        PROVE  sendBuf'[sq[i]] = sendBuf[sq[i]]
    <3>1. PICK s \in SendSlots :
            search_empty_send_buf(s) /\ sendBuf' = [sendBuf EXCEPT ![s] = nsent + 1]
      BY <2>1 DEF SendPost, SendPostFails
    <3>2. s # sq[i]
      BY <2>t, <3>1 DEF search_empty_send_buf, FreeSend
    <3> QED BY <2>t, <3>1, <3>2
  <2>2. ASSUME NEW t \in Senders,
               SendCall(t) \/ SendOverflow(t) \/ SendCheck(t) \/ SendPollEmpty(t) \/ SendPoll(t)
        PROVE  UNCHANGED sendBuf
    BY <2>2 DEF SendCall, SendOverflow, SendCheck, SendPollEmpty, SendPoll
  <2>3. ASSUME \/ \E t \in Receivers : RecvCall(t) \/ RecvStep(t)
               \/ Fabric \/ LinkDown \/ \E e \in Ends : Disconnected(e)
        PROVE  UNCHANGED sendBuf
    BY <2>3, RecvFrame
  <2> QED BY <2>1, <2>2, <2>3 DEF Next, SendStep
<1> QED
  BY Invariant, <1>1, <1>2, SendSlotStep, PTL DEF Spec, SendBufStable

=============================================================================
