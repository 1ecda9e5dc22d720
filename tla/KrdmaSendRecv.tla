---------------------------- MODULE KrdmaSendRecv ----------------------------
(***************************************************************************)
(* The send/receive data path of krdma.c, one direction of one connected   *)
(* queue pair: threads that call krdma_send on the control block of one    *)
(* end, threads that call krdma_receive on that of the other end, the two  *)
(* host adapters between them, and the connection manager that reports a   *)
(* disconnect to each end in its own time.                                 *)
(*                                                                         *)
(* A step of a thread is what it does between two points where another     *)
(* actor can matter: taking the mutex and posting, reading cb->state,      *)
(* polling the completion queue, reading the buffer of a completed slot.   *)
(* Message contents are abstracted to the order of posting: the message    *)
(* of the n-th successful ib_post_send is n.                               *)
(***************************************************************************)
EXTENDS Naturals, Sequences

CONSTANTS
  Senders,      \* threads that call krdma_send
  Receivers,    \* threads that call krdma_receive
  NoThread,     \* the holder of a free mutex
  SendDepth,    \* RDMA_SEND_QUEUE_DEPTH, the slots of send_trans_buf
  RecvDepth,    \* RDMA_RECV_QUEUE_DEPTH, the slots of recv_trans_buf
  MaxRetry,     \* the empty polls krdma_receive makes before -EAGAIN, less one
  MaxMsgs       \* bound on the messages posted

ASSUME ThreadAssumption == NoThread \notin Senders \cup Receivers
ASSUME DepthAssumption  == SendDepth \in Nat \ {0} /\ RecvDepth \in Nat \ {0}
ASSUME BoundAssumption  == MaxRetry \in Nat /\ MaxMsgs \in Nat

SendSlots == 0 .. SendDepth - 1
RecvSlots == 0 .. RecvDepth - 1
Ends      == {"sender", "receiver"}

VARIABLES
  cbState,      \* cb->state of each end
  link,         \* the queue pairs are connected (the fabric's view)
  slock,        \* holder of the sending cb's slock
  sendState,    \* send_trans_buf[slot].state
  sendBuf,      \* the message in send_trans_buf[slot].send_buf, 0 if none yet
  lastSchedule, \* the static last_schedule of search_empty_send_buf, which other control
                \* blocks do not touch here
  spc,          \* where each sender is in krdma_send
  smsg,         \* the message each sender has posted
  sq,           \* send queue: slots posted and not transmitted
  unacked,      \* messages transmitted and not acknowledged to the sending adapter
  scq,          \* send completion queue
  rlock,        \* holder of the receiving cb's rlock
  recvState,    \* recv_trans_buf[slot].state
  recvBuf,      \* the message in recv_trans_buf[slot].recv_buf, 0 if none yet
  rpc,          \* where each receiver is in krdma_receive
  rtrans,       \* the slot each receiver has taken from the completion queue
  retry,        \* retry_cnt of each receiver
  rq,           \* how many times each slot is posted in the receive queue
  rcq,          \* receive completion queue
  nsent,        \* successful ib_post_sends
  narrived,     \* messages the receiving adapter has stored
  received,     \* completions taken by receivers, and whether the message was returned
  acked,        \* messages whose krdma_send returned success
  sendFailed    \* some krdma_send has returned an error

sendVars == <<slock, sendState, sendBuf, lastSchedule, spc, smsg>>
sendHca  == <<sq, unacked, scq>>
recvVars == <<rlock, recvState, recvBuf, rpc, rtrans, retry>>
recvHca  == <<rq, rcq>>
history  == <<nsent, narrived, received, acked, sendFailed>>
vars     == <<cbState, link, sendVars, sendHca, recvVars, recvHca, history>>

SlotState == {"INVALID", "POSTED", "POLLED"}
ErrStatus == {"ERR", "FLUSH"}

-----------------------------------------------------------------------------
(* krdma_init_cb has posted every receive slot and the connection is up.   *)

Init ==
  /\ cbState = [e \in Ends |-> "CONNECTED"]
  /\ link = TRUE
  /\ slock = NoThread
  /\ sendState = [s \in SendSlots |-> "INVALID"]
  /\ sendBuf = [s \in SendSlots |-> 0]
  /\ lastSchedule = 0
  /\ spc = [t \in Senders |-> "idle"]
  /\ smsg = [t \in Senders |-> 0]
  /\ sq = <<>> /\ unacked = <<>> /\ scq = <<>>
  /\ rlock = NoThread
  /\ recvState = [s \in RecvSlots |-> "POSTED"]
  /\ recvBuf = [s \in RecvSlots |-> 0]
  /\ rpc = [t \in Receivers |-> "idle"]
  /\ rtrans = [t \in Receivers |-> 0]
  /\ retry = [t \in Receivers |-> 0]
  /\ rq = [s \in RecvSlots |-> 1]
  /\ rcq = <<>>
  /\ nsent = 0 /\ narrived = 0
  /\ received = <<>>
  /\ acked = {}
  /\ sendFailed = FALSE

-----------------------------------------------------------------------------
(* krdma_send.                                                             *)

\* The caller reaches mutex_lock(&cb->slock).
SendCall(t) ==
  /\ spc[t] = "idle"
  /\ nsent < MaxMsgs
  /\ spc' = [spc EXCEPT ![t] = "lock"]
  /\ UNCHANGED <<cbState, link, slock, sendState, sendBuf, lastSchedule, smsg,
                 sendHca, recvVars, recvHca, history>>

\* The slots search_empty_send_buf can return, and how far it looks to reach s.
FreeSend == {s \in SendSlots : sendState[s] = "INVALID"}
SearchDistance(s) == (s + SendDepth - ((lastSchedule + 1) % SendDepth)) % SendDepth

search_empty_send_buf(s) ==
  /\ s \in FreeSend
  /\ \A u \in FreeSend : SearchDistance(s) <= SearchDistance(u)

\* The mutex is taken, a slot is filled and ib_post_send accepts it.
SendPost(t) ==
  /\ spc[t] = "lock" /\ slock = NoThread
  /\ nsent < MaxMsgs
  /\ \E s \in SendSlots :
       /\ search_empty_send_buf(s)
       /\ lastSchedule' = s
       /\ sendState' = [sendState EXCEPT ![s] = "POSTED"]
       /\ sendBuf' = [sendBuf EXCEPT ![s] = nsent + 1]
       /\ sq' = Append(sq, s)
  /\ nsent' = nsent + 1
  /\ smsg' = [smsg EXCEPT ![t] = nsent + 1]
  /\ slock' = t
  /\ spc' = [spc EXCEPT ![t] = "check"]
  /\ UNCHANGED <<cbState, link, unacked, scq, recvVars, recvHca,
                 narrived, received, acked, sendFailed>>

\* ib_post_send refuses: the error is returned, the slot stays POSTED.
SendPostFails(t) ==
  /\ spc[t] = "lock" /\ slock = NoThread
  /\ \E s \in SendSlots :
       /\ search_empty_send_buf(s)
       /\ lastSchedule' = s
       /\ sendState' = [sendState EXCEPT ![s] = "POSTED"]
       /\ sendBuf' = [sendBuf EXCEPT ![s] = nsent + 1]
  /\ spc' = [spc EXCEPT ![t] = "idle"]
  /\ sendFailed' = TRUE
  /\ UNCHANGED <<cbState, link, slock, smsg, sendHca, recvVars, recvHca,
                 nsent, narrived, received, acked>>

\* No slot is INVALID: BUG() kills the thread, which still holds slock.
SendOverflow(t) ==
  /\ spc[t] = "lock" /\ slock = NoThread
  /\ FreeSend = {}
  /\ lastSchedule' = (lastSchedule + 1) % SendDepth
  /\ slock' = t
  /\ spc' = [spc EXCEPT ![t] = "bug"]
  /\ UNCHANGED <<cbState, link, sendState, sendBuf, smsg,
                 sendHca, recvVars, recvHca, history>>

\* Faulty variant: the slot is released although the adapter may still read it.
SendError_Releases(t) ==
  /\ slock' = NoThread
  /\ spc' = [spc EXCEPT ![t] = "idle"]
  /\ sendFailed' = TRUE
  /\ sendState' = [s \in SendSlots |-> "INVALID"]
  /\ UNCHANGED acked

\* Leaving krdma_send with an error; the slot that was posted is not released.
SendError(t) ==
  /\ slock' = NoThread
  /\ spc' = [spc EXCEPT ![t] = "idle"]
  /\ sendFailed' = TRUE
  /\ UNCHANGED <<sendState, acked>>

\* The first POSTED slot, which is the one build_krdma_send_output releases.
search_send_buf(s) ==
  /\ sendState[s] = "POSTED"
  /\ \A u \in SendSlots : sendState[u] = "POSTED" => s <= u

\* krdma_poll at repoll: the state of the cb decides whether to go on.
SendCheck(t) ==
  /\ spc[t] = "check"
  /\ IF cbState["sender"] = "DISCONNECTED"
       THEN SendError(t)
       ELSE /\ spc' = [spc EXCEPT ![t] = "poll"]
            /\ UNCHANGED <<slock, sendState, acked, sendFailed>>
  /\ UNCHANGED <<cbState, link, sendBuf, lastSchedule, smsg, sendHca,
                 recvVars, recvHca, nsent, narrived, received>>

\* Faulty variant: the next poll does not go through the state check.
SendPollEmpty_NoCheck(t) ==
  /\ spc[t] = "poll" /\ scq = <<>>
  /\ UNCHANGED vars

\* krdma_poll finds the send completion queue empty and polls again.
SendPollEmpty(t) ==
  /\ spc[t] = "poll" /\ scq = <<>>
  /\ spc' = [spc EXCEPT ![t] = "check"]
  /\ UNCHANGED <<cbState, link, slock, sendState, sendBuf, lastSchedule, smsg,
                 sendHca, recvVars, recvHca, history>>

\* Faulty variant: the status of the completion is not looked at.
SendPoll_AnyStatus(t) ==
  /\ spc[t] = "poll" /\ scq # <<>>
  /\ scq' = Tail(scq)
  /\ \E s \in SendSlots :
       /\ search_send_buf(s)
       /\ sendState' = [sendState EXCEPT ![s] = "INVALID"]
  /\ slock' = NoThread
  /\ spc' = [spc EXCEPT ![t] = "idle"]
  /\ acked' = acked \cup {smsg[t]}
  /\ UNCHANGED <<cbState, link, sendBuf, lastSchedule, smsg, sq, unacked, sendFailed,
                 recvVars, recvHca, nsent, narrived, received>>

\* Faulty variant: a completed send does not release its slot.
SendPoll_KeepsSlot(t) ==
  /\ spc[t] = "poll" /\ scq # <<>> /\ Head(scq).status = "SUCCESS"
  /\ scq' = Tail(scq)
  /\ slock' = NoThread
  /\ spc' = [spc EXCEPT ![t] = "idle"]
  /\ acked' = acked \cup {smsg[t]}
  /\ UNCHANGED <<cbState, link, sendState, sendBuf, lastSchedule, smsg, sq, unacked,
                 sendFailed, recvVars, recvHca, nsent, narrived, received>>

\* krdma_poll takes a completion: a flushed one is skipped without another look
\* at the state, another error is returned, a success ends the send (and is a
\* BUG() if no slot is POSTED).
SendPoll(t) ==
  /\ spc[t] = "poll" /\ scq # <<>>
  /\ scq' = Tail(scq)
  /\ CASE Head(scq).status = "FLUSH" ->
            UNCHANGED <<slock, sendState, spc, acked, sendFailed>>
       [] Head(scq).status = "ERR" ->
            SendError(t)
       [] Head(scq).status = "SUCCESS" ->
            /\ slock' = NoThread
            /\ IF \E s \in SendSlots : sendState[s] = "POSTED"
                 THEN /\ \E s \in SendSlots :
                           /\ search_send_buf(s)
                           /\ sendState' = [sendState EXCEPT ![s] = "INVALID"]
                      /\ spc' = [spc EXCEPT ![t] = "idle"]
                      /\ acked' = acked \cup {smsg[t]}
                 ELSE /\ spc' = [spc EXCEPT ![t] = "bug"]
                      /\ UNCHANGED <<sendState, acked>>
            /\ UNCHANGED sendFailed
  /\ UNCHANGED <<cbState, link, sendBuf, lastSchedule, smsg, sq, unacked,
                 recvVars, recvHca, nsent, narrived, received>>

-----------------------------------------------------------------------------
(* krdma_receive.                                                          *)

\* The caller reaches mutex_lock(&cb->rlock).
RecvCall(t) ==
  /\ rpc[t] = "idle"
  /\ rpc' = [rpc EXCEPT ![t] = "lock"]
  /\ retry' = [retry EXCEPT ![t] = 0]
  /\ UNCHANGED <<cbState, link, sendVars, sendHca, rlock, recvState, recvBuf,
                 rtrans, recvHca, history>>

\* search_recv_buf for the txid that matches every message.
search_recv_buf(s, state) ==
  /\ recvState[s] = state
  /\ \A u \in RecvSlots : recvState[u] = state => s <= u

\* rlock is taken; a slot already POLLED would be returned at once, otherwise
\* krdma_poll reads the state of the cb.
RecvCheck(t) ==
  /\ rpc[t] = "lock" /\ rlock = NoThread
  /\ IF \E s \in RecvSlots : recvState[s] = "POLLED"
       THEN /\ \E s \in RecvSlots :
                 search_recv_buf(s, "POLLED") /\ rtrans' = [rtrans EXCEPT ![t] = s]
            /\ rlock' = t
            /\ rpc' = [rpc EXCEPT ![t] = "output"]
       ELSE IF cbState["receiver"] = "DISCONNECTED"
       THEN /\ rpc' = [rpc EXCEPT ![t] = "idle"]
            /\ UNCHANGED <<rlock, rtrans>>
       ELSE /\ rlock' = t
            /\ rpc' = [rpc EXCEPT ![t] = "poll"]
            /\ UNCHANGED rtrans
  /\ UNCHANGED <<cbState, link, sendVars, sendHca, recvState, recvBuf, retry,
                 recvHca, history>>

\* Faulty variant: one empty poll too many.
RecvPollEmpty_OneMore(t) ==
  /\ rpc[t] = "poll" /\ rcq = <<>>
  /\ rlock' = NoThread
  /\ retry' = [retry EXCEPT ![t] = IF @ <= MaxRetry THEN @ + 1 ELSE 0]
  /\ rpc' = [rpc EXCEPT ![t] = IF retry[t] <= MaxRetry THEN "lock" ELSE "idle"]
  /\ UNCHANGED <<cbState, link, sendVars, sendHca, recvState, recvBuf, rtrans,
                 recvHca, history>>

\* Faulty variant: the empty polls are not counted.
RecvPollEmpty_Blocking(t) ==
  /\ rpc[t] = "poll" /\ rcq = <<>>
  /\ rlock' = NoThread
  /\ rpc' = [rpc EXCEPT ![t] = "lock"]
  /\ UNCHANGED <<cbState, link, sendVars, sendHca, recvState, recvBuf, rtrans, retry,
                 recvHca, history>>

\* The queue is empty: rlock is released for a while, and the call either
\* starts over or gives up with -EAGAIN.
RecvPollEmpty(t) ==
  /\ rpc[t] = "poll" /\ rcq = <<>>
  /\ rlock' = NoThread
  /\ retry' = [retry EXCEPT ![t] = IF @ < MaxRetry THEN @ + 1 ELSE 0]
  /\ rpc' = [rpc EXCEPT ![t] = IF retry[t] < MaxRetry THEN "lock" ELSE "idle"]
  /\ UNCHANGED <<cbState, link, sendVars, sendHca, recvState, recvBuf, rtrans,
                 recvHca, history>>

\* A completion in error: a flushed one is skipped, another one is returned.
RecvPollError(t) ==
  /\ rpc[t] = "poll" /\ rcq # <<>> /\ Head(rcq).status \in ErrStatus
  /\ rcq' = Tail(rcq)
  /\ IF Head(rcq).status = "FLUSH"
       THEN UNCHANGED <<rlock, rpc>>
       ELSE /\ rlock' = NoThread
            /\ rpc' = [rpc EXCEPT ![t] = "idle"]
  /\ UNCHANGED <<cbState, link, sendVars, sendHca, recvState, recvBuf, rtrans,
                 retry, rq, history>>

\* Faulty variant: a slot counts as free when the adapter does not have it.
search_empty_recv_buf_NotPosted == {s \in RecvSlots : rq[s] = 0}

\* The slots search_empty_recv_buf finds, one after another.
search_empty_recv_buf == {s \in RecvSlots : recvState[s] = "INVALID"}

\* Faulty variant: the slots that are posted are not marked.
krdma_post_recv_Unmarked(failed) ==
  LET reached == {s \in search_empty_recv_buf : \A f \in failed : s <= f}
  IN /\ rq' = [s \in RecvSlots |-> IF s \in reached \ failed THEN rq[s] + 1 ELSE rq[s]]
     /\ UNCHANGED recvState

\* Faulty variant: the receive queue is not refilled.
krdma_post_recv_None(failed) == UNCHANGED <<recvState, rq>>

\* krdma_post_recv posts every free slot in turn.  failed holds the slot at
\* which ib_post_recv returned an error, if any: it is marked but not posted.
krdma_post_recv(failed) ==
  LET reached == {s \in search_empty_recv_buf : \A f \in failed : s <= f}
  IN /\ recvState' = [s \in RecvSlots |-> IF s \in reached THEN "POSTED" ELSE recvState[s]]
     /\ rq' = [s \in RecvSlots |-> IF s \in reached \ failed THEN rq[s] + 1 ELSE rq[s]]

\* A message has arrived: krdma_poll refills the receive queue and returns the
\* slot, or returns an error, and the message with it, if the refill fails.
RecvPoll(t) ==
  /\ rpc[t] = "poll" /\ rcq # <<>> /\ Head(rcq).status = "SUCCESS"
  /\ rcq' = Tail(rcq)
  /\ \/ /\ krdma_post_recv({})
        /\ rtrans' = [rtrans EXCEPT ![t] = Head(rcq).slot]
        /\ rpc' = [rpc EXCEPT ![t] = "polled"]
        /\ UNCHANGED <<rlock, received>>
     \/ /\ \E f \in search_empty_recv_buf : krdma_post_recv({f})
        /\ received' = Append(received, [msg |-> recvBuf[Head(rcq).slot], ok |-> FALSE])
        /\ rlock' = NoThread
        /\ rpc' = [rpc EXCEPT ![t] = "idle"]
        /\ UNCHANGED rtrans
  /\ UNCHANGED <<cbState, link, sendVars, sendHca, recvBuf, retry,
                 nsent, narrived, acked, sendFailed>>

build_polled_recv_trans(s) == recvState' = [recvState EXCEPT ![s] = "POLLED"]

\* The slot is marked POLLED, unless it was not POSTED: then BUG().
RecvPolled(t) ==
  /\ rpc[t] = "polled"
  /\ IF recvState[rtrans[t]] = "POSTED"
       THEN /\ build_polled_recv_trans(rtrans[t])
            /\ rpc' = [rpc EXCEPT ![t] = "output"]
            /\ UNCHANGED rlock
       ELSE /\ rlock' = NoThread
            /\ rpc' = [rpc EXCEPT ![t] = "bug"]
            /\ UNCHANGED recvState
  /\ UNCHANGED <<cbState, link, sendVars, sendHca, recvBuf, rtrans, retry,
                 recvHca, history>>

\* Faulty variant: the slot is left POLLED.
build_krdma_recv_output_KeepsSlot(s) ==
  /\ received' = Append(received, [msg |-> recvBuf[s], ok |-> TRUE])
  /\ UNCHANGED recvState

\* The buffer is copied out and the slot is free.
build_krdma_recv_output(s) ==
  /\ received' = Append(received, [msg |-> recvBuf[s], ok |-> TRUE])
  /\ recvState' = [recvState EXCEPT ![s] = "INVALID"]

\* The call returns the message of its slot, and its local variables are gone.
RecvOutput(t) ==
  /\ rpc[t] = "output"
  /\ build_krdma_recv_output(rtrans[t])
  /\ rlock' = NoThread
  /\ rpc' = [rpc EXCEPT ![t] = "idle"]
  /\ rtrans' = [rtrans EXCEPT ![t] = 0] /\ retry' = [retry EXCEPT ![t] = 0]
  /\ UNCHANGED <<cbState, link, sendVars, sendHca, recvBuf, recvHca,
                 nsent, narrived, acked, sendFailed>>

-----------------------------------------------------------------------------
(* The adapters, as far as krdma.c relies on them.  A reliable connection  *)
(* carries the messages in order, stores each in some posted receive slot  *)
(* and waits while there is none (rnr_retry_count 7 retries for ever).     *)
(* Once the link is down nothing is carried any more and what is still     *)
(* posted completes with an error or as flushed.                           *)

Transmit ==
  /\ link /\ sq # <<>>
  /\ \E s \in RecvSlots :
       /\ rq[s] > 0
       /\ rq' = [rq EXCEPT ![s] = @ - 1]
       /\ recvBuf' = [recvBuf EXCEPT ![s] = sendBuf[Head(sq)]]
       /\ rcq' = Append(rcq, [slot |-> s, status |-> "SUCCESS"])
  /\ sq' = Tail(sq)
  /\ unacked' = Append(unacked, sendBuf[Head(sq)])
  /\ narrived' = narrived + 1
  /\ UNCHANGED <<cbState, link, sendVars, scq, rlock, recvState, rpc, rtrans, retry,
                 nsent, received, acked, sendFailed>>

\* msg is the message the completion is about; the code does not see it.
SendComplete ==
  /\ link /\ unacked # <<>>
  /\ unacked' = Tail(unacked)
  /\ scq' = Append(scq, [status |-> "SUCCESS", msg |-> Head(unacked)])
  /\ UNCHANGED <<cbState, link, sendVars, sq, recvVars, recvHca, history>>

LinkDown ==
  /\ link
  /\ link' = FALSE
  /\ UNCHANGED <<cbState, sendVars, sendHca, recvVars, recvHca, history>>

FlushSend ==
  /\ ~link
  /\ \E status \in ErrStatus :
       \/ /\ unacked # <<>>
          /\ unacked' = Tail(unacked)
          /\ scq' = Append(scq, [status |-> status, msg |-> Head(unacked)])
          /\ UNCHANGED sq
       \/ /\ unacked = <<>> /\ sq # <<>>
          /\ sq' = Tail(sq)
          /\ scq' = Append(scq, [status |-> status, msg |-> sendBuf[Head(sq)]])
          /\ UNCHANGED unacked
  /\ UNCHANGED <<cbState, link, sendVars, recvVars, recvHca, history>>

FlushRecv ==
  /\ ~link
  /\ \E s \in RecvSlots, status \in ErrStatus :
       /\ rq[s] > 0
       /\ rq' = [rq EXCEPT ![s] = @ - 1]
       /\ rcq' = Append(rcq, [slot |-> s, status |-> status])
  /\ UNCHANGED <<cbState, link, sendVars, sendHca, recvVars, history>>

\* krdma_cma_event_handler, RDMA_CM_EVENT_DISCONNECTED, at one end.
Disconnected(e) ==
  /\ ~link /\ cbState[e] = "CONNECTED"
  /\ cbState' = [cbState EXCEPT ![e] = "DISCONNECTED"]
  /\ UNCHANGED <<link, sendVars, sendHca, recvVars, recvHca, history>>

-----------------------------------------------------------------------------

SendStep(t) ==
  \/ SendPost(t) \/ SendPostFails(t) \/ SendOverflow(t)
  \/ SendCheck(t) \/ SendPollEmpty(t) \/ SendPoll(t)

RecvStep(t) ==
  \/ RecvCheck(t) \/ RecvPollEmpty(t) \/ RecvPollError(t)
  \/ RecvPoll(t) \/ RecvPolled(t) \/ RecvOutput(t)

Fabric == Transmit \/ SendComplete \/ FlushSend \/ FlushRecv

Next ==
  \/ \E t \in Senders : SendCall(t) \/ SendStep(t)
  \/ \E t \in Receivers : RecvCall(t) \/ RecvStep(t)
  \/ Fabric
  \/ LinkDown
  \/ \E e \in Ends : Disconnected(e)

Spec == Init /\ [][Next]_vars

\* Every thread inside a call goes on.  The kernel's mutex hands over to its
\* waiters, hence the strong fairness on the step that takes rlock.  The
\* adapters make progress, the connection manager reports a broken connection,
\* and the receiving application keeps calling krdma_receive.
Fairness ==
  /\ \A t \in Senders : WF_vars(SendCheck(t) \/ SendPollEmpty(t) \/ SendPoll(t))
  /\ \A t \in Receivers :
       /\ SF_vars(RecvCheck(t))
       /\ WF_vars(\/ RecvCall(t) \/ RecvPollEmpty(t) \/ RecvPollError(t)
                  \/ RecvPoll(t) \/ RecvPolled(t) \/ RecvOutput(t))
  /\ WF_vars(Transmit) /\ WF_vars(SendComplete)
  /\ WF_vars(FlushSend) /\ WF_vars(FlushRecv)
  /\ \A e \in Ends : WF_vars(Disconnected(e))

FairSpec == Spec /\ Fairness

-----------------------------------------------------------------------------
(* Properties.                                                             *)

Message    == 0 .. MaxMsgs
Completion == [slot : RecvSlots, status : {"SUCCESS"} \cup ErrStatus]

\* The variables have their types; the retry count stays within its bound.
TypeOK ==
  /\ cbState \in [Ends -> {"CONNECTED", "DISCONNECTED"}]
  /\ link \in BOOLEAN
  /\ slock \in Senders \cup {NoThread}
  /\ sendState \in [SendSlots -> {"INVALID", "POSTED"}]
  /\ sendBuf \in [SendSlots -> Nat]
  /\ lastSchedule \in SendSlots
  /\ spc \in [Senders -> {"idle", "lock", "check", "poll", "bug"}]
  /\ smsg \in [Senders -> Message]
  /\ sq \in Seq(SendSlots)
  /\ unacked \in Seq(Nat)
  /\ scq \in Seq([status : {"SUCCESS"} \cup ErrStatus, msg : Nat])
  /\ rlock \in Receivers \cup {NoThread}
  /\ recvState \in [RecvSlots -> SlotState]
  /\ recvBuf \in [RecvSlots -> Nat]
  /\ rpc \in [Receivers -> {"idle", "lock", "poll", "polled", "output", "bug"}]
  /\ rtrans \in [Receivers -> RecvSlots]
  /\ retry \in [Receivers -> 0 .. MaxRetry]
  /\ rq \in [RecvSlots -> Nat]
  /\ rcq \in Seq(Completion)
  /\ nsent \in Message /\ narrived \in Nat
  /\ received \in Seq([msg : Nat, ok : BOOLEAN])
  /\ acked \in SUBSET Message
  /\ sendFailed \in BOOLEAN

\* The thread is between the poll that gave it a slot and the copy out of it.
Holding(t) == rpc[t] \in {"polled", "output"}

\* A receive buffer has one owner at a time (krdma.c:1126-1144, 1186-1225): a slot
\* posted to the adapter is posted once and marked POSTED, it is not also waiting in
\* the completion queue, where no slot appears twice, and neither the adapter nor
\* the queue has a slot whose message a receiver is still copying out.
RecvSlotOwned ==
  /\ \A s \in RecvSlots : rq[s] > 0 => rq[s] = 1 /\ recvState[s] = "POSTED"
  /\ \A i \in DOMAIN rcq : rq[rcq[i].slot] = 0 /\ recvState[rcq[i].slot] = "POSTED"
  /\ \A i, j \in DOMAIN rcq : rcq[i].slot = rcq[j].slot => i = j
  /\ \A t \in Receivers : Holding(t) =>
       rq[rtrans[t]] = 0 /\ \A i \in DOMAIN rcq : rcq[i].slot # rtrans[t]

\* What krdma_receive takes is the sequence of the messages sent, in order, none
\* twice, none skipped and none with the contents of another (krdma.c:1151-1232).
InOrder == \A i \in DOMAIN received : received[i].msg = i

\* The receive queue never runs dry (krdma.c:937-940, 1134-1141): as long as no refill
\* has failed, every slot but at most one is posted or holds a message that has
\* arrived, even while a message is copied out, so with two slots a sender cannot
\* starve.
RecvCredit ==
  link /\ (\A i \in DOMAIN received : received[i].ok) =>
    \A s, u \in RecvSlots :
      s # u => \E v \in {s, u} : rq[v] = 1 \/ \E i \in DOMAIN rcq : rcq[i].slot = v

\* When krdma_send reports success, its own message is in the memory of the other
\* end (krdma.c:1275-1301): no completion of another send is mistaken for it.
AckedArrived == \A m \in acked : m <= narrived

\* BUG() in krdma_send (krdma.c:1046, 1285, 1293) is reached only on a control block on
\* which some krdma_send has returned an error before.
BugOnlyAfterError == (\E t \in Senders : spc[t] = "bug") => sendFailed

\* A send buffer is not overwritten while the adapter has yet to read it
\* (krdma.c:1252-1263, 1276-1280): an abandoned send keeps its slot.
SendBufStable ==
  [][\A i \in DOMAIN sq : sendBuf'[sq[i]] = sendBuf[sq[i]]]_vars

\* The comment "Buffer overflow" and the BUG() under it (krdma.c:1045-1046) say that
\* krdma_send always finds a free slot, since slock admits one sender at a time.
NeverBug == \A t \in Senders : spc[t] # "bug"

\* The messages the receiving end can still be given: those that have arrived and,
\* while the link is up, those that were posted.
Top == IF link THEN nsent ELSE narrived

Channel == INSTANCE MessageChannel WITH
  Msg     <- 1 .. MaxMsgs,
  queue   <- [i \in 1 .. Top - Len(received) |-> Len(received) + i],
  fetched <- received,
  acked   <- acked,
  up      <- link

\* krdma_send and krdma_receive implement the channel.
ImplementsChannel == Channel!Spec

\* krdma_receive does not wait for ever, whatever the sender does (krdma.c:1188-1202).
ReceiveReturns == \A t \in Receivers : rpc[t] # "idle" ~> rpc[t] = "idle"

\* A posted krdma_send ends, by its completion or by the report of the broken
\* connection, although a flushed completion is skipped (krdma.c:905-919, 968-987).
\* A refill that fails for good (krdma.c:937-940) can leave the other end without
\* a posted slot, and then the sender polls for ever.
SendReturns ==
  \A t \in Senders :
    spc[t] \in {"check", "poll"} ~> \/ spc[t] = "idle"
                                   \/ \E i \in DOMAIN received : ~received[i].ok

\* The messages that are posted are all taken by receivers, unless the link breaks or a
\* refill of the receive queue fails.
MessagesArrive ==
  Len(received) < nsent ~> \/ Len(received) = nsent
                           \/ ~link
                           \/ \E i \in DOMAIN received : ~received[i].ok
=============================================================================
