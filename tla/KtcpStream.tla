----------------------------- MODULE KtcpStream -----------------------------
(***************************************************************************)
(* The data path of ktcp.c, one direction of one connection: threads that  *)
(* call ktcp_send on one end, threads that call ktcp_receive on the other, *)
(* and the TCP stream between them, which keeps no message boundaries.     *)
(* A frame is a struct ktcp_hdr, taken as one unit of the stream, and the  *)
(* payload, cut into units.  ktcp_receive always asks for Full units, the  *)
(* header and a whole page, whatever the length of the message.            *)
(* recv_trans_buf stays empty, since every txid is 0xFF, and is left out.  *)
(***************************************************************************)
EXTENDS Naturals, Sequences, SequencesExt

CONSTANTS
  Senders,      \* threads that call ktcp_send
  Receivers,    \* threads that call ktcp_receive
  NoThread,     \* the holder of a free mutex
  Full,         \* KTCP_BUFFER_SIZE
  Sizes,        \* sizes of the frames that are sent
  SockBuf,      \* what the sockets can hold between the two ends
  MaxMsgs       \* bound on the messages sent

ASSUME ThreadAssumption == NoThread \notin Senders \cup Receivers
ASSUME SizeAssumption   == Full \in Nat \ {0} /\ Sizes \subseteq 1 .. Full
ASSUME BoundAssumption  == SockBuf \in Nat \ {0} /\ MaxMsgs \in Nat

VARIABLES
  conn,         \* "up", "closed" by the sending end, or "reset"
  slock,        \* holder of the sending cb's slock
  spc,          \* where each sender is in ktcp_send
  sframe,       \* the frame each sender has in its local_buffer
  left,         \* how much of it is still to be written
  stream,       \* what the connection holds
  rlock,        \* holder of the receiving cb's rlock
  rpc,          \* where each receiver is in ktcp_receive
  rbuf,         \* what each receiver has read into its local_buffer
  nmsg,         \* frames built so far
  wire,         \* everything the sending socket has accepted
  received,     \* what the calls of ktcp_receive have returned, headers included
  acked         \* the frames whose ktcp_send returned success

sendVars == <<slock, spc, sframe, left, nmsg, acked>>
recvVars == <<rlock, rpc, rbuf, received>>
vars     == <<conn, sendVars, stream, recvVars, wire>>

\* A unit, with the length that is in the header of its frame.
Unit == [msg : 1 .. MaxMsgs, pos : 1 .. Full, len : 1 .. Full]

Frame(m, n) == [k \in 1 .. n |-> [msg |-> m, pos |-> k, len |-> n]]

\* What kzalloc leaves in a buffer where nothing has been read.
Zero == [msg |-> 0, pos |-> 0, len |-> 0]

Init ==
  /\ conn = "up"
  /\ slock = NoThread
  /\ spc = [t \in Senders |-> "idle"]
  /\ sframe = [t \in Senders |-> <<>>]
  /\ left = [t \in Senders |-> 0]
  /\ stream = <<>> /\ wire = <<>>
  /\ rlock = NoThread
  /\ rpc = [t \in Receivers |-> "idle"]
  /\ rbuf = [t \in Receivers |-> <<>>]
  /\ nmsg = 0
  /\ received = <<>>
  /\ acked = {}

-----------------------------------------------------------------------------
(* ktcp_send.                                                              *)

SendCall(t) ==
  /\ spc[t] = "idle" /\ nmsg < MaxMsgs /\ conn # "closed"
  /\ spc' = [spc EXCEPT ![t] = "lock"]
  /\ UNCHANGED <<conn, slock, sframe, left, nmsg, acked, stream, recvVars, wire>>

\* Faulty variant: slock is not waited for.
SendStart_NoLock(t) ==
  /\ spc[t] = "lock" /\ nmsg < MaxMsgs
  /\ \E n \in Sizes :
       /\ sframe' = [sframe EXCEPT ![t] = Frame(nmsg + 1, n)]
       /\ left' = [left EXCEPT ![t] = n]
  /\ nmsg' = nmsg + 1
  /\ slock' = t
  /\ spc' = [spc EXCEPT ![t] = "write"]
  /\ UNCHANGED <<conn, acked, stream, recvVars, wire>>

\* The mutex is taken and the frame is put together.
SendStart(t) ==
  /\ spc[t] = "lock" /\ slock = NoThread /\ nmsg < MaxMsgs
  /\ \E n \in Sizes :
       /\ sframe' = [sframe EXCEPT ![t] = Frame(nmsg + 1, n)]
       /\ left' = [left EXCEPT ![t] = n]
  /\ nmsg' = nmsg + 1
  /\ slock' = t
  /\ spc' = [spc EXCEPT ![t] = "write"]
  /\ UNCHANGED <<conn, acked, stream, recvVars, wire>>

\* kzalloc fails and the call returns -ENOMEM.
SendNoMemory(t) ==
  /\ spc[t] = "lock" /\ slock = NoThread
  /\ spc' = [spc EXCEPT ![t] = "idle"]
  /\ UNCHANGED <<conn, slock, sframe, left, nmsg, acked, stream, recvVars, wire>>

\* Faulty variant: a short write ends the call.
SendWrite_Once(t) ==
  /\ spc[t] = "write" /\ conn = "up"
  /\ \E n \in 1 .. left[t] :
       LET part == SubSeq(sframe[t], 1, n)
       IN /\ Len(stream) + n <= SockBuf
          /\ stream' = stream \o part
          /\ wire' = wire \o part
  /\ left' = [left EXCEPT ![t] = 0]
  /\ slock' = NoThread
  /\ spc' = [spc EXCEPT ![t] = "idle"]
  /\ acked' = acked \cup {sframe[t]}
  /\ UNCHANGED <<conn, sframe, nmsg, recvVars>>

\* Faulty variant: every write starts at the beginning of the buffer.
SendWrite_FromStart(t) ==
  /\ spc[t] = "write" /\ conn = "up"
  /\ \E n \in 1 .. left[t] :
       LET part == SubSeq(sframe[t], 1, n)
       IN /\ Len(stream) + n <= SockBuf
          /\ stream' = stream \o part
          /\ wire' = wire \o part
          /\ left' = [left EXCEPT ![t] = @ - n]
          /\ IF n = left[t]
               THEN /\ slock' = NoThread
                    /\ spc' = [spc EXCEPT ![t] = "idle"]
                    /\ acked' = acked \cup {sframe[t]}
               ELSE UNCHANGED <<slock, spc, acked>>
  /\ UNCHANGED <<conn, sframe, nmsg, recvVars>>

\* kernel_sendmsg takes some of what is left, as far as the sockets have room; the
\* call ends when nothing is left.
SendWrite(t) ==
  /\ spc[t] = "write" /\ conn = "up"
  /\ \E n \in 1 .. left[t] :
       LET written == Len(sframe[t]) - left[t]
           part    == SubSeq(sframe[t], written + 1, written + n)
       IN /\ Len(stream) + n <= SockBuf
          /\ stream' = stream \o part
          /\ wire' = wire \o part
          /\ left' = [left EXCEPT ![t] = @ - n]
          /\ IF n = left[t]
               THEN /\ slock' = NoThread
                    /\ spc' = [spc EXCEPT ![t] = "idle"]
                    /\ acked' = acked \cup {sframe[t]}
               ELSE UNCHANGED <<slock, spc, acked>>
  /\ UNCHANGED <<conn, sframe, nmsg, recvVars>>

\* Faulty variant: every error of kernel_sendmsg is tried again.
SendFails_Retries(t) ==
  /\ spc[t] = "write" /\ conn = "reset"
  /\ UNCHANGED vars

\* kernel_sendmsg fails: an error if nothing was written, otherwise a success.
SendFails(t) ==
  /\ spc[t] = "write" /\ conn = "reset"
  /\ slock' = NoThread
  /\ spc' = [spc EXCEPT ![t] = "idle"]
  /\ acked' = IF left[t] = Len(sframe[t]) THEN acked ELSE acked \cup {sframe[t]}
  /\ UNCHANGED <<conn, sframe, left, nmsg, stream, recvVars, wire>>

-----------------------------------------------------------------------------
(* ktcp_receive.                                                           *)

RecvCall(t) ==
  /\ rpc[t] = "idle"
  /\ rpc' = [rpc EXCEPT ![t] = "lock"]
  /\ UNCHANGED <<conn, sendVars, stream, rlock, rbuf, received, wire>>

\* Faulty variant: rlock is not waited for.
RecvStart_NoLock(t) ==
  /\ rpc[t] = "lock"
  /\ rlock' = t
  /\ rbuf' = [rbuf EXCEPT ![t] = <<>>]
  /\ rpc' = [rpc EXCEPT ![t] = "read"]
  /\ UNCHANGED <<conn, sendVars, stream, received, wire>>

\* The mutex is taken and the buffer allocated.
RecvStart(t) ==
  /\ rpc[t] = "lock" /\ rlock = NoThread
  /\ rlock' = t
  /\ rbuf' = [rbuf EXCEPT ![t] = <<>>]
  /\ rpc' = [rpc EXCEPT ![t] = "read"]
  /\ UNCHANGED <<conn, sendVars, stream, received, wire>>

\* kzalloc fails and the call returns -ENOMEM.
RecvNoMemory(t) ==
  /\ rpc[t] = "lock" /\ rlock = NoThread
  /\ rpc' = [rpc EXCEPT ![t] = "idle"]
  /\ UNCHANGED <<conn, sendVars, stream, rlock, rbuf, received, wire>>

\* The header tells build_ktcp_recv_output how much of the buffer to copy; the rest of the
\* buffer is freed.  If the first unit is a piece of a payload, the length is anything, and
\* a copy beyond the buffer counts as an oops.  If nothing has been read the length is 0;
\* less the size of the header it wraps round, and the copy is an oops.
Output(t, buffer) ==
  \/ \E n \in 1 .. Full :
       /\ buffer # <<>> /\ (buffer[1].pos = 1 => n = buffer[1].len)
       /\ received' = Append(received,
                             [k \in 1 .. n |-> IF k <= Len(buffer) THEN buffer[k] ELSE Zero])
       /\ rlock' = NoThread
       /\ rpc' = [rpc EXCEPT ![t] = "idle"]
  \/ /\ buffer # <<>> => buffer[1].pos # 1
     /\ rpc' = [rpc EXCEPT ![t] = "oops"]
     /\ UNCHANGED <<received, rlock>>

\* Faulty variant: every read asks for a whole buffer.
RecvRead_Over(t) ==
  /\ rpc[t] = "read"
  /\ \E n \in 1 .. Full :
       LET buffer == rbuf[t] \o SubSeq(stream, 1, n)
       IN /\ n <= Len(stream)
          /\ stream' = SubSeq(stream, n + 1, Len(stream))
          /\ rbuf' = [rbuf EXCEPT ![t] = buffer]
          /\ IF Len(buffer) >= Full THEN Output(t, buffer)
             ELSE UNCHANGED <<received, rlock, rpc>>
  /\ UNCHANGED <<conn, sendVars, wire>>

\* Faulty variant: the first successful read ends the call.
RecvRead_Once(t) ==
  /\ rpc[t] = "read"
  /\ \E n \in 1 .. Full - Len(rbuf[t]) :
       /\ n <= Len(stream)
       /\ stream' = SubSeq(stream, n + 1, Len(stream))
       /\ rbuf' = [rbuf EXCEPT ![t] = SubSeq(stream, 1, n)]
  /\ Output(t, rbuf'[t])
  /\ UNCHANGED <<conn, sendVars, wire>>

\* kernel_recvmsg returns some of what has arrived; the call goes on until the
\* buffer is full.  With nothing to read it tries again, rlock held: no step.
RecvRead(t) ==
  /\ rpc[t] = "read"
  /\ \E n \in 1 .. Full - Len(rbuf[t]) :
       LET buffer == rbuf[t] \o SubSeq(stream, 1, n)
       IN /\ n <= Len(stream)
          /\ stream' = SubSeq(stream, n + 1, Len(stream))
          /\ rbuf' = [rbuf EXCEPT ![t] = buffer]
          /\ IF Len(buffer) = Full THEN Output(t, buffer)
             ELSE UNCHANGED <<received, rlock, rpc>>
  /\ UNCHANGED <<conn, sendVars, wire>>

\* The end of the stream: what has been read is taken for a message.  After a reset
\* too, if another call on the socket has been told of the error.
RecvEnd(t) ==
  /\ rpc[t] = "read" /\ conn # "up" /\ stream = <<>>
  /\ Output(t, rbuf[t])
  /\ UNCHANGED <<conn, sendVars, stream, rbuf, wire>>

\* The error is returned and what has been read is dropped.
RecvFails(t) ==
  /\ rpc[t] = "read" /\ conn = "reset" /\ stream = <<>>
  /\ rlock' = NoThread
  /\ rpc' = [rpc EXCEPT ![t] = "idle"]
  /\ UNCHANGED <<conn, sendVars, stream, rbuf, received, wire>>

-----------------------------------------------------------------------------
(* The connection.                                                         *)

\* ktcp_release on the sending end, when no call is running there.
ktcp_release ==
  /\ conn = "up" /\ \A t \in Senders : spc[t] = "idle"
  /\ conn' = "closed"
  /\ UNCHANGED <<sendVars, stream, recvVars, wire>>

\* The connection is reset; what has not reached the receiving socket is lost.
Reset ==
  /\ conn = "up"
  /\ conn' = "reset"
  /\ \E n \in 0 .. Len(stream) : stream' = SubSeq(stream, 1, n)
  /\ UNCHANGED <<sendVars, recvVars, wire>>

SendStep(t) == SendStart(t) \/ SendNoMemory(t) \/ SendWrite(t) \/ SendFails(t)
RecvStep(t) ==
  RecvStart(t) \/ RecvNoMemory(t) \/ RecvRead(t) \/ RecvEnd(t) \/ RecvFails(t)

Next ==
  \/ \E t \in Senders : SendCall(t) \/ SendStep(t)
  \/ \E t \in Receivers : RecvCall(t) \/ RecvStep(t)
  \/ ktcp_release
  \/ Reset

Spec == Init /\ [][Next]_vars

\* Calls go on, a mutex is handed over to its waiters, the receiving end keeps
\* calling ktcp_receive, and kzalloc does not fail for ever.
Fairness ==
  /\ \A t \in Senders : SF_vars(SendStart(t)) /\ WF_vars(SendWrite(t) \/ SendFails(t))
  /\ \A t \in Receivers :
       /\ WF_vars(RecvCall(t)) /\ SF_vars(RecvStart(t))
       /\ WF_vars(RecvRead(t) \/ RecvEnd(t) \/ RecvFails(t))

FairSpec == Spec /\ Fairness

-----------------------------------------------------------------------------
(* Properties.                                                             *)

\* The variables have their types.
TypeOK ==
  /\ conn \in {"up", "closed", "reset"}
  /\ slock \in Senders \cup {NoThread} /\ rlock \in Receivers \cup {NoThread}
  /\ spc \in [Senders -> {"idle", "lock", "write"}]
  /\ sframe \in [Senders -> Seq(Unit)] /\ left \in [Senders -> 0 .. Full]
  /\ \A t \in Senders : left[t] <= Len(sframe[t])
  /\ rpc \in [Receivers -> {"idle", "lock", "read", "oops"}]
  /\ rbuf \in [Receivers -> Seq(Unit)] /\ \A t \in Receivers : Len(rbuf[t]) <= Full
  /\ stream \in Seq(Unit) /\ Len(stream) <= SockBuf
  /\ wire \in Seq(Unit)
  /\ nmsg \in 0 .. MaxMsgs
  /\ received \in Seq(Seq(Unit \cup {Zero}))
  /\ acked \subseteq Seq(Unit)

\* A frame on the wire is not mixed with another (ktcp.c:60-133): whatever the writes
\* take, after the unit pos of a message comes pos + 1 of it or the next header.
FramesContiguous ==
  \A k \in 1 .. Len(wire) - 1 :
    \/ wire[k + 1].msg = wire[k].msg /\ wire[k + 1].pos = wire[k].pos + 1
    \/ wire[k + 1].msg > wire[k].msg /\ wire[k + 1].pos = 1

\* However many threads read and whatever a read takes, the k-th message that ktcp_receive
\* returns is the beginning of the k-th page of what was written (ktcp.c:178-287): what is
\* lost is only what follows a message in its page.  Behind the end of the stream it is 0.
Page(k) == Full * (k - 1)

PagesInOrder ==
  \A k \in DOMAIN received : \A i \in DOMAIN received[k] :
    \/ Page(k) + i <= Len(wire) /\ received[k][i] = wire[Page(k) + i]
    \/ k = Len(received) /\ conn # "up" /\ received[k][i] = Zero

\* A success of ktcp_send means that the whole frame was written, unless the
\* connection is gone (ktcp.c:83-101, 132).
AckedWritten ==
  \A frame \in acked :
    \/ conn = "reset"
    \/ \E k \in 1 .. Len(wire) - Len(frame) + 1 : SubSeq(wire, k, k + Len(frame) - 1) = frame

\* Where every message fills a page, ktcp_send and ktcp_receive implement the channel
\* but for the acknowledgements: a success only means that the socket has the frame.
\* In transit is every message of which a unit has been written and none returned.
InTransit ==
  LET pending == (IF rlock = NoThread THEN <<>> ELSE rbuf[rlock]) \o stream
  IN IF pending = <<>> THEN <<>>
     ELSE [k \in 1 .. pending[Len(pending)].msg - pending[1].msg + 1 |-> pending[1].msg + k - 1]

Channel == INSTANCE MessageChannel WITH
  Msg     <- 1 .. MaxMsgs,
  queue   <- InTransit,
  fetched <- [k \in DOMAIN received |->
                [msg |-> received[k][1].msg, ok |-> received[k][Full] # Zero]],
  acked   <- {},
  up      <- conn # "reset"

ImplementsChannel == Channel!Spec

\* If every message fills a page, a call of ktcp_receive finds a header wherever it begins
\* to read, and oopses only at the end of the stream (ktcp.c:171).
OopsOnlyAtEnd ==
  \A t \in Receivers : rpc[t] = "oops" => rbuf[t] = <<>> /\ stream = <<>> /\ conn # "up"

\* A frame that is written is returned to a receiver, if every message fills a page
\* and the connection is not reset.
MessagesArrive ==
  \A m \in 1 .. MaxMsgs :
    Frame(m, Full) \in acked ~> \/ conn = "reset"
                                \/ \E k \in DOMAIN received : received[k] = Frame(m, Full)

\* A ktcp_send that has its mutex returns, as long as somebody reads the other end.
SendReturns == \A t \in Senders : spc[t] = "write" ~> spc[t] # "write"
=============================================================================
