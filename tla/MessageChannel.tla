--------------------------- MODULE MessageChannel ---------------------------
(***************************************************************************)
(* What krdma_send/krdma_receive and ktcp_send/ktcp_receive promise their  *)
(* callers, with nothing of how they keep the promise: a one-way channel   *)
(* that hands over every message at most once and in the order in which it *)
(* was accepted.  A fetch may fail to hand over the message it takes, the  *)
(* connection may break, and then messages may be cut off from the end of  *)
(* the queue, but none that was acknowledged to its sender.                *)
(***************************************************************************)
EXTENDS Naturals, Sequences

CONSTANT Msg    \* the messages that can be sent

VARIABLES
  queue,        \* accepted messages that have not been fetched, oldest first
  fetched,      \* the fetches so far: the message taken, and whether it was handed over whole
  acked,        \* messages whose sender was told that they have been sent
  up            \* the connection has not broken

vars == <<queue, fetched, acked, up>>

Elements(s) == {s[i] : i \in DOMAIN s}

Known == Elements(queue) \cup {fetched[i].msg : i \in DOMAIN fetched}

Init ==
  /\ queue = <<>>
  /\ fetched = <<>>
  /\ acked = {}
  /\ up = TRUE

\* A message enters the channel once.
Accept(m) ==
  /\ up
  /\ m \notin Known
  /\ queue' = Append(queue, m)
  /\ UNCHANGED <<fetched, acked, up>>

\* Only a message the channel still holds, or has handed over, is acknowledged.
Acknowledge(m) ==
  /\ m \in Known
  /\ acked' = acked \cup {m}
  /\ UNCHANGED <<queue, fetched, up>>

\* The oldest message leaves the queue; ok says whether its receiver got it.
Fetch(ok) ==
  /\ queue # <<>>
  /\ fetched' = Append(fetched, [msg |-> Head(queue), ok |-> ok])
  /\ queue' = Tail(queue)
  /\ UNCHANGED <<acked, up>>

\* The connection breaks, or has broken: the messages after the n-th are lost, and
\* none of them had been acknowledged.
Break(n) ==
  /\ up' = FALSE
  /\ queue' = SubSeq(queue, 1, n)
  /\ acked \subseteq Elements(queue') \cup {fetched[i].msg : i \in DOMAIN fetched}
  /\ UNCHANGED <<fetched, acked>>

Next ==
  \/ \E m \in Msg : Accept(m) \/ Acknowledge(m)
  \/ \E ok \in BOOLEAN : Fetch(ok)
  \/ \E n \in 0 .. Len(queue) : Break(n)

Spec == Init /\ [][Next]_vars
=============================================================================
