---------------------- MODULE KtcpStreamChannel_proofs ----------------------
(* Where every message fills a page, ktcp_send and ktcp_receive implement   *)
(* MessageChannel, for any number of threads and messages and any sockets.  *)
EXTENDS KtcpStream_proofs

-----------------------------------------------------------------------------
(* What is true besides when every frame fills a page.                     *)

\* Unit pos of message m is where it would be if the messages had been written in order.
PagesInv == \A k \in DOMAIN wire : k = Full * (wire[k].msg - 1) + wire[k].pos

\* A page is written to its end before the next one, until a reset.
WholeInv ==
  conn = "up" =>
    /\ slock = NoThread => Len(wire) = Full * nmsg
    /\ \A t \in Senders : spc[t] = "write" =>
         Len(sframe[t]) = Full /\ Len(wire) = Full * (nmsg - 1) + Written(t)

FullInv == PagesInv /\ WholeInv

\* A write of a frame of the last message goes on where the wire ends.
LEMMA WrittenPage ==
  ASSUME IInv, FullInv, NEW t \in Senders, SendWrite(t)
  PROVE  /\ spc[t] = "write" /\ conn = "up" /\ slock = t
         /\ nmsg \in 1 .. MaxMsgs
         /\ Len(wire) = Full * (nmsg - 1) + Written(t)
         /\ \E n \in Nat \ {0} :
              /\ WritesPart(t, n) /\ Written(t) + n <= Full
              /\ (n = left[t] <=> Written(t) + n = Full)
              /\ \A i \in 1 .. n : /\ sframe[t][Written(t) + i].msg = nmsg
                                   /\ sframe[t][Written(t) + i].pos = Written(t) + i
<1>1. spc[t] = "write" /\ conn = "up" /\ slock = t /\ TypeOK /\ WriterInv
  BY WriteStep DEF IInv, LockInv
<1>2. Len(sframe[t]) = Full /\ Len(wire) = Full * (nmsg - 1) + Written(t)
  BY <1>1 DEF FullInv, WholeInv
<1>3. /\ left[t] \in Nat /\ Written(t) \in Nat /\ Written(t) + left[t] = Full
      /\ DOMAIN sframe[t] = 1 .. Full /\ sframe[t] \in Seq(Unit)
  BY <1>1, <1>2, SeqFacts
<1>4. PICK n : WritesPart(t, n)
  BY <1>1, WriteStep
<1>5. n \in 1 .. left[t]
  BY <1>4 DEF WritesPart
<1>6. \A i \in 1 .. n : Written(t) + i \in DOMAIN sframe[t]
  BY <1>3, <1>5, Constants
<1>7. \A i \in DOMAIN sframe[t] : sframe[t][i].msg = nmsg /\ sframe[t][i].pos = i
  BY <1>1 DEF WriterInv
<1>8. nmsg \in 1 .. MaxMsgs
  <2>1. 1 \in DOMAIN sframe[t]
    BY <1>3, Constants
  <2>2. sframe[t][1] \in Unit
    <3>1. sframe[t] \in Seq(Unit) /\ 1 \in 1 .. Len(sframe[t])
      BY <1>2, <1>3, <2>1
    <3> QED BY <3>1, ElementOfSeq
  <2> QED BY <1>7, <2>1, <2>2 DEF Unit
<1>9. n \in Nat \ {0} /\ Written(t) + n <= Full /\ (n = left[t] <=> Written(t) + n = Full)
  BY <1>3, <1>5, Constants
<1>10. \A i \in 1 .. n : /\ sframe[t][Written(t) + i].msg = nmsg
                         /\ sframe[t][Written(t) + i].pos = Written(t) + i
  BY <1>6, <1>7
<1> QED BY <1>1, <1>2, <1>4, <1>8, <1>9, <1>10

\* Every step keeps the places of the pages on the wire.
LEMMA PagesStep ==
  ASSUME IInv, FullInv, [Next]_vars
  PROVE  PagesInv'
<1>1. ASSUME NEW t \in Senders, SendWrite(t)
      PROVE  PagesInv'
  <2>1. PICK n \in Nat \ {0} :
          /\ WritesPart(t, n)
          /\ \A i \in 1 .. n : /\ sframe[t][Written(t) + i].msg = nmsg
                               /\ sframe[t][Written(t) + i].pos = Written(t) + i
    BY <1>1, WrittenPage
  <2>2. PICK L \in Nat, w \in Nat : L = Len(wire) /\ w = Written(t) /\ L = Full * (nmsg - 1) + w
    BY <1>1, WrittenPage, SeqFacts DEF IInv
  <2>3. /\ wire' \in Seq(Unit) /\ Len(wire') = L + n
        /\ \A i \in 1 .. L : wire'[i] = wire[i]
        /\ \A i \in 1 .. n : wire'[L + i].msg = nmsg /\ wire'[L + i].pos = w + i
    BY <2>1, <2>2 DEF WritesPart, Extends
  <2>4. DOMAIN wire' = 1 .. L + n /\ DOMAIN wire = 1 .. L
    BY <2>2, <2>3, LenProperties, SeqFacts DEF IInv
  <2>5. ASSUME NEW k \in 1 .. L + n
        PROVE  k = Full * (wire'[k].msg - 1) + wire'[k].pos
    <3>1. CASE k <= L
      <4>1. k \in 1 .. L
        BY <3>1
      <4> QED BY <2>3, <2>4, <4>1 DEF FullInv, PagesInv
    <3>2. CASE ~ (k <= L)
      <4>1. PICK i \in 1 .. n : k = L + i
        <5>1. k - L \in 1 .. n /\ k = L + (k - L)
          BY <3>2
        <5> QED BY <5>1
      <4>2. wire'[k].msg = nmsg /\ wire'[k].pos = w + i
        BY <2>3, <4>1
      <4>3. PICK c \in Int : c = Full * (nmsg - 1)
        <5>1. nmsg \in 1 .. MaxMsgs
          BY <1>1, WrittenPage
        <5> QED BY <5>1, Constants
      <4>4. k = c + (w + i)
        BY <2>2, <4>1, <4>3
      <4> QED BY <4>2, <4>3, <4>4
    <3> QED BY <3>1, <3>2
  <2> QED BY <2>4, <2>5 DEF PagesInv
<1>2. CASE UNCHANGED wire
  BY <1>2 DEF FullInv, PagesInv
<1>3. UNCHANGED wire \/ \E t \in Senders : SendWrite(t)
  BY StepCases DEF SendCall, SendStart, SendNoMemory, SendFails, RecvCall, RecvStart, RecvNoMemory,
                   RecvRead, RecvEnd, RecvFails, ktcp_release, Reset, vars
<1> QED BY <1>1, <1>2, <1>3

\* Every step keeps the pages whole.
LEMMA WholeStep ==
  ASSUME Sizes = {Full}, IInv, FullInv, [Next]_vars
  PROVE  WholeInv'
<1> SUFFICES ASSUME conn' = "up" PROVE WholeInv'
  BY DEF WholeInv
<1>t. TypeOK /\ LockInv /\ nmsg \in 0 .. MaxMsgs
  BY DEF IInv, TypeOK
<1>1. ASSUME NEW t \in Senders, SendStart(t)
      PROVE  WholeInv'
  <2>1. /\ slock = NoThread /\ nmsg < MaxMsgs /\ nmsg' = nmsg + 1 /\ slock' = t
        /\ spc' = [spc EXCEPT ![t] = "write"] /\ UNCHANGED <<conn, wire>>
    BY <1>1, <1>t, StartStep
  <2>2. /\ sframe' = [sframe EXCEPT ![t] = Frame(nmsg + 1, Full)]
        /\ left' = [left EXCEPT ![t] = Full]
    BY <1>1 DEF SendStart
  <2>3. PICK m \in 1 .. MaxMsgs : m = nmsg + 1
    BY <1>t, <2>1, Constants
  <2>4. Len(Frame(m, Full)) = Full
    <3>1. Full \in Sizes
      OBVIOUS
    <3> QED BY <3>1, FrameFacts
  <2>5. sframe'[t] = Frame(m, Full) /\ left'[t] = Full
    BY <1>t, <2>2, <2>3 DEF TypeOK
  <2>6. Len(sframe'[t]) = Full /\ Written(t)' = 0
    BY <2>4, <2>5, Constants DEF Written
  <2>7. Len(wire') = Full * (nmsg' - 1) + 0
    <3>1. nmsg' - 1 = nmsg /\ Len(wire) = Full * nmsg /\ Len(wire) \in Nat
      BY <1>t, <2>1, SeqFacts DEF FullInv, WholeInv
    <3> QED BY <2>1, <3>1
  <2>8. \A x \in Senders : spc'[x] = "write" => x = t
    BY <1>t, <2>1, Constants DEF LockInv, TypeOK
  <2>9. slock' # NoThread
    BY <2>1, Constants
  <2> QED BY <2>6, <2>7, <2>8, <2>9 DEF WholeInv
<1>2. ASSUME NEW t \in Senders, SendWrite(t)
      PROVE  WholeInv'
  <2>1. PICK n \in Nat \ {0} : WritesPart(t, n) /\ (n = left[t] <=> Written(t) + n = Full)
    BY <1>2, WrittenPage
  <2>2. PICK L \in Nat, w \in Nat : L = Len(wire) /\ w = Written(t) /\ L = Full * (nmsg - 1) + w
    BY <1>2, WrittenPage, SeqFacts DEF IInv
  <2>3. /\ spc[t] = "write" /\ slock = t /\ slock # NoThread
        /\ Len(sframe[t]) = Full /\ nmsg' = nmsg /\ sframe' = sframe
    BY <1>2, WrittenPage, WriteStep, Constants, <1>t DEF FullInv, WholeInv
  <2>4. Len(wire') = L + n /\ left' = [left EXCEPT ![t] = left[t] - n]
    BY <2>1, <2>2 DEF WritesPart, Extends
  <2>5. PICK c \in Int : c = Full * (nmsg - 1) /\ Full * nmsg = c + Full
    <3>1. nmsg \in Int /\ Full \in Int /\ Full * (nmsg - 1) \in Int
      BY <1>t, Constants
    <3> QED BY <3>1
  <2>6. Len(wire') = c + (w + n)
    BY <2>2, <2>4, <2>5
  <2>7. CASE n = left[t]
    <3>1. Len(wire') = Full * nmsg'
      BY <2>1, <2>2, <2>3, <2>5, <2>6, <2>7
    <3>2. spc' = [spc EXCEPT ![t] = "idle"]
      BY <2>1, <2>7 DEF WritesPart
    <3>3. \A x \in Senders : spc'[x] # "write"
      BY <1>t, <2>3, <3>2 DEF LockInv, TypeOK
    <3> QED BY <3>1, <3>3 DEF WholeInv
  <2>8. CASE n # left[t]
    <3>1. UNCHANGED <<slock, spc>>
      BY <2>1, <2>8 DEF WritesPart
    <3>2. left'[t] = left[t] - n /\ left[t] \in Nat
      BY <1>t, <2>4, SeqFacts DEF TypeOK
    <3>3. Written(t)' = w + n
      BY <2>2, <2>3, <3>2, Constants DEF Written
    <3>4. Len(wire') = Full * (nmsg' - 1) + Written(t)'
      BY <2>3, <2>5, <2>6, <3>3
    <3>5. \A x \in Senders : spc'[x] = "write" => x = t
      BY <1>t, <2>3, <3>1 DEF LockInv
    <3> QED BY <2>3, <3>1, <3>4, <3>5 DEF WholeInv
  <2> QED BY <2>7, <2>8
<1>3. ASSUME NEW t \in Senders, SendCall(t) \/ SendNoMemory(t)
      PROVE  WholeInv'
  <2>1. /\ UNCHANGED <<conn, slock, sframe, left, nmsg, wire>>
        /\ \A x \in Senders : spc'[x] = "write" => spc[x] = "write"
    BY <1>t, <1>3 DEF SendCall, SendNoMemory, TypeOK
  <2> QED BY <2>1 DEF FullInv, WholeInv, Written
<1>4. ASSUME NEW t \in Senders, SendFails(t)
      PROVE  FALSE
  BY <1>4 DEF SendFails
<1>5. CASE UNCHANGED <<sendVars, wire>> /\ conn = "up"
  BY <1>5 DEF FullInv, WholeInv, Written, sendVars
<1>6. \/ \E t \in Senders : \/ SendCall(t) \/ SendStart(t) \/ SendNoMemory(t)
                           \/ SendWrite(t) \/ SendFails(t)
      \/ UNCHANGED <<sendVars, wire>> /\ conn = "up"
  BY StepCases DEF RecvCall, RecvStart, RecvNoMemory, RecvRead, RecvEnd, RecvFails, ktcp_release,
                   Reset, vars
<1> QED BY <1>1, <1>2, <1>3, <1>4, <1>5, <1>6

\* With frames that fill a page, this holds in every reachable state.
LEMMA FullInvariant == ASSUME Sizes = {Full} PROVE Spec => [](IInv /\ FullInv)
<1>1. Init => FullInv
  BY Constants DEF Init, FullInv, PagesInv, WholeInv
<1>2. IInv /\ FullInv /\ [Next]_vars => FullInv'
  BY PagesStep, WholeStep DEF FullInv
<1> QED BY <1>1, <1>2, Invariant, PTL DEF Spec

-----------------------------------------------------------------------------
(* Pages and runs of messages.                                             *)

\* The messages n + 1, ..., n + c.
Run(n, c) == [k \in 1 .. c |-> n + k]

\* There are c pages that u units, the first of a page among them, are part of.
Covers(c, u) == u <= Full * c /\ Full * c < u + Full

\* What has been written and not returned.
Amount == Len(Held) + Len(stream)

LEMMA CoversOnce ==
  ASSUME NEW c \in Nat, NEW d \in Nat, NEW u \in Nat, Covers(c, u), Covers(d, u)
  PROVE  c = d
<1>1. ASSUME NEW a \in Nat, NEW b \in Nat, Covers(a, u), Covers(b, u), a < b
      PROVE  FALSE
  <2>1. PICK e \in Nat : b = a + 1 + e
    <3>1. b - (a + 1) \in Nat /\ b = a + 1 + (b - (a + 1))
      BY <1>1
    <3> QED BY <3>1
  <2>2. PICK F \in Nat : F = Full
    BY Constants
  <2>3. F * b = F * a + F + F * e /\ F * e \in Nat /\ F * a \in Nat
    BY <2>1
  <2> QED BY <1>1, <2>2, <2>3 DEF Covers
<1> QED BY <1>1

\* A unit lies on one page.
LEMMA OnePage ==
  ASSUME NEW a \in Nat, NEW b \in Nat, NEW x \in 1 .. Full, NEW y \in 1 .. Full,
         Full * a + x = Full * b + y
  PROVE  a = b /\ x = y
<1>1. PICK F \in Nat \ {0} : F = Full
  BY Constants
<1>2. PICK u \in Nat : u = F * a + x
  <2>1. F * a \in Nat /\ x \in Nat
    BY <1>1
  <2> QED BY <2>1
<1>3. F * (a + 1) = F * a + F /\ F * (b + 1) = F * b + F
  BY <1>1
<1>4. Covers(a + 1, u) /\ Covers(b + 1, u)
  BY <1>1, <1>2, <1>3 DEF Covers
<1>5. a = b
  BY <1>2, <1>4, CoversOnce
<1>6. F * a \in Nat /\ x \in Nat /\ y \in Nat
  BY <1>1
<1> QED BY <1>1, <1>5, <1>6

\* A run is a sequence, and what the operations of a queue make of it.
LEMMA RunIsSeq ==
  ASSUME NEW n \in Nat, NEW c \in Nat
  PROVE  /\ Run(n, c) \in Seq(Nat) /\ Len(Run(n, c)) = c /\ DOMAIN Run(n, c) = 1 .. c
         /\ \A k \in 1 .. c : Run(n, c)[k] = n + k
BY DEF Run

LEMMA LongerRun ==
  ASSUME NEW n \in Nat, NEW c \in Nat, NEW m, m = n + c + 1
  PROVE  Run(n, c + 1) = Append(Run(n, c), m)
<1>0. c + 1 \in Nat /\ m \in Nat
  OBVIOUS
<1>1. PICK q, r, a : q = Run(n, c) /\ r = Run(n, c + 1) /\ a = Append(q, m)
  OBVIOUS
<1>2. q \in Seq(Nat) /\ Len(q) = c /\ \A k \in 1 .. c : q[k] = n + k
  BY <1>1, RunIsSeq
<1>3. r \in Seq(Nat) /\ Len(r) = c + 1 /\ \A k \in 1 .. c + 1 : r[k] = n + k
  BY <1>0, <1>1, RunIsSeq
<1>4. /\ a \in Seq(Nat) /\ Len(a) = c + 1 /\ a[c + 1] = m
      /\ \A k \in 1 .. c : a[k] = q[k]
  BY <1>0, <1>1, <1>2, AppendProperties
<1>5. \A k \in 1 .. Len(r) : r[k] = a[k]
  BY <1>2, <1>3, <1>4
<1>6. r = a
  BY <1>3, <1>4, <1>5, SeqEqual
<1> QED BY <1>1, <1>6

LEMMA ShorterRun ==
  ASSUME NEW n \in Nat, NEW c \in Nat
  PROVE  /\ Run(n, c + 1) # <<>> /\ Head(Run(n, c + 1)) = n + 1
         /\ Run(n + 1, c) = Tail(Run(n, c + 1))
         /\ \A d \in 0 .. c : Run(n, d) = SubSeq(Run(n, c), 1, d)
<1>0. n + 1 \in Nat /\ c + 1 \in Nat /\ \A d \in 0 .. c : d \in Nat
  OBVIOUS
<1>1. PICK q, r : q = Run(n, c + 1) /\ r = Run(n + 1, c)
  OBVIOUS
<1>2. q \in Seq(Nat) /\ Len(q) = c + 1 /\ \A k \in 1 .. c + 1 : q[k] = n + k
  BY <1>0, <1>1, RunIsSeq
<1>3. r \in Seq(Nat) /\ Len(r) = c /\ \A k \in 1 .. c : r[k] = n + 1 + k
  BY <1>0, <1>1, RunIsSeq
<1>4. q # <<>> /\ Head(q) = n + 1
  BY <1>2
<1>5. PICK a : a = Tail(q)
  OBVIOUS
<1>6. a \in Seq(Nat) /\ Len(a) = c /\ \A k \in 1 .. c : a[k] = q[k + 1]
  BY <1>2, <1>4, <1>5, HeadTailProperties
<1>7. \A k \in 1 .. Len(r) : r[k] = a[k]
  BY <1>2, <1>3, <1>6
<1>8. r = a
  BY <1>3, <1>6, <1>7, SeqEqual
<1>9. ASSUME NEW d \in 0 .. c
      PROVE  Run(n, d) = SubSeq(Run(n, c), 1, d)
  <2>1. PICK l, h, part : l = Run(n, c) /\ h = Run(n, d) /\ part = SubSeq(l, 0 + 1, 0 + d)
    OBVIOUS
  <2>2. l \in Seq(Nat) /\ Len(l) = c /\ \A k \in 1 .. c : l[k] = n + k
    BY <2>1, RunIsSeq
  <2>3. d \in Nat /\ h \in Seq(Nat) /\ Len(h) = d /\ \A k \in 1 .. d : h[k] = n + k
    BY <1>0, <2>1, RunIsSeq
  <2>4. part \in Seq(Nat) /\ Len(part) = d /\ \A k \in 1 .. d : part[k] = l[0 + k]
    <3>1. 0 + d <= Len(l)
      BY <2>2, <2>3
    <3> QED BY <2>1, <2>2, <2>3, <3>1, Part
  <2>5. \A k \in 1 .. Len(h) : h[k] = part[k]
    BY <2>2, <2>3, <2>4
  <2>6. h = part
    BY <2>3, <2>4, <2>5, SeqEqual
  <2>7. part = SubSeq(l, 1, d)
    BY <2>1, <2>3
  <2> QED BY <2>1, <2>6, <2>7
<1> QED BY <1>1, <1>4, <1>5, <1>8, <1>9

-----------------------------------------------------------------------------
(* The abstract state.                                                     *)

\* What is on the wire after n pages is of the message n + 1 or a later one.
LEMMA OnWirePage ==
  ASSUME IInv, FullInv, NEW n \in Nat, NEW i \in Nat \ {0}, Full * n + i <= Len(wire)
  PROVE  /\ wire[Full * n + i] \in Unit
         /\ i <= Full => /\ wire[Full * n + i].msg = n + 1
                         /\ wire[Full * n + i].pos = i
         /\ Covers(wire[Full * n + i].msg - n, i)
<1>1. TypeOK /\ Full \in Nat \ {0} /\ Full * n \in Nat
  BY Constants DEF IInv
<1>2. PICK k \in DOMAIN wire : k = Full * n + i
  BY <1>1, SeqFacts
<1>3. PICK m \in 1 .. MaxMsgs, p \in 1 .. Full : wire[k].msg = m /\ wire[k].pos = p
  <2>1. wire[k] \in Unit
    BY <1>1, SeqFacts, ElementOfSeq
  <2> QED BY <2>1 DEF Unit
<1>4. wire[k] \in Unit
  BY <1>1, SeqFacts, ElementOfSeq
<1>5. Full * n + i = Full * (m - 1) + p
  BY <1>2, <1>3 DEF FullInv, PagesInv
<1>6. ASSUME i <= Full
      PROVE  m = n + 1 /\ p = i
  <2>1. i \in 1 .. Full /\ m - 1 \in Nat
    BY <1>1, <1>6, Constants
  <2>2. n = m - 1 /\ i = p
    BY <1>5, <2>1, OnePage
  <2> QED BY <2>1, <2>2, Constants
<1>7. Covers(m - n, i)
  <2>1. PICK F \in Nat : F = Full
    BY <1>1
  <2>2. m \in Int /\ p \in 1 .. F
    BY <1>3, <2>1, Constants
  <2>3. F * (m - n) = F * (m - 1) + F - F * n /\ F * (m - 1) \in Int /\ F * n \in Int
    BY <2>1, <2>2
  <2>4. F * n + i = F * (m - 1) + p
    BY <1>5, <2>1
  <2> QED BY <2>1, <2>2, <2>3, <2>4 DEF Covers
<1> QED BY <1>2, <1>3, <1>4, <1>6, <1>7

\* The k-th message that was returned is message k, or its beginning.
LEMMA ReturnedMessage ==
  ASSUME IInv, FullInv, NEW k \in 1 .. Len(received)
  PROVE  received[k][1].msg = k
<1>1. TypeOK /\ ReturnedPages
  BY DEF IInv, PlaceInv
<1>2. PICK j \in Nat : j = k - 1 /\ k = j + 1 /\ Page(k) = Full * j
  <2>1. k - 1 \in Nat /\ k = (k - 1) + 1
    BY <1>1, HeldFacts
  <2> QED BY <2>1 DEF Page
<1>3. Page(k) + 1 <= Len(wire) /\ received[k][1] = wire[Page(k) + 1]
  <2>1. k \in DOMAIN received
    BY <1>1, HeldFacts
  <2> QED BY <1>1, <2>1 DEF ReturnedPages
<1>4. Full * j + 1 <= Len(wire) /\ 1 \in Nat \ {0} /\ 1 <= Full
  BY <1>2, <1>3, Constants
<1>5. wire[Full * j + 1].msg = j + 1
  BY <1>4, OnWirePage
<1> QED BY <1>2, <1>3, <1>5

\* What has been written and not returned begins with a page.
LEMMA Placed ==
  ASSUME IInv, FullInv, ~ Drained
  PROVE  /\ Full * Len(received) + Amount <= Len(wire)
         /\ conn # "reset" => Full * Len(received) + Amount = Len(wire)
         /\ \A i \in 1 .. Amount : (Held \o stream)[i] = wire[Full * Len(received) + i]
<1>1. TypeOK
  BY DEF IInv
<1>2. Follows(Page(Len(received) + 1))
  BY DEF IInv, PlaceInv
<1>3. PICK n \in Nat : n = Len(received)
  BY <1>1, HeldFacts
<1>4. PICK o \in Nat : o = Page(n + 1) /\ o = Full * n
  <2>1. Full * n \in Nat /\ (n + 1) - 1 = n
    BY Constants
  <2> QED BY <2>1 DEF Page
<1>5. PICK h, s, p :
        h \in Seq(Unit) /\ s \in Seq(Unit) /\ h = Held /\ s = stream /\ p = h \o s
  BY <1>1, HeldFacts, SeqFacts
<1>6. /\ o + Len(h) + Len(s) <= Len(wire)
      /\ conn # "reset" => o + Len(h) + Len(s) = Len(wire)
      /\ \A i \in DOMAIN h : h[i] = wire[o + i]
      /\ \A i \in DOMAIN s : s[i] = wire[o + Len(h) + i]
  BY <1>2, <1>3, <1>4, <1>5 DEF Follows
<1>7. /\ Len(h) \in Nat /\ Len(s) \in Nat /\ DOMAIN h = 1 .. Len(h) /\ DOMAIN s = 1 .. Len(s)
      /\ \A i \in 1 .. Len(h) : p[i] = h[i]
      /\ \A i \in 1 .. Len(s) : p[Len(h) + i] = s[i]
  BY <1>5, Joined
<1>8. ASSUME NEW i \in 1 .. Len(h) + Len(s)
      PROVE  p[i] = wire[o + i]
  <2>1. CASE i <= Len(h)
    <3>1. i \in 1 .. Len(h)
      BY <1>7, <2>1
    <3> QED BY <1>6, <1>7, <3>1
  <2>2. CASE ~ (i <= Len(h))
    <3>1. PICK e \in 1 .. Len(s) : i = Len(h) + e /\ o + i = o + Len(h) + e
      <4>1. /\ i - Len(h) \in 1 .. Len(s) /\ i = Len(h) + (i - Len(h))
            /\ o + i = o + Len(h) + (i - Len(h))
        BY <1>7, <2>2
      <4> QED BY <4>1
    <3> QED BY <1>6, <1>7, <3>1
  <2> QED BY <2>1, <2>2
<1>9. Amount = Len(h) + Len(s) /\ o + (Len(h) + Len(s)) = o + Len(h) + Len(s)
  BY <1>5, <1>7 DEF Amount
<1> QED BY <1>3, <1>4, <1>5, <1>6, <1>8, <1>9

\* The abstract queue: the messages after the last one returned of which there is a unit.
QueueFact ==
  /\ Amount \in Nat
  /\ \E c \in Nat : Covers(c, Amount)
  /\ \A c \in Nat : Covers(c, Amount) => InTransit = Run(Len(received), c)

LEMMA QueueIs == IInv /\ FullInv => QueueFact
<1> SUFFICES ASSUME IInv, FullInv PROVE QueueFact
  OBVIOUS
<1>1. TypeOK /\ Full \in Nat \ {0}
  BY Constants DEF IInv
<1>2. PICK h, s, p :
        h \in Seq(Unit) /\ s \in Seq(Unit) /\ h = Held /\ s = stream /\ p = h \o s
  BY <1>1, HeldFacts, SeqFacts
<1>3. PICK a \in Nat, n \in Nat :
        /\ a = Amount /\ a = Len(h) + Len(s) /\ n = Len(received)
        /\ p \in Seq(Unit) /\ Len(p) = a
  <2>1. p \in Seq(Unit) /\ Len(p) = Len(h) + Len(s)
    <3>1. IsJoined(p, h, s)
      BY <1>2, JoinedUnits, Zenon
    <3> QED BY <3>1 DEF IsJoined
  <2>2. Len(h) \in Nat /\ Len(s) \in Nat
    BY <1>2, LenProperties
  <2>3. Amount = Len(h) + Len(s) /\ Len(h) + Len(s) \in Nat /\ Len(received) \in Nat
    BY <1>1, <1>2, <2>2, HeldFacts DEF Amount
  <2> QED BY <2>1, <2>3
<1>4. InTransit = IF p = <<>> THEN <<>>
                  ELSE [k \in 1 .. p[Len(p)].msg - p[1].msg + 1 |-> p[1].msg + k - 1]
  BY <1>2, Zenon DEF InTransit, Held
<1>5. \E c \in Nat : Covers(c, a) /\ InTransit = Run(n, c)
  <2>1. CASE a = 0
    <3>1. p = <<>>
      BY <1>3, <2>1
    <3>2. Run(n, 0) = <<>>
      <4>1. Run(n, 0) \in Seq(Nat) /\ Len(Run(n, 0)) = 0
        BY <1>3, RunIsSeq
      <4> QED BY <4>1
    <3>3. Covers(0, a)
      BY <1>1, <2>1 DEF Covers
    <3> QED BY <1>4, <3>1, <3>2, <3>3
  <2>2. CASE a # 0
    <3>1. p # <<>>
      BY <1>3, <2>2
    <3>2. ~ Drained
      BY <1>2, <1>3, <2>2 DEF Drained
    <3>3. /\ Full * n + a <= Len(wire)
          /\ \A i \in 1 .. a : p[i] = wire[Full * n + i]
      BY <1>2, <1>3, <3>2, Placed
    <3>4. Full * n \in Nat /\ Len(wire) \in Nat
      BY <1>1, <1>3, SeqFacts
    <3>5. /\ p[1] = wire[Full * n + 1] /\ p[a] = wire[Full * n + a]
          /\ Full * n + 1 <= Len(wire) /\ a \in Nat \ {0} /\ 1 \in Nat \ {0} /\ 1 <= Full
      BY <1>1, <1>3, <2>2, <3>3, <3>4
    <3>6. p[1].msg = n + 1
      BY <3>5, OnWirePage, <1>3
    <3>7. p[a] \in Unit /\ Covers(p[a].msg - n, a)
      BY <1>3, <3>3, <3>5, OnWirePage
    <3>8. PICK m \in Int : m = p[a].msg
      BY <3>7, Constants DEF Unit
    <3>9. m - n \in Nat
      <4>1. SUFFICES ASSUME m - n < 0 PROVE FALSE
        BY <1>3, <3>8
      <4>2. PICK d \in Nat, F \in Nat : 0 - d = m - n /\ F = Full
        <5>1. 0 - (m - n) \in Nat /\ 0 - (0 - (m - n)) = m - n
          BY <4>1
        <5> QED BY <1>1, <5>1
      <4>3. F * (0 - d) = 0 - F * d /\ F * d \in Nat
        OBVIOUS
      <4>4. a <= F * (0 - d)
        BY <3>7, <3>8, <4>2 DEF Covers
      <4> QED BY <2>2, <4>3, <4>4
    <3>10. InTransit = Run(n, m - n)
      <4>1. InTransit = [k \in 1 .. m - (n + 1) + 1 |-> n + 1 + k - 1]
        BY <1>3, <1>4, <3>1, <3>6, <3>8
      <4>2. m - (n + 1) + 1 = m - n /\ \A k \in 1 .. m - n : n + 1 + k - 1 = n + k
        OBVIOUS
      <4> QED BY <4>1, <4>2 DEF Run
    <3> QED BY <3>7, <3>8, <3>9, <3>10
  <2> QED BY <2>1, <2>2
<1> QED BY <1>3, <1>5, CoversOnce DEF QueueFact

\* The messages of the buffers that were returned.
ReturnedFact == \A k \in 1 .. Len(received) : received[k][1].msg = k

LEMMA ReturnedIs == IInv /\ FullInv => ReturnedFact
BY ReturnedMessage DEF ReturnedFact

\* The same facts after a step.
LEMMA NextFacts ==
  ASSUME IInv', FullInv'
  PROVE  QueueFact' /\ ReturnedFact'
<1>1. IInv' /\ FullInv' => QueueFact' /\ ReturnedFact'
  BY QueueIs, ReturnedIs, PTL
<1> QED BY <1>1

\* The abstract fetches.
Fetched(b) == [msg |-> b[1].msg, ok |-> b[Full] # Zero]
Fetches(r) == [k \in DOMAIN r |-> Fetched(r[k])]

LEMMA FetchesAppend ==
  ASSUME NEW r \in Seq(Seq(Unit \cup {Zero})), NEW b \in Seq(Unit \cup {Zero}),
         NEW s, s = Append(r, b)
  PROVE  Fetches(s) = Append(Fetches(r), Fetched(b))
<1>1. PICK n \in Nat : n = Len(r) /\ DOMAIN r = 1 .. n
  BY LenProperties
<1>2. /\ s \in Seq(Seq(Unit \cup {Zero})) /\ Len(s) = n + 1 /\ s[n + 1] = b
      /\ \A k \in 1 .. n : s[k] = r[k]
  BY <1>1, AppendProperties
<1>3. DOMAIN s = 1 .. n + 1
  BY <1>2, LenProperties
<1>4. PICK f, g, e : f = Fetches(r) /\ g = Fetches(s) /\ e = Fetched(b)
  OBVIOUS
<1>5. f = [k \in 1 .. n |-> Fetched(r[k])] /\ g = [k \in 1 .. n + 1 |-> Fetched(s[k])]
  BY <1>1, <1>3, <1>4 DEF Fetches
<1>6. /\ \A k \in 1 .. n : g[k] = f[k] /\ k \in 1 .. n + 1
      /\ g[n + 1] = e /\ n + 1 \in 1 .. n + 1
  <2>1. n + 1 \in 1 .. n + 1 /\ \A k \in 1 .. n : k \in 1 .. n + 1
    OBVIOUS
  <2>2. ASSUME NEW k \in 1 .. n PROVE g[k] = f[k]
    BY <1>2, <1>5, <2>1
  <2> QED BY <1>2, <1>4, <1>5, <2>1, <2>2
<1>7. PICK S : S = {g[k] : k \in 1 .. n + 1}
  OBVIOUS
<1>8. g \in [1 .. n + 1 -> S] /\ f \in [1 .. n -> S] /\ e \in S
  <2>1. \A k \in 1 .. n + 1 : g[k] \in S
    BY <1>7
  <2>2. e \in S /\ \A k \in 1 .. n : f[k] \in S
    BY <1>6, <2>1
  <2> QED BY <1>5, <2>1, <2>2
<1>9. g \in Seq(S) /\ Len(g) = n + 1 /\ f \in Seq(S) /\ Len(f) = n
  <2>1. n + 1 \in Nat
    OBVIOUS
  <2>2. g \in Seq(S) /\ f \in Seq(S)
    BY <1>8, <2>1, SeqDef
  <2>3. DOMAIN g = 1 .. n + 1 /\ DOMAIN f = 1 .. n
    BY <1>8
  <2> QED BY <2>1, <2>2, <2>3, LenProperties
<1>10. PICK a : a = Append(f, e)
  OBVIOUS
<1>11. /\ a \in Seq(S) /\ Len(a) = n + 1 /\ a[n + 1] = e
       /\ \A k \in 1 .. n : a[k] = f[k]
  BY <1>8, <1>9, <1>10, AppendProperties
<1>12. \A k \in 1 .. Len(g) : g[k] = a[k]
  <2>1. ASSUME NEW k \in 1 .. n + 1 PROVE g[k] = a[k]
    <3>1. k = n + 1 \/ k \in 1 .. n
      OBVIOUS
    <3> QED BY <1>6, <1>11, <3>1
  <2> QED BY <1>9, <2>1
<1>13. g = a
  BY <1>9, <1>11, <1>12, SeqEqual
<1> QED BY <1>4, <1>10, <1>13

-----------------------------------------------------------------------------
(* Where every message fills a page, a header is found wherever a call begins to read.      *)

\* The call that has read something has read a header first.
LEMMA HeaderFirst ==
  ASSUME IInv, FullInv, NEW t \in Receivers, rpc[t] = "read",
         NEW n, NEW buffer, ReadsPart(t, n, buffer), buffer # <<>>
  PROVE  buffer[1].pos = 1
<1>1. TypeOK /\ Held = rbuf[t]
  BY HeldFacts DEF IInv, LockInv
<1>2. /\ stream \in Seq(Unit) /\ rbuf[t] \in Seq(Unit) /\ Len(rbuf[t]) \in Nat
      /\ Len(stream) \in Nat /\ DOMAIN stream = 1 .. Len(stream) /\ Len(wire) \in Nat
      /\ DOMAIN rbuf[t] = 1 .. Len(rbuf[t])
  BY <1>1, SeqFacts
<1>3. PICK h \in Nat, l \in Nat : h = Len(rbuf[t]) /\ l = Len(stream)
  BY <1>2
<1>4. /\ n \in Nat /\ n <= l /\ buffer \in Seq(Unit) /\ Len(buffer) = h + n
      /\ \A i \in 1 .. h : buffer[i] = rbuf[t][i]
      /\ \A i \in 1 .. n : buffer[h + i] = stream[i]
  BY <1>3 DEF ReadsPart
<1>5. h + n # 0
  BY <1>4, EmptySeq
<1>6. ~ Drained
  <2>1. SUFFICES ASSUME stream = <<>>, rbuf[t] = <<>> PROVE FALSE
    BY <1>1 DEF Drained
  <2>2. h = 0 /\ l = 0
    BY <1>3, <2>1
  <2> QED BY <1>4, <1>5, <2>2
<1>7. PICK k \in Nat, m \in Nat : k = Len(received) /\ m = Page(k + 1) /\ m = Full * k
  <2>1. Len(received) \in Nat
    BY <1>1, HeldFacts
  <2>2. PICK k \in Nat : k = Len(received)
    BY <2>1
  <2>3. Full * k \in Nat /\ (k + 1) - 1 = k
    BY Constants
  <2> QED BY <2>2, <2>3 DEF Page
<1>8. /\ m + h + l <= Len(wire)
      /\ \A i \in 1 .. h : rbuf[t][i] = wire[m + i]
      /\ \A i \in 1 .. l : stream[i] = wire[m + h + i]
  BY <1>1, <1>2, <1>3, <1>6, <1>7 DEF IInv, PlaceInv, Follows
<1>9. m + 1 <= Len(wire) /\ buffer[1] = wire[m + 1]
  <2>1. CASE h # 0
    <3>1. 1 \in 1 .. h /\ m + 1 <= Len(wire)
      BY <1>2, <1>8, <2>1
    <3> QED BY <1>4, <1>8, <3>1
  <2>2. CASE h = 0
    <3>1. /\ 1 \in 1 .. n /\ 1 \in 1 .. l /\ m + 1 <= Len(wire)
          /\ h + 1 = 1 /\ m + h + 1 = m + 1
      BY <1>2, <1>4, <1>5, <1>8, <2>2
    <3>2. buffer[h + 1] = stream[1] /\ stream[1] = wire[m + h + 1]
      BY <1>4, <1>8, <3>1
    <3> QED BY <3>1, <3>2
  <2> QED BY <2>1, <2>2
<1>10. Full * k + 1 <= Len(wire) /\ 1 \in Nat \ {0} /\ 1 <= Full
  BY <1>7, <1>9, Constants
<1> QED BY <1>7, <1>9, <1>10, OnWirePage

\* An oops comes only at the end of the stream, which stays its end.
LEMMA OopsStep ==
  ASSUME IInv, FullInv, OopsOnlyAtEnd, [Next]_vars
  PROVE  OopsOnlyAtEnd'
<1>t. TypeOK /\ LockInv
  BY DEF IInv
<1>1. ASSUME NEW t \in Receivers, RecvRead(t) \/ RecvEnd(t)
      PROVE  OopsOnlyAtEnd'
  <2>1. rpc[t] = "read" /\ conn' = conn /\ rlock = t
    BY <1>t, <1>1, ReadStep DEF LockInv
  <2>2. PICK n, b : ReadsPart(t, n, b)
    BY <1>t, <1>1, ReadStep
  <2>3. \A x \in Receivers : rpc[x] # "oops"
    BY <1>t, <2>1 DEF LockInv
  <2>4. CASE UNCHANGED rpc \/ Returns(t, b)
    <3>1. \A x \in Receivers : rpc'[x] # "oops"
      BY <1>t, <2>3, <2>4 DEF Returns, TypeOK
    <3> QED BY <3>1 DEF OopsOnlyAtEnd
  <2>5. CASE /\ Len(b) = Full \/ (conn # "up" /\ stream = <<>>)
             /\ Oopses(t, b)
    <3>1. b = <<>>
      BY <2>1, <2>2, <2>5, HeaderFirst DEF Oopses
    <3>2. conn # "up" /\ stream = <<>>
      <4>1. Len(b) = 0
        BY <3>1
      <4> QED BY <2>5, <4>1, Constants
    <3>3. rbuf'[t] = <<>>
      BY <1>t, <2>2, <3>1 DEF ReadsPart, TypeOK
    <3>4. stream' = <<>>
      <4>1. Len(stream) = 0
        BY <3>2
      <4>2. n \in Nat /\ n <= 0 /\ stream' \in Seq(Unit) /\ Len(stream') = 0 - n
        BY <2>2, <4>1 DEF ReadsPart
      <4>3. Len(stream') = 0
        BY <4>2
      <4> QED BY <4>2, <4>3, EmptySeq
    <3>5. \A x \in Receivers : rpc'[x] = "oops" => x = t
      BY <1>t, <2>3, <2>5 DEF Oopses, TypeOK
    <3> QED BY <2>1, <3>2, <3>3, <3>4, <3>5 DEF OopsOnlyAtEnd
  <2> QED BY <2>2, <2>4, <2>5 DEF ReadsPart
<1>2. ASSUME NEW t \in Receivers, RecvCall(t) \/ RecvStart(t) \/ RecvNoMemory(t) \/ RecvFails(t)
      PROVE  OopsOnlyAtEnd'
  <2>1. /\ UNCHANGED <<conn, stream>> /\ rpc'[t] # "oops"
        /\ \A x \in Receivers \ {t} : rpc'[x] = rpc[x] /\ rbuf'[x] = rbuf[x]
    BY <1>t, <1>2 DEF RecvCall, RecvStart, RecvNoMemory, RecvFails, TypeOK
  <2> QED BY <2>1 DEF OopsOnlyAtEnd
<1>3. ASSUME NEW t \in Senders, SendWrite(t)
      PROVE  OopsOnlyAtEnd'
  BY <1>3 DEF SendWrite, recvVars, OopsOnlyAtEnd
<1>4. CASE Reset
  BY <1>4 DEF Reset, recvVars, OopsOnlyAtEnd
<1>5. CASE UNCHANGED <<stream, rpc, rbuf>> /\ (conn # "up" => conn' # "up")
  BY <1>5 DEF OopsOnlyAtEnd
<1>6. ASSUME NEW t \in Senders, SendCall(t) \/ SendStart(t) \/ SendNoMemory(t) \/ SendFails(t)
      PROVE  OopsOnlyAtEnd'
  BY <1>5, <1>6 DEF SendCall, SendStart, SendNoMemory, SendFails, recvVars
<1>7. CASE ktcp_release \/ UNCHANGED vars
  BY <1>5, <1>7 DEF ktcp_release, recvVars, vars
<1> QED BY <1>1, <1>2, <1>3, <1>4, <1>6, <1>7, StepCases

\* If every message fills a page, build_ktcp_recv_output (ktcp.c:166-176) always finds the
\* header of a message at the beginning of the buffer, or an empty buffer at the end of the
\* stream: only there a call oopses.
THEOREM OopsAtEnd == ASSUME Sizes = {Full} PROVE Spec => []OopsOnlyAtEnd
<1>1. Init => OopsOnlyAtEnd
  BY DEF Init, OopsOnlyAtEnd
<1>2. IInv /\ FullInv /\ OopsOnlyAtEnd /\ [Next]_vars => OopsOnlyAtEnd'
  BY OopsStep
<1> QED BY <1>1, <1>2, FullInvariant, PTL DEF Spec

-----------------------------------------------------------------------------
(* The steps.  Each lemma is about one kind of abstract step.              *)

ChannelStep == [Channel!Next]_(Channel!vars)

\* A step that neither returns a buffer nor breaks the connection, and leaves as many pages
\* in transit as there were, is invisible.
LEMMA Invisible ==
  ASSUME IInv, FullInv, IInv', FullInv', received' = received, conn' = "reset" <=> conn = "reset",
         NEW c \in Nat, Covers(c, Amount), Covers(c, Amount')
  PROVE  ChannelStep
<1>1. InTransit = Run(Len(received), c) /\ InTransit' = Run(Len(received'), c)
  BY QueueIs, NextFacts DEF QueueFact
<1> QED BY <1>1 DEF ChannelStep, Channel!vars

LEMMA NothingMoves ==
  ASSUME IInv, FullInv, IInv', FullInv', received' = received, conn' = "reset" <=> conn = "reset",
         Amount' = Amount
  PROVE  ChannelStep
<1>1. PICK c \in Nat : Covers(c, Amount)
  BY QueueIs DEF QueueFact
<1>2. Covers(c, Amount')
  BY <1>1
<1> QED BY <1>1, <1>2, Invisible

\* The first write of a frame is an Accept.
LEMMA FirstWriteAccepts ==
  ASSUME IInv, FullInv, IInv', FullInv', received' = received, conn = "up", conn' = "up",
         nmsg \in 1 .. MaxMsgs, NEW c \in Nat, nmsg = Len(received) + c + 1,
         Covers(c, Amount), Covers(c + 1, Amount')
  PROVE  ChannelStep
<1>1. PICK n \in Nat, m \in 1 .. MaxMsgs : n = Len(received) /\ m = nmsg
  BY HeldFacts DEF IInv
<1>2. InTransit = Run(n, c)
  BY <1>1, QueueIs DEF QueueFact
<1>3. InTransit' = Run(n, c + 1)
  <2>1. c + 1 \in Nat /\ Len(received') = n
    BY <1>1
  <2> QED BY <2>1, NextFacts DEF QueueFact
<1>4. InTransit' = Append(InTransit, m)
  BY <1>1, <1>2, <1>3, LongerRun
<1>5. m \notin Channel!Known
  <2>1. \A k \in DOMAIN InTransit : InTransit[k] # m
    <3>1. DOMAIN InTransit = 1 .. c /\ \A k \in 1 .. c : InTransit[k] = n + k
      BY <1>2, RunIsSeq
    <3>2. \A k \in 1 .. c : n + k # m
      BY <1>1
    <3> QED BY <3>1, <3>2
  <2>2. \A k \in DOMAIN received : received[k][1].msg # m
    <3>1. DOMAIN received = 1 .. n
      BY <1>1, HeldFacts, LenProperties DEF IInv
    <3>2. \A k \in 1 .. n : received[k][1].msg = k
      BY <1>1, ReturnedIs DEF ReturnedFact
    <3>3. \A k \in 1 .. n : k # m
      BY <1>1
    <3> QED BY <3>1, <3>2, <3>3
  <2>3. PICK q, f : /\ q = InTransit
                    /\ f = [k \in DOMAIN received |->
                             [msg |-> received[k][1].msg, ok |-> received[k][Full] # Zero]]
    OBVIOUS
  <2>4. \A k \in DOMAIN f : f[k].msg # m
    BY <2>2, <2>3
  <2>5. Channel!Known = {q[k] : k \in DOMAIN q} \cup {f[k].msg : k \in DOMAIN f}
    BY <2>3 DEF Channel!Known, Channel!Elements
  <2>6. \A k \in DOMAIN q : q[k] # m
    BY <2>1, <2>3
  <2> QED BY <2>4, <2>5, <2>6
<1>6. Channel!Accept(m)
  BY <1>4, <1>5 DEF Channel!Accept
<1> QED BY <1>6 DEF ChannelStep, Channel!Next

\* A ktcp_receive that returns a buffer is a Fetch.
LEMMA ReturnFetches ==
  ASSUME IInv, FullInv, IInv', FullInv', NEW b \in Seq(Unit \cup {Zero}),
         received' = Append(received, b), conn' = conn, NEW c \in Nat, Covers(c + 1, Amount), Covers(c, Amount')
  PROVE  ChannelStep
<1>1. PICK r \in Seq(Seq(Unit \cup {Zero})), n \in Nat : r = received /\ n = Len(r) /\ n + 1 \in Nat
  <2>1. received \in Seq(Seq(Unit \cup {Zero})) /\ Len(received) \in Nat /\ Len(received) + 1 \in Nat
    BY HeldFacts DEF IInv
  <2> QED BY <2>1, Zenon
<1>2. PICK s : s = received' /\ s = Append(r, b)
  BY <1>1
<1>3. Len(s) = n + 1 /\ s[n + 1] = b
  BY <1>1, <1>2, AppendProperties
<1>4. b[1].msg = n + 1
  <2>1. \A k \in 1 .. Len(s) : s[k][1].msg = k
    BY <1>2, NextFacts DEF ReturnedFact
  <2>2. n + 1 \in 1 .. Len(s)
    BY <1>3
  <2> QED BY <1>3, <2>1, <2>2
<1>5. InTransit = Run(n, c + 1)
  <2>1. c + 1 \in Nat
    OBVIOUS
  <2> QED BY <1>1, <2>1, QueueIs DEF QueueFact
<1>6. InTransit' = Run(n + 1, c)
  BY <1>2, <1>3, NextFacts DEF QueueFact
<1>7. InTransit # <<>> /\ Head(InTransit) = b[1].msg /\ InTransit' = Tail(InTransit)
  BY <1>1, <1>4, <1>5, <1>6, ShorterRun
<1>8. PICK ok \in BOOLEAN : ok = (b[Full] # Zero)
  OBVIOUS
<1>9. Fetches(received') = Append(Fetches(received), [msg |-> Head(InTransit), ok |-> ok])
  <2>1. Fetches(s) = Append(Fetches(r), Fetched(b))
    BY <1>2, FetchesAppend
  <2>2. Fetched(b) = [msg |-> Head(InTransit), ok |-> ok]
    BY <1>7, <1>8 DEF Fetched
  <2> QED BY <1>1, <1>2, <2>1, <2>2, Zenon
<1>10. Channel!Fetch(ok)
  BY <1>7, <1>9 DEF Channel!Fetch, Fetches, Fetched
<1> QED BY <1>10 DEF ChannelStep, Channel!Next

\* What is lost after a reset is a Break.
LEMMA LossBreaks ==
  ASSUME IInv, FullInv, IInv', FullInv', received' = received, conn' = "reset", Amount' <= Amount
  PROVE  ChannelStep
<1>1. PICK n \in Nat : n = Len(received) /\ n = Len(received')
  BY HeldFacts DEF IInv
<1>2. PICK c \in Nat, a \in Nat : a = Amount /\ Covers(c, a) /\ InTransit = Run(n, c)
  BY <1>1, QueueIs DEF QueueFact
<1>3. PICK d \in Nat, e \in Nat : e = Amount' /\ Covers(d, e) /\ InTransit' = Run(n, d)
  BY <1>1, NextFacts DEF QueueFact
<1>4. d <= c
  <2>1. SUFFICES ASSUME c < d PROVE FALSE
    OBVIOUS
  <2>2. PICK g \in Nat : d = c + 1 + g
    <3>1. d - (c + 1) \in Nat /\ d = c + 1 + (d - (c + 1))
      BY <2>1
    <3> QED BY <3>1
  <2>3. PICK F \in Nat : F = Full
    BY Constants
  <2>4. F * d = F * c + F + F * g /\ F * g \in Nat /\ F * c \in Nat
    BY <2>2
  <2>5. a <= F * c /\ F * d < e + F /\ e <= a
    BY <1>2, <1>3, <2>3 DEF Covers
  <2> QED BY <2>4, <2>5
<1>5. d \in 0 .. c /\ Len(InTransit) = c /\ InTransit' = SubSeq(InTransit, 1, d)
  <2>1. d \in 0 .. c
    BY <1>4
  <2>2. Run(n, d) = SubSeq(Run(n, c), 1, d)
    BY <2>1, ShorterRun
  <2>3. Len(Run(n, c)) = c
    BY RunIsSeq
  <2> QED BY <1>2, <1>3, <2>1, <2>2, <2>3, Zenon
<1>6. Channel!Break(d)
  BY <1>5 DEF Channel!Break
<1> QED BY <1>5, <1>6 DEF ChannelStep, Channel!Next

-----------------------------------------------------------------------------
(* The refinement.                                                         *)

\* A write is an Accept of the message if it is the first of the frame; what follows it is
\* on a page that is in transit already.
LEMMA WriteImplements ==
  ASSUME IInv, FullInv, IInv', FullInv', NEW t \in Senders, SendWrite(t)
  PROVE  ChannelStep
<1>1. PICK u \in Nat \ {0} : WritesPart(t, u) /\ Written(t) + u <= Full
  BY WrittenPage
<1>2. PICK F \in Nat \ {0}, w \in Nat, n \in Nat, a \in Nat, m \in 1 .. MaxMsgs :
        F = Full /\ w = Written(t) /\ n = Len(received) /\ a = Amount /\ m = nmsg
  BY WrittenPage, QueueIs, SeqFacts, HeldFacts, Constants DEF IInv, QueueFact
<1>3. conn = "up" /\ conn' = "up" /\ received' = received /\ rlock' = rlock /\ rbuf' = rbuf
  BY WrittenPage, WriteStep DEF IInv, recvVars
<1>4. Amount' = a + u
  <2>1. Held' = Held /\ Len(stream') = Len(stream) + u
    BY <1>1, <1>3 DEF Held, WritesPart, Extends
  <2> QED BY <1>2, <2>1, HeldFacts, SeqFacts DEF IInv, Amount
<1>5. F * n + a = F * (m - 1) + w
  <2>1. ~ Drained
    BY <1>3 DEF Drained
  <2>2. Full * Len(received) + Amount = Len(wire)
    BY <1>3, <2>1, Placed
  <2> QED BY <1>2, <2>2, WrittenPage
<1>6. w + u <= F
  BY <1>1, <1>2
<1>7. PICK d \in Int : d = m - 1 - n /\ F * d = F * (m - 1) - F * n /\ F * (d + 1) = F * d + F
  <2>1. m - 1 - n \in Int /\ F * (m - 1 - n) = F * (m - 1) - F * n
    BY Constants
  <2>2. F * ((m - 1 - n) + 1) = F * (m - 1 - n) + F
    BY <2>1
  <2> QED BY <2>1, <2>2
<1>8. F * d \in Int /\ a = F * d + w
  <2>1. F * n \in Int /\ F * (m - 1) \in Int /\ F * d \in Int
    BY Constants
  <2> QED BY <1>5, <1>7, <2>1
<1>9. d \in Nat
  <2>1. SUFFICES ASSUME d < 0 PROVE FALSE
    OBVIOUS
  <2>2. PICK e \in Nat : d = 0 - 1 - e
    <3>1. 0 - 1 - d \in Nat /\ d = 0 - 1 - (0 - 1 - d)
      BY <2>1
    <3> QED BY <3>1
  <2>3. F * d = 0 - F - F * e /\ F * e \in Nat
    BY <2>2
  <2> QED BY <1>6, <1>8, <2>3
<1>10. CASE w = 0
  <2>1. Covers(d, Amount) /\ Covers(d + 1, Amount')
    BY <1>1, <1>2, <1>4, <1>6, <1>7, <1>8, <1>10 DEF Covers
  <2>2. nmsg = Len(received) + d + 1 /\ nmsg \in 1 .. MaxMsgs
    BY <1>2, <1>7, Constants
  <2> QED BY <1>3, <1>9, <2>1, <2>2, FirstWriteAccepts
<1>11. CASE w # 0
  <2>0. PICK q \in Int : q = F * d /\ F * (d + 1) = q + F /\ a = q + w
    BY <1>7, <1>8
  <2>1. d + 1 \in Nat /\ Covers(d + 1, Amount) /\ Covers(d + 1, Amount')
    <3>1. a <= q + F /\ q + F < a + F /\ a + u <= q + F /\ q + F < (a + u) + F
      BY <1>6, <1>11, <2>0
    <3> QED BY <1>2, <1>4, <1>9, <2>0, <3>1 DEF Covers
  <2> QED BY <1>3, <2>1, Invisible
<1> QED BY <1>10, <1>11

\* A read that fills the page, and the end of the stream, are a Fetch; the other reads
\* only move units.
LEMMA ReadImplements ==
  ASSUME IInv, FullInv, IInv', FullInv', NEW t \in Receivers, RecvRead(t) \/ RecvEnd(t)
  PROVE  ChannelStep
<1>1. TypeOK /\ rpc[t] = "read" /\ conn' = conn /\ rlock = t /\ t # NoThread
  BY ReadStep, Constants DEF IInv, LockInv
<1>2. PICK u \in Nat, b \in Seq(Unit) : ReadsPart(t, u, b)
  BY <1>1, ReadStep DEF ReadsPart
<1>3. PICK h \in Nat, l \in Nat : h = Len(rbuf[t]) /\ l = Len(stream) /\ Amount = h + l
  BY <1>1, HeldFacts, SeqFacts DEF Amount
<1>4. rbuf'[t] = b /\ Len(b) = h + u /\ Len(stream') = l - u /\ u <= l /\ h + u <= Full
  BY <1>1, <1>2, <1>3 DEF ReadsPart, TypeOK
<1>5. \/ UNCHANGED <<received, rlock>>
      \/ /\ Len(b) = Full \/ (conn # "up" /\ stream = <<>>)
         /\ Returns(t, b)
  BY <1>2 DEF ReadsPart, Oopses
<1>6. CASE UNCHANGED <<received, rlock>>
  <2>1. Held' = b
    BY <1>1, <1>4, <1>6 DEF Held
  <2>2. Amount' = Amount
    BY <1>3, <1>4, <2>1 DEF Amount
  <2> QED BY <1>1, <1>6, <2>2, NothingMoves
<1>7. CASE (Len(b) = Full \/ (conn # "up" /\ stream = <<>>)) /\ Returns(t, b)
  <2>1. PICK n \in 1 .. Full : received' = Append(received, Cut(b, n))
    BY <1>7 DEF Returns
  <2>2. PICK r \in Seq(Unit \cup {Zero}) : received' = Append(received, r)
    BY <2>1, CutFacts
  <2>3. Held' = <<>> /\ Len(<<>>) = 0
    BY <1>7 DEF Returns, Held
  <2>4. PICK a \in Nat : a = Amount' /\ a = l - u
    <3>1. l - u \in Nat /\ 0 + (l - u) = l - u
      BY <1>4
    <3> QED BY <1>4, <2>3, <3>1 DEF Amount
  <2>5. CASE Len(b) = Full
    <3>1. h + l = Full + a
      BY <1>4, <2>4, <2>5
    <3>2. PICK c \in Nat : Covers(c, a)
      BY <2>4, NextFacts DEF QueueFact
    <3>3. Covers(c + 1, Amount)
      <4>1. PICK F \in Nat : F = Full
        BY Constants
      <4>2. PICK q \in Nat : q = F * c /\ F * (c + 1) = q + F
        <5>1. F * c \in Nat /\ F * (c + 1) = F * c + F
          OBVIOUS
        <5> QED BY <5>1
      <4>3. a <= q /\ q < a + F
        BY <3>2, <4>1, <4>2 DEF Covers
      <4>4. Amount = F + a
        BY <1>3, <3>1, <4>1
      <4>5. F + a <= q + F /\ q + F < (F + a) + F
        BY <4>3
      <4> QED BY <4>1, <4>2, <4>4, <4>5 DEF Covers
    <3> QED BY <1>1, <2>2, <2>4, <3>2, <3>3, ReturnFetches
  <2>6. CASE stream = <<>>
    <3>1. l = 0 /\ u = 0 /\ a = 0 /\ Len(b) = h
      BY <1>3, <1>4, <2>4, <2>6
    <3>2. h # 0
      BY <1>7, <3>1, EmptySeq DEF Returns
    <3>3. Amount = h /\ h <= Full
      BY <1>3, <1>4, <3>1
    <3>4. Covers(0, Amount') /\ Covers(0 + 1, Amount)
      BY <2>4, <3>1, <3>2, <3>3, Constants DEF Covers
    <3> QED BY <1>1, <2>2, <3>4, ReturnFetches
  <2> QED BY <1>7, <2>5, <2>6
<1> QED BY <1>5, <1>6, <1>7

\* The initial state is an initial state of the channel.
LEMMA InitImplements == Init => Channel!Init
<1> SUFFICES ASSUME Init PROVE Channel!Init
  OBVIOUS
<1>1. Held = <<>> /\ stream = <<>> /\ <<>> \o <<>> = <<>>
  BY DEF Init, Held
<1>2. InTransit = <<>>
  BY <1>1 DEF InTransit, Held
<1>3. [k \in DOMAIN received |-> [msg |-> received[k][1].msg, ok |-> received[k][Full] # Zero]] = <<>>
  BY DEF Init
<1> QED BY <1>2, <1>3 DEF Init, Channel!Init

\* Every step of the data path is a step of the channel or invisible.
LEMMA StepImplements == IInv /\ FullInv /\ IInv' /\ FullInv' /\ [Next]_vars => ChannelStep
<1> SUFFICES ASSUME IInv, FullInv, IInv', FullInv', [Next]_vars PROVE ChannelStep
  OBVIOUS
<1>t. TypeOK
  BY DEF IInv
<1>1. ASSUME UNCHANGED <<stream, rlock, rbuf, received>>, conn' = "reset" <=> conn = "reset"
      PROVE  ChannelStep
  <2>1. Amount' = Amount
    BY <1>1 DEF Amount, Held
  <2> QED BY <1>1, <2>1, NothingMoves
<1>2. ASSUME NEW t \in Senders, SendCall(t) \/ SendStart(t) \/ SendNoMemory(t) \/ SendFails(t)
      PROVE  ChannelStep
  BY <1>1, <1>2 DEF SendCall, SendStart, SendNoMemory, SendFails, recvVars
<1>3. ASSUME NEW t \in Receivers, RecvCall(t) \/ RecvNoMemory(t)
      PROVE  ChannelStep
  BY <1>1, <1>3 DEF RecvCall, RecvNoMemory
<1>4. CASE ktcp_release \/ UNCHANGED vars
  BY <1>1, <1>4 DEF ktcp_release, recvVars, vars
<1>5. ASSUME NEW t \in Receivers, RecvStart(t)
      PROVE  ChannelStep
  <2>1. Held = <<>> /\ Held' = <<>> /\ UNCHANGED <<conn, stream, received>>
    BY <1>t, <1>5, Constants DEF RecvStart, Held, TypeOK
  <2>2. Amount' = Amount
    BY <2>1 DEF Amount
  <2> QED BY <2>1, <2>2, NothingMoves
<1>6. ASSUME NEW t \in Receivers, RecvFails(t)
      PROVE  ChannelStep
  <2>1. Held' = <<>> /\ UNCHANGED <<conn, stream, received>> /\ conn' = "reset"
    BY <1>6 DEF RecvFails, Held
  <2>2. Amount' <= Amount
    BY <1>t, <2>1, HeldFacts, SeqFacts DEF Amount
  <2> QED BY <2>1, <2>2, LossBreaks
<1>7. CASE Reset
  <2>1. UNCHANGED <<rlock, rbuf, received>> /\ conn' = "reset" /\ Len(stream') <= Len(stream)
    BY <1>t, <1>7, ResetStep DEF recvVars
  <2>2. Len(stream') \in Nat
    BY <1>t, <1>7, ResetStep
  <2>3. Held' = Held
    BY <2>1 DEF Held
  <2>4. Amount' <= Amount
    BY <1>t, <2>1, <2>2, <2>3, HeldFacts, SeqFacts DEF Amount
  <2> QED BY <2>1, <2>4, LossBreaks
<1> QED BY <1>2, <1>3, <1>4, <1>5, <1>6, <1>7, WriteImplements, ReadImplements, StepCases

\* Where every message fills a page, ktcp_send and ktcp_receive (ktcp.c:60-287) implement the
\* message channel but for the acknowledgements: for any number of threads, however the
\* sockets cut writes and reads, and whenever the connection is closed or reset, messages are
\* handed over once and in order.
THEOREM Refinement == ASSUME Sizes = {Full} PROVE Spec => ImplementsChannel
<1>1. IInv /\ FullInv /\ IInv' /\ FullInv' /\ [Next]_vars => [Channel!Next]_(Channel!vars)
  BY StepImplements DEF ChannelStep
<1> QED
  BY InitImplements, FullInvariant, <1>1, PTL DEF Spec, ImplementsChannel, Channel!Spec
=============================================================================
