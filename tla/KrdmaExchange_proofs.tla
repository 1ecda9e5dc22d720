------------------------ MODULE KrdmaExchange_proofs ------------------------
(* The exchange of the read/write mode, for any page, frames and sockets:   *)
(* its two directions are streams of ktcp, and it never gets anywhere while *)
(* its connection stands.                                                   *)
EXTENDS KrdmaExchange, KtcpStream_proofs

-----------------------------------------------------------------------------
(* Two streams.                                                            *)

\* Every step of an end is a step of either stream or leaves it alone.
LEMMA ForthStep == [XNext]_xvars => [Next]_vars
<1> SUFFICES ASSUME [XNext]_xvars PROVE [Next]_vars
  OBVIOUS
<1>1. ASSUME NEW c \in Senders, ClientStep(c)
      PROVE  [Next]_vars
  BY <1>1 DEF ClientStep, ClientConnects, ClientSends, ClientReceives, ClientReleases, Next
<1>2. ASSUME NEW s \in Receivers, ServerStep(s)
      PROVE  [Next]_vars
  BY <1>2 DEF ServerStep, ServerListens, ServerAccepts, ServerReceives, ServerSends,
              ServerReleases, Next
<1>3. CASE ConnectionLost \/ UNCHANGED xvars
  BY <1>3 DEF ConnectionLost, xvars, Next
<1> QED BY <1>1, <1>2, <1>3 DEF XNext

LEMMA BackStep == [XNext]_xvars => [Back!Next]_(Back!vars)
<1> SUFFICES ASSUME [XNext]_xvars PROVE [Back!Next]_(Back!vars)
  OBVIOUS
<1>0. UNCHANGED backVars => UNCHANGED Back!vars
  BY DEF backVars, Back!vars, Back!sendVars, Back!recvVars
<1>1. ASSUME NEW c \in Senders, ClientStep(c)
      PROVE  [Back!Next]_(Back!vars)
  BY <1>0, <1>1 DEF ClientStep, ClientConnects, ClientSends, ClientReceives, ClientReleases,
                    Back!Next
<1>2. ASSUME NEW s \in Receivers, ServerStep(s)
      PROVE  [Back!Next]_(Back!vars)
  BY <1>0, <1>2 DEF ServerStep, ServerListens, ServerAccepts, ServerReceives, ServerSends,
                    ServerReleases, Back!Next
<1>3. CASE ConnectionLost \/ UNCHANGED xvars
  BY <1>0, <1>3 DEF ConnectionLost, xvars, Back!Next
<1> QED BY <1>1, <1>2, <1>3 DEF XNext

\* Each direction of the exchange is a stream of ktcp, so that whatever holds of every
\* stream (KtcpStream_proofs) holds of both: pages in order, frames in one piece.
THEOREM Streams == XSpec => Spec /\ Back!Spec
<1>1. XInit => Init /\ Back!Init
  BY DEF XInit
<1> QED BY <1>1, ForthStep, BackStep, PTL DEF XSpec, Spec, Back!Spec

\* The inductive invariant of the stream from the client to the server, in the exchange.
LEMMA ForthInvariant == XSpec => []IInv
BY Streams, Invariant, PTL

-----------------------------------------------------------------------------
(* One client and one server, and frames of less than a page.              *)

\* The ends that there are, and what they send: a krdma_rw_info_t is not a page.
OnePair(c, s) == Senders = {c} /\ Receivers = {s} /\ c # s /\ Full \notin Sizes

XTypes ==
  xpc \in [Senders \cup Receivers ->
            {"connect", "listen", "accept", "send", "receive", "release", "returned",
             "oops"}]

\* The two directions are those of one connection.
OneLink == conn = "up" <=> bconn = "up"

\* The client sends once, less than a page.
ClientInv(c) ==
  /\ nmsg \in {0, 1} /\ Len(wire) < Full
  /\ nmsg = 0 => wire = <<>>
  /\ spc[c] # "write" /\ xpc[c] \in {"connect", "send"} => nmsg = 0
  /\ spc[c] = "write" => nmsg = 1 /\ Len(wire) = Written(c) /\ Len(sframe[c]) \in Sizes
  /\ xpc[c] # "send" => spc[c] = "idle"

\* While the connection stands neither end has received anything, and the server has not
\* begun to answer.
Waiting ==
  conn = "up" =>
    /\ received = <<>> /\ breceived = <<>>
    /\ bwire = <<>> /\ bstream = <<>>
    /\ \A s \in Receivers : xpc[s] # "send"

ExchangeInv(c) == XTypes /\ OneLink /\ ClientInv(c) /\ Waiting

LEMMA ExchangeInit ==
  ASSUME NEW c, NEW s, OnePair(c, s), XInit
  PROVE  ExchangeInv(c)
<1>1. XTypes /\ xpc[c] = "connect" /\ xpc[s] = "listen"
  BY DEF XInit, XTypes, OnePair
<1>2. OneLink /\ Waiting
  BY <1>1 DEF XInit, Init, Back!Init, OneLink, Waiting, OnePair
<1>3. ClientInv(c)
  <2>1. c \in Senders /\ spc[c] = "idle" /\ nmsg = 0 /\ wire = <<>>
    BY DEF XInit, Init, OnePair
  <2>2. Len(wire) < Full
    BY <2>1, Constants
  <2> QED BY <2>1, <2>2 DEF ClientInv
<1> QED BY <1>1, <1>2, <1>3 DEF ExchangeInv

\* The ends stay where there are names for it.
LEMMA PlacesOfEnds ==
  ASSUME XTypes, [XNext]_xvars
  PROVE  XTypes'
<1>1. ASSUME NEW c \in Senders, ClientStep(c)
      PROVE  XTypes'
  BY <1>1 DEF ClientStep, ClientConnects, ClientSends, ClientReceives, ClientReleases, Goto,
              XTypes
<1>2. ASSUME NEW s \in Receivers, ServerStep(s)
      PROVE  XTypes'
  BY <1>2 DEF ServerStep, ServerListens, ServerAccepts, ServerReceives, ServerSends,
              ServerReleases, Goto, XTypes
<1>3. CASE ConnectionLost \/ UNCHANGED xvars
  BY <1>3 DEF ConnectionLost, xvars, XTypes
<1> QED BY <1>1, <1>2, <1>3 DEF XNext

\* The steps of a call leave the connection as it is.
LEMMA CallsKeepLink ==
  /\ \A c \in Senders : SendCall(c) \/ SendStep(c) => UNCHANGED conn /\ UNCHANGED recvVars
  /\ \A s \in Receivers : RecvCall(s) \/ RecvStep(s) => UNCHANGED conn /\ UNCHANGED sendVars
                                                    /\ UNCHANGED wire
  /\ \A s \in Receivers : Back!SendCall(s) \/ Back!SendStep(s) => UNCHANGED bconn
  /\ \A c \in Senders : Back!RecvCall(c) \/ Back!RecvStep(c) =>
       UNCHANGED bconn /\ UNCHANGED bwire
<1>1. ASSUME NEW c \in Senders, SendCall(c) \/ SendStep(c)
      PROVE  UNCHANGED conn /\ UNCHANGED recvVars
  BY <1>1 DEF SendCall, SendStep, SendStart, SendNoMemory, SendWrite, SendFails
<1>2. ASSUME NEW s \in Receivers, RecvCall(s) \/ RecvStep(s)
      PROVE  UNCHANGED conn /\ UNCHANGED sendVars /\ UNCHANGED wire
  BY <1>2 DEF RecvCall, RecvStep, RecvStart, RecvNoMemory, RecvRead, RecvEnd, RecvFails
<1>3. ASSUME NEW s \in Receivers, Back!SendCall(s) \/ Back!SendStep(s)
      PROVE  UNCHANGED bconn
  BY <1>3 DEF Back!SendCall, Back!SendStep, Back!SendStart, Back!SendNoMemory,
              Back!SendWrite, Back!SendFails
<1>4. ASSUME NEW c \in Senders, Back!RecvCall(c) \/ Back!RecvStep(c)
      PROVE  UNCHANGED bconn /\ UNCHANGED bwire
  BY <1>4 DEF Back!RecvCall, Back!RecvStep, Back!RecvStart, Back!RecvNoMemory,
              Back!RecvRead, Back!RecvEnd, Back!RecvFails
<1> QED BY <1>1, <1>2, <1>3, <1>4

\* The two directions break together.
LEMMA LinkStep ==
  ASSUME OneLink, [XNext]_xvars
  PROVE  OneLink' /\ (conn' = "up" => conn = "up")
<1>0. /\ UNCHANGED vars => UNCHANGED conn
      /\ UNCHANGED backVars => UNCHANGED bconn
  BY DEF vars, backVars
<1>1. ASSUME NEW c \in Senders, ClientStep(c)
      PROVE  OneLink' /\ (conn' = "up" => conn = "up")
  <2>1. CASE ClientConnects(c)
    BY <1>0, <2>1 DEF ClientConnects, OneLink
  <2>2. CASE ClientSends(c)
    BY <1>0, <2>2, CallsKeepLink DEF ClientSends, OneLink
  <2>3. CASE ClientReceives(c)
    BY <1>0, <2>3, CallsKeepLink DEF ClientReceives, OneLink
  <2>4. CASE ClientReleases(c)
    BY <1>0, <2>4 DEF ClientReleases, ktcp_release, Back!Reset, OneLink
  <2> QED BY <1>1, <2>1, <2>2, <2>3, <2>4 DEF ClientStep
<1>2. ASSUME NEW s \in Receivers, ServerStep(s)
      PROVE  OneLink' /\ (conn' = "up" => conn = "up")
  <2>1. CASE ServerListens(s) \/ ServerAccepts(s)
    BY <1>0, <2>1 DEF ServerListens, ServerAccepts, OneLink
  <2>2. CASE ServerReceives(s)
    BY <1>0, <2>2, CallsKeepLink DEF ServerReceives, OneLink
  <2>3. CASE ServerSends(s)
    BY <1>0, <2>3, CallsKeepLink DEF ServerSends, OneLink
  <2>4. CASE ServerReleases(s)
    BY <1>0, <2>4 DEF ServerReleases, Reset, Back!ktcp_release, OneLink
  <2> QED BY <1>2, <2>1, <2>2, <2>3, <2>4 DEF ServerStep
<1>3. CASE ConnectionLost
  BY <1>3 DEF ConnectionLost, Reset, Back!Reset, OneLink
<1>4. CASE UNCHANGED xvars
  BY <1>0, <1>4 DEF xvars, OneLink
<1> QED BY <1>1, <1>2, <1>3, <1>4 DEF XNext

\* While the connection stands, what was returned has filled its page.
PagesFit == conn = "up" /\ received # <<>> => Full <= Len(wire)

LEMMA FitsReceived == IInv => PagesFit
<1> SUFFICES ASSUME IInv, conn = "up", received # <<>> PROVE Full <= Len(wire)
  BY DEF PagesFit
<1>1. TypeOK /\ PlaceInv /\ ~ Drained
  BY DEF IInv, Drained
<1>2. PICK k \in Nat \ {0} : k = Len(received)
  <2>1. Len(received) \in Nat /\ Len(received) # 0
    BY <1>1, HeldFacts, EmptySeq
  <2> QED BY <2>1
<1>3. Follows(Page(k + 1))
  BY <1>1, <1>2 DEF PlaceInv
<1>4. PICK m \in Nat, F \in Nat : m + F = Page(k + 1) /\ F = Full
  BY <1>2, PageFacts, Constants
<1>5. (m + F) + Len(Held) + Len(stream) <= Len(wire)
  BY <1>3, <1>4 DEF Follows
<1>6. Len(Held) \in Nat /\ Len(stream) \in Nat /\ Len(wire) \in Nat
  BY <1>1, HeldFacts, SeqFacts
<1> QED BY <1>4, <1>5, <1>6

\* What ClientSends keeps of the client's part.
LEMMA ClientSendsStep ==
  ASSUME NEW c, NEW s, OnePair(c, s), IInv, XTypes, ClientInv(c), ClientSends(c)
  PROVE  ClientInv(c)'
<1>1. /\ c \in Senders /\ TypeOK /\ spc \in [Senders -> {"idle", "lock", "write"}]
      /\ xpc[c] = "send" /\ (SendCall(c) \/ SendStep(c))
      /\ xpc'[c] = IF spc'[c] # "idle" THEN "send"
                   ELSE IF acked' # acked THEN "receive" ELSE "release"
  BY DEF OnePair, IInv, TypeOK, ClientSends, Goto, XTypes
<1>2. /\ nmsg \in {0, 1} /\ Len(wire) < Full
      /\ nmsg = 0 => wire = <<>>
      /\ spc[c] # "write" => nmsg = 0
      /\ spc[c] = "write" => nmsg = 1 /\ Len(wire) = Written(c) /\ Len(sframe[c]) \in Sizes
  BY <1>1 DEF ClientInv
<1>3. xpc'[c] # "connect" /\ (xpc'[c] # "send" <=> spc'[c] = "idle")
  BY <1>1
<1>4. CASE SendCall(c) \/ SendNoMemory(c)
  <2>1. UNCHANGED <<nmsg, wire, sframe, left>> /\ spc[c] # "write" /\ spc'[c] # "write"
    BY <1>1, <1>4 DEF SendCall, SendNoMemory
  <2> QED BY <1>2, <1>3, <2>1 DEF ClientInv
<1>5. CASE SendStart(c)
  <2>1. /\ spc[c] = "lock" /\ nmsg' = nmsg + 1 /\ wire' = wire
        /\ spc' = [spc EXCEPT ![c] = "write"]
    BY <1>5 DEF SendStart
  <2>2. PICK n \in Sizes : /\ sframe' = [sframe EXCEPT ![c] = Frame(nmsg + 1, n)]
                           /\ left' = [left EXCEPT ![c] = n]
    BY <1>5 DEF SendStart
  <2>3. nmsg = 0 /\ wire = <<>> /\ nmsg' = 1 /\ spc'[c] = "write"
    BY <1>1, <1>2, <2>1
  <2>4. nmsg + 1 \in 1 .. MaxMsgs
    BY <1>5, <2>3, Constants DEF SendStart
  <2>5. Len(Frame(nmsg + 1, n)) = n
    BY <2>4, FrameFacts
  <2>6. sframe'[c] = Frame(nmsg + 1, n) /\ left'[c] = n
    BY <1>1, <2>2 DEF TypeOK
  <2>7. n \in Nat
    BY Constants
  <2>8. Written(c)' = 0 /\ Len(wire') = 0 /\ Len(sframe'[c]) \in Sizes /\ Len(wire') < Full
    BY <2>1, <2>3, <2>5, <2>6, <2>7, Constants DEF Written
  <2> QED BY <1>3, <2>3, <2>8 DEF ClientInv
<1>6. CASE SendWrite(c)
  <2>1. spc[c] = "write" /\ UNCHANGED <<sframe, nmsg>>
    BY <1>1, <1>6, WriteStep
  <2>2. PICK n : WritesPart(c, n)
    BY <1>1, <1>6, WriteStep
  <2>3. /\ n \in 1 .. left[c] /\ Len(wire') = Len(wire) + n
        /\ left' = [left EXCEPT ![c] = left[c] - n]
        /\ spc'[c] \in {"idle", "write"}
    BY <1>1, <2>1, <2>2 DEF WritesPart, Extends
  <2>4. /\ left[c] \in Nat /\ Written(c) + left[c] = Len(sframe[c]) /\ Written(c) \in Nat
        /\ Len(sframe[c]) \in Nat
    BY <1>1, SeqFacts
  <2>5. Len(wire) = Written(c) /\ Len(sframe[c]) \in Sizes
    BY <1>2, <2>1
  <2>6. left'[c] = left[c] - n
    BY <1>1, <2>3 DEF TypeOK
  <2>7. Written(c)' = Written(c) + n
    BY <2>1, <2>3, <2>4, <2>6 DEF Written
  <2>8. Len(sframe[c]) < Full
    BY <2>5, Constants DEF OnePair
  <2>9. Len(wire') = Written(c)' /\ Len(wire') < Full
    BY <2>3, <2>4, <2>5, <2>7, <2>8, Constants
  <2>10. nmsg' = 1
    BY <1>2, <2>1
  <2> QED BY <1>3, <2>1, <2>3, <2>5, <2>9, <2>10 DEF ClientInv
<1>7. CASE SendFails(c)
  <2>1. spc'[c] = "idle" /\ UNCHANGED <<nmsg, wire, sframe, left>>
    BY <1>1, <1>7 DEF SendFails
  <2>2. spc'[c] # "write"
    BY <2>1
  <2> QED BY <1>2, <1>3, <2>1, <2>2 DEF ClientInv
<1> QED BY <1>1, <1>4, <1>5, <1>6, <1>7 DEF SendStep

\* The other steps leave the client's frame and the wire as they are.
LEMMA ClientKeeps ==
  ASSUME NEW c, NEW s, OnePair(c, s), IInv, XTypes, ClientInv(c), [XNext]_xvars
  PROVE  ClientInv(c)'
<1>0. c \in Senders /\ s \in Receivers /\ c # s
  BY DEF OnePair
<1>1. /\ UNCHANGED vars => UNCHANGED <<nmsg, wire, spc, sframe, left>>
      /\ UNCHANGED sendVars => UNCHANGED <<nmsg, spc, sframe, left>>
  BY DEF vars, sendVars
<1> DEFINE Same == UNCHANGED <<nmsg, wire, spc, sframe, left>>
<1>2. ASSUME Same, xpc'[c] = "send" => xpc[c] \in {"connect", "send"},
             xpc'[c] = "connect" => xpc[c] = "connect",
             xpc[c] = "send" => xpc'[c] = "send"
      PROVE  ClientInv(c)'
  BY <1>2 DEF ClientInv, Written
<1>3. CASE ClientSends(c)
  BY <1>3, ClientSendsStep
<1>4. CASE ClientConnects(c)
  <2>1. Same
    BY <1>1, <1>4 DEF ClientConnects
  <2>2. xpc[c] = "connect" /\ xpc'[c] \in {"send", "release", "oops"}
    BY <1>0, <1>4 DEF ClientConnects, Goto, XTypes
  <2> QED BY <1>2, <2>1, <2>2
<1>5. CASE ClientReceives(c)
  <2>1. Same
    BY <1>1, <1>5 DEF ClientReceives
  <2>2. xpc[c] = "receive" /\ xpc'[c] \in {"receive", "release"}
    BY <1>0, <1>5 DEF ClientReceives, Goto, XTypes
  <2> QED BY <1>2, <2>1, <2>2
<1>6. CASE ClientReleases(c)
  <2>1. Same
    BY <1>1, <1>6 DEF ClientReleases, ktcp_release
  <2>2. xpc[c] = "release" /\ xpc'[c] = "returned"
    BY <1>0, <1>6 DEF ClientReleases, Goto, XTypes
  <2> QED BY <1>2, <2>1, <2>2
<1>7. CASE ServerStep(s)
  <2>1. xpc'[c] = xpc[c]
    BY <1>0, <1>7 DEF ServerStep, ServerListens, ServerAccepts, ServerReceives, ServerSends,
                      ServerReleases, Goto, XTypes
  <2>2. CASE ServerReceives(s)
    <3>1. UNCHANGED sendVars /\ UNCHANGED wire
      BY <1>0, <2>2, CallsKeepLink DEF ServerReceives
    <3>2. Same
      BY <1>1, <3>1
    <3> QED BY <1>2, <2>1, <3>2
  <2>3. CASE ServerReleases(s)
    <3>1. Same
      BY <1>1, <2>3 DEF ServerReleases, Reset
    <3> QED BY <1>2, <2>1, <3>1
  <2>4. CASE ServerListens(s) \/ ServerAccepts(s) \/ ServerSends(s)
    <3>1. Same
      BY <1>1, <2>4 DEF ServerListens, ServerAccepts, ServerSends
    <3> QED BY <1>2, <2>1, <3>1
  <2> QED BY <1>7, <2>2, <2>3, <2>4 DEF ServerStep
<1>8. CASE ConnectionLost
  <2>1. Same /\ xpc' = xpc
    BY <1>1, <1>8 DEF ConnectionLost, Reset
  <2> QED BY <1>2, <2>1
<1>9. CASE UNCHANGED xvars
  <2>1. Same /\ xpc' = xpc
    BY <1>1, <1>9 DEF xvars
  <2> QED BY <1>2, <2>1
<1> QED BY <1>3, <1>4, <1>5, <1>6, <1>7, <1>8, <1>9 DEF XNext, ClientStep, OnePair

\* While the connection stands, ktcp_receive has no page to return, and no end of the
\* stream to return at.
LEMMA ServerWaits ==
  ASSUME NEW c, NEW s, OnePair(c, s), IInv, IInv', ClientInv(c), conn = "up",
         RecvCall(s) \/ RecvStep(s)
  PROVE  received' = <<>>
<1>1. wire' = wire /\ conn' = "up" /\ Len(wire) < Full
  BY CallsKeepLink DEF OnePair, ClientInv
<1>2. Len(wire) \in Nat /\ Full \in Nat
  BY SeqFacts, Constants DEF IInv
<1>3. IInv' => PagesFit'
  BY FitsReceived, PTL
<1> QED BY <1>1, <1>2, <1>3 DEF PagesFit

\* Nor has the client.
LEMMA ClientWaits ==
  ASSUME NEW c \in Senders, Waiting, conn = "up", bconn = "up",
         Back!RecvCall(c) \/ Back!RecvStep(c)
  PROVE  UNCHANGED <<breceived, bwire, bstream>>
<1>1. CASE Back!RecvRead(c)
  <2>1. PICK n \in 1 .. Full - Len(brbuf[c]) : n <= Len(bstream)
    BY <1>1 DEF Back!RecvRead
  <2>2. Len(bstream) = 0
    BY DEF Waiting
  <2> QED BY <2>1, <2>2
<1>2. CASE Back!RecvEnd(c) \/ Back!RecvFails(c)
  BY <1>2 DEF Back!RecvEnd, Back!RecvFails
<1>3. CASE Back!RecvCall(c) \/ Back!RecvStart(c) \/ Back!RecvNoMemory(c)
  BY <1>3 DEF Back!RecvCall, Back!RecvStart, Back!RecvNoMemory
<1> QED BY <1>1, <1>2, <1>3 DEF Back!RecvStep

LEMMA WaitingStep ==
  ASSUME NEW c, NEW s, OnePair(c, s), IInv, IInv', ExchangeInv(c), [XNext]_xvars
  PROVE  Waiting'
<1>1. SUFFICES ASSUME conn' = "up" PROVE Waiting'
  BY DEF Waiting
<1>2. /\ c \in Senders /\ s \in Receivers /\ c # s /\ \A r \in Receivers : r = s
      /\ XTypes /\ ClientInv(c) /\ Waiting /\ OneLink
  BY DEF OnePair, ExchangeInv
<1>3. conn = "up" /\ bconn = "up" /\ bconn' = "up"
  BY <1>1, <1>2, LinkStep DEF OneLink
<1>4. /\ received = <<>> /\ breceived = <<>> /\ bwire = <<>> /\ bstream = <<>>
      /\ xpc[s] # "send"
  BY <1>2, <1>3 DEF Waiting
<1>5. /\ UNCHANGED vars => UNCHANGED <<conn, received>>
      /\ UNCHANGED recvVars => UNCHANGED received
      /\ UNCHANGED backVars => UNCHANGED <<bconn, breceived, bwire, bstream>>
  BY DEF vars, recvVars, backVars
<1>6. ASSUME received' = <<>>, UNCHANGED <<breceived, bwire, bstream>>, xpc'[s] # "send"
      PROVE  Waiting'
  BY <1>2, <1>4, <1>6 DEF Waiting
<1>7. CASE ClientStep(c)
  <2>1. xpc'[s] = xpc[s]
    BY <1>2, <1>7 DEF ClientStep, ClientConnects, ClientSends, ClientReceives, ClientReleases,
                      Goto, XTypes
  <2>2. CASE ClientConnects(c)
    BY <1>4, <1>5, <1>6, <2>1, <2>2 DEF ClientConnects
  <2>3. CASE ClientSends(c)
    <3>1. UNCHANGED recvVars /\ UNCHANGED backVars
      BY <1>2, <2>3, CallsKeepLink DEF ClientSends
    <3> QED BY <1>4, <1>5, <1>6, <2>1, <3>1
  <2>4. CASE ClientReceives(c)
    <3>1. UNCHANGED vars /\ (Back!RecvCall(c) \/ Back!RecvStep(c))
      BY <2>4 DEF ClientReceives
    <3>2. UNCHANGED <<breceived, bwire, bstream>>
      BY <1>2, <1>3, <3>1, ClientWaits
    <3> QED BY <1>4, <1>5, <1>6, <2>1, <3>1, <3>2
  <2>5. CASE ClientReleases(c)
    <3>1. ~ linked /\ UNCHANGED vars /\ UNCHANGED backVars
      BY <1>1, <1>3, <2>5 DEF ClientReleases, ktcp_release
    <3> QED BY <1>4, <1>5, <1>6, <2>1, <3>1
  <2> QED BY <1>7, <2>2, <2>3, <2>4, <2>5 DEF ClientStep
<1>8. CASE ServerStep(s)
  <2>1. CASE ServerListens(s) \/ ServerAccepts(s)
    <3>1. xpc'[s] # "send" /\ UNCHANGED vars /\ UNCHANGED backVars
      BY <1>2, <2>1 DEF ServerListens, ServerAccepts, Goto, XTypes
    <3> QED BY <1>4, <1>5, <1>6, <3>1
  <2>2. CASE ServerReceives(s)
    <3>1. /\ RecvCall(s) \/ RecvStep(s)
          /\ UNCHANGED backVars
          /\ Goto(s, IF rpc'[s] # "idle" THEN "receive"
                     ELSE IF received' # received THEN "send" ELSE "release")
      BY <2>2 DEF ServerReceives
    <3>2. received' = <<>>
      BY <1>2, <1>3, <3>1, ServerWaits
    <3>3. xpc'[s] # "send"
      BY <1>2, <1>4, <3>1, <3>2 DEF Goto, XTypes
    <3> QED BY <1>5, <1>6, <3>1, <3>2, <3>3
  <2>3. CASE ServerSends(s)
    BY <1>4, <2>3 DEF ServerSends
  <2>4. CASE ServerReleases(s)
    <3>1. xpc'[s] # "send" /\ UNCHANGED vars /\ UNCHANGED backVars
      BY <1>1, <1>2, <1>3, <2>4 DEF ServerReleases, Reset, Goto, XTypes
    <3> QED BY <1>4, <1>5, <1>6, <3>1
  <2> QED BY <1>8, <2>1, <2>2, <2>3, <2>4 DEF ServerStep
<1>9. CASE ConnectionLost
  BY <1>1, <1>9 DEF ConnectionLost, Reset
<1>10. CASE UNCHANGED xvars
  <2>1. UNCHANGED vars /\ UNCHANGED backVars /\ xpc' = xpc
    BY <1>10 DEF xvars
  <2> QED BY <1>4, <1>5, <1>6, <2>1
<1> QED BY <1>2, <1>7, <1>8, <1>9, <1>10 DEF XNext, OnePair

\* The exchange does not do what it is for (krdma.c:1311-1398): as long as the connection
\* stands, neither end has been handed anything and the server has not begun to answer.
\* Each ktcp_receive waits for a page, which no frame fills.
THEOREM NothingExchanged ==
  ASSUME NEW c, NEW s, OnePair(c, s)
  PROVE  XSpec => []Waiting
<1>1. XInit => ExchangeInv(c)
  BY ExchangeInit
<1>2. IInv /\ IInv' /\ ExchangeInv(c) /\ [XNext]_xvars => ExchangeInv(c)'
  <2> SUFFICES ASSUME IInv, IInv', ExchangeInv(c), [XNext]_xvars
               PROVE  ExchangeInv(c)'
    OBVIOUS
  <2>1. XTypes' /\ OneLink'
    BY PlacesOfEnds, LinkStep DEF ExchangeInv
  <2>2. ClientInv(c)'
    BY ClientKeeps DEF ExchangeInv
  <2>3. Waiting'
    BY WaitingStep
  <2> QED BY <2>1, <2>2, <2>3 DEF ExchangeInv
<1>3. ExchangeInv(c) => Waiting
  BY DEF ExchangeInv
<1> QED BY <1>1, <1>2, <1>3, ForthInvariant, PTL DEF XSpec

=============================================================================
