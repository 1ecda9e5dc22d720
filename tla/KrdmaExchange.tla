---------------------------- MODULE KrdmaExchange ----------------------------
(***************************************************************************)
(* krdma_rw_init_client and krdma_rw_init_server once the RDMA connection  *)
(* stands: the two ends tell each other their krdma_rw_info_t over a TCP   *)
(* connection of their own.  The module extends KtcpStream for the bytes   *)
(* from the client to the server and instantiates it, as Back, for the     *)
(* other direction; Senders holds the client's thread and Receivers the    *)
(* server's.  Sizes is the size of the one frame each of them sends, less  *)
(* than a page.                                                            *)
(***************************************************************************)
EXTENDS KtcpStream

VARIABLES
  xpc,          \* where each end is
  linked,       \* the TCP connection has been made
  bconn, bslock, bspc, bsframe, bleft, bstream, brlock, brpc, brbuf, bnmsg, bwire,
  breceived, backed     \* the variables of KtcpStream, from the server to the client

backVars == <<bconn, bslock, bspc, bsframe, bleft, bstream, brlock, brpc, brbuf, bnmsg,
              bwire, breceived, backed>>
xvars    == <<vars, xpc, linked, backVars>>

Back == INSTANCE KtcpStream WITH
  Senders <- Receivers, Receivers <- Senders,
  conn <- bconn, slock <- bslock, spc <- bspc, sframe <- bsframe, left <- bleft,
  stream <- bstream, rlock <- brlock, rpc <- brpc, rbuf <- brbuf, nmsg <- bnmsg,
  wire <- bwire, received <- breceived, acked <- backed

XInit ==
  /\ Init /\ Back!Init
  /\ xpc = [t \in Senders \cup Receivers |-> IF t \in Senders THEN "connect" ELSE "listen"]
  /\ linked = FALSE

Goto(t, pc) == xpc' = [xpc EXCEPT ![t] = pc]

-----------------------------------------------------------------------------
(* krdma_exch_info_client.                                                 *)

\* Only a server that listens already can be reached.  Here and on the other end a failing
\* ktcp_create_cb is only printed, and the store through the uninitialized cb that follows
\* is an oops unless it happens to work.
ClientConnects(c) ==
  /\ xpc[c] = "connect"
  /\ \/ /\ \E s \in Receivers : xpc[s] \in {"accept", "oops"}
        /\ linked' = TRUE /\ (Goto(c, "send") \/ Goto(c, "oops"))
     \/ Goto(c, "release") /\ UNCHANGED linked
  /\ UNCHANGED <<vars, backVars>>

\* ktcp_send, and what comes after it.
ClientSends(c) ==
  /\ xpc[c] = "send"
  /\ SendCall(c) \/ SendStep(c)
  /\ Goto(c, IF spc'[c] # "idle" THEN "send"
             ELSE IF acked' # acked THEN "receive" ELSE "release")
  /\ UNCHANGED <<linked, backVars>>

ClientReceives(c) ==
  /\ xpc[c] = "receive"
  /\ Back!RecvCall(c) \/ Back!RecvStep(c)
  /\ Goto(c, IF brpc'[c] = "idle" THEN "release" ELSE "receive")
  /\ UNCHANGED <<linked, vars>>

\* krdma_rw_init_client releases and frees everything, after an exchange that worked
\* too: krdma_exch_info_client returns the length with a minus sign.
ClientReleases(c) ==
  /\ xpc[c] = "release"
  /\ IF linked /\ conn = "up" THEN ktcp_release ELSE UNCHANGED vars
  /\ IF linked /\ bconn = "up" THEN Back!Reset ELSE UNCHANGED backVars
  /\ Goto(c, "returned")
  /\ UNCHANGED linked

-----------------------------------------------------------------------------
(* krdma_exch_info_server.                                                 *)

ServerListens(s) ==
  /\ xpc[s] = "listen"
  /\ Goto(s, "accept") \/ Goto(s, "oops") \/ Goto(s, "returned")
  /\ UNCHANGED <<vars, linked, backVars>>

ServerAccepts(s) ==
  /\ xpc[s] = "accept"
  /\ (linked /\ (Goto(s, "receive") \/ Goto(s, "oops"))) \/ Goto(s, "release")
  /\ UNCHANGED <<vars, linked, backVars>>

ServerReceives(s) ==
  /\ xpc[s] = "receive"
  /\ RecvCall(s) \/ RecvStep(s)
  /\ Goto(s, IF rpc'[s] # "idle" THEN "receive"
             ELSE IF received' # received THEN "send" ELSE "release")
  /\ UNCHANGED <<linked, backVars>>

ServerSends(s) ==
  /\ xpc[s] = "send"
  /\ Back!SendCall(s) \/ Back!SendStep(s)
  /\ Goto(s, IF bspc'[s] # "idle" THEN "send" ELSE "release")
  /\ UNCHANGED <<linked, vars>>

\* krdma_rw_init_server gives up in the same way.
ServerReleases(s) ==
  /\ xpc[s] = "release"
  /\ IF linked /\ bconn = "up" THEN Back!ktcp_release ELSE UNCHANGED backVars
  /\ IF linked /\ conn = "up" THEN Reset ELSE UNCHANGED vars
  /\ Goto(s, "returned")
  /\ UNCHANGED linked

-----------------------------------------------------------------------------

ConnectionLost ==
  /\ linked /\ conn = "up" /\ bconn = "up"
  /\ Reset /\ Back!Reset
  /\ UNCHANGED <<xpc, linked>>

ClientStep(c) ==
  ClientConnects(c) \/ ClientSends(c) \/ ClientReceives(c) \/ ClientReleases(c)

ServerStep(s) ==
  \/ ServerListens(s) \/ ServerAccepts(s) \/ ServerReceives(s) \/ ServerSends(s)
  \/ ServerReleases(s)

XNext ==
  \/ \E c \in Senders : ClientStep(c)
  \/ \E s \in Receivers : ServerStep(s)
  \/ ConnectionLost

XSpec == XInit /\ [][XNext]_xvars

\* Both threads go on.
XFairSpec ==
  /\ XSpec
  /\ \A c \in Senders : WF_xvars(ClientStep(c))
  /\ \A s \in Receivers : WF_xvars(ServerStep(s))

Ended(t) ==
  \/ xpc[t] = "returned"
  \/ t \in Senders /\ brpc[t] = "oops"
  \/ t \in Receivers /\ rpc[t] = "oops"

\* What the exchange is for, by its last lines: to print "Client remote_info" and
\* "Server remote_info" (krdma.c:1351, 1396).  Once the two ends have a connection, each
\* comes to its end, unless one has failed on its cb.
ExchangeEnds ==
  linked ~> \/ \A t \in Senders \cup Receivers : Ended(t)
            \/ \E t \in Senders \cup Receivers : xpc[t] = "oops"
=============================================================================
