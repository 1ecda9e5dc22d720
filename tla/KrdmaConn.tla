------------------------------ MODULE KrdmaConn ------------------------------
(***************************************************************************)
(* How krdma.c makes a connection: sr_client in krdma_connect, which tries *)
(* again when it is rejected, sr_server in krdma_listen and krdma_accept,  *)
(* the handler that the RDMA connection manager calls on both sides, and   *)
(* krdma_exit.  Attempt a of the client has a cm_id on the client and,     *)
(* once its request arrives, one on the server with a control block of its *)
(* own; ready_conn is the kernel's linked list, pointer by pointer, since  *)
(* the handler and the acceptor use it without a lock.  active_conn is     *)
(* filled and never read: krdma_release_cb oopses before it gets there.    *)
(* The connection manager reports an answer, an error or a time-out for    *)
(* every request, and may report other events at any time.                 *)
(***************************************************************************)
EXTENDS Integers, Sequences

CONSTANTS
  Tries,        \* RDMA_CONNECT_RETRY_MAX
  MaxStray      \* bound on the events that answer nothing

ASSUME TriesAssumption == Tries \in Nat \ {0}
ASSUME StrayAssumption == MaxStray \in Nat

Attempt == 1 .. Tries

\* The control blocks: the client's, one for each request, the listening one.  The
\* last is also the head of ready_conn.
Client == 0
Listen == Tries + 1
Block  == 0 .. Tries + 1
Node   == 1 .. Tries + 1
Poison == -1

VARIABLES
  cb,           \* the control blocks: memory, state, cm_done and what krdma_init_cb made
  cpc,          \* where the client is
  try,          \* its attempt, retry_count + 1
  cli,          \* the cm_id of each attempt on the client
  sent,         \* the attempts whose request has left the client
  srv,          \* the cm_id of each attempt on the server
  stray,        \* events so far that answered nothing
  hpc,          \* where the handler of CONNECT_REQUEST is, with the request it adds
  hreq,
  pred,         \* and the last entry of ready_conn as it has read it
  nxt, prv,     \* the links of ready_conn
  spc,          \* where the server thread is
  cur,          \* its accept_cb
  around,       \* the neighbours of the entry list_del takes out
  stop,         \* krdma_exit has been called
  queue,        \* history: what has been added to ready_conn and not been taken
  torn,         \* history: its last entry was taken while another was being added
  fault         \* history: a freed control block was used, or something released twice

clientVars  == <<cpc, try, sent>>
handlerVars == <<hpc, hreq, pred>>
listVars    == <<nxt, prv, queue, torn>>
serverVars  == <<spc, cur, around>>
vars == <<cb, clientVars, cli, srv, stray, handlerVars, listVars, serverVars, stop, fault>>

States == {"INIT", "ADDR_RESOLVED", "ROUTE_RESOLVED", "CONNECTED", "ERROR",
           "CONNECT_REJECTED", "DISCONNECTED"}

\* A block as __krdma_create_cb leaves it.
NewBlock == [mem |-> "live", state |-> "INIT", done |-> 0, res |-> "null"]

Init ==
  /\ cb = [b \in Block |-> [NewBlock EXCEPT !.mem = "none"]]
  /\ cpc = "start" /\ try = 1
  /\ cli = [a \in Attempt |-> "none"]
  /\ sent = {}
  /\ srv = [a \in Attempt |-> "none"]
  /\ stray = 0
  /\ hpc = "idle" /\ hreq = 1 /\ pred = Listen
  /\ nxt = [n \in Node |-> IF n = Listen THEN Listen ELSE Poison]
  /\ prv = nxt
  /\ spc = "start" /\ cur = 1
  /\ around = [next |-> Listen, prev |-> Listen]
  /\ stop = FALSE
  /\ queue = <<>> /\ torn = FALSE /\ fault = FALSE

-----------------------------------------------------------------------------
(* The event handler and the events of the connection manager.             *)

\* The state of a control block after an event; others are only logged.
StateAfter(event, s) ==
  CASE event \in {"ADDR_RESOLVED", "ROUTE_RESOLVED", "DISCONNECTED"} -> event
    [] event = "ESTABLISHED" -> "CONNECTED"
    [] event = "REJECTED" -> "CONNECT_REJECTED"
    [] OTHER -> s

\* Faulty variant: the events that are only logged complete nothing.
krdma_cma_event_handler_KnownOnly(b, event) ==
  /\ cb' = [cb EXCEPT ![b].state = StateAfter(event, @),
                      ![b].done = IF event \in {"ADDR_ERROR", "ROUTE_ERROR"} THEN @ ELSE @ + 1]
  /\ UNCHANGED fault

\* Every event but CONNECT_REQUEST, for a cm_id whose context is b.
krdma_cma_event_handler(b, event) ==
  IF cb[b].mem = "live"
    THEN /\ cb' = [cb EXCEPT ![b].state = StateAfter(event, @), ![b].done = @ + 1]
         /\ UNCHANGED fault
    ELSE fault' = TRUE /\ UNCHANGED cb

\* A cm_id that is "resolving", "routing", "req" (asked) or "rep" (answered) gets one
\* report and then is "idle", "est", "rejected" or "closed".  REJECTED stands for
\* CONNECT_ERROR and UNREACHABLE too.
CmEvents ==
  {<<"resolving", "ADDR_RESOLVED", "idle">>, <<"resolving", "ADDR_ERROR", "idle">>,
   <<"routing", "ROUTE_RESOLVED", "idle">>,  <<"routing", "ROUTE_ERROR", "idle">>,
   <<"req", "ESTABLISHED", "est">>,          <<"rtu", "ESTABLISHED", "est">>,
   <<"req", "REJECTED", "rejected">>,        <<"rep", "REJECTED", "rejected">>,
   <<"rtu", "REJECTED", "rejected">>,        <<"est", "DISCONNECTED", "closed">>}

\* The client's end is established by the server's answer, and confirms it ("rtu").
ClientEvent ==
  \E e \in CmEvents :
    /\ cli[try] = e[1]
    /\ e[2] = "ESTABLISHED" => srv[try] = "rep"
    /\ cli' = [cli EXCEPT ![try] = e[3]]
    /\ srv' = IF e[2] = "ESTABLISHED" THEN [srv EXCEPT ![try] = "rtu"] ELSE srv
    /\ krdma_cma_event_handler(Client, e[2])
    /\ UNCHANGED <<clientVars, stray, handlerVars, listVars, serverVars, stop>>

\* The context of a request's cm_id: the listening block if none could be created.
Context(a) == IF cb[a].mem = "none" THEN Listen ELSE a

\* A request is withdrawn only by a client that has given it up.  A cm_id has one
\* handler at a time.
ServerEvent(a) ==
  /\ hpc = "idle" \/ hreq # a
  /\ \E e \in CmEvents :
       /\ srv[a] = e[1]
       /\ srv[a] = "req" => e[2] = "REJECTED" /\ cli[a] \in {"rejected", "dead"}
       /\ srv' = [srv EXCEPT ![a] = e[3]]
       /\ krdma_cma_event_handler(Context(a), e[2])
  /\ UNCHANGED <<clientVars, cli, stray, handlerVars, listVars, serverVars, stop>>

\* An event that answers nothing, such as a change of address.
StrayEvent ==
  /\ stray < MaxStray
  /\ \/ cli[try] \notin {"none", "dead"} /\ krdma_cma_event_handler(Client, "OTHER")
     \/ \E a \in Attempt :
          /\ srv[a] \notin {"none", "dead"} /\ (hpc = "idle" \/ hreq # a)
          /\ krdma_cma_event_handler(Context(a), "OTHER")
  /\ stray' = stray + 1
  /\ UNCHANGED <<clientVars, cli, srv, handlerVars, listVars, serverVars, stop>>

-----------------------------------------------------------------------------
(* CONNECT_REQUEST: a new block is put at the end of ready_conn.            *)

Listening == cb[Listen].mem = "live"

\* The new block has its cm_id, and list_add_tail has read the last entry.
ConnectRequest(a) ==
  /\ hpc = "idle" /\ Listening /\ a \in sent /\ srv[a] = "none"
  /\ srv' = [srv EXCEPT ![a] = "req"]
  /\ cb' = [cb EXCEPT ![a] = NewBlock]
  /\ hpc' = "store" /\ hreq' = a /\ pred' = prv[Listen]
  /\ UNCHANGED <<clientVars, cli, stray, listVars, serverVars, stop, fault>>

\* __krdma_create_cb fails; the listening block stays the context of the cm_id.
ConnectRequestFails(a) ==
  /\ hpc = "idle" /\ Listening /\ a \in sent /\ srv[a] = "none"
  /\ srv' = [srv EXCEPT ![a] = "req"]
  /\ cb' = [cb EXCEPT ![Listen].state = "ERROR", ![Listen].done = @ + 1]
  /\ UNCHANGED <<clientVars, cli, stray, handlerVars, listVars, serverVars, stop, fault>>

\* The list's head and the new entry point to each other.
HandlerStore ==
  /\ hpc = "store"
  /\ prv' = [prv EXCEPT ![Listen] = hreq, ![hreq] = pred]
  /\ nxt' = [nxt EXCEPT ![hreq] = Listen]
  /\ hpc' = "link"
  /\ UNCHANGED <<cb, clientVars, cli, srv, stray, hreq, pred, queue, torn, serverVars,
                 stop, fault>>

\* The entry read before points to the new one.
HandlerLink ==
  /\ hpc = "link"
  /\ nxt' = [nxt EXCEPT ![pred] = hreq]
  /\ queue' = Append(queue, hreq)
  /\ fault' = (fault \/ cb[pred].mem = "freed")
  /\ hpc' = "notify"
  /\ UNCHANGED <<cb, clientVars, cli, srv, stray, hreq, pred, prv, torn, serverVars, stop>>

\* Faulty variant: cm_done of the new block is completed.
HandlerNotify_NewBlock ==
  /\ hpc = "notify"
  /\ cb' = [cb EXCEPT ![hreq].done = @ + 1]
  /\ hpc' = "idle"
  /\ UNCHANGED <<clientVars, cli, srv, stray, hreq, pred, listVars, serverVars, stop, fault>>

HandlerNotify ==
  /\ hpc = "notify"
  /\ cb' = [cb EXCEPT ![Listen].done = @ + 1]
  /\ hpc' = "idle"
  /\ UNCHANGED <<clientVars, cli, srv, stray, hreq, pred, listVars, serverVars, stop, fault>>

-----------------------------------------------------------------------------
(* krdma_connect, called by sr_client.                                     *)

\* The blocks after wait_for_completion on b, which goes on when done is not 0.
Waited(b) == [cb EXCEPT ![b].done = @ - 1]

\* krdma_release_cb, for a block with a cm_id, and what is then done to the block.
\* Without buffers to free it follows a null pointer, after an earlier release it
\* frees them again.
krdma_release_cb(b, blocks, mem) ==
  /\ cb' = [blocks EXCEPT ![b].res = "released", ![b].mem = mem]
  /\ fault' = (fault \/ cb[b].res # "held")

\* The client's cm_id is destroyed and krdma_connect returns an error.
ClientGivesUp(blocks) ==
  /\ cli' = [cli EXCEPT ![try] = "dead"]
  /\ cb' = [blocks EXCEPT ![Client].mem = "freed"]
  /\ cpc' = "failed"
  /\ UNCHANGED <<try, sent, fault>>

\* The client is at pc.  Its steps leave the server's side alone.
At(pc) ==
  /\ cpc = pc
  /\ UNCHANGED <<srv, stray, handlerVars, listVars, serverVars, stop>>

ClientCreate ==
  /\ At("start")
  /\ \/ cb' = [cb EXCEPT ![Client] = NewBlock] /\ cpc' = "bind"
     \/ cpc' = "failed" /\ UNCHANGED cb
  /\ UNCHANGED <<try, sent, cli, fault>>

\* A cm_id is created and the address looked up.
ClientBind ==
  /\ At("bind")
  /\ \/ /\ cli' = [cli EXCEPT ![try] = "resolving"]
        /\ cpc' = "addr"
        /\ UNCHANGED <<cb, try, sent, fault>>
     \/ ClientGivesUp(cb)

ClientAddr ==
  /\ At("addr") /\ cb[Client].done > 0
  /\ \/ /\ cb[Client].state = "ADDR_RESOLVED"
        /\ cli' = [cli EXCEPT ![try] = "routing"]
        /\ cb' = Waited(Client)
        /\ cpc' = "route"
        /\ UNCHANGED <<try, sent, fault>>
     \/ ClientGivesUp(Waited(Client))

ClientRoute ==
  /\ At("route") /\ cb[Client].done > 0
  /\ IF cb[Client].state = "ROUTE_RESOLVED"
       THEN cb' = Waited(Client) /\ cpc' = "init" /\ UNCHANGED <<try, sent, cli, fault>>
       ELSE ClientGivesUp(Waited(Client))

\* krdma_init_cb makes everything, the posted receives included, or takes back what
\* it has made and leaves the pointers.
ClientInit ==
  /\ At("init")
  /\ \/ /\ cb' = [cb EXCEPT ![Client].res = "held"]
        /\ cpc' = "connect"
        /\ UNCHANGED <<try, sent, cli, fault>>
     \/ ClientGivesUp([cb EXCEPT ![Client].res = "undone"])

\* Faulty variant: when rdma_connect fails only the cm_id is released.
ClientConnect_KeepsCb ==
  /\ At("connect")
  /\ \/ /\ cli' = [cli EXCEPT ![try] = "req"]
        /\ sent' = sent \cup {try}
        /\ cpc' = "wait"
        /\ UNCHANGED <<cb, try, fault>>
     \/ ClientGivesUp(cb)

\* rdma_connect sends the request or fails.
ClientConnect ==
  /\ At("connect")
  /\ \/ /\ cli' = [cli EXCEPT ![try] = "req"]
        /\ sent' = sent \cup {try}
        /\ cpc' = "wait"
        /\ UNCHANGED <<cb, try, fault>>
     \/ /\ krdma_release_cb(Client, cb, "freed")
        /\ cli' = [cli EXCEPT ![try] = "dead"]
        /\ cpc' = "failed"
        /\ UNCHANGED <<try, sent>>

\* Faulty variant: only a rejection counts as a failure.
ClientAnswer_Unchecked ==
  /\ At("wait") /\ cb[Client].done > 0
  /\ IF cb[Client].state # "CONNECT_REJECTED"
       THEN cb' = Waited(Client) /\ cpc' = "up" /\ UNCHANGED <<try, cli, fault>>
       ELSE /\ cli' = [cli EXCEPT ![try] = "dead"]
            /\ krdma_release_cb(Client, Waited(Client), "freed")
            /\ cpc' = "failed" /\ UNCHANGED try
  /\ UNCHANGED sent

\* The answer: a rejected client starts again with the same block, its state and what
\* is left in cm_done.
ClientAnswer ==
  /\ At("wait") /\ cb[Client].done > 0
  /\ IF cb[Client].state = "CONNECTED"
       THEN cb' = Waited(Client) /\ cpc' = "up" /\ UNCHANGED <<try, cli, fault>>
       ELSE /\ cli' = [cli EXCEPT ![try] = "dead"]
            /\ IF cb[Client].state = "CONNECT_REJECTED" /\ try < Tries
                 THEN /\ krdma_release_cb(Client, Waited(Client), "live")
                      /\ cpc' = "bind" /\ try' = try + 1
                 ELSE /\ krdma_release_cb(Client, Waited(Client), "freed")
                      /\ cpc' = "failed" /\ UNCHANGED try
  /\ UNCHANGED sent

\* sr_client is done with the connection.
ClientRelease ==
  /\ At("up")
  /\ krdma_release_cb(Client, cb, "freed")
  /\ cli' = [cli EXCEPT ![try] = "dead"]
  /\ cpc' = "released"
  /\ UNCHANGED <<try, sent>>

-----------------------------------------------------------------------------
(* krdma_listen and krdma_accept, called by sr_server.                     *)

\* The server thread is at pc.  Its steps leave the client and the handler alone.
ServerAt(pc) ==
  /\ spc = pc
  /\ UNCHANGED <<clientVars, cli, stray, handlerVars, stop>>

krdma_listen ==
  /\ ServerAt("start")
  /\ \/ cb' = [cb EXCEPT ![Listen] = NewBlock] /\ spc' = "accept"
     \/ spc' = "returned" /\ UNCHANGED cb
  /\ UNCHANGED <<srv, listVars, cur, around, fault>>

\* The head of the loop of sr_server.
ServerLoop ==
  /\ ServerAt("accept")
  /\ spc' = IF stop THEN "leave" ELSE "look"
  /\ UNCHANGED <<cb, srv, listVars, cur, around, fault>>

\* __krdma_wait_for_connect_request: list_empty, and if so the wait, which the
\* signal of krdma_exit interrupts.
AcceptLook ==
  /\ ServerAt("look")
  /\ spc' = IF nxt[Listen] = Listen THEN "sleep" ELSE "pick"
  /\ UNCHANGED <<cb, srv, listVars, cur, around, fault>>

AcceptWake ==
  /\ ServerAt("sleep")
  /\ \/ cb[Listen].done > 0 /\ cb' = Waited(Listen)
     \/ cb[Listen].done = 0 /\ stop /\ UNCHANGED cb
  /\ spc' = IF cb[Listen].state = "ERROR" \/ stop THEN "leave" ELSE "look"
  /\ UNCHANGED <<srv, listVars, cur, around, fault>>

\* list_del of the first entry: the next entry points back to the head,
AcceptPick ==
  /\ ServerAt("pick")
  /\ LET e == nxt[Listen]
     IN /\ cur' = e
        /\ around' = [next |-> nxt[e], prev |-> prv[e]]
        /\ prv' = [prv EXCEPT ![nxt[e]] = prv[e]]
        /\ torn' = (torn \/ (hpc \in {"store", "link"} /\ pred = e))
  /\ spc' = "unlink"
  /\ UNCHANGED <<cb, srv, nxt, queue, fault>>

\* Faulty variant: the entry is only moved to active_conn.
AcceptUnlink_Stays ==
  /\ ServerAt("unlink")
  /\ queue' = Tail(queue)
  /\ spc' = "init"
  /\ UNCHANGED <<cb, srv, nxt, prv, torn, cur, around, fault>>

\* and the head points to it.
AcceptUnlink ==
  /\ ServerAt("unlink")
  /\ nxt' = [nxt EXCEPT ![around.prev] = around.next, ![cur] = Poison]
  /\ prv' = [prv EXCEPT ![cur] = Poison]
  /\ torn' = (torn \/ nxt[around.prev] # cur)
  /\ queue' = IF queue = <<>> THEN <<>> ELSE Tail(queue)
  /\ spc' = "init"
  /\ UNCHANGED <<cb, srv, cur, around, fault>>

\* Faulty variant: nothing is made.
AcceptInit_None ==
  /\ ServerAt("init")
  /\ spc' = "answer"
  /\ UNCHANGED <<cb, srv, listVars, cur, around, fault>>

\* krdma_init_cb; when it fails the block is freed and the cm_id stays.
AcceptInit ==
  /\ ServerAt("init")
  /\ \/ cb' = [cb EXCEPT ![cur].res = "held"] /\ spc' = "answer"
     \/ cb' = [cb EXCEPT ![cur].res = "undone", ![cur].mem = "freed"] /\ spc' = "leave"
  /\ UNCHANGED <<srv, listVars, cur, around, fault>>

\* The accepted block is released and freed, and sr_server goes to its end.
AcceptGivesUp ==
  /\ krdma_release_cb(cur, cb, "freed")
  /\ srv' = [srv EXCEPT ![cur] = "dead"]
  /\ spc' = "leave"

\* Faulty variant: when rdma_accept fails the block is only freed.
AcceptAnswer_KeepsId ==
  /\ ServerAt("answer")
  /\ \/ /\ srv[cur] = "req" /\ srv' = [srv EXCEPT ![cur] = "rep"]
        /\ spc' = "wait" /\ UNCHANGED <<cb, fault>>
     \/ /\ cb' = [cb EXCEPT ![cur].mem = "freed"] /\ spc' = "leave"
        /\ UNCHANGED <<srv, fault>>
  /\ UNCHANGED <<listVars, cur, around>>

\* rdma_accept answers a request that still stands, or fails.
AcceptAnswer ==
  /\ ServerAt("answer")
  /\ \/ /\ srv[cur] = "req" /\ srv' = [srv EXCEPT ![cur] = "rep"]
        /\ spc' = "wait" /\ UNCHANGED <<cb, fault>>
     \/ AcceptGivesUp
  /\ UNCHANGED <<listVars, cur, around>>

\* Faulty variant: nothing is waited for.
AcceptDone_NoWait ==
  /\ ServerAt("wait")
  /\ cb' = Waited(cur)
  /\ spc' = "serve"
  /\ UNCHANGED <<srv, listVars, cur, around, fault>>

\* Whatever the state is then, krdma_accept reports success.
AcceptDone ==
  /\ ServerAt("wait") /\ cb[cur].done > 0
  /\ cb' = Waited(cur)
  /\ spc' = "serve"
  /\ UNCHANGED <<srv, listVars, cur, around, fault>>

\* krdma_receive has a message and the loop goes on, the block forgotten, or fails.
ServerReceive ==
  /\ ServerAt("serve")
  /\ \/ srv[cur] \in {"rtu", "est"} /\ spc' = "accept" /\ UNCHANGED <<cb, srv, fault>>
     \/ AcceptGivesUp
  /\ UNCHANGED <<listVars, cur, around>>

\* krdma_release_cb of the listening block, which has no buffers: an oops.
ServerLeave ==
  /\ ServerAt("leave")
  /\ spc' = "oops"
  /\ UNCHANGED <<cb, srv, listVars, cur, around, fault>>

krdma_exit ==
  /\ ~stop /\ stop' = TRUE
  /\ UNCHANGED <<cb, clientVars, cli, srv, stray, handlerVars, listVars, serverVars, fault>>

-----------------------------------------------------------------------------

ClientStep ==
  \/ ClientCreate \/ ClientBind \/ ClientAddr \/ ClientRoute \/ ClientInit
  \/ ClientConnect \/ ClientAnswer \/ ClientRelease

HandlerStep == HandlerStore \/ HandlerLink \/ HandlerNotify

ServerStep ==
  \/ krdma_listen \/ ServerLoop \/ AcceptLook \/ AcceptWake \/ AcceptPick \/ AcceptUnlink
  \/ AcceptInit \/ AcceptAnswer \/ AcceptDone \/ ServerReceive \/ ServerLeave

Next ==
  \/ ClientStep \/ ClientEvent
  \/ HandlerStep \/ ServerStep
  \/ \E a \in Attempt : ConnectRequest(a) \/ ConnectRequestFails(a) \/ ServerEvent(a)
  \/ StrayEvent
  \/ krdma_exit

Spec == Init /\ [][Next]_vars

\* Threads and handlers go on, and the connection manager reports on what it was asked.
\* A connection may last for ever, and a withdrawn request may never be told of.
Fairness ==
  /\ WF_vars(cpc # "up" /\ ClientStep) /\ WF_vars(HandlerStep) /\ WF_vars(ServerStep)
  /\ WF_vars(cli[try] # "est" /\ ClientEvent)
  /\ \A a \in Attempt : WF_vars(srv[a] \in {"rep", "rtu"} /\ ServerEvent(a))

FairSpec == Spec /\ Fairness

-----------------------------------------------------------------------------
(* Properties.                                                             *)

\* The variables have their types.
TypeOK ==
  /\ cb \in [Block -> [mem : {"none", "live", "freed"}, state : States, done : Nat,
                       res : {"null", "held", "undone", "released"}]]
  /\ cpc \in {"start", "bind", "addr", "route", "init", "connect", "wait", "up",
              "failed", "released"}
  /\ try \in Attempt /\ sent \subseteq Attempt
  /\ cli \in [Attempt -> {"none", "resolving", "routing", "idle", "req", "est",
                          "rejected", "closed", "dead"}]
  /\ srv \in [Attempt -> {"none", "req", "rep", "rtu", "est", "rejected", "closed", "dead"}]
  /\ stray \in 0 .. MaxStray
  /\ hpc \in {"idle", "store", "link", "notify"} /\ hreq \in Attempt /\ pred \in Node
  /\ nxt \in [Node -> Node \cup {Poison}] /\ prv \in [Node -> Node \cup {Poison}]
  /\ spc \in {"start", "returned", "accept", "look", "sleep", "pick", "unlink", "init",
              "answer", "wait", "serve", "leave", "oops"}
  /\ cur \in Attempt /\ around \in [next : Node, prev : Node]
  /\ queue \in Seq(Attempt)
  /\ {stop, torn, fault} \subseteq BOOLEAN

\* krdma_connect reports success only for a connection that its present attempt has
\* made (krdma.c:631-654, 819-829): neither an event left over from an earlier attempt
\* nor one that answers nothing is taken for the answer.
ConnectedMeansEstablished ==
  cpc = "up" => /\ cli[try] \in {"est", "closed"}
                /\ cb[Client].state \in {"CONNECTED", "DISCONNECTED"}

\* When krdma_connect reports success, the other end has made its queues and posted its
\* receives (krdma.c:515-523): the first send finds a receive, as KrdmaSendRecv assumes.
ReadyToReceive ==
  cpc = "up" => cb[Client].res = "held" /\ cb[try].res \in {"held", "released"}

\* A krdma_connect that fails, wherever it does and after however many attempts, leaves
\* no cm_id, queue, buffer or block behind (krdma.c:355-426, 1623-1645).
NothingLeft ==
  cpc \in {"failed", "released"} =>
    /\ \A a \in Attempt : cli[a] \in {"none", "dead"}
    /\ cb[Client].mem # "live" /\ cb[Client].res # "held"

\* No event reaches a freed block, and nothing is released twice, unless krdma_init_cb
\* has failed in krdma_accept (krdma.c:515-531) or the list is torn.
FaultOnlyAfterInitFails ==
  fault => torn \/ \E a \in Attempt : cb[a].mem = "freed" /\ cb[a].res = "undone"

\* The i-th entry of the ring that a list head and the elements of q make.
Entry(q, i) == IF i \in 1 .. Len(q) THEN q[i] ELSE Listen

\* As long as the handler has not added a request while the acceptor took the last one,
\* ready_conn links exactly the requests that have come and not been taken, in order,
\* although neither holds a lock (krdma.c:119, 477-479).
ReadyListIntact ==
  ~torn /\ spc # "unlink" =>
    \A i \in 0 .. Len(queue) :
      /\ nxt[Entry(queue, i)] = Entry(queue, i + 1)
      /\ hpc # "link" => prv[Entry(queue, i + 1)] = Entry(queue, i)

\* A request on ready_conn is taken, unless the list is torn or the server leaves; the
\* acceptor does not sleep through it (krdma.c:148, 466-474).
RequestPicked ==
  \A a \in Attempt :
    (\E i \in DOMAIN queue : queue[i] = a) ~>
      \/ \A i \in DOMAIN queue : queue[i] # a
      \/ torn
      \/ spc \in {"leave", "oops"}

\* Neither end waits for ever for an answer of the connection manager (krdma.c:631, 646,
\* 819, 858).
WaitsEnd ==
  /\ cpc \in {"addr", "route", "wait"} ~> cpc \notin {"addr", "route", "wait"}
  /\ spc = "wait" ~> spc # "wait"

\* The error at krdma.c:860, "wait for KRDMA_CONNECTED state, but get %d": what
\* krdma_accept has waited for and sr_server calls "krdma_accept succeed." (1669) is a
\* connection.
AcceptMeansConnected ==
  spc = "serve" => cb[cur].state \in {"CONNECTED", "DISCONNECTED"}
=============================================================================
