-------------------------- MODULE KrdmaConn_proofs --------------------------
(* Theorems about KrdmaConn, for any number of attempts and of other events. *)
EXTENDS KrdmaConn, SequenceTheorems, TLAPS

-----------------------------------------------------------------------------
(* The inductive invariant, beyond the types.                              *)

\* Where the client is, what its block holds and what its cm_id has been told.  The
\* block's state is that of the present attempt from the first wait on.
ClientInv ==
  /\ cpc \in {"start", "failed", "released"} => cb[Client].mem # "live"
  /\ cpc \notin {"start", "failed", "released"} => cb[Client].mem = "live"
  /\ cb[Client].res = "held" <=> cpc \in {"connect", "wait", "up"}
  /\ \A a \in Attempt : (a < try => cli[a] = "dead") /\ (a > try => cli[a] = "none")
  /\ cpc \in {"start", "bind"} => cli[try] = "none"
  /\ cpc \in {"failed", "released"} => cli[try] \in {"none", "dead"}
  /\ cpc = "bind" => cb[Client].state \in {"INIT", "CONNECT_REJECTED"}
  /\ cpc = "addr" =>
       \/ cli[try] \in {"resolving", "idle"} /\ cb[Client].state \in {"INIT", "CONNECT_REJECTED"}
       \/ cli[try] = "idle" /\ cb[Client].state = "ADDR_RESOLVED"
  /\ cpc = "route" =>
       \/ cli[try] \in {"routing", "idle"} /\ cb[Client].state = "ADDR_RESOLVED"
       \/ cli[try] = "idle" /\ cb[Client].state = "ROUTE_RESOLVED"
  /\ cpc \in {"init", "connect"} => cli[try] = "idle" /\ cb[Client].state = "ROUTE_RESOLVED"
  /\ cpc = "wait" =>
       \/ cli[try] = "req" /\ cb[Client].state = "ROUTE_RESOLVED"
       \/ cli[try] = "rejected" /\ cb[Client].state = "CONNECT_REJECTED"
       \/ cli[try] = "est" /\ cb[Client].state = "CONNECTED"
       \/ cli[try] = "closed" /\ cb[Client].state = "DISCONNECTED"
  /\ cpc = "up" =>
       \/ cli[try] = "est" /\ cb[Client].state = "CONNECTED"
       \/ cli[try] = "closed" /\ cb[Client].state = "DISCONNECTED"

\* The blocks of the requests and their cm_ids.
BlockInv ==
  /\ \A a \in Attempt :
       /\ srv[a] = "none" => cb[a].mem = "none"
       /\ cb[a].mem = "none" => cb[a].res = "null"
       /\ cb[a].mem = "freed" => srv[a] = "dead" \/ cb[a].res = "undone"
       /\ srv[a] \in {"rep", "rtu", "est", "closed"} => cb[a].res = "held"
       /\ srv[a] # "none" => Listening
  /\ Listening <=> spc \notin {"start", "returned"}
  /\ hpc \in {"store", "link"} => cb[hreq].mem = "live" /\ cb[hreq].res = "null"
  /\ spc \in {"unlink", "init"} => cb[cur].mem = "live" /\ cb[cur].res = "null"
  /\ spc \in {"answer", "wait", "serve"} => cb[cur].mem = "live" /\ cb[cur].res = "held"
  /\ cli[try] \in {"est", "closed"} => cb[try].res \in {"held", "released"}

\* A request that has no block, or that the handler is still adding.
Unlinked(a) == cb[a].mem = "none" \/ (hpc \in {"store", "link"} /\ hreq = a)

\* The server has an entry of the list in its hands.
Serving == {"unlink", "init", "answer", "wait", "serve"}

\* What holds of the links of ready_conn, torn or not.
Ends == nxt[Listen] \in Node /\ prv[Listen] \in Node

NotYetLinked == \A a \in Attempt : Unlinked(a) => \A x \in Node : nxt[x] # a

PointsOn == \A x \in Node : nxt[x] \in Attempt => nxt[nxt[x]] # Poison

PointsBack ==
  \A x \in Node : nxt[x] \in Attempt /\ ~(spc = "unlink" /\ x = cur) => prv[nxt[x]] = x

EntriesFresh ==
  \A x \in Node : nxt[x] \in Attempt => cb[nxt[x]].mem = "live" /\ cb[nxt[x]].res = "null"

Adding ==
  hpc \in {"store", "link"} =>
    /\ pred # hreq
    /\ pred \in Attempt => nxt[pred] \in {Listen, Poison} /\ cb[pred].mem # "none"
    /\ hpc = "link" => prv[hreq] = pred /\ nxt[hreq] = Listen /\ prv[Listen] \in {hreq, Listen}

LastEntry ==
  prv[Listen] \in Attempt =>
    /\ nxt[prv[Listen]] \in {Listen, Poison}
    /\ cb[prv[Listen]].mem # "none"
    /\ hpc = "store" => prv[Listen] = pred

Taking ==
  /\ spc = "pick" => nxt[Listen] # Listen
  /\ spc = "unlink" =>
       /\ around.prev = Listen /\ prv[cur] = Listen
       /\ nxt[cur] \notin {cur, Poison} /\ around.next # cur
       /\ around.next \in Attempt => nxt[cur] = around.next /\ prv[around.next] = Listen

Taken ==
  /\ spc \in Serving => ~Unlinked(cur)
  /\ spc \in Serving \ {"unlink"} => \A x \in Node : nxt[x] # cur

ListInv ==
  /\ Ends /\ NotYetLinked /\ PointsOn /\ PointsBack /\ EntriesFresh
  /\ Adding /\ LastEntry /\ Taking /\ Taken

\* No entry that the handler still writes to has been taken.
NoStaleEntry ==
  ~torn =>
    /\ prv[Listen] \in Attempt =>
         cb[prv[Listen]].mem = "live" /\ (spc \in Serving => prv[Listen] # cur)
    /\ pred \in Attempt /\ hpc \in {"store", "link"} =>
         cb[pred].mem = "live" /\ (spc \in Serving => pred # cur)

\* The entries that stay when the server has taken out the one it is at.
Base == IF spc = "unlink" /\ queue # <<>> THEN Tail(queue) ELSE queue

\* The ring through them, while list_del and list_add_tail are under way.
RingInv ==
  ~torn /\ (spc = "unlink" => nxt[Listen] = cur) =>
    /\ spc = "unlink" => queue # <<>> /\ queue[1] = cur /\ around.next = Entry(Base, 1)
    /\ \A i \in 0 .. Len(Base) :
         ~(spc = "unlink" /\ i = 0) => nxt[Entry(Base, i)] = Entry(Base, i + 1)
    /\ \A i \in 0 .. Len(Base) :
         ~(hpc = "link" /\ i = Len(Base)) => prv[Entry(Base, i + 1)] = Entry(Base, i)
    /\ hpc \in {"store", "link"} => pred = Entry(Base, Len(Base))
    /\ hpc = "link" => prv[Listen] = hreq
    /\ \A i, j \in 1 .. Len(Base) : Base[i] = Base[j] => i = j
    /\ \A i \in 1 .. Len(Base) : ~Unlinked(Base[i])
    /\ spc = "unlink" => \A i \in 1 .. Len(Base) : Base[i] # cur

IInv ==
  /\ TypeOK /\ ClientInv /\ BlockInv /\ ListInv
  /\ NoStaleEntry /\ FaultOnlyAfterInitFails /\ RingInv

-----------------------------------------------------------------------------
(* The blocks, the entries and the queue.                                  *)

BlockRecord ==
  [mem : {"none", "live", "freed"}, state : States, done : Nat,
   res : {"null", "held", "undone", "released"}]

Event == {"ADDR_RESOLVED", "ADDR_ERROR", "ROUTE_RESOLVED", "ROUTE_ERROR", "ESTABLISHED",
          "REJECTED", "DISCONNECTED", "OTHER"}

\* Which blocks there are.
LEMMA Blocks ==
  /\ Client \in Block /\ Listen \in Block /\ Listen \in Node
  /\ Client \notin Attempt /\ Client \notin Node /\ Listen \notin Attempt /\ Client # Listen
  /\ \A a \in Attempt : a \in Block /\ a \in Node /\ a \in Int
  /\ \A n \in Node : n \in Attempt \/ n = Listen
  /\ \A n \in Node : n \in Block
  /\ Poison \notin Node /\ Poison \notin Attempt /\ 1 \in Attempt
BY TriesAssumption DEF Client, Listen, Block, Node, Attempt, Poison

\* What the handler does to the blocks: it sets a state and completes cm_done.
LEMMA Handled ==
  ASSUME TypeOK, NEW b \in Block, NEW e \in Event, krdma_cma_event_handler(b, e)
  PROVE  /\ cb' \in [Block -> BlockRecord]
         /\ \A x \in Block : /\ cb'[x].mem = cb[x].mem /\ cb'[x].res = cb[x].res
                             /\ x # b => cb'[x] = cb[x]
         /\ cb[b].mem = "live" =>
              fault' = fault /\ cb'[b].state = StateAfter(e, cb[b].state)
         /\ cb[b].mem # "live" => fault' = TRUE
         /\ fault' \in BOOLEAN
<1>1. cb \in [Block -> BlockRecord] /\ fault \in BOOLEAN
  BY DEF TypeOK, BlockRecord
<1>2. \A s \in States : StateAfter(e, s) \in States
  BY DEF StateAfter, States, Event
<1>3. cb[b] \in BlockRecord /\ StateAfter(e, cb[b].state) \in States /\ cb[b].done + 1 \in Nat
  BY <1>1, <1>2 DEF BlockRecord
<1>4. CASE cb[b].mem = "live"
  <2> DEFINE r == [cb[b] EXCEPT !.state = StateAfter(e, cb[b].state), !.done = cb[b].done + 1]
  <2>1. cb' = [cb EXCEPT ![b] = r] /\ fault' = fault
    BY <1>1, <1>4 DEF krdma_cma_event_handler
  <2>2. /\ r \in BlockRecord /\ r.mem = cb[b].mem /\ r.res = cb[b].res
        /\ r.state = StateAfter(e, cb[b].state)
    BY <1>3 DEF BlockRecord
  <2> HIDE DEF r
  <2> QED
    BY <1>1, <1>4, <2>1, <2>2
<1>5. CASE cb[b].mem # "live"
  BY <1>1, <1>5 DEF krdma_cma_event_handler
<1> QED
  BY <1>4, <1>5

\* What a release does: a fault unless the block held its queues and buffers.
LEMMA Released ==
  ASSUME TypeOK, NEW b \in Block, NEW blocks \in [Block -> BlockRecord],
         NEW m \in {"live", "freed"}, krdma_release_cb(b, blocks, m)
  PROVE  /\ cb' \in [Block -> BlockRecord]
         /\ \A x \in Block : x # b => cb'[x] = blocks[x]
         /\ cb'[b].mem = m /\ cb'[b].res = "released" /\ cb'[b].state = blocks[b].state
         /\ cb[b].res = "held" => fault' = fault
         /\ fault' \in BOOLEAN
BY DEF krdma_release_cb, TypeOK, BlockRecord

\* What a wait takes from cm_done.
LEMMA WaitedFacts ==
  ASSUME TypeOK, NEW b \in Block, cb[b].done > 0
  PROVE  /\ Waited(b) \in [Block -> BlockRecord]
         /\ \A x \in Block : /\ Waited(b)[x].mem = cb[x].mem /\ Waited(b)[x].res = cb[x].res
                             /\ Waited(b)[x].state = cb[x].state
                             /\ x # b => Waited(b)[x] = cb[x]
<1>1. cb \in [Block -> BlockRecord]
  BY DEF TypeOK, BlockRecord
<1>2. cb[b].done - 1 \in Nat
  BY <1>1 DEF BlockRecord
<1> QED
  BY <1>1, <1>2 DEF Waited, BlockRecord

\* The ends of a queue of requests.
LEMMA QueueFacts ==
  ASSUME NEW q \in Seq(Attempt), NEW x \in Attempt
  PROVE  /\ Len(q) \in Nat /\ (q = <<>> <=> Len(q) = 0)
         /\ \A i \in 1 .. Len(q) : q[i] \in Attempt
         /\ Append(q, x) \in Seq(Attempt) /\ Len(Append(q, x)) = Len(q) + 1
         /\ \A i \in 1 .. Len(q) : Append(q, x)[i] = q[i]
         /\ Append(q, x)[Len(q) + 1] = x
         /\ q # <<>> => /\ Tail(q) \in Seq(Attempt) /\ Len(Tail(q)) = Len(q) - 1
                        /\ \A i \in 1 .. Len(q) - 1 : Tail(q)[i] = q[i + 1]
<1>1. Len(q) \in Nat /\ (q = <<>> <=> Len(q) = 0) /\ DOMAIN q = 1 .. Len(q)
  BY LenProperties, EmptySeq
<1>2. \A i \in 1 .. Len(q) : q[i] \in Attempt
  BY <1>1, ElementOfSeq
<1>3. /\ Append(q, x) \in Seq(Attempt) /\ Len(Append(q, x)) = Len(q) + 1
      /\ \A i \in 1 .. Len(q) : Append(q, x)[i] = q[i]
      /\ Append(q, x)[Len(q) + 1] = x
  BY AppendProperties
<1>4. q # <<>> => /\ Tail(q) \in Seq(Attempt) /\ Len(Tail(q)) = Len(q) - 1
                  /\ \A i \in 1 .. Len(q) - 1 : Tail(q)[i] = q[i + 1]
  BY HeadTailProperties
<1> QED
  BY <1>1, <1>2, <1>3, <1>4

\* The ring of a queue, when its first entry is taken and when one is added.
LEMMA EntryFacts ==
  ASSUME NEW q \in Seq(Attempt), NEW x \in Attempt
  PROVE  /\ Entry(q, 0) = Listen /\ Entry(q, Len(q) + 1) = Listen
         /\ \A i \in 1 .. Len(q) : Entry(q, i) = q[i] /\ Entry(q, i) \in Attempt
         /\ \A i \in 0 .. Len(q) : Entry(Append(q, x), i) = Entry(q, i)
         /\ Entry(Append(q, x), Len(q) + 1) = x /\ Entry(Append(q, x), Len(q) + 2) = Listen
         /\ q # <<>> => \A i \in 1 .. Len(q) : Entry(Tail(q), i) = Entry(q, i + 1)
<1>1. Len(q) \in Nat
  BY QueueFacts
<1>2. Entry(q, 0) = Listen /\ Entry(q, Len(q) + 1) = Listen
  BY <1>1 DEF Entry
<1>3. \A i \in 1 .. Len(q) : Entry(q, i) = q[i] /\ Entry(q, i) \in Attempt
  BY <1>1, QueueFacts DEF Entry
<1>4. \A i \in 0 .. Len(q) : Entry(Append(q, x), i) = Entry(q, i)
  BY <1>1, QueueFacts DEF Entry
<1>5. Entry(Append(q, x), Len(q) + 1) = x /\ Entry(Append(q, x), Len(q) + 2) = Listen
  BY <1>1, QueueFacts DEF Entry
<1>6. q # <<>> => \A i \in 1 .. Len(q) : Entry(Tail(q), i) = Entry(q, i + 1)
  BY <1>1, QueueFacts DEF Entry
<1> QED
  BY <1>2, <1>3, <1>4, <1>5, <1>6

-----------------------------------------------------------------------------
(* What the client's steps and the events leave alone, and the types.      *)

\* A step of the client changes no block but its own, and nothing of the server.
LEMMA ClientFrame ==
  ASSUME TypeOK, ClientStep
  PROVE  /\ cb' \in [Block -> BlockRecord] /\ fault' \in BOOLEAN
         /\ \A x \in Node : cb'[x] = cb[x]
         /\ UNCHANGED <<srv, stray, handlerVars, listVars, serverVars, stop>>
<1>0. cb \in [Block -> BlockRecord] /\ fault \in BOOLEAN /\ Client \in Block
  BY Blocks DEF TypeOK, BlockRecord
<1>1. \A r \in BlockRecord : \A s \in {"null", "held", "undone", "released"} :
        [r EXCEPT !.res = s] \in BlockRecord
  BY DEF BlockRecord
<1>2. \A r \in BlockRecord : \A m \in {"none", "live", "freed"} :
        [r EXCEPT !.mem = m] \in BlockRecord
  BY DEF BlockRecord
<1>3. ASSUME NEW blocks \in [Block -> BlockRecord], ClientGivesUp(blocks)
      PROVE  cb' \in [Block -> BlockRecord] /\ fault' = fault
             /\ \A x \in Node : cb'[x] = blocks[x]
  BY <1>3, <1>0, <1>2, Blocks DEF ClientGivesUp
<1>4. \A x \in Node : x \in Block /\ x # Client
  BY Blocks
<1>5. CASE ClientCreate
  <2>1. NewBlock \in BlockRecord
    BY DEF NewBlock, BlockRecord, States
  <2> QED
    BY <1>0, <1>4, <1>5, <2>1 DEF ClientCreate, At
<1>6. CASE ClientBind
  BY <1>0, <1>3, <1>4, <1>6 DEF ClientBind, At
<1>7. CASE ClientAddr
  BY <1>0, <1>3, <1>4, <1>7, WaitedFacts DEF ClientAddr, At
<1>8. CASE ClientRoute
  BY <1>0, <1>3, <1>4, <1>8, WaitedFacts DEF ClientRoute, At
<1>9. CASE ClientInit
  BY <1>0, <1>1, <1>3, <1>4, <1>9 DEF ClientInit, At
<1>10. CASE ClientConnect
  BY <1>0, <1>4, <1>10, Released DEF ClientConnect, At
<1>11. CASE ClientAnswer
  BY <1>0, <1>4, <1>11, WaitedFacts, Released DEF ClientAnswer, At
<1>12. CASE ClientRelease
  BY <1>0, <1>4, <1>12, Released DEF ClientRelease, At
<1> QED
  BY <1>5, <1>6, <1>7, <1>8, <1>9, <1>10, <1>11, <1>12 DEF ClientStep

\* An event sets states and completes cm_done, and changes cm_ids.
LEMMA EventFrame ==
  ASSUME TypeOK, ClientEvent \/ StrayEvent \/ \E a \in Attempt : ServerEvent(a)
  PROVE  /\ cb' \in [Block -> BlockRecord] /\ fault' \in BOOLEAN
         /\ \A x \in Block : cb'[x].mem = cb[x].mem /\ cb'[x].res = cb[x].res
         /\ UNCHANGED <<clientVars, handlerVars, listVars, serverVars, stop>>
<1>1. \A e \in CmEvents : e[2] \in Event
  BY DEF CmEvents, Event
<1>2. \A a \in Attempt : Context(a) \in Block
  BY Blocks DEF Context
<1>3. "OTHER" \in Event /\ Client \in Block
  BY Blocks DEF Event
<1>4. CASE ClientEvent
  BY <1>1, <1>3, <1>4, Handled DEF ClientEvent
<1>5. CASE StrayEvent
  BY <1>2, <1>3, <1>5, Handled DEF StrayEvent
<1>6. CASE \E a \in Attempt : ServerEvent(a)
  BY <1>1, <1>2, <1>6, Handled DEF ServerEvent
<1> QED
  BY <1>4, <1>5, <1>6

\* A step of the server thread changes no block but its own and the listening one.
LEMMA ServerFrame ==
  ASSUME TypeOK, ServerStep
  PROVE  /\ cb' \in [Block -> BlockRecord] /\ fault' \in BOOLEAN
         /\ cb'[Client] = cb[Client]
         /\ \A x \in Attempt : x # cur => cb'[x] = cb[x]
         /\ UNCHANGED <<clientVars, cli, stray, handlerVars, stop>>
<1>0. /\ cb \in [Block -> BlockRecord] /\ fault \in BOOLEAN /\ Listen \in Block /\ cur \in Block
      /\ cur # Client /\ cur # Listen
  BY Blocks DEF TypeOK, BlockRecord
<1>1. \A r \in BlockRecord : \A s \in {"null", "held", "undone", "released"} :
        [r EXCEPT !.res = s] \in BlockRecord /\ [r EXCEPT !.res = s, !.mem = "freed"] \in BlockRecord
  BY DEF BlockRecord
<1>2. \A x \in Attempt : x \in Block /\ x # Listen
  BY Blocks
<1>3. ASSUME AcceptGivesUp
      PROVE  /\ cb' \in [Block -> BlockRecord] /\ fault' \in BOOLEAN
             /\ \A x \in Block : x # cur => cb'[x] = cb[x]
  BY <1>0, <1>3, Released DEF AcceptGivesUp
<1>4. CASE krdma_listen
  <2>1. NewBlock \in BlockRecord
    BY DEF NewBlock, BlockRecord, States
  <2> QED
    BY <1>0, <1>2, <1>4, <2>1, Blocks DEF krdma_listen, ServerAt
<1>5. CASE ServerLoop \/ AcceptLook \/ AcceptPick \/ AcceptUnlink \/ ServerLeave
  BY <1>0, <1>5 DEF ServerLoop, AcceptLook, AcceptPick, AcceptUnlink, ServerLeave, ServerAt
<1>6. CASE AcceptWake
  BY <1>0, <1>2, <1>6, WaitedFacts, Blocks DEF AcceptWake, ServerAt
<1>7. CASE AcceptInit
  <2>1. CASE cb' = [cb EXCEPT ![cur].res = "held"]
    BY <1>0, <1>1, <1>2, <1>7, <2>1, Blocks DEF AcceptInit, ServerAt
  <2>2. CASE cb' = [cb EXCEPT ![cur].res = "undone", ![cur].mem = "freed"]
    <3>1. cb' = [cb EXCEPT ![cur] = [cb[cur] EXCEPT !.res = "undone", !.mem = "freed"]]
      BY <1>0, <2>2
    <3> QED
      BY <1>0, <1>1, <1>2, <1>7, <3>1, Blocks DEF AcceptInit, ServerAt
  <2> QED
    BY <1>7, <2>1, <2>2 DEF AcceptInit
<1>8. CASE AcceptAnswer
  BY <1>0, <1>2, <1>3, <1>8, Blocks DEF AcceptAnswer, ServerAt
<1>9. CASE AcceptDone
  BY <1>0, <1>2, <1>9, WaitedFacts, Blocks DEF AcceptDone, ServerAt
<1>10. CASE ServerReceive
  BY <1>0, <1>2, <1>3, <1>10, Blocks DEF ServerReceive, ServerAt
<1> QED
  BY <1>4, <1>5, <1>6, <1>7, <1>8, <1>9, <1>10 DEF ServerStep

-----------------------------------------------------------------------------
(* The types.                                                              *)

\* The initial state has the types.
LEMMA TypeInit == Init => TypeOK
<1> SUFFICES ASSUME Init PROVE TypeOK
  OBVIOUS
<1>1. cb \in [Block -> BlockRecord]
  BY DEF Init, NewBlock, BlockRecord, States
<1>2. queue \in Seq(Attempt)
  BY EmptySeq DEF Init
<1>3. nxt \in [Node -> Node \cup {Poison}] /\ prv \in [Node -> Node \cup {Poison}]
  BY Blocks DEF Init
<1>4. try \in Attempt /\ hreq \in Attempt /\ cur \in Attempt /\ pred \in Node
      /\ around \in [next : Node, prev : Node] /\ stray \in 0 .. MaxStray
  BY Blocks, StrayAssumption DEF Init
<1> QED
  BY <1>1, <1>2, <1>3, <1>4 DEF Init, TypeOK, BlockRecord

\* The links, as far as the types need them.
LEMMA LinkFacts ==
  ASSUME TypeOK, ListInv
  PROVE  /\ nxt[Listen] \in Node /\ prv[Listen] \in Node
         /\ spc = "pick" =>
              /\ nxt[Listen] \in Attempt /\ prv[nxt[Listen]] = Listen
              /\ nxt[nxt[Listen]] \in Node /\ nxt[nxt[Listen]] # nxt[Listen]
         /\ spc = "unlink" => around.prev = Listen
<1>1. nxt[Listen] \in Node /\ prv[Listen] \in Node
  BY DEF ListInv, Ends
<1>2. ASSUME spc = "pick"
      PROVE  /\ nxt[Listen] \in Attempt /\ prv[nxt[Listen]] = Listen
             /\ nxt[nxt[Listen]] \in Node /\ nxt[nxt[Listen]] # nxt[Listen]
  <2>1. nxt[Listen] \in Attempt
    BY <1>1, <1>2, Blocks DEF ListInv, Taking
  <2>2. nxt[nxt[Listen]] # Poison
    BY <2>1, Blocks DEF ListInv, PointsOn
  <2>3. prv[nxt[Listen]] = Listen
    BY <1>2, <2>1, Blocks DEF ListInv, PointsBack
  <2>4. nxt[nxt[Listen]] \in Node
    BY <2>1, <2>2, Blocks DEF TypeOK
  <2>5. nxt[nxt[Listen]] # nxt[Listen]
    BY <1>2, <2>1, <2>3, Blocks DEF ListInv, PointsBack
  <2> QED
    BY <2>1, <2>3, <2>4, <2>5
<1>3. spc = "unlink" => around.prev = Listen
  BY DEF ListInv, Taking
<1> QED
  BY <1>1, <1>2, <1>3

\* Every step keeps the types: a completion that is waited for is there, and an entry
\* that is taken is one.
LEMMA TypeStep == TypeOK /\ ClientInv /\ ListInv /\ [Next]_vars => TypeOK'
<1> SUFFICES ASSUME TypeOK, ClientInv, ListInv, [Next]_vars PROVE TypeOK'
  OBVIOUS
<1>0. cb \in [Block -> BlockRecord] /\ fault \in BOOLEAN
  BY DEF TypeOK, BlockRecord
<1>1. CASE ClientStep
  <2>1. /\ cb' \in [Block -> BlockRecord] /\ fault' \in BOOLEAN
        /\ UNCHANGED <<srv, stray, handlerVars, listVars, serverVars, stop>>
    BY <1>1, ClientFrame
  <2>2. try' \in Attempt /\ sent' \subseteq Attempt
    <3>1. /\ try' = try \/ (try' = try + 1 /\ try < Tries)
          /\ sent' = sent \/ sent' = sent \cup {try}
      <4>1. CASE ClientAnswer
        BY <4>1 DEF ClientAnswer, krdma_release_cb
      <4>2. CASE ~ClientAnswer
        BY <1>1, <4>2 DEF ClientStep, ClientCreate, ClientBind, ClientAddr, ClientRoute,
                          ClientInit, ClientConnect, ClientRelease, ClientGivesUp,
                          krdma_release_cb
      <4> QED
        BY <4>1, <4>2
    <3>2. try \in Attempt /\ sent \subseteq Attempt
      BY DEF TypeOK
    <3>3. try < Tries => try + 1 \in Attempt
      BY <3>2, TriesAssumption DEF Attempt
    <3> QED
      BY <3>1, <3>2, <3>3
  <2>3. /\ cpc' \in {"start", "bind", "addr", "route", "init", "connect", "wait", "up",
                     "failed", "released"}
        /\ cli' \in [Attempt -> {"none", "resolving", "routing", "idle", "req", "est",
                                 "rejected", "closed", "dead"}]
    BY <1>1 DEF TypeOK, ClientStep, ClientCreate, ClientBind, ClientAddr, ClientRoute, ClientInit,
                ClientConnect, ClientAnswer, ClientRelease, ClientGivesUp, At
  <2> QED
    BY <2>1, <2>2, <2>3
       DEF TypeOK, BlockRecord, handlerVars, listVars, serverVars
<1>2. CASE ClientEvent \/ StrayEvent \/ \E a \in Attempt : ServerEvent(a)
  <2>1. /\ cb' \in [Block -> BlockRecord] /\ fault' \in BOOLEAN
        /\ UNCHANGED <<clientVars, handlerVars, listVars, serverVars, stop>>
    BY <1>2, EventFrame
  <2>2. cli' \in [Attempt -> {"none", "resolving", "routing", "idle", "req", "est",
                              "rejected", "closed", "dead"}]
    <3>1. CASE ClientEvent
      <4>1. PICK e \in CmEvents : cli[try] = e[1] /\ cli' = [cli EXCEPT ![try] = e[3]]
        BY <3>1 DEF ClientEvent
      <4>2. e[3] \in {"idle", "est", "rejected", "closed"}
        BY DEF CmEvents
      <4> QED
        BY <4>1, <4>2 DEF TypeOK
    <3> QED
      BY <1>2, <3>1 DEF TypeOK, StrayEvent, ServerEvent
  <2>3. srv' \in [Attempt -> {"none", "req", "rep", "rtu", "est", "rejected", "closed", "dead"}]
    <3>1. CASE ClientEvent
      BY <3>1 DEF TypeOK, ClientEvent
    <3>2. CASE StrayEvent
      BY <3>2 DEF TypeOK, StrayEvent
    <3>3. ASSUME NEW a \in Attempt, ServerEvent(a)
          PROVE  srv' \in [Attempt -> {"none", "req", "rep", "rtu", "est", "rejected",
                                       "closed", "dead"}]
      <4>1. PICK e \in CmEvents : /\ srv[a] = e[1]
                                  /\ srv' = [srv EXCEPT ![a] = e[3]]
        BY <3>3 DEF ServerEvent
      <4>2. e[3] \in {"est", "rejected", "closed"}
        BY <4>1 DEF CmEvents, TypeOK
      <4> QED
        BY <4>1, <4>2 DEF TypeOK
    <3> QED
      BY <1>2, <3>1, <3>2, <3>3
  <2>4. stray' \in 0 .. MaxStray
    BY <1>2, StrayAssumption DEF TypeOK, ClientEvent, StrayEvent, ServerEvent
  <2> QED
    BY <2>1, <2>2, <2>3, <2>4
       DEF TypeOK, BlockRecord, clientVars, handlerVars, listVars, serverVars
<1>3. CASE \E a \in Attempt : ConnectRequest(a) \/ ConnectRequestFails(a)
  <2>1. NewBlock \in BlockRecord
    BY DEF NewBlock, BlockRecord, States
  <2>4. \A r \in BlockRecord :
          [r EXCEPT !.state = "ERROR", !.done = r.done + 1] \in BlockRecord
    <3> SUFFICES ASSUME NEW r \in BlockRecord
                 PROVE  [r EXCEPT !.state = "ERROR", !.done = r.done + 1] \in BlockRecord
      OBVIOUS
    <3>1. r.done + 1 \in Nat /\ "ERROR" \in States
      BY DEF BlockRecord, States
    <3> QED
      BY <3>1 DEF BlockRecord
  <2>2. ASSUME NEW a \in Attempt, ConnectRequest(a) PROVE TypeOK'
    BY <1>0, <2>1, <2>2, Blocks, LinkFacts
       DEF TypeOK, ConnectRequest, BlockRecord, clientVars, listVars, serverVars
  <2>3. ASSUME NEW a \in Attempt, ConnectRequestFails(a) PROVE TypeOK'
    <3>1. cb' = [cb EXCEPT ![Listen] =
                   [cb[Listen] EXCEPT !.state = "ERROR", !.done = cb[Listen].done + 1]]
      BY <1>0, <2>3, Blocks DEF ConnectRequestFails
    <3>2. cb' \in [Block -> BlockRecord]
      BY <1>0, <2>4, <3>1, Blocks
    <3> QED
      BY <2>3, <3>2
         DEF TypeOK, ConnectRequestFails, BlockRecord, clientVars, handlerVars, listVars, serverVars
  <2> QED
    BY <1>3, <2>2, <2>3
<1>4. CASE HandlerStep
  <2>1. CASE HandlerStore
    BY <2>1, Blocks DEF TypeOK, HandlerStore, clientVars, serverVars
  <2>2. CASE HandlerLink
    <3>1. queue' \in Seq(Attempt)
      BY <2>2, QueueFacts DEF TypeOK, HandlerLink
    <3> QED
      BY <2>2, <3>1, Blocks DEF TypeOK, HandlerLink, clientVars, serverVars
  <2>3. CASE HandlerNotify
    <3>1. cb' = [cb EXCEPT ![Listen] = [cb[Listen] EXCEPT !.done = cb[Listen].done + 1]]
      BY <1>0, <2>3, Blocks DEF HandlerNotify
    <3>2. \A r \in BlockRecord : [r EXCEPT !.done = r.done + 1] \in BlockRecord
      BY DEF BlockRecord
    <3>3. cb' \in [Block -> BlockRecord]
      BY <1>0, <3>1, <3>2, Blocks
    <3> QED
      BY <2>3, <3>3 DEF TypeOK, HandlerNotify, BlockRecord, clientVars, listVars, serverVars
  <2> QED
    BY <1>4, <2>1, <2>2, <2>3 DEF HandlerStep
<1>5. CASE ServerStep
  <2>1. /\ cb' \in [Block -> BlockRecord] /\ fault' \in BOOLEAN
        /\ UNCHANGED <<clientVars, cli, stray, handlerVars, stop>>
    BY <1>5, ServerFrame
  <2>2. srv' \in [Attempt -> {"none", "req", "rep", "rtu", "est", "rejected", "closed", "dead"}]
    BY <1>5 DEF TypeOK, ServerStep, krdma_listen, ServerLoop, AcceptLook, AcceptWake, AcceptPick,
                AcceptUnlink, AcceptInit, AcceptAnswer, AcceptDone, ServerReceive, ServerLeave,
                AcceptGivesUp
  <2>3. spc' \in {"start", "returned", "accept", "look", "sleep", "pick", "unlink", "init",
                  "answer", "wait", "serve", "leave", "oops"}
    BY <1>5 DEF ServerStep, krdma_listen, ServerLoop, AcceptLook, AcceptWake, AcceptPick,
                AcceptUnlink, AcceptInit, AcceptAnswer, AcceptDone, ServerReceive, ServerLeave,
                AcceptGivesUp
  <2>4. /\ nxt' \in [Node -> Node \cup {Poison}] /\ prv' \in [Node -> Node \cup {Poison}]
        /\ cur' \in Attempt /\ around' \in [next : Node, prev : Node]
        /\ queue' \in Seq(Attempt) /\ torn' \in BOOLEAN
    <3>1. CASE AcceptPick
      BY <3>1, LinkFacts, Blocks DEF AcceptPick, ServerAt, TypeOK
    <3>2. CASE AcceptUnlink
      <4>1. queue' \in Seq(Attempt)
        BY <3>2, QueueFacts, EmptySeq DEF AcceptUnlink, TypeOK
      <4> QED
        BY <3>2, <4>1, LinkFacts, Blocks DEF AcceptUnlink, ServerAt, TypeOK
    <3>3. CASE ~(AcceptPick \/ AcceptUnlink)
      BY <1>5, <3>3 DEF TypeOK, ServerStep, krdma_listen, ServerLoop, AcceptLook, AcceptWake,
                AcceptInit, AcceptAnswer, AcceptDone, ServerReceive, ServerLeave, listVars
    <3> QED
      BY <3>1, <3>2, <3>3
  <2> QED
    BY <2>1, <2>2, <2>3, <2>4 DEF TypeOK, BlockRecord, clientVars, handlerVars
<1>6. CASE krdma_exit
  BY <1>6 DEF TypeOK, krdma_exit, clientVars, handlerVars, listVars, serverVars
<1>7. CASE UNCHANGED vars
  BY <1>7 DEF TypeOK, vars, clientVars, handlerVars, listVars, serverVars
<1> QED
  BY <1>1, <1>2, <1>3, <1>4, <1>5, <1>6, <1>7 DEF Next

-----------------------------------------------------------------------------
(* The client.                                                             *)

\* What the client holds at its start.
LEMMA ClientInit0 == Init => ClientInv
BY Blocks DEF Init, ClientInv, NewBlock, Attempt

\* The client's own steps: each looks at the state of the block that the present
\* attempt's events have left, and the next attempt starts with a cm_id of its own.
LEMMA ClientOwnStep == TypeOK /\ ClientInv /\ ClientStep => ClientInv'
<1> SUFFICES ASSUME TypeOK, ClientInv, ClientStep PROVE ClientInv'
  OBVIOUS
<1>0. /\ cb \in [Block -> BlockRecord] /\ Client \in Block /\ try \in Attempt
      /\ cli \in [Attempt -> {"none", "resolving", "routing", "idle", "req", "est",
                              "rejected", "closed", "dead"}]
      /\ \A a \in Attempt : a \in Int
  BY Blocks DEF TypeOK, BlockRecord
<1>a. cb[Client] \in BlockRecord
  BY <1>0
<1>b. ASSUME NEW blocks \in [Block -> BlockRecord], ClientGivesUp(blocks)
      PROVE  /\ cb'[Client].mem = "freed" /\ cb'[Client].res = blocks[Client].res
             /\ cb'[Client].state = blocks[Client].state
             /\ cli' = [cli EXCEPT ![try] = "dead"] /\ cpc' = "failed" /\ try' = try
  BY <1>b, <1>0 DEF ClientGivesUp, BlockRecord
<1>c. ASSUME cpc' = "failed" \/ cpc' = "released",
             cb'[Client].mem = "freed", cb'[Client].res # "held",
             cli' = [cli EXCEPT ![try] = "dead"], try' = try
      PROVE  ClientInv'
  BY <1>c, <1>0 DEF ClientInv
<1>1. CASE ClientCreate
  BY <1>0, <1>1 DEF ClientInv, ClientCreate, At, NewBlock
<1>2. CASE ClientBind
  <2>1. CASE ClientGivesUp(cb)
    BY <1>0, <1>2, <1>b, <1>c, <2>1 DEF ClientInv, ClientBind, At
  <2>2. CASE ~ClientGivesUp(cb)
    BY <1>0, <1>2, <2>2 DEF ClientInv, ClientBind, At
  <2> QED
    BY <2>1, <2>2
<1>3. CASE ClientAddr
  <2>0. cpc = "addr" /\ Waited(Client) \in [Block -> BlockRecord]
        /\ Waited(Client)[Client].mem = cb[Client].mem
        /\ Waited(Client)[Client].res = cb[Client].res
        /\ Waited(Client)[Client].state = cb[Client].state
    BY <1>0, <1>3, WaitedFacts DEF ClientAddr, At
  <2>1. CASE ClientGivesUp(Waited(Client))
    BY <1>b, <1>c, <2>0, <2>1 DEF ClientInv
  <2>2. CASE ~ClientGivesUp(Waited(Client))
    BY <1>0, <1>3, <2>0, <2>2 DEF ClientInv, ClientAddr
  <2> QED
    BY <2>1, <2>2
<1>4. CASE ClientRoute
  <2>0. cpc = "route" /\ Waited(Client) \in [Block -> BlockRecord]
        /\ Waited(Client)[Client].mem = cb[Client].mem
        /\ Waited(Client)[Client].res = cb[Client].res
        /\ Waited(Client)[Client].state = cb[Client].state
    BY <1>0, <1>4, WaitedFacts DEF ClientRoute, At
  <2>1. CASE ClientGivesUp(Waited(Client))
    BY <1>b, <1>c, <2>0, <2>1 DEF ClientInv
  <2>2. CASE ~ClientGivesUp(Waited(Client))
    BY <1>0, <1>4, <2>0, <2>2 DEF ClientInv, ClientRoute
  <2> QED
    BY <2>1, <2>2
<1>5. CASE ClientInit
  <2>0. cpc = "init"
    BY <1>5 DEF ClientInit, At
  <2>1. CASE cb' = [cb EXCEPT ![Client].res = "held"] /\ cpc' = "connect"
             /\ UNCHANGED <<try, sent, cli, fault>>
    BY <1>0, <1>a, <2>0, <2>1 DEF ClientInv, BlockRecord
  <2>2. CASE ClientGivesUp([cb EXCEPT ![Client].res = "undone"])
    <3>1. /\ [cb EXCEPT ![Client].res = "undone"] \in [Block -> BlockRecord]
          /\ [cb EXCEPT ![Client].res = "undone"][Client].res = "undone"
      BY <1>0, <1>a DEF BlockRecord
    <3> QED
      BY <1>b, <1>c, <2>2, <3>1
  <2> QED
    BY <1>5, <2>1, <2>2 DEF ClientInit
<1>6. CASE ClientConnect
  <2>0. cpc = "connect"
    BY <1>6 DEF ClientConnect, At
  <2>1. CASE cpc' = "wait"
    BY <1>0, <1>6, <2>0, <2>1 DEF ClientInv, ClientConnect
  <2>2. CASE cpc' # "wait"
    <3>1. /\ krdma_release_cb(Client, cb, "freed") /\ cpc' = "failed" /\ try' = try
          /\ cli' = [cli EXCEPT ![try] = "dead"]
      BY <1>6, <2>2 DEF ClientConnect
    <3> QED
      BY <1>0, <1>c, <3>1, Released
  <2> QED
    BY <2>1, <2>2
<1>7. CASE ClientAnswer
  <2>0. cpc = "wait" /\ Waited(Client) \in [Block -> BlockRecord]
        /\ Waited(Client)[Client].mem = cb[Client].mem
        /\ Waited(Client)[Client].res = cb[Client].res
        /\ Waited(Client)[Client].state = cb[Client].state
    BY <1>0, <1>7, WaitedFacts DEF ClientAnswer, At
  <2>1. CASE cb[Client].state = "CONNECTED"
    <3>1. cb' = Waited(Client) /\ cpc' = "up" /\ UNCHANGED <<try, cli>>
      BY <1>7, <2>1 DEF ClientAnswer
    <3> QED
      BY <1>0, <2>0, <2>1, <3>1 DEF ClientInv
  <2>2. CASE cb[Client].state = "CONNECT_REJECTED" /\ try < Tries
    <3>1. /\ krdma_release_cb(Client, Waited(Client), "live")
          /\ cpc' = "bind" /\ try' = try + 1 /\ cli' = [cli EXCEPT ![try] = "dead"]
      BY <1>7, <2>2 DEF ClientAnswer
    <3>2. /\ cb'[Client].mem = "live" /\ cb'[Client].res = "released"
          /\ cb'[Client].state = "CONNECT_REJECTED"
      BY <1>0, <2>0, <2>2, <3>1, Released
    <3>3. try + 1 \in Attempt /\ cli'[try + 1] = "none"
      BY <1>0, <2>2, <3>1, TriesAssumption DEF Attempt, ClientInv
    <3>4. \A a \in Attempt : (a < try + 1 => cli'[a] = "dead") /\ (a > try + 1 => cli'[a] = "none")
      BY <1>0, <3>1 DEF ClientInv
    <3> QED
      BY <3>1, <3>2, <3>3, <3>4 DEF ClientInv
  <2>3. CASE cb[Client].state # "CONNECTED" /\ ~(cb[Client].state = "CONNECT_REJECTED" /\ try < Tries)
    <3>1. /\ krdma_release_cb(Client, Waited(Client), "freed")
          /\ cpc' = "failed" /\ try' = try /\ cli' = [cli EXCEPT ![try] = "dead"]
      BY <1>7, <2>3 DEF ClientAnswer
    <3> QED
      BY <1>0, <1>c, <2>0, <3>1, Released
  <2> QED
    BY <2>1, <2>2, <2>3
<1>8. CASE ClientRelease
  <2>1. /\ krdma_release_cb(Client, cb, "freed") /\ cpc' = "released" /\ try' = try
        /\ cli' = [cli EXCEPT ![try] = "dead"]
    BY <1>8 DEF ClientRelease
  <2> QED
    BY <1>0, <1>c, <2>1, Released
<1> QED
  BY <1>1, <1>2, <1>3, <1>4, <1>5, <1>6, <1>7, <1>8 DEF ClientStep

\* The events of the client's cm_id.
LEMMA ClientEventStep == TypeOK /\ ClientInv /\ ClientEvent => ClientInv'
<1> SUFFICES ASSUME TypeOK, ClientInv, ClientEvent PROVE ClientInv'
  OBVIOUS
<1>1. PICK e \in CmEvents : /\ cli[try] = e[1] /\ cli' = [cli EXCEPT ![try] = e[3]]
                            /\ krdma_cma_event_handler(Client, e[2])
  BY DEF ClientEvent
<1>2. UNCHANGED <<cpc, try>> /\ try \in Attempt /\ Client \in Block /\ e[2] \in Event
  BY <1>1, Blocks DEF ClientEvent, clientVars, TypeOK, CmEvents, Event
<1>3. /\ cb'[Client].mem = cb[Client].mem /\ cb'[Client].res = cb[Client].res
      /\ cb[Client].mem = "live" => cb'[Client].state = StateAfter(e[2], cb[Client].state)
  BY <1>1, <1>2, Handled
<1>4. e[1] \notin {"none", "dead", "rep", "rtu"} => cb[Client].mem = "live"
  BY <1>1 DEF ClientInv
<1>5. /\ cli \in [Attempt -> {"none", "resolving", "routing", "idle", "req", "est",
                              "rejected", "closed", "dead"}]
      /\ \A a \in Attempt : a \in Int
  BY Blocks DEF TypeOK
<1>6. \A a \in Attempt : a # try => cli'[a] = cli[a]
  BY <1>1, <1>5
<1>7. cli'[try] = e[3]
  BY <1>1, <1>2, <1>5
<1>8. \/ e = <<"resolving", "ADDR_RESOLVED", "idle">> \/ e = <<"resolving", "ADDR_ERROR", "idle">>
      \/ e = <<"routing", "ROUTE_RESOLVED", "idle">> \/ e = <<"routing", "ROUTE_ERROR", "idle">>
      \/ e = <<"req", "ESTABLISHED", "est">> \/ e = <<"req", "REJECTED", "rejected">>
      \/ e = <<"est", "DISCONNECTED", "closed">>
  BY <1>1, <1>2, <1>5 DEF CmEvents
<1>9. \A a \in Attempt : (a < try => cli'[a] = "dead") /\ (a > try => cli'[a] = "none")
  BY <1>2, <1>5, <1>6 DEF ClientInv
<1>10. cb[Client].mem = "live"
  BY <1>4, <1>8
<1> QED
  BY <1>1, <1>2, <1>3, <1>7, <1>8, <1>9, <1>10 DEF ClientInv, StateAfter

\* Every step keeps what the client holds.
LEMMA ClientInvStep == TypeOK /\ ClientInv /\ ListInv /\ [Next]_vars => ClientInv'
<1> SUFFICES ASSUME TypeOK, ClientInv, ListInv, [Next]_vars PROVE ClientInv'
  OBVIOUS
<1>1. ASSUME UNCHANGED <<cpc, try, cli>>,
             cb'[Client].mem = cb[Client].mem, cb'[Client].res = cb[Client].res,
             cb[Client].mem = "live" => cb'[Client].state = cb[Client].state
      PROVE  ClientInv'
  BY <1>1 DEF ClientInv
<1>2. CASE ServerStep
  BY <1>1, <1>2, ServerFrame DEF clientVars
<1>3. ASSUME NEW a \in Attempt PROVE Context(a) \in Block /\ Context(a) # Client
  BY Blocks DEF Context
<1>4. CASE StrayEvent
  <2>1. PICK b \in Block : krdma_cma_event_handler(b, "OTHER")
    BY <1>3, <1>4, Blocks DEF StrayEvent
  <2>2. "OTHER" \in Event /\ \A s : StateAfter("OTHER", s) = s
    BY DEF Event, StateAfter
  <2>3. /\ cb'[Client].mem = cb[Client].mem /\ cb'[Client].res = cb[Client].res
        /\ cb[Client].mem = "live" => cb'[Client].state = cb[Client].state
    BY <2>1, <2>2, Handled, Blocks
  <2> QED
    BY <1>1, <1>4, <2>3 DEF StrayEvent, clientVars
<1>5. ASSUME NEW a \in Attempt, ServerEvent(a) PROVE ClientInv'
  <2>1. PICK e \in CmEvents : krdma_cma_event_handler(Context(a), e[2])
    BY <1>5 DEF ServerEvent
  <2>2. e[2] \in Event
    BY DEF CmEvents, Event
  <2>3. cb'[Client] = cb[Client]
    BY <1>3, <2>1, <2>2, Handled, Blocks
  <2> QED
    BY <1>1, <1>5, <2>3 DEF ServerEvent, clientVars
<1>6. CASE HandlerStep
  BY <1>1, <1>6, Blocks
     DEF HandlerStep, HandlerStore, HandlerLink, HandlerNotify, clientVars, TypeOK
<1>7. ASSUME NEW a \in Attempt, ConnectRequest(a) \/ ConnectRequestFails(a) PROVE ClientInv'
  BY <1>1, <1>7, Blocks DEF ConnectRequest, ConnectRequestFails, clientVars, TypeOK
<1>8. CASE krdma_exit \/ UNCHANGED vars
  BY <1>1, <1>8 DEF krdma_exit, vars, clientVars
<1> QED
  BY <1>2, <1>4, <1>5, <1>6, <1>7, <1>8, ClientOwnStep, ClientEventStep DEF Next

-----------------------------------------------------------------------------
(* The blocks of the requests.                                             *)

\* At the start there are no requests and no blocks.
LEMMA BlockInit == Init => BlockInv
BY Blocks DEF Init, BlockInv, NewBlock, Listening

\* A step of the client tells its cm_id nothing.
LEMMA ClientTold ==
  ASSUME TypeOK, ClientInv, ClientInv', ClientStep, cli'[try'] \in {"est", "closed"}
  PROVE  UNCHANGED <<cli, try>>
<1>1. cpc' \in {"wait", "up"} \/ cpc' \notin {"start", "bind", "addr", "route", "init", "connect",
                                              "wait", "up", "failed", "released"}
  BY DEF ClientInv
<1>2. cpc' \in {"bind", "addr", "route", "init", "connect", "wait", "up", "failed", "released"}
  BY DEF ClientStep, ClientCreate, ClientBind, ClientAddr, ClientRoute, ClientInit,
         ClientConnect, ClientAnswer, ClientRelease, ClientGivesUp
<1>3. CASE ClientConnect
  BY <1>1, <1>2, <1>3 DEF ClientConnect, TypeOK
<1>4. CASE ClientAnswer
  BY <1>1, <1>2, <1>4 DEF ClientAnswer
<1>5. CASE ~ClientConnect /\ ~ClientAnswer
  BY <1>1, <1>2, <1>5 DEF ClientStep, ClientCreate, ClientBind, ClientAddr, ClientRoute,
                          ClientInit, ClientRelease, ClientGivesUp
<1> QED
  BY <1>3, <1>4, <1>5

\* The events: the connection that has been made had its queues.
LEMMA BlockEventStep ==
  ASSUME TypeOK, BlockInv, ClientEvent \/ StrayEvent \/ \E a \in Attempt : ServerEvent(a)
  PROVE  BlockInv'
<1>0. /\ \A x \in Block : cb'[x].mem = cb[x].mem /\ cb'[x].res = cb[x].res
      /\ UNCHANGED <<hpc, hreq, spc, cur, try>>
  BY EventFrame DEF clientVars, handlerVars, serverVars
<1>1. /\ try \in Attempt /\ cur \in Attempt /\ hreq \in Attempt /\ Listen \in Block
      /\ \A a \in Attempt : a \in Block
  BY Blocks DEF TypeOK
<1>2. (Listening <=> Listening') /\ \A a \in Attempt : cb'[a].mem = cb[a].mem /\ cb'[a].res = cb[a].res
  BY <1>0, <1>1 DEF Listening
<1>3. ASSUME NEW a \in Attempt, NEW s \in {"rtu", "est", "rejected", "closed"},
             srv' = [srv EXCEPT ![a] = s] \/ srv' = srv,
             srv' # srv => /\ srv[a] \notin {"none", "dead"}
                           /\ s # "rejected" => srv[a] \in {"rep", "rtu", "est"},
             cli'[try] \in {"est", "closed"} =>
               cli[try] \in {"est", "closed"} \/ srv[try] = "rep"
      PROVE  BlockInv'
  <2>1. \A x \in Attempt : x # a => srv'[x] = srv[x]
    BY <1>3 DEF TypeOK
  <2>2. srv'[a] = srv[a] \/ srv'[a] = s
    BY <1>3 DEF TypeOK
  <2>3. srv'[a] # srv[a] => /\ srv'[a] = s /\ srv[a] \notin {"none", "dead"}
                            /\ s # "rejected" => srv[a] \in {"rep", "rtu", "est"}
    BY <1>3, <2>2
  <2>4. \A x \in Attempt :
          /\ srv'[x] = "none" => cb'[x].mem = "none"
          /\ cb'[x].mem = "none" => cb'[x].res = "null"
          /\ cb'[x].mem = "freed" => srv'[x] = "dead" \/ cb'[x].res = "undone"
          /\ srv'[x] \in {"rep", "rtu", "est", "closed"} => cb'[x].res = "held"
          /\ srv'[x] # "none" => Listening'
    BY <1>2, <2>1, <2>3 DEF BlockInv
  <2>5. cli'[try] \in {"est", "closed"} => cb'[try].res \in {"held", "released"}
    BY <1>1, <1>2, <1>3 DEF BlockInv
  <2> QED
    BY <1>0, <1>1, <1>2, <2>4, <2>5 DEF BlockInv
<1>4. CASE ClientEvent
  <2>1. PICK e \in CmEvents : /\ cli[try] = e[1] /\ cli' = [cli EXCEPT ![try] = e[3]]
                              /\ e[2] = "ESTABLISHED" => srv[try] = "rep"
                              /\ srv' = IF e[2] = "ESTABLISHED" THEN [srv EXCEPT ![try] = "rtu"]
                                                                ELSE srv
    BY <1>4 DEF ClientEvent
  <2>2. cli'[try] = e[3]
    BY <1>1, <2>1 DEF TypeOK
  <2>3. e[3] \in {"est", "closed"} => e[2] = "ESTABLISHED" \/ e[1] = "est"
    BY DEF CmEvents
  <2> QED
    BY <1>1, <1>3, <2>1, <2>2, <2>3
<1>5. CASE StrayEvent
  BY <1>1, <1>3, <1>5 DEF StrayEvent
<1>6. ASSUME NEW a \in Attempt, ServerEvent(a) PROVE BlockInv'
  <2>1. PICK e \in CmEvents : srv[a] = e[1] /\ srv' = [srv EXCEPT ![a] = e[3]]
                              /\ (srv[a] = "req" => e[2] = "REJECTED")
    BY <1>6 DEF ServerEvent
  <2>2. srv[a] \in {"req", "rep", "rtu", "est"} /\ e[3] \in {"est", "rejected", "closed"}
    <3>1. e[1] \notin {"resolving", "routing"}
      BY <2>1 DEF TypeOK
    <3> QED
      BY <2>1, <3>1 DEF CmEvents
  <2>3. e[3] # "rejected" => srv[a] \in {"rep", "rtu", "est"}
    BY <2>1, <2>2 DEF CmEvents
  <2>4. cli' = cli
    BY <1>6 DEF ServerEvent
  <2> QED
    BY <1>3, <2>1, <2>2, <2>3, <2>4
<1> QED
  BY <1>4, <1>5, <1>6

\* The server thread's steps.
LEMMA BlockServerStep ==
  ASSUME TypeOK, BlockInv, ListInv, ServerStep
  PROVE  BlockInv'
<1>0. /\ cb \in [Block -> BlockRecord] /\ srv \in [Attempt -> {"none", "req", "rep", "rtu", "est",
                                                               "rejected", "closed", "dead"}]
      /\ try \in Attempt /\ cur \in Attempt /\ hreq \in Attempt /\ Listen \in Block
      /\ \A a \in Attempt : a \in Block /\ a # Listen
      /\ spc \in {"start", "returned", "accept", "look", "sleep", "pick", "unlink", "init",
                  "answer", "wait", "serve", "leave", "oops"}
  BY Blocks DEF TypeOK, BlockRecord
<1>1. \A x \in Attempt : x # cur => cb'[x] = cb[x]
  BY ServerFrame
<1>2. UNCHANGED <<hpc, hreq, cli, try>>
  BY ServerFrame DEF clientVars, handlerVars
<1>3. CASE krdma_listen
  <2>1. spc = "start" /\ srv' = srv /\ cur' = cur /\ ~Listening
    BY <1>3 DEF krdma_listen, ServerAt, BlockInv
  <2>2. \A a \in Attempt : srv[a] = "none" /\ cb[a].mem = "none" /\ cb'[a] = cb[a]
    BY <1>0, <1>3, <2>1 DEF krdma_listen, BlockInv
  <2>3. spc' \in {"accept", "returned"} /\ (Listening' <=> spc' = "accept")
    BY <1>0, <1>3, <2>1 DEF krdma_listen, Listening, NewBlock
  <2> QED
    BY <1>0, <1>2, <2>1, <2>2, <2>3 DEF BlockInv
<1>4. CASE ServerLoop \/ AcceptLook \/ ServerLeave \/ AcceptUnlink
  <2>1. UNCHANGED <<cb, srv, cur>>
    BY <1>4 DEF ServerLoop, AcceptLook, ServerLeave, AcceptUnlink
  <2>2. /\ spc \in {"accept", "look", "leave", "unlink"}
        /\ spc' \in {"leave", "look", "sleep", "pick", "oops", "init"}
        /\ spc' = "init" => spc = "unlink"
    BY <1>4 DEF ServerLoop, AcceptLook, ServerLeave, AcceptUnlink, ServerAt
  <2> QED
    BY <1>2, <2>1, <2>2 DEF BlockInv, Listening
<1>5. CASE AcceptWake
  <2>1. spc = "sleep" /\ spc' \in {"leave", "look"} /\ UNCHANGED <<srv, cur>>
    BY <1>5 DEF AcceptWake, ServerAt
  <2>2. \A x \in Block : cb'[x].mem = cb[x].mem /\ cb'[x].res = cb[x].res
    BY <1>0, <1>5, WaitedFacts DEF AcceptWake
  <2> QED
    BY <1>0, <1>2, <2>1, <2>2 DEF BlockInv, Listening
<1>6. CASE AcceptPick
  <2>1. spc = "pick" /\ spc' = "unlink" /\ UNCHANGED <<cb, srv>> /\ cur' = nxt[Listen]
    BY <1>6 DEF AcceptPick, ServerAt
  <2>2. cur' \in Attempt /\ cb[cur'].mem = "live" /\ cb[cur'].res = "null"
    BY <2>1, LinkFacts, Blocks DEF ListInv, EntriesFresh
  <2> QED
    BY <1>2, <2>1, <2>2 DEF BlockInv, Listening
<1>7. CASE AcceptInit
  <2>1. /\ spc = "init" /\ UNCHANGED <<srv, cur>> /\ cb'[Listen] = cb[Listen]
        /\ cb[cur].mem = "live" /\ cb[cur].res = "null"
    BY <1>0, <1>7 DEF AcceptInit, ServerAt, BlockInv
  <2>2. \/ cb'[cur].mem = "live" /\ cb'[cur].res = "held" /\ spc' = "answer"
        \/ cb'[cur].mem = "freed" /\ cb'[cur].res = "undone" /\ spc' = "leave"
    BY <1>0, <1>7, <2>1 DEF AcceptInit, BlockRecord
  <2>3. hpc \in {"store", "link"} => hreq # cur
    BY <2>1 DEF ListInv, Taken, Serving, Unlinked
  <2> QED
    BY <1>0, <1>1, <1>2, <2>1, <2>2, <2>3 DEF BlockInv, Listening
<1>8. ASSUME spc \in {"answer", "serve"}, AcceptGivesUp, cur' = cur PROVE BlockInv'
  <2>1. cb[cur].mem = "live" /\ cb[cur].res = "held"
    BY <1>8 DEF BlockInv
  <2>2. cb'[cur].mem = "freed" /\ cb'[cur].res = "released" /\ cb'[Listen] = cb[Listen]
    BY <1>0, <1>8, Released DEF AcceptGivesUp
  <2>3. srv' = [srv EXCEPT ![cur] = "dead"] /\ spc' = "leave"
    BY <1>8 DEF AcceptGivesUp
  <2> QED
    BY <1>0, <1>1, <1>2, <1>8, <2>1, <2>2, <2>3 DEF BlockInv, Listening
<1>9. CASE AcceptAnswer
  <2>1. CASE AcceptGivesUp
    BY <1>8, <1>9, <2>1 DEF AcceptAnswer, ServerAt
  <2>2. CASE srv[cur] = "req" /\ srv' = [srv EXCEPT ![cur] = "rep"] /\ spc' = "wait"
             /\ UNCHANGED <<cb, fault>>
    BY <1>0, <1>2, <1>9, <2>2 DEF AcceptAnswer, ServerAt, BlockInv, Listening
  <2> QED
    BY <1>9, <2>1, <2>2 DEF AcceptAnswer
<1>10. CASE AcceptDone
  <2>1. spc = "wait" /\ spc' = "serve" /\ UNCHANGED <<srv, cur>>
    BY <1>10 DEF AcceptDone, ServerAt
  <2>2. \A x \in Block : cb'[x].mem = cb[x].mem /\ cb'[x].res = cb[x].res
    BY <1>0, <1>10, WaitedFacts DEF AcceptDone
  <2> QED
    BY <1>0, <1>2, <2>1, <2>2 DEF BlockInv, Listening
<1>11. CASE ServerReceive
  <2>1. CASE AcceptGivesUp
    BY <1>8, <1>11, <2>1 DEF ServerReceive, ServerAt
  <2>2. CASE spc' = "accept" /\ UNCHANGED <<cb, srv, fault>>
    BY <1>0, <1>2, <1>11, <2>2 DEF ServerReceive, ServerAt, BlockInv, Listening
  <2> QED
    BY <1>11, <2>1, <2>2 DEF ServerReceive
<1> QED
  BY <1>3, <1>4, <1>5, <1>6, <1>7, <1>9, <1>10, <1>11 DEF ServerStep

\* Every step keeps what the requests' blocks are.
LEMMA BlockStep ==
  TypeOK /\ ClientInv /\ ClientInv' /\ BlockInv /\ ListInv /\ [Next]_vars => BlockInv'
<1> SUFFICES ASSUME TypeOK, ClientInv, ClientInv', BlockInv, ListInv, [Next]_vars PROVE BlockInv'
  OBVIOUS
<1>0. /\ cb \in [Block -> BlockRecord] /\ srv \in [Attempt -> {"none", "req", "rep", "rtu", "est",
                                                               "rejected", "closed", "dead"}]
      /\ try \in Attempt /\ cur \in Attempt /\ hreq \in Attempt /\ Listen \in Block
      /\ \A a \in Attempt : a \in Block /\ a # Listen /\ a \in Node
      /\ Listen \in Node
  BY Blocks DEF TypeOK, BlockRecord
<1>1. CASE ClientStep
  <2>1. /\ \A x \in Node : cb'[x] = cb[x]
        /\ UNCHANGED <<srv, hpc, hreq, spc, cur>>
    BY <1>1, ClientFrame DEF handlerVars, serverVars
  <2>2. cli'[try'] \in {"est", "closed"} => UNCHANGED <<cli, try>>
    BY <1>1, ClientTold
  <2> QED
    BY <1>0, <2>1, <2>2 DEF BlockInv, Listening
<1>2. CASE ClientEvent \/ StrayEvent \/ \E a \in Attempt : ServerEvent(a)
  BY <1>2, BlockEventStep
<1>3. ASSUME NEW a \in Attempt, ConnectRequest(a) PROVE BlockInv'
  <2>1. /\ hpc = "idle" /\ Listening /\ srv[a] = "none" /\ hpc' = "store" /\ hreq' = a
        /\ srv' = [srv EXCEPT ![a] = "req"] /\ cb' = [cb EXCEPT ![a] = NewBlock]
        /\ UNCHANGED <<spc, cur, cli, try>>
    BY <1>3 DEF ConnectRequest, clientVars, serverVars
  <2>2. cb[a].mem = "none" /\ cb[a].res = "null"
    BY <2>1 DEF BlockInv
  <2>3. cb'[a].mem = "live" /\ cb'[a].res = "null" /\ (Listening' <=> Listening)
        /\ \A x \in Attempt : x # a => cb'[x] = cb[x]
    BY <1>0, <2>1 DEF NewBlock, Listening
  <2> QED
    BY <1>0, <2>1, <2>2, <2>3 DEF BlockInv
<1>4. ASSUME NEW a \in Attempt, ConnectRequestFails(a) PROVE BlockInv'
  <2>1. /\ Listening /\ srv[a] = "none" /\ srv' = [srv EXCEPT ![a] = "req"]
        /\ UNCHANGED <<spc, cur, cli, try, hpc, hreq>>
    BY <1>4 DEF ConnectRequestFails, clientVars, serverVars, handlerVars
  <2>2. /\ \A x \in Attempt : cb'[x] = cb[x]
        /\ Listening' <=> Listening
    BY <1>0, <1>4 DEF ConnectRequestFails, Listening, BlockRecord
  <2>3. cb[a].mem = "none" /\ cb[a].res = "null"
    BY <2>1 DEF BlockInv
  <2> QED
    BY <1>0, <2>1, <2>2, <2>3 DEF BlockInv
<1>5. CASE HandlerStep
  <2>1. /\ \A x \in Attempt : cb'[x] = cb[x]
        /\ Listening' <=> Listening
    BY <1>0, <1>5 DEF HandlerStep, HandlerStore, HandlerLink, HandlerNotify, Listening, BlockRecord
  <2>2. /\ UNCHANGED <<srv, hreq, spc, cur, cli, try>>
        /\ hpc' \in {"store", "link"} => hpc \in {"store", "link"}
    BY <1>5 DEF HandlerStep, HandlerStore, HandlerLink, HandlerNotify, clientVars, serverVars
  <2> QED
    BY <1>0, <2>1, <2>2 DEF BlockInv
<1>6. CASE ServerStep
  BY <1>6, BlockServerStep
<1>7. CASE krdma_exit \/ UNCHANGED vars
  BY <1>7 DEF krdma_exit, vars, clientVars, handlerVars, listVars, serverVars, BlockInv, Listening
<1> QED
  BY <1>1, <1>2, <1>3, <1>4, <1>5, <1>6, <1>7 DEF Next

-----------------------------------------------------------------------------
(* The links of ready_conn.                                                *)

\* ready_conn is empty at the start.
LEMMA ListInit == Init => ListInv
<1> SUFFICES ASSUME Init PROVE ListInv
  OBVIOUS
<1>1. /\ nxt[Listen] = Listen /\ prv[Listen] = Listen /\ hpc = "idle" /\ spc = "start"
      /\ \A x \in Node : nxt[x] \notin Attempt
  BY Blocks DEF Init
<1> QED
  BY <1>1, Blocks
     DEF ListInv, Ends, NotYetLinked, PointsOn, PointsBack, EntriesFresh, Adding, LastEntry,
         Taking, Taken, Serving

\* A step that leaves the links alone, and the blocks of the entries, keeps ListInv.
LEMMA LinksKept ==
  ASSUME TypeOK, ListInv, UNCHANGED <<nxt, prv, hreq, pred, cur, around>>,
         hpc' = hpc \/ {hpc, hpc'} \cap {"store", "link"} = {},
         \A a \in Attempt : cb'[a].mem = "none" <=> cb[a].mem = "none",
         \A a \in Attempt : \/ cb'[a].mem = cb[a].mem /\ cb'[a].res = cb[a].res
                            \/ \A x \in Node : nxt[x] # a,
         \/ spc' = spc
         \/ /\ spc # "unlink" /\ spc' # "unlink" /\ (spc' \in Serving => spc \in Serving)
            /\ spc' = "pick" => nxt[Listen] # Listen
  PROVE  ListInv'
<1>1. \A a \in Attempt : Unlinked(a)' <=> Unlinked(a)
  BY DEF Unlinked
<1>2. Ends' /\ NotYetLinked' /\ PointsOn'
  BY <1>1 DEF ListInv, Ends, NotYetLinked, PointsOn
<1>3. PointsBack'
  BY DEF ListInv, PointsBack
<1>4. EntriesFresh'
  BY DEF ListInv, EntriesFresh
<1>5. Adding' /\ LastEntry'
  BY DEF ListInv, Adding, LastEntry
<1>6. Taking'
  BY DEF ListInv, Taking
<1>7. Taken'
  <2>1. Unlinked(cur)' <=> Unlinked(cur)
    BY DEF TypeOK, Unlinked
  <2>2. spc' \in Serving => spc \in Serving
    OBVIOUS
  <2>3. spc' # "unlink" /\ spc' \in Serving => spc # "unlink"
    OBVIOUS
  <2> QED
    BY <2>1, <2>2, <2>3 DEF ListInv, Taken
<1> QED
  BY <1>2, <1>3, <1>4, <1>5, <1>6, <1>7 DEF ListInv

\* list_add_tail begins: nobody points to the new entry, and the last one has been read.
LEMMA LinksRequest ==
  ASSUME TypeOK, BlockInv, ListInv, NEW a \in Attempt, ConnectRequest(a)
  PROVE  ListInv'
<1>0. /\ cb \in [Block -> BlockRecord] /\ a \in Block /\ a \in Node /\ cur \in Attempt
      /\ \A x \in Attempt : x \in Block
  BY Blocks DEF TypeOK, BlockRecord
<1>1. /\ hpc = "idle" /\ hpc' = "store" /\ hreq' = a /\ pred' = prv[Listen]
      /\ cb[a].mem = "none" /\ cb'[a].mem = "live"
      /\ \A x \in Attempt : x # a => cb'[x] = cb[x]
      /\ UNCHANGED <<nxt, prv, spc, cur, around>>
  BY <1>0 DEF ConnectRequest, BlockInv, listVars, serverVars, NewBlock
<1>2. \A x \in Attempt : Unlinked(x)' <=> Unlinked(x)
  BY <1>1 DEF Unlinked
<1>3. \A x \in Node : nxt[x] # a
  BY <1>1 DEF ListInv, NotYetLinked, Unlinked
<1>4. Ends' /\ NotYetLinked' /\ PointsOn' /\ PointsBack'
  BY <1>1, <1>2 DEF ListInv, Ends, NotYetLinked, PointsOn, PointsBack
<1>5. EntriesFresh'
  BY <1>1, <1>3 DEF ListInv, EntriesFresh
<1>6. Adding' /\ LastEntry'
  <2>1. prv[Listen] # a
    BY <1>1 DEF ListInv, LastEntry
  <2> QED
    BY <1>1, <2>1 DEF ListInv, Adding, LastEntry
<1>7. Taking' /\ Taken'
  <2>1. Unlinked(cur)' <=> Unlinked(cur)
    BY <1>0, <1>2, <1>1
  <2> QED
    BY <1>1, <2>1 DEF ListInv, Taking, Taken
<1> QED
  BY <1>4, <1>5, <1>6, <1>7 DEF ListInv

\* The first two stores: the head's and the new entry's.
LEMMA LinksStore ==
  ASSUME TypeOK, BlockInv, ListInv, HandlerStore
  PROVE  ListInv'
<1>0. /\ nxt \in [Node -> Node \cup {Poison}] /\ prv \in [Node -> Node \cup {Poison}]
      /\ hreq \in Attempt /\ hreq \in Node /\ hreq # Listen /\ Listen \in Node /\ pred \in Node
      /\ cur \in Attempt /\ Listen \notin Attempt /\ Listen # Poison
  BY Blocks DEF TypeOK
<1>1. /\ hpc = "store" /\ hpc' = "link" /\ UNCHANGED <<cb, hreq, pred, spc, cur, around>>
      /\ prv' = [prv EXCEPT ![Listen] = hreq, ![hreq] = pred]
      /\ nxt' = [nxt EXCEPT ![hreq] = Listen]
  BY DEF HandlerStore, serverVars
<1>2. /\ prv'[Listen] = hreq /\ prv'[hreq] = pred /\ nxt'[hreq] = Listen
      /\ \A x \in Node : x # hreq => nxt'[x] = nxt[x]
      /\ \A x \in Node : x # hreq /\ x # Listen => prv'[x] = prv[x]
  BY <1>0, <1>1
<1>3. \A x \in Attempt : Unlinked(x)' <=> Unlinked(x)
  BY <1>1 DEF Unlinked
<1>4. \A x \in Node : nxt[x] # hreq
  BY <1>0, <1>1 DEF ListInv, NotYetLinked, Unlinked
<1>5. Ends'
  BY <1>0, <1>2 DEF ListInv, Ends
<1>6. NotYetLinked'
  BY <1>0, <1>2, <1>3 DEF ListInv, NotYetLinked
<1>7. PointsOn'
  BY <1>0, <1>2, Blocks DEF ListInv, PointsOn
<1>8. PointsBack'
  BY <1>0, <1>1, <1>2, <1>4, Blocks DEF ListInv, PointsBack
<1>9. EntriesFresh'
  BY <1>0, <1>1, <1>2 DEF ListInv, EntriesFresh
<1>10. Adding' /\ LastEntry'
  BY <1>0, <1>1, <1>2, Blocks DEF ListInv, Adding, LastEntry, BlockInv
<1>11. Taking'
  <2>1. spc = "unlink" => cur # hreq
    BY <1>1 DEF ListInv, Taken, Serving, Unlinked
  <2>2. spc = "unlink" /\ around.next \in Attempt => around.next # hreq
    BY <1>0, <1>4, Blocks DEF ListInv, Taking
  <2> QED
    BY <1>0, <1>1, <1>2, <2>1, <2>2, Blocks DEF ListInv, Taking
<1>12. Taken'
  <2>1. Unlinked(cur)' <=> Unlinked(cur)
    BY <1>1 DEF Unlinked
  <2> QED
    BY <1>0, <1>1, <1>2, <2>1 DEF ListInv, Taken
<1> QED
  BY <1>5, <1>6, <1>7, <1>8, <1>9, <1>10, <1>11, <1>12 DEF ListInv

\* The last store, through the entry that was read first.
LEMMA LinksLink ==
  ASSUME TypeOK, BlockInv, ListInv, HandlerLink
  PROVE  ListInv'
<1>0. /\ nxt \in [Node -> Node \cup {Poison}] /\ prv \in [Node -> Node \cup {Poison}]
      /\ hreq \in Attempt /\ hreq \in Node /\ hreq # Listen /\ Listen \in Node /\ pred \in Node
      /\ cur \in Attempt /\ Listen \notin Attempt /\ Listen # Poison
  BY Blocks DEF TypeOK
<1>1. /\ hpc = "link" /\ hpc' = "notify"
      /\ UNCHANGED <<cb, hreq, pred, prv, spc, cur, around>>
      /\ nxt' = [nxt EXCEPT ![pred] = hreq]
  BY DEF HandlerLink, serverVars
<1>2. /\ nxt'[pred] = hreq
      /\ \A x \in Node : x # pred => nxt'[x] = nxt[x]
  BY <1>0, <1>1
<1>3. /\ \A x \in Attempt : Unlinked(x)' => Unlinked(x)
      /\ \A x \in Attempt : Unlinked(x)' => x # hreq
      /\ Unlinked(hreq)
      /\ cb[hreq].mem = "live" /\ cb[hreq].res = "null"
  BY <1>1 DEF Unlinked, BlockInv
<1>4. \A x \in Node : nxt[x] # hreq
  BY <1>0, <1>3 DEF ListInv, NotYetLinked
<1>5. /\ pred # hreq /\ (pred \in Attempt => nxt[pred] \in {Listen, Poison})
      /\ prv[hreq] = pred /\ nxt[hreq] = Listen /\ prv[Listen] \in {hreq, Listen}
  BY <1>1 DEF ListInv, Adding
<1>6. Ends'
  BY <1>0, <1>1, <1>2, <1>5, Blocks DEF ListInv, Ends
<1>7. NotYetLinked'
  BY <1>0, <1>2, <1>3 DEF ListInv, NotYetLinked
<1>8. PointsOn'
  BY <1>0, <1>2, <1>4, <1>5, Blocks DEF ListInv, PointsOn
<1>9. PointsBack'
  BY <1>0, <1>1, <1>2, <1>5 DEF ListInv, PointsBack
<1>10. EntriesFresh'
  BY <1>0, <1>1, <1>2, <1>3 DEF ListInv, EntriesFresh
<1>11. Adding' /\ LastEntry'
  BY <1>0, <1>1, <1>2, <1>5 DEF ListInv, Adding, LastEntry
<1>12. Taking'
  <2>1. spc = "unlink" => cur # hreq
    BY <1>3 DEF ListInv, Taken, Serving
  <2>2. spc = "pick" => nxt'[Listen] # Listen
    BY <1>0, <1>2 DEF ListInv, Taking
  <2>3. spc = "unlink" /\ around.next \in Attempt => cur # pred
    BY <1>0, <1>5, Blocks DEF ListInv, Taking
  <2> QED
    BY <1>0, <1>1, <1>2, <2>1, <2>2, <2>3, Blocks DEF ListInv, Taking
<1>13. Taken'
  <2>1. spc \in Serving => cur # hreq /\ ~Unlinked(cur)'
    BY <1>0, <1>1, <1>3 DEF ListInv, Taken, Unlinked
  <2> QED
    BY <1>0, <1>1, <1>2, <2>1 DEF ListInv, Taken
<1> QED
  BY <1>6, <1>7, <1>8, <1>9, <1>10, <1>11, <1>12, <1>13 DEF ListInv

\* list_del begins: the next entry points back past the one that is taken.
LEMMA LinksPick ==
  ASSUME TypeOK, BlockInv, ListInv, AcceptPick
  PROVE  ListInv'
<1> DEFINE e == nxt[Listen]
<1>0. /\ nxt \in [Node -> Node \cup {Poison}] /\ prv \in [Node -> Node \cup {Poison}]
      /\ hreq \in Attempt /\ hreq \in Node /\ hreq # Listen /\ Listen \in Node /\ pred \in Node
      /\ Listen \notin Attempt /\ Listen # Poison
  BY Blocks DEF TypeOK
<1>1. /\ spc = "pick" /\ spc' = "unlink" /\ cur' = e
      /\ around' = [next |-> nxt[e], prev |-> prv[e]]
      /\ prv' = [prv EXCEPT ![nxt[e]] = prv[e]]
      /\ UNCHANGED <<cb, nxt, hpc, hreq, pred>>
  BY DEF AcceptPick, ServerAt, handlerVars
<1>2. /\ e \in Attempt /\ e \in Node /\ prv[e] = Listen
      /\ nxt[e] \in Node /\ nxt[e] # e /\ nxt[e] # Poison
  BY <1>1, LinkFacts, Blocks
<1>3. /\ prv'[nxt[e]] = Listen
      /\ \A x \in Node : x # nxt[e] => prv'[x] = prv[x]
      /\ around'.next = nxt[e] /\ around'.prev = Listen
  BY <1>0, <1>1, <1>2
<1>4. \A x \in Attempt : Unlinked(x)' <=> Unlinked(x)
  BY <1>1 DEF Unlinked
<1>5. hpc \in {"store", "link"} => nxt[e] # hreq /\ e # hreq
  BY <1>0, <1>2 DEF ListInv, NotYetLinked, Unlinked
<1>6. \A x \in Node : nxt[x] \in Attempt => prv[nxt[x]] = x
  BY <1>1 DEF ListInv, PointsBack
<1>7. prv'[Listen] = prv[Listen] \/ prv'[Listen] = Listen
  BY <1>0, <1>3
<1>8. Ends'
  BY <1>0, <1>1, <1>7 DEF ListInv, Ends
<1>9. NotYetLinked' /\ PointsOn' /\ EntriesFresh'
  BY <1>1, <1>4 DEF ListInv, NotYetLinked, PointsOn, EntriesFresh
<1>10. PointsBack'
  <2> SUFFICES ASSUME NEW x \in Node, nxt[x] \in Attempt, x # e PROVE prv'[nxt[x]] = x
    BY <1>1 DEF PointsBack
  <2>1. prv[nxt[x]] = x
    BY <1>6
  <2>2. nxt[x] # nxt[e]
    BY <1>2, <1>6, <2>1
  <2> QED
    BY <1>3, <2>1, <2>2, Blocks
<1>11. Adding'
  BY <1>0, <1>1, <1>3, <1>5, <1>7 DEF ListInv, Adding
<1>12. LastEntry'
  BY <1>0, <1>1, <1>7 DEF ListInv, LastEntry
<1>13. Taking'
  BY <1>0, <1>1, <1>2, <1>3, Blocks DEF Taking
<1>14. Taken'
  <2>1. ~Unlinked(e)
    BY <1>0, <1>2 DEF ListInv, NotYetLinked
  <2>2. ~Unlinked(cur)'
    BY <1>1, <2>1 DEF Unlinked
  <2> QED
    BY <1>1, <2>2 DEF Taken
<1> QED
  BY <1>8, <1>9, <1>10, <1>11, <1>12, <1>13, <1>14 DEF ListInv

\* list_del ends: the head points past the entry, which points nowhere.
LEMMA LinksUnlink ==
  ASSUME TypeOK, BlockInv, ListInv, AcceptUnlink
  PROVE  ListInv'
<1>0. /\ nxt \in [Node -> Node \cup {Poison}] /\ prv \in [Node -> Node \cup {Poison}]
      /\ hreq \in Attempt /\ hreq \in Node /\ hreq # Listen /\ Listen \in Node /\ pred \in Node
      /\ Listen \notin Attempt /\ Listen # Poison /\ Poison \notin Attempt /\ Poison \notin Node
      /\ cur \in Attempt /\ cur \in Node /\ cur # Listen /\ around.next \in Node
  BY Blocks DEF TypeOK
<1>1. /\ spc = "unlink" /\ spc' = "init" /\ UNCHANGED <<cb, hpc, hreq, pred, cur, around>>
      /\ nxt' = [nxt EXCEPT ![around.prev] = around.next, ![cur] = Poison]
      /\ prv' = [prv EXCEPT ![cur] = Poison]
  BY DEF AcceptUnlink, ServerAt, handlerVars
<1>2. /\ around.prev = Listen /\ prv[cur] = Listen
      /\ nxt[cur] # cur /\ nxt[cur] # Poison /\ around.next # cur
      /\ around.next \in Attempt => nxt[cur] = around.next /\ prv[around.next] = Listen
  BY <1>1 DEF ListInv, Taking
<1>3. /\ nxt'[Listen] = around.next /\ nxt'[cur] = Poison /\ prv'[cur] = Poison
      /\ \A x \in Node : x # Listen /\ x # cur => nxt'[x] = nxt[x]
      /\ \A x \in Node : x # cur => prv'[x] = prv[x]
  BY <1>0, <1>1, <1>2
<1>4. \A x \in Attempt : Unlinked(x)' <=> Unlinked(x)
  BY <1>1 DEF Unlinked
<1>5. hpc \in {"store", "link"} => cur # hreq
  BY <1>1 DEF ListInv, Taken, Serving, Unlinked
<1>6. \A x \in Node : nxt[x] = cur => x = Listen
  BY <1>0, <1>1, <1>2 DEF ListInv, PointsBack
<1>7. Ends'
  BY <1>0, <1>3 DEF ListInv, Ends
<1>8. NotYetLinked'
  BY <1>0, <1>2, <1>3, <1>4 DEF ListInv, NotYetLinked
<1>9. PointsOn'
  <2> SUFFICES ASSUME NEW x \in Node, nxt'[x] \in Attempt PROVE nxt'[nxt'[x]] # Poison
    BY DEF PointsOn
  <2>1. x # cur /\ nxt'[x] \in Node /\ nxt'[x] # Listen
    BY <1>0, <1>3, Blocks
  <2>2. CASE x = Listen
    <3>1. nxt'[x] = nxt[cur] /\ nxt[nxt[cur]] # Poison
      BY <1>0, <1>2, <1>3, <2>2 DEF ListInv, PointsOn
    <3> QED
      BY <1>2, <1>3, <2>1, <3>1
  <2>3. CASE x # Listen
    BY <1>3, <1>6, <2>1, <2>3 DEF ListInv, PointsOn
  <2> QED
    BY <2>2, <2>3
<1>10. PointsBack'
  <2> SUFFICES ASSUME NEW x \in Node, nxt'[x] \in Attempt PROVE prv'[nxt'[x]] = x
    BY <1>1 DEF PointsBack
  <2>1. x # cur /\ nxt'[x] \in Node
    BY <1>0, <1>3, Blocks
  <2>2. CASE x = Listen
    BY <1>2, <1>3, <2>1, <2>2
  <2>3. CASE x # Listen
    BY <1>1, <1>3, <1>6, <2>1, <2>3 DEF ListInv, PointsBack
  <2> QED
    BY <2>2, <2>3
<1>11. EntriesFresh'
  BY <1>0, <1>1, <1>2, <1>3 DEF ListInv, EntriesFresh
<1>12. Adding'
  BY <1>0, <1>1, <1>3, <1>5, Blocks DEF ListInv, Adding
<1>13. LastEntry'
  BY <1>0, <1>1, <1>3, Blocks DEF ListInv, LastEntry
<1>14. Taking'
  BY <1>1 DEF Taking
<1>15. Taken'
  <2>1. ~Unlinked(cur)'
    BY <1>0, <1>1, <1>4 DEF ListInv, Taken, Serving
  <2>2. \A x \in Node : nxt'[x] # cur
    BY <1>0, <1>2, <1>3, <1>6
  <2> QED
    BY <1>1, <2>1, <2>2 DEF Taken
<1> QED
  BY <1>7, <1>8, <1>9, <1>10, <1>11, <1>12, <1>13, <1>14, <1>15 DEF ListInv

\* Every step keeps what the links of ready_conn point to.
LEMMA ListStep == TypeOK /\ BlockInv /\ ListInv /\ [Next]_vars => ListInv'
<1> SUFFICES ASSUME TypeOK, BlockInv, ListInv, [Next]_vars PROVE ListInv'
  OBVIOUS
<1>0. cur \in Attempt /\ \A a \in Attempt : a \in Block /\ a \in Node
  BY Blocks DEF TypeOK
<1>1. CASE ClientStep
  BY <1>0, <1>1, LinksKept, ClientFrame DEF handlerVars, listVars, serverVars
<1>2. CASE ClientEvent \/ StrayEvent \/ \E a \in Attempt : ServerEvent(a)
  BY <1>0, <1>2, LinksKept, EventFrame DEF handlerVars, listVars, serverVars
<1>3. ASSUME NEW a \in Attempt, ConnectRequestFails(a) PROVE ListInv'
  <2>1. \A x \in Attempt : cb'[x] = cb[x]
    BY <1>0, <1>3, Blocks DEF ConnectRequestFails, TypeOK
  <2> QED
    BY <1>3, <2>1, LinksKept DEF ConnectRequestFails, handlerVars, listVars, serverVars
<1>4. CASE HandlerNotify
  <2>1. \A x \in Attempt : cb'[x] = cb[x]
    BY <1>0, <1>4, Blocks DEF HandlerNotify, TypeOK
  <2> QED
    BY <1>4, <2>1, LinksKept DEF HandlerNotify, listVars, serverVars
<1>5. CASE krdma_exit \/ UNCHANGED vars
  BY <1>5, LinksKept DEF krdma_exit, vars, handlerVars, listVars, serverVars
<1>6. CASE ServerStep /\ ~AcceptPick /\ ~AcceptUnlink
  <2>1. /\ \A x \in Attempt : x # cur => cb'[x] = cb[x]
        /\ UNCHANGED <<hpc, hreq, pred>>
    BY <1>6, ServerFrame DEF handlerVars
  <2>2. /\ UNCHANGED <<nxt, prv, cur, around>>
        /\ spc \notin {"pick", "unlink"} /\ spc' # "unlink"
        /\ spc' \in Serving => spc \in Serving
        /\ spc' = "pick" => nxt[Listen] # Listen
    BY <1>6 DEF ServerStep, krdma_listen, ServerLoop, AcceptLook, AcceptWake, AcceptInit,
                AcceptAnswer, AcceptDone, ServerReceive, ServerLeave, AcceptGivesUp, ServerAt,
                listVars, Serving
  <2>3. CASE spc \in {"init", "answer", "wait", "serve"}
    <3>1. (\A x \in Node : nxt[x] # cur) /\ cb[cur].mem # "none"
      BY <2>3 DEF ListInv, Taken, Serving, BlockInv
    <3>2. cb'[cur].mem # "none"
      <4>1. CASE AcceptInit
        BY <1>0, <3>1, <4>1 DEF AcceptInit, TypeOK
      <4>2. ASSUME AcceptGivesUp PROVE cb'[cur].mem # "none"
        <5>1. cb \in [Block -> BlockRecord]
          BY DEF TypeOK, BlockRecord
        <5> QED
          BY <1>0, <4>2, <5>1, Released DEF AcceptGivesUp
      <4>3. CASE AcceptAnswer \/ ServerReceive
        BY <3>1, <4>2, <4>3 DEF AcceptAnswer, ServerReceive
      <4>4. CASE AcceptDone
        BY <1>0, <3>1, <4>4, WaitedFacts DEF AcceptDone
      <4> QED
        BY <1>6, <2>3, <4>1, <4>3, <4>4
           DEF ServerStep, krdma_listen, ServerLoop, AcceptLook, AcceptWake, ServerLeave, ServerAt
    <3> QED
      BY <2>1, <2>2, <3>1, <3>2, LinksKept
  <2>4. CASE spc \notin {"init", "answer", "wait", "serve"}
    <3>1. \A x \in Attempt : cb'[x].mem = cb[x].mem /\ cb'[x].res = cb[x].res
      <4>1. CASE krdma_listen
        BY <1>0, <4>1, Blocks DEF krdma_listen, TypeOK
      <4>2. CASE AcceptWake
        BY <1>0, <4>2, WaitedFacts, Blocks DEF AcceptWake
      <4>3. CASE ServerLoop \/ AcceptLook \/ ServerLeave
        BY <4>3 DEF ServerLoop, AcceptLook, ServerLeave
      <4> QED
        BY <1>6, <2>4, <4>1, <4>2, <4>3
           DEF ServerStep, AcceptInit, AcceptAnswer, AcceptDone, ServerReceive, ServerAt
    <3> QED
      BY <2>1, <2>2, <3>1, LinksKept
  <2> QED
    BY <2>3, <2>4
<1> QED
  BY <1>1, <1>2, <1>3, <1>4, <1>5, <1>6, LinksRequest, LinksStore, LinksLink, LinksPick,
     LinksUnlink DEF Next, HandlerStep

-----------------------------------------------------------------------------
(* Stale entries and freed blocks.                                         *)

\* A block that krdma_init_cb has failed for stays as it is.
InitFailed == \E a \in Attempt : cb[a].mem = "freed" /\ cb[a].res = "undone"

\* A block that krdma_init_cb has failed for stays so.
LEMMA InitFailedStays ==
  ASSUME TypeOK, BlockInv, [Next]_vars, InitFailed
  PROVE  InitFailed'
<1>0. PICK a \in Attempt : cb[a].mem = "freed" /\ cb[a].res = "undone"
  BY DEF InitFailed
<1> SUFFICES cb'[a].mem = cb[a].mem /\ cb'[a].res = cb[a].res
  BY <1>0 DEF InitFailed
<1>1. cur \in Attempt /\ a \in Block /\ a \in Node /\ a # Client /\ a # Listen
  BY Blocks DEF TypeOK
<1>2. CASE ClientStep
  BY <1>1, <1>2, ClientFrame
<1>3. CASE ClientEvent \/ StrayEvent \/ \E x \in Attempt : ServerEvent(x)
  BY <1>1, <1>3, EventFrame
<1>4. ASSUME NEW x \in Attempt, ConnectRequest(x) PROVE cb'[a] = cb[a]
  <2>1. x # a
    BY <1>0, <1>4 DEF ConnectRequest, BlockInv
  <2> QED
    BY <1>4, <1>1, <2>1 DEF ConnectRequest, TypeOK
<1>5. ASSUME NEW x \in Attempt, ConnectRequestFails(x) PROVE cb'[a] = cb[a]
  BY <1>5, <1>1 DEF ConnectRequestFails, TypeOK
<1>6. CASE HandlerStep
  BY <1>6, <1>1 DEF HandlerStep, HandlerStore, HandlerLink, HandlerNotify, TypeOK
<1>7. CASE ServerStep
  <2>1. CASE a # cur
    BY <1>7, <2>1, ServerFrame
  <2>2. CASE a = cur
    <3>1. spc \notin {"init", "answer", "wait", "serve"}
      BY <1>0, <2>2 DEF BlockInv
    <3>2. CASE krdma_listen
      BY <1>1, <3>2 DEF krdma_listen, TypeOK
    <3>3. CASE AcceptWake
      BY <1>1, <3>3, WaitedFacts, Blocks DEF AcceptWake
    <3>4. CASE ServerLoop \/ AcceptLook \/ AcceptPick \/ AcceptUnlink \/ ServerLeave
      BY <3>4 DEF ServerLoop, AcceptLook, AcceptPick, AcceptUnlink, ServerLeave
    <3> QED
      BY <1>7, <3>1, <3>2, <3>3, <3>4
         DEF ServerStep, AcceptInit, AcceptAnswer, AcceptDone, ServerReceive, ServerAt
  <2> QED
    BY <2>1, <2>2
<1>8. CASE krdma_exit \/ UNCHANGED vars
  BY <1>8 DEF krdma_exit, vars
<1> QED
  BY <1>2, <1>3, <1>4, <1>5, <1>6, <1>7, <1>8 DEF Next

\* What is released holds its queues and buffers, what is told of an event is live, and
\* so is the entry that a new one is linked to.
LEMMA FaultStep ==
  TypeOK /\ ClientInv /\ BlockInv /\ ListInv /\ NoStaleEntry /\ FaultOnlyAfterInitFails /\ [Next]_vars
    => FaultOnlyAfterInitFails'
<1> SUFFICES ASSUME TypeOK, ClientInv, BlockInv, ListInv, NoStaleEntry, FaultOnlyAfterInitFails,
                    [Next]_vars
             PROVE  FaultOnlyAfterInitFails'
  OBVIOUS
<1>0. cb \in [Block -> BlockRecord] /\ Client \in Block /\ cur \in Block /\ cur \in Attempt
      /\ try \in Attempt /\ Listen \in Block /\ \A a \in Attempt : a \in Block
  BY Blocks DEF TypeOK, BlockRecord
<1>2. torn => torn'
  BY DEF Next, ClientStep, ClientEvent, HandlerStep, ServerStep, StrayEvent, ServerEvent,
         ConnectRequest, ConnectRequestFails, krdma_exit, vars, listVars,
         ClientCreate, ClientBind, ClientAddr, ClientRoute, ClientInit, ClientConnect,
         ClientAnswer, ClientRelease, At, HandlerStore, HandlerLink, HandlerNotify,
         krdma_listen, ServerLoop, AcceptLook, AcceptWake, AcceptPick, AcceptUnlink,
         AcceptInit, AcceptAnswer, AcceptDone, ServerReceive, ServerLeave
<1>3. InitFailed => InitFailed'
  BY InitFailedStays
<1>4. fault' = fault => FaultOnlyAfterInitFails'
  BY <1>2, <1>3 DEF FaultOnlyAfterInitFails, InitFailed
<1> SUFFICES fault' = fault \/ torn \/ InitFailed
  BY <1>2, <1>3, <1>4 DEF FaultOnlyAfterInitFails, InitFailed
<1>5. CASE ClientStep
  <2>1. cpc \in {"connect", "wait", "up"} => cb[Client].res = "held"
    BY DEF ClientInv
  <2>2. CASE ClientConnect
    BY <1>0, <2>1, <2>2, Released DEF ClientConnect, At
  <2>3. CASE ClientAnswer
    BY <1>0, <2>1, <2>3, Released, WaitedFacts DEF ClientAnswer, At
  <2>4. CASE ClientRelease
    BY <1>0, <2>1, <2>4, Released DEF ClientRelease, At
  <2>5. CASE ~ClientConnect /\ ~ClientAnswer /\ ~ClientRelease
    BY <1>5, <2>5 DEF ClientStep, ClientCreate, ClientBind, ClientAddr, ClientRoute, ClientInit,
                      ClientGivesUp
  <2> QED
    BY <2>2, <2>3, <2>4, <2>5
<1>6. ASSUME NEW a \in Attempt, srv[a] \notin {"none", "dead"}
      PROVE  cb[Context(a)].mem = "live" \/ InitFailed
  <2>1. cb[a].mem \in {"none", "live", "freed"}
    BY <1>0 DEF BlockRecord
  <2> QED
    BY <1>6, <2>1 DEF BlockInv, Context, Listening, InitFailed
<1>7. ASSUME NEW b \in Block, NEW e \in Event, krdma_cma_event_handler(b, e), cb[b].mem = "live"
      PROVE  fault' = fault
  BY <1>7, Handled
<1>8. CASE ClientEvent
  <2>1. PICK e \in CmEvents : cli[try] = e[1] /\ krdma_cma_event_handler(Client, e[2])
    BY <1>8 DEF ClientEvent
  <2>2. e[1] \notin {"none", "dead"} /\ e[2] \in Event
    BY DEF CmEvents, Event
  <2>3. cb[Client].mem = "live"
    BY <2>1, <2>2 DEF ClientInv
  <2> QED
    BY <1>0, <1>7, <2>1, <2>2, <2>3
<1>9. CASE StrayEvent
  <2>1. "OTHER" \in Event
    BY DEF Event
  <2>2. CASE cli[try] \notin {"none", "dead"} /\ krdma_cma_event_handler(Client, "OTHER")
    BY <1>0, <1>7, <2>1, <2>2 DEF ClientInv
  <2>3. CASE \E a \in Attempt : /\ srv[a] \notin {"none", "dead"}
                                /\ krdma_cma_event_handler(Context(a), "OTHER")
    <3>1. PICK a \in Attempt : /\ srv[a] \notin {"none", "dead"}
                               /\ krdma_cma_event_handler(Context(a), "OTHER")
      BY <2>3
    <3>2. Context(a) \in Block
      BY <1>0 DEF Context
    <3> QED
      BY <1>6, <1>7, <2>1, <3>1, <3>2
  <2> QED
    BY <1>9, <2>2, <2>3 DEF StrayEvent
<1>10. ASSUME NEW a \in Attempt, ServerEvent(a) PROVE fault' = fault \/ InitFailed
  <2>1. PICK e \in CmEvents : srv[a] = e[1] /\ krdma_cma_event_handler(Context(a), e[2])
    BY <1>10 DEF ServerEvent
  <2>2. e[1] \notin {"none", "dead"} /\ e[2] \in Event
    BY DEF CmEvents, Event
  <2>3. Context(a) \in Block
    BY <1>0 DEF Context
  <2> QED
    BY <1>6, <1>7, <2>1, <2>2, <2>3
<1>11. ASSUME NEW a \in Attempt, ConnectRequest(a) \/ ConnectRequestFails(a) PROVE fault' = fault
  BY <1>11 DEF ConnectRequest, ConnectRequestFails
<1>12. CASE HandlerLink
  <2>1. CASE pred = Listen
    <3>1. hreq \in Attempt /\ cb[hreq].mem = "live"
      BY <1>12 DEF HandlerLink, BlockInv, TypeOK
    <3>2. Listening
      BY <3>1 DEF BlockInv
    <3> QED
      BY <1>12, <2>1, <3>2 DEF HandlerLink, Listening, TypeOK
  <2>2. CASE pred # Listen
    <3>1. pred \in Attempt /\ hpc = "link"
      BY <1>12, <2>2, Blocks DEF HandlerLink, TypeOK
    <3>2. torn \/ cb[pred].mem = "live"
      BY <3>1 DEF NoStaleEntry
    <3> QED
      BY <1>12, <3>2 DEF HandlerLink, TypeOK
  <2> QED
    BY <2>1, <2>2
<1>13. CASE HandlerStore \/ HandlerNotify
  BY <1>13 DEF HandlerStore, HandlerNotify
<1>14. CASE ServerStep
  <2>1. spc \in {"answer", "serve"} => cb[cur].res = "held"
    BY DEF BlockInv
  <2>2. spc \in {"answer", "serve"} /\ AcceptGivesUp => fault' = fault
    BY <1>0, <2>1, Released DEF AcceptGivesUp
  <2> QED
    BY <1>14, <2>2
       DEF ServerStep, krdma_listen, ServerLoop, AcceptLook, AcceptWake, AcceptPick, AcceptUnlink,
           AcceptInit, AcceptAnswer, AcceptDone, ServerReceive, ServerLeave, ServerAt
<1>15. CASE krdma_exit \/ UNCHANGED vars
  BY <1>15 DEF krdma_exit, vars
<1> QED
  BY <1>5, <1>8, <1>9, <1>10, <1>11, <1>12, <1>13, <1>14, <1>15 DEF Next, HandlerStep

\* A step that adds and removes no entry keeps NoStaleEntry.
LEMMA NoStaleKept ==
  ASSUME TypeOK, NoStaleEntry, UNCHANGED <<pred, cur>>, prv'[Listen] = prv[Listen], torn => torn',
         hpc' = hpc \/ hpc' \notin {"store", "link"}, spc' \in Serving => spc \in Serving,
         \A a \in Attempt : \/ cb[a].mem = "live" => cb'[a].mem = "live"
                            \/ a = cur /\ spc \in Serving
  PROVE  NoStaleEntry'
BY DEF NoStaleEntry

\* An entry is taken when the handler does not need it, or the list is torn.
LEMMA NoStaleStep == TypeOK /\ BlockInv /\ ListInv /\ NoStaleEntry /\ [Next]_vars => NoStaleEntry'
<1> SUFFICES ASSUME TypeOK, BlockInv, ListInv, NoStaleEntry, [Next]_vars PROVE NoStaleEntry'
  OBVIOUS
<1>0. /\ cur \in Attempt /\ hreq \in Attempt /\ \A a \in Attempt : a \in Block /\ a \in Node
      /\ Listen \in Node /\ Listen \notin Attempt /\ Listen \in Block
      /\ nxt \in [Node -> Node \cup {Poison}] /\ prv \in [Node -> Node \cup {Poison}]
      /\ cb \in [Block -> BlockRecord]
  BY Blocks DEF TypeOK, BlockRecord
<1>1. CASE ClientStep
  BY <1>0, <1>1, NoStaleKept, ClientFrame DEF handlerVars, listVars, serverVars
<1>2. CASE ClientEvent \/ StrayEvent \/ \E a \in Attempt : ServerEvent(a)
  BY <1>0, <1>2, NoStaleKept, EventFrame DEF handlerVars, listVars, serverVars
<1>3. ASSUME NEW a \in Attempt, ConnectRequest(a) PROVE NoStaleEntry'
  <2>1. /\ pred' = prv[Listen] /\ hreq' = a /\ UNCHANGED <<nxt, prv, torn, spc, cur>>
        /\ \A x \in Attempt : cb[x].mem = "live" => cb'[x].mem = "live"
    BY <1>0, <1>3 DEF ConnectRequest, listVars, serverVars, NewBlock
  <2> QED
    BY <2>1 DEF NoStaleEntry
<1>4. ASSUME NEW a \in Attempt, ConnectRequestFails(a) PROVE NoStaleEntry'
  <2>1. \A x \in Attempt : cb'[x] = cb[x]
    BY <1>0, <1>4 DEF ConnectRequestFails
  <2> QED
    BY <1>4, <2>1, NoStaleKept DEF ConnectRequestFails, handlerVars, listVars, serverVars
<1>5. CASE HandlerStore
  <2>1. /\ hpc = "store" /\ prv'[Listen] = hreq /\ UNCHANGED <<cb, pred, torn, spc, cur>>
        /\ cb[hreq].mem = "live"
    BY <1>0, <1>5 DEF HandlerStore, serverVars, BlockInv
  <2>2. spc \in Serving => cur # hreq
    BY <2>1 DEF ListInv, Taken, Unlinked
  <2> QED
    BY <2>1, <2>2 DEF NoStaleEntry
<1>6. CASE HandlerLink
  BY <1>6, NoStaleKept DEF HandlerLink, serverVars
<1>7. CASE HandlerNotify
  <2>1. \A x \in Attempt : cb'[x] = cb[x]
    BY <1>0, <1>7 DEF HandlerNotify
  <2> QED
    BY <1>7, <2>1, NoStaleKept DEF HandlerNotify, listVars, serverVars
<1>8. CASE AcceptPick
  <2> DEFINE e == nxt[Listen]
  <2>1. /\ e \in Attempt /\ prv[e] = Listen /\ nxt[e] \in Node
        /\ cur' = e /\ prv' = [prv EXCEPT ![nxt[e]] = prv[e]]
        /\ torn' = (torn \/ (hpc \in {"store", "link"} /\ pred = e))
        /\ UNCHANGED <<cb, hpc, pred>>
    BY <1>8, LinkFacts DEF AcceptPick, ServerAt, handlerVars
  <2>2. prv'[Listen] = prv[Listen] \/ prv'[Listen] = Listen
    BY <1>0, <2>1
  <2>3. prv'[Listen] = e => e = Listen
    <3>1. CASE nxt[e] = Listen
      BY <1>0, <2>1, <3>1
    <3>2. CASE nxt[e] # Listen
      <4>1. prv'[Listen] = prv[Listen]
        BY <1>0, <2>1, <3>2
      <4>2. nxt[e] # Poison
        BY <2>1, Blocks
      <4> QED
        BY <2>1, <3>2, <4>1, <4>2 DEF ListInv, LastEntry
    <3> QED
      BY <3>1, <3>2
  <2> QED
    BY <1>0, <2>1, <2>2, <2>3 DEF NoStaleEntry
<1>9. CASE ServerStep /\ ~AcceptPick
  <2>1. /\ \A x \in Attempt : x # cur => cb'[x] = cb[x]
        /\ UNCHANGED <<hpc, hreq, pred>>
    BY <1>9, ServerFrame DEF handlerVars
  <2>2. /\ cur' = cur /\ (spc' \in Serving => spc \in Serving)
    BY <1>9 DEF ServerStep, krdma_listen, ServerLoop, AcceptLook, AcceptWake, AcceptUnlink,
                AcceptInit, AcceptAnswer, AcceptDone, ServerReceive, ServerLeave, AcceptGivesUp,
                ServerAt, listVars, Serving
  <2>3. prv'[Listen] = prv[Listen]
    BY <1>0, <1>9 DEF ServerStep, krdma_listen, ServerLoop, AcceptLook, AcceptWake, AcceptUnlink,
                      AcceptInit, AcceptAnswer, AcceptDone, ServerReceive, ServerLeave, listVars
  <2>4. spc \notin Serving => cb'[cur].mem = cb[cur].mem
    <3>1. CASE krdma_listen
      BY <1>0, <3>1 DEF krdma_listen
    <3>2. CASE AcceptWake
      BY <1>0, <3>2, WaitedFacts DEF AcceptWake
    <3>3. CASE ServerLoop \/ AcceptLook \/ ServerLeave
      BY <3>3 DEF ServerLoop, AcceptLook, ServerLeave
    <3> QED
      BY <1>9, <3>1, <3>2, <3>3
         DEF ServerStep, AcceptUnlink, AcceptInit, AcceptAnswer, AcceptDone, ServerReceive,
             ServerAt, Serving
  <2>5. torn => torn'
    BY <1>9 DEF ServerStep, krdma_listen, ServerLoop, AcceptLook, AcceptWake, AcceptUnlink,
                AcceptInit, AcceptAnswer, AcceptDone, ServerReceive, ServerLeave, listVars
  <2> QED
    BY <2>1, <2>2, <2>3, <2>4, <2>5, NoStaleKept
<1>10. CASE krdma_exit \/ UNCHANGED vars
  BY <1>10, NoStaleKept DEF krdma_exit, vars, handlerVars, listVars, serverVars
<1> QED
  BY <1>1, <1>2, <1>3, <1>4, <1>5, <1>6, <1>7, <1>8, <1>9, <1>10 DEF Next, HandlerStep

-----------------------------------------------------------------------------
(* The ring.                                                               *)

\* What RingInv says when its premise holds.
Ring ==
  /\ spc = "unlink" => queue # <<>> /\ queue[1] = cur /\ around.next = Entry(Base, 1)
  /\ \A i \in 0 .. Len(Base) :
       ~(spc = "unlink" /\ i = 0) => nxt[Entry(Base, i)] = Entry(Base, i + 1)
  /\ \A i \in 0 .. Len(Base) :
       ~(hpc = "link" /\ i = Len(Base)) => prv[Entry(Base, i + 1)] = Entry(Base, i)
  /\ hpc \in {"store", "link"} => pred = Entry(Base, Len(Base))
  /\ hpc = "link" => prv[Listen] = hreq
  /\ \A i, j \in 1 .. Len(Base) : Base[i] = Base[j] => i = j
  /\ \A i \in 1 .. Len(Base) : ~Unlinked(Base[i])
  /\ spc = "unlink" => \A i \in 1 .. Len(Base) : Base[i] # cur

InOrder == ~torn /\ (spc = "unlink" => nxt[Listen] = cur)

\* RingInv, as the lemmas below use it.
LEMMA RingInvDef == RingInv <=> (InOrder => Ring)
BY DEF RingInv, InOrder, Ring

\* Base is a sequence of attempts, and its entries are nodes of the list.
LEMMA BaseFacts ==
  ASSUME TypeOK
  PROVE  /\ Base \in Seq(Attempt) /\ Len(Base) \in Nat
         /\ \A i \in 1 .. Len(Base) : Base[i] \in Attempt /\ Entry(Base, i) = Base[i]
         /\ \A i \in 0 .. Len(Base) : Entry(Base, i) \in Node /\ Entry(Base, i + 1) \in Node
         /\ Entry(Base, 0) = Listen /\ Entry(Base, Len(Base) + 1) = Listen
<1>0. queue \in Seq(Attempt) /\ 1 \in Attempt
  BY Blocks DEF TypeOK
<1>1. Base \in Seq(Attempt)
  BY <1>0, QueueFacts DEF Base
<1>2. /\ Len(Base) \in Nat /\ \A i \in 1 .. Len(Base) : Base[i] \in Attempt
  BY <1>0, <1>1, QueueFacts
<1>3. /\ Entry(Base, 0) = Listen /\ Entry(Base, Len(Base) + 1) = Listen
      /\ \A i \in 1 .. Len(Base) : Entry(Base, i) = Base[i]
  BY <1>0, <1>1, EntryFacts
<1>4. \A i \in 0 .. Len(Base) : Entry(Base, i) \in Node /\ Entry(Base, i + 1) \in Node
  BY <1>2, <1>3, Blocks DEF Entry
<1> QED
  BY <1>1, <1>2, <1>3, <1>4

\* The empty list is a ring.
LEMMA RingInit == Init => RingInv
<1> SUFFICES ASSUME Init PROVE RingInv
  OBVIOUS
<1>1. /\ queue = <<>> /\ hpc = "idle" /\ spc = "start"
      /\ nxt[Listen] = Listen /\ prv[Listen] = Listen
  BY Blocks DEF Init
<1>2. Base = <<>> /\ Len(Base) = 0 /\ \A i : i \in {0, 1} => Entry(Base, i) = Listen
  BY <1>1 DEF Base, Entry
<1> QED
  BY <1>1, <1>2 DEF RingInv

\* A step that leaves the links and the queue alone keeps the ring.
LEMMA RingKept ==
  ASSUME TypeOK, RingInv, UNCHANGED <<nxt, prv, hreq, pred, cur, around, queue, torn>>,
         hpc' = hpc \/ {hpc, hpc'} \cap {"store", "link"} = {},
         \A a \in Attempt : cb'[a].mem = "none" <=> cb[a].mem = "none",
         spc' = spc \/ "unlink" \notin {spc, spc'}
  PROVE  RingInv'
<1>1. \A a \in Attempt : Unlinked(a)' <=> Unlinked(a)
  BY DEF Unlinked
<1>2. Base' = Base /\ (InOrder' <=> InOrder)
  BY DEF Base, InOrder
<1>3. \A i : Entry(Base, i)' = Entry(Base, i)
  BY <1>2 DEF Entry
<1>4. ASSUME InOrder, Ring PROVE Ring'
  <2>1. \A i \in 1 .. Len(Base) : Base[i] \in Attempt
    BY BaseFacts
  <2>2. \A i \in 1 .. Len(Base) : ~Unlinked(Base[i])'
    BY <1>2, <1>4, <2>1 DEF Ring, Unlinked
  <2> QED
    BY <1>2, <1>3, <1>4, <2>2 DEF Ring
<1> QED
  BY <1>2, <1>4, RingInvDef, PTL

\* The new entry's predecessor is the last one.
LEMMA RingRequest ==
  ASSUME TypeOK, BlockInv, ListInv, RingInv, NEW a \in Attempt, ConnectRequest(a)
  PROVE  RingInv'
<1>0. /\ cb \in [Block -> BlockRecord] /\ a \in Block /\ \A x \in Attempt : x \in Block
  BY Blocks DEF TypeOK, BlockRecord
<1>1. /\ hpc = "idle" /\ hpc' = "store" /\ hreq' = a /\ pred' = prv[Listen]
      /\ cb[a].mem = "none" /\ cb'[a].mem = "live"
      /\ \A x \in Attempt : x # a => cb'[x] = cb[x]
      /\ UNCHANGED <<nxt, prv, spc, cur, around, queue, torn>>
  BY <1>0 DEF ConnectRequest, BlockInv, listVars, serverVars, NewBlock
<1>2. \A x \in Attempt : cb'[x].mem = "none" \/ hreq' = x => Unlinked(x)
  BY <1>1 DEF Unlinked
<1>3. Base' = Base /\ (InOrder' <=> InOrder)
  BY <1>1 DEF Base, InOrder
<1>4. \A i : Entry(Base, i)' = Entry(Base, i)
  BY <1>3 DEF Entry
<1>5. ASSUME InOrder, Ring PROVE Ring'
  <2>1. /\ Len(Base) \in Nat /\ Entry(Base, Len(Base) + 1) = Listen
        /\ \A i \in 1 .. Len(Base) : Base[i] \in Attempt
    BY BaseFacts
  <2>2. pred' = Entry(Base, Len(Base))
    BY <1>1, <1>5, <2>1 DEF Ring
  <2>3. \A i \in 1 .. Len(Base) : ~Unlinked(Base[i])'
    BY <1>1, <1>2, <1>3, <1>5, <2>1 DEF Ring, Unlinked
  <2> QED
    BY <1>1, <1>3, <1>4, <1>5, <2>2, <2>3 DEF Ring
<1> QED
  BY <1>3, <1>5, RingInvDef, PTL

\* The head points back to the new entry, and only it does.
LEMMA RingStore ==
  ASSUME TypeOK, BlockInv, ListInv, RingInv, HandlerStore
  PROVE  RingInv'
<1>0. /\ nxt \in [Node -> Node \cup {Poison}] /\ prv \in [Node -> Node \cup {Poison}]
      /\ hreq \in Attempt /\ hreq \in Node /\ hreq # Listen /\ Listen \in Node
      /\ Listen \notin Attempt
  BY Blocks DEF TypeOK
<1>1. /\ hpc = "store" /\ hpc' = "link"
      /\ UNCHANGED <<cb, hreq, pred, spc, cur, around, queue, torn>>
      /\ prv' = [prv EXCEPT ![Listen] = hreq, ![hreq] = pred]
      /\ nxt' = [nxt EXCEPT ![hreq] = Listen]
  BY DEF HandlerStore, serverVars
<1>2. /\ prv'[Listen] = hreq
      /\ \A x \in Node : x # hreq => nxt'[x] = nxt[x]
      /\ \A x \in Node : x # hreq /\ x # Listen => prv'[x] = prv[x]
  BY <1>0, <1>1
<1>3. Base' = Base /\ (InOrder' <=> InOrder)
  BY <1>0, <1>1, <1>2 DEF Base, InOrder
<1>4. \A i : Entry(Base, i)' = Entry(Base, i)
  BY <1>3 DEF Entry
<1>5. ASSUME InOrder, Ring PROVE Ring'
  <2>1. /\ Len(Base) \in Nat /\ Entry(Base, Len(Base) + 1) = Listen /\ Entry(Base, 0) = Listen
        /\ \A i \in 1 .. Len(Base) : Base[i] \in Attempt /\ Entry(Base, i) = Base[i]
        /\ \A i \in 0 .. Len(Base) : Entry(Base, i) \in Node /\ Entry(Base, i + 1) \in Node
    BY BaseFacts
  <2>2. \A i \in 1 .. Len(Base) : Base[i] # hreq
    BY <1>1, <1>5 DEF Ring, Unlinked
  <2>3. \A i \in 1 .. Len(Base) : ~Unlinked(Base[i])'
    BY <1>1, <1>3, <1>5 DEF Ring, Unlinked
  <2>4. \A i \in 0 .. Len(Base) : Entry(Base, i) # hreq
    BY <1>0, <2>1, <2>2
  <2>5. \A i \in 0 .. Len(Base) :
          ~(spc = "unlink" /\ i = 0) => nxt'[Entry(Base, i)] = Entry(Base, i + 1)
    BY <1>2, <1>5, <2>1, <2>4 DEF Ring
  <2>6. \A i \in 0 .. Len(Base) : i # Len(Base) => prv'[Entry(Base, i + 1)] = Entry(Base, i)
    <3> SUFFICES ASSUME NEW i \in 0 .. Len(Base), i # Len(Base)
                 PROVE  prv'[Entry(Base, i + 1)] = Entry(Base, i)
      OBVIOUS
    <3>1. i + 1 \in 1 .. Len(Base)
      BY <2>1
    <3>2. Entry(Base, i + 1) # hreq /\ Entry(Base, i + 1) # Listen
      BY <1>0, <2>1, <2>2, <3>1
    <3> QED
      BY <1>1, <1>2, <1>5, <2>1, <3>2 DEF Ring
  <2> QED
    BY <1>1, <1>2, <1>3, <1>4, <1>5, <2>3, <2>5, <2>6 DEF Ring
<1> QED
  BY <1>3, <1>5, RingInvDef, PTL

\* The last entry points to the new one.
LEMMA RingLink ==
  ASSUME TypeOK, BlockInv, ListInv, RingInv, HandlerLink
  PROVE  RingInv'
<1>0. /\ nxt \in [Node -> Node \cup {Poison}] /\ hreq \in Attempt /\ hreq \in Node /\ hreq # Listen
      /\ Listen \in Node /\ pred \in Node /\ Listen \notin Attempt /\ queue \in Seq(Attempt)
  BY Blocks DEF TypeOK
<1>1. /\ hpc = "link" /\ hpc' = "notify"
      /\ UNCHANGED <<cb, hreq, pred, prv, spc, cur, around, torn>>
      /\ nxt' = [nxt EXCEPT ![pred] = hreq] /\ queue' = Append(queue, hreq)
  BY DEF HandlerLink, serverVars
<1>2. /\ nxt'[pred] = hreq /\ \A x \in Node : x # pred => nxt'[x] = nxt[x]
      /\ prv[hreq] = pred /\ nxt[hreq] = Listen /\ pred # hreq
  BY <1>0, <1>1 DEF ListInv, Adding
<1>3. spc = "unlink" => cur # hreq
  BY <1>1 DEF ListInv, Taken, Serving, Unlinked
<1>4. InOrder' => InOrder /\ (spc = "unlink" => pred # Listen)
  BY <1>0, <1>1, <1>2, <1>3 DEF InOrder
<1>5. ASSUME InOrder, Ring, spc = "unlink" => pred # Listen PROVE Ring'
  <2> DEFINE n == Len(Base)
  <2>1. /\ n \in Nat /\ Entry(Base, n + 1) = Listen /\ Entry(Base, 0) = Listen
        /\ \A i \in 1 .. n : Base[i] \in Attempt /\ Entry(Base, i) = Base[i]
        /\ \A i \in 0 .. n : Entry(Base, i) \in Node /\ Entry(Base, i + 1) \in Node
    BY BaseFacts
  <2>2. pred = Entry(Base, n) /\ prv[Listen] = hreq
    BY <1>1, <1>5 DEF Ring
  <2>3. /\ Len(Base') = n + 1 /\ Base'[n + 1] = hreq
        /\ \A i \in 1 .. n : Base'[i] = Base[i]
    <3>1. CASE spc = "unlink"
      <4>1. queue # <<>>
        BY <1>5, <3>1 DEF Ring
      <4>2. Base = Tail(queue) /\ Len(queue) \in Nat /\ n = Len(queue) - 1 /\ Len(queue) > 0
            /\ \A i \in 1 .. n : Base[i] = queue[i + 1]
        BY <1>0, <3>1, <4>1, QueueFacts DEF Base
      <4>3. /\ queue' \in Seq(Attempt) /\ queue' # <<>> /\ Len(queue') = Len(queue) + 1
            /\ \A i \in 1 .. Len(queue) : queue'[i] = queue[i]
            /\ queue'[Len(queue) + 1] = hreq
        BY <1>0, <1>1, <4>2, QueueFacts
      <4>4. Base' = Tail(queue')
        BY <1>1, <3>1, <4>3 DEF Base
      <4>5. Len(Base') = Len(queue) /\ \A i \in 1 .. Len(queue) : Base'[i] = queue'[i + 1]
        BY <1>0, <4>2, <4>3, <4>4, QueueFacts
      <4> QED
        BY <4>2, <4>3, <4>5
    <3>2. CASE spc # "unlink"
      BY <1>0, <1>1, <3>2, QueueFacts DEF Base
    <3> QED
      BY <3>1, <3>2
  <2>4. /\ \A i \in 0 .. n : Entry(Base', i) = Entry(Base, i)
        /\ Entry(Base', n + 1) = hreq /\ Entry(Base', n + 2) = Listen
    BY <2>1, <2>3 DEF Entry
  <2>5. \A i \in 1 .. n : Base[i] # hreq
    BY <1>1, <1>5 DEF Ring, Unlinked
  <2>6. \A i \in 0 .. n : i # n => Entry(Base, i) # pred
    <3> SUFFICES ASSUME NEW i \in 0 .. n, i # n PROVE Entry(Base, i) # Entry(Base, n)
      BY <2>2
    <3>1. n \in 1 .. n /\ Entry(Base, n) = Base[n] /\ Entry(Base, n) \in Attempt
      BY <2>1
    <3>2. CASE i = 0
      BY <1>0, <2>1, <3>1, <3>2
    <3>3. CASE i # 0
      BY <1>5, <2>1, <3>1, <3>3 DEF Ring
    <3> QED
      BY <3>2, <3>3
  <2>7. spc = "unlink" => queue' # <<>> /\ queue'[1] = cur /\ around.next = Entry(Base', 1)
    <3> SUFFICES ASSUME spc = "unlink"
                 PROVE  queue' # <<>> /\ queue'[1] = cur /\ around.next = Entry(Base', 1)
      OBVIOUS
    <3>1. queue # <<>> /\ queue[1] = cur /\ around.next = Entry(Base, 1)
      BY <1>5 DEF Ring
    <3>2. n # 0
      BY <1>5, <2>1, <2>2
    <3>3. Entry(Base', 1) = Entry(Base, 1)
      BY <2>1, <2>4, <3>2
    <3> QED
      BY <1>0, <1>1, <3>1, <3>3, QueueFacts
  <2>8. \A i \in 0 .. n + 1 :
          ~(spc = "unlink" /\ i = 0) => nxt'[Entry(Base', i)] = Entry(Base', i + 1)
    <3> SUFFICES ASSUME NEW i \in 0 .. n + 1, ~(spc = "unlink" /\ i = 0)
                 PROVE  nxt'[Entry(Base', i)] = Entry(Base', i + 1)
      OBVIOUS
    <3>1. CASE i \in 0 .. n /\ i # n
      <4>1. nxt[Entry(Base, i)] = Entry(Base, i + 1) /\ Entry(Base, i) # pred
            /\ Entry(Base, i) \in Node
        BY <1>5, <2>1, <2>6, <3>1 DEF Ring
      <4>2. Entry(Base', i) = Entry(Base, i) /\ Entry(Base', i + 1) = Entry(Base, i + 1)
        BY <2>1, <2>4, <3>1
      <4> QED
        BY <1>2, <4>1, <4>2
    <3>2. CASE i = n
      BY <1>2, <2>1, <2>2, <2>4, <3>2
    <3>3. CASE i = n + 1
      <4>1. Entry(Base', i) = hreq /\ Entry(Base', i + 1) = Listen
        BY <2>1, <2>4, <3>3
      <4> QED
        BY <1>0, <1>2, <4>1
    <3> QED
      BY <2>1, <3>1, <3>2, <3>3
  <2>9. \A i \in 0 .. n + 1 : prv[Entry(Base', i + 1)] = Entry(Base', i)
    <3> SUFFICES ASSUME NEW i \in 0 .. n + 1 PROVE prv[Entry(Base', i + 1)] = Entry(Base', i)
      OBVIOUS
    <3>1. CASE i \in 0 .. n /\ i # n
      <4>1. prv[Entry(Base, i + 1)] = Entry(Base, i)
        BY <1>5, <2>1, <3>1 DEF Ring
      <4>2. Entry(Base', i) = Entry(Base, i) /\ Entry(Base', i + 1) = Entry(Base, i + 1)
        BY <2>1, <2>4, <3>1
      <4> QED
        BY <4>1, <4>2
    <3>2. CASE i = n
      BY <1>2, <2>1, <2>2, <2>4, <3>2
    <3>3. CASE i = n + 1
      BY <2>1, <2>2, <2>4, <3>3
    <3> QED
      BY <2>1, <3>1, <3>2, <3>3
  <2>10. \A i, j \in 1 .. n + 1 : Base'[i] = Base'[j] => i = j
    <3>1. \A i, j \in 1 .. n : Base[i] = Base[j] => i = j
      BY <1>5 DEF Ring
    <3> QED
      BY <2>1, <2>3, <2>5, <3>1
  <2>11. \A i \in 1 .. n + 1 : ~Unlinked(Base[i])'
    <3>1. \A x \in Attempt : ~Unlinked(x) \/ x = hreq => cb'[x].mem # "none"
      BY <1>1 DEF Unlinked, BlockInv
    <3>2. \A i \in 1 .. n + 1 : cb'[Base'[i]].mem # "none"
      <4> SUFFICES ASSUME NEW i \in 1 .. n + 1 PROVE cb'[Base'[i]].mem # "none"
        OBVIOUS
      <4>1. CASE i = n + 1
        BY <1>0, <2>3, <3>1, <4>1
      <4>2. CASE i # n + 1
        BY <1>5, <2>1, <2>3, <3>1, <4>2 DEF Ring
      <4> QED
        BY <4>1, <4>2
    <3> QED
      BY <1>1, <3>2 DEF Unlinked
  <2>12. spc = "unlink" => \A i \in 1 .. n + 1 : Base'[i] # cur
    BY <1>3, <1>5, <2>1, <2>3 DEF Ring
  <2>13. \A i : Entry(Base, i)' = Entry(Base', i)
    BY DEF Entry
  <2> HIDE DEF n
  <2> QED
    BY <1>1, <2>3, <2>7, <2>8, <2>9, <2>10, <2>11, <2>12, <2>13 DEF Ring
<1> QED
  BY <1>4, <1>5, RingInvDef, PTL

\* A length other than 0 and 1 is at least 2.
LEMMA AtLeastTwo ==
  \A k \in Nat : k # 0 /\ k # 1 => 2 \in 1 .. k /\ k - 1 \in 1 .. k /\ (k - 1) + 1 = k
OBVIOUS

\* The first entry is taken; unless the list is torn, it is not the one that the new
\* entry is being added to.
LEMMA RingPick ==
  ASSUME TypeOK, BlockInv, ListInv, RingInv, AcceptPick
  PROVE  RingInv'
<1> DEFINE e == nxt[Listen]
           n == Len(queue)
<1>0. /\ prv \in [Node -> Node \cup {Poison}] /\ Listen \in Node /\ Listen \notin Attempt
      /\ queue \in Seq(Attempt) /\ n \in Nat /\ (queue = <<>> <=> n = 0)
      /\ torn \in BOOLEAN
  BY Blocks, QueueFacts DEF TypeOK
<1>1. /\ spc = "pick" /\ spc' = "unlink" /\ cur' = e
      /\ around' = [next |-> nxt[e], prev |-> prv[e]]
      /\ prv' = [prv EXCEPT ![nxt[e]] = prv[e]]
      /\ torn' = (torn \/ (hpc \in {"store", "link"} /\ pred = e))
      /\ UNCHANGED <<cb, nxt, hpc, hreq, pred, queue>>
  BY DEF AcceptPick, ServerAt, handlerVars
<1>2. /\ e \in Attempt /\ prv[e] = Listen /\ nxt[e] \in Node
  BY <1>1, LinkFacts
<1>3. /\ prv'[nxt[e]] = Listen /\ \A x \in Node : x # nxt[e] => prv'[x] = prv[x]
      /\ around'.next = nxt[e]
  BY <1>0, <1>1, <1>2
<1>4. InOrder' => InOrder /\ ~(hpc \in {"store", "link"} /\ pred = e)
  BY <1>0, <1>1 DEF InOrder
<1>5. ASSUME InOrder, Ring, ~(hpc \in {"store", "link"} /\ pred = e) PROVE Ring'
  <2>1. Base = queue /\ \A i : Entry(Base, i) = Entry(queue, i)
    BY <1>1 DEF Base
  <2>2. /\ Entry(queue, n + 1) = Listen /\ Entry(queue, 0) = Listen
        /\ \A i \in 1 .. n : /\ queue[i] \in Attempt /\ Entry(queue, i) = queue[i]
                             /\ Entry(queue, i) \in Attempt
        /\ \A i \in 0 .. n : Entry(queue, i) \in Node /\ Entry(queue, i + 1) \in Node
    BY <2>1, BaseFacts
  <2>3. /\ \A i \in 0 .. n : nxt[Entry(queue, i)] = Entry(queue, i + 1)
        /\ \A i \in 0 .. n : ~(hpc = "link" /\ i = n) => prv[Entry(queue, i + 1)] = Entry(queue, i)
        /\ hpc \in {"store", "link"} => pred = Entry(queue, n)
        /\ hpc = "link" => prv[Listen] = hreq
        /\ \A i, j \in 1 .. n : queue[i] = queue[j] => i = j
        /\ \A i \in 1 .. n : ~Unlinked(queue[i])
    BY <1>1, <1>5, <2>1 DEF Ring
  <2>4. e = Entry(queue, 1) /\ n # 0
    BY <1>0, <1>2, <2>2, <2>3
  <2>5. e = queue[1] /\ nxt[e] = Entry(queue, 2)
    BY <1>0, <2>2, <2>3, <2>4
  <2>6. /\ Base' = Tail(queue) /\ Len(Tail(queue)) = n - 1
        /\ \A i \in 1 .. n - 1 : Tail(queue)[i] = queue[i + 1]
        /\ \A i \in 1 .. n : Entry(Tail(queue), i) = Entry(queue, i + 1)
        /\ Entry(Tail(queue), 0) = Listen
    <3>1. queue # <<>> /\ Tail(queue) \in Seq(Attempt)
      BY <1>0, <1>2, <2>4, QueueFacts
    <3> QED
      BY <1>0, <1>1, <1>2, <3>1, QueueFacts, EntryFacts DEF Base
  <2>7. hpc \in {"store", "link"} => n # 1
    BY <1>5, <2>3, <2>4
  <2>8. \A i \in 0 .. n - 1 : i # 0 => nxt[Entry(Tail(queue), i)] = Entry(Tail(queue), i + 1)
    <3> SUFFICES ASSUME NEW i \in 0 .. n - 1, i # 0
                 PROVE  nxt[Entry(Tail(queue), i)] = Entry(Tail(queue), i + 1)
      OBVIOUS
    <3>1. i \in 1 .. n /\ i + 1 \in 1 .. n /\ i + 1 \in 0 .. n
      BY <1>0
    <3> QED
      BY <2>3, <2>6, <3>1
  <2>9. \A i \in 0 .. n - 1 :
          ~(hpc = "link" /\ i = n - 1) => prv'[Entry(Tail(queue), i + 1)] = Entry(Tail(queue), i)
    <3> SUFFICES ASSUME NEW i \in 0 .. n - 1, ~(hpc = "link" /\ i = n - 1)
                 PROVE  prv'[Entry(Tail(queue), i + 1)] = Entry(Tail(queue), i)
      OBVIOUS
    <3>1. i + 1 \in 1 .. n /\ Entry(Tail(queue), i + 1) = Entry(queue, i + 2)
      <4>1. i + 1 \in 1 .. n /\ (i + 1) + 1 = i + 2
        BY <1>0
      <4> QED
        BY <2>6, <4>1
    <3>2. CASE i = 0
      BY <1>3, <2>5, <2>6, <3>1, <3>2
    <3>3. CASE i # 0
      <4>1. Entry(Tail(queue), i) = Entry(queue, i + 1)
        BY <1>0, <2>6, <3>3
      <4>2. prv[Entry(queue, i + 2)] = Entry(queue, i + 1)
        <5>1. i + 1 \in 0 .. n /\ ~(hpc = "link" /\ i + 1 = n) /\ (i + 1) + 1 = i + 2
          BY <1>0
        <5> QED
          BY <2>3, <5>1
      <4>3. Entry(queue, i + 2) # Entry(queue, 2) /\ Entry(queue, i + 2) \in Node
        <5>1. 2 \in 1 .. n /\ i + 2 # 2
          BY <1>0, <3>3
        <5>2. CASE i + 2 = n + 1
          BY <1>0, <2>2, <5>1, <5>2
        <5>3. CASE i + 2 # n + 1
          <6>1. i + 2 \in 1 .. n
            BY <1>0, <5>3
          <6> QED
            BY <2>2, <2>3, <5>1, <6>1, Blocks
        <5> QED
          BY <5>2, <5>3
      <4> QED
        BY <1>3, <2>5, <3>1, <4>1, <4>2, <4>3
    <3> QED
      BY <3>2, <3>3
  <2>10. hpc \in {"store", "link"} => pred = Entry(Tail(queue), n - 1)
    <3> SUFFICES ASSUME hpc \in {"store", "link"} PROVE pred = Entry(Tail(queue), n - 1)
      OBVIOUS
    <3>0. n \in Nat /\ n # 0 /\ n # 1
      BY <1>0, <2>4, <2>7
    <3>1. n - 1 \in 1 .. n /\ (n - 1) + 1 = n
      BY <3>0, AtLeastTwo
    <3> QED
      BY <2>3, <2>6, <3>1
  <2>11. hpc = "link" => prv'[Listen] = hreq
    <3> SUFFICES ASSUME hpc = "link" PROVE prv'[Listen] = prv[Listen]
      BY <2>3
    <3>0. n \in Nat /\ n # 0 /\ n # 1
      BY <1>0, <2>4, <2>7
    <3>1. 2 \in 1 .. n
      BY <3>0, AtLeastTwo
    <3>2. nxt[e] # Listen
      BY <1>0, <2>2, <2>5, <3>1
    <3> QED
      BY <1>0, <1>3, <3>2
  <2>12. /\ \A i, j \in 1 .. n - 1 : Tail(queue)[i] = Tail(queue)[j] => i = j
         /\ \A i \in 1 .. n - 1 : Tail(queue)[i] # e
    <3> SUFFICES ASSUME NEW i \in 1 .. n - 1
                 PROVE  /\ \A j \in 1 .. n - 1 : Tail(queue)[i] = Tail(queue)[j] => i = j
                        /\ Tail(queue)[i] # e
      OBVIOUS
    <3>1. \A j \in 1 .. n - 1 : j + 1 \in 1 .. n /\ Tail(queue)[j] = queue[j + 1]
      BY <1>0, <2>6
    <3>2. 1 \in 1 .. n /\ i + 1 # 1
      BY <1>0, <2>4
    <3> QED
      BY <2>3, <2>5, <3>1, <3>2
  <2>13. \A i \in 1 .. n - 1 : ~Unlinked(Tail(queue)[i])'
    <3> SUFFICES ASSUME NEW i \in 1 .. n - 1 PROVE ~Unlinked(Tail(queue)[i])'
      OBVIOUS
    <3>1. i + 1 \in 1 .. n /\ Tail(queue)[i] = queue[i + 1] /\ ~Unlinked(queue[i + 1])
      BY <1>0, <2>3, <2>6
    <3> QED
      BY <1>1, <3>1 DEF Unlinked
  <2>14. 1 \in 1 .. n /\ Entry(Tail(queue), 1) = nxt[e]
    BY <1>0, <2>4, <2>5, <2>6
  <2>15. \A i : Entry(Base, i)' = Entry(Tail(queue), i)
    BY <2>6 DEF Entry
  <2>16. \A i \in 1 .. n - 1 : ~Unlinked(Base[i])'
    BY <1>1, <2>6, <2>13 DEF Unlinked
  <2>17. queue' # <<>> /\ queue'[1] = cur' /\ Len(Base') = n - 1
    BY <1>0, <1>1, <2>4, <2>5, <2>6
  <2> HIDE DEF e, n
  <2> QED
    BY <1>1, <1>3, <2>6, <2>8, <2>9, <2>10, <2>11, <2>12, <2>14, <2>15, <2>16, <2>17 DEF Ring
<1> QED
  BY <1>4, <1>5, RingInvDef, PTL

\* The head points to what follows it.
LEMMA RingUnlink ==
  ASSUME TypeOK, BlockInv, ListInv, RingInv, AcceptUnlink
  PROVE  RingInv'
<1>0. /\ nxt \in [Node -> Node \cup {Poison}] /\ prv \in [Node -> Node \cup {Poison}]
      /\ Listen \in Node /\ Listen \notin Attempt
      /\ cur \in Attempt /\ cur \in Node /\ cur # Listen /\ around.next \in Node
      /\ torn \in BOOLEAN
  BY Blocks DEF TypeOK
<1>1. /\ spc = "unlink" /\ spc' = "init" /\ UNCHANGED <<cb, hpc, hreq, pred, cur, around>>
      /\ nxt' = [nxt EXCEPT ![around.prev] = around.next, ![cur] = Poison]
      /\ prv' = [prv EXCEPT ![cur] = Poison]
      /\ torn' = (torn \/ nxt[around.prev] # cur)
      /\ queue' = IF queue = <<>> THEN <<>> ELSE Tail(queue)
  BY DEF AcceptUnlink, ServerAt, handlerVars
<1>2. around.prev = Listen /\ around.next # cur
  BY <1>1 DEF ListInv, Taking
<1>3. /\ nxt'[Listen] = around.next
      /\ \A x \in Node : x # Listen /\ x # cur => nxt'[x] = nxt[x]
      /\ \A x \in Node : x # cur => prv'[x] = prv[x]
  BY <1>0, <1>1, <1>2
<1>4. InOrder' => InOrder
  BY <1>0, <1>1, <1>2 DEF InOrder
<1>5. ASSUME InOrder, Ring PROVE Ring'
  <2> DEFINE n == Len(Base)
  <2>1. Base' = Base
    BY <1>1 DEF Base
  <2>2. /\ n \in Nat /\ Entry(Base, n + 1) = Listen /\ Entry(Base, 0) = Listen
        /\ \A i \in 1 .. n : Base[i] \in Attempt /\ Entry(Base, i) = Base[i]
        /\ \A i \in 0 .. n : Entry(Base, i) \in Node /\ Entry(Base, i + 1) \in Node
    BY BaseFacts
  <2>3. \A i \in 1 .. n : Base[i] # cur
    BY <1>1, <1>5 DEF Ring
  <2>4. \A i \in 0 .. n : nxt'[Entry(Base, i)] = Entry(Base, i + 1)
    <3> SUFFICES ASSUME NEW i \in 0 .. n PROVE nxt'[Entry(Base, i)] = Entry(Base, i + 1)
      OBVIOUS
    <3>1. CASE i = 0
      BY <1>1, <1>3, <1>5, <2>2, <3>1 DEF Ring
    <3>2. CASE i # 0
      <4>1. i \in 1 .. n /\ Entry(Base, i) # cur /\ Entry(Base, i) # Listen /\ Entry(Base, i) \in Node
        BY <1>0, <2>2, <2>3, <3>2
      <4>2. nxt[Entry(Base, i)] = Entry(Base, i + 1)
        BY <1>5, <3>2 DEF Ring
      <4> QED
        BY <1>3, <4>1, <4>2
    <3> QED
      BY <3>1, <3>2
  <2>5. \A i \in 0 .. n : ~(hpc = "link" /\ i = n) => prv'[Entry(Base, i + 1)] = Entry(Base, i)
    <3> SUFFICES ASSUME NEW i \in 0 .. n, ~(hpc = "link" /\ i = n)
                 PROVE  prv'[Entry(Base, i + 1)] = Entry(Base, i)
      OBVIOUS
    <3>1. prv[Entry(Base, i + 1)] = Entry(Base, i)
      BY <1>5 DEF Ring
    <3>2. Entry(Base, i + 1) # cur
      <4>1. CASE i = n
        BY <1>0, <2>2, <4>1
      <4>2. CASE i # n
        BY <2>2, <2>3, <4>2
      <4> QED
        BY <4>1, <4>2
    <3> QED
      BY <1>3, <2>2, <3>1, <3>2
  <2>6. \A i : Entry(Base, i)' = Entry(Base, i)
    BY <2>1 DEF Entry
  <2>7. \A i \in 1 .. n : ~Unlinked(Base[i])'
    BY <1>1, <1>5, <2>1 DEF Ring, Unlinked
  <2>8. hpc = "link" => prv'[Listen] = prv[Listen]
    BY <1>0, <1>3
  <2> HIDE DEF n
  <2> QED
    BY <1>1, <1>5, <2>1, <2>4, <2>5, <2>6, <2>7, <2>8 DEF Ring, n
<1> QED
  BY <1>4, <1>5, RingInvDef, PTL

\* Every step keeps the ring, or tears the list.
LEMMA RingStep == TypeOK /\ BlockInv /\ ListInv /\ RingInv /\ [Next]_vars => RingInv'
<1> SUFFICES ASSUME TypeOK, BlockInv, ListInv, RingInv, [Next]_vars PROVE RingInv'
  OBVIOUS
<1>0. cur \in Attempt /\ \A a \in Attempt : a \in Block /\ a \in Node /\ a # Listen
  BY Blocks DEF TypeOK
<1>1. CASE ClientStep
  BY <1>0, <1>1, RingKept, ClientFrame DEF handlerVars, listVars, serverVars
<1>2. CASE ClientEvent \/ StrayEvent \/ \E a \in Attempt : ServerEvent(a)
  BY <1>0, <1>2, RingKept, EventFrame DEF handlerVars, listVars, serverVars
<1>3. ASSUME NEW a \in Attempt, ConnectRequestFails(a) PROVE RingInv'
  <2>1. \A x \in Attempt : cb'[x] = cb[x]
    BY <1>0, <1>3 DEF ConnectRequestFails, TypeOK
  <2> QED
    BY <1>3, <2>1, RingKept DEF ConnectRequestFails, handlerVars, listVars, serverVars
<1>4. CASE HandlerNotify
  <2>1. \A x \in Attempt : cb'[x] = cb[x]
    BY <1>0, <1>4 DEF HandlerNotify, TypeOK
  <2> QED
    BY <1>4, <2>1, RingKept DEF HandlerNotify, listVars, serverVars
<1>5. CASE krdma_exit \/ UNCHANGED vars
  BY <1>5, RingKept DEF krdma_exit, vars, handlerVars, listVars, serverVars
<1>6. CASE ServerStep /\ ~AcceptPick /\ ~AcceptUnlink
  <2>1. /\ \A x \in Attempt : x # cur => cb'[x] = cb[x]
        /\ UNCHANGED <<hpc, hreq, pred>>
    BY <1>6, ServerFrame DEF handlerVars
  <2>2. /\ UNCHANGED <<nxt, prv, cur, around, queue, torn>>
        /\ "unlink" \notin {spc, spc'}
    BY <1>6 DEF ServerStep, krdma_listen, ServerLoop, AcceptLook, AcceptWake, AcceptInit,
                AcceptAnswer, AcceptDone, ServerReceive, ServerLeave, AcceptGivesUp, ServerAt,
                listVars
  <2>3. cb'[cur].mem = "none" <=> cb[cur].mem = "none"
    <3>0. cb \in [Block -> BlockRecord] /\ cur \in Block /\ cur # Listen
      BY <1>0 DEF TypeOK, BlockRecord
    <3>1. CASE krdma_listen
      BY <3>0, <3>1 DEF krdma_listen
    <3>2. CASE AcceptWake
      BY <3>0, <3>2, WaitedFacts, Blocks DEF AcceptWake
    <3>3. CASE AcceptDone
      BY <3>0, <3>3, WaitedFacts DEF AcceptDone
    <3>4. spc \in {"init", "answer", "serve"} => cb[cur].mem = "live"
      BY DEF BlockInv
    <3>5. CASE AcceptInit
      BY <3>0, <3>4, <3>5 DEF AcceptInit, ServerAt, BlockRecord
    <3>6. AcceptGivesUp => cb'[cur].mem = "freed"
      BY <3>0, Released DEF AcceptGivesUp
    <3>7. CASE AcceptAnswer \/ ServerReceive
      BY <3>4, <3>6, <3>7 DEF AcceptAnswer, ServerReceive, ServerAt
    <3>8. CASE ServerLoop \/ AcceptLook \/ ServerLeave
      BY <3>8 DEF ServerLoop, AcceptLook, ServerLeave
    <3> QED
      BY <1>6, <3>1, <3>2, <3>3, <3>5, <3>7, <3>8 DEF ServerStep
  <2> QED
    BY <2>1, <2>2, <2>3, RingKept
<1> QED
  BY <1>1, <1>2, <1>3, <1>4, <1>5, <1>6, RingRequest, RingStore, RingLink, RingPick,
     RingUnlink DEF Next, HandlerStep

-----------------------------------------------------------------------------
(* The theorems.                                                           *)

\* The invariant holds of every state.
THEOREM Invariant == Spec => []IInv
<1>1. Init => IInv
  <2>1. Init => NoStaleEntry /\ FaultOnlyAfterInitFails
    BY Blocks DEF Init, NoStaleEntry, FaultOnlyAfterInitFails
  <2> QED
    BY <2>1, TypeInit, ClientInit0, BlockInit, ListInit, RingInit DEF IInv
<1>2. IInv /\ [Next]_vars => IInv'
  BY TypeStep, ClientInvStep, BlockStep, ListStep, NoStaleStep, FaultStep, RingStep DEF IInv
<1> QED
  BY <1>1, <1>2, PTL DEF Spec

\* The variables keep their types.
THEOREM TypeCorrect == Spec => []TypeOK
BY Invariant, PTL DEF IInv

\* krdma_connect reports success only for a connection that its present attempt has made,
\* whatever is left in cm_done by earlier attempts and by events that answer nothing.
THEOREM Connected == Spec => []ConnectedMeansEstablished
<1>1. IInv => ConnectedMeansEstablished
  BY DEF IInv, ClientInv, ConnectedMeansEstablished
<1> QED
  BY <1>1, Invariant, PTL

\* The other end has posted its receives by then.
THEOREM Ready == Spec => []ReadyToReceive
<1>1. IInv => ReadyToReceive
  BY DEF IInv, ClientInv, BlockInv, ReadyToReceive
<1> QED
  BY <1>1, Invariant, PTL

\* A krdma_connect that fails, at any step of any attempt, leaves nothing behind.
THEOREM Clean == Spec => []NothingLeft
<1>1. IInv => NothingLeft
  <2> SUFFICES ASSUME IInv, cpc \in {"failed", "released"}
               PROVE  /\ \A a \in Attempt : cli[a] \in {"none", "dead"}
                      /\ cb[Client].mem # "live" /\ cb[Client].res # "held"
    BY DEF NothingLeft
  <2>1. \A a \in Attempt : a < try \/ a = try \/ a > try
    BY Blocks DEF IInv, TypeOK
  <2> QED
    BY <2>1 DEF IInv, ClientInv
<1> QED
  BY <1>1, Invariant, PTL

\* Freed blocks are used, or something is released twice, only after krdma_init_cb has
\* failed in krdma_accept or the list has been torn.
THEOREM Faults == Spec => []FaultOnlyAfterInitFails
BY Invariant, PTL DEF IInv

\* ready_conn is the list of the requests that wait, in order, unless it is torn.
THEOREM ListIntact == Spec => []ReadyListIntact
<1>1. IInv => ReadyListIntact
  <2> SUFFICES ASSUME IInv, ~torn, spc # "unlink", NEW i \in 0 .. Len(queue)
               PROVE  /\ nxt[Entry(queue, i)] = Entry(queue, i + 1)
                      /\ hpc # "link" => prv[Entry(queue, i + 1)] = Entry(queue, i)
    BY DEF ReadyListIntact
  <2>1. Base = queue /\ RingInv
    BY DEF Base, IInv
  <2> QED
    BY <2>1 DEF RingInv
<1> QED
  BY <1>1, Invariant, PTL
=============================================================================
