# A TLA+ model of gpt-dump

The repository holds three pieces of Linux kernel code that do not call each other
except where one is said to: `krdma.c`, messages and remote memory over RDMA; `ktcp.c`,
messages over a TCP socket, which the read/write mode of `krdma.c` uses to exchange
addresses; and `clique.c` with `clique.h`, which watches the threads of a system,
records who shares pages with whom, and places threads that communicate on one NUMA
node. This directory holds a TLA+ model of them, the instances that TLC checks and the
theorems that TLAPS proves.

| module | models | proved about in |
| --- | --- | --- |
| `MessageChannel` | what both transports promise their callers | `KrdmaSendRecvChannel_proofs`, `KtcpStreamChannel_proofs` |
| `KrdmaSendRecv` | `krdma_send`, `krdma_receive`, `krdma_poll`, `krdma_post_recv` | `KrdmaSendRecv_proofs`, `KrdmaSendRecvChannel_proofs` |
| `KrdmaConn` | `krdma_connect`, `krdma_listen`, `krdma_accept`, the event handler, `krdma_release_cb`, `sr_client`, `sr_server`, `krdma_exit` | `KrdmaConn_proofs` |
| `KtcpStream` | `ktcp_send`, `ktcp_receive`, `ktcp_release` | `KtcpStream_proofs`, `KtcpStreamChannel_proofs` |
| `KrdmaExchange` | `krdma_exch_info_client` and `_server` with two instances of `KtcpStream`, the ends of `krdma_rw_init_client` and `_server` | `KrdmaExchange_proofs` |
| `CliqueAnalysis` | `clique_analysis` and all it calls | `CliqueAnalysis_proofs` |
| `CliqueRegistry` | the functions of `clique.h`, `init_scheduler`, `exit_scheduler` | `CliqueRegistry_proofs` |

`MCX` gives the constants of module `X` that a configuration file cannot express, and
each `.cfg` is one run.

## The parts of the system

### RDMA send and receive (`krdma.c:875-1302`)

*State.* A control block (`struct krdma_cb`) has a state written by the connection
manager's callback, two mutexes `slock` and `rlock`, one send slot and 32 receive slots
(`INVALID`, `POSTED` or `POLLED`), and a queue pair with two completion queues in the
adapter.

*Operations.* `krdma_send` takes `slock`, fills a free slot, posts it and polls the
send completion queue until its completion arrives. `krdma_receive` takes `rlock`, polls
the receive completion queue, and copies the message out; the poll that takes a
completion first posts every free slot again. Both look at the state of the control
block between polls.

*What is hard.* Threads contend for the mutexes; the adapter takes and fills slots
between any two steps; the connection breaks at any time, and each end learns of it
later and on its own; posts fail; completions do not say which send they belong to.

*What makes it correct.* A receive slot has one owner; messages arrive in order, once,
with their own contents; a success means that the message has arrived; the receive
queue does not run dry; a send buffer is left alone while the adapter may read it; calls
return.

### RDMA connections (`krdma.c:86-150`, `355-873`, `1623-1739`)

*State.* `cb->state`, the completion `cm_done`, the lists `ready_conn` and
`active_conn` of a listening block, and the resources a block has allocated.

*Operations.* `krdma_connect` resolves the address and the route, allocates, connects,
and tries three times when it is rejected; `krdma_listen`, `krdma_accept` and the event
handler hand over connection requests; `krdma_release_cb` frees. `sr_client` and
`sr_server` are their callers, and `krdma_exit` stops them.

*What is hard.* The event handler runs beside all of them without a lock and writes a
linked list that the acceptor takes from; a completion may be left over from an earlier
event; a retry starts with the state of the attempt before; every step of the set-up may
fail; the client goes on while its request still waits on the server.

*What makes it correct.* Whoever is told "connected" is; the other end can then receive;
what fails is cleaned up, once; no event reaches a freed block; no request is lost or
slept through; nobody waits for ever.

### RDMA read and write (`krdma.c:1304-1620`)

*State.* A buffer on each end and what the other end needs to reach it
(`krdma_rw_info_t`). *Operations.* The two `krdma_rw_init` functions set up an RDMA
connection and exchange that information over ktcp; `krdma_read` and `krdma_write` use
it. *What is hard.* Two connections depend on each other, and each end waits for the
other in turn. *What would make it correct.* The exchange ends, and with what was sent.

### TCP messages (`ktcp.c`)

*State.* A socket, `slock`, `rlock` and a buffer of received transactions that is never
filled. *Operations.* `ktcp_send` writes a header and a payload, in as many writes as
the socket needs; `ktcp_receive` reads a header and a whole page. *What is hard.*
Writes and reads stop anywhere; the stream has no message boundaries; it may end or be
reset. *What makes it correct.* Frames are not mixed, and if all messages fill a page each
is received as it was sent. With shorter frames bytes are lost: a call reads a page, hands
over what the header in front of it says, and frees the rest, in which the next frame may
have begun. What then still holds is the order of the pages.

### Clique analysis (`clique.c:214-369`)

*State.* `cliques[]` with their members and flags, `cliques_size`, `threads_chosen[]`,
all global and never cleaned up. *Operations.* `clique_analysis` starts with one clique
for each thread and in rounds merges each with its nearest neighbour until there are no
more cliques than nodes; then it hands out cores. *What is hard.* The loops trust a
counter kept by three functions; `find_neighbor` has an uninitialized result. *What
makes it correct.* The cliques stay a partition of the threads, the loops end, the
cores are shared evenly and threads that communicate are placed together.

### Registry of processes and threads (`clique.h`, `clique.c:86-104`)

*State.* A list of processes, a hash table from pids to processes and thread numbers,
and for each process its last two sharers of every page. *Operations.* The hooks of a
modified kernel report processes, threads, exits and accesses. *What is hard.* Long
sequences of legal reports: threads end in any order, a program runs twice, pids
collide, the module is reloaded; and `C_ASSERT` only prints. *What makes it correct.*
The count, the table and the list agree; a table entry belongs to a live thread; a
process that is used again starts clean.

### Left out

`krdma_read` and `krdma_write`: `krdma_poll` answers `-EINVAL` to both of them
(`krdma.c:901-902`), and `krdma_rw_init_client`, without which there is no block to call
them with, never succeeds. `krdma_init`, which chooses a thread to start, and the empty
`rw_client` and `rw_server`. `set_affinity` (no caller), the printing, and the build
files. The single allocations inside `krdma_init_cb` and `krdma_setup_mr`: sequential
code that takes back what it has made. The values in `default_matrix` are data: the
analysis is checked for sets of matrices instead.

## The models

### MessageChannel

A queue of accepted messages, the sequence of fetches, the set of acknowledged messages
and a flag. `Accept` adds a new message, `Fetch` takes the oldest one and says whether
its receiver got it, `Acknowledge` may name only a message that the channel holds or has
handed over, and `Break` ends the connection and may cut the queue off anywhere, but not
before a message that has been acknowledged.

### KrdmaSendRecv

One direction of one connection: the threads of one end send, those of the other
receive. A step of a thread is what it does between two points at which another actor
matters. `spc` and `rpc` say where it is:

| step | code |
| --- | --- |
| `SendCall`, `RecvCall` | up to `mutex_lock` |
| `SendPost`, `SendPostFails`, `SendOverflow` | `krdma_send` up to and with `ib_post_send`; its failure; the `BUG()` of `search_empty_send_buf` |
| `SendCheck`, `SendPollEmpty`, `SendPoll` | the blocking `krdma_poll` at `repoll`: the state, an empty queue, a completion, and what `krdma_send` does with it |
| `RecvCheck` | `rlock`, a slot already `POLLED`, the state |
| `RecvPollEmpty`, `RecvPollError`, `RecvPoll` | the non-blocking `krdma_poll`: `-EAGAIN` and the retry, a completion in error, a message with the refill of the queue, which may fail at any slot |
| `RecvPolled`, `RecvOutput` | the slot is marked `POLLED`; it is copied out and free |
| `Transmit`, `SendComplete`, `FlushSend`, `FlushRecv`, `LinkDown` | the adapters, as a reliable connection behaves: in order, waiting for a posted slot, flushing when broken (external) |
| `Disconnected` | the event handler on either end |

The message of the n-th successful post is the number n, and buffers hold the number of
the message last written to them, so a buffer that is reused too early shows. Lengths
and immediate data are left out. The state `KRDMA_ERROR` is written only on a listening
block and does not occur here. `smp_mb`, sleeps and warnings are left out.

`ImplementsChannel` maps the state to a `MessageChannel` whose queue is what has been
posted and not fetched while the link is up, and what has arrived and not been fetched
after it has broken.

### KrdmaConn

One client, one server, and up to `Tries` attempts of the client. Attempt `a` has a
`cm_id` on the client (`cli[a]`) and, once its request has arrived, one on the server
(`srv[a]`) with the control block `a`; block 0 is the client's, the last the listening
one. A block is a record of its memory, its `state`, its `cm_done` and its resources.

| step | code |
| --- | --- |
| `ClientCreate` | `__krdma_create_cb` in `krdma_connect` |
| `ClientBind`, `ClientAddr`, `ClientRoute` | `__krdma_bound_dev_remote`, cut at its two waits |
| `ClientInit` | `krdma_init_cb`, which makes everything or takes back what it has made |
| `ClientConnect`, `ClientAnswer` | `__krdma_connect`, cut at its wait, and what `krdma_connect_single` and `krdma_connect` do with its result: success, another attempt, or the end |
| `ClientRelease` | the end of `sr_client` |
| `krdma_listen`, `ServerLoop` | `sr_server` up to the loop, and its head |
| `AcceptLook`, `AcceptWake` | `list_empty`, and the wait of `__krdma_wait_for_connect_request` |
| `AcceptPick`, `AcceptUnlink` | `list_del`, its two stores |
| `AcceptInit`, `AcceptAnswer`, `AcceptDone` | the rest of `krdma_accept`, cut before and after `rdma_accept` and its wait |
| `ServerReceive`, `ServerLeave` | `krdma_receive` in `sr_server`, and the release of the listening block |
| `ConnectRequest`, `ConnectRequestFails`, `HandlerStore`, `HandlerLink`, `HandlerNotify` | the event handler for `CONNECT_REQUEST`, with the stores of `list_add_tail` |
| `krdma_cma_event_handler` in `ClientEvent`, `ServerEvent`, `StrayEvent` | all other events |

The connection manager is external. It reports one event for everything it is asked, and
no `cm_id` has two handlers at a time; a client is established only by the server's
answer; `StrayEvent` stands for events that answer nothing, such as a change of address,
which the handler only logs, and which complete `cm_done` like any other. `REJECTED`
stands for `CONNECT_ERROR` and `UNREACHABLE` too, to which the code does the same.

`ready_conn` is modelled pointer by pointer (`nxt`, `prv`), since its two users share no
lock. They do collide in one case only: the handler has read the last entry and the
acceptor takes that entry before the handler has linked the new one to it. The new
request is then lost, or the list left inconsistent. The variable `torn` records that
this has happened, and the properties about the list hold until then.

The release of a listening block follows a null pointer in `__krdma_free_mr_sr`
(`krdma.c:564` is never reached), so `sr_server` can leave its loop only by an oops,
which is where the model of it ends. `active_conn` is filled and never read, and is left
out: the blocks that `sr_server` has accepted and forgotten (`krdma.c:1664`) wait there
for a release that is never reached.

### KrdmaExchange

`KrdmaExchange` extends `KtcpStream` for the bytes from the client to the server and
instantiates it a second time for the way back; its own variables say where each end is
in `krdma_exch_info_client` or `krdma_exch_info_server`. Each step of an end is a step of
one of the two streams with its program counter, or a call of `ktcp_connect`,
`ktcp_listen`, `ktcp_accept` or `ktcp_release`. `Sizes` is the size of a frame with a
`krdma_rw_info_t`: less than `Full`, a frame with a page.

A failing `ktcp_create_cb` is only printed (`ktcp.c:319-323`) and the calls go on with an
uninitialized pointer: the set-up then ends in an oops or, if the pointer happens to be
usable, goes on; `ExchangeEnds` excepts the oops. A client that comes before the server
listens gives up (`ClientConnects`), and the server
then waits in `ktcp_accept` for a connection nobody makes; `ExchangeEnds` starts from a
connection that has been made. After the exchange `krdma_rw_init_client` releases
everything, also when it has worked (`ClientReleases`): the result is the length with a
minus sign (`krdma.c:1355`), and the code falls through into the error path (1450).

The module starts when the RDMA connection stands. In the read/write mode `krdma_init_cb`
still calls `krdma_post_recv` (`krdma.c:771`), which takes the `krdma_rw_info_t` in the
union `mr` for an array of receive slots; what that does to neighbouring memory is
undefined and outside the model.

### KtcpStream

Frames are sequences of units, a header and payload. A write takes any number of units
the sockets have room for, a read any number that are there, up to `Full`, the size of a
whole frame. `ktcp_receive` passes no flags, so the branch for a non-blocking first try
(`ktcp.c:206-209`) is dead and is not in the model. `ktcp_release` closes the sending
end, `Reset` breaks the connection and loses a part of the stream. `Output` is
`build_ktcp_recv_output`: it copies as much of the buffer as the header says, zeros where
nothing has been read, and the rest of the buffer is lost. With nothing read at all, the
length wraps round and the copy is an oops; with a piece of a payload where the header
should be, the length is anything, and the copy possibly an oops. `ImplementsChannel` is
checked for messages that all fill a page: only then does the code keep message boundaries. The abstract queue is every
message of which a unit has been written and none has been returned. A success of
`ktcp_send` is not an acknowledgement of the channel, since the socket may still lose
what it has taken.

### CliqueAnalysis

One action for each pass through a loop; `find_neighbor` returns any pointer where the
code returns an uninitialized one. Every analysis chooses its matrix, and the next
starts from the globals the last one left.

### CliqueRegistry

One action for each function, called for a changing set of live threads (`alive`, which
the code does not have). A page is the result of its hash, and so is a pid in
`hash_32`. `mcs` is never allocated (`clique.h:153`): the memory it points to may be
usable by chance, otherwise the first `memset` is an oops, and both happen in the model. A
process that `kmalloc` has no memory for is an oops too, since the assertion only prints.

## Runs

| run | instance | shows |
| --- | --- | --- |
| `krdma_sr_safety` | 2 senders, 2 receivers, 1 send slot, 2 receive slots, 3 messages | `TypeOK`, `RecvSlotOwned`, `InOrder`, `RecvCredit`, `AckedArrived`, `BugOnlyAfterError`, `SendBufStable`, `ImplementsChannel` |
| `krdma_sr_live` | 1 sender, 2 receivers, 2 receive slots, 3 messages, 1 retry | `ReceiveReturns`, `SendReturns`, `MessagesArrive` |
| `krdma_sr_bug` | 2 senders, 1 send slot | `NeverBug` is violated |
| `clique` | 8 threads, 2 nodes of 3 cores; zero-one matrices, and 2 groups of 4 | `TypeOK`, `Partition`, `SizeCounted`, `NeighborFound`, `CoresBalanced`, `GroupsTogether`, `Terminates` |
| `krdma_conn` | 2 attempts, 1 event that answers nothing | `TypeOK`, `ConnectedMeansEstablished`, `ReadyToReceive`, `NothingLeft`, `FaultOnlyAfterInitFails`, `ReadyListIntact`, `RequestPicked`, `WaitsEnd` |
| `krdma_accept` | 1 attempt | `AcceptMeansConnected` is violated |
| `krdma_rw_exchange` | 1 thread on each end, frames of 2 units, a page makes 3 | `ExchangeEnds` is violated |
| `registry` | 4 pids without collisions, 2 programs, 3 thread numbers, 1 page | `TypeOK`, `CountMatches`, `EntryOwner`, `ReuseIsClean`, `SharersDistinct`, `TidsDenseUntilExit` |
| `registry_assert` | 3 pids without collisions | `AssertionsHold` is violated |
| `registry_rates` | 2 pids of 1 program, 1 page | `SharingRecorded` is violated |
| `ktcp_bytes` | 2 senders, 2 receivers, frames of 2 and 3 units, a socket of 3 | `TypeOK`, `FramesContiguous`, `PagesInOrder`, `AckedWritten` |
| `ktcp_channel` | 2 senders, 2 receivers, full frames of 3 units, a socket of 3 | `OopsOnlyAtEnd`, `ImplementsChannel`, `MessagesArrive`, `SendReturns` |

*Bounds.* Two threads on a side contend for a mutex, and a third adds only another
waiter. The code has one send slot and so have the runs; the theorems hold for any
number, where the search for a free one has a choice. Two receive slots are the least number with which the code makes
progress: with one, the slot that has just been read would be posted again only by the
next poll that finds a message, which can never arrive (the code has 32). Three messages
go through two slots, so that a slot is posted, filled, read and posted again while
another is in use. `MaxRetry` stands for 128 empty polls; with 1, a receiver polls, gives
up `rlock`, takes it again and polls, which the other one may come between, and then gives
up: more turns repeat this. Frames of two and three units
let a write and a read stop inside a frame, and let a read of three units end inside
another frame. Eight threads make two rounds of merging for two nodes, the second with
cliques of two, and groups of four need both; the matrices are the zero-one matrices of any
pairs of three threads and of any single pair, symmetric and triangular, and the groups
with two kinds of rates inside. Three thread numbers and four pids let a thread start after
one in the middle has ended, and one too many. `matrix` has no bound and needs none: it stays zero.

The code makes three attempts to connect and the run two: the second is the first one
with a past, in which an old state, an old completion and an old request are about, and
it is also the last one, after which the client gives up. The safety properties and the
inductive invariant were also checked with three attempts and no event that answers
nothing, and the theorems hold for any number of both. One such event is enough for a
completion that is left over at a wait; a second adds one more. Two requests are what
`ready_conn` needs for one to be added while the other is taken.

*Fairness.* A thread inside a call goes on, by whatever step it can make: the kernel
schedules it. The mutexes hand
over to their waiters in the order of arrival, hence strong fairness on the step that
takes one. The adapters make progress and the connection manager reports a broken
connection. The receiving application keeps calling. Nothing says that an application
ever sends, that a link breaks or that a refill fails. `SendReturns` and
`MessagesArrive` except a refill that has failed: the receiver then returns an error, and
the code has nothing that posts the slot again.

For `KrdmaConn` the connection manager reports on what it was asked (`rdma_cm` has its
own time-outs), and threads and handlers go on. A connection may last for ever: there is
no fairness on its end, nor on `ClientRelease`. A server may never be told that a request
it has not answered was withdrawn. `RequestPicked` excepts a server that has left, which
every error of one client makes it do (`krdma.c:1666`, `1673`), and a list that is torn.

*Deadlock* is checked for `KrdmaSendRecv` and `CliqueAnalysis`. An oops ends a run of
`CliqueRegistry`, and one with `rlock` held stops the receivers of `KtcpStream`. The
threads of `KrdmaConn` and `KrdmaExchange` end.

*What the violated properties say.* The assertion of a slot that is always free
(`krdma.c:1045`) is wrong after an error: the slot of a failed send stays `POSTED`.
`__krdma_accept` reports success when it has not got a connection (`krdma.c:859`). The
exchange of the read/write mode cannot end, since each end waits for a whole page and
neither sends one (`ktcp.c:252`); with frames that fill a page `ExchangeEnds` holds. One
of the `C_ASSERT`s of `clique.h` fails for a second instance of a program (line 247);
with two pids in one slot the other one (128, 149) fails too. Two threads that share a
page have no rate (`clique.h:237`): `inc_matrix` sets the element it has incremented to the
transposed one, where the other way round was meant; then TLC finds no violation of
`SharingRecorded`.

Two properties that hold say how far the code may be trusted. `TidsDenseUntilExit`: two
threads get one number only after the exit of a thread that has not the highest
(`clique.h:177`). `PagesInOrder`: frames of less than a page lose what follows them in
their page, and nothing else.

*What properties except.* Some of the hazards in `PROJECT.json` are in the models, and no
property forbids them, since the code does nothing against them: a failed refill drops its
message (`krdma.c:938`), the list of requests can be torn (119), an accept that fails to
allocate leaves a `cm_id` with a freed block (529), a frame cut off by a reset is a success
(`ktcp.c:91`). The properties around them except exactly these cases, and so say that
nothing else leads to the same.

Each property is broken by a plausible mistake in the code it is about: the operators
named `X_Suffix` beside definition `X` are these mistakes, and `PROJECT.json` pairs them
with the properties.

## Proofs

`KrdmaSendRecv_proofs` proves, for any sets of threads and any numbers of slots, retries
and messages, that every reachable state satisfies `TypeOK`, `RecvSlotOwned`, `InOrder`,
`AckedArrived`, `BugOnlyAfterError` and `RecvCredit`, and that every step satisfies
`SendBufStable`. It assumes what the module assumes of its constants: the depths are
positive, the bounds are numbers and `NoThread` is no thread.

None of the properties is inductive. The invariant `IInv` adds what they rest on:

- `LockInv`: a thread past a mutex holds it, so at most one thread of each side is
  between the mutex and the end of its call.
- `SlotInv`: a slot that is `POLLED` is held by the one receiver that copies it, and a
  slot a receiver has taken is still `POSTED`; with `RecvSlotOwned` this makes the free
  slots, which the refill posts, disjoint from all the others.
- `SendInv`: until the sending end knows of the disconnect, at most one message is
  between it and the completion queue, and it is the message of the sender that polls.
  This is why a completion without identity is not mistaken: a sender that abandons its
  message has seen the disconnect, and then nobody polls any more.
- `LinkInv`: while the link is up nothing is in error and the messages that have arrived
  are all but the one on the way.
- `OrderInv`: the completions in the receive queue continue the sequence of the messages
  taken, and those in error come after all the others.
- `BugInv`: until a send fails, a slot is `POSTED` exactly while its sender waits.
- `CreditInv`: a slot that is neither with the adapter nor in the queue is `INVALID` or
  held by a receiver, and there is at most one.

Each has a lemma that a step preserves it, with one case for each action; `SendInvStep`
and `LinkStep` need each other's invariants, `OrderStep` needs the slots and the link,
`CreditStep` the slots and the order. TLC has checked `IInv` on the instances above.
`SendBufStable` follows from `IInv` and `SendSlotInv`, that a slot in the send queue is
`POSTED`.

`KrdmaSendRecvChannel_proofs` proves `Refinement`: `KrdmaSendRecv` implements
`MessageChannel` under the mapping of `Channel`. The abstract queue is a run of
consecutive numbers, so the lemmas `RunAppend`, `RunTail` and `RunPrefix` say what the
queue operations make of a run, and `KnownIs` that the channel knows exactly the
messages up to `Top`. Each kind of abstract step has its lemma: a post on a link that is
up is an `Accept`; a success of `krdma_send` is an `Acknowledge`, since its message has
arrived (`SendInv`); a completion that `krdma_receive` takes and returns, or drops because
the refill fails, is a `Fetch` of the head of the queue (`OrderInv`); `LinkDown` is a
`Break` that keeps what has arrived, which every acknowledged message has. All other
steps are invisible.

`KrdmaConn_proofs` proves, for any number of attempts (`Tries` is positive) and of events
that answer nothing (`MaxStray` is a number), all six invariants of `krdma_conn`. The
inductive invariant `IInv` is `TypeOK`, `FaultOnlyAfterInitFails` and:

- `ClientInv`: at each point of `krdma_connect`, which memory and resources the client
  has, and which states its block and its `cm_id` can be in together. From the first
  wait on, the state is that of the present attempt; at that wait, an old rejection is
  still about but is not what is waited for. This is why a completion that is left over
  ends an attempt and never makes it pass for a connection.
- `BlockInv`: the same for the block of each request and its `cm_id` on the server: the
  entry the acceptor serves is alive, what has been answered has its resources, what is
  freed has lost its `cm_id` unless `krdma_init_cb` has failed.
- `ListInv`: what holds of the links of `ready_conn` whether it is torn or not: they lead
  from entries to entries, a request that is still being added is linked nowhere, and
  what the handler and the acceptor hold in local variables is what they have read.
- `NoStaleEntry`: unless the list is torn, the entry that the handler has read as the last
  one is still there when it links the new one to it.
- `RingInv`: unless the list is torn, the links of the entries of `queue` and the head are
  a ring, with one store of `list_add_tail` or `list_del` missing where they are halfway.

`ClientInvStep`, `BlockStep`, `ListStep`, `RingStep` and `FaultStep` prove that a step
preserves each part, with a lemma for each kind of step that touches the list
(`RingStore`, `RingLink`, `RingPick`, `RingUnlink`). TLC has checked `IInv` on the
instance of the run and with three attempts.

`CliqueAnalysis_proofs` proves all six invariants of the run `clique` for any numbers of
nodes and cores, any set of matrices and any number of threads that is a power of two, as
`1 << NTHREADS_SHIFT` is (`PowerAssumption` says that it can be halved until 1 is left).
`IInv` is `TypeOK` and:

- `CountInv`: `cliques_size` is the number of valid cliques; between rounds it is a power
  of two and nothing is to be reused; within a round the valid cliques and twice those
  to be reused make twice a power. So the valid ones are even in number, and a clique
  that looks for a neighbour has one: this is why `c2` is never returned uninitialized.
  With three threads it would be.
- `PlaceInv`: the cliques in use hold every thread, each at one place. With it the length
  of a merged clique is bounded by the number of threads, since its members are distinct.
- `SizeInv`: within a round the valid cliques have one size `s` and the merged ones twice
  that, and the sizes add up to the number of threads.
- `GroupInv`: if the threads communicate in groups (`Clustered`), a clique lies inside one
  of them, and all groups have the same number of cliques, which is even within a round.

`SizeInv` gives `CoresBalanced`: when the loops end, `s` threads on each of the nodes that
are used make all the threads, each thread has one place in one clique, and the places
are dealt out to the cores by their remainder. For `GroupsTogether`, the distance of two
cliques of different groups is 0 and of two of one group positive (`SumOfRates` says when
the sum of a fold is 0). So as long as a clique's group has another valid clique its
neighbour is of the group; that there is one is what the even numbers say. They stay
equal and even because a round begins with a power of two of cliques, of which the
number of groups is a factor. At the end each group has one clique.

`CliqueRegistry_proofs` proves all six properties of the run `registry` for any programs
and pages and any pids, under the hypothesis `CollisionFree` that no two pids have the same
hash. It is needed: the code does not look whether a slot is taken, so that with two pids
in one slot `insert_thread` overwrites an entry and the counts no longer match.
`IInv` is `TypeOK`, `EntryOwner` and:

- `ListInv`, `UnlistedInv`: a program is listed once, and what is not listed has no threads.
- `TableInv`: the number of a process's threads is the number of its entries. The lemmas
  `EntriesAdd` and `EntriesRemove` say what each operation makes of the entries.
- `PagesInv`: `ReuseIsClean`, `SharersDistinct` and `NoRates`, kept together.

`NoRates`, that every element of every matrix is zero, is proved as `RatesZero`: it is why
`SharingRecorded` is violated, by whatever threads and pages.

`TidsDenseUntilExit` has an argument of its own: while the numbers of the entries are 0 to
the count less one, there are as many of them as entries, so no two threads have the same;
a new thread gets the next one, and an exit of the one with the highest leaves the rest.

`KtcpStream_proofs` proves all four invariants of `ktcp_bytes` for any threads, sizes of
frames, socket and number of messages. `IInv` is `TypeOK`, `FramesContiguous`, `AckInv`
(`AckedWritten` unit by unit) and:

- `LockInv`: a thread past a mutex holds it, so one thread writes at a time and one reads.
- `WriterInv`: the thread that writes has the youngest frame, what it has written of it is
  the end of the wire, and before its first write the wire has only older messages. So a
  partial write goes on where the last one stopped.
- `PlaceInv`: what the k-th call has returned is the beginning of the k-th page of the wire
  (`ReturnedPages`). Behind the pages that were returned comes the buffer of the call that
  holds `rlock` and then the stream, which ends with the wire unless the connection was reset
  (`Follows`); or the end of the stream has been read, or an error, and nothing more comes
  (`Drained`).

`PagesOrdered`, which is `PagesInOrder`, is read off `PlaceInv`.

`KtcpStreamChannel_proofs` proves `Refinement`: `KtcpStream` implements `MessageChannel`
under the hypothesis of the run `ktcp_channel` that every frame fills a page
(`Sizes = {Full}`). Without it the statement is false: one page that is read may hold
several messages. `IInv` is extended by `FullInv`:

- `PagesInv`: a unit's place on the wire is that of its message and its position in it.
- `WholeInv`: until a reset, the wire holds whole pages but for the one that is being
  written.

From these the k-th buffer that was returned is the beginning of message k
(`ReturnedMessage`), and what is in transit is the run of messages from the next one to
the last on the wire (`QueueIs`). The first write of a frame is then an `Accept`
(`FirstWriteAccepts`), a read or an end of the stream that returns a `Fetch`
(`ReturnFetches`), `Reset` a `Break`, and an error that drops what a receiver had read a
`Break` too (`LossBreaks`); every other step is invisible. `OopsAtEnd`
has the same hypothesis: a read begins where a page does (`PlaceInv`), and there is a header
(`PagesInv`, lemma `HeaderFirst`), so the only length that is not one of a message is that of
an empty buffer.

`KrdmaExchange_proofs` proves `Streams`, that each direction of the exchange is a
behaviour of `KtcpStream`: so what is proved of every stream, for any threads and sizes,
holds of both. `NothingExchanged` is the safety part of why `ExchangeEnds` is violated,
for any page, frames, socket and number of messages: with one client and one server, and
frames of less than a page (`OnePair`), neither `ktcp_receive` returns and the server
does not begin to answer as long as the connection stands. `ClientInv` says that the
client writes one frame only, so that the wire is shorter than a page; and by `PlaceInv` a
call that has returned while the connection stands has taken a page from the wire
(`PagesFit`). TLC has checked `ExchangeInv` on the instance of the run.

Only model-checked: liveness, which needs fairness and `ENABLED` and is out of the
prover's reach: `ReceiveReturns`, `SendReturns` and `MessagesArrive` of the two
transports, `RequestPicked` and `WaitsEnd` of the connections, `Terminates` of the
analysis. That the exchange never ends, and does not just get nowhere, is such a property
too. All other properties of the passing runs are theorems.

## Plan

1. `KrdmaSendRecv` with `MessageChannel`, its runs and its invariants proved: done.
2. `CliqueAnalysis`, `CliqueRegistry`, `KtcpStream` and their runs: done.
3. `KrdmaConn`, its run and its invariants proved; `KrdmaExchange` on top of
   `KtcpStream`: done.
4. The refinement of `MessageChannel` by `KrdmaSendRecv`: done.
5. Proofs for the remaining modules: the table and the counts of `CliqueRegistry`, the
   frames of `KtcpStream`, the partition and the counter of `CliqueAnalysis`: done.
6. The order of the pages and the refinement of `MessageChannel` in `KtcpStream`, the cores
   and groups of `CliqueAnalysis`, the exchange of `KrdmaExchange`: done.
7. Several clients at one listener in `KrdmaConn`, with one adapter each.
