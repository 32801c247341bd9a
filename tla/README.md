# TLA+ models of the WAF's concurrent core

The program is a web application firewall and reverse proxy that runs as a
Linux kernel module (`src/fw`, with the database `src/db`, TLS in `src/tls`
and small libraries in `src/lib`). It works in softirq context on every CPU,
with lock-free queues between CPUs, and moves requests and responses between
client and backend connections. This directory holds models of that core in
TLA+, the configurations TLC checks them with, and proofs for TLAPS.

How to run, in this directory:

    tlc -workers 2 -config WorkQueue.cfg MCWorkQueue
    tlapm WorkQueueProofs.tla

`PROJECT.json` lists all runs, the source lines behind every definition, one
mutation of the model for every property (it must make the property fail),
the findings, the hazards of the code, and the theorems.

## 1. Inventory

| Component | State | Operations | What makes it hard |
|---|---|---|---|
| Work queue `fw/work_queue.[ch]` | ring, `head`, `tail`, per-CPU guards, `last_head`, IPI flag | `__tfw_wq_push`, `tfw_wq_pop_ticket`, `tfw_wq_push`, `TFW_WQ_IPI_SYNC` | many producers without a lock, overflow, lost wake-ups |
| Synchronous sockets `fw/sock.c` | the work queue of each CPU, close backlog with turnstile, `__ss_active`, per-CPU guards of callers | `ss_send`, `ss_close`, `ss_tx_action`, TCP callbacks, `ss_stop`, `ss_wait_newconn`, `ss_synchronize` | order of data and close, budget of a softirq, shutdown against callers |
| HTTP forwarding `fw/http.c` | per backend connection `fwd_queue`, `nip_queue`, `last_msg_sent`, `curr_msg_sent`, flags | forward, re-send, repair, evict, re-schedule, pair responses | broken connections with requests in flight, busy queue, clients that leave, non-idempotent requests, websocket upgrade |
| Client pipeline `fw/http.c` | `seq_queue`, `ret_queue`, two locks, request flags | receive, answer, `100 Continue`, error responses, drop | responses ready on any CPU in any order |
| Server connections `fw/sock_srv.c`, `fw/server.c` | reconnect attempts, flags, references | connect, repair, reconnect, live reconfiguration, shutdown | failover against scheduling |
| Client connections `fw/sock_clnt.c`, `fw/client.c` | clients by address, connection timers | accept, keep-alive timeout, limits | timers against the socket |
| Websockets `fw/websocket.c` | pair of connections | steal the backend socket, relay | the socket changes its owner |
| HTTP/2 `fw/http2.c`, `fw/http_stream*.c`, `fw/http_frame.c` | streams, windows, closed queues, scheduler | frames, flow control, stream scheduling | long protocol sequences |
| HPACK `fw/hpack.c` | static and dynamic tables | encode, decode, evict, resize | ring with a search tree; blocks that are sent later than they are encoded |
| Client accounting `fw/client.c`, `db/core/htrie.c` | records of clients with references, LRU list, pool of memory counters | obtain, put, evict, charge, kill, shut down | references dropped on several CPUs, deferred work |
| Frang `fw/http_limits.c`, `lib/sliding_window.h` | per-client history slots | rate and burst limits | time slots that are reused, quanta read before the lock |
| Access log `fw/mmap_buffer.c`, `fw/access_log.c`, logger daemon | ring per CPU shared with user space | write, read, insert into the database, open, map, close, free | two sides without a lock, crash and restart of the daemon |
| Sessions `fw/http_sess*.c` | table of sessions, pinned connection | sticky cookie, redirect, pinning | failover of a pinned server |
| Cache `fw/cache.c` | records in TDB | look up, store, purge, stale responses | per-node queues |
| APM `fw/apm.c` | time windows, percentile ranges, health state | update, calculate, health monitor | timers against updates |
| GFSM, pool, schedulers, TLS, cryptography, TDB, parser, tables and virtual hosts, filter, configuration, regex, utilities | see `PROJECT.json` | | |

How they interact. TCP calls the socket layer, which calls the connection
hooks and the HTTP layer (`tfw_http_msg_process`) under the socket lock. A
client request enters `seq_queue` of its client connection, is scheduled to a
backend connection, enters that connection's `fwd_queue` and is sent with
`ss_send()`, which puts a work into the queue of the CPU that owns the backend
socket. A response from the backend is paired with the first request of
`fwd_queue`, and `tfw_http_resp_fwd()` hands the responses that are in turn to
`ss_send()` of the client socket. `ss_close()` takes the same way, with a
backlog if the ring is full. When a backend connection breaks, its queue is
repaired on reconnect, or moved to other connections.

What makes the parts correct, in short: a queue loses, duplicates and reorders
nothing and always wakes its reader; a close never overtakes data; a response
goes to the request it answers; a non-idempotent request is not repeated; a
request is in one queue at a time and is finished in the end; a client gets
its responses in the order of its requests; a HTTP/2 stream with data and window
has somebody to send it, within the windows the client gave; its client decodes the headers that
were encoded; a log event is stored
once or counted as dropped; a client lives as long as its connections; a rate limit
neither lets too much through nor blocks too early; the `BUG_ON`s and `WARN_ON`s of the
code do not fire.

## 2. Modules

| Module | Models | Extends or uses |
|---|---|---|
| `FifoQueue` | abstract bounded FIFO | |
| `WorkQueue` | the ring, every shared-memory access a step | `FifoQueue` by refinement |
| `WorkQueueProofs` | theorems about `WorkQueue` | `SlotLemmas` |
| `SsTx` | `ss_send`, `ss_close`, backlog, IPI, `ss_tx_action` around one queue | its ring is the FIFO that `WorkQueue` implements |
| `SsTxProofs` | theorems about `SsTx` | |
| `SlotLemmas` | lemmas about division and `p % n`, for the ring buffers, and about least numbers | |
| `FwdQueue` | forwarding queues of the backend connections, their repair, the life of these connections | |
| `FwdQueueProofs` | theorems about `FwdQueue` | `SlotLemmas` |
| `HttpPipeline` | one client connection with its pipeline and the works of its socket | work queue and turnstile as in `SsTx`, work by work |
| `HttpPipelineProofs` | theorems about `HttpPipeline` | |
| `H2Conn` | one HTTP/2 client connection: streams, frames, windows, sending | the socket's works as a bag of messages |
| `H2ConnProofs` | theorems about `H2Conn` | `SlotLemmas` |
| `H2Sched` | the priority tree of the streams of a connection | |
| `HpackTable` | abstract dynamic table of RFC 7541 | |
| `HpackEnc` | the encoder's table, blocks of the streams, the client's decoder | `HpackTable` by refinement |
| `AccessLog` | ring buffers in the kernel, worker threads of the daemon, database | |
| `AccessLogProofs` | theorems about `AccessLog` | `SlotLemmas` |
| `Client` | records of clients, LRU list, memory counters, shutdown | |
| `ClientProofs` | theorems about `Client` | |
| `Frang` | the history rings of all rate limits | |
| `MC*` | the modules above with the model values of the configurations | |

The models stand beside each other and hide one another's detail: `WorkQueue`
shows that the ring is a FIFO; `SsTx` takes the FIFO and shows what waking and
closing add; `HttpPipeline` takes works as single steps, and `FwdQueue` only
uses that a work is accepted, refused (`-EBUSY`), or refused for good
(`-EBADF`), and executed later. `H2Conn` lets any active stream be next and `H2Sched`
says which one it is and that there is one as long as the root counts one; its
`NoLostWakeup` says that the kernel then asks for it. `Client` gives `Frang` the
client whose counters it uses.

### WorkQueue

State: the fields of `TfwRBQueue` under their names, and the locals of each
producer and of the consumer. `PushBegin` reads the head, `PushGuard` stores
the guard, `PushTail` reads the tail and decides, `PushCas` is the `cmpxchg`,
`PushReread` the loop, `PushCopy` the `memcpy`, `PushRelease` the end.
`PopBegin`, `PopHead`, `PopScan` (one step per guard that is read), `PopCopy`
and `PopAdvance` are the consumer. `claimed` and `out` are history variables:
what each position was acquired for, and what was popped last. Under
`claimed/tail/out` the ring refines `FifoQueue`.

Memory order: a step is one access and steps are sequentially consistent. The
code is written for x86-64, where the only difference is that a store may become
visible after later loads of the same CPU. Here it does not matter: the stores
concerned are the guard and its release. The guard is visible at the latest with
the `cmpxchg`, a full barrier, and before that the producer owns nothing; a
release that is visible late only makes the consumer wait longer. Counters are
unbounded (64 bits in the code).

### SsTx

One work queue, its owner `Home`, and CPUs that submit to it. A position is
acquired (`PushAcquire`) before its item is complete (`PushComplete`); in
between, and while any guard is at or below the tail, a pop returns `-EBUSY`.
`PushFull` and the turnstile steps are the way of a close into the backlog;
`ss_wq_pop()` is the steps `TxPop`, `TxTurn`, `TxBacklog`, `TxRing`, and the
end of `ss_tx_action()` the steps `TxSync`, `TxWqSize`, `TxCbSize` that set the IPI
flag, read both sizes and raise the softirq again. `Stop` is `ss_stop()`;
`KernelTx` another reason for the softirq.

Here the memory order of x86 does matter: after `ss_turnstile_push()` the flag is
read without a barrier. `TurnstileEarly` and `TurnstileLate` are the case that
the read is done before the stores of the critical section, the unlock included, are
visible. `UnlockIsBarrier` says that it cannot happen (the unlock of
paravirtual spinlocks is an atomic operation); the runs have it `FALSE`, as
on bare hardware. After a push to the ring there is no such case: the head is
moved by the `cmpxchg`.

### FwdQueue

A connection is a record with the fields of `TfwSrvConn`; everything under
`fwd_qlock` is one step, and the functions that run under the lock are
operators from a connection to a `Section`: the connection after it, requests
that left, a return code, an assertion that failed. A failed assertion is
recorded in `bug` and stops the behaviour (`Halt`).

| Actions | Code |
|---|---|
| `Pick`, `NoServer`, `FwdResched` | `tfw_http_req_fwd_resched`, `tfw_http_req_fwd` |
| `ReschedNip`, `ReschedEvict`, `ReschedPick`, `ReschedNoServer`, `FwdAgain` | `tfw_http_req_resched` and the list cut off a queue |
| `Entail` | `tfw_http_on_tcp_entail_req`: the socket takes a request, or removes it if its client left |
| `RespStart`, `RespSibling`, `RespDone`, `RespBad` | pairing, parsing and popping of a response |
| `RespUpgrade`, `RespUpgradeNoMem` | a 101 response: the socket is taken over |
| `SockClose`, `ConnDrop`, `ConnRelease`, `ReleaseStopped`, `ReleaseRemoved` | end of a connection, stop, removal from the configuration |
| `ConnectFail`, `ConnectInit`, `ConnRepair`, `ConnectFinish` | the hooks of reconnection, one after another |
| `ClientDrop`, `Follow`, `Expire` | the client disconnects; pipelines another request, so that a non-idempotent one stops being so; the request gets too old |

Outcomes of sending (accepted, busy, broken, error) are chosen freely within
what the socket can return. The scheduler may choose any suitable connection.
A part of a response for a client that is gone is refused with `T_BAD` (`http.c:7547`) and the
connection is closed with the response still in receipt: the same states as with `SockClose`.

### HttpPipeline

`Rx` receives headers and bodies, with a malformed or blocked message at any
time, `Expect: 100-continue` and its interim response; `Resp(r)` is a CPU that
finishes a request with a response, an error, or the failure to build one;
`Sender` is the owner of `ret_qlock` that sends `ret_queue` one by one and
closes; `Tx` is the softirq with its budget, ring, backlog and turnstile; and
the socket closes and drops the connection. `wire` is what the client got.

A malformed body is two steps. `RecvBad` frees the paired response (`http.c:5796`) without a lock,
and `RecvBadQueue` queues the request (`http.c:5735-5740`). In between another CPU may cut the request off
`seq_queue`, or be about to send its interim response: `BUG_ON(!req->resp)` then fails (`SendBug`, `SendFailed`),
which is told apart as `interim_gone`. The `WARN_ONCE` of 5735 does not stop the code;
what follows is `list_add_tail()` of a request that is linked already, which
leaves neither list a list, so the behaviour ends there (`already_queued`).

### H2Conn

`c` is `TfwH2Ctx` with its streams, the write queue of the socket and
`SOCK_TEMPESTA_HAS_DATA`; `out` holds what was given to `ss_send()` and not executed;
`push` is the push of the write queue that holds the socket, and `wire` the client's view
of what was sent.

| Actions | Code |
|---|---|
| `RecvHeaders`, `RecvPayload`, `RecvRst`, `RecvPriority`, `RecvWndUpdate`, `RecvSettings`, `RecvPing` | `tfw_h2_frame_process()` for one frame: type and stream checks, the state machine `Fsm`, the effect, and closing of the current stream at the end |
| `RespInit`, `CloseReq` | another CPU queues a response or gives a request up, under `ctx->lock` only |
| `DoSend` | the softirq executes a send: control frames are entailed, or postponed behind a header block |
| `Push`, `MakeFrame`, `MakeFrameFails` | `tfw_connection_fill_sk_write_queue()` and `tfw_h2_make_frames()`, a frame per step |

`Fsm` is `tfw_h2_stream_fsm()`, with an operator for each state of a stream (`IdleFsm`, `OpenedFsm`,
`RemHalfClosedFsm`, `LocClosedFsm`, `ClosedFsm`). `idle` and `closed` are the lists of streams in their order;
`AddIdle` searches from the end, as the code does, so `idle` is not always in the order of identifiers.

Lengths are units, frame headers have none, and the TCP window of a push is a choice
from `Bursts`. `MinToSend` is the least a stream
sends unless it has less; `MinSend` stands for the smaller one of 512 and the MSS without the overhead of TLS.
Header and payload of a frame, which arrive one after the other under the socket lock, are one step: a push or a response
in between meets the state before the frame.

`wire` is the client's: `sets` are the initial windows of the SETTINGS it sent and has no ACK for, `cinit` the one
that is in force for it. An ACK is for the oldest of them, and all windows of the client move by that one
(`WireSettings`). The server keeps only the latest value and applies it with the first ACK
(`http2.c:191-213`, `http_frame.c:235-236`), so the two may differ for a while.

HEADERS are received on any stream, the newest or an older one (trailers). The latter take `lstream_id` back (`http_frame.c:685`),
after which the client may begin a stream with an identifier that is used up. `NoTrace` restricts
this to identifiers of which nothing is left: no response to the earlier stream is on its way, and no queue
has a link of it. What a response does that reaches another stream with the same number is not modelled.

### H2Sched

`t` is the tree: `parent`, `weight`, `cnt` (`active_cnt`), `total` (`total_weight`), and for each
entry in which search tree of its parent it is. An action is a whole
operation, as everything runs under the socket lock. The walk to the next stream takes at
each level the last entry of the active list, the one with the largest weight and then the
smallest identifier. `SendNext` sends from that stream; `SendCurrent` sends from any active one, as `tfw_h2_make_frames()` does
with the stream of an open header block and the one of an error response (`http_frame.c:2480-2495`). A failed assertion is put into `bugs`.

### HpackEnc

`tbl` is `TfwHPackETbl`; `tbl.mem` maps the offsets in the ring buffer to the nodes there. The
search tree is the set of the nodes, as rotations and colours decide nothing but the time
of a search; comparison of fields is equality. `AddNode` is `tfw_hpack_add_node()` with its
two phases (`RbufCalc`, `Place`, then `Commit`; the code fills the new node before it erases the evicted ones, which is the same
because the node lies in the room that is free or given up), `SetRbufSize` the resize. Everything runs
under the socket lock, so an action is a whole call: `EncodeHeaders`, `EncodeWithTrailers`
(`HTTP2_ENCODE_HEADERS`), `MakeHeaders`, `MakeTrailers` (frames, with a size update before
headers), `Reset`, `ApplySettings`. A block is one field. `dec` is the decoder of the client, external,
from RFC 7541. `late` remembers that a block was not sent in the order of encoding, was dropped, or waited
during a resize. A wrong field ends the behaviour: the client closes the connection.

### AccessLog

Per CPU: `LogStart` reads the room, `LogWrite` writes the record behind the head where the
reader may not look, `LogCommit` publishes it or counts a drop. A worker thread runs
`WorkerMap`, `WorkerTop`, `Consume`, `ReadEvent`, `StoreTail`, `Check`, `Send`, `Idle`, `Exit` of
`event_loop()`, with the database that may fail at each query. `Insert()` also throws if the connection breaks after the
server has stored the block (`clickhouse.cc:74-85`), so a query that fails may be carried out or not (`Query`, `DoneOnFailure`);
the block is kept either way and inserted again. `db` is the list of stored blocks, each with whether its answer arrived. The server is taken to store
a block as a whole or not at all. `OpenTest` and `OpenSet` are
the two steps of `dev_file_open()`, `Crash` kills the daemon at any point, `FreeBegin`,
`FreeClear`, `FreeDone` are `tfw_mmap_buffer_free()`. An uninitialized local that is stored
is any value of `Garbage`.

### Client

`ConnKnown` and `ConnNew` are `tfw_client_obtain()` with a record that is found or
created (with `UpdateLru`, which may evict the last client); `ConnClose` drops the
reference and `ConnFree` is the rest of `tdb_htrie_put_rec()` after the counter became 0, as
a step of its own: the lock is taken in between. `BufGet`, `BufPut` are users of
the memory counter, `KillWork` the deferred work, `Stop`, `FreeLru`, `PoolExit` the shutdown.
If a lookup takes a record whose counter is 0 the rest is undefined, `raced` is set
and the behaviour ends.

### Frang

One operator, `Account`, counts an event in a slot, and `Exceeds` compares; the actions are
the callers. New connections and requests read the clock in `ConnStarts`, `ReqStarts` and take
the lock up to `MaxDelay` jiffies later. The rings share no state, so a behaviour has events
of one ring only (`watched`), chosen at the start. A rate of 0 is no limit, but for
responses and control frames, which are compared with it as it is (`Limited`). `log` is the exact number of events per
quantum.

## 3. Runs

Each instance is as small as the case in question allows, and larger than the
smallest where it happens.

| Run | Instance | States | Shows |
|---|---|---|---|
| `work_queue` | 3 CPUs, 2 slots, 3 pushes, budget 2 | 427 k | wrap-around, overflow and three competing producers; no slot race, FIFO, every item popped |
| `ss_tx` | 2 CPUs, 1 slot, 2 works each, budget from 1, `UnlockIsBarrier` false | 960 k | ring and backlog both in use, runs that end on the budget, pushes during every step of the end of the softirq; no lost wake-up for works in the ring, all work done but for a close whose wake-up was lost |
| `fwd_queue` | 1 connection; a health monitor, a non-idempotent and an upgrade request | 674 k | consistency of the queue and its pointers, pairing, non-idempotent requests sent once, assertions |
| `fwd_queue_two` | 2 connections, 2 requests, retries of non-idempotent ones allowed | 353 k | a request is in one queue; it is finished; repairs end |
| `http_pipeline` | 3 requests, one with `Expect`, a ring of 3 | 172 k | responses on the wire in the order of the requests, without a gap; assertions; every request ends |
| `h2_conn` | 2 streams, 1 closed one kept, window 1 with settings 0 and 4, frames of 2, TCP window 2, `MinSend` 2, 2 frames besides those that begin streams; responses with headers in two frames and a body larger than the window, or with trailers in three frames | 631 k | windows at zero, negative and at the maximum, header blocks in several pushes, resets, settings and HEADERS on an older stream in the middle of them |
| `h2_sched` | 4 streams, weights 1 and 2 | 36 k | chains, siblings, exclusive insertion, a stream moved under its own descendant, removal of inner nodes |
| `access_log` | 1 CPU, 8 cells, records of 3 and 4 cells, 3 events, 2 starts, blocks of 2, one answer lost | 1123 k | wrap-around, a full ring, drops, crash at each step, a database that fails before or after it stored a block, freeing at any time |
| `client` | 3 addresses and sockets, 2 buffers, LRU list and pool of 2, 1 more counter | 54 k | eviction with connections open, the pool empty, the slab used, shutdown with buffers in use |
| `frang` | 2 CPUs, ring of 3, 6 jiffies, 3 events, 2 connections | 263 k | reuse of every slot, late events, burst, rate and connections at their limit |
| `hpack` | ring of 20 bytes, nodes of 4 to 12, 4 fields of which two share a name, 5 additions, sizes 0, 12 and too large, one stream with headers and trailers, at most 2 evictions | 156 k | wrap-around, the gap at the end regained, additions refused by size, by the limit of evictions and for lack of room before and after wrapping; resize with blocks waiting |
| `hpack_order` | the same with two streams | | violated: section 5 |

`FwdQueueSteal.cfg`, `FwdQueueStopped.cfg`, `SsTxOrder.cfg`, `SsTxBacklog.cfg`,
`FwdQueueStuck.cfg`, `ClientRace.cfg`, `HttpPipelineFreed.cfg`, `HttpPipelineGone.cfg`, `H2ConnLast.cfg`, `H2ConnIdle.cfg`,
`H2ConnTwice.cfg`, `H2ConnEarly.cfg`, `H2SchedWeights.cfg` and `HpackSmallest.cfg` each check one property that
the code does not have; TLC finds a counterexample with each of them (section 5). They
are not among the runs of `PROJECT.json`.

Bounds. `MaxCalls`, `MaxWorks` bound the number of operations; positions pass
the size of the ring, so slots are reused and guards of an earlier round are
met. Larger numbers only repeat states up to a shift of the counters.
`MaxRefwd = 1`, `TmoNr = 1`, `MaxRecns = 1` give each counter a value below, at and
above its limit. The budget of a softirq is a free choice from `MinBudget` up:
10 in the code, 1 in the model, so that runs end with few works. `LongMax` is a
value no counter reaches in the instance. `H2Conn` counts only the client's frames; what the proxy does with
them is not bounded. Trailers in three frames are
needed: a postponed frame that is sent too early falls between the second and the third. `WeightsBounded` keeps the weights that removals compute at
those of the instance. `MaxTime` is two rings long, so that a slot is met by a later round.
`MaxLost = 1` lets one insert of a behaviour be stored without an answer, at any time; the theorem about rows has no such bound.
`access_log` has one CPU because the per-CPU buffers meet only in the device, whose
closing waits for all workers.
Deadlock is not checked in the
modules where the system comes to rest: all requests are finished, and nobody
must send more.

Fairness. Work queue: a push or pop that was begun ends (straight code with
bottom halves disabled), and the softirq polls a queue that is not empty.
`SsTx`: IPIs and softirqs are delivered. `FwdQueue` and `HttpPipeline`: a
code path that holds a lock or a request goes on, timers fire, a closing socket
is closed in the end by TCP's timers, and a backend either answers what it got
or loses the connection. No fairness is assumed for clients, for a backend's
coming back, for expiry, or for room in a queue: `-EBUSY` may come at any time,
though a caller that retries sees it end. Strong fairness is used once, for
`Resp(r)` in `HttpPipeline`: the CPU that answers competes for `seq_qlock`, a
fair spinlock, with steps that make it wait. `AccessLog`: worker threads
run, the daemon joins them, and freeing goes on once begun; nobody has to start the
daemon, stop it, or answer for the database. `Client`: once shutdown has begun, connections
are closed and buffers released by the layers that stop earlier, and deferred works run.
`H2Conn`, `H2Sched`, `HpackEnc` and `Frang` have safety properties only. Liveness is about behaviours in
which no assertion of the code fails.

## 4. Proofs

`WorkQueueProofs` proves, for every number of CPUs, size of the ring, budget
and number of pushes:

- `IInvariance`: `IInv` is an invariant. It says that the counters are ordered
  (`Counters`), a producer's copy of the head is not from the future (`Locals`),
  its guard is at or below the position it works on (`Guards`), positions in
  copy are owned by one producer each (`Owned`), a position between tail and head
  is either in copy or holds its item (`Filled`), and the consumer's bound
  excludes positions in copy, but for guards its scan did not visit yet
  (`BoundSafe`, `Consumer`). The safety properties are not inductive alone: that
  two producers never share a slot follows from the distance of head and
  tail and from the injectivity of `p % QSize` on a window of `QSize` positions
  (`DivMod`, `SmallMultiple` and `ModInjective` of `SlotLemmas`), and that the consumer reads a
  complete item needs the state of its running scan.
- from `IInv`: `TypeCorrect`; `NoRace`, the invariant the run checks; `Fetched`, the consumer
  reads the item of the producer that acquired the position; `NeverAhead`, the `WARN_ON_ONCE`
  of push never fires; `Tickets`, the ticket of a push that failed is positive.
- `ImplementsFifo`: every step is a `Put`, a `Take` or a stutter of `FifoQueue`.
  `PushCas` is the `Put`, `PopAdvance` the `Take`, whose item is right by `Consumer`.

`SsTxProofs` proves, for every set of CPUs, size and bound, that `IInv` (control
points, the IPI flag and pending wake-ups fit together) is inductive
(`IInvariance`) and that no wake-up is lost (`WakeupNeverLost`): for works in the
ring in any case, for closes in the backlog if an unlock is a barrier. The argument:
whoever finds the flag set after its work is visible raises an interrupt;
the consumer sets the flag before it looks at the sizes, and with work left
clears it only together with raising its own softirq.
`TurnInvariance`, `TypeCorrect` and `TurnRight` are about the
turnstile, whose turn is not beyond the ticket of the first close in the backlog: `TurnInv` adds to `TurnMatchesBacklog` the types and that a producer between its push and
its turnstile holds a work, so that the ticket it queues is a number the comparison with `turn` makes
sense for.

`AccessLogProofs` proves, for every set of CPUs, size of the buffer, lengths of records, contents of fresh
memory and every number of crashes:

- `IInvariance`: `IInv` is an invariant. Per CPU (`CpuInv`) the unread cells are fewer than the ring has and are as
  committed (`Mapped`); records are framed by their lengths (`Framed`) and their identifiers grow (`Ordered`);
  what the writer still may write fits in front of the tail it read (`Writing`: the tail may have moved on since,
  which only leaves more room, nor does a worker that is killed ever move it back); a worker that reads stands at the beginning
  of a record (`Reading`), so that the length it reads is one; and everything in its block is older than what it will read
  (`BlockInOrder`), and everything in the database older than both (`RowsBefore`, `Stamped`), but for a block that was stored
  without an answer: it is the beginning of what the worker holds until its rows are stored again or lost (`MayFollow`).
- `UnreadStaysIntact` and `InsertedOnceInOrder`: the invariants `UnreadIntact` and `RowsOnceInOrder` of the run
  `access_log`. Both need all of `CpuInv`: an event is not inserted from two blocks only because the tail is
  stored before its block is sent and a restarted worker begins at a boundary not before that tail. That two cells of a window
  of the ring differ is `ModInjective`.
- `DropsAlwaysReported`: the invariant `DropsReported`. `CountInv` adds that the cell behind the fields of a record that is written
  has the number of drops as it is until the commit (`Noting`). `Reported` is a recursive sum; that such a sum exists, is unique and grows by
  the number in the last cell of a record is shown with least counterexamples (`SumsExist`, `ReportedIs`, `ReportedRecord`, from `LeastNat`
  of `SlotLemmas`), since the library's induction rules cannot be instantiated here.

`ClientProofs` proves, for every set of addresses, finite sets of sockets and buffers, every size of the list and number of
records:

- `IInvariance`: `IInv` is an invariant. The list and the sockets refer to live clients only, and the count of a client is the
  number of these references (`Referenced`); as long as no record that is being freed was taken, a client without references
  is in the hands of exactly one socket, which frees it (`Dropped`); a live client has a counter of its own (`OwnCounters`), whose references
  are its buffers and two for the client or for its work (`InUse`); the free list is what is not in use of the
  pool (`FreeRight`); `shutdown_pending` is the number of counters in use without a client (`Orphans`); and after the stop nothing is left
  in the list or in a socket (`Stopped`). `tfw_client_free_lru()` drops the references of the whole list in one
  step, which is why the parts are stated about values and not about variables.
- `ReferencesExact` and `PoolGivenBackWhole`: the invariants `RefsExact` and `PoolWhole` of the run `client`. The second is a counting
  argument: `pending = 0` leaves no counter in use that is not owned, no client is live, hence the whole pool is free, and a
  list without repetitions of all of 1..LruSize has that length.

`FwdQueueProofs` proves, for every finite set of requests, every set of connections and all limits:

- `IInvariance`: `IInv` is an invariant. Of a connection (`ConnInv`) it says that the queue has no request twice and agrees with its counter
  and with the list and the flag of non-idempotent requests (`ListInv`); where `last_msg_sent` and `curr_msg_sent` point in each phase of the
  connection, and that a connection that is probed with its first request has nothing else in flight (`PtrInv`); that what is
  in receipt, on the wire and in the socket, in this order, are the first requests of the queue, and all of them up to `curr_msg_sent` while
  the connection is up (`FlightInv`); what the socket may hold in a phase (`SockInv`); that only the last request that was sent is
  non-idempotent (`NipInv`), and none if they are sent again (`RetryInv`). Of the system it says that a reference keeps the connection it
  was taken from (`PickInv`), that a request is queued in exactly one connection or has another owner (`OwnInv`), and where a
  non-idempotent request is that was sent (`SentInv`). None of the properties is inductive alone. Requests leave a queue at any place (eviction,
  a client that left), so the order is stated as a relation (`Before`, `UpTo`), which a removal only restricts, and not by positions. Two facts
  were found by attempts that failed: `TFW_CONN_B_UNSCHED` is clear in a connection that is being probed, without which the
  assertion of `treatnip` would not follow, and a dead connection has neither `TFW_CONN_B_RESEND` nor `TFW_CONN_B_QFORWD`.
- every section under `fwd_qlock` has one lemma that says what it leaves of the queue (`Good`) and that the connection has
  `ConnInv` again; `LeaveInv` says once what a step that leaves such a section does to the whole system.
- from `IInv`, the seven invariants of the runs `fwd_queue` and `fwd_queue_two`: `AssertionsSafe` (but for the two assertions of section 5), `ConsistentAlways`, `OneQueueAlways`,
  `HeldAlways`, `PairRightAlways`, `NipLastAlways`, `NipOnceAlways`; and `TypeCorrect`, which bounds the counter of retries, not the number of times a request is sent
  (`RetryLimit`, section 5).

`H2ConnProofs` proves, for every number of streams, all limits on them, every window, frame size, set of responses and number of
received frames, HEADERS on older streams included. The theorems have no hypothesis beyond the assumptions below; what they say of
behaviours with an identifier that is used twice is restricted by `NoTrace` (section 2).

- `Invariance`: `IInv` is an invariant. It says what a stream has to send in each state of its transmission, and that only a complete
  request is answered (`Transmits`); that the stream whose header block is open is in the tree, half closed and in the middle of its block, and that the
  write queue is empty meanwhile (`CurInv`); that no stream is queued twice, as idle or as closed (`IdleInv`); that a response is sent
  once, to a stream that waits for it or is gone for good (`OutInv`); that the windows of streams differ from what the client takes them
  for by the difference of the initial windows that are in force on the two sides, and the one of the connection is no larger (`WinInv`, not an equality, since a frame that is dropped is charged);
  that the block open on the wire is the one the connection thinks of (`BlockInv`); where the acknowledgement of settings is (`AckInv`); and
  what a push in progress may rely on, and that without one the kernel knows of all there is to send (`PushInv`). TLC checked it
  before it was proved.
- The handlers of the receive path hold the socket for the whole step: one lemma for each of their operators says
  that `Good`, which is the invariant without a push, is kept. While a frame is made its stream is between two states of `Transmits`;
  `Mid`, `Framed` and `Sent` are the invariant with that stream excepted, with the frame on the wire, and whole again, and the
  acknowledgement is followed on its own (`AckIn`) because `SendPostponed` moves it from the stream to the write queue and applies the
  settings, which moves all windows at once.
- from `IInv`, the five invariants of the run `h2_conn`: `WakeupsKept`, `HeaderBlocksContiguous`, `FlowControlKept`, `CurrentStreamActive`, `AckNotLost`.
  `HeaderBlocksContiguous` and `AckNotLost` claim nothing for a connection after a stream was freed in the middle of its header block
  (`wire.cut`): for the client that block never ends. `FlowControlKept` excepts streams that were idle when settings were applied,
  and streams whose window the server sees larger because it has applied settings the client has no ACK for (`wire.early`).

`HttpPipelineProofs` proves, for every number of requests, every choice of those with `Expect`, and every size of the work
queue and budget:

- `IInvariance`: `IInv` is an invariant. It says of each request how far it is received (`Received`), what it
  means to be in `seq_queue` or in `ret_queue` (`InSeq`, `InRet`), that whoever answers finds it listed or knows that it was dropped
  (`Answerable`), and what `RESP_READY` tells (`IsReady`); what a handler that waits for a lock relies on (`RxInv`); that a dropped
  connection has an empty `seq_queue` and only a sender has a `ret_queue` (`ConnInv`); and that wire, ring, `ret_queue`,
  `seq_queue` and the request in receipt follow each other in the order of the requests (`OrderInv`). `IsReady` has the
  case that is easy to miss: the flag of an interim response stays set after that response was sent, and a malformed body leaves
  it on a request without any response. This does no harm because such a request is alone in `seq_queue` and nothing is received after it.
  Between the two steps of a malformed body the request has no response though it may be in a list (`InSeq`, `InRet`).
  The parts are claimed until the first of the three failures of section 5 (`already_queued`, `freed_listed`, `interim_gone`), where the
  model stops; the conclusions below hold in all states.
- from `IInv`: `TypeCorrect`; `AssertionsHold`, the `BUG_ON`s of `tfw_http_resp_fwd()` and `__tfw_http_resp_fwd()` for every request but the one of `interim_gone`; `NeverReordered`, the
  final responses on the wire grow strictly, whether or not works overflow into the backlog.
- `GapInvariance` and `InOrderWithoutGap`: in behaviours in which the backlog stays empty, no response is missing in front of one
  that was sent, which together is `ResponsesInOrder`. `GapInv` says that a request that is neither answered nor in a list has a
  close in front of everything that comes later (`NoHole`, `Broken`). The hypothesis is needed and not vacuous: with an overflow a
  close may be overtaken (section 5), and the backlog stays empty wherever the ring has room
  for every work, as for the three requests of `http_pipeline` with a ring of 6. (That run has a ring of 3, so that a close overflows; the finals
  that could overtake it fit in front of it, and the property holds there too.)

Assumptions: `Home` is one of the CPUs, sizes and budgets are positive, no item
is `NoItem`, and `MaxCalls < LongMax`, the 64-bit counters do not reach the value
that marks a free guard. In the access log, lengths and what fresh memory holds are natural numbers, a record is not empty
(it has its header), and the buffer has at least two cells. Sockets and buffers of clients are finite sets, and there is room for one client
in the list. The number of requests and `LongMax` of the pipeline are natural numbers.
The requests of the forwarding queues are a finite set, `NoReq` and `NoConn` are none of the requests and connections, an upgrade is non-idempotent,
the health monitor has no client that could leave, and limits are natural numbers. A HTTP/2 connection has
at least one stream, frames are not empty, settings and the initial window do not exceed the largest window, a response has headers, and
`MinSend` and the TCP windows of a push are positive. TLC evaluates all of them in the runs.

Only model-checked:

- liveness (`EveryPushIsPopped`, `WorksAreDrained`, `RequestFinishes`, `RepairCompletes`, `RequestEnds`, `FreeCompletes`, `StopCompletes`),
  because the prover does not handle fairness;
- `LimitsEnforced` and `BlocksJustified` of `Frang`, `CountsExact`, `TreeRight` and `AssertionsHold` of `H2Sched`: they are about sums
  over sequences or sets and about paths in a tree. The prover's library has no induction over data that could be used;
  `DropsAlwaysReported` shows the way around it, a least counterexample, which was not done for these;
- `RingIntact`, `ImplementsTable` and `DecodedRight` of `HpackEnc`, whose steps are folds over the fields of a block, for the same reason.

## 5. Findings

One run is violated because the code does something else than a comment in it says;
`PROJECT.json` quotes it.

1. `hpack_order`, `AlwaysDecodedRight`: `hpack.c:3127-3129` speaks of the "necessity of keeping
   the index tables on both sides of HTTP/2 connection in synchronized state". A field enters
   the table when it is encoded; the client learns of it when the block is sent. A push may
   end between encoding and the first frame of a block (`http_frame.c:2228-2231`, where
   `cur_send_headers` is not set yet), and trailers, encoded together with the headers
   (`http2.c:683`), always wait for the body. In between another stream may refer to the new
   entry, the stream may be reset, or the table may be resized. In the counterexample the
   block of a stream is an index that the client does not have. `DecodedRight` of the run `hpack`
   shows, for one stream with blocks that wait, that nothing else gets a field wrong.

The next ones have a configuration that shows the counterexample:

2. `H2ConnIdle.cfg`, `OlderIdleClosed`: `http2.c:405-407` says "The first use of a new stream identifier implicitly
   closes all streams in the "idle" state that might have been initiated by that peer with a lower-valued stream
   identifier." `tfw_h2_remove_idle_streams()` stops at the first stream that is not lower (`http2.c:420`), and
   `tfw_h2_stream_add_idle()` puts a stream that is lower than all others at the end of the list
   (`http_stream.c:195`). PRIORITY on a stream, PRIORITY on a lower one and HEADERS on the first leave the lower
   one idle. It was found while the operators of the queues were prepared for the proofs; none of the theorems needs the order of the list.
3. `FwdQueueStuck.cfg`, `RepairCompletes`: `http.c:2795-2797` says "re-send the first request to the
   server. When a response comes, that will trigger resending of the rest of those unanswered
   requests". If the client of that request leaves before the request is in TCP,
   `tfw_http_on_tcp_entail_req()` (`http.c:1445`) removes it and nobody re-sends the rest.
4. `ClientRace.cfg`, `ClientAlive`: `tdb_htrie_put_rec()` (`db/core/htrie.c:311`) lowers the last
   reference of a record before it takes the bucket's lock. A lookup on another CPU finds the
   record meanwhile and raises the counter from 0; the first CPU then frees it. A new
   connection goes on with a freed client, which `fw/pool.c:277-279` calls impossible.
5. `HpackSmallest.cfg`, `SmallestSignaled`: `hpack.c:3740-3744` quotes that "the smallest maximum
   table size that occurs in that interval MUST be signaled". After a size of 0 a larger one is
   accepted (`hpack.c:3747`), and only the larger one is signalled.
6. `SsTxOrder.cfg`, `CloseAfterData`: `sock.c:54-56` says that the turnstile keeps the order
   of backlog and ring. `tfw_wq_pop_ticket()` sets the ticket even when a producer's guard
   makes it return `-EBUSY`, and `ss_wq_pop()` (`sock.c:330`) then takes a close although data
   submitted before it is in the ring. It needs a second CPU in the middle of a push: with
   producers on one CPU only (`Producers = {c2}`, two slots, five works) the order holds.
7. `SsTxBacklog.cfg`, `BacklogWakeup`: `sock.c:267-268` says "We do not need explicit memory
   barriers after spinlock operation." The read of the IPI flag after `spin_unlock_bh()`
   (`sock.c:270`) may be done before the new size of the backlog is visible, and
   `ss_tx_action()` sets the flag and reads the old size in between. The close is executed
   with the next softirq for any other reason.
8. `FwdQueueSteal.cfg`, `SocketAssertion`: `BUG_ON(!sk)` of `sock.c:638`. `sock_srv.c:697` clears
   `TFW_CONN_B_UNSCHED` after an upgrade request was re-sent, so requests are queued behind
   it and are sent after the socket was given away (`websocket.c:153`).
9. `FwdQueueStopped.cfg`, `BadRespCloses`: `http.c:7743-7746` says "Close connection with
   backend immediately and try to re-establish it later." A bad response that a stale cached
   one replaces sets `Conn_Stop` itself, and `ss_tcp_data_ready()` (`sock.c:1203`) then does
   not close the connection.
10. `HttpPipelineFreed.cfg`, `FreedUnlinked`: a request in receipt is freed with its connection
   (`http.c:3280`, `http.c:1036-1041`) while another CPU has it in `ret_queue` for its
   interim response, which the comment at `http.c:6463-6466` means to exclude.
11. `H2ConnLast.cfg`, `LastStreamGrows`: `http2.h:77` calls `lstream_id` the last stream the
   client initiated; `http_frame.c:685` sets it with every HEADERS frame, trailers of an
   older stream included. `H2ConnTwice.cfg`, `IdentifiersFresh`, shows what comes of it: with `lstream_id` taken back, a stream
   that was closed and freed is new again for the state machine, while a response to it is still on its way or its link
   is in the queue of closed streams.
12. `H2SchedWeights.cfg`, `WeightsShared`: when a removed stream's children move to its parent,
   each gets a part of its weight. The move is done for one list of children and then for the
   other, and the second call reads a total weight (`http_stream_sched.c:397`) that the first
   one has changed: the shares are not the ones the comment at 399-407 states. That total can be 0, and it is the divisor of the
   new weights (`http_stream_sched.c:417-418`): a division by zero in the kernel. `AssertionsHold` of `h2_sched` excepts it (`div`).
13. `HttpPipelineGone.cfg`, `InterimKept`: `BUG_ON(!req->resp)` of `http.c:4822` and 4949. The body of a request is malformed while
   its interim response waits in `seq_queue` or is being sent by another CPU; `tfw_http_cli_error_resp_and_log()` frees that
   response (`http.c:5796`) without a lock, and the CPU that answers the request before it finds it ready and without a response.
   `OtherAssertionsHold` excepts this one request.
14. `H2ConnEarly.cfg`, `NotEarly`: `tfw_h2_apply_new_settings()` applies the latest SETTINGS with the first ACK that is put into the
   socket (`http2.c:191-213`, `http_frame.c:235-236`). With SETTINGS_INITIAL_WINDOW_SIZE 0 and then 4 in flight the server sends by 4
   when the client, which has the ACK for 0 only, counts by 0: DATA exceeds the window. It ends with the next ACK;
   `WindowsKept` excepts that time.

`AssertionsHold` of `fwd_queue` states the assertions of the forwarding code, but for
the one of 8 after a finished upgrade and the next one below.

Further divergences, met while modelling, without a configuration of their own:

- `TreatNipAssertion` (`FwdQueue`): `BUG_ON(list_empty(&req_sent->nip_list))` of
  `http.c:2370` for the request sent last on a connection that is on hold.
  `TFW_CONN_B_UNSCHED` puts a connection on hold as well; it is set at `http.c:2167`
  before the upgrade request is sent, and if that send fails the request sent last is
  an idempotent one. `sock_srv.c:692-697` repairs the connection before the flag is
  cleared. The instance of `FwdQueueSteal.cfg` shows it.
- `UnschedMeansUpgrade` (`FwdQueue`): `http.c:2162` says of the flag "If upgrade will
  fail, we clear it." It stays after a send that returns `-EBUSY` and after a complete
  response other than 101 (`http.c:7826-7835`); any instance with an upgrade request.
- `RetryLimit` (`FwdQueue`): `etc/vet_waf.conf:203` speaks of a limit of 5 retries. A
  re-send that stops on `-EBUSY` (`http.c:2436-2439`) leaves requests to
  `tfw_http_conn_fwd_unsent()`, which sends them again without counting; three
  idempotent requests and one connection.
- `InterimInOrder` (`HttpPipeline`): an interim response is sent at once if `seq_queue`
  is empty (`http.c:6516`), though earlier responses may still be in the `ret_queue` of
  another CPU (`http.c:6493-6496` says it waits); two requests, `Expect = {2}`, ring 8.
- `NotQueuedTwice` (`HttpPipeline`): the `WARN_ONCE` of `http.c:5735` fires for a
  malformed body of a request whose interim response is queued; the same instance.
- `ResponsesInOrder` with overflow: the ticket that orders ring and backlog is local to a
  softirq run (`sock.c:319`). If the budget ends a run just before a close from the
  backlog, the next run takes later works of the ring first; four requests, `Expect = {}`,
  ring 2. The run `http_pipeline` therefore checks the property with a ring that holds all
  responses.
- A malformed response to a health monitor request is popped without forwarding the
  requests behind it, as `http.c:7099-7100` says "The server connection is about to be
  closed", but `http.c:7720-7723` returns `T_OK` and the connection goes on:
  `fwd_queue_two` with `HMonitor = {r1}` violates both liveness properties.
- HTTP/2: `tfw_h2_make_frames()` frees an exclusive stream that is closed without taking it
  off `closed_streams` (`http_frame.c:2505-2520`, against the comment at 2424-2427). A stream
  that is idle when SETTINGS_INITIAL_WINDOW_SIZE is applied keeps its old window
  (`http2.c:80`, against the comment before it); `WindowsKept` excepts such streams. A stream
  freed in the middle of its header block leaves the block cut and loses the frames postponed
  behind it (`http_stream.c:52-60`); `BlocksContiguous` and `AckOnItsWay` claim nothing for that connection from then on. A stream
  whose window is exactly what it wanted to send is marked as blocked too (`<=` at
  `http_frame.c:2216`, where the comment speaks of an exceeded window). DATA on a stream the
  state machine ignores still uses up the window of the connection (`http_frame.c:2112`).
- Access log: a block whose insert was stored and not answered is inserted again (`clickhouse_decorator.cc:93-98`, "We don't want
  to miss events"), into a table of the engine MergeTree, which keeps both: its events are there twice. `RowsOnceInOrder` allows this repetition and no
  other. A commit of exactly the room that is left fails and then restores
  `dropped_tmp`, which is not initialized if nothing was dropped before
  (`access_log.c:361-363`); `DropsReported` excepts it. The writer never looks at `is_ready`,
  which `tfw_logger.cc:116-118` assumes. `dev_file_mmap()` does not test `is_freeing`, so a
  worker that maps its buffer late marks it ready again and `tfw_mmap_buffer_free()` waits for
  ever; `FreeCompletes` excepts it. `dev_file_vm_close()` clears the flag of the current
  CPU's buffer only (`mmap_buffer.c:167`). `ensure_table_created()` returns the opposite of
  what its caller expects (`clickhouse_decorator.cc:47-55`). "we already read all their data"
  (`tfw_logger.cc:141`) is not so while the database is disconnected. `holders_cnt` is
  never lowered.
- Frang: kinds of events that share a slot clear each other's counters if their time frames
  differ (`frang_acc_history_init()` with a quantum of another length), also by default if `HZ` is not a
  multiple of `FRANG_FREQ`, because `HZ / FRANG_FREQ` is rounded (`vhost.c:2566`) and
  `jiffies * FRANG_FREQ / HZ` is not; `SameFrames` excludes it. A slot of control frames resets only the
  counter of the frame that comes first in a new quantum (`http_frame.c:62-65`), so the other
  kinds are blocked too early; `BlocksJustified` excepts control frames.
- HPACK: names are compared with `| 0x20` (`hpack.c:2344-2349`), which also identifies `^` and `~`; both
  may be in a name.
- TDB: `TDB_HTRIE_FOREACH_REC` (`htrie.c:1370`) puts a record while it holds the bucket's
  read lock. If that is the last reference, `tdb_htrie_put_rec()` waits for the write lock of
  the same bucket. Not in the model: a lookup there is one step.

## 6. Not modelled

Within the modelled parts: adjustment of messages and headers, sizes of data,
TCP itself (it is seen by what it does to a connection), the choice between
servers, memory failures other than the ones the code reports to its caller,
references of responses on server connections, the flag word of a connection as
bits that are read and written separately, several client connections at once; guards of
callers at shutdown (`ss_active_guard_*`, `ss_wait_newconn`, `ss_synchronize`); live
reconfiguration of server groups. HTTP/2: error responses that end the connection with
GOAWAY, responses before the end of a request, the windows of the receiving side,
padding, the counter `blocked_streams`, parity of stream identifiers. Access log: several daemons at
once, formatting. Clients: the amount of memory charged and its limit, several addresses in a bucket.
Frang: blocking by IP address, the limits on the content of requests,
`lib/sliding_window.h`. HPACK: the decoder of requests, the static table, Huffman coding, the balance
of the search tree, failures of memory in the middle of encoding.

Whole components: those with status `not_modelled` in `PROJECT.json`, with the
reason. Cryptography, X.509, the HTTP parser and the regular expression engine, by far
the largest part of the source, are computations on data without interleavings of their own;
HTTP tables, virtual hosts and configuration do not change while requests are handled;
utilities are input and output.

## 7. Plan

Done: `WorkQueue`, `FifoQueue`, `SsTx`, `FwdQueue`, `HttpPipeline`, `H2Conn`, `H2Sched`, `AccessLog`,
`Client`, `Frang`, `HpackEnc`, and the proofs of `WorkQueue`, `SsTx`, `FwdQueue`, `HttpPipeline`, `H2Conn`, `AccessLog` and
`Client`.

Further state machines, in this order: guards of callers at shutdown; sessions with a pinned
server; references of server connections with live reconfiguration; the
sliding window; health monitoring; key rotation of tickets; the cache.
