# TLA+ verification of the DPDK network stack

The repository is a user-space TCP/IP stack in Rust: `dpdk-net` puts smoltcp on
top of DPDK queues and gives it an async socket API; `dpdk-net-test` has the
servers and the harness that use it. This directory specifies the parts of it
whose correctness depends on interleavings, limits and failures, checks them
with TLC on small instances, and proves the central invariants with TLAPS for
every size.

## 1. The system

### Parts, state and operations

| part | source | state | operations |
|---|---|---|---|
| shared ARP cache | `dpdk-net/src/device/arp_cache.rs` | a map behind `ArcSwap`, a version counter | `insert` (queue 0 only), `version`, `snapshot` |
| device | `device/dpdk_device.rs`, `api/rte/queue.rs` | `rx_batch`, `tx_batch`, `last_cache_version`; rings and mempool in DPDK | `receive` (`poll_rx`, `inject_from_shared_cache`), `transmit`, the TX token, `flush_tx`, `inject_rx_packet` |
| reactor | `runtime/reactor.rs` | `SocketSet`, `orphaned_closing`, the cancel flag | `run_with`: ingress batch, egress, cleanup, yield |
| TCP sockets | `socket/tcp.rs` | listener pool, stream handles, the futures' wakers and offsets | bind, accept, connect, wait_connected, send, recv, close, abort, drop |
| tokio adapter | `runtime/tokio_compat.rs` | none of its own | poll_read, poll_write, poll_flush, poll_shutdown |
| UDP sockets | `socket/udp.rs` | packet buffers | bind, send_to, recv_from, close, drop |
| mbufs, mempool | `api/rte/mbuf.rs`, `pktmbuf.rs` | offsets and lengths, pool | alloc, append, trim, drop |
| EAL, ports | `api/rte/eal.rs`, `eth.rs`, `thread.rs` | `EAL_INITIALIZED`, port configuration | init, cleanup, configure, start, stop |
| server runner | `dpdk-net-test/src/app/dpdk_server_runner.rs` | one thread and reactor per queue, cancel flags | start, bridge cancellation, join, clean up |
| servers | `app/echo_server.rs`, `http_server.rs`, `custom_http.rs`, `kimojio_server.rs` | accept loops, per-connection tasks, HTTP parsers | accept, serve, close |
| harness | `udp.rs`, `dpdk_test.rs`, `eth_dev_config.rs`, `manual/` | raw UDP batches, test context | send, flush, receive |

How they interact: every queue has one OS thread that runs one reactor and the
tasks of its connections on a single-threaded executor. Inside a thread the
tasks and the reactor share the `SocketSet` through an `Rc<RefCell>` and wake
each other through smoltcp's two wakers per socket. Between threads only the
ARP cache, the mempool and the cancel flag are shared. One main thread sets up
the EAL, the pool and the port, starts the workers, joins them and takes the port
down again.

### What is hard

* **Threads**: `insert` stores the map and bumps the version in two steps, a
  consumer loads the version and the map in two steps, in any interleaving.
* **Limits**: full `rx_batch`, full `tx_batch` with a full TX ring, exhausted
  mempool, a listener pool whose slots die.
* **Partial success**: a ring that takes part of a burst, an injection that
  fails half way, a send that only partly fits.
* **Ordering**: reset before removal, egress before cleanup, LIFO `rx_batch`.
* **Wake-ups**: each future checks and registers; smoltcp *takes* a waker when
  it wakes it.
* **Fragmentation**: an HTTP request arrives in pieces of any size, and the end of
  one may be read together with the start of the next.
* **Teardown**: EAL, port, pool and workers end in an order fixed by joins, by
  `Drop` and by the last clone of an `Arc`, also when a step of the set-up fails.
* **Shutdown**: Ctrl-C meets accept loops, open connections and set-up steps.
* **Ownership**: socket handles are reused indices, mbufs are freed by `Drop`
  unless DPDK has taken them.

`PROJECT.json` lists the hazards at their source lines.

### What makes each part correct

* ARP cache: a consumer that skips (version unchanged) misses nothing
  published; all consumers catch up.
* Device: every mbuf in one place, frames handed over once, sent in order,
  failed injections retried until they succeed, neighbor entries current (which
  the code does not always achieve).
* Sockets and reactor: one owner per socket, orphans always on their way out and
  removed by the cleanup alone, resets sent before removal (which the code does not
  always achieve), no lost wake-up, close() ends.
* Payload: every byte through once and in order; a flush means delivered.
* HTTP connections: the handler gets exactly the requests that were sent, each
  with its own body; a complete request is answered without waiting for more.
* Runner: nothing a worker polls disappears under it; every flow has a worker; a
  shutdown ends.
* UDP: no mbuf is lost by a call that fails half-way; mbufs do not outlive their pool
  (the raw socket's may); datagrams leave once and in order; a waiting future is
  served.
* Manual echo: what comes back is what was sent, and the server is ready again.

## 2. Modules

| module | models | state and actions |
|---|---|---|
| `SharedArpCache` | `SharedArpCache` and its clients' protocol | variables are the fields and the locals of `inject_from_shared_cache`; one action per access to shared memory: `InsertRefresh`, `InsertStore`, `InsertBump`, `LoadVersion`, `LoadSnapshot`, `PushEntry`, `PushFails`, `InjectionDone` |
| `DpdkDevice` | the devices of a port | `receive` split at its shared accesses (`PollRx`, `InsertEntry`, `BumpVersion`, `LoadVersion` ... `PopFrame`), `Transmit` (token and its use), `inject_rx_packet`; the NIC (`WireArp`, `WireData`, `NicTransmit`) and smoltcp's neighbor cache are the environment; `to_insert` is the set of positions in `rx_batch` whose ARP reply the scan has yet to insert. It implements `SharedArpCache` (`ImplementsSharedArpCache`) |
| `TcpSockets` | `reactor.rs`, `tcp.rs` without payload | `phase` is the position of the thread in `run_with`; one action per phase and per socket operation or future poll; smoltcp's state machine (`Segments`) is the environment |
| `StreamIo` | payload of one connection | `PollRecv`, `PollSend`, `close` of the echo task; `poll_read`, `poll_write`, `poll_flush`, `poll_shutdown` of a tokio task; the peer is the environment |
| `HttpConnection` | `HttpParser` of `custom_http.rs`, `KimojioHttpParser` and both `handle_connection` | the stream is a sequence of tokens, the buffer what the parser has of it; one action per read (`read_more`, `read_fixed_body`, `read_exact`, `ReadLine`, `ChunkRead`) and per step between reads (`Handle`, `Respond`); every read brings any non-empty part of what was sent; the client pipelines or waits, closes or resets |
| `ServerRunner` | `dpdk_server_runner.rs`, `tokio_server.rs`, the thread-per-core server of `kimojio_server.rs`, the accept loops, `Eal`, `EthDev`, thread registration | `main` is the position of the main thread (EAL, `CreatePool`, `Configure`, `SetupQueue`, `Start`, `ConfigureReta`, `InstallHandler`, `Spawn`, `ServeQueue0`, `Join`, `Cleanup`), `work[q]` that of each worker (`Register`, `Bind` or `Listen`, accept loop, `StopReactor`, `DropLocalSet`, `Unregister`); steps that return `Result` may fail, also `Stop`, `Close` and the EAL's cleanup, whose errors the code ignores; a panic unwinds (`Unwind`, `Die`); other threads may call `Eal::init` at any time, and it may panic after it has set the flag |
| `ManualEcho` | `manual/tcp_echo.rs`, `manual/echo_server.rs` | `phase` is the place in the loop (`EndPoll`, `ServerProcess`, `ClientProcess`, `EchoLoop` or `CloseLoop`), with both timeouts; `alone` says that the server runs in the loop of `run_echo_server`, which Ctrl-C ends; the two smoltcp sockets and the segments between them are the environment |
| `UdpSockets` | `dpdk-net-test/src/udp.rs` and `socket/udp.rs` | a raw socket (`attach_queues`, `send_to`, `flush` and `FlushLoop`, `poll`, `recv_from`, drop, with `pool` telling whether its mempool exists; once it is freed with mbufs out, the raw side goes no further) and an async socket that echoes (`PollRecv`, `PollSend`, `close`, `DropSocket`), joined by the NIC and a network that may lose datagrams |
| `MC...` | constants for TLC | |
| `SharedArpCacheProofs`, `DpdkDeviceProofs`, `TcpSocketsProofs`, `StreamIoProofs`, `UdpSocketsProofs`, `ServerRunnerProofs`, `ManualEchoProofs`, `HttpConnectionProofs` | theorems about the module of the same name | |

Definitions keep the names of the code where they model one function. Each
module has a section of plausible mistakes: an operator that replaces the
definition named in its comment, to see that a property notices.

Abstractions: a frame is an ARP pair or a numbered data frame; an mbuf is
counted; a segment is its effect on the state machine; payload bytes are
numbered. Atomics are sequentially consistent, which the x86-64 target gives
for this access pattern. smoltcp (0.12), ArcSwap, tokio, the NIC and the peer
are modelled from how the code uses them and marked external in the map.
Simultaneous open is left out of smoltcp's state machine. In `ManualEcho` the
network moves only while the client's loop is in its poll, which is where smoltcp
looks at the device. In `HttpConnection` a head is a run of tokens with its
attributes, because what `httparse` accepts is not in question; two things the
code does are visible in the attributes: chunked wins over Content-Length, and a
trailer leaves an empty line that is read as part of the next head. Not in the
request shapes: a Content-Length that is no number (the code takes it for no
body), several trailer lines (only one line is read after the last chunk, and the
rest would be parsed as the next request) and repeated headers (the last wins).

## 3. Runs

| run | checks | shows |
|---|---|---|
| `arp_cache` | `FastPathIsSafe VersionMovesOnSuccess ConsumersConverge` | the two-step publication and the two-step read are safe in every interleaving, and consumers converge once the producer pauses |
| `device_arp` | `ImplementsSharedArpCache FramesDelivered RetryCompletes RefreshHealsExpiry` | batches, mempool and failures keep the cache's promise; with one shared entry everything is eventually delivered and learned |
| `device_tx` | `MbufsConserved TxInOrder ReceivedExactlyOnce TransmitTokenSafe` | partial bursts, exhausted mempool and full rings lose, leak or reorder nothing except answers for which there is no mbuf |
| `tcp_safety` | `OwnedOnce OrphansAreClosing NoLostWakeup OrphansLeftToCleanup` | socket ownership, orphans and wake-ups under congestion and cancellation |
| `tcp_closing` | `OrphansRemoved CloseReturns WaitConnectedReturns` | what an uncongested device and an answering peer guarantee |
| `stream_io` | `EchoInOrder NoLostWakeup FlushMeansDelivered AllEchoed TaskEnds` | payload, wake-ups and completion of both kinds of task, with resets |
| `http` | `RequestsExact NothingLost BadRequestJustified EveryRequestAnswered` | both parsers over every fragmentation of pairs of requests (fixed, chunked, with trailer, too long, malformed, keep-alive or not): nothing is mixed up, lost or waited for in vain |
| `runner` | `ResourcesOutliveWorkers PoolFreedLast EalGuarded FlowsHaveWorkers ShutdownCompletes` | set-up, service and teardown of the four kinds of server with failures at every step: workers never poll what is gone, the pool is freed under no worker and before the EAL goes, one EAL at a time, a shutdown ends |
| `manual_echo` | `EchoExact EchoCompletes ServerListensAgain` | two rounds over buffers smaller than the message, with both loops and both timeouts |
| `udp` | `RawMbufsConserved DatagramsExact FlushReturns WaitersServed` | raw and async UDP sockets at their limits, attached again, closed and dropped at any time; mbufs are accounted for until their pool is freed |

Runs that show a disagreement between the code and what it says of itself:

| run | property | what happens |
|---|---|---|
| `device_tx_panic` | `TokensHaveSpace` | `receive` hands out a TX token without the space check; the `expect` in `consume` fires |
| `tcp_listener_ready` | `ListenerReady` | slots that die before `accept` are never replaced |

Five more claims of comments and docs are stated in the modules and refuted by TLC in
seconds. They are kept with their configurations, to be run by hand, and with the
hazards they belong to:

| claim | configuration, module | what happens |
|---|---|---|
| `NeighborsFresh` | `DeviceArpStale.cfg`, `MCDpdkDevice` | with two shared entries, an entry injected again (`dpdk_device.rs:182`: "harmless") lies under the newer reply in `rx_batch`, is popped after it, and the stale MAC wins |
| `OrphanResetsSent` | `TcpReset.cfg`, `MCTcpSockets` | a full device cuts the egress short, and the cleanup after it removes the orphan with its RST unsent (`tcp.rs:163-165`) |
| `AbortResetsSent` | `TcpAbort.cfg`, `MCTcpSockets` | `abort()` makes the socket Closed, and the drop of the stream removes it before any RST (`tcp.rs:139`) |
| `DroppedMbufsHavePool` | `UdpPool.cfg`, `UdpSockets` | the raw socket's `mempool` is dropped before its `rx_batch`, whose mbufs are freed into a pool that is gone (`mbuf.rs:14-15`) |
| `PendingBounded` | `ManualPending.cfg`, `ManualEcho` | `max_pending_tx_bytes` bounds the socket's buffers and not `pending_tx` (`echo_server.rs:25`) |

What the passing runs leave out, because the code does not do it:

* `RetryCompletes` with more entries than `rx_batch` has room for after a burst:
  every retry fails on top of the undelivered frames.
* `WaitConnectedReturns` excepts CloseWait: a FIN before the first poll leaves
  `wait_connected` pending.
* `TaskEnds` excepts a tokio task whose connection is reset: when it waits in a
  flush it never ends, since `poll_flush` looks only at `send_queue()`, which the
  reset leaves as it is.
* `http` lets only a client that waits talk to the kimojio server: its `reset()`
  discards what was read of a pipelined request (`Modes = {<<"kimojio", TRUE>>}`
  violates `NothingLost`).
* `ShutdownCompletes` excepts a kimojio core in `accept`, which looks at the flag
  only after its next connection, and starts from a signal that was heard: the
  multi-threaded tokio server makes a new `ctrl_c()` future per turn of its loop
  and misses a signal between two of them.
* `PoolFreedLast` says nothing of the port: `cleanup` drops the errors of `stop` and
  `close`, and a port that could not be stopped goes on receiving into a pool that
  is freed.
* `RawMbufsConserved` ends when the raw socket's pool is freed. A second
  `attach_queues` frees it under the mbufs of the first; the model then stops.
* `ResourcesOutliveWorkers` excepts a panic of `run` itself, which unwinds into the
  EAL guard while spawned workers still poll. A panic of a worker is swallowed by
  `join`: its queue keeps its share of the RSS table.
* `ServerListensAgain` and `EchoCompletes` except a round that timed out.
* `WaitersServed` excepts an unreachable datagram at the head of the send buffer,
  behind which every other one waits, and a datagram larger than the whole payload
  buffer, which `send` refuses as if the buffer were full for the moment.
* `FlushReturns` assumes a NIC that drains its ring; the loop itself has no limit.
* `FlowsHaveWorkers` is about queues that were configured: `run` raises the number
  of queues to the number of CPUs without looking at `max_rx_queues`, and panics
  at `configure` when the device has fewer.

### Bounds

* `arp_cache`: 2 addresses, 2 MACs, 2 consumers, 3 inserts: a consumer can be
  overtaken twice while it holds a snapshot with an entry missing or outdated.
* `device_arp`: one address whose MAC changes, 3 ARP replies, `rx_batch` of 2
  with a burst of 2, so that an injection meets a full batch; a pool of 4, so
  that it also meets an empty pool; one expiry.
* `device_tx`: batches of 2, bursts and TX rings of 1, 5 mbufs, 4 sends per
  queue: every flush is partial and the batch fills up.
* `tcp_safety`: 3 sockets, a pool of 2, symmetric handles: a stream, an orphan
  and a reused handle exist together. `tcp_closing` and the disagreement runs
  use 2 or 3 sockets without symmetry, since they check temporal properties.
* `DeviceArpStale.cfg`: two addresses, one of whose MACs changes, and batches large
  enough for two injections, the least that the overwriting needs.
* `stream_io`: buffers of 4, 2 and 3 bytes and 6 bytes of payload: reads and
  sends are partial, and buffers wrap more than once.
* `http`: 2 requests out of 11 shapes (with bodies of one to three bytes, in one or two
  chunks); a buffer that starts with 4 tokens and may
  grow once to 8, with heads of 2, 3, 8 and 9 tokens, so that a head fits exactly,
  is one too long, and meets the rest of the request before it.
* `runner`: 9 machines: one queue; scaled up to 3 CPUs; limited by the user; more
  queues than the device has; none; no RSS; tokio, multi-threaded tokio, kimojio;
  one connection per worker and a second caller of `Eal::init`. The tables have 3
  to 5 entries for up to 3 queues, so that round robin wraps unevenly.
* `manual_echo`: a message of 11 bytes over buffers of 2: all buffers together hold
  less, so that the echo depends on `pending_tx`; 2 rounds, so that the second
  meets what the first left.
* `udp`: 4 datagrams and 2 stray frames, 3 mbufs, batches of 2, rings of 1,
  packet buffers of 2: every batch, ring and buffer fills up, and the pool
  runs empty; one datagram is truncated, one unroutable, one larger than the
  payload buffer. A send may also find the packet buffer not full but the payload
  buffer without contiguous room. `UdpPool.cfg` needs one frame in `rx_batch`.

The constants `MaxVersion`, `MaxFrames`, `MaxFabricated`, `MaxSends`,
`MaxExpiries`, `MaxBytes`, `MaxRequests`, `MaxConns`, `NumRounds`, `MaxStrays` and the set `Handles` bound what is unbounded in the
code. Deadlock is checked except where the system may really stop: after a
panic, after cancellation, after the last bounded event.

### Fairness

* Consumers and devices: weak fairness of `receive`, since `run_with` polls
  ingress in every iteration. The link may stay down: `NicTransmit` has none.
* Reactor: weak fairness of each phase; the loop has no way to stop but the
  cancel flag, and `yield_now` returns because the executor's queue is FIFO.
* Futures: a woken task is polled. Strong fairness in `TcpSockets`, because
  polls are possible only while the thread is in its task phase, which recurs.
* HTTP: weak fairness of the server task, which the executor polls when its read
  or write is ready. The client need do nothing.
* Runner: weak fairness of the main thread, of its EAL guard and of each worker up
  to its next wait: threads are scheduled, and a worker's accept loop looks at
  the cancel flag or is woken by it. Connections need never end.
* Manual echo: both loops run on; strong fairness of the segments, since smoltcp
  sends again what is not acknowledged. No timeout need fire.
* UDP: `flush` spins on, the NIC drains its ring, the reactor polls egress, a woken
  task is polled.
* Peer: `CloseReturns`, `OrphansRemoved`, `AllEchoed` and `TaskEnds` need a peer
  that answers. The code sets no TCP timeout, so nothing holds without one.

## 4. Proofs

Checked by `tlapm`, for all values of the constants that the named assumptions
allow: `ConstantsAssumption`, `DeviceAssumption` (queue 0 exists, finitely many
queues, batches, rings and pool of any size but zero), `SocketsAssumption`,
`StreamAssumption`, `UdpAssumption`, `EchoAssumption`, `RunnerAssumption` (the
shape of a configuration; the EAL theorem needs none), `BufAssumption` and
`ShapesAssumption` (a first buffer that is not empty; a head has at least a first
and a last line and a chunk is not empty). TLC evaluates them in the runs. One
hypothesis is stated with the theorems that need it (`NoPipelining`) and explained
below; without it the properties are false.

| theorem | property |
|---|---|
| `SharedArpCacheProofs`: `TypeCorrect`, `Invariance`, `FastPathSafe`, `VersionMovesOnlyOnSuccess` | `FastPathIsSafe`, `VersionMovesOnSuccess` |
| `DpdkDeviceProofs`: `DeviceTypes`, `TransmitTokensNeverPanic` | `TransmitTokenSafe` |
| `FramesKeepOrder`, `MbufsAreConserved`, `FramesReceivedExactlyOnce` | `TxInOrder`, `MbufsConserved`, `ReceivedExactlyOnce` |
| `DevicesImplementCache`, `DevicesTakeTheFastPathSafely` | `ImplementsSharedArpCache`, `Cache!FastPathIsSafe` |
| `TcpSocketsProofs`: `TypeCorrect`, `Invariance`, `Ownership`, `OrphansClose`, `WakeupsKept`, `OrphansAwaitCleanup` | `OwnedOnce`, `OrphansAreClosing`, `NoLostWakeup`, `OrphansLeftToCleanup` |
| `StreamIoProofs`: `StreamKeepsOrder`, `StreamNeverSleepsThroughAnEvent`, `FlushDelivers` | `EchoInOrder`, `NoLostWakeup`, `FlushMeansDelivered` |
| `UdpSocketsProofs`: `RawSocketConservesMbufs`, `DatagramsArriveOnce` | `RawMbufsConserved`, `DatagramsExact` |
| `ServerRunnerProofs`: `EalIsGuarded`, `DevicesKeepTheirResources`, `PoolOutlivesItsUsers`, `FlowsAreServed` | `EalGuarded`, `ResourcesOutliveWorkers`, `PoolFreedLast`, `FlowsHaveWorkers` |
| `ManualEchoProofs`: `EchoIsExact` | `EchoExact` |
| `HttpConnectionProofs`: `HandlerGetsExactRequests`, `NoRequestIsLost`, `BadRequestsAreBad` | `RequestsExact`, `NothingLost`, `BadRequestJustified` (kimojio without pipelining) |

Hardly any of the properties is inductive as it stands. What had to be added, and
why:

**Shared ARP cache.** Between the loads of a consumer the map may change. `IInv`
adds that no remembered or loaded version is ahead of the counter, and that while
a consumer runs its loop every entry of the snapshot was pushed or is still to be
pushed, so that either the snapshot is the published map or the version has moved
on.

**Devices.** The proof rests on one decomposition: every step of `Next` works on
one queue, on which it has one of five effects on the receive side (`RxEffect`:
nothing, a frame appears on the ring, a frame is injected, a burst moves to the
batch, a frame is popped) and one of three on the transmit side (`TxEffect`:
nothing, a frame leaves, a frame is emitted and some of the batch moves to the
ring), and what it takes from the pool is what the queue now holds more
(`StepEffect`). Each theorem then looks at effects instead of the actions.

* `DeviceInv`: types, capacities, and what each thread holds at each place in
  `receive`. That `transmit`'s token finds room needs the capacities of batch and
  ring, since the flush before it moves what fits.
* `Numbered` (for `TxInOrder`): wire, ring and batch hold the consecutive numbers of
  all tokens given so far. Order alone would not survive a partial burst.
* `MbufsConserved` sums over the queues with `MapThenSumSet`, whose definition is
  a `CHOOSE` of a recursive function. That the function exists, that it satisfies
  its equation for every finite set, and that the sum follows a change at one
  queue (`SumExists`, `SumEquation`, `SumChanges`) are shown by least
  counterexample over the size of the subset: the library's induction theorems
  take an operator as parameter, which the provers cannot instantiate, but `LeastNat`,
  which takes a set, serves the same purpose.
* `Received` (for `ReceivedExactlyOnce`): each number up to `arrived` is in exactly
  one of ring, batch and delivered frames, once. The property's sets and its
  count follow (`ExactSets`).
* `Replies` (for the refinement): the version and the ARP replies still to be
  learned never exceed `MaxVersion`. The abstract `insert` has this bound in its
  guard and the device has it where the frame arrives, so without `Replies` the
  scan's insertion could not be mapped to an abstract step. With it every step is
  `InsertRefresh`, `InsertStore`, `InsertBump`, `LoadVersion`, `LoadSnapshot`,
  `PushEntry`, `PushFails` or `InjectionDone` of the cache, or a stutter
  (`StepRefines`); most steps leave the mapped variables alone (`StepTouchesCache`).
* `Published` (for `DevicesTakeTheFastPathSafely`): the cache's own invariant, read
  through the mapping, so that the promise holds of the devices themselves and for
  any number of addresses.

**Sockets.** The invariant is the conjunction of the properties and
`WakersRegistered`: a sleeping task is registered with every socket it waits
for. Ownership gives that a socket changes state only by a segment, a timer or
its owner; a state change takes and wakes the wakers (`SetStateWakes`); a
removal concerns sockets nobody waits for (`RemoveStep`); a poll that registers
has just seen that its event has not happened (`PolledStream`).
`OrphansAwaitCleanup` follows from ownership (no stream and no slot of the listener
has an orphan's handle, so neither removes or reuses it) and holds with a device
that may be full; that the RST has left by then does not (section 3).

**Stream.** `StreamInv` is the three properties, the types and `TaskInv` (what the
task holds in its buffer at each place in its loop). `EchoInOrder` says that
what came back, the send buffer, the rest of the task's slice and the receive buffer
together are what the peer has sent; every transfer moves a prefix of one part to
the end of the one before it.

**UDP.** `RawInv` adds the types and `held`, and each call is a transfer between
two places of the ledger (`Ledger`); a second `attach_queues` starts a new ledger or
ends the old one (`AttachKeepsRawInv`). Nothing is claimed of mbufs that are out when
the pool is freed. `DatagramInv` has four parts: the datagrams on
their way in are ascending along the whole path (`Flow`), what was answered is a
beginning of what was received (`Accepted`), what left and what waits is what was
answered (`Sent`), and an echo on its way back is in one place and was sent
(`Echoes`).

**Manual echo.** `EchoInv` gives each buffer on the path (of the client's socket, of
the server's, `pending_tx`) the position in the message where its bytes start.
`Returned` speaks of what has come back to the client, whatever the server does now;
`Underway` of the rest, while the server's socket is that of the client's own
connection. `Fresh` says that a socket takes up its next connection with nothing left
from the last, in its buffers or in `pending_tx`.

**Runner.** For the EAL: whoever is inside has set the flag, it stays set until the
end of its cleanup, and an EAL that is up belongs to a caller that still holds it
(`EalInv`). For the rest `RunInv` relates the place of `main`, the state of the port
and of the pool, the clones of the pool that are left and the places of the
workers, for every configuration: `Ownership` (who holds EAL and pool), `Port` (the
port's state from the set-up to the end of the service), `Workers` (which
queues have a worker and what it holds).

**HTTP.** The three theorems hold for requests of every shape the model describes,
any number of them, buffers of every size and every way of cutting the stream into
reads. `HttpInv` contains the three properties and says where the parser stands:

* `Sending`: what was sent is a beginning of the wire, and a client that waits has
  sent nothing behind the first request without an answer;
* `Turns`: requests are handled and answered one by one, in the order of the wire;
* `Buffered`: what the buffer holds, and before it the line `read_line` has
  collected, are the tokens read last (`At` and `LineAt` are where they begin);
* `Placed`: at each place of the parser that beginning is a known place of the
  request: the end of the request before it or the empty line its trailer left
  (`AtHead`), a chunk's size line (`AtSize`), its data (`AtChunk`), the line end
  behind it (`AtCrlf`), the line behind the last chunk (`AtLast`), the end of the
  body (`AtBody`); and the body read so far is the body's beginning up to there.

What a step does to the buffer is then read off the wire. `Wire` flattens the
tokens of all requests and `Payload` those of all chunks with `FlattenSeq`, a
recursive function under a `CHOOSE`: that it exists, its equation and the offsets
of the parts (`FlatExists`, `FlatEquation`, `FlattenFacts`) are shown by least
counterexample, as for the sum over the queues. From them follow the layout of the
wire (`WireFacts`, `HeadLayout`, `ChunkLayout`, `LastLayout`), what `parse` returns
on a buffer that begins at a head (`ParseFacts`, `HeadBuffer`), that every line
ends within its request (`LineWithin`), and one lemma per action. The 400 needs
most: that the buffer is full without a head in it means the head does not fit
(`HeadTooLarge`), and the call of `read_more` from `read_line` never meets
a full buffer, since the buffer was moved to the line.

The theorems assume `NoPipelining`: `KimojioHttpParser::reset` discards what the
buffer holds of the next request (section 3). For the parser of `custom_http.rs`
the client may pipeline or wait.

Only model-checked: liveness, in every module. Fairness and ENABLED are outside the
prover's reach.

## 5. Not modelled, and the plan

1. `Mbuf`: offsets and lengths under append, prepend, trim and copy. The raw UDP
   socket calls the unchecked `extend`, so a payload larger than the mbuf's room
   would move its length past the buffer; the models have datagrams without sizes.
2. `DpdkTestContext`: it stops the port when dropped, while the device returned
   beside it owns the mempool; which goes first is the caller's choice of bindings.
3. The budget of the executor: `accept` on a listener without live slots fails at
   once and the server loops call it again immediately; whether others still run
   is decided by tokio.

Left out for good: generated bindings, error conversion, the argument builder of
the EAL and its deprecated free functions, port statistics and queries, NIC
discovery through sysfs, the one-shot test of `manual/tcp.rs`, the benchmark
clients, archived crates, and infrastructure scripts: they
keep no state that a property of the stack is about.
