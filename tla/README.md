# A TLA+ model of the NetBSD/DPDK service and its application library

The repository runs the NetBSD TCP/IP stack in user space on top of DPDK. One
*service* process owns the stack and the network interfaces; *applications* are
separate processes that use sockets through a library (`service/app_api`).
Service and applications share memory and never lock it: they exchange
pointers over DPDK rings, set atomic flags and send each other SIGUSR1. The
parts of this port that are hard to test are the protocols over those rings
and flags, and that is what the modules here are about.

All paths below are relative to `src/`.

## 1. The system

### Parts

| Part | Code | State | Operations |
|---|---|---|---|
| Connection slots and commands | `service/service_common.h`, `service_server_side.h`, `service_loop.c` (`process_commands`), `app_api/api.c` | `free_connections_ring`, `free_command_pool`, `command_ring`, `socket_satelite_data[]`, `local_socket_descriptors[]` | open, bind, connect, listen, accept, close, set_socket_select, setsockopt, shutdown, `sig_handler`; the commands OPEN, SET_RING, LISTEN, SET_SELECT, CLOSE, DECLINE, ... |
| Transmit path | `api.c` (`service_send*`, `service_socket_kick`), `service_loop.c` (`service_on_transmission_opportunity`) | tx rings, `write_done_from_app` | send, kick, TX_KICK, drain |
| Receive path and selector | `ring_ops.h` (`service_dequeue_rx_buf`), `service_loop.c` (`user_data_available_cbk`), `service_server_side.h` (`service_mark_*`), `api.c` (`service_select`) | rx rings, local caches, `read_ready_to_app`, `write_ready_to_app`, `ready_connections` | data arrives, submit, mark, select, receive, RX_KICK |
| Partial reads | `api.c` (`service_receive`, `service_try_read_exact_amount`, `service_get_from_shadow`, `service_release_rx_buffer`) | `shadow`, `shadow_next`, two lengths | receive with and without a limit, release |
| Send-buffer accounting | `service_loop.c` (`service_reflect_tx_socket_buf`), `netbsd/porting/kern/uipc_socket2.c`, `api.c` (`service_get_socket_tx_space`) | `tx_space` | set, add, read |
| Glue queues and waiters | `glue/app_glue.c`, `service_main_loop` | read, write, accept and closed lists, their presence flags and length counters; the buffers-available waiters | enqueue on upcall, drain, close, notify |
| Accept queues | `uipc_socket2.c` (`sonewconn`, `soisconnected`), `app_glue.c` (`user_on_accept`) | `so_q0`, `so_q` | new connection, established, accept |
| Clients registry | `api.c` (`create_client`), `service_loop.c` | `is_busy`, list of clients | connect, disconnect |
| Softints and callouts | `netbsd/porting/kern/kern_softint.c`, `callout/callout.c` | pending lists | schedule, run, stop |
| Periodic work, devices | `netbsd/porting/rte_wrappers/rte_wrappers.c`, `glue/device.c` | poll intervals, a synthetic tick count | poll, transmit, tick |
| Memory shims, logging | `netbsd/porting/{kmem,pool,mbuf}`, `log/` | - | delegation |
| DPDK rings | `dpdk-2.0.0/lib/librte_ring/rte_ring.h` | head and tail of producers and consumers, the table | enqueue, dequeue, bulk and burst |
| TCP/IP stack, rest of DPDK | rest of `netbsd/`, `dpdk-2.0.0/` | - | vendored |

### How they interact

An application takes a slot off `free_connections_ring` itself and tells the
service about it in a command. The service creates the kernel socket, and from
then on the slot's tx ring, rx ring and flags in shared memory carry the data.
Each direction has one flag that suppresses redundant notifications: whoever
produces tests and sets it and notifies only when it was clear; whoever
consumes clears it and *then* looks at the ring. CLOSE makes the service put
the slot back.

### What is hard in it

- Nothing locks a slot; a slot given out twice would mix two connections.
- Every ring and pool can be full or empty at every step of a multi-step call,
  and most error returns leave what the earlier steps did.
- A notification is suppressed by a flag that the other side may be clearing at
  that moment; `rte_atomic16_set` is a plain store, so on x86 the clear and the
  following look at the ring can be seen in the wrong order.
- A process can be terminated inside a library call, and its handler then works
  with tables that still name what was closed before.
- A wakeup is a signal, and a signal that comes before the wait is lost.
- Lengths of partially read chains are kept in four fields that two functions
  maintain.
- The rings are lock-free only in name: an enqueue waits for those that claimed
  before it, and one of them may belong to a process that no longer exists.
- How much may be sent is a number in shared memory that several places in the
  stack add to, and that the library subtracts from for datagrams only.
- The service is one thread, but a socket is reached from commands, timers,
  segments and the lists of the glue, and may be gone for one while it is still
  listed for another. A closure is announced once.

`PROJECT.json` lists these hazards with their lines and the properties that
cover them.

## 2. Modules

| Module | Models |
|---|---|
| `SocketSlots` | slots, command buffers, the command ring, accepted connections, terminating signals |
| `SlotAllocator` | the abstract allocator `SocketSlots` implements |
| `SocketSlotsProofs` | proofs about `SocketSlots`: types, that a slot has one claim on it, who may use a slot, where events go, what is lost when |
| `SlotCountProofs` | that the free ring has room, command buffers are not freed twice, and `SocketSlots` implements `SlotAllocator` |
| `TxPath`, `TxPathProofs` | send, kick and drain of one stream socket; proofs |
| `RxPath`, `RxPathProofs` | receive buffer, rx ring, cache, selector, select and receive; proofs |
| `ShadowRead`, `ShadowReadProofs` | `service_receive` over chains of segments, and the release of what was read; proofs |
| `RteRing` | enqueue and dequeue of the DPDK ring, at every access to an index |
| `RingFifo` | the bounded queue `RteRing` implements; the form in which the other modules use rings |
| `RteRingProofs` | proofs about `RteRing`: safety, and that it implements `RingFifo` |
| `GlueSockets`, `GlueSocketsProofs` | sockets in the service: accept queues, lists of the glue, waiters, closing; proofs |
| `TxSpace`, `TxSpaceProofs` | `tx_space`, the sender that relies on it, writable events; proofs |
| `MCSocketSlots`, `MCTxPath`, `MCRxPath`, `MCShadowRead`, `MCRteRing`, `MCGlueSockets`, `MCTxSpace` | the instances TLC checks |

Definitions are named after the functions they model where one definition is
one function. A mutant of a definition (a form with a plausible bug, never used
by a specification) stands right before it.

Except in `RteRing`, DPDK is modelled by what the code relies on: a ring of
size *n* is a sequence of at most *n-1* entries (what `RteRing` is shown to
implement), a pool is a counter, `rte_atomic16_test_and_set` is
one step, `rte_atomic16_set` is a store that goes through a store buffer. The
rx and tx rings have a watermark of 1, so every successful enqueue returns a
nonzero code that is not `-ENOBUFS`; the callers' comparisons are modelled with
that in mind.

### SocketSlots

State: the free ring, the number of free command buffers, the command ring, the
accepted connections waiting on each listener's rx ring, the satellite table,
the kernel sockets (state and `glueing_block`), and for each process its local
descriptors, the descriptors its caller owns, the library call it is inside
of and what its signal handler has still to do.

`service_open_socket`, `service_accept` and `service_close` are split where
another process can step in: `OpenTake`/`OpenSend`;
`AcceptTake`/`AcceptDecline`/`AcceptSlot`/`AcceptSend`; `Close`/`CloseFlush`.
Getting a command buffer, filling it and enqueueing it is one step, because the
buffer is private until it is on the ring. A refused buffer or ring place is
its own disjunct of each action and has the effect of the code's early return:
open and accept forget the slot they took. RX_KICK is enqueued without a look
at the result, so a full ring costs the buffer (`RxKickDropped`); as there is
one buffer more than the ring has places, this happens at most once. The
commands that change neither the
slot nor the life of the socket are one kind, `control`. The service is single
threaded, so a case of `process_commands` with the final
`service_free_command_buf` is one action.

`Terminate`/`DyingClose`/`Die` are `sig_handler` on a terminating signal: it
abandons the call in progress, calls `service_close` for every descriptor the
process ever set, and sends DISCONNECT_CLIENT.

`starved` remembers that some buffer, place or socket was refused. It appears
in properties that the code guarantees only as long as nothing runs out.

### TxPath

One stream socket. The application sends (`Send`), then calls
`service_socket_kick`, whose test-and-set and command are two steps. The
service's loop in `service_on_transmission_opportunity` is `ClearDone`,
`CountRing`, `Dequeue`, `Finish`; it is entered by TX_KICK or by
`process_tx_ready_sockets`. The store of `ClearDone` becomes visible in
`StoreDrains`; `reordered` remembers that a count came before it. Other
processes put commands on the ring and hold buffers off it.

### RxPath

Sockets of one selector. `user_data_available_cbk` is `FreeCount`, then
`Receive`, `Submit`, `MarkReadable`, `PostEvent` for each buffer;
`service_dequeue_rx_buf` is `ClearReady`, `MoveBurst`, `SendRxKick`;
`service_select` is `SelectCheck`, `PselectBegins`, `PselectExpires`. The
caller's loop is that of the test clients (`tcp_listener_with_select.c`): for
each returned socket receive until it fails, then select again. A kill wakes
the application only inside `pselect`. `CmdRoom` stands for the command buffers
and ring places left for RX_KICK.

### ShadowRead

A byte is its position in the stream and a segment a position with a length,
so that losing, repeating or reordering bytes shows. `TryRead` is
`service_try_read_exact_amount`, including the lengths it leaves stale. The
`pkt_len` of a segment inside a chain is arbitrary. `NothingLost` compares
positions: the first chain on the ring starts where what was given and kept
ends, each one where the one before it ends, and the last ends with the last
byte that arrived.

A segment also names its buffer, and `live` is the set of buffers not in their
pool. A read that ends inside a segment gives the application a buffer that
stays the shadow; `Release` (`service_release_rx_buffer`) frees a chain up to
the segment that is the shadow. The application releases what it was given
before it reads again, as the clients do (`held`). A rest is announced to the
selector, but the result of that enqueue is ignored and a socket need not have
a selector: `Announce` allows both outcomes, and no property relies on it.

### RteRing

`EnqueueCall` (and `EnqueueAgain` after a failed compare-and-set) reads
`prod.head`, `EnqueueCheck` reads `cons.tail` and computes the room,
`EnqueueClaim` moves `prod.head`, `EnqueueCopy` writes the table,
`EnqueuePublish` waits for earlier operations and moves `prod.tail`; the five
`Dequeue` actions mirror them. `MultiProd` and `MultiCons` choose between the
`mp`/`sp` and `mc`/`sc` functions. Indices run modulo `Wrap`. `Kill` removes a
thread at any point. `base`, `log`, `at` and `pos` are history: positions that
do not wrap, and the objects in the order their entries were claimed.

`RingFifo` has two actions, put and get of several objects. An enqueue takes
effect when it publishes, a dequeue when it claims.

### GlueSockets

`net` is the state of the socket layer: control blocks, `so_state`, accept
queues, upcalls, the lists of the glue with presence flags and counters, the
pool of sockets. Functions of the source that change a socket (`SoFree`,
`SoClose`, `SoAbort`, `TcpClose`, `SockReadable`, ...) are functions from one
`net` to the next, and an action composes the calls of its handler, upcalls
included. `phase` goes round as `service_main_loop` does: one command, timers,
transmit pass, receive pass, segments (`softint_run`), waiters. The clock of
the passes advances by 100 us a round, and the interval of the transmit pass is
at most 69 us but on a 10 Mbit/s half-duplex link, where it is 138 us and a
round may go by without the pass (`SlowLink`). TCP is reduced to its states and to the calls into
the socket layer at each transition. `PeerOpens` is `syn_cache_get` when it
succeeds: its error paths, which abort the socket they just made, and a socket
left in SYN_RECEIVED are not modelled.

`ProcessShutdown` takes a socket in any state: shutting down the send side of a
listener closes its control block while connections are still queued on it.
OPEN with no socket left is `ProcessOpenNoCell`: `socreate` writes through the
NULL that `soget` returned. The pool is a ring, and `FirstFree` takes it to be
so long that a freed socket that is still on a list is not the next one handed
out; nothing in the code prevents that when the pool is nearly used up.

A closure is posted once. `told` are the sockets whose event got onto the
selector's ring, `refused` those for which it was full (`service_mark_closed`
is called for its effect only), `missed` those that had no slot with a selector
yet.

`ProcessRxReady` takes the closed list, then accepts, then serves the read
list. `user_on_accept` reads the control block of every connection it accepts,
and the waiters' loop reads the type of the socket of the head's slot; where
there is none, `halted` is set and the model stops, as the process does.

### TxSpace

One socket, stream or datagram. The sender is the loop of the client
`tcp_udp.c`: select, ask for the room, send that many, kick. Clearing
`write_ready_to_app`, enqueueing, counting and each command are steps of their
own. The service goes round command, writable list, network, waiters; `Mark`
and `PostEvent` are `service_mark_writable`, whose missing return value is a
choice in `WaiterMark`. `Reflect` is `service_reflect_tx_socket_buf`, called
for appended and for dropped bytes alike.

A slot is used again with the `write_ready_to_app` its last owner left, so
`Init` allows both values. For a stream SET_SELECT or SET_RING marks it writable
and posts an event if the flag was clear; for a datagram socket OPEN does
neither. (`write_done_from_app` is taken to be clear: a left-over value is the
same as a refused kick, which `TxPath` has.) On the list of those waiting for
buffers up to `MaxAhead` sockets may be in front of this one (`WaiterAhead`);
one that cannot be told ends the loop for all.

`excuse` remembers why an event may be missing: a kick was refused
(`unkicked`); a TX_POOL_EMPTY was refused, the event met a full ring, a datagram
failed, or nothing was posted for the new socket (`untold`); buffers were asked
for while the flag was still set (`unannounced`); a waiter in front could not be
told (`blocked`). An excuse ends with the next event, that of a refused kick
only once `write_done_from_app` is clear again.

## 3. Runs

| Run | Result | What it shows |
|---|---|---|
| `SlotsContended` | holds | Two processes, one circulating slot. `SlotExclusive`: no slot is claimed twice. `FreeNeverDropped`: the ignored result of `service_free_socket` never matters. `CommandsConserved`: no command buffer is freed twice. `CloseHitsOwnSocket`, `NoNullDeref`: commands meet the socket they were sent for. `EventsReachOwner`: only a lingering socket can signal a slot it no longer has. `AllocatorSpec`: refinement of `SlotAllocator`. `ClosedSlotsReturn`: a closed slot comes back. |
| `SlotsAccept` | holds | One process with a listener and another slot; the accept paths against a full ring and an empty pool. `NoSilentLoss`: when a connection is forgotten there is one of three reasons. `AllocatorSpec`. |
| `SlotsSignals` | holds | One process can be terminated anywhere: `TypeOK`, `SlotExclusive`. |
| `SlotsStaleClose` | violated | `CloseHitsOwnSocket` with a terminated process. |
| `TxKick` | holds | `KickDelivered`: no kick is lost unless it was refused or the ring counted too early. `InOrder`: order and completeness. `AllSent`: everything is handed to the stack. |
| `RxEvents` | holds | One socket: `EventDelivered`: data on the ring is announced. `SubmitNeverFails`: the free count read earlier suffices. `StreamIntact`: nothing lost, doubled or reordered. `BacklogServed`: data left in the socket has a kick under way. `AllReceived`: everything is received. |
| `ReadSegments` | holds | The stream is delivered exactly for single-segment buffers and any mix of limits: `ReadsContiguous`, `NothingLost`, `LengthsExact`. `BuffersAccounted`: every buffer is freed once, when neither the application nor the shadow has it. |
| `ReadChainsLimited` | violated | `NothingLost` for chains read with limits. |
| `RingShared` | holds | Two producers, one of which may be killed, and two consumers. `ClaimsDisjoint`: operations in progress have no entry in common. `GotInOrder`: a dequeue copies the objects of its positions. `FifoSpec`: refinement of `RingFifo`. `OperationsEnd`: an operation that has claimed entries publishes them, unless one of its side that claimed before it was killed; one that has not may retry, but only while others of its side keep claiming. |
| `GlueSockets` | holds | `QueuedAreAnnounced`: the listener of a queued connection is on the accept list. `CountersCover`, `PassDrainsLists`: the counters never make a pass leave a socket behind. `HeldAreOpen`, `QueuesSound`, `UpcallHasPcb`: no `soclose`/`soaccept` panic, no upcall without a control block. `ClosureReported`: a closure reaches the owner, unless there was none with a selector yet or its ring was full. `CellsAccounted`: no socket is freed twice or leaks, but for the accepted ones that are forgotten. |
| `TxSpace` | holds | `SpaceSound`: until it wraps, `tx_space` of a stream is at least the room there is; of a datagram socket it stays within the buffer. `FlagMeansEvent`: the sender waits with the flag clear, or an event is on its way, unless excused. `WriterWoken`: a waiting sender is woken, unless excused; also when others wait for buffers in front of it. |
| `TxSpaceOverstated` | violated | `ReportedFits`: what was reported as room is room. |

`StreamIntact`, `ReadsContiguous`, `HeldAreOpen` and `SpaceSound` have their
module's type invariant as a conjunct. All type invariants are proved
(section 4; that of `ShadowRead` under the condition stated there).

### The violated properties

- **`SlotsStaleClose`** - `service_close` leaves `local_socket_descriptors[].socket`
  set. When the process is terminated later, `sig_handler` closes the
  descriptor again; if another process has the slot by then, its socket is
  closed.
- **`ReadChainsLimited`** - when a limited read ends exactly at the end of a
  segment, the remainder is taken from the segment after the one saved, or left
  as it was when there is none.
- **`TxSpaceOverstated`** - appending to the send buffer adds to `tx_space`, as
  dropping from it does, received data is added too, and the subtraction in
  `service_send` is compiled out. The number only grows, the library then
  reports what fits on the tx ring, and `sosend` refuses what does not fit into
  the buffer; the service frees it and tells nobody. The counterexample has no
  wrap: filling the send buffer once is enough.

### Further configurations

These are kept beside the runs. All but the first three end in a counterexample
and show why a property of a run makes the exception it makes.

| Configuration | Module | Property | What it shows |
|---|---|---|---|
| `RxTwoSockets.cfg` | `MCRxPath` | `EventDelivered`, `BacklogServed` (hold) | Two sockets on one selector whose ring overflows. |
| `GlueSlowLink.cfg` | `MCGlueSockets` | as `GlueSockets` (hold) | The transmit pass may be left out, so that its list outlives several rounds (3.7 million states, a few minutes). |
| `RingReuse.cfg` | `MCRteRing` | as `RingShared` but for `OperationsEnd` (hold) | A table of two entries for four objects, so that entries are used again while threads hold stale indices. |
| `TxKickStarved.cfg` | `MCTxPath` | `KickRetryNotifies` | `service_socket_kick` sets `write_done_from_app` before it asks for a command buffer. When there is none it returns -1 with the flag set; the retry finds it set and returns 0. The data waits until the stack reports room or another kick gets through. |
| `TxKickReordered.cfg` | `MCTxPath` | `KickSurvivesReordering` | The service's store of 0 to the flag is still in the store buffer when it counts an empty ring; the application enqueues, sees the old flag and returns; the store drains. |
| `RxSelectBlocks.cfg` | `MCRxPath` | `SelectReturns` | `service_select` checks the ring, then calls `pselect` without blocking SIGUSR1 in between. |
| `RingTwoProducers.cfg` | `MCRteRing` | `FifoSpec` | A single-producer ring with two producers loses an object. `service_receive` puts the rest of a partial read on the selector's ring, which the service is the single producer of. |
| `GlueAccept.cfg` | `MCGlueSockets` | `AcceptAborts` | A connection is reset while it is queued; `user_on_accept` ignores the ECONNABORTED of `soaccept` and reads the control block that is gone. |
| `GlueLeak.cfg` | `MCGlueSockets` | `QueuedAreDropped` | A listener is closed while on the accept list: `app_glue_close_socket` accepts the queued connections and forgets them, and `soclose` has none left to drop. |
| `TxBuffersUnannounced.cfg` | `MCTxSpace` | `BuffersAnnounced` | `service_get_buffer` finds no buffer and sends TX_POOL_EMPTY without clearing `write_ready_to_app`; the service finds the flag set and posts no event. |

Relatives of these that the runs reach but state no violated property about:
`service_close` flushes the rx ring after CLOSE was sent, when the slot may
already have a new owner; a lingering socket signals the selector of the slot's
new owner; an event that meets a full selector ring is lost with its flag set;
the receive side has the same store/load order as the transmit side; a limited
read that ends inside a later segment reports that segment's length as
`first_segment_len`; a read without limit leaves `shadow_next` out of
`total_len`; a socket closed while it waits for buffers stays on the waiters'
list, whose loop then finds its slot without a socket, or with one that is not
listed (`halted`); the closure of an accepted socket that is processed before
SET_RING is not repeated (`missed`).

### Bounds

- Slots: two slots mean one that circulates (the free ring holds one less than
  its size), so two processes always contend; three slots and one process let a
  listener and an accepted connection coexist. A pool of three buffers makes
  both the pool and the ring (two places) run out within one call. Two kernel
  sockets are the fewest for a listener and a connection, and for a lingering
  socket beside a new one.
- Tx: two places on the tx ring and three sends pass a full ring and a count
  that is out of date; three command buffers let others exhaust pool and ring
  independently.
- Rx: a ring of three, a cache of two and four buffers fill both and leave a
  rest in the socket; a burst of three is more than the cache can take; three
  places for kicks. With two sockets everything is one, and the selector's ring
  has two places, so events are dropped.
- Reads: nine bytes, segments up to four, limits on each side of that.
- Rings: four entries of which three can be used, indices modulo 8 that start
  at 7, so the first operation wraps; three objects in operations of up to two
  let two enqueues overlap, one wait for the other, a compare-and-set fail and a
  bulk be refused or cut. Entries are not used twice in this instance;
  `RingReuse.cfg` and, for every size, the theorems cover that. `MaxObjs` also
  bounds how often a compare-and-set can succeed, so in this instance nobody
  retries for ever; the second half of `OperationsEnd` says what would be true of
  one who did.
- Glue: two sockets and two slots, so a listener with a queued connection, an
  accepted connection beside its listener, and a slot used again while its old
  socket lingers. `QLimit` 1 admits two queued connections, more than there are
  cells. A counter that got ahead of its list
  stays ahead; `MaxDrift` 1 lets each of the two do so once and goes on from
  there.
- `tx_space`: a unit of one byte, a send buffer of two, numbers from -5 to 4, so
  that a sender is told twice what the buffer holds before they wrap, and they
  do wrap; two places on the tx ring, one on the selector's, one for commands, one
  socket that may wait in front. `TxSpaceOverstated` has numbers from -8 to 7.

`MaxSend`, `MaxData`, `MaxBytes`, `MaxSegLen`, `MaxSegs`, `MaxRing`, `MaxBulk`,
`MaxObjs`, `MaxDrift` and `MaxAhead` are
bounds of the model, the other constants are sizes of the code.

Deadlock is checked except for `SocketSlots`, because once every slot was
forgotten on an error path all that is left is to return -1; for `ShadowRead`,
which ends when all bounded input was read; and in `RxSelectBlocks`, where
blocking is the point. `GlueSockets` stutters once `halted`.

Symmetry is used where only safety is checked and processes, sockets, kernel
sockets or slots are interchangeable.

### Fairness

`service_main_loop` polls and never blocks: weak fairness of
`ProcessCommand`, of `Service` in `TxPath` and in `RxPath`. A store buffer
drains. An application that sent goes on to call `service_socket_kick`, as the
clients do; in `RxPath` the application's loop goes on, and a `pselect` with a
timeout returns. In `RteRing` a live thread inside an operation keeps running,
but need not start another. In `TxSpace` sender and service keep running;
`NetworkDone` is strongly fair, because `ipintr` works off a finite queue, and
so are `WaiterAhead` and `WaiterSpace` together, because the buffers in use come
back again and again and the list is then served from its head.
There is no fairness on arriving data, on
`process_tx_ready_sockets`, on other processes or on signals.

## 4. Proofs

Checked by TLAPS for every value of the constants that satisfies the named
assumptions, which TLC evaluates on every run: `SlotsAssumption`,
`TxAssumption`, `TxSpaceAssumption` (sizes are positive; NULL is not a socket,
process or number; a process is not named like a state of a slot; numbers are
wide enough for the send buffer), `RxAssumption` (a cache of at least two, a
burst of at least one, and a selector's ring that takes the first event of each
of its finitely many sockets), `RingAssumption` (the size of a ring divides the
range of its indices, as a power of two divides 2^32), `GlueAssumption`
(finitely many sockets and slots; NULL is none of them) and `ReadAssumption`
(limits and sizes are natural numbers, a chain has a segment). TLC found the inductive
invariants below to hold on the instances of the runs before they were proved.

### Slots and commands

- `SocketSlotsProofs!TypeCorrect`: `Spec => []TypeOK`.
- `SocketSlotsProofs!SlotsExclusive`: `Spec => []SlotExclusive`, for any number
  of processes, slots, sockets and buffers, terminating signals included.
  `SlotExclusive` is inductive together with `TypeOK`: it counts every claim on
  a slot (free ring, call, command, attached socket), and each step moves one
  claim from one place to the next. The lemmas `SlotTaken`, `SlotSent`,
  `SlotAttached`, `SlotFreed` are those moves, `NoNewClaim` all other steps.
  That CLOSE is ignored for a slot without a socket is what keeps a second
  CLOSE from freeing a slot again.
- `SlotCountProofs!FreeHasRoom`: `Spec => []FreeNeverDropped`. The slot whose
  enqueue already failed in `service_api_init` never gets a claim (`LastIdle`).
  So the entries of the free ring are different slots, none of them that one
  and none the slot being closed, and by the pigeonhole principle they leave
  a place.
- `SlotCountProofs!BuffersConserved`: `Spec => []CommandsConserved`. `PoolInv`
  adds that the set of calls that hold a buffer is finite, and that rx rings
  hold at most one entry less than their size. A buffer that a refused enqueue
  leaks, that of RX_KICK included, leaves the sum.
- `SocketSlotsProofs!CloseIsOwn` and `ServiceNeverDerefsNull`:
  `Spec => []CloseHitsOwnSocket` and `Spec => []NoNullDeref`, if no process is
  killed (`Mortals = {}`); `SlotsStaleClose` shows that the first fails
  otherwise. Both rest on `Discipline`, what the library's callers keep to:
  one process has the descriptor of a slot, all commands about the slot on the
  ring come from one process, OPEN or SET_RING first and CLOSE last, and nobody
  can take the slot before they are processed. `NoNullDeref` also needs
  `Backed`: while nothing ran out, a slot in use has its socket or is about to.
- `SocketSlotsProofs!EventsAreOwn`: `Spec => []EventsReachOwner`, terminating
  signals included. It is inductive with the types and `SlotExclusive`: OPEN
  and SET_RING only meet slots without a socket.
- `SocketSlotsProofs!LossesExcused`: the action property `NoSilentLoss`, one
  lemma per place from which a connection is reachable.
- `SlotCountProofs!SlotsAreAllocated`: `Spec => AllocatorSpec` if no
  process is killed. The mapping gives the holder of a slot; `HeldOnce`, a
  consequence of `Discipline` and `SlotExclusive`, makes it well defined, and
  each action is one step of the allocator or none.

### Transmit path and send-buffer accounting

- `TxPathProofs!SentInOrder`: `Spec => []InOrder`. The invariant adds that the
  ring holds at least what was counted, as only the service dequeues.
- `TxPathProofs!KickIsDelivered`: `Spec => []KickDelivered`. `KickDelivered`
  is not inductive: whether the loser of the test-and-set may return depends on
  what the set flag stands for (`FlagMeansKick`) and on where the service is
  when its store is still on its way (`StoreSettles`).
- `TxSpaceProofs!SpaceIsSound`: `Spec => []SpaceSound`, types included. The
  invariant `SpaceInv` adds what the sender has been told and not yet sent
  (`SenderSound`: it fits the tx ring, and `tx_space` of a datagram socket), and
  that the service knows where to go on after posting (`PostSound`).
- `TxSpaceProofs!FlagTellsEvent`: `Spec => []FlagMeansEvent`. `FlagInv` extends
  it to the places of the sender between clearing the flag and waiting.

### Receive path

For any number of sockets and any size of rings, cache and burst.

- `RxPathProofs!SubmitHasRoom`: `Spec => []SubmitNeverFails`. `RoomInv`: while
  the service counts `ring_free` down, the application only takes entries off,
  so the number stays a lower bound of the room.
- `RxPathProofs!StreamStaysIntact`: `Spec => []StreamIntact`, types included.
  `Numbered` says that the buffers carry consecutive numbers all the way from
  the application's hand through its cache and the rx ring to the buffer in the
  service's hands, beginning with what was received and ending with what was
  taken from the socket.
- `RxPathProofs!EventIsDelivered`: `Spec => []EventDelivered`. Two invariants
  are needed. `FlagInv`: a set flag of a watched socket has its event, or the
  service is about to post it. `DrainInv`: data behind a socket that the
  application has drained, or is not at, has an event or is being marked. The
  step that matters is the last `service_dequeue_rx_buf`: a burst that
  brings nothing found an empty ring after the flag was cleared
  (`NothingLeft`), because burst and cache are not empty.
- `RxPathProofs!BacklogIsServed`: `Spec => []BacklogServed`, inductive relative
  to the invariants above.

### DPDK rings

- `RteRingProofs!RingTyped`, `ClaimsAreDisjoint`, `ObjectsInOrder` and
  `RingImplementsFifo`: `TypeOK`, `ClaimsDisjoint`, `GotInOrder` and
  `FifoSpec` for any size, any number of threads, all four combinations of
  single and multiple producers and consumers, and threads killed anywhere.
  They have two hypotheses. `UsedAsCreated`: a single-producer
  (single-consumer) ring has one producer (consumer). `NoLapping`: no thread
  sleeps between reading a head and its compare-and-set while 2^32 objects
  pass, after which the compare would succeed on an old value.
  `RingTwoProducers.cfg` shows the first is needed; the second holds wherever a
  thread is not stopped for that long.
  The invariant `Inv` speaks of positions that do not wrap: the claims of
  consumers lie between `cons.tail` and `cons.head`, those of producers between
  `prod.tail` and `prod.head`, claims of one side are apart, and the window from
  `cons.tail` to `prod.head` is shorter than the table. A thread that has not
  claimed yet may hold an old head, and what it computed from it is arbitrary;
  only for one whose head is current is there room, which suffices because the
  compare-and-set fails for the others. Lemmas on remainders carry positions
  over to wrapped indices and table entries (`IxInjective`, `SlotCell`,
  `CellInjective`, `FreeExact`, `EntriesExact`). The refinement maps the queue
  to the entries from `cons.head` to `prod.tail`: it changes when an enqueue
  publishes and when a dequeue claims, every other step stutters or moves
  objects between a caller and its call.

### Sockets, accept queues and lists of the glue

For any finite number of sockets and slots and any backlog, with and without a
slow link. `GlueSocketsProofs` has a theorem for each property of the run:
`QueuedConnectionsAnnounced`, `CountersCoverLists`, `HeldSocketsOpen`,
`AcceptQueuesSound`, `UpcallsFindPcb`, `ClosuresReported`,
`CellsAreAccountedFor`, and `PassesDrainLists` for the action property.

None of them is inductive, and they need each other. All but the last follow
from one invariant, `Ind` (`SocketLayerInvariant`), and that one from it and the
definition of the pass:

- `NetSound`, of the socket layer alone: the flags of a socket say which lists
  it is on, the counters cover the lists, `so_q` and `so_head` agree, a free
  socket has been wiped, a queued connection counts as not open and
  wakes nobody, and its listener is open, listens or was shut down, and is on the
  accept list.
- `HeldSound`: what a slot or an ACCEPTED command refers to is allocated, open,
  not queued and has its upcall. Without the upcall a closure could be missed.
- `HeldReported`: the closure of such a socket was told or refused, or is on the
  closed list, or was processed too early. It covers sockets in commands too, which
  `ClosureReported` does not speak of.
- `HeldOnce`: no two of them refer to the same socket, or closing one would
  leave the other with a freed one.
- `OthersClosing`: an allocated socket nobody refers to, and that was not
  forgotten, is closed by its user and still has its control block, so TCP will
  free it.

The proof goes through the functions of the socket layer first: each is shown
to change only the socket it is called for (`Apart`), and that one in one of
three ways: it stays allocated (`Stays`), it is returned to the pool (`Freed`),
or it is closed (`Gone`: freed, or left to TCP). The lemma of an action
combines these. `app_glue_close_socket` reaches `soclose` with an empty accept
queue, because a listener with queued connections is on the accept list and its
queue was emptied just before. So the loop of `soclose` that drops queued
connections never finds one, and the proof needs no induction over it. It is also why `QueuedAreDropped` fails (`GlueLeak.cfg`).

### Partial reads

For every size of stream, segments and ring, and every set of limits.

- `ShadowReadProofs!StreamIsContiguous`, `StreamIsComplete` and
  `LengthsAreExact`: `ReadsContiguous` (types included), `NothingLost` and
  `LengthsExact`, under the hypothesis `SingleOrUnlimited`: buffers have one
  segment, or reads have no limit. The run `ReadSegments` is an instance of the
  first half; the second half, chains of any length read whole, is covered by
  the proof. Outside the hypothesis the code loses track of the stream, as
  `ReadChainsLimited` shows. The invariant `Ind` adds that the shadow begins
  with the first byte not yet given, that `shadow_len_remainder` is all that is
  kept (`shadow_next` is empty), and that every chain on the ring is without a
  gap.
- `ShadowReadProofs!BuffersAreAccounted`: `Spec => []BuffersAccounted`, without
  that hypothesis: whatever happens to the lengths, no buffer is lost, freed
  twice or freed while it is in use. The invariant `Owned` adds that the chains
  on the ring have no buffer in common, nor has a chain, the shadow or what was
  given one twice; that every buffer has a name below the next to arrive, so
  that a new one is new; and that of the segments given at most the last is the
  shadow (`LastIsShadow`), which is why a release that stops there frees all
  the others.

`Total` is a recursive function of the chain. That such a function exists,
is unique, is a natural number and grows with the chain is proved by induction
(`SetInduction`), which is stated for a set of numbers and derived from the
well-foundedness of the natural numbers.

### Only model-checked

- The liveness properties (`ClosedSlotsReturn`, `AllSent`, `AllReceived`,
  `OperationsEnd`, `WriterWoken`): fairness and ENABLED are out of the prover's
  reach.
- The properties of the violated runs and of the further configurations, which
  do not hold.

Every other property of a passing run is a theorem. `SlotExclusive` and
`EventsReachOwner` are proved with terminating signals; `CloseHitsOwnSocket`,
`NoNullDeref` and `AllocatorSpec` without, as in the runs that check them.

## 5. What is not modelled

- Most of `src/` is NetBSD's TCP/IP stack and DPDK, vendored and used as they
  are. Of the stack the models have the socket layer's life cycle and the
  states of a connection; sequence numbers, windows, retransmission, IP, ARP,
  routing and socket options are left. Of DPDK they have the ring; pools are
  counters, and drivers, memory management and timers are left. So the share of
  all lines that is modelled stays small, while the port's own protocols
  (`service/`, `glue/app_glue.c`) are covered in the main.
- `so_q0` (the SYN cache hands over complete connections), `SO_LINGER`.
- Bulk sends (`service_send_bulk`, `service_sendto_bulk`), which repeat the
  steps of the single ones, and event masks of `service_select`.
- A signal handler that itself enqueues on the ring its process was enqueueing
  on is not modelled. It waits for the operation it interrupted as for one of a
  killed thread, but that operation is not killed.
- In `GlueSockets`, SYN_RECEIVED and the error paths of `syn_cache_get`.
- `GlueSockets`, `TxSpace`, `RxPath` and `SocketSlots` are not composed: each
  has what it needs of the others as a nondeterministic choice (rings and pools
  that are full, commands in any order the protocol of the others allows).
- `USE_LOCAL_READY_CACHE`, which the build does not define.
- `service_main_loop` lines 509-512 have unbalanced parentheses; the loop is
  modelled by its calls.
- Callout and softint lists (delegation to `rte_timer` and a list run in
  order), device I/O, the clients registry, memory shims and logging
  (`PROJECT.json` gives the reason for each).

## 6. Plan

1. Compose `RxPath` with the command pool of `SocketSlots`, so that kicks are
   refused exactly when pool and ring are used up.
2. Two senders in `TxSpace`, each of which may be in front of the other on the
   list of waiters.
3. Callouts with a handler that stops or reschedules itself.
