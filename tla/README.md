# libcsp_rust: TLA+ models, model checking and proofs

`libcsp_rust` wraps the C library libcsp (the CubeSat Space Protocol: connection
and datagram messaging over CAN, serial and custom links) in safe Rust, and lets
a Rust program supply the operating-system layer libcsp needs (`CspArch`). This
directory holds TLA+ models of the wrapper's own logic, TLC configurations that
check them on small instances, and TLAPS proofs of the results that matter most.

The C sources of libcsp are a submodule and not part of the repository, so what
the C side does appears as *external* actions, taken from how the Rust code calls
it and what its comments rely on. `PROJECT.json` maps every definition to the
lines it translates and lists runs, mutants, findings, hazards and theorems.

## 1. Inventory

| Part | State it keeps | Operations | What is hard | What makes it correct |
|---|---|---|---|---|
| Queue contract, host queue (`arch.rs`, `arch/test_arch.rs`) | a `VecDeque` under a mutex, two condition variables | create, enqueue, dequeue, ISR forms, size, empty | wake-ups lost to a timed-out waiter, spurious wake-ups, absolute deadlines | bounded FIFO; a timed-out call moved nothing; a blocked call that can proceed does |
| Embassy ring queue (`embassy-example/src/queue.rs`) | uninitialised slots, head, tail, count | create, remove, enqueue, dequeue, size | wrap-around, full and empty look alike, uninitialised memory | bounded FIFO that never hands out an unwritten slot |
| Binary semaphores (three back ends) | one value | init, wait, timed wait, post | init posts after create; deadline computed inside or outside the loop | one wait succeeds per token; timed waits return |
| Thread start | `THREAD_ENTRY_POINT`, `THREAD_FN_MAP` | `csp_thread_create`, two wrappers | process-wide hand-over variable; a lock held while user code runs | each thread runs the function it was created for; creations return |
| Packets, connections, sockets | who owns each buffer and connection; the queues they wait in | get, drop, send, sendto, read, recvfrom, connect, accept, close, bind, listen, router work | ownership crosses the language boundary on a dozen paths | exactly one owner, always; nothing stranded |
| Packet contents | length, header, bytes | get, write, set_length, set_id, data, from_raw | buffers are reused; C writes the length field | nothing an earlier owner left shows in a new packet |
| Interfaces and CAN | one spin lock each, a user object | rx, `nexthop_shim`, CAN trampoline | user code may panic, re-enter, keep or drop the packet | lock released, packet freed once or kept, blocking only in a circle |
| Node life cycle | `INITIALIZED`, `csp_conf`, `SELF_IFACE`, reference count, router thread | init, clone, drop, start router, add a SocketCAN interface | overlapping inits, half-done set-up, a list and a table others already use, pointers into freed strings | no set-up beside another or over a live node; a node only over complete globals |
| Sniffer | `SNIFFER_ACTIVE`, libcsp's capture switch | open (two failures), read, drop | two flags set one after the other | one sniffer, and the two flags agree |
| Dispatcher (`service.rs`, `Port`) | socket, two handler tables, error callback | register, register_with_result, bind_service, on_error, run | listen renews the queue; one connection at a time; silent send; a port has several spellings | every packet that can be reached is settled; one answer per port |
| SFP transfers | sender offset, receiver buffer | sfp_send, sfp_recv, progress, abort | loss, order, aborts, left-overs of an earlier transfer | a blob its sender completed, without holes, or an error |
| Request/reply calls | the calls in progress, replies in flight | transaction (2), ping, memfree, uptime, buf_free, ident, peek, poke, and four calls without a result | late replies on kept connections and reused ports; one return code with three meanings | a waiting call's reply is its own; Ok means what it says |
| C string helpers (`arch.rs`) | the caller's buffer and save pointer | strtok_r, strcpy, strncpy, strnlen, strncasecmp, strncmp | in-place edits, nesting, unterminated fields | split as the table is written; names found again |
| Embassy heap (`embassy-example/src/lib.rs`) | blocks, a size header in front of each | malloc, free, queue create, fill and remove | sizes near the limit, headers next to other owners' bytes | each block goes back with the layout it was taken with |
| Routing table, interface list (`route.rs`, `iflist.rs`, `interface.rs`, `can.rs`) | held in C; handles into it in Rust | register, add_interface, lookup, list_names, set, load, clear, find, iterate | no lock and no node needed; pointers handed out; a closure that panics | handles stay true until a clear; a walk shows each row once |
| CFP identifiers (`can.rs`) | none | make_src, make_dst, src, dst | fields packed side by side | both addresses come out as they went in |
| Mutexes of `CspArch` (two back ends) | holder; Embassy's interrupt switch | create, remove, lock, unlock | all of Embassy's mutexes are one switch | one holder per mutex |
| Errors (`error.rs`) | none | from_code, csp_result | codes with gaps, one of them the crate's own | two codes never become one error |
| Clock, debug, build script, examples | none, or held elsewhere | | the u32 clock wraps | see section 9 |

How the parts meet. A user thread gets a `Packet` from libcsp's pool, writes it and
hands it to a `Connection`, a `Socket` or an interface; libcsp either calls back into
an interface (`nexthop_shim`, `self_iface_tx`) or queues it for the router task,
which moves it to a connection's or a socket's queue, where `read`, `recvfrom`,
`accept`, `sfp_recv` and the transactions take it. All those queues, and every wait
in C, are the `CspArch` queues and semaphores of the Rust program. `Dispatcher` is
one thread's loop over accept, read and reply. `CspConfig::init` sets up the globals
all of this runs on.

## 2. Modules

Abstract specifications:

* `BoundedFifo` is what the `CspArch` trait promises of a queue: atomic, blocking or
  timed enqueue and dequeue, plus the form whose calls never wait.
* `BinarySemaphore` is what the trait promises of a semaphore: one token.

Components (each with an `MC*` module that gives its constants values):

* `TestQueue`: the host queue as threads at program counters around one mutex and
  two condition variables. `Proceed`, `Wait`, `GiveUp` are one pass of the loop with
  the mutex held; `NotifyOne` comes after it is released, as in the code; `Expire`
  and `SpuriousWakeup` are the condition variable's. Implements `BoundedFifo`.
* `RingQueue`: the Embassy ring, slot by slot. `Garbage` is what an unwritten slot
  holds. Implements the polled form of `BoundedFifo`.
* `BinSem`: the POSIX, macOS and Embassy semaphores. `backend` is the build, fixed at
  the start; `csp_bin_sem_init` is the initial state. Compared with `BinarySemaphore`.
* `ThreadStart`: one creator and one thread per call; storing the entry point,
  locking the map, `pthread_create`, loading the entry point and running are steps.
* `Mutexes`: pthread's, and Embassy's, where every lock switches the interrupts of the
  one core off and every unlock on again; `Preempt` is the interrupt.
* `Primitives` composes semaphores, thread start and mutexes. They share no variable, so
  each behaviour follows one of them (`part`).
* `PacketFlow`: the place of every buffer (pool, application, driver, C, router
  queue, connection, socket queue) and the owner of every connection. It composes
  `packet.rs`, `connection.rs`, `socket.rs`, the node's send calls and `send_via`;
  its router and C steps are external.
* `PacketBuffer`: for each buffer, who last wrote its header and each payload byte.
  Content is abstracted to its writer, which is what staleness is about.
* `InterfaceTx`: a stack of shim calls per thread, one spin lock per interface, and
  user code that drops its packet, keeps it beyond the call ("held"), queues it, forwards
  it or panics; a kept packet is later dropped, queued or sent by anybody. `Bridge` says
  which interface may send on to which.
* `CStrings`: the string helpers of `arch.rs` as operators on sequences of characters.
* `Freestanding`: those helpers at work for C (a name field that is filled again and
  again; as a harness, one tokeniser nested in another on one buffer, since the repository
  shows no caller of `strtok_r`: `route_load` is not there on `external-arch`), Embassy's
  `malloc` and `free`
  over an allocator that may choose any free place, the queues made with them and the
  slots `enqueue` writes, and CAN identifiers. `Rests` is what the 19 bits below an
  identifier's addresses may hold.
* `Memory` composes `PacketBuffer` and `Freestanding`. They share no variable, so each
  behaviour follows one part (`part`), which keeps the runs from multiplying.
* `Routing`: the interface list and the routing table with what the wrapper hands out of
  them: a `RouteEntry`, an `IfaceRef` or a list of names that somebody keeps (`held`),
  and a call of `iterate` in progress (`walk`), row by row, with a closure that may
  return true, false or panic. `csp_rtable_set`, `_load`, `_find_route` and
  `csp_iflist_get_by_name` are external; names are compared with `Strncasecmp`. A load
  sets its rows one by one (`LoadRow`), and others' steps may come between two of them.
* `NodeLifecycle` extends `Routing`: `init` statement by statement for overlapping
  callers, the references to the node, the router thread, and the globals init writes,
  the list and the table among them. Registering and routing need no node, so they
  happen before, between and after init's steps (`RoutingStep`).
* `Sniffer`: `promisc.rs`, with the capture queue libcsp fills.
* `Runtime` composes the two: it extends `NodeLifecycle` and instantiates `Sniffer`.
  Opening a sniffer needs no node, but packets are captured only by the router, which
  a node or the router thread drives (`RouteWorkCaptures`).
* `Dispatcher`: `service.rs` with the clients that connect and send to it. A `Port` is the
  pair of its discriminant and its number, so that one number has several spellings.
* `SfpTransfer`: the SFP part of `connection.rs` with the network between two of its
  users. `rdp` says whether the connection keeps order or not; `length[x]` is the length of
  blob x before the cast to `u32`.
* `CspError`: the codes and the errors made of them.
* `Transactions`: clients that call, each on a connection it keeps or on one opened for the
  call, whose local port is one of the few in `Ports` and free again afterwards; a network
  that loses, delays and reorders; and the mapping of libcsp's return codes to results.
  `room` is the length of `in_buf`, which the code passes to nobody.
* `Connections` composes `Transactions` and `SfpTransfer`, one or the other per behaviour
  (`part`).

Proofs, each extending a component or a composition: `ArchProofs` (host queue,
semaphores, thread start, mutexes), `RingQueueProofs`, `PacketFlowProofs`, `InterfaceTxProofs`,
`RuntimeProofs` (node, sniffer, interface list, routing table), `DispatcherProofs`,
`ConnectionProofs` (errors, request and reply, SFP) and `MemoryProofs` (packet contents, name
fields, tokenisers, heap, CAN identifiers). A proof module that covers several components
extends them all, which is why `BinSem`, `ThreadStart`, `Mutexes` and `SfpTransfer` give
their specifications names of their own (`SemSpec`, `StartSpec`, `MutexSpec`, `SfpSpec`).

A definition called `X_Something` next to a definition `X` is a mutated form of it (a
dropped guard, a missing reset, a swapped order). No behaviour uses it; replacing `X`
by it must break the property it is listed with in `PROJECT.json`, which shows that
the property depends on that line of the code.

## 3. Runs

| Run | Shows |
|---|---|
| `testqueue` | three threads, two slots, spurious wake-ups included: no wake-up is lost (`NoLostWakeup`), the queue implements `BoundedFifo` (`ImplementsContract`), a blocked call that can proceed does (`BlockedCallsProceed`), a timed call returns (`TimedCallsReturn`) |
| `ringqueue` | the ring's indices and count agree (`RingInv`), nothing unwritten is handed out (`NoGarbage`), it implements the polled FIFO (`ImplementsPolledFifo`) |
| `primitives` | macOS and Embassy semaphores: one wait succeeds per token (`ImplementsBinarySemaphore`), no waiter sleeps beside a token with no wake-up coming (`NoLostSignal`), a token is taken in the end (`TokenTaken`; in practice by macOS's sleepers), Embassy's timed waits return (`TimedWaitReturns`). Three overlapping thread creations, one of a function that never returns: a thread finds a function, and never one older than its own call's (`NeverAnOlderFunction`); creations return unless the endless function holds the map (`CreationsFinish`). Two mutexes, three contexts: one holder each, on Embassy unless one is unlocked inside another (`MutexExcludes`) |
| `binsem_posix_token` | POSIX: TLC finds `ImplementsBinarySemaphore` violated, since the semaphore starts at 2 (section 4) |
| `packetflow` | three buffers, two connections: one owner each through every interleaving (`Partition`, `ConnectionsOwned`); only a renewed or dropped socket queue strands anything (`StrandedOnlyByRelisten`) |
| `memory` | a fresh packet shows nothing left over (`NoStaleBytes`); a reused name field gives back the last name and is found by it (`NamesSurvive`), nested tokenisers return every field of a table once (`SplitsLikeTheTable`), each heap block goes back with the layout it was taken with, whatever its owner or `enqueue` wrote (`HeapIntact`), a CAN identifier keeps both addresses (`CanIdsKeepAddresses`) |
| `interfacetx` | two threads, two bridged interfaces and a CAN interface: the locks match the calls in progress after panics too (`LockMatchesCalls`), a packet is freed, kept or handed on exactly once (`EveryPacketAccounted`), calls hang only in a circle of interfaces (`StuckOnlyInACircle`) |
| `runtime` | three overlapping inits beside two sniffer users and an application that registers interfaces and sets routes: no set-up beside another or over a node somebody holds (`SetupAlone`), a node only over complete globals, with LOOP parked and a route to itself unless others took the name or filled or cleared the table (`NodeIsReady`), ident answered from live strings while a node or the router lives (`IdentReadsLiveStrings`); an open sniffer captures (`OpenCaptures`), and nothing is left on after failed opens and drops (`NothingLeftOn`); handles show what they were found under until the table is cleared (`HandlesStayTrue`), and a walk shows each row once and stops at a panic (`WalkSeesEveryRoute`) |
| `dispatcher` | a port has one answer, however it is spelled (`OneAnswerPerPort`); run strands nothing once started (`RunStrandsNothing`); every packet run can reach is settled (`EveryReachablePacketSettled`) |
| `connection` | nobody takes the reply another call is waiting for, no reply ends two calls or one made before its request (`WaitersKeepTheirReply`); an Ok that promises a reply had one of the right length (`OkMeansAnswered`); Ok from `sfp_recv` is a blob its sender completed, of full length and without holes, and over RDP of one transfer (`BlobIntact`); what the progress callback sees is made of received bytes (`PrefixIsReal`) |
| `reinit` | TLC finds `FreeAfterLastDrop` violated: after the last clone is gone `init` is still refused (section 4, item 8) |
| `replyroom` | TLC finds `ReplyFitsBuffer` violated: with `in_len` -1 a call returns a count larger than the slice it was given (section 4, item 16) |

The component modules also state a `TypeOK`, which documents their variables; those of the
modules with proofs are proved (section 7). No run spends a property on one.

## 4. Where the code and its documentation part

Translating the code showed these places where it does something other than a comment, a
test or a guide says. Items 1, 8 and 16 are checked by runs that TLC must refute; the others can
be read off the actions named, and the properties are stated so as to say what does hold.

1. *POSIX semaphore* (`test_arch.rs:339`). `create` starts the `sem_t` at 1 and
   `csp_bin_sem_init` posts once more, which a `sem_t` counts: two waits succeed with no
   post between them. Run `binsem_posix_token`.
2. *Ring timeouts* (`embassy-example/src/queue.rs:74`). The timeout argument is unused,
   where the trait says 0xFFFFFFFF waits forever (`arch.rs:182`). `RingQueue` therefore
   implements only the polled contract.
3. *macOS deadline* (`test_arch.rs:451`). It is computed in every iteration of the wait
   loop: a waiter that keeps losing the token outlives its timeout. `TimedWaitReturns`
   leaves macOS out, and `ExpireWait` is only weakly fair there.
4. *Listening again* (`socket.rs:76`). `listen`, or a second `bind`, gives the socket a
   new queue and strands what the old one held. `StrandedOnlyByRelisten`.
5. *Entry point overwritten* (`arch.rs:857`). Overlapping `csp_thread_create` calls share
   one variable: a thread may run a later call's function. `NeverAnOlderFunction` is
   what is left.
6. *Map locked while running* (`test_arch.rs:249`). `thread_wrapper` keeps `THREAD_FN_MAP`
   locked while the function runs: after a thread that never returns (the router), no
   other starts. `CreationsFinish` excepts this (`Barred`).
7. *Sending on from nexthop* (`interface.rs:139`). The interface's spin lock is held during
   user code: sending back to the same interface spins forever. `StuckOnlyInACircle`.
8. *Second life of the node* (`init.rs:157`). `INITIALIZED` is never cleared, where
   `USAGE.md:24` says that dropping the last clone frees the runtime for re-init. Run
   `reinit`. `SetupAlone` is stated so that it would hold of a runtime that can be freed.
9. *Configuration strings* (`init.rs:166`). `csp_conf` points into the node's strings; a
   connection kept past the last node answers ident from freed memory.
   `IdentReadsLiveStrings` is limited to the time somebody holds a node.
10. *Own route* (`route.rs:157`, `init.rs:208`). `clear` and `free_all` also remove the host
    route `init` added for the node itself; and `init` does not look at the result of
    adding it, so a table filled before leaves the node without one; a route the
    application has for the node's own address may be written over at any time.
    `NodeIsReady` allows it to be missing in these three cases only.
11. *Packets before run* (`service.rs:294`). `run` starts with `listen`, so what arrived
    between registration and `run` is stranded (item 4), where `USAGE.md:571` says the
    closure handles every incoming packet. `RunStrandsNothing` starts after that step.
12. *Lost replies* (`service.rs:316`). The error callback is documented to hear of a reply
    that could not be sent (`service.rs:216`); `Connection::send` has no result, so it
    never does. `Dispatch` (outcome `replyLost`).
13. *SFP length* (`connection.rs:218`). The length is cast to `u32`: 2^32 bytes or more are
    cut and reported as sent, and of an exact multiple nothing is sent at all. `Announced` keeps the
    cast, the run sends such a blob, and `BlobIntact` asks for the full length of the
    others only. Without RDP, fragments of two blobs of one length can make up one Ok,
    since they carry no transfer number; `BlobIntact` allows that and nothing more.
14. *Late replies* (`connection.rs:140`, `init.rs:412`). A reply names the connection, not the
    request. On a kept connection the reply to a call that timed out answers the next
    one; and a one-shot call given a local port that was used before (`build.rs:158`
    leaves a 6-bit range) can meet an earlier call's. `WaitersKeepTheirReply` says what
    is left.
15. *in_len = 0* (`connection.rs:152`). Sent and not sent both map to `Ok(0)`.
    `OkMeansAnswered` speaks of calls that ask for a reply.
16. *Reply length* (`init.rs:419`, `connection.rs:145`). The slice's length is not passed on:
    with `in_len = -1`, "accept any size up to reply.len()" (`USAGE.md:392`), a longer
    reply gives a count past the slice. Run `replyroom`. And one of no bytes is reported
    as `TransmitFailed` (`TransactionResult`).
17. *LOOP by name* (`init.rs:199`). `init` parks the first interface called LOOP in any mix
    of case; one registered before `init` under that name gets the sentinel address in
    LOOP's place. `NodeIsReady`.
18. *Entries after clear* (`route.rs:193`). A `RouteEntry` survives `clear` and then shows
    whatever row is set next. `HandlesStayTrue` ends at the clear.
19. *Closures on Port::Any* (`service.rs:234`). `run` looks handlers up by the number a packet
    was sent to, so a closure registered on `Port::Any` is never called, although the bind
    brings the packets in: they are dropped, or answered by libcsp. `DispatchOther`.
20. *Stress programs* (`embassy-example/src/bin/stress_tx.rs:98`). `route_load(..).unwrap()`
    panics on `external-arch`, where `load` always returns `NotImplemented`
    (`route.rs:115`). And `stress_rx.rs:131` receives one blob and drops the connection,
    which the comment at `examples/stress_rx.rs:104` warns against.
21. *Data union* (`packet.rs:52`). The comment says to "leave the data union alone", the call
    below it zeroes the whole struct, the union included. `Zeroed`; `NoStaleBytes` needs it.
22. *Queue bytes* (`embassy-example/src/lib.rs:105`). `length * item_size` wraps in a release
    build, and the queue then gets a block shorter than its slots. `QueueCreate` keeps the
    wrap; `HeapIntact` is checked and proved for queues whose byte count does not wrap.
23. *Length of poke* (`service.rs:116`). The check is made on `data.len() as u32`; longer data
    that passes it panics in the copy. `Poke`.
24. *Unlocking inside* (`embassy-example/src/lib.rs:94`). Unlocking one Embassy mutex inside
    another enables interrupts under the outer one. `MutexExcludes` names this exception.

## 5. Bounds

Every bound is a constant of the module and is set in the run's `.cfg`.

* `TestQueue`: 3 threads, `Capacity` 2, `MaxCalls` two for one thread and one for the
  others. Lost wake-ups need a sleeper, a waker and a third thread that steals or times
  out. The run has one item; that items keep their order with several is in the theorem.
* `RingQueue`: `Capacity` 3 with unboundedly many calls, so the indices wrap at every
  offset. The theorems cover every length.
* `BinSem`: 3 threads; `MaxValue` 3 caps the counting back end one above the value
  that already breaks the contract.
* `PacketFlow`: 3 buffers, 2 connections, `QfifoLen` 2, `RxLen` 1, `MaxListens` 2: each
  queue can be full while a buffer is left to arrive, and the socket can be re-listened.
* `Memory`: 2 users, 2 buffers of 2 bytes, lengths up to 4, writes up to 3: each length is
  below, at and above the buffer's size. All names of up to 3 characters, two of them the
  two cases of one letter, for a field of 2; all tables of up to 6 characters, which hold
  leading, repeated and trailing delimiters of both kinds. A machine with six-bit `usize`
  and a heap of 20 bytes, `ALIGN` 4: sizes on both sides of a word, of the alignment and
  of the largest `usize`. Addresses on both sides of five bits, over lower fields that are
  all zeros or all ones.
* `ThreadStart`: 3 calls, one of them in `Endless`. `Runtime`: 3 calls of init, 2 sniffer
  users; `MaxClones` 2 caps the references to a node, `QueueSize` 2 the capture queue.
  An interface CAN and one that calls itself "loop"; two destinations and `TableSize` 2,
  so that init can meet a full table; one table to load, which fails half way while CAN
  or LOOP is missing. `InTurn` is a state constraint: sniffers, clones and refused calls
  do not read the list or the table, so once the application has touched these the
  others rest. `init` itself interleaves with both sides.
* `InterfaceTx`: 2 threads, 2 custom interfaces and a CAN interface, 3 packets, bridged
  both ways. A deadlock of two locks needs two of each. The nesting needs no bound of its
  own: it is what the locks allow.
* `Dispatcher`: 2 ports, spelled in several ways, 2 connections, 2 packets, `Backlog` 2,
  `RxLen` 1: a connection's queue can be full when a packet comes.
* `Connections`, transfers: 2 transfers and 2 receive calls of 0 to 3 fragments, the last one
  short or not; `Wrap` 8 stands for 2^32, `Lengths` has a length above it. `MaxNet` 4
  bounds the fragments under way, as a state constraint: a network that duplicates has
  no bound of its own, and the theorems need none.
* `Connections`, calls: 2 clients, 3 calls, 2 ports: a timed-out call, the one that could
  take its reply, on the same port or on the kept connection, and a concurrent one.
  `InLens` holds -1, 0 and a positive length; `ReplyLens` an empty and an expected one.
  `CmpMax` 1 and `U32` 4 scale peek's and poke's limits. `replyroom` has 1 client, a slice
  of 2 bytes and a reply of 3.
* `Mutexes`: 3 contexts, 2 mutexes: one nested in the other, a third context to preempt.

Symmetry is used on names of threads, packets, connections, clients and buffers, only in
runs without liveness properties. `CHECK_DEADLOCK FALSE` stands where the system may
stop: all calls made, the last packet handled, or a lock that is never released.

## 6. Fairness

* `TestQueue`: weak fairness of each thread's steps (the scheduler runs it; the number
  of calls is bounded, so the mutex is not contended forever) and strong fairness of
  `Expire`, since the deadline is computed once from a monotonic clock.
* `BinSem`: weak fairness of each thread's steps and of `ExpireWait`; strong fairness of
  `ExpirePolled`, Embassy's deadline check, which compares with a start time taken before
  its loop. macOS computes a new deadline in every iteration, which justifies the weak
  form only.
* `ThreadStart`: weak fairness of creators and threads; strong fairness of taking the
  map's lock, as the mutex does not pass one thread over forever. A thread that never
  returns is the constant `Endless`, not missing fairness.
* `Dispatcher`: weak fairness of run's own steps (`RunStep`); the 100 ms of `read` elapse.
  A registered closure is one step of run's, so it is assumed to return: with one that
  does not, run settles nothing more. Clients are not forced to send, and the number of
  packets is finite.

No fairness is assumed of posts, calls, spurious wake-ups, the network or other user code.

## 7. Proofs

Every safety property that a run expects to hold, invariant, action property or
refinement, is also a theorem that TLAPS proves for every value of the constants. What
a proof takes from the constants is the named assumption of the component's module
(`TestQueueAssumption`, `RingQueueAssumption`, `PacketFlowAssumption`,
`InterfaceTxAssumption`, `RoutingAssumption`, `NodeLifecycleAssumption`,
`RuntimeAssumption`, `DispatcherAssumption`, `LengthsAssumption`, `ConnsAssumption`,
`SizesAssumption`,
`NamesAssumption`, `FreestandingAssumption`, `FramesAssumption`,
`SfpTransferAssumption`, `ThreadStartAssumption`): sizes are natural
numbers (a capacity is not zero, a header fits the alignment), sets that are counted are
finite, characters of C strings are 1 to 255, and names of places and
ports are not names of connections, users or calls. Two hypotheses delimit a statement:
`"posix" \notin Backends` for the semaphore contract, which the POSIX one breaks (section
4, item 1), and `NoShapeWraps` for the heap (item 22).

* **Ownership** (`PacketFlowProofs`: `BuffersPartitioned`, `ConnectionsAreOwned`,
  `NothingElseStrands`, `TypeCorrect`). The inductive invariant is
  `Shape /\ Partition /\ ConnectionsOwned`: what an action does to the places depends on a
  connection's being in use, so the two halves are not inductive apart. Every action is one
  of two moves, of one buffer or of all buffers of a place, and the lemmas `MoveOwner` and
  `MoveAllOwner` say once that these preserve the partition. That only `listen`, `bind`
  and the socket's drop strand anything needs one fact more, `NothingEarly`: before the
  first `csp_listen` nothing waits in the queue that it replaces.
* **Host queue** (`ArchProofs`: `WakeupsNotLost`, `QueueImplementsContract`,
  `TypeCorrect`). `NoLostWakeup` is proved from a strengthening that counts the threads
  between a change of the queue and its signal together with those already woken; the
  refinement maps a thread's program counter to the phase of its abstract call, and
  needs what each counter says about the call's arguments and result (`CallState`).
* **Semaphores** (`ArchProofs`: `SignalsNotLost`, `SemaphoresAreBinary`). `SemInv`: the
  value is 0 or 1 unless the build is POSIX, only a timed wait expires, and a token beside
  sleepers has somebody awake. A wait is `pending` for the contract at every counter
  between its call and its return.
* **Thread start** (`ArchProofs`: `FunctionsAreNoOlder`). `ThrInv` keeps the order
  in which calls stored their entry point: the variable holds the last one, each call has
  stored once, a thread exists only after its creator has stored, and what it runs was
  stored no earlier than its own function.
* **Mutexes** (`ArchProofs`: `MutexesExclude`). `MutexInv`: on the one core, who holds a mutex
  and has not unlocked another meanwhile is the one running, with interrupts off.
* **Ring** (`RingQueueProofs`: `RingConsistent`, `NothingUninitialised`,
  `RingImplementsPolledFifo`, `TypeCorrect`). The invariant is type correctness, the
  index equation `tail = (head + count) % Capacity`, and that each of the `count` slots
  from `head` was written; the abstract queue is read off those slots in order.
* **Interfaces** (`InterfaceTxProofs`: `LocksAreExclusive`, `PacketsAreAccounted`,
  `OnlyCirclesBlock`, `TypeCorrect`). `Inv` is `Typed /\ Nested /\ Locked /\ Owned`: only
  the innermost call of a thread still has a packet, a lock is held by exactly the thread
  inside, and inside once, and a packet of libcsp's or nexthop's has one call that will
  settle it, while one that user code keeps has none. That blocked calls
  are a circle is read off the locks: the interfaces whose locks are held form a set in
  which each one sends on to another of the set (`Cyclic`).
* **Node, sniffer, lists** (`RuntimeProofs`: `SetupsRunAlone`, `NodeFindsGlobals`,
  `StringsOutliveNode`, `SnifferCaptures`, `SnifferLeavesNothingOn`,
  `HandlesShowTheirRows`, `WalkIsComplete`). `Life` says that at most one call of init is
  past `Swap` and counts the references; `Globals` says what each later step of it has
  left in the globals, and `SelfRoute` where its route is; `Capturing` ties both capture
  flags to the one user between the swaps. Handles and walks hold because registering and
  routing only ever extend the list and the table (`Grows`, `Keeps`) until a clear.
* **Dispatcher** (`DispatcherProofs`: `PortsHaveOneAnswer`, `RunReachesEveryConnection`,
  `TypeCorrect`). `Queued`: a packet waits at a connection whose port it was sent to, so
  the port that `run` looks up is the packet's.
* **Errors** (`ConnectionProofs`: `ErrorsTellCodesApart`). Case by case over the named codes.
* **Request and reply** (`ConnectionProofs`: `WaitersKeepReplies`, `OksAreAnswered`). `Carried`:
  what is under way or queued was sent before now and answered nobody yet, and of a call
  that waits, its own reply travels on its own connection, where nothing is younger.
  That ports are reused only when free (`Waiting`) and that a request's number is in one
  place (`OnePlace`) keep it so; `EndedCalls` keeps for each ended call what was read.
* **SFP** (`ConnectionProofs`: `PrefixesAreReal`, `BlobsAreIntact`). `SendInv` says what a
  fragment under way can be, the last one only from a sender that went on, and `RecvInv`
  that every byte reported came from one; `BlobInv` adds that over RDP each fragment in
  the network begins a blob or continues the one before it (`NetLinked`), so that what
  has been received is one transfer's (`OneSoFar`), which keeps a patchwork of two out.
* **Packet contents** (`MemoryProofs`: `NothingLeftOver`, `PacketsInMemory`). `NoStaleBytes`
  needs, beside the types, that only a user's packet counts as fresh (`Owned`).
  `PacketsInMemory` carries it over to `Memory`.
* **Heap** (`MemoryProofs`: `HeapStaysIntact`). `Sound`: every block starts at a multiple of
  `ALIGN`, blocks that start apart do not overlap, each block is one owner's or one
  queue's, and the header of an owner's block still holds its size; a queue's slots are
  as long as its block, which is where `NoShapeWraps` is needed. A header lies inside
  its own block and outside the bytes its owner writes, because `Word <= ALIGN`.
* **Names** (`MemoryProofs`: `FieldsKeepNames`). `Holds`: the field agrees with the name up
  to its terminator or the width. What comes after the terminator may be anything, as
  `strcpy` leaves it.
* **Tokenisers** (`MemoryProofs`: `TablesAreSplit`). `TokenInv`: the fields found are the
  words of the table before the place reached (`Found`), no word lies across it, and the
  buffer is untouched from there to the end of the entry and after it (`AtField`,
  `AtEntry`). `StrtokFacts` says what one call of `strtok_r` returns.
* **CAN identifiers** (`MemoryProofs`: `AddressesSurvive`). Arithmetic on the three parts.

What the prover does not reach, and TLC alone checks: the liveness properties
(`BlockedCallsProceed`, `TimedCallsReturn`, `TokenTaken`, `TimedWaitReturns`,
`CreationsFinish`, `EveryReachablePacketSettled`), and the violations that
`binsem_posix_token`, `reinit` and `replyroom` find.

## 8. Plan

Done, in this order: the two queues and their contract; semaphores; ownership of packets
and connections; thread start; interfaces; node life cycle and sniffer; dispatcher; SFP;
packet contents; request and reply; mutexes and errors; string helpers,
heap and CAN identifiers; the
interface list and the routing table under the node's life cycle; port spellings; the
proofs of section 7.

Next: abstract specifications of the node (a register written once) and of the packet
pool, with `NodeLifecycle` and `PacketFlow` shown to implement them; `TypeOK` as a theorem
for the components where only the parts that a proof needs are in its invariant.

## 9. Not modelled

* libcsp itself: not in the repository. Its part in each model is marked external.
* `Display` of the errors, `consts.rs`, `sys.rs`, the rest of `lib.rs`: names, text and
  generated bindings. The setters of `CspConfig` store one field each.
* `debug.rs`, the log bridge, `build.rs`, `examples/`, the Embassy stress programs: reading,
  formatting, compiling, and users of the library.
* Clock hooks and `rand`: single calls, or an xorshift; what is computed from their values
  is in libcsp. Which mutexes libcsp nests is not in the repository.
* `route::save`, `check` and `print`, `iflist::stats`, `rdp_set_opt` and `rdp_get_opt`,
  accessors and `Debug`: they copy values between C and the caller.
* `feed_rx` and CFP reassembly; the hooks that answer `reboot`, `shutdown`, `ps` and
  `memfree` on the serving side.
* Duplicated requests and replies in `Transactions` (a duplicate reply can end a later call,
  as a late one can), and the bytes of payloads, which no call looks at.
* In `InterfaceTx`, user code that makes a packet of its own inside `nexthop` and sends it
  from there: the packet sent on is the one it was given. A CAN driver gets bytes only.
* What depends on callers in libcsp or in the application: `sem_wait` interrupted by a signal
  (a wait-forever call then returns false), `queue_empty` dropping packet pointers, the
  default `queue_free_slots` that reports endless room, and the wrap of the millisecond
  clock.
