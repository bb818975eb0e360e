---------------------------- MODULE InterfaceTx ----------------------------
(***************************************************************************)
(* Transmission through Rust interfaces: libcsp calls nexthop_shim         *)
(* (src/src/interface.rs) or can_tx_trampoline (src/src/can.rs) on the     *)
(* sending thread; the shim takes the interface's spin lock and runs user  *)
(* code, which may keep the packet, drop it, hand it to the router or send *)
(* it on through another interface, and may panic.  A packet it keeps is   *)
(* the user's until some task drops it, queues it or sends it.  guard      *)
(* (src/src/ffi_util.rs) stops the panic at the shim.  A nonzero return    *)
(* code makes libcsp free the packet itself.                               *)
(***************************************************************************)
EXTENDS Integers, Sequences, SequencesExt, FiniteSets

CONSTANTS
  Threads,   \* threads that send: applications and the router
  Packets,   \* packet buffers
  Ifaces,    \* interfaces added with interface::register or can::add_interface
  Can,       \* those added with can::add_interface
  Bridge,    \* per interface, those its nexthop may send a packet on through
  None

ASSUME InterfaceTxAssumption ==
  /\ IsFiniteSet(Ifaces)
  /\ Can \subseteq Ifaces
  /\ Bridge \in [Ifaces -> SUBSET Ifaces]
  /\ \A i \in Can : Bridge[i] = {}     \* a CanDriver gets bytes, not a packet
  /\ None \notin Threads

VARIABLES
  lock,      \* per interface, the thread in its user_iface / driver lock, or None
  stack,     \* per thread, its shim calls, the innermost last
  at         \* per packet: "pool", "c" (libcsp's), "rust" (nexthop's argument),
             \* "held" (kept by user code), "router", or "double" (freed twice)

vars == <<lock, stack, at>>

(* A shim call waits for the lock, or runs user code that still owns the   *)
(* packet ("body") or has given it away ("spent").                         *)
Frames == [iface : Ifaces, pkt : Packets, st : {"wait", "body", "spent"}]

(* Every nested call but the innermost holds a lock of its own.            *)
MaxDepth == Cardinality(Ifaces) + 1

TypeOK ==
  /\ lock \in [Ifaces -> Threads \cup {None}]
  /\ stack \in [Threads -> Seq(Frames)]
  /\ \A t \in Threads : Len(stack[t]) <= MaxDepth
  /\ at \in [Packets -> {"pool", "c", "rust", "held", "router", "double"}]

(* register and add_interface have leaked one state per interface.         *)
Init ==
  /\ lock = [i \in Ifaces |-> None]
  /\ stack = [t \in Threads |-> <<>>]
  /\ at = [p \in Packets |-> "pool"]

-----------------------------------------------------------------------------
Calling(t) == stack[t] # <<>>
Top(t) == Last(stack[t])
Push(t, f) == stack' = [stack EXCEPT ![t] = Append(@, f)]
Pop(t) == stack' = [stack EXCEPT ![t] = Front(@)]
SetTop(t, st) == stack' = [stack EXCEPT ![t][Len(stack[t])].st = st]

(* libcsp sends a packet, new or kept, and calls the interface's nexthop.  *)
Transmit(t, i, p) ==
  /\ ~Calling(t)
  /\ at[p] \in {"pool", "held"}
  /\ at' = [at EXCEPT ![p] = "c"]
  /\ Push(t, [iface |-> i, pkt |-> p, st |-> "wait"])
  /\ UNCHANGED lock

(* The shim gets the spin lock and calls nexthop, with the packet turned   *)
(* into an owned Packet, or CanDriver::transmit, which sees only bytes.    *)
Enter(t) ==
  /\ Calling(t) /\ Top(t).st = "wait"
  /\ lock[Top(t).iface] = None
  /\ lock' = [lock EXCEPT ![Top(t).iface] = t]
  /\ SetTop(t, "body")
  /\ at' = [at EXCEPT ![Top(t).pkt] = IF Top(t).iface \in Can THEN @ ELSE "rust"]

(* nexthop drops the packet, hands it to the router (InterfaceHandle::rx)  *)
(* or keeps it for later (in a transmit queue, say), and goes on.          *)
GiveAway(t, where) ==
  /\ Calling(t) /\ Top(t).st = "body" /\ Top(t).iface \notin Can
  /\ at' = [at EXCEPT ![Top(t).pkt] = where]
  /\ SetTop(t, "spent")
  /\ UNCHANGED lock

(* nexthop sends the packet on: libcsp calls another shim from within.     *)
SendOn(t, j) ==
  /\ Calling(t) /\ Top(t).st = "body" /\ j \in Bridge[Top(t).iface]
  /\ at' = [at EXCEPT ![Top(t).pkt] = "c"]
  /\ stack' = [stack EXCEPT ![t] =
                 Append(Front(@) \o <<[Last(@) EXCEPT !.st = "spent"]>>,
                        [iface |-> j, pkt |-> Last(@).pkt, st |-> "wait"])]
  /\ UNCHANGED lock

(* User code ends: a packet that nexthop still owns is dropped.  With a    *)
(* nonzero code libcsp's caller frees the packet; with zero nexthop's is   *)
(* gone already, and the CAN driver's is freed by libcsp's CAN layer.      *)
Settle(f, rc) ==
  LET isCan == f.iface \in Can
      kept  == IF f.st = "body" /\ ~isCan THEN "pool" ELSE at[f.pkt]
      freed == rc # 0 \/ isCan
  IN  at' = [at EXCEPT ![f.pkt] = CASE ~freed -> kept
                                    [] freed /\ kept = "c" -> "pool"
                                    [] freed /\ kept # "c" -> "double"]

(* The user code returns: nexthop_shim yields 0 whatever happened, the     *)
(* trampoline 0 or -1 as the driver says.                                  *)
Finish(t) ==
  /\ Calling(t) /\ Top(t).st # "wait"
  /\ lock' = [lock EXCEPT ![Top(t).iface] = None]
  /\ Pop(t)
  /\ \E rc \in {0, -1} : /\ Top(t).iface \notin Can => rc = 0
                         /\ Settle(Top(t), rc)

(* Mutant: the panic leaves the lock taken (a lock without a guard).       *)
Panic_KeepsLock(t) ==
  /\ Calling(t) /\ Top(t).st # "wait"
  /\ UNCHANGED lock
  /\ Pop(t)
  /\ Settle(Top(t), IF Top(t).iface \in Can THEN -1 ELSE 0)

(* Mutant: the packet is in a ManuallyDrop that unwinding does not drop.   *)
Panic_LeaksPacket(t) ==
  /\ Calling(t) /\ Top(t).st # "wait"
  /\ lock' = [lock EXCEPT ![Top(t).iface] = None]
  /\ Pop(t)
  /\ Settle([Top(t) EXCEPT !.st = "spent"], IF Top(t).iface \in Can THEN -1 ELSE 0)

(* The user code panics: unwinding drops the packet it still owns and the  *)
(* lock's guard; guard swallows the panic, and the code is the initial one *)
(* of the trampoline, -1, or nexthop_shim's 0.                             *)
Panic(t) ==
  /\ Calling(t) /\ Top(t).st # "wait"
  /\ lock' = [lock EXCEPT ![Top(t).iface] = None]
  /\ Pop(t)
  /\ Settle(Top(t), IF Top(t).iface \in Can THEN -1 ELSE 0)

(* InterfaceHandle::rx from a receive task, with a new packet or one that  *)
(* was kept: libcsp queues it, or frees it when the queue is full.         *)
Rx(p) ==
  /\ at[p] \in {"pool", "held"}
  /\ \E where \in {"pool", "router"} : at' = [at EXCEPT ![p] = where]
  /\ UNCHANGED <<lock, stack>>

(* The kept packet has gone out, and its Packet is dropped.                *)
DropHeld(p) ==
  /\ at[p] = "held"
  /\ at' = [at EXCEPT ![p] = "pool"]
  /\ UNCHANGED <<lock, stack>>

(* The router takes a packet from its queue and frees it in the end.       *)
Route(p) ==
  /\ at[p] = "router"
  /\ at' = [at EXCEPT ![p] = "pool"]
  /\ UNCHANGED <<lock, stack>>

Next ==
  \/ \E t \in Threads :
       \/ \E i \in Ifaces, p \in Packets : Transmit(t, i, p)
       \/ Enter(t)
       \/ \E where \in {"pool", "held", "router"} : GiveAway(t, where)
       \/ \E j \in Ifaces : SendOn(t, j)
       \/ Finish(t)
       \/ Panic(t)
  \/ \E p \in Packets : Rx(p) \/ DropHeld(p) \/ Route(p)

Spec == Init /\ [][Next]_vars

-----------------------------------------------------------------------------
(***************************************************************************)
(* Properties                                                              *)
(***************************************************************************)

Calls(t) == {stack[t][k] : k \in 1..Len(stack[t])}

(* The &mut given to nexthop or transmit is exclusive: an interface's lock *)
(* is held exactly while one thread runs its user code, panics included.   *)
LockMatchesCalls ==
  \A i \in Ifaces :
    /\ \A t \in Threads :
         lock[i] = t <=> \E f \in Calls(t) : f.iface = i /\ f.st # "wait"
    /\ \A t, u \in Threads :
         (\E f \in Calls(t), g \in Calls(u) :
            f.iface = i /\ g.iface = i /\ f.st # "wait" /\ g.st # "wait") => t = u

(* No packet is lost on the way, or freed twice: libcsp's and nexthop's    *)
(* belong to a call that will still settle them, and no others do; and the *)
(* code a shim returns never makes libcsp free a packet that user code has *)
(* disposed of or kept.                                                    *)
EveryPacketAccounted ==
  \A p \in Packets :
    /\ at[p] # "double"
    /\ at[p] \in {"c", "rust"} <=>
         \E t \in Threads : \E f \in Calls(t) : f.pkt = p /\ f.st # "spent"

(* The sends in progress from within an interface's user code.             *)
SendsOn ==
  UNION {{<<stack[t][k].iface, stack[t][k + 1].iface>> : k \in 1..(Len(stack[t]) - 1)} :
           t \in Threads}

Cyclic(R) ==
  \E S \in (SUBSET Ifaces) \ {{}} : \A i \in S : \E j \in S : <<i, j>> \in R

(* Calls all spin on locks held by one another only when packets are being *)
(* sent on in a circle: without one, however calls nest, fail and panic,   *)
(* some call can always go on.                                             *)
StuckOnlyInACircle ==
  (/\ \E t \in Threads : Calling(t)
   /\ \A t \in Threads : Calling(t) => Top(t).st = "wait" /\ lock[Top(t).iface] # None)
    => Cyclic(SendsOn)
=============================================================================
