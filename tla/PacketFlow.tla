----------------------------- MODULE PacketFlow -----------------------------
(***************************************************************************)
(* Who owns a packet buffer.  libcsp has a fixed pool of buffers; the safe *)
(* API (src/src/packet.rs, connection.rs, socket.rs, interface.rs,         *)
(* iflist.rs, init.rs) moves each one between Rust values that free it on  *)
(* drop and C code that frees it by hand.  Ownership crosses the boundary  *)
(* only as a raw pointer: Packet::into_raw forgets the value, from_raw     *)
(* makes one.                                                              *)
(*                                                                         *)
(* at[p] is the set of buffers the place p believes it owns.  The places   *)
(* are independent sets, so that a buffer owned twice (a double free to    *)
(* come) and one owned by nobody (a leak) are both states of the model.    *)
(*                                                                         *)
(* The C core is external.  It is modelled from the wrappers that call it: *)
(* what it is given, what it hands back, and that it may refuse or discard *)
(* any packet.  Connections are plain ones (no RDP timers).                *)
(***************************************************************************)
EXTENDS Integers, FiniteSets

CONSTANTS
  Buffers,     \* the buffer pool (CSP_BUFFER_COUNT)
  Conns,       \* the connection table (CSP_CONN_MAX)
  QfifoLen,    \* length of the router's input queue
  RxLen,       \* length of a connection's and of a socket's receive queue
  MaxListens   \* bound: calls of csp_listen

(***************************************************************************)
(* "pool": free.  "app": in a Packet of the application.  "driver": in a   *)
(* Packet given to CspInterface::nexthop.  "csp": inside a C send.         *)
(* "qfifo": queued for the router.  "router": inside csp_route_work.       *)
(* "sockq": in the receive queue of a connection-less socket.  "lost": in  *)
(* a queue nothing refers to any more.  A connection stands for its own    *)
(* receive queue.                                                          *)
(***************************************************************************)
Places == {"pool", "app", "driver", "csp", "qfifo", "router", "sockq", "lost"} \cup Conns

ASSUME PacketFlowAssumption ==
  /\ IsFiniteSet(Buffers) /\ IsFiniteSet(Conns)
  /\ {"pool", "app", "driver", "csp", "qfifo", "router", "sockq", "lost"} \cap Conns = {}
  /\ QfifoLen \in Nat /\ RxLen \in Nat /\ MaxListens \in Nat

VARIABLES
  at,        \* place -> the buffers it owns
  used,      \* slots of the connection table in use
  handles,   \* connections owned by a Connection value
  backlog,   \* connections waiting in the listening socket's queue
  sock,      \* the Socket value: "none", "idle" or "binding" (between the two calls of bind)
  connLess,  \* it was made with CSP_SO_CONN_LESS
  bound,     \* a port of the port table refers to it
  queue,     \* its receive queue has been created
  listens    \* calls of csp_listen (for the bound only)

sockVars == <<sock, connLess, bound, queue, listens>>
connVars == <<used, handles, backlog>>
vars == <<at, connVars, sockVars>>

(* No queue holds more than it has room for.                               *)
QueuesBounded ==
  /\ Cardinality(at["qfifo"]) <= QfifoLen
  /\ \A p \in Conns \cup {"sockq"} : Cardinality(at[p]) <= RxLen
  /\ Cardinality(backlog) <= RxLen

TypeOK ==
  /\ at \in [Places -> SUBSET Buffers]
  /\ used \subseteq Conns /\ handles \subseteq Conns /\ backlog \subseteq Conns
  /\ sock \in {"none", "idle", "binding"}
  /\ connLess \in BOOLEAN /\ bound \in BOOLEAN /\ queue \in BOOLEAN
  /\ listens \in 0..MaxListens
  /\ QueuesBounded

(* Buffer b changes owner.                                                 *)
Move(b, from, to) ==
  /\ b \in at[from]
  /\ at' = [at EXCEPT ![from] = @ \ {b}, ![to] = @ \cup {b}]

(* Everything in one place changes owner.                                  *)
MoveAll(from, to) ==
  at' = [at EXCEPT ![from] = {}, ![to] = @ \cup at[from]]

Init ==
  /\ at = [p \in Places |-> IF p = "pool" THEN Buffers ELSE {}]
  /\ used = {} /\ handles = {} /\ backlog = {}
  /\ sock = "none" /\ connLess = FALSE /\ bound = FALSE /\ queue = FALSE
  /\ listens = 0

-----------------------------------------------------------------------------
(* Packets.                                                                *)

(* Packet::get.                                                            *)
Get(b) == Move(b, "pool", "app") /\ UNCHANGED <<connVars, sockVars>>

(* Drop for Packet, in the application or in a driver; a panic in nexthop  *)
(* is caught by the guard and drops the packet while unwinding.            *)
DropPacket(b) ==
  /\ \E p \in {"app", "driver"} : Move(b, p, "pool")
  /\ UNCHANGED <<connVars, sockVars>>

(* Mutant: the pointer taken without core::mem::forget, so that the Packet *)
(* value is still there to be dropped.                                     *)
Send_NoForget(b, c) ==
  /\ c \in handles
  /\ b \in at["app"]
  /\ at' = [at EXCEPT !["csp"] = @ \cup {b}]
  /\ UNCHANGED <<connVars, sockVars>>

(* Connection::send and send_prio: into_raw, then C owns the buffer.       *)
Send(b, c) ==
  /\ c \in handles
  /\ Move(b, "app", "csp")
  /\ UNCHANGED <<connVars, sockVars>>

(* Connection::handle_service: C answers with the same buffer or frees it. *)
HandleService(b, c) ==
  /\ c \in handles
  /\ Move(b, "app", "csp")
  /\ UNCHANGED <<connVars, sockVars>>

(* CspNode::sendto.                                                        *)
Sendto(b) == Move(b, "app", "csp") /\ UNCHANGED <<connVars, sockVars>>

(* iflist::send_via: the id is copied out before into_raw, and the packet  *)
(* goes to the given interface whatever the routes say.                    *)
SendVia(b) ==
  /\ Move(b, "app", "csp")
  /\ UNCHANGED <<connVars, sockVars>>

(* csp_qfifo_write: a full queue frees the packet.                         *)
QfifoWrite(b, from) ==
  Move(b, from, IF Cardinality(at["qfifo"]) < QfifoLen THEN "qfifo" ELSE "pool")

(* InterfaceHandle::rx, on a packet the driver has built or has kept.      *)
Rx(b) ==
  /\ \E p \in {"app", "driver"} : QfifoWrite(b, p)
  /\ UNCHANGED <<connVars, sockVars>>

(* The C send reaches a registered interface: nexthop_shim makes a Packet  *)
(* of the pointer and gives it to CspInterface::nexthop.                   *)
Nexthop(b) == Move(b, "csp", "driver") /\ UNCHANGED <<connVars, sockVars>>

(* The C send reaches SELF: self_iface_tx queues it for the router.        *)
SelfIfaceTx(b) == QfifoWrite(b, "csp") /\ UNCHANGED <<connVars, sockVars>>

(* The C send finds no route, or csp_service_handler has no reply to make. *)
SendDiscards(b) == Move(b, "csp", "pool") /\ UNCHANGED <<connVars, sockVars>>

-----------------------------------------------------------------------------
(* The router: csp_route_work, called by CspNode::route_work.              *)

RouteWork(b) == Move(b, "qfifo", "router") /\ UNCHANGED <<connVars, sockVars>>

RouteForward(b) == Move(b, "router", "csp") /\ UNCHANGED <<connVars, sockVars>>

(* Not for this node, a bad checksum, no such port, a duplicate.           *)
RouteDiscard(b) == Move(b, "router", "pool") /\ UNCHANGED <<connVars, sockVars>>

(* To a connection in the table, whoever has it.                           *)
RouteToConn(b, c) ==
  /\ c \in used
  /\ Move(b, "router", IF Cardinality(at[c]) < RxLen THEN c ELSE "pool")
  /\ UNCHANGED <<connVars, sockVars>>

(* To a connection-less socket; without a queue, or on a full one, the     *)
(* packet is freed (queue_enqueue returns false on a null queue).          *)
RouteToSocket(b) ==
  /\ bound /\ connLess
  /\ Move(b, "router",
          IF queue /\ Cardinality(at["sockq"]) < RxLen THEN "sockq" ELSE "pool")
  /\ UNCHANGED <<connVars, sockVars>>

(* A new connection: put the packet in it and it in the socket's queue; if *)
(* that fails the connection is closed again and the packet freed.         *)
RouteNewConn(b, c) ==
  /\ bound /\ ~connLess
  /\ c \notin used
  /\ IF queue /\ Cardinality(backlog) < RxLen
     THEN /\ Move(b, "router", c)
          /\ used' = used \cup {c}
          /\ backlog' = backlog \cup {c}
          /\ UNCHANGED handles
     ELSE /\ Move(b, "router", "pool")
          /\ UNCHANGED connVars
  /\ UNCHANGED sockVars

-----------------------------------------------------------------------------
(* Connections.                                                            *)

(* CspNode::connect.                                                       *)
Connect(c) ==
  /\ c \notin used
  /\ used' = used \cup {c}
  /\ handles' = handles \cup {c}
  /\ UNCHANGED <<at, backlog, sockVars>>

(* Connection::read.                                                       *)
Read(b, c) ==
  /\ c \in handles
  /\ Move(b, c, "app")
  /\ UNCHANGED <<connVars, sockVars>>

(* Mutant: no csp_close when a Connection is dropped.                      *)
DropConnection_NoClose(c) ==
  /\ c \in handles
  /\ handles' = handles \ {c}
  /\ UNCHANGED <<at, used, backlog, sockVars>>

(* Drop for Connection: csp_close frees what its queue still holds.        *)
DropConnection(c) ==
  /\ c \in handles
  /\ handles' = handles \ {c}
  /\ used' = used \ {c}
  /\ MoveAll(c, "pool")
  /\ UNCHANGED <<backlog, sockVars>>

-----------------------------------------------------------------------------
(* The listening socket.  bind, listen and drop take it exclusively        *)
(* (&mut self), so they exclude accept, recvfrom and each other, but not   *)
(* the router, which finds it through the port table.                      *)

SocketNew(opt) ==
  /\ sock = "none"
  /\ sock' = "idle" /\ connLess' = opt
  /\ UNCHANGED <<at, connVars, bound, queue, listens>>

(* The first call of bind; if csp_bind fails, bind returns and nothing has *)
(* changed.                                                                *)
BindPort ==
  /\ sock = "idle"
  /\ listens < MaxListens
  /\ sock' = "binding" /\ bound' = TRUE
  /\ UNCHANGED <<at, connVars, connLess, queue, listens>>

(* csp_listen: a new receive queue.  Nothing is moved over from the old    *)
(* one: what was in it stays there, and nothing refers to it any more.     *)
CspListen ==
  /\ queue' = TRUE
  /\ listens' = listens + 1
  /\ backlog' = {}
  /\ MoveAll("sockq", "lost")

(* The second call of bind.                                                *)
BindListen ==
  /\ sock = "binding"
  /\ sock' = "idle"
  /\ CspListen
  /\ UNCHANGED <<used, handles, connLess, bound>>

(* Socket::listen.                                                         *)
Listen ==
  /\ sock = "idle"
  /\ listens < MaxListens
  /\ CspListen
  /\ UNCHANGED <<used, handles, sock, connLess, bound>>

(* Mutant: accept returns the connection and leaves it in the queue.       *)
Accept_Peek(c) ==
  /\ sock = "idle" /\ queue /\ ~connLess
  /\ c \in backlog
  /\ handles' = handles \cup {c}
  /\ UNCHANGED <<at, used, backlog, sockVars>>

(* Socket::accept.                                                         *)
Accept(c) ==
  /\ sock = "idle" /\ queue /\ ~connLess
  /\ c \in backlog
  /\ backlog' = backlog \ {c}
  /\ handles' = handles \cup {c}
  /\ UNCHANGED <<at, used, sockVars>>

(* Socket::recvfrom.                                                       *)
Recvfrom(b) ==
  /\ sock = "idle" /\ queue /\ connLess
  /\ Move(b, "sockq", "app")
  /\ UNCHANGED <<connVars, sockVars>>

(* Drop for Socket: csp_socket_close takes it out of the port table; the   *)
(* Box with its queue is then freed.  The wrapper does not look at what is *)
(* still queued, so whether C releases it is left open.                    *)
DropSocket ==
  /\ sock = "idle"
  /\ sock' = "none" /\ bound' = FALSE /\ queue' = FALSE /\ connLess' = FALSE
  /\ backlog' = {}
  /\ \/ /\ used' = used \ backlog
        /\ at' = [p \in Places |->
                    IF p = "pool" THEN at[p] \cup at["sockq"] \cup UNION {at[c] : c \in backlog}
                    ELSE IF p \in backlog \cup {"sockq"} THEN {} ELSE at[p]]
     \/ /\ MoveAll("sockq", "lost")
        /\ UNCHANGED used
  /\ UNCHANGED <<handles, listens>>

-----------------------------------------------------------------------------
Next ==
  \/ \E b \in Buffers :
       \/ Get(b) \/ DropPacket(b) \/ Sendto(b) \/ SendVia(b) \/ Rx(b)
       \/ Nexthop(b) \/ SelfIfaceTx(b) \/ SendDiscards(b)
       \/ RouteWork(b) \/ RouteForward(b) \/ RouteDiscard(b) \/ RouteToSocket(b)
       \/ Recvfrom(b)
       \/ \E c \in Conns :
            \/ Send(b, c) \/ HandleService(b, c) \/ Read(b, c)
            \/ RouteToConn(b, c) \/ RouteNewConn(b, c)
  \/ \E c \in Conns : Connect(c) \/ DropConnection(c) \/ Accept(c)
  \/ \E opt \in BOOLEAN : SocketNew(opt)
  \/ BindPort \/ BindListen \/ Listen \/ DropSocket

Spec == Init /\ [][Next]_vars

-----------------------------------------------------------------------------
(***************************************************************************)
(* Properties                                                              *)
(***************************************************************************)

(* Every buffer of the pool has exactly one owner, whatever mixture of     *)
(* sends, receives, drops, routing and socket calls has gone before: no    *)
(* into_raw or from_raw makes two owners, and none forgets a buffer.       *)
Partition ==
  \A b \in Buffers :
    \E p \in Places : b \in at[p] /\ \A q \in Places : b \in at[q] => q = p

(* A connection has at most one owner on the Rust side: while a Connection *)
(* value holds it, accept will not return it again, so that its drop       *)
(* closes a connection nobody else has; and a slot that is not in use      *)
(* holds no packets for its next user to read.                             *)
ConnectionsOwned ==
  /\ handles \cap backlog = {}
  /\ handles \cup backlog \subseteq used
  /\ \A c \in Conns \ used : at[c] = {}

(* Connections in the table that no value refers to and no accept will     *)
(* return, and the buffers that nothing can free any more.                 *)
Orphans == used \ (handles \cup backlog)
Stranded == at["lost"] \cup UNION {at[c] : c \in Orphans}

(* A buffer is stranded only by a csp_listen that replaces a queue, by the *)
(* drop of the socket, or by joining an orphaned connection that one of    *)
(* these made; and what is stranded stays so.                              *)
StrandedOnlyByRelisten ==
  [][/\ Stranded \subseteq Stranded'
     /\ \A b \in Stranded' \ Stranded :
          \/ queue /\ listens' # listens
          \/ sock # "none" /\ sock' = "none"
          \/ b \in at["router"] /\ \E c \in Orphans : b \in at'[c]]_vars
=============================================================================
