-------------------------- MODULE PacketFlowProofs --------------------------
(***************************************************************************)
(* Every packet buffer has exactly one owner, for any number of buffers    *)
(* and connections and any queue lengths.                                  *)
(***************************************************************************)
EXTENDS PacketFlow, FiniteSetTheorems, TLAPS

Names == {"pool", "app", "driver", "csp", "qfifo", "router", "sockq", "lost"}

(* The type invariant without the queue bounds and the socket.             *)
Shape ==
  /\ at \in [Places -> SUBSET Buffers]
  /\ used \subseteq Conns /\ handles \subseteq Conns /\ backlog \subseteq Conns

(* A buffer given by one place to another keeps a single owner, and every  *)
(* other place keeps what it had.                                          *)
LEMMA MoveOwner ==
  ASSUME Shape, Partition,
         NEW b \in Buffers, NEW from \in Places, NEW to \in Places, from # to,
         Move(b, from, to)
  PROVE  /\ at' \in [Places -> SUBSET Buffers]
         /\ Partition'
         /\ at'[to] = at[to] \cup {b}
         /\ \A p \in Places : p # to => at'[p] \subseteq at[p]
<1>1. /\ at' \in [Places -> SUBSET Buffers]
      /\ at'[to] = at[to] \cup {b}
      /\ at'[from] = at[from] \ {b}
      /\ \A p \in Places \ {from, to} : at'[p] = at[p]
  BY DEF Move, Shape
<1>2. \A p \in Places : p # to => at'[p] \subseteq at[p]
  BY <1>1
<1>3. ASSUME NEW x \in Buffers
      PROVE  \E p \in Places : x \in at'[p] /\ \A q \in Places : x \in at'[q] => q = p
  <2>1. PICK p \in Places : x \in at[p] /\ \A q \in Places : x \in at[q] => q = p
    BY DEF Partition
  <2>2. CASE x = b
    <3>1. p = from
      BY <2>1, <2>2 DEF Move
    <3>2. x \in at'[to] /\ \A q \in Places : x \in at'[q] => q = to
      BY <1>1, <2>1, <2>2, <3>1
    <3> QED BY <3>2
  <2>3. CASE x # b
    <3>1. x \in at'[p] /\ \A q \in Places : x \in at'[q] => q = p
      BY <1>1, <2>1, <2>3
    <3> QED BY <3>1
  <2> QED BY <2>2, <2>3
<1>4. Partition'
  BY <1>3 DEF Partition
<1> QED BY <1>1, <1>2, <1>4

(* The same when a whole queue changes owner.                              *)
LEMMA MoveAllOwner ==
  ASSUME Shape, Partition,
         NEW from \in Places, NEW to \in Places, from # to,
         MoveAll(from, to)
  PROVE  /\ at' \in [Places -> SUBSET Buffers]
         /\ Partition'
         /\ at'[from] = {}
         /\ \A p \in Places : p # to => at'[p] \subseteq at[p]
<1>1. /\ at' \in [Places -> SUBSET Buffers]
      /\ at'[to] = at[to] \cup at[from]
      /\ at'[from] = {}
      /\ \A p \in Places \ {from, to} : at'[p] = at[p]
  BY DEF MoveAll, Shape
<1>2. \A p \in Places : p # to => at'[p] \subseteq at[p]
  BY <1>1
<1>3. ASSUME NEW x \in Buffers
      PROVE  \E p \in Places : x \in at'[p] /\ \A q \in Places : x \in at'[q] => q = p
  <2>1. PICK p \in Places : x \in at[p] /\ \A q \in Places : x \in at[q] => q = p
    BY DEF Partition
  <2>2. CASE p = from
    <3>1. x \in at'[to] /\ \A q \in Places : x \in at'[q] => q = to
      BY <1>1, <2>1, <2>2
    <3> QED BY <3>1
  <2>3. CASE p # from
    <3>1. x \in at'[p] /\ \A q \in Places : x \in at'[q] => q = p
      BY <1>1, <2>1, <2>3
    <3> QED BY <3>1
  <2> QED BY <2>2, <2>3
<1>4. Partition'
  BY <1>3 DEF Partition
<1> QED BY <1>1, <1>2, <1>4

(***************************************************************************)
(* Ownership.  The induction hypothesis joins the three facts: a connection*)
(* that is closed or routed to must be one whose queue is accounted for.   *)
(***************************************************************************)
Owned == Shape /\ Partition /\ ConnectionsOwned

(* A packet moved within the table of connections as it is.                *)
LEMMA MoveOwned ==
  ASSUME Owned,
         NEW b \in Buffers, NEW from \in Places, NEW to \in Names \cup used, from # to,
         Move(b, from, to), UNCHANGED connVars
  PROVE  Owned'
<1>1. to \in Places /\ (to \in Conns => to \in used)
  BY PacketFlowAssumption DEF Owned, Shape, Places, Names
<1>2. /\ at' \in [Places -> SUBSET Buffers]
      /\ Partition'
      /\ \A p \in Places : p # to => at'[p] \subseteq at[p]
  BY <1>1, MoveOwner DEF Owned
<1>3. ConnectionsOwned'
  BY <1>1, <1>2 DEF Owned, ConnectionsOwned, connVars, Places
<1> QED BY <1>2, <1>3 DEF Owned, Shape, connVars

(* A packet into the router's queue, or back to the pool if it is full.    *)
LEMMA QfifoWriteOwned ==
  ASSUME Owned, NEW b \in Buffers, NEW from \in Names \ {"qfifo", "pool"},
         QfifoWrite(b, from), UNCHANGED connVars
  PROVE  Owned'
<1> DEFINE to == IF Cardinality(at["qfifo"]) < QfifoLen THEN "qfifo" ELSE "pool"
<1>1. to \in Names \cup used /\ from \in Places /\ from # to
  BY DEF Names, Places
<1>2. Move(b, from, to)
  BY DEF QfifoWrite
<1> QED
  BY <1>1, <1>2, MoveOwned, Zenon

(* At the start all buffers are in the pool, and no connection is in use.  *)
LEMMA OwnedInit == Init => Owned
<1> SUFFICES ASSUME Init PROVE Owned
  OBVIOUS
<1>1. Shape /\ ConnectionsOwned
  BY PacketFlowAssumption DEF Init, Shape, ConnectionsOwned, Places
<1>2. "pool" \in Places
  BY DEF Places
<1>3. Partition
  BY <1>2 DEF Init, Partition
<1> QED BY <1>1, <1>3 DEF Owned

(* csp_listen on a socket: its queue's packets are set aside.              *)
LEMMA CspListenOwned ==
  ASSUME Owned, CspListen, UNCHANGED <<used, handles>>
  PROVE  Owned'
<1>1. "sockq" \in Places /\ "lost" \in Places
  BY DEF Places
<1>2. /\ at' \in [Places -> SUBSET Buffers]
      /\ Partition'
      /\ \A p \in Places : p # "lost" => at'[p] \subseteq at[p]
  BY <1>1, MoveAllOwner DEF Owned, CspListen
<1>3. ConnectionsOwned'
  BY <1>2, PacketFlowAssumption DEF Owned, ConnectionsOwned, CspListen, Places
<1> QED BY <1>2, <1>3 DEF Owned, Shape, CspListen

(* Closing a connection: its packets go back to the pool.                  *)
LEMMA DropConnectionOwned ==
  ASSUME Owned, NEW c \in Conns, DropConnection(c)
  PROVE  Owned'
<1>1. c \in Places /\ "pool" \in Places /\ c # "pool"
  BY PacketFlowAssumption DEF Places
<1>2. /\ at' \in [Places -> SUBSET Buffers]
      /\ Partition'
      /\ at'[c] = {}
      /\ \A p \in Places : p # "pool" => at'[p] \subseteq at[p]
  BY <1>1, MoveAllOwner DEF Owned, DropConnection
<1>3. ConnectionsOwned'
  <2>1. \A d \in Conns : d \in Places /\ d # "pool"
    BY PacketFlowAssumption DEF Places
  <2> QED
    BY <1>2, <2>1 DEF Owned, ConnectionsOwned, DropConnection
<1> QED BY <1>2, <1>3 DEF Owned, Shape, DropConnection

(* A new incoming connection, with its first packet.                       *)
LEMMA RouteNewConnOwned ==
  ASSUME Owned, NEW b \in Buffers, NEW c \in Conns, RouteNewConn(b, c)
  PROVE  Owned'
<1>0. "router" \in Places /\ c \in Places /\ c # "router"
  BY PacketFlowAssumption DEF Places
<1>1. CASE queue /\ Cardinality(backlog) < RxLen
  <2>1. /\ Move(b, "router", c)
        /\ used' = used \cup {c}
        /\ backlog' = backlog \cup {c}
        /\ handles' = handles
        /\ c \notin used
    BY <1>1 DEF RouteNewConn
  <2>2. /\ at' \in [Places -> SUBSET Buffers]
        /\ Partition'
        /\ \A p \in Places : p # c => at'[p] \subseteq at[p]
    BY <1>0, <2>1, MoveOwner DEF Owned
  <2>3. ConnectionsOwned'
    BY <2>1, <2>2 DEF Owned, ConnectionsOwned, Places
  <2> QED BY <2>1, <2>2, <2>3 DEF Owned, Shape
<1>2. CASE ~(queue /\ Cardinality(backlog) < RxLen)
  <2>1. Move(b, "router", "pool") /\ UNCHANGED connVars
    BY <1>2 DEF RouteNewConn
  <2>2. "pool" \in Names \cup used
    BY DEF Names
  <2> QED BY <1>0, <2>1, <2>2, MoveOwned
<1> QED BY <1>1, <1>2

(* Dropping the socket, whether or not what it still queued is released.   *)
LEMMA DropSocketOwned ==
  ASSUME Owned, DropSocket
  PROVE  Owned'
<1>0. /\ "sockq" \in Places /\ "lost" \in Places /\ "pool" \in Places
      /\ \A d \in Conns : d \in Places /\ d \notin Names
  BY PacketFlowAssumption DEF Places, Names
<1>1. CASE /\ used' = used \ backlog
           /\ at' = [p \in Places |->
                       IF p = "pool" THEN at[p] \cup at["sockq"] \cup UNION {at[c] : c \in backlog}
                       ELSE IF p \in backlog \cup {"sockq"} THEN {} ELSE at[p]]
  <2> DEFINE gone == backlog \cup {"sockq"}
  <2>1. backlog \subseteq Places /\ "pool" \notin gone
    BY <1>0 DEF Owned, Shape, Names
  <2>2. /\ \A x : x \in at'["pool"] <=>
                   x \in at["pool"] \/ \E g \in gone : x \in at[g]
        /\ \A p \in Places \ {"pool"} : at'[p] = IF p \in gone THEN {} ELSE at[p]
    BY <1>0, <1>1
  <2>3. at' \in [Places -> SUBSET Buffers]
    <3>1. \A p \in Places : at[p] \subseteq Buffers
      BY DEF Owned, Shape
    <3>2. \A p \in Places : at'[p] \subseteq Buffers
      BY <1>0, <2>1, <2>2, <3>1
    <3> QED BY <1>1, <3>2
  <2>4. ASSUME NEW x \in Buffers
        PROVE  \E p \in Places : x \in at'[p] /\ \A q \in Places : x \in at'[q] => q = p
    <3>1. PICK p \in Places : x \in at[p] /\ \A q \in Places : x \in at[q] => q = p
      BY DEF Owned, Partition
    <3>2. CASE p \in gone
      <4>1. x \in at'["pool"]
        BY <2>2, <3>1, <3>2
      <4>2. \A q \in Places : x \in at'[q] => q = "pool"
        BY <2>2, <3>1, <3>2
      <4> QED BY <1>0, <4>1, <4>2
    <3>3. CASE p \notin gone
      <4>1. \A g \in gone : x \notin at[g]
        BY <1>0, <2>1, <3>1, <3>3
      <4>2. x \in at'[p] /\ \A q \in Places : x \in at'[q] => q = p
        BY <1>0, <2>2, <3>1, <3>3, <4>1
      <4> QED BY <4>2
    <3> QED BY <3>2, <3>3
  <2>5. ConnectionsOwned'
    <3>1. \A d \in Conns : d # "pool"
      BY <1>0 DEF Names
    <3> QED
      BY <1>0, <1>1, <2>2, <3>1 DEF Owned, ConnectionsOwned, DropSocket
  <2> QED
    BY <1>1, <2>3, <2>4, <2>5 DEF Owned, Shape, Partition, DropSocket
<1>2. CASE MoveAll("sockq", "lost") /\ UNCHANGED used
  <2>1. /\ at' \in [Places -> SUBSET Buffers]
        /\ Partition'
        /\ \A p \in Places : p # "lost" => at'[p] \subseteq at[p]
    BY <1>0, <1>2, MoveAllOwner DEF Owned
  <2>2. ConnectionsOwned'
    BY <1>0, <1>2, <2>1 DEF Owned, ConnectionsOwned, DropSocket, Names
  <2> QED BY <1>2, <2>1, <2>2 DEF Owned, Shape, DropSocket
<1> QED BY <1>1, <1>2 DEF DropSocket

(* Every step of the system keeps ownership.                               *)
LEMMA OwnedNext == Owned /\ [Next]_vars => Owned'
<1> SUFFICES ASSUME Owned, [Next]_vars PROVE Owned'
  OBVIOUS
<1>0. /\ Names \subseteq Places
      /\ Conns \subseteq Places
      /\ \A c \in Conns : c \notin Names
      /\ used \subseteq Conns
  BY PacketFlowAssumption DEF Places, Names, Owned, Shape
<1>1. ASSUME NEW b \in Buffers,
             \/ Get(b) \/ DropPacket(b) \/ Sendto(b) \/ SendVia(b)
             \/ Nexthop(b) \/ SendDiscards(b)
             \/ RouteWork(b) \/ RouteForward(b) \/ RouteDiscard(b) \/ Recvfrom(b)
      PROVE  Owned'
  <2>1. UNCHANGED connVars /\ \E from, to \in Names : from # to /\ Move(b, from, to)
    BY <1>1 DEF Get, DropPacket, Sendto, SendVia, Nexthop, SendDiscards, RouteWork,
                RouteForward, RouteDiscard, Recvfrom, Names
  <2> QED BY <1>0, <2>1, MoveOwned
<1>2. ASSUME NEW b \in Buffers, Rx(b) \/ SelfIfaceTx(b)
      PROVE  Owned'
  <2>1. UNCHANGED connVars /\ \E from \in Names \ {"qfifo", "pool"} : QfifoWrite(b, from)
    BY <1>2 DEF Rx, SelfIfaceTx, Names
  <2> QED BY <2>1, QfifoWriteOwned
<1>3. ASSUME NEW b \in Buffers, RouteToSocket(b)
      PROVE  Owned'
  <2>1. /\ UNCHANGED connVars
        /\ \E to \in {"sockq", "pool"} : Move(b, "router", to)
    BY <1>3 DEF RouteToSocket
  <2>2. /\ "router" \in Places
        /\ \A to \in {"sockq", "pool"} : to \in Names \cup used /\ to # "router"
    BY <1>0 DEF Names
  <2> QED BY <2>1, <2>2, MoveOwned
<1>4. ASSUME NEW b \in Buffers, NEW c \in Conns, Send(b, c) \/ HandleService(b, c)
      PROVE  Owned'
  <2>1. UNCHANGED connVars /\ Move(b, "app", "csp")
    BY <1>4 DEF Send, HandleService
  <2>2. "app" \in Places /\ "csp" \in Names \cup used /\ "app" # "csp"
    BY <1>0 DEF Names
  <2> QED BY <2>1, <2>2, MoveOwned
<1>5. ASSUME NEW b \in Buffers, NEW c \in Conns, Read(b, c)
      PROVE  Owned'
  <2>1. UNCHANGED connVars /\ Move(b, c, "app")
    BY <1>5 DEF Read
  <2>2. c \in Places /\ "app" \in Names \cup used /\ c # "app"
    BY <1>0 DEF Names
  <2> QED BY <2>1, <2>2, MoveOwned
<1>6. ASSUME NEW b \in Buffers, NEW c \in Conns, RouteToConn(b, c)
      PROVE  Owned'
  <2>1. /\ UNCHANGED connVars
        /\ \E to \in {c, "pool"} : Move(b, "router", to)
        /\ c \in used
    BY <1>6 DEF RouteToConn
  <2>2. /\ "router" \in Places
        /\ \A to \in {c, "pool"} : to \in Names \cup used /\ to # "router"
    BY <1>0, <2>1 DEF Names
  <2> QED BY <2>1, <2>2, MoveOwned
<1>7. ASSUME NEW b \in Buffers, NEW c \in Conns, RouteNewConn(b, c)
      PROVE  Owned'
  BY <1>7, RouteNewConnOwned
<1>8. ASSUME NEW c \in Conns, Connect(c)
      PROVE  Owned'
  BY <1>8 DEF Connect, Owned, Shape, Partition, ConnectionsOwned
<1>9. ASSUME NEW c \in Conns, DropConnection(c)
      PROVE  Owned'
  BY <1>9, DropConnectionOwned
<1>10. ASSUME NEW c \in Conns, Accept(c)
       PROVE  Owned'
  BY <1>10 DEF Accept, Owned, Shape, Partition, ConnectionsOwned
<1>11. CASE (\E opt \in BOOLEAN : SocketNew(opt)) \/ BindPort \/ UNCHANGED vars
  BY <1>11 DEF SocketNew, BindPort, vars, connVars, Owned, Shape, Partition, ConnectionsOwned
<1>12. CASE BindListen \/ Listen
  BY <1>12, CspListenOwned DEF BindListen, Listen
<1>13. CASE DropSocket
  BY <1>13, DropSocketOwned
<1> QED
  BY <1>1, <1>2, <1>3, <1>4, <1>5, <1>6, <1>7, <1>8, <1>9, <1>10, <1>11, <1>12, <1>13 DEF Next

(* No buffer is ever owned twice or by nobody: whatever the size of the    *)
(* pool, of the connection table and of the queues, and however the        *)
(* application, the drivers and the router interleave, Packet::into_raw    *)
(* and from_raw hand each buffer over exactly once.                        *)
THEOREM BuffersPartitioned == Spec => []Partition
<1>1. Spec => []Owned
  BY OwnedInit, OwnedNext, PTL DEF Spec
<1>2. Owned => Partition
  BY DEF Owned
<1> QED BY <1>1, <1>2, PTL

(* A Connection value is the only owner of its connection, and a free slot *)
(* of the connection table holds no packet of an earlier connection.       *)
THEOREM ConnectionsAreOwned == Spec => []ConnectionsOwned
<1>1. Spec => []Owned
  BY OwnedInit, OwnedNext, PTL DEF Spec
<1>2. Owned => ConnectionsOwned
  BY DEF Owned
<1> QED BY <1>1, <1>2, PTL

(***************************************************************************)
(* Types and queue bounds.                                                 *)
(***************************************************************************)
SocketTypes ==
  /\ sock \in {"none", "idle", "binding"}
  /\ connLess \in BOOLEAN /\ bound \in BOOLEAN /\ queue \in BOOLEAN
  /\ listens \in 0..MaxListens

(* The queues a packet can be in; BoundOf is the room each of them has.    *)
Queues == Conns \cup {"sockq", "qfifo"}
BoundOf(p) == IF p = "qfifo" THEN QfifoLen ELSE RxLen

(* The bounds of the queues, queue by queue.                               *)
LEMMA BoundsByQueue ==
  QueuesBounded <=> /\ \A p \in Queues : Cardinality(at[p]) <= BoundOf(p)
                    /\ Cardinality(backlog) <= RxLen
BY PacketFlowAssumption DEF QueuesBounded, Queues, BoundOf

(* Taking things out of a finite set does not make it larger, and putting  *)
(* one in adds at most one.                                                *)
LEMMA Sizes ==
  ASSUME NEW U, IsFiniteSet(U), NEW S \in SUBSET U
  PROVE  /\ Cardinality(S) \in Nat
         /\ \A T \in SUBSET S : Cardinality(T) \in Nat /\ Cardinality(T) <= Cardinality(S)
         /\ \A x \in U : Cardinality(S \cup {x}) <= Cardinality(S) + 1
<1>1. IsFiniteSet(S)
  BY FS_Subset
<1>2. Cardinality(S) \in Nat
  BY <1>1, FS_CardinalityType
<1>3. ASSUME NEW T \in SUBSET S
      PROVE  Cardinality(T) \in Nat /\ Cardinality(T) <= Cardinality(S)
  BY <1>1, FS_Subset, FS_CardinalityType
<1>4. ASSUME NEW x \in U
      PROVE  Cardinality(S \cup {x}) <= Cardinality(S) + 1
  <2>1. Cardinality(S \cup {x}) = IF x \in S THEN Cardinality(S) ELSE Cardinality(S) + 1
    BY <1>1, FS_AddElement, Zenon
  <2> QED BY <1>2, <2>1
<1> QED BY <1>2, <1>3, <1>4

(* A step that adds at most b to a queue with room for it, and takes away  *)
(* from any others.                                                        *)
LEMMA StepBounded ==
  ASSUME TypeOK, NEW to \in Places, NEW b \in Buffers,
         at' \in [Places -> SUBSET Buffers],
         at'[to] \subseteq at[to] \cup {b},
         \A p \in Places : p # to => at'[p] \subseteq at[p],
         to \in Queues => Cardinality(at[to]) < BoundOf(to)
  PROVE  \A p \in Queues : Cardinality(at'[p]) <= BoundOf(p)
<1> SUFFICES ASSUME NEW p \in Queues PROVE Cardinality(at'[p]) <= BoundOf(p)
  OBVIOUS
<1>1. p \in Places /\ at[p] \in SUBSET Buffers /\ IsFiniteSet(Buffers) /\ BoundOf(p) \in Nat
  BY PacketFlowAssumption DEF TypeOK, Queues, Places, BoundOf
<1>2. Cardinality(at[p]) \in Nat /\ Cardinality(at[p]) <= BoundOf(p)
  BY <1>1, Sizes, BoundsByQueue DEF TypeOK
<1>3. CASE p # to
  BY <1>1, <1>2, <1>3, Sizes
<1>4. CASE p = to
  <2>1. Cardinality(at[p] \cup {b}) <= Cardinality(at[p]) + 1
    BY <1>1, Sizes
  <2>2. at[p] \cup {b} \in SUBSET Buffers /\ at'[p] \in SUBSET (at[p] \cup {b})
    BY <1>1, <1>4
  <2>3. /\ Cardinality(at'[p]) \in Nat /\ Cardinality(at[p] \cup {b}) \in Nat
        /\ Cardinality(at'[p]) <= Cardinality(at[p] \cup {b})
    BY <1>1, <2>2, Sizes
  <2> QED BY <1>1, <1>2, <1>4, <2>1, <2>3
<1> QED BY <1>3, <1>4

(* A packet moved, with the table of connections as it is.                 *)
LEMMA MoveTypeOK ==
  ASSUME TypeOK, Partition,
         NEW b \in Buffers, NEW from \in Places, NEW to \in Places, from # to,
         to \in Queues => Cardinality(at[to]) < BoundOf(to),
         Move(b, from, to), UNCHANGED <<connVars, sockVars>>
  PROVE  TypeOK'
<1>1. /\ at' \in [Places -> SUBSET Buffers]
      /\ at'[to] = at[to] \cup {b}
      /\ \A p \in Places : p # to => at'[p] \subseteq at[p]
  BY MoveOwner DEF TypeOK, Shape
<1>2. \A p \in Queues : Cardinality(at'[p]) <= BoundOf(p)
  BY <1>1, StepBounded
<1>3. QueuesBounded'
  <2>1. Cardinality(backlog') <= RxLen
    BY DEF TypeOK, QueuesBounded, connVars
  <2> QED BY <1>2, <2>1, PacketFlowAssumption DEF QueuesBounded, Queues, BoundOf
<1>4. (used \subseteq Conns /\ handles \subseteq Conns /\ backlog \subseteq Conns)'
  BY DEF TypeOK, connVars
<1>5. SocketTypes'
  BY DEF TypeOK, SocketTypes, sockVars
<1> QED BY <1>1, <1>3, <1>4, <1>5 DEF TypeOK, SocketTypes

(* Everything but the table of connections and the socket stays within     *)
(* type when every queue shrinks.                                          *)
LEMMA ShrinkBounded ==
  ASSUME TypeOK,
         at' \in [Places -> SUBSET Buffers],
         \A p \in Queues : at'[p] \subseteq at[p],
         backlog' \subseteq backlog
  PROVE  QueuesBounded'
<1>1. ASSUME NEW p \in Queues PROVE Cardinality(at'[p]) <= BoundOf(p)
  <2>1. /\ p \in Places /\ at[p] \in SUBSET Buffers /\ at'[p] \in SUBSET at[p]
        /\ IsFiniteSet(Buffers) /\ BoundOf(p) \in Nat
    BY PacketFlowAssumption DEF TypeOK, Queues, Places, BoundOf
  <2>2. /\ Cardinality(at[p]) \in Nat /\ Cardinality(at[p]) <= BoundOf(p)
        /\ Cardinality(at'[p]) \in Nat /\ Cardinality(at'[p]) <= Cardinality(at[p])
    BY <2>1, Sizes, BoundsByQueue DEF TypeOK
  <2> QED BY <2>1, <2>2
<1>2. Cardinality(backlog') <= RxLen
  <2>1. IsFiniteSet(Conns) /\ backlog \in SUBSET Conns /\ backlog' \in SUBSET backlog
    BY PacketFlowAssumption DEF TypeOK
  <2>2. /\ Cardinality(backlog) \in Nat /\ Cardinality(backlog) <= RxLen
        /\ Cardinality(backlog') \in Nat /\ Cardinality(backlog') <= Cardinality(backlog)
    BY <2>1, Sizes DEF TypeOK, QueuesBounded
  <2> QED BY <2>2, PacketFlowAssumption
<1> QED BY <1>1, <1>2, PacketFlowAssumption DEF QueuesBounded, Queues, BoundOf

(* A bind that has got as far as csp_bind still has its csp_listen to make *)
(* (only the bound on the number of calls needs this).                     *)
BindReserved == sock = "binding" => listens < MaxListens

(* Between the two calls of bind, one listen is still to come.             *)
LEMMA BindReservedNext == TypeOK /\ BindReserved /\ [Next]_vars => BindReserved'
BY DEF TypeOK, BindReserved, Next, vars, connVars, sockVars,
       Get, DropPacket, Send, HandleService, Sendto, SendVia, Rx, Nexthop, SelfIfaceTx,
       SendDiscards, RouteWork, RouteForward, RouteDiscard, RouteToConn, RouteToSocket,
       RouteNewConn, Connect, Read, DropConnection, SocketNew, BindPort, BindListen,
       Listen, Accept, Recvfrom, DropSocket

(* Every step keeps types and bounds.                                      *)
LEMMA TypeOKNext == TypeOK /\ BindReserved /\ Owned /\ Owned' /\ [Next]_vars => TypeOK'
<1> SUFFICES ASSUME TypeOK, BindReserved, Owned, Owned', [Next]_vars PROVE TypeOK'
  OBVIOUS
<1>0. /\ Names \subseteq Places /\ Conns \subseteq Places
      /\ \A c \in Conns : c \notin Names
      /\ \A p \in Names : p \in Queues <=> p \in {"sockq", "qfifo"}
      /\ Conns \subseteq Queues /\ Queues \subseteq Places
      /\ BoundOf("qfifo") = QfifoLen /\ BoundOf("sockq") = RxLen
      /\ \A c \in Conns : BoundOf(c) = RxLen
  BY PacketFlowAssumption DEF Places, Names, Queues, BoundOf
<1>s. SocketTypes
  BY DEF TypeOK, SocketTypes
<1>o. Partition /\ Shape'
  BY DEF Owned
<1>1. ASSUME NEW b \in Buffers,
             \/ Get(b) \/ DropPacket(b) \/ Sendto(b) \/ SendVia(b)
             \/ Nexthop(b) \/ SendDiscards(b)
             \/ RouteWork(b) \/ RouteForward(b) \/ RouteDiscard(b) \/ Recvfrom(b)
      PROVE  TypeOK'
  <2>1. /\ UNCHANGED <<connVars, sockVars>>
        /\ \E from \in Names, to \in Names \ {"sockq", "qfifo"} :
             from # to /\ Move(b, from, to)
    BY <1>1 DEF Get, DropPacket, Sendto, SendVia, Nexthop, SendDiscards, RouteWork,
                RouteForward, RouteDiscard, Recvfrom, Names
  <2> QED BY <1>0, <1>o, <2>1, MoveTypeOK
<1>2. ASSUME NEW b \in Buffers, Rx(b) \/ SelfIfaceTx(b)
      PROVE  TypeOK'
  <2>1. /\ UNCHANGED <<connVars, sockVars>>
        /\ \E from \in Names \ {"qfifo", "pool"} :
             \/ Move(b, from, "qfifo") /\ Cardinality(at["qfifo"]) < QfifoLen
             \/ Move(b, from, "pool")
    BY <1>2 DEF Rx, SelfIfaceTx, QfifoWrite, Names
  <2>2. "qfifo" \in Places /\ "pool" \in Places /\ "pool" \notin Queues
    BY <1>0 DEF Names
  <2> QED BY <1>0, <1>o, <2>1, <2>2, MoveTypeOK
<1>3. ASSUME NEW b \in Buffers, RouteToSocket(b)
      PROVE  TypeOK'
  <2>1. /\ UNCHANGED <<connVars, sockVars>>
        /\ \/ Move(b, "router", "sockq") /\ Cardinality(at["sockq"]) < RxLen
           \/ Move(b, "router", "pool")
    BY <1>3 DEF RouteToSocket
  <2>2. /\ "sockq" \in Places /\ "pool" \in Places /\ "pool" \notin Queues
        /\ "router" \in Places
    BY <1>0 DEF Names
  <2> QED BY <1>0, <1>o, <2>1, <2>2, MoveTypeOK
<1>4. ASSUME NEW b \in Buffers, NEW c \in Conns,
             Send(b, c) \/ HandleService(b, c) \/ Read(b, c)
      PROVE  TypeOK'
  <2>1. /\ UNCHANGED <<connVars, sockVars>>
        /\ Move(b, "app", "csp") \/ Move(b, c, "app")
    BY <1>4 DEF Send, HandleService, Read
  <2>2. /\ "app" \in Places /\ "csp" \in Places /\ "app" \notin Queues /\ "csp" \notin Queues
        /\ c \in Places /\ c # "app"
    BY <1>0 DEF Names
  <2> QED BY <1>o, <2>1, <2>2, MoveTypeOK
<1>5. ASSUME NEW b \in Buffers, NEW c \in Conns, RouteToConn(b, c)
      PROVE  TypeOK'
  <2>1. /\ UNCHANGED <<connVars, sockVars>>
        /\ \/ Move(b, "router", c) /\ Cardinality(at[c]) < RxLen
           \/ Move(b, "router", "pool")
    BY <1>5 DEF RouteToConn
  <2>2. /\ c \in Places /\ "pool" \in Places /\ "pool" \notin Queues
        /\ "router" \in Places /\ c # "router"
    BY <1>0 DEF Names
  <2> QED BY <1>0, <1>o, <2>1, <2>2, MoveTypeOK
<1>6. ASSUME NEW b \in Buffers, NEW c \in Conns, RouteNewConn(b, c)
      PROVE  TypeOK'
  <2>0. /\ c \in Places /\ "pool" \in Places /\ "pool" \notin Queues
        /\ "router" \in Places /\ c # "router"
    BY <1>0 DEF Names
  <2>1. CASE queue /\ Cardinality(backlog) < RxLen
    <3>1. /\ Move(b, "router", c) /\ c \notin used
          /\ backlog' = backlog \cup {c}
          /\ UNCHANGED sockVars
      BY <1>6, <2>1 DEF RouteNewConn
    <3>2. Cardinality(at[c]) < RxLen
      <4>1. at[c] = {}
        BY <3>1 DEF Owned, ConnectionsOwned
      <4>2. Cardinality(at[c]) = 0
        BY <4>1, FS_EmptySet
      <4>3. Cardinality(backlog) \in Nat
        BY Sizes, PacketFlowAssumption DEF TypeOK
      <4> QED BY <2>1, <4>2, <4>3, PacketFlowAssumption
    <3>3. /\ at' \in [Places -> SUBSET Buffers]
          /\ at'[c] = at[c] \cup {b}
          /\ \A p \in Places : p # c => at'[p] \subseteq at[p]
      BY <2>0, <3>1, MoveOwner DEF Owned
    <3>4. \A p \in Queues : Cardinality(at'[p]) <= BoundOf(p)
      BY <1>0, <2>0, <3>2, <3>3, StepBounded
    <3>5. Cardinality(backlog') <= RxLen
      <4>1. /\ Cardinality(backlog) \in Nat
            /\ Cardinality(backlog \cup {c}) <= Cardinality(backlog) + 1
            /\ Cardinality(backlog \cup {c}) \in Nat
        BY Sizes, PacketFlowAssumption DEF TypeOK
      <4> QED BY <2>1, <3>1, <4>1, PacketFlowAssumption
    <3>6. QueuesBounded'
      BY <3>4, <3>5, PacketFlowAssumption DEF QueuesBounded, Queues, BoundOf
    <3>7. SocketTypes'
      BY <1>s, <3>1 DEF SocketTypes, sockVars
    <3> QED BY <1>o, <3>6, <3>7 DEF TypeOK, Shape, SocketTypes
  <2>2. CASE ~(queue /\ Cardinality(backlog) < RxLen)
    <3>1. Move(b, "router", "pool") /\ UNCHANGED <<connVars, sockVars>>
      BY <1>6, <2>2 DEF RouteNewConn
    <3> QED BY <1>o, <2>0, <3>1, MoveTypeOK
  <2> QED BY <2>1, <2>2
<1>7. ASSUME NEW c \in Conns, Connect(c) \/ Accept(c)
      PROVE  TypeOK'
  <2>1. at' = at /\ backlog' \subseteq backlog /\ UNCHANGED sockVars
    BY <1>7 DEF Connect, Accept
  <2>2. QueuesBounded'
    BY <1>o, <2>1, ShrinkBounded DEF TypeOK
  <2>3. SocketTypes'
    BY <1>s, <2>1 DEF SocketTypes, sockVars
  <2> QED BY <1>o, <2>2, <2>3 DEF TypeOK, Shape, SocketTypes
<1>8. ASSUME NEW c \in Conns, DropConnection(c)
      PROVE  TypeOK'
  <2>1. /\ MoveAll(c, "pool") /\ backlog' = backlog /\ UNCHANGED sockVars
        /\ c \in Places /\ "pool" \in Places /\ c # "pool" /\ "pool" \notin Queues
    BY <1>0, <1>8 DEF DropConnection, Names
  <2>2. \A p \in Queues : at'[p] \subseteq at[p]
    BY <1>0, <2>1, MoveAllOwner DEF Owned
  <2>3. QueuesBounded'
    BY <1>o, <2>1, <2>2, ShrinkBounded DEF Shape
  <2>4. SocketTypes'
    BY <1>s, <2>1 DEF SocketTypes, sockVars
  <2> QED BY <1>o, <2>3, <2>4 DEF TypeOK, Shape, SocketTypes
<1>9. CASE (\E opt \in BOOLEAN : SocketNew(opt)) \/ BindPort \/ UNCHANGED vars
  <2>1. at' = at /\ backlog' = backlog
    BY <1>9 DEF SocketNew, BindPort, vars, connVars
  <2>2. QueuesBounded'
    BY <1>o, <2>1, ShrinkBounded DEF TypeOK
  <2>3. SocketTypes'
    BY <1>s, <1>9 DEF SocketNew, BindPort, vars, sockVars, SocketTypes
  <2> QED BY <1>o, <2>2, <2>3 DEF TypeOK, Shape, SocketTypes
<1>10. CASE BindListen \/ Listen
  <2>1. /\ MoveAll("sockq", "lost") /\ backlog' = {}
        /\ "sockq" \in Places /\ "lost" \in Places /\ "lost" \notin Queues
    BY <1>0, <1>10 DEF BindListen, Listen, CspListen, Names
  <2>2. \A p \in Queues : at'[p] \subseteq at[p]
    BY <1>0, <2>1, MoveAllOwner DEF Owned
  <2>3. QueuesBounded'
    BY <1>o, <2>1, <2>2, ShrinkBounded DEF Shape
  <2>4. SocketTypes'
    <3>1. listens' \in 0..MaxListens
      BY <1>s, <1>10, PacketFlowAssumption
         DEF BindListen, Listen, CspListen, SocketTypes, BindReserved
    <3>2. /\ sock' \in {"none", "idle", "binding"}
          /\ connLess' \in BOOLEAN /\ bound' \in BOOLEAN /\ queue' \in BOOLEAN
      BY <1>s, <1>10, Zenon DEF BindListen, Listen, CspListen, SocketTypes
    <3> QED BY <3>1, <3>2 DEF SocketTypes
  <2> QED BY <1>o, <2>3, <2>4 DEF TypeOK, Shape, SocketTypes
<1>11. CASE DropSocket
  <2>1. \A p \in Queues : at'[p] \subseteq at[p]
    <3>1. CASE MoveAll("sockq", "lost")
      <4>1. "sockq" \in Places /\ "lost" \in Places /\ "lost" \notin Queues
        BY <1>0 DEF Names
      <4> QED BY <1>0, <3>1, <4>1, MoveAllOwner DEF Owned
    <3>2. CASE ~MoveAll("sockq", "lost")
      <4>1. "pool" \notin Queues
        BY <1>0 DEF Names
      <4>2. \A p \in Places \ {"pool"} : at'[p] = {} \/ at'[p] = at[p]
        BY <1>11, <3>2 DEF DropSocket
      <4> QED BY <1>0, <4>1, <4>2
    <3> QED BY <3>1, <3>2
  <2>2. QueuesBounded'
    BY <1>o, <1>11, <2>1, ShrinkBounded DEF Shape, DropSocket
  <2>3. SocketTypes'
    BY <1>s, <1>11 DEF DropSocket, SocketTypes
  <2> QED BY <1>o, <2>2, <2>3 DEF TypeOK, Shape, SocketTypes
<1> QED
  BY <1>1, <1>2, <1>3, <1>4, <1>5, <1>6, <1>7, <1>8, <1>9, <1>10, <1>11 DEF Next

(* Types and bounds, for every pool, table and queue length: the router's  *)
(* queue, the receive queues and the backlog never hold more than they     *)
(* have room for, although each is filled from several places.             *)
THEOREM TypeCorrect == Spec => []TypeOK
<1>1. Init => TypeOK
  <2> SUFFICES ASSUME Init PROVE TypeOK
    OBVIOUS
  <2>1. Shape
    BY OwnedInit DEF Owned
  <2>2. SocketTypes
    <3>1. listens \in 0..MaxListens
      BY PacketFlowAssumption DEF Init
    <3>2. /\ sock \in {"none", "idle", "binding"}
          /\ connLess \in BOOLEAN /\ bound \in BOOLEAN /\ queue \in BOOLEAN
      BY Zenon DEF Init
    <3> QED BY <3>1, <3>2 DEF SocketTypes
  <2>3. \A p \in Queues : at[p] = {}
    BY PacketFlowAssumption DEF Init, Queues, Places
  <2>4. QueuesBounded
    BY <2>3, FS_EmptySet, PacketFlowAssumption DEF Init, QueuesBounded, Queues
  <2> QED BY <2>1, <2>2, <2>4 DEF TypeOK, Shape, SocketTypes
<1>2. Init => BindReserved
  BY DEF Init, BindReserved
<1> QED BY <1>1, <1>2, OwnedInit, OwnedNext, BindReservedNext, TypeOKNext, PTL DEF Spec

-----------------------------------------------------------------------------
(***************************************************************************)
(* What is stranded.                                                       *)
(***************************************************************************)

(* Before csp_listen has made a queue nothing waits in it.                 *)
NothingEarly == ~queue => at["sockq"] = {} /\ backlog = {}

StrandInv == Owned /\ NothingEarly /\ listens \in Nat

(* What a step may strand.                                                 *)
StrandStep ==
  /\ Stranded \subseteq Stranded'
  /\ \A b \in Stranded' \ Stranded :
       \/ queue /\ listens' # listens
       \/ sock # "none" /\ sock' = "none"
       \/ b \in at["router"] /\ \E c \in Orphans : b \in at'[c]

(* A buffer is stranded in a lost queue or in an orphaned connection's.    *)
LEMMA StrandedWhere ==
  /\ \A x : x \in Stranded <=> x \in at["lost"] \/ \E c \in Orphans : x \in at[c]
  /\ \A x : x \in Stranded' <=> x \in at'["lost"] \/ \E c \in Orphans' : x \in at'[c]
BY DEF Stranded

(* A packet handed on strands nothing, unless the router gives it to an    *)
(* orphaned connection.                                                    *)
LEMMA MoveStrands ==
  ASSUME StrandInv, UNCHANGED <<connVars, sockVars>>,
         NEW b \in Buffers, NEW from \in Places, NEW to \in Places, from # to,
         from # "lost", from \notin Orphans, to # "lost", to # "sockq" \/ queue,
         to \notin Orphans \/ from = "router", Move(b, from, to)
  PROVE  StrandStep /\ NothingEarly' /\ listens' \in Nat
<1>1. /\ b \in at[from] /\ at'[to] = at[to] \cup {b} /\ at'[from] = at[from] \ {b}
      /\ \A p \in Places : p # from /\ p # to => at'[p] = at[p]
  BY DEF Move, StrandInv, Owned, Shape
<1>2. /\ "lost" \in Places /\ "sockq" \in Places
      /\ Orphans \subseteq Places /\ Orphans' = Orphans
  BY DEF Places, Orphans, StrandInv, Owned, Shape, connVars
<1>3. at'["lost"] = at["lost"]
  BY <1>1, <1>2
<1>4. \A c \in Orphans : at[c] \subseteq at'[c]
  BY <1>1, <1>2
<1>5. \A c \in Orphans : \A x \in at'[c] : x \in at[c] \/ (x = b /\ c = to)
  BY <1>1, <1>2
<1>6. Stranded \subseteq Stranded'
  BY <1>2, <1>3, <1>4, StrandedWhere
<1>7. ASSUME NEW x \in Stranded' \ Stranded
      PROVE  x \in at["router"] /\ \E c \in Orphans : x \in at'[c]
  <2>1. PICK c \in Orphans : x \in at'[c]
    BY <1>2, <1>3, StrandedWhere
  <2>2. x \notin at[c]
    BY StrandedWhere
  <2>3. x = b /\ c = to
    BY <1>5, <2>1, <2>2
  <2> QED BY <1>1, <2>1, <2>3
<1>8. NothingEarly'
  <2>1. ~queue => at'["sockq"] \subseteq at["sockq"]
    BY <1>1, <1>2
  <2> QED BY <2>1 DEF NothingEarly, StrandInv, connVars, sockVars
<1> QED BY <1>6, <1>7, <1>8 DEF StrandStep, StrandInv, sockVars

(* csp_listen strands what the queue it replaces held.                     *)
LEMMA ListenStrands ==
  ASSUME StrandInv, CspListen, UNCHANGED <<used, handles>>
  PROVE  StrandStep /\ NothingEarly' /\ listens' \in Nat
<1>1. /\ at'["lost"] = at["lost"] \cup at["sockq"]
      /\ \A p \in Conns : at'[p] = at[p]
  BY PacketFlowAssumption DEF CspListen, MoveAll, StrandInv, Owned, Shape, Places
<1>2. /\ Orphans \subseteq Orphans' /\ Orphans' \subseteq Conns
      /\ \A c \in Orphans' : c \in Orphans \/ c \in backlog
  BY DEF Orphans, CspListen, StrandInv, Owned, Shape
<1>3. Stranded \subseteq Stranded'
  BY <1>1, <1>2, StrandedWhere
<1>4. listens' # listens /\ listens' \in Nat
  BY DEF CspListen, StrandInv
<1>5. ASSUME NEW x \in Stranded' \ Stranded PROVE queue
  <2> SUFFICES ASSUME ~queue PROVE FALSE
    OBVIOUS
  <2>1. at["sockq"] = {} /\ backlog = {}
    BY DEF StrandInv, NothingEarly
  <2> QED BY <1>1, <1>2, <2>1, StrandedWhere
<1>6. NothingEarly'
  BY DEF NothingEarly, CspListen
<1> QED BY <1>3, <1>4, <1>5, <1>6 DEF StrandStep

(* Dropping the socket strands at most what was queued there.              *)
LEMMA DropStrands ==
  ASSUME StrandInv, DropSocket
  PROVE  StrandStep /\ NothingEarly' /\ listens' \in Nat
<1>0. /\ "lost" \in Places /\ "sockq" \in Places /\ Conns \subseteq Places
      /\ \A c \in Conns : c # "pool" /\ c # "sockq" /\ c # "lost"
      /\ backlog \subseteq Conns /\ Orphans \subseteq Conns
  BY PacketFlowAssumption DEF Places, Orphans, StrandInv, Owned, Shape
<1>1. Orphans \subseteq Orphans' /\ Orphans \cap backlog = {}
  BY DEF Orphans, DropSocket
<1>2. at["lost"] \subseteq at'["lost"] /\ at'["sockq"] = {} /\ \A c \in Orphans : at'[c] = at[c]
  <2>1. CASE MoveAll("sockq", "lost")
    BY <1>0, <2>1 DEF MoveAll, StrandInv, Owned, Shape
  <2>2. CASE ~MoveAll("sockq", "lost")
    <3>1. at' = [p \in Places |->
                    IF p = "pool" THEN at[p] \cup at["sockq"] \cup UNION {at[c] : c \in backlog}
                    ELSE IF p \in backlog \cup {"sockq"} THEN {} ELSE at[p]]
      BY <2>2 DEF DropSocket
    <3>2. \A p \in Places \ {"pool"} : at'[p] = IF p \in backlog \cup {"sockq"} THEN {} ELSE at[p]
      BY <3>1
    <3> QED BY <1>0, <1>1, <3>2
  <2> QED BY <2>1, <2>2
<1>3. Stranded \subseteq Stranded'
  BY <1>1, <1>2, StrandedWhere
<1>4. sock # "none" /\ sock' = "none" /\ listens' = listens
  BY DEF DropSocket
<1>5. NothingEarly'
  BY <1>2 DEF NothingEarly, DropSocket
<1> QED BY <1>3, <1>4, <1>5 DEF StrandStep, StrandInv

(* A step that moves no packet and makes no orphan strands nothing.        *)
LEMMA NothingStrands ==
  ASSUME StrandInv, Orphans' = Orphans, \A p \in Orphans \cup {"lost"} : at'[p] = at[p]
  PROVE  StrandStep
<1>1. Stranded' = Stranded
  BY StrandedWhere
<1> QED BY <1>1 DEF StrandStep

(* Every step of the system.                                               *)
LEMMA StrandNext ==
  StrandInv /\ [Next]_vars => [StrandStep]_vars /\ NothingEarly' /\ listens' \in Nat
<1> SUFFICES ASSUME StrandInv, [Next]_vars
             PROVE  [StrandStep]_vars /\ NothingEarly' /\ listens' \in Nat
  OBVIOUS
<1> DEFINE Goal == StrandStep /\ NothingEarly' /\ listens' \in Nat
<1>0. /\ Names \subseteq Places /\ Conns \subseteq Places
      /\ \A c \in Conns : c \notin Names
      /\ used \subseteq Conns /\ handles \subseteq Conns /\ backlog \subseteq Conns
      /\ Orphans \subseteq Conns /\ Orphans \subseteq used
      /\ handles \cap Orphans = {} /\ handles \subseteq used /\ backlog \subseteq used
      /\ handles \cap backlog = {}
      /\ listens \in Nat /\ NothingEarly
  BY PacketFlowAssumption DEF Places, Names, StrandInv, Owned, Shape, Orphans, ConnectionsOwned
<1>1. ASSUME NEW b \in Buffers, NEW from \in Names \ {"lost"}, NEW to \in Names \ {"lost", "sockq"},
             from # to, Move(b, from, to), UNCHANGED <<connVars, sockVars>>
      PROVE  Goal
  <2>1. /\ from \in Places /\ to \in Places /\ from \notin Orphans /\ to \notin Orphans
        /\ from # "lost" /\ to # "lost" /\ to # "sockq"
    BY <1>0
  <2> QED BY <1>1, <2>1, MoveStrands
<1>2. ASSUME NEW b \in Buffers,
             \/ Get(b) \/ DropPacket(b) \/ Sendto(b) \/ SendVia(b)
             \/ Nexthop(b) \/ SendDiscards(b)
             \/ RouteWork(b) \/ RouteForward(b) \/ RouteDiscard(b) \/ Recvfrom(b)
             \/ (\E c \in Conns : Send(b, c) \/ HandleService(b, c))
      PROVE  Goal
  <2>1. /\ UNCHANGED <<connVars, sockVars>>
        /\ \E from \in Names \ {"lost"}, to \in Names \ {"lost", "sockq"} :
              from # to /\ Move(b, from, to)
    BY <1>2 DEF Get, DropPacket, Sendto, SendVia, Nexthop, SendDiscards, RouteWork,
                RouteForward, RouteDiscard, Recvfrom, Send, HandleService, Names
  <2> QED BY <1>1, <2>1
<1>3. ASSUME NEW b \in Buffers, Rx(b) \/ SelfIfaceTx(b)
      PROVE  Goal
  <2>1. /\ UNCHANGED <<connVars, sockVars>>
        /\ \E from \in {"app", "driver", "csp"}, to \in {"qfifo", "pool"} : Move(b, from, to)
    BY <1>3 DEF Rx, SelfIfaceTx, QfifoWrite
  <2>2. \A from \in {"app", "driver", "csp"}, to \in {"qfifo", "pool"} :
          from \in Names \ {"lost"} /\ to \in Names \ {"lost", "sockq"} /\ from # to
    BY DEF Names
  <2> QED BY <1>1, <2>1, <2>2
<1>4. ASSUME NEW b \in Buffers, RouteToSocket(b)
      PROVE  Goal
  <2>1. /\ UNCHANGED <<connVars, sockVars>>
        /\ \/ Move(b, "router", "pool")
           \/ Move(b, "router", "sockq") /\ queue
    BY <1>4 DEF RouteToSocket
  <2>2. /\ "router" \in Places /\ "sockq" \in Places
        /\ "router" \notin Orphans /\ "sockq" \notin Orphans
        /\ "router" \in Names \ {"lost"} /\ "pool" \in Names \ {"lost", "sockq"}
    BY <1>0 DEF Names
  <2>3. CASE Move(b, "router", "pool")
    BY <1>1, <2>1, <2>2, <2>3
  <2>4. CASE Move(b, "router", "sockq") /\ queue
    BY <2>1, <2>2, <2>4, MoveStrands
  <2> QED BY <2>1, <2>3, <2>4
<1>5. ASSUME NEW b \in Buffers, NEW c \in Conns, Read(b, c)
      PROVE  Goal
  <2>1. UNCHANGED <<connVars, sockVars>> /\ Move(b, c, "app") /\ c \in handles
    BY <1>5 DEF Read
  <2>2. /\ c \in Places /\ "app" \in Places /\ c # "app" /\ c # "lost" /\ c \notin Orphans
        /\ "app" \notin Orphans
    BY <1>0, <2>1 DEF Names
  <2> QED BY <2>1, <2>2, MoveStrands
<1>6. ASSUME NEW b \in Buffers, NEW c \in Conns, RouteToConn(b, c)
      PROVE  Goal
  <2>1. /\ UNCHANGED <<connVars, sockVars>>
        /\ Move(b, "router", c) \/ Move(b, "router", "pool")
    BY <1>6 DEF RouteToConn
  <2>2. /\ c \in Places /\ "router" \in Places /\ c # "router" /\ c # "lost" /\ c # "sockq"
        /\ "router" \notin Orphans
        /\ "router" \in Names \ {"lost"} /\ "pool" \in Names \ {"lost", "sockq"}
    BY <1>0 DEF Names
  <2>3. CASE Move(b, "router", "pool")
    BY <1>1, <2>1, <2>2, <2>3
  <2>4. CASE Move(b, "router", c)
    BY <2>1, <2>2, <2>4, MoveStrands
  <2> QED BY <2>1, <2>3, <2>4
<1>7. ASSUME NEW b \in Buffers, NEW c \in Conns, RouteNewConn(b, c)
      PROVE  Goal
  <2>0. "router" \in Names \ {"lost"} /\ "pool" \in Names \ {"lost", "sockq"} /\ c # "router"
    BY <1>0 DEF Names
  <2>1. CASE queue /\ Cardinality(backlog) < RxLen
    <3>1. /\ Move(b, "router", c) /\ used' = used \cup {c} /\ backlog' = backlog \cup {c}
          /\ handles' = handles /\ c \notin used /\ queue' = queue /\ listens' = listens
      BY <1>7, <2>1 DEF RouteNewConn, sockVars
    <3>2. \A p \in Places : p # "router" /\ p # c => at'[p] = at[p]
      BY <1>0, <3>1 DEF Move, StrandInv, Owned, Shape
    <3>3. Orphans' = Orphans
      BY <1>0, <3>1 DEF Orphans
    <3>4. \A p \in Orphans \cup {"lost"} : p \in Places /\ p # "router" /\ p # c
      BY <1>0, <3>1 DEF Names
    <3>5. StrandStep
      BY <3>2, <3>3, <3>4, NothingStrands
    <3>6. NothingEarly'
      BY <2>1, <3>1 DEF NothingEarly
    <3> QED BY <1>0, <3>1, <3>5, <3>6
  <2>2. CASE ~(queue /\ Cardinality(backlog) < RxLen)
    <3>1. Move(b, "router", "pool") /\ UNCHANGED <<connVars, sockVars>>
      BY <1>7, <2>2 DEF RouteNewConn
    <3> QED BY <1>1, <2>0, <3>1
  <2> QED BY <2>1, <2>2
<1>8. ASSUME NEW c \in Conns, Connect(c)
      PROVE  Goal
  <2>1. /\ c \notin used /\ used' = used \cup {c} /\ handles' = handles \cup {c}
        /\ at' = at /\ backlog' = backlog /\ queue' = queue /\ listens' = listens
    BY <1>8 DEF Connect, sockVars
  <2>2. Orphans' = Orphans
    BY <1>0, <2>1 DEF Orphans
  <2>3. StrandStep
    BY <2>1, <2>2, NothingStrands
  <2> QED BY <1>0, <2>1, <2>3 DEF NothingEarly
<1>9. ASSUME NEW c \in Conns, DropConnection(c)
      PROVE  Goal
  <2>1. /\ c \in handles /\ used' = used \ {c} /\ handles' = handles \ {c}
        /\ MoveAll(c, "pool") /\ backlog' = backlog /\ queue' = queue /\ listens' = listens
    BY <1>9 DEF DropConnection, sockVars
  <2>2. Orphans' = Orphans
    BY <1>0, <2>1 DEF Orphans
  <2>3. \A p \in Places : p # c /\ p # "pool" => at'[p] = at[p]
    BY <2>1 DEF MoveAll, StrandInv, Owned, Shape
  <2>4. \A p \in Orphans \cup {"lost", "sockq"} : p \in Places /\ p # c /\ p # "pool"
    BY <1>0, <2>1 DEF Names
  <2>5. \A p \in Orphans \cup {"lost"} : at'[p] = at[p]
    BY <2>3, <2>4
  <2>6. StrandStep
    BY <2>2, <2>5, NothingStrands
  <2>7. at'["sockq"] = at["sockq"]
    BY <2>3, <2>4
  <2> QED BY <1>0, <2>1, <2>6, <2>7 DEF NothingEarly
<1>10. ASSUME NEW c \in Conns, Accept(c)
       PROVE  Goal
  <2>1. /\ c \in backlog /\ backlog' = backlog \ {c} /\ handles' = handles \cup {c}
        /\ at' = at /\ used' = used /\ queue' = queue /\ listens' = listens /\ queue
    BY <1>10 DEF Accept, sockVars
  <2>2. Orphans' = Orphans
    BY <1>0, <2>1 DEF Orphans
  <2>3. StrandStep
    BY <2>1, <2>2, NothingStrands
  <2> QED BY <1>0, <2>1, <2>3 DEF NothingEarly
<1>11. ASSUME (\E opt \in BOOLEAN : SocketNew(opt)) \/ BindPort
       PROVE  Goal
  <2>1. UNCHANGED <<at, used, handles, backlog, queue, listens>>
    BY <1>11 DEF SocketNew, BindPort, connVars
  <2>2. Orphans' = Orphans
    BY <2>1 DEF Orphans
  <2>3. StrandStep
    BY <2>1, <2>2, NothingStrands
  <2> QED BY <1>0, <2>1, <2>3 DEF NothingEarly
<1>12. ASSUME BindListen \/ Listen
       PROVE  Goal
  BY <1>12, ListenStrands DEF BindListen, Listen
<1>13. ASSUME DropSocket
       PROVE  Goal
  BY <1>13, DropStrands
<1>14. CASE UNCHANGED vars
  BY <1>0, <1>14 DEF vars, connVars, sockVars, NothingEarly
<1>15. CASE Next
  <2>1. Goal
    <3> HIDE DEF Goal
    <3> QED
      BY <1>2, <1>3, <1>4, <1>5, <1>6, <1>7, <1>8, <1>9, <1>10, <1>11, <1>12, <1>13, <1>15
         DEF Next
  <2> QED BY <2>1
<1> QED BY <1>14, <1>15

(* A packet or a connection is out of everybody's reach only after listen  *)
(* or bind has replaced a queue or the Socket was dropped, or because the  *)
(* router put it behind one that already is: for every pool, every table   *)
(* of connections and every queue length.                                  *)
THEOREM NothingElseStrands == Spec => StrandedOnlyByRelisten
<1>1. Init => StrandInv
  BY OwnedInit DEF Init, StrandInv, NothingEarly, Places
<1>2. StrandInv /\ [Next]_vars => StrandInv'
  BY OwnedNext, StrandNext DEF StrandInv
<1>3. StrandInv /\ [Next]_vars => [StrandStep]_vars
  BY StrandNext
<1> QED BY <1>1, <1>2, <1>3, PTL DEF Spec, StrandedOnlyByRelisten, StrandStep
=============================================================================
