----------------------------- MODULE Dispatcher -----------------------------
(***************************************************************************)
(* The service Dispatcher (src/src/service.rs): ports are registered on    *)
(* one socket, then run() accepts connections one at a time and gives each *)
(* packet to the handler of its port, while clients keep connecting and    *)
(* sending through the router.  Every registration binds the socket, and   *)
(* Socket::bind, like run's own listen, starts with a new receive queue.   *)
(***************************************************************************)
EXTENDS Integers, Sequences, SequencesExt, FiniteSets

CONSTANTS
  Ports,        \* destination port numbers of clients' packets
  PortValues,   \* the Port values given to the registering calls
  Conns,        \* the connections clients may open
  Packets,      \* the packets clients may send, once each
  Backlog,      \* bound: connections the socket's queue holds
  RxLen,        \* CSP_CONN_RXQUEUE_LEN: packets a connection's queue holds
  None

ASSUME DispatcherAssumption ==
  /\ Ports \subseteq 0..63
  /\ PortValues \subseteq (0..6 \cup {254, 255}) \X (0..255)
  /\ {Backlog, RxLen} \subseteq Nat \ {0}
  /\ None \notin Conns \cup Ports

(* A Port as the pair of its discriminant and, of Custom, the number.      *)
AnyPort == 255
Custom == 254

(* u8::from(port)                                                          *)
Number(port) == IF port[1] = Custom THEN port[2] ELSE port[1]

(* Port::from(u8)                                                          *)
PortFrom(p) == IF p \in 0..6 \cup {AnyPort} THEN <<p, 0>> ELSE <<Custom, p>>

(* Port::is_service_port                                                   *)
IsServicePort(port) == Number(port) <= 6

VARIABLES
  bound,        \* port numbers bound to the socket
  handlers,     \* keys of Dispatcher.handlers
  resultHandlers, \* keys of Dispatcher.result_handlers
  callback,     \* an error callback is set
  phase,        \* "setup", or in run: "accepting", "reading", "closing"
  forever,      \* the run that is on was called with MAX_TIMEOUT
  current,      \* the connection run has accepted, or None
  backlog,      \* the socket's receive queue
  dport,        \* per connection, its destination port; None before it exists
  rx,           \* per connection, the packets received and not read
  sent,         \* history: the port each packet was sent to, or None
  fate,         \* what became of a packet that was read, or lost with its connection
  reported      \* packets the error callback was told about

setup == <<bound, handlers, resultHandlers, callback>>
net == <<dport, rx, sent>>
outcome == <<fate, reported>>
vars == <<setup, phase, forever, current, backlog, net, outcome>>

Fates == {"none", "dropped", "consumed", "replied", "replyLost", "failed",
          "service", "ignored", "closedAway"}

TypeOK ==
  /\ handlers \cup resultHandlers \cup bound \subseteq 0..255
  /\ callback \in BOOLEAN
  /\ phase \in {"setup", "accepting", "reading", "closing"}
  /\ forever \in BOOLEAN
  /\ current \in Conns \cup {None}
  /\ phase \in {"reading", "closing"} <=> current # None
  /\ backlog \in Seq(Conns) /\ Len(backlog) <= Backlog
  /\ dport \in [Conns -> Ports \cup {None}]
  /\ rx \in [Conns -> Seq(Packets)]
  /\ sent \in [Packets -> Ports \cup {None}]
  /\ fate \in [Packets -> Fates]
  /\ reported \subseteq Packets

Init ==
  /\ bound = {} /\ handlers = {} /\ resultHandlers = {} /\ callback = FALSE
  /\ phase = "setup"
  /\ forever = FALSE
  /\ current = None
  /\ backlog = <<>>
  /\ dport = [c \in Conns |-> None]
  /\ rx = [c \in Conns |-> <<>>]
  /\ sent = [p \in Packets |-> None]
  /\ fate = [p \in Packets |-> "none"]
  /\ reported = {}

-----------------------------------------------------------------------------
(* Set-up: &mut self, so never while run is on.                            *)

(* Socket::bind: csp_bind refuses a bound port; csp_listen renews the      *)
(* queue.                                                                  *)
Bind(n) ==
  /\ phase = "setup"
  /\ n \notin bound
  /\ bound' = bound \cup {n}
  /\ backlog' = <<>>
  /\ UNCHANGED <<phase, forever, current, net, outcome>>

OnError ==
  /\ phase = "setup"
  /\ ~callback
  /\ callback' = TRUE
  /\ UNCHANGED <<bound, handlers, resultHandlers, phase, forever, current, backlog, net, outcome>>

(* Mutant: the closure is stored before bind can refuse the port.          *)
Register_StoresFirst(port) ==
  /\ IF Number(port) \in bound
       THEN /\ phase = "setup"
            /\ UNCHANGED <<bound, phase, forever, current, backlog, net, outcome>>
       ELSE Bind(Number(port))
  /\ handlers' = handlers \cup {Number(port)}
  /\ UNCHANGED <<resultHandlers, callback>>

Register(port) ==
  /\ Bind(Number(port))
  /\ handlers' = handlers \cup {Number(port)}
  /\ UNCHANGED <<resultHandlers, callback>>

RegisterWithResult(port) ==
  /\ Bind(Number(port))
  /\ resultHandlers' = resultHandlers \cup {Number(port)}
  /\ UNCHANGED <<handlers, callback>>

BindService(port) ==
  /\ Bind(Number(port))
  /\ UNCHANGED <<handlers, resultHandlers, callback>>

(* run(timeout): listen(10)                                                *)
Run(noLimit) ==
  /\ phase = "setup"
  /\ backlog' = <<>>
  /\ phase' = "accepting"
  /\ forever' = noLimit
  /\ UNCHANGED <<setup, current, net, outcome>>

-----------------------------------------------------------------------------
(* The router delivers clients' packets.                                   *)

(* The first packet of a connection: it is queued on the socket bound to   *)
(* its port, or to Any, with the packet in its own queue.  Without such a  *)
(* socket, or with its queue full, the packet is dropped.                  *)
DeliverFirst(c, port, p) ==
  /\ sent[p] = None /\ dport[c] = None
  /\ sent' = [sent EXCEPT ![p] = port]
  /\ IF bound \cap {port, AnyPort} # {} /\ Len(backlog) < Backlog
       THEN /\ dport' = [dport EXCEPT ![c] = port]
            /\ backlog' = Append(backlog, c)
            /\ rx' = [rx EXCEPT ![c] = <<p>>]
            /\ UNCHANGED <<setup, phase, forever, current, outcome>>
       ELSE /\ fate' = [fate EXCEPT ![p] = "dropped"]
            /\ UNCHANGED <<setup, phase, forever, current, backlog, dport, rx, reported>>

(* A further packet of an open connection, dropped when its queue is full. *)
DeliverMore(c, p) ==
  /\ sent[p] = None /\ dport[c] # None
  /\ sent' = [sent EXCEPT ![p] = dport[c]]
  /\ IF Len(rx[c]) < RxLen
       THEN rx' = [rx EXCEPT ![c] = Append(@, p)] /\ UNCHANGED fate
       ELSE fate' = [fate EXCEPT ![p] = "dropped"] /\ UNCHANGED rx
  /\ UNCHANGED <<setup, phase, forever, current, backlog, dport, reported>>

-----------------------------------------------------------------------------
(* run's loops.                                                            *)

(* Mutant: listen inside the loop.                                         *)
Accept_Listens ==
  /\ phase = "accepting" /\ backlog # <<>>
  /\ current' = Head(backlog)
  /\ backlog' = <<>>
  /\ phase' = "reading"
  /\ UNCHANGED <<setup, forever, net, outcome>>

(* accept returns a connection.                                            *)
Accept ==
  /\ phase = "accepting" /\ backlog # <<>>
  /\ current' = Head(backlog)
  /\ backlog' = Tail(backlog)
  /\ phase' = "reading"
  /\ UNCHANGED <<setup, forever, net, outcome>>

(* accept times out: run returns.                                          *)
AcceptTimesOut ==
  /\ phase = "accepting" /\ backlog = <<>> /\ ~forever
  /\ phase' = "setup"
  /\ UNCHANGED <<setup, forever, current, backlog, net, outcome>>

(* conn.read returns the oldest packet, which gets the outcome f.          *)
Take(f) ==
  /\ phase = "reading" /\ rx[current] # <<>>
  /\ LET p == Head(rx[current])
     IN  /\ fate' = [fate EXCEPT ![p] = f]
         /\ reported' = IF f = "failed" /\ callback THEN reported \cup {p} ELSE reported
  /\ rx' = [rx EXCEPT ![current] = Tail(@)]
  /\ UNCHANGED <<setup, phase, forever, current, backlog, dport, sent>>

(* What becomes of a reply: conn.send has no result, and libcsp may fail   *)
(* to transmit.                                                            *)
Replies == {"replied", "replyLost"}

(* The port's closure consumes the packet or returns a reply.              *)
DispatchRegular ==
  /\ dport[current] \in handlers
  /\ \E f \in Replies \cup {"consumed"} : Take(f)

(* The port's fallible closure may fail as well.                           *)
DispatchResult ==
  /\ dport[current] \notin handlers /\ dport[current] \in resultHandlers
  /\ \E f \in Replies \cup {"consumed", "failed"} : Take(f)

(* No closure: libcsp's service handler, or nothing.                       *)
DispatchOther ==
  /\ dport[current] \notin handlers \cup resultHandlers
  /\ Take(IF IsServicePort(PortFrom(dport[current])) THEN "service" ELSE "ignored")

Dispatch ==
  /\ phase = "reading"
  /\ DispatchRegular \/ DispatchResult \/ DispatchOther

(* Mutant: an idle connection is read again instead of closed.             *)
ReadTimesOut_KeepsReading ==
  /\ phase = "reading" /\ rx[current] = <<>>
  /\ UNCHANGED vars

(* conn.read(100) finds nothing: the loop over the connection ends.        *)
ReadTimesOut ==
  /\ phase = "reading" /\ rx[current] = <<>>
  /\ phase' = "closing"
  /\ UNCHANGED <<setup, forever, current, backlog, net, outcome>>

(* The connection is dropped; libcsp frees what arrived since.             *)
CloseConn ==
  /\ phase = "closing"
  /\ fate' = [p \in Packets |-> IF p \in ToSet(rx[current]) THEN "closedAway" ELSE fate[p]]
  /\ rx' = [rx EXCEPT ![current] = <<>>]
  /\ dport' = [dport EXCEPT ![current] = None]
  /\ current' = None
  /\ phase' = "accepting"
  /\ UNCHANGED <<setup, forever, backlog, sent, reported>>

RunStep == Accept \/ AcceptTimesOut \/ Dispatch \/ ReadTimesOut \/ CloseConn

Next ==
  \/ OnError
  \/ \E port \in PortValues :
       Register(port) \/ RegisterWithResult(port) \/ BindService(port)
  \/ \E port \in Ports, c \in Conns, p \in Packets : DeliverFirst(c, port, p)
  \/ \E c \in Conns, p \in Packets : DeliverMore(c, p)
  \/ \E noLimit \in BOOLEAN : Run(noLimit)
  \/ RunStep

Spec == Init /\ [][Next]_vars

(* run's thread is scheduled; read's 100 ms elapse.                        *)
FairSpec == Spec /\ WF_vars(RunStep)

-----------------------------------------------------------------------------
(***************************************************************************)
(* Properties                                                              *)
(***************************************************************************)

(* One answer per port, however it is spelled (Port::Uptime, Custom(6), 6):*)
(* a second registration is refused and leaves the first closure in        *)
(* charge, only bound ports have one, and a packet that nobody answers was *)
(* sent to no service port.  (A closure registered on Port::Any is never   *)
(* run: packets are dispatched by the number they were sent to.)           *)
OneAnswerPerPort ==
  /\ handlers \cap resultHandlers = {}
  /\ handlers \cup resultHandlers \subseteq bound
  /\ \A p \in Packets : fate[p] = "ignored" => sent[p] \notin 0..6

(* Open connections that run will never accept: no longer queued.          *)
Stranded == {c \in Conns : dport[c] # None} \ (ToSet(backlog) \cup {current})

(* While run is on no step takes a connection out of its reach: only a     *)
(* registration or the start of run does, by renewing the socket's queue.  *)
RunStrandsNothing ==
  [][phase # "setup" => Stranded' \subseteq Stranded]_vars

(* Once run is on, with MAX_TIMEOUT, every packet of a connection it can   *)
(* accept is read, or lost in the closing of its idle connection: none is  *)
(* starved by the connection being served, if clients send finitely many.  *)
EveryReachablePacketSettled ==
  \A p \in Packets :
    (phase # "setup" /\ forever /\ \E c \in Conns \ Stranded : p \in ToSet(rx[c]))
      ~> fate[p] # "none"
=============================================================================
