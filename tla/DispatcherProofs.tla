-------------------------- MODULE DispatcherProofs --------------------------
(***************************************************************************)
(* Dispatcher for every set of ports, connections and packets and every    *)
(* length of the socket's queue: which closure answers a packet, and that  *)
(* run loses sight of no connection.                                       *)
(***************************************************************************)
EXTENDS Dispatcher, TLAPS

(* A connection's packets were sent to its port.                           *)
Queued ==
  \A c \in Conns :
    /\ dport[c] = None => rx[c] = << >>
    /\ \A k \in 1 .. Len(rx[c]) : sent[rx[c][k]] = dport[c]

(* Only a packet that was sent has met its fate.                           *)
FateOfSent == \A p \in Packets : sent[p] = None => fate[p] = "none"

Inv == TypeOK /\ Queued /\ FateOfSent /\ OneAnswerPerPort

(* A Port's number fits a u8.                                              *)
LEMMA NumberType == \A port \in PortValues : Number(port) \in 0 .. 255
BY DispatcherAssumption DEF Number, Custom

(* The service ports are the numbers up to 6, whatever a Port is made of.  *)
LEMMA ServicePorts == \A n \in Ports : IsServicePort(PortFrom(n)) <=> n \in 0 .. 6
<1> SUFFICES ASSUME NEW n \in Ports PROVE IsServicePort(PortFrom(n)) <=> n \in 0 .. 6
  OBVIOUS
<1>1. n \in 0 .. 63
  BY DispatcherAssumption
<1>2. CASE n \in 0 .. 6
  <2>1. PortFrom(n) = <<n, 0>>
    BY <1>2 DEF PortFrom
  <2>2. Number(<<n, 0>>) = n
    BY <1>2 DEF Number, Custom
  <2> QED BY <1>2, <2>1, <2>2 DEF IsServicePort
<1>3. CASE n \notin 0 .. 6
  <2>1. PortFrom(n) = <<Custom, n>>
    BY <1>1, <1>3 DEF PortFrom, AnyPort
  <2>2. Number(<<Custom, n>>) = n
    BY DEF Number
  <2> QED BY <1>1, <1>3, <2>1, <2>2 DEF IsServicePort
<1> QED BY <1>2, <1>3

(* Registrations, on_error and the start of run leave the packets alone;   *)
(* a port is bound once, and gets one closure at most.                     *)
LEMMA SetupKeepsInv ==
  ASSUME Inv,
         \/ OnError
         \/ \E port \in PortValues : Register(port) \/ RegisterWithResult(port) \/ BindService(port)
         \/ \E noLimit \in BOOLEAN : Run(noLimit)
  PROVE  Inv'
<1>1. phase = "setup" /\ current = None /\ UNCHANGED <<current, dport, rx, sent, fate, reported>>
  BY DEF OnError, Register, RegisterWithResult, BindService, Bind, Run, net, outcome, Inv, TypeOK
<1>2. Queued' /\ FateOfSent'
  BY <1>1 DEF Inv, Queued, FateOfSent
<1>3. << >> \in Seq(Conns) /\ Len(<< >>) <= Backlog
  BY DispatcherAssumption
<1>4. CASE OnError
  <2>1. callback' = TRUE /\ UNCHANGED <<bound, handlers, resultHandlers, phase, forever, backlog>>
    BY <1>4 DEF OnError
  <2>2. callback' \in BOOLEAN
    BY <2>1
  <2>3. TypeOK'
    BY <1>1, <2>1, <2>2 DEF Inv, TypeOK
  <2>4. OneAnswerPerPort'
    BY <1>1, <2>1 DEF Inv, OneAnswerPerPort
  <2> QED BY <1>2, <2>3, <2>4 DEF Inv
<1>5. CASE \E noLimit \in BOOLEAN : Run(noLimit)
  <2>1. PICK noLimit \in BOOLEAN : Run(noLimit)
    BY <1>5
  <2>2. /\ backlog' = << >> /\ phase' = "accepting" /\ forever' = noLimit
        /\ UNCHANGED <<bound, handlers, resultHandlers, callback>>
    BY <2>1 DEF Run, setup
  <2> QED BY <1>1, <1>2, <1>3, <2>2 DEF Inv, TypeOK, OneAnswerPerPort
<1>6. ASSUME NEW port \in PortValues, Register(port) \/ RegisterWithResult(port) \/ BindService(port)
      PROVE  Inv'
  <2> DEFINE n == Number(port)
  <2>1. n \in 0 .. 255
    BY NumberType
  <2>2. /\ n \notin bound /\ bound' = bound \cup {n} /\ backlog' = << >>
        /\ UNCHANGED <<callback, phase, forever>>
        /\ \/ handlers' = handlers \cup {n} /\ resultHandlers' = resultHandlers
           \/ handlers' = handlers /\ resultHandlers' = resultHandlers \cup {n}
           \/ handlers' = handlers /\ resultHandlers' = resultHandlers
    BY <1>6 DEF Register, RegisterWithResult, BindService, Bind
  <2> HIDE DEF n
  <2>3. OneAnswerPerPort'
    BY <1>1, <2>2 DEF Inv, OneAnswerPerPort
  <2>4. TypeOK'
    BY <1>1, <1>3, <2>1, <2>2 DEF Inv, TypeOK
  <2> QED BY <1>2, <2>3, <2>4 DEF Inv
<1> QED BY <1>4, <1>5, <1>6

(* A packet arrives that was not sent before.                              *)
LEMMA DeliverKeepsInv ==
  ASSUME Inv, NEW c \in Conns, NEW p \in Packets,
         DeliverMore(c, p) \/ \E port \in Ports : DeliverFirst(c, port, p)
  PROVE  Inv'
<1>1. TypeOK /\ Queued /\ FateOfSent /\ OneAnswerPerPort
  BY DEF Inv
<1>2. sent[p] = None /\ UNCHANGED <<bound, handlers, resultHandlers, callback, phase, forever, current, reported>>
  BY DEF DeliverMore, DeliverFirst, setup, outcome
<1>3. PICK port \in Ports : sent' = [sent EXCEPT ![p] = port] /\ (DeliverMore(c, p) => port = dport[c])
                            /\ (DeliverMore(c, p) \/ DeliverFirst(c, port, p))
  BY <1>1 DEF DeliverMore, DeliverFirst, TypeOK
<1>4. port # None
  BY DispatcherAssumption
<1>5. sent' \in [Packets -> Ports \cup {None}] /\ sent'[p] = port /\ \A q \in Packets : q # p => sent'[q] = sent[q]
  BY <1>1, <1>3 DEF TypeOK
<1>6. \A d \in Conns : rx[d] \in Seq(Packets) /\ Len(rx[d]) \in Nat
                       /\ \A k \in 1 .. Len(rx[d]) : rx[d][k] \in Packets /\ rx[d][k] # p
  <2> TAKE d \in Conns
  <2>1. rx[d] \in Seq(Packets)
    BY <1>1 DEF TypeOK
  <2>2. ASSUME NEW k \in 1 .. Len(rx[d]) PROVE rx[d][k] # p
    <3>1. rx[d] # << >>
      BY <2>1, <2>2
    <3>2. dport[d] # None /\ sent[rx[d][k]] = dport[d]
      BY <1>1, <2>2, <3>1 DEF Queued
    <3> QED BY <1>2, <3>2
  <2> QED BY <2>1, <2>2
<1>7. CASE DeliverMore(c, p) /\ Len(rx[c]) < RxLen
  <2>1. /\ dport[c] = port /\ rx' = [rx EXCEPT ![c] = Append(rx[c], p)]
        /\ UNCHANGED <<backlog, dport, fate>>
    BY <1>3, <1>7 DEF DeliverMore, outcome
  <2>2. rx' \in [Conns -> Seq(Packets)] /\ rx'[c] = Append(rx[c], p) /\ \A d \in Conns : d # c => rx'[d] = rx[d]
    BY <1>1, <1>6, <2>1 DEF TypeOK
  <2>3. TypeOK'
    BY <1>1, <1>2, <1>5, <2>1, <2>2 DEF TypeOK
  <2>4. Queued'
    <3> SUFFICES ASSUME NEW d \in Conns
                 PROVE  /\ dport'[d] = None => rx'[d] = << >>
                        /\ \A k \in 1 .. Len(rx'[d]) : sent'[rx'[d][k]] = dport'[d]
      BY DEF Queued
    <3>1. CASE d # c
      BY <1>1, <1>5, <1>6, <2>1, <2>2, <3>1 DEF Queued
    <3>2. CASE d = c
      <4>1. \A k \in 1 .. Len(rx'[c]) : (k \in 1 .. Len(rx[c]) /\ rx'[c][k] = rx[c][k]) \/ rx'[c][k] = p
        BY <1>6, <2>2
      <4> QED BY <1>1, <1>4, <1>5, <1>6, <2>1, <3>2, <4>1 DEF Queued
    <3> QED BY <3>1, <3>2
  <2>5. FateOfSent' /\ OneAnswerPerPort'
    <3>1. fate[p] = "none"
      BY <1>1, <1>2 DEF FateOfSent
    <3> QED BY <1>1, <1>2, <1>4, <1>5, <2>1, <3>1 DEF FateOfSent, OneAnswerPerPort
  <2> QED BY <2>3, <2>4, <2>5 DEF Inv
<1>8. CASE DeliverFirst(c, port, p) /\ bound \cap {port, AnyPort} # {} /\ Len(backlog) < Backlog
  <2>1. /\ dport[c] = None /\ dport' = [dport EXCEPT ![c] = port] /\ backlog' = Append(backlog, c)
        /\ rx' = [rx EXCEPT ![c] = <<p>>] /\ UNCHANGED fate
    BY <1>8 DEF DeliverFirst, outcome
  <2>2. /\ rx' \in [Conns -> Seq(Packets)] /\ rx'[c] = <<p>> /\ \A d \in Conns : d # c => rx'[d] = rx[d]
        /\ dport' \in [Conns -> Ports \cup {None}] /\ dport'[c] = port
        /\ \A d \in Conns : d # c => dport'[d] = dport[d]
    BY <1>1, <1>6, <2>1 DEF TypeOK
  <2>3. backlog' \in Seq(Conns) /\ Len(backlog') <= Backlog
    BY <1>1, <1>8, <2>1, DispatcherAssumption DEF TypeOK
  <2>4. TypeOK'
    BY <1>1, <1>2, <1>5, <2>1, <2>2, <2>3 DEF TypeOK
  <2>5. Queued'
    <3> SUFFICES ASSUME NEW d \in Conns
                 PROVE  /\ dport'[d] = None => rx'[d] = << >>
                        /\ \A k \in 1 .. Len(rx'[d]) : sent'[rx'[d][k]] = dport'[d]
      BY DEF Queued
    <3>1. CASE d # c
      <4>1. dport'[d] = dport[d] /\ rx'[d] = rx[d]
        BY <2>2, <3>1
      <4> QED BY <1>1, <1>5, <1>6, <4>1 DEF Queued
    <3>2. CASE d = c
      <4>1. \A k \in 1 .. Len(rx'[c]) : rx'[c][k] = p
        BY <2>2
      <4> QED BY <1>4, <1>5, <2>2, <3>2, <4>1
    <3> QED BY <3>1, <3>2
  <2>6. FateOfSent' /\ OneAnswerPerPort'
    <3>1. fate[p] = "none"
      BY <1>1, <1>2 DEF FateOfSent
    <3> QED BY <1>1, <1>2, <1>4, <1>5, <2>1, <3>1 DEF FateOfSent, OneAnswerPerPort
  <2> QED BY <2>4, <2>5, <2>6 DEF Inv
<1>9. CASE \/ DeliverFirst(c, port, p) /\ ~(bound \cap {port, AnyPort} # {} /\ Len(backlog) < Backlog)
           \/ DeliverMore(c, p) /\ ~(Len(rx[c]) < RxLen)
  <2>1. fate' = [fate EXCEPT ![p] = "dropped"] /\ UNCHANGED <<backlog, dport, rx>>
    BY <1>9 DEF DeliverFirst, DeliverMore
  <2>2. fate' \in [Packets -> Fates] /\ fate'[p] = "dropped" /\ \A q \in Packets : q # p => fate'[q] = fate[q]
    BY <1>1, <2>1 DEF TypeOK, Fates
  <2>3. TypeOK'
    BY <1>1, <1>2, <1>5, <2>1, <2>2 DEF TypeOK
  <2>4. Queued'
    BY <1>1, <1>5, <1>6, <2>1 DEF Queued
  <2>5. FateOfSent' /\ OneAnswerPerPort'
    BY <1>1, <1>2, <1>4, <1>5, <2>2 DEF FateOfSent, OneAnswerPerPort
  <2> QED BY <2>3, <2>4, <2>5 DEF Inv
<1> QED BY <1>3, <1>7, <1>8, <1>9

(* A packet is read: it is the oldest of the connection being served, and  *)
(* was sent to that connection's port.                                     *)
LEMMA TakeKeepsInv ==
  ASSUME Inv, NEW f \in Fates \ {"none"}, Take(f),
         f = "ignored" => ~IsServicePort(PortFrom(dport[current]))
  PROVE  Inv'
<1>1. TypeOK /\ Queued /\ FateOfSent /\ OneAnswerPerPort
  BY DEF Inv
<1>2. PICK c \in Conns : c = current
  BY <1>1 DEF Take, TypeOK
<1>3. rx[c] \in Seq(Packets) /\ rx[c] # << >>
  BY <1>1, <1>2 DEF Take, TypeOK
<1>4. PICK p \in Packets : p = Head(rx[c])
  BY <1>3
<1>5. /\ fate' = [fate EXCEPT ![p] = f] /\ reported' \in {reported, reported \cup {p}}
      /\ rx' = [rx EXCEPT ![c] = Tail(rx[c])]
      /\ UNCHANGED <<bound, handlers, resultHandlers, callback, phase, forever, current, backlog, dport, sent>>
  BY <1>2, <1>4 DEF Take, setup
<1>6. /\ fate' \in [Packets -> Fates] /\ fate'[p] = f
      /\ \A q \in Packets : q # p => fate'[q] = fate[q]
  BY <1>1, <1>5 DEF TypeOK
<1>7. /\ Tail(rx[c]) \in Seq(Packets) /\ Len(Tail(rx[c])) = Len(rx[c]) - 1
      /\ \A k \in 1 .. Len(Tail(rx[c])) : Tail(rx[c])[k] = rx[c][k + 1] /\ k + 1 \in 1 .. Len(rx[c])
      /\ rx[c][1] = p /\ 1 \in 1 .. Len(rx[c])
  BY <1>3, <1>4
<1>8. /\ rx' \in [Conns -> Seq(Packets)] /\ rx'[c] = Tail(rx[c])
      /\ \A d \in Conns : d # c => rx'[d] = rx[d]
  BY <1>1, <1>5, <1>7 DEF TypeOK
<1>9. sent[p] = dport[c] /\ dport[c] \in Ports /\ dport[c] # None
  <2>1. sent[p] = dport[c] /\ dport[c] # None
    BY <1>1, <1>3, <1>7 DEF Queued
  <2> QED BY <1>1, <2>1 DEF TypeOK
<1>10. TypeOK'
  BY <1>1, <1>5, <1>6, <1>8 DEF TypeOK
<1>11. Queued'
  <2> SUFFICES ASSUME NEW d \in Conns
               PROVE  /\ dport[d] = None => rx'[d] = << >>
                      /\ \A k \in 1 .. Len(rx'[d]) : sent[rx'[d][k]] = dport[d]
    BY <1>5 DEF Queued
  <2>1. CASE d # c
    <3>1. rx'[d] = rx[d]
      BY <1>8, <2>1
    <3> QED BY <1>1, <3>1 DEF Queued
  <2>2. CASE d = c
    <3>1. \A k \in 1 .. Len(rx[c]) : sent[rx[c][k]] = dport[c]
      BY <1>1 DEF Queued
    <3>2. \A k \in 1 .. Len(Tail(rx[c])) : sent[Tail(rx[c])[k]] = dport[c]
      BY <1>7, <3>1
    <3> QED BY <1>8, <1>9, <2>2, <3>2
  <2> QED BY <2>1, <2>2
<1>12. FateOfSent'
  BY <1>1, <1>5, <1>6, <1>9 DEF FateOfSent
<1>13. OneAnswerPerPort'
  <2>1. f = "ignored" => sent[p] \notin 0 .. 6
    BY <1>2, <1>9, ServicePorts
  <2> QED BY <1>1, <1>5, <1>6, <2>1 DEF OneAnswerPerPort
<1> QED BY <1>10, <1>11, <1>12, <1>13 DEF Inv

(* A closed connection's packets are freed with it.                        *)
LEMMA CloseConnKeepsInv ==
  ASSUME Inv, CloseConn
  PROVE  Inv'
<1>1. TypeOK /\ Queued /\ FateOfSent /\ OneAnswerPerPort
  BY DEF Inv
<1>2. PICK c \in Conns : c = current
  BY <1>1 DEF CloseConn, TypeOK
<1>3. /\ fate' = [p \in Packets |-> IF p \in ToSet(rx[c]) THEN "closedAway" ELSE fate[p]]
      /\ rx' = [rx EXCEPT ![c] = << >>] /\ dport' = [dport EXCEPT ![c] = None]
      /\ current' = None /\ phase' = "accepting"
      /\ UNCHANGED <<bound, handlers, resultHandlers, callback, forever, backlog, sent, reported>>
  BY <1>2 DEF CloseConn, setup
<1>4. fate' \in [Packets -> Fates] /\ \A p \in Packets : fate'[p] = fate[p] \/ (fate'[p] = "closedAway" /\ p \in ToSet(rx[c]))
  BY <1>1, <1>3 DEF TypeOK, Fates
<1>5. /\ rx' \in [Conns -> Seq(Packets)] /\ rx'[c] = << >> /\ \A d \in Conns : d # c => rx'[d] = rx[d]
      /\ dport' \in [Conns -> Ports \cup {None}] /\ dport'[c] = None
      /\ \A d \in Conns : d # c => dport'[d] = dport[d]
  <2>1. << >> \in Seq(Packets)
    OBVIOUS
  <2> QED BY <1>1, <1>3, <2>1 DEF TypeOK
<1>6. TypeOK'
  BY <1>1, <1>3, <1>4, <1>5 DEF TypeOK
<1>7. Queued'
  <2> SUFFICES ASSUME NEW d \in Conns
               PROVE  /\ dport'[d] = None => rx'[d] = << >>
                      /\ \A k \in 1 .. Len(rx'[d]) : sent[rx'[d][k]] = dport'[d]
    BY <1>3 DEF Queued
  <2>1. CASE d # c
    <3>1. rx'[d] = rx[d] /\ dport'[d] = dport[d]
      BY <1>5, <2>1
    <3> QED BY <1>1, <3>1 DEF Queued
  <2>2. CASE d = c
    BY <1>5, <2>2
  <2> QED BY <2>1, <2>2
<1>8. FateOfSent'
  <2>1. \A p \in ToSet(rx[c]) : sent[p] # None
    <3> SUFFICES ASSUME NEW p \in ToSet(rx[c]) PROVE sent[p] # None
      OBVIOUS
    <3>1. rx[c] \in Seq(Packets)
      BY <1>1 DEF TypeOK
    <3>2. PICK k \in 1 .. Len(rx[c]) : p = rx[c][k]
      BY <3>1 DEF ToSet
    <3>3. rx[c] # << >>
      BY <3>1, <3>2
    <3> QED BY <1>1, <3>2, <3>3 DEF Queued
  <2> QED BY <1>1, <1>3, <1>4, <2>1 DEF FateOfSent
<1>9. OneAnswerPerPort'
  BY <1>1, <1>3, <1>4 DEF OneAnswerPerPort
<1> QED BY <1>6, <1>7, <1>8, <1>9 DEF Inv

(* The rest of run moves between its loops.                                *)
LEMMA RunKeepsInv ==
  ASSUME Inv, RunStep
  PROVE  Inv'
<1>1. CASE Accept
  <2>1. backlog \in Seq(Conns) /\ backlog # << >>
    BY <1>1 DEF Accept, Inv, TypeOK
  <2>2. Head(backlog) \in Conns /\ Tail(backlog) \in Seq(Conns) /\ Len(Tail(backlog)) <= Len(backlog)
    BY <2>1
  <2>3. /\ current' = Head(backlog) /\ backlog' = Tail(backlog) /\ phase' = "reading"
        /\ UNCHANGED <<bound, handlers, resultHandlers, callback, forever, dport, rx, sent, fate, reported>>
    BY <1>1 DEF Accept, setup, net, outcome
  <2>4. Len(backlog') <= Backlog
    BY <2>1, <2>2, <2>3, DispatcherAssumption DEF Inv, TypeOK
  <2>5. TypeOK'
    BY <2>2, <2>3, <2>4, DispatcherAssumption DEF Inv, TypeOK
  <2> QED BY <2>3, <2>5 DEF Inv, Queued, FateOfSent, OneAnswerPerPort
<1>2. CASE AcceptTimesOut \/ ReadTimesOut
  <2>1. /\ UNCHANGED <<bound, handlers, resultHandlers, callback, forever, current, backlog, dport, rx, sent, fate, reported>>
        /\ \/ phase = "accepting" /\ phase' = "setup"
           \/ phase = "reading" /\ phase' = "closing"
    BY <1>2 DEF AcceptTimesOut, ReadTimesOut, setup, net, outcome
  <2>2. TypeOK'
    BY <2>1 DEF Inv, TypeOK
  <2> QED BY <2>1, <2>2 DEF Inv, Queued, FateOfSent, OneAnswerPerPort
<1>3. CASE Dispatch
  <2>1. \E f \in Fates \ {"none"} : Take(f) /\ (f = "ignored" => ~IsServicePort(PortFrom(dport[current])))
    BY <1>3 DEF Dispatch, DispatchRegular, DispatchResult, DispatchOther, Replies, Fates
  <2> QED BY <2>1, TakeKeepsInv
<1>4. CASE CloseConn
  BY <1>4, CloseConnKeepsInv
<1> QED BY <1>1, <1>2, <1>3, <1>4 DEF RunStep

(* The invariant holds in every state.                                     *)
THEOREM InvHolds == Spec => []Inv
<1>1. Init => Inv
  <2> SUFFICES ASSUME Init PROVE Inv
    OBVIOUS
  <2>1. callback \in BOOLEAN /\ forever \in BOOLEAN
    BY DEF Init
  <2>2. backlog \in Seq(Conns) /\ Len(backlog) <= Backlog
    BY DispatcherAssumption DEF Init
  <2>3. rx \in [Conns -> Seq(Packets)]
    BY DEF Init
  <2>4. TypeOK
    BY <2>1, <2>2, <2>3 DEF Init, TypeOK, Fates
  <2>5. Queued /\ FateOfSent /\ OneAnswerPerPort
    BY DEF Init, Queued, FateOfSent, OneAnswerPerPort
  <2> QED BY <2>4, <2>5 DEF Inv
<1>2. Inv /\ [Next]_vars => Inv'
  <2> SUFFICES ASSUME Inv, [Next]_vars PROVE Inv'
    OBVIOUS
  <2>1. CASE Next
    BY <2>1, SetupKeepsInv, DeliverKeepsInv, RunKeepsInv DEF Next
  <2>2. CASE UNCHANGED vars
    <3>1. UNCHANGED <<bound, handlers, resultHandlers, callback, phase, forever, current, backlog,
                      dport, rx, sent, fate, reported>>
      BY <2>2 DEF vars, setup, net, outcome
    <3>2. TypeOK'
      BY <3>1 DEF Inv, TypeOK
    <3>3. Queued' /\ FateOfSent' /\ OneAnswerPerPort'
      BY <3>1 DEF Inv, Queued, FateOfSent, OneAnswerPerPort
    <3> QED BY <3>2, <3>3 DEF Inv
  <2> QED BY <2>1, <2>2
<1> QED BY <1>1, <1>2, PTL DEF Spec

(* Types, for every instance.                                              *)
THEOREM TypeCorrect == Spec => []TypeOK
<1>1. Inv => TypeOK
  BY DEF Inv
<1> QED BY <1>1, InvHolds, PTL

(* A port has one answer, however it is spelled, and a packet that nobody  *)
(* answers was not sent to a service port.                                 *)
THEOREM PortsHaveOneAnswer == Spec => []OneAnswerPerPort
<1>1. Inv => OneAnswerPerPort
  BY DEF Inv
<1> QED BY <1>1, InvHolds, PTL

(* While run is on, none of its steps and nothing the router delivers      *)
(* takes an open connection out of its reach.                              *)
THEOREM RunReachesEveryConnection == Spec => RunStrandsNothing
<1>1. Inv /\ [Next]_vars => [phase # "setup" => Stranded' \subseteq Stranded]_vars
  <2> SUFFICES ASSUME Inv, Next, phase # "setup"
               PROVE  Stranded' \subseteq Stranded
    OBVIOUS
  <2>1. backlog \in Seq(Conns) /\ dport \in [Conns -> Ports \cup {None}]
    BY DEF Inv, TypeOK
  <2>2. CASE UNCHANGED <<dport, backlog, current>>
    BY <2>2 DEF Stranded
  <2>3. ASSUME NEW port \in Ports, NEW c \in Conns, NEW p \in Packets, DeliverFirst(c, port, p)
        PROVE  Stranded' \subseteq Stranded
    <3>1. CASE UNCHANGED <<dport, backlog, current>>
      BY <3>1, <2>2
    <3>2. CASE dport' = [dport EXCEPT ![c] = port] /\ backlog' = Append(backlog, c) /\ UNCHANGED current
      <4>1. ToSet(backlog') = ToSet(backlog) \cup {c}
        BY <2>1, <3>2 DEF ToSet
      <4>2. \A d \in Conns : d # c => dport'[d] = dport[d]
        BY <2>1, <3>2
      <4> QED BY <3>2, <4>1, <4>2 DEF Stranded
    <3> QED BY <2>3, <3>1, <3>2 DEF DeliverFirst
  <2>4. CASE Accept
    <3>1. backlog # << >> /\ current' = Head(backlog) /\ backlog' = Tail(backlog) /\ UNCHANGED dport
      BY <2>4 DEF Accept, net
    <3>2. ToSet(backlog) \subseteq ToSet(Tail(backlog)) \cup {Head(backlog)}
      <4> SUFFICES ASSUME NEW k \in 1 .. Len(backlog)
                   PROVE  backlog[k] \in ToSet(Tail(backlog)) \cup {Head(backlog)}
        BY <2>1 DEF ToSet
      <4>1. CASE k = 1
        BY <2>1, <3>1, <4>1
      <4>2. CASE k # 1
        <5>1. k - 1 \in DOMAIN Tail(backlog) /\ Tail(backlog)[k - 1] = backlog[k]
          BY <2>1, <3>1, <4>2
        <5> QED BY <5>1 DEF ToSet
      <4> QED BY <4>1, <4>2
    <3>3. current \notin Conns
      BY <2>4, DispatcherAssumption DEF Accept, Inv, TypeOK
    <3> QED BY <3>1, <3>2, <3>3 DEF Stranded
  <2>5. CASE CloseConn
    <3>1. /\ dport' = [dport EXCEPT ![current] = None] /\ UNCHANGED backlog
          /\ current' = None /\ current \in Conns
      BY <2>5 DEF CloseConn, Inv, TypeOK
    <3>2. dport'[current] = None /\ \A d \in Conns : d # current => dport'[d] = dport[d]
      BY <2>1, <3>1
    <3> QED BY <3>1, <3>2 DEF Stranded
  <2>6. CASE AcceptTimesOut \/ ReadTimesOut \/ Dispatch
    BY <2>2, <2>6 DEF AcceptTimesOut, ReadTimesOut, Dispatch, DispatchRegular, DispatchResult,
                      DispatchOther, Take, net
  <2>7. ASSUME NEW c \in Conns, NEW p \in Packets, DeliverMore(c, p)
        PROVE  Stranded' \subseteq Stranded
    BY <2>2, <2>7 DEF DeliverMore
  <2>8. ~OnError /\ (\A noLimit \in BOOLEAN : ~Run(noLimit))
        /\ \A port \in PortValues : ~(Register(port) \/ RegisterWithResult(port) \/ BindService(port))
    BY DEF OnError, Run, Register, RegisterWithResult, BindService, Bind
  <2> QED BY <2>3, <2>4, <2>5, <2>6, <2>7, <2>8 DEF Next, RunStep
<1> QED BY <1>1, InvHolds, PTL DEF Spec, RunStrandsNothing
=============================================================================
