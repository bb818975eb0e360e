-------------------------- MODULE ConnectionProofs --------------------------
(***************************************************************************)
(* What a caller gets over a connection.  Transactions for every set of    *)
(* clients and ports, every number of calls and every length of request    *)
(* and reply; SfpTransfer for every length of blob and size of fragment,   *)
(* any number of transfers and any network.                                *)
(***************************************************************************)
EXTENDS Transactions, SfpTransfer, TLAPS

(* from_code gives an error for every number. *)
LEMMA ErrorTypes ==
    ASSUME NEW code \in Int
    PROVE  FromCode(code) \in CspErrors
<1>1. CASE -code \in 1 .. 12
  <2>1. FromCode(code) = Variant(Numbered[-code])
    BY <1>1 DEF FromCode
  <2> QED BY <1>1, <2>1 DEF Variant, CspErrors
<1>2. CASE ~(-code \in 1 .. 12)
  BY <1>2 DEF FromCode, Variant, CspErrors
<1> QED BY <1>1, <1>2

(* No two of libcsp's return codes become the same CspError: what the C side
   reported can be told from the error. *)
THEOREM ErrorsTellCodesApart ==
    \A c, d \in Int : FromCode(c) = FromCode(d) => c = d
<1> DEFINE Named(c) == -c \in 1 .. 12 \/ c \in {-38, -100, -102, -103, -200}
           Name(c) == IF -c \in 1 .. 12 THEN Numbered[-c]
                      ELSE IF c = -38 THEN "NotImplemented"
                      ELSE IF c = -100 THEN "HmacFailed"
                      ELSE IF c = -102 THEN "Crc32Failed"
                      ELSE IF c = -103 THEN "SfpError" ELSE "Aborted"
<1>1. \A c \in Int : Named(c) => FromCode(c) = Variant(Name(c))
  BY DEF FromCode
<1>2. \A c \in Int : ~Named(c) => FromCode(c) = [variant |-> "Other", code |-> c]
  BY DEF FromCode
<1>3. \A c \in Int : Named(c) =>
        \/ c = -1 /\ Name(c) = "NoMemory"
        \/ c = -2 /\ Name(c) = "InvalidArgument"
        \/ c = -3 /\ Name(c) = "TimedOut"
        \/ c = -4 /\ Name(c) = "ResourceInUse"
        \/ c = -5 /\ Name(c) = "NotSupported"
        \/ c = -6 /\ Name(c) = "Busy"
        \/ c = -7 /\ Name(c) = "AlreadyInProgress"
        \/ c = -8 /\ Name(c) = "ConnectionReset"
        \/ c = -9 /\ Name(c) = "NoBuffers"
        \/ c = -10 /\ Name(c) = "TransmitFailed"
        \/ c = -11 /\ Name(c) = "DriverError"
        \/ c = -12 /\ Name(c) = "Again"
        \/ c = -38 /\ Name(c) = "NotImplemented"
        \/ c = -100 /\ Name(c) = "HmacFailed"
        \/ c = -102 /\ Name(c) = "Crc32Failed"
        \/ c = -103 /\ Name(c) = "SfpError"
        \/ c = -200 /\ Name(c) = "Aborted"
  BY DEF Numbered
<1> HIDE DEF Named, Name
<1>4. \A c \in Int : Named(c) => Name(c) # "Other"
  BY <1>3
<1>5. \A c, d \in Int : Named(c) /\ Named(d) /\ Name(c) = Name(d) => c = d
  BY <1>3
<1> SUFFICES ASSUME NEW c \in Int, NEW d \in Int, FromCode(c) = FromCode(d) PROVE c = d
  OBVIOUS
<1>6. FromCode(c).variant = FromCode(d).variant /\ FromCode(c).code = FromCode(d).code
  OBVIOUS
<1>7. \A e \in {c, d} : /\ Named(e) => FromCode(e).variant = Name(e)
                        /\ ~Named(e) => FromCode(e).variant = "Other" /\ FromCode(e).code = e
  BY <1>1, <1>2 DEF Variant
<1>8. CASE Named(c) /\ Named(d)
  BY <1>5, <1>6, <1>7, <1>8
<1>9. CASE ~Named(c) /\ ~Named(d)
  BY <1>6, <1>7, <1>9
<1>10. CASE (Named(c) /\ ~Named(d)) \/ (~Named(c) /\ Named(d))
  BY <1>4, <1>6, <1>7, <1>10
<1> QED BY <1>8, <1>9, <1>10

-----------------------------------------------------------------------------
(* The parts of the assumptions on the constants, one by one. *)
LEMMA NumbersOnly ==
    /\ MaxCalls \in Nat
    /\ \A x \in ReplyLens : x \in Nat
    /\ \A x \in InLens : x \in Nat \cup {-1}
    /\ \A x \in Rooms : x \in Nat
    /\ \A x \in Ids : x \in Nat /\ x # Nobody
    /\ CmpMax \in Nat /\ U32 \in Nat
<1>1. MaxCalls \in Nat /\ CmpMax \in Nat /\ U32 \in Nat
  BY LengthsAssumption
<1>2. /\ \A x \in ReplyLens : x \in Nat
      /\ \A x \in InLens : x \in Nat \cup {-1}
      /\ \A x \in Rooms : x \in Nat
  BY LengthsAssumption
<1>3. \A x \in Ids : x \in Nat /\ x # Nobody
  BY <1>1 DEF Ids, Nobody
<1> QED BY <1>1, <1>2, <1>3

(* What the wrappers' rules give for every code libcsp can return. *)
LEMMA ResultTypes ==
    ASSUME NEW ret \in Int, NEW in_len \in Int
    PROVE  /\ TransactionResult(ret, in_len) \in Results
           /\ CodeResult(ret) \in Results
           /\ PingResult(ret) \in Results
<1>1. FromCode(ret) \in CspErrors
  BY ErrorTypes
<1>2. Variant("None") \in CspErrors
  BY DEF Variant, CspErrors
<1>3. Variant("TransmitFailed") \in CspErrors
  <2>1. Variant(Numbered[10]) \in CspErrors
    BY DEF Variant, CspErrors
  <2>2. Numbered[10] = "TransmitFailed"
    BY DEF Numbered
  <2> QED BY <2>1, <2>2
<1>4. \A e \in CspErrors : Err(e) \in Results
  BY DEF Err, Results
<1>5. \A n \in Nat : Ok(n) \in Results
  BY <1>2 DEF Ok, Results
<1>6. TransactionResult(ret, in_len) \in Results
  BY <1>3, <1>4, <1>5 DEF TransactionResult
<1>7. CodeResult(ret) \in Results
  BY <1>1, <1>4, <1>5 DEF CodeResult
<1>8. PingResult(ret) \in Results
  BY <1>3, <1>4, <1>5 DEF PingResult
<1> QED BY <1>6, <1>7, <1>8

(* The rule of each kind of call gives an Ok or an Err. *)
LEMMA ResultType ==
    ASSUME NEW d \in Calls, NEW ret \in Int
    PROVE  Result(d, ret) \in Results
<1>1. d.kind \in Kinds /\ d.inLen \in Int
  BY DEF Calls
<1>2. CASE d.kind = "transaction"
  BY <1>1, <1>2, ResultTypes DEF Result
<1>3. CASE d.kind = "code"
  BY <1>1, <1>3, ResultTypes DEF Result
<1>4. CASE d.kind = "ping"
  BY <1>1, <1>4, ResultTypes DEF Result
<1> QED BY <1>1, <1>2, <1>3, <1>4 DEF Kinds

(* How a call ends, as Return records it. *)
EndOf(d, sent, answer, result) ==
    [call |-> d, sent |-> sent, answer |-> answer, result |-> result]

(* It is well formed. *)
LEMMA EndType ==
    ASSUME NEW d \in Calls, NEW sent \in BOOLEAN,
           NEW answer \in Ids \cup {Nobody}, NEW result \in Results
    PROVE  EndOf(d, sent, answer, result) \in Ends
BY DEF EndOf, Ends

(* What OkMeansAnswered says of one ended call. *)
Answered(e) ==
    e.result.ok /\ e.call.inLen # 0 =>
        /\ e.sent /\ e.answer # Nobody
        /\ e.call.kind = "transaction" =>
              e.result.n > 0 /\ e.call.inLen \in {-1, e.result.n}

(* An Err says nothing of a reply. *)
LEMMA ErrAnswered ==
    ASSUME NEW d, NEW sent, NEW answer, NEW result, ~result.ok
    PROVE  Answered(EndOf(d, sent, answer, result))
BY DEF Answered, EndOf

(* A call that read nothing is an Err, unless it asked for nothing. *)
LEMMA NoneAnswered ==
    ASSUME NEW d \in Calls, NEW sent \in BOOLEAN
    PROVE  /\ Result(d, RetNone(d)) \in Results
           /\ Answered(EndOf(d, sent, Nobody, Result(d, RetNone(d))))
<1>1. d.kind \in Kinds /\ d.inLen \in Int
  BY DEF Calls
<1>2. RetNone(d) \in Int
  BY <1>1 DEF RetNone, Kinds, CSP_ERR_TIMEDOUT
<1>3. d.inLen # 0 => ~Result(d, RetNone(d)).ok
  <2>1. CASE d.kind = "transaction"
    BY <1>1, <2>1 DEF Result, RetNone, TransactionResult, Ok, Err
  <2>2. CASE d.kind = "code"
    BY <1>1, <2>2 DEF Result, RetNone, CodeResult, Ok, Err, CSP_ERR_TIMEDOUT
  <2>3. CASE d.kind = "ping"
    BY <1>1, <2>3 DEF Result, RetNone, PingResult, Ok, Err
  <2> QED BY <1>1, <2>1, <2>2, <2>3 DEF Kinds
<1>4. Answered(EndOf(d, sent, Nobody, Result(d, RetNone(d))))
  <2>1. CASE d.inLen # 0
    BY <1>3, <2>1, ErrAnswered
  <2>2. CASE d.inLen = 0
    BY <2>2 DEF Answered, EndOf
  <2> QED BY <2>1, <2>2
<1> QED BY <1>2, <1>4, ResultType

(* A call that read a reply is Ok only if the reply has the length it asked
   for. *)
LEMMA ReadAnswered ==
    ASSUME NEW d \in Calls, NEW r \in Replies
    PROVE  /\ Result(d, RetRead(d, r)) \in Results
           /\ Answered(EndOf(d, TRUE, r.id, Result(d, RetRead(d, r))))
<1>1. d.kind \in Kinds /\ d.inLen \in Int
  BY DEF Calls
<1>2. r.len \in Nat /\ r.id # Nobody
  <2>1. r.len \in ReplyLens /\ r.id \in Ids
    BY DEF Replies
  <2> QED BY <2>1, NumbersOnly
<1>3. RetRead(d, r) \in Int
  BY <1>1, <1>2 DEF RetRead, Kinds, CSP_ERR_TIMEDOUT
<1> DEFINE res == Result(d, RetRead(d, r))
<1>4. CASE d.kind = "transaction"
  <2>1. res.ok /\ d.inLen # 0 => res.n > 0 /\ d.inLen \in {-1, res.n}
    BY <1>1, <1>2, <1>4 DEF Result, RetRead, TransactionResult, Ok, Err
  <2> QED BY <1>2, <1>3, <2>1, ResultType DEF Answered, EndOf
<1>5. CASE d.kind # "transaction"
  BY <1>2, <1>3, <1>5, ResultType DEF Answered, EndOf
<1> QED BY <1>4, <1>5

-----------------------------------------------------------------------------
(* What is under way or queued was sent before now, is no ended call's answer
   and, of a waiting call, its own reply travels on its connection, where
   nothing is younger than it. *)
Good(x, n, running, over) ==
    /\ x.id < n
    /\ \A c \in Clients : \A d \in running[c] :
          /\ x.id = d.id => x.conn = d.conn
          /\ x.conn = d.conn => x.id <= d.id
    /\ \A c \in Clients : \A e \in over[c] : e.answer # x.id

Carried ==
    /\ \A q \in reqs : Good(q, next, call, last)
    /\ \A r \in reps : Good(r, next, call, last)
    /\ \A k \in Conns : \A i \in 1 .. Len(rxq[k]) :
          rxq[k][i].conn = k /\ Good(rxq[k][i], next, call, last)

(* A request's number is in one place. *)
OnePlace ==
    /\ \A q, s \in reqs : q.id = s.id => q = s
    /\ \A q, s \in reps : q.id = s.id => q = s
    /\ \A q \in reqs : \A s \in reps : q.id # s.id
    /\ \A q \in reqs \cup reps : \A k \in Conns : \A i \in 1 .. Len(rxq[k]) :
          q.id # rxq[k][i].id
    /\ \A k, l \in Conns : \A i \in 1 .. Len(rxq[k]) : \A j \in 1 .. Len(rxq[l]) :
          rxq[k][i].id = rxq[l][j].id => k = l /\ i = j

(* Calls in progress run each on a connection of its own. *)
Waiting ==
    /\ \A c \in Clients : \A d \in call[c] : d.id < next /\ d.conn \in Ports \cup {c}
    /\ \A c, b \in Clients : c # b =>
          \A d \in call[c] : \A x \in call[b] : d.conn # x.conn

EndedWell(e) == Answered(e) /\ e.answer <= e.call.id /\ e.answer < next

EndedCalls ==
    /\ \A c \in Clients : \A e \in last[c] : EndedWell(e)
    /\ \A c, b \in Clients : \A d \in call[c] : \A e \in last[b] : e.answer # d.id
    /\ \A c, b \in Clients : \A e \in last[c] : \A f \in last[b] :
          e.answer = f.answer /\ e.answer # Nobody => e = f

Inv == TypeOK /\ Carried /\ OnePlace /\ Waiting /\ EndedCalls

(* A step makes a call with the next number at most, and ends one with the
   answer a at most. *)
CallsGrow == \A b \in Clients : \A d \in call'[b] : d \in call[b] \/ d.id = next
EndsGrow(a) == \A b \in Clients : \A e \in last'[b] : e \in last[b] \/ e.answer = a
Onward == next \in Nat /\ next' \in Nat /\ next <= next'

(* What was under way stays as it should be. *)
LEMMA GoodKept ==
    ASSUME NEW x, x.id \in Nat, Good(x, next, call, last), NEW a, x.id # a,
           CallsGrow, EndsGrow(a), Onward
    PROVE  Good(x, next', call', last')
<1>1. x.id < next'
  BY DEF Good, Onward
<1>2. ASSUME NEW c \in Clients, NEW d \in call'[c]
      PROVE  /\ x.id = d.id => x.conn = d.conn
             /\ x.conn = d.conn => x.id <= d.id
  <2>1. CASE d \in call[c]
    BY <2>1 DEF Good
  <2>2. CASE d.id = next
    BY <2>2 DEF Good, Onward
  <2> QED BY <2>1, <2>2 DEF CallsGrow
<1>3. ASSUME NEW c \in Clients, NEW e \in last'[c] PROVE e.answer # x.id
  <2>1. CASE e \in last[c]
    BY <2>1 DEF Good
  <2>2. CASE e.answer = a
    BY <2>2
  <2> QED BY <2>1, <2>2 DEF EndsGrow
<1> QED BY <1>1, <1>2, <1>3 DEF Good

(* The numbers and connections in use are what the types say. *)
LEMMA Numbers ==
    ASSUME TypeOK
    PROVE  /\ next \in Nat /\ next >= 1
           /\ \A q \in reqs : q.id \in Nat /\ q.id # Nobody /\ q.id \in Ids /\ q.conn \in Conns
           /\ \A q \in reps : q.id \in Nat /\ q.id # Nobody /\ q.id \in Ids /\ q.conn \in Conns
           /\ \A k \in Conns : \A i \in 1 .. Len(rxq[k]) :
                 /\ rxq[k][i] \in Replies /\ rxq[k][i].id \in Nat
                 /\ rxq[k][i].id # Nobody /\ rxq[k][i].id \in Ids
           /\ \A c \in Clients : \A d \in call[c] : d \in Calls /\ d.id \in Nat /\ d.id # Nobody
           /\ \A c \in Clients : \A e \in last[c] :
                 e.answer \in Nat /\ e.call.id \in Nat /\ e.call \in Calls
<1>1. next \in Nat /\ next >= 1
  BY NumbersOnly DEF TypeOK
<1>2. /\ \A q \in reqs : q.id \in Ids /\ q.conn \in Conns
      /\ \A q \in reps : q.id \in Ids /\ q.conn \in Conns
  BY DEF TypeOK, Requests, Replies
<1>3. ASSUME NEW k \in Conns, NEW i \in 1 .. Len(rxq[k]) PROVE rxq[k][i] \in Replies
  <2>1. rxq[k] \in Seq(Replies)
    BY DEF TypeOK
  <2> QED BY <2>1
<1>4. \A r \in Replies : r.id \in Ids
  BY DEF Replies
<1>5. \A c \in Clients : \A d \in call[c] : d \in Calls /\ d.id \in Ids
  BY DEF TypeOK, Calls
<1>6. ASSUME NEW c \in Clients, NEW e \in last[c]
      PROVE  e.answer \in Ids \cup {Nobody} /\ e.call.id \in Ids /\ e.call \in Calls
  <2>1. e \in Ends
    BY DEF TypeOK
  <2>2. e.answer \in Ids \cup {Nobody} /\ e.call \in Calls
    BY <2>1 DEF Ends
  <2> QED BY <2>2 DEF Calls
<1>7. Nobody \in Nat
  BY DEF Nobody
<1> QED BY <1>1, <1>2, <1>3, <1>4, <1>5, <1>6, <1>7, NumbersOnly

(* The ended calls after one more has ended well. *)
LEMMA EndsKept ==
    ASSUME Inv, NEW c \in Clients, NEW e \in Ends, EndedWell(e)',
           last' = [last EXCEPT ![c] = {e}], CallsGrow, Onward,
           \A b \in Clients : \A d \in call'[b] : e.answer # d.id,
           e.answer # Nobody => \A b \in Clients : \A f \in last[b] : f.answer # e.answer
    PROVE  last' \in [Clients -> SUBSET Ends] /\ EndedCalls'
<1>1. last' \in [Clients -> SUBSET Ends]
  BY DEF Inv, TypeOK
<1>2. last'[c] = {e} /\ \A b \in Clients : b # c => last'[b] = last[b]
  BY DEF Inv, TypeOK
<1>3. \A b \in Clients : \A f \in last'[b] : f = e \/ f \in last[b]
  BY <1>2
<1>4. \A b \in Clients : \A f \in last[b] : EndedWell(f)'
  BY Numbers DEF Inv, EndedCalls, EndedWell, Onward, Answered
<1>5. \A b, g \in Clients : \A d \in call'[b] : \A f \in last'[g] : f.answer # d.id
  <2> SUFFICES ASSUME NEW b \in Clients, NEW g \in Clients, NEW d \in call'[b], NEW f \in last'[g]
               PROVE  f.answer # d.id
    OBVIOUS
  <2>1. CASE f = e
    BY <2>1
  <2>2. CASE f \in last[g] /\ d \in call[b]
    BY <2>2 DEF Inv, EndedCalls
  <2>3. CASE f \in last[g] /\ d.id = next
    BY <2>3, Numbers DEF Inv, EndedCalls, EndedWell
  <2> QED BY <1>3, <2>1, <2>2, <2>3 DEF CallsGrow
<1>6. \A b, g \in Clients : \A f \in last'[b] : \A h \in last'[g] :
        f.answer = h.answer /\ f.answer # Nobody => f = h
  BY <1>3 DEF Inv, EndedCalls
<1>7. \A b \in Clients : \A f \in last'[b] : EndedWell(f)'
  BY <1>3, <1>4
<1> QED BY <1>1, <1>5, <1>6, <1>7 DEF EndedCalls

(* The ended calls when c's last one is forgotten, or none ends. *)
LEMMA EndsLeft ==
    ASSUME Inv, NEW c \in Clients, last' \in {last, [last EXCEPT ![c] = {}]}, CallsGrow, Onward
    PROVE  last' \in [Clients -> SUBSET Ends] /\ EndedCalls'
<1>1. last' \in [Clients -> SUBSET Ends]
  BY DEF Inv, TypeOK
<1>2. \A b \in Clients : \A f \in last'[b] : f \in last[b]
  BY DEF Inv, TypeOK
<1>3. \A b \in Clients : \A f \in last[b] : EndedWell(f)'
  BY Numbers DEF Inv, EndedCalls, EndedWell, Onward, Answered
<1>4. ASSUME NEW b \in Clients, NEW g \in Clients, NEW d \in call'[b], NEW f \in last'[g]
      PROVE  f.answer # d.id
  <2>1. CASE d \in call[b]
    BY <1>2, <2>1 DEF Inv, EndedCalls
  <2>2. CASE d.id = next
    BY <1>2, <2>2, Numbers DEF Inv, EndedCalls, EndedWell
  <2> QED BY <2>1, <2>2 DEF CallsGrow
<1>5. \A b, g \in Clients : \A f \in last'[b] : \A h \in last'[g] :
        f.answer = h.answer /\ f.answer # Nobody => f = h
  BY <1>2 DEF Inv, EndedCalls
<1> QED BY <1>1, <1>2, <1>3, <1>4, <1>5 DEF EndedCalls

(* The queues and the replies under way stay; at most one request with the
   next number is added, on a connection no call is running on. *)
LEMMA RequestSent ==
    ASSUME Inv, Onward, next \in Ids, next' = next + 1, CallsGrow, EndsGrow(Nobody),
           UNCHANGED <<reps, rxq>>, NEW k \in Conns, ~InUse(k),
           reqs' \in {reqs, reqs \cup {[id |-> next, conn |-> k]}},
           \A b \in Clients : \A d \in call'[b] : d \in call[b] \/ d.conn = k
    PROVE  reqs' \subseteq Requests /\ Carried' /\ OnePlace'
<1> DEFINE n == [id |-> next, conn |-> k]
<1>0. n.id = next /\ n.conn = k /\ n \in Requests
  BY DEF Requests
<1> HIDE DEF n
<1>1. \A q \in reqs' : q \in reqs \/ q = n
  BY DEF n
<1>2. reqs' \subseteq Requests
  BY <1>0, <1>1 DEF Inv, TypeOK
<1>3. /\ \A q \in reqs : Good(q, next', call', last')
      /\ \A q \in reps : Good(q, next', call', last')
      /\ \A l \in Conns : \A i \in 1 .. Len(rxq[l]) : Good(rxq[l][i], next', call', last')
  <2>1. ASSUME NEW q \in reqs \cup reps PROVE Good(q, next', call', last')
    BY Numbers, GoodKept DEF Inv, Carried
  <2>2. ASSUME NEW l \in Conns, NEW i \in 1 .. Len(rxq[l])
        PROVE  Good(rxq[l][i], next', call', last')
    BY Numbers, GoodKept DEF Inv, Carried
  <2>3. /\ \A q \in reqs : Good(q, next', call', last')
        /\ \A q \in reps : Good(q, next', call', last')
    BY <2>1
  <2> QED BY <2>2, <2>3
<1>4. Good(n, next', call', last')
  <2>1. n.id < next'
    BY <1>0 DEF Onward
  <2>2. ASSUME NEW c \in Clients, NEW d \in call'[c]
        PROVE  /\ n.id = d.id => n.conn = d.conn
               /\ n.conn = d.conn => n.id <= d.id
    <3>1. CASE d \in call[c]
      <4>1. d.id < next /\ d.id \in Nat
        BY <3>1, Numbers DEF Inv, Waiting
      <4>2. d.conn # k
        BY <3>1 DEF InUse
      <4> QED BY <1>0, <4>1, <4>2 DEF Onward
    <3>2. CASE d.id = next /\ d.conn = k
      BY <1>0, <3>2 DEF Onward
    <3> QED BY <3>1, <3>2 DEF CallsGrow
  <2>3. ASSUME NEW c \in Clients, NEW e \in last'[c] PROVE e.answer # n.id
    <3>1. CASE e \in last[c]
      BY <1>0, <3>1, Numbers DEF Inv, EndedCalls, EndedWell
    <3>2. CASE e.answer = Nobody
      BY <1>0, <3>2, NumbersOnly
    <3> QED BY <3>1, <3>2 DEF EndsGrow
  <2> QED BY <2>1, <2>2, <2>3 DEF Good
<1>5. Carried'
  <2>1. \A q \in reqs' : Good(q, next', call', last')
    BY <1>1, <1>3, <1>4
  <2>2. \A q \in reps' : Good(q, next', call', last')
    BY <1>3
  <2>3. \A l \in Conns : \A i \in 1 .. Len(rxq'[l]) : rxq'[l][i].conn = l /\ Good(rxq'[l][i], next', call', last')
    BY <1>3 DEF Inv, Carried
  <2> QED BY <2>1, <2>2, <2>3 DEF Carried, Good
<1>6. OnePlace'
  <2>1. /\ \A q \in reqs : q.id # next
        /\ \A q \in reps : q.id # next
        /\ \A l \in Conns : \A i \in 1 .. Len(rxq[l]) : rxq[l][i].id # next
    BY Numbers DEF Inv, Carried, Good
  <2>2. \A q, s \in reqs' : q.id = s.id => q = s
    BY <1>0, <1>1, <2>1 DEF Inv, OnePlace
  <2>3. \A q \in reqs' : \A s \in reps : q.id # s.id
    BY <1>0, <1>1, <2>1 DEF Inv, OnePlace
  <2>4. \A q \in reqs' \cup reps : \A l \in Conns : \A i \in 1 .. Len(rxq[l]) :
          q.id # rxq[l][i].id
    BY <1>0, <1>1, <2>1 DEF Inv, OnePlace
  <2> QED BY <2>2, <2>3, <2>4 DEF Inv, OnePlace
<1> QED BY <1>2, <1>5, <1>6

(* Between calls, nobody runs one on the connection c keeps. *)
LEMMA KeptIsFree ==
    ASSUME Inv, NEW c \in Clients, call[c] = {}
    PROVE  c \in Conns /\ ~InUse(c)
<1>1. c \in Conns /\ c \notin Ports
  BY ConnsAssumption DEF Conns
<1>2. \A b \in Clients : \A d \in call[b] : d.conn # c
  <2> SUFFICES ASSUME NEW b \in Clients, NEW d \in call[b] PROVE d.conn # c
    OBVIOUS
  <2>1. b # c
    OBVIOUS
  <2>2. d.conn \in Ports \cup {b}
    BY DEF Inv, Waiting
  <2> QED BY <1>1, <2>1, <2>2
<1> QED BY <1>1, <1>2 DEF InUse

(* A call takes the next number. *)
LEMMA BeginFacts ==
    ASSUME Inv, NEW c \in Clients, Begin(c)
    PROVE  /\ next \in Ids /\ next \in Nat /\ next' = next + 1 /\ Onward
           /\ next' \in 1 .. MaxCalls + 1 /\ call[c] = {}
<1>1. next \in 1 .. MaxCalls + 1 /\ MaxCalls \in Nat
  BY NumbersOnly DEF Inv, TypeOK
<1>2. next' = next + 1 /\ next <= MaxCalls /\ call[c] = {}
  BY DEF Begin
<1> QED BY <1>1, <1>2 DEF Onward, Ids

(* The call goes out and runs on a connection no other runs on, or ends at
   once because it wants no reply. *)
LEMMA SendKeepsInv ==
    ASSUME Inv, NEW c \in Clients, NEW d \in Calls, d.id = next,
           d.conn \in Ports \cup {c}, ~InUse(d.conn), Send(c, d)
    PROVE  Inv'
<1>0. d.conn \in Conns
  BY DEF Conns
<1>1. /\ next \in Ids /\ next \in Nat /\ next' = next + 1 /\ Onward
      /\ next' \in 1 .. MaxCalls + 1 /\ call[c] = {}
  BY BeginFacts DEF Send
<1>2. reqs' = reqs \cup {[id |-> next, conn |-> d.conn]} /\ reps' = reps /\ rxq' = rxq
  BY DEF Send
<1>3. CASE d.kind = "transaction" /\ d.inLen = 0
  <2> DEFINE e == EndOf(d, TRUE, Nobody, Result(d, 1))
  <2>1. last' = [last EXCEPT ![c] = {e}] /\ call' = call
    BY <1>3 DEF Send, Return, EndOf
  <2>2. e \in Ends
    <3>1. Result(d, 1) \in Results
      BY ResultType
    <3> QED BY <3>1, EndType
  <2>3. e.answer = Nobody /\ e.call = d
    BY DEF EndOf
  <2>4. Answered(e)
    BY <1>3, <2>3 DEF Answered
  <2>5. Nobody <= d.id /\ Nobody < next'
    BY <1>1 DEF Nobody
  <2>6. EndedWell(e)'
    <3>1. e.answer <= e.call.id /\ e.answer < next'
      BY <2>3, <2>5
    <3> HIDE DEF e
    <3>2. ASSUME NEW x, Answered(x), x.answer <= x.call.id, x.answer < next'
          PROVE  EndedWell(x)'
      BY <3>2 DEF EndedWell, Answered
    <3> QED BY <2>4, <3>1, <3>2, <2>1
  <2>7. CallsGrow
    BY <2>1 DEF CallsGrow
  <2>8. EndsGrow(Nobody)
    BY <2>1, <2>3 DEF EndsGrow, Inv, TypeOK
  <2>9. \A b \in Clients : \A x \in call'[b] : e.answer # x.id
    BY <2>1, <2>3, Numbers DEF Inv
  <2> HIDE DEF e
  <2>10. last' \in [Clients -> SUBSET Ends] /\ EndedCalls'
    BY <1>1, <2>1, <2>2, <2>3, <2>6, <2>7, <2>9, EndsKept
  <2>11. reqs' \subseteq Requests /\ Carried' /\ OnePlace'
    BY <1>0, <1>1, <1>2, <2>1, <2>7, <2>8, RequestSent
  <2>12. Waiting'
    BY <1>1, <2>1, Numbers DEF Inv, Waiting
  <2>13. TypeOK'
    BY <1>1, <1>2, <2>1, <2>10, <2>11 DEF Inv, TypeOK
  <2> QED BY <2>10, <2>11, <2>12, <2>13 DEF Inv
<1>4. CASE ~(d.kind = "transaction" /\ d.inLen = 0)
  <2>1. last' = [last EXCEPT ![c] = {}] /\ call' = [call EXCEPT ![c] = {d}]
    BY <1>4 DEF Send
  <2>2. call'[c] = {d} /\ \A b \in Clients : b # c => call'[b] = call[b]
    BY <2>1 DEF Inv, TypeOK
  <2>3. CallsGrow /\ \A b \in Clients : \A x \in call'[b] : x \in call[b] \/ x.conn = d.conn
    BY <2>2 DEF CallsGrow
  <2>4. EndsGrow(Nobody)
    BY <2>1 DEF EndsGrow, Inv, TypeOK
  <2>5. last' \in [Clients -> SUBSET Ends] /\ EndedCalls'
    BY <1>1, <2>1, <2>3, EndsLeft
  <2>6. reqs' \subseteq Requests /\ Carried' /\ OnePlace'
    BY <1>0, <1>1, <1>2, <2>3, <2>4, RequestSent
  <2>7. Waiting'
    <3>1. ASSUME NEW b \in Clients, NEW x \in call'[b]
          PROVE  x.id < next' /\ x.conn \in Ports \cup {b}
      <4>1. CASE b = c
        BY <1>1, <2>2, <4>1
      <4>2. CASE b # c
        <5>1. x \in call[b]
          BY <2>2, <4>2
        <5>2. x.id < next /\ x.conn \in Ports \cup {b} /\ x.id \in Nat
          BY <5>1, Numbers DEF Inv, Waiting
        <5> QED BY <1>1, <5>2
      <4> QED BY <4>1, <4>2
    <3>2. ASSUME NEW b \in Clients, NEW g \in Clients, b # g, NEW x \in call'[b], NEW y \in call'[g]
          PROVE  x.conn # y.conn
      <4>1. CASE b = c
        BY <2>2, <3>2, <4>1 DEF InUse
      <4>2. CASE g = c
        BY <2>2, <3>2, <4>2 DEF InUse
      <4>3. CASE b # c /\ g # c
        BY <2>2, <3>2, <4>3 DEF Inv, Waiting
      <4> QED BY <4>1, <4>2, <4>3
    <3> QED BY <3>1, <3>2 DEF Waiting
  <2>8. call' \in [Clients -> SUBSET Calls] /\ \A b \in Clients : \A x, y \in call'[b] : x = y
    BY <2>1, <2>2 DEF Inv, TypeOK
  <2>9. TypeOK'
    BY <1>1, <1>2, <2>5, <2>6, <2>8 DEF Inv, TypeOK
  <2> QED BY <2>5, <2>6, <2>7, <2>9 DEF Inv
<1> QED BY <1>3, <1>4

(* Nothing stays of the call but perhaps a request under way: it ends at once,
   with e or without a result. *)
LEMMA BriefKeepsInv ==
    ASSUME Inv, NEW c \in Clients, Begin(c), NEW k \in Conns, ~InUse(k),
           reqs' \in {reqs, reqs \cup {[id |-> next, conn |-> k]}},
           UNCHANGED <<call, reps, rxq>>, NEW e \in Ends, e.answer = Nobody, Answered(e),
           last' \in {[last EXCEPT ![c] = {}], [last EXCEPT ![c] = {e}]}
    PROVE  Inv'
<1>1. /\ next \in Ids /\ next \in Nat /\ next' = next + 1 /\ Onward
      /\ next' \in 1 .. MaxCalls + 1
  BY BeginFacts
<1>2. CallsGrow
  BY DEF CallsGrow
<1>3. EndsGrow(Nobody)
  BY DEF EndsGrow, Inv, TypeOK
<1>4. reqs' \subseteq Requests /\ Carried' /\ OnePlace'
  <2>1. UNCHANGED <<reps, rxq>> /\ \A b \in Clients : \A d \in call'[b] : d \in call[b] \/ d.conn = k
    OBVIOUS
  <2> QED BY <1>1, <1>2, <1>3, <2>1, RequestSent
<1>5. Waiting'
  BY <1>1, Numbers DEF Inv, Waiting
<1>6. last' \in [Clients -> SUBSET Ends] /\ EndedCalls'
  <2>1. CASE last' = [last EXCEPT ![c] = {}]
    BY <1>1, <1>2, <2>1, EndsLeft
  <2>2. CASE last' = [last EXCEPT ![c] = {e}]
    <3>1. e.call.id \in Nat /\ Nobody \in Nat /\ Nobody <= e.call.id
      <4>1. e.call.id \in Ids
        BY DEF Ends, Calls
      <4> QED BY <4>1, NumbersOnly DEF Nobody
    <3>2. EndedWell(e)'
      BY <1>1, <3>1 DEF EndedWell, Answered, Nobody
    <3>3. \A b \in Clients : \A d \in call'[b] : e.answer # d.id
      BY Numbers DEF Inv
    <3> QED BY <1>1, <1>2, <2>2, <3>2, <3>3, EndsKept
  <2> QED BY <2>1, <2>2
<1>7. TypeOK'
  BY <1>1, <1>4, <1>6 DEF Inv, TypeOK
<1> QED BY <1>4, <1>5, <1>6, <1>7 DEF Inv

(* A call that sends nothing. *)
LEMMA NotSentKeepsInv ==
    ASSUME Inv, NEW c \in Clients, NEW d \in Calls, NEW result \in Results,
           Answered(EndOf(d, FALSE, Nobody, result)), NotSent(c, d, result)
    PROVE  Inv'
<1> DEFINE e == EndOf(d, FALSE, Nobody, result)
<1>1. Begin(c) /\ UNCHANGED <<call, reqs, reps, rxq>> /\ last' = [last EXCEPT ![c] = {e}]
  BY DEF NotSent, Return, EndOf
<1>2. e \in Ends
  <2>1. Nobody \in Ids \cup {Nobody} /\ FALSE \in BOOLEAN
    OBVIOUS
  <2> QED BY <2>1, EndType
<1>3. e.answer = Nobody
  BY DEF EndOf
<1>4. c \in Conns /\ ~InUse(c)
  BY <1>1, BeginFacts, KeptIsFree
<1> HIDE DEF e
<1>5. Answered(e)
  BY DEF e
<1> QED BY <1>1, <1>2, <1>3, <1>4, <1>5, BriefKeepsInv

(* A queue after the call on its connection is over. *)
QueueLeft(k, n) ==
    /\ rxq' \in [Conns -> Seq(Replies)]
    /\ \A l \in Conns : l # k => rxq'[l] = rxq[l]
    /\ \A i \in 1 .. Len(rxq'[k]) :
          i + n \in 1 .. Len(rxq[k]) /\ rxq'[k][i] = rxq[k][i + n]

(* That is how Closed leaves it. *)
LEMMA ClosedFacts ==
    ASSUME TypeOK, NEW d, d.conn \in Conns, NEW n \in {0, 1}, n <= Len(rxq[d.conn]),
           Closed(d, n)
    PROVE  QueueLeft(d.conn, n)
<1> DEFINE k == d.conn
           old == rxq[k]
<1>1. rxq \in [Conns -> Seq(Replies)] /\ old \in Seq(Replies)
  BY DEF TypeOK
<1>2. CASE k \in Clients
  <2> DEFINE new == SubSeq(old, n + 1, Len(old))
  <2>1. rxq' = [rxq EXCEPT ![k] = new]
    BY <1>2 DEF Closed
  <2>2. new \in Seq(Replies) /\ Len(new) = Len(old) - n
    BY <1>1
  <2>3. \A i \in 1 .. Len(new) : i + n \in 1 .. Len(old) /\ new[i] = old[i + n]
    BY <1>1
  <2> HIDE DEF new
  <2>4. rxq'[k] = new
    BY <1>1, <2>1
  <2> QED BY <1>1, <2>1, <2>2, <2>3, <2>4 DEF QueueLeft
<1>3. CASE k \notin Clients
  <2>1. rxq' = [rxq EXCEPT ![k] = << >>]
    BY <1>3 DEF Closed
  <2>2. << >> \in Seq(Replies) /\ Len(<< >>) = 0
    OBVIOUS
  <2> QED BY <1>1, <2>1, <2>2 DEF QueueLeft
<1> QED BY <1>2, <1>3

(* A call ends, with the answer a at the head of its queue or with none: the
   head of a queue is nobody's but the one's who runs on its connection. *)
LEMMA EndKeepsInv ==
    ASSUME Inv, NEW c \in Clients, NEW d \in call[c], NEW a, NEW n \in {0, 1},
           \/ n = 0 /\ a = Nobody
           \/ n = 1 /\ rxq[d.conn] # << >> /\ a = rxq[d.conn][1].id,
           NEW result \in Results, Answered(EndOf(d, TRUE, a, result)),
           Return(c, d, TRUE, a, result), Closed(d, n),
           call' = [call EXCEPT ![c] = {}], UNCHANGED <<next, reqs, reps>>
    PROVE  Inv'
<1> DEFINE e == EndOf(d, TRUE, a, result)
           k == d.conn
<1>1. /\ d \in Calls /\ d.id \in Nat /\ d.id < next /\ next \in Nat
      /\ k \in Ports \cup {c} /\ k \in Conns
  BY Numbers DEF Inv, Waiting, Conns
<1>2. rxq[k] \in Seq(Replies) /\ (n = 1 => 1 \in 1 .. Len(rxq[k]))
  <2>1. rxq[k] \in Seq(Replies)
    BY <1>1 DEF Inv, TypeOK
  <2> QED BY <2>1
<1>3. QueueLeft(k, n)
  <2>1. n <= Len(rxq[k])
    BY <1>2
  <2> QED BY <1>1, <2>1, ClosedFacts DEF Inv
<1>4. call'[c] = {} /\ \A b \in Clients : b # c => call'[b] = call[b]
  BY DEF Inv, TypeOK
<1>5. /\ a \in Ids \cup {Nobody} /\ a \in Nat /\ a <= d.id /\ a < next
      /\ \A b \in Clients : \A x \in call'[b] : a # x.id
      /\ a # Nobody => \A b \in Clients : \A f \in last[b] : f.answer # a
      /\ \A q \in reqs : q.id # a
      /\ \A q \in reps : q.id # a
  <2>1. CASE n = 0 /\ a = Nobody
    <3>1. a = 0
      BY <2>1 DEF Nobody
    <3>2. /\ \A b \in Clients : \A x \in call[b] : a # x.id
          /\ \A q \in reqs : q.id # a
          /\ \A q \in reps : q.id # a
      BY <2>1, Numbers DEF Inv
    <3>3. \A b \in Clients : \A x \in call'[b] : a # x.id
      BY <1>4, <3>2
    <3> QED BY <1>1, <2>1, <3>1, <3>2, <3>3
  <2>2. CASE n = 1 /\ rxq[k] # << >> /\ a = rxq[k][1].id
    <3> DEFINE r == rxq[k][1]
    <3>1. r.conn = k /\ Good(r, next, call, last)
      BY <1>1, <1>2, <2>2 DEF Inv, Carried
    <3>2. a \in Ids /\ a \in Nat /\ a # Nobody
      BY <1>1, <1>2, <2>2, Numbers DEF Inv
    <3>3. /\ \A q \in reqs : q.id # a
          /\ \A q \in reps : q.id # a
      BY <1>1, <1>2, <2>2 DEF Inv, OnePlace
    <3>4. a <= d.id
      BY <2>2, <3>1 DEF Good
    <3>5. ASSUME NEW b \in Clients, NEW x \in call'[b] PROVE a # x.id
      <4>1. b # c /\ x \in call[b]
        BY <1>4
      <4>2. x.conn # k
        BY <4>1 DEF Inv, Waiting
      <4> QED BY <2>2, <3>1, <4>1, <4>2 DEF Good
    <3>6. \A b \in Clients : \A f \in last[b] : f.answer # a
      BY <2>2, <3>1 DEF Good
    <3> QED BY <1>1, <3>2, <3>3, <3>4, <3>5, <3>6
  <2> QED BY <2>1, <2>2
<1>6. last' = [last EXCEPT ![c] = {e}]
  BY DEF Return, EndOf
<1>7. e.answer = a /\ e.call = d
  BY DEF EndOf
<1>8. e \in Ends
  BY <1>1, <1>5, EndType
<1>9. Answered(e)
  OBVIOUS
<1> HIDE DEF e
<1>10. CallsGrow /\ Onward
  BY <1>1, <1>4 DEF CallsGrow, Onward
<1>11. EndsGrow(a)
  BY <1>6, <1>7 DEF EndsGrow, Inv, TypeOK
<1>12. EndedWell(e)'
  BY <1>5, <1>7, <1>9 DEF EndedWell, Answered
<1>13. last' \in [Clients -> SUBSET Ends] /\ EndedCalls'
  BY <1>5, <1>6, <1>7, <1>8, <1>10, <1>12, EndsKept
<1>14. \A l \in Conns : \A i \in 1 .. Len(rxq'[l]) : \E j \in 1 .. Len(rxq[l]) :
          /\ j = (IF l = k THEN i + n ELSE i)
          /\ rxq'[l][i] = rxq[l][j] /\ rxq[l][j].id # a
  <2> SUFFICES ASSUME NEW l \in Conns, NEW i \in 1 .. Len(rxq'[l])
               PROVE  \E j \in 1 .. Len(rxq[l]) :
                        /\ j = (IF l = k THEN i + n ELSE i)
                        /\ rxq'[l][i] = rxq[l][j] /\ rxq[l][j].id # a
    OBVIOUS
  <2> DEFINE j == IF l = k THEN i + n ELSE i
  <2>1. j \in 1 .. Len(rxq[l]) /\ rxq'[l][i] = rxq[l][j]
    BY <1>3 DEF QueueLeft
  <2>2. i \in Nat /\ i >= 1
    <3>1. rxq'[l] \in Seq(Replies)
      BY <1>3 DEF QueueLeft
    <3> QED BY <3>1
  <2>3. rxq[l][j].id # a
    <3>1. CASE n = 0 /\ a = Nobody
      BY <2>1, <3>1, Numbers DEF Inv
    <3>2. CASE n = 1 /\ a = rxq[k][1].id
      <4>1. ~(l = k /\ j = 1)
        BY <2>2, <3>2
      <4> HIDE DEF j
      <4>2. 1 \in 1 .. Len(rxq[k])
        BY <1>2, <3>2
      <4> QED BY <1>1, <2>1, <3>2, <4>1, <4>2 DEF Inv, OnePlace
    <3> QED BY <3>1, <3>2
  <2> QED BY <2>1, <2>3
<1>15. Carried'
  <2>1. ASSUME NEW q \in reqs \cup reps PROVE Good(q, next', call', last')
    BY <1>5, <1>10, <1>11, Numbers, GoodKept DEF Inv, Carried
  <2>2. ASSUME NEW l \in Conns, NEW i \in 1 .. Len(rxq'[l])
        PROVE  rxq'[l][i].conn = l /\ Good(rxq'[l][i], next', call', last')
    <3>1. PICK j \in 1 .. Len(rxq[l]) : rxq'[l][i] = rxq[l][j] /\ rxq[l][j].id # a
      BY <1>14
    <3>2. rxq[l][j].conn = l /\ Good(rxq[l][j], next, call, last) /\ rxq[l][j].id \in Nat
      BY Numbers DEF Inv, Carried
    <3>3. Good(rxq[l][j], next', call', last')
      BY <1>10, <1>11, <3>1, <3>2, GoodKept
    <3> QED BY <3>1, <3>2, <3>3
  <2>3. /\ \A q \in reqs' : Good(q, next', call', last')
        /\ \A q \in reps' : Good(q, next', call', last')
    BY <2>1
  <2> QED BY <2>2, <2>3 DEF Carried
<1>16. OnePlace'
  <2>1. ASSUME NEW q \in reqs \cup reps, NEW l \in Conns, NEW i \in 1 .. Len(rxq'[l])
        PROVE  q.id # rxq'[l][i].id
    BY <1>14 DEF Inv, OnePlace
  <2>2. ASSUME NEW l \in Conns, NEW m \in Conns, NEW i \in 1 .. Len(rxq'[l]),
               NEW j \in 1 .. Len(rxq'[m]), rxq'[l][i].id = rxq'[m][j].id
        PROVE  l = m /\ i = j
    <3>1. PICK i2 \in 1 .. Len(rxq[l]) :
             i2 = (IF l = k THEN i + n ELSE i) /\ rxq'[l][i] = rxq[l][i2]
      BY <1>14
    <3>2. PICK j2 \in 1 .. Len(rxq[m]) :
             j2 = (IF m = k THEN j + n ELSE j) /\ rxq'[m][j] = rxq[m][j2]
      BY <1>14
    <3>3. l = m /\ i2 = j2
      BY <2>2, <3>1, <3>2 DEF Inv, OnePlace
    <3>4. i \in Int /\ j \in Int
      OBVIOUS
    <3> QED BY <3>1, <3>2, <3>3, <3>4
  <2>3. reqs' = reqs /\ reps' = reps
    OBVIOUS
  <2> QED BY <2>1, <2>2, <2>3 DEF Inv, OnePlace
<1>17. Waiting'
  BY <1>4 DEF Inv, Waiting
<1>18. call' \in [Clients -> SUBSET Calls] /\ \A b \in Clients : \A x, y \in call'[b] : x = y
  BY <1>4 DEF Inv, TypeOK
<1>19. rxq' \in [Conns -> Seq(Replies)]
  BY <1>3 DEF QueueLeft
<1>20. TypeOK'
  BY <1>13, <1>18, <1>19 DEF Inv, TypeOK
<1> QED BY <1>13, <1>15, <1>16, <1>17, <1>20 DEF Inv

(* The clients have done nothing. *)
LEMMA ClientsStill ==
    ASSUME Inv, UNCHANGED <<next, call, last>>
    PROVE  Waiting' /\ EndedCalls'
<1>1. \A e : EndedWell(e)' <=> EndedWell(e)
  BY DEF EndedWell, Answered
<1> QED BY <1>1 DEF Inv, Waiting, EndedCalls

(* A reply takes the place of the request it answers. *)
LEMMA AnswerKeepsInv ==
    ASSUME Inv, Answer
    PROVE  Inv'
<1>1. PICK q \in reqs, len \in ReplyLens :
         /\ reqs' = reqs \ {q}
         /\ reps' = reps \cup {[id |-> q.id, conn |-> q.conn, len |-> len]}
         /\ UNCHANGED <<next, call, last, rxq>>
  BY DEF Answer
<1> DEFINE r == [id |-> q.id, conn |-> q.conn, len |-> len]
<1>2. r.id = q.id /\ r.conn = q.conn
  OBVIOUS
<1>3. r \in Replies
  BY Numbers DEF Inv, Replies
<1> HIDE DEF r
<1>4. reps' = reps \cup {r}
  BY <1>1 DEF r
<1>5. TypeOK'
  BY <1>1, <1>3, <1>4 DEF Inv, TypeOK
<1>6. Carried'
  <2>1. Good(r, next, call, last)
    BY <1>2 DEF Inv, Carried, Good
  <2> QED BY <1>1, <1>4, <2>1 DEF Inv, Carried
<1>7. OnePlace'
  <2>1. /\ \A s \in reqs' : s \in reqs /\ s.id # q.id
        /\ \A s \in reps : s.id # q.id
        /\ \A k \in Conns : \A i \in 1 .. Len(rxq[k]) : q.id # rxq[k][i].id
    BY <1>1 DEF Inv, OnePlace
  <2>2. \A s \in reps' : s \in reps \/ s = r
    BY <1>4
  <2>3. \A s, t \in reps' : s.id = t.id => s = t
    BY <1>2, <2>1, <2>2 DEF Inv, OnePlace
  <2>4. \A s \in reqs' : \A t \in reps' : s.id # t.id
    BY <1>2, <2>1, <2>2 DEF Inv, OnePlace
  <2>5. \A s \in reqs' \cup reps' : \A k \in Conns : \A i \in 1 .. Len(rxq[k]) :
           s.id # rxq[k][i].id
    BY <1>2, <2>1, <2>2 DEF Inv, OnePlace
  <2>6. \A s, t \in reqs' : s.id = t.id => s = t
    BY <2>1 DEF Inv, OnePlace
  <2> QED BY <1>1, <2>3, <2>4, <2>5, <2>6 DEF Inv, OnePlace
<1> QED BY <1>1, <1>5, <1>6, <1>7, ClientsStill DEF Inv

(* The network drops a request or a reply. *)
LEMMA LoseKeepsInv ==
    ASSUME Inv, Lose
    PROVE  Inv'
<1>1. reqs' \subseteq reqs /\ reps' \subseteq reps /\ UNCHANGED <<next, call, last, rxq>>
  BY DEF Lose
<1>2. TypeOK'
  BY <1>1 DEF Inv, TypeOK
<1>3. Carried'
  BY <1>1 DEF Inv, Carried
<1>4. OnePlace'
  BY <1>1 DEF Inv, OnePlace
<1> QED BY <1>1, <1>2, <1>3, <1>4, ClientsStill DEF Inv

(* A reply moves from the network to the end of its connection's queue. *)
LEMMA DeliverKeepsInv ==
    ASSUME Inv, Deliver
    PROVE  Inv'
<1>1. PICK r \in reps :
         /\ reps' = reps \ {r}
         /\ rxq' \in {rxq, [rxq EXCEPT ![r.conn] = Append(rxq[r.conn], r)]}
         /\ UNCHANGED <<next, call, last, reqs>>
  BY DEF Deliver
<1>2. r \in Replies /\ r.conn \in Conns /\ rxq \in [Conns -> Seq(Replies)]
  BY Numbers DEF Inv, TypeOK
<1>3. CASE rxq' = rxq
  <2>1. TypeOK'
    BY <1>1, <1>3 DEF Inv, TypeOK
  <2>2. Carried'
    BY <1>1, <1>3 DEF Inv, Carried
  <2>3. OnePlace'
    BY <1>1, <1>3 DEF Inv, OnePlace
  <2> QED BY <1>1, <2>1, <2>2, <2>3, ClientsStill DEF Inv
<1>4. CASE rxq' = [rxq EXCEPT ![r.conn] = Append(rxq[r.conn], r)]
  <2>1. rxq' \in [Conns -> Seq(Replies)]
    BY <1>2, <1>4
  <2>2. \A k \in Conns : rxq'[k] = IF k = r.conn THEN Append(rxq[k], r) ELSE rxq[k]
    BY <1>2, <1>4
  <2>3. \A k \in Conns : \A i \in 1 .. Len(rxq'[k]) :
           \/ i \in 1 .. Len(rxq[k]) /\ rxq'[k][i] = rxq[k][i]
           \/ k = r.conn /\ i = Len(rxq[k]) + 1 /\ rxq'[k][i] = r
    <3> SUFFICES ASSUME NEW k \in Conns, NEW i \in 1 .. Len(rxq'[k])
                 PROVE  \/ i \in 1 .. Len(rxq[k]) /\ rxq'[k][i] = rxq[k][i]
                        \/ k = r.conn /\ i = Len(rxq[k]) + 1 /\ rxq'[k][i] = r
      OBVIOUS
    <3>1. CASE k = r.conn
      <4> DEFINE s == rxq[k]
      <4>1. s \in Seq(Replies) /\ rxq'[k] = Append(s, r)
        BY <1>2, <2>2, <3>1
      <4> HIDE DEF s
      <4>2. \/ i \in 1 .. Len(s) /\ Append(s, r)[i] = s[i]
            \/ i = Len(s) + 1 /\ Append(s, r)[i] = r
        BY <4>1
      <4> QED BY <3>1, <4>1, <4>2 DEF s
    <3>2. CASE k # r.conn
      BY <2>2, <3>2
    <3> QED BY <3>1, <3>2
  <2>4. TypeOK'
    BY <1>1, <2>1 DEF Inv, TypeOK
  <2>5. Carried'
    <3>1. ASSUME NEW k \in Conns, NEW i \in 1 .. Len(rxq'[k])
          PROVE  rxq'[k][i].conn = k /\ Good(rxq'[k][i], next, call, last)
      BY <2>3 DEF Inv, Carried
    <3> QED BY <1>1, <3>1 DEF Inv, Carried
  <2>6. OnePlace'
    <3>1. /\ \A q \in reps' : q \in reps /\ q.id # r.id
          /\ \A q \in reqs : q.id # r.id
          /\ \A k \in Conns : \A i \in 1 .. Len(rxq[k]) : rxq[k][i].id # r.id
      BY <1>1 DEF Inv, OnePlace
    <3>2. \A q, s \in reps' : q.id = s.id => q = s
      BY <3>1 DEF Inv, OnePlace
    <3>3. \A q \in reqs : \A s \in reps' : q.id # s.id
      BY <3>1 DEF Inv, OnePlace
    <3>4. \A q \in reqs \cup reps' : \A k \in Conns : \A i \in 1 .. Len(rxq'[k]) :
             q.id # rxq'[k][i].id
      BY <2>3, <3>1 DEF Inv, OnePlace
    <3>5. ASSUME NEW k \in Conns, NEW l \in Conns, NEW i \in 1 .. Len(rxq'[k]),
                 NEW j \in 1 .. Len(rxq'[l]), rxq'[k][i].id = rxq'[l][j].id
          PROVE  k = l /\ i = j
      <4>1. CASE i \in 1 .. Len(rxq[k]) /\ rxq'[k][i] = rxq[k][i]
        <5>1. CASE j \in 1 .. Len(rxq[l]) /\ rxq'[l][j] = rxq[l][j]
          BY <3>5, <4>1, <5>1 DEF Inv, OnePlace
        <5>2. CASE rxq'[l][j] = r
          BY <3>1, <3>5, <4>1, <5>2
        <5> QED BY <2>3, <5>1, <5>2
      <4>2. CASE k = r.conn /\ i = Len(rxq[k]) + 1 /\ rxq'[k][i] = r
        <5>1. CASE j \in 1 .. Len(rxq[l]) /\ rxq'[l][j] = rxq[l][j]
          BY <3>1, <3>5, <4>2, <5>1
        <5>2. CASE l = r.conn /\ j = Len(rxq[l]) + 1
          BY <4>2, <5>2
        <5> QED BY <2>3, <5>1, <5>2
      <4> QED BY <2>3, <4>1, <4>2
    <3>6. \A q, s \in reqs : q.id = s.id => q = s
      BY DEF Inv, OnePlace
    <3> QED BY <1>1, <3>2, <3>3, <3>4, <3>5, <3>6 DEF OnePlace
  <2> QED BY <1>1, <2>4, <2>5, <2>6, ClientsStill DEF Inv
<1> QED BY <1>1, <1>3, <1>4

(* Nobody has called. *)
LEMMA InitEstablishesInv == Init => Inv
<1> SUFFICES ASSUME Init PROVE Inv
  OBVIOUS
<1>1. /\ \A c \in Clients : call[c] = {} /\ last[c] = {}
      /\ \A k \in Conns : rxq[k] = << >> /\ Len(rxq[k]) = 0
  BY DEF Init
<1>2. TypeOK
  <2>1. next \in 1 .. MaxCalls + 1
    BY NumbersOnly DEF Init
  <2>2. rxq \in [Conns -> Seq(Replies)]
    BY DEF Init
  <2> QED BY <1>1, <2>1, <2>2 DEF Init, TypeOK
<1>3. Carried /\ OnePlace
  BY <1>1 DEF Init, Carried, OnePlace
<1>4. Waiting /\ EndedCalls
  BY <1>1 DEF Waiting, EndedCalls
<1> QED BY <1>2, <1>3, <1>4 DEF Inv

(* The record of a new call. *)
LEMMA CallType ==
    ASSUME NEW kind \in Kinds, NEW inLen \in Nat \cup {-1}, NEW room \in Nat,
           NEW conn \in Conns \cup {NoConn}, next \in Ids
    PROVE  /\ Call(kind, inLen, room, conn) \in Calls
           /\ Call(kind, inLen, room, conn).id = next
           /\ Call(kind, inLen, room, conn).conn = conn
BY DEF Call, Calls

(* A call on a connection of its own, sent or not. *)
LEMMA OneShotKeepsInv ==
    ASSUME Inv, NEW c \in Clients, NEW kind \in Kinds, NEW inLen \in Nat \cup {-1},
           NEW room \in Nat, OneShot(c, kind, inLen, room)
    PROVE  Inv'
<1>1. CASE \E p \in Ports : ~InUse(p) /\ Send(c, Call(kind, inLen, room, p))
  <2>1. PICK p \in Ports : ~InUse(p) /\ Send(c, Call(kind, inLen, room, p))
    BY <1>1
  <2>2. next \in Ids
    BY <2>1, BeginFacts DEF Send
  <2> DEFINE d == Call(kind, inLen, room, p)
  <2>3. p \in Conns
    BY DEF Conns
  <2>4. d \in Calls /\ d.id = next /\ d.conn = p
    BY <2>2, <2>3, CallType
  <2> HIDE DEF d
  <2>5. Send(c, d)
    BY <2>1 DEF d
  <2> QED BY <2>1, <2>4, <2>5, SendKeepsInv
<1>2. CASE NotSent(c, Call(kind, inLen, room, NoConn),
                   Result(Call(kind, inLen, room, NoConn), RetNone(Call(kind, inLen, room, NoConn))))
  <2>1. next \in Ids
    BY <1>2, BeginFacts DEF NotSent
  <2> DEFINE d == Call(kind, inLen, room, NoConn)
  <2>2. d \in Calls
    BY <2>1, CallType
  <2> HIDE DEF d
  <2>3. /\ Result(d, RetNone(d)) \in Results
        /\ Answered(EndOf(d, FALSE, Nobody, Result(d, RetNone(d))))
    BY <2>2, NoneAnswered
  <2>4. NotSent(c, d, Result(d, RetNone(d)))
    BY <1>2 DEF d
  <2> QED BY <2>2, <2>3, <2>4, NotSentKeepsInv
<1> QED BY <1>1, <1>2 DEF OneShot

(* A call on the connection its caller keeps, sent or not. *)
LEMMA PersistentKeepsInv ==
    ASSUME Inv, NEW c \in Clients, NEW inLen \in Nat \cup {-1}, NEW room \in Nat,
           TransactionPersistent(c, inLen, room)
    PROVE  Inv'
<1> DEFINE d == Call("transaction", inLen, room, c)
<1>1. Send(c, d) \/ NotSent(c, d, Result(d, RetNone(d)))
  BY DEF TransactionPersistent
<1>2. next \in Ids /\ call[c] = {}
  BY <1>1, BeginFacts DEF Send, NotSent
<1>3. c \in Conns /\ ~InUse(c)
  BY <1>2, KeptIsFree
<1>4. d \in Calls /\ d.id = next /\ d.conn = c
  BY <1>2, <1>3, CallType DEF Kinds
<1> HIDE DEF d
<1>5. CASE Send(c, d)
  BY <1>3, <1>4, <1>5, SendKeepsInv
<1>6. CASE NotSent(c, d, Result(d, RetNone(d)))
  <2>1. /\ Result(d, RetNone(d)) \in Results
        /\ Answered(EndOf(d, FALSE, Nobody, Result(d, RetNone(d))))
    BY <1>4, NoneAnswered
  <2> QED BY <1>4, <1>6, <2>1, NotSentKeepsInv
<1> QED BY <1>1, <1>5, <1>6

(* peek and poke refuse too much data. *)
LEMMA RefuseKeepsInv ==
    ASSUME Inv, NEW c \in Clients, NEW len \in Nat, Refuse(c, len)
    PROVE  Inv'
<1> DEFINE d == Call("code", CmpHeader + len, CmpHeader + len, NoConn)
           res == Err(Variant("InvalidArgument"))
<1>1. NotSent(c, d, res)
  BY DEF Refuse
<1>2. next \in Ids
  BY <1>1, BeginFacts DEF NotSent
<1>3. CmpHeader + len \in Nat
  BY DEF CmpHeader
<1>4. d \in Calls
  BY <1>2, <1>3, CallType DEF Kinds
<1>5. res \in Results /\ ~res.ok
  <2>1. Variant(Numbered[2]) \in CspErrors
    BY DEF Variant, CspErrors
  <2>2. Numbered[2] = "InvalidArgument"
    BY DEF Numbered
  <2> QED BY <2>1, <2>2 DEF Err, Results
<1> HIDE DEF d, res
<1>6. Answered(EndOf(d, FALSE, Nobody, res))
  BY <1>5, ErrAnswered
<1> QED BY <1>1, <1>4, <1>5, <1>6, NotSentKeepsInv

(* A call without a result: notifications, and poke's panic. *)
LEMMA NoResultKeepsInv ==
    ASSUME Inv, NEW c \in Clients, Begin(c), UNCHANGED <<call, reps, rxq>>,
           last' = [last EXCEPT ![c] = {}],
           \/ reqs' = reqs
           \/ \E p \in Ports : ~InUse(p) /\ reqs' = reqs \cup {[id |-> next, conn |-> p]}
    PROVE  Inv'
<1>1. next \in Ids /\ call[c] = {}
  BY BeginFacts
<1>2. PICK k \in Conns : ~InUse(k) /\ reqs' \in {reqs, reqs \cup {[id |-> next, conn |-> k]}}
  <2>1. CASE reqs' = reqs
    BY <1>1, <2>1, KeptIsFree
  <2>2. CASE \E p \in Ports : ~InUse(p) /\ reqs' = reqs \cup {[id |-> next, conn |-> p]}
    BY <2>2 DEF Conns
  <2> QED BY <2>1, <2>2
<1> DEFINE d == Call("code", 0, 0, NoConn)
           e == EndOf(d, FALSE, Nobody, Result(d, RetNone(d)))
<1>3. d \in Calls
  BY <1>1, CallType DEF Kinds
<1>4. e \in Ends /\ Answered(e) /\ e.answer = Nobody
  <2> HIDE DEF d
  <2>1. Result(d, RetNone(d)) \in Results /\ Answered(e)
    BY <1>3, NoneAnswered
  <2>2. FALSE \in BOOLEAN /\ Nobody \in Ids \cup {Nobody}
    OBVIOUS
  <2>3. e \in Ends
    BY <1>3, <2>1, <2>2, EndType
  <2>4. e.answer = Nobody
    BY DEF EndOf
  <2> QED BY <2>1, <2>3, <2>4
<1> HIDE DEF d, e
<1>5. last' \in {[last EXCEPT ![c] = {}], [last EXCEPT ![c] = {e}]}
  OBVIOUS
<1> QED BY <1>2, <1>4, <1>5, BriefKeepsInv

(* The call takes the reply at the head of its queue. *)
LEMMA ReadKeepsInv ==
    ASSUME Inv, NEW c \in Clients, Read(c)
    PROVE  Inv'
<1>1. PICK d \in call[c] :
         LET r == Head(rxq[d.conn]) IN
         /\ rxq[d.conn] # << >>
         /\ Return(c, d, TRUE, r.id, Result(d, RetRead(d, r)))
         /\ Closed(d, 1)
         /\ call' = [call EXCEPT ![c] = {}]
         /\ UNCHANGED <<next, reqs, reps>>
  BY DEF Read
<1> DEFINE r == Head(rxq[d.conn])
<1>2. d \in Calls /\ d.conn \in Conns
  BY Numbers DEF Inv, Waiting, Conns
<1>3. rxq[d.conn] \in Seq(Replies)
  BY <1>2 DEF Inv, TypeOK
<1>4. r = rxq[d.conn][1] /\ r \in Replies
  BY <1>1, <1>3
<1> HIDE DEF r
<1>5. /\ Result(d, RetRead(d, r)) \in Results
      /\ Answered(EndOf(d, TRUE, r.id, Result(d, RetRead(d, r))))
  BY <1>2, <1>4, ReadAnswered
<1>6. /\ rxq[d.conn] # << >> /\ Closed(d, 1)
      /\ Return(c, d, TRUE, r.id, Result(d, RetRead(d, r)))
      /\ call' = [call EXCEPT ![c] = {}]
      /\ UNCHANGED <<next, reqs, reps>>
  BY <1>1 DEF r
<1> QED BY <1>4, <1>5, <1>6, EndKeepsInv

(* The call ends without a reply. *)
LEMMA TimeoutKeepsInv ==
    ASSUME Inv, NEW c \in Clients, Timeout(c)
    PROVE  Inv'
<1>1. PICK d \in call[c] :
         /\ Return(c, d, TRUE, Nobody, Result(d, RetNone(d)))
         /\ Closed(d, 0)
         /\ call' = [call EXCEPT ![c] = {}]
         /\ UNCHANGED <<next, reqs, reps>>
  BY DEF Timeout
<1>2. d \in Calls
  BY Numbers DEF Inv
<1>3. /\ Result(d, RetNone(d)) \in Results
      /\ Answered(EndOf(d, TRUE, Nobody, Result(d, RetNone(d))))
  BY <1>2, NoneAnswered
<1> QED BY <1>1, <1>3, EndKeepsInv

(* A CMP message of any length. *)
LEMMA CmpKeepsInv ==
    ASSUME Inv, NEW c \in Clients, NEW len \in Nat, Cmp(c, len)
    PROVE  Inv'
<1>1. CmpHeader + len \in Nat
  BY DEF CmpHeader
<1> QED BY <1>1, OneShotKeepsInv DEF Cmp, Kinds

(* Every step. *)
LEMMA NextKeepsInv ==
    ASSUME Inv, Next
    PROVE  Inv'
<1>1. ASSUME NEW c \in Clients, NEW inLen \in InLens, NEW room \in Rooms,
             Transaction(c, inLen, room)
      PROVE  Inv'
  BY <1>1, NumbersOnly, OneShotKeepsInv DEF Transaction, Kinds
<1>2. ASSUME NEW c \in Clients, NEW inLen \in InLens, NEW room \in Rooms,
             TransactionPersistent(c, inLen, room)
      PROVE  Inv'
  BY <1>2, NumbersOnly, PersistentKeepsInv
<1>3. ASSUME NEW c \in Clients, NEW inLen \in InLens,
             Query(c, inLen) \/ Ident(c, inLen) \/ Ping(c, inLen)
      PROVE  Inv'
  <2>1. inLen \in Nat
    BY <1>3, NumbersOnly DEF Query, Ident, Ping
  <2> QED BY <1>3, <2>1, OneShotKeepsInv DEF Query, Ident, Ping, Kinds
<1>4. ASSUME NEW c \in Clients, NEW len \in Nat, Peek(c, len) PROVE Inv'
  BY <1>4, CmpKeepsInv, RefuseKeepsInv DEF Peek
<1>5. ASSUME NEW c \in Clients, NEW len \in Nat, Poke(c, len) PROVE Inv'
  BY <1>5, CmpKeepsInv, RefuseKeepsInv, NoResultKeepsInv DEF Poke
<1>6. ASSUME NEW c \in Clients, Notify(c) PROVE Inv'
  BY <1>6, NoResultKeepsInv DEF Notify
<1>7. \A x \in (0 .. CmpMax + 1) \cup {U32} : x \in Nat
  BY NumbersOnly
<1> QED BY <1>1, <1>2, <1>3, <1>4, <1>5, <1>6, <1>7, ReadKeepsInv, TimeoutKeepsInv,
           AnswerKeepsInv, LoseKeepsInv, DeliverKeepsInv DEF Next

(* Inv is inductive. *)
LEMMA InvHolds == Spec => []Inv
<1>1. Init => Inv
  BY InitEstablishesInv
<1>2. Inv /\ UNCHANGED vars => Inv'
  BY DEF Inv, TypeOK, Carried, OnePlace, Waiting, EndedCalls, EndedWell, Answered, vars
<1>3. Inv /\ [Next]_vars => Inv'
  BY <1>2, NextKeepsInv
<1> QED BY <1>1, <1>3, PTL DEF Spec

(* For every set of clients and ports and every number of calls, replies that
   come late and reused ports included: nobody takes the reply of a call that
   is waiting for it, no reply ends two calls, and none ends a call made
   before its request. *)
THEOREM WaitersKeepReplies == Spec => []WaitersKeepTheirReply
<1>1. Inv => WaitersKeepTheirReply
  <2> SUFFICES ASSUME Inv PROVE WaitersKeepTheirReply
    OBVIOUS
  <2>1. \A e \in Ended : \E c \in Clients : e \in last[c]
    BY DEF Ended
  <2> QED BY <2>1 DEF Inv, EndedCalls, EndedWell, WaitersKeepTheirReply
<1> QED BY <1>1, InvHolds, PTL

(* For every length of request and reply: none of the wrappers' rules turns a
   code by which libcsp says that nothing was sent or read into Ok. *)
THEOREM OksAreAnswered == Spec => []OkMeansAnswered
<1>1. Inv => OkMeansAnswered
  <2> SUFFICES ASSUME Inv PROVE OkMeansAnswered
    OBVIOUS
  <2>1. \A e \in Ended : \E c \in Clients : e \in last[c]
    BY DEF Ended
  <2>2. \A e \in Ended : Answered(e)
    BY <2>1 DEF Inv, EndedCalls, EndedWell
  <2> QED BY <2>2 DEF OkMeansAnswered, Answered
<1> QED BY <1>1, InvHolds, PTL

-----------------------------------------------------------------------------
(***************************************************************************)
(* SFP transfers over a connection: SfpTransfer.                           *)
(***************************************************************************)

Past(f) == f.offset + f.size

(* A fragment under way is of a transfer that was begun, within what was   *)
(* announced of its blob, and the last one only if the sender finished.    *)
FragOf(f, n, len, gone, s) ==
  /\ f.xfer \in 1..n /\ f.size # 0
  /\ f.total = len[f.xfer] % Wrap
  /\ Past(f) <= f.total
  /\ Past(f) = f.total => f.xfer \notin gone /\ (f.xfer = n => s # "sending")

Frags == {f \in Fragments : FragOf(f, xfer, length, cut, sender)}

SendInv ==
  /\ xfer \in 0..Transfers /\ offset \in Nat
  /\ length \in [1..Transfers -> Nat]
  /\ cut \subseteq 1..xfer
  /\ sender = "sending" => xfer >= 1 /\ xfer \notin cut /\ offset < Total
  /\ net \in Seq(Frags)

(* What the progress callback was told of has come out of fragments.       *)
RecvInv ==
  /\ received \in Nat /\ expected \in Nat
  /\ buf \in Seq(Nat \X Nat) /\ received <= Len(buf)
  /\ receiver = "receiving" => expected = received
  /\ receiver = "receiving" /\ expected = 0 => buf = << >>
  /\ \A i \in 1..received : \E x \in 1..xfer : buf[i] = Byte(x, i)

(* Over RDP a fragment begins a blob or goes on where the one before it    *)
(* left off.                                                               *)
Follows(x, e, y, o) == o = 0 \/ (y = x /\ o = e)
NetLinked ==
  /\ \A k \in 1..(Len(net) - 1) :
       Follows(net[k].xfer, Past(net[k]), net[k + 1].xfer, net[k + 1].offset)
  /\ net # << >> /\ sender = "sending" =>
       Follows(net[Len(net)].xfer, Past(net[Len(net)]), xfer, offset)
Comes(x, e, q, s, y, o) ==
  IF q # << >> THEN Follows(x, e, q[1].xfer, q[1].offset)
               ELSE s = "sending" => Follows(x, e, y, o)

(* The first n bytes of b are those of transfer x.                         *)
From(b, n, x) == \A i \in 1..n : b[i] = Byte(x, i)

(* What sfp_recv returns with Ok: as long as its last fragment's transfer  *)
(* announced, and over an ordered connection all of that transfer.         *)
Whole(b, x, len, ordered) ==
  /\ Len(b) = len[x] % Wrap
  /\ b # << >> /\ b[Len(b)] = Byte(x, Len(b))
  /\ ordered => From(b, Len(b), x)

(* Over RDP what has been assembled is the beginning of one blob.          *)
OneSoFar ==
  rdp /\ receiver = "receiving" /\ expected > 0 =>
    \E x \in 1..xfer : /\ From(buf, expected, x)
                       /\ Comes(x, expected, net, sender, xfer, offset)
OkIsWhole ==
  receiver = "ok" =>
    /\ received = Len(buf)
    /\ \E x \in (1..xfer) \ cut : Whole(buf, x, length, rdp) /\ (x = xfer => sender # "sending")
BlobInv == (rdp => NetLinked) /\ OneSoFar /\ OkIsWhole

(* The constants, and a length cut to 32 bits.                             *)
LEMMA SfpNumbers ==
  /\ Transfers \in Nat \ {0} /\ Mtu \in Nat \ {0} /\ Wrap \in Nat \ {0}
  /\ \A n \in Lengths : n \in Nat
  /\ \A n \in Nat : n % Wrap \in 0..(Wrap - 1) /\ n % Wrap \in Nat /\ n % Wrap < Wrap
  /\ \A n \in Nat : n < Wrap => n % Wrap = n
<1>1. /\ Transfers \in Nat \ {0} /\ Mtu \in Nat \ {0} /\ Wrap \in Nat \ {0}
      /\ \A n \in Lengths : n \in Nat
  BY SfpTransferAssumption
<1>2. \A n \in Nat : n % Wrap \in 0..(Wrap - 1) /\ n % Wrap \in Nat /\ n % Wrap < Wrap
  BY <1>1
<1>3. \A n \in Nat : n < Wrap => n % Wrap = n
  BY <1>1
<1> QED BY <1>1, <1>2, <1>3

(* The errors that end a transfer are told from "sending", "receiving" and *)
(* "ok".                                                                   *)
LEMMA SfpErrors ==
  /\ FromCode(CSP_ERR_ABORTED).variant = "Aborted"
  /\ FromCode(CSP_ERR_NOMEM).variant = "NoMemory"
  /\ FromCode(CSP_ERR_INVAL).variant = "InvalidArgument"
  /\ FromCode(CSP_ERR_SFP).variant = "SfpError"
  /\ FromCode(CSP_ERR_TIMEDOUT).variant = "TimedOut"
<1>1. \A c \in Int : c = -200 => FromCode(c).variant = "Aborted"
  BY DEF FromCode, Variant
<1>2. \A c \in Int : c = -103 => FromCode(c).variant = "SfpError"
  BY DEF FromCode, Variant
<1>3. \A c \in Int : -c \in 1..12 => FromCode(c).variant = Numbered[-c]
  BY DEF FromCode, Variant
<1>4. Numbered[1] = "NoMemory" /\ Numbered[2] = "InvalidArgument" /\ Numbered[3] = "TimedOut"
  BY DEF Numbered
<1> HIDE DEF Numbered, FromCode
<1>5. /\ CSP_ERR_ABORTED \in Int /\ CSP_ERR_ABORTED = -200
      /\ CSP_ERR_SFP \in Int /\ CSP_ERR_SFP = -103
  BY DEF CSP_ERR_ABORTED, CSP_ERR_SFP
<1>6. /\ CSP_ERR_NOMEM \in Int /\ CSP_ERR_NOMEM + 1 = 0
      /\ CSP_ERR_INVAL \in Int /\ CSP_ERR_INVAL + 2 = 0
      /\ CSP_ERR_TIMEDOUT \in Int /\ CSP_ERR_TIMEDOUT + 3 = 0
  BY DEF CSP_ERR_NOMEM, CSP_ERR_INVAL, CSP_ERR_TIMEDOUT
<1>7. -CSP_ERR_NOMEM = 1 /\ -CSP_ERR_INVAL = 2 /\ -CSP_ERR_TIMEDOUT = 3
  BY <1>6
<1> QED BY <1>1, <1>2, <1>3, <1>4, <1>5, <1>6, <1>7

(* libcsp asks for a fragment within the blob.                             *)
LEMMA NextFragment ==
  ASSUME SendInv, sender = "sending"
  PROVE  /\ Total \in Nat /\ NextSize \in Nat \ {0} /\ offset \in Nat
         /\ End = offset + NextSize /\ End <= Total
<1>1. Total \in Nat /\ Total < Wrap /\ offset < Total /\ offset \in Nat
  <2>1. xfer \in 1..Transfers /\ length[xfer] \in Nat
    BY SfpNumbers DEF SendInv
  <2> QED BY <2>1, SfpNumbers DEF SendInv, Total, Announced
<1> HIDE DEF Total
<1> QED BY <1>1, SfpNumbers DEF NextSize, End

(* The fragment read_cb hands over, and what becomes of the sender.        *)
LEMMA ReadCbCases ==
  ASSUME SendInv, ReadCb
  PROVE  /\ sender = "sending"
         /\ UNCHANGED <<rdp, xfer, length, calls, receiver, expected, buf, received>>
         /\ \/ /\ net' = Append(net, [xfer |-> xfer, offset |-> offset,
                                      size |-> NextSize, total |-> Total])
               /\ offset' = offset + NextSize
               /\ sender' = IF offset + NextSize = Total THEN "ok" ELSE "sending"
               /\ cut' = cut
            \/ sender' # "sending" /\ cut' = cut \cup {xfer} /\ net' = net /\ offset' = offset
<1>1. sender = "sending" /\ UNCHANGED <<rdp, xfer, length, calls, receiver, expected, buf, received>>
  BY DEF ReadCb, recv
<1>2. End = offset + NextSize
  BY <1>1, NextFragment
<1>3. \A code \in {CSP_ERR_ABORTED, CSP_ERR_NOMEM} : FromCode(code).variant # "sending"
  BY SfpErrors
<1> QED BY <1>1, <1>2, <1>3 DEF ReadCb

(* What the network does to a plain connection makes no new fragment.      *)
LEMMA NetworkKeeps ==
  ASSUME NEW S, net \in Seq(S), Network
  PROVE  net' \in Seq(S)
<1>1. PICK k \in 1..Len(net) :
        \/ net' = RemoveAt(net, k)
        \/ net' = InsertAt(net, k, net[k])
        \/ k < Len(net) /\ net' = [net EXCEPT ![k] = net[k + 1], ![k + 1] = net[k]]
  BY DEF Network
<1>2. Len(net) \in Nat /\ k \in Nat /\ net[k] \in S
  OBVIOUS
<1>3. /\ SubSeq(net, 1, k - 1) \in Seq(S) /\ SubSeq(net, k + 1, Len(net)) \in Seq(S)
      /\ SubSeq(net, k, Len(net)) \in Seq(S)
  BY <1>2
<1>4. CASE net' = RemoveAt(net, k)
  BY <1>3, <1>4 DEF RemoveAt
<1>5. CASE net' = InsertAt(net, k, net[k])
  <2>1. <<net[k]>> \in Seq(S)
    BY <1>2
  <2> QED BY <1>3, <1>5, <2>1 DEF InsertAt
<1>6. CASE k < Len(net) /\ net' = [net EXCEPT ![k] = net[k + 1], ![k + 1] = net[k]]
  <2>1. net[k + 1] \in S
    BY <1>2, <1>6
  <2>2. net \in [1..Len(net) -> S]
    OBVIOUS
  <2>3. net' \in [1..Len(net) -> S]
    BY <1>2, <1>6, <2>1, <2>2
  <2> QED BY <1>2, <2>3
<1> QED BY <1>1, <1>4, <1>5, <1>6

(* A queue of one set of fragments is one of a larger set.                 *)
LEMMA MoreFrags ==
  ASSUME NEW F, NEW G, NEW q \in Seq(F), \A f \in F : f \in G
  PROVE  q \in Seq(G)
OBVIOUS

(* The sender's side, for every step of either side and of the network.    *)
LEMMA SendNext == SendInv /\ [SfpNext]_sfpVars => SendInv'
<1> SUFFICES ASSUME SendInv, [SfpNext]_sfpVars PROVE SendInv'
  OBVIOUS
<1>0. net \in Seq(Frags) /\ xfer \in 0..Transfers /\ xfer \in Nat /\ Transfers \in Nat
  BY SfpNumbers DEF SendInv
<1>1. ASSUME NEW n \in Lengths, SfpSend(n) PROVE SendInv'
  <2>1. /\ xfer' = xfer + 1 /\ xfer < Transfers /\ offset' = 0
        /\ length' = [length EXCEPT ![xfer + 1] = n]
        /\ sender' = IF n % Wrap = 0 THEN "ok" ELSE "sending"
        /\ UNCHANGED <<net, cut>>
    BY <1>1 DEF SfpSend
  <2>2. /\ xfer + 1 \in 1..Transfers /\ xfer' \in 0..Transfers
        /\ \A x \in 1..xfer : x \in 1..Transfers /\ x # xfer + 1 /\ x \in 1..xfer'
    BY <1>0, <2>1
  <2>3. /\ length' \in [1..Transfers -> Nat] /\ length'[xfer + 1] = n
        /\ \A x \in 1..xfer : length'[x] = length[x]
    BY <2>1, <2>2, SfpNumbers DEF SendInv
  <2>4. \A f \in Frags : f \in Frags'
    <3> SUFFICES ASSUME NEW f \in Frags
                 PROVE  f \in Fragments /\ FragOf(f, xfer', length', cut', sender')
      BY DEF Frags
    <3> QED BY <2>1, <2>2, <2>3 DEF Frags, FragOf
  <2>5. net' \in Seq(Frags')
    BY <1>0, <2>1, <2>4, MoreFrags
  <2>6. cut' \subseteq 1..xfer' /\ xfer' \notin cut'
    BY <2>1, <2>2 DEF SendInv
  <2>7. sender' = "sending" => offset' < Total'
    <3>1. Total' = n % Wrap
      BY <2>1, <2>3 DEF Total, Announced
    <3>2. n % Wrap \in Nat
      BY SfpNumbers
    <3> QED BY <2>1, <3>1, <3>2
  <2> QED BY <1>0, <2>1, <2>2, <2>3, <2>5, <2>6, <2>7 DEF SendInv
<1>2. CASE ReadCb
  <2>1. sender = "sending" /\ UNCHANGED <<xfer, length>> /\ Total' = Total
    BY <1>2, ReadCbCases DEF Total, Announced
  <2>2. xfer \in 1..xfer /\ xfer \in 1..Transfers /\ xfer \notin cut /\ cut \subseteq 1..xfer
    BY <1>0, <2>1 DEF SendInv
  <2>3. /\ Total \in Nat /\ NextSize \in Nat \ {0} /\ offset \in Nat
        /\ offset + NextSize <= Total
    BY <2>1, NextFragment
  <2>4. ASSUME sender' # "sending" \/ offset' < Total, offset' \in Nat,
               cut' \in {cut, cut \cup {xfer}}, net' \in Seq(Frags'),
               sender' = "sending" => cut' = cut
        PROVE  SendInv'
    BY <1>0, <2>1, <2>2, <2>4 DEF SendInv
  <2>5. ASSUME sender' # "sending" \/ cut' = cut, cut' \in {cut, cut \cup {xfer}}
        PROVE  \A g \in Frags : g \in Frags'
    <3> SUFFICES ASSUME NEW g \in Frags
                 PROVE  g \in Fragments /\ FragOf(g, xfer', length', cut', sender')
      BY DEF Frags
    <3> QED BY <2>1, <2>5 DEF Frags, FragOf
  <2>6. ASSUME /\ net' = Append(net, [xfer |-> xfer, offset |-> offset,
                                      size |-> NextSize, total |-> Total])
               /\ offset' = offset + NextSize
               /\ sender' = IF offset + NextSize = Total THEN "ok" ELSE "sending"
               /\ cut' = cut
        PROVE  SendInv'
    <3> DEFINE f == [xfer |-> xfer, offset |-> offset, size |-> NextSize, total |-> Total]
    <3>1. /\ f.xfer = xfer /\ f.offset = offset /\ f.size = NextSize /\ f.total = Total
          /\ f \in Fragments
      BY <2>2, <2>3 DEF Fragments
    <3> HIDE DEF f
    <3>2. FragOf(f, xfer', length', cut', sender')
      BY <2>1, <2>2, <2>3, <2>6, <3>1 DEF FragOf, Past, Total, Announced
    <3>3. f \in Frags'
      <4>1. \A g \in Fragments : FragOf(g, xfer', length', cut', sender') => g \in Frags'
        BY DEF Frags
      <4> QED BY <3>1, <3>2, <4>1
    <3>4. \A g \in Frags : g \in Frags'
      BY <2>5, <2>6
    <3>5. net \in Seq(Frags')
      BY <1>0, <3>4, MoreFrags
    <3>6. net' = Append(net, f)
      BY <2>6 DEF f
    <3>7. net' \in Seq(Frags')
      BY <3>3, <3>5, <3>6
    <3> QED BY <2>3, <2>4, <2>6, <3>7
  <2>7. ASSUME sender' # "sending" /\ cut' = cut \cup {xfer} /\ net' = net /\ offset' = offset
        PROVE  SendInv'
    <3>1. \A g \in Frags : g \in Frags'
      BY <2>5, <2>7
    <3>2. net' \in Seq(Frags')
      BY <1>0, <2>7, <3>1, MoreFrags
    <3> QED BY <2>3, <2>4, <2>7, <3>2
  <2> QED BY <1>2, <2>6, <2>7, ReadCbCases
<1>3. ASSUME net' \in Seq(Frags), UNCHANGED send PROVE SendInv'
  <2>1. UNCHANGED <<xfer, length, offset, sender, cut>>
    BY <1>3 DEF send
  <2>2. Frags' = Frags
    BY <2>1 DEF Frags
  <2>3. Total' = Total
    BY <2>1 DEF Total, Announced
  <2> QED BY <1>3, <2>1, <2>2, <2>3 DEF SendInv
<1>4. CASE Network
  BY <1>0, <1>3, <1>4, NetworkKeeps DEF Network
<1>5. CASE SfpRecv \/ RecvTimesOut
  BY <1>0, <1>3, <1>5 DEF SfpRecv, RecvTimesOut
<1>6. ASSUME net' = Tail(net), net # << >>, UNCHANGED send PROVE SendInv'
  <2>1. Tail(net) \in Seq(Frags)
    BY <1>0, <1>6
  <2> QED BY <1>3, <1>6, <2>1
<1>7. ASSUME NEW f, WriteCb(f) PROVE SendInv'
  BY <1>6, <1>7 DEF WriteCb
<1>8. CASE RecvRefuses
  BY <1>6, <1>8 DEF RecvRefuses
<1>9. CASE UNCHANGED sfpVars
  BY <1>0, <1>3, <1>9 DEF sfpVars
<1> QED BY <1>1, <1>2, <1>4, <1>5, <1>7, <1>8, <1>9 DEF SfpNext

(* The buffer once write_cb has sized it and copied the fragment in: as    *)
(* long as announced, the fragment's bytes in their place and the others   *)
(* as they were.                                                           *)
LEMMA CopiedFacts ==
  ASSUME RecvInv, NEW f \in Frags, Accepts(f)
  PROVE  /\ Copied(f) \in Seq(Nat \X Nat) /\ Len(Copied(f)) = f.total
         /\ f.xfer \in 1..xfer /\ f.offset \in Nat /\ f.size \in Nat \ {0} /\ f.total \in Nat
         /\ Past(f) \in Nat \ {0} /\ Past(f) <= f.total
         /\ \A i \in (f.offset + 1)..Past(f) : Copied(f)[i] = Byte(f.xfer, i)
         /\ \A i \in 1..f.offset : buf # << >> => Copied(f)[i] = buf[i]
<1> DEFINE T == f.total
           W == Nat \X Nat
           Z == Sized(f)
<1>1. /\ T \in Nat /\ f.xfer \in 1..xfer /\ f.xfer \in Nat /\ f.offset \in Nat
      /\ f.size \in Nat \ {0} /\ f.offset + f.size <= T
  BY DEF Frags, Fragments, FragOf, Past
<1>2. Zero \in W
  BY DEF Zero
<1>3. Z \in [1..T -> W] /\ Len(Z) = T /\ (buf # << >> => Z = buf)
  <2>1. CASE buf = << >>
    <3>1. Z = [i \in 1..T |-> Zero]
      BY <2>1 DEF Sized
    <3>2. Z \in [1..T -> W]
      BY <1>2, <3>1
    <3> HIDE DEF T, W, Z
    <3>3. Z \in Seq(W) /\ DOMAIN Z = 1..T
      BY <1>1, <3>2
    <3> QED BY <1>1, <2>1, <3>2, <3>3
  <2>2. CASE buf # << >>
    <3>1. Z = buf /\ Len(buf) = T /\ buf \in Seq(W)
      BY <2>2 DEF Sized, Accepts, RecvInv
    <3> HIDE DEF T, W, Z
    <3> QED BY <3>1
  <2> QED BY <2>1, <2>2
<1>4. \A i \in 1..T : Byte(f.xfer, i) \in W
  BY <1>1 DEF Byte
<1> HIDE DEF T, W, Z
<1>5. Copied(f) = [i \in 1..T |->
         IF i \in (f.offset + 1)..(f.offset + f.size) THEN Byte(f.xfer, i) ELSE Z[i]]
  BY <1>3 DEF Copied, Z
<1>6. Copied(f) \in [1..T -> W]
  BY <1>3, <1>4, <1>5
<1>7. Copied(f) \in Seq(W) /\ Len(Copied(f)) = T
  <2> DEFINE c == Copied(f)
  <2>1. c \in [1..T -> W]
    BY <1>6
  <2> HIDE DEF c
  <2>2. c \in Seq(W) /\ DOMAIN c = 1..T
    BY <1>1, <2>1
  <2>3. Len(c) = T
    BY <1>1, <2>2
  <2> QED BY <2>2, <2>3 DEF c
<1>8. \A i \in (f.offset + 1)..(f.offset + f.size) : i \in 1..T
  BY <1>1
<1>9. \A i \in 1..f.offset : i \in 1..T /\ i \notin (f.offset + 1)..(f.offset + f.size)
  BY <1>1
<1>10. \A i \in (f.offset + 1)..Past(f) : Copied(f)[i] = Byte(f.xfer, i)
  BY <1>5, <1>8 DEF Past
<1>11. \A i \in 1..f.offset : buf # << >> => Copied(f)[i] = buf[i]
  BY <1>3, <1>5, <1>9
<1>12. Past(f) \in Nat \ {0} /\ Past(f) <= T
  BY <1>1 DEF Past
<1> QED BY <1>1, <1>7, <1>10, <1>11, <1>12 DEF T, W

(* A step of write_cb takes the fragment at the head of the queue, which   *)
(* begins where the last one ended.                                        *)
LEMMA WriteCbFacts ==
  ASSUME SendInv, RecvInv, NEW f, WriteCb(f)
  PROVE  /\ f = net[1] /\ f \in Frags /\ net # << >> /\ net' = Tail(net) /\ Accepts(f)
         /\ receiver = "receiving" /\ f.offset = expected /\ expected = received
         /\ received' = Past(f) /\ buf' = Copied(f)
         /\ \/ /\ expected' = Past(f)
               /\ receiver' = IF Past(f) = f.total THEN "ok" ELSE "receiving"
            \/ receiver' = "Aborted" /\ expected' = expected
         /\ UNCHANGED <<rdp, xfer, length, offset, sender, cut>>
<1>1. net \in Seq(Frags) /\ net # << >> /\ f = Head(net)
  BY DEF SendInv, WriteCb
<1>2. f = net[1] /\ f \in Frags
  <2> HIDE DEF Frags
  <2>1. Len(net) \in Nat /\ 1 \in 1..Len(net)
    BY <1>1
  <2> QED BY <1>1, <2>1
<1> QED BY <1>1, <1>2, SfpErrors DEF WriteCb, Accepts, send, RecvInv, Past

(* The receiver's side, for every step.                                    *)
LEMMA RecvNext == SendInv /\ RecvInv /\ [SfpNext]_sfpVars => RecvInv'
<1> SUFFICES ASSUME SendInv, RecvInv, [SfpNext]_sfpVars PROVE RecvInv'
  OBVIOUS
<1>1. xfer \in Nat
  BY SfpNumbers DEF SendInv
<1>2. ASSUME UNCHANGED <<expected, buf, received>>, receiver' = receiver \/ receiver' # "receiving",
             xfer' \in {xfer, xfer + 1}
      PROVE  RecvInv'
  <2>1. \A x \in 1..xfer : x \in 1..xfer'
    BY <1>1, <1>2
  <2>2. \A i \in 1..received : \E x \in 1..xfer' : buf[i] = Byte(x, i)
    BY <2>1 DEF RecvInv
  <2> QED BY <1>2, <2>2 DEF RecvInv, Byte
<1>3. CASE SfpRecv
  <2>1. expected' = 0 /\ buf' = << >> /\ received' = 0
    BY <1>3 DEF SfpRecv
  <2>2. << >> \in Seq(Nat \X Nat) /\ Len(<< >>) = 0
    OBVIOUS
  <2> QED BY <2>1, <2>2 DEF RecvInv
<1>4. CASE RecvRefuses \/ RecvTimesOut
  <2>1. UNCHANGED <<expected, buf, received, xfer>> /\ receiver' # "receiving"
    BY <1>4, SfpErrors DEF RecvRefuses, RecvTimesOut, send
  <2> QED BY <1>2, <2>1
<1>5. CASE (\E n \in Lengths : SfpSend(n)) \/ ReadCb \/ Network \/ UNCHANGED sfpVars
  <2>1. UNCHANGED <<receiver, expected, buf, received>> /\ xfer' \in {xfer, xfer + 1}
    BY <1>5 DEF SfpSend, ReadCb, Network, sfpVars, recv, send
  <2> QED BY <1>2, <2>1
<1>6. ASSUME NEW f, WriteCb(f) PROVE RecvInv'
  <2> DEFINE c == Copied(f)
  <2>1. /\ f \in Frags /\ Accepts(f) /\ receiver = "receiving"
        /\ f.offset = expected /\ expected = received
        /\ received' = Past(f) /\ buf' = c
        /\ \/ expected' = Past(f)
           \/ receiver' = "Aborted" /\ expected' = expected
        /\ xfer' = xfer
    BY <1>6, WriteCbFacts
  <2>2. /\ c \in Seq(Nat \X Nat) /\ Len(c) = f.total
        /\ f.xfer \in 1..xfer /\ f.offset \in Nat /\ f.size \in Nat \ {0} /\ f.total \in Nat
        /\ Past(f) \in Nat \ {0} /\ Past(f) <= f.total
        /\ \A i \in (f.offset + 1)..Past(f) : c[i] = Byte(f.xfer, i)
        /\ \A i \in 1..f.offset : buf # << >> => c[i] = buf[i]
    BY <2>1, CopiedFacts
  <2> HIDE DEF c
  <2>3. \A i \in 1..Past(f) : \E x \in 1..xfer : c[i] = Byte(x, i)
    <3> SUFFICES ASSUME NEW i \in 1..Past(f) PROVE \E x \in 1..xfer : c[i] = Byte(x, i)
      OBVIOUS
    <3>1. CASE i > f.offset
      <4>1. i \in (f.offset + 1)..Past(f)
        BY <2>2, <3>1
      <4> QED BY <2>2, <4>1
    <3>2. CASE i <= f.offset
      <4>1. i \in 1..f.offset /\ i \in 1..received
        BY <2>1, <2>2, <3>2
      <4>2. buf # << >>
        <5>1. received \in Nat /\ received <= Len(buf)
          BY DEF RecvInv
        <5>2. Len(<< >>) = 0 /\ received >= 1
          BY <4>1, <5>1
        <5>3. buf = << >> => Len(buf) = 0
          BY <5>2
        <5> QED BY <5>1, <5>2, <5>3
      <4> QED BY <2>2, <4>1, <4>2 DEF RecvInv
    <3> QED BY <2>2, <3>1, <3>2
  <2>4. expected' \in Nat /\ (receiver' = "receiving" => expected' = received' /\ expected' # 0)
    BY <2>1, <2>2 DEF RecvInv
  <2>5. \A i \in 1..received' : \E x \in 1..xfer' : buf'[i] = Byte(x, i)
    BY <2>1, <2>3
  <2>6. received' \in Nat /\ buf' \in Seq(Nat \X Nat) /\ received' <= Len(buf')
    BY <2>1, <2>2
  <2> QED BY <2>4, <2>5, <2>6 DEF RecvInv, Byte
<1> QED BY <1>3, <1>4, <1>5, <1>6 DEF SfpNext

(* Nothing sent, nothing called.                                           *)
LEMMA SfpStarts == SfpInit => SendInv /\ RecvInv /\ BlobInv
<1> SUFFICES ASSUME SfpInit PROVE SendInv /\ RecvInv /\ BlobInv
  OBVIOUS
<1>1. SendInv
  <2>1. << >> \in Seq(Frags) /\ 0 \in 0..Transfers
    BY SfpNumbers
  <2>2. length \in [1..Transfers -> Nat]
    BY DEF SfpInit
  <2> QED BY <2>1, <2>2 DEF SfpInit, SendInv
<1>2. RecvInv
  <2>1. << >> \in Seq(Nat \X Nat) /\ Len(<< >>) = 0
    OBVIOUS
  <2> QED BY <2>1 DEF SfpInit, RecvInv
<1>3. BlobInv
  <2>1. Len(<< >>) = 0
    OBVIOUS
  <2> QED BY <2>1 DEF SfpInit, BlobInv, OneSoFar, OkIsWhole, NetLinked
<1> QED BY <1>1, <1>2, <1>3

(* The prefix shown to sfp_recv's progress callback is made of received    *)
(* bytes, each in its place, on every connection and for any number of     *)
(* transfers of any length.                                                *)
THEOREM PrefixesAreReal == SfpSpec => []PrefixIsReal
<1>1. SendInv /\ RecvInv => PrefixIsReal
  <2> SUFFICES ASSUME SendInv, RecvInv, NEW i \in 1..received
               PROVE  buf[i] # Zero /\ buf[i][2] = i
    BY DEF PrefixIsReal
  <2>1. PICK x \in 1..xfer : buf[i] = <<x, i>>
    BY DEF RecvInv, Byte
  <2>2. x # 0
    BY SfpNumbers DEF SendInv
  <2> QED BY <2>1, <2>2 DEF Zero
<1> QED BY <1>1, SfpStarts, SendNext, RecvNext, PTL DEF SfpSpec

(* What is left of the queue is still linked, and what is next follows the *)
(* fragment taken out.                                                     *)
LEMMA TakenFromNet ==
  ASSUME NEW S, net \in Seq(S), net # << >>, NetLinked, net' = Tail(net),
         UNCHANGED <<xfer, offset, sender>>
  PROVE  NetLinked' /\ Comes(net[1].xfer, Past(net[1]), net', sender', xfer', offset')
<1> DEFINE n == Len(net)
<1>1. n \in Nat \ {0} /\ net' \in Seq(S) /\ Len(net') = n - 1
      /\ \A k \in 1..(n - 1) : net'[k] = net[k + 1]
  OBVIOUS
<1>2. \A k \in 1..(n - 2) : k \in 1..(n - 1) /\ k + 1 \in 1..(n - 1)
  BY <1>1
<1>3. net' # << >> => n > 1 /\ n - 1 \in 1..(n - 1) /\ 1 \in 1..(n - 1) /\ (n - 1) + 1 = n
  BY <1>1
<1>4. \A k \in 1..(n - 1) :
        Follows(net[k].xfer, Past(net[k]), net[k + 1].xfer, net[k + 1].offset)
  BY DEF NetLinked
<1>5. sender = "sending" => Follows(net[n].xfer, Past(net[n]), xfer, offset)
  BY DEF NetLinked
<1> HIDE DEF n
<1>6. \A k \in 1..((n - 1) - 1) :
        Follows(net'[k].xfer, Past(net'[k]), net'[k + 1].xfer, net'[k + 1].offset)
  <2>1. (n - 1) - 1 = n - 2
    BY <1>1
  <2> QED BY <1>1, <1>2, <1>4, <2>1
<1>7. net' # << >> => net'[n - 1] = net[n] /\ net'[1] = net[2]
  BY <1>1, <1>3
<1>8. net' # << >> /\ sender = "sending" => Follows(net'[n - 1].xfer, Past(net'[n - 1]), xfer, offset)
  BY <1>5, <1>7
<1>9. NetLinked'
  BY <1>1, <1>6, <1>8 DEF NetLinked, Follows, Past
<1>10. CASE net' # << >>
  <2>1. Follows(net[1].xfer, Past(net[1]), net'[1].xfer, net'[1].offset)
    BY <1>3, <1>4, <1>7, <1>10
  <2> QED BY <1>9, <1>10, <2>1 DEF Comes, Follows, Past
<1>11. CASE net' = << >>
  <2>1. n = 1
    <3>1. Len(<< >>) = 0
      OBVIOUS
    <3> QED BY <1>1, <1>11, <3>1
  <2>2. sender = "sending" => Follows(net[1].xfer, Past(net[1]), xfer, offset)
    BY <1>5, <2>1
  <2> QED BY <1>9, <1>11, <2>2 DEF Comes, Follows, Past
<1> QED BY <1>10, <1>11

(* Over RDP the buffer after write_cb begins with the fragment's blob, up  *)
(* to the fragment's end: what was there before came from the same         *)
(* transfer.                                                               *)
LEMMA OneBlob ==
  ASSUME SendInv, RecvInv, BlobInv, NEW f, WriteCb(f), rdp
  PROVE  From(buf', Past(f), f.xfer)
<1> DEFINE c == Copied(f)
<1>1. /\ f = net[1] /\ f \in Frags /\ net # << >> /\ receiver = "receiving" /\ Accepts(f)
      /\ f.offset = expected /\ expected = received /\ buf' = c
  BY WriteCbFacts
<1>2. /\ f.xfer \in 1..xfer /\ f.offset \in Nat /\ Past(f) \in Nat
      /\ \A i \in (f.offset + 1)..Past(f) : c[i] = Byte(f.xfer, i)
      /\ \A i \in 1..f.offset : buf # << >> => c[i] = buf[i]
  BY <1>1, CopiedFacts
<1> HIDE DEF c
<1>3. ASSUME NEW i \in 1..f.offset PROVE c[i] = Byte(f.xfer, i)
  <2>1. expected > 0 /\ received \in Nat /\ received <= Len(buf)
    BY <1>1, <1>2 DEF RecvInv
  <2>2. buf # << >>
    <3>1. Len(<< >>) = 0
      OBVIOUS
    <3>2. buf = << >> => Len(buf) = 0
      BY <3>1
    <3> QED BY <1>1, <2>1, <3>2
  <2>3. PICK x \in 1..xfer : /\ From(buf, expected, x)
                             /\ Comes(x, expected, net, sender, xfer, offset)
    BY <1>1, <2>1 DEF BlobInv, OneSoFar
  <2>4. x = f.xfer
    BY <1>1, <2>1, <2>3 DEF Comes, Follows
  <2> QED BY <1>1, <1>2, <2>2, <2>3, <2>4 DEF From
<1> SUFFICES ASSUME NEW i \in 1..Past(f) PROVE c[i] = Byte(f.xfer, i)
  BY <1>1 DEF From
<1>4. CASE i <= f.offset
  <2>1. i \in 1..f.offset
    BY <1>2, <1>4
  <2> QED BY <1>3, <2>1
<1>5. CASE i > f.offset
  <2>1. i \in (f.offset + 1)..Past(f)
    BY <1>2, <1>5
  <2> QED BY <1>2, <2>1
<1> QED BY <1>2, <1>4, <1>5

(* Whoever has been called, the parts about the receiver stay when it does *)
(* nothing and no transfer it has taken from changes.                      *)
LEMMA ReceiverStill ==
  ASSUME BlobInv, xfer \in Nat, UNCHANGED <<rdp, receiver, expected, buf, received>>,
         \A x \in 1..xfer : x \in 1..xfer' /\ length'[x] = length[x],
         rdp => \A x, e : Comes(x, e, net, sender, xfer, offset) =>
                            Comes(x, e, net', sender', xfer', offset'),
         \A x \in (1..xfer) \ cut : (x = xfer => sender # "sending") =>
            x \notin cut' /\ (x = xfer' => sender' # "sending")
  PROVE  OneSoFar' /\ OkIsWhole'
<1>1. ASSUME rdp', receiver' = "receiving", expected' > 0
      PROVE  \E x \in 1..xfer' : /\ From(buf', expected', x)
                                 /\ Comes(x, expected', net', sender', xfer', offset')
  <2>1. PICK x \in 1..xfer : /\ From(buf, expected, x)
                             /\ Comes(x, expected, net, sender, xfer, offset)
    BY <1>1 DEF BlobInv, OneSoFar
  <2> QED BY <1>1, <2>1
<1>2. ASSUME receiver' = "ok"
      PROVE  /\ received' = Len(buf')
             /\ \E x \in (1..xfer') \ cut' : Whole(buf', x, length', rdp') /\ (x = xfer' => sender' # "sending")
  <2>1. received = Len(buf) /\ \E x \in (1..xfer) \ cut : Whole(buf, x, length, rdp) /\ (x = xfer => sender # "sending")
    BY <1>2 DEF BlobInv, OkIsWhole
  <2>2. PICK x \in (1..xfer) \ cut : Whole(buf, x, length, rdp) /\ (x = xfer => sender # "sending")
    BY <2>1
  <2>3. Whole(buf', x, length', rdp')
    BY <2>2 DEF Whole
  <2> QED BY <2>1, <2>2, <2>3
<1>3. OneSoFar'
  BY <1>1 DEF OneSoFar, Comes, From, Follows, Byte
<1>4. OkIsWhole'
  BY <1>2 DEF OkIsWhole, Whole, From, Byte
<1> QED BY <1>3, <1>4

(* A fragment that read_cb hands over is the one that comes next.          *)
LEMMA HandedOver ==
  ASSUME SendInv, BlobInv, ReadCb, rdp
  PROVE  /\ NetLinked'
         /\ \A x, e : Comes(x, e, net, sender, xfer, offset) =>
                        Comes(x, e, net', sender', xfer', offset')
<1>0. net \in Seq(Frags) /\ Len(net) \in Nat
  BY DEF SendInv
<1>1. sender = "sending" /\ xfer' = xfer
  BY ReadCbCases
<1>2. NetLinked
  BY DEF BlobInv
<1>3. CASE sender' # "sending" /\ net' = net /\ offset' = offset
  BY <1>1, <1>2, <1>3 DEF NetLinked, Comes, Follows, Past
<1>4. ASSUME net' = Append(net, [xfer |-> xfer, offset |-> offset,
                                 size |-> NextSize, total |-> Total]),
             offset' = offset + NextSize
      PROVE  /\ NetLinked'
             /\ \A x, e : Comes(x, e, net, sender, xfer, offset) =>
                            Comes(x, e, net', sender', xfer', offset')
  <2> DEFINE f == [xfer |-> xfer, offset |-> offset, size |-> NextSize, total |-> Total]
             n == Len(net)
  <2>1. f.xfer = xfer /\ f.offset = offset /\ Past(f) = offset'
    BY <1>4 DEF Past
  <2> HIDE DEF f
  <2>2. net' = Append(net, f)
    BY <1>4 DEF f
  <2>3. /\ n \in Nat /\ Len(net') = n + 1 /\ net' # << >> /\ net'[n + 1] = f
        /\ \A k \in 1..n : net'[k] = net[k]
    BY <1>0, <2>2
  <2>4. /\ (n + 1) - 1 = n /\ \A k \in 1..n : k = n \/ (k \in 1..(n - 1) /\ k + 1 \in 1..n)
        /\ net # << >> => 1 \in 1..n
        /\ n # 0 => net # << >>
        /\ \A k \in 1..n : n # 0
        /\ net = << >> => n + 1 = 1
    BY <1>0
  <2> HIDE DEF n
  <2>5. net # << >> => Follows(net[n].xfer, Past(net[n]), f.xfer, f.offset)
    BY <1>1, <1>2, <2>1 DEF NetLinked, n
  <2>6. \A k \in 1..(n - 1) :
          Follows(net[k].xfer, Past(net[k]), net[k + 1].xfer, net[k + 1].offset)
    BY <1>2 DEF NetLinked, n
  <2>7. \A k \in 1..n :
          Follows(net'[k].xfer, Past(net'[k]), net'[k + 1].xfer, net'[k + 1].offset)
    <3> SUFFICES ASSUME NEW k \in 1..n
                 PROVE  Follows(net'[k].xfer, Past(net'[k]), net'[k + 1].xfer, net'[k + 1].offset)
      OBVIOUS
    <3>1. CASE k = n
      BY <2>3, <2>4, <2>5, <3>1
    <3>2. CASE k \in 1..(n - 1) /\ k + 1 \in 1..n
      BY <2>3, <2>6, <3>2
    <3> QED BY <2>4, <3>1, <3>2
  <2>8. Follows(f.xfer, Past(f), xfer', offset')
    BY <1>1, <2>1 DEF Follows
  <2>9. NetLinked'
    BY <2>3, <2>4, <2>7, <2>8 DEF NetLinked, Follows, Past
  <2>10. ASSUME NEW x, NEW e, Comes(x, e, net, sender, xfer, offset)
         PROVE  Comes(x, e, net', sender', xfer', offset')
    <3>1. Follows(x, e, net'[1].xfer, net'[1].offset)
      <4>1. CASE net = << >>
        BY <1>1, <2>1, <2>3, <2>4, <2>10, <4>1 DEF Comes
      <4>2. CASE net # << >>
        BY <2>3, <2>4, <2>10, <4>2 DEF Comes
      <4> QED BY <4>1, <4>2
    <3> QED BY <2>3, <3>1 DEF Comes
  <2> QED BY <2>9, <2>10
<1> QED BY <1>3, <1>4, ReadCbCases

(* One blob at a time, for every step.                                     *)
LEMMA BlobNext == SendInv /\ RecvInv /\ BlobInv /\ [SfpNext]_sfpVars => BlobInv'
<1> SUFFICES ASSUME SendInv, RecvInv, BlobInv, [SfpNext]_sfpVars PROVE BlobInv'
  OBVIOUS
<1>0. xfer \in Nat /\ net \in Seq(Frags) /\ Len(net) \in Nat /\ xfer \in 0..Transfers
  BY SfpNumbers DEF SendInv
<1>1. ASSUME NEW n \in Lengths, SfpSend(n) PROVE BlobInv'
  <2>1. /\ xfer' = xfer + 1 /\ xfer < Transfers /\ offset' = 0 /\ sender # "sending"
        /\ length' = [length EXCEPT ![xfer + 1] = n]
        /\ UNCHANGED <<rdp, net, cut, receiver, expected, buf, received>>
    BY <1>1 DEF SfpSend, recv
  <2>2. (rdp => NetLinked)'
    BY <2>1 DEF BlobInv, NetLinked, Follows, Past
  <2>3. \A x, e :
          Comes(x, e, net, sender, xfer, offset) => Comes(x, e, net', sender', xfer', offset')
    BY <2>1 DEF Comes, Follows
  <2>4. \A x \in 1..xfer : x \in 1..xfer' /\ x # xfer' /\ x \in 1..Transfers /\ x # xfer + 1
    BY <1>0, <2>1, SfpNumbers
  <2>5. \A x \in 1..xfer : length'[x] = length[x]
    BY <2>1, <2>4 DEF SendInv
  <2>6. OneSoFar' /\ OkIsWhole'
    BY <1>0, <2>1, <2>3, <2>4, <2>5, ReceiverStill
  <2> QED BY <2>2, <2>6 DEF BlobInv
<1>2. CASE ReadCb
  <2>1. /\ sender = "sending"
        /\ UNCHANGED <<rdp, xfer, length, receiver, expected, buf, received>>
        /\ cut' \in {cut, cut \cup {xfer}}
    BY <1>2, ReadCbCases
  <2>2. \A x \in (1..xfer) \ cut : (x = xfer => sender # "sending") =>
            x \notin cut' /\ (x = xfer' => sender' # "sending")
    BY <2>1
  <2>3. OneSoFar' /\ OkIsWhole'
    BY <1>0, <1>2, <2>1, <2>2, HandedOver, ReceiverStill
  <2>4. rdp' => NetLinked'
    BY <1>2, <2>1, HandedOver
  <2> QED BY <2>3, <2>4 DEF BlobInv
<1>3. CASE Network
  <2>1. /\ ~rdp
        /\ UNCHANGED <<rdp, xfer, length, offset, sender, cut, receiver, expected, buf, received>>
    BY <1>3 DEF Network, send, recv
  <2>2. OneSoFar' /\ OkIsWhole'
    BY <1>0, <2>1, ReceiverStill
  <2> QED BY <2>1, <2>2 DEF BlobInv
<1>4. CASE SfpRecv
  <2>1. /\ receiver' = "receiving" /\ expected' = 0
        /\ UNCHANGED <<rdp, xfer, length, offset, sender, cut, net>>
    BY <1>4 DEF SfpRecv, send
  <2> QED BY <2>1 DEF BlobInv, OneSoFar, OkIsWhole, NetLinked, Follows, Past
<1>5. ASSUME NEW f, WriteCb(f) PROVE BlobInv'
  <2> DEFINE c == Copied(f)
  <2>1. /\ f = net[1] /\ f \in Frags /\ Accepts(f) /\ net # << >> /\ net' = Tail(net)
        /\ buf' = c /\ received' = Past(f)
        /\ \/ expected' = Past(f) /\ receiver' = IF Past(f) = f.total THEN "ok" ELSE "receiving"
           \/ receiver' = "Aborted"
        /\ UNCHANGED <<rdp, xfer, length, offset, sender, cut>>
    BY <1>5, WriteCbFacts
  <2>2. rdp => NetLinked' /\ Comes(f.xfer, Past(f), net', sender', xfer', offset')
    BY <1>0, <2>1, TakenFromNet DEF BlobInv
  <2>3. rdp => From(buf', Past(f), f.xfer)
    BY <1>5, OneBlob
  <2>4. /\ f.xfer \in 1..xfer /\ f.total = length[f.xfer] % Wrap
        /\ Past(f) = f.total => f.xfer \notin cut /\ (f.xfer = xfer => sender # "sending")
    BY <2>1 DEF Frags, FragOf
  <2>5. /\ c \in Seq(Nat \X Nat) /\ Len(c) = f.total
        /\ f.offset \in Nat /\ f.size \in Nat \ {0} /\ Past(f) \in Nat \ {0}
        /\ \A i \in (f.offset + 1)..Past(f) : c[i] = Byte(f.xfer, i)
    BY <2>1, CopiedFacts
  <2> HIDE DEF c
  <2>6. ASSUME receiver' = "ok"
        PROVE  /\ received' = Len(buf') /\ Whole(buf', f.xfer, length', rdp')
               /\ f.xfer \in (1..xfer') \ cut' /\ (f.xfer = xfer' => sender' # "sending")
    <3>1. Past(f) = f.total /\ Len(c) = Past(f)
      BY <2>1, <2>5, <2>6
    <3>2. Past(f) \in (f.offset + 1)..Past(f)
      BY <2>5 DEF Past
    <3>3. c[Len(c)] = Byte(f.xfer, Len(c))
      BY <2>5, <3>1, <3>2
    <3>4. c # << >>
      <4>1. Len(<< >>) = 0
        OBVIOUS
      <4>2. c = << >> => Len(c) = 0
        BY <4>1
      <4> QED BY <2>5, <3>1, <4>2
    <3>5. rdp => From(c, Len(c), f.xfer)
      BY <2>1, <2>3, <3>1
    <3>6. Whole(c, f.xfer, length, rdp)
      BY <2>4, <2>5, <3>3, <3>4, <3>5 DEF Whole
    <3> QED BY <2>1, <2>4, <3>1, <3>6
  <2>7. ASSUME rdp', receiver' = "receiving"
        PROVE  \E x \in 1..xfer' : /\ From(buf', expected', x)
                                   /\ Comes(x, expected', net', sender', xfer', offset')
    BY <2>1, <2>2, <2>3, <2>4, <2>7
  <2>8. OneSoFar'
    BY <2>7 DEF OneSoFar, Comes, From, Follows, Byte
  <2>9. OkIsWhole'
    <3>1. receiver' = "ok" =>
            /\ received' = Len(buf')
            /\ \E x \in (1..xfer') \ cut' : Whole(buf', x, length', rdp') /\ (x = xfer' => sender' # "sending")
      BY <2>6
    <3> QED BY <3>1 DEF OkIsWhole, Whole, From, Byte
  <2> QED BY <2>1, <2>2, <2>8, <2>9 DEF BlobInv
<1>6. CASE RecvRefuses \/ RecvTimesOut
  <2>1. /\ receiver' # "receiving" /\ receiver' # "ok"
        /\ (net # << >> /\ net' = Tail(net)) \/ net' = net
        /\ UNCHANGED <<rdp, xfer, length, offset, sender, cut>>
    BY <1>6, SfpErrors DEF RecvRefuses, RecvTimesOut, send
  <2>2. rdp' => NetLinked'
    <3>1. CASE net # << >> /\ net' = Tail(net)
      BY <1>0, <2>1, <3>1, TakenFromNet DEF BlobInv
    <3>2. CASE net' = net
      BY <2>1, <3>2 DEF BlobInv, NetLinked, Follows, Past
    <3> QED BY <2>1, <3>1, <3>2
  <2> QED BY <2>1, <2>2 DEF BlobInv, OneSoFar, OkIsWhole
<1>7. CASE UNCHANGED sfpVars
  <2>1. /\ UNCHANGED <<rdp, xfer, length, offset, sender, cut, net>>
        /\ UNCHANGED <<receiver, expected, buf, received>>
    BY <1>7 DEF sfpVars, send, recv
  <2>2. OneSoFar' /\ OkIsWhole'
    BY <1>0, <2>1, ReceiverStill
  <2> QED BY <2>1, <2>2 DEF BlobInv, NetLinked, Follows, Past
<1> QED BY <1>1, <1>2, <1>3, <1>4, <1>5, <1>6, <1>7 DEF SfpNext

(* When sfp_recv returns Ok, its last byte is of a transfer whose sender   *)
(* did not give up, the Vec is as long as that blob unless it was 2^32     *)
(* bytes or more, and every byte is a blob's byte in its place; over RDP   *)
(* all of them are that one blob's.  For any number of transfers of any    *)
(* lengths, empty ones among them, whatever a plain network loses,         *)
(* duplicates or reorders and whoever gives up when.                       *)
THEOREM BlobsAreIntact == SfpSpec => []BlobIntact
<1>1. SendInv /\ RecvInv /\ BlobInv => BlobIntact
  <2> SUFFICES ASSUME SendInv, RecvInv, BlobInv, receiver = "ok"
               PROVE  \E x \in (1..xfer) \ cut :
                        /\ buf # <<>> /\ Last(buf) = Byte(x, Len(buf))
                        /\ length[x] < Wrap => Len(buf) = length[x]
                        /\ \A i \in 1..Len(buf) : \E y \in 1..xfer : buf[i] = Byte(y, i)
                        /\ rdp => \A i \in 1..Len(buf) : buf[i] = Byte(x, i)
    BY DEF BlobIntact
  <2>1. PICK x \in (1..xfer) \ cut : Whole(buf, x, length, rdp)
    BY DEF BlobInv, OkIsWhole
  <2>2. received = Len(buf)
    BY DEF BlobInv, OkIsWhole
  <2>3. length[x] \in Nat
    BY SfpNumbers DEF SendInv
  <2>4. length[x] < Wrap => Len(buf) = length[x]
    BY <2>1, <2>3, SfpNumbers DEF Whole
  <2>5. \A i \in 1..Len(buf) : \E y \in 1..xfer : buf[i] = Byte(y, i)
    BY <2>2 DEF RecvInv
  <2>6. buf # <<>> /\ Last(buf) = Byte(x, Len(buf))
    BY <2>1 DEF Whole, Last
  <2>7. rdp => \A i \in 1..Len(buf) : buf[i] = Byte(x, i)
    BY <2>1 DEF Whole, From
  <2> QED BY <2>4, <2>5, <2>6, <2>7
<1> QED BY <1>1, SfpStarts, SendNext, RecvNext, BlobNext, PTL DEF SfpSpec
=============================================================================
