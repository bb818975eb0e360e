---------------------------- MODULE Transactions ----------------------------
(***************************************************************************)
(* Request/reply calls: CspNode::transaction, ping, memfree, uptime,       *)
(* buf_free and the calls without a result (src/init.rs), ident, peek and  *)
(* poke (src/service.rs), each on a connection opened for it, and          *)
(* Connection::transaction (src/connection.rs) on one the caller keeps.    *)
(*                                                                         *)
(* The network loses, delays and reorders requests and replies.  A reply   *)
(* names the connection it answers (ports and addresses), never the        *)
(* request; the local port of a one-shot call comes from the few ephemeral *)
(* ones and is free for the next call as soon as it returns.  A call ends  *)
(* with the reply at the head of its connection's queue, or by timeout     *)
(* when there is none; the wrappers turn libcsp's return code into Ok or   *)
(* Err, each kind of call by a rule of its own.                            *)
(***************************************************************************)
EXTENDS Integers, Sequences, CspError

CONSTANTS
    Clients,     \* callers; each keeps one connection open
    Ports,       \* the ephemeral local ports left for one-shot calls
    MaxCalls,    \* bound: requests made
    InLens,      \* the in_len arguments tried
    Rooms,       \* the lengths of in_buf tried
    ReplyLens,   \* the lengths a server's reply may have
    CmpMax,      \* CSP_CMP_PEEK_MAX_LEN and CSP_CMP_POKE_MAX_LEN
    U32          \* 2^32, scaled down

ASSUME LengthsAssumption ==
    /\ MaxCalls \in Nat
    /\ InLens \subseteq Nat \cup {-1}
    /\ Rooms \subseteq Nat
    /\ ReplyLens \subseteq Nat
    /\ CmpMax \in Nat
    /\ U32 \in Nat /\ U32 > CmpMax + 1

ASSUME ConnsAssumption ==
    Clients \cap Ports = {}

Nobody == 0                        \* no request
Ids == 1 .. MaxCalls
Conns == Ports \cup Clients        \* a one-shot call's, a kept one
NoConn == 0                        \* none could be opened
Kinds == {"transaction", "code", "ping"}

(* The bytes of a CMP message before its data (2 + 4 + 1, scaled down). *)
CmpHeader == 1

Requests == [id : Ids, conn : Conns]
Replies == [id : Ids, conn : Conns, len : ReplyLens]

VARIABLES
    next,     \* the number of the next request
    call,     \* call[c]: the calls in progress, none or one
    last,     \* last[c]: how the previous call of c ended, if it has
    reqs,     \* requests in flight
    reps,     \* replies in flight
    rxq       \* rxq[k]: replies queued at connection k, while it is open

vars == <<next, call, last, reqs, reps, rxq>>

Calls == [id : Ids, kind : Kinds, inLen : Nat \cup {-1}, room : Nat,
          conn : Conns \cup {NoConn}]
Results == [ok : BOOLEAN, n : Nat, err : CspErrors]
Ends == [call : Calls, sent : BOOLEAN, answer : Ids \cup {Nobody},
         result : Results]

TypeOK ==
    /\ next \in 1 .. MaxCalls + 1
    /\ call \in [Clients -> SUBSET Calls]
    /\ \A c \in Clients : \A d, e \in call[c] : d = e
    /\ last \in [Clients -> SUBSET Ends]
    /\ reqs \subseteq Requests
    /\ reps \subseteq Replies
    /\ rxq \in [Conns -> Seq(Replies)]

Init ==
    /\ next = 1
    /\ call = [c \in Clients |-> {}]
    /\ last = [c \in Clients |-> {}]
    /\ reqs = {}
    /\ reps = {}
    /\ rxq = [k \in Conns |-> << >>]

(* A call runs on connection k. *)
InUse(k) == \E c \in Clients : \E d \in call[c] : d.conn = k

(* A connection is open while a call runs on it, or its owner keeps it. *)
Open(k) == k \in Clients \/ InUse(k)

-----------------------------------------------------------------------------
(* What a wrapper returns. *)
Ok(n) == [ok |-> TRUE, n |-> n, err |-> Variant("None")]
Err(e) == [ok |-> FALSE, n |-> 0, err |-> e]

(* Mutant: a return of 0 counts as a reply of no bytes. *)
TransactionResult_ZeroIsOk(ret, in_len) ==
    IF ret >= 0 THEN Ok(ret) ELSE Err(Variant("TransmitFailed"))

(* The match on (ret, in_len) of both transaction wrappers. *)
TransactionResult(ret, in_len) ==
    IF in_len = 0 /\ ret \in {0, 1} THEN Ok(0)
    ELSE IF ret > 0 THEN Ok(ret)
    ELSE Err(Variant("TransmitFailed"))

(* csp_result: the CMP calls, memfree, uptime, buf_free. *)
CodeResult(code) == IF code = 0 THEN Ok(0) ELSE Err(FromCode(code))

(* ping: the echo time, or a negative code. *)
PingResult(res) == IF res >= 0 THEN Ok(res) ELSE Err(Variant("TransmitFailed"))

(* External: what libcsp returns for a call that read reply r ... *)
RetRead(d, r) ==
    LET fits == d.inLen = -1 \/ r.len = d.inLen IN
    CASE d.kind = "transaction" -> IF fits THEN r.len ELSE 0
      [] d.kind = "code"        -> IF fits THEN 0 ELSE CSP_ERR_TIMEDOUT
      [] d.kind = "ping"        -> IF fits THEN 0 ELSE -1

(* ... and for one that read none: no buffer or connection, or a timeout. *)
RetNone(d) ==
    CASE d.kind = "transaction" -> 0
      [] d.kind = "code"        -> CSP_ERR_TIMEDOUT
      [] d.kind = "ping"        -> -1

(* The wrappers' rule for each kind of call. *)
Result(d, ret) ==
    CASE d.kind = "transaction" -> TransactionResult(ret, d.inLen)
      [] d.kind = "code"        -> CodeResult(ret)
      [] d.kind = "ping"        -> PingResult(ret)

Return(c, d, sent, answer, result) ==
    last' = [last EXCEPT ![c] = {[call |-> d, sent |-> sent,
                                  answer |-> answer, result |-> result]}]

(* The queue of d's connection once d has returned, having read k packets: a
   one-shot call's connection is closed and what is queued on it freed. *)
Closed(d, k) ==
    rxq' = [rxq EXCEPT ![d.conn] =
               IF d.conn \in Clients THEN SubSeq(@, k + 1, Len(@)) ELSE << >>]

-----------------------------------------------------------------------------
(* Every call takes a number; its caller has no other call under way. *)
Begin(c) ==
    /\ next <= MaxCalls
    /\ call[c] = {}
    /\ next' = next + 1

(* The request leaves and, when a reply is expected, the caller waits. *)
Send(c, d) ==
    /\ Begin(c)
    /\ reqs' = reqs \cup {[id |-> d.id, conn |-> d.conn]}
    /\ IF d.kind = "transaction" /\ d.inLen = 0
       THEN Return(c, d, TRUE, Nobody, Result(d, 1)) /\ UNCHANGED call
       ELSE /\ call' = [call EXCEPT ![c] = {d}]
            /\ last' = [last EXCEPT ![c] = {}]
    /\ UNCHANGED <<reps, rxq>>

(* Nothing leaves, and the call is over. *)
NotSent(c, d, result) ==
    /\ Begin(c)
    /\ Return(c, d, FALSE, Nobody, result)
    /\ UNCHANGED <<call, reqs, reps, rxq>>

Call(kind, inLen, room, conn) ==
    [id |-> next, kind |-> kind, inLen |-> inLen, room |-> room, conn |-> conn]

(* A connection for one call: libcsp picks a local port no open connection
   has; without one, or without a buffer, nothing is sent. *)
OneShot(c, kind, inLen, room) ==
    \/ \E p \in Ports : ~InUse(p) /\ Send(c, Call(kind, inLen, room, p))
    \/ LET d == Call(kind, inLen, room, NoConn)
       IN NotSent(c, d, Result(d, RetNone(d)))

(* Mutant: the calls of all clients share a connection opened before. *)
Transaction_SharedConn(c, inLen, room) ==
    \E p \in Ports : Send(c, Call("transaction", inLen, room, p))

(* CspNode::transaction: "new connection each call".  The length of in_buf is
   not passed on. *)
Transaction(c, inLen, room) == OneShot(c, "transaction", inLen, room)

(* Connection::transaction, on the connection c keeps. *)
TransactionPersistent(c, inLen, room) ==
    LET d == Call("transaction", inLen, room, c)
    IN Send(c, d) \/ NotSent(c, d, Result(d, RetNone(d)))

(* memfree, uptime and buf_free: a reply of a fixed size. *)
Query(c, inLen) == inLen > 0 /\ OneShot(c, "code", inLen, inLen)

(* ident: a reply of the size of the ident message. *)
Ident(c, inLen) == Query(c, inLen)

(* A CMP message with len bytes of data, and its answer of the same size. *)
Cmp(c, len) == OneShot(c, "code", CmpHeader + len, CmpHeader + len)

(* More data than the message has room for is refused before anything is
   sent. *)
Refuse(c, len) ==
    NotSent(c, Call("code", CmpHeader + len, CmpHeader + len, NoConn),
            Err(Variant("InvalidArgument")))

(* peek: len is a u8, far below 2^32. *)
Peek(c, len) ==
    \/ len <= CmpMax /\ Cmp(c, len)
    \/ len > CmpMax /\ Refuse(c, len)

(* poke: the check is made on data.len() as u32.  Data that is too long and
   passes it panics in the copy into the message: no request, no result. *)
Poke(c, len) ==
    \/ len <= CmpMax /\ Cmp(c, len)
    \/ len % U32 > CmpMax /\ Refuse(c, len)
    \/ /\ len > CmpMax /\ len % U32 <= CmpMax
       /\ Begin(c)
       /\ last' = [last EXCEPT ![c] = {}]
       /\ UNCHANGED <<call, reqs, reps, rxq>>

(* ping: the echo has the size of the request. *)
Ping(c, inLen) == inLen > 0 /\ OneShot(c, "ping", inLen, inLen)

(* ping_noreply, reboot, shutdown: a request that may leave, and no result.
   ps prints what comes before it closes its connection. *)
Notify(c) ==
    /\ Begin(c)
    /\ \/ UNCHANGED reqs
       \/ \E p \in Ports :
             ~InUse(p) /\ reqs' = reqs \cup {[id |-> next, conn |-> p]}
    /\ last' = [last EXCEPT ![c] = {}]
    /\ UNCHANGED <<call, reps, rxq>>

(* The reply at the head of the connection's queue ends the call. *)
Read(c) ==
    \E d \in call[c] :
        LET r == Head(rxq[d.conn]) IN
        /\ rxq[d.conn] # << >>
        /\ Return(c, d, TRUE, r.id, Result(d, RetRead(d, r)))
        /\ Closed(d, 1)
        /\ call' = [call EXCEPT ![c] = {}]
        /\ UNCHANGED <<next, reqs, reps>>

(* The timeout runs out with nothing to read. *)
Timeout(c) ==
    \E d \in call[c] :
        /\ rxq[d.conn] = << >>
        /\ Return(c, d, TRUE, Nobody, Result(d, RetNone(d)))
        /\ Closed(d, 0)
        /\ call' = [call EXCEPT ![c] = {}]
        /\ UNCHANGED <<next, reqs, reps>>

(* External: the server answers a request, the network drops one. *)
Answer ==
    \E q \in reqs : \E len \in ReplyLens :
        /\ reqs' = reqs \ {q}
        /\ reps' = reps \cup {[id |-> q.id, conn |-> q.conn, len |-> len]}
        /\ UNCHANGED <<next, call, last, rxq>>

Lose ==
    /\ \/ \E q \in reqs : reqs' = reqs \ {q} /\ UNCHANGED reps
       \/ \E r \in reps : reps' = reps \ {r} /\ UNCHANGED reqs
    /\ UNCHANGED <<next, call, last, rxq>>

(* External: the router queues a reply at its connection, if that is still
   open, and frees it otherwise. *)
Deliver ==
    \E r \in reps :
        /\ reps' = reps \ {r}
        /\ rxq' = IF Open(r.conn)
                  THEN [rxq EXCEPT ![r.conn] = Append(@, r)] ELSE rxq
        /\ UNCHANGED <<next, call, last, reqs>>

Next ==
    \/ \E c \in Clients : \E inLen \in InLens :
          \/ \E room \in Rooms : \/ Transaction(c, inLen, room)
                                 \/ TransactionPersistent(c, inLen, room)
          \/ Query(c, inLen)
          \/ Ident(c, inLen)
          \/ Ping(c, inLen)
    \/ \E c \in Clients : \E len \in 0 .. CmpMax + 1 : Peek(c, len)
    \/ \E c \in Clients : \E len \in (0 .. CmpMax + 1) \cup {U32} : Poke(c, len)
    \/ \E c \in Clients : Notify(c) \/ Read(c) \/ Timeout(c)
    \/ Answer \/ Lose \/ Deliver

Spec == Init /\ [][Next]_vars

-----------------------------------------------------------------------------
Ended == UNION {last[c] : c \in Clients}

(***************************************************************************)
(* Ports are reused and replies come late, so a call may take the reply to *)
(* an earlier request than its own; but nobody takes the reply of a call   *)
(* that is still waiting for it, no reply ends two calls, and none ends a  *)
(* call made before its request.                                           *)
(***************************************************************************)
WaitersKeepTheirReply ==
    /\ \A c \in Clients : \A d \in call[c] : \A e \in Ended : e.answer # d.id
    /\ \A e, f \in Ended : e.answer = f.answer /\ e.answer # Nobody => e = f
    /\ \A e \in Ended : e.answer <= e.call.id

(***************************************************************************)
(* Ok from a call that asks for a reply means that its request went out    *)
(* and that it read a reply of the length asked for: no code by which      *)
(* libcsp says "not sent", "nothing came" or "wrong size" gets through any *)
(* of the wrappers' rules.                                                 *)
(***************************************************************************)
OkMeansAnswered ==
    \A e \in Ended : e.result.ok /\ e.call.inLen # 0 =>
        /\ e.sent /\ e.answer # Nobody
        /\ e.call.kind = "transaction" =>
              e.result.n > 0 /\ e.call.inLen \in {-1, e.result.n}

(***************************************************************************)
(* "-1 = unknown reply length (accept any size up to reply.len())"         *)
(* (USAGE.md, on CspNode::transaction): the count that Ok carries is at    *)
(* most the length of the slice that the reply was written to.             *)
(***************************************************************************)
ReplyFitsBuffer ==
    \A e \in Ended : e.result.ok /\ e.call.inLen = -1 => e.result.n <= e.call.room
=============================================================================
