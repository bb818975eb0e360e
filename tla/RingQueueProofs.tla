-------------------------- MODULE RingQueueProofs --------------------------
(***************************************************************************)
(* The Embassy ring, for every capacity and any callers: the indices stay  *)
(* consistent and it is a bounded FIFO queue across every wrap.            *)
(***************************************************************************)
EXTENDS RingQueue, SequenceTheorems, TLAPS

(* Indices wrap at most once: the remainder is the sum or the sum less the *)
(* capacity.                                                               *)
LEMMA Wrap ==
  ASSUME NEW a \in Nat, a < 2 * Capacity
  PROVE  /\ a % Capacity = IF a < Capacity THEN a ELSE a - Capacity
         /\ a % Capacity \in Slots
<1>1. CASE a < Capacity
  BY <1>1, RingQueueAssumption DEF Slots
<1>2. CASE ~(a < Capacity)
  <2>1. a % Capacity = a - Capacity
    BY <1>2, RingQueueAssumption
  <2> QED BY <1>2, <2>1, RingQueueAssumption DEF Slots
<1> QED BY <1>1, <1>2

(* A call's kind, and its item if it has one.                              *)
LEMMA OpFacts ==
  ASSUME NEW o \in Contract!Ops
  PROVE  /\ o.kind \in {"enqueue", "dequeue"}
         /\ o.kind = "enqueue" => o.item \in Items
BY DEF Contract!Ops, Contract!Enqueues, Contract!Dequeues, Contract!Timeouts

(* The record of a caller that has called nothing is a call like others.   *)
LEMMA NoCallFacts == Contract!NoCall \in Contract!Ops
BY DEF Contract!Ops, Contract!Dequeues, Contract!Timeouts, Contract!NoCall

(* The slot of the i-th oldest item.                                       *)
SlotOf(i) == (head + i - 1) % Capacity

(* Every queued slot has been written.                                     *)
Written == \A i \in 1..count : buffer[SlotOf(i)] \in Items

Ring == TypeOK /\ RingInv /\ Written

(* The ring's indices and its count are numbers in range.                  *)
LEMMA Numbers ==
  ASSUME TypeOK
  PROVE  /\ Capacity \in Nat /\ 1 <= Capacity
         /\ head \in Nat /\ head < Capacity
         /\ tail \in Nat /\ tail < Capacity
         /\ count \in Nat /\ count <= Capacity
BY RingQueueAssumption DEF TypeOK, Slots

(* Where the indices point, with the remainder worked out.                 *)
LEMMA Positions ==
  ASSUME TypeOK
  PROVE  /\ \A k \in 0..Capacity :
              /\ (head + k) % Capacity =
                   IF head + k < Capacity THEN head + k ELSE (head + k) - Capacity
              /\ (head + k) % Capacity \in Slots
         /\ \A i \in 1..Capacity :
              /\ SlotOf(i) =
                   IF head + i - 1 < Capacity THEN head + i - 1 ELSE (head + i - 1) - Capacity
              /\ SlotOf(i) \in Slots
<1>1. ASSUME NEW k \in 0..Capacity
      PROVE  /\ (head + k) % Capacity =
                  IF head + k < Capacity THEN head + k ELSE (head + k) - Capacity
             /\ (head + k) % Capacity \in Slots
  <2>1. head + k \in Nat /\ head + k < 2 * Capacity
    BY Numbers
  <2> QED BY <2>1, Wrap, Zenon
<1>2. ASSUME NEW i \in 1..Capacity
      PROVE  /\ SlotOf(i) =
                  IF head + i - 1 < Capacity THEN head + i - 1 ELSE (head + i - 1) - Capacity
             /\ SlotOf(i) \in Slots
  <2>1. head + i - 1 \in Nat /\ head + i - 1 < 2 * Capacity
    BY Numbers
  <2> QED BY <2>1, Wrap, Zenon DEF SlotOf
<1> QED BY <1>1, <1>2

(* An index advances by one, or wraps to the first slot.                   *)
LEMMA AdvanceFacts ==
  ASSUME NEW i \in Slots
  PROVE  /\ Advance(i) = IF i + 1 < Capacity THEN i + 1 ELSE (i + 1) - Capacity
         /\ Advance(i) \in Slots
<1>1. i + 1 \in Nat /\ i + 1 < 2 * Capacity
  BY RingQueueAssumption DEF Slots
<1> QED BY <1>1, Wrap, Zenon DEF Advance

(* The queued slots do not meet tail, which is the next one after them.    *)
LEMMA SlotFacts ==
  ASSUME TypeOK, RingInv
  PROVE  /\ \A i \in 1..Capacity : SlotOf(i) \in Slots
         /\ count < Capacity => \A i \in 1..count : SlotOf(i) # tail
         /\ count < Capacity => SlotOf(count + 1) = tail
<1>1. \A i \in 1..Capacity :
         /\ SlotOf(i) = IF head + i - 1 < Capacity THEN head + i - 1
                                                   ELSE (head + i - 1) - Capacity
         /\ SlotOf(i) \in Slots
  BY Positions
<1>2. tail = IF head + count < Capacity THEN head + count ELSE (head + count) - Capacity
  BY Numbers, Positions DEF RingInv
<1>3. ASSUME count < Capacity, NEW i \in 1..count PROVE SlotOf(i) # tail
  BY <1>1, <1>2, <1>3, Numbers
<1>4. count < Capacity => SlotOf(count + 1) = tail
  BY <1>1, <1>2, Numbers
<1> QED BY <1>1, <1>3, <1>4

(* A new ring is consistent.                                               *)
LEMMA RingInit == Init => Ring
<1> SUFFICES ASSUME Init PROVE Ring
  OBVIOUS
<1>1. TypeOK
  BY NoCallFacts, RingQueueAssumption DEF Init, TypeOK, Slots
<1>2. RingInv
  BY RingQueueAssumption DEF Init, RingInv
<1>3. Written
  BY DEF Init, Written
<1> QED BY <1>1, <1>2, <1>3 DEF Ring

(* Every call keeps it so.                                                 *)
LEMMA RingNext == Ring /\ [Next]_vars => Ring'
<1> SUFFICES ASSUME Ring, [Next]_vars PROVE Ring'
  OBVIOUS
<1>0. TypeOK /\ RingInv /\ Written
  BY DEF Ring
<1>1. ASSUME NEW t \in Threads, NEW o \in Contract!Ops, Call(t, o) PROVE Ring'
  BY <1>0, <1>1 DEF Call, queue, Ring, TypeOK, RingInv, Written, SlotOf
<1>2. ASSUME NEW t \in Threads, Enqueue(t) PROVE Ring'
  <2>1. op[t].item \in Items
    BY <1>0, <1>2, OpFacts DEF Enqueue, TypeOK
  <2>2. /\ count < Capacity /\ count' = count + 1 /\ head' = head
        /\ tail' = Advance(tail) /\ buffer' = [buffer EXCEPT ![tail] = op[t].item]
        /\ call' = [call EXCEPT ![t] = "done"]
        /\ ret' = [ret EXCEPT ![t] = <<op[t].item>>] /\ op' = op
    BY <1>2 DEF Enqueue, Finish
  <2>3. /\ tail' = IF tail + 1 < Capacity THEN tail + 1 ELSE (tail + 1) - Capacity
        /\ tail' \in Slots
    BY <1>0, <2>2, AdvanceFacts DEF TypeOK
  <2>4. count' \in 0..Capacity
    BY <1>0, <2>2, Numbers
  <2>5. TypeOK'
    BY <1>0, <2>1, <2>2, <2>3, <2>4 DEF TypeOK
  <2>6. RingInv'
    <3>1. tail = IF head + count < Capacity THEN head + count ELSE (head + count) - Capacity
      BY <1>0, Numbers, Positions DEF RingInv
    <3>2. (head + count') % Capacity =
             IF head + count' < Capacity THEN head + count' ELSE (head + count') - Capacity
      BY <1>0, <2>4, Positions
    <3>3. tail' = (head + count') % Capacity
      BY <1>0, <2>2, <2>3, <3>1, <3>2, Numbers
    <3> QED BY <2>2, <3>3 DEF RingInv
  <2>7. Written'
    <3> SUFFICES ASSUME NEW i \in 1..count' PROVE buffer'[SlotOf(i)'] \in Items
      BY DEF Written
    <3>1. SlotOf(i)' = SlotOf(i) /\ SlotOf(i) \in Slots
      <4>1. i \in 1..Capacity
        BY <2>4, Numbers, <1>0
      <4> QED BY <1>0, <2>2, <4>1, Positions DEF SlotOf
    <3>2. CASE i = count + 1
      BY <1>0, <2>1, <2>2, <3>1, <3>2, SlotFacts DEF TypeOK
    <3>3. CASE i # count + 1
      <4>1. i \in 1..count
        BY <1>0, <2>2, <3>3 DEF TypeOK
      <4>2. SlotOf(i) # tail /\ buffer[SlotOf(i)] \in Items
        BY <1>0, <2>2, <4>1, SlotFacts DEF Written
      <4> QED BY <1>0, <2>2, <3>1, <4>2 DEF TypeOK
    <3> QED BY <3>2, <3>3
  <2> QED BY <2>5, <2>6, <2>7 DEF Ring
<1>3. ASSUME NEW t \in Threads, Dequeue(t) PROVE Ring'
  <2>1. /\ count # 0 /\ count' = count - 1 /\ tail' = tail
        /\ head' = Advance(head) /\ buffer' = buffer
        /\ call' = [call EXCEPT ![t] = "done"]
        /\ ret' = [ret EXCEPT ![t] = <<buffer[head]>>] /\ op' = op
    BY <1>3 DEF Dequeue, Finish
  <2>2. /\ head' = IF head + 1 < Capacity THEN head + 1 ELSE (head + 1) - Capacity
        /\ head' \in Slots
    BY <1>0, <2>1, AdvanceFacts DEF TypeOK
  <2>3. count' \in 0..Capacity
    BY <1>0, <2>1, Numbers
  <2>4. TypeOK'
    BY <1>0, <2>1, <2>2, <2>3 DEF TypeOK
  <2>5. RingInv'
    <3>1. tail = IF head + count < Capacity THEN head + count ELSE (head + count) - Capacity
      BY <1>0, Numbers, Positions DEF RingInv
    <3>2. (head' + count') % Capacity =
             IF head' + count' < Capacity THEN head' + count' ELSE (head' + count') - Capacity
      <4>1. head' + count' \in Nat /\ head' + count' < 2 * Capacity
        BY <1>0, <2>2, <2>3, Numbers DEF Slots
      <4> QED BY <4>1, Wrap, Zenon
    <3>3. tail = (head' + count') % Capacity
      BY <1>0, <2>1, <2>2, <3>1, <3>2, Numbers
    <3> QED BY <2>1, <3>3 DEF RingInv
  <2>6. ASSUME NEW i \in 1..count' PROVE SlotOf(i)' = SlotOf(i + 1) /\ i + 1 \in 1..count
    <3>1. i + 1 \in 1..count /\ i + 1 \in 1..Capacity
      BY <1>0, <2>1, Numbers
    <3>2. SlotOf(i + 1) = IF head + i < Capacity THEN head + i ELSE (head + i) - Capacity
      BY <1>0, <3>1, Positions, Numbers
    <3>3. (head' + i - 1) % Capacity =
             IF head' + i - 1 < Capacity THEN head' + i - 1 ELSE (head' + i - 1) - Capacity
      <4>1. head' + i - 1 \in Nat /\ head' + i - 1 < 2 * Capacity
        BY <1>0, <2>2, <2>3, Numbers DEF Slots
      <4> QED BY <4>1, Wrap, Zenon
    <3>4. SlotOf(i)' = (head' + i - 1) % Capacity
      BY DEF SlotOf
    <3> QED BY <1>0, <2>2, <3>1, <3>2, <3>3, <3>4, Numbers
  <2>7. Written'
    BY <1>0, <2>1, <2>6 DEF Written
  <2> QED BY <2>4, <2>5, <2>7 DEF Ring
<1>4. ASSUME NEW t \in Threads, Refuse(t) PROVE Ring'
  BY <1>0, <1>4 DEF Refuse, Finish, queue, Ring, TypeOK, RingInv, Written, SlotOf
<1>5. ASSUME NEW t \in Threads, Return(t) PROVE Ring'
  BY <1>0, <1>5, NoCallFacts DEF Return, queue, Ring, TypeOK, RingInv, Written, SlotOf
<1>6. CASE UNCHANGED vars
  BY <1>0, <1>6 DEF vars, Ring, TypeOK, RingInv, Written, SlotOf
<1> QED BY <1>1, <1>2, <1>3, <1>4, <1>5, <1>6 DEF Next

(* A ring is consistent at all times.                                      *)
LEMMA RingAlways == Spec => []Ring
BY RingInit, RingNext, PTL DEF Spec

(* Queue::enqueue and dequeue keep head, tail and count consistent for     *)
(* every capacity, a single slot included, however often the indices wrap. *)
THEOREM RingConsistent == Spec => []RingInv
<1>1. Ring => RingInv
  BY DEF Ring
<1> QED BY <1>1, RingAlways, PTL

(* Queue::dequeue never returns memory that no enqueue has written.        *)
THEOREM NothingUninitialised == Spec => []NoGarbage
<1>1. Ring => NoGarbage
  BY RingQueueAssumption DEF Ring, Written, NoGarbage, Contents, SlotOf
<1> QED BY <1>1, RingAlways, PTL

-----------------------------------------------------------------------------
(***************************************************************************)
(* The ring implements the polled queue.                                   *)
(***************************************************************************)

(* The queued items as a sequence.                                         *)
LEMMA ContentsFacts ==
  ASSUME Ring
  PROVE  /\ Contents \in Seq(Items)
         /\ Len(Contents) = count
         /\ \A i \in 1..count : Contents[i] = buffer[SlotOf(i)]
         /\ count = 0 <=> Contents = <<>>
<1>1. count \in Nat
  BY Numbers DEF Ring
<1>2. \A i \in 1..count : Contents[i] = buffer[SlotOf(i)]
  BY DEF Contents, SlotOf
<1>3. Contents \in [1..count -> Items]
  BY <1>2 DEF Ring, Written, Contents
<1>4. Contents \in Seq(Items)
  BY <1>1, <1>3, SeqDef
<1>5. DOMAIN Contents = 1..count /\ DOMAIN Contents = 1..Len(Contents) /\ Len(Contents) \in Nat
  BY <1>3, <1>4, LenProperties
<1>6. Len(Contents) = count
  BY <1>1, <1>5
<1>7. count = 0 <=> Contents = <<>>
  BY <1>1, <1>4, <1>6, EmptySeq
<1> QED BY <1>2, <1>4, <1>6, <1>7

(* Queue::enqueue appends its item to the contents.                        *)
LEMMA EnqueueContents ==
  ASSUME Ring, Ring', NEW t \in Threads, Enqueue(t)
  PROVE  Contents' = Append(Contents, op[t].item)
<1>0. TypeOK /\ RingInv
  BY DEF Ring
<1>1. op[t].item \in Items
  BY <1>0, OpFacts DEF Enqueue, TypeOK
<1>2. /\ count < Capacity /\ count' = count + 1 /\ head' = head
      /\ buffer' = [buffer EXCEPT ![tail] = op[t].item]
  BY DEF Enqueue
<1>3. /\ Contents \in Seq(Items) /\ Len(Contents) = count
      /\ \A i \in 1..count : Contents[i] = buffer[SlotOf(i)]
  BY ContentsFacts
<1>4. /\ Contents' \in Seq(Items) /\ Len(Contents') = count + 1
      /\ \A i \in 1..(count + 1) : Contents'[i] = buffer'[SlotOf(i)]
  <2>1. Contents' = [i \in 1..count' |-> buffer'[(head' + i - 1) % Capacity]]
    BY DEF Contents
  <2>2. \A i \in 1..(count + 1) : Contents'[i] = buffer'[SlotOf(i)]
    BY <1>2, <2>1 DEF SlotOf
  <2>3. count + 1 \in Nat
    BY <1>0, Numbers
  <2>4. \A i \in 1..(count + 1) : buffer'[SlotOf(i)] \in Items
    BY <1>2 DEF Ring, Written, SlotOf
  <2>5. Contents' \in [1..(count + 1) -> Items]
    BY <1>2, <2>1, <2>2, <2>4
  <2>6. Contents' \in Seq(Items)
    BY <2>3, <2>5, SeqDef
  <2>7. DOMAIN Contents' = 1..(count + 1) /\ DOMAIN Contents' = 1..Len(Contents')
        /\ Len(Contents') \in Nat
    BY <2>5, <2>6, LenProperties
  <2> QED BY <2>2, <2>3, <2>6, <2>7
<1>5. \A i \in 1..(count + 1) :
         buffer'[SlotOf(i)] = IF i = count + 1 THEN op[t].item ELSE buffer[SlotOf(i)]
  <2> SUFFICES ASSUME NEW i \in 1..(count + 1)
               PROVE  buffer'[SlotOf(i)] = IF i = count + 1 THEN op[t].item ELSE buffer[SlotOf(i)]
    OBVIOUS
  <2>1. SlotOf(i) \in Slots
    BY <1>0, <1>2, SlotFacts, Numbers
  <2>2. CASE i = count + 1
    BY <1>0, <1>2, <2>1, <2>2, SlotFacts DEF TypeOK
  <2>3. CASE i # count + 1
    <3>1. i \in 1..count
      BY <1>0, <2>3, Numbers
    <3>2. SlotOf(i) # tail
      BY <1>0, <1>2, <3>1, SlotFacts
    <3> QED BY <1>0, <1>2, <2>1, <2>3, <3>2 DEF TypeOK
  <2> QED BY <2>2, <2>3
<1>6. /\ Append(Contents, op[t].item) \in Seq(Items)
      /\ Len(Append(Contents, op[t].item)) = count + 1
      /\ \A i \in 1..(count + 1) :
           Append(Contents, op[t].item)[i] = IF i = count + 1 THEN op[t].item ELSE Contents[i]
  BY <1>1, <1>3, AppendProperties
<1>7. \A i \in 1..(count + 1) : Contents'[i] = Append(Contents, op[t].item)[i]
  <2>1. \A i \in 1..(count + 1) : i = count + 1 \/ i \in 1..count
    BY <1>0, Numbers
  <2> QED BY <1>3, <1>4, <1>5, <1>6, <2>1
<1> QED BY <1>4, <1>6, <1>7, SeqEqual

(* Queue::dequeue takes the oldest item off the contents.                  *)
LEMMA DequeueContents ==
  ASSUME Ring, Ring', NEW t \in Threads, Dequeue(t)
  PROVE  /\ Contents # <<>>
         /\ Contents' = Tail(Contents)
         /\ Head(Contents) = buffer[head]
<1>0. TypeOK /\ TypeOK' /\ RingInv
  BY DEF Ring
<1>1. /\ count # 0 /\ count' = count - 1 /\ head' = Advance(head) /\ buffer' = buffer
  BY DEF Dequeue
<1>2. /\ Contents \in Seq(Items) /\ Len(Contents) = count
      /\ \A i \in 1..count : Contents[i] = buffer[SlotOf(i)]
      /\ Contents # <<>>
  BY <1>1, ContentsFacts
<1>3. 1 \in 1..count /\ 1 \in 1..Capacity /\ count - 1 \in Nat
  BY <1>0, <1>1, Numbers
<1>4. Head(Contents) = buffer[head]
  <2>1. SlotOf(1) = head
    BY <1>0, <1>3, Positions, Numbers
  <2>2. Head(Contents) = Contents[1]
    BY <1>2
  <2> QED BY <1>2, <1>3, <2>1, <2>2
<1>5. \A i \in 1..(count - 1) : SlotOf(i)' = SlotOf(i + 1) /\ i + 1 \in 1..count
  <2> SUFFICES ASSUME NEW i \in 1..(count - 1)
               PROVE  SlotOf(i)' = SlotOf(i + 1) /\ i + 1 \in 1..count
    OBVIOUS
  <2>1. i + 1 \in 1..count /\ i + 1 \in 1..Capacity
    BY <1>0, Numbers
  <2>2. SlotOf(i + 1) = IF head + i < Capacity THEN head + i ELSE (head + i) - Capacity
    BY <1>0, <2>1, Positions, Numbers
  <2>3. /\ head' = IF head + 1 < Capacity THEN head + 1 ELSE (head + 1) - Capacity
        /\ head' \in Slots
    BY <1>0, <1>1, AdvanceFacts DEF TypeOK
  <2>4. (head' + i - 1) % Capacity =
           IF head' + i - 1 < Capacity THEN head' + i - 1 ELSE (head' + i - 1) - Capacity
    <3>1. head' + i - 1 \in Nat /\ head' + i - 1 < 2 * Capacity
      BY <1>0, <2>1, <2>3, Numbers DEF Slots
    <3> QED BY <3>1, Wrap, Zenon
  <2>5. SlotOf(i)' = (head' + i - 1) % Capacity
    BY DEF SlotOf
  <2> QED BY <1>0, <2>1, <2>2, <2>3, <2>4, <2>5, Numbers
<1>6. /\ Contents' \in Seq(Items) /\ Len(Contents') = count - 1
      /\ \A i \in 1..(count - 1) : Contents'[i] = buffer[SlotOf(i)']
  <2>1. Contents' = [i \in 1..(count - 1) |-> buffer[(head' + i - 1) % Capacity]]
    BY <1>1 DEF Contents
  <2>2. \A i \in 1..(count - 1) : Contents'[i] = buffer[SlotOf(i)']
    BY <2>1 DEF SlotOf
  <2>3. \A i \in 1..(count - 1) : buffer[SlotOf(i)'] \in Items
    BY <1>5 DEF Ring, Written
  <2>4. Contents' \in [1..(count - 1) -> Items]
    BY <2>1, <2>2, <2>3
  <2>5. Contents' \in Seq(Items)
    BY <1>3, <2>4, SeqDef
  <2>6. DOMAIN Contents' = 1..(count - 1) /\ DOMAIN Contents' = 1..Len(Contents')
        /\ Len(Contents') \in Nat
    BY <2>4, <2>5, LenProperties
  <2> QED BY <1>3, <2>2, <2>5, <2>6
<1>7. /\ Tail(Contents) \in Seq(Items) /\ Len(Tail(Contents)) = count - 1
      /\ \A i \in 1..(count - 1) : Tail(Contents)[i] = Contents[i + 1]
  BY <1>2, HeadTailProperties
<1>8. \A i \in 1..(count - 1) : Contents'[i] = Tail(Contents)[i]
  BY <1>2, <1>5, <1>6, <1>7
<1>9. Contents' = Tail(Contents)
  BY <1>6, <1>7, <1>8, SeqEqual
<1> QED BY <1>2, <1>4, <1>9

(* A call read as a poll keeps its kind and its item.                      *)
Poll(o) == [o EXCEPT !.timeout = "NoWait"]

(* A call with its timeout left out is the same call made without waiting. *)
LEMMA PollFacts ==
  ASSUME NEW o \in Contract!Ops
  PROVE  /\ Poll(o) \in Contract!Ops
         /\ Poll(o).kind = o.kind
         /\ Poll(o).timeout = "NoWait"
         /\ o.kind = "enqueue" => Poll(o).item = o.item
<1>1. CASE o \in Contract!Enqueues
  BY <1>1 DEF Poll, Contract!Ops, Contract!Enqueues, Contract!Timeouts
<1>2. CASE o \in Contract!Dequeues
  BY <1>2 DEF Poll, Contract!Ops, Contract!Dequeues, Contract!Timeouts
<1> QED BY <1>1, <1>2 DEF Contract!Ops

(* The arguments as the polled queue sees them.                            *)
polls == [t \in Threads |-> PollOp(t)]

(* The same of the calls of all threads when one makes a new call.         *)
LEMMA PollsUpdate ==
  ASSUME TypeOK, NEW t \in Threads, NEW o \in Contract!Ops, op' = [op EXCEPT ![t] = o]
  PROVE  polls' = [polls EXCEPT ![t] = Poll(o)]
<1>1. \A u \in Threads : op'[u] = IF u = t THEN o ELSE op[u]
  BY DEF TypeOK
<1>2. polls' = [u \in Threads |-> Poll(op'[u])] /\ polls = [u \in Threads |-> Poll(op[u])]
  BY DEF polls, PollOp, Poll
<1>3. \A u \in Threads : polls'[u] = IF u = t THEN Poll(o) ELSE polls[u]
  BY <1>1, <1>2
<1> QED BY <1>2, <1>3

(* And of one thread's call.                                               *)
LEMMA PollsAt ==
  ASSUME TypeOK, NEW t \in Threads
  PROVE  /\ polls[t].kind = op[t].kind
         /\ polls[t].timeout = "NoWait"
         /\ op[t].kind = "enqueue" => polls[t].item = op[t].item
<1>1. op[t] \in Contract!Ops /\ polls[t] = Poll(op[t])
  BY DEF TypeOK, polls, PollOp, Poll
<1> QED BY <1>1, PollFacts, Zenon

(* Calls that stay as they are look the same to the polled queue.          *)
LEMMA PollsSame == op' = op => polls' = polls
BY DEF polls, PollOp

(* Contents are read off the ring alone.                                   *)
LEMMA ContentsSame == UNCHANGED queue => Contents' = Contents
BY DEF queue, Contents

(* Every step of the ring is a step of the polled queue, or none of it.    *)
LEMMA RingStep == Ring /\ Ring' /\ [Next]_vars => [PollContract!Next]_(PollContract!vars)
<1> SUFFICES ASSUME Ring, Ring', [Next]_vars
             PROVE  [PollContract!Next]_(PollContract!vars)
  OBVIOUS
<1>0. TypeOK
  BY DEF Ring
<1>ops. PollContract!Ops = Contract!Ops /\ PollContract!NoCall = Contract!NoCall
  BY DEF PollContract!Ops, Contract!Ops, PollContract!Enqueues, Contract!Enqueues,
         PollContract!Dequeues, Contract!Dequeues, PollContract!Timeouts, Contract!Timeouts,
         PollContract!NoCall, Contract!NoCall
<1>len. Len(Contents) = count /\ (count = 0 <=> Contents = <<>>)
  BY ContentsFacts
<1>1. ASSUME NEW t \in Threads, NEW o \in Contract!Ops, Call(t, o) PROVE PollContract!Next
  <2>1. polls' = [polls EXCEPT ![t] = Poll(o)] /\ Contents' = Contents
    BY <1>0, <1>1, PollsUpdate, ContentsSame DEF Call
  <2>2. PollContract!Invoke(t, Poll(o))
    BY <1>1, <2>1 DEF Call, PollContract!Invoke, polls
  <2>3. Poll(o) \in PollContract!Ops
    BY <1>ops, PollFacts
  <2> QED BY <2>2, <2>3 DEF PollContract!Next
<1>2. ASSUME NEW t \in Threads, Enqueue(t) PROVE PollContract!Next
  <2>1. /\ count < Capacity /\ op[t].kind = "enqueue" /\ call[t] = "pending"
        /\ call' = [call EXCEPT ![t] = "done"]
        /\ ret' = [ret EXCEPT ![t] = <<op[t].item>>] /\ op' = op
    BY <1>2 DEF Enqueue, Finish
  <2>2. Contents' = Append(Contents, op[t].item)
    BY <1>2, EnqueueContents
  <2>3. ~PollContract!Full
    BY <1>0, <1>len, <2>1, Numbers DEF PollContract!Full
  <2>4. PollContract!Put(t)
    BY <1>0, <2>1, <2>2, <2>3, PollsAt, PollsSame
       DEF PollContract!Put, PollContract!Finish, polls
  <2> QED BY <2>4 DEF PollContract!Next
<1>3. ASSUME NEW t \in Threads, Dequeue(t) PROVE PollContract!Next
  <2>1. /\ count # 0 /\ op[t].kind = "dequeue" /\ call[t] = "pending"
        /\ call' = [call EXCEPT ![t] = "done"]
        /\ ret' = [ret EXCEPT ![t] = <<buffer[head]>>] /\ op' = op
    BY <1>3 DEF Dequeue, Finish
  <2>2. Contents # <<>> /\ Contents' = Tail(Contents) /\ Head(Contents) = buffer[head]
    BY <1>3, DequeueContents
  <2>3. PollContract!Take(t)
    BY <1>0, <2>1, <2>2, PollsAt, PollsSame
       DEF PollContract!Take, PollContract!Empty, PollContract!Finish, polls
  <2> QED BY <2>3 DEF PollContract!Next
<1>4. ASSUME NEW t \in Threads, Refuse(t) PROVE PollContract!Next
  <2>1. /\ call[t] = "pending" /\ op' = op /\ call' = [call EXCEPT ![t] = "done"]
        /\ ret' = [ret EXCEPT ![t] = <<>>] /\ UNCHANGED queue
        /\ IF op[t].kind = "enqueue" THEN count >= Capacity ELSE count = 0
    BY <1>4 DEF Refuse, Finish
  <2>2. polls' = polls /\ Contents' = Contents
    BY <2>1, PollsSame, ContentsSame
  <2>3. IF polls[t].kind = "enqueue" THEN PollContract!Full ELSE PollContract!Empty
    BY <1>0, <1>len, <2>1, PollsAt DEF PollContract!Full, PollContract!Empty
  <2>4. polls[t].timeout = "NoWait"
    BY <1>0, PollsAt
  <2>5. PollContract!Refuse(t)
    BY <2>1, <2>2, <2>3, <2>4 DEF PollContract!Refuse, PollContract!Finish, polls
  <2> QED BY <2>5 DEF PollContract!Next
<1>5. ASSUME NEW t \in Threads, Return(t) PROVE PollContract!Next
  <2>1. polls' = [polls EXCEPT ![t] = Poll(Contract!NoCall)] /\ Contents' = Contents
    BY <1>0, <1>5, NoCallFacts, PollsUpdate, ContentsSame DEF Return
  <2>2. Poll(Contract!NoCall) = Contract!NoCall
    BY DEF Poll, Contract!NoCall
  <2>3. PollContract!Return(t)
    BY <1>5, <1>ops, <2>1, <2>2 DEF Return, PollContract!Return, polls
  <2> QED BY <2>3 DEF PollContract!Next
<1>6. CASE UNCHANGED vars
  <2>1. polls' = polls /\ Contents' = Contents /\ call' = call /\ ret' = ret
    BY <1>6, PollsSame, ContentsSame DEF vars, queue
  <2> QED BY <2>1 DEF PollContract!vars, polls
<1> QED BY <1>1, <1>2, <1>3, <1>4, <1>5, <1>6 DEF Next

(* The types of Queue and of its callers hold: indices in the buffer,      *)
(* count never above the capacity.                                         *)
THEOREM TypeCorrect == Spec => []TypeOK
<1>1. Ring => TypeOK
  BY DEF Ring
<1> QED BY <1>1, RingAlways, PTL

(* Queue::enqueue and dequeue are, for every capacity and every set of     *)
(* callers, a bounded FIFO queue that never waits.                         *)
THEOREM RingImplementsPolledFifo == Spec => ImplementsPolledFifo
<1>1. Init => PollContract!Init
  <2> SUFFICES ASSUME Init PROVE PollContract!Init
    OBVIOUS
  <2>1. Contents = <<>>
    BY RingInit, ContentsFacts DEF Init
  <2>2. polls = [t \in Threads |-> Contract!NoCall]
    BY DEF Init, polls, PollOp, Contract!NoCall
  <2> QED BY <2>1, <2>2 DEF Init, PollContract!Init, PollContract!NoCall, Contract!NoCall, polls
<1> QED
  BY <1>1, RingAlways, RingStep, PTL
     DEF Spec, ImplementsPolledFifo, PollContract!Spec
=============================================================================
