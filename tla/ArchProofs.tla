----------------------------- MODULE ArchProofs -----------------------------
(***************************************************************************)
(* What the backends of CspArch give libcsp, for any number of threads:    *)
(* the host backend's queue (TestQueue: types, no lost wakeup, and that it *)
(* implements BoundedFifo for any capacity), the binary semaphores         *)
(* (BinSem: no lost signal, and that they implement BinarySemaphore) and   *)
(* the start of threads (ThreadStart: never an older function), and the    *)
(* mutexes (Mutexes: exclusion).                                           *)
(***************************************************************************)
EXTENDS TestQueue, BinSem, ThreadStart, Mutexes, FiniteSetTheorems, TLAPS

(* The arguments of a call.                                                *)
LEMMA OpFacts ==
  ASSUME NEW o \in Ops
  PROVE  /\ o.kind \in {"enqueue", "dequeue"}
         /\ o.timeout \in {"NoWait", "Timed", "Forever"}
         /\ o.kind = "enqueue" => o.item \in Items
BY DEF Ops, Contract!Ops, Contract!Enqueues, Contract!Dequeues, Contract!Timeouts

(* The record of a thread that has called nothing is a call like others.   *)
LEMMA NoCallFacts == Contract!NoCall \in Ops
BY DEF Ops, Contract!Ops, Contract!Dequeues, Contract!Timeouts, Contract!NoCall

(* The types hold at the start.                                            *)
LEMMA TypeOKInit == Init => TypeOK
BY NoCallFacts, TestQueueAssumption DEF Init, TypeOK, PCs, Contract!Results

(* Every step keeps them.                                                  *)
LEMMA TypeOKNext == TypeOK /\ [Next]_vars => TypeOK'
<1> SUFFICES ASSUME TypeOK, [Next]_vars PROVE TypeOK'
  OBVIOUS
<1> USE TestQueueAssumption DEF TypeOK, PCs
<1>1. ASSUME NEW t \in Threads, NEW o \in Ops, Call(t, o) PROVE TypeOK'
  BY <1>1 DEF Call
<1>2. ASSUME NEW t \in Threads, Proceed(t) PROVE TypeOK'
  <2>1. CASE Enqueuer(t)
    <3>1. op[t].item \in Items
      BY <2>1, OpFacts DEF Enqueuer
    <3>2. /\ data' = Append(data, op[t].item)
          /\ ret' = [ret EXCEPT ![t] = <<op[t].item>>]
          /\ pc' = [pc EXCEPT ![t] = "notify"]
          /\ UNCHANGED <<op, calls>>
          /\ Len(data) < Capacity
      BY <1>2, <2>1 DEF Proceed, Blocked, Enqueuer, Dequeuer
    <3>3. data' \in Seq(Items) /\ Len(data') <= Capacity
      BY <3>1, <3>2
    <3>4. ret' \in [Threads -> Contract!Results]
      BY <3>1, <3>2 DEF Contract!Results
    <3> QED BY <3>2, <3>3, <3>4
  <2>2. CASE ~Enqueuer(t)
    <3>1. /\ data # <<>>
          /\ data' = Tail(data)
          /\ ret' = [ret EXCEPT ![t] = <<Head(data)>>]
          /\ pc' = [pc EXCEPT ![t] = "notify"]
          /\ UNCHANGED <<op, calls>>
      BY <1>2, <2>2 DEF Proceed, Blocked
    <3>2. Head(data) \in Items /\ data' \in Seq(Items) /\ Len(data') <= Capacity
      BY <3>1
    <3>3. ret' \in [Threads -> Contract!Results]
      BY <3>1, <3>2 DEF Contract!Results
    <3> QED BY <3>1, <3>2, <3>3
  <2> QED BY <2>1, <2>2
<1>3. ASSUME NEW t \in Threads, Wait(t) \/ GiveUp(t) \/ SpuriousWakeup(t) \/ Expire(t)
      PROVE  TypeOK'
  BY <1>3 DEF Wait, GiveUp, SpuriousWakeup, Expire
<1>4. ASSUME NEW t \in Threads, NotifyOne(t) PROVE TypeOK'
  BY <1>4 DEF NotifyOne, WaitingNotEmpty, WaitingNotFull
<1>5. ASSUME NEW t \in Threads, Return(t) PROVE TypeOK'
  BY <1>5, NoCallFacts DEF Return, Contract!Results
<1>6. CASE UNCHANGED vars
  BY <1>6 DEF vars
<1> QED BY <1>1, <1>2, <1>3, <1>4, <1>5, <1>6 DEF Next

(* Whatever the threads and the queue's length, data never holds more than *)
(* max_len items and the results are queued items, although a woken caller *)
(* finds the queue changed by others since its notification.               *)
THEOREM TypeCorrect == Spec => []TypeOK
BY TypeOKInit, TypeOKNext, PTL DEF Spec

-----------------------------------------------------------------------------
(***************************************************************************)
(* No lost wakeup.  The invariant counts, so each action is reduced to     *)
(* what it does to the four sets of threads and to the length.             *)
(***************************************************************************)

(* Sets of threads are finite, and how their size changes.                 *)
LEMMA ThreadSets ==
  ASSUME NEW S \in SUBSET Threads, NEW t \in Threads
  PROVE  /\ Cardinality(S) \in Nat
         /\ Cardinality(S \cup {t}) \in Nat
         /\ Cardinality(S \ {t}) \in Nat
         /\ t \notin S => Cardinality(S \cup {t}) = Cardinality(S) + 1
         /\ Cardinality(S) <= Cardinality(S \cup {t})
         /\ t \in S => Cardinality(S \ {t}) = Cardinality(S) - 1
         /\ Cardinality(S \ {t}) >= Cardinality(S) - 1
<1>1. IsFiniteSet(S)
  BY FS_Subset, TestQueueAssumption
<1>2. IsFiniteSet(S \cup {t}) /\ IsFiniteSet(S \ {t})
  BY <1>1, FS_AddElement, FS_RemoveElement
<1>3. /\ Cardinality(S) \in Nat /\ Cardinality(S \cup {t}) \in Nat
      /\ Cardinality(S \ {t}) \in Nat
  BY <1>1, <1>2, FS_CardinalityType
<1>4. Cardinality(S \cup {t}) = IF t \in S THEN Cardinality(S) ELSE Cardinality(S) + 1
  BY <1>1, FS_AddElement, Zenon
<1>5. Cardinality(S \ {t}) = IF t \in S THEN Cardinality(S) - 1 ELSE Cardinality(S)
  BY <1>1, FS_RemoveElement, Zenon
<1> QED BY <1>3, <1>4, <1>5

(* What Proceed does to the length.                                        *)
LEMMA ProceedLength ==
  ASSUME TypeOK, NEW t \in Threads, Proceed(t)
  PROVE  /\ Len(data) \in Nat /\ Len(data') \in Nat
         /\ Enqueuer(t) => Len(data') = Len(data) + 1
         /\ Dequeuer(t) => Len(data') = Len(data) - 1
<1>1. CASE Enqueuer(t)
  <2>1. data' = Append(data, op[t].item) /\ ~Dequeuer(t)
    BY <1>1 DEF Proceed, Enqueuer, Dequeuer
  <2>2. op[t].item \in Items
    BY <1>1, OpFacts DEF TypeOK, Enqueuer
  <2> QED BY <1>1, <2>1, <2>2 DEF TypeOK
<1>2. CASE ~Enqueuer(t)
  <2>1. data' = Tail(data) /\ data # <<>>
    BY <1>2 DEF Proceed, Blocked
  <2> QED BY <1>2, <2>1 DEF TypeOK
<1> QED BY <1>1, <1>2

(* Items and the dequeuers that wait for them.                             *)
LEMMA NoLostNotEmptyNext == TypeOK /\ NoLostNotEmpty /\ [Next]_vars => NoLostNotEmpty'
<1> SUFFICES ASSUME TypeOK, NoLostNotEmpty, [Next]_vars PROVE NoLostNotEmpty'
  OBVIOUS
<1> DEFINE Waiting == WaitingNotEmpty
           About == AboutToNotifyNotEmpty
           Waking == WakingDequeuers
           size == Len(data)
<1>0. /\ About \in SUBSET Threads /\ Waking \in SUBSET Threads
      /\ \A t \in Threads : Enqueuer(t) <=> ~Dequeuer(t)
      /\ size \in Nat
  <2>1. \A t \in Threads : Enqueuer(t) <=> ~Dequeuer(t)
    BY OpFacts DEF TypeOK, Enqueuer, Dequeuer
  <2>2. size \in Nat
    BY TestQueueAssumption DEF TypeOK
  <2> QED BY <2>1, <2>2 DEF AboutToNotifyNotEmpty, WakingDequeuers
<1>h. Waiting # {} => size <= Cardinality(About) + Cardinality(Waking)
  BY DEF NoLostNotEmpty
<1>1. ASSUME NEW t \in Threads, NEW o \in Ops, Call(t, o) PROVE NoLostNotEmpty'
  <2>1. Waiting' = Waiting /\ About' = About /\ Waking' = Waking /\ size' = size
    BY <1>1
       DEF Call, TypeOK, Enqueuer, Dequeuer,
           WaitingNotEmpty, AboutToNotifyNotEmpty, WakingDequeuers
  <2> QED BY <1>h, <2>1 DEF NoLostNotEmpty
<1>2. ASSUME NEW t \in Threads, Proceed(t), Enqueuer(t) PROVE NoLostNotEmpty'
  <2>1. Waiting' = Waiting /\ About' = About \cup {t} /\ Waking' = Waking /\ t \notin About
    BY <1>0, <1>2
       DEF Proceed, TypeOK, Enqueuer, Dequeuer,
           WaitingNotEmpty, AboutToNotifyNotEmpty, WakingDequeuers
  <2>2. size' = size + 1
    BY <1>0, <1>2, ProceedLength, TestQueueAssumption
  <2>3. Cardinality(About') = Cardinality(About) + 1 /\ Cardinality(About) \in Nat
    BY <1>0, <2>1, ThreadSets
  <2>4. Cardinality(Waking) \in Nat
    BY <1>0, <1>2, ThreadSets
  <2>5. Waiting' # {} => size' <= Cardinality(About') + Cardinality(Waking')
    BY <1>0, <1>h, <2>1, <2>2, <2>3, <2>4
  <2> QED BY <2>5 DEF NoLostNotEmpty
<1>3. ASSUME NEW t \in Threads, Proceed(t), Dequeuer(t) PROVE NoLostNotEmpty'
  <2>1. Waiting' = Waiting /\ About' = About /\ Waking' = Waking \ {t}
    BY <1>0, <1>3
       DEF Proceed, TypeOK, Enqueuer, Dequeuer,
           WaitingNotEmpty, AboutToNotifyNotEmpty, WakingDequeuers
  <2>2. size' = size - 1
    BY <1>0, <1>3, ProceedLength, TestQueueAssumption
  <2>3. /\ Cardinality(Waking') >= Cardinality(Waking) - 1
        /\ Cardinality(Waking) \in Nat /\ Cardinality(Waking') \in Nat
        /\ Cardinality(About) \in Nat
    BY <1>0, <2>1, ThreadSets
  <2>4. Waiting' # {} => size' <= Cardinality(About') + Cardinality(Waking')
    BY <1>0, <1>h, <2>1, <2>2, <2>3
  <2> QED BY <2>4 DEF NoLostNotEmpty
<1>4. ASSUME NEW t \in Threads, Wait(t) \/ GiveUp(t) \/ Expire(t) PROVE NoLostNotEmpty'
  <2>1. size' = size
    BY <1>4 DEF Wait, GiveUp, Expire
  <2>2. CASE Dequeuer(t) /\ pc[t] \in {"enter", "woken"}
    <3>1. size = 0
      BY <1>0, <1>4, <2>2, TestQueueAssumption
         DEF Wait, GiveUp, Expire, Blocked, TypeOK, Enqueuer, Dequeuer
    <3>2. About' \in SUBSET Threads /\ Waking' \in SUBSET Threads
      BY DEF AboutToNotifyNotEmpty, WakingDequeuers
    <3>3. Cardinality(About') \in Nat /\ Cardinality(Waking') \in Nat
      BY <1>4, <3>2, ThreadSets
    <3>4. size' <= Cardinality(About') + Cardinality(Waking')
      BY <2>1, <3>1, <3>3
    <3> QED BY <3>4 DEF NoLostNotEmpty
  <2>3. CASE ~(Dequeuer(t) /\ pc[t] \in {"enter", "woken"})
    <3>1. Waiting' \subseteq Waiting /\ About' = About /\ Waking' = Waking
      BY <1>0, <1>4, <2>3
         DEF Wait, GiveUp, Expire, TypeOK, Enqueuer, Dequeuer,
             WaitingNotEmpty, AboutToNotifyNotEmpty, WakingDequeuers
    <3>2. Waiting' # {} => size' <= Cardinality(About') + Cardinality(Waking')
      BY <1>h, <2>1, <3>1
    <3> QED BY <3>2 DEF NoLostNotEmpty
  <2> QED BY <2>2, <2>3
<1>5. ASSUME NEW t \in Threads, NotifyOne(t), Enqueuer(t) PROVE NoLostNotEmpty'
  <2>1. size' = size
    BY <1>5 DEF NotifyOne
  <2>2. CASE Waiting = {}
    <3>1. Waiting' = {}
      BY <1>0, <1>5, <2>2
         DEF NotifyOne, TypeOK, Enqueuer, Dequeuer,
             WaitingNotEmpty, AboutToNotifyNotEmpty, WakingDequeuers
    <3> QED BY <3>1 DEF NoLostNotEmpty
  <2>3. CASE Waiting # {}
    <3>1. PICK w \in Waiting : pc' = [pc EXCEPT ![t] = "return", ![w] = "woken"]
      BY <1>0, <1>5, <2>3 DEF NotifyOne
    <3>2. /\ About' = About \ {t} /\ t \in About
          /\ Waking' = Waking \cup {w} /\ w \notin Waking
          /\ w \in Threads
      BY <1>0, <1>5, <3>1
         DEF NotifyOne, TypeOK, Enqueuer, Dequeuer,
             WaitingNotEmpty, AboutToNotifyNotEmpty, WakingDequeuers
    <3>3. /\ Cardinality(About') = Cardinality(About) - 1 /\ Cardinality(About) \in Nat
          /\ Cardinality(Waking') = Cardinality(Waking) + 1 /\ Cardinality(Waking) \in Nat
      BY <1>0, <3>2, ThreadSets
    <3>4. size' <= Cardinality(About') + Cardinality(Waking')
      BY <1>0, <1>h, <2>1, <2>3, <3>3
    <3> QED BY <3>4 DEF NoLostNotEmpty
  <2> QED BY <2>2, <2>3
<1>6. ASSUME NEW t \in Threads, NotifyOne(t), Dequeuer(t) PROVE NoLostNotEmpty'
  <2>1. Waiting' = Waiting /\ About' = About /\ Waking' = Waking /\ size' = size
    BY <1>0, <1>6
       DEF NotifyOne, TypeOK, Enqueuer, Dequeuer,
           WaitingNotFull, WaitingNotEmpty, AboutToNotifyNotEmpty, WakingDequeuers
  <2> QED BY <1>h, <2>1 DEF NoLostNotEmpty
<1>7. ASSUME NEW t \in Threads, SpuriousWakeup(t) PROVE NoLostNotEmpty'
  <2>1. Waiting' \subseteq Waiting /\ About' = About /\ size' = size
    BY <1>7
       DEF SpuriousWakeup, TypeOK, Enqueuer, Dequeuer,
           WaitingNotEmpty, AboutToNotifyNotEmpty, WakingDequeuers
  <2>2. Waking' = Waking \/ Waking' = Waking \cup {t}
    BY <1>7
       DEF SpuriousWakeup, TypeOK, Enqueuer, Dequeuer,
           WaitingNotEmpty, AboutToNotifyNotEmpty, WakingDequeuers
  <2>3. /\ Cardinality(About) \in Nat /\ Cardinality(Waking) \in Nat
        /\ Cardinality(Waking') \in Nat /\ Cardinality(Waking) <= Cardinality(Waking')
    <3>1. Cardinality(About) \in Nat /\ Cardinality(Waking) \in Nat
      BY <1>0, <1>7, ThreadSets
    <3>2. CASE Waking' = Waking
      BY <3>1, <3>2
    <3>3. CASE Waking' = Waking \cup {t}
      BY <1>0, <1>7, <3>1, <3>3, ThreadSets
    <3> QED BY <2>2, <3>1, <3>2, <3>3
  <2>4. Waiting' # {} => size' <= Cardinality(About') + Cardinality(Waking')
    BY <1>0, <1>h, <2>1, <2>3
  <2> QED BY <2>4 DEF NoLostNotEmpty
<1>8. ASSUME NEW t \in Threads, Return(t) PROVE NoLostNotEmpty'
  <2>1. Waiting' = Waiting /\ About' = About /\ Waking' = Waking /\ size' = size
    BY <1>8
       DEF Return, TypeOK, Enqueuer, Dequeuer,
           WaitingNotEmpty, AboutToNotifyNotEmpty, WakingDequeuers
  <2> QED BY <1>h, <2>1 DEF NoLostNotEmpty
<1>9. CASE UNCHANGED vars
  <2>1. Waiting' = Waiting /\ About' = About /\ Waking' = Waking /\ size' = size
    BY <1>9
       DEF vars, Enqueuer, Dequeuer, WaitingNotEmpty, AboutToNotifyNotEmpty, WakingDequeuers
  <2> QED BY <1>h, <2>1 DEF NoLostNotEmpty
<1>10. CASE Next
  <2>1. PICK t \in Threads :
          \/ \E o \in Ops : Call(t, o)
          \/ Proceed(t) \/ NotifyOne(t)
          \/ Wait(t) \/ GiveUp(t) \/ Expire(t) \/ SpuriousWakeup(t) \/ Return(t)
    BY <1>10 DEF Next
  <2>2. Enqueuer(t) \/ Dequeuer(t)
    BY <1>0
  <2> QED BY <1>1, <1>2, <1>3, <1>4, <1>5, <1>6, <1>7, <1>8, <2>1, <2>2
<1> QED BY <1>9, <1>10

(* Free slots and the enqueuers that wait for them.                        *)
LEMMA NoLostNotFullNext == TypeOK /\ NoLostNotFull /\ [Next]_vars => NoLostNotFull'
<1> SUFFICES ASSUME TypeOK, NoLostNotFull, [Next]_vars PROVE NoLostNotFull'
  OBVIOUS
<1> DEFINE Waiting == WaitingNotFull
           About == AboutToNotifyNotFull
           Waking == WakingEnqueuers
           size == (Capacity - Len(data))
<1>0. /\ About \in SUBSET Threads /\ Waking \in SUBSET Threads
      /\ \A t \in Threads : Enqueuer(t) <=> ~Dequeuer(t)
      /\ size \in Nat
  <2>1. \A t \in Threads : Enqueuer(t) <=> ~Dequeuer(t)
    BY OpFacts DEF TypeOK, Enqueuer, Dequeuer
  <2>2. size \in Nat
    BY TestQueueAssumption DEF TypeOK
  <2> QED BY <2>1, <2>2 DEF AboutToNotifyNotFull, WakingEnqueuers
<1>h. Waiting # {} => size <= Cardinality(About) + Cardinality(Waking)
  BY DEF NoLostNotFull
<1>1. ASSUME NEW t \in Threads, NEW o \in Ops, Call(t, o) PROVE NoLostNotFull'
  <2>1. Waiting' = Waiting /\ About' = About /\ Waking' = Waking /\ size' = size
    BY <1>1
       DEF Call, TypeOK, Enqueuer, Dequeuer, WaitingNotFull, AboutToNotifyNotFull, WakingEnqueuers
  <2> QED BY <1>h, <2>1 DEF NoLostNotFull
<1>2. ASSUME NEW t \in Threads, Proceed(t), Dequeuer(t) PROVE NoLostNotFull'
  <2>1. Waiting' = Waiting /\ About' = About \cup {t} /\ Waking' = Waking /\ t \notin About
    BY <1>0, <1>2
       DEF Proceed, TypeOK, Enqueuer, Dequeuer,
           WaitingNotFull, AboutToNotifyNotFull, WakingEnqueuers
  <2>2. size' = size + 1
    BY <1>0, <1>2, ProceedLength, TestQueueAssumption
  <2>3. Cardinality(About') = Cardinality(About) + 1 /\ Cardinality(About) \in Nat
    BY <1>0, <2>1, ThreadSets
  <2>4. Cardinality(Waking) \in Nat
    BY <1>0, <1>2, ThreadSets
  <2>5. Waiting' # {} => size' <= Cardinality(About') + Cardinality(Waking')
    BY <1>0, <1>h, <2>1, <2>2, <2>3, <2>4
  <2> QED BY <2>5 DEF NoLostNotFull
<1>3. ASSUME NEW t \in Threads, Proceed(t), Enqueuer(t) PROVE NoLostNotFull'
  <2>1. Waiting' = Waiting /\ About' = About /\ Waking' = Waking \ {t}
    BY <1>0, <1>3
       DEF Proceed, TypeOK, Enqueuer, Dequeuer,
           WaitingNotFull, AboutToNotifyNotFull, WakingEnqueuers
  <2>2. size' = size - 1
    BY <1>0, <1>3, ProceedLength, TestQueueAssumption
  <2>3. /\ Cardinality(Waking') >= Cardinality(Waking) - 1
        /\ Cardinality(Waking) \in Nat /\ Cardinality(Waking') \in Nat
        /\ Cardinality(About) \in Nat
    BY <1>0, <2>1, ThreadSets
  <2>4. Waiting' # {} => size' <= Cardinality(About') + Cardinality(Waking')
    BY <1>0, <1>h, <2>1, <2>2, <2>3
  <2> QED BY <2>4 DEF NoLostNotFull
<1>4. ASSUME NEW t \in Threads, Wait(t) \/ GiveUp(t) \/ Expire(t) PROVE NoLostNotFull'
  <2>1. size' = size
    BY <1>4 DEF Wait, GiveUp, Expire
  <2>2. CASE Enqueuer(t) /\ pc[t] \in {"enter", "woken"}
    <3>1. size = 0
      BY <1>0, <1>4, <2>2, TestQueueAssumption
         DEF Wait, GiveUp, Expire, Blocked, TypeOK, Enqueuer, Dequeuer
    <3>2. About' \in SUBSET Threads /\ Waking' \in SUBSET Threads
      BY DEF AboutToNotifyNotFull, WakingEnqueuers
    <3>3. Cardinality(About') \in Nat /\ Cardinality(Waking') \in Nat
      BY <1>4, <3>2, ThreadSets
    <3>4. size' <= Cardinality(About') + Cardinality(Waking')
      BY <2>1, <3>1, <3>3
    <3> QED BY <3>4 DEF NoLostNotFull
  <2>3. CASE ~(Enqueuer(t) /\ pc[t] \in {"enter", "woken"})
    <3>1. Waiting' \subseteq Waiting /\ About' = About /\ Waking' = Waking
      BY <1>0, <1>4, <2>3
         DEF Wait, GiveUp, Expire, TypeOK, Enqueuer, Dequeuer,
             WaitingNotFull, AboutToNotifyNotFull, WakingEnqueuers
    <3>2. Waiting' # {} => size' <= Cardinality(About') + Cardinality(Waking')
      BY <1>h, <2>1, <3>1
    <3> QED BY <3>2 DEF NoLostNotFull
  <2> QED BY <2>2, <2>3
<1>5. ASSUME NEW t \in Threads, NotifyOne(t), Dequeuer(t) PROVE NoLostNotFull'
  <2>1. size' = size
    BY <1>5 DEF NotifyOne
  <2>2. CASE Waiting = {}
    <3>1. Waiting' = {}
      BY <1>0, <1>5, <2>2
         DEF NotifyOne, TypeOK, Enqueuer, Dequeuer,
             WaitingNotFull, AboutToNotifyNotFull, WakingEnqueuers
    <3> QED BY <3>1 DEF NoLostNotFull
  <2>3. CASE Waiting # {}
    <3>1. PICK w \in Waiting : pc' = [pc EXCEPT ![t] = "return", ![w] = "woken"]
      BY <1>0, <1>5, <2>3 DEF NotifyOne
    <3>2. /\ About' = About \ {t} /\ t \in About
          /\ Waking' = Waking \cup {w} /\ w \notin Waking
          /\ w \in Threads
      BY <1>0, <1>5, <3>1
         DEF NotifyOne, TypeOK, Enqueuer, Dequeuer,
             WaitingNotFull, AboutToNotifyNotFull, WakingEnqueuers
    <3>3. /\ Cardinality(About') = Cardinality(About) - 1 /\ Cardinality(About) \in Nat
          /\ Cardinality(Waking') = Cardinality(Waking) + 1 /\ Cardinality(Waking) \in Nat
      BY <1>0, <3>2, ThreadSets
    <3>4. size' <= Cardinality(About') + Cardinality(Waking')
      BY <1>0, <1>h, <2>1, <2>3, <3>3
    <3> QED BY <3>4 DEF NoLostNotFull
  <2> QED BY <2>2, <2>3
<1>6. ASSUME NEW t \in Threads, NotifyOne(t), Enqueuer(t) PROVE NoLostNotFull'
  <2>1. Waiting' = Waiting /\ About' = About /\ Waking' = Waking /\ size' = size
    BY <1>0, <1>6
       DEF NotifyOne, TypeOK, Enqueuer, Dequeuer,
           WaitingNotFull, WaitingNotEmpty, AboutToNotifyNotFull, WakingEnqueuers
  <2> QED BY <1>h, <2>1 DEF NoLostNotFull
<1>7. ASSUME NEW t \in Threads, SpuriousWakeup(t) PROVE NoLostNotFull'
  <2>1. Waiting' \subseteq Waiting /\ About' = About /\ size' = size
    BY <1>7
       DEF SpuriousWakeup, TypeOK, Enqueuer, Dequeuer,
           WaitingNotFull, AboutToNotifyNotFull, WakingEnqueuers
  <2>2. Waking' = Waking \/ Waking' = Waking \cup {t}
    BY <1>7
       DEF SpuriousWakeup, TypeOK, Enqueuer, Dequeuer,
           WaitingNotFull, AboutToNotifyNotFull, WakingEnqueuers
  <2>3. /\ Cardinality(About) \in Nat /\ Cardinality(Waking) \in Nat
        /\ Cardinality(Waking') \in Nat /\ Cardinality(Waking) <= Cardinality(Waking')
    <3>1. Cardinality(About) \in Nat /\ Cardinality(Waking) \in Nat
      BY <1>0, <1>7, ThreadSets
    <3>2. CASE Waking' = Waking
      BY <3>1, <3>2
    <3>3. CASE Waking' = Waking \cup {t}
      BY <1>0, <1>7, <3>1, <3>3, ThreadSets
    <3> QED BY <2>2, <3>1, <3>2, <3>3
  <2>4. Waiting' # {} => size' <= Cardinality(About') + Cardinality(Waking')
    BY <1>0, <1>h, <2>1, <2>3
  <2> QED BY <2>4 DEF NoLostNotFull
<1>8. ASSUME NEW t \in Threads, Return(t) PROVE NoLostNotFull'
  <2>1. Waiting' = Waiting /\ About' = About /\ Waking' = Waking /\ size' = size
    BY <1>8
       DEF Return, TypeOK, Enqueuer, Dequeuer,
           WaitingNotFull, AboutToNotifyNotFull, WakingEnqueuers
  <2> QED BY <1>h, <2>1 DEF NoLostNotFull
<1>9. CASE UNCHANGED vars
  <2>1. Waiting' = Waiting /\ About' = About /\ Waking' = Waking /\ size' = size
    BY <1>9 DEF vars, Enqueuer, Dequeuer, WaitingNotFull, AboutToNotifyNotFull, WakingEnqueuers
  <2> QED BY <1>h, <2>1 DEF NoLostNotFull
<1>10. CASE Next
  <2>1. PICK t \in Threads :
          \/ \E o \in Ops : Call(t, o)
          \/ Proceed(t) \/ NotifyOne(t)
          \/ Wait(t) \/ GiveUp(t) \/ Expire(t) \/ SpuriousWakeup(t) \/ Return(t)
    BY <1>10 DEF Next
  <2>2. Enqueuer(t) \/ Dequeuer(t)
    BY <1>0
  <2> QED BY <1>1, <1>2, <1>3, <1>4, <1>5, <1>6, <1>7, <1>8, <2>1, <2>2
<1> QED BY <1>9, <1>10

(* For any number of threads and any capacity, no interleaving of the      *)
(* critical sections and the notify_one calls that follow them leaves a    *)
(* thread waiting for an item, or for a slot, that nobody will tell it of. *)
THEOREM WakeupsNotLost == Spec => []NoLostWakeup
<1>1. Init => NoLostWakeup
  BY DEF Init, NoLostWakeup, NoLostNotEmpty, NoLostNotFull, WaitingNotEmpty, WaitingNotFull
<1>2. TypeOK /\ NoLostWakeup /\ [Next]_vars => NoLostWakeup'
  BY NoLostNotEmptyNext, NoLostNotFullNext DEF NoLostWakeup
<1> QED BY <1>1, <1>2, TypeCorrect, PTL DEF Spec

-----------------------------------------------------------------------------
(***************************************************************************)
(* The queue implements BoundedFifo.  A refusal leaves ret as it is, and a *)
(* thread that was timed out does not look at its timeout again, so the    *)
(* step of GiveUp is a refusal only because of these two facts.            *)
(***************************************************************************)
CallState ==
  \A t \in Threads :
    /\ pc[t] \notin {"notify", "return"} => ret[t] = <<>>
    /\ pc[t] = "expired" => op[t].timeout = "Timed"

(* Every step keeps what a program counter says about its call.            *)
LEMMA CallStateNext == TypeOK /\ CallState /\ [Next]_vars => CallState'
<1> SUFFICES ASSUME TypeOK, CallState, [Next]_vars PROVE CallState'
  OBVIOUS
<1> USE DEF TypeOK, CallState
<1>1. ASSUME NEW t \in Threads, NEW o \in Ops, Call(t, o) PROVE CallState'
  BY <1>1 DEF Call
<1>2. ASSUME NEW t \in Threads, Proceed(t) PROVE CallState'
  BY <1>2 DEF Proceed
<1>3. ASSUME NEW t \in Threads, Wait(t) \/ GiveUp(t) \/ SpuriousWakeup(t) \/ Expire(t)
      PROVE  CallState'
  BY <1>3 DEF Wait, GiveUp, SpuriousWakeup, Expire
<1>4. ASSUME NEW t \in Threads, NotifyOne(t) PROVE CallState'
  <2>1. UNCHANGED <<op, ret>>
    BY <1>4 DEF NotifyOne
  <2>2. /\ pc[t] = "notify" /\ pc'[t] \in {"return", "woken"}
        /\ \A u \in Threads \ {t} :
             pc'[u] = pc[u] \/ (pc[u] = "waiting" /\ pc'[u] = "woken")
        /\ pc'[t] = "return"
    BY <1>4 DEF NotifyOne, WaitingNotEmpty, WaitingNotFull
  <2> QED BY <2>1, <2>2
<1>5. ASSUME NEW t \in Threads, Return(t) PROVE CallState'
  BY <1>5 DEF Return
<1>6. CASE UNCHANGED vars
  BY <1>6 DEF vars
<1> QED BY <1>1, <1>2, <1>3, <1>4, <1>5, <1>6 DEF Next

Pending == {"enter", "waiting", "woken", "expired"}

(* What the contract sees of a thread.                                     *)
LEMMA CallOfFacts ==
  ASSUME NEW t \in Threads, pc[t] \in PCs
  PROVE  /\ callOf(t) = "idle" <=> pc[t] = "idle"
         /\ callOf(t) = "pending" <=> pc[t] \in Pending
         /\ callOf(t) = "done" <=> pc[t] \in {"notify", "return"}
BY DEF callOf, PCs, Pending

AbsCall == [t \in Threads |-> callOf(t)]

(* A step of one thread seen through callOf.                               *)
LEMMA AbsCallStep ==
  ASSUME TypeOK, TypeOK', NEW t \in Threads, NEW s \in {"idle", "pending", "done"},
         (callOf(t))' = s,
         \A u \in Threads \ {t} : (callOf(u))' = callOf(u)
  PROVE  AbsCall' = [AbsCall EXCEPT ![t] = s]
BY DEF AbsCall

(* Every step of the host queue is a step of the contract, or none of it.  *)
LEMMA StepSimulation ==
  TypeOK /\ TypeOK' /\ CallState /\ [Next]_vars => [Contract!Next]_(Contract!vars)
<1> SUFFICES ASSUME TypeOK, TypeOK', CallState, [Next]_vars
             PROVE  Contract!Next \/ UNCHANGED <<data, AbsCall, op, ret>>
  BY DEF Contract!vars, AbsCall
<1>p. \A t \in Threads : pc[t] \in PCs /\ pc'[t] \in PCs
  BY DEF TypeOK
<1>c. \A t \in Threads :
         /\ callOf(t) = "idle" <=> pc[t] = "idle"
         /\ callOf(t) = "pending" <=> pc[t] \in Pending
         /\ callOf(t) = "done" <=> pc[t] \in {"notify", "return"}
         /\ callOf(t) \in {"idle", "pending", "done"}
  BY <1>p, CallOfFacts DEF PCs, Pending
<1>d. \A t \in Threads :
         /\ (callOf(t))' = "idle" <=> pc'[t] = "idle"
         /\ (callOf(t))' = "pending" <=> pc'[t] \in Pending
         /\ (callOf(t))' = "done" <=> pc'[t] \in {"notify", "return"}
         /\ (callOf(t))' \in {"idle", "pending", "done"}
  BY <1>p DEF callOf, PCs, Pending
<1>1. ASSUME NEW t \in Threads, NEW o \in Ops, Call(t, o) PROVE Contract!Next
  <2>1. /\ pc[t] = "idle" /\ pc'[t] = "enter"
        /\ \A u \in Threads \ {t} : pc'[u] = pc[u]
        /\ op' = [op EXCEPT ![t] = o] /\ UNCHANGED <<data, ret>>
    BY <1>1 DEF Call, TypeOK
  <2>2. AbsCall' = [AbsCall EXCEPT ![t] = "pending"]
    BY <1>c, <1>d, <2>1, AbsCallStep DEF Pending
  <2>3. Contract!Invoke(t, o)
    BY <1>c, <2>1, <2>2 DEF Contract!Invoke, AbsCall
  <2> QED BY <2>3 DEF Contract!Next, Ops
<1>2. ASSUME NEW t \in Threads, Proceed(t) PROVE Contract!Next
  <2>1. /\ pc[t] \in {"enter", "woken"} /\ pc'[t] = "notify"
        /\ \A u \in Threads \ {t} : pc'[u] = pc[u]
        /\ UNCHANGED op
    BY <1>2 DEF Proceed, TypeOK
  <2>2. AbsCall' = [AbsCall EXCEPT ![t] = "done"]
    BY <1>c, <1>d, <2>1, AbsCallStep DEF Pending
  <2>3. AbsCall[t] = "pending"
    BY <1>c, <2>1 DEF AbsCall, Pending
  <2>4. CASE Enqueuer(t)
    <3>1. Contract!Put(t)
      BY <1>2, <2>1, <2>2, <2>3, <2>4, TestQueueAssumption
         DEF Proceed, Blocked, Enqueuer, Dequeuer, TypeOK,
             Contract!Put, Contract!Full, Contract!Finish, AbsCall
    <3> QED BY <3>1 DEF Contract!Next
  <2>5. CASE ~Enqueuer(t)
    <3>1. Contract!Take(t)
      BY <1>2, <2>1, <2>2, <2>3, <2>5
         DEF Proceed, Blocked, Enqueuer, Dequeuer,
             Contract!Take, Contract!Empty, Contract!Finish, AbsCall
    <3> QED BY <3>1 DEF Contract!Next
  <2> QED BY <2>4, <2>5
<1>3. ASSUME NEW t \in Threads, GiveUp(t) PROVE Contract!Next
  <2>1. /\ pc[t] \in {"enter", "woken", "expired"} /\ pc'[t] = "return"
        /\ \A u \in Threads \ {t} : pc'[u] = pc[u]
        /\ UNCHANGED <<data, op, ret>>
    BY <1>3 DEF GiveUp, TypeOK
  <2>2. AbsCall' = [AbsCall EXCEPT ![t] = "done"]
    BY <1>c, <1>d, <2>1, AbsCallStep DEF Pending
  <2>3. AbsCall[t] = "pending"
    BY <1>c, <2>1 DEF AbsCall, Pending
  <2>4. ret' = [ret EXCEPT ![t] = <<>>]
    BY <2>1 DEF CallState, TypeOK
  <2>5. /\ op[t].timeout # "Forever"
        /\ op[t].timeout = "NoWait" => Blocked(t)
    BY <1>3 DEF GiveUp, CallState
  <2>6. Contract!Refuse(t)
    BY <2>1, <2>2, <2>3, <2>4, <2>5
       DEF Blocked, Enqueuer, Contract!Refuse, Contract!Full, Contract!Empty,
           Contract!Finish, AbsCall
  <2> QED BY <2>6 DEF Contract!Next
<1>4. ASSUME NEW t \in Threads, Return(t) PROVE Contract!Next
  <2>1. /\ pc[t] = "return" /\ pc'[t] = "idle"
        /\ \A u \in Threads \ {t} : pc'[u] = pc[u]
    BY <1>4 DEF Return, TypeOK
  <2>2. AbsCall' = [AbsCall EXCEPT ![t] = "idle"]
    BY <1>c, <1>d, <2>1, AbsCallStep
  <2>3. AbsCall[t] = "done"
    BY <1>c, <2>1 DEF AbsCall
  <2>4. Contract!Return(t)
    BY <1>4, <2>2, <2>3 DEF Return, Contract!Return, AbsCall
  <2> QED BY <2>4 DEF Contract!Next
<1>5. ASSUME NEW t \in Threads,
             Wait(t) \/ NotifyOne(t) \/ SpuriousWakeup(t) \/ Expire(t)
      PROVE  UNCHANGED <<data, AbsCall, op, ret>>
  <2>1. UNCHANGED <<data, op, ret>>
    BY <1>5 DEF Wait, NotifyOne, SpuriousWakeup, Expire
  <2>2. \A u \in Threads :
          \/ pc'[u] = pc[u]
          \/ pc[u] \in Pending /\ pc'[u] \in Pending
          \/ pc[u] = "notify" /\ pc'[u] = "return"
    BY <1>5 DEF Wait, NotifyOne, SpuriousWakeup, Expire, Pending, TypeOK,
                WaitingNotEmpty, WaitingNotFull
  <2>3. \A u \in Threads : (callOf(u))' = callOf(u)
    BY <1>c, <1>d, <2>2
  <2> QED BY <2>1, <2>3 DEF AbsCall
<1>6. CASE UNCHANGED vars
  BY <1>6 DEF vars, AbsCall, callOf
<1> QED BY <1>1, <1>2, <1>3, <1>4, <1>5, <1>6 DEF Next

(* TestArch::queue_enqueue and queue_dequeue implement the queue contract  *)
(* of CspArch for every set of threads and items and every capacity.       *)
THEOREM QueueImplementsContract == Spec => ImplementsContract
<1>1. Init => Contract!Init
  BY DEF Init, Contract!Init, callOf
<1>2. Init => CallState
  BY DEF Init, CallState
<1> QED
  BY <1>1, <1>2, TypeCorrect, CallStateNext, StepSimulation, PTL
     DEF Spec, ImplementsContract, Contract!Spec

-----------------------------------------------------------------------------
(***************************************************************************)
(* The binary semaphores of the same backend, and Embassy's: BinSem.       *)
(***************************************************************************)
(* Where a wait is a loop, the value is 0 or 1; on macOS a token beside    *)
(* sleepers means that somebody is awake.                                  *)
SemInv ==
  /\ backend \in Backends
  /\ backend # "posix" => value \in {0, 1}
  /\ waiter \in [Waiters -> WaitPCs]
  /\ timeout \in [Waiters -> Semaphore!Timeouts]
  /\ \A t \in Waiters : waiter[t] = "expired" => timeout[t] = "Timed"
  /\ NoLostSignal

(* Every step of every backend keeps the invariant.                        *)
LEMMA SemInvNext == SemInv /\ [SemNext]_semVars => SemInv'
<1> SUFFICES ASSUME SemInv, [SemNext]_semVars PROVE SemInv'
  OBVIOUS
<1> USE DEF Goto, WaitPCs, Semaphore!Timeouts
<1>1. backend # "posix" => value \in {0, 1}
  BY DEF SemInv
<1>2. CASE Post
  <2>1. (backend # "posix" => value' = 1) /\ UNCHANGED <<backend, timeout, taken>>
    BY <1>2 DEF Post, Posted
  <2>2. CASE backend = "macos" /\ value = 0 /\ Sleepers # {}
    <3>1. PICK t \in Sleepers : waiter' = [waiter EXCEPT ![t] = "woken"]
      BY <1>2, <2>2 DEF Post
    <3> QED BY <2>1, <3>1 DEF SemInv, NoLostSignal, Sleepers
  <2>3. CASE ~(backend = "macos" /\ value = 0 /\ Sleepers # {})
    <3>1. waiter' = waiter
      BY <1>2, <2>3 DEF Post
    <3>2. (backend = "macos" /\ Sleepers # {}) => \E t \in Waiters : waiter[t] = "woken"
      BY <1>1, <2>3 DEF SemInv, NoLostSignal
    <3> QED BY <2>1, <3>1, <3>2 DEF SemInv, NoLostSignal, Sleepers
  <2> QED BY <2>2, <2>3
<1>3. ASSUME NEW t \in Waiters, NEW d \in Semaphore!Timeouts, CallWait(t, d) PROVE SemInv'
  BY <1>3 DEF CallWait, SemInv, NoLostSignal, Sleepers
<1>4. ASSUME NEW t \in Waiters, Acquire(t) PROVE SemInv'
  BY <1>1, <1>4 DEF Acquire, SemInv, NoLostSignal, Sleepers
<1>5. ASSUME NEW t \in Waiters, Miss(t) \/ Retry(t) \/ ExpireWait(t) \/ GiveUpWait(t)
      PROVE  SemInv'
  BY <1>5 DEF Miss, Retry, ExpireWait, GiveUpWait, SemInv, NoLostSignal, Sleepers
<1>6. ASSUME NEW t \in Waiters, ReturnWait(t) \/ SpuriousCondWakeup(t) PROVE SemInv'
  BY <1>6 DEF ReturnWait, SpuriousCondWakeup, SemInv, NoLostSignal, Sleepers
<1>7. CASE UNCHANGED semVars
  BY <1>7 DEF semVars, SemInv, NoLostSignal, Sleepers
<1> QED BY <1>2, <1>3, <1>4, <1>5, <1>6, <1>7 DEF SemNext

(* csp_bin_sem_init has created and posted the semaphore.                  *)
LEMMA SemInvInit == SemInit => SemInv
BY DEF SemInit, SemInv, Posted, WaitPCs, Semaphore!Timeouts, NoLostSignal, Sleepers

(* On macOS a posted token never lies beside sleepers with nobody awake to *)
(* look for it, though post signals on the way from 0 to 1 only.           *)
THEOREM SignalsNotLost == SemSpec => []NoLostSignal
<1>1. SemInv => NoLostSignal
  BY DEF SemInv
<1> QED BY <1>1, SemInvInit, SemInvNext, PTL DEF SemSpec

(* What the contract sees of a wait.                                       *)
Seen(s) == IF s \in {"idle", "done"} THEN s ELSE "pending"

(* A wait that goes on to s goes on to what the contract sees of s.        *)
LEMMA SeenGoto ==
  ASSUME waiter \in [Waiters -> WaitPCs], NEW t \in Waiters, NEW s \in WaitPCs,
         waiter' = [waiter EXCEPT ![t] = s]
  PROVE  [u \in Waiters |-> waitOf(u)]' = [[u \in Waiters |-> waitOf(u)] EXCEPT ![t] = Seen(s)]
BY DEF waitOf, Seen, WaitPCs

(* The macOS and Embassy semaphores implement the binary semaphore that    *)
(* libcsp expects: one token to begin with, one success per token, and no  *)
(* wait-forever call that fails.  (The POSIX backend does not.)            *)
THEOREM SemaphoresAreBinary ==
  "posix" \notin Backends /\ SemSpec => ImplementsBinarySemaphore
<1> DEFINE H == "posix" \notin Backends
           C == [u \in Waiters |-> waitOf(u)]
<1>1. SemInit => Semaphore!Init
  <2> SUFFICES ASSUME SemInit PROVE Semaphore!Init
    OBVIOUS
  <2>1. value > 0
    BY DEF SemInit, Posted, CreatedValue
  <2>2. C = [t \in Waiters |-> "idle"]
    BY DEF SemInit, waitOf
  <2> QED BY <2>1, <2>2 DEF SemInit, Semaphore!Init
<1>2. H /\ SemInv /\ [SemNext]_semVars => [Semaphore!Next]_(Semaphore!vars)
  <2> SUFFICES ASSUME H, SemInv, [SemNext]_semVars
               PROVE  [Semaphore!Next]_(Semaphore!vars)
    OBVIOUS
  <2>1. backend \in Backends /\ backend # "posix" /\ value \in {0, 1} /\ waiter \in [Waiters -> WaitPCs]
    BY DEF SemInv
  <2>2. \A t \in Waiters : waiter[t] \in WaitPCs /\ C[t] = Seen(waiter[t])
    BY <2>1 DEF waitOf, Seen, WaitPCs
  <2>3. CASE Post
    <3>1. value' = 1 /\ UNCHANGED <<timeout, taken>>
      BY <2>1, <2>3 DEF Post, Posted
    <3>2. C' = C
      <4>1. CASE waiter' = waiter
        BY <4>1 DEF waitOf
      <4>2. ASSUME NEW t \in Waiters, waiter[t] = "waiting", waiter' = [waiter EXCEPT ![t] = "woken"]
            PROVE  C' = C
        BY <2>1, <4>2 DEF waitOf, WaitPCs
      <4> QED BY <2>3, <4>1, <4>2 DEF Post, Sleepers, Goto
    <3>3. (value > 0)' = TRUE
      BY <3>1
    <3> QED BY <3>1, <3>2, <3>3 DEF Semaphore!Next, Semaphore!Post
  <2>4. ASSUME NEW t \in Waiters, NEW d \in Semaphore!Timeouts, CallWait(t, d)
        PROVE  Semaphore!Next
    <3>1. /\ waiter[t] = "idle" /\ waiter' = [waiter EXCEPT ![t] = "enter"]
          /\ timeout' = [timeout EXCEPT ![t] = d] /\ UNCHANGED <<value, taken>>
      BY <2>4 DEF CallWait, Goto
    <3>2. C[t] = "idle" /\ C' = [C EXCEPT ![t] = "pending"]
      BY <2>1, <2>2, <3>1, SeenGoto DEF Seen, WaitPCs
    <3>3. (value > 0)' = (value > 0)
      BY <3>1
    <3>4. Semaphore!Invoke(t, d)
      BY <3>1, <3>2, <3>3 DEF Semaphore!Invoke
    <3> QED BY <3>4 DEF Semaphore!Next
  <2>5. ASSUME NEW t \in Waiters, Acquire(t)
        PROVE  Semaphore!Next
    <3>1. /\ waiter[t] \in {"enter", "woken"} /\ waiter' = [waiter EXCEPT ![t] = "done"]
          /\ value > 0 /\ value' = 0
          /\ taken' = [taken EXCEPT ![t] = TRUE] /\ UNCHANGED timeout
      BY <2>1, <2>5 DEF Acquire, Goto
    <3>2. C[t] = "pending" /\ C' = [C EXCEPT ![t] = "done"]
      BY <2>1, <2>2, <3>1, SeenGoto DEF Seen, WaitPCs
    <3>3. (value > 0)' = FALSE
      BY <3>1
    <3>4. Semaphore!Acquire(t)
      BY <3>1, <3>2, <3>3 DEF Semaphore!Acquire
    <3> QED BY <3>4 DEF Semaphore!Next
  <2>6. ASSUME NEW t \in Waiters, NEW s \in WaitPCs, waiter[t] \notin {"idle", "done"},
               s \notin {"idle", "done"}, waiter' = [waiter EXCEPT ![t] = s],
               UNCHANGED <<value, timeout, taken>>
        PROVE  UNCHANGED Semaphore!vars
    <3>1. C[t] = "pending" /\ C' = [C EXCEPT ![t] = "pending"]
      BY <2>1, <2>2, <2>6, SeenGoto DEF Seen
    <3>2. C' = C
      BY <3>1
    <3>3. (value > 0)' = (value > 0)
      BY <2>6
    <3> QED BY <2>6, <3>2, <3>3 DEF Semaphore!vars
  <2>7. ASSUME NEW t \in Waiters, Miss(t) \/ Retry(t) \/ SpuriousCondWakeup(t)
        PROVE  UNCHANGED Semaphore!vars
    BY <2>6, <2>7 DEF Miss, Retry, SpuriousCondWakeup, Goto, WaitPCs
  <2>8. ASSUME NEW t \in Waiters, waiter[t] \in {"missed", "waiting", "expired"}, timeout[t] = "Timed",
               waiter' = [waiter EXCEPT ![t] = "done"], UNCHANGED <<value, timeout, taken>>
        PROVE  Semaphore!Next
    <3>1. C[t] = "pending" /\ C' = [C EXCEPT ![t] = "done"]
      BY <2>1, <2>2, <2>8, SeenGoto DEF Seen, WaitPCs
    <3>2. (value > 0)' = (value > 0)
      BY <2>8
    <3>3. Semaphore!TimeOut(t)
      BY <2>8, <3>1, <3>2 DEF Semaphore!TimeOut
    <3> QED BY <3>3 DEF Semaphore!Next
  <2>9. ASSUME NEW t \in Waiters, ExpireWait(t)
        PROVE  [Semaphore!Next]_(Semaphore!vars)
    <3>1. CASE backend = "macos"
      BY <2>6, <2>9, <3>1 DEF ExpireWait, Goto, WaitPCs
    <3>2. CASE backend # "macos"
      BY <2>8, <2>9, <3>2 DEF ExpireWait, Goto
    <3> QED BY <3>1, <3>2
  <2>10. ASSUME NEW t \in Waiters, GiveUpWait(t)
         PROVE  Semaphore!Next
    BY <2>8, <2>10 DEF GiveUpWait, Goto, SemInv
  <2>11. ASSUME NEW t \in Waiters, ReturnWait(t)
         PROVE  Semaphore!Next
    <3>1. /\ waiter[t] = "done" /\ waiter' = [waiter EXCEPT ![t] = "idle"]
          /\ timeout' = [timeout EXCEPT ![t] = "Forever"] /\ taken' = [taken EXCEPT ![t] = FALSE]
          /\ UNCHANGED value
      BY <2>11 DEF ReturnWait, Goto
    <3>2. C[t] = "done" /\ C' = [C EXCEPT ![t] = "idle"]
      BY <2>1, <2>2, <3>1, SeenGoto DEF Seen, WaitPCs
    <3>3. (value > 0)' = (value > 0)
      BY <3>1
    <3>4. Semaphore!Return(t)
      BY <3>1, <3>2, <3>3 DEF Semaphore!Return
    <3> QED BY <3>4 DEF Semaphore!Next
  <2>12. CASE UNCHANGED semVars
    <3>1. C' = C /\ (value > 0)' = (value > 0) /\ UNCHANGED <<timeout, taken>>
      BY <2>12 DEF semVars, waitOf
    <3> QED BY <3>1 DEF Semaphore!vars
  <2> HIDE DEF H, C
  <2> QED BY <2>3, <2>4, <2>5, <2>7, <2>9, <2>10, <2>11, <2>12 DEF SemNext
<1>3. H => H'
  OBVIOUS
<1> HIDE DEF H
<1>4. H /\ SemSpec => Semaphore!Spec
  BY <1>1, <1>2, <1>3, SemInvInit, SemInvNext, PTL DEF SemSpec, Semaphore!Spec
<1> QED BY <1>4 DEF H, ImplementsBinarySemaphore

-----------------------------------------------------------------------------
(***************************************************************************)
(* The start of a thread: ThreadStart.                                     *)
(***************************************************************************)
(* The calls of csp_thread_create that have stored their function, each    *)
(* once; THREAD_ENTRY_POINT has the last of them.                          *)
StoresInv ==
  /\ stores \in Seq(Calls)
  /\ creator \in [Calls -> {"idle", "stored", "locked", "inserted", "returned"}]
  /\ entry = IF stores = << >> THEN None ELSE stores[Len(stores)]
  /\ \A i, j \in 1..Len(stores) : stores[i] = stores[j] => i = j
  /\ \A i \in 1..Len(stores) : creator[stores[i]] # "idle"
  /\ \A c \in Calls : creator[c] # "idle" => \E i \in 1..Len(stores) : stores[i] = c

(* A thread exists once its creator has put the wrapper in the map, and    *)
(* what it runs was stored no earlier than its own function.               *)
StartInv ==
  /\ thread \in [Calls -> {"none", "spawned", "holding", "running", "ended"}]
  /\ ran \in [Calls -> Calls \cup {None}]
  /\ \A c \in Calls : creator[c] \in {"inserted", "returned"} => known
  /\ \A c \in Calls : thread[c] # "none" => creator[c] = "returned"
  /\ \A c \in Calls : thread[c] \in {"running", "ended"} =>
       \E i, j \in 1..Len(stores) : i <= j /\ stores[i] = c /\ stores[j] = ran[c]

ThrInv == StoresInv /\ StartInv

(* Every step of a creator and of a new thread keeps the invariant.        *)
LEMMA ThrNext == ThrInv /\ [StartNext]_startVars => ThrInv'
<1> SUFFICES ASSUME StoresInv, StartInv, [StartNext]_startVars
             PROVE  ThrInv'
  BY DEF ThrInv
<1>0. None \notin Calls
  BY ThreadStartAssumption
<1>1. Len(stores) \in Nat /\ \A i \in 1..Len(stores) : stores[i] \in Calls
  BY DEF StoresInv
<1>2. ASSUME NEW c \in Calls, StoreEntry(c) PROVE StoresInv' /\ StartInv'
  <2> DEFINE n == Len(stores)
  <2>1. /\ creator[c] = "idle" /\ entry' = c /\ stores' = Append(stores, c)
        /\ creator' = [creator EXCEPT ![c] = "stored"]
        /\ UNCHANGED <<known, lock, thread, ran>>
    BY <1>2 DEF StoreEntry
  <2>2. /\ stores' \in Seq(Calls) /\ Len(stores') = n + 1 /\ stores' # << >>
        /\ stores'[n + 1] = c
        /\ \A i \in 1..n : stores'[i] = stores[i]
    BY <2>1 DEF StoresInv
  <2>3. \A i \in 1..n+1 : i \in 1..n \/ i = n + 1
    BY <1>1
  <2>4. n + 1 \in 1..n+1 /\ \A i \in 1..n : i \in 1..n+1
    BY <1>1
  <2>5. \A i \in 1..n : stores[i] # c
    BY <2>1 DEF StoresInv
  <2> HIDE DEF n
  <2>6. StoresInv'
    <3>1. \A i, j \in 1..n+1 : stores'[i] = stores'[j] => i = j
      BY <2>2, <2>3, <2>5 DEF StoresInv, n
    <3>2. \A i \in 1..n+1 : creator'[stores'[i]] # "idle"
      <4> SUFFICES ASSUME NEW i \in 1..n+1 PROVE creator'[stores'[i]] # "idle"
        OBVIOUS
      <4>1. CASE i = n + 1
        BY <2>1, <2>2, <4>1 DEF StoresInv
      <4>2. CASE i \in 1..n
        BY <1>1, <2>1, <2>2, <2>5, <4>2 DEF StoresInv, n
      <4> QED BY <2>3, <4>1, <4>2
    <3>3. ASSUME NEW e \in Calls, creator'[e] # "idle" PROVE \E i \in 1..n+1 : stores'[i] = e
      <4>1. CASE e = c
        BY <2>2, <2>4, <4>1
      <4>2. CASE e # c
        <5>1. PICK i \in 1..n : stores[i] = e
          BY <2>1, <3>3, <4>2 DEF StoresInv, n
        <5> QED BY <2>2, <2>4, <5>1
      <4> QED BY <4>1, <4>2
    <3>4. creator' \in [Calls -> {"idle", "stored", "locked", "inserted", "returned"}]
      BY <2>1 DEF StoresInv
    <3>5. entry' = stores'[Len(stores')]
      BY <2>1, <2>2
    <3> QED BY <2>2, <3>1, <3>2, <3>3, <3>4, <3>5 DEF StoresInv
  <2>7. ASSUME NEW e \in Calls, thread'[e] \in {"running", "ended"}
        PROVE  \E i, j \in 1..n+1 : i <= j /\ stores'[i] = e /\ stores'[j] = ran'[e]
    <3>1. PICK i, j \in 1..n : i <= j /\ stores[i] = e /\ stores[j] = ran[e]
      BY <2>1, <2>7 DEF StartInv, n
    <3> QED BY <2>1, <2>2, <2>4, <3>1
  <2>8. \A e \in Calls : thread[e] # "none" => e # c
    BY <2>1 DEF StartInv
  <2>9. \A e \in Calls : creator'[e] \in {"inserted", "returned"} => known'
    BY <2>1 DEF StartInv, StoresInv
  <2>10. \A e \in Calls : thread'[e] # "none" => creator'[e] = "returned"
    BY <2>1, <2>8 DEF StartInv, StoresInv
  <2> QED BY <2>1, <2>2, <2>6, <2>7, <2>9, <2>10 DEF StartInv
<1>3. ASSUME NEW c \in Calls, LockMap(c) \/ InsertAndUnlock(c) PROVE StoresInv' /\ StartInv'
  BY <1>1, <1>3 DEF LockMap, InsertAndUnlock, StoresInv, StartInv
<1>4. ASSUME NEW c \in Calls, PthreadCreate(c) PROVE StoresInv' /\ StartInv'
  <2>1. StoresInv'
    BY <1>1, <1>4 DEF PthreadCreate, StoresInv
  <2>2. StartInv'
    BY <1>1, <1>4 DEF PthreadCreate, StoresInv, StartInv
  <2> QED BY <2>1, <2>2
<1>5. ASSUME NEW c \in Calls, WrapperLocks(c) PROVE StoresInv' /\ StartInv'
  BY <1>5 DEF WrapperLocks, StoresInv, StartInv
<1>6. ASSUME NEW c \in Calls, WrapperRuns(c) PROVE StoresInv' /\ StartInv'
  <2>1. thread[c] = "holding" /\ UNCHANGED <<entry, known, creator, stores>>
    BY <1>6 DEF WrapperRuns
  <2>2. creator[c] = "returned" /\ known
    BY <2>1 DEF StartInv
  <2>3. PICK i \in 1..Len(stores) : stores[i] = c
    BY <2>2 DEF StoresInv
  <2>4. /\ Len(stores) \in 1..Len(stores) /\ i <= Len(stores) /\ stores # << >>
        /\ entry = stores[Len(stores)]
    BY <1>1, <2>3 DEF StoresInv
  <2>5. entry \in Calls /\ entry # None
    BY <1>0, <1>1, <2>4
  <2>6. /\ ran' = [ran EXCEPT ![c] = entry]
        /\ thread' = [thread EXCEPT ![c] = "running"]
    BY <1>6, <2>2, <2>5 DEF WrapperRuns
  <2>7. StoresInv'
    BY <2>1 DEF StoresInv
  <2>8. \A e \in Calls : thread'[e] \in {"running", "ended"} =>
          \E k, j \in 1..Len(stores) : k <= j /\ stores[k] = e /\ stores[j] = ran'[e]
    BY <2>3, <2>4, <2>6 DEF StartInv
  <2>9. thread' \in [Calls -> {"none", "spawned", "holding", "running", "ended"}]
        /\ ran' \in [Calls -> Calls \cup {None}]
    BY <2>5, <2>6 DEF StartInv
  <2>10. \A e \in Calls : thread'[e] # "none" => creator[e] = "returned"
    BY <2>2, <2>6 DEF StartInv
  <2> QED BY <2>1, <2>7, <2>8, <2>9, <2>10 DEF StartInv
<1>7. ASSUME NEW c \in Calls, FunctionReturns(c) PROVE StoresInv' /\ StartInv'
  BY <1>7 DEF FunctionReturns, StoresInv, StartInv
<1>8. ASSUME UNCHANGED startVars PROVE StoresInv' /\ StartInv'
  BY <1>8 DEF startVars, StoresInv, StartInv
<1>9. StoresInv' /\ StartInv'
  BY <1>2, <1>3, <1>4, <1>5, <1>6, <1>7, <1>8 DEF StartNext, Create, Run
<1> QED BY <1>9 DEF ThrInv

(* Nothing is stored and no thread exists.                                 *)
LEMMA ThrInit == StartInit => ThrInv
<1> SUFFICES ASSUME StartInit PROVE ThrInv
  OBVIOUS
<1>1. stores \in Seq(Calls) /\ Len(stores) = 0
  BY DEF StartInit
<1> QED BY <1>1 DEF StartInit, ThrInv, StoresInv, StartInv

(* A call's place in the order of the stores.                              *)
LEMMA PlaceOfStore ==
  ASSUME StoresInv, NEW i \in 1..Len(stores), NEW c, stores[i] = c
  PROVE  StoredAt(c) = i
<1> DEFINE I == {k \in 1..Len(stores) : stores[k] = c}
<1>1. StoredAt(c) = IF I # {} THEN Min(I) ELSE 0
  BY DEF StoredAt, SelectInSeq
<1>2. I = {i}
  BY DEF StoresInv
<1>3. Min({i}) = i
  BY DEF Min
<1> QED BY <1>1, <1>2, <1>3

(* A thread that csp_thread_create started runs a function, and one stored *)
(* to THREAD_ENTRY_POINT no earlier than its own, however the calls and    *)
(* the threads overlap.                                                    *)
THEOREM FunctionsAreNoOlder == StartSpec => []NeverAnOlderFunction
<1>1. ThrInv => NeverAnOlderFunction
  <2> SUFFICES ASSUME ThrInv, NEW c \in Calls, thread[c] \in {"running", "ended"}
               PROVE  ran[c] # None /\ StoredAt(ran[c]) >= StoredAt(c)
    BY DEF NeverAnOlderFunction
  <2>1. PICK i, j \in 1..Len(stores) : i <= j /\ stores[i] = c /\ stores[j] = ran[c]
    BY DEF ThrInv, StartInv
  <2>2. StoredAt(c) = i /\ StoredAt(ran[c]) = j
    BY <2>1, PlaceOfStore DEF ThrInv
  <2>3. stores[j] \in Calls
    BY <2>1 DEF ThrInv, StoresInv
  <2> QED BY <2>1, <2>2, <2>3, ThreadStartAssumption
<1> QED BY <1>1, ThrInit, ThrNext, PTL DEF StartSpec

-----------------------------------------------------------------------------
(***************************************************************************)
(* Mutexes.                                                                *)
(***************************************************************************)

(* A pthread mutex has one holder.  On Embassy's one core, who holds a     *)
(* mutex and has not unlocked another meanwhile runs with interrupts off.  *)
MutexInv ==
  /\ MutexTypeOK
  /\ ~Embassy => \A t, u \in Contexts : t # u => held[t] \cap held[u] = {}
  /\ Embassy => \A t \in Contexts : held[t] # {} /\ t \notin exposed => masked /\ running = t

(* However threads lock and unlock, and an interrupt switches, no two hold *)
(* a mutex at once, unless on Embassy one of them unlocked a mutex inside  *)
(* another: for any threads and mutexes.                                   *)
THEOREM MutexesExclude == MutexSpec => []MutexExcludes
<1>1. MutexInit => MutexInv
  BY DEF MutexInit, MutexInv, MutexTypeOK
<1>2. MutexInv /\ [MutexNext]_mutexVars => MutexInv'
  <2> SUFFICES ASSUME MutexInv, [MutexNext]_mutexVars PROVE MutexInv'
    OBVIOUS
  <2> USE DEF MutexInv, MutexTypeOK, Embassy
  <2>1. ASSUME NEW m \in Mutexes, MutexCreate(m) PROVE MutexInv'
    <3>1. held' \in [Contexts -> SUBSET made']
      BY <2>1 DEF MutexCreate
    <3> QED BY <2>1, <3>1 DEF MutexCreate
  <2>2. ASSUME NEW m \in Mutexes, MutexRemove(m) PROVE MutexInv'
    <3>1. held' \in [Contexts -> SUBSET made']
      BY <2>2 DEF MutexRemove, Free
    <3> QED BY <2>2, <3>1 DEF MutexRemove
  <2>3. ASSUME NEW m \in Mutexes, NEW t \in Contexts, MutexLock(t, m) PROVE MutexInv'
    <3>1. held' \in [Contexts -> SUBSET made'] /\ masked' \in BOOLEAN
      BY <2>3 DEF MutexLock
    <3>2. held'[t] = held[t] \cup {m} /\ \A u \in Contexts : u # t => held'[u] = held[u]
      BY <2>3 DEF MutexLock
    <3>3. CASE Embassy
      BY <2>3, <3>1, <3>2, <3>3 DEF MutexLock, Runs
    <3>4. CASE ~Embassy
      <4>1. \A u \in Contexts : m \notin held[u]
        BY <2>3, <3>4 DEF MutexLock, Free
      <4> QED BY <2>3, <3>1, <3>2, <3>4, <4>1 DEF MutexLock
    <3> QED BY <3>3, <3>4
  <2>4. ASSUME NEW m \in Mutexes, NEW t \in Contexts, MutexUnlock(t, m) PROVE MutexInv'
    <3>1. held' \in [Contexts -> SUBSET made'] /\ exposed' \subseteq Contexts
      BY <2>4 DEF MutexUnlock
    <3>2. held'[t] = held[t] \ {m} /\ \A u \in Contexts : u # t => held'[u] = held[u]
      BY <2>4 DEF MutexUnlock
    <3>3. CASE Embassy
      <4>1. \A u \in Contexts : u # t => held[u] = {} \/ u \in exposed
        BY <2>4, <3>3 DEF MutexUnlock, Runs
      <4>2. held'[t] = {} \/ t \in exposed'
        BY <2>4, <3>2 DEF MutexUnlock
      <4>3. \A u \in Contexts : u # t /\ u \in exposed => u \in exposed'
        BY <2>4 DEF MutexUnlock
      <4>4. \A u \in Contexts : held'[u] = {} \/ u \in exposed'
        BY <3>2, <4>1, <4>2, <4>3
      <4> QED BY <2>4, <3>1, <3>3, <4>4 DEF MutexUnlock
    <3>4. CASE ~Embassy
      BY <2>4, <3>1, <3>2, <3>4 DEF MutexUnlock
    <3> QED BY <3>3, <3>4
  <2>5. ASSUME NEW t \in Contexts, Preempt(t) PROVE MutexInv'
    BY <2>5 DEF Preempt
  <2>6. CASE UNCHANGED mutexVars
    BY <2>6 DEF mutexVars
  <2> QED BY <2>1, <2>2, <2>3, <2>4, <2>5, <2>6 DEF MutexNext
<1>3. MutexInv => MutexExcludes
  BY DEF MutexInv, MutexExcludes
<1> QED BY <1>1, <1>2, <1>3, PTL DEF MutexSpec
=============================================================================
