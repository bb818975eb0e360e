----------------------------- MODULE TestQueue -----------------------------
(***************************************************************************)
(* The host backend's queue (src/src/arch/test_arch.rs): a VecDeque behind *)
(* a Mutex, with two condition variables, not_empty and not_full.          *)
(*                                                                         *)
(* The data is only touched with the mutex held, so each critical section  *)
(* is one step: it ends when the guard is dropped, or inside               *)
(* Condvar::wait, which releases the mutex and starts waiting atomically.  *)
(* The notification comes after drop(data), so it is a step of its own and *)
(* other threads run in between.  A waiter leaves a condition variable     *)
(* because it was notified, spuriously, or because its time is up; it      *)
(* holds nothing until it has reacquired the mutex.                        *)
(***************************************************************************)
EXTENDS Integers, Sequences, FiniteSets

CONSTANTS
  Threads,   \* the callers of the queue
  Items,     \* the items queued
  Capacity,  \* TestQueue.max_len
  MaxCalls   \* bound: per thread, how many calls it makes

ASSUME TestQueueAssumption ==
  /\ IsFiniteSet(Threads)
  /\ Capacity \in Nat \ {0}
  /\ MaxCalls \in [Threads -> Nat]

VARIABLES
  data,      \* TestQueue.data: the items, front first
  pc,        \* per thread: where it is in queue_enqueue or queue_dequeue
  op,        \* per thread: the arguments of its call
  ret,       \* per thread: <<>> while false, <<item>> for true
  calls      \* per thread: calls made (for the bound only)

vars == <<data, pc, op, ret, calls>>

(***************************************************************************)
(* "enter": before data.lock(); "waiting": in the condition variable;      *)
(* "woken": notified or woken spuriously, reacquiring the mutex;           *)
(* "expired": wait_timeout timed out, reacquiring the mutex; "notify":     *)
(* mutex released, about to call notify_one; "return": result known.       *)
(***************************************************************************)
PCs == {"idle", "enter", "waiting", "woken", "expired", "notify", "return"}

(* The contract of the trait, with every point between the invocation and  *)
(* the decisive critical section seen as "pending".                        *)
callOf(t) ==
  CASE pc[t] = "idle" -> "idle"
    [] pc[t] \in {"enter", "waiting", "woken", "expired"} -> "pending"
    [] pc[t] \in {"notify", "return"} -> "done"

Contract == INSTANCE BoundedFifo
              WITH items <- data, call <- [t \in Threads |-> callOf(t)]

Ops == Contract!Ops

TypeOK ==
  /\ data \in Seq(Items) /\ Len(data) <= Capacity
  /\ pc \in [Threads -> PCs]
  /\ op \in [Threads -> Ops]
  /\ ret \in [Threads -> Contract!Results]
  /\ calls \in [Threads -> Nat] /\ \A t \in Threads : calls[t] <= MaxCalls[t]

Enqueuer(t) == op[t].kind = "enqueue"
Dequeuer(t) == op[t].kind = "dequeue"

(* The loop condition of each operation: it cannot proceed now.            *)
Blocked(t) == IF Enqueuer(t) THEN Len(data) >= Capacity ELSE data = <<>>

(* The threads inside not_full.wait and not_empty.wait.                    *)
WaitingNotFull  == {t \in Threads : pc[t] = "waiting" /\ Enqueuer(t)}
WaitingNotEmpty == {t \in Threads : pc[t] = "waiting" /\ Dequeuer(t)}

-----------------------------------------------------------------------------
(* queue_create: an empty queue; no call has been made.                    *)
Init ==
  /\ data = <<>>
  /\ pc = [t \in Threads |-> "idle"]
  /\ op = [t \in Threads |-> Contract!NoCall]
  /\ ret = [t \in Threads |-> <<>>]
  /\ calls = [t \in Threads |-> 0]

Call(t, o) ==
  /\ pc[t] = "idle"
  /\ calls[t] < MaxCalls[t]
  /\ pc' = [pc EXCEPT ![t] = "enter"]
  /\ op' = [op EXCEPT ![t] = o]
  /\ calls' = [calls EXCEPT ![t] = @ + 1]
  /\ UNCHANGED <<data, ret>>

(* Mutant: the wait not in a loop, so that a woken thread does not look at *)
(* the queue again; pop_front then finds nothing and the call returns      *)
(* false.                                                                  *)
Proceed_NoLoop(t) ==
  /\ pc[t] \in {"enter", "woken"}
  /\ pc[t] = "enter" => ~Blocked(t)
  /\ \/ /\ Enqueuer(t)
        /\ data' = Append(data, op[t].item)
        /\ ret' = [ret EXCEPT ![t] = <<op[t].item>>]
        /\ pc' = [pc EXCEPT ![t] = "notify"]
     \/ /\ Dequeuer(t)
        /\ data' = IF data = <<>> THEN data ELSE Tail(data)
        /\ ret' = [ret EXCEPT ![t] = IF data = <<>> THEN <<>> ELSE <<Head(data)>>]
        /\ pc' = [pc EXCEPT ![t] = IF data = <<>> THEN "return" ELSE "notify"]
  /\ UNCHANGED <<op, calls>>

(* With the mutex held and the loop condition false: push_back or          *)
(* pop_front, then drop(data).                                             *)
Proceed(t) ==
  /\ pc[t] \in {"enter", "woken"}
  /\ ~Blocked(t)
  /\ \/ /\ Enqueuer(t)
        /\ data' = Append(data, op[t].item)
        /\ ret' = [ret EXCEPT ![t] = <<op[t].item>>]
     \/ /\ Dequeuer(t)
        /\ data' = Tail(data)
        /\ ret' = [ret EXCEPT ![t] = <<Head(data)>>]
  /\ pc' = [pc EXCEPT ![t] = "notify"]
  /\ UNCHANGED <<op, calls>>

(* With the loop condition true: wait, or wait_timeout for what is left of *)
(* the deadline.                                                           *)
Wait(t) ==
  /\ pc[t] \in {"enter", "woken"}
  /\ Blocked(t)
  /\ op[t].timeout # "NoWait"
  /\ pc' = [pc EXCEPT ![t] = "waiting"]
  /\ UNCHANGED <<data, op, ret, calls>>

(* The early returns: the operation may not wait and cannot proceed, its   *)
(* deadline has passed (now >= deadline) and it still cannot proceed, or   *)
(* wait_timeout reported timed_out, in which case the queue is not looked  *)
(* at again.  The guard is dropped on return.                              *)
GiveUp(t) ==
  /\ \/ /\ pc[t] \in {"enter", "woken"}
        /\ Blocked(t)
        /\ op[t].timeout # "Forever"
     \/ pc[t] = "expired"
  /\ pc' = [pc EXCEPT ![t] = "return"]
  /\ UNCHANGED <<data, op, ret, calls>>

(* Mutant: each operation notifies the condition variable it waits on.     *)
NotifyOne_SameSide(t) ==
  LET waiters == IF Enqueuer(t) THEN WaitingNotFull ELSE WaitingNotEmpty
  IN  /\ pc[t] = "notify"
      /\ \/ waiters = {} /\ pc' = [pc EXCEPT ![t] = "return"]
         \/ \E w \in waiters : pc' = [pc EXCEPT ![t] = "return", ![w] = "woken"]
      /\ UNCHANGED <<data, op, ret, calls>>

(* Mutant: notify only on the transition from empty, or from full.         *)
NotifyOne_OnEdge(t) ==
  LET edge == IF Enqueuer(t) THEN Len(data) = 1 ELSE Len(data) = Capacity - 1
      waiters == IF Enqueuer(t) THEN WaitingNotEmpty ELSE WaitingNotFull
  IN  /\ pc[t] = "notify"
      /\ \/ (waiters = {} \/ ~edge) /\ pc' = [pc EXCEPT ![t] = "return"]
         \/ edge /\ \E w \in waiters : pc' = [pc EXCEPT ![t] = "return", ![w] = "woken"]
      /\ UNCHANGED <<data, op, ret, calls>>

(* notify_one on the other side's condition variable: one of its waiters,  *)
(* if there is one, is woken.                                              *)
NotifyOne(t) ==
  LET waiters == IF Enqueuer(t) THEN WaitingNotEmpty ELSE WaitingNotFull
  IN  /\ pc[t] = "notify"
      /\ \/ /\ waiters = {}
            /\ pc' = [pc EXCEPT ![t] = "return"]
         \/ \E w \in waiters :
              pc' = [pc EXCEPT ![t] = "return", ![w] = "woken"]
      /\ UNCHANGED <<data, op, ret, calls>>

(* A spurious wakeup: std documents that wait and wait_timeout have them.  *)
SpuriousWakeup(t) ==
  /\ pc[t] = "waiting"
  /\ pc' = [pc EXCEPT ![t] = "woken"]
  /\ UNCHANGED <<data, op, ret, calls>>

(* Mutant: the result of wait_timeout ignored.                             *)
Expire_AsWakeup(t) ==
  /\ pc[t] = "waiting"
  /\ op[t].timeout = "Timed"
  /\ pc' = [pc EXCEPT ![t] = "woken"]
  /\ UNCHANGED <<data, op, ret, calls>>

(* wait_timeout's time is up before any notification.                      *)
Expire(t) ==
  /\ pc[t] = "waiting"
  /\ op[t].timeout = "Timed"
  /\ pc' = [pc EXCEPT ![t] = "expired"]
  /\ UNCHANGED <<data, op, ret, calls>>

Return(t) ==
  /\ pc[t] = "return"
  /\ pc' = [pc EXCEPT ![t] = "idle"]
  /\ op' = [op EXCEPT ![t] = Contract!NoCall]
  /\ ret' = [ret EXCEPT ![t] = <<>>]
  /\ UNCHANGED <<data, calls>>

(* What a thread does by itself once it has been scheduled.                *)
Step(t) == Proceed(t) \/ Wait(t) \/ GiveUp(t) \/ NotifyOne(t) \/ Return(t)

Next ==
  \E t \in Threads :
    \/ \E o \in Ops : Call(t, o)
    \/ Proceed(t)
    \/ Wait(t)
    \/ GiveUp(t)
    \/ NotifyOne(t)
    \/ SpuriousWakeup(t)
    \/ Expire(t)
    \/ Return(t)

Spec == Init /\ [][Next]_vars

(***************************************************************************)
(* A thread that can run does, and gets the mutex eventually: the number   *)
(* of calls is bounded, so nobody contends for it forever.  The deadline   *)
(* of a timed call is absolute and the clock monotonic, so a thread that   *)
(* keeps going back to wait_timeout is timed out at last (strong           *)
(* fairness).  Nothing forces a call or a spurious wakeup.                 *)
(***************************************************************************)
FairSpec ==
  /\ Spec
  /\ \A t \in Threads : WF_vars(Step(t)) /\ SF_vars(Expire(t))

-----------------------------------------------------------------------------
(***************************************************************************)
(* Properties                                                              *)
(***************************************************************************)

(* Dequeuers woken but not yet running again, and enqueuers that have      *)
(* pushed and not yet called not_empty.notify_one; and the reverse.        *)
WakingDequeuers == {t \in Threads : pc[t] = "woken" /\ Dequeuer(t)}
WakingEnqueuers == {t \in Threads : pc[t] = "woken" /\ Enqueuer(t)}
AboutToNotifyNotEmpty == {t \in Threads : pc[t] = "notify" /\ Enqueuer(t)}
AboutToNotifyNotFull  == {t \in Threads : pc[t] = "notify" /\ Dequeuer(t)}

(* While any dequeuer waits, every queued item is accounted for by a       *)
(* notification still to be sent or by a dequeuer already woken, although  *)
(* notify_one is called after the mutex is released and other threads may  *)
(* take the item in between.                                               *)
NoLostNotEmpty ==
  WaitingNotEmpty # {} =>
    Len(data) <= Cardinality(AboutToNotifyNotEmpty) + Cardinality(WakingDequeuers)

(* The same for free slots and enqueuers waiting on not_full.              *)
NoLostNotFull ==
  WaitingNotFull # {} =>
    Capacity - Len(data) <= Cardinality(AboutToNotifyNotFull) + Cardinality(WakingEnqueuers)

(* queue_enqueue and queue_dequeue never lose a wakeup on either condition *)
(* variable.                                                               *)
NoLostWakeup == NoLostNotEmpty /\ NoLostNotFull

(* queue_enqueue and queue_dequeue keep the promise of the CspArch trait:  *)
(* FIFO, bounded, atomic, a call with timeout 0xFFFFFFFF never returns     *)
(* false and one with timeout 0 only when the queue is full or empty.      *)
ImplementsContract == Contract!Spec

(* A thread blocked in queue_dequeue or queue_enqueue does not stay        *)
(* blocked while it could proceed: it gets its turn, or another thread     *)
(* uses the item or the slot up.                                           *)
BlockedCallsProceed ==
  \A t \in Threads :
    (pc[t] = "waiting" /\ ~Blocked(t)) ~> (pc[t] # "waiting" \/ Blocked(t))

(* A call with a finite timeout or none always returns.                    *)
TimedCallsReturn ==
  \A t \in Threads : (pc[t] # "idle" /\ op[t].timeout # "Forever") ~> (pc[t] = "idle")
=============================================================================
