----------------------------- MODULE RingQueue -----------------------------
(***************************************************************************)
(* The Embassy backend's queue (src/embassy-example/src/queue.rs): a ring  *)
(* of `capacity' slots with head, tail and count.  Every operation runs    *)
(* inside cortex_m::interrupt::free, so its body is one step; threads and  *)
(* interrupt handlers interleave between bodies.                           *)
(***************************************************************************)
EXTENDS Integers, Sequences

CONSTANTS
  Threads,   \* the callers: the executor's tasks and interrupt handlers
  Items,     \* the items queued
  Capacity,  \* Queue.capacity
  Garbage    \* what an unwritten slot holds (the buffer comes from malloc)

ASSUME RingQueueAssumption ==
  /\ Capacity \in Nat \ {0}
  /\ Garbage \notin Items

VARIABLES
  buffer,    \* Queue.buffer, one item per slot
  head,      \* index of the oldest item
  tail,      \* index of the next free slot
  count,     \* number of items
  call, op, ret  \* the callers, as in BoundedFifo

vars == <<buffer, head, tail, count, call, op, ret>>
queue == <<buffer, head, tail, count>>

Slots == 0..(Capacity - 1)

(* The queued items, oldest first: count slots from head on, wrapping.     *)
Contents == [i \in 1..count |-> buffer[(head + i - 1) % Capacity]]

(* The trait's contract, as it is declared ...                             *)
Contract == INSTANCE BoundedFifo WITH items <- Contents

(* ... and with every timeout read as 0.                                   *)
PollOp(t) == [op[t] EXCEPT !.timeout = "NoWait"]
PollContract == INSTANCE BoundedFifo
                  WITH items <- Contents, op <- [t \in Threads |-> PollOp(t)]

TypeOK ==
  /\ buffer \in [Slots -> Items \cup {Garbage}]
  /\ head \in Slots
  /\ tail \in Slots
  /\ count \in 0..Capacity
  /\ call \in [Threads -> {"idle", "pending", "done"}]
  /\ op \in [Threads -> Contract!Ops]
  /\ ret \in [Threads -> {<<>>} \cup {<<i>> : i \in Items \cup {Garbage}}]

-----------------------------------------------------------------------------
(* queue_create and Queue::new.                                            *)
Init ==
  /\ buffer = [s \in Slots |-> Garbage]
  /\ head = 0
  /\ tail = 0
  /\ count = 0
  /\ call = [t \in Threads |-> "idle"]
  /\ op = [t \in Threads |-> Contract!NoCall]
  /\ ret = [t \in Threads |-> <<>>]

(* A caller enters EmbassyArch::queue_enqueue or queue_dequeue.            *)
Call(t, o) ==
  /\ call[t] = "idle"
  /\ call' = [call EXCEPT ![t] = "pending"]
  /\ op' = [op EXCEPT ![t] = o]
  /\ UNCHANGED <<queue, ret>>

Finish(t, r) ==
  /\ call[t] = "pending"
  /\ call' = [call EXCEPT ![t] = "done"]
  /\ ret' = [ret EXCEPT ![t] = r]
  /\ UNCHANGED op

(* (pos + 1) % self.capacity                                               *)
Advance(i) == (i + 1) % Capacity

(* Mutant: the copy goes to the slot after tail.                           *)
Enqueue_NextSlot(t) ==
  /\ op[t].kind = "enqueue"
  /\ count < Capacity
  /\ tail' = Advance(tail)
  /\ buffer' = [buffer EXCEPT ![Advance(tail)] = op[t].item]
  /\ count' = count + 1
  /\ UNCHANGED head
  /\ Finish(t, <<op[t].item>>)

(* Queue::enqueue with room; the timeout is not looked at.                 *)
Enqueue(t) ==
  /\ op[t].kind = "enqueue"
  /\ count < Capacity
  /\ tail' = Advance(tail)
  /\ buffer' = [buffer EXCEPT ![tail] = op[t].item]
  /\ count' = count + 1
  /\ UNCHANGED head
  /\ Finish(t, <<op[t].item>>)

(* Mutant: the item read after head has moved.                             *)
Dequeue_AfterAdvance(t) ==
  /\ op[t].kind = "dequeue"
  /\ count # 0
  /\ head' = Advance(head)
  /\ count' = count - 1
  /\ UNCHANGED <<buffer, tail>>
  /\ Finish(t, <<buffer[Advance(head)]>>)

(* Mutant: count not decremented when the head index wraps.                *)
Dequeue_StaleCount(t) ==
  /\ op[t].kind = "dequeue"
  /\ count # 0
  /\ head' = Advance(head)
  /\ count' = IF Advance(head) = 0 THEN count ELSE count - 1
  /\ UNCHANGED <<buffer, tail>>
  /\ Finish(t, <<buffer[head]>>)

(* Queue::dequeue with an item.                                            *)
Dequeue(t) ==
  /\ op[t].kind = "dequeue"
  /\ count # 0
  /\ head' = Advance(head)
  /\ count' = count - 1
  /\ UNCHANGED <<buffer, tail>>
  /\ Finish(t, <<buffer[head]>>)

(* Full or empty: false at once.                                           *)
Refuse(t) ==
  /\ IF op[t].kind = "enqueue" THEN count >= Capacity ELSE count = 0
  /\ Finish(t, <<>>)
  /\ UNCHANGED queue

Return(t) ==
  /\ call[t] = "done"
  /\ call' = [call EXCEPT ![t] = "idle"]
  /\ op' = [op EXCEPT ![t] = Contract!NoCall]
  /\ ret' = [ret EXCEPT ![t] = <<>>]
  /\ UNCHANGED queue

Next ==
  \E t \in Threads :
    \/ \E o \in Contract!Ops : Call(t, o)
    \/ Enqueue(t)
    \/ Dequeue(t)
    \/ Refuse(t)
    \/ Return(t)

Spec == Init /\ [][Next]_vars

-----------------------------------------------------------------------------
(***************************************************************************)
(* Properties                                                              *)
(***************************************************************************)

(* head, tail and count agree: tail is count slots after head, so a full   *)
(* and an empty ring (head = tail in both) are told apart by count only.   *)
RingInv == tail = (head + count) % Capacity

(* Every slot between head and tail has been written: Queue::dequeue never *)
(* hands out the uninitialised memory of the malloc'ed buffer.             *)
NoGarbage == \A i \in 1..count : Contents[i] # Garbage

(* Queue::enqueue and dequeue are a bounded FIFO queue that never waits:   *)
(* nothing is lost, duplicated or reordered when the indices wrap.         *)
ImplementsPolledFifo == PollContract!Spec
=============================================================================
