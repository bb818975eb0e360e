---------------------------- MODULE BoundedFifo ----------------------------
(***************************************************************************)
(* What the CspArch trait promises of a queue (src/src/arch.rs, section    *)
(* "Queues (REQUIRED)"): a bounded first-in first-out queue of copied      *)
(* items, whose enqueue and dequeue take a timeout.  A timeout of 0 never  *)
(* waits, 0xFFFFFFFF waits forever, anything else is a number of           *)
(* milliseconds.  A call takes effect at one instant between its           *)
(* invocation and its return.                                              *)
(***************************************************************************)
EXTENDS Integers, Sequences

CONSTANTS
  Threads,   \* the callers: libcsp's router task, services, application threads
  Items,     \* what is queued (in libcsp: packet pointers)
  Capacity   \* the `length' given to queue_create

(* The timeout argument: 0, a finite number of milliseconds, 0xFFFFFFFF.   *)
Timeouts == {"NoWait", "Timed", "Forever"}

Enqueues == [kind : {"enqueue"}, timeout : Timeouts, item : Items]
Dequeues == [kind : {"dequeue"}, timeout : Timeouts]
Ops == Enqueues \cup Dequeues

(* Stands for the arguments of a thread that is in no call.                *)
NoCall == [kind |-> "dequeue", timeout |-> "NoWait"]

VARIABLES
  items,     \* the queued items, oldest first
  call,      \* per thread: "idle", "pending" (invoked), "done" (about to return)
  op,        \* per thread: the arguments of its current call
  ret        \* per thread: <<>> for false, <<item>> for true with that item moved

vars == <<items, call, op, ret>>

Results == {<<>>} \cup {<<i>> : i \in Items}

TypeOK ==
  /\ items \in Seq(Items)
  /\ call \in [Threads -> {"idle", "pending", "done"}]
  /\ op \in [Threads -> Ops]
  /\ ret \in [Threads -> Results]

Full  == Len(items) >= Capacity
Empty == items = <<>>

Init ==
  /\ items = <<>>
  /\ call = [t \in Threads |-> "idle"]
  /\ op = [t \in Threads |-> NoCall]
  /\ ret = [t \in Threads |-> <<>>]

Invoke(t, o) ==
  /\ call[t] = "idle"
  /\ call' = [call EXCEPT ![t] = "pending"]
  /\ op' = [op EXCEPT ![t] = o]
  /\ UNCHANGED <<items, ret>>

Finish(t, r) ==
  /\ call[t] = "pending"
  /\ call' = [call EXCEPT ![t] = "done"]
  /\ ret' = [ret EXCEPT ![t] = r]
  /\ UNCHANGED op

(* A successful enqueue: there is room, and the item goes to the back.     *)
Put(t) ==
  /\ op[t].kind = "enqueue"
  /\ ~Full
  /\ items' = Append(items, op[t].item)
  /\ Finish(t, <<op[t].item>>)

(* A successful dequeue hands out the oldest item.                         *)
Take(t) ==
  /\ op[t].kind = "dequeue"
  /\ ~Empty
  /\ items' = Tail(items)
  /\ Finish(t, <<Head(items)>>)

(* A call returns false on timeout, or at once when it may not wait; a     *)
(* call that waits forever never does.                                     *)
Refuse(t) ==
  /\ op[t].timeout # "Forever"
  /\ op[t].timeout = "NoWait" => IF op[t].kind = "enqueue" THEN Full ELSE Empty
  /\ Finish(t, <<>>)
  /\ UNCHANGED items

Return(t) ==
  /\ call[t] = "done"
  /\ call' = [call EXCEPT ![t] = "idle"]
  /\ op' = [op EXCEPT ![t] = NoCall]
  /\ ret' = [ret EXCEPT ![t] = <<>>]
  /\ UNCHANGED items

Next ==
  \E t \in Threads :
    \/ \E o \in Ops : Invoke(t, o)
    \/ Put(t)
    \/ Take(t)
    \/ Refuse(t)
    \/ Return(t)

Spec == Init /\ [][Next]_vars
=============================================================================
