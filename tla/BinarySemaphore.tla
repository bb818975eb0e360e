-------------------------- MODULE BinarySemaphore --------------------------
(***************************************************************************)
(* What libcsp expects of a binary semaphore (csp_bin_sem_init and the     *)
(* CspArch trait, src/src/arch.rs): it starts unlocked, a wait that        *)
(* succeeds locks it, a post unlocks it and posting an unlocked semaphore  *)
(* changes nothing.  A wait with a finite timeout may return false; one    *)
(* that waits forever does not.                                            *)
(***************************************************************************)
CONSTANT Threads

VARIABLES
  unlocked,  \* TRUE when the next wait succeeds at once
  call,      \* per thread: "idle", "pending" in a wait, "done" about to return
  timeout,   \* per thread: the timeout of its wait
  ret        \* per thread: what its wait returns

vars == <<unlocked, call, timeout, ret>>

Timeouts == {"Timed", "Forever"}

Init ==
  /\ unlocked = TRUE
  /\ call = [t \in Threads |-> "idle"]
  /\ timeout = [t \in Threads |-> "Forever"]
  /\ ret = [t \in Threads |-> FALSE]

Invoke(t, d) ==
  /\ call[t] = "idle"
  /\ call' = [call EXCEPT ![t] = "pending"]
  /\ timeout' = [timeout EXCEPT ![t] = d]
  /\ UNCHANGED <<unlocked, ret>>

Acquire(t) ==
  /\ call[t] = "pending"
  /\ unlocked
  /\ unlocked' = FALSE
  /\ call' = [call EXCEPT ![t] = "done"]
  /\ ret' = [ret EXCEPT ![t] = TRUE]
  /\ UNCHANGED timeout

TimeOut(t) ==
  /\ call[t] = "pending"
  /\ timeout[t] = "Timed"
  /\ call' = [call EXCEPT ![t] = "done"]
  /\ UNCHANGED <<unlocked, timeout, ret>>

Return(t) ==
  /\ call[t] = "done"
  /\ call' = [call EXCEPT ![t] = "idle"]
  /\ timeout' = [timeout EXCEPT ![t] = "Forever"]
  /\ ret' = [ret EXCEPT ![t] = FALSE]
  /\ UNCHANGED unlocked

Post ==
  /\ unlocked' = TRUE
  /\ UNCHANGED <<call, timeout, ret>>

Next ==
  \/ Post
  \/ \E t \in Threads :
       \/ \E d \in Timeouts : Invoke(t, d)
       \/ Acquire(t)
       \/ TimeOut(t)
       \/ Return(t)

Spec == Init /\ [][Next]_vars
=============================================================================
