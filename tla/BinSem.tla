------------------------------- MODULE BinSem -------------------------------
(***************************************************************************)
(* The binary semaphores of the three backends, as csp_bin_sem_init of the *)
(* export_arch! macro (src/src/arch.rs) sets them up:                      *)
(*                                                                         *)
(*   "posix"    TestArch on Linux: sem_t (src/src/arch/test_arch.rs)       *)
(*   "macos"    TestArch on macOS: a pthread mutex, a condition variable   *)
(*              and an integer                                             *)
(*   "embassy"  EmbassyArch: an AtomicBool polled with swap                *)
(*              (src/embassy-example/src/lib.rs)                           *)
(*                                                                         *)
(* sem_post, AtomicBool::swap/store and the macOS critical sections are    *)
(* one step each.  libcsp posts from any thread or interrupt, whoever took *)
(* the semaphore.                                                          *)
(***************************************************************************)
EXTENDS Naturals

CONSTANTS
  Waiters,   \* the threads that wait on the semaphore
  Backends,  \* the implementations to consider
  MaxValue   \* bound on the value of a sem_t (SEM_VALUE_MAX in the code)

ASSUME BinSemAssumption ==
  /\ Backends \subseteq {"posix", "macos", "embassy"}
  /\ MaxValue \in Nat \ {0, 1}

VARIABLES
  backend,   \* the implementation the program was built with
  value,     \* the semaphore's value
  waiter,    \* per thread: where it is in bin_sem_wait
  timeout,   \* per thread: its timeout argument
  taken      \* per thread: what the wait returns

semVars == <<backend, value, waiter, timeout, taken>>

(***************************************************************************)
(* "enter": about to look at the value; "missed": it was 0 (Embassy's      *)
(* loop, before the deadline check); "waiting": blocked in sem_wait or     *)
(* pthread_cond_wait; "woken": the condition wait returned 0;              *)
(* "expired": the condition wait returned ETIMEDOUT; "done": returning.    *)
(***************************************************************************)
WaitPCs == {"idle", "enter", "missed", "waiting", "woken", "expired", "done"}

waitOf(t) ==
  CASE waiter[t] = "idle" -> "idle"
    [] waiter[t] = "done" -> "done"
    [] OTHER -> "pending"

Semaphore == INSTANCE BinarySemaphore
               WITH Threads <- Waiters, unlocked <- (value > 0),
                    call <- [t \in Waiters |-> waitOf(t)], ret <- taken

SemTypeOK ==
  /\ backend \in Backends
  /\ value \in IF backend = "posix" THEN 0..MaxValue ELSE {0, 1}
  /\ waiter \in [Waiters -> WaitPCs]
  /\ timeout \in [Waiters -> Semaphore!Timeouts]
  /\ taken \in [Waiters -> BOOLEAN]

-----------------------------------------------------------------------------
(* bin_sem_create: sem_init(sem, 0, 1), value.write(1), AtomicBool(false). *)
CreatedValue == IF backend = "embassy" THEN 0 ELSE 1

(* bin_sem_post: sem_post counts up, the other two saturate at 1.          *)
Posted(v) == IF backend = "posix" THEN v + 1 ELSE 1

(* csp_bin_sem_init: create, then post once; the slot is published last.   *)
SemInit ==
  /\ backend \in Backends
  /\ value = Posted(CreatedValue)
  /\ waiter = [t \in Waiters |-> "idle"]
  /\ timeout = [t \in Waiters |-> "Forever"]
  /\ taken = [t \in Waiters |-> FALSE]

(* The build stays what it is; thread t goes on to s.                      *)
Goto(t, s) == UNCHANGED backend /\ waiter' = [waiter EXCEPT ![t] = s]

CallWait(t, d) ==
  /\ waiter[t] = "idle"
  /\ Goto(t, "enter")
  /\ timeout' = [timeout EXCEPT ![t] = d]
  /\ UNCHANGED <<value, taken>>

(* Mutant: the wait reads the value and leaves it set.                     *)
Acquire_NoSwap(t) ==
  /\ waiter[t] \in {"enter", "woken"}
  /\ value > 0
  /\ UNCHANGED value
  /\ Goto(t, "done")
  /\ taken' = [taken EXCEPT ![t] = TRUE]
  /\ UNCHANGED timeout

(* Mutant: the loop's exit after waking lost.                              *)
Acquire_OnlyOnEntry(t) ==
  /\ waiter[t] = "enter"
  /\ value > 0
  /\ value' = IF backend = "posix" THEN value - 1 ELSE 0
  /\ Goto(t, "done")
  /\ taken' = [taken EXCEPT ![t] = TRUE]
  /\ UNCHANGED timeout

(* The value is positive: take it.  sem_wait also does so once blocked;    *)
(* macOS and Embassy look again after waking or looping.                   *)
Acquire(t) ==
  /\ waiter[t] \in {"enter", "woken"} \cup (IF backend = "posix" THEN {"waiting"} ELSE {})
  /\ value > 0
  /\ value' = IF backend = "posix" THEN value - 1 ELSE 0
  /\ Goto(t, "done")
  /\ taken' = [taken EXCEPT ![t] = TRUE]
  /\ UNCHANGED timeout

(* The value is 0: block in sem_wait / pthread_cond_wait (with the timed   *)
(* variants, from a deadline computed just before), or fail the swap.      *)
Miss(t) ==
  /\ waiter[t] \in {"enter", "woken"}
  /\ value = 0
  /\ Goto(t, IF backend = "embassy" THEN "missed" ELSE "waiting")
  /\ UNCHANGED <<value, timeout, taken>>

(* Embassy: nop and loop, the deadline counted from `start'.               *)
Retry(t) ==
  /\ waiter[t] = "missed"
  /\ Goto(t, "enter")
  /\ UNCHANGED <<value, timeout, taken>>

(* Mutant: the timeout argument ignored.                                   *)
ExpireWait_Ignored(t) == waiter[t] = "missed" /\ UNCHANGED semVars

(* The time is up: sem_timedwait fails, Embassy's deadline check returns   *)
(* false, and pthread_cond_timedwait goes on to reacquire the mutex.       *)
ExpireWait(t) ==
  /\ waiter[t] \in {"missed", "waiting"}
  /\ timeout[t] = "Timed"
  /\ Goto(t, IF backend = "macos" THEN "expired" ELSE "done")
  /\ UNCHANGED <<value, timeout, taken>>

(* macOS: rc != 0, so ok = false whatever the value is now.                *)
GiveUpWait(t) ==
  /\ waiter[t] = "expired"
  /\ Goto(t, "done")
  /\ UNCHANGED <<value, timeout, taken>>

ReturnWait(t) ==
  /\ waiter[t] = "done"
  /\ Goto(t, "idle")
  /\ timeout' = [timeout EXCEPT ![t] = "Forever"]
  /\ taken' = [taken EXCEPT ![t] = FALSE]
  /\ UNCHANGED value

(* pthread_cond_wait may wake spuriously.                                  *)
SpuriousCondWakeup(t) ==
  /\ backend = "macos"
  /\ waiter[t] = "waiting"
  /\ Goto(t, "woken")
  /\ UNCHANGED <<value, timeout, taken>>

Sleepers == {t \in Waiters : waiter[t] = "waiting"}

(* Mutant: macOS post that never signals.                                  *)
Post_NoSignal ==
  /\ Posted(value) <= MaxValue
  /\ value' = Posted(value)
  /\ UNCHANGED <<backend, waiter, timeout, taken>>

(* bin_sem_post and bin_sem_post_isr.  macOS signals the condition, with   *)
(* the mutex held, when the value goes from 0 to 1.                        *)
Post ==
  /\ Posted(value) <= MaxValue
  /\ value' = Posted(value)
  /\ IF backend = "macos" /\ value = 0 /\ Sleepers # {}
     THEN \E t \in Sleepers : Goto(t, "woken")
     ELSE UNCHANGED waiter
  /\ UNCHANGED <<backend, timeout, taken>>

(* Embassy's deadline check.                                               *)
ExpirePolled(t) == backend = "embassy" /\ ExpireWait(t)

(* What a waiting thread does by itself.                                   *)
WaitStep(t) == Acquire(t) \/ Miss(t) \/ Retry(t) \/ GiveUpWait(t) \/ ReturnWait(t)

SemNext ==
  \/ Post
  \/ \E t \in Waiters :
       \/ \E d \in Semaphore!Timeouts : CallWait(t, d)
       \/ Acquire(t)
       \/ Miss(t)
       \/ Retry(t)
       \/ ExpireWait(t)
       \/ GiveUpWait(t)
       \/ ReturnWait(t)
       \/ SpuriousCondWakeup(t)

SemSpec == SemInit /\ [][SemNext]_semVars

(***************************************************************************)
(* A thread that can run does.  One uninterrupted wait is timed out in the *)
(* end (weak fairness of ExpireWait).  Embassy counts the deadline from    *)
(* `start', before the loop, so its deadline check succeeds at last        *)
(* however often it loops (strong fairness); macOS computes a new deadline *)
(* in every iteration, which justifies no more than the weak form.         *)
(***************************************************************************)
SemFairness ==
  \A t \in Waiters : /\ WF_semVars(WaitStep(t)) /\ WF_semVars(ExpireWait(t))
                     /\ SF_semVars(ExpirePolled(t))

SemFairSpec == SemSpec /\ SemFairness

-----------------------------------------------------------------------------
(***************************************************************************)
(* Properties                                                              *)
(***************************************************************************)

(* csp_bin_sem_init, _wait and _post give libcsp a binary semaphore: it    *)
(* starts with one token, one wait succeeds per token, and a wait-forever  *)
(* call does not fail.                                                     *)
ImplementsBinarySemaphore == Semaphore!Spec

(* macOS: post signals only on the transition from 0 to 1, and the signal  *)
(* may go to a thread that finds the token stolen; still, a posted token   *)
(* never lies beside sleepers unless some woken thread is yet to look.     *)
NoLostSignal ==
  backend = "macos" /\ value > 0 /\ Sleepers # {} => \E t \in Waiters : waiter[t] = "woken"

(* A blocked waiter and a token do not stay side by side: somebody takes   *)
(* the token (every backend).                                              *)
TokenTaken ==
  \A t \in Waiters : (waiter[t] = "waiting" /\ value > 0) ~> (waiter[t] # "waiting" \/ value = 0)

(* bin_sem_wait with a finite timeout returns, however often others take   *)
(* the token first.  Not on macOS, where every wakeup starts the timeout   *)
(* anew.                                                                   *)
TimedWaitReturns ==
  \A t \in Waiters :
    (backend # "macos" /\ waiter[t] # "idle" /\ timeout[t] = "Timed") ~> (waiter[t] = "idle")
=============================================================================
