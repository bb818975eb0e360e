------------------------------ MODULE Mutexes ------------------------------
(***************************************************************************)
(* csp_mutex_create, _remove, _lock and _unlock (src/src/arch.rs) on the   *)
(* two back ends of the repository: the host's pthread mutexes             *)
(* (src/src/arch/test_arch.rs), and Embassy's (embassy-example/src/lib.rs),*)
(* where a mutex is a mere marker and every lock switches the interrupts   *)
(* of the one core off.  Both ignore the timeout.                          *)
(***************************************************************************)
EXTENDS Integers

CONSTANTS
  Contexts,    \* the threads; on the one core, what an interrupt switches between
  Mutexes,
  Platforms    \* the back ends checked, of "pthread" and "embassy"

ASSUME MutexesAssumption == Platforms \subseteq {"pthread", "embassy"}

VARIABLES
  platform,
  made,        \* the mutexes that exist
  held,        \* held[t]: those that t has locked
  running,     \* Embassy: the context on the core
  masked,      \* Embassy: interrupts are off
  exposed      \* history: contexts that unlocked one mutex and still hold another

mutexVars == <<platform, made, held, running, masked, exposed>>

MutexTypeOK ==
  /\ platform \in Platforms
  /\ made \subseteq Mutexes
  /\ held \in [Contexts -> SUBSET made]
  /\ running \in Contexts
  /\ masked \in BOOLEAN
  /\ exposed \subseteq Contexts

MutexInit ==
  /\ platform \in Platforms
  /\ made = {}
  /\ held = [t \in Contexts |-> {}]
  /\ running \in Contexts
  /\ masked = FALSE
  /\ exposed = {}

Embassy == platform = "embassy"

(* Who may take a step: on the one core, who has it.                       *)
Runs(t) == Embassy => running = t

Free(m) == \A t \in Contexts : m \notin held[t]

-----------------------------------------------------------------------------
(* mutex_create: the handle is stored in the caller's slot; on failure the *)
(* slot stays as it was.                                                   *)
MutexCreate(m) ==
  /\ m \notin made
  /\ made' = made \cup {m}
  /\ UNCHANGED <<platform, held, running, masked, exposed>>

(* mutex_remove, of a mutex nobody holds.                                  *)
MutexRemove(m) ==
  /\ m \in made /\ Free(m)
  /\ made' = made \ {m}
  /\ UNCHANGED <<platform, held, running, masked, exposed>>

(* Mutant: a lock that is not there within the timeout counts as locked.   *)
MutexLock_TimesOut(t, m) ==
  /\ m \in made /\ m \notin held[t] /\ Runs(t)
  /\ masked' = Embassy
  /\ held' = [held EXCEPT ![t] = @ \cup {m}]
  /\ UNCHANGED <<platform, made, running, exposed>>

(* mutex_lock: pthread_mutex_lock waits until the mutex is free; Embassy   *)
(* disables interrupts and asks no more.                                   *)
MutexLock(t, m) ==
  /\ m \in made /\ m \notin held[t] /\ Runs(t)
  /\ Embassy \/ Free(m)
  /\ masked' = Embassy
  /\ held' = [held EXCEPT ![t] = @ \cup {m}]
  /\ UNCHANGED <<platform, made, running, exposed>>

(* mutex_unlock, by its holder: Embassy enables interrupts, whatever else  *)
(* is locked.                                                              *)
MutexUnlock(t, m) ==
  /\ m \in held[t] /\ Runs(t)
  /\ masked' = FALSE
  /\ held' = [held EXCEPT ![t] = @ \ {m}]
  /\ exposed' = IF held[t] = {m} THEN exposed \ {t} ELSE exposed \cup {t}
  /\ UNCHANGED <<platform, made, running>>

(* External: an interrupt gives the core to another context.               *)
Preempt(t) ==
  /\ Embassy /\ ~masked
  /\ running' = t
  /\ UNCHANGED <<platform, made, held, masked, exposed>>

MutexNext ==
  \/ \E m \in Mutexes : \/ MutexCreate(m)
                        \/ MutexRemove(m)
                        \/ \E t \in Contexts : MutexLock(t, m) \/ MutexUnlock(t, m)
  \/ \E t \in Contexts : Preempt(t)

MutexSpec == MutexInit /\ [][MutexNext]_mutexVars

-----------------------------------------------------------------------------
(* One holder per mutex.  On Embassy this rests on nobody unlocking one    *)
(* mutex inside another: the inner unlock enables interrupts, and the      *)
(* outer mutex protects nothing from then on.                              *)
MutexExcludes ==
  \A t, u \in Contexts : t # u /\ held[t] \cap held[u] # {} =>
    Embassy /\ {t, u} \cap exposed # {}
=============================================================================
