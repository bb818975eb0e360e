----------------------------- MODULE Primitives -----------------------------
(***************************************************************************)
(* What the arch layer gives libcsp beside queues: binary semaphores,      *)
(* mutexes and threads.  They have no state in common, so a behaviour      *)
(* follows one of them and loses nothing.                                  *)
(***************************************************************************)
EXTENDS BinSem, ThreadStart, Mutexes

VARIABLE part    \* the one that this behaviour follows

(* A part that is not followed has one initial state.                      *)
PrimitivesInit ==
  /\ SemInit /\ StartInit /\ MutexInit
  /\ part \in {"semaphore", "start", "mutex"}
  /\ part # "semaphore" => backend = CHOOSE b \in Backends : TRUE
  /\ part # "mutex" => /\ platform = CHOOSE p \in Platforms : TRUE
                       /\ running = CHOOSE t \in Contexts : TRUE

PrimitivesNext ==
  /\ UNCHANGED part
  /\ \/ part = "semaphore" /\ SemNext /\ UNCHANGED <<startVars, mutexVars>>
     \/ part = "start" /\ StartNext /\ UNCHANGED <<semVars, mutexVars>>
     \/ part = "mutex" /\ MutexNext /\ UNCHANGED <<semVars, startVars>>

(* The fairness of the parts; of a part not followed no step it speaks of  *)
(* is ever enabled.                                                        *)
PrimitivesFairSpec ==
  /\ PrimitivesInit /\ [][PrimitivesNext]_<<part, semVars, startVars, mutexVars>>
  /\ SemFairness
  /\ StartFairness
=============================================================================
