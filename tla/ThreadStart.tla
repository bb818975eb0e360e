---------------------------- MODULE ThreadStart ----------------------------
(***************************************************************************)
(* Starting a thread through the exported csp_thread_create                *)
(* (src/src/arch.rs) on the host backend's thread_create                   *)
(* (src/src/arch/test_arch.rs).  The function to run travels through two   *)
(* process-wide statics: THREAD_ENTRY_POINT, which each call overwrites,   *)
(* and THREAD_FN_MAP, a mutex-protected map from the address of the        *)
(* wrapper to the wrapper, under whose lock the new thread runs.           *)
(***************************************************************************)
EXTENDS Integers, Sequences, SequencesExt

CONSTANTS
  Calls,     \* the calls of csp_thread_create; each has a function of its own
  Endless,   \* the calls whose function never returns (a task loop)
  None

ASSUME ThreadStartAssumption ==
  /\ Endless \subseteq Calls
  /\ None \notin Calls

VARIABLES
  entry,     \* THREAD_ENTRY_POINT: the call whose function it holds, or None (0)
  known,     \* THREAD_FN_MAP holds the wrapper
  lock,      \* who holds THREAD_FN_MAP: None, <<"creator", c>> or <<"thread", c>>
  creator,   \* per call, its creator's progress
  thread,    \* per call, the thread it created
  ran,       \* per call, the function its thread ran: a call, or None
  stores     \* history: the calls in the order of their stores to entry

startVars == <<entry, known, lock, creator, thread, ran, stores>>

StartTypeOK ==
  /\ entry \in Calls \cup {None}
  /\ known \in BOOLEAN
  /\ lock \in {None} \cup ({"creator", "thread"} \X Calls)
  /\ creator \in [Calls -> {"idle", "stored", "locked", "inserted", "returned"}]
  /\ thread \in [Calls -> {"none", "spawned", "holding", "running", "ended"}]
  /\ ran \in [Calls -> Calls \cup {None}]
  /\ stores \in Seq(Calls)
  /\ IsInjective(stores)          \* one store per call

StartInit ==
  /\ entry = None
  /\ known = FALSE
  /\ lock = None
  /\ creator = [c \in Calls |-> "idle"]
  /\ thread = [c \in Calls |-> "none"]
  /\ ran = [c \in Calls |-> None]
  /\ stores = <<>>

-----------------------------------------------------------------------------
(* The creator.                                                            *)

(* Mutant: compare_exchange from 0 instead of store: the first call wins.  *)
StoreEntry_FirstWins(c) ==
  /\ creator[c] = "idle"
  /\ entry' = IF entry = None THEN c ELSE entry
  /\ stores' = Append(stores, c)
  /\ creator' = [creator EXCEPT ![c] = "stored"]
  /\ UNCHANGED <<known, lock, thread, ran>>

(* csp_thread_create: THREAD_ENTRY_POINT.store(f), then thread_create.     *)
StoreEntry(c) ==
  /\ creator[c] = "idle"
  /\ entry' = c
  /\ stores' = Append(stores, c)
  /\ creator' = [creator EXCEPT ![c] = "stored"]
  /\ UNCHANGED <<known, lock, thread, ran>>

(* thread_create: THREAD_FN_MAP.lock()                                     *)
LockMap(c) ==
  /\ creator[c] = "stored"
  /\ lock = None
  /\ lock' = <<"creator", c>>
  /\ creator' = [creator EXCEPT ![c] = "locked"]
  /\ UNCHANGED <<entry, known, thread, ran, stores>>

(* insert(fn_id, f); drop(map_lock): the key is the wrapper's address, the *)
(* same for every call.                                                    *)
InsertAndUnlock(c) ==
  /\ creator[c] = "locked"
  /\ known' = TRUE
  /\ lock' = None
  /\ creator' = [creator EXCEPT ![c] = "inserted"]
  /\ UNCHANGED <<entry, thread, ran, stores>>

(* pthread_create, which may fail: then no thread exists.                  *)
PthreadCreate(c) ==
  /\ creator[c] = "inserted"
  /\ creator' = [creator EXCEPT ![c] = "returned"]
  /\ \/ thread' = [thread EXCEPT ![c] = "spawned"]
     \/ UNCHANGED thread
  /\ UNCHANGED <<entry, known, lock, ran, stores>>

-----------------------------------------------------------------------------
(* The new thread.                                                         *)

(* thread_wrapper: THREAD_FN_MAP.lock(), and the guard lives on.           *)
WrapperLocks(c) ==
  /\ thread[c] = "spawned"
  /\ lock = None
  /\ lock' = <<"thread", c>>
  /\ thread' = [thread EXCEPT ![c] = "holding"]
  /\ UNCHANGED <<entry, known, creator, ran, stores>>

(* The map's wrapper loads THREAD_ENTRY_POINT and calls what it finds;     *)
(* neither an unknown wrapper nor a zero entry point runs anything.        *)
WrapperRuns(c) ==
  /\ thread[c] = "holding"
  /\ IF known /\ entry # None
       THEN /\ ran' = [ran EXCEPT ![c] = entry]
            /\ thread' = [thread EXCEPT ![c] = "running"]
            /\ UNCHANGED lock
       ELSE /\ thread' = [thread EXCEPT ![c] = "ended"]
            /\ lock' = None
            /\ UNCHANGED ran
  /\ UNCHANGED <<entry, known, creator, stores>>

(* Mutant: the lock outlives the thread.                                   *)
FunctionReturns_KeepsLock(c) ==
  /\ thread[c] = "running"
  /\ ran[c] \notin Endless
  /\ thread' = [thread EXCEPT ![c] = "ended"]
  /\ UNCHANGED <<entry, known, lock, creator, ran, stores>>

(* The function returns and thread_wrapper drops the guard.                *)
FunctionReturns(c) ==
  /\ thread[c] = "running"
  /\ ran[c] \notin Endless
  /\ thread' = [thread EXCEPT ![c] = "ended"]
  /\ lock' = None
  /\ UNCHANGED <<entry, known, creator, ran, stores>>

Create(c) == LockMap(c) \/ InsertAndUnlock(c) \/ PthreadCreate(c)
Run(c) == WrapperLocks(c) \/ WrapperRuns(c) \/ FunctionReturns(c)

StartNext == \E c \in Calls : StoreEntry(c) \/ Create(c) \/ Run(c)

StartSpec == StartInit /\ [][StartNext]_startVars

(* The operating system schedules every creator and every thread, and the  *)
(* map's mutex does not pass one of them over forever.                     *)
StartFairness ==
  \A c \in Calls : /\ WF_startVars(Create(c)) /\ SF_startVars(LockMap(c))
                   /\ WF_startVars(Run(c)) /\ SF_startVars(WrapperLocks(c))

-----------------------------------------------------------------------------
(***************************************************************************)
(* Properties                                                              *)
(***************************************************************************)

StoredAt(c) == SelectInSeq(stores, LAMBDA d : d = c)

(* A thread never gives up for want of a function, since the store to      *)
(* THREAD_ENTRY_POINT precedes its creation.  When calls overlap it may    *)
(* run another call's function, but only one stored no earlier than its    *)
(* own: what a call stored before has been overwritten.                    *)
NeverAnOlderFunction ==
  \A c \in Calls : thread[c] \in {"running", "ended"} =>
    ran[c] # None /\ StoredAt(ran[c]) >= StoredAt(c)

(* A function that never returns has the map locked for good.              *)
Barred == \E e \in Calls : thread[e] = "running" /\ ran[e] \in Endless

(* A creator that called thread_create gets its answer, and a thread that  *)
(* was created runs to its end (or for ever, if its function does), unless *)
(* one runs whose function never returns: thread_wrapper keeps the map     *)
(* locked while it runs, and then nobody else gets any further.            *)
CreationsFinish ==
  \A c \in Calls : /\ creator[c] = "stored" ~> creator[c] = "returned" \/ Barred
                   /\ thread[c] = "spawned" ~> thread[c] = "ended" \/ Barred
=============================================================================
