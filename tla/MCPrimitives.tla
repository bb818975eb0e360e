---------------------------- MODULE MCPrimitives ----------------------------
(* Three threads at a semaphore of the back ends that keep the contract;   *)
(* three calls of csp_thread_create, one of them for a function that never *)
(* returns; three contexts and two mutexes.                                *)
EXTENDS Primitives

CONSTANTS t1, t2, t3, c1, c2, c3

MCWaiters == {t1, t2, t3}
MacosAndEmbassy == {"macos", "embassy"}
MCCalls == {c1, c2, c3}
OneEndless == {c1}
=============================================================================
