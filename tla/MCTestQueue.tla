---------------------------- MODULE MCTestQueue ----------------------------
(* An instance of TestQueue for TLC: one thread makes two calls against    *)
(* two threads that make one each.                                         *)
EXTENDS TestQueue

CONSTANTS t1, t2, t3, i1

MCThreads == {t1, t2, t3}
MCItems == {i1}
MCMaxCalls == [t \in MCThreads |-> IF t = t3 THEN 2 ELSE 1]
=============================================================================
