---------------------------- MODULE MCRingQueue ----------------------------
(* Instances of RingQueue for TLC.                                         *)
EXTENDS RingQueue, TLC

CONSTANTS t1, t2, i1, i2, i3

MCThreads == {t1, t2}
MCItems == {i1, i2, i3}

Symmetry == Permutations(MCThreads) \cup Permutations(MCItems)
=============================================================================
