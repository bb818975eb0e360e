--------------------------- MODULE MCInterfaceTx ---------------------------
(* Instances of InterfaceTx for TLC: two interfaces that send on through   *)
(* one another and to a CAN interface.                                     *)
EXTENDS InterfaceTx, TLC

CONSTANTS t1, t2, p1, p2, p3, i1, i2, can1

MCThreads == {t1, t2}
MCPackets == {p1, p2, p3}
MCIfaces == {i1, i2, can1}
MCCan == {can1}

(* Routes that lead back: i1 to itself, i2 to i1.                          *)
Loop == i1 :> {i1, i2} @@ i2 :> {i1, can1} @@ can1 :> {}

Symmetry == Permutations(MCThreads) \cup Permutations(MCPackets)
=============================================================================
