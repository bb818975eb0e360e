------------------------------ MODULE MCBinSem ------------------------------
(* An instance of BinSem for TLC: the back end that does not keep the      *)
(* contract.                                                               *)
EXTENDS BinSem, TLC

CONSTANTS t1, t2, t3

MCWaiters == {t1, t2, t3}
Posix == {"posix"}
=============================================================================
