--------------------------- MODULE MCTransactions ---------------------------
(* One client whose slice is shorter than the longest reply. *)
EXTENDS Transactions

MCInLens == {-1, 0, 2}
=============================================================================
