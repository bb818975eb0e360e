---------------------------- MODULE Connections ----------------------------
(***************************************************************************)
(* What callers do over connections: request/reply calls and SFP           *)
(* transfers.  The two have no state in common (a connection carries one   *)
(* or the other), so a behaviour follows one of them and loses nothing.    *)
(***************************************************************************)
EXTENDS Transactions, SfpTransfer

VARIABLE part    \* the one that this behaviour follows

ConnectionsInit ==
  /\ Init /\ SfpInit
  /\ part \in {"calls", "transfers"}
  /\ part = "calls" => ~rdp

ConnectionsNext ==
  /\ UNCHANGED part
  /\ \/ part = "calls" /\ Next /\ UNCHANGED sfpVars
     \/ part = "transfers" /\ SfpNext /\ UNCHANGED vars

ConnectionsSpec == ConnectionsInit /\ [][ConnectionsNext]_<<part, vars, sfpVars>>
=============================================================================
