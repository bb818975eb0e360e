----------------------------- MODULE MCRuntime -----------------------------
(* An instance of Runtime for TLC: three calls of init, two sniffing       *)
(* threads, an interface CAN and one that calls itself "loop", two         *)
(* destinations and a routing table of two rows.                           *)
EXTENDS Runtime, TLC

CONSTANTS c1, c2, c3, u1, u2, can, imp, peer

MCCalls == {c1, c2, c3}
MCUsers == {u1, u2}
MCNameOf == can :> CAN @@ imp :> <<108, 111, 111, 112>>
MCTables == {<< <<peer, CAN>>, <<Default, LOOP>> >>}

Symmetry == Permutations(MCCalls) \cup Permutations(MCUsers)

(* The sniffers, the references to the node and the refused calls do not   *)
(* look at interfaces and routes: once the application has touched these,  *)
(* the others rest.  A handle is not kept over a walk, nor one to an       *)
(* interface over a load, which only changes routes; no load goes on after *)
(* a walk's end.                                                           *)
InTurn ==
  /\ held = None \/ walk = None
  /\ \/ loading = << >>
     \/ (held = None \/ held.kind = "route") /\ (walk = None \/ walk.going)
  /\ \/ /\ clones <= 1 /\ ~router /\ ~conn
        /\ nodeAddress # None => clones = 1
        /\ handle = [u \in Users |-> "idle"]
        /\ \A c, d \in Calls : c # d => "idle" \in {pc[c], pc[d]}
     \/ /\ held = None /\ walk = None /\ loading = << >> /\ ~cleared
        /\ ToSet(iflist) \subseteq {Loop, Self}
        /\ \A k \in DOMAIN table : table[k].dest \in Calls
=============================================================================
