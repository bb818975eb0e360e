--------------------------- MODULE MCConnections ---------------------------
(* Two clients, three requests, two ports: a late reply can meet the caller's
   next call and another client's, on its own port or on one reused.  Two
   transfers of three fragments, of two lengths, and one whose length is cut.
   -1 is written here, a cfg holds no negative number. *)
EXTENDS Connections, TLC

CONSTANT MaxNet    \* bound: SFP fragments under way

MCInLens == {-1, 0, 2}
Sym == Permutations(Clients) \cup Permutations(Ports)

(* A plain network may duplicate for ever: this is where the model stops. *)
NetBound == Len(net) <= MaxNet
=============================================================================
