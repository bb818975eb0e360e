---------------------------- MODULE MCPacketFlow ----------------------------
(* Instances of PacketFlow for TLC.                                        *)
EXTENDS PacketFlow, TLC

CONSTANTS b1, b2, b3, c1, c2

MCBuffers == {b1, b2, b3}
MCConns == {c1, c2}

Symmetry == Permutations(MCBuffers) \cup Permutations(MCConns)
=============================================================================
