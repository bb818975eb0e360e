---------------------------- MODULE MCDispatcher ----------------------------
(* An instance of Dispatcher for TLC: a service port under both its names, *)
(* an application port and Any; two connections and two packets.           *)
EXTENDS Dispatcher

CONSTANTS c1, c2, p1, p2

MCPorts == {6, 10}
MCPortValues == {<<6, 0>>, <<Custom, 6>>, <<Custom, 10>>, <<AnyPort, 0>>}
MCConns == {c1, c2}
MCPackets == {p1, p2}
=============================================================================
