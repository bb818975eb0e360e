------------------------------ MODULE Runtime ------------------------------
(***************************************************************************)
(* The process-wide state of the wrapper as one system: the node's life    *)
(* cycle (src/src/init.rs) and the promiscuous-mode handle                 *)
(* (src/src/promisc.rs).  Sniffer::open needs no node and may come before  *)
(* init or outlive the last CspNode; but packets are captured by the       *)
(* router, which only a CspNode or the router thread drives.               *)
(***************************************************************************)
EXTENDS NodeLifecycle

CONSTANTS
  Users,      \* threads that open, read and drop a Sniffer
  QueueSize   \* the queue_size given to open

ASSUME RuntimeAssumption == QueueSize \in Nat \ {0}

VARIABLES active, enabled, captured, handle   \* as in Sniffer; handle is its pc

Sn == INSTANCE Sniffer WITH pc <- handle

sniffer == <<active, enabled, captured, handle>>

RuntimeInit == Init /\ Sn!Init

(* CspNode::route_work, called by whoever has a node or by the router      *)
(* thread: libcsp clones the packet into the capture queue.                *)
RouteWorkCaptures ==
  /\ strong > 0
  /\ Sn!Capture
  /\ UNCHANGED vars

RuntimeNext ==
  \/ Next /\ UNCHANGED sniffer
  \/ (\E u \in Users : Sn!UserStep(u)) /\ UNCHANGED vars
  \/ RouteWorkCaptures

RuntimeSpec == RuntimeInit /\ [][RuntimeNext]_<<vars, sniffer>>

-----------------------------------------------------------------------------
(***************************************************************************)
(* Properties, beside those of NodeLifecycle                               *)
(***************************************************************************)

(* A Sniffer that exists captures: no other user's open or drop, however   *)
(* it overlaps, switches capturing off under it.                           *)
OpenCaptures == Sn!OpenCaptures

(* A set flag has an owner who will clear it: no error path leaves the     *)
(* mode locked forever.  And once nobody opens, holds or drops a Sniffer,  *)
(* capturing, which uses up buffers, is off.                               *)
NothingLeftOn == Sn!NothingLeftOn
=============================================================================
