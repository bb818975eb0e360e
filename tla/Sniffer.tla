------------------------------ MODULE Sniffer ------------------------------
(***************************************************************************)
(* The promiscuous-mode handle (src/src/promisc.rs).  SNIFFER_ACTIVE       *)
(* guards libcsp's single capture switch and queue; open and drop each     *)
(* touch the flag and the switch in separate steps, on any thread.         *)
(***************************************************************************)
EXTENDS Integers, FiniteSets

CONSTANTS
  Users,      \* threads that open, read and drop a Sniffer
  QueueSize   \* the queue_size given to open

VARIABLES
  active,     \* SNIFFER_ACTIVE
  enabled,    \* libcsp captures
  captured,   \* packets in libcsp's capture queue
  pc          \* per user: "idle", "enabling", "failed", "open", "disabled"

vars == <<active, enabled, captured, pc>>

TypeOK ==
  /\ active \in BOOLEAN
  /\ enabled \in BOOLEAN
  /\ captured \in 0..QueueSize
  /\ pc \in [Users -> {"idle", "enabling", "failed", "open", "disabled"}]

Init ==
  /\ active = FALSE
  /\ enabled = FALSE
  /\ captured = 0
  /\ pc = [u \in Users |-> "idle"]

Goto(u, s) == pc' = [pc EXCEPT ![u] = s]

(* Sniffer::open finds SNIFFER_ACTIVE clear and has set it; with the flag  *)
(* set already it returns ResourceInUse, and nothing changes.              *)
OpenSwap(u) ==
  /\ pc[u] = "idle"
  /\ ~active
  /\ active' = TRUE
  /\ Goto(u, "enabling")
  /\ UNCHANGED <<enabled, captured>>

(* csp_promisc_enable succeeds.                                            *)
OpenEnable(u) ==
  /\ pc[u] = "enabling"
  /\ enabled' = TRUE
  /\ Goto(u, "open")
  /\ UNCHANGED <<active, captured>>

(* csp_promisc_enable fails (it cannot create its queue).                  *)
OpenFails(u) ==
  /\ pc[u] = "enabling"
  /\ Goto(u, "failed")
  /\ UNCHANGED <<active, enabled, captured>>

(* Mutant: the error path returns without clearing the flag.               *)
OpenGivesUp_KeepsFlag(u) ==
  /\ pc[u] = "failed"
  /\ Goto(u, "idle")
  /\ UNCHANGED <<active, enabled, captured>>

(* SNIFFER_ACTIVE is cleared and the error returned.                       *)
OpenGivesUp(u) ==
  /\ pc[u] = "failed"
  /\ active' = FALSE
  /\ Goto(u, "idle")
  /\ UNCHANGED <<enabled, captured>>

(* Sniffer::read returns the oldest captured packet.                       *)
Read(u) ==
  /\ pc[u] = "open"
  /\ captured > 0
  /\ captured' = captured - 1
  /\ UNCHANGED <<active, enabled, pc>>

(* Mutant: the flag is cleared first, and libcsp told afterwards.          *)
Drop_FlagFirst(u) ==
  \/ /\ pc[u] = "open"
     /\ active' = FALSE
     /\ Goto(u, "disabled")
     /\ UNCHANGED <<enabled, captured>>
  \/ /\ pc[u] = "disabled"
     /\ enabled' = FALSE
     /\ Goto(u, "idle")
     /\ UNCHANGED <<active, captured>>

(* Drop for Sniffer: csp_promisc_disable, then SNIFFER_ACTIVE is cleared.  *)
Drop(u) ==
  \/ /\ pc[u] = "open"
     /\ enabled' = FALSE
     /\ Goto(u, "disabled")
     /\ UNCHANGED <<active, captured>>
  \/ /\ pc[u] = "disabled"
     /\ active' = FALSE
     /\ Goto(u, "idle")
     /\ UNCHANGED <<enabled, captured>>

(* The router clones a packet into the capture queue if there is room.     *)
Capture ==
  /\ enabled
  /\ captured < QueueSize
  /\ captured' = captured + 1
  /\ UNCHANGED <<active, enabled, pc>>

UserStep(u) ==
  \/ OpenSwap(u)
  \/ OpenEnable(u)
  \/ OpenFails(u)
  \/ OpenGivesUp(u)
  \/ Read(u)
  \/ Drop(u)

Next == Capture \/ \E u \in Users : UserStep(u)

Spec == Init /\ [][Next]_vars

-----------------------------------------------------------------------------
(***************************************************************************)
(* Properties                                                              *)
(***************************************************************************)

(* A Sniffer that exists captures: no other user's open or drop, however   *)
(* it overlaps, switches capturing off under it.                           *)
OpenCaptures == \A u \in Users : pc[u] = "open" => enabled

(* A set flag has an owner who will clear it: no error path leaves the     *)
(* mode locked forever.  And once nobody opens, holds or drops a Sniffer,  *)
(* capturing, which uses up buffers, is off.                               *)
NothingLeftOn ==
  (\A u \in Users : pc[u] = "idle") => ~active /\ ~enabled
=============================================================================
