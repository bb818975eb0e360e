--------------------------- MODULE NodeLifecycle ---------------------------
(***************************************************************************)
(* CspConfig::init and the CspNode it returns (src/src/init.rs).  Any      *)
(* number of threads may call init; the swap of INITIALIZED lets one       *)
(* through, which then sets the C globals up step by step, while others    *)
(* may already register interfaces and set routes (Routing).  The node is  *)
(* an Arc around the configuration, whose strings csp_conf points into.    *)
(***************************************************************************)
EXTENDS Routing

CONSTANTS
  Calls,      \* the calls of CspConfig::init, each with a configuration of its own
  MaxClones   \* bound: CspNode values alive at once

ASSUME NodeLifecycleAssumption ==
  /\ MaxClones \in Nat \ {0}
  /\ None \notin Calls

VARIABLES
  initialized,  \* INITIALIZED
  pc,           \* per call, its progress through init
  conf,         \* whose strings csp_conf points to
  selfAddr,     \* SELF_IFACE.addr (a configuration's address), or None
  parked,       \* the interface that was given LOOP's sentinel address, or None
  nodeAddress,  \* NODE_ADDRESS
  clones,       \* CspNode values that application code holds
  strong,       \* the strong count of their Arc
  router,       \* a router thread runs, with a clone of its own (bound: one)
  conn,         \* some Connection is open
  read          \* what the last CMP ident request read: "none", "live", "dangling"

globals == <<conf, selfAddr, parked, nodeAddress>>
users == <<clones, strong, router, conn, read>>
vars == <<initialized, pc, globals, users, routing>>

Steps == {"configure", "addSelf", "park", "route", "publish"}
InInit(c) == pc[c] \in Steps

TypeOK ==
  /\ initialized \in BOOLEAN
  /\ pc \in [Calls -> {"idle", "refused", "done"} \cup Steps]
  /\ {conf, selfAddr, nodeAddress} \subseteq Calls \cup {None}
  /\ parked \in Ifaces \cup {Loop, Self, None}
  /\ clones \in 0..MaxClones
  /\ strong \in 0..(MaxClones + 1)
  /\ router \in BOOLEAN
  /\ conn \in BOOLEAN
  /\ read \in {"none", "live", "dangling"}

Init ==
  /\ initialized = FALSE
  /\ pc = [c \in Calls |-> "idle"]
  /\ conf = None
  /\ selfAddr = None
  /\ parked = None
  /\ nodeAddress = None
  /\ clones = 0
  /\ strong = 0
  /\ router = FALSE
  /\ conn = FALSE
  /\ read = "none"
  /\ RoutingInit

(* A configuration's strings live in init's own frame, then in the Arc;    *)
(* they are freed when init refuses it or when the last CspNode goes.      *)
StringsAlive(c) ==
  \/ pc[c] \in {"idle"} \cup Steps
  \/ pc[c] = "done" /\ strong > 0

-----------------------------------------------------------------------------
(* CspConfig::init, one action per access to a shared global.              *)

Goto(c, s) == pc' = [pc EXCEPT ![c] = s]

(* Mutant: load, then store later: two calls can both see FALSE.           *)
Swap_LoadOnly(c) ==
  /\ pc[c] = "idle"
  /\ Goto(c, IF initialized THEN "refused" ELSE "configure")
  /\ initialized' = (\E d \in Calls : pc[d] = "configure")
  /\ UNCHANGED <<globals, users, routing>>

(* INITIALIZED.swap(true)                                                  *)
Swap(c) ==
  /\ pc[c] = "idle"
  /\ Goto(c, IF initialized THEN "refused" ELSE "configure")
  /\ initialized' = TRUE
  /\ UNCHANGED <<globals, users, routing>>

(* csp_conf is filled in and csp_init called, which lists LOOP.            *)
Configure(c) ==
  /\ pc[c] = "configure"
  /\ conf' = c
  /\ iflist' = Append(iflist, Loop)
  /\ Goto(c, "addSelf")
  /\ UNCHANGED <<initialized, selfAddr, parked, nodeAddress, users, table, loading, cleared, held, walk>>

(* SELF_IFACE gets its address and is added to the interface list.         *)
AddSelf(c) ==
  /\ pc[c] = "addSelf"
  /\ selfAddr' = c
  /\ iflist' = Append(iflist, Self)
  /\ Goto(c, "park")
  /\ UNCHANGED <<initialized, conf, parked, nodeAddress, users, table, loading, cleared, held, walk>>

(* The interface found under the name LOOP moves to the sentinel address.  *)
ParkLoop(c) ==
  /\ pc[c] = "park"
  /\ parked' = Lookup(LOOP)
  /\ Goto(c, "route")
  /\ UNCHANGED <<initialized, conf, selfAddr, nodeAddress, users, routing>>

(* csp_rtable_set(address, -1, SELF_IFACE), its result not looked at.      *)
SetSelfRoute(c) ==
  /\ pc[c] = "route"
  /\ table' = SetRow(table, c, Self)
  /\ Goto(c, "publish")
  /\ UNCHANGED <<initialized, globals, users, iflist, loading, cleared, held, walk>>

(* Mutant: the node is handed out before NODE_ADDRESS is stored.           *)
Publish_NoAddress(c) ==
  /\ pc[c] = "publish"
  /\ clones' = 1
  /\ strong' = 1
  /\ Goto(c, "done")
  /\ UNCHANGED <<initialized, globals, router, conn, read, routing>>

(* NODE_ADDRESS.store, and the node with the configuration moved into it.  *)
Publish(c) ==
  /\ pc[c] = "publish"
  /\ nodeAddress' = c
  /\ clones' = 1
  /\ strong' = 1
  /\ Goto(c, "done")
  /\ UNCHANGED <<initialized, conf, selfAddr, parked, router, conn, read, routing>>

-----------------------------------------------------------------------------
(* The node in use.                                                        *)

(* CspNode::clone                                                          *)
CloneNode ==
  /\ clones \in 1..(MaxClones - 1)
  /\ clones' = clones + 1
  /\ strong' = strong + 1
  /\ UNCHANGED <<initialized, pc, globals, router, conn, read, routing>>

(* A CspNode goes out of scope; there is no Drop, only the Arc's count.    *)
DropNode ==
  /\ clones > 0
  /\ clones' = clones - 1
  /\ strong' = strong - 1
  /\ UNCHANGED <<initialized, pc, globals, router, conn, read, routing>>

(* Mutant: a thread that keeps no node of its own.                         *)
RouteStartTask_NoClone ==
  /\ clones > 0
  /\ ~router
  /\ router' = TRUE
  /\ UNCHANGED <<initialized, pc, globals, clones, strong, conn, read, routing>>

(* route_start_task clones the node into the thread, whose loop never ends;*)
(* when the spawn fails the clone is dropped again.                        *)
RouteStartTask ==
  /\ clones > 0
  /\ ~router
  /\ \/ router' = TRUE /\ strong' = strong + 1
     \/ UNCHANGED <<router, strong>>
  /\ UNCHANGED <<initialized, pc, globals, clones, conn, read, routing>>

(* A Connection is opened with a node, and outlives it if it likes.        *)
Connect ==
  /\ clones > 0
  /\ conn' = TRUE
  /\ UNCHANGED <<initialized, pc, globals, clones, strong, router, read, routing>>

(* Connection::handle_service on a CMP ident request: libcsp copies the    *)
(* strings of csp_conf into the reply.                                     *)
HandleIdent ==
  /\ conn
  /\ read' = IF StringsAlive(conf) THEN "live" ELSE "dangling"
  /\ UNCHANGED <<initialized, pc, globals, clones, strong, router, conn, routing>>

(* add_interface_socketcan: the driver may refuse the device.              *)
AddSocketCan(i) ==
  /\ clones > 0
  /\ NameOf[i] = CAN
  /\ AddDriver(i)
  /\ UNCHANGED <<initialized, pc, globals, users>>

(* What needs no node: the interface list and the routing table, and       *)
(* lookups of the address that init routes to SELF_IFACE.                  *)
RoutingStep ==
  /\ RoutingNext \/ \E c \in Calls : Find(c)
  /\ UNCHANGED <<initialized, pc, globals, users>>

InitStep(c) ==
  \/ Swap(c)
  \/ Configure(c)
  \/ AddSelf(c)
  \/ ParkLoop(c)
  \/ SetSelfRoute(c)
  \/ Publish(c)

Next ==
  \/ \E c \in Calls : InitStep(c)
  \/ CloneNode
  \/ DropNode
  \/ RouteStartTask
  \/ Connect
  \/ HandleIdent
  \/ \E i \in Ifaces : AddSocketCan(i)
  \/ RoutingStep

Spec == Init /\ [][Next]_vars

-----------------------------------------------------------------------------
(***************************************************************************)
(* Properties                                                              *)
(***************************************************************************)

(* A set-up runs alone: however calls of init, clones, drops and the       *)
(* router thread overlap, csp_init never runs beside another set-up nor    *)
(* over the pools and lists of a node that somebody still holds.           *)
SetupAlone ==
  \A c \in Calls : InInit(c) =>
    /\ strong = 0
    /\ \A d \in Calls : InInit(d) => d = c

(* USAGE.md:24-25, "When the last clone is dropped, the crate marks the    *)
(* runtime free for re-init": with no CspNode left and no set-up going on, *)
(* INITIALIZED lets the next call of init in.  The code never clears the   *)
(* flag.                                                                   *)
FreeAfterLastDrop ==
  strong = 0 /\ (\A c \in Calls : ~InInit(c)) => ~initialized

(* Whoever holds a CspNode finds the globals set up, and all from one      *)
(* configuration: CspNode::address answers, SELF_IFACE is listed once with *)
(* that address, and LOOP is out of the way, unless an interface of its    *)
(* name was registered before init; traffic to the node itself is routed   *)
(* to SELF_IFACE, unless the table was full or has been cleared, or the    *)
(* application routes that address itself.                                 *)
NodeIsReady ==
  strong > 0 =>
    /\ nodeAddress # None
    /\ conf = nodeAddress /\ selfAddr = nodeAddress
    /\ \E k \in DOMAIN iflist : \A j \in DOMAIN iflist : iflist[j] = Self <=> j = k
    /\ \/ parked = Loop
       \/ \E k \in DOMAIN iflist :
            /\ iflist[k] = parked /\ parked \in Named[LOOP]
            /\ \A j \in 1 .. k : iflist[j] # Loop
    /\ \/ Match(nodeAddress) # 0 /\ table[Match(nodeAddress)].iface = Self
       \/ cleared
       \/ Len(table) = TableSize
       \/ nodeAddress \in Routed

(* csp_conf's strings are alive as long as anybody holds a CspNode or the  *)
(* router thread runs: an ident request answered until then never reads    *)
(* freed memory.  (A Connection may outlive them all, and then it does.)   *)
IdentReadsLiveStrings == clones > 0 \/ router => read # "dangling"
=============================================================================
