------------------------------ MODULE Routing ------------------------------
(***************************************************************************)
(* The interface list and the routing table as src/src/iflist.rs,          *)
(* src/src/route.rs, src/src/interface.rs and src/src/can.rs use them.     *)
(* Both live in C and no function here needs a CspNode, so any thread may  *)
(* change them before, during and after init.  What the wrapper hands out  *)
(* (RouteEntry, IfaceRef, the entries iterate shows) points into them.     *)
(***************************************************************************)
EXTENDS CStrings, SequencesExt

CONSTANTS
  Ifaces,     \* interfaces the application registers
  NameOf,     \* their names
  Loop, Self, \* csp_if_lo and SELF_IFACE
  Dests,      \* destinations the application sets routes for
  Default,    \* the destination 0/0
  Tables,     \* the tables it loads: sequences of <<destination, name>>
  TableSize,  \* CSP_RTABLE_SIZE
  NameMax,    \* CSP_IFLIST_NAME_MAX
  None

ASSUME RoutingAssumption ==
  /\ TableSize \in Nat \ {0} /\ NameMax \in Nat \ {0}
  /\ Ifaces \cap {Loop, Self, None} = {}
  /\ Loop # Self /\ None \notin {Loop, Self}
  /\ Default \in Dests /\ "loopback" \notin Dests
  /\ \A t \in Tables : t \in Seq(ToSet(t))

VARIABLES
  iflist,     \* the registered interfaces, in order
  table,      \* the rows of the routing table
  loading,    \* what load has still to set (bound: one load at a time)
  cleared,    \* clear or free_all has been called
  held,       \* a RouteEntry, IfaceRef or list of names that somebody keeps, or None
  walk        \* the latest call of iterate, or None

routing == <<iflist, table, loading, cleared, held, walk>>

LOOP == <<76, 79, 79, 80>>
SELF == <<83, 69, 76, 70>>
CAN == <<67, 65, 78>>   \* CSP_IF_CAN_DEFAULT_NAME
Name(i) == IF i = Loop THEN LOOP ELSE IF i = Self THEN SELF ELSE NameOf[i]

Row(d, i) == [dest |-> d, iface |-> i]
LoopRow == Row("loopback", Loop)

RoutingInit ==
  /\ iflist = << >>
  /\ table = << >>
  /\ loading = << >>
  /\ cleared = FALSE
  /\ held = None
  /\ walk = None

(* The entries of the tables, and the destinations the application routes. *)
Entries == UNION {ToSet(t) : t \in Tables}
Routed == Dests \cup {e[1] : e \in Entries}

(* The interfaces that a name finds: equal but for case.                   *)
Named ==
  LET all == Ifaces \cup {Loop, Self}
      asked == {Name(i) : i \in all} \cup {e[2] : e \in Entries}
  IN  [n \in asked |-> {i \in all : Strncasecmp(n, Name(i), NameMax) = 0}]

(* External: csp_iflist_get_by_name, the first of them in the list.        *)
Lookup(n) ==
  LET k == SelectInSeq(iflist, LAMBDA i : i \in Named[n])
  IN  IF k = 0 THEN None ELSE iflist[k]

(* External: csp_rtable_set changes the destination's row in place, or     *)
(* takes the next one; with none left it returns an error.                 *)
SetRow(t, d, i) ==
  LET k == SelectInSeq(t, LAMBDA r : r.dest = d)
  IN  IF k # 0 THEN [t EXCEPT ![k].iface = i]
      ELSE IF Len(t) < TableSize THEN Append(t, Row(d, i))
      ELSE t

(* External: csp_rtable_find_route, the longest prefix; 0 for none.        *)
Match(d) ==
  LET k == SelectInSeq(table, LAMBDA r : r.dest = d)
  IN  IF k # 0 THEN k ELSE SelectInSeq(table, LAMBDA r : r.dest = Default)

-----------------------------------------------------------------------------
(* interface::register: leaked state, appended to the list.                *)
Register(i) ==
  /\ i \notin ToSet(iflist)
  /\ iflist' = Append(iflist, i)
  /\ UNCHANGED <<table, loading, cleared, held, walk>>

(* can::add_interface, add_interface_socketcan: the driver may refuse,     *)
(* and then only the leak remains.                                         *)
AddDriver(i) ==
  /\ i \notin ToSet(iflist)
  /\ iflist' \in {iflist, Append(iflist, i)}
  /\ UNCHANGED <<table, loading, cleared, held, walk>>

(* set_raw, with set_default, set_default_can and route_set_raw; on a full *)
(* table the caller gets NoMemory.                                         *)
SetRaw(d, i) ==
  /\ i \in ToSet(iflist)
  /\ table' = SetRow(table, d, i)
  /\ UNCHANGED <<iflist, loading, cleared, held, walk>>

(* load, route_load: nothing is locked while C sets the rows.  Under       *)
(* external-arch it returns NotImplemented and changes nothing.            *)
Load(entries) ==
  /\ loading = << >>
  /\ loading' = entries
  /\ UNCHANGED <<iflist, table, cleared, held, walk>>

(* External: csp_rtable_load sets the rows in order and gives up at the    *)
(* first interface it cannot find; the rows already set stay.              *)
LoadRow ==
  /\ loading # << >>
  /\ LET i == Lookup(Head(loading)[2])
     IN  IF i = None
         THEN loading' = << >> /\ UNCHANGED table
         ELSE loading' = Tail(loading) /\ table' = SetRow(table, Head(loading)[1], i)
  /\ UNCHANGED <<iflist, cleared, held, walk>>

(* clear keeps LOOP's row, free_all none; neither knows of the entries     *)
(* that are held or being walked over.                                     *)
Clear ==
  /\ table' \in {<<LoopRow>>, << >>}
  /\ cleared' = TRUE
  /\ held' = IF held # None /\ held.kind = "route"
             THEN [held EXCEPT !.removed = TRUE] ELSE held
  /\ walk' = IF walk # None THEN [walk EXCEPT !.whole = FALSE] ELSE walk
  /\ UNCHANGED <<iflist, loading>>

-----------------------------------------------------------------------------
Entry(k) == [kind |-> "route", slot |-> k, removed |-> FALSE,
             dest |-> IF k = 0 THEN None ELSE table[k].dest]

(* Mutant: a null from libcsp is wrapped like any other pointer.           *)
Find_NullToo(d) ==
  /\ held' = Entry(Match(d))
  /\ UNCHANGED <<iflist, table, loading, cleared, walk>>

(* find: a view into the row, or None.                                     *)
Find(d) ==
  /\ held' = IF Match(d) = 0 THEN None ELSE Entry(Match(d))
  /\ UNCHANGED <<iflist, table, loading, cleared, walk>>

(* iflist::lookup                                                          *)
LookupIface(n) ==
  /\ held' = IF Lookup(n) = None THEN None
             ELSE [kind |-> "iface", name |-> n, iface |-> Lookup(n)]
  /\ UNCHANGED <<iflist, table, loading, cleared, walk>>

(* list_names: the list only grows at its end, so the walk that reads it   *)
(* is one step, the one that finds no next.                                *)
ListNames ==
  /\ held' = [kind |-> "names", names |-> [k \in DOMAIN iflist |-> Name(iflist[k])]]
  /\ UNCHANGED <<iflist, table, loading, cleared, walk>>

(* The handle is dropped.                                                  *)
LetGo ==
  /\ held # None
  /\ held' = None
  /\ UNCHANGED <<iflist, table, loading, cleared, walk>>

Walking == walk # None /\ walk.going

(* iterate                                                                 *)
WalkStart ==
  /\ ~Walking
  /\ walk' = [next |-> 1, seen |-> << >>, answers |-> << >>, rows |-> Len(table),
              whole |-> TRUE, going |-> TRUE]
  /\ UNCHANGED <<iflist, table, loading, cleared, held>>

(* Mutant: keep_going starts as true, so a panic does not stop the walk.   *)
KeepGoing_ByDefault(answer) == answer # "false"

(* What the shim tells C: false, unless the closure returned true.         *)
KeepGoing(answer) == answer = "true"

(* C calls the shim with the next row; the closure may panic.              *)
WalkCall(answer) ==
  /\ Walking
  /\ walk.next <= Len(table)
  /\ walk' = [walk EXCEPT !.next = @ + 1,
                          !.seen = Append(@, table[walk.next].dest),
                          !.answers = Append(@, answer),
                          !.going = KeepGoing(answer)]
  /\ UNCHANGED <<iflist, table, loading, cleared, held>>

(* No row is left.                                                         *)
WalkEnd ==
  /\ Walking
  /\ walk.next > Len(table)
  /\ walk' = [walk EXCEPT !.going = FALSE]
  /\ UNCHANGED <<iflist, table, loading, cleared, held>>

RoutingNext ==
  \/ \E i \in Ifaces : Register(i) \/ AddDriver(i) \/ \E d \in Dests : SetRaw(d, i)
  \/ \E entries \in Tables : Load(entries)
  \/ LoadRow
  \/ Clear
  \/ \E d \in Dests : Find(d)
  \/ \E i \in Ifaces \cup {Loop} : LookupIface(Name(i))
  \/ ListNames
  \/ LetGo
  \/ WalkStart
  \/ \E answer \in {"true", "false", "panic"} : WalkCall(answer)
  \/ WalkEnd

-----------------------------------------------------------------------------
(* A RouteEntry from find points at a row, and goes on showing the         *)
(* destination it was found under whatever routes are set or loaded, until *)
(* the table is cleared; an IfaceRef goes on being what lookup of its name *)
(* returns whatever is registered after it, and list_names the beginning   *)
(* of the list it names.                                                   *)
HandlesStayTrue ==
  held # None =>
    \/ held.kind = "iface" /\ held.iface = Lookup(held.name)
    \/ held.kind = "names" /\ IsPrefix(held.names, [k \in DOMAIN iflist |-> Name(iflist[k])])
    \/ held.kind = "route" /\ held.removed
    \/ /\ held.kind = "route"
       /\ held.slot \in DOMAIN table
       /\ table[held.slot].dest = held.dest

(* iterate shows the rows in order and each once, routes set by others in  *)
(* the meantime included, and misses none of those it began with; and the  *)
(* closure is never called again once it returned false or panicked.       *)
(* Only a clear under the walk breaks it off.                              *)
WalkSeesEveryRoute ==
  walk # None =>
    /\ \A k \in 1 .. Len(walk.answers) - 1 : walk.answers[k] = "true"
    /\ walk.whole =>
         /\ \A k \in DOMAIN walk.seen : walk.seen[k] = table[k].dest
         /\ ~walk.going => Len(walk.seen) >= walk.rows \/ Last(walk.answers) # "true"
=============================================================================
