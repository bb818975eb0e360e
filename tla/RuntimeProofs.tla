--------------------------- MODULE RuntimeProofs ---------------------------
(***************************************************************************)
(* Runtime for every set of calls of init, of interfaces, routes and       *)
(* sniffing threads, and every size of the routing table: the life cycle   *)
(* of the node, what the wrapper hands out of libcsp's lists, and the      *)
(* promiscuous-mode handle.                                                *)
(***************************************************************************)
EXTENDS Runtime, FiniteSetTheorems, WellFoundedInduction, TLAPS

(* What may stand in the interface list, and in a row of the table.        *)
All == Ifaces \cup {Loop, Self}
Addresses == Routed \cup Calls \cup {"loopback"}
Rows == [dest : Addresses, iface : All]

RouteHandles == [kind : {"route"}, slot : Nat, removed : BOOLEAN, dest : Addresses]
Walks == [next : Nat, seen : Seq(Addresses), answers : Seq({"true", "false", "panic"}),
          rows : Nat, whole : BOOLEAN, going : BOOLEAN]

Lists ==
  /\ iflist \in Seq(All)
  /\ table \in Seq(Rows) /\ Len(table) <= TableSize
  /\ loading \in Seq(Entries)
  /\ cleared \in BOOLEAN

(* HandlesStayTrue, with the names in closed form.                         *)
Handles ==
  held # None =>
    \/ held.kind = "iface" /\ held.iface # None /\ held.iface = Lookup(held.name)
    \/ /\ held.kind = "names"
       /\ \E m \in 0 .. Len(iflist) : held.names = [k \in 1 .. m |-> Name(iflist[k])]
    \/ held \in RouteHandles /\ held.removed
    \/ /\ held \in RouteHandles
       /\ held.slot \in 1 .. Len(table)
       /\ table[held.slot].dest = held.dest

(* The walk has shown the rows before the next; it goes on as long as the  *)
(* closure has always answered true; the table still has every row it      *)
(* began with, unless it was cleared.                                      *)
Walked ==
  walk # None =>
    /\ walk \in Walks
    /\ Len(walk.answers) = Len(walk.seen)
    /\ walk.next = Len(walk.seen) + 1
    /\ \A k \in 1 .. Len(walk.answers) - 1 : walk.answers[k] = "true"
    /\ walk.going => \A k \in 1 .. Len(walk.answers) : walk.answers[k] = "true"
    /\ walk.whole =>
         /\ walk.rows <= Len(table) /\ Len(walk.seen) <= Len(table)
         /\ \A k \in 1 .. Len(walk.seen) : walk.seen[k] = table[k].dest
         /\ ~walk.going => Len(walk.seen) >= walk.rows
                           \/ walk.answers[Len(walk.answers)] # "true"

(* One call at most is through the swap; nobody has a node, and nothing    *)
(* that takes a node exists, before it is done; the Arc counts its owners. *)
Through(c) == pc[c] \in Steps \cup {"done"}

Life ==
  /\ TypeOK
  /\ \A c, d \in Calls : Through(c) /\ Through(d) => c = d
  /\ (\E c \in Calls : Through(c)) => initialized
  /\ strong = clones + (IF router THEN 1 ELSE 0)
  /\ clones > 0 \/ router \/ conn \/ read # "none" => \E c \in Calls : pc[c] = "done"
  /\ IdentReadsLiveStrings

(* What the globals hold once that call has come past each of its steps.   *)
SelfOnce == \E k \in 1 .. Len(iflist) : \A j \in 1 .. Len(iflist) : iflist[j] = Self <=> j = k

LoopParked ==
  \/ parked = Loop
  \/ \E k \in 1 .. Len(iflist) :
       /\ iflist[k] = parked /\ parked \in Named[LOOP]
       /\ \A j \in 1 .. k : iflist[j] # Loop

AfterConfigure == {"addSelf", "park", "route", "publish", "done"}
AfterSelf == AfterConfigure \ {"addSelf"}

Globals ==
  \A c \in Calls :
    /\ pc[c] \in AfterConfigure => conf = c /\ \E k \in 1 .. Len(iflist) : iflist[k] = Loop
    /\ pc[c] \in AfterSelf => selfAddr = c /\ SelfOnce
    /\ pc[c] \in {"route", "publish", "done"} => LoopParked
    /\ pc[c] = "done" => nodeAddress = c

NoSelfYet ==
  (\A c \in Calls : pc[c] \notin AfterSelf) => \A k \in 1 .. Len(iflist) : iflist[k] # Self

(* Until the table is cleared, only init's row is about an address that    *)
(* the application does not route, and it stays unless it found no room.   *)
SelfRoute ==
  ~cleared =>
    /\ \A k \in 1 .. Len(table) : table[k].dest \in Routed \/ table[k].iface = Self
    /\ \A c \in Calls : pc[c] \in {"publish", "done"} =>
         Len(table) = TableSize \/ \E k \in 1 .. Len(table) : table[k].dest = c

(* The flag is set exactly while one user is between the two swaps, and    *)
(* libcsp captures exactly while that user has its Sniffer.                *)
Capturing ==
  /\ Sn!TypeOK
  /\ \A u, v \in Users : handle[u] # "idle" /\ handle[v] # "idle" => u = v
  /\ active <=> \E u \in Users : handle[u] # "idle"
  /\ enabled <=> \E u \in Users : handle[u] = "open"

Inv == Lists /\ Handles /\ Walked /\ Life /\ Globals /\ NoSelfYet /\ SelfRoute /\ Capturing

-----------------------------------------------------------------------------
(* The operators.                                                          *)

Below == {ss \in Nat \X Nat : ss[1] < ss[2]}

(* Min returns the least of a set of naturals.                             *)
LEMMA MinIsLeast ==
  ASSUME NEW S \in SUBSET Nat, S # {}
  PROVE  Min(S) \in S /\ \A y \in S : Min(S) <= y
<1>1. IsWellFoundedOn(Below, Nat)
  BY NatLessThanWellFounded DEF OpToRel, Below
<1>2. PICK x \in S : \A y \in S : ~ (<<y, x>> \in Below)
  BY <1>1, WFMin
<1>3. \A y \in S : x <= y
  <2> TAKE y \in S
  <2>1. x \in Nat /\ y \in Nat
    OBVIOUS
  <2>2. <<y, x>> \in Below <=> y < x
    BY <2>1 DEF Below
  <2> QED BY <2>1, <2>2, <1>2
<1> QED BY <1>3 DEF Min

(* The least of the positions that have a property.                        *)
LEMMA FirstOf ==
  ASSUME NEW n \in Nat, NEW I \in SUBSET (1 .. n), NEW k,
         k = IF I # {} THEN Min(I) ELSE 0
  PROVE  /\ k = 0 => I = {}
         /\ k # 0 => k \in I /\ \A j \in 1 .. k - 1 : j \notin I
<1>1. CASE I = {}
  BY <1>1
<1>2. CASE I # {}
  <2>1. I \in SUBSET Nat
    OBVIOUS
  <2>2. k \in I /\ \A y \in I : k <= y
    BY <1>2, <2>1, MinIsLeast
  <2> QED BY <2>2
<1> QED BY <1>1, <1>2

(* csp_iflist_get_by_name returns the first interface of that name.        *)
LEMMA LookupFirst ==
  ASSUME iflist \in Seq(All), NEW n
  PROVE  \/ Lookup(n) = None /\ \A k \in 1 .. Len(iflist) : iflist[k] \notin Named[n]
         \/ \E k \in 1 .. Len(iflist) :
              /\ Lookup(n) = iflist[k] /\ iflist[k] \in Named[n]
              /\ \A j \in 1 .. k - 1 : iflist[j] \notin Named[n]
<1> DEFINE I == {i \in 1 .. Len(iflist) : iflist[i] \in Named[n]}
           k == IF I # {} THEN Min(I) ELSE 0
<1>1. Lookup(n) = IF k = 0 THEN None ELSE iflist[k]
  BY DEF Lookup, SelectInSeq
<1>2. Len(iflist) \in Nat
  OBVIOUS
<1>3. /\ k = 0 => I = {}
      /\ k # 0 => k \in I /\ \A j \in 1 .. k - 1 : j \notin I
  <2> HIDE DEF I
  <2>1. I \in SUBSET (1 .. Len(iflist))
    BY DEF I
  <2> QED BY <1>2, <2>1, FirstOf
<1> HIDE DEF k
<1>4. CASE k = 0
  BY <1>1, <1>3, <1>4
<1>5. CASE k # 0
  BY <1>1, <1>2, <1>3, <1>5
<1> QED BY <1>4, <1>5

(* The list grows at its end only.                                         *)
Grows ==
  /\ iflist' \in Seq(All)
  /\ Len(iflist) <= Len(iflist')
  /\ \A k \in 1 .. Len(iflist) : iflist'[k] = iflist[k]

(* An interface once found by a name is found by it for good.              *)
LEMMA LookupStable ==
  ASSUME iflist \in Seq(All), Grows, NEW n, Lookup(n) # None
  PROVE  Lookup(n)' = Lookup(n)
<1> DEFINE I == {i \in 1 .. Len(iflist) : iflist[i] \in Named[n]}
           J == {i \in 1 .. Len(iflist') : iflist'[i] \in Named[n]}
<1>1. Lookup(n) = LET k == IF I # {} THEN Min(I) ELSE 0 IN IF k = 0 THEN None ELSE iflist[k]
  BY DEF Lookup, SelectInSeq
<1>2. Lookup(n)' = LET k == IF J # {} THEN Min(J) ELSE 0 IN IF k = 0 THEN None ELSE iflist'[k]
  BY DEF Lookup, SelectInSeq, Named, All, Name
<1>3. Len(iflist) \in Nat /\ Len(iflist') \in Nat
  BY DEF Grows
<1>4. I # {}
  <2> SUFFICES ASSUME I = {} PROVE FALSE
    OBVIOUS
  <2> QED BY <1>1
<1>5. I \in SUBSET Nat /\ J \in SUBSET Nat /\ I \subseteq J
  BY <1>3 DEF Grows
<1>6. Min(I) \in I /\ \A y \in I : Min(I) <= y
  BY <1>4, <1>5, MinIsLeast
<1>7. Min(J) \in J /\ \A y \in J : Min(J) <= y
  <2>1. J # {}
    BY <1>4, <1>5
  <2> HIDE DEF I, J
  <2> QED BY <2>1, <1>5, MinIsLeast
<1>8. Min(J) = Min(I)
  <2> DEFINE a == Min(I)
             b == Min(J)
  <2>1. a \in I /\ b \in J /\ b <= a /\ a \in Nat /\ b \in Nat
    BY <1>5, <1>6, <1>7
  <2>2. b \in I
    <3> HIDE DEF a, b
    <3> QED BY <2>1, <1>3 DEF Grows
  <2>3. a <= b
    BY <1>6, <2>2
  <2> QED BY <2>1, <2>3
<1>9. iflist'[Min(I)] = iflist[Min(I)]
  BY <1>6 DEF Grows
<1>10. Lookup(n) = iflist[Min(I)]
  BY <1>1, <1>4, <1>6
<1>11. Lookup(n)' = iflist'[Min(J)]
  BY <1>2, <1>4, <1>5, <1>7
<1> QED BY <1>8, <1>9, <1>10, <1>11

(* csp_rtable_find_route returns a row, if any.                            *)
LEMMA MatchFacts ==
  ASSUME table \in Seq(Rows), NEW d
  PROVE  /\ Match(d) \in 0 .. Len(table)
         /\ (\E k \in 1 .. Len(table) : table[k].dest = d)
              => Match(d) # 0 /\ table[Match(d)].dest = d
<1> DEFINE I == {i \in 1 .. Len(table) : table[i].dest = d}
           J == {i \in 1 .. Len(table) : table[i].dest = Default}
           a == IF I # {} THEN Min(I) ELSE 0
           b == IF J # {} THEN Min(J) ELSE 0
<1>1. Match(d) = IF a # 0 THEN a ELSE b
  BY DEF Match, SelectInSeq
<1>2. Len(table) \in Nat
  OBVIOUS
<1>3. I \in SUBSET (1 .. Len(table)) /\ J \in SUBSET (1 .. Len(table))
  OBVIOUS
<1>4. I = {} <=> \A k \in 1 .. Len(table) : table[k].dest # d
  OBVIOUS
<1>5. \A k \in I : table[k].dest = d
  OBVIOUS
<1> HIDE DEF I, J
<1>6. (a = 0 => I = {}) /\ (a # 0 => a \in I)
  BY <1>2, <1>3, FirstOf
<1>7. b # 0 => b \in J
  BY <1>2, <1>3, FirstOf
<1> HIDE DEF a, b
<1>8. a = 0 \/ a \in 1 .. Len(table)
  BY <1>3, <1>6
<1>9. b = 0 \/ b \in 1 .. Len(table)
  BY <1>3, <1>7
<1> QED BY <1>1, <1>2, <1>4, <1>5, <1>6, <1>8, <1>9

(* csp_rtable_set keeps every row's destination and changes or adds at     *)
(* most one row, the destination's, which exists unless there was no room. *)
LEMMA SetRowFacts ==
  ASSUME NEW t \in Seq(Rows), Len(t) <= TableSize, NEW d \in Addresses, NEW i \in All
  PROVE  /\ SetRow(t, d, i) \in Seq(Rows)
         /\ Len(SetRow(t, d, i)) \in Len(t) .. TableSize
         /\ \A k \in 1 .. Len(t) : SetRow(t, d, i)[k].dest = t[k].dest
         /\ \A k \in 1 .. Len(SetRow(t, d, i)) :
              \/ SetRow(t, d, i)[k] = Row(d, i)
              \/ k \in 1 .. Len(t) /\ SetRow(t, d, i)[k] = t[k]
         /\ \/ Len(SetRow(t, d, i)) = TableSize
            \/ \E k \in 1 .. Len(SetRow(t, d, i)) : SetRow(t, d, i)[k].dest = d
<1> DEFINE I == {j \in 1 .. Len(t) : t[j].dest = d}
           k == IF I # {} THEN Min(I) ELSE 0
<1>1. SetRow(t, d, i) = IF k # 0 THEN [t EXCEPT ![k].iface = i]
                        ELSE IF Len(t) < TableSize THEN Append(t, Row(d, i))
                        ELSE t
  BY DEF SetRow, SelectInSeq
<1>2. Len(t) \in Nat /\ TableSize \in Nat
  BY RoutingAssumption
<1>3. k # 0 => k \in 1 .. Len(t) /\ t[k].dest = d
  <2>1. I \in SUBSET (1 .. Len(t)) /\ \A j \in I : t[j].dest = d
    OBVIOUS
  <2> HIDE DEF I
  <2>2. k # 0 => k \in I
    BY <1>2, <2>1, FirstOf
  <2> QED BY <2>1, <2>2
<1> HIDE DEF k
<1>4. Row(d, i) \in Rows /\ Row(d, i).dest = d
  BY DEF Row, Rows
<1>5. CASE k # 0
  <2>1. SetRow(t, d, i) = [t EXCEPT ![k].iface = i]
    BY <1>1, <1>5
  <2>2. [t[k] EXCEPT !.iface = i] = Row(d, i)
    <3> DEFINE r == t[k]
    <3>1. r \in Rows /\ r.dest = d
      BY <1>3, <1>5
    <3> HIDE DEF r
    <3>2. r = [dest |-> r.dest, iface |-> r.iface]
      BY <3>1 DEF Rows
    <3>3. [r EXCEPT !.iface = i] = [dest |-> d, iface |-> i]
      BY <3>1, <3>2
    <3> QED BY <3>3 DEF Row, r
  <2>3. SetRow(t, d, i) = [t EXCEPT ![k] = Row(d, i)]
    BY <2>1, <2>2
  <2> QED BY <2>3, <1>2, <1>3, <1>4, <1>5
<1>6. CASE k = 0 /\ Len(t) < TableSize
  <2>1. SetRow(t, d, i) = Append(t, Row(d, i))
    BY <1>1, <1>6
  <2> QED BY <2>1, <1>2, <1>4, <1>6
<1>7. CASE k = 0 /\ ~(Len(t) < TableSize)
  <2>1. SetRow(t, d, i) = t
    BY <1>1, <1>7
  <2> QED BY <2>1, <1>2, <1>7
<1> QED BY <1>5, <1>6, <1>7

-----------------------------------------------------------------------------
(* What a step leaves true that only adds interfaces and sets routes.      *)

(* The table keeps the destinations of its rows.                           *)
Keeps ==
  /\ table' \in Seq(Rows)
  /\ Len(table) <= Len(table') /\ Len(table') <= TableSize
  /\ \A k \in 1 .. Len(table) : table'[k].dest = table[k].dest

(* An unchanged list has not shrunk.                                       *)
LEMMA SameGrows == Lists /\ iflist' = iflist => Grows
BY DEF Lists, Grows

(* A registration puts one interface at the end of the list.               *)
LEMMA AppendGrows ==
  ASSUME Lists, NEW i \in All, iflist' = Append(iflist, i)
  PROVE  Grows /\ Len(iflist') = Len(iflist) + 1 /\ iflist'[Len(iflist) + 1] = i
BY DEF Lists, Grows

(* An unchanged table keeps its destinations.                              *)
LEMMA SameKeeps == Lists /\ table' = table => Keeps
BY RoutingAssumption DEF Lists, Keeps

(* csp_rtable_set keeps the destinations of the rows there are.            *)
LEMMA SetRowKeeps ==
  ASSUME Lists, NEW d \in Addresses, NEW i \in All, table' = SetRow(table, d, i)
  PROVE  Keeps
<1>1. Len(table) \in Nat /\ TableSize \in Nat
  BY RoutingAssumption DEF Lists
<1>2. /\ table' \in Seq(Rows)
      /\ Len(table') \in Len(table) .. TableSize
      /\ \A k \in 1 .. Len(table) : table'[k].dest = table[k].dest
  BY SetRowFacts DEF Lists
<1> QED BY <1>1, <1>2 DEF Keeps

(* Handles survive whatever is registered, set and loaded.                 *)
LEMMA HandlesKept ==
  ASSUME Lists, Handles, Grows, Keeps, held' = held
  PROVE  Handles'
<1> SUFFICES ASSUME held # None
             PROVE  Handles'
  BY DEF Handles
<1>0. Len(iflist) \in Nat /\ Len(iflist') \in Nat /\ Len(table) \in Nat /\ Len(table') \in Nat
  BY DEF Lists, Grows, Keeps
<1>1. CASE held.kind = "iface" /\ held.iface # None /\ held.iface = Lookup(held.name)
  <2>1. Lookup(held.name)' = Lookup(held.name)
    <3> DEFINE n == held.name
    <3>1. Lookup(n) # None
      BY <1>1
    <3>2. n' = n
      OBVIOUS
    <3>3. \A m : Lookup(m) # None => Lookup(m)' = Lookup(m)
      <4> TAKE m
      <4> QED BY LookupStable DEF Lists
    <3> QED BY <3>1, <3>2, <3>3 DEF Lookup, SelectInSeq
  <2> QED BY <1>1, <2>1 DEF Handles
<1>2. CASE /\ held.kind = "names"
           /\ \E m \in 0 .. Len(iflist) : held.names = [k \in 1 .. m |-> Name(iflist[k])]
  <2>1. PICK m \in 0 .. Len(iflist) : held.names = [k \in 1 .. m |-> Name(iflist[k])]
    BY <1>2
  <2>2. \A k \in 1 .. m : iflist'[k] = iflist[k]
    BY <1>0 DEF Grows
  <2>3. held.names = [k \in 1 .. m |-> Name(iflist'[k])]
    BY <2>1, <2>2
  <2>4. m \in 0 .. Len(iflist')
    BY <1>0 DEF Grows
  <2> QED BY <1>2, <2>3, <2>4 DEF Handles, Name
<1>3. CASE held \in RouteHandles /\ held.removed
  BY <1>3 DEF Handles
<1>4. CASE /\ held \in RouteHandles
           /\ held.slot \in 1 .. Len(table)
           /\ table[held.slot].dest = held.dest
  <2>1. held.slot \in 1 .. Len(table') /\ table'[held.slot].dest = held.dest
    BY <1>0, <1>4 DEF Keeps
  <2> QED BY <1>4, <2>1 DEF Handles
<1> QED BY <1>1, <1>2, <1>3, <1>4 DEF Handles

(* So does what a walk has shown.                                          *)
LEMMA WalkedKept ==
  ASSUME Lists, Walked, Keeps, walk' = walk
  PROVE  Walked'
<1> SUFFICES ASSUME walk # None
             PROVE  Walked'
  BY DEF Walked
<1>1. Len(table) \in Nat /\ Len(table') \in Nat
  BY DEF Lists, Keeps
<1>2. walk \in Walks
  BY DEF Walked
<1>3. Len(walk.seen) \in Nat /\ walk.rows \in Nat
  BY <1>2 DEF Walks
<1>4. walk.whole =>
         /\ walk.rows <= Len(table') /\ Len(walk.seen) <= Len(table')
         /\ \A k \in 1 .. Len(walk.seen) : walk.seen[k] = table'[k].dest
  BY <1>1, <1>3 DEF Walked, Keeps
<1> QED BY <1>2, <1>4 DEF Walked

(* And what init has put into the interface list.                          *)
LEMMA GlobalsKept ==
  ASSUME Lists, Globals, NoSelfYet, Grows,
         \A k \in 1 .. Len(iflist') : k > Len(iflist) => iflist'[k] # Self,
         UNCHANGED <<pc, globals>>
  PROVE  Globals' /\ NoSelfYet'
<1>1. Len(iflist) \in Nat /\ Len(iflist') \in Nat
  BY DEF Lists, Grows
<1>2. (\E k \in 1 .. Len(iflist) : iflist[k] = Loop) => \E k \in 1 .. Len(iflist') : iflist'[k] = Loop
  BY <1>1 DEF Grows
<1>3. SelfOnce => SelfOnce'
  <2> SUFFICES ASSUME SelfOnce PROVE SelfOnce'
    OBVIOUS
  <2>1. PICK k \in 1 .. Len(iflist) : \A j \in 1 .. Len(iflist) : iflist[j] = Self <=> j = k
    BY DEF SelfOnce
  <2>2. k \in 1 .. Len(iflist') /\ \A j \in 1 .. Len(iflist') : iflist'[j] = Self <=> j = k
    BY <1>1, <2>1 DEF Grows
  <2> QED BY <2>2 DEF SelfOnce
<1>4. LoopParked => LoopParked'
  <2>1. CASE parked = Loop
    BY <2>1 DEF LoopParked, globals
  <2>2. ASSUME NEW k \in 1 .. Len(iflist), iflist[k] = parked, parked \in Named[LOOP],
               \A j \in 1 .. k : iflist[j] # Loop
        PROVE  LoopParked'
    <3>1. k \in 1 .. Len(iflist') /\ iflist'[k] = parked /\ parked' = parked
      BY <1>1, <2>2 DEF Grows, globals
    <3>2. \A j \in 1 .. k : iflist'[j] # Loop
      BY <1>1, <2>2 DEF Grows
    <3> QED BY <2>2, <3>1, <3>2 DEF LoopParked
  <2> QED BY <2>1, <2>2 DEF LoopParked
<1>5. Globals'
  BY <1>2, <1>3, <1>4 DEF Globals, globals
<1>6. NoSelfYet'
  BY <1>1 DEF NoSelfYet, Grows
<1> QED BY <1>5, <1>6

(* And init's own route.                                                   *)
LEMMA SelfRouteKept ==
  ASSUME Lists, SelfRoute, NEW d \in Addresses, NEW i \in All, d \in Routed \/ i = Self,
         table' = SetRow(table, d, i), cleared' = cleared, pc' = pc
  PROVE  SelfRoute'
<1> SUFFICES ASSUME ~cleared
             PROVE  SelfRoute'
  BY DEF SelfRoute
<1>1. Len(table) \in Nat /\ TableSize \in Nat
  BY RoutingAssumption DEF Lists
<1>2. /\ table' \in Seq(Rows)
      /\ Len(table') \in Len(table) .. TableSize
      /\ \A k \in 1 .. Len(table) : table'[k].dest = table[k].dest
      /\ \A k \in 1 .. Len(table') :
           table'[k] = Row(d, i) \/ (k \in 1 .. Len(table) /\ table'[k] = table[k])
  BY SetRowFacts DEF Lists
<1>3. Row(d, i).dest = d /\ Row(d, i).iface = i
  BY DEF Row
<1>4. \A k \in 1 .. Len(table') : table'[k].dest \in Routed \/ table'[k].iface = Self
  BY <1>2, <1>3 DEF SelfRoute
<1>5. \A c \in Calls : pc[c] \in {"publish", "done"} =>
         Len(table') = TableSize \/ \E k \in 1 .. Len(table') : table'[k].dest = c
  <2> SUFFICES ASSUME NEW c \in Calls, pc[c] \in {"publish", "done"}
               PROVE  Len(table') = TableSize \/ \E k \in 1 .. Len(table') : table'[k].dest = c
    OBVIOUS
  <2>1. CASE Len(table) = TableSize
    BY <1>1, <1>2, <2>1
  <2>2. CASE \E k \in 1 .. Len(table) : table[k].dest = c
    BY <1>1, <1>2, <2>2
  <2> QED BY <2>1, <2>2 DEF SelfRoute
<1> QED BY <1>4, <1>5 DEF SelfRoute

-----------------------------------------------------------------------------
(* The steps of Routing.                                                   *)

RoutingInv == Lists /\ Handles /\ Walked /\ Globals /\ NoSelfYet /\ SelfRoute

(* interface::register and the CAN drivers.                                *)
LEMMA RegisterKeepsInv ==
  ASSUME RoutingInv, UNCHANGED <<pc, globals>>, NEW i \in Ifaces, Register(i) \/ AddDriver(i)
  PROVE  RoutingInv'
<1> USE DEF RoutingInv
<1>1. UNCHANGED <<table, loading, cleared, held, walk>>
  BY DEF Register, AddDriver
<1>2. iflist' = iflist \/ iflist' = Append(iflist, i)
  BY DEF Register, AddDriver
<1>3. i \in All /\ i # Self
  BY RoutingAssumption DEF All
<1>4. Len(iflist) \in Nat
  BY DEF Lists
<1>5. Grows /\ \A k \in 1 .. Len(iflist') : k > Len(iflist) => iflist'[k] # Self
  <2>1. CASE iflist' = iflist
    BY <1>4, <2>1, SameGrows
  <2>2. CASE iflist' = Append(iflist, i)
    <3>1. Grows /\ Len(iflist') = Len(iflist) + 1 /\ iflist'[Len(iflist) + 1] = i
      BY <1>3, <2>2, AppendGrows
    <3> QED BY <1>3, <1>4, <3>1
  <2> QED BY <1>2, <2>1, <2>2
<1>6. Keeps
  BY <1>1, SameKeeps
<1>7. Lists'
  BY <1>1, <1>5 DEF Lists, Grows
<1>8. Handles' /\ Walked'
  BY <1>1, <1>5, <1>6, HandlesKept, WalkedKept
<1>9. Globals' /\ NoSelfYet'
  BY <1>5, GlobalsKept
<1>10. SelfRoute'
  BY <1>1 DEF SelfRoute
<1> QED BY <1>7, <1>8, <1>9, <1>10

(* A step that leaves the list alone leaves what init put there.           *)
LEMMA SameListKeeps ==
  ASSUME RoutingInv, UNCHANGED <<pc, globals, iflist>>
  PROVE  Grows /\ Globals' /\ NoSelfYet'
<1> USE DEF RoutingInv
<1>1. Grows
  BY SameGrows
<1>2. \A k \in 1 .. Len(iflist') : k > Len(iflist) => iflist'[k] # Self
  BY DEF Lists
<1>3. UNCHANGED <<pc, globals>>
  BY DEF globals
<1> QED BY <1>1, <1>2, <1>3, GlobalsKept

(* csp_rtable_set, from set_raw or from load.                              *)
LEMMA SetKeepsInv ==
  ASSUME RoutingInv, NEW d \in Routed, NEW i \in All, table' = SetRow(table, d, i),
         loading' \in Seq(Entries), UNCHANGED <<pc, globals, iflist, cleared, held, walk>>
  PROVE  RoutingInv'
<1> USE DEF RoutingInv
<1>1. d \in Addresses
  BY DEF Addresses
<1>2. Keeps
  BY <1>1, SetRowKeeps
<1>3. Grows /\ Globals' /\ NoSelfYet'
  BY SameListKeeps
<1>4. Lists'
  BY <1>2 DEF Lists, Keeps
<1>5. Handles' /\ Walked'
  BY <1>2, <1>3, HandlesKept, WalkedKept
<1>6. SelfRoute'
  BY <1>1, SelfRouteKept
<1> QED BY <1>3, <1>4, <1>5, <1>6

(* set_raw sets a row for a destination of the application.                *)
LEMMA SetRawKeepsInv ==
  ASSUME RoutingInv, UNCHANGED <<pc, globals>>, NEW i \in Ifaces, NEW d \in Dests, SetRaw(d, i)
  PROVE  RoutingInv'
<1>1. d \in Routed /\ i \in All
  BY DEF Routed, All
<1>2. loading' \in Seq(Entries)
  BY DEF SetRaw, RoutingInv, Lists
<1> QED BY <1>1, <1>2, SetKeepsInv DEF SetRaw

(* load, and each row that csp_rtable_load sets.                           *)
LEMMA LoadKeepsInv ==
  ASSUME RoutingInv, UNCHANGED <<pc, globals>>, NEW entries \in Tables, Load(entries)
  PROVE  RoutingInv'
<1> USE DEF RoutingInv
<1>1. entries \in Seq(Entries)
  <2>1. entries \in Seq(ToSet(entries))
    BY RoutingAssumption
  <2>2. ToSet(entries) \subseteq Entries
    BY DEF Entries
  <2> QED BY <2>1, <2>2
<1>2. Grows /\ Globals' /\ NoSelfYet'
  BY SameListKeeps DEF Load
<1>3. Lists'
  BY <1>1 DEF Load, Lists
<1>4. Handles' /\ Walked'
  BY <1>2, SameKeeps, HandlesKept, WalkedKept DEF Load
<1>5. SelfRoute'
  BY DEF Load, SelfRoute
<1> QED BY <1>2, <1>3, <1>4, <1>5

(* csp_rtable_load sets one more row, or gives up.                         *)
LEMMA LoadRowKeepsInv ==
  ASSUME RoutingInv, UNCHANGED <<pc, globals>>, LoadRow
  PROVE  RoutingInv'
<1> USE DEF RoutingInv
<1> DEFINE e == Head(loading)
           i == Lookup(e[2])
<1>1. loading \in Seq(Entries) /\ loading # << >>
  BY DEF Lists, LoadRow
<1>2. e \in Entries /\ Tail(loading) \in Seq(Entries)
  BY <1>1
<1>3. CASE i = None
  <2>1. loading' = << >> /\ UNCHANGED <<iflist, table, cleared, held, walk>>
    BY <1>3 DEF LoadRow
  <2>2. Grows /\ Globals' /\ NoSelfYet'
    BY <2>1, SameListKeeps
  <2>3. Lists'
    BY <2>1 DEF Lists
  <2>4. Handles' /\ Walked'
    BY <2>1, <2>2, SameKeeps, HandlesKept, WalkedKept
  <2>5. SelfRoute'
    BY <2>1 DEF SelfRoute
  <2> QED BY <2>2, <2>3, <2>4, <2>5
<1>4. CASE i # None
  <2>1. i \in All
    <3> DEFINE n == e[2]
    <3> HIDE DEF e
    <3>1. iflist \in Seq(All) /\ Lookup(n) # None
      BY <1>4 DEF Lists
    <3> HIDE DEF n
    <3>2. \E k \in 1 .. Len(iflist) : Lookup(n) = iflist[k]
      BY <3>1, LookupFirst
    <3> QED BY <3>1, <3>2 DEF n
  <2>2. e[1] \in Routed
    BY <1>2 DEF Routed
  <2>3. /\ table' = SetRow(table, e[1], i) /\ loading' = Tail(loading)
        /\ UNCHANGED <<iflist, cleared, held, walk>>
    BY <1>4 DEF LoadRow
  <2> HIDE DEF i, e
  <2> QED BY <1>2, <2>1, <2>2, <2>3, SetKeepsInv
<1> QED BY <1>3, <1>4

(* clear and free_all: the entries found in the table are told apart.      *)
LEMMA ClearKeepsInv ==
  ASSUME RoutingInv, UNCHANGED <<pc, globals>>, Clear
  PROVE  RoutingInv'
<1> USE DEF RoutingInv
<1>1. Grows /\ Globals' /\ NoSelfYet'
  BY SameListKeeps DEF Clear
<1>2. Lists'
  <2>1. LoopRow \in Rows
    BY DEF LoopRow, Row, Rows, Addresses, All
  <2>2. table' \in Seq(Rows) /\ Len(table') <= TableSize
    <3>1. 1 <= TableSize /\ 0 <= TableSize
      BY RoutingAssumption
    <3>2. CASE table' = <<LoopRow>>
      BY <2>1, <3>1, <3>2
    <3>3. CASE table' = << >>
      BY <3>1, <3>3
    <3> QED BY <3>2, <3>3 DEF Clear
  <2> QED BY <2>2 DEF Clear, Lists
<1>3. Handles'
  <2>1. CASE held # None /\ held.kind = "route"
    <3>1. held \in RouteHandles
      BY <2>1 DEF Handles
    <3>2. held' = [held EXCEPT !.removed = TRUE]
      BY <2>1 DEF Clear
    <3>3. held' \in RouteHandles /\ held'.removed
      BY <3>1, <3>2 DEF RouteHandles
    <3> QED BY <3>3 DEF Handles
  <2>2. CASE ~(held # None /\ held.kind = "route")
    <3>1. held' = held /\ iflist' = iflist
      BY <2>2 DEF Clear
    <3>2. held # None => held \notin RouteHandles
      BY <2>2 DEF RouteHandles
    <3> QED BY <3>1, <3>2 DEF Handles, Lookup, SelectInSeq, Name
  <2> QED BY <2>1, <2>2
<1>4. Walked'
  <2>1. CASE walk = None
    BY <2>1 DEF Clear, Walked
  <2>2. CASE walk # None
    <3>1. walk \in Walks /\ walk' = [walk EXCEPT !.whole = FALSE]
      BY <2>2 DEF Clear, Walked
    <3>2. /\ walk' \in Walks /\ ~walk'.whole
          /\ walk'.answers = walk.answers /\ walk'.seen = walk.seen
          /\ walk'.next = walk.next /\ walk'.going = walk.going
      BY <3>1 DEF Walks
    <3> QED BY <2>2, <3>2 DEF Walked
  <2> QED BY <2>1, <2>2
<1>5. SelfRoute'
  BY DEF Clear, SelfRoute
<1> QED BY <1>1, <1>2, <1>3, <1>4, <1>5

(* A step that only changes the handle or the walk.                        *)
LEMMA ViewKeepsInv ==
  ASSUME RoutingInv, UNCHANGED <<pc, globals, iflist, table, loading, cleared>>,
         Handles', Walked'
  PROVE  RoutingInv'
<1> USE DEF RoutingInv
<1>1. Globals' /\ NoSelfYet'
  BY SameListKeeps
<1>2. Lists'
  BY DEF Lists
<1>3. SelfRoute'
  BY DEF SelfRoute
<1> QED BY <1>1, <1>2, <1>3

(* find, iflist::lookup and list_names hand out what is true, and nothing  *)
(* where libcsp returns null.                                              *)
LEMMA FindKeepsInv ==
  ASSUME RoutingInv, UNCHANGED <<pc, globals>>, NEW d, Find(d)
  PROVE  RoutingInv'
<1> USE DEF RoutingInv
<1>1. UNCHANGED <<iflist, table, loading, cleared, walk>>
  BY DEF Find
<1>2. Walked'
  BY <1>1, SameKeeps, WalkedKept
<1>3. table \in Seq(Rows) /\ Len(table) \in Nat
  BY DEF Lists
<1> DEFINE k == Match(d)
<1>4. k \in 0 .. Len(table)
  BY <1>3, MatchFacts
<1>5. held' = IF k = 0 THEN None ELSE Entry(k)
  BY DEF Find
<1> HIDE DEF k
<1>6. Handles'
  <2>1. CASE k = 0
    BY <1>5, <2>1 DEF Handles
  <2>2. CASE k # 0
    <3>1. k \in 1 .. Len(table) /\ k \in Nat
      BY <1>3, <1>4, <2>2
    <3>2. table[k] \in Rows
      BY <1>3, <3>1
    <3>3. table[k].dest \in Addresses
      BY <3>2 DEF Rows
    <3>4. held' = [kind |-> "route", slot |-> k, removed |-> FALSE, dest |-> table[k].dest]
      BY <1>5, <2>2 DEF Entry
    <3>5. held' \in RouteHandles
      BY <3>1, <3>3, <3>4 DEF RouteHandles
    <3>6. held'.slot \in 1 .. Len(table') /\ table'[held'.slot].dest = held'.dest
      BY <1>1, <3>1, <3>4
    <3> QED BY <3>5, <3>6 DEF Handles
  <2> QED BY <2>1, <2>2
<1> QED BY <1>1, <1>2, <1>6, ViewKeepsInv

(* An IfaceRef is what lookup returned.                                    *)
LEMMA LookupIfaceKeepsInv ==
  ASSUME RoutingInv, UNCHANGED <<pc, globals>>, NEW n, LookupIface(n)
  PROVE  RoutingInv'
<1> USE DEF RoutingInv
<1>1. UNCHANGED <<iflist, table, loading, cleared, walk>>
  BY DEF LookupIface
<1>2. Walked'
  BY <1>1, SameKeeps, WalkedKept
<1>3. Lookup(n)' = Lookup(n)
  BY <1>1 DEF Lookup, SelectInSeq
<1>4. Handles'
  <2>1. CASE Lookup(n) = None
    BY <2>1 DEF LookupIface, Handles
  <2>2. CASE Lookup(n) # None
    <3>1. held' = [kind |-> "iface", name |-> n, iface |-> Lookup(n)]
      BY <2>2 DEF LookupIface
    <3>2. held'.kind = "iface" /\ held'.iface = Lookup(n) /\ held'.name = n
      BY <3>1
    <3>3. Lookup(held.name)' = Lookup(n)
      BY <1>1, <3>2 DEF Lookup, SelectInSeq
    <3> QED BY <2>2, <3>2, <3>3 DEF Handles
  <2> QED BY <2>1, <2>2
<1> QED BY <1>1, <1>2, <1>4, ViewKeepsInv

(* list_names returns the names of the whole list.                         *)
LEMMA ListNamesKeepsInv ==
  ASSUME RoutingInv, UNCHANGED <<pc, globals>>, ListNames
  PROVE  RoutingInv'
<1> USE DEF RoutingInv
<1>1. UNCHANGED <<iflist, table, loading, cleared, walk>>
  BY DEF ListNames
<1>2. Walked'
  BY <1>1, SameKeeps, WalkedKept
<1>3. Len(iflist) \in Nat /\ DOMAIN iflist = 1 .. Len(iflist)
  BY DEF Lists
<1>4. held'.kind = "names" /\ held'.names = [k \in 1 .. Len(iflist) |-> Name(iflist[k])]
  BY <1>3 DEF ListNames
<1>5. \E m \in 0 .. Len(iflist') : held'.names = [k \in 1 .. m |-> Name(iflist'[k])]
  <2>1. iflist' = iflist
    BY <1>1
  <2>2. held'.names = [k \in 1 .. Len(iflist') |-> Name(iflist'[k])]
    BY <1>4, <2>1, Zenon
  <2>3. Len(iflist') \in 0 .. Len(iflist')
    BY <1>3, <2>1
  <2> QED BY <2>2, <2>3, Zenon
<1>6. Handles'
  BY <1>4, <1>5 DEF Handles, Name
<1> QED BY <1>1, <1>2, <1>6, ViewKeepsInv

(* A handle that is dropped promises nothing.                              *)
LEMMA LetGoKeepsInv ==
  ASSUME RoutingInv, UNCHANGED <<pc, globals>>, LetGo
  PROVE  RoutingInv'
<1> USE DEF RoutingInv
<1>1. Walked'
  BY SameKeeps, WalkedKept DEF LetGo
<1>2. Handles'
  BY DEF LetGo, Handles
<1> QED BY <1>1, <1>2, ViewKeepsInv DEF LetGo

(* iterate: each call of the closure shows the next row.                   *)
LEMMA WalkKeepsInv ==
  ASSUME RoutingInv, UNCHANGED <<pc, globals>>,
         \/ WalkStart
         \/ \E answer \in {"true", "false", "panic"} : WalkCall(answer)
         \/ WalkEnd
  PROVE  RoutingInv'
<1> USE DEF RoutingInv
<1>1. UNCHANGED <<iflist, table, loading, cleared, held>>
  BY DEF WalkStart, WalkCall, WalkEnd
<1>2. Handles'
  BY <1>1, SameGrows, SameKeeps, HandlesKept
<1>3. table \in Seq(Rows) /\ Len(table) \in Nat
  BY DEF Lists
<1>4. CASE WalkStart
  <2>1. walk' = [next |-> 1, seen |-> << >>, answers |-> << >>, rows |-> Len(table),
                 whole |-> TRUE, going |-> TRUE]
    BY <1>4 DEF WalkStart
  <2>2. walk' \in Walks
    BY <1>3, <2>1 DEF Walks
  <2>3. Walked'
    BY <1>1, <1>3, <2>1, <2>2 DEF Walked
  <2> QED BY <1>1, <1>2, <2>3, ViewKeepsInv
<1>5. ASSUME NEW answer \in {"true", "false", "panic"}, WalkCall(answer)
      PROVE  RoutingInv'
  <2> DEFINE w == walk
             n == Len(w.seen)
             d == table[w.next].dest
  <2>1. w # None /\ w.going /\ w \in Walks
    BY <1>5 DEF WalkCall, Walking, Walked
  <2>2. /\ n \in Nat /\ w.next = n + 1 /\ Len(w.answers) = n
        /\ w.seen \in Seq(Addresses) /\ w.answers \in Seq({"true", "false", "panic"})
    BY <2>1 DEF Walks, Walked
  <2>3. n + 1 \in 1 .. Len(table) /\ d \in Addresses
    <3>1. n + 1 \in 1 .. Len(table)
      BY <1>3, <1>5, <2>2 DEF WalkCall
    <3>2. table[n + 1] \in Rows
      BY <1>3, <3>1
    <3> QED BY <2>2, <3>1, <3>2 DEF Rows
  <2>0. PICK going \in BOOLEAN : going = KeepGoing(answer) /\ (going <=> answer = "true")
    BY DEF KeepGoing
  <2>4. walk' = [w EXCEPT !.next = n + 2, !.seen = Append(w.seen, d),
                          !.answers = Append(w.answers, answer),
                          !.going = going]
    BY <1>5, <2>0, <2>2 DEF WalkCall
  <2>5. /\ walk' \in Walks /\ walk'.next = n + 2 /\ walk'.seen = Append(w.seen, d)
        /\ walk'.answers = Append(w.answers, answer)
        /\ walk'.going = going
        /\ walk'.rows = w.rows /\ walk'.whole = w.whole
    <3> DEFINE next == n + 2
               seen == Append(w.seen, d)
               answers == Append(w.answers, answer)
    <3>1. next \in Nat /\ seen \in Seq(Addresses) /\ answers \in Seq({"true", "false", "panic"})
      BY <2>2, <2>3
    <3>2. walk' = [w EXCEPT !.next = next, !.seen = seen, !.answers = answers, !.going = going]
      BY <2>4
    <3> HIDE DEF next, seen, answers, d, n, w
    <3>3. /\ walk' \in Walks /\ walk'.next = next /\ walk'.seen = seen
          /\ walk'.answers = answers /\ walk'.going = going
          /\ walk'.rows = w.rows /\ walk'.whole = w.whole
      BY <2>1, <3>1, <3>2 DEF Walks
    <3> QED BY <3>3 DEF next, seen, answers
  <2>6. /\ Len(walk'.answers) = n + 1 /\ Len(walk'.seen) = n + 1
        /\ \A k \in 1 .. n : walk'.seen[k] = w.seen[k] /\ walk'.answers[k] = w.answers[k]
        /\ walk'.seen[n + 1] = d /\ walk'.answers[n + 1] = answer
    BY <2>2, <2>5
  <2>7. \A k \in 1 .. n : walk'.answers[k] = "true"
    BY <2>1, <2>2, <2>6 DEF Walked
  <2>8. walk'.whole => /\ walk'.rows <= Len(table) /\ n + 1 <= Len(table)
                       /\ \A k \in 1 .. n + 1 : walk'.seen[k] = table[k].dest
    BY <2>1, <2>2, <2>3, <2>5, <2>6 DEF Walked
  <2>9. Walked'
    <3> HIDE DEF n, d, w
    <3>1. Len(walk'.answers) - 1 = n /\ walk'.next = Len(walk'.seen) + 1
      BY <2>2, <2>5, <2>6
    <3>2. walk'.going => \A k \in 1 .. n + 1 : walk'.answers[k] = "true"
      BY <2>0, <2>2, <2>5, <2>6, <2>7
    <3>3. ~walk'.going => walk'.answers[Len(walk'.answers)] # "true"
      BY <2>0, <2>5, <2>6
    <3> QED BY <1>1, <2>5, <2>6, <2>7, <2>8, <3>1, <3>2, <3>3 DEF Walked
  <2> QED BY <1>1, <1>2, <2>9, ViewKeepsInv
<1>6. CASE WalkEnd
  <2>1. walk # None /\ walk \in Walks /\ walk' = [walk EXCEPT !.going = FALSE]
    BY <1>6 DEF WalkEnd, Walking, Walked
  <2>2. /\ walk' \in Walks /\ ~walk'.going /\ walk'.next = walk.next /\ walk'.seen = walk.seen
        /\ walk'.answers = walk.answers /\ walk'.rows = walk.rows /\ walk'.whole = walk.whole
    BY <2>1 DEF Walks
  <2>3. Len(walk.seen) \in Nat /\ walk.rows \in Nat
    BY <2>1 DEF Walks
  <2>4. walk.whole => Len(walk.seen) >= walk.rows
    BY <1>3, <1>6, <2>1, <2>3 DEF WalkEnd, Walked
  <2>5. Walked'
    BY <1>1, <2>1, <2>2, <2>4 DEF Walked
  <2> QED BY <1>1, <1>2, <2>5, ViewKeepsInv
<1> QED BY <1>4, <1>5, <1>6

(* Every step of others on the list and the table.                         *)
LEMMA RoutingKeepsInv ==
  ASSUME RoutingInv, UNCHANGED <<pc, globals>>,
         RoutingNext \/ \E c \in Calls : Find(c)
  PROVE  RoutingInv'
BY RegisterKeepsInv, SetRawKeepsInv, LoadKeepsInv, LoadRowKeepsInv, ClearKeepsInv, FindKeepsInv,
   LookupIfaceKeepsInv, ListNamesKeepsInv, LetGoKeepsInv, WalkKeepsInv
   DEF RoutingNext

-----------------------------------------------------------------------------
(* The steps of init.                                                      *)

NodeInv == RoutingInv /\ Life

(* A name equals itself, so LOOP is found by its name.                     *)
LEMMA LoopNamed == Loop \in Named[LOOP]
<1>1. Name(Loop) = LOOP
  BY DEF Name
<1> DEFINE f == Folded(LOOP)
           stops == {i \in 1 .. NameMax : At(f, i) # At(f, i) \/ At(f, i) = Nul}
<1>2. Strncasecmp(LOOP, LOOP, NameMax) = IF stops = {} THEN 0 ELSE At(f, Min(stops)) - At(f, Min(stops))
  BY DEF Strncasecmp, Strncmp
<1>3. stops # {} => At(f, Min(stops)) = Nul
  <2> SUFFICES ASSUME stops # {} PROVE At(f, Min(stops)) = Nul
    OBVIOUS
  <2>1. stops \in SUBSET Nat
    BY RoutingAssumption
  <2>2. Min(stops) \in stops
    <3> HIDE DEF stops
    <3> QED BY <2>1, MinIsLeast
  <2> QED BY <2>2
<1>4. Strncasecmp(LOOP, LOOP, NameMax) = 0
  <2> HIDE DEF stops, f
  <2> QED BY <1>2, <1>3 DEF Nul
<1> QED BY <1>1, <1>4 DEF Named

(* While one call is through the swap no other is.                         *)
LEMMA Alone ==
  ASSUME Life, NEW c \in Calls, Through(c), NEW d \in Calls, d # c
  PROVE  ~Through(d)
BY DEF Life

(* A call that goes on within init changes nobody's count of nodes.        *)
LEMMA AdvanceLife ==
  ASSUME Life, NEW c \in Calls, pc[c] \in Steps, NEW s \in Steps,
         pc' = [pc EXCEPT ![c] = s], UNCHANGED <<initialized, users>>,
         {conf', selfAddr', nodeAddress'} \subseteq Calls \cup {None},
         parked' \in Ifaces \cup {Loop, Self, None}
  PROVE  Life'
<1>1. pc \in [Calls -> {"idle", "refused", "done"} \cup Steps]
  BY DEF Life, TypeOK
<1>2. /\ pc'[c] = s /\ \A d \in Calls : d # c => pc'[d] = pc[d]
      /\ pc' \in [Calls -> {"idle", "refused", "done"} \cup Steps]
  BY <1>1
<1>3. \A d \in Calls : Through(d)' <=> Through(d)
  BY <1>2 DEF Through
<1>4. TypeOK'
  BY <1>2 DEF Life, TypeOK, users
<1>5. (\E d \in Calls : pc[d] = "done") => \E d \in Calls : pc'[d] = "done"
  BY <1>2 DEF Steps
<1> QED BY <1>3, <1>4, <1>5 DEF Life, users, IdentReadsLiveStrings

(* The swap lets a call through only if none was before it.                *)
LEMMA SwapKeepsInv ==
  ASSUME NodeInv, NEW c \in Calls, Swap(c)
  PROVE  NodeInv'
<1> USE DEF NodeInv, RoutingInv
<1>1. pc \in [Calls -> {"idle", "refused", "done"} \cup Steps]
  BY DEF Life, TypeOK
<1>2. UNCHANGED <<conf, selfAddr, parked, nodeAddress, clones, strong, router, conn, read>>
  BY DEF Swap, globals, users
<1>3. UNCHANGED <<iflist, table, loading, cleared, held, walk>>
  BY DEF Swap, routing
<1>4. /\ pc[c] = "idle" /\ pc'[c] = IF initialized THEN "refused" ELSE "configure"
      /\ \A d \in Calls : d # c => pc'[d] = pc[d]
      /\ pc' \in [Calls -> {"idle", "refused", "done"} \cup Steps]
  BY <1>1 DEF Swap, Goto, Steps
<1>5. Life'
  <2>1. TypeOK'
    BY <1>2, <1>4 DEF Life, TypeOK, Swap
  <2>2. \A d, e \in Calls : Through(d)' /\ Through(e)' => d = e
    <3>1. CASE initialized
      BY <1>4, <3>1 DEF Life, Through, Steps
    <3>2. CASE ~initialized
      BY <1>4, <3>2 DEF Life, Through, Steps
    <3> QED BY <3>1, <3>2
  <2>3. (\E d \in Calls : pc[d] = "done") => \E d \in Calls : pc'[d] = "done"
    BY <1>4
  <2> QED BY <1>2, <2>1, <2>2, <2>3 DEF Life, Swap, IdentReadsLiveStrings
<1>6. Lists' /\ Handles' /\ Walked'
  BY <1>3, SameGrows, SameKeeps, HandlesKept, WalkedKept DEF Lists
<1>7. \A d \in Calls : pc'[d] \in AfterConfigure => pc'[d] = pc[d]
  BY <1>4 DEF AfterConfigure
<1>8. Globals'
  <2>1. SelfOnce' = SelfOnce /\ LoopParked' = LoopParked
    BY <1>2, <1>3 DEF SelfOnce, LoopParked
  <2> QED BY <1>2, <1>3, <1>7, <2>1 DEF Globals, AfterConfigure, AfterSelf
<1>9. NoSelfYet'
  BY <1>3, <1>4 DEF NoSelfYet, AfterConfigure, AfterSelf
<1>10. SelfRoute'
  BY <1>3, <1>7 DEF SelfRoute, AfterConfigure
<1> QED BY <1>5, <1>6, <1>8, <1>9, <1>10

(* csp_init lists LOOP, and csp_conf is the call's own.                    *)
LEMMA ConfigureKeepsInv ==
  ASSUME NodeInv, NEW c \in Calls, Configure(c)
  PROVE  NodeInv'
<1> USE DEF NodeInv, RoutingInv
<1>1. pc \in [Calls -> {"idle", "refused", "done"} \cup Steps]
  BY DEF Life, TypeOK
<1>2. UNCHANGED <<initialized, selfAddr, parked, nodeAddress, users, table, loading, cleared, held, walk>>
  BY DEF Configure
<1>3. pc[c] = "configure" /\ pc' = [pc EXCEPT ![c] = "addSelf"] /\ conf' = c
  BY DEF Configure, Goto
<1>4. pc'[c] = "addSelf" /\ \A d \in Calls : d # c => pc'[d] = pc[d]
  BY <1>1, <1>3
<1>5. Loop \in All /\ Loop # Self
  BY RoutingAssumption DEF All
<1>6. Grows /\ Len(iflist') = Len(iflist) + 1 /\ iflist'[Len(iflist) + 1] = Loop
  BY <1>5, AppendGrows DEF Configure
<1>7. Life'
  <2>1. {conf', selfAddr', nodeAddress'} \subseteq Calls \cup {None}
        /\ parked' \in Ifaces \cup {Loop, Self, None}
    BY <1>2, <1>3 DEF Life, TypeOK
  <2>2. "configure" \in Steps /\ "addSelf" \in Steps
    BY DEF Steps
  <2> QED BY <1>2, <1>3, <2>1, <2>2, AdvanceLife
<1>8. Lists' /\ Handles' /\ Walked'
  BY <1>2, <1>6, SameKeeps, HandlesKept, WalkedKept DEF Lists, Grows
<1>9. Len(iflist) \in Nat
  BY DEF Lists
<1>10. \A d \in Calls : d # c => pc'[d] \notin AfterConfigure
  BY <1>3, <1>4, Alone DEF AfterConfigure, Through, Steps
<1>11. Globals'
  <2>1. \E k \in 1 .. Len(iflist') : iflist'[k] = Loop
    BY <1>6, <1>9
  <2> QED BY <1>3, <1>4, <1>10, <2>1 DEF Globals, AfterConfigure, AfterSelf
<1>12. NoSelfYet'
  <2>1. \A d \in Calls : pc[d] \notin AfterSelf
    BY <1>3, <1>4, <1>10 DEF AfterConfigure, AfterSelf
  <2> QED BY <1>5, <1>6, <1>9, <2>1 DEF NoSelfYet, Grows
<1>13. SelfRoute'
  BY <1>2, <1>4, <1>10 DEF SelfRoute, AfterConfigure
<1> QED BY <1>7, <1>8, <1>11, <1>12, <1>13

(* SELF_IFACE comes into the list once, by the only call.                  *)
LEMMA AddSelfKeepsInv ==
  ASSUME NodeInv, NEW c \in Calls, AddSelf(c)
  PROVE  NodeInv'
<1> USE DEF NodeInv, RoutingInv
<1>1. pc \in [Calls -> {"idle", "refused", "done"} \cup Steps]
  BY DEF Life, TypeOK
<1>2. UNCHANGED <<initialized, conf, parked, nodeAddress, users, table, loading, cleared, held, walk>>
  BY DEF AddSelf
<1>3. pc[c] = "addSelf" /\ pc' = [pc EXCEPT ![c] = "park"] /\ selfAddr' = c
  BY DEF AddSelf, Goto
<1>4. pc'[c] = "park" /\ \A d \in Calls : d # c => pc'[d] = pc[d]
  BY <1>1, <1>3
<1>5. Self \in All
  BY DEF All
<1>6. Grows /\ Len(iflist') = Len(iflist) + 1 /\ iflist'[Len(iflist) + 1] = Self
  BY <1>5, AppendGrows DEF AddSelf
<1>7. Life'
  <2>1. {conf', selfAddr', nodeAddress'} \subseteq Calls \cup {None}
        /\ parked' \in Ifaces \cup {Loop, Self, None}
    BY <1>2, <1>3 DEF Life, TypeOK
  <2>2. "addSelf" \in Steps /\ "park" \in Steps
    BY DEF Steps
  <2> QED BY <1>2, <1>3, <2>1, <2>2, AdvanceLife
<1>8. Lists' /\ Handles' /\ Walked'
  BY <1>2, <1>6, SameKeeps, HandlesKept, WalkedKept DEF Lists, Grows
<1>9. Len(iflist) \in Nat
  BY DEF Lists
<1>10. \A d \in Calls : d # c => pc'[d] \notin AfterConfigure
  BY <1>3, <1>4, Alone DEF AfterConfigure, Through, Steps
<1>11. SelfOnce'
  <2>1. \A k \in 1 .. Len(iflist) : iflist[k] # Self
    BY <1>3, <1>4, <1>10 DEF NoSelfYet, AfterConfigure, AfterSelf
  <2>2. \A j \in 1 .. Len(iflist') : iflist'[j] = Self <=> j = Len(iflist) + 1
    BY <1>6, <1>9, <2>1 DEF Grows
  <2>3. Len(iflist) + 1 \in 1 .. Len(iflist')
    BY <1>6, <1>9
  <2> QED BY <2>2, <2>3 DEF SelfOnce
<1>12. Globals'
  <2>1. conf = c /\ \E k \in 1 .. Len(iflist) : iflist[k] = Loop
    BY <1>3 DEF Globals, AfterConfigure
  <2>2. \E k \in 1 .. Len(iflist') : iflist'[k] = Loop
    BY <1>6, <1>9, <2>1 DEF Grows
  <2> QED BY <1>2, <1>3, <1>4, <1>10, <1>11, <2>1, <2>2 DEF Globals, AfterConfigure, AfterSelf
<1>13. NoSelfYet'
  BY <1>4 DEF NoSelfYet, AfterConfigure, AfterSelf
<1>14. SelfRoute'
  BY <1>2, <1>4, <1>10 DEF SelfRoute, AfterConfigure
<1> QED BY <1>7, <1>8, <1>12, <1>13, <1>14

(* LOOP is parked, or an interface of its name that was there before it.   *)
LEMMA ParkLoopKeepsInv ==
  ASSUME NodeInv, NEW c \in Calls, ParkLoop(c)
  PROVE  NodeInv'
<1> USE DEF NodeInv, RoutingInv
<1>1. pc \in [Calls -> {"idle", "refused", "done"} \cup Steps]
  BY DEF Life, TypeOK
<1>2. UNCHANGED <<initialized, conf, selfAddr, nodeAddress, users, iflist, table, loading, cleared, held, walk>>
  BY DEF ParkLoop, routing
<1>3. pc[c] = "park" /\ pc' = [pc EXCEPT ![c] = "route"] /\ parked' = Lookup(LOOP)
  BY DEF ParkLoop, Goto
<1>4. pc'[c] = "route" /\ \A d \in Calls : d # c => pc'[d] = pc[d]
  BY <1>1, <1>3
<1>5. iflist \in Seq(All) /\ Len(iflist) \in Nat
  BY DEF Lists
<1>6. PICK m \in 1 .. Len(iflist) : iflist[m] = Loop
  BY <1>3 DEF Globals, AfterConfigure
<1>7. PICK k \in 1 .. Len(iflist) :
              /\ Lookup(LOOP) = iflist[k] /\ iflist[k] \in Named[LOOP]
              /\ \A j \in 1 .. k - 1 : iflist[j] \notin Named[LOOP]
  BY <1>5, <1>6, LoopNamed, LookupFirst
<1>8. LoopParked'
  <2>1. CASE iflist[k] = Loop
    BY <1>3, <1>7, <2>1 DEF LoopParked
  <2>2. CASE iflist[k] # Loop
    <3>1. \A j \in 1 .. k : iflist[j] # Loop
      BY <1>7, <2>2, LoopNamed
    <3>2. iflist'[k] = parked' /\ parked' \in Named[LOOP] /\ k \in 1 .. Len(iflist')
      BY <1>2, <1>3, <1>7
    <3>3. \A j \in 1 .. k : iflist'[j] # Loop
      BY <1>2, <3>1
    <3> QED BY <3>2, <3>3 DEF LoopParked
  <2> QED BY <2>1, <2>2
<1>9. Life'
  <2>1. {conf', selfAddr', nodeAddress'} \subseteq Calls \cup {None}
    BY <1>2 DEF Life, TypeOK
  <2>2. parked' \in Ifaces \cup {Loop, Self, None}
    BY <1>3, <1>5, <1>7 DEF All
  <2>3. "park" \in Steps /\ "route" \in Steps
    BY DEF Steps
  <2> QED BY <1>2, <1>3, <2>1, <2>2, <2>3, AdvanceLife
<1>10. Lists' /\ Handles' /\ Walked'
  BY <1>2, SameGrows, SameKeeps, HandlesKept, WalkedKept DEF Lists
<1>11. \A d \in Calls : d # c => pc'[d] \notin AfterConfigure
  BY <1>3, <1>4, Alone DEF AfterConfigure, Through, Steps
<1>12. Globals'
  <2>1. SelfOnce' = SelfOnce
    BY <1>2 DEF SelfOnce
  <2>2. /\ conf = c /\ selfAddr = c /\ SelfOnce
        /\ \E j \in 1 .. Len(iflist) : iflist[j] = Loop
    BY <1>3 DEF Globals, AfterConfigure, AfterSelf
  <2> QED BY <1>2, <1>4, <1>8, <1>11, <2>1, <2>2 DEF Globals, AfterConfigure, AfterSelf
<1>13. NoSelfYet'
  BY <1>4 DEF NoSelfYet, AfterConfigure, AfterSelf
<1>14. SelfRoute'
  BY <1>2, <1>4, <1>11 DEF SelfRoute, AfterConfigure
<1> QED BY <1>9, <1>10, <1>12, <1>13, <1>14

(* The node's own route is set, where there is room for it.                *)
LEMMA SetSelfRouteKeepsInv ==
  ASSUME NodeInv, NEW c \in Calls, SetSelfRoute(c)
  PROVE  NodeInv'
<1> USE DEF NodeInv, RoutingInv
<1>1. pc \in [Calls -> {"idle", "refused", "done"} \cup Steps]
  BY DEF Life, TypeOK
<1>2. UNCHANGED <<initialized, globals, users, iflist, loading, cleared, held, walk>>
  BY DEF SetSelfRoute
<1>3. pc[c] = "route" /\ pc' = [pc EXCEPT ![c] = "publish"] /\ table' = SetRow(table, c, Self)
  BY DEF SetSelfRoute, Goto
<1>4. pc'[c] = "publish" /\ \A d \in Calls : d # c => pc'[d] = pc[d]
  BY <1>1, <1>3
<1>5. c \in Addresses /\ Self \in All
  BY DEF Addresses, All
<1>6. Keeps
  BY <1>3, <1>5, SetRowKeeps
<1>7. Life'
  <2>1. {conf', selfAddr', nodeAddress'} \subseteq Calls \cup {None}
        /\ parked' \in Ifaces \cup {Loop, Self, None}
    BY <1>2 DEF Life, TypeOK, globals
  <2>2. "route" \in Steps /\ "publish" \in Steps
    BY DEF Steps
  <2> QED BY <1>2, <1>3, <2>1, <2>2, AdvanceLife
<1>8. Lists' /\ Handles' /\ Walked'
  BY <1>2, <1>6, SameGrows, HandlesKept, WalkedKept DEF Lists, Keeps
<1>9. \A d \in Calls : d # c => pc'[d] \notin AfterConfigure
  BY <1>3, <1>4, Alone DEF AfterConfigure, Through, Steps
<1>10. Globals'
  <2>1. SelfOnce' = SelfOnce /\ LoopParked' = LoopParked
    BY <1>2 DEF SelfOnce, LoopParked, globals
  <2>2. /\ conf = c /\ selfAddr = c /\ SelfOnce /\ LoopParked
        /\ \E j \in 1 .. Len(iflist) : iflist[j] = Loop
    BY <1>3 DEF Globals, AfterConfigure, AfterSelf
  <2> QED BY <1>2, <1>4, <1>9, <2>1, <2>2 DEF Globals, AfterConfigure, AfterSelf, globals
<1>11. NoSelfYet'
  BY <1>4 DEF NoSelfYet, AfterConfigure, AfterSelf
<1>12. SelfRoute'
  <2> SUFFICES ASSUME ~cleared
               PROVE  SelfRoute'
    BY <1>2 DEF SelfRoute
  <2> DEFINE s == SetRow(table, c, Self)
  <2>4. /\ \A k \in 1 .. Len(s) : s[k] = Row(c, Self) \/ (k \in 1 .. Len(table) /\ s[k] = table[k])
        /\ \/ Len(s) = TableSize
           \/ \E k \in 1 .. Len(s) : s[k].dest = c
    <3>1. table \in Seq(Rows) /\ Len(table) <= TableSize
      BY DEF Lists
    <3> QED BY <1>5, <3>1, SetRowFacts
  <2>5. table' = s
    BY <1>3
  <2> HIDE DEF s
  <2>1. /\ \A k \in 1 .. Len(table') :
             table'[k] = Row(c, Self) \/ (k \in 1 .. Len(table) /\ table'[k] = table[k])
        /\ \/ Len(table') = TableSize
           \/ \E k \in 1 .. Len(table') : table'[k].dest = c
    BY <2>4, <2>5
  <2>2. Row(c, Self).iface = Self
    BY DEF Row
  <2>3. \A k \in 1 .. Len(table') : table'[k].dest \in Routed \/ table'[k].iface = Self
    BY <2>1, <2>2 DEF SelfRoute
  <2> QED BY <1>4, <1>9, <2>1, <2>3 DEF SelfRoute, AfterConfigure
<1> QED BY <1>7, <1>8, <1>10, <1>11, <1>12

(* The node is handed out: the first one, by the only call.                *)
LEMMA PublishKeepsInv ==
  ASSUME NodeInv, NEW c \in Calls, Publish(c)
  PROVE  NodeInv'
<1> USE DEF NodeInv, RoutingInv
<1>1. pc \in [Calls -> {"idle", "refused", "done"} \cup Steps]
  BY DEF Life, TypeOK
<1>2. UNCHANGED <<initialized, conf, selfAddr, parked, router, conn, read, iflist, table, loading, cleared, held, walk>>
  BY DEF Publish, routing
<1>3. /\ pc[c] = "publish" /\ pc' = [pc EXCEPT ![c] = "done"]
      /\ nodeAddress' = c /\ clones' = 1 /\ strong' = 1
  BY DEF Publish, Goto
<1>4. pc'[c] = "done" /\ \A d \in Calls : d # c => pc'[d] = pc[d]
  BY <1>1, <1>3
<1>5. \A d \in Calls : d # c => ~Through(d)
  BY <1>3, Alone DEF Through, Steps
<1>6. ~(\E d \in Calls : pc[d] = "done")
  BY <1>3, <1>5 DEF Through
<1>7. ~router /\ ~conn /\ read = "none"
  BY <1>6 DEF Life
<1>8. Life'
  <2>1. TypeOK'
    <3>1. pc' \in [Calls -> {"idle", "refused", "done"} \cup Steps]
      BY <1>1, <1>3
    <3>2. 1 \in 0 .. MaxClones /\ 1 \in 0 .. MaxClones + 1
      BY NodeLifecycleAssumption
    <3> QED BY <1>2, <1>3, <3>1, <3>2 DEF Life, TypeOK
  <2>2. \A d \in Calls : Through(d)' <=> Through(d)
    BY <1>3, <1>4 DEF Through, Steps
  <2> QED BY <1>2, <1>3, <1>4, <1>7, <2>1, <2>2 DEF Life, IdentReadsLiveStrings
<1>9. Lists' /\ Handles' /\ Walked'
  BY <1>2, SameGrows, SameKeeps, HandlesKept, WalkedKept DEF Lists
<1>10. \A d \in Calls : d # c => pc'[d] \notin AfterConfigure
  BY <1>4, <1>5 DEF AfterConfigure, Through, Steps
<1>11. Globals'
  <2>1. SelfOnce' = SelfOnce /\ LoopParked' = LoopParked
    BY <1>2 DEF SelfOnce, LoopParked
  <2>2. /\ conf = c /\ selfAddr = c /\ SelfOnce /\ LoopParked
        /\ \E j \in 1 .. Len(iflist) : iflist[j] = Loop
    BY <1>3 DEF Globals, AfterConfigure, AfterSelf
  <2> QED BY <1>2, <1>3, <1>4, <1>10, <2>1, <2>2 DEF Globals, AfterConfigure, AfterSelf
<1>12. NoSelfYet'
  BY <1>4 DEF NoSelfYet, AfterConfigure, AfterSelf
<1>13. SelfRoute'
  BY <1>2, <1>3, <1>4, <1>10 DEF SelfRoute, AfterConfigure
<1> QED BY <1>8, <1>9, <1>11, <1>12, <1>13

-----------------------------------------------------------------------------
(* The node in use.                                                        *)

(* Clones, drops, the router thread, connections and ident requests change *)
(* neither the progress of init nor the lists.                             *)
LEMMA UseKeepsInv ==
  ASSUME NodeInv, CloneNode \/ DropNode \/ RouteStartTask \/ Connect \/ HandleIdent
  PROVE  NodeInv'
<1> USE DEF NodeInv, RoutingInv
<1>1. UNCHANGED <<initialized, pc, globals, iflist, table, loading, cleared, held, walk>>
  BY DEF CloneNode, DropNode, RouteStartTask, Connect, HandleIdent, routing
<1>2. Lists' /\ Handles' /\ Walked' /\ Grows
  BY <1>1, SameGrows, SameKeeps, HandlesKept, WalkedKept DEF Lists
<1>3. Globals' /\ NoSelfYet' /\ SelfRoute'
  BY <1>1, SameListKeeps DEF SelfRoute
<1>4. /\ clones \in 0 .. MaxClones /\ strong \in 0 .. MaxClones + 1 /\ router \in BOOLEAN
      /\ MaxClones \in Nat /\ strong = clones + (IF router THEN 1 ELSE 0)
  BY NodeLifecycleAssumption DEF Life, TypeOK
<1>5. \A c \in Calls : Through(c)' <=> Through(c)
  BY <1>1 DEF Through
<1>6. /\ clones' \in 0 .. MaxClones /\ router' \in BOOLEAN /\ conn' \in BOOLEAN
      /\ read' \in {"none", "live", "dangling"}
      /\ strong' = clones' + (IF router' THEN 1 ELSE 0)
      /\ clones' > 0 \/ router' \/ conn' \/ read' # "none"
           => clones > 0 \/ router \/ conn \/ read # "none"
  <2>1. CASE CloneNode
    BY <1>4, <2>1 DEF CloneNode, Life, TypeOK
  <2>2. CASE DropNode
    BY <1>4, <2>2 DEF DropNode, Life, TypeOK
  <2>3. CASE RouteStartTask
    <3>1. /\ clones > 0 /\ ~router
          /\ UNCHANGED <<clones, conn, read>>
          /\ clones \in 0 .. MaxClones /\ conn \in BOOLEAN /\ read \in {"none", "live", "dangling"}
      BY <2>3 DEF RouteStartTask, Life, TypeOK
    <3>2. (router' = TRUE /\ strong' = strong + 1) \/ UNCHANGED <<router, strong>>
      BY <2>3 DEF RouteStartTask
    <3>3. CASE router' = TRUE /\ strong' = strong + 1
      BY <1>4, <3>1, <3>3
    <3>4. CASE UNCHANGED <<router, strong>>
      BY <1>4, <3>1, <3>4
    <3> QED BY <3>2, <3>3, <3>4
  <2>4. CASE Connect
    BY <1>4, <2>4 DEF Connect, Life, TypeOK
  <2>5. CASE HandleIdent
    BY <1>4, <2>5 DEF HandleIdent, Life, TypeOK
  <2> QED BY <2>1, <2>2, <2>3, <2>4, <2>5
<1>7. strong' \in 0 .. MaxClones + 1
  <2>1. clones' \in 0 .. MaxClones /\ MaxClones \in Nat
    BY <1>4, <1>6
  <2>2. strong' = clones' + 1 \/ strong' = clones' + 0
    BY <1>6
  <2>3. strong' = clones' + 1 \/ strong' = clones'
    BY <2>1, <2>2
  <2> QED BY <2>1, <2>3
<1>8. IdentReadsLiveStrings'
  <2>1. CASE HandleIdent
    <3> SUFFICES ASSUME clones > 0 \/ router
                 PROVE  read' # "dangling"
      BY <2>1 DEF HandleIdent, IdentReadsLiveStrings
    <3>1. strong > 0
      BY <1>4
    <3>2. PICK c \in Calls : pc[c] = "done"
      BY DEF Life
    <3>3. conf = c
      BY <3>2 DEF Globals, AfterConfigure
    <3>4. StringsAlive(conf)
      BY <3>1, <3>2, <3>3 DEF StringsAlive
    <3> QED BY <2>1, <3>4 DEF HandleIdent
  <2>2. CASE CloneNode \/ DropNode \/ RouteStartTask \/ Connect
    BY <1>4, <2>2 DEF CloneNode, DropNode, RouteStartTask, Connect, Life, IdentReadsLiveStrings
  <2> QED BY <2>1, <2>2
<1>9. Life'
  <2>1. TypeOK'
    BY <1>1, <1>6, <1>7 DEF Life, TypeOK, globals
  <2>2. (\E c \in Calls : pc[c] = "done") => \E c \in Calls : pc'[c] = "done"
    BY <1>1
  <2> QED BY <1>1, <1>5, <1>6, <1>8, <2>1, <2>2 DEF Life
<1> QED BY <1>2, <1>3, <1>9

(* Life is about the node's own variables only.                            *)
LEMMA SameLife ==
  ASSUME Life, UNCHANGED <<initialized, pc, globals, users>>
  PROVE  Life'
<1>1. TypeOK'
  BY DEF Life, TypeOK, globals, users
<1>2. \A c \in Calls : Through(c)' <=> Through(c)
  BY DEF Through
<1>3. UNCHANGED <<initialized, pc, clones, strong, router, conn, read>>
  BY DEF users
<1> QED BY <1>1, <1>2, <1>3 DEF Life, IdentReadsLiveStrings

(* A CAN interface is added with a node, and changes the list alone.       *)
LEMMA AddSocketCanKeepsInv ==
  ASSUME NodeInv, NEW i \in Ifaces, AddSocketCan(i)
  PROVE  NodeInv'
<1>1. AddDriver(i) /\ UNCHANGED <<initialized, pc, globals, users>>
  BY DEF AddSocketCan
<1>2. RoutingInv'
  BY <1>1, RegisterKeepsInv DEF NodeInv
<1>3. Life'
  BY <1>1, SameLife DEF NodeInv
<1> QED BY <1>2, <1>3 DEF NodeInv

(* Every step of the node and of the lists keeps the invariant.            *)
LEMMA NextKeepsInv ==
  ASSUME NodeInv, Next
  PROVE  NodeInv'
<1>1. CASE \E c \in Calls : InitStep(c)
  BY <1>1, SwapKeepsInv, ConfigureKeepsInv, AddSelfKeepsInv, ParkLoopKeepsInv,
     SetSelfRouteKeepsInv, PublishKeepsInv DEF InitStep
<1>2. CASE CloneNode \/ DropNode \/ RouteStartTask \/ Connect \/ HandleIdent
  BY <1>2, UseKeepsInv
<1>3. CASE \E i \in Ifaces : AddSocketCan(i)
  BY <1>3, AddSocketCanKeepsInv
<1>4. CASE RoutingStep
  <2>1. UNCHANGED <<initialized, pc, globals, users>>
    BY <1>4 DEF RoutingStep
  <2>2. RoutingInv'
    BY <1>4, <2>1, RoutingKeepsInv DEF RoutingStep, NodeInv
  <2> QED BY <2>1, <2>2, SameLife DEF NodeInv
<1> QED BY <1>1, <1>2, <1>3, <1>4 DEF Next

(* Nothing is listed, routed, held or handed out before the first call.    *)
LEMMA InitHasInv == Init => NodeInv
<1> SUFFICES ASSUME Init PROVE NodeInv
  OBVIOUS
<1>1. Lists /\ Handles /\ Walked
  <2>1. iflist = << >> /\ table = << >> /\ loading = << >> /\ held = None /\ walk = None
    BY DEF Init, RoutingInit
  <2>2. cleared \in BOOLEAN
    BY DEF Init, RoutingInit
  <2>3. Lists
    BY <2>1, <2>2, RoutingAssumption DEF Lists
  <2>4. Handles /\ Walked
    BY <2>1 DEF Handles, Walked
  <2> QED BY <2>3, <2>4
<1>2. Globals /\ NoSelfYet /\ SelfRoute
  BY DEF Init, RoutingInit, Globals, NoSelfYet, SelfRoute, AfterConfigure, AfterSelf
<1>3. Life
  <2>1. TypeOK
    <3>1. /\ initialized \in BOOLEAN /\ router \in BOOLEAN /\ conn \in BOOLEAN
          /\ read \in {"none", "live", "dangling"}
      BY DEF Init
    <3>2. clones \in 0 .. MaxClones /\ strong \in 0 .. MaxClones + 1
      BY NodeLifecycleAssumption DEF Init
    <3>3. pc \in [Calls -> {"idle", "refused", "done"} \cup Steps]
      BY DEF Init
    <3> QED BY <3>1, <3>2, <3>3 DEF Init, TypeOK
  <2>2. \A c \in Calls : ~Through(c)
    BY DEF Init, Through, Steps
  <2> QED BY <2>1, <2>2 DEF Init, Life, IdentReadsLiveStrings
<1> QED BY <1>1, <1>2, <1>3 DEF NodeInv, RoutingInv

-----------------------------------------------------------------------------
(* The promiscuous-mode handle.                                            *)

(* The steps of open, read and drop, on any thread.                        *)
LEMMA UserStepKeepsCapturing ==
  ASSUME Capturing, NEW u \in Users, Sn!UserStep(u)
  PROVE  Capturing'
<1>1. /\ handle \in [Users -> {"idle", "enabling", "failed", "open", "disabled"}]
      /\ captured \in 0 .. QueueSize /\ QueueSize \in Nat
      /\ active \in BOOLEAN /\ enabled \in BOOLEAN
  BY RuntimeAssumption DEF Capturing, Sn!TypeOK
<1>2. CASE Sn!OpenSwap(u)
  <2>1. \A v \in Users : handle[v] = "idle"
    BY <1>2 DEF Sn!OpenSwap, Capturing
  <2>2. handle' = [handle EXCEPT ![u] = "enabling"] /\ active' = TRUE /\ UNCHANGED <<enabled, captured>>
    BY <1>2 DEF Sn!OpenSwap, Sn!Goto
  <2> QED BY <1>1, <2>1, <2>2 DEF Capturing, Sn!TypeOK
<1>3. CASE Sn!OpenEnable(u)
  <2>1. handle[u] = "enabling" /\ handle' = [handle EXCEPT ![u] = "open"]
        /\ enabled' = TRUE /\ UNCHANGED <<active, captured>>
    BY <1>3 DEF Sn!OpenEnable, Sn!Goto
  <2> QED BY <1>1, <2>1 DEF Capturing, Sn!TypeOK
<1>4. CASE Sn!OpenFails(u)
  <2>1. handle[u] = "enabling" /\ handle' = [handle EXCEPT ![u] = "failed"]
        /\ UNCHANGED <<active, enabled, captured>>
    BY <1>4 DEF Sn!OpenFails, Sn!Goto
  <2> QED BY <1>1, <2>1 DEF Capturing, Sn!TypeOK
<1>5. CASE Sn!OpenGivesUp(u)
  <2>1. handle[u] = "failed" /\ handle' = [handle EXCEPT ![u] = "idle"]
        /\ active' = FALSE /\ UNCHANGED <<enabled, captured>>
    BY <1>5 DEF Sn!OpenGivesUp, Sn!Goto
  <2> QED BY <1>1, <2>1 DEF Capturing, Sn!TypeOK
<1>6. CASE Sn!Read(u)
  BY <1>1, <1>6 DEF Sn!Read, Capturing, Sn!TypeOK
<1>7. CASE Sn!Drop(u)
  <2>1. CASE /\ handle[u] = "open" /\ handle' = [handle EXCEPT ![u] = "disabled"]
             /\ enabled' = FALSE /\ UNCHANGED <<active, captured>>
    BY <1>1, <2>1 DEF Capturing, Sn!TypeOK
  <2>2. CASE /\ handle[u] = "disabled" /\ handle' = [handle EXCEPT ![u] = "idle"]
             /\ active' = FALSE /\ UNCHANGED <<enabled, captured>>
    BY <1>1, <2>2 DEF Capturing, Sn!TypeOK
  <2> QED BY <1>7, <2>1, <2>2 DEF Sn!Drop, Sn!Goto
<1> QED BY <1>2, <1>3, <1>4, <1>5, <1>6, <1>7 DEF Sn!UserStep

(* The invariant holds in every state of the wrapper's process.            *)
THEOREM InvHolds == RuntimeSpec => []Inv
<1>1. RuntimeInit => Inv
  <2> SUFFICES ASSUME RuntimeInit PROVE Inv
    OBVIOUS
  <2>1. NodeInv
    BY InitHasInv DEF RuntimeInit
  <2>2. Capturing
    <3>1. active = FALSE /\ enabled = FALSE /\ captured = 0 /\ handle = [u \in Users |-> "idle"]
      BY DEF RuntimeInit, Sn!Init
    <3>2. captured \in 0 .. QueueSize
      BY <3>1, RuntimeAssumption
    <3>3. active \in BOOLEAN /\ enabled \in BOOLEAN
      BY <3>1
    <3>4. handle \in [Users -> {"idle", "enabling", "failed", "open", "disabled"}]
      BY <3>1
    <3>5. \A u \in Users : handle[u] = "idle"
      BY <3>1
    <3> QED BY <3>1, <3>2, <3>3, <3>4, <3>5 DEF Capturing, Sn!TypeOK
  <2> QED BY <2>1, <2>2 DEF Inv, NodeInv, RoutingInv
<1>2. Inv /\ [RuntimeNext]_<<vars, sniffer>> => Inv'
  <2> SUFFICES ASSUME Inv, [RuntimeNext]_<<vars, sniffer>>
               PROVE  Inv'
    OBVIOUS
  <2>1. NodeInv /\ Capturing
    BY DEF Inv, NodeInv, RoutingInv
  <2>2. UNCHANGED vars => NodeInv'
    <3> SUFFICES ASSUME UNCHANGED vars PROVE NodeInv'
      OBVIOUS
    <3>1. UNCHANGED <<initialized, pc, globals, users, iflist, table, loading, cleared, held, walk>>
      BY DEF vars, routing
    <3>2. Lists' /\ Handles' /\ Walked'
      BY <2>1, <3>1, SameGrows, SameKeeps, HandlesKept, WalkedKept DEF Lists, NodeInv, RoutingInv
    <3>3. Globals' /\ NoSelfYet' /\ SelfRoute'
      BY <2>1, <3>1, <3>2, SameListKeeps DEF SelfRoute, NodeInv, RoutingInv
    <3>4. Life'
      BY <2>1, <3>1, SameLife DEF NodeInv
    <3> QED BY <3>2, <3>3, <3>4 DEF NodeInv, RoutingInv
  <2>3. UNCHANGED sniffer => Capturing'
    BY <2>1 DEF sniffer, Capturing, Sn!TypeOK
  <2>4. CASE Next /\ UNCHANGED sniffer
    BY <2>1, <2>3, <2>4, NextKeepsInv DEF Inv, NodeInv, RoutingInv
  <2>5. CASE (\E u \in Users : Sn!UserStep(u)) /\ UNCHANGED vars
    BY <2>1, <2>2, <2>5, UserStepKeepsCapturing DEF Inv, NodeInv, RoutingInv
  <2>6. CASE RouteWorkCaptures
    <3>1. Capturing'
      BY <2>1, <2>6, RuntimeAssumption DEF RouteWorkCaptures, Sn!Capture, Capturing, Sn!TypeOK
    <3>2. NodeInv'
      BY <2>2, <2>6 DEF RouteWorkCaptures
    <3> QED BY <3>1, <3>2 DEF Inv, NodeInv, RoutingInv
  <2>7. CASE UNCHANGED <<vars, sniffer>>
    BY <2>2, <2>3, <2>7 DEF Inv, NodeInv, RoutingInv
  <2> QED BY <2>4, <2>5, <2>6, <2>7 DEF RuntimeNext
<1> QED BY <1>1, <1>2, PTL DEF RuntimeSpec

-----------------------------------------------------------------------------
(* What the runs check, for every instance.                                *)

(* For any number of overlapping calls of init, and any clones and drops   *)
(* of the node, nobody runs libcsp's set-up beside another set-up or over  *)
(* a node that is still held.                                              *)
THEOREM SetupsRunAlone == RuntimeSpec => []SetupAlone
<1>1. Inv => SetupAlone
  <2> SUFFICES ASSUME Inv, NEW c \in Calls, InInit(c)
               PROVE  strong = 0 /\ \A d \in Calls : InInit(d) => d = c
    BY DEF SetupAlone
  <2>1. \A d \in Calls : InInit(d) => d = c
    BY DEF Inv, Life, Through, InInit
  <2>2. strong = 0
    BY DEF Inv, Life, Through, InInit, Steps, TypeOK
  <2> QED BY <2>1, <2>2
<1> QED BY <1>1, InvHolds, PTL

(* Whoever holds a CspNode finds every global of libcsp that init writes   *)
(* set from that node's configuration, however others register and route   *)
(* in the meantime.                                                        *)
THEOREM NodeFindsGlobals == RuntimeSpec => []NodeIsReady
<1>1. Inv => NodeIsReady
  <2> SUFFICES ASSUME Inv, strong > 0 PROVE NodeIsReady
    BY DEF NodeIsReady
  <2>1. clones > 0 \/ router
    <3>1. strong = clones + (IF router THEN 1 ELSE 0) /\ clones \in Nat
      BY NodeLifecycleAssumption DEF Inv, Life, TypeOK
    <3> QED BY <3>1
  <2>2. PICK c \in Calls : pc[c] = "done"
    BY <2>1 DEF Inv, Life
  <2>3. nodeAddress = c /\ conf = c /\ selfAddr = c /\ SelfOnce /\ LoopParked
    BY <2>2 DEF Inv, Globals, AfterConfigure, AfterSelf
  <2>4. nodeAddress # None
    BY <2>3, NodeLifecycleAssumption
  <2>5. DOMAIN iflist = 1 .. Len(iflist)
    BY DEF Inv, Lists
  <2>6. \E k \in DOMAIN iflist : \A j \in DOMAIN iflist : iflist[j] = Self <=> j = k
    BY <2>3, <2>5 DEF SelfOnce
  <2>7. \/ parked = Loop
        \/ \E k \in DOMAIN iflist :
             /\ iflist[k] = parked /\ parked \in Named[LOOP]
             /\ \A j \in 1 .. k : iflist[j] # Loop
    <3> HIDE DEF Named
    <3> QED BY <2>3, <2>5 DEF LoopParked
  <2>8. \/ Match(nodeAddress) # 0 /\ table[Match(nodeAddress)].iface = Self
        \/ cleared
        \/ Len(table) = TableSize
        \/ nodeAddress \in Routed
    <3> SUFFICES ASSUME ~cleared, Len(table) # TableSize, c \notin Routed
                 PROVE  Match(c) # 0 /\ table[Match(c)].iface = Self
      BY <2>3
    <3>1. \E k \in 1 .. Len(table) : table[k].dest = c
      BY <2>2 DEF Inv, SelfRoute
    <3>2. Match(c) \in 0 .. Len(table) /\ Match(c) # 0 /\ table[Match(c)].dest = c
      BY <3>1, MatchFacts DEF Inv, Lists
    <3> DEFINE m == Match(c)
    <3>3. m \in 1 .. Len(table)
      BY <3>2 DEF Inv, Lists
    <3>4. table[m].dest \in Routed \/ table[m].iface = Self
      <4> HIDE DEF m
      <4> QED BY <3>3 DEF Inv, SelfRoute
    <3> QED BY <3>2, <3>4
  <2> QED BY <2>3, <2>4, <2>6, <2>7, <2>8 DEF NodeIsReady
<1> QED BY <1>1, InvHolds, PTL

(* An ident request that is answered while a CspNode or the router thread  *)
(* exists reads the strings of csp_conf where they live.                   *)
THEOREM StringsOutliveNode == RuntimeSpec => []IdentReadsLiveStrings
<1>1. Inv => IdentReadsLiveStrings
  BY DEF Inv, Life
<1> QED BY <1>1, InvHolds, PTL

(* No other thread's open or drop switches capturing off under a Sniffer.  *)
THEOREM SnifferCaptures == RuntimeSpec => []OpenCaptures
<1>1. Inv => OpenCaptures
  BY DEF Inv, Capturing, OpenCaptures, Sn!OpenCaptures
<1> QED BY <1>1, InvHolds, PTL

(* With no Sniffer open or on its way, the flag is clear and libcsp does   *)
(* not capture.                                                            *)
THEOREM SnifferLeavesNothingOn == RuntimeSpec => []NothingLeftOn
<1>1. Inv => NothingLeftOn
  BY DEF Inv, Capturing, NothingLeftOn, Sn!NothingLeftOn
<1> QED BY <1>1, InvHolds, PTL

(* A RouteEntry shows the destination it was found under until a clear, an *)
(* IfaceRef is what lookup of its name returns, and list_names was the     *)
(* beginning of the list, whatever is registered, set or loaded since.     *)
THEOREM HandlesShowTheirRows == RuntimeSpec => []HandlesStayTrue
<1>1. Inv => HandlesStayTrue
  <2> SUFFICES ASSUME Inv, held # None PROVE HandlesStayTrue
    BY DEF HandlesStayTrue
  <2>1. DOMAIN iflist = 1 .. Len(iflist) /\ DOMAIN table = 1 .. Len(table) /\ Len(iflist) \in Nat
    BY DEF Inv, Lists
  <2>2. CASE held.kind = "iface" /\ held.iface # None /\ held.iface = Lookup(held.name)
    BY <2>2 DEF HandlesStayTrue
  <2>3. CASE /\ held.kind = "names"
             /\ \E m \in 0 .. Len(iflist) : held.names = [k \in 1 .. m |-> Name(iflist[k])]
    <3> DEFINE all == [k \in 1 .. Len(iflist) |-> Name(iflist[k])]
    <3>1. PICK m \in 0 .. Len(iflist) : held.names = [k \in 1 .. m |-> Name(iflist[k])]
      BY <2>3
    <3> DEFINE s == [k \in 1 .. m |-> Name(iflist[k])]
    <3>2. Len(s) = m /\ Len(all) = Len(iflist) /\ \A k \in 1 .. m : s[k] = all[k]
      BY <2>1
    <3>3. all = [k \in DOMAIN iflist |-> Name(iflist[k])]
      BY <2>1
    <3> HIDE DEF s, all
    <3>4. IsPrefix(s, all)
      BY <2>1, <3>2 DEF IsPrefix
    <3>5. held.names = s
      BY <3>1 DEF s
    <3> QED BY <2>3, <3>3, <3>4, <3>5 DEF HandlesStayTrue
  <2>4. CASE held \in RouteHandles /\ held.removed
    BY <2>4 DEF HandlesStayTrue, RouteHandles
  <2>5. CASE held \in RouteHandles /\ held.slot \in 1 .. Len(table) /\ table[held.slot].dest = held.dest
    BY <2>1, <2>5 DEF HandlesStayTrue, RouteHandles
  <2> QED BY <2>2, <2>3, <2>4, <2>5 DEF Inv, Handles
<1> QED BY <1>1, InvHolds, PTL

(* iterate shows every row it began with, in order, and does not call the  *)
(* closure again once it answered false or panicked.                       *)
THEOREM WalkIsComplete == RuntimeSpec => []WalkSeesEveryRoute
<1>1. Inv => WalkSeesEveryRoute
  <2> SUFFICES ASSUME Inv, walk # None PROVE WalkSeesEveryRoute
    BY DEF WalkSeesEveryRoute
  <2> DEFINE seen == walk.seen
             answers == walk.answers
  <2>1. seen \in Seq(Addresses) /\ answers \in Seq({"true", "false", "panic"})
    BY DEF Inv, Walked, Walks
  <2>2. DOMAIN seen = 1 .. Len(seen) /\ Last(answers) = answers[Len(answers)]
    BY <2>1 DEF Last
  <2> QED BY <2>2 DEF Inv, Walked, WalkSeesEveryRoute
<1> QED BY <1>1, InvHolds, PTL
=============================================================================
