------------------------- MODULE InterfaceTxProofs -------------------------
(***************************************************************************)
(* InterfaceTx for every set of threads, packets and interfaces, and every *)
(* way in which they send on to one another: the spin locks, the packets'  *)
(* owners, and when calls can block one another.                           *)
(***************************************************************************)
EXTENDS InterfaceTx, FiniteSetTheorems, TLAPS

Typed ==
  /\ lock \in [Ifaces -> Threads \cup {None}]
  /\ stack \in [Threads -> Seq(Frames)]
  /\ at \in [Packets -> {"pool", "c", "rust", "held", "router", "double"}]

(* Thread t is in the user code of interface i at depth k.                 *)
Inside(t, k, i) ==
  k \in 1 .. Len(stack[t]) /\ stack[t][k].iface = i /\ stack[t][k].st # "wait"

(* The calls under the innermost have given their packet away, and none of *)
(* them is a CAN driver's: transmit cannot send.                           *)
Nested ==
  \A t \in Threads :
    /\ \A k \in 1 .. Len(stack[t]) - 1 : stack[t][k].st = "spent"
    /\ \A k \in 1 .. Len(stack[t]) : stack[t][k].st = "spent" => stack[t][k].iface \notin Can

(* A lock is held by the thread inside, which is inside once.              *)
Locked ==
  /\ \A i \in Ifaces : \A t \in Threads : lock[i] = t <=> \E k \in 1 .. Len(stack[t]) : Inside(t, k, i)
  /\ \A i \in Ifaces : \A t \in Threads : \A j, k \in 1 .. Len(stack[t]) :
       Inside(t, j, i) /\ Inside(t, k, i) => j = k

(* A call that has not given its packet away; only the innermost can be.   *)
Innermost(t) == stack[t][Len(stack[t])]
Owns(t, p) == Len(stack[t]) >= 1 /\ Innermost(t).st # "spent" /\ Innermost(t).pkt = p

Owned ==
  /\ \A p \in Packets : at[p] \in {"c", "rust"} <=> \E t \in Threads : Owns(t, p)
  /\ \A p \in Packets : \A t, u \in Threads : Owns(t, p) /\ Owns(u, p) => t = u
  /\ \A p \in Packets : \A t \in Threads : Owns(t, p) =>
       at[p] = IF Innermost(t).st = "body" /\ Innermost(t).iface \notin Can THEN "rust" ELSE "c"
  /\ \A p \in Packets : at[p] # "double"

Inv == Typed /\ Nested /\ Locked /\ Owned

-----------------------------------------------------------------------------
(* The shapes of a thread's calls.                                         *)

(* The innermost call, and the calls under it.                             *)
LEMMA TopFacts ==
  ASSUME Typed, NEW t \in Threads, Calling(t)
  PROVE  /\ stack[t] \in Seq(Frames) /\ Len(stack[t]) \in Nat /\ Len(stack[t]) >= 1
         /\ Top(t) = stack[t][Len(stack[t])] /\ Top(t) \in Frames
         /\ Front(stack[t]) \in Seq(Frames) /\ Len(Front(stack[t])) = Len(stack[t]) - 1
         /\ \A k \in 1 .. Len(stack[t]) - 1 : Front(stack[t])[k] = stack[t][k]
<1> DEFINE s == stack[t]
<1>1. s \in Seq(Frames) /\ s # << >>
  BY DEF Typed, Calling
<1> HIDE DEF s
<1>2. Len(s) \in Nat /\ Len(s) >= 1
  BY <1>1
<1>3. Last(s) = s[Len(s)] /\ s[Len(s)] \in Frames
  BY <1>1, <1>2 DEF Last
<1>4. Front(s) = SubSeq(s, 1, Len(s) - 1)
  BY DEF Front
<1>5. /\ Front(s) \in Seq(Frames) /\ Len(Front(s)) = Len(s) - 1
      /\ \A k \in 1 .. Len(s) - 1 : Front(s)[k] = s[k]
  <2> DEFINE m == Len(s) - 1
  <2>1. m \in Nat /\ m <= Len(s)
    BY <1>2
  <2> HIDE DEF m
  <2>2. Len(SubSeq(s, 1, m)) = m
    BY <1>1, <2>1
  <2>3. \A k \in 1 .. m : SubSeq(s, 1, m)[k] = s[k]
    BY <1>1, <2>1
  <2>4. SubSeq(s, 1, m) \in Seq(Frames)
    BY <1>1, <2>1
  <2> QED BY <1>4, <2>2, <2>3, <2>4 DEF m
<1> QED BY <1>1, <1>2, <1>3, <1>5 DEF s, Top

(* A frame is its three fields.                                            *)
LEMMA FrameFacts ==
  ASSUME NEW f \in Frames
  PROVE  /\ f.iface \in Ifaces /\ f.pkt \in Packets /\ f.st \in {"wait", "body", "spent"}
         /\ \A st \in {"wait", "body", "spent"} :
              /\ [f EXCEPT !.st = st] \in Frames
              /\ [f EXCEPT !.st = st].iface = f.iface
              /\ [f EXCEPT !.st = st].pkt = f.pkt
              /\ [f EXCEPT !.st = st].st = st
BY DEF Frames

(* SetTop changes the state of the innermost call, and nothing else.       *)
LEMMA SetTopFacts ==
  ASSUME Typed, NEW t \in Threads, Calling(t), NEW st \in {"wait", "body", "spent"}, SetTop(t, st)
  PROVE  /\ stack' \in [Threads -> Seq(Frames)]
         /\ \A u \in Threads : u # t => stack'[u] = stack[u]
         /\ Len(stack'[t]) = Len(stack[t])
         /\ \A k \in 1 .. Len(stack[t]) - 1 : stack'[t][k] = stack[t][k]
         /\ stack'[t][Len(stack[t])] = [Top(t) EXCEPT !.st = st]
<1> DEFINE s == stack[t]
           n == Len(stack[t])
           f == Top(t)
           g == [f EXCEPT !.st = st]
<1>1. s \in Seq(Frames) /\ n = Len(s) /\ n \in Nat /\ n >= 1 /\ f = s[n] /\ f \in Frames
  BY TopFacts
<1>2. g \in Frames
  BY <1>1, FrameFacts
<1>3. stack' = [stack EXCEPT ![t] = [s EXCEPT ![n] = g]]
  BY <1>1 DEF SetTop
<1>4. stack \in [Threads -> Seq(Frames)]
  BY DEF Typed
<1> HIDE DEF s, n, f, g
<1>5. /\ [s EXCEPT ![n] = g] \in Seq(Frames) /\ Len([s EXCEPT ![n] = g]) = n
      /\ \A k \in 1 .. n - 1 : [s EXCEPT ![n] = g][k] = s[k]
      /\ [s EXCEPT ![n] = g][n] = g
  BY <1>1, <1>2
<1>6. stack'[t] = [s EXCEPT ![n] = g]
  BY <1>3, <1>4
<1> QED BY <1>3, <1>4, <1>5, <1>6 DEF s, n, f, g

(* A call that begins.                                                     *)
LEMMA PushFacts ==
  ASSUME Typed, NEW t \in Threads, NEW f \in Frames, Push(t, f)
  PROVE  /\ stack' \in [Threads -> Seq(Frames)]
         /\ \A u \in Threads : u # t => stack'[u] = stack[u]
         /\ Len(stack'[t]) = Len(stack[t]) + 1
         /\ \A k \in 1 .. Len(stack[t]) : stack'[t][k] = stack[t][k]
         /\ stack'[t][Len(stack[t]) + 1] = f
<1>1. stack \in [Threads -> Seq(Frames)] /\ stack[t] \in Seq(Frames)
  BY DEF Typed
<1>2. stack' = [stack EXCEPT ![t] = Append(stack[t], f)]
  BY DEF Push
<1>3. stack'[t] = Append(stack[t], f)
  BY <1>1, <1>2
<1> QED BY <1>1, <1>2, <1>3

(* A call that ends.                                                       *)
LEMMA PopFacts ==
  ASSUME Typed, NEW t \in Threads, Calling(t), Pop(t)
  PROVE  /\ stack' \in [Threads -> Seq(Frames)]
         /\ \A u \in Threads : u # t => stack'[u] = stack[u]
         /\ Len(stack'[t]) = Len(stack[t]) - 1
         /\ \A k \in 1 .. Len(stack[t]) - 1 : stack'[t][k] = stack[t][k]
<1>1. stack \in [Threads -> Seq(Frames)]
  BY DEF Typed
<1>2. stack' = [stack EXCEPT ![t] = Front(stack[t])]
  BY DEF Pop
<1>3. stack'[t] = Front(stack[t])
  BY <1>1, <1>2
<1> QED BY <1>1, <1>2, <1>3, TopFacts

(* A packet sent on: the call has given it away, and a new one waits.      *)
LEMMA SendOnFacts ==
  ASSUME Typed, NEW t \in Threads, NEW j \in Ifaces, SendOn(t, j)
  PROVE  /\ stack' \in [Threads -> Seq(Frames)]
         /\ \A u \in Threads : u # t => stack'[u] = stack[u]
         /\ Len(stack'[t]) = Len(stack[t]) + 1
         /\ \A k \in 1 .. Len(stack[t]) - 1 : stack'[t][k] = stack[t][k]
         /\ stack'[t][Len(stack[t])] = [Top(t) EXCEPT !.st = "spent"]
         /\ stack'[t][Len(stack[t]) + 1] = [iface |-> j, pkt |-> Top(t).pkt, st |-> "wait"]
<1> DEFINE s == stack[t]
           n == Len(stack[t])
           f == Top(t)
           r == Front(s)
           g == [f EXCEPT !.st = "spent"]
           h == [iface |-> j, pkt |-> f.pkt, st |-> "wait"]
           new == Append(r \o <<g>>, h)
<1>1. Calling(t)
  BY DEF SendOn
<1>2. /\ s \in Seq(Frames) /\ n = Len(s) /\ n \in Nat /\ n >= 1 /\ f \in Frames /\ f = Last(s)
      /\ r \in Seq(Frames) /\ Len(r) = n - 1 /\ \A k \in 1 .. n - 1 : r[k] = s[k]
  BY <1>1, TopFacts DEF Top
<1>3. g \in Frames /\ h \in Frames
  BY <1>2, FrameFacts DEF Frames
<1>4. stack' = [stack EXCEPT ![t] = new]
  BY <1>2 DEF SendOn
<1>5. stack \in [Threads -> Seq(Frames)]
  BY DEF Typed
<1> HIDE DEF s, n, f, r, g, h
<1>6. /\ r \o <<g>> \in Seq(Frames) /\ Len(r \o <<g>>) = n
      /\ \A k \in 1 .. n - 1 : (r \o <<g>>)[k] = r[k]
      /\ (r \o <<g>>)[n] = g
  BY <1>2, <1>3
<1>7. /\ new \in Seq(Frames) /\ Len(new) = n + 1
      /\ \A k \in 1 .. n - 1 : new[k] = s[k]
      /\ new[n] = g /\ new[n + 1] = h
  <2> DEFINE q == r \o <<g>>
  <2>1. /\ q \in Seq(Frames) /\ Len(q) = n /\ q[n] = g
        /\ \A k \in 1 .. n - 1 : q[k] = s[k]
    BY <1>2, <1>6
  <2> HIDE DEF q
  <2>2. /\ Append(q, h) \in Seq(Frames) /\ Len(Append(q, h)) = n + 1
        /\ \A k \in 1 .. n - 1 : Append(q, h)[k] = s[k]
        /\ Append(q, h)[n] = g /\ Append(q, h)[n + 1] = h
    BY <1>2, <1>3, <2>1
  <2> QED BY <2>2 DEF q
<1> HIDE DEF new
<1>8. stack'[t] = new
  BY <1>4, <1>5
<1> QED BY <1>4, <1>5, <1>7, <1>8 DEF s, n, f, g, h

-----------------------------------------------------------------------------
(* The steps.                                                              *)

(* Who is inside an interface changes only by entering and leaving.        *)
LEMMA LockedKept ==
  ASSUME Locked, UNCHANGED lock,
         \A t \in Threads : \A i \in Ifaces : \A k \in Nat : Inside(t, k, i)' <=> Inside(t, k, i),
         \A t \in Threads : Len(stack[t]) \in Nat /\ Len(stack'[t]) \in Nat
  PROVE  Locked'
<1>1. \A t \in Threads : \A i \in Ifaces :
        (\E k \in 1 .. Len(stack'[t]) : Inside(t, k, i)') <=> \E k \in 1 .. Len(stack[t]) : Inside(t, k, i)
  <2> TAKE t \in Threads
  <2> TAKE i \in Ifaces
  <2>1. \A k \in Nat : (k \in 1 .. Len(stack'[t]) /\ Inside(t, k, i)') <=> Inside(t, k, i)
    BY DEF Inside
  <2>2. \A k \in Nat : (k \in 1 .. Len(stack[t]) /\ Inside(t, k, i)) <=> Inside(t, k, i)
    BY DEF Inside
  <2> QED BY <2>1, <2>2
<1>2. \A t \in Threads : \A i \in Ifaces : \A j, k \in Nat :
        Inside(t, j, i) /\ Inside(t, k, i) => j = k
  BY DEF Locked, Inside
<1>3. \A t \in Threads : \A i \in Ifaces : \A j, k \in 1 .. Len(stack'[t]) :
        Inside(t, j, i)' /\ Inside(t, k, i)' => j = k
  BY <1>2
<1> QED BY <1>1, <1>3 DEF Locked

(* libcsp calls a shim with a packet from the pool.                        *)
LEMMA TransmitKeepsInv ==
  ASSUME Inv, NEW t \in Threads, NEW i \in Ifaces, NEW p \in Packets, Transmit(t, i, p)
  PROVE  Inv'
<1> DEFINE f == [iface |-> i, pkt |-> p, st |-> "wait"]
<1>1. Typed /\ Nested /\ Locked /\ Owned
  BY DEF Inv
<1>2. stack[t] = << >> /\ at[p] \in {"pool", "held"} /\ at' = [at EXCEPT ![p] = "c"] /\ UNCHANGED lock
  BY DEF Transmit, Calling
<1>3. f \in Frames /\ f.iface = i /\ f.pkt = p /\ f.st = "wait"
  BY DEF Frames
<1>4. /\ stack' \in [Threads -> Seq(Frames)]
      /\ \A u \in Threads : u # t => stack'[u] = stack[u]
      /\ Len(stack'[t]) = 1 /\ stack'[t][1] = f /\ Len(stack[t]) = 0
  <2>1. Push(t, f) /\ Len(stack[t]) = 0
    BY <1>2 DEF Transmit
  <2> HIDE DEF f
  <2>2. /\ stack' \in [Threads -> Seq(Frames)]
        /\ \A u \in Threads : u # t => stack'[u] = stack[u]
        /\ Len(stack'[t]) = Len(stack[t]) + 1
        /\ stack'[t][Len(stack[t]) + 1] = f
    BY <1>1, <1>3, <2>1, PushFacts
  <2> QED BY <2>1, <2>2
<1> HIDE DEF f
<1>5. Typed'
  BY <1>1, <1>2, <1>4 DEF Typed
<1>6. Nested'
  <2> SUFFICES ASSUME NEW u \in Threads
               PROVE  /\ \A k \in 1 .. Len(stack'[u]) - 1 : stack'[u][k].st = "spent"
                      /\ \A k \in 1 .. Len(stack'[u]) :
                           stack'[u][k].st = "spent" => stack'[u][k].iface \notin Can
    BY DEF Nested
  <2>1. CASE u = t
    <3>1. (\A k \in 1 .. 1 - 1 : FALSE) /\ \A k \in 1 .. 1 : k = 1
      OBVIOUS
    <3> QED BY <1>3, <1>4, <2>1, <3>1
  <2>2. CASE u # t
    BY <1>1, <1>4, <2>2 DEF Nested
  <2> QED BY <2>1, <2>2
<1>7. Locked'
  <2>1. \A u \in Threads : \A j \in Ifaces : \A k \in Nat : Inside(u, k, j)' <=> Inside(u, k, j)
    BY <1>3, <1>4 DEF Inside
  <2>2. \A u \in Threads : Len(stack[u]) \in Nat /\ Len(stack'[u]) \in Nat
    BY <1>1, <1>5 DEF Typed
  <2> QED BY <1>1, <1>2, <2>1, <2>2, LockedKept
<1>8. Owned'
  <2>1. \A u \in Threads : \A q \in Packets : u # t => (Owns(u, q)' <=> Owns(u, q))
    BY <1>4 DEF Owns, Innermost
  <2>2. \A q \in Packets : (Owns(t, q)' <=> q = p) /\ ~Owns(t, q)
    BY <1>3, <1>4 DEF Owns, Innermost
  <2>3. \A u \in Threads : ~Owns(u, p)
    BY <1>1, <1>2 DEF Owned
  <2>4. at'[p] = "c" /\ \A q \in Packets : q # p => at'[q] = at[q]
    BY <1>1, <1>2 DEF Typed
  <2>5. \A u \in Threads : u # t => Innermost(u)' = Innermost(u)
    BY <1>4 DEF Innermost
  <2>6. Innermost(t)'.st = "wait"
    BY <1>3, <1>4 DEF Innermost
  <2> QED BY <1>1, <2>1, <2>2, <2>3, <2>4, <2>5, <2>6 DEF Owned
<1> QED BY <1>5, <1>6, <1>7, <1>8 DEF Inv

(* The shim gets the lock, which nobody had.                               *)
LEMMA EnterKeepsInv ==
  ASSUME Inv, NEW t \in Threads, Enter(t)
  PROVE  Inv'
<1> DEFINE n == Len(stack[t])
           f == Innermost(t)
           g == [f EXCEPT !.st = "body"]
<1>1. Typed /\ Nested /\ Locked /\ Owned
  BY DEF Inv
<1>2. Calling(t) /\ Top(t) = f /\ n \in Nat /\ n >= 1 /\ f = stack[t][n] /\ f \in Frames
  BY <1>1, TopFacts DEF Enter, Innermost
<1>6. PICK i \in Ifaces, p \in Packets : f.iface = i /\ f.pkt = p
  BY <1>2, FrameFacts
<1>3. /\ f.st = "wait" /\ lock[i] = None /\ lock' = [lock EXCEPT ![i] = t] /\ SetTop(t, "body")
      /\ at' = [at EXCEPT ![p] = IF i \in Can THEN @ ELSE "rust"]
  BY <1>2, <1>6 DEF Enter
<1>4. g \in Frames /\ g.iface = i /\ g.pkt = p /\ g.st = "body"
  BY <1>2, <1>6, FrameFacts
<1>5. /\ stack' \in [Threads -> Seq(Frames)]
      /\ \A u \in Threads : u # t => stack'[u] = stack[u]
      /\ Len(stack'[t]) = n
      /\ \A k \in 1 .. n - 1 : stack'[t][k] = stack[t][k]
      /\ stack'[t][n] = g
  <2>1. "body" \in {"wait", "body", "spent"}
    OBVIOUS
  <2> QED BY <1>1, <1>2, <1>3, <2>1, SetTopFacts
<1>11. Len(stack[t]) = n
  OBVIOUS
<1> HIDE DEF n, f, g
<1>7. Typed'
  BY <1>1, <1>3, <1>4, <1>5 DEF Typed
<1>8. Nested'
  BY <1>1, <1>2, <1>4, <1>5, <1>6, <1>11 DEF Nested
<1>9. Locked'
  <2>1. \A u \in Threads : lock[i] # u
    BY <1>3, InterfaceTxAssumption
  <2>2. \A u \in Threads : \A k : ~Inside(u, k, i)
    BY <1>1, <1>4, <2>1 DEF Locked, Inside
  <2>3. lock'[i] = t /\ \A j \in Ifaces : j # i => lock'[j] = lock[j]
    BY <1>1, <1>3, <1>4 DEF Typed
  <2>4. \A u \in Threads : \A k, j : u # t => (Inside(u, k, j)' <=> Inside(u, k, j))
    BY <1>5 DEF Inside
  <2>5. \A k : Inside(t, k, i)' <=> k = n
    <3> TAKE k
    <3>1. CASE k = n
      BY <1>2, <1>4, <1>5, <3>1 DEF Inside
    <3>2. CASE k # n
      <4> SUFFICES ASSUME Inside(t, k, i)' PROVE FALSE
        BY <3>2
      <4>1. k \in 1 .. n - 1 /\ stack'[t][k] = stack[t][k]
        BY <1>2, <1>5, <3>2 DEF Inside
      <4> QED BY <1>2, <1>11, <2>2, <4>1 DEF Inside
    <3> QED BY <3>1, <3>2
  <2>6. \A k, j : j # i => (Inside(t, k, j)' <=> Inside(t, k, j))
    <3> TAKE k, j
    <3>1. CASE k = n
      BY <1>2, <1>4, <1>5, <1>6, <1>11, <3>1 DEF Inside
    <3>2. CASE k # n
      BY <1>2, <1>5, <1>6, <1>11, <3>2 DEF Inside
    <3> QED BY <3>1, <3>2
  <2>7. \A u \in Threads : u # t => Len(stack'[u]) = Len(stack[u])
    BY <1>5
  <2>8. n \in 1 .. Len(stack'[t])
    BY <1>2, <1>5
  <2>9. \A j \in Ifaces : \A u \in Threads :
          lock'[j] = u <=> \E k \in 1 .. Len(stack'[u]) : Inside(u, k, j)'
    <3> TAKE j \in Ifaces
    <3> TAKE u \in Threads
    <3>1. CASE u # t /\ j # i
      BY <1>1, <2>3, <2>4, <2>7, <3>1 DEF Locked
    <3>2. CASE u # t /\ j = i
      BY <2>2, <2>3, <2>4, <3>2
    <3>3. CASE u = t /\ j = i
      BY <2>3, <2>5, <2>8, <3>3
    <3>4. CASE u = t /\ j # i
      BY <1>1, <1>5, <1>6, <1>11, <2>3, <2>6, <3>4 DEF Locked
    <3> QED BY <3>1, <3>2, <3>3, <3>4
  <2>10. \A j \in Ifaces : \A u \in Threads : \A a, b \in 1 .. Len(stack'[u]) :
          Inside(u, a, j)' /\ Inside(u, b, j)' => a = b
    <3> TAKE j \in Ifaces
    <3> TAKE u \in Threads
    <3>1. CASE u # t
      BY <1>1, <2>4, <2>7, <3>1 DEF Locked
    <3>2. CASE u = t /\ j = i
      BY <2>5, <3>2
    <3>3. CASE u = t /\ j # i
      BY <1>1, <1>5, <1>6, <1>11, <2>6, <3>3 DEF Locked
    <3> QED BY <3>1, <3>2, <3>3
  <2> QED BY <2>9, <2>10 DEF Locked
<1>10. Owned'
  <2>1. Innermost(t)' = g /\ Innermost(t) = f /\ \A u \in Threads : u # t => Innermost(u)' = Innermost(u)
    BY <1>5 DEF Innermost, f
  <2>2. \A u \in Threads : \A q \in Packets : Owns(u, q)' <=> Owns(u, q)
    BY <1>3, <1>4, <1>5, <1>6, <1>11, <2>1 DEF Owns
  <2>3. Owns(t, p)
    BY <1>2, <1>3, <1>6, <1>11, <2>1 DEF Owns
  <2>4. at[p] = "c" /\ \A u \in Threads : Owns(u, p) => u = t
    BY <1>1, <1>3, <1>4, <2>1, <2>3 DEF Owned
  <2>5. /\ at'[p] = IF i \in Can THEN "c" ELSE "rust"
        /\ \A q \in Packets : q # p => at'[q] = at[q]
    BY <1>1, <1>3, <1>4, <2>4 DEF Typed
  <2>6. \A q \in Packets : Owns(t, q) => q = p
    BY <1>6, <2>1 DEF Owns
  <2>7. \A q \in Packets : at'[q] \in {"c", "rust"} <=> at[q] \in {"c", "rust"}
    BY <2>4, <2>5
  <2>8. \A q \in Packets : \A u \in Threads : Owns(u, q)' =>
          at'[q] = IF Innermost(u)'.st = "body" /\ Innermost(u)'.iface \notin Can THEN "rust" ELSE "c"
    <3> TAKE q \in Packets
    <3> TAKE u \in Threads
    <3>1. CASE u = t
      BY <1>4, <2>1, <2>2, <2>5, <2>6, <3>1
    <3>2. CASE u # t
      BY <1>1, <2>1, <2>2, <2>4, <2>5, <3>2 DEF Owned
    <3> QED BY <3>1, <3>2
  <2> QED BY <1>1, <2>2, <2>5, <2>7, <2>8 DEF Owned
<1> QED BY <1>7, <1>8, <1>9, <1>10 DEF Inv

(* nexthop gives the packet away while it is the one that owns it.         *)
LEMMA GiveAwayKeepsInv ==
  ASSUME Inv, NEW t \in Threads, NEW where \in {"pool", "held", "router"}, GiveAway(t, where)
  PROVE  Inv'
<1> DEFINE n == Len(stack[t])
           f == Innermost(t)
           g == [f EXCEPT !.st = "spent"]
<1>1. Typed /\ Nested /\ Locked /\ Owned
  BY DEF Inv
<1>2. Calling(t) /\ Top(t) = f /\ n \in Nat /\ n >= 1 /\ f = stack[t][n] /\ f \in Frames
  BY <1>1, TopFacts DEF GiveAway, Innermost
<1>3. PICK i \in Ifaces, p \in Packets : f.iface = i /\ f.pkt = p
  BY <1>2, FrameFacts
<1>4. /\ f.st = "body" /\ i \notin Can /\ UNCHANGED lock /\ SetTop(t, "spent")
      /\ at' = [at EXCEPT ![p] = where]
  BY <1>2, <1>3 DEF GiveAway
<1>5. g \in Frames /\ g.iface = i /\ g.pkt = p /\ g.st = "spent"
  BY <1>2, <1>3, FrameFacts
<1>6. /\ stack' \in [Threads -> Seq(Frames)]
      /\ \A u \in Threads : u # t => stack'[u] = stack[u]
      /\ Len(stack'[t]) = n
      /\ \A k \in 1 .. n - 1 : stack'[t][k] = stack[t][k]
      /\ stack'[t][n] = g
  <2>1. "spent" \in {"wait", "body", "spent"}
    OBVIOUS
  <2> QED BY <1>1, <1>2, <1>4, <2>1, SetTopFacts
<1>7. Len(stack[t]) = n
  OBVIOUS
<1> HIDE DEF n, f, g
<1>8. Typed'
  BY <1>1, <1>4, <1>6 DEF Typed
<1>9. Nested'
  BY <1>1, <1>2, <1>4, <1>5, <1>6, <1>7 DEF Nested
<1>10. Locked'
  <2>1. \A u \in Threads : \A j \in Ifaces : \A k \in Nat : Inside(u, k, j)' <=> Inside(u, k, j)
    <3> TAKE u \in Threads
    <3> TAKE j \in Ifaces
    <3> TAKE k \in Nat
    <3>1. CASE u # t
      BY <1>6, <3>1 DEF Inside
    <3>2. CASE u = t /\ k = n
      BY <1>2, <1>3, <1>4, <1>5, <1>6, <1>7, <3>2 DEF Inside
    <3>3. CASE u = t /\ k # n
      BY <1>2, <1>6, <1>7, <3>3 DEF Inside
    <3> QED BY <3>1, <3>2, <3>3
  <2>2. \A u \in Threads : Len(stack[u]) \in Nat /\ Len(stack'[u]) \in Nat
    BY <1>1, <1>8 DEF Typed
  <2> QED BY <1>1, <1>4, <2>1, <2>2, LockedKept
<1>11. Owned'
  <2>1. Innermost(t)' = g /\ Innermost(t) = f /\ \A u \in Threads : u # t => Innermost(u)' = Innermost(u)
    BY <1>6 DEF Innermost, f
  <2>2. \A u \in Threads : \A q \in Packets : u # t => (Owns(u, q)' <=> Owns(u, q))
    BY <1>6, <2>1 DEF Owns
  <2>3. \A q \in Packets : ~Owns(t, q)' /\ (Owns(t, q) <=> q = p)
    BY <1>2, <1>3, <1>4, <1>5, <1>7, <2>1 DEF Owns
  <2>4. \A u \in Threads : u # t => ~Owns(u, p)
    BY <1>1, <2>3 DEF Owned
  <2>5. at'[p] \in {"pool", "held", "router"} /\ \A q \in Packets : q # p => at'[q] = at[q]
    BY <1>1, <1>4 DEF Typed
  <2> QED BY <1>1, <2>1, <2>2, <2>3, <2>4, <2>5 DEF Owned
<1> QED BY <1>8, <1>9, <1>10, <1>11 DEF Inv

(* nexthop sends the packet on: the new call owns it.                      *)
LEMMA SendOnKeepsInv ==
  ASSUME Inv, NEW t \in Threads, NEW j \in Ifaces, SendOn(t, j)
  PROVE  Inv'
<1> DEFINE n == Len(stack[t])
           f == Innermost(t)
           g == [f EXCEPT !.st = "spent"]
           h == [iface |-> j, pkt |-> f.pkt, st |-> "wait"]
<1>1. Typed /\ Nested /\ Locked /\ Owned
  BY DEF Inv
<1>2. Calling(t) /\ Top(t) = f /\ n \in Nat /\ n >= 1 /\ f = stack[t][n] /\ f \in Frames
  BY <1>1, TopFacts DEF SendOn, Innermost
<1>3. PICK i \in Ifaces, p \in Packets : f.iface = i /\ f.pkt = p
  BY <1>2, FrameFacts
<1>4. /\ f.st = "body" /\ j \in Bridge[i] /\ UNCHANGED lock
      /\ at' = [at EXCEPT ![p] = "c"]
  BY <1>2, <1>3 DEF SendOn
<1>5. i \notin Can
  BY <1>4, InterfaceTxAssumption
<1>6. g \in Frames /\ g.iface = i /\ g.pkt = p /\ g.st = "spent"
  BY <1>2, <1>3, FrameFacts
<1>7. h.iface = j /\ h.pkt = p /\ h.st = "wait"
  BY <1>3
<1>8. /\ stack' \in [Threads -> Seq(Frames)]
      /\ \A u \in Threads : u # t => stack'[u] = stack[u]
      /\ Len(stack'[t]) = n + 1
      /\ \A k \in 1 .. n - 1 : stack'[t][k] = stack[t][k]
      /\ stack'[t][n] = g /\ stack'[t][n + 1] = h
  BY <1>1, <1>2, SendOnFacts
<1>9. Len(stack[t]) = n
  OBVIOUS
<1> HIDE DEF n, f, g, h
<1>10. Typed'
  BY <1>1, <1>4, <1>8 DEF Typed
<1>11. Nested'
  <2> SUFFICES ASSUME NEW u \in Threads
               PROVE  /\ \A k \in 1 .. Len(stack'[u]) - 1 : stack'[u][k].st = "spent"
                      /\ \A k \in 1 .. Len(stack'[u]) :
                           stack'[u][k].st = "spent" => stack'[u][k].iface \notin Can
    BY DEF Nested
  <2>1. CASE u = t
    <3>1. \A k \in 1 .. n : k = n \/ k \in 1 .. n - 1
      BY <1>2
    <3>2. \A k \in 1 .. n + 1 : k = n + 1 \/ k \in 1 .. n
      BY <1>2
    <3>3. \A k \in 1 .. n - 1 : stack[t][k].st = "spent" /\ stack[t][k].iface \notin Can
      BY <1>1, <1>2, <1>9 DEF Nested
    <3>4. n + 1 - 1 = n
      BY <1>2
    <3> QED BY <1>5, <1>6, <1>7, <1>8, <2>1, <3>1, <3>2, <3>3, <3>4
  <2>2. CASE u # t
    BY <1>1, <1>8, <2>2 DEF Nested
  <2> QED BY <2>1, <2>2
<1>12. Locked'
  <2>1. \A u \in Threads : \A l \in Ifaces : \A k \in Nat : Inside(u, k, l)' <=> Inside(u, k, l)
    <3> TAKE u \in Threads
    <3> TAKE l \in Ifaces
    <3> TAKE k \in Nat
    <3>1. CASE u # t
      BY <1>8, <3>1 DEF Inside
    <3>2. CASE u = t /\ k = n
      BY <1>2, <1>3, <1>4, <1>6, <1>8, <1>9, <3>2 DEF Inside
    <3>3. CASE u = t /\ k = n + 1
      BY <1>2, <1>7, <1>8, <1>9, <3>3 DEF Inside
    <3>4. CASE u = t /\ k # n /\ k # n + 1
      BY <1>2, <1>8, <1>9, <3>4 DEF Inside
    <3> QED BY <3>1, <3>2, <3>3, <3>4
  <2>2. \A u \in Threads : Len(stack[u]) \in Nat /\ Len(stack'[u]) \in Nat
    BY <1>1, <1>10 DEF Typed
  <2> QED BY <1>1, <1>4, <2>1, <2>2, LockedKept
<1>13. Owned'
  <2>1. Innermost(t)' = h /\ Innermost(t) = f /\ \A u \in Threads : u # t => Innermost(u)' = Innermost(u)
    BY <1>8 DEF Innermost, f
  <2>2. \A u \in Threads : \A q \in Packets : u # t => (Owns(u, q)' <=> Owns(u, q))
    BY <1>8, <2>1 DEF Owns
  <2>3. \A q \in Packets : (Owns(t, q)' <=> q = p) /\ (Owns(t, q) <=> q = p)
    BY <1>2, <1>3, <1>4, <1>7, <1>8, <1>9, <2>1 DEF Owns
  <2>4. \A u \in Threads : u # t => ~Owns(u, p)
    BY <1>1, <2>3 DEF Owned
  <2>5. at'[p] = "c" /\ \A q \in Packets : q # p => at'[q] = at[q]
    BY <1>1, <1>4 DEF Typed
  <2> QED BY <1>1, <1>7, <2>1, <2>2, <2>3, <2>4, <2>5 DEF Owned
<1> QED BY <1>10, <1>11, <1>12, <1>13 DEF Inv

(* What becomes of the packet of a call that ends: one that nexthop still  *)
(* owned is dropped, a CAN driver's is freed once, by libcsp.              *)
LEMMA SettleFacts ==
  ASSUME Typed, Nested, Owned, NEW t \in Threads, Calling(t), Top(t).st # "wait",
         NEW rc \in {0, -1}, Top(t).iface \notin Can => rc = 0, Settle(Top(t), rc)
  PROVE  at' = [at EXCEPT ![Top(t).pkt] = IF Top(t).st = "body" THEN "pool" ELSE at[Top(t).pkt]]
<1> DEFINE f == Top(t)
           isCan == f.iface \in Can
           kept == IF f.st = "body" /\ ~isCan THEN "pool" ELSE at[f.pkt]
           freed == rc # 0 \/ isCan
<1>1. at' = [at EXCEPT ![f.pkt] = CASE ~freed -> kept
                                    [] freed /\ kept = "c" -> "pool"
                                    [] freed /\ kept # "c" -> "double"]
  BY DEF Settle
<1>2. f = Innermost(t) /\ Len(stack[t]) >= 1 /\ f \in Frames /\ Len(stack[t]) \in Nat
  BY TopFacts DEF Innermost
<1>3. f.st \in {"body", "spent"} /\ f.pkt \in Packets
  BY <1>2, FrameFacts
<1>4. CASE ~isCan
  <2>1. ~freed
    BY <1>4
  <2>2. at' = [at EXCEPT ![f.pkt] = kept]
    BY <1>1, <2>1
  <2>3. kept = IF f.st = "body" THEN "pool" ELSE at[f.pkt]
    BY <1>4
  <2> QED BY <2>2, <2>3
<1>5. CASE isCan
  <2>1. f.st = "body"
    BY <1>2, <1>3, <1>5 DEF Nested, Innermost
  <2>2. Owns(t, f.pkt)
    BY <1>2, <2>1 DEF Owns
  <2>3. at[f.pkt] = "c"
    BY <1>2, <1>3, <1>5, <2>2 DEF Owned
  <2>4. freed /\ kept = "c"
    BY <1>5, <2>3
  <2>5. at' = [at EXCEPT ![f.pkt] = "pool"]
    BY <1>1, <2>4
  <2> QED BY <2>1, <2>5
<1> QED BY <1>4, <1>5

(* User code ends, by returning or by a panic.                             *)
LEMMA LeaveKeepsInv ==
  ASSUME Inv, NEW t \in Threads, Finish(t) \/ Panic(t)
  PROVE  Inv'
<1> DEFINE n == Len(stack[t])
           f == Innermost(t)
<1>1. Typed /\ Nested /\ Locked /\ Owned
  BY DEF Inv
<1>2. Calling(t) /\ Top(t) = f /\ n \in Nat /\ n >= 1 /\ f = stack[t][n] /\ f \in Frames
  BY <1>1, TopFacts DEF Finish, Panic, Innermost
<1>3. PICK i \in Ifaces, p \in Packets : f.iface = i /\ f.pkt = p
  BY <1>2, FrameFacts
<1>4. f.st # "wait" /\ lock' = [lock EXCEPT ![i] = None] /\ Pop(t)
  BY <1>2, <1>3 DEF Finish, Panic
<1>5. at' = [at EXCEPT ![p] = IF f.st = "body" THEN "pool" ELSE at[p]]
  <2>1. \E rc \in {0, -1} : (f.iface \notin Can => rc = 0) /\ Settle(f, rc)
    BY <1>2 DEF Finish, Panic
  <2> QED BY <1>1, <1>2, <1>3, <1>4, <2>1, SettleFacts
<1>6. /\ stack' \in [Threads -> Seq(Frames)]
      /\ \A u \in Threads : u # t => stack'[u] = stack[u]
      /\ Len(stack'[t]) = n - 1
      /\ \A k \in 1 .. n - 1 : stack'[t][k] = stack[t][k]
  BY <1>1, <1>2, <1>4, PopFacts
<1>7. Len(stack[t]) = n
  OBVIOUS
<1> HIDE DEF n, f
<1>8. Typed'
  <2>1. at \in [Packets -> {"pool", "c", "rust", "held", "router", "double"}]
    BY <1>1 DEF Typed
  <2>2. at' \in [Packets -> {"pool", "c", "rust", "held", "router", "double"}]
    BY <1>5, <2>1
  <2>3. lock' \in [Ifaces -> Threads \cup {None}]
    BY <1>1, <1>4 DEF Typed
  <2> QED BY <1>6, <2>2, <2>3 DEF Typed
<1>9. Nested'
  <2> SUFFICES ASSUME NEW u \in Threads
               PROVE  /\ \A k \in 1 .. Len(stack'[u]) - 1 : stack'[u][k].st = "spent"
                      /\ \A k \in 1 .. Len(stack'[u]) :
                           stack'[u][k].st = "spent" => stack'[u][k].iface \notin Can
    BY DEF Nested
  <2>1. CASE u = t
    <3>1. \A k \in 1 .. n - 1 : k \in 1 .. n
      BY <1>2
    <3>2. \A k \in 1 .. n - 1 - 1 : k \in 1 .. n - 1
      BY <1>2
    <3>3. \A k \in 1 .. n - 1 : stack'[t][k].st = "spent" /\ stack'[t][k].iface \notin Can
      BY <1>1, <1>6, <1>7, <3>1 DEF Nested
    <3> QED BY <1>6, <2>1, <3>2, <3>3
  <2>2. CASE u # t
    BY <1>1, <1>6, <2>2 DEF Nested
  <2> QED BY <2>1, <2>2
<1>10. Locked'
  <2>1. lock'[i] = None /\ \A j \in Ifaces : j # i => lock'[j] = lock[j]
    BY <1>1, <1>4 DEF Typed
  <2>2. Inside(t, n, i)
    BY <1>2, <1>3, <1>4, <1>7 DEF Inside
  <2>3. lock[i] = t
    BY <1>1, <1>2, <1>7, <2>2 DEF Locked
  <2>4. \A u \in Threads : \A k : u # t => ~Inside(u, k, i)
    BY <1>1, <2>3 DEF Locked, Inside
  <2>5. \A k : Inside(t, k, i) => k = n
    BY <1>1, <1>2, <1>7, <2>2 DEF Locked, Inside
  <2>6. \A u \in Threads : \A k, j : u # t => (Inside(u, k, j)' <=> Inside(u, k, j))
    BY <1>6 DEF Inside
  <2>7. \A k, j : Inside(t, k, j)' <=> Inside(t, k, j) /\ k # n
    <3> TAKE k, j
    <3>1. k \in 1 .. n - 1 <=> k \in 1 .. n /\ k # n
      BY <1>2
    <3> QED BY <1>6, <1>7, <3>1 DEF Inside
  <2>8. \A u \in Threads : \A j \in Ifaces :
          (\E k \in 1 .. Len(stack'[u]) : Inside(u, k, j)') <=> (\E k : Inside(u, k, j)')
    BY DEF Inside
  <2>9. \A u \in Threads : \A j \in Ifaces : lock[j] = u <=> \E k : Inside(u, k, j)
    BY <1>1 DEF Locked, Inside
  <2>10. \A k, j : Inside(t, k, j) /\ k = n => j = i
    BY <1>2, <1>3 DEF Inside
  <2>11. \A j \in Ifaces : \A u \in Threads :
          lock'[j] = u <=> \E k \in 1 .. Len(stack'[u]) : Inside(u, k, j)'
    <3> TAKE j \in Ifaces
    <3> TAKE u \in Threads
    <3> SUFFICES lock'[j] = u <=> \E k : Inside(u, k, j)'
      BY <2>8
    <3>1. CASE j = i
      BY <2>1, <2>4, <2>5, <2>6, <2>7, <3>1, InterfaceTxAssumption
    <3>2. CASE j # i
      BY <2>1, <2>6, <2>7, <2>9, <2>10, <3>2
    <3> QED BY <3>1, <3>2
  <2>12. \A j \in Ifaces : \A u \in Threads : \A a, b \in 1 .. Len(stack'[u]) :
          Inside(u, a, j)' /\ Inside(u, b, j)' => a = b
    <3>1. \A j \in Ifaces : \A u \in Threads : \A a, b : Inside(u, a, j) /\ Inside(u, b, j) => a = b
      BY <1>1 DEF Locked, Inside
    <3> QED BY <2>6, <2>7, <3>1
  <2> QED BY <2>11, <2>12 DEF Locked
<1>11. Owned'
  <2>1. Innermost(t) = f /\ \A u \in Threads : u # t => Innermost(u)' = Innermost(u)
    BY <1>6 DEF Innermost, f
  <2>2. \A u \in Threads : \A q \in Packets : u # t => (Owns(u, q)' <=> Owns(u, q))
    BY <1>6, <2>1 DEF Owns
  <2>3. \A q \in Packets : ~Owns(t, q)'
    <3>1. n - 1 >= 1 => Innermost(t)'.st = "spent"
      <4> SUFFICES ASSUME n - 1 >= 1 PROVE Innermost(t)'.st = "spent"
        OBVIOUS
      <4>1. n - 1 \in 1 .. n - 1
        BY <1>2
      <4>2. Innermost(t)' = stack[t][n - 1]
        BY <1>6, <4>1 DEF Innermost
      <4> QED BY <1>1, <1>7, <4>1, <4>2 DEF Nested
    <3> QED BY <1>6, <3>1 DEF Owns
  <2>4. \A q \in Packets : Owns(t, q) <=> q = p /\ f.st = "body"
    <3>1. f.st \in {"body", "spent"}
      BY <1>2, <1>4, FrameFacts
    <3> QED BY <1>2, <1>3, <1>7, <2>1, <3>1 DEF Owns
  <2>5. at'[p] = (IF f.st = "body" THEN "pool" ELSE at[p]) /\ \A q \in Packets : q # p => at'[q] = at[q]
    BY <1>1, <1>5 DEF Typed
  <2>6. CASE f.st = "body"
    <3>1. \A u \in Threads : u # t => ~Owns(u, p)
      BY <1>1, <2>4, <2>6 DEF Owned
    <3>2. at'[p] = "pool"
      BY <2>5, <2>6
    <3> QED BY <1>1, <2>1, <2>2, <2>3, <2>4, <2>5, <3>1, <3>2 DEF Owned
  <2>7. CASE f.st # "body"
    <3>1. \A q \in Packets : ~Owns(t, q) /\ at'[q] = at[q]
      BY <2>4, <2>5, <2>7
    <3> QED BY <1>1, <2>1, <2>2, <2>3, <3>1 DEF Owned
  <2> QED BY <2>6, <2>7
<1> QED BY <1>8, <1>9, <1>10, <1>11 DEF Inv

(* A packet that no call has comes in or is routed.                        *)
LEMMA RouterKeepsInv ==
  ASSUME Inv, NEW p \in Packets, Rx(p) \/ DropHeld(p) \/ Route(p)
  PROVE  Inv'
<1>1. PICK where \in {"pool", "router"} : at' = [at EXCEPT ![p] = where]
  BY DEF Rx, DropHeld, Route
<1>2. at[p] \in {"pool", "held", "router"} /\ UNCHANGED <<lock, stack>>
  BY DEF Rx, DropHeld, Route
<1>3. at'[p] = where /\ \A q \in Packets : q # p => at'[q] = at[q]
  BY <1>1 DEF Inv, Typed
<1>4. Typed' /\ Nested' /\ Locked'
  BY <1>1, <1>2 DEF Inv, Typed, Nested, Locked, Inside
<1>5. Owned'
  <2>1. \A u \in Threads : Innermost(u)' = Innermost(u) /\ \A q \in Packets : Owns(u, q)' <=> Owns(u, q)
    BY <1>2 DEF Innermost, Owns
  <2>2. \A u \in Threads : ~Owns(u, p)
    BY <1>2 DEF Inv, Owned
  <2> QED BY <1>3, <2>1, <2>2 DEF Inv, Owned
<1> QED BY <1>4, <1>5 DEF Inv

(* The invariant holds in every state.                                     *)
THEOREM InvHolds == Spec => []Inv
<1>1. Init => Inv
  <2> SUFFICES ASSUME Init PROVE Inv
    OBVIOUS
  <2>1. \A t \in Threads : stack[t] = << >> /\ Len(stack[t]) = 0
    BY DEF Init
  <2>2. Typed
    BY DEF Init, Typed
  <2>3. Nested
    BY <2>1 DEF Nested
  <2>4. Locked
    <3>1. \A i \in Ifaces : lock[i] = None
      BY DEF Init
    <3> QED BY <2>1, <3>1, InterfaceTxAssumption DEF Locked, Inside
  <2>5. Owned
    <3>1. \A p \in Packets : at[p] = "pool"
      BY DEF Init
    <3> QED BY <2>1, <3>1 DEF Owned, Owns
  <2> QED BY <2>2, <2>3, <2>4, <2>5 DEF Inv
<1>2. Inv /\ [Next]_vars => Inv'
  <2> SUFFICES ASSUME Inv, [Next]_vars PROVE Inv'
    OBVIOUS
  <2>1. CASE Next
    BY <2>1, TransmitKeepsInv, EnterKeepsInv, GiveAwayKeepsInv, SendOnKeepsInv, LeaveKeepsInv,
       RouterKeepsInv DEF Next
  <2>2. CASE UNCHANGED vars
    BY <2>2 DEF vars, Inv, Typed, Nested, Locked, Inside, Owned, Owns, Innermost
  <2> QED BY <2>1, <2>2
<1> QED BY <1>1, <1>2, PTL DEF Spec

-----------------------------------------------------------------------------
(* What the run checks, for every instance.                                *)

(* The &mut that nexthop or transmit gets is exclusive, however calls nest *)
(* and panic: a lock is held exactly while its one thread is inside.       *)
THEOREM LocksAreExclusive == Spec => []LockMatchesCalls
<1>1. Inv => LockMatchesCalls
  <2> SUFFICES ASSUME Inv, NEW i \in Ifaces
               PROVE  /\ \A t \in Threads :
                           lock[i] = t <=> \E f \in Calls(t) : f.iface = i /\ f.st # "wait"
                      /\ \A t, u \in Threads :
                           (\E f \in Calls(t), g \in Calls(u) :
                              f.iface = i /\ g.iface = i /\ f.st # "wait" /\ g.st # "wait") => t = u
    BY DEF LockMatchesCalls
  <2>1. \A t \in Threads : lock[i] = t <=> \E f \in Calls(t) : f.iface = i /\ f.st # "wait"
    BY DEF Inv, Locked, Inside, Calls
  <2> QED BY <2>1
<1> QED BY <1>1, InvHolds, PTL

(* Every packet on its way belongs to one call that will still settle it,  *)
(* and none is freed twice, whatever code the shims return.                *)
THEOREM PacketsAreAccounted == Spec => []EveryPacketAccounted
<1>1. Inv => EveryPacketAccounted
  <2> SUFFICES ASSUME Inv, NEW p \in Packets
               PROVE  /\ at[p] # "double"
                      /\ at[p] \in {"c", "rust"} <=>
                           \E t \in Threads : \E f \in Calls(t) : f.pkt = p /\ f.st # "spent"
    BY DEF EveryPacketAccounted
  <2>1. ASSUME NEW t \in Threads
        PROVE  Owns(t, p) <=> \E f \in Calls(t) : f.pkt = p /\ f.st # "spent"
    <3>1. Len(stack[t]) \in Nat
      BY DEF Inv, Typed
    <3>2. \A k \in 1 .. Len(stack[t]) : stack[t][k].st # "spent" => k = Len(stack[t])
      BY <3>1 DEF Inv, Nested
    <3>3. Len(stack[t]) >= 1 <=> Len(stack[t]) \in 1 .. Len(stack[t])
      BY <3>1
    <3>4. ASSUME Owns(t, p)
          PROVE  \E f \in Calls(t) : f.pkt = p /\ f.st # "spent"
      BY <3>3, <3>4 DEF Owns, Innermost, Calls
    <3>5. ASSUME NEW f \in Calls(t), f.pkt = p, f.st # "spent"
          PROVE  Owns(t, p)
      <4>1. PICK k \in 1 .. Len(stack[t]) : f = stack[t][k]
        BY DEF Calls
      <4>2. k = Len(stack[t])
        BY <3>2, <3>5, <4>1
      <4> QED BY <3>3, <3>5, <4>1, <4>2 DEF Owns, Innermost
    <3> QED BY <3>4, <3>5
  <2> QED BY <2>1 DEF Inv, Owned
<1> QED BY <1>1, InvHolds, PTL

(* Calls that all spin on one another's locks are sending packets on in a  *)
(* circle: the interfaces whose locks are held form it.                    *)
THEOREM OnlyCirclesBlock == Spec => []StuckOnlyInACircle
<1>1. Inv => StuckOnlyInACircle
  <2> SUFFICES ASSUME Inv,
                      \E t \in Threads : Calling(t),
                      \A t \in Threads : Calling(t) => Top(t).st = "wait" /\ lock[Top(t).iface] # None
               PROVE  Cyclic(SendsOn)
    BY DEF StuckOnlyInACircle
  <2> DEFINE S == {i \in Ifaces : lock[i] # None}
  <2>1. Typed /\ Locked
    BY DEF Inv
  <2>2. ASSUME NEW t \in Threads, Calling(t)
        PROVE  /\ Len(stack[t]) \in Nat /\ Len(stack[t]) >= 1
               /\ stack[t][Len(stack[t])].iface \in S
               /\ stack[t][Len(stack[t])].st = "wait"
    <3>1. /\ Len(stack[t]) \in Nat /\ Len(stack[t]) >= 1
          /\ Top(t) = stack[t][Len(stack[t])] /\ Top(t) \in Frames
      BY <2>1, <2>2, TopFacts
    <3>2. Top(t).iface \in Ifaces
      BY <3>1, FrameFacts
    <3> QED BY <2>2, <3>1, <3>2
  <2>3. S # {}
    BY <2>2
  <2>4. ASSUME NEW i \in S
        PROVE  \E j \in S : <<i, j>> \in SendsOn
    <3>1. PICK t \in Threads : lock[i] = t
      BY <2>1, <2>4 DEF Typed
    <3>2. PICK k \in 1 .. Len(stack[t]) : Inside(t, k, i)
      BY <2>1, <3>1 DEF Locked
    <3>3. stack[t] \in Seq(Frames) /\ stack[t] # << >>
      BY <2>1, <3>2 DEF Typed
    <3>4. Calling(t)
      BY <3>3 DEF Calling
    <3>5. k # Len(stack[t])
      BY <2>2, <3>2, <3>4 DEF Inside
    <3>6. k \in 1 .. Len(stack[t]) - 1 /\ k + 1 \in 1 .. Len(stack[t])
      BY <2>2, <3>4, <3>5
    <3> DEFINE j == stack[t][k + 1].iface
    <3>7. <<i, j>> \in SendsOn
      <4>1. <<stack[t][k].iface, stack[t][k + 1].iface>> \in
              {<<stack[t][l].iface, stack[t][l + 1].iface>> : l \in 1 .. (Len(stack[t]) - 1)}
        BY <3>6
      <4>2. stack[t][k].iface = i
        BY <3>2 DEF Inside
      <4> QED BY <4>1, <4>2 DEF SendsOn
    <3>8. j \in S
      <4>1. CASE k + 1 = Len(stack[t])
        BY <2>2, <3>4, <4>1
      <4>2. CASE k + 1 # Len(stack[t])
        <5>1. k + 1 \in 1 .. Len(stack[t]) - 1
          BY <2>2, <3>4, <3>6, <4>2
        <5>2. stack[t][k + 1].st = "spent"
          BY <5>1 DEF Inv, Nested
        <5>6. stack[t][k + 1] \in Frames
          BY <3>3, <3>6
        <5>3. j \in Ifaces
          BY <5>6, FrameFacts
        <5>4. Inside(t, k + 1, j)
          BY <3>6, <5>2 DEF Inside
        <5>5. lock[j] = t
          BY <2>1, <3>6, <5>3, <5>4 DEF Locked
        <5> QED BY <5>3, <5>5, InterfaceTxAssumption
      <4> QED BY <4>1, <4>2
    <3> QED BY <3>7, <3>8
  <2>5. S \in (SUBSET Ifaces) \ {{}}
    BY <2>3
  <2> HIDE DEF S
  <2> QED BY <2>4, <2>5 DEF Cyclic
<1> QED BY <1>1, InvHolds, PTL

(* Types; and shim calls nest at most one deeper than there are            *)
(* interfaces, so a circle of bridges blocks, it does not use up the stack.*)
THEOREM TypeCorrect == Spec => []TypeOK
<1>1. Inv => TypeOK
  <2> SUFFICES ASSUME Inv, NEW t \in Threads
               PROVE  Len(stack[t]) <= MaxDepth
    BY DEF Inv, Typed, TypeOK
  <2> DEFINE m == Len(stack[t]) - 1
             f == [k \in 1 .. m |-> stack[t][k].iface]
  <2>1. stack[t] \in Seq(Frames) /\ Len(stack[t]) \in Nat /\ Cardinality(Ifaces) \in Nat
    BY InterfaceTxAssumption, FS_CardinalityType DEF Inv, Typed
  <2>2. SUFFICES ASSUME Cardinality(Ifaces) < m PROVE FALSE
    BY <2>1 DEF MaxDepth
  <2>3. m \in Nat /\ m <= Len(stack[t]) /\ \A k \in 1 .. m : k \in 1 .. Len(stack[t])
    BY <2>1, <2>2
  <2>4. f \in [1 .. m -> Ifaces]
    <3>1. \A k \in 1 .. m : stack[t][k] \in Frames
      BY <2>1, <2>3
    <3>2. \A k \in 1 .. m : stack[t][k].iface \in Ifaces
      BY <3>1, FrameFacts
    <3> QED BY <3>2
  <2>5. IsFiniteSet(1 .. m) /\ Cardinality(1 .. m) = m
    <3> HIDE DEF m
    <3>1. 1 \in Int /\ m \in Int /\ 1 <= m + 1 /\ m - 1 + 1 = m
      BY <2>3
    <3> QED BY <2>3, <3>1, FS_Interval
  <2>6. PICK j, k \in 1 .. m : j # k /\ f[j] = f[k]
    <3> DEFINE D == 1 .. m
    <3>1. f \in [D -> Ifaces] /\ IsFiniteSet(D) /\ Cardinality(Ifaces) < Cardinality(D)
      BY <2>2, <2>4, <2>5
    <3> HIDE DEF f, m, D
    <3>2. IsFiniteSet(Ifaces)
      BY InterfaceTxAssumption
    <3>3. \E j, k \in D : j # k /\ f[j] = f[k]
      BY <3>1, <3>2, FS_PigeonHole
    <3> QED BY <3>3 DEF D
  <2>7. stack[t][j].st = "spent" /\ stack[t][k].st = "spent"
    BY DEF Inv, Nested
  <2>8. stack[t][j].iface \in Ifaces /\ stack[t][j].iface = stack[t][k].iface
    BY <2>4, <2>6
  <2>9. Inside(t, j, stack[t][j].iface) /\ Inside(t, k, stack[t][j].iface)
    BY <2>3, <2>7, <2>8 DEF Inside
  <2> QED BY <2>3, <2>6, <2>8, <2>9 DEF Inv, Locked
<1> QED BY <1>1, InvHolds, PTL
=============================================================================
