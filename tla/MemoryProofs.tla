---------------------------- MODULE MemoryProofs ----------------------------
(***************************************************************************)
(* The bytes that Rust and C share: packet buffers for every pool, every   *)
(* set of users, every buffer size and width of the length field; name     *)
(* fields of every width, tables of every shape, heaps of every size, *)
(* and CAN identifiers of every pair of addresses.                         *)
(***************************************************************************)
EXTENDS Memory, WellFoundedInduction, TLAPS

-----------------------------------------------------------------------------
(***************************************************************************)
(* Packet buffers.                                                         *)
(***************************************************************************)

(* A fresh packet is a user's. *)
Owned == \A b \in Buffers : fresh[b] => owner[b] \in Users

Inv == TypeOK /\ Owned /\ NoStaleBytes

(* The clamp of set_length returns a length the u16 can hold. *)
LEMMA ClampFits ==
    ASSUME NEW len \in 0 .. LenMax
    PROVE  Clamped(len) \in 0 .. LenMax
BY SizesAssumption DEF Clamped

(* The pool of a process that has just started satisfies the invariant. *)
LEMMA InitEstablishesInv == Init => Inv
<1> SUFFICES ASSUME Init PROVE Inv
  OBVIOUS
<1>1. TypeOK
  BY SizesAssumption DEF Init, TypeOK, Writers, Offsets
<1>2. Owned
  BY DEF Init, Owned
<1>3. NoStaleBytes
  BY DEF Init, NoStaleBytes, Id
<1> QED BY <1>1, <1>2, <1>3 DEF Inv

(* Every call of a user, of any user on any buffer, keeps the invariant. *)
LEMMA UserStepKeepsInv ==
    ASSUME Inv, NEW u \in Users, NEW b \in Buffers, UserStep(u, b)
    PROVE  Inv'
<1> USE SizesAssumption, NamesAssumption DEF Inv
<1>1. CASE Get(u, b)
  <2>1. TypeOK'
    BY <1>1 DEF Get, Zeroed, TypeOK, Writers, Offsets
  <2>2. Owned'
    BY <1>1 DEF Get, Zeroed, TypeOK, Owned, Pool
  <2>3. NoStaleBytes'
    BY <1>1 DEF Get, Zeroed, TypeOK, NoStaleBytes, Id
  <2> QED BY <2>1, <2>2, <2>3
<1>2. ASSUME NEW len \in 0 .. LenMax, SetLength(u, b, len)
      PROVE  Inv'
  <2>0. Clamped(len) \in 0 .. LenMax
    BY ClampFits
  <2>1. TypeOK'
    BY <1>2, <2>0 DEF SetLength, TypeOK
  <2>2. Owned'
    BY <1>2 DEF SetLength, TypeOK, Owned
  <2>3. NoStaleBytes'
    BY <1>2 DEF SetLength, NoStaleBytes, Id
  <2> QED BY <2>1, <2>2, <2>3
<1>3. ASSUME NEW n \in 0 .. MaxWrite, Write(u, b, n)
      PROVE  Inv'
  <2>0. Clamped(n % (LenMax + 1)) \in 0 .. LenMax
    <3>1. n % (LenMax + 1) \in 0 .. LenMax
      OBVIOUS
    <3> QED BY <3>1, ClampFits
  <2>1. TypeOK'
    BY <1>3, <2>0 DEF Write, TypeOK, Writers
  <2>2. Owned'
    BY <1>3, <2>0 DEF Write, TypeOK, Owned
  <2>3. NoStaleBytes'
    BY <1>3 DEF Write, TypeOK, NoStaleBytes, Id
  <2> QED BY <2>1, <2>2, <2>3
<1>4. ASSUME NEW n \in 0 .. MaxWrite, WriteTooLong(u, b, n)
      PROVE  Inv'
  BY <1>4 DEF WriteTooLong, vars, TypeOK, Owned, NoStaleBytes, Id
<1>5. ASSUME NEW i \in Offsets, PokeByte(u, b, i)
      PROVE  Inv'
  <2>1. TypeOK'
    BY <1>5 DEF PokeByte, TypeOK, Writers
  <2>2. Owned'
    BY <1>5 DEF PokeByte, TypeOK, Owned
  <2>3. NoStaleBytes'
    BY <1>5 DEF PokeByte, TypeOK, NoStaleBytes, Id
  <2> QED BY <2>1, <2>2, <2>3
<1>6. CASE SetId(u, b)
  <2>1. TypeOK'
    BY <1>6 DEF SetId, TypeOK, Writers
  <2>2. Owned'
    BY <1>6 DEF SetId, Owned
  <2>3. NoStaleBytes'
    BY <1>6 DEF SetId, TypeOK, NoStaleBytes, Id
  <2> QED BY <2>1, <2>2, <2>3
<1>7. CASE FromRaw(u, b)
  <2>0. ~ fresh[b]
    BY <1>7 DEF FromRaw, Owned
  <2>1. TypeOK'
    BY <1>7 DEF FromRaw, TypeOK
  <2>2. Owned'
    BY <1>7, <2>0 DEF FromRaw, TypeOK, Owned
  <2>3. NoStaleBytes'
    BY <1>7, <2>0 DEF FromRaw, TypeOK, NoStaleBytes, Id
  <2> QED BY <2>1, <2>2, <2>3
<1>8. CASE IntoRaw(u, b) \/ Drop(u, b)
  <2>1. TypeOK'
    BY <1>8 DEF IntoRaw, Drop, contents, TypeOK
  <2>2. Owned'
    BY <1>8 DEF IntoRaw, Drop, contents, TypeOK, Owned
  <2>3. NoStaleBytes'
    BY <1>8 DEF IntoRaw, Drop, contents, TypeOK, NoStaleBytes, Id
  <2> QED BY <2>1, <2>2, <2>3
<1> QED BY <1>1, <1>2, <1>3, <1>4, <1>5, <1>6, <1>7, <1>8 DEF UserStep

(* So does every step of the C stack: it only touches buffers that it has,
   or takes from the pool, and those are not fresh. *)
LEMMA CStepKeepsInv ==
    ASSUME Inv, NEW b \in Buffers, CStep(b)
    PROVE  Inv'
<1> USE SizesAssumption, NamesAssumption DEF Inv
<1>0. ~ fresh[b]
  BY DEF CStep, CTakes, CFills, CFrees, Owned
<1>1. CASE CTakes(b) \/ CFrees(b)
  <2>1. TypeOK'
    BY <1>1 DEF CTakes, CFrees, TypeOK
  <2>2. Owned'
    BY <1>0, <1>1 DEF CTakes, CFrees, TypeOK, Owned
  <2>3. NoStaleBytes'
    BY <1>0, <1>1 DEF CTakes, CFrees, TypeOK, NoStaleBytes, Id
  <2> QED BY <2>1, <2>2, <2>3
<1>2. ASSUME NEW len \in 0 .. LenMax, CFills(b, len)
      PROVE  Inv'
  <2>1. TypeOK'
    BY <1>2 DEF CFills, TypeOK, Writers
  <2>2. Owned'
    BY <1>0, <1>2 DEF CFills, TypeOK, Owned
  <2>3. NoStaleBytes'
    BY <1>0, <1>2 DEF CFills, TypeOK, NoStaleBytes, Id
  <2> QED BY <2>1, <2>2, <2>3
<1> QED BY <1>1, <1>2 DEF CStep

(* The invariant holds in every reachable state. *)
THEOREM InvHolds == Spec => []Inv
<1>1. Init => Inv
  BY InitEstablishesInv
<1>2. Inv /\ [Next]_vars => Inv'
  <2> SUFFICES ASSUME Inv, [Next]_vars PROVE Inv'
    OBVIOUS
  <2>1. CASE Next
    <3>1. ASSUME NEW b \in Buffers, CStep(b) PROVE Inv'
      BY <3>1, CStepKeepsInv
    <3>2. ASSUME NEW b \in Buffers, NEW u \in Users, UserStep(u, b) PROVE Inv'
      BY <3>2, UserStepKeepsInv
    <3> QED BY <2>1, <3>1, <3>2 DEF Next
  <2>2. CASE UNCHANGED vars
    BY <2>2 DEF vars, Inv, TypeOK, Owned, NoStaleBytes, Id
  <2> QED BY <2>1, <2>2
<1> QED BY <1>1, <1>2, PTL DEF Spec

(***************************************************************************)
(* Packet::get never shows what an earlier user of the buffer left in it.  *)
(***************************************************************************)
THEOREM NothingLeftOver == Spec => []NoStaleBytes
<1>1. Inv => NoStaleBytes
  BY DEF Inv
<1> QED BY InvHolds, <1>1, PTL

(***************************************************************************)
(* The packets of the composed system behave as PacketBuffer says, so its  *)
(* theorems hold of Memory too.                                            *)
(***************************************************************************)
THEOREM PacketsInMemory == MemorySpec => Spec
<1>1. MemoryInit => Init
  BY DEF MemoryInit
<1>2. [MemoryNext]_<<part, vars, freestanding>> => [Next]_vars
  BY DEF MemoryNext
<1> QED BY <1>1, <1>2, PTL DEF MemorySpec, Spec


-----------------------------------------------------------------------------
(***************************************************************************)
(* The heap: malloc and free with their size header, and the queues.       *)
(***************************************************************************)

(* What the allocator handed out for what a caller holds, and for a queue. *)
BlockOf(p) == <<p[1] - ALIGN, p[2] + ALIGN>>
Box(q) == <<q[2], QueueBytes>>

(* Two blocks have no byte in common.                                      *)
Apart(k, l) == k[1] + k[2] <= l[1] \/ l[1] + l[2] <= k[1]

(* Every block is one caller's or one queue's, apart from all others, and  *)
(* the header before what a caller holds has its size; a queue's slots     *)
(* fill its block.  As an operator of the four parts, so that a step can   *)
(* be taken apart.                                                         *)
Sound(B, H, L, Q) ==
    /\ L \subseteq Nat \X Nat /\ Q \subseteq Nat \X Nat \X Shapes
    /\ \A p \in L : /\ p[1] >= ALIGN /\ p[1] % ALIGN = 0
                    /\ p[1] - ALIGN \in DOMAIN H /\ H[p[1] - ALIGN] = p[2]
    /\ B = {BlockOf(p) : p \in L} \cup {Box(q) : q \in Q}
    /\ \A k, l \in B : k[1] = l[1] \/ Apart(k, l)
    /\ \A p \in L : \A q \in Q : p[1] - ALIGN # q[2]
    /\ \A q, r \in Q : q[1] = r[1] \/ q[2] = r[2] => q = r
    /\ \A q \in Q : \E p \in L : p[1] = q[1] /\ p[2] = F!SlotBytes(q[3])

(* The heap's constants are positive numbers.                              *)
LEMMA HeapNumbers ==
    /\ ALIGN \in Nat \ {0} /\ Word \in Nat \ {0} /\ Word <= ALIGN
    /\ QueueBytes \in Nat \ {0} /\ UsizeMax \in Nat \ {0} /\ HeapSize \in Nat
    /\ \A n \in Sizes : n \in Nat
    /\ \A s \in Shapes : s[1] \in Nat /\ s[2] \in Nat
<1>1. {Width, ALIGN, Word, UsizeMax, HeapSize, QueueBytes} \subseteq Nat \ {0} /\ Word <= ALIGN
  BY FreestandingAssumption
<1>2. Sizes \subseteq 0 .. UsizeMax /\ Shapes \subseteq (0 .. UsizeMax) \X (0 .. UsizeMax)
  BY FreestandingAssumption
<1>3. \A n \in 0 .. UsizeMax : n \in Nat
  BY <1>1
<1> QED BY <1>1, <1>2, <1>3

(* Ranges of bytes that do not meet, one of them perhaps empty.            *)
LEMMA BytesApart ==
    ASSUME NEW a \in Nat, NEW n \in Nat, NEW b \in Nat, NEW m \in Nat
    PROVE  /\ a + n <= b \/ b + m <= a => F!Bytes(a, n) \cap F!Bytes(b, m) = {}
           /\ F!Bytes(a, n) \cap F!Bytes(b, m) = {} /\ n > 0 /\ m > 0
                => a + n <= b \/ b + m <= a
<1>1. ASSUME a + n <= b \/ b + m <= a PROVE F!Bytes(a, n) \cap F!Bytes(b, m) = {}
  BY <1>1 DEF F!Bytes
<1>2. ASSUME n > 0, m > 0, ~(a + n <= b), ~(b + m <= a)
      PROVE  F!Bytes(a, n) \cap F!Bytes(b, m) # {}
  <2>1. CASE a <= b
    <3>1. b \in F!Bytes(a, n) /\ b \in F!Bytes(b, m)
      BY <1>2, <2>1 DEF F!Bytes
    <3> QED BY <3>1
  <2>2. CASE b <= a
    <3>1. a \in F!Bytes(a, n) /\ a \in F!Bytes(b, m)
      BY <1>2, <2>2 DEF F!Bytes
    <3> QED BY <3>1
  <2> QED BY <2>1, <2>2
<1> QED BY <1>1, <1>2

(* An aligned place stays aligned ALIGN further on.                        *)
LEMMA NextAligned ==
    ASSUME NEW a \in Nat, NEW n \in Nat \ {0}, a % n = 0
    PROVE  (a + n) % n = 0
<1> DEFINE q == a \div n
           s == (a + n) \div n
           r == (a + n) % n
<1>1. q \in Int /\ s \in Int /\ r \in 0 .. n - 1
  OBVIOUS
<1>2. a = n * q
  OBVIOUS
<1>3. a + n = n * s + r
  OBVIOUS
<1> HIDE DEF q, s, r
<1>4. n * (q + 1 - s) = r
  BY <1>1, <1>2, <1>3
<1> DEFINE m == q + 1 - s
<1>5. m \in Int /\ n * m = r
  BY <1>1, <1>4
<1> HIDE DEF m
<1>6. ~(m >= 1)
  BY <1>1, <1>5
<1>7. ~(m <= -1)
  BY <1>1, <1>5
<1>8. r = 0
  BY <1>5, <1>6, <1>7
<1> QED BY <1>8 DEF r

(* Blocks are ranges of at least one byte, and one base has one block.     *)
LEMMA SoundBlocks ==
    ASSUME NEW B, NEW H, NEW L, NEW Q, Sound(B, H, L, Q)
    PROVE  /\ \A k \in B : k[1] \in Nat /\ k[2] \in Nat \ {0}
           /\ \A k, l \in B : k[1] = l[1] => k = l
           /\ \A p, r \in L : p[1] = r[1] => p = r
<1> USE HeapNumbers
<1>1. \A p \in L : /\ p[1] \in Nat /\ p[2] \in Nat /\ p = <<p[1], p[2]>>
                   /\ p[1] >= ALIGN /\ H[p[1] - ALIGN] = p[2]
  BY DEF Sound
<1>2. \A q \in Q : q[1] \in Nat /\ q[2] \in Nat
  BY DEF Sound
<1>3. \A p, r \in L : p[1] = r[1] => p = r
  BY <1>1
<1>4. \A k \in B : (\E p \in L : k = BlockOf(p)) \/ (\E q \in Q : k = Box(q))
  BY DEF Sound
<1>5. \A p \in L : BlockOf(p)[1] = p[1] - ALIGN /\ BlockOf(p)[2] = p[2] + ALIGN
  BY DEF BlockOf
<1>6. \A q \in Q : Box(q)[1] = q[2] /\ Box(q)[2] = QueueBytes
  BY DEF Box
<1>7. \A k \in B : k[1] \in Nat /\ k[2] \in Nat \ {0}
  <2> SUFFICES ASSUME NEW k \in B PROVE k[1] \in Nat /\ k[2] \in Nat \ {0}
    OBVIOUS
  <2>1. ASSUME NEW p \in L, k = BlockOf(p) PROVE k[1] \in Nat /\ k[2] \in Nat \ {0}
    BY <1>1, <1>5, <2>1
  <2>2. ASSUME NEW q \in Q, k = Box(q) PROVE k[1] \in Nat /\ k[2] \in Nat \ {0}
    BY <1>2, <1>6, <2>2
  <2> QED BY <1>4, <2>1, <2>2
<1>8. ASSUME NEW k \in B, NEW l \in B, k[1] = l[1] PROVE k = l
  <2>1. ASSUME NEW p \in L, NEW r \in L, k = BlockOf(p), l = BlockOf(r) PROVE k = l
    <3>1. p[1] - ALIGN = r[1] - ALIGN
      BY <1>5, <1>8, <2>1
    <3>2. p[1] = r[1]
      BY <1>1, <3>1
    <3> QED BY <1>3, <2>1, <3>2
  <2>2. ASSUME NEW q \in Q, NEW r \in Q, k = Box(q), l = Box(r) PROVE k = l
    BY <1>6, <1>8, <2>2 DEF Sound
  <2>3. ASSUME NEW p \in L, NEW q \in Q, (k = BlockOf(p) /\ l = Box(q)) \/ (k = Box(q) /\ l = BlockOf(p))
        PROVE  FALSE
    BY <1>5, <1>6, <1>8, <2>3 DEF Sound
  <2> QED BY <1>4, <2>1, <2>2, <2>3
<1> QED BY <1>3, <1>7, <1>8

(* What the allocator finds is apart from everything it has handed out.    *)
LEMMA PlaceIsFree ==
    ASSUME NEW B, NEW n \in Nat \ {0}, NEW a \in F!Places(B, n),
           \A k \in B : k[1] \in Nat /\ k[2] \in Nat \ {0}
    PROVE  /\ a \in Nat /\ a % ALIGN = 0
           /\ \A k \in B : a # k[1] /\ Apart(<<a, n>>, k) /\ Apart(k, <<a, n>>)
<1>1. a \in 0 .. HeapSize - n /\ a % ALIGN = 0
      /\ \A k \in B : F!Bytes(a, n) \cap F!Bytes(k[1], k[2]) = {}
  BY DEF F!Places
<1>2. a \in Nat
  BY <1>1, HeapNumbers
<1>3. ASSUME NEW k \in B PROVE a # k[1] /\ Apart(<<a, n>>, k) /\ Apart(k, <<a, n>>)
  <2>1. k[1] \in Nat /\ k[2] \in Nat /\ k[2] > 0 /\ n > 0 /\ F!Bytes(a, n) \cap F!Bytes(k[1], k[2]) = {}
    BY <1>1
  <2>2. a + n <= k[1] \/ k[1] + k[2] <= a
    BY <1>2, <2>1, BytesApart
  <2> QED BY <1>2, <2>1, <2>2 DEF Apart
<1> QED BY <1>1, <1>2, <1>3

(* malloc: a free place with the size in its first bytes.                  *)
LEMMA Taken ==
    ASSUME NEW B, NEW H, NEW L, NEW Q, Sound(B, H, L, Q),
           NEW n \in Nat, NEW a \in F!Places(B, n + ALIGN)
    PROVE  /\ Sound(B \cup {<<a, n + ALIGN>>},
                    [x \in DOMAIN H \cup {a} |-> IF x = a THEN n ELSE H[x]],
                    L \cup {<<a + ALIGN, n>>}, Q)
           /\ \A q \in Q : q[1] # a + ALIGN
<1> DEFINE c == <<a, n + ALIGN>>
           p == <<a + ALIGN, n>>
           G == [x \in DOMAIN H \cup {a} |-> IF x = a THEN n ELSE H[x]]
           C == B \cup {c}
           M == L \cup {p}
<1>1. /\ \A k \in B : k[1] \in Nat /\ k[2] \in Nat \ {0}
      /\ \A k, l \in B : k[1] = l[1] => k = l
      /\ \A r, s \in L : r[1] = s[1] => r = s
  BY SoundBlocks
<1>2. n + ALIGN \in Nat \ {0} /\ ALIGN \in Nat \ {0}
  BY HeapNumbers
<1>3. a \in Nat /\ a % ALIGN = 0 /\ \A k \in B : a # k[1] /\ Apart(c, k) /\ Apart(k, c)
  BY <1>1, <1>2, PlaceIsFree
<1>4. /\ p \in Nat \X Nat /\ p[1] = a + ALIGN /\ p[2] = n /\ c[1] = a /\ c[2] = n + ALIGN
      /\ p[1] - ALIGN = a /\ p[1] >= ALIGN
  BY <1>2, <1>3
<1>5. p[1] % ALIGN = 0
  BY <1>2, <1>3, NextAligned
<1>6. BlockOf(p) = c
  BY <1>4 DEF BlockOf
<1>7. \A r \in L : r[1] \in Nat /\ r[1] - ALIGN # a
  <2> SUFFICES ASSUME NEW r \in L PROVE r[1] \in Nat /\ r[1] - ALIGN # a
    OBVIOUS
  <2>1. BlockOf(r) \in B /\ r[1] \in Nat
    BY DEF Sound
  <2>2. BlockOf(r)[1] = r[1] - ALIGN
    BY DEF BlockOf
  <2> QED BY <1>3, <2>1, <2>2
<1>8. \A q \in Q : a # q[2]
  <2> SUFFICES ASSUME NEW q \in Q PROVE a # q[2]
    OBVIOUS
  <2>1. Box(q) \in B
    BY DEF Sound
  <2>2. Box(q)[1] = q[2]
    BY DEF Box
  <2> QED BY <1>3, <2>1, <2>2
<1>9. \A q \in Q : q[1] # a + ALIGN
  <2> SUFFICES ASSUME NEW q \in Q PROVE q[1] # a + ALIGN
    OBVIOUS
  <2>1. PICK r \in L : r[1] = q[1]
    BY DEF Sound
  <2> QED BY <1>2, <1>3, <1>7, <2>1
<1> HIDE DEF c, p
<1>10. /\ M \subseteq Nat \X Nat /\ Q \subseteq Nat \X Nat \X Shapes
  BY <1>4 DEF Sound
<1>11. \A r \in M : /\ r[1] >= ALIGN /\ r[1] % ALIGN = 0
                    /\ r[1] - ALIGN \in DOMAIN G /\ G[r[1] - ALIGN] = r[2]
  <2>1. /\ p[1] - ALIGN \in DOMAIN G /\ G[p[1] - ALIGN] = p[2]
    BY <1>4
  <2>2. ASSUME NEW r \in L PROVE r[1] - ALIGN \in DOMAIN G /\ G[r[1] - ALIGN] = r[2]
    BY <1>7 DEF Sound
  <2>3. \A r \in L : r[1] >= ALIGN /\ r[1] % ALIGN = 0
    BY DEF Sound
  <2> HIDE DEF G
  <2> QED BY <1>4, <1>5, <2>1, <2>2, <2>3
<1> HIDE DEF G
<1>12. C = {BlockOf(r) : r \in M} \cup {Box(q) : q \in Q}
  <2>1. B = {BlockOf(r) : r \in L} \cup {Box(q) : q \in Q}
    BY DEF Sound
  <2> QED BY <1>6, <2>1
<1>13. \A k, l \in C : k[1] = l[1] \/ Apart(k, l)
  BY <1>3 DEF Sound
<1>14. \A r \in M : \A q \in Q : r[1] - ALIGN # q[2]
  BY <1>4, <1>8 DEF Sound
<1>15. \A q, r \in Q : q[1] = r[1] \/ q[2] = r[2] => q = r
  BY DEF Sound
<1>16. \A q \in Q : \E r \in M : r[1] = q[1] /\ r[2] = F!SlotBytes(q[3])
  BY DEF Sound
<1> HIDE DEF C, M
<1>17. Sound(C, G, M, Q)
  BY <1>10, <1>11, <1>12, <1>13, <1>14, <1>15, <1>16 DEF Sound
<1> QED BY <1>9, <1>17 DEF C, M, G, c, p

(* queue_create: a Box for a queue whose slots are p.                      *)
LEMMA Boxed ==
    ASSUME NEW B, NEW H, NEW L, NEW Q, Sound(B, H, L, Q),
           NEW p \in L, \A q \in Q : q[1] # p[1], NEW a \in F!Places(B, QueueBytes),
           NEW h \in Shapes, p[2] = F!SlotBytes(h)
    PROVE  Sound(B \cup {<<a, QueueBytes>>}, H, L, Q \cup {<<p[1], a, h>>})
<1> DEFINE c == <<a, QueueBytes>>
           s == <<p[1], a, h>>
           C == B \cup {c}
           R == Q \cup {s}
<1>1. \A k \in B : k[1] \in Nat /\ k[2] \in Nat \ {0}
  BY SoundBlocks
<1>2. QueueBytes \in Nat \ {0} /\ ALIGN \in Nat
  BY HeapNumbers
<1>3. a \in Nat /\ \A k \in B : a # k[1] /\ Apart(c, k) /\ Apart(k, c)
  BY <1>1, <1>2, PlaceIsFree
<1>4. p[1] \in Nat
  BY DEF Sound
<1>5. s \in Nat \X Nat \X Shapes /\ s[1] = p[1] /\ s[2] = a /\ s[3] = h /\ c[1] = a /\ Box(s) = c
  BY <1>3, <1>4 DEF Box
<1>6. \A r \in L : r[1] - ALIGN # a
  <2> SUFFICES ASSUME NEW r \in L PROVE r[1] - ALIGN # a
    OBVIOUS
  <2>1. BlockOf(r) \in B
    BY DEF Sound
  <2>2. BlockOf(r)[1] = r[1] - ALIGN
    BY DEF BlockOf
  <2> QED BY <1>3, <2>1, <2>2
<1>7. \A q \in Q : a # q[2]
  <2> SUFFICES ASSUME NEW q \in Q PROVE a # q[2]
    OBVIOUS
  <2>1. Box(q) \in B
    BY DEF Sound
  <2>2. Box(q)[1] = q[2]
    BY DEF Box
  <2> QED BY <1>3, <2>1, <2>2
<1> HIDE DEF c, s
<1>8. L \subseteq Nat \X Nat /\ R \subseteq Nat \X Nat \X Shapes
  BY <1>5 DEF Sound
<1>9. \A r \in L : /\ r[1] >= ALIGN /\ r[1] % ALIGN = 0
                   /\ r[1] - ALIGN \in DOMAIN H /\ H[r[1] - ALIGN] = r[2]
  BY DEF Sound
<1>10. C = {BlockOf(r) : r \in L} \cup {Box(q) : q \in R}
  <2>1. B = {BlockOf(r) : r \in L} \cup {Box(q) : q \in Q}
    BY DEF Sound
  <2> QED BY <1>5, <2>1
<1>11. \A k, l \in C : k[1] = l[1] \/ Apart(k, l)
  BY <1>3 DEF Sound
<1>12. \A r \in L : \A q \in R : r[1] - ALIGN # q[2]
  BY <1>5, <1>6 DEF Sound
<1>13. \A q, r \in R : q[1] = r[1] \/ q[2] = r[2] => q = r
  BY <1>5, <1>7 DEF Sound
<1>14. \A q \in R : \E r \in L : r[1] = q[1] /\ r[2] = F!SlotBytes(q[3])
  BY <1>5 DEF Sound
<1> HIDE DEF C, R
<1>15. Sound(C, H, L, R)
  BY <1>8, <1>9, <1>10, <1>11, <1>12, <1>13, <1>14 DEF Sound
<1> QED BY <1>15 DEF C, R, c, s

(* free: the block of a caller who is not a queue.                         *)
LEMMA Released ==
    ASSUME NEW B, NEW H, NEW L, NEW Q, Sound(B, H, L, Q),
           NEW p \in L, \A q \in Q : q[1] # p[1]
    PROVE  Sound(B \ {BlockOf(p)}, H, L \ {p}, Q)
<1> DEFINE C == B \ {BlockOf(p)}
           M == L \ {p}
<1>1. \A r, s \in L : r[1] = s[1] => r = s
  BY SoundBlocks
<1>2. \A r \in L : r[1] \in Nat
  BY DEF Sound
<1>3. \A r \in M : BlockOf(r) # BlockOf(p)
  <2> SUFFICES ASSUME NEW r \in M PROVE BlockOf(r) # BlockOf(p)
    OBVIOUS
  <2>1. BlockOf(r)[1] = r[1] - ALIGN /\ BlockOf(p)[1] = p[1] - ALIGN
    BY DEF BlockOf
  <2>2. r[1] # p[1] /\ r[1] \in Nat /\ p[1] \in Nat
    BY <1>1, <1>2
  <2>3. r[1] - ALIGN # p[1] - ALIGN
    BY <2>2, HeapNumbers
  <2> QED BY <2>1, <2>3
<1>4. \A q \in Q : Box(q) # BlockOf(p)
  <2> SUFFICES ASSUME NEW q \in Q PROVE Box(q) # BlockOf(p)
    OBVIOUS
  <2>1. Box(q)[1] = q[2] /\ BlockOf(p)[1] = p[1] - ALIGN
    BY DEF BlockOf, Box
  <2>2. p[1] - ALIGN # q[2]
    BY DEF Sound
  <2> QED BY <2>1, <2>2
<1>5. C = {BlockOf(r) : r \in M} \cup {Box(q) : q \in Q}
  <2>1. B = {BlockOf(r) : r \in L} \cup {Box(q) : q \in Q}
    BY DEF Sound
  <2> QED BY <1>3, <1>4, <2>1
<1>6. M \subseteq L /\ C \subseteq B
  OBVIOUS
<1>7. \A q \in Q : \E r \in M : r[1] = q[1] /\ r[2] = F!SlotBytes(q[3])
  BY DEF Sound
<1>8. \A k, l \in C : k[1] = l[1] \/ Apart(k, l)
  BY <1>6 DEF Sound
<1> HIDE DEF C, M
<1>9. Sound(C, H, M, Q)
  BY <1>5, <1>6, <1>7, <1>8 DEF Sound
<1> QED BY <1>9 DEF C, M

(* queue_remove gives the Box back.                                        *)
LEMMA Unboxed ==
    ASSUME NEW B, NEW H, NEW L, NEW Q, Sound(B, H, L, Q), NEW q \in Q
    PROVE  /\ Sound(B \ {Box(q)}, H, L, Q \ {q})
           /\ \A r \in Q \ {q} : r[1] # q[1]
<1> DEFINE C == B \ {Box(q)}
           R == Q \ {q}
<1>1. \A r \in R : r[1] # q[1] /\ r[2] # q[2]
  BY DEF Sound
<1>2. \A r \in R : Box(r) # Box(q)
  <2> SUFFICES ASSUME NEW r \in R PROVE Box(r) # Box(q)
    OBVIOUS
  <2>1. Box(q)[1] = q[2] /\ Box(r)[1] = r[2]
    BY DEF Box
  <2> QED BY <1>1, <2>1
<1>3. \A p \in L : BlockOf(p) # Box(q)
  <2> SUFFICES ASSUME NEW p \in L PROVE BlockOf(p) # Box(q)
    OBVIOUS
  <2>1. Box(q)[1] = q[2] /\ BlockOf(p)[1] = p[1] - ALIGN
    BY DEF BlockOf, Box
  <2>2. p[1] - ALIGN # q[2]
    BY DEF Sound
  <2> QED BY <2>1, <2>2
<1>4. C = {BlockOf(p) : p \in L} \cup {Box(r) : r \in R}
  <2>1. B = {BlockOf(p) : p \in L} \cup {Box(r) : r \in Q}
    BY DEF Sound
  <2> QED BY <1>2, <1>3, <2>1
<1>5. R \subseteq Q /\ C \subseteq B
  OBVIOUS
<1>6. \A k, l \in C : k[1] = l[1] \/ Apart(k, l)
  BY <1>5 DEF Sound
<1> HIDE DEF C, R
<1>7. Sound(C, H, L, R)
  BY <1>4, <1>5, <1>6 DEF Sound
<1> QED BY <1>1, <1>7 DEF C, R

(* What the headers H hold after somebody wrote the bytes of S.            *)
Hit(H, S) ==
    [a \in DOMAIN H |-> IF F!Bytes(a, Word) \cap S # {} THEN F!Garbage ELSE H[a]]

(* A caller who writes bytes of its own reaches nobody's header.           *)
LEMMA Scribbled ==
    ASSUME NEW B, NEW H, NEW L, NEW Q, Sound(B, H, L, Q), NEW p \in L,
           NEW S, S \subseteq F!Bytes(p[1], p[2])
    PROVE  Sound(B, Hit(H, S), L, Q)
<1> DEFINE G == Hit(H, S)
<1>1. \A r \in L : /\ r[1] \in Nat /\ r[2] \in Nat /\ r[1] >= ALIGN
                   /\ r[1] - ALIGN \in DOMAIN H /\ H[r[1] - ALIGN] = r[2] /\ BlockOf(r) \in B
  BY DEF Sound
<1>2. \A r, s \in L : r[1] = s[1] => r = s
  BY SoundBlocks
<1>3. ASSUME NEW r \in L
      PROVE  F!Bytes(r[1] - ALIGN, Word) \cap S = {}
  <2>1. /\ r[1] - ALIGN \in Nat /\ Word \in Nat /\ p[1] \in Nat /\ p[2] \in Nat
        /\ Word <= ALIGN /\ ALIGN \in Nat /\ r[2] \in Nat /\ r[1] \in Nat
    BY <1>1, HeapNumbers
  <2>2. (r[1] - ALIGN) + Word <= p[1] \/ p[1] + p[2] <= r[1] - ALIGN
    <3>1. CASE r[1] = p[1]
      BY <2>1, <3>1
    <3>2. CASE r[1] # p[1]
      <4>1. BlockOf(r)[1] = r[1] - ALIGN /\ BlockOf(p)[1] = p[1] - ALIGN
            /\ BlockOf(r)[2] = r[2] + ALIGN /\ BlockOf(p)[2] = p[2] + ALIGN
        BY DEF BlockOf
      <4>2. r[1] - ALIGN # p[1] - ALIGN
        BY <2>1, <3>2
      <4>3. Apart(BlockOf(r), BlockOf(p))
        BY <1>1, <4>1, <4>2 DEF Sound
      <4> QED BY <2>1, <4>1, <4>3 DEF Apart
    <3> QED BY <3>1, <3>2
  <2>3. F!Bytes(r[1] - ALIGN, Word) \cap F!Bytes(p[1], p[2]) = {}
    BY <2>1, <2>2, BytesApart
  <2> QED BY <2>3
<1>4. \A r \in L : r[1] - ALIGN \in DOMAIN G /\ G[r[1] - ALIGN] = r[2]
  BY <1>1, <1>3 DEF Hit
<1> HIDE DEF G
<1>5. Sound(B, G, L, Q)
  BY <1>4 DEF Sound
<1> QED BY <1>5 DEF G

(* The heap's invariant.                                                   *)
HeapInv == Sound(blocks, sizes, live, queues)

(* What queue_create's product needs of the queues asked for: the byte     *)
(* count fits a usize.                                                     *)
NoShapeWraps == \A shape \in Shapes : F!SlotBytes(shape) <= UsizeMax

(* Slot tail of a queue lies inside its slots, and its offset is no more   *)
(* than their bytes.                                                       *)
LEMMA SlotInside ==
    ASSUME NEW n \in Nat, NEW item \in Nat, NEW tail \in 0 .. n - 1
    PROVE  tail * item \in Nat /\ tail * item + item <= n * item
<1> DEFINE more == n - 1 - tail
<1>1. more \in Nat /\ n = tail + 1 + more
  OBVIOUS
<1> HIDE DEF more
<1>2. n * item = tail * item + item + more * item
  BY <1>1
<1>3. more * item \in Nat /\ tail * item \in Nat /\ n * item \in Nat
  BY <1>1
<1> QED BY <1>2, <1>3

(* Every call of malloc, free, queue_create and queue_remove keeps it, and *)
(* so do the writes of those who hold blocks.                              *)
LEMMA HeapNext ==
    NoShapeWraps /\ HeapInv /\ [MemoryNext]_<<part, vars, freestanding>> => HeapInv'
<1> SUFFICES ASSUME NoShapeWraps, HeapInv, [MemoryNext]_<<part, vars, freestanding>>
             PROVE  HeapInv'
  OBVIOUS
<1>1. ASSUME UNCHANGED <<blocks, sizes, live, queues>> PROVE HeapInv'
  BY <1>1 DEF HeapInv
<1>2. ASSUME NEW size \in Nat, F!Total(size) # F!Null PROVE F!Total(size) = size + ALIGN
  BY <1>2 DEF F!Total
<1>3. ASSUME NEW size \in Sizes, F!Malloc(size) PROVE HeapInv'
  <2>1. size \in Nat
    BY HeapNumbers
  <2>2. F!Total(size) = size + ALIGN
    BY <1>2, <1>3, <2>1 DEF F!Malloc
  <2>3. PICK a \in F!Places(blocks, size + ALIGN) :
          /\ blocks' = blocks \cup {<<a, size + ALIGN>>}
          /\ sizes' = F!Stored(a, size)
          /\ live' = live \cup {<<a + ALIGN, size>>}
    BY <1>3, <2>2 DEF F!Malloc
  <2>4. queues' = queues
    BY <1>3 DEF F!Malloc
  <2> QED BY <2>1, <2>3, <2>4, Taken DEF HeapInv, F!Stored
<1>4. ASSUME NEW p \in live, F!Scribble(p) PROVE HeapInv'
  <2> DEFINE S == F!Bytes(p[1], p[2])
  <2>1. sizes' = Hit(sizes, S) /\ UNCHANGED <<blocks, live, queues>>
    BY <1>4 DEF F!Scribble, F!Overwritten, Hit
  <2>2. Sound(blocks, Hit(sizes, S), live, queues)
    BY Scribbled DEF HeapInv
  <2> QED BY <2>1, <2>2 DEF HeapInv
<1>5. \A p \in live : F!Freed(p) = BlockOf(p)
  BY DEF HeapInv, Sound, F!Freed, BlockOf
<1>6. ASSUME NEW p \in live, F!Free(p) PROVE HeapInv'
  <2>1. /\ blocks' = blocks \ {BlockOf(p)} /\ live' = live \ {p} /\ UNCHANGED <<sizes, queues>>
        /\ \A q \in queues : q[1] # p[1]
    BY <1>5, <1>6 DEF F!Free, F!IsQueue
  <2> QED BY <2>1, Released DEF HeapInv
<1>7. ASSUME NEW shape \in Shapes, F!QueueCreate(shape) PROVE HeapInv'
  <2> DEFINE size == F!SlotBytes(shape) % (UsizeMax + 1)
  <2>1. size \in Nat /\ size = F!SlotBytes(shape)
    <3>1. shape[1] \in Nat /\ shape[2] \in Nat /\ UsizeMax \in Nat
      BY HeapNumbers
    <3>2. F!SlotBytes(shape) \in Nat
      BY <3>1 DEF F!SlotBytes
    <3>3. F!SlotBytes(shape) <= UsizeMax
      BY DEF NoShapeWraps
    <3> QED BY <3>1, <3>2, <3>3
  <2>2. /\ F!Total(size) # F!Null
        /\ \E base \in F!Places(blocks, F!Total(size)) :
             \E box \in F!Places(blocks \cup {<<base, F!Total(size)>>}, QueueBytes) :
                /\ blocks' = (blocks \cup {<<base, F!Total(size)>>}) \cup {<<box, QueueBytes>>}
                /\ sizes' = F!Stored(base, size)
                /\ live' = live \cup {<<base + ALIGN, size>>}
                /\ queues' = queues \cup {<<base + ALIGN, box, shape>>}
    BY <1>7 DEF F!QueueCreate
  <2> HIDE DEF size
  <2>3. F!Total(size) = size + ALIGN
    BY <1>2, <2>1, <2>2
  <2>4. PICK a \in F!Places(blocks, size + ALIGN) :
             \E box \in F!Places(blocks \cup {<<a, size + ALIGN>>}, QueueBytes) :
                /\ blocks' = (blocks \cup {<<a, size + ALIGN>>}) \cup {<<box, QueueBytes>>}
                /\ sizes' = F!Stored(a, size)
                /\ live' = live \cup {<<a + ALIGN, size>>}
                /\ queues' = queues \cup {<<a + ALIGN, box, shape>>}
    BY <2>2, <2>3
  <2> DEFINE B == blocks \cup {<<a, size + ALIGN>>}
             H == [x \in DOMAIN sizes \cup {a} |-> IF x = a THEN size ELSE sizes[x]]
             p == <<a + ALIGN, size>>
             L == live \cup {p}
  <2>5. PICK box \in F!Places(B, QueueBytes) :
             blocks' = B \cup {<<box, QueueBytes>>} /\ sizes' = F!Stored(a, size) /\ live' = L
             /\ queues' = queues \cup {<<a + ALIGN, box, shape>>}
    BY <2>4
  <2>6. Sound(B, H, L, queues) /\ \A q \in queues : q[1] # a + ALIGN
    BY <2>1, Taken DEF HeapInv
  <2>7. p \in L /\ p[1] = a + ALIGN /\ p[2] = F!SlotBytes(shape)
    BY <2>1
  <2>8. sizes' = H
    BY <2>5 DEF F!Stored
  <2> HIDE DEF B, H, p, L
  <2>9. Sound(B \cup {<<box, QueueBytes>>}, H, L, queues \cup {<<p[1], box, shape>>})
    BY <2>6, <2>7, Boxed
  <2> QED BY <2>5, <2>7, <2>8, <2>9 DEF HeapInv
<1>8. ASSUME NEW q \in queues, F!QueueRemove(q) PROVE HeapInv'
  <2>1. PICK p \in live : p[1] = q[1] /\ live' = live \ {p}
                          /\ blocks' = blocks \ {BlockOf(p), Box(q)}
    BY <1>5, <1>8 DEF F!QueueRemove, Box
  <2>2. queues' = queues \ {q} /\ sizes' = sizes
    BY <1>8 DEF F!QueueRemove
  <2>3. Sound(blocks \ {Box(q)}, sizes, live, queues \ {q}) /\ \A r \in queues \ {q} : r[1] # p[1]
    BY <2>1, Unboxed DEF HeapInv
  <2>4. Sound((blocks \ {Box(q)}) \ {BlockOf(p)}, sizes, live \ {p}, queues \ {q})
    BY <2>3, Released
  <2>5. blocks' = (blocks \ {Box(q)}) \ {BlockOf(p)}
    BY <2>1
  <2> QED BY <2>1, <2>2, <2>4, <2>5 DEF HeapInv
<1>11. ASSUME NEW q \in queues, NEW tail \in 0 .. q[3][1] - 1, F!Enqueue(q, tail) PROVE HeapInv'
  <2> DEFINE n == q[3][1]
             item == q[3][2]
             offset == (tail * item) % (UsizeMax + 1)
             S == F!Bytes(q[1] + offset, item)
  <2>1. sizes' = Hit(sizes, S) /\ UNCHANGED <<blocks, live, queues>>
    BY <1>11 DEF F!Enqueue, F!Overwritten, Hit
  <2>2. PICK p \in live : p[1] = q[1] /\ p[2] = F!SlotBytes(q[3])
    BY DEF HeapInv, Sound
  <2>3. q[3] \in Shapes /\ q[1] \in Nat
    BY DEF HeapInv, Sound
  <2>4. n \in Nat /\ item \in Nat /\ UsizeMax \in Nat
    BY <2>3, HeapNumbers
  <2>5. p[2] = n * item /\ n * item <= UsizeMax
    BY <2>2, <2>3 DEF NoShapeWraps, F!SlotBytes
  <2>6. tail * item \in Nat /\ tail * item + item <= n * item /\ n * item \in Nat
    <3> HIDE DEF n, item
    <3>1. tail \in 0 .. n - 1
      BY DEF n
    <3> QED BY <2>4, <3>1, SlotInside
  <2>7. offset \in Nat /\ offset + item <= p[2]
    <3> DEFINE m == tail * item
    <3>1. m \in Nat /\ m + item <= p[2] /\ p[2] \in Nat /\ p[2] <= UsizeMax
      BY <2>5, <2>6
    <3> HIDE DEF m, n, item
    <3>2. m % (UsizeMax + 1) = m
      BY <2>4, <3>1
    <3> QED BY <3>1, <3>2 DEF m
  <2>8. S \subseteq F!Bytes(p[1], p[2])
    <3> HIDE DEF offset, item, n
    <3>1. p[1] \in Nat /\ p[2] \in Nat
      BY DEF HeapInv, Sound
    <3> QED BY <2>2, <2>3, <2>4, <2>7, <3>1 DEF F!Bytes
  <2> HIDE DEF S
  <2>9. Sound(blocks, Hit(sizes, S), live, queues)
    BY <2>8, Scribbled DEF HeapInv
  <2> QED BY <2>1, <2>9 DEF HeapInv
<1>9. CASE F!HeapStep
  BY <1>3, <1>4, <1>6, <1>7, <1>8, <1>9, <1>11 DEF F!HeapStep
<1>10. ASSUME F!NameStep \/ F!TokenStep \/ F!FrameStep \/ UNCHANGED freestanding
       PROVE  UNCHANGED <<blocks, sizes, live, queues>>
  BY <1>10 DEF F!NameStep, F!FillField, F!CopyWhole, F!TokenStep, F!Load, F!NextEntry, F!NextField,
        F!FrameStep, F!EmitFrame, F!heap, F!vars, freestanding
<1> QED BY <1>1, <1>9, <1>10 DEF MemoryNext

(* However malloc, free, queue_create, queue_remove and the writes of      *)
(* callers and of enqueue interleave, every header still rebuilds the      *)
(* layout its block was taken with, what a caller holds is aligned and     *)
(* nobody else's, and a queue's slots fit its block: for every heap,       *)
(* alignment, word size, size asked for and queue whose byte count fits a  *)
(* usize.                                                                  *)
THEOREM HeapStaysIntact == NoShapeWraps => (MemorySpec => []HeapIntact)
<1> SUFFICES ASSUME NoShapeWraps PROVE MemorySpec => []HeapIntact
  OBVIOUS
<1>0. HeapInv /\ [MemoryNext]_<<part, vars, freestanding>> => HeapInv'
  BY HeapNext
<1>1. MemoryInit => HeapInv
  <2> SUFFICES ASSUME MemoryInit PROVE HeapInv
    OBVIOUS
  <2>1. blocks = {} /\ live = {} /\ queues = {}
    BY DEF MemoryInit, F!Init
  <2> QED BY <2>1 DEF HeapInv, Sound
<1>2. HeapInv => HeapIntact
  <2> SUFFICES ASSUME HeapInv PROVE F!HeapIntact
    BY DEF HeapIntact
  <2>1. \A p \in live : F!Freed(p) = BlockOf(p)
    BY DEF HeapInv, Sound, F!Freed, BlockOf
  <2>2. blocks = {BlockOf(p) : p \in live} \cup {Box(q) : q \in queues}
    BY DEF HeapInv, Sound
  <2>3. blocks = {F!Freed(p) : p \in live} \cup {<<q[2], QueueBytes>> : q \in queues}
    BY <2>1, <2>2 DEF Box
  <2>4. ASSUME NEW p \in live, NEW k \in blocks, k[1] # p[1] - ALIGN
        PROVE  F!Bytes(p[1], p[2]) \cap F!Bytes(k[1], k[2]) = {}
    <3>1. k[1] \in Nat /\ k[2] \in Nat
      BY SoundBlocks DEF HeapInv
    <3>2. p[1] \in Nat /\ p[2] \in Nat /\ BlockOf(p) \in blocks
      BY <2>2 DEF HeapInv, Sound
    <3>3. BlockOf(p)[1] = p[1] - ALIGN /\ BlockOf(p)[2] = p[2] + ALIGN
      BY DEF BlockOf
    <3>4. Apart(BlockOf(p), k)
      BY <2>4, <3>2, <3>3 DEF HeapInv, Sound
    <3>5. p[1] + p[2] <= k[1] \/ k[1] + k[2] <= p[1]
      BY <3>1, <3>2, <3>3, <3>4, HeapNumbers DEF Apart
    <3> QED BY <3>1, <3>2, <3>5, BytesApart
  <2>5. \A p \in live : p[1] % ALIGN = 0 /\ sizes[p[1] - ALIGN] = p[2]
    BY DEF HeapInv, Sound
  <2>6. \A q \in queues : \E p \in live : p[1] = q[1] /\ F!SlotBytes(q[3]) <= p[2]
    <3> SUFFICES ASSUME NEW q \in queues
                 PROVE  \E p \in live : p[1] = q[1] /\ F!SlotBytes(q[3]) <= p[2]
      OBVIOUS
    <3>1. PICK p \in live : p[1] = q[1] /\ p[2] = F!SlotBytes(q[3])
      BY DEF HeapInv, Sound
    <3>2. p[2] \in Nat
      BY DEF HeapInv, Sound
    <3> QED BY <3>1, <3>2
  <2> QED BY <2>3, <2>4, <2>5, <2>6 DEF F!HeapIntact
<1> QED BY <1>0, <1>1, <1>2, PTL DEF MemorySpec

-----------------------------------------------------------------------------
(***************************************************************************)
(* CAN identifiers.                                                        *)
(***************************************************************************)

(* Two five-bit addresses above 19 more bits come out as they went in.     *)
LEMMA AddressesComeOut ==
    ASSUME NEW s \in Addresses, NEW d \in Addresses, NEW rest \in Rests
    PROVE  LET id == F!MakeSrc(s) + F!MakeDst(d) + rest
           IN  F!CfpSrc(id) = s % 32 /\ F!CfpDst(id) = d % 32
<1> DEFINE x == s % 32
           y == d % 32
<1>1. s \in Nat /\ d \in Nat /\ rest \in Nat /\ rest < 524288
  BY FramesAssumption, SMT
<1>2. x \in Nat /\ x < 32 /\ y \in Nat /\ y < 32
  BY <1>1, SMT
<1>3. F!MakeSrc(s) = x * 16777216 /\ F!MakeDst(d) = y * 524288
  BY SMT DEF F!MakeSrc, F!MakeDst, F!HOST_MASK, F!SRC_SHIFT, F!DST_SHIFT
<1> DEFINE id == x * 16777216 + y * 524288 + rest
<1> HIDE DEF x, y
<1>4. (id \div 16777216) % 32 = x /\ (id \div 524288) % 32 = y
  BY <1>1, <1>2, SMT
<1> QED BY <1>3, <1>4, SMT DEF x, y, F!CfpSrc, F!CfpDst, F!HOST_MASK, F!SRC_SHIFT, F!DST_SHIFT

(* cfp::src and cfp::dst take the frame's addresses out of its identifier, *)
(* whatever the other address and the fields below them hold.              *)
THEOREM AddressesSurvive == MemorySpec => []CanIdsKeepAddresses
<1> USE DEF CanIdsKeepAddresses, F!CanIdsKeepAddresses
<1>1. MemoryInit => CanIdsKeepAddresses
  BY SMT DEF MemoryInit, F!Init
<1>2. CanIdsKeepAddresses /\ [MemoryNext]_<<part, vars, freestanding>> => CanIdsKeepAddresses'
  <2> SUFFICES ASSUME CanIdsKeepAddresses, [MemoryNext]_<<part, vars, freestanding>>
               PROVE  CanIdsKeepAddresses'
    OBVIOUS
  <2>1. ASSUME frame' = frame PROVE CanIdsKeepAddresses'
    BY <2>1, SMT DEF F!CfpSrc, F!CfpDst, F!SRC_SHIFT, F!DST_SHIFT, F!HOST_MASK
  <2>2. ASSUME NEW s \in Addresses, NEW d \in Addresses, NEW rest \in Rests, F!EmitFrame(s, d, rest)
        PROVE  CanIdsKeepAddresses'
    <3> DEFINE id == F!MakeSrc(s) + F!MakeDst(d) + rest
    <3>1. frame' = [src |-> s, dst |-> d, id |-> id]
      BY <2>2, SMT DEF F!EmitFrame
    <3>2. F!CfpSrc(id) = s % 32 /\ F!CfpDst(id) = d % 32
      BY AddressesComeOut, SMT
    <3> HIDE DEF id
    <3>3. frame'.src = s /\ frame'.dst = d /\ frame'.id = id
      BY <3>1, SMT
    <3> QED BY <3>2, <3>3, SMT DEF F!CfpSrc, F!CfpDst, F!SRC_SHIFT, F!DST_SHIFT, F!HOST_MASK
  <2>3. ASSUME F!NameStep \/ F!TokenStep \/ F!HeapStep \/ UNCHANGED freestanding
        PROVE  frame' = frame
    BY <2>3 DEF F!NameStep, F!FillField, F!CopyWhole, F!TokenStep, F!Load, F!NextEntry, F!NextField,
          F!HeapStep, F!Malloc, F!Free, F!Scribble, F!Enqueue, F!QueueCreate, F!QueueRemove, F!vars, freestanding
  <2> HIDE DEF CanIdsKeepAddresses
  <2> QED BY <2>1, <2>2, <2>3 DEF MemoryNext, F!FrameStep
<1> QED BY <1>1, <1>2, PTL DEF MemorySpec

-----------------------------------------------------------------------------
(***************************************************************************)
(* Name fields.                                                            *)
(***************************************************************************)

(* The codes of a string's characters.                                     *)
Chars == Nat \ {0}

(* Field f has the characters of s and, if there is room, a terminator;    *)
(* what comes after it may be anything.                                    *)
Holds(f, s) ==
    /\ f \in [1 .. Width -> Nat]
    /\ \A i \in 1 .. Width : /\ i <= Len(s) => f[i] = s[i]
                             /\ i = Len(s) + 1 => f[i] = 0

(* The least element of a set of numbers, once it is known.                *)
LEMMA MinKnown ==
    ASSUME NEW S, S \subseteq Int, NEW m \in S, \A y \in S : m <= y
    PROVE  F!Min(S) = m
<1> DEFINE k == F!Min(S)
<1>1. k \in S /\ \A y \in S : k <= y
  BY DEF F!Min
<1> HIDE DEF k
<1>2. k = m
  <2>1. k \in Int /\ m \in Int /\ k <= m /\ m <= k
    BY <1>1
  <2> QED BY <2>1
<1> QED BY <1>2 DEF k

Below == {w \in Nat \X Nat : w[1] < w[2]}

(* A set of numbers that is not empty has a least element.                 *)
LEMMA MinExists ==
    ASSUME NEW S \in SUBSET Nat, S # {}
    PROVE  F!Min(S) \in S /\ \A y \in S : F!Min(S) <= y
<1>1. IsWellFoundedOn(Below, Nat)
  BY NatLessThanWellFounded DEF OpToRel, Below
<1>2. PICK x \in S : \A y \in S : <<y, x>> \notin Below
  BY <1>1, WFMin
<1>3. ASSUME NEW y \in S PROVE x <= y
  <2>1. x \in Nat /\ y \in Nat
    OBVIOUS
  <2>2. ~(y < x)
    BY <1>2, <2>1 DEF Below
  <2> QED BY <2>1, <2>2
<1> QED BY <1>3 DEF F!Min

(* A string cropped to the width of the field.                             *)
LEMMA CroppedFacts ==
    ASSUME NEW s \in Seq(Chars)
    PROVE  \E m \in Nat :
             /\ m <= Len(s) /\ m <= Width /\ (m = Len(s) \/ m = Width)
             /\ F!Min({Len(s), Width}) = m
             /\ F!Cropped(s) \in Seq(Chars) /\ Len(F!Cropped(s)) = m
             /\ \A i \in 1 .. m : F!Cropped(s)[i] = s[i]
<1>1. Len(s) \in Nat /\ Width \in Nat
  BY FreestandingAssumption
<1> DEFINE m == IF Len(s) <= Width THEN Len(s) ELSE Width
<1>2. m \in Nat /\ m <= Len(s) /\ m <= Width /\ (m = Len(s) \/ m = Width)
  BY <1>1
<1> HIDE DEF m
<1>3. F!Min({Len(s), Width}) = m
  <2> DEFINE S == {Len(s), Width}
  <2>1. S \subseteq Int /\ m \in S /\ \A y \in S : m <= y
    BY <1>1, <1>2
  <2> HIDE DEF S
  <2>2. F!Min(S) = m
    BY <2>1, MinKnown
  <2> QED BY <2>2 DEF S
<1>4. F!Cropped(s) = SubSeq(s, 1, m)
  BY <1>3 DEF F!Cropped
<1>5. /\ SubSeq(s, 1, m) \in Seq(Chars) /\ Len(SubSeq(s, 1, m)) = m
      /\ \A i \in 1 .. m : SubSeq(s, 1, m)[i] = s[i]
  BY <1>1, <1>2
<1> QED BY <1>2, <1>3, <1>4, <1>5

(* Two strings are the same once cropped if they agree at every place of   *)
(* the field.                                                              *)
LEMMA CroppedAgree ==
    ASSUME NEW s \in Seq(Chars), NEW t \in Seq(Chars)
    PROVE  F!Cropped(s) = F!Cropped(t) <=> \A i \in 1 .. Width : F!At(s, i) = F!At(t, i)
<1>1. PICK m \in Nat : /\ m <= Len(s) /\ m <= Width /\ (m = Len(s) \/ m = Width)
                       /\ F!Cropped(s) \in Seq(Chars) /\ Len(F!Cropped(s)) = m
                       /\ \A i \in 1 .. m : F!Cropped(s)[i] = s[i]
  BY CroppedFacts
<1>2. PICK n \in Nat : /\ n <= Len(t) /\ n <= Width /\ (n = Len(t) \/ n = Width)
                       /\ F!Cropped(t) \in Seq(Chars) /\ Len(F!Cropped(t)) = n
                       /\ \A i \in 1 .. n : F!Cropped(t)[i] = t[i]
  BY CroppedFacts
<1>3. /\ Len(s) \in Nat /\ Len(t) \in Nat /\ Width \in Nat
      /\ \A i \in 1 .. Len(s) : s[i] # 0
      /\ \A i \in 1 .. Len(t) : t[i] # 0
  BY FreestandingAssumption DEF Chars
<1> DEFINE c == F!Cropped(s)
           d == F!Cropped(t)
<1> HIDE DEF c, d
<1>4. ASSUME c = d, NEW i \in 1 .. Width PROVE F!At(s, i) = F!At(t, i)
  <2>1. m = n
    BY <1>1, <1>2, <1>4 DEF c, d
  <2>2. CASE i <= m
    <3>1. i \in 1 .. m /\ i \in 1 .. n /\ i <= Len(s) /\ i <= Len(t)
      BY <1>1, <1>2, <1>3, <2>1, <2>2
    <3> QED BY <1>1, <1>2, <1>4, <3>1 DEF F!At, c, d
  <2>3. CASE ~(i <= m)
    <3>1. ~(i <= Len(s)) /\ ~(i <= Len(t))
      BY <1>1, <1>2, <1>3, <2>1, <2>3
    <3> QED BY <3>1 DEF F!At
  <2> QED BY <2>2, <2>3
<1>5. ASSUME \A i \in 1 .. Width : F!At(s, i) = F!At(t, i) PROVE c = d
  <2>1. ~(m < n)
    <3> SUFFICES ASSUME m < n PROVE FALSE
      OBVIOUS
    <3>1. m + 1 \in 1 .. Width /\ ~(m + 1 <= Len(s)) /\ m + 1 <= Len(t) /\ m + 1 \in 1 .. Len(t)
      BY <1>1, <1>2, <1>3
    <3> QED BY <1>3, <1>5, <3>1 DEF F!At, F!Nul
  <2>2. ~(n < m)
    <3> SUFFICES ASSUME n < m PROVE FALSE
      OBVIOUS
    <3>1. n + 1 \in 1 .. Width /\ ~(n + 1 <= Len(t)) /\ n + 1 <= Len(s) /\ n + 1 \in 1 .. Len(s)
      BY <1>1, <1>2, <1>3
    <3> QED BY <1>3, <1>5, <3>1 DEF F!At, F!Nul
  <2>3. m = n
    BY <1>1, <1>2, <2>1, <2>2
  <2>4. ASSUME NEW i \in 1 .. m PROVE c[i] = d[i]
    <3>1. i \in 1 .. Width /\ i <= Len(s) /\ i <= Len(t) /\ i \in 1 .. n
      BY <1>1, <1>2, <1>3, <2>3
    <3> QED BY <1>1, <1>2, <1>5, <3>1 DEF F!At, c, d
  <2> QED BY <1>1, <1>2, <2>3, <2>4 DEF c, d
<1> QED BY <1>4, <1>5 DEF c, d

(* A field read place by place.                                            *)
LEMMA FieldReads ==
    ASSUME NEW f, NEW s \in Seq(Chars), Holds(f, s)
    PROVE  /\ f \in Seq(Nat) /\ Len(f) = Width
           /\ \A i \in 1 .. Width : F!At(f, i) = f[i] /\ F!At(f, i) \in Nat
           /\ \A i \in 1 .. Width : i <= Len(s) + 1 => F!At(f, i) = F!At(s, i)
           /\ Len(s) < Width => F!At(f, Len(s) + 1) = 0
           /\ \A i \in 1 .. Width : i <= Len(s) => F!At(s, i) # 0
           /\ \A i \in 1 .. Width : F!At(s, i) \in Nat
<1>1. Len(s) \in Nat /\ Width \in Nat /\ \A i \in 1 .. Len(s) : s[i] \in Nat /\ s[i] # 0
  BY FreestandingAssumption DEF Chars
<1>2. f \in [1 .. Width -> Nat]
  BY DEF Holds
<1>3. f \in Seq(Nat) /\ Len(f) = Width
  <2>1. f \in Seq(Nat) /\ DOMAIN f = 1 .. Width
    BY <1>1, <1>2
  <2> QED BY <1>1, <2>1
<1>4. \A i \in 1 .. Width : F!At(f, i) = f[i] /\ F!At(f, i) \in Nat
  BY <1>1, <1>2, <1>3 DEF F!At
<1>5. ASSUME NEW i \in 1 .. Width PROVE F!At(s, i) \in Nat /\ (i <= Len(s) => F!At(s, i) # 0)
  <2>1. CASE i <= Len(s)
    <3>1. i \in 1 .. Len(s)
      BY <1>1, <2>1
    <3> QED BY <1>1, <2>1, <3>1 DEF F!At
  <2>2. CASE ~(i <= Len(s))
    BY <2>2 DEF F!At, F!Nul
  <2> QED BY <2>1, <2>2
<1>6. ASSUME NEW i \in 1 .. Width, i <= Len(s) + 1 PROVE F!At(f, i) = F!At(s, i)
  <2>1. i <= Len(s) \/ (i = Len(s) + 1 /\ ~(i <= Len(s)))
    BY <1>1, <1>6
  <2> QED BY <1>4, <2>1 DEF Holds, F!At, F!Nul
<1>7. Len(s) < Width => F!At(f, Len(s) + 1) = 0
  <2>1. Len(s) < Width => Len(s) + 1 \in 1 .. Width
    BY <1>1
  <2> QED BY <1>4, <2>1 DEF Holds
<1> QED BY <1>3, <1>4, <1>5, <1>6, <1>7

(* strnlen, and what a reader that knows the width takes out.              *)
LEMMA ReadBack ==
    ASSUME NEW f, NEW s \in Seq(Chars), Holds(f, s)
    PROVE  SubSeq(f, 1, F!Strnlen(f, Width)) = F!Cropped(s)
<1>1. PICK m \in Nat : /\ m <= Len(s) /\ m <= Width /\ (m = Len(s) \/ m = Width)
                       /\ F!Cropped(s) \in Seq(Chars) /\ Len(F!Cropped(s)) = m
                       /\ \A i \in 1 .. m : F!Cropped(s)[i] = s[i]
  BY CroppedFacts
<1>2. Len(s) \in Nat /\ Width \in Nat
  BY FreestandingAssumption
<1> DEFINE S == {i \in 0 .. Width : i = Width \/ F!At(f, i + 1) = 0}
<1>3. m \in S
  <2>1. m \in 0 .. Width
    BY <1>1, <1>2
  <2>2. m = Width \/ F!At(f, m + 1) = 0
    <3> SUFFICES ASSUME m # Width PROVE F!At(f, m + 1) = 0
      OBVIOUS
    <3>1. m = Len(s) /\ Len(s) < Width
      BY <1>1, <1>2
    <3>2. Len(s) < Width => F!At(f, Len(s) + 1) = 0
      BY FieldReads
    <3> QED BY <3>1, <3>2
  <2> QED BY <2>1, <2>2
<1>4. ASSUME NEW i \in S PROVE m <= i
  <2> SUFFICES ASSUME i < m PROVE FALSE
    BY <1>1, <1>2
  <2>1. i + 1 \in 1 .. Width /\ i + 1 <= Len(s) /\ i + 1 <= Len(s) + 1 /\ i # Width
    BY <1>1, <1>2
  <2>2. F!At(f, i + 1) = F!At(s, i + 1) /\ F!At(s, i + 1) # 0
    BY <2>1, FieldReads
  <2> QED BY <2>1, <2>2
<1>5. S \subseteq Int
  BY <1>2
<1>6. F!Strnlen(f, Width) = F!Min(S)
  BY DEF F!Strnlen, F!Nul
<1> HIDE DEF S
<1>7. F!Strnlen(f, Width) = m
  BY <1>3, <1>4, <1>5, <1>6, MinKnown
<1>8. f \in Seq(Nat) /\ Len(f) = Width
  BY FieldReads
<1>9. /\ SubSeq(f, 1, m) \in Seq(Nat) /\ Len(SubSeq(f, 1, m)) = m
      /\ \A i \in 1 .. m : SubSeq(f, 1, m)[i] = f[i]
  BY <1>1, <1>2, <1>8
<1>10. \A i \in 1 .. m : f[i] = s[i]
  <2> SUFFICES ASSUME NEW i \in 1 .. m PROVE f[i] = s[i]
    OBVIOUS
  <2>1. i \in 1 .. Width /\ i <= Len(s)
    BY <1>1, <1>2
  <2> QED BY <2>1 DEF Holds
<1> DEFINE c == F!Cropped(s)
           d == SubSeq(f, 1, m)
<1>11. c \in Seq(Chars) /\ d \in Seq(Nat) /\ Len(c) = m /\ Len(d) = m /\ \A i \in 1 .. m : c[i] = d[i]
  BY <1>1, <1>9, <1>10
<1> HIDE DEF c, d
<1>12. c = d
  BY <1>11
<1> QED BY <1>7, <1>12 DEF c, d

(* strncmp of a field with a string says 0 for the strings that agree with *)
(* the field's up to the width, and for no other.                          *)
LEMMA ComparesUpToWidth ==
    ASSUME NEW f, NEW s \in Seq(Chars), Holds(f, s), NEW t \in Seq(Chars)
    PROVE  F!Strncmp(f, t, Width) = 0 <=> F!Cropped(t) = F!Cropped(s)
<1>1. Len(s) \in Nat /\ Len(t) \in Nat /\ Width \in Nat
  BY FreestandingAssumption
<1> DEFINE stops == {i \in 1 .. Width : F!At(f, i) # F!At(t, i) \/ F!At(f, i) = 0}
           k == F!Min(stops)
<1>2. F!Strncmp(f, t, Width) = IF stops = {} THEN 0 ELSE F!At(f, k) - F!At(t, k)
  BY DEF F!Strncmp, F!Nul
<1>3. stops # {} => k \in stops /\ \A j \in stops : k <= j
  <2>1. stops \in SUBSET Nat
    BY <1>1
  <2> HIDE DEF stops
  <2> QED BY <2>1, MinExists
<1>4. \A i \in 1 .. Width : F!At(t, i) \in Nat /\ (i <= Len(t) => F!At(t, i) # 0)
  <2> SUFFICES ASSUME NEW i \in 1 .. Width PROVE F!At(t, i) \in Nat /\ (i <= Len(t) => F!At(t, i) # 0)
    OBVIOUS
  <2>1. i <= Len(t) => i \in 1 .. Len(t)
    BY <1>1
  <2>2. \A j \in 1 .. Len(t) : t[j] \in Nat /\ t[j] # 0
    BY DEF Chars
  <2> QED BY <2>1, <2>2 DEF F!At, F!Nul
<1>5. /\ \A i \in 1 .. Width : F!At(f, i) \in Nat
      /\ \A i \in 1 .. Width : i <= Len(s) + 1 => F!At(f, i) = F!At(s, i)
      /\ Len(s) < Width => F!At(f, Len(s) + 1) = 0
      /\ \A i \in 1 .. Width : i <= Len(s) => F!At(s, i) # 0
  BY FieldReads
<1>6. \A i \in 1 .. Width : i > Len(s) => F!At(s, i) = 0
  BY <1>1 DEF F!At, F!Nul
<1>7. \A i \in 1 .. Width : i > Len(t) => F!At(t, i) = 0
  BY <1>1 DEF F!At, F!Nul
<1>8. Len(s) < Width => Len(s) + 1 \in stops
  BY <1>1, <1>5
<1>9. stops # {} => k \in 1 .. Width /\ k <= Len(s) + 1
  <2> SUFFICES ASSUME stops # {} PROVE k \in 1 .. Width /\ k <= Len(s) + 1
    OBVIOUS
  <2>1. k \in 1 .. Width
    BY <1>3
  <2>2. CASE Len(s) < Width
    BY <1>3, <1>8, <2>2
  <2>3. CASE ~(Len(s) < Width)
    <3> HIDE DEF k
    <3> QED BY <1>1, <2>1, <2>3
  <2> QED BY <2>1, <2>2, <2>3
<1>10. ASSUME \A i \in 1 .. Width : F!At(t, i) = F!At(s, i) PROVE F!Strncmp(f, t, Width) = 0
  <2>1. CASE stops = {}
    BY <1>2, <2>1
  <2>2. CASE stops # {}
    <3>1. F!At(f, k) = F!At(t, k) /\ F!At(f, k) \in Nat
      BY <1>5, <1>9, <1>10, <2>2
    <3>2. F!Strncmp(f, t, Width) = F!At(f, k) - F!At(t, k)
      BY <1>2, <2>2
    <3> HIDE DEF k, stops
    <3> QED BY <3>1, <3>2
  <2> QED BY <2>1, <2>2
<1>11. ASSUME F!Strncmp(f, t, Width) = 0 PROVE \A i \in 1 .. Width : F!At(t, i) = F!At(s, i)
  <2>1. CASE stops = {}
    <3>1. \A i \in 1 .. Width : F!At(f, i) = F!At(t, i)
      BY <2>1
    <3>2. ~(Len(s) < Width)
      BY <1>8, <2>1
    <3>3. \A i \in 1 .. Width : i <= Len(s) + 1
      BY <1>1, <3>2
    <3> QED BY <1>5, <3>1, <3>3
  <2>2. CASE stops # {}
    <3>1. F!At(f, k) - F!At(t, k) = 0 /\ F!At(f, k) \in Nat /\ F!At(t, k) \in Nat
      BY <1>2, <1>4, <1>5, <1>9, <1>11, <2>2
    <3>2. F!At(f, k) = F!At(t, k)
      <4> HIDE DEF k
      <4> QED BY <3>1
    <3>3. F!At(f, k) = 0 /\ F!At(t, k) = 0
      BY <1>3, <2>2, <3>2
    <3>4. k \in 1 .. Width /\ k <= Len(s) + 1 /\ F!At(s, k) = 0
      BY <1>5, <1>9, <2>2, <3>3
    <3>5. ~(k <= Len(s)) /\ ~(k <= Len(t))
      BY <1>4, <1>5, <3>3, <3>4
    <3>6. \A j \in 1 .. Width : j < k => F!At(f, j) = F!At(t, j)
      <4> SUFFICES ASSUME NEW j \in 1 .. Width, j < k PROVE F!At(f, j) = F!At(t, j)
        OBVIOUS
      <4>1. j \notin stops
        <5>1. k \in Nat /\ j \in Nat
          BY <1>1, <3>4
        <5> HIDE DEF k, stops
        <5>2. ~(k <= j)
          BY <5>1
        <5> QED BY <1>3, <2>2, <5>2
      <4> QED BY <4>1
    <3> HIDE DEF k, stops
    <3>7. ASSUME NEW j \in 1 .. Width PROVE F!At(t, j) = F!At(s, j)
      <4>1. CASE j < k
        <5>1. j <= Len(s) + 1
          BY <1>1, <3>4, <4>1
        <5> QED BY <1>5, <3>6, <4>1, <5>1
      <4>2. CASE ~(j < k)
        <5>1. j > Len(s) /\ j > Len(t)
          BY <1>1, <3>4, <3>5, <4>2
        <5> QED BY <1>6, <1>7, <5>1
      <4> QED BY <4>1, <4>2
    <3> QED BY <3>7
  <2> QED BY <2>1, <2>2
<1> HIDE DEF k, stops
<1>12. F!Cropped(t) = F!Cropped(s) <=> \A i \in 1 .. Width : F!At(t, i) = F!At(s, i)
  BY CroppedAgree
<1> QED BY <1>10, <1>11, <1>12

(* Lower case keeps what is a character one, and zero zero.                *)
LEMMA LowerFacts ==
    /\ \A c \in Nat : F!Lower(c) \in Nat
    /\ \A c \in Chars : F!Lower(c) \in Chars
    /\ F!Lower(0) = 0
BY DEF F!Lower, Chars

(* A string in lower case keeps its length and its terminators.            *)
LEMMA FoldedFacts ==
    ASSUME NEW s \in Seq(Chars)
    PROVE  /\ F!Folded(s) \in Seq(Chars) /\ Len(F!Folded(s)) = Len(s)
           /\ \A i \in 1 .. Len(s) : F!Folded(s)[i] = F!Lower(s[i])
<1> DEFINE n == Len(s)
<1>1. n \in Nat /\ DOMAIN s = 1 .. n /\ \A i \in 1 .. n : s[i] \in Chars
  OBVIOUS
<1>2. F!Folded(s) = [i \in 1 .. n |-> F!Lower(s[i])]
  BY <1>1 DEF F!Folded
<1>3. \A i \in 1 .. n : F!Lower(s[i]) \in Chars
  BY <1>1, LowerFacts
<1> HIDE DEF n
<1> DEFINE g == F!Folded(s)
<1>4. g \in [1 .. n -> Chars] /\ \A i \in 1 .. n : g[i] = F!Lower(s[i])
  BY <1>2, <1>3
<1> HIDE DEF g
<1>5. g \in Seq(Chars) /\ DOMAIN g = 1 .. n
  BY <1>1, <1>4
<1>6. Len(g) = n
  BY <1>1, <1>5
<1> QED BY <1>4, <1>5, <1>6 DEF g, n

(* It does not matter whether a string is cropped or folded first.         *)
LEMMA FoldedCropped ==
    ASSUME NEW s \in Seq(Chars)
    PROVE  F!Cropped(F!Folded(s)) = F!Folded(F!Cropped(s))
<1> DEFINE g == F!Folded(s)
           c == F!Cropped(s)
<1>1. g \in Seq(Chars) /\ Len(g) = Len(s) /\ \A i \in 1 .. Len(s) : g[i] = F!Lower(s[i])
  BY FoldedFacts
<1>2. PICK m \in Nat : /\ m <= Len(s) /\ F!Min({Len(s), Width}) = m
                       /\ c \in Seq(Chars) /\ Len(c) = m /\ \A i \in 1 .. m : c[i] = s[i]
  BY CroppedFacts
<1> HIDE DEF g, c
<1>3. PICK n \in Nat : /\ F!Min({Len(g), Width}) = n
                       /\ F!Cropped(g) \in Seq(Chars) /\ Len(F!Cropped(g)) = n
                       /\ \A i \in 1 .. n : F!Cropped(g)[i] = g[i]
  BY <1>1, CroppedFacts
<1>4. m = n
  BY <1>1, <1>2, <1>3
<1>5. F!Folded(c) \in Seq(Chars) /\ Len(F!Folded(c)) = m
      /\ \A i \in 1 .. m : F!Folded(c)[i] = F!Lower(c[i])
  BY <1>2, FoldedFacts
<1>6. \A i \in 1 .. m : i \in 1 .. Len(s)
  BY <1>2
<1> DEFINE x == F!Cropped(g)
           y == F!Folded(c)
<1>7. x \in Seq(Chars) /\ y \in Seq(Chars) /\ Len(x) = m /\ Len(y) = m /\ \A i \in 1 .. m : x[i] = y[i]
  BY <1>1, <1>2, <1>3, <1>4, <1>5, <1>6
<1> HIDE DEF x, y
<1>8. x = y
  BY <1>7
<1> QED BY <1>8 DEF x, y, g, c

(* A field in lower case holds the string in lower case.                   *)
LEMMA FoldedHolds ==
    ASSUME NEW f, NEW s \in Seq(Chars), Holds(f, s)
    PROVE  Holds(F!Folded(f), F!Folded(s))
<1>1. f \in [1 .. Width -> Nat] /\ Width \in Nat /\ Len(s) \in Nat
  BY FreestandingAssumption DEF Holds
<1> DEFINE g == F!Folded(f)
<1>2. g \in [1 .. Width -> Nat] /\ \A i \in 1 .. Width : g[i] = F!Lower(f[i])
  BY <1>1, LowerFacts DEF F!Folded
<1> DEFINE t == F!Folded(s)
<1>3. Len(t) = Len(s) /\ \A i \in 1 .. Len(s) : t[i] = F!Lower(s[i])
  BY FoldedFacts
<1> HIDE DEF g, t
<1>4. ASSUME NEW i \in 1 .. Width PROVE (i <= Len(t) => g[i] = t[i]) /\ (i = Len(t) + 1 => g[i] = 0)
  <2>1. i <= Len(s) => i \in 1 .. Len(s)
    BY <1>1
  <2>2. (i <= Len(s) => f[i] = s[i]) /\ (i = Len(s) + 1 => f[i] = 0)
    BY DEF Holds
  <2> QED BY <1>2, <1>3, <2>1, <2>2, LowerFacts
<1>5. Holds(g, t)
  BY <1>2, <1>4 DEF Holds
<1> QED BY <1>5 DEF g, t

(* What the callers copy are strings.                                      *)
LEMMA NamesAreStrings == \A s \in Names : s \in Seq(Chars)
<1> SUFFICES ASSUME NEW s \in Names PROVE s \in Seq(Chars)
  OBVIOUS
<1>1. s \in Seq(1 .. 255)
  BY FreestandingAssumption
<1>2. \A c \in 1 .. 255 : c \in Chars
  BY DEF Chars
<1> DEFINE D == 1 .. 255
<1> HIDE DEF D
<1>3. s \in Seq(D) /\ \A c \in D : c \in Chars
  BY <1>1, <1>2 DEF D
<1> QED BY <1>3

NameInv == name \in Seq(Chars) /\ Holds(field, name)

(* strncpy and strcpy leave the new name in the field.                     *)
LEMMA NameNext == NameInv /\ [MemoryNext]_<<part, vars, freestanding>> => NameInv'
<1> SUFFICES ASSUME NameInv, [MemoryNext]_<<part, vars, freestanding>> PROVE NameInv'
  OBVIOUS
<1>1. field \in [1 .. Width -> Nat] /\ Width \in Nat
  BY FreestandingAssumption DEF NameInv, Holds
<1>2. ASSUME NEW s \in Names
      PROVE  s \in Seq(Chars) /\ Len(s) \in Nat /\ (\A i \in 1 .. Len(s) : s[i] \in Nat)
  BY NamesAreStrings DEF Chars
<1>3. ASSUME NEW s \in Names, NEW i \in 1 .. Width
      PROVE  /\ F!At(s, i) \in Nat
             /\ i <= Len(s) => F!At(s, i) = s[i]
             /\ i = Len(s) + 1 => F!At(s, i) = 0
  <2>1. i <= Len(s) => i \in 1 .. Len(s)
    BY <1>1, <1>2
  <2>2. i = Len(s) + 1 => ~(i <= Len(s))
    BY <1>2
  <2> QED BY <1>2, <2>1, <2>2 DEF F!At, F!Nul
<1>4. ASSUME NEW s \in Names, F!FillField(s) PROVE NameInv'
  <2>1. field' = [i \in 1 .. Width |-> IF i <= Width THEN F!At(s, i) ELSE field[i]] /\ name' = s
    BY <1>1, <1>4 DEF F!FillField, F!Strncpy
  <2>2. field' \in [1 .. Width -> Nat] /\ \A i \in 1 .. Width : field'[i] = F!At(s, i)
    BY <1>1, <1>3, <2>1
  <2>3. Holds(field', s)
    BY <1>3, <2>2 DEF Holds
  <2> QED BY <1>2, <2>1, <2>3 DEF NameInv, Holds
<1>5. ASSUME NEW s \in Names, F!CopyWhole(s) PROVE NameInv'
  <2>1. field' = [i \in 1 .. Width |-> IF i <= Len(s) + 1 THEN F!At(s, i) ELSE field[i]] /\ name' = s
    BY <1>1, <1>5 DEF F!CopyWhole, F!Strcpy
  <2>2. field' \in [1 .. Width -> Nat]
        /\ \A i \in 1 .. Width : i <= Len(s) + 1 => field'[i] = F!At(s, i)
    BY <1>1, <1>3, <2>1
  <2>3. \A i \in 1 .. Width : i <= Len(s) \/ i = Len(s) + 1 => i <= Len(s) + 1
    BY <1>1, <1>2
  <2>4. Holds(field', s)
    BY <1>3, <2>2, <2>3 DEF Holds
  <2> QED BY <1>2, <2>1, <2>4 DEF NameInv, Holds
<1>6. ASSUME F!TokenStep \/ F!HeapStep \/ F!FrameStep \/ UNCHANGED freestanding
      PROVE  UNCHANGED <<field, name>>
  BY <1>6 DEF F!FrameStep, F!EmitFrame, F!TokenStep, F!Load, F!NextEntry, F!NextField, F!names,
        F!HeapStep, F!Malloc, F!Free, F!Scribble, F!Enqueue, F!QueueCreate, F!QueueRemove, F!vars, freestanding
<1>7. ASSUME UNCHANGED <<field, name>> PROVE NameInv'
  BY <1>7 DEF NameInv, Holds
<1> QED BY <1>4, <1>5, <1>6, <1>7 DEF MemoryNext, F!NameStep

(* A name field gives back the name last copied into it, cropped to its    *)
(* width, whatever longer name stood there, and strncmp and strncasecmp    *)
(* find it by exactly the names that agree with it so far: for every width *)
(* and every set of names.                                                 *)
THEOREM FieldsKeepNames == MemorySpec => []NamesSurvive
<1>1. MemoryInit => NameInv
  <2> SUFFICES ASSUME MemoryInit PROVE NameInv
    OBVIOUS
  <2>1. name = << >> /\ field = [i \in 1 .. Width |-> 0]
    BY DEF MemoryInit, F!Init, F!Nul
  <2>2. << >> \in Seq(Chars) /\ Len(<< >>) = 0
    OBVIOUS
  <2>3. field \in [1 .. Width -> Nat] /\ \A i \in 1 .. Width : field[i] = 0
    BY <2>1
  <2>4. \A i \in 1 .. Width : ~(i <= 0)
    BY FreestandingAssumption
  <2> QED BY <2>1, <2>2, <2>3, <2>4 DEF NameInv, Holds
<1>2. NameInv => NamesSurvive
  <2> SUFFICES ASSUME NameInv PROVE F!NamesSurvive
    BY DEF NamesSurvive
  <2>1. name \in Seq(Chars) /\ Holds(field, name)
    BY DEF NameInv
  <2>2. F!Contents = F!Cropped(name)
    BY <2>1, ReadBack DEF F!Contents
  <2>3. ASSUME NEW s \in Names
        PROVE  /\ F!Strncmp(field, s, Width) = 0 <=> F!Cropped(s) = F!Cropped(name)
               /\ F!FoundBy(s) <=> F!Folded(F!Cropped(s)) = F!Folded(F!Cropped(name))
    <3>1. s \in Seq(Chars)
      BY NamesAreStrings
    <3>2. F!Strncmp(field, s, Width) = 0 <=> F!Cropped(s) = F!Cropped(name)
      BY <2>1, <3>1, ComparesUpToWidth
    <3>3. /\ F!Folded(s) \in Seq(Chars) /\ F!Folded(name) \in Seq(Chars)
          /\ Holds(F!Folded(field), F!Folded(name))
      BY <2>1, <3>1, FoldedFacts, FoldedHolds
    <3>4. F!Strncmp(F!Folded(field), F!Folded(s), Width) = 0
            <=> F!Cropped(F!Folded(s)) = F!Cropped(F!Folded(name))
      BY <3>3, ComparesUpToWidth
    <3>5. /\ F!Cropped(F!Folded(s)) = F!Folded(F!Cropped(s))
          /\ F!Cropped(F!Folded(name)) = F!Folded(F!Cropped(name))
      BY <2>1, <3>1, FoldedCropped
    <3> QED BY <3>2, <3>4, <3>5 DEF F!FoundBy, F!Strncasecmp
  <2> QED BY <2>2, <2>3 DEF F!NamesSurvive
<1> QED BY <1>1, <1>2, NameNext, PTL DEF MemorySpec

-----------------------------------------------------------------------------
(***************************************************************************)
(* Nested tokenisers.                                                      *)
(***************************************************************************)

(* Position p of table t is no part of a word, and the words of t.         *)
Outside(t, p) == p \notin 1 .. Len(t) \/ t[p] = F!Comma \/ t[p] = F!Blank
IsWord(t, w) ==
    /\ w \in (1 .. Len(t)) \X (1 .. Len(t)) /\ w[1] <= w[2]
    /\ \A p \in w[1] .. w[2] : ~Outside(t, p)
    /\ Outside(t, w[1] - 1) /\ Outside(t, w[2] + 1)

(* The fields fs are the words of t before position k, and no word lies    *)
(* across it.                                                              *)
Found(t, fs, k) ==
    /\ \A i \in 1 .. Len(fs) : IsWord(t, <<fs[i][2], fs[i][3]>>) /\ fs[i][3] < k
    /\ \A w : IsWord(t, w) =>
         w[1] >= k \/ (w[2] < k /\ \E i \in 1 .. Len(fs) : w = <<fs[i][2], fs[i][3]>>)

(* The fields are in order, each in an entry of its own.                   *)
Ordered(t, fs) ==
    /\ fs \in Seq(Nat \X Nat \X Nat)
    /\ \A i \in 1 .. Len(fs) : fs[i][1] <= fs[i][2] /\ fs[i][2] <= fs[i][3]
    /\ \A i \in 1 .. Len(fs) - 1 : fs[i][3] < fs[i + 1][2]
    /\ \A i \in 1 .. Len(fs) : \A p \in fs[i][1] .. fs[i][2] : t[p] # F!Comma

(* The buffer b is the table t and its terminator, but for delimiters that *)
(* a tokeniser wrote over.                                                 *)
Cut(t, b) ==
    /\ b \in [1 .. Len(t) + 1 -> Nat] /\ b[Len(t) + 1] = 0
    /\ \A p \in 1 .. Len(t) : b[p] = t[p] \/ t[p] = F!Comma \/ t[p] = F!Blank

(* The outer tokeniser goes on at k: everything before is done with, and   *)
(* nobody has touched the rest.                                            *)
AtEntry(t, b, fs, k) ==
    /\ k \in 1 .. Len(t) + 1 /\ (k = Len(t) + 1 \/ Outside(t, k - 1))
    /\ Found(t, fs, k)
    /\ \A q \in k .. Len(t) : b[q] = t[q]

(* The inner one goes on at j, in the entry from e to the terminator at z, *)
(* after which the outer one will go on.                                   *)
AtField(t, b, fs, e, z, j, outer) ==
    /\ e \in 1 .. Len(t) /\ z \in 1 .. Len(t) + 1 /\ j \in e .. z
    /\ b[z] = 0 /\ (z = Len(t) + 1 \/ t[z] = F!Comma)
    /\ outer = IF z = Len(t) + 1 THEN z ELSE z + 1
    /\ Found(t, fs, j) /\ (j = z \/ Outside(t, j - 1))
    /\ \A q \in j .. z - 1 : b[q] = t[q]
    /\ \A q \in z + 1 .. Len(t) : b[q] = t[q]
    /\ \A q \in e .. z - 1 : t[q] # F!Comma

Begun == fields # << >> /\ fields[Len(fields)][1] = entry
Reached == IF Begun THEN save.inner ELSE entry

TokenInv ==
    /\ text \in Seq(Chars) /\ Cut(text, buf) /\ Ordered(text, fields)
    /\ save \in [outer : Int, inner : Int]
    /\ stage = "idle" => text = << >> /\ fields = << >> /\ entry = F!Null
    /\ stage = "outer" => AtEntry(text, buf, fields, IF entry = F!Null THEN 1 ELSE save.outer)
    /\ stage = "inner" => \E z \in Nat : AtField(text, buf, fields, entry, z, Reached, save.outer)
    /\ stage = "done" => Found(text, fields, Len(text) + 1)

(* What strtok_r returns, in r, from p on in buffer b of N bytes: s is the *)
(* first place that is no delimiter, and the token there ends before z.    *)
Tokenised(N, b, p, D, r, s) ==
    /\ \A q \in p .. s - 1 : b[q] \in D
    /\ b[s] \notin D
    /\ b[s] = 0 => r.buf = b /\ r.save = F!Null /\ r.token = F!Null
    /\ b[s] # 0 =>
         \E z \in s + 1 .. N :
           /\ \A q \in s .. z - 1 : b[q] \notin D /\ b[q] # 0
           /\ b[z] \in D \/ b[z] = 0
           /\ r.buf = [b EXCEPT ![z] = 0] /\ r.token = s
           /\ r.save = IF b[z] = 0 THEN z ELSE z + 1

(* There is such a place.                                                  *)
LEMMA StrtokFacts ==
    ASSUME NEW N \in Nat, NEW b \in [1 .. N -> Nat], b[N] = 0, NEW p \in 1 .. N,
           NEW D \in SUBSET Chars, NEW r, r = F!Strtok(b, p, D)
    PROVE  \E s \in p .. N : Tokenised(N, b, p, D, r, s)
<1> DEFINE S == {q \in DOMAIN b : q >= p /\ b[q] \notin D}
           s == F!Min(S)
<1>1. DOMAIN b = 1 .. N /\ N \in 1 .. N /\ p # F!Null /\ p \in Nat
  BY DEF F!Null
<1>2. S \in SUBSET Nat /\ N \in S
  BY <1>1 DEF Chars
<1>3. s \in S /\ \A q \in S : s <= q
  <2> HIDE DEF S
  <2> QED BY <1>2, MinExists
<1>4. F!TokenStart(b, p, D) = s
  BY DEF F!TokenStart
<1>5. s \in 1 .. N /\ s >= p /\ b[s] \notin D /\ s <= N
  BY <1>1, <1>2, <1>3
<1>6. \A q \in p .. s - 1 : b[q] \in D
  <2> SUFFICES ASSUME NEW q \in p .. s - 1, b[q] \notin D PROVE FALSE
    OBVIOUS
  <2>1. s \in Nat
    BY <1>5
  <2>2. q \in 1 .. N /\ q >= p /\ ~(s <= q)
    <3> HIDE DEF s
    <3> QED BY <1>1, <1>5, <2>1
  <2>3. q \in S
    BY <1>1, <2>2
  <2> QED BY <1>3, <2>2, <2>3
<1>7. s \in p .. N
  BY <1>1, <1>5
<1> HIDE DEF s, S
<1>8. b[s] = 0 => r.buf = b /\ r.save = F!Null /\ r.token = F!Null
  BY <1>4 DEF F!Strtok, F!NoToken, F!Nul
<1>9. ASSUME b[s] # 0
      PROVE  \E z \in s + 1 .. N :
               /\ \A q \in s .. z - 1 : b[q] \notin D /\ b[q] # 0
               /\ b[z] \in D \/ b[z] = 0
               /\ r.buf = [b EXCEPT ![z] = 0] /\ r.token = s
               /\ r.save = IF b[z] = 0 THEN z ELSE z + 1
  <2> DEFINE Z == {q \in DOMAIN b : q >= s /\ b[q] \in D \cup {F!Nul}}
             z == F!Min(Z)
  <2>1. Z \in SUBSET Nat /\ N \in Z
    BY <1>1, <1>5 DEF F!Nul
  <2>2. z \in Z /\ \A q \in Z : z <= q
    <3> HIDE DEF Z
    <3> QED BY <2>1, MinExists
  <2>3. F!TokenStop(b, s, D) = z
    BY DEF F!TokenStop
  <2>4. z \in 1 .. N /\ z >= s /\ (b[z] \in D \/ b[z] = 0)
    BY <1>1, <2>2 DEF F!Nul
  <2>5. ASSUME NEW q \in s .. z - 1 PROVE b[q] \notin D /\ b[q] # 0
    <3>1. z \in Nat
      BY <2>4
    <3>2. q \in 1 .. N /\ q >= s /\ ~(z <= q)
      <4> HIDE DEF z
      <4> QED BY <1>5, <2>4, <3>1
    <3>3. q \notin Z
      BY <2>2, <3>2
    <3> QED BY <1>1, <3>2, <3>3 DEF F!Nul
  <2> DEFINE c == [b EXCEPT ![z] = 0]
             o == IF b[z] = 0 THEN z ELSE z + 1
  <2>6. r = [buf |-> c, save |-> o, token |-> s]
    BY <1>1, <1>4, <1>9, <2>3 DEF F!Strtok, F!NoToken, F!Nul
  <2>7. z # s
    BY <1>5, <1>9, <2>4
  <2> HIDE DEF z, Z, c, o
  <2>8. z \in s + 1 .. N
    BY <1>5, <2>4, <2>7
  <2>9. r.buf = c /\ r.save = o /\ r.token = s
    BY <2>6
  <2> QED BY <2>4, <2>5, <2>8, <2>9 DEF c, o
<1>10. Tokenised(N, b, p, D, r, s)
  BY <1>5, <1>6, <1>8, <1>9 DEF Tokenised
<1> QED BY <1>7, <1>10

(* The token is a C string that ends where strtok_r cut it.                *)
LEMMA TokenEnds ==
    ASSUME NEW N \in Nat, NEW c \in [1 .. N -> Nat], NEW s \in 1 .. N, NEW z \in s + 1 .. N,
           c[z] = 0, \A q \in s .. z - 1 : c[q] # 0
    PROVE  F!TokenStop(c, s, {}) = z
<1> DEFINE Z == {q \in DOMAIN c : q >= s /\ c[q] \in {} \cup {F!Nul}}
<1>1. DOMAIN c = 1 .. N /\ z \in 1 .. N /\ z >= s
  OBVIOUS
<1>2. Z \subseteq Int /\ z \in Z
  BY <1>1 DEF F!Nul
<1>3. ASSUME NEW q \in Z PROVE z <= q
  <2> SUFFICES ASSUME ~(z <= q) PROVE FALSE
    OBVIOUS
  <2>1. q \in 1 .. N /\ q >= s /\ c[q] = 0
    BY <1>1 DEF F!Nul
  <2>2. q \in s .. z - 1
    BY <1>1, <2>1
  <2> QED BY <1>1, <2>1, <2>2
<1>4. F!TokenStop(c, s, {}) = F!Min(Z)
  BY DEF F!TokenStop
<1> HIDE DEF Z
<1>5. F!Min(Z) = z
  BY <1>2, <1>3, MinKnown
<1> QED BY <1>4, <1>5

(* Going past delimiters leaves no word behind.                            *)
LEMMA SkipFound ==
    ASSUME NEW t, Len(t) \in Nat, NEW fs, Len(fs) \in Nat, NEW k \in Nat, NEW m \in Nat, k <= m,
           Found(t, fs, k), \A q \in k .. m - 1 : Outside(t, q)
    PROVE  Found(t, fs, m)
<1>1. ASSUME NEW i \in 1 .. Len(fs) PROVE IsWord(t, <<fs[i][2], fs[i][3]>>) /\ fs[i][3] < m
  <2>1. IsWord(t, <<fs[i][2], fs[i][3]>>) /\ fs[i][3] < k
    BY DEF Found
  <2>2. fs[i][3] \in Nat
    BY <2>1 DEF IsWord
  <2> QED BY <2>1, <2>2
<1>2. ASSUME NEW w, IsWord(t, w)
      PROVE  w[1] >= m \/ (w[2] < m /\ \E i \in 1 .. Len(fs) : w = <<fs[i][2], fs[i][3]>>)
  <2>1. w[1] \in Nat /\ w[2] \in Nat /\ w[1] <= w[2] /\ \A p \in w[1] .. w[2] : ~Outside(t, p)
    BY <1>2 DEF IsWord
  <2>2. w[1] >= k \/ (w[2] < k /\ \E i \in 1 .. Len(fs) : w = <<fs[i][2], fs[i][3]>>)
    BY <1>2 DEF Found
  <2>3. CASE w[1] >= k
    <3>1. w[1] \in w[1] .. w[2]
      BY <2>1
    <3>2. w[1] \notin k .. m - 1
      BY <2>1, <3>1
    <3> QED BY <2>1, <2>3, <3>2
  <2>4. CASE w[2] < k
    BY <2>1, <2>2, <2>4
  <2> QED BY <2>2, <2>3, <2>4
<1> QED BY <1>1, <1>2 DEF Found

(* From s to before z there is no delimiter, and there is one at each end. *)
Run(t, s, z) ==
    s < z /\ Outside(t, s - 1) /\ Outside(t, z) /\ \A q \in s .. z - 1 : ~Outside(t, q)

(* A run of characters between delimiters is the next word.                *)
LEMMA NextWord ==
    ASSUME NEW t, Len(t) \in Nat, NEW fs \in Seq(Nat \X Nat \X Nat),
           NEW e \in Nat, NEW s \in Nat, NEW z \in Nat, NEW j \in {z, z + 1},
           Found(t, fs, s), Run(t, s, z)
    PROVE  Found(t, Append(fs, <<e, s, z - 1>>), j)
<1> DEFINE x == <<e, s, z - 1>>
           n == Len(fs)
           gs == Append(fs, x)
           v == <<s, z - 1>>
<1>0. s < z /\ Outside(t, s - 1) /\ Outside(t, z) /\ \A q \in s .. z - 1 : ~Outside(t, q)
  BY DEF Run
<1>1. IsWord(t, v)
  <2>1. s \in s .. z - 1 /\ z - 1 \in s .. z - 1 /\ (z - 1) + 1 = z
    BY <1>0
  <2>2. s \in 1 .. Len(t) /\ z - 1 \in 1 .. Len(t)
    BY <1>0, <2>1 DEF Outside
  <2> QED BY <1>0, <2>1, <2>2 DEF IsWord
<1>2. /\ n \in Nat /\ Len(gs) = n + 1 /\ gs[n + 1] = x /\ \A i \in 1 .. n : gs[i] = fs[i]
  OBVIOUS
<1>3. x[2] = s /\ x[3] = z - 1 /\ v = <<x[2], x[3]>> /\ z - 1 < j /\ j \in Nat
  BY <1>0
<1>10. s < j /\ j \in Nat
  <2>1. s < z
    BY <1>0
  <2> QED BY <2>1
<1>4. \A i \in 1 .. n + 1 : i \in 1 .. n \/ i = n + 1
  BY <1>2
<1>5. \A i \in 1 .. n : i \in 1 .. n + 1
  BY <1>2
<1>6. n + 1 \in 1 .. n + 1
  BY <1>2
<1> HIDE DEF x, n, gs
<1>7. ASSUME NEW i \in 1 .. n + 1 PROVE IsWord(t, <<gs[i][2], gs[i][3]>>) /\ gs[i][3] < j
  <2>1. CASE i = n + 1
    BY <1>1, <1>2, <1>3, <2>1
  <2>2. CASE i \in 1 .. n
    <3>1. IsWord(t, <<fs[i][2], fs[i][3]>>) /\ fs[i][3] < s
      BY <2>2 DEF Found, n
    <3>2. fs[i][3] \in Nat
      BY <3>1 DEF IsWord
    <3>3. fs[i][3] < j
      <4>1. \A p \in Nat : p < s => p < j
        BY <1>10
      <4> QED BY <3>1, <3>2, <4>1
    <3>4. gs[i] = fs[i]
      BY <1>2, <2>2
    <3> QED BY <3>1, <3>3, <3>4
  <2> QED BY <1>4, <2>1, <2>2
<1>8. ASSUME NEW w, IsWord(t, w)
      PROVE  w[1] >= j \/ (w[2] < j /\ \E i \in 1 .. n + 1 : w = <<gs[i][2], gs[i][3]>>)
  <2>1. /\ w[1] \in Nat /\ w[2] \in Nat /\ w[1] <= w[2] /\ w = <<w[1], w[2]>>
        /\ \A p \in w[1] .. w[2] : ~Outside(t, p)
        /\ Outside(t, w[1] - 1) /\ Outside(t, w[2] + 1)
    BY <1>8 DEF IsWord
  <2>2. w[1] >= s \/ (w[2] < s /\ \E i \in 1 .. n : w = <<fs[i][2], fs[i][3]>>)
    BY <1>8 DEF Found, n
  <2>3. CASE w[2] < s /\ \E i \in 1 .. n : w = <<fs[i][2], fs[i][3]>>
    <3>1. PICK i \in 1 .. n : w = <<fs[i][2], fs[i][3]>>
      BY <2>3
    <3>2. w = <<gs[i][2], gs[i][3]>> /\ i \in 1 .. n + 1
      BY <1>2, <1>5, <3>1
    <3>3. w[2] < j
      <4>1. w[2] < s /\ w[2] \in Nat
        BY <2>1, <2>3
      <4>2. s < z
        BY <1>0
      <4> QED BY <4>1, <4>2
    <3> QED BY <3>2, <3>3
  <2>4. CASE w[1] >= s /\ w[1] < z
    <3>1. w[1] = s
      <4> SUFFICES ASSUME w[1] # s PROVE FALSE
        OBVIOUS
      <4>1. w[1] - 1 \in s .. z - 1
        BY <1>0, <2>1, <2>4
      <4> QED BY <1>0, <2>1, <4>1
    <3>2. ~(w[2] >= z)
      <4> SUFFICES ASSUME w[2] >= z PROVE FALSE
        OBVIOUS
      <4>1. z \in w[1] .. w[2]
        BY <1>0, <2>1, <2>4
      <4> QED BY <1>0, <2>1, <4>1
    <3>3. ~(w[2] < z - 1)
      <4> SUFFICES ASSUME w[2] < z - 1 PROVE FALSE
        OBVIOUS
      <4>1. w[2] + 1 \in s .. z - 1
        BY <1>0, <2>1, <2>4
      <4> QED BY <1>0, <2>1, <4>1
    <3>4. w[2] = z - 1
      BY <1>0, <2>1, <3>2, <3>3
    <3>5. w = <<x[2], x[3]>>
      BY <1>3, <2>1, <3>1, <3>4
    <3>6. w = <<gs[n + 1][2], gs[n + 1][3]>> /\ w[2] < j
      BY <1>2, <1>3, <3>4, <3>5
    <3> QED BY <1>6, <3>6
  <2>5. CASE w[1] >= z
    <3>1. w[1] \in w[1] .. w[2]
      BY <2>1
    <3>2. w[1] # z
      BY <1>0, <2>1, <3>1
    <3> QED BY <1>0, <2>1, <2>5, <3>2
  <2> QED BY <1>0, <2>1, <2>2, <2>3, <2>4, <2>5
<1>9. Found(t, gs, j)
  BY <1>2, <1>7, <1>8 DEF Found
<1> QED BY <1>9 DEF gs, x

(* What is read of the buffer: a character of the table is not zero.       *)
LEMMA TextFacts ==
    ASSUME NEW t \in Seq(Chars)
    PROVE  Len(t) \in Nat /\ \A q \in 1 .. Len(t) : t[q] \in Nat /\ t[q] # 0
BY DEF Chars

(* Fields that were found lie before the place found.                      *)
LEMMA LastField ==
    ASSUME NEW t, NEW fs, NEW k \in Nat, Ordered(t, fs), Found(t, fs, k), fs # << >>
    PROVE  fs[Len(fs)][1] < k /\ fs[Len(fs)][3] < k
<1>1. fs \in Seq(Nat \X Nat \X Nat) /\ Len(fs) \in Nat /\ Len(fs) \in 1 .. Len(fs)
  BY DEF Ordered
<1> DEFINE f == fs[Len(fs)]
<1>2. f \in Nat \X Nat \X Nat
  BY <1>1
<1>3. f[1] \in Nat /\ f[2] \in Nat /\ f[3] \in Nat
  BY <1>2
<1>4. f[1] <= f[2] /\ f[2] <= f[3] /\ f[3] < k
  BY <1>1 DEF Ordered, Found
<1> HIDE DEF f
<1>5. f[1] < k /\ f[3] < k
  BY <1>3, <1>4
<1> QED BY <1>5 DEF f

(* The outer tokeniser's call.                                             *)
LEMMA EntryStep == TokenInv /\ F!NextEntry => TokenInv'
<1> SUFFICES ASSUME TokenInv, F!NextEntry PROVE TokenInv'
  OBVIOUS
<1> DEFINE n == Len(text)
           k == IF entry = F!Null THEN 1 ELSE save.outer
           D == {F!Comma}
           r == F!Strtok(buf, k, D)
<1>1. /\ stage = "outer" /\ buf' = r.buf /\ save' = [outer |-> r.save, inner |-> F!Null]
      /\ IF r.token = F!Null
         THEN stage' = "done" /\ UNCHANGED entry
         ELSE stage' = "inner" /\ entry' = r.token
      /\ text' = text /\ fields' = fields
  BY DEF F!NextEntry
<1>2. text \in Seq(Chars) /\ Cut(text, buf) /\ Ordered(text, fields) /\ AtEntry(text, buf, fields, k)
  BY <1>1 DEF TokenInv
<1>3. n \in Nat /\ \A q \in 1 .. n : text[q] \in Nat /\ text[q] # 0
  BY <1>2, TextFacts
<1>4. /\ buf \in [1 .. n + 1 -> Nat] /\ buf[n + 1] = 0
      /\ \A p \in 1 .. n : buf[p] = text[p] \/ text[p] = F!Comma \/ text[p] = F!Blank
  BY <1>2 DEF Cut
<1>5. /\ k \in 1 .. n + 1 /\ (k = n + 1 \/ Outside(text, k - 1)) /\ Found(text, fields, k)
      /\ \A q \in k .. n : buf[q] = text[q]
  BY <1>2 DEF AtEntry
<1>6. D \in SUBSET Chars
  BY DEF F!Comma, Chars
<1>7. Len(fields) \in Nat
  BY <1>2 DEF Ordered
<1> DEFINE N == n + 1
<1>8a. \E s \in k .. N : Tokenised(N, buf, k, D, r, s)
  <2>1. N \in Nat /\ buf \in [1 .. N -> Nat] /\ buf[N] = 0 /\ k \in 1 .. N
    BY <1>3, <1>4, <1>5
  <2>2. r = F!Strtok(buf, k, D)
    OBVIOUS
  <2> HIDE DEF N, k, D, r
  <2> QED BY <1>6, <2>1, <2>2, StrtokFacts
<1>8. PICK s \in k .. n + 1 : Tokenised(n + 1, buf, k, D, r, s)
  BY <1>8a
<1> HIDE DEF n, k, r
<1>9. k \in Nat /\ s \in Nat /\ k <= s /\ s <= n + 1 /\ k >= 1
  BY <1>3, <1>5, <1>8
<1>10. \A q \in k .. s - 1 : q \in 1 .. n /\ text[q] = F!Comma /\ Outside(text, q)
  <2> SUFFICES ASSUME NEW q \in k .. s - 1 PROVE q \in 1 .. n /\ text[q] = F!Comma /\ Outside(text, q)
    OBVIOUS
  <2>1. q \in k .. n /\ q \in 1 .. n
    BY <1>3, <1>9
  <2>2. buf[q] = F!Comma
    BY <1>8 DEF Tokenised
  <2> QED BY <1>5, <2>1, <2>2 DEF Outside
<1>11. Found(text, fields, s)
  <2>1. Len(text) \in Nat
    BY <1>3 DEF n
  <2> QED BY <1>5, <1>7, <1>9, <1>10, <2>1, SkipFound
<1>12. \A q \in k .. n : q \in 1 .. n
  BY <1>3, <1>9
<1>13. CASE buf[s] = 0
  <2>1. r.token = F!Null /\ r.save = F!Null /\ r.buf = buf
    BY <1>8, <1>13 DEF Tokenised
  <2>2. s = n + 1
    <3> SUFFICES ASSUME s # n + 1 PROVE FALSE
      OBVIOUS
    <3>1. s \in k .. n
      BY <1>3, <1>9
    <3> QED BY <1>3, <1>5, <1>12, <1>13, <3>1
  <2>3. buf' = buf /\ stage' = "done" /\ save' \in [outer : Int, inner : Int]
    BY <1>1, <2>1 DEF F!Null
  <2> QED BY <1>1, <1>2, <1>11, <2>2, <2>3 DEF TokenInv, n
<1>14. CASE buf[s] # 0
  <2>1. PICK z \in s + 1 .. n + 1 :
                    /\ \A q \in s .. z - 1 : buf[q] \notin D /\ buf[q] # 0
                    /\ buf[z] \in D \/ buf[z] = 0
                    /\ r.buf = [buf EXCEPT ![z] = 0] /\ r.token = s
                    /\ r.save = IF buf[z] = 0 THEN z ELSE z + 1
    BY <1>8, <1>14 DEF Tokenised
  <2> DEFINE c == [buf EXCEPT ![z] = 0]
             o == IF buf[z] = 0 THEN z ELSE z + 1
  <2>2. r.buf = c /\ r.save = o /\ r.token = s
    BY <2>1
  <2>3. z \in Nat /\ s < z /\ z <= n + 1 /\ z \in 1 .. n + 1
    BY <1>3, <1>9, <2>1
  <2>4. s # F!Null /\ s \in 1 .. n
    BY <1>3, <1>9, <2>3 DEF F!Null
  <2>5. buf' = c /\ stage' = "inner" /\ entry' = s /\ save' = [outer |-> o, inner |-> F!Null]
    BY <1>1, <2>2, <2>4
  <2>6. /\ c \in [1 .. n + 1 -> Nat] /\ c[z] = 0 /\ \A q \in 1 .. n + 1 : q # z => c[q] = buf[q]
    BY <1>4, <2>3
  <2>7. IF z = n + 1 THEN buf[z] = 0 ELSE z \in 1 .. n /\ buf[z] # 0 /\ text[z] = F!Comma
    <3>1. CASE z = n + 1
      BY <1>4, <3>1
    <3>2. CASE z # n + 1
      <4>1. z \in k .. n
        BY <1>3, <1>9, <2>3, <3>2
      <4>2. z \in 1 .. n /\ buf[z] = text[z] /\ text[z] # 0
        BY <1>3, <1>5, <1>12, <4>1
      <4> QED BY <2>1, <3>2, <4>2
    <3> QED BY <3>1, <3>2
  <2>8. o = (IF z = n + 1 THEN z ELSE z + 1) /\ o \in Int
    BY <2>3, <2>7
  <2> HIDE DEF c, o
  <2>9. Cut(text, c)
    <3>1. n + 1 \in 1 .. n + 1 /\ \A p \in 1 .. n : p \in 1 .. n + 1
      BY <1>3
    <3>2. c[n + 1] = 0
      BY <1>4, <2>6, <3>1
    <3>3. ASSUME NEW p \in 1 .. n PROVE c[p] = text[p] \/ text[p] = F!Comma \/ text[p] = F!Blank
      <4>1. CASE p = z
        <5>1. z # n + 1
          BY <1>3, <4>1
        <5> QED BY <2>7, <4>1, <5>1
      <4>2. CASE p # z
        BY <1>4, <2>6, <3>1, <4>2
      <4> QED BY <4>1, <4>2
    <3> QED BY <2>6, <3>2, <3>3 DEF Cut, n
  <2>10. Outside(text, s - 1)
    <3>1. CASE s = k
      BY <1>3, <1>5, <2>4, <3>1
    <3>2. CASE s # k
      <4>1. s - 1 \in k .. s - 1
        BY <1>9, <3>2
      <4> QED BY <1>10, <4>1
    <3> QED BY <3>1, <3>2
  <2>11. \A q \in s .. z - 1 : q \in 1 .. n + 1 /\ q # z /\ q \in k .. n
    BY <1>3, <1>9, <2>3
  <2>12. \A q \in s .. z - 1 : c[q] = text[q] /\ text[q] # F!Comma
    BY <1>5, <2>1, <2>6, <2>11
  <2>13. \A q \in z + 1 .. n : q \in 1 .. n + 1 /\ q # z /\ q \in k .. n
    BY <1>3, <1>9, <2>3
  <2>14. \A q \in z + 1 .. n : c[q] = text[q]
    BY <1>5, <2>6, <2>13
  <2>15. s \in s .. z
    BY <1>9, <2>3
  <2>16. AtField(text, c, fields, s, z, s, o)
    BY <1>11, <2>3, <2>4, <2>6, <2>7, <2>8, <2>10, <2>12, <2>14, <2>15 DEF AtField, n
  <2>17. Reached' = s
    <3>1. fields # << >> => fields[Len(fields)][1] # s
      <4> SUFFICES ASSUME fields # << >> PROVE fields[Len(fields)][1] # s
        OBVIOUS
      <4>1. fields[Len(fields)][1] < s
        BY <1>2, <1>9, <1>11, LastField
      <4> QED BY <1>9, <4>1
    <3> QED BY <1>1, <2>5, <3>1 DEF Reached, Begun
  <2>18. save' \in [outer : Int, inner : Int] /\ save'.outer = o
    BY <2>5, <2>8 DEF F!Null
  <2>19. \E y \in Nat : AtField(text', buf', fields', entry', y, Reached', save'.outer)
    BY <1>1, <2>3, <2>5, <2>16, <2>17, <2>18
  <2> QED BY <1>1, <1>2, <2>5, <2>9, <2>18, <2>19 DEF TokenInv
<1> QED BY <1>13, <1>14

(* A field that comes after the others keeps the order.                    *)
LEMMA OrderedAppend ==
    ASSUME NEW t, NEW fs, Ordered(t, fs), NEW e \in Nat, NEW s \in Nat, NEW y \in Nat,
           e <= s, s <= y, fs # << >> => fs[Len(fs)][3] < s,
           \A p \in e .. s : t[p] # F!Comma
    PROVE  Ordered(t, Append(fs, <<e, s, y>>))
<1> DEFINE x == <<e, s, y>>
           n == Len(fs)
           gs == Append(fs, x)
           Triples == Nat \X Nat \X Nat
<1>1. x \in Triples /\ x[1] = e /\ x[2] = s /\ x[3] = y
  OBVIOUS
<1>2. /\ fs \in Seq(Triples)
      /\ \A i \in 1 .. n : fs[i][1] <= fs[i][2] /\ fs[i][2] <= fs[i][3]
      /\ \A i \in 1 .. n - 1 : fs[i][3] < fs[i + 1][2]
      /\ \A i \in 1 .. n : \A p \in fs[i][1] .. fs[i][2] : t[p] # F!Comma
  BY DEF Ordered
<1> HIDE DEF x, Triples
<1>3. n \in Nat /\ gs \in Seq(Triples) /\ Len(gs) = n + 1 /\ gs[n + 1] = x
      /\ \A i \in 1 .. n : gs[i] = fs[i]
  BY <1>1, <1>2
<1>4. fs # << >> => fs[n][3] < s
  OBVIOUS
<1>5. n # 0 => fs # << >>
  BY <1>2
<1> HIDE DEF n, gs
<1>6. /\ \A i \in 1 .. n + 1 : i \in 1 .. n \/ i = n + 1
      /\ \A i \in 1 .. n : (i \in 1 .. n - 1 /\ i + 1 \in 1 .. n) \/ (i = n /\ n # 0)
      /\ (n + 1) - 1 = n
  BY <1>3
<1>7. ASSUME NEW i \in 1 .. n + 1
      PROVE  gs[i][1] <= gs[i][2] /\ gs[i][2] <= gs[i][3]
             /\ \A p \in gs[i][1] .. gs[i][2] : t[p] # F!Comma
  <2>1. CASE i \in 1 .. n
    BY <1>2, <1>3, <2>1
  <2>2. CASE i = n + 1
    BY <1>1, <1>3, <2>2
  <2> QED BY <1>6, <2>1, <2>2
<1>8. ASSUME NEW i \in 1 .. n
      PROVE  gs[i][3] < gs[i + 1][2]
  <2>1. CASE i \in 1 .. n - 1 /\ i + 1 \in 1 .. n
    BY <1>2, <1>3, <2>1
  <2>2. CASE i = n /\ n # 0
    BY <1>1, <1>3, <1>4, <1>5, <2>2
  <2> QED BY <1>6, <2>1, <2>2
<1>9. Ordered(t, gs)
  BY <1>3, <1>6, <1>7, <1>8 DEF Ordered, Triples
<1> QED BY <1>9 DEF gs, x

(* The inner tokeniser's call.                                             *)
LEMMA FieldStep == TokenInv /\ F!NextField => TokenInv'
<1> SUFFICES ASSUME TokenInv, F!NextField PROVE TokenInv'
  OBVIOUS
<1> DEFINE n == Len(text)
           j == Reached
           D == {F!Blank}
           r == F!Strtok(buf, j, D)
           N == n + 1
           o == save.outer
<1>1. /\ stage = "inner" /\ buf' = r.buf /\ save' = [save EXCEPT !.inner = r.save]
      /\ IF r.token = F!Null
         THEN stage' = "outer" /\ fields' = fields
         ELSE /\ fields' = Append(fields, <<entry, r.token, F!TokenStop(r.buf, r.token, {}) - 1>>)
              /\ stage' = stage
      /\ text' = text /\ entry' = entry
  BY DEF F!NextField, Reached, Begun, F!Last
<1>2. /\ text \in Seq(Chars) /\ Cut(text, buf) /\ Ordered(text, fields)
      /\ save \in [outer : Int, inner : Int]
  BY DEF TokenInv
<1>3. PICK z \in Nat : AtField(text, buf, fields, entry, z, j, o)
  BY <1>1 DEF TokenInv
<1>4. n \in Nat /\ \A q \in 1 .. n : text[q] \in Nat /\ text[q] # 0
  BY <1>2, TextFacts
<1>5. /\ buf \in [1 .. n + 1 -> Nat] /\ buf[n + 1] = 0
      /\ \A p \in 1 .. n : buf[p] = text[p] \/ text[p] = F!Comma \/ text[p] = F!Blank
  BY <1>2 DEF Cut
<1>6. /\ entry \in 1 .. n /\ z \in 1 .. n + 1 /\ j \in entry .. z
      /\ buf[z] = 0 /\ (z = n + 1 \/ text[z] = F!Comma)
      /\ o = IF z = n + 1 THEN z ELSE z + 1
      /\ Found(text, fields, j) /\ (j = z \/ Outside(text, j - 1))
      /\ \A q \in j .. z - 1 : buf[q] = text[q]
      /\ \A q \in z + 1 .. n : buf[q] = text[q]
      /\ \A q \in entry .. z - 1 : text[q] # F!Comma
  BY <1>3 DEF AtField
<1>7. D \in SUBSET Chars
  BY DEF F!Blank, Chars
<1>8. Len(fields) \in Nat /\ fields \in Seq(Nat \X Nat \X Nat)
  BY <1>2 DEF Ordered
<1> HIDE DEF j
<1>9. j \in Nat /\ entry \in Nat /\ entry >= 1 /\ entry <= j /\ j <= z /\ z <= n + 1 /\ entry <= n
  BY <1>4, <1>6
<1>10. \E s \in j .. N : Tokenised(N, buf, j, D, r, s)
  <2>1. N \in Nat /\ buf \in [1 .. N -> Nat] /\ buf[N] = 0 /\ j \in 1 .. N
    BY <1>4, <1>5, <1>9
  <2>2. r = F!Strtok(buf, j, D)
    OBVIOUS
  <2> HIDE DEF N, D, r
  <2> QED BY <1>7, <2>1, <2>2, StrtokFacts
<1>11. PICK s \in j .. n + 1 : Tokenised(n + 1, buf, j, D, r, s)
  BY <1>10
<1> HIDE DEF n, r, N, o
<1>12. s \in Nat /\ j <= s /\ s <= n + 1 /\ s >= 1
  BY <1>4, <1>9, <1>11
<1>13. \A q \in j .. s - 1 : buf[q] = F!Blank
  BY <1>11 DEF Tokenised
<1>14. s <= z
  <2> SUFFICES ASSUME ~(s <= z) PROVE FALSE
    OBVIOUS
  <2>1. z \in j .. s - 1
    BY <1>9, <1>12
  <2> QED BY <1>6, <1>13, <2>1 DEF F!Blank
<1>15. \A q \in j .. s - 1 : q \in j .. z - 1 /\ q \in 1 .. n
  BY <1>4, <1>9, <1>12, <1>14
<1>16. \A q \in j .. s - 1 : Outside(text, q)
  BY <1>6, <1>13, <1>15 DEF Outside
<1>17. Len(text) \in Nat
  BY <1>4 DEF n
<1>18. Found(text, fields, s)
  BY <1>6, <1>8, <1>9, <1>12, <1>16, <1>17, SkipFound
<1>19. entry # F!Null
  BY <1>9 DEF F!Null
<1>20. \A q \in j .. z - 1 : q \in 1 .. n /\ buf[q] = text[q] /\ text[q] # 0
  <2>1. \A q \in j .. z - 1 : q \in 1 .. n
    BY <1>4, <1>9
  <2> QED BY <1>4, <1>6, <2>1
<1>21. CASE buf[s] = 0
  <2>1. r.token = F!Null /\ r.save = F!Null /\ r.buf = buf
    BY <1>11, <1>21 DEF Tokenised
  <2>2. buf' = buf /\ stage' = "outer" /\ fields' = fields
    BY <1>1, <2>1
  <2>3. save' \in [outer : Int, inner : Int] /\ save'.outer = o
    BY <1>1, <1>2, <2>1 DEF F!Null, o
  <2>4. s = z
    <3> SUFFICES ASSUME s # z PROVE FALSE
      OBVIOUS
    <3>1. s \in j .. z - 1
      BY <1>9, <1>12, <1>14
    <3> QED BY <1>20, <1>21, <3>1
  <2>5. CASE z = n + 1
    <3>1. o = z
      BY <1>6, <2>5
    <3>2. \A q \in o .. n : buf[q] = text[q]
      BY <1>4, <2>5, <3>1
    <3>3. AtEntry(text, buf, fields, o)
      BY <1>6, <1>18, <2>4, <2>5, <3>1, <3>2 DEF AtEntry, n
    <3> QED BY <1>1, <1>2, <1>19, <2>2, <2>3, <3>3 DEF TokenInv
  <2>6. CASE z # n + 1
    <3>1. o = z + 1
      BY <1>6, <2>6
    <3>2. o \in 1 .. n + 1 /\ o - 1 = z /\ z <= o /\ o \in Nat
      BY <1>4, <1>9, <2>6, <3>1
    <3>3. Outside(text, z)
      BY <1>6, <2>6 DEF Outside
    <3>4. \A q \in z .. o - 1 : Outside(text, q)
      BY <3>1, <3>3
    <3>5. Found(text, fields, o)
      BY <1>8, <1>17, <1>18, <2>4, <3>2, <3>4, SkipFound
    <3>6. \A q \in o .. n : buf[q] = text[q]
      BY <1>6, <3>1
    <3>7. AtEntry(text, buf, fields, o)
      BY <3>2, <3>3, <3>5, <3>6 DEF AtEntry, n
    <3> QED BY <1>1, <1>2, <1>19, <2>2, <2>3, <3>7 DEF TokenInv
  <2> QED BY <2>5, <2>6
<1>22. CASE buf[s] # 0
  <2>1. PICK y \in s + 1 .. n + 1 :
                    /\ \A q \in s .. y - 1 : buf[q] \notin D /\ buf[q] # 0
                    /\ buf[y] \in D \/ buf[y] = 0
                    /\ r.buf = [buf EXCEPT ![y] = 0] /\ r.token = s
                    /\ r.save = IF buf[y] = 0 THEN y ELSE y + 1
    BY <1>11, <1>22 DEF Tokenised
  <2> DEFINE c == [buf EXCEPT ![y] = 0]
             i == IF buf[y] = 0 THEN y ELSE y + 1
             x == <<entry, s, y - 1>>
             gs == Append(fields, x)
  <2>2. r.buf = c /\ r.save = i /\ r.token = s
    BY <2>1
  <2>3. y \in Nat /\ s < y /\ y <= n + 1 /\ y \in 1 .. n + 1
    BY <1>4, <1>12, <2>1
  <2>4. s # F!Null /\ s \in 1 .. n + 1
    BY <1>4, <1>12, <2>3 DEF F!Null
  <2>5. c \in [1 .. n + 1 -> Nat] /\ c[y] = 0 /\ \A q \in 1 .. n + 1 : q # y => c[q] = buf[q]
    BY <1>5, <2>3
  <2> HIDE DEF c
  <2>6. F!TokenStop(c, s, {}) = y
    <3>1. N \in Nat /\ c \in [1 .. N -> Nat] /\ s \in 1 .. N /\ y \in s + 1 .. N
      BY <1>4, <2>1, <2>4, <2>5 DEF N
    <3>2. \A q \in s .. y - 1 : q \in 1 .. n + 1 /\ q # y
      BY <1>4, <1>12, <2>3
    <3>3. \A q \in s .. y - 1 : c[q] # 0
      BY <2>1, <2>5, <3>2
    <3> QED BY <2>5, <3>1, <3>3, TokenEnds
  <2>7. (i = y \/ i = y + 1) /\ i \in Int
    BY <2>3
  <2>8. /\ buf' = c /\ stage' = "inner" /\ fields' = gs
        /\ save' = [save EXCEPT !.inner = i]
    BY <1>1, <2>2, <2>4, <2>6
  <2> HIDE DEF i
  <2>9. save' \in [outer : Int, inner : Int] /\ save'.outer = o /\ save'.inner = i
    BY <1>2, <2>7, <2>8 DEF o
  <2>10. y <= z
    <3> SUFFICES ASSUME ~(y <= z) PROVE FALSE
      OBVIOUS
    <3>1. z \in s .. y - 1
      BY <1>9, <1>14, <2>3
    <3> QED BY <1>6, <2>1, <3>1
  <2>11. \A q \in s .. y - 1 : q \in j .. z - 1
    BY <1>9, <1>12, <2>3, <2>10
  <2>12. \A q \in s .. y - 1 : ~Outside(text, q)
    <3>0. \A q \in s .. y - 1 : q \in entry .. z - 1
      BY <1>9, <2>11
    <3> QED BY <1>6, <1>20, <2>1, <2>11, <3>0 DEF Outside, n
  <2>13. Outside(text, s - 1)
    <3>1. CASE s = j
      BY <1>6, <2>3, <2>10, <3>1
    <3>2. CASE s # j
      <4>1. s - 1 \in j .. s - 1
        BY <1>9, <1>12, <3>2
      <4> QED BY <1>16, <4>1
    <3> QED BY <3>1, <3>2
  <2>14. IF y = z THEN buf[y] = 0 ELSE y \in 1 .. n /\ buf[y] # 0 /\ text[y] = F!Blank
    <3>1. CASE y = z
      BY <1>6, <3>1
    <3>2. CASE y # z
      <4>1. y \in j .. z - 1
        BY <1>9, <1>12, <2>3, <2>10, <3>2
      <4> QED BY <1>20, <2>1, <3>2, <4>1
    <3> QED BY <3>1, <3>2
  <2>15. Outside(text, y)
    <3>1. CASE y = z
      BY <1>4, <1>6, <3>1 DEF Outside, n
    <3>2. CASE y # z
      BY <2>14, <3>2 DEF Outside
    <3> QED BY <3>1, <3>2
  <2>16. Cut(text, c)
    <3>1. n + 1 \in 1 .. n + 1 /\ \A p \in 1 .. n : p \in 1 .. n + 1
      BY <1>4
    <3>2. c[n + 1] = 0
      BY <1>5, <2>5, <3>1
    <3>3. ASSUME NEW p \in 1 .. n PROVE c[p] = text[p] \/ text[p] = F!Comma \/ text[p] = F!Blank
      <4>1. CASE p = y
        BY <2>15, <4>1 DEF Outside, n
      <4>2. CASE p # y
        BY <1>5, <2>5, <3>1, <4>2
      <4> QED BY <4>1, <4>2
    <3> QED BY <2>5, <3>2, <3>3 DEF Cut, n
  <2>17. Found(text, gs, i)
    <3>1. Run(text, s, y)
      BY <2>3, <2>12, <2>13, <2>15 DEF Run
    <3>2. i \in {y, y + 1}
      BY <2>7
    <3> QED BY <1>8, <1>9, <1>12, <1>17, <1>18, <2>3, <3>1, <3>2, NextWord
  <2>18. Ordered(text, gs)
    <3>1. fields # << >> => fields[Len(fields)][3] < s
      BY <1>2, <1>12, <1>18, LastField
    <3>2. \A p \in entry .. s : p \in entry .. z - 1
      BY <1>9, <1>12, <2>3, <2>10
    <3>3. entry <= s /\ s <= y - 1 /\ y - 1 \in Nat
      BY <1>9, <1>12, <2>3
    <3>4. \A p \in entry .. s : text[p] # F!Comma
      BY <1>6, <3>2
    <3> QED BY <1>2, <1>9, <1>12, <3>1, <3>3, <3>4, OrderedAppend
  <2>19. IF y = z THEN i = y ELSE i = y + 1 /\ y < z
    BY <1>9, <2>3, <2>10, <2>14 DEF i
  <2>20. i \in entry .. z /\ (i = z \/ i - 1 = y)
    BY <1>9, <1>12, <2>3, <2>10, <2>19
  <2>21. c[z] = 0
    BY <1>6, <2>5
  <2>22. ASSUME NEW q \in i .. z - 1 PROVE c[q] = text[q]
    <3>1. q \in j .. z - 1 /\ q # y /\ q \in 1 .. n + 1
      BY <1>4, <1>9, <1>12, <2>3, <2>19
    <3> QED BY <1>6, <2>5, <3>1
  <2>23. ASSUME NEW q \in z + 1 .. n PROVE c[q] = text[q]
    <3>1. q # y /\ q \in 1 .. n + 1
      BY <1>4, <1>9, <2>3, <2>10
    <3> QED BY <1>6, <2>5, <3>1
  <2>24. AtField(text, c, gs, entry, z, i, o)
    <3>1. i = z \/ Outside(text, i - 1)
      BY <2>15, <2>20
    <3> QED BY <1>6, <2>17, <2>20, <2>21, <2>22, <2>23, <3>1 DEF AtField, n
  <2>25. gs # << >> /\ gs[Len(gs)][1] = entry
    <3> DEFINE Triples == Nat \X Nat \X Nat
    <3>1. x \in Triples /\ x[1] = entry /\ fields \in Seq(Triples)
      BY <1>8, <1>9, <1>12, <2>3
    <3> HIDE DEF x, Triples
    <3>2. gs \in Seq(Triples) /\ Len(gs) = Len(fields) + 1 /\ gs[Len(fields) + 1] = x
      BY <3>1
    <3> HIDE DEF gs
    <3>3. gs # << >>
      BY <1>8, <3>2
    <3> QED BY <3>1, <3>2, <3>3
  <2> HIDE DEF gs
  <2>26. Reached' = i
    BY <1>1, <2>8, <2>9, <2>25 DEF Reached, Begun
  <2>27. \E w \in Nat : AtField(text', buf', fields', entry', w, Reached', save'.outer)
    BY <1>1, <2>8, <2>9, <2>24, <2>26
  <2> QED BY <1>1, <1>2, <2>8, <2>9, <2>16, <2>18, <2>27 DEF TokenInv
<1> QED BY <1>21, <1>22

(* The parser starts on a table.                                           *)
LEMMA LoadStep == TokenInv /\ (\E t \in Tables : F!Load(t)) => TokenInv'
<1> SUFFICES ASSUME TokenInv, NEW t \in Tables, F!Load(t) PROVE TokenInv'
  OBVIOUS
<1>1. /\ stage = "idle" /\ text' = t /\ buf' = Append(t, 0) /\ stage' = "outer"
      /\ save' = save /\ entry' = entry /\ fields' = fields
  BY DEF F!Load, F!Nul
<1>2. save \in [outer : Int, inner : Int] /\ fields = << >> /\ entry = F!Null
  BY <1>1 DEF TokenInv
<1>3. t \in Seq(1 .. 255)
  BY FreestandingAssumption
<1>4. t \in Seq(Chars)
  <2> DEFINE B == 1 .. 255
  <2>1. t \in Seq(B) /\ B \subseteq Chars
    BY <1>3 DEF Chars
  <2> HIDE DEF B
  <2> QED BY <2>1
<1> DEFINE n == Len(t)
           b == Append(t, 0)
<1>5. n \in Nat /\ b \in [1 .. n + 1 -> Nat] /\ b[n + 1] = 0 /\ \A q \in 1 .. n : b[q] = t[q]
  <2>1. t \in Seq(Nat)
    BY <1>4 DEF Chars
  <2>2. b \in Seq(Nat) /\ Len(b) = n + 1 /\ n \in Nat /\ b[n + 1] = 0 /\ \A q \in 1 .. n : b[q] = t[q]
    BY <2>1
  <2> HIDE DEF b
  <2> QED BY <2>2
<1> HIDE DEF b
<1>6. Cut(t, b)
  BY <1>5 DEF Cut
<1>7. Ordered(t, << >>)
  <2>1. << >> \in Seq(Nat \X Nat \X Nat) /\ Len(<< >>) = 0
    OBVIOUS
  <2> QED BY <2>1 DEF Ordered
<1>8. Found(t, << >>, 1)
  <2>1. Len(<< >>) = 0
    OBVIOUS
  <2>2. \A w : IsWord(t, w) => w[1] >= 1
    BY <1>5 DEF IsWord
  <2> QED BY <2>1, <2>2 DEF Found
<1>9. AtEntry(t, b, << >>, 1)
  <2>1. 1 \in 1 .. n + 1 /\ 1 - 1 \notin 1 .. n
    BY <1>5
  <2> QED BY <1>5, <1>8, <2>1 DEF AtEntry, Outside
<1> QED BY <1>1, <1>2, <1>4, <1>6, <1>7, <1>9 DEF TokenInv, b

(* The table, the buffer and the tokenisers stay as they are.              *)
LEMMA TokenStutter ==
    TokenInv /\ UNCHANGED <<text, buf, save, stage, entry, fields>> => TokenInv'
BY DEF TokenInv, Reached, Begun

(* Every step keeps the invariant.                                         *)
LEMMA TokenNext == TokenInv /\ [MemoryNext]_<<part, vars, freestanding>> => TokenInv'
<1> SUFFICES ASSUME TokenInv, [MemoryNext]_<<part, vars, freestanding>> PROVE TokenInv'
  OBVIOUS
<1>1. CASE F!TokenStep
  <2>1. CASE \E t \in Tables : F!Load(t)
    BY <2>1, LoadStep
  <2>2. CASE F!NextEntry
    BY <2>2, EntryStep
  <2>3. CASE F!NextField
    BY <2>3, FieldStep
  <2>4. CASE UNCHANGED F!vars
    BY <2>4, TokenStutter DEF F!vars, F!tokens
  <2> QED BY <1>1, <2>1, <2>2, <2>3, <2>4 DEF F!TokenStep
<1>2. CASE F!NameStep
  BY <1>2, TokenStutter DEF F!NameStep, F!FillField, F!CopyWhole, F!tokens
<1>3. CASE F!HeapStep
  BY <1>3, TokenStutter DEF F!HeapStep, F!Malloc, F!Scribble, F!Enqueue, F!Free, F!QueueCreate,
                            F!QueueRemove, F!tokens
<1>4. CASE F!FrameStep
  BY <1>4, TokenStutter DEF F!FrameStep, F!EmitFrame, F!tokens
<1>5. CASE UNCHANGED freestanding
  BY <1>5, TokenStutter DEF freestanding
<1> QED BY <1>1, <1>2, <1>3, <1>4, <1>5 DEF MemoryNext

(* What the invariant says when the parser is done, and before.            *)
LEMMA TokensAreWords == TokenInv => SplitsLikeTheTable
<1> SUFFICES ASSUME TokenInv PROVE F!SplitsLikeTheTable
  BY DEF SplitsLikeTheTable
<1>1. text \in Seq(Chars) /\ Cut(text, buf) /\ Ordered(text, fields)
  BY DEF TokenInv
<1>2. DOMAIN text = 1 .. Len(text) /\ DOMAIN fields = 1 .. Len(fields)
  BY <1>1 DEF Ordered
<1>3. \A p \in DOMAIN text : buf[p] = text[p] \/ text[p] \in {F!Comma, F!Blank}
  BY <1>1, <1>2 DEF Cut
<1>4. \A w : w \in F!Words <=> IsWord(text, w)
  BY <1>2 DEF F!Words, IsWord, Outside
<1>5. F!ToSet(fields) = {fields[i] : i \in 1 .. Len(fields)}
  BY <1>2 DEF F!ToSet
<1>6. ASSUME stage = "done"
      PROVE  {<<f[2], f[3]>> : f \in F!ToSet(fields)} = F!Words
  <2>1. Found(text, fields, Len(text) + 1)
    BY <1>6 DEF TokenInv
  <2>2. ASSUME NEW f \in F!ToSet(fields) PROVE <<f[2], f[3]>> \in F!Words
    <3>1. PICK i \in 1 .. Len(fields) : f = fields[i]
      BY <1>5
    <3> QED BY <1>4, <2>1, <3>1 DEF Found
  <2>3. ASSUME NEW w \in F!Words PROVE \E f \in F!ToSet(fields) : w = <<f[2], f[3]>>
    <3>1. IsWord(text, w)
      BY <1>4
    <3>2. w[1] < Len(text) + 1 /\ w[1] \in Nat /\ Len(text) \in Nat
      BY <1>1, <3>1 DEF IsWord
    <3>3. w[1] >= Len(text) + 1 \/ \E i \in 1 .. Len(fields) : w = <<fields[i][2], fields[i][3]>>
      BY <2>1, <3>1 DEF Found
    <3>4. PICK i \in 1 .. Len(fields) : w = <<fields[i][2], fields[i][3]>>
      BY <3>2, <3>3
    <3>5. fields[i] \in F!ToSet(fields)
      BY <1>5
    <3> QED BY <3>4, <3>5
  <2> QED BY <2>2, <2>3
<1>7. \A i \in 1 .. Len(fields) - 1 : fields[i][3] < fields[i + 1][2]
  BY <1>1 DEF Ordered
<1>8. \A f \in F!ToSet(fields) : \A p \in f[1] .. f[2] : text[p] # F!Comma
  BY <1>1, <1>5 DEF Ordered
<1> QED BY <1>3, <1>6, <1>7, <1>8 DEF F!SplitsLikeTheTable

(***************************************************************************)
(* Whatever the table and wherever its delimiters stand, two strtok_r      *)
(* calls nested on one buffer return every field once, in order and whole, *)
(* under its own entry, and cut the buffer at delimiters only.             *)
(***************************************************************************)
THEOREM TablesAreSplit == MemorySpec => []SplitsLikeTheTable
<1>1. MemoryInit => TokenInv
  <2> SUFFICES ASSUME MemoryInit PROVE TokenInv
    OBVIOUS
  <2>1. /\ text = << >> /\ buf = <<0>> /\ save = [outer |-> F!Null, inner |-> F!Null]
        /\ stage = "idle" /\ entry = F!Null /\ fields = << >>
    BY DEF MemoryInit, F!Init, F!Nul
  <2>2. << >> \in Seq(Chars) /\ << >> \in Seq(Nat \X Nat \X Nat) /\ Len(<< >>) = 0
    OBVIOUS
  <2>3. save \in [outer : Int, inner : Int]
    BY <2>1 DEF F!Null
  <2>4. <<0>> \in [1 .. 1 -> Nat] /\ <<0>>[1] = 0
    OBVIOUS
  <2>5. Cut(<< >>, <<0>>)
    BY <2>2, <2>4 DEF Cut
  <2>6. Ordered(<< >>, << >>)
    BY <2>2 DEF Ordered
  <2> QED BY <2>1, <2>2, <2>3, <2>5, <2>6 DEF TokenInv
<1> QED BY <1>1, TokenNext, TokensAreWords, PTL DEF MemorySpec
=============================================================================
