---------------------------- MODULE Freestanding ----------------------------
(***************************************************************************)
(* What Rust gives libcsp's C code in place of a libc: the string helpers  *)
(* of src/arch.rs at work in C's buffers, and the malloc and free of       *)
(* embassy-example/src/lib.rs, which keep a size header in front of every  *)
(* block.  With them the layout of a CAN identifier (src/can.rs), which C  *)
(* fills and Rust takes apart.                                             *)
(***************************************************************************)
EXTENDS CStrings, SequencesExt

CONSTANTS
    Width,      \* the width of a name field
    Names,      \* the names C copies into one
    Tables,     \* the routing tables C takes apart
    ALIGN,      \* EmbassyArch::ALIGN
    Word,       \* bytes of a usize
    UsizeMax,   \* the largest usize
    HeapSize,   \* bytes of the heap
    Sizes,      \* the sizes malloc is asked for
    Shapes,     \* the queues created: <<length, item_size>>
    QueueBytes, \* the size of a Queue
    Addresses,  \* node addresses, as u8
    Rests       \* what the fields below the addresses of an identifier hold

VARIABLES
    field,      \* the characters of the field
    name,       \* the name it was last given (ghost)
    text, buf,  \* the table, and the buffer strtok_r cuts
    save,       \* per tokeniser, the caller's saveptr
    stage,      \* whose call is next
    entry,      \* the entry the outer tokeniser returned last
    fields,     \* the fields found: <<entry, first, last>>
    blocks,     \* what the allocator has handed out: <<base, total>>
    header,     \* the usize at each address, where one was stored
    live,       \* what malloc's callers hold: <<pointer, size>>
    queues,     \* the queues: <<pointer to the slots, Box, shape>>
    frame       \* the identifier of the last CAN frame, and its addresses

names == <<field, name>>
tokens == <<text, buf, save, stage, entry, fields>>
heap == <<blocks, header, live, queues>>
vars == <<names, tokens, heap, frame>>

Comma == 44
Blank == 32
Garbage == UsizeMax + 1     \* bytes some user wrote over a header

Init ==
    /\ field = [i \in 1 .. Width |-> Nul]
    /\ name = << >>
    /\ text = << >>
    /\ buf = <<Nul>>
    /\ save = [outer |-> Null, inner |-> Null]
    /\ stage = "idle"
    /\ entry = Null
    /\ fields = << >>
    /\ blocks = {}
    /\ header = << >>
    /\ live = {}
    /\ queues = {}
    /\ frame = << >>

-----------------------------------------------------------------------------
(* Name fields.                                                            *)

(* External caller: a CMP reply is filled, whatever the buffer held. *)
FillField(s) ==
    /\ field' = Strncpy(field, s, Width)
    /\ name' = s
    /\ UNCHANGED <<tokens, heap, frame>>

(* External caller: strcpy, of a string the caller made fit. *)
CopyWhole(s) ==
    /\ Len(s) < Width
    /\ field' = Strcpy(field, s)
    /\ name' = s
    /\ UNCHANGED <<tokens, heap, frame>>

-----------------------------------------------------------------------------
(* External caller, a harness: a table parser with one tokeniser nested in *)
(* the other on the same buffer, the hardest use strtok_r's contract       *)
(* allows.  (csp_rtable_load is not built on the targets that get these    *)
(* helpers.)                                                               *)

Load(t) ==
    /\ stage = "idle"
    /\ text' = t
    /\ buf' = Append(t, Nul)
    /\ stage' = "outer"
    /\ UNCHANGED <<save, entry, fields, names, heap, frame>>

NextEntry ==
    LET r == Strtok(buf, IF entry = Null THEN 1 ELSE save.outer, {Comma})
    IN  /\ stage = "outer"
        /\ buf' = r.buf
        /\ save' = [outer |-> r.save, inner |-> Null]
        /\ IF r.token = Null
           THEN stage' = "done" /\ UNCHANGED entry
           ELSE stage' = "inner" /\ entry' = r.token
        /\ UNCHANGED <<text, fields, names, heap, frame>>

NextField ==
    LET begun == fields # << >> /\ Last(fields)[1] = entry
        r == Strtok(buf, IF begun THEN save.inner ELSE entry, {Blank})
    IN  /\ stage = "inner"
        /\ buf' = r.buf
        /\ save' = [save EXCEPT !.inner = r.save]
        /\ IF r.token = Null
           THEN stage' = "outer" /\ UNCHANGED fields
           ELSE /\ fields' = Append(fields, <<entry, r.token,
                                 TokenStop(r.buf, r.token, {}) - 1>>)
                /\ UNCHANGED stage
        /\ UNCHANGED <<text, entry, names, heap, frame>>

-----------------------------------------------------------------------------
(* The heap.  Addresses are bytes from 0, and the heap is aligned.         *)

Bytes(p, n) == p .. p + n - 1

(* External: HEAP.alloc finds any aligned place that is free. *)
Places(taken, total) ==
    {b \in 0 .. HeapSize - total :
        b % ALIGN = 0 /\ \A k \in taken : Bytes(b, total) \cap Bytes(k[1], k[2]) = {}}

(* Mutant: size + ALIGN wraps. *)
Total_Wraps(size) == (size + ALIGN) % (UsizeMax + 1)

(* size.checked_add(ALIGN), and from_size_align, which refuses more than
   isize::MAX once rounded up; Null where either does. *)
Total(size) ==
    LET total == size + ALIGN
    IN  IF total > UsizeMax \div 2 - (ALIGN - 1) THEN Null ELSE total

(* *(base as *mut usize) = size *)
Stored(base, size) ==
    [a \in DOMAIN header \cup {base} |-> IF a = base THEN size ELSE header[a]]

(* malloc: the size goes to the base, the caller gets the place ALIGN past
   it.  Null from the checks or a full heap changes nothing. *)
Malloc(size) ==
    /\ Total(size) # Null
    /\ \E base \in Places(blocks, Total(size)) :
         /\ blocks' = blocks \cup {<<base, Total(size)>>}
         /\ header' = Stored(base, size)
         /\ live' = live \cup {<<base + ALIGN, size>>}
    /\ UNCHANGED <<queues, names, tokens, frame>>

(* What the headers hold after somebody wrote the bytes of S. *)
Overwritten(S) ==
    [b \in DOMAIN header |-> IF Bytes(b, Word) \cap S # {} THEN Garbage ELSE header[b]]

IsQueue(p) == \E q \in queues : q[1] = p[1]

(* External: the owner of a block writes all its bytes. *)
Scribble(p) ==
    /\ p \in live
    /\ ~IsQueue(p)
    /\ header' = Overwritten(Bytes(p[1], p[2]))
    /\ UNCHANGED <<blocks, live, queues, names, tokens, frame>>

(* What free does: the layout is rebuilt from the header, and HEAP.dealloc,
   external, takes it back. *)
Freed(p) == <<p[1] - ALIGN, header[p[1] - ALIGN] + ALIGN>>

(* free; of NULL it returns at once and changes nothing. *)
Free(p) ==
    /\ p \in live
    /\ ~IsQueue(p)
    /\ blocks' = blocks \ {Freed(p)}
    /\ live' = live \ {p}
    /\ UNCHANGED <<header, queues, names, tokens, frame>>

(* The bytes all slots of a queue take, as Queue::new asks for them. *)
SlotBytes(shape) == shape[1] * shape[2]

(* queue_create: malloc for the slots, of a product that wraps in a release
   build, and a Box for the Queue.  Null from malloc changes nothing; without
   a place for the Box the program aborts. *)
QueueCreate(shape) ==
    LET size == SlotBytes(shape) % (UsizeMax + 1)
    IN  /\ Total(size) # Null
        /\ \E base \in Places(blocks, Total(size)) :
             LET taken == blocks \cup {<<base, Total(size)>>}
             IN  \E box \in Places(taken, QueueBytes) :
                   /\ blocks' = taken \cup {<<box, QueueBytes>>}
                   /\ header' = Stored(base, size)
                   /\ live' = live \cup {<<base + ALIGN, size>>}
                   /\ queues' = queues \cup {<<base + ALIGN, box, shape>>}
        /\ UNCHANGED <<names, tokens, frame>>

(* Queue::enqueue: item_size bytes go into slot tail_pos, any of the queue's
   in its turn (RingQueue follows the indices), whatever the block holds. *)
Enqueue(q, tail) ==
    LET offset == (tail * q[3][2]) % (UsizeMax + 1)
    IN  /\ q \in queues
        /\ tail < q[3][1]
        /\ header' = Overwritten(Bytes(q[1] + offset, q[3][2]))
        /\ UNCHANGED <<blocks, live, queues, names, tokens, frame>>

(* queue_remove: free for the slots, then the Box. *)
QueueRemove(q) ==
    /\ q \in queues
    /\ \E p \in live :
         /\ p[1] = q[1]
         /\ blocks' = blocks \ {Freed(p), <<q[2], QueueBytes>>}
         /\ live' = live \ {p}
    /\ queues' = queues \ {q}
    /\ UNCHANGED <<header, names, tokens, frame>>

-----------------------------------------------------------------------------
(* CAN identifiers.                                                        *)

HOST_MASK == 31
(* Mutant: the type bit is forgotten. *)
DST_SHIFT_NoType == 262144
DST_SHIFT == 524288      \* 2^19: past the type bit, 8 bits of remain, 10 of id
SRC_SHIFT == 16777216    \* 2^24: past the destination's five bits

MakeDst(a) == (a % (HOST_MASK + 1)) * DST_SHIFT
MakeSrc(a) == (a % (HOST_MASK + 1)) * SRC_SHIFT
CfpDst(id) == (id \div DST_SHIFT) % (HOST_MASK + 1)
CfpSrc(id) == (id \div SRC_SHIFT) % (HOST_MASK + 1)

(* External: the CFP layer emits a frame; rest is its type, remain and id. *)
EmitFrame(s, d, rest) ==
    /\ frame' = [src |-> s, dst |-> d, id |-> MakeSrc(s) + MakeDst(d) + rest]
    /\ UNCHANGED <<names, tokens, heap>>

NameStep == \E s \in Names : FillField(s) \/ CopyWhole(s)

TokenStep ==
    \/ \E t \in Tables : Load(t)
    \/ NextEntry
    \/ NextField
    \/ stage = "done" /\ UNCHANGED vars

HeapStep ==
    \/ \E size \in Sizes : Malloc(size)
    \/ \E p \in live : Scribble(p) \/ Free(p)
    \/ \E shape \in Shapes : QueueCreate(shape)
    \/ \E q \in queues : QueueRemove(q) \/ \E tail \in 0 .. q[3][1] - 1 : Enqueue(q, tail)

FrameStep == \E s, d \in Addresses, rest \in Rests : EmitFrame(s, d, rest)

-----------------------------------------------------------------------------
(* What a reader that knows the width takes out of the field, and whether a
   lookup by name stops at it. *)
Contents == SubSeq(field, 1, Strnlen(field, Width))
FoundBy(s) == Strncasecmp(field, s, Width) = 0

Cropped(s) == SubSeq(s, 1, Min({Len(s), Width}))

(***************************************************************************)
(* A field read back gives the name last copied into it, cropped to the    *)
(* width, whatever longer name stood there: strncpy pads, and a full field *)
(* loses no character.  And it is found by exactly the names that agree    *)
(* with it up to the width, but for case with strncasecmp.                 *)
(***************************************************************************)
NamesSurvive ==
    /\ Contents = Cropped(name)
    /\ \A s \in Names :
         /\ Strncmp(field, s, Width) = 0 <=> Cropped(s) = Cropped(name)
         /\ FoundBy(s) <=> Folded(Cropped(s)) = Folded(Cropped(name))

(* The maximal runs of text between delimiters. *)
Words ==
    {w \in (1 .. Len(text)) \X (1 .. Len(text)) :
        LET outside(p) == p \notin DOMAIN text \/ text[p] \in {Comma, Blank}
        IN  /\ w[1] <= w[2]
            /\ \A p \in w[1] .. w[2] : ~outside(p)
            /\ outside(w[1] - 1) /\ outside(w[2] + 1)}

(***************************************************************************)
(* Two tokenisers nested on one buffer, each with its own save pointer,    *)
(* return every field of the table once, in order and whole, each under    *)
(* its own entry, and write over nothing but delimiters: leading, trailing *)
(* and repeated delimiters and an empty table included.                    *)
(***************************************************************************)
SplitsLikeTheTable ==
    /\ \A p \in DOMAIN text : buf[p] = text[p] \/ text[p] \in {Comma, Blank}
    /\ stage = "done" =>
         /\ {<<f[2], f[3]>> : f \in ToSet(fields)} = Words
         /\ \A i \in 1 .. Len(fields) - 1 : fields[i][3] < fields[i + 1][2]
         /\ \A f \in ToSet(fields) : \A p \in f[1] .. f[2] : text[p] # Comma

(***************************************************************************)
(* However malloc, free, the making and removing of queues and the writes  *)
(* of callers and of enqueue interleave, each block the allocator has      *)
(* handed out is the one its owner will free: the header in front of it    *)
(* still rebuilds exactly that layout, what the owner holds is aligned and *)
(* lies inside it, a queue's slots with it, and is nobody else's.  (A      *)
(* queue whose byte count wraps gets a short block: no shape here does.)   *)
(***************************************************************************)
HeapIntact ==
    /\ blocks = {Freed(p) : p \in live} \cup {<<q[2], QueueBytes>> : q \in queues}
    /\ \A p \in live :
         /\ p[1] % ALIGN = 0
         /\ header[p[1] - ALIGN] = p[2]
         /\ \A k \in blocks :
              k[1] # p[1] - ALIGN => Bytes(p[1], p[2]) \cap Bytes(k[1], k[2]) = {}
    /\ \A q \in queues : \E p \in live : p[1] = q[1] /\ SlotBytes(q[3]) <= p[2]

(***************************************************************************)
(* cfp::src and cfp::dst read the frame's addresses, cut to five bits, out *)
(* of the identifier, whatever the other address and the fields below hold.*)
(***************************************************************************)
CanIdsKeepAddresses ==
    frame # << >> =>
        CfpSrc(frame.id) = frame.src % 32 /\ CfpDst(frame.id) = frame.dst % 32
=============================================================================
