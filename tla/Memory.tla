------------------------------- MODULE Memory -------------------------------
(***************************************************************************)
(* The bytes that Rust and libcsp's C code both reach, as one system: the  *)
(* packet buffers of the pool, and what a target without a libc gets in    *)
(* its place.  The parts have no state in common, so a behaviour follows    *)
(* one of them and loses nothing.                                          *)
(***************************************************************************)
EXTENDS PacketBuffer, Integers, Sequences

CONSTANTS
    Width, Names, Tables, ALIGN, Word, UsizeMax, HeapSize, Sizes, Shapes, QueueBytes,
    Addresses, Rests

VARIABLE part    \* the part that this behaviour follows
VARIABLES field, name, text, buf, save, stage, entry, fields, blocks, sizes, live, queues,
    frame

freestanding ==
    <<field, name, text, buf, save, stage, entry, fields, blocks, sizes, live, queues,
      frame>>

F == INSTANCE Freestanding WITH header <- sizes

(* ALIGN: "Padding the header to ALIGN" is what keeps pointers aligned.  A *)
(* C string holds no terminator.                                           *)
ASSUME FreestandingAssumption ==
    /\ {Width, ALIGN, Word, UsizeMax, HeapSize, QueueBytes} \subseteq Nat \ {0}
    /\ Word <= ALIGN
    /\ Sizes \subseteq 0 .. UsizeMax
    /\ Shapes \subseteq (0 .. UsizeMax) \X (0 .. UsizeMax)
    /\ \A s \in Names \cup Tables : s \in Seq(1 .. 255)

(* Type, remain and id of a CAN identifier are the 19 bits below the       *)
(* addresses.                                                              *)
ASSUME FramesAssumption ==
    /\ \A a \in Addresses : a \in Nat /\ a < 256
    /\ \A r \in Rests : r \in Nat /\ r < 524288

Parts == {"packets", "names", "tokens", "heap", "frames"}

MemoryInit == Init /\ F!Init /\ part \in Parts

MemoryNext ==
    /\ UNCHANGED part
    /\ \/ part = "packets" /\ Next /\ UNCHANGED freestanding
       \/ part = "names" /\ F!NameStep /\ UNCHANGED vars
       \/ part = "tokens" /\ F!TokenStep /\ UNCHANGED vars
       \/ part = "heap" /\ F!HeapStep /\ UNCHANGED vars
       \/ part = "frames" /\ F!FrameStep /\ UNCHANGED vars

MemorySpec == MemoryInit /\ [][MemoryNext]_<<part, vars, freestanding>>

-----------------------------------------------------------------------------
(* strncpy, strcpy, strnlen, strncmp and strncasecmp: a name field holds   *)
(* the last name, cropped, and is found by it.                             *)
NamesSurvive == part = "names" => F!NamesSurvive

(* strtok_r: nested tokenisers take a routing table apart field by field.  *)
SplitsLikeTheTable == F!SplitsLikeTheTable

(* malloc and free: every block is given back with the layout it was       *)
(* taken with.                                                             *)
HeapIntact == F!HeapIntact

(* cfp: both addresses come out of a CAN identifier as they went in.       *)
CanIdsKeepAddresses == F!CanIdsKeepAddresses
=============================================================================
