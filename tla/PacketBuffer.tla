---------------------------- MODULE PacketBuffer ----------------------------
(***************************************************************************)
(* What a Packet's owner can see of a pool buffer: the length field, the   *)
(* header and the payload bytes of src/packet.rs.  PacketFlow follows who  *)
(* owns a buffer; this module follows what is in it while buffers go round *)
(* between users, the C stack and the pool.                                *)
(*                                                                         *)
(* A byte (and the header) is abstracted to WHO wrote it: Zero, a user, or *)
(* the network.  A byte that carries a name its owner never put there is   *)
(* left over from an earlier owner.                                        *)
(***************************************************************************)
EXTENDS Naturals

CONSTANTS
    Users,        \* the Rust callers that hold packets
    Buffers,      \* the buffers of the pool
    BUFFER_SIZE,  \* payload capacity in bytes
    LenMax,       \* the largest value of the u16 length field
    MaxWrite      \* bound: the longest slice given to write()

ASSUME SizesAssumption ==
    /\ BUFFER_SIZE \in Nat \ {0}
    /\ LenMax \in Nat
    /\ MaxWrite \in Nat

Zero == "zero"
Net == "net"
Pool == "pool"

ASSUME NamesAssumption == {Zero, Net, Pool} \cap Users = {}

Writers == Users \cup {Zero, Net}
Offsets == 1 .. BUFFER_SIZE

VARIABLES
    owner,    \* owner[b]: Pool, Net (the C stack has it) or a user
    fresh,    \* fresh[b]: the present user took b with Packet::get
    length,   \* length[b]: the u16 length field
    header,   \* header[b]: who last wrote the csp_id_t
    bytes     \* bytes[b][i]: who last wrote payload byte i

vars == <<owner, fresh, length, header, bytes>>
contents == <<length, header, bytes>>

TypeOK ==
    /\ owner \in [Buffers -> Users \cup {Pool, Net}]
    /\ fresh \in [Buffers -> BOOLEAN]
    /\ length \in [Buffers -> 0 .. LenMax]
    /\ header \in [Buffers -> Writers]
    /\ bytes \in [Buffers -> [Offsets -> Writers]]

(* The pool starts as zeroed static memory. *)
Init ==
    /\ owner = [b \in Buffers |-> Pool]
    /\ fresh = [b \in Buffers |-> FALSE]
    /\ length = [b \in Buffers |-> 0]
    /\ header = [b \in Buffers |-> Zero]
    /\ bytes = [b \in Buffers |-> [i \in Offsets |-> Zero]]

-----------------------------------------------------------------------------
(* Mutant: only the header fields are zeroed, not the payload union. *)
Zeroed_HeaderOnly(b) ==
    /\ length' = [length EXCEPT ![b] = 0]
    /\ header' = [header EXCEPT ![b] = Zero]
    /\ bytes' = bytes

(* ptr::write_bytes(ptr, 0, 1): the whole csp_packet_t, its data union
   included. *)
Zeroed(b) ==
    /\ length' = [length EXCEPT ![b] = 0]
    /\ header' = [header EXCEPT ![b] = Zero]
    /\ bytes' = [bytes EXCEPT ![b] = [i \in Offsets |-> Zero]]

(* Packet::get: a buffer from the pool, cleared.  An empty pool returns None
   and changes nothing. *)
Get(u, b) ==
    /\ owner[b] = Pool
    /\ owner' = [owner EXCEPT ![b] = u]
    /\ fresh' = [fresh EXCEPT ![b] = TRUE]
    /\ Zeroed(b)

(* min(len, BUFFER_SIZE) of set_length: no larger than the u16 it was given, so
   its own cast keeps it. *)
Clamped(len) == IF len <= BUFFER_SIZE THEN len ELSE BUFFER_SIZE

(* set_length, with any u16. *)
SetLength(u, b, len) ==
    /\ owner[b] = u
    /\ length' = [length EXCEPT ![b] = Clamped(len)]
    /\ UNCHANGED <<owner, fresh, header, bytes>>

(* write: copies the bytes and sets the length through set_length, to which it
   hands bytes.len() as u16: a build whose BUFFER_SIZE passes the u16 cuts it
   (the debug_assert is not in a release build). *)
Write(u, b, n) ==
    /\ owner[b] = u
    /\ n <= BUFFER_SIZE
    /\ bytes' = [bytes EXCEPT ![b] =
                    [i \in Offsets |-> IF i <= n THEN u ELSE @[i]]]
    /\ length' = [length EXCEPT ![b] = Clamped(n % (LenMax + 1))]
    /\ UNCHANGED <<owner, fresh, header>>

(* write of a slice that does not fit: Err(len), and the packet is as it
   was. *)
WriteTooLong(u, b, n) ==
    /\ owner[b] = u
    /\ n > BUFFER_SIZE
    /\ UNCHANGED vars

(* data_buf_mut: the owner may put its bytes anywhere in the buffer. *)
PokeByte(u, b, i) ==
    /\ owner[b] = u
    /\ bytes' = [bytes EXCEPT ![b][i] = u]
    /\ UNCHANGED <<owner, fresh, length, header>>

(* set_id. *)
SetId(u, b) ==
    /\ owner[b] = u
    /\ header' = [header EXCEPT ![b] = u]
    /\ UNCHANGED <<owner, fresh, length, bytes>>

(* from_raw: a packet the C stack hands over (read, recvfrom, a nexthop). *)
FromRaw(u, b) ==
    /\ owner[b] = Net
    /\ owner' = [owner EXCEPT ![b] = u]
    /\ UNCHANGED <<fresh, length, header, bytes>>

(* into_raw: the buffer goes to the C stack as it is (send, sendto). *)
IntoRaw(u, b) ==
    /\ owner[b] = u
    /\ owner' = [owner EXCEPT ![b] = Net]
    /\ fresh' = [fresh EXCEPT ![b] = FALSE]
    /\ UNCHANGED contents

(* Drop: csp_buffer_free puts the buffer back; its contents stay. *)
Drop(u, b) ==
    /\ owner[b] = u
    /\ owner' = [owner EXCEPT ![b] = Pool]
    /\ fresh' = [fresh EXCEPT ![b] = FALSE]
    /\ UNCHANGED contents

(* External: a C driver takes a buffer from the pool without clearing it. *)
CTakes(b) ==
    /\ owner[b] = Pool
    /\ owner' = [owner EXCEPT ![b] = Net]
    /\ UNCHANGED <<fresh, length, header, bytes>>

(* External: C code fills a packet it has: header, length and the bytes that
   length covers.  The field is a plain u16, so nothing bounds it. *)
CFills(b, len) ==
    /\ owner[b] = Net
    /\ length' = [length EXCEPT ![b] = len]
    /\ header' = [header EXCEPT ![b] = Net]
    /\ bytes' = [bytes EXCEPT ![b] =
                    [i \in Offsets |-> IF i <= len THEN Net ELSE @[i]]]
    /\ UNCHANGED <<owner, fresh>>

(* External: the C stack frees a packet it has. *)
CFrees(b) ==
    /\ owner[b] = Net
    /\ owner' = [owner EXCEPT ![b] = Pool]
    /\ UNCHANGED <<fresh, length, header, bytes>>

UserStep(u, b) ==
    \/ Get(u, b)
    \/ \E len \in 0 .. LenMax : SetLength(u, b, len)
    \/ \E n \in 0 .. MaxWrite : Write(u, b, n) \/ WriteTooLong(u, b, n)
    \/ \E i \in Offsets : PokeByte(u, b, i)
    \/ SetId(u, b)
    \/ FromRaw(u, b)
    \/ IntoRaw(u, b)
    \/ Drop(u, b)

CStep(b) ==
    \/ CTakes(b)
    \/ \E len \in 0 .. LenMax : CFills(b, len)
    \/ CFrees(b)

Next ==
    \E b \in Buffers : CStep(b) \/ \E u \in Users : UserStep(u, b)

Spec == Init /\ [][Next]_vars

-----------------------------------------------------------------------------
(* id() *)
Id(b) == header[b]

(***************************************************************************)
(* A packet from Packet::get shows its owner nothing an earlier user of    *)
(* the buffer, or the network, left in it: not in the header, and not in   *)
(* any byte that set_length can bring into view.  (A packet received from  *)
(* C keeps what C and the buffer's earlier users put past its length.)     *)
(***************************************************************************)
NoStaleBytes ==
    \A b \in Buffers : fresh[b] =>
        /\ Id(b) \in {Zero, owner[b]}
        /\ \A i \in Offsets : bytes[b][i] \in {Zero, owner[b]}
=============================================================================
