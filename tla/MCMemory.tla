------------------------------ MODULE MCMemory ------------------------------
(* Two users pass two buffers of two bytes round; the length field can say
   more than the buffer holds.  Names of up to three characters for a field of
   two, tables of up to six characters, a heap of four aligned places in
   a machine with six-bit pointers, addresses on both sides of five bits. *)
EXTENDS Memory, TLC

Upto(n, S) == UNION {[1 .. k -> S] : k \in 0 .. n}

MCNames == Upto(3, {65, 97, 98})
MCTables == Upto(6, {44, 32, 97})
MCSizes == {0, 1, 4, 5, 62, 63}
MCShapes == {<<0, 2>>, <<2, 2>>}
MCAddresses == {0, 1, 30, 31, 32, 33, 255}
MCRests == {0, 2 ^ 19 - 1}

Sym == Permutations(Users) \cup Permutations(Buffers)
=============================================================================
