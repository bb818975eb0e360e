------------------------------ MODULE CStrings ------------------------------
(***************************************************************************)
(* The C string functions that CspArch supplies to libcsp on targets       *)
(* without a libc, and export_arch! exports (src/arch.rs).                 *)
(*                                                                         *)
(* A string is the sequence of its character codes without the             *)
(* terminator; memory is a function from positions to codes.               *)
(***************************************************************************)
EXTENDS Integers, Sequences, FiniteSetsExt

Nul == 0
Null == -1    \* the null pointer

(* What a read of the i-th character of s finds. *)
At(s, i) == IF i <= Len(s) THEN s[i] ELSE Nul

(* u8::to_ascii_lowercase *)
Lower(c) == IF c \in 65 .. 90 THEN c + 32 ELSE c

(* Mutant: copies the characters and pads nothing. *)
Strncpy_NoPadding(dest, src, n) ==
    [i \in DOMAIN dest |-> IF i <= n /\ i <= Len(src) THEN src[i] ELSE dest[i]]

(* strncpy: up to n characters of src, then zeros up to n. *)
Strncpy(dest, src, n) == [i \in DOMAIN dest |-> IF i <= n THEN At(src, i) ELSE dest[i]]

(* strcpy: all of src and its terminator, and nothing after it. *)
Strcpy(dest, src) ==
    [i \in DOMAIN dest |-> IF i <= Len(src) + 1 THEN At(src, i) ELSE dest[i]]

(* strnlen: the characters before the first terminator, at most maxlen. *)
Strnlen(s, maxlen) ==
    Min({i \in 0 .. maxlen : i = maxlen \/ At(s, i + 1) = Nul})

(* strncmp: it ends where the strings differ or where both end. *)
Strncmp(s1, s2, n) ==
    LET stops == {i \in 1 .. n : At(s1, i) # At(s2, i) \/ At(s1, i) = Nul}
        i == Min(stops)
    IN  IF stops = {} THEN 0 ELSE At(s1, i) - At(s2, i)

Folded(s) == [i \in DOMAIN s |-> Lower(s[i])]

(* strncasecmp: the same on characters in lower case. *)
Strncasecmp(s1, s2, n) == Strncmp(Folded(s1), Folded(s2), n)

-----------------------------------------------------------------------------
(* strtok_r on a buffer whose last position holds a terminator.            *)

(* Skip leading delimiters. *)
TokenStart(buf, p, delim) == Min({q \in DOMAIN buf : q >= p /\ buf[q] \notin delim})

(* Find the end of the token. *)
TokenStop(buf, p, delim) ==
    Min({q \in DOMAIN buf : q >= p /\ buf[q] \in delim \cup {Nul}})

(* There is no token from p on; a null p, after the last one, included. *)
NoToken(buf, p, delim) == p = Null \/ buf[TokenStart(buf, p, delim)] = Nul

(* Mutant: the delimiter that ends a token is left in the buffer. *)
Strtok_Leaves(buf, p, delim) ==
    IF NoToken(buf, p, delim)
    THEN [buf |-> buf, save |-> Null, token |-> Null]
    ELSE LET start == TokenStart(buf, p, delim)
             stop  == TokenStop(buf, start, delim)
         IN  [buf   |-> buf,
              save  |-> IF buf[stop] = Nul THEN stop ELSE stop + 1,
              token |-> start]

(* A call that starts at p (the string, or the save pointer): the delimiter
   that ends the token becomes its terminator, and the save pointer is left
   one past it, or on the string's own terminator. *)
Strtok(buf, p, delim) ==
    IF NoToken(buf, p, delim)
    THEN [buf |-> buf, save |-> Null, token |-> Null]
    ELSE LET start == TokenStart(buf, p, delim)
             stop  == TokenStop(buf, start, delim)
         IN  [buf   |-> [buf EXCEPT ![stop] = Nul],
              save  |-> IF buf[stop] = Nul THEN stop ELSE stop + 1,
              token |-> start]
=============================================================================
