------------------------------- MODULE Codec -------------------------------
(***************************************************************************)
(* The conversions between what the announcer has and what a frame may     *)
(* hold: adclib's escape (adclib.cpp) and base32 (base32.cpp), and the     *)
(* base32 of basexx (basexx.lua), which the keyprint goes through.         *)
(*                                                                         *)
(* A text is a sequence of characters, of which only those that escape and *)
(* unescape tell apart have a name; a byte is a number; a base32 digit is  *)
(* its value, or Foreign for a character outside the alphabet.  A loop of  *)
(* the code is a function: loop[n] is its state after n rounds.            *)
(***************************************************************************)
EXTENDS Integers, Sequences, SequencesExt

Space     == "space"
LineFeed  == "line feed"
Backslash == "backslash"

Foreign == -1

-----------------------------------------------------------------------------
(* escape and unescape                                                     *)

EscapeChar(c) ==
    CASE c = Space     -> <<Backslash, "s">>
      [] c = LineFeed  -> <<Backslash, "n">>
      [] c = Backslash -> <<Backslash, Backslash>>
      [] OTHER         -> <<c>>

Escape(s) == FlattenSeq([i \in DOMAIN s |-> EscapeChar(s[i])])

\* After a backslash: any other character is dropped, as is the backslash.
Unescaped(c) ==
    CASE c = "s"       -> <<Space>>
      [] c = "n"       -> <<LineFeed>>
      [] c = Backslash -> <<Backslash>>
      [] OTHER         -> <<>>

\* Variant: the character after a backslash is looked at again.
UnescapeTwice(s, st) ==
    IF st.i > Len(s) THEN st
    ELSE IF s[st.i] # Backslash
      THEN [i |-> st.i + 1, out |-> Append(st.out, s[st.i])]
    ELSE IF st.i = Len(s)
      THEN [i |-> st.i + 1, out |-> st.out]
    ELSE [i |-> st.i + 1, out |-> st.out \o Unescaped(s[st.i + 1])]

\* The iterator and what has been put out, after one more round.
UnescapeNext(s, st) ==
    IF st.i > Len(s) THEN st
    ELSE IF s[st.i] # Backslash
      THEN [i |-> st.i + 1, out |-> Append(st.out, s[st.i])]
    ELSE IF st.i = Len(s)
      THEN [i |-> st.i + 1, out |-> st.out]
    ELSE [i |-> st.i + 2, out |-> st.out \o Unescaped(s[st.i + 1])]

Unescape(s) ==
    LET loop[n \in 0..Len(s)] ==
          IF n = 0 THEN [i |-> 1, out |-> <<>>] ELSE UnescapeNext(s, loop[n - 1])
    IN  loop[Len(s)].out

\* A frame as net.lua puts it together: escaped fields with spaces between them.
Frame(fields) ==
    FlattenSeq([i \in DOMAIN fields |->
                  IF i = 1 THEN Escape(fields[i]) ELSE <<Space>> \o Escape(fields[i])])

\* How the hub takes a line apart (external): at every space a field begins.
Split(line) ==
    LET loop[n \in 0..Len(line)] ==
          IF n = 0 THEN << <<>> >>
          ELSE IF line[n] = Space THEN Append(loop[n - 1], <<>>)
          ELSE [loop[n - 1] EXCEPT ![Len(loop[n - 1])] = Append(@, line[n])]
    IN  loop[Len(line)]

Fields(line) == [k \in DOMAIN Split(line) |-> Unescape(Split(line)[k])]

-----------------------------------------------------------------------------
(* Bytes                                                                   *)

Byte == 0..255

Pow2 == <<1, 2, 4, 8, 16, 32, 64, 128, 256>>

\* x << k in an unsigned char, and x >> k.
Left(x, k)  == (x * Pow2[k + 1]) % 256
Right(x, k) == x \div Pow2[k + 1]

Bit(x, k) == Right(x, k) % 2

OfBits(b(_)) ==
    b(0) + 2 * b(1) + 4 * b(2) + 8 * b(3) + 16 * b(4) + 32 * b(5) + 64 * b(6) + 128 * b(7)

And(x, y) == OfBits(LAMBDA k : IF Bit(x, k) = 1 /\ Bit(y, k) = 1 THEN 1 ELSE 0)
Or(x, y)  == OfBits(LAMBDA k : IF Bit(x, k) = 1 \/ Bit(y, k) = 1 THEN 1 ELSE 0)

-----------------------------------------------------------------------------
(* base32                                                                  *)

\* A round of TOBASE32 at byte i, of which `key` bits are already taken.
EncodeNext(src, st) ==
    LET next == (st.key + 5) % 8
        low  == Left(And(src[st.i], Right(255, st.key)), next)
        rest == IF st.i < Len(src) THEN Right(src[st.i + 1], 8 - next) ELSE 0
    IN  IF st.i > Len(src) THEN st
        ELSE IF st.key > 3
          THEN [i |-> st.i + 1, key |-> next, ret |-> Append(st.ret, Or(low, rest))]
          ELSE [i   |-> IF next = 0 THEN st.i + 1 ELSE st.i,
                key |-> next,
                ret |-> Append(st.ret, And(Right(src[st.i], 3 - st.key), 31))]

\* A byte takes less than two rounds.
ToBase32(src) ==
    LET loop[n \in 0..(2 * Len(src))] ==
          IF n = 0 THEN [i |-> 1, key |-> 0, ret |-> <<>>] ELSE EncodeNext(src, loop[n - 1])
    IN  loop[2 * Len(src)].ret

\* A round of FROMBASE32 over a buffer of `size` bytes: how many bits of byte `set`
\* are filled.  A byte past the last is never written.
DecodeNext(st, digit, size) ==
    LET next == (st.key + 5) % 8
        put(b, i, v) == [b EXCEPT ![i] = Or(@, v)]
        high == put(st.buffer, st.set, Right(digit, next))
    IN  IF digit = Foreign \/ st.set > size THEN st
        ELSE IF st.key < 3
          THEN [key |-> next, set |-> st.set,
                buffer |-> put(st.buffer, st.set, Left(digit, 8 - next))]
          ELSE [key |-> next, set |-> st.set + 1,
                buffer |-> IF next = 0 \/ st.set = size THEN high
                           ELSE put(high, st.set + 1, Left(digit, 8 - next))]

FromBase32(digits, size) ==
    LET loop[n \in 0..Len(digits)] ==
          IF n = 0 THEN [key |-> 0, set |-> 1, buffer |-> [i \in 1..size |-> 0]]
          ELSE DecodeNext(loop[n - 1], digits[n], size)
    IN  loop[Len(digits)].buffer

\* How many bytes hash_pas takes a salt for.
SaltBytes(digits) == (Len(digits) * 5) \div 8

-----------------------------------------------------------------------------
(* base32 in basexx: the bits of all bytes, in groups of five              *)

Bits(src) == [b \in 1..(8 * Len(src)) |->
                Bit(src[((b - 1) \div 8) + 1], 7 - ((b - 1) % 8))]

Basexx32(src) ==
    LET bits == Bits(src)
        padded(b) == IF b \in DOMAIN bits THEN bits[b] ELSE 0
    IN  [d \in 1..((Len(bits) + 4) \div 5) |->
           16 * padded(5 * d - 4) + 8 * padded(5 * d - 3) + 4 * padded(5 * d - 2)
             + 2 * padded(5 * d - 1) + padded(5 * d)]

-----------------------------------------------------------------------------
(* Properties of one input                                                 *)

\* What is escaped is one field of one line, whatever characters it has, and the
\* hub reads back the fields that were put in.
FieldsArrive(fields) ==
    /\ \A i \in DOMAIN Frame(fields) : Frame(fields)[i] # LineFeed
    /\ Fields(Frame(fields)) = fields

\* The two encoders agree, and hash_pas decodes the very bytes that were encoded,
\* among characters that are no digits too.
BytesArrive(src) ==
    LET digits == ToBase32(src)
    IN  /\ digits = Basexx32(src)
        /\ SaltBytes(digits) = Len(src)
        /\ FromBase32(digits, SaltBytes(digits)) = src
        /\ FromBase32(<<Foreign>> \o digits \o <<Foreign>>, Len(src)) = src
=============================================================================
