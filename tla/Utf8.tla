--------------------------------- MODULE Utf8 ---------------------------------
(***************************************************************************)
(* UTF-8 twice: as a terminal writes it, from code points to bytes, and as *)
(* the table of json.hpp (decode) reads it, byte by byte.                  *)
(***************************************************************************)
EXTENDS Integers, Sequences

\* A following byte: the last six bits of c.
Follow(c) == 128 + (c % 64)

Encode(c) ==
    IF c < 128 THEN <<c>>
    ELSE IF c < 2048 THEN <<192 + c \div 64, Follow(c)>>
    ELSE IF c < 65536 THEN <<224 + c \div 4096, Follow(c \div 64), Follow(c)>>
    ELSE <<240 + c \div 262144, Follow(c \div 4096), Follow(c \div 64), Follow(c)>>

\* What a terminal writes: no surrogates, and no zero.
Characters == {c \in Nat : (0 < c /\ c < 55296) \/ (57343 < c /\ c < 1114112)}

\* A place in the bytes of a word: behind so many characters, and behind so many
\* bytes of the next one.
Places(word) ==
    {p \in [chars : 0..Len(word), bytes : 0..3] :
        p.bytes > 0 => /\ p.chars < Len(word)
                       /\ p.bytes < Len(Encode(word[p.chars + 1]))}

ByteAt(word, p) == Encode(word[p.chars + 1])[p.bytes + 1]

\* The place behind the next byte.
Forth(word, p) ==
    IF p.bytes + 1 < Len(Encode(word[p.chars + 1]))
    THEN [chars |-> p.chars, bytes |-> p.bytes + 1]
    ELSE [chars |-> p.chars + 1, bytes |-> 0]

Before(p, q) == p.chars < q.chars \/ (p.chars = q.chars /\ p.bytes < q.bytes)

\* No character is cut there.
Whole(p) == p.bytes = 0

-------------------------------------------------------------------------------
(* The table utf8d: a class for each byte, and for each state which classes    *)
(* it wants and the state they lead to.                                        *)

Accept == 0
Reject == 1

\* Mutant: F0 begins a character of three bytes.
TypeShortF0(b) ==
    CASE b <= 127       -> 0
      [] b \in 128..143 -> 1
      [] b \in 144..159 -> 9
      [] b \in 160..191 -> 7
      [] b \in 194..223 -> 2
      [] b = 224        -> 10
      [] b \in 225..240 \ {237} -> 3
      [] b = 237        -> 4
      [] b \in 241..243 -> 6
      [] b = 244        -> 5
      [] OTHER          -> 8

Type(b) ==
    CASE b <= 127       -> 0
      [] b \in 128..143 -> 1
      [] b \in 144..159 -> 9
      [] b \in 160..191 -> 7
      [] b \in 194..223 -> 2
      [] b = 224        -> 10
      [] b \in 225..239 \ {237} -> 3
      [] b = 237        -> 4
      [] b = 240        -> 11
      [] b \in 241..243 -> 6
      [] b = 244        -> 5
      [] OTHER          -> 8

Lead   == <<0, 1, 2, 3, 5, 8, 7, 1, 1, 1, 4, 6>>    \* from Accept, by class
Wanted == <<{}, {1, 7, 9}, {1, 7, 9}, {7}, {1, 9}, {7, 9}, {1, 7, 9}, {1}>>
After  == <<Reject, Accept, 2, 2, 2, 3, 3, 3>>

Decode(state, b) ==
    IF state = Accept THEN Lead[Type(b) + 1]
    ELSE IF Type(b) \in Wanted[state] THEN After[state] ELSE Reject

\* 0xFF >> type keeps the payload of a lead byte; the following bytes bring six
\* bits each.  Three of them cannot overflow 32 bits.
Payload == <<256, 128, 64, 32, 16, 8, 4, 2, 1, 1, 1, 1>>    \* by class

CodePoint(state, old, b) ==
    IF state = Accept THEN b % Payload[Type(b) + 1]
    ELSE (old * 64) + (b % 64)
===============================================================================
