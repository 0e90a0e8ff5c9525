----------------------------- MODULE JsonGrammar ------------------------------
(***************************************************************************)
(* The grammar of JSON (RFC 8259), for texts, written without reference to *)
(* the machine of JsonReader, and the properties that compare the two.     *)
(***************************************************************************)
EXTENDS JsonReader

Upto(t, k)     == SubSeq(t, 1, k)
Behind(t, k)   == SubSeq(t, k + 1, Len(t))
Inside(t)      == SubSeq(t, 2, Len(t) - 1)
AllIn(t, S)    == \A k \in 1..Len(t) : t[k] \in S

IsInteger(t) == t # <<>> /\ AllIn(t, Digits) /\ (t[1] = 48 => Len(t) = 1)
IsDigits(t)  == t # <<>> /\ AllIn(t, Digits)
IsFraction(t) == t = <<>> \/ (t[1] = 46 /\ IsDigits(Tail(t)))
IsExponent(t) ==
    t = <<>> \/ /\ t[1] \in {69, 101}
                /\ \/ IsDigits(Tail(t))
                   \/ Len(t) > 1 /\ t[2] \in {43, 45} /\ IsDigits(Behind(t, 2))
IsNumber(t) ==
    LET u == IF t[1] = 45 THEN Tail(t) ELSE t IN
    \E i \in 0..Len(u) : \E j \in i..Len(u) :
        /\ IsInteger(Upto(u, i))
        /\ IsFraction(SubSeq(u, i + 1, j))
        /\ IsExponent(Behind(u, j))

IsLiteral(t) == t \in {<<116, 114, 117, 101>>, <<102, 97, 108, 115, 101>>,
                       <<110, 117, 108, 108>>}

\* One character in UTF-8: its bytes are what the character is encoded as.
IsCharacter(t) ==
    LET n == Len(t)
        c == FoldLeft(LAMBDA x, b : (x * 64) + (b % 64),
                      CASE n = 1 -> t[1] [] n = 2 -> t[1] % 32
                        [] n = 3 -> t[1] % 16 [] n = 4 -> t[1] % 8, Tail(t))
    IN  c <= 1114111 /\ c \notin 55296..57343 /\ Encode(c) = t

IsCode(t) == /\ Len(t) = 6 /\ t[1] = Backslash /\ t[2] = 117
             /\ AllIn(Behind(t, 2), Hex)
Code(t)   == FoldLeft(LAMBDA x, b : (x * 16) + HexValue(b), 0, Behind(t, 2))
IsEscape(t) ==
    \/ Len(t) = 2 /\ t[1] = Backslash /\ t[2] \in {34, 92, 47, 98, 102, 110, 114, 116}
    \/ IsCode(t) /\ Code(t) \notin 55296..57343
    \/ Len(t) = 12 /\ LET h == Upto(t, 6)  l == Behind(t, 6) IN
                      /\ IsCode(h) /\ Code(h) \in 55296..56319
                      /\ IsCode(l) /\ Code(l) \in 56320..57343
IsPart(t) ==
    \/ IsEscape(t)
    \/ Len(t) \in 1..4 /\ t[1] \notin 0..31 \cup {Quote, Backslash} /\ IsCharacter(t)

RECURSIVE IsParts(_), IsJson(_), IsElements(_), IsMembers(_)

IsParts(t) == t = <<>> \/ \E k \in 1..Len(t) : IsPart(Upto(t, k)) /\ IsParts(Behind(t, k))

IsString(t) == Len(t) > 1 /\ t[1] = Quote /\ Last(t) = Quote /\ IsParts(Inside(t))

Trimmed(t) == LET dark == {k \in 1..Len(t) : t[k] \notin Blanks}
              IN  IF dark = {} THEN <<>> ELSE SubSeq(t, Min(dark), Max(dark))

IsElements(t) ==
    \/ IsJson(t)
    \/ \E k \in 1..Len(t) : t[k] = 44 /\ IsJson(Upto(t, k - 1)) /\ IsElements(Behind(t, k))

IsMember(t) == \E k \in 1..Len(t) : /\ t[k] = 58
                                    /\ IsString(Trimmed(Upto(t, k - 1)))
                                    /\ IsJson(Behind(t, k))
IsMembers(t) ==
    \/ IsMember(t)
    \/ \E k \in 1..Len(t) : t[k] = 44 /\ IsMember(Upto(t, k - 1)) /\ IsMembers(Behind(t, k))

Wraps(t, open, close, Inner(_)) ==
    /\ Len(t) > 1 /\ t[1] = open /\ Last(t) = close
    /\ Trimmed(Inside(t)) = <<>> \/ Inner(Inside(t))

IsJson(text_) ==
    LET t == Trimmed(text_) IN
    /\ t # <<>>
    /\ \/ IsLiteral(t) \/ IsNumber(t) \/ IsString(t)
       \/ Wraps(t, 91, 93, IsElements) \/ Wraps(t, 123, 125, IsMembers)

\* The byte order mark is skipped, and what follows a byte 0 is not looked at.
Body(t) ==
    LET u == IF Len(t) > 2 /\ Upto(t, 3) = <<239, 187, 191>> THEN Behind(t, 3) ELSE t
        zeros == {k \in 1..Len(u) : u[k] = 0}
    IN  IF zeros = {} THEN u ELSE Upto(u, Min(zeros) - 1)

-------------------------------------------------------------------------------
(* Properties. *)

\* json::parse returns for the texts of the grammar and throws for all others.
\* What dump makes of a string that the lexer let through is such a text, and is
\* read as the same string.
AcceptsJson ==
    /\ Accepts(reader) <=> IsJson(Body(text))
    /\ reader.mode # "bytes" /\ reader.want # "failed" =>
        LET again == FoldLeft(Step, NewReader, Dump(reader.buffer)) IN
        /\ FoldLeft(Decode, Accept, FlattenSeq(reader.buffer)) = Accept
        /\ Accepts(again) /\ again.buffer = reader.buffer
===============================================================================
