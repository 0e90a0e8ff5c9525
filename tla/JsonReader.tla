------------------------------ MODULE JsonReader ------------------------------
(***************************************************************************)
(* json::parse as WeChatApi uses it on a response (json.hpp): the lexer    *)
(* and the parser, which pulls tokens from it, as one machine that reads a *)
(* body byte by byte.  Whether the body received so far is accepted is     *)
(* whether the machine accepts at its end.                                 *)
(*                                                                         *)
(* The values read are left out, except for strings, which are kept as     *)
(* sequences of characters, each as its bytes; that a number may be too    *)
(* large for a double is left out with them.                               *)
(***************************************************************************)
EXTENDS Utf8, SequencesExt

CONSTANT Scopes     \* texts to explore: a start, and up to `more' further bytes

Byte == 0..255

ASSUME ScopesAssumption ==
    Scopes \subseteq [start : Seq(Byte), bytes : SUBSET Byte, more : Nat]

VARIABLES
    scope,      \* the texts this behaviour explores
    text,       \* the body so far
    reader,     \* the machine: see ReaderType
    early       \* history: did more come after a body that was accepted?

jsonVars == <<scope, text, reader, early>>

Eof       == 256
Quote     == 34
Backslash == 92
Blanks    == {9, 10, 13, 32}
Digits    == 48..57
Hex       == Digits \cup 65..70 \cup 97..102

\* States of scan_number, without its prefix "scan_number_", and those in which
\* the number may end.
NumberDone  == {"zero", "any1", "decimal2", "any2"}
NumberModes == NumberDone \cup {"minus", "decimal1", "exponent", "sign"}

\* Where the lexer is inside a string, and where it knows what has to follow.
StringModes == {"string", "escape", "hex", "low", "bytes"}
FixedModes  == {"bom", "literal", "hex", "low", "bytes"}

Modes == {"start", "ready"} \cup StringModes \cup FixedModes \cup NumberModes

Wants == {"value", "first", "key1", "colon1", "key", "colon", "next", "end",
          "accepted", "failed"}

ReaderType ==
    [mode : Modes,
     rest : Seq(SUBSET Byte),           \* what the coming bytes have to be
     code : Nat, high : Nat,            \* codepoint1 so far, a high surrogate
     part : Seq(Byte),                  \* token_buffer of a string: the character
     buffer : Seq(Seq(Byte)),           \* being read, and those read before it
     states : Seq({"array", "object"}), \* the parser's stack
     want : Wants]                      \* what the parser waits for

NewReader ==
    [mode |-> "start", rest |-> <<>>, code |-> 0, high |-> 0, part |-> <<>>,
     buffer |-> <<>>, states |-> <<>>, want |-> "value"]

-------------------------------------------------------------------------------
(* The parser: sax_parse_internal takes a token. *)

Fail(r)    == [r EXCEPT !.want = "failed"]
Want(r, w) == [r EXCEPT !.mode = "ready", !.want = w]

\* A value is complete: which state it is in decides.
ValueRead(r) == Want(r, IF r.states = <<>> THEN "end" ELSE "next")
Push(r, s) == [r EXCEPT !.states = Append(@, s)]
Pop(r)     == ValueRead([r EXCEPT !.states = Front(@)])

Value(r, token) ==
    CASE token = "begin_object" -> Want(r, "key1")
      [] token = "begin_array" -> Want(r, "first")
      [] token \in {"string", "other"} -> ValueRead(r)
      [] OTHER -> Fail(r)

\* Mutant: a closing bracket closes whatever is open.
ClosesAny(r, token) == token \in {"end_array", "end_object"}

Closes(r, token) == token = IF Last(r.states) = "array" THEN "end_array" ELSE "end_object"

AfterComma(r) == IF Last(r.states) = "array" THEN "value" ELSE "key"

Take(r, token) ==
    CASE r.want = "value" -> Value(r, token)
      [] r.want = "first" -> IF token = "end_array" THEN ValueRead(r)
                             ELSE Value(Push(r, "array"), token)
      [] r.want = "key1" /\ token = "end_object" -> ValueRead(r)
      [] r.want = "key1" /\ token = "string" -> Want(r, "colon1")
      [] r.want = "key"  /\ token = "string" -> Want(r, "colon")
      [] r.want = "colon1" /\ token = "name_separator" -> Want(Push(r, "object"), "value")
      [] r.want = "colon"  /\ token = "name_separator" -> Want(r, "value")
      [] r.want = "next" /\ token = "value_separator" -> Want(r, AfterComma(r))
      [] r.want = "next" /\ Closes(r, token) -> Pop(r)
      [] r.want = "end" /\ token = "end_of_input" -> Want(r, "accepted")
      [] OTHER -> Fail(r)

-------------------------------------------------------------------------------
(* The lexer: scan and its helpers get a byte, or Eof. *)

\* What has to follow the first letter of true, false and null.
Literal ==
    [b \in {102, 110, 116} |->
        IF b = 116 THEN <<{114}, {117}, {101}>>
        ELSE IF b = 102 THEN <<{97}, {108}, {115}, {101}>>
        ELSE <<{117}, {108}, {108}>>]

Structural ==
    [b \in {44, 58, 91, 93, 123, 125} |->
        CASE b = 123 -> "begin_object" [] b = 125 -> "end_object" [] b = 91 -> "begin_array"
          [] b = 93  -> "end_array" [] b = 58  -> "name_separator" [] b = 44 -> "value_separator"]

NumberStart ==
    [b \in Digits \cup {45} |->
        CASE b = 45 -> "minus" [] b = 48 -> "zero" [] b \in 49..57 -> "any1"]

Enter(r, mode, rest) == [r EXCEPT !.mode = mode, !.rest = rest]

\* scan, once the blanks are skipped; the byte 0 ends the input like its end.
Scan(r, b) ==
    CASE b \in Blanks               -> r
      [] b \in DOMAIN Structural    -> Take(r, Structural[b])
      [] b \in DOMAIN Literal       -> Enter(r, "literal", Literal[b])
      [] b \in DOMAIN NumberStart   -> Enter(r, NumberStart[b], <<>>)
      [] b = Quote -> [Enter(r, "string", <<>>) EXCEPT !.buffer = <<>>]
      [] b \in {0, Eof}             -> Take(r, "end_of_input")
      [] OTHER                      -> Fail(r)

\* scan_number: the state a byte leads to, or none.
NumberStep(mode, b) ==
    CASE b \in Digits /\ mode = "minus" -> IF b = 48 THEN "zero" ELSE "any1"
      [] b \in Digits /\ mode = "any1" -> "any1"
      [] b \in Digits /\ mode \in {"decimal1", "decimal2"} -> "decimal2"
      [] b \in Digits /\ mode \in {"exponent", "sign", "any2"} -> "any2"
      [] b = 46 /\ mode \in {"zero", "any1"} -> "decimal1"
      [] b \in {69, 101} /\ mode \in {"zero", "any1", "decimal2"} -> "exponent"
      [] b \in {43, 45} /\ mode = "exponent" -> "sign"
      [] OTHER -> "none"

\* A byte that does not belong to the number is read again as the next token.
ScanNumber(r, b) ==
    LET mode == NumberStep(r.mode, b) IN
    CASE mode # "none" -> [r EXCEPT !.mode = mode]
      [] mode = "none" /\ r.mode \in NumberDone ->
            LET taken == Take(r, "other")
            IN  IF taken.want = "failed" THEN taken ELSE Scan(taken, b)
      [] OTHER -> Fail(r)

Cont == 128..191

\* Mutant: overlong forms of three bytes, and the surrogates, pass.
RangesLoose(b) ==
    IF b <= 223 THEN <<Cont>>
    ELSE IF b <= 239 THEN <<Cont, Cont>>
    ELSE IF b = 240 THEN <<144..191, Cont, Cont>>
    ELSE IF b = 244 THEN <<128..143, Cont, Cont>>
    ELSE <<Cont, Cont, Cont>>

\* next_byte_in_range: what has to follow the first byte of a character, C2 to F4.
Ranges(b) ==
    IF b <= 223 THEN <<Cont>>
    ELSE IF b = 224 THEN <<160..191, Cont>>
    ELSE IF b = 237 THEN <<128..159, Cont>>
    ELSE IF b <= 239 THEN <<Cont, Cont>>
    ELSE IF b = 240 THEN <<144..191, Cont, Cont>>
    ELSE IF b = 244 THEN <<128..143, Cont, Cont>>
    ELSE <<Cont, Cont, Cont>>

\* A character is complete.
Add(r, bytes) ==
    [Enter(r, "string", <<>>) EXCEPT !.buffer = Append(@, bytes), !.high = 0]

ScanString(r, b) ==
    CASE b = Quote          -> Take(r, "string")
      [] b = Backslash      -> Enter(r, "escape", <<>>)
      [] b \in 32..127 \ {Quote, Backslash} -> Add(r, <<b>>)
      [] b \in 194..244     -> [Enter(r, "bytes", Ranges(b)) EXCEPT !.part = <<b>>]
      [] OTHER              -> Fail(r)

Unescaped ==
    [b \in {Quote, 47, Backslash, 98, 102, 110, 114, 116} |->
        CASE b = 98  -> 8  [] b = 102 -> 12 [] b = 110 -> 10
          [] b = 114 -> 13 [] b = 116 -> 9  [] OTHER   -> b]

Codepoint(r) == [Enter(r, "hex", <<Hex, Hex, Hex, Hex>>) EXCEPT !.code = 0]

ScanEscape(r, b) ==
    CASE b \in DOMAIN Unescaped -> Add(r, <<Unescaped[b]>>)
      [] b = 117                -> Codepoint(r)
      [] OTHER                  -> Fail(r)

HexValue(b) == CASE b \in Digits -> b - 48
                 [] b \in 65..70 -> b - 55
                 [] b \in 97..102 -> b - 87

High == 55296..56319
Low  == 56320..57343

\* \uxxxx is complete: a high surrogate wants a low one, and only that.
ScanCodepoint(r) ==
    CASE r.high # 0 -> IF r.code \in Low
                       THEN Add(r, Encode((r.high * 1024) + r.code - 56613888))
                       ELSE Fail(r)
      [] r.high = 0 /\ r.code \in High ->
            [Enter(r, "low", <<{Backslash}, {117}>>) EXCEPT !.high = r.code]
      [] r.high = 0 /\ r.code \in Low -> Fail(r)
      [] OTHER -> Add(r, Encode(r.code))

\* The byte was the next of those it had to be.
Followed(r, b) ==
    [r EXCEPT !.rest = Tail(@),
              !.code = IF r.mode = "hex" THEN @ * 16 + HexValue(b) ELSE @,
              !.part = IF r.mode = "bytes" THEN Append(@, b) ELSE @]

\* It was the last of them.
Complete(r) ==
    CASE r.mode = "bom"     -> Enter(r, "ready", <<>>)
      [] r.mode = "literal" -> Take(r, "other")
      [] r.mode = "bytes"   -> Add(r, r.part)
      [] r.mode = "low"     -> Codepoint(r)
      [] r.mode = "hex"     -> ScanCodepoint(r)

Follows(r, b) ==
    LET s == Followed(r, b) IN IF s.rest = <<>> THEN Complete(s) ELSE s

\* What one byte does, or the end of the input.
Step(r, b) ==
    IF r.want \in {"accepted", "failed"} THEN r
    ELSE IF r.mode \in FixedModes
         THEN IF b \in Head(r.rest) THEN Follows(r, b) ELSE Fail(r)
    ELSE CASE r.mode = "start" -> IF b = 239 THEN Enter(r, "bom", <<{187}, {191}>>)
                                  ELSE Scan(Want(r, r.want), b)
           [] r.mode = "ready"  -> Scan(r, b)
           [] r.mode = "string" -> ScanString(r, b)
           [] r.mode = "escape" -> ScanEscape(r, b)
           [] r.mode \in NumberModes -> ScanNumber(r, b)

\* json::parse returns if the body ends here, and throws otherwise.
Accepts(r) == Step(r, Eof).want = "accepted"

-------------------------------------------------------------------------------
(* The serializer: dump_escaped, for a string that is UTF-8. *)

HexDigit(n) == IF n < 10 THEN 48 + n ELSE 87 + n

Short ==
    [b \in {8, 9, 10, 12, 13, Quote, Backslash} |->
        CASE b = 8  -> 98  [] b = 9  -> 116 [] b = 10 -> 110
          [] b = 12 -> 102 [] b = 13 -> 114 [] OTHER  -> b]

\* The bytes written for the bytes of one character.
Escape(t) ==
    IF Len(t) > 1 \/ (t[1] >= 32 /\ t[1] \notin DOMAIN Short) THEN t
    ELSE IF t[1] \in DOMAIN Short THEN <<Backslash, Short[t[1]]>>
    ELSE <<Backslash, 117, 48, 48, HexDigit(t[1] \div 16), HexDigit(t[1] % 16)>>

Dump(s) == <<Quote>> \o FlattenSeq([k \in 1..Len(s) |-> Escape(s[k])]) \o <<Quote>>

\* The state of decode behind the bytes of one character, from the one before.
Decoded(state, t) ==
    LET one   == Decode(state, t[1])
        two   == Decode(one, t[2])
        three == Decode(two, t[3])
    IN  CASE Len(t) = 1 -> one [] Len(t) = 2 -> two [] Len(t) = 3 -> three
          [] Len(t) = 4 -> Decode(three, t[4])

-------------------------------------------------------------------------------
JsonInit ==
    /\ scope \in Scopes
    /\ text = <<>>
    /\ reader = NewReader
    /\ early = FALSE

\* The bytes that may come: those of the start, then any of the scope's.
Coming ==
    LET k == Len(text) + 1
    IN  IF k <= Len(scope.start) THEN {scope.start[k]}
        ELSE IF k <= Len(scope.start) + scope.more THEN scope.bytes
        ELSE {}

ReadByte(b) ==
    /\ text' = Append(text, b)
    /\ reader' = Step(reader, b)
    /\ early' = (early \/ (/\ Accepts(reader) /\ reader.want # "accepted"
                           /\ b \notin Blanks \cup {0}))
    /\ UNCHANGED scope

JsonNext == \E b \in Coming : ReadByte(b)

JsonSpec == JsonInit /\ [][JsonNext]_jsonVars

-------------------------------------------------------------------------------
(* Properties. *)

\* A character of Unicode that is no surrogate.
Scalar(c) == c \in Nat /\ (c < 55296 \/ (57343 < c /\ c < 1114112))

\* The character whose bytes these are, if they are those of one.
Meant(t) ==
    CASE Len(t) = 1 -> t[1]
      [] Len(t) = 2 -> ((t[1] - 192) * 64) + (t[2] - 128)
      [] Len(t) = 3 -> ((t[1] - 224) * 4096) + ((t[2] - 128) * 64) + (t[3] - 128)
      [] Len(t) = 4 -> ((t[1] - 240) * 262144) + ((t[2] - 128) * 4096)
                       + ((t[3] - 128) * 64) + (t[4] - 128)

IsUtf8(t) == Len(t) \in 1..4 /\ Scalar(Meant(t)) /\ t = Encode(Meant(t))

\* Every string that scan_string lets through is UTF-8, whether its characters
\* came as bytes or as escapes; and decode, which dump asks, reads each of them
\* from end to end: dump never throws on what parse returned.  query dumps the
\* signature that getSignature parsed.
StringsDump ==
    \A k \in 1..Len(reader.buffer) :
        IsUtf8(reader.buffer[k]) /\ Decoded(Accept, reader.buffer[k]) = Accept

\* A body that opens with a bracket, a brace or a quote, and is cut anywhere, is
\* refused: what was accepted stays so only as long as blanks follow.
Opened == text # <<>> /\ text[1] \in {34, 91, 123}
CutRefused == early /\ Opened => ~Accepts(reader)

-------------------------------------------------------------------------------
(* The inductive invariant behind the two. *)

\* Four digits are read: each one met so far has added its four bits.
HexInv(r) ==
    LET left == Len(r.rest) IN
    /\ left \in 1..4 /\ \A k \in 1..left : r.rest[k] = Hex
    /\ left = 4 => r.code = 0
    /\ left = 3 => r.code < 16
    /\ left = 2 => r.code < 256
    /\ left = 1 => r.code < 4096

\* A lead byte and some bytes that it wants are read, the others are still wanted.
PartInv(r) ==
    LET read  == Len(r.part)
        wants == Ranges(r.part[1])
    IN  /\ read > 0 /\ r.part[1] \in 194..244
        /\ read + Len(r.rest) = Len(wants) + 1
        /\ \A k \in 2..read : r.part[k] \in wants[k - 1]
        /\ \A k \in 1..Len(r.rest) : r.rest[k] = wants[read + k - 1]

\* Where the lexer is, as long as nothing was wrong.
LexerInv(r) ==
    /\ r.mode \in FixedModes <=> r.rest # <<>>
    /\ r.mode = "hex" => HexInv(r)
    /\ r.mode = "bytes" => PartInv(r)
    /\ r.mode = "low" => r.high # 0
    /\ r.high = 0 \/ r.high \in High

\* Behind a value or a key there is something to go on with.
StackInv(r) == r.want \in {"next", "key", "colon"} => r.states # <<>>

BufferInv(r) == \A k \in 1..Len(r.buffer) : IsUtf8(r.buffer[k])

ReaderInv(r) ==
    /\ r \in ReaderType
    /\ StackInv(r)
    /\ BufferInv(r)
    /\ r.want # "failed" => LexerInv(r)

\* An opened body is read in its brackets, its quotes, or to its end.
OpenInv(r) ==
    r.want # "failed" =>
        /\ r.mode \notin {"start", "bom"}
        /\ r.want = "value" /\ r.states = <<>> => r.mode \in StringModes

\* Nothing that may come makes up for what came behind an end.
Dead(r) ==
    \/ r.want = "failed"
    \/ r.want = "end" /\ r.mode \notin {"start", "bom", "ready"}

\* The properties above hold because, besides, the parser, the lexer and the
\* strings read so far agree: what is still wanted fits what has come; an opened
\* body stays open to its end; and what came behind an end cannot be made up for.
JsonInv ==
    /\ scope \in Scopes /\ text \in Seq(Byte) /\ early \in BOOLEAN
    /\ text = <<>> => reader = NewReader /\ ~early
    /\ ReaderInv(reader)
    /\ Opened => OpenInv(reader)
    /\ early /\ Opened => Dead(reader)
    /\ StringsDump /\ CutRefused
===============================================================================
