------------------------ MODULE WeChatRequestProofs ---------------------------
(***************************************************************************)
(* The inductive invariants of a query (WeChatRequest), for every word,    *)
(* reply and number of pieces, and of the reader of its answer             *)
(* (JsonReader), for every text.                                           *)
(*                                                                         *)
(* First the table of json.hpp against the encoding, for every character   *)
(* of Unicode: its lead bytes, then its following bytes, then a word.      *)
(* Then the shape of a response, and every step of query and service.      *)
(* Then the same table read backwards, and every step of lexer and parser. *)
(***************************************************************************)
EXTENDS WeChatRequest, TcpProofs, JsonReader

-------------------------------------------------------------------------------
(* The encoding and the table, on lead bytes.                                *)

\* A following byte is one of 80 to BF,
LEMMA FollowingByte ==
  ASSUME NEW c \in Nat
  PROVE  /\ Follow(c) \in Nat /\ 128 <= Follow(c) /\ Follow(c) <= 191
         /\ Follow(c) = 128 + (c % 64)
BY DEF Follow

\* and carries the last six bits of c.
LEMMA FollowingBits ==
  ASSUME NEW c \in Nat
  PROVE  (c \div 64) * 64 + (Follow(c) % 64) = c
<1>1. Follow(c) = 128 + (c % 64)
  BY DEF Follow
<1>2. c % 64 \in Nat /\ c % 64 <= 63 /\ (c \div 64) * 64 + (c % 64) = c
  OBVIOUS
<1>3. (128 + (c % 64)) % 64 = c % 64
  BY <1>2
<1> QED BY <1>1, <1>2, <1>3

\* The bytes that a character takes.
Size(c) == Len(Encode(c))

\* The bytes of a character, by its size, and what the table should wait for and
\* have gathered behind each of them.
LEMMA OneByte ==
  ASSUME NEW c \in Nat, c < 128
  PROVE  Encode(c) = <<c>> /\ Size(c) = 1 /\ Encode(c)[1] = c
BY DEF Encode, Size

\* The same for two bytes.
LEMMA TwoBytes ==
  ASSUME NEW c \in Nat, 128 <= c, c < 2048
  PROVE  /\ Encode(c) = <<192 + c \div 64, Follow(c)>>
         /\ Size(c) = 2 /\ Len(Encode(c)) = 2
         /\ Encode(c)[1] = 192 + c \div 64
         /\ Encode(c)[2] = Follow(c)
         /\ Waiting(c, 1) = 2 /\ Gathered(c, 1) = c \div 64
<1>1. Encode(c) = <<192 + c \div 64, Follow(c)>>
  BY DEF Encode
<1>2. Len(Encode(c)) = 2 /\ Encode(c)[1] = 192 + c \div 64
  /\ Encode(c)[2] = Follow(c)
  BY <1>1
<1> HIDE DEF Encode
<1>3. Waiting(c, 1) = 2
  BY <1>2 DEF Waiting
<1>4. Gathered(c, 1) = c \div 64
  BY <1>2 DEF Gathered
<1> QED BY <1>1, <1>2, <1>3, <1>4 DEF Size

\* The same for three bytes.
LEMMA ThreeBytes ==
  ASSUME NEW c \in Nat, 2048 <= c, c < 65536
  PROVE  /\ Encode(c) = <<224 + c \div 4096, Follow(c \div 64), Follow(c)>>
         /\ Size(c) = 3 /\ Len(Encode(c)) = 3
         /\ Encode(c)[1] = 224 + c \div 4096
         /\ Encode(c)[2] = Follow(c \div 64)
         /\ Encode(c)[3] = Follow(c)
         /\ Waiting(c, 1) = IF c < 4096 THEN 4
                            ELSE IF c \div 4096 = 13 THEN 5 ELSE 3
         /\ Gathered(c, 1) = c \div 4096
         /\ Waiting(c, 2) = 2 /\ Gathered(c, 2) = c \div 64
<1>1. Encode(c) = <<224 + c \div 4096, Follow(c \div 64), Follow(c)>>
  BY DEF Encode
<1>2. Len(Encode(c)) = 3 /\ Encode(c)[1] = 224 + c \div 4096
  /\ Encode(c)[2] = Follow(c \div 64) /\ Encode(c)[3] = Follow(c)
  BY <1>1
<1>3. Waiting(c, 1) = IF c < 4096 THEN 4
                            ELSE IF c \div 4096 = 13 THEN 5 ELSE 3
  <2>1. c \div 4096 = 0 <=> c < 4096
    OBVIOUS
  <2>2. Waiting(c, 1) = IF Encode(c)[1] = 224 THEN 4
                        ELSE IF Encode(c)[1] = 237 THEN 5 ELSE 3
    BY <1>2 DEF Waiting
  <2> QED BY <2>1, <2>2, <1>2
<1>4. Gathered(c, 1) = c \div 4096
  BY <1>2 DEF Gathered
<1>5. Waiting(c, 2) = 2
  BY <1>2 DEF Waiting
<1>6. Gathered(c, 2) = c \div 64
  BY <1>2 DEF Gathered
<1> QED BY <1>1, <1>2, <1>3, <1>4, <1>5, <1>6 DEF Size

\* The same for four bytes.
LEMMA FourBytes ==
  ASSUME NEW c \in Nat, 65536 <= c, c < 1114112
  PROVE  /\ Encode(c) = <<240 + c \div 262144, Follow(c \div 4096),
                         Follow(c \div 64), Follow(c)>>
         /\ Size(c) = 4 /\ Len(Encode(c)) = 4
         /\ Encode(c)[1] = 240 + c \div 262144
         /\ Encode(c)[2] = Follow(c \div 4096)
         /\ Encode(c)[3] = Follow(c \div 64)
         /\ Encode(c)[4] = Follow(c)
         /\ Waiting(c, 1) = IF c < 262144 THEN 6
                            ELSE IF c \div 262144 = 4 THEN 8 ELSE 7
         /\ Gathered(c, 1) = c \div 262144
         /\ Waiting(c, 2) = 3 /\ Gathered(c, 2) = c \div 4096
         /\ Waiting(c, 3) = 2 /\ Gathered(c, 3) = c \div 64
<1>1. Encode(c) = <<240 + c \div 262144, Follow(c \div 4096),
                         Follow(c \div 64), Follow(c)>>
  BY DEF Encode
<1>2. /\ Len(Encode(c)) = 4 /\ Encode(c)[1] = 240 + c \div 262144
      /\ Encode(c)[2] = Follow(c \div 4096) /\ Encode(c)[3] = Follow(c \div 64)
      /\ Encode(c)[4] = Follow(c)
  BY <1>1
<1>3. Waiting(c, 1) = IF c < 262144 THEN 6
                            ELSE IF c \div 262144 = 4 THEN 8 ELSE 7
  <2>1. c \div 262144 = 0 <=> c < 262144
    OBVIOUS
  <2>2. Waiting(c, 1) = IF Encode(c)[1] = 240 THEN 6
                        ELSE IF Encode(c)[1] = 244 THEN 8 ELSE 7
    BY <1>2 DEF Waiting
  <2> QED BY <2>1, <2>2, <1>2
<1>4. Gathered(c, 1) = c \div 262144
  BY <1>2 DEF Gathered
<1>5. Waiting(c, 2) = 3 /\ Waiting(c, 3) = 2
  BY <1>2 DEF Waiting
<1>6. Gathered(c, 2) = c \div 4096 /\ Gathered(c, 3) = c \div 64
  BY <1>2 DEF Gathered
<1> QED BY <1>1, <1>2, <1>3, <1>4, <1>5, <1>6 DEF Size

\* The table (decode) behind a whole character.  A byte below 128 is one.
LEMMA LeadOne ==
  ASSUME NEW c \in Nat, c < 128, NEW old
  PROVE  Decode(Accept, c) = Accept /\ CodePoint(Accept, old, c) = c
<1>1. Type(c) = 0
  BY DEF Type
<1>2. c % 256 = c
  OBVIOUS
<1> QED BY <1>1, <1>2 DEF Decode, Lead, CodePoint, Payload, Accept

\* C2 to DF: C0 and C1 would encode what one byte does.
LEMMA LeadTwo ==
  ASSUME NEW q \in Nat, 2 <= q, q <= 31, NEW old
  PROVE  Decode(Accept, 192 + q) = 2 /\ CodePoint(Accept, old, 192 + q) = q
<1> DEFINE b == 192 + q
<1>1. Type(b) = 2
  BY DEF Type
<1>2. b % 64 = q /\ b \in Nat
  OBVIOUS
<1> HIDE DEF b
<1> QED BY <1>1, <1>2 DEF Decode, Lead, CodePoint, Payload, Accept, b

\* E0 to EF: E0 and ED restrict the next byte.
LEMMA LeadThree ==
  ASSUME NEW q \in Nat, q <= 15, NEW old
  PROVE  /\ Decode(Accept, 224 + q) =
                IF q = 0 THEN 4 ELSE IF q = 13 THEN 5 ELSE 3
         /\ CodePoint(Accept, old, 224 + q) = q
<1> DEFINE b == 224 + q
<1>1. Type(b) = IF q = 0 THEN 10 ELSE IF q = 13 THEN 4 ELSE 3
  BY DEF Type
<1>2. b % 32 = q /\ b % 16 = q /\ b \in Nat
  OBVIOUS
<1>3. q = 0 => b % 1 = q
  OBVIOUS
<1> HIDE DEF b
<1>4. /\ Decode(Accept, b) = IF q = 0 THEN 4 ELSE IF q = 13 THEN 5 ELSE 3
      /\ CodePoint(Accept, old, b) = q
  <2>1. CASE q = 0
    BY <1>1, <1>2, <1>3, <2>1 DEF Decode, Lead, CodePoint, Payload, Accept
  <2>2. CASE q = 13
    BY <1>1, <1>2, <1>3, <2>2 DEF Decode, Lead, CodePoint, Payload, Accept
  <2>3. CASE q # 0 /\ q # 13
    BY <1>1, <1>2, <1>3, <2>3 DEF Decode, Lead, CodePoint, Payload, Accept
  <2> QED BY <2>1, <2>2, <2>3
<1> QED BY <1>4 DEF b

\* F0 to F4: F0 and F4 restrict the next byte.
LEMMA LeadFour ==
  ASSUME NEW q \in Nat, q <= 4, NEW old
  PROVE  /\ Decode(Accept, 240 + q) =
                IF q = 0 THEN 6 ELSE IF q = 4 THEN 8 ELSE 7
         /\ CodePoint(Accept, old, 240 + q) = q
<1> DEFINE b == 240 + q
<1>1. Type(b) = IF q = 0 THEN 11 ELSE IF q = 4 THEN 5 ELSE 6
  BY DEF Type
<1>2. b % 1 = 0 /\ b % 4 = q % 4 /\ b % 8 = q /\ b \in Nat
  OBVIOUS
<1> HIDE DEF b
<1>4. /\ Decode(Accept, b) = IF q = 0 THEN 6 ELSE IF q = 4 THEN 8 ELSE 7
      /\ CodePoint(Accept, old, b) = q
  <2>1. CASE q = 0
    BY <1>1, <1>2, <2>1 DEF Decode, Lead, CodePoint, Payload, Accept
  <2>2. CASE q = 4
    BY <1>1, <1>2, <2>2 DEF Decode, Lead, CodePoint, Payload, Accept
  <2>3. CASE q # 0 /\ q # 4
    BY <1>1, <1>2, <2>3 DEF Decode, Lead, CodePoint, Payload, Accept
  <2> QED BY <2>1, <2>2, <2>3
<1> QED BY <1>4 DEF b

\* A following byte that stands where a character begins is none.
LEMMA FollowRejected ==
  ASSUME NEW b \in Nat, 128 <= b, b <= 191, NEW old
  PROVE  /\ Decode(Accept, b) = Reject
         /\ CodePoint(Accept, old, b) \in Nat /\ CodePoint(Accept, old, b) < 128
<1>1. Type(b) = IF b <= 143 THEN 1 ELSE IF b <= 159 THEN 9 ELSE 7
  BY DEF Type
<1>2. b % 128 \in Nat /\ b % 128 < 128 /\ b % 2 \in Nat /\ b % 2 < 128
      /\ b % 1 \in Nat /\ b % 1 < 128
  OBVIOUS
<1>3. CASE b <= 143
  BY <1>1, <1>2, <1>3 DEF Decode, Lead, CodePoint, Payload, Accept, Reject
<1>4. CASE 143 < b /\ b <= 159
  BY <1>1, <1>2, <1>4 DEF Decode, Lead, CodePoint, Payload, Accept, Reject
<1>5. CASE 159 < b
  BY <1>1, <1>2, <1>5 DEF Decode, Lead, CodePoint, Payload, Accept, Reject
<1> QED BY <1>3, <1>4, <1>5

\* What each state does with the bytes it wants.
LEMMA FollowWanted ==
  ASSUME NEW b \in Nat, 128 <= b, b <= 191
  PROVE  /\ Decode(2, b) = Accept
         /\ Decode(3, b) = 2
         /\ 160 <= b => Decode(4, b) = 2
         /\ b <= 159 => Decode(5, b) = 2
         /\ 144 <= b => Decode(6, b) = 3
         /\ Decode(7, b) = 3
         /\ b <= 143 => Decode(8, b) = 3
<1>1. Type(b) = IF b <= 143 THEN 1 ELSE IF b <= 159 THEN 9 ELSE 7
  BY DEF Type
<1>2. CASE b <= 143
  BY <1>1, <1>2 DEF Decode, Wanted, After, Accept
<1>3. CASE 143 < b /\ b <= 159
  BY <1>1, <1>3 DEF Decode, Wanted, After, Accept
<1>4. CASE 159 < b
  BY <1>1, <1>4 DEF Decode, Wanted, After, Accept
<1> QED BY <1>2, <1>3, <1>4

\* and with the bits they carry.
LEMMA FollowBits ==
  ASSUME NEW c \in Nat, NEW s \in Nat, s # 0
  PROVE  CodePoint(s, c \div 64, Follow(c)) = c
<1>1. CodePoint(s, c \div 64, Follow(c)) = (c \div 64) * 64 + (Follow(c) % 64)
  BY DEF CodePoint, Accept
<1>2. QED
  BY <1>1, FollowingBits

\* The first byte of a character: the table reads what the terminal wrote.
LEMMA FirstByteOf ==
  ASSUME NEW c \in Nat, c < 1114112, NEW old
  PROVE  LET b == Encode(c)[1]
             size == Size(c)
         IN  /\ size \in 1..4
             /\ size = 1 => /\ Decode(Accept, b) = Accept
                            /\ CodePoint(Accept, old, b) = c
             /\ size > 1 => /\ Decode(Accept, b) = Waiting(c, 1)
                            /\ CodePoint(Accept, old, b) = Gathered(c, 1)
<1>1. CASE c < 128
  <2>1. Size(c) = 1 /\ Encode(c)[1] = c
    BY <1>1, OneByte
  <2>2. Decode(Accept, c) = Accept /\ CodePoint(Accept, old, c) = c
    BY <1>1, LeadOne
  <2> QED BY <2>1, <2>2
<1>2. CASE 128 <= c /\ c < 2048
  <2> DEFINE q == c \div 64
  <2>1. q \in Nat /\ 2 <= q /\ q <= 31
    BY <1>2
  <2>2. Decode(Accept, 192 + q) = 2 /\ CodePoint(Accept, old, 192 + q) = q
    <3> HIDE DEF q
    <3> QED BY <2>1, LeadTwo
  <2>3. /\ Size(c) = 2 /\ Encode(c)[1] = 192 + q
        /\ Waiting(c, 1) = 2 /\ Gathered(c, 1) = q
    BY <1>2, TwoBytes
  <2> HIDE DEF q
  <2> QED BY <2>2, <2>3
<1>3. CASE 2048 <= c /\ c < 65536
  <2> DEFINE q == c \div 4096
  <2>1. q \in Nat /\ q <= 15 /\ (q = 0 <=> c < 4096)
    BY <1>3
  <2>2. /\ Decode(Accept, 224 + q) =
               IF q = 0 THEN 4 ELSE IF q = 13 THEN 5 ELSE 3
        /\ CodePoint(Accept, old, 224 + q) = q
    <3> HIDE DEF q
    <3> QED BY <2>1, LeadThree
  <2>3. /\ Size(c) = 3 /\ Encode(c)[1] = 224 + q
        /\ Waiting(c, 1) = IF c < 4096 THEN 4 ELSE IF q = 13 THEN 5 ELSE 3
        /\ Gathered(c, 1) = q
    BY <1>3, ThreeBytes
  <2> HIDE DEF q
  <2> QED BY <2>1, <2>2, <2>3
<1>4. CASE 65536 <= c
  <2> DEFINE q == c \div 262144
  <2>1. q \in Nat /\ q <= 4 /\ (q = 0 <=> c < 262144)
    BY <1>4
  <2>2. /\ Decode(Accept, 240 + q) = IF q = 0 THEN 6 ELSE IF q = 4 THEN 8 ELSE 7
        /\ CodePoint(Accept, old, 240 + q) = q
    <3> HIDE DEF q
    <3> QED BY <2>1, LeadFour
  <2>3. /\ Size(c) = 4 /\ Encode(c)[1] = 240 + q
        /\ Waiting(c, 1) = IF c < 262144 THEN 6 ELSE IF q = 4 THEN 8 ELSE 7
        /\ Gathered(c, 1) = q
    BY <1>4, FourBytes
  <2> HIDE DEF q
  <2> QED BY <2>1, <2>2, <2>3
<1> QED BY <1>1, <1>2, <1>3, <1>4

\* And so of every character.
LEMMA FirstByte ==
  ASSUME NEW c \in Characters, NEW old
  PROVE  LET b == Encode(c)[1]
             size == Size(c)
         IN  /\ size \in 1..4
             /\ size = 1 => /\ Decode(Accept, b) = Accept
                            /\ CodePoint(Accept, old, b) = c
             /\ size > 1 => /\ Decode(Accept, b) = Waiting(c, 1)
                            /\ CodePoint(Accept, old, b) = Gathered(c, 1)
<1>1. PICK d \in Nat : d = c /\ d < 1114112
  BY DEF Characters
<1> QED BY <1>1, FirstByteOf

-------------------------------------------------------------------------------
(* On following bytes.                                                       *)

\* n bytes of c have been read, and b is the next one.
TableSteps(c, n, b) ==
  /\ b \in Nat /\ 128 <= b /\ b <= 191
  /\ Waiting(c, n) \in 2..8
  /\ Gathered(c, n) \in Nat /\ Gathered(c, n) <= 1114111
  /\ n + 1 = Len(Encode(c)) =>
        /\ Decode(Waiting(c, n), b) = Accept
        /\ CodePoint(Waiting(c, n), Gathered(c, n), b) = c
  /\ n + 1 < Len(Encode(c)) =>
        /\ Decode(Waiting(c, n), b) = Waiting(c, n + 1)
        /\ CodePoint(Waiting(c, n), Gathered(c, n), b) = Gathered(c, n + 1)

\* The following bytes, by the size of the character.
LEMMA NextOfTwo ==
  ASSUME NEW c \in Nat, 128 <= c, c < 2048
  PROVE  TableSteps(c, 1, Encode(c)[2])
<1> DEFINE w == Waiting(c, 1)
           g == Gathered(c, 1)
<1>1. /\ Len(Encode(c)) = 2 /\ Encode(c)[2] = Follow(c)
      /\ w = 2 /\ g = c \div 64
  BY TwoBytes
<1>2. c \div 64 \in Nat /\ c \div 64 <= 1114111
  OBVIOUS
<1>3. CodePoint(2, c \div 64, Follow(c)) = c
  BY FollowBits
<1>4. Follow(c) \in Nat /\ 128 <= Follow(c) /\ Follow(c) <= 191
  BY FollowingByte
<1>5. Decode(2, Follow(c)) = Accept
  BY <1>4, FollowWanted
<1> QED BY <1>1, <1>2, <1>3, <1>4, <1>5 DEF TableSteps

\* Three bytes: the second is as E0 and ED want it, since c needs three bytes
\* and is no surrogate.
LEMMA NextOfThree ==
  ASSUME NEW c \in Nat, 2048 <= c, c < 65536, c < 55296 \/ 57343 < c
  PROVE  TableSteps(c, 1, Encode(c)[2]) /\ TableSteps(c, 2, Encode(c)[3])
<1> DEFINE d == c \div 64
           q == c \div 4096
<1>1. /\ Len(Encode(c)) = 3 /\ Encode(c)[2] = Follow(d)
      /\ Encode(c)[3] = Follow(c)
      /\ Waiting(c, 1) = IF c < 4096 THEN 4 ELSE IF q = 13 THEN 5 ELSE 3
      /\ Gathered(c, 1) = q
      /\ Waiting(c, 2) = 2 /\ Gathered(c, 2) = d
  BY ThreeBytes
<1>2. /\ d \in Nat /\ d <= 1114111 /\ q \in Nat /\ q <= 1114111
      /\ q = d \div 64
  OBVIOUS
<1>3. CodePoint(2, d, Follow(c)) = c
  BY FollowBits
<1>4. Follow(c) \in Nat /\ 128 <= Follow(c) /\ Follow(c) <= 191
  BY FollowingByte
<1>5. Decode(2, Follow(c)) = Accept
  BY <1>4, FollowWanted
<1>6. TableSteps(c, 2, Encode(c)[3])
  <2> HIDE DEF d, q
  <2> QED BY <1>1, <1>2, <1>3, <1>4, <1>5 DEF TableSteps
<1>7. /\ c < 4096 => 32 <= d % 64
      /\ q = 13 => d % 64 <= 31
  OBVIOUS
<1>8. /\ Follow(d) \in Nat /\ 128 <= Follow(d) /\ Follow(d) <= 191
      /\ Follow(d) = 128 + (d % 64)
  <2> HIDE DEF d
  <2> QED BY <1>2, FollowingByte
<1>9. d % 64 \in Nat
  OBVIOUS
<1>10. Decode(Waiting(c, 1), Follow(d)) = 2
  <2>1. CASE c < 4096
    <3>1. Decode(4, Follow(d)) = 2
      <4> HIDE DEF d, q
      <4> QED BY <1>7, <1>8, <1>9, <2>1, FollowWanted
    <3> QED BY <3>1, <1>1, <2>1
  <2>2. CASE 4096 <= c /\ q = 13
    <3>1. Decode(5, Follow(d)) = 2
      <4> HIDE DEF d, q
      <4> QED BY <1>7, <1>8, <1>9, <2>2, FollowWanted
    <3>2. Waiting(c, 1) = 5
      <4> HIDE DEF d, q
      <4> QED BY <1>1, <2>2
    <3> QED BY <3>1, <3>2
  <2>3. CASE 4096 <= c /\ q # 13
    <3>1. Decode(3, Follow(d)) = 2
      <4> HIDE DEF d, q
      <4> QED BY <1>8, FollowWanted
    <3>2. Waiting(c, 1) = 3
      <4> HIDE DEF d, q
      <4> QED BY <1>1, <2>3
    <3> QED BY <3>1, <3>2
  <2> QED BY <2>1, <2>2, <2>3
<1>11. Waiting(c, 1) \in 2..8 /\ Waiting(c, 1) \in Nat /\ Waiting(c, 1) # 0
  <2> HIDE DEF d, q
  <2> QED BY <1>1
<1>12. CodePoint(Waiting(c, 1), q, Follow(d)) = d
  <2> HIDE DEF d, q
  <2> QED BY <1>2, <1>11, FollowBits
<1>13. TableSteps(c, 1, Encode(c)[2])
  <2> HIDE DEF d, q
  <2> QED BY <1>1, <1>2, <1>8, <1>10, <1>11, <1>12 DEF TableSteps
<1> QED BY <1>6, <1>13

\* Four bytes: the second is as F0 and F4 want it.
LEMMA NextOfFour ==
  ASSUME NEW c \in Nat, 65536 <= c, c < 1114112
  PROVE  /\ TableSteps(c, 1, Encode(c)[2]) /\ TableSteps(c, 2, Encode(c)[3])
         /\ TableSteps(c, 3, Encode(c)[4])
<1> DEFINE d == c \div 64
           e == c \div 4096
           q == c \div 262144
<1>1. /\ Len(Encode(c)) = 4 /\ Encode(c)[2] = Follow(e)
      /\ Encode(c)[3] = Follow(d) /\ Encode(c)[4] = Follow(c)
      /\ Waiting(c, 1) = IF c < 262144 THEN 6 ELSE IF q = 4 THEN 8 ELSE 7
      /\ Gathered(c, 1) = q
      /\ Waiting(c, 2) = 3 /\ Gathered(c, 2) = e
      /\ Waiting(c, 3) = 2 /\ Gathered(c, 3) = d
  BY FourBytes
<1>2. /\ d \in Nat /\ d <= 1114111 /\ e \in Nat /\ e <= 1114111
      /\ q \in Nat /\ q <= 1114111
      /\ e = d \div 64 /\ q = e \div 64
  OBVIOUS
<1>3. CodePoint(2, d, Follow(c)) = c
  BY FollowBits
<1>4. Follow(c) \in Nat /\ 128 <= Follow(c) /\ Follow(c) <= 191
  BY FollowingByte
<1>5. Decode(2, Follow(c)) = Accept
  BY <1>4, FollowWanted
<1>6. TableSteps(c, 3, Encode(c)[4])
  <2> HIDE DEF d, e, q
  <2> QED BY <1>1, <1>2, <1>3, <1>4, <1>5 DEF TableSteps
<1>7. TableSteps(c, 2, Encode(c)[3])
  <2> HIDE DEF d, e, q
  <2>1. CodePoint(3, e, Follow(d)) = d
    BY <1>2, FollowBits
  <2>2. Follow(d) \in Nat /\ 128 <= Follow(d) /\ Follow(d) <= 191
    BY <1>2, FollowingByte
  <2>3. Decode(3, Follow(d)) = 2
    BY <2>2, FollowWanted
  <2> QED BY <1>1, <1>2, <2>1, <2>2, <2>3 DEF TableSteps
<1>8. /\ e % 64 \in Nat
      /\ c < 262144 => 16 <= e % 64
      /\ q = 4 => e % 64 <= 15
  OBVIOUS
<1>9. TableSteps(c, 1, Encode(c)[2])
  <2> HIDE DEF d, e, q
  <2>1. /\ Follow(e) \in Nat /\ 128 <= Follow(e) /\ Follow(e) <= 191
        /\ Follow(e) = 128 + (e % 64)
    BY <1>2, FollowingByte
  <2>2. Waiting(c, 1) \in 2..8 /\ Waiting(c, 1) \in Nat /\ Waiting(c, 1) # 0
    BY <1>1
  <2>3. CodePoint(Waiting(c, 1), q, Follow(e)) = e
    BY <1>2, <2>2, FollowBits
  <2>4. Decode(Waiting(c, 1), Follow(e)) = 3
    <3>1. CASE c < 262144
      <4>1. Decode(6, Follow(e)) = 3
        BY <1>8, <2>1, <3>1, FollowWanted
      <4> QED BY <1>1, <3>1, <4>1
    <3>2. CASE 262144 <= c /\ q = 4
      <4>1. Decode(8, Follow(e)) = 3
        BY <1>8, <2>1, <3>2, FollowWanted
      <4> QED BY <1>1, <3>2, <4>1
    <3>3. CASE 262144 <= c /\ q # 4
      <4>1. Decode(7, Follow(e)) = 3
        BY <2>1, FollowWanted
      <4> QED BY <1>1, <3>3, <4>1
    <3> QED BY <3>1, <3>2, <3>3
  <2> QED BY <1>1, <1>2, <2>1, <2>2, <2>3, <2>4 DEF TableSteps
<1> QED BY <1>6, <1>7, <1>9

\* A character takes one to four bytes.
LEMMA ByteCount ==
  ASSUME NEW c \in Nat, c < 1114112
  PROVE  Size(c) \in 1..4
<1>1. CASE c < 128
  <2>1. Size(c) = 1
    BY <1>1, OneByte
  <2> QED BY <2>1
<1>2. CASE 128 <= c /\ c < 2048
  <2>1. Size(c) = 2
    BY <1>2, TwoBytes
  <2> QED BY <2>1
<1>3. CASE 2048 <= c /\ c < 65536
  <2>1. Size(c) = 3
    BY <1>3, ThreeBytes
  <2> QED BY <2>1
<1>4. CASE 65536 <= c
  <2>1. Size(c) = 4
    BY <1>4, FourBytes
  <2> QED BY <2>1
<1> QED BY <1>1, <1>2, <1>3, <1>4

\* The same, of the characters of a word.
LEMMA SizeOfCharacter ==
  ASSUME NEW c \in Characters
  PROVE  Len(Encode(c)) \in Nat /\ 1 <= Len(Encode(c)) /\ Len(Encode(c)) <= 4
<1>1. PICK d \in Nat : d = c /\ d < 1114112
  BY DEF Characters
<1>2. PICK size \in 1..4 : size = Size(d)
  BY <1>1, ByteCount
<1>3. size = Len(Encode(c))
  BY <1>1, <1>2 DEF Size
<1>4. size \in Nat /\ 1 <= size /\ size <= 4
  OBVIOUS
<1> QED BY <1>3, <1>4

\* Every following byte of every code point, the surrogates left out,
LEMMA NextByteOf ==
  ASSUME NEW c \in Nat, c < 1114112, c < 55296 \/ 57343 < c,
         NEW n \in Nat, 1 <= n, n < Size(c)
  PROVE  TableSteps(c, n, Encode(c)[n + 1])
<1>1. CASE c < 128
  <2>1. Size(c) = 1
    BY <1>1, OneByte
  <2> QED BY <2>1
<1>2. CASE 128 <= c /\ c < 2048
  <2>1. Size(c) = 2
    BY <1>2, TwoBytes
  <2>2. n = 1
    BY <2>1
  <2>3. TableSteps(c, 1, Encode(c)[2])
    BY <1>2, NextOfTwo
  <2> QED BY <2>2, <2>3
<1>3. CASE 2048 <= c /\ c < 65536
  <2>1. Size(c) = 3
    BY <1>3, ThreeBytes
  <2>2. n = 1 \/ n = 2
    BY <2>1
  <2>3. TableSteps(c, 1, Encode(c)[2]) /\ TableSteps(c, 2, Encode(c)[3])
    BY <1>3, NextOfThree
  <2> QED BY <2>2, <2>3
<1>4. CASE 65536 <= c
  <2>1. Size(c) = 4
    BY <1>4, FourBytes
  <2>2. n = 1 \/ n = 2 \/ n = 3
    BY <2>1
  <2>3. /\ TableSteps(c, 1, Encode(c)[2]) /\ TableSteps(c, 2, Encode(c)[3])
        /\ TableSteps(c, 3, Encode(c)[4])
    BY <1>4, NextOfFour
  <2> QED BY <2>2, <2>3
<1> QED BY <1>1, <1>2, <1>3, <1>4

\* and so of every character.
LEMMA NextByte ==
  ASSUME NEW c \in Characters, NEW n \in Nat, 1 <= n, n < Len(Encode(c))
  PROVE  TableSteps(c, n, Encode(c)[n + 1])
<1>1. PICK d \in Nat : d = c /\ d < 1114112 /\ (d < 55296 \/ 57343 < d)
  BY DEF Characters
<1>2. n < Size(d)
  BY <1>1 DEF Size
<1>3. TableSteps(d, n, Encode(d)[n + 1])
  BY <1>1, <1>2, NextByteOf
<1> QED BY <1>1, <1>3

-------------------------------------------------------------------------------
(* Along a word.                                                             *)

\* A place is what it is made of, and lies within its word.
LEMMA PlaceOf ==
  ASSUME NEW w \in Seq(Characters), NEW p \in Places(w)
  PROVE  /\ p.chars \in Nat /\ p.bytes \in Nat /\ p.chars <= Len(w)
         /\ p = [chars |-> p.chars, bytes |-> p.bytes]
         /\ p.bytes > 0 => /\ p.chars < Len(w)
                           /\ p.bytes < Len(Encode(w[p.chars + 1]))
BY DEF Places

\* The places of a word are in a total order.
LEMMA PlacesOrdered ==
  ASSUME NEW w \in Seq(Characters), NEW p \in Places(w), NEW q \in Places(w)
  PROVE  /\ p = q \/ Before(p, q) \/ Before(q, p)
         /\ ~(Before(p, q) /\ Before(q, p))
         /\ ~Before(p, p)
BY PlaceOf DEF Before

\* What is not before q is behind whatever is before q.
LEMMA BeforeIsTransitive ==
  ASSUME NEW w \in Seq(Characters), NEW p \in Places(w), NEW q \in Places(w),
         NEW r \in Places(w), Before(p, q), ~Before(r, q)
  PROVE  Before(p, r)
BY PlaceOf DEF Before

\* Behind a place that is not the last there is a character, and the place
\* behind its next byte is the next place.
LEMMA NextPlace ==
  ASSUME NEW w \in Seq(Characters), NEW p \in Places(w), NEW q \in Places(w),
         Before(p, q)
  PROVE  /\ p.chars < Len(w)
         /\ w[p.chars + 1] \in Characters
         /\ p.bytes < Len(Encode(w[p.chars + 1]))
         /\ Forth(w, p) \in Places(w)
         /\ Before(p, Forth(w, p)) /\ ~Before(q, Forth(w, p))
<1> DEFINE c == w[p.chars + 1]
<1>0. p.chars \in Nat /\ p.bytes \in Nat /\ q.chars \in Nat /\ q.bytes \in Nat
  BY PlaceOf
<1>1. /\ p.chars \in Nat /\ p.bytes \in Nat /\ p.chars <= Len(w)
      /\ p.bytes > 0 => p.bytes < Len(Encode(c))
      /\ q.chars \in Nat /\ q.bytes \in Nat /\ q.chars <= Len(w)
      /\ q.bytes > 0 => /\ q.chars < Len(w)
                        /\ q.bytes < Len(Encode(w[q.chars + 1]))
  BY PlaceOf
<1>2. p.chars < Len(w)
  BY <1>1 DEF Before
<1>3. c \in Characters
  BY <1>1, <1>2
<1>4. PICK size \in Nat : size = Len(Encode(c)) /\ 1 <= size /\ size <= 4
  BY <1>3, SizeOfCharacter
<1>5. p.bytes < size
  BY <1>1, <1>4
<1>6. CASE p.bytes + 1 < size
  <2> DEFINE f == [chars |-> p.chars, bytes |-> p.bytes + 1]
  <2>1. Forth(w, p) = f
    BY <1>4, <1>6 DEF Forth
  <2>2. f \in Places(w)
    <3>1. p.bytes + 1 \in 0..3
      <4>1. p.bytes + 1 < 4
        BY <1>0, <1>4, <1>6
      <4> QED BY <1>0, <4>1
    <3>2. p.chars \in 0..Len(w)
      BY <1>1
    <3>3. f \in [chars : 0..Len(w), bytes : 0..3]
      BY <3>1, <3>2
    <3>4. f.bytes < Len(Encode(c)) /\ f.chars = p.chars
      BY <1>4, <1>6
    <3> HIDE DEF f
    <3> QED BY <1>2, <3>3, <3>4 DEF Places
  <2>3. Before(p, f) /\ ~Before(q, f)
    <3>1. f.chars = p.chars /\ f.bytes = p.bytes + 1
      OBVIOUS
    <3> HIDE DEF f
    <3>2. Before(p, f)
      BY <1>0, <3>1 DEF Before
    <3>3. ~Before(q, f)
      BY <1>0, <3>1 DEF Before
    <3> QED BY <3>2, <3>3
  <2> HIDE DEF f
  <2> QED BY <1>2, <1>3, <1>4, <1>5, <2>1, <2>2, <2>3
<1>7. CASE ~(p.bytes + 1 < size)
  <2> DEFINE f == [chars |-> p.chars + 1, bytes |-> 0]
  <2>1. Forth(w, p) = f
    BY <1>4, <1>7 DEF Forth
  <2>2. f \in Places(w)
    BY <1>1, <1>2 DEF Places
  <2>3. Before(p, f)
    BY <1>0 DEF Before
  <2>4. ~Before(q, f)
    <3>1. SUFFICES ASSUME Before(q, f) PROVE FALSE
      OBVIOUS
    <3>2. q.chars = p.chars
      BY <1>0, <3>1 DEF Before
    <3>3. p.bytes < q.bytes
      BY <1>0, <3>2 DEF Before
    <3>4. q.bytes < size
      BY <1>1, <1>4, <3>2, <3>3
    <3> QED BY <1>1, <1>7, <3>3, <3>4
  <2> HIDE DEF f
  <2> QED BY <1>2, <1>3, <1>4, <1>5, <2>1, <2>2, <2>3, <2>4
<1> QED BY <1>6, <1>7

\* The table, between two bytes of text that begins with a character: n bytes of
\* c have been read.
InStep(c, n, s, cp) ==
  /\ n = 0 => s = Accept
  /\ n > 0 => s = Waiting(c, n) /\ cp = Gathered(c, n)

\* The table reads what the terminal wrote, one byte further.
LEMMA ReadsTyped ==
  ASSUME NEW c \in Characters, NEW n \in Nat, n < Len(Encode(c)),
         NEW s, NEW cp, InStep(c, n, s, cp)
  PROVE  LET b == Encode(c)[n + 1]
             t == Decode(s, b)
             k == CodePoint(s, cp, b)
         IN  /\ t \in 0..8 /\ k \in Nat /\ k <= 1114111
             /\ n + 1 = Len(Encode(c)) => t = Accept /\ k = c
             /\ n + 1 < Len(Encode(c)) => t = Waiting(c, n + 1)
                                          /\ k = Gathered(c, n + 1)
<1> DEFINE b == Encode(c)[n + 1]
           t == Decode(s, b)
           k == CodePoint(s, cp, b)
<1>1. PICK size \in Nat : size = Len(Encode(c)) /\ 1 <= size /\ size <= 4
  BY SizeOfCharacter
<1>2. /\ n + 1 = size => t = Accept /\ k = c
      /\ n + 1 < size => t = Waiting(c, n + 1) /\ k = Gathered(c, n + 1)
  <2>1. CASE n = 0
    <3>1. s = Accept /\ b = Encode(c)[1]
      BY <2>1 DEF InStep
    <3>2. /\ size = 1 => /\ Decode(Accept, b) = Accept
                         /\ CodePoint(Accept, cp, b) = c
          /\ size > 1 => /\ Decode(Accept, b) = Waiting(c, 1)
                         /\ CodePoint(Accept, cp, b) = Gathered(c, 1)
      BY <1>1, <3>1, FirstByte DEF Size
    <3> QED BY <1>1, <2>1, <3>1, <3>2
  <2>2. CASE n > 0
    <3>1. TableSteps(c, n, b)
      BY <1>1, <2>2, NextByte
    <3>2. s = Waiting(c, n) /\ cp = Gathered(c, n)
      BY <2>2 DEF InStep
    <3> QED BY <1>1, <3>1, <3>2 DEF TableSteps
  <2> QED BY <2>1, <2>2
<1>3. c \in Nat /\ c <= 1114111
  BY DEF Characters
<1>4. CASE n + 1 = size
  BY <1>1, <1>2, <1>3, <1>4 DEF Accept
<1>5. CASE n + 1 < size
  <2>1. TableSteps(c, n + 1, Encode(c)[n + 2])
    <3> DEFINE m == n + 1
    <3>1. m \in Nat /\ 1 <= m /\ m < Len(Encode(c)) /\ m + 1 = n + 2
      BY <1>1, <1>5
    <3> HIDE DEF m
    <3>2. TableSteps(c, m, Encode(c)[m + 1])
      BY <3>1, NextByte
    <3> QED BY <3>1, <3>2 DEF m
  <2>2. /\ Waiting(c, n + 1) \in 2..8
        /\ Gathered(c, n + 1) \in Nat /\ Gathered(c, n + 1) <= 1114111
    BY <2>1 DEF TableSteps
  <2>3. t \in 0..8 /\ k \in Nat /\ k <= 1114111
    BY <1>2, <1>5, <2>2
  <2> QED BY <1>1, <1>2, <2>3
<1>6. n + 1 = size \/ n + 1 < size
  BY <1>1
<1> QED BY <1>4, <1>5, <1>6

-------------------------------------------------------------------------------
(* The units of a response.                                                  *)

\* Where the units stand in a response: size of them come before the body.
Shaped(size) ==
  /\ Response \in Seq(Units) /\ Len(Response) \in Nat
  /\ size = Len(Preamble) /\ size \in Nat /\ 2 <= size /\ size <= 3
  /\ \A k \in 1..Len(Response) :
        /\ Response[k] = "100" => k = 1 /\ size = 3
        /\ Response[k] = "status" => k = size - 1
        /\ Response[k] = "last" => reply.framing = "chunked"
  /\ reply.status # 204 /\ reply.framing # "chunked" =>
        Len(Response) = size + Pieces
  /\ reply.status # 204 /\ reply.framing = "chunked" =>
        /\ Len(Response) = size + 3 * Pieces + 1
        /\ Response[size + 3 * Pieces + 1] = "last"

\* A 100 comes first if at all, and the status stands before the headers.
LEMMA PreambleShape ==
  ASSUME reply \in ReplyType
  PROVE  /\ Preamble \in Seq(Units)
         /\ Len(Preamble) \in Nat /\ 2 <= Len(Preamble) /\ Len(Preamble) <= 3
         /\ \A k \in 1..Len(Preamble) :
                /\ Preamble[k] = "100" => k = 1 /\ Len(Preamble) = 3
                /\ Preamble[k] = "status" => k = Len(Preamble) - 1
                /\ Preamble[k] # "last"
<1>1. CASE reply.continued
  <2>1. Preamble = <<"100", "status", "headers">>
    BY <1>1 DEF Preamble
  <2> QED BY <2>1 DEF Units
<1>2. CASE ~reply.continued
  <2>1. Preamble = <<"status", "headers">>
    BY <1>2 DEF Preamble
  <2> QED BY <2>1 DEF Units
<1> QED BY <1>1, <1>2

\* A chunked body has three units for each piece, and the last chunk.
LEMMA BodyShape ==
  ASSUME reply \in ReplyType
  PROVE  /\ Body \in Seq(Units)
         /\ \A k \in 1..Len(Body) :
                /\ Body[k] \in {"piece", "cr", "lf", "last"}
                /\ Body[k] = "last" => reply.framing = "chunked"
         /\ reply.status # 204 /\ reply.framing # "chunked" =>
                Len(Body) = Pieces
         /\ reply.status # 204 /\ reply.framing = "chunked" =>
                /\ Len(Body) = 3 * Pieces + 1
                /\ Body[3 * Pieces + 1] = "last"
<1>0. Pieces \in Nat /\ Pieces # 0
  BY RequestAssumption
<1>1. CASE reply.status = 204
  <2>1. Body = <<>>
    BY <1>1 DEF Body
  <2> QED BY <1>1, <2>1
<1>2. CASE reply.status # 204 /\ reply.framing = "chunked"
  <2> DEFINE n == 3 * Pieces + 1
             u(k) == IF k > 3 * Pieces
                     THEN "last"
                     ELSE <<"piece", "cr", "lf">>[((k - 1) % 3) + 1]
  <2>1. Body = [k \in 1..n |-> u(k)]
    BY <1>2 DEF Body
  <2>2. n \in Nat
    BY <1>0
  <2>3. \A k \in 1..n : u(k) \in {"piece", "cr", "lf", "last"}
    <3> SUFFICES ASSUME NEW k \in 1..n
                 PROVE  u(k) \in {"piece", "cr", "lf", "last"}
      OBVIOUS
    <3>1. PICK r \in Nat : r = (k - 1) % 3 /\ r <= 2
      BY <2>2
    <3>2. r = 0 \/ r = 1 \/ r = 2
      BY <3>1
    <3> QED BY <3>1, <3>2
  <2>4. u(3 * Pieces + 1) = "last"
    BY <1>0
  <2> HIDE DEF u
  <2>5. Body \in Seq({"piece", "cr", "lf", "last"}) /\ Len(Body) = n
    BY <2>1, <2>2, <2>3
  <2>6. Body[n] = "last"
    BY <2>1, <2>2, <2>4, <1>0
  <2>7. Body \in Seq(Units)
    BY <2>5, SeqMonotonic DEF Units
  <2> QED BY <1>2, <2>5, <2>6, <2>7
<1>3. CASE reply.status # 204 /\ reply.framing # "chunked"
  <2>1. Body = [k \in 1..Pieces |-> "piece"]
    BY <1>3 DEF Body
  <2>2. Body \in Seq(Units) /\ Len(Body) = Pieces
    BY <1>0, <2>1 DEF Units
  <2> QED BY <1>0, <1>3, <2>1, <2>2
<1> QED BY <1>1, <1>2, <1>3

\* Every response is so shaped.
LEMMA ResponseShape ==
  ASSUME reply \in ReplyType
  PROVE  Shaped(Len(Preamble))
<1> DEFINE p == Preamble
           b == Body
           r == p \o b
<1>0. p \in Seq(Units) /\ b \in Seq(Units) /\ Response = r
  BY PreambleShape, BodyShape DEF Response
<1>1. PICK size \in Nat : size = Len(p) /\ 2 <= size /\ size <= 3
  BY PreambleShape
<1>2. PICK n \in Nat : n = Len(b)
  BY <1>0
<1>3. Pieces \in Nat
  BY RequestAssumption
<1> HIDE DEF p, b
<1>4. r \in Seq(Units) /\ Len(r) = size + n
  BY <1>0, <1>1, <1>2
<1>5. /\ \A k \in 1..size : r[k] = p[k]
      /\ \A k \in (size + 1)..(size + n) : r[k] = b[k - size]
  BY <1>0, <1>1, <1>2
<1>6. ASSUME NEW k \in 1..Len(r)
      PROVE  /\ r[k] = "100" => k = 1 /\ size = 3
             /\ r[k] = "status" => k = size - 1
             /\ r[k] = "last" => reply.framing = "chunked"
  <2>1. CASE k <= size
    <3>1. k \in 1..size
      BY <1>4, <1>6, <2>1
    <3> QED BY <1>1, <1>5, <3>1, PreambleShape DEF p
  <2>2. CASE k > size
    <3>1. r[k] = b[k - size]
      BY <1>4, <1>5, <1>6, <2>2
    <3>2. k - size \in 1..n
      BY <1>4, <1>6, <2>2
    <3>3. /\ b[k - size] \in {"piece", "cr", "lf", "last"}
          /\ b[k - size] = "last" => reply.framing = "chunked"
      BY <1>2, <3>2, BodyShape DEF b
    <3> QED BY <3>1, <3>3
  <2> QED BY <1>4, <1>6, <2>1, <2>2
<1>7. reply.status # 204 /\ reply.framing # "chunked" => Len(r) = size + Pieces
  BY <1>2, <1>4, BodyShape DEF b
<1>8. reply.status # 204 /\ reply.framing = "chunked" =>
        /\ Len(r) = size + 3 * Pieces + 1
        /\ r[size + 3 * Pieces + 1] = "last"
  <2> SUFFICES ASSUME reply.status # 204, reply.framing = "chunked"
               PROVE  Len(r) = size + 3 * Pieces + 1
                      /\ r[size + 3 * Pieces + 1] = "last"
    OBVIOUS
  <2>1. n = 3 * Pieces + 1 /\ b[3 * Pieces + 1] = "last"
    BY <1>2, BodyShape DEF b
  <2>2. r[size + n] = b[n]
    <3>1. n >= 1
      BY <1>3, <2>1
    <3>2. PICK k \in (size + 1)..(size + n) : k = size + n
      BY <3>1
    <3>3. r[k] = b[k - size]
      BY <1>5
    <3>4. k - size = n
      BY <3>2
    <3> QED BY <3>2, <3>3, <3>4
  <2> QED BY <1>3, <1>4, <2>1, <2>2
<1>9. Response = r /\ Len(Response) \in Nat /\ size = Len(Preamble)
  BY <1>0, <1>1, <1>4 DEF p
<1> HIDE DEF r
<1>10. Shaped(size)
  BY <1>1, <1>4, <1>6, <1>7, <1>8, <1>9 DEF Shaped
<1> QED BY <1>9, <1>10

-------------------------------------------------------------------------------
(* What a step leaves alone.                                                 *)

\* The types of the text, and of the rest.
TextOK ==
    /\ word \in Words
    /\ from \in Places(word) /\ upto \in Places(word) /\ i \in Places(word)
    /\ Before(from, upto) /\ ~Before(i, from) /\ ~Before(upto, i)
    /\ state \in 0..8
    /\ codepoint \in Nat /\ codepoint <= 1114111

CallOK ==
    /\ pc \in {"dump", "connect", "tls", "head", "body", "line", "headers",
               "content", "cr", "lf", "close", "parse", "done"}
    /\ conn \in Connection(Units)
    /\ reply \in Replies
    /\ told \in 0..Len(Response)
    /\ taken \in 0..2
    /\ got \in 0..Pieces
    /\ ok \in BOOLEAN
    /\ result \in {"none", "true", "false", "thrown", "killed"}

Fates == WholeOrNothing /\ FatalExplained

\* The invariant in parts, before and after a step.
LEMMA InParts ==
  IInv <=> TextOK /\ CallOK /\ DecodesTyped /\ RequestSent /\ ResponseRead
           /\ Fates
BY DEF IInv, TypeOK, TextOK, CallOK, Fates

\* The same, primed.
LEMMA InPartsNext ==
  IInv' <=> TextOK' /\ CallOK' /\ DecodesTyped' /\ RequestSent' /\ ResponseRead'
           /\ Fates'
BY DEF IInv, TypeOK, TextOK, CallOK, Fates

\* What a step leaves alone.
LEMMA TextKept ==
  ASSUME TextOK, DecodesTyped, UNCHANGED textVars,
         pc' = pc \/ (pc # "done" /\ pc' # "dump"),
         pc = "dump" /\ pc' \notin {"dump", "done"} => Uncut
  PROVE  TextOK' /\ DecodesTyped'
<1>1. /\ word' = word /\ from' = from /\ upto' = upto /\ i' = i
      /\ state' = state /\ codepoint' = codepoint
  BY DEF textVars
<1>2. TextOK'
  BY <1>1 DEF TextOK
<1>3. (Uncut' <=> Uncut) /\ (Tracks' <=> Tracks)
  BY <1>1 DEF Uncut, Whole, Tracks
<1>4. CASE pc' = pc
  BY <1>1, <1>2, <1>3, <1>4 DEF DecodesTyped
<1>5. CASE pc # "done" /\ pc' # "dump"
  <2>1. pc' \notin {"dump", "done"} => Uncut'
    BY <1>3, <1>5 DEF DecodesTyped
  <2> QED BY <1>2, <1>5, <2>1 DEF DecodesTyped
<1> QED BY <1>4, <1>5

\* The response changes only with the reply, which never does.
LEMMA ResponseKept ==
  ASSUME reply' = reply
  PROVE  Response' = Response /\ Preamble' = Preamble /\ Body' = Body
BY DEF Response, Preamble, Body

\* While query runs on, no fate is sealed.
LEMMA NoFate ==
  ASSUME ResponseRead, pc # "done", result' = result
  PROVE  Fates' /\ result' = "none"
<1>1. result' = "none"
  BY DEF ResponseRead, EndInv
<1> QED BY <1>1 DEF Fates, WholeOrNothing, FatalExplained

-------------------------------------------------------------------------------
(* dump_escaped.                                                             *)

\* The step of dump_escaped's table.
LEMMA DumpByteText ==
  ASSUME TextOK, DecodesTyped, DumpByte
  PROVE  TextOK' /\ DecodesTyped'
<1>1. word \in Seq(Characters)
  BY RequestAssumption DEF TextOK
<1>2. /\ from \in Places(word) /\ upto \in Places(word) /\ i \in Places(word)
      /\ Before(from, upto) /\ ~Before(i, from) /\ ~Before(upto, i)
      /\ i # upto
  BY DEF TextOK, DumpByte
<1> DEFINE c == word[i.chars + 1]
           n == i.bytes
           j == Forth(word, i)
           b == ByteAt(word, i)
<1>3. /\ word' = word /\ from' = from /\ upto' = upto /\ pc = "dump" /\ pc' = pc
      /\ i' = j /\ state' = Decode(state, b)
      /\ codepoint' = CodePoint(state, codepoint, b)
      /\ state # Reject
  BY DEF DumpByte
<1>4. Before(i, upto)
  BY <1>1, <1>2, PlacesOrdered
<1>5. /\ i.chars < Len(word) /\ c \in Characters /\ n < Len(Encode(c))
      /\ j \in Places(word) /\ Before(i, j) /\ ~Before(upto, j)
  BY <1>1, <1>2, <1>4, NextPlace
<1>6. /\ i.chars \in Nat /\ n \in Nat
      /\ from.chars \in Nat /\ from.bytes \in Nat
  BY <1>1, <1>2, PlaceOf
<1>7. ~Before(j, from) /\ j # from
  <2>1. i = from \/ Before(from, i)
    BY <1>1, <1>2, PlacesOrdered
  <2>2. Before(from, j)
    <3>1. ASSUME Before(from, i) PROVE Before(from, j)
      <4>1. ~Before(j, i)
        BY <1>1, <1>2, <1>5, PlacesOrdered
      <4> QED BY <1>1, <1>2, <1>5, <3>1, <4>1, BeforeIsTransitive
    <3> QED BY <1>5, <2>1, <3>1
  <2> QED BY <1>1, <1>2, <1>5, <2>2, PlacesOrdered
<1>8. b = Encode(c)[n + 1]
  BY DEF ByteAt
<1>9. PICK size \in Nat : size = Len(Encode(c)) /\ 1 <= size /\ size <= 4
  BY <1>5, SizeOfCharacter
<1>10. /\ n + 1 < size => j.chars = i.chars /\ j.bytes = n + 1
       /\ ~(n + 1 < size) => j.chars = i.chars + 1 /\ j.bytes = 0
  BY <1>9 DEF Forth
<1>11. ASSUME state' \in 0..8, codepoint' \in Nat, codepoint' <= 1114111
       PROVE  TextOK'
  <2> HIDE DEF c, n, j, b
  <2> QED BY <1>2, <1>3, <1>5, <1>7, <1>11 DEF TextOK
<1>12. ASSUME Tracks' PROVE DecodesTyped'
  <2>1. pc' = "dump" /\ i' # from'
    BY <1>3, <1>7
  <2> QED BY <1>12, <2>1 DEF DecodesTyped
<1>13. CASE ~Whole(from)
  <2>1. i = from
    BY <1>3, <1>13 DEF DecodesTyped, Tracks
  <2>2. state = Accept /\ n > 0
    BY <1>3, <1>6, <1>13, <2>1 DEF DecodesTyped, Whole
  <2>3. b \in Nat /\ 128 <= b /\ b <= 191
    <3>1. 1 <= n
      BY <1>6, <2>2
    <3>2. TableSteps(c, n, b)
      <4> HIDE DEF b, c, n
      <4> QED BY <1>5, <1>6, <1>8, <3>1, NextByte
    <3> HIDE DEF b, c, n
    <3> QED BY <3>2 DEF TableSteps
  <2>4. state' = Reject /\ codepoint' \in Nat /\ codepoint' < 128
    <3> HIDE DEF b
    <3> QED BY <1>3, <2>2, <2>3, FollowRejected
  <2>5. Tracks'
    BY <1>3, <1>13, <2>4 DEF Tracks, Whole
  <2>6. TextOK'
    BY <1>11, <2>4 DEF Reject
  <2> QED BY <1>12, <2>5, <2>6
<1>14. CASE Whole(from)
  <2>1. InStep(c, n, state, codepoint)
    <3>1. CASE i = from
      BY <1>3, <1>6, <1>14, <3>1 DEF DecodesTyped, InStep, Whole
    <3>2. CASE i # from
      <4>1. Tracks
        BY <1>3, <3>2 DEF DecodesTyped
      <4> QED BY <1>6, <1>14, <4>1 DEF Tracks, InStep, Whole
    <3> QED BY <3>1, <3>2
  <2>2. /\ state' \in 0..8 /\ codepoint' \in Nat /\ codepoint' <= 1114111
        /\ n + 1 = Len(Encode(c)) => state' = Accept /\ codepoint' = c
        /\ n + 1 < Len(Encode(c)) => state' = Waiting(c, n + 1)
                                     /\ codepoint' = Gathered(c, n + 1)
    <3> HIDE DEF c, n, b
    <3> QED BY <1>3, <1>5, <1>6, <1>8, <2>1, ReadsTyped
  <2>3. Tracks'
    <3>1. CASE n + 1 < size
      <4>1. /\ j.chars = i.chars /\ j.bytes = n + 1 /\ n + 1 # 0
            /\ state' = Waiting(c, n + 1) /\ codepoint' = Gathered(c, n + 1)
        BY <1>6, <1>9, <1>10, <2>2, <3>1
      <4> HIDE DEF n, j
      <4> QED BY <1>3, <1>14, <4>1 DEF Tracks, Whole
    <3>2. CASE ~(n + 1 < size)
      <4>1. n + 1 = Len(Encode(c))
        BY <1>5, <1>6, <1>9, <3>2
      <4>2. /\ j.chars = i.chars + 1 /\ j.bytes = 0
            /\ state' = Accept /\ codepoint' = c
        BY <1>10, <2>2, <3>2, <4>1
      <4> HIDE DEF n, j
      <4> QED BY <1>3, <1>14, <4>2 DEF Tracks, Whole
    <3> QED BY <3>1, <3>2
  <2>4. TextOK'
    BY <1>11, <2>2
  <2> QED BY <1>12, <2>3, <2>4
<1> QED BY <1>13, <1>14

\* DumpByte touches nothing but the text.
LEMMA DumpByteKeeps ==
  ASSUME IInv, DumpByte
  PROVE  IInv'
<1>1. TextOK' /\ DecodesTyped'
  BY InParts, DumpByteText
<1>2. /\ word' = word /\ from' = from /\ upto' = upto /\ pc' = pc /\ pc = "dump"
      /\ conn' = conn /\ reply' = reply /\ told' = told /\ taken' = taken
      /\ got' = got /\ ok' = ok /\ result' = result
  BY DEF DumpByte, svcVars
<1>3. /\ Response' = Response /\ Preamble' = Preamble
  BY <1>2, ResponseKept
<1>4. CallOK'
  BY <1>2, <1>3, InParts DEF CallOK
<1>5. RequestSent'
  BY <1>2, InParts DEF RequestSent, Written
<1>6. ResponseRead'
  BY <1>2, <1>3, InParts DEF ResponseRead, InboxInv, PlaceInv, EndInv, Behind
<1>7. Fates'
  BY <1>2, InParts, NoFate
<1> QED BY <1>1, <1>4, <1>5, <1>6, <1>7, InPartsNext

-------------------------------------------------------------------------------
(* Steps that neither send nor read, and the ends of query.                  *)

Connected == {"connect", "tls", "head", "body", "line", "headers", "content",
              "cr", "lf"}

\* A step of query that neither sends nor reads: on to the connection, or, once
\* connected, to its end.
LEMMA MoveKeeps ==
  ASSUME IInv, UNCHANGED <<textVars, conn, svcVars, got, result>>,
         \/ /\ pc = "dump" /\ pc' = "connect" /\ Uncut
            /\ ok' = ok
         \/ /\ pc = "connect" /\ pc' = "tls"
            /\ ok' = ok
         \/ /\ pc = "tls" /\ pc' = "head"
            /\ ok' = ok
         \/ /\ pc \in Connected /\ pc' = "close"
            /\ ok' = ok \/ (ok' = TRUE /\ reply.framing # "length")
  PROVE  IInv'
<1>1. /\ conn' = conn /\ reply' = reply /\ told' = told /\ taken' = taken
      /\ got' = got /\ result' = result
  BY DEF svcVars
<1>2. Response' = Response /\ Preamble' = Preamble
  BY <1>1, ResponseKept
<1>3. TextOK /\ CallOK /\ DecodesTyped /\ RequestSent /\ ResponseRead
  BY InParts
<1>4. TextOK' /\ DecodesTyped'
  <2>1. pc # "done" /\ pc' # "dump"
    BY DEF Connected
  <2> QED BY <1>3, <2>1, TextKept DEF Connected
<1>5. CallOK'
  <2>1. ok' \in BOOLEAN
    BY <1>3 DEF CallOK
  <2>2. pc' \in {"connect", "tls", "head", "close"}
    OBVIOUS
  <2> QED BY <1>1, <1>2, <1>3, <2>1, <2>2 DEF CallOK
<1>6. conn.s.inbox \in Seq(Units) /\ taken \in Nat /\ Len(conn.s.inbox) \in Nat
  BY <1>3, Inboxes DEF CallOK
<1>7. RequestSent'
  BY <1>1, <1>3, <1>6 DEF RequestSent, Written, Connected
<1>8. ResponseRead'
  BY <1>1, <1>2, <1>3 DEF ResponseRead, InboxInv, PlaceInv, EndInv, Behind,
     Connected
<1>9. Fates'
  BY <1>1, <1>3, NoFate DEF Connected
<1> QED BY <1>4, <1>5, <1>7, <1>8, <1>9, InPartsNext

\* The end of query: the connection is as it was, or query has closed it.
LEMMA EndKeeps ==
  ASSUME IInv, UNCHANGED <<textVars, svcVars, got, ok>>,
         pc # "done", pc' = "done",
         conn' = conn \/ conn' = Closed(conn, "c"),
         result' \in {"true", "false", "thrown", "killed"},
         Fates'
  PROVE  IInv'
<1>1. /\ reply' = reply /\ told' = told /\ taken' = taken
      /\ got' = got /\ ok' = ok
  BY DEF svcVars
<1>2. Response' = Response /\ Preamble' = Preamble
  BY <1>1, ResponseKept
<1>3. TextOK /\ CallOK /\ DecodesTyped /\ RequestSent /\ ResponseRead
  BY InParts
<1>4. TextOK' /\ DecodesTyped'
  BY <1>3, TextKept
<1>5. conn \in Connection(Units)
  BY <1>3 DEF CallOK
<1>6. /\ conn' \in Connection(Units)
      /\ conn'.s.inbox = conn.s.inbox /\ conn'.s.closed = conn.s.closed
      /\ conn'.c.peerEnd = conn.c.peerEnd /\ conn'.c.broken = conn.c.broken
  BY <1>5, ClosedByClient, FlagsWhenClosed
<1>7. CallOK'
  BY <1>1, <1>2, <1>3, <1>6 DEF CallOK
<1>8. RequestSent'
  <2>1. /\ conn.s.inbox \in Seq(Units) /\ Len(conn.s.inbox) \in Nat
        /\ taken \in Nat
    BY <1>3, Inboxes DEF CallOK
  <2>2. taken + Len(conn.s.inbox) <= 2
    BY <1>3, <2>1 DEF RequestSent, Written
  <2>3. /\ conn.c.peerEnd # "open" => conn.s.closed
        /\ conn.c.peerEnd = "rst" \/ conn.c.broken => conn.s.closed /\ taken < 2
    BY <1>3 DEF RequestSent, Written
  <2> QED BY <1>1, <1>6, <2>2, <2>3 DEF RequestSent, Written
<1>9. ResponseRead'
  BY <1>1, <1>3 DEF ResponseRead, EndInv
<1> QED BY <1>4, <1>7, <1>8, <1>9, InPartsNext

\* dump throws only over a cut text.
LEMMA ThrowExplained ==
  ASSUME IInv, DumpThrows
  PROVE  ~Uncut
<1>1. SUFFICES ASSUME Uncut PROVE FALSE
  OBVIOUS
<1>2. TextOK /\ DecodesTyped
  BY InParts
<1>3. word \in Seq(Characters) /\ i \in Places(word) /\ from \in Places(word)
      /\ upto \in Places(word) /\ Before(from, upto)
  BY <1>2, RequestAssumption DEF TextOK
<1>4. i.bytes \in Nat /\ upto.bytes \in Nat /\ i.chars \in Nat
      /\ (i.bytes > 0 => i.chars < Len(word)
                         /\ i.bytes < Len(Encode(word[i.chars + 1])))
  BY <1>3, PlaceOf
<1>5. /\ pc = "dump"
      /\ state = Reject \/ (i = upto /\ state # Accept)
  BY DEF DumpThrows
<1>6. i # from
  <2>1. from # upto
    BY <1>3, PlacesOrdered
  <2> QED BY <1>2, <1>5, <2>1 DEF DecodesTyped, Accept, Reject
<1>7. Tracks /\ Whole(from) /\ Whole(upto)
  BY <1>1, <1>2, <1>5, <1>6 DEF DecodesTyped, Uncut
<1>8. CASE Whole(i)
  BY <1>5, <1>7, <1>8 DEF Tracks, Accept, Reject
<1>9. CASE ~Whole(i)
  <2> DEFINE c == word[i.chars + 1]
  <2>1. i.bytes > 0 /\ i # upto
    BY <1>4, <1>7, <1>9 DEF Whole
  <2>2. c \in Characters /\ i.bytes < Len(Encode(c))
    BY <1>3, <1>4, <2>1
  <2>3. Waiting(c, i.bytes) \in 2..8
    <3> HIDE DEF c
    <3>1. 1 <= i.bytes
      BY <1>4, <2>1
    <3>2. TableSteps(c, i.bytes, Encode(c)[i.bytes + 1])
      BY <1>4, <2>2, <3>1, NextByte
    <3> QED BY <3>2 DEF TableSteps
  <2>4. state = Waiting(c, i.bytes)
    BY <1>7, <1>9 DEF Tracks
  <2> HIDE DEF c
  <2> QED BY <1>5, <2>1, <2>3, <2>4 DEF Reject
<1> QED BY <1>8, <1>9

-------------------------------------------------------------------------------
(* Writing the request.                                                      *)

\* What one unit changes in a connection, sent by query
LEMMA UnitSentByQuery ==
  ASSUME NEW k \in Connection(Units), NEW u \in Units
  PROVE  LET d == Sent(k, "c", <<u>>) IN
         /\ d \in Connection(Units)
         /\ d.c.inbox = k.c.inbox
         /\ d.c.peerEnd = k.c.peerEnd /\ d.s.peerEnd = k.s.peerEnd
         /\ d.s.inbox = k.s.inbox \/ d.s.inbox = k.s.inbox \o <<u>>
         /\ d.s.closed = k.s.closed
         /\ d.c.broken => k.c.broken \/ k.c.peerEnd = "fin"
<1> DEFINE q == <<u>>
<1>1. q \in Seq(Units)
  OBVIOUS
<1> HIDE DEF q
<1>2. LET d == Sent(k, "c", q) IN
      /\ d \in Connection(Units)
      /\ d.c.inbox = k.c.inbox
      /\ d.c.peerEnd = k.c.peerEnd /\ d.s.peerEnd = k.s.peerEnd
      /\ d.s.inbox = k.s.inbox \/ d.s.inbox = k.s.inbox \o q
  BY <1>1, SentByClient
<1>3. LET d == Sent(k, "c", q) IN
      /\ d.s.closed = k.s.closed
      /\ d.c.broken => k.c.broken \/ k.c.peerEnd = "fin"
  BY <1>1, FlagsWhenClientSends
<1> QED BY <1>2, <1>3 DEF q

\* and by the service.
LEMMA UnitSentByService ==
  ASSUME NEW k \in Connection(Units), NEW u \in Units
  PROVE  LET d == Sent(k, "s", <<u>>) IN
         /\ d \in Connection(Units)
         /\ d.s.inbox = k.s.inbox
         /\ d.c.peerEnd = k.c.peerEnd /\ d.s.peerEnd = k.s.peerEnd
         /\ d.c.broken = k.c.broken
         /\ k.s.peerEnd = "open" => d.c.inbox = k.c.inbox \o <<u>>
         /\ d.s.closed = k.s.closed
<1> DEFINE q == <<u>>
<1>1. q \in Seq(Units)
  OBVIOUS
<1> HIDE DEF q
<1>2. LET d == Sent(k, "s", q) IN
      /\ d \in Connection(Units)
      /\ d.s.inbox = k.s.inbox
      /\ d.c.peerEnd = k.c.peerEnd /\ d.s.peerEnd = k.s.peerEnd
      /\ d.c.broken = k.c.broken
      /\ k.s.peerEnd = "open" => d.c.inbox = k.c.inbox \o q
  BY <1>1, SentByServer
<1>3. Sent(k, "s", q).s.closed = k.s.closed
  BY <1>1, FlagsWhenServerSends
<1> QED BY <1>2, <1>3 DEF q

\* SIGPIPE, in a write or the last SSL_shutdown: the service is gone, and with
\* it what it had not read.
LEMMA KilledKeeps ==
  ASSUME IInv, UNCHANGED <<textVars, svcVars, got, ok>>,
         pc # "done", "killed" \in SendResults(conn.c),
         conn' = Closed(conn, "c"), Finishes("killed")
  PROVE  IInv'
<1>1. conn \in Connection(Units) /\ RequestSent
  BY InParts DEF CallOK
<1>2. conn.c.peerEnd = "rst" \/ conn.c.broken
  BY <1>1, Inboxes, SendFailsWhenBroken
<1>3. conn.s.closed /\ taken < 2
  BY <1>1, <1>2 DEF RequestSent, Written
<1>4. conn'.s.closed = conn.s.closed
  BY <1>1, FlagsWhenClosed
<1>5. Fates'
  BY <1>3, <1>4 DEF Fates, WholeOrNothing, FatalExplained, Finishes, svcVars
<1> QED BY <1>5, EndKeeps DEF Finishes

\* A write puts its unit into the server's inbox, is lost, fails or kills.
LEMMA WriteKeeps ==
  ASSUME IInv, NEW unit \in {"head", "body"}, NEW next,
         unit = "head" => next = "body", unit = "body" => next = "line",
         Write(unit, next)
  PROVE  IInv'
<1>1. /\ pc = unit
      /\ word' = word /\ reply' = reply /\ told' = told /\ taken' = taken
      /\ got' = got /\ ok' = ok /\ UNCHANGED textVars
      /\ UNCHANGED <<textVars, svcVars, got, ok>>
  BY DEF Write, textVars, svcVars
<1>2. Response' = Response /\ Preamble' = Preamble
  BY <1>1, ResponseKept
<1>3. TextOK /\ CallOK /\ DecodesTyped /\ RequestSent /\ ResponseRead
  BY InParts
<1>4. PICK k \in Connection(Units) : k = conn
  BY <1>3 DEF CallOK
<1>5. /\ k.s.inbox \in Seq(Units) /\ k.c.inbox \in Seq(Units)
      /\ k.c.peerEnd \in Ends
  BY <1>4, Inboxes
<1>6. PICK m \in Nat : m = Len(k.s.inbox)
  BY <1>5
<1>7. /\ taken \in Nat
      /\ taken + m <= (IF unit = "head" THEN 0 ELSE 1)
      /\ k.c.peerEnd # "open" => k.s.closed
      /\ k.c.peerEnd = "rst" \/ k.c.broken => k.s.closed /\ taken < 2
      /\ k.s.peerEnd = "open"
  BY <1>1, <1>3, <1>4, <1>6 DEF RequestSent, Written, CallOK
<1>8. PICK r \in SendResults(conn.c) :
        \/ /\ r = "sent"
           /\ conn' = Sent(conn, "c", <<unit>>)
           /\ pc' = next
           /\ UNCHANGED result
        \/ /\ r = "error"
           /\ conn' = Errored(conn, "c")
           /\ pc' = "close"
           /\ UNCHANGED result
        \/ r = "killed" /\ conn' = Closed(conn, "c") /\ Finishes("killed")
  BY DEF Write
<1>9. CASE r = "killed" /\ conn' = Closed(conn, "c") /\ Finishes("killed")
  BY <1>1, <1>8, <1>9, KilledKeeps
<1>10. ASSUME result' = result, pc' = next \/ pc' = "close",
              conn' \in Connection(Units),
              conn'.c.inbox = k.c.inbox,
              RequestSent'
       PROVE  IInv'
  <2>1. pc \notin {"dump", "done"} /\ pc' \in {"body", "line", "close"}
    BY <1>1, <1>10
  <2>2. TextOK' /\ DecodesTyped'
    BY <1>1, <1>3, <2>1, TextKept
  <2>3. CallOK'
    BY <1>1, <1>2, <1>3, <1>10, <2>1 DEF CallOK
  <2>4. ResponseRead'
    <3>1. Shaped(Len(Preamble))
      BY <1>3, RequestAssumption, ResponseShape DEF CallOK
    <3>2. 2 <= Len(Preamble) /\ Len(Preamble) \in Nat
      BY <3>1 DEF Shaped
    <3>3. ~ok /\ InboxInv /\ Behind = 0 /\ got = 0
      BY <1>1, <1>3 DEF ResponseRead, PlaceInv, EndInv
    <3>4. result' = "none"
      BY <1>1, <1>3, <1>10 DEF ResponseRead, EndInv
    <3>5. Behind' = Behind /\ InboxInv'
      BY <1>1, <1>2, <1>4, <1>10, <3>3 DEF InboxInv, Behind
    <3>6. PlaceInv'
      BY <1>1, <1>2, <2>1, <3>2, <3>3, <3>5 DEF PlaceInv
    <3>7. EndInv'
      BY <1>1, <2>1, <3>3, <3>4 DEF EndInv
    <3> QED BY <1>1, <3>3, <3>5, <3>6, <3>7 DEF ResponseRead
  <2>5. Fates'
    BY <1>3, <1>10, <2>1, NoFate
  <2> QED BY <1>10, <2>2, <2>3, <2>4, <2>5, InPartsNext
<1>11. CASE conn' = Sent(conn, "c", <<unit>>) /\ pc' = next /\ UNCHANGED result
  <2> DEFINE q == <<unit>>
           d == Sent(k, "c", q)
  <2>1. q \in Seq(Units) /\ Len(q) = 1
    BY DEF Units
  <2>2. unit \in Units
    BY DEF Units
  <2>3. /\ d \in Connection(Units)
        /\ d.c.inbox = k.c.inbox
        /\ d.c.peerEnd = k.c.peerEnd /\ d.s.peerEnd = k.s.peerEnd
        /\ d.s.inbox = k.s.inbox \/ d.s.inbox = k.s.inbox \o q
        /\ d.s.closed = k.s.closed
        /\ d.c.broken => k.c.broken \/ k.c.peerEnd = "fin"
    BY <2>2, UnitSentByQuery
  <2>4. conn' = d
    BY <1>4, <1>11
  <2> HIDE DEF d, q
  <2>5. PICK o \in Nat : o = Len(conn'.s.inbox) /\ o <= m + 1
    <3>1. CASE conn'.s.inbox = k.s.inbox
      BY <1>6, <3>1
    <3>2. CASE conn'.s.inbox = k.s.inbox \o q
      <4>1. Len(k.s.inbox \o q) = Len(k.s.inbox) + Len(q)
        BY <1>5, <2>1, ConcatProperties
      <4> QED BY <1>6, <2>1, <3>2, <4>1
    <3> QED BY <2>3, <2>4, <3>1, <3>2
  <2>6. RequestSent'
    <3>1. taken' + Len(conn'.s.inbox) <= (IF unit = "head" THEN 1 ELSE 2)
      BY <1>1, <1>7, <2>5
    <3>2. \/ unit = "head" /\ pc' = "body"
          \/ unit = "body" /\ pc' = "line"
      BY <1>11
    <3>3. conn'.c.peerEnd # "open" => conn'.s.closed
      BY <1>7, <2>3, <2>4
    <3>4. conn'.c.peerEnd = "rst" \/ conn'.c.broken
             => conn'.s.closed /\ taken' < 2
      BY <1>1, <1>7, <2>3, <2>4
    <3> QED BY <1>7, <2>3, <2>4, <3>1, <3>2, <3>3, <3>4 DEF RequestSent, Written
  <2> QED BY <1>10, <1>11, <2>3, <2>4, <2>6
<1>12. CASE r = "error" /\ conn' = Errored(conn, "c") /\ pc' = "close"
            /\ UNCHANGED result
  <2>1. conn' = Errored(k, "c")
    BY <1>4, <1>12
  <2>2. /\ conn' \in Connection(Units) /\ conn'.s = k.s
        /\ conn'.c.inbox = k.c.inbox /\ conn'.c.peerEnd = k.c.peerEnd
    BY <2>1, ErroredAtClient
  <2>3. k.c.peerEnd = "rst" \/ k.c.broken
    BY <1>4, <1>5, <1>8, <1>12, SendFailsWhenBroken
  <2>4. RequestSent'
    BY <1>1, <1>6, <1>7, <1>12, <2>2, <2>3 DEF RequestSent, Written
  <2> QED BY <1>10, <1>12, <2>2, <2>4
<1> QED BY <1>8, <1>9, <1>11, <1>12

-------------------------------------------------------------------------------
(* Reading the response.                                                     *)

\* query has read the unit: it stood at this place of the response, and what is
\* left in the socket follows it.
UnitTaken(unit) ==
  /\ conn' \in Connection(Units) /\ conn'.s = conn.s
  /\ conn'.c.peerEnd = conn.c.peerEnd /\ conn'.c.broken = conn.c.broken
  /\ Behind \in Nat /\ Behind < Len(Response)
  /\ Response[Behind + 1] = unit
  /\ told - Len(conn'.c.inbox) = Behind + 1
  /\ \A k \in 1..Len(conn'.c.inbox) :
        conn'.c.inbox[k] = Response[Behind + 1 + k]

\* A read takes the next unit of the response.
LEMMA UnitRead ==
  ASSUME CallOK, InboxInv, NEW unit, Reads(unit)
  PROVE  UnitTaken(unit)
<1>1. PICK k \in Connection(Units) : k = conn
  BY DEF CallOK
<1>2. k.c.inbox \in Seq(Units)
  BY Inboxes
<1>3. k.c.inbox # <<>> /\ Head(k.c.inbox) = unit /\ conn' = Read(k, "c", 1)
  BY <1>1 DEF Reads
<1>4. PICK n \in Nat : n = Len(k.c.inbox) /\ n >= 1
  BY <1>2, <1>3
<1>5. k.c.inbox[1] = unit
  BY <1>2, <1>3
<1> DEFINE q == conn'.c.inbox
<1>6. 1 \in Readable(k.c)
  BY <1>4 DEF Readable
<1>7. /\ conn' \in Connection(Units) /\ conn'.s = k.s
      /\ conn'.c.peerEnd = k.c.peerEnd /\ conn'.c.broken = k.c.broken
  BY <1>3, <1>6, ReadByClient
<1>8. q = SubSeq(k.c.inbox, 2, n)
  BY <1>3, <1>4 DEF Read, Connection, Side
<1>9. Len(q) = n - 1 /\ \A j \in 1..(n - 1) : q[j] = k.c.inbox[j + 1]
  BY <1>2, <1>4, <1>8
<1>10. /\ told \in Nat /\ Len(Response) \in Nat /\ told <= Len(Response)
  <2>1. Shaped(Len(Preamble))
    BY RequestAssumption, ResponseShape DEF CallOK
  <2> QED BY <2>1 DEF CallOK, Shaped
<1>11. PICK b \in Nat : b = Behind /\ b = told - n
  <2>1. Behind = told - n
    BY <1>1, <1>4 DEF Behind
  <2>2. Behind >= 0
    BY DEF InboxInv
  <2>3. told - n \in Nat
    BY <1>4, <1>10, <2>1, <2>2
  <2> QED BY <2>1, <2>3
<1>12. \A j \in 1..n : k.c.inbox[j] = Response[b + j]
  BY <1>1, <1>4, <1>11 DEF InboxInv
<1>13. Response[b + 1] = unit
  BY <1>4, <1>5, <1>12
<1>14. told - Len(q) = b + 1 /\ b < Len(Response)
  BY <1>4, <1>9, <1>10, <1>11
<1>15. \A j \in 1..Len(q) : q[j] = Response[b + 1 + j]
  <2> SUFFICES ASSUME NEW j \in 1..Len(q) PROVE q[j] = Response[b + 1 + j]
    OBVIOUS
  <2>1. j \in 1..(n - 1) /\ j + 1 \in 1..n
    BY <1>4, <1>9
  <2>2. q[j] = k.c.inbox[j + 1] /\ k.c.inbox[j + 1] = Response[b + (j + 1)]
    BY <1>9, <1>12, <2>1
  <2>3. b + (j + 1) = b + 1 + j
    BY <2>1
  <2> QED BY <2>2, <2>3
<1> HIDE DEF q
<1>16. /\ Behind \in Nat /\ Behind < Len(Response)
       /\ Response[Behind + 1] = unit
       /\ told - Len(q) = Behind + 1
       /\ \A j \in 1..Len(q) : q[j] = Response[Behind + 1 + j]
  BY <1>11, <1>13, <1>14, <1>15
<1> QED BY <1>1, <1>7, <1>16 DEF UnitTaken, q

\* query has read a unit, and stays connected or is done with the response.
LEMMA ReadKeeps ==
  ASSUME IInv, Here, pc \in Reading, NEW unit, UnitTaken(unit),
         pc' \in Reading \cup {"close"}, got' \in 0..Pieces, ok' \in BOOLEAN,
         pc' \in Reading => ~ok' /\ PlaceInv',
         pc' \in {"line", "headers"} => got' = 0,
         ok' => \/ reply.status = 204
                \/ reply.framing = "length" => got' = Pieces
  PROVE  IInv'
<1>1. /\ reply' = reply /\ told' = told /\ taken' = taken /\ result' = result
      /\ UNCHANGED textVars
  BY DEF Here, svcVars
<1>2. Response' = Response /\ Preamble' = Preamble
  BY <1>1, ResponseKept
<1>3. TextOK /\ CallOK /\ DecodesTyped /\ RequestSent /\ ResponseRead
  BY InParts
<1>4. /\ conn' \in Connection(Units) /\ conn'.s = conn.s
      /\ conn'.c.peerEnd = conn.c.peerEnd /\ conn'.c.broken = conn.c.broken
  BY DEF UnitTaken
<1>5. /\ pc \in {"line", "headers", "content", "cr", "lf"}
      /\ pc' \in {"line", "headers", "content", "cr", "lf", "close"}
  BY DEF Reading
<1>6. TextOK' /\ DecodesTyped'
  BY <1>1, <1>3, <1>5, TextKept
<1>7. CallOK'
  BY <1>1, <1>2, <1>3, <1>4, <1>5 DEF CallOK
<1>8. RequestSent'
  BY <1>1, <1>3, <1>4, <1>5 DEF RequestSent, Written
<1>9. InboxInv' /\ Behind' = Behind + 1
  <2> DEFINE b == Behind
  <2>1. Behind' = b + 1
    BY <1>1 DEF UnitTaken, Behind
  <2>2. b + 1 >= 0
    BY DEF UnitTaken
  <2>3. \A k \in 1..Len(conn'.c.inbox) :
            conn'.c.inbox[k] = Response[b + 1 + k]
    BY DEF UnitTaken
  <2> HIDE DEF b
  <2>4. InboxInv'
    BY <1>2, <2>1, <2>2, <2>3 DEF InboxInv
  <2> QED BY <2>1, <2>4 DEF b
<1>10. EndInv'
  <2>1. result' = "none"
    BY <1>1, <1>3, <1>5 DEF ResponseRead, EndInv
  <2> QED BY <1>1, <1>5, <2>1 DEF EndInv
<1>11. ResponseRead'
  BY <1>5, <1>9, <1>10 DEF ResponseRead, Reading
<1>12. Fates'
  BY <1>1, <1>3, <1>5, NoFate
<1> QED BY <1>6, <1>7, <1>8, <1>11, <1>12, InPartsNext

\* A 100 is the first unit, and the status comes before the headers.
LEMMA ResponseLineKeeps ==
  ASSUME IInv, ReadResponseLine
  PROVE  IInv'
<1>1. /\ pc = "line" /\ got' = got /\ ok' = ok /\ Here
      /\ reply' = reply /\ told' = told
  BY DEF ReadResponseLine, Here, svcVars
<1>2. CallOK /\ InboxInv /\ PlaceInv /\ ~ok /\ got = 0
  BY <1>1, InParts DEF ResponseRead, EndInv
<1>3. PICK size \in Nat : size = Len(Preamble) /\ Shaped(size)
  <2>1. Shaped(Len(Preamble))
    BY <1>2, RequestAssumption, ResponseShape DEF CallOK
  <2> QED BY <2>1 DEF Shaped
<1>4. Preamble' = Preamble
  BY <1>1, ResponseKept
<1>5. PICK unit \in {"100", "status"} :
        Reads(unit) /\ pc' = (IF unit = "100" THEN "line" ELSE "headers")
  BY <1>1 DEF ReadResponseLine
<1>6. UnitTaken(unit)
  BY <1>2, <1>5, UnitRead
<1>7. PICK b \in Nat : b = Behind /\ b < Len(Response) /\ Response[b + 1] = unit
                       /\ Behind' = b + 1
  BY <1>1, <1>6 DEF UnitTaken, Behind
<1>8. /\ unit = "100" => b = 0 /\ size = 3
      /\ unit = "status" => b + 1 = size - 1
  <2>1. b + 1 \in 1..Len(Response)
    BY <1>3, <1>7 DEF Shaped
  <2> QED BY <1>3, <1>7, <2>1 DEF Shaped
<1>9. PlaceInv'
  <2>1. CASE unit = "100"
    <3>1. pc' = "line"
      BY <1>5, <2>1
    <3>2. Behind' = 1 /\ size = 3
      BY <1>7, <1>8, <2>1
    <3>3. Len(Preamble)' = 3
      BY <1>3, <1>4, <3>2
    <3> QED BY <3>1, <3>2, <3>3 DEF PlaceInv
  <2>2. CASE unit = "status"
    <3>1. pc' = "headers" /\ Behind' = Len(Preamble)' - 1
      BY <1>3, <1>4, <1>5, <1>7, <1>8, <2>2
    <3> QED BY <3>1 DEF PlaceInv
  <2> QED BY <2>1, <2>2
<1>10. pc' \in Reading /\ pc \in Reading
  BY <1>1, <1>5 DEF Reading
<1>11. got' \in 0..Pieces /\ ok' \in BOOLEAN
  BY <1>1, <1>2 DEF CallOK
<1> QED BY <1>1, <1>2, <1>6, <1>9, <1>10, <1>11, ReadKeeps

\* Behind the headers the body begins, unless the status is 204.
LEMMA HeadersKeep ==
  ASSUME IInv, ReadHeaders
  PROVE  IInv'
<1>1. /\ pc = "headers" /\ got' = got /\ Here
      /\ ok' = (reply.status = 204)
      /\ pc' = IF ok' THEN "close" ELSE "content"
      /\ reply' = reply /\ told' = told
  BY DEF ReadHeaders, Here, svcVars
<1>2. CallOK /\ InboxInv /\ PlaceInv /\ ~ok /\ got = 0
  BY <1>1, InParts DEF ResponseRead, EndInv
<1>3. PICK size \in Nat : size = Len(Preamble) /\ Shaped(size)
  <2>1. Shaped(Len(Preamble))
    BY <1>2, RequestAssumption, ResponseShape DEF CallOK
  <2> QED BY <2>1 DEF Shaped
<1>4. Preamble' = Preamble
  BY <1>1, ResponseKept
<1>5. UnitTaken("headers")
  BY <1>2, UnitRead DEF ReadHeaders
<1>6. Behind' = Behind + 1 /\ Behind = size - 1
  BY <1>1, <1>2, <1>3, <1>5 DEF UnitTaken, Behind, PlaceInv
<1>7. ok' \in BOOLEAN /\ (ok' => reply.status = 204)
  BY <1>1
<1>8. /\ pc' \in {"content", "close"}
      /\ pc' = "content" => ~ok' /\ reply.status # 204
  BY <1>1
<1>9. pc' = "content" => PlaceInv'
  <2> SUFFICES ASSUME pc' = "content" PROVE PlaceInv'
    OBVIOUS
  <2>1. Behind' = size /\ Len(Preamble)' = size /\ got' = 0
    BY <1>1, <1>2, <1>3, <1>4, <1>6
  <2>2. Behind' = Len(Preamble)' + 3 * got' /\ Behind' = Len(Preamble)' + got'
    BY <2>1
  <2> QED BY <1>1, <1>8, <2>2 DEF PlaceInv
<1>10. pc \in Reading /\ pc' \in Reading \cup {"close"}
       /\ (pc' \in Reading => pc' = "content")
  BY <1>1, <1>8 DEF Reading
<1>11. got' \in 0..Pieces
  BY <1>1, <1>2 DEF CallOK
<1> QED BY <1>1, <1>2, <1>5, <1>7, <1>8, <1>9, <1>10, <1>11, ReadKeeps

\* The CR and LF behind a piece.
LEMMA ChunkEndKeeps ==
  ASSUME IInv, ReadChunkEnd
  PROVE  IInv'
<1>1. /\ got' = got /\ ok' = ok /\ Here
      /\ reply' = reply /\ told' = told
  BY DEF ReadChunkEnd, Here, svcVars
<1>2. PICK unit \in {"cr", "lf"} :
        /\ Reads(unit) /\ pc = unit
        /\ pc' = (IF unit = "cr" THEN "lf" ELSE "content")
  BY DEF ReadChunkEnd
<1>3. CallOK /\ InboxInv /\ PlaceInv /\ ~ok
  BY <1>2, InParts DEF ResponseRead, EndInv
<1>4. PICK size \in Nat : size = Len(Preamble) /\ Shaped(size)
  <2>1. Shaped(Len(Preamble))
    BY <1>3, RequestAssumption, ResponseShape DEF CallOK
  <2> QED BY <2>1 DEF Shaped
<1>5. Preamble' = Preamble
  BY <1>1, ResponseKept
<1>6. UnitTaken(unit)
  BY <1>2, <1>3, UnitRead
<1>7. Behind' = Behind + 1
  BY <1>1, <1>6 DEF UnitTaken, Behind
<1>8. /\ reply.framing = "chunked" /\ reply.status # 204
      /\ Behind = size + 3 * got - (IF unit = "cr" THEN 2 ELSE 1)
  BY <1>2, <1>3, <1>4 DEF PlaceInv
<1>9. got \in Nat
  BY <1>3, RequestAssumption DEF CallOK
<1>10. PlaceInv'
  <2>1. CASE unit = "cr"
    <3>1. pc' = "lf" /\ Behind' = Len(Preamble)' + 3 * got' - 1
      BY <1>1, <1>2, <1>4, <1>5, <1>7, <1>8, <1>9, <2>1
    <3> QED BY <1>1, <1>8, <3>1 DEF PlaceInv
  <2>2. CASE unit = "lf"
    <3>1. pc' = "content" /\ Behind' = Len(Preamble)' + 3 * got'
      BY <1>1, <1>2, <1>4, <1>5, <1>7, <1>8, <1>9, <2>2
    <3> QED BY <1>1, <1>8, <3>1 DEF PlaceInv
  <2> QED BY <2>1, <2>2
<1>11. pc \in Reading /\ pc' \in Reading /\ pc' \notin {"line", "headers"}
  BY <1>2 DEF Reading
<1>12. got' \in 0..Pieces /\ ok' \in BOOLEAN
  BY <1>1, <1>3 DEF CallOK
<1> QED BY <1>1, <1>3, <1>6, <1>10, <1>11, <1>12, ReadKeeps

\* A piece of the body, which is not one more than there are, or its last chunk.
LEMMA ContentKeeps ==
  ASSUME IInv, ReadContent
  PROVE  IInv'
<1>1. /\ pc = "content" /\ Here /\ reply' = reply /\ told' = told
      /\ pc' = CASE ok' -> "close"
                 [] ~ok' /\ reply.framing = "chunked" -> "cr"
                 [] OTHER -> pc
  BY DEF ReadContent, Here, svcVars
<1>2. CallOK /\ InboxInv /\ PlaceInv /\ ~ok
  BY <1>1, InParts DEF ResponseRead, EndInv
<1>3. PICK size \in Nat : size = Len(Preamble) /\ Shaped(size)
  <2>1. Shaped(Len(Preamble))
    BY <1>2, RequestAssumption, ResponseShape DEF CallOK
  <2> QED BY <2>1 DEF Shaped
<1>4. Preamble' = Preamble
  BY <1>1, ResponseKept
<1>5. /\ reply.status # 204
      /\ Behind = size + (IF reply.framing = "chunked" THEN 3 * got ELSE got)
  BY <1>1, <1>2, <1>3 DEF PlaceInv
<1>6. got \in Nat /\ Pieces \in Nat /\ got <= Pieces
  BY <1>2, RequestAssumption DEF CallOK
<1>7. pc \in Reading /\ pc' \in {"close", "cr", "content"}
      /\ (ok' => pc' = "close")
      /\ (~ok' => pc' = IF reply.framing = "chunked" THEN "cr" ELSE "content")
  BY <1>1 DEF Reading
<1>8. CASE Reads("piece") /\ got' = got + 1
           /\ ok' = (reply.framing = "length" /\ got' = Pieces)
  <2>1. UnitTaken("piece")
    BY <1>2, <1>8, UnitRead
  <2>2. PICK b \in Nat : b = Behind /\ b < Len(Response)
                         /\ Response[b + 1] = "piece" /\ Behind' = b + 1
    BY <1>1, <2>1 DEF UnitTaken, Behind
  <2>3. got < Pieces
    <3>1. CASE reply.framing = "chunked"
      <4>1. Len(Response) = size + 3 * Pieces + 1
            /\ Response[size + 3 * Pieces + 1] = "last"
        BY <1>3, <1>5, <3>1 DEF Shaped
      <4>2. b = size + 3 * got
        BY <1>5, <2>2, <3>1
      <4>3. got # Pieces
        BY <2>2, <4>1, <4>2
      <4> QED BY <1>6, <4>3
    <3>2. CASE reply.framing # "chunked"
      <4>1. Len(Response) = size + Pieces
        BY <1>3, <1>5, <3>2 DEF Shaped
      <4> QED BY <1>5, <1>6, <2>2, <3>2, <4>1
    <3> QED BY <3>1, <3>2
  <2>4. got' \in 0..Pieces /\ ok' \in BOOLEAN
    BY <1>6, <1>8, <2>3
  <2>5. pc' # "close" => PlaceInv'
    <3> SUFFICES ASSUME pc' # "close" PROVE PlaceInv'
      OBVIOUS
    <3>1. CASE reply.framing = "chunked"
      <4>1. pc' = "cr"
        BY <1>7, <2>4, <3>1
      <4>2. Behind' = Len(Preamble)' + 3 * got' - 2
        BY <1>3, <1>4, <1>5, <1>6, <1>8, <2>2, <3>1
      <4> QED BY <1>1, <1>5, <3>1, <4>1, <4>2 DEF PlaceInv
    <3>2. CASE reply.framing # "chunked"
      <4>1. pc' = "content"
        BY <1>7, <2>4, <3>2
      <4>2. Behind' = Len(Preamble)' + got'
        BY <1>3, <1>4, <1>5, <1>6, <1>8, <2>2, <3>2
      <4> QED BY <1>1, <1>5, <3>2, <4>1, <4>2 DEF PlaceInv
    <3> QED BY <3>1, <3>2
  <2>6. /\ pc' \in Reading \cup {"close"}
        /\ pc' \in Reading => ~ok' /\ PlaceInv'
        /\ pc' \notin {"line", "headers"}
    BY <1>7, <2>5 DEF Reading
  <2> QED BY <1>1, <1>7, <1>8, <2>1, <2>4, <2>6, ReadKeeps
<1>9. CASE Reads("last") /\ ok' = TRUE /\ UNCHANGED got
  <2>1. UnitTaken("last")
    BY <1>2, <1>9, UnitRead
  <2>2. reply.framing = "chunked"
    <3>1. Behind + 1 \in 1..Len(Response) /\ Response[Behind + 1] = "last"
      BY <1>3, <2>1 DEF UnitTaken, Shaped
    <3> QED BY <1>3, <3>1 DEF Shaped
  <2>3. pc' = "close" /\ pc' \in Reading \cup {"close"} /\ pc' \notin Reading
        /\ pc' \notin {"line", "headers"}
    BY <1>7, <1>9 DEF Reading
  <2> QED BY <1>1, <1>6, <1>7, <1>9, <2>1, <2>2, <2>3, ReadKeeps
<1> QED BY <1>8, <1>9 DEF ReadContent

-------------------------------------------------------------------------------
(* The ends.                                                                 *)

\* The end of process_request.
LEMMA CloseKeeps ==
  ASSUME IInv, Close
  PROVE  IInv'
<1>1. /\ pc = "close" /\ conn' = Closed(conn, "c")
      /\ UNCHANGED <<textVars, svcVars, got, ok>>
      /\ reply' = reply /\ told' = told /\ taken' = taken
      /\ got' = got /\ ok' = ok /\ UNCHANGED textVars
  BY DEF Close, svcVars
<1>2. CASE "killed" \in SendResults(conn.c) /\ Finishes("killed")
  BY <1>1, <1>2, KilledKeeps
<1>3. CASE Finishes("false")
  <2>1. Fates'
    BY <1>3 DEF Finishes, Fates, WholeOrNothing, FatalExplained
  <2> QED BY <1>1, <1>3, <2>1, EndKeeps DEF Finishes
<1>4. CASE ok /\ pc' = "parse" /\ result' = result
  <2>1. TextOK /\ CallOK /\ DecodesTyped /\ RequestSent /\ ResponseRead
    BY InParts
  <2>2. conn \in Connection(Units)
    BY <2>1 DEF CallOK
  <2>3. /\ conn' \in Connection(Units)
        /\ conn'.s.inbox = conn.s.inbox /\ conn'.s.closed = conn.s.closed
        /\ conn'.c.peerEnd = conn.c.peerEnd /\ conn'.c.broken = conn.c.broken
    BY <1>1, <2>2, ClosedByClient, FlagsWhenClosed
  <2>4. TextOK' /\ DecodesTyped'
    BY <1>1, <1>4, <2>1, TextKept
  <2>5. CallOK'
    BY <1>1, <1>4, <2>1, <2>3, ResponseKept DEF CallOK
  <2>6. RequestSent'
    BY <1>1, <1>4, <2>1, <2>3 DEF RequestSent, Written
  <2>7. ResponseRead'
    BY <1>1, <1>4, <2>1 DEF ResponseRead, EndInv
  <2>8. Fates'
    BY <1>1, <1>4, <2>1, NoFate
  <2> QED BY <2>4, <2>5, <2>6, <2>7, <2>8, InPartsNext
<1> QED BY <1>2, <1>3, <1>4 DEF Close

\* json::parse and get: only a whole answer becomes TRUE.
LEMMA ParseKeeps ==
  ASSUME IInv, Parse
  PROVE  IInv'
<1>1. /\ pc = "parse" /\ conn' = conn
      /\ UNCHANGED <<textVars, svcVars, got, ok>>
      /\ reply' = reply /\ got' = got /\ from' = from /\ upto' = upto
  BY DEF Parse, svcVars, textVars
<1>2. ok /\ Uncut
  BY <1>1, InParts DEF ResponseRead, EndInv, DecodesTyped
<1>3. Uncut'
  BY <1>1, <1>2 DEF Uncut, Whole
<1>4. pc' = "done" /\ result' \in {"true", "false", "thrown"}
  BY DEF Parse, Finishes
<1>5. result' = "true" => got' = Pieces /\ reply'.body = "answer"
  BY <1>1 DEF Parse, Finishes
<1>6. result' = "thrown" =>
         /\ reply'.status = 200
         /\ \/ reply'.body = "other"
            \/ reply'.framing # "length" /\ got' < Pieces
  <2> SUFFICES ASSUME result' = "thrown"
               PROVE  /\ reply.status = 200
                      /\ reply.body = "other"
                         \/ (reply.framing # "length" /\ got < Pieces)
    BY <1>1
  <2>1. reply.status = 200 /\ (reply.body = "other" \/ got < Pieces)
    BY DEF Parse, Finishes
  <2>2. reply.framing = "length" => got = Pieces
    BY <1>2, <2>1, InParts DEF ResponseRead, EndInv
  <2>3. got \in Nat /\ Pieces \in Nat
    BY InParts, RequestAssumption DEF CallOK
  <2> QED BY <2>1, <2>2, <2>3
<1>7. Fates'
  BY <1>3, <1>4, <1>5, <1>6 DEF Fates, WholeOrNothing, FatalExplained
<1> QED BY <1>1, <1>4, <1>7, EndKeeps

\* The exception of dump.
LEMMA DumpThrowsKeeps ==
  ASSUME IInv, DumpThrows
  PROVE  IInv'
<1>1. /\ pc = "dump" /\ pc' = "done" /\ result' = "thrown" /\ conn' = conn
      /\ UNCHANGED <<textVars, svcVars, got, ok>>
      /\ from' = from /\ upto' = upto
  BY DEF DumpThrows, Finishes, textVars
<1>2. ~Uncut'
  BY <1>1, ThrowExplained DEF Uncut, Whole
<1>3. Fates'
  BY <1>1, <1>2 DEF Fates, WholeOrNothing, FatalExplained
<1> QED BY <1>1, <1>3, EndKeeps

\* No connection, or none that is secure.
LEMMA ConnectFailsKeeps ==
  ASSUME IInv, ConnectFails
  PROVE  IInv'
<1>1. /\ pc \in {"connect", "tls"} /\ pc' = "done"
      /\ \/ result' = "false"
         \/ pc = "tls" /\ conn.c.peerEnd # "open" /\ result' = "killed"
      /\ conn' = conn /\ UNCHANGED <<textVars, svcVars, got, ok>>
  BY DEF ConnectFails, Finishes
<1>2. CASE result' = "false"
  <2>1. Fates'
    BY <1>2 DEF Fates, WholeOrNothing, FatalExplained
  <2> QED BY <1>1, <1>2, <2>1, EndKeeps
<1>3. CASE pc = "tls" /\ conn.c.peerEnd # "open" /\ result' = "killed"
  <2>1. RequestSent /\ CallOK
    BY InParts
  <2>2. conn.s.inbox \in Seq(Units) /\ Len(conn.s.inbox) \in Nat /\ taken \in Nat
    BY <2>1, Inboxes DEF CallOK
  <2>3. taken + Len(conn.s.inbox) <= 0 /\ conn.s.closed
    BY <1>3, <2>1 DEF RequestSent, Written
  <2>4. taken < 2
    BY <2>2, <2>3
  <2>5. conn'.s.closed /\ taken' < 2
    BY <1>1, <2>3, <2>4 DEF svcVars
  <2>6. Fates'
    BY <1>3, <2>5 DEF Fates, WholeOrNothing, FatalExplained
  <2> QED BY <1>1, <1>3, <2>6, EndKeeps
<1> QED BY <1>1, <1>2, <1>3

\* A text that was dumped to its end was not cut.
LEMMA DumpedUncut ==
  ASSUME IInv, Dumped
  PROVE  Uncut
<1>2. TextOK /\ DecodesTyped
  BY InParts
<1>3. word \in Seq(Characters) /\ i \in Places(word) /\ from \in Places(word)
      /\ upto \in Places(word) /\ Before(from, upto)
  BY <1>2, RequestAssumption DEF TextOK
<1>4. i.bytes \in Nat /\ (i.bytes > 0 => i.chars < Len(word)
                         /\ i.bytes < Len(Encode(word[i.chars + 1])))
      /\ i.chars \in Nat
  BY <1>3, PlaceOf
<1>5. pc = "dump" /\ i = upto /\ state = Accept
  BY DEF Dumped
<1>6. i # from
  BY <1>3, <1>5, PlacesOrdered
<1>7. Tracks
  BY <1>2, <1>5, <1>6 DEF DecodesTyped
<1>8. Whole(from)
  BY <1>5, <1>7 DEF Tracks, Accept, Reject
<1>9. Whole(i)
  <2> SUFFICES ASSUME ~Whole(i) PROVE FALSE
    OBVIOUS
  <2> DEFINE c == word[i.chars + 1]
  <2>1. i.bytes > 0
    BY <1>4 DEF Whole
  <2>2. c \in Characters /\ i.bytes < Len(Encode(c))
    BY <1>3, <1>4, <2>1
  <2>3. Waiting(c, i.bytes) \in 2..8
    <3> HIDE DEF c
    <3>1. 1 <= i.bytes
      BY <1>4, <2>1
    <3>2. TableSteps(c, i.bytes, Encode(c)[i.bytes + 1])
      BY <1>4, <2>2, <3>1, NextByte
    <3> QED BY <3>2 DEF TableSteps
  <2>4. state = Waiting(c, i.bytes)
    BY <1>7, <1>8 DEF Tracks
  <2> HIDE DEF c
  <2> QED BY <1>5, <2>3, <2>4 DEF Accept
<1> QED BY <1>5, <1>8, <1>9 DEF Uncut

-------------------------------------------------------------------------------
(* The service, and the theorem.                                             *)

\* A response is made of units.
LEMMA ResponseUnits ==
  ASSUME reply \in Replies
  PROVE  Response \in Seq(Units)
BY RequestAssumption, ResponseShape DEF Shaped

\* One unit more behind those of a sequence.
LEMMA UnitAppended ==
  ASSUME NEW U, NEW s \in Seq(U), NEW u \in U
  PROVE  LET t == s \o <<u>> IN
         /\ Len(t) = Len(s) + 1
         /\ \A j \in 1..Len(s) : t[j] = s[j]
         /\ t[Len(s) + 1] = u
OBVIOUS

\* What a step of the service leaves of the types of the call.
LEMMA CallKept ==
  ASSUME CallOK, Response' = Response,
         UNCHANGED <<pc, reply, got, ok, result>>,
         conn' \in Connection(Units), told' \in 0..Len(Response), taken' \in 0..2
  PROVE  CallOK'
<1>1. pc' = pc /\ reply' = reply /\ got' = got /\ ok' = ok /\ result' = result
  OBVIOUS
<1>2. told' \in 0..Len(Response)'
  OBVIOUS
<1>3. /\ pc \in {"dump", "connect", "tls", "head", "body", "line", "headers",
                "content", "cr", "lf", "close", "parse", "done"}
      /\ reply \in Replies /\ got \in 0..Pieces /\ ok \in BOOLEAN
      /\ result \in {"none", "true", "false", "thrown", "killed"}
  BY DEF CallOK
<1> QED BY <1>1, <1>2, <1>3 DEF CallOK

\* What a step of the service leaves alone, and what it starts from.
LEMMA ServiceStarts ==
  ASSUME IInv, Serving, UNCHANGED <<textVars, pc, reply, got, ok, result>>
  PROVE  /\ TextOK' /\ DecodesTyped' /\ EndInv' /\ Fates'
         /\ Response' = Response /\ Preamble' = Preamble
         /\ conn.c.peerEnd = "open" /\ ~conn.c.broken
         /\ Written' = Written /\ Written \in 0..2
<1>1. pc' = pc /\ got' = got /\ ok' = ok /\ result' = result
      /\ reply' = reply /\ UNCHANGED textVars
  OBVIOUS
<1>2. TextOK /\ CallOK /\ DecodesTyped /\ RequestSent /\ ResponseRead
  BY InParts
<1>3. pc # "done" /\ ~conn.s.closed
  BY DEF Serving
<1>4. TextOK' /\ DecodesTyped'
  BY <1>1, <1>2, TextKept
<1>5. EndInv'
  BY <1>1, <1>2 DEF ResponseRead, EndInv
<1>6. Fates'
  BY <1>1, <1>2, <1>3, NoFate
<1>7. conn.c.peerEnd = "open" /\ ~conn.c.broken
  BY <1>2, <1>3 DEF RequestSent, Written
<1>8. Written' = Written
  BY <1>1 DEF Written
<1>9. Written \in 0..2
  BY DEF Written
<1> QED BY <1>1, <1>4, <1>5, <1>6, <1>7, <1>8, <1>9, ResponseKept

\* The service reads a unit of the request.
LEMMA ServiceReadsKeeps ==
  ASSUME IInv, ServiceReads
  PROVE  IInv'
<1>1. /\ Serving /\ UNCHANGED <<textVars, pc, reply, got, ok, result>>
      /\ pc' = pc /\ got' = got /\ ok' = ok /\ result' = result
      /\ reply' = reply /\ told' = told /\ taken' = taken + 1
      /\ conn.s.inbox # <<>> /\ conn' = Read(conn, "s", 1)
  BY DEF ServiceReads
<1>2. CallOK /\ RequestSent /\ ResponseRead
  BY InParts
<1>3. /\ TextOK' /\ DecodesTyped' /\ EndInv' /\ Fates'
      /\ Response' = Response /\ Preamble' = Preamble
      /\ conn.c.peerEnd = "open" /\ ~conn.c.broken
      /\ Written' = Written /\ Written \in 0..2
  BY <1>1, ServiceStarts
<1>4. PICK k \in Connection(Units) : k = conn
  BY <1>2 DEF CallOK
<1>5. k.s.inbox \in Seq(Units) /\ k.s.inbox # <<>>
  BY <1>1, <1>4, Inboxes
<1>6. PICK m \in Nat : m = Len(k.s.inbox) /\ m >= 1
  BY <1>5
<1>7. 1 \in Readable(k.s)
  BY <1>6 DEF Readable
<1>8. /\ conn' \in Connection(Units)
      /\ conn'.c = k.c
      /\ conn'.s.peerEnd = k.s.peerEnd
      /\ Chunk(k.s, 1) \in Seq(Units) /\ Len(Chunk(k.s, 1)) = 1
      /\ k.s.inbox = Chunk(k.s, 1) \o conn'.s.inbox
  <2> DEFINE d == Read(k, "s", 1)
  <2>1. /\ d \in Connection(Units)
        /\ d.c = k.c
        /\ d.s.peerEnd = k.s.peerEnd
        /\ Chunk(k.s, 1) \in Seq(Units) /\ Len(Chunk(k.s, 1)) = 1
        /\ k.s.inbox = Chunk(k.s, 1) \o d.s.inbox
    BY <1>7, ReadByServer
  <2>2. conn' = d
    BY <1>1, <1>4
  <2> HIDE DEF d
  <2> QED BY <2>1, <2>2
<1>9. conn'.s.inbox \in Seq(Units)
  BY <1>8, Inboxes
<1>10. PICK o \in Nat : o = Len(conn'.s.inbox)
  BY <1>9
<1>11. m = 1 + o
  <2>1. Len(Chunk(k.s, 1) \o conn'.s.inbox)
           = Len(Chunk(k.s, 1)) + Len(conn'.s.inbox)
    BY <1>8, <1>9, ConcatProperties
  <2> QED BY <1>6, <1>8, <1>10, <2>1
<1>12. conn'.s.closed = k.s.closed
  BY <1>1, <1>4, FlagsWhenClosed
<1>13. taken \in Nat /\ taken' \in Nat /\ taken' + o = taken + m
  BY <1>1, <1>2, <1>11 DEF CallOK
<1>14. taken + m <= Written
  BY <1>2, <1>4, <1>6 DEF RequestSent
<1>15. RequestSent'
  <2>1. Written' = Written /\ Written \in Nat
    BY <1>3
  <2>2. taken' + Len(conn'.s.inbox) <= Written'
    BY <1>10, <1>13, <1>14, <2>1
  <2>3. conn'.c.peerEnd = "open" /\ ~conn'.c.broken
    BY <1>3, <1>4, <1>8
  <2>4. pc' \notin {"parse", "done"} => conn'.s.peerEnd = "open"
    BY <1>1, <1>2, <1>4, <1>8 DEF RequestSent
  <2> QED BY <2>2, <2>3, <2>4 DEF RequestSent
<1>16. CallOK'
  <2>1. taken' \in 0..2
    <3>1. taken + m <= 2
      BY <1>3, <1>13, <1>14
    <3>2. taken' = taken + 1 /\ 1 <= m
      BY <1>1, <1>6
    <3> QED BY <1>13, <3>1, <3>2
  <2>2. told' \in 0..Len(Response)
    BY <1>1, <1>2 DEF CallOK
  <2> QED BY <1>1, <1>2, <1>3, <1>8, <2>1, <2>2, CallKept
<1>17. ResponseRead'
  <2>1. pc \notin {"close", "parse", "done"} => ~ok' /\ InboxInv' /\ PlaceInv'
    BY <1>1, <1>2, <1>3, <1>4, <1>8
       DEF ResponseRead, InboxInv, PlaceInv, Behind
  <2> QED BY <1>1, <1>3, <2>1 DEF ResponseRead
<1> QED BY <1>3, <1>15, <1>16, <1>17, InPartsNext

\* The service sends the next unit of its response.
LEMMA ServiceWritesKeeps ==
  ASSUME IInv, ServiceWrites
  PROVE  IInv'
<1> DEFINE u == Response[told + 1]
           q == <<u>>
<1>1. /\ Serving /\ UNCHANGED <<textVars, pc, reply, got, ok, result>>
      /\ pc' = pc /\ got' = got /\ ok' = ok /\ result' = result
      /\ reply' = reply /\ told' = told + 1 /\ taken' = taken
      /\ told < Len(Response) /\ conn' = Sent(conn, "s", q)
  BY DEF ServiceWrites
<1>2. CallOK /\ RequestSent /\ ResponseRead
  BY InParts
<1>3. /\ TextOK' /\ DecodesTyped' /\ EndInv' /\ Fates'
      /\ Response' = Response /\ Preamble' = Preamble
      /\ conn.c.peerEnd = "open" /\ ~conn.c.broken
      /\ Written' = Written /\ Written \in 0..2
  BY <1>1, ServiceStarts
<1>4. PICK k \in Connection(Units) : k = conn
  BY <1>2 DEF CallOK
<1>5. Response \in Seq(Units)
  BY <1>2, ResponseUnits DEF CallOK
<1>6. PICK z \in Nat : z = Len(Response)
  BY <1>5
<1>7. told \in Nat /\ told + 1 \in 1..z
  BY <1>1, <1>2, <1>6 DEF CallOK
<1>8. u \in Units
  BY <1>5, <1>6, <1>7
<1>9. q \in Seq(Units) /\ Len(q) = 1 /\ q[1] = u
  BY <1>8
<1> DEFINE d == Sent(k, "s", q)
<1>10. /\ d \in Connection(Units)
       /\ d.s.inbox = k.s.inbox
       /\ d.c.peerEnd = k.c.peerEnd /\ d.s.peerEnd = k.s.peerEnd
       /\ d.c.broken = k.c.broken
       /\ k.s.peerEnd = "open" => d.c.inbox = k.c.inbox \o q
       /\ d.s.closed = k.s.closed
  BY <1>8, UnitSentByService
<1>11. conn' = d
  BY <1>1, <1>4
<1> HIDE DEF u, q, d
<1>12. CallOK'
  <2>1. told' \in 0..Len(Response)
    BY <1>1, <1>6, <1>7
  <2>2. taken' \in 0..2
    BY <1>1, <1>2 DEF CallOK
  <2>3. conn' \in Connection(Units)
    BY <1>10, <1>11
  <2> QED BY <1>1, <1>2, <1>3, <2>1, <2>2, <2>3, CallKept
<1>13. RequestSent'
  BY <1>1, <1>2, <1>3, <1>4, <1>10, <1>11 DEF RequestSent
<1>14. ASSUME pc \notin {"close", "parse", "done"}
       PROVE  InboxInv' /\ Behind' = Behind
  <2>1. conn'.c.inbox = k.c.inbox \o q
    BY <1>2, <1>4, <1>10, <1>11, <1>14 DEF RequestSent
  <2>2. k.c.inbox \in Seq(Units)
    BY Inboxes
  <2>3. PICK m \in Nat : m = Len(k.c.inbox)
    BY <2>2
  <2>4. /\ Len(conn'.c.inbox) = m + 1
        /\ \A j \in 1..m : conn'.c.inbox[j] = k.c.inbox[j]
        /\ conn'.c.inbox[m + 1] = u
    BY <1>8, <2>1, <2>2, <2>3, UnitAppended DEF q
  <2>5. /\ told - m >= 0
        /\ \A j \in 1..m : k.c.inbox[j] = Response[(told - m) + j]
    BY <1>2, <1>4, <1>14, <2>3 DEF ResponseRead, InboxInv, Behind
  <2>6. Behind = told - m /\ Behind' = told - m
    <3>1. Behind = told - m
      BY <1>4, <2>3 DEF Behind
    <3>2. Behind' = (told + 1) - (m + 1)
      BY <1>1, <2>4 DEF Behind
    <3> QED BY <1>7, <3>1, <3>2
  <2>7. ASSUME NEW j \in 1..(m + 1)
        PROVE  conn'.c.inbox[j] = Response[(told - m) + j]
    <3>1. CASE j \in 1..m
      BY <2>4, <2>5, <3>1
    <3>2. CASE j = m + 1
      <4>1. (told - m) + j = told + 1
        BY <1>7, <3>2
      <4> QED BY <2>4, <3>2, <4>1 DEF u
    <3> QED BY <3>1, <3>2
  <2>8. InboxInv'
    BY <1>3, <2>4, <2>5, <2>6, <2>7 DEF InboxInv
  <2> QED BY <2>6, <2>8
<1>15. ResponseRead'
  <2>1. ASSUME pc \notin {"close", "parse", "done"}
        PROVE  ~ok' /\ InboxInv' /\ PlaceInv'
    <3>1. ~ok /\ PlaceInv
      BY <1>2, <2>1 DEF ResponseRead
    <3>2. InboxInv' /\ Behind' = Behind
      BY <1>14, <2>1
    <3> QED BY <1>1, <1>3, <3>1, <3>2 DEF PlaceInv
  <2> QED BY <1>1, <1>3, <2>1 DEF ResponseRead
<1> QED BY <1>3, <1>12, <1>13, <1>15, InPartsNext

\* The service closes; if it does so over unread data, it did not read it all.
LEMMA ServiceClosesKeeps ==
  ASSUME IInv, ServiceCloses
  PROVE  IInv'
<1>1. /\ Serving /\ UNCHANGED <<textVars, pc, reply, got, ok, result>>
      /\ pc' = pc /\ got' = got /\ ok' = ok /\ result' = result
      /\ reply' = reply /\ told' = told /\ taken' = taken
      /\ conn' = Closed(conn, "s")
  BY DEF ServiceCloses, svcVars
<1>2. CallOK /\ RequestSent /\ ResponseRead
  BY InParts
<1>3. /\ TextOK' /\ DecodesTyped' /\ EndInv' /\ Fates'
      /\ Response' = Response /\ Preamble' = Preamble
      /\ conn.c.peerEnd = "open" /\ ~conn.c.broken
      /\ Written' = Written /\ Written \in 0..2
  BY <1>1, ServiceStarts
<1>4. PICK k \in Connection(Units) : k = conn
  BY <1>2 DEF CallOK
<1>5. /\ conn' \in Connection(Units)
      /\ conn'.s.inbox = <<>> /\ conn'.s.peerEnd = k.s.peerEnd
      /\ conn'.c.inbox = k.c.inbox /\ conn'.c.broken = k.c.broken
      /\ conn'.s.closed
      /\ conn'.c.peerEnd = "rst" => k.s.inbox # <<>>
  <2>1. conn' = Closed(k, "s")
    BY <1>1, <1>4
  <2> QED BY <2>1, ClosedByServer, FlagsWhenClosed
<1>6. k.s.inbox \in Seq(Units)
  BY Inboxes
<1>7. PICK m \in Nat : m = Len(k.s.inbox) /\ (k.s.inbox # <<>> => m > 0)
  BY <1>6
<1>8. taken \in Nat /\ Len(conn'.s.inbox) = 0
  BY <1>2, <1>5 DEF CallOK
<1>9. taken + m <= Written
  BY <1>2, <1>4, <1>7 DEF RequestSent
<1>10. RequestSent'
  <2>1. taken' + Len(conn'.s.inbox) <= Written'
    BY <1>1, <1>3, <1>7, <1>8, <1>9
  <2>2. taken + m <= 2
    BY <1>3, <1>7, <1>8, <1>9
  <2>3. conn'.c.peerEnd = "rst" => taken' < 2
    BY <1>1, <1>5, <1>7, <1>8, <2>2
  <2>4. ~conn'.c.broken
    BY <1>3, <1>4, <1>5
  <2>5. pc' \notin {"parse", "done"} => conn'.s.peerEnd = "open"
    BY <1>1, <1>2, <1>4, <1>5 DEF RequestSent
  <2> QED BY <1>5, <2>1, <2>3, <2>4, <2>5 DEF RequestSent
<1>11. CallOK'
  <2>1. told' \in 0..Len(Response) /\ taken' \in 0..2
    BY <1>1, <1>2 DEF CallOK
  <2> QED BY <1>1, <1>2, <1>3, <1>5, <2>1, CallKept
<1>12. ResponseRead'
  <2>1. pc \notin {"close", "parse", "done"} => ~ok' /\ InboxInv' /\ PlaceInv'
    BY <1>1, <1>2, <1>3, <1>4, <1>5
       DEF ResponseRead, InboxInv, PlaceInv, Behind
  <2> QED BY <1>1, <1>3, <2>1 DEF ResponseRead
<1> QED BY <1>3, <1>10, <1>11, <1>12, InPartsNext

\* Whoever does nothing changes nothing.
LEMMA StutterKeeps ==
  ASSUME IInv, UNCHANGED vars
  PROVE  IInv'
<1>1. /\ word' = word /\ from' = from /\ upto' = upto /\ i' = i
      /\ state' = state /\ codepoint' = codepoint /\ pc' = pc /\ conn' = conn
      /\ reply' = reply /\ told' = told /\ taken' = taken /\ got' = got
      /\ ok' = ok /\ result' = result /\ UNCHANGED textVars
  BY DEF vars, textVars, svcVars
<1>2. TextOK /\ CallOK /\ DecodesTyped /\ RequestSent /\ ResponseRead /\ Fates
  BY InParts
<1>3. Response' = Response /\ Preamble' = Preamble
  BY <1>1, ResponseKept
<1>4. TextOK' /\ DecodesTyped'
  BY <1>1, <1>2, TextKept
<1>5. CallOK'
  BY <1>1, <1>2, <1>3 DEF CallOK
<1>6. RequestSent'
  BY <1>1, <1>2 DEF RequestSent, Written
<1>7. ResponseRead'
  BY <1>1, <1>2, <1>3
     DEF ResponseRead, InboxInv, PlaceInv, EndInv, Behind
<1>8. Fates'
  BY <1>1, <1>2 DEF Fates, WholeOrNothing, FatalExplained, Uncut, Whole
<1> QED BY <1>4, <1>5, <1>6, <1>7, <1>8, InPartsNext

\* A query begins with the text as recv returned it.
LEMMA InitKeeps ==
  ASSUME Init
  PROVE  IInv
<1>1. /\ word \in Words /\ from \in Places(word) /\ upto \in Places(word)
      /\ Before(from, upto)
      /\ i = from /\ state = Accept /\ codepoint = 0
      /\ pc = "dump" /\ conn = NewConnection /\ reply \in Replies
      /\ told = 0 /\ taken = 0 /\ got = 0 /\ ok = FALSE /\ result = "none"
  BY DEF Init
<1>2. TextOK
  <2>1. ~Before(from, from) /\ ~Before(upto, from)
    BY <1>1, RequestAssumption, PlacesOrdered
  <2> QED BY <1>1, <2>1 DEF TextOK, Accept
<1>3. CallOK
  <2>1. conn \in Connection(Units)
    BY <1>1, NewConnectionType
  <2>2. Response \in Seq(Units)
    BY <1>1, ResponseUnits
  <2>3. Len(Response) \in Nat /\ Pieces \in Nat
    BY <2>2, RequestAssumption
  <2>4. told \in 0..Len(Response) /\ got \in 0..Pieces
    BY <1>1, <2>3
  <2>5. taken \in 0..2
    BY <1>1
  <2>6. ok \in BOOLEAN
    <3>1. ok = FALSE
      BY <1>1
    <3> QED BY <3>1
  <2> QED BY <1>1, <2>1, <2>4, <2>5, <2>6 DEF CallOK
<1>4. DecodesTyped
  BY <1>1 DEF DecodesTyped
<1>5. /\ conn.c.inbox = <<>> /\ conn.s.inbox = <<>>
      /\ conn.c.peerEnd = "open" /\ conn.s.peerEnd = "open"
      /\ ~conn.c.broken
  BY <1>1 DEF NewConnection, NewSide
<1>6. RequestSent
  BY <1>1, <1>5 DEF RequestSent, Written
<1>7. ResponseRead
  <2>1. Behind = 0
    <3>1. Len(conn.c.inbox) = 0
      BY <1>5
    <3> QED BY <1>1, <3>1 DEF Behind
  <2>2. InboxInv
    BY <1>5, <2>1 DEF InboxInv
  <2>3. PlaceInv
    BY <1>1, <2>1 DEF PlaceInv
  <2>4. EndInv
    BY <1>1 DEF EndInv
  <2> QED BY <1>1, <2>2, <2>3, <2>4 DEF ResponseRead
<1>8. Fates
  BY <1>1 DEF Fates, WholeOrNothing, FatalExplained
<1> QED BY <1>2, <1>3, <1>4, <1>6, <1>7, <1>8, InParts

\* Every step of query.
LEMMA QueryKeeps ==
  ASSUME IInv, Query
  PROVE  IInv'
<1>1. CASE DumpByte BY <1>1, DumpByteKeeps
<1>2. CASE DumpThrows BY <1>2, DumpThrowsKeeps
<1>3. CASE Dumped
  <2>1. Uncut
    BY <1>3, DumpedUncut
  <2>2. /\ UNCHANGED <<textVars, conn, svcVars, got, result>>
        /\ pc = "dump" /\ pc' = "connect" /\ ok' = ok
    BY <1>3 DEF Dumped
  <2> QED BY <2>1, <2>2, MoveKeeps
<1>4. CASE ConnectFails BY <1>4, ConnectFailsKeeps
<1>5. CASE Connect
  BY <1>5, MoveKeeps DEF Connect, Here
<1>6. CASE InitializeSsl
  BY <1>6, MoveKeeps DEF InitializeSsl, Here
<1>7. CASE WriteRequest
  BY <1>7, WriteKeeps DEF WriteRequest
<1>8. CASE WriteTimeout
  BY <1>8, MoveKeeps DEF WriteTimeout, Here, Connected
<1>9. CASE ReadResponseLine BY <1>9, ResponseLineKeeps
<1>10. CASE ReadHeaders BY <1>10, HeadersKeep
<1>11. CASE ReadContent BY <1>11, ContentKeeps
<1>12. CASE ReadChunkEnd BY <1>12, ChunkEndKeeps
<1>13. CASE RefuseContent
  BY <1>13, MoveKeeps DEF RefuseContent, Here, Connected
<1>14. CASE ReadContentEnd
  <2>1. reply.framing # "length"
    BY <1>14, InParts DEF ReadContentEnd, ResponseRead, PlaceInv
  <2> QED BY <1>14, <2>1, MoveKeeps DEF ReadContentEnd, Here, Connected
<1>15. CASE ReadFails
  BY <1>15, MoveKeeps DEF ReadFails, Reading, Here, Connected
<1>16. CASE ReadTimeout
  BY <1>16, MoveKeeps DEF ReadTimeout, Reading, Here, Connected
<1>17. CASE Close BY <1>17, CloseKeeps
<1>18. CASE Parse BY <1>18, ParseKeeps
<1> QED BY <1>1, <1>2, <1>3, <1>4, <1>5, <1>6, <1>7, <1>8, <1>9, <1>10, <1>11,
           <1>12, <1>13, <1>14, <1>15, <1>16, <1>17, <1>18 DEF Query

\* The invariant of a query: whatever the word, wherever recv cut it, whatever
\* the service replies and in however many pieces, the table follows the text,
\* request and response are read in their order, and the end is explained.
THEOREM Invariant == Spec => []IInv
<1>1. Init => IInv
  BY InitKeeps
<1>2. IInv /\ [Next]_vars => IInv'
  <2> SUFFICES ASSUME IInv, [Next]_vars PROVE IInv'
    OBVIOUS
  <2>1. CASE Query BY <2>1, QueryKeeps
  <2>2. CASE Service
    BY <2>2, ServiceReadsKeeps, ServiceWritesKeeps, ServiceClosesKeeps
       DEF Service
  <2>3. CASE Done \/ UNCHANGED vars
    BY <2>3, StutterKeeps DEF Done
  <2> QED BY <2>1, <2>2, <2>3 DEF Next
<1> QED BY <1>1, <1>2, PTL DEF Spec

\* WholeOrNothing: TRUE means a whole answer to a whole question, although the
\* body counts as whole at the end of the stream, and words are cut anywhere.
THEOREM WholeAnswers == Spec => []WholeOrNothing
<1>1. IInv => WholeOrNothing
  BY DEF IInv
<1> QED BY <1>1, Invariant, PTL

\* FatalExplained: the uncaught exceptions and SIGPIPE have only the causes that
\* the property names.
THEOREM FatesExplained == Spec => []FatalExplained
<1>1. IInv => FatalExplained
  BY DEF IInv
<1> QED BY <1>1, Invariant, PTL

-------------------------------------------------------------------------------
(* The json reader (JsonReader), for every text. First UTF-8 itself: the bytes *)
(* of a character mean that character, and decode reads them to their end.    *)

\* Scalars are what the lemmas above are about.
LEMMA ScalarBounds ==
  ASSUME NEW c, Scalar(c)
  PROVE  c \in Nat /\ c < 1114112 /\ (c < 55296 \/ 57343 < c)
BY DEF Scalar

\* What a character's bytes mean, by their number.
LEMMA MeantOne ==
  ASSUME NEW t, NEW n, n = Len(t), n = 1
  PROVE  Meant(t) = t[1]
BY DEF Meant

\* As many bytes.
OfLength(t, n) == Len(t) = n

\* What two bytes mean, and so on below: a definition of its own for each length, so
\* that the large numbers stay folded away.
MeansTwo(t) ==
  Meant(t) = ((t[1] - 192) * 64) + (t[2] - 128)

\* Two bytes.
LEMMA MeantTwo ==
  ASSUME NEW t, OfLength(t, 2)
  PROVE  MeansTwo(t)
<1> DEFINE n == Len(t)
<1>1. n = 2
  BY DEF OfLength
<1> HIDE DEF n
<1> QED BY <1>1 DEF Meant, MeansTwo, n

\* What three bytes mean.
MeansThree(t) ==
  Meant(t) = ((t[1] - 224) * 4096) + ((t[2] - 128) * 64) + (t[3] - 128)

\* Three bytes.
LEMMA MeantThree ==
  ASSUME NEW t, OfLength(t, 3)
  PROVE  MeansThree(t)
<1> DEFINE n == Len(t)
<1>1. n = 3
  BY DEF OfLength
<1> HIDE DEF n
<1> QED BY <1>1 DEF Meant, MeansThree, n

\* What four bytes mean.
MeansFour(t) ==
  Meant(t) = ((t[1] - 240) * 262144) + ((t[2] - 128) * 4096)
                    + ((t[3] - 128) * 64) + (t[4] - 128)

\* Four bytes.
LEMMA MeantFour ==
  ASSUME NEW t, OfLength(t, 4)
  PROVE  MeansFour(t)
<1> DEFINE n == Len(t)
<1>1. n = 4
  BY DEF OfLength
<1> HIDE DEF n
<1> QED BY <1>1 DEF Meant, MeansFour, n

\* decode over one byte,
LEMMA DecodedOne ==
  ASSUME NEW s, NEW t, NEW n, n = Len(t), n = 1
  PROVE  Decoded(s, t) = Decode(s, t[1])
BY DEF Decoded

\* two,
LEMMA DecodedTwo ==
  ASSUME NEW s, NEW t, NEW n, n = Len(t), n = 2
  PROVE  Decoded(s, t) = Decode(Decode(s, t[1]), t[2])
BY DEF Decoded

\* three,
LEMMA DecodedThree ==
  ASSUME NEW s, NEW t, NEW n, n = Len(t), n = 3
  PROVE  Decoded(s, t) = Decode(Decode(Decode(s, t[1]), t[2]), t[3])
BY DEF Decoded

\* and four.
LEMMA DecodedFour ==
  ASSUME NEW s, NEW t, NEW n, n = Len(t), n = 4
  PROVE  Decoded(s, t) = Decode(Decode(Decode(Decode(s, t[1]), t[2]), t[3]), t[4])
BY DEF Decoded

\* Cutting off the last six bits, and putting them back.
LEMMA SixBits ==
  ASSUME NEW c \in Nat
  PROVE  /\ c \div 64 \in Nat
         /\ c = ((c \div 64) * 64) + (Follow(c) - 128)
BY DEF Follow
\* Dividing by 64 again and again.
LEMMA Quotients ==
  ASSUME NEW d \in Nat
  PROVE  /\ d \div 64 \in Nat /\ d \div 4096 \in Nat /\ d \div 262144 \in Nat
         /\ (d \div 64) \div 64 = d \div 4096
         /\ (d \div 4096) \div 64 = d \div 262144
<1>1. d \div 64 \in Nat /\ d \div 4096 \in Nat /\ d \div 262144 \in Nat
  BY SMT
<1>2. (d \div 64) \div 64 = d \div 4096
  BY SMT
<1>3. (d \div 4096) \div 64 = d \div 262144
  BY SMT
<1> QED BY <1>1, <1>2, <1>3

\* The bits of a character, put together again from its bytes.
InTwo(d) == d = ((d \div 64) * 64) + (Follow(d) - 128)

\* Two bytes hold all the bits of a character below 800,
LEMMA BitsOfTwo ==
  ASSUME NEW d \in Nat
  PROVE  InTwo(d)
BY SixBits DEF InTwo

\* All of them are numbers.
LEMMA FollowsNat ==
  ASSUME NEW d \in Nat
  PROVE  /\ d \div 64 \in Nat /\ d \div 4096 \in Nat /\ d \div 262144 \in Nat
         /\ Follow(d) \in Nat /\ Follow(d \div 64) \in Nat
         /\ Follow(d \div 4096) \in Nat
<1>1. d \div 64 \in Nat /\ d \div 4096 \in Nat /\ d \div 262144 \in Nat
  BY Quotients
<1> DEFINE e == d \div 64
           f == d \div 4096
<1> HIDE DEF e, f
<1>2. Follow(d) \in Nat
  BY FollowingByte
<1>3. e \in Nat => Follow(e) \in Nat
  BY FollowingByte
<1>4. f \in Nat => Follow(f) \in Nat
  BY FollowingByte
<1> QED BY <1>1, <1>2, <1>3, <1>4 DEF e, f

\* the same for three bytes,
InThree(d) ==
  d = ((d \div 4096) * 4096) + ((Follow(d \div 64) - 128) * 64) + (Follow(d) - 128)

\* which hold all below 10000,
LEMMA BitsOfThree ==
  ASSUME NEW d \in Nat
  PROVE  InThree(d)
<1> DEFINE e == d \div 64
           q == d \div 4096
           x == Follow(e)
           y == Follow(d)
<1>1. e \in Nat /\ q \in Nat /\ e \div 64 = q
  BY Quotients
<1>2. d = (e * 64) + (y - 128) /\ y \in Nat
  BY SixBits, FollowingByte
<1> HIDE DEF e, q, y
<1>3. e = ((e \div 64) * 64) + (x - 128) /\ x \in Nat
  BY <1>1, SixBits, FollowingByte
<1> HIDE DEF x
<1>4. e = (q * 64) + (x - 128)
  BY <1>1, <1>3
<1>5. d = (q * 4096) + ((x - 128) * 64) + (y - 128)
  BY <1>1, <1>2, <1>3, <1>4
<1> QED BY <1>5 DEF x, y, e, q, InThree

\* and for four,
InFour(d) ==
  d = ((d \div 262144) * 262144) + ((Follow(d \div 4096) - 128) * 4096)
      + ((Follow(d \div 64) - 128) * 64) + (Follow(d) - 128)

\* which hold all of Unicode.
LEMMA BitsOfFour ==
  ASSUME NEW d \in Nat
  PROVE  InFour(d)
<1> DEFINE f == d \div 4096
           q == d \div 262144
           z == Follow(f)
           x == Follow(d \div 64)
           y == Follow(d)
<1>1. f \in Nat /\ q \in Nat /\ f \div 64 = q
  BY Quotients
<1>2. d \div 64 \in Nat
  BY Quotients
<1>3. x \in Nat /\ y \in Nat
  BY <1>2, FollowingByte
<1>4. d = (f * 4096) + ((x - 128) * 64) + (y - 128)
  <2>1. InThree(d)
    BY BitsOfThree
  <2> QED BY <2>1 DEF InThree
<1> HIDE DEF f, q, x, y
<1>5. f = ((f \div 64) * 64) + (z - 128) /\ z \in Nat
  BY <1>1, SixBits, FollowingByte
<1> HIDE DEF z
<1>6. f = (q * 64) + (z - 128)
  BY <1>1, <1>5
<1>7. f * 4096 = (q * 262144) + ((z - 128) * 4096)
  BY <1>1, <1>5, <1>6
<1>8. d = (q * 262144) + ((z - 128) * 4096) + ((x - 128) * 64) + (y - 128)
  BY <1>1, <1>3, <1>4, <1>5, <1>7
<1> QED BY <1>8 DEF x, y, z, f, q, InFour

\* decode reads the bytes of any character from end to end.
LEMMA CharacterDecoded ==
  ASSUME NEW c, Scalar(c)
  PROVE  Decoded(Accept, Encode(c)) = Accept
<1>1. PICK d \in Nat : d = c /\ d < 1114112 /\ (d < 55296 \/ 57343 < d)
  BY ScalarBounds
<1> DEFINE t == Encode(d)
<1>2. CASE d < 128
  <2>1. Len(t) = 1 /\ t[1] = d
    BY <1>2, OneByte DEF Size
  <2>2. Decode(Accept, d) = Accept
    BY <1>2, LeadOne
  <2>3. Decoded(Accept, t) = Decode(Accept, t[1])
    <3> HIDE DEF t
    <3> QED BY <2>1, DecodedOne
  <2> HIDE DEF t
  <2> QED BY <1>1, <2>1, <2>2, <2>3 DEF t
<1>3. CASE 128 <= d /\ d < 2048
  <2> DEFINE q == d \div 64
  <2>1. Len(t) = 2 /\ t[1] = 192 + q /\ Waiting(d, 1) = 2
    BY <1>3, TwoBytes
  <2>2. q \in Nat /\ 2 <= q /\ q <= 31
    BY <1>3
  <2>3. Decode(Accept, t[1]) = 2
    <3> HIDE DEF q, t
    <3> QED BY <2>1, <2>2, LeadTwo
  <2>4. TableSteps(d, 1, t[2])
    BY <1>3, NextOfTwo
  <2>5. Decode(2, t[2]) = Accept
    <3> HIDE DEF q
    <3> QED BY <2>1, <2>4 DEF TableSteps
  <2>6. Decoded(Accept, t) = Decode(Decode(Accept, t[1]), t[2])
    <3> HIDE DEF t
    <3> QED BY <2>1, DecodedTwo
  <2> HIDE DEF t
  <2> QED BY <1>1, <2>3, <2>5, <2>6 DEF t
<1>4. CASE 2048 <= d /\ d < 65536
  <2> DEFINE q == d \div 4096
  <2>1. /\ Len(t) = 3 /\ t[1] = 224 + q
        /\ Waiting(d, 1) = IF d < 4096 THEN 4 ELSE IF q = 13 THEN 5 ELSE 3
    BY <1>4, ThreeBytes
  <2>2. q \in Nat /\ q <= 15 /\ (q = 0 <=> d < 4096)
    BY <1>4
  <2>3. Decode(Accept, t[1]) = Waiting(d, 1)
    <3> HIDE DEF q, t
    <3>1. Decode(Accept, 224 + q) = IF q = 0 THEN 4 ELSE IF q = 13 THEN 5 ELSE 3
      BY <2>2, LeadThree
    <3> QED BY <2>1, <2>2, <3>1
  <2>4. TableSteps(d, 1, t[2]) /\ TableSteps(d, 2, t[3])
    BY <1>1, <1>4, NextOfThree
  <2>5. /\ Decode(Waiting(d, 1), t[2]) = Waiting(d, 2)
        /\ Decode(Waiting(d, 2), t[3]) = Accept
    <3> HIDE DEF q
    <3> QED BY <2>1, <2>4 DEF TableSteps
  <2>6. Decoded(Accept, t) = Decode(Decode(Decode(Accept, t[1]), t[2]), t[3])
    <3> HIDE DEF t, q
    <3>1. Len(t) = 3
      BY <2>1
    <3> QED BY <3>1, DecodedThree
  <2> HIDE DEF t
  <2> QED BY <1>1, <2>3, <2>5, <2>6 DEF t
<1>5. CASE 65536 <= d
  <2> DEFINE q == d \div 262144
  <2>1. /\ Len(t) = 4 /\ t[1] = 240 + q
        /\ Waiting(d, 1) = IF d < 262144 THEN 6 ELSE IF q = 4 THEN 8 ELSE 7
    BY <1>1, <1>5, FourBytes
  <2>2. q \in Nat /\ q <= 4 /\ (q = 0 <=> d < 262144)
    BY <1>1, <1>5
  <2>3. Decode(Accept, t[1]) = Waiting(d, 1)
    <3> HIDE DEF q, t
    <3>1. Decode(Accept, 240 + q) = IF q = 0 THEN 6 ELSE IF q = 4 THEN 8 ELSE 7
      BY <2>2, LeadFour
    <3> QED BY <2>1, <2>2, <3>1
  <2>4. /\ TableSteps(d, 1, t[2]) /\ TableSteps(d, 2, t[3])
        /\ TableSteps(d, 3, t[4])
    BY <1>1, <1>5, NextOfFour
  <2>5. /\ Decode(Waiting(d, 1), t[2]) = Waiting(d, 2)
        /\ Decode(Waiting(d, 2), t[3]) = Waiting(d, 3)
        /\ Decode(Waiting(d, 3), t[4]) = Accept
    <3> HIDE DEF q
    <3> QED BY <2>1, <2>4 DEF TableSteps
  <2>6. Decoded(Accept, t)
           = Decode(Decode(Decode(Decode(Accept, t[1]), t[2]), t[3]), t[4])
    <3> HIDE DEF t, q
    <3>1. Len(t) = 4
      BY <2>1
    <3> QED BY <3>1, DecodedFour
  <2> HIDE DEF t
  <2> QED BY <1>1, <2>3, <2>5, <2>6 DEF t
<1> QED BY <1>1, <1>2, <1>3, <1>4, <1>5

\* Two bytes of Encode mean their character,
LEMMA TwoMeant ==
  ASSUME NEW d \in Nat, 128 <= d, d < 2048
  PROVE  Meant(Encode(d)) = d
<1> DEFINE t == Encode(d)
           q == d \div 64
           y == Follow(d)
<1>1. InTwo(d)
  BY BitsOfTwo
<1>2. d = (q * 64) + (y - 128)
  BY <1>1 DEF InTwo
<1>3. q \in Nat /\ y \in Nat
  BY FollowsNat
<1>4. Len(t) = 2 /\ t[1] = 192 + q /\ t[2] = y
  BY TwoBytes
<1> HIDE DEF t, q, y
<1>5. Meant(t) = (q * 64) + (y - 128)
  <2>1. Meant(t) = ((t[1] - 192) * 64) + (t[2] - 128)
    <3>1. OfLength(t, 2)
      BY <1>4 DEF OfLength
    <3>2. MeansTwo(t)
      BY <3>1, MeantTwo
    <3> QED BY <3>2 DEF MeansTwo
  <2>2. t[1] - 192 = q
    BY <1>3, <1>4
  <2> QED BY <1>4, <2>1, <2>2
<1> QED BY <1>2, <1>5 DEF t

\* so do three,
LEMMA ThreeMeant ==
  ASSUME NEW d \in Nat, 2048 <= d, d < 65536
  PROVE  Meant(Encode(d)) = d
<1> DEFINE t == Encode(d)
           q == d \div 4096
           x == Follow(d \div 64)
           y == Follow(d)
<1>1. InThree(d)
  BY BitsOfThree
<1>2. d = (q * 4096) + ((x - 128) * 64) + (y - 128)
  BY <1>1 DEF InThree
<1>3. q \in Nat /\ x \in Nat /\ y \in Nat
  BY FollowsNat
<1>4. Len(t) = 3 /\ t[1] = 224 + q /\ t[2] = x /\ t[3] = y
  BY ThreeBytes
<1> HIDE DEF t, q, x, y
<1>5. Meant(t) = (q * 4096) + ((x - 128) * 64) + (y - 128)
  <2>1. Meant(t) = ((t[1] - 224) * 4096) + ((t[2] - 128) * 64) + (t[3] - 128)
    <3>1. OfLength(t, 3)
      BY <1>4 DEF OfLength
    <3>2. MeansThree(t)
      BY <3>1, MeantThree
    <3> QED BY <3>2 DEF MeansThree
  <2>2. t[1] - 224 = q
    BY <1>3, <1>4
  <2> QED BY <1>4, <2>1, <2>2
<1> QED BY <1>2, <1>5 DEF t

\* and four.
LEMMA FourMeant ==
  ASSUME NEW d \in Nat, 65536 <= d, d < 1114112
  PROVE  Meant(Encode(d)) = d
<1> DEFINE t == Encode(d)
           q == d \div 262144
           z == Follow(d \div 4096)
           x == Follow(d \div 64)
           y == Follow(d)
<1>1. InFour(d)
  BY BitsOfFour
<1>2. d = (q * 262144) + ((z - 128) * 4096) + ((x - 128) * 64) + (y - 128)
  BY <1>1 DEF InFour
<1>3. q \in Nat /\ z \in Nat /\ x \in Nat /\ y \in Nat
  BY FollowsNat
<1>4. Len(t) = 4 /\ t[1] = 240 + q /\ t[2] = z /\ t[3] = x /\ t[4] = y
  BY FourBytes
<1> HIDE DEF t, q, z, x, y
<1>5. Meant(t) = (q * 262144) + ((z - 128) * 4096) + ((x - 128) * 64) + (y - 128)
  <2>1. Meant(t) = ((t[1] - 240) * 262144) + ((t[2] - 128) * 4096)
                    + ((t[3] - 128) * 64) + (t[4] - 128)
    <3>1. OfLength(t, 4)
      BY <1>4 DEF OfLength
    <3>2. MeansFour(t)
      BY <3>1, MeantFour
    <3> QED BY <3>2 DEF MeansFour
  <2>2. t[1] - 240 = q
    BY <1>3, <1>4
  <2> QED BY <1>4, <2>1, <2>2
<1> QED BY <1>2, <1>5 DEF t

\* What the bytes of a character mean is that character.
LEMMA CharacterMeant ==
  ASSUME NEW c, Scalar(c)
  PROVE  IsUtf8(Encode(c)) /\ Meant(Encode(c)) = c
<1>1. PICK d \in Nat : d = c /\ d < 1114112 /\ (d < 55296 \/ 57343 < d)
  BY ScalarBounds
<1> DEFINE t == Encode(d)
<1>2. Len(t) \in 1..4
  BY <1>1, ByteCount DEF Size
<1>3. Meant(t) = d
  <2>1. CASE d < 128
    <3>1. Len(t) = 1 /\ t[1] = d
      BY <2>1, OneByte DEF Size
    <3> HIDE DEF t
    <3> QED BY <3>1, MeantOne
  <2>2. CASE 128 <= d /\ d < 2048
    BY <2>2, TwoMeant
  <2>3. CASE 2048 <= d /\ d < 65536
    BY <2>3, ThreeMeant
  <2>4. CASE 65536 <= d
    BY <1>1, <2>4, FourMeant
  <2> QED BY <1>1, <2>1, <2>2, <2>3, <2>4
<1>4. Scalar(Meant(t))
  BY <1>1, <1>3
<1> HIDE DEF t
<1>5. IsUtf8(t)
  BY <1>2, <1>3, <1>4 DEF IsUtf8, t
<1> QED BY <1>1, <1>3, <1>5 DEF t

\* Such bytes pass through decode.
LEMMA Utf8Decoded ==
  ASSUME NEW t, IsUtf8(t)
  PROVE  Decoded(Accept, t) = Accept
BY CharacterDecoded DEF IsUtf8

-------------------------------------------------------------------------------
(* And back: the bytes that the ranges of scan_string let through are those   *)
(* of a character.                                                            *)

\* Bits put together come apart again.
LEMMA Apart ==
  ASSUME NEW q \in Nat, NEW y \in Nat, y < 64
  PROVE  (q * 64) + y \in Nat /\ ((q * 64) + y) \div 64 = q /\ ((q * 64) + y) % 64 = y
<1>1. (q * 64) + y \in Nat
  OBVIOUS
<1>2. ((q * 64) + y) \div 64 = q
  BY SMT
<1>3. ((q * 64) + y) % 64 = y
  BY SMT
<1> QED BY <1>1, <1>2, <1>3

\* The second byte of a character whose first is a, and those after it.
Between(b, low, high) == b \in Nat /\ low <= b /\ b <= high

\* The ranges of get_token's table for a second byte b behind the first byte a.
Second(a, b) ==
  /\ Between(b, 128, 191)
  /\ a = 224 => 160 <= b
  /\ a = 237 => b <= 159
  /\ a = 240 => 144 <= b
  /\ a = 244 => b <= 143

\* Two such bytes are a character.
LEMMA TwoUtf8 ==
  ASSUME NEW a \in Nat, NEW b, 194 <= a, a <= 223, Second(a, b)
  PROVE  IsUtf8(<<a, b>>)
<1>0. b \in Nat /\ 128 <= b /\ b <= 191
  BY DEF Second, Between
<1> DEFINE t == <<a, b>>
           q == a - 192
           y == b - 128
           d == (q * 64) + y
<1>1. q \in Nat /\ y \in Nat /\ y < 64 /\ 2 <= q /\ q <= 31
  BY <1>0
<1>2. a = 192 + q /\ b = 128 + y /\ t = <<a, b>>
  BY <1>0
<1> HIDE DEF t, q, y
<1>3. d \in Nat /\ d \div 64 = q /\ d % 64 = y
  BY <1>1, Apart
<1>4. 128 <= d /\ d < 2048
  BY <1>1
<1> HIDE DEF d
<1>5. Encode(d) = <<192 + d \div 64, Follow(d)>>
  BY <1>3, <1>4, TwoBytes
<1>6. Encode(d) = t
  BY <1>2, <1>3, <1>5 DEF Follow
<1>7. Scalar(d)
  BY <1>3, <1>4 DEF Scalar
<1> QED BY <1>6, <1>7, CharacterMeant DEF t

\* Three bytes whose second is in the range that the first allows.
LEMMA ThreeUtf8 ==
  ASSUME NEW a \in Nat, NEW b, NEW e, 224 <= a, a <= 239, Second(a, b),
         Between(e, 128, 191)
  PROVE  IsUtf8(<<a, b, e>>)
<1>0. /\ b \in Nat /\ 128 <= b /\ b <= 191 /\ e \in Nat /\ 128 <= e /\ e <= 191
      /\ (a = 224 => 160 <= b) /\ (a = 237 => b <= 159)
  BY DEF Second, Between
<1> DEFINE t == <<a, b, e>>
           q == a - 224
           x == b - 128
           y == e - 128
           f == (q * 64) + x
           d == (f * 64) + y
<1>1. /\ q \in Nat /\ q <= 15 /\ x \in Nat /\ x < 64 /\ y \in Nat /\ y < 64
      /\ (q = 0 => 32 <= x) /\ (q = 13 => x <= 31)
  BY <1>0
<1>2. /\ a = 224 + q /\ b = 128 + x /\ e = 128 + y
      /\ t = <<a, b, e>>
  BY <1>0
<1> HIDE DEF t, q, x, y
<1>3. f \in Nat /\ f \div 64 = q /\ f % 64 = x
  BY <1>1, Apart
<1>4. 32 <= f /\ f < 1024 /\ (f < 864 \/ 896 <= f)
  BY <1>1
<1> HIDE DEF f
<1>5. d \in Nat /\ d \div 64 = f /\ d % 64 = y
  BY <1>1, <1>3, Apart
<1>6. 2048 <= d /\ d < 65536 /\ (d < 55296 \/ 57343 < d)
  BY <1>1, <1>3, <1>4
<1> HIDE DEF d
<1>7. d \div 4096 = q
  BY <1>3, <1>5, Quotients
<1>8. Encode(d) = <<224 + d \div 4096, Follow(d \div 64), Follow(d)>>
  BY <1>5, <1>6, ThreeBytes
<1>9. Encode(d) = t
  BY <1>2, <1>3, <1>5, <1>7, <1>8 DEF Follow
<1>10. Scalar(d)
  BY <1>5, <1>6 DEF Scalar
<1> QED BY <1>9, <1>10, CharacterMeant DEF t

\* And four.
LEMMA FourUtf8 ==
  ASSUME NEW a \in Nat, NEW b, NEW e, NEW g, 240 <= a, a <= 244, Second(a, b),
         Between(e, 128, 191), Between(g, 128, 191)
  PROVE  IsUtf8(<<a, b, e, g>>)
<1>0. /\ b \in Nat /\ 128 <= b /\ b <= 191 /\ e \in Nat /\ 128 <= e /\ e <= 191
      /\ g \in Nat /\ 128 <= g /\ g <= 191
      /\ (a = 240 => 144 <= b) /\ (a = 244 => b <= 143)
  BY DEF Second, Between
<1> DEFINE t == <<a, b, e, g>>
           q == a - 240
           z == b - 128
           x == e - 128
           y == g - 128
           h == (q * 64) + z
           f == (h * 64) + x
           d == (f * 64) + y
<1>1. /\ q \in Nat /\ q <= 4 /\ z \in Nat /\ z < 64 /\ x \in Nat /\ x < 64
      /\ y \in Nat /\ y < 64 /\ (q = 0 => 16 <= z) /\ (q = 4 => z <= 15)
  BY <1>0
<1>2. /\ a = 240 + q /\ b = 128 + z /\ e = 128 + x /\ g = 128 + y
      /\ t = <<a, b, e, g>>
  BY <1>0
<1> HIDE DEF t, q, z, x, y
<1>3. h \in Nat /\ h \div 64 = q /\ h % 64 = z
  BY <1>1, Apart
<1>4. 16 <= h /\ h < 272
  BY <1>1
<1> HIDE DEF h
<1>5. f \in Nat /\ f \div 64 = h /\ f % 64 = x
  BY <1>1, <1>3, Apart
<1>6. 1024 <= f /\ f < 17408
  BY <1>1, <1>3, <1>4
<1> HIDE DEF f
<1>7. d \in Nat /\ d \div 64 = f /\ d % 64 = y
  BY <1>1, <1>5, Apart
<1>8. 65536 <= d /\ d < 1114112
  BY <1>1, <1>5, <1>6
<1> HIDE DEF d
<1>9. d \div 4096 = h
  BY <1>5, <1>7, Quotients
<1>10. d \div 262144 = q
  BY <1>3, <1>7, <1>9, Quotients
<1>11. Encode(d) = <<240 + d \div 262144, Follow(d \div 4096),
                     Follow(d \div 64), Follow(d)>>
  BY <1>7, <1>8, FourBytes
<1>12. Encode(d) = t
  BY <1>2, <1>3, <1>5, <1>7, <1>9, <1>10, <1>11 DEF Follow
<1>13. Scalar(d)
  BY <1>7, <1>8 DEF Scalar
<1> QED BY <1>12, <1>13, CharacterMeant DEF t

\* One byte.
LEMMA OneUtf8 ==
  ASSUME NEW b \in Nat, b < 128
  PROVE  IsUtf8(<<b>>)
<1>1. Scalar(b)
  BY DEF Scalar
<1>2. Encode(b) = <<b>>
  BY OneByte
<1> QED BY <1>1, <1>2, CharacterMeant

\* How many bytes a lead byte wants, and which.
Lengths(a) == IF a <= 223 THEN 1 ELSE IF a <= 239 THEN 2 ELSE 3

\* The ranges w that the first byte a puts before the rest.
Allowed(a, w) ==
  /\ OfLength(w, Lengths(a))
  /\ \A b \in w[1] : Second(a, b)
  /\ a > 223 => \A b \in w[2] : Between(b, 128, 191)
  /\ a > 239 => \A b \in w[3] : Between(b, 128, 191)

\* next_byte_in_range is given these ranges in every case of scan_string.
LEMMA RangesOf ==
  ASSUME NEW a \in Nat, 194 <= a, a <= 244
  PROVE  Allowed(a, Ranges(a))
<1> USE DEF Ranges, OfLength, Lengths, Allowed
<1>1. \A b \in Cont : Between(b, 128, 191)
  BY DEF Cont, Between
<1>2. \A b \in 160..191 : Between(b, 128, 191) /\ 160 <= b
  BY DEF Between
<1>3. \A b \in 128..159 : Between(b, 128, 191) /\ b <= 159
  BY DEF Between
<1>4. \A b \in 144..191 : Between(b, 128, 191) /\ 144 <= b
  BY DEF Between
<1>5. \A b \in 128..143 : Between(b, 128, 191) /\ b <= 143
  BY DEF Between
<1> USE DEF Second
<1> DEFINE A == 160..191
           B == 128..159
           C == 144..191
           D == 128..143
<1> HIDE DEF A, B, C, D
<1>6. CASE a <= 223
  BY <1>1, <1>6
<1>7. CASE a > 223 /\ a <= 239
  <2>1. CASE a = 224
    <3>1. Ranges(a) = <<A, Cont>>
      BY <2>1 DEF A
    <3> HIDE DEF Ranges
    <3> QED BY <1>1, <1>2, <2>1, <3>1 DEF A
  <2>2. CASE a = 237
    <3>1. Ranges(a) = <<B, Cont>>
      BY <2>2 DEF B
    <3> HIDE DEF Ranges
    <3> QED BY <1>1, <1>3, <2>2, <3>1 DEF B
  <2>3. CASE a # 224 /\ a # 237
    BY <1>1, <1>7, <2>3
  <2> QED BY <1>7, <2>1, <2>2, <2>3
<1>8. CASE a > 239
  <2>1. CASE a = 240
    <3>1. Ranges(a) = <<C, Cont, Cont>>
      BY <2>1 DEF C
    <3> HIDE DEF Ranges
    <3> QED BY <1>1, <1>4, <2>1, <3>1 DEF C
  <2>2. CASE a = 244
    <3>1. Ranges(a) = <<D, Cont, Cont>>
      BY <2>2 DEF D
    <3> HIDE DEF Ranges
    <3> QED BY <1>1, <1>5, <2>2, <3>1 DEF D
  <2>3. CASE a # 240 /\ a # 244
    BY <1>1, <1>8, <2>3
  <2> QED BY <1>8, <2>1, <2>2, <2>3
<1> QED BY <1>6, <1>7, <1>8

\* A sequence is its items.
LEMMA ItemsOfTwo ==
  ASSUME NEW S, NEW t \in Seq(S), NEW n, n = Len(t), n = 2
  PROVE  t = <<t[1], t[2]>>
<1> DEFINE s == <<t[1], t[2]>>
<1>0. \A k \in 1..n : t[k] \in S
  BY ElementOfSeq
<1>1. t[1] \in S /\ t[2] \in S
  BY <1>0
<1>2. s \in Seq(S) /\ Len(s) = n /\ \A k \in 1..n : s[k] = t[k]
  BY <1>1
<1> HIDE DEF s
<1>3. s = t
  BY <1>2, SeqEqual
<1> QED BY <1>3 DEF s

\* A sequence of three,
LEMMA ItemsOfThree ==
  ASSUME NEW S, NEW t \in Seq(S), NEW n, n = Len(t), n = 3
  PROVE  t = <<t[1], t[2], t[3]>>
<1> DEFINE s == <<t[1], t[2], t[3]>>
<1>0. \A k \in 1..n : t[k] \in S
  BY ElementOfSeq
<1>1. t[1] \in S /\ t[2] \in S /\ t[3] \in S
  BY <1>0
<1>2. s \in Seq(S) /\ Len(s) = n /\ \A k \in 1..n : s[k] = t[k]
  BY <1>1
<1> HIDE DEF s
<1>3. s = t
  BY <1>2, SeqEqual
<1> QED BY <1>3 DEF s

\* and of four.
LEMMA ItemsOfFour ==
  ASSUME NEW S, NEW t \in Seq(S), NEW n, n = Len(t), n = 4
  PROVE  t = <<t[1], t[2], t[3], t[4]>>
<1> DEFINE s == <<t[1], t[2], t[3], t[4]>>
<1>0. \A k \in 1..n : t[k] \in S
  BY ElementOfSeq
<1>1. t[1] \in S /\ t[2] \in S /\ t[3] \in S /\ t[4] \in S
  BY <1>0
<1>2. s \in Seq(S) /\ Len(s) = n /\ \A k \in 1..n : s[k] = t[k]
  BY <1>1
<1> HIDE DEF s
<1>3. s = t
  BY <1>2, SeqEqual
<1> QED BY <1>3 DEF s

\* A character all of whose bytes are read is UTF-8.
LEMMA PartUtf8 ==
  ASSUME NEW r, NEW S, r.part \in Seq(S), r.rest = <<>>, PartInv(r)
  PROVE  IsUtf8(r.part)
<1> DEFINE t == r.part
           n == Len(t)
           w == Ranges(t[1])
           m == Len(w)
<1>1. /\ t[1] \in 194..244 /\ n + Len(r.rest) = Len(w) + 1
      /\ \A k \in 2..n : t[k] \in w[k - 1]
  BY DEF PartInv
<1>2. n \in Nat /\ Len(r.rest) = 0 /\ t \in Seq(S)
  OBVIOUS
<1>0. t[1] \in 194..244
  BY <1>1
<1>3. PICK a \in Nat : a = t[1] /\ 194 <= a /\ a <= 244
  <2> DEFINE p == t[1]
  <2>1. p \in 194..244
    BY <1>0
  <2> HIDE DEF p
  <2>2. p \in Nat /\ 194 <= p /\ p <= 244
    BY <2>1
  <2> QED BY <2>2 DEF p
<1> HIDE DEF n, t
<1>4. Allowed(a, w)
  <2>1. Allowed(a, Ranges(a))
    BY <1>3, RangesOf
  <2> QED BY <1>3, <2>1
<1> HIDE DEF w
<1>5. m = Lengths(a)
  BY <1>4 DEF OfLength, Allowed
<1> HIDE DEF m
<1>6. n + Len(r.rest) = m + 1
  BY <1>1 DEF m
<1>7. n = m + 1
  BY <1>2, <1>5, <1>6 DEF Lengths
<1>8. CASE a <= 223
  <2>1. n = 2
    BY <1>5, <1>7, <1>8 DEF Lengths
  <2>2. t[2] \in w[1]
    BY <1>1, <2>1
  <2>3. t = <<t[1], t[2]>>
    BY <1>2, <2>1, ItemsOfTwo DEF n
  <2>4. Second(a, t[2])
    BY <1>4, <2>2 DEF Allowed
  <2>5. t = <<a, t[2]>>
    BY <1>3, <2>3
  <2>6. IsUtf8(<<a, t[2]>>)
    BY <1>3, <1>8, <2>4, TwoUtf8
  <2> QED BY <2>5, <2>6 DEF t
<1>9. CASE a > 223 /\ a <= 239
  <2>1. n = 3
    BY <1>5, <1>7, <1>9 DEF Lengths
  <2>2. t[2] \in w[1] /\ t[3] \in w[2]
    BY <1>1, <2>1
  <2>3. t = <<t[1], t[2], t[3]>>
    BY <1>2, <2>1, ItemsOfThree DEF n
  <2>4. Second(a, t[2])
    BY <1>4, <2>2 DEF Allowed
  <2>5. Between(t[3], 128, 191)
    BY <1>4, <1>9, <2>2 DEF Allowed
  <2>6. t = <<a, t[2], t[3]>>
    BY <1>3, <2>3
  <2>7. 224 <= a
    BY <1>9
  <2>8. IsUtf8(<<a, t[2], t[3]>>)
    BY <1>9, <2>4, <2>5, <2>7, ThreeUtf8
  <2> QED BY <2>6, <2>8 DEF t
<1>10. CASE a > 239
  <2>1. n = 4
    BY <1>5, <1>7, <1>10 DEF Lengths
  <2>2. t[2] \in w[1] /\ t[3] \in w[2] /\ t[4] \in w[3]
    BY <1>1, <2>1
  <2>3. t = <<t[1], t[2], t[3], t[4]>>
    BY <1>2, <2>1, ItemsOfFour DEF n
  <2>4. Second(a, t[2])
    BY <1>4, <2>2 DEF Allowed
  <2>5. Between(t[3], 128, 191) /\ Between(t[4], 128, 191)
    BY <1>4, <1>10, <2>2 DEF Allowed
  <2>6. t = <<a, t[2], t[3], t[4]>>
    BY <1>3, <2>3
  <2>7. 240 <= a
    BY <1>10
  <2>8. IsUtf8(<<a, t[2], t[3], t[4]>>)
    BY <1>3, <2>4, <2>5, <2>7, FourUtf8
  <2> QED BY <2>6, <2>8 DEF t
<1> QED BY <1>3, <1>8, <1>9, <1>10

-------------------------------------------------------------------------------
(* The parser: what a token changes, between two tokens.                      *)

\* What the updates of the reader's record change, and that they keep its type.
Levels == {"array", "object"}

\* The fields that only strings and fixed bytes use.
Untouched(r, s) ==
  s.buffer = r.buffer /\ s.rest = r.rest /\ s.high = r.high

\* A refused body.
LEMMA FailFields ==
  ASSUME NEW r \in ReaderType
  PROVE  /\ Fail(r) \in ReaderType /\ Fail(r).want = "failed"
         /\ Untouched(r, Fail(r))
BY DEF ReaderType, Fail, Untouched, Wants

\* Waiting for the next token.
LEMMA WantFields ==
  ASSUME NEW r \in ReaderType, NEW w \in Wants
  PROVE  /\ Want(r, w) \in ReaderType /\ Want(r, w).want = w
         /\ Want(r, w).mode = "ready" /\ Want(r, w).states = r.states
         /\ Untouched(r, Want(r, w))
BY DEF ReaderType, Want, Untouched, Modes

\* A bracket or brace is opened.
LEMMA PushFields ==
  ASSUME NEW r \in ReaderType, NEW l \in Levels
  PROVE  /\ Push(r, l) \in ReaderType /\ Push(r, l).want = r.want
         /\ Push(r, l).mode = r.mode /\ Push(r, l).states # <<>>
         /\ Untouched(r, Push(r, l))
<1> DEFINE st == Append(r.states, l)
<1>1. st \in Seq(Levels) /\ st # <<>>
  BY DEF ReaderType, Levels
<1> HIDE DEF st
<1>2. Push(r, l) = [r EXCEPT !.states = st]
  BY DEF Push, st, ReaderType
<1> QED BY <1>1, <1>2 DEF ReaderType, Untouched, Levels

\* A token is begun.
LEMMA EnterFields ==
  ASSUME NEW r \in ReaderType, NEW m \in Modes, NEW w \in Seq(SUBSET Byte)
  PROVE  /\ Enter(r, m, w) \in ReaderType /\ Enter(r, m, w).mode = m
         /\ Enter(r, m, w).rest = w /\ Enter(r, m, w).want = r.want
         /\ Enter(r, m, w).states = r.states /\ Enter(r, m, w).high = r.high
         /\ Enter(r, m, w).code = r.code /\ Enter(r, m, w).part = r.part
         /\ Enter(r, m, w).buffer = r.buffer
BY DEF ReaderType, Enter

\* The same, of a reader that has a name.
Entered(r, m, w, e) ==
  /\ e \in ReaderType /\ e.mode = m /\ e.rest = w /\ e.want = r.want
  /\ e.states = r.states /\ e.high = r.high /\ e.buffer = r.buffer

\* Enter leaves it so.
LEMMA EnterNamed ==
  ASSUME NEW r \in ReaderType, NEW m \in Modes, NEW w \in Seq(SUBSET Byte),
         NEW e, e = Enter(r, m, w)
  PROVE  Entered(r, m, w, e)
BY EnterFields DEF Entered

\* token_buffer is set, and nothing else.
LEMMA BufferFields ==
  ASSUME NEW r \in ReaderType, NEW q \in Seq(Seq(Byte))
  PROVE  /\ [r EXCEPT !.buffer = q] \in ReaderType
         /\ [r EXCEPT !.buffer = q].buffer = q
         /\ [r EXCEPT !.buffer = q].mode = r.mode
         /\ [r EXCEPT !.buffer = q].rest = r.rest
         /\ [r EXCEPT !.buffer = q].want = r.want
         /\ [r EXCEPT !.buffer = q].states = r.states
         /\ [r EXCEPT !.buffer = q].high = r.high
BY DEF ReaderType

\* token_buffer is emptied.
LEMMA BufferCleared ==
  ASSUME NEW r, NEW m, NEW w, NEW e, Entered(r, m, w, e)
  PROVE  /\ [e EXCEPT !.buffer = <<>>] \in ReaderType
         /\ [e EXCEPT !.buffer = <<>>].buffer = <<>>
         /\ [e EXCEPT !.buffer = <<>>].mode = m
         /\ [e EXCEPT !.buffer = <<>>].rest = w
         /\ [e EXCEPT !.buffer = <<>>].want = r.want
         /\ [e EXCEPT !.buffer = <<>>].states = r.states
         /\ [e EXCEPT !.buffer = <<>>].high = r.high
<1> DEFINE s == [e EXCEPT !.buffer = <<>>]
<1>1. e \in ReaderType
  BY DEF Entered
<1>2. /\ s \in ReaderType /\ s.buffer = <<>> /\ s.mode = e.mode /\ s.rest = e.rest
      /\ s.want = e.want /\ s.states = e.states /\ s.high = e.high
  <2>1. <<>> \in Seq(Seq(Byte))
    OBVIOUS
  <2> QED BY <1>1, <2>1, BufferFields
<1> HIDE DEF s
<1>3. /\ s.mode = m /\ s.rest = w /\ s.want = r.want /\ s.states = r.states
      /\ s.high = r.high
  BY <1>2 DEF Entered
<1> QED BY <1>2, <1>3 DEF s

-----------------------------------------------------------------------------
\* Between two tokens, and after one.
Calm(r) ==
  /\ r \in ReaderType /\ BufferInv(r)
  /\ r.rest = <<>>
  /\ r.high = 0 \/ r.high \in High

\* What the reader is after a token.
Taken(r) ==
  /\ Calm(r) /\ StackInv(r)
  /\ r.want = "failed" \/ r.mode = "ready"

\* Moving the parser alone leaves the lexer between two tokens.
LEMMA CalmUntouched ==
  ASSUME NEW r, Calm(r), NEW s \in ReaderType, Untouched(r, s)
  PROVE  Calm(s)
BY DEF Calm, Untouched, BufferInv

\* After a token the invariant holds.
LEMMA TakenInv ==
  ASSUME NEW r, Taken(r)
  PROVE  ReaderInv(r)
BY DEF Taken, Calm, ReaderInv, LexerInv, FixedModes

\* A token may be refused,
LEMMA FailTaken ==
  ASSUME NEW r, Calm(r)
  PROVE  Taken(Fail(r)) /\ Fail(r).want = "failed"
<1>1. r \in ReaderType
  BY DEF Calm
<1>2. Calm(Fail(r)) /\ Fail(r).want = "failed"
  BY <1>1, FailFields, CalmUntouched
<1> QED BY <1>2 DEF Taken, StackInv

\* or lead to the next,
LEMMA WantTaken ==
  ASSUME NEW r, Calm(r), NEW w \in Wants,
         w \in {"next", "key", "colon"} => r.states # <<>>
  PROVE  /\ Taken(Want(r, w)) /\ Want(r, w).want = w
         /\ Want(r, w).states = r.states
<1>1. r \in ReaderType
  BY DEF Calm
<1>2. /\ Want(r, w) \in ReaderType /\ Want(r, w).want = w
      /\ Want(r, w).mode = "ready" /\ Want(r, w).states = r.states
      /\ Untouched(r, Want(r, w))
  BY <1>1, WantFields
<1>3. Calm(Want(r, w))
  BY <1>2, CalmUntouched
<1> QED BY <1>2, <1>3 DEF Taken, StackInv

\* A value ends the body, or another may follow.
LEMMA ValueReadTaken ==
  ASSUME NEW r, Calm(r)
  PROVE  Taken(ValueRead(r)) /\ ValueRead(r).want \in {"end", "next"}
<1>1. CASE r.states = <<>>
  <2>1. ValueRead(r) = Want(r, "end")
    BY <1>1 DEF ValueRead
  <2>2. Taken(Want(r, "end")) /\ Want(r, "end").want = "end"
    BY WantTaken DEF Wants
  <2> QED BY <2>1, <2>2
<1>2. CASE r.states # <<>>
  <2>1. ValueRead(r) = Want(r, "next")
    BY <1>2 DEF ValueRead
  <2>2. Taken(Want(r, "next")) /\ Want(r, "next").want = "next"
    BY <1>2, WantTaken DEF Wants
  <2> QED BY <2>1, <2>2
<1> QED BY <1>1, <1>2

\* or open a level,
LEMMA PushCalm ==
  ASSUME NEW r, Calm(r), NEW l \in Levels
  PROVE  Calm(Push(r, l)) /\ Push(r, l).states # <<>>
<1>1. r \in ReaderType
  BY DEF Calm
<1> QED BY <1>1, PushFields, CalmUntouched

\* or close one,
LEMMA PopTaken ==
  ASSUME NEW r, Calm(r), r.states # <<>>
  PROVE  Taken(Pop(r)) /\ Pop(r).want \in {"end", "next"}
<1> DEFINE st == Front(r.states)
           s == [r EXCEPT !.states = st]
<1>1. r \in ReaderType
  BY DEF Calm
<1>2. st \in Seq(Levels)
  <2> DEFINE q == r.states
  <2>1. q \in Seq(Levels) /\ q # <<>>
    BY <1>1 DEF ReaderType, Levels
  <2> HIDE DEF q
  <2>2. Front(q) \in Seq(Levels)
    BY <2>1 DEF Front
  <2> QED BY <2>2 DEF q
<1> HIDE DEF st
<1>3. s \in ReaderType /\ Untouched(r, s)
  BY <1>1, <1>2 DEF ReaderType, Levels, Untouched
<1>4. Calm(s)
  BY <1>3, CalmUntouched
<1>5. Pop(r) = ValueRead(s)
  BY <1>1 DEF Pop, ReaderType, st
<1> HIDE DEF s
<1> QED BY <1>4, <1>5, ValueReadTaken

\* or be a value.
LEMMA ValueTaken ==
  ASSUME NEW r, Calm(r), NEW token
  PROVE  /\ Taken(Value(r, token))
         /\ Value(r, token).want \in {"key1", "first", "end", "next", "failed"}
<1>1. CASE token = "begin_object"
  <2>1. Value(r, token) = Want(r, "key1")
    BY <1>1 DEF Value
  <2>2. Taken(Want(r, "key1")) /\ Want(r, "key1").want = "key1"
    BY WantTaken DEF Wants
  <2> QED BY <2>1, <2>2
<1>2. CASE token = "begin_array"
  <2>1. Value(r, token) = Want(r, "first")
    BY <1>2 DEF Value
  <2>2. Taken(Want(r, "first")) /\ Want(r, "first").want = "first"
    BY WantTaken DEF Wants
  <2> QED BY <2>1, <2>2
<1>3. CASE token \in {"string", "other"}
  <2>1. Value(r, token) = ValueRead(r)
    BY <1>3 DEF Value
  <2> QED BY <2>1, ValueReadTaken
<1>4. CASE token \notin {"begin_object", "begin_array", "string", "other"}
  <2>1. Value(r, token) = Fail(r)
    BY <1>4 DEF Value
  <2> QED BY <2>1, FailTaken
<1> QED BY <1>1, <1>2, <1>3, <1>4

\* What a token leads to: once the body is read, nothing but its end is taken, and
\* a value is waited for only inside a bracket or a brace.
Led(r, token, s) ==
  /\ Taken(s)
  /\ s.want = "value" => s.states # <<>>
  /\ r.want = "end" /\ token # "end_of_input" => s.want = "failed"
  /\ s.want = "accepted" => r.want = "end"

\* Every token leads so, wherever the parser waits.
LEMMA TakeLeads ==
  ASSUME NEW r, Calm(r), StackInv(r), r.want \notin {"accepted", "failed"},
         NEW token
  PROVE  Led(r, token, Take(r, token))
<1>0. /\ r \in ReaderType /\ r.want \in Wants
      /\ r.want \in {"next", "key", "colon"} => r.states # <<>>
  BY DEF Calm, ReaderType, StackInv
<1> DEFINE s == Take(r, token)
<1>1. CASE r.want = "value"
  <2>1. s = Value(r, token)
    BY <1>1 DEF Take
  <2> QED BY <1>1, <2>1, ValueTaken DEF Led
<1>2. CASE r.want = "first"
  <2>1. CASE token = "end_array"
    <3>1. s = ValueRead(r)
      BY <1>2, <2>1 DEF Take
    <3> QED BY <1>2, <3>1, ValueReadTaken DEF Led
  <2>2. CASE token # "end_array"
    <3>1. s = Value(Push(r, "array"), token)
      BY <1>2, <2>2 DEF Take
    <3>2. Calm(Push(r, "array"))
      BY PushCalm DEF Levels
    <3> QED BY <1>2, <3>1, <3>2, ValueTaken DEF Led
  <2> QED BY <2>1, <2>2
<1>3. CASE r.want = "key1"
  <2>1. CASE token = "end_object"
    <3>1. s = ValueRead(r)
      BY <1>3, <2>1 DEF Take
    <3> QED BY <1>3, <3>1, ValueReadTaken DEF Led
  <2>2. CASE token = "string"
    <3>1. s = Want(r, "colon1")
      BY <1>3, <2>2 DEF Take
    <3>2. Taken(Want(r, "colon1")) /\ Want(r, "colon1").want = "colon1"
      BY WantTaken DEF Wants
    <3> QED BY <1>3, <3>1, <3>2 DEF Led
  <2>3. CASE token \notin {"end_object", "string"}
    <3>1. s = Fail(r)
      BY <1>3, <2>3 DEF Take
    <3> QED BY <1>3, <3>1, FailTaken DEF Led
  <2> QED BY <2>1, <2>2, <2>3
<1>4. CASE r.want = "key"
  <2>1. CASE token = "string"
    <3>1. s = Want(r, "colon")
      BY <1>4, <2>1 DEF Take
    <3>2. Taken(Want(r, "colon")) /\ Want(r, "colon").want = "colon"
      BY <1>0, <1>4, WantTaken DEF Wants
    <3> QED BY <1>4, <3>1, <3>2 DEF Led
  <2>2. CASE token # "string"
    <3>1. s = Fail(r)
      BY <1>4, <2>2 DEF Take
    <3> QED BY <1>4, <3>1, FailTaken DEF Led
  <2> QED BY <2>1, <2>2
<1>5. CASE r.want = "colon1"
  <2>1. CASE token = "name_separator"
    <3>1. s = Want(Push(r, "object"), "value")
      BY <1>5, <2>1 DEF Take
    <3> DEFINE p == Push(r, "object")
    <3>2. Calm(p) /\ p.states # <<>>
      BY PushCalm DEF Levels
    <3> HIDE DEF p
    <3>3. /\ Taken(Want(p, "value")) /\ Want(p, "value").want = "value"
          /\ Want(p, "value").states = p.states
      BY <3>2, WantTaken DEF Wants
    <3>4. s = Want(p, "value")
      BY <3>1 DEF p
    <3> HIDE DEF s
    <3>5. Taken(s) /\ s.want = "value" /\ s.states # <<>>
      BY <3>2, <3>3, <3>4
    <3> QED BY <1>5, <3>5 DEF Led, s
  <2>2. CASE token # "name_separator"
    <3>1. s = Fail(r)
      BY <1>5, <2>2 DEF Take
    <3> QED BY <1>5, <3>1, FailTaken DEF Led
  <2> QED BY <2>1, <2>2
<1>6. CASE r.want = "colon"
  <2>1. CASE token = "name_separator"
    <3>1. s = Want(r, "value")
      BY <1>6, <2>1 DEF Take
    <3>2. /\ Taken(Want(r, "value")) /\ Want(r, "value").want = "value"
          /\ Want(r, "value").states = r.states
      BY WantTaken DEF Wants
    <3> QED BY <1>0, <1>6, <3>1, <3>2 DEF Led
  <2>2. CASE token # "name_separator"
    <3>1. s = Fail(r)
      BY <1>6, <2>2 DEF Take
    <3> QED BY <1>6, <3>1, FailTaken DEF Led
  <2> QED BY <2>1, <2>2
<1>7. CASE r.want = "next"
  <2>1. CASE token = "value_separator"
    <3> DEFINE w == AfterComma(r)
    <3>1. s = Want(r, w) /\ w \in {"value", "key"}
      <4>0. ~Closes(r, token)
        BY <2>1 DEF Closes
      <4>1. s = Want(r, w)
        BY <1>7, <2>1, <4>0 DEF Take
      <4>2. w \in {"value", "key"}
        BY DEF AfterComma
      <4> QED BY <4>1, <4>2
    <3> HIDE DEF w
    <3>2. /\ Taken(Want(r, w)) /\ Want(r, w).want = w
          /\ Want(r, w).states = r.states
      BY <1>0, <1>7, <3>1, WantTaken DEF Wants
    <3> QED BY <1>0, <1>7, <3>1, <3>2 DEF Led
  <2>2. CASE token # "value_separator" /\ Closes(r, token)
    <3>1. s = Pop(r)
      BY <1>7, <2>2 DEF Take
    <3> QED BY <1>0, <1>7, <3>1, PopTaken DEF Led
  <2>3. CASE token # "value_separator" /\ ~Closes(r, token)
    <3>1. s = Fail(r)
      BY <1>7, <2>3 DEF Take
    <3> QED BY <1>7, <3>1, FailTaken DEF Led
  <2> QED BY <2>1, <2>2, <2>3
<1>8. CASE r.want = "end"
  <2>1. CASE token = "end_of_input"
    <3>1. s = Want(r, "accepted")
      BY <1>8, <2>1 DEF Take
    <3>2. Taken(Want(r, "accepted")) /\ Want(r, "accepted").want = "accepted"
      BY WantTaken DEF Wants
    <3> QED BY <1>8, <2>1, <3>1, <3>2 DEF Led
  <2>2. CASE token # "end_of_input"
    <3>1. s = Fail(r)
      BY <1>8, <2>2 DEF Take
    <3> QED BY <3>1, FailTaken DEF Led
  <2> QED BY <2>1, <2>2
<1> QED BY <1>0, <1>1, <1>2, <1>3, <1>4, <1>5, <1>6, <1>7, <1>8 DEF Wants

-------------------------------------------------------------------------------
(* What every step of the reader has to keep.                                 *)

\* What has to be shown of a step from r to s: it keeps the invariant, it keeps an
\* opened body open and a dead one dead, and an opened body is accepted only when
\* its value was complete before.
Good(r, s) ==
  /\ ReaderInv(s)
  /\ OpenInv(r) => OpenInv(s)
  /\ Dead(r) => Dead(s)
  /\ OpenInv(r) /\ s.want = "accepted" => r.want = "end" /\ r.mode = "ready"

\* A reader that has neither accepted nor refused.
Live(r) == r.want \notin {"accepted", "failed"}

\* In the middle of a token.
Based(r) == r \in ReaderType /\ BufferInv(r) /\ StackInv(r)

\* Two such steps in a row are one.
LEMMA GoodThroughout ==
  ASSUME NEW r, NEW p, NEW s, Good(r, p), Good(p, s),
         OpenInv(r) => p.want # "end"
  PROVE  Good(r, s)
BY DEF Good

\* Refusing is such a step.
LEMMA FailGood ==
  ASSUME NEW r, r \in ReaderType, BufferInv(r)
  PROVE  Good(r, Fail(r))
<1>1. /\ Fail(r) \in ReaderType /\ Fail(r).want = "failed"
      /\ Fail(r).buffer = r.buffer
  BY FailFields DEF Untouched
<1>2. BufferInv(Fail(r))
  BY <1>1 DEF BufferInv
<1> QED BY <1>1, <1>2 DEF Good, ReaderInv, StackInv, OpenInv, Dead

\* A step inside a token.
LEMMA KeptGood ==
  ASSUME NEW r, NEW s, Live(r), ReaderInv(s),
         s.want = r.want, s.states = r.states,
         s.mode \notin {"start", "bom", "ready"},
         r.mode \in StringModes => s.mode \in StringModes
  PROVE  Good(r, s)
BY DEF Live, Good, OpenInv, Dead

\* The last step of a token.
LEMMA LedGood ==
  ASSUME NEW r, Live(r), NEW token, NEW s, Led(r, token, s),
         token # "end_of_input" \/ r.mode = "ready"
  PROVE  Good(r, s)
<1>1. ReaderInv(s)
  BY TakenInv DEF Led
<1>2. OpenInv(s)
  BY DEF Led, Taken, OpenInv
<1>3. Dead(r) => Dead(s)
  BY DEF Led, Live, Dead
<1>4. s.want = "accepted" => r.want = "end" /\ r.mode = "ready"
  BY DEF Led
<1> QED BY <1>1, <1>2, <1>3, <1>4 DEF Good

\* A number, a literal, a string begins.
LEMMA EnterGood ==
  ASSUME NEW r, Calm(r), StackInv(r), Live(r), r.mode = "ready",
         NEW m \in Modes, m \notin {"start", "bom", "ready"},
         NEW w \in Seq(SUBSET Byte), m \in FixedModes <=> w # <<>>,
         m \notin {"hex", "bytes", "low"}
  PROVE  /\ Good(r, Enter(r, m, w)) /\ Enter(r, m, w).want = r.want
         /\ Enter(r, m, w).mode = m
<1> DEFINE s == Enter(r, m, w)
<1>1. r \in ReaderType
  BY DEF Calm
<1>2. /\ s \in ReaderType /\ s.mode = m /\ s.rest = w /\ s.want = r.want
      /\ s.states = r.states /\ s.high = r.high /\ s.buffer = r.buffer
  BY <1>1, EnterFields
<1> HIDE DEF s
<1>3. ReaderInv(s)
  BY <1>2 DEF Calm, ReaderInv, BufferInv, StackInv, LexerInv
<1>4. Good(r, s)
  BY <1>2, <1>3, KeptGood DEF StringModes
<1> QED BY <1>2, <1>4 DEF s

\* A character is added.
LEMMA AddGood ==
  ASSUME NEW r, Based(r), Live(r), NEW t \in Seq(Byte), IsUtf8(t)
  PROVE  Good(r, Add(r, t))
<1> DEFINE e == Enter(r, "string", <<>>)
           bf == Append(r.buffer, t)
           s == Add(r, t)
<1>1. /\ e \in ReaderType /\ e.mode = "string" /\ e.rest = <<>>
      /\ e.want = r.want /\ e.states = r.states /\ e.buffer = r.buffer
  <2>1. "string" \in Modes /\ <<>> \in Seq(SUBSET Byte) /\ r \in ReaderType
    BY DEF Based, Modes, StringModes
  <2>2. Entered(r, "string", <<>>, e)
    BY <2>1, EnterNamed
  <2> HIDE DEF e
  <2> QED BY <2>2 DEF Entered
<1>2. bf \in Seq(Seq(Byte)) /\ \A k \in 1..Len(bf) : IsUtf8(bf[k])
  <2> DEFINE q == r.buffer
  <2>1. q \in Seq(Seq(Byte)) /\ \A k \in 1..Len(q) : IsUtf8(q[k])
    BY DEF Based, ReaderType, BufferInv
  <2> HIDE DEF q
  <2>2. Append(q, t) \in Seq(Seq(Byte)) /\ Len(Append(q, t)) = Len(q) + 1
    BY <2>1
  <2>3. ASSUME NEW k \in 1..Len(Append(q, t))
        PROVE  IsUtf8(Append(q, t)[k])
    <3>1. CASE k = Len(q) + 1
      <4>1. Append(q, t)[k] = t
        BY <2>1, <3>1
      <4> QED BY <4>1
    <3>2. CASE k # Len(q) + 1
      <4>1. k \in 1..Len(q)
        BY <2>1, <2>2, <3>2
      <4>2. Append(q, t)[k] = q[k]
        BY <2>1, <4>1
      <4> QED BY <2>1, <4>1, <4>2
    <3> QED BY <3>1, <3>2
  <2> QED BY <2>2, <2>3 DEF q
<1>3. s = [e EXCEPT !.buffer = bf, !.high = 0]
  BY <1>1 DEF Add
<1> HIDE DEF e, bf
<1>4. /\ s \in ReaderType /\ s.mode = "string" /\ s.rest = <<>>
      /\ s.want = r.want /\ s.states = r.states /\ s.buffer = bf /\ s.high = 0
  <2> DEFINE o == [e EXCEPT !.buffer = bf]
  <2>1. /\ o \in ReaderType /\ o.mode = e.mode /\ o.rest = e.rest
        /\ o.want = e.want /\ o.states = e.states /\ o.buffer = bf
    BY <1>1, <1>2 DEF ReaderType
  <2>2. s = [o EXCEPT !.high = 0]
    BY <1>1, <1>3 DEF ReaderType
  <2> HIDE DEF o, s
  <2> QED BY <1>1, <2>1, <2>2 DEF ReaderType
<1> HIDE DEF s
<1>5. ReaderInv(s)
  BY <1>2, <1>4 DEF Based, ReaderInv, BufferInv, StackInv, LexerInv, FixedModes
<1>6. Good(r, s)
  BY <1>4, <1>5, KeptGood DEF StringModes
<1> QED BY <1>6 DEF s

-------------------------------------------------------------------------------
(* scan, at the start of a token.                                             *)

\* Where tokens begin.
Resting(r) == Calm(r) /\ StackInv(r) /\ Live(r) /\ r.mode = "ready"

\* Where tokens begin the invariant holds.
LEMMA RestingInv ==
  ASSUME NEW r, Resting(r)
  PROVE  ReaderInv(r) /\ Good(r, r)
<1>1. ReaderInv(r)
  BY DEF Resting, Calm, ReaderInv, LexerInv, FixedModes
<1> QED BY <1>1 DEF Good, Resting, Live

\* Every token may be taken there,
LEMMA RestingTakes ==
  ASSUME NEW r, Resting(r), NEW token
  PROVE  Good(r, Take(r, token))
<1>1. Led(r, token, Take(r, token))
  BY TakeLeads DEF Resting, Live
<1> QED BY <1>1, LedGood DEF Resting

\* or the body refused.
LEMMA RestingFails ==
  ASSUME NEW r, Resting(r)
  PROVE  Good(r, Fail(r)) /\ Dead(Fail(r))
<1>1. r \in ReaderType /\ BufferInv(r)
  BY DEF Resting, Calm
<1> QED BY <1>1, FailGood, FailFields DEF Dead

\* What the first letter of a literal wants.
LEMMA LiteralWants ==
  ASSUME NEW b \in DOMAIN Literal
  PROVE  Literal[b] \in Seq(SUBSET Byte) /\ Literal[b] # <<>>
<1>1. b \in {102, 110, 116}
  BY DEF Literal
<1>2. CASE b = 116
  BY <1>2 DEF Literal, Byte
<1>3. CASE b = 102
  BY <1>3 DEF Literal, Byte
<1>4. CASE b = 110
  BY <1>4 DEF Literal, Byte
<1> QED BY <1>1, <1>2, <1>3, <1>4

\* What the first character of a number leads to.
LEMMA NumberStarts ==
  ASSUME NEW b \in DOMAIN NumberStart
  PROVE  NumberStart[b] \in NumberModes
<1>1. b \in Nat /\ (b = 45 \/ (48 <= b /\ b <= 57))
  BY DEF NumberStart, Digits
<1>2. CASE b = 45
  BY <1>2 DEF NumberStart, NumberModes, NumberDone, Digits
<1>3. CASE b = 48
  BY <1>3 DEF NumberStart, NumberModes, NumberDone, Digits
<1>4. CASE b # 45 /\ b # 48
  <2>1. b \in 49..57 /\ b \in Digits \cup {45}
    BY <1>1, <1>4 DEF Digits
  <2>2. NumberStart[b] = "any1"
    BY <1>4, <2>1 DEF NumberStart
  <2> QED BY <2>2 DEF NumberModes, NumberDone
<1> QED BY <1>2, <1>3, <1>4

\* No byte begins two kinds of tokens.
LEMMA OneKind ==
  ASSUME NEW b
  PROVE  /\ b \in Blanks => /\ b \notin DOMAIN Structural /\ b \notin DOMAIN Literal
                           /\ b \notin DOMAIN NumberStart /\ b # Quote
                           /\ b \notin {0, Eof}
         /\ b \in DOMAIN Structural =>
               /\ b \notin Blanks /\ b \notin DOMAIN Literal
               /\ b \notin DOMAIN NumberStart /\ b # Quote /\ b \notin {0, Eof}
<1>1. /\ DOMAIN Structural = {44, 58, 91, 93, 123, 125}
      /\ DOMAIN Literal = {102, 110, 116} /\ DOMAIN NumberStart = Digits \cup {45}
  BY DEF Structural, Literal, NumberStart
<1> QED BY <1>1 DEF Blanks, Digits, Quote, Eof

\* scan keeps the invariant; what is not blank, behind an end, does not make up.
LEMMA ScanGood ==
  ASSUME NEW r, Resting(r), NEW b
  PROVE  /\ Good(r, Scan(r, b))
         /\ r.want = "end" /\ b \notin Blanks \cup {0, Eof} => Dead(Scan(r, b))
<1> DEFINE s == Scan(r, b)
<1>0. /\ Calm(r) /\ StackInv(r) /\ Live(r) /\ r.mode = "ready"
      /\ r \in ReaderType
  BY DEF Resting, Calm
<1>1. CASE b \in Blanks
  <2>1. s = r
    BY <1>1, OneKind DEF Scan
  <2> QED BY <1>1, <2>1, RestingInv
<1>2. CASE b \in DOMAIN Structural
  <2>1. s = Take(r, Structural[b])
    BY <1>2, OneKind DEF Scan
  <2> DEFINE token == Structural[b]
  <2>2. token # "end_of_input"
    BY <1>2 DEF Structural
  <2> HIDE DEF token
  <2>3. Led(r, token, Take(r, token))
    BY <1>0, TakeLeads DEF Live
  <2>4. Good(r, Take(r, token))
    BY RestingTakes
  <2>5. r.want = "end" => Dead(Take(r, token))
    BY <2>2, <2>3 DEF Led, Dead
  <2>6. s = Take(r, token)
    BY <2>1 DEF token
  <2> QED BY <2>4, <2>5, <2>6
<1>3. CASE b \in DOMAIN Literal
  <2>1. s = Enter(r, "literal", Literal[b])
    BY <1>3 DEF Scan, Blanks, Structural, Literal, NumberStart, Quote, Eof, Digits
  <2> DEFINE w == Literal[b]
  <2>2. w \in Seq(SUBSET Byte) /\ w # <<>>
    BY <1>3, LiteralWants
  <2> HIDE DEF w
  <2>3. "literal" \in Modes /\ "literal" \in FixedModes
    BY DEF Modes, FixedModes
  <2>4. /\ Good(r, Enter(r, "literal", w)) /\ Enter(r, "literal", w).want = r.want
        /\ Enter(r, "literal", w).mode = "literal"
    BY <1>0, <2>2, <2>3, EnterGood
  <2>5. s = Enter(r, "literal", w)
    BY <2>1 DEF w
  <2> QED BY <2>4, <2>5 DEF Dead
<1>4. CASE b \in DOMAIN NumberStart
  <2>1. s = Enter(r, NumberStart[b], <<>>)
    BY <1>4 DEF Scan, Blanks, Structural, Literal, NumberStart, Quote, Eof, Digits
  <2> DEFINE m == NumberStart[b]
  <2>2. m \in NumberModes
    BY <1>4, NumberStarts
  <2> HIDE DEF m
  <2>3. /\ m \in Modes /\ m \notin FixedModes /\ <<>> \in Seq(SUBSET Byte)
        /\ m \notin {"start", "bom", "ready"} /\ m \notin {"hex", "bytes", "low"}
    BY <2>2 DEF Modes, FixedModes, NumberModes, NumberDone
  <2>4. /\ Good(r, Enter(r, m, <<>>)) /\ Enter(r, m, <<>>).want = r.want
        /\ Enter(r, m, <<>>).mode = m
    BY <1>0, <2>3, EnterGood
  <2>5. s = Enter(r, m, <<>>)
    BY <2>1 DEF m
  <2> QED BY <2>3, <2>4, <2>5 DEF Dead
<1>5. CASE b = Quote
  <2>1. s = [Enter(r, "string", <<>>) EXCEPT !.buffer = <<>>]
    BY <1>5 DEF Scan, Blanks, Structural, Literal, NumberStart, Quote, Eof, Digits
  <2> DEFINE e == Enter(r, "string", <<>>)
  <2>2. "string" \in Modes /\ "string" \notin FixedModes /\ <<>> \in Seq(SUBSET Byte)
    BY DEF Modes, StringModes, FixedModes
  <2>3. Entered(r, "string", <<>>, e)
    BY <1>0, <2>2, EnterNamed
  <2>4. s = [e EXCEPT !.buffer = <<>>]
    BY <2>1
  <2> HIDE DEF e, s
  <2>5. /\ s \in ReaderType /\ s.mode = "string" /\ s.rest = <<>>
        /\ s.want = r.want /\ s.states = r.states /\ s.high = r.high
        /\ s.buffer = <<>>
    BY <2>3, <2>4, BufferCleared
  <2>6. ReaderInv(s)
    BY <1>0, <2>5 DEF Calm, ReaderInv, BufferInv, StackInv, LexerInv, FixedModes
  <2>7. Good(r, s)
    BY <1>0, <2>5, <2>6, KeptGood DEF StringModes
  <2>8. r.want = "end" => Dead(s)
    BY <2>5 DEF Dead
  <2> QED BY <2>7, <2>8 DEF s
<1>6. CASE b \in {0, Eof}
  <2>1. s = Take(r, "end_of_input")
    BY <1>6 DEF Scan, Blanks, Structural, Literal, NumberStart, Quote, Eof, Digits
  <2> QED BY <1>6, <2>1, RestingTakes
<1>7. CASE /\ b \notin Blanks /\ b \notin DOMAIN Structural /\ b \notin DOMAIN Literal
           /\ b \notin DOMAIN NumberStart /\ b # Quote /\ b \notin {0, Eof}
  <2>1. s = Fail(r)
    BY <1>7 DEF Scan
  <2> QED BY <2>1, RestingFails
<1> QED BY <1>1, <1>2, <1>3, <1>4, <1>5, <1>6, <1>7

\* The wanted bytes are bytes.
LEMMA RangesTyped ==
  ASSUME NEW b \in Nat, 194 <= b, b <= 244
  PROVE  Ranges(b) \in Seq(SUBSET Byte) /\ Ranges(b) # <<>>
<1>0. /\ Cont \in SUBSET Byte /\ 160..191 \in SUBSET Byte /\ 128..159 \in SUBSET Byte
      /\ 144..191 \in SUBSET Byte /\ 128..143 \in SUBSET Byte
  BY DEF Cont, Byte
<1> DEFINE A == 160..191
           B == 128..159
           C == 144..191
           D == 128..143
           S == SUBSET Byte
<1>1. A \in S /\ B \in S /\ C \in S /\ D \in S /\ Cont \in S
  BY <1>0
<1>2. Ranges(b) \in {<<Cont>>, <<A, Cont>>, <<B, Cont>>, <<Cont, Cont>>,
                     <<C, Cont, Cont>>, <<D, Cont, Cont>>, <<Cont, Cont, Cont>>}
  BY DEF Ranges
<1> HIDE DEF A, B, C, D, S
<1>3. /\ <<Cont>> \in Seq(S) /\ <<A, Cont>> \in Seq(S) /\ <<B, Cont>> \in Seq(S)
      /\ <<Cont, Cont>> \in Seq(S)
  BY <1>1
<1>4. /\ <<C, Cont, Cont>> \in Seq(S) /\ <<D, Cont, Cont>> \in Seq(S)
      /\ <<Cont, Cont, Cont>> \in Seq(S)
  BY <1>1
<1>5. Ranges(b) \in Seq(S)
  BY <1>2, <1>3, <1>4
<1>6. Ranges(b) # <<>>
  BY <1>2
<1> QED BY <1>5, <1>6 DEF S

-------------------------------------------------------------------------------
(* Numbers and strings.                                                       *)

\* A literal or a number that ends a body is all of it.
LEMMA ValueReadEnds ==
  ASSUME NEW r, Calm(r), ValueRead(r).want = "end"
  PROVE  r.states = <<>>
<1> SUFFICES ASSUME r.states # <<>> PROVE FALSE
  OBVIOUS
<1>1. ValueRead(r) = Want(r, "next")
  BY DEF ValueRead
<1>2. Want(r, "next").want = "next"
  BY WantTaken DEF Wants
<1> QED BY <1>1, <1>2

\* A number or a literal that completes the body was the whole of it.
LEMMA OtherEnds ==
  ASSUME NEW r, Calm(r), StackInv(r), Live(r), Take(r, "other").want = "end"
  PROVE  r.want = "value" /\ r.states = <<>>
<1>0. r.want \in Wants /\ r \in ReaderType
  BY DEF Calm, ReaderType
<1>1. CASE r.want = "value"
  <2>1. Take(r, "other") = Value(r, "other")
    BY <1>1 DEF Take
  <2>2. Value(r, "other") = ValueRead(r)
    BY DEF Value
  <2> QED BY <1>1, <2>1, <2>2, ValueReadEnds
<1>2. CASE r.want = "first"
  <2> DEFINE p == Push(r, "array")
  <2>1. Take(r, "other") = Value(p, "other")
    BY <1>2 DEF Take
  <2>2. Value(p, "other") = ValueRead(p)
    BY DEF Value
  <2>3. Calm(p) /\ p.states # <<>>
    BY PushCalm DEF Levels
  <2> HIDE DEF p
  <2> QED BY <2>1, <2>2, <2>3, ValueReadEnds
<1>3. CASE r.want \notin {"value", "first"}
  <2>1. ~Closes(r, "other")
    BY DEF Closes
  <2>2. Take(r, "other") = Fail(r)
    BY <1>3, <2>1 DEF Take
  <2>3. Fail(r).want = "failed"
    BY <1>0, FailFields
  <2> QED BY <2>2, <2>3
<1> QED BY <1>1, <1>2, <1>3

\* scan_number goes from one of its states to another.
LEMMA NumberSteps ==
  ASSUME NEW m, NEW b
  PROVE  NumberStep(m, b) \in NumberModes \cup {"none"}
BY DEF NumberStep, NumberModes, NumberDone

\* scan_number keeps the invariant.
LEMMA ScanNumberGood ==
  ASSUME NEW r, Calm(r), StackInv(r), Live(r), r.mode \in NumberModes, NEW b
  PROVE  Good(r, ScanNumber(r, b))
<1> DEFINE s == ScanNumber(r, b)
           m == NumberStep(r.mode, b)
<1>0. r \in ReaderType /\ BufferInv(r)
  BY DEF Calm
<1>m. m \in NumberModes \cup {"none"}
  BY NumberSteps
<1>1. CASE m # "none"
  <2>1. s = [r EXCEPT !.mode = m]
    BY <1>1 DEF ScanNumber
  <2> HIDE DEF s, m
  <2>2. m \in Modes /\ m \notin FixedModes /\ m \notin {"start", "bom", "ready"}
    BY <1>m, <1>1 DEF Modes, NumberModes, NumberDone, FixedModes
  <2>3. m \notin {"hex", "low", "bytes"}
    BY <2>2 DEF FixedModes
  <2>4. /\ s \in ReaderType /\ s.mode = m /\ s.rest = r.rest
        /\ s.want = r.want /\ s.states = r.states /\ s.high = r.high
        /\ s.buffer = r.buffer
    BY <1>0, <2>1, <2>2 DEF ReaderType
  <2>5. ReaderInv(s)
    BY <2>2, <2>3, <2>4 DEF Calm, ReaderInv, BufferInv, StackInv, LexerInv
  <2>6. r.mode \notin StringModes
    BY DEF StringModes, NumberModes, NumberDone
  <2>7. Good(r, s)
    BY <2>2, <2>4, <2>5, <2>6, KeptGood
  <2> QED BY <2>7 DEF s
<1>2. CASE m = "none" /\ r.mode \in NumberDone
  <2> DEFINE p == Take(r, "other")
  <2>1. s = IF p.want = "failed" THEN p ELSE Scan(p, b)
    BY <1>2 DEF ScanNumber
  <2>2. Led(r, "other", p)
    BY TakeLeads DEF Live
  <2>3. p.want = "end" => r.want = "value" /\ r.states = <<>>
    BY OtherEnds
  <2> HIDE DEF p, s
  <2>4. Good(r, p)
    BY <2>2, LedGood
  <2>5. CASE p.want = "failed"
    BY <2>1, <2>4, <2>5 DEF s
  <2>6. CASE p.want # "failed"
    <3>1. s = Scan(p, b)
      BY <2>1, <2>6
    <3>2. p.want # "accepted"
      BY <2>2, <2>6 DEF Led
    <3>3. Resting(p)
      BY <2>2, <2>6, <3>2 DEF Led, Taken, Resting, Live
    <3>4. Good(p, Scan(p, b))
      BY <3>3, ScanGood
    <3>5. OpenInv(r) => p.want # "end"
      BY <2>3 DEF OpenInv, NumberModes, NumberDone, StringModes
    <3> QED BY <2>4, <3>1, <3>4, <3>5, GoodThroughout DEF s
  <2> QED BY <2>5, <2>6
<1>3. CASE m = "none" /\ r.mode \notin NumberDone
  <2>1. s = Fail(r)
    BY <1>3 DEF ScanNumber
  <2> QED BY <1>0, <2>1, FailGood
<1> QED BY <1>1, <1>2, <1>3

\* A byte that is a character by itself.
LEMMA ByteCharacter ==
  ASSUME NEW b \in Nat, b < 128
  PROVE  <<b>> \in Seq(Byte) /\ IsUtf8(<<b>>)
<1>1. b \in Byte
  BY DEF Byte
<1>2. <<b>> \in Seq(Byte)
  BY <1>1
<1> QED BY <1>2, OneUtf8

\* scan_string keeps the invariant.
LEMMA ScanStringGood ==
  ASSUME NEW r, Calm(r), StackInv(r), Live(r), r.mode = "string", NEW b
  PROVE  Good(r, ScanString(r, b))
<1> DEFINE s == ScanString(r, b)
<1>0. r \in ReaderType /\ BufferInv(r) /\ Based(r)
  BY DEF Calm, Based
<1>1. CASE b = Quote
  <2>1. s = Take(r, "string")
    BY <1>1 DEF ScanString, Quote, Backslash
  <2>2. Led(r, "string", Take(r, "string"))
    BY TakeLeads DEF Live
  <2> QED BY <2>1, <2>2, LedGood
<1>2. CASE b = Backslash
  <2>1. s = Enter(r, "escape", <<>>)
    BY <1>2 DEF ScanString, Quote, Backslash
  <2>2. "escape" \in Modes /\ "escape" \notin FixedModes /\ <<>> \in Seq(SUBSET Byte)
    BY DEF Modes, StringModes, FixedModes
  <2> HIDE DEF s
  <2>3. /\ s \in ReaderType /\ s.mode = "escape" /\ s.rest = <<>>
        /\ s.want = r.want /\ s.states = r.states /\ s.high = r.high
        /\ s.buffer = r.buffer
    <3> DEFINE e == Enter(r, "escape", <<>>)
    <3>1. Entered(r, "escape", <<>>, e)
      BY <1>0, <2>2, EnterNamed
    <3>2. s = e
      BY <2>1
    <3> HIDE DEF e
    <3> QED BY <3>1, <3>2 DEF Entered
  <2>4. ReaderInv(s)
    BY <2>2, <2>3 DEF Calm, ReaderInv, BufferInv, StackInv, LexerInv, FixedModes
  <2>5. Good(r, s)
    BY <2>3, <2>4, KeptGood DEF StringModes
  <2> QED BY <2>5 DEF s
<1>3. CASE b \in 32..127 \ {Quote, Backslash}
  <2>0. b # Quote /\ b # Backslash /\ b \notin 194..244
    BY <1>3
  <2>1. s = Add(r, <<b>>)
    BY <1>3, <2>0 DEF ScanString
  <2>2. b \in Nat /\ b < 128
    BY <1>3
  <2> QED BY <1>0, <2>1, <2>2, ByteCharacter, AddGood
<1>4. CASE b \in 194..244
  <2>0. b # Quote /\ b # Backslash /\ b \notin 32..127 \ {Quote, Backslash}
    BY <1>4 DEF Quote, Backslash
  <2>1. s = [Enter(r, "bytes", Ranges(b)) EXCEPT !.part = <<b>>]
    BY <1>4, <2>0 DEF ScanString
  <2> DEFINE w == Ranges(b)
             e == Enter(r, "bytes", w)
  <2>2. b \in Nat /\ 194 <= b /\ b <= 244 /\ b \in Byte
    <3>1. b \in Nat /\ 194 <= b /\ b <= 244
      BY <1>4
    <3> QED BY <3>1 DEF Byte
  <2>3. w \in Seq(SUBSET Byte) /\ w # <<>>
    BY <2>2, RangesTyped
  <2>4. "bytes" \in Modes /\ "bytes" \in FixedModes
    BY DEF Modes, FixedModes
  <2> HIDE DEF w
  <2>5. /\ e \in ReaderType /\ e.mode = "bytes" /\ e.rest = w
        /\ e.want = r.want /\ e.states = r.states /\ e.high = r.high
        /\ e.buffer = r.buffer
    BY <1>0, <2>3, <2>4, EnterFields
  <2>6. s = [e EXCEPT !.part = <<b>>]
    BY <2>1 DEF w
  <2> HIDE DEF e, s
  <2>7. <<b>> \in Seq(Byte)
    BY <2>2
  <2>8. /\ s \in ReaderType /\ s.mode = "bytes" /\ s.rest = w
        /\ s.want = r.want /\ s.states = r.states /\ s.high = r.high
        /\ s.buffer = r.buffer /\ s.part = <<b>>
    BY <2>5, <2>6, <2>7 DEF ReaderType
  <2>9. PartInv(s)
    BY <1>4, <2>3, <2>8 DEF PartInv, w
  <2>10. ReaderInv(s)
    BY <2>3, <2>4, <2>8, <2>9
       DEF Calm, ReaderInv, BufferInv, StackInv, LexerInv, FixedModes
  <2>11. Good(r, s)
    BY <2>8, <2>10, KeptGood DEF StringModes
  <2> QED BY <2>11 DEF s
<1>5. CASE /\ b # Quote /\ b # Backslash /\ b \notin 32..127 \ {Quote, Backslash}
           /\ b \notin 194..244
  <2>1. s = Fail(r)
    BY <1>5 DEF ScanString
  <2> QED BY <1>0, <2>1, FailGood
<1> QED BY <1>1, <1>2, <1>3, <1>4, <1>5

-------------------------------------------------------------------------------
(* Escapes, and the four digits behind a \u.                                  *)

\* The bytes of a character are bytes.
LEMMA EncodeBytes ==
  ASSUME NEW c \in Nat, c < 1114112
  PROVE  Encode(c) \in Seq(Byte)
<1> DEFINE S == Byte
<1>0. \A n \in Nat : n <= 255 => n \in S
  BY DEF Byte
<1>f. \A n \in Nat : Follow(n) \in S
  <2> TAKE n \in Nat
  <2>1. Follow(n) \in Nat /\ Follow(n) <= 255
    BY DEF Follow
  <2> QED BY <1>0, <2>1
<1> HIDE DEF S
<1>1. CASE c < 128
  <2>1. Encode(c) = <<c>>
    BY <1>1, OneByte
  <2>2. c \in S
    BY <1>0, <1>1
  <2>3. <<c>> \in Seq(S)
    BY <2>2
  <2> QED BY <2>1, <2>3 DEF S
<1>2. CASE 128 <= c /\ c < 2048
  <2> DEFINE p == 192 + c \div 64
             y == Follow(c)
  <2>1. Encode(c) = <<p, y>>
    BY <1>2, TwoBytes
  <2>2. p \in S /\ y \in S
    <3>1. p \in Nat /\ p <= 255
      BY <1>2
    <3> HIDE DEF p
    <3> QED BY <1>0, <1>f, <3>1
  <2> HIDE DEF p, y
  <2>3. <<p, y>> \in Seq(S)
    BY <2>2
  <2> QED BY <2>1, <2>3 DEF S
<1>3. CASE 2048 <= c /\ c < 65536
  <2> DEFINE p == 224 + c \div 4096
             d == c \div 64
             x == Follow(d)
             y == Follow(c)
  <2>1. Encode(c) = <<p, x, y>>
    BY <1>3, ThreeBytes
  <2>2. p \in S /\ x \in S /\ y \in S
    <3>1. p \in Nat /\ p <= 255 /\ d \in Nat
      BY <1>3
    <3> HIDE DEF p, d
    <3> QED BY <1>0, <1>f, <3>1
  <2> HIDE DEF p, d, x, y
  <2>3. <<p, x, y>> \in Seq(S)
    BY <2>2
  <2> QED BY <2>1, <2>3 DEF S
<1>4. CASE 65536 <= c
  <2> DEFINE p == 240 + c \div 262144
             e == c \div 4096
             d == c \div 64
             z == Follow(e)
             x == Follow(d)
             y == Follow(c)
  <2>1. Encode(c) = <<p, z, x, y>>
    BY <1>4, FourBytes
  <2>2. p \in S /\ z \in S /\ x \in S /\ y \in S
    <3>1. p \in Nat /\ p <= 255
      BY <1>4
    <3>2. d \in Nat /\ e \in Nat
      BY Quotients
    <3> HIDE DEF p, d, e
    <3> QED BY <1>0, <1>f, <3>1, <3>2
  <2> HIDE DEF p, d, e, z, x, y
  <2>3. <<p, z, x, y>> \in Seq(S)
    BY <2>2
  <2> QED BY <2>1, <2>3 DEF S
<1> QED BY <1>1, <1>2, <1>3, <1>4

\* A character is added, whatever it is.
LEMMA AddScalar ==
  ASSUME NEW r, Based(r), Live(r), NEW c, Scalar(c)
  PROVE  Good(r, Add(r, Encode(c)))
<1>1. Encode(c) \in Seq(Byte)
  BY ScalarBounds, EncodeBytes
<1>2. IsUtf8(Encode(c))
  BY CharacterMeant
<1> QED BY <1>1, <1>2, AddGood

\* Four digits are wanted.
LEMMA CodepointGood ==
  ASSUME NEW r, Based(r), Live(r), r.high = 0 \/ r.high \in High
  PROVE  Good(r, Codepoint(r))
<1> DEFINE w == <<Hex, Hex, Hex, Hex>>
           e == Enter(r, "hex", w)
           s == Codepoint(r)
<1>1. w \in Seq(SUBSET Byte) /\ w # <<>>
  <2>1. Hex \in SUBSET Byte
    BY DEF Hex, Digits, Byte
  <2> QED BY <2>1
<1>2. Len(w) = 4 /\ \A k \in 1..4 : w[k] = Hex
  <2> HIDE DEF Hex
  <2> QED OBVIOUS
<1>3. s = [e EXCEPT !.code = 0]
  BY DEF Codepoint
<1> HIDE DEF w
<1>4. "hex" \in Modes /\ "hex" \in FixedModes /\ r \in ReaderType
  BY DEF Modes, FixedModes, Based
<1>5. /\ e \in ReaderType /\ e.mode = "hex" /\ e.rest = w
      /\ e.want = r.want /\ e.states = r.states /\ e.high = r.high
      /\ e.buffer = r.buffer
  BY <1>1, <1>4, EnterFields
<1> HIDE DEF e, s
<1>6. /\ s \in ReaderType /\ s.mode = "hex" /\ s.rest = w
      /\ s.want = r.want /\ s.states = r.states /\ s.high = r.high
      /\ s.buffer = r.buffer /\ s.code = 0
  BY <1>3, <1>5 DEF ReaderType
<1>7. HexInv(s)
  <2>1. Len(s.rest) = 4 /\ \A k \in 1..4 : s.rest[k] = Hex
    BY <1>2, <1>6
  <2> DEFINE n == Len(s.rest)
  <2>2. n = 4 /\ \A k \in 1..n : s.rest[k] = Hex
    BY <2>1
  <2> HIDE DEF n
  <2>3. /\ n \in 1..4 /\ (n = 4 => s.code = 0) /\ (n = 3 => s.code < 16)
        /\ (n = 2 => s.code < 256) /\ (n = 1 => s.code < 4096)
    BY <1>6, <2>2
  <2> QED BY <2>2, <2>3 DEF HexInv, n
<1>8. ReaderInv(s)
  BY <1>1, <1>4, <1>6, <1>7 DEF Based, ReaderInv, BufferInv, StackInv, LexerInv
<1>9. Good(r, s)
  BY <1>6, <1>8, KeptGood DEF StringModes
<1> QED BY <1>9 DEF s

\* What an escape stands for is one byte.
LEMMA UnescapedByte ==
  ASSUME NEW b \in DOMAIN Unescaped
  PROVE  Unescaped[b] \in Nat /\ Unescaped[b] < 128
<1>1. b \in {34, 47, 92, 98, 102, 110, 114, 116}
  BY DEF Unescaped, Quote, Backslash
<1>2. CASE b \in {98, 102, 110, 114, 116}
  BY <1>2 DEF Unescaped, Quote, Backslash
<1>3. CASE b \in {34, 47, 92}
  BY <1>3 DEF Unescaped, Quote, Backslash
<1> QED BY <1>1, <1>2, <1>3

\* The escapes keep the invariant.
LEMMA ScanEscapeGood ==
  ASSUME NEW r, Calm(r), StackInv(r), Live(r), NEW b
  PROVE  Good(r, ScanEscape(r, b))
<1>0. r \in ReaderType /\ BufferInv(r) /\ Based(r) /\ (r.high = 0 \/ r.high \in High)
  BY DEF Calm, Based
<1>1. CASE b \in DOMAIN Unescaped
  <2>1. b # 117
    BY <1>1 DEF Unescaped, Quote, Backslash
  <2> DEFINE c == Unescaped[b]
  <2>2. ScanEscape(r, b) = Add(r, <<c>>)
    BY <1>1, <2>1 DEF ScanEscape
  <2>3. c \in Nat /\ c < 128
    BY <1>1, UnescapedByte
  <2> HIDE DEF c
  <2>4. <<c>> \in Seq(Byte) /\ IsUtf8(<<c>>)
    BY <2>3, ByteCharacter
  <2> QED BY <1>0, <2>2, <2>4, AddGood
<1>2. CASE b \notin DOMAIN Unescaped /\ b = 117
  <2>1. ScanEscape(r, b) = Codepoint(r)
    BY <1>2 DEF ScanEscape
  <2> QED BY <1>0, <2>1, CodepointGood
<1>3. CASE b \notin DOMAIN Unescaped /\ b # 117
  <2>1. ScanEscape(r, b) = Fail(r)
    BY <1>3 DEF ScanEscape
  <2> QED BY <1>0, <2>1, FailGood
<1> QED BY <1>1, <1>2, <1>3

\* Which numbers the surrogates are.
LEMMA HighBounds ==
  ASSUME NEW n \in Nat
  PROVE  n \in High <=> 55296 <= n /\ n <= 56319
BY DEF High

\* The low ones.
LEMMA LowBounds ==
  ASSUME NEW n \in Nat
  PROVE  n \in Low <=> 56320 <= n /\ n <= 57343
BY DEF Low

\* Two surrogates make a character, and so does what is none.
LEMMA PairScalar ==
  ASSUME NEW h \in Nat, NEW l \in Nat, 55296 <= h, h <= 56319, 56320 <= l, l <= 57343
  PROVE  Scalar((h * 1024) + l - 56613888)
BY DEF Scalar

\* A high surrogate is put aside.
SameBut(r, s) ==
  /\ s.mode = r.mode /\ s.rest = r.rest /\ s.want = r.want
  /\ s.states = r.states /\ s.buffer = r.buffer

\* Nothing else changes.
LEMMA HighFields ==
  ASSUME NEW r \in ReaderType, NEW c \in Nat
  PROVE  /\ [r EXCEPT !.high = c] \in ReaderType
         /\ [r EXCEPT !.high = c].high = c /\ SameBut(r, [r EXCEPT !.high = c])
BY DEF ReaderType, SameBut

\* What four digits can make. (A name, so that the number stays folded away.)
FourDigits(c) == c < 65536

\* Four digits keep the invariant.
LEMMA ScanCodepointGood ==
  ASSUME NEW r, Based(r), Live(r), r.high = 0 \/ r.high \in High, FourDigits(r.code)
  PROVE  Good(r, ScanCodepoint(r))
<1> DEFINE s == ScanCodepoint(r)
<1>0. /\ r \in ReaderType /\ BufferInv(r) /\ r.code \in Nat /\ r.high \in Nat
  BY DEF Based, ReaderType
<1>1. CASE r.high # 0
  <2>1. CASE r.code \in Low
    <3> DEFINE c == (r.high * 1024) + r.code - 56613888
    <3>1. s = Add(r, Encode(c))
      BY <1>1, <2>1 DEF ScanCodepoint
    <3>2. Scalar(c)
      <4>1. 55296 <= r.high /\ r.high <= 56319
        BY <1>0, <1>1, HighBounds
      <4>2. 56320 <= r.code /\ r.code <= 57343
        BY <1>0, <2>1, LowBounds
      <4> QED BY <1>0, <4>1, <4>2, PairScalar
    <3> HIDE DEF c
    <3> QED BY <3>1, <3>2, AddScalar
  <2>2. CASE r.code \notin Low
    <3>1. s = Fail(r)
      BY <1>1, <2>2 DEF ScanCodepoint
    <3> QED BY <1>0, <3>1, FailGood
  <2> QED BY <2>1, <2>2
<1>2. CASE r.high = 0 /\ r.code \in High
  <2> DEFINE w == <<{Backslash}, {117}>>
             e == Enter(r, "low", w)
  <2>1. s = [e EXCEPT !.high = r.code]
    <3>1. r.code \notin Low
      BY <1>0, <1>2, HighBounds, LowBounds
    <3> QED BY <1>2, <3>1 DEF ScanCodepoint
  <2>2. w \in Seq(SUBSET Byte) /\ w # <<>>
    <3> DEFINE A == {Backslash}
               B == {117}
               S == SUBSET Byte
    <3>1. A \in S /\ B \in S
      BY DEF Backslash, Byte
    <3> HIDE DEF A, B, S
    <3>2. <<A, B>> \in Seq(S) /\ <<A, B>> # <<>>
      BY <3>1
    <3> QED BY <3>2 DEF A, B, S
  <2>3. "low" \in Modes /\ "low" \in FixedModes
    BY DEF Modes, FixedModes
  <2> HIDE DEF w
  <2>4. /\ e \in ReaderType /\ e.mode = "low" /\ e.rest = w
        /\ e.want = r.want /\ e.states = r.states /\ e.buffer = r.buffer
    BY <1>0, <2>2, <2>3, EnterFields
  <2> HIDE DEF e, s
  <2>5. /\ s \in ReaderType /\ s.mode = "low" /\ s.rest = w
        /\ s.want = r.want /\ s.states = r.states /\ s.high = r.code
        /\ s.buffer = r.buffer
    <3>1. s \in ReaderType /\ s.high = r.code /\ SameBut(e, s)
      BY <1>0, <2>1, <2>4, HighFields
    <3> QED BY <2>4, <3>1 DEF SameBut
  <2>6. r.code # 0
    BY <1>0, <1>2, HighBounds
  <2>7. ReaderInv(s)
    BY <1>2, <2>2, <2>3, <2>5, <2>6
       DEF Based, ReaderInv, BufferInv, StackInv, LexerInv
  <2>8. Good(r, s)
    BY <2>5, <2>7, KeptGood DEF StringModes
  <2> QED BY <2>8 DEF s
<1>3. CASE r.high = 0 /\ r.code \notin High /\ r.code \in Low
  <2>1. s = Fail(r)
    BY <1>3 DEF ScanCodepoint
  <2> QED BY <1>0, <2>1, FailGood
<1>4. CASE r.high = 0 /\ r.code \notin High /\ r.code \notin Low
  <2>1. s = Add(r, Encode(r.code))
    BY <1>4 DEF ScanCodepoint
  <2> DEFINE c == r.code
  <2>2. Scalar(c)
    <3>1. c < 55296 \/ 57343 < c
      BY <1>0, <1>4, HighBounds, LowBounds
    <3> QED BY <1>0, <3>1 DEF Scalar, FourDigits
  <2> HIDE DEF c
  <2>3. s = Add(r, Encode(c))
    BY <2>1 DEF c
  <2> QED BY <2>2, <2>3, AddScalar
<1> QED BY <1>1, <1>2, <1>3, <1>4

-------------------------------------------------------------------------------
(* What a token is still owed: digits, letters, following bytes.              *)

\* A digit is four bits.
LEMMA HexDigits ==
  ASSUME NEW b \in Hex
  PROVE  HexValue(b) \in Nat /\ HexValue(b) < 16
<1>1. b \in Nat /\ ((48 <= b /\ b <= 57) \/ (65 <= b /\ b <= 70) \/ (97 <= b /\ b <= 102))
  BY DEF Hex, Digits
<1>2. CASE 48 <= b /\ b <= 57
  <2>1. b \in Digits /\ b \notin 65..70 /\ b \notin 97..102
    BY <1>1, <1>2 DEF Digits
  <2>2. HexValue(b) = b - 48
    BY <2>1 DEF HexValue
  <2> QED BY <1>1, <1>2, <2>2
<1>3. CASE 65 <= b /\ b <= 70
  <2>1. b \notin Digits /\ b \in 65..70 /\ b \notin 97..102
    BY <1>1, <1>3 DEF Digits
  <2>2. HexValue(b) = b - 55
    BY <2>1 DEF HexValue
  <2> QED BY <1>1, <1>3, <2>2
<1>4. CASE 97 <= b /\ b <= 102
  <2>1. b \notin Digits /\ b \notin 65..70 /\ b \in 97..102
    BY <1>1, <1>4 DEF Digits
  <2>2. HexValue(b) = b - 87
    BY <2>1 DEF HexValue
  <2> QED BY <1>1, <1>4, <2>2
<1> QED BY <1>1, <1>2, <1>3, <1>4

\* Where a step leads to depends on where the parser is, and on the mode.
LEMMA SameGood ==
  ASSUME NEW r, NEW s, NEW p, Good(s, p),
         s.want = r.want, s.states = r.states, s.mode = r.mode
  PROVE  Good(r, p)
BY DEF Good, OpenInv, Dead

\* The next of the wanted bytes came: what that leaves.
FollowedBy(r, b, s) ==
  /\ s \in ReaderType /\ s.rest = Tail(r.rest)
  /\ s.mode = r.mode /\ s.want = r.want /\ s.states = r.states
  /\ s.high = r.high /\ s.buffer = r.buffer
  /\ r.mode = "hex" => s.code = (r.code * 16) + HexValue(b)
  /\ r.mode = "bytes" => s.part = Append(r.part, b)

\* Followed leaves just that.
LEMMA FollowedFields ==
  ASSUME NEW r \in ReaderType, r.rest # <<>>, NEW b \in Byte,
         r.mode = "hex" => b \in Hex
  PROVE  FollowedBy(r, b, Followed(r, b))
<1> DEFINE cd == IF r.mode = "hex" THEN (r.code * 16) + HexValue(b) ELSE r.code
           pt == IF r.mode = "bytes" THEN Append(r.part, b) ELSE r.part
           rs == Tail(r.rest)
           s == Followed(r, b)
<1>1. cd \in Nat /\ (r.mode = "hex" => cd = (r.code * 16) + HexValue(b))
  <2>1. r.code \in Nat
    BY DEF ReaderType
  <2>2. CASE r.mode = "hex"
    <3>1. HexValue(b) \in Nat
      BY <2>2, HexDigits
    <3> QED BY <2>1, <2>2, <3>1
  <2>3. CASE r.mode # "hex"
    BY <2>1, <2>3
  <2> QED BY <2>2, <2>3
<1>2. pt \in Seq(Byte) /\ (r.mode = "bytes" => pt = Append(r.part, b))
  <2>1. r.part \in Seq(Byte)
    BY DEF ReaderType
  <2> DEFINE q == r.part
  <2> HIDE DEF q
  <2>2. q \in Seq(Byte) => Append(q, b) \in Seq(Byte)
    OBVIOUS
  <2>3. Append(r.part, b) \in Seq(Byte)
    BY <2>1, <2>2 DEF q
  <2> QED BY <2>1, <2>3
<1>3. rs \in Seq(SUBSET Byte)
  <2> DEFINE q == r.rest
             S == SUBSET Byte
  <2>1. q \in Seq(S) /\ q # <<>>
    BY DEF ReaderType
  <2> HIDE DEF q, S
  <2>2. Tail(q) \in Seq(S)
    BY <2>1
  <2> QED BY <2>2 DEF q, S
<1>4. s = [r EXCEPT !.rest = rs, !.code = cd, !.part = pt]
  BY DEF Followed, ReaderType
<1> HIDE DEF cd, pt, rs, s
<1> DEFINE o == [r EXCEPT !.rest = rs]
           u == [o EXCEPT !.code = cd]
<1>5. /\ o \in ReaderType /\ o.rest = rs /\ o.mode = r.mode /\ o.want = r.want
      /\ o.states = r.states /\ o.high = r.high /\ o.buffer = r.buffer
  BY <1>3 DEF ReaderType
<1>6. s = [u EXCEPT !.part = pt]
  BY <1>4 DEF ReaderType
<1> HIDE DEF o
<1>7. /\ u \in ReaderType /\ u.rest = o.rest /\ u.mode = o.mode /\ u.want = o.want
      /\ u.states = o.states /\ u.high = o.high /\ u.buffer = o.buffer
      /\ u.code = cd
  BY <1>1, <1>5 DEF ReaderType
<1> HIDE DEF u
<1>8. /\ s \in ReaderType /\ s.rest = u.rest /\ s.mode = u.mode /\ s.want = u.want
      /\ s.states = u.states /\ s.high = u.high /\ s.buffer = u.buffer
      /\ s.code = u.code /\ s.part = pt
  BY <1>2, <1>6, <1>7 DEF ReaderType
<1>9. /\ s.rest = Tail(r.rest) /\ s.mode = r.mode /\ s.want = r.want
      /\ s.states = r.states /\ s.high = r.high /\ s.buffer = r.buffer
      /\ s.code = cd /\ s.part = pt
  BY <1>5, <1>7, <1>8, Zenon DEF rs
<1> QED BY <1>1, <1>2, <1>8, <1>9 DEF FollowedBy, s

\* What is left without its first item.
Shortened(q, t) ==
  /\ Len(q) \in Nat /\ Len(t) \in Nat /\ Len(t) = Len(q) - 1
  /\ \A k \in 1..Len(t) : t[k] = q[k + 1]
  /\ t = <<>> <=> Len(t) = 0

\* Tail does.
LEMMA TailItems ==
  ASSUME NEW S, NEW q \in Seq(S), q # <<>>
  PROVE  Shortened(q, Tail(q)) /\ Tail(q) \in Seq(S)
<1> DEFINE t == Tail(q)
<1>1. /\ t \in Seq(S) /\ Len(t) = Len(q) - 1
      /\ \A k \in 1..Len(t) : t[k] = q[k + 1]
  BY HeadTailProperties
<1> HIDE DEF t
<1>2. Len(q) \in Nat /\ Len(t) \in Nat /\ (t = <<>> <=> Len(t) = 0)
  BY <1>1, EmptySeq
<1> QED BY <1>1, <1>2 DEF Shortened, t

\* What the digits before the last n can have made.
Made(n, c) ==
  /\ n = 4 => c = 0
  /\ n = 3 => c < 16
  /\ n = 2 => c < 256
  /\ n = 1 => c < 4096

\* A digit adds four bits.
LEMMA DigitMakes ==
  ASSUME NEW n \in Nat, 1 <= n, n <= 4, NEW c \in Nat, Made(n, c),
         NEW v \in Nat, v < 16
  PROVE  /\ n = 1 => FourDigits((c * 16) + v)
         /\ n # 1 => Made(n - 1, (c * 16) + v)
<1>1. CASE n = 4
  BY <1>1 DEF Made
<1>2. CASE n = 3
  BY <1>2 DEF Made
<1>3. CASE n = 2
  BY <1>3 DEF Made
<1>4. CASE n = 1
  BY <1>4 DEF Made, FourDigits
<1> QED BY <1>1, <1>2, <1>3, <1>4

\* The invariant of the digits, by what is left of them.
LEMMA HexParts ==
  ASSUME NEW r, NEW n, n = Len(r.rest)
  PROVE  HexInv(r) <=> /\ n \in 1..4 /\ Made(n, r.code)
                       /\ \A k \in 1..n : r.rest[k] = Hex
BY DEF HexInv, Made

\* One digit more, of those that were wanted.
LEMMA HexFollowed ==
  ASSUME NEW r, NEW b, NEW s, r.rest \in Seq(SUBSET Byte), r.code \in Nat,
         HexInv(r), b \in Hex,
         s.rest = Tail(r.rest), s.code = (r.code * 16) + HexValue(b)
  PROVE  /\ s.rest = <<>> => FourDigits(s.code)
         /\ s.rest # <<>> => HexInv(s)
<1> DEFINE q == r.rest
           t == Tail(q)
           n == Len(q)
           S == SUBSET Byte
           v == HexValue(b)
<1>1. v \in Nat /\ v < 16
  BY HexDigits
<1>2. n \in 1..4 /\ Made(n, r.code) /\ \A k \in 1..n : q[k] = Hex
  BY HexParts
<1>3. q \in Seq(S)
  OBVIOUS
<1> HIDE DEF v, S, q
<1>4. q # <<>>
  <2>1. n # 0
    <3>1. n \in 1..4
      BY <1>2
    <3> HIDE DEF n
    <3> QED BY <3>1
  <2>2. Len(<<>>) = 0
    OBVIOUS
  <2> QED BY <2>1, <2>2, Zenon DEF n
<1> DEFINE m == Len(t)
<1>5. /\ n \in Nat /\ m \in Nat /\ m = n - 1
      /\ (\A k \in 1..m : t[k] = q[k + 1]) /\ (t = <<>> <=> m = 0)
  <2>1. Shortened(q, t)
    BY <1>3, <1>4, TailItems
  <2> HIDE DEF t
  <2> QED BY <2>1 DEF Shortened
<1> HIDE DEF m, n, t
<1>6. \A k \in 1..m : t[k] = Hex
  BY <1>2, <1>5
<1>7. s.rest = t /\ s.code = (r.code * 16) + v
  BY DEF q, v, t
<1>8. /\ n = 1 => FourDigits(s.code)
      /\ n # 1 => Made(m, s.code)
  BY <1>1, <1>2, <1>5, <1>7, DigitMakes
<1>9. CASE m = 0
  <2>1. n = 1
    BY <1>5, <1>9
  <2>2. s.rest = <<>>
    BY <1>5, <1>7, <1>9
  <2> QED BY <1>8, <2>1, <2>2, Zenon
<1>10. CASE m # 0
  <2>1. s.rest # <<>>
    BY <1>5, <1>7, <1>10
  <2>2. n # 1 /\ m \in 1..4
    BY <1>2, <1>5, <1>10
  <2>3. m = Len(s.rest) /\ \A k \in 1..m : s.rest[k] = Hex
    BY <1>6, <1>7 DEF m
  <2>4. HexInv(s)
    BY <1>8, <2>2, <2>3, HexParts
  <2> QED BY <2>1, <2>4
<1> QED BY <1>9, <1>10

\* What is put behind a sequence.
Lengthened(t, b, u) ==
  /\ Len(t) \in Nat /\ Len(u) = Len(t) + 1
  /\ \A k \in 1..Len(t) : u[k] = t[k]
  /\ u[Len(t) + 1] = b

\* Append does.
LEMMA AppendItems ==
  ASSUME NEW S, NEW t \in Seq(S), NEW b \in S
  PROVE  Lengthened(t, b, Append(t, b))
<1> DEFINE u == Append(t, b)
<1>1. Len(t) \in Nat /\ Len(u) = Len(t) + 1
  OBVIOUS
<1>2. (\A k \in 1..Len(t) : u[k] = t[k]) /\ u[Len(t) + 1] = b
  OBVIOUS
<1> HIDE DEF u
<1> QED BY <1>1, <1>2 DEF Lengthened, u

\* One byte more of a character, of those that were wanted.
LEMMA PartFollowed ==
  ASSUME NEW r, NEW b \in Byte, NEW s,
         r.rest \in Seq(SUBSET Byte), r.part \in Seq(Byte),
         PartInv(r), r.rest # <<>>, b \in Head(r.rest),
         s.rest = Tail(r.rest), s.part = Append(r.part, b)
  PROVE  PartInv(s)
<1> DEFINE q == r.rest
           y == s.rest
           t == r.part
           u == s.part
           w == Ranges(t[1])
           n == Len(t)
           m == Len(u)
           g == Len(q)
           h == Len(y)
           l == Len(w)
<1>1. Shortened(q, y)
  BY TailItems
<1>2. Lengthened(t, b, u)
  BY AppendItems
<1>3. b \in q[1]
  OBVIOUS
<1>4. /\ n > 0 /\ t[1] \in 194..244 /\ n + g = l + 1
      /\ (\A k \in 2..n : t[k] \in w[k - 1])
      /\ (\A k \in 1..g : q[k] = w[n + k - 1])
  BY DEF PartInv
<1> HIDE DEF q, y, t, u, w
<1>5. /\ g \in Nat /\ h \in Nat /\ h = g - 1
      /\ \A k \in 1..h : y[k] = q[k + 1]
  BY <1>1 DEF Shortened
<1>6. /\ n \in Nat /\ m = n + 1 /\ (\A k \in 1..n : u[k] = t[k]) /\ u[n + 1] = b
  BY <1>2 DEF Lengthened
<1> HIDE DEF n, m, g, h, l
<1>7. u[1] = t[1]
  BY <1>4, <1>6
<1>8. m + h = l + 1
  BY <1>4, <1>5, <1>6
<1>9. \A k \in 2..m : u[k] \in w[k - 1]
  <2> TAKE k \in 2..m
  <2>1. CASE k <= n
    <3>1. k \in 2..n /\ k \in 1..n
      BY <1>6, <2>1
    <3> QED BY <1>4, <1>6, <3>1
  <2>2. CASE k > n
    <3>1. k = n + 1 /\ 1 \in 1..g
      BY <1>5, <1>6, <2>2
    <3>2. q[1] = w[n + 1 - 1]
      BY <1>4, <3>1
    <3>3. n + 1 - 1 = k - 1
      BY <1>6, <3>1
    <3> QED BY <1>3, <1>6, <3>1, <3>2, <3>3
  <2> QED BY <1>6, <2>1, <2>2
<1>10. \A k \in 1..h : y[k] = w[m + k - 1]
  <2> TAKE k \in 1..h
  <2>1. k + 1 \in 1..g
    BY <1>5
  <2>2. q[k + 1] = w[n + (k + 1) - 1]
    BY <1>4, <2>1
  <2>3. n + (k + 1) - 1 = m + k - 1
    BY <1>6
  <2> QED BY <1>5, <2>2, <2>3
<1>11. m > 0
  BY <1>6
<1>12. w = Ranges(u[1]) /\ u[1] \in 194..244
  BY <1>4, <1>7, Zenon DEF w
<1> QED BY <1>8, <1>9, <1>10, <1>11, <1>12 DEF PartInv, y, u, m, h, l

\* All the wanted bytes have come.
LEMMA CompleteGood ==
  ASSUME NEW r, Based(r), Live(r), r.rest = <<>>, r.mode \in FixedModes,
         r.high = 0 \/ r.high \in High,
         r.mode = "hex" => FourDigits(r.code),
         r.mode = "bytes" => PartInv(r)
  PROVE  Good(r, Complete(r))
<1> DEFINE s == Complete(r)
<1>0. /\ r \in ReaderType /\ BufferInv(r) /\ StackInv(r) /\ Calm(r)
      /\ r.part \in Seq(Byte)
  BY DEF Based, Calm, ReaderType
<1>1. CASE r.mode = "bom"
  <2>1. s = Enter(r, "ready", <<>>)
    BY <1>1 DEF Complete
  <2>2. "ready" \in Modes /\ "ready" \notin FixedModes /\ <<>> \in Seq(SUBSET Byte)
    BY DEF Modes, FixedModes
  <2> DEFINE e == Enter(r, "ready", <<>>)
  <2>6. Entered(r, "ready", <<>>, e)
    BY <1>0, <2>2, EnterNamed
  <2> HIDE DEF e
  <2>3. /\ e \in ReaderType /\ e.mode = "ready" /\ e.rest = <<>>
        /\ e.want = r.want /\ e.states = r.states /\ e.high = r.high
        /\ e.buffer = r.buffer
    BY <2>6 DEF Entered
  <2>4. ReaderInv(e)
    BY <1>0, <2>2, <2>3 DEF Calm, ReaderInv, BufferInv, StackInv, LexerInv, FixedModes
  <2>5. Good(r, e)
    BY <1>1, <2>3, <2>4 DEF Good, Live, OpenInv, Dead
  <2> QED BY <2>1, <2>5 DEF e
<1>2. CASE r.mode = "literal"
  <2>1. s = Take(r, "other")
    BY <1>2 DEF Complete
  <2>2. Led(r, "other", Take(r, "other"))
    BY <1>0, TakeLeads DEF Live
  <2> QED BY <2>1, <2>2, LedGood
<1>3. CASE r.mode = "bytes"
  <2>1. s = Add(r, r.part)
    BY <1>3 DEF Complete
  <2>2. IsUtf8(r.part)
    BY <1>0, <1>3, PartUtf8
  <2> QED BY <1>0, <2>1, <2>2, AddGood
<1>4. CASE r.mode = "low"
  <2>1. s = Codepoint(r)
    BY <1>4 DEF Complete
  <2> QED BY <2>1, CodepointGood
<1>5. CASE r.mode = "hex"
  <2>1. s = ScanCodepoint(r)
    BY <1>5 DEF Complete
  <2> QED BY <1>5, <2>1, ScanCodepointGood
<1> QED BY <1>1, <1>2, <1>3, <1>4, <1>5 DEF FixedModes

\* The next of the wanted bytes keeps the invariant.
LEMMA FollowsGood ==
  ASSUME NEW r, ReaderInv(r), Live(r), r.mode \in FixedModes,
         NEW b, b \in Head(r.rest)
  PROVE  Good(r, Follows(r, b))
<1> DEFINE s == Followed(r, b)
<1>0. /\ r \in ReaderType /\ BufferInv(r) /\ StackInv(r) /\ LexerInv(r)
      /\ r.rest # <<>> /\ r.rest \in Seq(SUBSET Byte) /\ r.part \in Seq(Byte)
      /\ r.code \in Nat
  BY DEF ReaderInv, LexerInv, ReaderType, Live
<1>1. b \in Byte
  <2> DEFINE q == r.rest
             S == SUBSET Byte
  <2>1. q \in Seq(S) /\ q # <<>>
    BY <1>0
  <2> HIDE DEF q, S
  <2>2. Head(q) \in S
    BY <2>1, HeadTailProperties
  <2>3. Head(r.rest) \in SUBSET Byte
    BY <2>2 DEF q, S
  <2> QED BY <2>3
<1>2. r.mode = "hex" => HexInv(r) /\ b \in Hex
  <2> SUFFICES ASSUME r.mode = "hex" PROVE HexInv(r) /\ b \in Hex
    OBVIOUS
  <2>1. HexInv(r)
    BY <1>0 DEF LexerInv
  <2>2. r.rest[1] = Hex
    BY <2>1 DEF HexInv
  <2>3. Head(r.rest) = r.rest[1]
    BY <1>0
  <2> QED BY <2>1, <2>2, <2>3
<1>3. FollowedBy(r, b, s)
  BY <1>0, <1>1, <1>2, FollowedFields
<1> HIDE DEF s
<1>4. /\ s \in ReaderType /\ s.rest = Tail(r.rest)
      /\ s.mode = r.mode /\ s.want = r.want /\ s.states = r.states
      /\ s.high = r.high /\ s.buffer = r.buffer
  BY <1>3 DEF FollowedBy
<1>5. r.mode = "hex" => /\ s.rest = <<>> => FourDigits(s.code)
                        /\ s.rest # <<>> => HexInv(s)
  <2> SUFFICES ASSUME r.mode = "hex"
               PROVE  /\ s.rest = <<>> => FourDigits(s.code)
                      /\ s.rest # <<>> => HexInv(s)
    OBVIOUS
  <2>1. s.code = (r.code * 16) + HexValue(b)
    BY <1>3 DEF FollowedBy
  <2> QED BY <1>0, <1>2, <1>4, <2>1, HexFollowed
<1>6. r.mode = "bytes" => PartInv(s)
  <2> SUFFICES ASSUME r.mode = "bytes" PROVE PartInv(s)
    OBVIOUS
  <2>1. s.part = Append(r.part, b) /\ PartInv(r)
    BY <1>0, <1>3 DEF FollowedBy, LexerInv
  <2> QED BY <1>0, <1>1, <1>4, <2>1, PartFollowed
<1>7. Based(s) /\ Live(s) /\ (s.high = 0 \/ s.high \in High)
  BY <1>0, <1>4 DEF Based, BufferInv, StackInv, Live, LexerInv
<1>8. CASE s.rest = <<>>
  <2>1. Follows(r, b) = Complete(s)
    BY <1>8 DEF Follows, s
  <2>2. Good(s, Complete(s))
    BY <1>4, <1>5, <1>6, <1>7, <1>8, CompleteGood
  <2> QED BY <1>4, <2>1, <2>2, SameGood
<1>9. CASE s.rest # <<>>
  <2>1. Follows(r, b) = s
    BY <1>9 DEF Follows, s
  <2>2. s.mode = "low" => s.high # 0
    BY <1>0, <1>4 DEF LexerInv
  <2>3. ReaderInv(s)
    BY <1>4, <1>5, <1>6, <1>7, <1>9, <2>2 DEF ReaderInv, LexerInv, Based
  <2>4. Good(r, s)
    BY <1>4, <2>3 DEF Good, OpenInv, Dead, Live
  <2> QED BY <2>1, <2>4
<1> QED BY <1>8, <1>9

-------------------------------------------------------------------------------
(* One step of the reader, whatever its mode; the first and the last one.     *)

\* Every step of a reader that has not stopped keeps the invariant.
LEMMA StepGood ==
  ASSUME NEW r, ReaderInv(r), Live(r), NEW b
  PROVE  Good(r, Step(r, b))
<1> DEFINE s == Step(r, b)
<1>0. /\ r \in ReaderType /\ BufferInv(r) /\ StackInv(r) /\ LexerInv(r)
      /\ r.want \notin {"accepted", "failed"} /\ r.mode \in Modes /\ r.want \in Wants
  BY DEF ReaderInv, ReaderType, Live
<1>1. CASE r.mode \in FixedModes
  <2>1. CASE b \in Head(r.rest)
    <3>1. s = Follows(r, b)
      BY <1>0, <1>1, <2>1 DEF Step
    <3> QED BY <1>1, <2>1, <3>1, FollowsGood
  <2>2. CASE b \notin Head(r.rest)
    <3>1. s = Fail(r)
      BY <1>0, <1>1, <2>2 DEF Step
    <3> QED BY <1>0, <3>1, FailGood
  <2> QED BY <2>1, <2>2
<1>2. CASE r.mode \notin FixedModes
  <2>0. r.rest = <<>> /\ Calm(r)
    BY <1>0, <1>2 DEF LexerInv, Calm
  <2>1. CASE r.mode = "start"
    <3>1. CASE b = 239
      <4> DEFINE w == <<{187}, {191}>>
                 e == Enter(r, "bom", w)
      <4>1. s = e
        BY <1>0, <1>2, <2>1, <3>1 DEF Step, NumberModes, NumberDone
      <4>2. w \in Seq(SUBSET Byte) /\ w # <<>>
        <5> DEFINE A == {187}
                   B == {191}
                   S == SUBSET Byte
        <5>1. A \in S /\ B \in S
          BY DEF Byte
        <5> HIDE DEF A, B, S
        <5>2. <<A, B>> \in Seq(S) /\ <<A, B>> # <<>>
          BY <5>1
        <5> QED BY <5>2 DEF A, B, S
      <4>3. "bom" \in Modes /\ "bom" \in FixedModes
        BY DEF Modes, FixedModes
      <4> HIDE DEF w, s
      <4>4. /\ e \in ReaderType /\ e.mode = "bom" /\ e.rest = w
            /\ e.want = r.want /\ e.states = r.states /\ e.high = r.high
            /\ e.buffer = r.buffer
        <5>1. r \in ReaderType
          BY <1>0
        <5> QED BY <4>2, <4>3, <5>1, EnterFields
      <4> HIDE DEF e
      <4>5. ReaderInv(e)
        BY <1>0, <4>2, <4>3, <4>4 DEF ReaderInv, BufferInv, StackInv, LexerInv
      <4>6. Good(r, e)
        BY <1>0, <2>1, <4>4, <4>5 DEF Good, OpenInv, Dead
      <4> QED BY <4>1, <4>6 DEF s
    <3>2. CASE b # 239
      <4> DEFINE p == Want(r, r.want)
      <4>1. s = Scan(p, b)
        BY <1>0, <1>2, <2>1, <3>2 DEF Step, NumberModes, NumberDone
      <4>2. Taken(p) /\ p.want = r.want
        BY <1>0, <2>0, WantTaken DEF StackInv
      <4> HIDE DEF p, s
      <4>3. Resting(p)
        BY <1>0, <4>2 DEF Taken, Resting, Live
      <4>4. Good(p, Scan(p, b))
        BY <4>3, ScanGood
      <4>5. Good(r, s)
        BY <1>0, <2>1, <4>1, <4>4 DEF Good, OpenInv, Dead
      <4> QED BY <4>5 DEF s
    <3> QED BY <3>1, <3>2
  <2>2. CASE r.mode = "ready"
    <3>1. s = Scan(r, b)
      BY <1>0, <1>2, <2>2 DEF Step, NumberModes, NumberDone
    <3>2. Resting(r)
      BY <1>0, <2>0, <2>2 DEF Resting, Live
    <3> QED BY <3>1, <3>2, ScanGood
  <2>3. CASE r.mode = "string"
    <3>1. s = ScanString(r, b)
      BY <1>0, <1>2, <2>3 DEF Step, NumberModes, NumberDone
    <3> QED BY <1>0, <2>0, <2>3, <3>1, ScanStringGood
  <2>4. CASE r.mode = "escape"
    <3>1. s = ScanEscape(r, b)
      BY <1>0, <1>2, <2>4 DEF Step, NumberModes, NumberDone
    <3> QED BY <1>0, <2>0, <3>1, ScanEscapeGood
  <2>5. CASE r.mode \in NumberModes
    <3>0. r.mode \notin {"start", "ready", "string", "escape"}
      BY <2>5 DEF NumberModes, NumberDone
    <3>1. s = ScanNumber(r, b)
      BY <1>0, <1>2, <2>5, <3>0 DEF Step
    <3> QED BY <1>0, <2>0, <2>5, <3>1, ScanNumberGood
  <2> QED BY <1>0, <1>2, <2>1, <2>2, <2>3, <2>4, <2>5
          DEF Modes, StringModes, FixedModes
<1> QED BY <1>1, <1>2

\* One that has stopped does nothing more.
LEMMA StepStopped ==
  ASSUME NEW r, ~Live(r), NEW b
  PROVE  Step(r, b) = r
BY DEF Step, Live

\* Neither makes a dead body one that is accepted.
LEMMA DeadRefused ==
  ASSUME NEW r, ReaderInv(r), Dead(r)
  PROVE  ~Accepts(r)
<1>1. CASE Live(r)
  <2>1. Good(r, Step(r, Eof))
    BY <1>1, StepGood
  <2> QED BY <2>1 DEF Good, Dead, Accepts
<1>2. CASE ~Live(r)
  <2>1. Step(r, Eof) = r
    BY <1>2, StepStopped
  <2> QED BY <2>1 DEF Dead, Accepts
<1> QED BY <1>1, <1>2

\* What comes behind a body that is accepted, and is not blank, makes it a dead one.
LEMMA AfterAccepted ==
  ASSUME NEW r, ReaderInv(r), OpenInv(r), Accepts(r), r.want # "accepted",
         NEW b, b \notin Blanks \cup {0, Eof}
  PROVE  Dead(Step(r, b))
<1>1. Live(r)
  <2>1. r.want = "failed" => Step(r, Eof) = r
    BY StepStopped DEF Live
  <2> QED BY <2>1 DEF Accepts, Live
<1>2. r.want = "end" /\ r.mode = "ready"
  <2>1. Good(r, Step(r, Eof))
    BY <1>1, StepGood
  <2> QED BY <2>1 DEF Good, Accepts
<1>3. /\ r \in ReaderType /\ BufferInv(r) /\ StackInv(r) /\ LexerInv(r)
  BY <1>1 DEF ReaderInv, Live
<1>4. Resting(r)
  BY <1>1, <1>2, <1>3 DEF Resting, Calm, LexerInv, FixedModes
<1>5. Step(r, b) = Scan(r, b)
  BY <1>2 DEF Step, FixedModes, NumberModes, NumberDone
<1> QED BY <1>2, <1>4, <1>5, ScanGood

\* The reader before the first byte.
LEMMA NewFields ==
  /\ ReaderInv(NewReader) /\ Live(NewReader) /\ NewReader \in ReaderType
  /\ NewReader.want = "value" /\ NewReader.mode = "start"
  /\ NewReader.states = <<>> /\ NewReader.buffer = <<>>
<1> DEFINE r == NewReader
<1>1. /\ r.want = "value" /\ r.mode = "start" /\ r.states = <<>> /\ r.buffer = <<>>
      /\ r.rest = <<>> /\ r.high = 0
  BY DEF NewReader
<1>2. r \in ReaderType
  <2>1. "start" \in Modes /\ "value" \in Wants
    BY DEF Modes, Wants
  <2> QED BY <2>1 DEF NewReader, ReaderType
<1> HIDE DEF r
<1>3. ReaderInv(r)
  BY <1>1, <1>2 DEF ReaderInv, StackInv, BufferInv, LexerInv, FixedModes
<1> QED BY <1>1, <1>2, <1>3 DEF Live, r

\* No body is empty.
LEMMA NewRefused ==
  ~Accepts(NewReader)
<1> DEFINE r == NewReader
           p == Want(r, "value")
<1>1. Step(r, Eof) = Scan(p, Eof)
  <2>1. r.want = "value" /\ r.mode = "start"
    BY NewFields
  <2> HIDE DEF r
  <2> QED BY <2>1 DEF Step, FixedModes, NumberModes, NumberDone, Eof
<1>2. p.want = "value" /\ p \in ReaderType
  BY NewFields, WantFields DEF Wants
<1> HIDE DEF p, r
<1>3. Scan(p, Eof) = Take(p, "end_of_input")
  <2>1. /\ Eof \notin Blanks /\ Eof \notin DOMAIN Structural
        /\ Eof \notin DOMAIN Literal /\ Eof \notin DOMAIN NumberStart /\ Eof # Quote
    BY OneKind DEF Literal, NumberStart, Digits, Quote, Eof
  <2> QED BY <2>1 DEF Scan
<1>4. Take(p, "end_of_input") = Value(p, "end_of_input")
  BY <1>2 DEF Take
<1>5. Value(p, "end_of_input") = Fail(p)
  BY DEF Value
<1>6. Fail(p).want = "failed"
  BY <1>2, FailFields
<1> QED BY <1>1, <1>3, <1>4, <1>5, <1>6 DEF Accepts, r

\* What opens a body.
LEMMA OpeningStep ==
  ASSUME NEW b \in {34, 91, 123}
  PROVE  OpenInv(Step(NewReader, b))
<1> DEFINE r == NewReader
           p == Want(r, "value")
           s == Step(r, b)
<1>1. Step(r, b) = Scan(p, b)
  <2>1. r.want = "value" /\ r.mode = "start" /\ b # 239
    BY NewFields
  <2> HIDE DEF r
  <2> QED BY <2>1 DEF Step, FixedModes, NumberModes, NumberDone
<1>2. p.want = "value" /\ p.mode = "ready" /\ p \in ReaderType
  BY NewFields, WantFields DEF Wants
<1> HIDE DEF p
<1>3. CASE b = 34
  <2>1. /\ b \notin Blanks /\ b \notin DOMAIN Structural /\ b \notin DOMAIN Literal
        /\ b \notin DOMAIN NumberStart /\ b = Quote /\ b \notin {0, Eof}
    <3>1. /\ DOMAIN Literal = {102, 110, 116} /\ DOMAIN NumberStart = Digits \cup {45}
          /\ DOMAIN Structural = {44, 58, 91, 93, 123, 125}
      BY DEF Literal, NumberStart, Structural
    <3> QED BY <1>3, <3>1 DEF Blanks, Digits, Quote, Eof
  <2>2. Scan(p, b) = [Enter(p, "string", <<>>) EXCEPT !.buffer = <<>>]
    BY <2>1 DEF Scan
  <2>3. Scan(p, b).mode = "string"
    BY <1>2, <2>2 DEF Enter, ReaderType
  <2> QED BY <1>1, <2>3 DEF OpenInv, StringModes
<1>4. CASE b \in {91, 123}
  <2>1. /\ b \in DOMAIN Structural
        /\ b = 91 => Structural[b] = "begin_array"
        /\ b = 123 => Structural[b] = "begin_object"
    BY <1>4 DEF Structural
  <2>2. Scan(p, b) = Take(p, Structural[b])
    BY <2>1, OneKind DEF Scan
  <2>3. Take(p, Structural[b]) = Value(p, Structural[b])
    BY <1>2 DEF Take
  <2>4. PICK w \in {"first", "key1"} : Scan(p, b) = Want(p, w)
    <3>1. CASE b = 91
      <4>1. Value(p, "begin_array") = Want(p, "first")
        BY DEF Value
      <4> QED BY <2>1, <2>2, <2>3, <3>1, <4>1
    <3>2. CASE b = 123
      <4>1. Value(p, "begin_object") = Want(p, "key1")
        BY DEF Value
      <4> QED BY <2>1, <2>2, <2>3, <3>2, <4>1
    <3> QED BY <1>4, <3>1, <3>2
  <2>5. Want(p, w).want = w /\ Want(p, w).mode = "ready"
    BY <1>2, WantFields DEF Wants
  <2> QED BY <1>1, <2>4, <2>5 DEF OpenInv
<1> QED BY <1>3, <1>4

-------------------------------------------------------------------------------
(* A run of the reader.                                                       *)

\* What comes is bytes.
LEMMA ComingBytes ==
  ASSUME scope \in Scopes, text \in Seq(Byte)
  PROVE  Coming \subseteq Byte
<1> DEFINE q == scope.start
           k == Len(text) + 1
<1>1. /\ q \in Seq(Byte) /\ scope.bytes \in SUBSET Byte
      /\ scope.more \in Nat
  BY ScopesAssumption
<1>2. k \in Nat /\ k > 0
  OBVIOUS
<1> HIDE DEF q, k
<1>3. k <= Len(q) => q[k] \in Byte
  BY <1>1, <1>2
<1>4. Coming \subseteq Byte
  <2>1. CASE k <= Len(q)
    <3>1. Coming = {q[k]}
      BY <2>1 DEF Coming, q, k
    <3> QED BY <1>3, <2>1, <3>1
  <2>2. CASE ~(k <= Len(q))
    <3>1. Coming \in {scope.bytes, {}}
      BY <2>2 DEF Coming, q, k
    <3> QED BY <1>1, <3>1
  <2> QED BY <2>1, <2>2
<1> QED BY <1>4

\* dump and decode take every string that was read.
LEMMA StringsRead ==
  ASSUME ReaderInv(reader)
  PROVE  StringsDump
<1> SUFFICES ASSUME NEW k \in 1..Len(reader.buffer)
             PROVE  /\ IsUtf8(reader.buffer[k])
                    /\ Decoded(Accept, reader.buffer[k]) = Accept
  BY DEF StringsDump
<1> DEFINE t == reader.buffer[k]
<1>1. IsUtf8(t)
  BY DEF ReaderInv, BufferInv
<1> HIDE DEF t
<1>2. IsUtf8(t) /\ Decoded(Accept, t) = Accept
  BY <1>1, Utf8Decoded
<1> QED BY <1>2 DEF t

\* It begins with a new reader and no bytes.
LEMMA JsonInitInv ==
  JsonInit => JsonInv
<1> SUFFICES ASSUME JsonInit PROVE JsonInv
  OBVIOUS
<1>1. scope \in Scopes /\ text = <<>> /\ reader = NewReader /\ early = FALSE
  BY DEF JsonInit
<1>6. text \in Seq(Byte) /\ early \in BOOLEAN /\ ~early
  <2>1. <<>> \in Seq(Byte)
    OBVIOUS
  <2>2. text \in Seq(Byte)
    BY <1>1, <2>1, Zenon
  <2>3. early \in BOOLEAN /\ ~early
    BY <1>1
  <2> QED BY <2>2, <2>3
<1>7. ~Opened
  BY <1>1, Zenon DEF Opened
<1>2. text \in Seq(Byte) /\ early \in BOOLEAN /\ ~early /\ ~Opened
  BY <1>6, <1>7
<1>3. ReaderInv(reader)
  BY <1>1, NewFields
<1>4. StringsDump
  BY <1>3, StringsRead
<1>5. CutRefused
  BY <1>2 DEF CutRefused
<1> QED BY <1>1, <1>2, <1>3, <1>4, <1>5 DEF JsonInv

\* What a byte more leaves of the first.
LEMMA AppendFirst ==
  ASSUME NEW S, NEW t \in Seq(S), NEW b \in S
  PROVE  /\ Append(t, b) \in Seq(S) /\ Append(t, b) # <<>>
         /\ t # <<>> => Append(t, b)[1] = t[1]
         /\ t = <<>> => Append(t, b)[1] = b
<1>1. Append(t, b) \in Seq(S)
  OBVIOUS
<1>4. Append(t, b) # <<>>
  <2>1. Len(Append(t, b)) = Len(t) + 1 /\ Len(t) \in Nat
    OBVIOUS
  <2>2. Len(Append(t, b)) # 0
    BY <2>1
  <2>3. Len(<<>>) = 0
    OBVIOUS
  <2> QED BY <2>2, <2>3, Zenon
<1>2. t # <<>> => Append(t, b)[1] = t[1]
  OBVIOUS
<1>3. t = <<>> => Append(t, b)[1] = b
  OBVIOUS
<1> QED BY <1>1, <1>2, <1>3, <1>4

\* Whether a body is opened is settled by its first byte.
LEMMA OpenedNext ==
  ASSUME text \in Seq(Byte), NEW b \in Byte, text' = Append(text, b)
  PROVE  /\ text' \in Seq(Byte) /\ text' # <<>>
         /\ text # <<>> => (Opened' <=> Opened)
         /\ text = <<>> => (Opened' <=> b \in {34, 91, 123})
<1>1. text' \in Seq(Byte) /\ text' # <<>>
  BY AppendFirst
<1>2. text # <<>> => text'[1] = text[1]
  BY AppendFirst
<1>3. text = <<>> => text'[1] = b
  BY AppendFirst
<1> DEFINE Opens == {34, 91, 123}
<1>4. Opened' <=> text'[1] \in Opens
  BY <1>1, Zenon DEF Opened
<1>5. text # <<>> => (Opened <=> text[1] \in Opens)
  BY Zenon DEF Opened
<1> HIDE DEF Opens
<1>6. text # <<>> => (Opened' <=> Opened)
  BY <1>2, <1>4, <1>5, Zenon
<1>7. text = <<>> => (Opened' <=> b \in Opens)
  BY <1>3, <1>4, Zenon
<1> QED BY <1>1, <1>6, <1>7, Zenon DEF Opens

\* Every byte keeps the invariant.
LEMMA ReadByteInv ==
  ASSUME JsonInv, NEW b \in Coming, ReadByte(b)
  PROVE  JsonInv'
<1>0. /\ scope \in Scopes /\ text \in Seq(Byte) /\ early \in BOOLEAN
      /\ text = <<>> => reader = NewReader /\ ~early
      /\ ReaderInv(reader)
      /\ Opened => OpenInv(reader)
      /\ early /\ Opened => Dead(reader)
  BY DEF JsonInv
<1>1. /\ text' = Append(text, b) /\ reader' = Step(reader, b) /\ scope' = scope
      /\ early' = (early \/ (/\ Accepts(reader) /\ reader.want # "accepted"
                             /\ b \notin Blanks \cup {0}))
  BY DEF ReadByte
<1>2. b \in Byte /\ b # Eof
  <2>1. b \in Byte
    BY <1>0, ComingBytes
  <2> QED BY <2>1 DEF Byte, Eof
<1>3. /\ text' \in Seq(Byte) /\ text' # <<>>
      /\ text # <<>> => (Opened' <=> Opened)
      /\ text = <<>> => (Opened' <=> b \in {34, 91, 123})
  BY <1>0, <1>1, <1>2, OpenedNext
<1>4. scope' \in Scopes /\ early' \in BOOLEAN
  BY <1>0, <1>1
<1>5. Live(reader) => Good(reader, reader')
  BY <1>0, <1>1, StepGood
<1>6. ~Live(reader) => reader' = reader
  BY <1>1, StepStopped
<1>7. ReaderInv(reader)'
  <2>1. CASE Live(reader)
    BY <1>5, <2>1 DEF Good
  <2>2. CASE ~Live(reader)
    BY <1>0, <1>6, <2>2
  <2> QED BY <2>1, <2>2
<1>8. Opened' => OpenInv(reader')
  <2> SUFFICES ASSUME Opened' PROVE OpenInv(reader')
    OBVIOUS
  <2>1. CASE text = <<>>
    BY <1>0, <1>1, <1>3, <2>1, OpeningStep
  <2>2. CASE text # <<>>
    <3>1. OpenInv(reader)
      BY <1>0, <1>3, <2>2
    <3>2. CASE Live(reader)
      BY <1>5, <3>1, <3>2 DEF Good
    <3>3. CASE ~Live(reader)
      BY <1>6, <3>1, <3>3
    <3> QED BY <3>2, <3>3
  <2> QED BY <2>1, <2>2
<1>9. early' /\ Opened' => Dead(reader')
  <2> SUFFICES ASSUME early', Opened' PROVE Dead(reader')
    OBVIOUS
  <2>1. CASE text = <<>>
    <3>1. reader = NewReader /\ ~early
      BY <1>0, <2>1
    <3>2. Accepts(NewReader)
      BY <1>1, <3>1
    <3> QED BY <3>2, NewRefused
  <2>2. CASE text # <<>> /\ early
    <3>1. Dead(reader)
      BY <1>0, <1>3, <2>2
    <3>2. CASE Live(reader)
      BY <1>5, <3>1, <3>2 DEF Good
    <3>3. CASE ~Live(reader)
      BY <1>6, <3>1, <3>3
    <3> QED BY <3>2, <3>3
  <2>3. CASE text # <<>> /\ ~early
    <3>1. /\ Accepts(reader) /\ reader.want # "accepted"
          /\ b \notin Blanks \cup {0}
      BY <1>1, <2>3
    <3>2. OpenInv(reader)
      BY <1>0, <1>3, <2>3
    <3>3. b \notin Blanks \cup {0, Eof}
      BY <1>2, <3>1
    <3>4. Dead(Step(reader, b))
      BY <1>0, <3>1, <3>2, <3>3, AfterAccepted
    <3> QED BY <1>1, <3>4
  <2> QED BY <2>1, <2>2, <2>3
<1>10. StringsDump'
  BY <1>7, StringsRead, PTL
<1>11. CutRefused'
  <2>1. early' /\ Opened' => ~Accepts(reader')
    <3>1. ReaderInv(reader')
      BY <1>7
    <3> QED BY <1>9, <3>1, DeadRefused
  <2> QED BY <2>1 DEF CutRefused
<1> QED BY <1>3, <1>4, <1>7, <1>8, <1>9, <1>10, <1>11 DEF JsonInv

\* The invariant of the reader: every string it reads is UTF-8 that dump takes, and
\* no body that opens with a bracket, a brace or a quote is accepted when cut.
THEOREM ReaderInvariant == JsonSpec => []JsonInv
<1>1. JsonInv /\ [JsonNext]_jsonVars => JsonInv'
  <2> SUFFICES ASSUME JsonInv, [JsonNext]_jsonVars PROVE JsonInv'
    OBVIOUS
  <2>1. CASE JsonNext
    <3>1. PICK b \in Coming : ReadByte(b)
      BY <2>1 DEF JsonNext
    <3> QED BY <3>1, ReadByteInv
  <2>2. CASE UNCHANGED jsonVars
    BY <2>2 DEF jsonVars, JsonInv, Opened, StringsDump, CutRefused
  <2> QED BY <2>1, <2>2
<1> QED BY <1>1, JsonInitInv, PTL DEF JsonSpec

\* What was accepted stays so only as long as blanks follow: no such body is
\* accepted when it is cut.
THEOREM CutsAreRefused == JsonSpec => []CutRefused
<1>1. JsonInv => CutRefused
  BY DEF JsonInv
<1> QED BY <1>1, ReaderInvariant, PTL

\* Every string that parse lets through is UTF-8, and decode reads it to its end.
THEOREM StringsAreDumped == JsonSpec => []StringsDump
<1>1. JsonInv => StringsDump
  BY DEF JsonInv
<1> QED BY <1>1, ReaderInvariant, PTL
===============================================================================
