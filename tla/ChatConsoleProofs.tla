-------------------------- MODULE ChatConsoleProofs --------------------------
EXTENDS ChatPacket, TLAPS

\* Lengths are natural numbers, and words do not overlap.
LEMMA LineLengths ==
  ASSUME NEW l \in Lines
  PROVE  /\ l \in LineType /\ WellFormed(l)
         /\ TextAt(l) \in Nat /\ TextEnd(l) \in Nat /\ Length(l) \in Nat
         /\ TextAt(l) <= TextEnd(l) /\ TextEnd(l) <= Length(l)
         /\ PortAt(l) \in Nat /\ PortEnd(l) \in Nat
         /\ PortAt(l) <= PortEnd(l) /\ PortEnd(l) <= TextAt(l)
         /\ TextAt(l) <= TextEnd(l) /\ TextEnd(l) <= Length(l)
         /\ Stored(l) \in Nat
         /\ Stored(l) <= Capacity /\ Stored(l) <= Length(l)
  BY LinesAssumption DEF LineType, WellFormed, PortAt, PortEnd, TextAt, TextEnd,
                         Length, Stored, Least, Capacity

\* What is stored of a part lies inside the line stored.
LEMMA KeptPart ==
  ASSUME NEW place \in Nat, NEW n \in Nat
  PROVE  /\ Kept(place, n) \in Nat /\ Kept(place, n) <= n
         /\ Kept(place, n) > 0 => n > 0 /\ place < Capacity
                                 /\ place + Kept(place, n) <= Capacity
         /\ n > 0 /\ Kept(place, n) = 0 => place >= Capacity
         /\ Kept(place, n) < n => place + Kept(place, n) >= Capacity
BY DEF Kept, Least, Capacity

LEMMA KeptParts ==
  ASSUME NEW l \in Lines
  PROVE  /\ KeptIp(l) \in Nat /\ KeptPort(l) \in Nat /\ KeptText(l) \in Nat
         /\ Offset(l) \in Nat
         /\ KeptIp(l) <= l.ip /\ KeptPort(l) <= l.port
         /\ KeptPort(l) > 0 => /\ KeptIp(l) = l.ip /\ l.port > 0 /\ l.gap1 > 0
                               /\ PortAt(l) + KeptPort(l) <= Capacity
         /\ KeptPort(l) < l.port => PortAt(l) + KeptPort(l) >= Capacity
         /\ KeptText(l) > 0 => TextAt(l) < Capacity /\ l.text > 0
         /\ KeptText(l) = 0 => l.text = 0 \/ TextAt(l) >= Capacity
<1>1. /\ l.lead \in Nat /\ l.ip \in Nat /\ l.gap1 \in Nat
      /\ l.port \in Nat /\ l.text \in Nat
      /\ l.port > 0 => l.ip > 0 /\ l.gap1 > 0
      /\ PortAt(l) \in Nat /\ TextAt(l) \in Nat
  BY LineLengths DEF LineType, WellFormed
<1>2. KeptPort(l) \in Nat /\ KeptIp(l) \in Nat /\ KeptText(l) \in Nat
  BY <1>1, KeptPart DEF KeptPort, KeptIp, KeptText
<1>3. ASSUME KeptPort(l) > 0
      PROVE  /\ KeptIp(l) = l.ip /\ l.port > 0 /\ l.gap1 > 0
             /\ PortAt(l) + KeptPort(l) <= Capacity
  <2>1. PortAt(l) < Capacity /\ l.port > 0 /\ PortAt(l) + KeptPort(l) <= Capacity
    BY <1>1, <1>3, KeptPart DEF KeptPort
  <2>2. l.lead + l.ip < Capacity
    BY <1>1, <2>1 DEF PortAt, Capacity
  <2>3. KeptIp(l) = l.ip
    BY <1>1, <2>2 DEF KeptIp, Kept, Least, Capacity
  <2>4. QED
    BY <1>1, <2>1, <2>3
<1>4. /\ KeptIp(l) <= l.ip /\ KeptPort(l) <= l.port
      /\ KeptPort(l) < l.port => PortAt(l) + KeptPort(l) >= Capacity
  BY <1>1, KeptPart DEF KeptPort, KeptIp
<1>5. /\ KeptText(l) > 0 => TextAt(l) < Capacity /\ l.text > 0
      /\ KeptText(l) = 0 => l.text = 0 \/ TextAt(l) >= Capacity
  <2>1. KeptText(l) = 0 /\ l.text > 0 => TextAt(l) >= Capacity
    BY <1>1, KeptPart DEF KeptText
  <2>2. KeptText(l) > 0 => TextAt(l) < Capacity /\ l.text > 0
    BY <1>1, KeptPart DEF KeptText
  <2>3. QED
    BY <1>1, <2>1, <2>2
<1>6. QED
  BY <1>2, <1>3, <1>4, <1>5 DEF Offset

\* The variables keep their types; what is sent is a piece of a line.
THEOREM TypeCorrect == Spec => []TypeOK
<1>1. Init => TypeOK
  <2>1. <<>> \in Seq(Lines)
    OBVIOUS
  <2>2. QED
    BY <2>1, Zenon DEF Init, TypeOK
<1>2. TypeOK /\ [Next]_vars => TypeOK'
  <2> SUFFICES ASSUME TypeOK, [Next]_vars PROVE TypeOK'
    OBVIOUS
  <2> USE DEF TypeOK
  <2>1. ASSUME NEW l \in Lines, Type(l) PROVE TypeOK'
    BY <2>1 DEF Type
  <2>2. CASE CloseInput
    BY <2>2 DEF CloseInput
  <2>3. ASSUME NEW l \in Lines, Exit(l) \/ Refuse(l) \/ SendFails(l) \/ Crash(l)
        PROVE  TypeOK'
    BY <2>3 DEF Exit, Refuse, SendFails, Crash, GetLine
  <2>4. ASSUME NEW l \in Lines, Send(l) PROVE TypeOK'
    <3>1. Offset(l) \in Nat /\ Stored(l) \in Nat
      BY LineLengths, KeptParts
    <3>2. QED
      BY <2>4, <3>1 DEF Send, GetLine, SendType
  <2>5. CASE ReadEnd
    BY <2>5 DEF ReadEnd
  <2>6. CASE UNCHANGED vars
    BY <2>6 DEF vars
  <2>7. QED
    BY <2>1, <2>2, <2>3, <2>4, <2>5, <2>6 DEF Next, Iterate, Spin, Ended
<1>3. QED
  BY <1>1, <1>2, PTL DEF Spec

\* What was sent belongs to an accepted line and starts at the offset (substr).
THEOREM SendsInvariant == Spec => []SendsInv
<1>1. Init => SendsInv
  BY DEF Init, SendsInv
<1>2. TypeOK /\ SendsInv /\ [Next]_vars => SendsInv'
  <2> SUFFICES ASSUME TypeOK, SendsInv, [Next]_vars PROVE SendsInv'
    OBVIOUS
  <2>1. ASSUME NEW l \in Lines, Type(l) PROVE SendsInv'
    BY <2>1 DEF Type, SendsInv, Accepted, MinWords
  <2>2. CASE CloseInput
    BY <2>2 DEF CloseInput, SendsInv, Accepted, MinWords
  <2>3. ASSUME NEW l \in Lines, Exit(l) \/ Refuse(l) \/ SendFails(l) \/ Crash(l)
        PROVE  SendsInv'
    BY <2>3 DEF Exit, Refuse, SendFails, Crash, GetLine, SendsInv, Accepted,
                MinWords
  <2>4. ASSUME NEW l \in Lines, Send(l) PROVE SendsInv'
    <3>1. \A s \in sends : Length(s.line) <= Capacity \/ stream = "failed"
      BY LineLengths DEF SendsInv, TypeOK, SendType, Capacity
    <3>2. QED
      BY <2>4, <3>1 DEF Send, GetLine, SendsInv, Accepted, MinWords
  <2>5. CASE ReadEnd
    BY <2>5 DEF ReadEnd, SendsInv, Accepted, MinWords
  <2>6. CASE UNCHANGED vars
    BY <2>6 DEF vars, SendsInv, Accepted, MinWords
  <2>7. QED
    BY <2>1, <2>2, <2>3, <2>4, <2>5, <2>6 DEF Next, Iterate, Spin, Ended
<1>3. QED
  BY <1>1, <1>2, TypeCorrect, PTL DEF Spec

-------------------------------------------------------------------------------
\* An accepted line has an address and a port, and the offset used is not past
\* the beginning of its text.
LEMMA OffsetBeforeText ==
  ASSUME NEW l \in Lines, version \in {1, 2, 3}, Accepted(l)
  PROVE  /\ KeptPort(l) > 0 /\ Offset(l) >= 4
         /\ l.text > 0 => Offset(l) <= TextAt(l)
         /\ version # 1 => KeptText(l) > 0
<1>1. KeptPort(l) > 0 /\ (version # 1 => KeptText(l) > 0)
  <2>1. KeptText(l) > 0 => TextAt(l) < Capacity /\ l.text > 0
    BY KeptParts
  <2>2. l.text > 0 => l.port > 0
    BY LineLengths DEF WellFormed
  <2>3. PortAt(l) \in Nat /\ TextAt(l) \in Nat /\ PortAt(l) <= TextAt(l)
        /\ l.port \in Nat /\ KeptPort(l) \in Nat /\ KeptText(l) \in Nat
        /\ KeptIp(l) \in Nat
    BY LineLengths, KeptParts DEF LineType
  <2>4. KeptText(l) > 0 => KeptPort(l) > 0
    <3>1. l.port > 0 /\ KeptPort(l) = 0 => PortAt(l) >= Capacity
      BY <2>3, KeptPart DEF KeptPort
    <3>2. QED
      BY <2>1, <2>2, <2>3, <3>1 DEF Capacity
  <2>5. Words(l) >= 2 /\ (version # 1 => Words(l) >= 3)
    <3>1. Words(l) \in Nat
      BY DEF Words
    <3>2. QED
      BY <3>1 DEF Accepted, MinWords
  <2>6. QED
    BY <2>3, <2>4, <2>5 DEF Words
<1>2. /\ KeptIp(l) = l.ip /\ l.port > 0 /\ l.ip > 0 /\ l.gap1 > 0
      /\ KeptPort(l) \in Nat /\ KeptPort(l) <= l.port
      /\ l.lead \in Nat /\ l.ip \in Nat /\ l.gap1 \in Nat /\ l.port \in Nat
      /\ l.gap2 \in Nat /\ l.text \in Nat /\ (l.text > 0 => l.gap2 > 0)
  BY <1>1, KeptParts, LineLengths DEF WellFormed, LineType
<1>3. QED
  BY <1>1, <1>2 DEF Offset, TextAt, PortEnd, PortAt

\* The offset lies past the stored line only if that ends with its port.
LEMMA OffsetPastEnd ==
  ASSUME NEW l \in Lines, version \in {1, 2, 3}, Accepted(l), Offset(l) > Stored(l)
  PROVE  Stored(l) <= PortEnd(l) /\ KeptText(l) = 0
<1>1. /\ KeptIp(l) = l.ip /\ KeptPort(l) <= l.port
      /\ KeptPort(l) \in Nat /\ KeptText(l) \in Nat /\ l.ip \in Nat
      /\ l.lead \in Nat /\ l.gap1 \in Nat /\ l.gap1 > 0 /\ l.port \in Nat
      /\ l.text \in Nat
  BY OffsetBeforeText, KeptParts, LineLengths DEF LineType
<1>2. Offset(l) <= PortEnd(l) + 1
  BY <1>1 DEF Offset, PortEnd, PortAt
<1>3. Stored(l) <= PortEnd(l)
  BY <1>2, KeptParts, LineLengths
<1>4. KeptText(l) = 0
  <2>1. SUFFICES ASSUME KeptText(l) > 0 PROVE FALSE
    BY <1>1
  <2>2. TextAt(l) < Capacity /\ l.text > 0
    BY <2>1, KeptParts
  <2>3. PortEnd(l) < TextAt(l) /\ TextAt(l) < Length(l)
    BY <2>2, LineLengths DEF WellFormed, TextAt, TextEnd, Length, LineType
  <2>4. Stored(l) > PortEnd(l)
    BY <2>2, <2>3, LineLengths DEF Stored, Least, Capacity
  <2>5. QED
    BY <1>3, <2>4, LineLengths
<1>5. QED
  BY <1>3, <1>4

\* Every character of a text is sent, unless the line was cut, and nothing but
\* the text when single blanks set it off.
THEOREM TextIsCovered == Spec => []SentCoversText
<1>1. TypeOK /\ SendsInv => SentCoversText
  <2> SUFFICES ASSUME TypeOK, SendsInv, NEW s \in sends, s.line.text > 0
               PROVE  /\ s.from <= TextAt(s.line)
                      /\ s.upto >= TextEnd(s.line) \/ stream = "failed"
                      /\ s.line.lead = 0 /\ s.line.gap1 = 1 /\ s.line.gap2 = 1
                            => s.from = TextAt(s.line)
    BY DEF SentCoversText
  <2>1. s.line \in Lines
    BY DEF TypeOK, SendType
  <2>2. s.from <= TextAt(s.line)
    BY <2>1, OffsetBeforeText DEF SendsInv, TypeOK
  <2>3. Length(s.line) > Capacity \/ s.upto = Length(s.line)
    BY <2>1, LineLengths DEF SendsInv, Stored, Least, Capacity
  <2>4. ASSUME s.line.lead = 0, s.line.gap1 = 1, s.line.gap2 = 1
        PROVE  s.from = TextAt(s.line)
    <3> DEFINE l == s.line
    <3>1. /\ l \in Lines /\ Accepted(l) /\ version \in {1, 2, 3}
          /\ s.from = Offset(l) /\ Offset(l) <= Stored(l)
      BY <2>1 DEF SendsInv, TypeOK
    <3> HIDE DEF l
    <3>2. /\ KeptIp(l) = l.ip /\ KeptPort(l) \in Nat /\ KeptPort(l) <= l.port
          /\ KeptPort(l) < l.port => PortAt(l) + KeptPort(l) >= Capacity
          /\ l.ip \in Nat /\ l.port \in Nat /\ Stored(l) <= Capacity
          /\ Stored(l) \in Nat /\ l.lead = 0 /\ l.gap1 = 1 /\ l.gap2 = 1
      BY <2>4, <3>1, OffsetBeforeText, KeptParts, LineLengths DEF LineType, l
    <3>3. KeptPort(l) = l.port
      BY <3>1, <3>2 DEF Offset, PortAt, Capacity
    <3>4. QED
      BY <3>1, <3>2, <3>3 DEF Offset, TextAt, PortEnd, PortAt, l
  <2>5. QED
    BY <2>1, <2>2, <2>3, <2>4, LineLengths DEF SendsInv
<1>2. QED
  BY <1>1, TypeCorrect, SendsInvariant, PTL

\* No text is longer than the 195 characters every packet format has room for.
THEOREM TextFits == Spec => []SentFits
<1>1. TypeOK /\ SendsInv => SentFits
  <2> SUFFICES ASSUME TypeOK, SendsInv, NEW s \in sends
               PROVE  s.upto - s.from \in 0..195
    BY DEF SentFits
  <2>1. s.line \in Lines
    BY DEF TypeOK, SendType
  <2>2. s.from >= 4 /\ s.from <= s.upto /\ s.upto <= Capacity
    BY <2>1, OffsetBeforeText, LineLengths DEF SendsInv, TypeOK
  <2>3. s.from \in Nat /\ s.upto \in Nat
    BY DEF TypeOK, SendType
  <2>4. QED
    BY <2>2, <2>3 DEF Capacity
<1>2. QED
  BY <1>1, TypeCorrect, SendsInvariant, PTL

\* substr throws in version 1 only, and only over a stored line that ends with
\* its port: no text was typed, or the line was cut before it.
THEOREM CrashesAreExplained == Spec => CrashExplained
<1>1. TypeOK /\ [Next]_vars =>
        [\A l \in Lines : Crash(l) =>
            /\ version = 1
            /\ Stored(l) <= PortEnd(l)
            /\ l.text = 0 \/ TextAt(l) >= Capacity]_vars
  <2> SUFFICES ASSUME TypeOK, NEW l \in Lines, Crash(l)
               PROVE  /\ version = 1
                      /\ Stored(l) <= PortEnd(l)
                      /\ l.text = 0 \/ TextAt(l) >= Capacity
    OBVIOUS
  <2>1. Accepted(l) /\ Offset(l) > Stored(l) /\ version \in {1, 2, 3}
    BY DEF Crash, TypeOK
  <2>2. Stored(l) <= PortEnd(l) /\ KeptText(l) = 0
    BY <2>1, OffsetPastEnd
  <2>3. QED
    BY <2>1, <2>2, OffsetBeforeText, KeptParts
<1>2. QED
  BY <1>1, TypeCorrect, PTL DEF Spec, CrashExplained

-------------------------------------------------------------------------------
(* The bytes of a datagram. *)

\* Text t, without a zero byte, stands behind the first h bytes of b ...
StandsAt(b, h, t) ==
    \A k \in 1..Len(t) : t[k] # 0 /\ b[h + k] = t[k]

\* ... and a zero byte follows it.
EndsAt(b, h, t) == b[h + Len(t) + 1] = 0

\* b begins with p and is zero behind it.
Padded(b, p) ==
    /\ \A k \in 1..Len(p) : b[k] = p[k]
    /\ \A k \in 1..Len(b) : k > Len(p) => b[k] = 0

\* What the buffer is filled with.
LEMMA ZerosType ==
  ASSUME NEW n \in Nat
  PROVE  /\ Zeros(n) \in Seq(Nat) /\ Len(Zeros(n)) = n
         /\ \A k \in 1..n : Zeros(n)[k] = 0
BY DEF Zeros

\* Where the bytes of two parts stand once they are put together.
LEMMA Concatenated ==
  ASSUME NEW p \in Seq(Nat), NEW q \in Seq(Nat)
  PROVE  /\ p \o q \in Seq(Nat) /\ Len(p \o q) = Len(p) + Len(q)
         /\ \A k \in 1..Len(p) : (p \o q)[k] = p[k]
         /\ \A k \in 1..Len(q) : (p \o q)[Len(p) + k] = q[k]
OBVIOUS

\* A C string ends before its first zero byte.
LEMMA EndsAtZero ==
  ASSUME NEW bytes \in Seq(Nat), NEW n \in Nat, n < Len(bytes),
         bytes[n + 1] = 0, \A k \in 1..n : bytes[k] # 0
  PROVE  CString(bytes) = SubSeq(bytes, 1, n)
<1> DEFINE ended == Append(Append(bytes, 255), 0)
           I == {i \in 1..Len(ended) : ended[i] = 0}
<1>1. /\ ended \in Seq(Nat) /\ Len(ended) = Len(bytes) + 2
      /\ \A k \in 1..Len(bytes) : ended[k] = bytes[k]
      /\ Len(bytes) \in Nat
  OBVIOUS
<1>2. CString(bytes) = SubSeq(ended, 1, (IF I # {} THEN Min(I) ELSE 0) - 1)
  BY DEF CString, SelectInSeq
<1> HIDE DEF ended
<1>3. n + 1 \in I /\ \A k \in I : n + 1 <= k
  <2>1. n + 1 \in 1..Len(bytes) /\ n + 1 \in 1..Len(ended)
    BY <1>1
  <2>2. ASSUME NEW k \in I
        PROVE  n + 1 <= k
    <3>1. k \in 1..Len(ended) /\ ended[k] = 0
      OBVIOUS
    <3>2. CASE k \in 1..n
      <4>1. k \in 1..Len(bytes)
        BY <1>1, <3>2
      <4>2. QED
        BY <1>1, <3>1, <3>2, <4>1
    <3>3. QED
      BY <1>1, <3>1, <3>2
  <2>3. ended[n + 1] = 0
    BY <1>1, <2>1
  <2>4. QED
    BY <2>1, <2>2, <2>3
<1>4. Min(I) = n + 1
  <2>1. I \subseteq Nat
    BY <1>1
  <2> HIDE DEF I
  <2>2. \A x \in I : (\A y \in I : x <= y) => x = n + 1
    BY <1>3, <2>1
  <2>3. QED
    BY <1>3, <2>2 DEF Min
<1>5. CString(bytes) = SubSeq(ended, 1, n)
  <2>1. I # {}
    BY <1>3
  <2> HIDE DEF I
  <2>2. (IF I # {} THEN Min(I) ELSE 0) - 1 = n
    BY <1>4, <2>1
  <2>3. QED
    BY <1>2, <2>2
<1>6. SubSeq(ended, 1, n) = SubSeq(bytes, 1, n)
  <2>1. \A k \in 1..n : ended[k] = bytes[k]
    BY <1>1
  <2>2. QED
    BY <1>1, <2>1
<1>7. QED
  BY <1>5, <1>6

\* What recvfrom leaves behind a packet is zero.
LEMMA BufferBytes ==
  ASSUME NEW p \in Seq(Nat), Len(p) <= RecvBuffer
  PROVE  /\ Buffer(p) \in Seq(Nat) /\ Len(Buffer(p)) = RecvBuffer
         /\ Padded(Buffer(p), p)
<1> DEFINE n == RecvBuffer - Len(p)
           z == Zeros(n)
<1>1. n \in Nat /\ Len(p) \in Nat /\ RecvBuffer \in Nat
  BY DEF RecvBuffer
<1>2. z \in Seq(Nat) /\ Len(z) = n /\ \A k \in 1..n : z[k] = 0
  BY <1>1, ZerosType
<1>3. Buffer(p) = p \o z
  BY DEF Buffer
<1> HIDE DEF z
<1>4. /\ p \o z \in Seq(Nat) /\ Len(p \o z) = Len(p) + n
      /\ \A k \in 1..Len(p) : (p \o z)[k] = p[k]
      /\ \A k \in 1..n : (p \o z)[Len(p) + k] = 0
  <2>1. /\ p \o z \in Seq(Nat) /\ Len(p \o z) = Len(p) + Len(z)
        /\ \A k \in 1..Len(p) : (p \o z)[k] = p[k]
        /\ \A k \in 1..Len(z) : (p \o z)[Len(p) + k] = z[k]
    BY <1>2, Concatenated
  <2> HIDE DEF n
  <2>2. QED
    BY <1>2, <2>1
<1>5. ASSUME NEW k \in 1..RecvBuffer, k > Len(p)
      PROVE  (p \o z)[k] = 0
  <2>1. k - Len(p) \in 1..n /\ k = Len(p) + (k - Len(p))
    BY <1>1, <1>5
  <2>2. QED
    BY <1>4, <2>1
<1>6. Len(p \o z) = RecvBuffer
  BY <1>1, <1>4
<1>7. QED
  BY <1>3, <1>4, <1>5, <1>6 DEF Padded

\* Where a text stands in the buffer, with a zero behind it, the bytes copied
\* from there on, if they reach the zero, print as that text.
LEMMA CopyPrints ==
  ASSUME NEW buffer \in Seq(Nat), NEW t \in Seq(Nat),
         NEW h \in Nat, NEW c \in Nat,
         StandsAt(buffer, h, t), EndsAt(buffer, h, t),
         Len(t) < c, h + c <= Len(buffer)
  PROVE  CString(SubSeq(buffer, h + 1, h + c)) = t
<1> DEFINE b == SubSeq(buffer, h + 1, h + c)
           n == Len(t)
<1>1. n \in Nat /\ Len(buffer) \in Nat
  OBVIOUS
<1>2. /\ b \in Seq(Nat) /\ Len(b) = c
      /\ \A k \in 1..c : b[k] = buffer[h + k]
  OBVIOUS
<1> HIDE DEF b
<1>3. /\ n < Len(b) /\ b[n + 1] = 0
      /\ \A k \in 1..n : b[k] = t[k] /\ b[k] # 0
  <2>1. n + 1 \in 1..c /\ \A k \in 1..n : k \in 1..c
    BY <1>1
  <2>2. h + (n + 1) = h + n + 1
    BY <1>1
  <2>3. \A k \in 1..n : t[k] # 0 /\ buffer[h + k] = t[k]
    BY DEF StandsAt
  <2>4. buffer[h + n + 1] = 0
    BY DEF EndsAt
  <2>5. QED
    BY <1>1, <1>2, <2>1, <2>2, <2>3, <2>4
<1>4. CString(b) = SubSeq(b, 1, n)
  BY <1>1, <1>2, <1>3, EndsAtZero
<1>5. SubSeq(b, 1, n) = t
  BY <1>1, <1>2, <1>3
<1>6. QED
  BY <1>4, <1>5 DEF b

-------------------------------------------------------------------------------
(* From the console to the other side's screen. *)

\* A text has at most 195 bytes, none of them zero.
LEMMA TextBytes ==
  ASSUME TypeOK, SendsInv, SentFits, NEW s \in sends
  PROVE  /\ Text(s) \in Seq(Nat) /\ Len(Text(s)) <= 195
         /\ \A k \in 1..Len(Text(s)) : Text(s)[k] # 0
<1> DEFINE n == s.upto - s.from
<1>1. n \in Nat /\ n <= 195 /\ s.from \in Nat
  <2>1. s.upto - s.from \in 0..195
    BY DEF SentFits
  <2>2. s.upto \in Nat /\ s.from \in Nat
    BY DEF TypeOK, SendType
  <2>3. QED
    BY <2>1, <2>2
<1>2. Text(s) = [k \in 1..n |-> s.from + k]
  BY DEF Text
<1> HIDE DEF n
<1>3. QED
  BY <1>1, <1>2

\* A header of version 2 or 3, number by number.
LEMMA Int32Bytes ==
  ASSUME NEW n \in Nat
  PROVE  /\ Int32(n) \in Seq(Nat) /\ Len(Int32(n)) = 4
         /\ Int32(n)[1] = n
BY DEF Int32

\* The answer of versions 2 and 3 is read as the confirmation.
LEMMA AnswerConfirms ==
  ASSUME version \in {2, 3}
  PROVE  OnHandle(AckPacket) = {Noted("confirmed")}
<1>1. AckPacket \in Seq(Nat) /\ Len(AckPacket) <= RecvBuffer
      /\ HeaderLen - 3 \in 1..Len(AckPacket) /\ AckPacket[HeaderLen - 3] = 2
  <2>1. CASE version = 2
    <3>1. AckPacket = Int32(2) /\ HeaderLen - 3 = 1
      BY <2>1 DEF AckPacket, HeaderLen
    <3>2. /\ Int32(2) \in Seq(Nat) /\ Len(Int32(2)) = 4
          /\ Int32(2)[1] = 2
      BY Int32Bytes
    <3>3. 1 \in 1..4 /\ 4 <= RecvBuffer
      BY DEF RecvBuffer
    <3>4. /\ Int32(2) \in Seq(Nat) /\ Len(Int32(2)) <= RecvBuffer
          /\ 1 \in 1..Len(Int32(2)) /\ Int32(2)[1] = 2
      BY <3>2, <3>3
    <3>5. QED
      BY <3>1, <3>4, Zenon
  <2>2. CASE version = 3
    <3>1. /\ Int32(0) \in Seq(Nat) /\ Len(Int32(0)) = 4
          /\ Int32(2) \in Seq(Nat) /\ Len(Int32(2)) = 4 /\ Int32(2)[1] = 2
      BY Int32Bytes
    <3>2. /\ Int32(0) \o Int32(2) \in Seq(Nat) /\ Len(Int32(0) \o Int32(2)) = 8
          /\ (Int32(0) \o Int32(2))[5] = 2
      <4> DEFINE p == Int32(0)
                 q == Int32(2)
      <4> HIDE DEF p, q
      <4>1. /\ p \in Seq(Nat) /\ Len(p) = 4
            /\ q \in Seq(Nat) /\ Len(q) = 4 /\ q[1] = 2
        BY <3>1 DEF p, q
      <4>2. /\ p \o q \in Seq(Nat) /\ Len(p \o q) = Len(p) + Len(q)
            /\ \A k \in 1..Len(q) : (p \o q)[Len(p) + k] = q[k]
        BY <4>1, Concatenated
      <4>3. (p \o q)[4 + 1] = q[1]
        BY <4>1, <4>2
      <4>4. /\ p \o q \in Seq(Nat) /\ Len(p \o q) = 8
            /\ (p \o q)[5] = 2
        BY <4>1, <4>2, <4>3
      <4>5. QED
        BY <4>4 DEF p, q
    <3>3. AckPacket = Int32(0) \o Int32(2) /\ HeaderLen = 8
      BY <2>2 DEF AckPacket, HeaderLen
    <3>4. QED
      BY <3>2, <3>3 DEF RecvBuffer
  <2>3. QED
    BY <2>1, <2>2
<1>2. Buffer(AckPacket)[HeaderLen - 3] = 2
  BY <1>1, BufferBytes DEF Padded
<1>3. QED
  BY <1>2 DEF OnHandle

\* A text h bytes into a packet, at its end or with a zero behind it, stands
\* h bytes into the buffer with a zero behind it.
LEMMA TextInBuffer ==
  ASSUME NEW p \in Seq(Nat), NEW t \in Seq(Nat), NEW b \in Seq(Nat),
         NEW h \in Nat, h + Len(t) <= Len(p), Len(p) < Len(b),
         StandsAt(p, h, t), h + Len(t) < Len(p) => EndsAt(p, h, t),
         Padded(b, p)
  PROVE  StandsAt(b, h, t) /\ EndsAt(b, h, t)
<1>1. PICK n \in Nat : n = Len(t)
  OBVIOUS
<1>2. PICK len \in Nat : len = Len(p)
  OBVIOUS
<1>3. PICK size \in Nat : size = Len(b)
  OBVIOUS
<1>4. h + n <= len /\ len < size
  BY <1>1, <1>2, <1>3
<1>5. ASSUME NEW k \in 1..n PROVE t[k] # 0 /\ b[h + k] = t[k]
  <2>1. h + k \in 1..len
    BY <1>4
  <2>2. QED
    BY <1>1, <1>2, <2>1 DEF StandsAt, Padded
<1>6. b[h + n + 1] = 0
  <2>1. CASE h + n < len
    <3>1. h + n + 1 \in 1..len
      BY <2>1
    <3>2. QED
      BY <1>1, <1>2, <2>1, <3>1 DEF EndsAt, Padded
  <2>2. CASE ~(h + n < len)
    <3>1. h + n + 1 \in 1..size /\ h + n + 1 > len
      BY <1>4, <2>2
    <3>2. QED
      BY <1>2, <1>3, <3>1 DEF Padded
  <2>3. QED
    BY <2>1, <2>2
<1>7. QED
  BY <1>1, <1>5, <1>6 DEF StandsAt, EndsAt

\* A packet that carries text t behind its header prints as t, if the program
\* does not end over the bytes it copies past the body.
LEMMA PacketPrints ==
  ASSUME version \in {2, 3},
         NEW p \in Seq(Nat), Len(p) <= 512,
         NEW t \in Seq(Nat), HeaderLen + Len(t) <= Len(p),
         StandsAt(p, HeaderLen, t),
         HeaderLen + Len(t) < Len(p) => EndsAt(p, HeaderLen, t),
         version = 2 => Len(p) = 200,
         version = 3 => p[1] = Len(t) /\ Len(p) = 8 + Len(t)
  PROVE  OnMessage(Len(p), Buffer(p)) = {Shown(t, AckPacket), Noted("ended")}
<1> DEFINE b == Buffer(p)
           body == SubSeq(b, HeaderLen + 1, HeaderLen + Len(p))
           room == IF version = 2 THEN BodyOf2 ELSE b[1]
           fits == IF version = 2 THEN Len(p) - HeaderLen <= room
                                  ELSE Len(p) - HeaderLen >= room
<1>1. HeaderLen \in Nat /\ HeaderLen \in 4..8 /\ Len(t) \in Nat
      /\ Len(p) \in Nat /\ 1 \in 1..Len(p)
  BY DEF HeaderLen
<1>2. /\ b \in Seq(Nat) /\ Len(b) = 1024 /\ Padded(b, p)
  <2>1. Len(p) <= RecvBuffer /\ RecvBuffer = 1024
    BY <1>1 DEF RecvBuffer
  <2>2. /\ b \in Seq(Nat) /\ Len(b) = RecvBuffer /\ Padded(b, p)
    BY <2>1, BufferBytes
  <2> HIDE DEF b
  <2>3. QED
    BY <2>1, <2>2
<1>3. OnMessage(Len(p), b) =
        CASE ~fits -> {Noted("aborted")}
          [] fits /\ ~(Len(p) > room) -> {Shown(CString(body), AckPacket)}
          [] fits /\ Len(p) > room ->
                {Shown(CString(body), AckPacket), Noted("ended")}
  BY DEF OnMessage, Copied
<1>4. Len(p) > room /\ fits
  <2>1. CASE version = 2
    <3>1. room = 196 /\ HeaderLen = 4 /\ Len(p) = 200
      BY <2>1 DEF BodyOf2, HeaderLen
    <3> HIDE DEF room
    <3>2. QED
      BY <2>1, <3>1
  <2>2. CASE version = 3
    <3>1. room = Len(t) /\ HeaderLen = 8
      BY <1>1, <1>2, <2>2 DEF HeaderLen, Padded
    <3>2. QED
      BY <1>1, <2>2, <3>1
  <2>3. QED
    BY <2>1, <2>2
<1> HIDE DEF b
<1>5. CString(body) = t
  <2>1. PICK h \in Nat : h = HeaderLen
    BY <1>1
  <2>2. PICK m \in Nat : m = Len(p)
    BY <1>1
  <2>3. PICK n \in Nat : n = Len(t)
    BY <1>1
  <2>4. /\ h + n <= m /\ h <= 8 /\ 4 <= h /\ m <= 512
    BY <1>1, <2>1, <2>2, <2>3
  <2>5. m < Len(b) /\ h + m <= Len(b) /\ n < m
    BY <1>2, <2>4
  <2>6. /\ StandsAt(p, h, t)
        /\ h + Len(t) < Len(p) => EndsAt(p, h, t)
        /\ h + Len(t) <= Len(p) /\ Len(p) < Len(b)
    BY <2>1, <2>2, <2>3, <2>4, <2>5
  <2>7. StandsAt(b, h, t) /\ EndsAt(b, h, t)
    BY <1>2, <2>6, TextInBuffer
  <2>8. Len(t) < m /\ h + m <= Len(b)
    BY <2>3, <2>5
  <2>9. CString(SubSeq(b, h + 1, h + m)) = t
    <3>1. b \in Seq(Nat)
      BY <1>2
    <3>2. Len(t) < m
      BY <2>8
    <3>3. h + m <= Len(b)
      BY <2>8
    <3>4. \A x \in Seq(Nat) :
             Len(t) < m /\ h + m <= Len(x) /\ StandsAt(x, h, t) /\ EndsAt(x, h, t)
                => CString(SubSeq(x, h + 1, h + m)) = t
      BY CopyPrints
    <3>5. QED
      BY <2>7, <3>1, <3>2, <3>3, <3>4
  <2>10. QED
    BY <2>1, <2>2, <2>9
<1> HIDE DEF fits, room, body
<1>6. OnMessage(Len(p), b) = {Shown(CString(body), AckPacket), Noted("ended")}
  BY <1>3, <1>4
<1>7. QED
  BY <1>5, <1>6 DEF b

\* Header or headers, text, filling.
Parts(p, q, r) == p \o q \o r

\* Every part stands where the parts before it end.
Placed(p, q, r) ==
    /\ Parts(p, q, r) \in Seq(Nat)
    /\ Len(Parts(p, q, r)) = Len(p) + Len(q) + Len(r)
    /\ \A k \in 1..Len(p) : Parts(p, q, r)[k] = p[k]
    /\ \A k \in 1..Len(q) : Parts(p, q, r)[Len(p) + k] = q[k]
    /\ \A k \in 1..Len(r) : Parts(p, q, r)[Len(p) + Len(q) + k] = r[k]

\* Three parts put together stand one behind the other.
LEMMA ThreeParts ==
  ASSUME NEW p \in Seq(Nat), NEW q \in Seq(Nat), NEW r \in Seq(Nat)
  PROVE  Placed(p, q, r)
<1> PICK a \in Nat : a = Len(p)
  OBVIOUS
<1> PICK b \in Nat : b = Len(q)
  OBVIOUS
<1> PICK c \in Nat : c = Len(r)
  OBVIOUS
<1> DEFINE s == p \o q
<1>1. /\ s \in Seq(Nat) /\ Len(s) = a + b
      /\ \A k \in 1..a : s[k] = p[k]
      /\ \A k \in 1..b : s[a + k] = q[k]
  <2>1. /\ s \in Seq(Nat) /\ Len(s) = Len(p) + Len(q)
        /\ \A k \in 1..Len(p) : s[k] = p[k]
        /\ \A k \in 1..Len(q) : s[Len(p) + k] = q[k]
    BY Concatenated
  <2> HIDE DEF s
  <2>2. QED
    BY <2>1
<1> HIDE DEF s
<1>2. /\ s \o r \in Seq(Nat) /\ Len(s \o r) = a + b + c
      /\ \A k \in 1..(a + b) : (s \o r)[k] = s[k]
      /\ \A k \in 1..c : (s \o r)[a + b + k] = r[k]
  <2>1. /\ s \o r \in Seq(Nat) /\ Len(s \o r) = Len(s) + Len(r)
        /\ \A k \in 1..Len(s) : (s \o r)[k] = s[k]
        /\ \A k \in 1..Len(r) : (s \o r)[Len(s) + k] = r[k]
    BY <1>1, Concatenated
  <2> DEFINE u == s \o r
  <2> HIDE DEF u
  <2>2. /\ u \in Seq(Nat) /\ Len(u) = a + b + c
        /\ \A k \in 1..(a + b) : u[k] = s[k]
        /\ \A k \in 1..c : u[a + b + k] = r[k]
    BY <1>1, <2>1 DEF u
  <2>3. QED
    BY <2>2 DEF u
<1>3. ASSUME NEW k \in 1..a PROVE (s \o r)[k] = p[k]
  <2>1. k \in 1..(a + b)
    OBVIOUS
  <2>2. QED
    BY <1>1, <1>2, <2>1
<1>4. ASSUME NEW k \in 1..b PROVE (s \o r)[a + k] = q[k]
  <2>1. a + k \in 1..(a + b)
    OBVIOUS
  <2>2. QED
    BY <1>1, <1>2, <2>1
<1>5. /\ s \o r \in Seq(Nat) /\ Len(s \o r) = Len(p) + Len(q) + Len(r)
      /\ \A k \in 1..Len(p) : (s \o r)[k] = p[k]
      /\ \A k \in 1..Len(q) : (s \o r)[Len(p) + k] = q[k]
      /\ \A k \in 1..Len(r) : (s \o r)[Len(p) + Len(q) + k] = r[k]
  BY <1>2, <1>3, <1>4
<1>6. QED
  BY <1>5 DEF s, Parts, Placed

\* The packets of version 2: the text starts at byte 5, and zeros fill the 200.
LEMMA PacketOf2 ==
  ASSUME version = 2, NEW t \in Seq(Nat), Len(t) <= 195,
         \A k \in 1..Len(t) : t[k] # 0
  PROVE  /\ MsgPacket(t) \in Seq(Nat) /\ Len(MsgPacket(t)) = 200
         /\ MsgPacket(t)[1] = 1
         /\ StandsAt(MsgPacket(t), 4, t) /\ EndsAt(MsgPacket(t), 4, t)
<1>1. PICK n \in Nat : n = Len(t)
  OBVIOUS
<1>2. PICK m \in Nat : m + n = 196 /\ m > 0 /\ 196 - n = m
  <2>1. n <= 195
    BY <1>1
  <2>2. 196 - n \in Nat /\ 196 - n > 0 /\ (196 - n) + n = 196
    BY <2>1
  <2>3. QED
    BY <2>2
<1> DEFINE i == Int32(1)
           z == Zeros(m)
           p == Parts(i, t, z)
<1>3. MsgPacket(t) = p
  <2>1. BodyOf2 - Len(t) = m
    BY <1>1, <1>2 DEF BodyOf2
  <2>2. MsgPacket(t) = Int32(1) \o t \o Zeros(BodyOf2 - Len(t))
    BY DEF MsgPacket
  <2>3. QED
    BY <2>1, <2>2 DEF Parts
<1>4. i \in Seq(Nat) /\ Len(i) = 4 /\ i[1] = 1
  BY Int32Bytes
<1>5. z \in Seq(Nat) /\ Len(z) = m /\ \A k \in 1..m : z[k] = 0
  BY ZerosType
<1> HIDE DEF i, z
<1>6. /\ p \in Seq(Nat) /\ Len(p) = 4 + n + m
      /\ \A k \in 1..4 : p[k] = i[k]
      /\ \A k \in 1..n : p[4 + k] = t[k]
      /\ \A k \in 1..m : p[4 + n + k] = z[k]
  <2>1. PICK f \in Nat : f = 4
    OBVIOUS
  <2>2. Len(i) = f /\ Len(t) = n /\ Len(z) = m
    BY <1>1, <1>4, <1>5, <2>1
  <2>3. Placed(i, t, z)
    BY <1>4, <1>5, ThreeParts
  <2>4. /\ p \in Seq(Nat) /\ Len(p) = Len(i) + Len(t) + Len(z)
        /\ \A k \in 1..Len(i) : p[k] = i[k]
        /\ \A k \in 1..Len(t) : p[Len(i) + k] = t[k]
        /\ \A k \in 1..Len(z) : p[Len(i) + Len(t) + k] = z[k]
    BY <2>3 DEF Placed
  <2> HIDE DEF p
  <2>5. QED
    BY <2>1, <2>2, <2>4
<1> HIDE DEF p
<1>7. Len(p) = 200 /\ p[1] = 1 /\ p[4 + n + 1] = 0
  <2>1. Len(p) = 200
    BY <1>2, <1>6
  <2>2. p[1] = 1
    BY <1>4, <1>6
  <2>3. 1 \in 1..m
    BY <1>2
  <2>4. p[4 + n + 1] = z[1] /\ z[1] = 0
    BY <1>5, <1>6, <2>3
  <2>5. QED
    BY <2>1, <2>2, <2>4
<1>8. StandsAt(p, 4, t) /\ EndsAt(p, 4, t)
  BY <1>1, <1>6, <1>7 DEF StandsAt, EndsAt
<1>9. QED
  BY <1>3, <1>6, <1>7, <1>8

\* The packets of version 3: the text ends them.
LEMMA PacketOf3 ==
  ASSUME version = 3, NEW t \in Seq(Nat), Len(t) <= 195,
         \A k \in 1..Len(t) : t[k] # 0
  PROVE  /\ MsgPacket(t) \in Seq(Nat) /\ Len(MsgPacket(t)) = 8 + Len(t)
         /\ MsgPacket(t)[1] = Len(t) /\ MsgPacket(t)[5] = 1
         /\ StandsAt(MsgPacket(t), 8, t)
<1>1. PICK n \in Nat : n = Len(t)
  OBVIOUS
<1> DEFINE i == Int32(n)
           j == Int32(1)
           p == Parts(i, j, t)
<1>2. MsgPacket(t) = p
  <2>1. MsgPacket(t) = Int32(Len(t)) \o Int32(1) \o t
    BY DEF MsgPacket
  <2>2. QED
    BY <1>1, <2>1 DEF Parts
<1>3. /\ i \in Seq(Nat) /\ Len(i) = 4 /\ i[1] = n
      /\ j \in Seq(Nat) /\ Len(j) = 4 /\ j[1] = 1
  BY <1>1, Int32Bytes
<1> HIDE DEF i, j
<1>4. /\ p \in Seq(Nat) /\ Len(p) = 4 + 4 + n
      /\ \A k \in 1..4 : p[k] = i[k]
      /\ \A k \in 1..4 : p[4 + k] = j[k]
      /\ \A k \in 1..n : p[4 + 4 + k] = t[k]
  <2>1. PICK f \in Nat : f = 4
    OBVIOUS
  <2>2. Len(i) = f /\ Len(j) = f /\ Len(t) = n
    BY <1>1, <1>3, <2>1
  <2>3. Placed(i, j, t)
    BY <1>3, ThreeParts
  <2>4. /\ p \in Seq(Nat) /\ Len(p) = Len(i) + Len(j) + Len(t)
        /\ \A k \in 1..Len(i) : p[k] = i[k]
        /\ \A k \in 1..Len(j) : p[Len(i) + k] = j[k]
        /\ \A k \in 1..Len(t) : p[Len(i) + Len(j) + k] = t[k]
    BY <2>3 DEF Placed
  <2> HIDE DEF p
  <2>5. QED
    BY <2>1, <2>2, <2>4
<1> HIDE DEF p
<1>5. p[1] = n
  BY <1>3, <1>4
<1>6. p[4 + 1] = 1
  BY <1>3, <1>4
<1>7. StandsAt(p, 8, t)
  BY <1>1, <1>4 DEF StandsAt
<1>8. QED
  BY <1>1, <1>2, <1>4, <1>5, <1>6, <1>7

\* Whatever is sent is printed as it was sent, in every version: version 1
\* prints its buffer, whose zeros end the text; versions 2 and 3 copy past the
\* body, but from a buffer that holds the text and a zero.
THEOREM PrintsAsSent == Spec => []PrintedAsSent
<1>1. TypeOK /\ SendsInv /\ SentFits => PrintedAsSent
  <2> SUFFICES ASSUME TypeOK, SendsInv, SentFits, NEW s \in sends,
                      NEW r \in OnHandle(MsgPacket(Text(s)))
               PROVE  \/ r.kind = "ended" /\ version # 1
                      \/ /\ r.kind = "message" /\ r.text = Text(s)
                         /\ version # 1 => /\ r.reply = AckPacket
                                           /\ OnHandle(r.reply) = {Noted("confirmed")}
    BY DEF PrintedAsSent
  <2> DEFINE t == Text(s)
             p == MsgPacket(t)
  <2>1. /\ t \in Seq(Nat) /\ Len(t) <= 195 /\ Len(t) \in Nat
        /\ \A k \in 1..Len(t) : t[k] # 0
    BY TextBytes
  <2>2. version \in {1, 2, 3}
    BY DEF TypeOK
  <2> HIDE DEF t, p
  <2>3. CASE version = 1
    <3>1. p = t /\ OnHandle(p) = {Shown(CString(Buffer(t)), <<>>)}
      BY <2>3 DEF p, MsgPacket, OnHandle
    <3>2. CString(Buffer(t)) = t
      <4> DEFINE b == Buffer(t)
      <4>1. PICK n \in Nat : n = Len(t) /\ n <= 195
        BY <2>1
      <4>2. PICK size \in Nat : size = RecvBuffer /\ n < size
        BY <4>1 DEF RecvBuffer
      <4>3. b \in Seq(Nat) /\ Len(b) = size /\ Padded(b, t)
        BY <2>1, <4>1, <4>2, BufferBytes
      <4> HIDE DEF b
      <4>4. /\ \A k \in 1..n : b[k] = t[k] /\ b[k] # 0
            /\ b[n + 1] = 0
        BY <2>1, <4>1, <4>2, <4>3 DEF Padded
      <4>5. CString(b) = SubSeq(b, 1, n)
        <5>1. n < Len(b)
          BY <4>2, <4>3
        <5>2. \A k \in 1..n : b[k] # 0
          BY <4>4
        <5>3. QED
          BY <4>3, <4>4, <5>1, <5>2, EndsAtZero
      <4>6. SubSeq(b, 1, n) = t
        BY <2>1, <4>1, <4>2, <4>3, <4>4
      <4>7. QED
        BY <4>5, <4>6 DEF b
    <3>3. r = Shown(t, <<>>)
      BY <3>1, <3>2 DEF t, p
    <3>4. QED
      BY <2>3, <3>3 DEF Shown, t
  <2>4. CASE version \in {2, 3}
    <3>1. r \in {Shown(t, AckPacket), Noted("ended")}
      <4>1. /\ p \in Seq(Nat) /\ Len(p) <= 512
            /\ HeaderLen + Len(t) <= Len(p)
            /\ StandsAt(p, HeaderLen, t)
            /\ HeaderLen + Len(t) < Len(p) => EndsAt(p, HeaderLen, t)
            /\ version = 2 => Len(p) = 200
            /\ version = 3 => p[1] = Len(t) /\ Len(p) = 8 + Len(t)
            /\ HeaderLen - 3 \in 1..Len(p) /\ p[HeaderLen - 3] = 1
        <5>1. CASE version = 2
          <6>1. HeaderLen = 4
            BY <5>1 DEF HeaderLen
          <6>2. /\ p \in Seq(Nat) /\ Len(p) = 200 /\ p[1] = 1
                /\ StandsAt(p, 4, t) /\ EndsAt(p, 4, t)
            BY <2>1, <5>1, PacketOf2 DEF p
          <6>3. QED
            BY <2>1, <5>1, <6>1, <6>2
        <5>2. CASE version = 3
          <6>1. HeaderLen = 8
            BY <5>2 DEF HeaderLen
          <6>2. /\ p \in Seq(Nat) /\ Len(p) = 8 + Len(t)
                /\ p[1] = Len(t) /\ p[5] = 1 /\ StandsAt(p, 8, t)
            BY <2>1, <5>2, PacketOf3 DEF p
          <6>3. QED
            BY <2>1, <5>2, <6>1, <6>2
        <5>3. QED
          BY <2>4, <5>1, <5>2
      <4>2. OnMessage(Len(p), Buffer(p)) = {Shown(t, AckPacket), Noted("ended")}
        BY <2>1, <2>4, <4>1, PacketPrints
      <4>3. Buffer(p)[HeaderLen - 3] = 1
        <5>1. Len(p) <= RecvBuffer
          BY <4>1 DEF RecvBuffer
        <5>2. Padded(Buffer(p), p)
          BY <4>1, <5>1, BufferBytes
        <5>3. QED
          BY <4>1, <5>2 DEF Padded
      <4>4. OnHandle(p) = OnMessage(Len(p), Buffer(p))
        BY <2>4, <4>3 DEF OnHandle, RecvLen
      <4>5. QED
        BY <4>2, <4>4 DEF p, t
    <3>2. OnHandle(AckPacket) = {Noted("confirmed")}
      BY <2>4, AnswerConfirms
    <3>3. CASE r = Shown(t, AckPacket)
      BY <3>2, <3>3 DEF Shown, t
    <3>4. CASE r = Noted("ended")
      BY <2>4, <3>4 DEF Noted
    <3>5. QED
      BY <3>1, <3>3, <3>4
  <2>5. QED
    BY <2>2, <2>3, <2>4
<1>2. QED
  BY <1>1, TypeCorrect, SendsInvariant, TextFits, PTL
==============================================================================
