------------------------------- MODULE TcpProofs -------------------------------
(***************************************************************************)
(* What the operators of Tcp do to a connection of units U: the facts that *)
(* the proofs about the TCP services cite.                                 *)
(***************************************************************************)
EXTENDS Tcp, SequenceTheorems, TLAPS

\* A side's inbox is a sequence of units.
LEMMA Inboxes ==
  ASSUME NEW U, NEW k \in Connection(U)
  PROVE  /\ k.c.inbox \in Seq(U) /\ k.s.inbox \in Seq(U)
         /\ k.c.peerEnd \in Ends /\ k.s.peerEnd \in Ends
BY DEF Connection, Side

LEMMA NewConnectionType ==
  ASSUME NEW U
  PROVE  NewConnection \in Connection(U)
BY DEF NewConnection, NewSide, Connection, Side, Ends

\* What each change to a side leaves as it was.
LEMMA SideWithInbox ==
  ASSUME NEW U, NEW x \in Side(U), NEW q \in Seq(U)
  PROVE  LET y == [x EXCEPT !.inbox = q] IN
         /\ y \in Side(U)
         /\ y.inbox = q /\ y.peerEnd = x.peerEnd /\ y.broken = x.broken
BY DEF Side

LEMMA SideWithEnd ==
  ASSUME NEW U, NEW x \in Side(U), NEW e \in Ends
  PROVE  LET y == [x EXCEPT !.peerEnd = e] IN
         /\ y \in Side(U)
         /\ y.inbox = x.inbox /\ y.peerEnd = e /\ y.broken = x.broken
BY DEF Side

LEMMA SideBroken ==
  ASSUME NEW U, NEW x \in Side(U)
  PROVE  LET y == [x EXCEPT !.broken = TRUE] IN
         /\ y \in Side(U)
         /\ y.inbox = x.inbox /\ y.peerEnd = x.peerEnd
BY DEF Side

LEMMA SideClosed ==
  ASSUME NEW U, NEW x \in Side(U)
  PROVE  LET y == [x EXCEPT !.closed = TRUE, !.inbox = <<>>] IN
         /\ y \in Side(U)
         /\ y.inbox = <<>> /\ y.peerEnd = x.peerEnd /\ y.broken = x.broken
<1> DEFINE y == [x EXCEPT !.closed = TRUE, !.inbox = <<>>]
<1>1. <<>> \in Seq(U)
  OBVIOUS
<1>2. y \in Side(U)
  BY <1>1 DEF Side
<1>3. y.inbox = <<>>
  BY DEF Side
<1>4. y.peerEnd = x.peerEnd
  BY DEF Side
<1>5. y.broken = x.broken
  BY DEF Side
<1>6. QED
  BY <1>2, <1>3, <1>4, <1>5

\* Data the client sends reach the server's inbox, or nobody.
LEMMA SentByClient ==
  ASSUME NEW U, NEW k \in Connection(U), NEW units \in Seq(U)
  PROVE  LET n == Sent(k, "c", units) IN
         /\ n \in Connection(U)
         /\ n.c.inbox = k.c.inbox
         /\ n.c.peerEnd = k.c.peerEnd /\ n.s.peerEnd = k.s.peerEnd
         /\ n.s.broken = k.s.broken
         /\ k.c.peerEnd = "open" => /\ n.s.inbox = k.s.inbox \o units
                                    /\ n.c.broken = k.c.broken
         /\ k.c.peerEnd # "open" => n.s.inbox = k.s.inbox
<1> DEFINE n == Sent(k, "c", units)
           q == k.s.inbox \o units
<1>1. k.c \in Side(U) /\ k.s \in Side(U) /\ q \in Seq(U)
  BY Inboxes DEF Connection
<1>2. CASE k.c.peerEnd = "open"
  <2>1. n.c = k.c /\ n.s = [k.s EXCEPT !.inbox = q]
    BY <1>2 DEF Sent, Peer, Connection, Side
  <2>2. n.s \in Side(U) /\ n.s.inbox = q
        /\ n.s.peerEnd = k.s.peerEnd /\ n.s.broken = k.s.broken
    <3> HIDE DEF n, q
    <3> QED
      BY <1>1, <2>1, SideWithInbox
  <2>3. n \in Connection(U)
    BY <1>1, <1>2, <2>1, <2>2 DEF Sent, Peer, Connection
  <2>4. QED
    BY <1>2, <2>1, <2>2, <2>3
<1>3. CASE k.c.peerEnd = "fin" /\ units # <<>>
  <2>1. n.c = [k.c EXCEPT !.broken = TRUE] /\ n.s = k.s
    BY <1>3 DEF Sent, Peer, Connection, Side
  <2>2. n.c \in Side(U) /\ n.c.inbox = k.c.inbox
        /\ n.c.peerEnd = k.c.peerEnd
    BY <1>1, <2>1, SideBroken
  <2>3. n \in Connection(U)
    BY <1>1, <1>3, <2>1, <2>2 DEF Sent, Connection
  <2>4. QED
    BY <1>3, <2>1, <2>2, <2>3
<1>4. CASE k.c.peerEnd # "open" /\ ~(k.c.peerEnd = "fin" /\ units # <<>>)
  <2>1. n = k
    BY <1>4 DEF Sent
  <2>2. QED
    BY <1>4, <2>1
<1>5. QED
  BY <1>2, <1>3, <1>4

LEMMA SentByServer ==
  ASSUME NEW U, NEW k \in Connection(U), NEW units \in Seq(U)
  PROVE  LET n == Sent(k, "s", units) IN
         /\ n \in Connection(U)
         /\ n.s.inbox = k.s.inbox
         /\ n.c.peerEnd = k.c.peerEnd /\ n.s.peerEnd = k.s.peerEnd
         /\ n.c.broken = k.c.broken
         /\ k.s.peerEnd = "open" => /\ n.c.inbox = k.c.inbox \o units
                                    /\ n.s.broken = k.s.broken
         /\ k.s.peerEnd # "open" => n.c.inbox = k.c.inbox
<1> DEFINE n == Sent(k, "s", units)
           q == k.c.inbox \o units
<1>1. k.c \in Side(U) /\ k.s \in Side(U) /\ q \in Seq(U)
  BY Inboxes DEF Connection
<1>2. CASE k.s.peerEnd = "open"
  <2>1. n.s = k.s /\ n.c = [k.c EXCEPT !.inbox = q]
    BY <1>2 DEF Sent, Peer, Connection, Side
  <2>2. n.c \in Side(U) /\ n.c.inbox = q
        /\ n.c.peerEnd = k.c.peerEnd /\ n.c.broken = k.c.broken
    <3> HIDE DEF n, q
    <3> QED
      BY <1>1, <2>1, SideWithInbox
  <2>3. n \in Connection(U)
    BY <1>1, <1>2, <2>1, <2>2 DEF Sent, Peer, Connection
  <2>4. QED
    BY <1>2, <2>1, <2>2, <2>3
<1>3. CASE k.s.peerEnd = "fin" /\ units # <<>>
  <2>1. n.s = [k.s EXCEPT !.broken = TRUE] /\ n.c = k.c
    BY <1>3 DEF Sent, Peer, Connection, Side
  <2>2. n.s \in Side(U) /\ n.s.inbox = k.s.inbox
        /\ n.s.peerEnd = k.s.peerEnd
    BY <1>1, <2>1, SideBroken
  <2>3. n \in Connection(U)
    BY <1>1, <1>3, <2>1, <2>2 DEF Sent, Connection
  <2>4. QED
    BY <1>3, <2>1, <2>2, <2>3
<1>4. CASE k.s.peerEnd # "open" /\ ~(k.s.peerEnd = "fin" /\ units # <<>>)
  <2>1. n = k
    BY <1>4 DEF Sent
  <2>2. QED
    BY <1>4, <2>1
<1>5. QED
  BY <1>2, <1>3, <1>4

LEMMA ErroredAtServer ==
  ASSUME NEW U, NEW k \in Connection(U)
  PROVE  LET n == Errored(k, "s") IN
         /\ n \in Connection(U)
         /\ n.c = k.c
         /\ n.s.inbox = k.s.inbox /\ n.s.peerEnd = k.s.peerEnd
<1> DEFINE n == Errored(k, "s")
<1>1. n.c = k.c /\ n.s = [k.s EXCEPT !.broken = TRUE]
  BY DEF Errored, Connection, Side
<1>2. k.s \in Side(U) /\ k.c \in Side(U)
  BY DEF Connection
<1>3. n.s \in Side(U) /\ n.s.inbox = k.s.inbox /\ n.s.peerEnd = k.s.peerEnd
  BY <1>1, <1>2, SideBroken
<1>4. n \in Connection(U)
  BY <1>1, <1>2, <1>3 DEF Errored, Connection
<1>5. QED
  BY <1>1, <1>3, <1>4

\* recv cuts a non-empty chunk off the front of the inbox.
LEMMA ChunkOfInbox ==
  ASSUME NEW U, NEW s \in Seq(U), NEW n \in 1..Len(s)
  PROVE  /\ SubSeq(s, 1, n) \in Seq(U)
         /\ SubSeq(s, n + 1, Len(s)) \in Seq(U)
         /\ Len(SubSeq(s, 1, n)) = n
         /\ s = SubSeq(s, 1, n) \o SubSeq(s, n + 1, Len(s))
         /\ SubSeq(s, 1, n)[1] = s[1]
OBVIOUS

LEMMA ReadByClient ==
  ASSUME NEW U, NEW k \in Connection(U), NEW n \in Readable(k.c)
  PROVE  LET r == Read(k, "c", n)
             chunk == Chunk(k.c, n)
         IN /\ r \in Connection(U)
            /\ r.s = k.s
            /\ r.c.peerEnd = k.c.peerEnd /\ r.c.broken = k.c.broken
            /\ chunk \in Seq(U) /\ Len(chunk) = n
            /\ chunk[1] = k.c.inbox[1]
            /\ k.c.inbox = chunk \o r.c.inbox
<1> DEFINE r == Read(k, "c", n)
           q == SubSeq(k.c.inbox, n + 1, Len(k.c.inbox))
<1>1. k.c.inbox \in Seq(U) /\ n \in 1..Len(k.c.inbox) /\ k.c \in Side(U)
  BY Inboxes DEF Readable, Connection
<1>2. r.s = k.s
  BY DEF Read, Connection
<1>3. r.c = [k.c EXCEPT !.inbox = q]
  BY DEF Read, Connection, Side
<1>4. q \in Seq(U)
  BY <1>1, ChunkOfInbox
<1>5. r.c \in Side(U) /\ r.c.inbox = q
      /\ r.c.peerEnd = k.c.peerEnd /\ r.c.broken = k.c.broken
  <2> HIDE DEF r, q
  <2> QED
    BY <1>1, <1>3, <1>4, SideWithInbox
<1>6. r \in Connection(U)
  BY <1>3, <1>5 DEF Read, Connection
<1>7. QED
  BY <1>1, <1>2, <1>5, <1>6, ChunkOfInbox DEF Chunk

LEMMA ReadByServer ==
  ASSUME NEW U, NEW k \in Connection(U), NEW n \in Readable(k.s)
  PROVE  LET r == Read(k, "s", n)
             chunk == Chunk(k.s, n)
         IN /\ r \in Connection(U)
            /\ r.c = k.c
            /\ r.s.peerEnd = k.s.peerEnd /\ r.s.broken = k.s.broken
            /\ chunk \in Seq(U) /\ Len(chunk) = n
            /\ chunk[1] = k.s.inbox[1]
            /\ k.s.inbox = chunk \o r.s.inbox
<1> DEFINE r == Read(k, "s", n)
           q == SubSeq(k.s.inbox, n + 1, Len(k.s.inbox))
<1>1. k.s.inbox \in Seq(U) /\ n \in 1..Len(k.s.inbox) /\ k.s \in Side(U)
  BY Inboxes DEF Readable, Connection
<1>2. r.c = k.c
  BY DEF Read, Connection
<1>3. r.s = [k.s EXCEPT !.inbox = q]
  BY DEF Read, Connection, Side
<1>4. q \in Seq(U)
  BY <1>1, ChunkOfInbox
<1>5. r.s \in Side(U) /\ r.s.inbox = q
      /\ r.s.peerEnd = k.s.peerEnd /\ r.s.broken = k.s.broken
  <2> HIDE DEF r, q
  <2> QED
    BY <1>1, <1>3, <1>4, SideWithInbox
<1>6. r \in Connection(U)
  BY <1>3, <1>5 DEF Read, Connection
<1>7. QED
  BY <1>1, <1>2, <1>5, <1>6, ChunkOfInbox DEF Chunk

\* Whoever closes loses what it has not read, and the other end sees it gone.
LEMMA ClosedByClient ==
  ASSUME NEW U, NEW k \in Connection(U)
  PROVE  LET n == Closed(k, "c") IN
         /\ n \in Connection(U)
         /\ n.c.inbox = <<>>
         /\ n.c.peerEnd = k.c.peerEnd /\ n.c.broken = k.c.broken
         /\ n.s.inbox = k.s.inbox /\ n.s.broken = k.s.broken
         /\ n.s.peerEnd # "open"
<1> DEFINE n == Closed(k, "c")
           e == IF k.c.inbox = <<>> THEN "fin" ELSE "rst"
<1>1. k.c \in Side(U) /\ k.s \in Side(U) /\ e \in Ends /\ e # "open"
  BY DEF Connection, Ends
<1>2. n.c = [k.c EXCEPT !.closed = TRUE, !.inbox = <<>>]
  BY DEF Closed, Peer, Connection, Side
<1>3. n.s = [k.s EXCEPT !.peerEnd = e]
  BY DEF Closed, Peer, Connection, Side
<1>4. n.c \in Side(U) /\ n.c.inbox = <<>>
      /\ n.c.peerEnd = k.c.peerEnd /\ n.c.broken = k.c.broken
  BY <1>1, <1>2, SideClosed
<1>5. n.s \in Side(U) /\ n.s.inbox = k.s.inbox
      /\ n.s.peerEnd = e /\ n.s.broken = k.s.broken
  <2> HIDE DEF n, e
  <2> QED
    BY <1>1, <1>3, SideWithEnd
<1>6. n \in Connection(U)
  BY <1>4, <1>5 DEF Closed, Peer, Connection
<1>7. QED
  BY <1>1, <1>4, <1>5, <1>6

LEMMA ClosedByServer ==
  ASSUME NEW U, NEW k \in Connection(U)
  PROVE  LET n == Closed(k, "s") IN
         /\ n \in Connection(U)
         /\ n.s.inbox = <<>>
         /\ n.s.peerEnd = k.s.peerEnd /\ n.s.broken = k.s.broken
         /\ n.c.inbox = k.c.inbox /\ n.c.broken = k.c.broken
         /\ n.c.peerEnd # "open"
<1> DEFINE n == Closed(k, "s")
           e == IF k.s.inbox = <<>> THEN "fin" ELSE "rst"
<1>1. k.c \in Side(U) /\ k.s \in Side(U) /\ e \in Ends /\ e # "open"
  BY DEF Connection, Ends
<1>2. n.s = [k.s EXCEPT !.closed = TRUE, !.inbox = <<>>]
  BY DEF Closed, Peer, Connection, Side
<1>3. n.c = [k.c EXCEPT !.peerEnd = e]
  BY DEF Closed, Peer, Connection, Side
<1>4. n.s \in Side(U) /\ n.s.inbox = <<>>
      /\ n.s.peerEnd = k.s.peerEnd /\ n.s.broken = k.s.broken
  BY <1>1, <1>2, SideClosed
<1>5. n.c \in Side(U) /\ n.c.inbox = k.c.inbox
      /\ n.c.peerEnd = e /\ n.c.broken = k.c.broken
  <2> HIDE DEF n, e
  <2> QED
    BY <1>1, <1>3, SideWithEnd
<1>6. n \in Connection(U)
  BY <1>4, <1>5 DEF Closed, Peer, Connection
<1>7. QED
  BY <1>1, <1>4, <1>5, <1>6

LEMMA RefusedByServer ==
  ASSUME NEW U, NEW k \in Connection(U)
  PROVE  LET n == Refused(k) IN
         /\ n \in Connection(U)
         /\ n.s.inbox = <<>>
         /\ n.s.peerEnd = k.s.peerEnd /\ n.s.broken = k.s.broken
         /\ n.c.inbox = k.c.inbox /\ n.c.broken = k.c.broken
         /\ n.c.peerEnd # "open"
<1> DEFINE n == Refused(k)
<1>1. k.c \in Side(U) /\ k.s \in Side(U) /\ "rst" \in Ends
  BY DEF Connection, Ends
<1>2. n.s = [k.s EXCEPT !.closed = TRUE, !.inbox = <<>>]
  BY DEF Refused, Connection, Side
<1>3. n.c = [k.c EXCEPT !.peerEnd = "rst"]
  BY DEF Refused, Connection, Side
<1>4. n.s \in Side(U) /\ n.s.inbox = <<>>
      /\ n.s.peerEnd = k.s.peerEnd /\ n.s.broken = k.s.broken
  BY <1>1, <1>2, SideClosed
<1>5. n.c \in Side(U) /\ n.c.inbox = k.c.inbox
      /\ n.c.peerEnd = "rst" /\ n.c.broken = k.c.broken
  <2> HIDE DEF n
  <2> QED
    BY <1>1, <1>3, SideWithEnd
<1>6. n \in Connection(U)
  BY <1>4, <1>5 DEF Refused, Connection
<1>7. QED
  BY <1>4, <1>5, <1>6

\* send fails, or kills, only once the other end is gone.
LEMMA SendFailsWhenGone ==
  ASSUME NEW side, NEW r \in SendResults(side), side.peerEnd \in Ends
  PROVE  /\ r \in {"sent", "error", "killed"}
         /\ r # "sent" => side.peerEnd # "open"
BY DEF SendResults, Ends

\* An error breaks the client's side, and nothing else.
LEMMA ErroredAtClient ==
  ASSUME NEW U, NEW k \in Connection(U)
  PROVE  LET n == Errored(k, "c") IN
         /\ n \in Connection(U)
         /\ n.s = k.s
         /\ n.c.inbox = k.c.inbox /\ n.c.peerEnd = k.c.peerEnd
<1> DEFINE n == Errored(k, "c")
<1>1. n.s = k.s /\ n.c = [k.c EXCEPT !.broken = TRUE]
  BY DEF Errored, Connection, Side
<1>2. k.s \in Side(U) /\ k.c \in Side(U)
  BY DEF Connection
<1>3. n.c \in Side(U) /\ n.c.inbox = k.c.inbox /\ n.c.peerEnd = k.c.peerEnd
  BY <1>1, <1>2, SideBroken
<1>4. n \in Connection(U)
  BY <1>1, <1>2, <1>3 DEF Errored, Connection
<1>5. QED
  BY <1>1, <1>3, <1>4

\* What the client sends closes nothing, and breaks its side only when the other
\* end is gone.
LEMMA FlagsWhenClientSends ==
  ASSUME NEW U, NEW k \in Connection(U), NEW units \in Seq(U)
  PROVE  LET n == Sent(k, "c", units) IN
         /\ n.s.closed = k.s.closed
         /\ n.c.broken => k.c.broken \/ k.c.peerEnd = "fin"
<1> DEFINE n == Sent(k, "c", units)
<1>1. CASE k.c.peerEnd = "open"
  <2>1. n.c = k.c /\ n.s = [k.s EXCEPT !.inbox = k.s.inbox \o units]
    BY <1>1 DEF Sent, Peer, Connection, Side
  <2>2. QED
    BY <2>1 DEF Connection, Side
<1>2. CASE k.c.peerEnd = "fin" /\ units # <<>>
  <2>1. n.s = k.s
    BY <1>2 DEF Sent, Peer, Connection, Side
  <2>2. QED
    BY <1>2, <2>1
<1>3. CASE k.c.peerEnd # "open" /\ ~(k.c.peerEnd = "fin" /\ units # <<>>)
  BY <1>3 DEF Sent
<1>4. QED
  BY <1>1, <1>2, <1>3

\* What the server sends does not close its side.
LEMMA FlagsWhenServerSends ==
  ASSUME NEW U, NEW k \in Connection(U), NEW units \in Seq(U)
  PROVE  Sent(k, "s", units).s.closed = k.s.closed
<1> DEFINE n == Sent(k, "s", units)
<1>1. CASE k.s.peerEnd = "open"
  <2>1. n.s = k.s
    BY <1>1 DEF Sent, Peer, Connection, Side
  <2>2. QED
    BY <2>1
<1>2. CASE k.s.peerEnd = "fin" /\ units # <<>>
  <2>1. n.s = [k.s EXCEPT !.broken = TRUE]
    BY <1>2 DEF Sent, Peer, Connection, Side
  <2>2. QED
    BY <2>1 DEF Connection, Side
<1>3. CASE k.s.peerEnd # "open" /\ ~(k.s.peerEnd = "fin" /\ units # <<>>)
  BY <1>3 DEF Sent
<1>4. QED
  BY <1>1, <1>2, <1>3

\* Only the server closes its side, and its RST means that data lay unread.
LEMMA FlagsWhenClosed ==
  ASSUME NEW U, NEW k \in Connection(U)
  PROVE  /\ Closed(k, "c").s.closed = k.s.closed
         /\ Closed(k, "s").s.closed
         /\ Closed(k, "s").c.peerEnd = "rst" => k.s.inbox # <<>>
         /\ Read(k, "s", 1).s.closed = k.s.closed
<1>1. Closed(k, "c").s.closed = k.s.closed
  BY DEF Closed, Peer, Connection, Side
<1>2. Closed(k, "s").s.closed
  BY DEF Closed, Peer, Connection, Side
<1>3. Closed(k, "s").c.peerEnd = IF k.s.inbox = <<>> THEN "fin" ELSE "rst"
  BY DEF Closed, Peer, Connection, Side
<1>4. Read(k, "s", 1).s.closed = k.s.closed
  BY DEF Read, Peer, Connection, Side
<1>5. QED
  BY <1>1, <1>2, <1>3, <1>4

\* An error or a signal takes an RST, or data lost before.
LEMMA SendFailsWhenBroken ==
  ASSUME NEW side, NEW r \in SendResults(side), side.peerEnd \in Ends,
         r # "sent"
  PROVE  side.peerEnd = "rst" \/ side.broken
BY DEF SendResults, Ends
================================================================================
