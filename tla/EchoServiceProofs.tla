--------------------------- MODULE EchoServiceProofs ---------------------------
(***************************************************************************)
(* Proofs about the echo server and its clients: the echo is exact however *)
(* the streams are cut, the server is killed only over a client that left  *)
(* in haste, a round prints what is new first, and the service keeps       *)
(* EchoPromise.                                                            *)
(***************************************************************************)
EXTENDS EchoService, TcpProofs

-------------------------------------------------------------------------------
(* Sequences of units. *)

LEMMA TextType ==
  ASSUME NEW r \in Units
  PROVE  Text(r) \in Seq(Units) /\ Len(Text(r)) = Parts
BY EchoAssumption DEF Text, Units

\* A prefix of a prefix, and a prefix of what has grown.
LEMMA PrefixOfLess ==
  ASSUME NEW U, NEW s \in Seq(U), NEW t \in Seq(U), NEW v \in Seq(U),
         IsPrefix(s \o t, v)
  PROVE  IsPrefix(s, v)
BY DEF IsPrefix

LEMMA PrefixOfMore ==
  ASSUME NEW U, NEW s \in Seq(U), NEW t \in Seq(U), NEW v \in Seq(U),
         IsPrefix(s, v)
  PROVE  IsPrefix(s, v \o t)
BY DEF IsPrefix

LEMMA PrefixOfConcat ==
  ASSUME NEW U, NEW s \in Seq(U), NEW t \in Seq(U)
  PROVE  IsPrefix(s, s \o t)
BY DEF IsPrefix

\* The invariant as its parts, once and for all.
LEMMA Parted ==
  ASSUME IInv
  PROVE  /\ TypeOK /\ ServerInv /\ QueueInv /\ KilledInv
         /\ \A c \in Clients : Exact(c) /\ OpenInv(c) /\ PlaceInv(c) /\ DebtInv(c)
BY DEF IInv, ClientInv

\* The types of one client's state.
LEMMA ClientTypes ==
  ASSUME TypeOK, NEW c \in Clients
  PROVE  /\ conn[c] \in Connection(Units)
         /\ conn[c].c.inbox \in Seq(Units) /\ conn[c].s.inbox \in Seq(Units)
         /\ conn[c].c.peerEnd \in Ends /\ conn[c].s.peerEnd \in Ends
         /\ said[c] \in Seq(Units) /\ got[c] \in Seq(Units)
         /\ recvBuffer[c] \in Seq(Units)
         /\ InHand(c) \in Seq(Units)
         /\ i[c] \in 0..Rounds
<1>1. conn[c] \in Connection(Units)
  BY DEF TypeOK
<1>2. QED
  BY <1>1, Inboxes DEF TypeOK, InHand

-------------------------------------------------------------------------------
(* A client nothing happens to keeps its invariant. *)

LEMMA Untouched ==
  ASSUME NEW d \in Clients, ClientInv(d),
         conn'[d] = conn[d], pc'[d] = pc[d], i'[d] = i[d],
         said'[d] = said[d], got'[d] = got[d], InHand(d)' = InHand(d),
         Listening' => /\ Listening
                       /\ d = fd' \/ d \in Range(backlog')
                             => ~Ended(d) \/ d = fd \/ d \in Range(backlog),
         pc[d] = "connect" => d # fd'
  PROVE  ClientInv(d)'
<1>1. Exact(d)'
  BY DEF ClientInv, Exact, Intact
<1>2. OpenInv(d)'
  BY DEF ClientInv, OpenInv, Ended
<1>3. PlaceInv(d)'
  BY DEF ClientInv, PlaceInv, Ended
<1>4. DebtInv(d)'
  BY DEF ClientInv, DebtInv
<1>5. QED
  BY <1>1, <1>2, <1>3, <1>4 DEF ClientInv

\* A step of one client that is neither starting nor gone: what is left to
\* show is the invariant of that client.
LEMMA ClientStep ==
  ASSUME IInv, NEW c \in Clients, TypeOK', UNCHANGED serverVars,
         ~Ended(c), pc[c] # "connect", pc'[c] # "connect",
         \A d \in Clients \ {c} :
            /\ conn'[d] = conn[d] /\ pc'[d] = pc[d] /\ i'[d] = i[d]
            /\ said'[d] = said[d] /\ got'[d] = got[d],
         conn[c].s.peerEnd # "open" => conn'[c].s.peerEnd # "open",
         ClientInv(c)'
  PROVE  IInv'
<1>1. ServerInv'
  BY DEF IInv, ServerInv, serverVars
<1>2. QueueInv'
  <2>1. backlog' = backlog /\ fd' = fd
    BY DEF serverVars
  <2>2. ASSUME NEW k \in 1..Len(backlog)
        PROVE  backlog[k] # fd /\ pc'[backlog[k]] # "connect"
    <3>1. backlog[k] \in Clients
      BY DEF IInv, TypeOK
    <3>2. backlog[k] # fd /\ pc[backlog[k]] # "connect"
      BY DEF IInv, QueueInv
    <3>3. QED
      BY <3>1, <3>2
  <2>3. QED
    BY <2>1, <2>2 DEF IInv, QueueInv
<1>3. KilledInv'
  BY DEF IInv, KilledInv, serverVars, Ended
<1>4. ASSUME NEW d \in Clients
      PROVE  ClientInv(d)'
  <2>1. CASE d = c
    BY <2>1
  <2>2. CASE d # c
    <3>1. InHand(d)' = InHand(d) /\ (Listening' => Listening)
          /\ fd' = fd /\ backlog' = backlog
      BY DEF InHand, Listening, serverVars
    <3>2. ClientInv(d) /\ (pc[d] = "connect" => d # fd)
      BY DEF IInv, ClientInv, PlaceInv
    <3>3. QED
      BY <2>2, <3>1, <3>2, Untouched
  <2>3. QED
    BY <2>1, <2>2
<1>5. QED
  BY <1>1, <1>2, <1>3, <1>4 DEF IInv

-------------------------------------------------------------------------------
(* The client's steps. *)

\* A client that is gone, whether it closed its connection or was killed.
LEMMA GoneKeeps ==
  ASSUME IInv, NEW c \in Clients, NEW how \in {"done", "killed"},
         ~Ended(c), pc[c] # "connect",
         conn' = [conn EXCEPT ![c] = Closed(@, "c")],
         pc' = [pc EXCEPT ![c] = how],
         UNCHANGED <<serverVars, i, recvBuffer, said, got>>
  PROVE  IInv'
<1> DEFINE k == conn[c]
           n == conn'[c]
<1>1. /\ TypeOK
      /\ IsPrefix(got[c] \o k.c.inbox, said[c])
      /\ OpenInv(c) /\ PlaceInv(c) /\ DebtInv(c)
  BY Parted DEF Exact
<1>2. /\ k \in Connection(Units)
      /\ k.c.inbox \in Seq(Units) /\ k.s.inbox \in Seq(Units)
      /\ said[c] \in Seq(Units) /\ got[c] \in Seq(Units)
      /\ InHand(c) \in Seq(Units)
  BY <1>1, ClientTypes
<1>3. n = Closed(k, "c") /\ pc'[c] = how /\ Ended(c)'
  BY <1>1 DEF TypeOK, Ended
<1> HIDE DEF k, n
<1>4. /\ n \in Connection(Units)
      /\ n.c.inbox = <<>>
      /\ n.c.peerEnd = k.c.peerEnd
      /\ n.s.inbox = k.s.inbox
      /\ n.s.peerEnd # "open"
  BY <1>2, <1>3, ClosedByClient
<1>5. TypeOK'
  BY <1>1, <1>3, <1>4 DEF TypeOK, serverVars, n
<1>6. InHand(c)' = InHand(c) /\ Listening' = Listening
      /\ fd' = fd /\ backlog' = backlog /\ got' = got /\ said' = said
  BY DEF InHand, Listening, serverVars
<1>7. Exact(c)'
  <2>1. IsPrefix(got[c], said[c])
    BY <1>1, <1>2, PrefixOfLess
  <2>2. got[c] \o <<>> = got[c]
    BY <1>2
  <2>3. IsPrefix(got[c] \o n.c.inbox, said[c])
    BY <1>4, <2>1, <2>2
  <2>4. ~Intact(c)'
    BY <1>4 DEF Intact, n
  <2>5. QED
    BY <1>6, <2>3, <2>4 DEF Exact, n
<1>8. OpenInv(c)'
  BY <1>1, <1>3, <1>4, <1>6 DEF OpenInv, n, k
<1>9. PlaceInv(c)'
  BY <1>1, <1>3, <1>4 DEF PlaceInv, n, k
<1>10. DebtInv(c)'
  <2> DEFINE g == Len(got[c])
             a == Len(k.c.inbox)
             h == Len(InHand(c))
             b == Len(k.s.inbox)
             v == Len(said[c])
  <2>1. g \in Nat /\ a \in Nat /\ h \in Nat /\ b \in Nat /\ v \in Nat
    BY <1>2
  <2>2. Len(n.c.inbox) = 0 /\ n.s.inbox = k.s.inbox
    BY <1>4
  <2>3. k.c.peerEnd = "open" => g + a + h + b <= v
    BY <1>1 DEF DebtInv, k
  <2> HIDE DEF g, a, h, b, v
  <2>4. k.c.peerEnd = "open" => g + 0 + h + b <= v
    BY <2>1, <2>3
  <2>5. QED
    BY <1>4, <1>6, <2>2, <2>4 DEF DebtInv, n, g, h, b, v
<1>11. QED
  BY <1>3, <1>4, <1>5, <1>7, <1>8, <1>9, <1>10, ClientStep DEF ClientInv, n, k

LEMMA SendKeeps ==
  ASSUME IInv, NEW c \in Clients, Send(c)
  PROVE  IInv'
<1> DEFINE k == conn[c]
           n == conn'[c]
           text == Text(i[c])
<1>1. PICK result \in SendResults(k.c) :
        \/ /\ result = "sent"
           /\ conn' = [conn EXCEPT ![c] = Sent(@, "c", text)]
           /\ said' = [said EXCEPT ![c] = @ \o text]
           /\ pc' = [pc EXCEPT ![c] = "recv"]
        \/ /\ result = "error"
           /\ pc' = [pc EXCEPT ![c] = "close"]
           /\ UNCHANGED <<conn, said>>
        \/ /\ result = "killed"
           /\ conn' = [conn EXCEPT ![c] = Closed(@, "c")]
           /\ pc' = [pc EXCEPT ![c] = "killed"]
           /\ UNCHANGED said
  BY DEF Send
<1>2. /\ pc[c] = "send" /\ ~Ended(c)
      /\ UNCHANGED serverVars /\ i' = i /\ recvBuffer' = recvBuffer /\ got' = got
  BY DEF Send, Ended
<1>3. /\ TypeOK
      /\ IsPrefix(got[c] \o k.c.inbox, said[c])
      /\ Intact(c) => said[c] = got[c] \o k.c.inbox \o InHand(c) \o k.s.inbox
      /\ OpenInv(c) /\ PlaceInv(c) /\ DebtInv(c)
  BY Parted DEF Exact
<1>6. /\ k \in Connection(Units)
      /\ k.c.inbox \in Seq(Units) /\ k.s.inbox \in Seq(Units)
      /\ k.c.peerEnd \in Ends /\ k.s.peerEnd \in Ends
      /\ said[c] \in Seq(Units) /\ got[c] \in Seq(Units)
      /\ InHand(c) \in Seq(Units)
  BY <1>3, ClientTypes
<1>4. /\ InHand(c)' = InHand(c) /\ Listening' = Listening
      /\ fd' = fd /\ backlog' = backlog
  BY <1>2 DEF InHand, Listening, serverVars
<1>5. text \in Seq(Units) /\ Len(text) = Parts
  <2>1. i[c] < Rounds /\ i[c] \in 0..Rounds
    BY <1>2, <1>3, ClientTypes DEF PlaceInv
  <2>2. i[c] \in Units
    BY <2>1, EchoAssumption DEF Units
  <2>3. QED
    BY <2>2, TextType
<1> HIDE DEF k, n, text
<1>7. CASE result = "sent"
  <2>1. /\ conn' = [conn EXCEPT ![c] = Sent(k, "c", text)]
        /\ said' = [said EXCEPT ![c] = said[c] \o text]
        /\ pc' = [pc EXCEPT ![c] = "recv"]
    BY <1>1, <1>7 DEF k
  <2>2. /\ n = Sent(k, "c", text) /\ said'[c] = said[c] \o text
        /\ pc'[c] = "recv" /\ ~Ended(c)'
    BY <1>3, <2>1 DEF TypeOK, Ended, n
  <2>4. /\ n \in Connection(Units)
        /\ n.c.inbox = k.c.inbox
        /\ n.c.peerEnd = k.c.peerEnd /\ n.s.peerEnd = k.s.peerEnd
        /\ n.s.broken = k.s.broken
        /\ k.c.peerEnd = "open" => /\ n.s.inbox = k.s.inbox \o text
                                   /\ n.c.broken = k.c.broken
        /\ k.c.peerEnd # "open" => n.s.inbox = k.s.inbox
    BY <1>6, <1>5, <2>2, SentByClient
  <2>5. said[c] \o text \in Seq(Units)
    BY <1>6, <1>5
  <2>6. TypeOK'
    BY <1>2, <1>3, <2>1, <2>2, <2>4, <2>5 DEF TypeOK, serverVars, n
  <2>7. Exact(c)'
    <3>1. IsPrefix(got[c] \o n.c.inbox, said'[c])
      <4>1. got[c] \o k.c.inbox \in Seq(Units) /\ said[c] \in Seq(Units)
        BY <1>6
      <4>2. IsPrefix(got[c] \o k.c.inbox, said[c] \o text)
        BY <1>3, <1>5, <4>1, PrefixOfMore
      <4>3. QED
        BY <2>2, <2>4, <4>2
    <3>2. ASSUME Intact(c)'
          PROVE  said'[c] = got[c] \o n.c.inbox \o InHand(c) \o n.s.inbox
      <4>1. k.c.peerEnd = "open" /\ k.s.peerEnd = "open"
        BY <2>4, <3>2 DEF Intact, n
      <4>2. said[c] = got[c] \o k.c.inbox \o InHand(c) \o k.s.inbox
        BY <1>3, <4>1 DEF Intact, k
      <4>3. said[c] \o text
               = got[c] \o k.c.inbox \o InHand(c) \o (k.s.inbox \o text)
        <5> DEFINE p == got[c] \o k.c.inbox \o InHand(c)
                   b == k.s.inbox
        <5>1. p \in Seq(Units) /\ b \in Seq(Units) /\ text \in Seq(Units)
          BY <1>5, <1>6
        <5> HIDE DEF p, b
        <5>2. (p \o b) \o text = p \o (b \o text)
          BY <5>1
        <5>3. QED
          BY <4>2, <5>2 DEF p, b
      <4>4. QED
        BY <2>2, <2>4, <4>1, <4>3
    <3>3. QED
      BY <1>2, <1>4, <3>1, <3>2 DEF Exact, n
  <2>8. OpenInv(c)'
    BY <1>2, <1>3, <1>4, <2>2, <2>4 DEF OpenInv, n, k
  <2>9. PlaceInv(c)'
    BY <1>2, <1>3, <1>4, <2>2, <2>4 DEF PlaceInv, Ended, n, k
  <2>10. DebtInv(c)'
    <3>1. ASSUME k.c.peerEnd = "open"
          PROVE  Len(got[c]) + Len(n.c.inbox) + Len(InHand(c)) + Len(n.s.inbox)
                    <= Len(said'[c])
      <4>1. Len(got[c]) + Len(k.c.inbox) + Len(InHand(c)) + Len(k.s.inbox)
               <= Len(said[c])
        BY <1>3, <3>1 DEF DebtInv, k
      <4>2. /\ Len(said[c] \o text) = Len(said[c]) + Len(text)
            /\ Len(k.s.inbox \o text) = Len(k.s.inbox) + Len(text)
        <5> DEFINE v == said[c]
                   b == k.s.inbox
        <5> HIDE DEF v, b
        <5>1. v \in Seq(Units) /\ b \in Seq(Units) /\ text \in Seq(Units)
          BY <1>5, <1>6 DEF v, b
        <5>2. QED
          BY <5>1 DEF v, b
      <4>3. /\ Len(said[c]) \in Nat /\ Len(text) \in Nat
            /\ Len(got[c]) \in Nat /\ Len(k.c.inbox) \in Nat
            /\ Len(InHand(c)) \in Nat /\ Len(k.s.inbox) \in Nat
        BY <1>5, <1>6
      <4>4. /\ Len(said'[c]) = Len(said[c]) + Len(text)
            /\ Len(n.s.inbox) = Len(k.s.inbox) + Len(text)
            /\ Len(n.c.inbox) = Len(k.c.inbox)
        BY <2>2, <2>4, <3>1, <4>2
      <4> DEFINE g == Len(got[c])
                 a == Len(k.c.inbox)
                 h == Len(InHand(c))
                 b == Len(k.s.inbox)
                 v == Len(said[c])
                 t == Len(text)
      <4>5. /\ g \in Nat /\ a \in Nat /\ h \in Nat /\ b \in Nat /\ v \in Nat /\ t \in Nat
            /\ g + a + h + b <= v
        BY <4>1, <4>3
      <4>6. Len(n.c.inbox) = a /\ Len(n.s.inbox) = b + t /\ Len(said'[c]) = v + t
        BY <4>4
      <4> HIDE DEF g, a, h, b, v, t
      <4>7. g + a + h + (b + t) <= v + t
        BY <4>5
      <4>8. QED
        BY <4>6, <4>7 DEF g, h
    <3>2. QED
      BY <1>2, <1>4, <2>4, <3>1 DEF DebtInv, n
  <2>11. QED
    BY <1>2, <2>1, <2>2, <2>4, <2>6, <2>7, <2>8, <2>9, <2>10, ClientStep
       DEF ClientInv, n, k
<1>8. CASE result = "error"
  <2>1. /\ conn' = conn /\ said' = said
        /\ pc' = [pc EXCEPT ![c] = "close"]
    BY <1>1, <1>8
  <2>2. n = k /\ pc'[c] = "close" /\ ~Ended(c)'
    BY <1>3, <2>1 DEF TypeOK, Ended, n, k
  <2>3. TypeOK'
    BY <1>2, <1>3, <2>1 DEF TypeOK, serverVars
  <2>4. ClientInv(c)'
    <3>1. Exact(c)'
      BY <1>2, <1>3, <1>4, <2>1 DEF Exact, Intact, k
    <3>2. OpenInv(c)' /\ PlaceInv(c)' /\ DebtInv(c)'
      BY <1>2, <1>3, <1>4, <2>1, <2>2 DEF OpenInv, PlaceInv, DebtInv, Ended
    <3>3. QED
      BY <3>1, <3>2 DEF ClientInv
  <2>5. QED
    BY <1>2, <2>1, <2>2, <2>3, <2>4, ClientStep
<1>9. CASE result = "killed"
  <2>1. /\ conn' = [conn EXCEPT ![c] = Closed(@, "c")]
        /\ pc' = [pc EXCEPT ![c] = "killed"]
        /\ said' = said
    BY <1>1, <1>9
  <2>2. QED
    BY <1>2, <2>1, GoneKeeps
<1>10. QED
  BY <1>1, <1>3, <1>6, <1>7, <1>8, <1>9, SendFailsWhenGone DEF SendResults

LEMMA CloseKeeps ==
  ASSUME IInv, NEW c \in Clients, Close(c)
  PROVE  IInv'
BY GoneKeeps DEF Close, Ended

\* A turn of the loop ends: the next round begins, or the client closes.
LEMMA RoundTypes ==
  ASSUME TypeOK, NEW c \in Clients, PlaceInv(c), pc[c] = "recv", NextRound(c)
  PROVE  /\ i' \in [Clients -> 0..Rounds]
         /\ pc' \in [Clients -> {"connect", "send", "recv", "close", "done", "killed"}]
         /\ pc'[c] \in {"send", "close"}
         /\ pc'[c] = "send" => i'[c] < Rounds
         /\ \A d \in Clients \ {c} : pc'[d] = pc[d] /\ i'[d] = i[d]
<1>1. i[c] \in 0..Rounds /\ i[c] < Rounds /\ Rounds \in Nat
  BY EchoAssumption DEF TypeOK, PlaceInv
<1>2. i[c] + 1 \in 0..Rounds
  BY <1>1
<1>3. i' = [i EXCEPT ![c] = i[c] + 1]
      /\ pc' = [pc EXCEPT ![c] = IF i[c] + 1 < Rounds THEN "send" ELSE "close"]
  BY DEF NextRound
<1>4. QED
  BY <1>2, <1>3 DEF TypeOK

LEMMA RecvNothingKeeps ==
  ASSUME IInv, NEW c \in Clients, RecvNothing(c)
  PROVE  IInv'
<1>1. /\ pc[c] = "recv" /\ NextRound(c)
      /\ UNCHANGED <<serverVars, conn, recvBuffer, said, got>>
  BY DEF RecvNothing
<1>2. TypeOK /\ Exact(c) /\ OpenInv(c) /\ PlaceInv(c) /\ DebtInv(c)
  BY Parted
<1>3. /\ i' \in [Clients -> 0..Rounds]
      /\ pc' \in [Clients -> {"connect", "send", "recv", "close", "done", "killed"}]
      /\ pc'[c] \in {"send", "close"}
      /\ pc'[c] = "send" => i'[c] < Rounds
      /\ \A d \in Clients \ {c} : pc'[d] = pc[d] /\ i'[d] = i[d]
  BY <1>1, <1>2, RoundTypes
<1>4. TypeOK'
  BY <1>1, <1>2, <1>3 DEF TypeOK, serverVars
<1>5. Exact(c)'
  BY <1>1, <1>2 DEF Exact, Intact, InHand, serverVars
<1>6. OpenInv(c)' /\ PlaceInv(c)' /\ DebtInv(c)'
  BY <1>1, <1>2, <1>3
     DEF OpenInv, PlaceInv, DebtInv, Ended, Listening, InHand, serverVars
<1>7. ~Ended(c) /\ pc[c] # "connect" /\ pc'[c] # "connect"
  BY <1>1, <1>3 DEF Ended
<1>8. QED
  BY <1>1, <1>3, <1>4, <1>5, <1>6, <1>7, ClientStep DEF ClientInv

LEMMA RecvFailsKeeps ==
  ASSUME IInv, NEW c \in Clients, RecvFails(c)
  PROVE  IInv'
<1>1. /\ pc[c] = "recv" /\ pc' = [pc EXCEPT ![c] = "close"]
      /\ UNCHANGED <<serverVars, conn, i, recvBuffer, said, got>>
  BY DEF RecvFails
<1>2. TypeOK /\ Exact(c) /\ OpenInv(c) /\ PlaceInv(c) /\ DebtInv(c)
  BY Parted
<1>3. TypeOK'
  BY <1>1, <1>2 DEF TypeOK, serverVars
<1>4. pc'[c] = "close" /\ (\A d \in Clients \ {c} : pc'[d] = pc[d])
  BY <1>1, <1>2 DEF TypeOK
<1>5. Exact(c)'
  BY <1>1, <1>2 DEF Exact, Intact, InHand, serverVars
<1>6. OpenInv(c)' /\ PlaceInv(c)' /\ DebtInv(c)'
  BY <1>1, <1>2, <1>4
     DEF OpenInv, PlaceInv, DebtInv, Ended, Listening, InHand, serverVars
<1>7. ~Ended(c) /\ pc[c] # "connect" /\ pc'[c] # "connect"
  BY <1>1, <1>4 DEF Ended
<1>8. QED
  BY <1>1, <1>3, <1>4, <1>5, <1>6, <1>7, ClientStep DEF ClientInv

LEMMA RecvKeeps ==
  ASSUME IInv, NEW c \in Clients, NEW n \in Readable(conn[c].c), Recv(c, n)
  PROVE  IInv'
<1> DEFINE k == conn[c]
           r == conn'[c]
           chunk == Chunk(k.c, n)
<1>1. /\ pc[c] = "recv" /\ NextRound(c)
      /\ got' = [got EXCEPT ![c] = @ \o chunk]
      /\ recvBuffer' = [recvBuffer EXCEPT ![c] = Overwritten(@, chunk)]
      /\ conn' = [conn EXCEPT ![c] = Read(k, "c", n)]
      /\ UNCHANGED <<serverVars, said>>
  BY DEF Recv
<1>2. /\ TypeOK
      /\ IsPrefix(got[c] \o k.c.inbox, said[c])
      /\ Intact(c) => said[c] = got[c] \o k.c.inbox \o InHand(c) \o k.s.inbox
      /\ OpenInv(c) /\ PlaceInv(c) /\ DebtInv(c)
  BY Parted DEF Exact
<1>3. /\ k \in Connection(Units) /\ n \in Readable(k.c)
      /\ k.c.inbox \in Seq(Units) /\ k.s.inbox \in Seq(Units)
      /\ said[c] \in Seq(Units) /\ got[c] \in Seq(Units)
      /\ recvBuffer[c] \in Seq(Units)
      /\ InHand(c) \in Seq(Units)
  BY <1>2, ClientTypes
<1>4. /\ i' \in [Clients -> 0..Rounds]
      /\ pc' \in [Clients -> {"connect", "send", "recv", "close", "done", "killed"}]
      /\ pc'[c] \in {"send", "close"}
      /\ pc'[c] = "send" => i'[c] < Rounds
      /\ \A d \in Clients \ {c} : pc'[d] = pc[d] /\ i'[d] = i[d]
  BY <1>1, <1>2, RoundTypes
<1>5. r = Read(k, "c", n) /\ got'[c] = got[c] \o chunk
  BY <1>1, <1>2 DEF TypeOK
<1> HIDE DEF k, r, chunk
<1>6. /\ r \in Connection(Units) /\ r.s = k.s
      /\ r.c.peerEnd = k.c.peerEnd /\ r.c.broken = k.c.broken
      /\ chunk \in Seq(Units) /\ Len(chunk) = n
      /\ k.c.inbox = chunk \o r.c.inbox
  BY <1>3, <1>5, ReadByClient DEF chunk
<1>7. r.c.inbox \in Seq(Units)
  BY <1>6, Inboxes
<1>8. Overwritten(recvBuffer[c], chunk) \in Seq(Units)
  <2> DEFINE b == recvBuffer[c]
  <2>1. b \in Seq(Units) /\ chunk \in Seq(Units)
    BY <1>3, <1>6
  <2> HIDE DEF b
  <2>2. SubSeq(b, Len(chunk) + 1, Len(b)) \in Seq(Units)
    BY <2>1
  <2>3. QED
    BY <2>1, <2>2 DEF Overwritten, b
<1>9. got[c] \o chunk \in Seq(Units)
  BY <1>3, <1>6
<1>10. TypeOK'
  BY <1>1, <1>2, <1>4, <1>5, <1>6, <1>8, <1>9 DEF TypeOK, serverVars, r
<1>11. InHand(c)' = InHand(c) /\ Listening' = Listening
       /\ fd' = fd /\ backlog' = backlog /\ said' = said
  BY <1>1 DEF InHand, Listening, serverVars
<1>12. got'[c] \o r.c.inbox = got[c] \o k.c.inbox
  <2> DEFINE g == got[c]
             q == r.c.inbox
  <2>1. g \in Seq(Units) /\ q \in Seq(Units) /\ chunk \in Seq(Units)
    BY <1>3, <1>6, <1>7
  <2> HIDE DEF g, q
  <2>2. (g \o chunk) \o q = g \o (chunk \o q)
    BY <2>1
  <2>3. QED
    BY <1>5, <1>6, <2>2 DEF g, q
<1>13. Exact(c)'
  <2>1. IsPrefix(got'[c] \o r.c.inbox, said[c])
    BY <1>2, <1>12
  <2>2. Intact(c)' => Intact(c)
    BY <1>6 DEF Intact, k, r
  <2>3. Intact(c)' => said[c] = got'[c] \o r.c.inbox \o InHand(c) \o r.s.inbox
    BY <1>2, <1>6, <1>12, <2>2
  <2>4. QED
    BY <1>11, <2>1, <2>3 DEF Exact, r
<1>14. OpenInv(c)' /\ PlaceInv(c)'
  BY <1>1, <1>2, <1>4, <1>6, <1>11 DEF OpenInv, PlaceInv, Ended, k, r
<1>15. DebtInv(c)'
  <2>1. /\ Len(got'[c]) = Len(got[c]) + n
        /\ Len(k.c.inbox) = n + Len(r.c.inbox)
    <3> DEFINE g == got[c]
               q == r.c.inbox
    <3>1. g \in Seq(Units) /\ q \in Seq(Units) /\ chunk \in Seq(Units)
      BY <1>3, <1>6, <1>7
    <3> HIDE DEF g, q
    <3>2. /\ Len(g \o chunk) = Len(g) + Len(chunk)
          /\ Len(chunk \o q) = Len(chunk) + Len(q)
      BY <3>1
    <3>3. QED
      BY <1>5, <1>6, <3>2 DEF g, q
  <2> DEFINE g == Len(got[c])
             a == Len(r.c.inbox)
             h == Len(InHand(c))
             b == Len(k.s.inbox)
             v == Len(said[c])
  <2>2. g \in Nat /\ a \in Nat /\ h \in Nat /\ b \in Nat /\ v \in Nat /\ n \in Nat
    BY <1>3, <1>6, <1>7 DEF Readable
  <2>3. k.c.peerEnd = "open" => g + (n + a) + h + b <= v
    BY <1>2, <2>1 DEF DebtInv, k
  <2>4. Len(got'[c]) = g + n
    BY <2>1
  <2> HIDE DEF g, a, h, b, v
  <2>5. k.c.peerEnd = "open" => (g + n) + a + h + b <= v
    BY <2>2, <2>3
  <2>6. QED
    BY <1>6, <1>11, <2>4, <2>5 DEF DebtInv, r, a, h, b, v
<1>16. QED
  <2>1. /\ ~Ended(c) /\ pc[c] # "connect" /\ pc'[c] # "connect"
        /\ k.s.peerEnd # "open" => r.s.peerEnd # "open"
    BY <1>1, <1>4, <1>6 DEF Ended
  <2>2. \A d \in Clients \ {c} :
            /\ conn'[d] = conn[d] /\ pc'[d] = pc[d] /\ i'[d] = i[d]
            /\ said'[d] = said[d] /\ got'[d] = got[d]
    BY <1>1, <1>2, <1>4 DEF TypeOK
  <2>3. UNCHANGED serverVars
    BY <1>1
  <2>4. QED
    BY <1>10, <1>13, <1>14, <1>15, <2>1, <2>2, <2>3, ClientStep
       DEF ClientInv, k, r

LEMMA ConnectKeeps ==
  ASSUME IInv, NEW c \in Clients, Connect(c)
  PROVE  IInv'
<1>1. /\ pc[c] = "connect"
      /\ UNCHANGED <<at, fd, hand, conn, i, recvBuffer, said, got>>
  BY DEF Connect
<1>2. /\ TypeOK /\ ServerInv /\ QueueInv /\ KilledInv
      /\ Exact(c) /\ OpenInv(c) /\ PlaceInv(c) /\ DebtInv(c)
  BY Parted
<1>3. \/ /\ Listening
         /\ pc' = [pc EXCEPT ![c] = "send"]
         /\ backlog' = Append(backlog, c)
      \/ /\ ~Listening
         /\ pc' = [pc EXCEPT ![c] = "done"]
         /\ backlog' = backlog
  BY DEF Connect
<1>4. /\ pc'[c] \in {"send", "done"}
      /\ \A d \in Clients \ {c} : pc'[d] = pc[d]
      /\ pc' \in [Clients -> {"connect", "send", "recv", "close", "done", "killed"}]
      /\ backlog' \in Seq(Clients)
  <2>1. backlog \in Seq(Clients) /\ Append(backlog, c) \in Seq(Clients)
    BY <1>2 DEF TypeOK
  <2>2. backlog' \in Seq(Clients)
    BY <1>3, <2>1
  <2>3. QED
    BY <1>2, <1>3, <2>2 DEF TypeOK
<1>5. TypeOK'
  BY <1>1, <1>2, <1>4 DEF TypeOK
<1>6. ServerInv'
  BY <1>1, <1>2 DEF ServerInv
<1>7. c # fd /\ conn[c] = NewConnection /\ i[c] < Rounds
  BY <1>1, <1>2 DEF PlaceInv
<1>8. \A k \in 1..Len(backlog) :
          backlog[k] \in Clients /\ backlog[k] # fd /\ backlog[k] # c
          /\ pc[backlog[k]] # "connect"
  <2>1. TAKE k \in 1..Len(backlog)
  <2>2. backlog[k] \in Clients
    BY <1>2 DEF TypeOK
  <2>3. backlog[k] # fd /\ pc[backlog[k]] # "connect"
    BY <1>2 DEF QueueInv
  <2>4. QED
    BY <1>1, <2>2, <2>3
<1>9. QueueInv'
  <2>1. CASE backlog' = backlog
    BY <1>1, <1>2, <1>4, <1>8, <2>1 DEF QueueInv
  <2>2. CASE backlog' = Append(backlog, c)
    <3>1. /\ Len(backlog') = Len(backlog) + 1 /\ Len(backlog) \in Nat
          /\ backlog'[Len(backlog) + 1] = c
          /\ \A k \in 1..Len(backlog) : backlog'[k] = backlog[k]
      BY <1>2, <2>2 DEF TypeOK
    <3>2. \A k \in 1..Len(backlog') :
              k \in 1..Len(backlog) \/ k = Len(backlog) + 1
      BY <3>1
    <3>3. \A k \in 1..Len(backlog') :
              backlog'[k] # fd' /\ pc'[backlog'[k]] # "connect"
      BY <1>1, <1>4, <1>7, <1>8, <3>1, <3>2
    <3>4. ASSUME NEW j \in 1..Len(backlog'), NEW k \in 1..Len(backlog'),
                 backlog'[j] = backlog'[k]
          PROVE  j = k
      BY <1>2, <1>8, <3>1, <3>2, <3>4 DEF QueueInv
    <3>5. QED
      BY <3>3, <3>4 DEF QueueInv
  <2>3. QED
    BY <1>3, <2>1, <2>2
<1>10. KilledInv'
  BY <1>1, <1>2, <1>3, <1>4 DEF KilledInv, Ended
<1>11. ASSUME NEW d \in Clients
       PROVE  ClientInv(d)'
  <2>1. CASE d = c
    <3>1. Exact(c)'
      BY <1>1, <1>2 DEF Exact, Intact, InHand
    <3>2. OpenInv(c)'
      BY <1>1, <1>2, <1>7 DEF OpenInv, NewConnection, NewSide
    <3>3. PlaceInv(c)'
      BY <1>1, <1>4, <1>7 DEF PlaceInv, NewConnection, NewSide
    <3>4. DebtInv(c)'
      BY <1>1, <1>2 DEF DebtInv, InHand
    <3>5. QED
      BY <2>1, <3>1, <3>2, <3>3, <3>4 DEF ClientInv
  <2>2. CASE d # c
    <3>1. InHand(d)' = InHand(d) /\ fd' = fd /\ (Listening' => Listening)
      BY <1>1 DEF InHand, Listening
    <3>2. d \in Range(backlog') => d \in Range(backlog)
      <4>1. ASSUME NEW k \in DOMAIN backlog', d = backlog'[k]
            PROVE  k \in DOMAIN backlog /\ d = backlog[k]
        <5>1. CASE backlog' = backlog
          BY <4>1, <5>1
        <5>2. CASE backlog' = Append(backlog, c)
          <6>1. backlog \in Seq(Clients)
            BY <1>2 DEF TypeOK
          <6>2. QED
            BY <2>2, <4>1, <5>2, <6>1
        <5>3. QED
          BY <1>3, <5>1, <5>2
      <4>2. QED
        BY <4>1 DEF Range
    <3>3. ClientInv(d) /\ (pc[d] = "connect" => d # fd)
      BY DEF IInv, ClientInv, PlaceInv
    <3>4. QED
      BY <1>1, <1>4, <2>2, <3>1, <3>2, <3>3, Untouched
  <2>3. QED
    BY <2>1, <2>2
<1>12. QED
  BY <1>5, <1>6, <1>9, <1>10, <1>11 DEF IInv

-------------------------------------------------------------------------------
(* The server's steps. *)

LEMMA AcceptKeeps ==
  ASSUME IInv, Accept
  PROVE  IInv'
<1>1. /\ at = "accept" /\ backlog # <<>>
      /\ fd' = Head(backlog) /\ backlog' = Tail(backlog) /\ at' = "recv"
      /\ UNCHANGED <<hand, conn, clientVars>>
  BY DEF Accept
<1>2. TypeOK /\ ServerInv /\ QueueInv
  BY Parted
<1>3. /\ backlog \in Seq(Clients) /\ Len(backlog) \in Nat /\ Len(backlog) > 0
      /\ fd' = backlog[1] /\ fd' \in Clients
      /\ backlog' \in Seq(Clients)
      /\ Len(backlog') = Len(backlog) - 1
      /\ \A k \in 1..Len(backlog') : backlog'[k] = backlog[k + 1]
  BY <1>1, <1>2 DEF TypeOK
<1>4. hand = <<>>
  BY <1>1, <1>2 DEF ServerInv
<1>5. TypeOK'
  BY <1>1, <1>2, <1>3 DEF TypeOK, clientVars
<1>6. ServerInv'
  BY <1>1, <1>3, <1>4 DEF ServerInv
<1>7. QueueInv'
  <2>1. ASSUME NEW k \in 1..Len(backlog')
        PROVE  /\ k + 1 \in 1..Len(backlog) /\ 1 \in 1..Len(backlog) /\ k + 1 # 1
               /\ backlog'[k] = backlog[k + 1]
    BY <1>3
  <2>2. ASSUME NEW k \in 1..Len(backlog')
        PROVE  backlog'[k] # fd' /\ pc'[backlog'[k]] # "connect"
    <3>1. backlog[k + 1] # backlog[1] /\ pc[backlog[k + 1]] # "connect"
      BY <1>2, <2>1 DEF QueueInv
    <3>2. QED
      BY <1>1, <1>3, <2>1, <3>1 DEF clientVars
  <2>3. ASSUME NEW j \in 1..Len(backlog'), NEW k \in 1..Len(backlog'),
               backlog'[j] = backlog'[k]
        PROVE  j = k
    <3>1. j + 1 = k + 1
      BY <1>2, <2>1, <2>3 DEF QueueInv
    <3>2. QED
      BY <1>3, <3>1
  <2>4. QED
    BY <2>2, <2>3 DEF QueueInv
<1>8. KilledInv'
  BY <1>1 DEF KilledInv
<1>9. pc[fd'] # "connect"
  BY <1>2, <1>3 DEF QueueInv
<1>10. ASSUME NEW d \in Clients
       PROVE  ClientInv(d)'
  <2>1. InHand(d)' = InHand(d)
    BY <1>1, <1>4 DEF InHand
  <2>2. d = fd' \/ d \in Range(backlog') => d \in Range(backlog)
    <3>1. ASSUME NEW k \in DOMAIN backlog'
          PROVE  k + 1 \in DOMAIN backlog /\ backlog'[k] = backlog[k + 1]
      BY <1>3
    <3>2. 1 \in DOMAIN backlog
      BY <1>3
    <3>3. QED
      BY <1>3, <3>1, <3>2 DEF Range
  <2>3. ClientInv(d) /\ Listening
    BY <1>1 DEF IInv, Listening
  <2>4. QED
    BY <1>1, <1>9, <2>1, <2>2, <2>3, Untouched DEF clientVars
<1>11. QED
  BY <1>5, <1>6, <1>7, <1>8, <1>10 DEF IInv

\* A step of the server on the connection it serves, while it listens: what is
\* left to show is the invariant of that client, and the server's own.
LEMMA ServedStep ==
  ASSUME IInv, TypeOK', ServerInv', NEW f \in Clients, f = fd, Listening, at' # "killed",
         fd' \in {fd, Nobody}, backlog' = backlog, UNCHANGED clientVars,
         \A d \in Clients \ {f} : conn'[d] = conn[d],
         ClientInv(f)'
  PROVE  IInv'
<1>1. TypeOK /\ QueueInv
  BY Parted
<1>2. QueueInv'
  <2>1. ASSUME NEW k \in 1..Len(backlog)
        PROVE  backlog[k] # fd' /\ pc'[backlog[k]] # "connect"
    <3>1. backlog[k] \in Clients
      BY <1>1 DEF TypeOK
    <3>2. backlog[k] # fd /\ pc[backlog[k]] # "connect"
      BY <1>1 DEF QueueInv
    <3>3. QED
      BY <3>1, <3>2, EchoAssumption DEF clientVars
  <2>2. QED
    BY <1>1, <2>1 DEF QueueInv
<1>3. KilledInv'
  BY DEF KilledInv
<1>4. ASSUME NEW d \in Clients
      PROVE  ClientInv(d)'
  <2>1. CASE d = f
    BY <2>1
  <2>2. CASE d # f
    <3>1. d # fd' /\ InHand(d)' = InHand(d)
      BY <2>2, EchoAssumption DEF InHand
    <3>2. ClientInv(d)
      BY DEF IInv
    <3>3. QED
      BY <2>2, <3>1, <3>2, Untouched DEF clientVars
  <2>3. QED
    BY <2>1, <2>2
<1>5. QED
  BY <1>2, <1>3, <1>4 DEF IInv

LEMMA ServerRecvKeeps ==
  ASSUME IInv, ServerRecv
  PROVE  IInv'
<1>0. PICK f \in Clients : f = fd
  BY Parted DEF ServerRecv, ServerInv
<1> DEFINE k == conn[f]
           r == conn'[f]
<1>1. /\ at = "recv" /\ at' = "send"
      /\ UNCHANGED <<fd, backlog, clientVars>>
  BY DEF ServerRecv
<1>2. PICK n \in Readable(k.s) :
          /\ hand' = Chunk(k.s, n)
          /\ conn' = [conn EXCEPT ![f] = Read(k, "s", n)]
  BY <1>0 DEF ServerRecv
<1>3. /\ TypeOK /\ fd \in Clients /\ hand = <<>>
  BY <1>1, Parted DEF ServerInv
<1>4. /\ IsPrefix(got[f] \o k.c.inbox, said[f])
      /\ Intact(f) => said[f] = got[f] \o k.c.inbox \o <<>> \o k.s.inbox
      /\ OpenInv(f) /\ PlaceInv(f) /\ DebtInv(f)
  BY <1>0, <1>3, Parted DEF Exact, InHand
<1>5. /\ k \in Connection(Units)
      /\ k.c.inbox \in Seq(Units) /\ k.s.inbox \in Seq(Units)
      /\ said[f] \in Seq(Units) /\ got[f] \in Seq(Units)
  BY <1>3, ClientTypes
<1>6. r = Read(k, "s", n) /\ hand' = Chunk(k.s, n) /\ n \in Readable(k.s)
  BY <1>2, <1>3 DEF TypeOK
<1>7. /\ \A d \in Clients \ {f} : conn'[d] = conn[d]
  BY <1>2, <1>3 DEF TypeOK
<1> HIDE DEF k, r
<1>8. /\ r \in Connection(Units) /\ r.c = k.c
      /\ r.s.peerEnd = k.s.peerEnd /\ r.s.broken = k.s.broken
      /\ hand' \in Seq(Units) /\ Len(hand') = n
      /\ k.s.inbox = hand' \o r.s.inbox
  BY <1>5, <1>6, ReadByServer
<1>9. r.s.inbox \in Seq(Units) /\ n \in Nat \ {0} /\ hand' # <<>>
  BY <1>6, <1>8, Inboxes DEF Readable
<1>10. TypeOK'
  <2>1. conn' \in [Clients -> Connection(Units)]
    BY <1>2, <1>3, <1>6, <1>8 DEF TypeOK
  <2>2. QED
    BY <1>1, <1>3, <1>8, <2>1 DEF TypeOK, clientVars
<1>11. ServerInv'
  BY <1>1, <1>3, <1>9 DEF ServerInv
<1>12. InHand(f)' = hand' /\ f = fd' /\ Listening /\ fd' = fd /\ got' = got /\ said' = said
       /\ pc' = pc /\ i' = i /\ backlog' = backlog
  BY <1>0, <1>1 DEF InHand, Listening, clientVars
<1>13. Exact(f)'
  <2>1. got[f] \o k.c.inbox \o <<>> \o k.s.inbox
           = got[f] \o r.c.inbox \o hand' \o r.s.inbox
    <3> DEFINE p == got[f] \o k.c.inbox
               h == hand'
               q == r.s.inbox
    <3>1. p \in Seq(Units) /\ h \in Seq(Units) /\ q \in Seq(Units)
      BY <1>5, <1>8, <1>9
    <3> HIDE DEF p, h, q
    <3>2. p \o <<>> \o (h \o q) = (p \o h) \o q
      BY <3>1
    <3>3. QED
      BY <1>8, <3>2 DEF p, h, q
  <2>2. Intact(f)' => Intact(f)
    BY <1>8, <1>12 DEF Intact, k, r
  <2>3. QED
    BY <1>4, <1>8, <1>12, <2>1, <2>2 DEF Exact, r
<1>14. OpenInv(f)' /\ PlaceInv(f)'
  BY <1>4, <1>8, <1>12 DEF OpenInv, PlaceInv, Ended, k, r
<1>15. DebtInv(f)'
  <2>1. Len(k.s.inbox) = Len(hand') + Len(r.s.inbox)
    <3> DEFINE h == hand'
               q == r.s.inbox
    <3>1. h \in Seq(Units) /\ q \in Seq(Units)
      BY <1>8, <1>9
    <3> HIDE DEF h, q
    <3>2. Len(h \o q) = Len(h) + Len(q)
      BY <3>1
    <3>3. QED
      BY <1>8, <3>2 DEF h, q
  <2> DEFINE g == Len(got[f])
             a == Len(k.c.inbox)
             h == Len(hand')
             b == Len(r.s.inbox)
             v == Len(said[f])
  <2>2. g \in Nat /\ a \in Nat /\ h \in Nat /\ b \in Nat /\ v \in Nat
    BY <1>5, <1>8, <1>9
  <2>3. k.c.peerEnd = "open" => g + a + 0 + (h + b) <= v
    BY <1>0, <1>3, <1>4, <2>1 DEF DebtInv, InHand, k
  <2>4. Len(r.c.inbox) = a
    BY <1>8
  <2> HIDE DEF g, a, h, b, v
  <2>5. k.c.peerEnd = "open" => g + a + h + b <= v
    BY <2>2, <2>3
  <2>6. QED
    BY <1>8, <1>12, <2>4, <2>5 DEF DebtInv, r, g, h, b, v
<1>16. QED
  BY <1>0, <1>1, <1>3, <1>7, <1>10, <1>11, <1>12, <1>13, <1>14, <1>15, ServedStep
     DEF ClientInv

LEMMA ServerRecvEndKeeps ==
  ASSUME IInv, ServerRecvEnd
  PROVE  IInv'
<1>1. /\ at = "recv" /\ at' = "close"
      /\ AtEnd(conn[fd].s) \/ Failed(conn[fd].s)
      /\ UNCHANGED <<fd, backlog, hand, conn, clientVars>>
  BY DEF ServerRecvEnd
<1>2. /\ TypeOK /\ ServerInv /\ fd \in Clients /\ hand = <<>>
  BY <1>1, Parted DEF ServerInv
<1>3. conn[fd].s.peerEnd # "open"
  BY <1>1, <1>2, Parted DEF AtEnd, Failed, PlaceInv
<1>4. TypeOK' /\ ServerInv'
  BY <1>1, <1>2, <1>3 DEF TypeOK, ServerInv, clientVars
<1>5. PICK f \in Clients : f = fd
  BY <1>2
<1>6. ClientInv(f)'
  <2>1. ClientInv(f) /\ (pc[f] = "connect" => f # fd)
    BY Parted DEF ClientInv, PlaceInv
  <2>2. InHand(f)' = InHand(f) /\ Listening /\ fd' = fd /\ backlog' = backlog
        /\ conn' = conn /\ pc' = pc /\ i' = i /\ said' = said /\ got' = got
    BY <1>1 DEF InHand, Listening, clientVars
  <2>3. QED
    BY <2>1, <2>2, Untouched
<1>7. QED
  BY <1>1, <1>4, <1>5, <1>6, ServedStep DEF Listening

LEMMA ServerSentKeeps ==
  ASSUME IInv, at = "send", at' = "recv", hand' = <<>>,
         conn' = [conn EXCEPT ![fd] = Sent(@, "s", hand)],
         UNCHANGED <<fd, backlog, clientVars>>
  PROVE  IInv'
<1>0. PICK f \in Clients : f = fd
  BY Parted DEF ServerInv
<1> DEFINE k == conn[f]
           r == conn'[f]
<1>1. TypeOK /\ hand \in Seq(Units) /\ InHand(f) = hand
  BY <1>0, Parted DEF TypeOK, InHand
<1>2. /\ IsPrefix(got[f] \o k.c.inbox, said[f])
      /\ Intact(f) => said[f] = got[f] \o k.c.inbox \o hand \o k.s.inbox
      /\ OpenInv(f) /\ PlaceInv(f) /\ DebtInv(f)
  BY <1>1, Parted DEF Exact
<1>3. /\ k \in Connection(Units)
      /\ k.c.inbox \in Seq(Units) /\ k.s.inbox \in Seq(Units)
      /\ k.c.peerEnd \in Ends /\ k.s.peerEnd \in Ends
      /\ said[f] \in Seq(Units) /\ got[f] \in Seq(Units)
  BY <1>1, ClientTypes
<1>4. r = Sent(k, "s", hand) /\ (\A d \in Clients \ {f} : conn'[d] = conn[d])
  BY <1>0, <1>1 DEF TypeOK
<1>5. k.c.peerEnd = "open"
  BY <1>0, <1>2 DEF OpenInv, Listening
<1> HIDE DEF k, r
<1>6. /\ r \in Connection(Units)
      /\ r.s.inbox = k.s.inbox
      /\ r.c.peerEnd = k.c.peerEnd /\ r.s.peerEnd = k.s.peerEnd
      /\ r.c.broken = k.c.broken
      /\ k.s.peerEnd = "open" => /\ r.c.inbox = k.c.inbox \o hand
                                 /\ r.s.broken = k.s.broken
      /\ k.s.peerEnd # "open" => r.c.inbox = k.c.inbox
  <2> DEFINE h == hand
  <2>1. h \in Seq(Units) /\ r = Sent(k, "s", h) /\ k \in Connection(Units)
    BY <1>1, <1>3, <1>4
  <2> HIDE DEF h
  <2>2. /\ r \in Connection(Units)
        /\ r.s.inbox = k.s.inbox
        /\ r.c.peerEnd = k.c.peerEnd /\ r.s.peerEnd = k.s.peerEnd
        /\ r.c.broken = k.c.broken
        /\ k.s.peerEnd = "open" => /\ r.c.inbox = k.c.inbox \o h
                                   /\ r.s.broken = k.s.broken
        /\ k.s.peerEnd # "open" => r.c.inbox = k.c.inbox
    BY <2>1, SentByServer
  <2>3. QED
    BY <2>2 DEF h
<1>7. TypeOK'
  <2>1. conn' \in [Clients -> Connection(Units)]
    BY <1>1, <1>0, <1>4, <1>6 DEF TypeOK, r
  <2>2. QED
    BY <1>1, <2>1 DEF TypeOK, clientVars
<1>8. ServerInv'
  BY Parted DEF ServerInv
<1>9. InHand(f)' = <<>> /\ Listening /\ Listening' /\ fd' = fd /\ got' = got
      /\ said' = said /\ pc' = pc /\ i' = i /\ backlog' = backlog
  BY <1>0 DEF InHand, Listening, clientVars
<1>10. Exact(f)'
  <2>1. CASE k.s.peerEnd = "open"
    <3>1. said[f] = got[f] \o k.c.inbox \o hand \o k.s.inbox
      BY <1>2, <1>5, <2>1 DEF Intact, k
    <3>2. got[f] \o k.c.inbox \o hand \o k.s.inbox
             = got[f] \o (k.c.inbox \o hand) \o <<>> \o k.s.inbox
      <4> DEFINE g == got[f]
                 a == k.c.inbox
                 b == k.s.inbox
      <4>1. g \in Seq(Units) /\ a \in Seq(Units) /\ b \in Seq(Units)
        BY <1>3
      <4> HIDE DEF g, a, b
      <4>2. g \o a \o hand = g \o (a \o hand) \o <<>>
        BY <1>1, <4>1
      <4>3. QED
        BY <4>2 DEF g, a, b
    <3>3. IsPrefix(got[f] \o r.c.inbox, said[f])
      <4> DEFINE q == got[f] \o r.c.inbox
                 b == k.s.inbox
      <4>1. q \in Seq(Units) /\ b \in Seq(Units)
        BY <1>3, <1>6, Inboxes
      <4>2. said[f] = q \o <<>> \o b
        BY <1>6, <2>1, <3>1, <3>2
      <4> HIDE DEF q, b
      <4>3. q \o <<>> \o b = q \o b
        BY <4>1
      <4>4. IsPrefix(q, said[f])
        BY <4>1, <4>2, <4>3, PrefixOfConcat
      <4>5. QED
        BY <4>4 DEF q
    <3>4. said[f] = got[f] \o r.c.inbox \o <<>> \o r.s.inbox
      BY <1>6, <2>1, <3>1, <3>2
    <3>5. QED
      BY <1>9, <3>3, <3>4 DEF Exact, r
  <2>2. CASE k.s.peerEnd # "open"
    <3>1. ~Intact(f)'
      BY <1>6, <2>2 DEF Intact, r
    <3>2. QED
      BY <1>2, <1>6, <1>9, <2>2, <3>1 DEF Exact, r
  <2>3. QED
    BY <2>1, <2>2
<1>11. OpenInv(f)' /\ PlaceInv(f)'
  <2>1. OpenInv(f)'
    BY <1>2, <1>5, <1>6, <1>9 DEF OpenInv, Ended, k, r
  <2>2. PlaceInv(f)'
    BY <1>0, <1>2, <1>6, <1>9 DEF PlaceInv, Ended, k, r
  <2>3. QED
    BY <2>1, <2>2
<1>12. DebtInv(f)'
  <2>1. Len(r.c.inbox) <= Len(k.c.inbox) + Len(hand) /\ Len(r.c.inbox) \in Nat
        /\ Len(r.s.inbox) = Len(k.s.inbox)
    <3> DEFINE a == k.c.inbox
    <3>1. a \in Seq(Units)
      BY <1>3
    <3> HIDE DEF a
    <3>2. Len(a \o hand) = Len(a) + Len(hand) /\ Len(a \o hand) \in Nat
          /\ Len(a) <= Len(a) + Len(hand) /\ Len(a) \in Nat
      BY <1>1, <3>1
    <3>3. QED
      BY <1>6, <3>2 DEF a
  <2> DEFINE g == Len(got[f])
             a == Len(k.c.inbox)
             h == Len(hand)
             b == Len(k.s.inbox)
             v == Len(said[f])
             q == Len(r.c.inbox)
  <2>2. g \in Nat /\ a \in Nat /\ h \in Nat /\ b \in Nat /\ v \in Nat /\ q \in Nat
    BY <1>1, <1>3, <2>1
  <2>3. g + a + h + b <= v
    BY <1>1, <1>2, <1>5 DEF DebtInv, k
  <2>4. q <= a + h /\ Len(r.s.inbox) = b
    BY <2>1
  <2> HIDE DEF g, a, h, b, v, q
  <2>5. g + q + 0 + b <= v
    BY <2>2, <2>3, <2>4
  <2>6. QED
    BY <1>9, <2>4, <2>5 DEF DebtInv, r, g, q, v
<1>13. QED
  BY <1>0, <1>4, <1>7, <1>8, <1>9, <1>10, <1>11, <1>12, ServedStep DEF ClientInv

\* The server ends, whoever or whatever ends it: the connections it leaves are
\* closed or refused, and nobody waits for an echo any more.
LEMMA EndsKeeps ==
  ASSUME IInv, NEW how \in {"exited", "killed"}, Listening, ServerEnds(how),
         how = "killed" => fd \in Clients /\ Ended(fd) /\ got[fd] # said[fd],
         UNCHANGED <<fd, hand, clientVars>>
  PROVE  IInv'
<1>1. /\ TypeOK /\ QueueInv
      /\ at' = how /\ backlog' = <<>>
      /\ conn' = [c \in Clients |->
                     CASE c = fd              -> Closed(conn[c], "s")
                       [] c \in Range(backlog) -> Refused(conn[c])
                       [] OTHER               -> conn[c]]
  BY Parted DEF ServerEnds
<1>2. ~Listening' /\ fd' = fd /\ hand' = hand
      /\ pc' = pc /\ i' = i /\ said' = said /\ got' = got
  BY <1>1 DEF Listening, clientVars
<1>3. ASSUME NEW c \in Clients
      PROVE  /\ conn'[c] \in Connection(Units)
             /\ conn'[c].c.inbox = conn[c].c.inbox
             /\ conn'[c].s.peerEnd = conn[c].s.peerEnd
             /\ conn'[c].s.broken = conn[c].s.broken
             /\ conn'[c] = conn[c] \/ (pc[c] # "connect" /\ conn'[c].c.peerEnd # "open")
  <2>0. conn'[c] = CASE c = fd              -> Closed(conn[c], "s")
                     [] c \in Range(backlog) -> Refused(conn[c])
                     [] OTHER               -> conn[c]
    BY <1>1
  <2>1. conn[c] \in Connection(Units) /\ PlaceInv(c)
        /\ DOMAIN backlog = 1..Len(backlog)
    BY <1>1, Parted DEF TypeOK
  <2>2. CASE c = fd
    <3>0. c \notin Range(backlog)
      BY <1>1, <2>1, <2>2 DEF QueueInv, Range
    <3>1. conn'[c] = Closed(conn[c], "s")
      BY <2>0, <2>2, <3>0
    <3>2. pc[c] # "connect"
      BY <2>1, <2>2 DEF PlaceInv
    <3>3. QED
      BY <2>1, <3>1, <3>2, ClosedByServer
  <2>3. CASE c # fd /\ c \in Range(backlog)
    <3>1. conn'[c] = Refused(conn[c])
      BY <2>0, <2>3
    <3>2. PICK k \in DOMAIN backlog : c = backlog[k]
      BY <2>3 DEF Range
    <3>3. pc[c] # "connect"
      <4>1. k \in 1..Len(backlog)
        BY <2>1, <3>2
      <4>2. QED
        BY <1>1, <3>2, <4>1 DEF QueueInv
    <3>4. QED
      BY <2>1, <3>1, <3>3, RefusedByServer
  <2>4. CASE c # fd /\ c \notin Range(backlog)
    BY <2>0, <2>1, <2>4
  <2>5. QED
    BY <2>2, <2>3, <2>4
<1>4. TypeOK'
  <2>1. conn' \in [Clients -> Connection(Units)]
    BY <1>1, <1>3
  <2>2. backlog' \in Seq(Clients)
    BY <1>1
  <2>3. QED
    BY <1>1, <1>2, <2>1, <2>2 DEF TypeOK, clientVars
<1>5. ServerInv'
  BY <1>1 DEF ServerInv
<1>6. QueueInv'
  BY <1>1 DEF QueueInv
<1>7. KilledInv'
  BY <1>1, <1>2 DEF KilledInv, Ended
<1>8. ASSUME NEW d \in Clients
      PROVE  ClientInv(d)'
  <2>1. InHand(d)' = InHand(d)
    BY <1>2 DEF InHand
  <2>2. Exact(d) /\ PlaceInv(d) /\ DebtInv(d)
    BY Parted
  <2>3. CASE conn'[d] = conn[d]
    <3>1. Exact(d)'
      BY <1>2, <2>1, <2>2, <2>3 DEF Exact, Intact
    <3>2. OpenInv(d)' /\ PlaceInv(d)' /\ DebtInv(d)'
      BY <1>2, <2>1, <2>2, <2>3 DEF OpenInv, PlaceInv, DebtInv, Ended
    <3>3. QED
      BY <3>1, <3>2 DEF ClientInv
  <2>4. CASE pc[d] # "connect" /\ conn'[d].c.peerEnd # "open"
    <3>1. Exact(d)'
      BY <1>2, <1>3, <2>2, <2>4 DEF Exact, Intact
    <3>2. OpenInv(d)' /\ DebtInv(d)'
      BY <1>2, <2>4 DEF OpenInv, DebtInv
    <3>3. PlaceInv(d)'
      BY <1>2, <1>3, <2>2, <2>4 DEF PlaceInv, Ended
    <3>4. QED
      BY <3>1, <3>2, <3>3 DEF ClientInv
  <2>5. QED
    BY <1>3, <2>3, <2>4
<1>9. QED
  BY <1>4, <1>5, <1>6, <1>7, <1>8 DEF IInv

\* A server that send kills owes its client an echo: only the client's own
\* close can have made send fail, and the hand is not empty.
LEMMA KilledOwes ==
  ASSUME IInv, at = "send", conn[fd].s.peerEnd # "open"
  PROVE  fd \in Clients /\ Ended(fd) /\ got[fd] # said[fd]
<1>0. PICK f \in Clients : f = fd
  BY Parted DEF ServerInv
<1>1. /\ TypeOK /\ hand # <<>> /\ InHand(f) = hand
      /\ OpenInv(f) /\ PlaceInv(f) /\ DebtInv(f)
  BY <1>0, Parted DEF ServerInv, InHand
<1>2. Ended(f)
  BY <1>0, <1>1 DEF PlaceInv
<1>3. conn[f].c.peerEnd = "open"
  BY <1>0, <1>1 DEF OpenInv, Listening
<1> DEFINE g == Len(got[f])
           a == Len(conn[f].c.inbox)
           h == Len(hand)
           b == Len(conn[f].s.inbox)
           v == Len(said[f])
<1>4. g \in Nat /\ a \in Nat /\ h \in Nat /\ b \in Nat /\ v \in Nat
  BY <1>1, ClientTypes DEF TypeOK
<1>5. g + a + h + b <= v
  BY <1>1, <1>3 DEF DebtInv
<1>6. h > 0
  BY <1>1 DEF TypeOK
<1> HIDE DEF g, a, h, b, v
<1>7. g < v
  BY <1>4, <1>5, <1>6
<1>8. QED
  BY <1>0, <1>2, <1>4, <1>7 DEF g, v

LEMMA ServerSendKeeps ==
  ASSUME IInv, ServerSend
  PROVE  IInv'
<1>1. PICK result \in SendResults(conn[fd].s) :
        \/ /\ result = "sent"
           /\ conn' = [conn EXCEPT ![fd] = Sent(@, "s", hand)]
           /\ at' = "recv"
           /\ hand' = <<>>
           /\ UNCHANGED <<fd, backlog>>
        \/ /\ result = "error"
           /\ at' = "close"
           /\ hand' = <<>>
           /\ UNCHANGED <<fd, backlog, conn>>
        \/ /\ result = "killed"
           /\ ServerEnds("killed")
           /\ UNCHANGED <<fd, hand>>
  BY DEF ServerSend
<1>2. at = "send" /\ UNCHANGED clientVars /\ Listening
  BY DEF ServerSend, Listening
<1>3. PICK f \in Clients : f = fd
  BY <1>2, Parted DEF ServerInv
<1>4. TypeOK /\ conn[f].s.peerEnd \in Ends
  BY Parted, ClientTypes
<1>5. result # "sent" => conn[fd].s.peerEnd # "open"
  BY <1>3, <1>4, SendFailsWhenGone
<1>6. CASE result = "sent"
  BY <1>1, <1>2, <1>6, ServerSentKeeps
<1>7. CASE result = "error"
  <2>1. /\ at' = "close" /\ hand' = <<>> /\ fd' = fd /\ backlog' = backlog
        /\ conn' = conn /\ UNCHANGED clientVars
    BY <1>1, <1>2, <1>7
  <2>2. TypeOK' /\ ServerInv'
    BY <1>2, <1>4, <1>5, <1>7, <2>1, Parted DEF TypeOK, ServerInv, clientVars
  <2>3. /\ Exact(f) /\ OpenInv(f) /\ PlaceInv(f) /\ DebtInv(f)
        /\ InHand(f) = hand /\ InHand(f)' = <<>> /\ hand \in Seq(Units)
    BY <1>3, <1>4, <2>1, Parted DEF InHand, TypeOK
  <2>4. Exact(f)'
    BY <1>3, <1>5, <1>7, <2>1, <2>3 DEF Exact, Intact, clientVars
  <2>5. OpenInv(f)' /\ PlaceInv(f)'
    BY <1>2, <2>1, <2>3 DEF OpenInv, PlaceInv, Ended, clientVars
  <2>6. DebtInv(f)'
    <3> DEFINE g == Len(got[f])
               a == Len(conn[f].c.inbox)
               h == Len(hand)
               b == Len(conn[f].s.inbox)
               v == Len(said[f])
    <3>1. g \in Nat /\ a \in Nat /\ h \in Nat /\ b \in Nat /\ v \in Nat
      <4>1. /\ got[f] \in Seq(Units) /\ conn[f].c.inbox \in Seq(Units)
            /\ conn[f].s.inbox \in Seq(Units) /\ said[f] \in Seq(Units)
        BY <1>4, ClientTypes
      <4>2. QED
        BY <2>3, <4>1
    <3>2. conn[f].c.peerEnd = "open" => g + a + h + b <= v
      BY <2>3 DEF DebtInv
    <3> HIDE DEF g, a, h, b, v
    <3>3. conn[f].c.peerEnd = "open" => g + a + 0 + b <= v
      BY <3>1, <3>2
    <3>4. QED
      BY <2>1, <2>3, <3>3 DEF DebtInv, clientVars, g, a, b, v
  <2>7. QED
    BY <1>2, <1>3, <2>1, <2>2, <2>4, <2>5, <2>6, ServedStep DEF ClientInv
<1>8. CASE result = "killed"
  <2>1. fd \in Clients /\ Ended(fd) /\ got[fd] # said[fd]
    BY <1>2, <1>5, <1>8, KilledOwes
  <2>2. ServerEnds("killed") /\ UNCHANGED <<fd, hand>>
    BY <1>1, <1>8
  <2>3. QED
    BY <1>2, <2>1, <2>2, EndsKeeps
<1>9. QED
  BY <1>1, <1>6, <1>7, <1>8

LEMMA ServerCloseKeeps ==
  ASSUME IInv, ServerClose
  PROVE  IInv'
<1>1. /\ at = "close" /\ at' = "accept" /\ fd' = Nobody
      /\ conn' = [conn EXCEPT ![fd] = Closed(@, "s")]
      /\ UNCHANGED <<backlog, hand, clientVars>>
  BY DEF ServerClose
<1>2. PICK f \in Clients : f = fd
  BY <1>1, Parted DEF ServerInv
<1> DEFINE k == conn[f]
           r == conn'[f]
<1>3. /\ TypeOK /\ hand = <<>> /\ k.s.peerEnd # "open"
      /\ IsPrefix(got[f] \o k.c.inbox, said[f])
      /\ PlaceInv(f)
  BY <1>1, <1>2, Parted DEF ServerInv, Exact
<1>4. k \in Connection(Units) /\ Ended(f) /\ f # Nobody
  BY <1>3, EchoAssumption DEF TypeOK, PlaceInv
<1>5. r = Closed(k, "s") /\ (\A d \in Clients \ {f} : conn'[d] = conn[d])
  BY <1>1, <1>2, <1>3 DEF TypeOK
<1> HIDE DEF k, r
<1>6. /\ r \in Connection(Units)
      /\ r.s.peerEnd = k.s.peerEnd /\ r.s.broken = k.s.broken
      /\ r.c.inbox = k.c.inbox
      /\ r.c.peerEnd # "open"
  BY <1>4, <1>5, ClosedByServer
<1>7. TypeOK'
  <2>1. conn' \in [Clients -> Connection(Units)]
    BY <1>1, <1>2, <1>3, <1>5, <1>6 DEF TypeOK, r
  <2>2. QED
    BY <1>1, <1>3, <2>1 DEF TypeOK, clientVars
<1>8. ServerInv'
  BY <1>1, <1>3 DEF ServerInv
<1>9. /\ fd' = Nobody /\ got' = got /\ said' = said /\ pc' = pc /\ i' = i
      /\ backlog' = backlog
  BY <1>1 DEF clientVars
<1>10. Exact(f)'
  BY <1>3, <1>6, <1>9 DEF Exact, Intact, r
<1>11. OpenInv(f)'
  <2>1. f \notin Range(backlog)
    <3>1. ASSUME NEW j \in DOMAIN backlog
          PROVE  backlog[j] # f
      BY <1>2, <1>3, Parted DEF QueueInv, TypeOK
    <3>2. QED
      BY <3>1 DEF Range
  <2>2. QED
    BY <1>4, <1>9, <2>1 DEF OpenInv, Ended
<1>12. PlaceInv(f)' /\ DebtInv(f)'
  BY <1>3, <1>4, <1>6, <1>9 DEF PlaceInv, DebtInv, Ended, k, r
<1>13. QED
  BY <1>1, <1>2, <1>5, <1>7, <1>8, <1>10, <1>11, <1>12, ServedStep
     DEF ClientInv, Listening

-------------------------------------------------------------------------------
(* The theorems. *)

LEMMA InitKeeps ==
  ASSUME Init
  PROVE  IInv
<1>1. TypeOK
  <2>1. conn \in [Clients -> Connection(Units)]
    BY NewConnectionType DEF Init
  <2>2. <<>> \in Seq(Units) /\ <<>> \in Seq(Clients) /\ 0 \in 0..Rounds
    BY EchoAssumption
  <2>3. QED
    BY <2>1, <2>2 DEF Init, TypeOK
<1>2. ServerInv /\ KilledInv
  BY DEF Init, ServerInv, KilledInv
<1>3. QueueInv
  BY DEF Init, QueueInv
<1>4. ASSUME NEW c \in Clients
      PROVE  ClientInv(c)
  <2>1. /\ conn[c] = NewConnection /\ pc[c] = "connect" /\ i[c] = 0
        /\ said[c] = <<>> /\ got[c] = <<>> /\ InHand(c) = <<>>
        /\ fd = Nobody /\ backlog = <<>> /\ c # fd
    BY EchoAssumption DEF Init, InHand
  <2>2. /\ conn[c].c.inbox = <<>> /\ conn[c].s.inbox = <<>>
        /\ conn[c].c.peerEnd = "open" /\ conn[c].s.peerEnd = "open"
        /\ ~conn[c].c.broken /\ ~conn[c].s.broken
    BY <2>1 DEF NewConnection, NewSide
  <2>3. Exact(c)
    BY <2>1, <2>2 DEF Exact, IsPrefix
  <2>4. OpenInv(c)
    BY <2>2 DEF OpenInv
  <2>5. PlaceInv(c)
    BY <2>1, <2>2, EchoAssumption DEF PlaceInv
  <2>6. DebtInv(c)
    BY <2>1, <2>2 DEF DebtInv
  <2>7. QED
    BY <2>3, <2>4, <2>5, <2>6 DEF ClientInv
<1>5. QED
  BY <1>1, <1>2, <1>3, <1>4 DEF IInv

LEMMA NextKeeps ==
  ASSUME IInv, [Next]_vars
  PROVE  IInv'
<1>1. ASSUME NEW c \in Clients, Connect(c)
      PROVE  IInv'
  BY <1>1, ConnectKeeps
<1>2. ASSUME NEW c \in Clients, Client(c)
      PROVE  IInv'
  BY <1>2, SendKeeps, RecvKeeps, RecvNothingKeeps, RecvFailsKeeps, CloseKeeps
     DEF Client
<1>3. ASSUME Server
      PROVE  IInv'
  BY <1>3, AcceptKeeps, ServerRecvKeeps, ServerRecvEndKeeps, ServerSendKeeps,
     ServerCloseKeeps DEF Server
<1>4. ASSUME AcceptFails \/ Interrupt
      PROVE  IInv'
  BY <1>4, EndsKeeps DEF AcceptFails, Interrupt, Listening
<1>5. ASSUME UNCHANGED vars
      PROVE  IInv'
  <2>1. UNCHANGED <<serverVars, conn, clientVars>>
    BY <1>5 DEF vars
  <2>2. TypeOK' /\ ServerInv' /\ QueueInv' /\ KilledInv'
    BY <2>1, Parted DEF TypeOK, ServerInv, QueueInv, KilledInv, Ended,
       serverVars, clientVars
  <2>3. ASSUME NEW c \in Clients
        PROVE  ClientInv(c)'
    <3>1. ClientInv(c) /\ (pc[c] = "connect" => c # fd)
      BY DEF IInv, ClientInv, PlaceInv
    <3>2. QED
      BY <2>1, <3>1, Untouched DEF serverVars, clientVars, InHand, Listening
  <2>4. QED
    BY <2>2, <2>3 DEF IInv
<1>6. QED
  BY <1>1, <1>2, <1>3, <1>4, <1>5 DEF Next, Rest

\* The inductive invariant holds in every reachable state, for any number of
\* clients, rounds and units in a text.
THEOREM Invariant == Spec => []IInv
<1>1. Init => IInv
  BY InitKeeps
<1>2. IInv /\ [Next]_vars => IInv'
  BY NextKeeps
<1>3. QED
  BY <1>1, <1>2, PTL DEF Spec

\* However TCP cuts the stream, nothing is added, lost or reordered between
\* what a client said and what it received.
THEOREM ExactEcho == Spec => []EchoExact
<1>1. IInv => EchoExact
  BY Parted DEF EchoExact
<1>2. QED
  BY <1>1, Invariant, PTL

\* SIGPIPE ends the server only over a client that left before all its echoes
\* had arrived.
THEOREM HasteKills == Spec => []KilledByHaste
<1>1. IInv => KilledByHaste
  BY DEF IInv, KilledInv, KilledByHaste
<1>2. QED
  BY <1>1, Invariant, PTL

-------------------------------------------------------------------------------
(* What a round prints. *)

\* The part of a prefix behind another one.
LEMMA PartOfPrefix ==
  ASSUME NEW U, NEW g \in Seq(U), NEW a \in Seq(U), NEW v \in Seq(U),
         IsPrefix(g \o a, v)
  PROVE  /\ SubSeq(v, Len(g) + 1, Len(g \o a)) = a
         /\ Len(g \o a) = Len(g) + Len(a) /\ Len(g) \in Nat
<1> DEFINE p == g \o a
           part == SubSeq(v, Len(g) + 1, Len(p))
<1>1. /\ p \in Seq(U) /\ Len(p) = Len(g) + Len(a)
      /\ Len(g) \in Nat /\ Len(a) \in Nat
      /\ \A k \in 1..Len(a) : p[Len(g) + k] = a[k]
  OBVIOUS
<1>2. Len(p) <= Len(v) /\ SubSeq(p, 1, Len(p)) = SubSeq(v, 1, Len(p))
  BY DEF IsPrefix
<1> HIDE DEF p
<1>3. \A k \in 1..Len(p) : p[k] = v[k]
  <2>1. \A k \in 1..Len(p) : SubSeq(p, 1, Len(p))[k] = p[k]
                             /\ SubSeq(v, 1, Len(p))[k] = v[k]
    BY <1>1, <1>2
  <2>2. QED
    BY <1>2, <2>1
<1>4. /\ part \in Seq(U) /\ Len(part) = Len(a)
      /\ \A k \in 1..Len(a) : part[k] = v[Len(g) + k]
  BY <1>1, <1>2
<1> HIDE DEF part
<1>5. ASSUME NEW k \in 1..Len(a) PROVE part[k] = a[k]
  <2>1. Len(g) + k \in 1..Len(p)
    BY <1>1
  <2>2. QED
    BY <1>1, <1>3, <1>4, <2>1
<1>6. part = a
  BY <1>4, <1>5
<1>7. QED
  BY <1>1, <1>6 DEF part, p

\* A recv that returns data prints it in front of the last print.
LEMMA RecvPrintsOldest ==
  ASSUME IInv, NEW c \in Clients, NEW n \in Readable(conn[c].c), Recv(c, n)
  PROVE  PrintedRight(c)
<1> DEFINE k == conn[c]
           chunk == Chunk(k.c, n)
           rest == Read(k, "c", n).c.inbox
           b == recvBuffer[c]
           g == got[c]
           v == said[c]
<1>1. /\ TypeOK /\ IsPrefix(g \o k.c.inbox, v)
  BY Parted DEF Exact
<1>2. /\ k \in Connection(Units) /\ n \in Readable(k.c)
      /\ k.c.inbox \in Seq(Units) /\ b \in Seq(Units)
      /\ v \in Seq(Units) /\ g \in Seq(Units)
  BY <1>1, ClientTypes
<1>3. recvBuffer'[c] = Overwritten(b, chunk) /\ got'[c] = g \o chunk
  BY <1>1 DEF Recv, TypeOK
<1>4. /\ chunk \in Seq(Units) /\ Len(chunk) = n
      /\ k.c.inbox = chunk \o rest /\ rest \in Seq(Units)
  <2>1. Read(k, "c", n) \in Connection(Units)
    BY <1>2, ReadByClient
  <2>2. QED
    BY <1>2, <2>1, ReadByClient, Inboxes
<1>5. n \in Nat \ {0}
  BY <1>2 DEF Readable
<1> HIDE DEF k, chunk, rest, b, g, v
<1>6. IsPrefix(g \o chunk, v)
  <2>1. g \o (chunk \o rest) = (g \o chunk) \o rest /\ g \o chunk \in Seq(Units)
    BY <1>2, <1>4
  <2>2. QED
    BY <1>1, <1>2, <1>4, <2>1, PrefixOfLess
<1>7. Len(got'[c]) = Len(g) + n /\ Len(g) \in Nat
  <2>1. Len(g \o chunk) = Len(g) + Len(chunk) /\ Len(g) \in Nat
    BY <1>2, <1>4, <1>6, PartOfPrefix
  <2>2. QED
    BY <1>3, <1>4, <2>1
<1>8. SubSeq(v, Len(g) + 1, Len(got'[c])) = chunk
  BY <1>2, <1>3, <1>4, <1>6, PartOfPrefix
<1>9. Overwritten(b, chunk) = chunk \o SubSeq(b, n + 1, Len(b))
  BY <1>4 DEF Overwritten
<1>10. Len(got'[c]) - Len(g) + 1 = n + 1 /\ Len(got'[c]) > Len(g)
  BY <1>5, <1>7
<1>11. QED
  BY <1>3, <1>8, <1>9, <1>10 DEF PrintedRight, b, g, v

\* A recv that returns nothing leaves the last print as it is.
LEMMA NothingPrintsAgain ==
  ASSUME IInv, NEW c \in Clients, RecvNothing(c), ~Listening
  PROVE  PrintedRight(c)
<1> DEFINE b == recvBuffer[c]
           g == got[c]
           v == said[c]
<1>1. /\ b \in Seq(Units) /\ g \in Seq(Units) /\ v \in Seq(Units)
      /\ recvBuffer'[c] = b /\ got'[c] = g
  BY Parted, ClientTypes DEF RecvNothing
<1> HIDE DEF b, g, v
<1>2. Len(g) \in Nat /\ SubSeq(b, 1, Len(b)) = b /\ SubSeq(v, Len(g) + 1, Len(g)) = <<>>
  BY <1>1
<1>3. <<>> \o b = b /\ Len(g) - Len(g) + 1 = 1
  BY <1>1
<1>4. QED
  BY <1>1, <1>2, <1>3 DEF PrintedRight, b, g, v

\* While the server listens, a recv returns data or waits: no round is printed
\* over a recv that returned nothing.
LEMMA ListenedRecvGets ==
  ASSUME IInv, NEW c \in Clients, Listening
  PROVE  ~RecvNothing(c)
BY Parted DEF OpenInv, Ended, RecvNothing, AtEnd

\* Each round prints the bytes that follow those printed before, then the rest
\* of the last print, and something new as long as the server listens.
THEOREM OldestFirst == Spec => PrintsOldestFirst
<1> DEFINE Printed == \A c \in Clients : pc[c] = "recv" /\ i'[c] # i[c]
                                            => PrintedRight(c)
<1>1. IInv /\ [Next]_vars => [Printed]_vars
  <2> SUFFICES ASSUME IInv, [Next]_vars, NEW c \in Clients,
                      pc[c] = "recv", i'[c] # i[c]
               PROVE  PrintedRight(c)
    OBVIOUS
  <2>1. i \in [Clients -> 0..Rounds] /\ i' # i
    BY Parted DEF TypeOK
  <2>2. PICK d \in Clients : RecvNothing(d) \/ \E n \in Readable(conn[d].c) : Recv(d, n)
    BY <2>1 DEF Next, Client, Server, Connect, Send, RecvFails, Close, Accept,
       ServerRecv, ServerRecvEnd, ServerSend, ServerClose, AcceptFails,
       Interrupt, Rest, vars, clientVars
  <2>3. NextRound(d)
    BY <2>2 DEF RecvNothing, Recv
  <2>4. d = c
    BY <2>1, <2>3 DEF NextRound
  <2>5. QED
    BY <2>2, <2>4, ListenedRecvGets, RecvPrintsOldest, NothingPrintsAgain
<1>2. QED
  BY <1>1, Invariant, PTL DEF Spec, PrintsOldestFirst

-------------------------------------------------------------------------------
(* The refinement of EchoPromise. *)

Gone == [c \in Clients |-> Ended(c)]

\* A client's end, and nobody's end, as the abstract specification sees them.
LEMMA GoneChanges ==
  ASSUME NEW c \in Clients, \A d \in Clients \ {c} : pc'[d] = pc[d], Ended(c)'
  PROVE  Gone' = [Gone EXCEPT ![c] = TRUE]
BY DEF Gone, Ended

LEMMA GoneStays ==
  ASSUME \A d \in Clients : Ended(d)' = Ended(d)
  PROVE  Gone' = Gone
BY DEF Gone

\* What a client received is the front of what it said.
LEMMA Heard ==
  ASSUME NEW U, NEW g \in Seq(U), NEW a \in Seq(U), NEW v \in Seq(U),
         IsPrefix(g \o a, v)
  PROVE  g = SubSeq(v, 1, Len(g)) /\ Len(g) <= Len(v)
<1>1. IsPrefix(g, v)
  BY PrefixOfLess
<1>2. SubSeq(g, 1, Len(g)) = g
  OBVIOUS
<1>3. QED
  BY <1>1, <1>2 DEF IsPrefix

LEMMA SendSays ==
  ASSUME IInv, NEW c \in Clients, Send(c)
  PROVE  Promise!Say(c) \/ Promise!Go(c) \/ UNCHANGED Promise!vars
<1>1. TypeOK /\ pc[c] = "send" /\ got' = got /\ PlaceInv(c)
  BY Parted DEF Send
<1>2. ~Gone[c]
  BY <1>1 DEF Gone, Ended
<1>3. CASE pc' = [pc EXCEPT ![c] = "recv"]
           /\ said' = [said EXCEPT ![c] = @ \o Text(i[c])]
  <2>1. Gone' = Gone
    BY <1>1, <1>3, GoneStays DEF Ended, TypeOK
  <2>2. i[c] \in Units
    BY <1>1, EchoAssumption DEF TypeOK, PlaceInv, Units
  <2>3. QED
    BY <1>1, <1>2, <1>3, <2>1, <2>2 DEF Promise!Say, Gone
<1>4. CASE pc' = [pc EXCEPT ![c] = "close"] /\ said' = said
  <2>1. Gone' = Gone
    BY <1>1, <1>4, GoneStays DEF Ended, TypeOK
  <2>2. QED
    BY <1>1, <1>4, <2>1 DEF Promise!vars, Gone
<1>5. CASE pc' = [pc EXCEPT ![c] = "killed"] /\ said' = said
  <2>1. Gone' = [Gone EXCEPT ![c] = TRUE]
    BY <1>1, <1>5, GoneChanges DEF Ended, TypeOK
  <2>2. QED
    BY <1>1, <1>2, <1>5, <2>1 DEF Promise!Go, Gone
<1>6. QED
  BY <1>3, <1>4, <1>5 DEF Send

LEMMA RecvHears ==
  ASSUME IInv, IInv', NEW c \in Clients, NEW n \in Readable(conn[c].c), Recv(c, n)
  PROVE  Promise!Hear(c)
<1> DEFINE k == conn[c]
           chunk == Chunk(k.c, n)
<1>1. /\ TypeOK /\ TypeOK' /\ pc[c] = "recv" /\ said' = said
      /\ got' = [got EXCEPT ![c] = got[c] \o chunk]
      /\ IsPrefix(got'[c] \o conn'[c].c.inbox, said'[c])
  BY Parted DEF Recv, IInv, ClientInv, Exact
<1>2. /\ k \in Connection(Units) /\ got[c] \in Seq(Units) /\ n \in Readable(k.c)
      /\ n \in Nat \ {0}
  BY <1>1, ClientTypes DEF Readable
<1>3. chunk \in Seq(Units) /\ Len(chunk) = n
  <2> HIDE DEF k
  <2> QED
    BY <1>2, ReadByClient
<1>4. /\ got'[c] \in Seq(Units) /\ said[c] \in Seq(Units)
      /\ conn'[c].c.inbox \in Seq(Units)
  <2>1. conn'[c] \in Connection(Units)
    BY <1>1 DEF TypeOK
  <2>2. QED
    BY <1>1, <2>1, Inboxes DEF TypeOK
<1>5. got'[c] = SubSeq(said[c], 1, Len(got'[c])) /\ Len(got'[c]) <= Len(said[c])
  BY <1>1, <1>4, Heard
<1>6. Len(got'[c]) = Len(got[c]) + n
  <2> DEFINE g == got[c]
  <2> HIDE DEF g, chunk
  <2>1. Len(g \o chunk) = Len(g) + Len(chunk)
    BY <1>2, <1>3 DEF g
  <2>2. got'[c] = g \o chunk
    BY <1>1 DEF TypeOK, g
  <2>3. QED
    BY <1>3, <2>1, <2>2 DEF g
<1>7. Len(got'[c]) \in Len(got[c]) + 1 .. Len(said[c])
  BY <1>2, <1>4, <1>5, <1>6
<1>8. got' = [got EXCEPT ![c] = SubSeq(said[c], 1, Len(got'[c]))]
  BY <1>1, <1>5 DEF TypeOK
<1>9. ~Gone[c] /\ Gone' = Gone
  <2>1. pc'[c] \in {"send", "close"} /\ (\A d \in Clients \ {c} : pc'[d] = pc[d])
    BY <1>1 DEF Recv, NextRound, TypeOK
  <2>2. /\ ~Ended(c) /\ ~Ended(c)'
        /\ \A d \in Clients \ {c} : Ended(d)' = Ended(d)
    BY <1>1, <2>1 DEF Ended
  <2>3. \A d \in Clients : Ended(d)' = Ended(d)
    BY <1>1, <2>1 DEF Ended
  <2>4. Gone' = Gone
    BY <2>3, GoneStays
  <2>5. QED
    BY <2>2, <2>4 DEF Gone
<1>10. QED
  BY <1>1, <1>7, <1>8, <1>9 DEF Promise!Hear, Gone

\* The other steps of a client are its end, or nothing the promise speaks of.
LEMMA OthersGoOrStay ==
  ASSUME IInv, NEW c \in Clients,
         Connect(c) \/ RecvNothing(c) \/ RecvFails(c) \/ Close(c)
  PROVE  Promise!Go(c) \/ UNCHANGED Promise!vars
<1>1. TypeOK /\ ~Ended(c) /\ said' = said /\ got' = got
  BY Parted DEF Connect, RecvNothing, RecvFails, Close, Ended
<1>2. /\ pc'[c] \in {"send", "close", "done"}
      /\ \A d \in Clients \ {c} : pc'[d] = pc[d]
  BY <1>1 DEF Connect, RecvNothing, RecvFails, Close, NextRound, TypeOK
<1>3. CASE pc'[c] = "done"
  <2>1. Gone' = [Gone EXCEPT ![c] = TRUE] /\ ~Gone[c]
    BY <1>1, <1>2, <1>3, GoneChanges DEF Ended, Gone
  <2>2. QED
    BY <1>1, <2>1 DEF Promise!Go, Gone
<1>4. CASE pc'[c] # "done"
  <2>1. Gone' = Gone
    BY <1>1, <1>2, <1>4, GoneStays DEF Ended
  <2>2. QED
    BY <1>1, <2>1 DEF Promise!vars, Gone
<1>5. QED
  BY <1>3, <1>4

\* The server and its clients implement the promise of an echo service: every
\* step is a step of the promise or leaves it alone.
THEOREM EchoKept == Spec => KeepsEcho
<1>1. Init => Promise!Init
  <2> SUFFICES ASSUME Init
               PROVE  Promise!Init
    OBVIOUS
  <2>1. \A c \in Clients : Ended(c) = FALSE
    BY DEF Init, Ended
  <2>2. Gone = [c \in Clients |-> FALSE]
    BY <2>1 DEF Gone
  <2>3. QED
    BY <2>2 DEF Init, Promise!Init, Gone
<1>2. IInv /\ IInv' /\ [Next]_vars => [Promise!Next]_(Promise!vars)
  <2> SUFFICES ASSUME IInv, IInv', [Next]_vars
               PROVE  Promise!Next \/ UNCHANGED Promise!vars
    OBVIOUS
  <2>1. ASSUME NEW c \in Clients, Connect(c) \/ Client(c)
        PROVE  Promise!Next \/ UNCHANGED Promise!vars
    BY <2>1, SendSays, RecvHears, OthersGoOrStay DEF Client, Promise!Next
  <2>2. ASSUME UNCHANGED clientVars
        PROVE  UNCHANGED Promise!vars
    BY <2>2 DEF clientVars, Promise!vars, Ended
  <2>3. Server \/ AcceptFails \/ Interrupt \/ Rest \/ UNCHANGED vars
           => UNCHANGED clientVars
    BY DEF Server, Accept, ServerRecv, ServerRecvEnd, ServerSend, ServerClose,
       AcceptFails, Interrupt, Rest, vars
  <2>4. QED
    BY <2>1, <2>2, <2>3 DEF Next
<1>3. QED
  BY <1>1, <1>2, Invariant, PTL DEF Spec, KeepsEcho, Promise!Spec
================================================================================
