-------------------------- MODULE RobotServiceProofs ---------------------------
(***************************************************************************)
(* Proofs about the robot server, its clients and the WeChatApi it calls:  *)
(* the parts of words and the answers keep their order; while words and    *)
(* answers fit one recv, each answer belongs to the word just sent and no  *)
(* leaving client kills the server; with WeChatApi in the place of         *)
(* GetAnswer the system still does what RobotService does, and what        *)
(* WeChatApi throws has a cause.                                           *)
(***************************************************************************)
EXTENDS RobotSystem, TcpProofs

-------------------------------------------------------------------------------
(* Parts and answers in order. *)

LEMMA PartsAreNumbers ==
  ASSUME NEW s \in Seq(Parts)
  PROVE  s \in Seq(Nat)
<1>1. Parts \subseteq Nat
  BY DEF Parts
<1>2. QED
  BY <1>1, SeqMonotonic

\* A new word of l parts waits behind the others.
LEMMA AskedInOrder ==
  ASSUME NEW p \in Seq(Nat), NEW s \in Seq(Nat), NEW n \in Nat, NEW l \in Nat,
         Ordered(p, s, n)
  PROVE  Ordered(p \o [j \in 1..l |-> n + j], s, n + l)
<1> DEFINE w == [j \in 1..l |-> n + j]
           q == p \o w
<1>1. /\ w \in Seq(Nat) /\ Len(w) = l
      /\ \A j \in 1..l : w[j] = n + j
  OBVIOUS
<1> HIDE DEF w
<1>2. /\ Len(p) \in Nat /\ Len(q) = Len(p) + l
      /\ \A k \in 1..Len(p) : q[k] = p[k]
      /\ \A k \in 1..l : q[Len(p) + k] = w[k]
  <2>1. Len(p) \in Nat /\ Len(q) = Len(p) + Len(w)
    BY <1>1
  <2>2. \A k \in 1..Len(p) : q[k] = p[k]
    BY <1>1
  <2>3. \A k \in 1..Len(w) : q[Len(p) + k] = w[k]
    BY <1>1
  <2>4. QED
    BY <1>1, <2>1, <2>2, <2>3
<1> HIDE DEF q
<1>3. /\ \A k \in 1..Len(p) : p[k] = n - Len(p) + k
      /\ \A k \in 1..Len(s) : s[k] <= n - Len(p)
      /\ \A k \in 2..Len(s) : s[k - 1] <= s[k]
  BY DEF Ordered
<1>4. ASSUME NEW k \in 1..Len(q)
      PROVE  q[k] = (n + l) - Len(q) + k
  <2>1. CASE k <= Len(p)
    BY <1>2, <1>3, <2>1
  <2>2. CASE k > Len(p)
    <3>1. k - Len(p) \in 1..l /\ k = Len(p) + (k - Len(p))
      BY <1>2, <2>2
    <3>2. q[k] = n + (k - Len(p))
      BY <1>1, <1>2, <3>1
    <3>3. QED
      BY <1>2, <3>2
  <2>3. QED
    BY <1>2, <2>1, <2>2
<1>5. (n + l) - Len(q) = n - Len(p)
  BY <1>2
<1>6. Ordered(q, s, n + l)
  BY <1>3, <1>4, <1>5 DEF Ordered
<1>7. QED
  BY <1>6 DEF q, w

\* What a client has not read is lost when it goes.
LEMMA LostInOrder ==
  ASSUME NEW p \in Seq(Nat), NEW h \in Nat, NEW x \in Seq(Nat), NEW n \in Nat,
         Ordered(p, <<h>> \o x, n)
  PROVE  Ordered(p, <<h>> \o <<>>, n)
<1> DEFINE s == <<h>> \o x
           t == <<h>> \o <<>>
<1>1. /\ 1 \in 1..Len(s) /\ s[1] = h
      /\ Len(t) = 1 /\ t[1] = h
  OBVIOUS
<1> HIDE DEF s, t
<1>2. /\ \A k \in 1..Len(p) : p[k] = n - Len(p) + k
      /\ \A k \in 1..Len(s) : s[k] <= n - Len(p)
  BY DEF Ordered, s
<1>3. Ordered(p, t, n)
  BY <1>1, <1>2 DEF Ordered
<1>4. QED
  BY <1>3 DEF t

\* Reading the answers x leaves the last of them as the one heard.
LEMMA HeardInOrder ==
  ASSUME NEW p \in Seq(Nat), NEW h \in Nat, NEW x \in Seq(Nat), NEW y \in Seq(Nat),
         NEW n \in Nat, x # <<>>, Ordered(p, <<h>> \o (x \o y), n)
  PROVE  Ordered(p, <<Last(x)>> \o y, n)
<1> DEFINE s == <<h>> \o (x \o y)
           t == <<Last(x)>> \o y
           l == Len(x)
<1>1. /\ l \in Nat /\ l > 0
      /\ Len(s) = 1 + l + Len(y) /\ Len(t) = 1 + Len(y) /\ Len(y) \in Nat
  OBVIOUS
<1>2. ASSUME NEW k \in 1..Len(t)
      PROVE  t[k] = s[k + l] /\ k + l \in 1..Len(s) /\ k + l \in 2..Len(s)
  BY DEF Last
<1> HIDE DEF s, t, l
<1>3. /\ \A k \in 1..Len(p) : p[k] = n - Len(p) + k
      /\ \A k \in 1..Len(s) : s[k] <= n - Len(p)
      /\ \A k \in 2..Len(s) : s[k - 1] <= s[k]
  BY DEF Ordered, s
<1>4. \A k \in 1..Len(t) : t[k] <= n - Len(p)
  BY <1>2, <1>3
<1>5. ASSUME NEW k \in 2..Len(t)
      PROVE  t[k - 1] <= t[k]
  <2>1. k \in 1..Len(t) /\ k - 1 \in 1..Len(t) /\ (k - 1) + l = (k + l) - 1
    BY <1>1
  <2>2. t[k] = s[k + l] /\ t[k - 1] = s[(k + l) - 1] /\ k + l \in 2..Len(s)
    BY <1>2, <2>1
  <2>3. QED
    BY <1>3, <2>2
<1>6. Ordered(p, t, n)
  BY <1>3, <1>4, <1>5 DEF Ordered
<1>7. QED
  BY <1>6 DEF t

\* The parts h are answered, with as many units as the answer has.
LEMMA AnsweredInOrder ==
  ASSUME NEW h \in Seq(Nat), NEW b \in Seq(Nat), NEW s \in Seq(Nat),
         NEW n \in Nat, NEW m \in Nat, h # <<>>, Ordered(h \o b, s, n)
  PROVE  Ordered(b, s \o [k \in 1..m |-> Last(h)], n)
<1> DEFINE p == h \o b
           a == [k \in 1..m |-> Last(h)]
           t == s \o a
           l == Len(h)
<1>1. /\ l \in Nat /\ l > 0 /\ Len(b) \in Nat /\ Len(p) = l + Len(b)
      /\ p[l] = Last(h)
      /\ \A k \in 1..Len(b) : p[l + k] = b[k]
  BY DEF Last
<1>2. a \in Seq(Nat) /\ Len(a) = m /\ Last(h) \in Nat /\ \A k \in 1..m : a[k] = Last(h)
  BY DEF Last
<1> HIDE DEF p, a, l
<1>3. /\ Len(t) = Len(s) + m /\ Len(s) \in Nat
      /\ \A k \in 1..Len(s) : t[k] = s[k]
      /\ \A k \in 1..m : t[Len(s) + k] = a[k]
  BY <1>2
<1> HIDE DEF t
<1>4. /\ \A k \in 1..Len(p) : p[k] = n - Len(p) + k
      /\ \A k \in 1..Len(s) : s[k] <= n - Len(p)
      /\ \A k \in 2..Len(s) : s[k - 1] <= s[k]
  BY DEF Ordered, p
<1>5. Last(h) = n - Len(b)
  BY <1>1, <1>4
<1>6. ASSUME NEW k \in 1..Len(b)
      PROVE  b[k] = n - Len(b) + k
  <2>1. l + k \in 1..Len(p)
    BY <1>1
  <2>2. b[k] = n - Len(p) + (l + k)
    BY <1>1, <1>4, <2>1
  <2>3. QED
    BY <1>1, <2>2
<1>7. \A k \in 1..Len(s) : s[k] \in Nat /\ s[k] <= n - Len(b)
  BY <1>1, <1>4
<1>8. ASSUME NEW k \in 1..Len(t)
      PROVE  (k \in 1..Len(s) /\ t[k] = s[k])
                \/ (k - Len(s) \in 1..m /\ k > Len(s) /\ t[k] = Last(h))
  <2>1. CASE k <= Len(s)
    BY <1>3, <2>1
  <2>2. CASE k > Len(s)
    <3>1. k - Len(s) \in 1..m /\ k = Len(s) + (k - Len(s))
      BY <1>3, <2>2
    <3>2. QED
      BY <1>2, <1>3, <2>2, <3>1
  <2>3. QED
    BY <1>3, <2>1, <2>2
<1>9. ASSUME NEW k \in 1..Len(t)
      PROVE  t[k] <= n - Len(b)
  <2>1. CASE k \in 1..Len(s) /\ t[k] = s[k]
    BY <1>7, <2>1
  <2>2. CASE t[k] = Last(h)
    BY <1>1, <1>2, <1>5, <2>2
  <2>3. QED
    BY <1>8, <2>1, <2>2
<1>10. ASSUME NEW k \in 2..Len(t)
       PROVE  t[k - 1] <= t[k]
  <2>1. k \in 1..Len(t) /\ k - 1 \in 1..Len(t)
    BY <1>3
  <2>2. CASE k <= Len(s)
    <3>1. k \in 2..Len(s) /\ k \in 1..Len(s) /\ k - 1 \in 1..Len(s)
      BY <1>3, <2>2
    <3>2. t[k] = s[k] /\ t[k - 1] = s[k - 1]
      BY <1>3, <3>1
    <3>3. QED
      BY <1>4, <3>1, <3>2
  <2>3. CASE k > Len(s)
    <3>1. t[k] = Last(h)
      BY <1>3, <1>8, <2>1, <2>3
    <3>2. QED
      BY <1>5, <1>9, <2>1, <3>1
  <2>4. QED
    BY <1>3, <2>2, <2>3
<1>11. Ordered(b, t, n)
  BY <1>6, <1>9, <1>10 DEF Ordered
<1>12. QED
  BY <1>11 DEF t, a

-------------------------------------------------------------------------------
(* The invariant by its parts. *)

Places == {"connect", "input", "recv", "close", "done", "killed"}

LEMMA Parted ==
  ASSUME IInv
  PROVE  /\ TypeOK /\ ServerInv /\ QueueInv
         /\ at = "killed" => fd \in Clients /\ ~fit[fd]
         /\ \A c \in Clients : /\ OrderInv(c) /\ OpenInv(c) /\ PlaceInv(c)
                              /\ WordInv(c) /\ TurnInv(c)
BY DEF IInv, ClientInv

LEMMA ClientTypes ==
  ASSUME TypeOK, NEW c \in Clients
  PROVE  /\ conn[c] \in Connection(Parts)
         /\ conn[c].c.inbox \in Seq(Parts) /\ conn[c].s.inbox \in Seq(Parts)
         /\ conn[c].c.peerEnd \in Ends /\ conn[c].s.peerEnd \in Ends
         /\ asked[c] \in Nat /\ heard[c] \in Nat /\ MaxAsk[c] \in Nat
         /\ ends[c] \subseteq Parts /\ ends[c] \subseteq Nat
         /\ hand \in Seq(Parts)
         /\ Pending(c) \in Seq(Parts)
<1>1. conn[c] \in Connection(Parts) /\ hand \in Seq(Parts)
  BY DEF TypeOK
<1>2. conn[c].s.inbox \in Seq(Parts)
  BY <1>1, Inboxes
<1>3. Pending(c) \in Seq(Parts)
  <2> DEFINE h == IF c = fd THEN hand ELSE <<>>
             q == conn[c].s.inbox
  <2>1. h \in Seq(Parts) /\ q \in Seq(Parts)
    BY <1>1, <1>2
  <2> HIDE DEF h, q
  <2>2. h \o q \in Seq(Parts)
    BY <2>1
  <2>3. QED
    BY <2>2 DEF Pending, h, q
<1>4. asked[c] \in Nat /\ heard[c] \in Nat /\ MaxAsk[c] \in Nat
      /\ ends[c] \subseteq Parts /\ ends[c] \subseteq Nat
  BY RobotAssumption DEF TypeOK, Parts
<1>5. QED
  BY <1>1, <1>2, <1>3, <1>4, Inboxes

\* A client nothing happens to keeps its invariant.
LEMMA Untouched ==
  ASSUME NEW d \in Clients, ClientInv(d),
         conn'[d] = conn[d], pc'[d] = pc[d], asked'[d] = asked[d],
         ends'[d] = ends[d], heard'[d] = heard[d], fit'[d] => fit[d],
         Pending(d)' = Pending(d),
         d = fd' => (d = fd /\ hand' = hand) \/ hand' = <<>>,
         Listening' => /\ Listening
                       /\ d = fd' \/ d \in Range(backlog')
                             => ~Ended(d) \/ d = fd \/ d \in Range(backlog),
         pc[d] = "connect" => d # fd'
  PROVE  ClientInv(d)'
<1>1. OrderInv(d)'
  BY DEF ClientInv, OrderInv, Intact, Answers
<1>2. OpenInv(d)'
  BY DEF ClientInv, OpenInv, Ended, Intact
<1>3. PlaceInv(d)'
  BY DEF ClientInv, PlaceInv, Ended
<1>4. WordInv(d)'
  BY DEF ClientInv, WordInv
<1>5. TurnInv(d)'
  <2>1. OneWord(d)' <=> OneWord(d)
    BY DEF OneWord
  <2>2. QED
    BY <2>1 DEF ClientInv, TurnInv, Ended, Intact
<1>6. QED
  BY <1>1, <1>2, <1>3, <1>4, <1>5 DEF ClientInv

-------------------------------------------------------------------------------
(* The client's steps. *)

\* A step of one client that is neither starting nor gone: what is left to
\* show is the invariant of that client.
LEMMA ClientStep ==
  ASSUME IInv, NEW c \in Clients, TypeOK', UNCHANGED <<serverVars, fit>>,
         pc[c] # "connect", pc'[c] # "connect",
         \A d \in Clients \ {c} :
            /\ conn'[d] = conn[d] /\ pc'[d] = pc[d]
            /\ asked'[d] = asked[d] /\ ends'[d] = ends[d] /\ heard'[d] = heard[d],
         conn[c].s.peerEnd # "open" => conn'[c].s.peerEnd # "open",
         ClientInv(c)'
  PROVE  IInv'
<1>1. /\ at' = at /\ fd' = fd /\ backlog' = backlog /\ hand' = hand /\ fit' = fit
      /\ (Listening' => Listening)
  BY DEF serverVars, Listening
<1>2. ServerInv'
  BY <1>1, Parted DEF ServerInv
<1>3. QueueInv'
  <2>1. ASSUME NEW k \in 1..Len(backlog)
        PROVE  backlog[k] # fd /\ pc'[backlog[k]] # "connect"
    <3>1. backlog[k] \in Clients
      BY Parted DEF TypeOK
    <3>2. backlog[k] # fd /\ pc[backlog[k]] # "connect"
      BY Parted DEF QueueInv
    <3>3. QED
      BY <3>1, <3>2
  <2>2. QED
    BY <1>1, <2>1, Parted DEF QueueInv
<1>4. ASSUME NEW d \in Clients
      PROVE  ClientInv(d)'
  <2>1. CASE d = c
    BY <2>1
  <2>2. CASE d # c
    <3>1. Pending(d)' = Pending(d)
      BY <1>1, <2>2 DEF Pending
    <3>2. ClientInv(d) /\ (pc[d] = "connect" => d # fd)
      BY DEF IInv, ClientInv, PlaceInv
    <3>3. QED
      BY <1>1, <2>2, <3>1, <3>2, Untouched
  <2>3. QED
    BY <2>1, <2>2
<1>5. at' = "killed" => fd' \in Clients /\ ~fit'[fd']
  BY <1>1, Parted
<1>6. QED
  BY <1>2, <1>3, <1>4, <1>5 DEF IInv

\* A client that is gone, whether it closed its connection, was killed by send
\* or left: a word it sent is lost when send killed it.
LEMMA GoneKeeps ==
  ASSUME IInv, NEW c \in Clients, NEW how \in {"done", "killed"},
         pc[c] \in {"input", "recv", "close"},
         conn' = [conn EXCEPT ![c] = Closed(@, "c")],
         pc' = [pc EXCEPT ![c] = how],
         asked' \in [Clients -> Nat], ends' \in [Clients -> SUBSET Parts],
         \A d \in Clients \ {c} : asked'[d] = asked[d] /\ ends'[d] = ends[d],
         Intact(c) => asked'[c] = asked[c] /\ ends'[c] = ends[c],
         ends[c] \subseteq ends'[c], WordInv(c)',
         UNCHANGED <<serverVars, eof, heard, fit>>
  PROVE  IInv'
<1> DEFINE k == conn[c]
           n == conn'[c]
<1>1. TypeOK /\ OrderInv(c) /\ OpenInv(c) /\ PlaceInv(c) /\ TurnInv(c)
  BY Parted
<1>2. /\ k \in Connection(Parts) /\ k.c.inbox \in Seq(Parts)
      /\ Pending(c) \in Seq(Parts)
      /\ asked[c] \in Nat /\ heard[c] \in Nat
  BY <1>1, ClientTypes
<1>3. n = Closed(k, "c") /\ pc'[c] = how /\ Ended(c)' /\ ~Ended(c)
      /\ (\A d \in Clients \ {c} : conn'[d] = conn[d] /\ pc'[d] = pc[d])
  BY <1>1 DEF TypeOK, Ended
<1>4. n.s.peerEnd = "rst" => k.c.inbox # <<>>
  BY <1>2, <1>3 DEF Closed, Peer, Connection, Side
<1> HIDE DEF k, n
<1>5. /\ n \in Connection(Parts)
      /\ n.c.inbox = <<>>
      /\ n.c.peerEnd = k.c.peerEnd /\ n.c.broken = k.c.broken
      /\ n.s.inbox = k.s.inbox /\ n.s.broken = k.s.broken
      /\ n.s.peerEnd # "open"
  BY <1>2, <1>3, ClosedByClient
<1>6. TypeOK'
  BY <1>1, <1>3, <1>5 DEF TypeOK, serverVars, n
<1>7. Pending(c)' = Pending(c) /\ Listening' = Listening /\ Intact(c)' = Intact(c)
      /\ fd' = fd /\ backlog' = backlog /\ hand' = hand /\ fit' = fit
      /\ heard' = heard
  BY <1>5 DEF Pending, Listening, Intact, serverVars, n, k
<1>8. OrderInv(c)'
  <2> SUFFICES ASSUME Intact(c)
               PROVE  Ordered(Pending(c), <<heard[c]>> \o <<>>, asked[c])
    BY <1>5, <1>7 DEF OrderInv, Answers, n
  <2>1. Ordered(Pending(c), <<heard[c]>> \o k.c.inbox, asked[c])
    BY <1>1 DEF OrderInv, Answers, k
  <2>2. Pending(c) \in Seq(Nat) /\ k.c.inbox \in Seq(Nat)
    BY <1>2, PartsAreNumbers
  <2>3. QED
    BY <1>2, <2>1, <2>2, LostInOrder
<1>9. OpenInv(c)'
  BY <1>1, <1>3, <1>7 DEF OpenInv
<1>10. PlaceInv(c)'
  BY <1>1, <1>3, <1>5 DEF PlaceInv, n, k
<1>11. TurnInv(c)'
  <2>1. fit[c] /\ Intact(c) /\ (n.s.peerEnd = "rst" \/ n.s.broken)
           => Pending(c) = <<>>
    <3>1. ~k.s.broken
      BY <1>1, <1>3 DEF PlaceInv, k
    <3>2. fit[c] /\ Intact(c) /\ k.c.inbox # <<>> => Pending(c) = <<>>
      BY <1>1, <1>3 DEF TurnInv, k
    <3>3. QED
      BY <1>4, <1>5, <3>1, <3>2
  <2>2. fit[c] /\ c = fd /\ hand # <<>> => Last(hand) \in ends'[c]
    BY <1>1 DEF TurnInv
  <2>3. fit[c] /\ Intact(c) => OneWord(c)'
    BY <1>1, <1>7 DEF TurnInv, OneWord
  <2>4. QED
    BY <1>3, <1>7, <2>1, <2>2, <2>3 DEF TurnInv, Ended, n
<1>12. QED
  BY <1>3, <1>5, <1>6, <1>8, <1>9, <1>10, <1>11, ClientStep
     DEF ClientInv, n, k

LEMMA AskSentKeeps ==
  ASSUME IInv, NEW c \in Clients, NEW l \in WordLengths, pc[c] = "input",
         asked' = [asked EXCEPT ![c] = @ + l],
         ends' = [ends EXCEPT ![c] = @ \cup {asked[c] + l}],
         conn' = [conn EXCEPT ![c] = Sent(@, "c", Word(c, l))],
         pc' = [pc EXCEPT ![c] = "recv"],
         UNCHANGED <<serverVars, eof, heard, fit>>
  PROVE  IInv'
<1> DEFINE k == conn[c]
           n == conn'[c]
           q == Word(c, l)
           p == Pending(c)
<1>1. /\ TypeOK
      /\ OrderInv(c) /\ OpenInv(c) /\ PlaceInv(c) /\ WordInv(c) /\ TurnInv(c)
  BY Parted
<1>2. /\ k \in Connection(Parts)
      /\ k.c.inbox \in Seq(Parts) /\ k.s.inbox \in Seq(Parts)
      /\ asked[c] \in Nat /\ heard[c] \in Nat /\ l \in Nat \ {0}
      /\ p \in Seq(Parts) /\ hand \in Seq(Parts)
      /\ ends[c] \subseteq Parts /\ ends[c] \subseteq Nat
  BY <1>1, ClientTypes, RobotAssumption
<1>3. /\ q \in Seq(Parts) /\ q # <<>> /\ Len(q) = l
      /\ \A j \in 1..l : q[j] = asked[c] + j
  <2> DEFINE n0 == asked[c]
             w == [j \in 1..l |-> n0 + j]
  <2>1. n0 \in Nat /\ l \in Nat \ {0} /\ q = w
    BY <1>2 DEF Word
  <2> HIDE DEF n0
  <2>2. \A j \in 1..l : n0 + j \in Parts
    BY <2>1 DEF Parts
  <2>3. w \in Seq(Parts) /\ Len(w) = l /\ (\A j \in 1..l : w[j] = n0 + j)
    BY <2>1, <2>2
  <2> HIDE DEF w, q
  <2>4. Len(q) = l /\ l # 0 /\ Len(<<>>) = 0
    BY <2>1, <2>3
  <2>5. q # <<>>
    BY <2>4
  <2>6. QED
    BY <2>1, <2>3, <2>4, <2>5 DEF n0
<1>4. /\ n = Sent(k, "c", q) /\ pc'[c] = "recv" /\ asked'[c] = asked[c] + l
      /\ ends'[c] = ends[c] \cup {asked[c] + l}
      /\ ~Ended(c) /\ ~Ended(c)'
      /\ \A d \in Clients \ {c} : /\ conn'[d] = conn[d] /\ pc'[d] = pc[d]
                                  /\ asked'[d] = asked[d] /\ ends'[d] = ends[d]
  BY <1>1 DEF TypeOK, Ended
<1> HIDE DEF k, n, q, p
<1>5. /\ n \in Connection(Parts)
      /\ n.c.inbox = k.c.inbox
      /\ n.c.peerEnd = k.c.peerEnd /\ n.s.peerEnd = k.s.peerEnd
      /\ n.s.broken = k.s.broken
      /\ k.c.peerEnd = "open" => /\ n.s.inbox = k.s.inbox \o q
                                 /\ n.c.broken = k.c.broken
      /\ k.c.peerEnd # "open" => n.s.inbox = k.s.inbox
  <2>1. k \in Connection(Parts) /\ q \in Seq(Parts) /\ n = Sent(k, "c", q)
    BY <1>2, <1>3, <1>4
  <2>2. QED
    BY <2>1, SentByClient
<1>6. TypeOK'
  <2>1. asked[c] + l \in Nat /\ asked[c] + l \in Parts
    BY <1>2 DEF Parts
  <2>2. asked' \in [Clients -> Nat]
    BY <1>1, <2>1 DEF TypeOK
  <2>3. ends' \in [Clients -> SUBSET Parts]
    BY <1>1, <1>2, <2>1 DEF TypeOK
  <2>4. conn' \in [Clients -> Connection(Parts)] /\ pc' \in [Clients -> Places]
    BY <1>1, <1>4, <1>5 DEF TypeOK, Places, n
  <2>5. QED
    BY <1>1, <2>2, <2>3, <2>4 DEF TypeOK, serverVars, Places
<1>7. /\ Listening' = Listening /\ fd' = fd /\ backlog' = backlog /\ fit' = fit
      /\ hand' = hand /\ heard' = heard
  BY DEF Listening, serverVars
<1>8. k.c.peerEnd = "open" => Pending(c)' = p \o q
  <2> DEFINE h == IF c = fd THEN hand ELSE <<>>
             b == k.s.inbox
  <2>1. h \in Seq(Parts) /\ b \in Seq(Parts)
    BY <1>2
  <2>2. k.c.peerEnd = "open" => Pending(c)' = h \o (b \o q)
    BY <1>5, <1>7 DEF Pending, n
  <2>3. p = h \o b
    BY DEF Pending, k, p
  <2> HIDE DEF h, b
  <2>4. (h \o b) \o q = h \o (b \o q)
    BY <1>3, <2>1
  <2>5. QED
    BY <2>2, <2>3, <2>4
<1>9. OrderInv(c)'
  <2> SUFFICES ASSUME Intact(c)'
               PROVE  Ordered(p \o q, Answers(c), asked[c] + l)
    BY <1>4, <1>5, <1>7, <1>8 DEF OrderInv, Intact, Answers, n, k
  <2>1. Intact(c)
    BY <1>5 DEF Intact, n, k
  <2>2. Ordered(p, Answers(c), asked[c])
    BY <1>1, <2>1 DEF OrderInv, p
  <2>3. Answers(c) \in Seq(Nat) /\ p \in Seq(Nat)
    <3>1. k.c.inbox \in Seq(Nat) /\ p \in Seq(Nat)
      BY <1>2, PartsAreNumbers
    <3>2. QED
      BY <1>2, <3>1 DEF Answers, k
  <2>4. Ordered(p \o [j \in 1..l |-> asked[c] + j], Answers(c), asked[c] + l)
    BY <1>2, <2>2, <2>3, AskedInOrder
  <2>5. QED
    BY <2>4 DEF q, Word
<1>10. OpenInv(c)'
  BY <1>1, <1>4, <1>5, <1>7 DEF OpenInv, Intact, n, k
<1>11. PlaceInv(c)'
  BY <1>1, <1>4, <1>5 DEF PlaceInv, Ended, n, k
<1>12. WordInv(c)'
  <2>1. \A j \in ends[c] : j \in Nat /\ j <= asked[c]
    BY <1>1, <1>2 DEF WordInv
  <2>2. \A j \in ends'[c] : j <= asked'[c]
    BY <1>2, <1>4, <2>1
  <2>3. QED
    BY <1>4, <2>2 DEF WordInv
<1>13. TurnInv(c)'
  <2> SUFFICES ASSUME fit[c]
               PROVE  TurnInv(c)'
    BY <1>7 DEF TurnInv
  <2>1. n.c.inbox = <<>>
    BY <1>1, <1>5 DEF TurnInv, k
  <2>2. c = fd /\ hand # <<>> => Last(hand) \in ends'[c]
    BY <1>1, <1>4 DEF TurnInv
  <2>3. Intact(c)' = Intact(c) /\ (Intact(c) => k.c.peerEnd = "open")
    BY <1>5 DEF Intact, n, k
  <2>4. Intact(c) => Pending(c)' = q
    <3>1. Intact(c) => p = <<>>
      BY <1>1, <1>4 DEF TurnInv, p
    <3>2. <<>> \o q = q
      BY <1>3
    <3>3. QED
      BY <1>8, <2>3, <3>1, <3>2
  <2>5. Intact(c) => OneWord(c)'
    <3>1. ASSUME NEW j \in 1..Len(q), q[j] \in ends'[c]
          PROVE  q[j] = asked'[c]
      <4>1. q[j] = asked[c] + j /\ j \in 1..l
        BY <1>3
      <4>2. asked[c] + j \notin ends[c]
        BY <1>1, <1>2, <4>1 DEF WordInv
      <4>3. QED
        BY <1>4, <3>1, <4>1, <4>2
    <3>2. QED
      BY <2>4, <3>1 DEF OneWord
  <2>6. asked'[c] > 0
    BY <1>2, <1>4
  <2>7. Intact(c)' => (Pending(c)' = <<>> <=> n.c.inbox # <<>>)
    BY <1>3, <2>1, <2>3, <2>4
  <2>8. QED
    BY <1>4, <1>7, <2>1, <2>2, <2>3, <2>5, <2>6, <2>7 DEF TurnInv, n
<1>14. QED
  BY <1>4, <1>5, <1>6, <1>7, <1>9, <1>10, <1>11, <1>12, <1>13, ClientStep
     DEF ClientInv, n, k

\* A step that only moves the client: it neither sends nor receives.
LEMMA MoveKeeps ==
  ASSUME IInv, NEW c \in Clients, TypeOK',
         UNCHANGED <<serverVars, conn, heard, fit>>,
         pc[c] \in {"input", "recv"}, pc'[c] \in {"input", "recv", "close"},
         \A d \in Clients \ {c} : /\ pc'[d] = pc[d]
                                 /\ asked'[d] = asked[d] /\ ends'[d] = ends[d],
         Intact(c) \/ pc'[c] # "close" => asked'[c] = asked[c] /\ ends'[c] = ends[c],
         ends[c] \subseteq ends'[c], WordInv(c)',
         Intact(c) => pc[c] = "input",
         Intact(c) /\ pc'[c] = "recv" => asked[c] = 0,
         pc[c] = "recv" /\ pc'[c] # "close" => conn[c].c.inbox = <<>>
  PROVE  IInv'
<1>1. TypeOK /\ OrderInv(c) /\ OpenInv(c) /\ PlaceInv(c) /\ TurnInv(c)
  BY Parted
<1>2. /\ Listening' = Listening /\ fd' = fd /\ backlog' = backlog /\ fit' = fit
      /\ hand' = hand /\ heard' = heard /\ conn' = conn
      /\ ~Ended(c) /\ ~Ended(c)'
  BY DEF Listening, serverVars, Ended
<1>3. Pending(c)' = Pending(c) /\ Intact(c)' = Intact(c)
  BY <1>2 DEF Pending, Intact
<1>4. OrderInv(c)'
  BY <1>1, <1>2, <1>3 DEF OrderInv, Answers
<1>5. OpenInv(c)' /\ PlaceInv(c)'
  BY <1>1, <1>2, <1>3 DEF OpenInv, PlaceInv
<1>6. TurnInv(c)'
  <2> SUFFICES ASSUME fit[c]
               PROVE  TurnInv(c)'
    BY <1>2 DEF TurnInv
  <2>1. c = fd /\ hand # <<>> => Last(hand) \in ends'[c]
    BY <1>1 DEF TurnInv
  <2>2. Intact(c) => OneWord(c)'
    BY <1>1, <1>3 DEF TurnInv, OneWord
  <2>3. /\ pc'[c] = "input" => conn[c].c.inbox = <<>>
        /\ pc'[c] = "recv" => conn[c].c.inbox \in {<<>>, <<asked'[c]>>}
    BY <1>1 DEF TurnInv
  <2>4. Intact(c) => /\ Pending(c) = <<>> /\ conn[c].c.inbox = <<>>
                     /\ ~(pc'[c] = "recv" /\ asked'[c] > 0)
    <3>1. Intact(c) => pc[c] = "input" /\ asked'[c] = asked[c]
      OBVIOUS
    <3>2. QED
      BY <1>1, <1>2, <3>1 DEF TurnInv
  <2>5. QED
    BY <1>2, <1>3, <2>1, <2>2, <2>3, <2>4 DEF TurnInv
<1>7. QED
  BY <1>2, <1>4, <1>5, <1>6, ClientStep DEF ClientInv, serverVars

LEMMA AskKeeps ==
  ASSUME IInv, NEW c \in Clients, NEW l \in WordLengths, Ask(c, l)
  PROVE  IInv'
<1>1. /\ pc[c] = "input"
      /\ asked' = [asked EXCEPT ![c] = @ + l]
      /\ ends' = [ends EXCEPT ![c] = @ \cup {asked[c] + l}]
      /\ UNCHANGED <<serverVars, eof, heard, fit>>
  BY DEF Ask
<1>2. PICK result \in SendResults(conn[c].c) :
        \/ /\ result = "sent"
           /\ conn' = [conn EXCEPT ![c] = Sent(@, "c", Word(c, l))]
           /\ pc' = [pc EXCEPT ![c] = "recv"]
        \/ /\ result = "error"
           /\ pc' = [pc EXCEPT ![c] = "close"]
           /\ UNCHANGED conn
        \/ /\ result = "killed"
           /\ conn' = [conn EXCEPT ![c] = Closed(@, "c")]
           /\ pc' = [pc EXCEPT ![c] = "killed"]
  BY DEF Ask
<1>3. /\ TypeOK /\ WordInv(c) /\ conn[c].c.peerEnd \in Ends
      /\ asked[c] \in Nat /\ l \in Nat /\ l > 0
      /\ ends[c] \subseteq Parts /\ ends[c] \subseteq Nat
  BY Parted, ClientTypes, RobotAssumption
<1>4. result # "sent" => ~Intact(c)
  BY <1>3, SendFailsWhenGone DEF Intact
<1>5. /\ asked'[c] = asked[c] + l /\ ends'[c] = ends[c] \cup {asked[c] + l}
      /\ \A d \in Clients \ {c} : asked'[d] = asked[d] /\ ends'[d] = ends[d]
  BY <1>1, <1>3 DEF TypeOK
<1>6. /\ asked' \in [Clients -> Nat] /\ ends' \in [Clients -> SUBSET Parts]
      /\ ends[c] \subseteq ends'[c]
  <2>1. asked[c] + l \in Nat /\ asked[c] + l \in Parts
    BY <1>3 DEF Parts
  <2>2. asked' \in [Clients -> Nat]
    BY <1>1, <1>3, <2>1 DEF TypeOK
  <2>3. ends' \in [Clients -> SUBSET Parts]
    BY <1>1, <1>3, <2>1 DEF TypeOK
  <2>4. QED
    BY <1>5, <2>2, <2>3
<1>7. WordInv(c)'
  <2>1. \A j \in ends[c] : j \in Nat /\ j <= asked[c]
    BY <1>3 DEF WordInv
  <2>2. \A j \in ends'[c] : j <= asked'[c]
    BY <1>3, <1>5, <2>1
  <2>3. QED
    BY <1>5, <2>2 DEF WordInv
<1>8. CASE result = "sent"
  BY <1>1, <1>2, <1>8, AskSentKeeps
<1>9. CASE result = "error"
  <2>1. conn' = conn /\ pc' = [pc EXCEPT ![c] = "close"]
    BY <1>2, <1>9
  <2>2. pc'[c] = "close" /\ (\A d \in Clients \ {c} : pc'[d] = pc[d])
        /\ pc' \in [Clients -> Places]
    BY <1>3, <2>1 DEF TypeOK, Places
  <2>3. TypeOK'
    BY <1>1, <1>3, <1>6, <2>1, <2>2 DEF TypeOK, serverVars, Places
  <2>4. QED
    BY <1>1, <1>4, <1>5, <1>6, <1>7, <1>9, <2>1, <2>2, <2>3, MoveKeeps
<1>10. CASE result = "killed"
  <2>1. conn' = [conn EXCEPT ![c] = Closed(@, "c")]
        /\ pc' = [pc EXCEPT ![c] = "killed"]
    BY <1>2, <1>10
  <2>2. QED
    BY <1>1, <1>4, <1>5, <1>6, <1>7, <1>10, <2>1, GoneKeeps
<1>11. QED
  BY <1>2, <1>8, <1>9, <1>10

LEMMA AskNothingKeeps ==
  ASSUME IInv, NEW c \in Clients, AskNothing(c)
  PROVE  IInv'
<1>1. /\ pc[c] = "input" /\ asked[c] = 0
      /\ UNCHANGED <<serverVars, eof, asked, ends, heard, fit>>
  BY DEF AskNothing
<1>2. PICK result \in SendResults(conn[c].c) :
        /\ pc' = [pc EXCEPT ![c] = CASE result = "sent"  -> "recv"
                                      [] result = "error" -> "close"
                                      [] OTHER            -> "killed"]
        /\ conn' = IF result = "killed" THEN [conn EXCEPT ![c] = Closed(@, "c")]
                                        ELSE conn
  BY DEF AskNothing
<1>3. TypeOK /\ conn[c].c.peerEnd \in Ends /\ WordInv(c)'
  BY <1>1, Parted, ClientTypes DEF WordInv
<1>4. /\ result \in {"sent", "error", "killed"}
      /\ result # "sent" => ~Intact(c)
  BY <1>3, SendFailsWhenGone DEF Intact
<1>5. CASE result # "killed"
  <2>1. /\ conn' = conn
        /\ pc'[c] = IF result = "sent" THEN "recv" ELSE "close"
        /\ \A d \in Clients \ {c} : pc'[d] = pc[d]
    BY <1>2, <1>3, <1>4, <1>5 DEF TypeOK
  <2>2. pc' \in [Clients -> Places]
    BY <1>2, <1>3, <1>4 DEF TypeOK, Places
  <2>3. TypeOK'
    BY <1>1, <1>3, <2>1, <2>2 DEF TypeOK, serverVars, Places
  <2>4. QED
    BY <1>1, <1>3, <1>4, <2>1, <2>3, MoveKeeps
<1>6. CASE result = "killed"
  <2>1. conn' = [conn EXCEPT ![c] = Closed(@, "c")]
        /\ pc' = [pc EXCEPT ![c] = "killed"]
    BY <1>2, <1>6
  <2>2. asked' \in [Clients -> Nat] /\ ends' \in [Clients -> SUBSET Parts]
    BY <1>1, <1>3 DEF TypeOK
  <2>3. QED
    BY <1>1, <1>3, <2>1, <2>2, GoneKeeps
<1>7. QED
  BY <1>5, <1>6

\* What one recv of the client brings, as long as the answers fit: the answer
\* to the last part sent, whole.
LEMMA FitAnswer ==
  ASSUME IInv, NEW c \in Clients, NEW n \in Readable(conn[c].c),
         pc[c] = "recv", fit[c]
  PROVE  /\ n = 1 /\ Chunk(conn[c].c, n) = <<asked[c]>>
         /\ Read(conn[c], "c", n).c.inbox = <<>>
<1> DEFINE k == conn[c]
           r == Read(k, "c", n)
           chunk == Chunk(k.c, n)
<1>1. TypeOK /\ TurnInv(c)
  BY Parted
<1>2. /\ k \in Connection(Parts) /\ k.c.inbox \in Seq(Parts)
      /\ n \in Readable(k.c)
  BY <1>1, ClientTypes
<1>3. k.c.inbox \in {<<>>, <<asked[c]>>}
  BY <1>1 DEF TurnInv
<1> HIDE DEF k
<1>4. r \in Connection(Parts) /\ chunk \in Seq(Parts) /\ Len(chunk) = n
      /\ k.c.inbox = chunk \o r.c.inbox /\ chunk[1] = k.c.inbox[1]
  BY <1>2, ReadByClient
<1>5. r.c.inbox \in Seq(Parts)
  BY <1>4, Inboxes
<1>6. n \in Nat \ {0} /\ n <= Len(k.c.inbox)
  BY <1>2 DEF Readable
<1>7. k.c.inbox = <<asked[c]>>
  BY <1>3, <1>6
<1>8. n = 1
  BY <1>6, <1>7
<1> HIDE DEF r, chunk
<1>9. chunk = <<asked[c]>>
  BY <1>4, <1>7, <1>8
<1>10. Len(r.c.inbox) = 0
  <2> DEFINE y == r.c.inbox
  <2>1. y \in Seq(Parts)
    BY <1>5
  <2> HIDE DEF y
  <2>2. Len(chunk \o y) = Len(chunk) + Len(y) /\ Len(y) \in Nat
    <3>1. chunk \in Seq(Parts)
      BY <1>4
    <3>2. QED
      BY <2>1, <3>1
  <2>3. Len(chunk \o y) = 1
    BY <1>4, <1>7 DEF y
  <2>4. QED
    BY <1>4, <1>8, <2>2, <2>3 DEF y
<1>11. QED
  BY <1>5, <1>8, <1>9, <1>10 DEF k, r, chunk

LEMMA RecvKeeps ==
  ASSUME IInv, NEW c \in Clients, Recv(c)
  PROVE  IInv'
<1> DEFINE k == conn[c]
           r == conn'[c]
<1>1. PICK n \in Readable(k.c) :
          /\ heard' = [heard EXCEPT ![c] = Last(Chunk(k.c, n))]
          /\ conn' = [conn EXCEPT ![c] = Read(k, "c", n)]
  BY DEF Recv
<1> DEFINE x == Chunk(k.c, n)
           y == r.c.inbox
<1>2. /\ pc[c] = "recv" /\ pc' = [pc EXCEPT ![c] = "input"]
      /\ UNCHANGED <<serverVars, eof, asked, ends, fit>>
  BY DEF Recv
<1>3. /\ TypeOK
      /\ OrderInv(c) /\ OpenInv(c) /\ PlaceInv(c) /\ WordInv(c) /\ TurnInv(c)
  BY Parted
<1>4. /\ k \in Connection(Parts) /\ k.c.inbox \in Seq(Parts)
      /\ asked[c] \in Nat /\ heard[c] \in Nat /\ Pending(c) \in Seq(Parts)
      /\ n \in Readable(k.c)
  BY <1>3, ClientTypes
<1>5. /\ r = Read(k, "c", n) /\ heard'[c] = Last(x) /\ pc'[c] = "input"
      /\ ~Ended(c) /\ ~Ended(c)'
      /\ \A d \in Clients \ {c} : /\ conn'[d] = conn[d] /\ pc'[d] = pc[d]
                                  /\ heard'[d] = heard[d]
  BY <1>1, <1>2, <1>3 DEF TypeOK, Ended
<1>6. fit[c] => y = <<>>
  BY <1>2, <1>5, FitAnswer
<1> HIDE DEF k, r, x, y
<1>7. /\ r \in Connection(Parts) /\ r.s = k.s
      /\ r.c.peerEnd = k.c.peerEnd /\ r.c.broken = k.c.broken
      /\ x \in Seq(Parts) /\ Len(x) = n
      /\ k.c.inbox = x \o y
  <2>1. k \in Connection(Parts) /\ n \in Readable(k.c) /\ r = Read(k, "c", n)
    BY <1>4, <1>5
  <2>2. QED
    BY <2>1, ReadByClient DEF x, y
<1>8. y \in Seq(Parts) /\ x # <<>>
  BY <1>4, <1>7, Inboxes DEF y, Readable
<1>9. TypeOK'
  <2>1. Last(x) \in Parts
    BY <1>7, <1>8 DEF Last
  <2>2. Last(x) \in Nat
    BY <2>1 DEF Parts
  <2>3. heard' \in [Clients -> Nat]
    BY <1>1, <1>3, <2>2 DEF TypeOK, x
  <2>4. conn' \in [Clients -> Connection(Parts)]
    BY <1>3, <1>1, <1>5, <1>7 DEF TypeOK
  <2>5. QED
    BY <1>2, <1>3, <2>3, <2>4 DEF TypeOK, serverVars
<1>10. /\ Listening' = Listening /\ fd' = fd /\ backlog' = backlog /\ fit' = fit
       /\ hand' = hand /\ asked' = asked /\ ends' = ends
       /\ Pending(c)' = Pending(c) /\ Intact(c)' = Intact(c)
  BY <1>2, <1>7 DEF Listening, serverVars, Pending, Intact, k, r
<1>11. OrderInv(c)'
  <2> SUFFICES ASSUME Intact(c)
               PROVE  Ordered(Pending(c), <<Last(x)>> \o y, asked[c])
    BY <1>5, <1>10 DEF OrderInv, Answers, y, r
  <2>2. Ordered(Pending(c), <<heard[c]>> \o (x \o y), asked[c])
    BY <1>3, <1>7 DEF OrderInv, Answers, k
  <2>3. Pending(c) \in Seq(Nat) /\ x \in Seq(Nat) /\ y \in Seq(Nat)
    BY <1>4, <1>7, <1>8, PartsAreNumbers
  <2>4. QED
    BY <1>4, <1>8, <2>2, <2>3, HeardInOrder
<1>12. OpenInv(c)' /\ PlaceInv(c)' /\ WordInv(c)'
  BY <1>3, <1>5, <1>7, <1>10 DEF OpenInv, PlaceInv, WordInv, r, k
<1>13. TurnInv(c)'
  <2> SUFFICES ASSUME fit[c]
               PROVE  TurnInv(c)'
    BY <1>10 DEF TurnInv
  <2>1. c = fd /\ hand # <<>> => Last(hand) \in ends[c]
    BY <1>3 DEF TurnInv
  <2>2. Intact(c) => OneWord(c)'
    BY <1>3, <1>10 DEF TurnInv, OneWord
  <2>3. k.c.inbox # <<>>
    BY <1>4 DEF Readable
  <2>4. Intact(c) => Pending(c) = <<>>
    BY <1>2, <1>3, <1>5, <2>3 DEF TurnInv, k
  <2>5. QED
    BY <1>5, <1>6, <1>10, <2>1, <2>2, <2>4 DEF TurnInv, r, y
<1>14. QED
  BY <1>2, <1>5, <1>7, <1>9, <1>10, <1>11, <1>12, <1>13, ClientStep
     DEF ClientInv, r, k

\* The steps that only move the client.
LEMMA MovesKeep ==
  ASSUME IInv, NEW c \in Clients,
         EndInput(c) \/ Exit(c) \/ RecvNothing(c) \/ RecvFails(c)
  PROVE  IInv'
<1>1. /\ pc[c] \in {"input", "recv"} /\ pc'[c] \in {"input", "recv", "close"}
      /\ \A d \in Clients \ {c} : pc'[d] = pc[d]
      /\ pc' \in [Clients -> Places]
      /\ eof' \in [Clients -> BOOLEAN]
      /\ UNCHANGED <<serverVars, conn, asked, ends, heard, fit>>
  BY Parted DEF EndInput, Exit, RecvNothing, RecvFails, TypeOK, Places
<1>2. TypeOK'
  BY <1>1, Parted DEF TypeOK, serverVars, Places
<1>3. Intact(c) => pc[c] = "input"
  BY Parted DEF Intact, RecvNothing, RecvFails, EndInput, Exit, AtEnd, Failed, PlaceInv
<1>4. pc[c] = "recv" /\ pc'[c] # "close" => conn[c].c.inbox = <<>>
  BY Parted DEF RecvNothing, RecvFails, EndInput, Exit, AtEnd, TypeOK
<1>5. pc[c] = "input" => pc'[c] # "recv"
  BY Parted DEF RecvNothing, RecvFails, EndInput, Exit, TypeOK
<1>6. WordInv(c)'
  BY <1>1, Parted DEF WordInv
<1>7. QED
  BY <1>1, <1>2, <1>3, <1>4, <1>5, <1>6, MoveKeeps

LEMMA LeavesKeep ==
  ASSUME IInv, NEW c \in Clients, Close(c) \/ Leave(c)
  PROVE  IInv'
<1>1. /\ pc[c] \in {"input", "recv", "close"}
      /\ conn' = [conn EXCEPT ![c] = Closed(@, "c")]
      /\ UNCHANGED <<serverVars, eof, asked, ends, heard, fit>>
  BY DEF Close, Leave
<1>2. PICK how \in {"done", "killed"} : pc' = [pc EXCEPT ![c] = how]
  BY DEF Close, Leave
<1>3. asked' \in [Clients -> Nat] /\ ends' \in [Clients -> SUBSET Parts]
      /\ WordInv(c)'
  BY <1>1, Parted DEF TypeOK, WordInv
<1>4. QED
  BY <1>1, <1>2, <1>3, GoneKeeps

LEMMA ConnectKeeps ==
  ASSUME IInv, NEW c \in Clients, Connect(c)
  PROVE  IInv'
<1>1. /\ pc[c] = "connect"
      /\ UNCHANGED <<at, fd, hand, answer, conn, eof, asked, ends, heard, fit>>
  BY DEF Connect
<1>2. /\ TypeOK /\ ServerInv /\ QueueInv
      /\ OrderInv(c) /\ OpenInv(c) /\ PlaceInv(c) /\ WordInv(c) /\ TurnInv(c)
  BY Parted
<1>3. \/ /\ Listening
         /\ pc' = [pc EXCEPT ![c] = "input"]
         /\ backlog' = Append(backlog, c)
      \/ /\ ~Listening
         /\ pc' = [pc EXCEPT ![c] = "done"]
         /\ backlog' = backlog
  BY DEF Connect
<1>4. /\ pc'[c] \in {"input", "done"}
      /\ \A d \in Clients \ {c} : pc'[d] = pc[d]
      /\ pc' \in [Clients -> Places]
      /\ backlog' \in Seq(Clients)
  <2>1. backlog \in Seq(Clients) /\ Append(backlog, c) \in Seq(Clients)
    BY <1>2 DEF TypeOK
  <2>2. backlog' \in Seq(Clients)
    BY <1>3, <2>1
  <2>3. QED
    BY <1>2, <1>3, <2>2 DEF TypeOK, Places
<1>5. TypeOK'
  BY <1>1, <1>2, <1>4 DEF TypeOK, Places
<1>6. ServerInv'
  BY <1>1, <1>2 DEF ServerInv
<1>7. c # fd /\ conn[c] = NewConnection
  BY <1>1, <1>2 DEF PlaceInv
<1>8. \A k \in 1..Len(backlog) :
          backlog[k] \in Clients /\ backlog[k] # fd /\ backlog[k] # c
          /\ pc[backlog[k]] # "connect"
  <2>1. TAKE k \in 1..Len(backlog)
  <2>2. backlog[k] \in Clients
    BY <1>2 DEF TypeOK
  <2>3. backlog[k] # fd /\ pc[backlog[k]] # "connect"
    BY <1>2 DEF QueueInv
  <2>4. QED
    BY <1>1, <2>2, <2>3
<1>9. QueueInv'
  <2>1. CASE backlog' = backlog
    BY <1>1, <1>2, <1>4, <1>8, <2>1 DEF QueueInv
  <2>2. CASE backlog' = Append(backlog, c)
    <3>1. /\ Len(backlog') = Len(backlog) + 1 /\ Len(backlog) \in Nat
          /\ backlog'[Len(backlog) + 1] = c
          /\ \A k \in 1..Len(backlog) : backlog'[k] = backlog[k]
      BY <1>2, <2>2 DEF TypeOK
    <3>2. \A k \in 1..Len(backlog') :
              k \in 1..Len(backlog) \/ k = Len(backlog) + 1
      BY <3>1
    <3>3. \A k \in 1..Len(backlog') :
              backlog'[k] # fd' /\ pc'[backlog'[k]] # "connect"
      BY <1>1, <1>4, <1>7, <1>8, <3>1, <3>2
    <3>4. ASSUME NEW j \in 1..Len(backlog'), NEW k \in 1..Len(backlog'),
                 backlog'[j] = backlog'[k]
          PROVE  j = k
      BY <1>2, <1>8, <3>1, <3>2, <3>4 DEF QueueInv
    <3>5. QED
      BY <3>3, <3>4 DEF QueueInv
  <2>3. QED
    BY <1>3, <2>1, <2>2
<1>10. ASSUME NEW d \in Clients
       PROVE  ClientInv(d)'
  <2>1. CASE d = c
    <3>1. /\ conn[c].c.inbox = <<>> /\ conn[c].s.inbox = <<>>
          /\ conn[c].c.peerEnd = "open" /\ conn[c].s.peerEnd = "open"
          /\ ~conn[c].c.broken /\ ~conn[c].s.broken
      BY <1>7 DEF NewConnection, NewSide
    <3>2. Pending(c)' = Pending(c) /\ Pending(c) = <<>>
      BY <1>1, <1>7, <3>1 DEF Pending
    <3>3. OrderInv(c)'
      BY <1>1, <1>2, <3>2 DEF OrderInv, Intact, Answers
    <3>4. OpenInv(c)' /\ PlaceInv(c)' /\ WordInv(c)'
      BY <1>1, <1>2, <1>4, <3>1 DEF OpenInv, PlaceInv, WordInv, Intact
    <3>5. TurnInv(c)'
      <4>1. OneWord(c)'
        BY <3>2 DEF OneWord
      <4>2. QED
        BY <1>1, <1>4, <1>7, <3>1, <3>2, <4>1 DEF TurnInv, Ended
    <3>6. QED
      BY <2>1, <3>3, <3>4, <3>5 DEF ClientInv
  <2>2. CASE d # c
    <3>1. Pending(d)' = Pending(d) /\ fd' = fd /\ (Listening' => Listening)
      BY <1>1 DEF Pending, Listening
    <3>2. d \in Range(backlog') => d \in Range(backlog)
      <4>1. ASSUME NEW k \in DOMAIN backlog', d = backlog'[k]
            PROVE  k \in DOMAIN backlog /\ d = backlog[k]
        <5>1. CASE backlog' = backlog
          BY <4>1, <5>1
        <5>2. CASE backlog' = Append(backlog, c)
          <6>1. backlog \in Seq(Clients)
            BY <1>2 DEF TypeOK
          <6>2. QED
            BY <2>2, <4>1, <5>2, <6>1
        <5>3. QED
          BY <1>3, <5>1, <5>2
      <4>2. QED
        BY <4>1 DEF Range
    <3>3. ClientInv(d) /\ (pc[d] = "connect" => d # fd)
      BY DEF IInv, ClientInv, PlaceInv
    <3>4. QED
      BY <1>1, <1>4, <2>2, <3>1, <3>2, <3>3, Untouched
  <2>3. QED
    BY <2>1, <2>2
<1>11. at' = "killed" => fd' \in Clients /\ ~fit'[fd']
  BY <1>1, Parted
<1>12. QED
  BY <1>5, <1>6, <1>9, <1>10, <1>11 DEF IInv

-------------------------------------------------------------------------------
(* The server's steps. *)

LEMMA AcceptKeeps ==
  ASSUME IInv, Accept
  PROVE  IInv'
<1>1. /\ at = "accept" /\ backlog # <<>>
      /\ fd' = Head(backlog) /\ backlog' = Tail(backlog) /\ at' = "recv"
      /\ UNCHANGED <<hand, answer, conn, clientVars, fit>>
  BY DEF Accept
<1>2. TypeOK /\ ServerInv /\ QueueInv
  BY Parted
<1>3. /\ backlog \in Seq(Clients) /\ Len(backlog) \in Nat /\ Len(backlog) > 0
      /\ fd' = backlog[1] /\ fd' \in Clients
      /\ backlog' \in Seq(Clients)
      /\ Len(backlog') = Len(backlog) - 1
      /\ \A k \in 1..Len(backlog') : backlog'[k] = backlog[k + 1]
  BY <1>1, <1>2 DEF TypeOK
<1>4. hand = <<>>
  BY <1>1, <1>2 DEF ServerInv
<1>5. TypeOK'
  BY <1>1, <1>2, <1>3 DEF TypeOK, clientVars
<1>6. ServerInv'
  BY <1>1, <1>3, <1>4 DEF ServerInv
<1>7. QueueInv'
  <2>1. ASSUME NEW k \in 1..Len(backlog')
        PROVE  /\ k + 1 \in 1..Len(backlog) /\ 1 \in 1..Len(backlog) /\ k + 1 # 1
               /\ backlog'[k] = backlog[k + 1]
    BY <1>3
  <2>2. ASSUME NEW k \in 1..Len(backlog')
        PROVE  backlog'[k] # fd' /\ pc'[backlog'[k]] # "connect"
    <3>1. backlog[k + 1] # backlog[1] /\ pc[backlog[k + 1]] # "connect"
      BY <1>2, <2>1 DEF QueueInv
    <3>2. QED
      BY <1>1, <1>3, <2>1, <3>1 DEF clientVars
  <2>3. ASSUME NEW j \in 1..Len(backlog'), NEW k \in 1..Len(backlog'),
               backlog'[j] = backlog'[k]
        PROVE  j = k
    <3>1. j + 1 = k + 1
      BY <1>2, <2>1, <2>3 DEF QueueInv
    <3>2. QED
      BY <1>3, <3>1
  <2>4. QED
    BY <2>2, <2>3 DEF QueueInv
<1>8. at' # "killed"
  BY <1>1
<1>9. pc[fd'] # "connect"
  BY <1>2, <1>3 DEF QueueInv
<1>10. ASSUME NEW d \in Clients
       PROVE  ClientInv(d)'
  <2>1. Pending(d)' = Pending(d)
    BY <1>1, <1>4 DEF Pending
  <2>2. d = fd' \/ d \in Range(backlog') => d \in Range(backlog)
    <3>1. ASSUME NEW k \in DOMAIN backlog'
          PROVE  k + 1 \in DOMAIN backlog /\ backlog'[k] = backlog[k + 1]
      BY <1>3
    <3>2. 1 \in DOMAIN backlog
      BY <1>3
    <3>3. QED
      BY <1>3, <3>1, <3>2 DEF Range
  <2>3. ClientInv(d) /\ Listening
    BY <1>1 DEF IInv, Listening
  <2>4. QED
    BY <1>1, <1>4, <1>9, <2>1, <2>2, <2>3, Untouched DEF clientVars
<1>11. QED
  BY <1>5, <1>6, <1>7, <1>8, <1>10 DEF IInv

\* A step of the server on the connection it serves, while it listens: what is
\* left to show is the invariant of that client, and the server's own.
LEMMA ServedStep ==
  ASSUME IInv, TypeOK', ServerInv', NEW f \in Clients, f = fd, Listening, at' # "killed",
         fd' \in {fd, Nobody}, backlog' = backlog, UNCHANGED clientVars,
         \A d \in Clients \ {f} : fit'[d] => fit[d],
         \A d \in Clients \ {f} : conn'[d] = conn[d],
         ClientInv(f)'
  PROVE  IInv'
<1>1. TypeOK /\ QueueInv
  BY Parted
<1>2. QueueInv'
  <2>1. ASSUME NEW k \in 1..Len(backlog)
        PROVE  backlog[k] # fd' /\ pc'[backlog[k]] # "connect"
    <3>1. backlog[k] \in Clients
      BY <1>1 DEF TypeOK
    <3>2. backlog[k] # fd /\ pc[backlog[k]] # "connect"
      BY <1>1 DEF QueueInv
    <3>3. QED
      BY <3>1, <3>2, RobotAssumption DEF clientVars
  <2>2. QED
    BY <1>1, <2>1 DEF QueueInv
<1>3. ASSUME NEW d \in Clients
      PROVE  ClientInv(d)'
  <2>1. CASE d = f
    BY <2>1
  <2>2. CASE d # f
    <3>1. d # fd' /\ Pending(d)' = Pending(d)
      BY <2>2, RobotAssumption DEF Pending
    <3>2. ClientInv(d)
      BY DEF IInv
    <3>3. QED
      BY <2>2, <3>1, <3>2, Untouched DEF clientVars
  <2>3. QED
    BY <2>1, <2>2
<1>5. QED
  BY <1>2, <1>3 DEF IInv

LEMMA ServerRecvKeeps ==
  ASSUME IInv, ServerRecv
  PROVE  IInv'
<1>0. PICK f \in Clients : f = fd
  BY Parted DEF ServerRecv, ServerInv
<1> DEFINE k == conn[f]
           r == conn'[f]
<1>1. /\ at = "recv" /\ at' = "ask"
      /\ fit' = [fit EXCEPT ![fd] = @ /\ Last(hand') \in ends[fd]]
      /\ UNCHANGED <<fd, backlog, answer, clientVars>>
  BY DEF ServerRecv
<1>2. PICK n \in Readable(k.s) :
          /\ hand' = Chunk(k.s, n)
          /\ conn' = [conn EXCEPT ![fd] = Read(k, "s", n)]
  BY <1>0 DEF ServerRecv
<1>3. TypeOK /\ fd \in Clients /\ hand = <<>>
  BY <1>1, Parted DEF ServerInv
<1>4. OrderInv(f) /\ OpenInv(f) /\ PlaceInv(f) /\ WordInv(f) /\ TurnInv(f)
  BY Parted
<1>5. k \in Connection(Parts) /\ k.s.inbox \in Seq(Parts)
  BY <1>3, ClientTypes
<1>6. r = Read(k, "s", n) /\ hand' = Chunk(k.s, n) /\ n \in Readable(k.s)
  BY <1>0, <1>2, <1>3 DEF TypeOK
<1>7. \A d \in Clients \ {f} : conn'[d] = conn[d]
  BY <1>0, <1>2, <1>3 DEF TypeOK
<1> HIDE DEF k, r
<1>8. /\ r \in Connection(Parts) /\ r.c = k.c
      /\ r.s.peerEnd = k.s.peerEnd /\ r.s.broken = k.s.broken
      /\ hand' \in Seq(Parts) /\ Len(hand') = n
      /\ k.s.inbox = hand' \o r.s.inbox
  BY <1>5, <1>6, ReadByServer
<1>9. r.s.inbox \in Seq(Parts) /\ n \in Nat \ {0} /\ hand' # <<>>
  BY <1>6, <1>8, Inboxes DEF Readable
<1>10. TypeOK'
  <2>1. conn' \in [Clients -> Connection(Parts)]
    BY <1>2, <1>3, <1>0, <1>6, <1>8 DEF TypeOK
  <2>2. fit' \in [Clients -> BOOLEAN]
    BY <1>1, <1>3 DEF TypeOK
  <2>3. QED
    BY <1>1, <1>3, <1>8, <2>1, <2>2 DEF TypeOK, clientVars
<1>11. ServerInv'
  BY <1>1, <1>3, <1>9 DEF ServerInv
<1>12. /\ Listening /\ f = fd' /\ f = fd /\ backlog' = backlog /\ pc' = pc
       /\ asked' = asked /\ ends' = ends /\ heard' = heard
       /\ Intact(f)' = Intact(f)
       /\ \A d \in Clients \ {f} : fit'[d] => fit[d]
       /\ fit'[f] => fit[f] /\ Last(hand') \in ends[f]
  BY <1>0, <1>1, <1>3, <1>8 DEF Listening, Intact, clientVars, TypeOK, k, r
<1>13. Pending(f)' = Pending(f)
  <2>1. Pending(f)' = hand' \o r.s.inbox
    BY <1>12 DEF Pending, r
  <2>2. Pending(f) = <<>> \o k.s.inbox
    BY <1>3, <1>12 DEF Pending, k
  <2>3. <<>> \o k.s.inbox = k.s.inbox
    BY <1>5
  <2>4. QED
    BY <1>8, <2>1, <2>2, <2>3
<1>14. OrderInv(f)'
  BY <1>4, <1>8, <1>12, <1>13 DEF OrderInv, Answers, k, r
<1>15. OpenInv(f)' /\ PlaceInv(f)' /\ WordInv(f)'
  BY <1>4, <1>8, <1>12 DEF OpenInv, PlaceInv, WordInv, Ended, k, r
<1>16. TurnInv(f)'
  <2> SUFFICES ASSUME fit[f], Last(hand') \in ends[f]
               PROVE  TurnInv(f)'
    BY <1>12 DEF TurnInv
  <2>1. Intact(f) => OneWord(f)'
    BY <1>4, <1>12, <1>13 DEF TurnInv, OneWord
  <2>2. QED
    BY <1>4, <1>8, <1>12, <1>13, <2>1 DEF TurnInv, Ended, k, r
<1>17. QED
  BY <1>1, <1>3, <1>7, <1>10, <1>11, <1>12, <1>14, <1>15, <1>16, ServedStep
     DEF ClientInv

\* The steps that change no connection: the client's end is seen, or the answer
\* is there.
LEMMA AnswerOrEndKeeps ==
  ASSUME IInv, ServerRecvEnd \/ GetAnswer
  PROVE  IInv'
<1>1. /\ \/ /\ at = "recv" /\ at' = "close" /\ answer' = answer
            /\ AtEnd(conn[fd].s) \/ Failed(conn[fd].s)
         \/ /\ at = "ask" /\ at' = "send"
            /\ answer' \in AnswerLengths \cup {1}
      /\ UNCHANGED <<fd, backlog, hand, conn, clientVars, fit>>
  BY DEF ServerRecvEnd, GetAnswer
<1>2. TypeOK /\ ServerInv /\ fd \in Clients
  BY <1>1, Parted DEF ServerInv
<1>3. at = "recv" => conn[fd].s.peerEnd # "open"
  BY <1>1, <1>2, Parted DEF AtEnd, Failed, PlaceInv
<1>4. ServerInv'
  BY <1>1, <1>2, <1>3 DEF ServerInv
<1>5. TypeOK'
  <2>1. answer' \in Nat
    <3>1. answer' = answer \/ answer' \in AnswerLengths \/ answer' = 1
      BY <1>1
    <3>2. answer \in Nat /\ AnswerLengths \subseteq Nat
      BY <1>2, RobotAssumption DEF TypeOK
    <3>3. CASE answer' = answer
      BY <3>2, <3>3
    <3>4. CASE answer' \in AnswerLengths
      BY <3>2, <3>4
    <3>5. CASE answer' = 1
      BY <3>5
    <3>6. QED
      BY <3>1, <3>3, <3>4, <3>5
  <2>2. QED
    BY <1>1, <1>2, <2>1 DEF TypeOK, clientVars
<1>6. PICK f \in Clients : f = fd
  BY <1>2
<1>7. ClientInv(f)'
  <2>1. ClientInv(f) /\ (pc[f] = "connect" => f # fd)
    BY Parted DEF ClientInv, PlaceInv
  <2>2. /\ Pending(f)' = Pending(f) /\ Listening /\ fd' = fd /\ backlog' = backlog
        /\ conn' = conn /\ pc' = pc /\ asked' = asked /\ ends' = ends
        /\ heard' = heard /\ fit' = fit /\ hand' = hand
    BY <1>1 DEF Pending, Listening, clientVars
  <2>3. QED
    BY <1>6, <2>1, <2>2, Untouched
<1>8. QED
  BY <1>1, <1>4, <1>5, <1>6, <1>7, ServedStep DEF Listening

\* What an answer is made of.
LEMMA AnswerType ==
  ASSUME TypeOK, hand # <<>>
  PROVE  /\ Last(hand) \in Parts
         /\ Answer \in Seq(Parts) /\ Len(Answer) = answer
         /\ answer = 1 => Answer = <<Last(hand)>>
<1>1. hand \in Seq(Parts) /\ answer \in Nat
  BY DEF TypeOK
<1>2. Last(hand) \in Parts
  BY <1>1 DEF Last
<1>3. QED
  BY <1>1, <1>2 DEF Answer

\* The answer is sent, or send reports an error: the client's questions in the
\* server's hand are done with.
LEMMA AnsweredKeeps ==
  ASSUME IInv, NEW f \in Clients, f = fd, at = "send",
         at' = "recv", hand' = <<>>, answer' = 0,
         conn' = [conn EXCEPT ![f] = Sent(@, "s", Answer)]
            \/ (conn[f].s.peerEnd # "open"
                  /\ conn' = [conn EXCEPT ![f] = Errored(@, "s")]),
         fit' = [fit EXCEPT ![f] = @ /\ answer = 1],
         UNCHANGED <<fd, backlog, clientVars>>
  PROVE  IInv'
<1> DEFINE k == conn[f]
           r == conn'[f]
           b == k.s.inbox
           m == Answer
<1>1. /\ TypeOK /\ hand # <<>>
      /\ OrderInv(f) /\ OpenInv(f) /\ PlaceInv(f) /\ WordInv(f) /\ TurnInv(f)
  BY Parted DEF ServerInv
<1>2. /\ k \in Connection(Parts)
      /\ k.c.inbox \in Seq(Parts) /\ b \in Seq(Parts)
      /\ k.c.peerEnd \in Ends /\ k.s.peerEnd \in Ends
      /\ hand \in Seq(Parts) /\ Len(hand) \in Nat /\ Len(hand) > 0
      /\ Pending(f) = hand \o b
      /\ asked[f] \in Nat /\ heard[f] \in Nat /\ answer \in Nat
  BY <1>1, ClientTypes DEF Pending, TypeOK
<1>3. /\ m \in Seq(Parts)
      /\ answer = 1 => m = <<Last(hand)>>
  BY <1>1, AnswerType
<1>4. Intact(f)
  BY <1>1 DEF OpenInv, Listening
<1>5. /\ \/ r = Sent(k, "s", m)
         \/ k.s.peerEnd # "open" /\ r = Errored(k, "s")
      /\ \A d \in Clients \ {f} : conn'[d] = conn[d]
  BY <1>1 DEF TypeOK
<1>6. Len(Pending(f)) = Len(hand) + Len(b) /\ Len(b) \in Nat
  <2> DEFINE h == hand
             q == b
  <2>1. h \in Seq(Parts) /\ q \in Seq(Parts)
    BY <1>2
  <2> HIDE DEF h, q
  <2>2. Len(h \o q) = Len(h) + Len(q) /\ Len(q) \in Nat
    BY <2>1
  <2>3. QED
    BY <1>2, <2>2 DEF h, q
<1> HIDE DEF k, r, b, m
<1>7. /\ r \in Connection(Parts)
      /\ r.s.inbox = b
      /\ r.c.peerEnd = k.c.peerEnd /\ r.s.peerEnd = k.s.peerEnd
      /\ r.c.broken = k.c.broken
      /\ k.s.peerEnd = "open" => /\ r.c.inbox = k.c.inbox \o m
                                 /\ r.s.broken = k.s.broken
      /\ k.s.peerEnd # "open" => r.c.inbox = k.c.inbox
  <2>1. k \in Connection(Parts) /\ m \in Seq(Parts)
    BY <1>2, <1>3
  <2>2. CASE r = Sent(k, "s", m)
    BY <2>1, <2>2, SentByServer DEF b
  <2>3. CASE k.s.peerEnd # "open" /\ r = Errored(k, "s")
    BY <2>1, <2>3, ErroredAtServer DEF b
  <2>4. QED
    BY <1>5, <2>2, <2>3
<1>8. TypeOK'
  <2>1. conn' \in [Clients -> Connection(Parts)]
    BY <1>1, <1>5, <1>7 DEF TypeOK, r
  <2>2. fit' \in [Clients -> BOOLEAN]
    BY <1>1 DEF TypeOK
  <2>3. hand' \in Seq(Parts) /\ answer' \in Nat
    OBVIOUS
  <2>4. QED
    BY <1>1, <2>1, <2>2, <2>3 DEF TypeOK, clientVars
<1>9. ServerInv'
  BY Parted DEF ServerInv
<1>10. /\ Listening /\ Listening' /\ fd' = fd /\ backlog' = backlog
       /\ pc' = pc /\ asked' = asked /\ ends' = ends /\ heard' = heard
       /\ \A d \in Clients \ {f} : fit'[d] => fit[d]
       /\ fit'[f] => fit[f] /\ answer = 1
  BY <1>1 DEF Listening, clientVars, TypeOK
<1>11. Pending(f)' = b
  <2>1. Pending(f)' = <<>> \o b
    BY <1>7, <1>10 DEF Pending, r
  <2>2. QED
    BY <1>2, <2>1
<1> DEFINE a == <<heard[f]>> \o k.c.inbox
<1>12. /\ Ordered(hand \o b, a, asked[f])
       /\ a \in Seq(Nat) /\ hand \in Seq(Nat) /\ b \in Seq(Nat) /\ m \in Seq(Nat)
  <2>1. k.c.inbox \in Seq(Nat) /\ hand \in Seq(Nat) /\ b \in Seq(Nat) /\ m \in Seq(Nat)
    BY <1>2, <1>3, PartsAreNumbers
  <2>2. a \in Seq(Nat)
    BY <1>2, <2>1
  <2>3. Ordered(hand \o b, a, asked[f])
    BY <1>1, <1>2, <1>4 DEF OrderInv, Answers, k
  <2>4. QED
    BY <2>1, <2>2, <2>3
<1>13. OrderInv(f)'
  <2> SUFFICES Ordered(b, <<heard[f]>> \o r.c.inbox, asked[f])
    BY <1>10, <1>11 DEF OrderInv, Answers, r
  <2>1. CASE k.s.peerEnd = "open"
    <3>1. Ordered(b, a \o m, asked[f])
      <4> HIDE DEF a
      <4>1. Ordered(b, a \o [j \in 1..answer |-> Last(hand)], asked[f])
        BY <1>1, <1>2, <1>12, AnsweredInOrder
      <4>2. QED
        BY <4>1 DEF m, Answer
    <3>2. a \o m = <<heard[f]>> \o r.c.inbox
      <4> DEFINE x == k.c.inbox
                 h == <<heard[f]>>
      <4>1. h \in Seq(Nat) /\ x \in Seq(Nat) /\ m \in Seq(Nat)
        BY <1>2, <1>12, PartsAreNumbers
      <4> HIDE DEF x, h
      <4>2. (h \o x) \o m = h \o (x \o m)
        BY <4>1
      <4>3. QED
        BY <1>7, <2>1, <4>2 DEF x, h
    <3>3. QED
      BY <3>1, <3>2
  <2>2. CASE k.s.peerEnd # "open"
    <3>1. Ordered(b, a, asked[f])
      <4> HIDE DEF a
      <4>1. Ordered(b, a \o [j \in 1..0 |-> Last(hand)], asked[f])
        BY <1>1, <1>2, <1>12, AnsweredInOrder
      <4>2. a \o [j \in 1..0 |-> Last(hand)] = a
        BY <1>12
      <4>3. QED
        BY <4>1, <4>2
    <3>2. QED
      BY <1>7, <2>2, <3>1
  <2>3. QED
    BY <2>1, <2>2
<1> HIDE DEF a
<1>14. OpenInv(f)' /\ PlaceInv(f)' /\ WordInv(f)'
  <2>1. OpenInv(f)'
    BY <1>4, <1>7 DEF OpenInv, Intact, r, k
  <2>2. PlaceInv(f)' /\ WordInv(f)'
    BY <1>1, <1>7, <1>10 DEF PlaceInv, WordInv, Ended, k, r
  <2>3. QED
    BY <2>1, <2>2
<1>15. TurnInv(f)'
  <2> SUFFICES ASSUME fit[f], answer = 1
               PROVE  TurnInv(f)'
    BY <1>10 DEF TurnInv
  <2>1. Pending(f)[Len(hand)] = Last(hand) /\ Len(hand) \in 1..Len(Pending(f))
    <3> DEFINE h == hand
               q == b
    <3>1. h \in Seq(Parts) /\ q \in Seq(Parts) /\ Len(h) > 0
      BY <1>2
    <3> HIDE DEF h, q
    <3>2. (h \o q)[Len(h)] = Last(h) /\ Len(h) \in 1..Len(h \o q)
      BY <3>1 DEF Last
    <3>3. QED
      BY <1>2, <3>2 DEF h, q
  <2>2. Last(hand) = asked[f]
    <3>1. OneWord(f) /\ Last(hand) \in ends[f]
      BY <1>1, <1>4 DEF TurnInv
    <3>2. QED
      BY <2>1, <3>1 DEF OneWord
  <2>3. Len(b) = 0
    <3>1. Ordered(Pending(f), a, asked[f])
      BY <1>2, <1>12
    <3>2. Pending(f)[Len(hand)] = asked[f] - Len(Pending(f)) + Len(hand)
      BY <2>1, <3>1 DEF Ordered
    <3>3. QED
      BY <1>2, <1>6, <2>1, <2>2, <3>2
  <2>4. b = <<>> /\ Pending(f) # <<>>
    <3>1. b = <<>>
      BY <1>2, <2>3
    <3>2. Len(Pending(f)) > 0
      BY <1>2, <1>6
    <3>3. QED
      BY <3>1, <3>2
  <2>5. OneWord(f)'
    BY <1>11, <2>4 DEF OneWord
  <2>6. CASE Ended(f)
    BY <1>10, <1>11, <2>4, <2>5, <2>6 DEF TurnInv, Ended
  <2>7. CASE ~Ended(f)
    <3>1. pc[f] = "recv" /\ asked[f] > 0 /\ k.c.inbox = <<>>
      <4>1. IF pc[f] = "recv" /\ asked[f] > 0
            THEN Pending(f) = <<>> <=> k.c.inbox # <<>>
            ELSE Pending(f) = <<>> /\ k.c.inbox = <<>>
        BY <1>1, <1>4, <2>7 DEF TurnInv, k
      <4>2. QED
        BY <2>4, <4>1
    <3>2. k.s.peerEnd = "open"
      BY <1>1, <2>7 DEF PlaceInv, k
    <3>3. r.c.inbox = <<asked[f]>>
      <4>1. m = <<asked[f]>>
        BY <1>3, <2>2
      <4>2. <<>> \o <<asked[f]>> = <<asked[f]>>
        OBVIOUS
      <4>3. QED
        BY <1>7, <3>1, <3>2, <4>1, <4>2
    <3>4. r.c.inbox # <<>>
      BY <3>3
    <3>5. QED
      BY <1>10, <1>11, <2>4, <2>5, <2>7, <3>1, <3>3, <3>4 DEF TurnInv, Ended, r
  <2>8. QED
    BY <2>6, <2>7
<1>16. QED
  <2>1. fd' \in {fd, Nobody} /\ at' # "killed"
    BY <1>10
  <2>2. QED
    BY <1>5, <1>8, <1>9, <1>10, <1>13, <1>14, <1>15, <2>1, ServedStep
       DEF ClientInv

\* The server's process ends, whatever ends it: no client is served any more.
LEMMA EndsKeeps ==
  ASSUME IInv, NEW how \in {"exited", "killed", "thrown"}, Listening, ServerEnds(how),
         fit' \in [Clients -> BOOLEAN], \A d \in Clients : fit'[d] => fit[d],
         how = "killed" => fd \in Clients /\ ~fit'[fd],
         UNCHANGED clientVars
  PROVE  IInv'
<1>1. /\ TypeOK /\ QueueInv
      /\ at' = how /\ backlog' = <<>>
      /\ conn' = [c \in Clients |->
                     CASE c = fd              -> Closed(conn[c], "s")
                       [] c \in Range(backlog) -> Refused(conn[c])
                       [] OTHER               -> conn[c]]
  BY Parted DEF ServerEnds
<1>2. /\ ~Listening' /\ fd' = fd /\ hand' = hand /\ answer' = answer
      /\ pc' = pc /\ eof' = eof /\ asked' = asked /\ ends' = ends
      /\ heard' = heard
  BY <1>1 DEF Listening, clientVars, ServerEnds
<1>3. ASSUME NEW c \in Clients
      PROVE  /\ conn'[c] \in Connection(Parts)
             /\ conn'[c].c.inbox = conn[c].c.inbox
             /\ conn'[c].s.peerEnd = conn[c].s.peerEnd
             /\ conn'[c].s.broken = conn[c].s.broken
             /\ conn'[c] = conn[c] \/ (pc[c] # "connect" /\ conn'[c].c.peerEnd # "open")
  <2>0. conn'[c] = CASE c = fd              -> Closed(conn[c], "s")
                     [] c \in Range(backlog) -> Refused(conn[c])
                     [] OTHER               -> conn[c]
    BY <1>1
  <2>1. conn[c] \in Connection(Parts) /\ PlaceInv(c)
        /\ DOMAIN backlog = 1..Len(backlog)
    BY <1>1, Parted DEF TypeOK
  <2>2. CASE c = fd
    <3>0. c \notin Range(backlog)
      BY <1>1, <2>1, <2>2 DEF QueueInv, Range
    <3>1. conn'[c] = Closed(conn[c], "s")
      BY <2>0, <2>2, <3>0
    <3>2. pc[c] # "connect"
      BY <2>1, <2>2 DEF PlaceInv
    <3>3. QED
      BY <2>1, <3>1, <3>2, ClosedByServer
  <2>3. CASE c # fd /\ c \in Range(backlog)
    <3>1. conn'[c] = Refused(conn[c])
      BY <2>0, <2>3
    <3>2. PICK k \in DOMAIN backlog : c = backlog[k]
      BY <2>3 DEF Range
    <3>3. pc[c] # "connect"
      <4>1. k \in 1..Len(backlog)
        BY <2>1, <3>2
      <4>2. QED
        BY <1>1, <3>2, <4>1 DEF QueueInv
    <3>4. QED
      BY <2>1, <3>1, <3>3, RefusedByServer
  <2>4. CASE c # fd /\ c \notin Range(backlog)
    BY <2>0, <2>1, <2>4
  <2>5. QED
    BY <2>2, <2>3, <2>4
<1>4. TypeOK'
  <2>1. conn' \in [Clients -> Connection(Parts)]
    BY <1>1, <1>3
  <2>2. backlog' \in Seq(Clients)
    BY <1>1
  <2>3. QED
    BY <1>1, <1>2, <2>1, <2>2 DEF TypeOK
<1>5. ServerInv'
  BY <1>1 DEF ServerInv
<1>6. QueueInv'
  BY <1>1 DEF QueueInv
<1>7. at' = "killed" => fd' \in Clients /\ ~fit'[fd']
  BY <1>1, <1>2
<1>8. ASSUME NEW d \in Clients
      PROVE  ClientInv(d)'
  <2>1. OrderInv(d) /\ PlaceInv(d) /\ WordInv(d) /\ TurnInv(d)
    BY Parted
  <2>2. OpenInv(d)' /\ WordInv(d)'
    BY <1>2, <2>1 DEF OpenInv, WordInv
  <2>3. CASE conn'[d] = conn[d]
    <3>1. Pending(d)' = Pending(d)
      BY <1>2, <2>3 DEF Pending
    <3>2. OrderInv(d)'
      BY <1>2, <2>1, <2>3, <3>1 DEF OrderInv, Intact, Answers
    <3>3. PlaceInv(d)' /\ TurnInv(d)'
      <4>1. OneWord(d)' <=> OneWord(d)
        BY <1>2, <3>1 DEF OneWord
      <4>2. QED
        BY <1>2, <2>1, <2>3, <3>1, <4>1 DEF PlaceInv, TurnInv, Ended, Intact
    <3>4. QED
      BY <2>2, <3>2, <3>3 DEF ClientInv
  <2>4. CASE pc[d] # "connect" /\ conn'[d].c.peerEnd # "open"
    <3>1. OrderInv(d)'
      BY <2>4 DEF OrderInv, Intact
    <3>2. PlaceInv(d)'
      BY <1>2, <1>3, <2>1, <2>4 DEF PlaceInv, Ended
    <3>3. TurnInv(d)'
      BY <1>2, <1>3, <2>1, <2>4 DEF TurnInv, Intact
    <3>4. QED
      BY <2>2, <3>1, <3>2, <3>3 DEF ClientInv
  <2>5. QED
    BY <1>3, <2>3, <2>4
<1>9. QED
  BY <1>4, <1>5, <1>6, <1>7, <1>8 DEF IInv

\* When send kills the server, a recv had cut a word or an answer was not one
\* unit long: otherwise a client that is gone has at most one word in the
\* server's hand, and the server's end is not broken yet.
LEMMA KilledUnfit ==
  ASSUME IInv, at = "send", conn[fd].s.peerEnd \in {"fin", "rst"},
         conn[fd].s.peerEnd = "rst" \/ conn[fd].s.broken
  PROVE  fd \in Clients /\ ~fit[fd]
<1>0. PICK f \in Clients : f = fd
  BY Parted DEF ServerInv
<1>1. /\ TypeOK /\ hand # <<>>
      /\ OpenInv(f) /\ PlaceInv(f) /\ TurnInv(f)
  BY <1>0, Parted DEF ServerInv
<1>2. Ended(f)
  BY <1>0, <1>1 DEF PlaceInv
<1>3. Intact(f)
  BY <1>0, <1>1 DEF OpenInv, Listening
<1>4. fit[f] => Pending(f) = <<>>
  BY <1>0, <1>1, <1>2, <1>3 DEF TurnInv
<1>5. Pending(f) # <<>>
  <2> DEFINE h == hand
             b == conn[f].s.inbox
  <2>1. h \in Seq(Parts) /\ b \in Seq(Parts) /\ h # <<>>
    BY <1>1, ClientTypes
  <2>2. Pending(f) = h \o b
    BY <1>0 DEF Pending
  <2> HIDE DEF h, b
  <2>3. h \o b # <<>>
    BY <2>1
  <2>4. QED
    BY <2>2, <2>3
<1>6. QED
  BY <1>0, <1>4, <1>5

LEMMA SendAnswerKeeps ==
  ASSUME IInv, SendAnswer
  PROVE  IInv'
<1>1. PICK result \in SendResults(conn[fd].s) :
        \/ /\ result = "killed"
           /\ ServerEnds("killed")
        \/ /\ result \in {"sent", "error"}
           /\ conn' = [conn EXCEPT ![fd] = IF result = "sent"
                                           THEN Sent(@, "s", Answer)
                                           ELSE Errored(@, "s")]
           /\ at' = "recv"
           /\ hand' = <<>>
           /\ answer' = 0
           /\ UNCHANGED <<fd, backlog>>
  BY DEF SendAnswer
<1>2. /\ at = "send" /\ UNCHANGED clientVars /\ Listening
      /\ fit' = [fit EXCEPT ![fd] = @ /\ answer = 1]
  BY DEF SendAnswer, Listening
<1>3. PICK f \in Clients : f = fd
  BY <1>2, Parted DEF ServerInv
<1>4. TypeOK /\ conn[f].s.peerEnd \in Ends
  BY Parted, ClientTypes
<1>5. result # "sent" => conn[f].s.peerEnd # "open"
  BY <1>3, <1>4, SendFailsWhenGone
<1>6. fit' = [fit EXCEPT ![f] = @ /\ answer = 1]
  BY <1>2, <1>3
<1>7. CASE result \in {"sent", "error"}
  <2>1. /\ at' = "recv" /\ hand' = <<>> /\ answer' = 0
        /\ UNCHANGED <<fd, backlog, clientVars>>
    BY <1>1, <1>2, <1>7
  <2>2. conn' = [conn EXCEPT ![f] = Sent(@, "s", Answer)]
           \/ (conn[f].s.peerEnd # "open"
                 /\ conn' = [conn EXCEPT ![f] = Errored(@, "s")])
    BY <1>1, <1>3, <1>5, <1>7
  <2>3. QED
    BY <1>2, <1>3, <1>6, <2>1, <2>2, AnsweredKeeps
<1>8. CASE result = "killed"
  <2>1. conn[f].s.peerEnd = "rst" \/ conn[f].s.broken
    BY <1>3, <1>4, <1>5, <1>8 DEF SendResults, Ends
  <2>2. conn[f].s.peerEnd \in {"fin", "rst"}
    BY <1>4, <1>5, <1>8 DEF Ends
  <2>3. fd \in Clients /\ ~fit[fd]
    BY <1>2, <1>3, <2>1, <2>2, KilledUnfit
  <2>4. /\ fit' \in [Clients -> BOOLEAN] /\ \A d \in Clients : fit'[d] => fit[d]
        /\ ~fit'[fd]
    BY <1>3, <1>4, <1>6, <2>3 DEF TypeOK
  <2>5. ServerEnds("killed")
    BY <1>1, <1>8
  <2>6. QED
    BY <1>2, <2>3, <2>4, <2>5, EndsKeeps
<1>9. QED
  BY <1>1, <1>7, <1>8

LEMMA ServerCloseKeeps ==
  ASSUME IInv, ServerClose
  PROVE  IInv'
<1>1. /\ at = "close" /\ at' = "accept" /\ fd' = Nobody
      /\ conn' = [conn EXCEPT ![fd] = Closed(@, "s")]
      /\ UNCHANGED <<backlog, hand, answer, clientVars, fit>>
  BY DEF ServerClose
<1>2. PICK f \in Clients : f = fd
  BY <1>1, Parted DEF ServerInv
<1> DEFINE k == conn[f]
           r == conn'[f]
<1>3. /\ TypeOK /\ hand = <<>> /\ k.s.peerEnd # "open"
      /\ PlaceInv(f) /\ WordInv(f) /\ TurnInv(f)
  BY <1>1, <1>2, Parted DEF ServerInv
<1>4. k \in Connection(Parts) /\ Ended(f) /\ f # Nobody
  BY <1>3, RobotAssumption DEF TypeOK, PlaceInv
<1>5. r = Closed(k, "s") /\ (\A d \in Clients \ {f} : conn'[d] = conn[d])
  BY <1>1, <1>2, <1>3 DEF TypeOK
<1> HIDE DEF k, r
<1>6. /\ r \in Connection(Parts)
      /\ r.s.peerEnd = k.s.peerEnd /\ r.s.broken = k.s.broken
      /\ r.c.inbox = k.c.inbox
      /\ r.c.peerEnd # "open"
  BY <1>4, <1>5, ClosedByServer
<1>7. TypeOK'
  <2>1. conn' \in [Clients -> Connection(Parts)]
    BY <1>1, <1>2, <1>3, <1>5, <1>6 DEF TypeOK, r
  <2>2. QED
    BY <1>1, <1>3, <2>1 DEF TypeOK, clientVars
<1>8. ServerInv'
  BY <1>1, <1>3 DEF ServerInv
<1>9. /\ fd' = Nobody /\ asked' = asked /\ ends' = ends /\ heard' = heard
      /\ pc' = pc /\ backlog' = backlog /\ fit' = fit
  BY <1>1 DEF clientVars
<1>10. OrderInv(f)'
  BY <1>6 DEF OrderInv, Intact, r
<1>11. OpenInv(f)'
  <2>1. f \notin Range(backlog)
    <3>1. ASSUME NEW j \in DOMAIN backlog
          PROVE  backlog[j] # f
      BY <1>2, <1>3, Parted DEF QueueInv, TypeOK
    <3>2. QED
      BY <3>1 DEF Range
  <2>2. QED
    BY <1>4, <1>9, <2>1 DEF OpenInv, Ended
<1>12. PlaceInv(f)' /\ WordInv(f)' /\ TurnInv(f)'
  BY <1>3, <1>4, <1>6, <1>9 DEF PlaceInv, WordInv, TurnInv, Ended, Intact, k, r
<1>13. QED
  BY <1>1, <1>2, <1>5, <1>7, <1>8, <1>10, <1>11, <1>12, ServedStep
     DEF ClientInv, Listening

-------------------------------------------------------------------------------
(* The theorems about the service. *)

LEMMA InitKeeps ==
  ASSUME Init
  PROVE  IInv
<1>1. TypeOK
  <2>1. conn \in [Clients -> Connection(Parts)]
    BY NewConnectionType DEF Init
  <2>2. <<>> \in Seq(Parts) /\ <<>> \in Seq(Clients)
    OBVIOUS
  <2>3. QED
    BY <2>1, <2>2 DEF Init, TypeOK
<1>2. ServerInv /\ at # "killed"
  BY DEF Init, ServerInv
<1>3. QueueInv
  BY DEF Init, QueueInv
<1>4. ASSUME NEW c \in Clients
      PROVE  ClientInv(c)
  <2>1. /\ conn[c] = NewConnection /\ pc[c] = "connect"
        /\ asked[c] = 0 /\ ends[c] = {} /\ heard[c] = 0 /\ hand = <<>>
        /\ fd = Nobody /\ backlog = <<>> /\ c # fd
    BY RobotAssumption DEF Init
  <2>2. /\ conn[c].c.inbox = <<>> /\ conn[c].s.inbox = <<>>
        /\ conn[c].c.peerEnd = "open" /\ conn[c].s.peerEnd = "open"
        /\ ~conn[c].c.broken /\ ~conn[c].s.broken
    BY <2>1 DEF NewConnection, NewSide
  <2>3. Pending(c) = <<>> /\ Answers(c) = <<0>>
    BY <2>1, <2>2 DEF Pending, Answers
  <2>4. OrderInv(c)
    BY <2>1, <2>3 DEF OrderInv, Ordered
  <2>5. OpenInv(c)
    BY <2>2 DEF OpenInv, Intact
  <2>6. PlaceInv(c) /\ WordInv(c)
    BY <2>1, <2>2 DEF PlaceInv, WordInv
  <2>7. TurnInv(c)
    <3>1. OneWord(c)
      BY <2>3 DEF OneWord
    <3>2. QED
      BY <2>1, <2>2, <2>3, <3>1 DEF TurnInv, Ended
  <2>8. QED
    BY <2>4, <2>5, <2>6, <2>7 DEF ClientInv
<1>5. QED
  BY <1>1, <1>2, <1>3, <1>4 DEF IInv

LEMMA NextKeeps ==
  ASSUME IInv, [Next]_vars
  PROVE  IInv'
<1>1. ASSUME NEW c \in Clients, Client(c)
      PROVE  IInv'
  BY <1>1, RecvKeeps, MovesKeep, LeavesKeep, AskNothingKeeps, AskKeeps DEF Client
<1>2. ASSUME NEW c \in Clients, User(c)
      PROVE  IInv'
  BY <1>2, ConnectKeeps, AskKeeps, MovesKeep, LeavesKeep DEF User
<1>3. ASSUME Server
      PROVE  IInv'
  BY <1>3, AcceptKeeps, ServerRecvKeeps, AnswerOrEndKeeps, SendAnswerKeeps,
     ServerCloseKeeps DEF Server
<1>4. ASSUME AcceptFails \/ Throw \/ Interrupt
      PROVE  IInv'
  <2>1. PICK how \in {"exited", "thrown"} : ServerEnds(how)
    BY <1>4 DEF AcceptFails, Throw, Interrupt
  <2>2. UNCHANGED clientVars /\ fit' = fit /\ Listening
    BY <1>4 DEF AcceptFails, Throw, Interrupt, Listening
  <2>3. fit' \in [Clients -> BOOLEAN]
    BY <2>2, Parted DEF TypeOK
  <2>4. QED
    BY <2>1, <2>2, <2>3, EndsKeeps
<1>5. ASSUME UNCHANGED vars
      PROVE  IInv'
  <2>1. UNCHANGED <<serverVars, conn, clientVars, fit>>
    BY <1>5 DEF vars
  <2>2. TypeOK' /\ ServerInv' /\ QueueInv'
        /\ (at' = "killed" => fd' \in Clients /\ ~fit'[fd'])
    BY <2>1, Parted DEF TypeOK, ServerInv, QueueInv, serverVars, clientVars
  <2>3. ASSUME NEW c \in Clients
        PROVE  ClientInv(c)'
    <3>1. ClientInv(c) /\ (pc[c] = "connect" => c # fd)
      BY DEF IInv, ClientInv, PlaceInv
    <3>2. QED
      BY <2>1, <3>1, Untouched DEF serverVars, clientVars, Pending, Listening
  <2>4. QED
    BY <2>2, <2>3 DEF IInv
<1>6. QED
  BY <1>1, <1>2, <1>3, <1>4, <1>5 DEF Next, Rest

\* The inductive invariant holds in every reachable state, for any number of
\* clients and words and any lengths of the words and of the answers.
THEOREM Invariant == Spec => []IInv
<1>1. Init => IInv
  BY InitKeeps
<1>2. IInv /\ [Next]_vars => IInv'
  BY NextKeeps
<1>3. QED
  BY <1>1, <1>2, PTL DEF Spec

\* However long words and answers are and however TCP cuts the streams, the
\* parts of the words and the answers keep their order, and no part is answered
\* while it waits.
THEOREM Order == Spec => []InOrder
<1>1. IInv => InOrder
  BY Parted DEF InOrder, OrderInv
<1>2. QED
  BY <1>1, Invariant, PTL

\* A client that leaves ends the server with SIGPIPE only if a recv cut a word
\* of it or an answer to it was not one unit long.
THEOREM LengthKills == Spec => []KilledByLength
<1>1. IInv => KilledByLength
  BY DEF IInv, KilledByLength
<1>2. QED
  BY <1>1, Invariant, PTL

\* While no recv cuts a word and each answer comes whole in one recv, what a user
\* reads is the answer to the whole word just sent.
THEOREM AnswerToQuestion == Spec => OneQuestionOneAnswer
<1> DEFINE Turn == \A c \in Clients : Recv(c) /\ fit[c] => heard'[c] = asked[c]
<1>1. IInv => Turn
  <2> SUFFICES ASSUME IInv, NEW c \in Clients, Recv(c), fit[c]
               PROVE  heard'[c] = asked[c]
    OBVIOUS
  <2>1. PICK n \in Readable(conn[c].c) :
              heard' = [heard EXCEPT ![c] = Last(Chunk(conn[c].c, n))]
    BY DEF Recv
  <2>2. pc[c] = "recv" /\ TypeOK
    BY Parted DEF Recv
  <2>3. Chunk(conn[c].c, n) = <<asked[c]>>
    BY <2>2, FitAnswer
  <2>4. QED
    BY <2>1, <2>2, <2>3 DEF Last, TypeOK
<1>2. IInv /\ [Next]_vars => [Turn]_vars
  BY <1>1
<1> HIDE DEF Turn
<1>3. QED
  BY <1>2, Invariant, PTL DEF Spec, OneQuestionOneAnswer, Turn

-------------------------------------------------------------------------------
(* WeChatApi by itself: for any lifetimes and any run of the clock. *)

\* Before the first question nothing is signed.
LEMMA ApiBegins == ApiInit => ApiInv
<1> SUFFICES ASSUME ApiInit PROVE ApiInv
  OBVIOUS
<1>1. ApiTypeOK
  <2>1. refused \in BOOLEAN
    BY DEF ApiInit
  <2>2. reply \in [issued : Nat, lifetime : Lifetimes \cup {0}]
    BY DEF ApiInit
  <2>3. QED
    BY <2>1, <2>2 DEF ApiInit, ApiTypeOK, Steps, Unsigned
<1>2. StampInv /\ SignedInTime
  BY DEF ApiInit, StampInv, SignedInTime
<1>3. QED
  BY <1>1, <1>2 DEF ApiInv

\* Asking: with no fetch on record getAnswer signs first; otherwise it goes on
\* only while the recorded time is at most one lifetime old.
LEMMA AskInv ==
  ASSUME ApiInv, AskApi
  PROVE  ApiInv'
<1>1. ApiTypeOK'
  BY DEF ApiInv, ApiTypeOK, AskApi, Steps
<1>2. StampInv'
  BY DEF ApiInv, ApiTypeOK, StampInv, AskApi
<1>3. /\ now \in Nat /\ signature \in Nat /\ signatureTime \in Nat
      /\ expiresIn \in Nat
  BY WeChatAssumption DEF ApiInv, ApiTypeOK
<1>4. SignedInTime'
  <2> SUFFICES ASSUME step' = "query"
               PROVE  SignedInTime'
    BY DEF SignedInTime
  <2>1. signatureTime # 0 /\ now - signatureTime <= expiresIn
    BY <1>3 DEF AskApi, Expired
  <2>2. ~refused => signatureTime <= signature
    BY <2>1 DEF ApiInv, StampInv
  <2>3. QED
    BY <1>3, <2>1, <2>2 DEF SignedInTime, AskApi, Unsigned
<1>5. QED
  BY <1>1, <1>2, <1>4 DEF ApiInv

\* The service signs after getAnswer looked at the clock.
LEMMA IssueInv ==
  ASSUME ApiInv, Issue
  PROVE  ApiInv'
<1>1. PICK l \in Lifetimes : reply' = [issued |-> now, lifetime |-> l]
  BY DEF Issue
<1>2. QED
  BY <1>1, WeChatAssumption
  DEF ApiInv, ApiTypeOK, StampInv, SignedInTime, Issue, Steps

\* The signature was issued at or after the second that is recorded for it.
LEMMA SignOkInv ==
  ASSUME ApiInv, SignOk
  PROVE  ApiInv'
<1>1. /\ reply.issued \in Nat /\ reply.lifetime \in Lifetimes
      /\ curTime <= reply.issued /\ reply.issued <= now
      /\ curTime \in Nat /\ curTime # 0
      /\ reply.lifetime \in Nat
  BY WeChatAssumption DEF ApiInv, ApiTypeOK, StampInv, SignOk
<1>2. ApiTypeOK'
  BY <1>1 DEF ApiInv, ApiTypeOK, SignOk, Steps
<1>3. StampInv'
  BY <1>1 DEF ApiInv, ApiTypeOK, StampInv, SignOk
<1>4. SignedInTime'
  BY <1>1 DEF SignedInTime, SignOk, Unsigned
<1>5. QED
  BY <1>2, <1>3, <1>4 DEF ApiInv

\* A fetch that fails is recorded like one that succeeds.
LEMMA SignFailsInv ==
  ASSUME ApiInv, SignFails
  PROVE  ApiInv'
<1>1. expiresIn \in Nat
  BY WeChatAssumption DEF ApiInv, ApiTypeOK
<1>2. QED
  BY <1>1
  DEF ApiInv, ApiTypeOK, StampInv, SignedInTime, SignFails,
      Steps

\* SignedInTime holds together with the facts about the recorded time that it
\* rests on.
LEMMA ApiInvariant == ApiSpec => []ApiInv
<1>1. ApiInv /\ [ApiNext]_apiVars => ApiInv'
  <2> SUFFICES ASSUME ApiInv, [ApiNext]_apiVars PROVE ApiInv'
    OBVIOUS
  <2>1. CASE Tick
    BY <2>1 DEF ApiInv, ApiTypeOK, StampInv, SignedInTime, Tick
  <2>2. CASE QueryReturns
    BY <2>2 DEF ApiInv, ApiTypeOK, StampInv, SignedInTime,
                QueryReturns, Steps
  <2>3. CASE ApiThrow
    BY <2>3 DEF ApiInv, ApiTypeOK, StampInv, SignedInTime,
                ApiThrow, Steps
  <2>4. CASE UNCHANGED apiVars
    BY <2>4 DEF ApiInv, ApiTypeOK, StampInv, SignedInTime,
                apiVars
  <2>5. QED
    BY <2>1, <2>2, <2>3, <2>4, AskInv, IssueInv, SignOkInv,
       SignFailsInv DEF ApiNext
<1>2. QED
  BY <1>1, ApiBegins, PTL DEF ApiSpec

-------------------------------------------------------------------------------
(* The service with the WeChatApi it calls. *)

\* The call of getAnswer takes the place of the one step GetAnswer: the system
\* does nothing that RobotService does not do (the safety part of
\* ImplementsRobot).
THEOREM SystemIsService == SysSpec => Spec
<1>1. SysInit => Init
  BY DEF SysInit
<1>2. [SysNext]_sysVars => [Next]_vars
  <2> SUFFICES ASSUME SysNext \/ UNCHANGED sysVars
               PROVE  Next \/ UNCHANGED vars
    OBVIOUS
  <2>1. CASE Outside(\E c \in Clients : Client(c) \/ User(c))
    BY <2>1 DEF Outside, Next
  <2>2. CASE Outside(AcceptFails \/ Interrupt \/ Rest)
    BY <2>2 DEF Outside, Next
  <2>3. CASE Outside(Accept \/ ServerRecvEnd \/ SendAnswer \/ ServerClose)
    BY <2>3 DEF Outside, Next, Server
  <2>4. CASE ReceiveText
    BY <2>4 DEF ReceiveText, Next, Server
  <2>5. CASE Sign \/ TimePasses
    BY <2>5 DEF Sign, Calling, TimePasses
  <2>6. CASE Query
    BY <2>6 DEF Query, Next, Server
  <2>7. CASE SignThrows \/ QueryThrows
    BY <2>7 DEF SignThrows, QueryThrows, Next
  <2>8. CASE UNCHANGED sysVars
    BY <2>8 DEF sysVars
  <2>9. QED
    BY <2>1, <2>2, <2>3, <2>4, <2>5, <2>6, <2>7, <2>8
       DEF SysNext, SysServer, GetAnswerSteps
<1>3. QED
  BY <1>1, <1>2, PTL DEF SysSpec, Spec

\* The steps outside of getAnswer leave WeChatApi alone, and neither enter nor
\* leave the server's call of it, unless the server ends; while it is called, a
\* client may at most send a word.
LEMMA OutsideOfCall ==
  ASSUME \/ Outside(\E c \in Clients : Client(c) \/ User(c))
         \/ Outside(AcceptFails \/ Interrupt \/ Rest)
         \/ Outside(Accept \/ ServerRecvEnd \/ SendAnswer \/ ServerClose)
  PROVE  /\ UNCHANGED <<apiVars, until, valid, odd>>
         /\ \/ at' \in {at, "exited", "killed"}
            \/ at # "ask" /\ Listening /\ at' \in {"accept", "recv", "close"}
         /\ at = "thrown" => at' = "thrown"
         /\ at' = "ask" =>
               /\ fd' = fd /\ hand' = hand
               /\ ends' = ends \/ \E c \in Clients, l \in WordLengths : Ask(c, l)
<1>1. UNCHANGED <<apiVars, until, valid, odd>>
  BY DEF Outside
<1>2. \/ \E c \in Clients : Client(c) \/ User(c)
      \/ AcceptFails \/ Interrupt \/ Rest
      \/ Accept \/ ServerRecvEnd \/ SendAnswer \/ ServerClose
  BY DEF Outside
<1> DEFINE Apart == /\ at' = at /\ fd' = fd /\ hand' = hand
                    /\ \/ ends' = ends
                       \/ \E c \in Clients, l \in WordLengths : Ask(c, l)
<1>3. ASSUME NEW c \in Clients, Client(c) \/ User(c)
      PROVE  Apart
  <2>1. ASSUME NEW l \in WordLengths, Ask(c, l)
        PROVE  Apart
    BY <2>1 DEF Ask, serverVars
  <2>2. CASE Recv(c) \/ RecvNothing(c) \/ RecvFails(c) \/ Close(c) \/ AskNothing(c)
    BY <2>2 DEF Recv, RecvNothing, RecvFails, Close, AskNothing, serverVars
  <2>3. CASE Connect(c) \/ EndInput(c) \/ Exit(c) \/ Leave(c)
    BY <2>3 DEF Connect, EndInput, Exit, Leave, serverVars
  <2> HIDE DEF Apart
  <2>4. QED
    BY <1>3, <2>1, <2>2, <2>3 DEF Client, User
<1>4. ASSUME AcceptFails \/ Interrupt
      PROVE  at' = "exited" /\ Listening
  BY <1>4 DEF AcceptFails, Interrupt, ServerEnds, Listening
<1>5. ASSUME Rest
      PROVE  Apart
  BY <1>5 DEF Rest, vars, serverVars, clientVars
<1>6. ASSUME Accept \/ ServerRecvEnd \/ ServerClose
      PROVE  at # "ask" /\ Listening /\ at' \in {"accept", "recv", "close"}
  BY <1>6 DEF Accept, ServerRecvEnd, ServerClose, Listening
<1>7. ASSUME SendAnswer
      PROVE  at = "send" /\ at' \in {"recv", "killed"}
  <2>1. at' = "recv" \/ ServerEnds("killed")
    BY <1>7 DEF SendAnswer
  <2>2. QED
    BY <1>7, <2>1 DEF SendAnswer, ServerEnds
<1> HIDE DEF Apart
<1>8. \/ Apart
      \/ at' = "exited" /\ Listening
      \/ at # "ask" /\ Listening /\ at' \in {"accept", "recv", "close"}
      \/ at = "send" /\ at' \in {"recv", "killed"}
  BY <1>2, <1>3, <1>4, <1>5, <1>6, <1>7
<1>9. \/ at' \in {at, "exited", "killed"}
      \/ at # "ask" /\ Listening /\ at' \in {"accept", "recv", "close"}
  BY <1>8 DEF Listening, Apart
<1>10. at = "thrown" => at' = "thrown"
  BY <1>8 DEF Listening, Apart
<1>11. at' = "ask" => Apart
  BY <1>8
<1>12. QED
  BY <1>1, <1>9, <1>10, <1>11 DEF Apart

\* Of WeChatApi the system does only what WeChatApi does.
LEMMA SystemCallsApi == SysSpec => ApiSpec
<1>1. SysInit => ApiInit
  BY DEF SysInit
<1>2. [SysNext]_sysVars => [ApiNext]_apiVars
  <2> SUFFICES ASSUME SysNext \/ UNCHANGED sysVars
               PROVE  ApiNext \/ UNCHANGED apiVars
    OBVIOUS
  <2>1. CASE \/ Outside(\E c \in Clients : Client(c) \/ User(c))
             \/ Outside(AcceptFails \/ Interrupt \/ Rest)
             \/ Outside(Accept \/ ServerRecvEnd \/ SendAnswer \/ ServerClose)
    <3>1. UNCHANGED apiVars
      BY <2>1, OutsideOfCall
    <3>2. QED
      BY <3>1 DEF apiVars
  <2>2. CASE ReceiveText \/ UNCHANGED sysVars
    BY <2>2 DEF ReceiveText, sysVars, apiVars
  <2>3. CASE Sign
    BY <2>3 DEF Sign, Calling, ApiNext
  <2>4. CASE SignThrows \/ Query \/ QueryThrows \/ TimePasses
    BY <2>4 DEF SignThrows, Query, QueryThrows, TimePasses, ApiNext
  <2>5. QED
    BY <2>1, <2>2, <2>3, <2>4 DEF SysNext, SysServer, GetAnswerSteps
<1>3. QED
  BY <1>1, <1>2, PTL DEF SysSpec, ApiSpec

\* No question is put under a signature that had expired when getAnswer looked
\* at the clock, unless the last fetch failed: for any lifetimes, any run of the
\* clock and whatever else the system does.
THEOREM QuestionsAreSigned == SysSpec => []SignedInTime
<1>1. ApiInv => SignedInTime
  BY DEF ApiInv
<1>2. QED
  BY <1>1, SystemCallsApi, ApiInvariant, PTL

\* A word that is sent meanwhile does not end where the parts in hand do.
LEMMA WordsStayCut ==
  ASSUME IInv, at = "ask", NEW c \in Clients, NEW l \in WordLengths, Ask(c, l),
         Whole(fd, hand)'
  PROVE  Whole(fd, hand)
<1>1. /\ TypeOK /\ hand # <<>> /\ fd \in Clients
      /\ OrderInv(fd) /\ OpenInv(fd)
  BY Parted DEF ServerInv
<1>2. /\ fd' = fd /\ hand' = hand /\ pc[c] = "input"
      /\ ends' = [ends EXCEPT ![c] = @ \cup {asked[c] + l}]
  BY DEF Ask, serverVars
<1>3. /\ hand \in Seq(Nat) /\ Len(hand) \in Nat /\ Len(hand) > 0
      /\ conn[fd].s.inbox \in Seq(Nat)
      /\ asked[fd] \in Nat /\ l \in Nat /\ l > 0
  <2>1. hand \in Seq(Nat) /\ conn[fd].s.inbox \in Seq(Nat)
    BY <1>1, ClientTypes, PartsAreNumbers
  <2>2. Len(hand) \in Nat /\ Len(hand) > 0
    BY <1>1, <2>1
  <2>3. QED
    BY <1>1, <2>1, <2>2, ClientTypes, RobotAssumption
<1>4. CASE c # fd
  <2>1. ends'[fd] = ends[fd]
    BY <1>1, <1>2, <1>4 DEF TypeOK
  <2>2. QED
    BY <1>2, <2>1 DEF Whole
<1>5. CASE c = fd
  <2>1. Ordered(Pending(fd), Answers(fd), asked[fd])
    BY <1>1, <1>2, <1>5 DEF OpenInv, OrderInv, Listening
  <2>2. /\ Head(hand) \in Nat /\ Head(hand) <= asked[fd]
        /\ Last(hand) \in Nat /\ Last(hand) <= asked[fd]
    <3> DEFINE h == hand
               q == conn[fd].s.inbox
               p == Pending(fd)
               n == asked[fd]
    <3>1. /\ h \in Seq(Nat) /\ q \in Seq(Nat) /\ Len(h) \in Nat /\ Len(h) > 0
          /\ p = h \o q /\ n \in Nat
      BY <1>3 DEF Pending
    <3>2. \A k \in 1..Len(p) : p[k] = n - Len(p) + k
      BY <2>1 DEF Ordered
    <3> HIDE DEF h, q, p, n
    <3>3. /\ Len(p) = Len(h) + Len(q) /\ Len(q) \in Nat
          /\ p[1] = h[1] /\ p[Len(h)] = h[Len(h)]
      BY <3>1
    <3>4. 1 \in 1..Len(p) /\ Len(h) \in 1..Len(p)
      BY <3>1, <3>3
    <3>5. h[1] = n - Len(p) + 1 /\ h[Len(h)] = n - Len(p) + Len(h)
      BY <3>2, <3>3, <3>4
    <3>6. h[1] \in Nat /\ h[Len(h)] \in Nat
      BY <3>1
    <3>7. /\ h[1] \in Nat /\ h[1] <= n
          /\ h[Len(h)] \in Nat /\ h[Len(h)] <= n
      BY <3>1, <3>3, <3>5, <3>6
    <3>8. Head(h) = h[1] /\ Last(h) = h[Len(h)]
      BY <3>1 DEF Last
    <3>9. QED
      BY <3>7, <3>8 DEF h, n
  <2>3. ends'[fd] = ends[fd] \cup {asked[fd] + l}
    BY <1>1, <1>2, <1>5 DEF TypeOK
  <2>4. Last(hand) # asked[fd] + l /\ Head(hand) - 1 # asked[fd] + l
    BY <1>3, <2>2
  <2>5. QED
    BY <1>2, <2>3, <2>4 DEF Whole
<1>6. QED
  BY <1>4, <1>5

\* Where the server is and where its call of getAnswer is, what the service
\* accepts and what WeChatApi recorded, and what is not UTF-8 and who sent it or
\* where it was cut, go together.
Paired ==
    /\ until = signature + expiresIn
    /\ valid \in BOOLEAN /\ odd \in BOOLEAN
    /\ at # "ask" /\ Listening => step = "idle"
    /\ at = "thrown" <=> step = "terminated"

LEMMA PairedKeeps ==
  ASSUME TypeOK, Paired, ApiInv, [SysNext]_sysVars
  PROVE  Paired'
<1>1. CASE \/ Outside(\E c \in Clients : Client(c) \/ User(c))
           \/ Outside(AcceptFails \/ Interrupt \/ Rest)
           \/ Outside(Accept \/ ServerRecvEnd \/ SendAnswer \/ ServerClose)
  <2>1. /\ UNCHANGED <<apiVars, until, valid, odd>>
        /\ \/ at' \in {at, "exited", "killed"}
           \/ at # "ask" /\ Listening /\ at' \in {"accept", "recv", "close"}
        /\ at = "thrown" => at' = "thrown"
    BY <1>1, OutsideOfCall
  <2>2. step' = step /\ signature' = signature /\ expiresIn' = expiresIn
        /\ until' = until /\ valid' = valid /\ odd' = odd
    BY <2>1 DEF apiVars
  <2>3. at' = "thrown" <=> at = "thrown"
    BY <2>1 DEF Listening
  <2>4. at' # "ask" /\ Listening' => at # "ask" /\ Listening
    BY <2>1 DEF Listening
  <2>5. QED
    BY <2>2, <2>3, <2>4 DEF Paired
<1>2. CASE ReceiveText
  BY <1>2 DEF ReceiveText, ServerRecv, apiVars, Paired, Listening
<1>3. CASE Sign
  <2>1. at = "ask" /\ at' = at /\ valid' = valid /\ odd' = odd
        /\ step' \in {"sign", "reply", "query"}
    BY <1>3 DEF Sign, Calling, AskApi, Issue, SignFails, SignOk,
       vars, serverVars
  <2>2. until' = signature' + expiresIn'
    BY <1>3 DEF Sign, Calling, AskApi, Issue, SignFails, SignOk,
       Paired
  <2>3. QED
    BY <2>1, <2>2 DEF Paired, Listening
<1>4. CASE Query
  BY <1>4 DEF Query, GetAnswer, QueryReturns, Paired, Listening
<1>5. CASE SignThrows \/ QueryThrows
  <2>1. /\ at' = "thrown" /\ step' = "terminated"
        /\ until' = until /\ signature' = signature /\ expiresIn' = expiresIn
        /\ valid' = valid /\ odd' \in {odd, TRUE}
    BY <1>5 DEF SignThrows, QueryThrows, Throw, ServerEnds, ApiThrow
  <2>2. odd' \in BOOLEAN
    BY <2>1 DEF Paired
  <2>3. QED
    BY <2>1, <2>2 DEF Paired, Listening
<1>6. CASE TimePasses
  BY <1>6 DEF TimePasses, Tick, vars, serverVars, Paired, Listening
<1>7. CASE UNCHANGED sysVars
  BY <1>7 DEF sysVars, apiVars, vars, serverVars, Paired, Listening
<1>8. QED
  BY <1>1, <1>2, <1>3, <1>4, <1>5, <1>6, <1>7
     DEF SysNext, SysServer, GetAnswerSteps

\* What is in hand stays cut or foul for as long as getAnswer is called for it.
LEMMA ValidKeeps ==
  ASSUME IInv, ValidInv, [SysNext]_sysVars
  PROVE  ValidInv'
<1>1. CASE \/ Outside(\E c \in Clients : Client(c) \/ User(c))
           \/ Outside(AcceptFails \/ Interrupt \/ Rest)
           \/ Outside(Accept \/ ServerRecvEnd \/ SendAnswer \/ ServerClose)
  <2> SUFFICES ASSUME at' = "ask", ~valid', fd' \notin Foul, Whole(fd, hand)'
               PROVE  FALSE
    BY DEF ValidInv
  <2>1. /\ at = "ask" /\ fd' = fd /\ hand' = hand /\ valid' = valid
        /\ ends' = ends \/ \E c \in Clients, l \in WordLengths : Ask(c, l)
    BY <1>1, OutsideOfCall
  <2>2. CASE ends' = ends
    BY <2>1, <2>2 DEF ValidInv, Whole
  <2>3. CASE \E c \in Clients, l \in WordLengths : Ask(c, l)
    <3>1. Whole(fd, hand)
      BY <2>1, <2>3, WordsStayCut
    <3>2. QED
      BY <2>1, <3>1 DEF ValidInv
  <2>4. QED
    BY <2>1, <2>2, <2>3
<1>2. CASE ReceiveText
  <2>1. /\ fd' = fd /\ ends' = ends
        /\ ~valid' => fd \in Foul \/ ~Whole(fd, hand')
    BY <1>2 DEF ReceiveText, ServerRecv, clientVars
  <2>2. QED
    BY <2>1 DEF ValidInv, Whole
<1>3. CASE Sign \/ TimePasses \/ UNCHANGED sysVars
  <2>1. /\ at' = at /\ fd' = fd /\ hand' = hand /\ ends' = ends /\ valid' = valid
    BY <1>3 DEF Sign, Calling, TimePasses, sysVars, vars, serverVars, clientVars
  <2>2. QED
    BY <2>1 DEF ValidInv, Whole
<1>4. CASE Query \/ SignThrows \/ QueryThrows
  <2>1. at' # "ask"
    BY <1>4 DEF Query, GetAnswer, SignThrows, QueryThrows, Throw, ServerEnds
  <2>2. QED
    BY <2>1 DEF ValidInv
<1>5. QED
  BY <1>1, <1>2, <1>3, <1>4 DEF SysNext, SysServer, GetAnswerSteps

\* The server's loop, its call of getAnswer and the service never come apart.
THEOREM SystemInvariant == SysSpec => []SysInv
<1>1. SysInit => Paired /\ ValidInv
  <2> SUFFICES ASSUME SysInit
               PROVE  Paired /\ ValidInv
    OBVIOUS
  <2>1. /\ at = "accept" /\ step = "idle" /\ valid = TRUE /\ odd = FALSE
        /\ until = 0 /\ signature = 0 /\ expiresIn = 0
    BY DEF SysInit, Init, ApiInit, Unsigned
  <2>2. valid \in BOOLEAN /\ odd \in BOOLEAN
    BY <2>1
  <2>3. QED
    BY <2>1, <2>2 DEF Paired, ValidInv
<1>2. TypeOK /\ Paired /\ ApiInv /\ [SysNext]_sysVars => Paired'
  BY PairedKeeps
<1>3. IInv /\ ValidInv /\ [SysNext]_sysVars => ValidInv'
  BY ValidKeeps
<1>4. IInv => TypeOK
  BY Parted
<1>5. TypeOK /\ Paired /\ ApiInv /\ ValidInv => SysInv
  <2> SUFFICES ASSUME TypeOK, Paired, ApiInv, ValidInv
               PROVE  SysInv
    OBVIOUS
  <2>1. ApiTypeOK
    BY DEF ApiInv
  <2>2. signature \in Nat /\ expiresIn \in Nat
    BY <2>1, WeChatAssumption DEF ApiTypeOK
  <2>3. QED
    BY <2>1, <2>2 DEF SysInv, SysTypeOK, Paired
<1>6. QED
  BY <1>1, <1>2, <1>3, <1>4, <1>5, SystemIsService, Invariant,
     SystemCallsApi, ApiInvariant, PTL
     DEF SysSpec

\* While the service keeps its rule, what WeChatApi throws has a cause outside of
\* it: while the fetch worked, the signature outlives the second in which
\* getAnswer looked at the clock, and what is not UTF-8 was sent so or cut.
THEOREM ThrowsHaveCauses == SysSpec => ThrownExplained
<1> DEFINE Caused == at # "thrown" /\ at' = "thrown" =>
                        odd' \/ fd \in Foul \/ ~Whole(fd, hand)
                           \/ refused \/ now > curTime
<1>1. SysInv /\ [SysNext]_sysVars => [Caused]_sysVars
  <2> SUFFICES ASSUME SysInv, SysNext, at # "thrown", at' = "thrown",
                      ~odd', fd \notin Foul, Whole(fd, hand), ~refused
               PROVE  now > curTime
    OBVIOUS
  <2>1. ~(\/ Outside(\E c \in Clients : Client(c) \/ User(c))
          \/ Outside(AcceptFails \/ Interrupt \/ Rest)
          \/ Outside(Accept \/ ServerRecvEnd \/ SendAnswer \/ ServerClose))
    BY OutsideOfCall
  <2>2. ~ReceiveText /\ ~Sign /\ ~SignThrows /\ ~Query /\ ~TimePasses
    BY DEF ReceiveText, ServerRecv, Sign, SignThrows, Calling, Query, GetAnswer,
       TimePasses, vars, serverVars
  <2>3. step = "query" /\ now > until
    <3>1. QueryThrows
      BY <2>1, <2>2 DEF SysNext, SysServer, GetAnswerSteps
    <3>2. at = "ask"
      BY <3>1 DEF QueryThrows, Throw
    <3>3. valid
      BY <3>2 DEF SysInv, ValidInv
    <3>4. now \in Nat /\ until \in Nat
      BY DEF SysInv, SysTypeOK, ApiTypeOK
    <3>5. QED
      BY <3>1, <3>3, <3>4 DEF QueryThrows, Live
  <2>4. curTime - signature <= expiresIn /\ until = signature + expiresIn
    BY <2>3 DEF SysInv, ApiInv, SignedInTime
  <2>5. /\ now \in Nat /\ curTime \in Nat /\ signature \in Nat
        /\ expiresIn \in Nat
    BY WeChatAssumption DEF SysInv, SysTypeOK, ApiTypeOK
  <2>6. QED
    BY <2>3, <2>4, <2>5
<1> HIDE DEF Caused
<1>2. QED
  BY <1>1, SystemInvariant, PTL DEF SysSpec, ThrownExplained, Caused
================================================================================
