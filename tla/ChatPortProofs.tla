---------------------------- MODULE ChatPortProofs ----------------------------
(***************************************************************************)
(* Proofs about ChatPort, for any number of processes and any draw.        *)
(***************************************************************************)
EXTENDS ChatPort, TLAPS

\* Cutting to 16 bits yields a port, and changes no port.
LEMMA Low16Port ==
  ASSUME NEW i \in Nat
  PROVE  Low16(i) \in Ports /\ (i \in Ports => Low16(i) = i)
  BY DEF Low16, Ports, UINT16_MAX

\* What main announces is a port the user may see, never 0.
LEMMA RandomPortRange ==
  ASSUME NEW r \in Nat
  PROVE  RandomPort(r) \in Nat /\ RandomPort(r) # 0
  BY DEF RandomPort, UINT16_MAX

\* The byte-swapped form of a port is a port, and tells two ports apart.
LEMMA SwapBytesPort ==
  ASSUME NEW i \in Ports
  PROVE  SwapBytes(i) \in Ports
<1>1. i % 256 \in Nat /\ i % 256 <= 255
  BY DEF Ports, UINT16_MAX
<1>2. i \div 256 \in Nat /\ i \div 256 <= 255
  BY DEF Ports, UINT16_MAX
<1>3. QED
  BY <1>1, <1>2 DEF SwapBytes, Ports, UINT16_MAX

LEMMA SwapBytesInjective ==
  ASSUME NEW i \in Ports, NEW j \in Ports, SwapBytes(i) = SwapBytes(j)
  PROVE  i = j
  BY DEF SwapBytes, Ports, UINT16_MAX

\* A started program is bound to what it announced, cut to 16 bits, to a port
\* the kernel chose, or to nothing.
LEMMA StartBinds ==
  ASSUME TypeOK, NEW p \in Procs, NEW r \in Rands, Start(p, r)
  PROVE  /\ r \in Nat
         /\ \E b \in Ports :
               /\ bound' = [bound EXCEPT ![p] = b]
               /\ b # bound[p] => Free(b)
               /\ b # bound[p] /\ RandomPort(r) <= UINT16_MAX
                     => b = RandomPort(r)
<1>1. r \in Nat
  BY RandsAssumption
<1> DEFINE port == Low16(RandomPort(r))
<1>2. port \in Ports
  BY <1>1, RandomPortRange, Low16Port
<1>3. RandomPort(r) <= UINT16_MAX => port = RandomPort(r) /\ port # 0
  BY <1>1, RandomPortRange, Low16Port DEF Ports
<1>4. CASE port = 0
  <2>1. PICK e \in Ephemeral : Free(e) /\ bound' = [bound EXCEPT ![p] = e]
    BY <1>4 DEF Start
  <2>2. e \in Ports
    BY EphemeralAssumption
  <2>3. QED
    BY <1>1, <1>3, <1>4, <2>1, <2>2
<1>5. CASE port # 0 /\ Free(port)
  BY <1>1, <1>2, <1>3, <1>5 DEF Start
<1>6. CASE port # 0 /\ ~Free(port)
  <2>1. bound' = [bound EXCEPT ![p] = bound[p]] /\ bound[p] \in Ports
    BY <1>6 DEF Start, TypeOK
  <2>2. QED
    BY <1>1, <2>1
<1>7. QED
  BY <1>4, <1>5, <1>6

\* What a program prints about a peer is a process and a port.
LEMMA PrintedType ==
  ASSUME TypeOK, NEW p \in Procs
  PROVE  Printed(p) \in [from : Procs, port : Ports]
  BY SwapBytesPort DEF Printed, TypeOK

-------------------------------------------------------------------------------
(* Every variable keeps its type. *)

LEMMA InitType == Init => TypeOK
<1> SUFFICES ASSUME Init PROVE TypeOK
  OBVIOUS
<1>1. 0 \in Ports
  BY DEF Ports, UINT16_MAX
<1>2. last \in [to : Procs, port : Nat, via : Sources, up : BOOLEAN,
                hit : SUBSET Procs]
  <2>1. PICK q \in Procs : last = [to |-> q, port |-> 0, via |-> "nowhere",
                                  up |-> FALSE, hit |-> {}]
    BY DEF Init
  <2>2. QED
    BY <2>1 DEF Sources
<1>3. QED
  BY <1>1, <1>2 DEF Init, TypeOK, NoPort

LEMMA SendKeepsType ==
  ASSUME TypeOK, NEW p \in Procs, NEW q \in Procs, NEW port \in Nat,
         NEW via \in Sources, SendTo(p, q, port, via)
  PROVE  TypeOK'
<1>1. seen' \in [Procs -> SUBSET [from : Procs, port : Ports]]
  BY PrintedType DEF SendTo, TypeOK
<1>2. last' \in [to : Procs, port : Nat, via : Sources, up : BOOLEAN,
                 hit : SUBSET Procs]
  BY DEF SendTo, Reached
<1>3. QED
  BY <1>1, <1>2 DEF SendTo, TypeOK

\* TypeOK is an invariant: in particular whatever rand() returns is bound as
\* a 16-bit port (htons in listen), and byte-swapping yields one.
THEOREM TypeCorrect == Spec => []TypeOK
<1>1. Init => TypeOK
  BY InitType
<1>2. TypeOK /\ [Next]_vars => TypeOK'
  <2> SUFFICES ASSUME TypeOK, [Next]_vars PROVE TypeOK'
    OBVIOUS
  <2>1. ASSUME NEW p \in Procs, NEW r \in Rands, Start(p, r) PROVE TypeOK'
    <3>1. announced' \in [Procs -> Nat]
      BY <2>1, StartBinds, RandomPortRange DEF Start, TypeOK
    <3>2. bound' \in [Procs -> Ports]
      BY <2>1, StartBinds DEF TypeOK
    <3>3. QED
      BY <2>1, <3>1, <3>2 DEF Start, TypeOK
  <2>2. ASSUME NEW p \in Procs, NEW q \in Procs, SendAnnounced(p, q)
        PROVE  TypeOK'
    BY <2>2, SendKeepsType DEF SendAnnounced, TypeOK, Sources
  <2>3. ASSUME NEW p \in Procs, Reply(p) PROVE TypeOK'
    <3>1. PICK s \in seen[p] : SendTo(p, s.from, s.port, "printed")
      BY <2>3 DEF Reply
    <3>2. s.from \in Procs /\ s.port \in Nat
      BY DEF TypeOK, Ports
    <3>3. QED
      BY <3>1, <3>2, SendKeepsType DEF Sources
  <2>4. ASSUME NEW p \in Procs, Leave(p) PROVE TypeOK'
    BY <2>4 DEF Leave, TypeOK, Ports, UINT16_MAX, NoPort
  <2>5. CASE UNCHANGED vars
    BY <2>5 DEF vars, TypeOK
  <2>6. QED
    BY <2>1, <2>2, <2>3, <2>4, <2>5 DEF Next
<1>3. QED
  BY <1>1, <1>2, PTL DEF Spec

-------------------------------------------------------------------------------
(* Who is bound where, and what was printed. *)

LEMMA StartKeepsPorts ==
  ASSUME TypeOK, PortInv, NEW p \in Procs, NEW r \in Rands, Start(p, r)
  PROVE  PortInv'
<1>1. PICK b \in Ports :
          /\ bound' = [bound EXCEPT ![p] = b]
          /\ b # bound[p] => Free(b)
          /\ b # bound[p] /\ RandomPort(r) <= UINT16_MAX => b = RandomPort(r)
  BY StartBinds
<1>2. announced[p] = 0 /\ bound[p] = NoPort
  BY DEF Start, PortInv
<1>3. announced' = [announced EXCEPT ![p] = RandomPort(r)] /\ RandomPort(r) # 0
  BY StartBinds, RandomPortRange DEF Start
<1>4. \A q, s \in Procs : bound'[q] = bound'[s] /\ bound'[q] # NoPort => q = s
  BY <1>1, <1>2 DEF PortInv, Free, TypeOK
<1>5. \A q \in Procs :
          /\ announced'[q] = 0 => bound'[q] = NoPort
          /\ bound'[q] # NoPort /\ announced'[q] <= UINT16_MAX
                => bound'[q] = announced'[q]
  BY <1>1, <1>2, <1>3 DEF PortInv, TypeOK
<1>6. \A q \in Procs : \A s \in seen[q] :
          s.from \in Procs /\ s.from # p
  BY <1>2 DEF PortInv, TypeOK
<1>7. seen' = seen
  BY DEF Start
<1>8. \A q \in Procs : \A s \in seen'[q] :
          /\ bound'[s.from] # NoPort => s.port = SwapBytes(bound'[s.from])
          /\ announced'[s.from] # 0
  <2>1. \A q \in Procs : \A s \in seen[q] :
            bound'[s.from] = bound[s.from] /\ announced'[s.from] = announced[s.from]
    BY <1>1, <1>3, <1>6 DEF TypeOK
  <2>2. QED
    BY <1>7, <2>1 DEF PortInv
<1>9. QED
  BY <1>4, <1>5, <1>8 DEF PortInv

LEMMA SendKeepsPorts ==
  ASSUME TypeOK, PortInv, NEW p \in Procs, NEW q \in Procs, NEW port \in Nat,
         NEW via \in Sources, SendTo(p, q, port, via)
  PROVE  PortInv'
<1>1. announced' = announced /\ bound' = bound
  BY DEF SendTo
<1>2. announced[p] # 0
  BY DEF SendTo, PortInv
<1>3. \A r \in Procs : \A s \in seen'[r] : s \in seen[r] \/ s = Printed(p)
  BY DEF SendTo
<1>4. \A r \in Procs : \A s \in seen'[r] :
          /\ bound'[s.from] # NoPort => s.port = SwapBytes(bound'[s.from])
          /\ announced'[s.from] # 0
  BY <1>1, <1>2, <1>3 DEF PortInv, Printed
<1>5. QED
  BY <1>1, <1>4 DEF PortInv

LEMMA LeaveKeepsPorts ==
  ASSUME TypeOK, PortInv, NEW p \in Procs, Leave(p)
  PROVE  PortInv'
<1>1. announced' = announced /\ seen' = seen
  BY DEF Leave
<1>2. \A q \in Procs : bound'[q] = NoPort \/ bound'[q] = bound[q]
  BY DEF Leave, TypeOK
<1>3. \A q \in Procs : \A s \in seen[q] : s.from \in Procs
  BY DEF TypeOK
<1>4. QED
  BY <1>1, <1>2, <1>3 DEF PortInv

-------------------------------------------------------------------------------
(* The announced port reaches the process that announced it. *)

LEMMA SendAnnouncedReaches ==
  ASSUME TypeOK, PortInv, NEW p \in Procs, NEW q \in Procs, SendAnnounced(p, q)
  PROVE  AnnouncedReaches'
<1> SUFFICES ASSUME bound[q] # NoPort
             PROVE  Reached(announced[q]) = {q}
  BY DEF SendAnnounced, SendTo, AnnouncedReaches
<1>1. announced[q] \in Nat /\ announced[q] <= UINT16_MAX
  BY DEF SendAnnounced, SendTo, PortAccepted, TypeOK, UINT16_MAX
<1>2. Low16(announced[q]) = announced[q]
  BY <1>1, Low16Port DEF Ports
<1>3. bound[q] = announced[q]
  BY <1>1 DEF PortInv
<1>4. \A r \in Procs : bound[r] = announced[q] => r = q
  BY <1>3 DEF PortInv
<1>5. QED
  BY <1>2, <1>3, <1>4 DEF Reached

\* IInv is an invariant: no two running programs share a port, a program whose
\* announced port fits 16 bits is bound to just that, and what a peer printed
\* about a running program is the byte-swapped form of its port.
THEOREM Inductive == Spec => []IInv
<1>1. Init => IInv
  <2>1. Init => PortInv /\ AnnouncedReaches
    BY DEF Init, PortInv, AnnouncedReaches, NoPort
  <2>2. QED
    BY <2>1, InitType DEF IInv
<1>2. TypeOK /\ TypeOK' /\ PortInv /\ AnnouncedReaches /\ [Next]_vars
        => PortInv' /\ AnnouncedReaches'
  <2> SUFFICES ASSUME TypeOK, TypeOK', PortInv, AnnouncedReaches, [Next]_vars
               PROVE  PortInv' /\ AnnouncedReaches'
    OBVIOUS
  <2>1. ASSUME NEW p \in Procs, NEW r \in Rands, Start(p, r)
        PROVE  PortInv' /\ AnnouncedReaches'
    BY <2>1, StartKeepsPorts DEF Start, AnnouncedReaches
  <2>2. ASSUME NEW p \in Procs, NEW q \in Procs, SendAnnounced(p, q)
        PROVE  PortInv' /\ AnnouncedReaches'
    BY <2>2, SendKeepsPorts, SendAnnouncedReaches
       DEF SendAnnounced, TypeOK, Sources
  <2>3. ASSUME NEW p \in Procs, Reply(p)
        PROVE  PortInv' /\ AnnouncedReaches'
    <3>1. PICK s \in seen[p] : SendTo(p, s.from, s.port, "printed")
      BY <2>3 DEF Reply
    <3>2. s.from \in Procs /\ s.port \in Nat
      BY DEF TypeOK, Ports
    <3>3. QED
      BY <3>1, <3>2, SendKeepsPorts DEF Sources, SendTo, AnnouncedReaches
  <2>4. ASSUME NEW p \in Procs, Leave(p)
        PROVE  PortInv' /\ AnnouncedReaches'
    BY <2>4, LeaveKeepsPorts DEF Leave, AnnouncedReaches
  <2>5. CASE UNCHANGED vars
    BY <2>5 DEF vars, PortInv, AnnouncedReaches
  <2>6. QED
    BY <2>1, <2>2, <2>3, <2>4, <2>5 DEF Next
<1>3. QED
  BY <1>1, <1>2, TypeCorrect, PTL DEF Spec, IInv

\* AnnouncedReaches is an invariant: typing the port a running peer announced
\* (udp_chat.cpp, main) reaches that peer and nobody else.
THEOREM AnnouncedPortReaches == Spec => []AnnouncedReaches
  BY Inductive, PTL DEF IInv

\* PrintedIdentifies is an invariant: the endpoint onHandle prints, wrong as
\* its port is, still tells two running peers apart.
THEOREM PrintedPortIdentifies == Spec => []PrintedIdentifies
<1>1. IInv => PrintedIdentifies
  <2> SUFFICES ASSUME IInv, NEW p \in Procs,
                      NEW s \in seen[p], NEW t \in seen[p],
                      bound[s.from] # NoPort, bound[t.from] # NoPort,
                      s.port = t.port
               PROVE  s.from = t.from
    BY DEF PrintedIdentifies
  <2>1. /\ s.from \in Procs /\ t.from \in Procs
        /\ bound[s.from] \in Ports /\ bound[t.from] \in Ports
    BY DEF IInv, TypeOK
  <2>2. SwapBytes(bound[s.from]) = SwapBytes(bound[t.from])
    BY DEF IInv, PortInv
  <2>3. bound[s.from] = bound[t.from]
    BY <2>1, <2>2, SwapBytesInjective
  <2>4. QED
    BY <2>1, <2>3 DEF IInv, PortInv
<1>2. QED
  BY <1>1, Inductive, PTL
===============================================================================
