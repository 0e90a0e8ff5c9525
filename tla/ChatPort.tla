------------------------------- MODULE ChatPort -------------------------------
(***************************************************************************)
(* How the chat programs name each other on one host: main draws a port,   *)
(* announces it, and binds its 16-bit form; a peer types a port it was     *)
(* told, or the port printed in front of a received text.                  *)
(***************************************************************************)
EXTENDS Integers

CONSTANTS
    Procs,      \* the chat processes
    Rands,      \* what rand() returns in this instance
    Ephemeral   \* the ports the kernel picks from when asked for port 0

UINT16_MAX == 65535
Ports      == {port \in Nat : port <= UINT16_MAX}
NoPort     == 0             \* not bound

ASSUME RandsAssumption == Rands \subseteq Nat
ASSUME EphemeralAssumption == Ephemeral \subseteq Ports \ {NoPort}

\* main: int random_port = rand() % UINT16_MAX + 3000
RandomPort(r) == (r % UINT16_MAX) + 3000

\* htons takes a uint16_t: the int is cut to 16 bits.
Low16(i) == i % (UINT16_MAX + 1)

\* Mutant: only the low byte is converted.
SwapBytesLow(i) == (i % 256) * 256

\* The port as an int of the host, of sin_port left in network byte order.
SwapBytes(i) == (i % 256) * 256 + (i \div 256)

\* Mutant: the upper bound is missing.
PortAcceptedAny(i) == i > 0

\* main: if (remote_port <= 0 || remote_port >= UINT16_MAX) refuse
PortAccepted(i) == i > 0 /\ i < UINT16_MAX

VARIABLES
    announced,  \* "your port is": what each user tells the others, 0 before
    bound,      \* the port the kernel bound, NoPort before and after
    seen,       \* endpoints printed by each process: [from, port]
    last        \* the last text sent: whom its user meant, the port he typed,
                \* where he had it from, whether the one he meant was up, and
                \* the processes bound to the port it went to

vars == <<announced, bound, seen, last>>

Sources == {"nowhere", "announced", "printed"}

TypeOK ==
    /\ announced \in [Procs -> Nat]
    /\ bound \in [Procs -> Ports]
    /\ seen \in [Procs -> SUBSET [from : Procs, port : Ports]]
    /\ last \in [to : Procs, port : Nat, via : Sources, up : BOOLEAN,
                 hit : SUBSET Procs]

Init ==
    /\ announced = [p \in Procs |-> 0]
    /\ bound = [p \in Procs |-> NoPort]
    /\ seen = [p \in Procs |-> {}]
    /\ last \in [to : Procs, port : {0}, via : {"nowhere"}, up : {FALSE},
                 hit : {{}}]

\* bind refuses a port that is in use.
Free(port) == \A q \in Procs : bound[q] # port

\* srand, rand, the announcement and listen.  Asked for port 0 the kernel
\* picks one; a taken port ends the program.
Start(p, r) ==
    LET port == Low16(RandomPort(r)) IN
    /\ announced[p] = 0
    /\ announced' = [announced EXCEPT ![p] = RandomPort(r)]
    /\ IF port = 0
       THEN \E e \in Ephemeral :
               Free(e) /\ bound' = [bound EXCEPT ![p] = e]
       ELSE bound' = IF Free(port) THEN [bound EXCEPT ![p] = port] ELSE bound
    /\ UNCHANGED <<seen, last>>

Reached(port) == {q \in Procs : bound[q] = Low16(port)}

\* The receiver prints the sender as inet_ntoa(..) and to_string(sin_port).
Printed(p) == [from |-> p, port |-> SwapBytes(bound[p])]

\* The user of p means q and types a port that is not refused.
SendTo(p, q, port, via) ==
    /\ bound[p] # NoPort
    /\ PortAccepted(port)
    /\ last' = [to |-> q, port |-> port, via |-> via,
                up |-> bound[q] # NoPort, hit |-> Reached(port)]
    /\ seen' = [r \in Procs |-> IF r \in Reached(port)
                                THEN seen[r] \cup {Printed(p)}
                                ELSE seen[r]]
    /\ UNCHANGED <<announced, bound>>

SendAnnounced(p, q) ==
    announced[q] # 0 /\ SendTo(p, q, announced[q], "announced")

Reply(p) == \E s \in seen[p] : SendTo(p, s.from, s.port, "printed")

\* The program ends; its port may be bound by another one.
Leave(p) ==
    /\ bound[p] # NoPort
    /\ bound' = [bound EXCEPT ![p] = NoPort]
    /\ UNCHANGED <<announced, seen, last>>

Next == \E p \in Procs : \/ \E r \in Rands : Start(p, r)
                         \/ \E q \in Procs : SendAnnounced(p, q)
                         \/ Reply(p)
                         \/ Leave(p)

Spec == Init /\ [][Next]_vars

-------------------------------------------------------------------------------
(* Properties. *)

\* Typing the port a running peer announced reaches that peer and nobody else,
\* though the announced int, the uint16_t bound and the check of the console
\* disagree about which ports exist: what the check lets through is what was
\* bound.  (An announced port of 65535 or more reaches nobody.)
AnnouncedReaches == last.via = "announced" /\ last.up => last.hit = {last.to}

\* Two running peers are never printed with the same port, though it is the
\* wrong one: the endpoint in front of a text still tells who sent it.
PrintedIdentifies ==
    \A p \in Procs : \A s, t \in seen[p] :
        /\ bound[s.from] # NoPort
        /\ bound[t.from] # NoPort
        /\ s.port = t.port
        => s.from = t.from

-------------------------------------------------------------------------------
(* The inductive invariant. *)

PortInv ==
    /\ \A p, q \in Procs : bound[p] = bound[q] /\ bound[p] # NoPort => p = q
    /\ \A p \in Procs :
          /\ announced[p] = 0 => bound[p] = NoPort
          /\ bound[p] # NoPort /\ announced[p] <= UINT16_MAX
                => bound[p] = announced[p]
    /\ \A p \in Procs : \A s \in seen[p] :
          bound[s.from] # NoPort => s.port = SwapBytes(bound[s.from])
    /\ \A p \in Procs : \A s \in seen[p] : announced[s.from] # 0

IInv == TypeOK /\ PortInv /\ AnnouncedReaches

-------------------------------------------------------------------------------
(* A statement of the documents that the code does not keep. *)

\* 2-project-p2p.md, the sample sessions: a text printed as coming from a
\* port is answered by typing that port.
PrintedReaches == last.via = "printed" /\ last.up => last.hit = {last.to}
===============================================================================
