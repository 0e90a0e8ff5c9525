----------------------------- MODULE ChatConsole -----------------------------
(***************************************************************************)
(* The console loop of the chat programs: one line of standard input per   *)
(* iteration, read with getline into char input[200], split into address,  *)
(* port and text, and sent.  A line is described by the lengths of its     *)
(* parts.  The three versions of the program differ in the words they       *)
(* require.                                                                *)
(***************************************************************************)
EXTENDS Integers, Sequences

CONSTANTS
    Lines,      \* the lines the users may type
    MaxTyped    \* bound: lines typed and not yet read

Capacity == 199     \* what getline stores at most: sizeof(input) - 1

\* A line: blanks, address, blanks, port, blanks, text, blanks.  An absent
\* part has length 0.
LineType ==
    [lead : Nat, ip : Nat, gap1 : Nat, port : Nat, gap2 : Nat,
     text : Nat, trail : Nat,
     exit : BOOLEAN,        \* it reads "exit"
     portOk : BOOLEAN,      \* 0 < atoi(port) < UINT16_MAX, for what is stored
     ipOk : BOOLEAN]        \* inet_addr yields an address one may send to

PortAt(l)  == l.lead + l.ip + l.gap1
PortEnd(l) == PortAt(l) + l.port
TextAt(l)  == PortEnd(l) + l.gap2
TextEnd(l) == TextAt(l) + l.text
Length(l)  == TextEnd(l) + l.trail

Least(x, y) == IF x < y THEN x ELSE y

\* Parts come in order and apart from each other.
WellFormed(l) ==
    /\ l.port > 0 => l.ip > 0 /\ l.gap1 > 0
    /\ l.text > 0 => l.port > 0 /\ l.gap2 > 0
    /\ l.exit => Length(l) = 4 /\ l.ip = 4

ASSUME LinesAssumption ==
    /\ Lines \subseteq {l \in LineType : WellFormed(l)}
    /\ MaxTyped \in Nat

VARIABLES
    version,    \* of the program that runs: 1, 2 or 3
    typed,      \* lines waiting in standard input
    eof,        \* has the user closed standard input?
    stream,     \* state of std::cin
    pc,         \* main: in its loop, left it, or ended by an exception
    sends       \* what was handed to sendto: bytes from..upto of a line

vars == <<version, typed, eof, stream, pc, sends>>

SendType == [line : Lines, from : Nat, upto : Nat]

TypeOK ==
    /\ version \in {1, 2, 3}
    /\ typed \in Seq(Lines)
    /\ eof \in BOOLEAN
    /\ stream \in {"good", "failed"}
    /\ pc \in {"loop", "left", "crashed"}
    /\ sends \subseteq SendType

Init ==
    /\ version \in {1, 2, 3}
    /\ typed = <<>>
    /\ eof = FALSE
    /\ stream = "good"
    /\ pc = "loop"
    /\ sends = {}

-------------------------------------------------------------------------------
(* The user. *)

Type(l) ==
    /\ ~eof
    /\ Len(typed) < MaxTyped
    /\ typed' = Append(typed, l)
    /\ UNCHANGED <<version, eof, stream, pc, sends>>

CloseInput ==
    /\ ~eof
    /\ eof' = TRUE
    /\ UNCHANGED <<version, typed, stream, pc, sends>>

-------------------------------------------------------------------------------
(* One iteration of the loop. *)

\* getline: a line that does not fit leaves its first Capacity characters and
\* failbit; no later getline on this stream reads anything.
GetLine(l) ==
    /\ pc = "loop"
    /\ stream = "good"
    /\ typed # <<>>
    /\ l = Head(typed)
    /\ typed' = Tail(typed)
    /\ stream' = IF Length(l) > Capacity THEN "failed" ELSE "good"
    /\ UNCHANGED <<version, eof>>

Stored(l) == Least(Length(l), Capacity)

\* What is stored of a part of n characters that begins at this place.
Kept(place, n) ==
    IF place >= Capacity THEN 0 ELSE Least(n, Capacity - place)

KeptIp(l)   == Kept(l.lead, l.ip)
KeptPort(l) == Kept(PortAt(l), l.port)
KeptText(l) == Kept(TextAt(l), l.text)

\* split sees what is stored.
Words(l) == (IF KeptIp(l) > 0 THEN 1 ELSE 0) + (IF KeptPort(l) > 0 THEN 1 ELSE 0)
            + (IF KeptText(l) > 0 THEN 1 ELSE 0)

\* arr.size() < 2 in version 1, < 3 in the others.
MinWords == IF version = 1 THEN 2 ELSE 3

\* Mutant: the check counts one word too few.
AcceptedShort(l) == ~l.exit /\ Words(l) >= MinWords - 1 /\ l.portOk

Accepted(l) == ~l.exit /\ Words(l) >= MinWords /\ l.portOk

\* Mutant: one blank too many.
OffsetThreeBlanks(l) == KeptIp(l) + KeptPort(l) + 3

\* Where the code takes the text to begin: one blank after each word.
Offset(l) == KeptIp(l) + KeptPort(l) + 2

\* Mutant: continue instead of break.
ExitContinues(l) ==
    /\ GetLine(l)
    /\ l.exit
    /\ UNCHANGED <<pc, sends>>

Exit(l) ==
    /\ GetLine(l)
    /\ l.exit
    /\ pc' = "left"
    /\ UNCHANGED sends

Refuse(l) ==
    /\ GetLine(l)
    /\ ~l.exit
    /\ ~Accepted(l)
    /\ UNCHANGED <<pc, sends>>

Send(l) ==
    /\ GetLine(l)
    /\ Accepted(l)
    /\ Offset(l) <= Stored(l)
    /\ l.ipOk
    /\ sends' = sends \cup {[line |-> l, from |-> Offset(l), upto |-> Stored(l)]}
    /\ UNCHANGED pc

\* sendto returns -1, as it always does for an address it cannot parse.
SendFails(l) ==
    /\ GetLine(l)
    /\ Accepted(l)
    /\ Offset(l) <= Stored(l)
    /\ pc' = "left"
    /\ UNCHANGED sends

\* substr throws out_of_range, which nobody catches.
Crash(l) ==
    /\ GetLine(l)
    /\ Accepted(l)
    /\ Offset(l) > Stored(l)
    /\ pc' = "crashed"
    /\ UNCHANGED sends

\* getline at the end of the input sets failbit; the empty line is refused.
ReadEnd ==
    /\ pc = "loop"
    /\ stream = "good"
    /\ typed = <<>>
    /\ eof
    /\ stream' = "failed"
    /\ UNCHANGED <<version, typed, eof, pc, sends>>

\* On a failed stream every iteration refuses an empty line.
Spin ==
    /\ pc = "loop"
    /\ stream = "failed"
    /\ UNCHANGED vars

Iterate == \/ \E l \in Lines : \/ Exit(l) \/ Refuse(l) \/ Send(l)
                               \/ SendFails(l) \/ Crash(l)
           \/ ReadEnd

Ended == pc # "loop" /\ UNCHANGED vars

Next == (\E l \in Lines : Type(l)) \/ CloseInput \/ Iterate \/ Spin \/ Ended

Spec == Init /\ [][Next]_vars

\* The program iterates as long as it can; nobody has to type.
FairSpec == Spec /\ WF_vars(Iterate)

-------------------------------------------------------------------------------
(* Properties. *)

\* A text that is sent is sent from its first character on, whatever blanks
\* the user put around the parts, and to its end unless the line was cut, which
\* ends the conversation (substr, getline).  Set off by single blanks it is sent
\* as typed, without a blank or a digit of the port in front of it.
SentCoversText ==
    \A s \in sends : s.line.text > 0 =>
        /\ s.from <= TextAt(s.line)
        /\ s.upto >= TextEnd(s.line) \/ stream = "failed"
        /\ s.line.lead = 0 /\ s.line.gap1 = 1 /\ s.line.gap2 = 1
              => s.from = TextAt(s.line)

\* A sent text fits in the 196 data bytes of version 2's 200-byte packet, and
\* in the receiver's 1024-byte buffer: the bound comes from input[200] and is
\* nowhere checked in sendMsgPacket.
SentFits == \A s \in sends : s.upto - s.from \in 0..195

\* With three words required, the offset into the line is always inside it:
\* only version 1 can be ended by substr, and only by a stored line that ends
\* with its port (udp_chat.cpp of version 1, lines 162 and 182).  Either no
\* text was typed, or getline cut the line before it.
CrashExplained ==
    [][\A l \in Lines : Crash(l) =>
          /\ version = 1
          /\ Stored(l) <= PortEnd(l)
          /\ l.text = 0 \/ TextAt(l) >= Capacity]_vars

ExitTyped == \E i \in DOMAIN typed : typed[i].exit

\* Typing exit ends the loop, unless the stream failed before.
ExitIsRead == ExitTyped ~> (pc # "loop" \/ stream = "failed")

\* Each record of sends was accepted, ends where the stored line ends, and a
\* cut line left the stream failed: what the properties above follow from.
SendsInv ==
    \A s \in sends :
        /\ Accepted(s.line)
        /\ s.from = Offset(s.line) /\ s.upto = Stored(s.line)
        /\ s.from <= s.upto
        /\ Length(s.line) > Capacity => stream = "failed"
==============================================================================
