----------------------------- MODULE EchoService ------------------------------
(***************************************************************************)
(* The echo server and its clients (1-linux-socket-api-simaple): a         *)
(* single-threaded server that serves one connection at a time, and        *)
(* clients that send Rounds texts and do one recv for each.                *)
(*                                                                         *)
(* A text is Parts units long, each the number of its round, so that the   *)
(* stream may be cut inside a text.                                        *)
(***************************************************************************)
EXTENDS Tcp, SequencesExt

CONSTANTS
    Clients,    \* client processes
    Nobody,     \* the server serves no client
    Rounds,     \* texts each client sends (10 in the code)
    Parts       \* units a text is made of

ASSUME EchoAssumption ==
    /\ Nobody \notin Clients
    /\ Rounds \in Nat \ {0}
    /\ Parts \in Nat \ {0}

VARIABLES
    at,         \* where the server is
    fd,         \* the client whose connection it serves
    backlog,    \* established connections not accepted yet
    hand,       \* what the server has read and not echoed
    conn,       \* the connections
    pc,         \* where each client is
    i,          \* its round
    recvBuffer, \* its buffer, which it never clears
    said, got   \* all it sent and all it received

serverVars == <<at, fd, backlog, hand>>
clientVars == <<pc, i, recvBuffer, said, got>>
vars       == <<serverVars, conn, clientVars>>

Units == 0..Rounds - 1
Text(r) == [k \in 1..Parts |-> r]

TypeOK ==
    /\ at \in {"accept", "recv", "send", "close", "exited", "killed"}
    /\ fd \in Clients \cup {Nobody}
    /\ backlog \in Seq(Clients)
    /\ hand \in Seq(Units)
    /\ conn \in [Clients -> Connection(Units)]
    /\ pc \in [Clients -> {"connect", "send", "recv", "close", "done", "killed"}]
    /\ i \in [Clients -> 0..Rounds]
    /\ recvBuffer \in [Clients -> Seq(Units)]
    /\ said \in [Clients -> Seq(Units)]
    /\ got \in [Clients -> Seq(Units)]

Init ==
    /\ at = "accept"
    /\ fd = Nobody
    /\ backlog = <<>>
    /\ hand = <<>>
    /\ conn = [c \in Clients |-> NewConnection]
    /\ pc = [c \in Clients |-> "connect"]
    /\ i = [c \in Clients |-> 0]
    /\ recvBuffer = [c \in Clients |-> <<>>]
    /\ said = [c \in Clients |-> <<>>]
    /\ got = [c \in Clients |-> <<>>]

-------------------------------------------------------------------------------
(* The client. *)

Listening == at \notin {"exited", "killed"}

\* The kernel completes the connection before the server accepts it.
Connect(c) ==
    /\ pc[c] = "connect"
    /\ IF Listening
       THEN /\ pc' = [pc EXCEPT ![c] = "send"]
            /\ backlog' = Append(backlog, c)
       ELSE /\ pc' = [pc EXCEPT ![c] = "done"]
            /\ UNCHANGED backlog
    /\ UNCHANGED <<at, fd, hand, conn, i, recvBuffer, said, got>>

Send(c) ==
    /\ pc[c] = "send"
    /\ \E result \in SendResults(conn[c].c) :
        \/ /\ result = "sent"
           /\ conn' = [conn EXCEPT ![c] = Sent(@, "c", Text(i[c]))]
           /\ said' = [said EXCEPT ![c] = @ \o Text(i[c])]
           /\ pc' = [pc EXCEPT ![c] = "recv"]
        \/ /\ result = "error"
           /\ pc' = [pc EXCEPT ![c] = "close"]
           /\ UNCHANGED <<conn, said>>
        \/ /\ result = "killed"
           /\ conn' = [conn EXCEPT ![c] = Closed(@, "c")]
           /\ pc' = [pc EXCEPT ![c] = "killed"]
           /\ UNCHANGED said
    /\ UNCHANGED <<serverVars, i, recvBuffer, got>>

\* The loop of Rounds turns, each printed from recvBuffer.
NextRound(c) ==
    /\ i' = [i EXCEPT ![c] = @ + 1]
    /\ pc' = [pc EXCEPT ![c] = IF i[c] + 1 < Rounds THEN "send" ELSE "close"]

\* Mutant: the chunk is stored behind what is there.
OverwrittenBehind(buffer, chunk) == buffer \o chunk

\* The chunk overwrites the front of the buffer; the rest of it stays.
Overwritten(buffer, chunk) ==
    chunk \o SubSeq(buffer, Len(chunk) + 1, Len(buffer))

Recv(c, n) ==
    /\ pc[c] = "recv"
    /\ LET chunk == Chunk(conn[c].c, n) IN
       /\ got' = [got EXCEPT ![c] = @ \o chunk]
       /\ recvBuffer' = [recvBuffer EXCEPT ![c] = Overwritten(@, chunk)]
    /\ conn' = [conn EXCEPT ![c] = Read(@, "c", n)]
    /\ NextRound(c)
    /\ UNCHANGED <<serverVars, said>>

\* recv returns 0, which the client does not tell from data.
RecvNothing(c) ==
    /\ pc[c] = "recv"
    /\ AtEnd(conn[c].c)
    /\ NextRound(c)
    /\ UNCHANGED <<serverVars, conn, recvBuffer, said, got>>

RecvFails(c) ==
    /\ pc[c] = "recv"
    /\ Failed(conn[c].c)
    /\ pc' = [pc EXCEPT ![c] = "close"]
    /\ UNCHANGED <<serverVars, conn, i, recvBuffer, said, got>>

Close(c) ==
    /\ pc[c] = "close"
    /\ conn' = [conn EXCEPT ![c] = Closed(@, "c")]
    /\ pc' = [pc EXCEPT ![c] = "done"]
    /\ UNCHANGED <<serverVars, i, recvBuffer, said, got>>

-------------------------------------------------------------------------------
(* The server. *)

Accept ==
    /\ at = "accept"
    /\ backlog # <<>>
    /\ fd' = Head(backlog)
    /\ backlog' = Tail(backlog)
    /\ at' = "recv"
    /\ UNCHANGED <<hand, conn, clientVars>>

\* The server's process ends: the kernel closes the connection it served and
\* resets those it had not accepted.
ServerEnds(how) ==
    /\ at' = how
    /\ backlog' = <<>>
    /\ conn' = [c \in Clients |->
                   CASE c = fd              -> Closed(conn[c], "s")
                     [] c \in Range(backlog) -> Refused(conn[c])
                     [] OTHER               -> conn[c]]

\* accept returns -1: main returns.
AcceptFails ==
    /\ at = "accept"
    /\ ServerEnds("exited")
    /\ UNCHANGED <<fd, hand, clientVars>>

\* The loop never ends by itself: its user ends it with ctrl+c.
Interrupt ==
    /\ Listening
    /\ ServerEnds("exited")
    /\ UNCHANGED <<fd, hand, clientVars>>

ServerRecv ==
    /\ at = "recv"
    /\ \E n \in Readable(conn[fd].s) :
          /\ hand' = Chunk(conn[fd].s, n)
          /\ conn' = [conn EXCEPT ![fd] = Read(@, "s", n)]
    /\ at' = "send"
    /\ UNCHANGED <<fd, backlog, clientVars>>

\* Mutant: the branch for 0, the client's close, is missing.
ServerRecvEndIgnored ==
    /\ at = "recv"
    /\ Failed(conn[fd].s)
    /\ at' = "close"
    /\ UNCHANGED <<fd, backlog, hand, conn, clientVars>>

\* recv returns 0 or -1.
ServerRecvEnd ==
    /\ at = "recv"
    /\ AtEnd(conn[fd].s) \/ Failed(conn[fd].s)
    /\ at' = "close"
    /\ UNCHANGED <<fd, backlog, hand, conn, clientVars>>

\* Mutant: a loop around send advances by one unit, though send took all.
ServerSendRepeats ==
    /\ at = "send"
    /\ \E result \in SendResults(conn[fd].s) :
        \/ /\ result = "sent"
           /\ conn' = [conn EXCEPT ![fd] = Sent(@, "s", hand)]
           /\ at' = IF Len(hand) > 1 THEN "send" ELSE "recv"
           /\ hand' = Tail(hand)
           /\ UNCHANGED <<fd, backlog>>
        \/ /\ result = "error"
           /\ at' = "close"
           /\ hand' = <<>>
           /\ UNCHANGED <<fd, backlog, conn>>
        \/ /\ result = "killed"
           /\ ServerEnds("killed")
           /\ UNCHANGED <<fd, hand>>
    /\ UNCHANGED clientVars

\* Mutant: the echo is cut short and the rest is forgotten.
ServerSendShort ==
    /\ at = "send"
    /\ \E result \in SendResults(conn[fd].s) :
        \/ /\ result = "sent"
           /\ conn' = [conn EXCEPT ![fd] = Sent(@, "s", SubSeq(hand, 1, 1))]
           /\ at' = "recv"
           /\ hand' = <<>>
           /\ UNCHANGED <<fd, backlog>>
        \/ /\ result = "error"
           /\ at' = "close"
           /\ hand' = <<>>
           /\ UNCHANGED <<fd, backlog, conn>>
        \/ /\ result = "killed"
           /\ ServerEnds("killed")
           /\ UNCHANGED <<fd, hand>>
    /\ UNCHANGED clientVars

\* One send; -1 leaves the inner loop.
ServerSend ==
    /\ at = "send"
    /\ \E result \in SendResults(conn[fd].s) :
        \/ /\ result = "sent"
           /\ conn' = [conn EXCEPT ![fd] = Sent(@, "s", hand)]
           /\ at' = "recv"
           /\ hand' = <<>>
           /\ UNCHANGED <<fd, backlog>>
        \/ /\ result = "error"
           /\ at' = "close"
           /\ hand' = <<>>
           /\ UNCHANGED <<fd, backlog, conn>>
        \/ /\ result = "killed"
           /\ ServerEnds("killed")
           /\ UNCHANGED <<fd, hand>>
    /\ UNCHANGED clientVars

ServerClose ==
    /\ at = "close"
    /\ conn' = [conn EXCEPT ![fd] = Closed(@, "s")]
    /\ fd' = Nobody
    /\ at' = "accept"
    /\ UNCHANGED <<backlog, hand, clientVars>>

-------------------------------------------------------------------------------
Ended(c) == pc[c] \in {"done", "killed"}

Client(c) == \/ Send(c)
             \/ \E n \in Readable(conn[c].c) : Recv(c, n)
             \/ RecvNothing(c) \/ RecvFails(c)
             \/ Close(c)

Server == Accept \/ ServerRecv \/ ServerRecvEnd \/ ServerSend \/ ServerClose

\* Every client has ended, and the server waits in accept or has ended too.
Rest ==
    /\ \A c \in Clients : Ended(c)
    /\ at \in {"accept", "exited", "killed"}
    /\ backlog = <<>>
    /\ UNCHANGED vars

Next == \/ \E c \in Clients : Connect(c) \/ Client(c)
        \/ Server \/ AcceptFails \/ Interrupt
        \/ Rest

Spec == Init /\ [][Next]_vars

\* Every process that can take a step is scheduled; nobody has to start a
\* client, and accept does not have to fail.
FairSpec == Spec /\ WF_vars(Server) /\ \A c \in Clients : WF_vars(Client(c))

-------------------------------------------------------------------------------
(* Properties. *)

InHand(c) == IF c = fd THEN hand ELSE <<>>
Intact(c) == \A me \in {"c", "s"} : conn[c][me].peerEnd = "open"

\* The server and its clients keep the promise of an echo service.
Promise == INSTANCE EchoPromise
    WITH Texts <- {Text(r) : r \in Units}, gone <- [c \in Clients |-> Ended(c)]

KeepsEcho == Promise!Spec

\* However the stream is cut, the echo adds nothing, loses nothing and keeps
\* the order: while both ends are there, what was said is what was received,
\* what is on its way back, what the server holds and what is on its way to
\* it.  Once an end is gone, what was received is still a prefix.
Exact(c) ==
    /\ IsPrefix(got[c] \o conn[c].c.inbox, said[c])
    /\ Intact(c) => said[c] = got[c] \o conn[c].c.inbox \o InHand(c)
                                     \o conn[c].s.inbox

EchoExact == \A c \in Clients : Exact(c)

\* A client whose echoes all arrived cannot bring the server down: SIGPIPE ends
\* it only over a client that left with texts unanswered.
KilledByHaste == at = "killed" => got[fd] # said[fd]

\* Only one client is served at a time, but every client ends, those that wait
\* for accept and those whose server ended included.
EveryClientEnds == \A c \in Clients : pc[c] # "connect" ~> Ended(c)

\* What client c finds in its buffer after this step: the bytes that follow in
\* what it said those it received before, then the rest of the last print.
PrintedRight(c) ==
    LET had  == Len(got[c])
        has  == Len(got'[c])
        last == recvBuffer[c]
    IN  /\ recvBuffer'[c] = SubSeq(said[c], had + 1, has)
                            \o SubSeq(last, has - had + 1, Len(last))
        /\ Listening => has > had

\* A round prints first what the client said and has not printed yet, in order
\* and each byte as new in one round only; behind it stands the rest of the last
\* print, which nobody clears, once more.  So a cut echo delays the texts after
\* it and repeats the end of an older one; a round without anything new, which
\* prints the last print again, comes only when the server has gone (client.cpp,
\* lines 45-51).
PrintsOldestFirst ==
    [][\A c \in Clients : pc[c] = "recv" /\ i'[c] # i[c] => PrintedRight(c)]_vars

-------------------------------------------------------------------------------
(* The inductive invariant behind the safety properties. *)

\* Where the server is, and what that says of the connection it serves.
ServerInv ==
    /\ at \in {"recv", "send", "close"} => fd \in Clients
    /\ at = "accept" => fd = Nobody
    /\ at \in {"accept", "recv", "close"} => hand = <<>>
    /\ at = "send" => hand # <<>>
    /\ at = "close" => conn[fd].s.peerEnd # "open"

\* The backlog holds connected clients, each once, and not the one served.
QueueInv ==
    /\ \A k \in 1..Len(backlog) : backlog[k] # fd /\ pc[backlog[k]] # "connect"
    /\ \A j, k \in 1..Len(backlog) : backlog[j] = backlog[k] => j = k

\* While the server listens, it has closed no connection but those of clients
\* that had closed theirs.
OpenInv(c) ==
    Listening => /\ ~Ended(c) => ~conn[c].c.broken
                 /\ ~Ended(c) \/ c = fd \/ c \in Range(backlog)
                        => conn[c].c.peerEnd = "open"

\* How the client's place goes together with its end of the connection.
PlaceInv(c) ==
    /\ pc[c] = "connect" => conn[c] = NewConnection /\ c # fd
    /\ pc[c] \in {"connect", "send", "recv"} => i[c] < Rounds
    /\ conn[c].s.peerEnd # "open" => Ended(c)
    /\ conn[c].s.broken => conn[c].s.peerEnd # "open"

\* What a client received, what is on its way back, what the server holds and
\* what it has still to read is no more than the client said: also when the
\* client is gone and its echoes are lost.
DebtInv(c) ==
    conn[c].c.peerEnd = "open" =>
        Len(got[c]) + Len(conn[c].c.inbox) + Len(InHand(c))
            + Len(conn[c].s.inbox) <= Len(said[c])

ClientInv(c) == Exact(c) /\ OpenInv(c) /\ PlaceInv(c) /\ DebtInv(c)

\* A server that was killed owed its client an echo.
KilledInv == at = "killed" => fd \in Clients /\ Ended(fd) /\ got[fd] # said[fd]

\* The type invariant, the server's, and that of each client: the exact echo
\* rests on who may have closed which connection.
IInv == TypeOK /\ ServerInv /\ QueueInv /\ KilledInv
        /\ \A c \in Clients : ClientInv(c)
===============================================================================
