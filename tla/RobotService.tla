----------------------------- MODULE RobotService -----------------------------
(***************************************************************************)
(* The robot server and its clients (7-project-tcp-robot-server).  One     *)
(* thread accepts a connection and, until its client leaves, answers       *)
(* whatever each recv returns with the reply of WeChatApi::getAnswer.      *)
(*                                                                         *)
(* A word is sent as a number of parts, of which recv takes some at a      *)
(* time: 1024 bytes at most, and TCP may bring less.  Each part has its    *)
(* number in the order of the sends; at the end of its input a client      *)
(* repeats its last word, as new parts.  An answer is some units that      *)
(* carry the number of the last part they answer.                          *)
(***************************************************************************)
EXTENDS Tcp, SequencesExt

CONSTANTS
    Clients,        \* client processes
    Nobody,         \* the server serves no client
    MaxAsk,         \* bound: parts each client sends
    WordLengths,    \* parts in a word
    AnswerLengths   \* units in an answer of the service

ASSUME RobotAssumption ==
    /\ Nobody \notin Clients
    /\ MaxAsk \in [Clients -> Nat]
    /\ WordLengths \subseteq Nat \ {0}
    /\ AnswerLengths \subseteq Nat

VARIABLES
    at,         \* where the server is
    fd,         \* the client whose connection it serves
    backlog,    \* established connections not accepted yet
    hand,       \* the parts one recv returned, until they are answered
    answer,     \* units of the answer to them
    conn,       \* the connections
    pc,         \* where each client is
    eof,        \* is its standard input at the end?
    asked,      \* parts it sent
    ends,       \* those of them that end a word
    heard,      \* the part whose answer it read last
    fit         \* history: did no recv of the server end inside a word of it,
                \* and was every answer to it one unit long, so far?

serverVars == <<at, fd, backlog, hand, answer>>
clientVars == <<pc, eof, asked, ends, heard>>
vars       == <<serverVars, conn, clientVars, fit>>

Parts == Nat \ {0}

TypeOK ==
    /\ at \in {"accept", "recv", "ask", "send", "close", "exited", "killed",
               "thrown"}
    /\ fd \in Clients \cup {Nobody}
    /\ backlog \in Seq(Clients)
    /\ hand \in Seq(Parts)
    /\ answer \in Nat
    /\ conn \in [Clients -> Connection(Parts)]
    /\ pc \in [Clients -> {"connect", "input", "recv", "close", "done", "killed"}]
    /\ eof \in [Clients -> BOOLEAN]
    /\ asked \in [Clients -> Nat]
    /\ ends \in [Clients -> SUBSET Parts]
    /\ heard \in [Clients -> Nat]
    /\ fit \in [Clients -> BOOLEAN]

Init ==
    /\ at = "accept"
    /\ fd = Nobody
    /\ backlog = <<>>
    /\ hand = <<>>
    /\ answer = 0
    /\ conn = [c \in Clients |-> NewConnection]
    /\ pc = [c \in Clients |-> "connect"]
    /\ eof = [c \in Clients |-> FALSE]
    /\ asked = [c \in Clients |-> 0]
    /\ ends = [c \in Clients |-> {}]
    /\ heard = [c \in Clients |-> 0]
    /\ fit = [c \in Clients |-> TRUE]

-------------------------------------------------------------------------------
(* The client. *)

Listening == at \notin {"exited", "killed", "thrown"}

Connect(c) ==
    /\ pc[c] = "connect"
    /\ IF Listening
       THEN /\ pc' = [pc EXCEPT ![c] = "input"]
            /\ backlog' = Append(backlog, c)
       ELSE /\ pc' = [pc EXCEPT ![c] = "done"]
            /\ UNCHANGED backlog
    /\ UNCHANGED <<at, fd, hand, answer, conn, eof, asked, ends, heard, fit>>

\* The last word of c had l parts.
Repeats(c, l) == /\ asked[c] - l \in ends[c] \cup {0}
                 /\ \A k \in 1..l - 1 : asked[c] - k \notin ends[c]

Word(c, l) == [k \in 1..l |-> asked[c] + k]

\* The user types a word other than exit, or has closed the input: then input
\* keeps the last word, which is sent again.
Ask(c, l) ==
    /\ pc[c] = "input"
    /\ eof[c] => asked[c] > 0 /\ Repeats(c, l)
    /\ asked[c] + l <= MaxAsk[c]
    /\ asked' = [asked EXCEPT ![c] = @ + l]
    /\ ends' = [ends EXCEPT ![c] = @ \cup {asked[c] + l}]
    /\ \E result \in SendResults(conn[c].c) :
        \/ /\ result = "sent"
           /\ conn' = [conn EXCEPT ![c] = Sent(@, "c", Word(c, l))]
           /\ pc' = [pc EXCEPT ![c] = "recv"]
        \/ /\ result = "error"
           /\ pc' = [pc EXCEPT ![c] = "close"]
           /\ UNCHANGED conn
        \/ /\ result = "killed"
           /\ conn' = [conn EXCEPT ![c] = Closed(@, "c")]
           /\ pc' = [pc EXCEPT ![c] = "killed"]
    /\ UNCHANGED <<serverVars, eof, heard, fit>>

EndInput(c) ==
    /\ pc[c] = "input"
    /\ ~eof[c]
    /\ eof' = [eof EXCEPT ![c] = TRUE]
    /\ UNCHANGED <<serverVars, conn, pc, asked, ends, heard, fit>>

\* With no word to repeat, send is called with no bytes, and recv all the same.
AskNothing(c) ==
    /\ pc[c] = "input"
    /\ eof[c] /\ asked[c] = 0
    /\ \E result \in SendResults(conn[c].c) :
        /\ pc' = [pc EXCEPT ![c] = CASE result = "sent"  -> "recv"
                                      [] result = "error" -> "close"
                                      [] OTHER            -> "killed"]
        /\ conn' = IF result = "killed" THEN [conn EXCEPT ![c] = Closed(@, "c")]
                                        ELSE conn
    /\ UNCHANGED <<serverVars, eof, asked, ends, heard, fit>>

Exit(c) ==
    /\ pc[c] = "input"
    /\ ~eof[c]
    /\ pc' = [pc EXCEPT ![c] = "close"]
    /\ UNCHANGED <<serverVars, conn, eof, asked, ends, heard, fit>>

Recv(c) ==
    /\ pc[c] = "recv"
    /\ \E n \in Readable(conn[c].c) :
          /\ heard' = [heard EXCEPT ![c] = Last(Chunk(conn[c].c, n))]
          /\ conn' = [conn EXCEPT ![c] = Read(@, "c", n)]
    /\ pc' = [pc EXCEPT ![c] = "input"]
    /\ UNCHANGED <<serverVars, eof, asked, ends, fit>>

\* recv returns 0: an empty answer is printed.
RecvNothing(c) ==
    /\ pc[c] = "recv"
    /\ AtEnd(conn[c].c)
    /\ pc' = [pc EXCEPT ![c] = "input"]
    /\ UNCHANGED <<serverVars, conn, eof, asked, ends, heard, fit>>

RecvFails(c) ==
    /\ pc[c] = "recv"
    /\ Failed(conn[c].c)
    /\ pc' = [pc EXCEPT ![c] = "close"]
    /\ UNCHANGED <<serverVars, conn, eof, asked, ends, heard, fit>>

Close(c) ==
    /\ pc[c] = "close"
    /\ conn' = [conn EXCEPT ![c] = Closed(@, "c")]
    /\ pc' = [pc EXCEPT ![c] = "done"]
    /\ UNCHANGED <<serverVars, eof, asked, ends, heard, fit>>

\* ctrl+c at the client: the kernel closes its end.
Leave(c) ==
    /\ pc[c] \in {"input", "recv"}
    /\ conn' = [conn EXCEPT ![c] = Closed(@, "c")]
    /\ pc' = [pc EXCEPT ![c] = "killed"]
    /\ UNCHANGED <<serverVars, eof, asked, ends, heard, fit>>

-------------------------------------------------------------------------------
(* The server. *)

Accept ==
    /\ at = "accept"
    /\ backlog # <<>>
    /\ fd' = Head(backlog)
    /\ backlog' = Tail(backlog)
    /\ at' = "recv"
    /\ UNCHANGED <<hand, answer, conn, clientVars, fit>>

\* The server's process ends: the kernel closes the connection it served and
\* resets those it had not accepted.
ServerEnds(how) ==
    /\ at' = how
    /\ backlog' = <<>>
    /\ conn' = [c \in Clients |->
                   CASE c = fd              -> Closed(conn[c], "s")
                     [] c \in Range(backlog) -> Refused(conn[c])
                     [] OTHER               -> conn[c]]
    /\ UNCHANGED <<fd, hand, answer>>

\* accept returns -1: run returns, and main.
AcceptFails ==
    /\ at = "accept"
    /\ ServerEnds("exited")
    /\ UNCHANGED <<clientVars, fit>>

\* The loop never ends by itself: its user ends it with ctrl+c.
Interrupt ==
    /\ Listening
    /\ ServerEnds("exited")
    /\ UNCHANGED <<clientVars, fit>>

\* One recv of at most 1024 bytes, each of which is answered on its own.
ServerRecv ==
    /\ at = "recv"
    /\ \E n \in Readable(conn[fd].s) :
          /\ hand' = Chunk(conn[fd].s, n)
          /\ conn' = [conn EXCEPT ![fd] = Read(@, "s", n)]
    /\ fit' = [fit EXCEPT ![fd] = @ /\ Last(hand') \in ends[fd]]
    /\ at' = "ask"
    /\ UNCHANGED <<fd, backlog, answer, clientVars>>

\* Mutant: the branch for 0, the client's close, is missing.
ServerRecvEndIgnored ==
    /\ at = "recv"
    /\ Failed(conn[fd].s)
    /\ at' = "close"
    /\ UNCHANGED <<fd, backlog, hand, answer, conn, clientVars, fit>>

\* recv returns 0 or -1: the inner loop is left.
ServerRecvEnd ==
    /\ at = "recv"
    /\ AtEnd(conn[fd].s) \/ Failed(conn[fd].s)
    /\ at' = "close"
    /\ UNCHANGED <<fd, backlog, hand, answer, conn, clientVars, fit>>

\* Mutant: with no answer of the service, the loop goes on with recv.
GetAnswerSilent ==
    /\ at = "ask"
    /\ \/ answer' \in AnswerLengths /\ at' = "send" /\ UNCHANGED hand
       \/ hand' = <<>> /\ at' = "recv" /\ UNCHANGED answer
    /\ UNCHANGED <<fd, backlog, conn, clientVars, fit>>

\* The service answers, or an apology of one unit is sent in its place.
GetAnswer ==
    /\ at = "ask"
    /\ answer' \in AnswerLengths \cup {1}
    /\ at' = "send"
    /\ UNCHANGED <<fd, backlog, hand, conn, clientVars, fit>>

\* WeChatApi throws and nobody catches.
Throw ==
    /\ at = "ask"
    /\ ServerEnds("thrown")
    /\ UNCHANGED <<clientVars, fit>>

Answer == [k \in 1..answer |-> Last(hand)]

\* Mutant: the loop starts with the text of the last round.
SendAnswerKept ==
    /\ at = "send"
    /\ \E result \in SendResults(conn[fd].s) :
        \/ /\ result = "killed"
           /\ ServerEnds("killed")
        \/ /\ result \in {"sent", "error"}
           /\ conn' = [conn EXCEPT ![fd] = IF result = "sent"
                                           THEN Sent(@, "s", Answer)
                                           ELSE Errored(@, "s")]
           /\ at' = "ask"
           /\ UNCHANGED <<fd, backlog, hand, answer>>
    /\ fit' = [fit EXCEPT ![fd] = @ /\ answer = 1]
    /\ UNCHANGED clientVars

\* The result is printed when it is -1, and otherwise not looked at.
SendAnswer ==
    /\ at = "send"
    /\ \E result \in SendResults(conn[fd].s) :
        \/ /\ result = "killed"
           /\ ServerEnds("killed")
        \/ /\ result \in {"sent", "error"}
           /\ conn' = [conn EXCEPT ![fd] = IF result = "sent"
                                           THEN Sent(@, "s", Answer)
                                           ELSE Errored(@, "s")]
           /\ at' = "recv"
           /\ hand' = <<>>
           /\ answer' = 0
           /\ UNCHANGED <<fd, backlog>>
    /\ fit' = [fit EXCEPT ![fd] = @ /\ answer = 1]
    /\ UNCHANGED clientVars

ServerClose ==
    /\ at = "close"
    /\ conn' = [conn EXCEPT ![fd] = Closed(@, "s")]
    /\ fd' = Nobody
    /\ at' = "accept"
    /\ UNCHANGED <<backlog, hand, answer, clientVars, fit>>

-------------------------------------------------------------------------------
Ended(c) == pc[c] \in {"done", "killed"}

Client(c) == Recv(c) \/ RecvNothing(c) \/ RecvFails(c) \/ Close(c)
             \/ AskNothing(c) \/ \E l \in WordLengths : eof[c] /\ Ask(c, l)
User(c)   == Connect(c) \/ EndInput(c) \/ Exit(c) \/ Leave(c)
             \/ \E l \in WordLengths : Ask(c, l)

Server == Accept \/ ServerRecv \/ ServerRecvEnd \/ GetAnswer \/ SendAnswer
          \/ ServerClose

\* Every client has ended, and the server waits in accept or has ended too.
Rest ==
    /\ \A c \in Clients : Ended(c)
    /\ at \in {"accept", "exited", "killed", "thrown"}
    /\ backlog = <<>>
    /\ UNCHANGED vars

Next == \/ \E c \in Clients : Client(c) \/ User(c)
        \/ Server \/ AcceptFails \/ Throw \/ Interrupt
        \/ Rest

Spec == Init /\ [][Next]_vars

\* Every process that can take a step is scheduled, and a request to the
\* service ends (the HTTP library has timeouts).  Users need do nothing.
FairSpec == Spec /\ WF_vars(Server) /\ \A c \in Clients : WF_vars(Client(c))

-------------------------------------------------------------------------------
(* Properties. *)

Intact(c)  == conn[c].c.peerEnd = "open"        \* the server has not closed it
Pending(c) == (IF c = fd THEN hand ELSE <<>>) \o conn[c].s.inbox
Answers(c) == <<heard[c]>> \o conn[c].c.inbox

\* Parts wait in the order they were sent, the last one last; the answers
\* arrive in that order, and answer parts that do not wait any more.
Ordered(pending, answers, last) ==
    LET waiting == Len(pending) IN
    /\ \A k \in 1..waiting : pending[k] = last - waiting + k
    /\ \A k \in 1..Len(answers) : answers[k] <= last - waiting
    /\ \A k \in 2..Len(answers) : answers[k - 1] <= answers[k]

\* However long words and answers are and however the streams are cut, the
\* parts of the words wait in the order they were sent, the answers arrive in
\* that order, and no part is answered before it is sent or while it waits; also
\* what a client left behind that is gone is answered in order.
InOrder ==
    \A c \in Clients : Intact(c) => Ordered(Pending(c), Answers(c), asked[c])

\* A user who reads an answer reads that to the whole word he typed last, as
\* long as no recv of the server cut a word of his in two and each answer came
\* whole in one recv of his (client.cpp, line 50; server.cpp, lines 94-96).
OneQuestionOneAnswer ==
    [][\A c \in Clients : Recv(c) /\ fit[c] => heard'[c] = asked[c]]_vars

\* No client, leaving when it will, ends the server with SIGPIPE, unless a recv
\* cut a word of it, which brings it a second answer to be sent, or an answer
\* was longer than one recv, so that it asked ahead of the server, or empty.
KilledByLength == at = "killed" => ~fit[fd]

\* A client that is being served, waits, and has sent something that is not
\* answered yet does not wait for ever, however its words and the answers are
\* cut, and also when the service does not answer, unless the answer about to
\* be sent is empty.  One whose input ended before its first word has sent
\* nothing, but waits: it and the server then wait for each other (client.cpp,
\* lines 37 to 50).
Answered ==
    \A c \in Clients : pc[c] = "recv" /\ fd = c /\ Pending(c) # <<>>
        ~> pc[c] # "recv" \/ (at = "send" /\ answer = 0)

\* A client that left makes room for those that wait for accept.
Released == \A c \in Clients : Ended(c) /\ fd = c ~> fd # c \/ ~Listening

-------------------------------------------------------------------------------
(* The inductive invariant behind the safety properties. *)

\* Where the server is, and what that says of the connection it serves.
ServerInv ==
    /\ at \in {"recv", "ask", "send", "close"} => fd \in Clients
    /\ at = "accept" => fd = Nobody
    /\ at \in {"accept", "recv", "close"} => hand = <<>>
    /\ at \in {"ask", "send"} => hand # <<>>
    /\ at = "close" => conn[fd].s.peerEnd # "open"

\* The backlog holds connected clients, each once, and not the one served.
QueueInv ==
    /\ \A k \in 1..Len(backlog) : backlog[k] # fd /\ pc[backlog[k]] # "connect"
    /\ \A j, k \in 1..Len(backlog) : backlog[j] = backlog[k] => j = k

OrderInv(c) == Intact(c) => Ordered(Pending(c), Answers(c), asked[c])

\* While the server listens, it has closed no connection but those of clients
\* that had closed theirs.
OpenInv(c) ==
    Listening /\ (~Ended(c) \/ c = fd \/ c \in Range(backlog))
        => Intact(c)

\* How the client's place goes together with its end of the connection, and a
\* broken end with the other one gone.
PlaceInv(c) ==
    /\ pc[c] = "connect" => conn[c] = NewConnection /\ c # fd
    /\ conn[c].s.peerEnd # "open" => Ended(c)
    /\ \A me \in {"c", "s"} : conn[c][me].broken => conn[c][me].peerEnd # "open"

\* What has been sent ends with a word.
WordInv(c) ==
    /\ \A k \in ends[c] : k <= asked[c]
    /\ asked[c] > 0 => asked[c] \in ends[c]

\* All that waits are parts of the word sent last.
OneWord(c) ==
    \A k \in 1..Len(Pending(c)) :
        Pending(c)[k] \in ends[c] => Pending(c)[k] = asked[c]

\* As long as words and answers came whole, they alternate: a word or its answer
\* is on its way exactly while the client waits for it, and nothing is left when
\* it asks again.  A client that has gone leaves at most one word behind, and
\* none once the server's end is broken.
TurnInv(c) ==
    LET toClient == conn[c].c.inbox IN
    fit[c] =>
        /\ pc[c] = "input" => toClient = <<>>
        /\ pc[c] = "recv" => toClient \in {<<>>, <<asked[c]>>}
        /\ c = fd /\ hand # <<>> => Last(hand) \in ends[c]
        /\ Intact(c) => OneWord(c)
        /\ Intact(c) /\ ~Ended(c) =>
              IF pc[c] = "recv" /\ asked[c] > 0
              THEN Pending(c) = <<>> <=> toClient # <<>>
              ELSE Pending(c) = <<>> /\ toClient = <<>>
        /\ Intact(c) /\ Ended(c) /\ (conn[c].s.peerEnd = "rst" \/ conn[c].s.broken)
              => Pending(c) = <<>>

ClientInv(c) == OrderInv(c) /\ OpenInv(c) /\ PlaceInv(c) /\ WordInv(c)
                /\ TurnInv(c)

\* The type invariant, the server's, and that of each client, with what is
\* known of a server that was killed.
IInv == TypeOK /\ ServerInv /\ QueueInv
        /\ (at = "killed" => fd \in Clients /\ ~fit[fd])
        /\ \A c \in Clients : ClientInv(c)
===============================================================================
