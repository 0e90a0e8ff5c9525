----------------------------- MODULE UdpChatProps -----------------------------
(***************************************************************************)
(* What makes the chat of UdpChat correct.                                 *)
(***************************************************************************)
EXTENDS UdpChat, FiniteSets

One(b) == IF b THEN 1 ELSE 0

Holds(p, pc, m) == recv[p] = pc /\ hand[p] = m

\* A message or confirmation the receiver thread has in its hands counts with
\* those in flight.
MsgCopies(m)  == data[m] + One(Holds(m.to, "msg", m)) + shown[m]
AckCopies(m)  == acks[m] + One(Holds(m.from, "ackd", m)) + confirmed[m]
                 + One(Holds(m.to, "reply", m))

-------------------------------------------------------------------------------
(* Safety. *)

\* The two threads and the network never multiply anything: a message is on
\* its way or printed at most once, and confirmed at most once per print, but
\* for the copies the network itself made (recvThreadProc, onHandle).
Conservation ==
    \A m \in Msgs : /\ MsgCopies(m) <= One(m \in sent) + dups
                    /\ AckCopies(m) <= shown[m] + dups

\* While stop() has not begun, the receiver thread always finds the bound
\* socket in listen_fd_: no datagram is received from, and no confirmation is
\* sent to, a descriptor that is not ours (recvfrom, sendAckPacket).
SocketWhileRunning ==
    \A p \in Procs :
        running[p] /\ recv[p] \notin {"none", "exited", "gone"} => Usable(p)

\* listen_fd_ names a descriptor that was closed.
Stale(p) == listenFd[p] = Sock /\ ~open[p]

\* close() is called on a descriptor already closed only where bind() had failed
\* or SIGINT took the main thread away between a close and its reset, and the
\* reset is still due, or where the other thread is between the two at this
\* moment; and on standard input only where both threads are inside stop(), one
\* of them past its test of listen_fd_ when the other resets it (stop, sigint).
StrayClose ==
    \A p \in Procs :
        /\ main[p] = "close" /\ Stale(p) => torn[p] \/ recv[p] = "zero"
        /\ recv[p] = "close" /\ Stale(p) => torn[p] \/ main[p] = "zero"
        /\ main[p] = "close" /\ listenFd[p] = 0 => recv[p] = "end"
        /\ recv[p] = "close" /\ listenFd[p] = 0 => main[p] \in StopSteps

Serving(p) == main[p] = "input" /\ recv[p] # "exited"

\* Wherever stop() or the end of the process gets in between a print and its
\* confirmation, at most one printed text of a program stays unanswered, and it
\* is the last one: the receiver finds the flag cleared, or is gone, before it
\* takes another datagram (onHandle 120-123, recvThreadProc 75).
OneUnanswered ==
    \A p \in Procs :
        /\ owed[p] <= 1
        /\ owed[p] = 1 => recv[p] \notin {"call", "blocked", "msg", "ackd"}

\* The messages p sent to q, and the confirmations of q that p printed, each by
\* its message and its number.
SentTo(p, q)        == {m \in sent : m.from = p /\ m.to = q}
Confirmations(p, q) == UNION {{m} \X (1..confirmed[m]) : m \in SentTo(p, q)}

AllShown(p, q) == \A m \in SentTo(p, q) : shown[m] > 0

\* A user who read as many confirmations from a peer as he sent messages to it
\* knows that all of them were printed there, provided the network duplicated
\* nothing: a confirmation does not say which message it answers.
CountProvesDelivery ==
    \A p, q \in Procs :
        dups = 0 /\ Cardinality(Confirmations(p, q)) = Cardinality(SentTo(p, q))
            => AllShown(p, q)

\* In a step that takes the receiver from a printed message back to its loop,
\* a confirmation is sent.
Answered(p) == recv[p] = "reply" /\ recv'[p] = "check"
                   => acks'[hand[p]] = acks[hand[p]] + 1

\* An interrupted or finished program leaves the receiver thread behind at an
\* arbitrary point, but what was printed stays answerable: a print without a
\* confirmation sent (onHandle, lines 120-123) happens only once stop() began.
SilentPrint == [][\A p \in Procs : Answered(p) \/ ~running[p]]_vars

-------------------------------------------------------------------------------
(* The inductive invariant behind the safety properties. *)

\* While the receiver handles a datagram, it holds one that was meant for it.
HandInv ==
    \A p \in Procs :
        /\ recv[p] \in {"msg", "reply"} => hand[p] \in Msgs /\ hand[p].to = p
        /\ recv[p] = "ackd" => hand[p] \in Msgs /\ hand[p].from = p

\* How the main thread's place, the descriptor and the flag go together.
SocketInv ==
    \A p \in Procs :
        /\ main[p] \in ListenSteps \cup {"failed", "run"} => recv[p] = "none"
        /\ main[p] = "input" => recv[p] # "none"
        /\ main[p] = "listen" => listenFd[p] = 0
        /\ main[p] \in {"bind", "run", "input"} => Usable(p)
        /\ main[p] \in StopSteps \ {"flag"} => ~running[p]
        /\ main[p] = "end" => listenFd[p] = 0
        /\ ctx[p] # "main" => main[p] \in StopSteps \cup {"dead"}
        /\ recv[p] \in StopSteps => ctx[p] \in {"handler", "last"}
        /\ recv[p] \in StopSteps \ {"flag"} => ~running[p]
        /\ recv[p] = "gone" <=> main[p] = "dead"

\* A descriptor that was closed stays in listen_fd_ only until the thread that
\* closed it resets it, or for good (torn); and listen_fd_ is reset under a
\* thread about to close it only by the other thread's stop().
CloseInv ==
    /\ \A p \in Procs : recv[p] = "end" => listenFd[p] = 0
    /\ \A p \in Procs : Stale(p) =>
          torn[p] \/ main[p] = "zero" \/ recv[p] = "zero"
    /\ \A p \in Procs : main[p] = "close" /\ listenFd[p] = 0
          => recv[p] = "end"
    /\ \A p \in Procs : recv[p] = "close" /\ listenFd[p] = 0
          => main[p] \in StopSteps

\* Nothing is on its way before its cause: no print before the send, no
\* confirmation before the print.
CausalInv ==
    \A m \in Msgs :
        /\ (data[m] > 0 \/ shown[m] > 0 \/ Holds(m.to, "msg", m)) => m \in sent
        /\ (acks[m] > 0 \/ confirmed[m] > 0 \/ Holds(m.from, "ackd", m)
            \/ Holds(m.to, "reply", m)) => shown[m] > 0

\* A printed text without a confirmation sent is the one in the receiver's
\* hands, or the receiver will not look at another one.
AnswerInv ==
    /\ \A p \in Procs : owed[p] \in {0, 1}
    /\ \A p \in Procs : owed[p] = 1 =>
          \/ recv[p] = "reply"
          \/ recv[p] = "check" /\ ~running[p]
          \/ recv[p] \in {"exited", "gone"} \cup StopSteps
    /\ \A p \in Procs : recv[p] = "reply" => owed[p] = 1

\* The port is bound, and the receiver has not left its loop.
Undisturbed(p) == /\ main[p] \in {"run", "input"}
                  /\ recv[p] \in {"none"} \cup LoopSteps

\* Who sends has begun his input; who has printed, or was found bound, is past
\* its bind.
MetInv ==
    /\ \A m \in sent : main[m.from] \notin ListenSteps \cup {"failed", "run"}
    /\ met \subseteq sent
    /\ \A m \in Msgs : m \in met \/ shown[m] > 0
                          => main[m.to] \notin ListenSteps \cup {"failed"}

\* The other half of Conservation: over a network that loses nothing, a text
\* sent to a port that was bound is on its way, in the receiver's hands or
\* printed, and a confirmation on its way, in hands or read, as long as the
\* programs concerned are undisturbed (recvThreadProc, onHandle).
NothingLost ==
    ~Lossy =>
        /\ \A m \in met : Undisturbed(m.to) => MsgCopies(m) >= 1
        /\ \A m \in sent :
              Undisturbed(m.to) /\ Undisturbed(m.from) => AckCopies(m) >= shown[m]

\* One message after the other is sent: there are never infinitely many.
FiniteSent == IsFiniteSet(sent)

IInv == TypeOK /\ HandInv /\ SocketInv /\ SocketWhileRunning /\ CloseInv
        /\ CausalInv /\ AnswerInv /\ OneUnanswered /\ Conservation
        /\ MetInv /\ NothingLost /\ FiniteSent

-------------------------------------------------------------------------------
(* Liveness, under FairSpec. *)

\* Whoever enters stop() gets out of the program: SIGINT at any point of main,
\* of stop() or of the destructor never leaves the process hanging.
StopEnds == \A p \in Procs : main[p] \in StopSteps ~> main[p] = "dead"

\* With no loss, a message sent to a bound port is eventually confirmed unless
\* one of the two programs stops serving: neither thread can be starved by the
\* traffic.
EventuallyConfirmed ==
    ~Lossy => \A m \in Msgs :
        m \in met ~> (confirmed[m] > 0 \/ ~Serving(m.from) \/ ~Serving(m.to))

-------------------------------------------------------------------------------
(* Refinement. *)

Promise == INSTANCE AckedDelivery WITH
    displayed <- {m \in Msgs : shown[m] > 0},
    confirmed <- {m \in Msgs : confirmed[m] > 0}

\* The two threads, the lossy, reordering and duplicating network and the
\* shutdown implement the promise of AckedDelivery.
KeepsPromise == Promise!Spec

==============================================================================
