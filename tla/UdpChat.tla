------------------------------- MODULE UdpChat -------------------------------
(***************************************************************************)
(* The peer-to-peer chat of 4-project-udp-chat-v3: several processes, each *)
(* with a main thread (udp_chat.cpp: console loop, SIGINT handler, static  *)
(* destructor) and a detached receiver thread (UdpServer::recvThreadProc), *)
(* sharing one socket descriptor, and the UDP network between them.        *)
(*                                                                         *)
(* A text is a member of Msgs.  An acknowledgement carries no identity in  *)
(* the code; here it is counted under the message it answers, which no     *)
(* guard ever looks at.                                                    *)
(***************************************************************************)
EXTENDS Integers

CONSTANTS
    Procs,              \* chat processes, one per UDP endpoint
    Msgs,               \* messages the users type: [from, to, n]
    NoMsg,              \* what the receiver holds between two datagrams
    MaxDup,             \* bound: datagrams the network duplicates
    Lossy,              \* may the network drop datagrams?
    CloseWakesReceiver  \* does close() end a recvfrom blocked in another
                        \* thread?  TRUE on macOS, FALSE on Linux

ASSUME ConstantsAssumption ==
    /\ Msgs \subseteq [from : Procs, to : Procs, n : Nat]
    /\ NoMsg \notin Msgs
    /\ MaxDup \in Nat
    /\ Lossy \in BOOLEAN
    /\ CloseWakesReceiver \in BOOLEAN

VARIABLES
    main,       \* where the main thread is
    ctx,        \* on whose behalf it runs stop(): see Contexts
    recv,       \* where the receiver thread is
    hand,       \* the datagram the receiver is handling
    listenFd,   \* UdpServer::listen_fd_
    open,       \* does the descriptor Sock refer to the bound socket?
    running,    \* UdpServer::recv_thread_run_
    data,       \* copies of each message in flight
    acks,       \* acknowledgements in flight, by the message they answer
    dups,       \* datagrams duplicated so far
    sent,       \* messages handed to sendto
    shown,      \* times each message was printed by its receiver
    confirmed,  \* confirmations of each message printed by its sender
    met,        \* history, where nothing is lost: messages sent to a port that
                \* was bound then
    owed,       \* history: texts printed, confirmation not handed to sendto
    torn        \* history: was the descriptor closed by a step of the code
                \* whose reset of listen_fd_ will never come?

procVars == <<main, ctx, recv, hand, listenFd, open, running>>
netVars  == <<data, acks, dups>>
userVars == <<sent, shown, confirmed>>
histVars == <<met, owed, torn>>
vars     == <<procVars, netVars, userVars, histVars>>

Sock == 3               \* the descriptor socket() returns: 0, 1, 2 are taken

\* Steps of stop(): the flag and the test, the close, the reset, the return.
StopSteps == {"flag", "close", "zero", "end"}
\* listen() on its way to a bound socket, and its return without one.
ListenSteps == {"listen", "bind"}
MainSteps == ListenSteps \cup {"failed", "run", "input", "dead"} \cup StopSteps
\* stop() is called by main, by the SIGINT handler, by the static destructor
\* after main returned, and by whatever runs last with SIGINT blocked or with
\* nothing left to interrupt.
Contexts  == {"main", "handler", "dtor", "last"}
\* The receiver thread, too, may run stop(), in the signal handler.
LoopSteps == {"check", "call", "blocked", "msg", "reply", "ackd"}
RecvSteps == {"none", "exited", "gone"} \cup LoopSteps \cup StopSteps

TypeOK ==
    /\ main \in [Procs -> MainSteps]
    /\ ctx \in [Procs -> Contexts]
    /\ recv \in [Procs -> RecvSteps]
    /\ hand \in [Procs -> Msgs \cup {NoMsg}]
    /\ listenFd \in [Procs -> {-1, 0, Sock}]
    /\ open \in [Procs -> BOOLEAN]
    /\ running \in [Procs -> BOOLEAN]
    /\ data \in [Msgs -> Nat]
    /\ acks \in [Msgs -> Nat]
    /\ dups \in 0..MaxDup
    /\ sent \in SUBSET Msgs
    /\ shown \in [Msgs -> Nat]
    /\ confirmed \in [Msgs -> Nat]
    /\ met \in SUBSET Msgs
    /\ owed \in [Procs -> Int]
    /\ torn \in [Procs -> BOOLEAN]

Init ==
    /\ main = [p \in Procs |-> "listen"]
    /\ ctx = [p \in Procs |-> "main"]
    /\ recv = [p \in Procs |-> "none"]
    /\ hand = [p \in Procs |-> NoMsg]
    /\ listenFd = [p \in Procs |-> 0]
    /\ open = [p \in Procs |-> FALSE]
    /\ running = [p \in Procs |-> TRUE]
    /\ data = [m \in Msgs |-> 0]
    /\ acks = [m \in Msgs |-> 0]
    /\ dups = 0
    /\ sent = {}
    /\ shown = [m \in Msgs |-> 0]
    /\ confirmed = [m \in Msgs |-> 0]
    /\ met = {}
    /\ owed = [p \in Procs |-> 0]
    /\ torn = [p \in Procs |-> FALSE]

\* The descriptor a thread reads from listen_fd_ is the open socket.
Usable(p) == listenFd[p] = Sock /\ open[p]

\* A blocked recvfrom keeps the socket alive on Linux, also after close().
CanDeliver(p) == recv[p] = "blocked" /\ (open[p] \/ ~CloseWakesReceiver)

\* The kernel has a socket for p's port, which may be read some time.
Bound(p) == \/ open[p] /\ (main[p] = "run" \/ recv[p] # "none")
            \/ CanDeliver(p)

-------------------------------------------------------------------------------
(* The main thread. *)

\* socket(), and its result in listen_fd_.
CreateSocket(p) ==
    /\ main[p] = "listen"
    /\ open' = [open EXCEPT ![p] = TRUE]
    /\ listenFd' = [listenFd EXCEPT ![p] = Sock]
    /\ main' = [main EXCEPT ![p] = "bind"]
    /\ UNCHANGED <<ctx, recv, hand, running, netVars, userVars, histVars>>

SocketFails(p) ==
    /\ main[p] = "listen"
    /\ listenFd' = [listenFd EXCEPT ![p] = -1]
    /\ main' = [main EXCEPT ![p] = "failed"]
    /\ UNCHANGED <<ctx, recv, hand, open, running, netVars, userVars, histVars>>

Bind(p) ==
    /\ main[p] = "bind"
    /\ main' = [main EXCEPT ![p] = "run"]
    /\ UNCHANGED <<ctx, recv, hand, listenFd, open, running, netVars, userVars,
                   histVars>>

\* The descriptor is closed, but stays in listen_fd_.
BindFails(p) ==
    /\ main[p] = "bind"
    /\ open' = [open EXCEPT ![p] = FALSE]
    /\ torn' = [torn EXCEPT ![p] = TRUE]
    /\ main' = [main EXCEPT ![p] = "failed"]
    /\ UNCHANGED <<ctx, recv, hand, listenFd, running, netVars, userVars, met,
                   owed>>

\* main returns without a socket, and the destructor calls stop().
GiveUp(p) ==
    /\ main[p] = "failed"
    /\ main' = [main EXCEPT ![p] = "flag"]
    /\ ctx' = [ctx EXCEPT ![p] = "dtor"]
    /\ UNCHANGED <<recv, hand, listenFd, open, running, netVars, userVars,
                   histVars>>

Listen(p) == CreateSocket(p) \/ SocketFails(p) \/ Bind(p) \/ BindFails(p)
             \/ GiveUp(p)

Run(p) ==
    /\ main[p] = "run"
    /\ main' = [main EXCEPT ![p] = "input"]
    /\ recv' = [recv EXCEPT ![p] = "check"]
    /\ UNCHANGED <<ctx, hand, listenFd, open, running, netVars, userVars,
                   histVars>>

\* The user types a well-formed line and sendto accepts it.
SendMsg(p, m) ==
    /\ main[p] = "input"
    /\ m \in Msgs \ sent
    /\ m.from = p
    /\ Usable(p)
    /\ sent' = sent \cup {m}
    /\ data' = [data EXCEPT ![m] = @ + 1]
    /\ met' = IF ~Lossy /\ Bound(m.to) THEN met \cup {m} ELSE met
    /\ UNCHANGED <<procVars, acks, dups, shown, confirmed, owed, torn>>

\* sendto returns -1, or the user types exit.
LeaveLoop(p) ==
    /\ main[p] = "input"
    /\ main' = [main EXCEPT ![p] = "flag"]
    /\ UNCHANGED <<ctx, recv, hand, listenFd, open, running, netVars, userVars,
                   histVars>>

\* The flag is cleared and listen_fd_ tested: nobody who reads the flag writes
\* listen_fd_, so that nothing between the two would matter.
StopFlag(p) ==
    /\ main[p] = "flag"
    /\ running' = [running EXCEPT ![p] = FALSE]
    /\ main' = [main EXCEPT ![p] = IF listenFd[p] # 0 THEN "close" ELSE "end"]
    /\ UNCHANGED <<ctx, recv, hand, listenFd, open, netVars, userVars,
                   histVars>>

\* Whether the socket is open after close(listen_fd_), which reads listen_fd_
\* once more.
AfterClose(p) == [open EXCEPT ![p] = @ /\ listenFd[p] # Sock]

\* Mutant: stop() waits for the receiver thread before it returns.
StopCloseJoins(p) ==
    /\ main[p] = "close"
    /\ recv[p] \in {"none", "exited"}
    /\ open' = AfterClose(p)
    /\ main' = [main EXCEPT ![p] = "zero"]
    /\ UNCHANGED <<ctx, recv, hand, listenFd, running, netVars, userVars,
                   histVars>>

StopClose(p) ==
    /\ main[p] = "close"
    /\ open' = AfterClose(p)
    /\ main' = [main EXCEPT ![p] = "zero"]
    /\ UNCHANGED <<ctx, recv, hand, listenFd, running, netVars, userVars,
                   histVars>>

\* Mutant: the descriptor is not reset, as in clean() of version 1.
StopZeroForgotten(p) ==
    /\ main[p] = "zero"
    /\ main' = [main EXCEPT ![p] = "end"]
    /\ UNCHANGED <<ctx, recv, hand, listenFd, open, running, netVars,
                   userVars, histVars>>

StopZero(p) ==
    /\ main[p] = "zero"
    /\ listenFd' = [listenFd EXCEPT ![p] = 0]
    /\ torn' = [torn EXCEPT ![p] = FALSE]
    /\ main' = [main EXCEPT ![p] = "end"]
    /\ UNCHANGED <<ctx, recv, hand, open, running, netVars, userVars, met,
                   owed>>

\* stop() returned to main or to the handler: the process runs its static
\* destructors, and stop() once more.
StopReturn(p) ==
    /\ main[p] = "end"
    /\ ctx[p] \in {"main", "handler"}
    /\ main' = [main EXCEPT ![p] = "flag"]
    /\ ctx' = [ctx EXCEPT ![p] = IF @ = "main" THEN "dtor" ELSE "last"]
    /\ UNCHANGED <<recv, hand, listenFd, open, running, netVars, userVars,
                   histVars>>

\* The process ends: the kernel takes its memory, its socket, and the detached
\* receiver thread, wherever that thread is.
EndProcess(p) ==
    /\ main' = [main EXCEPT ![p] = "dead"]
    /\ recv' = [recv EXCEPT ![p] = "gone"]
    /\ hand' = [hand EXCEPT ![p] = NoMsg]
    /\ ctx' = [ctx EXCEPT ![p] = "last"]
    /\ listenFd' = [listenFd EXCEPT ![p] = 0]
    /\ open' = [open EXCEPT ![p] = FALSE]
    /\ running' = [running EXCEPT ![p] = FALSE]
    /\ torn' = [torn EXCEPT ![p] = FALSE]
    /\ UNCHANGED <<netVars, userVars, met, owed>>

\* The destructor is done.
Die(p) ==
    /\ main[p] = "end"
    /\ ctx[p] \in {"dtor", "last"}
    /\ EndProcess(p)

\* The main thread closed the descriptor, and nobody has reset it since.
CloseUnreset(p) == main[p] = "zero" /\ listenFd[p] = Sock

\* The first ctrl+c is taken by the main thread, whose work its handler replaces
\* for good: of a stop() that had closed the descriptor, the reset never comes.
\* The signal is blocked while the handler runs, exit(0) included; inside the
\* destructor of an ordinary return it is not, and then no destructor is left
\* to run.
Sigint(p) ==
    /\ main[p] # "dead"
    /\ ctx[p] \in {"main", "dtor"}
    /\ main' = [main EXCEPT ![p] = "flag"]
    /\ ctx' = [ctx EXCEPT ![p] = IF @ = "main" THEN "handler" ELSE "last"]
    /\ torn' = [torn EXCEPT ![p] = @ \/ CloseUnreset(p)]
    /\ UNCHANGED <<recv, hand, listenFd, open, running, netVars, userVars, met,
                   owed>>

-------------------------------------------------------------------------------
(* The receiver thread. *)

CheckFlag(p) ==
    /\ recv[p] = "check"
    /\ recv' = [recv EXCEPT ![p] = IF running[p] THEN "call" ELSE "exited"]
    /\ UNCHANGED <<main, ctx, hand, listenFd, open, running, netVars,
                   userVars, histVars>>

\* recvfrom(listen_fd_): EBADF on a closed descriptor, ENOTSOCK on 0.
CallRecv(p) ==
    /\ recv[p] = "call"
    /\ recv' = [recv EXCEPT ![p] = IF Usable(p) THEN "blocked" ELSE "exited"]
    /\ UNCHANGED <<main, ctx, hand, listenFd, open, running, netVars,
                   userVars, histVars>>

\* Mutant: the message is acknowledged on arrival and never printed.
DeliverMsgUnprinted(p, m) ==
    /\ CanDeliver(p)
    /\ m.to = p
    /\ data[m] > 0
    /\ data' = [data EXCEPT ![m] = @ - 1]
    /\ recv' = [recv EXCEPT ![p] = "reply"]
    /\ hand' = [hand EXCEPT ![p] = m]
    /\ UNCHANGED <<main, ctx, listenFd, open, running, acks, dups, userVars,
                   histVars>>

DeliverMsg(p, m) ==
    /\ CanDeliver(p)
    /\ m.to = p
    /\ data[m] > 0
    /\ data' = [data EXCEPT ![m] = @ - 1]
    /\ recv' = [recv EXCEPT ![p] = "msg"]
    /\ hand' = [hand EXCEPT ![p] = m]
    /\ UNCHANGED <<main, ctx, listenFd, open, running, acks, dups, userVars,
                   histVars>>

DeliverAck(p, m) ==
    /\ CanDeliver(p)
    /\ m.from = p
    /\ acks[m] > 0
    /\ acks' = [acks EXCEPT ![m] = @ - 1]
    /\ recv' = [recv EXCEPT ![p] = "ackd"]
    /\ hand' = [hand EXCEPT ![p] = m]
    /\ UNCHANGED <<main, ctx, listenFd, open, running, data, dups, userVars,
                   histVars>>

\* recvfrom returns -1: the thread leaves its loop, the process goes on.
RecvError(p) ==
    /\ recv[p] = "blocked"
    /\ recv' = [recv EXCEPT ![p] = "exited"]
    /\ UNCHANGED <<main, ctx, hand, listenFd, open, running, netVars,
                   userVars, histVars>>

\* memcpy writes eight bytes behind the body: the process may die of it.
Overrun(p) == recv[p] = "msg" /\ EndProcess(p)

ShowMsg(p) ==
    /\ recv[p] = "msg"
    /\ shown' = [shown EXCEPT ![hand[p]] = @ + 1]
    /\ owed' = [owed EXCEPT ![p] = @ + 1]
    /\ recv' = [recv EXCEPT ![p] = "reply"]
    /\ UNCHANGED <<main, ctx, hand, listenFd, open, running, netVars, sent,
                   confirmed, met, torn>>

\* Mutant: the call of sendAckPacket is missing.
SendAckMissing(p) ==
    /\ recv[p] = "reply"
    /\ recv' = [recv EXCEPT ![p] = "check"]
    /\ hand' = [hand EXCEPT ![p] = NoMsg]
    /\ UNCHANGED <<main, ctx, listenFd, open, running, netVars, userVars,
                   histVars>>

\* Mutant: the confirmation is sent twice, against losses.
SendAckTwice(p) ==
    /\ recv[p] = "reply"
    /\ acks' = IF Usable(p) THEN [acks EXCEPT ![hand[p]] = @ + 2] ELSE acks
    /\ owed' = IF Usable(p) THEN [owed EXCEPT ![p] = @ - 1] ELSE owed
    /\ recv' = [recv EXCEPT ![p] = "check"]
    /\ hand' = [hand EXCEPT ![p] = NoMsg]
    /\ UNCHANGED <<main, ctx, listenFd, open, running, data, dups, userVars,
                   met, torn>>

\* sendAckPacket, whose result nobody looks at.
SendAck(p) ==
    /\ recv[p] = "reply"
    /\ acks' = IF Usable(p) THEN [acks EXCEPT ![hand[p]] = @ + 1] ELSE acks
    /\ owed' = IF Usable(p) THEN [owed EXCEPT ![p] = @ - 1] ELSE owed
    /\ recv' = [recv EXCEPT ![p] = "check"]
    /\ hand' = [hand EXCEPT ![p] = NoMsg]
    /\ UNCHANGED <<main, ctx, listenFd, open, running, data, dups, userVars,
                   met, torn>>

ShowAck(p) ==
    /\ recv[p] = "ackd"
    /\ confirmed' = [confirmed EXCEPT ![hand[p]] = @ + 1]
    /\ recv' = [recv EXCEPT ![p] = "check"]
    /\ hand' = [hand EXCEPT ![p] = NoMsg]
    /\ UNCHANGED <<main, ctx, listenFd, open, running, netVars, sent, shown,
                   histVars>>

\* A second ctrl+c, while the main thread has the signal blocked: the receiver
\* thread leaves what it was doing for sigint(), stop() and exit(0).
SigintAgain(p) ==
    /\ ctx[p] \in {"handler", "last"}
    /\ recv[p] \in LoopSteps
    /\ recv' = [recv EXCEPT ![p] = "flag"]
    /\ hand' = [hand EXCEPT ![p] = NoMsg]
    /\ UNCHANGED <<main, ctx, listenFd, open, running, netVars, userVars,
                   histVars>>

RecvStopFlag(p) ==
    /\ recv[p] = "flag"
    /\ running' = [running EXCEPT ![p] = FALSE]
    /\ recv' = [recv EXCEPT ![p] = IF listenFd[p] # 0 THEN "close" ELSE "end"]
    /\ UNCHANGED <<main, ctx, hand, listenFd, open, netVars, userVars,
                   histVars>>

RecvStopClose(p) ==
    /\ recv[p] = "close"
    /\ open' = AfterClose(p)
    /\ recv' = [recv EXCEPT ![p] = "zero"]
    /\ UNCHANGED <<main, ctx, hand, listenFd, running, netVars, userVars,
                   histVars>>

RecvStopZero(p) ==
    /\ recv[p] = "zero"
    /\ listenFd' = [listenFd EXCEPT ![p] = 0]
    /\ torn' = [torn EXCEPT ![p] = FALSE]
    /\ recv' = [recv EXCEPT ![p] = "end"]
    /\ UNCHANGED <<main, ctx, hand, open, running, netVars, userVars, met,
                   owed>>

\* exit(0): the destructor's stop() finds flag and descriptor reset, and the
\* process ends, wherever its main thread is.
RecvDie(p) == recv[p] = "end" /\ EndProcess(p)

-------------------------------------------------------------------------------
(* The network: datagrams overtake each other (counters keep no order), get *)
(* lost, and are duplicated at most MaxDup times.  One that arrives at a    *)
(* port nobody has bound (v3 prints its port before listen() is called) is  *)
(* thrown away also where the network loses nothing.                        *)

LoseMsg(m) ==
    /\ Lossy \/ ~Bound(m.to)
    /\ data[m] > 0
    /\ data' = [data EXCEPT ![m] = @ - 1]
    /\ UNCHANGED <<procVars, acks, dups, userVars, histVars>>

LoseAck(m) ==
    /\ Lossy \/ ~Bound(m.from)
    /\ acks[m] > 0
    /\ acks' = [acks EXCEPT ![m] = @ - 1]
    /\ UNCHANGED <<procVars, data, dups, userVars, histVars>>

DupMsg(m) ==
    /\ dups < MaxDup
    /\ data[m] > 0
    /\ data' = [data EXCEPT ![m] = @ + 1]
    /\ dups' = dups + 1
    /\ UNCHANGED <<procVars, acks, userVars, histVars>>

DupAck(m) ==
    /\ dups < MaxDup
    /\ acks[m] > 0
    /\ acks' = [acks EXCEPT ![m] = @ + 1]
    /\ dups' = dups + 1
    /\ UNCHANGED <<procVars, data, userVars, histVars>>

-------------------------------------------------------------------------------
Stop(p)     == StopFlag(p) \/ StopClose(p) \/ StopZero(p) \/ StopReturn(p)
               \/ Die(p)
RecvStop(p) == RecvStopFlag(p) \/ RecvStopClose(p) \/ RecvStopZero(p)
               \/ RecvDie(p)
User(p)     == LeaveLoop(p) \/ Sigint(p) \/ SigintAgain(p)
               \/ \E m \in Msgs : SendMsg(p, m)
Handle(p)   == ShowMsg(p) \/ SendAck(p) \/ ShowAck(p)
Receiver(p) == CheckFlag(p) \/ CallRecv(p) \/ Handle(p) \/ RecvStop(p)
               \/ \E m \in Msgs : DeliverMsg(p, m) \/ DeliverAck(p, m)
Network     == \E m \in Msgs : \/ LoseMsg(m) \/ LoseAck(m)
                              \/ DupMsg(m) \/ DupAck(m)

\* Every process has ended: the only way the whole system may stop.
AllDead == (\A p \in Procs : main[p] = "dead") /\ UNCHANGED vars

Next ==
    \/ \E p \in Procs : \/ Listen(p) \/ Run(p) \/ Stop(p)
                        \/ User(p)
                        \/ Receiver(p) \/ RecvError(p) \/ Overrun(p)
    \/ Network
    \/ AllDead

Spec == Init /\ [][Next]_vars

\* The scheduler runs both threads of a live process, and the kernel hands a
\* datagram that is not lost to a blocked recvfrom.  Users, signals, errors
\* and losses are not obliged to happen.
Fairness ==
    \A p \in Procs :
        /\ WF_vars(Listen(p) \/ Run(p) \/ Stop(p))
        /\ WF_vars(Receiver(p))
        /\ WF_vars(CloseWakesReceiver /\ ~open[p] /\ RecvError(p))

FairSpec == Spec /\ Fairness
==============================================================================
