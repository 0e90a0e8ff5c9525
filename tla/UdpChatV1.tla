------------------------------ MODULE UdpChatV1 -------------------------------
(***************************************************************************)
(* The first version of the chat (2-project-udp-chat-v1/udp_chat.cpp):     *)
(* free functions and two globals, g_listen_fd and g_recv_thread_run_.     *)
(* Unlike UdpChat, nothing is confirmed, no destructor cleans up, clean()  *)
(* neither tests nor resets the descriptor, and the receiver thread works  *)
(* on a copy of it, made once it was bound.                                *)
(*                                                                         *)
(* A lost datagram is one that stays in flight for ever.                   *)
(***************************************************************************)
EXTENDS Integers

CONSTANTS
    Procs,      \* chat processes, one per UDP endpoint
    Msgs,       \* messages the users type: [from, to, n]
    NoMsg,      \* what the receiver holds between two datagrams
    MaxDup      \* bound: datagrams the network duplicates

ASSUME V1Assumption ==
    /\ Msgs \subseteq [from : Procs, to : Procs, n : Nat]
    /\ NoMsg \notin Msgs
    /\ MaxDup \in Nat

VARIABLES
    proc,       \* the state of each process: see ProcType
    data,       \* copies of each message in flight
    dups,       \* datagrams duplicated so far
    sent,       \* messages handed to sendto
    shown       \* messages printed by their receiver

vars == <<proc, data, dups, sent, shown>>

Stdin == 0
Sock  == 3              \* the descriptor socket() returns: 0, 1, 2 are taken

CleanSteps == {"flag", "close", "over"}
MainSteps  == {"socket", "store", "bind", "run", "input", "dead"} \cup CleanSteps
\* The receiver thread goes through CleanSteps as well, in the signal handler.
RecvSteps  == {"none", "check", "call", "blocked", "msg", "exited", "gone"}
              \cup CleanSteps

ProcType ==
    [main : MainSteps,                  \* where the main thread is
     handler : BOOLEAN,                 \* does it run the handler of SIGINT?
     arg : {-1, Stdin, Sock},           \* clean()'s parameter listen_fd
     recv : RecvSteps,                  \* where the receiver thread is
     hand : Msgs \cup {NoMsg},          \* the datagram it is handling
     listenFd : {-1, 0, Sock},          \* g_listen_fd
     open : SUBSET {Stdin, Sock},       \* the open ones of these descriptors
     running : BOOLEAN,                 \* g_recv_thread_run_
     late : Nat]    \* history: messages printed since the flag was cleared

TypeOK ==
    /\ proc \in [Procs -> ProcType]
    /\ data \in [Msgs -> Nat]
    /\ dups \in 0..MaxDup
    /\ sent \subseteq Msgs
    /\ shown \subseteq Msgs

Init ==
    /\ proc = [p \in Procs |->
                 [main |-> "socket", handler |-> FALSE, arg |-> 0,
                  recv |-> "none", hand |-> NoMsg, listenFd |-> 0,
                  open |-> {Stdin}, running |-> TRUE, late |-> 0]]
    /\ data = [m \in Msgs |-> 0]
    /\ dups = 0
    /\ sent = {}
    /\ shown = {}

Main(p, step) == proc[p].main = step
Recv(p, step) == proc[p].recv = step
Local         == UNCHANGED <<data, dups, sent, shown>>

-------------------------------------------------------------------------------
(* init_server_socket, on g_listen_fd. *)

\* socket() returned, but out_fd is not assigned yet.
CreateSocket(p) ==
    /\ Main(p, "socket")
    /\ proc' = [proc EXCEPT ![p].open = @ \cup {Sock}, ![p].main = "store"]
    /\ Local

\* The descriptor is -1, and main returns at once.
SocketFails(p) ==
    /\ Main(p, "socket")
    /\ proc' = [proc EXCEPT ![p].listenFd = -1, ![p].main = "over"]
    /\ Local

StoreFd(p) ==
    /\ Main(p, "store")
    /\ proc' = [proc EXCEPT ![p].listenFd = Sock, ![p].main = "bind"]
    /\ Local

Bind(p) ==
    /\ Main(p, "bind")
    /\ proc' = [proc EXCEPT ![p].main = "run"]
    /\ Local

\* Mutant: main goes on to its clean() after a failed bind, too.
BindFailsCleans(p) ==
    /\ Main(p, "bind")
    /\ proc' = [proc EXCEPT ![p].open = @ \ {Sock}, ![p].main = "flag",
                            ![p].arg = proc[p].listenFd]
    /\ Local

\* bind() fails: the socket is closed but stays in g_listen_fd, main returns.
BindFails(p) ==
    /\ Main(p, "bind")
    /\ proc' = [proc EXCEPT ![p].open = @ \ {Sock}, ![p].main = "over"]
    /\ Local

-------------------------------------------------------------------------------
(* The rest of the main thread: main, clean, sigint. *)

\* std::thread with a copy of g_listen_fd, detached.
Run(p) ==
    /\ Main(p, "run")
    /\ proc' = [proc EXCEPT ![p].main = "input", ![p].recv = "check"]
    /\ Local

\* The user types a well-formed line and sendto accepts it.
SendMsg(p, m) ==
    /\ Main(p, "input")
    /\ m \in Msgs \ sent
    /\ m.from = p
    /\ proc[p].listenFd \in proc[p].open
    /\ sent' = sent \cup {m}
    /\ data' = [data EXCEPT ![m] = @ + 1]
    /\ UNCHANGED <<proc, dups, shown>>

\* The user types exit, or sendto returns -1: clean(g_listen_fd).
LeaveLoop(p) ==
    /\ Main(p, "input")
    /\ proc' = [proc EXCEPT ![p].main = "flag", ![p].arg = proc[p].listenFd]
    /\ Local

CleanFlag(p) ==
    /\ Main(p, "flag")
    /\ proc' = [proc EXCEPT ![p].running = FALSE, ![p].main = "close"]
    /\ Local

\* Mutant: clean() waits for the receiver thread to leave its loop.
CleanCloseJoins(p) ==
    /\ Main(p, "close")
    /\ Recv(p, "none") \/ Recv(p, "exited")
    /\ proc' = [proc EXCEPT ![p].open = @ \ {proc[p].arg}, ![p].main = "over"]
    /\ Local

\* close(listen_fd), whatever that is.
CleanClose(p) ==
    /\ Main(p, "close")
    /\ proc' = [proc EXCEPT ![p].open = @ \ {proc[p].arg}, ![p].main = "over"]
    /\ Local

\* ctrl+c, taken by the main thread, whose work its handler replaces for good.
Sigint(p) ==
    /\ ~Main(p, "dead") /\ ~proc[p].handler
    /\ proc' = [proc EXCEPT ![p].main = "flag", ![p].arg = proc[p].listenFd,
                            ![p].handler = TRUE]
    /\ Local

\* A thread is through exit(), or main has returned: the process ends, and the
\* detached receiver thread with it, wherever that is.
Die(p) ==
    /\ ~Main(p, "dead")
    /\ Main(p, "over") \/ Recv(p, "over")
    /\ proc' = [proc EXCEPT ![p].main = "dead", ![p].recv = "gone",
                            ![p].hand = NoMsg]
    /\ Local

-------------------------------------------------------------------------------
(* The receiver thread. *)

\* Mutant: the loop does not look at the flag.
CheckFlagIgnored(p) ==
    /\ Recv(p, "check")
    /\ proc' = [proc EXCEPT ![p].recv = "call"]
    /\ Local

CheckFlag(p) ==
    /\ Recv(p, "check")
    /\ proc' = [proc EXCEPT ![p].recv =
                               IF proc[p].running THEN "call" ELSE "exited"]
    /\ Local

\* recvfrom on the thread's copy of the descriptor: EBADF once it is closed.
CallRecv(p) ==
    /\ Recv(p, "call")
    /\ proc' = [proc EXCEPT ![p].recv =
                               IF Sock \in proc[p].open THEN "blocked" ELSE "exited"]
    /\ Local

\* A blocked recvfrom keeps the socket alive on Linux, also after close().
Deliver(p, m) ==
    /\ Recv(p, "blocked")
    /\ m.to = p
    /\ data[m] > 0
    /\ data' = [data EXCEPT ![m] = @ - 1]
    /\ proc' = [proc EXCEPT ![p].recv = "msg", ![p].hand = m]
    /\ UNCHANGED <<dups, sent, shown>>

\* recvfrom returns -1: the thread leaves its loop, the process goes on.  On
\* macOS that is what close() in another thread brings about.
RecvError(p) ==
    /\ Recv(p, "blocked")
    /\ proc' = [proc EXCEPT ![p].recv = "exited"]
    /\ Local

Show(p) ==
    /\ Recv(p, "msg")
    /\ shown' = shown \cup {proc[p].hand}
    /\ proc' = [proc EXCEPT ![p].recv = "check", ![p].hand = NoMsg,
                            ![p].late = IF proc[p].running THEN @ ELSE @ + 1]
    /\ UNCHANGED <<data, dups, sent>>

\* A second ctrl+c, while the main thread has the signal blocked in its handler,
\* is taken by the receiver thread: sigint(), clean(g_listen_fd), exit(0).
SigintAgain(p) ==
    /\ proc[p].handler
    /\ \E step \in {"check", "call", "blocked", "msg"} : Recv(p, step)
    /\ proc' = [proc EXCEPT ![p].recv = "flag", ![p].hand = NoMsg]
    /\ Local

\* Mutant: the descriptor is closed before the flag is cleared.
RecvCleanSwapped(p) ==
    /\ \/ /\ Recv(p, "flag")
          /\ proc' = [proc EXCEPT ![p].open = @ \ {proc[p].listenFd},
                                  ![p].recv = "close"]
       \/ /\ Recv(p, "close")
          /\ proc' = [proc EXCEPT ![p].running = FALSE, ![p].recv = "over"]
    /\ Local

RecvClean(p) ==
    /\ \/ /\ Recv(p, "flag")
          /\ proc' = [proc EXCEPT ![p].running = FALSE, ![p].recv = "close"]
       \/ /\ Recv(p, "close")
          /\ proc' = [proc EXCEPT ![p].open = @ \ {proc[p].listenFd},
                                  ![p].recv = "over"]
    /\ Local

-------------------------------------------------------------------------------
\* The network: datagrams overtake each other and are duplicated.
Dup(m) ==
    /\ dups < MaxDup
    /\ data[m] > 0
    /\ data' = [data EXCEPT ![m] = @ + 1]
    /\ dups' = dups + 1
    /\ UNCHANGED <<proc, sent, shown>>

Setup(p)    == CreateSocket(p) \/ SocketFails(p) \/ StoreFd(p) \/ Bind(p)
               \/ BindFails(p) \/ Run(p)
Clean(p)    == CleanFlag(p) \/ CleanClose(p) \/ Die(p)
User(p)     == LeaveLoop(p) \/ Sigint(p) \/ SigintAgain(p)
               \/ \E m \in Msgs : SendMsg(p, m)
Receiver(p) == CheckFlag(p) \/ CallRecv(p) \/ RecvError(p) \/ Show(p)
               \/ RecvClean(p) \/ \E m \in Msgs : Deliver(p, m)

\* Every process has ended: the only way the whole system may stop.
AllDead == (\A p \in Procs : Main(p, "dead")) /\ UNCHANGED vars

Next == \/ \E p \in Procs : Setup(p) \/ Clean(p) \/ User(p) \/ Receiver(p)
        \/ \E m \in Msgs : Dup(m)
        \/ AllDead

Spec == Init /\ [][Next]_vars

\* The scheduler runs the main thread of a live process.
FairSpec == Spec /\ \A p \in Procs : WF_vars(Setup(p) \/ Clean(p))

-------------------------------------------------------------------------------
(* Properties. *)

\* The flag is checked once per datagram and close() need not wake a blocked
\* recvfrom, so text may still be printed after clean() cleared the flag, but
\* never more than one (clean, recv_thread_proc lines 57-63).
LatePrint == \A p \in Procs : proc[p].late <= 1

\* clean() closes the bound socket and nothing else, unless SIGINT called it:
\* before socket() returned, when it closes standard input, or after a close().
\* Once standard input is closed nobody reads it any more.
ClosesItsOwn ==
    \A p \in Procs :
        /\ Main(p, "close") /\ ~proc[p].handler
              => proc[p].arg = Sock /\ Sock \in proc[p].open
        /\ Stdin \notin proc[p].open
              => proc[p].recv \in {"none", "gone"} /\ ~Main(p, "input")

\* Whoever begins to clean up gets out of the program, wherever the receiver
\* thread is: nobody waits for it (clean, line 89).
CleanEnds == \A p \in Procs : proc[p].main \in CleanSteps ~> Main(p, "dead")

-------------------------------------------------------------------------------
(* The inductive invariant behind the safety properties. *)

One(b) == IF b THEN 1 ELSE 0

\* The one late text is the one the receiver was past its check for.
LateInv(x) ==
    /\ x.running => x.late = 0
    /\ x.late + One(x.recv \in {"call", "blocked", "msg"}) <= 1

\* Which thread may have cleared the flag or closed the descriptor, and when.
CleanInv(x) ==
    /\ x.main \in {"socket", "store", "bind", "run"} => x.recv = "none"
    /\ x.main \in {"store", "bind", "run", "input"} => Sock \in x.open
    /\ x.main \in {"bind", "run", "input"} => x.listenFd = Sock
    /\ x.handler => x.main \in CleanSteps \cup {"dead"}
    /\ x.recv \in CleanSteps => x.handler
    /\ x.main = "close" \/ x.recv \in {"close", "over"} => ~x.running

\* What clean() is about to close, and who may be left without standard input.
FdInv(x) ==
    /\ x.main \in {"flag", "close"} /\ ~x.handler => x.arg = Sock /\ Sock \in x.open
    /\ x.recv \notin {"none", "gone"}
          => /\ x.listenFd = Sock
             /\ x.main \in {"flag", "close"} => x.arg = Sock
    /\ Stdin \notin x.open
          => /\ x.recv \in {"none", "gone"}
             /\ x.main \in CleanSteps \cup {"dead"}

\* The receiver thread, which keeps its own copy of the descriptor, finds it
\* open for as long as nobody has begun to clean up.
SocketInv(x) ==
    x.running /\ x.recv \notin {"none", "exited", "gone"} => Sock \in x.open

\* Past recvfrom the receiver thread has a datagram in hand.
HandInv(x) == x.recv = "msg" => x.hand \in Msgs

Good(x) == HandInv(x) /\ LateInv(x) /\ CleanInv(x) /\ FdInv(x) /\ SocketInv(x)

\* What is printed, in hand or on its way was sent.
SentInv ==
    \A m \in Msgs :
        data[m] > 0 \/ m \in shown \/ (\E p \in Procs : proc[p].hand = m)
            => m \in sent

\* The type invariant, the thread invariants of every process, and the one of
\* the messages: no thread meets a state another thread should have prevented.
IInv == TypeOK /\ SentInv /\ \A p \in Procs : Good(proc[p])
===============================================================================
