--------------------------- MODULE UdpChatV1Proofs ---------------------------
(***************************************************************************)
(* Proofs about the first version of the chat.  The invariants of the      *)
(* threads speak of one process, so for each action a lemma about one      *)
(* record carries them over its step; what remains of the step is that it  *)
(* replaces the record of one process.                                     *)
(***************************************************************************)
EXTENDS UdpChatV1, TLAPS

\* The states of a process that the invariant allows.
Fine == {x \in ProcType : Good(x)}

LEMMA StepNames ==
  /\ {"socket", "store", "bind", "run", "input", "dead", "flag", "close", "over"}
        \subseteq MainSteps
  /\ {"none", "check", "call", "blocked", "msg", "exited", "gone", "flag",
      "close", "over"} \subseteq RecvSteps
BY DEF MainSteps, RecvSteps, CleanSteps

-------------------------------------------------------------------------------
(* What each action makes of an allowed state of its process. *)

LEMMA CreateSocketFine ==
  ASSUME NEW x \in Fine, x.main = "socket"
  PROVE  [x EXCEPT !.open = @ \cup {Sock}, !.main = "store"] \in Fine
<1> DEFINE y == [x EXCEPT !.open = @ \cup {Sock}, !.main = "store"]
<1>1. y \in ProcType
  BY StepNames DEF Fine, ProcType, Stdin, Sock
<1>2. Good(y)
  BY DEF Fine, ProcType, Good, HandInv, LateInv, One, CleanInv, FdInv,
         SocketInv, CleanSteps, Stdin, Sock
<1>3. QED
  BY <1>1, <1>2 DEF Fine

LEMMA SocketFailsFine ==
  ASSUME NEW x \in Fine, x.main = "socket"
  PROVE  [x EXCEPT !.listenFd = -1, !.main = "over"] \in Fine
<1> DEFINE y == [x EXCEPT !.listenFd = -1, !.main = "over"]
<1>1. y \in ProcType
  BY StepNames DEF Fine, ProcType, Stdin, Sock
<1>2. Good(y)
  BY DEF Fine, ProcType, Good, HandInv, LateInv, One, CleanInv, FdInv,
         SocketInv, CleanSteps, Stdin, Sock
<1>3. QED
  BY <1>1, <1>2 DEF Fine

LEMMA StoreFdFine ==
  ASSUME NEW x \in Fine, x.main = "store"
  PROVE  [x EXCEPT !.listenFd = Sock, !.main = "bind"] \in Fine
<1> DEFINE y == [x EXCEPT !.listenFd = Sock, !.main = "bind"]
<1>1. y \in ProcType
  BY StepNames DEF Fine, ProcType, Stdin, Sock
<1>2. Good(y)
  BY DEF Fine, ProcType, Good, HandInv, LateInv, One, CleanInv, FdInv,
         SocketInv, CleanSteps, Stdin, Sock
<1>3. QED
  BY <1>1, <1>2 DEF Fine

LEMMA BindFine ==
  ASSUME NEW x \in Fine, x.main = "bind"
  PROVE  [x EXCEPT !.main = "run"] \in Fine
<1> DEFINE y == [x EXCEPT !.main = "run"]
<1>1. y \in ProcType
  BY StepNames DEF Fine, ProcType, Stdin, Sock
<1>2. Good(y)
  BY DEF Fine, ProcType, Good, HandInv, LateInv, One, CleanInv, FdInv,
         SocketInv, CleanSteps, Stdin, Sock
<1>3. QED
  BY <1>1, <1>2 DEF Fine

LEMMA BindFailsFine ==
  ASSUME NEW x \in Fine, x.main = "bind"
  PROVE  [x EXCEPT !.open = @ \ {Sock}, !.main = "over"] \in Fine
<1> DEFINE y == [x EXCEPT !.open = @ \ {Sock}, !.main = "over"]
<1>1. y \in ProcType
  BY StepNames DEF Fine, ProcType, Stdin, Sock
<1>2. Good(y)
  BY DEF Fine, ProcType, Good, HandInv, LateInv, One, CleanInv, FdInv,
         SocketInv, CleanSteps, Stdin, Sock
<1>3. QED
  BY <1>1, <1>2 DEF Fine

LEMMA RunFine ==
  ASSUME NEW x \in Fine, x.main = "run"
  PROVE  [x EXCEPT !.main = "input", !.recv = "check"] \in Fine
<1> DEFINE y == [x EXCEPT !.main = "input", !.recv = "check"]
<1>1. y \in ProcType
  BY StepNames DEF Fine, ProcType, Stdin, Sock
<1>2. Good(y)
  BY DEF Fine, ProcType, Good, HandInv, LateInv, One, CleanInv, FdInv,
         SocketInv, CleanSteps, Stdin, Sock
<1>3. QED
  BY <1>1, <1>2 DEF Fine

LEMMA CleanFlagFine ==
  ASSUME NEW x \in Fine, x.main = "flag"
  PROVE  [x EXCEPT !.running = FALSE, !.main = "close"] \in Fine
<1> DEFINE y == [x EXCEPT !.running = FALSE, !.main = "close"]
<1>1. y \in ProcType
  BY StepNames DEF Fine, ProcType, Stdin, Sock
<1>2. Good(y)
  BY DEF Fine, ProcType, Good, HandInv, LateInv, One, CleanInv, FdInv,
         SocketInv, CleanSteps, Stdin, Sock
<1>3. QED
  BY <1>1, <1>2 DEF Fine

LEMMA CleanCloseFine ==
  ASSUME NEW x \in Fine, x.main = "close"
  PROVE  [x EXCEPT !.open = @ \ {x.arg}, !.main = "over"] \in Fine
<1> DEFINE y == [x EXCEPT !.open = @ \ {x.arg}, !.main = "over"]
<1>1. y \in ProcType
  BY StepNames DEF Fine, ProcType, Stdin, Sock
<1>2. Good(y)
  BY DEF Fine, ProcType, Good, HandInv, LateInv, One, CleanInv, FdInv,
         SocketInv, CleanSteps, Stdin, Sock
<1>3. QED
  BY <1>1, <1>2 DEF Fine

LEMMA DieFine ==
  ASSUME NEW x \in Fine
  PROVE  [x EXCEPT !.main = "dead", !.recv = "gone", !.hand = NoMsg] \in Fine
<1> DEFINE y == [x EXCEPT !.main = "dead", !.recv = "gone", !.hand = NoMsg]
<1>1. y \in ProcType
  BY StepNames DEF Fine, ProcType, Stdin, Sock
<1>2. Good(y)
  BY DEF Fine, ProcType, Good, HandInv, LateInv, One, CleanInv, FdInv,
         SocketInv, CleanSteps, Stdin, Sock
<1>3. QED
  BY <1>1, <1>2 DEF Fine

LEMMA LeaveLoopFine ==
  ASSUME NEW x \in Fine, x.main = "input"
  PROVE  [x EXCEPT !.main = "flag", !.arg = x.listenFd] \in Fine
<1> DEFINE y == [x EXCEPT !.main = "flag", !.arg = x.listenFd]
<1>1. y \in ProcType
  BY StepNames DEF Fine, ProcType, Stdin, Sock
<1>2. Good(y)
  BY DEF Fine, ProcType, Good, HandInv, LateInv, One, CleanInv, FdInv,
         SocketInv, CleanSteps, Stdin, Sock
<1>3. QED
  BY <1>1, <1>2 DEF Fine

LEMMA SigintFine ==
  ASSUME NEW x \in Fine, x.main # "dead" /\ ~x.handler
  PROVE  [x EXCEPT !.main = "flag", !.arg = x.listenFd, !.handler = TRUE] \in Fine
<1> DEFINE y == [x EXCEPT !.main = "flag", !.arg = x.listenFd, !.handler = TRUE]
<1>1. y \in ProcType
  BY StepNames DEF Fine, ProcType, Stdin, Sock
<1>2. Good(y)
  BY DEF Fine, ProcType, Good, HandInv, LateInv, One, CleanInv, FdInv,
         SocketInv, CleanSteps, Stdin, Sock
<1>3. QED
  BY <1>1, <1>2 DEF Fine

LEMMA SigintAgainFine ==
  ASSUME NEW x \in Fine, x.handler /\ x.recv \in {"check", "call", "blocked", "msg"}
  PROVE  [x EXCEPT !.recv = "flag", !.hand = NoMsg] \in Fine
<1> DEFINE y == [x EXCEPT !.recv = "flag", !.hand = NoMsg]
<1>1. y \in ProcType
  BY StepNames DEF Fine, ProcType, Stdin, Sock
<1>2. Good(y)
  BY DEF Fine, ProcType, Good, HandInv, LateInv, One, CleanInv, FdInv,
         SocketInv, CleanSteps, Stdin, Sock
<1>3. QED
  BY <1>1, <1>2 DEF Fine

LEMMA CheckFlagFine ==
  ASSUME NEW x \in Fine, x.recv = "check"
  PROVE  [x EXCEPT !.recv = IF x.running THEN "call" ELSE "exited"] \in Fine
<1> DEFINE y == [x EXCEPT !.recv = IF x.running THEN "call" ELSE "exited"]
<1>1. y \in ProcType
  BY StepNames DEF Fine, ProcType, Stdin, Sock
<1>2. Good(y)
  BY DEF Fine, ProcType, Good, HandInv, LateInv, One, CleanInv, FdInv,
         SocketInv, CleanSteps, Stdin, Sock
<1>3. QED
  BY <1>1, <1>2 DEF Fine

LEMMA CallRecvFine ==
  ASSUME NEW x \in Fine, x.recv = "call"
  PROVE  [x EXCEPT !.recv = IF Sock \in x.open THEN "blocked" ELSE "exited"] \in Fine
<1> DEFINE y == [x EXCEPT !.recv = IF Sock \in x.open THEN "blocked" ELSE "exited"]
<1>1. y \in ProcType
  BY StepNames DEF Fine, ProcType, Stdin, Sock
<1>2. Good(y)
  BY DEF Fine, ProcType, Good, HandInv, LateInv, One, CleanInv, FdInv,
         SocketInv, CleanSteps, Stdin, Sock
<1>3. QED
  BY <1>1, <1>2 DEF Fine

LEMMA RecvErrorFine ==
  ASSUME NEW x \in Fine, x.recv = "blocked"
  PROVE  [x EXCEPT !.recv = "exited"] \in Fine
<1> DEFINE y == [x EXCEPT !.recv = "exited"]
<1>1. y \in ProcType
  BY StepNames DEF Fine, ProcType, Stdin, Sock
<1>2. Good(y)
  BY DEF Fine, ProcType, Good, HandInv, LateInv, One, CleanInv, FdInv,
         SocketInv, CleanSteps, Stdin, Sock
<1>3. QED
  BY <1>1, <1>2 DEF Fine

LEMMA ShowFine ==
  ASSUME NEW x \in Fine, x.recv = "msg"
  PROVE  [x EXCEPT !.recv = "check", !.hand = NoMsg, !.late = IF x.running THEN @ ELSE @ + 1] \in Fine
<1> DEFINE n == IF x.running THEN x.late ELSE x.late + 1
           y == [x EXCEPT !.recv = "check", !.hand = NoMsg, !.late = n]
<1>1. y \in ProcType
  <2>1. x.late \in Nat
    BY DEF Fine, ProcType
  <2>2. n \in Nat
    BY <2>1
  <2> HIDE DEF n
  <2>3. QED
    BY <2>2, StepNames DEF Fine, ProcType
<1>2. Good(y)
  BY DEF Fine, ProcType, Good, HandInv, LateInv, One, CleanInv, FdInv,
         SocketInv, CleanSteps, Stdin, Sock
<1>3. QED
  BY <1>1, <1>2 DEF Fine

LEMMA RecvFlagFine ==
  ASSUME NEW x \in Fine, x.recv = "flag"
  PROVE  [x EXCEPT !.running = FALSE, !.recv = "close"] \in Fine
<1> DEFINE y == [x EXCEPT !.running = FALSE, !.recv = "close"]
<1>1. y \in ProcType
  BY StepNames DEF Fine, ProcType, Stdin, Sock
<1>2. Good(y)
  BY DEF Fine, ProcType, Good, HandInv, LateInv, One, CleanInv, FdInv,
         SocketInv, CleanSteps, Stdin, Sock
<1>3. QED
  BY <1>1, <1>2 DEF Fine

LEMMA RecvCloseFine ==
  ASSUME NEW x \in Fine, x.recv = "close"
  PROVE  [x EXCEPT !.open = @ \ {x.listenFd}, !.recv = "over"] \in Fine
<1> DEFINE y == [x EXCEPT !.open = @ \ {x.listenFd}, !.recv = "over"]
<1>1. y \in ProcType
  BY StepNames DEF Fine, ProcType, Stdin, Sock
<1>2. Good(y)
  BY DEF Fine, ProcType, Good, HandInv, LateInv, One, CleanInv, FdInv,
         SocketInv, CleanSteps, Stdin, Sock
<1>3. QED
  BY <1>1, <1>2 DEF Fine

LEMMA DeliverFine ==
  ASSUME NEW x \in Fine, NEW m \in Msgs, x.recv = "blocked"
  PROVE  [x EXCEPT !.recv = "msg", !.hand = m] \in Fine
<1> DEFINE y == [x EXCEPT !.recv = "msg", !.hand = m]
<1>1. y \in ProcType
  BY StepNames DEF Fine, ProcType, Stdin, Sock
<1>2. Good(y)
  BY DEF Fine, ProcType, Good, HandInv, LateInv, One, CleanInv, FdInv,
         SocketInv, CleanSteps, Stdin, Sock
<1>3. QED
  BY <1>1, <1>2 DEF Fine

-------------------------------------------------------------------------------
(* A step of one process, and the messages. *)

\* One process moves on to another of its allowed states.
LEMMA OneMoves ==
  ASSUME IInv, NEW p \in Procs, NEW r \in Fine, proc' = [proc EXCEPT ![p] = r]
  PROVE  proc' \in [Procs -> ProcType] /\ \A q \in Procs : Good(proc'[q])
<1>1. proc \in [Procs -> Fine]
  BY DEF IInv, TypeOK, Fine
<1>2. proc' \in [Procs -> Fine]
  BY <1>1
<1>3. QED
  BY <1>2 DEF Fine

\* A step of one process that leaves the messages alone: it lets go of the one
\* it has in hand, or keeps it.
LEMMA LocalStep ==
  ASSUME IInv, NEW p \in Procs, NEW r \in Fine, proc' = [proc EXCEPT ![p] = r],
         r.hand \in {proc[p].hand, NoMsg}, Local
  PROVE  IInv'
<1>1. proc' \in [Procs -> ProcType] /\ \A q \in Procs : Good(proc'[q])
  BY OneMoves
<1>2. TypeOK'
  BY <1>1 DEF IInv, TypeOK, Local
<1>3. \A q \in Procs : proc'[q].hand \in {proc[q].hand, NoMsg}
  BY DEF IInv, TypeOK
<1>4. SentInv'
  BY <1>3, V1Assumption DEF IInv, SentInv, Local
<1>5. QED
  BY <1>1, <1>2, <1>4 DEF IInv

\* Adding one to the copies of a message in flight, or taking one away.
LEMMA Copies ==
  ASSUME NEW f \in [Msgs -> Nat], NEW m \in Msgs
  PROVE  /\ [f EXCEPT ![m] = @ + 1] \in [Msgs -> Nat]
         /\ f[m] > 0 => [f EXCEPT ![m] = @ - 1] \in [Msgs -> Nat]
<1>1. f[m] \in Nat /\ f[m] + 1 \in Nat
  OBVIOUS
<1>2. f[m] > 0 => f[m] - 1 \in Nat
  BY <1>1
<1>3. QED
  BY <1>1, <1>2

\* The invariants hold of every process in every reachable state: by induction
\* over the steps, one action at a time.
THEOREM Inductive == Spec => []IInv
<1>1. Init => IInv
  <2> SUFFICES ASSUME Init PROVE IInv
    OBVIOUS
  <2> DEFINE x0 == [main |-> "socket", handler |-> FALSE, arg |-> 0,
                    recv |-> "none", hand |-> NoMsg, listenFd |-> 0,
                    open |-> {Stdin}, running |-> TRUE, late |-> 0]
  <2>1. x0 \in ProcType
    BY DEF ProcType, MainSteps, RecvSteps, CleanSteps, Stdin, Sock
  <2>2. Good(x0)
    BY DEF Good, HandInv, LateInv, CleanInv, FdInv, SocketInv, One, CleanSteps, Stdin, Sock
  <2>3. proc = [p \in Procs |-> x0]
    BY DEF Init
  <2>4. proc \in [Procs -> ProcType] /\ \A p \in Procs : Good(proc[p])
    BY <2>1, <2>2, <2>3
  <2>5. TypeOK
    <3>1. data \in [Msgs -> Nat] /\ dups \in 0..MaxDup
      BY V1Assumption DEF Init
    <3>2. sent \subseteq Msgs /\ shown \subseteq Msgs
      BY DEF Init
    <3>3. QED
      BY <2>4, <3>1, <3>2 DEF TypeOK
  <2>6. \A p \in Procs : proc[p].hand = NoMsg
    BY <2>3
  <2>7. SentInv
    BY <2>6, V1Assumption DEF Init, SentInv
  <2>8. QED
    BY <2>4, <2>5, <2>7 DEF IInv
<1>2. IInv /\ [Next]_vars => IInv'
  <2> SUFFICES ASSUME IInv, [Next]_vars PROVE IInv'
    OBVIOUS
  <2>0. \A p \in Procs : proc[p] \in Fine /\ proc[p].hand \in Msgs \cup {NoMsg}
    BY DEF IInv, TypeOK, Fine, ProcType
  <2>1. ASSUME NEW p \in Procs, Setup(p) PROVE IInv'
    <3>1. CASE CreateSocket(p)
      <4> DEFINE r == [proc[p] EXCEPT !.open = @ \cup {Sock}, !.main = "store"]
      <4>1. r \in Fine
        BY <3>1, <2>0, CreateSocketFine DEF CreateSocket, Main, Recv
      <4>2. proc' = [proc EXCEPT ![p] = r] /\ Local
        BY <3>1 DEF CreateSocket, Main, Recv
      <4>3. r.hand \in {proc[p].hand, NoMsg}
        BY <2>0 DEF Fine, ProcType
      <4>4. QED
        BY <4>1, <4>2, <4>3, LocalStep
    <3>2. CASE SocketFails(p)
      <4> DEFINE r == [proc[p] EXCEPT !.listenFd = -1, !.main = "over"]
      <4>1. r \in Fine
        BY <3>2, <2>0, SocketFailsFine DEF SocketFails, Main, Recv
      <4>2. proc' = [proc EXCEPT ![p] = r] /\ Local
        BY <3>2 DEF SocketFails, Main, Recv
      <4>3. r.hand \in {proc[p].hand, NoMsg}
        BY <2>0 DEF Fine, ProcType
      <4>4. QED
        BY <4>1, <4>2, <4>3, LocalStep
    <3>3. CASE StoreFd(p)
      <4> DEFINE r == [proc[p] EXCEPT !.listenFd = Sock, !.main = "bind"]
      <4>1. r \in Fine
        BY <3>3, <2>0, StoreFdFine DEF StoreFd, Main, Recv
      <4>2. proc' = [proc EXCEPT ![p] = r] /\ Local
        BY <3>3 DEF StoreFd, Main, Recv
      <4>3. r.hand \in {proc[p].hand, NoMsg}
        BY <2>0 DEF Fine, ProcType
      <4>4. QED
        BY <4>1, <4>2, <4>3, LocalStep
    <3>4. CASE Bind(p)
      <4> DEFINE r == [proc[p] EXCEPT !.main = "run"]
      <4>1. r \in Fine
        BY <3>4, <2>0, BindFine DEF Bind, Main, Recv
      <4>2. proc' = [proc EXCEPT ![p] = r] /\ Local
        BY <3>4 DEF Bind, Main, Recv
      <4>3. r.hand \in {proc[p].hand, NoMsg}
        BY <2>0 DEF Fine, ProcType
      <4>4. QED
        BY <4>1, <4>2, <4>3, LocalStep
    <3>5. CASE BindFails(p)
      <4> DEFINE r == [proc[p] EXCEPT !.open = @ \ {Sock}, !.main = "over"]
      <4>1. r \in Fine
        BY <3>5, <2>0, BindFailsFine DEF BindFails, Main, Recv
      <4>2. proc' = [proc EXCEPT ![p] = r] /\ Local
        BY <3>5 DEF BindFails, Main, Recv
      <4>3. r.hand \in {proc[p].hand, NoMsg}
        BY <2>0 DEF Fine, ProcType
      <4>4. QED
        BY <4>1, <4>2, <4>3, LocalStep
    <3>6. CASE Run(p)
      <4> DEFINE r == [proc[p] EXCEPT !.main = "input", !.recv = "check"]
      <4>1. r \in Fine
        BY <3>6, <2>0, RunFine DEF Run, Main, Recv
      <4>2. proc' = [proc EXCEPT ![p] = r] /\ Local
        BY <3>6 DEF Run, Main, Recv
      <4>3. r.hand \in {proc[p].hand, NoMsg}
        BY <2>0 DEF Fine, ProcType
      <4>4. QED
        BY <4>1, <4>2, <4>3, LocalStep
    <3>7. QED
      BY <2>1, <3>1, <3>2, <3>3, <3>4, <3>5, <3>6 DEF Setup
  <2>2. ASSUME NEW p \in Procs, Clean(p) PROVE IInv'
    <3>1. CASE CleanFlag(p)
      <4> DEFINE r == [proc[p] EXCEPT !.running = FALSE, !.main = "close"]
      <4>1. r \in Fine
        BY <3>1, <2>0, CleanFlagFine DEF CleanFlag, Main, Recv
      <4>2. proc' = [proc EXCEPT ![p] = r] /\ Local
        BY <3>1 DEF CleanFlag, Main, Recv
      <4>3. r.hand \in {proc[p].hand, NoMsg}
        BY <2>0 DEF Fine, ProcType
      <4>4. QED
        BY <4>1, <4>2, <4>3, LocalStep
    <3>2. CASE CleanClose(p)
      <4> DEFINE r == [proc[p] EXCEPT !.open = @ \ {proc[p].arg}, !.main = "over"]
      <4>1. r \in Fine
        BY <3>2, <2>0, CleanCloseFine DEF CleanClose, Main, Recv
      <4>2. proc' = [proc EXCEPT ![p] = r] /\ Local
        BY <3>2 DEF CleanClose, Main, Recv
      <4>3. r.hand \in {proc[p].hand, NoMsg}
        BY <2>0 DEF Fine, ProcType
      <4>4. QED
        BY <4>1, <4>2, <4>3, LocalStep
    <3>3. CASE Die(p)
      <4> DEFINE r == [proc[p] EXCEPT !.main = "dead", !.recv = "gone", !.hand = NoMsg]
      <4>1. r \in Fine
        BY <3>3, <2>0, DieFine DEF Die, Main, Recv
      <4>2. proc' = [proc EXCEPT ![p] = r] /\ Local
        BY <3>3 DEF Die, Main, Recv
      <4>3. r.hand \in {proc[p].hand, NoMsg}
        BY <2>0 DEF Fine, ProcType
      <4>4. QED
        BY <4>1, <4>2, <4>3, LocalStep
    <3>4. QED
      BY <2>2, <3>1, <3>2, <3>3 DEF Clean
  <2>3. ASSUME NEW p \in Procs, User(p) PROVE IInv'
    <3>1. CASE LeaveLoop(p)
      <4> DEFINE r == [proc[p] EXCEPT !.main = "flag", !.arg = proc[p].listenFd]
      <4>1. r \in Fine
        BY <3>1, <2>0, LeaveLoopFine DEF LeaveLoop, Main, Recv
      <4>2. proc' = [proc EXCEPT ![p] = r] /\ Local
        BY <3>1 DEF LeaveLoop, Main, Recv
      <4>3. r.hand \in {proc[p].hand, NoMsg}
        BY <2>0 DEF Fine, ProcType
      <4>4. QED
        BY <4>1, <4>2, <4>3, LocalStep
    <3>2. CASE Sigint(p)
      <4> DEFINE r == [proc[p] EXCEPT !.main = "flag", !.arg = proc[p].listenFd, !.handler = TRUE]
      <4>1. r \in Fine
        BY <3>2, <2>0, SigintFine DEF Sigint, Main, Recv
      <4>2. proc' = [proc EXCEPT ![p] = r] /\ Local
        BY <3>2 DEF Sigint, Main, Recv
      <4>3. r.hand \in {proc[p].hand, NoMsg}
        BY <2>0 DEF Fine, ProcType
      <4>4. QED
        BY <4>1, <4>2, <4>3, LocalStep
    <3>3. CASE SigintAgain(p)
      <4> DEFINE r == [proc[p] EXCEPT !.recv = "flag", !.hand = NoMsg]
      <4>1. r \in Fine
        BY <3>3, <2>0, SigintAgainFine DEF SigintAgain, Main, Recv
      <4>2. proc' = [proc EXCEPT ![p] = r] /\ Local
        BY <3>3 DEF SigintAgain, Main, Recv
      <4>3. r.hand \in {proc[p].hand, NoMsg}
        BY <2>0 DEF Fine, ProcType
      <4>4. QED
        BY <4>1, <4>2, <4>3, LocalStep
    <3>4. ASSUME NEW m \in Msgs, SendMsg(p, m) PROVE IInv'
      <4>1. data' \in [Msgs -> Nat]
        BY <3>4, Copies DEF IInv, TypeOK, SendMsg
      <4>2. TypeOK'
        BY <3>4, <4>1 DEF IInv, TypeOK, SendMsg
      <4>3. \A n \in Msgs : data'[n] = data[n] \/ n = m
        BY <3>4 DEF IInv, TypeOK, SendMsg
      <4>4. SentInv'
        BY <3>4, <4>3 DEF IInv, SentInv, SendMsg
      <4>5. QED
        BY <3>4, <4>2, <4>4 DEF IInv, SendMsg
    <3>5. QED
      BY <2>3, <3>1, <3>2, <3>3, <3>4 DEF User
  <2>4. ASSUME NEW p \in Procs, Receiver(p) PROVE IInv'
    <3>1. CASE CheckFlag(p)
      <4> DEFINE r == [proc[p] EXCEPT !.recv = IF proc[p].running THEN "call" ELSE "exited"]
      <4>1. r \in Fine
        BY <3>1, <2>0, CheckFlagFine DEF CheckFlag, Main, Recv
      <4>2. proc' = [proc EXCEPT ![p] = r] /\ Local
        BY <3>1 DEF CheckFlag, Main, Recv
      <4>3. r.hand \in {proc[p].hand, NoMsg}
        BY <2>0 DEF Fine, ProcType
      <4>4. QED
        BY <4>1, <4>2, <4>3, LocalStep
    <3>2. CASE CallRecv(p)
      <4> DEFINE r == [proc[p] EXCEPT !.recv = IF Sock \in proc[p].open THEN "blocked" ELSE "exited"]
      <4>1. r \in Fine
        BY <3>2, <2>0, CallRecvFine DEF CallRecv, Main, Recv
      <4>2. proc' = [proc EXCEPT ![p] = r] /\ Local
        BY <3>2 DEF CallRecv, Main, Recv
      <4>3. r.hand \in {proc[p].hand, NoMsg}
        BY <2>0 DEF Fine, ProcType
      <4>4. QED
        BY <4>1, <4>2, <4>3, LocalStep
    <3>3. CASE RecvError(p)
      <4> DEFINE r == [proc[p] EXCEPT !.recv = "exited"]
      <4>1. r \in Fine
        BY <3>3, <2>0, RecvErrorFine DEF RecvError, Main, Recv
      <4>2. proc' = [proc EXCEPT ![p] = r] /\ Local
        BY <3>3 DEF RecvError, Main, Recv
      <4>3. r.hand \in {proc[p].hand, NoMsg}
        BY <2>0 DEF Fine, ProcType
      <4>4. QED
        BY <4>1, <4>2, <4>3, LocalStep
    <3>4. CASE RecvClean(p) /\ Recv(p, "flag")
      <4> DEFINE r == [proc[p] EXCEPT !.running = FALSE, !.recv = "close"]
      <4>1. r \in Fine
        BY <3>4, <2>0, RecvFlagFine DEF RecvClean, Main, Recv
      <4>2. proc' = [proc EXCEPT ![p] = r] /\ Local
        BY <3>4 DEF RecvClean, Main, Recv
      <4>3. r.hand \in {proc[p].hand, NoMsg}
        BY <2>0 DEF Fine, ProcType
      <4>4. QED
        BY <4>1, <4>2, <4>3, LocalStep
    <3>5. CASE RecvClean(p) /\ Recv(p, "close")
      <4> DEFINE r == [proc[p] EXCEPT !.open = @ \ {proc[p].listenFd}, !.recv = "over"]
      <4>1. r \in Fine
        BY <3>5, <2>0, RecvCloseFine DEF RecvClean, Main, Recv
      <4>2. proc' = [proc EXCEPT ![p] = r] /\ Local
        BY <3>5 DEF RecvClean, Main, Recv
      <4>3. r.hand \in {proc[p].hand, NoMsg}
        BY <2>0 DEF Fine, ProcType
      <4>4. QED
        BY <4>1, <4>2, <4>3, LocalStep
    <3>6. CASE Show(p)
      <4> DEFINE r == [proc[p] EXCEPT !.recv = "check", !.hand = NoMsg,
                         !.late = IF proc[p].running THEN @ ELSE @ + 1]
      <4>1. r \in Fine
        BY <3>6, <2>0, ShowFine DEF Show, Recv
      <4>2. proc' = [proc EXCEPT ![p] = r]
        BY <3>6 DEF Show
      <4>3. proc' \in [Procs -> ProcType] /\ \A q \in Procs : Good(proc'[q])
        BY <4>1, <4>2, OneMoves
      <4>4. r.hand = NoMsg
        BY <2>0 DEF Fine, ProcType
      <4>5. \A q \in Procs : proc'[q].hand \in {proc[q].hand, NoMsg}
        BY <4>2, <4>4 DEF IInv, TypeOK
      <4>6. shown' \subseteq shown \cup {proc[p].hand}
        BY <3>6 DEF Show
      <4>7. proc[p].hand \in Msgs
        BY <3>6, <2>0 DEF Fine, Good, HandInv, Show, Recv
      <4>8. TypeOK'
        BY <3>6, <4>3, <4>6, <4>7 DEF IInv, TypeOK, Show
      <4>9. SentInv'
        BY <3>6, <4>5, <4>6, V1Assumption DEF IInv, SentInv, Show
      <4>10. QED
        BY <4>3, <4>8, <4>9 DEF IInv
    <3>7. ASSUME NEW m \in Msgs, Deliver(p, m) PROVE IInv'
      <4> DEFINE r == [proc[p] EXCEPT !.recv = "msg", !.hand = m]
      <4>1. r \in Fine
        BY <3>7, <2>0, DeliverFine DEF Deliver, Recv
      <4>2. proc' = [proc EXCEPT ![p] = r]
        BY <3>7 DEF Deliver
      <4>3. proc' \in [Procs -> ProcType] /\ \A q \in Procs : Good(proc'[q])
        BY <4>1, <4>2, OneMoves
      <4>4. r.hand = m
        BY <2>0 DEF Fine, ProcType
      <4>5. \A q \in Procs : proc'[q].hand \in {proc[q].hand, m}
        BY <4>2, <4>4 DEF IInv, TypeOK
      <4>6. data' \in [Msgs -> Nat]
        BY <3>7, Copies DEF IInv, TypeOK, Deliver
      <4>7. data[m] > 0 /\ \A n \in Msgs : data'[n] = data[n] \/ n = m
        BY <3>7 DEF IInv, TypeOK, Deliver
      <4>8. TypeOK'
        BY <3>7, <4>3, <4>6 DEF IInv, TypeOK, Deliver
      <4>9. SentInv'
        BY <3>7, <4>5, <4>7 DEF IInv, SentInv, Deliver
      <4>10. QED
        BY <4>3, <4>8, <4>9 DEF IInv
    <3>8. QED
      BY <2>4, <3>1, <3>2, <3>3, <3>4, <3>5, <3>6, <3>7 DEF Receiver, RecvClean
  <2>5. ASSUME NEW m \in Msgs, Dup(m) PROVE IInv'
    <3>1. data' \in [Msgs -> Nat]
      BY <2>5, Copies DEF IInv, TypeOK, Dup
    <3>2. dups' \in 0..MaxDup
      BY <2>5, V1Assumption DEF IInv, TypeOK, Dup
    <3>3. data[m] > 0 /\ \A n \in Msgs : data'[n] = data[n] \/ n = m
      BY <2>5 DEF IInv, TypeOK, Dup
    <3>4. SentInv'
      BY <2>5, <3>3 DEF IInv, SentInv, Dup
    <3>5. QED
      BY <2>5, <3>1, <3>2, <3>4 DEF IInv, TypeOK, Dup
  <2>6. CASE UNCHANGED vars
    BY <2>6 DEF IInv, TypeOK, SentInv, vars
  <2>7. QED
    BY <2>1, <2>2, <2>3, <2>4, <2>5, <2>6 DEF Next, AllDead
<1>3. QED
  BY <1>1, <1>2, PTL DEF Spec

-------------------------------------------------------------------------------
\* At most one text is printed after clean() cleared the flag: LateInv counts
\* the text the receiver thread was already past its check for.
THEOREM PrintsOneLate == Spec => []LatePrint
<1>1. IInv => LatePrint
  <2> SUFFICES ASSUME IInv, NEW p \in Procs PROVE proc[p].late <= 1
    BY DEF LatePrint
  <2>1. proc[p].late \in Nat /\ LateInv(proc[p])
    BY DEF IInv, TypeOK, ProcType, Good
  <2>2. QED
    BY <2>1 DEF LateInv, One
<1>2. QED
  BY <1>1, Inductive, PTL

\* clean() closes the bound socket and no other descriptor unless a signal came
\* in between, and nobody reads standard input once it was closed (FdInv).
THEOREM ClosesItsSocket == Spec => []ClosesItsOwn
<1>1. IInv => ClosesItsOwn
  BY DEF IInv, Good, FdInv, ClosesItsOwn, Main, CleanSteps
<1>2. QED
  BY <1>1, Inductive, PTL
==============================================================================
