---------------------------- MODULE UdpChatProofs ----------------------------
EXTENDS UdpChatProps, FiniteSetTheorems, TLAPS

\* Counters stay counters.
LEMMA CountUp ==
  ASSUME NEW f \in [Msgs -> Nat], NEW m
  PROVE  [f EXCEPT ![m] = @ + 1] \in [Msgs -> Nat]
<1>1. CASE m \in Msgs
  <2>1. f[m] + 1 \in Nat
    BY <1>1
  <2>2. QED
    BY <2>1
<1>2. CASE m \notin Msgs
  <2>1. [f EXCEPT ![m] = @ + 1] = f
    BY <1>2
  <2>2. QED
    BY <2>1
<1>3. QED
  BY <1>1, <1>2

THEOREM TypeCorrect == Spec => []TypeOK
<1>1. Init => TypeOK
  BY ConstantsAssumption DEF Init, TypeOK, MainSteps, ListenSteps, Contexts,
     LoopSteps, RecvSteps, Sock
<1>2. TypeOK /\ [Next]_vars => TypeOK'
  <2> SUFFICES ASSUME TypeOK, [Next]_vars PROVE TypeOK'
    OBVIOUS
  <2> USE ConstantsAssumption
      DEF TypeOK, MainSteps, ListenSteps, StopSteps, Contexts, LoopSteps,
          RecvSteps, Sock, procVars, netVars, userVars, histVars, AfterClose
  <2>1. ASSUME NEW p \in Procs, Listen(p) PROVE TypeOK'
    <3>1. CASE CreateSocket(p) \/ SocketFails(p)
      BY <3>1 DEF CreateSocket, SocketFails
    <3>2. CASE Bind(p) \/ BindFails(p) \/ GiveUp(p)
      BY <3>2 DEF Bind, BindFails, GiveUp
    <3>3. QED
      BY <2>1, <3>1, <3>2 DEF Listen
  <2>2. ASSUME NEW p \in Procs, Run(p) PROVE TypeOK'
    BY <2>2 DEF Run
  <2>0. ASSUME NEW p \in Procs, EndProcess(p) PROVE TypeOK'
    BY <2>0 DEF EndProcess
  <2>3. ASSUME NEW p \in Procs, Stop(p) PROVE TypeOK'
    <3>1. CASE StopFlag(p) \/ StopClose(p)
      BY <3>1 DEF StopFlag, StopClose
    <3>2. CASE StopZero(p) \/ StopReturn(p)
      BY <3>2 DEF StopZero, StopReturn
    <3>3. CASE Die(p)
      BY <2>0, <3>3 DEF Die
    <3>4. QED
      BY <2>3, <3>1, <3>2, <3>3 DEF Stop
  <2>4. ASSUME NEW p \in Procs, User(p) PROVE TypeOK'
    <3>1. CASE LeaveLoop(p) \/ SigintAgain(p)
      BY <3>1 DEF LeaveLoop, SigintAgain
    <3>2. CASE Sigint(p)
      <4>1. torn' \in [Procs -> BOOLEAN]
        BY <3>2 DEF Sigint
      <4>2. main' \in [Procs -> MainSteps] /\ ctx' \in [Procs -> Contexts]
        BY <3>2 DEF Sigint
      <4>3. QED
        BY <3>2, <4>1, <4>2 DEF Sigint
    <3>3. ASSUME NEW m \in Msgs, SendMsg(p, m) PROVE TypeOK'
      <4>1. met' \in SUBSET Msgs /\ sent' \in SUBSET Msgs
        BY <3>3 DEF SendMsg
      <4>2. data' \in [Msgs -> Nat]
        BY <3>3, CountUp DEF SendMsg
      <4>3. QED
        BY <3>3, <4>1, <4>2 DEF SendMsg
    <3>4. QED
      BY <2>4, <3>1, <3>2, <3>3 DEF User
  <2>5. ASSUME NEW p \in Procs, Receiver(p) PROVE TypeOK'
    <3>1. CASE CheckFlag(p) \/ CallRecv(p)
      BY <3>1 DEF CheckFlag, CallRecv
    <3>2. CASE ShowMsg(p)
      <4>0. recv' \in [Procs -> RecvSteps]
        BY <3>2 DEF ShowMsg
      <4>1. shown' \in [Msgs -> Nat] /\ owed' \in [Procs -> Int]
        BY <3>2, CountUp DEF ShowMsg
      <4>2. QED
        BY <3>2, <4>0, <4>1 DEF ShowMsg
    <3>3. CASE SendAck(p)
      <4>0. recv' \in [Procs -> RecvSteps]
        BY <3>3 DEF SendAck
      <4>1. acks' \in [Msgs -> Nat]
        BY <3>3, CountUp DEF SendAck
      <4>2. hand' \in [Procs -> Msgs \cup {NoMsg}] /\ owed' \in [Procs -> Int]
        BY <3>3 DEF SendAck
      <4>3. QED
        BY <3>3, <4>0, <4>1, <4>2 DEF SendAck
    <3>4. CASE ShowAck(p)
      <4>0. recv' \in [Procs -> RecvSteps]
        BY <3>4 DEF ShowAck
      <4>1. confirmed' \in [Msgs -> Nat]
        BY <3>4, CountUp DEF ShowAck
      <4>2. hand' \in [Procs -> Msgs \cup {NoMsg}]
        BY <3>4 DEF ShowAck
      <4>3. QED
        BY <3>4, <4>0, <4>1, <4>2 DEF ShowAck
    <3>5. ASSUME NEW m \in Msgs, DeliverMsg(p, m) PROVE TypeOK'
      BY <3>5 DEF DeliverMsg
    <3>6. ASSUME NEW m \in Msgs, DeliverAck(p, m) PROVE TypeOK'
      BY <3>6 DEF DeliverAck
    <3>7. CASE RecvStopFlag(p)
      BY <3>7 DEF RecvStopFlag
    <3>8. CASE RecvStopClose(p)
      <4>1. recv' \in [Procs -> RecvSteps]
        BY <3>8 DEF RecvStopClose
      <4>2. open' \in [Procs -> BOOLEAN]
        BY <3>8 DEF RecvStopClose
      <4>3. QED
        BY <3>8, <4>1, <4>2 DEF RecvStopClose
    <3>9. CASE RecvStopZero(p)
      BY <3>9 DEF RecvStopZero
    <3>10. CASE RecvDie(p)
      BY <2>0, <3>10 DEF RecvDie
    <3>11. QED
      BY <2>5, <3>1, <3>2, <3>3, <3>4, <3>5, <3>6, <3>7, <3>8, <3>9, <3>10
         DEF Receiver, Handle, RecvStop
  <2>6. ASSUME NEW p \in Procs, RecvError(p) \/ Overrun(p) PROVE TypeOK'
    BY <2>0, <2>6 DEF RecvError, Overrun
  <2>7. ASSUME Network PROVE TypeOK'
    BY <2>7 DEF Network, LoseMsg, LoseAck, DupMsg, DupAck
  <2>8. CASE UNCHANGED vars
    BY <2>8 DEF vars, procVars, netVars, userVars, histVars
  <2>9. QED
    BY <2>1, <2>2, <2>3, <2>4, <2>5, <2>6, <2>7, <2>8 DEF Next, AllDead
<1>3. QED
  BY <1>1, <1>2, PTL DEF Spec

-------------------------------------------------------------------------------
LEMMA HandInvariant == Spec => []HandInv
<1>1. Init => HandInv
  BY DEF Init, HandInv
<1>2. TypeOK /\ HandInv /\ [Next]_vars => HandInv'
  <2> SUFFICES ASSUME TypeOK, HandInv, [Next]_vars PROVE HandInv'
    OBVIOUS
  <2> USE DEF HandInv, TypeOK, procVars
  <2>1. ASSUME NEW p \in Procs, Listen(p) PROVE HandInv'
    BY <2>1 DEF Listen, CreateSocket, SocketFails, Bind, BindFails, GiveUp
  <2>2. ASSUME NEW p \in Procs, Run(p) PROVE HandInv'
    BY <2>2 DEF Run
  <2>3. ASSUME NEW p \in Procs, Stop(p) PROVE HandInv'
    BY <2>3 DEF Stop, StopFlag, StopClose, StopZero, StopReturn, Die,
                EndProcess
  <2>4. ASSUME NEW p \in Procs, User(p) PROVE HandInv'
    BY <2>4 DEF User, LeaveLoop, Sigint, SigintAgain, SendMsg
  <2>5. ASSUME NEW p \in Procs, Receiver(p) PROVE HandInv'
    BY <2>5 DEF Receiver, Handle, CheckFlag, CallRecv, ShowMsg, SendAck,
                ShowAck, DeliverMsg, DeliverAck, RecvStop, RecvStopFlag,
                RecvStopClose, RecvStopZero, RecvDie,
                EndProcess
  <2>6. ASSUME NEW p \in Procs, RecvError(p) \/ Overrun(p) PROVE HandInv'
    BY <2>6 DEF RecvError, Overrun, EndProcess
  <2>7. ASSUME Network PROVE HandInv'
    BY <2>7 DEF Network, LoseMsg, LoseAck, DupMsg, DupAck
  <2>8. CASE UNCHANGED vars
    BY <2>8 DEF vars, procVars, netVars, userVars, histVars
  <2>9. QED
    BY <2>1, <2>2, <2>3, <2>4, <2>5, <2>6, <2>7, <2>8 DEF Next, AllDead
<1>3. QED
  BY <1>1, <1>2, TypeCorrect, PTL DEF Spec

LEMMA SocketInvariant == Spec => [](SocketInv /\ SocketWhileRunning)
<1> DEFINE Inv == SocketInv /\ SocketWhileRunning
<1>1. Init => Inv
  BY DEF Init, SocketInv, SocketWhileRunning, Sock, StopSteps, ListenSteps
<1>2. TypeOK /\ Inv /\ [Next]_vars => Inv'
  <2> SUFFICES ASSUME TypeOK, Inv, [Next]_vars PROVE Inv'
    OBVIOUS
  <2> USE DEF SocketInv, SocketWhileRunning, Usable, TypeOK, Sock, procVars,
              AfterClose, StopSteps, LoopSteps, ListenSteps
  <2>1. ASSUME NEW p \in Procs, Listen(p) \/ Run(p) PROVE Inv'
    BY <2>1 DEF Listen, CreateSocket, SocketFails, Bind, BindFails, GiveUp, Run
  <2>2. ASSUME NEW p \in Procs, StopFlag(p) \/ StopClose(p) PROVE Inv'
    BY <2>2 DEF StopFlag, StopClose
  <2>3. ASSUME NEW p \in Procs, StopZero(p) \/ StopReturn(p) PROVE Inv'
    BY <2>3 DEF StopZero, StopReturn
  <2>4. ASSUME NEW p \in Procs, EndProcess(p) PROVE Inv'
    BY <2>4 DEF EndProcess
  <2>5. ASSUME NEW p \in Procs, User(p) PROVE Inv'
    BY <2>5 DEF User, LeaveLoop, Sigint, SigintAgain, SendMsg
  <2>6. ASSUME NEW p \in Procs, CheckFlag(p) \/ CallRecv(p) \/ RecvError(p)
        PROVE  Inv'
    BY <2>6 DEF CheckFlag, CallRecv, RecvError
  <2>7. ASSUME NEW p \in Procs, Handle(p) PROVE Inv'
    BY <2>7 DEF Handle, ShowMsg, SendAck, ShowAck
  <2>8. ASSUME NEW p \in Procs,
              \E m \in Msgs : DeliverMsg(p, m) \/ DeliverAck(p, m)
       PROVE  Inv'
    BY <2>8 DEF DeliverMsg, DeliverAck, CanDeliver
  <2>9. ASSUME NEW p \in Procs,
              RecvStopFlag(p) \/ RecvStopClose(p) \/ RecvStopZero(p)
       PROVE  Inv'
    BY <2>9 DEF RecvStopFlag, RecvStopClose, RecvStopZero
  <2>10. ASSUME Network PROVE Inv'
    BY <2>10 DEF Network, LoseMsg, LoseAck, DupMsg, DupAck
  <2>11. CASE UNCHANGED vars
    BY <2>11 DEF vars
  <2>12. QED
    BY <2>1, <2>2, <2>3, <2>4, <2>5, <2>6, <2>7, <2>8, <2>9, <2>10, <2>11
       DEF Next, AllDead, Stop, Receiver, RecvStop, Die, RecvDie, Overrun
<1>3. QED
  BY <1>1, <1>2, TypeCorrect, PTL DEF Spec

\* What was sent, and to whom, changes with a send only.
LEMMA OnlySendMsgSends ==
  ASSUME [Next]_vars
  PROVE  \/ UNCHANGED <<sent, met>>
         \/ \E p \in Procs : \E m \in Msgs : SendMsg(p, m)
<1> USE DEF userVars, histVars
<1>1. ASSUME NEW p \in Procs, Listen(p) \/ Run(p) PROVE UNCHANGED <<sent, met>>
  BY <1>1 DEF Listen, CreateSocket, SocketFails, Bind, BindFails, GiveUp, Run
<1>2. ASSUME NEW p \in Procs, Stop(p) \/ RecvStop(p) \/ RecvError(p) \/ Overrun(p)
      PROVE  UNCHANGED <<sent, met>>
  BY <1>2 DEF Stop, StopFlag, StopClose, StopZero, StopReturn, Die, EndProcess,
              RecvStop, RecvStopFlag, RecvStopClose, RecvStopZero, RecvDie,
              RecvError, Overrun
<1>3. ASSUME NEW p \in Procs, LeaveLoop(p) \/ Sigint(p) \/ SigintAgain(p)
      PROVE  UNCHANGED <<sent, met>>
  BY <1>3 DEF LeaveLoop, Sigint, SigintAgain
<1>4. ASSUME NEW p \in Procs, CheckFlag(p) \/ CallRecv(p) \/ Handle(p)
      PROVE  UNCHANGED <<sent, met>>
  BY <1>4 DEF CheckFlag, CallRecv, Handle, ShowMsg, SendAck, ShowAck
<1>5. ASSUME NEW p \in Procs, NEW m \in Msgs, DeliverMsg(p, m) \/ DeliverAck(p, m)
      PROVE  UNCHANGED <<sent, met>>
  BY <1>5 DEF DeliverMsg, DeliverAck
<1>6. ASSUME Network PROVE UNCHANGED <<sent, met>>
  BY <1>6 DEF Network, LoseMsg, LoseAck, DupMsg, DupAck
<1>7. CASE UNCHANGED vars
  BY <1>7 DEF vars
<1>8. QED
  BY <1>1, <1>2, <1>3, <1>4, <1>5, <1>6, <1>7 DEF Next, User, Receiver, AllDead

\* Which thread may have left a closed descriptor in listen_fd_, and which one
\* may reset it under the other.
LEMMA CloseInvariant == Spec => []CloseInv
<1>1. Init => CloseInv
  BY DEF Init, CloseInv, Stale, Sock
<1>2. TypeOK /\ SocketInv /\ CloseInv /\ [Next]_vars => CloseInv'
  <2> SUFFICES ASSUME TypeOK, SocketInv, CloseInv, [Next]_vars PROVE CloseInv'
    OBVIOUS
  <2> USE DEF SocketInv, CloseInv, CloseUnreset, Stale, Usable, TypeOK, Sock,
              procVars, histVars, AfterClose, StopSteps, LoopSteps, ListenSteps
  <2>1. ASSUME NEW p \in Procs, Listen(p) \/ Run(p) PROVE CloseInv'
    BY <2>1 DEF Listen, CreateSocket, SocketFails, Bind, BindFails, GiveUp, Run
  <2>2. ASSUME NEW p \in Procs, StopFlag(p) \/ StopClose(p) PROVE CloseInv'
    BY <2>2 DEF StopFlag, StopClose
  <2>3. ASSUME NEW p \in Procs, StopZero(p) \/ StopReturn(p) PROVE CloseInv'
    BY <2>3 DEF StopZero, StopReturn
  <2>4. ASSUME NEW p \in Procs, EndProcess(p) PROVE CloseInv'
    BY <2>4 DEF EndProcess
  <2>5. ASSUME NEW p \in Procs, User(p) PROVE CloseInv'
    <3>1. CASE LeaveLoop(p) \/ SigintAgain(p)
      BY <3>1 DEF LeaveLoop, SigintAgain
    <3>2. CASE Sigint(p)
      <4>1. torn' = [torn EXCEPT ![p] = torn[p] \/ CloseUnreset(p)]
        BY <3>2 DEF Sigint
      <4>2. torn'[p] = (torn[p] \/ CloseUnreset(p))
        BY <4>1
      <4>3. torn[p] \/ (main[p] = "zero" /\ listenFd[p] = Sock) => torn'[p]
        BY <4>2, Zenon DEF CloseUnreset
      <4>4. \A q \in Procs \ {p} : torn'[q] = torn[q]
        BY <4>1
      <4>5. /\ main'[p] = "flag"
            /\ \A q \in Procs \ {p} : main'[q] = main[q]
            /\ UNCHANGED <<recv, listenFd, open>>
        BY <3>2 DEF Sigint
      <4>6. QED
        BY <4>3, <4>4, <4>5
    <3>3. ASSUME NEW m \in Msgs, SendMsg(p, m) PROVE CloseInv'
      BY <3>3 DEF SendMsg
    <3>4. QED
      BY <2>5, <3>1, <3>2, <3>3 DEF User
  <2>6. ASSUME NEW p \in Procs, CheckFlag(p) \/ CallRecv(p) \/ RecvError(p)
        PROVE  CloseInv'
    BY <2>6 DEF CheckFlag, CallRecv, RecvError
  <2>7. ASSUME NEW p \in Procs, Handle(p) PROVE CloseInv'
    BY <2>7 DEF Handle, ShowMsg, SendAck, ShowAck
  <2>8. ASSUME NEW p \in Procs,
              \E m \in Msgs : DeliverMsg(p, m) \/ DeliverAck(p, m)
       PROVE  CloseInv'
    BY <2>8 DEF DeliverMsg, DeliverAck, CanDeliver
  <2>9. ASSUME NEW p \in Procs,
              RecvStopFlag(p) \/ RecvStopClose(p) \/ RecvStopZero(p)
       PROVE  CloseInv'
    BY <2>9 DEF RecvStopFlag, RecvStopClose, RecvStopZero
  <2>10. ASSUME Network PROVE CloseInv'
    BY <2>10 DEF Network, LoseMsg, LoseAck, DupMsg, DupAck
  <2>11. CASE UNCHANGED vars
    BY <2>11 DEF vars
  <2>12. QED
    BY <2>1, <2>2, <2>3, <2>4, <2>5, <2>6, <2>7, <2>8, <2>9, <2>10, <2>11
       DEF Next, AllDead, Stop, Receiver, RecvStop, Die, RecvDie, Overrun
<1>3. QED
  BY <1>1, <1>2, TypeCorrect, SocketInvariant, PTL DEF Spec

\* A text without an answer is the last one a receiver printed.
LEMMA AnswerInvariant == Spec => []AnswerInv
<1>1. Init => AnswerInv
  BY DEF Init, AnswerInv
<1>2. TypeOK /\ SocketInv /\ SocketWhileRunning /\ AnswerInv /\ [Next]_vars
        => AnswerInv'
  <2> SUFFICES ASSUME TypeOK, SocketInv, SocketWhileRunning, AnswerInv,
                      [Next]_vars
               PROVE  AnswerInv'
    OBVIOUS
  <2> USE DEF SocketInv, SocketWhileRunning, AnswerInv, Usable, TypeOK, procVars,
              histVars, StopSteps, LoopSteps, ListenSteps
  <2>1. ASSUME NEW p \in Procs, Listen(p) \/ Run(p) PROVE AnswerInv'
    BY <2>1 DEF Listen, CreateSocket, SocketFails, Bind, BindFails, GiveUp, Run
  <2>2. ASSUME NEW p \in Procs, StopFlag(p) \/ StopClose(p) PROVE AnswerInv'
    BY <2>2 DEF StopFlag, StopClose
  <2>3. ASSUME NEW p \in Procs, StopZero(p) \/ StopReturn(p) PROVE AnswerInv'
    BY <2>3 DEF StopZero, StopReturn
  <2>4. ASSUME NEW p \in Procs, EndProcess(p) PROVE AnswerInv'
    BY <2>4 DEF EndProcess
  <2>5. ASSUME NEW p \in Procs, User(p) PROVE AnswerInv'
    BY <2>5 DEF User, LeaveLoop, Sigint, SigintAgain, SendMsg
  <2>6. ASSUME NEW p \in Procs, CheckFlag(p) \/ CallRecv(p) \/ RecvError(p)
        PROVE  AnswerInv'
    BY <2>6 DEF CheckFlag, CallRecv, RecvError
  <2>7. ASSUME NEW p \in Procs, Handle(p) PROVE AnswerInv'
    <3>1. CASE ShowMsg(p)
      BY <3>1 DEF ShowMsg
    <3>2. CASE SendAck(p)
      BY <3>2 DEF SendAck
    <3>3. CASE ShowAck(p)
      BY <3>3 DEF ShowAck
    <3>4. QED
      BY <2>7, <3>1, <3>2, <3>3 DEF Handle
  <2>8. ASSUME NEW p \in Procs,
              \E m \in Msgs : DeliverMsg(p, m) \/ DeliverAck(p, m)
       PROVE  AnswerInv'
    BY <2>8 DEF DeliverMsg, DeliverAck, CanDeliver
  <2>9. ASSUME NEW p \in Procs,
              RecvStopFlag(p) \/ RecvStopClose(p) \/ RecvStopZero(p)
       PROVE  AnswerInv'
    BY <2>9 DEF RecvStopFlag, RecvStopClose, RecvStopZero
  <2>10. ASSUME Network PROVE AnswerInv'
    BY <2>10 DEF Network, LoseMsg, LoseAck, DupMsg, DupAck
  <2>11. CASE UNCHANGED vars
    BY <2>11 DEF vars
  <2>12. QED
    BY <2>1, <2>2, <2>3, <2>4, <2>5, <2>6, <2>7, <2>8, <2>9, <2>10, <2>11
       DEF Next, AllDead, Stop, Receiver, RecvStop, Die, RecvDie, Overrun
<1>3. QED
  BY <1>1, <1>2, TypeCorrect, SocketInvariant, PTL DEF Spec

\* Whoever has sent, or was found bound by a sender, is past its listen().
LEMMA MetInvariant == Spec => []MetInv
<1>1. Init => MetInv
  BY DEF Init, MetInv
<1>2. TypeOK /\ HandInv /\ SocketInv /\ MetInv /\ [Next]_vars => MetInv'
  <2> SUFFICES ASSUME TypeOK, HandInv, SocketInv, MetInv, [Next]_vars
               PROVE  MetInv'
    OBVIOUS
  <2>0. \A m \in Msgs : m.from \in Procs /\ m.to \in Procs
    BY ConstantsAssumption
  <2> USE <2>0 DEF SocketInv, MetInv, Bound, CanDeliver, Usable, TypeOK, procVars,
              userVars, histVars, StopSteps, LoopSteps, ListenSteps
  <2>1. ASSUME NEW p \in Procs, Listen(p) \/ Run(p) PROVE MetInv'
    BY <2>1 DEF Listen, CreateSocket, SocketFails, Bind, BindFails, GiveUp, Run
  <2>2. ASSUME NEW p \in Procs, StopFlag(p) \/ StopClose(p) PROVE MetInv'
    BY <2>2 DEF StopFlag, StopClose
  <2>3. ASSUME NEW p \in Procs, StopZero(p) \/ StopReturn(p) PROVE MetInv'
    BY <2>3 DEF StopZero, StopReturn
  <2>4. ASSUME NEW p \in Procs, EndProcess(p) PROVE MetInv'
    BY <2>4 DEF EndProcess
  <2>5. ASSUME NEW p \in Procs, User(p) PROVE MetInv'
    BY <2>5 DEF User, LeaveLoop, Sigint, SigintAgain, SendMsg
  <2>6. ASSUME NEW p \in Procs, CheckFlag(p) \/ CallRecv(p) \/ RecvError(p)
        PROVE  MetInv'
    BY <2>6 DEF CheckFlag, CallRecv, RecvError
  <2>7. ASSUME NEW p \in Procs, Handle(p) PROVE MetInv'
    <3>1. CASE ShowMsg(p)
      BY <3>1 DEF ShowMsg, HandInv
    <3>2. CASE SendAck(p)
      BY <3>2 DEF SendAck
    <3>3. CASE ShowAck(p)
      BY <3>3 DEF ShowAck
    <3>4. QED
      BY <2>7, <3>1, <3>2, <3>3 DEF Handle
  <2>8. ASSUME NEW p \in Procs,
              \E m \in Msgs : DeliverMsg(p, m) \/ DeliverAck(p, m)
       PROVE  MetInv'
    BY <2>8 DEF DeliverMsg, DeliverAck, CanDeliver
  <2>9. ASSUME NEW p \in Procs,
              RecvStopFlag(p) \/ RecvStopClose(p) \/ RecvStopZero(p)
       PROVE  MetInv'
    BY <2>9 DEF RecvStopFlag, RecvStopClose, RecvStopZero
  <2>10. ASSUME Network PROVE MetInv'
    BY <2>10 DEF Network, LoseMsg, LoseAck, DupMsg, DupAck
  <2>11. CASE UNCHANGED vars
    BY <2>11 DEF vars
  <2>12. QED
    BY <2>1, <2>2, <2>3, <2>4, <2>5, <2>6, <2>7, <2>8, <2>9, <2>10, <2>11
       DEF Next, AllDead, Stop, Receiver, RecvStop, Die, RecvDie, Overrun
<1>3. QED
  BY <1>1, <1>2, TypeCorrect, HandInvariant, SocketInvariant, PTL DEF Spec

-------------------------------------------------------------------------------
LEMMA CausalInvariant == Spec => []CausalInv
<1>1. Init => CausalInv
  BY ConstantsAssumption DEF Init, CausalInv, Holds
<1>2. TypeOK /\ HandInv /\ CausalInv /\ [Next]_vars => CausalInv'
  <2> SUFFICES ASSUME TypeOK, HandInv, CausalInv, [Next]_vars
               PROVE  CausalInv'
    OBVIOUS
  <2> USE ConstantsAssumption
      DEF HandInv, CausalInv, Holds, TypeOK, procVars, netVars, userVars, histVars
  <2>1. ASSUME NEW p \in Procs, Listen(p) PROVE CausalInv'
    BY <2>1 DEF Listen, CreateSocket, SocketFails, Bind, BindFails, GiveUp
  <2>2. ASSUME NEW p \in Procs, Run(p) PROVE CausalInv'
    BY <2>2 DEF Run
  <2>3. ASSUME NEW p \in Procs, Stop(p) PROVE CausalInv'
    BY <2>3 DEF Stop, StopFlag, StopClose, StopZero, StopReturn, Die,
                EndProcess
  <2>4. ASSUME NEW p \in Procs, User(p) PROVE CausalInv'
    BY <2>4 DEF User, LeaveLoop, Sigint, SigintAgain, SendMsg
  <2>5. ASSUME NEW p \in Procs, Receiver(p) PROVE CausalInv'
    <3>1. CASE CheckFlag(p) \/ CallRecv(p)
      BY <3>1 DEF CheckFlag, CallRecv
    <3>2. CASE ShowMsg(p)
      BY <3>2 DEF ShowMsg
    <3>3. CASE SendAck(p)
      BY <3>3 DEF SendAck
    <3>4. CASE ShowAck(p)
      BY <3>4 DEF ShowAck
    <3>5. ASSUME NEW m \in Msgs, DeliverMsg(p, m) PROVE CausalInv'
      BY <3>5 DEF DeliverMsg
    <3>6. ASSUME NEW m \in Msgs, DeliverAck(p, m) PROVE CausalInv'
      BY <3>6 DEF DeliverAck
    <3>7. CASE RecvStop(p)
      BY <3>7 DEF RecvStop, RecvStopFlag, RecvStopClose, RecvStopZero, RecvDie,
                EndProcess
    <3>8. QED
      BY <2>5, <3>1, <3>2, <3>3, <3>4, <3>5, <3>6, <3>7 DEF Receiver, Handle
  <2>6. ASSUME NEW p \in Procs, RecvError(p) \/ Overrun(p) PROVE CausalInv'
    BY <2>6 DEF RecvError, Overrun, EndProcess
  <2>7. ASSUME Network PROVE CausalInv'
    <3>1. ASSUME NEW m \in Msgs, LoseMsg(m) \/ DupMsg(m) PROVE CausalInv'
      BY <3>1 DEF LoseMsg, DupMsg
    <3>2. ASSUME NEW m \in Msgs, LoseAck(m) \/ DupAck(m) PROVE CausalInv'
      BY <3>2 DEF LoseAck, DupAck
    <3>3. QED
      BY <2>7, <3>1, <3>2 DEF Network
  <2>8. CASE UNCHANGED vars
    BY <2>8 DEF vars, procVars, netVars, userVars, histVars
  <2>9. QED
    BY <2>1, <2>2, <2>3, <2>4, <2>5, <2>6, <2>7, <2>8 DEF Next, AllDead
<1>3. QED
  BY <1>1, <1>2, TypeCorrect, HandInvariant, PTL DEF Spec

-------------------------------------------------------------------------------
\* No message and no confirmation is multiplied by anything but the network.
THEOREM ChatConservation == Spec => []Conservation
<1>1. Init => Conservation
  BY ConstantsAssumption
     DEF Init, Conservation, MsgCopies, AckCopies, Holds, One
<1>2. TypeOK /\ HandInv /\ Conservation /\ [Next]_vars => Conservation'
  <2> SUFFICES ASSUME TypeOK, HandInv, Conservation, [Next]_vars,
                      NEW m \in Msgs
               PROVE  /\ (MsgCopies(m) <= One(m \in sent) + dups)'
                      /\ (AckCopies(m) <= shown[m] + dups)'
    BY DEF Conservation
  <2>0. /\ MsgCopies(m) <= One(m \in sent) + dups
        /\ AckCopies(m) <= shown[m] + dups
        /\ m.from \in Procs /\ m.to \in Procs
    BY ConstantsAssumption DEF Conservation
  <2> USE <2>0, ConstantsAssumption
      DEF HandInv, MsgCopies, AckCopies, Holds, One, TypeOK,
          procVars, netVars, userVars, histVars
  <2> DEFINE Conserved == /\ MsgCopies(m) <= One(m \in sent) + dups
                          /\ AckCopies(m) <= shown[m] + dups
  <2> SUFFICES Conserved'
    OBVIOUS
  <2>1. ASSUME NEW p \in Procs, Listen(p) PROVE Conserved'
    BY <2>1 DEF Listen, CreateSocket, SocketFails, Bind, BindFails, GiveUp
  <2>2. ASSUME NEW p \in Procs, Run(p) PROVE Conserved'
    BY <2>2 DEF Run
  <2>3. ASSUME NEW p \in Procs, Stop(p) PROVE Conserved'
    BY <2>3 DEF Stop, StopFlag, StopClose, StopZero, StopReturn, Die,
                EndProcess
  <2>4. ASSUME NEW p \in Procs, User(p) PROVE Conserved'
    BY <2>4 DEF User, LeaveLoop, Sigint, SigintAgain, SendMsg
  <2>5. ASSUME NEW p \in Procs, Receiver(p) PROVE Conserved'
    <3>1. CASE CheckFlag(p) \/ CallRecv(p)
      BY <3>1 DEF CheckFlag, CallRecv
    <3>2. CASE ShowMsg(p)
      BY <3>2 DEF ShowMsg
    <3>3. CASE SendAck(p)
      BY <3>3 DEF SendAck
    <3>4. CASE ShowAck(p)
      BY <3>4 DEF ShowAck
    <3>5. ASSUME NEW k \in Msgs, DeliverMsg(p, k) PROVE Conserved'
      BY <3>5 DEF DeliverMsg, CanDeliver
    <3>6. ASSUME NEW k \in Msgs, DeliverAck(p, k) PROVE Conserved'
      BY <3>6 DEF DeliverAck, CanDeliver
    <3>7. CASE RecvStop(p)
      BY <3>7 DEF RecvStop, RecvStopFlag, RecvStopClose, RecvStopZero, RecvDie,
                EndProcess
    <3>8. QED
      BY <2>5, <3>1, <3>2, <3>3, <3>4, <3>5, <3>6, <3>7 DEF Receiver, Handle
  <2>6. ASSUME NEW p \in Procs, RecvError(p) \/ Overrun(p) PROVE Conserved'
    BY <2>6 DEF RecvError, Overrun, EndProcess
  <2>7. ASSUME Network PROVE Conserved'
    <3>1. ASSUME NEW k \in Msgs, LoseMsg(k) \/ DupMsg(k) PROVE Conserved'
      BY <3>1 DEF LoseMsg, DupMsg
    <3>2. ASSUME NEW k \in Msgs, LoseAck(k) PROVE Conserved'
      BY <3>2 DEF LoseAck
    <3>3. ASSUME NEW k \in Msgs, DupAck(k) PROVE Conserved'
      BY <3>3 DEF DupAck
    <3>4. QED
      BY <2>7, <3>1, <3>2, <3>3 DEF Network
  <2>8. CASE UNCHANGED vars
    BY <2>8 DEF vars, procVars, netVars, userVars, histVars
  <2>9. QED
    BY <2>1, <2>2, <2>3, <2>4, <2>5, <2>6, <2>7, <2>8 DEF Next, AllDead
<1>3. QED
  BY <1>1, <1>2, TypeCorrect, HandInvariant, PTL DEF Spec

-------------------------------------------------------------------------------
\* Until stop() begins, the receiver thread works on the bound socket.
THEOREM ReceiverKeepsSocket == Spec => []SocketWhileRunning
BY SocketInvariant, PTL

\* Only after a failed bind(), after a SIGINT between close and reset, or with
\* both threads inside stop() is a descriptor closed that is not the open socket.
THEOREM StrayClosesExplained == Spec => []StrayClose
<1>1. SocketInv /\ CloseInv => StrayClose
  BY DEF SocketInv, CloseInv, StrayClose, StopSteps, Stale
<1>2. QED
  BY <1>1, SocketInvariant, CloseInvariant, PTL

\* However a program is ended, at most its last print lacks a confirmation.
THEOREM LastIsUnanswered == Spec => []OneUnanswered
<1>1. TypeOK /\ AnswerInv => OneUnanswered
  <2> SUFFICES ASSUME TypeOK, AnswerInv, NEW p \in Procs
               PROVE  /\ owed[p] <= 1
                      /\ owed[p] = 1
                            => recv[p] \notin {"call", "blocked", "msg", "ackd"}
    BY DEF OneUnanswered
  <2>1. QED
    BY DEF TypeOK, AnswerInv, StopSteps
<1>2. QED
  BY <1>1, TypeCorrect, AnswerInvariant, PTL

\* A message printed while the program is running is always acknowledged.
THEOREM PrintsAreAnswered == Spec => SilentPrint
<1>1. ASSUME TypeOK, HandInv, SocketInv, SocketWhileRunning, [Next]_vars,
             NEW q \in Procs
      PROVE  Answered(q) \/ ~running[q]
  <2> USE <1>1 DEF TypeOK, HandInv, SocketWhileRunning, Answered, procVars
  <2>1. ASSUME NEW p \in Procs, Listen(p) \/ Run(p)
        PROVE  Answered(q) \/ ~running[q]
    <3>1. UNCHANGED recv \/ recv' = [recv EXCEPT ![p] = "check"]
      BY <2>1 DEF Listen, CreateSocket, SocketFails, Bind, BindFails, GiveUp,
                Run
    <3>2. recv[p] # "reply" \/ UNCHANGED recv
      BY <2>1 DEF Listen, CreateSocket, SocketFails, Bind, BindFails, GiveUp,
                Run, SocketInv, ListenSteps
    <3>3. QED
      BY <3>1, <3>2
  <2>2. ASSUME NEW p \in Procs, Stop(p) PROVE Answered(q) \/ ~running[q]
    BY <2>2 DEF Stop, StopFlag, StopClose, StopZero, StopReturn, Die,
                EndProcess
  <2>3. ASSUME NEW p \in Procs, User(p) PROVE Answered(q) \/ ~running[q]
    BY <2>3 DEF User, LeaveLoop, Sigint, SigintAgain, SendMsg
  <2>4. ASSUME NEW p \in Procs, Receiver(p) PROVE Answered(q) \/ ~running[q]
    <3>1. CASE SendAck(p)
      BY <3>1 DEF SendAck
    <3>2. CASE CheckFlag(p) \/ CallRecv(p) \/ ShowMsg(p) \/ ShowAck(p)
      BY <3>2 DEF CheckFlag, CallRecv, ShowMsg, ShowAck
    <3>3. CASE \E m \in Msgs : DeliverMsg(p, m) \/ DeliverAck(p, m)
      BY <3>3 DEF DeliverMsg, DeliverAck, CanDeliver
    <3>4. CASE RecvStop(p)
      BY <3>4 DEF RecvStop, RecvStopFlag, RecvStopClose, RecvStopZero, RecvDie,
                EndProcess
    <3>5. QED
      BY <2>4, <3>1, <3>2, <3>3, <3>4 DEF Receiver, Handle
  <2>5. ASSUME NEW p \in Procs, RecvError(p) \/ Overrun(p)
        PROVE  Answered(q) \/ ~running[q]
    BY <2>5 DEF RecvError, Overrun, EndProcess
  <2>6. ASSUME Network PROVE Answered(q) \/ ~running[q]
    BY <2>6 DEF Network, LoseMsg, LoseAck, DupMsg, DupAck
  <2>7. CASE UNCHANGED vars
    BY <2>7 DEF vars, procVars, netVars, userVars, histVars
  <2>8. QED
    BY <2>1, <2>2, <2>3, <2>4, <2>5, <2>6, <2>7 DEF Next, AllDead
<1>2. TypeOK /\ HandInv /\ SocketInv /\ SocketWhileRunning /\ [Next]_vars
        => [\A p \in Procs : Answered(p) \/ ~running[p]]_vars
  BY <1>1
<1>3. QED
  BY <1>2, TypeCorrect, HandInvariant, SocketInvariant, PTL
     DEF Spec, SilentPrint

-------------------------------------------------------------------------------
\* Nobody sends more than finitely many messages.
LEMMA SentIsFinite == Spec => []FiniteSent
<1>1. Init => FiniteSent
  BY FS_EmptySet DEF Init, FiniteSent
<1>2. FiniteSent /\ [Next]_vars => FiniteSent'
  <2> SUFFICES ASSUME FiniteSent, [Next]_vars PROVE FiniteSent'
    OBVIOUS
  <2>1. ASSUME NEW p \in Procs, NEW m \in Msgs, SendMsg(p, m)
        PROVE  FiniteSent'
    BY <2>1, FS_Singleton, FS_Union DEF SendMsg, FiniteSent
  <2>2. QED
    BY <2>1, OnlySendMsgSends DEF FiniteSent
<1>3. QED
  BY <1>1, <1>2, PTL DEF Spec

\* Over a network that loses nothing, a text sent to a bound port and its
\* confirmation stay on their way, as long as the programs are undisturbed: the
\* other half of Conservation.
THEOREM NothingIsLost == Spec => []NothingLost
<1>1. Init => NothingLost
  BY DEF Init, NothingLost
<1>2. TypeOK /\ TypeOK' /\ HandInv /\ SocketInv /\ CausalInv /\ MetInv /\ MetInv'
        /\ NothingLost /\ [Next]_vars => NothingLost'
  <2> SUFFICES ASSUME TypeOK, TypeOK', HandInv, SocketInv, CausalInv, MetInv,
                      MetInv', NothingLost, [Next]_vars, ~Lossy,
                      NEW m \in Msgs, m \in sent'
               PROVE  /\ (m \in met /\ Undisturbed(m.to) => MsgCopies(m) >= 1)'
                      /\ (Undisturbed(m.to) /\ Undisturbed(m.from)
                            => AckCopies(m) >= shown[m])'
    <3>1. TypeOK' /\ MetInv' => sent' \subseteq Msgs /\ met' \subseteq sent'
      BY DEF TypeOK, MetInv
    <3>2. QED
      BY <3>1 DEF NothingLost
  <2> DEFINE Kept == /\ m \in met /\ Undisturbed(m.to) => MsgCopies(m) >= 1
                     /\ Undisturbed(m.to) /\ Undisturbed(m.from)
                           => AckCopies(m) >= shown[m]
  <2> SUFFICES Kept'
    OBVIOUS
  <2>0. m.from \in Procs /\ m.to \in Procs
    BY ConstantsAssumption
  <2> USE <2>0, ConstantsAssumption
      DEF MsgCopies, AckCopies, Holds, One, TypeOK, Undisturbed,
          procVars, netVars, userVars, histVars, LoopSteps
  <2>1. CASE m \notin sent
    <3>1. PICK p \in Procs, k \in Msgs : SendMsg(p, k)
      BY <2>1, OnlySendMsgSends
    <3>2. k = m
      BY <2>1, <3>1 DEF SendMsg
    <3>3. /\ data'[m] = data[m] + 1 /\ UNCHANGED <<recv, hand, main, shown>>
          /\ acks' = acks /\ confirmed' = confirmed
      BY <3>1, <3>2 DEF SendMsg
    <3>4. shown[m] = 0
      BY <2>1 DEF CausalInv
    <3>5. QED
      BY <3>3, <3>4
  <2>2. CASE m \in sent
    <3>1. /\ m \in met /\ Undisturbed(m.to) => MsgCopies(m) >= 1
          /\ Undisturbed(m.to) /\ Undisturbed(m.from) => AckCopies(m) >= shown[m]
          /\ m \in met \/ shown[m] > 0
                => main[m.to] \notin {"listen", "bind", "failed"}
          /\ main[m.from] \notin {"listen", "bind", "failed", "run"}
      BY <2>2 DEF NothingLost, MetInv, ListenSteps
    <3> USE <3>1
    <3>2. ASSUME NEW p \in Procs, Listen(p) \/ Run(p) PROVE Kept'
      <4>1. CASE CreateSocket(p) \/ SocketFails(p) \/ BindFails(p) \/ GiveUp(p)
        BY <4>1 DEF CreateSocket, SocketFails, BindFails, GiveUp
      <4>2. CASE Bind(p)
        BY <4>2 DEF Bind
      <4>3. CASE Run(p)
        BY <4>3 DEF Run, SocketInv
      <4>4. QED
        BY <3>2, <4>1, <4>2, <4>3 DEF Listen
    <3>3. ASSUME NEW p \in Procs, StopFlag(p) \/ StopClose(p) \/ StopZero(p)
                                 \/ StopReturn(p)
          PROVE  Kept'
      BY <3>3 DEF StopFlag, StopClose, StopZero, StopReturn
    <3>4. ASSUME NEW p \in Procs, EndProcess(p) PROVE Kept'
      BY <3>4 DEF EndProcess
    <3>5. ASSUME NEW p \in Procs, LeaveLoop(p) \/ Sigint(p) \/ SigintAgain(p)
          PROVE  Kept'
      BY <3>5 DEF LeaveLoop, Sigint, SigintAgain
    <3>6. ASSUME NEW p \in Procs, NEW k \in Msgs, SendMsg(p, k) PROVE Kept'
      <4>1. k # m
        BY <2>2, <3>6 DEF SendMsg
      <4>2. m \in met' <=> m \in met
        BY <3>6, <4>1 DEF SendMsg
      <4>3. QED
        BY <3>6, <4>1, <4>2 DEF SendMsg
    <3>7. ASSUME NEW p \in Procs, CheckFlag(p) \/ CallRecv(p) \/ RecvError(p)
          PROVE  Kept'
      BY <3>7 DEF CheckFlag, CallRecv, RecvError
    <3>8. ASSUME NEW p \in Procs, ShowMsg(p) PROVE Kept'
      BY <3>8 DEF ShowMsg, HandInv
    <3>9. ASSUME NEW p \in Procs, SendAck(p) PROVE Kept'
      BY <3>9 DEF SendAck, SocketInv, HandInv
    <3>10. ASSUME NEW p \in Procs, ShowAck(p) PROVE Kept'
      BY <3>10 DEF ShowAck, HandInv
    <3>11. ASSUME NEW p \in Procs, NEW k \in Msgs, DeliverMsg(p, k) PROVE Kept'
      BY <3>11 DEF DeliverMsg, CanDeliver
    <3>12. ASSUME NEW p \in Procs, NEW k \in Msgs, DeliverAck(p, k) PROVE Kept'
      BY <3>12 DEF DeliverAck, CanDeliver
    <3>13. ASSUME NEW p \in Procs,
                  RecvStopFlag(p) \/ RecvStopClose(p) \/ RecvStopZero(p)
           PROVE  Kept'
      BY <3>13 DEF RecvStopFlag, RecvStopClose, RecvStopZero
    <3>14. ASSUME NEW k \in Msgs, LoseMsg(k) PROVE Kept'
      <4>1. Undisturbed(k.to) => Bound(k.to)
        BY DEF SocketInv, Bound, Usable
      <4>2. k = m => ~Undisturbed(m.to)'
        BY <3>14, <4>1 DEF LoseMsg
      <4>3. QED
        BY <3>14, <4>2 DEF LoseMsg
    <3>15. ASSUME NEW k \in Msgs, LoseAck(k) PROVE Kept'
      <4>1. Undisturbed(k.from) => Bound(k.from)
        BY DEF SocketInv, Bound, Usable
      <4>2. k = m => ~Undisturbed(m.from)'
        BY <3>15, <4>1 DEF LoseAck
      <4>3. QED
        BY <3>15, <4>2 DEF LoseAck
    <3>16. ASSUME NEW k \in Msgs, DupMsg(k) \/ DupAck(k) PROVE Kept'
      BY <3>16 DEF DupMsg, DupAck
    <3>17. CASE UNCHANGED vars
      BY <3>17 DEF vars
    <3>18. QED
      BY <3>2, <3>3, <3>4, <3>5, <3>6, <3>7, <3>8, <3>9, <3>10, <3>11, <3>12,
         <3>13, <3>14, <3>15, <3>16, <3>17
         DEF Next, AllDead, Stop, User, Receiver, Handle, RecvStop, Die, RecvDie,
             Overrun, Network
  <2>3. QED
    BY <2>1, <2>2
<1>3. QED
  BY <1>1, <1>2, TypeCorrect, HandInvariant, SocketInvariant, CausalInvariant,
     MetInvariant, PTL DEF Spec

\* The invariant that the proofs above establish, as one formula.
THEOREM Inductive == Spec => []IInv
BY TypeCorrect, HandInvariant, SocketInvariant, CloseInvariant, CausalInvariant,
   AnswerInvariant, LastIsUnanswered, ChatConservation, MetInvariant,
   NothingIsLost, SentIsFinite, PTL DEF IInv

\* Whoever counts as many confirmations from a peer as messages sent to it knows
\* that all were printed: no message has two, so that none is without.
THEOREM CountProves == Spec => []CountProvesDelivery
<1>1. IInv => CountProvesDelivery
  <2> SUFFICES ASSUME IInv, NEW p \in Procs, NEW q \in Procs, dups = 0,
                      Cardinality(Confirmations(p, q)) = Cardinality(SentTo(p, q)),
                      NEW m \in SentTo(p, q)
               PROVE  shown[m] > 0
    BY DEF CountProvesDelivery, AllShown
  <2> DEFINE S == SentTo(p, q)
             C == Confirmations(p, q)
             f == [x \in C |-> x[1]]
  <2>1. ASSUME NEW n \in S
        PROVE  shown[n] \in Nat /\ confirmed[n] \in Nat
               /\ confirmed[n] <= 1 /\ confirmed[n] <= shown[n]
    <3>1. n \in Msgs /\ TypeOK
      BY DEF SentTo, IInv, TypeOK
    <3>2. /\ data[n] \in Nat /\ acks[n] \in Nat /\ shown[n] \in Nat
          /\ confirmed[n] \in Nat
      BY <3>1 DEF TypeOK
    <3>3. MsgCopies(n) <= One(n \in sent) + 0 /\ AckCopies(n) <= shown[n] + 0
      BY <3>1 DEF IInv, Conservation
    <3>4. QED
      BY <3>2, <3>3 DEF MsgCopies, AckCopies, One
  <2>2. \A x \in C : x[1] \in S /\ x = <<x[1], 1>> /\ confirmed[x[1]] >= 1
    <3> SUFFICES ASSUME NEW n \in S, NEW k \in 1..confirmed[n]
                 PROVE  k = 1 /\ confirmed[n] >= 1
      BY DEF Confirmations
    <3>1. QED
      BY <2>1
  <2>3. IsFiniteSet(S)
    BY FS_Subset DEF IInv, FiniteSent, SentTo
  <2> HIDE DEF S, C
  <2>4. f \in Injection(C, S)
    BY <2>2 DEF Injection, IsInjective
  <2>5. f \in Surjection(C, S)
    BY <2>3, <2>4, FS_Injection DEF S, C
  <2>6. PICK x \in C : f[x] = m
    BY <2>5 DEF Surjection, S
  <2>7. confirmed[m] >= 1 /\ m \in S
    BY <2>2, <2>6
  <2>8. QED
    BY <2>1, <2>7
<1>2. QED
  BY <1>1, Inductive, PTL

-------------------------------------------------------------------------------
\* The chat implements AckedDelivery: a print is preceded by the send, and a
\* confirmation by the print, whatever the network and the shutdown do.
THEOREM ChatKeepsPromise == Spec => KeepsPromise
<1>1. Init => Promise!Init
  BY DEF Init, Promise!Init
<1>2. ASSUME TypeOK, HandInv, CausalInv, [Next]_vars
      PROVE  [Promise!Next]_Promise!vars
  <2> USE <1>2, ConstantsAssumption
      DEF TypeOK, HandInv, Promise!vars, procVars, netVars, userVars, histVars
  <2>1. ASSUME NEW p \in Procs, Listen(p) \/ Run(p)
        PROVE  [Promise!Next]_Promise!vars
    BY <2>1 DEF Listen, CreateSocket, SocketFails, Bind, BindFails, GiveUp,
                Run
  <2>2. ASSUME NEW p \in Procs, Stop(p) PROVE [Promise!Next]_Promise!vars
    BY <2>2 DEF Stop, StopFlag, StopClose, StopZero, StopReturn, Die,
                EndProcess
  <2>3. ASSUME NEW p \in Procs, User(p) PROVE [Promise!Next]_Promise!vars
    <3>1. CASE LeaveLoop(p) \/ Sigint(p) \/ SigintAgain(p)
      BY <3>1 DEF LeaveLoop, Sigint, SigintAgain
    <3>2. ASSUME NEW m \in Msgs, SendMsg(p, m)
          PROVE  [Promise!Next]_Promise!vars
      <4>1. Promise!Send(m)
        BY <3>2 DEF SendMsg, Promise!Send
      <4>2. QED
        BY <4>1 DEF Promise!Next
    <3>3. QED
      BY <2>3, <3>1, <3>2 DEF User
  <2>4. ASSUME NEW p \in Procs, Receiver(p) PROVE [Promise!Next]_Promise!vars
    <3>1. CASE ShowMsg(p)
      <4>1. PICK m \in Msgs : m = hand[p] /\ m \in sent
        BY <3>1 DEF ShowMsg, CausalInv, Holds
      <4>2. {k \in Msgs : shown'[k] > 0}
              = {k \in Msgs : shown[k] > 0} \cup {m}
        BY <3>1, <4>1 DEF ShowMsg
      <4>3. Promise!Display(m)
        BY <3>1, <4>1, <4>2 DEF ShowMsg, Promise!Display
      <4>4. QED
        BY <4>3 DEF Promise!Next
    <3>2. CASE ShowAck(p)
      <4>1. PICK m \in Msgs : m = hand[p] /\ shown[m] > 0
        BY <3>2 DEF ShowAck, CausalInv, Holds
      <4>2. {k \in Msgs : confirmed'[k] > 0}
              = {k \in Msgs : confirmed[k] > 0} \cup {m}
        BY <3>2, <4>1 DEF ShowAck
      <4>3. Promise!Confirm(m)
        BY <3>2, <4>1, <4>2 DEF ShowAck, Promise!Confirm
      <4>4. QED
        BY <4>3 DEF Promise!Next
    <3>3. CASE CheckFlag(p) \/ CallRecv(p) \/ SendAck(p)
      BY <3>3 DEF CheckFlag, CallRecv, SendAck
    <3>4. CASE \E m \in Msgs : DeliverMsg(p, m) \/ DeliverAck(p, m)
      BY <3>4 DEF DeliverMsg, DeliverAck
    <3>5. CASE RecvStop(p)
      BY <3>5 DEF RecvStop, RecvStopFlag, RecvStopClose, RecvStopZero, RecvDie,
                EndProcess
    <3>6. QED
      BY <2>4, <3>1, <3>2, <3>3, <3>4, <3>5 DEF Receiver, Handle
  <2>5. ASSUME NEW p \in Procs, RecvError(p) \/ Overrun(p)
        PROVE  [Promise!Next]_Promise!vars
    BY <2>5 DEF RecvError, Overrun, EndProcess
  <2>6. ASSUME Network PROVE [Promise!Next]_Promise!vars
    BY <2>6 DEF Network, LoseMsg, LoseAck, DupMsg, DupAck
  <2>7. CASE UNCHANGED vars
    BY <2>7 DEF vars, procVars, netVars, userVars, histVars
  <2>8. QED
    BY <2>1, <2>2, <2>3, <2>4, <2>5, <2>6, <2>7 DEF Next, AllDead
<1>3. QED
  BY <1>1, <1>2, TypeCorrect, HandInvariant, CausalInvariant, PTL
     DEF Spec, KeepsPromise, Promise!Spec
==============================================================================
