------------------------------ MODULE RobotSystem ------------------------------
(***************************************************************************)
(* The robot server with the WeChatApi it calls: the one step GetAnswer of *)
(* RobotService is a call of WeChatApi::getAnswer, which takes time, may   *)
(* fetch a signature first, and ends the process when it throws.           *)
(*                                                                         *)
(* The web service is external.  As a rule it signs every request it       *)
(* answers, and answers a question under a live signature; under any other *)
(* it returns an object without an answer.  Either request may also get no *)
(* response, and the service may break the rule: with a body that is not   *)
(* JSON or lacks a member, or by closing its end while it is written to.   *)
(* A body that is cut is never taken for whole (WeChatRequest:             *)
(* FatalExplained), when the service states its length.                    *)
(***************************************************************************)
EXTENDS RobotService, WeChatApi

CONSTANTS
    Foul        \* the clients whose words are not all UTF-8

ASSUME FoulAssumption == Foul \subseteq Clients

VARIABLES
    until,          \* the last second the service accepts signature_
    valid,          \* are the bytes of the last recv UTF-8?
    odd             \* history: did the process end because the service broke
                    \* its rule?

sysVars == <<vars, apiVars, until, valid, odd>>

SysTypeOK == TypeOK /\ ApiTypeOK /\ until \in Nat /\ valid \in BOOLEAN
             /\ odd \in BOOLEAN

SysInit == Init /\ ApiInit /\ until = 0 /\ valid = TRUE /\ odd = FALSE

-------------------------------------------------------------------------------
\* What happens outside of getAnswer, to the network, the clients and the server.
Outside(A) == A /\ UNCHANGED <<apiVars, until, valid, odd>>

\* Do the parts q of c begin and end where words of it do?
Whole(c, q) == /\ Head(q) = 1 \/ Head(q) - 1 \in ends[c]
               /\ Last(q) \in ends[c]

\* recv takes at most 1024 bytes, and TCP keeps no characters together: a part
\* may begin or end inside one.
ReceiveText ==
    /\ ServerRecv
    /\ valid' \in BOOLEAN
    /\ ~valid' => fd \in Foul \/ ~Whole(fd, hand')
    /\ UNCHANGED <<apiVars, until, odd>>

Live == now <= until

\* getAnswer up to its call of query; time passes at any point.
Calling(A) == at = "ask" /\ A /\ UNCHANGED <<vars, valid, odd>>
Sign == \/ Calling(AskApi \/ Issue \/ SignFails) /\ UNCHANGED until
        \/ Calling(SignOk) /\ until' = reply.issued + reply.lifetime
TimePasses == Tick /\ UNCHANGED <<vars, until, valid, odd>>

\* getSignature: parse or get throws, or the service has closed its end.
SignThrows ==
    /\ step \in {"sign", "reply"}
    /\ ApiThrow
    /\ Throw
    /\ odd' = TRUE
    /\ UNCHANGED <<until, valid>>

\* Mutant: after a query without an answer getAnswer starts over.
QueryRetries ==
    /\ at = "ask" /\ valid
    /\ QueryReturns
    /\ \/ Live /\ GetAnswer
       \/ UNCHANGED vars
    /\ UNCHANGED <<until, valid, odd>>

\* Mutant: the server gives up a query that takes long, and does not cancel it.
QueryAbandoned ==
    /\ step = "query"
    /\ GetAnswer
    /\ UNCHANGED <<apiVars, until, valid, odd>>

\* query returns: true with an answer, or false and an apology is sent.
Query ==
    /\ at = "ask" /\ valid
    /\ QueryReturns
    /\ GetAnswer
    /\ ~Live => answer' = 1
    /\ UNCHANGED <<until, valid, odd>>

\* dump throws on bytes that are not UTF-8; of the response parse throws when it
\* is not JSON, and get when it has no answer.
QueryThrows ==
    /\ step = "query"
    /\ \/ ~valid /\ UNCHANGED odd
       \/ valid /\ ~Live /\ UNCHANGED odd
       \/ valid /\ odd' = TRUE
    /\ ApiThrow
    /\ Throw
    /\ UNCHANGED <<until, valid>>

GetAnswerSteps == Sign \/ SignThrows \/ Query \/ QueryThrows

SysServer == Outside(Accept \/ ServerRecvEnd \/ SendAnswer \/ ServerClose)
             \/ ReceiveText \/ GetAnswerSteps

SysNext ==
    \/ Outside(\E c \in Clients : Client(c) \/ User(c))
    \/ Outside(AcceptFails \/ Interrupt \/ Rest)
    \/ SysServer
    \/ TimePasses

SysSpec == SysInit /\ [][SysNext]_sysVars

\* As for RobotService; every request to the service ends, and time need not
\* pass.
SysFairSpec ==
    /\ SysSpec
    /\ WF_sysVars(SysServer)
    /\ \A c \in Clients : WF_sysVars(Outside(Client(c)))

-------------------------------------------------------------------------------
(* Properties. *)

\* Bytes that are not UTF-8 were sent by a client whose words are not, or are
\* parts of which the first or the last one is not that of a word.
ValidInv == at = "ask" /\ ~valid => fd \in Foul \/ ~Whole(fd, hand)

\* The server is inside getAnswer exactly when its loop is: no call is left behind
\* in the middle, and the process ends when the call does not return.  What the
\* service accepts and what WeChatApi recorded of it never come apart: a fetch
\* that fails leaves both as they were.  What is not UTF-8 was sent so or cut.
SysInv ==
    /\ SysTypeOK
    /\ ApiInv
    /\ at # "ask" /\ Listening => step = "idle"
    /\ at = "thrown" <=> step = "terminated"
    /\ until = signature + expiresIn
    /\ ValidInv

\* With the call of WeChatApi in place of GetAnswer the system still does what
\* RobotService does, the fairness of its server included: getAnswer, whatever
\* the service does, comes to an end.
ImplementsRobot == FairSpec

\* While the service keeps its rule, an exception of WeChatApi, which ends the
\* server for all its clients, has one of these causes: the client sends words
\* that are not UTF-8; the bytes in hand begin or end inside a word; the last
\* fetch of the signature failed; a second passed after getAnswer looked at the
\* clock, so that the signature expired on the way (getAnswer, lines 77-84).
ThrownExplained ==
    [][at # "thrown" /\ at' = "thrown" =>
          odd' \/ fd \in Foul \/ ~Whole(fd, hand) \/ refused \/ now > curTime
      ]_sysVars
===============================================================================
