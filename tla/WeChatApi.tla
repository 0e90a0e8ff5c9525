------------------------------ MODULE WeChatApi -------------------------------
(***************************************************************************)
(* WeChatApi (wechat_api.cpp): questions are put to a web service under a  *)
(* signature that expires.  The signature, the time it was fetched and its *)
(* lifetime are static members, refreshed on demand by getAnswer.          *)
(***************************************************************************)
EXTENDS Integers

CONSTANTS
    Lifetimes,  \* what the service may return as expiresIn, in seconds
    MaxTime     \* bound: the last second of the run

ASSUME WeChatAssumption == Lifetimes \subseteq Nat \ {0} /\ MaxTime \in Nat

VARIABLES
    now,            \* time(nullptr)
    step,             \* where getAnswer is
    curTime,        \* its local cur_time
    signature,      \* signature_, by the second it was issued; Unsigned at first
    signatureTime,  \* signature_time_
    expiresIn,      \* expires_in_
    reply,          \* the signature in the service's reply, while it travels
    refused         \* did the last getSignature return false?

apiVars == <<now, step, curTime, signature, signatureTime, expiresIn, reply, refused>>

Unsigned == 0       \* the empty string, and the time before the first fetch

Steps == {"idle", "sign", "reply", "query", "terminated"}

ApiTypeOK ==
    /\ now \in Nat \ {0}
    /\ step \in Steps
    /\ curTime \in Nat
    /\ signature \in Nat
    /\ signatureTime \in Nat
    /\ expiresIn \in Lifetimes \cup {0}
    /\ reply \in [issued : Nat, lifetime : Lifetimes \cup {0}]
    /\ refused \in BOOLEAN

ApiInit ==
    /\ now = 1
    /\ step = "idle"
    /\ curTime = 0
    /\ signature = Unsigned
    /\ signatureTime = 0
    /\ expiresIn = 0
    /\ reply = [issued |-> 0, lifetime |-> 0]
    /\ refused = FALSE

Tick ==
    /\ now < MaxTime
    /\ now' = now + 1
    /\ UNCHANGED <<step, curTime, signature, signatureTime, expiresIn, reply,
                   refused>>

Expired == signatureTime = 0 \/ (now - signatureTime) > expiresIn

\* getAnswer reads the clock and decides whether to fetch a signature.
AskApi ==
    /\ step = "idle"
    /\ curTime' = now
    /\ step' = IF Expired THEN "sign" ELSE "query"
    /\ UNCHANGED <<now, signature, signatureTime, expiresIn, reply, refused>>

\* The service issues a signature: it is valid from this second on.
Issue ==
    /\ step = "sign"
    /\ \E l \in Lifetimes : reply' = [issued |-> now, lifetime |-> l]
    /\ step' = "reply"
    /\ UNCHANGED <<now, curTime, signature, signatureTime, expiresIn, refused>>

\* Mutant: the time of the reply is recorded, not that of the request.
SignOkStampsReply ==
    /\ step = "reply"
    /\ signature' = reply.issued
    /\ expiresIn' = reply.lifetime
    /\ signatureTime' = now
    /\ refused' = FALSE
    /\ step' = "query"
    /\ UNCHANGED <<now, curTime, reply>>

\* getSignature returns true.
SignOk ==
    /\ step = "reply"
    /\ signature' = reply.issued
    /\ expiresIn' = reply.lifetime
    /\ signatureTime' = curTime
    /\ refused' = FALSE
    /\ step' = "query"
    /\ UNCHANGED <<now, curTime, reply>>

\* No response, a status other than 200 or a null body: getSignature returns
\* false, which getAnswer does not look at.
SignFails ==
    /\ step \in {"sign", "reply"}
    /\ signatureTime' = curTime
    /\ refused' = TRUE
    /\ step' = "query"
    /\ UNCHANGED <<now, curTime, signature, expiresIn, reply>>

\* query returns true or false.
QueryReturns ==
    /\ step = "query"
    /\ step' = "idle"
    /\ UNCHANGED <<now, curTime, signature, signatureTime, expiresIn, reply,
                   refused>>

\* A body that is not JSON, or one without the expected members: parse or get
\* throws; a question that is not UTF-8: dump throws.  Nothing up to main
\* catches.  SIGPIPE in a write to the service ends the process just as well.
ApiThrow ==
    /\ step \in {"sign", "reply", "query"}
    /\ step' = "terminated"
    /\ UNCHANGED <<now, curTime, signature, signatureTime, expiresIn, reply,
                   refused>>

ApiNext == Tick \/ AskApi \/ Issue \/ SignOk \/ SignFails
           \/ QueryReturns \/ ApiThrow

ApiSpec == ApiInit /\ [][ApiNext]_apiVars

-------------------------------------------------------------------------------
(* Properties. *)

\* As long as no fetch failed, no question is put under a signature that had
\* expired when getAnswer looked at the clock, however long the service took to
\* sign: the time recorded is that of the request, never later than the
\* signature itself (getAnswer, lines 77-81).
SignedInTime ==
    step = "query" /\ ~refused
        => signature # Unsigned /\ curTime - signature <= expiresIn

-------------------------------------------------------------------------------
(* The inductive invariant: the recorded time never runs ahead of the clock   *)
(* getAnswer read, and a signature is never older than the recorded time      *)
(* unless a fetch failed since.                                               *)

StampInv ==
    /\ signatureTime <= curTime
    /\ curTime <= now
    /\ step # "idle" => curTime # 0
    /\ step = "reply" => curTime <= reply.issued /\ reply.issued <= now
    /\ step = "reply" => reply.lifetime \in Lifetimes
    /\ ~refused /\ signatureTime # 0 => signatureTime <= signature

ApiInv == ApiTypeOK /\ StampInv /\ SignedInTime

===============================================================================
