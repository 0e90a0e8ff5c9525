----------------------------- MODULE WeChatRequest ----------------------------
(***************************************************************************)
(* One WeChatApi::query, which WeChatApi takes as a single step: the word  *)
(* the server received becomes JSON (json.hpp, dump), is posted over TLS   *)
(* (httplib.h), and the response is parsed.  The same code carries         *)
(* getSignature, whose request never varies.                               *)
(*                                                                         *)
(* A request is two units, head and body, written by two calls.  A         *)
(* response is a status line, perhaps after a 100 Continue, its headers,   *)
(* and the units of its body.  The service is external.                    *)
(***************************************************************************)
EXTENDS Tcp, Utf8

CONSTANTS
    Words,      \* what a user may type: sequences of code points
    Replies,    \* how the service may answer: see ReplyType
    Pieces      \* units of a body

ReplyType ==
    [continued : BOOLEAN,                   \* is 100 Continue sent first?
     status : {200, 204, 500},
     framing : {"length", "chunked", "close", "encoded"},
     body : {"answer", "null", "other"}]    \* other: JSON without an answer

ASSUME RequestAssumption ==
    /\ Words \subseteq Seq(Characters)
    /\ Replies \subseteq ReplyType
    /\ Pieces \in Nat \ {0}

VARIABLES
    word,       \* the word typed
    from, upto, \* which of its bytes the server's recv returned
    i, state, codepoint,    \* dump_escaped's locals: i is the place it has reached
    pc,         \* where query is
    conn,       \* the connection; the side "c" is WeChatApi's
    reply,      \* what the service has to say
    told,       \* units of it that the service has sent
    taken,      \* units of the request that the service has read
    got,        \* pieces of the body received
    ok,         \* has process_request returned true?
    result      \* "true" or "false", or how query ended the process

textVars == <<word, from, upto, i, state, codepoint>>
svcVars  == <<reply, told, taken>>
vars     == <<textVars, pc, conn, svcVars, got, ok, result>>

\* After each piece of a chunked body come a CR and an LF.
Units == {"head", "body", "100", "status", "headers", "piece", "cr", "lf", "last"}

\* All that the service would say.
Preamble == IF reply.continued THEN <<"100", "status", "headers">>
                               ELSE <<"status", "headers">>

Body ==
    CASE reply.status = 204 -> <<>>
      [] reply.status # 204 /\ reply.framing = "chunked" ->
            [k \in 1..(3 * Pieces + 1) |->
                IF k > 3 * Pieces THEN "last"
                                  ELSE <<"piece", "cr", "lf">>[((k - 1) % 3) + 1]]
      [] OTHER -> [k \in 1..Pieces |-> "piece"]

Response == Preamble \o Body

TypeOK ==
    /\ word \in Words
    /\ from \in Places(word) /\ upto \in Places(word) /\ i \in Places(word)
    /\ Before(from, upto) /\ ~Before(i, from) /\ ~Before(upto, i)
    /\ state \in 0..8
    /\ codepoint \in Nat /\ codepoint <= 1114111
    /\ pc \in {"dump", "connect", "tls", "head", "body", "line", "headers",
               "content", "cr", "lf", "close", "parse", "done"}
    /\ conn \in Connection(Units)
    /\ reply \in Replies
    /\ told \in 0..Len(Response)
    /\ taken \in 0..2
    /\ got \in 0..Pieces
    /\ ok \in BOOLEAN
    /\ result \in {"none", "true", "false", "thrown", "killed"}

Init ==
    /\ word \in Words
    /\ from \in Places(word)
    /\ upto \in {p \in Places(word) : Before(from, p)}
    /\ i = from /\ state = Accept /\ codepoint = 0
    /\ pc = "dump"
    /\ conn = NewConnection
    /\ reply \in Replies
    /\ told = 0 /\ taken = 0 /\ got = 0
    /\ ok = FALSE
    /\ result = "none"

Finishes(how) == pc' = "done" /\ result' = how

-------------------------------------------------------------------------------
(* dump_escaped. *)

DumpByte ==
    /\ pc = "dump" /\ i # upto /\ state # Reject
    /\ LET b == ByteAt(word, i) IN
        /\ state' = Decode(state, b)
        /\ codepoint' = CodePoint(state, codepoint, b)
    /\ i' = Forth(word, i)
    /\ UNCHANGED <<word, from, upto, pc, conn, svcVars, got, ok, result>>

\* A byte that is not UTF-8, or an end inside a character: type_error 316.
DumpThrows ==
    /\ pc = "dump"
    /\ state = Reject \/ (i = upto /\ state # Accept)
    /\ Finishes("thrown")
    /\ UNCHANGED <<textVars, conn, svcVars, got, ok>>

\* Mutant: dump(-1, ' ', false, error_handler_t::ignore), a cut text is sent.
DumpIgnores ==
    /\ pc = "dump" /\ i = upto /\ state # Reject
    /\ pc' = "connect"
    /\ UNCHANGED <<textVars, conn, svcVars, got, ok, result>>

Dumped ==
    /\ pc = "dump" /\ i = upto /\ state = Accept
    /\ pc' = "connect"
    /\ UNCHANGED <<textVars, conn, svcVars, got, ok, result>>

-------------------------------------------------------------------------------
(* httplib: Post, by way of ClientImpl::send and process_request. *)

Here == UNCHANGED <<textVars, svcVars, result>>

\* No address, a refusal, or no answer for 300 seconds; a handshake or the check
\* of the certificate that fails: nullptr.  The handshake writes, and SSL_shutdown
\* after it does, so that SIGPIPE may come even here.
ConnectFails ==
    /\ \/ pc \in {"connect", "tls"} /\ Finishes("false")
       \/ pc = "tls" /\ conn.c.peerEnd # "open" /\ Finishes("killed")
    /\ UNCHANGED <<textVars, conn, svcVars, got, ok>>

Connect ==
    /\ pc = "connect"
    /\ pc' = "tls"
    /\ UNCHANGED <<conn, got, ok>> /\ Here

\* The handshake and the checks of the certificate.
InitializeSsl ==
    /\ pc = "tls"
    /\ conn.c.peerEnd = "open"
    /\ pc' = "head"
    /\ UNCHANGED <<conn, got, ok>> /\ Here

\* SSL_write ends in write(2), and nobody ignores SIGPIPE: only the constructor
\* of httplib's Server would.
Write(unit, next) ==
    /\ pc = unit
    /\ \E r \in SendResults(conn.c) :
        \/ /\ r = "sent"
           /\ conn' = Sent(conn, "c", <<unit>>)
           /\ pc' = next
           /\ UNCHANGED result
        \/ /\ r = "error"
           /\ conn' = Errored(conn, "c")
           /\ pc' = "close"
           /\ UNCHANGED result
        \/ r = "killed" /\ conn' = Closed(conn, "c") /\ Finishes("killed")
    /\ UNCHANGED <<textVars, svcVars, got, ok>>

WriteRequest == Write("head", "body") \/ Write("body", "line")

\* The socket takes no more data for five seconds.
WriteTimeout ==
    /\ pc \in {"head", "body"}
    /\ pc' = "close"
    /\ UNCHANGED <<conn, got, ok>> /\ Here

\* strm.read returned the next unit.
Reads(unit) ==
    /\ conn.c.inbox # <<>>
    /\ Head(conn.c.inbox) = unit
    /\ conn' = Read(conn, "c", 1)

ReadResponseLine ==
    /\ pc = "line"
    /\ \/ Reads("100") /\ UNCHANGED pc
       \/ Reads("status") /\ pc' = "headers"
    /\ UNCHANGED <<got, ok>> /\ Here

\* With status 204 no body is read.
ReadHeaders ==
    /\ pc = "headers"
    /\ Reads("headers")
    /\ ok' = (reply.status = 204)
    /\ pc' = IF ok' THEN "close" ELSE "content"
    /\ UNCHANGED got /\ Here

\* The declared length, or the terminator of the chunks, ends the body.
ReadContent ==
    /\ pc = "content" /\ reply.framing # "encoded"
    /\ \/ /\ Reads("piece")
          /\ got' = got + 1
          /\ ok' = (reply.framing = "length" /\ got' = Pieces)
       \/ /\ Reads("last")
          /\ ok' = TRUE
          /\ UNCHANGED got
    /\ pc' = CASE ok' -> "close"
               [] ~ok' /\ reply.framing = "chunked" -> "cr"
               [] OTHER -> pc
    /\ Here

\* The line that ends a chunk.
ReadChunkEnd ==
    /\ \/ pc = "cr" /\ Reads("cr") /\ pc' = "lf"
       \/ pc = "lf" /\ Reads("lf") /\ pc' = "content"
    /\ UNCHANGED <<got, ok>> /\ Here

\* A body in gzip, deflate or br: httplib was built without these (status 415).
RefuseContent ==
    /\ pc = "content"
    /\ reply.framing = "encoded"
    /\ pc' = "close"
    /\ UNCHANGED <<conn, got, ok>> /\ Here

\* Mutant: for a body with a length, too, the end of the stream is the end.
ReadContentEndAny ==
    /\ pc = "content"
    /\ AtEnd(conn.c)
    /\ ok' = TRUE
    /\ pc' = "close"
    /\ UNCHANGED <<conn, got>> /\ Here

\* The end of the stream ends a body without a length, wherever it comes.  It
\* also ends a chunked one if it comes behind a CR: that line is not "\r\n", and
\* the loop is left as if the body were whole.
ReadContentEnd ==
    /\ pc = "lf" \/ (pc = "content" /\ reply.framing = "close")
    /\ AtEnd(conn.c)
    /\ ok' = TRUE
    /\ pc' = "close"
    /\ UNCHANGED <<conn, got>> /\ Here

Reading == {"line", "headers", "content", "cr", "lf"}

\* The stream ends or breaks too early.
ReadFails ==
    /\ pc \in Reading
    /\ AtEnd(conn.c) \/ Failed(conn.c)
    /\ pc' = "close"
    /\ UNCHANGED <<conn, got, ok>> /\ Here

\* Mutant: a read waits for as long as it takes.
ReadTimeoutNever ==
    /\ pc \in Reading
    /\ conn.c.inbox = <<>>
    /\ conn.c.peerEnd # "open"
    /\ pc' = "close"
    /\ UNCHANGED <<conn, got, ok>> /\ Here

\* select_read sees nothing for five seconds; an answer may be on its way.
ReadTimeout ==
    /\ pc \in Reading
    /\ conn.c.inbox = <<>>
    /\ pc' = "close"
    /\ UNCHANGED <<conn, got, ok>> /\ Here

\* shutdown_ssl writes close_notify, unless TLS failed before, and the socket
\* is closed: no connection is kept.
Close ==
    /\ pc = "close"
    /\ conn' = Closed(conn, "c")
    /\ \/ "killed" \in SendResults(conn.c) /\ Finishes("killed")
       \/ IF ok THEN pc' = "parse" /\ UNCHANGED result ELSE Finishes("false")
    /\ UNCHANGED <<textVars, svcVars, got, ok>>

\* json::parse throws on a body that is not whole (JsonReader: AcceptsJson), get
\* on a missing answer.
Parse ==
    /\ pc = "parse"
    /\ \/ reply.status # 200 /\ Finishes("false")
       \/ /\ reply.status = 200
          /\ reply.body = "other" \/ got < Pieces
          /\ Finishes("thrown")
       \/ /\ reply.status = 200 /\ got = Pieces
          /\ \/ reply.body = "null" /\ Finishes("false")
             \/ reply.body = "answer" /\ Finishes("true")
    /\ UNCHANGED <<textVars, conn, svcVars, got, ok>>

Query == \/ DumpByte \/ DumpThrows \/ Dumped
         \/ ConnectFails \/ Connect \/ InitializeSsl
         \/ WriteRequest \/ WriteTimeout
         \/ ReadResponseLine \/ ReadHeaders
         \/ ReadContent \/ ReadChunkEnd \/ RefuseContent \/ ReadContentEnd
         \/ ReadFails \/ ReadTimeout \/ Close \/ Parse

-------------------------------------------------------------------------------
(* The service, which may be silent, answer before it has read everything, and *)
(* go away at any point.                                                       *)

Serving == pc \notin {"dump", "connect", "done"} /\ ~conn.s.closed

ServiceReads ==
    /\ Serving
    /\ conn.s.inbox # <<>>
    /\ conn' = Read(conn, "s", 1)
    /\ taken' = taken + 1
    /\ UNCHANGED <<textVars, pc, reply, told, got, ok, result>>

ServiceWrites ==
    /\ Serving
    /\ taken > 0 /\ told < Len(Response)
    /\ conn' = Sent(conn, "s", <<Response[told + 1]>>)
    /\ told' = told + 1
    /\ UNCHANGED <<textVars, pc, reply, taken, got, ok, result>>

ServiceCloses ==
    /\ Serving
    /\ conn' = Closed(conn, "s")
    /\ UNCHANGED <<textVars, pc, svcVars, got, ok, result>>

Service == ServiceReads \/ ServiceWrites \/ ServiceCloses

Done == pc = "done" /\ UNCHANGED vars

Next == Query \/ Service \/ Done

Spec == Init /\ [][Next]_vars

\* Only the server's own thread is sure to run on, its timeouts included.
FairSpec == Spec /\ WF_vars(Query)

-------------------------------------------------------------------------------
(* Properties. *)

\* Neither recv began nor ended inside a character.
Uncut == Whole(from) /\ Whole(upto)

\* Inside a character: what the state waits for, and the bits read so far.
Waiting(c, n) ==
    LET left == Len(Encode(c)) - n
        lead == Encode(c)[1]
    IN  CASE left = 1           -> 2
          [] left = 2 /\ n = 1  -> IF lead = 224 THEN 4 ELSE IF lead = 237 THEN 5 ELSE 3
          [] left = 2 /\ n = 2  -> 3
          [] left = 3           -> IF lead = 240 THEN 6 ELSE IF lead = 244 THEN 8 ELSE 7

Gathered(c, n) == c \div <<64, 4096, 262144>>[Len(Encode(c)) - n]

\* Behind the first byte: text that begins inside a character is rejected.  Other
\* text never is: at the end of each character the state accepts and the code
\* point is the character's, and inside one the state knows which bytes may
\* follow.
Tracks ==
    /\ ~Whole(from) => state = Reject
    /\ Whole(from) /\ Whole(i) => state = Accept /\ codepoint = word[i.chars]
    /\ Whole(from) /\ ~Whole(i) =>
        LET c == word[i.chars + 1]
        IN  state = Waiting(c, i.bytes) /\ codepoint = Gathered(c, i.bytes)

\* The table reads what the terminal wrote (decode), and lets no cut text pass.
DecodesTyped ==
    /\ pc = "dump" /\ i = from => state = Accept
    /\ pc = "dump" /\ i # from => Tracks
    /\ pc \notin {"dump", "done"} => Uncut

\* Units of the request that query has written, or lost.
Written ==
    CASE pc \in {"dump", "connect", "tls", "head"} -> 0
      [] pc = "body" -> 1
      [] OTHER -> 2

\* The service reads no more than was sent, and knows the end of the connection
\* before the other side does; whoever lost data to it left one unread.
RequestSent ==
    /\ taken + Len(conn.s.inbox) <= Written
    /\ conn.c.peerEnd # "open" => conn.s.closed
    /\ conn.c.peerEnd = "rst" \/ conn.c.broken => conn.s.closed /\ taken < 2
    /\ pc \notin {"parse", "done"} => conn.s.peerEnd = "open"

\* Units of the response that query has read.
Behind == told - Len(conn.c.inbox)

\* What waits in the socket is the rest of what was told.
InboxInv ==
    /\ Behind >= 0
    /\ \A k \in 1..Len(conn.c.inbox) : conn.c.inbox[k] = Response[Behind + k]

\* Where that rest begins, by the place of query and the pieces it has.
PlaceInv ==
    LET size == Len(Preamble)
        chunked == reply.framing = "chunked"
    IN  /\ pc \in {"dump", "connect", "tls", "head", "body"} => Behind = 0
        /\ pc = "line"    => Behind <= size - 2
        /\ pc = "headers" => Behind = size - 1
        /\ pc = "content" => Behind = size + (IF chunked THEN 3 * got ELSE got)
        /\ pc = "cr"      => chunked /\ Behind = size + 3 * got - 2
        /\ pc = "lf"      => chunked /\ Behind = size + 3 * got - 1
        /\ pc \in {"content", "cr", "lf"} => reply.status # 204

\* What process_request and query know at their ends.
EndInv ==
    /\ pc \notin {"content", "cr", "lf", "close", "parse", "done"} => got = 0
    /\ pc = "parse" => ok
    /\ ok => reply.status = 204 \/ (reply.framing = "length" => got = Pieces)
    /\ pc # "done" => result = "none"

\* The response is read in its order, while the connection lasts, and taken for
\* whole only at one of the ends that its framing has.
ResponseRead ==
    /\ pc \notin {"close", "parse", "done"} => ~ok /\ InboxInv /\ PlaceInv
    /\ EndInv

\* query returns true only for a whole answer to a whole question, whenever the
\* connection breaks and wherever recv cut the text.
WholeOrNothing ==
    result = "true" => Uncut /\ got = Pieces /\ reply.body = "answer"

\* What is lost on the way costs an apology, not the server.  An exception has to
\* do with a cut question or a reply without an answer, or with a body that was
\* taken for whole though it is not: never one with a length (wechat_api.cpp, 65).
\* SIGPIPE, in the handshake, write_data or SSL_shutdown, needs a service that
\* closes before it read the request.
FatalExplained ==
    /\ result = "thrown" =>
        \/ ~Uncut
        \/ /\ reply.status = 200
           /\ reply.body = "other" \/ (reply.framing # "length" /\ got < Pieces)
    /\ result = "killed" => conn.s.closed /\ taken < 2

IInv == TypeOK /\ DecodesTyped /\ RequestSent /\ ResponseRead
        /\ WholeOrNothing /\ FatalExplained

\* A query ends, also when the service falls silent at any point.
QueryEnds == <>(pc = "done")
===============================================================================
