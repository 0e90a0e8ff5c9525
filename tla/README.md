# A verification project for the CoffeeChat examples

The repository is a book on building an instant messenger, with small network
programs in `src/v-beta/code/chapter2`. This directory holds TLA+ models of
those programs, the TLC runs that check them on small instances, and proofs of
their main invariants for every instance.

Paths below are relative to `src/v-beta/code/chapter2/` unless they start with
`src/`. "v1", "v2", "v3" are `2-project-udp-chat-v1`, `3-project-udp-chat-v2`
and `4-project-udp-chat-v3`.

## 1. Inventory

| Component | State | Operations | Interacts with |
|---|---|---|---|
| `UdpServer` (v3 `udp_server.cpp`) | `listen_fd_`, `recv_thread_run_` (atomic), the bound socket | `listen`, `run`, `stop`, `sendMsgPacket`, `sendAckPacket`, `recvThreadProc`, `onHandle`, destructor | main thread and detached receiver thread share `listen_fd_`; peers over UDP |
| Chat console (v3 `udp_chat.cpp`) | `std::cin`'s failbit, `input[200]` | the input loop, `split`, `sigint` | the user; calls `UdpServer`; leaves through `stop()` |
| Chat v2 | as v3 | as v3, with packets of 200 bytes | as v3 |
| Chat v1 | globals `g_listen_fd`, `g_recv_thread_run_` | `init_server_socket`, `recv_thread_proc`, `clean`, `sigint`, `split`, `main` | as v3, without confirmations; the receiver thread has a copy of the descriptor, and `clean` neither tests nor resets it |
| Echo server and client (`1-linux-socket-api-simaple`) | listening socket, one connection; the client's `recvBuffer` | accept loop, echo loop; ten rounds of send and recv | TCP; clients queue in the backlog |
| Robot server and client (`7-project-tcp-robot-server`) | as above; the client's last word | `init`, `run`, `onHandle`, `getAnswer`; the client's question loop | TCP; calls `WeChatApi` synchronously |
| `WeChatApi` | `signature_`, `signature_time_`, `expires_in_` | `getAnswer`, `getSignature`, `query` | an HTTPS service with expiring signatures |
| `json.hpp`, `httplib.h` (vendored) | a parser's stack, a connection | of some 33,100 lines the server reaches the lexer and parser, `dump_escaped` and `decode`, and one `Post` of an `SSLClient` | called by `WeChatApi`, whose exceptions nobody catches |
| Protocol header, protobuf example, chapter 3 example, old book's hash example | none | none that changes state | - |
| Listings in the book's text | - | thread per connection, select, epoll | not programs of the repository |

What is hard in each, and what makes it correct:

- **UdpServer.** Two threads, a signal handler that either of them may run, and
  a static destructor share a descriptor number; the receiver thread is detached
  and dies wherever it is. UDP loses, reorders and duplicates; a confirmation
  does not say what it confirms. Correct means: the receiver works on our socket
  until `stop()` begins; nothing is multiplied by the threads; nothing is
  confirmed that was not printed, and nothing printed that was not sent; every
  shutdown ends.
- **Chat v1.** The same threads around a `clean()` that may be called too early
  or twice. Correct means: at most one text comes late, no foreign descriptor is
  closed but for a signal, and cleaning up ends the program.
- **Console and packets.** Lines may be short, oddly spaced or too long, the
  stream's error state outlives the line, and the receiver copies more bytes
  than the body has. Correct means: what is printed is what was typed, no text
  loses its beginning, `exit` is obeyed.
- **Ports.** An `int` is announced, 16 bits of it are bound, and a byte-swapped
  form is printed. Correct means: who types an announced port reaches its
  program and nobody else.
- **Echo and robot server.** One thread, one connection at a time, TCP without
  message bounds, one `recv` per question that may return part of it, SIGPIPE.
  Correct means: nothing is lost, invented or reordered; each answer belongs to
  its question as long as nothing was cut; a client that leaves neither blocks
  nor kills the server; whoever waits is served.
- **WeChatApi.** A cached signature, a clock read before a slow request, a
  service that fails or sends what is not expected. Correct means: no question
  goes out under an expired signature, and an exception has a cause.
- **One request.** Text that `recv` cut anywhere becomes JSON, goes out over a
  connection that may stall or break at any point, and a response in one of
  several framings is parsed. Correct means: a whole question gets a whole
  answer or an apology, the process ends only for a nameable cause, and no
  request lasts for ever.

`PROJECT.json` lists the hazards line by line with the properties that watch
them.

## 2. Modules

| Module | Models |
|---|---|
| `AckedDelivery` | abstract specification: a text is shown only after it was sent, confirmed only after it was shown |
| `UdpChat` | v3 processes: main thread, `listen()` and `stop()` step by step, SIGINT, destructor, receiver thread, UDP network |
| `UdpChatProps` | its properties, inductive invariant and refinement of `AckedDelivery` |
| `UdpChatProofs` | proofs |
| `UdpChatV1`, `UdpChatV1Proofs` | v1 processes: threads, `clean()`, SIGINT |
| `ChatConsole`, `ChatConsoleProofs` | the input loop, lines described by the lengths of their parts |
| `ChatPacket` | extends `ChatConsole`: the datagrams of the three versions byte by byte, and what their receivers print; `ChatConsoleProofs` is about both |
| `ChatPort`, `ChatPortProofs` | the life of a port: drawn, announced, cut to 16 bits, bound, printed, typed |
| `WeChatApi` | the signature cache |
| `Tcp`, `TcpProofs` | operators on a TCP connection: streams, FIN, RST, SIGPIPE (external); lemmas on what each does to either end |
| `EchoPromise` | abstract specification: a client hears what it said, in pieces |
| `EchoService`, `EchoServiceProofs` | echo server and clients over `Tcp`; refines `EchoPromise` |
| `RobotService` | robot server and clients over `Tcp`; `getAnswer` is one step |
| `RobotSystem` | extends `RobotService` and `WeChatApi`: the composition, which refines `RobotService` |
| `RobotServiceProofs` | proofs about `RobotService`, `WeChatApi` and `RobotSystem` |
| `Utf8` | UTF-8 as a terminal writes it, and the table by which `decode` reads it |
| `WeChatRequest` | one `query` from bytes to answer: `dump`, `httplib`'s `Post` over `Tcp`, `parse` |
| `JsonReader` | lexer, parser and string serializer of `json.hpp` as one machine that takes a byte at a time |
| `JsonGrammar` | the grammar of RFC 8259, apart from the machine, and what compares the two |
| `WeChatRequestProofs` | proofs about `WeChatRequest` and `JsonReader`, which share the lemmas about UTF-8 |
| `MC...` | instances for TLC |

Definitions whose comment begins with "Mutant:" are faulty variants of the
definition after them. They occur in no specification: they show, by being put
in its place, that a property can fail.

### How state and actions correspond to the code

**UdpChat.** `main[p]` and `ctx[p]` are the main thread's place and the caller
of the `stop()` it is in; `recv[p]` and `hand[p]` are the receiver thread's
place and the datagram it handles; `listenFd`, `running` are the members;
`open[p]` says whether the descriptor still names the socket. `listen()` is
`socket` with its assignment to `listen_fd_`, then `bind`, and `GiveUp` where one
of them failed. `stop()` is four actions (`StopFlag` with the test of
`listen_fd_`, `StopClose`, which reads it again, `StopZero`, return) since the
other thread and SIGINT may come between; `onHandle` is three (taking the
datagram, print, confirmation), and `Overrun` is the end that its `memcpy` past
the body may bring. The first SIGINT is taken by the main thread; a second one, which
is blocked there while the handler runs, by the receiver thread (`SigintAgain`),
which then goes through its own `stop()` (`RecvStopFlag`, `RecvStopClose`,
`RecvStopZero`, `RecvDie`). `SendMsg` stands for a well-formed console line (the
console has its own module); the packet is abstracted to the message (its
bytes have their own module, too). `data[m]` and `acks[m]` count datagrams in
flight, so that any order of delivery is possible. The kernel drops what comes
to a port that is not bound (`Bound`), also where `Lossy` is false: v3 announces
its port before `listen()`. Three histories serve the properties: `met` are the
texts that found their port bound, `owed[p]` the prints without a confirmation
handed to `sendto`, and `torn[p]` says that a closed descriptor stayed in
`listen_fd_` because `bind` failed or SIGINT came before the reset. `CloseWakesReceiver`
distinguishes Linux (`close` leaves `recvfrom` blocked) from macOS; the runs
take Linux, which for safety is the more general, since an error of `recvfrom`
is possible at any time there. `listen_fd_`, a plain `int`, is read and written
atomically. The threads and the `stop()` of v2 are line for line those of v3.

**UdpChatV1.** `proc[p]` is one record: places of the two threads, the two
globals, `clean()`'s parameter, which of standard input and the socket are open,
and `late`, which counts the texts printed after the flag was cleared. The
receiver thread uses the copy of the descriptor it was started with, so it does
not notice a change of `g_listen_fd`; its second SIGINT reads the global.

**ChatConsole.** A line is the lengths of its blanks and words and whether its
address and port would pass; `GetLine` is `getline` with its failbit; `Kept` is
what the 199 characters stored hold of a part, which is all that `split` sees;
`Refuse`, `Send`, `SendFails`, `Crash`, `Exit` are the ways through an
iteration. `version` is chosen at the start: v1 requires two words, v2 and v3
three.

**ChatPacket.** `MsgPacket` and `AckPacket` are the three layouts, `Buffer` is
what `recvfrom` leaves in the zeroed 1024 bytes, and `OnHandle` gives the
outcomes of handling it. In v2 and v3 `memcpy` copies the length of the whole
datagram into the body and thus past it: the program may end there, or go on and
print the body up to the first zero byte.

**ChatPort.** `Start` is `srand`/`rand`, the announcement and `listen`;
`SendAnnounced` and `Reply` are users who type an announced or a printed port;
`last` remembers the last send for the properties.

**WeChatApi.** A signature is the second it was issued. `AskApi` reads the clock
and decides; `Issue`, `SignOk`, `SignFails` are the fetch, with any delay
between; `QueryReturns` and `ApiThrow` end the call. Its specification is
`ApiSpec` and its place `step`, so that `RobotSystem` can extend it together with
`RobotService`; it is checked and proved about there.

**Tcp, EchoService, RobotService.** Each end of a connection has an inbox, a
view of its peer (`open`, `fin`, `rst`) and whether it already provoked an RST.
`recv` returns any non-empty prefix. An echoed text is `Parts` units. A word
typed at the robot's client is a number of parts, numbered in the order they are
sent: the server's `recv` of at most 1024 bytes takes some of them, from one word
or from several, and answers what it took. An answer is some units that carry
the number of the last part it answers. `ends[c]` are the parts that end a word;
`fit[c]` remembers whether no `recv` ended inside a word of `c` and every answer
to it was one unit. A client
connects when the kernel completes the connection, before the server accepts.
A robot client whose input ends repeats its last word, or, with no word yet,
sends nothing and waits (`EndInput`, `AskNothing`). An exception that
`getAnswer` lets through ends the server (`Throw`).

**RobotSystem.** While the server is at `ask`, the steps of `WeChatApi` run in
place of `GetAnswer`: `Sign` fetches a signature, `Query` returns with an answer
or without, `SignThrows` and `QueryThrows` are the exceptions of the two
requests. `until` is the last second at which the service accepts the signature
held; `valid` says whether the bytes of the last `recv` are UTF-8, which the
words of the clients in `Foul` need not be and a `recv` that cuts a word may
destroy. The service signs what it answers, and answers under a live signature
only; with `odd` it has broken this rule: a body that is not JSON or lacks a
member, or an end of the connection in the middle of a write. Other clients go
on during all of it.

**Utf8, WeChatRequest.** A word is a sequence of code points, a place in its
bytes so many characters and so many bytes of the next one: the bytes themselves
are written only where `decode` looks at them (`ByteAt`). `from` and `upto`
bound what one `recv` returned, and may lie inside a character. A terminal
writes no surrogates. `DumpByte` is one byte of `dump_escaped`; `pc` then passes
through the calls of `Post`: connect, TLS handshake (which may end in SIGPIPE,
as the writes may), two writes (head and body),
status line, headers, content in one of four framings (a declared length, chunks
with a CR and LF after each, everything up to the end, or an encoding httplib
was built without), `SSL_shutdown` and close. The service reads, writes and
closes when it likes, and may fall silent; the timeouts of httplib are actions
that may come whenever nothing is there to be read, so an answer may also be
late.

**JsonReader.** `reader` is the lexer's and the parser's place together:
`states` is the parser's stack and `want` the `get_token` it is in; `mode` is
where `scan`, `scan_number` or `scan_string` is, and `rest` the bytes that a
literal, a byte order mark, `get_codepoint` or `next_byte_in_range` still
insists on. `buffer` is `token_buffer`, a character at a time, and `part` the
character being read. Tokens have the names of `token_type`; every value that is
neither a string nor a bracket is `"other"`. `Step` takes one byte, beginning
with the empty text, so that the runs explore texts as trees of their prefixes.
`Accepts` is what `parse` would do if the body ended here; the history `early`
notes that more came behind such an end. `Dump` is `dump_escaped`. `IsJson`
(`JsonGrammar`) is the grammar, written without reference to the machine.

## 3. Runs

| Run | Instance | Shows |
|---|---|---|
| `UdpChatTwo` | 2 processes, 2 texts one way, loss | inductive invariant; equal counts prove delivery when nothing is duplicated; a print goes unanswered only after `stop()` began, and only the last one; refinement of `AckedDelivery` |
| `UdpChatDup` | 2 processes, 1 text, 1 duplication, loss only at an unbound port | inductive invariant; a text that found its port bound is not lost, nor is its confirmation, while nothing disturbs the programs; what a `close` of anything but the open socket needs |
| `UdpChatLive` | 2 processes, 1 text, loss only at an unbound port, fairness | every shutdown ends; a text that found its port bound is confirmed while both serve |
| `UdpChatV1` | 2 processes, a text to the peer and one to oneself, 1 duplication, fairness of the main thread | inductive invariant; at most one late text; what `clean()` may close; cleaning up ends |
| `ChatConsole` | 3 versions, 12 kinds of line, 2 pending | texts complete and printed as sent; only v1 crashes, and only over a stored line that ends with its port; `exit` is read unless an overlong line came first |
| `ChatPort` | 3 processes, 6 draws around the 16-bit limit, 2 kernel ports | an announced port the console accepts reaches its program; printed ports identify |
| `ChatPortPrinted` | the same | ends in a violation, see below |
| `EchoService` | 3 clients, 2 rounds, texts of 2 units, fairness | inductive invariant, with the exact echo; refinement of `EchoPromise`; each round prints what is new first and behind it the rest of the last print; SIGPIPE only over a hasty client; every client ends |
| `RobotService` | 2 clients, 3 parts in words of 1 and 2, and 1; answers of 0, 1, 2 units, fairness | inductive invariant: answers keep the order of what was sent; while no word is cut and answers fit one `recv`, one question has one answer and nobody kills the server; whom an answer is due gets it; a client that left is released |
| `RobotSystem` | 2 clients, 2 parts and 1, one client foul, lifetime 1, 3 seconds, fairness | the server and `WeChatApi` implement `RobotService` with its fairness; no call is left in the middle; no expired signature without a failed fetch; an exception has one of the named causes as long as the service keeps its rule |
| `WeChatRequest` | 22 words, 13 kinds of reply, bodies of 2 pieces, fairness of the caller | inductive invariant: `decode` reads what the terminal wrote, the response is read in its order; `query` is true only for a whole answer to a whole question; what may end the process; every query ends |
| `JsonReader` | 28 families of texts, each exhaustive | `parse` accepts exactly the grammar, and every string it lets through is dumped and read back as it was (`AcceptsJson`); its inductive invariant: no opened body is accepted when cut, and every string is UTF-8 that `decode` takes (`JsonInv`) |

`ChatPortPrinted` states what the book's sample session shows
(`src/v-beta/chapter2/2-project-p2p.md:479-480`: the port printed in front of a
text is typed to answer it) and ends in a violation: `sin_port` is printed in
network byte order.

More places where the code does less than its documents and comments say are not
runs of their own: the exceptions that the properties make name them.

- A confirmation carries no identity (v3 `udp_server.cpp:147`), so
  `CountProvesDelivery` holds only where nothing is duplicated: after a
  duplicate two confirmations may stand for one of two texts, although
  `src/v-beta/chapter2/3-project-p2p-2.md:39` has a confirmation tell that the
  peer received the text.
- `SilentPrint` and `OneUnanswered`: the last text printed may never be
  confirmed, once `stop()` began;
  `3-project-p2p-2.md:161` says every text must be confirmed.
- `StopEnds` holds on Linux although `close` does not end the blocked `recvfrom`
  as the comment at v3 `udp_server.cpp:66` says; the process ends since `main`
  returns, and may take one more datagram before. `LatePrint` and `CleanEnds`
  say the same of v1 and its comment at `udp_chat.cpp:89`.
- `ExitIsRead`: after a line of 200 characters the stream stays failed, and
  `exit` is never read again.
- `NothingLost` and `EventuallyConfirmed` are about texts that found their port
  bound: v3 announces the port (`udp_chat.cpp:60`) before `listen()` (line 63).
- `CrashExplained`: v1 accepts two words where the comment at its
  `udp_chat.cpp:162` asks for three, and `substr` throws, over a line without a
  text and over one whose address and port fill the 199 characters.
- `AnnouncedReaches` is about ports the console accepts: a draw above 65535 is
  announced uncut and bound cut.
- `PrintsOldestFirst`: an echo in two parts is printed over two rounds, the first
  of which ends with the tail of an older echo; when the server has gone, the
  last print is printed again.
- `OneQuestionOneAnswer`: the rest of an answer longer than one `recv`, or the
  answer to the rest of a word that was cut, is read as the answer to the next
  question.
- `Answered`: after an empty answer, or when the input ends before the first
  word, client and server wait for each other.
- `SignedInTime` excepts a failed fetch: its time is recorded like that of a
  successful one (`wechat_api.cpp:81`), and until a lifetime has passed the
  questions go out under the old signature, where `wechat_api.h:19` says that
  expiry is handled.
- `KilledByLength` and `ThrownExplained`: the loop that never exits
  (`server.cpp:81`) ends by SIGPIPE, or by an exception of a call.
- `FatalExplained` excepts bodies without a declared length: a chunked one that
  ends behind the CR of a chunk, too, is taken for whole.

### Bounds

- Chat: `Msgs` and `MaxDup`. Two texts are needed for a lost and a confirmed one
  to differ; the one duplication (`UdpChatDup`) may strike a text or a confirmation; each
  process shuts down once, as in the code. In v1 the text to oneself makes one
  receiver handle two.
- Console: lines around each limit (199 and 200 characters, missing words,
  additional blanks; cut inside the text, inside the port, behind the port, in
  the blanks before the text); two pending lines let each kind follow each other.
- Ports: draws that end at an ordinary port, its byte-swapped form, 65534,
  65535, 65536 and the highest.
- Echo and robot: three clients make a queue of two behind the one served; two
  units per text let every cut happen; of the robot's clients one may send a word
  that a `recv` cuts and another one behind it, or three whole ones, of which one
  waits behind an answer read in parts.
- System: with a lifetime of one second a signature expires within a question as
  well as between two, and three seconds allow both and a failed fetch; one client
  sends what is UTF-8, the other what is not.
- Request: the first and the last character of every class of lead byte, words
  of two and three characters, and every `recv` window over them; two pieces
  tell a body that is cut from one that is missing.
- JSON: every family starts from a text and appends up to six bytes of an
  alphabet for one part of the grammar: brackets and members, numbers, literals,
  escapes and surrogates, and behind each kind of lead byte all bytes that bound
  a range of either validator.

### Fairness

`UdpChat`: weak fairness of main's own steps (they never block: `listen`, `run`,
`stop`) and of the receiver thread: the scheduler runs both, and the kernel
hands a waiting datagram to a blocked `recvfrom`. On macOS the error return of
`recvfrom` after `close` is fair too. Users, signals, errors, losses are not.
`UdpChatV1`: only the main thread's set-up and `clean()`; its receiver may be
blocked for ever.
`ChatConsole`: an iteration that can run does. `EchoService`, `RobotService`,
`RobotSystem`: weak fairness of the server and of each client's own steps; a
request to the service ends, since httplib has timeouts, which `QueryEnds`
checks. Users need not type or leave, and time need not pass.
`WeChatRequest`: only the caller's thread, its timeouts included; the service
owes nothing.

`CHECK_DEADLOCK FALSE` is set in `ChatPort*` (all programs may have left)
and `JsonReader` (a text has a last byte). The others have an explicit step for the
states in which the system may rest, so a deadlock anywhere else would be
reported.

## 4. Proofs

All are checked by TLAPS for every value of the constants, under the assumptions
on them that each module names. Every safety invariant that the runs check is
proved, but `AcceptsJson`; TLC checked each inductive invariant first.

- **UdpChatProofs.** `IInv` (theorem `Inductive`) is the conjunction of
  `TypeOK`; `HandInv` (the datagram in hand belongs to this process);
  `SocketInv` (how main's place, the flag and the descriptor go together:
  without it `SocketWhileRunning` is not inductive, since nothing else says that
  main is past `listen` when the receiver runs, or that the flag is down before
  `close`); `SocketWhileRunning`; `CloseInv` (a closed descriptor stays in `listen_fd_` only
  until the thread that closed it resets it, or for good, `torn`; it is reset
  under a thread about to close it only by the other thread's `stop()`);
  `CausalInv` (nothing before its cause); `AnswerInv` and `OneUnanswered` (a print
  without a confirmation is in the receiver's hands, or the receiver takes no
  other); `Conservation` (nothing is multiplied); `MetInv` (who has printed, or
  was found bound, is past `bind`) and `NothingLost`, the other half of
  `Conservation`; and `FiniteSent`, which the sums over texts need.
  From these follow `StrayClosesExplained`, which covers both threads, the action
  property `PrintsAreAnswered`, the refinement `ChatKeepsPromise` (`ShowMsg` is
  `Display`, `ShowAck` is `Confirm`, `SendMsg` is `Send`, and all else
  stutters); and `CountProves`: by `Conservation` no text has two confirmations, so as many as
  texts were sent leave none without, a count over a finite set of any size.
- **UdpChatV1Proofs.** `IInv` is `TypeOK`, `SentInv` (what is printed, in hand
  or on its way was sent) and, for every process, `Good`: `HandInv`; `LateInv`,
  which counts a receiver past its check of the flag as the one late text it may
  still print; `CleanInv`, `FdInv` and `SocketInv` on which thread may have
  cleared the flag or closed what, and when. An action changes one record, so a
  lemma per action (`...Fine`) shows that the new record is good, and
  `Inductive` puts them together. `PrintsOneLate` and `ClosesItsSocket` follow.
- **ChatConsoleProofs.** `SendsInv` says where each sent range came from;
  arithmetic on the lengths of a well-formed line and of what is stored of its
  parts (`KeptParts`, `OffsetPastEnd`) then yields `TextIsCovered`,
  `CrashesAreExplained` and `TextFits`. The last, that a text fits the packet of
  v2, is proved and not run: `PrintsAsSent` needs it. That theorem goes byte by
  byte: for each version it says what the packet holds at each place, what of it
  the receive buffer shows behind the fixed offsets, and where the first zero
  byte ends the line that is printed; the answer's bytes are read the same way.
- **ChatPortProofs.** Cutting changes no port, and byte-swapping is injective on
  ports. `IInv` (no two programs on a port; an announced port that fits is
  the bound one; a printed port is the swapped form of the bound one; only
  started programs were printed) then yields `AnnouncedPortReaches` and
  `PrintedPortIdentifies`.
- **TcpProofs.** What `Sent`, `Read`, `Closed` and `Errored` leave of either end
  and do to it, so that the proofs over `Tcp` never look into a connection.
- **EchoServiceProofs.** That a client gets back its own bytes (`Exact`) is not
  inductive. It rests on who may have closed which connection (`OpenInv`: while
  the server listens, only those of clients that had closed theirs; `PlaceInv`),
  on a backlog without repetitions (`QueueInv`), on where the server is
  (`ServerInv`), and for clients that left on `DebtInv`: what was received, is in
  flight, in the server's hand or unread is no more than was said. `KilledInv`
  says that SIGPIPE leaves a debt, hence `HasteKills`. One lemma per action shows
  that it keeps `IInv`; `ExactEcho`, the action property `OldestFirst` (since what
  was received is a prefix of what was said, a chunk is its next part) and the
  refinement `EchoKept` of `EchoPromise` follow.
- **RobotServiceProofs.** `IInv` is like that of the echo, with three additions.
  `OrderInv` orders the parts that wait and the answers that were given (theorem
  `Order`). `WordInv` says that what was sent ends with a word. `TurnInv` says
  that, while no word of a client was cut and every answer to it was one unit,
  word and answer alternate: one of them is on its way exactly while the client
  waits, and all that waits are parts of one word. From it come
  `AnswerToQuestion`, and `LengthKills`: such a client, gone, has left one word at
  most, whose answer the server sends once.
  For `WeChatApi`, `StampInv` orders the recorded time, the clock read, the
  issue of a signature in the reply, and the present; it carries
  `QuestionsAreSigned` through a fetch of any duration.
  For `RobotSystem`, `SystemIsService` maps each step of the composition to one
  of `RobotService` or a stutter, which makes every theorem about
  `RobotService` one about the composition; `SystemCallsApi` does the same for
  `WeChatApi`. `SystemInvariant` pairs the places of the two and says where bytes
  that are not UTF-8 come from (`ValidInv`), and `ThrowsHaveCauses` follows: a
  signature that was fetched outlasts the second in which the clock was read.
- **WeChatRequestProofs.** `IInv` ties three things together. `DecodesTyped`:
  the table of json.hpp, at every place in a text of any characters, is in
  the state that the rest of the character wants, and has gathered the bits read
  so far. It rests on a proof, for every character and each of its bytes, that
  the table (`Type`, `Wanted`, `After`) accepts the encoding and rejects a
  following byte where a character should begin: so text cut at either end never
  passes. `RequestSent`: the service cannot have read more of the request than
  `query` wrote, so one that closed over unread data did not read it all, and a
  connection is broken only then. `ResponseRead`: what waits in the socket is
  the rest of the response behind the place that `pc` and `got` name; without
  it nothing says that the units read are those of the framing in force.
  `WholeAnswers` and `FatesExplained` follow for bodies of any length.

  Of `JsonReader` the same module proves, for every text, what `query` relies on
  when it calls `parse` and, in the next question, `dump`. `CutsAreRefused`: a
  body that opens with a bracket, a brace or a quote and is cut is refused.
  `StringsAreDumped`: every string that `parse` lets through is UTF-8 by the
  encoding's own definition, and the table of `decode`, which `dump` consults,
  reads it from end to end: the two validators of `json.hpp` agree on every
  character, not only on those of the run. Neither is inductive. `JsonInv` adds
  what lexer and parser have to agree on: `HexInv` (the digits read fit the
  digits still wanted: without it nothing bounds the code point, as the
  assertion of `json.hpp:6069` does), `PartInv` (the ranges still wanted are
  those that the lead byte chose, and the bytes read were in theirs), `LexerInv`
  (a high surrogate is kept exactly for the low one), `StackInv` (the stack is
  not empty where a comma or a closing bracket may come, which `json.hpp:10496`
  asserts), `OpenInv` (an opened body is inside its brackets or its quotes, or
  at its end) and `Dead` (what came behind the end cannot be made up for). Every
  helper is shown to take a good reader to a good one (`Good`: the invariant,
  `OpenInv` and `Dead` are kept, and acceptance comes from a complete value
  only); `StepGood` joins them, and `ReaderInvariant` is the run. The lemmas on
  UTF-8 are the two directions of one fact: the bytes of every character mean
  that character and pass the table (`CharacterMeant`, `CharacterDecoded`), and
  bytes that pass the ranges are those of a character (`PartUtf8`).

Only model-checked:

- Liveness, which is out of the prover's reach: `StopEnds`,
  `EventuallyConfirmed`, `CleanEnds`, `ExitIsRead`, `EveryClientEnds`,
  `Answered`, `Released`, `QueryEnds`. Of `ImplementsRobot` the safety part is
  proved (`SystemIsService`), its fairness is checked.
- `AcceptsJson`: the grammar is recursive, so that the machine accepts just its
  texts, and that a dumped string reads back, are inductions over texts.

## 5. Not modelled

- Most of the vendored headers. They are some 33,100 of the repository's 34,900
  lines of implementation. What the robot server reaches of them is modelled in
  `Utf8`, `JsonReader` and `WeChatRequest`; it never runs httplib's server,
  keep-alive, redirects, proxies, multipart and compression, nor the binary
  formats, iterators, pointers, patches and number formatting of `json.hpp`.
  That is why the models stand for a small share of all lines, but for most of
  the code of the repository's own programs.
- Of the parser: the tree it builds and the values of numbers. A number too
  large for a double, which `parse` refuses, does not occur.
- Memory behind a buffer. The excess of `memcpy` is modelled by its outcomes,
  not by what it overwrites; a `recv` of exactly 1024 bytes prints a buffer
  without its zero (`server.cpp:106`), while the text handled is made with its
  length.
- `simple_ai`, `replace_all`, `s2ws` and `ws2s` of the robot server: `onHandle`
  always passes `UseWeChat`, so they are never called.
- Failures of `socket`, `bind` and `listen` in the TCP servers, after which main
  returns at once; full socket buffers: a `send` that would wait until the other
  side has read is one step.
- Programs without state (the protocol header, the protobuf, thread and hash
  examples) and the book's listings.

## 6. Plan

Done, in this order, the most important behaviour first: `UdpChat` with its
abstract specification and proofs, `ChatConsole`, `ChatPort`, `WeChatApi`,
`EchoService`, `RobotService`; then `UdpChatV1` with its proofs, the second
SIGINT in `UdpChat`, `ChatPacket`, `EchoPromise`, `RobotSystem`,
`WeChatRequest` with `Utf8`, and `JsonReader`; then the proofs about the TCP
services, their composition and one request, about the bytes of a packet, about
what the chat loses and counts, and about the machine of `JsonReader`.

Next, modelling: `ChatSystem`, console and threads composed, with a failed stream
beside a live receiver and the end of the input during `stop()`.
