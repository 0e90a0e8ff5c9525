---------------------------- MODULE MCChatConsole ----------------------------
(* Lines for TLC: regular, oddly spaced, incomplete and overlong ones. *)
EXTENDS ChatPacket

\* Address "127.0.0.1" and port "24567" are 9 and 5 characters.
Plain(n) == [lead |-> 0, ip |-> 9, gap1 |-> 1, port |-> 5, gap2 |-> 1,
             text |-> n, trail |-> 0,
             exit |-> FALSE, portOk |-> TRUE, ipOk |-> TRUE]

ExitLine  == [Plain(0) EXCEPT !.ip = 4, !.gap1 = 0, !.port = 0, !.gap2 = 0,
                              !.exit = TRUE, !.portOk = FALSE]
TwoWords  == [Plain(0) EXCEPT !.gap2 = 0]
TwoBlank  == Plain(0)                           \* two words and a blank
Spaced    == [Plain(5) EXCEPT !.lead = 2, !.gap1 = 3, !.gap2 = 4]
BadPort   == [Plain(5) EXCEPT !.portOk = FALSE]
BadIp     == [Plain(5) EXCEPT !.ipOk = FALSE]
Shortest  == [Plain(195) EXCEPT !.ip = 1, !.port = 1]   \* 199 characters
Overlong  == [Plain(250) EXCEPT !.trail = 3]
\* Lines cut inside the port, at its end, and in the blanks before the text.
LongPort  == [Plain(5) EXCEPT !.port = 200]
FullPort  == [Plain(5) EXCEPT !.port = 189]
FarText   == [Plain(5) EXCEPT !.gap2 = 190]

MCLines   == {Plain(5), ExitLine, TwoWords, TwoBlank, Spaced, BadPort, BadIp,
              Shortest, Overlong, LongPort, FullPort, FarText}
==============================================================================
