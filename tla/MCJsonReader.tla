----------------------------- MODULE MCJsonReader ------------------------------
(* Texts for TLC, by what they are to try: each scope is exhaustive. *)
EXTENDS JsonGrammar

Scope(start, bytes, more) == [start |-> start, bytes |-> bytes, more |-> more]

\* The bytes at both ends of every range that scan_string and decode tell apart.
Edges == {34, 127, 128, 143, 144, 159, 160, 191, 192}
Leads == {128, 193, 194, 223, 224, 225, 236, 237, 238, 239, 240, 241, 243, 244, 245}

MCScopes ==
    \* brackets, members and elements, and a second member
    {Scope(<<>>, {123, 125, 91, 93, 58, 44, 34, 48}, 6),
     Scope(<<123, 34, 48, 34, 58>>, {123, 125, 93, 58, 44, 34, 48}, 5),
     Scope(<<123, 34, 34, 58, 91>>, {125, 91, 93, 44, 48}, 5),
     Scope(<<123, 34, 34, 58, 48, 44, 34, 34>>, {123, 125, 58, 44, 34, 48}, 4),
     \* numbers, blanks, the end of the input, literals, the byte order mark
     Scope(<<>>, {45, 48, 49, 46, 101, 43}, 6),
     Scope(<<91>>, {0, 32, 48, 93, 34}, 5),
     Scope(<<>>, {110, 117, 108, 116, 114, 101}, 5),
     Scope(<<102, 97>>, {97, 108, 115, 101, 32}, 4),
     Scope(<<239>>, {187, 191, 239, 48}, 4),
     \* escapes and surrogates
     Scope(<<34, 92>>, {34, 92, 117, 47, 98, 102, 110, 31, 48}, 3),
     Scope(<<34, 92, 117>>, {48, 55, 68, 56, 67, 97, 71, 34}, 5),
     Scope(<<34, 92, 117, 68, 56, 51, 68>>, {92, 117, 34, 68, 48}, 4),
     Scope(<<34, 92, 117, 68, 56, 51, 68, 92, 117>>, {68, 66, 67, 69, 70, 48, 34}, 5)}
    \* characters of two to four bytes
    \cup {Scope(<<34, lead>>, Edges, 4) : lead \in Leads}
===============================================================================
