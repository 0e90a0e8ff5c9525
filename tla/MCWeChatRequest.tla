---------------------------- MODULE MCWeChatRequest ----------------------------
(* Words and replies for TLC. *)
EXTENDS WeChatRequest

\* The first and last characters of each class of lead bytes, in decimal, and
\* two of the words' own: the question particle and the full-width mark.
MCCharacters ==
    {33, 127, 128, 2047, 2048, 4095, 4096, 53247, 53248, 55295, 57344, 65535,
     65536, 262143, 262144, 1048575, 1048576, 1114111, 21527, 65311}

MCWords == {<<c>> : c \in MCCharacters} \cup {<<20320, 22909>>, <<21527, 63, 128512>>}

Reply(status, framing, body) ==
    [continued |-> FALSE, status |-> status, framing |-> framing, body |-> body]

MCReplies ==
    {Reply(200, f, b) : f \in {"length", "chunked", "close"},
                        b \in {"answer", "null", "other"}}
    \cup {Reply(204, "length", "null"), Reply(500, "length", "other")}
    \cup {Reply(200, "encoded", "answer")}
    \cup {[Reply(200, "length", "answer") EXCEPT !.continued = TRUE]}
===============================================================================
