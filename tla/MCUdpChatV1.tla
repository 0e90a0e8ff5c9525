----------------------------- MODULE MCUdpChatV1 ------------------------------
(* Two processes of version 1; one writes to the other and to itself. *)
EXTENDS UdpChatV1

CONSTANTS a, b, none    \* model values: two processes, and no message

MCProcs == {a, b}

MCMsgs  == {[from |-> a, to |-> b, n |-> 1], [from |-> a, to |-> a, n |-> 2]}
===============================================================================
