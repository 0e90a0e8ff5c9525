------------------------------ MODULE MCUdpChat ------------------------------
(* Instances of UdpChat for TLC: two chat processes. *)
EXTENDS UdpChatProps

CONSTANTS a, b, none    \* model values: two processes, and no message

MCProcs == {a, b}

Text(p, q, i) == [from |-> p, to |-> q, n |-> i]

\* One text, and its confirmation the other way.
MCOne == {Text(a, b, 1)}
\* Two texts the same way: losing one and duplicating the other matters.
MCTwoOneWay  == {Text(a, b, 1), Text(a, b, 2)}
==============================================================================
