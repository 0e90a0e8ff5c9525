----------------------------- MODULE EchoPromise ------------------------------
(***************************************************************************)
(* What an echo service promises, without connections, buffers or a        *)
(* server: each client says texts and hears what it said, in pieces of any *)
(* size, and after it has gone neither of the two.                         *)
(***************************************************************************)
EXTENDS Naturals, Sequences

CONSTANTS Clients, Texts

VARIABLES said, got, gone

vars == <<said, got, gone>>

Init ==
    /\ said = [c \in Clients |-> <<>>]
    /\ got = [c \in Clients |-> <<>>]
    /\ gone = [c \in Clients |-> FALSE]

Say(c) ==
    /\ ~gone[c]
    /\ \E text \in Texts : said' = [said EXCEPT ![c] = @ \o text]
    /\ UNCHANGED <<got, gone>>

\* The client hears more of what it said, up to the n-th unit of it.
Hear(c) ==
    /\ ~gone[c]
    /\ \E n \in Len(got[c]) + 1..Len(said[c]) :
          got' = [got EXCEPT ![c] = SubSeq(said[c], 1, n)]
    /\ UNCHANGED <<said, gone>>

Go(c) ==
    /\ ~gone[c]
    /\ gone' = [gone EXCEPT ![c] = TRUE]
    /\ UNCHANGED <<said, got>>

Next == \E c \in Clients : Say(c) \/ Hear(c) \/ Go(c)

Spec == Init /\ [][Next]_vars
===============================================================================
