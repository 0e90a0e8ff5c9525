---------------------------- MODULE AckedDelivery ----------------------------
(***************************************************************************)
(* What the chat promises its users about one message: the receiver sees   *)
(* it only after the sender typed it, and the sender reads "the peer       *)
(* confirmed" for it only after the receiver saw it.  Nothing is promised  *)
(* about the message ever arriving: the transport is UDP.                  *)
(***************************************************************************)

CONSTANT Msgs           \* the messages the users may type

VARIABLES sent,         \* messages handed to sendto
          displayed,    \* messages printed by their receiver
          confirmed     \* messages for which the sender printed a confirmation

vars == <<sent, displayed, confirmed>>

Init ==
    /\ sent = {}
    /\ displayed = {}
    /\ confirmed = {}

Send(m) ==
    /\ m \notin sent
    /\ sent' = sent \cup {m}
    /\ UNCHANGED <<displayed, confirmed>>

Display(m) ==
    /\ m \in sent
    /\ displayed' = displayed \cup {m}
    /\ UNCHANGED <<sent, confirmed>>

Confirm(m) ==
    /\ m \in displayed
    /\ confirmed' = confirmed \cup {m}
    /\ UNCHANGED <<sent, displayed>>

Next == \E m \in Msgs : Send(m) \/ Display(m) \/ Confirm(m)

Spec == Init /\ [][Next]_vars
==============================================================================
