------------------------------ MODULE MCChatPort ------------------------------
(* Draws of rand() that end at telling ports. *)
EXTENDS ChatPort

CONSTANTS a, b, c       \* model values: the processes

MCProcs == {a, b, c}

MCRands ==
    {21567,     \* 24567, as in the sample session
     60327,     \* 63327, which is 24567 with its bytes swapped
     62534,     \* 65534, the last port the console accepts
     62535,     \* 65535: bound, but not accepted
     62536,     \* 65536: port 0, so the kernel picks one
     65534}     \* 68534, the highest draw: bound as 2998

MCEphemeral == {24567, 40183}
===============================================================================
