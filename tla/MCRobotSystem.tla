----------------------------- MODULE MCRobotSystem -----------------------------
EXTENDS RobotSystem

CONSTANTS c1, c2        \* model values: the clients

MCClients   == {c1, c2}
\* One client sends two words of one part, or one that a recv may cut in two.
MCMaxAsk    == c1 :> 2 @@ c2 :> 1
MCWords     == {1, 2}
MCFoul      == {c2}
MCLengths   == {1}
\* Short enough to expire within a run, between two questions or within one.
MCLifetimes == {1}
===============================================================================
