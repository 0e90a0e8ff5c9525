---------------------------- MODULE MCRobotService ----------------------------
EXTENDS RobotService

CONSTANTS c1, c2        \* model values: the clients

MCClients == {c1, c2}

\* One client talks on after a word that was cut.
MCMaxAsk == c1 :> 3 @@ c2 :> 1

\* A word one recv takes in, and one it may cut.
MCWords == {1, 2}

\* An empty answer, one that one recv of the client takes in, a longer one.
MCLengths == {0, 1, 2}
===============================================================================
