---------------------------- MODULE MCEchoService -----------------------------
EXTENDS EchoService

CONSTANTS c1, c2, c3      \* model values: the clients

MCClients == {c1, c2, c3}
===============================================================================
