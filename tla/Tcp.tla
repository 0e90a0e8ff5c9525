---------------------------------- MODULE Tcp ----------------------------------
(***************************************************************************)
(* A TCP connection as the blocking programs of this repository meet it:   *)
(* two byte streams, and what send and recv return once an end is gone.    *)
(* A connection is a record with a side "c" of the client and a side "s"   *)
(* of the server.                                                          *)
(***************************************************************************)
EXTENDS Integers, Sequences

\* How the other end looks from here: still there, closed with nothing left
\* unread (FIN), or closed over unread data (RST).
Ends == {"open", "fin", "rst"}

Side(Unit) == [inbox : Seq(Unit), peerEnd : Ends, closed : BOOLEAN,
               broken : BOOLEAN]
Connection(Unit) == [c : Side(Unit), s : Side(Unit)]

NewSide == [inbox |-> <<>>, peerEnd |-> "open", closed |-> FALSE,
            broken |-> FALSE]
NewConnection == [c |-> NewSide, s |-> NewSide]

Peer(me) == IF me = "c" THEN "s" ELSE "c"

\* What send may do: "killed" stands for SIGPIPE, which no program here
\* ignores.  The first data sent to a closed end are taken, and answered by an
\* RST; an RST is reported as an error once, unless it is still on its way.
SendResults(side) ==
    CASE side.peerEnd = "open" -> {"sent"}
      [] side.peerEnd = "fin"  -> IF side.broken THEN {"sent", "killed"}
                                                 ELSE {"sent"}
      [] side.peerEnd = "rst"  -> IF side.broken THEN {"killed"}
                                                 ELSE {"sent", "error", "killed"}

\* Data reach the other end, or nobody; sending nothing has no effect.
Sent(conn, me, units) ==
    CASE conn[me].peerEnd = "open" ->
            [conn EXCEPT ![Peer(me)].inbox = @ \o units]
      [] conn[me].peerEnd = "fin" /\ units # <<>> ->
            [conn EXCEPT ![me].broken = TRUE]
      [] OTHER -> conn

\* After send returned -1.
Errored(conn, me) == [conn EXCEPT ![me].broken = TRUE]

\* recv may return any non-empty prefix of what is there: TCP keeps no bounds.
Readable(side)   == 1..Len(side.inbox)
Chunk(side, n)   == SubSeq(side.inbox, 1, n)
Read(conn, me, n) ==
    [conn EXCEPT ![me].inbox = SubSeq(@, n + 1, Len(@))]

\* recv returns 0, or -1.
AtEnd(side)  == side.inbox = <<>> /\ (side.peerEnd = "fin" \/ side.broken)
Failed(side) == side.peerEnd = "rst" \/ side.broken

Closed(conn, me) ==
    [conn EXCEPT
        ![me].closed = TRUE,
        ![me].inbox = <<>>,
        ![Peer(me)].peerEnd = IF conn[me].inbox = <<>> THEN "fin" ELSE "rst"]

\* A connection nobody accepted, when the listening program ends.
Refused(conn) == [conn EXCEPT !.s.closed = TRUE, !.s.inbox = <<>>,
                              !.c.peerEnd = "rst"]
===============================================================================
