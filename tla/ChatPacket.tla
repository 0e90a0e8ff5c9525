------------------------------ MODULE ChatPacket ------------------------------
(***************************************************************************)
(* The datagrams of the three chat versions, byte by byte, from the text   *)
(* the console hands to sendMsgPacket to the line the receiver prints.     *)
(* Version 1 sends the bare text, version 2 a type and the text in 200     *)
(* bytes, version 3 the text's length, a type and the text.                *)
(***************************************************************************)
EXTENDS ChatConsole, SequencesExt

\* The text handed over: a byte of its own for each place of the line, none of
\* them zero, for getline leaves a C string.
Text(s) == [k \in 1..(s.upto - s.from) |-> s.from + k]

Zeros(n) == [k \in 1..n |-> 0]
Int32(n) == <<n, 0, 0, 0>>          \* a number below 256, little endian

BodyOf2    == 196                   \* bytes of body in version 2
RecvBuffer == 1024
HeaderLen  == IF version = 2 THEN 4 ELSE 8

MsgPacket(text) ==
    CASE version = 1 -> text
      [] version = 2 -> Int32(1) \o text \o Zeros(BodyOf2 - Len(text))
      [] version = 3 -> Int32(Len(text)) \o Int32(1) \o text

AckPacket == IF version = 2 THEN Int32(2) ELSE Int32(0) \o Int32(2)

\* What recvfrom leaves in the zeroed buffer, and its return value.
Buffer(packet)  == packet \o Zeros(RecvBuffer - Len(packet))
RecvLen(packet) == Len(packet)

\* Mutant: only what the body holds is copied, and nothing ends the string.
CopiedExact(len, room) == room

\* memcpy(body, buffer, len): the length of the whole datagram, header included.
Copied(len, room) == len

\* std::string(body): up to the first zero byte; what lies behind the bytes
\* copied is arbitrary, here another character.
CString(bytes) ==
    LET ended == Append(Append(bytes, 255), 0)
    IN  SubSeq(ended, 1, SelectInSeq(ended, LAMBDA b : b = 0) - 1)

Shown(text, reply) == [kind |-> "message", text |-> text, reply |-> reply]
Noted(kind)        == [kind |-> kind, text |-> <<>>, reply |-> <<>>]

OnMessage(len, buffer) ==
    LET room == IF version = 2 THEN BodyOf2 ELSE buffer[1]
        body == SubSeq(buffer, HeaderLen + 1, HeaderLen + Copied(len, room))
        fits == IF version = 2 THEN len - HeaderLen <= room
                               ELSE len - HeaderLen >= room
        past == Copied(len, room) > room
    IN  CASE ~fits         -> {Noted("aborted")}
          [] fits /\ ~past -> {Shown(CString(body), AckPacket)}
          \* Writing past the body is undefined: the program may end here.
          [] fits /\ past  -> {Shown(CString(body), AckPacket), Noted("ended")}

\* What one received datagram may do: onHandle, or version 1's loop.
OnHandle(packet) ==
    LET buffer == Buffer(packet)
        type   == buffer[HeaderLen - 3]
    IN  CASE version = 1 -> {Shown(CString(buffer), <<>>)}
          [] version # 1 /\ type = 1 -> OnMessage(RecvLen(packet), buffer)
          [] version # 1 /\ type = 2 -> {Noted("confirmed")}
          [] OTHER -> {Noted("unknown")}

-------------------------------------------------------------------------------
(* Properties. *)

\* Whatever the console sends, the other side prints as it was sent: neither a
\* byte short nor one beyond, though version 3's body has no room for the zero
\* that ends it (onHandle, the memcpy of len bytes).  The assertions hold, and
\* the answer counts as a confirmation.
PrintedAsSent ==
    \A s \in sends : \A r \in OnHandle(MsgPacket(Text(s))) :
        \/ r.kind = "ended" /\ version # 1
        \/ /\ r.kind = "message" /\ r.text = Text(s)
           /\ version # 1 => /\ r.reply = AckPacket
                             /\ OnHandle(r.reply) = {Noted("confirmed")}
===============================================================================
