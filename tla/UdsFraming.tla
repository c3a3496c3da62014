----------------------------- MODULE UdsFraming -----------------------------
(***************************************************************************)
(* The message framing of UnixDomainSocket: how Send cuts a message into   *)
(* datagrams (a protocol header, the application header, body fragments)   *)
(* and how Receive puts datagrams together again.  No state is kept here;  *)
(* UdsChannel and UdsRpc are the machines built on these operators.        *)
(*                                                                         *)
(* A message is a record with at least the fields                          *)
(*    id    which call of Send it is,                                      *)
(*    hlen  length of the application header,                              *)
(*    size  length of the body.                                            *)
(* Bytes are not modelled one by one in flight: a datagram names the part  *)
(* of the message it carries, and a received byte is named by the part,    *)
(* message and offset it came from.  Application data never looks like a   *)
(* protocol header (8 bytes that start with 0xDEADC0DE), so "len is 8 and  *)
(* the hexspeak matches" is "the datagram is a protocol header".           *)
(***************************************************************************)
EXTENDS Integers

CONSTANTS PhLen,     \* sizeof(ProtocolHeader), 8 in the code
          HdrMax,    \* longest application header, 512 in the code
          FragSize   \* TRANSMIT_SIZE and RECEIVE_SIZE, 1024 in the code

ASSUME FramingAssumption ==
    /\ PhLen \in Nat \ {0}
    /\ HdrMax \in Nat /\ PhLen <= HdrMax
    /\ FragSize \in Nat \ {0}
    /\ HdrMax <= FragSize

Smaller(a, b) == IF a < b THEN a ELSE b

-----------------------------------------------------------------------------
(* Sending. *)

PhOf(m)  == [part |-> "ph",  msg |-> m, off |-> 0, len |-> PhLen]
HdrOf(m) == [part |-> "hdr", msg |-> m, off |-> 0, len |-> m.hlen]
\* Mutant: the last fragment is not cut to what is left of the body.
FragOfUncut(m, o) == [part |-> "frag", msg |-> m, off |-> o, len |-> FragSize]
FragOf(m, o) ==
    [part |-> "frag", msg |-> m, off |-> o, len |-> Smaller(FragSize, m.size - o)]

\* "No datagram": the whole message has been handed to the kernel.
End == [part |-> "end"]

\* The bytes of the body that have been sent once d has been.
BodySent(d) == IF d.part = "frag" THEN d.off + d.len ELSE 0

\* What Send transmits after datagram d, or End.
Successor(d) ==
    IF d.part = "ph" THEN HdrOf(d.msg)
    ELSE IF BodySent(d) = d.msg.size THEN End
    ELSE FragOf(d.msg, BodySent(d))

\* A limit of 0 means no limit.
WithinLimit(size, limit) == limit = 0 \/ size <= limit

-----------------------------------------------------------------------------
(* Receiving.  rx is the progress of one call of Receive: the next read is *)
(* of the protocol header, of the application header or of the body; ph is *)
(* the message whose protocol header was accepted, hdr the datagram taken  *)
(* for its application header, body the bytes read so far.                 *)

RxIdle == [at |-> "ph"]

Byte(d, k) == <<d.part, d.msg.id, d.off + k>>

\* What one read of the body copies: no more than the body still lacks; a
\* datagram is cut there and the rest of it is lost.
BodyRead(rx, d) == Smaller(d.len, Smaller(FragSize, rx.ph.size - rx.got))

Extend(body, got, d, n) ==
    [i \in 0 .. got + n - 1 |-> IF i < got THEN body[i] ELSE Byte(d, i - got)]

AcceptsPh(d, limit) == d.part = "ph" /\ WithinLimit(d.msg.size, limit)

\* The state of Receive after it has read datagram d.
RxNext(rx, d, limit) ==
    IF rx.at = "ph" THEN
        IF AcceptsPh(d, limit) THEN [at |-> "hdr", ph |-> d.msg] ELSE RxIdle
    ELSE IF rx.at = "hdr" THEN
        IF d.len <= HdrMax
        THEN [at |-> "body", ph |-> rx.ph, hdr |-> d, got |-> 0,
              body |-> [i \in 0 .. -1 |-> Byte(d, i)]]
        ELSE RxIdle
    ELSE
        [at |-> "body", ph |-> rx.ph, hdr |-> rx.hdr,
         got  |-> rx.got + BodyRead(rx, d),
         body |-> Extend(rx.body, rx.got, d, BodyRead(rx, d))]

\* Receive returns success: the body loop has nothing left to read.
Complete(rx) == rx.at = "body" /\ rx.got = rx.ph.size

\* Receive returns an error on reading d: it was not the protocol header of
\* a message within the limit, or was too long for an application header.
RxFails(rx, d, limit) == RxNext(rx, d, limit) = RxIdle

\* What a successful Receive hands to its caller.
Received(rx) == [msg |-> rx.ph, hdr |-> rx.hdr, body |-> rx.body]

\* The first n bytes of the body of message m.
BodyPrefix(m, n) == [i \in 0 .. n - 1 |-> <<"frag", m.id, i>>]

\* The header and the body are those of one Send, whole.
IsWhole(r) ==
    /\ r.hdr = HdrOf(r.msg)
    /\ r.body = BodyPrefix(r.msg, r.msg.size)
=============================================================================
