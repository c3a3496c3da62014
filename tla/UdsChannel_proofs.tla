------------------------- MODULE UdsChannel_proofs -------------------------
(***************************************************************************)
(* Proofs about UdsChannel, for every set of threads, queue capacity,      *)
(* fragment size, header and body lengths, limits and number of messages:  *)
(* messages are received whole, in order, once their Send has succeeded;   *)
(* none disappears; and the channel moves them as MsgChannel does.         *)
(*                                                                         *)
(* Proofs about UdsEndpoint, the life of the same sockets, for any number  *)
(* of objects on either side and any bounds: its types; that a socket is   *)
(* leaked only after a bind that failed; and, as long as the objects of a  *)
(* side follow one another, that open ends are connected and that opening  *)
(* succeeds.                                                               *)
(***************************************************************************)
EXTENDS UdsChannel, UdsEndpoint, SequenceTheorems, TLAPS

-----------------------------------------------------------------------------
(* The framing operators. *)

LEMMA SmallerType == ASSUME NEW a \in Nat, NEW b \in Nat
                     PROVE  /\ Smaller(a, b) \in Nat
                            /\ Smaller(a, b) <= a /\ Smaller(a, b) <= b
                            /\ a # 0 /\ b # 0 => Smaller(a, b) # 0
  BY DEF Smaller

LEMMA MessageType == ASSUME NEW m \in Message
                     PROVE  /\ m = [id |-> m.id, hlen |-> m.hlen, size |-> m.size]
                            /\ m.id \in 1 .. MaxMsgs
                            /\ m.hlen \in Nat /\ m.hlen <= HdrMax
                            /\ m.size \in Nat
  BY ChannelAssumption DEF Message

\* Every datagram is a part of a message.
LEMMA DatagramCases ==
    ASSUME NEW d \in Datagram
    PROVE  \E m \in Message : \/ d = PhOf(m)
                              \/ d = HdrOf(m)
                              \/ \E o \in 0 .. m.size - 1 : d = FragOf(m, o)
  BY DEF Datagram, Frags

LEMMA PartIsDatagram ==
    ASSUME NEW m \in Message
    PROVE  /\ PhOf(m) \in Datagram
           /\ HdrOf(m) \in Datagram
           /\ \A o \in 0 .. m.size - 1 : FragOf(m, o) \in Datagram
  BY DEF Datagram, Frags

\* A fragment is not empty, and stays inside the body.
LEMMA FragLength ==
    ASSUME NEW m \in Message, NEW o \in 0 .. m.size - 1
    PROVE  /\ FragOf(m, o).len \in Nat \ {0}
           /\ FragOf(m, o).len <= FragSize
           /\ o + FragOf(m, o).len \in 0 .. m.size
  BY MessageType, FramingAssumption, SmallerType DEF FragOf, Smaller

LEMMA DatagramType ==
    ASSUME NEW d \in Datagram
    PROVE  /\ d.msg \in Message /\ d.len \in Nat /\ d.off \in Nat
           /\ d # End /\ d.part # "end"
<1>1. PICK m \in Message : \/ d = PhOf(m)
                           \/ d = HdrOf(m)
                           \/ \E o \in 0 .. m.size - 1 : d = FragOf(m, o)
  BY DatagramCases
<1>2. CASE d = PhOf(m)
  BY <1>2, FramingAssumption DEF PhOf, End
<1>3. CASE d = HdrOf(m)
  BY <1>3, MessageType DEF HdrOf, End
<1>4. CASE \E o \in 0 .. m.size - 1 : d = FragOf(m, o)
  <2>1. PICK o \in 0 .. m.size - 1 : d = FragOf(m, o)
    BY <1>4
  <2>2. d.msg = m /\ d.off = o /\ d.part = "frag"
    BY <2>1 DEF FragOf
  <2>3. d.len \in Nat
    BY <2>1, FragLength
  <2> QED
    BY <2>2, <2>3, MessageType DEF End
<1> QED
  BY <1>1, <1>2, <1>3, <1>4

\* What follows a datagram is of the same message, or nothing.
LEMMA SuccessorType ==
    ASSUME NEW d \in Datagram
    PROVE  /\ Successor(d) \in Datagram \cup {End}
           /\ Successor(d) # End => /\ Successor(d).msg = d.msg
                                    /\ Successor(d).part # "ph"
<1>1. PICK m \in Message : \/ d = PhOf(m)
                           \/ d = HdrOf(m)
                           \/ \E o \in 0 .. m.size - 1 : d = FragOf(m, o)
  BY DatagramCases
<1>2. CASE d = PhOf(m)
  <2>1. Successor(d) = HdrOf(m)
    BY <1>2 DEF Successor, PhOf
  <2> QED
    <3>1. HdrOf(m) \in Datagram
      BY PartIsDatagram
    <3>2. HdrOf(m).msg = d.msg /\ HdrOf(m).part # "ph"
      BY <1>2 DEF HdrOf, PhOf
    <3> QED
      BY <2>1, <3>1, <3>2
<1>3. CASE d = HdrOf(m)
  <2>1. Successor(d) = IF m.size = 0 THEN End ELSE FragOf(m, 0)
    BY <1>3 DEF Successor, HdrOf, BodySent
  <2>2. m.size # 0 => FragOf(m, 0) \in Datagram
    BY PartIsDatagram, MessageType
  <2> QED
    BY <1>3, <2>1, <2>2 DEF HdrOf, FragOf
<1>4. CASE \E o \in 0 .. m.size - 1 : d = FragOf(m, o)
  <2>1. PICK o \in 0 .. m.size - 1 : d = FragOf(m, o)
    BY <1>4
  <2> DEFINE n == o + d.len
  <2>2. n \in 0 .. m.size
    BY <2>1, FragLength
  <2>3. Successor(d) = IF n = m.size THEN End ELSE FragOf(m, n)
    BY <2>1 DEF Successor, FragOf, BodySent
  <2>4. n # m.size => FragOf(m, n) \in Datagram
    BY <2>2, PartIsDatagram, MessageType
  <2> QED
    BY <2>1, <2>3, <2>4 DEF FragOf
<1> QED
  BY <1>1, <1>2, <1>3, <1>4

\* Receive goes from one of its states to another, whatever it reads.
LEMMA RxNextType ==
    ASSUME NEW r, RxOK(r), ~Complete(r), NEW d \in Datagram, NEW limit
    PROVE  RxOK(RxNext(r, d, limit))
<1>1. d.msg \in Message /\ d.len \in Nat
  BY DatagramType
<1>2. CASE r = RxIdle
  BY <1>1, <1>2 DEF RxOK, RxNext, RxIdle
<1>3. CASE \E m \in Message : r = [at |-> "hdr", ph |-> m]
  <2>1. PICK m \in Message : r = [at |-> "hdr", ph |-> m]
    BY <1>3
  <2> DEFINE next == [at |-> "body", ph |-> m, hdr |-> d, got |-> 0,
                      body |-> [i \in 0 .. -1 |-> Byte(d, i)]]
  <2>2. RxNext(r, d, limit) = next \/ RxNext(r, d, limit) = RxIdle
    BY <2>1 DEF RxNext
  <2>3. next = [at |-> "body", ph |-> m, hdr |-> d, got |-> 0, body |-> next.body]
    OBVIOUS
  <2>4. 0 \in 0 .. m.size
    BY MessageType
  <2> QED
    BY <2>2, <2>3, <2>4 DEF RxOK
<1>4. CASE \E m \in Message, h \in Datagram : \E n \in 0 .. m.size :
             r = [at |-> "body", ph |-> m, hdr |-> h, got |-> n, body |-> r.body]
  <2>1. PICK m \in Message, h \in Datagram : \E n \in 0 .. m.size :
             r = [at |-> "body", ph |-> m, hdr |-> h, got |-> n, body |-> r.body]
    BY <1>4
  <2>2. PICK n \in 0 .. m.size :
             r = [at |-> "body", ph |-> m, hdr |-> h, got |-> n, body |-> r.body]
    BY <2>1
  <2> DEFINE k == BodyRead(r, d)
             next == RxNext(r, d, limit)
  <2>3. r.at = "body" /\ r.got = n /\ r.ph = m /\ r.hdr = h
    BY <2>2
  <2>4. m.size - n \in Nat
    BY MessageType
  <2>5. k \in Nat /\ n + k <= m.size
    <3>1. k = Smaller(d.len, Smaller(FragSize, m.size - n))
      BY <2>3 DEF BodyRead
    <3>2. k \in Nat /\ k <= m.size - n
      BY <1>1, <2>4, <3>1, FramingAssumption DEF Smaller
    <3> QED
      BY <2>4, <3>2, MessageType
  <2>6. next = [at |-> "body", ph |-> r.ph, hdr |-> r.hdr, got |-> r.got + k,
                body |-> Extend(r.body, r.got, d, k)]
    BY <2>3 DEF RxNext
  <2> HIDE DEF k, next
  <2>7. next = [at |-> "body", ph |-> m, hdr |-> h, got |-> n + k,
                body |-> next.body]
    BY <2>3, <2>6
  <2>8. n + k \in 0 .. m.size
    BY <2>4, <2>5, MessageType
  <2> QED
    BY <2>7, <2>8 DEF RxOK, next
<1> QED
  BY <1>2, <1>3, <1>4 DEF RxOK

-----------------------------------------------------------------------------
(* Type correctness. *)

LEMMA InitType == Init => TypeOK
  BY ChannelAssumption DEF Init, TypeOK, RxOK, Complete, RxIdle

\* Send begins with the protocol header of a message that can be sent.
LEMMA NewMessageType ==
    ASSUME TypeOK, Len(outcome) < MaxMsgs,
           NEW h \in HdrLens, NEW s \in Sizes, h <= HdrMax
    PROVE  NewMessage(h, s) \in Message
<1>1. Len(outcome) \in Nat
  BY LenProperties DEF TypeOK
<1> QED
  BY <1>1, ChannelAssumption DEF NewMessage, Message

LEMMA BeginSendType ==
    ASSUME TypeOK, NEW t \in Senders, NEW h \in HdrLens, NEW s \in Sizes,
           BeginSend(t, h, s)
    PROVE  TypeOK'
<1>1. NewMessage(h, s) \in Message
  BY NewMessageType DEF BeginSend
<1>2. PhOf(NewMessage(h, s)) \in Datagram
  BY <1>1, PartIsDatagram
<1>3. tx' \in [Senders -> Datagram \cup {End}]
  BY <1>2 DEF BeginSend, TypeOK
<1>4. outcome' \in Seq({"sending", "ok", "error"}) /\ Len(outcome') <= MaxMsgs
  BY ChannelAssumption DEF BeginSend, TypeOK
<1> QED
  BY <1>3, <1>4 DEF BeginSend, TypeOK, receiver

LEMMA RefuseSendType ==
    ASSUME TypeOK, NEW h \in HdrLens, NEW s \in Sizes, RefuseSend(h, s)
    PROVE  TypeOK'
<1>1. outcome' \in Seq({"sending", "ok", "error"}) /\ Len(outcome') <= MaxMsgs
  BY ChannelAssumption DEF RefuseSend, TypeOK
<1> QED
  BY <1>1 DEF RefuseSend, TypeOK, receiver, sender

LEMMA ReturnType ==
    ASSUME TypeOK, NEW t \in Senders, NEW res \in {"ok", "error"},
           Return(t, res)
    PROVE  /\ mutex' \in Senders \cup {Nobody}
           /\ tx' \in [Senders -> Datagram \cup {End}]
           /\ outcome' \in Seq({"sending", "ok", "error"})
           /\ Len(outcome') = Len(outcome)
<1>1. /\ outcome' \in Seq({"sending", "ok", "error"})
      /\ Len(outcome') = Len(outcome)
  <2> DEFINE n == tx[t].msg.id
  <2>1. outcome \in Seq({"sending", "ok", "error"}) /\ outcome' = [outcome EXCEPT ![n] = res]
    BY DEF TypeOK, Return
  <2>2. CASE n \in 1 .. Len(outcome)
    BY <2>1, <2>2, ExceptSeq
  <2>3. CASE n \notin 1 .. Len(outcome)
    <3>1. outcome' = outcome
      BY <2>1, <2>3
    <3> QED
      BY <2>1, <3>1
  <2> QED
    BY <2>2, <2>3
<1> QED
  BY <1>1 DEF TypeOK, Return

LEMMA TransmitType ==
    ASSUME TypeOK, NEW t \in Senders, Transmit(t)
    PROVE  TypeOK'
<1>1. tx[t] \in Datagram
  BY DEF Transmit, TypeOK
<1>2. queue' \in Seq(Datagram) /\ Len(queue') <= Cap
  BY <1>1, ChannelAssumption DEF Transmit, TypeOK
<1>3. Successor(tx[t]) \in Datagram \cup {End}
  BY <1>1, SuccessorType
<1>4. /\ mutex' \in Senders \cup {Nobody}
      /\ tx' \in [Senders -> Datagram \cup {End}]
      /\ outcome' \in Seq({"sending", "ok", "error"})
      /\ Len(outcome') = Len(outcome)
  BY <1>3, ReturnType DEF Transmit, TypeOK
<1> QED
  BY <1>2, <1>4 DEF Transmit, TypeOK, receiver

LEMMA GiveUpType ==
    ASSUME TypeOK, NEW t \in Senders, TransmitFails(t)
    PROVE  TypeOK'
<1>1. /\ mutex' \in Senders \cup {Nobody}
      /\ tx' \in [Senders -> Datagram \cup {End}]
      /\ outcome' \in Seq({"sending", "ok", "error"})
      /\ Len(outcome') = Len(outcome)
  BY ReturnType DEF TransmitFails
<1> QED
  BY <1>1 DEF TransmitFails, TypeOK, receiver

LEMMA BegunType == ASSUME NEW r, RxOK(r)
                   PROVE  /\ r # RxIdle => r.at # "ph" /\ r.ph \in Message
                          /\ Begun(r) \subseteq 1 .. MaxMsgs
<1>1. CASE r = RxIdle
  BY <1>1 DEF Begun, RxIdle
<1>2. CASE r # RxIdle
  <2>1. r.at # "ph" /\ r.ph \in Message
    BY <1>2 DEF RxOK
  <2> QED
    BY <2>1, MessageType DEF Begun
<1> QED
  BY <1>1, <1>2

LEMMA TakeType == ASSUME TypeOK, Take PROVE TypeOK'
<1> DEFINE d == Head(queue)
           r == RxNext(rx, d, rxLimit)
<1>1. d \in Datagram /\ queue' \in Seq(Datagram) /\ Len(queue') <= Cap
  BY HeadTailProperties, ChannelAssumption DEF Take, TypeOK
<1>2. RxOK(r)
  BY <1>1, RxNextType DEF TypeOK
<1>3. RxOK(rx') /\ ~Complete(rx')
  BY <1>2 DEF Take, RxOK, Complete, RxIdle
<1>4. lost' \subseteq 1 .. MaxMsgs /\ swallowed' \subseteq 1 .. MaxMsgs
  <2>1. PhId(d) \subseteq 1 .. MaxMsgs
    BY <1>1, DatagramType, MessageType DEF PhId
  <2>2. Begun(rx) \subseteq 1 .. MaxMsgs
    BY BegunType DEF TypeOK
  <2>3. /\ lost' \subseteq lost \cup Begun(rx) \cup PhId(d)
        /\ swallowed' \subseteq swallowed \cup PhId(d)
    BY DEF Take
  <2> QED
    BY <2>1, <2>2, <2>3 DEF TypeOK
<1> QED
  BY <1>1, <1>3, <1>4 DEF Take, TypeOK, sender

LEMMA InPipeType == ASSUME TypeOK PROVE InPipe \subseteq 1 .. MaxMsgs
<1>1. \A i \in 1 .. Len(queue) : queue[i].msg.id \in 1 .. MaxMsgs
  BY ElementOfSeq, DatagramType, MessageType DEF TypeOK
<1>2. Begun(rx) \subseteq 1 .. MaxMsgs
  BY BegunType DEF TypeOK
<1> QED
  BY <1>1, <1>2 DEF InPipe

LEMMA RxIdleType == RxOK(RxIdle) /\ ~Complete(RxIdle)
  BY DEF RxOK, RxIdle, Complete

LEMMA RxCloseType == ASSUME TypeOK, RxClose PROVE TypeOK'
<1>1. queue' \in Seq(Datagram) /\ Len(queue') <= Cap
  BY ChannelAssumption DEF RxClose
<1>2. closes' \in 0 .. MaxCloses
  BY ChannelAssumption DEF RxClose, TypeOK
<1>3. lost' \subseteq 1 .. MaxMsgs
  BY InPipeType DEF RxClose, TypeOK
<1> QED
  BY <1>1, <1>2, <1>3, RxIdleType DEF RxClose, TypeOK, sender

LEMMA RxRestartType == ASSUME TypeOK, RxRestart PROVE TypeOK'
<1>1. lost' \subseteq 1 .. MaxMsgs
  BY BegunType DEF RxRestart, TypeOK
<1> QED
  BY <1>1, RxIdleType DEF RxRestart, TypeOK, sender

LEMMA StepType == ASSUME TypeOK, [Next]_vars PROVE TypeOK'
<1>1. ASSUME NEW t \in Senders, NEW h \in HdrLens, NEW s \in Sizes,
             BeginSend(t, h, s)
      PROVE  TypeOK'
  BY <1>1, BeginSendType
<1>2. ASSUME NEW h \in HdrLens, NEW s \in Sizes, RefuseSend(h, s)
      PROVE  TypeOK'
  BY <1>2, RefuseSendType
<1>3. ASSUME NEW t \in Senders, Transmit(t)
      PROVE  TypeOK'
  BY <1>3, TransmitType
<1>4. ASSUME NEW t \in Senders, TransmitFails(t)
      PROVE  TypeOK'
  BY <1>4, GiveUpType
<1>5. ASSUME NEW l \in Limits, SetTxLimit(l) \/ SetRxLimit(l)
      PROVE  TypeOK'
  BY <1>5 DEF SetTxLimit, SetRxLimit, TypeOK, sender, receiver
<1>6. CASE Take
  BY <1>6, TakeType
<1>7. CASE RxClose
  BY <1>7, RxCloseType
<1>8. CASE RxOpen
  BY <1>8 DEF RxOpen, TypeOK, sender
<1>9. CASE RxRestart
  BY <1>9, RxRestartType
<1>10. CASE TxClose \/ TxOpen
  BY <1>10 DEF TxClose, TxOpen, TypeOK, receiver
<1>11. CASE UNCHANGED vars
  BY <1>11 DEF vars, sender, receiver, TypeOK
<1> QED
  BY <1>1, <1>2, <1>3, <1>4, <1>5, <1>6, <1>7, <1>8, <1>9, <1>10, <1>11
     DEF Next

\* Type correctness of the channel, for every value of the constants.
THEOREM TypeCorrect == Spec => []TypeOK
  BY InitType, StepType, PTL DEF Spec

-----------------------------------------------------------------------------
(* The datagrams in flight, and what they say of the messages received.    *)

DeliveredSeq == delivered \in Seq({delivered[i] : i \in DOMAIN delivered})

IndInv == /\ TypeOK /\ DeliveredSeq
          /\ LockInv /\ BoundInv /\ StreamInv /\ RxInv /\ HistoryInv /\ OrderInv
          /\ Intact /\ InOrder /\ OnlySentIsReceived

LEMMA ExtendPrefix ==
    ASSUME NEW m, NEW o \in Nat, NEW n \in Nat, NEW d,
           d.part = "frag", d.msg = m, d.off = o
    PROVE  Extend(BodyPrefix(m, o), o, d, n) = BodyPrefix(m, o + n)
<1> DEFINE P == BodyPrefix(m, o)
<1>1. \A i \in 0 .. o + n - 1 :
         (IF i < o THEN P[i] ELSE Byte(d, i - o)) = <<"frag", m.id, i>>
  BY DEF BodyPrefix, Byte
<1> HIDE DEF P
<1>2. Extend(P, o, d, n) = BodyPrefix(m, o + n)
  BY <1>1 DEF Extend, BodyPrefix
<1> QED
  BY <1>2 DEF P

\* Reading the datagram it expects brings Receive on in its message, up to
\* the whole of it when no other datagram of the message follows.
LEMMA ReadExpected ==
    ASSUME NEW r, RxOK(r), r.at # "ph", ~Complete(r), NEW limit, InStep(r)
    PROVE  LET d == Expected(r)
               n == RxNext(r, d, limit)
           IN /\ n.at = "body" /\ n.ph = r.ph /\ d.msg = r.ph
              /\ InStep(n)
              /\ Complete(n) => Successor(d) = End /\ IsWhole(Received(n))
              /\ ~Complete(n) => Successor(d) = Expected(n)
<1> DEFINE d == Expected(r)
           n == RxNext(r, d, limit)
           m == r.ph
<1>1. m \in Message
  BY BegunType DEF RxIdle
<1>2. CASE \E x \in Message : r = [at |-> "hdr", ph |-> x]
  <2>1. r.at = "hdr"
    BY <1>2
  <2>2. d = HdrOf(m)
    BY <2>1 DEF Expected
  <2>3. d.len <= HdrMax /\ d.msg = m /\ d.part = "hdr"
    BY <1>1, <2>2, MessageType DEF HdrOf
  <2> HIDE DEF d
  <2>4. n = [at |-> "body", ph |-> m, hdr |-> d, got |-> 0,
             body |-> [i \in 0 .. -1 |-> Byte(d, i)]]
    BY <2>1, <2>3 DEF RxNext
  <2> HIDE DEF n
  <2>5. n.body = BodyPrefix(n.ph, n.got)
    BY <2>4 DEF BodyPrefix
  <2>6. Complete(n) <=> m.size = 0
    BY <2>4 DEF Complete
  <2>7. Successor(d) = IF m.size = 0 THEN End ELSE FragOf(m, 0)
    BY <2>3 DEF Successor, BodySent
  <2>8. m.size = 0 => IsWhole(Received(n))
    BY <2>2, <2>4, <2>5 DEF IsWhole, Received
  <2>9. m.size # 0 => Successor(d) = Expected(n)
    BY <2>4, <2>7 DEF Expected
  <2> QED
    BY <2>2, <2>3, <2>4, <2>5, <2>6, <2>7, <2>8, <2>9 DEF n, d, InStep
<1>3. CASE \E x \in Message, h \in Datagram : \E g \in 0 .. x.size :
             r = [at |-> "body", ph |-> x, hdr |-> h, got |-> g, body |-> r.body]
  <2>1. r.at = "body" /\ r.got \in 0 .. m.size
    BY <1>3
  <2>2. r.got \in 0 .. m.size - 1 /\ m.size - r.got \in Nat
    BY <1>1, <2>1, MessageType DEF Complete
  <2>3. d = FragOf(m, r.got)
    BY <2>1 DEF Expected
  <2>4. d.msg = m /\ d.part = "frag" /\ d.off = r.got
    BY <2>3 DEF FragOf
  <2>5. d.len \in Nat \ {0} /\ r.got + d.len \in 0 .. m.size
    BY <1>1, <2>2, <2>3, FragLength
  <2>6. d.len = Smaller(FragSize, m.size - r.got)
    BY <2>3 DEF FragOf
  <2>7. BodyRead(r, d) = d.len
    BY <2>5, <2>6 DEF BodyRead, Smaller
  <2> HIDE DEF d
  <2>8. n = [at |-> "body", ph |-> m, hdr |-> r.hdr, got |-> r.got + d.len,
             body |-> Extend(r.body, r.got, d, d.len)]
    BY <2>1, <2>7 DEF RxNext
  <2> HIDE DEF n
  <2>9. n.body = BodyPrefix(m, n.got)
    BY <2>1, <2>2, <2>4, <2>5, <2>8, ExtendPrefix DEF InStep
  <2>10. Successor(d) = IF n.got = m.size THEN End ELSE FragOf(m, n.got)
    BY <2>4, <2>8 DEF Successor, BodySent
  <2>11. Complete(n) <=> n.got = m.size
    BY <2>8 DEF Complete
  <2>12. n.hdr = HdrOf(m)
    BY <2>1, <2>8 DEF InStep
  <2>13. n.got = m.size => IsWhole(Received(n))
    BY <2>8, <2>9, <2>12 DEF IsWhole, Received
  <2>14. Expected(n) = FragOf(m, n.got) /\ n.ph = m /\ n.at = "body"
    BY <2>8 DEF Expected
  <2> QED
    BY <2>4, <2>9, <2>10, <2>11, <2>12, <2>13, <2>14 DEF n, d, InStep
<1> QED
  BY <1>2, <1>3 DEF RxOK, RxIdle

\* A message that does not get the datagram it expects, but the beginning of
\* another one, is spoiled.
LEMMA ReadAnother ==
    ASSUME NEW r, RxOK(r), r.at # "ph", ~Complete(r), NEW limit, InStep(r),
           NEW d \in Datagram, d.part = "ph"
    PROVE  LET n == RxNext(r, d, limit)
           IN n.at = "body" /\ n.ph = r.ph /\ Spoiled(n)
<1> DEFINE n == RxNext(r, d, limit)
           m == r.ph
<1>1. m \in Message
  BY BegunType DEF RxIdle
<1>2. d = PhOf(d.msg)
  <2>1. PICK x \in Message : \/ d = PhOf(x)
                             \/ d = HdrOf(x)
                             \/ \E o \in 0 .. x.size - 1 : d = FragOf(x, o)
    BY DatagramCases
  <2>2. d = PhOf(x)
    BY <2>1 DEF HdrOf, FragOf
  <2> QED
    BY <2>2 DEF PhOf
<1>3. d.len = PhLen /\ d.len \in Nat \ {0} /\ d.len <= HdrMax
  BY <1>2, FramingAssumption DEF PhOf
<1>4. CASE \E x \in Message : r = [at |-> "hdr", ph |-> x]
  <2>1. r.at = "hdr"
    BY <1>4
  <2>2. n = [at |-> "body", ph |-> m, hdr |-> d, got |-> 0,
             body |-> [i \in 0 .. -1 |-> Byte(d, i)]]
    BY <1>3, <2>1 DEF RxNext
  <2> HIDE DEF n
  <2>3. HdrOf(m).part = "hdr"
    BY DEF HdrOf
  <2> QED
    BY <2>2, <2>3 DEF Spoiled, n
<1>5. CASE \E x \in Message, h \in Datagram : \E g \in 0 .. x.size :
             r = [at |-> "body", ph |-> x, hdr |-> h, got |-> g, body |-> r.body]
  <2>1. r.at = "body" /\ r.got \in 0 .. m.size
    BY <1>5
  <2>2. r.got \in Nat /\ m.size - r.got \in Nat \ {0}
    BY <1>1, <2>1, MessageType DEF Complete
  <2> DEFINE k == BodyRead(r, d)
  <2>3. k \in Nat \ {0}
    BY <1>3, <2>2, FramingAssumption DEF BodyRead, Smaller
  <2> HIDE DEF k
  <2>4. n = [at |-> "body", ph |-> m, hdr |-> r.hdr, got |-> r.got + k,
             body |-> Extend(r.body, r.got, d, k)]
    BY <2>1 DEF RxNext, k
  <2> HIDE DEF n
  <2>5. r.got \in 0 .. n.got - 1
    BY <2>2, <2>3, <2>4
  <2>6. n.body[r.got] = Byte(d, r.got - r.got)
    BY <2>2, <2>3, <2>4 DEF Extend
  <2>7. n.body[r.got] # <<"frag", n.ph.id, r.got>>
    BY <2>6 DEF Byte
  <2> QED
    BY <2>4, <2>5, <2>7 DEF Spoiled, n
<1> QED
  BY <1>4, <1>5 DEF RxOK, RxIdle

\* It stays so, whatever is read, and is not received as it was sent.
LEMMA ReadOn ==
    ASSUME NEW r, RxOK(r), ~Complete(r), NEW limit, Spoiled(r), NEW d \in Datagram
    PROVE  LET n == RxNext(r, d, limit)
           IN n.at = "body" /\ n.ph = r.ph /\ Spoiled(n)
<1> DEFINE n == RxNext(r, d, limit)
           m == r.ph
           k == BodyRead(r, d)
<1>1. r.at = "body"
  BY DEF Spoiled
<1>2. m \in Message /\ r.got \in 0 .. m.size
  BY <1>1 DEF RxOK, RxIdle
<1>3. r.got \in Nat /\ m.size - r.got \in Nat
  BY <1>2, MessageType
<1>4. k \in Nat
  BY <1>3, DatagramType, FramingAssumption DEF BodyRead, Smaller
<1> HIDE DEF k
<1>5. n = [at |-> "body", ph |-> m, hdr |-> r.hdr, got |-> r.got + k,
           body |-> Extend(r.body, r.got, d, k)]
  BY <1>1 DEF RxNext, k
<1> HIDE DEF n
<1>6. \A i \in 0 .. r.got - 1 : i \in 0 .. n.got - 1 /\ n.body[i] = r.body[i]
  BY <1>3, <1>4, <1>5 DEF Extend
<1> QED
  BY <1>5, <1>6 DEF Spoiled, n

LEMMA SpoiledIsNotWhole ==
    ASSUME NEW r, RxOK(r), Complete(r), Spoiled(r) PROVE ~IsWhole(Received(r))
<1>1. r.ph \in Message /\ r.got = r.ph.size
  BY DEF RxOK, RxIdle, Spoiled, Complete
<1>2. ASSUME r.body = BodyPrefix(r.ph, r.ph.size), NEW i \in 0 .. r.got - 1
      PROVE  r.body[i] = <<"frag", r.ph.id, i>>
  BY <1>1, <1>2 DEF BodyPrefix
<1> QED
  BY <1>2 DEF Spoiled, IsWhole, Received

LEMMA InitInd == Init => IndInv
<1> SUFFICES ASSUME Init PROVE IndInv
  OBVIOUS
<1>1. TypeOK
  BY InitType
<1>2. DeliveredSeq /\ Intact /\ InOrder /\ OnlySentIsReceived /\ OrderInv
  BY DEF Init, DeliveredSeq, Intact, InOrder, OnlySentIsReceived, OrderInv, RxIdle
<1>3. LockInv /\ BoundInv /\ StreamInv /\ RxInv /\ HistoryInv
  BY ChannelAssumption
     DEF Init, LockInv, BoundInv, StreamInv, RxInv, HistoryInv, RxIdle
<1> QED
  BY <1>1, <1>2, <1>3 DEF IndInv

\* What the invariant says of sequences, in the form the steps use.
LEMMA IndTypes ==
    ASSUME IndInv
    PROVE  /\ Len(queue) \in Nat /\ Len(outcome) \in Nat /\ Len(outcome) <= MaxMsgs
           /\ \A i \in 1 .. Len(queue) : /\ queue[i] \in Datagram /\ queue[i] # End
                                          /\ queue[i].msg.id \in 1 .. Len(outcome)
           /\ mutex # Nobody => /\ mutex \in Senders /\ tx[mutex] \in Datagram
                                /\ tx[mutex] # End
                                /\ Len(outcome) # 0
           /\ \A t \in Senders : tx[t] # End => mutex = t /\ mutex # Nobody
<1>1. Len(queue) \in Nat /\ Len(outcome) \in Nat /\ Len(outcome) <= MaxMsgs
  BY DEF IndInv, TypeOK
<1>2. \A i \in 1 .. Len(queue) : queue[i] \in Datagram
  BY ElementOfSeq DEF IndInv, TypeOK
<1>3. \A i \in 1 .. Len(queue) : queue[i] # End /\ queue[i].msg.id \in 1 .. MaxMsgs
  BY <1>2, DatagramType, MessageType
<1>4. \A i \in 1 .. Len(queue) : queue[i].msg.id \in 1 .. Len(outcome)
  BY <1>1, <1>3 DEF IndInv, HistoryInv
<1>5. mutex # Nobody => mutex \in Senders /\ tx[mutex] \in Datagram /\ tx[mutex] # End
  BY DEF IndInv, TypeOK, LockInv
<1>6. mutex # Nobody => Len(outcome) # 0
  <2>1. mutex # Nobody => tx[mutex].msg.id \in 1 .. MaxMsgs
    BY <1>5, DatagramType, MessageType
  <2> QED
    BY <2>1 DEF IndInv, HistoryInv
<1>7. \A t \in Senders : tx[t] # End => mutex = t /\ mutex # Nobody
  BY ChannelAssumption DEF IndInv, LockInv
<1> QED
  BY <1>1, <1>2, <1>3, <1>4, <1>5, <1>6, <1>7

LEMMA StreamType ==
    ASSUME IndInv, NEW i \in Nat \ {0}, Stream(i) # End
    PROVE  Stream(i) \in Datagram /\ Stream(i).msg.id \in Nat
<1>1. Stream(i) \in Datagram
  BY IndTypes DEF Stream, Pending
<1> QED
  BY <1>1, DatagramType, MessageType

\* In the middle of a message, what Receive expects next is a datagram.
LEMMA ExpectedType ==
    ASSUME IndInv, rx.at # "ph"
    PROVE  Expected(rx) \in Datagram /\ Expected(rx) # End
<1>1. rx.ph \in Message
  BY BegunType DEF IndInv, TypeOK, RxIdle
<1>2. CASE rx.at = "hdr"
  BY <1>1, <1>2, PartIsDatagram, DatagramType DEF Expected
<1>3. CASE rx.at # "hdr"
  <2>1. rx.got \in 0 .. rx.ph.size /\ rx.got # rx.ph.size /\ rx.ph.size \in Nat
    BY <1>1, <1>3, MessageType DEF IndInv, TypeOK, RxOK, Complete, RxIdle
  <2>2. rx.got \in 0 .. rx.ph.size - 1
    BY <2>1
  <2> QED
    BY <1>1, <1>3, <2>2, PartIsDatagram, DatagramType DEF Expected
<1> QED
  BY <1>2, <1>3

LEMMA BeginSendInd ==
    ASSUME IndInv, NEW t \in Senders, NEW h \in HdrLens, NEW s \in Sizes,
           BeginSend(t, h, s)
    PROVE  IndInv'
<1> DEFINE m == NewMessage(h, s)
<1>1. TypeOK'
  BY BeginSendType DEF IndInv
<1>2. /\ mutex = Nobody /\ mutex' = t /\ t # Nobody
      /\ tx' = [tx EXCEPT ![t] = PhOf(m)] /\ tx'[t] = PhOf(m)
      /\ UNCHANGED <<queue, rx, delivered, bound>>
  BY ChannelAssumption DEF BeginSend, receiver, IndInv, TypeOK
<1>3. /\ PhOf(m) # End /\ PhOf(m).part = "ph"
      /\ PhOf(m).msg.id = Len(outcome) + 1
  BY DEF PhOf, End, NewMessage
<1> HIDE DEF m
<1>4. /\ Len(outcome') = Len(outcome) + 1
      /\ outcome'[Len(outcome) + 1] = "sending"
      /\ \A i \in 1 .. Len(outcome) : outcome'[i] = outcome[i]
  BY AppendProperties DEF BeginSend, IndInv, TypeOK
<1>5. LockInv'
  <2> SUFFICES ASSUME NEW u \in Senders PROVE tx'[u] # End <=> mutex' = u
    BY DEF LockInv
  <2>1. tx[u] = End
    BY <1>2, IndTypes
  <2>2. u # t => tx'[u] = tx[u]
    BY <1>2 DEF IndInv, TypeOK
  <2> QED
    BY <1>2, <1>3, <2>1, <2>2
<1>6. Pending = End /\ Pending' = PhOf(m)
  BY <1>2 DEF Pending
<1>7. StreamInv'
  <2> SUFFICES ASSUME NEW i \in 1 .. Len(queue)
               PROVE  Follows(queue[i], Stream(i + 1))'
    BY <1>2 DEF StreamInv
  <2>1. Follows(queue[i], Stream(i + 1)) /\ queue'[i] = queue[i]
    BY <1>2 DEF IndInv, StreamInv
  <2>2. queue[i].msg.id \in 1 .. Len(outcome)
    BY IndTypes
  <2>3. Failed(queue[i].msg) => Failed(queue[i].msg)'
    BY <1>2, <1>4, <2>2 DEF Failed
  <2>4. CASE i + 1 <= Len(queue)
    <3>1. Stream(i + 1)' = Stream(i + 1)
      BY <1>2, <2>4 DEF Stream
    <3> QED
      BY <1>2, <2>1, <2>3, <3>1 DEF Follows, Failed
  <2>5. CASE ~(i + 1 <= Len(queue))
    <3>1. Follows(queue[i], End) /\ Stream(i + 1)' = PhOf(m)
      BY <1>2, <1>6, <2>1, <2>5 DEF Stream
    <3>2. Successor(queue[i]) = End \/ Failed(queue[i].msg)
      BY <3>1 DEF Follows, End
    <3>3. queue[i].msg.id < PhOf(m).msg.id
      BY <1>3, <2>2
    <3> QED
      BY <1>2, <1>3, <2>3, <3>1, <3>2, <3>3 DEF Follows, Failed
  <2> QED
    BY <2>4, <2>5
<1>8. RxInv'
  <2>1. Stream(1)' = Stream(1) \/ (Stream(1) = End /\ Stream(1)' = PhOf(m))
    BY <1>2, <1>6 DEF Stream
  <2>2. rx.at # "ph" => rx.ph.id \in 1 .. Len(outcome)
    BY DEF IndInv, OrderInv
  <2>3. rx.at # "ph" => rx.ph.id < PhOf(m).msg.id /\ outcome'[rx.ph.id] = outcome[rx.ph.id]
    BY <1>3, <1>4, <2>2
  <2>4. rx.at # "ph" => Expected(rx) # End
    BY ExpectedType
  <2>5. RxInv
    BY DEF IndInv
  <2> HIDE DEF PhOf
  <2>6. rx' = rx
    BY <1>2
  <2> QED
    BY <1>3, <2>1, <2>3, <2>4, <2>5, <2>6 DEF RxInv, Failed, Expected, InStep, Spoiled
<1>9. HistoryInv'
  <2>1. \A k \in DOMAIN delivered : delivered[k].msg.id \in 1 .. Len(outcome)
    BY DEF IndInv, OrderInv
  <2> QED
    BY <1>2, <1>3, <1>4, <2>1, IndTypes DEF HistoryInv, IndInv
<1>10. OrderInv' /\ OnlySentIsReceived' /\ Intact'
  <2>1. \A k \in DOMAIN delivered : delivered[k].msg.id \in 1 .. Len(outcome)
    BY DEF IndInv, OrderInv
  <2>2. Stream(1)' = Stream(1) \/ Stream(1)' = PhOf(m)
    BY <1>2, <1>6 DEF Stream
  <2>3. \A k \in DOMAIN delivered :
           Stream(1)' # End => delivered[k].msg.id < Stream(1)'.msg.id
    BY <1>3, <2>1, <2>2, IndTypes DEF IndInv, OrderInv
  <2>4. OnlySentIsReceived' /\ Intact'
    BY <1>2, <1>4, <2>1 DEF OnlySentIsReceived, Intact, IndInv
  <2>5. OrderInv'
    BY <1>2, <1>4, <2>1, <2>3, IndTypes DEF OrderInv, IndInv
  <2> QED
    BY <2>4, <2>5
<1> QED
  BY <1>1, <1>2, <1>5, <1>7, <1>8, <1>9, <1>10
     DEF IndInv, DeliveredSeq, BoundInv, InOrder

\* Whatever was in flight stays as it is when a call is added to the history.
LEMMA SameStream ==
    ASSUME IndInv, UNCHANGED <<mutex, tx, queue>>
    PROVE  Pending' = Pending /\ \A i \in Nat : Stream(i)' = Stream(i)
  BY DEF Pending, Stream

LEMMA RefuseSendInd ==
    ASSUME IndInv, NEW h \in HdrLens, NEW s \in Sizes, RefuseSend(h, s)
    PROVE  IndInv'
<1>1. TypeOK'
  BY RefuseSendType DEF IndInv
<1>2. mutex = Nobody /\ UNCHANGED <<mutex, tx, queue, rx, delivered, bound>>
  BY DEF RefuseSend, sender, receiver
<1>3. /\ Len(outcome') = Len(outcome) + 1
      /\ \A i \in 1 .. Len(outcome) : outcome'[i] = outcome[i]
  BY AppendProperties DEF RefuseSend, IndInv, TypeOK
<1>4. \A k \in DOMAIN delivered : delivered[k].msg.id \in 1 .. Len(outcome)
  BY DEF IndInv, OrderInv
<1>5. HistoryInv'
  BY <1>2, <1>3, <1>4, IndTypes DEF HistoryInv, IndInv
<1>6. \A i \in Nat : Stream(i)' = Stream(i)
  BY <1>2, SameStream
<1>7. rx.at # "ph" => rx.ph.id \in 1 .. Len(outcome)
  BY DEF IndInv, OrderInv
<1>8. OrderInv'
  BY <1>2, <1>3, <1>4, <1>6, <1>7, IndTypes DEF OrderInv, IndInv
<1>9. OnlySentIsReceived' /\ Intact'
  BY <1>2, <1>3, <1>4 DEF OnlySentIsReceived, Intact, IndInv
<1>10. StreamInv'
  <2> SUFFICES ASSUME NEW i \in 1 .. Len(queue)
               PROVE  Follows(queue[i], Stream(i + 1))'
    BY <1>2 DEF StreamInv
  <2>1. Follows(queue[i], Stream(i + 1)) /\ queue'[i] = queue[i]
    BY <1>2 DEF IndInv, StreamInv
  <2>2. outcome'[queue[i].msg.id] = outcome[queue[i].msg.id]
    BY <1>3, IndTypes
  <2> QED
    BY <1>6, <2>1, <2>2 DEF Follows, Failed
<1>11. RxInv'
  <2>1. rx.at # "ph" => outcome'[rx.ph.id] = outcome[rx.ph.id]
    BY <1>3, <1>7
  <2> QED
    BY <1>2, <1>6, <2>1 DEF RxInv, IndInv, Failed, Expected, InStep, Spoiled
<1> QED
  BY <1>1, <1>2, <1>5, <1>8, <1>9, <1>10, <1>11
     DEF IndInv, DeliveredSeq, BoundInv, InOrder, LockInv

\* Transmitting the pending datagram moves it into the queue, and the next
\* one of its message, if any, takes its place.
LEMMA TransmitInd ==
    ASSUME IndInv, NEW t \in Senders, Transmit(t)
    PROVE  IndInv'
<1> DEFINE d == tx[t]
           L == Len(queue)
           N == Len(outcome)
<1>1. TypeOK'
  BY TransmitType DEF IndInv
<1>2. mutex = t /\ t # Nobody /\ d \in Datagram /\ d # End /\ Pending = d
  BY IndTypes DEF Transmit, Pending
<1>3. d.msg.id = N /\ N \in 1 .. N /\ outcome[N] = "sending"
  BY <1>2, IndTypes DEF IndInv, HistoryInv
<1>4. UNCHANGED <<rx, delivered, bound>> /\ bound
  BY DEF Transmit, receiver
<1>5. /\ L \in Nat /\ Len(queue') = L + 1
      /\ queue'[L + 1] = d
      /\ \A i \in 1 .. L : queue'[i] = queue[i]
  BY <1>2, AppendProperties DEF Transmit, IndInv, TypeOK
<1>6. /\ Pending' = Successor(d)
      /\ LockInv'
      /\ Len(outcome') = N
      /\ \A i \in 1 .. N : i # N => outcome'[i] = outcome[i]
      /\ outcome'[N] \in {"sending", "ok"}
      /\ Successor(d) = End => outcome'[N] = "ok"
      /\ mutex' # Nobody => /\ mutex' = t /\ tx'[t].msg.id = N
                            /\ outcome'[N] = "sending"
  <2>1. CASE Successor(d) = End
    <3>1. /\ mutex' = Nobody /\ tx' = [tx EXCEPT ![t] = End]
          /\ outcome' = [outcome EXCEPT ![N] = "ok"]
      BY <1>3, <2>1 DEF Transmit, Return
    <3>2. LockInv'
      <4> SUFFICES ASSUME NEW u \in Senders PROVE tx'[u] # End <=> mutex' = u
        BY DEF LockInv
      <4>1. u = t => tx'[u] = End
        BY <3>1 DEF IndInv, TypeOK
      <4>2. u # t => tx'[u] = tx[u] /\ tx[u] = End
        BY <1>2, <3>1, IndTypes DEF IndInv, TypeOK
      <4> QED
        BY <3>1, <4>1, <4>2, ChannelAssumption
    <3>3. /\ Len(outcome') = N /\ outcome'[N] = "ok"
          /\ \A i \in 1 .. N : i # N => outcome'[i] = outcome[i]
      BY <1>3, <3>1, ExceptSeq DEF IndInv, TypeOK
    <3>4. Pending' = Successor(d)
      BY <2>1, <3>1 DEF Pending
    <3> QED
      BY <1>3, <3>1, <3>2, <3>3, <3>4
  <2>2. CASE Successor(d) # End
    <3>1. mutex' = t /\ tx' = [tx EXCEPT ![t] = Successor(d)] /\ outcome' = outcome
      BY <1>2, <2>2 DEF Transmit
    <3>2. tx'[t] = Successor(d)
      BY <3>1 DEF IndInv, TypeOK
    <3>3. LockInv'
      <4> SUFFICES ASSUME NEW u \in Senders PROVE tx'[u] # End <=> mutex' = u
        BY DEF LockInv
      <4>1. u # t => tx'[u] = tx[u] /\ tx[u] = End
        BY <1>2, <3>1, IndTypes DEF IndInv, TypeOK
      <4> QED
        BY <2>2, <3>1, <3>2, <4>1
    <3>4. tx'[t].msg.id = N
      BY <1>2, <1>3, <2>2, <3>2, SuccessorType
    <3>5. Pending' = Successor(d)
      BY <1>2, <3>1, <3>2 DEF Pending
    <3> QED
      BY <1>3, <2>2, <3>1, <3>3, <3>4, <3>5
  <2> QED
    BY <2>1, <2>2
<1> HIDE DEF d
<1>7. /\ \A i \in 1 .. L + 1 : Stream(i)' = Stream(i)
      /\ Stream(L + 2)' = Successor(d)
      /\ Stream(L + 1) = d
  BY <1>2, <1>5, <1>6 DEF Stream
<1>8. Stream(1)' = Stream(1)
  BY <1>5, <1>7
<1>20. \A i \in 1 .. N : /\ outcome[i] = "error" => outcome'[i] = "error"
                         /\ outcome[i] = "ok" => outcome'[i] = "ok"
  BY <1>3, <1>6
<1>9. StreamInv'
  <2> SUFFICES ASSUME NEW i \in 1 .. L + 1
               PROVE  Follows(queue[i], Stream(i + 1))'
    BY <1>5 DEF StreamInv
  <2>1. CASE i = L + 1
    <3>1. queue'[i] = d /\ Stream(i + 1)' = Successor(d)
      BY <1>5, <1>6, <2>1 DEF Stream
    <3> QED
      BY <3>1 DEF Follows
  <2>2. CASE i # L + 1
    <3>1. i \in 1 .. L /\ i + 1 \in 1 .. L + 1
      BY <1>5, <2>2
    <3>2. queue'[i] = queue[i] /\ Stream(i + 1)' = Stream(i + 1)
      BY <1>5, <1>7, <3>1
    <3>3. Follows(queue[i], Stream(i + 1))
      BY <3>1 DEF IndInv, StreamInv
    <3>4. Failed(queue[i].msg) => Failed(queue[i].msg)'
      BY <1>20, <3>1, <3>2, IndTypes DEF Failed
    <3> QED
      BY <3>2, <3>3, <3>4 DEF Follows, Failed
  <2> QED
    BY <2>1, <2>2
<1>21. \A k \in DOMAIN delivered : /\ delivered[k].msg.id \in 1 .. N
                                   /\ delivered[k].msg.id # N
  BY <1>3 DEF IndInv, OrderInv, HistoryInv
<1>10. HistoryInv'
  <2>1. mutex' # Nobody => tx'[mutex'].msg.id = N /\ outcome'[N] = "sending"
    BY <1>6
  <2>2. ASSUME NEW i \in 1 .. L + 1
        PROVE  /\ queue'[i].msg.id <= N
               /\ Successor(queue'[i]) = End => outcome'[queue'[i].msg.id] = "ok"
    <3>1. CASE i = L + 1
      BY <1>3, <1>5, <1>6, <3>1
    <3>2. CASE i # L + 1
      <4>1. i \in 1 .. L /\ queue'[i] = queue[i]
        BY <1>5, <3>2
      <4>2. /\ queue[i].msg.id \in 1 .. N
            /\ Successor(queue[i]) = End => outcome[queue[i].msg.id] = "ok"
        BY <4>1, IndTypes DEF IndInv, HistoryInv
      <4> QED
        BY <1>20, <4>1, <4>2
    <3> QED
      BY <3>1, <3>2
  <2>3. \A k \in DOMAIN delivered : outcome'[delivered[k].msg.id] # "sending"
    BY <1>6, <1>21 DEF IndInv, HistoryInv
  <2> QED
    BY <1>4, <1>5, <1>6, <2>1, <2>2, <2>3 DEF HistoryInv
<1>11. RxInv'
  <2>1. rx.at # "ph" => rx.ph.id \in 1 .. N
    BY DEF IndInv, OrderInv
  <2>2. rx.at # "ph" /\ Failed(rx.ph) => Failed(rx.ph)'
    BY <1>4, <1>20, <2>1 DEF Failed
  <2> QED
    BY <1>4, <1>8, <2>2 DEF RxInv, IndInv, Failed, Expected, InStep, Spoiled
<1>12. OrderInv' /\ OnlySentIsReceived' /\ Intact'
  <2>1. OrderInv'
    BY <1>4, <1>6, <1>8 DEF OrderInv, IndInv
  <2>2. OnlySentIsReceived' /\ Intact'
    BY <1>4, <1>6, <1>21 DEF OnlySentIsReceived, Intact, IndInv
  <2> QED
    BY <2>1, <2>2
<1> QED
  BY <1>1, <1>4, <1>6, <1>9, <1>10, <1>11, <1>12
     DEF IndInv, DeliveredSeq, BoundInv, InOrder

\* After a failure the stream ends where Send has stopped, and who waits for
\* the rest of the message waits for that of a failed one.
LEMMA TransmitFailsInd ==
    ASSUME IndInv, NEW t \in Senders, TransmitFails(t)
    PROVE  IndInv'
<1> DEFINE d == tx[t]
           L == Len(queue)
           N == Len(outcome)
<1>1. TypeOK'
  BY GiveUpType DEF IndInv
<1>2. mutex = t /\ t # Nobody /\ d # End /\ Pending = d
  BY IndTypes DEF TransmitFails, Pending
<1>3. d.msg.id = N /\ N \in 1 .. N /\ outcome[N] = "sending"
  BY <1>2, IndTypes DEF IndInv, HistoryInv
<1>4. UNCHANGED <<queue, rx, delivered, bound>>
  BY DEF TransmitFails, receiver
<1>5. /\ mutex' = Nobody /\ tx' = [tx EXCEPT ![t] = End]
      /\ outcome' = [outcome EXCEPT ![N] = "error"]
  BY <1>3 DEF TransmitFails, Return
<1>6. /\ Len(outcome') = N /\ outcome'[N] = "error"
      /\ \A i \in 1 .. N : i # N => outcome'[i] = outcome[i]
  BY <1>3, <1>5, ExceptSeq DEF IndInv, TypeOK
<1>7. LockInv'
  <2> SUFFICES ASSUME NEW u \in Senders PROVE tx'[u] # End <=> mutex' = u
    BY DEF LockInv
  <2>1. u = t => tx'[u] = End
    BY <1>5 DEF IndInv, TypeOK
  <2>2. u # t => tx'[u] = tx[u] /\ tx[u] = End
    BY <1>2, <1>5, IndTypes DEF IndInv, TypeOK
  <2> QED
    BY <1>5, <2>1, <2>2, ChannelAssumption
<1>8. /\ L \in Nat /\ Stream(L + 1) = d /\ Stream(L + 1)' = End
      /\ \A i \in 1 .. L : Stream(i)' = Stream(i)
  BY <1>2, <1>4, <1>5, IndTypes DEF Stream, Pending
<1> HIDE DEF d
<1>9. \A i \in 1 .. N : outcome[i] = "error" => outcome'[i] = "error"
  BY <1>6
<1>10. \A k \in DOMAIN delivered : /\ delivered[k].msg.id \in 1 .. N
                                   /\ delivered[k].msg.id # N
  BY <1>3 DEF IndInv, OrderInv, HistoryInv
<1>11. Stream(1)' = Stream(1) \/ (Stream(1) = d /\ Stream(1)' = End)
  BY <1>4, <1>8
<1>12. OrderInv' /\ OnlySentIsReceived' /\ Intact'
  <2>1. OrderInv'
    BY <1>4, <1>6, <1>11 DEF OrderInv, IndInv
  <2>2. OnlySentIsReceived' /\ Intact'
    BY <1>4, <1>6, <1>10 DEF OnlySentIsReceived, Intact, IndInv
  <2> QED
    BY <2>1, <2>2
<1>13. HistoryInv'
  <2>1. ASSUME NEW i \in 1 .. L
        PROVE  /\ queue[i].msg.id <= N
               /\ Successor(queue[i]) = End => outcome'[queue[i].msg.id] = "ok"
    <3>1. /\ queue[i].msg.id \in 1 .. N
          /\ Successor(queue[i]) = End => outcome[queue[i].msg.id] = "ok"
      BY IndTypes DEF IndInv, HistoryInv
    <3> QED
      BY <1>3, <1>6, <3>1
  <2>2. \A k \in DOMAIN delivered : outcome'[delivered[k].msg.id] # "sending"
    BY <1>6, <1>10 DEF IndInv, HistoryInv
  <2> QED
    BY <1>4, <1>5, <1>6, <2>1, <2>2 DEF HistoryInv
<1>14. StreamInv'
  <2> SUFFICES ASSUME NEW i \in 1 .. L
               PROVE  Follows(queue[i], Stream(i + 1))'
    BY <1>4 DEF StreamInv
  <2>1. Follows(queue[i], Stream(i + 1)) /\ queue'[i] = queue[i]
    BY <1>4 DEF IndInv, StreamInv
  <2>2. queue[i] \in Datagram /\ queue[i].msg.id \in 1 .. N
    BY IndTypes
  <2>3. Failed(queue[i].msg) => Failed(queue[i].msg)'
    BY <1>4, <1>9, <2>2 DEF Failed
  <2>4. CASE i # L
    <3>1. Stream(i + 1)' = Stream(i + 1)
      BY <1>8, <2>4
    <3> QED
      BY <2>1, <2>3, <3>1 DEF Follows, Failed
  <2>5. CASE i = L
    <3>1. Follows(queue[i], d) /\ Stream(i + 1)' = End
      BY <1>4, <1>8, <2>1, <2>5
    <3>2. Successor(queue[i]) = End \/ Failed(queue[i].msg)'
      <4>1. CASE d = Successor(queue[i])
        <5>1. queue[i].msg = d.msg
          BY <1>2, <2>2, <4>1, SuccessorType
        <5> QED
          BY <1>3, <1>4, <1>6, <5>1 DEF Failed
      <4>2. CASE d # Successor(queue[i])
        BY <2>3, <3>1, <4>2 DEF Follows
      <4> QED
        BY <4>1, <4>2
    <3> QED
      BY <2>1, <3>1, <3>2 DEF Follows, Failed
  <2> QED
    BY <2>4, <2>5
<1>15. RxInv'
  <2> SUFFICES ASSUME rx.at # "ph" PROVE RxInv'
    BY <1>4 DEF RxInv
  <2>1. rx.ph.id \in 1 .. N
    BY DEF IndInv, OrderInv
  <2>2. Failed(rx.ph) => Failed(rx.ph)'
    BY <1>4, <1>9, <2>1 DEF Failed
  <2>3. Expected(rx).msg = rx.ph
    BY DEF Expected, HdrOf, FragOf
  <2>4. CASE Stream(1)' = Stream(1)
    BY <1>4, <2>2, <2>4 DEF RxInv, IndInv, Failed, Expected, InStep, Spoiled
  <2>5. CASE Stream(1) = d /\ Stream(1)' = End
    <3>1. CASE Stream(1) = Expected(rx) /\ InStep(rx)
      <4>1. Failed(rx.ph)'
        BY <1>3, <1>4, <1>6, <2>3, <2>5, <3>1 DEF Failed
      <4> QED
        BY <1>4, <2>5, <3>1, <4>1 DEF RxInv, InStep, Failed
    <3>2. CASE ~(Stream(1) = Expected(rx) /\ InStep(rx))
      BY <1>4, <2>2, <2>5, <3>2 DEF RxInv, IndInv, Failed, InStep, Spoiled
    <3> QED
      BY <3>1, <3>2
  <2> QED
    BY <1>11, <2>4, <2>5
<1> QED
  BY <1>1, <1>4, <1>7, <1>12, <1>13, <1>14, <1>15
     DEF IndInv, DeliveredSeq, BoundInv, InOrder

\* Reading a datagram: Receive goes on in its message, skips a datagram that
\* belongs to a message it gave up, takes it for a part of a message whose Send
\* has failed, or returns.
LEMMA TakeInd == ASSUME IndInv, Take PROVE IndInv'
<1> DEFINE d == Head(queue)
           r == RxNext(rx, d, rxLimit)
           L == Len(queue)
           N == Len(outcome)
<1>1. TypeOK'
  BY TakeType DEF IndInv
<1>2. UNCHANGED <<mutex, tx, outcome, bound>> /\ bound
  BY DEF Take, sender
<1>3. /\ L \in Nat \ {0} /\ d = queue[1] /\ Len(queue') = L - 1
      /\ \A i \in 1 .. L - 1 : queue'[i] = queue[i + 1]
  BY HeadTailProperties DEF Take, IndInv, TypeOK
<1>4. /\ d \in Datagram /\ d # End
      /\ d.msg.id \in 1 .. N /\ (Successor(d) = End => outcome[d.msg.id] = "ok")
  BY <1>3, IndTypes DEF IndInv, HistoryInv
<1>5. Stream(1) = d
  BY <1>3 DEF Stream
<1>6. Pending' = Pending
  BY <1>2 DEF Pending
<1>7. Stream(1)' = Stream(2)
  BY <1>3, <1>6 DEF Stream
<1>8. Follows(d, Stream(2))
  BY <1>3 DEF IndInv, StreamInv
<1>9. StreamInv'
  <2> SUFFICES ASSUME NEW i \in 1 .. L - 1
               PROVE  Follows(queue'[i], Stream(i + 1)')
    BY <1>2, <1>3 DEF StreamInv, Follows, Failed
  <2>1. i + 1 \in 1 .. L
    BY <1>3
  <2>2. Follows(queue[i + 1], Stream((i + 1) + 1))
    BY <2>1 DEF IndInv, StreamInv
  <2>3. Stream(i + 1)' = Stream((i + 1) + 1)
    BY <1>3, <1>6, <2>1 DEF Stream
  <2> QED
    BY <1>3, <2>2, <2>3
<1>10. /\ mutex' # Nobody => tx'[mutex'].msg.id = N /\ outcome'[N] = "sending"
       /\ \A i \in 1 .. Len(queue') :
             /\ queue'[i].msg.id <= N
             /\ Successor(queue'[i]) = End => outcome[queue'[i].msg.id] = "ok"
  <2>1. ASSUME NEW i \in 1 .. L - 1
        PROVE  /\ queue'[i].msg.id <= N
               /\ Successor(queue'[i]) = End => outcome[queue'[i].msg.id] = "ok"
    <3>1. i + 1 \in 1 .. L
      BY <1>3
    <3> QED
      BY <1>3, <3>1 DEF IndInv, HistoryInv
  <2> QED
    BY <1>2, <1>3, <2>1 DEF IndInv, HistoryInv
<1>11. LockInv' /\ BoundInv'
  BY <1>2 DEF IndInv, LockInv, BoundInv
<1>12. \/ r = RxIdle
       \/ /\ r.at # "ph" /\ r.ph = d.msg /\ InStep(r)
          /\ ~Complete(r) => Successor(d) = Expected(r) /\ Expected(r) # End
          /\ Complete(r) => Successor(d) = End /\ IsWhole(Received(r))
       \/ /\ r.at = "body" /\ rx.at # "ph" /\ r.ph = rx.ph
          /\ Spoiled(r) /\ Failed(r.ph) /\ r.ph.id < d.msg.id
  <2>1. CASE rx.at = "ph"
    <3>1. r = RxIdle \/ (d.part = "ph" /\ r = [at |-> "hdr", ph |-> d.msg])
      BY <2>1 DEF RxNext, AcceptsPh
    <3>2. d.part = "ph" => Successor(d) = HdrOf(d.msg) /\ HdrOf(d.msg) # End
      BY DEF Successor, HdrOf, End
    <3> HIDE DEF r, d
    <3> QED
      BY <3>1, <3>2 DEF RxIdle, Complete, Expected, InStep
  <2>2. CASE rx.at # "ph" /\ InStep(rx) /\ d = Expected(rx)
    <3>1. RxOK(rx) /\ ~Complete(rx)
      BY DEF IndInv, TypeOK
    <3>2. Expected(r) # End
      BY DEF Expected, HdrOf, FragOf, End
    <3> HIDE DEF d
    <3> QED
      BY <2>2, <3>1, <3>2, ReadExpected
  <2>3. CASE rx.at # "ph" /\ InStep(rx) /\ Failed(rx.ph) /\ d.part = "ph" /\ rx.ph.id < d.msg.id
    <3>1. RxOK(rx) /\ ~Complete(rx)
      BY DEF IndInv, TypeOK
    <3> HIDE DEF d
    <3> QED
      BY <1>4, <2>3, <3>1, ReadAnother
  <2>4. CASE rx.at # "ph" /\ Spoiled(rx) /\ Failed(rx.ph) /\ rx.ph.id < d.msg.id
    <3>1. RxOK(rx) /\ ~Complete(rx)
      BY DEF IndInv, TypeOK
    <3> HIDE DEF d
    <3> QED
      BY <1>4, <2>4, <3>1, ReadOn
  <2> QED
    BY <1>4, <1>5, <2>1, <2>2, <2>3, <2>4 DEF IndInv, RxInv
<1>14. Stream(2) # End => d.msg.id <= Stream(2).msg.id /\ Stream(2).msg.id \in Nat
  <2>1. Stream(2) # End => Stream(2).msg.id \in Nat
    BY StreamType
  <2>2. N \in Nat
    BY IndTypes
  <2> QED
    BY <1>4, <1>8, <2>1, <2>2, SuccessorType DEF Follows
<1>15. \A k \in DOMAIN delivered : /\ delivered[k].msg.id \in 1 .. N
                                   /\ delivered[k].msg.id < d.msg.id
                                   /\ rx.at # "ph" => delivered[k].msg.id < rx.ph.id
                                   /\ outcome[delivered[k].msg.id] # "sending"
  BY <1>4, <1>5 DEF IndInv, OrderInv, HistoryInv
<1>13. rx.at # "ph" => rx.ph.id \in 1 .. N
  BY DEF IndInv, OrderInv
<1> HIDE DEF r, d
<1>16. r # RxIdle => /\ r.ph.id \in 1 .. N
                     /\ \A k \in DOMAIN delivered : delivered[k].msg.id < r.ph.id
  <2>1. CASE r.ph = d.msg
    BY <1>4, <1>15, <2>1, Zenon
  <2>2. CASE r.ph = rx.ph /\ rx.at # "ph"
    BY <1>13, <1>15, <2>2, Zenon
  <2> QED
    BY <1>12, <2>1, <2>2, Zenon
<1>17. CASE ~Complete(r)
  <2>1. rx' = r /\ delivered' = delivered
    BY <1>17 DEF Take, r, d
  <2>2. RxInv'
    <3> SUFFICES ASSUME r.at # "ph"
                 PROVE \/ InStep(r) /\ Stream(2) = Expected(r)
                       \/ /\ InStep(r) /\ Failed(r.ph)
                          /\ Stream(2) = End \/ (Stream(2).part = "ph" /\ r.ph.id < Stream(2).msg.id)
                       \/ /\ Spoiled(r) /\ Failed(r.ph)
                          /\ Stream(2) = End \/ r.ph.id < Stream(2).msg.id
      BY <1>2, <1>7, <2>1 DEF RxInv, Failed, Expected, InStep, Spoiled
    <3>1. CASE r.ph = d.msg /\ InStep(r) /\ Successor(d) = Expected(r) /\ Expected(r) # End
      BY <1>8, <3>1 DEF Follows
    <3>2. CASE Spoiled(r) /\ Failed(r.ph) /\ r.ph.id < d.msg.id /\ r.at = "body"
      <4>1. r.ph.id \in Nat /\ d.msg.id \in Nat
        BY <1>4, <1>16, <3>2, IndTypes DEF RxIdle
      <4> QED
        BY <1>14, <3>2, <4>1
    <3> QED
      BY <1>12, <1>17, <3>1, <3>2 DEF RxIdle
  <2>3. OrderInv'
    <3>1. ASSUME NEW k \in DOMAIN delivered, Stream(2) # End
          PROVE  delivered[k].msg.id < Stream(2).msg.id
      <4>1. delivered[k].msg.id \in 1 .. N /\ delivered[k].msg.id < d.msg.id
        BY <1>15, <3>1, Zenon
      <4>2. d.msg.id \in 1 .. N /\ N \in Nat /\ d.msg.id <= Stream(2).msg.id
        BY <1>4, <1>14, <3>1, IndTypes
      <4> QED
        BY <1>14, <3>1, <4>1, <4>2
    <3>2. r.at # "ph" => r # RxIdle
      BY DEF RxIdle
    <3>3. rx'.at # "ph" => rx'.ph.id \in 1 .. Len(outcome')
      BY <1>2, <1>16, <2>1, <3>2
    <3>4. ASSUME NEW k \in DOMAIN delivered'
          PROVE  /\ delivered'[k].msg.id \in 1 .. Len(outcome')
                 /\ rx'.at # "ph" => delivered'[k].msg.id < rx'.ph.id
                 /\ Stream(1)' # End => delivered'[k].msg.id < Stream(1)'.msg.id
      <4>1. k \in DOMAIN delivered /\ delivered'[k] = delivered[k] /\ Len(outcome') = N
        BY <1>2, <2>1, <3>4
      <4> QED
        BY <1>7, <1>15, <1>16, <2>1, <3>1, <3>2, <4>1, Zenon
    <3> QED
      BY <3>3, <3>4 DEF OrderInv
  <2>4. HistoryInv' /\ Intact' /\ OnlySentIsReceived'
    BY <1>2, <1>10, <2>1 DEF IndInv, HistoryInv, Intact, OnlySentIsReceived
  <2> QED
    BY <1>1, <1>2, <1>9, <1>11, <2>1, <2>2, <2>3, <2>4 DEF IndInv, DeliveredSeq, InOrder
<1>18. CASE Complete(r)
  <2> DEFINE p == Received(r)
             K == Len(delivered)
             S == {delivered[i] : i \in DOMAIN delivered} \cup {p}
  <2>1. rx' = RxIdle /\ delivered' = Append(delivered, p)
    BY <1>18 DEF Take, r, d
  <2>2. /\ p.msg.id \in 1 .. N /\ \A k \in DOMAIN delivered : delivered[k].msg.id < p.msg.id
        /\ outcome[p.msg.id] # "sending" /\ (IsWhole(p) <=> outcome[p.msg.id] = "ok")
        /\ Stream(2) # End => p.msg.id < Stream(2).msg.id
    <3>1. r # RxIdle /\ p.msg = r.ph
      BY <1>18 DEF Complete, Received, RxIdle
    <3>2. CASE r.ph = d.msg /\ Successor(d) = End /\ IsWhole(Received(r))
      BY <1>4, <1>8, <1>16, <3>1, <3>2 DEF Follows
    <3>3. CASE r.at = "body" /\ Spoiled(r) /\ Failed(r.ph) /\ r.ph.id < d.msg.id
      <4>1. ~IsWhole(p)
        <5>1. RxOK(r)
          <6>1. RxOK(rx) /\ ~Complete(rx)
            BY DEF IndInv, TypeOK
          <6> QED
            BY <1>4, <6>1, RxNextType DEF r
        <5> QED
          BY <1>18, <3>3, <5>1, SpoiledIsNotWhole
      <4>2. Stream(2) # End => r.ph.id < Stream(2).msg.id
        BY <1>4, <1>14, <1>16, <3>1, <3>3, IndTypes
      <4> QED
        BY <1>16, <3>1, <3>3, <4>1, <4>2 DEF Failed
    <3> QED
      BY <1>12, <1>18, <3>1, <3>2, <3>3
  <2> HIDE DEF p
  <2>3. delivered \in Seq(S)
    BY DEF IndInv, DeliveredSeq
  <2>4. /\ K \in Nat /\ Len(delivered') = K + 1
        /\ DOMAIN delivered = 1 .. K /\ DOMAIN delivered' = 1 .. K + 1
        /\ delivered'[K + 1] = p
        /\ \A k \in 1 .. K : delivered'[k] = delivered[k]
        /\ delivered' \in Seq(S)
    BY <2>1, <2>3, AppendProperties
  <2>5. DeliveredSeq'
    <3>1. S = {delivered'[i] : i \in DOMAIN delivered'}
      BY <2>4
    <3> QED
      BY <2>4, <3>1 DEF DeliveredSeq
  <2>6. Intact' /\ OnlySentIsReceived'
    <3>1. Intact /\ OnlySentIsReceived
      BY DEF IndInv
    <3>2. Intact'
      BY <1>2, <2>2, <2>4, <3>1 DEF Intact
    <3>3. OnlySentIsReceived'
      BY <1>2, <2>2, <2>4, <3>1 DEF OnlySentIsReceived
    <3> QED
      BY <3>2, <3>3
  <2>7. HistoryInv'
    <3>1. ASSUME NEW k \in DOMAIN delivered' PROVE outcome'[delivered'[k].msg.id] # "sending"
      <4>1. CASE k = K + 1
        BY <1>2, <2>2, <2>4, <4>1, Zenon
      <4>2. CASE k # K + 1
        <5>1. k \in DOMAIN delivered /\ delivered'[k] = delivered[k]
          BY <2>4, <3>1, <4>2
        <5> QED
          BY <1>2, <1>15, <5>1, Zenon
      <4> QED
        BY <4>1, <4>2
    <3>2. Len(outcome') = N
      BY <1>2
    <3> QED
      BY <1>2, <1>10, <3>1, <3>2 DEF HistoryInv
  <2>8. InOrder'
    <3> SUFFICES ASSUME NEW i \in 1 .. K + 1, NEW j \in 1 .. K + 1, i < j
                 PROVE  delivered'[i].msg.id < delivered'[j].msg.id
      BY <2>4 DEF InOrder
    <3>1. CASE j = K + 1
      <4>1. i \in 1 .. K
        BY <2>4, <3>1
      <4>2. delivered'[i] = delivered[i] /\ i \in DOMAIN delivered
        BY <2>4, <4>1
      <4>3. delivered[i].msg.id < p.msg.id
        BY <2>2, <4>2, Zenon
      <4> QED
        BY <2>4, <3>1, <4>2, <4>3, Zenon
    <3>2. CASE j # K + 1
      <4>1. i \in 1 .. K /\ j \in 1 .. K
        BY <2>4, <3>2
      <4>2. delivered'[i] = delivered[i] /\ delivered'[j] = delivered[j]
        BY <2>4, <4>1
      <4>3. i \in DOMAIN delivered /\ j \in DOMAIN delivered
        BY <2>4, <4>1
      <4>4. delivered[i].msg.id < delivered[j].msg.id
        BY <4>3 DEF InOrder, IndInv
      <4> QED
        BY <4>2, <4>4, Zenon
    <3> QED
      BY <3>1, <3>2
  <2>9. RxInv'
    BY <2>1 DEF RxInv, RxIdle
  <2>10. OrderInv'
    <3>1. ASSUME NEW k \in 1 .. K + 1
          PROVE  /\ delivered'[k].msg.id \in 1 .. N
                 /\ Stream(2) # End => delivered'[k].msg.id < Stream(2).msg.id
      <4>1. CASE k = K + 1
        BY <2>2, <2>4, <4>1
      <4>2. CASE k # K + 1
        <5>1. /\ delivered'[k] = delivered[k] /\ delivered[k].msg.id \in 1 .. N
              /\ delivered[k].msg.id < d.msg.id
          BY <1>15, <2>4, <4>2
        <5>2. delivered[k].msg.id \in Nat /\ d.msg.id \in Nat
          <6>1. d.msg.id \in 1 .. N /\ N \in Nat
            BY <1>4, IndTypes
          <6> QED
            BY <5>1, <6>1
        <5>3. Stream(2) # End => delivered[k].msg.id < Stream(2).msg.id
          BY <1>14, <5>1, <5>2
        <5> QED
          BY <5>1, <5>3
      <4> QED
        BY <4>1, <4>2
    <3>2. rx'.at = "ph"
      BY <2>1 DEF RxIdle
    <3> QED
      BY <1>2, <1>7, <2>4, <3>1, <3>2 DEF OrderInv
  <2> QED
    BY <1>1, <1>9, <1>11, <2>5, <2>6, <2>7, <2>8, <2>9, <2>10 DEF IndInv
<1> QED
  BY <1>17, <1>18

\* Steps that leave the senders' message, the queue, the history and what was
\* received alone, and at most give the message under reception up.
LEMMA ReceiverResetInd ==
    ASSUME IndInv, TypeOK',
           UNCHANGED <<mutex, tx, queue, outcome, delivered>>,
           rx' = rx \/ rx' = RxIdle,
           bound' \/ (UNCHANGED bound /\ rx' = rx)
    PROVE  IndInv'
<1>1. BoundInv'
  BY DEF IndInv, BoundInv
<1>2. Stream(1)' = Stream(1) /\ \A i \in Nat : Stream(i)' = Stream(i)
  BY SameStream
<1>3. RxInv' /\ OrderInv'
  <2>1. CASE rx' = rx
    BY <1>2, <2>1 DEF IndInv, RxInv, Failed, Expected, InStep, Spoiled, OrderInv
  <2>2. CASE rx' = RxIdle
    BY <1>2, <2>2 DEF IndInv, RxInv, RxIdle, OrderInv
  <2> QED
    BY <2>1, <2>2
<1>4. StreamInv'
  BY <1>2 DEF IndInv, StreamInv, Follows, Failed, Stream, Pending
<1> QED
  BY <1>1, <1>3, <1>4
     DEF IndInv, DeliveredSeq, LockInv, HistoryInv, Intact, InOrder, OnlySentIsReceived

\* A close empties the queue: what a Send under way still transmits is of a
\* message that was not received.
LEMMA RxCloseInd == ASSUME IndInv, RxClose PROVE IndInv'
<1> DEFINE N == Len(outcome)
<1>1. TypeOK'
  BY RxCloseType DEF IndInv
<1>2. /\ UNCHANGED <<mutex, tx, outcome, delivered>>
      /\ queue' = <<>> /\ Len(queue') = 0 /\ rx' = RxIdle /\ rx'.at = "ph"
  BY DEF RxClose, sender, RxIdle
<1>3. Stream(1)' = Pending
  BY <1>2 DEF Stream, Pending
<1>4. Pending # End => Pending.msg.id = N /\ outcome[N] = "sending"
  BY DEF IndInv, HistoryInv, Pending
<1>5. OrderInv'
  <2>1. ASSUME NEW k \in DOMAIN delivered, Pending # End
        PROVE  delivered[k].msg.id < Pending.msg.id
    <3>1. delivered[k].msg.id \in 1 .. N /\ delivered[k].msg.id # N
      BY <1>4, <2>1 DEF IndInv, OrderInv, HistoryInv
    <3> QED
      BY <1>4, <2>1, <3>1, IndTypes
  <2> QED
    BY <1>2, <1>3, <2>1 DEF IndInv, OrderInv
<1>6. StreamInv' /\ HistoryInv' /\ RxInv' /\ BoundInv' /\ LockInv'
  BY <1>2 DEF IndInv, StreamInv, HistoryInv, RxInv, BoundInv, LockInv, RxIdle
<1> QED
  BY <1>1, <1>2, <1>5, <1>6
     DEF IndInv, DeliveredSeq, Intact, InOrder, OnlySentIsReceived

LEMMA StepInd == ASSUME IndInv, [Next]_vars PROVE IndInv'
<1>0. TypeOK'
  BY StepType DEF IndInv
<1>1. ASSUME NEW t \in Senders, NEW h \in HdrLens, NEW s \in Sizes,
             BeginSend(t, h, s)
      PROVE  IndInv'
  BY <1>1, BeginSendInd
<1>2. ASSUME NEW h \in HdrLens, NEW s \in Sizes, RefuseSend(h, s)
      PROVE  IndInv'
  BY <1>2, RefuseSendInd
<1>3. ASSUME NEW t \in Senders, Transmit(t)
      PROVE  IndInv'
  BY <1>3, TransmitInd
<1>4. ASSUME NEW t \in Senders, TransmitFails(t)
      PROVE  IndInv'
  BY <1>4, TransmitFailsInd
<1>5. ASSUME NEW l \in Limits, SetTxLimit(l) \/ SetRxLimit(l)
      PROVE  IndInv'
  BY <1>0, <1>5, ReceiverResetInd DEF SetTxLimit, SetRxLimit, sender, receiver
<1>6. CASE Take
  BY <1>6, TakeInd
<1>7. CASE RxClose
  BY <1>7, RxCloseInd
<1>8. CASE RxOpen
  BY <1>0, <1>8, ReceiverResetInd DEF RxOpen, sender
<1>9. CASE RxRestart
  BY <1>0, <1>9, ReceiverResetInd DEF RxRestart, sender
<1>10. CASE TxClose \/ TxOpen
  BY <1>0, <1>10, ReceiverResetInd DEF TxClose, TxOpen, receiver
<1>11. CASE UNCHANGED vars
  BY <1>0, <1>11, ReceiverResetInd DEF vars, sender, receiver
<1> QED
  BY <1>1, <1>2, <1>3, <1>4, <1>5, <1>6, <1>7, <1>8, <1>9, <1>10, <1>11 DEF Next

THEOREM Invariance == Spec => []IndInv
  BY InitInd, StepInd, PTL DEF Spec

\* A message whose Send succeeded is received whole or not at all, although
\* sending threads interleave, earlier Sends have failed half way, and either
\* end closes, reopens, restarts and refuses messages in the middle of others.
THEOREM MessagesAreIntact == Spec => []Intact
<1>1. IndInv => Intact
  BY DEF IndInv
<1> QED
  BY <1>1, Invariance, PTL

\* Messages are received in the order of the calls of Send, none twice.
THEOREM MessagesAreInOrder == Spec => []InOrder
<1>1. IndInv => InOrder
  BY DEF IndInv
<1> QED
  BY <1>1, Invariance, PTL

\* A message whose Send failed, wherever, or is still running has not been
\* received as it was sent.
THEOREM FailedSendsAreNotReceived == Spec => []OnlySentIsReceived
<1>1. IndInv => OnlySentIsReceived
  BY DEF IndInv
<1> QED
  BY <1>1, Invariance, PTL

\* Whoever is inside Send holds m_mutex, and the datagrams in flight are those
\* of messages in order, each whole unless its Send has failed: the argument
\* behind the theorems above.
THEOREM DatagramsInFlight == Spec => []InFlight
<1>1. IndInv => InFlight
  BY DEF IndInv, InFlight
<1> QED
  BY <1>1, Invariance, PTL

-----------------------------------------------------------------------------
(* Every message is accounted for, and leaves InPipe as a FIFO does: the    *)
(* protocol headers stand for the messages, in order.                       *)

IsPh(d) == d.part = "ph"
PhIds(q) == {q[i].msg.id : i \in {j \in 1 .. Len(q) : IsPh(q[j])}}

\* The messages of which something has reached the receiver's queue.
Gone == lost \cup swallowed
Accounted == InPipe \cup DeliveredIds \cup Gone

FailedIds == {n \in DOMAIN outcome : outcome[n] = "error"}

\* They are those sent, the one inside Send among them once its protocol
\* header is.
AccountInv ==
    /\ Accounted \subseteq 1 .. Len(outcome)
    /\ mutex # Nobody => (IsPh(tx[mutex]) <=> Len(outcome) \notin Accounted)
    /\ \A n \in DOMAIN outcome : outcome[n] = "ok" => n \in Accounted

\* The message under reception is older than those in the queue, and these
\* are in order.
SortedInv ==
    /\ \A i, j \in 1 .. Len(queue) :
          i < j /\ IsPh(queue[i]) /\ IsPh(queue[j]) => queue[i].msg.id < queue[j].msg.id
    /\ rx.at # "ph" => \A n \in PhIds(queue) : rx.ph.id < n

\* A message that was swallowed comes before all that are still to be read, and
\* there is a failed one in its place; the message under reception begins after
\* it, or has failed too.
SwallowInv ==
    \A n \in swallowed :
        /\ \A k \in PhIds(queue) : n < k
        /\ rx.at # "ph" => n < rx.ph.id \/ (rx.ph.id < n /\ Failed(rx.ph))
        /\ \E h \in DOMAIN outcome : StandsFor(h, n)

FlowInv == AccountInv /\ SortedInv /\ SwallowInv

LEMMA PipeIs == InPipe = Begun(rx) \cup PhIds(queue)
  BY DEF InPipe, PhIds, IsPh

LEMMA AppendPhs ==
    ASSUME NEW q \in Seq(Datagram), NEW d \in Datagram
    PROVE  PhIds(Append(q, d)) = PhIds(q) \cup (IF IsPh(d) THEN {d.msg.id} ELSE {})
<1> DEFINE t == Append(q, d)
<1>1. /\ Len(q) \in Nat /\ Len(t) = Len(q) + 1 /\ t[Len(q) + 1] = d
      /\ \A i \in 1 .. Len(q) : t[i] = q[i]
  BY AppendProperties
<1> HIDE DEF t
<1>2. \A n : n \in PhIds(t) <=> \E i \in 1 .. Len(q) + 1 : IsPh(t[i]) /\ t[i].msg.id = n
  BY <1>1 DEF PhIds
<1>3. \A n : n \in PhIds(q) <=> \E i \in 1 .. Len(q) : IsPh(q[i]) /\ q[i].msg.id = n
  BY DEF PhIds
<1>4. \A n : n \in PhIds(t) <=> n \in PhIds(q) \/ (IsPh(d) /\ n = d.msg.id)
  BY <1>1, <1>2, <1>3
<1> QED
  BY <1>4 DEF t

LEMMA TailPhs ==
    ASSUME IndInv, SortedInv, queue # <<>>
    PROVE  /\ ~IsPh(Head(queue)) => PhIds(Tail(queue)) = PhIds(queue)
           /\ IsPh(Head(queue)) =>
                 /\ Head(queue).msg.id \in PhIds(queue)
                 /\ PhIds(Tail(queue)) = PhIds(queue) \ {Head(queue).msg.id}
                 /\ \A n \in PhIds(Tail(queue)) : Head(queue).msg.id < n
<1> DEFINE d == Head(queue)
           q == Tail(queue)
<1>1. /\ Len(queue) \in Nat \ {0} /\ d = queue[1] /\ Len(q) = Len(queue) - 1
      /\ \A i \in 1 .. Len(queue) - 1 : q[i] = queue[i + 1]
  BY HeadTailProperties DEF IndInv, TypeOK
<1>2. \A i \in 1 .. Len(queue) : queue[i].msg.id \in Nat
  BY IndTypes
<1> HIDE DEF d, q
<1>3. \A n : n \in PhIds(queue) <=> \E i \in 1 .. Len(queue) : IsPh(queue[i]) /\ queue[i].msg.id = n
  BY DEF PhIds
<1>4. \A n : n \in PhIds(q) <=>
                \E i \in 1 .. Len(queue) - 1 : IsPh(queue[i + 1]) /\ queue[i + 1].msg.id = n
  BY <1>1 DEF PhIds
<1>5. \A n : n \in PhIds(q) <=> \E j \in 2 .. Len(queue) : IsPh(queue[j]) /\ queue[j].msg.id = n
  <2> TAKE n
  <2>1. \A j \in 2 .. Len(queue) : j - 1 \in 1 .. Len(queue) - 1 /\ (j - 1) + 1 = j
    BY <1>1
  <2>2. \A i \in 1 .. Len(queue) - 1 : i + 1 \in 2 .. Len(queue)
    BY <1>1
  <2> QED
    BY <1>4, <2>1, <2>2
<1>6. \A j : j \in 1 .. Len(queue) <=> j = 1 \/ j \in 2 .. Len(queue)
  BY <1>1
<1>7. \A n : n \in PhIds(queue) <=> n \in PhIds(q) \/ (IsPh(d) /\ n = d.msg.id)
  BY <1>1, <1>3, <1>5, <1>6
<1>8. ASSUME IsPh(d), NEW n \in PhIds(q) PROVE d.msg.id < n /\ n # d.msg.id
  <2>1. PICK j \in 2 .. Len(queue) : IsPh(queue[j]) /\ queue[j].msg.id = n
    BY <1>5, <1>8
  <2>2. 1 \in 1 .. Len(queue) /\ j \in 1 .. Len(queue) /\ 1 < j
    BY <1>1, <2>1
  <2> QED
    BY <1>1, <1>2, <1>8, <2>1, <2>2 DEF SortedInv
<1>9. CASE ~IsPh(d)
  BY <1>7, <1>9 DEF d, q
<1>10. CASE IsPh(d)
  <2>1. PhIds(q) = PhIds(queue) \ {d.msg.id}
    BY <1>7, <1>8, <1>10
  <2>2. d.msg.id \in PhIds(queue) /\ \A n \in PhIds(q) : d.msg.id < n
    BY <1>7, <1>8, <1>10
  <2> QED
    BY <1>10, <2>1, <2>2 DEF d, q
<1> QED
  BY <1>9, <1>10 DEF d, q

LEMMA BegunIs ==
    ASSUME IndInv
    PROVE  /\ rx.at = "ph" => rx = RxIdle /\ Begun(rx) = {}
           /\ rx.at # "ph" => rx # RxIdle /\ Begun(rx) = {rx.ph.id}
           /\ Begun(RxIdle) = {}
<1>1. rx.at = "ph" => rx = RxIdle
  BY DEF IndInv, TypeOK, RxOK
<1>2. RxIdle.at = "ph"
  BY DEF RxIdle
<1>3. Begun(RxIdle) = {}
  BY <1>2 DEF Begun
<1>4. rx.at # "ph" => Begun(rx) = {rx.ph.id}
  BY DEF Begun
<1> QED
  BY <1>1, <1>2, <1>3, <1>4

\* What one read does: the message under reception begins, is refused, goes on
\* or is complete.  What begins another message, read as a part of this one, is
\* swallowed; the Send of this one has failed then.
LEMMA TakeIs ==
    ASSUME IndInv, Take
    PROVE  LET d == Head(queue)
           IN /\ queue # <<>> /\ d \in Datagram /\ queue' = Tail(queue)
              /\ UNCHANGED <<mutex, tx, outcome>>
              /\ \/ /\ rx.at = "ph" /\ ~IsPh(d)
                    /\ rx' = rx /\ UNCHANGED <<delivered, lost, swallowed>>
                 \/ /\ rx.at = "ph" /\ IsPh(d)
                    /\ rx' = [at |-> "hdr", ph |-> d.msg]
                    /\ UNCHANGED <<delivered, lost, swallowed>>
                 \/ /\ rx.at = "ph" /\ IsPh(d) /\ rx' = rx
                    /\ lost' = lost \cup {d.msg.id} /\ UNCHANGED <<delivered, swallowed>>
                 \/ /\ rx.at # "ph" /\ lost' = lost
                    /\ swallowed' = swallowed \cup PhId(d)
                    /\ IsPh(d) => Failed(rx.ph) /\ rx.ph.id < d.msg.id
                    /\ \/ rx'.at # "ph" /\ rx'.ph = rx.ph /\ UNCHANGED delivered
                       \/ /\ rx' = RxIdle
                          /\ \E p : delivered' = Append(delivered, p) /\ p.msg = rx.ph
<1> DEFINE d == Head(queue)
           r == RxNext(rx, d, rxLimit)
<1>1. /\ queue # <<>> /\ queue' = Tail(queue) /\ UNCHANGED <<mutex, tx, outcome>>
      /\ IF Complete(r)
         THEN rx' = RxIdle /\ delivered' = Append(delivered, Received(r))
         ELSE rx' = r /\ UNCHANGED delivered
      /\ lost' = IF r = RxIdle THEN lost \cup Begun(rx) \cup PhId(d) ELSE lost
      /\ swallowed' = IF rx.at = "ph" THEN swallowed ELSE swallowed \cup PhId(d)
  BY DEF Take, RxFails, sender
<1>2. /\ Len(queue) \in Nat \ {0} /\ d = queue[1]
  BY <1>1, HeadTailProperties DEF IndInv, TypeOK
<1>3. d \in Datagram /\ Stream(1) = d /\ d # End
  BY <1>2, IndTypes DEF Stream
<1>4. PhId(d) = IF IsPh(d) THEN {d.msg.id} ELSE {}
  BY DEF PhId, IsPh
<1> HIDE DEF d
<1>5. CASE rx.at = "ph"
  <2>1. r = RxIdle \/ (IsPh(d) /\ r = [at |-> "hdr", ph |-> d.msg])
    BY <1>5 DEF RxNext, AcceptsPh, IsPh
  <2>2. rx = RxIdle /\ Begun(rx) = {}
    BY <1>5, BegunIs
  <2> HIDE DEF r
  <2>3. ~Complete(r) /\ [at |-> "hdr", ph |-> d.msg] # RxIdle
    BY <2>1 DEF RxIdle, Complete
  <2>4. rx' = r /\ UNCHANGED <<delivered, swallowed>>
    BY <1>1, <1>5, <2>3
  <2>5. CASE r = RxIdle
    <3>1. lost' = lost \cup (IF IsPh(d) THEN {d.msg.id} ELSE {})
      BY <1>1, <1>4, <2>2, <2>5
    <3> QED
      BY <1>1, <1>3, <1>5, <2>2, <2>4, <2>5, <3>1 DEF d
  <2>6. CASE r # RxIdle
    <3>1. lost' = lost /\ IsPh(d) /\ r = [at |-> "hdr", ph |-> d.msg]
      BY <1>1, <2>1, <2>6
    <3> QED
      BY <1>1, <1>3, <1>5, <2>4, <3>1 DEF d
  <2> QED
    BY <2>5, <2>6
<1>6. CASE rx.at # "ph"
  <2>1. RxOK(rx) /\ ~Complete(rx)
    BY DEF IndInv, TypeOK
  <2>2. r.at = "body" /\ r.ph = rx.ph /\ (IsPh(d) => Failed(rx.ph) /\ rx.ph.id < d.msg.id)
    <3>1. CASE InStep(rx) /\ d = Expected(rx)
      <4>1. ~IsPh(d)
        BY <3>1 DEF Expected, HdrOf, FragOf, IsPh
      <4> QED
        BY <1>6, <2>1, <3>1, <4>1, ReadExpected
    <3>2. CASE InStep(rx) /\ Failed(rx.ph) /\ IsPh(d) /\ rx.ph.id < d.msg.id
      BY <1>3, <1>6, <2>1, <3>2, ReadAnother DEF IsPh
    <3>3. CASE Spoiled(rx) /\ Failed(rx.ph) /\ rx.ph.id < d.msg.id
      BY <1>3, <2>1, <3>3, ReadOn
    <3> QED
      BY <1>3, <1>6, <3>1, <3>2, <3>3 DEF IndInv, RxInv, IsPh
  <2> HIDE DEF r
  <2>3. r # RxIdle
    BY <2>2 DEF RxIdle
  <2>4. lost' = lost /\ swallowed' = swallowed \cup PhId(d)
    BY <1>1, <1>6, <2>3
  <2>5. CASE Complete(r)
    <3>1. rx' = RxIdle /\ delivered' = Append(delivered, Received(r)) /\ Received(r).msg = rx.ph
      BY <1>1, <2>2, <2>5 DEF Received
    <3> QED
      BY <1>1, <1>3, <1>6, <2>2, <2>4, <3>1 DEF d
  <2>6. CASE ~Complete(r)
    BY <1>1, <1>3, <1>6, <2>2, <2>4, <2>6 DEF d
  <2> QED
    BY <2>5, <2>6
<1> QED
  BY <1>5, <1>6

\* The numbers of the messages received, as MsgChannel sees them.
Ids == [i \in DOMAIN delivered |-> delivered[i].msg.id]

LEMMA AppendIds ==
    ASSUME IndInv, NEW p, delivered' = Append(delivered, p)
    PROVE  Ids' = Append(Ids, p.msg.id) /\ DeliveredIds' = DeliveredIds \cup {p.msg.id}
<1> DEFINE K == Len(delivered)
           S == {delivered[i] : i \in DOMAIN delivered} \cup {p}
           T == {delivered[i].msg.id : i \in DOMAIN delivered} \cup {p.msg.id}
<1>1. delivered \in Seq(S) /\ p \in S
  BY DEF IndInv, DeliveredSeq
<1>2. /\ K \in Nat /\ DOMAIN delivered = 1 .. K /\ DOMAIN delivered' = 1 .. K + 1
      /\ delivered'[K + 1] = p /\ \A k \in 1 .. K : delivered'[k] = delivered[k]
  BY <1>1, AppendProperties
<1> HIDE DEF K, S
<1>3. DeliveredIds' = DeliveredIds \cup {p.msg.id}
  BY <1>2 DEF DeliveredIds
<1>4. Ids \in Seq(T) /\ Len(Ids) = K /\ p.msg.id \in T
  BY <1>2 DEF Ids
<1>5. Ids' \in Seq(T) /\ Len(Ids') = K + 1
  BY <1>2 DEF Ids
<1> HIDE DEF T
<1>6. /\ Append(Ids, p.msg.id) \in Seq(T) /\ Len(Append(Ids, p.msg.id)) = K + 1
      /\ Append(Ids, p.msg.id)[K + 1] = p.msg.id
      /\ \A i \in 1 .. K : Append(Ids, p.msg.id)[i] = Ids[i]
  BY <1>2, <1>4, AppendProperties
<1>7. \A i \in 1 .. K + 1 : Ids'[i] = IF i = K + 1 THEN p.msg.id ELSE Ids[i]
  BY <1>2 DEF Ids
<1>8. \A i \in 1 .. K + 1 : Ids'[i] = Append(Ids, p.msg.id)[i]
  BY <1>2, <1>6, <1>7
<1> QED
  BY <1>3, <1>5, <1>6, <1>8, SeqEqual

\* Nothing moves for MsgChannel.
Stutters == UNCHANGED <<InPipe, Ids, Gone>>

\* The message at the head leaves: it is received, or lost.
HeadLeaves ==
    \E n \in InPipe :
        /\ \A k \in InPipe : n <= k
        /\ InPipe' = InPipe \ {n}
        /\ \/ Ids' = Append(Ids, n) /\ Gone' = Gone /\ DeliveredIds' = DeliveredIds \cup {n}
           \/ Ids' = Ids /\ Gone' = Gone \cup {n} /\ DeliveredIds' = DeliveredIds

\* The message at the head, whose Send has failed, takes the next one with it
\* and stays, or is received.
HeadTakes ==
    \E n, k \in InPipe :
        /\ \A j \in InPipe : n <= j
        /\ n \in FailedIds /\ n < k /\ \A j \in InPipe : j <= n \/ k <= j
        /\ Gone' = Gone \cup {k}
        /\ \/ InPipe' = InPipe \ {k} /\ Ids' = Ids /\ DeliveredIds' = DeliveredIds
           \/ /\ InPipe' = InPipe \ {n, k} /\ Ids' = Append(Ids, n)
              /\ DeliveredIds' = DeliveredIds \cup {n}

LEMMA SameIds == ASSUME delivered' = delivered PROVE Ids' = Ids /\ DeliveredIds' = DeliveredIds
  BY DEF Ids, DeliveredIds

LEMMA PipeType ==
    ASSUME IndInv
    PROVE  /\ PhIds(queue) \subseteq 1 .. Len(outcome)
           /\ rx.at # "ph" => rx.ph.id \in 1 .. MaxMsgs
<1>1. PhIds(queue) \subseteq 1 .. Len(outcome)
  BY IndTypes DEF PhIds
<1>2. rx.at # "ph" => rx.ph.id \in 1 .. MaxMsgs
  BY BegunIs, BegunType, MessageType DEF IndInv, TypeOK
<1> QED
  BY <1>1, <1>2

\* One read moves at most the head of the FIFO, and the next message.
LEMMA TakeFlow ==
    ASSUME IndInv, FlowInv, Take
    PROVE  (Stutters \/ HeadLeaves \/ HeadTakes) /\ SortedInv'
<1> DEFINE d == Head(queue)
           n == d.msg.id
           m == rx.ph.id
<1>1. /\ queue # <<>> /\ d \in Datagram /\ queue' = Tail(queue)
      /\ UNCHANGED outcome
      /\ \/ /\ rx.at = "ph" /\ ~IsPh(d)
            /\ rx' = rx /\ UNCHANGED <<delivered, lost, swallowed>>
         \/ /\ rx.at = "ph" /\ IsPh(d)
            /\ rx' = [at |-> "hdr", ph |-> d.msg]
            /\ UNCHANGED <<delivered, lost, swallowed>>
         \/ /\ rx.at = "ph" /\ IsPh(d) /\ rx' = rx
            /\ lost' = lost \cup {n} /\ UNCHANGED <<delivered, swallowed>>
         \/ /\ rx.at # "ph" /\ lost' = lost
            /\ swallowed' = swallowed \cup PhId(d)
            /\ IsPh(d) => Failed(rx.ph) /\ m < n
            /\ \/ rx'.at # "ph" /\ rx'.ph = rx.ph /\ UNCHANGED delivered
               \/ /\ rx' = RxIdle
                  /\ \E p : delivered' = Append(delivered, p) /\ p.msg = rx.ph
  BY TakeIs
<1>2. /\ ~IsPh(d) => PhIds(queue') = PhIds(queue)
      /\ IsPh(d) => /\ n \in PhIds(queue) /\ PhIds(queue') = PhIds(queue) \ {n}
                    /\ \A k \in PhIds(queue') : n < k
  BY <1>1, TailPhs DEF FlowInv
<1>3. /\ InPipe = Begun(rx) \cup PhIds(queue) /\ InPipe' = Begun(rx') \cup PhIds(queue')
  <2>1. InPipe = Begun(rx) \cup PhIds(queue)
    BY PipeIs
  <2>2. InPipe' = Begun(rx') \cup PhIds(queue')
    BY DEF InPipe, PhIds, IsPh
  <2> QED
    BY <2>1, <2>2
<1>4. /\ PhIds(queue) \subseteq Nat
      /\ rx.at # "ph" => m \in Nat /\ m \in DOMAIN outcome
  BY PipeType DEF IndInv, OrderInv, TypeOK
<1>5. /\ rx.at = "ph" => rx = RxIdle /\ Begun(rx) = {}
      /\ rx.at # "ph" => Begun(rx) = {m}
      /\ Begun(RxIdle) = {} /\ RxIdle.at = "ph"
  BY BegunIs DEF RxIdle
<1>6. rx.at # "ph" => \A k \in PhIds(queue) : m < k
  BY DEF FlowInv, SortedInv
<1>7. \A i, j \in 1 .. Len(queue') :
          i < j /\ IsPh(queue'[i]) /\ IsPh(queue'[j]) => queue'[i].msg.id < queue'[j].msg.id
  <2>1. /\ Len(queue) \in Nat \ {0} /\ Len(queue') = Len(queue) - 1
        /\ \A i \in 1 .. Len(queue) - 1 : queue'[i] = queue[i + 1]
    BY <1>1, HeadTailProperties DEF IndInv, TypeOK
  <2> QED
    BY <2>1 DEF FlowInv, SortedInv
<1>8. (rx'.at # "ph" => \A k \in PhIds(queue') : rx'.ph.id < k) => SortedInv'
  BY <1>7, Zenon DEF SortedInv
<1>9. PhId(d) = IF IsPh(d) THEN {n} ELSE {}
  BY DEF PhId, IsPh
<1> HIDE DEF d, n
<1>10. CASE rx.at = "ph" /\ ~IsPh(d)
  <2>1. rx' = rx /\ UNCHANGED <<delivered, lost, swallowed>> /\ InPipe' = InPipe
    BY <1>1, <1>2, <1>3, <1>10
  <2> QED
    BY <1>8, <1>10, <2>1, SameIds DEF Stutters, Gone
<1>11. CASE /\ rx.at = "ph" /\ IsPh(d) /\ rx' = [at |-> "hdr", ph |-> d.msg]
            /\ UNCHANGED <<delivered, lost, swallowed>>
  <2>1. rx'.at # "ph" /\ rx'.ph.id = n /\ Begun(rx') = {n}
    BY <1>11 DEF Begun, n
  <2>2. InPipe' = InPipe
    BY <1>2, <1>3, <1>5, <1>11, <2>1
  <2> QED
    BY <1>2, <1>8, <1>11, <2>1, <2>2, SameIds DEF Stutters, Gone
<1>12. CASE /\ rx.at = "ph" /\ IsPh(d) /\ rx' = rx
            /\ lost' = lost \cup {n} /\ UNCHANGED <<delivered, swallowed>>
  <2>1. InPipe = PhIds(queue) /\ n \in InPipe /\ InPipe' = InPipe \ {n}
    BY <1>2, <1>3, <1>5, <1>12
  <2>2. \A k \in InPipe : n <= k
    BY <1>2, <1>4, <1>12, <2>1
  <2>3. Gone' = Gone \cup {n}
    BY <1>12 DEF Gone
  <2>4. HeadLeaves
    BY <1>12, <2>1, <2>2, <2>3, SameIds DEF HeadLeaves
  <2> QED
    BY <1>8, <1>12, <2>4
<1>13. CASE rx.at # "ph"
  <2>1. /\ lost' = lost /\ swallowed' = swallowed \cup PhId(d)
        /\ IsPh(d) => Failed(rx.ph) /\ m < n
    BY <1>1, <1>13
  <2>2. InPipe = {m} \cup PhIds(queue) /\ m \notin PhIds(queue)
    BY <1>3, <1>4, <1>5, <1>6, <1>13
  <2>3. \A k \in InPipe : m <= k
    BY <1>4, <1>6, <1>13, <2>2
  <2>4. IsPh(d) => /\ n \in InPipe /\ m \in FailedIds /\ m # n /\ Gone' = Gone \cup {n}
                   /\ \A k \in InPipe : k <= m \/ n <= k
    <3>1. IsPh(d) => n \in InPipe /\ m \in FailedIds /\ Gone' = Gone \cup {n}
      BY <1>2, <1>4, <1>9, <1>13, <2>1, <2>2 DEF Failed, FailedIds, Gone
    <3>2. ASSUME IsPh(d), NEW k \in InPipe PROVE k <= m \/ n <= k
      <4>1. k = m \/ k = n \/ k \in PhIds(queue')
        BY <1>2, <2>2, <3>2
      <4> QED
        BY <1>2, <1>4, <1>13, <3>2, <4>1
    <3>3. IsPh(d) => m # n
      BY <1>2, <2>2
    <3> QED
      BY <3>1, <3>2, <3>3
  <2>5. ~IsPh(d) => Gone' = Gone
    BY <1>9, <2>1 DEF Gone
  <2>6. CASE rx'.at # "ph" /\ rx'.ph = rx.ph /\ UNCHANGED delivered
    <3>1. Begun(rx') = {m} /\ rx'.ph.id = m
      BY <2>6 DEF Begun
    <3>2. SortedInv'
      BY <1>2, <1>6, <1>8, <1>13, <3>1
    <3>3. CASE ~IsPh(d)
      BY <1>2, <1>3, <2>2, <2>5, <2>6, <3>1, <3>2, <3>3, SameIds DEF Stutters
    <3>4. CASE IsPh(d)
      <4>1. InPipe' = InPipe \ {n}
        BY <1>2, <1>3, <2>2, <2>4, <3>1, <3>4
      <4> QED
        BY <2>1, <2>2, <2>3, <2>4, <2>6, <3>2, <3>4, <4>1, SameIds DEF HeadTakes
    <3> QED
      BY <3>3, <3>4
  <2>7. CASE rx' = RxIdle /\ \E p : delivered' = Append(delivered, p) /\ p.msg = rx.ph
    <3>1. Ids' = Append(Ids, m) /\ DeliveredIds' = DeliveredIds \cup {m}
      BY <2>7, AppendIds
    <3>2. SortedInv' /\ InPipe' = PhIds(queue')
      BY <1>3, <1>5, <1>8, <2>7
    <3>3. CASE ~IsPh(d)
      <4>1. InPipe' = InPipe \ {m}
        BY <1>2, <2>2, <3>2, <3>3
      <4> QED
        BY <2>2, <2>3, <2>5, <3>1, <3>2, <3>3, <4>1 DEF HeadLeaves
    <3>4. CASE IsPh(d)
      <4>1. InPipe' = InPipe \ {m, n}
        BY <1>2, <2>2, <3>2, <3>4
      <4> QED
        BY <2>1, <2>2, <2>3, <2>4, <3>1, <3>2, <3>4, <4>1 DEF HeadTakes
    <3> QED
      BY <3>3, <3>4
  <2> QED
    BY <1>1, <1>13, <2>6, <2>7
<1> QED
  BY <1>1, <1>10, <1>11, <1>12, <1>13 DEF n, d

\* All messages on their way are lost.
AllLost == InPipe # {} /\ InPipe' = {} /\ Gone' = Gone \cup InPipe /\ Ids' = Ids

\* The message inside Send enters behind all others.
Enters ==
    /\ \A k \in Accounted \cup FailedIds : k < Len(outcome)
    /\ Len(outcome) \in 1 .. MaxMsgs
    /\ InPipe' = InPipe \cup {Len(outcome)}
    /\ UNCHANGED <<Ids, Gone>>

LEMMA IdsAre == DeliveredIds = {Ids[i] : i \in DOMAIN Ids}
  BY DEF DeliveredIds, Ids

LEMMA SameDeliveredIds == ASSUME Ids' = Ids PROVE DeliveredIds' = DeliveredIds
<1>1. DeliveredIds' = {Ids'[i] : i \in DOMAIN Ids'}
  BY DEF DeliveredIds, Ids
<1> QED
  BY <1>1, IdsAre

\* The receiver's steps leave the account as it is.
LEMMA ReceiverFlow ==
    ASSUME AccountInv, UNCHANGED <<mutex, tx, outcome>>,
           Stutters \/ HeadLeaves \/ HeadTakes \/ AllLost
    PROVE  AccountInv'
<1>1. Accounted' = Accounted
  <2>1. CASE Stutters
    BY <2>1, SameDeliveredIds DEF Stutters, Accounted
  <2>2. CASE HeadLeaves
    BY <2>2 DEF HeadLeaves, Accounted
  <2>3. CASE HeadTakes
    BY <2>3 DEF HeadTakes, Accounted
  <2>4. CASE AllLost
    BY <2>4, SameDeliveredIds DEF AllLost, Accounted
  <2> QED
    BY <2>1, <2>2, <2>3, <2>4
<1> QED
  BY <1>1 DEF AccountInv, IsPh

\* What has been swallowed stays behind its message, unless a step receives.
LEMMA SwallowKept ==
    ASSUME IndInv, SwallowInv, UNCHANGED <<delivered, swallowed>>,
           \A n \in swallowed : \A k \in PhIds(queue') : n < k,
           \A i \in DOMAIN outcome :
              i \in DOMAIN outcome' /\ (outcome[i] = "error" => outcome'[i] = "error"),
           rx' = rx \/ rx' = RxIdle,
           Begun(rx) \cup lost \subseteq Begun(rx') \cup lost'
    PROVE  SwallowInv'
<1> SUFFICES ASSUME NEW n \in swallowed
             PROVE  /\ rx'.at # "ph" => n < rx'.ph.id \/ (rx'.ph.id < n /\ Failed(rx.ph)')
                    /\ \E h \in DOMAIN outcome' : StandsFor(h, n)'
  BY DEF SwallowInv, Failed
<1>1. rx.at # "ph" => rx.ph.id \in DOMAIN outcome
  BY DEF IndInv, OrderInv, TypeOK
<1>2. rx'.at # "ph" => n < rx'.ph.id \/ (rx'.ph.id < n /\ Failed(rx.ph)')
  BY <1>1 DEF SwallowInv, Failed, RxIdle
<1>3. PICK h \in DOMAIN outcome : StandsFor(h, n)
  BY DEF SwallowInv
<1>4. DeliveredIds' = DeliveredIds
  BY SameIds
<1>5. StandsFor(h, n)'
  BY <1>3, <1>4 DEF StandsFor
<1> QED
  BY <1>2, <1>3, <1>5

\* What is swallowed, or received, leaves a failed message in the place of those
\* that were swallowed behind it.
LEMMA SwallowTake == ASSUME IndInv, FlowInv, Take PROVE SwallowInv'
<1> DEFINE d == Head(queue)
           m == rx.ph.id
<1>1. /\ queue # <<>> /\ d \in Datagram /\ queue' = Tail(queue)
      /\ UNCHANGED outcome
      /\ \/ /\ rx.at = "ph" /\ ~IsPh(d)
            /\ rx' = rx /\ UNCHANGED <<delivered, lost, swallowed>>
         \/ /\ rx.at = "ph" /\ IsPh(d)
            /\ rx' = [at |-> "hdr", ph |-> d.msg]
            /\ UNCHANGED <<delivered, lost, swallowed>>
         \/ /\ rx.at = "ph" /\ IsPh(d) /\ rx' = rx
            /\ lost' = lost \cup {d.msg.id} /\ UNCHANGED <<delivered, swallowed>>
         \/ /\ rx.at # "ph" /\ lost' = lost
            /\ swallowed' = swallowed \cup PhId(d)
            /\ IsPh(d) => Failed(rx.ph) /\ m < d.msg.id
            /\ \/ rx'.at # "ph" /\ rx'.ph = rx.ph /\ UNCHANGED delivered
               \/ /\ rx' = RxIdle
                  /\ \E p : delivered' = Append(delivered, p) /\ p.msg = rx.ph
  BY TakeIs
<1>2. /\ ~IsPh(d) => PhIds(queue') = PhIds(queue)
      /\ IsPh(d) => /\ d.msg.id \in PhIds(queue) /\ PhIds(queue') = PhIds(queue) \ {d.msg.id}
                    /\ \A k \in PhIds(queue') : d.msg.id < k
  BY <1>1, TailPhs DEF FlowInv
<1>3. PhId(d) = IF IsPh(d) THEN {d.msg.id} ELSE {}
  BY DEF PhId, IsPh
<1>4. SwallowInv
  BY DEF FlowInv
<1>5. \A n \in swallowed : \A k \in PhIds(queue) : n < k
  BY <1>4 DEF SwallowInv
<1> HIDE DEF d
<1>6. \A n \in swallowed' : \A k \in PhIds(queue') : n < k
  BY <1>1, <1>2, <1>3, <1>5
<1>7. CASE rx' = rx /\ UNCHANGED <<delivered, swallowed>> /\ lost \subseteq lost'
  BY <1>1, <1>4, <1>6, <1>7, SwallowKept
<1>8. CASE /\ rx.at = "ph" /\ IsPh(d) /\ rx' = [at |-> "hdr", ph |-> d.msg]
           /\ UNCHANGED <<delivered, lost, swallowed>>
  <2>1. rx'.ph.id = d.msg.id /\ Begun(rx) = {}
    BY <1>8, BegunIs
  <2>2. ASSUME NEW n \in swallowed
        PROVE  n < rx'.ph.id /\ \E h \in DOMAIN outcome : StandsFor(h, n)'
    <3>1. PICK h \in DOMAIN outcome : StandsFor(h, n)
      BY <1>4 DEF SwallowInv
    <3>2. StandsFor(h, n)'
      BY <1>1, <1>8, <2>1, <3>1, SameIds DEF StandsFor
    <3> QED
      BY <1>2, <1>5, <1>8, <2>1, <3>2
  <2> QED
    BY <1>1, <1>6, <1>8, <2>2, Zenon DEF SwallowInv
<1>9. CASE rx.at # "ph"
  <2>1. /\ lost' = lost /\ swallowed' = swallowed \cup PhId(d)
        /\ IsPh(d) => Failed(rx.ph) /\ m < d.msg.id
        /\ \/ rx'.at # "ph" /\ rx'.ph = rx.ph /\ UNCHANGED delivered
           \/ /\ rx' = RxIdle
              /\ \E p : delivered' = Append(delivered, p) /\ p.msg = rx.ph
    BY <1>1, <1>9
  <2>2. /\ m \in DOMAIN outcome /\ m \in Nat
        /\ \A k \in DeliveredIds : k \in Nat /\ k < m
        /\ Begun(rx) = {m}
    BY <1>9, IndTypes, BegunIs DEF IndInv, OrderInv, TypeOK, DeliveredIds
  <2>3. ASSUME NEW n \in swallowed'
        PROVE  n \in Nat /\ (n < m \/ (m < n /\ Failed(rx.ph)))
    <3>1. n \in Nat
      BY <2>3, TakeType DEF IndInv, TypeOK
    <3> QED
      BY <1>3, <1>4, <1>9, <2>1, <2>3, <3>1 DEF SwallowInv
  <2>4. DeliveredIds' \subseteq DeliveredIds \cup {m}
    <3>1. CASE UNCHANGED delivered
      BY <3>1, SameIds
    <3>2. CASE \E p : delivered' = Append(delivered, p) /\ p.msg = rx.ph
      BY <3>2, AppendIds
    <3> QED
      BY <2>1, <3>1, <3>2
  <2>5. m \in Begun(rx') \cup DeliveredIds' \cup lost' /\ DeliveredIds \subseteq DeliveredIds'
    <3>1. CASE rx'.at # "ph" /\ rx'.ph = rx.ph /\ UNCHANGED delivered
      BY <3>1, SameIds DEF Begun
    <3>2. CASE \E p : delivered' = Append(delivered, p) /\ p.msg = rx.ph
      BY <3>2, AppendIds
    <3> QED
      BY <2>1, <3>1, <3>2
  <2>6. ASSUME NEW n \in swallowed' PROVE \E h \in DOMAIN outcome' : StandsFor(h, n)'
    <3>1. CASE m < n
      <4>1. \A k \in m + 1 .. n : k \notin DeliveredIds'
        BY <2>2, <2>4
      <4>2. outcome'[m] = "error"
        BY <1>1, <2>2, <2>3, <2>6, <3>1 DEF Failed
      <4> QED
        BY <1>1, <2>2, <2>5, <3>1, <4>1, <4>2 DEF StandsFor
    <3>2. CASE ~(m < n)
      <4>1. n \in swallowed /\ n < m
        BY <1>3, <2>1, <2>3, <2>6, <3>2
      <4>2. PICK h \in DOMAIN outcome : StandsFor(h, n)
        BY <1>4, <4>1 DEF SwallowInv
      <4>3. \A k \in h + 1 .. n : k \notin DeliveredIds'
        <5>1. h \in Nat /\ n \in Nat
          BY <2>3, <2>6 DEF IndInv, TypeOK
        <5> QED
          BY <2>2, <2>4, <4>1, <4>2, <5>1 DEF StandsFor
      <4>4. h \in Begun(rx') \cup DeliveredIds' \cup lost'
        BY <2>1, <2>2, <2>5, <4>2 DEF StandsFor
      <4> QED
        BY <1>1, <4>2, <4>3, <4>4 DEF StandsFor
    <3> QED
      BY <3>1, <3>2
  <2>7. ASSUME NEW n \in swallowed', rx'.at # "ph"
        PROVE  n < rx'.ph.id \/ (rx'.ph.id < n /\ Failed(rx.ph)')
    <3>1. rx'.ph = rx.ph
      BY <2>1, <2>7 DEF RxIdle
    <3> QED
      BY <1>1, <2>3, <2>7, <3>1 DEF Failed
  <2> QED
    BY <1>6, <2>6, <2>7 DEF SwallowInv
<1> QED
  BY <1>1, <1>7, <1>8, <1>9

LEMMA RxCloseFlow == ASSUME IndInv, FlowInv, RxClose PROVE FlowInv' /\ (Stutters \/ AllLost)
<1>1. /\ queue' = <<>> /\ rx' = RxIdle /\ lost' = lost \cup InPipe
      /\ UNCHANGED <<mutex, tx, outcome, delivered, swallowed>>
  BY DEF RxClose, sender
<1>2. PhIds(queue') = {} /\ Begun(rx') = {} /\ InPipe' = {}
  <2>1. PhIds(queue') = {}
    BY <1>1 DEF PhIds
  <2>2. Begun(rx') = {}
    BY <1>1, BegunIs
  <2>3. InPipe' = Begun(rx') \cup PhIds(queue')
    BY DEF InPipe, PhIds, IsPh
  <2> QED
    BY <2>1, <2>2, <2>3
<1>3. SortedInv'
  BY <1>1, <1>2 DEF SortedInv
<1>4. Ids' = Ids
  BY <1>1, SameIds
<1>5. Stutters \/ AllLost
  BY <1>1, <1>2, <1>4 DEF Stutters, AllLost, Gone
<1>6. SwallowInv'
  BY <1>1, <1>2, PipeIs, SwallowKept DEF FlowInv
<1>7. AccountInv'
  BY <1>1, <1>5, ReceiverFlow DEF FlowInv
<1> QED
  BY <1>3, <1>5, <1>6, <1>7 DEF FlowInv

LEMMA RxRestartFlow == ASSUME IndInv, FlowInv, RxRestart PROVE FlowInv' /\ HeadLeaves
<1>1. /\ rx # RxIdle /\ rx' = RxIdle /\ lost' = lost \cup Begun(rx)
      /\ UNCHANGED <<mutex, tx, outcome, delivered, queue, swallowed>>
  BY DEF RxRestart, sender
<1> DEFINE n == rx.ph.id
<1>2. rx.at # "ph" /\ Begun(rx) = {n} /\ Begun(RxIdle) = {} /\ n \in Nat
  BY <1>1, BegunIs, PipeType
<1>3. InPipe = {n} \cup PhIds(queue) /\ InPipe' = PhIds(queue)
  <2>1. InPipe' = Begun(rx') \cup PhIds(queue')
    BY DEF InPipe, PhIds, IsPh
  <2> QED
    BY <1>1, <1>2, <2>1, PipeIs
<1>4. PhIds(queue) \subseteq Nat /\ \A k \in PhIds(queue) : n < k
  BY <1>2, PipeType DEF FlowInv, SortedInv
<1>5. HeadLeaves
  <2>1. InPipe' = InPipe \ {n} /\ n \in InPipe /\ \A k \in InPipe : n <= k
    BY <1>2, <1>3, <1>4
  <2>2. Ids' = Ids /\ DeliveredIds' = DeliveredIds
    BY <1>1, SameIds
  <2>3. Gone' = Gone \cup {n}
    BY <1>1, <1>2 DEF Gone
  <2> QED
    BY <2>1, <2>2, <2>3 DEF HeadLeaves
<1>6. rx'.at = "ph"
  BY <1>1 DEF RxIdle
<1>7. SortedInv'
  BY <1>1, <1>6 DEF FlowInv, SortedInv
<1>8. SwallowInv'
  BY <1>1, SwallowKept DEF FlowInv, SwallowInv
<1>9. AccountInv'
  BY <1>1, <1>5, ReceiverFlow DEF FlowInv
<1> QED
  BY <1>5, <1>7, <1>8, <1>9 DEF FlowInv

\* What MsgChannel sees does not change with the senders' variables.
LEMMA SameFlow ==
    ASSUME IndInv, FlowInv, UNCHANGED <<queue, rx, delivered, lost, swallowed>>,
           \A i \in DOMAIN outcome :
              i \in DOMAIN outcome' /\ (outcome[i] = "error" => outcome'[i] = "error")
    PROVE  Stutters /\ Accounted' = Accounted /\ SortedInv' /\ SwallowInv'
<1>1. InPipe' = InPipe /\ Ids' = Ids /\ DeliveredIds' = DeliveredIds
  BY SameIds DEF InPipe
<1>2. SortedInv'
  BY DEF FlowInv, SortedInv, PhIds
<1>3. PhIds(queue') = PhIds(queue)
  OBVIOUS
<1>4. SwallowInv'
  BY <1>3, SwallowKept DEF FlowInv, SwallowInv
<1> QED
  BY <1>1, <1>2, <1>4 DEF Stutters, Accounted, Gone

\* The latest call of Send fails.
Fails ==
    \E n \in 1 .. MaxMsgs :
        /\ \A k \in Accounted \cup FailedIds : k <= n
        /\ n \notin DeliveredIds \cup FailedIds
        /\ FailedIds' = FailedIds \cup {n}
        /\ Stutters

\* Send is called: what was accounted for is older.
LEMMA CallFlow ==
    ASSUME IndInv, FlowInv, Len(outcome) < MaxMsgs, mutex = Nobody,
           NEW e \in {"sending", "error"}, outcome' = Append(outcome, e),
           UNCHANGED <<queue, rx, delivered, lost, swallowed>>,
           mutex' # Nobody => IsPh(tx'[mutex'])
    PROVE  /\ FlowInv' /\ Stutters
           /\ IF e = "error" THEN Fails ELSE FailedIds' = FailedIds
<1> DEFINE N == Len(outcome)
<1>1. /\ N \in Nat /\ DOMAIN outcome = 1 .. N /\ Len(outcome') = N + 1 /\ DOMAIN outcome' = 1 .. N + 1
      /\ outcome'[N + 1] = e /\ \A i \in 1 .. N : outcome'[i] = outcome[i]
  BY AppendProperties DEF IndInv, TypeOK
<1>2. Stutters /\ Accounted' = Accounted /\ SortedInv' /\ SwallowInv'
  BY <1>1, SameFlow
<1> HIDE DEF N
<1>3. Accounted \subseteq 1 .. N /\ N + 1 \notin Accounted
  BY <1>1 DEF FlowInv, AccountInv, N
<1>4. Accounted' \subseteq 1 .. Len(outcome')
  BY <1>1, <1>2, <1>3
<1>5. \A n \in DOMAIN outcome' : outcome'[n] = "ok" => n \in Accounted'
  BY <1>1, <1>2 DEF FlowInv, AccountInv
<1>6. mutex' # Nobody => (IsPh(tx'[mutex']) <=> Len(outcome') \notin Accounted')
  BY <1>1, <1>2, <1>3
<1>7. AccountInv'
  BY <1>4, <1>5, <1>6, Zenon DEF AccountInv, IsPh
<1>8. CASE e = "sending"
  <2>1. FailedIds' = FailedIds
    BY <1>1, <1>8 DEF FailedIds
  <2> QED
    BY <1>2, <1>7, <1>8, <2>1 DEF FlowInv
<1>9. CASE e = "error"
  <2>1. FailedIds' = FailedIds \cup {N + 1} /\ FailedIds \subseteq 1 .. N
    BY <1>1, <1>9 DEF FailedIds
  <2>2. N + 1 \in 1 .. MaxMsgs
    BY <1>1, ChannelAssumption DEF N
  <2>3. \A k \in Accounted \cup FailedIds : k <= N + 1
    BY <1>1, <1>3, <2>1
  <2>4. N + 1 \notin DeliveredIds \cup FailedIds
    BY <1>1, <1>3, <2>1 DEF Accounted
  <2> QED
    BY <1>2, <1>7, <1>9, <2>1, <2>2, <2>3, <2>4 DEF FlowInv, Fails
<1> QED
  BY <1>8, <1>9

\* The outcome of the call under way is noted.
LEMMA MarkIs ==
    ASSUME IndInv, Len(outcome) \in 1 .. Len(outcome), NEW e \in {"ok", "error"},
           outcome' = [outcome EXCEPT ![Len(outcome)] = e]
    PROVE  /\ Len(outcome') = Len(outcome) /\ DOMAIN outcome' = DOMAIN outcome
           /\ Len(outcome) \in DOMAIN outcome
           /\ \A i \in DOMAIN outcome : outcome'[i] = IF i = Len(outcome) THEN e ELSE outcome[i]
<1>1. outcome \in Seq({"sending", "ok", "error"})
  BY DEF IndInv, TypeOK
<1>2. Len(outcome) \in Nat /\ DOMAIN outcome = 1 .. Len(outcome)
  BY <1>1, LenProperties
<1>3. Len(outcome') = Len(outcome)
  BY <1>1, ExceptSeq
<1> QED
  BY <1>2, <1>3

\* Send gives the message up where it is.
LEMMA TransmitFailsFlow ==
    ASSUME IndInv, FlowInv, NEW t \in Senders, TransmitFails(t)
    PROVE  FlowInv' /\ Fails
<1> DEFINE N == Len(outcome)
<1>1. /\ mutex = t /\ t # Nobody /\ tx[t].msg.id = N /\ outcome[N] = "sending"
      /\ N \in 1 .. N /\ N \in 1 .. MaxMsgs
  BY IndTypes DEF TransmitFails, IndInv, HistoryInv
<1>2. /\ mutex' = Nobody /\ outcome' = [outcome EXCEPT ![N] = "error"]
      /\ UNCHANGED <<queue, rx, delivered, lost, swallowed>>
  BY <1>1 DEF TransmitFails, Return, receiver
<1>3. /\ Len(outcome') = N /\ DOMAIN outcome' = DOMAIN outcome /\ N \in DOMAIN outcome
      /\ \A i \in DOMAIN outcome : outcome'[i] = IF i = N THEN "error" ELSE outcome[i]
  BY <1>1, <1>2, MarkIs
<1>4. DOMAIN outcome = 1 .. N
  BY DEF IndInv, TypeOK
<1>5. N \notin DeliveredIds
  BY <1>1 DEF IndInv, HistoryInv, DeliveredIds
<1> HIDE DEF N
<1>6. Stutters /\ Accounted' = Accounted /\ SortedInv' /\ SwallowInv'
  BY <1>2, <1>3, SameFlow
<1>7. \A n \in DOMAIN outcome' : outcome'[n] = "ok" => n \in Accounted'
  BY <1>3, <1>6 DEF FlowInv, AccountInv
<1>8. Accounted \subseteq 1 .. N
  BY DEF FlowInv, AccountInv, N
<1>9. AccountInv'
  BY <1>2, <1>3, <1>6, <1>7, <1>8, Zenon DEF AccountInv
<1>10. FailedIds' = FailedIds \cup {N} /\ FailedIds \subseteq 1 .. N /\ N \notin FailedIds
  BY <1>1, <1>3, <1>4 DEF FailedIds
<1>11. \A k \in Accounted \cup FailedIds : k <= N
  BY <1>8, <1>10
<1> QED
  BY <1>1, <1>5, <1>6, <1>9, <1>10, <1>11 DEF FlowInv, Fails

\* A datagram is sent: with a protocol header a message enters.
LEMMA TransmitFlow ==
    ASSUME IndInv, FlowInv, NEW t \in Senders, Transmit(t)
    PROVE  FlowInv' /\ (Stutters \/ Enters) /\ FailedIds' = FailedIds
<1> DEFINE N == Len(outcome)
           L == Len(queue)
           d == tx[t]
<1>1. mutex = t /\ t # Nobody /\ d \in Datagram /\ d # End /\ d.msg.id = N /\ N \in 1 .. MaxMsgs
  <2>1. mutex = t /\ t # Nobody /\ d \in Datagram /\ d # End
    BY IndTypes DEF Transmit
  <2> QED
    BY <2>1, IndTypes DEF IndInv, HistoryInv
<1>2. /\ UNCHANGED <<rx, delivered, lost, swallowed>> /\ queue' = Append(queue, d)
      /\ \/ mutex' = Nobody /\ outcome' = [outcome EXCEPT ![N] = "ok"] /\ Successor(d) = End
         \/ /\ tx' = [tx EXCEPT ![t] = Successor(d)] /\ UNCHANGED <<mutex, outcome>>
            /\ Successor(d) # End
  BY <1>1 DEF Transmit, Return, receiver
<1>3. mutex' # Nobody => mutex' = t /\ ~IsPh(tx'[t])
  BY <1>1, <1>2, SuccessorType DEF IndInv, TypeOK, IsPh
<1>4. /\ L \in Nat /\ Len(queue') = L + 1 /\ queue'[L + 1] = d
      /\ \A i \in 1 .. L : queue'[i] = queue[i]
  BY <1>1, <1>2, AppendProperties DEF IndInv, TypeOK
<1>5. PhIds(queue') = PhIds(queue) \cup (IF IsPh(d) THEN {N} ELSE {})
  BY <1>1, <1>2, AppendPhs DEF IndInv, TypeOK
<1>6. /\ Len(outcome') = N /\ DOMAIN outcome' = DOMAIN outcome
      /\ \A i \in DOMAIN outcome : /\ outcome'[i] = "ok" => outcome[i] = "ok" \/ i = N
                                   /\ outcome'[i] = "error" <=> outcome[i] = "error"
      /\ Successor(d) # End => \A i \in DOMAIN outcome : outcome'[i] = outcome[i]
  <2>1. N \in 1 .. N /\ outcome[N] = "sending"
    BY <1>1, IndTypes DEF IndInv, HistoryInv
  <2>2. CASE Successor(d) = End
    <3>1. /\ Len(outcome') = N /\ DOMAIN outcome' = DOMAIN outcome
          /\ \A i \in DOMAIN outcome : outcome'[i] = IF i = N THEN "ok" ELSE outcome[i]
      BY <1>2, <2>1, <2>2, MarkIs
    <3> QED
      BY <2>1, <2>2, <3>1
  <2>3. CASE Successor(d) # End
    BY <1>2, <2>3
  <2> QED
    BY <2>2, <2>3
<1>7. Ids' = Ids /\ DeliveredIds' = DeliveredIds /\ Gone' = Gone
  BY <1>2, SameIds DEF Gone
<1>8. InPipe' = InPipe \cup (IF IsPh(d) THEN {N} ELSE {})
  <2>1. InPipe' = Begun(rx') \cup PhIds(queue')
    BY DEF InPipe, PhIds, IsPh
  <2> QED
    BY <1>2, <1>5, <2>1, PipeIs
<1>9. Accounted' = Accounted \cup (IF IsPh(d) THEN {N} ELSE {})
  BY <1>7, <1>8 DEF Accounted
<1>10. Accounted \subseteq 1 .. N /\ (IsPh(d) <=> N \notin Accounted) /\ N \in 1 .. N
  BY <1>1 DEF FlowInv, AccountInv
<1>11. IsPh(d) => \A k \in Accounted : k < N
  BY <1>10
<1>12. IsPh(d) => Successor(d) # End
  BY DEF IsPh, Successor, HdrOf, End
<1>13. SortedInv'
  <2>1. ASSUME NEW i \in 1 .. L + 1, NEW j \in 1 .. L + 1, i < j, IsPh(queue'[i]), IsPh(queue'[j])
        PROVE  queue'[i].msg.id < queue'[j].msg.id
    <3>1. CASE j = L + 1
      <4>1. i \in 1 .. L /\ IsPh(queue[i]) /\ IsPh(d)
        BY <1>4, <2>1, <3>1
      <4>2. queue[i].msg.id \in Accounted
        BY <4>1, PipeIs DEF PhIds, Accounted
      <4> QED
        BY <1>1, <1>4, <1>11, <3>1, <4>1, <4>2
    <3>2. CASE j # L + 1
      BY <1>4, <2>1, <3>2 DEF FlowInv, SortedInv
    <3> QED
      BY <3>1, <3>2
  <2>2. ASSUME rx.at # "ph", NEW n \in PhIds(queue') PROVE rx.ph.id < n
    <3>1. CASE n \in PhIds(queue)
      BY <2>2, <3>1 DEF FlowInv, SortedInv
    <3>2. CASE n \notin PhIds(queue)
      <4>1. IsPh(d) /\ n = N
        BY <1>5, <2>2, <3>2
      <4>2. rx.ph.id \in Accounted
        BY <2>2, BegunIs, PipeIs DEF Accounted
      <4> QED
        BY <1>11, <4>1, <4>2
    <3> QED
      BY <3>1, <3>2
  <2> QED
    BY <1>2, <1>4, <2>1, <2>2 DEF SortedInv
<1>17. FailedIds' = FailedIds
  BY <1>6 DEF FailedIds
<1>18. \A k \in FailedIds : k < N
  <2>1. FailedIds \subseteq 1 .. N /\ N \notin FailedIds
    BY <1>1, IndTypes DEF FailedIds, IndInv, TypeOK, HistoryInv
  <2> QED
    BY <2>1
<1> HIDE DEF d, N
<1>14. Accounted' \subseteq 1 .. N /\ N \in Accounted'
  BY <1>9, <1>10
<1>15. AccountInv'
  <2>1. \A n \in DOMAIN outcome' : outcome'[n] = "ok" => n \in Accounted'
    BY <1>6, <1>9, <1>14 DEF FlowInv, AccountInv
  <2>2. mutex' # Nobody => (IsPh(tx'[mutex']) <=> Len(outcome') \notin Accounted')
    BY <1>3, <1>6, <1>14
  <2>3. Accounted' \subseteq 1 .. Len(outcome')
    BY <1>6, <1>14
  <2> QED
    BY <2>1, <2>2, <2>3, Zenon DEF AccountInv, IsPh
<1>19. SwallowInv'
  <2>1. \A n \in swallowed : \A k \in PhIds(queue') : n < k
    BY <1>5, <1>11 DEF FlowInv, SwallowInv, Accounted, Gone
  <2> QED
    BY <1>2, <1>6, <2>1, SwallowKept DEF FlowInv
<1>16. Stutters \/ Enters
  <2>1. CASE IsPh(d)
    <3>1. InPipe' = InPipe \cup {N}
      BY <1>8, <2>1
    <3> QED
      BY <1>1, <1>7, <1>11, <1>18, <2>1, <3>1 DEF Enters, N
  <2>2. CASE ~IsPh(d)
    <3>1. InPipe' = InPipe
      BY <1>8, <2>2
    <3> QED
      BY <1>7, <3>1 DEF Stutters
  <2> QED
    BY <2>1, <2>2
<1> QED
  BY <1>13, <1>15, <1>16, <1>17, <1>19 DEF FlowInv

LEMMA FlowStarts == Init => FlowInv
<1> SUFFICES ASSUME Init PROVE FlowInv
  OBVIOUS
<1>1. Begun(rx) = {} /\ PhIds(queue) = {} /\ rx.at = "ph" /\ Len(queue) = 0
  BY DEF Init, RxIdle, Begun, PhIds
<1>2. Accounted = {} /\ DOMAIN outcome = {}
  BY <1>1, PipeIs DEF Init, Accounted, Gone, DeliveredIds
<1>3. AccountInv
  BY <1>2, ChannelAssumption DEF Init, AccountInv
<1>4. SortedInv /\ SwallowInv
  BY <1>1 DEF Init, SortedInv, SwallowInv
<1> QED
  BY <1>3, <1>4 DEF FlowInv

\* Every step keeps the account, and moves messages as MsgChannel does.
LEMMA FlowStep ==
    ASSUME IndInv, FlowInv, [Next]_vars
    PROVE  /\ FlowInv'
           /\ \/ Fails
              \/ /\ FailedIds' = FailedIds
                 /\ Stutters \/ Enters \/ HeadLeaves \/ HeadTakes \/ AllLost
<1>1. ASSUME NEW t \in Senders, NEW h \in HdrLens, NEW s \in Sizes, BeginSend(t, h, s)
      PROVE  FlowInv' /\ Stutters /\ FailedIds' = FailedIds
  <2>1. /\ mutex = Nobody /\ outcome' = Append(outcome, "sending") /\ Len(outcome) < MaxMsgs
        /\ UNCHANGED <<queue, rx, delivered, lost, swallowed>>
    BY <1>1 DEF BeginSend, receiver
  <2>2. mutex' = t /\ IsPh(tx'[t])
    BY <1>1 DEF BeginSend, IndInv, TypeOK, PhOf, IsPh
  <2> QED
    BY <2>1, <2>2, CallFlow
<1>2. ASSUME NEW h \in HdrLens, NEW s \in Sizes, RefuseSend(h, s)
      PROVE  FlowInv' /\ Fails
  <2>1. /\ mutex = Nobody /\ mutex' = Nobody /\ outcome' = Append(outcome, "error")
        /\ Len(outcome) < MaxMsgs
        /\ UNCHANGED <<queue, rx, delivered, lost, swallowed>>
    BY <1>2 DEF RefuseSend, sender, receiver
  <2> QED
    BY <2>1, CallFlow
<1>3. ASSUME UNCHANGED <<mutex, tx, queue, rx, outcome, delivered, lost, swallowed>>
      PROVE  FlowInv' /\ Stutters /\ FailedIds' = FailedIds
  <2>1. Stutters /\ SortedInv' /\ SwallowInv'
    BY <1>3, SameFlow
  <2>2. AccountInv'
    BY <1>3, <2>1, ReceiverFlow DEF FlowInv
  <2> QED
    BY <1>3, <2>1, <2>2 DEF FlowInv, FailedIds
<1>4. ASSUME NEW l \in Limits, SetTxLimit(l) \/ SetRxLimit(l)
      PROVE  FlowInv' /\ Stutters /\ FailedIds' = FailedIds
  BY <1>3, <1>4 DEF SetTxLimit, SetRxLimit, sender, receiver
<1>5. CASE Take
  <2>1. UNCHANGED <<mutex, tx, outcome>>
    BY <1>5 DEF Take, sender
  <2>2. (Stutters \/ HeadLeaves \/ HeadTakes) /\ SortedInv' /\ SwallowInv'
    BY <1>5, TakeFlow, SwallowTake
  <2>3. AccountInv'
    BY <2>1, <2>2, ReceiverFlow DEF FlowInv
  <2> QED
    BY <2>1, <2>2, <2>3 DEF FlowInv, FailedIds
<1>6. CASE RxOpen \/ TxClose \/ TxOpen
  BY <1>3, <1>6 DEF RxOpen, TxClose, TxOpen, sender, receiver
<1>7. CASE UNCHANGED vars
  BY <1>3, <1>7 DEF vars, sender, receiver
<1>8. CASE RxClose
  BY <1>8, RxCloseFlow DEF RxClose, FailedIds
<1>9. CASE RxRestart
  BY <1>9, RxRestartFlow DEF RxRestart, FailedIds
<1> QED
  BY <1>1, <1>2, <1>4, <1>5, <1>6, <1>7, <1>8, <1>9, TransmitFlow, TransmitFailsFlow,
     Zenon DEF Next

LEMMA Flow == Spec => [](IndInv /\ FlowInv)
  BY Invariance, FlowStarts, FlowStep, PTL DEF Spec

\* A message whose Send succeeded is on its way or received, unless the receiver
\* closed its socket, was restarted, refused its size, or took it for the rest
\* of a message whose Send had failed: one it began with before, and nothing
\* from there up to the message that it took has been received.
THEOREM MessagesAreAccountedFor == Spec => []NothingDisappears
<1>1. FlowInv => NothingDisappears
  BY DEF FlowInv, AccountInv, Accounted, Gone, SwallowInv, NothingDisappears
<1> QED
  BY <1>1, Flow, PTL

\* The channel moves messages as MsgChannel does: they enter behind those sent
\* before and leave at the head, by delivery or by a known loss, or right behind
\* a head whose Send has failed.
THEOREM ChannelImplementsMsgChannel ==
    Spec => Abstract!Init /\ [][Abstract!Next]_(Abstract!vars)
<1>1. Init => Abstract!Init
  <2> SUFFICES ASSUME Init PROVE Abstract!Init
    OBVIOUS
  <2>1. Begun(rx) = {} /\ PhIds(queue) = {}
    BY DEF Init, RxIdle, Begun, PhIds
  <2>2. InPipe = {} /\ lost \cup swallowed = {} /\ DOMAIN delivered = {}
        /\ {n \in DOMAIN outcome : outcome[n] = "error"} = {}
    BY <2>1, PipeIs DEF Init
  <2>3. [i \in DOMAIN delivered |-> delivered[i].msg.id] = <<>>
    BY <2>2
  <2> QED
    BY <2>2, <2>3 DEF Abstract!Init
<1>2. ASSUME IndInv, FlowInv, [Next]_vars PROVE [Abstract!Next]_(Abstract!vars)
  <2>1. Abstract!Received = DeliveredIds
    BY DEF Abstract!Received, DeliveredIds
  <2>2. CASE Stutters /\ FailedIds' = FailedIds
    BY <2>2 DEF Stutters, Ids, Gone, FailedIds, Abstract!vars
  <2>3. CASE Enters /\ FailedIds' = FailedIds
    <3>1. Abstract!Publish(Len(outcome))
      BY <2>1, <2>3 DEF Enters, Accounted, Ids, Gone, FailedIds, Abstract!Publish
    <3> QED
      BY <2>3, <3>1 DEF Enters, Abstract!Next
  <2>4. CASE Fails
    <3>1. PICK n \in 1 .. MaxMsgs :
             /\ \A k \in Accounted \cup FailedIds : k <= n
             /\ n \notin DeliveredIds \cup FailedIds
             /\ FailedIds' = FailedIds \cup {n}
             /\ Stutters
      BY <2>4 DEF Fails
    <3>2. Abstract!Fail(n)
      BY <2>1, <3>1 DEF Stutters, Accounted, Ids, Gone, FailedIds, Abstract!Fail
    <3> QED
      BY <3>2 DEF Abstract!Next
  <2>5. CASE HeadLeaves /\ FailedIds' = FailedIds
    <3>1. PICK n \in InPipe :
             /\ \A k \in InPipe : n <= k
             /\ InPipe' = InPipe \ {n}
             /\ \/ Ids' = Append(Ids, n) /\ Gone' = Gone
                \/ Ids' = Ids /\ Gone' = Gone \cup {n}
      BY <2>5 DEF HeadLeaves
    <3>2. Abstract!IsHead(n)
      BY <3>1 DEF Abstract!IsHead
    <3>3. Abstract!Deliver \/ Abstract!Drop
      BY <2>5, <3>1, <3>2 DEF Ids, Gone, FailedIds, Abstract!Deliver, Abstract!Drop
    <3> QED
      BY <3>3 DEF Abstract!Next, Abstract!Leave
  <2>6. CASE HeadTakes /\ FailedIds' = FailedIds
    <3>1. PICK n \in InPipe, k \in InPipe :
             /\ \A j \in InPipe : n <= j
             /\ n \in FailedIds /\ n < k /\ \A j \in InPipe : j <= n \/ k <= j
             /\ Gone' = Gone \cup {k}
             /\ \/ InPipe' = InPipe \ {k} /\ Ids' = Ids
                \/ InPipe' = InPipe \ {n, k} /\ Ids' = Append(Ids, n)
      BY <2>6 DEF HeadTakes
    <3>2. Abstract!IsHead(n) /\ Abstract!IsTakenBy(k, n)
      BY <3>1 DEF FailedIds, Abstract!IsHead, Abstract!IsTakenBy
    <3>3. Abstract!Swallow \/ Abstract!DeliverOver
      BY <2>6, <3>1, <3>2 DEF Ids, Gone, FailedIds, Abstract!Swallow, Abstract!DeliverOver
    <3> QED
      BY <3>3 DEF Abstract!Next, Abstract!Leave
  <2>7. CASE AllLost /\ FailedIds' = FailedIds
    BY <2>7 DEF AllLost, Ids, Gone, FailedIds, Abstract!Reset, Abstract!Next, Abstract!Leave
  <2> QED
    BY <1>2, <2>2, <2>3, <2>4, <2>5, <2>6, <2>7, FlowStep
<1> QED
  BY <1>1, <1>2, Flow, PTL DEF Spec

-----------------------------------------------------------------------------
(* UdsEndpoint: the types. *)

LEMMA PairsDiffer ==
    ASSUME NEW p, NEW o, p # o, NEW m, NEW n
    PROVE  <<p, m>> # <<o, n>>
  OBVIOUS

LEMMA EndpointTypeStep == EndpointTypeOK /\ [EndpointNext]_endpointVars => EndpointTypeOK'
<1> SUFFICES ASSUME EndpointTypeOK, [EndpointNext]_endpointVars PROVE EndpointTypeOK'
  OBVIOUS
<1> USE EndpointAssumption DEF EndpointTypeOK, Sockets
<1>0. ASSUME NEW o \in Objects, NEW failed \in {0, 1}, MakeTx(o, failed)
      PROVE  txFd' \subseteq Objects /\ fails' \in 0 .. MaxFails
  BY <1>0 DEF MakeTx
<1>1. ASSUME NEW o \in Objects, OpenAgain(o) \/ OpenSocketFails(o) PROVE EndpointTypeOK'
  <2>1. RxName(o) \in Names
    BY DEF RxName, Names
  <2> QED
    BY <1>0, <1>1, <2>1 DEF OpenAgain, OpenSocketFails
<1>2. ASSUME NEW o \in Objects, OpenSocket(o) PROVE EndpointTypeOK'
  <2>1. made[o] + 1 \in 1 .. MaxSockets
    BY <1>2 DEF OpenSocket
  <2>2. <<o, made[o] + 1>> \in Sockets /\ RxName(o) \in Names
    BY <2>1 DEF RxName, Names
  <2>3. /\ rxFd' \in [Objects -> Sockets \cup {None}] /\ alive' \subseteq Sockets
        /\ name' \in [Names -> Sockets \cup {None}] /\ made' \in [Objects -> 0 .. MaxSockets]
    BY <1>2, <2>1, <2>2 DEF OpenSocket
  <2>4. \A p \in Objects : \/ rxFd'[p] = None
                           \/ rxFd'[p] = <<p, made'[p]>> /\ made'[p] > 0 /\ rxFd'[p] \in alive'
    BY <1>2, <2>1 DEF OpenSocket
  <2> QED
    BY <1>0, <1>2, <2>3, <2>4 DEF OpenSocket
<1>3. ASSUME NEW o \in Objects, Bind(o) \/ BindFails(o) PROVE EndpointTypeOK'
  BY <1>3 DEF Bind, BindFails
<1>4. ASSUME NEW o \in Objects, CloseSocket(o, "unlink") PROVE EndpointTypeOK'
  <2>1. \A p \in Objects : rxFd'[p] = IF p = o THEN None ELSE rxFd[p]
    BY <1>4 DEF CloseSocket
  <2>2. \A p \in Objects \ {o} : rxFd[p] # None => rxFd[p] # rxFd[o]
    BY PairsDiffer
  <2> QED
    BY <1>4, <2>1, <2>2 DEF CloseSocket
<1>5. ASSUME NEW o \in Objects, Unlink(o) \/ Renew(o) PROVE EndpointTypeOK'
  BY <1>5 DEF Unlink, Renew
<1>6. ASSUME NEW o \in Objects, Crash(o) PROVE EndpointTypeOK'
  <2>1. \A p \in Objects : rxFd'[p] = IF p = o THEN None ELSE rxFd[p]
    BY <1>6 DEF Crash
  <2>2. \A p \in Objects \ {o} : rxFd[p] # None => rxFd[p][1] # o
    BY DEF None
  <2> QED
    BY <1>6, <2>1, <2>2 DEF Crash
<1>7. CASE UNCHANGED endpointVars
  BY <1>7 DEF endpointVars
<1> HIDE DEF EndpointTypeOK
<1> QED
  BY <1>1, <1>2, <1>3, <1>4, <1>5, <1>6, <1>7, Zenon DEF EndpointNext

LEMMA EndpointInitTypes == EndpointInit => EndpointTypeOK
<1> SUFFICES ASSUME EndpointInit PROVE EndpointTypeOK
  OBVIOUS
<1> USE EndpointAssumption DEF EndpointInit, Sockets
<1> QED
  BY DEF EndpointTypeOK

\* Objects, names and the sockets that are alive keep to their types, and the
\* receiving socket of an object is its latest.
THEOREM EndpointTypeCorrect == EndpointSpec => []EndpointTypeOK
  BY EndpointInitTypes, EndpointTypeStep, PTL DEF EndpointSpec

-----------------------------------------------------------------------------
(* UdsEndpoint: no leak without a failed bind. *)

\* A socket that is not open is being bound, or could not be; one that is being
\* closed is forgotten.
Bound ==
    \A o \in Objects :
        /\ rxFd[o] # None /\ pc[o] = "idle" => o \in isOpend \/ o \in unbound
        /\ pc[o] = "bind" => o \notin isOpend
        /\ pc[o] = "unlink" => rxFd[o] = None

LeakInv == Bound /\ NoSocketIsLeaked

LEMMA LeakStep == EndpointTypeOK /\ LeakInv /\ [EndpointNext]_endpointVars => LeakInv'
<1> SUFFICES ASSUME EndpointTypeOK, LeakInv, [EndpointNext]_endpointVars PROVE LeakInv'
  OBVIOUS
<1>0. /\ Bound /\ NoSocketIsLeaked
      /\ rxFd \in [Objects -> Sockets \cup {None}]
      /\ pc \in [Objects -> {"idle", "bind", "unlink"}]
      /\ alive \subseteq Sockets
      /\ \A s \in alive : s[1] \in Objects
  BY DEF LeakInv, EndpointTypeOK, Sockets
<1> USE <1>0 DEF LeakInv, Bound, NoSocketIsLeaked
<1>1. ASSUME NEW o \in Objects, OpenAgain(o) \/ OpenSocketFails(o) PROVE LeakInv'
  BY <1>1 DEF OpenAgain, OpenSocketFails
<1>2. ASSUME NEW o \in Objects, OpenSocket(o) PROVE LeakInv'
  <2>1. /\ rxFd[o] = None /\ rxFd' = [rxFd EXCEPT ![o] = <<o, made[o] + 1>>]
        /\ alive' = alive \cup {<<o, made[o] + 1>>} /\ pc' = [pc EXCEPT ![o] = "bind"]
        /\ o \notin isOpend /\ isOpend' = isOpend /\ unbound' = unbound
    BY <1>2 DEF OpenSocket
  <2>2. Bound'
    BY <2>1
  <2>3. ASSUME NEW s \in alive, s[1] = o PROVE o \in unbound
    <3>1. o \in unbound \/ s = None
      BY <2>1, <2>3
    <3>2. s # None
      BY DEF None, Sockets
    <3> QED
      BY <3>1, <3>2
  <2>4. ASSUME NEW s \in alive PROVE s[1] \in unbound' \/ rxFd'[s[1]] = s
    BY <2>1, <2>3, <2>4
  <2>5. rxFd'[o] = <<o, made[o] + 1>>
    BY <2>1
  <2> QED
    BY <2>1, <2>2, <2>4, <2>5
<1>3. ASSUME NEW o \in Objects, Bind(o) PROVE LeakInv'
  BY <1>3 DEF Bind
<1>4. ASSUME NEW o \in Objects, BindFails(o) PROVE LeakInv'
  BY <1>4 DEF BindFails
<1>5. ASSUME NEW o \in Objects, CloseSocket(o, "unlink") PROVE LeakInv'
  BY <1>5 DEF CloseSocket
<1>6. ASSUME NEW o \in Objects, Unlink(o) PROVE LeakInv'
  BY <1>6 DEF Unlink
<1>7. ASSUME NEW o \in Objects, Renew(o) PROVE LeakInv'
  BY <1>7 DEF Renew
<1>8. ASSUME NEW o \in Objects, Crash(o) PROVE LeakInv'
  BY <1>8 DEF Crash
<1>9. CASE UNCHANGED endpointVars
  BY <1>9 DEF endpointVars
<1> HIDE DEF LeakInv
<1> QED
  BY <1>1, <1>2, <1>3, <1>4, <1>5, <1>6, <1>7, <1>8, <1>9, Zenon DEF EndpointNext

\* Every socket the kernel has is the receiving socket of its object, or the
\* object has known a bind that failed.
THEOREM SocketsAreNotLeaked == EndpointSpec => []NoSocketIsLeaked
<1>1. EndpointInit => LeakInv
  BY DEF EndpointInit, LeakInv, Bound, NoSocketIsLeaked
<1>2. LeakInv => NoSocketIsLeaked
  BY DEF LeakInv
<1> QED
  BY <1>1, <1>2, LeakStep, EndpointTypeCorrect, PTL DEF EndpointSpec

-----------------------------------------------------------------------------
(* UdsEndpoint: objects of a side that follow one another. *)

\* At most one object of a side is open, opening or closing; one that is open
\* has its name, and one that is binding finds the name free.
Alone ==
    /\ \A o \in Objects : o \in isOpend \/ pc[o] # "idle" =>
           \A p \in Objects \ {o} : RxName(p) = RxName(o) => p \notin isOpend /\ pc[p] = "idle"
    /\ \A o \in Objects : o \in isOpend /\ pc[o] = "idle" =>
           name[RxName(o)] = rxFd[o] /\ rxFd[o] # None /\ (fails = 0 => o \in txFd)
    /\ \A o \in Objects : pc[o] = "bind" =>
           /\ name[RxName(o)] = None /\ rxFd[o] # None /\ o \notin isOpend
           /\ fails = 0 => o \in txFd

EndpointOrderInv == orderly => Alone

LEMMA OrderStep ==
    EndpointTypeOK /\ EndpointOrderInv /\ [EndpointNext]_endpointVars => EndpointOrderInv'
<1> SUFFICES ASSUME EndpointTypeOK, EndpointOrderInv, [EndpointNext]_endpointVars, orderly'
             PROVE  Alone'
  BY DEF EndpointOrderInv
<1>0. /\ EndpointOrderInv
      /\ rxFd \in [Objects -> Sockets \cup {None}]
      /\ pc \in [Objects -> {"idle", "bind", "unlink"}]
      /\ name \in [Names -> Sockets \cup {None}]
      /\ \A o \in Objects : RxName(o) \in Names
      /\ \A o \in Objects, m \in Nat : <<o, m>> # None
      /\ fails \in Nat
  BY EndpointAssumption DEF EndpointTypeOK, RxName, Names, None
<1> USE <1>0 DEF Alone, EndpointOrderInv
<1> DEFINE Sends(o) == fails' = 0 => fails = 0 /\ o \in txFd'
<1>x. ASSUME NEW o \in Objects, NEW failed \in {0, 1}, MakeTx(o, failed)
      PROVE  Sends(o) /\ txFd \subseteq txFd'
  BY <1>x DEF MakeTx
<1>1. ASSUME NEW o \in Objects, OpenAgain(o) PROVE Alone'
  <2>1. (fails' = 0 => fails = 0) /\ txFd \subseteq txFd'
    BY <1>1, <1>x DEF OpenAgain
  <2> QED
    BY <1>1, <2>1 DEF OpenAgain
<1>f. ASSUME NEW o \in Objects, OpenSocketFails(o) PROVE Alone'
  <2>1. orderly /\ ~Busy(o)
    BY <1>f, Zenon DEF OpenSocketFails
  <2>2. (fails' = 0 => fails = 0) /\ txFd \subseteq txFd'
    BY <1>f, <1>x DEF OpenSocketFails
  <2> QED
    BY <1>f, <2>1, <2>2 DEF OpenSocketFails, Busy
<1>2. ASSUME NEW o \in Objects, OpenSocket(o) PROVE Alone'
  <2>1. made[o] + 1 \in Nat
    BY EndpointAssumption DEF EndpointTypeOK
  <2>2. orderly /\ ~Busy(o)
    BY <1>2, Zenon DEF OpenSocket
  <2>3. Sends(o) /\ txFd \subseteq txFd'
    BY <1>2, <1>x DEF OpenSocket
  <2> QED
    BY <1>2, <2>1, <2>2, <2>3 DEF OpenSocket, Busy
<1>3. ASSUME NEW o \in Objects, Bind(o) PROVE Alone'
  BY <1>3 DEF Bind
<1>4. ASSUME NEW o \in Objects, BindFails(o) PROVE Alone'
  BY <1>4 DEF BindFails
<1>5. ASSUME NEW o \in Objects, CloseSocket(o, "unlink") PROVE Alone'
  BY <1>5 DEF CloseSocket
<1>6. ASSUME NEW o \in Objects, Unlink(o) PROVE Alone'
  BY <1>6 DEF Unlink
<1>7. ASSUME NEW o \in Objects, Renew(o) PROVE Alone'
  BY <1>7 DEF Renew
<1>8. ASSUME NEW o \in Objects, Crash(o) PROVE Alone'
  BY <1>8 DEF Crash
<1>9. CASE UNCHANGED endpointVars
  BY <1>9 DEF endpointVars
<1> HIDE DEF Alone
<1> QED
  BY <1>f, <1>1, <1>2, <1>3, <1>4, <1>5, <1>6, <1>7, <1>8, <1>9, Zenon DEF EndpointNext

LEMMA EndpointInitOrder == EndpointInit => EndpointOrderInv
  BY DEF EndpointInit, EndpointOrderInv, Alone

THEOREM SidesAreAlone == EndpointSpec => []EndpointOrderInv
  BY EndpointInitOrder, OrderStep, EndpointTypeCorrect, PTL DEF EndpointSpec

\* Whatever has crashed before and whatever name it has left over: the open ends
\* of the two sides are bound to the names the other one sends to.
THEOREM EndsAreConnected == EndpointSpec => []PeersAreConnected
<1>1. EndpointOrderInv => PeersAreConnected
  BY DEF EndpointOrderInv, Alone, PeersAreConnected, RxName, TxName
<1> QED
  BY <1>1, SidesAreAlone, PTL

-----------------------------------------------------------------------------
(* UdsEndpoint: opening succeeds. *)

\* Nothing but a failure from outside leaves a socket without its name.
OpenInv == OpenSucceeds /\ (orderly /\ fails = 0 => unbound = {})

LEMMA OpenStep ==
    EndpointTypeOK /\ LeakInv /\ EndpointOrderInv /\ OpenInv /\ [EndpointNext]_endpointVars
    => OpenInv'
<1> SUFFICES ASSUME EndpointTypeOK, LeakInv, EndpointOrderInv, OpenInv,
                    [EndpointNext]_endpointVars, orderly', fails' = 0
             PROVE  OpenInv'
  BY DEF OpenInv, OpenSucceeds
<1>0. /\ Bound /\ EndpointOrderInv /\ OpenInv
      /\ pc \in [Objects -> {"idle", "bind", "unlink"}]
      /\ result \in [Objects -> {"none", "success", "error"}]
      /\ fails \in Nat
  BY EndpointAssumption DEF EndpointTypeOK, LeakInv
<1> USE <1>0 DEF OpenInv, OpenSucceeds, Bound
<1>m. ASSUME NEW o \in Objects, NEW failed \in {0, 1}, MakeTx(o, failed)
      PROVE  failed = 0 /\ fails = 0
  BY <1>m DEF MakeTx
<1>1. ASSUME NEW o \in Objects, OpenAgain(o) PROVE OpenInv'
  BY <1>1, <1>m DEF OpenAgain
<1>2. ASSUME NEW o \in Objects, OpenSocket(o) PROVE OpenInv'
  BY <1>2, <1>m DEF OpenSocket
<1>n. ASSUME NEW o \in Objects, OpenSocketFails(o) PROVE OpenInv'
  BY <1>n, <1>m DEF OpenSocketFails
<1>3. ASSUME NEW o \in Objects, Bind(o) PROVE OpenInv'
  BY <1>3 DEF Bind
<1>4. ASSUME NEW o \in Objects, BindFails(o) PROVE OpenInv'
  <2>1. orderly /\ name[RxName(o)] = None
    BY <1>4 DEF BindFails, EndpointOrderInv, Alone
  <2> QED
    BY <1>4, <2>1 DEF BindFails
<1>5. ASSUME NEW o \in Objects, CloseSocket(o, "unlink") PROVE OpenInv'
  BY <1>5 DEF CloseSocket
<1>6. ASSUME NEW o \in Objects, Unlink(o) PROVE OpenInv'
  BY <1>6 DEF Unlink
<1>7. ASSUME NEW o \in Objects, Renew(o) PROVE OpenInv'
  BY <1>7 DEF Renew
<1>8. ASSUME NEW o \in Objects, Crash(o) PROVE OpenInv'
  BY <1>8 DEF Crash
<1>9. CASE UNCHANGED endpointVars
  BY <1>9 DEF endpointVars
<1> HIDE DEF OpenInv
<1> QED
  BY <1>1, <1>2, <1>n, <1>3, <1>4, <1>5, <1>6, <1>7, <1>8, <1>9, Zenon DEF EndpointNext

\* With its side to itself and no failure from outside, an object is open exactly
\* when its last OpenSocket has returned success, and none returns an error.
THEOREM OpeningSucceeds == EndpointSpec => []OpenSucceeds
<1>1. EndpointInit => LeakInv /\ OpenInv
  BY DEF EndpointInit, LeakInv, Bound, NoSocketIsLeaked, OpenInv, OpenSucceeds
<1>2. OpenInv => OpenSucceeds
  BY DEF OpenInv
<1> QED
  BY <1>1, <1>2, LeakStep, OpenStep, EndpointTypeCorrect, SidesAreAlone, PTL DEF EndpointSpec
=============================================================================
