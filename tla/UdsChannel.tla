----------------------------- MODULE UdsChannel -----------------------------
(***************************************************************************)
(* One direction of a UnixDomainSocket pair: the threads of one process    *)
(* that call Send under the object's m_mutex (the callers of               *)
(* Client::SendReceive and Ping, or Server::Run, Notify and Ping), the     *)
(* kernel's bounded datagram queue of the peer's bound path, and the one   *)
(* thread of the peer that calls Receive in a loop.  A step is one system  *)
(* call: one sendto of Send, one recvfrom or read of Receive.  Any sendto  *)
(* may fail; Send then gives up, and the peer keeps what it has of the     *)
(* message.                                                                *)
(***************************************************************************)
EXTENDS UdsFraming, Sequences, FiniteSets

CONSTANTS Senders,   \* the threads that send through this socket
          Nobody,    \* m_mutex is free
          Cap,       \* datagrams the kernel keeps for a receiver
          HdrLens,   \* lengths of the headers Send is called with
          Sizes,     \* lengths of the bodies Send is called with
          Limits,    \* arguments of SetLimitSize
          MaxMsgs,   \* bound: calls of Send
          MaxCloses  \* bound: times the receiver closes its socket

ASSUME ChannelAssumption ==
    /\ Nobody \notin Senders
    /\ Cap \in Nat \ {0}
    /\ HdrLens \subseteq Nat /\ Sizes \subseteq Nat
    /\ Limits \subseteq Nat /\ 0 \in Limits
    /\ MaxMsgs \in Nat /\ MaxCloses \in Nat

VARIABLES
    mutex,     \* the thread that holds m_mutex, or Nobody
    tx,        \* for each thread, the datagram its Send transmits next, or End
    txLimit,   \* m_limitSize of the sending object
    open,      \* m_isOpend of the sending object
    bound,     \* the receiver's socket is open and bound to its path
    queue,     \* datagrams in the receiver's kernel queue
    rx,        \* progress of the receiver's current call of Receive
    rxLimit,   \* m_limitSize of the receiving object
    closes,    \* times the receiver has closed its socket
    outcome,   \* history: for each call of Send, "sending", "ok" or "error"
    delivered, \* history: what Receive has returned, in order
    lost,      \* history: messages dropped by a close, a restart or a limit
    swallowed  \* history: messages taken for the rest of an earlier one

sender   == <<mutex, tx, txLimit, open>>
receiver == <<bound, rx, rxLimit, closes>>
vars == <<sender, receiver, queue, outcome, delivered, lost, swallowed>>

Message == [id : 1 .. MaxMsgs, hlen : {h \in HdrLens : h <= HdrMax}, size : Sizes]

Frags(m) == {FragOf(m, o) : o \in 0 .. m.size - 1}

Datagram == {PhOf(m) : m \in Message} \cup {HdrOf(m) : m \in Message}
              \cup UNION {Frags(m) : m \in Message}

Init ==
    /\ mutex = Nobody
    /\ tx = [t \in Senders |-> End]
    /\ txLimit \in Limits /\ rxLimit \in Limits
    /\ open = TRUE /\ bound = TRUE
    /\ queue = <<>>
    /\ rx = RxIdle
    /\ closes = 0
    /\ outcome = <<>>
    /\ delivered = <<>>
    /\ lost = {} /\ swallowed = {}

-----------------------------------------------------------------------------
(* The sending side. *)

NewMessage(h, s) == [id |-> Len(outcome) + 1, hlen |-> h, size |-> s]

\* Mutant: Send without the MutexLock of its callers.
BeginSendUnlocked(t, h, s) ==
    /\ tx[t] = End
    /\ Len(outcome) < MaxMsgs
    /\ open /\ h <= HdrMax /\ WithinLimit(s, txLimit)
    /\ mutex' = t
    /\ tx' = [tx EXCEPT ![t] = PhOf(NewMessage(h, s))]
    /\ outcome' = Append(outcome, "sending")
    /\ UNCHANGED <<txLimit, open, receiver, queue, delivered, lost, swallowed>>

\* Send is called with m_mutex taken and passes its checks.
BeginSend(t, h, s) ==
    /\ mutex = Nobody
    /\ Len(outcome) < MaxMsgs
    /\ open /\ h <= HdrMax /\ WithinLimit(s, txLimit)
    /\ mutex' = t
    /\ tx' = [tx EXCEPT ![t] = PhOf(NewMessage(h, s))]
    /\ outcome' = Append(outcome, "sending")
    /\ UNCHANGED <<txLimit, open, receiver, queue, delivered, lost, swallowed>>

\* Send is called with the socket closed, or with a header or a body that is
\* too long.
RefuseSend(h, s) ==
    /\ mutex = Nobody
    /\ Len(outcome) < MaxMsgs
    /\ ~open \/ h > HdrMax \/ ~WithinLimit(s, txLimit)
    /\ outcome' = Append(outcome, "error")
    /\ UNCHANGED <<sender, receiver, queue, delivered, lost, swallowed>>

\* Mutant: the lock is not released on the way out.
ReturnLocked(t, result) ==
    /\ mutex' = mutex
    /\ tx' = [tx EXCEPT ![t] = End]
    /\ outcome' = [outcome EXCEPT ![tx[t].msg.id] = result]

\* Thread t is out of Send, and out of the scope of its MutexLock.
Return(t, result) ==
    /\ mutex' = Nobody
    /\ tx' = [tx EXCEPT ![t] = End]
    /\ outcome' = [outcome EXCEPT ![tx[t].msg.id] = result]

\* Mutant: the loop of Send starts over where it should end.
TransmitAgain(t) ==
    /\ tx[t] # End
    /\ open /\ bound
    /\ Len(queue) < Cap
    /\ queue' = Append(queue, tx[t])
    /\ tx' = [tx EXCEPT ![t] = IF Successor(tx[t]) = End THEN PhOf(tx[t].msg)
                               ELSE Successor(tx[t])]
    /\ UNCHANGED <<mutex, outcome, txLimit, open, receiver, delivered, lost, swallowed>>

\* Mutant: a last fragment shorter than TRANSMIT_SIZE is taken for a sendto
\* that has failed.
TransmitShortFails(t) ==
    /\ tx[t] # End
    /\ open /\ bound
    /\ Len(queue) < Cap
    /\ queue' = Append(queue, tx[t])
    /\ IF Successor(tx[t]) = End
       THEN Return(t, IF tx[t].len < FragSize THEN "error" ELSE "ok")
       ELSE /\ tx' = [tx EXCEPT ![t] = Successor(tx[t])]
            /\ UNCHANGED <<mutex, outcome>>
    /\ UNCHANGED <<txLimit, open, receiver, delivered, lost, swallowed>>

\* A sendto that finds the peer: it waits while the peer's queue is full.
Transmit(t) ==
    /\ tx[t] # End
    /\ open /\ bound
    /\ Len(queue) < Cap
    /\ queue' = Append(queue, tx[t])
    /\ IF Successor(tx[t]) = End
       THEN Return(t, "ok")
       ELSE /\ tx' = [tx EXCEPT ![t] = Successor(tx[t])]
            /\ UNCHANGED <<mutex, outcome>>
    /\ UNCHANGED <<txLimit, open, receiver, delivered, lost, swallowed>>

\* Mutant: the error of a sendto is not looked at, and Send returns success.
TransmitFailsUnseen(t) ==
    /\ tx[t] # End
    /\ Return(t, "ok")
    /\ UNCHANGED <<txLimit, open, receiver, queue, delivered, lost, swallowed>>

\* A sendto that fails: there is nobody bound to the path, the own socket is
\* closed, or a signal ends the wait for a full queue, buffers run out, ...
\* Send gives up where it is, and what it has transmitted stays with the
\* peer.  Server::Stop does the same: sendto is a cancellation point, and the
\* unwinding releases m_mutex.
TransmitFails(t) ==
    /\ tx[t] # End
    /\ Return(t, "error")
    /\ UNCHANGED <<txLimit, open, receiver, queue, delivered, lost, swallowed>>

SetTxLimit(l) ==
    /\ txLimit' = l
    /\ UNCHANGED <<mutex, tx, open, receiver, queue, outcome, delivered, lost, swallowed>>

\* CloseSocket and OpenSocket of the sending object, by other threads: a Send
\* under way has its next sendto fail, or finds the new socket in time.
TxClose ==
    /\ open
    /\ open' = FALSE
    /\ UNCHANGED <<mutex, tx, txLimit, receiver, queue, outcome, delivered, lost, swallowed>>

TxOpen ==
    /\ ~open
    /\ open' = TRUE
    /\ UNCHANGED <<mutex, tx, txLimit, receiver, queue, outcome, delivered, lost, swallowed>>

-----------------------------------------------------------------------------
(* The receiving side. *)

\* The message Receive has begun to assemble, as a set of at most one id.
Begun(r) == IF r.at = "ph" THEN {} ELSE {r.ph.id}

\* The message whose protocol header datagram d is, in the same way.
PhId(d) == IF d.part = "ph" THEN {d.msg.id} ELSE {}

\* One recvfrom or read of Receive, to the next one or to its return.
Take ==
    /\ bound
    /\ queue # <<>>
    /\ LET d == Head(queue)
           r == RxNext(rx, d, rxLimit)
       IN /\ queue' = Tail(queue)
          /\ IF Complete(r)
             THEN /\ rx' = RxIdle
                  /\ delivered' = Append(delivered, Received(r))
             ELSE rx' = r /\ UNCHANGED delivered
          /\ lost' = IF RxFails(rx, d, rxLimit)
                     THEN lost \cup Begun(rx) \cup PhId(d)
                     ELSE lost
          /\ swallowed' = IF rx.at = "ph" THEN swallowed ELSE swallowed \cup PhId(d)
    /\ UNCHANGED <<sender, bound, rxLimit, closes, outcome>>

\* The messages whose protocol header is in the queue or was accepted.
InPipe == Begun(rx) \cup
          {queue[i].msg.id : i \in {j \in 1 .. Len(queue) : queue[j].part = "ph"}}

\* Mutant: the message under reception survives the close.
RxCloseKeepsRx ==
    /\ bound
    /\ closes < MaxCloses
    /\ bound' = FALSE
    /\ closes' = closes + 1
    /\ queue' = <<>>
    /\ lost' = lost \cup InPipe
    /\ UNCHANGED <<sender, rx, rxLimit, outcome, delivered, swallowed>>

\* CloseSocket: the kernel drops the queue.
RxClose ==
    /\ bound
    /\ closes < MaxCloses
    /\ bound' = FALSE
    /\ closes' = closes + 1
    /\ queue' = <<>>
    /\ rx' = RxIdle
    /\ lost' = lost \cup InPipe
    /\ UNCHANGED <<sender, rxLimit, outcome, delivered, swallowed>>

\* OpenSocket after a close; sendto finds the new socket by its path, so a
\* Send that was under way goes on into it.
RxOpen ==
    /\ ~bound
    /\ bound' = TRUE
    /\ UNCHANGED <<sender, rx, rxLimit, closes, queue, outcome, delivered, lost, swallowed>>

\* Receive ends in the middle of a message and is called again: a recvfrom or
\* a read of it has failed, or the thread was cancelled there by Stop.  The
\* socket and its queue stay.
RxRestart ==
    /\ bound
    /\ rx # RxIdle
    /\ rx' = RxIdle
    /\ lost' = lost \cup Begun(rx)
    /\ UNCHANGED <<sender, bound, rxLimit, closes, queue, outcome, delivered, swallowed>>

SetRxLimit(l) ==
    /\ rxLimit' = l
    /\ UNCHANGED <<sender, bound, rx, closes, queue, outcome, delivered, lost, swallowed>>

-----------------------------------------------------------------------------
\* The next step of a Send that nothing disturbs.
SenderStep(t) == Transmit(t) \/ (~(open /\ bound) /\ TransmitFails(t))

Next ==
    \/ \E t \in Senders, h \in HdrLens, s \in Sizes : BeginSend(t, h, s)
    \/ \E h \in HdrLens, s \in Sizes : RefuseSend(h, s)
    \/ \E t \in Senders : Transmit(t)
    \/ \E t \in Senders : TransmitFails(t)
    \/ \E l \in Limits : SetTxLimit(l)
    \/ TxClose
    \/ TxOpen
    \/ Take
    \/ RxClose
    \/ RxOpen
    \/ RxRestart
    \/ \E l \in Limits : SetRxLimit(l)

\* A thread inside Send goes on, and the peer keeps calling Receive.
Fairness ==
    /\ \A t \in Senders : WF_vars(SenderStep(t))
    /\ WF_vars(Take)

Spec == Init /\ [][Next]_vars /\ Fairness

-----------------------------------------------------------------------------
(* Properties. *)

\* A state of Receive: nothing read, a protocol header accepted, or also an
\* application header and the first bytes of the body.
RxOK(r) ==
    \/ r = RxIdle
    \/ \E m \in Message : r = [at |-> "hdr", ph |-> m]
    \/ \E m \in Message, d \in Datagram : \E n \in 0 .. m.size :
          r = [at |-> "body", ph |-> m, hdr |-> d, got |-> n, body |-> r.body]

\* Type invariant of the channel.
TypeOK ==
    /\ mutex \in Senders \cup {Nobody}
    /\ tx \in [Senders -> Datagram \cup {End}]
    /\ txLimit \in Limits /\ rxLimit \in Limits
    /\ open \in BOOLEAN /\ bound \in BOOLEAN
    /\ queue \in Seq(Datagram) /\ Len(queue) <= Cap
    /\ RxOK(rx) /\ ~Complete(rx)
    /\ closes \in 0 .. MaxCloses
    /\ outcome \in Seq({"sending", "ok", "error"}) /\ Len(outcome) <= MaxMsgs
    /\ lost \subseteq 1 .. MaxMsgs /\ swallowed \subseteq 1 .. MaxMsgs

\* UnixDomainSocket.h:93, "The connection partner receives the header and
\* body sent": what Receive returns is the header and the body of one call of
\* Send, whole, whatever else happens to the channel.
ReceivedAsSent == \A i \in DOMAIN delivered : IsWhole(delivered[i])

\* The code does not keep that of a message whose Send fails half way: what is
\* sent next is taken for the rest of it.  Of a message whose Send succeeded it
\* does, whatever threads, limits, closes, restarts and failures do meanwhile.
Intact ==
    \A i \in DOMAIN delivered :
        outcome[delivered[i].msg.id] = "ok" => IsWhole(delivered[i])

\* UnixDomainSocket.h:26, "The order of data does not get out of order": the
\* messages are received in the order of the calls of Send, each at most once.
InOrder == \A i, j \in DOMAIN delivered :
               i < j => delivered[i].msg.id < delivered[j].msg.id

\* A message whose Send returned an error, or is still running, has not been
\* received as it was sent: whoever sends it again does not send it twice.
OnlySentIsReceived ==
    \A i \in DOMAIN delivered :
        IsWhole(delivered[i]) => outcome[delivered[i].msg.id] = "ok"

DeliveredIds == {delivered[i].msg.id : i \in DOMAIN delivered}

\* Message h, half sent, stands in for message n: Receive began h, and nothing
\* after it was received up to n.
StandsFor(h, n) ==
    /\ h < n /\ outcome[h] = "error"
    /\ h \in Begun(rx) \cup DeliveredIds \cup lost
    /\ \A k \in h + 1 .. n : k \notin DeliveredIds

\* UnixDomainSocket.h:25, "Data will not disappear": a message whose Send
\* succeeded is on its way or received, unless the receiver closed its socket,
\* failed, was restarted or refused its size, or took it for the rest of a
\* message whose Send had failed; that damage ends with the next one received.
NothingDisappears ==
    /\ \A n \in DOMAIN outcome :
          outcome[n] = "ok" => n \in InPipe \cup DeliveredIds \cup lost \cup swallowed
    /\ \A n \in swallowed : \E h \in DOMAIN outcome : StandsFor(h, n)

\* Send returns: whoever takes m_mutex to send gives it back, although sendto
\* blocks on a full queue.
SendReturns == \A t \in Senders : (mutex = t) ~> (mutex # t)

-----------------------------------------------------------------------------
(* The inductive invariant behind these properties, in named parts.  It    *)
(* follows the stream of datagrams from the receiver's queue to the one    *)
(* the holder of m_mutex transmits next.                                   *)

\* The datagram the thread inside Send transmits next.
Pending == IF mutex = Nobody THEN End ELSE tx[mutex]

\* The i-th datagram the receiver has yet to read.
Stream(i) == IF i <= Len(queue) THEN queue[i] ELSE Pending

\* Who is inside Send holds m_mutex, and conversely.
LockInv == \A t \in Senders : tx[t] # End <=> mutex = t

\* With nobody bound to the path no datagram is kept.
BoundInv == ~bound => queue = <<>> /\ rx = RxIdle

Failed(m) == outcome[m.id] = "error"

Follows(d, e) ==
    \/ e = Successor(d)
    \/ /\ Successor(d) = End \/ Failed(d.msg)
       /\ e = End \/ (e.part = "ph" /\ d.msg.id < e.msg.id)

\* A datagram is followed by the next one of its message.  The last one of a
\* message, and the last one a failed Send has transmitted, is followed by the
\* first one of a later message.
StreamInv == \A i \in 1 .. Len(queue) : Follows(queue[i], Stream(i + 1))

Expected(r) == IF r.at = "hdr" THEN HdrOf(r.ph) ELSE FragOf(r.ph, r.got)

\* What Receive has read so far is the beginning of one message.
InStep(r) == r.at = "body" => r.hdr = HdrOf(r.ph) /\ r.body = BodyPrefix(r.ph, r.got)

\* What Receive has read so far is not all of the message it began with.
Spoiled(r) ==
    /\ r.at = "body"
    /\ r.hdr # HdrOf(r.ph) \/ \E i \in 0 .. r.got - 1 : r.body[i] # <<"frag", r.ph.id, i>>

\* In the middle of a message, the datagram to come is the one that Receive
\* takes it for, or else the Send of the message has failed and the next one
\* begins.  Receive does not notice, and its message is spoiled from there on.
RxInv ==
    rx.at # "ph" =>
        \/ InStep(rx) /\ Stream(1) = Expected(rx)
        \/ /\ InStep(rx) /\ Failed(rx.ph)
           /\ Stream(1) = End \/ (Stream(1).part = "ph" /\ rx.ph.id < Stream(1).msg.id)
        \/ /\ Spoiled(rx) /\ Failed(rx.ph)
           /\ Stream(1) = End \/ rx.ph.id < Stream(1).msg.id

\* The message inside Send is the latest; one whose last datagram is queued
\* was sent with success, and one received is not being sent any more.
HistoryInv ==
    /\ mutex # Nobody => /\ tx[mutex].msg.id = Len(outcome)
                         /\ outcome[Len(outcome)] = "sending"
    /\ \A i \in 1 .. Len(queue) :
          /\ queue[i].msg.id <= Len(outcome)
          /\ Successor(queue[i]) = End => outcome[queue[i].msg.id] = "ok"
    /\ \A k \in DOMAIN delivered : outcome[delivered[k].msg.id] # "sending"

\* Messages received come before the one under reception and whatever the
\* receiver reads next.
OrderInv ==
    /\ rx.at # "ph" => rx.ph.id \in 1 .. Len(outcome)
    /\ \A k \in DOMAIN delivered :
          /\ delivered[k].msg.id \in 1 .. Len(outcome)
          /\ rx.at # "ph" => delivered[k].msg.id < rx.ph.id
          /\ Stream(1) # End => delivered[k].msg.id < Stream(1).msg.id

\* The datagrams in flight make up messages, in order, behind m_mutex, each
\* whole unless its Send has failed.
InFlight == LockInv /\ BoundInv /\ StreamInv /\ RxInv /\ HistoryInv /\ OrderInv

-----------------------------------------------------------------------------
(* Refinement: the messages on their way are those of InPipe. *)

Abstract == INSTANCE MsgChannel
    WITH MsgId  <- 1 .. MaxMsgs,
         pipe   <- InPipe,
         out    <- [i \in DOMAIN delivered |-> delivered[i].msg.id],
         lost   <- lost \cup swallowed,
         failed <- {n \in DOMAIN outcome : outcome[n] = "error"}

\* The channel implements MsgChannel: messages enter the pipe in the order of
\* the calls of Send and leave it at the head, by delivery or by a known loss,
\* but for those behind a message whose Send failed, which it may take with it;
\* and as long as the peer keeps calling Receive none whose Send did not fail
\* lies in it for ever.
ImplementsMsgChannel == Abstract!Spec
=============================================================================
