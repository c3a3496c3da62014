---------------------------- MODULE UdsRpc_proofs ---------------------------
(***************************************************************************)
(* Proofs about UdsRpc, for every set of callers and notifiers, every      *)
(* limit and every size of the kernel's queues: the three locks are held   *)
(* just where the code holds them, no wake-up is lost, messages do not     *)
(* interleave, a request is handled once; and with no notifications and no *)
(* limit at the client, one call at a time is on the wire and a success    *)
(* has had its response come in.                                           *)
(***************************************************************************)
EXTENDS UdsRpc, TLAPS

ServerThreads == Notifiers \cup {Run}

\* Where a caller is, and where one is that has sent for an answer.
Underway == {"sending", "sent", "waiting", "woken", "returning"}
Places == {"idle", "locking"} \cup Underway

\* What the locks' invariant needs to know of the types.
LockTypes ==
    /\ cpc \in [Callers -> Places]
    /\ DOMAIN tx = Threads
    /\ mutexC \in Callers \cup {Nobody} /\ respMutex \in Callers \cup {Nobody}

LockInv == LockTypes /\ LocksAreHeld

\* Callers and the server's threads are different threads, and none is Nobody.
LEMMA ThreadsApart ==
    /\ Callers \subseteq Threads /\ ServerThreads \subseteq Threads
    /\ Callers \cap ServerThreads = {} /\ Nobody \notin Threads
    /\ Notifiers \subseteq ServerThreads /\ Run \in ServerThreads
  BY RpcAssumption DEF Threads, ServerThreads

\* A protocol header is a datagram.
LEMMA PhIsNotEnd == \A m : PhOf(m) # End
  BY DEF PhOf, End

\* Steps of the callers that take, keep or give back the client's locks.
LEMMA CallerKeepsLocks ==
    ASSUME LockInv, NEW c \in Callers,
           \/ Call(c) \/ SendRequest(c) \/ ClearAndWait(c) \/ Resume(c) \/ Return(c)
           \/ SpuriousWakeup(c)
           \/ \E type \in CallTypes, size \in Sizes : BeginRequest(c, type, size)
    PROVE  LockInv'
<1> USE DEF LockInv, LockTypes, LocksAreHeld, Places, Underway
<1>1. c \in Threads /\ c \notin Notifiers \cup {Run} /\ Nobody \notin Callers
  BY ThreadsApart DEF ServerThreads
<1>2. CASE Call(c)
  BY <1>1, <1>2 DEF Call
<1>3. CASE \E type \in CallTypes, size \in Sizes : BeginRequest(c, type, size)
  <2>1. PICK type \in CallTypes, size \in Sizes : BeginRequest(c, type, size)
    BY <1>3
  <2>2. cpc[c] = "locking" /\ respMutex = Nobody /\ mutexC = c /\ tx[c] = End /\ mutexS' = mutexS
    BY <2>1 DEF BeginRequest
  <2>3. CASE /\ respMutex' = c /\ cpc' = [cpc EXCEPT ![c] = "sending"] /\ mutexC' = mutexC
             /\ tx' = [tx EXCEPT ![c] = PhOf(Msg("request", Len(calls) + 1, type, size))]
    <3>1. tx'[c] # End /\ \A t \in Threads : t # c => tx'[t] = tx[t]
      BY <2>3, <1>1, PhIsNotEnd
    <3>2. DOMAIN tx' = Threads
      BY <2>3
    <3> QED
      BY <3>1, <3>2, <2>2, <2>3, <1>1, ThreadsApart DEF ServerThreads
  <2>4. CASE LeaveCall(c) /\ tx' = tx
    BY <2>4, <2>2, <1>1 DEF LeaveCall
  <2> QED
    BY <2>1, <2>3, <2>4 DEF BeginRequest
<1>4. CASE SendRequest(c)
  <2>1. cpc[c] = "sending" /\ mutexC' = mutexC /\ respMutex' = respMutex /\ mutexS' = mutexS
           /\ tx' = [tx EXCEPT ![c] = Successor(tx[c])]
           /\ cpc' = (IF Successor(tx[c]) = End THEN [cpc EXCEPT ![c] = "sent"] ELSE cpc)
    BY <1>4 DEF SendRequest, locks
  <2>2. tx'[c] = Successor(tx[c]) /\ \A t \in Threads : t # c => tx'[t] = tx[t]
    BY <2>1, <1>1
  <2> QED
    BY <2>1, <2>2, <1>1, ThreadsApart DEF ServerThreads
<1>5. CASE ClearAndWait(c)
  BY <1>5, <1>1 DEF ClearAndWait
<1>6. CASE Resume(c)
  <2>1. cpc[c] = "woken" /\ respMutex = Nobody /\ tx' = tx /\ mutexS' = mutexS
    BY <1>6 DEF Resume
  <2>2. \/ cpc' = [cpc EXCEPT ![c] = "waiting"] /\ mutexC' = mutexC /\ respMutex' = respMutex
        \/ cpc' = [cpc EXCEPT ![c] = "returning"] /\ mutexC' = mutexC /\ respMutex' = c
        \/ LeaveCall(c)
    BY <1>6, Zenon DEF Resume
  <2> QED
    BY <2>1, <2>2, <1>1 DEF LeaveCall
<1>7. CASE SpuriousWakeup(c)
  BY <1>7, <1>1 DEF SpuriousWakeup, locks
<1>8. CASE Return(c)
  <2>1. cpc[c] = "returning" /\ tx' = tx /\ mutexS' = mutexS /\ LeaveCall(c)
    BY <1>8 DEF Return
  <2> QED
    BY <2>1, <1>1 DEF LeaveCall
<1> QED
  BY <1>2, <1>3, <1>4, <1>5, <1>6, <1>7, <1>8

\* The response thread wakes callers, and holds no lock between its steps.
LEMMA ClientKeepsLocks ==
    ASSUME LockInv, ClientTake \/ CheckResult \/ Arrive \/ Store
    PROVE  LockInv'
<1> USE DEF LockInv, LockTypes, LocksAreHeld, Places, Underway
<1>1. mutexC' = mutexC /\ respMutex' = respMutex /\ mutexS' = mutexS /\ tx' = tx
  BY DEF ClientTake, CheckResult, Arrive, Store, locks
<1>2. cpc' = cpc \/ Signal
  BY DEF ClientTake, CheckResult, Arrive, Store
<1>3. /\ cpc' \in [Callers -> Places]
      /\ \A c \in Callers : cpc'[c] = cpc[c] \/ (cpc[c] = "waiting" /\ cpc'[c] = "woken")
  BY <1>2 DEF Signal
<1> QED
  BY <1>1, <1>3

\* The server's threads take its m_mutex for one Send each.
LEMMA ServerKeepsLocks ==
    ASSUME LockInv,
           \/ Start \/ Stop \/ EndRun \/ BeginReply
           \/ \E size \in Sizes : ServerTake(size)
           \/ \E n \in Notifiers, type \in NoteTypes, size \in Sizes : BeginNote(n, type, size)
           \/ \E t \in Notifiers \cup {Run} : ServerSend(t)
    PROVE  LockInv'
<1> USE DEF LockInv, LockTypes, LocksAreHeld, Places, Underway
<1>1. cpc' = cpc /\ mutexC' = mutexC /\ respMutex' = respMutex
  BY DEF Start, Stop, EndRun, BeginReply, ServerTake, BeginNote, ServerSend, locks
<1>2. CASE mutexS' = mutexS /\ tx' = tx
  BY <1>1, <1>2
<1>3. CASE \E t \in ServerThreads : \E m :
             mutexS = Nobody /\ mutexS' = t /\ tx' = [tx EXCEPT ![t] = PhOf(m)]
  <2>0. PICK t \in ServerThreads : \E m :
            mutexS = Nobody /\ mutexS' = t /\ tx' = [tx EXCEPT ![t] = PhOf(m)]
    BY <1>3
  <2>1. PICK m : mutexS = Nobody /\ mutexS' = t /\ tx' = [tx EXCEPT ![t] = PhOf(m)]
    BY <2>0
  <2>2. tx'[t] # End /\ \A u \in Threads : u # t => tx'[u] = tx[u]
    BY <2>1, ThreadsApart, PhIsNotEnd
  <2>3. DOMAIN tx' = Threads
    BY <2>1
  <2> QED
    BY <1>1, <2>1, <2>2, <2>3, ThreadsApart DEF ServerThreads
<1>4. CASE \E t \in ServerThreads : ServerSend(t)
  <2>1. PICK t \in ServerThreads : ServerSend(t)
    BY <1>4
  <2>2. tx[t] # End /\ mutexS = t /\ tx' = [tx EXCEPT ![t] = Successor(tx[t])]
           /\ mutexS' = (IF Successor(tx[t]) = End THEN Nobody ELSE mutexS)
    BY <2>1 DEF ServerSend, ServerThreads
  <2>3. tx'[t] = Successor(tx[t]) /\ \A u \in Threads : u # t => tx'[u] = tx[u]
    BY <2>2, ThreadsApart
  <2>4. DOMAIN tx' = Threads
    BY <2>2
  <2> QED
    BY <1>1, <2>2, <2>3, <2>4, ThreadsApart DEF ServerThreads
<1>5. Start \/ Stop \/ (\E size \in Sizes : ServerTake(size)) => mutexS' = mutexS /\ tx' = tx
  BY DEF Start, Stop, ServerTake, locks
<1>6. ASSUME BeginReply
      PROVE  LockInv'
  <2>1. \/ mutexS' = mutexS /\ tx' = tx
        \/ mutexS = Nobody /\ mutexS' = Run /\ tx' = [tx EXCEPT ![Run] = PhOf(reply)]
    BY <1>6 DEF BeginReply
  <2> HIDE DEF LockInv
  <2> QED
    BY <2>1, <1>2, <1>3, ThreadsApart, Zenon
<1>7. ASSUME NEW n \in Notifiers, NEW type \in NoteTypes, NEW size \in Sizes,
             BeginNote(n, type, size)
      PROVE  LockInv'
  <2>1. \/ mutexS' = mutexS /\ tx' = tx
        \/ /\ mutexS = Nobody /\ mutexS' = n
           /\ tx' = [tx EXCEPT ![n] = PhOf(Msg("note", notes + 1, type, size))]
    BY <1>7 DEF BeginNote
  <2>2. n \in ServerThreads
    BY ThreadsApart
  <2> HIDE DEF LockInv
  <2> QED
    BY <2>1, <2>2, <1>2, <1>3, Zenon
<1>8. CASE EndRun
  <2>1. /\ tx' = [tx EXCEPT ![Run] = End]
        /\ mutexS' = (IF mutexS = Run THEN Nobody ELSE mutexS)
    BY <1>8 DEF EndRun
  <2>2. tx'[Run] = End /\ \A u \in Threads : u # Run => tx'[u] = tx[u]
    BY <2>1, ThreadsApart
  <2>3. DOMAIN tx' = Threads
    BY <2>1
  <2> QED
    BY <1>1, <2>1, <2>2, <2>3, ThreadsApart DEF ServerThreads
<1> HIDE DEF LockInv
<1> QED
  BY <1>2, <1>4, <1>5, <1>6, <1>7, <1>8, Zenon DEF ServerThreads

\* Every step keeps the locks' invariant.
LEMMA LockStep == LockInv /\ [Next]_vars => LockInv'
<1> SUFFICES ASSUME LockInv, [Next]_vars PROVE LockInv'
  OBVIOUS
<1>1. CASE UNCHANGED vars
  BY <1>1 DEF vars, locks, LockInv, LockTypes, LocksAreHeld
<1>2. CASE Next
  <2>1. CASE Finished
    BY <2>1, <1>1 DEF Finished
  <2> QED
    BY <1>2, <2>1, CallerKeepsLocks, ClientKeepsLocks, ServerKeepsLocks, Zenon DEF Next
<1> QED
  BY <1>1, <1>2

\* m_mutex of the client is held from the start of a call to its end, its
\* m_responseMutex except during the wait, and m_mutex of the server during
\* every Send, by the thread that is there and by no other.
THEOREM LocksAreHeldCorrectly == Spec => []LocksAreHeld
<1>1. Init => LockInv
  BY ThreadsApart DEF Init, LockInv, LockTypes, LocksAreHeld, Places, Threads, ServerThreads
<1>2. LockInv => LocksAreHeld
  BY DEF LockInv
<1> QED
  BY <1>1, <1>2, LockStep, PTL DEF Spec

-----------------------------------------------------------------------------
\* A step that sets m_responseArrived wakes whoever waits; one that goes to
\* wait has found it cleared.
LEMMA WakeupStep == LockInv /\ NoLostWakeup /\ [Next]_vars => NoLostWakeup'
<1> SUFFICES ASSUME LockInv, NoLostWakeup, [Next]_vars,
                    NEW c \in Callers, cpc'[c] = "waiting"
             PROVE  ~arrived'
  BY DEF NoLostWakeup
<1> USE DEF NoLostWakeup, LockInv, LockTypes
<1>1. CASE UNCHANGED <<cpc, arrived>>
  BY <1>1
<1>2. ASSUME NEW d \in Callers,
             \/ Call(d) \/ SendRequest(d) \/ SpuriousWakeup(d) \/ Return(d)
             \/ \E type \in CallTypes, size \in Sizes : BeginRequest(d, type, size)
      PROVE  ~arrived'
  <2>1. arrived' = arrived
    BY <1>2 DEF Call, SendRequest, SpuriousWakeup, Return, BeginRequest, members
  <2>2. \E s \in {"locking", "sent", "woken", "sending", "idle"} :
            cpc' = cpc \/ cpc' = [cpc EXCEPT ![d] = s]
    BY <1>2 DEF Call, SendRequest, SpuriousWakeup, Return, BeginRequest, LeaveCall
  <2>3. cpc[c] = "waiting"
    BY <2>2
  <2> QED
    BY <2>1, <2>3
<1>3. ASSUME NEW d \in Callers, ClearAndWait(d) PROVE ~arrived'
  BY <1>3 DEF ClearAndWait
<1>4. ASSUME NEW d \in Callers, Resume(d) PROVE ~arrived'
  <2>1. CASE ~arrived
    BY <1>4, <2>1 DEF Resume, members
  <2>2. CASE arrived
    <3>1. \E s \in {"returning", "idle"} : cpc' = [cpc EXCEPT ![d] = s]
      BY <1>4, <2>2, Zenon DEF Resume, LeaveCall
    <3> QED
      BY <3>1, <2>2
  <2> QED
    BY <2>1, <2>2
<1>5. ASSUME Arrive \/ Store PROVE ~arrived'
  BY <1>5 DEF Arrive, Store, Signal
<1>6. ASSUME \/ ClientTake \/ CheckResult \/ Start \/ Stop \/ EndRun \/ BeginReply \/ Finished
             \/ \E size \in Sizes : ServerTake(size)
             \/ \E n \in Notifiers, type \in NoteTypes, size \in Sizes : BeginNote(n, type, size)
             \/ \E t \in Notifiers \cup {Run} : ServerSend(t)
      PROVE  UNCHANGED <<cpc, arrived>>
  BY <1>6 DEF ClientTake, CheckResult, Start, Stop, EndRun, BeginReply, ServerTake, BeginNote, ServerSend,
              Finished, vars, members
<1>7. UNCHANGED vars => UNCHANGED <<cpc, arrived>>
  BY DEF vars, members
<1> QED
  BY <1>1, <1>2, <1>3, <1>4, <1>5, <1>6, <1>7 DEF Next

\* A caller that sleeps on the condition has nothing to be woken for: every
\* arrival set while it sleeps has woken it.
THEOREM NoWakeupIsLost == Spec => []NoLostWakeup
<1>1. Init => LockInv /\ NoLostWakeup
  BY ThreadsApart
     DEF Init, LockInv, LockTypes, LocksAreHeld, Places, NoLostWakeup, Threads, ServerThreads
<1>2. LockInv /\ NoLostWakeup /\ [Next]_vars => (LockInv /\ NoLostWakeup)'
  BY LockStep, WakeupStep
<1> QED
  BY <1>1, <1>2, PTL DEF Spec

-----------------------------------------------------------------------------
(* Types. *)

Messages ==
    [id : {"request", "response", "note"} \X Nat, type : Nat, hlen : {1}, size : Nat]

\* What Send transmits of a message.
IsDatagram(d) ==
    /\ d.msg \in Messages
    /\ \/ d = PhOf(d.msg)
       \/ d = HdrOf(d.msg)
       \/ d.off \in Nat /\ d.off < d.msg.size /\ d = FragOf(d.msg, d.off)

Datagrams ==
    {d \in [part : {"ph", "hdr", "frag"}, msg : Messages, off : Nat, len : Nat] : IsDatagram(d)}

LEMMA MsgIs ==
    ASSUME NEW what \in {"request", "response", "note"}, NEW n \in Nat,
           NEW type \in Nat, NEW size \in Nat
    PROVE  /\ Msg(what, n, type, size) \in Messages
           /\ Msg(what, n, type, size).id = <<what, n>>
           /\ Msg(what, n, type, size).size = size
           /\ Msg(what, n, type, size).type = type
  BY DEF Msg, Messages

LEMMA PhIs ==
    ASSUME NEW m \in Messages
    PROVE  PhOf(m) \in Datagrams /\ PhOf(m).part = "ph" /\ PhOf(m).msg = m
  BY FramingAssumption DEF PhOf, Datagrams, IsDatagram

LEMMA HdrIs ==
    ASSUME NEW m \in Messages
    PROVE  /\ HdrOf(m) \in Datagrams /\ HdrOf(m).part = "hdr" /\ HdrOf(m).msg = m
           /\ HdrOf(m).len = 1
  BY DEF HdrOf, Datagrams, IsDatagram, Messages

LEMMA FragIs ==
    ASSUME NEW m \in Messages, NEW o \in Nat, o < m.size
    PROVE  /\ FragOf(m, o) \in Datagrams /\ FragOf(m, o).part = "frag" /\ FragOf(m, o).msg = m
           /\ FragOf(m, o).off = o /\ FragOf(m, o).len = Smaller(FragSize, m.size - o)
           /\ FragOf(m, o).len \in 1 .. m.size - o
<1>1. m.size \in Nat /\ FragSize \in Nat \ {0}
  BY FramingAssumption DEF Messages
<1>2. Smaller(FragSize, m.size - o) \in 1 .. m.size - o /\ Smaller(FragSize, m.size - o) \in Nat
  BY <1>1 DEF Smaller
<1> QED
  BY <1>2 DEF FragOf, Datagrams, IsDatagram

LEMMA DatagramIs ==
    ASSUME NEW d \in Datagrams
    PROVE  /\ d # End /\ d.msg \in Messages /\ d.part \in {"ph", "hdr", "frag"}
           /\ d.part = "ph" => d = PhOf(d.msg)
           /\ d.part = "hdr" => d = HdrOf(d.msg)
           /\ d.part = "frag" => d.off \in Nat /\ d.off < d.msg.size /\ d = FragOf(d.msg, d.off)
<1>1. d.part # "end" /\ d.msg \in Messages /\ d.part \in {"ph", "hdr", "frag"} /\ IsDatagram(d)
  BY DEF Datagrams
<1>2. d # End
  BY <1>1 DEF End
<1>3. /\ d = PhOf(d.msg) => d.part = "ph"
      /\ d = HdrOf(d.msg) => d.part = "hdr"
      /\ d = FragOf(d.msg, d.off) => d.part = "frag"
  BY DEF PhOf, HdrOf, FragOf
<1> QED
  BY <1>1, <1>2, <1>3, Zenon DEF IsDatagram

\* After a datagram Send transmits another one of the same message, but never its
\* protocol header, or nothing.
LEMMA SuccessorIs ==
    ASSUME NEW d \in Datagrams
    PROVE  \/ Successor(d) = End /\ d.part # "ph"
           \/ /\ Successor(d) \in Datagrams /\ Successor(d).msg = d.msg
              /\ Successor(d).part \in {"hdr", "frag"}
<1>1. d.msg \in Messages /\ d.part \in {"ph", "hdr", "frag"} /\ d.msg.size \in Nat
  BY DatagramIs DEF Messages
<1>2. CASE d.part = "ph"
  BY <1>1, <1>2, HdrIs DEF Successor
<1>3. CASE d.part = "hdr"
  <2>1. BodySent(d) = 0
    BY <1>3 DEF BodySent
  <2>2. Successor(d) = IF d.msg.size = 0 THEN End ELSE FragOf(d.msg, 0)
    BY <1>3, <2>1 DEF Successor
  <2> QED
    BY <1>1, <1>3, <2>2, FragIs
<1>4. CASE d.part = "frag"
  <2>1. d.off \in Nat /\ d.off < d.msg.size /\ d = FragOf(d.msg, d.off)
    BY <1>4, DatagramIs
  <2>2. d.len \in 1 .. d.msg.size - d.off
    BY <1>1, <2>1, FragIs
  <2>3. BodySent(d) = d.off + d.len /\ BodySent(d) \in Nat /\ BodySent(d) <= d.msg.size
    BY <1>1, <1>4, <2>1, <2>2 DEF BodySent
  <2>4. Successor(d) = IF BodySent(d) = d.msg.size THEN End ELSE FragOf(d.msg, BodySent(d))
    BY <1>4 DEF Successor
  <2> QED
    BY <1>1, <1>4, <2>3, <2>4, FragIs
<1> QED
  BY <1>1, <1>2, <1>3, <1>4

\* A call of Receive between two reads.
RxOK(rx) ==
    \/ rx = RxIdle
    \/ rx.at = "hdr" /\ rx.ph \in Messages
    \/ rx.at = "body" /\ rx.ph \in Messages /\ rx.got \in Nat /\ rx.got < rx.ph.size

\* One read leaves it between two reads, or completes a message whose protocol
\* header it had accepted before.
LEMMA RxNextIs ==
    ASSUME NEW rx, RxOK(rx), NEW d \in Datagrams, NEW limit
    PROVE  LET r == RxNext(rx, d, limit)
           IN /\ ~Complete(r) => RxOK(r)
              /\ rx.at # "ph" => r = RxIdle \/ (r.at = "body" /\ r.ph = rx.ph)
              /\ rx.at = "ph" => \/ r = RxIdle
                                 \/ r.at = "hdr" /\ r.ph = d.msg /\ d.part = "ph"
              /\ Complete(r) => rx.at # "ph" /\ r.ph = rx.ph /\ r.ph \in Messages
<1> DEFINE r == RxNext(rx, d, limit)
<1>1. d.msg \in Messages /\ d.len \in Nat
  BY DEF Datagrams
<1>2. CASE rx.at = "ph"
  <2>1. r = IF AcceptsPh(d, limit) THEN [at |-> "hdr", ph |-> d.msg] ELSE RxIdle
    BY <1>2, Zenon DEF RxNext
  <2>2. r = RxIdle \/ (r.at = "hdr" /\ r.ph = d.msg /\ d.part = "ph")
    BY <2>1 DEF AcceptsPh
  <2>3. ~Complete(r)
    BY <2>2 DEF Complete, RxIdle
  <2> QED
    BY <1>1, <1>2, <2>2, <2>3 DEF RxOK
<1>3. CASE rx.at = "hdr"
  <2>1. rx.ph \in Messages /\ rx.ph.size \in Nat
    BY <1>3 DEF RxOK, RxIdle, Messages
  <2>2. r = RxIdle \/ (r.at = "body" /\ r.ph = rx.ph /\ r.got = 0)
    BY <1>3 DEF RxNext
  <2> QED
    BY <1>3, <2>1, <2>2 DEF RxOK, Complete, RxIdle
<1>4. CASE rx.at = "body"
  <2>1. rx.ph \in Messages /\ rx.ph.size \in Nat /\ rx.got \in Nat /\ rx.got < rx.ph.size
    BY <1>4 DEF RxOK, RxIdle, Messages
  <2>2. r.at = "body" /\ r.ph = rx.ph /\ r.got = rx.got + BodyRead(rx, d)
    BY <1>4 DEF RxNext
  <2>3. BodyRead(rx, d) \in 0 .. rx.ph.size - rx.got
    BY <1>1, <2>1, FramingAssumption DEF BodyRead, Smaller
  <2> QED
    BY <1>4, <2>1, <2>2, <2>3 DEF RxOK, Complete
<1>5. rx.at = "ph" \/ rx.at = "hdr" \/ rx.at = "body"
  BY DEF RxOK, RxIdle
<1> QED
  BY <1>2, <1>3, <1>4, <1>5, Zenon

Buffers == Messages \cup {None}

CallRecords ==
    [by : Callers, type : {0, 2}, status : {"open", "ok", "failed", "error"}, resp : Buffers]

\* Where the threads are, and the counters.
ControlOK ==
    /\ rpc \in {"receive", "check", "arrive", "store"}
    /\ arrived \in BOOLEAN /\ isSuccess \in BOOLEAN /\ running \in BOOLEAN
    /\ stopping \in BOOLEAN /\ halved \in BOOLEAN
    /\ stops \in 0 .. MaxStops /\ notes \in 0 .. MaxNotes
    /\ mutexS \in ServerThreads \cup {Nobody}

\* What is being sent, in the queues and in the buffers.
DataOK ==
    /\ tx \in [Threads -> Datagrams \cup {End}]
    /\ toServer \in Seq(Datagrams) /\ toClient \in Seq(Datagrams)
    /\ Len(toServer) <= Cap /\ Len(toClient) <= Cap
    /\ RxOK(srx) /\ RxOK(crx)
    /\ reply \in Buffers /\ header \in Buffers /\ response \in Buffers
    /\ respHeader \in Buffers /\ resp \in Buffers
    /\ handled \in Seq(Nat) /\ received \in Seq(Messages)

\* The calls so far; a caller that is about to make one has room for it, and
\* one that has made it finds it last and open.
CallsOK ==
    /\ calls \in Seq(CallRecords) /\ Len(calls) <= MaxCalls
    /\ \A c \in Callers :
          /\ cpc[c] = "locking" => Len(calls) < MaxCalls
          /\ cpc[c] \in Underway =>
                /\ calls # <<>>
                /\ calls[Len(calls)].by = c /\ calls[Len(calls)].status = "open"

TypeInv == LockInv /\ ControlOK /\ DataOK /\ CallsOK

LEMMA ControlStep == ControlOK /\ [Next]_vars => ControlOK'
<1> SUFFICES ASSUME ControlOK, [Next]_vars PROVE ControlOK'
  OBVIOUS
<1>1. stops \in Nat /\ notes \in Nat /\ MaxStops \in Nat /\ MaxNotes \in Nat
  BY RpcAssumption DEF ControlOK
<1>2. CASE \/ \E c \in Callers : Call(c) \/ SendRequest(c) \/ SpuriousWakeup(c) \/ Return(c)
           \/ \E c \in Callers, type \in CallTypes, size \in Sizes : BeginRequest(c, type, size)
           \/ Finished \/ UNCHANGED vars
  <2>1. UNCHANGED <<rpc, arrived, isSuccess, running, stopping, halved, stops, notes, mutexS>>
    BY <1>2 DEF Call, SendRequest, SpuriousWakeup, Return, BeginRequest, Finished, vars, locks,
                members, client, server
  <2> QED
    BY <2>1, Zenon DEF ControlOK
<1>3. CASE \E c \in Callers : ClearAndWait(c) \/ Resume(c)
  <2>1. UNCHANGED <<rpc, running, stopping, halved, stops, notes, mutexS>>
    BY <1>3 DEF ClearAndWait, Resume, client, server
  <2>2. arrived' \in {arrived, FALSE} /\ isSuccess' \in {isSuccess, TRUE}
    BY <1>3, Zenon DEF ClearAndWait, Resume, members
  <2> QED
    BY <2>1, <2>2, Zenon DEF ControlOK
<1>4. CASE ClientTake \/ CheckResult \/ Arrive \/ Store
  <2>1. UNCHANGED <<running, stopping, halved, stops, notes, mutexS>>
    BY <1>4 DEF ClientTake, CheckResult, Arrive, Store, locks, server
  <2>2. rpc' \in {rpc, "receive", "check", "arrive", "store"}
    BY <1>4, Zenon DEF ClientTake, CheckResult, Arrive, Store
  <2>3. arrived' \in {arrived, TRUE} /\ isSuccess' \in {isSuccess, TRUE, FALSE}
    BY <1>4, Zenon DEF ClientTake, CheckResult, Arrive, Store, members
  <2> QED
    BY <2>1, <2>2, <2>3, Zenon DEF ControlOK
<1>5. CASE Start \/ BeginReply \/ \E size \in Sizes : ServerTake(size)
  <2>1. UNCHANGED <<rpc, arrived, isSuccess, stopping, halved, stops, notes>>
    BY <1>5 DEF Start, BeginReply, ServerTake, members, client
  <2>2. mutexS' \in {mutexS, Run} /\ running' \in {running, TRUE}
    BY <1>5, Zenon DEF Start, BeginReply, ServerTake, locks
  <2> QED
    BY <2>1, <2>2, Zenon DEF ControlOK, ServerThreads
<1>6. CASE Stop \/ EndRun
  <2>1. UNCHANGED <<rpc, arrived, isSuccess, notes>>
    BY <1>6 DEF Stop, EndRun, members, client
  <2>2. mutexS' \in {mutexS, Nobody} /\ running' \in {running, FALSE} /\ stopping' \in BOOLEAN
    BY <1>6, Zenon DEF Stop, EndRun, locks
  <2>3. halved' = halved \/ halved' \in BOOLEAN
    BY <1>6, Zenon DEF Stop, EndRun
  <2>4. stops' \in 0 .. MaxStops
    BY <1>1, <1>6 DEF Stop, EndRun, ControlOK
  <2> QED
    BY <2>1, <2>2, <2>3, <2>4, Zenon DEF ControlOK
<1>7. CASE \/ \E n \in Notifiers, type \in NoteTypes, size \in Sizes : BeginNote(n, type, size)
           \/ \E t \in Notifiers \cup {Run} : ServerSend(t)
  <2>1. UNCHANGED <<rpc, arrived, isSuccess, running, stopping, halved, stops>>
    BY <1>7 DEF BeginNote, ServerSend, members, client, server
  <2>2. mutexS' \in ServerThreads \cup {Nobody}
    BY <1>7, Zenon DEF BeginNote, ServerSend, ControlOK, ServerThreads
  <2>3. notes' \in 0 .. MaxNotes
    BY <1>1, <1>7 DEF BeginNote, ServerSend, ControlOK
  <2> QED
    BY <2>1, <2>2, <2>3, Zenon DEF ControlOK
<1> QED
  BY <1>2, <1>3, <1>4, <1>5, <1>6, <1>7, Zenon DEF Next

\* One Send more: the next datagram is appended and its successor is next.
LEMMA SendTypes ==
    ASSUME DataOK, NEW t \in Threads, tx[t] # End,
           NEW q \in Seq(Datagrams), Len(q) < Cap
    PROVE  /\ tx[t] \in Datagrams /\ Append(q, tx[t]) \in Seq(Datagrams)
           /\ Len(Append(q, tx[t])) <= Cap /\ Len(Append(q, tx[t])) = Len(q) + 1
           /\ [tx EXCEPT ![t] = Successor(tx[t])] \in [Threads -> Datagrams \cup {End}]
<1>1. tx[t] \in Datagrams
  BY DEF DataOK
<1>2. Successor(tx[t]) \in Datagrams \cup {End}
  BY <1>1, SuccessorIs
<1>3. Append(q, tx[t]) \in Seq(Datagrams) /\ Len(Append(q, tx[t])) = Len(q) + 1
  BY <1>1
<1> QED
  BY <1>1, <1>2, <1>3, RpcAssumption DEF DataOK

LEMMA DataByCallers ==
    ASSUME TypeInv, NEW c \in Callers,
           \/ Call(c) \/ SendRequest(c) \/ ClearAndWait(c) \/ Resume(c) \/ Return(c)
           \/ SpuriousWakeup(c)
           \/ \E type \in CallTypes, size \in Sizes : BeginRequest(c, type, size)
    PROVE  DataOK'
<1>1. c \in Threads /\ DataOK /\ Len(calls) \in Nat
  BY ThreadsApart DEF TypeInv, CallsOK
<1>2. UNCHANGED <<toClient, crx, srx, reply, header, response, handled, received>>
  BY DEF Call, SendRequest, ClearAndWait, Resume, Return, SpuriousWakeup, BeginRequest, client, server
<1>3. (respHeader' = respHeader \/ respHeader' = None) /\ (resp' = resp \/ resp' = None)
  BY Zenon DEF Call, SendRequest, ClearAndWait, Resume, Return, SpuriousWakeup, BeginRequest, members
<1>4. respHeader' \in Buffers /\ resp' \in Buffers
  BY <1>1, <1>3 DEF DataOK, Buffers
<1>5. CASE UNCHANGED <<tx, toServer>>
  BY <1>1, <1>2, <1>4, <1>5, Zenon DEF DataOK
<1>6. CASE SendRequest(c)
  <2>1. /\ tx[c] # End /\ Len(toServer) < Cap /\ toServer' = Append(toServer, tx[c])
        /\ tx' = [tx EXCEPT ![c] = Successor(tx[c])]
    BY <1>6 DEF SendRequest, TypeInv, LockInv, LocksAreHeld
  <2>2. tx' \in [Threads -> Datagrams \cup {End}]
    BY <1>1, <2>1, SendTypes DEF DataOK
  <2>3. toServer' \in Seq(Datagrams) /\ Len(toServer') <= Cap
    BY <1>1, <2>1, SendTypes DEF DataOK
  <2> QED
    BY <1>1, <1>2, <1>4, <2>2, <2>3, Zenon DEF DataOK
<1>7. ASSUME NEW type \in CallTypes, NEW size \in Sizes, BeginRequest(c, type, size)
      PROVE  DataOK'
  <2> DEFINE m == Msg("request", Len(calls) + 1, type, size)
  <2>0. Len(calls) + 1 \in Nat /\ type \in Nat /\ size \in Nat
    BY <1>1, RpcAssumption
  <2>1. m \in Messages
    BY <2>0, MsgIs
  <2>2. PhOf(m) \in Datagrams
    BY <2>1, PhIs
  <2>3. toServer' = toServer /\ (tx' = tx \/ tx' = [tx EXCEPT ![c] = PhOf(m)])
    BY <1>7, Zenon DEF BeginRequest
  <2>4. tx' \in [Threads -> Datagrams \cup {End}]
    BY <1>1, <2>2, <2>3 DEF DataOK
  <2> QED
    BY <1>1, <1>2, <1>4, <2>3, <2>4, Zenon DEF DataOK
<1>8. Call(c) \/ ClearAndWait(c) \/ Resume(c) \/ Return(c) \/ SpuriousWakeup(c)
         => UNCHANGED <<tx, toServer>>
  BY DEF Call, ClearAndWait, Resume, Return, SpuriousWakeup
<1> QED
  BY <1>5, <1>6, <1>7, <1>8, Zenon

LEMMA DataByClient ==
    ASSUME DataOK, ClientTake \/ CheckResult \/ Arrive \/ Store
    PROVE  DataOK'
<1>1. UNCHANGED <<tx, toServer, srx, reply, handled>>
  BY DEF ClientTake, CheckResult, Arrive, Store, server
<1>2. CASE CheckResult \/ Arrive \/ Store
  <2>1. UNCHANGED <<toClient, crx, header, received>>
    BY <1>2 DEF CheckResult, Arrive, Store
  <2>2. /\ response' = response \/ response' = None
        /\ respHeader' = respHeader \/ respHeader' = header
        /\ resp' = resp \/ resp' = response
    BY <1>2, Zenon DEF CheckResult, Arrive, Store, members
  <2>3. response' \in Buffers /\ respHeader' \in Buffers /\ resp' \in Buffers
    BY <2>2 DEF DataOK, Buffers
  <2> QED
    BY <1>1, <2>1, <2>3, Zenon DEF DataOK
<1>3. CASE ClientTake
  <2> DEFINE d == Head(toClient)
             r == RxNext(crx, d, ClientLimit)
  <2>1. UNCHANGED <<respHeader, resp>> /\ toClient # <<>> /\ toClient' = Tail(toClient)
    BY <1>3 DEF ClientTake
  <2>2. d \in Datagrams /\ toClient' \in Seq(Datagrams) /\ Len(toClient') <= Cap
    BY <2>1, RpcAssumption DEF DataOK
  <2>3. RxOK(crx) /\ RxOK(RxIdle)
    BY DEF DataOK, RxOK
  <2>4. CASE Complete(r)
    <3>1. crx' = RxIdle /\ header' = r.ph /\ response' = r.ph /\ received' = Append(received, r.ph)
      BY <1>3, <2>4 DEF ClientTake
    <3>2. r.ph \in Messages
      BY <2>2, <2>3, <2>4, RxNextIs, Zenon
    <3>3. received' \in Seq(Messages) /\ header' \in Buffers /\ response' \in Buffers
      <4> HIDE DEF r
      <4> QED
        BY <3>1, <3>2 DEF DataOK, Buffers
    <3> QED
      BY <1>1, <2>1, <2>2, <2>3, <3>1, <3>3, Zenon DEF DataOK
  <2>5. CASE ~Complete(r)
    <3>1. crx' = r /\ UNCHANGED <<header, response, received>>
      BY <1>3, <2>5 DEF ClientTake
    <3>2. RxOK(r)
      BY <2>2, <2>3, <2>5, RxNextIs, Zenon
    <3> QED
      BY <1>1, <2>1, <2>2, <3>1, <3>2, Zenon DEF DataOK
  <2> QED
    BY <2>4, <2>5
<1> QED
  BY <1>2, <1>3

LEMMA DataByServer ==
    ASSUME TypeInv,
           \/ Start \/ Stop \/ EndRun \/ BeginReply
           \/ \E size \in Sizes : ServerTake(size)
           \/ \E n \in Notifiers, type \in NoteTypes, size \in Sizes : BeginNote(n, type, size)
           \/ \E t \in Notifiers \cup {Run} : ServerSend(t)
    PROVE  DataOK'
<1>1. DataOK /\ Run \in Threads /\ Notifiers \subseteq Threads /\ None \in Buffers
  BY ThreadsApart DEF TypeInv, Buffers, ServerThreads
<1>2. UNCHANGED <<respHeader, resp, crx, header, response, received>>
  BY DEF Start, Stop, EndRun, BeginReply, ServerTake, BeginNote, ServerSend, members, client
<1>3. CASE Start \/ Stop
  BY <1>1, <1>2, <1>3, Zenon DEF Start, Stop, DataOK
<1>4. CASE EndRun
  <2>1. /\ UNCHANGED <<toServer, toClient, handled>> /\ reply' = None /\ srx' = RxIdle
        /\ tx' = [tx EXCEPT ![Run] = End]
    BY <1>4 DEF EndRun
  <2>2. tx' \in [Threads -> Datagrams \cup {End}] /\ RxOK(srx')
    BY <1>1, <2>1 DEF DataOK, RxOK
  <2> QED
    BY <1>1, <1>2, <2>1, <2>2, Zenon DEF DataOK
<1>5. CASE BeginReply
  <2>1. /\ UNCHANGED <<toServer, toClient, handled, srx>> /\ (reply' = reply \/ reply' = None)
        /\ (tx' = tx \/ tx' = [tx EXCEPT ![Run] = PhOf(reply)]) /\ reply # None
    BY <1>5, Zenon DEF BeginReply
  <2>2. PhOf(reply) \in Datagrams
    BY <1>1, <2>1, PhIs DEF DataOK, Buffers
  <2>3. tx' \in [Threads -> Datagrams \cup {End}]
    BY <1>1, <2>1, <2>2 DEF DataOK
  <2>4. reply' \in Buffers
    BY <1>1, <2>1 DEF DataOK
  <2> QED
    BY <1>1, <1>2, <2>1, <2>3, <2>4, Zenon DEF DataOK
<1>6. ASSUME NEW size \in Sizes, ServerTake(size)
      PROVE  DataOK'
  <2> DEFINE d == Head(toServer)
             r == RxNext(srx, d, ServerLimit)
             n == IF r.ph.type = 2 THEN 1 ELSE size
  <2>1. UNCHANGED <<tx, toClient>> /\ toServer # <<>> /\ toServer' = Tail(toServer)
    BY <1>6 DEF ServerTake
  <2>2. d \in Datagrams /\ toServer' \in Seq(Datagrams) /\ Len(toServer') <= Cap
    BY <1>1, <2>1, RpcAssumption DEF DataOK
  <2>3. RxOK(srx) /\ RxOK(RxIdle)
    BY <1>1 DEF DataOK, RxOK
  <2>4. CASE Complete(r)
    <3>1. /\ srx' = RxIdle /\ handled' = Append(handled, r.ph.id[2])
          /\ reply' = Msg("response", r.ph.id[2], r.ph.type, n)
      BY <1>6, <2>4 DEF ServerTake
    <3>2. r.ph \in Messages
      BY <2>2, <2>3, <2>4, RxNextIs, Zenon
    <3>3. r.ph.id[2] \in Nat /\ r.ph.type \in Nat /\ n \in Nat
      <4> HIDE DEF r
      <4> QED
        BY <3>2, RpcAssumption DEF Messages
    <3>4. handled' \in Seq(Nat)
      <4> HIDE DEF r
      <4> QED
        BY <1>1, <3>1, <3>3 DEF DataOK
    <3>5. reply' \in Buffers
      <4> HIDE DEF r, n
      <4> QED
        BY <3>1, <3>3, MsgIs DEF Buffers
    <3> QED
      BY <1>1, <1>2, <2>1, <2>2, <2>3, <3>1, <3>4, <3>5, Zenon DEF DataOK
  <2>5. CASE ~Complete(r)
    <3>1. srx' = r /\ UNCHANGED <<handled, reply>>
      BY <1>6, <2>5 DEF ServerTake
    <3>2. RxOK(r)
      BY <2>2, <2>3, <2>5, RxNextIs, Zenon
    <3> QED
      BY <1>1, <1>2, <2>1, <2>2, <3>1, <3>2, Zenon DEF DataOK
  <2> QED
    BY <2>4, <2>5
<1>7. ASSUME NEW n \in Notifiers, NEW type \in NoteTypes, NEW size \in Sizes,
             BeginNote(n, type, size)
      PROVE  DataOK'
  <2> DEFINE m == Msg("note", notes + 1, type, size)
  <2>0. notes + 1 \in Nat /\ type \in Nat /\ size \in Nat
    BY RpcAssumption DEF TypeInv, ControlOK
  <2>1. m \in Messages
    BY <2>0, MsgIs
  <2>2. PhOf(m) \in Datagrams
    BY <2>1, PhIs
  <2>3. /\ UNCHANGED <<toServer, toClient, srx, reply, handled>>
        /\ (tx' = tx \/ tx' = [tx EXCEPT ![n] = PhOf(m)])
    BY <1>7, Zenon DEF BeginNote, server
  <2>4. tx' \in [Threads -> Datagrams \cup {End}]
    BY <1>1, <2>2, <2>3 DEF DataOK
  <2> QED
    BY <1>1, <1>2, <2>3, <2>4, Zenon DEF DataOK
<1>8. ASSUME NEW t \in Notifiers \cup {Run}, ServerSend(t)
      PROVE  DataOK'
  <2>1. /\ tx[t] # End /\ Len(toClient) < Cap /\ toClient' = Append(toClient, tx[t])
        /\ tx' = [tx EXCEPT ![t] = Successor(tx[t])]
        /\ UNCHANGED <<toServer, srx, handled>> /\ (reply' = reply \/ reply' = None)
    BY <1>8 DEF ServerSend
  <2>2. tx' \in [Threads -> Datagrams \cup {End}] /\ toClient' \in Seq(Datagrams) /\ Len(toClient') <= Cap
    BY <1>1, <2>1, SendTypes DEF DataOK
  <2>3. reply' \in Buffers
    BY <1>1, <2>1 DEF DataOK
  <2> QED
    BY <1>1, <1>2, <2>1, <2>2, <2>3, Zenon DEF DataOK
<1> QED
  BY <1>3, <1>4, <1>5, <1>6, <1>7, <1>8, Zenon

\* One caller at a time is in privateSendReceive, and its call is the last.
LEMMA OneCallerAtATime ==
    ASSUME LockInv, NEW c \in Callers, NEW d \in Callers, cpc[c] # "idle", cpc[d] # "idle"
    PROVE  c = d
  BY DEF LockInv, LocksAreHeld

LEMMA CurrentIs ==
    ASSUME CallsOK, NEW c \in Callers, cpc[c] \in Underway
    PROVE  /\ Current(c) = Len(calls) /\ Len(calls) \in DOMAIN calls /\ Len(calls) \in Nat \ {0}
           /\ calls[Len(calls)].by = c /\ calls[Len(calls)].status = "open"
<1> DEFINE last == Len(calls)
<1>1. last \in DOMAIN calls /\ last \in Nat \ {0} /\ \A k \in DOMAIN calls : k <= last
  BY DEF CallsOK
<1>2. calls[last].by = c /\ calls[last].status = "open"
  BY DEF CallsOK
<1>3. \A n \in DOMAIN calls :
         (calls[n].by = c /\ \A k \in DOMAIN calls : calls[k].by = c => k <= n) => n = last
  <2> SUFFICES ASSUME NEW n \in DOMAIN calls, last <= n
               PROVE  n = last
    BY <1>1, <1>2
  <2> QED
    BY <1>1 DEF CallsOK
<1>4. Current(c) = last
  BY <1>1, <1>2, <1>3 DEF Current
<1> QED
  BY <1>1, <1>2, <1>4

\* What Resume makes of the last call's record.
LEMMA ResumeIs ==
    ASSUME TypeInv, NEW c \in Callers, Resume(c)
    PROVE  /\ cpc[c] = "woken" /\ calls' \in Seq(CallRecords) /\ Len(calls') = Len(calls)
           /\ \/ /\ ~arrived /\ cpc' = [cpc EXCEPT ![c] = "waiting"]
                 /\ UNCHANGED <<calls, mutexC, members>>
              \/ /\ arrived /\ isSuccess /\ cpc' = [cpc EXCEPT ![c] = "returning"]
                 /\ UNCHANGED <<calls, mutexC, members>>
              \/ /\ arrived /\ ~isSuccess /\ cpc' = [cpc EXCEPT ![c] = "idle"]
                 /\ mutexC' = Nobody
                 /\ \A n \in DOMAIN calls : n # Len(calls) => calls'[n] = calls[n]
                 /\ calls'[Len(calls)].status = "ok"
<1>1. CallsOK /\ resp \in Buffers /\ None \in Buffers /\ calls \in Seq(CallRecords)
  BY DEF TypeInv, DataOK, Buffers, CallsOK
<1>2. cpc[c] = "woken"
  BY DEF Resume
<1>3. Current(c) = Len(calls) /\ Len(calls) \in DOMAIN calls /\ Len(calls) \in Nat
  BY <1>1, <1>2, CurrentIs DEF Underway
<1>4. CASE ~arrived
  <2>1. cpc' = [cpc EXCEPT ![c] = "waiting"] /\ UNCHANGED <<calls, mutexC, members>>
    BY <1>4 DEF Resume
  <2> QED
    BY <1>1, <1>2, <1>4, <2>1, Zenon
<1>5. CASE arrived /\ isSuccess
  <2>1. cpc' = [cpc EXCEPT ![c] = "returning"] /\ UNCHANGED <<calls, mutexC, members>>
    BY <1>5 DEF Resume
  <2> QED
    BY <1>1, <1>2, <1>5, <2>1, Zenon
<1>6. CASE arrived /\ ~isSuccess
  <2>1. cpc' = [cpc EXCEPT ![c] = "idle"] /\ mutexC' = Nobody
    BY <1>6 DEF Resume, LeaveCall
  <2> DEFINE ok(r) == [calls EXCEPT ![Len(calls)] = [[calls[Len(calls)] EXCEPT !.status = "ok"] EXCEPT !.resp = r]]
  <2>2. \E r \in Buffers : calls' = ok(r)
    <3>1. PICK type \in TypesIn(respHeader) :
             calls' = [calls EXCEPT ![Current(c)].status = "ok",
                                    ![Current(c)].resp = IF type \in {0, 2} THEN resp ELSE None]
      BY <1>6, Zenon DEF Resume
    <3>2. calls' = ok(IF type \in {0, 2} THEN resp ELSE None)
      BY <1>1, <1>3, <3>1
    <3> QED
      BY <1>1, <3>2
  <2>3. PICK r \in Buffers : calls' = ok(r)
    BY <2>2
  <2>4. calls[Len(calls)] \in CallRecords
    BY <1>1, <1>3
  <2>5. [[calls[Len(calls)] EXCEPT !.status = "ok"] EXCEPT !.resp = r] \in CallRecords
    BY <2>4 DEF CallRecords
  <2>6. [[calls[Len(calls)] EXCEPT !.status = "ok"] EXCEPT !.resp = r].status = "ok"
    BY <2>4 DEF CallRecords
  <2>7. /\ calls' \in Seq(CallRecords) /\ Len(calls') = Len(calls)
        /\ \A n \in DOMAIN calls : n # Len(calls) => calls'[n] = calls[n]
        /\ calls'[Len(calls)].status = "ok"
    <3> DEFINE rec == [[calls[Len(calls)] EXCEPT !.status = "ok"] EXCEPT !.resp = r]
    <3>1. rec \in CallRecords /\ rec.status = "ok" /\ calls' = [calls EXCEPT ![Len(calls)] = rec]
      BY <2>3, <2>5, <2>6
    <3> HIDE DEF rec, ok
    <3> QED
      BY <1>1, <1>3, <3>1
  <2> QED
    BY <1>2, <1>6, <2>1, <2>7
<1> QED
  BY <1>4, <1>5, <1>6

\* What Return makes of it.
LEMMA ReturnIs ==
    ASSUME TypeInv, NEW c \in Callers, Return(c)
    PROVE  /\ cpc[c] = "returning" /\ calls' \in Seq(CallRecords) /\ Len(calls') = Len(calls)
           /\ cpc' = [cpc EXCEPT ![c] = "idle"] /\ mutexC' = Nobody
           /\ \A n \in DOMAIN calls : n # Len(calls) => calls'[n] = calls[n]
           /\ calls'[Len(calls)].status = IF isSuccess THEN "ok" ELSE "failed"
<1>1. CallsOK /\ calls \in Seq(CallRecords) /\ cpc[c] = "returning"
  BY DEF TypeInv, CallsOK, Return
<1>2. Current(c) = Len(calls) /\ Len(calls) \in DOMAIN calls /\ Len(calls) \in Nat
  BY <1>1, CurrentIs DEF Underway
<1> DEFINE s == IF isSuccess THEN "ok" ELSE "failed"
           rec == [calls[Len(calls)] EXCEPT !.status = s]
<1>3. calls' = [calls EXCEPT ![Len(calls)] = rec]
  BY <1>2 DEF Return
<1>4. rec \in CallRecords /\ rec.status = s
  <2>1. calls[Len(calls)] \in CallRecords
    BY <1>1, <1>2
  <2>2. s \in {"open", "ok", "failed", "error"}
    OBVIOUS
  <2> HIDE DEF s
  <2> QED
    BY <2>1, <2>2 DEF CallRecords
<1>5. cpc' = [cpc EXCEPT ![c] = "idle"] /\ mutexC' = Nobody
  BY DEF Return, LeaveCall
<1> HIDE DEF rec, s
<1>6. /\ calls' \in Seq(CallRecords) /\ Len(calls') = Len(calls)
      /\ \A n \in DOMAIN calls : n # Len(calls) => calls'[n] = calls[n]
      /\ calls'[Len(calls)].status = s
  BY <1>1, <1>2, <1>3, <1>4
<1> QED
  BY <1>1, <1>5, <1>6 DEF s

\* What BeginRequest adds to the calls.
LEMMA BeginRequestIs ==
    ASSUME TypeInv, NEW c \in Callers, NEW type \in CallTypes, NEW size \in Sizes,
           BeginRequest(c, type, size)
    PROVE  /\ cpc[c] = "locking" /\ mutexC = c /\ tx[c] = End
           /\ \E s \in {"open", "error"} :
                 /\ calls' = Append(calls, [by |-> c, type |-> type, status |-> s, resp |-> None])
                 /\ s = "open" => /\ mutexC' = c /\ cpc' = [cpc EXCEPT ![c] = "sending"]
                                  /\ tx' = [tx EXCEPT ![c] =
                                               PhOf(Msg("request", Len(calls) + 1, type, size))]
                 /\ s = "error" => /\ mutexC' = Nobody /\ cpc' = [cpc EXCEPT ![c] = "idle"]
                                   /\ tx' = tx
           /\ \A s \in {"open", "error"} :
                 [by |-> c, type |-> type, status |-> s, resp |-> None] \in CallRecords
<1>1. cpc[c] = "locking" /\ mutexC = c /\ tx[c] = End
  BY DEF BeginRequest, TypeInv, LockInv, LocksAreHeld
<1>2. \A s \in {"open", "error"} :
         [by |-> c, type |-> type, status |-> s, resp |-> None] \in CallRecords
  BY RpcAssumption DEF CallRecords, Buffers
<1>3. CASE WithinLimit(size, ClientLimit)
  BY <1>1, <1>2, <1>3 DEF BeginRequest
<1>4. CASE ~WithinLimit(size, ClientLimit)
  BY <1>1, <1>2, <1>4 DEF BeginRequest, LeaveCall
<1> QED
  BY <1>3, <1>4

LEMMA CallsStep ==
    ASSUME TypeInv, [Next]_vars
    PROVE  CallsOK'
<1>1. CallsOK /\ calls \in Seq(CallRecords) /\ Len(calls) \in Nat /\ MaxCalls \in Nat
  BY RpcAssumption DEF TypeInv, CallsOK
<1>2. cpc \in [Callers -> Places]
  BY DEF TypeInv, LockInv, LockTypes
<1>3. ASSUME calls' = calls,
             \A c \in Callers : \/ cpc'[c] \in {cpc[c], "idle"}
                                \/ cpc'[c] = "locking" /\ Len(calls) < MaxCalls
                                \/ /\ cpc[c] \in Underway
                                   /\ cpc'[c] \in Underway
      PROVE  CallsOK'
  BY <1>1, <1>3 DEF CallsOK, Underway
<1>4. ASSUME NEW c \in Callers, Call(c) \/ SendRequest(c) \/ ClearAndWait(c) \/ SpuriousWakeup(c)
      PROVE  CallsOK'
  <2>1. calls' = calls
    BY <1>4 DEF Call, SendRequest, ClearAndWait, SpuriousWakeup
  <2>2. \A d \in Callers : \/ cpc'[d] = cpc[d]
                           \/ cpc'[d] = "locking" /\ Len(calls) < MaxCalls
                           \/ /\ cpc[d] \in Underway
                              /\ cpc'[d] \in Underway
    BY <1>2, <1>4 DEF Call, SendRequest, ClearAndWait, SpuriousWakeup, Underway
  <2> QED
    BY <1>3, <2>1, <2>2
<1>5. ASSUME NEW c \in Callers, Resume(c) \/ Return(c)
      PROVE  CallsOK'
  <2>1. CASE \E p \in {"waiting", "returning"} :
                cpc[c] = "woken" /\ cpc' = [cpc EXCEPT ![c] = p] /\ calls' = calls
    BY <1>2, <1>3, <2>1 DEF Underway
  <2>2. CASE /\ cpc[c] # "idle" /\ cpc' = [cpc EXCEPT ![c] = "idle"]
             /\ calls' \in Seq(CallRecords) /\ Len(calls') = Len(calls)
    <3>1. \A d \in Callers : cpc'[d] = "idle"
      <4> SUFFICES ASSUME NEW d \in Callers, cpc'[d] # "idle" PROVE FALSE
        OBVIOUS
      <4>1. cpc[d] # "idle" /\ d # c
        BY <1>2, <2>2
      <4> QED
        BY <2>2, <4>1, OneCallerAtATime DEF TypeInv
    <3> QED
      BY <1>1, <2>2, <3>1 DEF CallsOK, Underway
  <2>3. CASE Resume(c)
    BY <2>1, <2>2, <2>3, ResumeIs
  <2>4. CASE Return(c)
    BY <2>2, <2>4, ReturnIs
  <2> QED
    BY <1>5, <2>3, <2>4
<1>6. ASSUME NEW c \in Callers, NEW type \in CallTypes, NEW size \in Sizes,
             BeginRequest(c, type, size)
      PROVE  CallsOK'
  <2>1. cpc[c] = "locking" /\ Len(calls) < MaxCalls
    BY <1>1, <1>6 DEF BeginRequest, CallsOK
  <2>2. PICK s \in {"open", "error"} :
           /\ calls' = Append(calls, [by |-> c, type |-> type, status |-> s, resp |-> None])
           /\ cpc' = [cpc EXCEPT ![c] = IF s = "open" THEN "sending" ELSE "idle"]
           /\ [by |-> c, type |-> type, status |-> s, resp |-> None] \in CallRecords
    BY <1>6, BeginRequestIs
  <2>3. /\ calls' \in Seq(CallRecords) /\ Len(calls') = Len(calls) + 1 /\ calls' # <<>>
        /\ calls'[Len(calls')].by = c /\ calls'[Len(calls')].status = s
    BY <1>1, <2>2
  <2>4. \A d \in Callers : d # c => cpc[d] = "idle" /\ cpc'[d] = "idle"
    BY <1>2, <2>1, <2>2, OneCallerAtATime DEF TypeInv
  <2>5. cpc'[c] = IF s = "open" THEN "sending" ELSE "idle"
    BY <1>2, <2>2
  <2> QED
    BY <1>1, <2>1, <2>3, <2>4, <2>5 DEF CallsOK, Underway
<1>7. CASE \/ ClientTake \/ CheckResult \/ Arrive \/ Store
  <2>1. calls' = calls
    BY <1>7 DEF ClientTake, CheckResult, Arrive, Store
  <2>2. cpc' = cpc \/ Signal
    BY <1>7 DEF ClientTake, CheckResult, Arrive, Store
  <2>3. \A d \in Callers : cpc'[d] = cpc[d] \/ (cpc[d] = "waiting" /\ cpc'[d] = "woken")
    BY <2>2 DEF Signal
  <2> QED
    BY <1>3, <2>1, <2>3 DEF Underway
<1>8. CASE \/ Start \/ Stop \/ EndRun \/ BeginReply \/ Finished \/ UNCHANGED vars
           \/ \E size \in Sizes : ServerTake(size)
           \/ \E n \in Notifiers, type \in NoteTypes, size \in Sizes : BeginNote(n, type, size)
           \/ \E t \in Notifiers \cup {Run} : ServerSend(t)
  <2>1. calls' = calls /\ cpc' = cpc
    BY <1>8 DEF Start, Stop, EndRun, BeginReply, Finished, vars, ServerTake, BeginNote, ServerSend
  <2> QED
    BY <1>3, <2>1
<1> QED
  BY <1>4, <1>5, <1>6, <1>7, <1>8, Zenon DEF Next

LEMMA TypeInvStep == TypeInv /\ [Next]_vars => TypeInv'
<1> SUFFICES ASSUME TypeInv, [Next]_vars PROVE TypeInv'
  OBVIOUS
<1>1. LockInv' /\ ControlOK' /\ CallsOK'
  BY LockStep, ControlStep, CallsStep DEF TypeInv
<1>2. DataOK'
  <2>1. CASE Finished \/ UNCHANGED vars
    <3>1. UNCHANGED vars
      BY <2>1 DEF Finished
    <3> QED
      BY <3>1 DEF vars, members, client, server, TypeInv, DataOK
  <2> QED
    BY <2>1, DataByCallers, DataByClient, DataByServer, Zenon DEF Next, TypeInv
<1> QED
  BY <1>1, <1>2 DEF TypeInv

LEMMA TypeInit == Init => TypeInv
<1> SUFFICES ASSUME Init PROVE TypeInv
  OBVIOUS
<1>1. LockInv
  BY ThreadsApart DEF Init, LockInv, LockTypes, LocksAreHeld, Places, Threads, ServerThreads
<1>2. ControlOK
  <2>1. /\ arrived \in BOOLEAN /\ isSuccess \in BOOLEAN /\ running \in BOOLEAN
        /\ stopping \in BOOLEAN /\ halved \in BOOLEAN
    BY Zenon DEF Init
  <2>2. /\ stops \in 0 .. MaxStops /\ notes \in 0 .. MaxNotes
        /\ mutexS \in ServerThreads \cup {Nobody} /\ rpc = "receive"
    BY RpcAssumption DEF Init
  <2> QED
    BY <2>1, <2>2, Zenon DEF ControlOK
<1>3. DataOK
  <2>1. tx \in [Threads -> Datagrams \cup {End}]
    BY DEF Init
  <2>2. /\ toServer \in Seq(Datagrams) /\ toClient \in Seq(Datagrams)
        /\ Len(toServer) <= Cap /\ Len(toClient) <= Cap
        /\ handled \in Seq(Nat) /\ received \in Seq(Messages)
    BY RpcAssumption DEF Init
  <2>3. RxOK(srx) /\ RxOK(crx)
    BY DEF Init, RxOK
  <2>4. /\ reply \in Buffers /\ header \in Buffers /\ response \in Buffers
        /\ respHeader \in Buffers /\ resp \in Buffers
    BY DEF Init, Buffers
  <2> QED
    BY <2>1, <2>2, <2>3, <2>4, Zenon DEF DataOK
<1>4. CallsOK
  BY RpcAssumption DEF Init, CallsOK, Underway
<1> QED
  BY <1>1, <1>2, <1>3, <1>4 DEF TypeInv

\* The threads are where the code can be, the queues hold what the kernel keeps,
\* and no call is made beyond the bound, for every number of callers and notifiers.
THEOREM TypeCorrect == Spec => []TypeOK
<1>1. TypeInv => TypeOK
  <2> SUFFICES ASSUME TypeInv PROVE TypeOK
    OBVIOUS
  <2>0. cpc \in [Callers -> {"idle", "locking", "sending", "sent", "waiting", "woken",
                            "returning"}]
    BY DEF TypeInv, LockInv, LockTypes, Places, Underway
  <2>1. \A t \in Threads : tx[t] # End => tx[t].part \in {"ph", "hdr", "frag"}
    BY DatagramIs DEF TypeInv, DataOK
  <2>2. mutexS \in Notifiers \cup {Run, Nobody}
    BY DEF TypeInv, ControlOK, ServerThreads
  <2> QED
    BY <2>0, <2>1, <2>2, Zenon DEF TypeInv, TypeOK, LockInv, LockTypes, ControlOK, DataOK, CallsOK
<1> QED
  BY <1>1, TypeInit, TypeInvStep, PTL DEF Spec

-----------------------------------------------------------------------------
(* Messages go one after the other. *)

\* Behind datagram d comes the next one of its message, or a new message, or nothing.
Follows(d, e) ==
    IF Successor(d) = End THEN e = End \/ e.part = "ph" ELSE e = Successor(d)

\* The datagrams of q, in their queue, and o, the one that is sent next.
Line(q, o) == Append(q, o)

Chain(s) == \A i \in 1 .. Len(s) - 1 : Follows(s[i], s[i + 1])

LEMMA LineIs ==
    ASSUME NEW q \in Seq(Datagrams), NEW o \in Datagrams \cup {End}
    PROVE  /\ Line(q, o) \in Seq(Datagrams \cup {End}) /\ Len(Line(q, o)) = Len(q) + 1
           /\ \A i \in 1 .. Len(q) : Line(q, o)[i] = q[i] /\ q[i] \in Datagrams
           /\ Line(q, o)[Len(q) + 1] = o
           /\ Len(q) \in Nat
  BY DEF Line

LEMMA ChainIs ==
    ASSUME NEW q \in Seq(Datagrams), NEW o \in Datagrams \cup {End}
    PROVE  Chain(Line(q, o)) <=>
             /\ \A i \in 1 .. Len(q) - 1 : Follows(q[i], q[i + 1])
             /\ q # <<>> => Follows(q[Len(q)], o)
<1> DEFINE s == Line(q, o)
<1>1. /\ Len(s) = Len(q) + 1 /\ Len(q) \in Nat /\ s[Len(q) + 1] = o
      /\ \A i \in 1 .. Len(q) : s[i] = q[i]
      /\ q # <<>> => Len(q) \in 1 .. Len(q)
  BY LineIs
<1> HIDE DEF s
<1>2. ASSUME Chain(s)
      PROVE  /\ \A i \in 1 .. Len(q) - 1 : Follows(q[i], q[i + 1])
             /\ q # <<>> => Follows(q[Len(q)], o)
  <2>1. ASSUME NEW i \in 1 .. Len(q) - 1 PROVE Follows(q[i], q[i + 1])
    <3>1. i \in 1 .. Len(s) - 1 /\ s[i] = q[i] /\ s[i + 1] = q[i + 1]
      BY <1>1
    <3> QED
      BY <1>2, <3>1 DEF Chain
  <2>2. ASSUME q # <<>> PROVE Follows(q[Len(q)], o)
    <3>1. Len(q) \in 1 .. Len(s) - 1 /\ s[Len(q)] = q[Len(q)] /\ s[Len(q) + 1] = o
      BY <1>1, <2>2
    <3> QED
      BY <1>2, <3>1 DEF Chain
  <2> QED
    BY <2>1, <2>2
<1>3. ASSUME \A i \in 1 .. Len(q) - 1 : Follows(q[i], q[i + 1]),
             q # <<>> => Follows(q[Len(q)], o)
      PROVE  Chain(s)
  <2> SUFFICES ASSUME NEW i \in 1 .. Len(s) - 1 PROVE Follows(s[i], s[i + 1])
    BY DEF Chain
  <2>1. CASE i < Len(q)
    <3>1. i \in 1 .. Len(q) - 1 /\ s[i] = q[i] /\ s[i + 1] = q[i + 1]
      BY <1>1, <2>1
    <3> QED
      BY <1>3, <3>1
  <2>2. CASE i = Len(q)
    <3>1. s[i] = q[Len(q)] /\ s[i + 1] = o /\ q # <<>>
      BY <1>1, <2>2
    <3> QED
      BY <1>3, <3>1
  <2> QED
    BY <1>1, <2>1, <2>2
<1> QED
  BY <1>2, <1>3 DEF s

\* A protocol header begins behind a message that is all out, and may not come
\* after all; the next of a message follows it; the first is read.
LEMMA ChainBegins ==
    ASSUME NEW q \in Seq(Datagrams), NEW e \in Datagrams, e.part = "ph"
    PROVE  Chain(Line(q, End)) <=> Chain(Line(q, e))
<1>1. ASSUME NEW d \in Datagrams PROVE Follows(d, End) <=> Follows(d, e)
  <2>1. Successor(d) # e /\ e # End
    BY SuccessorIs, DatagramIs DEF End
  <2> QED
    BY <2>1 DEF Follows
<1>2. q # <<>> => q[Len(q)] \in Datagrams
  OBVIOUS
<1> QED
  BY <1>1, <1>2, ChainIs

LEMMA ChainSends ==
    ASSUME NEW q \in Seq(Datagrams), NEW o \in Datagrams, Chain(Line(q, o))
    PROVE  Chain(Line(Append(q, o), Successor(o)))
<1> DEFINE s == Append(q, o)
<1>1. /\ s \in Seq(Datagrams) /\ s # <<>> /\ Len(s) = Len(q) + 1 /\ s[Len(s)] = o
      /\ \A i \in 1 .. Len(q) : s[i] = q[i]
      /\ Len(q) \in Nat
  OBVIOUS
<1>2. Successor(o) \in Datagrams \cup {End} /\ Follows(o, Successor(o))
  BY SuccessorIs DEF Follows
<1>3. /\ \A i \in 1 .. Len(q) - 1 : Follows(q[i], q[i + 1])
      /\ q # <<>> => Follows(q[Len(q)], o)
  BY ChainIs
<1> HIDE DEF s
<1>4. ASSUME NEW i \in 1 .. Len(s) - 1 PROVE Follows(s[i], s[i + 1])
  <2>1. CASE i < Len(q)
    <3>1. i \in 1 .. Len(q) - 1 /\ s[i] = q[i] /\ s[i + 1] = q[i + 1]
      BY <1>1, <2>1
    <3> QED
      BY <1>3, <3>1
  <2>2. CASE i = Len(q)
    <3>1. s[i] = q[Len(q)] /\ s[i + 1] = o /\ q # <<>>
      BY <1>1, <2>2
    <3> QED
      BY <1>3, <3>1
  <2> QED
    BY <1>1, <2>1, <2>2
<1> QED
  BY <1>1, <1>2, <1>4, ChainIs DEF s

LEMMA ChainTakes ==
    ASSUME NEW q \in Seq(Datagrams), NEW o \in Datagrams \cup {End}, q # <<>>, Chain(Line(q, o))
    PROVE  Chain(Line(Tail(q), o))
<1>1. /\ Tail(q) \in Seq(Datagrams) /\ Len(Tail(q)) = Len(q) - 1 /\ Len(q) \in Nat \ {0}
      /\ \A i \in 1 .. Len(Tail(q)) : Tail(q)[i] = q[i + 1]
      /\ Tail(q) # <<>> => Len(Tail(q)) \in 1 .. Len(Tail(q))
  OBVIOUS
<1>2. /\ \A i \in 1 .. Len(q) - 1 : Follows(q[i], q[i + 1])
      /\ Follows(q[Len(q)], o)
  BY ChainIs
<1> DEFINE t == Tail(q)
<1> HIDE DEF t
<1>3. ASSUME NEW i \in 1 .. Len(t) - 1 PROVE Follows(t[i], t[i + 1])
  <2>1. t[i] = q[i + 1] /\ t[i + 1] = q[i + 1 + 1] /\ i + 1 \in 1 .. Len(q) - 1
    BY <1>1 DEF t
  <2> QED
    BY <1>2, <2>1
<1>4. ASSUME t # <<>> PROVE Follows(t[Len(t)], o)
  <2>1. t[Len(t)] = q[Len(q)]
    BY <1>1, <1>4 DEF t
  <2> QED
    BY <1>2, <2>1
<1> QED
  BY <1>1, <1>3, <1>4, ChainIs DEF t

\* Where a Stop has cut messages, a new message or nothing may come too early.
Meets(d, e) == e = Successor(d) \/ e = End \/ e.part = "ph"

Joined(s) == \A i \in 1 .. Len(s) - 1 : Meets(s[i], s[i + 1])

LEMMA JoinedEnds ==
    ASSUME NEW q \in Seq(Datagrams), NEW o \in Datagrams \cup {End}, NEW e \in Datagrams \cup {End},
           e = End \/ e.part = "ph", Joined(Line(q, o))
    PROVE  Joined(Line(q, e))
<1>1. /\ Len(Line(q, o)) = Len(q) + 1 /\ Len(Line(q, e)) = Len(q) + 1 /\ Len(q) \in Nat
      /\ \A i \in 1 .. Len(q) : Line(q, o)[i] = Line(q, e)[i]
      /\ Line(q, e)[Len(q) + 1] = e
  BY LineIs
<1> SUFFICES ASSUME NEW i \in 1 .. Len(q) PROVE Meets(Line(q, e)[i], Line(q, e)[i + 1])
  BY <1>1 DEF Joined
<1>2. CASE i = Len(q)
  BY <1>1, <1>2, Zenon DEF Meets
<1>3. CASE i # Len(q)
  <2>1. i + 1 \in 1 .. Len(q)
    BY <1>1, <1>3
  <2>2. Line(q, e)[i] = Line(q, o)[i] /\ Line(q, e)[i + 1] = Line(q, o)[i + 1]
    BY <1>1, <2>1
  <2>3. Meets(Line(q, o)[i], Line(q, o)[i + 1])
    BY <1>1 DEF Joined
  <2> QED
    BY <2>2, <2>3
<1> QED
  BY <1>2, <1>3

LEMMA JoinedSends ==
    ASSUME NEW q \in Seq(Datagrams), NEW o \in Datagrams, Joined(Line(q, o))
    PROVE  Joined(Line(Append(q, o), Successor(o)))
<1> DEFINE s == Line(q, o)
           t == Line(Append(q, o), Successor(o))
<1>1. /\ Len(s) = Len(q) + 1 /\ Len(t) = Len(q) + 2 /\ Len(q) \in Nat
      /\ \A i \in 1 .. Len(q) + 1 : t[i] = s[i]
      /\ s[Len(q) + 1] = o /\ t[Len(q) + 2] = Successor(o)
  BY SuccessorIs DEF Line
<1>2. Joined(s)
  OBVIOUS
<1> HIDE DEF s, t
<1>3. Joined(t)
  <2> SUFFICES ASSUME NEW i \in 1 .. Len(q) + 1 PROVE Meets(t[i], t[i + 1])
    BY <1>1 DEF Joined
  <2>1. CASE i = Len(q) + 1
    <3>1. t[i] = o /\ t[i + 1] = Successor(o)
      BY <1>1, <2>1
    <3> QED
      BY <3>1 DEF Meets
  <2>2. CASE i # Len(q) + 1
    <3>1. i \in 1 .. Len(s) - 1 /\ t[i] = s[i] /\ t[i + 1] = s[i + 1]
      BY <1>1, <2>2
    <3> QED
      BY <1>2, <3>1 DEF Joined
  <2> QED
    BY <2>1, <2>2
<1> QED
  BY <1>3 DEF t

LEMMA JoinedTakes ==
    ASSUME NEW q \in Seq(Datagrams), NEW o \in Datagrams \cup {End}, q # <<>>, Joined(Line(q, o))
    PROVE  Joined(Line(Tail(q), o))
<1> DEFINE s == Line(q, o)
           t == Line(Tail(q), o)
<1>1. /\ Len(s) = Len(q) + 1 /\ Len(t) = Len(q) /\ Len(q) \in Nat
      /\ \A i \in 1 .. Len(q) : t[i] = s[i + 1]
  BY DEF Line
<1>2. Joined(s)
  OBVIOUS
<1> HIDE DEF s, t
<1>3. ASSUME NEW i \in 1 .. Len(t) - 1 PROVE Meets(t[i], t[i + 1])
  <2>1. i + 1 \in 1 .. Len(s) - 1 /\ t[i] = s[i + 1] /\ t[i + 1] = s[(i + 1) + 1]
    BY <1>1
  <2> QED
    BY <1>2, <2>1 DEF Joined
<1> QED
  BY <1>3 DEF Joined, t

\* What the holder of the server's m_mutex sends next.
OutS == IF mutexS = Nobody THEN End ELSE tx[mutexS]

InterleaveInv ==
    /\ ~halved => Chain(Line(toClient, OutS))
    /\ Joined(Line(toClient, OutS))

\* A thread of the server sends just when it is the holder.
LEMMA OutSIs ==
    ASSUME TypeInv
    PROVE  /\ OutS \in Datagrams \cup {End}
           /\ toClient \in Seq(Datagrams)
           /\ \A t \in ServerThreads : tx[t] # End <=> mutexS = t
           /\ \A t \in ServerThreads : mutexS = t => OutS = tx[t] /\ OutS \in Datagrams
  BY ThreadsApart DEF TypeInv, ControlOK, DataOK, LockInv, LocksAreHeld, OutS, ServerThreads

\* A caller leaves the datagrams of the server's threads alone.
LEMMA CallersKeepOutS ==
    ASSUME TypeInv, NEW c \in Callers,
           \/ Call(c) \/ SendRequest(c) \/ ClearAndWait(c) \/ Resume(c) \/ Return(c)
           \/ SpuriousWakeup(c)
           \/ \E type \in CallTypes, size \in Sizes : BeginRequest(c, type, size)
    PROVE  UNCHANGED <<toClient, halved, mutexS, OutS>>
<1>1. UNCHANGED <<toClient, halved, mutexS>>
  BY DEF Call, SendRequest, ClearAndWait, Resume, Return, SpuriousWakeup, BeginRequest, locks, server
<1>2. \E d : tx' = tx \/ tx' = [tx EXCEPT ![c] = d]
  BY Zenon DEF Call, SendRequest, ClearAndWait, Resume, Return, SpuriousWakeup, BeginRequest
<1>3. \A t \in ServerThreads : tx'[t] = tx[t]
  BY <1>2, ThreadsApart DEF TypeInv, DataOK
<1>4. mutexS \in ServerThreads \cup {Nobody}
  BY DEF TypeInv, ControlOK
<1> QED
  BY <1>1, <1>3, <1>4 DEF OutS

\* BeginReply and BeginNote take the lock for a message.
LEMMA BeginsIs ==
    ASSUME TypeInv,
           \/ BeginReply
           \/ \E n \in Notifiers, type \in NoteTypes, size \in Sizes : BeginNote(n, type, size)
    PROVE  \/ UNCHANGED <<tx, mutexS>>
           \/ /\ mutexS = Nobody
              /\ \E t \in ServerThreads : \E m \in Messages :
                    mutexS' = t /\ tx' = [tx EXCEPT ![t] = PhOf(m)]
<1>1. CASE BeginReply
  <2>1. \/ UNCHANGED <<tx, mutexS>>
        \/ mutexS = Nobody /\ mutexS' = Run /\ tx' = [tx EXCEPT ![Run] = PhOf(reply)] /\ reply # None
    BY <1>1, Zenon DEF BeginReply
  <2>2. reply # None => reply \in Messages
    BY DEF TypeInv, DataOK, Buffers
  <2> QED
    BY <2>1, <2>2, ThreadsApart, Zenon
<1>2. ASSUME NEW n \in Notifiers, NEW type \in NoteTypes, NEW size \in Sizes,
             BeginNote(n, type, size)
      PROVE  \/ UNCHANGED <<tx, mutexS>>
             \/ /\ mutexS = Nobody
                /\ \E m \in Messages : mutexS' = n /\ tx' = [tx EXCEPT ![n] = PhOf(m)]
  <2> DEFINE m == Msg("note", notes + 1, type, size)
  <2>1. notes + 1 \in Nat /\ type \in Nat /\ size \in Nat
    BY RpcAssumption DEF TypeInv, ControlOK
  <2>2. m \in Messages
    BY <2>1, MsgIs
  <2>3. \/ UNCHANGED <<tx, mutexS>>
        \/ mutexS = Nobody /\ mutexS' = n /\ tx' = [tx EXCEPT ![n] = PhOf(m)]
    BY <1>2, Zenon DEF BeginNote
  <2> QED
    BY <2>2, <2>3, Zenon
<1> QED
  BY <1>1, <1>2, ThreadsApart, Zenon

LEMMA InterleaveStep ==
    ASSUME TypeInv, TypeInv', InterleaveInv, [Next]_vars
    PROVE  InterleaveInv'
<1>1. tx \in [Threads -> Datagrams \cup {End}] /\ ServerThreads \subseteq Threads
  BY ThreadsApart DEF TypeInv, DataOK
<1>2. ASSUME UNCHANGED <<toClient, halved, OutS>>
      PROVE  InterleaveInv'
  BY <1>2, Zenon DEF InterleaveInv, Chain, Follows, Joined, Meets, Line
<1>3. CASE \E c \in Callers :
             \/ Call(c) \/ SendRequest(c) \/ ClearAndWait(c) \/ Resume(c) \/ Return(c)
             \/ SpuriousWakeup(c)
             \/ \E type \in CallTypes, size \in Sizes : BeginRequest(c, type, size)
  BY <1>2, <1>3, CallersKeepOutS
<1>4. CASE \/ CheckResult \/ Arrive \/ Store \/ Start \/ Stop \/ Finished \/ UNCHANGED vars
           \/ \E size \in Sizes : ServerTake(size)
  <2>1. UNCHANGED <<toClient, halved, mutexS, tx>>
    BY <1>4 DEF CheckResult, Arrive, Store, Start, Stop, Finished, vars, ServerTake, locks, server
  <2> QED
    BY <1>2, <2>1 DEF OutS
<1>5. CASE ClientTake
  <2>1. toClient # <<>> /\ toClient' = Tail(toClient) /\ UNCHANGED <<halved, mutexS, tx>>
    BY <1>5 DEF ClientTake, locks, server
  <2>2. OutS' = OutS
    BY <2>1 DEF OutS
  <2>3. ASSUME ~halved' PROVE Chain(Line(Tail(toClient), OutS))
    BY <2>1, <2>3, OutSIs, ChainTakes DEF InterleaveInv
  <2>4. Joined(Line(Tail(toClient), OutS))
    BY <2>1, OutSIs, JoinedTakes DEF InterleaveInv
  <2> QED
    BY <2>1, <2>2, <2>3, <2>4, Zenon DEF InterleaveInv, Chain, Follows, Joined, Meets, Line
<1>6. CASE EndRun
  <2>1. /\ toClient' = toClient /\ tx' = [tx EXCEPT ![Run] = End]
        /\ mutexS' = IF mutexS = Run THEN Nobody ELSE mutexS
    BY <1>6 DEF EndRun
  <2>2. ASSUME ~halved' PROVE ~halved /\ (tx[Run] # End => tx[Run].part = "ph")
    BY <1>6, <2>2, Zenon DEF EndRun
  <2>3. CASE mutexS = Run
    <3>1. OutS = tx[Run] /\ OutS \in Datagrams /\ OutS' = End /\ Run \in ServerThreads
      BY <2>1, <2>3, OutSIs, ThreadsApart DEF OutS
    <3>2. ASSUME ~halved' PROVE Chain(Line(toClient, End))
      <4>1. OutS # End /\ ~halved /\ OutS.part = "ph"
        BY <2>2, <3>1, <3>2, DatagramIs
      <4>2. Chain(Line(toClient, OutS))
        BY <4>1, Zenon DEF InterleaveInv
      <4> QED
        BY <3>1, <4>1, <4>2, OutSIs, ChainBegins
    <3>3. Joined(Line(toClient, End))
      BY <3>1, OutSIs, JoinedEnds DEF InterleaveInv
    <3> QED
      BY <2>1, <3>1, <3>2, <3>3, Zenon DEF InterleaveInv, Chain, Follows, Joined, Meets, Line
  <2>4. CASE mutexS # Run
    <3>1. tx[Run] = End
      BY <2>4, OutSIs, ThreadsApart
    <3>2. mutexS' = mutexS /\ tx' = tx
      BY <1>1, <2>1, <2>4, <3>1, ThreadsApart
    <3>3. OutS' = OutS
      BY <3>2 DEF OutS
    <3> QED
      BY <2>1, <2>2, <3>3, Zenon DEF InterleaveInv, Chain, Follows, Joined, Meets, Line
  <2> QED
    BY <2>3, <2>4
<1>7. CASE \/ BeginReply
           \/ \E n \in Notifiers, type \in NoteTypes, size \in Sizes : BeginNote(n, type, size)
  <2>1. UNCHANGED <<toClient, halved>>
    BY <1>7 DEF BeginReply, BeginNote, server
  <2>2. CASE UNCHANGED <<tx, mutexS>>
    BY <1>2, <2>1, <2>2 DEF OutS
  <2>3. CASE ~UNCHANGED <<tx, mutexS>>
    <3>1. PICK t \in ServerThreads, m \in Messages :
             mutexS = Nobody /\ mutexS' = t /\ tx' = [tx EXCEPT ![t] = PhOf(m)]
      BY <1>7, <2>3, BeginsIs
    <3>2. OutS = End /\ OutS' = PhOf(m)
      BY <1>1, <3>1, ThreadsApart DEF OutS
    <3>3. toClient \in Seq(Datagrams) /\ PhOf(m) \in Datagrams /\ PhOf(m).part = "ph"
      BY OutSIs, PhIs
    <3>4. Chain(Line(toClient, OutS)) <=> Chain(Line(toClient, PhOf(m)))
      BY <3>2, <3>3, ChainBegins
    <3>5. Joined(Line(toClient, PhOf(m)))
      BY <3>2, <3>3, JoinedEnds DEF InterleaveInv
    <3> QED
      BY <2>1, <3>2, <3>4, <3>5, Zenon DEF InterleaveInv, Chain, Follows, Joined, Meets, Line
  <2> QED
    BY <2>2, <2>3
<1>8. CASE \E t \in ServerThreads : ServerSend(t)
  <2>1. PICK t \in ServerThreads : ServerSend(t)
    BY <1>8
  <2>2. /\ tx[t] # End /\ toClient' = Append(toClient, tx[t])
        /\ tx' = [tx EXCEPT ![t] = Successor(tx[t])] /\ halved' = halved
        /\ mutexS' = IF Successor(tx[t]) = End THEN Nobody ELSE mutexS
    BY <2>1 DEF ServerSend
  <2>3. mutexS = t /\ OutS = tx[t] /\ tx[t] \in Datagrams
    BY <2>2, OutSIs
  <2>4. OutS' = Successor(tx[t])
    BY <1>1, <2>2, <2>3, ThreadsApart DEF OutS
  <2>5. toClient \in Seq(Datagrams)
    BY OutSIs
  <2>6. ~halved => Chain(Line(Append(toClient, tx[t]), Successor(tx[t])))
    BY <2>3, <2>5, ChainSends DEF InterleaveInv
  <2>7. Joined(Line(Append(toClient, tx[t]), Successor(tx[t])))
    BY <2>3, <2>5, JoinedSends DEF InterleaveInv
  <2> QED
    BY <2>2, <2>4, <2>6, <2>7, Zenon DEF InterleaveInv, Chain, Follows, Joined, Meets, Line
<1> QED
  BY <1>3, <1>4, <1>5, <1>6, <1>7, <1>8, Zenon DEF Next, ServerThreads

\* A response and the notifications of any number of threads go out one after the
\* other through a queue of any length, whole but for the one a Stop cuts: behind
\* the cut comes a new message.
THEOREM MessagesStayApart == Spec => []MessagesDoNotInterleave
<1>1. Init => InterleaveInv
  <2> SUFFICES ASSUME Init PROVE Chain(Line(toClient, OutS)) /\ Joined(Line(toClient, OutS))
    BY DEF InterleaveInv
  <2>1. toClient = <<>> /\ OutS = End
    BY DEF Init, OutS
  <2>2. Len(Line(toClient, OutS)) = 1
    BY <2>1 DEF Line
  <2>3. 1 .. Len(Line(toClient, OutS)) - 1 = {}
    BY <2>2
  <2> QED
    BY <2>3, Zenon DEF Chain, Joined
<1>2. TypeInv /\ InterleaveInv => MessagesDoNotInterleave
  <2> SUFFICES ASSUME TypeInv, InterleaveInv PROVE MessagesDoNotInterleave
    OBVIOUS
  <2> DEFINE s == Line(toClient, OutS)
             last == Len(toClient)
  <2>1. /\ last \in Nat /\ Len(s) - 1 = last /\ DOMAIN toClient = 1 .. last /\ s[last + 1] = OutS
        /\ \A i \in 1 .. last : s[i] = toClient[i] /\ toClient[i] \in Datagrams
    BY OutSIs, LineIs
  <2>2. /\ ~halved => Chain(s)
        /\ Joined(s)
    BY DEF InterleaveInv
  <2> HIDE DEF s, last
  <2>3. ASSUME NEW i \in DOMAIN toClient
        PROVE  (~halved => Follows(s[i], s[i + 1])) /\ Meets(s[i], s[i + 1])
    BY <2>1, <2>2, <2>3 DEF Chain, Joined
  <2>4. ASSUME NEW i \in DOMAIN toClient, i < last
        PROVE  \/ toClient[i + 1] = Successor(toClient[i])
               \/ toClient[i + 1].part = "ph" /\ (Successor(toClient[i]) = End \/ halved)
    <3>1. i + 1 \in 1 .. last
      BY <2>1, <2>4
    <3>2. s[i] = toClient[i] /\ s[i + 1] = toClient[i + 1] /\ toClient[i + 1] # End
      BY <2>1, <3>1, DatagramIs
    <3> QED
      BY <2>3, <3>2, Zenon DEF Follows, Meets
  <2>5. ASSUME NEW i \in DOMAIN toClient, ~(i < last), Successor(toClient[i]) # End, ~halved
        PROVE  \E t \in Notifiers \cup {Run} : tx[t] = Successor(toClient[i])
    <3>1. s[i] = toClient[i] /\ s[i + 1] = OutS
      BY <2>1, <2>5
    <3>2. OutS = Successor(toClient[i])
      BY <2>3, <2>5, <3>1, Zenon DEF Follows
    <3> QED
      BY <2>5, <3>2 DEF OutS, TypeInv, ControlOK, ServerThreads
  <2> QED
    BY <2>4, <2>5, Zenon DEF MessagesDoNotInterleave, last
<1>3. TypeInv /\ InterleaveInv /\ [Next]_vars => (TypeInv /\ InterleaveInv)'
  BY TypeInvStep, InterleaveStep
<1> QED
  BY <1>1, <1>2, <1>3, TypeInit, PTL DEF Spec

-----------------------------------------------------------------------------
(* Requests are handled once. *)

IsPh(d) == d.part = "ph"

\* The number of the request a datagram, or a call of Receive, is part of.
Num(d)   == d.msg.id[2]
RxNum(rx) == rx.ph.id[2]

\* The protocol headers of line s, in the order of the requests, come after the
\* one Receive is busy with, and that after those of h; all are among the first n.
Ordered(s, rx, h, n) ==
    /\ \A i, j \in 1 .. Len(s) : i < j /\ IsPh(s[i]) /\ IsPh(s[j]) => Num(s[i]) < Num(s[j])
    /\ \A i \in 1 .. Len(s) : IsPh(s[i]) =>
          /\ Num(s[i]) <= n
          /\ rx.at # "ph" => RxNum(rx) < Num(s[i])
          /\ \A k \in DOMAIN h : h[k] < Num(s[i])
    /\ rx.at # "ph" => RxNum(rx) <= n /\ \A k \in DOMAIN h : h[k] < RxNum(rx)
    /\ IsStrictlyIncreasing(h) /\ \A k \in DOMAIN h : h[k] <= n

\* Request n has been handled, is being received or is on its way.
Seen(n, s, rx, h) ==
    \/ \E k \in DOMAIN h : h[k] = n
    \/ rx.at # "ph" /\ RxNum(rx) = n
    \/ \E i \in 1 .. Len(s) : IsPh(s[i]) /\ Num(s[i]) = n

Lines == Seq(Datagrams \cup {End})

LEMMA PhInLine ==
    ASSUME NEW s \in Lines, NEW i \in 1 .. Len(s), IsPh(s[i])
    PROVE  s[i] \in Datagrams /\ Num(s[i]) \in Nat
<1>1. s[i] \in Datagrams
  BY DEF Lines, IsPh, End
<1> QED
  BY <1>1, DatagramIs DEF Num, Messages

\* A datagram that is no protocol header joins the line.
LEMMA LineGrows ==
    ASSUME NEW s \in Lines, NEW e \in Datagrams \cup {End}, ~IsPh(e), NEW rx, NEW h, NEW n
    PROVE  /\ Ordered(s, rx, h, n) => Ordered(Append(s, e), rx, h, n)
           /\ \A k : Seen(k, Append(s, e), rx, h) <=> Seen(k, s, rx, h)
<1> DEFINE t == Append(s, e)
<1>1. /\ Len(t) = Len(s) + 1 /\ Len(s) \in Nat /\ t[Len(s) + 1] = e
      /\ \A i \in 1 .. Len(s) : t[i] = s[i]
  BY DEF Lines
<1> HIDE DEF t
<1>2. \A i \in 1 .. Len(t) : IsPh(t[i]) => i \in 1 .. Len(s) /\ t[i] = s[i]
  BY <1>1
<1>3. \A i \in 1 .. Len(s) : i \in 1 .. Len(t) /\ t[i] = s[i]
  BY <1>1
<1>4. Ordered(s, rx, h, n) => Ordered(t, rx, h, n)
  BY <1>2, Zenon DEF Ordered
<1>5. \A k : Seen(k, t, rx, h) <=> Seen(k, s, rx, h)
  BY <1>2, <1>3, Zenon DEF Seen
<1> QED
  BY <1>4, <1>5 DEF t

\* More calls.
LEMMA CallsGrow ==
    ASSUME NEW s \in Lines, NEW rx, RxOK(rx), NEW h \in Seq(Nat), NEW n \in Nat,
           Ordered(s, rx, h, n)
    PROVE  Ordered(s, rx, h, n + 1)
<1>1. \A i \in 1 .. Len(s) : IsPh(s[i]) => Num(s[i]) \in Nat
  BY PhInLine
<1>2. rx.at # "ph" => RxNum(rx) \in Nat
  BY DEF RxOK, RxIdle, RxNum, Messages
<1>3. \A k \in DOMAIN h : h[k] \in Nat
  OBVIOUS
<1> QED
  BY <1>1, <1>2, <1>3 DEF Ordered

\* A protocol header comes, of the request after the last.
LEMMA RequestBegins ==
    ASSUME NEW q \in Seq(Datagrams), NEW e \in Datagrams, IsPh(e), NEW rx, RxOK(rx),
           NEW h \in Seq(Nat), NEW n \in Nat, Num(e) = n + 1
    PROVE  /\ Ordered(Line(q, End), rx, h, n) => Ordered(Line(q, e), rx, h, n + 1)
           /\ \A k : Seen(k, Line(q, e), rx, h) <=> Seen(k, Line(q, End), rx, h) \/ k = n + 1
<1> DEFINE s == Line(q, End)
           t == Line(q, e)
<1>1. /\ s \in Lines /\ t \in Lines /\ Len(q) \in Nat /\ Len(s) = Len(q) + 1 /\ Len(t) = Len(q) + 1
      /\ s[Len(q) + 1] = End /\ t[Len(q) + 1] = e
      /\ \A i \in 1 .. Len(q) : s[i] = q[i] /\ t[i] = q[i]
  BY LineIs DEF Lines
<1> HIDE DEF s, t
<1>2. \A i \in 1 .. Len(t) : \/ i = Len(t) /\ t[i] = e
                             \/ i # Len(t) /\ i \in 1 .. Len(s) /\ t[i] = s[i]
  BY <1>1
<1>3. \A i \in 1 .. Len(s) : IsPh(s[i]) => i \in 1 .. Len(t) /\ t[i] = s[i] /\ Num(s[i]) \in Nat
  BY <1>1, PhInLine DEF IsPh, End
<1>4. /\ rx.at # "ph" => RxNum(rx) \in Nat
      /\ \A k \in DOMAIN h : h[k] \in Nat
  BY DEF RxOK, RxIdle, RxNum, Messages
<1>5. ASSUME Ordered(s, rx, h, n) PROVE Ordered(t, rx, h, n + 1)
  <2>1. ASSUME NEW i \in 1 .. Len(t), NEW j \in 1 .. Len(t), i < j, IsPh(t[i]), IsPh(t[j])
        PROVE  Num(t[i]) < Num(t[j])
    <3>1. i # Len(t) /\ i \in 1 .. Len(s) /\ t[i] = s[i]
      BY <1>1, <1>2, <2>1
    <3>2. Num(t[i]) <= n /\ Num(t[i]) \in Nat
      BY <1>3, <1>5, <2>1, <3>1 DEF Ordered
    <3>3. CASE j = Len(t)
      BY <1>2, <2>1, <3>2, <3>3
    <3>4. CASE j # Len(t)
      BY <1>2, <1>5, <2>1, <3>1, <3>4 DEF Ordered
    <3> QED
      BY <3>3, <3>4
  <2>2. ASSUME NEW i \in 1 .. Len(t), IsPh(t[i])
        PROVE  /\ Num(t[i]) <= n + 1
               /\ rx.at # "ph" => RxNum(rx) < Num(t[i])
               /\ \A k \in DOMAIN h : h[k] < Num(t[i])
    BY <1>2, <1>3, <1>4, <1>5, <2>2 DEF Ordered
  <2>3. /\ rx.at # "ph" => RxNum(rx) <= n + 1 /\ \A k \in DOMAIN h : h[k] < RxNum(rx)
        /\ IsStrictlyIncreasing(h) /\ \A k \in DOMAIN h : h[k] <= n + 1
    BY <1>4, <1>5 DEF Ordered
  <2> QED
    BY <2>1, <2>2, <2>3, Zenon DEF Ordered
<1>6. \A k : Seen(k, t, rx, h) <=> Seen(k, s, rx, h) \/ k = n + 1
  <2>1. Len(t) \in 1 .. Len(t) /\ t[Len(t)] = e /\ IsPh(e) /\ Num(e) = n + 1
    BY <1>1
  <2> QED
    BY <1>2, <1>3, <2>1, Zenon DEF Seen
<1> QED
  BY <1>5, <1>6 DEF s, t

\* Receive reads the first datagram: it accepts its protocol header, goes on with
\* the message it has begun, completes that message, or gives it up.
LEMMA LineTaken ==
    ASSUME NEW s \in Lines, s # <<>>, s[1] \in Datagrams,
           NEW rx, RxOK(rx), NEW r2, NEW h \in Seq(Nat), NEW h2, NEW n \in Nat,
           \/ r2 = RxIdle /\ h2 = h
           \/ rx.at = "ph" /\ IsPh(s[1]) /\ r2.at # "ph" /\ r2.ph = s[1].msg /\ h2 = h
           \/ rx.at # "ph" /\ r2.at # "ph" /\ r2.ph = rx.ph /\ h2 = h
           \/ rx.at # "ph" /\ r2 = RxIdle /\ h2 = Append(h, RxNum(rx)),
           Ordered(s, rx, h, n)
    PROVE  Ordered(Tail(s), r2, h2, n)
<1> DEFINE t == Tail(s)
<1>1. /\ Len(t) = Len(s) - 1 /\ Len(s) \in Nat \ {0}
      /\ \A i \in 1 .. Len(t) : i + 1 \in 1 .. Len(s) /\ 1 < i + 1 /\ t[i] = s[i + 1]
  BY DEF Lines
<1> HIDE DEF t
<1>2. /\ RxIdle.at = "ph" /\ RxNum(r2) = r2.ph.id[2] /\ Num(s[1]) = s[1].msg.id[2]
      /\ RxNum(rx) = rx.ph.id[2]
  BY DEF RxIdle, RxNum, Num
<1>3. /\ \A i \in 1 .. Len(s) : IsPh(s[i]) => Num(s[i]) \in Nat
      /\ rx.at # "ph" => RxNum(rx) \in Nat
      /\ \A k \in DOMAIN h : h[k] \in Nat
  BY PhInLine DEF RxOK, RxIdle, RxNum, Messages
<1>4. \A i, j \in 1 .. Len(t) : i < j /\ IsPh(t[i]) /\ IsPh(t[j]) => Num(t[i]) < Num(t[j])
  <2> SUFFICES ASSUME NEW i \in 1 .. Len(t), NEW j \in 1 .. Len(t), i < j, IsPh(t[i]), IsPh(t[j])
               PROVE  Num(t[i]) < Num(t[j])
    OBVIOUS
  <2>1. /\ i + 1 \in 1 .. Len(s) /\ j + 1 \in 1 .. Len(s) /\ i + 1 < j + 1
        /\ t[i] = s[i + 1] /\ t[j] = s[j + 1]
    BY <1>1
  <2> QED
    BY <2>1, Zenon DEF Ordered
<1>5. 1 \in 1 .. Len(s)
  BY <1>1
<1>6. ASSUME r2.at # "ph"
      PROVE  /\ h2 = h /\ RxNum(r2) <= n /\ \A k \in DOMAIN h : h[k] < RxNum(r2)
             /\ \A i \in 1 .. Len(t) : IsPh(t[i]) => RxNum(r2) < Num(t[i])
  <2>1. CASE rx.at = "ph" /\ IsPh(s[1]) /\ r2.ph = s[1].msg /\ h2 = h
    <3>1. RxNum(r2) = Num(s[1])
      BY <1>2, <2>1
    <3> QED
      BY <1>1, <1>5, <2>1, <3>1 DEF Ordered
  <2>2. CASE rx.at # "ph" /\ r2.ph = rx.ph /\ h2 = h
    <3>1. RxNum(r2) = RxNum(rx)
      BY <1>2, <2>2
    <3> QED
      BY <1>1, <2>2, <3>1 DEF Ordered
  <2> QED
    BY <1>2, <1>6, <2>1, <2>2
<1>7. /\ \A i \in 1 .. Len(t) : IsPh(t[i]) => Num(t[i]) <= n /\ \A k \in DOMAIN h2 : h2[k] < Num(t[i])
      /\ IsStrictlyIncreasing(h2) /\ \A k \in DOMAIN h2 : h2[k] <= n
  <2>1. CASE h2 = h
    BY <1>1, <2>1 DEF Ordered
  <2>2. CASE rx.at # "ph" /\ h2 = Append(h, RxNum(rx))
    <3>1. /\ RxNum(rx) <= n /\ RxNum(rx) \in Nat
          /\ \A k \in DOMAIN h : h[k] < RxNum(rx) /\ h[k] <= n
          /\ \A i \in 1 .. Len(s) : IsPh(s[i]) =>
                /\ Num(s[i]) <= n /\ RxNum(rx) < Num(s[i])
                /\ \A k \in DOMAIN h : h[k] < Num(s[i])
          /\ IsStrictlyIncreasing(h)
      BY <1>3, <2>2 DEF Ordered
    <3>2. /\ DOMAIN h2 = 1 .. Len(h) + 1 /\ DOMAIN h = 1 .. Len(h) /\ Len(h) \in Nat
          /\ h2[Len(h) + 1] = RxNum(rx) /\ \A k \in DOMAIN h : h2[k] = h[k]
      BY <1>3, <2>2, <3>1
    <3>3. \A k \in DOMAIN h2 : k \in DOMAIN h \/ k = Len(h) + 1
      BY <3>2
    <3>4. IsStrictlyIncreasing(h2)
      <4> SUFFICES ASSUME NEW i \in DOMAIN h2, NEW j \in DOMAIN h2, i < j PROVE h2[i] < h2[j]
        BY DEF IsStrictlyIncreasing
      <4>1. i \in DOMAIN h
        BY <3>2
      <4> QED
        BY <3>1, <3>2, <3>3, <4>1 DEF IsStrictlyIncreasing
    <3>5. \A k \in DOMAIN h2 : h2[k] <= n
      BY <3>1, <3>2, <3>3
    <3>6. ASSUME NEW i \in 1 .. Len(t), IsPh(t[i])
          PROVE  Num(t[i]) <= n /\ \A k \in DOMAIN h2 : h2[k] < Num(t[i])
      <4>1. i + 1 \in 1 .. Len(s) /\ t[i] = s[i + 1]
        BY <1>1
      <4> QED
        BY <3>1, <3>2, <3>3, <3>6, <4>1
    <3> QED
      BY <3>4, <3>5, <3>6
  <2> QED
    BY <2>1, <2>2
<1> QED
  BY <1>4, <1>6, <1>7, Zenon DEF Ordered, t

\* Nothing is lost, provided it goes on with what it has begun.
LEMMA TakenIsSeen ==
    ASSUME NEW s \in Lines, s # <<>>,
           NEW rx, NEW r2, NEW h \in Seq(Nat), NEW h2,
           rx.at # "ph" => RxNum(rx) \in Nat,
           \/ rx.at = "ph" /\ IsPh(s[1]) /\ r2.at # "ph" /\ r2.ph = s[1].msg /\ h2 = h
           \/ rx.at # "ph" /\ ~IsPh(s[1]) /\ r2.at # "ph" /\ r2.ph = rx.ph /\ h2 = h
           \/ rx.at # "ph" /\ ~IsPh(s[1]) /\ r2 = RxIdle /\ h2 = Append(h, RxNum(rx))
    PROVE  \A k : Seen(k, Tail(s), r2, h2) <=> Seen(k, s, rx, h)
<1> DEFINE t == Tail(s)
<1>1. /\ Len(t) = Len(s) - 1 /\ Len(s) \in Nat \ {0}
      /\ \A i \in 1 .. Len(t) : i + 1 \in 1 .. Len(s) /\ t[i] = s[i + 1]
      /\ \A i \in 1 .. Len(s) : i # 1 => i - 1 \in 1 .. Len(t) /\ t[i - 1] = s[i]
      /\ 1 \in 1 .. Len(s)
  BY DEF Lines
<1> HIDE DEF t
<1>2. /\ RxIdle.at = "ph" /\ RxNum(r2) = r2.ph.id[2] /\ Num(s[1]) = s[1].msg.id[2]
      /\ RxNum(rx) = rx.ph.id[2]
  BY DEF RxIdle, RxNum, Num
<1>3. \A k : (\E i \in 1 .. Len(s) : IsPh(s[i]) /\ Num(s[i]) = k) <=>
             \/ IsPh(s[1]) /\ Num(s[1]) = k
             \/ \E i \in 1 .. Len(t) : IsPh(t[i]) /\ Num(t[i]) = k
  <2> TAKE k
  <2>1. ASSUME NEW i \in 1 .. Len(s), IsPh(s[i]), Num(s[i]) = k
        PROVE  \/ IsPh(s[1]) /\ Num(s[1]) = k
               \/ \E j \in 1 .. Len(t) : IsPh(t[j]) /\ Num(t[j]) = k
    BY <1>1, <2>1, Zenon
  <2>2. ASSUME NEW i \in 1 .. Len(t), IsPh(t[i]), Num(t[i]) = k
        PROVE  \E j \in 1 .. Len(s) : IsPh(s[j]) /\ Num(s[j]) = k
    BY <1>1, <2>2, Zenon
  <2> QED
    BY <1>1, <2>1, <2>2, Zenon
<1>4. CASE rx.at = "ph" /\ IsPh(s[1]) /\ r2.at # "ph" /\ r2.ph = s[1].msg /\ h2 = h
  <2>1. RxNum(r2) = Num(s[1])
    BY <1>2, <1>4
  <2> QED
    BY <1>3, <1>4, <2>1, Zenon DEF Seen, t
<1>5. CASE rx.at # "ph" /\ ~IsPh(s[1]) /\ r2.at # "ph" /\ r2.ph = rx.ph /\ h2 = h
  <2>1. RxNum(r2) = RxNum(rx)
    BY <1>2, <1>5
  <2> QED
    BY <1>3, <1>5, <2>1, Zenon DEF Seen, t
<1>6. CASE rx.at # "ph" /\ ~IsPh(s[1]) /\ r2 = RxIdle /\ h2 = Append(h, RxNum(rx))
  <2>1. \A k : (\E i \in DOMAIN h2 : h2[i] = k) <=> (\E i \in DOMAIN h : h[i] = k) \/ RxNum(rx) = k
    <3>1. /\ DOMAIN h2 = 1 .. Len(h) + 1 /\ DOMAIN h = 1 .. Len(h) /\ Len(h) \in Nat
          /\ h2[Len(h) + 1] = RxNum(rx) /\ \A i \in DOMAIN h : h2[i] = h[i]
      BY <1>6
    <3>2. /\ \A i \in DOMAIN h2 : i \in DOMAIN h \/ i = Len(h) + 1
          /\ \A i \in DOMAIN h : i \in DOMAIN h2
          /\ Len(h) + 1 \in DOMAIN h2
      BY <3>1
    <3> QED
      BY <3>1, <3>2, Zenon
  <2>2. r2.at = "ph"
    BY <1>2, <1>6
  <2> QED
    BY <1>3, <1>6, <2>1, <2>2, Zenon DEF Seen, t
<1> QED
  BY <1>4, <1>5, <1>6

\* The first datagram, e, is the one that a call of Receive at rx waits for.
HeadLink(rx, e) ==
    /\ rx.at = "ph" => e = End \/ IsPh(e)
    /\ rx.at = "hdr" => e = HdrOf(rx.ph)
    /\ rx.at = "body" => e = FragOf(rx.ph, rx.got)

\* Receive reads the datagram it waits for, and then waits for the next one; a
\* protocol header that is not accepted leaves it where it was.
LEMMA ReadsOn ==
    ASSUME NEW rx, RxOK(rx), NEW d \in Datagrams, rx.at # "ph" => HeadLink(rx, d),
           NEW limit, NEW e \in Datagrams \cup {End}, Follows(d, e)
    PROVE  LET r == RxNext(rx, d, limit)
           IN /\ rx.at = "ph" => IF IsPh(d) /\ WithinLimit(d.msg.size, limit)
                                 THEN r.at = "hdr" /\ r.ph = d.msg
                                 ELSE r = RxIdle
              /\ rx.at # "ph" => ~IsPh(d) /\ r.at = "body" /\ r.ph = rx.ph /\ d.msg = rx.ph
              /\ Complete(r) => rx.at # "ph" /\ HeadLink(RxIdle, e)
              /\ r.at # "ph" /\ ~Complete(r) => HeadLink(r, e)
<1> DEFINE r == RxNext(rx, d, limit)
<1>1. CASE rx.at = "ph"
  <2>1. CASE ~(IsPh(d) /\ WithinLimit(d.msg.size, limit))
    <3>1. r = RxIdle
      BY <1>1, <2>1, Zenon DEF RxNext, AcceptsPh, IsPh
    <3>2. RxIdle.at = "ph" /\ ~Complete(RxIdle)
      BY DEF RxIdle, Complete
    <3> QED
      BY <1>1, <2>1, <3>1, <3>2, Zenon
  <2>2. CASE IsPh(d) /\ WithinLimit(d.msg.size, limit)
    <3>1. r = [at |-> "hdr", ph |-> d.msg]
      BY <1>1, <2>2, Zenon DEF RxNext, AcceptsPh, IsPh
    <3>2. r.at = "hdr" /\ r.ph = d.msg
      BY <3>1
    <3>3. Successor(d) = HdrOf(d.msg) /\ HdrOf(d.msg) # End
      BY <2>2, HdrIs, DatagramIs DEF Successor, IsPh
    <3>4. e = HdrOf(r.ph)
      BY <3>2, <3>3 DEF Follows
    <3> HIDE DEF r
    <3>5. ~Complete(r) /\ HeadLink(r, e)
      BY <3>2, <3>4 DEF Complete, HeadLink
    <3> QED
      BY <1>1, <2>2, <3>2, <3>5, Zenon DEF r
  <2> QED
    BY <2>1, <2>2
<1>2. CASE rx.at = "hdr"
  <2>1. rx.ph \in Messages /\ rx.ph.size \in Nat /\ d = HdrOf(rx.ph)
    BY <1>2 DEF HeadLink, RxOK, RxIdle, Messages
  <2>2. d.part = "hdr" /\ d.msg = rx.ph /\ d.len = 1 /\ d.len <= HdrMax
    BY <2>1, HdrIs, RpcAssumption
  <2>3. r.at = "body" /\ r.ph = rx.ph /\ r.got = 0
    BY <1>2, <2>2 DEF RxNext
  <2>4. Successor(d) = IF rx.ph.size = 0 THEN End ELSE FragOf(rx.ph, 0)
    BY <2>2 DEF Successor, BodySent
  <2>5. rx.ph.size # 0 => FragOf(rx.ph, 0) # End
    BY <2>1, FragIs, DatagramIs
  <2> HIDE DEF r
  <2>6. Complete(r) <=> rx.ph.size = 0
    BY <2>1, <2>3 DEF Complete
  <2>7. /\ Complete(r) => HeadLink(RxIdle, e)
        /\ ~Complete(r) => HeadLink(r, e)
    BY <2>3, <2>4, <2>5, <2>6 DEF HeadLink, RxIdle, Follows, IsPh
  <2> QED
    BY <1>2, <2>2, <2>3, <2>7 DEF r, IsPh
<1>3. CASE rx.at = "body"
  <2>1. /\ rx.ph \in Messages /\ rx.ph.size \in Nat /\ rx.got \in Nat /\ rx.got < rx.ph.size
        /\ d = FragOf(rx.ph, rx.got)
    BY <1>3 DEF HeadLink, RxOK, RxIdle, Messages
  <2>2. /\ d.part = "frag" /\ d.msg = rx.ph /\ d.off = rx.got
        /\ d.len = Smaller(FragSize, rx.ph.size - rx.got) /\ d.len \in 1 .. rx.ph.size - rx.got
    BY <2>1, FragIs
  <2>3. BodyRead(rx, d) = d.len
    BY <2>1, <2>2, FramingAssumption DEF BodyRead, Smaller
  <2>4. r.at = "body" /\ r.ph = rx.ph /\ r.got = rx.got + d.len
    BY <1>3, <2>3 DEF RxNext
  <2>5. BodySent(d) = rx.got + d.len
    BY <2>2 DEF BodySent
  <2>6. Successor(d) = IF rx.got + d.len = rx.ph.size THEN End ELSE FragOf(rx.ph, rx.got + d.len)
    BY <2>2, <2>5 DEF Successor
  <2>7. rx.got + d.len # rx.ph.size => FragOf(rx.ph, rx.got + d.len) # End
    <3>1. rx.got + d.len \in Nat /\ rx.got + d.len <= rx.ph.size
      BY <2>1, <2>2
    <3> QED
      BY <2>1, <3>1, FragIs, DatagramIs
  <2> HIDE DEF r
  <2>8. Complete(r) <=> rx.got + d.len = rx.ph.size
    BY <2>4 DEF Complete
  <2>9. /\ Complete(r) => HeadLink(RxIdle, e)
        /\ ~Complete(r) => HeadLink(r, e)
    BY <2>4, <2>6, <2>7, <2>8 DEF HeadLink, RxIdle, Follows, IsPh
  <2> QED
    BY <1>3, <2>2, <2>4, <2>9 DEF r, IsPh
<1>4. rx.at = "ph" \/ rx.at = "hdr" \/ rx.at = "body"
  BY DEF RxOK, RxIdle
<1> QED
  BY <1>1, <1>2, <1>3, <1>4, Zenon

\* What the caller that holds m_mutex sends next, and the requests' line.
OutC == IF mutexC = Nobody THEN End ELSE tx[mutexC]

Pipe == Line(toServer, OutC)

\* A message that Receive has begun goes on with the first datagram of the line.
PipeLinked == Chain(Pipe) /\ (srx.at # "ph" => HeadLink(srx, Pipe[1]))

\* With no limit at the server and no Stop, the first datagram is the one Receive
\* waits for, and the requests seen are those that were not refused.
PipeIntact ==
    /\ HeadLink(srx, Pipe[1])
    /\ \A n \in Nat : Seen(n, Pipe, srx, handled) <=>
                         n \in DOMAIN calls /\ calls[n].status # "error"

RequestInv ==
    /\ stopping => stops # 0
    /\ Ordered(Pipe, srx, handled, Len(calls)) /\ PipeLinked
    /\ ServerLimit = 0 /\ stops = 0 => PipeIntact

LEMMA PipeIs ==
    ASSUME TypeInv
    PROVE  /\ OutC \in Datagrams \cup {End} /\ toServer \in Seq(Datagrams)
           /\ Pipe \in Lines /\ Pipe # <<>>
           /\ Len(Pipe) = Len(toServer) + 1 /\ Pipe[Len(Pipe)] = OutC
           /\ \A i \in 1 .. Len(toServer) : Pipe[i] = toServer[i]
           /\ \A c \in Callers : tx[c] # End => mutexC = c /\ OutC = tx[c]
           /\ \A c \in Callers : mutexC = c => OutC = tx[c]
<1>1. OutC \in Datagrams \cup {End} /\ toServer \in Seq(Datagrams)
  BY ThreadsApart DEF TypeInv, DataOK, LockInv, LockTypes, OutC
<1>2. \A c \in Callers : (tx[c] # End => mutexC = c /\ OutC = tx[c]) /\ (mutexC = c => OutC = tx[c])
  BY ThreadsApart DEF TypeInv, LockInv, LocksAreHeld, OutC
<1>3. /\ Pipe \in Lines /\ Len(Pipe) = Len(toServer) + 1 /\ Pipe[Len(Pipe)] = OutC
      /\ \A i \in 1 .. Len(toServer) : Pipe[i] = toServer[i]
  BY <1>1, LineIs DEF Pipe, Lines
<1>4. Len(toServer) \in Nat
  BY <1>1
<1> QED
  BY <1>1, <1>2, <1>3, <1>4 DEF Lines

\* Steps that have nothing to do with requests.
LEMMA RequestsStay ==
    ASSUME RequestInv, UNCHANGED <<toServer, OutC, srx, handled, calls>>,
           stopping' => stops' # 0, stops' = 0 => stops = 0
    PROVE  RequestInv'
<1>1. Pipe' = Pipe
  BY DEF Pipe, Line
<1>2. Ordered(Pipe, srx, handled, Len(calls))'
  BY <1>1, Zenon DEF RequestInv
<1>3. (PipeIntact => PipeIntact') /\ (PipeLinked => PipeLinked')
  BY <1>1, Zenon DEF PipeIntact, PipeLinked
<1> QED
  BY <1>2, <1>3, Zenon DEF RequestInv

\* BeginRequest adds a call, and its protocol header if it is not refused.
LEMMA BeginKeepsRequests ==
    ASSUME TypeInv, RequestInv,
           NEW c \in Callers, NEW type \in CallTypes, NEW size \in Sizes,
           BeginRequest(c, type, size)
    PROVE  RequestInv'
<1> DEFINE m == Msg("request", Len(calls) + 1, type, size)
           n == Len(calls)
<1>1. /\ RxOK(srx) /\ handled \in Seq(Nat) /\ n \in Nat /\ calls \in Seq(CallRecords)
      /\ tx \in [Threads -> Datagrams \cup {End}] /\ c \in Threads /\ c # Nobody
  BY ThreadsApart DEF TypeInv, DataOK, CallsOK
<1>2. UNCHANGED <<toServer, srx, handled, stops, stopping>>
  BY DEF BeginRequest, server
<1>3. PICK s \in {"open", "error"} :
         /\ calls' = Append(calls, [by |-> c, type |-> type, status |-> s, resp |-> None])
         /\ s = "open" => mutexC' = c /\ tx' = [tx EXCEPT ![c] = PhOf(m)]
         /\ s = "error" => mutexC' = Nobody
  BY BeginRequestIs
<1>4. mutexC = c /\ tx[c] = End /\ OutC = End
  BY BeginRequestIs, PipeIs
<1>5. /\ n + 1 \in Nat /\ Len(calls') = n + 1
      /\ \A k \in Nat : (k \in DOMAIN calls' /\ calls'[k].status # "error") <=>
                          \/ k \in DOMAIN calls /\ calls[k].status # "error"
                          \/ k = n + 1 /\ s = "open"
  <2>1. DOMAIN calls' = 1 .. n + 1 /\ DOMAIN calls = 1 .. n
    BY <1>1, <1>3
  <2>2. /\ \A k \in DOMAIN calls : calls'[k] = calls[k]
        /\ calls'[n + 1].status = s
    BY <1>1, <1>3
  <2>3. \A k \in Nat : (k \in DOMAIN calls' <=> k \in DOMAIN calls \/ k = n + 1) /\ n + 1 \notin DOMAIN calls
    BY <1>1, <2>1
  <2>4. n + 1 \in Nat /\ Len(calls') = n + 1
    BY <1>1, <1>3
  <2> HIDE DEF n
  <2> QED
    BY <1>3, <2>2, <2>3, <2>4
<1>6. CASE s = "error"
  <2>1. OutC' = End
    BY <1>3, <1>6 DEF OutC
  <2>2. Pipe' = Pipe
    BY <1>2, <1>4, <2>1 DEF Pipe, Line
  <2>3. Ordered(Pipe, srx, handled, n + 1)
    BY <1>1, PipeIs, CallsGrow DEF RequestInv
  <2>4. (PipeIntact => PipeIntact') /\ (PipeLinked => PipeLinked')
    BY <1>2, <1>5, <1>6, <2>2, Zenon DEF PipeIntact, PipeLinked
  <2> QED
    BY <1>2, <1>5, <2>2, <2>3, <2>4, Zenon DEF RequestInv
<1>7. CASE s = "open"
  <2> DEFINE e == PhOf(m)
  <2>1. e \in Datagrams /\ IsPh(e) /\ Num(e) = n + 1
    <3>1. type \in Nat /\ size \in Nat /\ Len(calls) + 1 \in Nat
      <4>1. type \in {0, 2} /\ size \in Nat
        BY RpcAssumption
      <4>2. Len(calls) + 1 \in Nat
        BY <1>1
      <4> QED
        BY <4>1, <4>2
    <3>2. m \in Messages
      BY <3>1, MsgIs
    <3>3. m.id = <<"request", n + 1>>
      BY DEF Msg
    <3>4. e \in Datagrams /\ e.part = "ph" /\ e.msg = m
      BY <3>2, PhIs
    <3> HIDE DEF m, e
    <3> QED
      BY <3>3, <3>4 DEF IsPh, Num
  <2>2. OutC' = e
    BY <1>1, <1>3, <1>7 DEF OutC
  <2>3. Pipe = Line(toServer, End) /\ Pipe' = Line(toServer, e)
    BY <1>2, <1>4, <2>2 DEF Pipe
  <2> HIDE DEF e
  <2>4. toServer \in Seq(Datagrams)
    BY PipeIs
  <2>5. Ordered(Pipe, srx, handled, n)
    BY Zenon DEF RequestInv
  <2>6. Ordered(Pipe', srx, handled, n + 1)
    BY <1>1, <2>1, <2>3, <2>4, <2>5, RequestBegins
  <2>7. Chain(Pipe')
    BY <2>1, <2>3, <2>4, ChainBegins DEF RequestInv, PipeLinked, IsPh
  <2>8. \/ Pipe'[1] = Pipe[1]
        \/ Pipe[1] = End /\ Pipe'[1] = e
    <3>1. CASE toServer = <<>>
      BY <2>3, <2>4, <3>1 DEF Line
    <3>2. CASE toServer # <<>>
      <4>1. 1 \in 1 .. Len(toServer)
        BY <2>4, <3>2
      <4> QED
        BY <2>1, <2>3, <2>4, <4>1, LineIs
    <3> QED
      BY <3>1, <3>2
  <2>9. HeadLink(srx, Pipe[1]) => HeadLink(srx, Pipe'[1])
    <3>1. srx.at # "ph" /\ HeadLink(srx, Pipe[1]) => Pipe[1] # End
      <4>1. srx.at = "hdr" => HdrOf(srx.ph) # End
        BY <1>1, HdrIs, DatagramIs DEF RxOK, RxIdle
      <4>2. srx.at = "body" => FragOf(srx.ph, srx.got) # End
        BY <1>1, FragIs, DatagramIs DEF RxOK, RxIdle
      <4> QED
        BY <1>1, <4>1, <4>2 DEF HeadLink, RxOK, RxIdle
    <3>2. srx.at = "ph" => HeadLink(srx, e)
      BY <2>1 DEF HeadLink
    <3> QED
      BY <2>8, <3>1, <3>2
  <2>10. PipeLinked'
    BY <1>2, <2>7, <2>9 DEF RequestInv, PipeLinked
  <2>11. ASSUME PipeIntact PROVE PipeIntact'
    <3>1. \A k : Seen(k, Pipe', srx, handled) <=> Seen(k, Pipe, srx, handled) \/ k = n + 1
      BY <1>1, <2>1, <2>3, <2>4, RequestBegins
    <3>2. \A k \in Nat : Seen(k, Pipe', srx, handled) <=>
                            k \in DOMAIN calls' /\ calls'[k].status # "error"
      BY <1>5, <1>7, <2>11, <3>1, Zenon DEF PipeIntact
    <3> QED
      BY <1>2, <2>9, <2>11, <3>2, Zenon DEF PipeIntact
  <2> QED
    BY <1>2, <1>5, <2>6, <2>10, <2>11, Zenon DEF RequestInv
<1> QED
  BY <1>6, <1>7

\* SendRequest moves the datagram from the sender to the queue.
LEMMA SendKeepsRequests ==
    ASSUME TypeInv, RequestInv, NEW c \in Callers, SendRequest(c)
    PROVE  RequestInv'
<1> DEFINE o == tx[c]
<1>1. /\ toServer' = Append(toServer, o) /\ tx' = [tx EXCEPT ![c] = Successor(o)]
      /\ UNCHANGED <<mutexC, srx, handled, stops, stopping, calls>>
  BY DEF SendRequest, locks, server
<1>2. /\ o # End /\ mutexC = c /\ OutC = o /\ o \in Datagrams /\ toServer \in Seq(Datagrams)
      /\ c \in Threads /\ c # Nobody /\ tx \in [Threads -> Datagrams \cup {End}]
  BY PipeIs, ThreadsApart DEF SendRequest, TypeInv, LockInv, LocksAreHeld, DataOK
<1>3. OutC' = Successor(o)
  BY <1>1, <1>2 DEF OutC
<1> HIDE DEF o
<1>4. Pipe = Line(toServer, o) /\ Pipe' = Line(Append(toServer, o), Successor(o))
  BY <1>1, <1>2, <1>3 DEF Pipe
<1>5. Pipe' = Append(Pipe, Successor(o))
  BY <1>4 DEF Line
<1>6. Successor(o) \in Datagrams \cup {End} /\ ~IsPh(Successor(o))
  BY <1>2, SuccessorIs DEF IsPh, End
<1>7. Ordered(Pipe', srx, handled, Len(calls))
  BY <1>5, <1>6, PipeIs, LineGrows DEF RequestInv
<1>8. Pipe'[1] = Pipe[1]
  <2>1. Pipe \in Lines /\ 1 \in 1 .. Len(Pipe)
    BY PipeIs DEF Lines
  <2> QED
    BY <1>5, <2>1 DEF Lines
<1>9. PipeLinked'
  <2>1. Chain(Pipe')
    BY <1>2, <1>4, ChainSends DEF RequestInv, PipeLinked
  <2> QED
    BY <1>1, <1>8, <2>1, Zenon DEF RequestInv, PipeLinked
<1>10. ASSUME PipeIntact PROVE PipeIntact'
  <2>1. \A k : Seen(k, Pipe', srx, handled) <=> Seen(k, Pipe, srx, handled)
    BY <1>5, <1>6, PipeIs, LineGrows
  <2> QED
    BY <1>1, <1>8, <1>10, <2>1, Zenon DEF PipeIntact
<1> QED
  BY <1>1, <1>7, <1>9, <1>10, Zenon DEF RequestInv

\* The server's thread reads on.
LEMMA TakeKeepsRequests ==
    ASSUME TypeInv, RequestInv, NEW size \in Sizes, ServerTake(size)
    PROVE  RequestInv'
<1> DEFINE d == Head(toServer)
           r == RxNext(srx, d, ServerLimit)
           t == Tail(toServer)
<1>1. /\ RxOK(srx) /\ handled \in Seq(Nat) /\ Len(calls) \in Nat
      /\ toServer \in Seq(Datagrams) /\ OutC \in Datagrams \cup {End}
      /\ toServer # <<>> /\ toServer' = t /\ d \in Datagrams /\ t \in Seq(Datagrams)
  BY PipeIs DEF TypeInv, DataOK, CallsOK, ServerTake
<1>2. UNCHANGED <<mutexC, tx, stops, stopping, calls>>
  BY DEF ServerTake, locks
<1>3. OutC' = OutC
  BY <1>2 DEF OutC
<1>4. Pipe = Line(toServer, OutC) /\ Pipe' = Line(t, OutC) /\ Pipe' = Tail(Pipe)
  BY <1>1, <1>3 DEF Pipe, Line
<1>5. Pipe \in Lines /\ Pipe # <<>> /\ Pipe[1] = d
  BY <1>1, <1>4, PipeIs DEF Line
<1>6. /\ Complete(r) => srx' = RxIdle /\ handled' = Append(handled, RxNum(r))
      /\ ~Complete(r) => srx' = r /\ handled' = handled
  BY DEF ServerTake, RxNum
<1>7. /\ srx.at # "ph" => r = RxIdle \/ (r.at = "body" /\ r.ph = srx.ph)
      /\ srx.at = "ph" => r = RxIdle \/ (r.at = "hdr" /\ r.ph = d.msg /\ IsPh(d))
      /\ Complete(r) => srx.at # "ph" /\ r.ph = srx.ph
  BY <1>1, RxNextIs, Zenon DEF IsPh
<1> HIDE DEF r, d, t
<1>8. \/ srx' = RxIdle /\ handled' = handled
      \/ srx.at = "ph" /\ IsPh(Pipe[1]) /\ srx'.at # "ph" /\ srx'.ph = Pipe[1].msg /\ handled' = handled
      \/ srx.at # "ph" /\ srx'.at # "ph" /\ srx'.ph = srx.ph /\ handled' = handled
      \/ srx.at # "ph" /\ srx' = RxIdle /\ handled' = Append(handled, RxNum(srx))
  <2>1. CASE Complete(r)
    BY <1>6, <1>7, <2>1 DEF RxNum
  <2>2. CASE ~Complete(r)
    <3>1. srx' = r /\ handled' = handled
      BY <1>6, <2>2
    <3>2. CASE srx.at = "ph"
      BY <1>5, <1>7, <3>1, <3>2
    <3>3. CASE srx.at # "ph"
      BY <1>7, <3>1, <3>3
    <3> QED
      BY <3>2, <3>3
  <2> QED
    BY <2>1, <2>2
<1>9. Ordered(Pipe', srx', handled', Len(calls))
  BY <1>1, <1>4, <1>5, <1>8, LineTaken, Zenon DEF RequestInv
<1>10. Chain(Pipe')
  BY <1>1, <1>4, ChainTakes DEF RequestInv, PipeLinked, t
<1>11. Pipe'[1] \in Datagrams \cup {End} /\ Follows(d, Pipe'[1])
  <2>1. /\ 1 \in 1 .. Len(Pipe) - 1 /\ Pipe[2] = Pipe'[1]
        /\ Pipe[2] \in Datagrams \cup {End}
    <3>1. Len(Pipe) = Len(toServer) + 1 /\ Len(toServer) \in Nat \ {0}
      BY <1>1, PipeIs
    <3> QED
      BY <1>4, <1>5, <3>1 DEF Lines
  <2>2. Follows(Pipe[1], Pipe[1 + 1])
    BY <2>1 DEF RequestInv, PipeLinked, Chain
  <2> QED
    BY <1>5, <2>1, <2>2
<1>12. srx.at # "ph" => HeadLink(srx, d)
  BY <1>5 DEF RequestInv, PipeLinked
<1>13. /\ srx.at = "ph" => IF IsPh(d) /\ WithinLimit(d.msg.size, ServerLimit)
                          THEN r.at = "hdr" /\ r.ph = d.msg
                          ELSE r = RxIdle
       /\ srx.at # "ph" => ~IsPh(d) /\ r.at = "body" /\ r.ph = srx.ph
       /\ Complete(r) => srx.at # "ph" /\ HeadLink(RxIdle, Pipe'[1])
       /\ r.at # "ph" /\ ~Complete(r) => HeadLink(r, Pipe'[1])
  BY <1>1, <1>11, <1>12, ReadsOn, Zenon DEF r
<1>14. RxIdle.at = "ph"
  BY DEF RxIdle
<1>15. PipeLinked'
  <2>1. srx'.at # "ph" => HeadLink(srx', Pipe'[1])
    BY <1>6, <1>13, <1>14, Zenon
  <2> QED
    BY <1>10, <2>1 DEF PipeLinked
<1>16. ASSUME PipeIntact, ServerLimit = 0 PROVE PipeIntact'
  <2>1. srx.at = "ph" => IsPh(d) /\ WithinLimit(d.msg.size, ServerLimit)
    BY <1>1, <1>5, <1>16, DatagramIs DEF PipeIntact, HeadLink, WithinLimit
  <2>2. HeadLink(srx', Pipe'[1])
    BY <1>6, <1>13, <2>1
  <2>3. \/ srx.at = "ph" /\ IsPh(Pipe[1]) /\ srx'.at # "ph" /\ srx'.ph = Pipe[1].msg /\ handled' = handled
        \/ srx.at # "ph" /\ ~IsPh(Pipe[1]) /\ srx'.at # "ph" /\ srx'.ph = srx.ph /\ handled' = handled
        \/ srx.at # "ph" /\ ~IsPh(Pipe[1]) /\ srx' = RxIdle /\ handled' = Append(handled, RxNum(srx))
    <3>1. CASE Complete(r)
      BY <1>5, <1>6, <1>7, <1>13, <3>1 DEF RxNum
    <3>2. CASE ~Complete(r)
      <4>1. srx' = r /\ handled' = handled
        BY <1>6, <3>2
      <4>2. CASE srx.at = "ph"
        BY <1>5, <1>13, <2>1, <4>1, <4>2
      <4>3. CASE srx.at # "ph"
        BY <1>5, <1>13, <4>1, <4>3
      <4> QED
        BY <4>2, <4>3
    <3> QED
      BY <3>1, <3>2
  <2>4. srx.at # "ph" => RxNum(srx) \in Nat
    BY <1>1 DEF RxOK, RxIdle, RxNum, Messages
  <2>5. \A k : Seen(k, Pipe', srx', handled') <=> Seen(k, Pipe, srx, handled)
    <3>1. \A k : Seen(k, Tail(Pipe), srx', handled') <=> Seen(k, Pipe, srx, handled)
      BY <1>1, <1>5, <2>3, <2>4, TakenIsSeen, Zenon
    <3> QED
      BY <1>4, <3>1
  <2> QED
    BY <1>2, <1>16, <2>2, <2>5, Zenon DEF PipeIntact
<1> QED
  BY <1>2, <1>9, <1>15, <1>16, Zenon DEF RequestInv

LEMMA RequestStep ==
    ASSUME TypeInv, RequestInv, [Next]_vars
    PROVE  RequestInv'
<1>1. /\ mutexC \in Callers \cup {Nobody} /\ tx \in [Threads -> Datagrams \cup {End}]
      /\ \A c \in Callers : c \in Threads /\ c \notin ServerThreads /\ c # Nobody
  BY ThreadsApart DEF TypeInv, LockInv, LockTypes, DataOK
<1>2. stopping => stops # 0
  BY DEF RequestInv
<1>3. ASSUME NEW c \in Callers, Call(c) PROVE RequestInv'
  <2>1. UNCHANGED <<toServer, tx, srx, handled, calls, stops, stopping>>
    BY <1>3 DEF Call, server
  <2>2. mutexC = Nobody /\ mutexC' = c /\ tx[c] = End
    BY <1>3 DEF Call, TypeInv, LockInv, LocksAreHeld
  <2>3. OutC' = OutC
    BY <1>1, <2>1, <2>2 DEF OutC
  <2> QED
    BY <1>2, <2>1, <2>3, RequestsStay
<1>4. ASSUME NEW c \in Callers, ClearAndWait(c) \/ SpuriousWakeup(c) PROVE RequestInv'
  <2>1. UNCHANGED <<toServer, tx, mutexC, srx, handled, calls, stops, stopping>>
    BY <1>4 DEF ClearAndWait, SpuriousWakeup, locks, server
  <2>2. OutC' = OutC
    BY <2>1 DEF OutC
  <2> QED
    BY <1>2, <2>1, <2>2, RequestsStay
<1>5. ASSUME NEW c \in Callers, Resume(c) \/ Return(c) PROVE RequestInv'
  <2>1. /\ UNCHANGED <<toServer, tx, srx, handled, stops, stopping>>
        /\ cpc[c] \in {"woken", "returning"}
    BY <1>5 DEF Resume, Return, server
  <2>2. CASE UNCHANGED <<mutexC, calls>>
    <3>1. OutC' = OutC
      BY <2>1, <2>2 DEF OutC
    <3> QED
      BY <1>2, <2>1, <2>2, <3>1, RequestsStay
  <2>3. CASE /\ mutexC' = Nobody /\ calls' \in Seq(CallRecords) /\ Len(calls') = Len(calls)
             /\ \A n \in DOMAIN calls : n # Len(calls) => calls'[n] = calls[n]
             /\ calls'[Len(calls)].status # "error"
    <3>1. /\ mutexC' = Nobody /\ calls' \in Seq(CallRecords) /\ Len(calls') = Len(calls)
          /\ \A n \in DOMAIN calls : n # Len(calls) => calls'[n] = calls[n]
          /\ calls'[Len(calls)].status # "error"
      BY <2>3
    <3>2. mutexC = c /\ tx[c] = End /\ OutC = End /\ OutC' = End
      BY <2>1, <3>1, PipeIs DEF TypeInv, LockInv, LocksAreHeld, OutC
    <3>3. Pipe' = Pipe
      BY <2>1, <3>2 DEF Pipe, Line
    <3>4. \A n \in Nat : (n \in DOMAIN calls' /\ calls'[n].status # "error") <=>
                         (n \in DOMAIN calls /\ calls[n].status # "error")
      <4>1. calls \in Seq(CallRecords) /\ calls[Len(calls)].status = "open"
        BY <2>1, CurrentIs DEF TypeInv, CallsOK, Underway
      <4>2. DOMAIN calls' = DOMAIN calls
        BY <3>1, <4>1
      <4>3. ASSUME NEW n \in DOMAIN calls
            PROVE  calls'[n].status # "error" <=> calls[n].status # "error"
        BY <3>1, <4>1
      <4> QED
        BY <4>2, <4>3, Zenon
    <3>5. Ordered(Pipe', srx', handled', Len(calls'))
      BY <2>1, <3>1, <3>3, Zenon DEF RequestInv
    <3>6. (PipeIntact => PipeIntact') /\ (PipeLinked => PipeLinked')
      BY <2>1, <3>3, <3>4, Zenon DEF PipeIntact, PipeLinked
    <3> QED
      BY <2>1, <3>5, <3>6, Zenon DEF RequestInv
  <2>4. CASE Resume(c)
    BY <2>2, <2>3, <2>4, ResumeIs
  <2>5. CASE Return(c)
    BY <2>2, <2>3, <2>5, ReturnIs
  <2> QED
    BY <1>5, <2>4, <2>5
<1>6. CASE ClientTake \/ CheckResult \/ Arrive \/ Store \/ Start \/ Finished \/ UNCHANGED vars
  <2>1. UNCHANGED <<toServer, tx, mutexC, srx, handled, calls, stops, stopping>>
    BY <1>6 DEF ClientTake, CheckResult, Arrive, Store, Start, Finished, vars, locks, server
  <2>2. OutC' = OutC
    BY <2>1 DEF OutC
  <2> QED
    BY <1>2, <2>1, <2>2, RequestsStay
<1>7. CASE Stop
  <2>1. UNCHANGED <<toServer, tx, mutexC, srx, handled, calls>> /\ stops' = stops + 1
    BY <1>7 DEF Stop, locks
  <2>2. OutC' = OutC
    BY <2>1 DEF OutC
  <2>3. stops' # 0
    BY <2>1 DEF TypeInv, ControlOK
  <2> QED
    BY <2>1, <2>2, <2>3, RequestsStay
<1>8. CASE EndRun
  <2>1. /\ UNCHANGED <<toServer, mutexC, handled, calls, stops>> /\ srx' = RxIdle /\ ~stopping' /\ stopping
        /\ tx' = [tx EXCEPT ![Run] = End]
    BY <1>8, Zenon DEF EndRun
  <2>2. OutC' = OutC
    BY <1>1, <2>1 DEF OutC, ServerThreads
  <2>3. Pipe' = Pipe
    BY <2>1, <2>2 DEF Pipe, Line
  <2>4. stops' # 0
    BY <1>2, <2>1
  <2>5. Ordered(Pipe', srx', handled', Len(calls'))
    <3>1. Ordered(Pipe, RxIdle, handled, Len(calls))
      BY Zenon DEF RequestInv, Ordered, RxIdle
    <3> QED
      BY <2>1, <2>3, <3>1
  <2>6. PipeLinked'
    <3>1. Chain(Pipe') /\ srx'.at = "ph"
      BY <2>1, <2>3 DEF RequestInv, PipeLinked, RxIdle
    <3> QED
      BY <3>1 DEF PipeLinked
  <2> QED
    BY <2>1, <2>4, <2>5, <2>6, Zenon DEF RequestInv
<1>9. CASE \/ BeginReply
           \/ \E n \in Notifiers, type \in NoteTypes, size \in Sizes : BeginNote(n, type, size)
           \/ \E t \in Notifiers \cup {Run} : ServerSend(t)
  <2>1. UNCHANGED <<toServer, mutexC, srx, handled, calls, stops, stopping>>
    BY <1>9 DEF BeginReply, BeginNote, ServerSend, server
  <2>2. \E t \in ServerThreads : \E d : tx' = tx \/ tx' = [tx EXCEPT ![t] = d]
    BY <1>9, Zenon DEF BeginReply, BeginNote, ServerSend, ServerThreads
  <2>3. OutC' = OutC
    BY <1>1, <2>1, <2>2 DEF OutC
  <2> QED
    BY <1>2, <2>1, <2>3, RequestsStay
<1> QED
  BY <1>3, <1>4, <1>5, <1>6, <1>7, <1>8, <1>9,
     BeginKeepsRequests, SendKeepsRequests, TakeKeepsRequests, Zenon DEF Next

LEMMA RequestInit == Init => RequestInv
<1> SUFFICES ASSUME Init PROVE RequestInv
  OBVIOUS
<1>1. /\ toServer = <<>> /\ srx = RxIdle /\ RxIdle.at = "ph" /\ handled = <<>> /\ calls = <<>>
      /\ ~stopping /\ OutC = End
  BY Zenon DEF Init, RxIdle, OutC
<1>2. /\ Len(Pipe) = 1 /\ Pipe[1] = End /\ ~IsPh(Pipe[1]) /\ 1 .. Len(Pipe) = {1}
      /\ 1 .. Len(Pipe) - 1 = {} /\ Len(calls) = 0 /\ DOMAIN calls = {} /\ DOMAIN handled = {}
  BY <1>1 DEF Pipe, Line, IsPh, End
<1>3. Ordered(Pipe, srx, handled, Len(calls))
  BY <1>1, <1>2 DEF Ordered, IsStrictlyIncreasing
<1>4. PipeIntact /\ PipeLinked
  BY <1>1, <1>2 DEF PipeIntact, PipeLinked, Chain, HeadLink, Seen
<1> QED
  BY <1>1, <1>3, <1>4, Zenon DEF RequestInv

\* A request is handled once at most, in the order of the calls; without a limit at
\* the server and a Stop none is lost either, for any number of callers, any sizes
\* and queues of any length.
THEOREM RequestsHandledOnce == Spec => []RequestsAreHandledOnce
<1>1. Init => RequestInv
  BY RequestInit
<1>2. TypeInv /\ RequestInv => RequestsAreHandledOnce
  <2> SUFFICES ASSUME TypeInv, RequestInv PROVE RequestsAreHandledOnce
    OBVIOUS
  <2>1. IsStrictlyIncreasing(handled)
    BY DEF RequestInv, Ordered
  <2>2. \A n : n \in RequestsInPipe <=>
           \/ srx.at # "ph" /\ RxNum(srx) = n
           \/ \E i \in 1 .. Len(Pipe) : IsPh(Pipe[i]) /\ Num(Pipe[i]) = n
    <3> TAKE n
    <3>1. n \in RequestsInPipe <=>
             \/ \E c \in Callers : tx[c] # End /\ IsPh(tx[c]) /\ Num(tx[c]) = n
             \/ \E i \in 1 .. Len(toServer) : IsPh(toServer[i]) /\ Num(toServer[i]) = n
             \/ srx.at # "ph" /\ RxNum(srx) = n
      <4>1. DOMAIN toServer = 1 .. Len(toServer)
        BY PipeIs
      <4> QED
        BY <4>1, Zenon DEF RequestsInPipe, IsPh, Num, RxNum
    <3>2. (\E c \in Callers : tx[c] # End /\ IsPh(tx[c]) /\ Num(tx[c]) = n) <=>
             IsPh(OutC) /\ Num(OutC) = n
      <4>1. IsPh(OutC) => OutC # End /\ mutexC \in Callers /\ OutC = tx[mutexC]
        BY DEF IsPh, End, OutC, TypeInv, LockInv, LockTypes
      <4> QED
        BY <4>1, PipeIs, Zenon
    <3>3. (\E i \in 1 .. Len(Pipe) : IsPh(Pipe[i]) /\ Num(Pipe[i]) = n) <=>
             \/ \E i \in 1 .. Len(toServer) : IsPh(toServer[i]) /\ Num(toServer[i]) = n
             \/ IsPh(OutC) /\ Num(OutC) = n
      <4>1. /\ Len(Pipe) \in 1 .. Len(Pipe) /\ Pipe[Len(Pipe)] = OutC
            /\ \A i \in 1 .. Len(Pipe) : i \in 1 .. Len(toServer) \/ i = Len(Pipe)
            /\ \A i \in 1 .. Len(toServer) : i \in 1 .. Len(Pipe) /\ Pipe[i] = toServer[i]
        BY PipeIs
      <4> QED
        BY <4>1, Zenon
    <3> QED
      BY <3>1, <3>2, <3>3, Zenon
  <2>3. ASSUME ServerLimit = 0, stops = 0
        PROVE  LET done == {handled[i] : i \in DOMAIN handled}
               IN /\ done \cap RequestsInPipe = {}
                  /\ done \cup RequestsInPipe = {n \in DOMAIN calls : calls[n].status # "error"}
    <3> DEFINE done == {handled[i] : i \in DOMAIN handled}
    <3>1. PipeIntact
      BY <2>3, Zenon DEF RequestInv
    <3>2. /\ handled \in Seq(Nat) /\ RxOK(srx) /\ Pipe \in Lines /\ calls \in Seq(CallRecords)
          /\ \A k \in DOMAIN handled : handled[k] \in Nat
      BY PipeIs DEF TypeInv, DataOK, CallsOK
    <3>3. \A n \in RequestsInPipe : n \in Nat /\ n \notin done
      <4> SUFFICES ASSUME NEW n \in RequestsInPipe PROVE n \in Nat /\ \A k \in DOMAIN handled : handled[k] # n
        OBVIOUS
      <4>1. CASE srx.at # "ph" /\ RxNum(srx) = n
        <5>1. n \in Nat
          BY <3>2, <4>1 DEF RxOK, RxIdle, RxNum, Messages
        <5>2. \A k \in DOMAIN handled : handled[k] < n
          BY <4>1 DEF RequestInv, Ordered
        <5> QED
          BY <3>2, <5>1, <5>2
      <4>2. CASE \E i \in 1 .. Len(Pipe) : IsPh(Pipe[i]) /\ Num(Pipe[i]) = n
        <5>1. n \in Nat
          BY <3>2, <4>2, PhInLine
        <5>2. \A k \in DOMAIN handled : handled[k] < n
          BY <4>2 DEF RequestInv, Ordered
        <5> QED
          BY <3>2, <5>1, <5>2
      <4> QED
        BY <2>2, <4>1, <4>2
    <3>4. \A n : n \in done \cup RequestsInPipe <=> n \in DOMAIN calls /\ calls[n].status # "error"
      <4> TAKE n
      <4>1. n \in done \cup RequestsInPipe => n \in Nat
        BY <3>2, <3>3
      <4>2. n \in DOMAIN calls => n \in Nat
        BY <3>2
      <4>3. n \in done \cup RequestsInPipe <=> Seen(n, Pipe, srx, handled)
        BY <2>2, Zenon DEF Seen
      <4> QED
        BY <3>1, <4>1, <4>2, <4>3, Zenon DEF PipeIntact
    <3> QED
      BY <3>3, <3>4, Zenon
  <2> QED
    BY <2>1, <2>3, Zenon DEF RequestsAreHandledOnce
<1>3. TypeInv /\ RequestInv /\ [Next]_vars => (TypeInv /\ RequestInv)'
  BY TypeInvStep, RequestStep
<1> QED
  BY <1>1, <1>2, <1>3, TypeInit, PTL DEF Spec

-----------------------------------------------------------------------------
(* With no notifications and no limit at the client, one call is under way at a *)
(* time, and it is in one place: on its way to the server, on its way back, being *)
(* looked at by the response thread, or answered.  A Stop may lose it on the way. *)

Down == Line(toClient, OutS)

UpEmpty   == toServer = <<>> /\ OutC = End /\ srx.at = "ph"
DownEmpty == toClient = <<>> /\ OutS = End /\ crx.at = "ph"

\* The line and the Receive at its end hold one message at most.
Single(s, rx, id) ==
    /\ \A i \in 1 .. Len(s) : s[i] # End => s[i].msg.id = id
    /\ \A i \in 1 .. Len(s) : IsPh(s[i]) => i = 1 /\ rx.at = "ph"
    /\ rx.at # "ph" => rx.ph.id = id

\* Its datagrams, the last of which may be missing.
Pieces(s) == \A i \in 1 .. Len(s) - 1 : s[i + 1] = End \/ s[i + 1] = Successor(s[i])

Got(n) == \E i \in DOMAIN received : received[i].id = <<"response", n>>

\* A caller has made its call and has no answer yet.
Waits ==
    \E c \in Callers : /\ cpc[c] \in {"sending", "sent", "waiting", "woken"}
                       /\ cpc[c] \in {"waiting", "woken"} => ~arrived

Resting ==
    /\ UpEmpty /\ DownEmpty /\ reply = None /\ rpc = "receive"
    /\ \A c \in Callers : cpc[c] \in {"idle", "locking"}

Requesting ==
    /\ DownEmpty /\ reply = None /\ rpc = "receive" /\ Waits
    /\ Single(Pipe, srx, <<"request", Len(calls)>>)

Answering ==
    /\ UpEmpty /\ rpc = "receive" /\ Waits
    /\ Single(Down, crx, <<"response", Len(calls)>>) /\ Pieces(Down)
    /\ Down[1] # End => HeadLink(crx, Down[1])
    /\ reply # None => reply.id = <<"response", Len(calls)>> /\ (OutS = End => DownEmpty)
    /\ reply = None => OutS = End

Checking ==
    /\ UpEmpty /\ DownEmpty /\ reply = None /\ rpc \in {"check", "arrive"} /\ Waits
    /\ Got(Len(calls))

Answered ==
    /\ UpEmpty /\ DownEmpty /\ reply = None /\ rpc = "receive" /\ Got(Len(calls))
    /\ arrived /\ \E c \in Callers : cpc[c] \in {"woken", "returning"}

Stage == Resting \/ Requesting \/ Answering \/ Checking \/ Answered

QuietInv == Stage /\ isSuccess /\ OkMeansAnswered

\* What the stages are about, apart from the callers.
Work == <<toServer, toClient, OutC, OutS, srx, crx, reply, rpc, calls, received>>

LEMMA StageStays ==
    ASSUME Requesting \/ Answering \/ Checking, UNCHANGED Work, Waits'
    PROVE  Stage'
<1>1. UNCHANGED <<toServer, toClient, OutC, OutS, srx, crx, reply, rpc, calls, received>>
  BY DEF Work
<1>2. Pipe' = Pipe /\ Down' = Down
  BY <1>1 DEF Pipe, Down, Line
<1>3. CASE Requesting
  BY <1>1, <1>2, <1>3, Zenon DEF Requesting, Stage, DownEmpty
<1>4. CASE Answering
  BY <1>1, <1>2, <1>4, Zenon DEF Answering, Stage, DownEmpty, UpEmpty
<1>5. CASE Checking
  BY <1>1, <1>2, <1>5, Zenon DEF Checking, Stage, DownEmpty, UpEmpty, Got
<1> QED
  BY <1>3, <1>4, <1>5

\* A line with nothing in it.
LEMMA EmptyLine ==
    /\ Line(<<>>, End) = <<End>> /\ Pieces(<<End>>) /\ <<End>>[1] = End
    /\ \A rx, id : rx.at = "ph" => Single(<<End>>, rx, id)
<1>1. Line(<<>>, End) = <<End>> /\ <<End>>[1] = End /\ Len(<<End>>) = 1
  BY DEF Line
<1>2. 1 .. Len(<<End>>) = {1} /\ 1 .. Len(<<End>>) - 1 = {} /\ ~IsPh(End)
  BY <1>1 DEF IsPh, End
<1> QED
  BY <1>1, <1>2, Zenon DEF Pieces, Single

LEMMA SingleBegins ==
    ASSUME NEW m \in Messages, NEW rx, rx.at = "ph"
    PROVE  LET s == Line(<<>>, PhOf(m))
           IN Single(s, rx, m.id) /\ Pieces(s) /\ HeadLink(rx, s[1])
<1> DEFINE s == Line(<<>>, PhOf(m))
<1>1. Len(s) = 1 /\ s[1] = PhOf(m) /\ PhOf(m).msg = m /\ IsPh(PhOf(m))
  BY PhIs DEF Line, IsPh
<1> HIDE DEF s
<1>2. 1 .. Len(s) = {1} /\ 1 .. Len(s) - 1 = {}
  BY <1>1
<1>3. Single(s, rx, m.id) /\ Pieces(s) /\ HeadLink(rx, s[1])
  BY <1>1, <1>2 DEF Single, Pieces, HeadLink
<1> QED
  BY <1>3 DEF s

LEMMA SingleSends ==
    ASSUME NEW q \in Seq(Datagrams), NEW o \in Datagrams, NEW rx, NEW id, Single(Line(q, o), rx, id)
    PROVE  LET t == Line(Append(q, o), Successor(o))
           IN /\ Single(t, rx, id) /\ t[1] = Line(q, o)[1]
              /\ Pieces(Line(q, o)) => Pieces(t)
<1> DEFINE s == Line(q, o)
           t == Line(Append(q, o), Successor(o))
<1>1. /\ Len(s) = Len(q) + 1 /\ Len(q) \in Nat /\ s[Len(s)] = o
      /\ Len(t) = Len(s) + 1 /\ t[Len(t)] = Successor(o)
      /\ \A i \in 1 .. Len(s) : t[i] = s[i]
  <2>1. s \in Seq(Datagrams) /\ Len(s) = Len(q) + 1 /\ Len(q) \in Nat /\ s[Len(s)] = o
    BY DEF Line
  <2>2. t = Append(s, Successor(o))
    BY DEF Line
  <2> HIDE DEF s, t
  <2> QED
    BY <2>1, <2>2
<1> HIDE DEF s, t
<1>2. /\ ~IsPh(Successor(o)) /\ (Successor(o) # End => Successor(o).msg = o.msg) /\ o # End
  BY SuccessorIs, DatagramIs DEF IsPh, End
<1>3. \A i \in 1 .. Len(t) : \/ i \in 1 .. Len(s) /\ t[i] = s[i]
                             \/ i = Len(t) /\ t[i] = Successor(o)
  BY <1>1
<1>4. o.msg.id = id
  <2>1. Len(s) \in 1 .. Len(s)
    BY <1>1
  <2> QED
    BY <1>1, <1>2, <2>1 DEF Single, s
<1>5. Single(t, rx, id)
  <2>1. ASSUME NEW i \in 1 .. Len(t) PROVE t[i] # End => t[i].msg.id = id
    BY <1>2, <1>3, <1>4 DEF Single, s
  <2>2. ASSUME NEW i \in 1 .. Len(t) PROVE IsPh(t[i]) => i = 1 /\ rx.at = "ph"
    BY <1>2, <1>3 DEF Single, s
  <2> QED
    BY <2>1, <2>2 DEF Single
<1>6. t[1] = s[1]
  BY <1>1
<1>7. ASSUME Pieces(s) PROVE Pieces(t)
  <2> SUFFICES ASSUME NEW i \in 1 .. Len(t) - 1
               PROVE  t[i + 1] = End \/ t[i + 1] = Successor(t[i])
    BY DEF Pieces
  <2>1. CASE i = Len(s)
    BY <1>1, <2>1
  <2>2. CASE i < Len(s)
    <3>1. i \in 1 .. Len(s) - 1 /\ t[i] = s[i] /\ t[i + 1] = s[i + 1]
      BY <1>1, <2>2
    <3> QED
      BY <1>7, <3>1 DEF Pieces
  <2> QED
    BY <1>1, <2>1, <2>2
<1> QED
  BY <1>5, <1>6, <1>7 DEF s, t

\* Receive takes the first datagram.
LEMMA SingleTakes ==
    ASSUME NEW q \in Seq(Datagrams), NEW o \in Datagrams \cup {End}, q # <<>>,
           NEW rx, NEW id, Single(Line(q, o), rx, id), NEW r,
           \/ r.at = "ph"
           \/ rx.at = "ph" /\ r.ph = Head(q).msg
           \/ rx.at # "ph" /\ r.ph = rx.ph
    PROVE  LET s == Line(q, o)
               t == Line(Tail(q), o)
           IN /\ Single(t, r, id) /\ ~IsPh(t[1])
              /\ t[1] = End => Tail(q) = <<>> /\ o = End
              /\ Pieces(s) => Pieces(t) /\ (t[1] = End \/ t[1] = Successor(Head(q)))
<1> DEFINE s == Line(q, o)
           t == Line(Tail(q), o)
<1>1. /\ s \in Seq(Datagrams \cup {End}) /\ Len(s) = Len(q) + 1 /\ Len(q) \in Nat \ {0} /\ s # <<>>
      /\ s[1] = Head(q) /\ Head(q) \in Datagrams /\ Head(q) # End
  <2>1. Head(q) \in Datagrams /\ Len(q) \in Nat \ {0}
    OBVIOUS
  <2>2. s \in Seq(Datagrams \cup {End}) /\ Len(s) = Len(q) + 1 /\ s # <<>> /\ s[1] = Head(q)
    BY <2>1 DEF Line
  <2> QED
    BY <2>1, <2>2, DatagramIs
<1>2. t = Tail(s)
  BY DEF Line
<1>3. t[1] = End => Tail(q) = <<>> /\ o = End
  <2>1. CASE Tail(q) = <<>>
    <3>1. Append(<<>>, o) = <<o>> /\ <<o>>[1] = o
      OBVIOUS
    <3>2. t = Append(<<>>, o)
      BY <2>1, Zenon DEF Line
    <3>3. t[1] = o
      BY <3>1, <3>2, Zenon
    <3> QED
      BY <2>1, <3>3, Zenon
  <2>2. CASE Tail(q) # <<>>
    <3>1. Tail(q) \in Seq(Datagrams) /\ 1 \in 1 .. Len(Tail(q)) /\ Tail(q)[1] \in Datagrams
      BY <2>2
    <3>2. t[1] = Tail(q)[1]
      BY <3>1 DEF Line
    <3> QED
      BY <3>1, <3>2, DatagramIs
  <2> QED
    BY <2>1, <2>2
<1> HIDE DEF s, t
<1>4. /\ Len(t) = Len(s) - 1 /\ 1 \in 1 .. Len(t)
      /\ \A i \in 1 .. Len(t) : i + 1 \in 1 .. Len(s) /\ i + 1 # 1 /\ t[i] = s[i + 1]
  BY <1>1, <1>2
<1>5. 1 \in 1 .. Len(s) /\ Head(q).msg.id = id
  BY <1>1 DEF Single, s
<1>6. /\ \A i \in 1 .. Len(t) : t[i] # End => t[i].msg.id = id
      /\ \A i \in 1 .. Len(t) : ~IsPh(t[i])
  BY <1>4, Zenon DEF Single, s
<1>7. r.at # "ph" => r.ph.id = id
  BY <1>5 DEF Single
<1>8. Single(t, r, id) /\ ~IsPh(t[1])
  BY <1>4, <1>6, <1>7, Zenon DEF Single
<1>9. ASSUME Pieces(s) PROVE Pieces(t) /\ (t[1] = End \/ t[1] = Successor(Head(q)))
  <2>1. ASSUME NEW i \in 1 .. Len(t) - 1
        PROVE  t[i + 1] = End \/ t[i + 1] = Successor(t[i])
    <3>1. i + 1 \in 1 .. Len(s) - 1 /\ t[i] = s[i + 1] /\ t[i + 1] = s[i + 1 + 1]
      BY <1>1, <1>4
    <3> QED
      BY <1>9, <3>1 DEF Pieces
  <2>2. 1 \in 1 .. Len(s) - 1 /\ t[1] = s[1 + 1]
    BY <1>1, <1>4
  <2> QED
    BY <1>1, <1>9, <2>1, <2>2 DEF Pieces
<1> QED
  BY <1>3, <1>8, <1>9, Zenon DEF s, t

\* In every stage but Resting some caller is in its call, and no other is in one.
LEMMA OneWaiter ==
    ASSUME TypeInv, Stage, NEW c \in Callers, cpc[c] # "idle"
    PROVE  \/ Resting /\ cpc[c] = "locking"
           \/ /\ Requesting \/ Answering \/ Checking
              /\ cpc[c] \in {"sending", "sent", "waiting", "woken"}
              /\ cpc[c] \in {"waiting", "woken"} => ~arrived
           \/ Answered /\ cpc[c] \in {"woken", "returning"} /\ arrived
<1>1. LockInv
  BY DEF TypeInv
<1>2. CASE Resting
  BY <1>2 DEF Resting
<1>3. CASE Requesting \/ Answering \/ Checking
  <2>1. Waits
    BY <1>3 DEF Requesting, Answering, Checking
  <2>2. PICK d \in Callers : /\ cpc[d] \in {"sending", "sent", "waiting", "woken"}
                             /\ cpc[d] \in {"waiting", "woken"} => ~arrived
    BY <2>1, Zenon DEF Waits
  <2>3. d = c
    BY <1>1, <2>2, OneCallerAtATime
  <2> QED
    BY <1>3, <2>2, <2>3
<1>4. CASE Answered
  <2>1. PICK d \in Callers : cpc[d] \in {"woken", "returning"}
    BY <1>4 DEF Answered
  <2>2. d = c
    BY <1>1, <2>1, OneCallerAtATime
  <2> QED
    BY <1>4, <2>1, <2>2, Zenon DEF Answered
<1> QED
  BY <1>2, <1>3, <1>4 DEF Stage

\* A call begins when nothing is under way.
LEMMA CallKeepsStage ==
    ASSUME TypeInv, Stage, NEW c \in Callers, Call(c)
    PROVE  Stage'
<1>1. UNCHANGED <<toServer, toClient, tx, mutexS, srx, crx, reply, rpc>>
  BY DEF Call, client, server
<1>2. /\ mutexC = Nobody /\ mutexC' = c /\ tx[c] = End /\ cpc' = [cpc EXCEPT ![c] = "locking"]
      /\ cpc[c] = "idle" /\ cpc \in [Callers -> Places]
  BY DEF Call, TypeInv, LockInv, LocksAreHeld, LockTypes
<1>3. OutC = End /\ OutC' = End /\ OutS' = OutS
  BY <1>1, <1>2, ThreadsApart DEF OutC, OutS
<1>4. Resting
  <2>1. \A d \in Callers : cpc[d] = "idle"
    BY <1>2, ThreadsApart DEF TypeInv, LockInv, LocksAreHeld
  <2> QED
    BY <2>1 DEF Stage, Requesting, Answering, Checking, Answered, Waits
<1>5. \A d \in Callers : cpc'[d] \in {"idle", "locking"}
  BY <1>2, <1>4 DEF Resting
<1> QED
  BY <1>1, <1>3, <1>4, <1>5, Zenon DEF Stage, Resting, UpEmpty, DownEmpty

LEMMA BeginKeepsStage ==
    ASSUME TypeInv, Stage, NEW c \in Callers, NEW type \in CallTypes, NEW size \in Sizes,
           BeginRequest(c, type, size)
    PROVE  Stage'
<1> DEFINE m == Msg("request", Len(calls) + 1, type, size)
<1>1. UNCHANGED <<toServer, toClient, srx, crx, reply, rpc, mutexS, arrived>>
  BY DEF BeginRequest, client, server, members
<1>2. /\ cpc[c] = "locking" /\ mutexC = c /\ tx[c] = End
      /\ \/ /\ mutexC' = c /\ cpc' = [cpc EXCEPT ![c] = "sending"]
            /\ tx' = [tx EXCEPT ![c] = PhOf(m)] /\ Len(calls') = Len(calls) + 1
         \/ mutexC' = Nobody /\ cpc' = [cpc EXCEPT ![c] = "idle"]
  <2>1. /\ cpc[c] = "locking" /\ mutexC = c /\ tx[c] = End
        /\ \E s \in {"open", "error"} :
              /\ calls' = Append(calls, [by |-> c, type |-> type, status |-> s, resp |-> None])
              /\ s = "open" => /\ mutexC' = c /\ cpc' = [cpc EXCEPT ![c] = "sending"]
                               /\ tx' = [tx EXCEPT ![c] = PhOf(m)]
              /\ s = "error" => mutexC' = Nobody /\ cpc' = [cpc EXCEPT ![c] = "idle"]
    BY BeginRequestIs, ZenonT(60)
  <2>2. PICK s \in {"open", "error"} :
              /\ calls' = Append(calls, [by |-> c, type |-> type, status |-> s, resp |-> None])
              /\ s = "open" => /\ mutexC' = c /\ cpc' = [cpc EXCEPT ![c] = "sending"]
                               /\ tx' = [tx EXCEPT ![c] = PhOf(m)]
              /\ s = "error" => mutexC' = Nobody /\ cpc' = [cpc EXCEPT ![c] = "idle"]
    BY <2>1
  <2>3. Len(calls') = Len(calls) + 1
    BY <2>2 DEF TypeInv, CallsOK
  <2> HIDE DEF m
  <2> QED
    BY <2>1, <2>2, <2>3
<1>3. Resting
  BY <1>2, OneWaiter
<1>4. OutS' = OutS
  BY CallersKeepOutS
<1>5. /\ cpc \in [Callers -> Places]
      /\ tx \in [Threads -> Datagrams \cup {End}] /\ c \in Threads /\ c # Nobody
  BY ThreadsApart DEF TypeInv, LockInv, LockTypes, DataOK
<1>6. DownEmpty' /\ reply' = None /\ rpc' = "receive" /\ srx'.at = "ph" /\ toServer' = <<>>
  BY <1>1, <1>3, <1>4 DEF Resting, DownEmpty, UpEmpty
<1>7. CASE mutexC' = Nobody /\ cpc' = [cpc EXCEPT ![c] = "idle"]
  <2>1. OutC' = End
    BY <1>7 DEF OutC
  <2>2. \A d \in Callers : cpc'[d] \in {"idle", "locking"}
    BY <1>3, <1>5, <1>7 DEF Resting
  <2> QED
    BY <1>6, <2>1, <2>2, Zenon DEF Stage, Resting, UpEmpty
<1>8. CASE /\ mutexC' = c /\ cpc' = [cpc EXCEPT ![c] = "sending"]
           /\ tx' = [tx EXCEPT ![c] = PhOf(m)] /\ Len(calls') = Len(calls) + 1
  <2>1. OutC' = PhOf(m)
    BY <1>5, <1>8 DEF OutC
  <2>2. Pipe' = Line(<<>>, PhOf(m))
    BY <1>6, <2>1, Zenon DEF Pipe
  <2>3. m \in Messages
    <3>1. type \in Nat /\ size \in Nat /\ Len(calls) + 1 \in Nat
      BY RpcAssumption DEF TypeInv, CallsOK
    <3> QED
      BY <3>1, MsgIs
  <2>4. m.id = <<"request", Len(calls')>>
    BY <1>8 DEF Msg
  <2> HIDE DEF m
  <2>5. Single(Pipe, srx, <<"request", Len(calls)>>)'
    BY <1>6, <2>2, <2>3, <2>4, SingleBegins, Zenon
  <2>6. Waits'
    <3>1. cpc'[c] = "sending"
      BY <1>5, <1>8
    <3> QED
      BY <3>1 DEF Waits
  <2> QED
    BY <1>6, <2>5, <2>6, Zenon DEF Stage, Requesting
<1> QED
  BY <1>2, <1>7, <1>8

LEMMA SendKeepsStage ==
    ASSUME TypeInv, Stage, NEW c \in Callers, SendRequest(c)
    PROVE  Stage'
<1> DEFINE o == tx[c]
<1>1. /\ toServer' = Append(toServer, o) /\ tx' = [tx EXCEPT ![c] = Successor(o)]
      /\ UNCHANGED <<toClient, mutexC, mutexS, srx, crx, reply, rpc, calls>>
      /\ cpc' = IF Successor(o) = End THEN [cpc EXCEPT ![c] = "sent"] ELSE cpc
      /\ cpc[c] = "sending"
  BY DEF SendRequest, locks, server, client
<1>2. /\ o # End /\ mutexC = c /\ OutC = o /\ o \in Datagrams /\ toServer \in Seq(Datagrams)
      /\ c \in Threads /\ c # Nobody /\ tx \in [Threads -> Datagrams \cup {End}]
      /\ cpc \in [Callers -> Places]
  BY PipeIs, ThreadsApart DEF SendRequest, TypeInv, LockInv, LocksAreHeld, LockTypes, DataOK
<1>3. OutC' = Successor(o)
  BY <1>1, <1>2 DEF OutC
<1>4. OutS' = OutS
  BY CallersKeepOutS
<1> HIDE DEF o
<1>5. Pipe = Line(toServer, o) /\ Pipe' = Line(Append(toServer, o), Successor(o))
  BY <1>1, <1>2, <1>3 DEF Pipe
<1>6. Requesting
  BY <1>1, <1>2, OneWaiter DEF Answering, Checking, UpEmpty
<1>7. Single(Pipe', srx, <<"request", Len(calls)>>)
  BY <1>2, <1>5, <1>6, SingleSends DEF Requesting
<1>8. Waits'
  <2>1. cpc'[c] \in {"sending", "sent"}
    BY <1>1, <1>2
  <2> QED
    BY <2>1 DEF Waits
<1>9. DownEmpty' /\ reply' = None /\ rpc' = "receive"
  BY <1>1, <1>4, <1>6 DEF Requesting, DownEmpty
<1> QED
  BY <1>1, <1>7, <1>8, <1>9, Zenon DEF Stage, Requesting

\* The caller clears the members and waits, wakes up, or returns.
LEMMA WaitKeepsStage ==
    ASSUME TypeInv, Stage, NEW c \in Callers,
           ClearAndWait(c) \/ SpuriousWakeup(c) \/ Resume(c) \/ Return(c)
    PROVE  Stage'
<1>1. UNCHANGED <<toServer, toClient, tx, mutexS, srx, crx, reply, rpc, received>>
  BY DEF ClearAndWait, SpuriousWakeup, Resume, Return, locks, client, server
<1>2. cpc \in [Callers -> Places]
  BY DEF TypeInv, LockInv, LockTypes
<1>3. OutS' = OutS
  BY <1>1 DEF OutS
<1>4. CASE ClearAndWait(c)
  <2>1. /\ cpc[c] = "sent" /\ cpc' = [cpc EXCEPT ![c] = "waiting"] /\ UNCHANGED <<mutexC, calls>>
        /\ ~arrived'
    BY <1>4, Zenon DEF ClearAndWait
  <2>2. UNCHANGED Work
    BY <1>1, <1>3, <2>1 DEF Work, OutC
  <2>3. Waits'
    <3>1. cpc'[c] = "waiting"
      BY <1>2, <2>1
    <3> QED
      BY <2>1, <3>1, Zenon DEF Waits
  <2>4. Requesting \/ Answering \/ Checking
    BY <2>1, OneWaiter
  <2> QED
    BY <2>2, <2>3, <2>4, StageStays
<1>5. CASE SpuriousWakeup(c)
  <2>1. /\ cpc[c] = "waiting" /\ cpc' = [cpc EXCEPT ![c] = "woken"] /\ UNCHANGED <<mutexC, calls, arrived>>
    BY <1>5 DEF SpuriousWakeup, locks, members
  <2>2. UNCHANGED Work
    BY <1>1, <1>3, <2>1 DEF Work, OutC
  <2>3. (Requesting \/ Answering \/ Checking) /\ ~arrived
    BY <2>1, OneWaiter
  <2>4. Waits'
    <3>1. cpc'[c] = "woken"
      BY <1>2, <2>1
    <3>2. ~arrived'
      BY <2>1, <2>3
    <3> QED
      BY <3>1, <3>2, Zenon DEF Waits
  <2> QED
    BY <2>2, <2>3, <2>4, StageStays
<1>6. CASE Resume(c) /\ ~arrived
  <2>1. /\ cpc[c] = "woken" /\ cpc' = [cpc EXCEPT ![c] = "waiting"] /\ UNCHANGED <<mutexC, calls, members>>
    BY <1>6, ResumeIs
  <2>2. UNCHANGED Work
    BY <1>1, <1>3, <2>1 DEF Work, OutC
  <2>3. Requesting \/ Answering \/ Checking
    BY <1>6, <2>1, OneWaiter
  <2>4. Waits'
    <3>1. cpc'[c] = "waiting"
      BY <1>2, <2>1
    <3>2. ~arrived'
      BY <1>6, <2>1 DEF members
    <3> QED
      BY <3>1, <3>2, Zenon DEF Waits
  <2> QED
    BY <2>2, <2>3, <2>4, StageStays
<1>7. CASE Resume(c) /\ arrived /\ isSuccess
  <2>1. /\ cpc[c] = "woken" /\ cpc' = [cpc EXCEPT ![c] = "returning"]
        /\ UNCHANGED <<mutexC, calls, members>>
    BY <1>7, ResumeIs
  <2>2. Answered
    BY <1>7, <2>1, OneWaiter
  <2>3. OutC' = OutC /\ arrived'
    BY <1>1, <1>7, <2>1 DEF OutC, members
  <2>4. cpc'[c] = "returning"
    BY <1>2, <2>1
  <2> QED
    BY <1>1, <1>3, <2>1, <2>2, <2>3, <2>4, Zenon DEF Stage, Answered, UpEmpty, DownEmpty, Got
<1>8. CASE Return(c) \/ (Resume(c) /\ arrived /\ ~isSuccess)
  <2>1. /\ cpc[c] \in {"woken", "returning"} /\ cpc' = [cpc EXCEPT ![c] = "idle"]
        /\ mutexC' = Nobody /\ (cpc[c] = "woken" => arrived)
    BY <1>8, ResumeIs, ReturnIs
  <2>2. Answered
    BY <1>8, <2>1, OneWaiter
  <2>3. OutC' = End
    BY <2>1 DEF OutC
  <2>4. \A d \in Callers : cpc'[d] \in {"idle", "locking"}
    <3> SUFFICES ASSUME NEW d \in Callers, d # c PROVE cpc'[d] = "idle"
      BY <1>2, <2>1
    <3>1. cpc[d] = "idle"
      BY <2>1, OneCallerAtATime DEF TypeInv
    <3> QED
      BY <2>1, <3>1
  <2> QED
    BY <1>1, <1>3, <2>2, <2>3, <2>4, Zenon DEF Stage, Answered, Resting, UpEmpty, DownEmpty
<1> QED
  BY <1>4, <1>5, <1>6, <1>7, <1>8

\* Behind the first datagram of a line comes what follows it.
LEMMA SecondFollows ==
    ASSUME NEW q \in Seq(Datagrams), q # <<>>, NEW o \in Datagrams \cup {End}, Chain(Line(q, o))
    PROVE  /\ Line(Tail(q), o)[1] \in Datagrams \cup {End}
           /\ Follows(Head(q), Line(Tail(q), o)[1])
<1>1. /\ Len(q) \in Nat \ {0} /\ Tail(q) \in Seq(Datagrams) /\ Len(Tail(q)) = Len(q) - 1
      /\ Line(q, o)[1] = Head(q) /\ Line(Tail(q), o)[1] = Line(q, o)[2]
      /\ Line(q, o)[2] \in Datagrams \cup {End} /\ Len(Line(q, o)) = Len(q) + 1
  <2>1. /\ Len(q) \in Nat \ {0} /\ Tail(q) \in Seq(Datagrams) /\ Len(Tail(q)) = Len(q) - 1
        /\ Head(q) = q[1]
    OBVIOUS
  <2>2. /\ Line(q, o) \in Seq(Datagrams \cup {End}) /\ Len(Line(q, o)) = Len(q) + 1
        /\ Line(q, o)[1] = q[1]
    BY <2>1 DEF Line
  <2>3. Line(Tail(q), o) = Tail(Line(q, o))
    BY <2>1 DEF Line
  <2>4. Tail(Line(q, o))[1] = Line(q, o)[2] /\ Line(q, o)[2] \in Datagrams \cup {End}
    BY <2>1, <2>2
  <2> QED
    BY <2>1, <2>2, <2>3, <2>4
<1>2. 1 \in 1 .. Len(Line(q, o)) - 1
  BY <1>1
<1>3. Follows(Line(q, o)[1], Line(q, o)[1 + 1])
  BY <1>2 DEF Chain
<1> QED
  BY <1>1, <1>3

\* The client's thread reads the response, to the end or to where it was cut off.
LEMMA ClientTakeKeepsStage ==
    ASSUME TypeInv, Stage, isSuccess, ClientLimit = 0, ClientTake
    PROVE  /\ Stage' /\ isSuccess' /\ Answering
           /\ \/ received' = received /\ rpc' = "receive"
              \/ /\ rpc' = "check"
                 /\ \E m : m.id = <<"response", Len(calls)>> /\ received' = Append(received, m)
<1> DEFINE d == Head(toClient)
           r == RxNext(crx, d, ClientLimit)
           id == <<"response", Len(calls)>>
<1>1. /\ toClient # <<>> /\ toClient' = Tail(toClient) /\ rpc = "receive"
      /\ UNCHANGED <<toServer, tx, mutexC, mutexS, srx, reply, calls, cpc, arrived>>
      /\ Complete(r) => /\ crx' = RxIdle /\ rpc' = "check" /\ isSuccess' = TRUE
                        /\ received' = Append(received, r.ph)
      /\ ~Complete(r) => /\ crx' = r /\ received' = received
                         /\ rpc' = IF RxFails(crx, d, ClientLimit) THEN "check" ELSE rpc
                         /\ isSuccess' = IF RxFails(crx, d, ClientLimit) THEN FALSE ELSE isSuccess
  BY DEF ClientTake, locks, server
<1>2. OutC' = OutC /\ OutS' = OutS
  BY <1>1 DEF OutC, OutS
<1>3. Answering
  BY <1>1 DEF Stage, Resting, Requesting, Checking, Answered, DownEmpty
<1>4. /\ toClient \in Seq(Datagrams) /\ OutS \in Datagrams \cup {End} /\ RxOK(crx)
      /\ d \in Datagrams /\ received \in Seq(Messages)
  BY <1>1, OutSIs DEF TypeInv, DataOK
<1>5. Down = Line(toClient, OutS) /\ Down' = Line(Tail(toClient), OutS) /\ Down[1] = d
  <2>1. Line(toClient, OutS)[1] = d
    BY <1>1, <1>4, LineIs
  <2> QED
    BY <1>1, <1>2, <2>1 DEF Down
<1>6. d # End /\ HeadLink(crx, d)
  BY <1>3, <1>4, <1>5, DatagramIs DEF Answering
<1>7. Successor(d) \in Datagrams \cup {End} /\ ~IsPh(Successor(d)) /\ Follows(d, Successor(d))
  BY <1>4, SuccessorIs DEF IsPh, End, Follows
<1> HIDE DEF r, d, id
<1>8. /\ crx.at = "ph" => r.at = "hdr" /\ r.ph = d.msg
      /\ crx.at # "ph" => r.at = "body" /\ r.ph = crx.ph
      /\ Complete(r) => crx.at # "ph" /\ HeadLink(RxIdle, Successor(d))
      /\ r.at # "ph" /\ ~Complete(r) => HeadLink(r, Successor(d))
  <2>1. crx.at = "ph" => IsPh(d) /\ WithinLimit(d.msg.size, ClientLimit)
    BY <1>6 DEF HeadLink, WithinLimit
  <2>2. /\ crx.at = "ph" => IF IsPh(d) /\ WithinLimit(d.msg.size, ClientLimit)
                            THEN r.at = "hdr" /\ r.ph = d.msg
                            ELSE r = RxIdle
        /\ crx.at # "ph" => r.at = "body" /\ r.ph = crx.ph
        /\ Complete(r) => crx.at # "ph" /\ HeadLink(RxIdle, Successor(d))
        /\ r.at # "ph" /\ ~Complete(r) => HeadLink(r, Successor(d))
    BY <1>4, <1>6, <1>7, ReadsOn, ZenonT(60) DEF r
  <2> QED
    BY <2>1, <2>2, Zenon
<1>9. RxIdle.at = "ph" /\ r.at # "ph"
  BY <1>8 DEF RxIdle
<1>10. ~RxFails(crx, d, ClientLimit)
  BY <1>9, Zenon DEF RxFails, r
<1>11. Single(Down, crx, id) /\ Pieces(Down)
  BY <1>3, Zenon DEF Answering, id
<1>12. \/ crx'.at = "ph"
       \/ crx.at = "ph" /\ crx'.ph = d.msg
       \/ crx.at # "ph" /\ crx'.ph = crx.ph
  BY <1>1, <1>8, <1>9, Zenon
<1>13. /\ Single(Down', crx', id) /\ Pieces(Down')
       /\ Down'[1] = End => toClient' = <<>> /\ OutS' = End
       /\ Down'[1] = End \/ Down'[1] = Successor(d)
  BY <1>1, <1>2, <1>4, <1>5, <1>11, <1>12, SingleTakes, Zenon DEF d
<1>14. UpEmpty'
  BY <1>1, <1>2, <1>3 DEF Answering, UpEmpty
<1>15. Waits'
  BY <1>1, <1>3, Zenon DEF Answering, Waits
<1>16. ~(reply # None /\ OutS = End)
  BY <1>1, <1>3 DEF Answering, DownEmpty
<1>17. CASE Complete(r)
  <2>1. crx' = RxIdle /\ rpc' = "check" /\ isSuccess' = TRUE /\ received' = Append(received, r.ph)
    BY <1>1, <1>17
  <2>2. Successor(d) = End
    BY <1>7, <1>8, <1>9, <1>17, Zenon DEF HeadLink
  <2>3. toClient' = <<>> /\ OutS' = End
    BY <1>13, <2>2
  <2>4. DownEmpty'
    BY <1>9, <2>1, <2>3, Zenon DEF DownEmpty
  <2>5. reply' = None
    BY <1>1, <1>2, <1>16, <2>3
  <2>6. r.ph.id = id
    BY <1>8, <1>11, <1>17, Zenon DEF Single
  <2>7. Len(received) + 1 \in DOMAIN received' /\ received'[Len(received) + 1] = r.ph
    BY <1>4, <2>1
  <2>8. Got(Len(calls))'
    BY <1>1, <2>6, <2>7, Zenon DEF Got, id
  <2>9. Stage'
    BY <1>14, <1>15, <2>1, <2>4, <2>5, <2>8, Zenon DEF Stage, Checking
  <2> QED
    BY <1>3, <2>1, <2>6, <2>9, Zenon DEF id
<1>18. CASE ~Complete(r)
  <2>1. crx' = r /\ rpc' = "receive" /\ isSuccess'
    BY <1>1, <1>10, <1>18, Zenon
  <2>2. Down'[1] # End => HeadLink(crx', Down'[1])
    BY <1>8, <1>9, <1>13, <1>18, <2>1, Zenon
  <2>3. Single(Down, crx, <<"response", Len(calls)>>)'
    BY <1>1, <1>13, Zenon DEF id
  <2>4. /\ reply' # None => reply'.id = <<"response", Len(calls')>> /\ OutS' # End
        /\ reply' = None => OutS' = End
    BY <1>1, <1>2, <1>3, <1>16, Zenon DEF Answering
  <2>5. Stage'
    BY <1>13, <1>14, <1>15, <2>1, <2>2, <2>3, <2>4, Zenon DEF Stage, Answering
  <2> QED
    BY <1>1, <1>3, <1>18, <2>1, <2>5, Zenon
<1> QED
  BY <1>17, <1>18

\* It looks at the result, and tells the caller.
LEMMA ArriveKeepsStage ==
    ASSUME TypeInv, Stage, isSuccess, CheckResult \/ Arrive \/ Store
    PROVE  Stage' /\ isSuccess'
<1>1. UNCHANGED <<toServer, toClient, tx, mutexC, mutexS, srx, crx, reply, calls, received, isSuccess>>
  BY DEF CheckResult, Arrive, Store, locks, server, members
<1>2. rpc \in {"check", "arrive", "store"}
  BY DEF CheckResult, Arrive, Store
<1>3. Checking
  BY <1>2 DEF Stage, Resting, Requesting, Answering, Answered
<1>4. UpEmpty' /\ DownEmpty' /\ reply' = None /\ Got(Len(calls))'
  <2>1. OutC' = OutC /\ OutS' = OutS
    BY <1>1 DEF OutC, OutS
  <2> QED
    BY <1>1, <1>3, <2>1, Zenon DEF Checking, UpEmpty, DownEmpty, Got
<1>5. CASE CheckResult
  <2>1. rpc' = "arrive" /\ UNCHANGED <<cpc, arrived>>
    BY <1>5, Zenon DEF CheckResult, members
  <2>2. Waits'
    BY <1>3, <2>1, Zenon DEF Checking, Waits
  <2> QED
    BY <1>1, <1>4, <2>1, <2>2, Zenon DEF Stage, Checking
<1>6. CASE Arrive
  <2>1. /\ respMutex = Nobody /\ arrived' = TRUE /\ rpc' = "receive"
        /\ cpc' = [c \in Callers |-> IF cpc[c] = "waiting" THEN "woken" ELSE cpc[c]]
    BY <1>6 DEF Arrive, Signal
  <2>2. PICK c \in Callers : cpc[c] \in {"sending", "sent", "waiting", "woken"}
    BY <1>3, Zenon DEF Checking, Waits
  <2>3. cpc[c] \in {"waiting", "woken"}
    BY <2>1, <2>2, ThreadsApart DEF TypeInv, LockInv, LocksAreHeld
  <2>4. cpc'[c] = "woken"
    BY <2>1, <2>3
  <2> QED
    BY <1>1, <1>4, <2>1, <2>4, Zenon DEF Stage, Answered
<1>7. ~Store
  BY <1>3 DEF Store, Checking
<1> QED
  BY <1>5, <1>6, <1>7

\* The server's thread reads the request, and gets its answer ready.
LEMMA ServerTakeKeepsStage ==
    ASSUME TypeInv, RequestInv, Stage, NEW size \in Sizes, ServerTake(size)
    PROVE  /\ Stage' /\ Requesting
           /\ \/ UNCHANGED <<handled, reply>>
              \/ /\ handled' = Append(handled, Len(calls))
                 /\ \A i \in DOMAIN handled : handled[i] < Len(calls)
<1> DEFINE d == Head(toServer)
           r == RxNext(srx, d, ServerLimit)
           id == <<"request", Len(calls)>>
<1>1. /\ toServer # <<>> /\ toServer' = Tail(toServer) /\ reply = None
      /\ UNCHANGED <<toClient, tx, mutexC, mutexS, crx, rpc, received, calls, cpc, arrived>>
      /\ Complete(r) => /\ srx' = RxIdle
                        /\ handled' = Append(handled, r.ph.id[2])
                        /\ reply' = Msg("response", r.ph.id[2], r.ph.type,
                                        IF r.ph.type = 2 THEN 1 ELSE size)
      /\ ~Complete(r) => srx' = r /\ reply' = reply /\ handled' = handled
  BY DEF ServerTake, locks, members, client
<1>2. OutC' = OutC /\ OutS' = OutS
  BY <1>1 DEF OutC, OutS
<1>3. Requesting
  BY <1>1 DEF Stage, Resting, Answering, Checking, Answered, UpEmpty
<1>4. /\ toServer \in Seq(Datagrams) /\ OutC \in Datagrams \cup {End} /\ RxOK(srx) /\ d \in Datagrams
      /\ Len(calls) \in Nat
  BY <1>1, PipeIs DEF TypeInv, DataOK, CallsOK
<1>5. Pipe = Line(toServer, OutC) /\ Pipe' = Line(Tail(toServer), OutC) /\ Pipe[1] = d
  <2>1. Line(toServer, OutC)[1] = d
    <3>1. toServer # <<>> /\ toServer \in Seq(Datagrams) /\ OutC \in Datagrams \cup {End}
      BY <1>1, <1>4
    <3> QED
      BY <3>1, LineIs
  <2> QED
    BY <1>1, <1>2, <2>1 DEF Pipe
<1>6. /\ Pipe'[1] \in Datagrams \cup {End} /\ Follows(d, Pipe'[1])
      /\ srx.at # "ph" => HeadLink(srx, d)
  <2>1. Chain(Line(toServer, OutC)) /\ (srx.at # "ph" => HeadLink(srx, d))
    BY <1>5 DEF RequestInv, PipeLinked
  <2> QED
    BY <1>1, <1>4, <1>5, <2>1, SecondFollows
<1> HIDE DEF r, d, id
<1>7. /\ srx.at = "ph" => IF IsPh(d) /\ WithinLimit(d.msg.size, ServerLimit)
                          THEN r.at = "hdr" /\ r.ph = d.msg
                          ELSE r = RxIdle
      /\ srx.at # "ph" => r.at = "body" /\ r.ph = srx.ph
      /\ Complete(r) => srx.at # "ph" /\ HeadLink(RxIdle, Pipe'[1])
  BY <1>4, <1>6, ReadsOn, Zenon DEF r
<1>8. RxIdle.at = "ph"
  BY DEF RxIdle
<1>9. Single(Pipe, srx, id)
  BY <1>3, Zenon DEF Requesting, id
<1>10. \/ srx'.at = "ph"
       \/ srx.at = "ph" /\ srx'.ph = d.msg
       \/ srx.at # "ph" /\ srx'.ph = srx.ph
  BY <1>1, <1>7, <1>8, Zenon
<1>11. /\ Single(Pipe', srx', id) /\ ~IsPh(Pipe'[1])
       /\ Pipe'[1] = End => toServer' = <<>> /\ OutC' = End
  BY <1>1, <1>2, <1>4, <1>5, <1>9, <1>10, SingleTakes, Zenon DEF d
<1>12. DownEmpty' /\ rpc' = "receive"
  BY <1>1, <1>2, <1>3, Zenon DEF Requesting, DownEmpty
<1>13. Waits'
  BY <1>1, <1>3, Zenon DEF Requesting, Waits
<1>14. CASE Complete(r)
  <2>1. toServer' = <<>> /\ OutC' = End
    BY <1>7, <1>8, <1>11, <1>14, Zenon DEF HeadLink
  <2>2. UpEmpty'
    BY <1>1, <1>8, <1>14, <2>1, Zenon DEF UpEmpty
  <2>3. r.ph.id = id
    BY <1>7, <1>9, <1>14, Zenon DEF Single
  <2>4. reply'.id = <<"response", Len(calls)>>
    <3>1. r.ph.id[2] = Len(calls)
      BY <2>3 DEF id
    <3> QED
      BY <1>1, <1>14, <3>1 DEF Msg
  <2>5. Down' = <<End>> /\ OutS' = End
    BY <1>12, EmptyLine DEF Down, DownEmpty
  <2>6. crx'.at = "ph"
    BY <1>12 DEF DownEmpty
  <2>7. Single(Down', crx', <<"response", Len(calls')>>) /\ Pieces(Down') /\ Down'[1] = End
    BY <2>5, <2>6, EmptyLine, Zenon
  <2>8. reply' # None => reply'.id = <<"response", Len(calls')>> /\ (OutS' = End => DownEmpty')
    BY <1>1, <1>12, <2>4
  <2>9. Stage'
    BY <1>12, <1>13, <2>2, <2>5, <2>7, <2>8, Zenon DEF Stage, Answering
  <2>10. r.ph.id[2] = Len(calls) /\ srx.at # "ph" /\ srx.ph = r.ph
    <3>1. r.ph.id[2] = Len(calls)
      BY <2>3 DEF id
    <3>2. srx.at # "ph" /\ srx.ph = r.ph
      BY <1>7, <1>14, Zenon
    <3> QED
      BY <3>1, <3>2
  <2>11. \A i \in DOMAIN handled : handled[i] < Len(calls)
    BY <2>10 DEF RequestInv, Ordered, RxNum
  <2> QED
    BY <1>1, <1>3, <1>14, <2>9, <2>10, <2>11, Zenon
<1>15. CASE ~Complete(r)
  <2>1. reply' = None
    BY <1>1, <1>15
  <2>2. Single(Pipe, srx, <<"request", Len(calls)>>)'
    BY <1>1, <1>11, Zenon DEF id
  <2>3. Stage'
    BY <1>12, <1>13, <2>1, <2>2, Zenon DEF Stage, Requesting
  <2> QED
    BY <1>1, <1>3, <1>15, <2>3, Zenon
<1> QED
  BY <1>14, <1>15

\* It takes m_mutex for the answer, or reports it as too long.
LEMMA BeginReplyKeepsStage ==
    ASSUME TypeInv, Stage, BeginReply
    PROVE  Stage'
<1>1. /\ reply # None /\ tx[Run] = End /\ mutexS = Nobody
      /\ UNCHANGED <<toServer, toClient, mutexC, srx, crx, rpc, received, calls, cpc, arrived>>
      /\ \/ mutexS' = Run /\ tx' = [tx EXCEPT ![Run] = PhOf(reply)] /\ reply' = reply
         \/ reply' = None /\ UNCHANGED <<mutexS, tx>>
  BY Zenon DEF BeginReply, members, client
<1>2. Answering
  BY <1>1 DEF Stage, Resting, Requesting, Checking, Answered
<1>3. OutS = End /\ DownEmpty
  BY <1>1, <1>2 DEF OutS, Answering
<1>4. /\ reply \in Messages /\ reply.id = <<"response", Len(calls)>> /\ Run \in Threads
      /\ Run \notin Callers /\ Run # Nobody /\ tx \in [Threads -> Datagrams \cup {End}]
      /\ mutexC \in Callers \cup {Nobody}
  BY <1>1, <1>2, ThreadsApart DEF Answering, TypeInv, LockInv, LockTypes, DataOK, Buffers, Threads
<1>5. OutC' = OutC
  <2>1. \E e : tx' = tx \/ tx' = [tx EXCEPT ![Run] = e]
    BY <1>1, Zenon
  <2>2. UNCHANGED mutexC
    BY <1>1
  <2>3. \A c \in Callers : tx'[c] = tx[c]
    BY <1>4, <2>1, ThreadsApart
  <2> QED
    BY <1>4, <2>2, <2>3 DEF OutC
<1>6. UpEmpty' /\ rpc' = "receive" /\ crx'.at = "ph" /\ toClient' = <<>>
  BY <1>1, <1>2, <1>3, <1>5 DEF Answering, UpEmpty, DownEmpty
<1>7. Waits'
  BY <1>1, <1>2, Zenon DEF Answering, Waits
<1>8. CASE mutexS' = Run /\ tx' = [tx EXCEPT ![Run] = PhOf(reply)] /\ reply' = reply
  <2>1. OutS' = PhOf(reply) /\ PhOf(reply) # End
    BY <1>4, <1>8, PhIsNotEnd DEF OutS
  <2>2. Down' = Line(<<>>, PhOf(reply))
    BY <1>6, <2>1, Zenon DEF Down
  <2>3. Single(Down', crx', reply.id) /\ Pieces(Down') /\ HeadLink(crx', Down'[1])
    BY <1>4, <1>6, <2>2, SingleBegins, Zenon
  <2>4. Single(Down, crx, <<"response", Len(calls)>>)'
    BY <1>1, <1>4, <2>3, Zenon
  <2>5. /\ reply' # None => reply'.id = <<"response", Len(calls')>> /\ (OutS' = End => DownEmpty')
        /\ reply' = None => OutS' = End
    BY <1>1, <1>4, <1>8, <2>1
  <2> QED
    BY <1>6, <1>7, <2>3, <2>4, <2>5, Zenon DEF Stage, Answering
<1>9. CASE reply' = None /\ UNCHANGED <<mutexS, tx>>
  <2>1. OutS' = End /\ Down' = <<End>>
    BY <1>3, <1>6, <1>9, EmptyLine DEF OutS, Down
  <2>2. Single(Down', crx', <<"response", Len(calls')>>) /\ Pieces(Down') /\ Down'[1] = End
    BY <1>6, <2>1, EmptyLine, Zenon
  <2> QED
    BY <1>6, <1>7, <1>9, <2>1, <2>2, Zenon DEF Stage, Answering
<1> QED
  BY <1>1, <1>8, <1>9

\* One sendto of the answer.
LEMMA ServerSendKeepsStage ==
    ASSUME TypeInv, Stage, ServerSend(Run)
    PROVE  Stage'
<1> DEFINE o == tx[Run]
<1>1. /\ o # End /\ toClient' = Append(toClient, o) /\ tx' = [tx EXCEPT ![Run] = Successor(o)]
      /\ mutexS' = IF Successor(o) = End THEN Nobody ELSE mutexS
      /\ reply' = IF Successor(o) = End THEN None ELSE reply
      /\ UNCHANGED <<toServer, mutexC, srx, crx, rpc, received, calls, cpc, arrived>>
  BY DEF ServerSend, members, client
<1>2. /\ Run \in ServerThreads /\ Run \in Threads /\ Run \notin Callers /\ Run # Nobody
      /\ tx \in [Threads -> Datagrams \cup {End}] /\ mutexC \in Callers \cup {Nobody}
  BY ThreadsApart DEF TypeInv, LockInv, LockTypes, DataOK, Threads, ServerThreads
<1>3. mutexS = Run /\ OutS = o /\ o \in Datagrams /\ toClient \in Seq(Datagrams)
  BY <1>1, <1>2, OutSIs
<1>4. OutS' = Successor(o)
  BY <1>1, <1>2, <1>3 DEF OutS
<1>5. OutC' = OutC
  BY <1>1, <1>2 DEF OutC
<1> HIDE DEF o
<1>6. Answering
  BY <1>1, <1>3 DEF Stage, Resting, Requesting, Checking, Answered, DownEmpty
<1>7. reply # None /\ reply.id = <<"response", Len(calls)>>
  BY <1>1, <1>3, <1>6 DEF Answering
<1>8. Down = Line(toClient, o) /\ Down' = Line(Append(toClient, o), Successor(o))
  BY <1>1, <1>3, <1>4 DEF Down
<1>9. Single(Down, crx, <<"response", Len(calls)>>) /\ Pieces(Down)
  BY <1>6, Zenon DEF Answering
<1>10. /\ Single(Down', crx, <<"response", Len(calls)>>) /\ Pieces(Down') /\ Down'[1] = Down[1]
  BY <1>3, <1>8, <1>9, SingleSends, Zenon
<1>11. Single(Down, crx, <<"response", Len(calls)>>)'
  BY <1>1, <1>10, Zenon
<1>12. Down'[1] # End => HeadLink(crx', Down'[1])
  BY <1>1, <1>6, <1>10, Zenon DEF Answering
<1>13. /\ reply' # None => reply'.id = <<"response", Len(calls')>> /\ (OutS' = End => DownEmpty')
       /\ reply' = None => OutS' = End
  BY <1>1, <1>4, <1>7
<1>14. UpEmpty' /\ rpc' = "receive"
  BY <1>1, <1>5, <1>6, Zenon DEF Answering, UpEmpty
<1>15. Waits'
  BY <1>1, <1>6, Zenon DEF Answering, Waits
<1> QED
  BY <1>10, <1>11, <1>12, <1>13, <1>14, <1>15, Zenon DEF Stage, Answering

\* Stop loses what the server's thread was at.
LEMMA EndRunKeepsStage ==
    ASSUME Notifiers = {}, TypeInv, Stage, EndRun
    PROVE  Stage'
<1>1. /\ srx' = RxIdle /\ reply' = None /\ tx' = [tx EXCEPT ![Run] = End]
      /\ mutexS' = IF mutexS = Run THEN Nobody ELSE mutexS
      /\ UNCHANGED <<toServer, toClient, mutexC, crx, rpc, received, calls, cpc, arrived>>
  BY DEF EndRun, members, client
<1>2. /\ Run \notin Callers /\ Run # Nobody /\ tx \in [Threads -> Datagrams \cup {End}]
      /\ mutexC \in Callers \cup {Nobody} /\ mutexS \in {Run, Nobody}
      /\ toClient \in Seq(Datagrams) /\ OutS \in Datagrams \cup {End}
  BY ThreadsApart, OutSIs DEF TypeInv, LockInv, LockTypes, ControlOK, DataOK, ServerThreads
<1>3. OutC' = OutC /\ OutS' = End
  BY <1>1, <1>2 DEF OutC, OutS
<1>4. RxIdle.at = "ph" /\ srx'.at = "ph"
  BY <1>1 DEF RxIdle
<1>5. (UpEmpty => UpEmpty') /\ (DownEmpty => DownEmpty') /\ (Waits => Waits')
  BY <1>1, <1>3, <1>4, Zenon DEF UpEmpty, DownEmpty, Waits
<1>6. CASE Resting
  BY <1>1, <1>5, <1>6, Zenon DEF Stage, Resting
<1>7. CASE Requesting
  <2>1. Pipe' = Pipe
    BY <1>1, <1>3 DEF Pipe, Line
  <2>2. Single(Pipe, srx, <<"request", Len(calls)>>)'
    BY <1>1, <1>4, <1>7, <2>1, Zenon DEF Requesting, Single
  <2> QED
    BY <1>1, <1>5, <1>7, <2>2, Zenon DEF Stage, Requesting
<1>8. CASE Answering
  <2>1. /\ Len(Down') = Len(Down) /\ Len(Down) \in Nat \ {0}
        /\ \A i \in 1 .. Len(Down) : Down'[i] = End \/ Down'[i] = Down[i]
        /\ \A i \in 1 .. Len(Down) - 1 : Down'[i] = Down[i]
    <3>1. Down = Line(toClient, OutS) /\ Down' = Line(toClient, End)
      BY <1>1, <1>3 DEF Down
    <3>2. /\ Len(toClient) \in Nat /\ Len(Down) = Len(toClient) + 1 /\ Len(Down') = Len(toClient) + 1
          /\ Down'[Len(toClient) + 1] = End
          /\ \A i \in 1 .. Len(toClient) : Down'[i] = Down[i]
      BY <1>2, <3>1, LineIs
    <3> QED
      BY <3>2
  <2>2. Single(Down', crx', <<"response", Len(calls')>>)
    <3>1. ~IsPh(End)
      BY DEF IsPh, End
    <3> QED
      BY <1>1, <1>8, <2>1, <3>1, Zenon DEF Answering, Single
  <2>3. Pieces(Down')
    <3> SUFFICES ASSUME NEW i \in 1 .. Len(Down') - 1
                 PROVE  Down'[i + 1] = End \/ Down'[i + 1] = Successor(Down'[i])
      BY DEF Pieces
    <3>1. i \in 1 .. Len(Down) - 1 /\ i + 1 \in 1 .. Len(Down) /\ Down'[i] = Down[i]
      BY <2>1
    <3> QED
      BY <1>8, <2>1, <3>1, Zenon DEF Answering, Pieces
  <2>4. Down'[1] # End => HeadLink(crx', Down'[1])
    <3>1. 1 \in 1 .. Len(Down)
      BY <2>1
    <3> QED
      BY <1>1, <1>8, <2>1, <3>1, Zenon DEF Answering
  <2> QED
    BY <1>1, <1>3, <1>5, <1>8, <2>2, <2>3, <2>4, Zenon DEF Stage, Answering
<1>9. CASE Checking
  BY <1>1, <1>5, <1>9, Zenon DEF Stage, Checking, Got
<1>10. CASE Answered
  BY <1>1, <1>5, <1>10, Zenon DEF Stage, Answered, Got
<1> QED
  BY <1>6, <1>7, <1>8, <1>9, <1>10 DEF Stage

\* Where a call is, and that the result is never an error.
LEMMA StageStep ==
    ASSUME Notifiers = {}, ClientLimit = 0, TypeInv, RequestInv, Stage, isSuccess, [Next]_vars
    PROVE  Stage' /\ isSuccess'
<1>1. ASSUME NEW c \in Callers,
             \/ Call(c) \/ SendRequest(c) \/ ClearAndWait(c) \/ SpuriousWakeup(c) \/ Resume(c)
             \/ Return(c)
             \/ \E type \in CallTypes, size \in Sizes : BeginRequest(c, type, size)
      PROVE  Stage' /\ isSuccess'
  <2>1. Stage'
    BY <1>1, CallKeepsStage, SendKeepsStage, WaitKeepsStage, BeginKeepsStage, Zenon
  <2>2. isSuccess'
    BY <1>1, Zenon
       DEF Call, SendRequest, ClearAndWait, SpuriousWakeup, Resume, Return, BeginRequest, members
  <2> QED
    BY <2>1, <2>2
<1>2. CASE Start \/ Stop
  <2>1. UNCHANGED <<toServer, toClient, tx, locks, srx, crx, reply, rpc, received, calls, cpc, members>>
    BY <1>2 DEF Start, Stop, client
  <2>2. UNCHANGED <<toServer, toClient, OutC, OutS, srx, crx, reply, rpc, received, calls, cpc,
                    arrived, isSuccess>>
    BY <2>1 DEF OutC, OutS, locks, members
  <2>3. /\ (Requesting \/ Answering \/ Checking => Waits)
        /\ (Waits => Waits') /\ (UpEmpty => UpEmpty') /\ (DownEmpty => DownEmpty')
    BY <2>2, Zenon DEF Requesting, Answering, Checking, Waits, UpEmpty, DownEmpty
  <2>4. CASE Resting
    BY <2>2, <2>3, <2>4, Zenon DEF Stage, Resting
  <2>5. CASE Answered
    BY <2>2, <2>3, <2>5, Zenon DEF Stage, Answered, Got
  <2>6. CASE Requesting \/ Answering \/ Checking
    <3>1. UNCHANGED Work
      BY <2>2 DEF Work
    <3> QED
      BY <2>2, <2>3, <2>6, <3>1, StageStays, Zenon
  <2> QED
    BY <2>2, <2>4, <2>5, <2>6 DEF Stage
<1>3. CASE UNCHANGED vars
  <2>1. UNCHANGED <<toServer, toClient, OutC, OutS, srx, crx, reply, rpc, received, calls, cpc,
                    arrived, isSuccess>>
    BY <1>3 DEF vars, locks, members, client, server, OutC, OutS
  <2>2. Pipe' = Pipe /\ Down' = Down
    BY <2>1 DEF Pipe, Down, Line
  <2> QED
    BY <2>1, <2>2, Zenon DEF Stage, Resting, Requesting, Answering, Checking, Answered,
                             Waits, UpEmpty, DownEmpty, Got
<1>4. CASE EndRun \/ BeginReply \/ \E size \in Sizes : ServerTake(size)
  <2>1. Stage'
    BY <1>4, EndRunKeepsStage, BeginReplyKeepsStage, ServerTakeKeepsStage
  <2>2. isSuccess'
    BY <1>4, Zenon DEF EndRun, BeginReply, ServerTake, members
  <2> QED
    BY <2>1, <2>2
<1>5. CASE \E t \in Notifiers \cup {Run} : ServerSend(t)
  <2>1. ServerSend(Run)
    BY <1>5
  <2>2. isSuccess'
    BY <2>1, Zenon DEF ServerSend, members
  <2> QED
    BY <2>1, <2>2, ServerSendKeepsStage
<1>6. ~ \E n \in Notifiers, type \in NoteTypes, size \in Sizes : BeginNote(n, type, size)
  OBVIOUS
<1>7. CASE ClientTake \/ CheckResult \/ Arrive \/ Store
  BY <1>7, ClientTakeKeepsStage, ArriveKeepsStage
<1> QED
  BY <1>1, <1>2, <1>3, <1>4, <1>5, <1>6, <1>7, Zenon DEF Next, Finished

\* What has come in stays there.
LEMMA GotStays ==
    ASSUME TypeInv, [Next]_vars, NEW n, Got(n)
    PROVE  Got(n)'
<1>1. received \in Seq(Messages)
  BY DEF TypeInv, DataOK
<1>2. PICK i \in DOMAIN received : received[i].id = <<"response", n>>
  BY DEF Got
<1>3. received' = received \/ \E m : received' = Append(received, m)
  BY Zenon DEF Next, vars, client, Call, BeginRequest, SendRequest, ClearAndWait, Resume,
               Return, SpuriousWakeup, ClientTake, CheckResult, Arrive, Store, Start, Stop, EndRun,
               ServerTake, BeginReply, BeginNote, ServerSend, Finished
<1>4. i \in DOMAIN received' /\ received'[i] = received[i]
  BY <1>1, <1>3
<1> QED
  BY <1>2, <1>4 DEF Got

LEMMA AnsweredStep ==
    ASSUME TypeInv, Stage, OkMeansAnswered, [Next]_vars
    PROVE  OkMeansAnswered'
<1>1. \A n \in DOMAIN calls : calls[n].status = "ok" => Got(n)
  BY Zenon DEF OkMeansAnswered, Got
<1> SUFFICES ASSUME NEW n \in DOMAIN calls', calls'[n].status = "ok" PROVE Got(n)'
  BY Zenon DEF OkMeansAnswered, Got
<1>2. calls \in Seq(CallRecords) /\ Len(calls) \in Nat
  BY DEF TypeInv, CallsOK
<1>3. SUFFICES Got(n)
  BY <1>3, GotStays
<1>4. CASE calls' = calls
  BY <1>1, <1>4
<1>5. ASSUME NEW c \in Callers, NEW type \in CallTypes, NEW size \in Sizes, BeginRequest(c, type, size)
      PROVE  Got(n)
  <2>1. PICK s \in {"open", "error"} :
           calls' = Append(calls, [by |-> c, type |-> type, status |-> s, resp |-> None])
    BY <1>5, BeginRequestIs, Zenon
  <2>2. n \in DOMAIN calls /\ calls'[n] = calls[n]
    <3>1. calls'[Len(calls) + 1].status # "ok"
      BY <1>2, <2>1
    <3> QED
      BY <1>2, <2>1, <3>1
  <2> QED
    BY <1>1, <2>2
<1>6. ASSUME NEW c \in Callers, Resume(c) \/ Return(c), calls' # calls PROVE Got(n)
  <2>1. /\ cpc[c] \in {"woken", "returning"} /\ (cpc[c] = "woken" => arrived)
        /\ calls' \in Seq(CallRecords) /\ Len(calls') = Len(calls)
        /\ \A k \in DOMAIN calls : k # Len(calls) => calls'[k] = calls[k]
    BY <1>6, ResumeIs, ReturnIs
  <2>2. Got(Len(calls))
    BY <1>6, <2>1, OneWaiter DEF Answered
  <2>3. n \in DOMAIN calls
    BY <1>2, <2>1
  <2> QED
    BY <1>1, <2>1, <2>2, <2>3, Zenon
<1>7. \/ calls' = calls
      \/ \E c \in Callers : Resume(c) \/ Return(c)
      \/ \E c \in Callers, type \in CallTypes, size \in Sizes : BeginRequest(c, type, size)
  BY Zenon DEF Next, vars, Call, SendRequest, ClearAndWait, SpuriousWakeup, ClientTake,
               CheckResult, Arrive, Store, Start, Stop, EndRun, ServerTake, BeginReply,
               BeginNote, ServerSend, Finished
<1> QED
  BY <1>4, <1>5, <1>6, <1>7

LEMMA QuietStep ==
    ASSUME Notifiers = {}, ClientLimit = 0, TypeInv, RequestInv, QuietInv, [Next]_vars
    PROVE  QuietInv'
  BY StageStep, AnsweredStep DEF QuietInv

LEMMA QuietInit == Init => QuietInv
<1> SUFFICES ASSUME Init PROVE QuietInv
  OBVIOUS
<1>1. /\ toServer = <<>> /\ toClient = <<>> /\ mutexC = Nobody /\ mutexS = Nobody /\ srx = RxIdle
      /\ crx = RxIdle /\ reply = None /\ rpc = "receive" /\ isSuccess = TRUE /\ calls = <<>>
      /\ cpc = [c \in Callers |-> "idle"]
  BY Zenon DEF Init
<1>2. UpEmpty /\ DownEmpty
  BY <1>1 DEF UpEmpty, DownEmpty, OutC, OutS, RxIdle
<1>3. \A c \in Callers : cpc[c] \in {"idle", "locking"}
  BY <1>1
<1>4. DOMAIN calls = {}
  BY <1>1
<1>5. isSuccess
  BY <1>1, Zenon
<1> QED
  BY <1>1, <1>2, <1>3, <1>4, <1>5, Zenon DEF QuietInv, Stage, Resting, OkMeansAnswered

\* With no notifications and no limit at the client, the server has nothing to read
\* before the answer to the last request is out, for any number of callers, any
\* sizes, any limit at the server and any number of Stops.
THEOREM OneAtATime ==
    ASSUME Notifiers = {}, ClientLimit = 0
    PROVE  Spec => []OneOutstanding
<1>1. TypeInv /\ QuietInv => OneOutstanding
  <2> SUFFICES ASSUME TypeInv, QuietInv, reply # None
               PROVE  toServer = <<>> /\ \A n \in DOMAIN calls : n <= reply.id[2]
    BY DEF OneOutstanding
  <2>1. Answering
    BY DEF QuietInv, Stage, Resting, Requesting, Checking, Answered
  <2>2. toServer = <<>> /\ reply.id[2] = Len(calls)
    BY <2>1 DEF Answering, UpEmpty
  <2>3. calls \in Seq(CallRecords)
    BY DEF TypeInv, CallsOK
  <2> QED
    BY <2>2, <2>3
<1>2. Init => RequestInv
  BY RequestInit
<1>3. TypeInv /\ RequestInv /\ QuietInv /\ [Next]_vars => (TypeInv /\ RequestInv /\ QuietInv)'
  BY TypeInvStep, RequestStep, QuietStep
<1> QED
  BY <1>1, <1>2, <1>3, TypeInit, QuietInit, PTL DEF Spec

\* With no notifications and no limit at the client, a call that succeeds has had
\* its own response come in.
THEOREM SuccessIsAnswered ==
    ASSUME Notifiers = {}, ClientLimit = 0
    PROVE  Spec => []OkMeansAnswered
<1>1. QuietInv => OkMeansAnswered
  BY DEF QuietInv
<1>2. Init => RequestInv
  BY RequestInit
<1>3. TypeInv /\ RequestInv /\ QuietInv /\ [Next]_vars => (TypeInv /\ RequestInv /\ QuietInv)'
  BY TypeInvStep, RequestStep, QuietStep
<1> QED
  BY <1>1, <1>2, <1>3, TypeInit, QuietInit, PTL DEF Spec

-----------------------------------------------------------------------------
(* Refinement of RpcCalls. *)

Handled(n) == \E i \in DOMAIN handled : handled[i] = n
Came(n)    == \E i \in DOMAIN received : received[i].id[2] = n

\* Some caller has made its call and has not returned from it.
Busy == \E c \in Callers : cpc[c] \in Underway

\* An answer is at the server or on its way.
OnItsWay == reply # None \/ ~DownEmpty

\* The call under way is the last; it is answered after it was handled, and not
\* before the response thread has all of the answer.
CallInv ==
    /\ \A n \in DOMAIN calls : calls[n].status = "open" => n = Len(calls) /\ Busy
    /\ \A n : Came(n) => Handled(n)
    /\ Waits /\ rpc = "receive" => ~Came(Len(calls))
    /\ OnItsWay => Handled(Len(calls))

\* A step that makes nothing of it come true.
LEMMA CallInvStays ==
    ASSUME CallInv, UNCHANGED <<calls, handled, received>>, Busy => Busy',
           Waits' /\ rpc' = "receive" => Waits /\ rpc = "receive", OnItsWay' => OnItsWay
    PROVE  CallInv'
<1>1. UNCHANGED <<calls, handled, received>>
  OBVIOUS
<1>2. \A n \in DOMAIN calls' : calls'[n].status = "open" => n = Len(calls') /\ Busy'
  BY <1>1 DEF CallInv
<1>3. \A n : (Came(n)' <=> Came(n)) /\ (Handled(n)' <=> Handled(n))
  BY <1>1, Zenon DEF Came, Handled
<1>4. (Came(Len(calls))' <=> Came(Len(calls))) /\ (Handled(Len(calls))' <=> Handled(Len(calls)))
  BY <1>1, Zenon DEF Came, Handled
<1> QED
  BY <1>2, <1>3, <1>4, Zenon DEF CallInv

\* What the server has handled, it has handled.
LEMMA HandledGrows ==
    ASSUME handled \in Seq(Nat), NEW n, handled' = Append(handled, n)
    PROVE  \A k : Handled(k)' <=> Handled(k) \/ k = n
<1> SUFFICES ASSUME NEW k PROVE Handled(k)' <=> Handled(k) \/ k = n
  OBVIOUS
<1>1. /\ DOMAIN handled' = 1 .. Len(handled) + 1 /\ DOMAIN handled = 1 .. Len(handled)
      /\ handled'[Len(handled) + 1] = n /\ Len(handled) \in Nat
      /\ \A i \in DOMAIN handled : handled'[i] = handled[i]
  OBVIOUS
<1>2. DOMAIN handled' = DOMAIN handled \cup {Len(handled) + 1}
  BY <1>1
<1> QED
  BY <1>1, <1>2, Zenon DEF Handled

LEMMA CameGrows ==
    ASSUME received \in Seq(Messages), NEW m, received' = Append(received, m)
    PROVE  \A k : Came(k)' <=> Came(k) \/ k = m.id[2]
<1> SUFFICES ASSUME NEW k PROVE Came(k)' <=> Came(k) \/ k = m.id[2]
  OBVIOUS
<1>1. /\ DOMAIN received' = 1 .. Len(received) + 1 /\ DOMAIN received = 1 .. Len(received)
      /\ received'[Len(received) + 1] = m /\ Len(received) \in Nat
      /\ \A i \in DOMAIN received : received'[i] = received[i]
  OBVIOUS
<1>2. DOMAIN received' = DOMAIN received \cup {Len(received) + 1}
  BY <1>1
<1> QED
  BY <1>1, <1>2, Zenon DEF Came

\* In the stages with a caller that waits, and in no other, one waits.
LEMMA WaitsIs ==
    ASSUME TypeInv, Stage, Waits, rpc = "receive"
    PROVE  Requesting \/ Answering
<1>1. PICK c \in Callers : /\ cpc[c] \in {"sending", "sent", "waiting", "woken"}
                           /\ cpc[c] \in {"waiting", "woken"} => ~arrived
  BY Zenon DEF Waits
<1>2. Requesting \/ Answering \/ Checking
  BY <1>1, OneWaiter
<1>3. ~Checking
  BY DEF Checking
<1> QED
  BY <1>2, <1>3

LEMMA CallersKeepCallInv ==
    ASSUME TypeInv, Stage, CallInv, NEW c \in Callers,
           Call(c) \/ SendRequest(c) \/ ClearAndWait(c) \/ SpuriousWakeup(c)
    PROVE  CallInv'
<1>1. UNCHANGED <<calls, handled, received, rpc, reply, toClient, crx, mutexS>>
  BY Zenon DEF Call, SendRequest, ClearAndWait, SpuriousWakeup, client, server, locks
<1>2. cpc \in [Callers -> Places]
  BY DEF TypeInv, LockInv, LockTypes
<1>3. OutS' = OutS
  BY CallersKeepOutS
<1>4. OnItsWay' <=> OnItsWay
  BY <1>1, <1>3, Zenon DEF OnItsWay, DownEmpty
<1>5. CASE Call(c)
  <2>1. cpc[c] = "idle" /\ cpc' = [cpc EXCEPT ![c] = "locking"] /\ arrived' = arrived
    BY <1>5 DEF Call, members
  <2>2. \A d \in Callers : d # c => cpc'[d] = cpc[d]
    BY <1>2, <2>1
  <2>3. cpc'[c] = "locking"
    BY <1>2, <2>1
  <2>4. Busy => Busy'
    BY <2>1, <2>2 DEF Busy, Underway
  <2>5. Waits' => Waits
    BY <2>1, <2>2, <2>3 DEF Waits
  <2> QED
    BY <1>1, <1>4, <2>4, <2>5, CallInvStays, Zenon
<1>6. CASE SendRequest(c) \/ ClearAndWait(c) \/ SpuriousWakeup(c)
  <2>1. /\ cpc[c] \in {"sending", "sent", "waiting"}
        /\ cpc' = cpc \/ \E p \in {"sent", "waiting", "woken"} : cpc' = [cpc EXCEPT ![c] = p]
    BY <1>6 DEF SendRequest, ClearAndWait, SpuriousWakeup
  <2>2. cpc'[c] \in Underway
    BY <1>2, <2>1 DEF Underway
  <2>3. Busy'
    BY <2>2, Zenon DEF Busy
  <2>4. Waits
    <3>1. Requesting \/ Answering \/ Checking
      BY <2>1, OneWaiter
    <3> QED
      BY <3>1, Zenon DEF Requesting, Answering, Checking
  <2> QED
    BY <1>1, <1>4, <2>3, <2>4, CallInvStays, Zenon
<1> QED
  BY <1>5, <1>6

\* A call is added; nothing of it has been handled or come in.
LEMMA BeginKeepsCallInv ==
    ASSUME TypeInv, RequestInv, Stage, CallInv, NEW c \in Callers, NEW type \in CallTypes,
           NEW size \in Sizes, BeginRequest(c, type, size)
    PROVE  /\ CallInv'
           /\ \A n \in DOMAIN calls : calls[n].status # "open"
<1>1. UNCHANGED <<handled, received, rpc, reply, toClient, crx, mutexS, arrived>>
  BY Zenon DEF BeginRequest, client, server, members
<1>2. /\ cpc \in [Callers -> Places]
      /\ calls \in Seq(CallRecords) /\ Len(calls) \in Nat /\ handled \in Seq(Nat)
  BY DEF TypeInv, LockInv, LockTypes, CallsOK, DataOK
<1>3. cpc[c] = "locking" /\ mutexC = c
  BY BeginRequestIs
<1>4. \A d \in Callers : d # c => cpc[d] = "idle"
  BY <1>3, OneCallerAtATime DEF TypeInv
<1>5. ~Busy
  BY <1>3, <1>4 DEF Busy, Underway
<1>6. \A n \in DOMAIN calls : calls[n].status # "open"
  BY <1>5, Zenon DEF CallInv
<1>7. Resting /\ ~OnItsWay
  <2>1. Resting
    BY <1>3, OneWaiter
  <2> QED
    BY <2>1, Zenon DEF Resting, OnItsWay
<1>8. ~OnItsWay'
  <2>1. OutS' = OutS
    BY CallersKeepOutS
  <2> QED
    BY <1>1, <1>7, <2>1, Zenon DEF OnItsWay, DownEmpty
<1>9. PICK s \in {"open", "error"} :
         /\ calls' = Append(calls, [by |-> c, type |-> type, status |-> s, resp |-> None])
         /\ s = "open" => cpc' = [cpc EXCEPT ![c] = "sending"]
         /\ s = "error" => cpc' = [cpc EXCEPT ![c] = "idle"]
  BY BeginRequestIs, Zenon
<1>10. /\ Len(calls') = Len(calls) + 1 /\ DOMAIN calls = 1 .. Len(calls)
       /\ DOMAIN calls' = 1 .. Len(calls) + 1
       /\ \A n \in DOMAIN calls : calls'[n] = calls[n]
       /\ calls'[Len(calls) + 1].status = s
  BY <1>2, <1>9
<1>11. \A n : (Came(n)' <=> Came(n)) /\ (Handled(n)' <=> Handled(n))
  BY <1>1, Zenon DEF Came, Handled
<1>12. ~Came(Len(calls) + 1)
  <2>1. \A k \in DOMAIN handled : handled[k] <= Len(calls)
    BY DEF RequestInv, Ordered
  <2>2. DOMAIN handled = 1 .. Len(handled) /\ \A k \in 1 .. Len(handled) : handled[k] \in Nat
    BY <1>2
  <2>3. ~Handled(Len(calls) + 1)
    BY <1>2, <2>1, <2>2 DEF Handled
  <2> QED
    BY <2>3, Zenon DEF CallInv
<1>13. \A n \in DOMAIN calls' : calls'[n].status = "open" => n = Len(calls') /\ Busy'
  <2> SUFFICES ASSUME NEW n \in DOMAIN calls', calls'[n].status = "open"
               PROVE  n = Len(calls') /\ Busy'
    BY Zenon
  <2>1. n = Len(calls) + 1
    BY <1>2, <1>6, <1>10
  <2>2. s = "open"
    BY <1>10, <2>1
  <2>3. cpc'[c] = "sending"
    BY <1>2, <1>9, <2>2
  <2>4. Busy'
    BY <2>3 DEF Busy, Underway
  <2> QED
    BY <1>10, <2>1, <2>4
<1>14. ~Came(Len(calls))'
  <2>1. Len(calls') = Len(calls) + 1
    BY <1>10
  <2> QED
    BY <1>1, <1>12, <2>1, Zenon DEF Came
<1>15. CallInv'
  BY <1>8, <1>11, <1>13, <1>14, Zenon DEF CallInv
<1> QED
  BY <1>6, <1>15

\* A call that returns is closed, and one that is woken for nothing waits again.
LEMMA ResumeKeepsCallInv ==
    ASSUME TypeInv, Stage, CallInv, NEW c \in Callers, Resume(c) \/ Return(c)
    PROVE  CallInv'
<1>1. UNCHANGED <<handled, received, rpc, reply, toClient, crx, OutS>>
  <2>1. UNCHANGED <<handled, received, rpc, reply, toClient, crx>>
    BY Zenon DEF Resume, Return, client, server
  <2> QED
    BY <2>1, CallersKeepOutS
<1>2. /\ cpc \in [Callers -> Places]
      /\ calls \in Seq(CallRecords) /\ Len(calls) \in Nat
  BY DEF TypeInv, LockInv, LockTypes, CallsOK
<1>3. OnItsWay' <=> OnItsWay
  BY <1>1, Zenon DEF OnItsWay, DownEmpty
<1>4. CASE Resume(c) /\ ~arrived
  <2>1. /\ cpc[c] = "woken" /\ cpc' = [cpc EXCEPT ![c] = "waiting"] /\ UNCHANGED calls
    BY <1>4, ResumeIs
  <2>2. Busy'
    <3>1. cpc'[c] = "waiting"
      BY <1>2, <2>1
    <3> QED
      BY <3>1 DEF Busy, Underway
  <2>3. Waits
    BY <1>4, <2>1, Zenon DEF Waits
  <2> QED
    BY <1>1, <1>3, <2>1, <2>2, <2>3, CallInvStays, Zenon
<1>5. CASE Return(c) \/ (Resume(c) /\ arrived /\ ~isSuccess)
  <2>1. /\ cpc[c] \in {"woken", "returning"} /\ cpc' = [cpc EXCEPT ![c] = "idle"]
        /\ calls' \in Seq(CallRecords) /\ Len(calls') = Len(calls)
        /\ \A n \in DOMAIN calls : n # Len(calls) => calls'[n] = calls[n]
        /\ calls'[Len(calls)].status # "open"
    BY <1>5, ResumeIs, ReturnIs
  <2>2. \A d \in Callers : cpc'[d] = "idle"
    <3> SUFFICES ASSUME NEW d \in Callers PROVE cpc'[d] = "idle"
      OBVIOUS
    <3>1. d # c => cpc[d] = "idle"
      BY <2>1, OneCallerAtATime DEF TypeInv
    <3> QED
      BY <1>2, <2>1, <3>1
  <2>3. ~Waits'
    BY <2>2 DEF Waits
  <2>4. DOMAIN calls' = DOMAIN calls
    BY <1>2, <2>1
  <2>5. \A n \in DOMAIN calls' : calls'[n].status # "open"
    <3> SUFFICES ASSUME NEW n \in DOMAIN calls' PROVE calls'[n].status # "open"
      OBVIOUS
    <3>1. CASE n = Len(calls)
      BY <2>1, <3>1
    <3>2. CASE n # Len(calls)
      BY <2>1, <2>4, <3>2, Zenon DEF CallInv
    <3> QED
      BY <3>1, <3>2
  <2>6. \A n : (Came(n)' <=> Came(n)) /\ (Handled(n)' <=> Handled(n))
    BY <1>1, Zenon DEF Came, Handled
  <2>7. Handled(Len(calls))' <=> Handled(Len(calls))
    BY <1>1, <2>1, Zenon DEF Handled
  <2> QED
    BY <1>3, <2>3, <2>5, <2>6, <2>7, Zenon DEF CallInv
<1>6. CASE Resume(c) /\ arrived /\ isSuccess
  <2>1. /\ cpc[c] = "woken" /\ cpc' = [cpc EXCEPT ![c] = "returning"] /\ UNCHANGED calls
    BY <1>6, ResumeIs
  <2>2. cpc'[c] = "returning"
    BY <1>2, <2>1
  <2>3. Busy'
    BY <2>2 DEF Busy, Underway
  <2>4. ~Waits'
    <3>1. \A d \in Callers : d # c => cpc'[d] = "idle"
      BY <1>2, <2>1, OneCallerAtATime DEF TypeInv
    <3> QED
      BY <2>2, <3>1 DEF Waits
  <2> QED
    BY <1>1, <1>3, <2>1, <2>3, <2>4, CallInvStays, Zenon
<1> QED
  BY <1>4, <1>5, <1>6

\* The response thread has the answer to the call under way, or tells of it.
LEMMA ClientKeepsCallInv ==
    ASSUME TypeInv, Stage, isSuccess, ClientLimit = 0, CallInv,
           ClientTake \/ CheckResult \/ Arrive \/ Store
    PROVE  CallInv'
<1>1. CASE ClientTake
  <2>1. /\ UNCHANGED <<handled, calls, cpc, arrived, reply, mutexS, tx>>
        /\ rpc = "receive" /\ toClient # <<>>
    BY <1>1, Zenon DEF ClientTake, locks, server
  <2>2. OnItsWay
    BY <2>1, Zenon DEF OnItsWay, DownEmpty
  <2>3. (Waits' <=> Waits) /\ (Busy' <=> Busy)
    BY <2>1, Zenon DEF Waits, Busy
  <2>4. CASE received' = received /\ rpc' = "receive"
    BY <2>1, <2>2, <2>3, <2>4, CallInvStays, Zenon
  <2>5. ASSUME rpc' = "check", NEW m, m.id = <<"response", Len(calls)>>, received' = Append(received, m)
        PROVE  CallInv'
    <3>1. m.id[2] = Len(calls)
      BY <2>5
    <3>2. \A k : Came(k)' <=> Came(k) \/ k = Len(calls)
      BY <2>5, <3>1, CameGrows, Zenon DEF TypeInv, DataOK
    <3>3. \A k : Handled(k)' <=> Handled(k)
      BY <2>1, Zenon DEF Handled
    <3>4. Handled(Len(calls)) /\ Handled(Len(calls))'
      BY <2>1, <2>2, Zenon DEF CallInv, Handled
    <3>5. ~(rpc' = "receive")
      BY <2>5
    <3>6. \A n \in DOMAIN calls' : calls'[n].status = "open" => n = Len(calls') /\ Busy'
      BY <2>1, <2>3 DEF CallInv
    <3>7. \A n : Came(n)' => Handled(n)'
      BY <3>2, <3>3, <3>4, Zenon DEF CallInv
    <3> QED
      BY <3>4, <3>5, <3>6, <3>7, Zenon DEF CallInv
  <2> QED
    BY <1>1, <2>4, <2>5, ClientTakeKeepsStage, Zenon
<1>2. CASE CheckResult \/ Arrive \/ Store
  <2>1. UNCHANGED <<handled, received, calls, toClient, tx, mutexS, crx, reply>>
    BY <1>2, Zenon DEF CheckResult, Arrive, Store, locks, server
  <2>2. OnItsWay' <=> OnItsWay
    BY <2>1, Zenon DEF OnItsWay, DownEmpty, OutS
  <2>3. CASE CheckResult
    <3>1. rpc' = "arrive" /\ cpc' = cpc
      BY <2>3, Zenon DEF CheckResult
    <3>2. ~(rpc' = "receive") /\ (Busy => Busy')
      BY <3>1, Zenon DEF Busy
    <3> QED
      BY <2>1, <2>2, <3>2, CallInvStays, Zenon
  <2>4. CASE Arrive
    <3>1. /\ respMutex = Nobody /\ arrived' = TRUE
          /\ cpc' = [c \in Callers |-> IF cpc[c] = "waiting" THEN "woken" ELSE cpc[c]]
      BY <2>4 DEF Arrive, Signal
    <3>2. Busy => Busy'
      BY <3>1 DEF Busy, Underway
    <3>3. \A c \in Callers : cpc[c] \notin {"sending", "sent"}
      BY <3>1, ThreadsApart DEF TypeInv, LockInv, LocksAreHeld
    <3>4. \A c \in Callers : cpc'[c] \notin {"sending", "sent"}
      BY <3>1, <3>3
    <3>5. ~Waits'
      BY <3>1, <3>4 DEF Waits
    <3> QED
      BY <2>1, <2>2, <3>2, <3>5, CallInvStays, Zenon
  <2>5. ~Store
    BY DEF Store, Stage, Resting, Requesting, Answering, Checking, Answered
  <2> QED
    BY <1>2, <2>3, <2>4, <2>5
<1> QED
  BY <1>1, <1>2

\* The server handles the request, answers it, or is started and stopped.
LEMMA ServerKeepsCallInv ==
    ASSUME TypeInv, RequestInv, Stage, CallInv,
           \/ Start \/ Stop \/ EndRun \/ BeginReply \/ ServerSend(Run)
           \/ \E size \in Sizes : ServerTake(size)
    PROVE  CallInv'
<1>1. UNCHANGED <<received, calls, cpc, arrived, rpc, crx>>
  BY Zenon DEF Start, Stop, EndRun, ServerTake, BeginReply, ServerSend, client, members
<1>2. (Waits' <=> Waits) /\ (Busy' <=> Busy)
  BY <1>1, Zenon DEF Waits, Busy
<1>3. CASE Start \/ Stop
  <2>1. UNCHANGED <<handled, toClient, tx, mutexS, reply>>
    BY <1>3, Zenon DEF Start, Stop, locks
  <2>2. OnItsWay' <=> OnItsWay
    BY <1>1, <2>1, Zenon DEF OnItsWay, DownEmpty, OutS
  <2> QED
    BY <1>1, <1>2, <2>1, <2>2, CallInvStays, Zenon
<1>4. CASE EndRun
  <2>1. /\ UNCHANGED <<handled, toClient>> /\ reply' = None
        /\ tx' = [tx EXCEPT ![Run] = End] /\ mutexS' = IF mutexS = Run THEN Nobody ELSE mutexS
    BY <1>4 DEF EndRun
  <2>2. /\ mutexS \in ServerThreads \cup {Nobody} /\ tx \in [Threads -> Datagrams \cup {End}]
        /\ ServerThreads \subseteq Threads
    BY ThreadsApart DEF TypeInv, ControlOK, DataOK
  <2>3. OutS = End => OutS' = End
    BY <2>1, <2>2 DEF OutS
  <2>4. OnItsWay' => OnItsWay
    BY <1>1, <2>1, <2>3, Zenon DEF OnItsWay, DownEmpty
  <2> QED
    BY <1>1, <1>2, <2>1, <2>4, CallInvStays, Zenon
<1>5. CASE BeginReply \/ ServerSend(Run)
  <2>1. handled' = handled
    BY <1>5, Zenon DEF BeginReply, ServerSend
  <2>2. OnItsWay
    <3>1. CASE BeginReply
      BY <3>1 DEF BeginReply, OnItsWay
    <3>2. CASE ServerSend(Run)
      <4>1. tx[Run] # End
        BY <3>2 DEF ServerSend
      <4>2. OutS # End
        BY <4>1, OutSIs, ThreadsApart
      <4> QED
        BY <4>2, Zenon DEF OnItsWay, DownEmpty
    <3> QED
      BY <1>5, <3>1, <3>2
  <2> QED
    BY <1>1, <1>2, <2>1, <2>2, CallInvStays, Zenon
<1>6. ASSUME NEW size \in Sizes, ServerTake(size) PROVE CallInv'
  <2>1. UNCHANGED <<toClient, tx, mutexS>> /\ Requesting
    <3>1. UNCHANGED <<toClient, tx, mutexS>>
      BY <1>6, Zenon DEF ServerTake, locks
    <3> QED
      BY <1>6, <3>1, ServerTakeKeepsStage
  <2>2. CASE UNCHANGED <<handled, reply>>
    <3>1. OnItsWay' <=> OnItsWay
      BY <1>1, <2>1, <2>2, Zenon DEF OnItsWay, DownEmpty, OutS
    <3> QED
      BY <1>1, <1>2, <2>2, <3>1, CallInvStays, Zenon
  <2>3. CASE handled' = Append(handled, Len(calls))
    <3>1. \A k : Handled(k)' <=> Handled(k) \/ k = Len(calls)
      BY <2>3, HandledGrows, Zenon DEF TypeInv, DataOK
    <3>2. \A k : Came(k)' <=> Came(k)
      BY <1>1, Zenon DEF Came
    <3>3. (Came(Len(calls))' <=> Came(Len(calls))) /\ Handled(Len(calls))'
      <4>1. Handled(Len(calls))' <=> \E i \in DOMAIN handled' : handled'[i] = Len(calls)
        BY <1>1, Zenon DEF Handled
      <4>2. /\ handled \in Seq(Nat) /\ Len(calls) \in Nat
        BY DEF TypeInv, DataOK, CallsOK
      <4>3. Len(handled) + 1 \in DOMAIN handled' /\ handled'[Len(handled) + 1] = Len(calls)
        BY <2>3, <4>2
      <4> QED
        BY <1>1, <4>1, <4>3, Zenon DEF Came
    <3>4. \A n \in DOMAIN calls' : calls'[n].status = "open" => n = Len(calls') /\ Busy'
      BY <1>1, <1>2 DEF CallInv
    <3>5. Waits' /\ rpc' = "receive" => ~Came(Len(calls))'
      BY <1>1, <1>2, <3>3, Zenon DEF CallInv
    <3>6. \A n : Came(n)' => Handled(n)'
      BY <3>1, <3>2, Zenon DEF CallInv
    <3> QED
      BY <3>3, <3>4, <3>5, <3>6, Zenon DEF CallInv
  <2> QED
    BY <1>6, <2>2, <2>3, ServerTakeKeepsStage, Zenon
<1> QED
  BY <1>3, <1>4, <1>5, <1>6

LEMMA CallInvStep ==
    ASSUME Notifiers = {}, ClientLimit = 0, TypeInv, RequestInv, QuietInv, CallInv, [Next]_vars
    PROVE  CallInv'
<1>1. Stage /\ isSuccess
  BY DEF QuietInv
<1>2. ASSUME NEW c \in Callers,
             \/ Call(c) \/ SendRequest(c) \/ ClearAndWait(c) \/ SpuriousWakeup(c) \/ Resume(c)
             \/ Return(c)
             \/ \E type \in CallTypes, size \in Sizes : BeginRequest(c, type, size)
      PROVE  CallInv'
  BY <1>1, <1>2, CallersKeepCallInv, ResumeKeepsCallInv, BeginKeepsCallInv, Zenon
<1>3. CASE ClientTake \/ CheckResult \/ Arrive \/ Store
  BY <1>1, <1>3, ClientKeepsCallInv
<1>4. CASE \E size \in Sizes : ServerTake(size)
  BY <1>1, <1>4, ServerKeepsCallInv
<1>5. CASE Start \/ Stop \/ EndRun \/ BeginReply \/ \E t \in Notifiers \cup {Run} : ServerSend(t)
  <2>1. Start \/ Stop \/ EndRun \/ BeginReply \/ ServerSend(Run)
    BY <1>5
  <2> QED
    BY <1>1, <2>1, ServerKeepsCallInv
<1>6. CASE UNCHANGED vars
  <2>1. UNCHANGED <<received, calls, handled, cpc, arrived, rpc, crx, toClient, tx, mutexS, reply>>
    BY <1>6 DEF vars, locks, members, client, server
  <2>2. (Waits' <=> Waits) /\ (Busy' <=> Busy) /\ (OnItsWay' <=> OnItsWay)
    BY <2>1, Zenon DEF Waits, Busy, OnItsWay, DownEmpty, OutS
  <2> QED
    BY <2>1, <2>2, CallInvStays, Zenon
<1> QED
  BY <1>2, <1>3, <1>4, <1>5, <1>6, Zenon DEF Next, Finished

\* The state of RpcCalls.
Outcomes == [n \in DOMAIN calls |-> calls[n].status]
Answers  == [i \in DOMAIN received |-> received[i].id[2]]

LEMMA OutcomesIs ==
    ASSUME calls \in Seq(CallRecords), received \in Seq(Messages)
    PROVE  /\ Outcomes \in Seq({"open", "ok", "failed", "error"}) /\ Len(Outcomes) = Len(calls)
           /\ Len(calls) \in Nat /\ DOMAIN Outcomes = DOMAIN calls
           /\ \A n \in DOMAIN calls : Outcomes[n] = calls[n].status
           /\ \A n : Abstract!Among(n, handled) <=> Handled(n)
           /\ \A n : Abstract!Among(n, Answers) <=> Came(n)
<1>1. /\ DOMAIN calls = 1 .. Len(calls) /\ Len(calls) \in Nat
      /\ \A n \in 1 .. Len(calls) : calls[n] \in CallRecords
  OBVIOUS
<1>2. \A n \in 1 .. Len(calls) : calls[n].status \in {"open", "ok", "failed", "error"}
  BY <1>1 DEF CallRecords
<1>3. Outcomes = [n \in 1 .. Len(calls) |-> calls[n].status]
  BY <1>1 DEF Outcomes
<1>4. Outcomes \in Seq({"open", "ok", "failed", "error"}) /\ Len(Outcomes) = Len(calls)
  BY <1>1, <1>2, <1>3
<1>5. \A n : Abstract!Among(n, handled) <=> Handled(n)
  BY Zenon DEF Abstract!Among, Handled
<1>6. \A n : Abstract!Among(n, Answers) <=> Came(n)
  BY Zenon DEF Abstract!Among, Answers, Came
<1> QED
  BY <1>1, <1>3, <1>4, <1>5, <1>6

\* While a caller is in its call, that is the call under way.
LEMMA CallIsUnderWay ==
    ASSUME TypeInv, NEW c \in Callers, cpc[c] \in Underway
    PROVE  Abstract!Current = Len(calls) /\ Abstract!UnderWay
<1>1. Len(calls) \in DOMAIN calls /\ Len(calls) # 0 /\ calls[Len(calls)].status = "open"
  BY CurrentIs DEF TypeInv
<1>2. Len(Outcomes) = Len(calls) /\ \A n \in DOMAIN calls : Outcomes[n] = calls[n].status
  BY OutcomesIs DEF TypeInv, CallsOK, DataOK
<1>3. Abstract!Current = Len(calls)
  BY <1>2 DEF Abstract!Current, Outcomes
<1>4. Outcomes[Len(calls)] = "open"
  BY <1>1, <1>2, Zenon
<1> QED
  BY <1>1, <1>3, <1>4, Zenon DEF Abstract!UnderWay, Outcomes

LEMMA WaitsUnderWay ==
    ASSUME TypeInv, Waits
    PROVE  Abstract!Current = Len(calls) /\ Abstract!UnderWay
<1>1. PICK c \in Callers : cpc[c] \in Underway
  BY DEF Waits, Underway
<1> QED
  BY <1>1, CallIsUnderWay

\* BeginRequest makes a call.
LEMMA BeginIsMake ==
    ASSUME TypeInv, RequestInv, Stage, CallInv, NEW c \in Callers, NEW type \in CallTypes,
           NEW size \in Sizes, BeginRequest(c, type, size)
    PROVE  Abstract!Make
<1>1. calls \in Seq(CallRecords) /\ received \in Seq(Messages) /\ UNCHANGED <<handled, received>>
  BY DEF TypeInv, CallsOK, DataOK, BeginRequest, client, server
<1>2. PICK s \in {"open", "error"} :
         calls' = Append(calls, [by |-> c, type |-> type, status |-> s, resp |-> None])
  BY BeginRequestIs, Zenon
<1>3. Abstract!AllReturned
  <2>1. \A n \in DOMAIN calls : calls[n].status # "open"
    BY BeginKeepsCallInv
  <2>2. DOMAIN Outcomes = DOMAIN calls /\ \A n \in DOMAIN calls : Outcomes[n] = calls[n].status
    BY <1>1, OutcomesIs
  <2> QED
    BY <2>1, <2>2, Zenon DEF Abstract!AllReturned, Outcomes
<1>4. Outcomes' = Append(Outcomes, s)
  <2>1. /\ DOMAIN calls' = 1 .. Len(calls) + 1 /\ Len(calls) \in Nat
        /\ \A n \in 1 .. Len(calls) : calls'[n] = calls[n]
        /\ calls'[Len(calls) + 1].status = s
    BY <1>1, <1>2
  <2>2. Outcomes' = [n \in 1 .. Len(calls) + 1 |-> calls'[n].status]
    BY <2>1 DEF Outcomes
  <2>3. Outcomes = [n \in 1 .. Len(calls) |-> calls[n].status] /\ Len(Outcomes) = Len(calls)
    BY <1>1, OutcomesIs DEF Outcomes
  <2> HIDE DEF Outcomes
  <2> QED
    BY <2>1, <2>2, <2>3
<1>5. Answers' = Answers
  BY <1>1 DEF Answers
<1> QED
  BY <1>1, <1>3, <1>4, <1>5, Zenon DEF Abstract!Make, Outcomes, Answers

\* The read that completes a request handles it.
LEMMA TakeIsHandle ==
    ASSUME TypeInv, RequestInv, Stage, NEW size \in Sizes, ServerTake(size), ~UNCHANGED handled
    PROVE  Abstract!Handle
<1>1. Requesting /\ handled' = Append(handled, Len(calls))
  BY ServerTakeKeepsStage
<1>2. \A i \in DOMAIN handled : handled[i] < Len(calls)
  BY ServerTakeKeepsStage
<1>3. Abstract!Current = Len(calls) /\ Abstract!UnderWay
  BY <1>1, WaitsUnderWay DEF Requesting
<1>4. ~Handled(Len(calls))
  <2>1. handled \in Seq(Nat) /\ Len(calls) \in Nat
    BY DEF TypeInv, DataOK, CallsOK
  <2> QED
    BY <1>2, <2>1 DEF Handled
<1>5. ~Abstract!Among(Len(calls), handled)
  BY <1>4, OutcomesIs DEF TypeInv, CallsOK, DataOK
<1>6. UNCHANGED <<calls, received>>
  BY Zenon DEF ServerTake, client
<1>7. UNCHANGED <<Outcomes, Answers>>
  BY <1>6 DEF Outcomes, Answers
<1> QED
  BY <1>1, <1>3, <1>5, <1>7, Zenon DEF Abstract!Handle, Outcomes, Answers

\* The read that completes a response answers the call.
LEMMA TakeIsAnswer ==
    ASSUME TypeInv, Stage, isSuccess, ClientLimit = 0, CallInv, ClientTake, ~UNCHANGED received
    PROVE  Abstract!Answer
<1>1. PICK m : m.id = <<"response", Len(calls)>> /\ received' = Append(received, m)
  BY ClientTakeKeepsStage, Zenon
<1>2. Answering
  BY ClientTakeKeepsStage, Zenon
<1>3. Abstract!Current = Len(calls) /\ Abstract!UnderWay
  BY <1>2, WaitsUnderWay DEF Answering
<1>4. Handled(Len(calls)) /\ ~Came(Len(calls))
  <2>1. OnItsWay
    BY Zenon DEF ClientTake, OnItsWay, DownEmpty
  <2>2. Waits /\ rpc = "receive"
    BY <1>2, Zenon DEF Answering
  <2> QED
    BY <2>1, <2>2, Zenon DEF CallInv
<1>5. Abstract!Among(Len(calls), handled) /\ ~Abstract!Among(Len(calls), Answers)
  BY <1>4, OutcomesIs DEF TypeInv, CallsOK, DataOK
<1>6. UNCHANGED <<calls, handled>>
  BY Zenon DEF ClientTake, server
<1>7. Answers' = Append(Answers, Len(calls))
  <2>1. received \in Seq(Messages) /\ m.id[2] = Len(calls)
    BY <1>1 DEF TypeInv, DataOK
  <2>2. /\ DOMAIN received' = 1 .. Len(received) + 1 /\ Len(received) \in Nat
        /\ \A i \in 1 .. Len(received) : received'[i] = received[i]
        /\ received'[Len(received) + 1].id[2] = Len(calls)
        /\ DOMAIN received = 1 .. Len(received)
    BY <1>1, <2>1
  <2>3. Answers' = [i \in 1 .. Len(received) + 1 |-> received'[i].id[2]]
    BY <2>2 DEF Answers
  <2>4. Answers = [i \in 1 .. Len(received) |-> received[i].id[2]] /\ Len(Answers) = Len(received)
    BY <2>2 DEF Answers
  <2> HIDE DEF Answers
  <2> QED
    BY <2>2, <2>3, <2>4
<1>8. UNCHANGED Outcomes
  BY <1>6 DEF Outcomes
<1> QED
  BY <1>3, <1>5, <1>6, <1>7, <1>8, Zenon DEF Abstract!Answer, Outcomes, Answers

\* A call that returns with no error to hand on succeeds.
LEMMA ReturnIsSucceed ==
    ASSUME TypeInv, Stage, isSuccess, NEW c \in Callers, Return(c)
    PROVE  Abstract!Succeed
<1>1. /\ cpc[c] = "returning" /\ calls' \in Seq(CallRecords) /\ Len(calls') = Len(calls)
      /\ \A n \in DOMAIN calls : n # Len(calls) => calls'[n] = calls[n]
      /\ calls'[Len(calls)].status = "ok"
  BY ReturnIs
<1>2. Answered
  BY <1>1, OneWaiter
<1>3. Came(Len(calls))
  <2>1. PICK i \in DOMAIN received : received[i].id = <<"response", Len(calls)>>
    BY <1>2, Zenon DEF Answered, Got
  <2>2. received[i].id[2] = Len(calls)
    BY <2>1
  <2> QED
    BY <2>2 DEF Came
<1>4. Abstract!Current = Len(calls) /\ Abstract!UnderWay
  BY <1>1, CallIsUnderWay DEF Underway
<1>5. Abstract!Among(Len(calls), Answers)
  BY <1>3, OutcomesIs DEF TypeInv, CallsOK, DataOK
<1>6. UNCHANGED <<handled, received>>
  BY Zenon DEF Return, client, server
<1>7. Outcomes' = [Outcomes EXCEPT ![Len(calls)] = "ok"]
  <2>1. calls \in Seq(CallRecords) /\ DOMAIN calls' = DOMAIN calls
    BY <1>1 DEF TypeInv, CallsOK
  <2>2. \A n \in DOMAIN calls : calls'[n].status = IF n = Len(calls) THEN "ok" ELSE calls[n].status
    BY <1>1, Zenon
  <2> QED
    BY <2>1, <2>2 DEF Outcomes
<1>8. UNCHANGED Answers
  BY <1>6 DEF Answers
<1> QED
  BY <1>4, <1>5, <1>6, <1>7, <1>8, Zenon DEF Abstract!Succeed, Outcomes, Answers

\* With no notifications and no limit at the client, whatever the limit of the
\* server and the number of Stops, each step of client and server is a step of
\* RpcCalls or leaves the calls alone: one call at a time, handled once at most,
\* answered after that with its own response, and successful only then.
THEOREM RpcImplementsRpcCalls ==
    ASSUME Notifiers = {}, ClientLimit = 0
    PROVE  Spec => Abstract!Init /\ [][Abstract!Next]_(Abstract!vars)
<1>1. Init => Abstract!Init /\ CallInv
  <2> SUFFICES ASSUME Init PROVE Abstract!Init /\ CallInv
    OBVIOUS
  <2>1. calls = <<>> /\ received = <<>> /\ handled = <<>> /\ Resting /\ reply = None
    <3>1. /\ toServer = <<>> /\ toClient = <<>> /\ mutexC = Nobody /\ mutexS = Nobody
          /\ srx = RxIdle /\ crx = RxIdle /\ reply = None /\ rpc = "receive"
          /\ cpc = [c \in Callers |-> "idle"] /\ calls = <<>> /\ received = <<>> /\ handled = <<>>
      BY Zenon DEF Init
    <3>2. UpEmpty /\ DownEmpty
      BY <3>1 DEF UpEmpty, DownEmpty, OutC, OutS, RxIdle
    <3> QED
      BY <3>1, <3>2 DEF Resting
  <2>2. ~Waits /\ ~OnItsWay
    BY <2>1 DEF Resting, Waits, OnItsWay
  <2>3. DOMAIN calls = {} /\ DOMAIN received = {}
    BY <2>1
  <2>4. CallInv
    BY <2>2, <2>3, Zenon DEF CallInv, Came
  <2>5. Outcomes = <<>> /\ Answers = <<>>
    BY <2>3 DEF Outcomes, Answers
  <2> QED
    BY <2>1, <2>4, <2>5, Zenon DEF Abstract!Init, Outcomes, Answers
<1>2. ASSUME TypeInv, RequestInv, QuietInv, CallInv, [Next]_vars
      PROVE  [Abstract!Next]_(Abstract!vars)
  <2>1. Stage /\ isSuccess
    BY <1>2 DEF QuietInv
  <2>2. CASE UNCHANGED <<calls, handled, received>>
    BY <2>2 DEF Abstract!vars
  <2>3. ASSUME NEW c \in Callers, NEW type \in CallTypes, NEW size \in Sizes,
               BeginRequest(c, type, size)
        PROVE  Abstract!Next
    BY <1>2, <2>1, <2>3, BeginIsMake, Zenon DEF Abstract!Next
  <2>4. ASSUME NEW c \in Callers, Resume(c) \/ Return(c), ~UNCHANGED <<calls, handled, received>>
        PROVE  Abstract!Next
    <3>1. UNCHANGED <<handled, received>>
      BY <2>4, Zenon DEF Resume, Return, client, server
    <3>2. ~Resume(c)
      BY <1>2, <2>1, <2>4, <3>1, ResumeIs
    <3> QED
      BY <1>2, <2>1, <2>4, <3>2, ReturnIsSucceed, Zenon DEF Abstract!Next
  <2>5. ASSUME NEW size \in Sizes, ServerTake(size), ~UNCHANGED <<calls, handled, received>>
        PROVE  Abstract!Next
    <3>1. UNCHANGED <<calls, received>>
      BY <2>5, Zenon DEF ServerTake, client
    <3> QED
      BY <1>2, <2>1, <2>5, <3>1, TakeIsHandle, Zenon DEF Abstract!Next
  <2>6. CASE ClientTake /\ ~UNCHANGED <<calls, handled, received>>
    <3>1. UNCHANGED <<calls, handled>>
      BY <2>6, Zenon DEF ClientTake, server
    <3> QED
      BY <1>2, <2>1, <2>6, <3>1, TakeIsAnswer, Zenon DEF Abstract!Next
  <2>7. \/ UNCHANGED <<calls, handled, received>>
        \/ \E c \in Callers, type \in CallTypes, size \in Sizes : BeginRequest(c, type, size)
        \/ \E c \in Callers : Resume(c) \/ Return(c)
        \/ \E size \in Sizes : ServerTake(size)
        \/ ClientTake
    BY <1>2, Zenon DEF Next, vars, client, server, Call, SendRequest, ClearAndWait,
         SpuriousWakeup, CheckResult, Arrive, Store, Start, Stop, EndRun, BeginReply,
         BeginNote, ServerSend, Finished
  <2> QED
    BY <2>2, <2>3, <2>4, <2>5, <2>6, <2>7
<1>3. TypeInv /\ RequestInv /\ QuietInv /\ CallInv /\ [Next]_vars
        => (TypeInv /\ RequestInv /\ QuietInv /\ CallInv)'
  BY TypeInvStep, RequestStep, QuietStep, CallInvStep
<1>4. Init => RequestInv
  BY RequestInit
<1> QED
  BY <1>1, <1>2, <1>3, <1>4, TypeInit, QuietInit, PTL DEF Spec
=============================================================================
