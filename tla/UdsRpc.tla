------------------------------- MODULE UdsRpc -------------------------------
(***************************************************************************)
(* UnixDomainSocketClient and UnixDomainSocketServer talking to each other *)
(* over their two sockets: the threads that call Client::SendReceive and   *)
(* Client::Ping, the client's response thread (Client::Run), the server's  *)
(* request thread (Server::Run) and the threads that call Server::Notify   *)
(* and Server::Ping.  Messages travel as the datagrams of UdsFraming, one  *)
(* system call a step; both sockets stay open, and the queue of each holds *)
(* Cap datagrams.                                                          *)
(*                                                                         *)
(* Result::operator bool is TRUE on SUCCESS.  Client::Run and              *)
(* privateSendReceive test m_isResponseError as if it were TRUE on error;  *)
(* the model does what the code does.                                      *)
(***************************************************************************)
EXTENDS UdsFraming, Sequences, FiniteSets

CONSTANTS Callers,      \* threads that call Client::SendReceive and Ping
          Notifiers,    \* threads that call Server::Notify and Ping
          Run,          \* the server's request thread
          Nobody,       \* a mutex is free
          None,         \* an empty buffer
          Cap,          \* datagrams the kernel keeps for a receiver
          CallTypes,    \* which of 0 (SendReceive) and 2 (Ping) callers use
          NoteTypes,    \* which of 1 (Notify) and 3 (Ping) notifiers use
          Sizes,        \* lengths of bodies of requests, responses and notes
          ClientLimit,  \* m_limitSize of the client's socket
          ServerLimit,  \* m_limitSize of the server's socket
          MaxCalls,     \* bound: calls of SendReceive and Ping
          MaxNotes,     \* bound: calls of Notify and Server::Ping
          MaxStops      \* bound: calls of Server::Stop

ASSUME RpcAssumption ==
    /\ Callers \cap Notifiers = {} /\ Run \notin Callers \cup Notifiers
    /\ Nobody \notin Callers \cup Notifiers \cup {Run}
    /\ Cap \in Nat \ {0}
    /\ CallTypes \subseteq {0, 2} /\ NoteTypes \subseteq {1, 3}
    /\ Sizes \subseteq Nat /\ ClientLimit \in Nat /\ ServerLimit \in Nat
    /\ MaxCalls \in Nat /\ MaxNotes \in Nat /\ MaxStops \in Nat
    /\ HdrMax >= 1

VARIABLES
    mutexC,     \* Client::m_mutex: its holder or Nobody
    respMutex,  \* Client::m_responseMutex
    mutexS,     \* Server::m_mutex
    tx,         \* for each thread, the datagram its Send transmits next, or End
    toServer,   \* datagrams in the queue of the server's socket
    toClient,   \* datagrams in the queue of the client's socket
    (* the callers *)
    cpc,        \* where each caller is in privateSendReceive
    arrived,    \* m_responseArrived
    isSuccess,  \* m_isResponseError.m_result, TRUE on success
    respHeader, \* m_responseHeader, as the message it came from
    resp,       \* m_response
    (* the client's response thread *)
    crx,        \* progress of its call of Receive
    rpc,        \* where it is in Run
    header,     \* Run's header buffer
    response,   \* Run's response buffer
    (* the server's request thread *)
    running,    \* Start was called, and Stop has not returned since
    stopping,   \* Stop has cancelled the thread
    srx,        \* progress of its call of Receive
    reply,      \* the response to be sent, or None
    (* history *)
    calls,      \* for each request sent or refused, [by, type, status, resp]
    notes,      \* calls of Notify and Ping so far
    stops,      \* calls of Stop so far
    halved,     \* Stop has left half a message in the client's queue
    handled,    \* requests the server has received, in order
    received,   \* messages the client has received, in order
    notified    \* notifications passed to INotifyReceiver, in order

locks   == <<mutexC, respMutex, mutexS>>
members == <<arrived, isSuccess, respHeader, resp>>
client  == <<crx, rpc, header, response, received, notified>>
server  == <<running, stopping, stops, halved, srx, reply, handled>>
vars == <<locks, tx, toServer, toClient, cpc, members, client, server, calls, notes>>

Threads == Callers \cup Notifiers \cup {Run}

\* A message: what it is, its type (the one field of the header) and its size.
Msg(what, n, type, size) ==
    [id |-> <<what, n>>, type |-> type, hlen |-> 1, size |-> size]

Init ==
    /\ mutexC = Nobody /\ respMutex = Nobody /\ mutexS = Nobody
    /\ tx = [t \in Threads |-> End]
    /\ toServer = <<>> /\ toClient = <<>>
    /\ cpc = [c \in Callers |-> "idle"]
    /\ arrived = FALSE /\ isSuccess = TRUE /\ respHeader = None /\ resp = None
    /\ crx = RxIdle /\ rpc = "receive" /\ header = None /\ response = None
    /\ running = FALSE /\ stopping = FALSE /\ srx = RxIdle /\ reply = None
    /\ stops = 0 /\ halved = FALSE
    /\ calls = <<>> /\ notes = 0
    /\ handled = <<>> /\ received = <<>> /\ notified = <<>>

-----------------------------------------------------------------------------
(* A thread calls SendReceive or Ping. *)

\* Takes m_mutex.
Call(c) ==
    /\ cpc[c] = "idle"
    /\ mutexC = Nobody
    /\ Len(calls) < MaxCalls
    /\ mutexC' = c
    /\ cpc' = [cpc EXCEPT ![c] = "locking"]
    /\ UNCHANGED <<respMutex, mutexS, tx, toServer, toClient, members, client,
                   server, calls, notes>>

\* Out of privateSendReceive, both locks released.
LeaveCall(c) ==
    /\ mutexC' = Nobody /\ respMutex' = Nobody
    /\ cpc' = [cpc EXCEPT ![c] = "idle"]

\* Takes m_responseMutex and enters Send; a body too long is refused there.
BeginRequest(c, type, size) ==
    /\ cpc[c] = "locking"
    /\ respMutex = Nobody
    /\ IF WithinLimit(size, ClientLimit)
       THEN /\ respMutex' = c
            /\ cpc' = [cpc EXCEPT ![c] = "sending"]
            /\ tx' = [tx EXCEPT ![c] = PhOf(Msg("request", Len(calls) + 1, type, size))]
            /\ calls' = Append(calls, [by |-> c, type |-> type, status |-> "open", resp |-> None])
            /\ UNCHANGED mutexC
       ELSE /\ LeaveCall(c)
            /\ calls' = Append(calls, [by |-> c, type |-> type, status |-> "error", resp |-> None])
            /\ UNCHANGED tx
    /\ UNCHANGED <<mutexS, toServer, toClient, members, client, server, notes>>

\* A mutant of SendRequest: a full queue loses the datagram, as MSG_DONTWAIT
\* with its error ignored would.
SendRequestNoWait(c) ==
    /\ cpc[c] = "sending"
    /\ toServer' = IF Len(toServer) < Cap THEN Append(toServer, tx[c]) ELSE toServer
    /\ tx' = [tx EXCEPT ![c] = Successor(tx[c])]
    /\ cpc' = IF Successor(tx[c]) = End THEN [cpc EXCEPT ![c] = "sent"] ELSE cpc
    /\ UNCHANGED <<locks, toClient, members, client, server, calls, notes>>

\* One sendto of the request, with both of the client's locks held.
SendRequest(c) ==
    /\ cpc[c] = "sending"
    /\ Len(toServer) < Cap
    /\ toServer' = Append(toServer, tx[c])
    /\ tx' = [tx EXCEPT ![c] = Successor(tx[c])]
    /\ cpc' = IF Successor(tx[c]) = End THEN [cpc EXCEPT ![c] = "sent"] ELSE cpc
    /\ UNCHANGED <<locks, toClient, members, client, server, calls, notes>>

\* A mutant of ClearAndWait: the arrival of the last call is not cleared.
ClearAndWaitStale(c) ==
    /\ cpc[c] = "sent"
    /\ isSuccess' = TRUE /\ respHeader' = None /\ resp' = None
    /\ respMutex' = Nobody
    /\ cpc' = [cpc EXCEPT ![c] = IF arrived THEN "woken" ELSE "waiting"]
    /\ UNCHANGED <<mutexC, mutexS, arrived, tx, toServer, toClient, client, server,
                   calls, notes>>

\* The members are cleared, and the wait releases m_responseMutex.
ClearAndWait(c) ==
    /\ cpc[c] = "sent"
    /\ arrived' = FALSE /\ isSuccess' = TRUE /\ respHeader' = None /\ resp' = None
    /\ respMutex' = Nobody
    /\ cpc' = [cpc EXCEPT ![c] = "waiting"]
    /\ UNCHANGED <<mutexC, mutexS, tx, toServer, toClient, client, server, calls, notes>>

\* The number of the request caller c waits on: its latest.
Current(c) == CHOOSE n \in DOMAIN calls :
                 calls[n].by = c /\ \A k \in DOMAIN calls : calls[k].by = c => k <= n

\* The type a header buffer says.  An empty one is read past its end: the byte
\* there is the terminating zero of a std::string, the next three are anything.
TypesIn(h) == IF h = None THEN {0, 256} ELSE {h.type}

\* A mutant of Resume: the wait is in an "if" in place of the "while".
ResumeUntested(c) ==
    /\ cpc[c] = "woken"
    /\ respMutex = Nobody
    /\ LeaveCall(c)
    /\ calls' = [calls EXCEPT ![Current(c)].status = "ok"]
    /\ UNCHANGED <<mutexS, tx, toServer, toClient, members, client, server, notes>>

\* The wait ends with m_responseMutex taken again; a wake-up without an
\* arrival goes back to sleep.  m_isResponseError that converts to TRUE, which
\* is success, is about to be returned; else what was stored is handed out.
Resume(c) ==
    /\ cpc[c] = "woken"
    /\ respMutex = Nobody
    /\ IF ~arrived
       THEN /\ cpc' = [cpc EXCEPT ![c] = "waiting"]
            /\ UNCHANGED <<mutexC, respMutex, members, calls>>
       ELSE IF isSuccess
       THEN /\ respMutex' = c
            /\ cpc' = [cpc EXCEPT ![c] = "returning"]
            /\ UNCHANGED <<mutexC, members, calls>>
       ELSE \E type \in TypesIn(respHeader) :
            /\ LeaveCall(c)
            /\ calls' = [calls EXCEPT ![Current(c)].status = "ok",
                                      ![Current(c)].resp =
                                         IF type \in {0, 2} THEN resp ELSE None]
            /\ arrived' = FALSE /\ isSuccess' = TRUE
            /\ respHeader' = None /\ resp' = None
    /\ UNCHANGED <<mutexS, tx, toServer, toClient, client, server, notes>>

\* "return m_isResponseError;": the member is read once more, and the response
\* thread writes it without a lock: by now a later Receive may have failed.
Return(c) ==
    /\ cpc[c] = "returning"
    /\ LeaveCall(c)
    /\ calls' = [calls EXCEPT ![Current(c)].status = IF isSuccess THEN "ok" ELSE "failed"]
    /\ UNCHANGED <<mutexS, tx, toServer, toClient, members, client, server, notes>>

\* Wait may return with no signal.
SpuriousWakeup(c) ==
    /\ cpc[c] = "waiting"
    /\ cpc' = [cpc EXCEPT ![c] = "woken"]
    /\ UNCHANGED <<locks, tx, toServer, toClient, members, client, server, calls, notes>>

-----------------------------------------------------------------------------
(* The client's response thread. *)

\* One read of Receive.  When Receive returns, its result goes to the member
\* m_isResponseError without a lock, and on success the buffers are filled.
ClientTake ==
    /\ rpc = "receive"
    /\ toClient # <<>>
    /\ toClient' = Tail(toClient)
    /\ LET d == Head(toClient)
           r == RxNext(crx, d, ClientLimit)
       IN IF Complete(r)
          THEN /\ crx' = RxIdle
               /\ rpc' = "check"
               /\ isSuccess' = TRUE
               /\ header' = r.ph /\ response' = r.ph
               /\ received' = Append(received, r.ph)
          ELSE /\ crx' = r
               /\ rpc' = IF RxFails(crx, d, ClientLimit) THEN "check" ELSE rpc
               /\ isSuccess' = IF RxFails(crx, d, ClientLimit) THEN FALSE ELSE isSuccess
               /\ UNCHANGED <<header, response, received>>
    /\ UNCHANGED <<locks, tx, toServer, cpc, arrived, respHeader, resp, server,
                   calls, notes, notified>>

\* "if (m_isResponseError)": the member is read again, and TRUE is success.
CheckResult ==
    /\ rpc = "check"
    /\ IF isSuccess
       THEN rpc' = "arrive" /\ UNCHANGED <<response, notified>>
       ELSE \E type \in TypesIn(header) :
            IF type \in {0, 2}
            THEN rpc' = "store" /\ UNCHANGED <<response, notified>>
            ELSE /\ rpc' = "receive"
                 /\ notified' = IF type = 1 THEN Append(notified, response) ELSE notified
                 /\ response' = None
    /\ UNCHANGED <<locks, tx, toServer, toClient, cpc, members, crx, header,
                   received, server, calls, notes>>

\* Signal wakes the caller that waits, if one does.
Signal == cpc' = [c \in Callers |-> IF cpc[c] = "waiting" THEN "woken" ELSE cpc[c]]

\* A mutant of Arrive: m_responseMutex is not taken.
ArriveUnlocked ==
    /\ rpc = "arrive"
    /\ arrived' = TRUE
    /\ Signal
    /\ rpc' = "receive"
    /\ UNCHANGED <<locks, tx, toServer, toClient, isSuccess, respHeader, resp, crx,
                   header, response, received, notified, server, calls, notes>>

\* A mutant of Arrive: nobody is signalled.
ArriveSilently ==
    /\ rpc = "arrive"
    /\ respMutex = Nobody
    /\ arrived' = TRUE
    /\ rpc' = "receive"
    /\ UNCHANGED <<locks, tx, toServer, toClient, cpc, isSuccess, respHeader, resp, crx,
                   header, response, received, notified, server, calls, notes>>

\* The branch meant for a receive error: only the arrival is told.
Arrive ==
    /\ rpc = "arrive"
    /\ respMutex = Nobody
    /\ arrived' = TRUE
    /\ Signal
    /\ rpc' = "receive"
    /\ UNCHANGED <<locks, tx, toServer, toClient, isSuccess, respHeader, resp, crx,
                   header, response, received, notified, server, calls, notes>>

\* The branch meant for a response: header and body are stored as well.
Store ==
    /\ rpc = "store"
    /\ respMutex = Nobody
    /\ arrived' = TRUE
    /\ respHeader' = header /\ resp' = response
    /\ Signal
    /\ response' = None
    /\ rpc' = "receive"
    /\ UNCHANGED <<locks, tx, toServer, toClient, isSuccess, crx, header, received,
                   notified, server, calls, notes>>

-----------------------------------------------------------------------------
(* The server. *)

Start ==
    /\ ~running
    /\ running' = TRUE
    /\ UNCHANGED <<locks, tx, toServer, toClient, cpc, members, client, srx, reply,
                   handled, stopping, stops, halved, calls, notes>>

\* Stop clears m_isActive and cancels the thread; it returns with EndRun.
Stop ==
    /\ running /\ ~stopping
    /\ stops < MaxStops
    /\ stopping' = TRUE /\ stops' = stops + 1
    /\ UNCHANGED <<locks, tx, toServer, toClient, cpc, members, client, running, halved,
                   srx, reply, handled, calls, notes>>

\* A mutant of EndRun: the lock is not one of an object on the stack.
EndRunLocked ==
    /\ stopping
    /\ running' = FALSE /\ stopping' = FALSE
    /\ srx' = RxIdle /\ reply' = None
    /\ tx' = [tx EXCEPT ![Run] = End]
    /\ halved' = (halved \/ (tx[Run] # End /\ tx[Run].part # "ph"))
    /\ UNCHANGED <<locks, toServer, toClient, cpc, members, client, stops, handled,
                   calls, notes>>

\* The thread ends in recvfrom, in what the application does, in sendto, or
\* at a test of m_isActive; unwinding its stack unlocks m_mutex.
EndRun ==
    /\ stopping
    /\ running' = FALSE /\ stopping' = FALSE
    /\ srx' = RxIdle /\ reply' = None
    /\ tx' = [tx EXCEPT ![Run] = End]
    /\ mutexS' = IF mutexS = Run THEN Nobody ELSE mutexS
    /\ halved' = (halved \/ (tx[Run] # End /\ tx[Run].part # "ph"))
    /\ UNCHANGED <<mutexC, respMutex, toServer, toClient, cpc, members, client, stops,
                   handled, calls, notes>>

\* One read of Receive.  A whole request is answered by "OK" if it is a ping,
\* else by what IRequestReceiver::Received makes of it; a failed Receive goes
\* to ReceiveError and the thread reads on.
ServerTake(size) ==
    /\ running /\ ~stopping /\ reply = None
    /\ toServer # <<>>
    /\ toServer' = Tail(toServer)
    /\ LET r == RxNext(srx, Head(toServer), ServerLimit)
       IN IF Complete(r)
          THEN /\ srx' = RxIdle
               /\ handled' = Append(handled, r.ph.id[2])
               /\ reply' = Msg("response", r.ph.id[2], r.ph.type,
                               IF r.ph.type = 2 THEN 1 ELSE size)
          ELSE srx' = r /\ UNCHANGED <<handled, reply>>
    /\ UNCHANGED <<locks, tx, toClient, cpc, members, client, running, stopping,
                   stops, halved, calls, notes>>

\* Takes m_mutex and enters Send; a response too long goes to ResponseError.
BeginReply ==
    /\ reply # None /\ tx[Run] = End
    /\ mutexS = Nobody
    /\ IF WithinLimit(reply.size, ServerLimit)
       THEN /\ mutexS' = Run
            /\ tx' = [tx EXCEPT ![Run] = PhOf(reply)]
            /\ UNCHANGED reply
       ELSE reply' = None /\ UNCHANGED <<mutexS, tx>>
    /\ UNCHANGED <<mutexC, respMutex, toServer, toClient, cpc, members, client,
                   running, stopping, stops, halved, srx, handled, calls, notes>>

\* A mutant of BeginNote: m_mutex is not waited for.
BeginNoteUnlocked(n, type, size) ==
    /\ tx[n] = End
    /\ notes < MaxNotes
    /\ notes' = notes + 1
    /\ IF WithinLimit(size, ServerLimit)
       THEN /\ mutexS' = n
            /\ tx' = [tx EXCEPT ![n] = PhOf(Msg("note", notes + 1, type, size))]
       ELSE UNCHANGED <<mutexS, tx>>
    /\ UNCHANGED <<mutexC, respMutex, toServer, toClient, cpc, members, client,
                   server, calls>>

\* Notify or Ping takes m_mutex and enters Send; too long a body is refused.
BeginNote(n, type, size) ==
    /\ mutexS = Nobody
    /\ notes < MaxNotes
    /\ notes' = notes + 1
    /\ IF WithinLimit(size, ServerLimit)
       THEN /\ mutexS' = n
            /\ tx' = [tx EXCEPT ![n] = PhOf(Msg("note", notes + 1, type, size))]
       ELSE UNCHANGED <<mutexS, tx>>
    /\ UNCHANGED <<mutexC, respMutex, toServer, toClient, cpc, members, client,
                   server, calls>>

\* A mutant of ServerSend: a full queue is not waited for.
ServerSendNoWait(t) ==
    /\ tx[t] # End /\ (t = Run => ~stopping)
    /\ toClient' = Append(toClient, tx[t])
    /\ tx' = [tx EXCEPT ![t] = Successor(tx[t])]
    /\ mutexS' = IF Successor(tx[t]) = End THEN Nobody ELSE mutexS
    /\ reply' = IF t = Run /\ Successor(tx[t]) = End THEN None ELSE reply
    /\ UNCHANGED <<mutexC, respMutex, toServer, cpc, members, client, running, stopping,
                   stops, halved, srx, handled, calls, notes>>

\* One sendto towards the client, of a response or of a notification.
ServerSend(t) ==
    /\ tx[t] # End /\ (t = Run => ~stopping)
    /\ Len(toClient) < Cap
    /\ toClient' = Append(toClient, tx[t])
    /\ tx' = [tx EXCEPT ![t] = Successor(tx[t])]
    /\ mutexS' = IF Successor(tx[t]) = End THEN Nobody ELSE mutexS
    /\ reply' = IF t = Run /\ Successor(tx[t]) = End THEN None ELSE reply
    /\ UNCHANGED <<mutexC, respMutex, toServer, cpc, members, client, running, stopping,
                   stops, halved, srx, handled, calls, notes>>

-----------------------------------------------------------------------------
\* All the calls are made and answered.
Finished ==
    /\ Len(calls) = MaxCalls /\ \A c \in Callers : cpc[c] = "idle"
    /\ \A t \in Threads : tx[t] = End
    /\ UNCHANGED vars

Next ==
    \/ \E c \in Callers : Call(c)
    \/ \E c \in Callers, type \in CallTypes, size \in Sizes : BeginRequest(c, type, size)
    \/ \E c \in Callers : SendRequest(c)
    \/ \E c \in Callers : ClearAndWait(c)
    \/ \E c \in Callers : Resume(c)
    \/ \E c \in Callers : Return(c)
    \/ \E c \in Callers : SpuriousWakeup(c)
    \/ ClientTake
    \/ CheckResult
    \/ Arrive
    \/ Store
    \/ Start
    \/ Stop
    \/ EndRun
    \/ \E size \in Sizes : ServerTake(size)
    \/ BeginReply
    \/ \E n \in Notifiers, type \in NoteTypes, size \in Sizes : BeginNote(n, type, size)
    \/ \E t \in Notifiers \cup {Run} : ServerSend(t)
    \/ Finished

\* Every thread inside the library goes on, and the server is started, again
\* after a Stop.  Weak
\* fairness of the mutexes is enough: m_responseMutex is taken only by the
\* holder of m_mutex and by the response thread, and Notify is called finitely
\* often.
Fairness ==
    /\ \A c \in Callers :
          /\ WF_vars(\E type \in CallTypes, size \in Sizes : BeginRequest(c, type, size))
          /\ WF_vars(SendRequest(c))
          /\ WF_vars(ClearAndWait(c))
          /\ WF_vars(Resume(c)) /\ WF_vars(Return(c))
    /\ WF_vars(ClientTake) /\ WF_vars(CheckResult) /\ WF_vars(Arrive) /\ WF_vars(Store)
    /\ WF_vars(Start) /\ WF_vars(EndRun)
    /\ WF_vars(\E size \in Sizes : ServerTake(size))
    /\ WF_vars(BeginReply)
    /\ \A t \in Notifiers \cup {Run} : WF_vars(ServerSend(t))

Spec == Init /\ [][Next]_vars /\ Fairness

-----------------------------------------------------------------------------
(* Properties. *)

\* Type invariant: the control states, and who may be where.
TypeOK ==
    /\ mutexC \in Callers \cup {Nobody} /\ respMutex \in Callers \cup {Nobody}
    /\ mutexS \in Notifiers \cup {Run, Nobody}
    /\ Len(toServer) <= Cap /\ Len(toClient) <= Cap
    /\ cpc \in [Callers -> {"idle", "locking", "sending", "sent", "waiting", "woken",
                       "returning"}]
    /\ rpc \in {"receive", "check", "arrive", "store"}
    /\ \A t \in Threads : tx[t] # End => tx[t].part \in {"ph", "hdr", "frag"}
    /\ arrived \in BOOLEAN /\ isSuccess \in BOOLEAN /\ running \in BOOLEAN
    /\ stopping \in BOOLEAN /\ stops \in 0 .. MaxStops /\ halved \in BOOLEAN
    /\ notes \in 0 .. MaxNotes /\ Len(calls) <= MaxCalls

\* m_mutex of the client spans the whole call, m_responseMutex all of it but
\* the wait, and m_mutex of the server every Send: nobody is inside a Send
\* without the lock, and a lock is not kept by a thread that has left.
LocksAreHeld ==
    /\ \A c \in Callers :
          /\ (mutexC = c)    <=> (cpc[c] # "idle")
          /\ (respMutex = c) <=> (cpc[c] \in {"sending", "sent", "returning"})
          /\ (tx[c] # End)   <=> (cpc[c] = "sending")
    /\ \A t \in Notifiers \cup {Run} : (mutexS = t) <=> (tx[t] # End)

\* No arrival is slept through: while a caller waits on the condition with no
\* wake-up pending, m_responseArrived is not set.
NoLostWakeup == \A c \in Callers : cpc[c] = "waiting" => ~arrived

IsStrictlyIncreasing(q) == \A i, j \in DOMAIN q : i < j => q[i] < q[j]

\* The requests on their way to the server.
RequestsInPipe ==
    {tx[c].msg.id[2] : c \in {k \in Callers : tx[k] # End /\ tx[k].part = "ph"}}
      \cup {toServer[i].msg.id[2] : i \in {k \in DOMAIN toServer : toServer[k].part = "ph"}}
      \cup (IF srx.at = "ph" THEN {} ELSE {srx.ph.id[2]})

\* Requests are handled once at most and in the order of the calls, by whatever
\* thread.  With no limit at the server and no Stop, every request whose Send was
\* not refused is on its way or handled: a caller that was woken too early loses
\* its response, never its request.
RequestsAreHandledOnce ==
    /\ IsStrictlyIncreasing(handled)
    /\ ServerLimit = 0 /\ stops = 0 =>
         LET done == {handled[i] : i \in DOMAIN handled}
         IN /\ done \cap RequestsInPipe = {}
            /\ done \cup RequestsInPipe = {n \in DOMAIN calls : calls[n].status # "error"}

\* Responses and notifications go out through one socket: behind a datagram of
\* the client's queue is the next one of the same message or, after the last, a
\* whole new message, and a message half out is the one its sender is busy with.
\* A Stop in the middle of a response leaves the rest of it out, but what comes
\* behind the cut is a whole new message again.
MessagesDoNotInterleave ==
    LET next(i) == Successor(toClient[i])
    IN \A i \in DOMAIN toClient :
         IF i < Len(toClient)
         THEN \/ toClient[i + 1] = next(i)
              \/ toClient[i + 1].part = "ph" /\ (next(i) = End \/ halved)
         ELSE next(i) # End => halved \/ \E t \in Notifiers \cup {Run} : tx[t] = next(i)

\* With no notifications, a call that succeeds has had its own response come
\* in: its request was handled, and the response read by the response thread.
OkMeansAnswered ==
    \A n \in DOMAIN calls : calls[n].status = "ok" =>
        \E i \in DOMAIN received : received[i].id = <<"response", n>>

\* With no notifications, one call at a time is on the wire: the server has
\* nothing to read before the response to the last request is out.
OneOutstanding ==
    reply # None => toServer = <<>> /\ \A n \in DOMAIN calls : n <= reply.id[2]

\* UnixDomainSocketClient.h:78, "Wait until you receive the response": a call
\* of SendReceive or Ping comes back.
CallReturns == \A c \in Callers : (cpc[c] # "idle") ~> (cpc[c] = "idle")

\* UnixDomainSocketClient.h:77, "response received data": a successful
\* SendReceive hands out the response to its own request.
ResponseIsHandedOut ==
    \A n \in DOMAIN calls : calls[n].status = "ok" /\ calls[n].type = 0 =>
        calls[n].resp # None /\ calls[n].resp.id = <<"response", n>>

-----------------------------------------------------------------------------
(* Refinement: a call is handled when the server has received all of its *)
(* request, and answered when the response thread has all of a response. *)

Abstract == INSTANCE RpcCalls
    WITH outcome  <- [n \in DOMAIN calls |-> calls[n].status],
         handled  <- handled,
         answered <- [i \in DOMAIN received |-> received[i].id[2]]

\* With no notifications, client and server implement RpcCalls: calls follow one
\* another, each is handled once and answered once, with its own response, comes
\* back after that and, when the server has no limit and is not stopped, does
\* come back.
ImplementsRpcCalls == Abstract!Spec
=============================================================================
