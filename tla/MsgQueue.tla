------------------------------ MODULE MsgQueue ------------------------------
(***************************************************************************)
(* MessageQueue: a POSIX message queue shared by threads that send, threads *)
(* that receive (one message, all of them, or to throw them away) and the  *)
(* notification threads that the kernel starts when a message arrives at an *)
(* empty queue.  A notification is good for one arrival only, so           *)
(* signalNotifyFunction registers again and then calls FirstMessageArrived, *)
(* which receives all messages, as the example's does.                     *)
(*                                                                         *)
(* The kernel's part (mq_send, mq_timedreceive, mq_notify) is modelled as  *)
(* its manual describes it; a step is one system call or one access to     *)
(* m_notification, which no lock protects.                                 *)
(***************************************************************************)
EXTENDS Naturals, Sequences, FiniteSets

CONSTANTS Senders,       \* threads that call Send and TimedSend
          Receivers,     \* threads that call the two Receives and Clear
          Cap,           \* mq_maxmsg
          MaxSends,      \* bound: messages sent
          MaxInterrupts, \* bound: system calls ended by a signal
          MaxSets        \* bound: calls of SetNotifyMessage after the first

ASSUME QueueAssumption ==
    /\ Cap \in Nat \ {0} /\ MaxSends \in Nat
    /\ MaxInterrupts \in Nat /\ MaxSets \in Nat
    /\ Receivers \cap (1 .. MaxSends) = {}

\* A notification thread is named by the number of its notification.
Handlers == 1 .. MaxSends
Readers == Receivers \cup Handlers

VARIABLES
    queue,        \* the messages in the queue
    spc,          \* for each sender, "idle", "blocked" in mq_send or "timed"
    msg,          \* for each sender, the message it is sending
    rpc,          \* where each reader is
    batch,        \* for each reader, outMessages
    notification, \* m_notification is not NULL
    registered,   \* mq_notify has this process registered
    upc,          \* where the caller of SetNotifyMessage is
    sends,        \* messages sent so far
    fires,        \* notifications so far
    interrupts,   \* system calls ended by a signal so far
    sets,         \* calls of SetNotifyMessage after the first so far
    wanted,       \* what the last call of SetNotifyMessage sets is a handler
    refused,      \* messages whose send timed out
    taken         \* messages handed to a caller, or cleared on request

user  == <<upc, sets, wanted>>
send  == <<spc, msg, sends, refused>>
notes == <<notification, registered, fires>>
vars  == <<queue, send, rpc, batch, notes, user, interrupts, taken>>

Elems(q) == {q[i] : i \in DOMAIN q}

Init ==
    /\ queue = <<>>
    /\ spc = [s \in Senders |-> "idle"] /\ msg = [s \in Senders |-> 0]
    /\ rpc = [r \in Readers |-> IF r \in Handlers THEN "none" ELSE "idle"]
    /\ batch = [r \in Readers |-> <<>>]
    /\ notification = TRUE /\ registered = TRUE
    /\ upc = "idle" /\ wanted = TRUE
    /\ sends = 0 /\ fires = 0 /\ interrupts = 0 /\ sets = 0
    /\ refused = {} /\ taken = {}

-----------------------------------------------------------------------------
(* Send and TimedSend. *)

\* A message goes to a thread blocked in mq_receive, and nobody is notified; or
\* into the queue, and if it was empty the registration is used up.
Accept(n) ==
    LET waiting == {r \in Receivers : rpc[r] \in {"blocked", "timed"}}
    IN IF waiting # {}
       THEN /\ \E r \in waiting : rpc' = [rpc EXCEPT ![r] = "idle"]
            /\ taken' = taken \cup {n}
            /\ UNCHANGED <<queue, registered, fires>>
       ELSE /\ queue' = Append(queue, n)
            /\ IF queue = <<>> /\ registered
               THEN /\ registered' = FALSE
                    /\ fires' = fires + 1
                    /\ rpc' = [rpc EXCEPT ![fires + 1] = "fired"]
               ELSE UNCHANGED <<rpc, registered, fires>>
            /\ UNCHANGED taken

\* A mutant of Send: a call with a time out is put into a full queue.
SendOverfull(s, how) ==
    /\ spc[s] = "idle"
    /\ sends < MaxSends
    /\ sends' = sends + 1
    /\ IF Len(queue) < Cap \/ how = "timed"
       THEN Accept(sends + 1) /\ UNCHANGED <<spc, msg>>
       ELSE /\ spc' = [spc EXCEPT ![s] = how]
            /\ msg' = [msg EXCEPT ![s] = sends + 1]
            /\ UNCHANGED <<queue, rpc, registered, fires, taken>>
    /\ UNCHANGED <<batch, notification, user, interrupts, refused>>

\* A call of Send or, with a time out, of TimedSend: it blocks on a full queue.
Send(s, how) ==
    /\ spc[s] = "idle"
    /\ sends < MaxSends
    /\ sends' = sends + 1
    /\ IF Len(queue) < Cap
       THEN Accept(sends + 1) /\ UNCHANGED <<spc, msg>>
       ELSE /\ spc' = [spc EXCEPT ![s] = how]
            /\ msg' = [msg EXCEPT ![s] = sends + 1]
            /\ UNCHANGED <<queue, rpc, registered, fires, taken>>
    /\ UNCHANGED <<batch, notification, user, interrupts, refused>>

\* The time is over, or a signal ends the wait.
SendFails(s) ==
    /\ spc[s] # "idle"
    /\ \/ spc[s] = "timed" /\ UNCHANGED interrupts
       \/ interrupts < MaxInterrupts /\ interrupts' = interrupts + 1
    /\ spc' = [spc EXCEPT ![s] = "idle"]
    /\ refused' = refused \cup {msg[s]}
    /\ UNCHANGED <<queue, msg, sends, rpc, batch, notes, user, taken>>

-----------------------------------------------------------------------------
(* Receive, TimedReceive, Receive of all messages, and Clear. *)

\* The kernel removes the oldest message, and puts the message of a sender that
\* is blocked in its place without notifying anybody.
RemoveHead ==
    LET blocked == {s \in Senders : spc[s] # "idle"}
    IN /\ queue # <<>>
       /\ IF blocked = {}
          THEN queue' = Tail(queue) /\ UNCHANGED spc
          ELSE \E s \in blocked : /\ queue' = Append(Tail(queue), msg[s])
                                  /\ spc' = [spc EXCEPT ![s] = "idle"]
       /\ UNCHANGED <<msg, sends, refused>>

\* A call of Receive or, with a time out, of TimedReceive.
Receive(r, how) ==
    /\ rpc[r] = "idle"
    /\ IF queue = <<>>
       THEN /\ rpc' = [rpc EXCEPT ![r] = how]
            /\ UNCHANGED <<queue, send, taken>>
       ELSE /\ RemoveHead
            /\ taken' = taken \cup {Head(queue)}
            /\ UNCHANGED rpc
    /\ UNCHANGED <<batch, notes, user, interrupts>>

ReceiveTimesOut(r) ==
    /\ rpc[r] = "timed"
    /\ rpc' = [rpc EXCEPT ![r] = "idle"]
    /\ UNCHANGED <<queue, send, batch, notes, user, interrupts, taken>>

\* What a reader does when its call is over: a notification thread ends.
Over(r) == IF r \in Handlers THEN "done" ELSE "idle"

\* Receive of all messages, or Clear, asks for the number of messages and
\* returns at once if there is none.
Count(r, how) ==
    /\ \/ r \in Receivers /\ rpc[r] = "idle"
       \/ r \in Handlers /\ rpc[r] = "arrived" /\ how = "draining"
    /\ rpc' = [rpc EXCEPT ![r] = IF queue = <<>> THEN Over(r) ELSE how]
    /\ UNCHANGED <<queue, send, batch, notes, user, interrupts, taken>>

\* A mutant of Drain: one message is taken, with no loop.
DrainOnce(r) ==
    /\ rpc[r] = "draining"
    /\ RemoveHead
    /\ rpc' = [rpc EXCEPT ![r] = Over(r)]
    /\ taken' = taken \cup {Head(queue)}
    /\ UNCHANGED <<batch, notes, user, interrupts>>

\* One message of the loop.
Drain(r) ==
    /\ rpc[r] = "draining"
    /\ RemoveHead
    /\ batch' = [batch EXCEPT ![r] = Append(batch[r], Head(queue))]
    /\ UNCHANGED <<rpc, notes, user, interrupts, taken>>

ClearOne(r) ==
    /\ rpc[r] = "clearing"
    /\ RemoveHead
    /\ taken' = taken \cup {Head(queue)}
    /\ UNCHANGED <<rpc, batch, notes, user, interrupts>>

\* A mutant of FoundEmpty: the time out is an error like any other.
FoundEmptyFails(r) ==
    /\ rpc[r] \in {"draining", "clearing"}
    /\ queue = <<>>
    /\ rpc' = [rpc EXCEPT ![r] = Over(r)]
    /\ batch' = [batch EXCEPT ![r] = <<>>]
    /\ UNCHANGED <<queue, send, notes, user, interrupts, taken>>

\* The loop ends when a receive with the time out of long ago finds nothing.
FoundEmpty(r) ==
    /\ rpc[r] \in {"draining", "clearing"}
    /\ queue = <<>>
    /\ rpc' = [rpc EXCEPT ![r] = Over(r)]
    /\ batch' = [batch EXCEPT ![r] = <<>>]
    /\ taken' = taken \cup Elems(batch[r])
    /\ UNCHANGED <<queue, send, notes, user, interrupts>>

\* A signal ends a receive that has found nothing; it ends a loop of receives,
\* and a Receive of all messages then clears outMessages.
Interrupted(r) ==
    /\ rpc[r] \in {"blocked", "timed", "draining", "clearing"}
    /\ queue = <<>>
    /\ interrupts < MaxInterrupts
    /\ interrupts' = interrupts + 1
    /\ rpc' = [rpc EXCEPT ![r] = Over(r)]
    /\ batch' = [batch EXCEPT ![r] = <<>>]
    /\ UNCHANGED <<queue, send, notes, user, taken>>

-----------------------------------------------------------------------------
(* signalNotifyFunction, on a thread of its own. *)

ReadNotification(h) ==
    /\ rpc[h] = "fired"
    /\ rpc' = [rpc EXCEPT ![h] = IF notification THEN "assign" ELSE "done"]
    /\ UNCHANGED <<queue, send, batch, notes, user, interrupts, taken>>

\* SetNotifyMessage(notification): the member.
Assign(h) ==
    /\ rpc[h] = "assign"
    /\ notification' = TRUE
    /\ rpc' = [rpc EXCEPT ![h] = "assigned"]
    /\ UNCHANGED <<queue, send, batch, registered, fires, user, interrupts, taken>>

\* "if (m_notification == NULL)": the member, that another thread may have set
\* since, or the value assigned, which the build may still have in a register.
TestMember(h) ==
    /\ rpc[h] = "assigned"
    /\ \E value \in {TRUE, notification} :
           rpc' = [rpc EXCEPT ![h] = IF value THEN "register" ELSE "remove"]
    /\ UNCHANGED <<queue, send, batch, notes, user, interrupts, taken>>

\* A mutant of Register: the queue is not registered again.
RegisterNot(h) ==
    /\ rpc[h] \in {"register", "remove"}
    /\ rpc' = [rpc EXCEPT ![h] = "arrived"]
    /\ UNCHANGED <<queue, send, batch, notes, user, interrupts, taken>>

\* mq_notify, which fails without consequences when the process is registered
\* already or, with NULL, takes it off.
Register(h) ==
    /\ rpc[h] \in {"register", "remove"}
    /\ registered' = (rpc[h] = "register")
    /\ rpc' = [rpc EXCEPT ![h] = "arrived"]
    /\ UNCHANGED <<queue, send, batch, notification, fires, user, interrupts, taken>>

-----------------------------------------------------------------------------
(* A thread of the application calls SetNotifyMessage. *)

SetMember(v) ==
    /\ upc = "idle"
    /\ sets < MaxSets
    /\ sets' = sets + 1
    /\ notification' = v /\ wanted' = v
    /\ upc' = "assigned"
    /\ UNCHANGED <<queue, send, rpc, batch, registered, fires, interrupts, taken>>

\* The same test as TestMember.
Test ==
    /\ upc = "assigned"
    /\ wanted' \in {wanted, notification}
    /\ upc' = "notify"
    /\ UNCHANGED <<queue, send, rpc, batch, notes, sets, interrupts, taken>>

Notify ==
    /\ upc = "notify"
    /\ registered' = wanted
    /\ upc' = "idle"
    /\ UNCHANGED <<queue, send, rpc, batch, notification, fires, sets, wanted,
                   interrupts, taken>>

-----------------------------------------------------------------------------
Next ==
    \/ \E s \in Senders : \/ \E how \in {"blocked", "timed"} : Send(s, how)
                          \/ SendFails(s)
    \/ \E r \in Receivers : \/ \E how \in {"blocked", "timed"} : Receive(r, how)
                            \/ ReceiveTimesOut(r)
    \/ \E r \in Readers : \/ \E how \in {"draining", "clearing"} : Count(r, how)
                          \/ Drain(r) \/ ClearOne(r) \/ FoundEmpty(r) \/ Interrupted(r)
    \/ \E h \in Handlers : ReadNotification(h) \/ Assign(h) \/ TestMember(h) \/ Register(h)
    \/ \E v \in BOOLEAN : SetMember(v)
    \/ Test \/ Notify

\* A notification thread runs, and a loop that receives all goes on.
Fairness == \A h \in Handlers :
    /\ WF_vars(ReadNotification(h)) /\ WF_vars(Assign(h)) /\ WF_vars(TestMember(h))
    /\ WF_vars(Register(h)) /\ WF_vars(Count(h, "draining"))
    /\ WF_vars(Drain(h) \/ FoundEmpty(h))

Spec == Init /\ [][Next]_vars /\ Fairness

-----------------------------------------------------------------------------
(* Properties. *)

\* Where a reader may be.
States == {"none", "idle", "blocked", "timed", "fired", "assign", "assigned", "register",
           "remove", "arrived", "draining", "clearing", "done"}

\* Type invariant: the queue keeps to its size, and every thread is somewhere.
TypeOK ==
    /\ queue \in Seq(1 .. sends) /\ Len(queue) <= Cap
    /\ spc \in [Senders -> {"idle", "blocked", "timed"}]
    /\ msg \in [Senders -> 0 .. sends]
    /\ \A s \in Senders : spc[s] # "idle" => msg[s] # 0
    /\ rpc \in [Readers -> States]
    /\ notification \in BOOLEAN /\ registered \in BOOLEAN /\ wanted \in BOOLEAN
    /\ upc \in {"idle", "assigned", "notify"}
    /\ sends \in 0 .. MaxSends /\ fires \in 0 .. sends
    /\ interrupts \in 0 .. MaxInterrupts /\ sets \in 0 .. MaxSets

\* The handler is set once, before the first message, and no call is interrupted.
Undisturbed == sets = 0 /\ interrupts = 0

\* Where a notification thread is that is going to register again.
Waking == {"fired", "assign", "assigned", "register"}

\* A notification thread that has not yet found the queue empty.
Busy(h) == rpc[h] \in Waking \cup {"arrived", "draining"}

\* One that has not yet registered again.
Early(h) == rpc[h] \in Waking

\* Why: while nothing is registered, somebody is about to register and only then
\* looks into the queue.
RegistersBeforeItLooks ==
    Undisturbed => /\ notification /\ upc = "idle"
                   /\ registered \/ \E h \in Handlers : Early(h)
                   /\ \A h \in Handlers : rpc[h] # "remove"

\* A message in the queue is never left without somebody to take it, though
\* only arrivals at an empty queue are told: whatever the senders and the other
\* receivers do, a notification thread is about to receive all there is.
NoMissedArrival == Undisturbed /\ queue # <<>> => \E h \in Handlers : Busy(h)

\* The same as progress: with a handler that receives all, no message stays.
EveryArrivalIsTaken ==
    \A n \in 1 .. MaxSends : (n \in Elems(queue)) ~> (n \notin Elems(queue) \/ ~Undisturbed)

\* The messages that readers have in hand.
InHand == UNION {Elems(batch[r]) : r \in Readers}

\* A message whose send did not time out is in exactly one place: with its
\* sender, in the queue, in the list of one receiver, or handed out.  Only a
\* failed receive of all loses messages, those it had received.
NothingIsLost ==
    LET waiting == {msg[s] : s \in {t \in Senders : spc[t] # "idle"}}
        parts == <<waiting, Elems(queue), InHand, taken, refused>>
    IN /\ \A i, j \in DOMAIN parts : i # j => parts[i] \cap parts[j] = {}
       /\ \A r, q \in Readers : r # q => Elems(batch[r]) \cap Elems(batch[q]) = {}
       /\ interrupts = 0 => UNION {parts[i] : i \in DOMAIN parts} = 1 .. sends
=============================================================================
