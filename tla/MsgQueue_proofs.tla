--------------------------- MODULE MsgQueue_proofs --------------------------
(***************************************************************************)
(* Proofs about MsgQueue, for every number of senders, receivers, messages *)
(* and interruptions: its type invariant, that no arrival is missed, and   *)
(* that every message sent is in one place, neither lost nor doubled.      *)
(***************************************************************************)
EXTENDS MsgQueue, TLAPS

\* A sequence over a set is one over every larger set.
LEMMA LargerSeq ==
    ASSUME NEW S, NEW T, S \subseteq T, NEW q \in Seq(S)
    PROVE  q \in Seq(T)
  OBVIOUS

\* What the kernel's removal of the oldest message leaves is a queue again.
LEMMA RemovedQueue ==
    ASSUME TypeOK, RemoveHead
    PROVE  /\ queue' \in Seq(1 .. sends) /\ Len(queue') <= Cap
           /\ spc' \in [Senders -> {"idle", "blocked", "timed"}]
           /\ msg' = msg /\ sends' = sends
           /\ \A s \in Senders : spc'[s] # "idle" => msg[s] # 0
<1>1. queue # <<>> /\ Tail(queue) \in Seq(1 .. sends) /\ Len(Tail(queue)) = Len(queue) - 1
         /\ Len(queue) \in Nat /\ Len(queue) # 0
  BY DEF TypeOK, RemoveHead
<1>2. CASE \A s \in Senders : spc[s] = "idle"
  <2>1. queue' = Tail(queue) /\ spc' = spc /\ msg' = msg /\ sends' = sends
    BY <1>2 DEF RemoveHead
  <2> QED
    BY <2>1, <1>1, QueueAssumption DEF TypeOK
<1>3. CASE ~ \A s \in Senders : spc[s] = "idle"
  <2>1. PICK s \in Senders : /\ spc[s] # "idle"
                             /\ queue' = Append(Tail(queue), msg[s])
                             /\ spc' = [spc EXCEPT ![s] = "idle"]
    BY <1>3 DEF RemoveHead
  <2>2. msg[s] \in 1 .. sends
    BY <2>1 DEF TypeOK
  <2>3. queue' \in Seq(1 .. sends) /\ Len(queue') = Len(queue)
    BY <2>1, <2>2, <1>1
  <2>4. msg' = msg /\ sends' = sends
    BY DEF RemoveHead
  <2> QED
    BY <2>1, <2>3, <2>4 DEF TypeOK
<1> QED
  BY <1>2, <1>3

\* A message that is accepted while there is room leaves a queue again.
LEMMA AcceptedQueue ==
    ASSUME TypeOK, sends < MaxSends, sends' = sends + 1, Len(queue) < Cap,
           Accept(sends + 1)
    PROVE  /\ queue' \in Seq(1 .. sends') /\ Len(queue') <= Cap
           /\ rpc' \in [Readers -> States]
           /\ registered' \in BOOLEAN /\ fires' \in 0 .. sends'
<1>1. sends \in Nat /\ fires \in 0 .. sends /\ sends + 1 \in 1 .. sends'
         /\ fires + 1 \in Handlers /\ Handlers \subseteq Readers /\ Receivers \subseteq Readers
  BY QueueAssumption DEF TypeOK, Handlers, Readers
<1>2. queue \in Seq(1 .. sends') /\ Len(queue) \in Nat
  <2>1. 1 .. sends \subseteq 1 .. sends'
    BY <1>1
  <2> QED
    BY <2>1 DEF TypeOK
<1>3. Append(queue, sends + 1) \in Seq(1 .. sends') /\ Len(Append(queue, sends + 1)) = Len(queue) + 1
  BY <1>1, <1>2
<1>4. rpc \in [Readers -> States] /\ registered \in BOOLEAN
  BY DEF TypeOK
<1>5. CASE \E r \in Receivers : rpc' = [rpc EXCEPT ![r] = "idle"] /\ UNCHANGED <<queue, registered, fires>>
  <2>1. queue' = queue /\ registered' = registered /\ fires' = fires
    BY <1>5
  <2>2. rpc' \in [Readers -> States]
    BY <1>5, <1>4, <1>1 DEF States
  <2>3. fires' \in 0 .. sends' /\ Len(queue') <= Cap
    BY <2>1, <1>1, <1>2, QueueAssumption
  <2> QED
    BY <2>1, <2>2, <2>3, <1>2, <1>4, Zenon
<1>6. CASE /\ queue' = Append(queue, sends + 1)
           /\ \/ registered' = FALSE /\ fires' = fires + 1 /\ rpc' = [rpc EXCEPT ![fires + 1] = "fired"]
              \/ UNCHANGED <<rpc, registered, fires>>
  <2>1. queue' \in Seq(1 .. sends') /\ Len(queue') <= Cap
    BY <1>6, <1>3, <1>2, QueueAssumption
  <2>2. rpc' \in [Readers -> States]
    BY <1>6, <1>1, <1>4 DEF States
  <2>3. registered' \in BOOLEAN
    BY <1>6, <1>4, Zenon
  <2>4. fires' = fires \/ fires' = fires + 1
    BY <1>6, Zenon
  <2>5. fires' \in 0 .. sends'
    BY <2>4, <1>1
  <2> QED
    BY <2>1, <2>2, <2>3, <2>5
<1> QED
  BY <1>5, <1>6 DEF Accept

\* Every step keeps the type invariant.
LEMMA TypeStep ==
    ASSUME TypeOK, [Next]_vars
    PROVE  TypeOK'
<1>1. ASSUME NEW s \in Senders, NEW how \in {"blocked", "timed"}, Send(s, how)
      PROVE  TypeOK'
  <2>1. sends \in Nat /\ sends' = sends + 1 /\ sends' \in 0 .. MaxSends
           /\ sends < MaxSends /\ Len(queue) \in Nat
    BY <1>1, QueueAssumption DEF Send, TypeOK
  <2>2. 0 .. sends \subseteq 0 .. sends' /\ 1 .. sends \subseteq 1 .. sends'
    BY <2>1
  <2>3. CASE Len(queue) < Cap
    <3>1. Accept(sends + 1) /\ UNCHANGED <<spc, msg, batch, notification, user, interrupts, refused>>
      BY <1>1, <2>3 DEF Send
    <3>2. /\ queue' \in Seq(1 .. sends') /\ Len(queue') <= Cap
          /\ rpc' \in [Readers -> States]
          /\ registered' \in BOOLEAN /\ fires' \in 0 .. sends'
      BY <3>1, <2>1, <2>3, AcceptedQueue
    <3> QED
      BY <2>1, <2>2, <3>1, <3>2 DEF TypeOK, user
  <2>4. CASE ~(Len(queue) < Cap)
    <3>1. /\ spc' = [spc EXCEPT ![s] = how] /\ msg' = [msg EXCEPT ![s] = sends + 1]
          /\ UNCHANGED <<queue, rpc, registered, fires, notification, user, interrupts>>
      BY <1>1, <2>4 DEF Send
    <3>2. queue' \in Seq(1 .. sends')
      <4>1. queue \in Seq(1 .. sends) /\ 1 .. sends \subseteq 1 .. sends' /\ queue' = queue
        BY <3>1, <2>2 DEF TypeOK
      <4> QED
        BY <4>1, LargerSeq, Zenon
    <3>3. msg' \in [Senders -> 0 .. sends'] /\ spc' \in [Senders -> {"idle", "blocked", "timed"}]
      BY <3>1, <2>1, <2>2 DEF TypeOK
    <3>4. \A t \in Senders : spc'[t] # "idle" => msg'[t] # 0
      BY <3>1, <2>1 DEF TypeOK
    <3> QED
      BY <2>1, <3>1, <3>2, <3>3, <3>4 DEF TypeOK, user
  <2> QED
    BY <2>3, <2>4
<1>2. ASSUME NEW s \in Senders, SendFails(s)
      PROVE  TypeOK'
  BY <1>2, QueueAssumption DEF SendFails, TypeOK, user, notes
<1>3. ASSUME RemoveHead, UNCHANGED <<notes, user, interrupts>>,
             rpc' \in [Readers -> States]
      PROVE  TypeOK'
  BY <1>3, RemovedQueue DEF TypeOK, user, notes
<1>4. ASSUME NEW r \in Receivers, NEW how \in {"blocked", "timed"}, Receive(r, how)
      PROVE  TypeOK'
  <2>1. CASE queue = <<>>
    BY <1>4, <2>1 DEF Receive, TypeOK, States, user, notes, send, Readers
  <2>2. CASE queue # <<>>
    BY <1>4, <2>2, <1>3 DEF Receive, TypeOK
  <2> QED
    BY <2>1, <2>2
<1>5. ASSUME NEW r \in Receivers, ReceiveTimesOut(r)
      PROVE  TypeOK'
  BY <1>5 DEF ReceiveTimesOut, TypeOK, States, user, notes, send
<1>6. ASSUME NEW r \in Readers, NEW how \in {"draining", "clearing"}, Count(r, how)
      PROVE  TypeOK'
  BY <1>6 DEF Count, Over, TypeOK, States, user, notes, send
<1>7. ASSUME NEW r \in Readers, Drain(r) \/ ClearOne(r)
      PROVE  TypeOK'
  BY <1>7, <1>3 DEF Drain, ClearOne, TypeOK
<1>8. ASSUME NEW r \in Readers, FoundEmpty(r)
      PROVE  TypeOK'
  BY <1>8 DEF FoundEmpty, Over, TypeOK, States, user, notes, send
<1>9. ASSUME NEW r \in Readers, Interrupted(r)
      PROVE  TypeOK'
  BY <1>9, QueueAssumption DEF Interrupted, Over, TypeOK, States, user, notes, send
<1>10. ASSUME NEW h \in Handlers, ReadNotification(h) \/ Assign(h) \/ TestMember(h) \/ Register(h)
       PROVE  TypeOK'
  BY <1>10 DEF ReadNotification, Assign, TestMember, Register, TypeOK, States, user, notes, send
<1>11. ASSUME NEW v \in BOOLEAN, SetMember(v)
       PROVE  TypeOK'
  BY <1>11, QueueAssumption DEF SetMember, TypeOK, send
<1>12. ASSUME Test \/ Notify
       PROVE  TypeOK'
  BY <1>12 DEF Test, Notify, TypeOK, send, notes
<1>13. ASSUME UNCHANGED vars
       PROVE  TypeOK'
  BY <1>13 DEF vars, send, user, notes, TypeOK
<1> QED
  BY <1>1, <1>2, <1>4, <1>5, <1>6, <1>7, <1>8, <1>9, <1>10, <1>11, <1>12, <1>13 DEF Next

\* Every thread is somewhere and the queue keeps to its size, for every number
\* of threads and messages.
THEOREM TypeCorrect == Spec => []TypeOK
<1>1. Init => TypeOK
  BY QueueAssumption DEF Init, TypeOK, States, Readers, Handlers
<1>2. TypeOK /\ [Next]_vars => TypeOK'
  BY TypeStep
<1> QED
  BY <1>1, <1>2, PTL DEF Spec

-----------------------------------------------------------------------------
(* No arrival is missed. *)

ArrivalInv == TypeOK /\ RegistersBeforeItLooks /\ NoMissedArrival

\* A reader that is not a notification thread is none of them.
LEMMA HandlersAreNotReceivers ==
    /\ \A r \in Receivers : r \notin Handlers
    /\ Handlers \subseteq Readers /\ Receivers \subseteq Readers
  BY QueueAssumption DEF Handlers, Readers

\* While the notification threads stay where they are, and the registration and
\* the handler as they are, taking messages out of the queue is harmless.
LEMMA HandlersStay ==
    ASSUME ArrivalInv, Undisturbed' => Undisturbed, UNCHANGED <<notes, upc>>,
           \A h \in Handlers : rpc'[h] = rpc[h],
           queue = <<>> => queue' = <<>>
    PROVE  (RegistersBeforeItLooks /\ NoMissedArrival)'
  BY DEF ArrivalInv, RegistersBeforeItLooks, NoMissedArrival, Busy, Early, Waking, notes

\* An arrival at an empty queue starts a notification thread or finds one that
\* is about to register; at any other queue it finds one that is busy.
LEMMA ArrivalStep ==
    ASSUME ArrivalInv, sends < MaxSends, Accept(sends + 1),
           UNCHANGED <<notification, upc, sets, interrupts>>
    PROVE  (RegistersBeforeItLooks /\ NoMissedArrival)'
<1>1. /\ rpc \in [Readers -> States] /\ fires + 1 \in Handlers
      /\ (Undisturbed' <=> Undisturbed) /\ notification' = notification /\ upc' = upc
      /\ RegistersBeforeItLooks /\ NoMissedArrival
  BY QueueAssumption DEF ArrivalInv, TypeOK, Handlers, Undisturbed
<1>2. CASE \E r \in Receivers : rpc' = [rpc EXCEPT ![r] = "idle"] /\ UNCHANGED <<queue, registered, fires>>
  BY <1>1, <1>2, HandlersAreNotReceivers
     DEF RegistersBeforeItLooks, NoMissedArrival, Busy, Early, Waking
<1>3. CASE registered' = FALSE /\ rpc' = [rpc EXCEPT ![fires + 1] = "fired"]
  <2>1. rpc'[fires + 1] = "fired" /\ \A h \in Handlers \ {fires + 1} : rpc'[h] = rpc[h]
    BY <1>1, <1>3, HandlersAreNotReceivers
  <2> QED
    BY <1>1, <2>1 DEF RegistersBeforeItLooks, NoMissedArrival, Busy, Early, Waking
<1>4. CASE UNCHANGED <<rpc, registered, fires>> /\ ~(queue = <<>> /\ registered)
  BY <1>1, <1>4 DEF RegistersBeforeItLooks, NoMissedArrival, Busy, Early, Waking
<1> QED
  BY <1>2, <1>3, <1>4 DEF Accept

\* Every step keeps a message in the queue in somebody's care.
LEMMA ArrivalInvStep ==
    ASSUME ArrivalInv, [Next]_vars
    PROVE  ArrivalInv'
<1> USE DEF user, notes, send
<1>1. TypeOK'
  BY TypeStep DEF ArrivalInv
<1>2. rpc \in [Readers -> States] /\ RegistersBeforeItLooks /\ NoMissedArrival
         /\ interrupts \in Nat /\ sets \in Nat
  BY QueueAssumption DEF ArrivalInv, TypeOK
<1> SUFFICES (RegistersBeforeItLooks /\ NoMissedArrival)'
  BY <1>1 DEF ArrivalInv
<1>3. ASSUME NEW s \in Senders, NEW how \in {"blocked", "timed"}, Send(s, how)
      PROVE  (RegistersBeforeItLooks /\ NoMissedArrival)'
  <2>1. CASE Len(queue) < Cap
    BY <1>3, <2>1, ArrivalStep DEF Send
  <2>2. CASE ~(Len(queue) < Cap)
    BY <1>3, <2>2, HandlersStay DEF Send, Undisturbed
  <2> QED
    BY <2>1, <2>2
<1>4. ASSUME NEW s \in Senders, SendFails(s)
      PROVE  (RegistersBeforeItLooks /\ NoMissedArrival)'
  <2>1. Undisturbed' => Undisturbed
    BY <1>4, <1>2 DEF SendFails, Undisturbed
  <2> QED
    BY <1>4, <2>1, HandlersStay DEF SendFails
<1>5. ASSUME NEW r \in Receivers, NEW how \in {"blocked", "timed"}, Receive(r, how)
      PROVE  (RegistersBeforeItLooks /\ NoMissedArrival)'
  <2>1. \A h \in Handlers : rpc'[h] = rpc[h]
    BY <1>5, <1>2, HandlersAreNotReceivers DEF Receive
  <2> QED
    BY <1>5, <2>1, HandlersStay DEF Receive, RemoveHead, Undisturbed
<1>6. ASSUME NEW r \in Receivers, ReceiveTimesOut(r)
      PROVE  (RegistersBeforeItLooks /\ NoMissedArrival)'
  <2>1. \A h \in Handlers : rpc'[h] = rpc[h]
    BY <1>6, <1>2, HandlersAreNotReceivers DEF ReceiveTimesOut
  <2> QED
    BY <1>6, <2>1, HandlersStay DEF ReceiveTimesOut, Undisturbed
<1>7. ASSUME NEW r \in Readers, NEW how \in {"draining", "clearing"}, Count(r, how)
      PROVE  (RegistersBeforeItLooks /\ NoMissedArrival)'
  <2>1. rpc' = [rpc EXCEPT ![r] = IF queue = <<>> THEN Over(r) ELSE how]
           /\ UNCHANGED <<queue, notes, upc, sets, interrupts>>
    BY <1>7 DEF Count
  <2>2. CASE r \in Receivers /\ rpc[r] = "idle"
    <3>1. \A h \in Handlers : rpc'[h] = rpc[h]
      BY <2>1, <2>2, <1>2, HandlersAreNotReceivers
    <3> QED
      BY <2>1, <3>1, HandlersStay DEF Undisturbed
  <2>3. CASE r \in Handlers /\ rpc[r] = "arrived" /\ how = "draining"
    <3>1. queue # <<>> => Busy(r)'
      BY <2>1, <2>3, <1>2 DEF Busy, Waking
    <3>2. \A h \in Handlers : (Early(h) => Early(h)') /\ (rpc[h] # "remove" => rpc'[h] # "remove")
      BY <2>1, <2>3, <1>2 DEF Early, Waking, Over
    <3>3. RegistersBeforeItLooks'
      BY <2>1, <3>2, <1>2 DEF RegistersBeforeItLooks, Undisturbed
    <3> QED
      BY <2>1, <2>3, <3>1, <3>3 DEF NoMissedArrival
  <2> QED
    BY <1>7, <2>2, <2>3 DEF Count
<1>8. ASSUME NEW r \in Readers, Drain(r) \/ ClearOne(r)
      PROVE  (RegistersBeforeItLooks /\ NoMissedArrival)'
  BY <1>8, HandlersStay DEF Drain, ClearOne, RemoveHead, Undisturbed
<1>9. ASSUME NEW r \in Readers, FoundEmpty(r)
      PROVE  (RegistersBeforeItLooks /\ NoMissedArrival)'
  <2>1. \A h \in Handlers : (Early(h) => Early(h)') /\ (rpc[h] # "remove" => rpc'[h] # "remove")
    BY <1>9, <1>2, HandlersAreNotReceivers DEF FoundEmpty, Early, Waking, Over
  <2> QED
    BY <1>9, <2>1, <1>2 DEF FoundEmpty, RegistersBeforeItLooks, NoMissedArrival, Undisturbed
<1>10. ASSUME NEW r \in Readers, Interrupted(r)
       PROVE  (RegistersBeforeItLooks /\ NoMissedArrival)'
  <2>1. ~Undisturbed'
    BY <1>10, <1>2 DEF Interrupted, Undisturbed
  <2> QED
    BY <2>1 DEF RegistersBeforeItLooks, NoMissedArrival
<1>11. ASSUME NEW h \in Handlers, ReadNotification(h) \/ Assign(h) \/ TestMember(h)
       PROVE  (RegistersBeforeItLooks /\ NoMissedArrival)'
  <2>1. Undisturbed => Early(h)' /\ notification' /\ rpc'[h] # "remove"
    BY <1>11, <1>2, HandlersAreNotReceivers
       DEF ReadNotification, Assign, TestMember, Early, Waking, RegistersBeforeItLooks
  <2>2. /\ \A g \in Handlers \ {h} : rpc'[g] = rpc[g]
        /\ UNCHANGED <<queue, registered, upc, sets, interrupts>>
    BY <1>11, <1>2, HandlersAreNotReceivers DEF ReadNotification, Assign, TestMember
  <2> QED
    BY <2>1, <2>2, <1>2
       DEF RegistersBeforeItLooks, NoMissedArrival, Undisturbed, Early, Busy, Waking
<1>12. ASSUME NEW h \in Handlers, Register(h)
       PROVE  (RegistersBeforeItLooks /\ NoMissedArrival)'
  <2>1. Busy(h)' /\ (Undisturbed => registered')
    BY <1>12, <1>2, HandlersAreNotReceivers DEF Register, Busy, RegistersBeforeItLooks
  <2> QED
    BY <1>12, <2>1, <1>2 DEF Register, RegistersBeforeItLooks, NoMissedArrival, Undisturbed
<1>13. ASSUME NEW v \in BOOLEAN, SetMember(v)
       PROVE  (RegistersBeforeItLooks /\ NoMissedArrival)'
  <2>1. ~Undisturbed'
    BY <1>13, <1>2 DEF SetMember, Undisturbed
  <2> QED
    BY <2>1 DEF RegistersBeforeItLooks, NoMissedArrival
<1>14. ASSUME Test \/ Notify
       PROVE  (RegistersBeforeItLooks /\ NoMissedArrival)'
  BY <1>14, <1>2 DEF Test, Notify, RegistersBeforeItLooks, NoMissedArrival, Undisturbed
<1>15. ASSUME UNCHANGED vars
       PROVE  (RegistersBeforeItLooks /\ NoMissedArrival)'
  BY <1>15, <1>2 DEF vars, RegistersBeforeItLooks, NoMissedArrival, Undisturbed, Busy, Early, Waking
<1> QED
  BY <1>3, <1>4, <1>5, <1>6, <1>7, <1>8, <1>9, <1>10, <1>11, <1>12, <1>13, <1>14, <1>15
     DEF Next

LEMMA ArrivalInvariance == Spec => []ArrivalInv
<1>1. Init => ArrivalInv
  BY QueueAssumption
     DEF Init, ArrivalInv, TypeOK, States, Readers, Handlers, RegistersBeforeItLooks, NoMissedArrival
<1>2. ArrivalInv /\ [Next]_vars => ArrivalInv'
  BY ArrivalInvStep
<1> QED
  BY <1>1, <1>2, PTL DEF Spec

\* While the handler stays set and no receive fails, a message in the queue has a
\* notification thread that is still to receive all there is, whatever the other
\* receivers do and however many senders there are.
THEOREM NoArrivalIsMissed == Spec => []NoMissedArrival
<1>1. ArrivalInv => NoMissedArrival
  BY DEF ArrivalInv
<1> QED
  BY <1>1, ArrivalInvariance, PTL

-----------------------------------------------------------------------------
(* Nothing is lost. *)

Waiting == {msg[s] : s \in {t \in Senders : spc[t] # "idle"}}

NoDuplicates(q) == \A i, j \in DOMAIN q : q[i] = q[j] => i = j

\* No message is in two of the sets.
Apart(W, Q, H, T, R) ==
    /\ \A n \in W : n \notin Q /\ n \notin H /\ n \notin T /\ n \notin R
    /\ \A n \in Q : n \notin H /\ n \notin T /\ n \notin R
    /\ \A n \in H : n \notin T /\ n \notin R
    /\ \A n \in T : n \notin R

\* Nor twice with the senders, or in the lists.
SendersApart ==
    \A s, t \in Senders : spc[s] # "idle" /\ spc[t] # "idle" /\ msg[s] = msg[t] => s = t

ListsApart ==
    /\ batch \in [Readers -> Seq(1 .. sends)]
    /\ \A r, q \in Readers : r # q => \A n \in Elems(batch[r]) : n \notin Elems(batch[q])

Somewhere(n) ==
    n \in Waiting \/ n \in Elems(queue) \/ n \in InHand \/ n \in taken \/ n \in refused

AllAreSomewhere ==
    /\ taken \subseteq 1 .. sends /\ refused \subseteq 1 .. sends
    /\ interrupts = 0 => \A n \in 1 .. sends : Somewhere(n)

PlacesInv ==
    /\ TypeOK /\ NoDuplicates(queue) /\ SendersApart /\ ListsApart /\ AllAreSomewhere
    /\ Apart(Waiting, Elems(queue), InHand, taken, refused)

LEMMA ElemsIs ==
    ASSUME NEW S, NEW q \in Seq(S), NEW x
    PROVE  /\ Elems(q) \subseteq S /\ Elems(<<>>) = {}
           /\ Elems(Append(q, x)) = Elems(q) \cup {x}
           /\ NoDuplicates(q) /\ x \notin Elems(q) => NoDuplicates(Append(q, x))
<1> DEFINE t == Append(q, x)
<1>1. /\ DOMAIN q = 1 .. Len(q) /\ DOMAIN t = 1 .. Len(q) + 1 /\ Len(q) \in Nat
      /\ t[Len(q) + 1] = x /\ \A i \in 1 .. Len(q) : t[i] = q[i]
      /\ \A i \in 1 .. Len(q) : q[i] \in S
  OBVIOUS
<1> HIDE DEF t
<1>2. \A i \in 1 .. Len(q) + 1 : i \in 1 .. Len(q) \/ i = Len(q) + 1
  BY <1>1
<1>3. 1 .. Len(q) \subseteq 1 .. Len(q) + 1 /\ Len(q) + 1 \in 1 .. Len(q) + 1
  BY <1>1
<1>4. Elems(t) = Elems(q) \cup {x}
  BY <1>1, <1>2, <1>3 DEF Elems
<1>5. NoDuplicates(q) /\ x \notin Elems(q) => NoDuplicates(t)
  BY <1>1, <1>2 DEF Elems, NoDuplicates
<1>6. Elems(<<>>) = {}
  BY DEF Elems
<1>7. Elems(q) \subseteq S
  BY <1>1 DEF Elems
<1> QED
  BY <1>4, <1>5, <1>6, <1>7 DEF t

LEMMA ElemsOfTail ==
    ASSUME NEW S, NEW q \in Seq(S), q # <<>>, NoDuplicates(q)
    PROVE  /\ Tail(q) \in Seq(S) /\ NoDuplicates(Tail(q)) /\ Head(q) \in Elems(q)
           /\ Elems(Tail(q)) = Elems(q) \ {Head(q)}
<1> DEFINE t == Tail(q)
<1>1. /\ DOMAIN q = 1 .. Len(q) /\ DOMAIN t = 1 .. Len(q) - 1 /\ Len(q) \in Nat \ {0}
      /\ Head(q) = q[1] /\ \A i \in 1 .. Len(q) - 1 : t[i] = q[i + 1]
      /\ t \in Seq(S)
  OBVIOUS
<1> HIDE DEF t
<1>2. 1 \in 1 .. Len(q) /\ \A i \in 1 .. Len(q) - 1 : i + 1 \in 1 .. Len(q) /\ i + 1 # 1
  BY <1>1
<1>3. \A i \in 1 .. Len(q) : i # 1 => i - 1 \in 1 .. Len(q) - 1 /\ t[i - 1] = q[i]
  BY <1>1
<1>4. NoDuplicates(t)
  <2> SUFFICES ASSUME NEW i \in 1 .. Len(q) - 1, NEW j \in 1 .. Len(q) - 1, t[i] = t[j]
               PROVE  i = j
    BY <1>1 DEF NoDuplicates
  <2>1. i + 1 = j + 1
    BY <1>1, <1>2 DEF NoDuplicates
  <2> QED
    BY <2>1
<1>5. \A i \in DOMAIN t : t[i] \in Elems(q) /\ t[i] # Head(q)
  <2> SUFFICES ASSUME NEW i \in 1 .. Len(q) - 1
               PROVE  t[i] \in Elems(q) /\ t[i] # Head(q)
    BY <1>1
  <2>1. t[i] = q[i + 1] /\ i + 1 \in DOMAIN q /\ 1 \in DOMAIN q /\ i + 1 # 1
    BY <1>1, <1>2
  <2> QED
    BY <1>1, <2>1 DEF NoDuplicates, Elems
<1>6. \A i \in DOMAIN q : q[i] = Head(q) \/ q[i] \in Elems(t)
  BY <1>1, <1>3 DEF Elems
<1>7. Elems(t) = Elems(q) \ {Head(q)}
  BY <1>5, <1>6 DEF Elems
<1> QED
  BY <1>1, <1>2, <1>4, <1>7 DEF t, Elems

\* Everything is among the messages sent.
LEMMA AllAreSent ==
    ASSUME PlacesInv
    PROVE  /\ \A n \in Waiting : n \in 1 .. sends
           /\ \A n \in Elems(queue) : n \in 1 .. sends
           /\ \A n \in InHand : n \in 1 .. sends
           /\ \A n \in taken : n \in 1 .. sends
           /\ \A n \in refused : n \in 1 .. sends
           /\ sends \in Nat /\ sends + 1 \notin 1 .. sends
<1>1. sends \in Nat /\ sends + 1 \notin 1 .. sends
  BY QueueAssumption DEF PlacesInv, TypeOK
<1>2. \A n \in Waiting : n \in 1 .. sends
  BY <1>1 DEF PlacesInv, TypeOK, Waiting
<1>3. \A n \in Elems(queue) : n \in 1 .. sends
  BY ElemsIs DEF PlacesInv, TypeOK
<1>4. \A n \in InHand : n \in 1 .. sends
  <2> SUFFICES ASSUME NEW r \in Readers, NEW n \in Elems(batch[r]) PROVE n \in 1 .. sends
    BY DEF InHand
  <2>1. batch[r] \in Seq(1 .. sends)
    BY DEF PlacesInv, ListsApart
  <2> QED
    BY <2>1, ElemsIs
<1>5. taken \subseteq 1 .. sends /\ refused \subseteq 1 .. sends
  BY DEF PlacesInv, AllAreSomewhere
<1> QED
  BY <1>1, <1>2, <1>3, <1>4, <1>5

\* A sender begins to wait.
LEMMA SenderWaits ==
    ASSUME PlacesInv, NEW s \in Senders, spc[s] = "idle", NEW how, how # "idle",
           NEW n, n \notin Waiting,
           spc' = [spc EXCEPT ![s] = how], msg' = [msg EXCEPT ![s] = n]
    PROVE  SendersApart' /\ Waiting' = Waiting \cup {n}
<1>1. /\ \A t \in Senders : t # s => spc'[t] = spc[t] /\ msg'[t] = msg[t]
      /\ spc'[s] = how /\ msg'[s] = n
  BY DEF PlacesInv, TypeOK
<1>2. \A t \in Senders : spc[t] # "idle" => msg[t] # n
  BY DEF Waiting
<1>3. SendersApart'
  BY <1>1, <1>2 DEF PlacesInv, SendersApart
<1>4. \A t \in Senders : spc'[t] # "idle" => msg'[t] = n \/ msg'[t] \in Waiting
  BY <1>1 DEF Waiting
<1>5. n \in Waiting' /\ \A t \in Senders : spc[t] # "idle" => msg[t] \in Waiting'
  BY <1>1 DEF Waiting
<1>6. Waiting' = Waiting \cup {n}
  <2>1. \A k \in Waiting' : k = n \/ k \in Waiting
    BY <1>4 DEF Waiting
  <2>2. \A k \in Waiting : k \in Waiting'
    BY <1>5 DEF Waiting
  <2> QED
    BY <1>5, <2>1, <2>2
<1> QED
  BY <1>3, <1>6

\* A sender is done.
LEMMA SenderGoes ==
    ASSUME PlacesInv, NEW s \in Senders, spc[s] # "idle",
           spc' = [spc EXCEPT ![s] = "idle"], msg' = msg
    PROVE  SendersApart' /\ msg[s] \in Waiting /\ Waiting' = Waiting \ {msg[s]}
<1>1. /\ \A t \in Senders : t # s => spc'[t] = spc[t] /\ msg'[t] = msg[t]
      /\ spc'[s] = "idle"
      /\ \A t \in Senders : t # s /\ spc[t] # "idle" => msg[t] # msg[s]
  BY DEF PlacesInv, TypeOK, SendersApart
<1>2. SendersApart'
  BY <1>1, ZenonT(60) DEF PlacesInv, SendersApart
<1>3. \A t \in Senders : spc'[t] # "idle" => msg'[t] # msg[s] /\ msg'[t] \in Waiting
  <2> SUFFICES ASSUME NEW t \in Senders, spc'[t] # "idle"
               PROVE  msg'[t] # msg[s] /\ msg'[t] \in Waiting
    OBVIOUS
  <2>1. t # s /\ spc[t] # "idle" /\ msg'[t] = msg[t] /\ msg[t] # msg[s]
    BY <1>1
  <2> QED
    BY <2>1 DEF Waiting
<1>4. msg[s] \in Waiting /\ Waiting' = Waiting \ {msg[s]}
  <2>1. \A k \in Waiting' : k # msg[s] /\ k \in Waiting
    BY <1>3 DEF Waiting
  <2>2. \A k \in Waiting : k # msg[s] => k \in Waiting'
    BY <1>1 DEF Waiting
  <2>3. msg[s] \in Waiting
    BY DEF Waiting
  <2> QED
    BY <2>1, <2>2, <2>3
<1> QED
  BY <1>2, <1>4

LEMMA SendersStay ==
    ASSUME PlacesInv, UNCHANGED <<spc, msg>>
    PROVE  SendersApart' /\ Waiting' = Waiting
  BY Zenon DEF PlacesInv, SendersApart, Waiting

\* A receiver's list grows by a message that is in none.
LEMMA ListGrows ==
    ASSUME PlacesInv, NEW r \in Readers, NEW n \in 1 .. sends, n \notin InHand,
           batch' = [batch EXCEPT ![r] = Append(batch[r], n)], sends' = sends
    PROVE  ListsApart' /\ InHand' = InHand \cup {n}
<1>1. batch \in [Readers -> Seq(1 .. sends)] /\ batch[r] \in Seq(1 .. sends)
  BY DEF PlacesInv, ListsApart
<1>2. batch' \in [Readers -> Seq(1 .. sends')]
  BY <1>1
<1>3. /\ \A q \in Readers : q # r => batch'[q] = batch[q]
      /\ Elems(batch'[r]) = Elems(batch[r]) \cup {n}
  BY <1>1, ElemsIs
<1>4. \A q \in Readers : n \notin Elems(batch[q])
  BY DEF InHand
<1>5. ASSUME NEW p \in Readers, NEW q \in Readers, p # q, NEW k \in Elems(batch'[p])
      PROVE  k \notin Elems(batch'[q])
  <2>1. \A i, j \in Readers : i # j => \A m \in Elems(batch[i]) : m \notin Elems(batch[j])
    BY DEF PlacesInv, ListsApart
  <2> QED
    BY <1>3, <1>4, <1>5, <2>1
<1>6. \A k : (\E q \in Readers : k \in Elems(batch'[q])) <=>
             k = n \/ \E q \in Readers : k \in Elems(batch[q])
  BY <1>3
<1>7. InHand' = InHand \cup {n}
  BY <1>6 DEF InHand
<1> QED
  BY <1>2, <1>5, <1>7 DEF ListsApart

\* It is handed out, or cleared.
LEMMA ListGoes ==
    ASSUME PlacesInv, NEW r \in Readers, batch' = [batch EXCEPT ![r] = <<>>], sends' = sends
    PROVE  /\ ListsApart' /\ Elems(batch[r]) \subseteq InHand
           /\ InHand' = InHand \ Elems(batch[r])
<1>1. batch \in [Readers -> Seq(1 .. sends)]
  BY DEF PlacesInv, ListsApart
<1>2. batch' \in [Readers -> Seq(1 .. sends')]
  BY <1>1
<1>3. /\ \A q \in Readers : q # r => batch'[q] = batch[q]
      /\ Elems(batch'[r]) = {}
  BY <1>1 DEF Elems
<1>4. \A p, q \in Readers : p # q => \A k \in Elems(batch[p]) : k \notin Elems(batch[q])
  BY DEF PlacesInv, ListsApart
<1>5. \A p, q \in Readers : p # q => \A k \in Elems(batch'[p]) : k \notin Elems(batch'[q])
  BY <1>3, <1>4
<1>6. \A k : (\E q \in Readers : k \in Elems(batch'[q])) <=>
             k \notin Elems(batch[r]) /\ \E q \in Readers : k \in Elems(batch[q])
  BY <1>3, <1>4
<1>7. Elems(batch[r]) \subseteq InHand /\ InHand' = InHand \ Elems(batch[r])
  BY <1>6 DEF InHand
<1> QED
  BY <1>2, <1>5, <1>7 DEF ListsApart

LEMMA ListsStay ==
    ASSUME PlacesInv, batch' = batch, sends' = sends \/ sends' = sends + 1
    PROVE  ListsApart' /\ InHand' = InHand
<1>1. 1 .. sends \subseteq 1 .. sends' /\ batch \in [Readers -> Seq(1 .. sends)]
  BY AllAreSent DEF PlacesInv, ListsApart
<1>2. \A q \in Seq(1 .. sends) : q \in Seq(1 .. sends')
  BY <1>1, LargerSeq
<1>3. batch' \in [Readers -> Seq(1 .. sends')]
  BY <1>1, <1>2
<1> QED
  BY <1>3, Zenon DEF PlacesInv, ListsApart, InHand

\* The oldest message leaves the queue, and one that waits may take its place.
LEMMA RemoveHeadIs ==
    ASSUME PlacesInv, RemoveHead
    PROVE  /\ Head(queue) \in Elems(queue)
           /\ NoDuplicates(queue)' /\ SendersApart' /\ UNCHANGED <<sends, refused>>
           /\ \A n \in Elems(queue)' : n \notin Waiting' /\ n # Head(queue)
           /\ \A n \in Waiting' : n \in Waiting
           /\ \A n \in Elems(queue)' : n \in Elems(queue) \/ n \in Waiting
           /\ \A n \in Elems(queue) \cup Waiting : n \in Elems(queue)' \/ n \in Waiting' \/ n = Head(queue)
<1>1. queue \in Seq(1 .. sends) /\ queue # <<>> /\ NoDuplicates(queue)
  BY DEF PlacesInv, TypeOK, RemoveHead
<1>2. /\ Tail(queue) \in Seq(1 .. sends) /\ NoDuplicates(Tail(queue)) /\ Head(queue) \in Elems(queue)
      /\ Elems(Tail(queue)) = Elems(queue) \ {Head(queue)}
  BY <1>1, ElemsOfTail
<1>3. UNCHANGED <<msg, sends, refused>>
  BY DEF RemoveHead
<1>4. \A n \in Waiting : n \notin Elems(queue)
  BY DEF PlacesInv, Apart
<1>5. CASE queue' = Tail(queue) /\ spc' = spc
  <2>1. SendersApart' /\ Waiting' = Waiting
    BY <1>3, <1>5, SendersStay
  <2>2. Elems(queue)' = Elems(Tail(queue)) /\ NoDuplicates(queue)'
    BY <1>2, <1>5
  <2> QED
    BY <1>2, <1>3, <1>4, <2>1, <2>2
<1>6. CASE \E s \in Senders : /\ spc[s] # "idle" /\ queue' = Append(Tail(queue), msg[s])
                              /\ spc' = [spc EXCEPT ![s] = "idle"]
  <2>1. PICK s \in Senders : /\ spc[s] # "idle" /\ queue' = Append(Tail(queue), msg[s])
                             /\ spc' = [spc EXCEPT ![s] = "idle"]
    BY <1>6
  <2>2. SendersApart' /\ msg[s] \in Waiting /\ Waiting' = Waiting \ {msg[s]}
    BY <1>3, <2>1, SenderGoes
  <2>3. msg[s] \notin Elems(Tail(queue)) /\ msg[s] # Head(queue)
    BY <1>2, <1>4, <2>2
  <2>4. Elems(queue)' = Elems(Tail(queue)) \cup {msg[s]} /\ NoDuplicates(queue)'
    <3> DEFINE u == Tail(queue)
               n == msg[s]
    <3>1. queue' = Append(u, n) /\ u \in Seq(1 .. sends) /\ NoDuplicates(u) /\ n \notin Elems(u)
      BY <1>2, <2>1, <2>3
    <3> HIDE DEF u, n
    <3>2. Elems(Append(u, n)) = Elems(u) \cup {n} /\ NoDuplicates(Append(u, n))
      BY <3>1, ElemsIs
    <3>3. Elems(queue') = Elems(u) \cup {n} /\ NoDuplicates(queue')
      BY <3>1, <3>2
    <3> QED
      BY <3>3 DEF u, n
  <2>5. /\ \A n \in Elems(queue)' : n \notin Waiting' /\ n # Head(queue)
        /\ \A n \in Waiting' : n \in Waiting
        /\ \A n \in Elems(queue)' : n \in Elems(queue) \/ n \in Waiting
    BY <1>2, <1>4, <2>2, <2>3, <2>4
  <2>6. \A n \in Elems(queue) \cup Waiting :
           n \in Elems(queue)' \/ n \in Waiting' \/ n = Head(queue)
    BY <1>2, <2>2, <2>4
  <2> QED
    BY <1>2, <1>3, <2>2, <2>4, <2>5, <2>6, Zenon
<1> QED
  BY <1>5, <1>6 DEF RemoveHead

\* Steps that leave the messages where they are.
LEMMA PlacesStay ==
    ASSUME PlacesInv, UNCHANGED <<queue, spc, msg, sends, refused, batch, taken>>,
           interrupts' = 0 => interrupts = 0
    PROVE  (NoDuplicates(queue) /\ SendersApart /\ ListsApart /\ AllAreSomewhere
            /\ Apart(Waiting, Elems(queue), InHand, taken, refused))'
<1>1. /\ SendersApart' /\ Waiting' = Waiting /\ ListsApart' /\ InHand' = InHand
      /\ Elems(queue)' = Elems(queue) /\ NoDuplicates(queue)'
  BY SendersStay, ListsStay DEF PlacesInv
<1> QED
  BY <1>1, Zenon DEF PlacesInv, AllAreSomewhere, Somewhere, Apart

\* A new message goes to a receiver, into the queue, or waits with its sender.
LEMMA SendKeepsPlaces ==
    ASSUME PlacesInv, TypeOK', NEW s \in Senders, NEW how \in {"blocked", "timed"}, Send(s, how)
    PROVE  PlacesInv'
<1> DEFINE n == sends + 1
<1>1. /\ sends' = n /\ UNCHANGED <<batch, refused, interrupts>> /\ spc[s] = "idle"
  BY DEF Send
<1>2. /\ n \notin Waiting /\ n \notin Elems(queue) /\ n \notin InHand /\ n \notin taken
      /\ n \notin refused /\ sends \in Nat
  BY AllAreSent
<1>3. n \in 1 .. n /\ \A k \in 1 .. n : k = n \/ k \in 1 .. sends
  BY <1>2
<1>4. 1 .. sends \subseteq 1 .. n
  BY <1>2
<1>5. queue \in Seq(1 .. sends) /\ NoDuplicates(queue)
  BY DEF PlacesInv, TypeOK
<1> HIDE DEF n
<1>6. ListsApart' /\ InHand' = InHand
  BY <1>1, ListsStay DEF n
<1>7. /\ Apart(Waiting, Elems(queue), InHand, taken, refused)
      /\ taken \subseteq 1 .. sends /\ refused \subseteq 1 .. sends
      /\ interrupts = 0 => \A k \in 1 .. sends : Somewhere(k)
  BY DEF PlacesInv, AllAreSomewhere
<1>8. CASE taken' = taken \cup {n} /\ UNCHANGED <<queue, spc, msg>>
  <2>1. SendersApart' /\ Waiting' = Waiting /\ Elems(queue)' = Elems(queue) /\ NoDuplicates(queue)'
    BY <1>5, <1>8, SendersStay
  <2>2. Apart(Waiting', Elems(queue)', InHand', taken', refused')
    BY <1>1, <1>2, <1>6, <1>7, <1>8, <2>1 DEF Apart
  <2>3. AllAreSomewhere'
    BY <1>1, <1>3, <1>4, <1>6, <1>7, <1>8, <2>1 DEF AllAreSomewhere, Somewhere
  <2> QED
    BY <1>6, <2>1, <2>2, <2>3, Zenon DEF PlacesInv
<1>9. CASE queue' = Append(queue, n) /\ UNCHANGED <<taken, spc, msg>>
  <2>1. SendersApart' /\ Waiting' = Waiting
    BY <1>9, SendersStay
  <2>2. Elems(queue)' = Elems(queue) \cup {n} /\ NoDuplicates(queue)'
    BY <1>2, <1>5, <1>9, ElemsIs
  <2>3. Apart(Waiting', Elems(queue)', InHand', taken', refused')
    BY <1>1, <1>2, <1>6, <1>7, <1>9, <2>1, <2>2 DEF Apart
  <2>4. AllAreSomewhere'
    BY <1>1, <1>3, <1>4, <1>6, <1>7, <1>9, <2>1, <2>2 DEF AllAreSomewhere, Somewhere
  <2> QED
    BY <1>6, <2>1, <2>2, <2>3, <2>4, Zenon DEF PlacesInv
<1>10. CASE /\ spc' = [spc EXCEPT ![s] = how] /\ msg' = [msg EXCEPT ![s] = n]
            /\ UNCHANGED <<queue, taken>>
  <2>1. SendersApart' /\ Waiting' = Waiting \cup {n}
    BY <1>1, <1>2, <1>10, SenderWaits
  <2>2. Elems(queue)' = Elems(queue) /\ NoDuplicates(queue)'
    BY <1>5, <1>10
  <2>3. Apart(Waiting', Elems(queue)', InHand', taken', refused')
    BY <1>1, <1>2, <1>6, <1>7, <1>10, <2>1, <2>2 DEF Apart
  <2>4. AllAreSomewhere'
    BY <1>1, <1>3, <1>4, <1>6, <1>7, <1>10, <2>1, <2>2 DEF AllAreSomewhere, Somewhere
  <2> QED
    BY <1>6, <2>1, <2>2, <2>3, <2>4, Zenon DEF PlacesInv
<1> QED
  BY <1>8, <1>9, <1>10 DEF Send, Accept, n

\* A sender gives up.
LEMMA FailKeepsPlaces ==
    ASSUME PlacesInv, TypeOK', NEW s \in Senders, SendFails(s)
    PROVE  PlacesInv'
<1>1. /\ spc[s] # "idle" /\ spc' = [spc EXCEPT ![s] = "idle"] /\ refused' = refused \cup {msg[s]}
      /\ UNCHANGED <<queue, msg, sends, batch, taken>>
  BY DEF SendFails
<1>2. interrupts' = 0 => interrupts = 0
  BY QueueAssumption DEF SendFails, PlacesInv, TypeOK
<1>3. SendersApart' /\ msg[s] \in Waiting /\ Waiting' = Waiting \ {msg[s]}
  BY <1>1, SenderGoes
<1>4. ListsApart' /\ InHand' = InHand /\ Elems(queue)' = Elems(queue) /\ NoDuplicates(queue)'
  BY <1>1, ListsStay DEF PlacesInv
<1>5. msg[s] \in 1 .. sends
  BY <1>3, AllAreSent
<1>6. Apart(Waiting', Elems(queue)', InHand', taken', refused')
  BY <1>1, <1>3, <1>4 DEF PlacesInv, Apart
<1>7. AllAreSomewhere'
  BY <1>1, <1>2, <1>3, <1>4, <1>5 DEF PlacesInv, AllAreSomewhere, Somewhere
<1> QED
  BY <1>3, <1>4, <1>6, <1>7, Zenon DEF PlacesInv

\* A receiver takes the oldest message, for its caller or into its list.
LEMMA RemoveKeepsPlaces ==
    ASSUME PlacesInv, TypeOK', RemoveHead, interrupts' = interrupts,
           \/ taken' = taken \cup {Head(queue)} /\ batch' = batch
           \/ /\ taken' = taken
              /\ \E r \in Readers : batch' = [batch EXCEPT ![r] = Append(batch[r], Head(queue))]
    PROVE  PlacesInv'
<1> DEFINE h == Head(queue)
<1>1. /\ h \in Elems(queue) /\ NoDuplicates(queue)' /\ SendersApart' /\ UNCHANGED <<sends, refused>>
      /\ \A n \in Elems(queue)' : n \notin Waiting' /\ n # h
      /\ \A n \in Waiting' : n \in Waiting
      /\ \A n \in Elems(queue)' : n \in Elems(queue) \/ n \in Waiting
      /\ \A n \in Elems(queue) \cup Waiting : n \in Elems(queue)' \/ n \in Waiting' \/ n = h
  BY RemoveHeadIs
<1> HIDE DEF h
<1>2. h \in 1 .. sends /\ h \notin Waiting /\ h \notin InHand /\ h \notin taken /\ h \notin refused
  BY <1>1, AllAreSent DEF PlacesInv, Apart
<1>3. /\ Apart(Waiting, Elems(queue), InHand, taken, refused)
      /\ taken \subseteq 1 .. sends /\ refused \subseteq 1 .. sends
      /\ interrupts = 0 => \A k \in 1 .. sends : Somewhere(k)
  BY DEF PlacesInv, AllAreSomewhere
<1>4. /\ ListsApart'
      /\ \/ InHand' = InHand /\ taken' = taken \cup {h}
         \/ InHand' = InHand \cup {h} /\ taken' = taken
  <2>1. CASE taken' = taken \cup {h} /\ batch' = batch
    BY <1>1, <2>1, ListsStay
  <2>2. CASE taken' = taken /\ \E r \in Readers : batch' = [batch EXCEPT ![r] = Append(batch[r], h)]
    BY <1>1, <1>2, <2>2, ListGrows
  <2> QED
    BY <2>1, <2>2 DEF h
<1>5. Apart(Waiting', Elems(queue)', InHand', taken', refused')
  BY <1>1, <1>2, <1>3, <1>4 DEF Apart
<1>6. AllAreSomewhere'
  BY <1>1, <1>2, <1>3, <1>4 DEF AllAreSomewhere, Somewhere
<1> QED
  BY <1>1, <1>4, <1>5, <1>6, Zenon DEF PlacesInv

\* A receiver's list is handed out, or lost to a signal.
LEMMA HandOutKeepsPlaces ==
    ASSUME PlacesInv, TypeOK', NEW r \in Readers, batch' = [batch EXCEPT ![r] = <<>>],
           UNCHANGED <<queue, spc, msg, sends, refused>>,
           \/ taken' = taken \cup Elems(batch[r]) /\ interrupts' = interrupts
           \/ taken' = taken /\ interrupts' # 0
    PROVE  PlacesInv'
<1>1. /\ ListsApart' /\ Elems(batch[r]) \subseteq InHand /\ InHand' = InHand \ Elems(batch[r])
  BY ListGoes
<1>2. SendersApart' /\ Waiting' = Waiting /\ Elems(queue)' = Elems(queue) /\ NoDuplicates(queue)'
  BY SendersStay DEF PlacesInv
<1>3. \A n \in Elems(batch[r]) : n \in 1 .. sends
  BY <1>1, AllAreSent
<1>4. /\ Apart(Waiting, Elems(queue), InHand, taken, refused)
      /\ taken \subseteq 1 .. sends /\ refused \subseteq 1 .. sends
      /\ interrupts = 0 => \A k \in 1 .. sends : Somewhere(k)
  BY DEF PlacesInv, AllAreSomewhere
<1>5. Apart(Waiting', Elems(queue)', InHand', taken', refused')
  BY <1>1, <1>2, <1>4 DEF Apart
<1>6. AllAreSomewhere'
  BY <1>1, <1>2, <1>3, <1>4 DEF AllAreSomewhere, Somewhere
<1> QED
  BY <1>1, <1>2, <1>5, <1>6, Zenon DEF PlacesInv

LEMMA PlacesStep ==
    ASSUME PlacesInv, [Next]_vars
    PROVE  PlacesInv'
<1>1. TypeOK'
  BY TypeStep DEF PlacesInv
<1>2. ASSUME UNCHANGED <<queue, send, batch, taken>>, interrupts' = interrupts
      PROVE  PlacesInv'
  <2>1. UNCHANGED <<queue, spc, msg, sends, refused, batch, taken>> /\ interrupts' = interrupts
    BY <1>2 DEF send
  <2> QED
    BY <1>1, <2>1, PlacesStay, Zenon DEF PlacesInv
<1>3. ASSUME NEW r \in Receivers, NEW how \in {"blocked", "timed"}, Receive(r, how)
      PROVE  PlacesInv'
  <2>1. CASE queue = <<>>
    BY <1>2, <1>3, <2>1 DEF Receive
  <2>2. CASE queue # <<>>
    BY <1>1, <1>3, <2>2, RemoveKeepsPlaces DEF Receive
  <2> QED
    BY <2>1, <2>2
<1>4. ASSUME NEW r \in Readers, FoundEmpty(r) PROVE PlacesInv'
  BY <1>1, <1>4, HandOutKeepsPlaces DEF FoundEmpty, send
<1>5. ASSUME NEW r \in Readers, Interrupted(r) PROVE PlacesInv'
  <2>1. interrupts' # 0
    BY <1>5, QueueAssumption DEF Interrupted, PlacesInv, TypeOK
  <2> QED
    BY <1>1, <1>5, <2>1, HandOutKeepsPlaces DEF Interrupted, send
<1>6. ASSUME NEW r \in Readers, Drain(r) \/ ClearOne(r) PROVE PlacesInv'
  BY <1>1, <1>6, RemoveKeepsPlaces DEF Drain, ClearOne
<1>7. ASSUME NEW r \in Readers, \/ ReceiveTimesOut(r) \/ ReadNotification(r)
                                \/ Assign(r) \/ TestMember(r) \/ Register(r)
                                \/ \E how \in {"draining", "clearing"} : Count(r, how)
      PROVE  PlacesInv'
  <2>1. UNCHANGED <<queue, send, batch, taken>> /\ interrupts' = interrupts
    BY <1>7 DEF ReceiveTimesOut, ReadNotification, Assign, TestMember, Register, Count
  <2> QED
    BY <1>2, <2>1
<1>8. ASSUME Test \/ Notify \/ \E v \in BOOLEAN : SetMember(v) PROVE PlacesInv'
  <2>1. UNCHANGED <<queue, send, batch, taken>> /\ interrupts' = interrupts
    BY <1>8, Zenon DEF Test, Notify, SetMember
  <2> QED
    BY <1>2, <2>1
<1>9. ASSUME UNCHANGED vars PROVE PlacesInv'
  BY <1>2, <1>9 DEF vars
<1> QED
  BY <1>1, <1>3, <1>4, <1>5, <1>6, <1>7, <1>8, <1>9, SendKeepsPlaces, FailKeepsPlaces,
     HandlersAreNotReceivers, Zenon DEF Next

\* A message is in one place only, and while no call is interrupted in one at least,
\* for any number of senders, receivers and messages.
THEOREM EveryMessageHasItsPlace == Spec => []NothingIsLost
<1>1. Init => PlacesInv
  <2> SUFFICES ASSUME Init PROVE PlacesInv
    OBVIOUS
  <2>1. TypeOK
    BY QueueAssumption DEF Init, TypeOK, States, Readers, Handlers
  <2>2. /\ queue = <<>> /\ taken = {} /\ refused = {} /\ sends = 0 /\ 1 .. sends = {}
        /\ \A s \in Senders : spc[s] = "idle"
        /\ batch = [r \in Readers |-> <<>>]
    BY DEF Init
  <2>3. Waiting = {} /\ Elems(queue) = {} /\ InHand = {} /\ NoDuplicates(queue)
    BY <2>2 DEF Waiting, Elems, InHand, NoDuplicates
  <2>4. SendersApart /\ ListsApart
    BY <2>2 DEF SendersApart, ListsApart, Elems
  <2>5. AllAreSomewhere /\ Apart(Waiting, Elems(queue), InHand, taken, refused)
    BY <2>2, <2>3 DEF AllAreSomewhere, Apart
  <2> QED
    BY <2>1, <2>3, <2>4, <2>5 DEF PlacesInv
<1>2. PlacesInv => NothingIsLost
  <2> SUFFICES ASSUME PlacesInv PROVE NothingIsLost
    OBVIOUS
  <2> DEFINE parts == <<Waiting, Elems(queue), InHand, taken, refused>>
  <2>1. \A i, j \in DOMAIN parts : i # j => parts[i] \cap parts[j] = {}
    <3>1. Apart(Waiting, Elems(queue), InHand, taken, refused)
      BY DEF PlacesInv
    <3>2. /\ Waiting \cap Elems(queue) = {} /\ Waiting \cap InHand = {} /\ Waiting \cap taken = {}
          /\ Waiting \cap refused = {} /\ Elems(queue) \cap InHand = {} /\ Elems(queue) \cap taken = {}
          /\ Elems(queue) \cap refused = {} /\ InHand \cap taken = {} /\ InHand \cap refused = {}
          /\ taken \cap refused = {}
      BY <3>1 DEF Apart
    <3> QED
      BY <3>2
  <2>2. \A r, q \in Readers : r # q => Elems(batch[r]) \cap Elems(batch[q]) = {}
    BY DEF PlacesInv, ListsApart
  <2>3. ASSUME interrupts = 0 PROVE UNION {parts[i] : i \in DOMAIN parts} = 1 .. sends
    <3>1. UNION {parts[i] : i \in DOMAIN parts}
             = Waiting \cup Elems(queue) \cup InHand \cup taken \cup refused
      OBVIOUS
    <3>2. \A n : Somewhere(n) <=> n \in 1 .. sends
      BY <2>3, AllAreSent DEF PlacesInv, AllAreSomewhere, Somewhere
    <3> QED
      BY <3>1, <3>2 DEF Somewhere
  <2> QED
    BY <2>1, <2>2, <2>3 DEF NothingIsLost, Waiting
<1> QED
  BY <1>1, <1>2, PlacesStep, PTL DEF Spec
=============================================================================
