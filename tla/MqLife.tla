------------------------------- MODULE MqLife -------------------------------
(***************************************************************************)
(* The life of MessageQueue objects: Init, Exist, SetNotifyMessage and the *)
(* destructor, in several processes, over one name in the mqueue file      *)
(* system.  A process has a table of file descriptors, in which an open    *)
(* takes the lowest that is free; descriptor 0 is taken when it starts.    *)
(* m_messageQueue is initialized to 0, and stays so when Init refuses a    *)
(* name that is empty or has no slash in front: all the object does then   *)
(* is done to descriptor 0.                                                *)
(*                                                                         *)
(* Queues are numbered as they are made.  What is in them is the matter of *)
(* MsgQueue.                                                               *)
(***************************************************************************)
EXTENDS Integers, FiniteSets

CONSTANTS Objects,   \* MessageQueue objects
          Processes,
          Home,      \* for each object, its process
          MaxQueues, \* bound: queues made
          MaxFd      \* bound: the highest descriptor

ASSUME LifeAssumption ==
    /\ Home \in [Objects -> Processes] /\ IsFiniteSet(Objects)
    /\ MaxQueues \in Nat
    /\ MaxFd \in Nat /\ MaxFd > Cardinality(Objects)

VARIABLES
    pc,         \* where each object is: "none" before and after its life
    kind,       \* for each object, "owner", "user" or "bad", a refused name
    fd,         \* m_messageQueue
    opened,     \* for each object, the queue it opened, or 0
    table,      \* for each process, what its descriptors lead to
    name,       \* the queue the name leads to, or 0
    made,       \* queues made so far
    registered, \* for each queue, the object it will notify, or None
    badGone,    \* the destructor of an object with a refused name has run
    orderly     \* owners have followed one another

object == <<pc, kind, fd, opened>>
vars == <<object, table, name, made, registered, badGone, orderly>>

Queues == 1 .. MaxQueues
Fds == 0 .. MaxFd

\* A descriptor that leads nowhere, and one that leads to something else.
Free == 0
Other == -1

\* No object is registered.
None == {}

Init ==
    /\ pc = [o \in Objects |-> "none"] /\ kind = [o \in Objects |-> "user"]
    /\ fd = [o \in Objects |-> -1] /\ opened = [o \in Objects |-> 0]
    /\ table = [p \in Processes |-> [d \in Fds |-> IF d = 0 THEN Other ELSE Free]]
    /\ name = 0 /\ made = 0
    /\ registered = [q \in Queues |-> None]
    /\ badGone = FALSE /\ orderly = TRUE

\* The descriptor an open of process p returns.
Lowest(p) == CHOOSE d \in Fds : table[p][d] = Free /\ \A e \in 0 .. d - 1 : table[p][e] # Free

\* What m_messageQueue leads to.
Target(o) == IF fd[o] = -1 THEN Free ELSE table[Home[o]][fd[o]]

\* Closing a descriptor that leads to queue q ends the registration of the
\* process that closes.
WithoutProcess(p, q) ==
    [registered EXCEPT ![q] = {o \in @ : Home[o] # p}]

-----------------------------------------------------------------------------
(* The constructors and Init. *)

\* Some owner exists, or is being made or destroyed.
OwnerAbout == \E o \in Objects : pc[o] # "none" /\ kind[o] = "owner"

\* A name that is refused: m_messageQueue keeps its 0.
InitBad(o) ==
    /\ pc[o] = "none"
    /\ pc' = [pc EXCEPT ![o] = "open"] /\ kind' = [kind EXCEPT ![o] = "bad"]
    /\ fd' = [fd EXCEPT ![o] = 0] /\ opened' = [opened EXCEPT ![o] = 0]
    /\ UNCHANGED <<table, name, made, registered, badGone, orderly>>

\* A mutant of UnlinkOld: the old queue keeps the name.
UnlinkOldNot(o) ==
    /\ pc[o] = "none"
    /\ pc' = [pc EXCEPT ![o] = "create"] /\ kind' = [kind EXCEPT ![o] = "owner"]
    /\ fd' = [fd EXCEPT ![o] = 0] /\ opened' = [opened EXCEPT ![o] = 0]
    /\ orderly' = (orderly /\ ~OwnerAbout)
    /\ UNCHANGED <<table, name, made, registered, badGone>>

\* An owner unlinks the name before it makes its queue.
UnlinkOld(o) ==
    /\ pc[o] = "none"
    /\ pc' = [pc EXCEPT ![o] = "create"] /\ kind' = [kind EXCEPT ![o] = "owner"]
    /\ fd' = [fd EXCEPT ![o] = 0] /\ opened' = [opened EXCEPT ![o] = 0]
    /\ name' = 0
    /\ orderly' = (orderly /\ ~OwnerAbout)
    /\ UNCHANGED <<table, made, registered, badGone>>

\* The object gets a descriptor for queue q.
Opens(o, q) ==
    LET d == Lowest(Home[o])
    IN /\ table' = [table EXCEPT ![Home[o]][d] = q]
       /\ fd' = [fd EXCEPT ![o] = d]
       /\ opened' = [opened EXCEPT ![o] = q]
       /\ pc' = [pc EXCEPT ![o] = "open"]

\* Or it gets -1.
OpenFails(o) ==
    /\ fd' = [fd EXCEPT ![o] = -1]
    /\ opened' = [opened EXCEPT ![o] = 0]
    /\ pc' = [pc EXCEPT ![o] = "open"]
    /\ UNCHANGED table

\* mq_open with O_EXCL: it fails when another owner has been faster.
Create(o) ==
    /\ pc[o] = "create"
    /\ IF name = 0
       THEN /\ made < MaxQueues
            /\ Opens(o, made + 1)
            /\ made' = made + 1 /\ name' = made + 1
       ELSE OpenFails(o) /\ UNCHANGED <<made, name>>
    /\ UNCHANGED <<kind, registered, badGone, orderly>>

\* A mutant of OpenUser: an mq_open that fails is not told from descriptor 0.
OpenUserZero(o) ==
    /\ pc[o] = "none"
    /\ kind' = [kind EXCEPT ![o] = "user"]
    /\ IF name # 0
       THEN Opens(o, name)
       ELSE /\ fd' = [fd EXCEPT ![o] = 0] /\ opened' = [opened EXCEPT ![o] = 0]
            /\ pc' = [pc EXCEPT ![o] = "open"]
            /\ UNCHANGED table
    /\ UNCHANGED <<name, made, registered, badGone, orderly>>

\* An object that is not an owner opens what the name leads to.
OpenUser(o) ==
    /\ pc[o] = "none"
    /\ kind' = [kind EXCEPT ![o] = "user"]
    /\ IF name # 0 THEN Opens(o, name) ELSE OpenFails(o)
    /\ UNCHANGED <<name, made, registered, badGone, orderly>>

-----------------------------------------------------------------------------
(* Exist, and notification. *)

\* Exist opens a descriptor of its own and closes it.  POSIX ends a registration
\* only with the descriptor it was made through, Linux with any of the process.
Exist(p) ==
    /\ name # 0
    /\ registered' \in {registered, WithoutProcess(p, name)}
    /\ UNCHANGED <<object, table, name, made, badGone, orderly>>

\* A queue notifies one process; a second call fails, which is not noticed.
SetNotifyMessage(o) ==
    /\ pc[o] = "open"
    /\ Target(o) \in Queues
    /\ registered[Target(o)] = None
    /\ registered' = [registered EXCEPT ![Target(o)] = {o}]
    /\ UNCHANGED <<object, table, name, made, badGone, orderly>>

\* With NULL, the registration of the process ends, whichever object made it.
UnsetNotifyMessage(o) ==
    /\ pc[o] = "open"
    /\ Target(o) \in Queues
    /\ registered' = WithoutProcess(Home[o], Target(o))
    /\ UNCHANGED <<object, table, name, made, badGone, orderly>>

-----------------------------------------------------------------------------
(* The destructor, and a crash. *)

\* A mutant of Destroy: only an owner closes.
DestroyOwnerOnly(o) ==
    /\ pc[o] = "open"
    /\ pc' = [pc EXCEPT ![o] = IF kind[o] = "owner" THEN "unlink" ELSE "none"]
    /\ badGone' = (badGone \/ kind[o] = "bad")
    /\ UNCHANGED <<kind, fd, opened, table, name, made, registered, orderly>>

\* mq_close of whatever m_messageQueue leads to, unless it is -1.
Destroy(o) ==
    /\ pc[o] = "open"
    /\ IF fd[o] = -1
       THEN UNCHANGED <<table, registered>>
       ELSE /\ table' = [table EXCEPT ![Home[o]][fd[o]] = Free]
            /\ registered' = IF Target(o) \in Queues THEN WithoutProcess(Home[o], Target(o))
                                                     ELSE registered
    /\ pc' = [pc EXCEPT ![o] = IF kind[o] = "owner" /\ fd[o] # -1 THEN "unlink" ELSE "none"]
    /\ badGone' = (badGone \/ kind[o] = "bad")
    /\ UNCHANGED <<kind, fd, opened, name, made, orderly>>

\* The owner's mq_unlink, whoever has the name by now.
UnlinkName(o) ==
    /\ pc[o] = "unlink"
    /\ name' = 0
    /\ pc' = [pc EXCEPT ![o] = "none"]
    /\ UNCHANGED <<kind, fd, opened, table, made, registered, badGone, orderly>>

\* The kernel closes all descriptors; the name stays.
Crash(p) ==
    /\ pc' = [o \in Objects |-> IF Home[o] = p THEN "none" ELSE pc[o]]
    /\ table' = [table EXCEPT ![p] = [d \in Fds |-> IF d = 0 THEN Other ELSE Free]]
    /\ registered' = [q \in Queues |-> {o \in registered[q] : Home[o] # p}]
    /\ UNCHANGED <<kind, fd, opened, name, made, badGone, orderly>>

-----------------------------------------------------------------------------
Next ==
    \/ \E o \in Objects : \/ InitBad(o) \/ UnlinkOld(o) \/ Create(o) \/ OpenUser(o)
                          \/ SetNotifyMessage(o) \/ UnsetNotifyMessage(o)
                          \/ Destroy(o) \/ UnlinkName(o)
    \/ \E p \in Processes : Exist(p) \/ Crash(p)

Spec == Init /\ [][Next]_vars

-----------------------------------------------------------------------------
(* Properties. *)

\* Type invariant: a queue notifies one object at most.
TypeOK ==
    /\ pc \in [Objects -> {"none", "create", "open", "unlink"}]
    /\ kind \in [Objects -> {"owner", "user", "bad"}]
    /\ fd \in [Objects -> Fds \cup {-1}] /\ opened \in [Objects -> 0 .. made]
    /\ table \in [Processes -> [Fds -> {Other} \cup 0 .. made]]
    /\ name \in 0 .. made /\ made \in 0 .. MaxQueues
    /\ registered \in [Queues -> {None} \cup {{o} : o \in Objects}]
    /\ badGone \in BOOLEAN /\ orderly \in BOOLEAN

\* An object that has opened a queue keeps its descriptor of it, which is no
\* other object's, until an object with a refused name is destroyed: that closes
\* descriptor 0, the next open gets it, and the one after closes it again.
DescriptorsAreKept ==
    ~badGone =>
        /\ \A o \in Objects : pc[o] = "open" /\ opened[o] # 0 => Target(o) = opened[o]
        /\ \A o, u \in Objects :
              /\ o # u /\ Home[o] = Home[u] /\ pc[o] = "open" /\ pc[u] = "open"
              /\ opened[o] # 0 /\ opened[u] # 0
              => fd[o] # fd[u]
        /\ \A p \in Processes : table[p][0] = Other

\* While owners follow one another, crashes included, a new owner always gets a
\* queue, and it is the one the name leads to.
OwnerHasTheName ==
    orderly => \A o \in Objects :
        pc[o] = "open" /\ kind[o] = "owner" => opened[o] # 0 /\ name = opened[o]

\* A queue never notifies an object that is gone: what the kernel would hand to
\* signalNotifyFunction is an object that exists.
NotifiedObjectsExist ==
    \A q \in Queues : \A o \in registered[q] : pc[o] = "open"
=============================================================================
