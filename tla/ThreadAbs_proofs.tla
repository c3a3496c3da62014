-------------------------- MODULE ThreadAbs_proofs --------------------------
(***************************************************************************)
(* Proofs about ThreadLife and ThreadAbs.                                  *)
(*                                                                         *)
(* Of a Thread, for every set of controllers and every number of POSIX     *)
(* threads: its types and, when one thread calls Start, that one POSIX     *)
(* thread is live, that the map behind CurrentThread is exact, and that a  *)
(* Join leaves the object inactive.                                        *)
(*                                                                         *)
(* Of a ThreadAbstract: that it does to its Thread only what ThreadLife    *)
(* allows, so that the theorems of ThreadLife hold of it; that the lock of *)
(* the example's queue is released by whoever is cancelled; and that the   *)
(* times of TimeArith are exact as long as their products fit.             *)
(***************************************************************************)
EXTENDS ThreadAbs, TLAPS

-----------------------------------------------------------------------------
(* ThreadLife. *)

\* Every step keeps the types.
LEMMA TypeStep == TypeOK /\ [Next]_vars => TypeOK'
<1> SUFFICES ASSUME TypeOK, [Next]_vars PROVE TypeOK'
  OBVIOUS
<1> USE ThreadAssumption DEF Threads
<1>1. ASSUME NEW c \in Starters, Start(c) PROVE TypeOK'
  BY <1>1 DEF Start, TypeOK, States, object
<1>2. ASSUME NEW c \in Starters, Create(c) PROVE TypeOK'
  BY <1>2 DEF Create, TypeOK, States
<1>3. ASSUME NEW c \in Controllers, Cancel(c) PROVE TypeOK'
  <2>1. cancelled' \subseteq 1 .. created
    <3>1. handle # 0 => handle \in 1 .. created
      BY DEF TypeOK
    <3>2. cancelled' = cancelled \/ (handle # 0 /\ cancelled' = cancelled \cup {handle})
      BY <1>3, Zenon DEF Cancel, IsAlive
    <3> QED
      BY <3>1, <3>2 DEF TypeOK
  <2>2. undefined' \in BOOLEAN
    BY <1>3, Zenon DEF Cancel, TypeOK
  <2> QED
    BY <1>3, <2>1, <2>2 DEF Cancel, TypeOK, object
<1>4. ASSUME NEW c \in Controllers, Join(c) PROVE TypeOK'
  <2>1. CASE cpc' = [cpc EXCEPT ![c] = "joining"] /\ joins' = [joins EXCEPT ![c] = handle]
               /\ handle # 0
    <3>1. /\ cpc' \in [Controllers -> {"idle", "starting", "joining"}]
          /\ joins' \in [Controllers -> 0 .. created]
          /\ \A d \in Controllers : cpc'[d] = "joining" => joins'[d] # 0
      BY <2>1 DEF TypeOK
    <3>2. undefined' \in BOOLEAN
      BY <1>4, Zenon DEF Join, TypeOK
    <3> QED
      BY <1>4, <3>1, <3>2 DEF Join, TypeOK, object
  <2>2. CASE UNCHANGED <<cpc, joins>>
    <3>1. undefined' \in BOOLEAN
      BY <1>4, Zenon DEF Join, TypeOK
    <3> QED
      BY <1>4, <2>2, <3>1 DEF Join, TypeOK, object
  <2> QED
    BY <1>4, <2>1, <2>2 DEF Join, IsAlive
<1>5. ASSUME NEW c \in Controllers, Joined(c) PROVE TypeOK'
  BY <1>5 DEF Joined, TypeOK, States, object
<1>6. ASSUME NEW t \in Threads, Begin(t) PROVE TypeOK'
  BY <1>6 DEF Begin, TypeOK, States
<1>7. ASSUME NEW t \in Threads, Return(t) \/ Unwind(t) PROVE TypeOK'
  BY <1>7 DEF Return, Unwind, TypeOK, States, object
<1>8. ASSUME NEW t \in Threads, Erase(t) PROVE TypeOK'
  <2>1. aborted' \in BOOLEAN /\ isActive' \in BOOLEAN
    BY <1>8 DEF Erase
  <2>2. pt' \in [Threads -> States] /\ \A u \in Threads : pt'[u] = "none" <=> u > created
    BY <1>8 DEF Erase, TypeOK, States
  <2>3. threadMap' \subseteq 1 .. created /\ threadId' \in 0 .. created
    BY <1>8 DEF Erase, TypeOK
  <2> QED
    BY <1>8, <2>1, <2>2, <2>3 DEF Erase, TypeOK
<1>9. ASSUME NEW c \in Starters, CreateFails(c) PROVE TypeOK'
  BY <1>9 DEF CreateFails, TypeOK
<1>10. ASSUME UNCHANGED vars PROVE TypeOK'
  BY <1>10 DEF vars, object, TypeOK
<1> QED
  BY <1>1, <1>2, <1>3, <1>4, <1>5, <1>6, <1>7, <1>8, <1>9, <1>10 DEF Next

\* It starts with them.
LEMMA InitTypes == Init => TypeOK
<1> SUFFICES ASSUME Init PROVE TypeOK
  OBVIOUS
<1>1. pt \in [Threads -> States] /\ \A t \in Threads : pt[t] = "none" <=> t > created
  BY ThreadAssumption DEF Init, States, Threads
<1>2. /\ cpc \in [Controllers -> {"idle", "starting", "joining"}]
      /\ joins \in [Controllers -> 0 .. created]
      /\ \A c \in Controllers : cpc[c] = "joining" => joins[c] # 0
  BY DEF Init
<1>3. created \in 0 .. MaxThreads /\ handle = created /\ threadId \in 0 .. created
         /\ threadMap \subseteq 1 .. created /\ cancelled \subseteq 1 .. created
  BY ThreadAssumption DEF Init
<1>4. isActive \in BOOLEAN /\ failed \in BOOLEAN /\ aborted \in BOOLEAN /\ undefined \in BOOLEAN
  BY DEF Init
<1> QED
  BY <1>1, <1>2, <1>3, <1>4 DEF TypeOK

\* The object, the POSIX threads and the controllers keep to their types, and
\* m_thread is always the POSIX thread of the last Start.
THEOREM TypeCorrect == Spec => []TypeOK
<1>1. Init => TypeOK
  BY InitTypes
<1> QED
  BY <1>1, TypeStep, PTL DEF Spec

-----------------------------------------------------------------------------
\* A new thread finds the object inactive, so no older one is live.
LEMMA CreateKeeps ==
    ASSUME TypeOK, LifeInv, OneStarter, NEW c \in Starters, Create(c)
    PROVE  OnlyTheLast' /\ StartersWait' /\ MapIsExact'
<1> USE ThreadAssumption DEF Threads
<1>1. c \in Controllers /\ ~isActive /\ cpc[c] = "starting"
  BY DEF Create, LifeInv, StartersWait
<1>2. created \in Nat /\ created + 1 \in Threads /\ created' = created + 1
  BY DEF TypeOK, Create
<1>3. ~failed /\ \A t \in Threads : ~Live(t)
  BY <1>1, <1>2 DEF LifeInv, OnlyTheLast, TypeOK
<1>4. OnlyTheLast'
  BY <1>2, <1>3 DEF Create, OnlyTheLast, Live, TypeOK
<1>5. StartersWait'
  BY <1>1, <1>2 DEF Create, StartersWait, LifeInv, TypeOK, OneStarter
<1>6. MapIsExact'
  <2>1. threadMap' = threadMap /\ aborted' = aborted /\ threadId' = threadId
    BY DEF Create
  <2>2. \A t \in Threads : pt'[t] = (IF t = created + 1 THEN "created" ELSE pt[t])
    BY <1>2 DEF Create, TypeOK
  <2>3. pt[created + 1] = "none"
    BY <1>2 DEF TypeOK
  <2> QED
    BY <2>1, <2>2, <2>3, <1>2 DEF MapIsExact, LifeInv
<1> QED
  BY <1>4, <1>5, <1>6

\* A creation that fails marks the object active, and no thread.
LEMMA CreateFailsKeeps ==
    ASSUME TypeOK, LifeInv, OneStarter, NEW c \in Starters, CreateFails(c)
    PROVE  OnlyTheLast' /\ StartersWait' /\ MapIsExact'
<1>1. c \in Controllers /\ cpc[c] = "starting"
  BY ThreadAssumption DEF CreateFails
<1>2. OnlyTheLast'
  <2>1. ~isActive
    BY <1>1 DEF LifeInv, StartersWait
  <2>2. \A t \in Threads : ~Live(t)
    BY <2>1 DEF LifeInv, OnlyTheLast, TypeOK, Threads
  <2> QED
    BY <2>2 DEF CreateFails, OnlyTheLast, Live
<1>3. StartersWait'
  <2>1. \A d \in Controllers : cpc'[d] = (IF d = c THEN "idle" ELSE cpc[d])
    BY <1>1 DEF CreateFails, TypeOK
  <2>2. \A d \in Starters : d = c
    BY DEF OneStarter
  <2> QED
    BY <1>1, <2>1, <2>2 DEF CreateFails, StartersWait, LifeInv
<1>4. MapIsExact'
  BY DEF CreateFails, MapIsExact, LifeInv
<1> QED
  BY <1>2, <1>3, <1>4

\* A live thread is the last one, so it is the one m_threadId and the map name.
LEMMA ThreadKeeps ==
    ASSUME TypeOK, LifeInv, OneStarter, NEW t \in Threads,
           Begin(t) \/ Return(t) \/ Unwind(t) \/ Erase(t)
    PROVE  OnlyTheLast' /\ StartersWait' /\ MapIsExact'
<1> USE ThreadAssumption DEF Threads
<1>1. Live(t) /\ t = created /\ isActive /\ created' = created /\ ~failed /\ failed' = failed
  BY DEF Begin, Return, Unwind, Erase, Live, LifeInv, OnlyTheLast, object
<1>2. created \in Nat \ {0} /\ pt \in [Threads -> States]
  BY <1>1 DEF TypeOK
<1>3. \A u \in Threads : u # t => ~Live(u) /\ pt'[u] = pt[u]
  BY <1>1, <1>2 DEF Begin, Return, Unwind, Erase, LifeInv, OnlyTheLast
<1>4. StartersWait'
  BY <1>1 DEF Begin, Return, Unwind, Erase, StartersWait, LifeInv, object
<1>5. CASE Begin(t)
  <2>1. pt'[t] = "running" /\ isActive' /\ threadId' = t
           /\ threadMap' = threadMap \cup {t} /\ aborted' = aborted
    BY <1>5, <1>2 DEF Begin
  <2>2. OnlyTheLast'
    BY <2>1, <1>1, <1>2, <1>3 DEF OnlyTheLast, Live
  <2>3. threadMap = {}
    BY <1>5, <1>3 DEF Begin, MapIsExact, LifeInv, Live
  <2>4. MapIsExact'
    BY <2>1, <2>3, <1>3 DEF MapIsExact, LifeInv, Live
  <2> QED
    BY <2>2, <2>4, <1>4
<1>6. CASE Return(t) \/ Unwind(t)
  <2>1. pt[t] = "running" /\ pt'[t] = "cleanup" /\ isActive' = isActive /\ threadId' = threadId
           /\ threadMap' = threadMap /\ aborted' = aborted
    BY <1>6, <1>2 DEF Return, Unwind, object
  <2>2. OnlyTheLast'
    BY <2>1, <1>1, <1>2, <1>3 DEF OnlyTheLast, Live
  <2>3. MapIsExact'
    BY <2>1, <1>3 DEF MapIsExact, LifeInv, Live
  <2> QED
    BY <2>2, <2>3, <1>4
<1>7. CASE Erase(t)
  <2>1. threadMap = {t} /\ threadId = t /\ ~aborted
    BY <1>7, <1>3 DEF Erase, MapIsExact, LifeInv, Live
  <2>2. pt'[t] = "ended" /\ ~isActive' /\ threadMap' = {} /\ ~aborted'
    BY <1>7, <2>1, <1>2 DEF Erase
  <2>3. OnlyTheLast'
    BY <2>2, <1>1, <1>2, <1>3 DEF OnlyTheLast, Live
  <2>4. MapIsExact'
    BY <2>2, <1>3 DEF MapIsExact, Live
  <2> QED
    BY <2>3, <2>4, <1>4
<1> QED
  BY <1>5, <1>6, <1>7

\* What the controllers do besides creating a thread makes none live.
LEMMA ControllerKeeps ==
    ASSUME TypeOK, LifeInv, OneStarter, NEW c \in Controllers,
           (c \in Starters /\ Start(c)) \/ Cancel(c) \/ Join(c) \/ Joined(c)
    PROVE  OnlyTheLast' /\ StartersWait' /\ MapIsExact'
<1> USE ThreadAssumption DEF Threads
<1>1. created' = created /\ isActive' = isActive /\ threadMap' = threadMap
         /\ threadId' = threadId /\ aborted' = aborted /\ failed' = failed
  BY DEF Start, Cancel, Join, Joined, object
<1>2. \A t \in Threads : pt'[t] = pt[t] \/ (pt[t] = "ended" /\ pt'[t] = "joined")
  BY DEF Start, Cancel, Join, Joined, TypeOK
<1>3. OnlyTheLast'
  <2>1. \A t \in Threads : Live(t)' <=> Live(t)
    BY <1>2 DEF Live
  <2>2. created # 0 => created \in Threads
    BY DEF TypeOK
  <2>3. created # 0 /\ Live(created) <=> created' # 0 /\ Live(created)'
    BY <1>1, <2>1, <2>2
  <2>4. isActive' <=> failed' \/ (created' # 0 /\ Live(created)')
    BY <1>1, <2>3, Zenon DEF OnlyTheLast, LifeInv
  <2> QED
    BY <1>1, <2>1, <2>4 DEF OnlyTheLast, LifeInv, Live
<1>4. StartersWait'
  <2>1. CASE c \in Starters /\ Start(c)
    BY <2>1, <1>1 DEF Start, StartersWait, LifeInv, TypeOK
  <2>2. CASE Cancel(c)
    BY <2>2, <1>1 DEF Cancel, StartersWait, LifeInv
  <2>3. CASE Join(c)
    BY <2>3, <1>1 DEF Join, IsAlive, StartersWait, LifeInv, TypeOK
  <2>4. CASE Joined(c)
    <3>1. cpc' = [cpc EXCEPT ![c] = "idle"] /\ joins' = joins
      BY <2>4 DEF Joined
    <3> QED
      BY <3>1, <1>1 DEF StartersWait, LifeInv, TypeOK
  <2> QED
    BY <2>1, <2>2, <2>3, <2>4
<1>5. MapIsExact'
  BY <1>1, <1>2 DEF MapIsExact, LifeInv
<1> QED
  BY <1>3, <1>4, <1>5

\* The invariant of one starter is inductive.
LEMMA LifeStep == TypeOK /\ LifeInv /\ [Next]_vars => LifeInv'
<1> SUFFICES ASSUME TypeOK, LifeInv, OneStarter, [Next]_vars
             PROVE  OnlyTheLast' /\ StartersWait' /\ MapIsExact'
  BY DEF LifeInv, OneStarter
<1>1. CASE UNCHANGED vars
  BY <1>1 DEF vars, object, LifeInv, OnlyTheLast, StartersWait, MapIsExact, Live
<1>2. CASE Next
  BY <1>2, CreateKeeps, CreateFailsKeeps, ThreadKeeps, ControllerKeeps, ThreadAssumption DEF Next
<1> QED
  BY <1>1, <1>2

\* The types and the invariant of one starter hold together, whatever is fair.
LEMMA LifeIsSafe == Init /\ [][Next]_vars => [](TypeOK /\ LifeInv)
<1>1. Init => TypeOK /\ LifeInv
  <2> SUFFICES ASSUME Init PROVE LifeInv
    BY InitTypes
  <2>1. OnlyTheLast
    BY DEF Init, OnlyTheLast, Live
  <2>2. StartersWait
    BY DEF Init, StartersWait
  <2>3. MapIsExact
    BY DEF Init, MapIsExact
  <2> QED
    BY <2>1, <2>2, <2>3 DEF LifeInv
<1>2. TypeOK /\ LifeInv /\ [Next]_vars => (TypeOK /\ LifeInv)'
  BY TypeStep, LifeStep
<1> QED
  BY <1>1, <1>2, PTL

\* The same of the specification.
THEOREM LifeCorrect == Spec => [](TypeOK /\ LifeInv)
  BY LifeIsSafe, PTL DEF Spec

\* What the invariant says of one thread at a time.
LEMMA LifeImpliesOneThread == TypeOK /\ LifeInv => OneThread
  BY DEF LifeInv, OneThread, OnlyTheLast, TypeOK, Threads

\* With one thread that calls Start, at most one POSIX thread executes the
\* runnable, and the object is active as long as it does.
THEOREM OneThreadAtATime == Spec => []OneThread
  BY LifeImpliesOneThread, LifeCorrect, PTL

\* With one thread that calls Start, CurrentThread finds this object from its
\* own thread and from no other, and the clean-up handler's assertion holds.
THEOREM CurrentThreadIsExact == Spec => []MapIsExact
<1>1. LifeInv => MapIsExact
  BY DEF LifeInv, MapIsExact
<1> QED
  BY <1>1, LifeCorrect, PTL

\* A step that takes a thread that calls Start out of its Join leaves the object
\* as JoinLeavesInactive says.
LEMMA JoinStep ==
    TypeOK /\ LifeInv /\ [Next]_vars
      => [\A c \in Starters : OneStarter /\ cpc[c] = "joining" /\ cpc'[c] = "idle"
            => (isActive' => failed) /\ \A t \in Threads : ~Live(t)']_vars
<1>1. ASSUME TypeOK, LifeInv, [Next]_vars, OneStarter, NEW c \in Starters,
             cpc[c] = "joining", cpc'[c] = "idle"
      PROVE  (isActive' => failed) /\ \A t \in Threads : ~Live(t)'
  <2> USE ThreadAssumption DEF Threads
  <2>1. c \in Controllers /\ joins[c] = created /\ created \in Nat \ {0}
    BY <1>1 DEF LifeInv, StartersWait, TypeOK
  <2>2. Joined(c)
    <3>1. ~UNCHANGED vars
      BY <1>1 DEF vars
    <3>2. \A d \in Controllers : d = c => ~Start(d) /\ ~Create(d) /\ ~CreateFails(d)
      BY <1>1 DEF Start, Create, CreateFails
    <3>3. \A d \in Controllers : d # c => ~Start(d) /\ ~Create(d) /\ ~CreateFails(d) /\ ~Joined(d) /\ ~Join(d)
      BY <1>1, <2>1 DEF Start, Create, CreateFails, Joined, Join, TypeOK
    <3>4. \A d \in Controllers : ~Cancel(d) /\ (d = c => ~Join(d))
      BY <1>1 DEF Cancel, Join
    <3>5. \A t \in Threads : ~Begin(t) /\ ~Return(t) /\ ~Unwind(t) /\ ~Erase(t)
      BY <1>1 DEF Begin, Return, Unwind, Erase
    <3> QED
      BY <1>1, <2>1, <3>1, <3>2, <3>3, <3>4, <3>5 DEF Next
  <2>3. pt[created] = "ended" /\ isActive' = isActive
    BY <2>1, <2>2 DEF Joined, object
  <2>4. (isActive => failed) /\ \A t \in Threads : ~Live(t)
    BY <1>1, <2>1, <2>3 DEF LifeInv, OnlyTheLast, Live
  <2>5. \A t \in Threads : pt'[t] = pt[t] \/ pt'[t] = "joined"
    BY <2>1, <2>2 DEF Joined, TypeOK
  <2> QED
    BY <2>3, <2>4, <2>5 DEF Live
<1> QED
  BY <1>1

\* When the thread that calls Start comes back from Join, none of the object's
\* threads is live, and it is inactive unless pthread_create has failed.
THEOREM JoinIsFinal == Spec => JoinLeavesInactive
  BY JoinStep, LifeCorrect, PTL DEF Spec, JoinLeavesInactive

-----------------------------------------------------------------------------
(* ThreadAbs is a ThreadLife. *)

\* Each step is one of the Thread, or none of it.
LEMMA AbsStepIsLifeStep == [AbsNext]_absVars => [Next]_vars
<1> SUFFICES ASSUME [AbsNext]_absVars PROVE [Next]_vars
  OBVIOUS
<1>1. CASE UNCHANGED absVars
  BY <1>1 DEF absVars
<1>2. CASE Plain
  BY <1>2 DEF Plain
<1>3. ASSUME NEW c \in Starters, Launch(c) \/ \E isBlock \in BOOLEAN : StartThread(c, isBlock)
      PROVE  Next
  <2>1. Start(c) \/ Create(c) \/ CreateFails(c)
    BY <1>3 DEF Launch, StartThread
  <2> QED
    BY <2>1 DEF Next
<1>4. ASSUME NEW c \in Controllers, Control(c) PROVE [Next]_vars
  <2>1. Join(c) \/ Joined(c) \/ Cancel(c) \/ UNCHANGED vars
    BY <1>4 DEF Control, StopThread, SetExit, CancelThread, Destroy, Block, Unblock,
                LockToSet, SetSum, Initialize
  <2> QED
    BY <2>1 DEF Next
<1>5. ASSUME NEW t \in Threads,
             \/ BeginRun(t) \/ RunStep(t) \/ UnwindRun(t)
             \/ EraseRun(t) \/ OnStopCancelled(t) \/ RunOn(t)
      PROVE  [Next]_vars
  <2>1. Begin(t) \/ Return(t) \/ Unwind(t) \/ Erase(t) \/ UNCHANGED vars
    BY <1>5 DEF BeginRun, RunStep, UnwindRun, EraseRun, OnStopCancelled, RunOn, OnStart,
                OnStartFails, TestExit, ExitLoop, Look, Printed, PrintedLast, Pause, Leave
  <2> QED
    BY <2>1 DEF Next
<1> QED
  BY <1>1, <1>2, <1>3, <1>4, <1>5, Zenon DEF AbsNext

\* A ThreadAbstract uses its Thread as ThreadLife says a Thread may be used.
THEOREM ThreadAbstractImplementsThread == AbsSpec => ImplementsThread
<1>1. AbsInit => Init
  BY DEF AbsInit
<1> QED
  BY <1>1, AbsStepIsLifeStep, PTL DEF AbsSpec, ImplementsThread

\* So the types and the invariant of one starter hold of it.
LEMMA AbsLife == AbsSpec => [](TypeOK /\ LifeInv)
  BY ThreadAbstractImplementsThread, LifeIsSafe, PTL DEF ImplementsThread

\* With one thread that calls StartThread, Run is in one POSIX thread at a time,
\* and IsActive is true as long as it is.
THEOREM OneThreadRuns == AbsSpec => []OneThread
  BY AbsLife, LifeImpliesOneThread, PTL

\* With one thread that calls StartThread, CurrentThread is exact.
THEOREM ThreadMapIsExact == AbsSpec => []MapIsExact
<1>1. LifeInv => MapIsExact
  BY DEF LifeInv, MapIsExact
<1> QED
  BY <1>1, AbsLife, PTL

\* A StartThread that blocks comes back from its Join to an inactive object.
THEOREM BlockingStartIsFinal == AbsSpec => JoinLeavesInactive
<1>1. AbsSpec => [][Next]_vars
  BY ThreadAbstractImplementsThread, PTL DEF ImplementsThread
<1> QED
  BY <1>1, JoinStep, AbsLife, PTL DEF JoinLeavesInactive

-----------------------------------------------------------------------------
(* The lock of the queue. *)

\* Who is where in Run, and in the middle of what.
RunTypes ==
    /\ at \in [Threads -> Places]
    /\ acting \in [Controllers -> {"none", "block", "exit", "cancel", "push"}]
    /\ locked \in BOOLEAN
    /\ \A t \in Threads : /\ ~isAbstract => at[t] = "none"
                          /\ at[t] \notin {"none", "stop"} => pt[t] = "running"
                          /\ at[t] = "stop" => pt[t] = "cleanup"

\* LockIsReleased, thread by thread and controller by controller.
QueueLock ==
    /\ locked => \/ \E t \in Threads : at[t] \in {"print", "last"}
                 \/ \E c \in Controllers : acting[c] = "push"
    /\ \A t \in Threads : at[t] \in {"print", "last"} =>
          /\ locked
          /\ \A u \in Threads : at[u] \in {"print", "last"} => t = u
          /\ \A c \in Controllers : acting[c] # "push"
    /\ \A c \in Controllers : acting[c] = "push" =>
          /\ locked
          /\ \A d \in Controllers : acting[d] = "push" => c = d

QueueInv == RunTypes /\ QueueLock

LEMMA QueueLockSuffices == QueueLock => LockIsReleased
<1> SUFFICES ASSUME QueueLock PROVE LockIsReleased
  OBVIOUS
<1>1. locked <=> (Inside # {} \/ Pushers # {})
  <2>1. Inside # {} <=> \E t \in Threads : at[t] \in {"print", "last"}
    BY DEF Inside
  <2>2. Pushers # {} <=> \E c \in Controllers : acting[c] = "push"
    BY DEF Pushers
  <2> QED
    BY <2>1, <2>2, Zenon DEF QueueLock
<1>2. Inside = {} \/ Pushers = {}
  BY DEF QueueLock, Inside, Pushers
<1> QED
  BY <1>1, <1>2 DEF QueueLock, LockIsReleased, Inside, Pushers

\* What StartThread, StopThread, SetSum and the destructor do.
LEMMA ControlKeepsQueue ==
    ASSUME TypeOK, QueueInv, NEW c \in Controllers,
           \/ Control(c)
           \/ c \in Starters /\ (Launch(c) \/ \E isBlock \in BOOLEAN : StartThread(c, isBlock))
    PROVE  QueueInv'
<1> USE DEF QueueInv, RunTypes, QueueLock
<1>1. at' = at /\ isAbstract' = isAbstract
  BY DEF Control, Launch, StartThread, StopThread, SetExit, CancelThread, Destroy, Block, Unblock,
         LockToSet, SetSum, Initialize, own
<1>2. \A t \in Threads : pt[t] \in {"running", "cleanup"} => pt'[t] = pt[t]
  <2>1. \/ pt' = pt
        \/ Create(c) /\ c \in Starters
        \/ Joined(c)
    BY DEF Control, Launch, StartThread, StopThread, SetExit, CancelThread, Destroy, Block, Unblock,
           LockToSet, SetSum, Initialize, own, vars, Start, CreateFails, Cancel, Join
  <2>2. CASE Create(c)
    BY <2>2 DEF Create, TypeOK, Threads
  <2>3. CASE Joined(c)
    BY <2>3 DEF Joined, TypeOK
  <2> QED
    BY <2>1, <2>2, <2>3
<1>3. CASE locked' = locked /\ \A d \in Controllers : acting'[d] = "push" <=> acting[d] = "push"
  <2>1. acting' \in [Controllers -> {"none", "block", "exit", "cancel", "push"}]
    BY DEF Control, Launch, StartThread, StopThread, SetExit, CancelThread, Destroy, Block, Unblock,
           LockToSet, SetSum, Initialize, own
  <2> QED
    BY <1>1, <1>2, <1>3, <2>1
<1>4. CASE LockToSet(c)
  <2>1. locked' = TRUE /\ acting' = [acting EXCEPT ![c] = "push"] /\ ~locked
    BY <1>4 DEF LockToSet
  <2> QED
    BY <1>1, <1>2, <2>1
<1>5. CASE \E sum \in Sums : SetSum(c, sum)
  <2>1. locked' = FALSE /\ acting' = [acting EXCEPT ![c] = "none"] /\ acting[c] = "push"
    BY <1>5 DEF SetSum
  <2> QED
    BY <1>1, <1>2, <2>1
<1>6. \/ LockToSet(c) \/ \E sum \in Sums : SetSum(c, sum)
      \/ locked' = locked /\ \A d \in Controllers : acting'[d] = "push" <=> acting[d] = "push"
  <2>1. ASSUME NEW s \in {"none", "block", "exit", "cancel"},
               acting' = [acting EXCEPT ![c] = s], acting[c] # "push"
        PROVE  \A d \in Controllers : acting'[d] = "push" <=> acting[d] = "push"
    BY <2>1
  <2>2. ASSUME Launch(c) \/ Unblock(c) \/ \E freq \in Freqs : Initialize(c, freq)
        PROVE  locked' = locked /\ acting' = acting
    BY <2>2 DEF Launch, Unblock, Initialize, own
  <2>3. ASSUME \/ \E isBlock \in BOOLEAN : StartThread(c, isBlock)
               \/ \E how \in {"exit", "cancel"} : StopThread(c, how)
               \/ SetExit(c) \/ CancelThread(c) \/ Destroy(c) \/ Block(c)
        PROVE  /\ locked' = locked /\ acting[c] # "push"
               /\ \E s \in {"none", "block", "exit", "cancel"} : acting' = [acting EXCEPT ![c] = s]
    BY <2>3 DEF StartThread, StopThread, SetExit, CancelThread, Destroy, Block, Free
  <2> QED
    BY <2>1, <2>2, <2>3 DEF Control
<1> QED
  BY <1>3, <1>4, <1>5, <1>6

\* What the POSIX thread does.
LEMMA RunKeepsQueue ==
    ASSUME TypeOK, QueueInv, NEW t \in Threads,
           \/ BeginRun(t) \/ RunStep(t) \/ UnwindRun(t)
           \/ EraseRun(t) \/ OnStopCancelled(t) \/ RunOn(t)
    PROVE  QueueInv'
<1> USE DEF QueueInv, RunTypes, QueueLock
<1>1. acting' = acting /\ isAbstract' = isAbstract
  BY DEF BeginRun, RunStep, UnwindRun, EraseRun, OnStopCancelled, RunOn, OnStart, OnStartFails,
         TestExit, ExitLoop, Look, Printed, PrintedLast, Pause, Leave
<1>2. CASE OnStopCancelled(t) \/ RunOn(t)
  BY <1>2 DEF OnStopCancelled, RunOn, vars
<1>3. CASE BeginRun(t)
  <2>1. /\ at' = [at EXCEPT ![t] = "start"] /\ locked' = locked /\ isAbstract
        /\ pt[t] = "created" /\ pt' = [pt EXCEPT ![t] = "running"]
    BY <1>3 DEF BeginRun, Begin
  <2> QED
    BY <1>1, <2>1 DEF TypeOK, Places
<1>4. CASE EraseRun(t)
  <2>1. /\ at' = [at EXCEPT ![t] = "none"] /\ locked' = locked
        /\ pt[t] = "cleanup" /\ pt' = [pt EXCEPT ![t] = "ended"]
    BY <1>4 DEF EraseRun, Erase
  <2> QED
    BY <1>1, <2>1 DEF TypeOK, Places
<1>5. CASE UnwindRun(t)
  <2>1. /\ at' = [at EXCEPT ![t] = "none"]
        /\ locked' = (locked /\ at[t] \notin {"print", "last"})
        /\ pt' = [pt EXCEPT ![t] = "cleanup"]
    BY <1>5 DEF UnwindRun, Unwind
  <2> QED
    BY <1>1, <2>1, ZenonT(60) DEF TypeOK, Places
<1>6. CASE Leave(t) /\ at[t] \in {"start", "test"} /\ locked' = locked
  <2>1. at' = [at EXCEPT ![t] = "stop"] /\ pt' = [pt EXCEPT ![t] = "cleanup"]
    BY <1>6 DEF Leave, Return
  <2> QED
    BY <1>1, <1>6, <2>1 DEF TypeOK, Places
<1>7. CASE PrintedLast(t)
  <2>1. /\ at' = [at EXCEPT ![t] = "stop"] /\ pt' = [pt EXCEPT ![t] = "cleanup"]
        /\ at[t] = "last" /\ locked' = FALSE
    BY <1>7 DEF PrintedLast, Leave, Return, IsAt
  <2> QED
    BY <1>1, <2>1, ZenonT(60) DEF TypeOK, Places
<1>8. CASE OnStart(t) \/ TestExit(t) \/ Pause(t)
  <2>1. /\ \E to \in {"test", "look"} : at' = [at EXCEPT ![t] = to]
        /\ at[t] \in {"start", "test", "pause"} /\ locked' = locked /\ pt' = pt
    BY <1>8 DEF OnStart, TestExit, Pause, IsAt, vars
  <2> QED
    BY <1>1, <2>1 DEF TypeOK, Places
<1>9. CASE Look(t)
  <2>1. at[t] = "look" /\ locked # TRUE /\ pt' = pt
    BY <1>9 DEF Look, IsAt, vars
  <2>2. CASE at' = [at EXCEPT ![t] = "pause"] /\ locked' = locked
    BY <1>1, <2>1, <2>2 DEF TypeOK, Places
  <2>3. ASSUME NEW to \in {"print", "last"}, at' = [at EXCEPT ![t] = to], locked' = TRUE
        PROVE  QueueInv'
    <3>1. locked = FALSE /\ \A u \in Threads : at'[u] = IF u = t THEN to ELSE at[u]
      BY <2>1, <2>3
    <3>2. \A c \in Controllers : acting[c] # "push"
      BY <3>1
    <3>3. \A u \in Threads : at[u] \notin {"print", "last"}
      BY <3>1
    <3> QED
      BY <1>1, <2>1, <2>3, <3>1, <3>2, <3>3 DEF TypeOK, Places
  <2> QED
    BY <1>9, <2>2, <2>3 DEF Look
<1>10. CASE Printed(t)
  <2>1. at' = [at EXCEPT ![t] = "pause"] /\ at[t] = "print" /\ locked' = FALSE /\ pt' = pt
    BY <1>10 DEF Printed, IsAt, vars
  <2> QED
    BY <1>1, <2>1, ZenonT(60) DEF TypeOK, Places
<1>11. OnStartFails(t) \/ ExitLoop(t) => Leave(t) /\ at[t] \in {"start", "test"} /\ locked' = locked
  BY DEF OnStartFails, ExitLoop, IsAt
<1> HIDE DEF QueueInv
<1> QED
  BY <1>2, <1>3, <1>4, <1>5, <1>6, <1>7, <1>8, <1>9, <1>10, <1>11, Zenon DEF RunStep

\* Every step keeps the invariant of the queue.
LEMMA QueueStep == TypeOK /\ QueueInv /\ [AbsNext]_absVars => QueueInv'
<1> SUFFICES ASSUME TypeOK, QueueInv, [AbsNext]_absVars PROVE QueueInv'
  OBVIOUS
<1>1. CASE UNCHANGED absVars
  BY <1>1 DEF absVars, vars, own, QueueInv, RunTypes, QueueLock
<1>2. CASE Plain
  BY <1>2 DEF Plain, own, QueueInv, RunTypes, QueueLock
<1>3. Starters \subseteq Controllers
  BY ThreadAssumption
<1> QED
  BY <1>1, <1>2, <1>3, ControlKeepsQueue, RunKeepsQueue, Zenon DEF AbsNext

LEMMA QueueInit == AbsInit => QueueInv
<1> SUFFICES ASSUME AbsInit PROVE RunTypes /\ QueueLock
  BY DEF QueueInv
<1>1. locked = FALSE /\ (\A t \in Threads : at[t] = "none")
        /\ \A c \in Controllers : acting[c] = "none"
  BY DEF AbsInit
<1>2. RunTypes
  BY <1>1 DEF AbsInit, RunTypes, Places
<1>3. QueueLock
  BY <1>1 DEF QueueLock
<1> QED
  BY <1>2, <1>3

\* The lock of the queue is held just by the one thread that is inside SetSum or
\* OnLooping: a thread that is cancelled in there leaves it unlocked.
THEOREM QueueLockIsReleased == AbsSpec => []LockIsReleased
<1>1. AbsInit => QueueInv
  BY QueueInit
<1>2. QueueInv => LockIsReleased
  BY QueueLockSuffices DEF QueueInv
<1> QED
  BY <1>1, <1>2, QueueStep, AbsLife, PTL DEF AbsSpec

-----------------------------------------------------------------------------
(* Times. *)

LEMMA Remainder ==
    ASSUME NEW n \in Nat, NEW d \in Nat, d > 0
    PROVE  /\ n % d \in 0 .. d - 1 /\ n \div d \in Nat
           /\ n % d = n - d * (n \div d)
<1>1. n % d \in 0 .. d - 1 /\ n \div d \in Nat
  BY SMTT(30)
<1>2. n % d = n - d * (n \div d)
  BY SMTT(30)
<1> QED
  BY <1>1, <1>2

LEMMA Commutes == \A i, j \in Nat : i * j = j * i /\ i * j \in Nat
  OBVIOUS

LEMMA Distributes ==
    \A i, j, k \in Nat : (i + j) * k = i * k + j * k /\ (i + j + 1) * k = i * k + j * k + k
  OBVIOUS

\* A struct timespec made by division stands for the time it is made of.
LEMMA TimespecIsExact ==
    ASSUME NEW time \in Nat
    PROVE  Normal(Timespec(time)) /\ Nanos(Timespec(time)) = time
<1>1. BILLION \in Nat /\ BILLION > 0
  BY TimeAssumption
<1> DEFINE q == time \div BILLION
           r == time % BILLION
<1>2. r \in 0 .. BILLION - 1 /\ q \in Nat /\ r = time - BILLION * q
  BY <1>1, Remainder
<1>3. q * BILLION = BILLION * q /\ q * BILLION \in Nat
  BY <1>1, <1>2, Commutes
<1>4. q * BILLION + r = time
  <2> HIDE DEF q, r
  <2> QED
    BY <1>1, <1>2, <1>3
<1>5. Timespec(time) = [sec |-> q, nsec |-> r]
  BY DEF Timespec
<1> HIDE DEF q, r
<1> QED
  BY <1>1, <1>2, <1>4, <1>5 DEF Normal, Nanos

\* MilliSleep asks for a time that nanosleep accepts, and for the right one when
\* the product fits into an unsigned int; MicroSleep likewise.
THEOREM SleepIsExact ==
    ASSUME NEW time \in Nat
    PROVE  /\ Normal(MilliSleep(time)) /\ Normal(MicroSleep(time)) /\ Normal(NanoSleep(time))
           /\ time * MILLION < Word => Nanos(MilliSleep(time)) = time * MILLION
           /\ time * THOUSAND < Word => Nanos(MicroSleep(time)) = time * THOUSAND
           /\ Nanos(NanoSleep(time)) = time
<1>1. \A n \in Nat : n % Word \in Nat /\ (n < Word => n % Word = n)
  BY TimeAssumption
<1>2. time * MILLION \in Nat /\ time * THOUSAND \in Nat
  BY TimeAssumption
<1> QED
  BY <1>1, <1>2, TimespecIsExact DEF MilliSleep, MicroSleep, NanoSleep

LEMMA CarriedOver ==
    ASSUME NEW s, NEW n, n >= BILLION
    PROVE  (IF n >= BILLION THEN [sec |-> s + 1, nsec |-> n - BILLION] ELSE [sec |-> s, nsec |-> n])
              = [sec |-> s + 1, nsec |-> n - BILLION]
  BY Zenon

\* The sum of two times is a time, and stands for the sum of both.
LEMMA TimeAddIsExact ==
    ASSUME NEW t1 \in [sec : Nat, nsec : Nat], NEW t2 \in [sec : Nat, nsec : Nat],
           Normal(t1), Normal(t2)
    PROVE  /\ Normal(timeAdd(t1, t2)) /\ Nanos(timeAdd(t1, t2)) = Nanos(t1) + Nanos(t2)
<1>1. BILLION \in Nat /\ BILLION > 0
  BY TimeAssumption
<1>2. CASE t2.nsec + t1.nsec >= BILLION
  <2>1. timeAdd(t1, t2) = [sec |-> t2.sec + t1.sec + 1, nsec |-> t2.nsec + t1.nsec - BILLION]
    BY <1>1, <1>2, CarriedOver, SMTT(30) DEF timeAdd
  <2>2. (t2.sec + t1.sec + 1) * BILLION = t2.sec * BILLION + t1.sec * BILLION + BILLION
    BY <1>1, Distributes
  <2>3. t2.sec * BILLION \in Nat /\ t1.sec * BILLION \in Nat
    BY <1>1, Commutes
  <2>4. Nanos(timeAdd(t1, t2)) = Nanos(t1) + Nanos(t2)
    BY <1>1, <2>1, <2>2, <2>3 DEF Nanos
  <2> QED
    BY <1>1, <1>2, <2>1, <2>4 DEF Normal
<1>3. CASE ~(t2.nsec + t1.nsec >= BILLION)
  <2>1. timeAdd(t1, t2) = [sec |-> t2.sec + t1.sec, nsec |-> t2.nsec + t1.nsec]
    BY <1>3 DEF timeAdd
  <2>2. (t2.sec + t1.sec) * BILLION = t2.sec * BILLION + t1.sec * BILLION
    BY <1>1, Distributes
  <2>3. t2.sec * BILLION \in Nat /\ t1.sec * BILLION \in Nat
    BY <1>1, Commutes
  <2>4. Nanos(timeAdd(t1, t2)) = Nanos(t1) + Nanos(t2)
    BY <1>1, <2>1, <2>2, <2>3 DEF Nanos
  <2> QED
    BY <1>1, <1>3, <2>1, <2>4 DEF Normal
<1> QED
  BY <1>2, <1>3

\* The times of timeAdd add up whatever their signs, as nanoseconds.
LEMMA TimeAddSums ==
    ASSUME NEW t1 \in [sec : Int, nsec : Int], NEW t2 \in [sec : Int, nsec : Int]
    PROVE  Nanos(timeAdd(t1, t2)) = Nanos(t1) + Nanos(t2)
<1>1. BILLION \in Nat /\ BILLION > 0
  BY TimeAssumption
<1>2. \A i, j \in Int : (i + j) * BILLION = i * BILLION + j * BILLION
                       /\ (i + j + 1) * BILLION = i * BILLION + j * BILLION + BILLION
                       /\ i * BILLION \in Int
  BY <1>1
<1>3. CASE t2.nsec + t1.nsec >= BILLION
  <2>1. timeAdd(t1, t2) = [sec |-> t2.sec + t1.sec + 1, nsec |-> t2.nsec + t1.nsec - BILLION]
    BY <1>1, <1>3, CarriedOver, SMTT(30) DEF timeAdd
  <2> QED
    BY <1>1, <1>2, <2>1 DEF Nanos
<1>4. CASE ~(t2.nsec + t1.nsec >= BILLION)
  <2>1. timeAdd(t1, t2) = [sec |-> t2.sec + t1.sec, nsec |-> t2.nsec + t1.nsec]
    BY <1>4 DEF timeAdd
  <2> QED
    BY <1>1, <1>2, <2>1 DEF Nanos
<1> QED
  BY <1>3, <1>4

\* A negative long becomes a timespec that stands for it.
LEMMA NegativeTimespec ==
    ASSUME NEW time \in Int, time < 0
    PROVE  LongTimespec(time) \in [sec : Int, nsec : Int] /\ Nanos(LongTimespec(time)) = time
<1>1. BILLION \in Nat /\ BILLION > 0
  BY TimeAssumption
<1> DEFINE q == (-time) \div BILLION
           r == (-time) % BILLION
<1>2. -time \in Nat /\ ~(time >= 0)
  OBVIOUS
<1>3. q \in Nat /\ r \in Nat /\ r = (-time) - BILLION * q
  BY <1>1, <1>2, Remainder
<1>4. LongTimespec(time) = [sec |-> -q, nsec |-> -r]
  BY <1>2 DEF LongTimespec, Timespec
<1> HIDE DEF q, r
<1>5. (-q) * BILLION = -(BILLION * q) /\ BILLION * q \in Nat
  BY <1>1, <1>3
<1> QED
  BY <1>1, <1>3, <1>4, <1>5 DEF Nanos

\* The time at which TimedSend and TimedReceive give up, as long as the
\* milliseconds asked for are a long in nanoseconds, is one that mq_timedsend
\* accepts, and so many milliseconds after now. When they are an unsigned long
\* but not a long (from 2.1 seconds on where a long has 32 bits), it is over
\* before the call begins.
THEOREM DeadlineIsExact ==
    ASSUME NEW now \in [sec : Nat, nsec : Nat], Normal(now), NEW millisec \in Nat
    PROVE  /\ millisec * MILLION < LongWord \div 2 =>
                  /\ Normal(Deadline(now, millisec))
                  /\ Nanos(Deadline(now, millisec)) = Nanos(now) + millisec * MILLION
           /\ LongWord \div 2 <= millisec * MILLION /\ millisec * MILLION < LongWord =>
                  Nanos(Deadline(now, millisec)) < Nanos(now)
<1> DEFINE p == millisec * MILLION
<1>1. p \in Nat
  BY TimeAssumption
<1>2. \A time \in Nat : time \div BILLION \in Nat /\ time % BILLION \in Nat
  BY TimeAssumption
<1>3. LongWord \in Nat /\ LongWord > 0 /\ LongWord \div 2 \in Nat /\ LongWord \div 2 < LongWord
  BY TimeAssumption
<1>4. Deadline(now, millisec) = timeAdd(now, LongTimespec(Long(p % LongWord)))
  BY DEF Deadline
<1> HIDE DEF p
<1>5. p < LongWord => p % LongWord = p
  BY <1>1, <1>3, SMTT(30)
<1>6. ASSUME p < LongWord \div 2
      PROVE  Normal(Deadline(now, millisec)) /\ Nanos(Deadline(now, millisec)) = Nanos(now) + p
  <2>1. p % LongWord = p
    BY <1>1, <1>3, <1>5, <1>6
  <2>2. Long(p % LongWord) = p
    BY <1>6, <2>1 DEF Long
  <2>3. LongTimespec(p) = Timespec(p)
    BY <1>1 DEF LongTimespec
  <2>4. Timespec(p) \in [sec : Nat, nsec : Nat]
    BY <1>1, <1>2 DEF Timespec
  <2> QED
    BY <1>1, <1>4, <2>2, <2>3, <2>4, TimespecIsExact, TimeAddIsExact
<1>7. ASSUME LongWord \div 2 <= p, p < LongWord
      PROVE  Nanos(Deadline(now, millisec)) < Nanos(now)
  <2>1. p % LongWord = p /\ ~(p < LongWord \div 2)
    BY <1>1, <1>3, <1>5, <1>7
  <2>2. Long(p % LongWord) = p - LongWord
    BY <2>1 DEF Long
  <2>3. p - LongWord \in Int /\ p - LongWord < 0
    BY <1>1, <1>3, <1>7
  <2>4. /\ LongTimespec(p - LongWord) \in [sec : Int, nsec : Int]
        /\ Nanos(LongTimespec(p - LongWord)) = p - LongWord
    BY <2>3, NegativeTimespec
  <2>5. now \in [sec : Int, nsec : Int]
    OBVIOUS
  <2>6. Nanos(Deadline(now, millisec)) = Nanos(now) + (p - LongWord)
    BY <1>4, <2>2, <2>4, <2>5, TimeAddSums
  <2>7. Nanos(now) \in Int
    BY TimeAssumption DEF Nanos
  <2> QED
    BY <2>3, <2>6, <2>7
<1> QED
  BY <1>6, <1>7 DEF p

PauseInv ==
    /\ m_freq \in Freqs
    /\ \E millisec \in Freqs \cup {0} :
          pause = [millisec |-> millisec, request |-> MilliSleep(millisec)]

LEMMA PauseStep == PauseInv /\ [AbsNext]_absVars => PauseInv'
<1> SUFFICES ASSUME PauseInv, [AbsNext]_absVars PROVE PauseInv'
  OBVIOUS
<1>1. ASSUME NEW t \in Threads, Pause(t) PROVE PauseInv'
  BY <1>1 DEF Pause, PauseInv
<1>2. ASSUME NEW c \in Controllers, NEW freq \in Freqs, Initialize(c, freq) PROVE PauseInv'
  BY <1>2 DEF Initialize, PauseInv
<1>3. ASSUME UNCHANGED <<m_freq, pause>> PROVE PauseInv'
  BY <1>3 DEF PauseInv
<1>4. UNCHANGED absVars \/ Plain => UNCHANGED <<m_freq, pause>>
  BY DEF absVars, own, Plain
<1>5. ASSUME NEW c \in Controllers, Control(c) PROVE PauseInv'
  <2>0. \/ SetExit(c) \/ CancelThread(c) \/ Destroy(c) \/ Block(c) \/ Unblock(c)
        \/ LockToSet(c) \/ (\E how \in {"exit", "cancel"} : StopThread(c, how))
        \/ \E sum \in Sums : SetSum(c, sum)
        => UNCHANGED <<m_freq, pause>>
    BY DEF StopThread, SetExit, CancelThread, Destroy, Block, Unblock, LockToSet, SetSum, own
  <2>1. UNCHANGED <<m_freq, pause>> \/ \E freq \in Freqs : Initialize(c, freq)
    BY <1>5, <2>0, Zenon DEF Control
  <2> QED
    BY <2>1, <1>2, <1>3
<1>6. ASSUME NEW c \in Starters, Launch(c) \/ \E isBlock \in BOOLEAN : StartThread(c, isBlock)
      PROVE  UNCHANGED <<m_freq, pause>>
  BY <1>6 DEF Launch, StartThread, own
<1>7. ASSUME NEW t \in Threads,
             \/ BeginRun(t) \/ RunStep(t) \/ UnwindRun(t)
             \/ EraseRun(t) \/ OnStopCancelled(t) \/ RunOn(t)
      PROVE  Pause(t) \/ UNCHANGED <<m_freq, pause>>
  BY <1>7 DEF BeginRun, RunStep, UnwindRun, EraseRun, OnStopCancelled, RunOn, OnStart,
              OnStartFails, TestExit, ExitLoop, Look, Printed, PrintedLast, Leave
<1> QED
  BY <1>1, <1>3, <1>4, <1>5, <1>6, <1>7, Zenon DEF AbsNext

LEMMA PauseInit == AbsInit => PauseInv
<1>1. MilliSleep(0) = Timespec(0)
  BY TimeAssumption DEF MilliSleep
<1> QED
  BY <1>1 DEF AbsInit, PauseInv

\* Every pause of Run asks nanosleep for the time that Initialize was given, as
\* long as the product of MilliSleep does not overflow.
THEOREM PausesAreExact == AbsSpec => []PauseIsExact
<1>1. AbsInit => PauseInv
  BY PauseInit
<1>2. PauseInv => PauseIsExact
  BY SleepIsExact, AbsAssumption DEF PauseInv, PauseIsExact
<1> QED
  BY <1>1, <1>2, PauseStep, PTL DEF AbsSpec

-----------------------------------------------------------------------------
(* The types. *)

Flags ==
    /\ isAbstract \in BOOLEAN /\ m_exit \in BOOLEAN
    /\ destroyed \in BOOLEAN /\ harmed \in BOOLEAN
    /\ m_queue \in Seq(Sums)

LEMMA FlagsStep == Flags /\ [AbsNext]_absVars => Flags'
<1> SUFFICES ASSUME Flags, [AbsNext]_absVars PROVE Flags'
  OBVIOUS
<1> USE DEF Flags
<1>1. CASE UNCHANGED absVars \/ Plain
  BY <1>1 DEF absVars, own, Plain
<1>2. ASSUME NEW c \in Controllers, NEW sum \in Sums, SetSum(c, sum) PROVE Flags'
  BY <1>2 DEF SetSum
<1>3. ASSUME NEW c \in Controllers, Control(c) PROVE Flags'
  <2>1. \/ SetExit(c) \/ CancelThread(c) \/ Destroy(c) \/ Block(c) \/ Unblock(c)
        \/ LockToSet(c) \/ (\E how \in {"exit", "cancel"} : StopThread(c, how))
        \/ (\E freq \in Freqs : Initialize(c, freq))
        => /\ UNCHANGED <<isAbstract, m_queue, harmed>>
           /\ m_exit' \in {TRUE, m_exit} /\ destroyed' \in {TRUE, destroyed}
    BY DEF StopThread, SetExit, CancelThread, Destroy, Block, Unblock, LockToSet, Initialize, own
  <2> QED
    BY <1>2, <1>3, <2>1, Zenon DEF Control
<1>4. ASSUME NEW c \in Starters, Launch(c) \/ \E isBlock \in BOOLEAN : StartThread(c, isBlock)
      PROVE  Flags'
  BY <1>4 DEF Launch, StartThread, own
<1>5. ASSUME NEW t \in Threads, Look(t) PROVE Flags'
  BY <1>5 DEF Look
<1>6. ASSUME NEW t \in Threads,
             \/ BeginRun(t) \/ RunStep(t) \/ UnwindRun(t)
             \/ EraseRun(t) \/ OnStopCancelled(t) \/ RunOn(t)
      PROVE  \/ Look(t)
             \/ UNCHANGED <<isAbstract, m_queue, m_exit, destroyed>> /\ harmed' \in {TRUE, harmed}
  BY <1>6 DEF BeginRun, RunStep, UnwindRun, EraseRun, OnStopCancelled, RunOn, OnStart,
              OnStartFails, TestExit, ExitLoop, Printed, PrintedLast, Pause, Leave
<1>7. ASSUME UNCHANGED <<isAbstract, m_queue, m_exit, destroyed>>, harmed' \in {TRUE, harmed}
      PROVE  Flags'
  BY <1>7
<1> HIDE DEF Flags
<1> QED
  BY <1>1, <1>3, <1>4, <1>5, <1>6, <1>7, Zenon DEF AbsNext

\* The object, its Thread and the threads that use it keep to their types: the
\* POSIX thread is in the part of its life that its place in Run says.
THEOREM AbsTypesAreCorrect == AbsSpec => []AbsTypeOK
<1>1. AbsInit => Flags
  <2>1. <<>> \in Seq(Sums)
    OBVIOUS
  <2>2. ASSUME m_queue = <<>> PROVE m_queue \in Seq(Sums)
    BY <2>1, <2>2
  <2>3. AbsInit => isAbstract \in BOOLEAN /\ m_queue = <<>>
    BY DEF AbsInit
  <2>4. AbsInit => m_exit \in BOOLEAN /\ destroyed \in BOOLEAN /\ harmed \in BOOLEAN
    BY DEF AbsInit
  <2> QED
    BY <2>2, <2>3, <2>4, Zenon DEF Flags
<1>2. TypeOK /\ QueueInv /\ PauseInv /\ Flags => AbsTypeOK
  BY DEF QueueInv, RunTypes, PauseInv, Flags, AbsTypeOK
<1> QED
  BY <1>1, <1>2, FlagsStep, QueueInit, QueueStep, PauseInit, PauseStep, AbsLife, PTL DEF AbsSpec
=============================================================================
