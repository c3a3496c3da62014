----------------------------- MODULE ThreadLife -----------------------------
(***************************************************************************)
(* One Thread object: the threads of the program that call its Start,      *)
(* Cancel and Join, the POSIX threads that Start creates for it one after  *)
(* the other, and the map behind Thread::CurrentThread.  m_isActive is     *)
(* tested and set without a lock by Start, and set again by the thread.    *)
(*                                                                         *)
(* POSIX threads are numbered as they are created; m_thread and m_threadId *)
(* are such a number, or 0: m_thread holds no thread, or, after a          *)
(* pthread_create that failed, nothing that can be relied on.  Cancelling  *)
(* or joining a thread that has been joined, or that never was, is         *)
(* undefined: the behaviour ends there.                                    *)
(***************************************************************************)
EXTENDS Naturals

CONSTANTS Controllers,  \* threads that call Cancel and Join
          Starters,     \* those of them that call Start
          MaxThreads    \* bound: POSIX threads created

ASSUME ThreadAssumption == Starters \subseteq Controllers /\ MaxThreads \in Nat

VARIABLES
    handle,     \* m_thread
    isActive,   \* m_isActive
    threadId,   \* m_threadId
    threadMap,  \* the POSIX threads that threadMap leads from to this object
    created,    \* POSIX threads created so far
    pt,         \* where each POSIX thread is
    cancelled,  \* those with a cancellation request
    cpc,        \* where each controller is
    joins,      \* for each controller, the POSIX thread it waits for
    failed,     \* pthread_create has failed
    aborted,    \* the assertion of the clean-up handler has failed
    undefined   \* pthread_cancel or pthread_join on a handle that is dead

object == <<handle, isActive, threadId, threadMap>>
vars == <<object, created, pt, cancelled, cpc, joins, aborted, undefined, failed>>

Threads == 1 .. MaxThreads

\* The program has not come to grief.
Defined == ~aborted /\ ~undefined

Init ==
    /\ handle = 0 /\ isActive = FALSE /\ threadId = 0 /\ threadMap = {}
    /\ created = 0 /\ pt = [t \in Threads |-> "none"] /\ cancelled = {}
    /\ cpc = [c \in Controllers |-> "idle"] /\ joins = [c \in Controllers |-> 0]
    /\ failed = FALSE /\ aborted = FALSE /\ undefined = FALSE

-----------------------------------------------------------------------------
(* The controllers. *)

\* A mutant of Start: an active thread is started again.
StartAgain(c) ==
    /\ Defined
    /\ cpc[c] = "idle"
    /\ created < MaxThreads
    /\ cpc' = [cpc EXCEPT ![c] = "starting"]
    /\ UNCHANGED <<object, created, pt, cancelled, joins, aborted, undefined, failed>>

\* The test of Start; when the thread is active it returns.
Start(c) ==
    /\ Defined
    /\ cpc[c] = "idle"
    /\ ~isActive
    /\ created < MaxThreads
    /\ cpc' = [cpc EXCEPT ![c] = "starting"]
    /\ UNCHANGED <<object, created, pt, cancelled, joins, aborted, undefined, failed>>

\* A mutant of Create: m_thread keeps its first thread.
CreateElsewhere(c) ==
    /\ Defined
    /\ cpc[c] = "starting"
    /\ created < MaxThreads
    /\ isActive' = TRUE
    /\ created' = created + 1
    /\ handle' = IF handle = 0 THEN created + 1 ELSE handle
    /\ pt' = [pt EXCEPT ![created + 1] = "created"]
    /\ cpc' = [cpc EXCEPT ![c] = "idle"]
    /\ UNCHANGED <<threadId, threadMap, cancelled, joins, aborted, undefined, failed>>

\* The rest of it: m_isActive, and pthread_create writes m_thread.
Create(c) ==
    /\ Defined
    /\ cpc[c] = "starting"
    /\ created < MaxThreads
    /\ isActive' = TRUE
    /\ created' = created + 1
    /\ handle' = created + 1
    /\ pt' = [pt EXCEPT ![created + 1] = "created"]
    /\ cpc' = [cpc EXCEPT ![c] = "idle"]
    /\ UNCHANGED <<threadId, threadMap, cancelled, joins, aborted, undefined, failed>>

\* pthread_create fails, which nobody notices: m_isActive stays, and m_thread
\* is what it was or what the failed call left in it.
CreateFails(c) ==
    /\ Defined
    /\ cpc[c] = "starting"
    /\ isActive' = TRUE
    /\ failed' = TRUE
    /\ handle' \in {handle, 0}
    /\ cpc' = [cpc EXCEPT ![c] = "idle"]
    /\ UNCHANGED <<threadId, threadMap, created, pt, cancelled, joins, aborted, undefined>>

\* m_thread is a thread that can be cancelled and joined.
IsAlive == handle # 0 /\ pt[handle] # "joined"

Cancel(c) ==
    /\ Defined
    /\ cpc[c] = "idle"
    /\ IF IsAlive
       THEN cancelled' = cancelled \cup {handle} /\ UNCHANGED undefined
       ELSE undefined' = TRUE /\ UNCHANGED cancelled
    /\ UNCHANGED <<object, created, pt, cpc, joins, aborted, failed>>

\* pthread_join; two threads must not join the same one.
Join(c) ==
    /\ Defined
    /\ cpc[c] = "idle"
    /\ IF IsAlive /\ \A d \in Controllers : cpc[d] = "joining" => joins[d] # handle
       THEN /\ cpc' = [cpc EXCEPT ![c] = "joining"]
            /\ joins' = [joins EXCEPT ![c] = handle]
            /\ UNCHANGED undefined
       ELSE undefined' = TRUE /\ UNCHANGED <<cpc, joins>>
    /\ UNCHANGED <<object, created, pt, cancelled, aborted, failed>>

\* A mutant of Joined: a thread whose work is done can be joined.
JoinedEarly(c) ==
    /\ Defined
    /\ cpc[c] = "joining"
    /\ pt[joins[c]] \in {"cleanup", "ended"}
    /\ pt' = [pt EXCEPT ![joins[c]] = "joined"]
    /\ cpc' = [cpc EXCEPT ![c] = "idle"]
    /\ UNCHANGED <<object, created, cancelled, joins, aborted, undefined, failed>>

Joined(c) ==
    /\ Defined
    /\ cpc[c] = "joining"
    /\ pt[joins[c]] = "ended"
    /\ pt' = [pt EXCEPT ![joins[c]] = "joined"]
    /\ cpc' = [cpc EXCEPT ![c] = "idle"]
    /\ UNCHANGED <<object, created, cancelled, joins, aborted, undefined, failed>>

-----------------------------------------------------------------------------
(* A POSIX thread: wrapperFunction and thread_cleanup_handler. *)

\* A mutant of Begin: m_threadId is not written.
BeginNameless(t) ==
    /\ Defined
    /\ pt[t] = "created"
    /\ pt' = [pt EXCEPT ![t] = "running"]
    /\ threadMap' = threadMap \cup {t}
    /\ isActive' = TRUE
    /\ UNCHANGED <<handle, threadId, created, cancelled, cpc, joins, aborted, undefined, failed>>

\* The thread enters itself into the map.
Begin(t) ==
    /\ Defined
    /\ pt[t] = "created"
    /\ pt' = [pt EXCEPT ![t] = "running"]
    /\ threadMap' = threadMap \cup {t}
    /\ threadId' = t
    /\ isActive' = TRUE
    /\ UNCHANGED <<handle, created, cancelled, cpc, joins, aborted, undefined, failed>>

\* Run comes to its end.
Return(t) ==
    /\ Defined
    /\ pt[t] = "running"
    /\ pt' = [pt EXCEPT ![t] = "cleanup"]
    /\ UNCHANGED <<object, created, cancelled, cpc, joins, aborted, undefined, failed>>

\* A mutant of Unwind: Run has cancellation disabled.
UnwindNot(t) ==
    /\ Defined
    /\ pt[t] = "running" /\ t \in cancelled
    /\ UNCHANGED vars

\* Run is at a cancellation point, with a request pending.
Unwind(t) ==
    /\ Defined
    /\ pt[t] = "running" /\ t \in cancelled
    /\ pt' = [pt EXCEPT ![t] = "cleanup"]
    /\ UNCHANGED <<object, created, cancelled, cpc, joins, aborted, undefined, failed>>

\* The clean-up handler takes the thread m_threadId names out of the map and
\* asserts that it was there.
Erase(t) ==
    /\ Defined
    /\ pt[t] = "cleanup"
    /\ aborted' = (threadId \notin threadMap)
    /\ threadMap' = threadMap \ {threadId}
    /\ threadId' = 0
    /\ isActive' = FALSE
    /\ pt' = [pt EXCEPT ![t] = "ended"]
    /\ UNCHANGED <<handle, created, cancelled, cpc, joins, undefined, failed>>

-----------------------------------------------------------------------------
Next ==
    \/ \E c \in Starters : Start(c) \/ Create(c) \/ CreateFails(c)
    \/ \E c \in Controllers : Cancel(c) \/ Join(c) \/ Joined(c)
    \/ \E t \in Threads : Begin(t) \/ Return(t) \/ Unwind(t) \/ Erase(t)

\* Threads run, and get to a cancellation point of Run.
Fairness ==
    /\ \A c \in Controllers : WF_vars(Joined(c))
    /\ \A t \in Threads : WF_vars(Begin(t) \/ Unwind(t) \/ Erase(t))

Spec == Init /\ [][Next]_vars /\ Fairness

-----------------------------------------------------------------------------
(* Properties. *)

\* Where a POSIX thread may be.
States == {"none", "created", "running", "cleanup", "ended", "joined"}

\* Type invariant: m_thread is the POSIX thread of the last Start that made one.
TypeOK ==
    /\ created \in 0 .. MaxThreads /\ threadId \in 0 .. created
    /\ handle \in {0, created} /\ (failed \/ handle = created)
    /\ threadMap \subseteq 1 .. created /\ cancelled \subseteq 1 .. created
    /\ pt \in [Threads -> States]
    /\ \A t \in Threads : pt[t] = "none" <=> t > created
    /\ cpc \in [Controllers -> {"idle", "starting", "joining"}]
    /\ joins \in [Controllers -> 0 .. created]
    /\ \A c \in Controllers : cpc[c] = "joining" => joins[c] # 0
    /\ isActive \in BOOLEAN /\ failed \in BOOLEAN /\ aborted \in BOOLEAN /\ undefined \in BOOLEAN

\* A POSIX thread that has not yet taken itself out of the map.
Live(t) == pt[t] \in {"created", "running", "cleanup"}

\* Start is called by one thread only.
OneStarter == \A c, d \in Starters : c = d

\* With one thread that calls Start, the runnable is in one POSIX thread at a
\* time, and IsActive is true as long as it is, from Start to the clean-up.
OneThread ==
    OneStarter =>
        /\ \A t, u \in Threads : Live(t) /\ Live(u) => t = u
        /\ \A t \in Threads : Live(t) => isActive

\* The map leads from a thread to this object just while its Run or its Cleanup
\* executes, m_threadId names that thread, and the assertion holds.
MapIsExact ==
    OneStarter =>
        /\ ~aborted
        /\ threadMap = {t \in Threads : pt[t] \in {"running", "cleanup"}}
        /\ \A t \in threadMap : threadId = t

\* Thread.h:82, "Join() After that, the thread processing is finished and is
\* inactive": when the thread that calls Start comes back from Join.  After a
\* pthread_create that failed it may find the object active for ever.
JoinLeavesInactive ==
    [][\A c \in Starters : OneStarter /\ cpc[c] = "joining" /\ cpc'[c] = "idle"
          => (isActive' => failed) /\ \A t \in Threads : ~Live(t)']_vars

-----------------------------------------------------------------------------
(* The inductive invariant behind OneThread, MapIsExact and               *)
(* JoinLeavesInactive: only the thread of the last Start can be live, and  *)
(* m_isActive tells whether it is, or that pthread_create has failed.      *)

OnlyTheLast ==
    /\ \A t \in Threads : Live(t) => t = created /\ ~failed
    /\ isActive <=> failed \/ (created # 0 /\ Live(created))

\* A controller that has passed the test of Start has seen the last thread out.
StartersWait ==
    \A c \in Controllers :
        /\ cpc[c] = "starting" => c \in Starters /\ ~isActive
        /\ cpc[c] = "joining" /\ c \in Starters => joins[c] = created

LifeInv == OneStarter => OnlyTheLast /\ StartersWait /\ MapIsExact
=============================================================================
