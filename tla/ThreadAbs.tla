----------------------------- MODULE ThreadAbs -----------------------------
(***************************************************************************)
(* A Thread by itself, or the m_thread of a ThreadAbstract: StartThread    *)
(* and StopThread above Start, Cancel and Join of ThreadLife, the loop of  *)
(* Run with m_exit and its pauses, and the destructor.  The derived class  *)
(* is TestThread of the example: OnLooping takes one number from a queue   *)
(* under a MutexLock and prints it, and SetSum puts one in.                *)
(*                                                                         *)
(* printf may, and nanosleep must, end a thread that is cancelled; the     *)
(* unwinding of its stack then runs the destructors of its MutexLocks.     *)
(* A POSIX thread that goes on in an object that is destroyed has no       *)
(* defined behaviour, and one that is cancelled in the printf of OnStop    *)
(* after Run has returned throws out of the destructor that called the     *)
(* clean-up handler, which ends the program: the model ends there.         *)
(***************************************************************************)
EXTENDS ThreadLife, TimeArith, Sequences

CONSTANTS Sums,    \* the numbers SetSum is called with
          Large,   \* those of them greater than 5, which end the thread
          Freqs,   \* the values of Initialize, in milliseconds
          MaxSums  \* bound: numbers in the queue

ASSUME AbsAssumption == Large \subseteq Sums /\ Freqs \subseteq Nat /\ MaxSums \in Nat

VARIABLES
    isAbstract, \* the object is the m_thread of a TestThread
    m_exit,
    m_freq,
    at,         \* where in Run each POSIX thread is
    acting,     \* what each controller is in the middle of
    locked,     \* m_mutex of TestThread is locked
    m_queue,
    pause,      \* the last request to nanosleep, and its milliseconds
    destroyed,  \* the destructor has begun
    harmed      \* a POSIX thread has come to one of those ends

own == <<m_exit, m_freq, at, acting, locked, m_queue, pause, destroyed, harmed>>
absVars == <<vars, isAbstract, own>>

Sound == Defined /\ ~harmed

AbsInit ==
    /\ Init
    /\ isAbstract \in BOOLEAN
    /\ m_exit = FALSE
    /\ m_freq \in Freqs
    /\ at = [t \in Threads |-> "none"]
    /\ acting = [c \in Controllers |-> "none"]
    /\ locked = FALSE /\ m_queue = <<>>
    /\ pause = [millisec |-> 0, request |-> Timespec(0)]
    /\ destroyed = FALSE /\ harmed = FALSE

\* A controller with nothing under way, in an object that still exists.
Free(c) == Sound /\ isAbstract /\ ~destroyed /\ acting[c] = "none" /\ cpc[c] = "idle"

-----------------------------------------------------------------------------
(* A Thread by itself, as in ThreadLife. *)

Plain ==
    /\ ~isAbstract
    /\ Next
    /\ UNCHANGED <<isAbstract, own>>

-----------------------------------------------------------------------------
(* StartThread, StopThread, Initialize and the destructor. *)

\* IsActive, and the test of Start, which a change in between does not pass
\* twice; SetRunner and SetName change nothing here.
StartThread(c, isBlock) ==
    /\ Free(c)
    /\ Start(c)
    /\ acting' = [acting EXCEPT ![c] = IF isBlock THEN "block" ELSE "none"]
    /\ UNCHANGED <<isAbstract, m_exit, m_freq, at, locked, m_queue, pause, destroyed, harmed>>

\* The rest of Start.
Launch(c) ==
    /\ isAbstract /\ Sound
    /\ Create(c) \/ CreateFails(c)
    /\ UNCHANGED <<isAbstract, own>>

\* The Join of a StartThread that blocks.
Block(c) ==
    /\ isAbstract /\ Sound
    /\ acting[c] = "block"
    /\ Join(c)
    /\ acting' = [acting EXCEPT ![c] = "none"]
    /\ UNCHANGED <<isAbstract, m_exit, m_freq, at, locked, m_queue, pause, destroyed, harmed>>

Unblock(c) ==
    /\ isAbstract /\ Sound
    /\ Joined(c)
    /\ UNCHANGED <<isAbstract, own>>

\* The test of StopThread, called with wait or without, and of the destructor.
StopThread(c, how) ==
    /\ Free(c)
    /\ isActive
    /\ acting' = [acting EXCEPT ![c] = how]
    /\ UNCHANGED <<vars, isAbstract, m_exit, m_freq, at, locked, m_queue, pause, destroyed,
                   harmed>>

\* StopThread(true), which does not wait in spite of the name of its parameter.
SetExit(c) ==
    /\ Sound
    /\ acting[c] = "exit"
    /\ m_exit' = TRUE
    /\ acting' = [acting EXCEPT ![c] = "none"]
    /\ UNCHANGED <<vars, isAbstract, m_freq, at, locked, m_queue, pause, destroyed, harmed>>

\* StopThread(false); the thread it saw active may have ended.
CancelThread(c) ==
    /\ Sound
    /\ acting[c] = "cancel"
    /\ Cancel(c)
    /\ acting' = [acting EXCEPT ![c] = "none"]
    /\ UNCHANGED <<isAbstract, m_exit, m_freq, at, locked, m_queue, pause, destroyed, harmed>>

Initialize(c, freq) ==
    /\ Free(c)
    /\ m_freq' = freq
    /\ UNCHANGED <<vars, isAbstract, m_exit, at, acting, locked, m_queue, pause, destroyed,
                   harmed>>

\* The destructor, when nobody else is using the object: the members of the
\* derived class go first, then Finalize is StopThread(false).
Destroy(c) ==
    /\ Free(c)
    /\ \A d \in Controllers : cpc[d] = "idle" /\ acting[d] = "none"
    /\ destroyed' = TRUE
    /\ acting' = [acting EXCEPT ![c] = IF isActive THEN "cancel" ELSE "none"]
    /\ UNCHANGED <<vars, isAbstract, m_exit, m_freq, at, locked, m_queue, pause, harmed>>

-----------------------------------------------------------------------------
(* SetSum of the example. *)

LockToSet(c) ==
    /\ Free(c)
    /\ ~locked
    /\ Len(m_queue) < MaxSums
    /\ locked' = TRUE
    /\ acting' = [acting EXCEPT ![c] = "push"]
    /\ UNCHANGED <<vars, isAbstract, m_exit, m_freq, at, m_queue, pause, destroyed, harmed>>

SetSum(c, sum) ==
    /\ Sound
    /\ acting[c] = "push"
    /\ m_queue' = Append(m_queue, sum)
    /\ locked' = FALSE
    /\ acting' = [acting EXCEPT ![c] = "none"]
    /\ UNCHANGED <<vars, isAbstract, m_exit, m_freq, at, pause, destroyed, harmed>>
-----------------------------------------------------------------------------
(* The POSIX thread: Run, and OnStart and OnLooping of the example. *)

\* POSIX thread t is at a point of Run, of an object that exists.
IsAt(t, where) == Sound /\ ~destroyed /\ at[t] = where

BeginRun(t) ==
    /\ isAbstract /\ Sound /\ ~destroyed
    /\ Begin(t)
    /\ at' = [at EXCEPT ![t] = "start"]
    /\ UNCHANGED <<isAbstract, m_exit, m_freq, acting, locked, m_queue, pause, destroyed, harmed>>

\* OnStart lets the thread go on; the example's returns whatever it returns.
OnStart(t) ==
    /\ IsAt(t, "start")
    /\ at' = [at EXCEPT ![t] = "test"]
    /\ UNCHANGED <<vars, isAbstract, m_exit, m_freq, acting, locked, m_queue, pause, destroyed,
                   harmed>>

\* Run returns: OnStart or OnLooping said so, or m_exit is set.
Leave(t) ==
    /\ Return(t)
    /\ at' = [at EXCEPT ![t] = "stop"]
    /\ UNCHANGED <<isAbstract, m_exit, m_freq, acting, m_queue, pause, destroyed, harmed>>

OnStartFails(t) == IsAt(t, "start") /\ Leave(t) /\ UNCHANGED locked

ExitLoop(t) == IsAt(t, "test") /\ m_exit /\ Leave(t) /\ UNCHANGED locked

\* A mutant of TestExit: m_exit is not looked at.
TestExitNot(t) ==
    /\ IsAt(t, "test")
    /\ at' = [at EXCEPT ![t] = "look"]
    /\ UNCHANGED <<vars, isAbstract, m_exit, m_freq, acting, locked, m_queue, pause, destroyed,
                   harmed>>

TestExit(t) ==
    /\ IsAt(t, "test") /\ ~m_exit
    /\ at' = [at EXCEPT ![t] = "look"]
    /\ UNCHANGED <<vars, isAbstract, m_exit, m_freq, acting, locked, m_queue, pause, destroyed,
                   harmed>>

\* OnLooping locks; it is over when the queue is empty, and else takes a number
\* and prints it with the lock held.
Look(t) ==
    /\ IsAt(t, "look") /\ ~locked
    /\ IF m_queue = <<>>
       THEN at' = [at EXCEPT ![t] = "pause"] /\ UNCHANGED <<locked, m_queue>>
       ELSE /\ at' = [at EXCEPT ![t] = IF Head(m_queue) \in Large THEN "last" ELSE "print"]
            /\ m_queue' = Tail(m_queue)
            /\ locked' = TRUE
    /\ UNCHANGED <<vars, isAbstract, m_exit, m_freq, acting, pause, destroyed, harmed>>

Printed(t) ==
    /\ IsAt(t, "print")
    /\ at' = [at EXCEPT ![t] = "pause"]
    /\ locked' = FALSE
    /\ UNCHANGED <<vars, isAbstract, m_exit, m_freq, acting, m_queue, pause, destroyed, harmed>>

PrintedLast(t) == IsAt(t, "last") /\ Leave(t) /\ locked' = FALSE

\* MilliSleep and Yield, which nobody leaves who is cancelled.
Pause(t) ==
    /\ IsAt(t, "pause") /\ t \notin cancelled
    /\ at' = [at EXCEPT ![t] = "test"]
    /\ pause' = [millisec |-> m_freq, request |-> MilliSleep(m_freq)]
    /\ UNCHANGED <<vars, isAbstract, m_exit, m_freq, acting, locked, m_queue, destroyed, harmed>>

\* A mutant of UnwindRun: the lock is not one of an object on the stack.
UnwindRunLocked(t) ==
    /\ Sound /\ ~destroyed /\ at[t] \in {"start", "print", "last", "pause"}
    /\ Unwind(t)
    /\ at' = [at EXCEPT ![t] = "none"]
    /\ UNCHANGED <<isAbstract, m_exit, m_freq, acting, locked, m_queue, pause, destroyed, harmed>>

\* A cancelled thread ends in printf, with the lock or without, or in a pause.
UnwindRun(t) ==
    /\ Sound /\ ~destroyed /\ at[t] \in {"start", "print", "last", "pause"}
    /\ Unwind(t)
    /\ at' = [at EXCEPT ![t] = "none"]
    /\ locked' = (locked /\ at[t] \notin {"print", "last"})
    /\ UNCHANGED <<isAbstract, m_exit, m_freq, acting, m_queue, pause, destroyed, harmed>>

\* The clean-up handler, with OnStop.
EraseRun(t) ==
    /\ isAbstract /\ Sound /\ ~destroyed
    /\ Erase(t)
    /\ at' = [at EXCEPT ![t] = "none"]
    /\ UNCHANGED <<isAbstract, m_exit, m_freq, acting, locked, m_queue, pause, destroyed, harmed>>

\* The printf of OnStop is a cancellation point, unless the stack is unwinding.
OnStopCancelled(t) ==
    /\ IsAt(t, "stop") /\ t \in cancelled
    /\ harmed' = TRUE
    /\ UNCHANGED <<vars, isAbstract, m_exit, m_freq, at, acting, locked, m_queue, pause,
                   destroyed>>

\* Any step of the thread in what is left of the object.
RunOn(t) ==
    /\ Sound /\ destroyed
    /\ Live(t)
    /\ harmed' = TRUE
    /\ UNCHANGED <<vars, isAbstract, m_exit, m_freq, at, acting, locked, m_queue, pause,
                   destroyed>>

-----------------------------------------------------------------------------
Control(c) ==
    \/ \E how \in {"exit", "cancel"} : StopThread(c, how)
    \/ SetExit(c) \/ CancelThread(c) \/ Destroy(c)
    \/ Block(c) \/ Unblock(c) \/ LockToSet(c)
    \/ \E sum \in Sums : SetSum(c, sum)
    \/ \E freq \in Freqs : Initialize(c, freq)

RunStep(t) ==
    \/ OnStart(t) \/ OnStartFails(t) \/ TestExit(t) \/ ExitLoop(t)
    \/ Look(t) \/ Printed(t) \/ PrintedLast(t) \/ Pause(t)

AbsNext ==
    \/ Plain
    \/ \E c \in Starters : Launch(c) \/ \E isBlock \in BOOLEAN : StartThread(c, isBlock)
    \/ \E c \in Controllers : Control(c)
    \/ \E t \in Threads : \/ BeginRun(t) \/ RunStep(t) \/ UnwindRun(t)
                          \/ EraseRun(t) \/ OnStopCancelled(t) \/ RunOn(t)

\* Threads run, get the lock when others release it again and again, and finish
\* what they are in the middle of.  A cancelled plain thread gets to a
\* cancellation point of its Run.
AbsFairness ==
    /\ \A c \in Controllers :
          /\ WF_absVars(Joined(c) /\ UNCHANGED <<isAbstract, own>>)
          /\ WF_absVars(\E sum \in Sums : SetSum(c, sum))
    /\ \A t \in Threads :
          /\ WF_absVars(Plain /\ (Begin(t) \/ Unwind(t) \/ Erase(t)))
          /\ WF_absVars(BeginRun(t) \/ EraseRun(t) \/ RunOn(t))
          /\ WF_absVars((RunStep(t) /\ at[t] # "look") \/ UnwindRun(t))
          /\ SF_absVars(Look(t))

AbsSpec == AbsInit /\ [][AbsNext]_absVars /\ AbsFairness

-----------------------------------------------------------------------------
(* Properties. *)

\* Where in Run a POSIX thread may be.
Places == {"none", "start", "test", "look", "print", "last", "pause", "stop"}

\* The threads that hold the lock of the queue.
Inside == {t \in Threads : at[t] \in {"print", "last"}}
Pushers == {c \in Controllers : acting[c] = "push"}

\* Type invariant: the Thread is in the part of its Run that the loop is in.
AbsTypeOK ==
    /\ TypeOK
    /\ isAbstract \in BOOLEAN /\ m_exit \in BOOLEAN /\ locked \in BOOLEAN
    /\ destroyed \in BOOLEAN /\ harmed \in BOOLEAN
    /\ m_freq \in Freqs /\ m_queue \in Seq(Sums)
    /\ at \in [Threads -> Places]
    /\ acting \in [Controllers -> {"none", "block", "exit", "cancel", "push"}]
    /\ pause.millisec \in Freqs \cup {0} /\ pause.request = MilliSleep(pause.millisec)
    /\ \A t \in Threads : /\ at[t] \notin {"none", "stop"} => pt[t] = "running"
                         /\ at[t] = "stop" => pt[t] = "cleanup"

\* The lock of the queue is held only by somebody who is in the middle of
\* SetSum or of OnLooping, by one at a time, and never by a thread that has been
\* cancelled and is gone.
LockIsReleased ==
    /\ locked <=> (Inside # {} \/ Pushers # {})
    /\ \A t, u \in Inside : t = u
    /\ \A c, d \in Pushers : c = d
    /\ Inside = {} \/ Pushers = {}

\* A pause is as long as Initialize said, as long as the product fits into an
\* unsigned int, and nanosleep accepts it whether it does or not.
PauseIsExact ==
    /\ Normal(pause.request)
    /\ pause.millisec * MILLION < Word => Nanos(pause.request) = pause.millisec * MILLION

\* After a Cancel, by hand or by StopThread(false), the Join of the same thread
\* comes back: nobody holds the lock for ever that it may be waiting for.
CancelledIsJoined ==
    \A c \in Controllers :
        (cpc[c] = "joining" /\ joins[c] \in cancelled) ~> (cpc[c] # "joining" \/ ~Sound)

\* After StopThread(true) the thread comes to its end, whatever it is doing and
\* whoever is using its queue.
StoppedThreadEnds ==
    \A t \in Threads : (isAbstract /\ m_exit /\ Live(t)) ~> (~Live(t) \/ ~Sound)

\* What is done to the Thread is what ThreadLife allows.
ImplementsThread == Init /\ [][Next]_vars
=============================================================================
