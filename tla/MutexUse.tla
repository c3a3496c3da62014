------------------------------ MODULE MutexUse ------------------------------
(***************************************************************************)
(* Mutex and MutexLock as the two example programs use them: threads that  *)
(* lock and sleep, that wait for a signal or a broadcast, that lock in a   *)
(* loop until main cancels them, or that take turns.  MutexTest calls Lock *)
(* and Unlock and has a second Unlock in Cleanup; MutexLockTest has a      *)
(* MutexLock on the stack.  Main starts the threads, cancels the looping   *)
(* ones, joins them, and in MutexTest locks the mutex at the end.          *)
(*                                                                         *)
(* The mutex is a normal one: an Unlock frees it whoever holds it.  The    *)
(* waits have no predicate, so a signal that comes before the wait is      *)
(* missed.  Yield in the destructor of MutexLock is a cancellation point,  *)
(* and a destructor that may not throw then ends the program; compiled     *)
(* for a standard before C++11 it is left like any other function.         *)
(***************************************************************************)
EXTENDS Naturals, FiniteSets

CONSTANTS Loopers,  \* threads of test4
          Rounds    \* bound: turns in a loop, and times main repeats test4

ASSUME MutexAssumption == Loopers \in Nat \ {0, 1, 2} /\ Rounds \in Nat \ {0}

VARIABLES
    program,    \* what is being tested: test1 to test5
    scoped,     \* with a MutexLock, as in MutexLockTest
    isYieldEnd, \* of the MutexLock
    phase,      \* where main is
    next,       \* the thread it starts, cancels or joins next
    repeats,    \* times main has been through test4
    tpc,        \* where each thread is
    turns,      \* for each thread, the turns it has had
    cancelled,
    held,       \* the mutex is locked
    stray,      \* a thread that does not hold it has unlocked it
    missed,     \* a signal has come before the wait it was for
    terminated  \* a cancellation in ~MutexLock has ended the program

main == <<phase, next, repeats>>
chosen == <<program, scoped, isYieldEnd>>
vars == <<chosen, main, tpc, turns, cancelled, held, stray, missed, terminated>>

AllThreads == 1 .. Loopers

\* The threads of a test; the last of test2 and test3 is not a waiter.
Threads == CASE program \in {"sleep", "signal", "turns"} -> 1 .. 2
             [] program = "broadcast" -> 1 .. 3
             [] OTHER -> AllThreads

Waits(t) == \/ program = "signal" /\ t = 1
            \/ program = "broadcast" /\ t \in {1, 2}
Signals(t) == program \in {"signal", "broadcast"} /\ ~Waits(t)

Init ==
    /\ program \in {"sleep", "signal", "broadcast", "loop", "turns"}
    /\ scoped \in BOOLEAN /\ (program = "turns" => scoped)
    /\ isYieldEnd \in BOOLEAN
    /\ isYieldEnd => scoped /\ program \in {"loop", "turns"}
    /\ scoped /\ program = "loop" => isYieldEnd
    /\ phase = "start" /\ next = 1 /\ repeats = 0
    /\ tpc = [t \in AllThreads |-> "none"]
    /\ turns = [t \in AllThreads |-> 0]
    /\ cancelled = {} /\ held = FALSE
    /\ stray = FALSE /\ missed = FALSE /\ terminated = FALSE

-----------------------------------------------------------------------------
(* Main. *)

\* Main goes on to the next thread or, after the last, to another phase.
Advance(other) ==
    IF next = Cardinality(Threads)
    THEN phase' = other /\ next' = 1
    ELSE phase' = phase /\ next' = next + 1

StartNext ==
    /\ phase = "start" /\ ~terminated
    /\ tpc' = [tpc EXCEPT ![next] = "before"]
    /\ turns' = [turns EXCEPT ![next] = 0]
    /\ cancelled' = cancelled \ {next}
    /\ Advance(CASE program = "loop" -> "cancel" [] program = "turns" -> "go" [] OTHER -> "join")
    /\ UNCHANGED <<chosen, repeats, held, stray, missed, terminated>>

\* test5 lets its threads go together.
SetStart ==
    /\ phase = "go" /\ ~terminated
    /\ phase' = "join"
    /\ UNCHANGED <<chosen, next, repeats, tpc, turns, cancelled, held, stray, missed, terminated>>

CancelNext ==
    /\ phase = "cancel" /\ ~terminated
    /\ cancelled' = cancelled \cup {next}
    /\ Advance("join")
    /\ UNCHANGED <<chosen, repeats, tpc, turns, held, stray, missed, terminated>>

\* MutexLockTest goes through test4 several times.
Again == program = "loop" /\ scoped /\ repeats + 1 < Rounds

JoinNext ==
    /\ phase = "join" /\ ~terminated
    /\ tpc[next] = "ended"
    /\ tpc' = [tpc EXCEPT ![next] = "joined"]
    /\ Advance(CASE Again -> "start"
                 [] program = "loop" /\ ~scoped -> "lock"
                 [] OTHER -> "end")
    /\ repeats' = IF next = Cardinality(Threads) /\ Again THEN repeats + 1 ELSE repeats
    /\ UNCHANGED <<chosen, turns, cancelled, held, stray, missed, terminated>>

\* "main thread can Mutex::lock() if all threads have no mutex".
MainLock ==
    /\ phase = "lock"
    /\ ~held
    /\ held' = TRUE
    /\ phase' = "unlock"
    /\ UNCHANGED <<chosen, next, repeats, tpc, turns, cancelled, stray, missed, terminated>>

MainUnlock ==
    /\ phase = "unlock"
    /\ held' = FALSE
    /\ phase' = "end"
    /\ UNCHANGED <<chosen, next, repeats, tpc, turns, cancelled, stray, missed, terminated>>

-----------------------------------------------------------------------------
(* The threads. *)

\* Thread t, at a point of its Run, goes on to another.
Moves(t, from, to) ==
    /\ ~terminated
    /\ tpc[t] = from
    /\ tpc' = [tpc EXCEPT ![t] = to]

\* What Run does before it locks; the threads of test5 wait for the start.
Arrive(t) ==
    /\ Moves(t, "before", "lock")
    /\ program = "turns" => phase \in {"join", "end"}
    /\ UNCHANGED <<chosen, main, turns, cancelled, held, stray, missed, terminated>>

\* A mutant of Lock: it does not wait.
LockBarging(t) ==
    /\ Moves(t, "lock", "in")
    /\ held' = TRUE
    /\ UNCHANGED <<chosen, main, turns, cancelled, stray, missed, terminated>>

Lock(t) ==
    /\ Moves(t, "lock", "in")
    /\ ~held
    /\ held' = TRUE
    /\ UNCHANGED <<chosen, main, turns, cancelled, stray, missed, terminated>>

ConditionWait(t) ==
    /\ Waits(t)
    /\ Moves(t, "in", "waiting")
    /\ held' = FALSE
    /\ UNCHANGED <<chosen, main, turns, cancelled, stray, missed, terminated>>

\* A wake-up for no reason.
Spurious(t) ==
    /\ Moves(t, "waiting", "woken")
    /\ UNCHANGED <<chosen, main, turns, cancelled, held, stray, missed, terminated>>

\* ConditionWait returns with the mutex locked again.
Reacquire(t) ==
    /\ Moves(t, "woken", "after")
    /\ ~held
    /\ held' = TRUE
    /\ UNCHANGED <<chosen, main, turns, cancelled, stray, missed, terminated>>

Sleeping == {t \in Threads : tpc[t] = "waiting"}

\* A waiter that has not come to its wait yet.
Late == {t \in Threads : Waits(t) /\ tpc[t] \in {"none", "before", "lock", "in"}}

\* The signal wakes one and the broadcast all of those in woken.
Wakes(t, woken) ==
    /\ Signals(t) /\ ~terminated
    /\ tpc[t] = "in"
    /\ tpc' = [u \in AllThreads |-> IF u = t THEN "after"
                                    ELSE IF u \in woken THEN "woken" ELSE tpc[u]]
    /\ missed' = (missed \/ Late # {})
    /\ UNCHANGED <<chosen, main, turns, cancelled, held, stray, terminated>>

ConditionSignal(t) ==
    /\ program = "signal"
    /\ IF Sleeping = {} THEN Wakes(t, {}) ELSE \E u \in Sleeping : Wakes(t, {u})

\* A mutant of ConditionBroadcast: it wakes one, like a signal.
ConditionBroadcastOne(t) ==
    /\ program = "broadcast"
    /\ IF Sleeping = {} THEN Wakes(t, {}) ELSE \E u \in Sleeping : Wakes(t, {u})

ConditionBroadcast(t) == program = "broadcast" /\ Wakes(t, Sleeping)

\* Where a thread goes that has unlocked, or that has come back from Yield.
Onwards(t) == CASE program = "loop" -> "lock"
                [] program = "turns" /\ turns[t] + 1 < Rounds -> "lock"
                [] OTHER -> "ended"

\* Unlock, by hand or by ~MutexLock, when a thread has finished what it locked
\* for: a waiter and a signaller have waited and signalled.
Unlock(t) ==
    /\ ~terminated
    /\ tpc[t] = IF Waits(t) \/ Signals(t) THEN "after" ELSE "in"
    /\ held' = FALSE
    /\ IF program = "loop" \/ isYieldEnd
       THEN tpc' = [tpc EXCEPT ![t] = "yield"] /\ UNCHANGED turns
       ELSE /\ tpc' = [tpc EXCEPT ![t] = Onwards(t)]
            /\ turns' = [turns EXCEPT ![t] = @ + 1]
    /\ UNCHANGED <<chosen, main, cancelled, stray, missed, terminated>>

\* Yield, which a cancelled thread does not come back from.
Yield(t) ==
    /\ t \notin cancelled
    /\ Moves(t, "yield", Onwards(t))
    /\ turns' = [turns EXCEPT ![t] = IF program = "turns" THEN @ + 1 ELSE @]
    /\ UNCHANGED <<chosen, main, cancelled, held, stray, missed, terminated>>

-----------------------------------------------------------------------------
(* Cancellation: only the threads of test4 are cancelled. *)

\* A mutant of UnwindInside: the lock is kept, as with no MutexLock.
UnwindInsideLocked(t) ==
    /\ t \in cancelled
    /\ Moves(t, "in", IF scoped THEN "ended" ELSE "cleanup")
    /\ UNCHANGED <<chosen, main, turns, cancelled, held, stray, missed, terminated>>

\* In printf or MilliSleep, with the mutex: a MutexLock unlocks it, and else
\* Cleanup is going to.
UnwindInside(t) ==
    /\ t \in cancelled
    /\ Moves(t, "in", IF scoped THEN "ended" ELSE "cleanup")
    /\ held' = (held /\ ~scoped)
    /\ UNCHANGED <<chosen, main, turns, cancelled, stray, missed, terminated>>

\* In the Yield of MutexTest, without the mutex: Cleanup does not know.
UnwindYield(t) ==
    /\ t \in cancelled /\ ~scoped
    /\ Moves(t, "yield", "strayCleanup")
    /\ UNCHANGED <<chosen, main, turns, cancelled, held, stray, missed, terminated>>

\* In the Yield of ~MutexLock.
UnwindDestructor(t) ==
    /\ t \in cancelled /\ scoped
    /\ Moves(t, "yield", "ended")
    /\ terminated' \in BOOLEAN
    /\ UNCHANGED <<chosen, main, turns, cancelled, held, stray, missed>>

\* The Unlock in Cleanup.
Cleanup(t) ==
    /\ ~terminated
    /\ tpc[t] \in {"cleanup", "strayCleanup"}
    /\ tpc' = [tpc EXCEPT ![t] = "ended"]
    /\ held' = FALSE
    /\ stray' = (stray \/ tpc[t] = "strayCleanup")
    /\ UNCHANGED <<chosen, main, turns, cancelled, missed, terminated>>

-----------------------------------------------------------------------------
Main == StartNext \/ SetStart \/ CancelNext \/ JoinNext \/ MainLock \/ MainUnlock

\* The steps of a thread that wait for no lock.
Runs(t) ==
    \/ Arrive(t) \/ ConditionWait(t) \/ ConditionSignal(t) \/ ConditionBroadcast(t)
    \/ Unlock(t) \/ Yield(t) \/ UnwindInside(t) \/ UnwindYield(t) \/ UnwindDestructor(t)
    \/ Cleanup(t)

Next == Main \/ \E t \in Threads : Runs(t) \/ Lock(t) \/ Reacquire(t) \/ Spurious(t)

\* Main and the threads run, and who waits for a mutex that is free again and
\* again gets it.
Fairness ==
    /\ WF_vars(Main) /\ SF_vars(MainLock)
    /\ \A t \in AllThreads : WF_vars(Runs(t)) /\ SF_vars(Lock(t)) /\ SF_vars(Reacquire(t))

Spec == Init /\ [][Next]_vars /\ Fairness

-----------------------------------------------------------------------------
(* Properties. *)

\* Where a thread may be.
Places == {"none", "before", "lock", "in", "waiting", "woken", "after", "yield",
           "cleanup", "strayCleanup", "ended", "joined"}

\* Type invariant.
TypeOK ==
    /\ program \in {"sleep", "signal", "broadcast", "loop", "turns"}
    /\ scoped \in BOOLEAN /\ isYieldEnd \in BOOLEAN
    /\ phase \in {"start", "go", "cancel", "join", "lock", "unlock", "end"}
    /\ next \in Threads /\ repeats \in 0 .. Rounds
    /\ tpc \in [AllThreads -> Places] /\ turns \in [AllThreads -> 0 .. Rounds]
    /\ cancelled \subseteq Threads
    /\ held \in BOOLEAN /\ stray \in BOOLEAN /\ missed \in BOOLEAN /\ terminated \in BOOLEAN

\* The threads that believe they hold the mutex.
Inside == {t \in AllThreads : tpc[t] \in {"in", "after", "cleanup"}}

\* Mutex.h:39: with Lock and Unlock in pairs, the mutex is locked just when one
\* thread is between them, or main; only the Unlock of MutexTest's Cleanup, in a
\* thread that was cancelled without the mutex, can break the pairs.
Exclusion ==
    /\ scoped \/ program # "loop" => ~stray
    /\ ~stray => /\ \A t, u \in Inside : t = u
                 /\ held <=> (Inside # {} \/ phase = "unlock")
                 /\ phase = "unlock" => Inside = {}

\* Every program comes to its end, MutexTest with the lock it takes after all
\* threads are gone, unless a signal comes before the wait it is for.
MainComesToEnd == <>(phase = "end" \/ missed \/ terminated)
=============================================================================
