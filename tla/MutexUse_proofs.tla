--------------------------- MODULE MutexUse_proofs ---------------------------
(***************************************************************************)
(* Proofs about MutexUse, for any number of looping threads and of rounds: *)
(* the mutex excludes, and is locked just when somebody has it, whatever   *)
(* is cancelled where, as long as no thread unlocks what it does not hold. *)
(***************************************************************************)
EXTENDS MutexUse, FiniteSetTheorems, TLAPS

Programs == {"sleep", "signal", "broadcast", "loop", "turns"}

\* The types this needs.
Types ==
    /\ program \in Programs /\ scoped \in BOOLEAN
    /\ phase \in {"start", "go", "cancel", "join", "lock", "unlock", "end"}
    /\ next \in Threads
    /\ tpc \in [AllThreads -> Places]
    /\ held \in BOOLEAN /\ stray \in BOOLEAN

LEMMA CountTo == ASSUME NEW m \in Nat \ {0} PROVE Cardinality(1 .. m) = m
<1>1. 1 \in Int /\ m \in Int /\ ~(1 > m)
  OBVIOUS
<1>2. Cardinality(1 .. m) = IF 1 > m THEN 0 ELSE m - 1 + 1
  BY <1>1, FS_Interval, Zenon
<1> QED
  BY <1>1, <1>2

\* The threads are numbered from 1.
LEMMA ThreadsAreCounted ==
    ASSUME program \in Programs
    PROVE  /\ Cardinality(Threads) \in AllThreads
           /\ Threads = 1 .. Cardinality(Threads)
           /\ Threads \subseteq AllThreads
           /\ program = "loop" => Threads = AllThreads
<1>1. \E m \in 1 .. Loopers : Threads = 1 .. m /\ (program = "loop" => m = Loopers)
  <2>1. /\ program \in {"sleep", "signal", "turns"} => Threads = 1 .. 2
        /\ program = "broadcast" => Threads = 1 .. 3
        /\ program = "loop" => Threads = 1 .. Loopers
    BY DEF Threads, AllThreads
  <2>2. 2 \in 1 .. Loopers /\ 3 \in 1 .. Loopers /\ Loopers \in 1 .. Loopers
    BY MutexAssumption
  <2>3. CASE program \in {"sleep", "signal", "turns"}
    BY <2>1, <2>2, <2>3, Zenon
  <2>4. CASE program = "broadcast"
    BY <2>1, <2>2, <2>4, Zenon
  <2>5. CASE program = "loop"
    BY <2>1, <2>2, <2>5, Zenon
  <2> QED
    BY <2>3, <2>4, <2>5 DEF Programs
<1>2. PICK m \in 1 .. Loopers : Threads = 1 .. m /\ (program = "loop" => m = Loopers)
  BY <1>1
<1>3. m \in Nat \ {0}
  BY MutexAssumption
<1>4. Cardinality(Threads) = m
  BY <1>2, <1>3, CountTo
<1> QED
  BY <1>2, <1>4, MutexAssumption DEF AllThreads

-----------------------------------------------------------------------------
(* The invariant. *)

HasIt(t) == tpc[t] \in {"in", "after", "cleanup"}

\* With no stray Unlock: one has the mutex, a thread or main, just if it is held.
OneHasIt ==
    /\ \A t, u \in AllThreads : HasIt(t) /\ HasIt(u) => t = u
    /\ \A t \in AllThreads : HasIt(t) => held /\ phase # "unlock"
    /\ held => phase = "unlock" \/ \E t \in AllThreads : HasIt(t)
    /\ phase = "unlock" => held

\* Main starts what is not running; only MutexTest's test4 cancels without a
\* MutexLock.
MainInOrder ==
    /\ phase = "start" => \A t \in AllThreads : t >= next => tpc[t] \in {"none", "joined"}
    /\ phase = "go" => next = 1
    /\ phase = "join" => \A t \in AllThreads : t < next => tpc[t] = "joined"
    /\ phase = "cancel" \/ cancelled # {} => program = "loop"
    /\ \A t \in AllThreads : tpc[t] = "strayCleanup" => ~scoped /\ program = "loop"
    /\ stray => ~scoped /\ program = "loop"

MutexInv == Types /\ MainInOrder /\ (~stray => OneHasIt)

LEMMA InitMutex == Init => MutexInv
<1> SUFFICES ASSUME Init PROVE MutexInv
  OBVIOUS
<1>1. program \in Programs
  BY DEF Init, Programs
<1>2. next \in Threads
  BY <1>1, ThreadsAreCounted, MutexAssumption DEF Init, AllThreads
<1> QED
  BY <1>1, <1>2 DEF Init, MutexInv, Types, MainInOrder, OneHasIt, HasIt, Places

LEMMA MainStep == MutexInv /\ Main => MutexInv'
<1> SUFFICES ASSUME MutexInv, Main PROVE MutexInv'
  OBVIOUS
<1> DEFINE n == Cardinality(Threads)
<1>0. /\ Types /\ MainInOrder /\ (~stray => OneHasIt)
      /\ n \in AllThreads /\ Threads = 1 .. n /\ Threads \subseteq AllThreads
      /\ program = "loop" => Threads = AllThreads
      /\ Loopers \in Nat /\ AllThreads \subseteq Nat /\ AllThreads = 1 .. Loopers
  BY ThreadsAreCounted, MutexAssumption DEF MutexInv, Types, AllThreads
<1>1. UNCHANGED chosen => Threads' = Threads
  BY DEF chosen, Threads, AllThreads
<1>2. ASSUME NEW other, Advance(other), UNCHANGED chosen
      PROVE  /\ next' \in Threads'
             /\ \/ next = n /\ phase' = other /\ next' = 1
                \/ next # n /\ phase' = phase /\ next' = next + 1
  BY <1>0, <1>1, <1>2 DEF Advance, Types
<1> HIDE DEF n
<1> USE <1>0, <1>1 DEF MutexInv, Types, MainInOrder, OneHasIt, HasIt, Places, chosen
<1>3. CASE StartNext
  <2> DEFINE other == CASE program = "loop" -> "cancel" [] program = "turns" -> "go" [] OTHER -> "join"
  <2>1. /\ Advance(other) /\ UNCHANGED chosen
        /\ other \in {"cancel", "go", "join"} /\ (other = "cancel" => program = "loop")
    BY <1>3 DEF StartNext
  <2> HIDE DEF other
  <2>2. /\ next' \in Threads'
        /\ \/ next = n /\ phase' = other /\ next' = 1
           \/ next # n /\ phase' = phase /\ next' = next + 1
    BY <1>2, <2>1
  <2> QED
    BY <1>3, <2>1, <2>2 DEF StartNext
<1>4. CASE SetStart
  BY <1>4 DEF SetStart
<1>5. CASE CancelNext
  <2>1. /\ next' \in Threads'
        /\ \/ next = n /\ phase' = "join" /\ next' = 1
           \/ next # n /\ phase' = phase /\ next' = next + 1
    BY <1>2, <1>5 DEF CancelNext
  <2> QED
    BY <1>5, <2>1 DEF CancelNext
<1>6. CASE JoinNext
  <2> DEFINE other == CASE Again -> "start"
                        [] program = "loop" /\ ~scoped -> "lock"
                        [] OTHER -> "end"
  <2>1. /\ Advance(other) /\ UNCHANGED chosen
        /\ other \in {"start", "lock", "end"} /\ (other = "start" => program = "loop")
    BY <1>6 DEF JoinNext, Again
  <2> HIDE DEF other
  <2>2. /\ next' \in Threads'
        /\ \/ next = n /\ phase' = other /\ next' = 1
           \/ next # n /\ phase' = phase /\ next' = next + 1
    BY <1>2, <2>1
  <2> QED
    BY <1>6, <2>1, <2>2 DEF JoinNext
<1>7. CASE MainLock
  BY <1>7 DEF MainLock
<1>8. CASE MainUnlock
  BY <1>8 DEF MainUnlock
<1> QED
  BY <1>3, <1>4, <1>5, <1>6, <1>7, <1>8 DEF Main

LEMMA ThreadStep ==
    ASSUME MutexInv, NEW t \in Threads, Runs(t) \/ Lock(t) \/ Reacquire(t) \/ Spurious(t)
    PROVE  MutexInv'
<1>0. /\ Types /\ MainInOrder /\ (~stray => OneHasIt)
      /\ t \in AllThreads /\ Threads \subseteq AllThreads
  BY ThreadsAreCounted DEF MutexInv, Types
<1>1. UNCHANGED chosen => Threads' = Threads /\ AllThreads' = AllThreads
  BY DEF chosen, Threads, AllThreads
<1> USE <1>0, <1>1 DEF MutexInv, Types, MainInOrder, OneHasIt, HasIt, Places, chosen, main, Moves
<1>2. CASE Arrive(t)
  BY <1>2 DEF Arrive
<1>3. CASE ConditionWait(t)
  BY <1>3, ZenonT(60) DEF ConditionWait
<1>4. ASSUME NEW woken \in SUBSET Sleeping, Wakes(t, woken) PROVE MutexInv'
  BY <1>4 DEF Wakes, Sleeping
<1>5. CASE ConditionSignal(t)
  BY <1>4, <1>5 DEF ConditionSignal
<1>6. CASE ConditionBroadcast(t)
  BY <1>4, <1>6 DEF ConditionBroadcast
<1>7. CASE Unlock(t)
  <2>1. Onwards(t) \in {"lock", "ended"}
    BY DEF Onwards
  <2> QED
    BY <1>7, <2>1, ZenonT(60) DEF Unlock
<1>8. CASE Yield(t)
  <2>1. Onwards(t) \in {"lock", "ended"}
    BY DEF Onwards
  <2> QED
    BY <1>8, <2>1 DEF Yield
<1>9. CASE UnwindInside(t)
  BY <1>9 DEF UnwindInside
<1>10. CASE UnwindYield(t)
  BY <1>10 DEF UnwindYield
<1>11. CASE UnwindDestructor(t)
  BY <1>11 DEF UnwindDestructor
<1>12. CASE Cleanup(t)
  BY <1>12 DEF Cleanup
<1>13. CASE Lock(t)
  BY <1>13 DEF Lock
<1>14. CASE Reacquire(t)
  BY <1>14 DEF Reacquire
<1>15. CASE Spurious(t)
  BY <1>15 DEF Spurious
<1> QED
  BY <1>2, <1>3, <1>5, <1>6, <1>7, <1>8, <1>9, <1>10, <1>11, <1>12, <1>13, <1>14, <1>15
     DEF Runs

LEMMA MutexStep == MutexInv /\ [Next]_vars => MutexInv'
<1> SUFFICES ASSUME MutexInv, [Next]_vars PROVE MutexInv'
  OBVIOUS
<1>1. CASE Main
  BY <1>1, MainStep
<1>2. CASE \E t \in Threads : Runs(t) \/ Lock(t) \/ Reacquire(t) \/ Spurious(t)
  BY <1>2, ThreadStep
<1>3. CASE UNCHANGED vars
  <2>1. Threads' = Threads
    BY <1>3 DEF vars, chosen, Threads, AllThreads
  <2> QED
    BY <1>3, <2>1 DEF vars, chosen, main, MutexInv, Types, MainInOrder, OneHasIt, HasIt
<1> QED
  BY <1>1, <1>2, <1>3 DEF Next

THEOREM MutexIsKept == Spec => []MutexInv
  BY InitMutex, MutexStep, PTL DEF Spec

\* The mutex is locked just when one thread is between Lock and Unlock, or main,
\* for any number of threads, wherever they are cancelled; a stray Unlock is
\* MutexTest's Cleanup's alone.
THEOREM MutexExcludes == Spec => []Exclusion
<1>1. MutexInv => Exclusion
  BY DEF MutexInv, Types, MainInOrder, OneHasIt, HasIt, Exclusion, Inside
<1> QED
  BY <1>1, MutexIsKept, PTL
=============================================================================
