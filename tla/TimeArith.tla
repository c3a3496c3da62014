----------------------------- MODULE TimeArith -----------------------------
(***************************************************************************)
(* Times as the code computes them: the requests of Thread::MilliSleep,    *)
(* MicroSleep and NanoSleep to nanosleep, whose products are of the type   *)
(* unsigned int, and the absolute time out of MessageQueue::TimedSend and  *)
(* TimedReceive, whose product is of the type unsigned long and is then    *)
(* taken for a long: it may come out negative.                             *)
(***************************************************************************)
EXTENDS Integers

CONSTANTS Word,     \* 2^32, the values of unsigned int
          LongWord, \* the values of unsigned long: 2^32 or 2^64
          BILLION,  \* nanoseconds in a second
          MILLION,  \* nanoseconds in a millisecond
          THOUSAND  \* nanoseconds in a microsecond

ASSUME TimeAssumption ==
    /\ Word \in Nat \ {0} /\ LongWord \in Nat \ {0} /\ BILLION \in Nat \ {0}
    /\ MILLION \in Nat \ {0} /\ THOUSAND \in Nat \ {0}

\* A struct timespec of so many nanoseconds.
Timespec(time) == [sec |-> time \div BILLION, nsec |-> time % BILLION]

\* The nanoseconds a timespec stands for.
Nanos(t) == t.sec * BILLION + t.nsec

\* One that nanosleep and mq_timedsend accept.
Normal(t) == t.sec >= 0 /\ t.nsec >= 0 /\ t.nsec < BILLION

\* A mutant of MilliSleep: the seconds are dropped.
MilliSleepSubsecond(millisec) == [sec |-> 0, nsec |-> ((millisec * MILLION) % Word) % BILLION]

MilliSleep(millisec) == Timespec((millisec * MILLION) % Word)

MicroSleep(microsec) == Timespec((microsec * THOUSAND) % Word)

NanoSleep(nsec) == Timespec(nsec)

timeAdd(t1, t2) ==
    LET sec == t2.sec + t1.sec
        nsec == t2.nsec + t1.nsec
    IN IF nsec >= BILLION THEN [sec |-> sec + 1, nsec |-> nsec - BILLION]
                          ELSE [sec |-> sec, nsec |-> nsec]

\* An unsigned long taken for a long.
Long(n) == IF n < LongWord \div 2 THEN n ELSE n - LongWord

\* A timespec of a long: / and % of C round towards zero, so both parts of a
\* negative time are negative.
LongTimespec(time) ==
    IF time >= 0 THEN Timespec(time)
                 ELSE [sec |-> -Timespec(-time).sec, nsec |-> -Timespec(-time).nsec]

\* When TimedSend and TimedReceive, called at the time now, give up.
Deadline(now, millisec) ==
    timeAdd(now, LongTimespec(Long((millisec * MILLION) % LongWord)))
=============================================================================
