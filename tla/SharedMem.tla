----------------------------- MODULE SharedMem ------------------------------
(***************************************************************************)
(* SharedMemoryContext, SharedMemory, Semaphore and SharedLock: processes  *)
(* that bind one name, one of them as the owner, and lock the memory behind *)
(* it.  The name leads to a shared-memory object and to a semaphore, which *)
(* are made one after the other; both outlive a crash.  A step is one      *)
(* system call, but for shm_open, which is one step with the ftruncate and *)
(* mmap behind it: they touch the process alone, but for the size of the   *)
(* object.  Both are taken to succeed: SharedMemory.cpp:87 prints that     *)
(* ftruncate has failed and goes on, and line 91 does not test for         *)
(* MAP_FAILED, so that memory is then used which is not there.             *)
(*                                                                         *)
(* Objects and semaphores are numbered as they are made, and 0 is none: a  *)
(* name that leads nowhere, m_memoryMap or m_semaphore that is NULL.       *)
(***************************************************************************)
EXTENDS Naturals, FiniteSets

CONSTANTS Procs,       \* processes
          Owners,      \* those that bind with isOwner
          MaxOwners,   \* bound: Binds of owners
          MaxBinds,    \* bound: Binds in all
          MaxCrashes,  \* bound: processes that crash
          MaxSignals   \* bound: waits ended by a signal

ASSUME SharedMemAssumption ==
    /\ Owners \subseteq Procs /\ IsFiniteSet(Procs)
    /\ MaxOwners \in Nat /\ MaxBinds \in Nat /\ MaxCrashes \in Nat
    /\ MaxSignals \in Nat

VARIABLES
    shmName,  \* the object the name leads to
    semName,  \* the semaphore the name leads to
    shms,     \* objects made so far
    sems,     \* semaphores made so far
    value,    \* the value of each semaphore
    pc,       \* where each process is
    mem,      \* for each process, the object it has mapped
    sem,      \* for each process, the semaphore it has open
    v,        \* for each process, what Post has read of the value
    orphans,  \* semaphores whose holder has crashed
    binds, ownerBinds, crashes, signals

names  == <<shmName, semName, shms, sems>>
counts == <<binds, ownerBinds, crashes, signals>>
vars   == <<names, value, pc, mem, sem, v, orphans, counts>>

Init ==
    /\ shmName = 0 /\ semName = 0 /\ shms = 0 /\ sems = 0
    /\ value = [k \in 1 .. 0 |-> 0]
    /\ pc = [p \in Procs |-> "out"]
    /\ mem = [p \in Procs |-> 0] /\ sem = [p \in Procs |-> 0] /\ v = [p \in Procs |-> 0]
    /\ orphans = {} /\ binds = 0 /\ ownerBinds = 0
    /\ crashes = 0 /\ signals = 0

Go(p, from, to) == pc[p] = from /\ pc' = [pc EXCEPT ![p] = to]

-----------------------------------------------------------------------------
(* SharedMemoryContext::Bind in a new context. *)

\* The owner takes an old object's name away.
BindOwner(p) ==
    /\ p \in Owners
    /\ Go(p, "out", "createShm")
    /\ binds < MaxBinds /\ ownerBinds < MaxOwners
    /\ binds' = binds + 1 /\ ownerBinds' = ownerBinds + 1
    /\ shmName' = 0
    /\ UNCHANGED <<semName, shms, sems, value, mem, sem, v, orphans, crashes, signals>>

\* It makes one of its own; O_EXCL fails if another owner has been faster.
CreateShm(p) ==
    /\ IF shmName # 0
       THEN Go(p, "createShm", "ready") /\ UNCHANGED <<shmName, shms, mem>>
       ELSE /\ Go(p, "createShm", "unlinkSem")
            /\ shms' = shms + 1
            /\ shmName' = shms + 1
            /\ mem' = [mem EXCEPT ![p] = shms + 1]
    /\ UNCHANGED <<semName, sems, value, sem, v, orphans, counts>>

\* A mutant of UnlinkSem: the old semaphore keeps its name.
UnlinkSemNot(p) ==
    /\ Go(p, "unlinkSem", "createSem")
    /\ UNCHANGED <<names, value, mem, sem, v, orphans, counts>>

UnlinkSem(p) ==
    /\ Go(p, "unlinkSem", "createSem")
    /\ semName' = 0
    /\ UNCHANGED <<shmName, shms, sems, value, mem, sem, v, orphans, counts>>

\* A mutant of CreateSem: the semaphore is made with the value 2.
CreateSemTwo(p) ==
    /\ Go(p, "createSem", "ready")
    /\ IF semName # 0
       THEN UNCHANGED <<semName, sems, value, sem>>
       ELSE /\ sems' = sems + 1
            /\ semName' = sems + 1
            /\ value' = [k \in 1 .. sems + 1 |-> IF k <= sems THEN value[k] ELSE 2]
            /\ sem' = [sem EXCEPT ![p] = sems + 1]
    /\ UNCHANGED <<shmName, shms, mem, v, orphans, counts>>

CreateSem(p) ==
    /\ Go(p, "createSem", "ready")
    /\ IF semName # 0
       THEN UNCHANGED <<semName, sems, value, sem>>
       ELSE /\ sems' = sems + 1
            /\ semName' = sems + 1
            /\ value' = [k \in 1 .. sems + 1 |-> IF k <= sems THEN value[k] ELSE 1]
            /\ sem' = [sem EXCEPT ![p] = sems + 1]
    /\ UNCHANGED <<shmName, shms, mem, v, orphans, counts>>

\* Another process asks whether the object exists.  If not, NULL is returned,
\* and the context returns NULL from then on.
BindUser(p) ==
    /\ p \notin Owners
    /\ Go(p, "out", IF shmName = 0 THEN "null" ELSE "openShm")
    /\ binds < MaxBinds
    /\ binds' = binds + 1
    /\ UNCHANGED <<names, value, mem, sem, v, orphans, ownerBinds, crashes, signals>>

OpenShm(p) ==
    /\ Go(p, "openShm", IF shmName = 0 THEN "ready" ELSE "openSem")
    /\ mem' = [mem EXCEPT ![p] = shmName]
    /\ UNCHANGED <<names, value, sem, v, orphans, counts>>

\* There may be no semaphore, or one of another owner.
OpenSem(p) ==
    /\ Go(p, "openSem", "ready")
    /\ sem' = [sem EXCEPT ![p] = semName]
    /\ UNCHANGED <<names, value, mem, v, orphans, counts>>

-----------------------------------------------------------------------------
(* SharedLock. *)

\* The constructor calls Wait.
Enter(p) ==
    /\ mem[p] # 0
    /\ Go(p, "ready", "waiting")
    /\ UNCHANGED <<names, value, mem, sem, v, orphans, counts>>

\* A mutant of Wait: sem_trywait, with its result ignored.
WaitNot(p) ==
    /\ Go(p, "waiting", "in")
    /\ IF sem[p] = 0 \/ value[sem[p]] = 0
       THEN UNCHANGED value
       ELSE value' = [value EXCEPT ![sem[p]] = value[sem[p]] - 1]
    /\ UNCHANGED <<names, mem, sem, v, orphans, counts>>

\* sem_wait returns; with no semaphore Wait does nothing.
Wait(p) ==
    /\ Go(p, "waiting", "in")
    /\ IF sem[p] = 0
       THEN UNCHANGED value
       ELSE /\ value[sem[p]] > 0
            /\ value' = [value EXCEPT ![sem[p]] = value[sem[p]] - 1]
    /\ UNCHANGED <<names, mem, sem, v, orphans, counts>>

\* A signal handler ends sem_wait, and Wait ignores what it returns.
WaitSignalled(p) ==
    /\ sem[p] # 0 /\ value[sem[p]] = 0
    /\ signals < MaxSignals
    /\ signals' = signals + 1
    /\ Go(p, "waiting", "in")
    /\ UNCHANGED <<names, value, mem, sem, v, orphans, binds, ownerBinds, crashes>>

\* The destructor calls Post, which reads the value first.
GetValue(p) ==
    /\ Go(p, "in", IF sem[p] = 0 THEN "ready" ELSE "posting")
    /\ v' = IF sem[p] = 0 THEN v ELSE [v EXCEPT ![p] = value[sem[p]]]
    /\ UNCHANGED <<names, value, mem, sem, orphans, counts>>

\* A mutant of Post: below 0, as sem_getvalue counts waiters elsewhere.
PostBelowZero(p) ==
    /\ Go(p, "posting", "ready")
    /\ value' = IF v[p] + 1 < 1 THEN [value EXCEPT ![sem[p]] = value[sem[p]] + 1] ELSE value
    /\ UNCHANGED <<names, mem, sem, v, orphans, counts>>

\* It posts if what it has read was below 1.
Post(p) ==
    /\ Go(p, "posting", "ready")
    /\ value' = IF v[p] < 1 THEN [value EXCEPT ![sem[p]] = value[sem[p]] + 1] ELSE value
    /\ UNCHANGED <<names, mem, sem, v, orphans, counts>>

-----------------------------------------------------------------------------
(* The context is destroyed, or the process crashes. *)

\* The memory is unmapped, and its owner removes the name.
LeaveShm(p) ==
    /\ pc[p] \in {"ready", "null"}
    /\ IF mem[p] = 0
       THEN pc' = [pc EXCEPT ![p] = "out"] /\ UNCHANGED shmName
       ELSE /\ pc' = [pc EXCEPT ![p] = "closing"]
            /\ shmName' = IF p \in Owners THEN 0 ELSE shmName
    /\ mem' = [mem EXCEPT ![p] = 0]
    /\ UNCHANGED <<semName, shms, sems, value, sem, v, orphans, counts>>

LeaveSem(p) ==
    /\ Go(p, "closing", "out")
    /\ semName' = IF p \in Owners /\ sem[p] # 0 THEN 0 ELSE semName
    /\ sem' = [sem EXCEPT ![p] = 0]
    /\ UNCHANGED <<shmName, shms, sems, value, mem, v, orphans, counts>>

Holds(p, k) == pc[p] \in {"in", "posting"} /\ sem[p] = k

\* Nothing is cleaned up: the names stay, and a semaphore is not posted.
Crash(p) ==
    /\ pc[p] # "out"
    /\ crashes < MaxCrashes
    /\ crashes' = crashes + 1
    /\ pc' = [pc EXCEPT ![p] = "out"]
    /\ mem' = [mem EXCEPT ![p] = 0] /\ sem' = [sem EXCEPT ![p] = 0]
    /\ orphans' = orphans \cup {k \in 1 .. sems : Holds(p, k)}
    /\ UNCHANGED <<names, value, v, binds, ownerBinds, signals>>

-----------------------------------------------------------------------------
Next == \E p \in Procs :
    \/ BindOwner(p) \/ CreateShm(p) \/ UnlinkSem(p) \/ CreateSem(p)
    \/ BindUser(p) \/ OpenShm(p) \/ OpenSem(p)
    \/ Enter(p) \/ Wait(p) \/ WaitSignalled(p) \/ GetValue(p) \/ Post(p)
    \/ LeaveShm(p) \/ LeaveSem(p) \/ Crash(p)

\* sem_wait lets somebody in whose turn may come, and a lock is given back.
Fairness ==
    /\ WF_vars(\E p \in Procs : Wait(p))
    /\ \A p \in Procs : WF_vars(GetValue(p)) /\ WF_vars(Post(p))

Spec == Init /\ [][Next]_vars /\ Fairness

-----------------------------------------------------------------------------
(* Properties. *)

\* Where a process may be.
States == {"out", "null", "createShm", "unlinkSem", "createSem", "openShm", "openSem",
           "ready", "waiting", "in", "posting", "closing"}

\* What a process has open where it is.
HasOpen(p) ==
    /\ pc[p] \in {"out", "null", "createShm", "openShm"} => mem[p] = 0 /\ sem[p] = 0
    /\ pc[p] \in {"unlinkSem", "createSem", "openSem"} => mem[p] # 0 /\ sem[p] = 0
    /\ pc[p] \in {"waiting", "in", "posting"} => mem[p] # 0
    /\ pc[p] = "posting" => sem[p] # 0
    /\ pc[p] = "ready" /\ mem[p] = 0 => sem[p] = 0
    /\ pc[p] = "closing" => mem[p] = 0

\* Type invariant: what each process has open where it is, too.
TypeOK ==
    /\ pc \in [Procs -> States]
    /\ shms \in Nat /\ shmName \in 0 .. shms /\ mem \in [Procs -> 0 .. shms]
    /\ sems \in Nat /\ semName \in 0 .. sems /\ sem \in [Procs -> 0 .. sems]
    /\ value \in [1 .. sems -> Nat] /\ v \in [Procs -> Nat]
    /\ orphans \subseteq 1 .. sems
    /\ \A p \in Procs : HasOpen(p)
    /\ ownerBinds \in 0 .. MaxOwners /\ binds \in 0 .. MaxBinds
    /\ crashes \in 0 .. MaxCrashes /\ signals \in 0 .. MaxSignals

Binary(k) ==
    /\ value[k] \in {0, 1}
    /\ value[k] = 1 => k \notin orphans /\ \A p \in Procs : ~Holds(p, k)
    /\ value[k] = 0 => k \in orphans \/ \E p \in Procs : Holds(p, k)
    /\ \A p, q \in Procs : Holds(p, k) /\ Holds(q, k) => p = q
    /\ k \in orphans => \A p \in Procs : ~Holds(p, k)

\* While no wait is cut short by a signal: a semaphore that is free has no
\* holder; one that is not has exactly one, which may have crashed.  Post reads
\* the value and posts in two steps: nobody else can have posted in between.
SemaphoreIsBinary == signals = 0 => \A k \in 1 .. sems : Binary(k)

\* The processes inside a lock of a memory that have found its semaphore.
Inside(m) == {p \in Procs : mem[p] = m /\ sem[p] # 0 /\ pc[p] \in {"in", "posting"}}

\* Until an owner binds again, the processes that have found the semaphore keep
\* each other out: one at a time is inside, and for each wait that was ever cut
\* short by a signal at most one more, though nobody tells a process that got in
\* so from the others and it posts like them.
LockExcludes ==
    ownerBinds <= 1 => \A m \in 1 .. shms : Cardinality(Inside(m)) <= 1 + signals

\* Two processes inside a lock of the same memory.
Overlap(p, q) ==
    p # q /\ mem[p] = mem[q] /\ {pc[p], pc[q]} \subseteq {"in", "posting"}

\* SharedLock.h:58, "When the constructor ends, memory becomes locked": no two
\* processes are inside a lock of the same memory.
MemoryIsLocked == \A p, q \in Procs : ~Overlap(p, q)

\* The same of processes that have found the semaphore.
FoundMemoryIsLocked ==
    \A p, q \in Procs : sem[p] # 0 /\ sem[q] # 0 => ~Overlap(p, q)

\* An owner that is alone makes both objects, and they can be found under the
\* name as long as it lives, whatever an owner that crashed before has left.
OwnerIsFound ==
    \A p \in Owners :
        /\ pc[p] \in {"ready", "waiting", "in", "posting"}
        /\ Cardinality(Owners) = 1
        => mem[p] # 0 /\ sem[p] # 0 /\ shmName = mem[p] /\ semName = sem[p]

\* With no crash the lock is handed on for ever: while processes wait, some
\* process gets in.
LockIsHandedOn ==
    (\E p \in Procs : pc[p] = "waiting") ~> (crashes > 0 \/ \E p \in Procs : pc[p] = "in")
=============================================================================
