-------------------------- MODULE SharedMem_proofs --------------------------
(***************************************************************************)
(* Proofs about SharedMem, for every number of processes and owners: the   *)
(* semaphore is binary, and until an owner binds again the processes that  *)
(* have found it keep each other out, as far as no signal ends a wait; an  *)
(* owner that is alone is found.                                           *)
(***************************************************************************)
EXTENDS SharedMem, FiniteSetTheorems, TLAPS

LEMMA TypeStep ==
    ASSUME TypeOK, [Next]_vars
    PROVE  TypeOK'
<1> USE SharedMemAssumption DEF TypeOK, HasOpen, States, Go, names, counts
<1>1. ASSUME NEW p \in Procs, BindOwner(p)
      PROVE  TypeOK'
  BY <1>1 DEF BindOwner
<1>2. ASSUME NEW p \in Procs, CreateShm(p)
      PROVE  TypeOK'
  <2>1. CASE shmName # 0
    BY <1>2, <2>1 DEF CreateShm
  <2>2. CASE shmName = 0
    <3>1. /\ pc[p] = "createShm" /\ pc' = [pc EXCEPT ![p] = "unlinkSem"]
          /\ shms' = shms + 1 /\ shmName' = shms + 1 /\ mem' = [mem EXCEPT ![p] = shms + 1]
          /\ UNCHANGED <<semName, sems, value, sem, v, orphans, counts>>
      BY <1>2, <2>2 DEF CreateShm
    <3>2. shms' \in Nat /\ shmName' \in 0 .. shms' /\ mem' \in [Procs -> 0 .. shms']
      BY <3>1
    <3>3. \A q \in Procs : HasOpen(q)'
      BY <3>1
    <3> QED
      BY <3>1, <3>2, <3>3
  <2> QED
    BY <2>1, <2>2
<1>3. ASSUME NEW p \in Procs, UnlinkSem(p)
      PROVE  TypeOK'
  BY <1>3 DEF UnlinkSem
<1>4. ASSUME NEW p \in Procs, CreateSem(p)
      PROVE  TypeOK'
  <2>1. CASE semName # 0
    BY <1>4, <2>1 DEF CreateSem
  <2>2. CASE semName = 0
    <3>1. /\ pc[p] = "createSem" /\ pc' = [pc EXCEPT ![p] = "ready"]
          /\ sems' = sems + 1 /\ semName' = sems + 1 /\ sem' = [sem EXCEPT ![p] = sems + 1]
          /\ value' = [k \in 1 .. sems + 1 |-> IF k <= sems THEN value[k] ELSE 1]
          /\ UNCHANGED <<shmName, shms, mem, v, orphans, counts>>
      BY <1>4, <2>2 DEF CreateSem
    <3>2. sems' \in Nat /\ semName' \in 0 .. sems' /\ sem' \in [Procs -> 0 .. sems']
      BY <3>1
    <3>3. value' \in [1 .. sems' -> Nat] /\ orphans' \subseteq 1 .. sems'
      BY <3>1
    <3>4. \A q \in Procs : HasOpen(q)'
      BY <3>1
    <3> QED
      BY <3>1, <3>2, <3>3, <3>4
  <2> QED
    BY <2>1, <2>2
<1>5. ASSUME NEW p \in Procs, BindUser(p)
      PROVE  TypeOK'
  BY <1>5 DEF BindUser
<1>6. ASSUME NEW p \in Procs, OpenShm(p)
      PROVE  TypeOK'
  BY <1>6 DEF OpenShm
<1>7. ASSUME NEW p \in Procs, OpenSem(p)
      PROVE  TypeOK'
  BY <1>7 DEF OpenSem
<1>8. ASSUME NEW p \in Procs, Enter(p)
      PROVE  TypeOK'
  BY <1>8 DEF Enter
<1>9. ASSUME NEW p \in Procs, Wait(p)
      PROVE  TypeOK'
  <2>1. value' \in [1 .. sems -> Nat]
    <3>1. CASE sem[p] = 0
      BY <1>9, <3>1 DEF Wait
    <3>2. CASE sem[p] # 0
      <4>1. sem[p] \in 1 .. sems /\ value[sem[p]] - 1 \in Nat
        BY <1>9, <3>2 DEF Wait
      <4> QED
        BY <1>9, <3>2, <4>1 DEF Wait
    <3> QED
      BY <3>1, <3>2
  <2>2. \A q \in Procs : HasOpen(q)'
    BY <1>9 DEF Wait
  <2> QED
    BY <1>9, <2>1, <2>2 DEF Wait
<1>10. ASSUME NEW p \in Procs, WaitSignalled(p)
       PROVE  TypeOK'
  <2>1. /\ pc[p] = "waiting" /\ pc' = [pc EXCEPT ![p] = "in"] /\ signals < MaxSignals
        /\ signals' = signals + 1
        /\ UNCHANGED <<names, value, mem, sem, v, orphans, binds, ownerBinds, crashes>>
    BY <1>10 DEF WaitSignalled
  <2>2. pc' \in [Procs -> States] /\ signals' \in 0 .. MaxSignals
    BY <2>1
  <2>3. \A q \in Procs : HasOpen(q)'
    BY <2>1
  <2> QED
    BY <2>1, <2>2, <2>3
<1>11. ASSUME NEW p \in Procs, GetValue(p)
       PROVE  TypeOK'
  <2>1. /\ pc[p] = "in" /\ UNCHANGED <<names, value, mem, sem, orphans, counts>>
        /\ pc' = [pc EXCEPT ![p] = IF sem[p] = 0 THEN "ready" ELSE "posting"]
    BY <1>11 DEF GetValue
  <2>2. v' \in [Procs -> Nat]
    <3>1. CASE sem[p] = 0
      BY <1>11, <3>1 DEF GetValue
    <3>2. CASE sem[p] # 0
      <4>1. value[sem[p]] \in Nat /\ v' = [v EXCEPT ![p] = value[sem[p]]]
        BY <1>11, <3>2 DEF GetValue
      <4> QED
        BY <4>1
    <3> QED
      BY <3>1, <3>2
  <2>3. pc' \in [Procs -> States]
    BY <2>1
  <2>4. \A q \in Procs : HasOpen(q)'
    BY <2>1
  <2> QED
    BY <2>1, <2>2, <2>3, <2>4
<1>12. ASSUME NEW p \in Procs, Post(p)
       PROVE  TypeOK'
  <2>1. /\ pc[p] = "posting" /\ pc' = [pc EXCEPT ![p] = "ready"]
        /\ UNCHANGED <<names, mem, sem, v, orphans, counts>>
    BY <1>12 DEF Post
  <2>2. value' \in [1 .. sems -> Nat]
    <3>1. sem[p] \in 1 .. sems /\ value[sem[p]] + 1 \in Nat
      BY <2>1
    <3>2. value' = value \/ value' = [value EXCEPT ![sem[p]] = value[sem[p]] + 1]
      BY <1>12 DEF Post
    <3> QED
      BY <3>1, <3>2
  <2>3. pc' \in [Procs -> States]
    BY <2>1
  <2>4. \A q \in Procs : HasOpen(q)'
    BY <2>1
  <2> QED
    BY <2>1, <2>2, <2>3, <2>4
<1>13. ASSUME NEW p \in Procs, LeaveShm(p)
       PROVE  TypeOK'
  <2>1. mem' = [mem EXCEPT ![p] = 0] /\ UNCHANGED <<semName, shms, sems, value, sem, v, orphans, counts>>
    BY <1>13 DEF LeaveShm
  <2>2. shmName' = 0 \/ shmName' = shmName
    BY <1>13 DEF LeaveShm
  <2>3. \/ mem[p] = 0 /\ pc' = [pc EXCEPT ![p] = "out"]
        \/ mem[p] # 0 /\ pc' = [pc EXCEPT ![p] = "closing"]
    BY <1>13 DEF LeaveShm
  <2>4. pc[p] \in {"ready", "null"}
    BY <1>13 DEF LeaveShm
  <2>5. CASE mem[p] = 0
    <3>1. pc' = [pc EXCEPT ![p] = "out"] /\ mem' = mem
      BY <2>1, <2>3, <2>5
    <3>2. pc' \in [Procs -> States] /\ shmName' \in 0 .. shms'
      BY <2>1, <2>2, <3>1
    <3>3. \A q \in Procs : HasOpen(q)'
      BY <2>1, <2>4, <2>5, <3>1
    <3> QED
      BY <2>1, <3>1, <3>2, <3>3
  <2>6. CASE mem[p] # 0
    <3>1. pc' \in [Procs -> States] /\ mem' \in [Procs -> 0 .. shms'] /\ shmName' \in 0 .. shms'
      BY <2>1, <2>2, <2>3, <2>6
    <3>2. HasOpen(p)'
      BY <2>1, <2>3, <2>4, <2>6
    <3>3. \A q \in Procs : q # p => HasOpen(q)'
      BY <2>1, <2>3, <2>6
    <3> QED
      BY <2>1, <3>1, <3>2, <3>3
  <2> QED
    BY <2>5, <2>6
<1>14. ASSUME NEW p \in Procs, LeaveSem(p)
       PROVE  TypeOK'
  <2>1. /\ pc[p] = "closing" /\ pc' = [pc EXCEPT ![p] = "out"] /\ sem' = [sem EXCEPT ![p] = 0]
        /\ UNCHANGED <<shmName, shms, sems, value, mem, v, orphans, counts>>
    BY <1>14 DEF LeaveSem
  <2>2. semName' \in 0 .. sems
    BY <1>14 DEF LeaveSem
  <2>3. \A q \in Procs : HasOpen(q)'
    BY <2>1
  <2> QED
    BY <2>1, <2>2, <2>3
<1>15. ASSUME NEW p \in Procs, Crash(p)
       PROVE  TypeOK'
  <2>1. /\ pc' = [pc EXCEPT ![p] = "out"]
        /\ mem' = [mem EXCEPT ![p] = 0] /\ sem' = [sem EXCEPT ![p] = 0]
        /\ UNCHANGED <<names, value, v, binds, ownerBinds, signals>>
    BY <1>15 DEF Crash
  <2>2. crashes' \in 0 .. MaxCrashes
    BY <1>15 DEF Crash
  <2>3. \A q \in Procs : HasOpen(q)'
    BY <2>1
  <2>4. orphans' \subseteq 1 .. sems'
    <3>1. orphans' = orphans \cup {k \in 1 .. sems : Holds(p, k)} /\ sems' = sems
      BY <1>15 DEF Crash
    <3> QED
      BY <3>1
  <2> QED
    BY <2>1, <2>2, <2>3, <2>4
<1>16. ASSUME UNCHANGED vars
       PROVE  TypeOK'
  BY <1>16 DEF vars
<1> QED
  BY <1>1, <1>2, <1>3, <1>4, <1>5, <1>6, <1>7, <1>8, <1>9, <1>10, <1>11, <1>12, <1>13,
     <1>14, <1>15, <1>16 DEF Next

THEOREM TypeCorrect == Spec => []TypeOK
<1>1. Init => TypeOK
  BY SharedMemAssumption DEF Init, TypeOK, HasOpen, States
<1>2. TypeOK /\ [Next]_vars => TypeOK'
  BY TypeStep
<1> QED
  BY <1>1, <1>2, PTL DEF Spec

-----------------------------------------------------------------------------
(* The semaphore is binary. *)

\* Post has read the value of a semaphore that its process holds.
PostersRead == signals = 0 => \A p \in Procs : pc[p] = "posting" => v[p] = 0

BinaryInv == TypeOK /\ SemaphoreIsBinary /\ PostersRead

\* A step that leaves the semaphores, their holders and what Post has read as
\* they are.
LEMMA HoldersStay ==
    ASSUME BinaryInv, UNCHANGED <<value, sems, orphans, v, signals>>,
           \A p \in Procs : /\ pc'[p] = "posting" => pc[p] = "posting"
                            /\ \A k \in 1 .. sems : Holds(p, k)' <=> Holds(p, k)
    PROVE  (SemaphoreIsBinary /\ PostersRead)'
  BY Zenon DEF BinaryInv, SemaphoreIsBinary, Binary, PostersRead

LEMMA BinaryStep ==
    ASSUME BinaryInv, [Next]_vars
    PROVE  BinaryInv'
<1>1. TypeOK /\ TypeOK'
  BY TypeStep DEF BinaryInv
<1>2. /\ pc \in [Procs -> States] /\ sems \in Nat /\ value \in [1 .. sems -> Nat]
      /\ sem \in [Procs -> 0 .. sems] /\ v \in [Procs -> Nat] /\ orphans \subseteq 1 .. sems
      /\ signals \in Nat
  <2>1. TypeOK
    BY <1>1
  <2> QED
    BY <2>1, SharedMemAssumption DEF TypeOK
<1>3. signals = 0 => \A k \in 1 .. sems : Binary(k)
  BY DEF BinaryInv, SemaphoreIsBinary
<1>4. PostersRead
  BY DEF BinaryInv
<1> SUFFICES (SemaphoreIsBinary /\ PostersRead)'
  BY <1>1 DEF BinaryInv
<1> USE DEF Go, names, counts
<1>5. ASSUME NEW p \in Procs,
             \/ BindOwner(p) \/ CreateShm(p) \/ UnlinkSem(p) \/ BindUser(p)
             \/ OpenShm(p) \/ Enter(p) \/ LeaveShm(p)
      PROVE  (SemaphoreIsBinary /\ PostersRead)'
  <2>1. UNCHANGED <<value, sems, orphans, v, signals, sem>>
    BY <1>5 DEF BindOwner, CreateShm, UnlinkSem, BindUser, OpenShm, Enter, LeaveShm
  <2>2. pc[p] \notin {"in", "posting"} /\ \E to \in States \ {"in", "posting"} : pc' = [pc EXCEPT ![p] = to]
    BY <1>5 DEF BindOwner, CreateShm, UnlinkSem, BindUser, OpenShm, Enter, LeaveShm, States
  <2>3. \A q \in Procs : /\ pc'[q] = "posting" => pc[q] = "posting"
                         /\ \A k \in 1 .. sems : Holds(q, k)' <=> Holds(q, k)
    BY <2>1, <2>2, <1>2 DEF Holds
  <2> QED
    BY <2>1, <2>3, HoldersStay
<1>6. ASSUME NEW p \in Procs, OpenSem(p) \/ LeaveSem(p)
      PROVE  (SemaphoreIsBinary /\ PostersRead)'
  <2>1. UNCHANGED <<value, sems, orphans, v, signals>>
    BY <1>6 DEF OpenSem, LeaveSem
  <2>2. /\ pc[p] \notin {"in", "posting"} /\ \E to \in {"ready", "out"} : pc' = [pc EXCEPT ![p] = to]
        /\ \E k \in Nat : sem' = [sem EXCEPT ![p] = k]
    <3>1. semName \in Nat
      BY <1>1 DEF TypeOK
    <3>2. CASE OpenSem(p)
      BY <3>1, <3>2 DEF OpenSem
    <3>3. CASE LeaveSem(p)
      BY <3>3 DEF LeaveSem
    <3> QED
      BY <1>6, <3>2, <3>3
  <2>3. \A q \in Procs : /\ pc'[q] = "posting" => pc[q] = "posting"
                         /\ \A k \in 1 .. sems : Holds(q, k)' <=> Holds(q, k)
    BY <2>1, <2>2, <1>2 DEF Holds
  <2> QED
    BY <2>1, <2>3, HoldersStay
<1>7. ASSUME NEW p \in Procs, CreateSem(p)
      PROVE  (SemaphoreIsBinary /\ PostersRead)'
  <2>1. UNCHANGED <<orphans, v, signals>> /\ pc[p] = "createSem" /\ pc' = [pc EXCEPT ![p] = "ready"]
    BY <1>7 DEF CreateSem
  <2>2. CASE semName # 0
    <3>1. UNCHANGED <<value, sems, sem>>
      BY <1>7, <2>2 DEF CreateSem
    <3>2. \A q \in Procs : /\ pc'[q] = "posting" => pc[q] = "posting"
                           /\ \A k \in 1 .. sems : Holds(q, k)' <=> Holds(q, k)
      BY <2>1, <3>1, <1>2 DEF Holds
    <3> QED
      BY <2>1, <3>1, <3>2, HoldersStay
  <2>3. CASE semName = 0
    <3>1. /\ sems' = sems + 1 /\ sem' = [sem EXCEPT ![p] = sems + 1]
          /\ value' = [k \in 1 .. sems + 1 |-> IF k <= sems THEN value[k] ELSE 1]
      BY <1>7, <2>3 DEF CreateSem
    <3>2. \A q \in Procs : /\ pc'[q] = "posting" => pc[q] = "posting"
                           /\ \A k \in 1 .. sems : Holds(q, k)' <=> Holds(q, k)
                           /\ \A k : k = sems + 1 => ~Holds(q, k)'
      BY <2>1, <3>1, <1>2 DEF Holds
    <3>3. ASSUME signals = 0, NEW k \in 1 .. sems
          PROVE  Binary(k)'
      <4>1. k \in 1 .. sems + 1 /\ k <= sems
        BY <1>2
      <4>2. value'[k] = value[k]
        BY <3>1, <4>1, SMT
      <4>3. Binary(k) /\ orphans' = orphans
        BY <3>3, <1>3, <2>1, Zenon
      <4> QED
        BY <4>2, <4>3, <3>2, Zenon DEF Binary
    <3>4. ASSUME NEW k, k = sems + 1
          PROVE  Binary(k)'
      <4>1. k \in 1 .. sems + 1 /\ ~(k <= sems) /\ k \notin 1 .. sems
        BY <3>4, <1>2
      <4>2. value'[k] = 1
        BY <3>1, <4>1, SMT
      <4>3. orphans' = orphans /\ k \notin orphans
        BY <4>1, <1>2, <2>1
      <4> QED
        BY <4>2, <4>3, <3>2, <3>4 DEF Binary
    <3>5. SemaphoreIsBinary'
      <4>1. \A k \in 1 .. sems' : k \in 1 .. sems \/ k = sems + 1
        BY <3>1, <1>2
      <4>2. ASSUME signals' = 0, NEW k \in 1 .. sems'
            PROVE  Binary(k)'
        BY <4>1, <4>2, <3>3, <3>4, <2>1
      <4> QED
        BY <4>2 DEF SemaphoreIsBinary
    <3> QED
      BY <3>5, <3>2, <2>1, <1>4 DEF PostersRead
  <2> QED
    BY <2>2, <2>3
<1>8. ASSUME NEW p \in Procs, Wait(p)
      PROVE  (SemaphoreIsBinary /\ PostersRead)'
  <2>1. /\ pc[p] = "waiting" /\ pc' = [pc EXCEPT ![p] = "in"]
        /\ UNCHANGED <<names, sem, v, orphans, signals>>
    BY <1>8 DEF Wait
  <2>2. \A q \in Procs : /\ pc'[q] = "posting" => pc[q] = "posting"
                         /\ \A k \in 1 .. sems : Holds(q, k)' <=> (Holds(q, k) \/ (q = p /\ k = sem[p]))
    BY <2>1, <1>2 DEF Holds
  <2>3. CASE sem[p] = 0
    <3>1. UNCHANGED value
      BY <1>8, <2>3 DEF Wait
    <3>2. \A q \in Procs : \A k \in 1 .. sems : Holds(q, k)' <=> Holds(q, k)
      BY <2>2, <2>3
    <3> QED
      BY <2>1, <2>2, <3>1, <3>2, HoldersStay
  <2>4. CASE sem[p] # 0
    <3>1. sem[p] \in 1 .. sems /\ value[sem[p]] > 0
             /\ value' = [value EXCEPT ![sem[p]] = value[sem[p]] - 1]
      BY <1>8, <2>4, <1>2 DEF Wait
    <3>2. ASSUME signals = 0, NEW k \in 1 .. sems
          PROVE  Binary(k)'
      <4>1. CASE k # sem[p]
        <5>1. value'[k] = value[k] /\ orphans' = orphans /\ \A q \in Procs : Holds(q, k)' <=> Holds(q, k)
          BY <3>1, <1>2, <2>1, <2>2, <4>1
        <5> QED
          BY <5>1, <3>2, <1>3, Zenon DEF Binary
      <4>2. CASE k = sem[p]
        <5>1. value[k] = 1 /\ value'[k] = 0 /\ orphans' = orphans
          BY <3>1, <3>2, <1>2, <1>3, <2>1, <4>2 DEF Binary
        <5>2. k \notin orphans /\ \A q \in Procs : ~Holds(q, k)
          BY <5>1, <3>2, <1>3 DEF Binary
        <5>3. \A q \in Procs : Holds(q, k)' <=> q = p
          BY <5>2, <2>2, <4>2
        <5> QED
          BY <5>1, <5>2, <5>3 DEF Binary
      <4> QED
        BY <4>1, <4>2
    <3> QED
      BY <3>2, <2>1, <2>2, <1>4 DEF SemaphoreIsBinary, PostersRead
  <2> QED
    BY <2>3, <2>4
<1>9. ASSUME NEW p \in Procs, WaitSignalled(p)
      PROVE  (SemaphoreIsBinary /\ PostersRead)'
  <2>1. signals' # 0
    BY <1>9, <1>2 DEF WaitSignalled
  <2> QED
    BY <2>1 DEF SemaphoreIsBinary, PostersRead
<1>10. ASSUME NEW p \in Procs, GetValue(p)
       PROVE  (SemaphoreIsBinary /\ PostersRead)'
  <2>1. pc[p] = "in" /\ UNCHANGED <<names, value, sem, orphans, signals>>
    BY <1>10 DEF GetValue
  <2>2. CASE sem[p] = 0
    <3>1. UNCHANGED v /\ pc' = [pc EXCEPT ![p] = "ready"]
      BY <1>10, <2>2 DEF GetValue
    <3>2. \A q \in Procs : /\ pc'[q] = "posting" => pc[q] = "posting"
                           /\ \A k \in 1 .. sems : Holds(q, k)' <=> Holds(q, k)
      BY <2>1, <2>2, <3>1, <1>2 DEF Holds
    <3> QED
      BY <2>1, <3>1, <3>2, HoldersStay
  <2>3. CASE sem[p] # 0
    <3>1. v' = [v EXCEPT ![p] = value[sem[p]]] /\ pc' = [pc EXCEPT ![p] = "posting"]
             /\ sem[p] \in 1 .. sems /\ Holds(p, sem[p])
      BY <1>10, <2>3, <2>1, <1>2 DEF GetValue, Holds
    <3>2. \A q \in Procs : \A k \in 1 .. sems : Holds(q, k)' <=> Holds(q, k)
      BY <2>1, <3>1, <1>2 DEF Holds
    <3>3. signals = 0 => value[sem[p]] = 0
      BY <3>1, <1>3 DEF Binary
    <3>4. PostersRead'
      BY <3>1, <3>3, <2>1, <1>2, <1>4 DEF PostersRead
    <3>5. SemaphoreIsBinary'
      BY <2>1, <3>2, <1>3, Zenon DEF SemaphoreIsBinary, Binary
    <3> QED
      BY <3>4, <3>5
  <2> QED
    BY <2>2, <2>3
<1>11. ASSUME NEW p \in Procs, Post(p)
       PROVE  (SemaphoreIsBinary /\ PostersRead)'
  <2>1. /\ pc[p] = "posting" /\ pc' = [pc EXCEPT ![p] = "ready"]
        /\ UNCHANGED <<names, sem, v, orphans, signals>>
    BY <1>11 DEF Post
  <2>2. PostersRead'
    BY <2>1, <1>2, <1>4 DEF PostersRead
  <2>3. sem[p] \in 1 .. sems /\ Holds(p, sem[p])
    <3>1. HasOpen(p)
      BY <1>1 DEF TypeOK
    <3> QED
      BY <2>1, <3>1, <1>2 DEF HasOpen, Holds
  <2>4. ASSUME signals = 0, NEW k \in 1 .. sems
        PROVE  Binary(k)'
    <3>1. v[p] = 0 /\ value' = [value EXCEPT ![sem[p]] = value[sem[p]] + 1]
      BY <1>11, <2>1, <2>4, <1>4 DEF Post, PostersRead
    <3>2. \A q \in Procs : Holds(q, k)' <=> (Holds(q, k) /\ q # p)
      BY <2>1, <1>2 DEF Holds
    <3>3. CASE k # sem[p]
      <4>1. value'[k] = value[k] /\ orphans' = orphans /\ ~Holds(p, k)
        BY <3>1, <3>3, <2>1, <1>2 DEF Holds
      <4>2. \A q \in Procs : Holds(q, k)' <=> Holds(q, k)
        BY <3>2, <4>1
      <4> QED
        BY <4>1, <4>2, <2>4, <1>3, Zenon DEF Binary
    <3>4. CASE k = sem[p]
      <4>1. value[k] = 0 /\ k \notin orphans /\ \A q \in Procs : Holds(q, k) => q = p
        BY <3>4, <2>3, <2>4, <1>3 DEF Binary
      <4>2. value'[k] = 1 /\ orphans' = orphans
        BY <4>1, <3>1, <3>4, <2>1, <1>2
      <4>3. \A q \in Procs : ~Holds(q, k)'
        BY <4>1, <3>2
      <4> QED
        BY <4>1, <4>2, <4>3 DEF Binary
    <3> QED
      BY <3>3, <3>4
  <2> QED
    BY <2>1, <2>2, <2>4 DEF SemaphoreIsBinary
<1>12. ASSUME NEW p \in Procs, Crash(p)
       PROVE  (SemaphoreIsBinary /\ PostersRead)'
  <2>1. /\ pc' = [pc EXCEPT ![p] = "out"] /\ sem' = [sem EXCEPT ![p] = 0]
        /\ UNCHANGED <<names, value, v, signals>>
        /\ orphans' = orphans \cup {k \in 1 .. sems : Holds(p, k)}
    BY <1>12 DEF Crash
  <2>2. PostersRead'
    BY <2>1, <1>2, <1>4 DEF PostersRead
  <2>3. ASSUME signals = 0, NEW k \in 1 .. sems
        PROVE  Binary(k)'
    <3>1. \A q \in Procs : Holds(q, k)' <=> (Holds(q, k) /\ q # p)
      BY <2>1, <1>2 DEF Holds
    <3>2. k \in orphans' <=> (k \in orphans \/ Holds(p, k))
      BY <2>1
    <3>3. value'[k] = value[k] /\ Binary(k)
      BY <2>1, <2>3, <1>3
    <3> QED
      BY <3>1, <3>2, <3>3, Zenon DEF Binary
  <2> QED
    BY <2>1, <2>2, <2>3 DEF SemaphoreIsBinary
<1>13. ASSUME UNCHANGED vars
       PROVE  (SemaphoreIsBinary /\ PostersRead)'
  BY <1>13, HoldersStay DEF vars, Holds
<1> QED
  BY <1>5, <1>6, <1>7, <1>8, <1>9, <1>10, <1>11, <1>12, <1>13 DEF Next

\* SharedLock's semaphore is free or has exactly one holder, for every number of
\* processes that start, lock, leave and crash, as long as no signal ends a wait.
THEOREM SemaphoreHasOneHolder == Spec => []SemaphoreIsBinary
<1>1. Init => BinaryInv
  BY SharedMemAssumption
     DEF Init, BinaryInv, TypeOK, HasOpen, States, SemaphoreIsBinary, PostersRead
<1>2. BinaryInv /\ [Next]_vars => BinaryInv'
  BY BinaryStep
<1>3. BinaryInv => SemaphoreIsBinary
  BY DEF BinaryInv
<1> QED
  BY <1>1, <1>2, <1>3, PTL DEF Spec

-----------------------------------------------------------------------------
(* The lock excludes. *)

Creating(p) == pc[p] \in {"createShm", "unlinkSem", "createSem"}

\* An owner makes at most one semaphore each time it binds.
OneSemaphore ==
    /\ ownerBinds = 0 => sems = 0 /\ \A p \in Procs : ~Creating(p)
    /\ ownerBinds = 1 => /\ sems <= 1
                         /\ sems = 1 => \A p \in Procs : ~Creating(p)
                         /\ \A p, q \in Procs : Creating(p) /\ Creating(q) => p = q

\* Nobody begins to create, and no semaphore is made.
LEMMA NoCreation ==
    ASSUME OneSemaphore, UNCHANGED <<ownerBinds, sems>>,
           \A p \in Procs : Creating(p)' => Creating(p)
    PROVE  OneSemaphore'
  BY Zenon DEF OneSemaphore

LEMMA OneSemaphoreStep ==
    ASSUME TypeOK, OneSemaphore, [Next]_vars
    PROVE  OneSemaphore'
<1>1. pc \in [Procs -> States] /\ sems \in Nat /\ ownerBinds \in Nat
  BY SharedMemAssumption DEF TypeOK
<1> USE DEF Go, names, counts
<1>2. ASSUME NEW p \in Procs, BindOwner(p)
      PROVE  OneSemaphore'
  <2>1. ownerBinds' = ownerBinds + 1 /\ sems' = sems /\ pc' = [pc EXCEPT ![p] = "createShm"]
    BY <1>2 DEF BindOwner
  <2>2. \A q \in Procs : Creating(q)' => Creating(q) \/ q = p
    BY <2>1, <1>1 DEF Creating
  <2> QED
    BY <2>1, <2>2, <1>1 DEF OneSemaphore
<1>3. ASSUME NEW p \in Procs, CreateSem(p)
      PROVE  OneSemaphore'
  <2>1. /\ ownerBinds' = ownerBinds /\ sems' \in {sems, sems + 1}
        /\ Creating(p) /\ pc' = [pc EXCEPT ![p] = "ready"]
    BY <1>3 DEF CreateSem, Creating
  <2>2. \A q \in Procs : Creating(q)' => Creating(q) /\ q # p
    BY <2>1, <1>1 DEF Creating
  <2> QED
    BY <2>1, <2>2, <1>1 DEF OneSemaphore
<1>4. ASSUME NEW p \in Procs,
             \/ CreateShm(p) \/ UnlinkSem(p) \/ BindUser(p) \/ OpenShm(p) \/ OpenSem(p)
             \/ Enter(p) \/ Wait(p) \/ WaitSignalled(p) \/ GetValue(p) \/ Post(p)
             \/ LeaveShm(p) \/ LeaveSem(p) \/ Crash(p)
      PROVE  OneSemaphore'
  <2>1. UNCHANGED <<ownerBinds, sems>>
    BY <1>4 DEF CreateShm, UnlinkSem, BindUser, OpenShm, OpenSem, Enter, Wait, WaitSignalled,
                GetValue, Post, LeaveShm, LeaveSem, Crash
  <2>2. \A q \in Procs : Creating(q)' => Creating(q)
    BY <1>4, <1>1
       DEF CreateShm, UnlinkSem, BindUser, OpenShm, OpenSem, Enter, Wait, WaitSignalled,
           GetValue, Post, LeaveShm, LeaveSem, Crash, Creating
  <2> QED
    BY <2>1, <2>2, NoCreation
<1>5. ASSUME UNCHANGED vars
      PROVE  OneSemaphore'
  BY <1>5, NoCreation DEF vars, Creating
<1> QED
  BY <1>2, <1>3, <1>4, <1>5 DEF Next

\* The processes that are in the lock of a semaphore, or leaving it.
Holders(k) == {p \in Procs : Holds(p, k)}

\* A signal that ends a wait lets in one process more than the value counts.
CountInv == \A k \in 1 .. sems : value[k] + Cardinality(Holders(k)) <= 1 + signals

LEMMA HoldersType ==
    ASSUME NEW k
    PROVE  IsFiniteSet(Holders(k)) /\ Cardinality(Holders(k)) \in Nat
<1>1. Holders(k) \subseteq Procs /\ IsFiniteSet(Procs)
  BY SharedMemAssumption DEF Holders
<1> QED
  BY <1>1, FS_Subset, FS_CardinalityType

LEMMA HoldersStayAsTheyAre ==
    ASSUME NEW k, \A q \in Procs : Holds(q, k)' <=> Holds(q, k)
    PROVE  Cardinality(Holders(k))' = Cardinality(Holders(k))
<1>1. Holders(k)' = Holders(k)
  BY DEF Holders
<1> QED
  BY <1>1, Zenon

LEMMA OneComesIn ==
    ASSUME NEW k, NEW p \in Procs, \A q \in Procs : Holds(q, k)' <=> (Holds(q, k) \/ q = p)
    PROVE  Cardinality(Holders(k))' \in Nat /\ Cardinality(Holders(k))' <= Cardinality(Holders(k)) + 1
<1>1. Holders(k)' = Holders(k) \cup {p}
  BY DEF Holders
<1>2. IsFiniteSet(Holders(k)) /\ Cardinality(Holders(k)) \in Nat
  BY HoldersType
<1>3. \/ Cardinality(Holders(k) \cup {p}) = Cardinality(Holders(k))
      \/ Cardinality(Holders(k) \cup {p}) = Cardinality(Holders(k)) + 1
  BY <1>2, FS_AddElement
<1>4. Cardinality(Holders(k))' = Cardinality(Holders(k) \cup {p})
  BY <1>1, Zenon
<1> QED
  BY <1>2, <1>3, <1>4

LEMMA OneGoesOut ==
    ASSUME NEW k, NEW p \in Procs, \A q \in Procs : Holds(q, k)' <=> (Holds(q, k) /\ q # p)
    PROVE  /\ Cardinality(Holders(k))' \in Nat
           /\ Cardinality(Holders(k))' <= Cardinality(Holders(k))
           /\ Holds(p, k) => Cardinality(Holders(k))' = Cardinality(Holders(k)) - 1
<1>1. Holders(k)' = Holders(k) \ {p} /\ (Holds(p, k) => p \in Holders(k))
  BY DEF Holders
<1>2. IsFiniteSet(Holders(k)) /\ Cardinality(Holders(k)) \in Nat
  BY HoldersType
<1>3. /\ Cardinality(Holders(k) \ {p}) =
           IF p \in Holders(k) THEN Cardinality(Holders(k)) - 1 ELSE Cardinality(Holders(k))
      /\ IsFiniteSet(Holders(k) \ {p})
  BY <1>2, FS_RemoveElement
<1>4. Cardinality(Holders(k) \ {p}) \in Nat
  BY <1>3, FS_CardinalityType
<1>5. Cardinality(Holders(k))' = Cardinality(Holders(k) \ {p})
  BY <1>1, Zenon
<1> QED
  BY <1>1, <1>2, <1>3, <1>4, <1>5

LEMMA CountStays ==
    ASSUME CountInv, UNCHANGED <<value, sems, signals>>,
           \A k \in 1 .. sems : \A q \in Procs : Holds(q, k)' <=> Holds(q, k)
    PROVE  CountInv'
<1>1. ASSUME NEW k \in 1 .. sems
      PROVE  (value[k] + Cardinality(Holders(k)) <= 1 + signals)'
  <2>1. Cardinality(Holders(k))' = Cardinality(Holders(k))
    BY HoldersStayAsTheyAre
  <2> QED
    BY <2>1 DEF CountInv
<1> QED
  BY <1>1 DEF CountInv

LEMMA Sums ==
    ASSUME NEW x \in Nat, NEW y \in Nat, NEW z \in Nat, x + y <= 1 + z, NEW c \in Nat
    PROVE  /\ c <= y + 1 => x + c <= 1 + (z + 1) /\ (x > 0 => (x - 1) + c <= 1 + z)
           /\ c <= y => x + c <= 1 + z /\ x + c <= 1 + (z + 1)
           /\ c = y - 1 => x + c <= 1 + z /\ (x + 1) + c <= 1 + z
  OBVIOUS

LEMMA CountStep ==
    ASSUME TypeOK, CountInv, [Next]_vars
    PROVE  CountInv'
<1>1. /\ pc \in [Procs -> States] /\ sems \in Nat /\ value \in [1 .. sems -> Nat]
      /\ sem \in [Procs -> 0 .. sems] /\ v \in [Procs -> Nat] /\ signals \in Nat
  BY SharedMemAssumption DEF TypeOK
<1>2. ASSUME NEW k \in 1 .. sems
      PROVE  /\ value[k] \in Nat /\ Cardinality(Holders(k)) \in Nat
             /\ value[k] + Cardinality(Holders(k)) <= 1 + signals
  BY <1>1, HoldersType DEF CountInv
<1> USE DEF Go, names, counts
<1>3. ASSUME NEW p \in Procs,
             \/ BindOwner(p) \/ CreateShm(p) \/ UnlinkSem(p) \/ BindUser(p) \/ OpenShm(p)
             \/ Enter(p) \/ LeaveShm(p)
      PROVE  CountInv'
  <2>1. UNCHANGED <<value, sems, signals, sem>>
    BY <1>3 DEF BindOwner, CreateShm, UnlinkSem, BindUser, OpenShm, Enter, LeaveShm
  <2>2. /\ pc[p] \notin {"in", "posting"}
        /\ \E to \in States \ {"in", "posting"} : pc' = [pc EXCEPT ![p] = to]
    BY <1>3 DEF BindOwner, CreateShm, UnlinkSem, BindUser, OpenShm, Enter, LeaveShm, States
  <2>3. \A k \in 1 .. sems : \A q \in Procs : Holds(q, k)' <=> Holds(q, k)
    BY <2>1, <2>2, <1>1 DEF Holds
  <2> QED
    BY <2>1, <2>3, CountStays
<1>4. ASSUME NEW p \in Procs, OpenSem(p) \/ LeaveSem(p)
      PROVE  CountInv'
  <2>1. UNCHANGED <<value, sems, signals>>
    BY <1>4 DEF OpenSem, LeaveSem
  <2>2. /\ pc[p] \notin {"in", "posting"} /\ \E to \in {"ready", "out"} : pc' = [pc EXCEPT ![p] = to]
        /\ \E k \in Nat : sem' = [sem EXCEPT ![p] = k]
    <3>1. semName \in Nat
      BY DEF TypeOK
    <3>2. CASE OpenSem(p)
      BY <3>1, <3>2 DEF OpenSem
    <3>3. CASE LeaveSem(p)
      BY <3>3 DEF LeaveSem
    <3> QED
      BY <1>4, <3>2, <3>3
  <2>3. \A k \in 1 .. sems : \A q \in Procs : Holds(q, k)' <=> Holds(q, k)
    BY <2>1, <2>2, <1>1 DEF Holds
  <2> QED
    BY <2>1, <2>3, CountStays
<1>5. ASSUME NEW p \in Procs, CreateSem(p)
      PROVE  CountInv'
  <2>1. signals' = signals /\ pc[p] = "createSem" /\ pc' = [pc EXCEPT ![p] = "ready"]
    BY <1>5 DEF CreateSem
  <2>2. CASE semName # 0
    <3>1. UNCHANGED <<value, sems, sem>>
      BY <1>5, <2>2 DEF CreateSem
    <3>2. \A k \in 1 .. sems : \A q \in Procs : Holds(q, k)' <=> Holds(q, k)
      BY <2>1, <3>1, <1>1 DEF Holds
    <3> QED
      BY <2>1, <3>1, <3>2, CountStays
  <2>3. CASE semName = 0
    <3>1. /\ sems' = sems + 1 /\ sem' = [sem EXCEPT ![p] = sems + 1]
          /\ value' = [k \in 1 .. sems + 1 |-> IF k <= sems THEN value[k] ELSE 1]
      BY <1>5, <2>3 DEF CreateSem
    <3>2. ASSUME NEW k \in 1 .. sems
          PROVE  (value[k] + Cardinality(Holders(k)) <= 1 + signals)'
      <4>1. \A q \in Procs : Holds(q, k)' <=> Holds(q, k)
        BY <2>1, <3>1, <1>1 DEF Holds
      <4>2. value'[k] = value[k]
        BY <3>1, <1>1
      <4>3. Cardinality(Holders(k))' = Cardinality(Holders(k))
        BY <4>1, HoldersStayAsTheyAre
      <4> QED
        BY <4>2, <4>3, <2>1, <1>2
    <3>3. ASSUME NEW k, k = sems + 1
          PROVE  (value[k] + Cardinality(Holders(k)) <= 1 + signals)'
      <4>1. \A q \in Procs : ~Holds(q, k)'
        BY <3>3, <2>1, <3>1, <1>1 DEF Holds
      <4>2. Holders(k)' = {}
        BY <4>1 DEF Holders
      <4>3. Cardinality(Holders(k))' = 0
        BY <4>2, FS_EmptySet, Zenon
      <4>4. value'[k] = 1
        BY <3>1, <3>3, <1>1
      <4> QED
        BY <4>3, <4>4, <2>1, <1>1
    <3>4. \A k \in 1 .. sems' : k \in 1 .. sems \/ k = sems + 1
      BY <3>1, <1>1
    <3> QED
      BY <3>2, <3>3, <3>4 DEF CountInv
  <2> QED
    BY <2>2, <2>3
<1>6. ASSUME NEW p \in Procs, Wait(p) \/ WaitSignalled(p)
      PROVE  CountInv'
  <2>1. /\ pc[p] = "waiting" /\ pc' = [pc EXCEPT ![p] = "in"]
        /\ UNCHANGED <<sems, sem>>
    BY <1>6 DEF Wait, WaitSignalled
  <2>2. \A q \in Procs : \A k : Holds(q, k)' <=> (Holds(q, k) \/ (q = p /\ k = sem[p]))
    BY <2>1, <1>1 DEF Holds
  <2>3. ASSUME NEW k \in 1 .. sems, k # sem[p]
        PROVE  (value[k] + Cardinality(Holders(k)) <= 1 + signals)'
    <3>1. value'[k] = value[k] /\ signals' \in {signals, signals + 1}
      BY <1>6, <1>1, <2>3 DEF Wait, WaitSignalled
    <3>2. Cardinality(Holders(k))' = Cardinality(Holders(k)) /\ Cardinality(Holders(k)) \in Nat
      BY <2>2, <2>3, HoldersStayAsTheyAre, HoldersType
    <3>3. CASE signals' = signals
      BY <3>1, <3>2, <3>3, <1>2
    <3>4. CASE signals' = signals + 1
      BY <3>1, <3>2, <3>4, <1>1, <1>2, Sums
    <3> QED
      BY <3>1, <3>3, <3>4
  <2>4. ASSUME NEW k \in 1 .. sems, k = sem[p]
        PROVE  (value[k] + Cardinality(Holders(k)) <= 1 + signals)'
    <3>1. Cardinality(Holders(k))' \in Nat /\ Cardinality(Holders(k))' <= Cardinality(Holders(k)) + 1
      BY <2>2, <2>4, OneComesIn
    <3>2. \/ value[k] > 0 /\ value'[k] = value[k] - 1 /\ signals' = signals
          \/ value'[k] = value[k] /\ signals' = signals + 1
      BY <1>6, <1>1, <2>4 DEF Wait, WaitSignalled
    <3>3. CASE value[k] > 0 /\ value'[k] = value[k] - 1 /\ signals' = signals
      BY <3>1, <3>3, <1>1, <1>2, Sums
    <3>4. CASE value'[k] = value[k] /\ signals' = signals + 1
      BY <3>1, <3>4, <1>1, <1>2, Sums
    <3> QED
      BY <3>2, <3>3, <3>4
  <2> QED
    BY <2>1, <2>3, <2>4 DEF CountInv
<1>7. ASSUME NEW p \in Procs, GetValue(p)
      PROVE  CountInv'
  <2>1. pc[p] = "in" /\ UNCHANGED <<value, sem, sems, signals>>
    BY <1>7 DEF GetValue
  <2>2. pc' = [pc EXCEPT ![p] = IF sem[p] = 0 THEN "ready" ELSE "posting"]
    BY <1>7 DEF GetValue
  <2>3. \A k \in 1 .. sems : \A q \in Procs : Holds(q, k)' <=> Holds(q, k)
    BY <2>1, <2>2, <1>1 DEF Holds
  <2> QED
    BY <2>1, <2>3, CountStays
<1>8. ASSUME NEW p \in Procs, Post(p)
      PROVE  CountInv'
  <2>1. /\ pc[p] = "posting" /\ pc' = [pc EXCEPT ![p] = "ready"]
        /\ UNCHANGED <<sems, sem, signals>>
    BY <1>8 DEF Post
  <2>2. \A k : \A q \in Procs : Holds(q, k)' <=> (Holds(q, k) /\ q # p)
    BY <2>1, <1>1 DEF Holds
  <2>3. ASSUME NEW k \in 1 .. sems
        PROVE  (value[k] + Cardinality(Holders(k)) <= 1 + signals)'
    <3>1. /\ Cardinality(Holders(k))' \in Nat
          /\ Cardinality(Holders(k))' <= Cardinality(Holders(k))
          /\ Holds(p, k) => Cardinality(Holders(k))' = Cardinality(Holders(k)) - 1
      BY <2>2, OneGoesOut
    <3>2. CASE Holds(p, k)
      <4>1. value'[k] = value[k] \/ value'[k] = value[k] + 1
        BY <1>8, <1>1 DEF Post
      <4>2. Cardinality(Holders(k))' = Cardinality(Holders(k)) - 1
        BY <3>1, <3>2
      <4> QED
        BY <3>1, <4>1, <4>2, <2>1, <1>1, <1>2, Sums
    <3>3. CASE ~Holds(p, k)
      <4>1. k # sem[p]
        BY <3>3, <2>1 DEF Holds
      <4>2. value'[k] = value[k]
        BY <4>1, <1>8, <1>1 DEF Post
      <4> QED
        BY <3>1, <4>2, <2>1, <1>1, <1>2, Sums
    <3> QED
      BY <3>2, <3>3
  <2> QED
    BY <2>1, <2>3 DEF CountInv
<1>9. ASSUME NEW p \in Procs, Crash(p)
      PROVE  CountInv'
  <2>1. /\ pc' = [pc EXCEPT ![p] = "out"] /\ sem' = [sem EXCEPT ![p] = 0]
        /\ UNCHANGED <<sems, value, signals>>
    BY <1>9 DEF Crash
  <2>2. \A k : \A q \in Procs : Holds(q, k)' <=> (Holds(q, k) /\ q # p)
    BY <2>1, <1>1 DEF Holds
  <2>3. ASSUME NEW k \in 1 .. sems
        PROVE  (value[k] + Cardinality(Holders(k)) <= 1 + signals)'
    <3>1. /\ Cardinality(Holders(k))' \in Nat
          /\ Cardinality(Holders(k))' <= Cardinality(Holders(k))
      BY <2>2, OneGoesOut
    <3> QED
      BY <3>1, <2>1, <1>1, <1>2, Sums
  <2> QED
    BY <2>1, <2>3 DEF CountInv
<1>10. ASSUME UNCHANGED vars
       PROVE  CountInv'
  BY <1>10, CountStays DEF vars, Holds
<1> QED
  BY <1>3, <1>4, <1>5, <1>6, <1>7, <1>8, <1>9, <1>10 DEF Next

\* Until an owner binds again, the processes that have found the semaphore are
\* never inside a lock of the same memory together, however many processes there
\* are and whichever of them crash, but for one more for each wait that a signal
\* has ended.
THEOREM LocksExclude == Spec => []LockExcludes
<1> DEFINE Inv == TypeOK /\ OneSemaphore /\ CountInv
<1>1. Init => Inv
  BY SharedMemAssumption
     DEF Init, TypeOK, HasOpen, States, OneSemaphore, Creating, CountInv
<1>2. Inv /\ [Next]_vars => Inv'
  BY TypeStep, OneSemaphoreStep, CountStep
<1>3. Inv => LockExcludes
  <2> SUFFICES ASSUME Inv, ownerBinds <= 1, NEW m \in 1 .. shms
               PROVE  Cardinality(Inside(m)) <= 1 + signals
    BY DEF LockExcludes
  <2>1. sems \in {0, 1} /\ sem \in [Procs -> 0 .. sems] /\ signals \in Nat
    BY SharedMemAssumption DEF TypeOK, OneSemaphore
  <2>2. Inside(m) \subseteq Holders(1)
    BY <2>1 DEF Inside, Holders, Holds
  <2>3. /\ IsFiniteSet(Holders(1)) /\ Cardinality(Holders(1)) \in Nat
        /\ Cardinality(Inside(m)) <= Cardinality(Holders(1))
        /\ Cardinality(Inside(m)) \in Nat
    BY <2>2, HoldersType, FS_Subset, FS_CardinalityType
  <2>4. CASE sems = 1
    <3>1. value[1] \in Nat /\ value[1] + Cardinality(Holders(1)) <= 1 + signals
      BY <2>4 DEF TypeOK, CountInv
    <3> QED
      BY <2>1, <2>3, <3>1
  <2>5. CASE sems = 0
    <3>1. \A p \in Procs : sem[p] = 0
      BY <2>1, <2>5
    <3>2. Inside(m) = {}
      BY <3>1, Zenon DEF Inside
    <3>3. Cardinality(Inside(m)) = 0
      BY <3>2, FS_EmptySet, Zenon
    <3> QED
      BY <2>1, <3>3
  <2> QED
    BY <2>1, <2>4, <2>5
<1> QED
  BY <1>1, <1>2, <1>3, PTL DEF Spec

-----------------------------------------------------------------------------
(* An owner is found. *)

Alone(p) == \A q \in Owners : q = p

\* What an owner that is alone has made where it is, and what the names lead to.
OwnerHas(p) ==
    /\ pc[p] \notin {"null", "openShm", "openSem"}
    /\ pc[p] = "createShm" => shmName = 0
    /\ pc[p] \in {"unlinkSem", "createSem"} => mem[p] # 0 /\ shmName = mem[p]
    /\ pc[p] = "createSem" => semName = 0
    /\ pc[p] \in {"ready", "waiting", "in", "posting"} =>
          mem[p] # 0 /\ sem[p] # 0 /\ shmName = mem[p] /\ semName = sem[p]

OwnerInv ==
    /\ \A p \in Procs : Creating(p) => p \in Owners
    /\ \A p \in Owners : Alone(p) => OwnerHas(p)

\* A process that does not own the name neither makes an object nor moves the
\* name, and what another process has open is its own.
LEMMA UserStep ==
    ASSUME TypeOK, OwnerInv, NEW p \in Owners, OwnerHas(p), NEW q \in Procs \ Owners,
           \/ CreateShm(q) \/ UnlinkSem(q) \/ CreateSem(q)
           \/ BindUser(q) \/ OpenShm(q) \/ OpenSem(q)
           \/ Enter(q) \/ Wait(q) \/ WaitSignalled(q) \/ GetValue(q) \/ Post(q)
           \/ LeaveShm(q) \/ LeaveSem(q) \/ Crash(q)
    PROVE  OwnerHas(p)'
<1>1. p \in Procs /\ p # q /\ pc \in [Procs -> States] /\ ~Creating(q)
  BY SharedMemAssumption DEF TypeOK, OwnerInv
<1>2. mem \in [Procs -> 0 .. shms] /\ sem \in [Procs -> 0 .. sems]
  BY DEF TypeOK
<1> USE DEF Go, names, counts
<1>3. ~CreateShm(q) /\ ~UnlinkSem(q) /\ ~CreateSem(q)
  BY <1>1 DEF CreateShm, UnlinkSem, CreateSem, Creating
<1>4. pc'[p] = pc[p] /\ UNCHANGED <<shmName, semName>>
  BY <1>1, <1>3
     DEF BindUser, OpenShm, OpenSem, Enter, Wait, WaitSignalled, GetValue, Post,
         LeaveShm, LeaveSem, Crash
<1>5. mem'[p] = mem[p] /\ sem'[p] = sem[p]
  BY <1>1, <1>2, <1>3
     DEF BindUser, OpenShm, OpenSem, Enter, Wait, WaitSignalled, GetValue, Post,
         LeaveShm, LeaveSem, Crash
<1> QED
  BY <1>4, <1>5, Zenon DEF OwnerHas

\* The steps of the owner itself.
LEMMA OwnerStep ==
    ASSUME TypeOK, NEW p \in Owners, OwnerHas(p),
           \/ CreateShm(p) \/ UnlinkSem(p) \/ CreateSem(p)
           \/ BindUser(p) \/ OpenShm(p) \/ OpenSem(p)
           \/ Enter(p) \/ Wait(p) \/ WaitSignalled(p) \/ GetValue(p) \/ Post(p)
           \/ LeaveShm(p) \/ LeaveSem(p) \/ Crash(p)
    PROVE  OwnerHas(p)'
<1>1. p \in Procs /\ pc \in [Procs -> States] /\ shms \in Nat /\ sems \in Nat
  BY SharedMemAssumption DEF TypeOK
<1>2. mem \in [Procs -> 0 .. shms] /\ sem \in [Procs -> 0 .. sems]
  BY DEF TypeOK
<1> USE DEF Go, names, counts, OwnerHas
<1>3. CASE CreateShm(p)
  BY <1>1, <1>2, <1>3 DEF CreateShm
<1>4. CASE UnlinkSem(p)
  BY <1>1, <1>2, <1>4 DEF UnlinkSem
<1>5. CASE CreateSem(p)
  BY <1>1, <1>2, <1>5 DEF CreateSem
<1>6. CASE BindUser(p) \/ OpenShm(p) \/ OpenSem(p)
  BY <1>6 DEF BindUser, OpenShm, OpenSem
<1>7. CASE Enter(p) \/ Wait(p) \/ WaitSignalled(p) \/ GetValue(p) \/ Post(p)
  BY <1>1, <1>2, <1>7 DEF Enter, Wait, WaitSignalled, GetValue, Post
<1>8. CASE LeaveShm(p) \/ LeaveSem(p) \/ Crash(p)
  BY <1>1, <1>2, <1>8 DEF LeaveShm, LeaveSem, Crash
<1> QED
  BY <1>3, <1>4, <1>5, <1>6, <1>7, <1>8

LEMMA OwnerInvStep ==
    ASSUME TypeOK, OwnerInv, [Next]_vars
    PROVE  OwnerInv'
<1>1. Owners \subseteq Procs /\ pc \in [Procs -> States]
  BY SharedMemAssumption DEF TypeOK
<1> USE DEF Go, names, counts
<1>2. ASSUME NEW q \in Procs, BindOwner(q)
      PROVE  OwnerInv'
  <2>1. q \in Owners /\ pc' = [pc EXCEPT ![q] = "createShm"] /\ shmName' = 0
    BY <1>2 DEF BindOwner
  <2>2. \A p \in Procs : Creating(p)' => Creating(p) \/ p = q
    BY <2>1, <1>1 DEF Creating
  <2>3. pc'[q] = "createShm"
    BY <2>1, <1>1
  <2>4. OwnerHas(q)'
    BY <2>1, <2>3 DEF OwnerHas
  <2> QED
    BY <2>1, <2>2, <2>4, Zenon DEF OwnerInv, Alone
<1>3. ASSUME NEW q \in Procs,
             \/ CreateShm(q) \/ UnlinkSem(q) \/ CreateSem(q)
             \/ BindUser(q) \/ OpenShm(q) \/ OpenSem(q)
             \/ Enter(q) \/ Wait(q) \/ WaitSignalled(q) \/ GetValue(q) \/ Post(q)
             \/ LeaveShm(q) \/ LeaveSem(q) \/ Crash(q)
      PROVE  OwnerInv'
  <2>1. \A p \in Procs : Creating(p)' => Creating(p)
    BY <1>3, <1>1
       DEF CreateShm, UnlinkSem, CreateSem, BindUser, OpenShm, OpenSem, Enter, Wait,
           WaitSignalled, GetValue, Post, LeaveShm, LeaveSem, Crash, Creating
  <2>2. ASSUME NEW p \in Owners, Alone(p)
        PROVE  OwnerHas(p)'
    <3>1. OwnerHas(p)
      BY <2>2 DEF OwnerInv
    <3>2. CASE q \in Owners
      <4>1. q = p
        BY <2>2, <3>2 DEF Alone
      <4> QED
        BY <4>1, <3>1, <1>3, OwnerStep
    <3>3. CASE q \notin Owners
      BY <3>1, <3>3, <1>3, UserStep
    <3> QED
      BY <3>2, <3>3
  <2> QED
    BY <2>1, <2>2, Zenon DEF OwnerInv, Alone
<1>4. ASSUME UNCHANGED vars
      PROVE  OwnerInv'
  BY <1>4, Zenon DEF vars, OwnerInv, OwnerHas, Alone, Creating
<1> QED
  BY <1>2, <1>3, <1>4 DEF Next

\* What an owner that is alone has made can be found under the name as long as it
\* lives, however many processes bind, leave and crash and whatever an owner that
\* crashed before has left behind.
THEOREM OwnersAreFound == Spec => []OwnerIsFound
<1>1. Init => TypeOK /\ OwnerInv
  BY SharedMemAssumption DEF Init, TypeOK, HasOpen, States, OwnerInv, OwnerHas, Creating
<1>2. TypeOK /\ OwnerInv /\ [Next]_vars => (TypeOK /\ OwnerInv)'
  BY TypeStep, OwnerInvStep
<1>3. TypeOK /\ OwnerInv => OwnerIsFound
  <2> SUFFICES ASSUME OwnerInv, NEW p \in Owners, Cardinality(Owners) = 1,
                      pc[p] \in {"ready", "waiting", "in", "posting"}
               PROVE  mem[p] # 0 /\ sem[p] # 0 /\ shmName = mem[p] /\ semName = sem[p]
    BY DEF OwnerIsFound
  <2>1. IsFiniteSet(Owners)
    BY SharedMemAssumption, FS_Subset
  <2>2. \E x : Owners = {x}
    BY <2>1, FS_Singleton
  <2>3. Alone(p)
    BY <2>2 DEF Alone
  <2> QED
    BY <2>3 DEF OwnerInv, OwnerHas
<1> QED
  BY <1>1, <1>2, <1>3, PTL DEF Spec
=============================================================================
