---------------------------- MODULE MqLife_proofs ---------------------------
(***************************************************************************)
(* Proofs about MqLife, for every finite set of objects in any processes:  *)
(* its types, that descriptors are kept until an object with a refused     *)
(* name is destroyed, that owners which follow one another get the name,   *)
(* and that a queue notifies no object that is gone.                       *)
(***************************************************************************)
EXTENDS MqLife, FiniteSetTheorems, WellFoundedInduction, TLAPS

\* A set of numbers up to n has a least one: of the intervals from 0 to its
\* elements, one has no other as a part.
LEMMA HasLeast ==
    ASSUME NEW n \in Nat, NEW S, S \subseteq 0 .. n, S # {}
    PROVE  \E x \in S : \A y \in S : x <= y
<1> DEFINE T == {0 .. x : x \in S}
           R == StrictSubsetOrdering(0 .. n)
<1>1. IsWellFoundedOn(StrictSubsetOrdering(0 .. n), FiniteSubsetsOf(0 .. n))
  BY FS_StrictSubsetOrderingWellFounded
<1>2. \A x \in S : 0 .. x \in FiniteSubsetsOf(0 .. n)
  <2> TAKE x \in S
  <2>1. x \in Nat /\ 0 .. x \subseteq 0 .. n /\ IsFiniteSet(0 .. x)
    BY FS_Interval
  <2> QED
    BY <2>1 DEF FiniteSubsetsOf
<1>3. T \subseteq FiniteSubsetsOf(0 .. n) /\ T # {}
  BY <1>2
<1>4. PICK t \in T : \A u \in T : ~(<<u, t>> \in R)
  <2> HIDE DEF T, R
  <2> QED
    BY <1>1, <1>3, WFMin, Zenon DEF R
<1>5. PICK x \in S : t = 0 .. x
  OBVIOUS
<1>6. ASSUME NEW y \in S, y < x PROVE FALSE
  <2>1. x \in 0 .. x /\ x \notin 0 .. y
    BY <1>6
  <2>2. 0 .. y \subseteq 0 .. n /\ 0 .. x \subseteq 0 .. n /\ 0 .. y \subseteq 0 .. x /\ 0 .. y # 0 .. x
    BY <1>6, <2>1
  <2>3. <<0 .. y, 0 .. x>> \in R
    BY <2>2 DEF StrictSubsetOrdering
  <2> QED
    BY <1>4, <1>5, <2>3
<1> QED
  BY <1>6

-----------------------------------------------------------------------------
(* An open finds a descriptor. *)

Tables == [Processes -> [Fds -> {Other} \cup 0 .. made]]

\* A descriptor other than 0 that leads somewhere is that of an object.
DescriptorsAreHeld ==
    \A p \in Processes, d \in 1 .. MaxFd :
        table[p][d] # Free => \E o \in Objects : Home[o] = p /\ pc[o] = "open" /\ fd[o] = d

\* There are more descriptors than objects, so that one is free.
LEMMA SomeFdIsFree ==
    ASSUME DescriptorsAreHeld, NEW p \in Processes
    PROVE  \E d \in 1 .. MaxFd : table[p][d] = Free
<1> SUFFICES ASSUME \A d \in 1 .. MaxFd : table[p][d] # Free PROVE FALSE
  OBVIOUS
<1> DEFINE f == [d \in 1 .. MaxFd |-> CHOOSE o \in Objects : fd[o] = d]
<1>1. \A d \in 1 .. MaxFd : f[d] \in Objects /\ fd[f[d]] = d
  BY DEF DescriptorsAreHeld
<1>2. f \in [1 .. MaxFd -> Objects]
  BY <1>1
<1>3. /\ IsFiniteSet(1 .. MaxFd) /\ IsFiniteSet(Objects) /\ MaxFd \in Nat
      /\ Cardinality(Objects) < Cardinality(1 .. MaxFd)
  <2>1. MaxFd \in Nat /\ IsFiniteSet(Objects) /\ MaxFd > Cardinality(Objects)
    BY LifeAssumption
  <2>2. Cardinality(Objects) \in Nat
    BY <2>1, FS_CardinalityType
  <2>3. IsFiniteSet(1 .. MaxFd) /\ Cardinality(1 .. MaxFd) = IF 1 > MaxFd THEN 0 ELSE MaxFd - 1 + 1
    BY <2>1, FS_Interval
  <2> QED
    BY <2>1, <2>2, <2>3
<1> HIDE DEF f
<1>4. \E d, e \in 1 .. MaxFd : d # e /\ f[d] = f[e]
  BY <1>2, <1>3, FS_PigeonHole
<1> QED
  BY <1>1, <1>4

LEMMA LowestIs ==
    ASSUME DescriptorsAreHeld, NEW p \in Processes
    PROVE  Lowest(p) \in Fds /\ table[p][Lowest(p)] = Free
<1> DEFINE S == {d \in Fds : table[p][d] = Free}
<1>1. MaxFd \in Nat
  BY LifeAssumption
<1>2. S \subseteq 0 .. MaxFd /\ S # {}
  BY <1>1, SomeFdIsFree DEF Fds
<1> HIDE DEF S
<1>3. PICK x \in S : \A y \in S : x <= y
  BY <1>1, <1>2, HasLeast
<1>4. x \in Fds /\ table[p][x] = Free
  BY <1>3 DEF S
<1>5. \A e \in 0 .. x - 1 : table[p][e] # Free
  <2> SUFFICES ASSUME NEW e \in 0 .. x - 1, table[p][e] = Free PROVE FALSE
    OBVIOUS
  <2>1. e \in S /\ x \in Nat
    BY <1>1, <1>4 DEF S, Fds
  <2>2. x <= e
    BY <1>3, <2>1
  <2> QED
    BY <2>1, <2>2
<1>6. \E d \in Fds : table[p][d] = Free /\ \A e \in 0 .. d - 1 : table[p][e] # Free
  BY <1>4, <1>5
<1> QED
  BY <1>6, Zenon DEF Lowest

-----------------------------------------------------------------------------
(* Types. *)

TypeInv == TypeOK /\ DescriptorsAreHeld

\* Object o gets descriptor d, which was free, for queue q.
Gets(o, q, d) ==
    /\ d \in Fds /\ table[Home[o]][d] = Free
    /\ table' = [table EXCEPT ![Home[o]][d] = q] /\ fd' = [fd EXCEPT ![o] = d]
    /\ opened' = [opened EXCEPT ![o] = q] /\ pc' = [pc EXCEPT ![o] = "open"]

LEMMA OpensIs ==
    ASSUME TypeInv, NEW o \in Objects, NEW q, Opens(o, q)
    PROVE  \E d \in Fds : Gets(o, q, d)
<1>1. Home[o] \in Processes
  BY LifeAssumption
<1>2. Lowest(Home[o]) \in Fds /\ table[Home[o]][Lowest(Home[o])] = Free
  BY <1>1, LowestIs DEF TypeInv
<1> QED
  BY <1>2, Zenon DEF Opens, Gets

\* What an open does to the tables: one entry that was free is the object's.
LEMMA GetsIs ==
    ASSUME TypeInv, NEW o \in Objects, NEW q \in Queues, NEW d \in Fds, Gets(o, q, d)
    PROVE  /\ table' \in [Processes -> [Fds -> {Other} \cup 0 .. made \cup {q}]]
           /\ fd' \in [Objects -> Fds \cup {-1}]
           /\ opened' \in [Objects -> 0 .. made \cup {q}]
           /\ pc' \in [Objects -> {"none", "create", "open", "unlink"}]
           /\ fd'[o] = d /\ opened'[o] = q /\ pc'[o] = "open" /\ table'[Home[o]][d] = q
           /\ \A u \in Objects : u # o => fd'[u] = fd[u] /\ opened'[u] = opened[u] /\ pc'[u] = pc[u]
           /\ \A p \in Processes, e \in Fds :
                 ~(p = Home[o] /\ e = d) => table'[p][e] = table[p][e]
           /\ d # -1 /\ q # 0 /\ q # Other
<1>1. Home[o] \in Processes /\ MaxFd \in Nat /\ MaxQueues \in Nat
  BY LifeAssumption
<1>2. /\ table \in Tables /\ fd \in [Objects -> Fds \cup {-1}] /\ opened \in [Objects -> 0 .. made]
      /\ pc \in [Objects -> {"none", "create", "open", "unlink"}]
  BY DEF TypeInv, TypeOK, Tables
<1>3. d # -1 /\ q # 0 /\ q # Other
  BY <1>1 DEF Fds, Queues, Other
<1>4. /\ table' \in [Processes -> [Fds -> {Other} \cup 0 .. made \cup {q}]]
      /\ table'[Home[o]][d] = q
      /\ \A p \in Processes, e \in Fds :
            ~(p = Home[o] /\ e = d) => table'[p][e] = table[p][e]
  BY <1>1, <1>2 DEF Gets, Tables
<1>5. /\ fd' \in [Objects -> Fds \cup {-1}] /\ fd'[o] = d
      /\ opened' \in [Objects -> 0 .. made \cup {q}] /\ opened'[o] = q
      /\ pc' \in [Objects -> {"none", "create", "open", "unlink"}] /\ pc'[o] = "open"
  BY <1>2 DEF Gets
<1>6. \A u \in Objects : u # o => fd'[u] = fd[u] /\ opened'[u] = opened[u] /\ pc'[u] = pc[u]
  BY <1>2 DEF Gets
<1> QED
  BY <1>3, <1>4, <1>5, <1>6, Zenon

\* The descriptors stay held when an object that is not open gets one.
LEMMA GetsKeepsHeld ==
    ASSUME TypeInv, NEW o \in Objects, NEW q \in Queues, NEW d \in Fds, Gets(o, q, d), pc[o] # "open"
    PROVE  DescriptorsAreHeld'
<1> SUFFICES ASSUME NEW p \in Processes, NEW e \in 1 .. MaxFd, table'[p][e] # Free
             PROVE  \E u \in Objects : Home[u] = p /\ pc'[u] = "open" /\ fd'[u] = e
  BY DEF DescriptorsAreHeld
<1>1. e \in Fds
  BY LifeAssumption DEF Fds
<1>2. CASE p = Home[o] /\ e = d
  BY <1>2, GetsIs
<1>3. CASE ~(p = Home[o] /\ e = d)
  <2>1. table[p][e] # Free
    BY <1>1, <1>3, GetsIs
  <2>2. PICK u \in Objects : Home[u] = p /\ pc[u] = "open" /\ fd[u] = e
    BY <2>1 DEF TypeInv, DescriptorsAreHeld
  <2> QED
    BY <2>2, GetsIs
<1> QED
  BY <1>2, <1>3

\* Ending a process's registrations leaves at most one object.
LEMMA WithoutProcessIs ==
    ASSUME TypeOK, NEW p, NEW q
    PROVE  /\ WithoutProcess(p, q) \in [Queues -> {None} \cup {{o} : o \in Objects}]
           /\ \A k \in Queues : WithoutProcess(p, q)[k] \subseteq registered[k]
           /\ \A o \in Objects : q \in Queues /\ Home[o] = p => o \notin WithoutProcess(p, q)[q]
<1>1. registered \in [Queues -> {None} \cup {{o} : o \in Objects}]
  BY DEF TypeOK
<1>2. \A k \in Queues : {o \in registered[k] : Home[o] # p} \in {None} \cup {{o} : o \in Objects}
  <2> TAKE k \in Queues
  <2>1. registered[k] = {} \/ \E o \in Objects : registered[k] = {o}
    BY <1>1 DEF None
  <2> QED
    BY <2>1 DEF None
<1> QED
  BY <1>1, <1>2 DEF WithoutProcess

\* The destructor frees one descriptor of its process.
LEMMA DestroyIs ==
    ASSUME TypeInv, NEW o \in Objects, Destroy(o)
    PROVE  /\ pc[o] = "open" /\ UNCHANGED <<kind, fd, opened, name, made, orderly>>
           /\ \/ pc' = [pc EXCEPT ![o] = "none"]
              \/ pc' = [pc EXCEPT ![o] = "unlink"] /\ kind[o] = "owner"
           /\ badGone' \in BOOLEAN /\ (~badGone' => ~badGone /\ kind[o] # "bad")
           /\ table' \in Tables
           /\ \A p \in Processes, e \in Fds :
                 table'[p][e] = IF p = Home[o] /\ e = fd[o] THEN Free ELSE table[p][e]
           /\ \/ fd[o] = -1 /\ registered' = registered
              \/ fd[o] \in Fds /\ Target(o) \notin Queues /\ registered' = registered
              \/ fd[o] \in Fds /\ Target(o) \in Queues
                 /\ registered' = WithoutProcess(Home[o], Target(o))
<1>1. /\ Home[o] \in Processes /\ MaxFd \in Nat /\ fd[o] \in Fds \cup {-1} /\ table \in Tables
      /\ kind \in [Objects -> {"owner", "user", "bad"}] /\ made \in Nat
  BY LifeAssumption DEF TypeInv, TypeOK, Tables
<1>2. /\ pc[o] = "open" /\ UNCHANGED <<kind, fd, opened, name, made, orderly>>
      /\ \/ pc' = [pc EXCEPT ![o] = "none"]
         \/ pc' = [pc EXCEPT ![o] = "unlink"] /\ kind[o] = "owner"
  BY DEF Destroy
<1>3. badGone' \in BOOLEAN /\ (~badGone' => ~badGone /\ kind[o] # "bad")
  BY Zenon DEF Destroy
<1>4. CASE fd[o] = -1
  <2>1. UNCHANGED <<table, registered>>
    BY <1>4 DEF Destroy
  <2>2. \A e \in Fds : e # fd[o]
    BY <1>1, <1>4 DEF Fds
  <2>3. \A p \in Processes, e \in Fds :
           table'[p][e] = IF p = Home[o] /\ e = fd[o] THEN Free ELSE table[p][e]
    BY <2>1, <2>2
  <2> QED
    BY <1>1, <1>2, <1>3, <1>4, <2>1, <2>3
<1>5. CASE fd[o] # -1
  <2>1. /\ fd[o] \in Fds /\ table' = [table EXCEPT ![Home[o]][fd[o]] = Free]
        /\ registered' = IF Target(o) \in Queues THEN WithoutProcess(Home[o], Target(o))
                                                 ELSE registered
    BY <1>1, <1>5 DEF Destroy
  <2>2. table' \in [Processes -> [Fds -> {Other} \cup 0 .. made]]
    BY <1>1, <2>1 DEF Free, Tables
  <2>3. \A p \in Processes, e \in Fds :
           table'[p][e] = IF p = Home[o] /\ e = fd[o] THEN Free ELSE table[p][e]
    BY <1>1, <2>1 DEF Tables
  <2>4. table' \in Tables
    BY <1>2, <2>2 DEF Tables
  <2> QED
    BY <1>2, <1>3, <2>1, <2>3, <2>4
<1> QED
  BY <1>4, <1>5

\* The descriptors stay held when the tables stay and no open object is touched.
LEMMA SameKeepsHeld ==
    ASSUME DescriptorsAreHeld, table' = table,
           \A u \in Objects : pc[u] = "open" => pc'[u] = "open" /\ fd'[u] = fd[u]
    PROVE  DescriptorsAreHeld'
<1> SUFFICES ASSUME NEW p \in Processes, NEW e \in 1 .. MaxFd, table'[p][e] # Free
             PROVE  \E u \in Objects : Home[u] = p /\ pc'[u] = "open" /\ fd'[u] = e
  BY DEF DescriptorsAreHeld
<1>1. PICK u \in Objects : Home[u] = p /\ pc[u] = "open" /\ fd[u] = e
  BY DEF DescriptorsAreHeld
<1> QED
  BY <1>1

\* They stay held by the others when one object closes its own.
LEMMA DestroyKeepsHeld ==
    ASSUME TypeInv, NEW o \in Objects, Destroy(o)
    PROVE  DescriptorsAreHeld'
<1> SUFFICES ASSUME NEW p \in Processes, NEW e \in 1 .. MaxFd, table'[p][e] # Free
             PROVE  \E u \in Objects : Home[u] = p /\ pc'[u] = "open" /\ fd'[u] = e
  BY DEF DescriptorsAreHeld
<1>1. e \in Fds /\ pc \in [Objects -> {"none", "create", "open", "unlink"}]
  BY LifeAssumption DEF Fds, TypeInv, TypeOK
<1>2. ~(p = Home[o] /\ e = fd[o]) /\ table[p][e] # Free
  <2>1. \A r \in Processes, f \in Fds :
           table'[r][f] = IF r = Home[o] /\ f = fd[o] THEN Free ELSE table[r][f]
    BY DestroyIs, Zenon
  <2> QED
    BY <1>1, <2>1
<1>3. PICK u \in Objects : Home[u] = p /\ pc[u] = "open" /\ fd[u] = e
  BY <1>2 DEF TypeInv, DescriptorsAreHeld
<1>4. u # o
  BY <1>2, <1>3
<1>5. pc' = [pc EXCEPT ![o] = "none"] \/ pc' = [pc EXCEPT ![o] = "unlink"]
  BY DestroyIs, Zenon
<1>6. fd' = fd
  BY DestroyIs
<1>7. pc'[u] = "open"
  BY <1>1, <1>3, <1>4, <1>5
<1> QED
  BY <1>3, <1>6, <1>7

LEMMA TypeInvStarts == Init => TypeInv
<1> SUFFICES ASSUME Init PROVE TypeInv
  OBVIOUS
<1>1. MaxFd \in Nat /\ MaxQueues \in Nat
  BY LifeAssumption
<1>2. \A d \in 1 .. MaxFd : d \in Fds /\ d # 0
  BY <1>1 DEF Fds
<1>3. DescriptorsAreHeld
  <2>1. \A p \in Processes, d \in 1 .. MaxFd : table[p][d] = Free
    BY <1>2 DEF Init
  <2> QED
    BY <2>1, Zenon DEF DescriptorsAreHeld
<1>4. TypeOK
  <2>1. /\ pc \in [Objects -> {"none", "create", "open", "unlink"}]
        /\ kind \in [Objects -> {"owner", "user", "bad"}]
        /\ fd \in [Objects -> Fds \cup {-1}] /\ opened \in [Objects -> 0 .. made]
        /\ name \in 0 .. made /\ made \in 0 .. MaxQueues
    BY <1>1 DEF Init
  <2>2. table \in [Processes -> [Fds -> {Other} \cup 0 .. made]]
    BY DEF Init, Free, Other
  <2>3. registered \in [Queues -> {None} \cup {{o} : o \in Objects}]
    BY DEF Init
  <2>4. badGone \in BOOLEAN /\ orderly \in BOOLEAN
    BY Zenon DEF Init
  <2> QED
    BY <2>1, <2>2, <2>3, <2>4, Zenon DEF TypeOK
<1> QED
  BY <1>3, <1>4 DEF TypeInv

LEMMA TypeInvStays == TypeInv /\ [Next]_vars => TypeInv'
<1> SUFFICES ASSUME TypeInv, [Next]_vars PROVE TypeOK' /\ DescriptorsAreHeld'
  BY Zenon DEF TypeInv
<1> USE DEF TypeInv
<1>0. MaxFd \in Nat /\ MaxQueues \in Nat /\ 0 \in Fds /\ Home \in [Objects -> Processes]
  BY LifeAssumption DEF Fds
<1>1. ASSUME NEW o \in Objects, InitBad(o) PROVE TypeOK' /\ DescriptorsAreHeld'
  <2>1. \A u \in Objects : pc[u] = "open" => pc'[u] = "open" /\ fd'[u] = fd[u]
    BY <1>1 DEF InitBad, TypeOK
  <2>2. TypeOK'
    BY <1>0, <1>1 DEF InitBad, TypeOK
  <2> QED
    BY <1>1, <2>1, <2>2, SameKeepsHeld DEF InitBad
<1>2. ASSUME NEW o \in Objects, UnlinkOld(o) PROVE TypeOK' /\ DescriptorsAreHeld'
  <2>1. \A u \in Objects : pc[u] = "open" => pc'[u] = "open" /\ fd'[u] = fd[u]
    BY <1>2 DEF UnlinkOld, TypeOK
  <2>2. orderly' \in BOOLEAN
    BY <1>2, Zenon DEF UnlinkOld
  <2>3. TypeOK'
    BY <1>0, <1>2, <2>2 DEF UnlinkOld, TypeOK
  <2> QED
    BY <1>2, <2>1, <2>3, SameKeepsHeld DEF UnlinkOld
<1>3. ASSUME NEW o \in Objects, NEW q \in Queues, Opens(o, q), pc[o] # "open",
             kind' \in [Objects -> {"owner", "user", "bad"}],
             made' \in {made, q}, made <= made', q <= made', made' \in 0 .. MaxQueues,
             name' \in 0 .. made', UNCHANGED <<registered, badGone, orderly>>
      PROVE  TypeOK' /\ DescriptorsAreHeld'
  <2>1. PICK d \in Fds : Gets(o, q, d)
    BY <1>3, OpensIs
  <2>2. DescriptorsAreHeld'
    BY <1>3, <2>1, GetsKeepsHeld
  <2>3. /\ table' \in [Processes -> [Fds -> {Other} \cup 0 .. made \cup {q}]]
        /\ fd' \in [Objects -> Fds \cup {-1}] /\ opened' \in [Objects -> 0 .. made \cup {q}]
        /\ pc' \in [Objects -> {"none", "create", "open", "unlink"}]
    BY <1>3, <2>1, GetsIs, Zenon
  <2>4. 0 .. made \cup {q} \subseteq 0 .. made'
    BY <1>0, <1>3 DEF TypeOK, Queues
  <2>5. opened' \in [Objects -> 0 .. made']
    BY <2>3, <2>4
  <2>6. table' \in [Processes -> [Fds -> {Other} \cup 0 .. made']]
    <3>1. {Other} \cup 0 .. made \cup {q} \subseteq {Other} \cup 0 .. made'
      BY <2>4
    <3>2. \A p \in Processes : table'[p] \in [Fds -> {Other} \cup 0 .. made']
      BY <2>3, <3>1
    <3> QED
      BY <2>3, <3>2
  <2>7. /\ registered' \in [Queues -> {None} \cup {{u} : u \in Objects}]
        /\ badGone' \in BOOLEAN /\ orderly' \in BOOLEAN
    BY <1>3 DEF TypeOK, None
  <2> QED
    BY <1>3, <2>2, <2>3, <2>5, <2>6, <2>7, Zenon DEF TypeOK, None, Queues
<1>4. ASSUME NEW o \in Objects, OpenFails(o), pc[o] # "open",
             kind' \in [Objects -> {"owner", "user", "bad"}],
             UNCHANGED <<name, made, registered, badGone, orderly>>
      PROVE  TypeOK' /\ DescriptorsAreHeld'
  <2>1. \A u \in Objects : pc[u] = "open" => pc'[u] = "open" /\ fd'[u] = fd[u]
    BY <1>4 DEF OpenFails, TypeOK
  <2>2. TypeOK'
    BY <1>0, <1>4 DEF OpenFails, TypeOK
  <2> QED
    BY <1>4, <2>1, <2>2, SameKeepsHeld DEF OpenFails
<1>5. ASSUME NEW o \in Objects, Create(o) PROVE TypeOK' /\ DescriptorsAreHeld'
  <2>1. pc[o] # "open" /\ kind' \in [Objects -> {"owner", "user", "bad"}]
        /\ UNCHANGED <<registered, badGone, orderly>>
    BY <1>5 DEF Create, TypeOK
  <2>2. CASE name = 0
    <3>1. Opens(o, made + 1) /\ made < MaxQueues /\ made' = made + 1 /\ name' = made + 1
      BY <1>5, <2>2 DEF Create
    <3>2. made + 1 \in Queues /\ made <= made + 1 /\ made + 1 \in 0 .. MaxQueues /\ made + 1 \in 0 .. made + 1
      BY <1>0, <3>1 DEF TypeOK, Queues
    <3> QED
      BY <1>3, <2>1, <3>1, <3>2
  <2>3. CASE name # 0
    BY <1>4, <1>5, <2>1, <2>3 DEF Create
  <2> QED
    BY <2>2, <2>3
<1>6. ASSUME NEW o \in Objects, OpenUser(o) PROVE TypeOK' /\ DescriptorsAreHeld'
  <2>1. pc[o] # "open" /\ kind' \in [Objects -> {"owner", "user", "bad"}]
        /\ UNCHANGED <<name, made, registered, badGone, orderly>>
    BY <1>6 DEF OpenUser, TypeOK
  <2>2. CASE name # 0
    <3>1. Opens(o, name)
      BY <1>6, <2>2 DEF OpenUser
    <3>2. name \in Queues /\ name <= made /\ made <= made /\ made \in 0 .. MaxQueues /\ name \in 0 .. made
      BY <1>0, <2>2 DEF TypeOK, Queues
    <3> QED
      BY <1>3, <2>1, <3>1, <3>2
  <2>3. CASE name = 0
    BY <1>4, <1>6, <2>1, <2>3 DEF OpenUser
  <2> QED
    BY <2>2, <2>3
<1>7. ASSUME registered' \in [Queues -> {None} \cup {{u} : u \in Objects}],
             UNCHANGED <<object, table, name, made, badGone, orderly>>
      PROVE  TypeOK' /\ DescriptorsAreHeld'
  <2>1. TypeOK'
    BY <1>7 DEF TypeOK, object, None, Queues
  <2>2. DescriptorsAreHeld'
    BY <1>7 DEF DescriptorsAreHeld, object
  <2> QED
    BY <2>1, <2>2
<1>8. ASSUME NEW o \in Objects, SetNotifyMessage(o) PROVE TypeOK' /\ DescriptorsAreHeld'
  <2>1. registered' \in [Queues -> {None} \cup {{u} : u \in Objects}]
    BY <1>8 DEF SetNotifyMessage, TypeOK
  <2> QED
    BY <1>7, <1>8, <2>1 DEF SetNotifyMessage
<1>9. ASSUME NEW o \in Objects, UnsetNotifyMessage(o) PROVE TypeOK' /\ DescriptorsAreHeld'
  BY <1>7, <1>9, WithoutProcessIs DEF UnsetNotifyMessage
<1>10. ASSUME NEW o \in Objects, Destroy(o) PROVE TypeOK' /\ DescriptorsAreHeld'
  <2>1. DescriptorsAreHeld'
    BY <1>10, DestroyKeepsHeld
  <2>2. /\ UNCHANGED <<kind, fd, opened, name, made, orderly>> /\ badGone' \in BOOLEAN /\ table' \in Tables
        /\ pc' \in {[pc EXCEPT ![o] = "none"], [pc EXCEPT ![o] = "unlink"]}
        /\ registered' \in {registered, WithoutProcess(Home[o], Target(o))}
    BY <1>10, DestroyIs, Zenon
  <2>3. registered' \in [Queues -> {None} \cup {{u} : u \in Objects}]
    BY <2>2, WithoutProcessIs DEF TypeOK
  <2>4. pc' \in [Objects -> {"none", "create", "open", "unlink"}]
    BY <2>2 DEF TypeOK
  <2>5. table' \in [Processes -> [Fds -> {Other} \cup 0 .. made']]
    BY <2>2 DEF Tables
  <2>6. /\ kind' \in [Objects -> {"owner", "user", "bad"}]
        /\ fd' \in [Objects -> Fds \cup {-1}] /\ opened' \in [Objects -> 0 .. made']
        /\ name' \in 0 .. made' /\ made' \in 0 .. MaxQueues /\ orderly' \in BOOLEAN
    BY <2>2 DEF TypeOK
  <2> QED
    BY <2>1, <2>2, <2>3, <2>4, <2>5, <2>6, Zenon DEF TypeOK, None, Queues
<1>11. ASSUME NEW o \in Objects, UnlinkName(o) PROVE TypeOK' /\ DescriptorsAreHeld'
  <2>1. \A u \in Objects : pc[u] = "open" => pc'[u] = "open" /\ fd'[u] = fd[u]
    BY <1>11 DEF UnlinkName, TypeOK
  <2>2. TypeOK'
    BY <1>0, <1>11 DEF UnlinkName, TypeOK
  <2> QED
    BY <1>11, <2>1, <2>2, SameKeepsHeld DEF UnlinkName
<1>12. ASSUME NEW p \in Processes, Exist(p) PROVE TypeOK' /\ DescriptorsAreHeld'
  <2>1. registered' \in [Queues -> {None} \cup {{u} : u \in Objects}]
    BY <1>12, WithoutProcessIs DEF Exist, TypeOK
  <2> QED
    BY <1>7, <1>12, <2>1 DEF Exist
<1>13. ASSUME NEW p \in Processes, Crash(p) PROVE TypeOK' /\ DescriptorsAreHeld'
  <2>1. pc' \in [Objects -> {"none", "create", "open", "unlink"}]
    BY <1>13 DEF Crash, TypeOK
  <2>2. table' \in [Processes -> [Fds -> {Other} \cup 0 .. made]]
    BY <1>0, <1>13 DEF Crash, TypeOK, Free, Other
  <2>3. registered' \in [Queues -> {None} \cup {{u} : u \in Objects}]
    <3>1. \A q \in Queues : {u \in registered[q] : Home[u] # p} \in {None} \cup {{u} : u \in Objects}
      <4> TAKE q \in Queues
      <4>1. registered[q] = {} \/ \E u \in Objects : registered[q] = {u}
        BY DEF TypeOK, None
      <4> QED
        BY <4>1 DEF None
    <3> QED
      BY <1>13, <3>1 DEF Crash
  <2>4. TypeOK'
    BY <1>13, <2>1, <2>2, <2>3 DEF Crash, TypeOK, None, Queues
  <2>5. DescriptorsAreHeld'
    <3> SUFFICES ASSUME NEW r \in Processes, NEW e \in 1 .. MaxFd, table'[r][e] # Free
                 PROVE  \E u \in Objects : Home[u] = r /\ pc'[u] = "open" /\ fd'[u] = e
      BY DEF DescriptorsAreHeld
    <3>1. e \in Fds /\ e # 0
      BY <1>0 DEF Fds
    <3>2. r # p /\ table[r][e] # Free
      BY <1>13, <3>1 DEF Crash, TypeOK
    <3>3. PICK u \in Objects : Home[u] = r /\ pc[u] = "open" /\ fd[u] = e
      BY <3>2 DEF DescriptorsAreHeld
    <3> QED
      BY <1>13, <3>2, <3>3 DEF Crash
  <2> QED
    BY <2>4, <2>5
<1>14. ASSUME UNCHANGED vars PROVE TypeOK' /\ DescriptorsAreHeld'
  <2>1. TypeOK'
    BY <1>14, Zenon DEF vars, object, TypeOK, None, Queues
  <2> QED
    BY <1>14, <2>1, SameKeepsHeld DEF vars, object
<1> QED
  BY <1>1, <1>2, <1>5, <1>6, <1>8, <1>9, <1>10, <1>11, <1>12, <1>13, <1>14, Zenon DEF Next

\* In every reachable state the variables have their types, and a queue
\* notifies one object at most.
THEOREM TypeCorrect == Spec => []TypeOK
<1>1. Spec => []TypeInv
  BY TypeInvStarts, TypeInvStays, PTL DEF Spec
<1>2. TypeInv => TypeOK
  BY DEF TypeInv
<1> QED
  BY <1>1, <1>2, PTL

-----------------------------------------------------------------------------
(* Owners that follow one another. *)

OwnerInv ==
    /\ \A o \in Objects : pc[o] \in {"create", "unlink"} => kind[o] = "owner"
    /\ orderly =>
         /\ \A o, u \in Objects : /\ pc[o] # "none" /\ kind[o] = "owner"
                                  /\ pc[u] # "none" /\ kind[u] = "owner"
                                  => o = u
         /\ \A o \in Objects : pc[o] = "create" => name = 0
         /\ \A o \in Objects : pc[o] = "open" /\ kind[o] = "owner"
                               => opened[o] # 0 /\ name = opened[o]

LEMMA OwnerInvStarts == Init => OwnerInv
BY DEF Init, OwnerInv

LEMMA OwnerInvStays == TypeOK /\ OwnerInv /\ [Next]_vars => OwnerInv'
<1> SUFFICES ASSUME TypeOK, OwnerInv, [Next]_vars PROVE OwnerInv'
  OBVIOUS
<1>0. /\ pc \in [Objects -> {"none", "create", "open", "unlink"}]
      /\ kind \in [Objects -> {"owner", "user", "bad"}]
      /\ opened \in [Objects -> 0 .. made] /\ made \in Nat /\ made + 1 # 0
  BY LifeAssumption DEF TypeOK
<1>1. ASSUME NEW o \in Objects, InitBad(o) PROVE OwnerInv'
  BY <1>0, <1>1 DEF InitBad, OwnerInv
<1>2. ASSUME NEW o \in Objects, UnlinkOld(o) PROVE OwnerInv'
  <2>1. \A u \in Objects : u # o => pc'[u] = pc[u] /\ kind'[u] = kind[u]
    BY <1>0, <1>2 DEF UnlinkOld
  <2>2. pc'[o] = "create" /\ kind'[o] = "owner" /\ name' = 0
    BY <1>0, <1>2 DEF UnlinkOld
  <2>3. orderly' => ~OwnerAbout
    BY <1>2, Zenon DEF UnlinkOld
  <2>4. \A u \in Objects : pc'[u] \in {"create", "unlink"} => kind'[u] = "owner"
    BY <2>1, <2>2 DEF OwnerInv
  <2>5. orderly' => \A u \in Objects : pc'[u] # "none" /\ kind'[u] = "owner" => u = o
    BY <2>1, <2>3, Zenon DEF OwnerAbout
  <2> QED
    BY <2>2, <2>4, <2>5, Zenon DEF OwnerInv
<1>3. ASSUME NEW o \in Objects, Create(o) PROVE OwnerInv'
  <2>1. CASE name = 0
    <3>1. /\ pc[o] = "create" /\ pc' = [pc EXCEPT ![o] = "open"] /\ opened' = [opened EXCEPT ![o] = made + 1]
          /\ name' = made + 1 /\ UNCHANGED <<kind, orderly>>
      BY <1>3, <2>1 DEF Create, Opens
    <3>2. \A u \in Objects : u # o => pc'[u] = pc[u]
      BY <1>0, <3>1
    <3>3. pc'[o] = "open" /\ opened'[o] = made + 1 /\ kind[o] = "owner"
      BY <1>0, <3>1 DEF OwnerInv
    <3> QED
      BY <1>0, <3>1, <3>2, <3>3 DEF OwnerInv
  <2>2. CASE name # 0
    <3>1. /\ pc[o] = "create" /\ pc' = [pc EXCEPT ![o] = "open"] /\ UNCHANGED <<kind, orderly>>
      BY <1>3, <2>2 DEF Create, OpenFails
    <3>2. ~orderly'
      BY <2>2, <3>1 DEF OwnerInv
    <3>3. \A u \in Objects : pc'[u] \in {"create", "unlink"} => kind'[u] = "owner"
      BY <1>0, <3>1 DEF OwnerInv
    <3> QED
      BY <3>2, <3>3, Zenon DEF OwnerInv
  <2> QED
    BY <2>1, <2>2
<1>4. ASSUME NEW o \in Objects, OpenUser(o) PROVE OwnerInv'
  <2>1. /\ pc[o] = "none" /\ pc' = [pc EXCEPT ![o] = "open"] /\ kind' = [kind EXCEPT ![o] = "user"]
        /\ UNCHANGED <<name, orderly>>
    BY <1>4 DEF OpenUser, Opens, OpenFails
  <2>2. \A u \in Objects : u # o => pc'[u] = pc[u] /\ kind'[u] = kind[u]
    BY <1>0, <2>1
  <2>3. opened' \in {[opened EXCEPT ![o] = name], [opened EXCEPT ![o] = 0]}
    <3>1. opened' = [opened EXCEPT ![o] = name] \/ opened' = [opened EXCEPT ![o] = 0]
      BY <1>4, Zenon DEF OpenUser, Opens, OpenFails
    <3> QED
      BY <3>1
  <2>4. \A u \in Objects : u # o => opened'[u] = opened[u]
    BY <1>0, <2>3
  <2>5. pc'[o] = "open" /\ kind'[o] = "user"
    BY <1>0, <2>1
  <2>6. \A u \in Objects : pc'[u] \in {"create", "unlink"} => kind'[u] = "owner"
    BY <2>2, <2>5 DEF OwnerInv
  <2>7. ASSUME orderly' PROVE /\ \A u, v \in Objects : /\ pc'[u] # "none" /\ kind'[u] = "owner"
                                                      /\ pc'[v] # "none" /\ kind'[v] = "owner"
                                                      => u = v
                              /\ \A u \in Objects : pc'[u] = "create" => name' = 0
                              /\ \A u \in Objects : pc'[u] = "open" /\ kind'[u] = "owner"
                                                   => opened'[u] # 0 /\ name' = opened'[u]
    BY <2>1, <2>2, <2>4, <2>5, <2>7 DEF OwnerInv
  <2> QED
    BY <2>6, <2>7, Zenon DEF OwnerInv
<1>5. ASSUME NEW o \in Objects, Destroy(o) PROVE OwnerInv'
  <2>1. /\ pc[o] = "open" /\ UNCHANGED <<kind, opened, name, orderly>>
        /\ pc' = [pc EXCEPT ![o] = IF kind[o] = "owner" /\ fd[o] # -1 THEN "unlink" ELSE "none"]
    BY <1>5 DEF Destroy
  <2>2. \A u \in Objects : u # o => pc'[u] = pc[u]
    BY <1>0, <2>1
  <2>3. \/ pc'[o] = "none"
        \/ pc'[o] = "unlink" /\ kind[o] = "owner"
    BY <1>0, <2>1
  <2> QED
    BY <2>1, <2>2, <2>3 DEF OwnerInv
<1>6. ASSUME NEW o \in Objects, UnlinkName(o) PROVE OwnerInv'
  <2>1. /\ pc[o] = "unlink" /\ UNCHANGED <<kind, opened, orderly>>
        /\ pc' = [pc EXCEPT ![o] = "none"] /\ name' = 0
    BY <1>6 DEF UnlinkName
  <2>2. (\A u \in Objects : u # o => pc'[u] = pc[u]) /\ pc'[o] = "none" /\ kind[o] = "owner"
    BY <1>0, <2>1 DEF OwnerInv
  <2> QED
    BY <2>1, <2>2 DEF OwnerInv
<1>7. ASSUME NEW p \in Processes, Crash(p) PROVE OwnerInv'
  <2>1. \A u \in Objects : pc'[u] = "none" \/ pc'[u] = pc[u]
    BY <1>7 DEF Crash
  <2>2. UNCHANGED <<kind, opened, name, orderly>>
    BY <1>7 DEF Crash
  <2> QED
    BY <2>1, <2>2 DEF OwnerInv
<1>8. ASSUME UNCHANGED <<object, name, orderly>> PROVE OwnerInv'
  BY <1>8 DEF OwnerInv, object
<1>9. ASSUME NEW o \in Objects, SetNotifyMessage(o) \/ UnsetNotifyMessage(o) PROVE OwnerInv'
  BY <1>8, <1>9 DEF SetNotifyMessage, UnsetNotifyMessage
<1>10. ASSUME NEW p \in Processes, Exist(p) PROVE OwnerInv'
  BY <1>8, <1>10 DEF Exist
<1>11. CASE UNCHANGED vars
  BY <1>8, <1>11 DEF vars
<1> QED
  BY <1>1, <1>2, <1>3, <1>4, <1>5, <1>6, <1>7, <1>9, <1>10, <1>11, Zenon DEF Next

\* While owners follow one another, crashes included, a new owner always gets a
\* queue, and it is the one the name leads to.
THEOREM OwnersGetTheName == Spec => []OwnerHasTheName
<1>1. Spec => [](TypeOK /\ OwnerInv)
  BY TypeCorrect, OwnerInvStarts, OwnerInvStays, PTL DEF Spec
<1>2. OwnerInv => OwnerHasTheName
  BY DEF OwnerInv, OwnerHasTheName
<1> QED
  BY <1>1, <1>2, PTL

-----------------------------------------------------------------------------
(* Descriptors are kept. *)

\* An open object has the descriptor of the queue it opened; one that opened
\* none has -1, or a refused name.
HasItsOwn(o) ==
    pc[o] = "open" =>
        IF opened[o] # 0 THEN fd[o] # -1 /\ table[Home[o]][fd[o]] = opened[o]
                         ELSE fd[o] = -1 \/ kind[o] = "bad"

\* Two open objects of one process have two descriptors.
ShareNothing(o, u) ==
    /\ o # u /\ Home[o] = Home[u] /\ pc[o] = "open" /\ pc[u] = "open"
    /\ opened[o] # 0 /\ opened[u] # 0
    => fd[o] # fd[u]

\* Until badGone, descriptor 0 of a process is what it was when it started.
ZeroIsOther == \A p \in Processes : table[p][0] = Other

Kept ==
    /\ ZeroIsOther
    /\ \A o \in Objects : HasItsOwn(o)
    /\ \A o, u \in Objects : ShareNothing(o, u)

KeptInv == ~badGone => Kept

LEMMA KeptInvStarts == Init => KeptInv
<1> SUFFICES ASSUME Init PROVE Kept
  BY DEF KeptInv
<1>1. 0 \in Fds
  BY LifeAssumption DEF Fds
<1> QED
  BY <1>1 DEF Init, Kept, ZeroIsOther, HasItsOwn, ShareNothing

\* Kept looks at the open objects and at their tables only.
LEMMA SameKeepsKept ==
    ASSUME Kept, table' = table,
           NEW o, \A u \in Objects : u # o /\ pc'[u] = "open" =>
                     pc[u] = "open" /\ UNCHANGED <<fd[u], opened[u], kind[u]>>,
           pc'[o] = "open" => opened'[o] = 0 /\ (fd'[o] = -1 \/ kind'[o] = "bad")
    PROVE  Kept'
<1>1. ZeroIsOther'
  BY DEF Kept, ZeroIsOther
<1>2. \A u \in Objects : HasItsOwn(u)'
  BY DEF Kept, HasItsOwn
<1>3. \A u, v \in Objects : ShareNothing(u, v)'
  BY DEF Kept, ShareNothing
<1> QED
  BY <1>1, <1>2, <1>3, Zenon DEF Kept

LEMMA GetsKeepsKept ==
    ASSUME TypeInv, Kept, NEW o \in Objects, NEW q \in Queues, NEW d \in Fds, Gets(o, q, d),
           \A u \in Objects : u # o => kind'[u] = kind[u]
    PROVE  Kept'
<1>0. \A u \in Objects : fd[u] \in Fds \cup {-1} /\ Home[u] \in Processes
  BY LifeAssumption DEF TypeInv, TypeOK
<1>1. /\ fd'[o] = d /\ opened'[o] = q /\ pc'[o] = "open" /\ table'[Home[o]][d] = q /\ d # -1 /\ q # 0
      /\ \A u \in Objects : u # o => fd'[u] = fd[u] /\ opened'[u] = opened[u] /\ pc'[u] = pc[u]
      /\ \A p \in Processes, e \in Fds : ~(p = Home[o] /\ e = d) => table'[p][e] = table[p][e]
  BY GetsIs
<1>2. table[Home[o]][d] = Free /\ 0 \in Fds
  BY LifeAssumption DEF Gets, Fds
<1>3. ZeroIsOther'
  <2>1. \A p \in Processes : ~(p = Home[o] /\ 0 = d) /\ table[p][0] = Other
    BY <1>0, <1>2 DEF Kept, ZeroIsOther, Free, Other
  <2>2. \A p \in Processes : table'[p][0] = table[p][0]
    BY <1>1, <1>2, <2>1
  <2> QED
    BY <2>1, <2>2 DEF ZeroIsOther
<1>4. ASSUME NEW u \in Objects, u # o, pc[u] = "open", opened[u] # 0
      PROVE  fd[u] \in Fds /\ ~(Home[u] = Home[o] /\ fd[u] = d)
  <2>1. fd[u] # -1 /\ table[Home[u]][fd[u]] = opened[u]
    BY <1>4 DEF Kept, HasItsOwn
  <2> QED
    BY <1>0, <1>2, <1>4, <2>1 DEF Free
<1>5. ASSUME NEW u \in Objects PROVE HasItsOwn(u)'
  <2>1. CASE u = o
    BY <1>1, <2>1 DEF HasItsOwn
  <2>2. CASE u # o /\ pc[u] = "open" /\ opened[u] # 0
    <3>1. table'[Home[u]][fd[u]] = table[Home[u]][fd[u]]
      BY <1>0, <1>1, <1>4, <2>2
    <3>2. fd[u] # -1 /\ table[Home[u]][fd[u]] = opened[u]
      BY <2>2 DEF Kept, HasItsOwn
    <3>3. fd'[u] = fd[u] /\ opened'[u] = opened[u]
      BY <1>1, <2>2
    <3> QED
      BY <2>2, <3>1, <3>2, <3>3 DEF HasItsOwn
  <2>3. CASE u # o /\ ~(pc[u] = "open" /\ opened[u] # 0)
    BY <1>1, <2>3 DEF Kept, HasItsOwn
  <2> QED
    BY <2>1, <2>2, <2>3
<1>6. ASSUME NEW u \in Objects, NEW v \in Objects PROVE ShareNothing(u, v)'
  <2>1. CASE u # o /\ v # o
    BY <1>1, <2>1 DEF Kept, ShareNothing
  <2>2. CASE u = o \/ v = o
    BY <1>1, <1>4, <2>2 DEF ShareNothing
  <2> QED
    BY <2>1, <2>2
<1> QED
  BY <1>3, <1>5, <1>6, Zenon DEF Kept

\* Unless its name was refused, an object closes its own descriptor.
LEMMA DestroyKeepsKept ==
    ASSUME TypeInv, Kept, NEW o \in Objects, Destroy(o), kind[o] # "bad"
    PROVE  Kept'
<1>0. /\ \A u \in Objects : fd[u] \in Fds \cup {-1} /\ Home[u] \in Processes
      /\ pc \in [Objects -> {"none", "create", "open", "unlink"}] /\ 0 \in Fds
      /\ opened[o] \in 0 .. made
  BY LifeAssumption DEF TypeInv, TypeOK, Fds
<1>1. /\ pc[o] = "open" /\ fd' = fd /\ opened' = opened /\ kind' = kind
      /\ \/ pc' = [pc EXCEPT ![o] = "none"]
         \/ pc' = [pc EXCEPT ![o] = "unlink"] /\ kind[o] = "owner"
      /\ \A p \in Processes, e \in Fds :
            table'[p][e] = IF p = Home[o] /\ e = fd[o] THEN Free ELSE table[p][e]
  BY DestroyIs, Zenon
<1>2. pc'[o] # "open" /\ \A u \in Objects : u # o => pc'[u] = pc[u]
  BY <1>0, <1>1
<1>3. \/ opened[o] # 0 /\ table[Home[o]][fd[o]] = opened[o]
     \/ fd[o] = -1
  BY <1>1 DEF Kept, HasItsOwn
<1>4. fd[o] # 0
  BY <1>0, <1>3 DEF Kept, ZeroIsOther, Other
<1>5. ZeroIsOther'
  BY <1>0, <1>1, <1>4 DEF Kept, ZeroIsOther
<1>6. ASSUME NEW u \in Objects PROVE HasItsOwn(u)'
  <2>1. CASE u = o \/ pc[u] # "open" \/ opened[u] = 0
    BY <1>1, <1>2, <2>1 DEF Kept, HasItsOwn
  <2>2. CASE u # o /\ pc[u] = "open" /\ opened[u] # 0
    <3>1. fd[u] # -1 /\ table[Home[u]][fd[u]] = opened[u]
      BY <2>2 DEF Kept, HasItsOwn
    <3>2. ~(Home[u] = Home[o] /\ fd[u] = fd[o])
      BY <1>1, <1>3, <2>2, <3>1 DEF Kept, ShareNothing
    <3>3. table'[Home[u]][fd[u]] = table[Home[u]][fd[u]]
      BY <1>0, <1>1, <3>1, <3>2
    <3> QED
      BY <1>1, <2>2, <3>1, <3>3 DEF HasItsOwn
  <2> QED
    BY <2>1, <2>2
<1>7. ASSUME NEW u \in Objects, NEW v \in Objects PROVE ShareNothing(u, v)'
  BY <1>1, <1>2 DEF Kept, ShareNothing
<1> QED
  BY <1>5, <1>6, <1>7, Zenon DEF Kept

LEMMA CrashKeepsKept ==
    ASSUME TypeInv, Kept, NEW p \in Processes, Crash(p)
    PROVE  Kept'
<1>1. /\ \A u \in Objects : pc'[u] = IF Home[u] = p THEN "none" ELSE pc[u]
      /\ UNCHANGED <<kind, fd, opened>> /\ 0 \in Fds /\ table \in Tables
      /\ \A u \in Objects : Home[u] \in Processes
  BY LifeAssumption DEF Crash, Fds, TypeInv, TypeOK, Tables
<1>2. \A r \in Processes : r # p => table'[r] = table[r]
  BY <1>1 DEF Crash, Tables
<1>3. table'[p][0] = Other
  BY <1>1 DEF Crash, Tables
<1>4. ZeroIsOther'
  BY <1>2, <1>3 DEF Kept, ZeroIsOther
<1>5. ASSUME NEW u \in Objects PROVE HasItsOwn(u)'
  BY <1>1, <1>2 DEF Kept, HasItsOwn
<1>6. ASSUME NEW u \in Objects, NEW v \in Objects PROVE ShareNothing(u, v)'
  BY <1>1 DEF Kept, ShareNothing
<1> QED
  BY <1>4, <1>5, <1>6, Zenon DEF Kept

LEMMA KeptInvStays == TypeInv /\ KeptInv /\ [Next]_vars => KeptInv'
<1> SUFFICES ASSUME TypeInv, KeptInv, [Next]_vars, ~badGone' PROVE Kept'
  BY DEF KeptInv
<1>0. /\ pc \in [Objects -> {"none", "create", "open", "unlink"}]
      /\ kind \in [Objects -> {"owner", "user", "bad"}]
      /\ fd \in [Objects -> Fds \cup {-1}] /\ opened \in [Objects -> 0 .. made]
      /\ name \in 0 .. made /\ made \in 0 .. MaxQueues /\ MaxQueues \in Nat
  BY LifeAssumption DEF TypeInv, TypeOK
<1>1. ~badGone => Kept
  BY DEF KeptInv
<1>2. ASSUME NEW o \in Objects, InitBad(o) PROVE Kept'
  <2>1. Kept /\ table' = table
    BY <1>1, <1>2 DEF InitBad
  <2>2. \A u \in Objects : u # o => pc'[u] = pc[u] /\ UNCHANGED <<fd[u], opened[u], kind[u]>>
    BY <1>0, <1>2 DEF InitBad
  <2>3. opened'[o] = 0 /\ kind'[o] = "bad"
    BY <1>0, <1>2 DEF InitBad
  <2> QED
    BY <2>1, <2>2, <2>3, SameKeepsKept
<1>3. ASSUME NEW o \in Objects, UnlinkOld(o) PROVE Kept'
  <2>1. Kept /\ table' = table
    BY <1>1, <1>3 DEF UnlinkOld
  <2>2. \A u \in Objects : u # o => pc'[u] = pc[u] /\ UNCHANGED <<fd[u], opened[u], kind[u]>>
    BY <1>0, <1>3 DEF UnlinkOld
  <2>3. pc'[o] = "create"
    BY <1>0, <1>3 DEF UnlinkOld
  <2> QED
    BY <2>1, <2>2, <2>3, SameKeepsKept
<1>4. ASSUME NEW o \in Objects, NEW q \in Queues, Opens(o, q), badGone' = badGone,
             \A u \in Objects : u # o => kind'[u] = kind[u]
      PROVE  Kept'
  BY <1>1, <1>4, OpensIs, GetsKeepsKept
<1>5. ASSUME NEW o \in Objects, OpenFails(o), badGone' = badGone,
             \A u \in Objects : u # o => kind'[u] = kind[u]
      PROVE  Kept'
  <2>1. Kept /\ table' = table
    BY <1>1, <1>5 DEF OpenFails
  <2>2. \A u \in Objects : u # o => pc'[u] = pc[u] /\ UNCHANGED <<fd[u], opened[u], kind[u]>>
    BY <1>0, <1>5 DEF OpenFails
  <2>3. opened'[o] = 0 /\ fd'[o] = -1
    BY <1>0, <1>5 DEF OpenFails
  <2> QED
    BY <2>1, <2>2, <2>3, SameKeepsKept
<1>6. ASSUME NEW o \in Objects, Create(o) PROVE Kept'
  <2>1. badGone' = badGone /\ \A u \in Objects : u # o => kind'[u] = kind[u]
    BY <1>6 DEF Create
  <2>2. CASE name = 0
    <3>1. Opens(o, made + 1) /\ made + 1 \in Queues
      BY <1>0, <1>6, <2>2 DEF Create, Queues
    <3> QED
      BY <1>4, <2>1, <3>1
  <2>3. CASE name # 0
    BY <1>5, <1>6, <2>1, <2>3 DEF Create
  <2> QED
    BY <2>2, <2>3
<1>7. ASSUME NEW o \in Objects, OpenUser(o) PROVE Kept'
  <2>1. badGone' = badGone /\ \A u \in Objects : u # o => kind'[u] = kind[u]
    BY <1>0, <1>7 DEF OpenUser
  <2>2. CASE name # 0
    <3>1. Opens(o, name) /\ name \in Queues
      BY <1>0, <1>7, <2>2 DEF OpenUser, Queues
    <3> QED
      BY <1>4, <2>1, <3>1
  <2>3. CASE name = 0
    BY <1>5, <1>7, <2>1, <2>3 DEF OpenUser
  <2> QED
    BY <2>2, <2>3
<1>8. ASSUME NEW o \in Objects, Destroy(o) PROVE Kept'
  <2>1. ~badGone /\ kind[o] # "bad"
    BY <1>8, DestroyIs, Zenon
  <2> QED
    BY <1>1, <1>8, <2>1, DestroyKeepsKept
<1>9. ASSUME NEW o \in Objects, UnlinkName(o) PROVE Kept'
  <2>1. Kept /\ table' = table
    BY <1>1, <1>9 DEF UnlinkName
  <2>2. \A u \in Objects : u # o => pc'[u] = pc[u] /\ UNCHANGED <<fd[u], opened[u], kind[u]>>
    BY <1>0, <1>9 DEF UnlinkName
  <2>3. pc'[o] = "none"
    BY <1>0, <1>9 DEF UnlinkName
  <2> QED
    BY <2>1, <2>2, <2>3, SameKeepsKept
<1>10. ASSUME NEW p \in Processes, Crash(p) PROVE Kept'
  <2>1. badGone' = badGone
    BY <1>10 DEF Crash
  <2> QED
    BY <1>1, <1>10, <2>1, CrashKeepsKept
<1>11. ASSUME UNCHANGED <<object, table, badGone>> PROVE Kept'
  BY <1>1, <1>11 DEF object, Kept, ZeroIsOther, HasItsOwn, ShareNothing
<1>12. ASSUME NEW o \in Objects, SetNotifyMessage(o) \/ UnsetNotifyMessage(o) PROVE Kept'
  BY <1>11, <1>12 DEF SetNotifyMessage, UnsetNotifyMessage
<1>13. ASSUME NEW p \in Processes, Exist(p) PROVE Kept'
  BY <1>11, <1>13 DEF Exist
<1>14. CASE UNCHANGED vars
  BY <1>11, <1>14 DEF vars
<1> QED
  BY <1>2, <1>3, <1>6, <1>7, <1>8, <1>9, <1>10, <1>12, <1>13, <1>14, Zenon DEF Next

\* An object that has opened a queue keeps its descriptor of it, which is no
\* other object's, until an object with a refused name is destroyed.
THEOREM ObjectsKeepDescriptors == Spec => []DescriptorsAreKept
<1>1. Spec => [](TypeInv /\ KeptInv)
  BY TypeInvStarts, TypeInvStays, KeptInvStarts, KeptInvStays, PTL DEF Spec
<1>2. TypeInv /\ KeptInv => DescriptorsAreKept
  <2> SUFFICES ASSUME KeptInv, ~badGone PROVE DescriptorsAreKept
    BY DEF DescriptorsAreKept
  <2>1. Kept
    BY DEF KeptInv
  <2>2. \A o \in Objects : pc[o] = "open" /\ opened[o] # 0 => Target(o) = opened[o]
    BY <2>1 DEF Kept, HasItsOwn, Target
  <2> QED
    BY <2>1, <2>2, Zenon DEF Kept, ShareNothing, ZeroIsOther, DescriptorsAreKept
<1> QED
  BY <1>1, <1>2, PTL

-----------------------------------------------------------------------------
(* The object a queue notifies is open and leads to the queue. *)

LeadsTo(o, q) == pc[o] = "open" /\ fd[o] # -1 /\ table[Home[o]][fd[o]] = q

RegInv == \A q \in Queues : \A o \in registered[q] : LeadsTo(o, q)

LEMMA RegInvStarts == Init => RegInv
BY DEF Init, RegInv, None

\* No registration is added, and the objects that keep theirs keep their queue.
LEMMA FewerKeepRegInv ==
    ASSUME RegInv,
           \A q \in Queues : \A o \in registered'[q] : o \in registered[q] /\ (LeadsTo(o, q) => LeadsTo(o, q)')
    PROVE  RegInv'
BY Zenon DEF RegInv

LEMMA RegInvStays == TypeInv /\ RegInv /\ [Next]_vars => RegInv'
<1> SUFFICES ASSUME TypeInv, RegInv, [Next]_vars PROVE RegInv'
  OBVIOUS
<1>0. /\ pc \in [Objects -> {"none", "create", "open", "unlink"}]
      /\ fd \in [Objects -> Fds \cup {-1}] /\ table \in Tables
      /\ name \in 0 .. made /\ made \in 0 .. MaxQueues /\ MaxQueues \in Nat
      /\ registered \in [Queues -> {None} \cup {{u} : u \in Objects}]
      /\ \A u \in Objects : Home[u] \in Processes
      /\ \A q \in Queues : q # Free /\ registered[q] \subseteq Objects
  <2>1. \A q \in Queues : q # Free
    BY LifeAssumption DEF Queues, Free
  <2>2. \A q \in Queues : registered[q] \subseteq Objects
    BY DEF TypeInv, TypeOK, None
  <2> QED
    BY <2>1, <2>2, LifeAssumption DEF TypeInv, TypeOK, Tables
<1>1. ASSUME NEW o \in Objects, pc[o] # "open", UNCHANGED <<table, registered>>,
             \A u \in Objects : u # o => pc'[u] = pc[u] /\ fd'[u] = fd[u]
      PROVE  RegInv'
  <2>1. \A q \in Queues : \A u \in registered'[q] :
           u \in registered[q] /\ (LeadsTo(u, q) => LeadsTo(u, q)')
    BY <1>0, <1>1 DEF LeadsTo
  <2> QED
    BY <2>1, FewerKeepRegInv
<1>2. ASSUME NEW o \in Objects, InitBad(o) PROVE RegInv'
  BY <1>0, <1>1, <1>2 DEF InitBad
<1>3. ASSUME NEW o \in Objects, UnlinkOld(o) PROVE RegInv'
  BY <1>0, <1>1, <1>3 DEF UnlinkOld
<1>4. ASSUME NEW o \in Objects, NEW q \in Queues, Opens(o, q), pc[o] # "open", registered' = registered
      PROVE  RegInv'
  <2>1. PICK d \in Fds : Gets(o, q, d)
    BY <1>4, OpensIs
  <2>2. /\ table[Home[o]][d] = Free
        /\ \A u \in Objects : u # o => fd'[u] = fd[u] /\ pc'[u] = pc[u]
        /\ \A p \in Processes, e \in Fds : ~(p = Home[o] /\ e = d) => table'[p][e] = table[p][e]
    BY <1>4, <2>1, GetsIs DEF Gets
  <2>3. ASSUME NEW k \in Queues, NEW u \in registered'[k], LeadsTo(u, k) PROVE LeadsTo(u, k)'
    <3>1. u \in Objects /\ u # o /\ fd[u] \in Fds /\ ~(Home[u] = Home[o] /\ fd[u] = d)
      BY <1>0, <1>4, <2>2, <2>3 DEF LeadsTo
    <3>2. table'[Home[u]][fd[u]] = table[Home[u]][fd[u]]
      BY <1>0, <2>2, <3>1
    <3> QED
      BY <2>2, <2>3, <3>1, <3>2 DEF LeadsTo
  <2> QED
    BY <1>4, <2>3, FewerKeepRegInv
<1>5. ASSUME NEW o \in Objects, OpenFails(o), pc[o] # "open", registered' = registered
      PROVE  RegInv'
  BY <1>0, <1>1, <1>5 DEF OpenFails
<1>6. ASSUME NEW o \in Objects, Create(o) PROVE RegInv'
  <2>1. pc[o] # "open" /\ registered' = registered
    BY <1>6 DEF Create
  <2>2. CASE name = 0
    <3>1. Opens(o, made + 1) /\ made + 1 \in Queues
      BY <1>0, <1>6, <2>2 DEF Create, Queues
    <3> QED
      BY <1>4, <2>1, <3>1
  <2>3. CASE name # 0
    BY <1>5, <1>6, <2>1, <2>3 DEF Create
  <2> QED
    BY <2>2, <2>3
<1>7. ASSUME NEW o \in Objects, OpenUser(o) PROVE RegInv'
  <2>1. pc[o] # "open" /\ registered' = registered
    BY <1>7 DEF OpenUser
  <2>2. CASE name # 0
    <3>1. Opens(o, name) /\ name \in Queues
      BY <1>0, <1>7, <2>2 DEF OpenUser, Queues
    <3> QED
      BY <1>4, <2>1, <3>1
  <2>3. CASE name = 0
    BY <1>5, <1>7, <2>1, <2>3 DEF OpenUser
  <2> QED
    BY <2>2, <2>3
<1>8. ASSUME UNCHANGED <<object, table>>, \A q \in Queues : registered'[q] \subseteq registered[q]
      PROVE  RegInv'
  <2>1. \A u, q : LeadsTo(u, q) => LeadsTo(u, q)'
    BY <1>8 DEF object, LeadsTo
  <2> QED
    BY <1>8, <2>1, FewerKeepRegInv
<1>9. ASSUME NEW o \in Objects, SetNotifyMessage(o) PROVE RegInv'
  <2>1. pc[o] = "open" /\ Target(o) \in Queues /\ UNCHANGED <<object, table>>
        /\ registered' = [registered EXCEPT ![Target(o)] = {o}]
    BY <1>9 DEF SetNotifyMessage
  <2>2. LeadsTo(o, Target(o))
    BY <1>0, <2>1 DEF LeadsTo, Target
  <2>3. \A q \in Queues : \A u \in registered'[q] : LeadsTo(u, q)
    BY <1>0, <2>1, <2>2 DEF RegInv
  <2> QED
    BY <2>1, <2>3 DEF RegInv, LeadsTo, object
<1>10. ASSUME NEW o \in Objects, UnsetNotifyMessage(o) PROVE RegInv'
  <2>1. \A q \in Queues : registered'[q] \subseteq registered[q]
    BY <1>10, WithoutProcessIs DEF UnsetNotifyMessage, TypeInv
  <2> QED
    BY <1>8, <1>10, <2>1 DEF UnsetNotifyMessage
<1>11. ASSUME NEW o \in Objects, Destroy(o) PROVE RegInv'
  <2>1. /\ fd' = fd
        /\ \/ pc' = [pc EXCEPT ![o] = "none"]
           \/ pc' = [pc EXCEPT ![o] = "unlink"] /\ kind[o] = "owner"
        /\ \A p \in Processes, e \in Fds :
              table'[p][e] = IF p = Home[o] /\ e = fd[o] THEN Free ELSE table[p][e]
        /\ \/ fd[o] = -1 /\ registered' = registered
           \/ fd[o] \in Fds /\ Target(o) \notin Queues /\ registered' = registered
           \/ fd[o] \in Fds /\ Target(o) \in Queues
              /\ registered' = WithoutProcess(Home[o], Target(o))
    BY <1>11, DestroyIs
  <2>2. \A q \in Queues : registered'[q] \subseteq registered[q]
    BY <2>1, WithoutProcessIs DEF TypeInv
  <2>3. ASSUME NEW q \in Queues, NEW u \in registered'[q], LeadsTo(u, q) PROVE LeadsTo(u, q)'
    <3>1. u \in Objects /\ u \in registered[q] /\ fd[u] \in Fds
      BY <1>0, <2>2, <2>3 DEF LeadsTo
    <3>2. ~(Home[u] = Home[o] /\ fd[u] = fd[o])
      <4> SUFFICES ASSUME Home[u] = Home[o], fd[u] = fd[o] PROVE FALSE
        OBVIOUS
      <4>1. fd[o] # -1 /\ Target(o) = q
        BY <2>3 DEF LeadsTo, Target
      <4>2. registered' = WithoutProcess(Home[o], q)
        BY <2>1, <4>1
      <4> QED
        BY <3>1, <4>2, WithoutProcessIs DEF TypeInv
    <3>3. u # o /\ pc'[u] = pc[u]
      BY <1>0, <2>1, <3>1, <3>2
    <3>4. table'[Home[u]][fd[u]] = table[Home[u]][fd[u]]
      BY <1>0, <2>1, <3>1, <3>2
    <3> QED
      BY <2>1, <2>3, <3>3, <3>4 DEF LeadsTo
  <2> QED
    BY <2>2, <2>3, FewerKeepRegInv
<1>12. ASSUME NEW o \in Objects, UnlinkName(o) PROVE RegInv'
  BY <1>0, <1>1, <1>12 DEF UnlinkName
<1>13. ASSUME NEW p \in Processes, Exist(p) PROVE RegInv'
  <2>1. \A q \in Queues : registered'[q] \subseteq registered[q]
    BY <1>13, WithoutProcessIs DEF Exist, TypeInv
  <2> QED
    BY <1>8, <1>13, <2>1 DEF Exist
<1>14. ASSUME NEW p \in Processes, Crash(p) PROVE RegInv'
  <2>1. \A q \in Queues : registered'[q] = {u \in registered[q] : Home[u] # p}
    BY <1>14 DEF Crash
  <2>2. \A r \in Processes : r # p => table'[r] = table[r]
    BY <1>0, <1>14 DEF Crash, Tables
  <2>3. \A u \in Objects : Home[u] # p => pc'[u] = pc[u] /\ fd'[u] = fd[u]
    BY <1>14 DEF Crash
  <2>4. ASSUME NEW q \in Queues, NEW u \in registered'[q], LeadsTo(u, q) PROVE LeadsTo(u, q)'
    <3>1. u \in Objects /\ Home[u] # p /\ Home[u] \in Processes
      BY <1>0, <2>1
    <3> QED
      BY <2>2, <2>3, <2>4, <3>1 DEF LeadsTo
  <2> QED
    BY <2>1, <2>4, FewerKeepRegInv
<1>15. CASE UNCHANGED vars
  BY <1>8, <1>15 DEF vars
<1> QED
  BY <1>2, <1>3, <1>6, <1>7, <1>9, <1>10, <1>11, <1>12, <1>13, <1>14, <1>15, Zenon DEF Next

\* A queue never notifies an object that is gone: what the kernel would hand to
\* signalNotifyFunction is an object that exists.
THEOREM NoneIsNotifiedAfterItsEnd == Spec => []NotifiedObjectsExist
<1>1. Spec => [](TypeInv /\ RegInv)
  BY TypeInvStarts, TypeInvStays, RegInvStarts, RegInvStays, PTL DEF Spec
<1>2. RegInv => NotifiedObjectsExist
  BY DEF RegInv, LeadsTo, NotifiedObjectsExist
<1> QED
  BY <1>1, <1>2, PTL
=============================================================================
