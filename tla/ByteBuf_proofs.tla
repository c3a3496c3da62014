--------------------------- MODULE ByteBuf_proofs ---------------------------
(***************************************************************************)
(* Proofs about ByteBuf, for any values of any kinds, as many as one likes *)
(* and as long as an int can count: the types of a buffer and its reader,  *)
(* and that what is taken out is what was added in its place.              *)
(***************************************************************************)
EXTENDS ByteBuf, FiniteSetTheorems, SequenceTheorems, TLAPS

-----------------------------------------------------------------------------
(* Integers and sequences. *)

LEMMA SmallRemainder ==
    ASSUME NEW s \in Nat, 2 * s < Word
    PROVE  s % Word = s
  BY BufferAssumption

\* A size an int can hold is written as it is.
LEMMA ToIntIs ==
    ASSUME NEW s \in Nat, 2 * s < Word
    PROVE  ToInt(s) = s
  BY SmallRemainder DEF ToInt

LEMMA ToIntType == ASSUME NEW s \in Nat PROVE ToInt(s) \in Int
<1>1. s % Word \in Int
  BY BufferAssumption
<1> QED
  BY <1>1, BufferAssumption DEF ToInt

LEMMA Remainder ==
    ASSUME NEW n \in Nat
    PROVE  /\ n % Word \in 0 .. Word - 1 /\ n \div Word \in Nat
           /\ n = Word * (n \div Word) + (n % Word)
<1>0. Word \in Nat /\ Word > 0
  BY BufferAssumption
<1>1. n % Word \in 0 .. Word - 1 /\ n \div Word \in Nat
  BY <1>0, SMTT(30)
<1>2. n = Word * (n \div Word) + (n % Word)
  BY <1>0, SMTT(30)
<1> QED
  BY <1>1, <1>2

LEMMA Multiples ==
    ASSUME NEW i \in Nat, NEW j \in Nat, i < j
    PROVE  Word * i \in Nat /\ Word * j \in Nat /\ Word * i + Word <= Word * j
<1>1. Word \in Nat
  BY BufferAssumption
<1>2. PICK k \in Nat : j = i + 1 + k
  <2>1. j - i - 1 \in Nat /\ j = i + 1 + (j - i - 1)
    OBVIOUS
  <2> QED
    BY <2>1
<1>3. Word * (i + 1 + k) = Word * i + Word + Word * k /\ Word * i \in Nat /\ Word * k \in Nat
  BY <1>1
<1> QED
  BY <1>1, <1>2, <1>3

\* More units leave a remainder that is at most so much larger.
LEMMA MoreRemainder ==
    ASSUME NEW a \in Nat, NEW b \in Nat
    PROVE  (a + b) % Word <= (a % Word) + b
<1>1. PICK q, r \in Nat : a = Word * q + r /\ r = a % Word
  BY Remainder
<1>2. PICK p, s \in Nat : a + b = Word * p + s /\ s = (a + b) % Word /\ s < Word
  <2>1. PICK c \in Nat : c = a + b
    OBVIOUS
  <2>2. c % Word < Word
    BY Remainder, BufferAssumption
  <2> QED
    BY <2>1, <2>2, Remainder
<1>3. SUFFICES ASSUME s > r + b PROVE FALSE
  <2>1. s <= r + b
    BY <1>3
  <2> QED
    BY <1>1, <1>2, <2>1, Zenon
<1>4. Word * p \in Nat /\ Word * q \in Nat /\ Word \in Nat
  BY BufferAssumption
<1>5. CASE p < q
  BY <1>1, <1>2, <1>3, <1>4, <1>5, Multiples
<1>6. CASE p = q
  BY <1>1, <1>2, <1>3, <1>4, <1>6
<1>7. CASE q < p
  BY <1>1, <1>2, <1>3, <1>4, <1>7, Multiples
<1> QED
  BY <1>5, <1>6, <1>7

LEMMA NextRemainder == ASSUME NEW a \in Nat PROVE (a + 1) % Word <= (a % Word) + 1
  BY MoreRemainder

LEMMA HasLeast ==
    ASSUME NEW n \in Nat, NEW S, S \subseteq 0 .. n, S # {}
    PROVE  \E x \in S : \A y \in S : x <= y
<1> DEFINE T == {0 .. x : x \in S}
           R == StrictSubsetOrdering(0 .. n)
<1>1. IsWellFoundedOn(StrictSubsetOrdering(0 .. n), FiniteSubsetsOf(0 .. n))
  BY FS_StrictSubsetOrderingWellFounded
<1>2. \A x \in S : 0 .. x \in FiniteSubsetsOf(0 .. n)
  <2> TAKE x \in S
  <2>1. x \in Nat /\ 0 .. x \subseteq 0 .. n /\ IsFiniteSet(0 .. x)
    BY FS_Interval
  <2> QED
    BY <2>1 DEF FiniteSubsetsOf
<1>3. T \subseteq FiniteSubsetsOf(0 .. n) /\ T # {}
  BY <1>2
<1>4. PICK t \in T : \A u \in T : ~(<<u, t>> \in R)
  <2> HIDE DEF T, R
  <2> QED
    BY <1>1, <1>3, WFMin, Zenon DEF R
<1>5. PICK x \in S : t = 0 .. x
  OBVIOUS
<1>6. ASSUME NEW y \in S, y < x PROVE FALSE
  <2>1. x \in 0 .. n /\ y \in 0 .. n
    OBVIOUS
  <2>2. x \in 0 .. x /\ x \notin 0 .. y
    BY <1>6, <2>1
  <2>3. 0 .. y \subseteq 0 .. n /\ 0 .. x \subseteq 0 .. n /\ 0 .. y \subseteq 0 .. x
    BY <1>6, <2>1
  <2>4. 0 .. y # 0 .. x
    BY <2>2, Zenon
  <2>5. <<0 .. y, 0 .. x>> \in R
    BY <2>3, <2>4 DEF StrictSubsetOrdering
  <2>6. 0 .. y \in T
    BY Zenon
  <2> HIDE DEF T, R
  <2> QED
    BY <1>4, <1>5, <2>5, <2>6
<1> QED
  BY <1>6

\* The least of some naturals is one of them.
LEMMA MinIs ==
    ASSUME NEW n \in Nat, NEW S, S \subseteq 0 .. n, S # {}
    PROVE  Min(S) \in S /\ \A y \in S : Min(S) <= y
<1>1. \E x \in S : \A y \in S : x =< y
  BY HasLeast
<1> QED
  BY <1>1, Zenon DEF Min

\* A beginning of a sequence.
LEMMA BeginningIs ==
    ASSUME NEW t \in Seq(Int), NEW n \in 0 .. Len(t)
    PROVE  /\ SubSeq(t, 1, n) \in Seq(Int) /\ Len(SubSeq(t, 1, n)) = n
           /\ \A i \in 1 .. n : SubSeq(t, 1, n)[i] = t[i]
  BY SubSeqProperties

-----------------------------------------------------------------------------
(* What the conversions of a text return. *)

\* The text up to its first NUL is a beginning of it without a NUL, and is the
\* whole of a text without one.
LEMMA CStringIs ==
    ASSUME NEW t \in Seq(Int)
    PROVE  /\ CString(t) \in Seq(Int) /\ Len(CString(t)) <= Len(t)
           /\ \A i \in 1 .. Len(CString(t)) : CString(t)[i] # 0
<1> DEFINE ends == {i \in DOMAIN t : t[i] = 0}
<1>1. DOMAIN t = 1 .. Len(t) /\ Len(t) \in Nat
  BY LenProperties
<1>2. CASE ends = {}
  BY <1>1, <1>2 DEF CString
<1>3. CASE ends # {}
  <2>1. Min(ends) \in ends /\ \A y \in ends : Min(ends) <= y
    <3>1. ends \subseteq 0 .. Len(t)
      BY <1>1
    <3> HIDE DEF ends
    <3> QED
      BY <1>1, <1>3, <3>1, MinIs
  <2>2. PICK e \in 1 .. Len(t) : e = Min(ends) /\ \A i \in 1 .. e - 1 : t[i] # 0
    <3> DEFINE e == Min(ends)
    <3>1. e \in 1 .. Len(t) /\ \A y \in 1 .. Len(t) : t[y] = 0 => e <= y
      BY <1>1, <2>1
    <3> HIDE DEF e
    <3>2. \A i \in 1 .. e - 1 : i \in 1 .. Len(t) /\ ~(e <= i)
      BY <1>1, <3>1
    <3>3. \A i \in 1 .. e - 1 : t[i] # 0
      BY <3>1, <3>2
    <3> QED
      BY <3>1, <3>3 DEF e
  <2>3. CString(t) = SubSeq(t, 1, e - 1)
    BY <1>3, <2>2, Zenon DEF CString
  <2>4. e - 1 \in 0 .. Len(t) /\ e - 1 <= Len(t)
    BY <1>1
  <2> DEFINE c == SubSeq(t, 1, e - 1)
  <2>5. c \in Seq(Int) /\ Len(c) = e - 1 /\ \A i \in 1 .. e - 1 : c[i] = t[i]
    BY <2>4, BeginningIs
  <2>6. \A i \in 1 .. e - 1 : c[i] # 0
    <3> HIDE DEF c
    <3> QED
      BY <2>2, <2>5
  <2> QED
    BY <2>3, <2>4, <2>5, <2>6
<1> QED
  BY <1>2, <1>3

LEMMA CStringStays ==
    ASSUME NEW t \in Seq(Int), \A i \in 1 .. Len(t) : t[i] # 0
    PROVE  CString(t) = t
<1>1. {i \in DOMAIN t : t[i] = 0} = {}
  BY LenProperties
<1> QED
  BY <1>1, Zenon DEF CString

LEMMA FormattedIs ==
    ASSUME NEW t \in Seq(Int)
    PROVE  /\ Formatted(t) \in Seq(Int) /\ Len(Formatted(t)) <= Len(t)
           /\ \A i \in 1 .. Len(Formatted(t)) : Formatted(t)[i] = t[i]
<1> DEFINE n == Min({Len(t), LOG_TEXT_MAX_LEN - 1})
<1>1. n \in 0 .. Len(t)
  <2>1. Len(t) \in Nat /\ LOG_TEXT_MAX_LEN - 1 \in Nat
    BY BufferAssumption, LenProperties
  <2>2. PICK m \in Nat : Len(t) <= m /\ LOG_TEXT_MAX_LEN - 1 <= m
    BY <2>1
  <2>3. n \in {Len(t), LOG_TEXT_MAX_LEN - 1} /\ n <= Len(t)
    <3>1. {Len(t), LOG_TEXT_MAX_LEN - 1} \subseteq 0 .. m
      BY <2>1, <2>2
    <3> QED
      BY <3>1, MinIs
  <2> HIDE DEF n
  <2> QED
    BY <2>1, <2>3
<1>2. Formatted(t) = SubSeq(t, 1, n)
  BY DEF Formatted
<1> HIDE DEF n
<1> QED
  BY <1>1, <1>2, BeginningIs, LenProperties

\* To cut a text at its first NUL once more changes nothing, before a format or
\* after it.
LEMMA CutOnce ==
    ASSUME NEW t \in Seq(Int)
    PROVE  /\ CString(CString(t)) = CString(t)
           /\ CString(Formatted(CString(t))) = Formatted(CString(t))
<1>1. CString(t) \in Seq(Int) /\ \A i \in 1 .. Len(CString(t)) : CString(t)[i] # 0
  BY CStringIs
<1>2. PICK f : f = Formatted(CString(t))
  OBVIOUS
<1>3. /\ f \in Seq(Int) /\ Len(f) <= Len(CString(t))
      /\ \A i \in 1 .. Len(f) : f[i] = CString(t)[i]
  BY <1>1, <1>2, FormattedIs
<1>4. Len(f) \in Nat /\ Len(CString(t)) \in Nat
  BY <1>1, <1>3, LenProperties
<1>5. \A i \in 1 .. Len(f) : i \in 1 .. Len(CString(t))
  BY <1>3, <1>4
<1>6. \A i \in 1 .. Len(f) : f[i] # 0
  BY <1>1, <1>3, <1>5, Zenon
<1>7. CString(f) = f
  BY <1>3, <1>6, CStringStays
<1>8. CString(CString(t)) = CString(t)
  BY <1>1, CStringStays
<1> QED
  BY <1>2, <1>7, <1>8, Zenon

-----------------------------------------------------------------------------
(* What the data of a map is. *)

\* The rank of a key among the keys.
Rank(S, k) == Cardinality({l \in S : l <= k})

LEMMA RankIs ==
    ASSUME NEW S, S \subseteq Int, IsFiniteSet(S)
    PROVE  /\ \A k \in S : Rank(S, k) \in 1 .. Cardinality(S)
           /\ \A k, l \in S : k < l => Rank(S, k) < Rank(S, l)
<1> DEFINE below(k) == {l \in S : l <= k}
<1>1. \A k : below(k) \in SUBSET S
  OBVIOUS
<1>2. ASSUME NEW k
      PROVE  IsFiniteSet(below(k)) /\ Rank(S, k) \in Nat /\ Rank(S, k) <= Cardinality(S)
  <2>1. IsFiniteSet(below(k)) /\ Cardinality(below(k)) <= Cardinality(S)
    BY <1>1, FS_Subset
  <2> QED
    BY <2>1, FS_CardinalityType DEF Rank
<1>3. Cardinality(S) \in Nat
  BY FS_CardinalityType
<1>4. ASSUME NEW k \in S PROVE Rank(S, k) \in 1 .. Cardinality(S)
  <2>1. below(k) # {}
    OBVIOUS
  <2>2. Rank(S, k) # 0
    BY <1>2, <2>1, FS_EmptySet, Zenon DEF Rank
  <2>3. Rank(S, k) \in Nat /\ Rank(S, k) <= Cardinality(S)
    BY <1>2, Zenon
  <2> QED
    BY <1>3, <2>2, <2>3
<1>5. ASSUME NEW k \in S, NEW l \in S, k < l PROVE Rank(S, k) < Rank(S, l)
  <2>0. /\ \A m \in S : m <= k => m <= l
        /\ l <= l /\ ~(l <= k)
    BY <1>5
  <2>1. below(k) \in SUBSET below(l) /\ l \in below(l) /\ l \notin below(k)
    BY <2>0, Zenon
  <2>2. IsFiniteSet(below(l)) /\ Rank(S, k) \in Nat /\ Rank(S, l) \in Nat
    BY <1>2
  <2>3. Rank(S, k) <= Rank(S, l) /\ Rank(S, l) # Rank(S, k)
    BY <2>1, <2>2, FS_Subset, Zenon DEF Rank
  <2> QED
    BY <2>2, <2>3
<1> QED
  BY <1>4, <1>5

\* A finite set of integers can be put in order.
LEMMA KeysAre ==
    ASSUME NEW map, DOMAIN map \subseteq Int, IsFiniteSet(DOMAIN map)
    PROVE  LET n == Cardinality(DOMAIN map)
           IN  /\ n \in Nat /\ Keys(map) \in [1 .. n -> DOMAIN map]
               /\ \A i, j \in 1 .. n : i < j => Keys(map)[i] < Keys(map)[j]
               /\ \A k \in DOMAIN map : \E i \in 1 .. n : Keys(map)[i] = k
<1> DEFINE S == DOMAIN map
           n == Cardinality(S)
           rank == [k \in S |-> Rank(S, k)]
           Ordered(keys) == \A i, j \in DOMAIN keys : i < j => keys[i] < keys[j]
<1>1. n \in Nat /\ IsFiniteSet(1 .. n) /\ Cardinality(1 .. n) = n
  <2>1. n \in Nat
    BY FS_CardinalityType
  <2> HIDE DEF n
  <2> QED
    BY <2>1, FS_Interval
<1>2. rank \in [S -> 1 .. n] /\ \A k, l \in S : k < l => rank[k] < rank[l]
  BY RankIs
<1>3. \A k, l \in S : k # l => rank[k] # rank[l]
  <2> TAKE k \in S, l \in S
  <2>1. k \in Int /\ l \in Int /\ rank[k] \in Int /\ rank[l] \in Int
    BY <1>2
  <2> HIDE DEF rank, S
  <2> QED
    BY <1>2, <2>1
<1>4. rank \in Injection(S, 1 .. n)
  <2> HIDE DEF rank, S, n
  <2> QED
    BY <1>2, <1>3 DEF Injection, IsInjective
<1>5. rank \in Surjection(S, 1 .. n)
  <2> HIDE DEF rank
  <2> QED
    BY <1>1, <1>4, FS_Injection
<1>6. \A i \in 1 .. n : \E k \in S : rank[k] = i
  BY <1>5 DEF Surjection
<1> DEFINE inverse == [i \in 1 .. n |-> CHOOSE k \in S : rank[k] = i]
<1>7. \A i \in 1 .. n : inverse[i] \in S /\ rank[inverse[i]] = i
  <2> HIDE DEF rank, S, n
  <2> QED
    BY <1>6
<1>8. inverse \in [1 .. n -> S] /\ DOMAIN inverse = 1 .. n
  <2> HIDE DEF rank, S, n
  <2> QED
    BY <1>7, Zenon
<1> HIDE DEF inverse, rank, n
<1>9. ASSUME NEW i \in 1 .. n, NEW j \in 1 .. n, i < j PROVE inverse[i] < inverse[j]
  <2>1. inverse[i] \in Int /\ inverse[j] \in Int /\ inverse[i] \in S /\ inverse[j] \in S
    BY <1>7
  <2>2. rank[inverse[i]] = i /\ rank[inverse[j]] = j
    BY <1>7
  <2> HIDE DEF S
  <2>3. CASE inverse[i] = inverse[j]
    BY <1>9, <2>2, <2>3
  <2>4. CASE inverse[j] < inverse[i]
    BY <1>1, <1>2, <1>9, <2>1, <2>2, <2>4
  <2> QED
    BY <2>1, <2>3, <2>4
<1>10. \E keys \in [1 .. n -> S] : Ordered(keys)
  BY <1>8, <1>9
<1>11. Keys(map) \in [1 .. n -> S] /\ Ordered(Keys(map))
  BY <1>10, Zenon DEF Keys, n
<1>12. DOMAIN Keys(map) = 1 .. n
  BY <1>11
<1>13. \A i, j \in 1 .. n : i < j => Keys(map)[i] < Keys(map)[j]
  BY <1>11, <1>12
<1>14. \A k \in S : \E i \in 1 .. n : Keys(map)[i] = k
  <2>1. \A i \in 1 .. n : Keys(map)[i] \in Int
    BY <1>11
  <2>2. \A i, j \in 1 .. n : i # j => Keys(map)[i] # Keys(map)[j]
    BY <1>1, <1>13, <2>1
  <2>3. Keys(map) \in Injection(1 .. n, S)
    BY <1>11, <1>12, <2>2 DEF Injection, IsInjective
  <2>4. Keys(map) \in Surjection(1 .. n, S)
    BY <1>1, <2>3, FS_Injection DEF n
  <2> QED
    BY <2>4 DEF Surjection
<1> QED
  BY <1>1, <1>11, <1>13, <1>14, Zenon DEF n

\* The data of a map is its keys, each of them once, and their values.
LEMMA PairsAre ==
    ASSUME NEW map \in Maps
    PROVE  LET n == Cardinality(DOMAIN map)
           IN  /\ n \in Nat /\ Pairs(map) \in Seq(Int) /\ Len(Pairs(map)) = 2 * n
               /\ \A i \in 1 .. n : /\ Pairs(map)[2 * i - 1] \in DOMAIN map
                                    /\ Pairs(map)[2 * i] = map[Pairs(map)[2 * i - 1]]
               /\ \A i, j \in 1 .. n : i # j => Pairs(map)[2 * i - 1] # Pairs(map)[2 * j - 1]
               /\ \A k \in DOMAIN map : \E i \in 1 .. n : Pairs(map)[2 * i - 1] = k
<1> DEFINE n == Cardinality(DOMAIN map)
           keys == Keys(map)
           key(i) == keys[(i + 1) \div 2]
<1>1. /\ DOMAIN map \subseteq Int /\ IsFiniteSet(DOMAIN map)
      /\ \A k \in DOMAIN map : map[k] \in Int
  BY BufferAssumption
<1>2. /\ n \in Nat /\ keys \in [1 .. n -> DOMAIN map]
      /\ \A i, j \in 1 .. n : i < j => keys[i] < keys[j]
      /\ \A k \in DOMAIN map : \E i \in 1 .. n : keys[i] = k
  BY <1>1, KeysAre
<1>3. Pairs(map) = [i \in 1 .. 2 * n |-> IF i % 2 = 1 THEN key(i) ELSE map[key(i)]]
  BY Zenon DEF Pairs
<1> HIDE DEF n, keys
<1>4. \A i \in 1 .. 2 * n : (i + 1) \div 2 \in 1 .. n
  BY <1>2
<1>5. \A i \in 1 .. 2 * n : key(i) \in Int /\ map[key(i)] \in Int
  BY <1>1, <1>2, <1>4
<1>6. Pairs(map) \in Seq(Int) /\ Len(Pairs(map)) = 2 * n
  <2>1. Pairs(map) \in [1 .. 2 * n -> Int]
    BY <1>3, <1>5
  <2> QED
    BY <1>2, <2>1
<1>7. ASSUME NEW i \in 1 .. n
      PROVE  Pairs(map)[2 * i - 1] = keys[i] /\ Pairs(map)[2 * i] = map[keys[i]]
  <2>1. 2 * i - 1 \in 1 .. 2 * n /\ 2 * i \in 1 .. 2 * n
    BY <1>2
  <2>2. (2 * i - 1) % 2 = 1 /\ (2 * i - 1 + 1) \div 2 = i
    BY <1>2
  <2>3. (2 * i) % 2 # 1 /\ (2 * i + 1) \div 2 = i
    BY <1>2
  <2> QED
    BY <1>3, <2>1, <2>2, <2>3
<1> HIDE DEF key
<1>8. \A i, j \in 1 .. n : i # j => keys[i] # keys[j]
  <2>1. \A i \in 1 .. n : keys[i] \in Int
    BY <1>1, <1>2
  <2> QED
    BY <1>2, <2>1
<1> QED
  <2>1. \A i \in 1 .. n : keys[i] \in DOMAIN map
    BY <1>2
  <2>2. \A i \in 1 .. n : /\ Pairs(map)[2 * i - 1] \in DOMAIN map
                           /\ Pairs(map)[2 * i] = map[Pairs(map)[2 * i - 1]]
    BY <1>7, <2>1
  <2>3. \A i, j \in 1 .. n : i # j => Pairs(map)[2 * i - 1] # Pairs(map)[2 * j - 1]
    BY <1>7, <1>8
  <2>4. \A k \in DOMAIN map : \E i \in 1 .. n : Pairs(map)[2 * i - 1] = k
    <3> TAKE k \in DOMAIN map
    <3>1. PICK i \in 1 .. n : keys[i] = k
      BY <1>2, Zenon
    <3>2. Pairs(map)[2 * i - 1] = k
      BY <1>7, <3>1
    <3> QED
      BY <3>2
  <2> QED
    BY <1>2, <1>6, <2>2, <2>3, <2>4, Zenon DEF n

-----------------------------------------------------------------------------
(* Types. *)

\* What the reader can go back to is inside the buffer.
MarksInside == \A i \in DOMAIN marks : marks[i] <= Len(m_buffer) /\ marks[i] < Word

TypeInv == TypeOK /\ MarksInside

\* The units a value is written as.
Units(item) ==
    CASE item.kind = "int" -> <<item.value>>
      [] item.kind = "size" -> <<ToInt(item.value)>>
      [] item.kind \in {"string", "vector"} -> Sized(item.value)
      [] item.kind = "chars" -> Sized(CString(item.value))
      [] item.kind = "format" -> Sized(Formatted(CString(item.value)))
      [] OTHER -> <<ToInt(Cardinality(DOMAIN item.value))>> \o Pairs(item.value)

LEMMA HeadedType ==
    ASSUME NEW i \in Int, NEW t \in Seq(Int)
    PROVE  /\ <<i>> \o t \in Seq(Int) /\ Len(<<i>> \o t) = Len(t) + 1
           /\ (<<i>> \o t)[1] = i
           /\ \A j \in 1 .. Len(t) : (<<i>> \o t)[j + 1] = t[j]
<1>1. <<i>> \in Seq(Int) /\ Len(<<i>>) = 1 /\ <<i>>[1] = i /\ Len(t) \in Nat
  OBVIOUS
<1> QED
  BY <1>1, ConcatProperties

LEMMA SizedType ==
    ASSUME NEW t \in Seq(Int)
    PROVE  Sized(t) \in Seq(Int)
  BY HeadedType, ToIntType, LenProperties DEF Sized

LEMMA UnitsType ==
    ASSUME NEW item \in Item
    PROVE  Units(item) \in Seq(Int)
<1>1. CASE item.kind = "int"
  BY <1>1, BufferAssumption DEF Item, Units
<1>2. CASE item.kind = "size"
  <2>1. ToInt(item.value) \in Int
    BY <1>2, BufferAssumption, ToIntType DEF Item
  <2> QED
    BY <1>2, <2>1 DEF Units
<1>3. CASE item.kind \in {"string", "vector"}
  <2>1. item.value \in Seq(Int)
    BY <1>3, BufferAssumption DEF Item
  <2> QED
    BY <1>3, <2>1, SizedType DEF Units
<1>4. CASE item.kind \in {"chars", "format"}
  <2>1. item.value \in Seq(Int)
    BY <1>4, BufferAssumption DEF Item
  <2>2. CString(item.value) \in Seq(Int) /\ Formatted(CString(item.value)) \in Seq(Int)
    BY <2>1, CStringIs, FormattedIs
  <2> QED
    BY <1>4, <2>2, SizedType DEF Units
<1>5. CASE item.kind = "map"
  <2>1. item.value \in Maps
    BY <1>5 DEF Item
  <2>2. Pairs(item.value) \in Seq(Int) /\ Cardinality(DOMAIN item.value) \in Nat
    BY <2>1, PairsAre
  <2>3. <<ToInt(Cardinality(DOMAIN item.value))>> \o Pairs(item.value) \in Seq(Int)
    BY <2>2, HeadedType, ToIntType
  <2> QED
    BY <1>5, <2>3 DEF Units
<1> QED
  BY <1>1, <1>2, <1>3, <1>4, <1>5 DEF Item

\* A call of Append adds a value and its units.
Appends ==
    \E kind, value :
        /\ [kind |-> kind, value |-> value] \in Item
        /\ Adds(kind, value, Units([kind |-> kind, value |-> value]))
        /\ kind = "string" => value \in Texts
        /\ UNCHANGED selfAdded

LEMMA IsAppend ==
    ASSUME NEW kind, NEW value, NEW units,
           [kind |-> kind, value |-> value] \in Item,
           Units([kind |-> kind, value |-> value]) = units,
           Adds(kind, value, units), kind = "string" => value \in Texts, UNCHANGED selfAdded
    PROVE  Appends
  BY Zenon DEF Appends

LEMMA AppendCases ==
    ASSUME \/ \E int \in Ints : AppendInt(int)
           \/ \E s \in Sizes : AppendSize(s)
           \/ \E text \in Texts : AppendText(text)
           \/ \E vector \in Vectors : AppendVector(vector)
           \/ \E map \in Maps : AppendMap(map)
    PROVE  Appends
<1> DEFINE item(kind, value) == [kind |-> kind, value |-> value]
<1>1. ASSUME NEW int \in Ints, AppendInt(int) PROVE Appends
  <2>1. item("int", int) \in Item /\ Units(item("int", int)) = <<int>>
    BY DEF Item, Units
  <2> QED
    BY <1>1, <2>1, IsAppend DEF AppendInt
<1>2. ASSUME NEW s \in Sizes, AppendSize(s) PROVE Appends
  <2>1. item("size", s) \in Item /\ Units(item("size", s)) = <<ToInt(s)>>
    BY DEF Item, Units
  <2> QED
    BY <1>2, <2>1, IsAppend DEF AppendSize
<1>3. ASSUME NEW text \in Texts, AppendText(text) PROVE Appends
  <2>1. /\ item("string", text) \in Item /\ Units(item("string", text)) = Sized(text)
        /\ item("chars", text) \in Item /\ Units(item("chars", text)) = Sized(CString(text))
        /\ item("format", text) \in Item
        /\ Units(item("format", text)) = Sized(Formatted(CString(text)))
    BY BufferAssumption DEF Item, Units
  <2>2. CASE Adds("string", text, Sized(text))
    BY <1>3, <2>1, <2>2 DEF AppendText, Appends
  <2>3. CASE Adds("chars", text, Sized(CString(text)))
    BY <1>3, <2>1, <2>3 DEF AppendText, Appends
  <2>4. CASE Adds("format", text, Sized(Formatted(CString(text))))
    BY <1>3, <2>1, <2>4 DEF AppendText, Appends
  <2> QED
    BY <1>3, <2>2, <2>3, <2>4 DEF AppendText
<1>4. ASSUME NEW vector \in Vectors, AppendVector(vector) PROVE Appends
  <2>1. item("vector", vector) \in Item /\ Units(item("vector", vector)) = Sized(vector)
    BY DEF Item, Units
  <2> QED
    BY <1>4, <2>1, IsAppend DEF AppendVector
<1>5. ASSUME NEW map \in Maps, AppendMap(map) PROVE Appends
  <2>1. PICK units : units = <<ToInt(Cardinality(DOMAIN map))>> \o Pairs(map)
    OBVIOUS
  <2>2. item("map", map) \in Item /\ Units(item("map", map)) = units
    BY <2>1 DEF Item, Units
  <2>3. Adds("map", map, units) /\ UNCHANGED selfAdded
    BY <1>5, <2>1, Zenon DEF AppendMap
  <2> QED
    BY <2>2, <2>3, IsAppend
<1> QED
  BY <1>1, <1>2, <1>3, <1>4, <1>5

LEMMA AddsType ==
    ASSUME TypeInv, NEW kind, NEW value, NEW units \in Seq(Int),
           [kind |-> kind, value |-> value] \in Item,
           Adds(kind, value, units), selfAdded' \in BOOLEAN
    PROVE  TypeInv'
<1>1. /\ m_buffer' \in Seq(Int) /\ Len(m_buffer') = Len(m_buffer) + Len(units)
      /\ Len(m_buffer) \in Nat /\ Len(units) \in Nat
  BY ConcatProperties, LenProperties DEF TypeInv, TypeOK, Adds
<1>2. /\ added' \in Seq(Item) /\ Len(added') = Len(added) + 1
      /\ Len(added) \in Nat /\ Len(added) < MaxItems
  <2>1. added \in Seq(Item) /\ added' = Append(added, [kind |-> kind, value |-> value])
    BY DEF TypeInv, TypeOK, Adds
  <2> QED
    BY <2>1, AppendProperties, LenProperties DEF Adds
<1>3. UNCHANGED <<m_position, marks, next>>
  BY DEF Adds
<1>4. /\ m_position' \in 0 .. Len(m_buffer') /\ m_position' < Word
      /\ next' \in 1 .. Len(added') + 1
  BY <1>1, <1>2, <1>3 DEF TypeInv, TypeOK
<1>5. /\ marks' \in Seq(Nat) /\ Len(marks') \in next' .. Len(added') + 1
      /\ \A i \in DOMAIN marks' : marks'[i] <= Len(m_buffer') /\ marks'[i] < Word
  <2>1. marks \in Seq(Nat) /\ Len(marks) \in next .. Len(added) + 1
    BY DEF TypeInv, TypeOK
  <2>2. \A i \in DOMAIN marks : marks[i] \in Nat /\ marks[i] <= Len(m_buffer)
    BY <2>1 DEF TypeInv, MarksInside
  <2>3. marks' = marks /\ next' = next
    BY <1>3
  <2>4. Len(marks) \in next .. Len(added') + 1
    BY <1>2, <2>1, LenProperties
  <2>5. \A i \in DOMAIN marks' : marks'[i] < Word
    BY <1>3 DEF TypeInv, MarksInside
  <2> QED
    BY <1>1, <2>1, <2>2, <2>3, <2>4, <2>5
<1>6. Len(added') <= MaxItems
  BY <1>2, BufferAssumption
<1> QED
  BY <1>1, <1>2, <1>4, <1>5, <1>6 DEF TypeInv, TypeOK, MarksInside

\* The position stays inside a word; where it does not wrap around it moves on.
LEMMA AfterIs ==
    ASSUME NEW units \in Nat, m_position \in Nat
    PROVE  /\ After(units) \in Nat /\ After(units) < Word
           /\ m_position + units < Word => After(units) = m_position + units
           /\ After(units) <= m_position + units
<1>1. PICK n \in Nat : n = m_position + units /\ After(units) = n % Word
  BY DEF After
<1>2. n % Word \in 0 .. Word - 1 /\ Word \in Nat
  BY Remainder, BufferAssumption
<1>3. n < Word => n % Word = n
  BY BufferAssumption
<1> QED
  BY <1>1, <1>2, <1>3

LEMMA TakesType ==
    ASSUME TypeInv, NEW kinds, NEW taken, NEW units \in Nat,
           After(units) <= Len(m_buffer), Takes(kinds, taken, units)
    PROVE  TypeInv'
<1>1. /\ After(units) \in Nat /\ After(units) \in 0 .. Len(m_buffer)
      /\ After(units) < Word
  BY AfterIs DEF TypeInv, TypeOK
<1>2. CASE next = Len(marks)
  <2>1. marks' = Append(marks, After(units))
    BY <1>2 DEF Takes
  <2>2. /\ marks' \in Seq(Nat) /\ Len(marks') = Len(marks) + 1
        /\ marks'[Len(marks) + 1] = After(units)
        /\ \A i \in 1 .. Len(marks) : marks'[i] = marks[i]
    <3>1. marks \in Seq(Nat)
      BY DEF TypeInv, TypeOK
    <3> QED
      BY <1>1, <2>1, <3>1, AppendProperties
  <2>3. \A i \in 1 .. Len(marks') : marks'[i] <= Len(m_buffer) /\ marks'[i] < Word
    <3>1. marks \in Seq(Nat) /\ Len(marks) \in Nat /\ DOMAIN marks = 1 .. Len(marks)
      BY DEF TypeInv, TypeOK
    <3>2. \A i \in 1 .. Len(marks) : marks[i] <= Len(m_buffer) /\ marks[i] < Word
      BY <3>1 DEF TypeInv, MarksInside
    <3>3. \A i \in 1 .. Len(marks') : i \in 1 .. Len(marks) \/ i = Len(marks) + 1
      BY <2>2, <3>1
    <3> QED
      BY <1>1, <2>2, <3>2, <3>3
  <2>4. DOMAIN marks' = 1 .. Len(marks') /\ next' = next + 1 /\ next <= Len(added)
    BY <2>2, LenProperties DEF Takes
  <2>5. Len(marks') \in next' .. Len(added) + 1
    BY <1>2, <2>2, <2>4 DEF TypeInv, TypeOK
  <2> QED
    BY <1>1, <2>2, <2>3, <2>4, <2>5 DEF TypeInv, TypeOK, MarksInside, Takes
<1>3. CASE next # Len(marks)
  BY <1>1, <1>3 DEF TypeInv, TypeOK, MarksInside, Takes
<1> QED
  BY <1>2, <1>3

\* The reader takes a value whose units are inside the buffer.
Reads(kinds, taken) ==
    \E units \in Nat : After(units) <= Len(m_buffer) /\ Takes(kinds, taken, units)

LEMMA SizeType == ASSUME TypeInv, Inside(m_position, 1) PROVE size \in Int
<1>1. m_position + 1 \in 1 .. Len(m_buffer)
  BY DEF TypeInv, TypeOK, Inside
<1> QED
  BY <1>1 DEF TypeInv, TypeOK, size

\* Behind so many units read one by one the reader is still inside the buffer.
LEMMA BehindUnits ==
    ASSUME TypeInv, NEW n \in Nat, Inside(m_position, 1), UnitsInside(n)
    PROVE  After(1 + n) <= Len(m_buffer)
<1>1. m_position \in Nat /\ Len(m_buffer) \in Nat
  BY DEF TypeInv, TypeOK
<1>2. CASE n = 0
  <2>1. After(1) <= m_position + 1
    BY <1>1, AfterIs
  <2> QED
    BY <1>1, <1>2, <2>1, AfterIs DEF Inside
<1>3. CASE n > 0
  <2>1. After(n) + 1 <= Len(m_buffer) /\ After(n) \in Nat
    <3>1. n \in 1 .. n
      BY <1>3
    <3> QED
      BY <1>1, <3>1, AfterIs DEF UnitsInside, Inside
  <2>2. After(1 + n) <= After(n) + 1
    <3>1. m_position + n \in Nat /\ m_position + (1 + n) = m_position + n + 1
      BY <1>1
    <3> QED
      BY <3>1, NextRemainder DEF After
  <2>3. After(1 + n) \in Nat
    <3>1. 1 + n \in Nat
      OBVIOUS
    <3> QED
      BY <1>1, <3>1, AfterIs
  <2> QED
    BY <1>1, <2>1, <2>2, <2>3
<1> QED
  BY <1>2, <1>3

LEMMA ReadCases ==
    ASSUME TypeInv,
           \/ ValueInt \/ ValueSize \/ ValueText \/ ValueMap
           \/ \E before \in {<<>>} \cup Vectors : ValueVector(before)
    PROVE  \E kinds, taken : Reads(kinds, taken)
<1>0. m_position \in Nat /\ Len(m_buffer) \in Nat
  BY DEF TypeInv, TypeOK
<1>1. Inside(m_position, 1) => After(1) <= Len(m_buffer)
  <2>1. UnitsInside(0)
    BY DEF UnitsInside
  <2> QED
    BY <2>1, BehindUnits
<1>2. CASE ValueInt
  BY <1>1, <1>2 DEF ValueInt, Reads
<1>3. CASE ValueSize
  BY <1>1, <1>3 DEF ValueSize, Reads
<1>4. CASE ValueText
  <2>1. size \in Int /\ size >= 0 /\ After(1) + size <= Len(m_buffer)
    BY <1>4, SizeType DEF ValueText, Inside
  <2>2. After(1 + size) <= After(1) + size
    <3>1. m_position + 1 \in Nat /\ m_position + (1 + size) = m_position + 1 + size
      BY <1>0, <2>1
    <3> QED
      BY <2>1, <3>1, MoreRemainder DEF After
  <2>3. After(1 + size) \in Nat /\ After(1) \in Nat
    <3>1. 1 + size \in Nat
      BY <2>1
    <3> QED
      BY <1>0, <3>1, AfterIs
  <2>4. 1 + size \in Nat /\ After(1 + size) <= Len(m_buffer)
    BY <1>0, <2>1, <2>2, <2>3
  <2> QED
    BY <1>4, <2>4, Zenon DEF ValueText, Reads
<1>5. CASE ValueMap
  <2>1. 2 * count \in Nat /\ 1 + 2 * count \in Nat
    BY <1>5, SizeType DEF ValueMap, count
  <2>2. After(1 + 2 * count) <= Len(m_buffer)
    BY <1>5, <2>1, BehindUnits DEF ValueMap
  <2> QED
    BY <1>5, <2>1, <2>2, Zenon DEF ValueMap, Reads
<1>6. ASSUME NEW before \in {<<>>} \cup Vectors, ValueVector(before)
      PROVE  \E kinds, taken : Reads(kinds, taken)
  <2>1. count \in Nat /\ 1 + count \in Nat
    BY <1>6, SizeType DEF ValueVector, count
  <2>2. After(1 + count) <= Len(m_buffer)
    BY <1>6, <2>1, BehindUnits DEF ValueVector
  <2> QED
    BY <1>6, <2>1, <2>2, Zenon DEF ValueVector, Reads
<1> QED
  BY <1>2, <1>3, <1>4, <1>5, <1>6

LEMMA InitTypes == Init => TypeInv
<1> SUFFICES ASSUME Init PROVE TypeInv
  OBVIOUS
<1>1. marks \in Seq(Nat) /\ Len(marks) = 1 /\ marks[1] = 0 /\ DOMAIN marks = 1 .. 1
  BY DEF Init
<1>2. /\ m_buffer \in Seq(Int) /\ Len(m_buffer) = 0
      /\ added \in Seq(Item) /\ Len(added) = 0
  BY EmptySeq DEF Init
<1>3. m_position = 0 /\ next = 1 /\ selfAdded \in BOOLEAN
  BY DEF Init
<1> QED
  BY <1>1, <1>2, <1>3, BufferAssumption DEF TypeInv, TypeOK, MarksInside

\* A cleared buffer is a new one.
LEMMA ClearIs == Clear => Init'
  BY DEF Clear, Init

LEMMA TypeStep == TypeInv /\ [Next]_vars => TypeInv'
<1> SUFFICES ASSUME TypeInv, [Next]_vars PROVE TypeInv'
  OBVIOUS
<1>1. CASE Appends
  <2>1. PICK kind, value :
            /\ [kind |-> kind, value |-> value] \in Item
            /\ Adds(kind, value, Units([kind |-> kind, value |-> value]))
            /\ UNCHANGED selfAdded
    BY <1>1, Zenon DEF Appends
  <2>2. Units([kind |-> kind, value |-> value]) \in Seq(Int)
    BY <2>1, UnitsType
  <2>3. selfAdded' \in BOOLEAN
    BY <2>1 DEF TypeInv, TypeOK
  <2> QED
    BY <2>1, <2>2, <2>3, AddsType, Zenon
<1>2. CASE AppendSelf
  <2>1. m_buffer \in Seq(Int) /\ Len(m_buffer) \in Nat
    BY DEF TypeInv, TypeOK
  <2>2. Append(m_buffer, ToInt(Len(m_buffer))) \in Seq(Int) /\ ToInt(Len(m_buffer)) \in Int
    BY <2>1, ToIntType, AppendProperties
  <2>3. <<ToInt(Len(m_buffer))>> \o Append(m_buffer, ToInt(Len(m_buffer))) \in Seq(Int)
    BY <2>2, HeadedType
  <2>4. [kind |-> "string", value |-> m_buffer] \in Item
    BY <2>1 DEF Item
  <2> QED
    BY <1>2, <2>3, <2>4, AddsType DEF AppendSelf
<1>3. CASE \E kinds, taken : Reads(kinds, taken)
  BY <1>3, TakesType DEF Reads
<1>4. CASE Clear
  BY <1>4, ClearIs, InitTypes, PTL
<1>5. ASSUME NEW value \in DOMAIN marks, SetPosition(value) PROVE TypeInv'
  <2>1. /\ marks[value] \in Nat /\ marks[value] <= Len(m_buffer) /\ marks[value] < Word
        /\ value \in 1 .. Len(added) + 1
    <3>1. marks \in Seq(Nat) /\ Len(marks) \in next .. Len(added) + 1
      BY DEF TypeInv, TypeOK
    <3>2. DOMAIN marks = 1 .. Len(marks) /\ Len(marks) \in Nat /\ Len(added) \in Nat
      BY <3>1, LenProperties DEF TypeInv, TypeOK
    <3> QED
      BY <3>1, <3>2 DEF TypeInv, MarksInside
  <2> QED
    BY <1>5, <2>1 DEF SetPosition, TypeInv, TypeOK, MarksInside
<1>6. CASE Construct
  BY <1>6, BufferAssumption DEF Construct, TypeInv, TypeOK, MarksInside
<1>7. CASE UNCHANGED vars
  BY <1>7 DEF vars, TypeInv, TypeOK, MarksInside
<1> QED
  BY <1>1, <1>2, <1>3, <1>4, <1>5, <1>6, <1>7, AppendCases, ReadCases DEF Next

\* The position and what the reader can go back to stay inside the buffer, which
\* is made of ints.
THEOREM TypeCorrect == Spec => []TypeOK
<1>1. TypeInv => TypeOK
  BY DEF TypeInv
<1> QED
  BY <1>1, InitTypes, TypeStep, PTL DEF Spec

-----------------------------------------------------------------------------
(* Where the values are. *)

\* The units of a value are in a buffer from a position on.
UnitsAt(buffer, item, from) ==
    \A j \in 1 .. Len(Units(item)) : buffer[from + j] = Units(item)[j]

\* Each value begins at a position, after the one before; the reader, and what it
\* can go back to, is at the beginning of a value.
Layout(pos) ==
    /\ pos \in [1 .. Len(added) + 1 -> 0 .. Len(m_buffer)]
    /\ pos[1] = 0 /\ pos[Len(added) + 1] = Len(m_buffer)
    /\ \A i \in 1 .. Len(added) :
           /\ added[i].kind = "string" => added[i].value \in Texts
           /\ pos[i + 1] = pos[i] + Len(Units(added[i]))
           /\ UnitsAt(m_buffer, added[i], pos[i])
    /\ m_position = pos[next]
    /\ \A i \in DOMAIN marks : marks[i] = pos[i]

LayoutInv == Fits => \E pos : Layout(pos)

\* A value is added behind the others, which stay where they are.
LEMMA AddsLayout ==
    ASSUME TypeInv, NEW pos, Layout(pos), Appends
    PROVE  \E q : Layout(q)'
<1> DEFINE N == Len(added)
           L == Len(m_buffer)
<1>1. PICK item \in Item :
          /\ added' = Append(added, item) /\ m_buffer' = m_buffer \o Units(item)
          /\ item.kind = "string" => item.value \in Texts
          /\ UNCHANGED <<m_position, marks, next>>
  BY Zenon DEF Appends, Adds
<1>2. PICK units \in Seq(Int) : units = Units(item)
  BY UnitsType
<1>3. /\ added \in Seq(Item) /\ N \in Nat /\ m_buffer \in Seq(Int) /\ L \in Nat
      /\ next \in 1 .. N + 1 /\ marks \in Seq(Nat) /\ Len(marks) \in 1 .. N + 1
  BY DEF TypeInv, TypeOK
<1>4. /\ Len(added') = N + 1 /\ added'[N + 1] = item
      /\ \A i \in 1 .. N : added'[i] = added[i]
  BY <1>1, <1>3, AppendProperties
<1>5. /\ Len(units) \in Nat /\ Len(m_buffer') = L + Len(units)
      /\ \A j \in 1 .. L : m_buffer'[j] = m_buffer[j]
      /\ \A j \in 1 .. Len(units) : m_buffer'[L + j] = units[j]
  BY <1>1, <1>2, <1>3, ConcatProperties
<1> HIDE DEF N, L
<1>6. /\ pos \in [1 .. N + 1 -> 0 .. L] /\ pos[1] = 0 /\ pos[N + 1] = L
      /\ \A i \in DOMAIN marks : marks[i] = pos[i]
      /\ m_position = pos[next]
  BY DEF Layout, N, L
<1>7. PICK q : q = [i \in 1 .. N + 2 |-> IF i = N + 2 THEN L + Len(units) ELSE pos[i]]
  OBVIOUS
<1>8. /\ \A i \in 1 .. N + 1 : q[i] = pos[i] /\ pos[i] \in 0 .. L
      /\ q[N + 2] = L + Len(units)
  BY <1>3, <1>6, <1>7
<1>9. q \in [1 .. N + 2 -> 0 .. L + Len(units)]
  <2>1. \A i \in 1 .. N + 2 : q[i] \in 0 .. L + Len(units)
    <3>1. \A i \in 1 .. N + 2 : i \in 1 .. N + 1 \/ i = N + 2
      BY <1>3
    <3>2. 0 .. L \subseteq 0 .. L + Len(units) /\ L + Len(units) \in 0 .. L + Len(units)
      BY <1>3, <1>5
    <3> QED
      BY <1>8, <3>1, <3>2
  <2> QED
    BY <1>7, <2>1
<1>10. ASSUME NEW i \in 1 .. N
       PROVE  /\ added'[i].kind = "string" => added'[i].value \in Texts
              /\ q[i + 1] = q[i] + Len(Units(added'[i]))
              /\ UnitsAt(m_buffer', added'[i], q[i])
  <2>1. /\ added[i].kind = "string" => added[i].value \in Texts
        /\ pos[i + 1] = pos[i] + Len(Units(added[i]))
        /\ \A j \in 1 .. Len(Units(added[i])) : m_buffer[pos[i] + j] = Units(added[i])[j]
    <3> USE DEF N
    <3>1. UnitsAt(m_buffer, added[i], pos[i])
      BY DEF Layout
    <3>2. /\ added[i].kind = "string" => added[i].value \in Texts
          /\ pos[i + 1] = pos[i] + Len(Units(added[i]))
      BY DEF Layout
    <3> QED
      BY <3>1, <3>2, Zenon DEF UnitsAt
  <2>2. /\ q[i] = pos[i] /\ q[i + 1] = pos[i + 1] /\ added'[i] = added[i]
        /\ pos[i] \in 0 .. L /\ pos[i + 1] \in 0 .. L
    <3>1. i \in 1 .. N + 1 /\ i + 1 \in 1 .. N + 1
      BY <1>3
    <3> QED
      BY <1>4, <1>8, <3>1, Zenon
  <2>3. \A j \in 1 .. Len(Units(added[i])) : pos[i] + j \in 1 .. L
    <3>1. added[i] \in Item
      BY <1>3, ElementOfSeq DEF N
    <3>2. Len(Units(added[i])) \in Nat
      BY <3>1, UnitsType, LenProperties
    <3>3. PICK l \in Nat : l = Len(Units(added[i]))
      BY <3>2
    <3>4. PICK p \in 0 .. L : p = pos[i]
      BY <2>2, Zenon
    <3>5. p + l \in 0 .. L
      <4>1. p + l = pos[i + 1]
        BY <2>1, <3>3, <3>4, Zenon
      <4>2. pos[i + 1] \in 0 .. L
        BY <2>2, Zenon
      <4> QED
        BY <4>1, <4>2, Zenon
    <3>6. \A j \in 1 .. l : p + j \in 1 .. L
      BY <1>3, <3>5
    <3> QED
      BY <3>3, <3>4, <3>6, Zenon
  <2>4. \A j \in 1 .. Len(Units(added[i])) : m_buffer'[q[i] + j] = Units(added[i])[j]
    BY <1>5, <2>1, <2>2, <2>3
  <2>5. UnitsAt(m_buffer', added'[i], q[i])
    BY <2>2, <2>4, Zenon DEF UnitsAt
  <2> QED
    BY <2>1, <2>2, <2>5, Zenon
<1>11. /\ added'[N + 1].kind = "string" => added'[N + 1].value \in Texts
       /\ q[N + 2] = q[N + 1] + Len(Units(added'[N + 1]))
       /\ UnitsAt(m_buffer', added'[N + 1], q[N + 1])
  <2>1. q[N + 1] = L
    BY <1>3, <1>6, <1>8
  <2>2. UnitsAt(m_buffer', item, L)
    BY <1>2, <1>5 DEF UnitsAt
  <2> QED
    BY <1>1, <1>2, <1>4, <1>8, <2>1, <2>2, Zenon
<1>12. Len(added') + 1 = N + 2 /\ Len(m_buffer') = L + Len(units)
  BY <1>3, <1>4, <1>5
<1>13. ASSUME NEW i \in 1 .. Len(added')
       PROVE  /\ added'[i].kind = "string" => added'[i].value \in Texts
              /\ q[i + 1] = q[i] + Len(Units(added'[i]))
              /\ UnitsAt(m_buffer', added'[i], q[i])
  <2>1. i \in 1 .. N \/ i = N + 1
    <3>1. i \in 1 .. N + 1
      BY <1>4, Zenon
    <3> QED
      BY <1>3, <3>1
  <2>2. CASE i \in 1 .. N
    BY <1>10, <2>2
  <2>3. CASE i = N + 1
    <3>1. i + 1 = N + 2
      BY <1>3, <2>3
    <3> QED
      BY <1>11, <2>3, <3>1
  <2> QED
    BY <2>1, <2>2, <2>3
<1>14. \A i \in DOMAIN marks' : marks'[i] = q[i]
  <2>1. \A i \in DOMAIN marks : i \in 1 .. N + 1
    <3>1. DOMAIN marks = 1 .. Len(marks) /\ Len(marks) \in 1 .. N + 1
      BY <1>3, LenProperties
    <3> QED
      BY <1>3, <3>1
  <2>2. \A i \in DOMAIN marks : marks[i] = q[i]
    <3> TAKE i \in DOMAIN marks
    <3>1. i \in 1 .. N + 1
      BY <2>1, Zenon
    <3>2. marks[i] = pos[i] /\ q[i] = pos[i]
      BY <1>6, <1>8, <3>1, Zenon
    <3> QED
      BY <3>2, Zenon
  <2>3. marks' = marks
    BY <1>1
  <2> QED
    BY <2>2, <2>3, Zenon
<1>15. m_position' = q[next'] /\ q[1] = 0
  <2>1. q[next] = pos[next] /\ 1 \in 1 .. N + 1
    BY <1>3, <1>8
  <2>2. q[1] = 0
    BY <1>6, <1>8, <2>1, Zenon
  <2>3. m_position' = m_position /\ next' = next
    BY <1>1
  <2> QED
    BY <1>6, <2>1, <2>2, <2>3, Zenon
<1>16. /\ q \in [1 .. Len(added') + 1 -> 0 .. Len(m_buffer')]
       /\ q[Len(added') + 1] = Len(m_buffer')
  BY <1>8, <1>9, <1>12
<1>17. Layout(q)'
  BY <1>13, <1>14, <1>15, <1>16 DEF Layout
<1> QED
  BY <1>17

\* What the reader finds at its position.
LEMMA NextIs ==
    ASSUME TypeInv, NEW pos, Layout(pos), next <= Len(added)
    PROVE  /\ next \in 1 .. Len(added) /\ added[next] \in Item
           /\ added[next].kind = "string" => added[next].value \in Texts
           /\ pos[next + 1] = m_position + Len(Units(added[next]))
           /\ UnitsAt(m_buffer, added[next], m_position)
           /\ m_position \in Nat
<1>1. next \in 1 .. Len(added) /\ m_position \in Nat /\ added \in Seq(Item)
  BY DEF TypeInv, TypeOK
<1>2. added[next] \in Item
  BY <1>1, ElementOfSeq
<1> QED
  BY <1>1, <1>2 DEF Layout

\* In data that an unsigned int can count the position does not wrap around
\* behind the units of the next value, or before.
LEMMA NextEnds ==
    ASSUME TypeInv, Fits, NEW pos, Layout(pos), next <= Len(added),
           NEW n \in 0 .. Len(Units(added[next]))
    PROVE  /\ Len(Units(added[next])) \in Nat
           /\ m_position + Len(Units(added[next])) <= Len(m_buffer)
           /\ After(n) = m_position + n
<1>1. /\ next \in 1 .. Len(added) /\ added[next] \in Item /\ m_position \in Nat
      /\ pos[next + 1] = m_position + Len(Units(added[next]))
  BY NextIs
<1>2. PICK l \in Nat : l = Len(Units(added[next]))
  BY <1>1, UnitsType, LenProperties
<1>3. Len(m_buffer) \in Nat /\ Len(m_buffer) < Word /\ Word \in Nat
  BY BufferAssumption DEF TypeInv, TypeOK, Fits
<1>4. pos[next + 1] \in 0 .. Len(m_buffer)
  <2>1. next + 1 \in 1 .. Len(added) + 1
    BY <1>1
  <2> QED
    BY <2>1 DEF Layout
<1>5. m_position + l <= Len(m_buffer)
  BY <1>1, <1>2, <1>3, <1>4
<1>6. n \in Nat /\ m_position + n < Word
  BY <1>1, <1>2, <1>3, <1>5
<1> QED
  BY <1>1, <1>2, <1>5, <1>6, AfterIs

\* Taking the units of the next value leads to the one after it.
LEMMA TakesLayout ==
    ASSUME TypeInv, NEW pos, Layout(pos), NEW kinds, NEW taken, NEW units,
           Takes(kinds, taken, units), units = Len(Units(added[next])), Fits
    PROVE  Layout(pos)'
<1>0. After(units) = m_position + units /\ After(units) = pos[next + 1]
  BY NextIs, NextEnds DEF Takes
<1>1. /\ next \in 1 .. Len(added) /\ next' = next + 1
      /\ m_position' = pos[next + 1] /\ m_position' = After(units)
      /\ UNCHANGED <<m_buffer, added>>
  BY <1>0, NextIs DEF Takes
<1>2. \A i \in DOMAIN marks' : marks'[i] = pos[i]
  <2>1. marks \in Seq(Nat) /\ \A i \in DOMAIN marks : marks[i] = pos[i]
    BY DEF TypeInv, TypeOK, Layout
  <2>2. CASE next = Len(marks)
    <3>1. marks' = Append(marks, After(units))
      BY <2>2 DEF Takes
    <3>2. \A i \in DOMAIN marks' : i \in DOMAIN marks \/ i = Len(marks) + 1
      BY <2>1, <3>1
    <3>3. marks'[Len(marks) + 1] = pos[next + 1]
      BY <1>1, <2>1, <3>1
    <3>4. \A i \in DOMAIN marks : marks'[i] = marks[i]
      BY <2>1, <3>1
    <3> QED
      BY <2>1, <2>2, <3>2, <3>3, <3>4
  <2>3. CASE next # Len(marks)
    BY <2>1, <2>3 DEF Takes
  <2> QED
    BY <2>2, <2>3
<1> QED
  BY <1>1, <1>2 DEF Layout

-----------------------------------------------------------------------------
(* What is taken out. *)

\* What is taken out of the place of a value is that value.
Right(kind, value, taken) ==
    LET item == [kind |-> kind, added |-> value, taken |-> taken]
    IN IF kind = "vector" THEN \E before \in {<<>>} \cup Vectors : taken = before \o value
                          ELSE taken \in Expected(item)

\* The units of a text or a vector: its length, as it is, and its elements.
LEMMA SizedIs ==
    ASSUME NEW t \in Seq(Int), 2 * Len(t) < Word
    PROVE  /\ Len(Sized(t)) = Len(t) + 1 /\ Sized(t)[1] = Len(t)
           /\ \A j \in 1 .. Len(t) : Sized(t)[j + 1] = t[j]
<1>1. Len(t) \in Nat /\ ToInt(Len(t)) = Len(t)
  BY ToIntIs
<1> QED
  BY <1>1, HeadedType DEF Sized

LEMMA SliceIs ==
    ASSUME NEW t \in Seq(Int), m_buffer \in Seq(Int), NEW from \in Nat,
           \A j \in 1 .. Len(t) : m_buffer[from + j] = t[j]
    PROVE  Slice(from, Len(t)) = t
<1> DEFINE n == Len(t)
           s == SubSeq(m_buffer, from + 1, from + n)
<1>1. n \in Nat /\ from + 1 \in Int /\ from + n \in Int /\ \A j \in 1 .. n : t[j] \in Int
  OBVIOUS
<1>2. \A i \in from + 1 .. from + n : m_buffer[i] \in Int
  <2> TAKE i \in from + 1 .. from + n
  <2>1. i - from \in 1 .. n /\ from + (i - from) = i
    BY <1>1
  <2> QED
    BY <1>1, <2>1
<1>3. /\ s \in Seq(Int)
      /\ Len(s) = IF from + 1 <= from + n THEN from + n - (from + 1) + 1 ELSE 0
      /\ \A i \in 1 .. from + n - (from + 1) + 1 : s[i] = m_buffer[from + 1 + i - 1]
  <2> HIDE DEF n
  <2> QED
    BY <1>1, <1>2, SubSeqProperties, SMTT(30)
<1>4. Len(s) = n /\ \A i \in 1 .. n : s[i] = m_buffer[from + i]
  <2> HIDE DEF n, s
  <2>1. from + n - (from + 1) + 1 = n /\ \A i \in 1 .. n : from + 1 + i - 1 = from + i
    BY <1>1
  <2> QED
    BY <1>1, <1>3, <2>1
<1>5. s = t
  BY <1>3, <1>4, SeqEqual
<1> QED
  BY <1>5 DEF Slice

\* The reader finds a size and the elements behind it, at once or one by one.
LEMMA ReadSized ==
    ASSUME TypeInv, Fits, NEW pos, Layout(pos), next <= Len(added),
           NEW t \in Seq(Int), 2 * Len(t) < Word, Units(added[next]) = Sized(t)
    PROVE  /\ size = Len(t) /\ count = Len(t) /\ 1 + size = Len(Units(added[next]))
           /\ Slice(After(1), size) = t /\ [i \in 1 .. count |-> Unit(i)] = t
<1>0. /\ UnitsAt(m_buffer, added[next], m_position) /\ m_position \in Nat
      /\ m_buffer \in Seq(Int)
  BY NextIs DEF TypeInv, TypeOK
<1>1. /\ Len(t) \in Nat /\ Len(Sized(t)) = Len(t) + 1 /\ Sized(t)[1] = Len(t)
      /\ \A j \in 1 .. Len(t) : Sized(t)[j + 1] = t[j]
  BY SizedIs
<1>2. \A j \in 1 .. Len(t) + 1 : m_buffer[m_position + j] = Sized(t)[j]
  BY <1>0, <1>1 DEF UnitsAt
<1>3. size = Len(t) /\ count = Len(t)
  <2>1. size = Len(t)
    BY <1>1, <1>2 DEF size
  <2> QED
    BY <1>1, <2>1 DEF count
<1>4. \A j \in 1 .. Len(t) : m_buffer[m_position + 1 + j] = t[j]
  <2> TAKE j \in 1 .. Len(t)
  <2>1. j + 1 \in 1 .. Len(t) + 1 /\ m_position + 1 + j = m_position + (j + 1)
    BY <1>0, <1>1
  <2> QED
    BY <1>1, <1>2, <2>1
<1>5. \A j \in 1 .. Len(t) + 1 : After(j) = m_position + j
  <2>1. \A j \in 1 .. Len(t) + 1 : j \in 0 .. Len(Units(added[next]))
    BY <1>1
  <2> QED
    BY <2>1, NextEnds
<1>6. Slice(After(1), Len(t)) = t
  <2>1. m_position + 1 \in Nat /\ After(1) = m_position + 1
    <3>1. 1 \in 1 .. Len(t) + 1
      BY <1>1
    <3> QED
      BY <1>0, <1>5, <3>1
  <2> QED
    BY <1>0, <1>4, <2>1, SliceIs
<1>7. [i \in 1 .. count |-> Unit(i)] = t
  <2>1. ASSUME NEW i \in 1 .. Len(t) PROVE Unit(i) = t[i]
    <3>1. i \in 1 .. Len(t) + 1 /\ m_position + i + 1 = m_position + 1 + i
      BY <1>0, <1>1
    <3>2. After(i) + 1 = m_position + 1 + i
      BY <1>5, <3>1
    <3> QED
      BY <1>4, <3>2 DEF Unit
  <2>2. t = [i \in 1 .. Len(t) |-> t[i]]
    BY LenProperties
  <2> QED
    BY <1>3, <2>1, <2>2
<1> QED
  BY <1>1, <1>3, <1>6, <1>7

\* A text, in whichever way it was added.
LEMMA TextIs ==
    ASSUME NEW item \in Item, item.kind \in {"string", "chars", "format"},
           item.kind = "string" => item.value \in Texts
    PROVE  \E t \in Seq(Int) :
               /\ 2 * Len(t) < Word /\ Units(item) = Sized(t)
               /\ Right(item.kind, item.value, t)
               /\ item.kind # "string" => CString(t) = t
<1>1. item.value \in Texts /\ item.value \in Seq(Int) /\ 2 * Len(item.value) < Word
  <2>1. item.value \in Texts
    BY DEF Item
  <2> QED
    BY <2>1, BufferAssumption, SizeAssumption
<1> DEFINE v == item.value
<1>2. /\ CString(v) \in Seq(Int) /\ Len(CString(v)) <= Len(v)
      /\ Formatted(CString(v)) \in Seq(Int) /\ Len(Formatted(CString(v))) <= Len(CString(v))
  BY <1>1, CStringIs, FormattedIs
<1>3. 2 * Len(CString(v)) < Word /\ 2 * Len(Formatted(CString(v))) < Word
  BY <1>1, <1>2, BufferAssumption, LenProperties
<1>4. CASE item.kind = "string"
  <2>1. Units(item) = Sized(v) /\ Right(item.kind, v, v)
    BY <1>4 DEF Units, Right, Expected
  <2> QED
    BY <1>1, <1>4, <2>1
<1>5. CASE item.kind = "chars"
  <2>1. Units(item) = Sized(CString(v)) /\ Right(item.kind, v, CString(v))
    BY <1>5 DEF Units, Right, Expected
  <2> QED
    BY <1>1, <1>2, <1>3, <2>1, CutOnce
<1>6. CASE item.kind = "format"
  <2>1. /\ Units(item) = Sized(Formatted(CString(v)))
        /\ Right(item.kind, v, Formatted(CString(v)))
    BY <1>6 DEF Units, Right, Expected
  <2> QED
    BY <1>1, <1>2, <1>3, <2>1, CutOnce
<1> QED
  BY <1>4, <1>5, <1>6

LEMMA ReadText ==
    ASSUME TypeInv, Fits, NEW pos, Layout(pos), ValueText
    PROVE  \E kinds, taken, units :
               /\ Takes(kinds, taken, units) /\ units = Len(Units(added[next]))
               /\ Right(added[next].kind, added[next].value, taken)
<1> DEFINE item == added[next]
<1>1. next <= Len(added) /\ item.kind \in {"string", "chars", "format"}
  BY DEF ValueText, Takes
<1>2. /\ item \in Item
      /\ item.kind = "string" => item.value \in Texts
      /\ UnitsAt(m_buffer, item, m_position) /\ m_position \in Nat /\ m_buffer \in Seq(Int)
  BY <1>1, NextIs DEF TypeInv, TypeOK
<1>3. PICK t \in Seq(Int) : /\ 2 * Len(t) < Word /\ Units(item) = Sized(t)
                            /\ Right(item.kind, item.value, t)
                            /\ item.kind # "string" => CString(t) = t
  BY <1>1, <1>2, TextIs
<1>4. /\ Slice(After(1), size) = t
      /\ 1 + size = Len(Units(item))
  BY <1>1, <1>3, ReadSized
<1>5. CASE Takes({"string", "chars", "format"}, t, 1 + size)
  BY <1>3, <1>4, <1>5, Zenon
<1>6. CASE Takes({"chars", "format"}, CString(t), 1 + size)
  <2>1. CString(t) = t
    BY <1>3, <1>6 DEF Takes
  <2> QED
    BY <1>3, <1>4, <1>6, <2>1, Zenon
<1> QED
  BY <1>4, <1>5, <1>6, Zenon DEF ValueText

LEMMA ReadVector ==
    ASSUME TypeInv, Fits, NEW pos, Layout(pos),
           NEW before \in {<<>>} \cup Vectors, ValueVector(before)
    PROVE  \E kinds, taken, units :
               /\ Takes(kinds, taken, units) /\ units = Len(Units(added[next]))
               /\ Right(added[next].kind, added[next].value, taken)
<1> DEFINE item == added[next]
           v == item.value
<1>1. next <= Len(added) /\ item.kind = "vector"
  BY DEF ValueVector, Takes
<1>2. /\ item \in Item /\ UnitsAt(m_buffer, item, m_position)
      /\ m_position \in Nat /\ m_buffer \in Seq(Int)
  BY <1>1, NextIs DEF TypeInv, TypeOK
<1>3. v \in Vectors
  BY <1>1, <1>2 DEF Item
<1>4. v \in Seq(Int) /\ 2 * Len(v) < Word
  BY <1>3, BufferAssumption, SizeAssumption
<1>5. Units(item) = Sized(v)
  BY <1>1 DEF Units
<1>6. [i \in 1 .. count |-> Unit(i)] = v /\ count = size /\ 1 + size = Len(Units(item))
  <2>1. count = Len(v) /\ size = Len(v) /\ 1 + size = Len(Units(item))
    BY <1>1, <1>4, <1>5, ReadSized
  <2>2. [i \in 1 .. count |-> Unit(i)] = v
    BY <1>1, <1>4, <1>5, ReadSized, Zenon
  <2> QED
    BY <2>1, <2>2, Zenon
<1>7. Takes({"vector"}, before \o v, 1 + size)
  BY <1>6, Zenon DEF ValueVector
<1>8. Right(item.kind, v, before \o v)
  BY <1>1, Zenon DEF Right
<1> QED
  BY <1>6, <1>7, <1>8, Zenon

LEMMA ReadInt ==
    ASSUME TypeInv, Fits, NEW pos, Layout(pos), ValueInt \/ ValueSize
    PROVE  \E kinds, taken, units :
               /\ Takes(kinds, taken, units) /\ units = Len(Units(added[next]))
               /\ Right(added[next].kind, added[next].value, taken)
<1> DEFINE item == added[next]
<1>1. next <= Len(added) /\ item.kind \in {"int", "size"}
  BY DEF ValueInt, ValueSize, Takes
<1>2. item \in Item /\ UnitsAt(m_buffer, item, m_position)
  BY <1>1, NextIs
<1>3. CASE ValueInt
  <2>1. item.kind = "int" /\ Units(item) = <<item.value>>
    BY <1>3 DEF ValueInt, Takes, Units
  <2>2. m_buffer[m_position + 1] = item.value
    BY <1>2, <2>1 DEF UnitsAt
  <2>3. Right(item.kind, item.value, m_buffer[m_position + 1])
    BY <2>1, <2>2 DEF Right, Expected
  <2>4. 1 = Len(Units(item))
    BY <2>1
  <2> QED
    BY <1>3, <2>3, <2>4, Zenon DEF ValueInt
<1>4. CASE ValueSize
  <2>1. item.kind = "size" /\ Units(item) = <<ToInt(item.value)>>
    BY <1>4 DEF ValueSize, Takes, Units
  <2>2. size = ToInt(item.value)
    BY <1>2, <2>1 DEF UnitsAt, size
  <2>3. item.value \in Nat
    BY <1>2, <2>1, BufferAssumption DEF Item
  <2>4. 2 * item.value < Word => ToSize(size) = item.value
    BY <2>2, <2>3, ToIntIs DEF ToSize
  <2>5. Right(item.kind, item.value, ToSize(size))
    <3>1. CASE 2 * item.value >= Word
      BY <2>1, <2>2, <3>1 DEF Right, Expected
    <3>2. CASE ~(2 * item.value >= Word)
      <4>1. ToSize(size) = item.value
        BY <2>3, <2>4, <3>2, BufferAssumption
      <4> QED
        BY <2>1, <3>2, <4>1 DEF Right, Expected
    <3> QED
      BY <3>1, <3>2
  <2>6. 1 = Len(Units(item))
    BY <2>1
  <2> QED
    BY <1>4, <2>5, <2>6, Zenon DEF ValueSize
<1> QED
  BY <1>3, <1>4

LEMMA ReadMap ==
    ASSUME TypeInv, Fits, NEW pos, Layout(pos), ValueMap
    PROVE  \E kinds, taken, units :
               /\ Takes(kinds, taken, units) /\ units = Len(Units(added[next]))
               /\ Right(added[next].kind, added[next].value, taken)
<1> DEFINE item == added[next]
           map == item.value
           pairs == Pairs(map)
           n == Cardinality(DOMAIN map)
           key(i) == Unit(2 * i - 1)
           first(k) == Min({i \in 1 .. count : key(i) = k})
           read == [k \in {key(i) : i \in 1 .. count} |-> Unit(2 * first(k))]
<1>1. next <= Len(added) /\ item.kind = "map" /\ Takes({"map"}, read, 1 + 2 * count)
  BY DEF ValueMap, Takes
<1>2. item \in Item /\ UnitsAt(m_buffer, item, m_position) /\ m_position \in Nat
  BY <1>1, NextIs
<1>3. map \in Maps
  BY <1>1, <1>2 DEF Item
<1>4. map = [k \in DOMAIN map |-> map[k]] /\ 2 * n < Word
  BY <1>3, BufferAssumption, SizeAssumption
<1>5. /\ n \in Nat /\ pairs \in Seq(Int) /\ Len(pairs) = 2 * n
      /\ \A i \in 1 .. n : /\ pairs[2 * i - 1] \in DOMAIN map
                           /\ pairs[2 * i] = map[pairs[2 * i - 1]]
      /\ \A i, j \in 1 .. n : i # j => pairs[2 * i - 1] # pairs[2 * j - 1]
      /\ \A k \in DOMAIN map : \E i \in 1 .. n : pairs[2 * i - 1] = k
  BY <1>3, PairsAre
<1> HIDE DEF n
<1>6. PICK units : units = <<n>> \o pairs
  OBVIOUS
<1>7. /\ Len(units) = 2 * n + 1 /\ units[1] = n
      /\ \A j \in 1 .. 2 * n : units[j + 1] = pairs[j]
  BY <1>5, <1>6, HeadedType
<1>8. Units(item) = units
  <2>1. ToInt(n) = n
    BY <1>4, <1>5, ToIntIs
  <2>2. Units(item) = <<ToInt(n)>> \o pairs
    BY <1>1 DEF Units, n
  <2> QED
    BY <1>6, <2>1, <2>2
<1>9. \A j \in 1 .. 2 * n + 1 : m_buffer[m_position + j] = units[j]
  BY <1>2, <1>7, <1>8 DEF UnitsAt
<1>10. size = n /\ count = n
  <2>1. size = n
    BY <1>5, <1>7, <1>9 DEF size
  <2> QED
    BY <1>5, <2>1 DEF count
<1>11. ASSUME NEW i \in 1 .. n
       PROVE  key(i) = pairs[2 * i - 1] /\ Unit(2 * i) = pairs[2 * i]
  <2>1. /\ 2 * i - 1 \in 1 .. 2 * n /\ 2 * i \in 1 .. 2 * n
        /\ 2 * i - 1 + 1 = 2 * i
        /\ 2 * i \in 1 .. 2 * n + 1 /\ 2 * i + 1 \in 1 .. 2 * n + 1
    BY <1>2, <1>5
  <2>2. units[2 * i] = pairs[2 * i - 1] /\ units[2 * i + 1] = pairs[2 * i]
    BY <1>7, <2>1
  <2>3. /\ After(2 * i - 1) = m_position + (2 * i - 1)
        /\ After(2 * i) = m_position + 2 * i
    <3>1. \A j \in 1 .. 2 * n : j \in 0 .. Len(Units(item))
      BY <1>5, <1>7, <1>8
    <3> QED
      BY <1>1, <2>1, <3>1, NextEnds
  <2>4. /\ After(2 * i - 1) + 1 = m_position + 2 * i
        /\ After(2 * i) + 1 = m_position + (2 * i + 1)
    BY <1>2, <2>3
  <2> QED
    BY <1>9, <2>1, <2>2, <2>4 DEF Unit
<1> HIDE DEF key, pairs
<1>12. {key(i) : i \in 1 .. count} = DOMAIN map
  <2>1. \A i \in 1 .. n : key(i) \in DOMAIN map
    BY <1>5, <1>11
  <2>2. \A k \in DOMAIN map : \E i \in 1 .. n : key(i) = k
    <3> TAKE k \in DOMAIN map
    <3>1. PICK i \in 1 .. n : pairs[2 * i - 1] = k
      BY <1>5, Zenon
    <3>2. key(i) = k
      BY <1>11, <3>1
    <3> QED
      BY <3>2
  <2> QED
    BY <1>10, <2>1, <2>2, Zenon
<1>13. ASSUME NEW k \in DOMAIN map
       PROVE  Unit(2 * first(k)) = map[k]
  <2>1. PICK i \in 1 .. n : pairs[2 * i - 1] = k
    BY <1>5, Zenon
  <2>2. \A j \in 1 .. n : key(j) = k <=> j = i
    <3> TAKE j \in 1 .. n
    <3>1. key(j) = pairs[2 * j - 1]
      BY <1>11
    <3> QED
      BY <1>5, <2>1, <3>1, Zenon
  <2>3. {j \in 1 .. count : key(j) = k} = {i}
    BY <1>10, <2>2
  <2>4. first(k) = i
    <3>1. \E x \in {i} : \A y \in {i} : x =< y
      BY <1>5
    <3>2. Min({i}) = i
      BY <3>1 DEF Min
    <3> QED
      BY <2>3, <3>2
  <2> HIDE DEF first
  <2> QED
    BY <1>5, <1>11, <2>1, <2>4
<1>14. read = map
  <2> HIDE DEF first
  <2> QED
    BY <1>4, <1>12, <1>13
<1>15. 1 + 2 * count = Len(Units(item))
  BY <1>5, <1>7, <1>8, <1>10
<1>16. Right(item.kind, map, map)
  BY <1>1 DEF Right, Expected
<1> QED
  BY <1>1, <1>14, <1>15, <1>16

-----------------------------------------------------------------------------
(* The invariant. *)

OrderInv == LayoutInv /\ ValuesComeInOrder

\* Whatever is taken out of a buffer that was not added to itself is right.
LEMMA ReadStep ==
    ASSUME TypeInv, OrderInv,
           \/ ValueInt \/ ValueSize \/ ValueText \/ ValueMap
           \/ \E before \in {<<>>} \cup Vectors : ValueVector(before)
    PROVE  OrderInv'
<1>1. UNCHANGED <<selfAdded, m_buffer>>
  BY DEF ValueInt, ValueSize, ValueText, ValueMap, ValueVector, Takes
<1>2. CASE ~Fits
  BY <1>1, <1>2 DEF OrderInv, LayoutInv, ValuesComeInOrder, Fits
<1>3. CASE Fits
  <2>1. PICK pos : Layout(pos)
    BY <1>3 DEF OrderInv, LayoutInv
  <2>2. PICK kinds, taken, units :
            /\ Takes(kinds, taken, units) /\ units = Len(Units(added[next]))
            /\ Right(added[next].kind, added[next].value, taken)
    BY <1>3, <2>1, ReadInt, ReadText, ReadVector, ReadMap, Zenon
  <2>3. Layout(pos)'
    BY <1>3, <2>1, <2>2, TakesLayout
  <2>4. got' = <<[kind |-> added[next].kind, taken |-> taken, added |-> added[next].value]>>
    BY <2>2 DEF Takes
  <2>5. LastIsRight'
    BY <2>2, <2>4 DEF LastIsRight, Right, Expected
  <2> QED
    BY <2>3, <2>5 DEF OrderInv, LayoutInv, ValuesComeInOrder
<1> QED
  BY <1>2, <1>3

\* A layout holds for any position at which a value begins.
LEMMA MovesLayout ==
    ASSUME TypeInv, NEW pos, Layout(pos), UNCHANGED <<m_buffer, added, marks>>,
           m_position' = pos[next']
    PROVE  Layout(pos)'
  BY DEF Layout

LEMMA InitOrder == Init => OrderInv
<1> SUFFICES ASSUME Init PROVE OrderInv
  OBVIOUS
<1>1. PICK pos : pos = [i \in 1 .. 1 |-> 0]
  OBVIOUS
<1>2. /\ m_buffer = <<>> /\ Len(m_buffer) = 0 /\ added = <<>> /\ Len(added) = 0
      /\ m_position = 0 /\ next = 1 /\ marks = <<0>> /\ got = <<>>
  BY DEF Init
<1>3. pos \in [1 .. 1 -> 0 .. 0] /\ pos[1] = 0 /\ \A i \in DOMAIN marks : marks[i] = pos[i]
  BY <1>1, <1>2
<1>4. Layout(pos)
  BY <1>2, <1>3 DEF Layout
<1> QED
  BY <1>2, <1>4 DEF OrderInv, LayoutInv, ValuesComeInOrder, LastIsRight

LEMMA OrderStep == TypeInv /\ OrderInv /\ [Next]_vars => OrderInv'
<1> SUFFICES ASSUME TypeInv, OrderInv, [Next]_vars PROVE OrderInv'
  OBVIOUS
<1>0. Fits => \E pos : Layout(pos)
  BY DEF OrderInv, LayoutInv
<1>1. CASE Appends
  <2>1. UNCHANGED <<got, selfAdded>>
    BY <1>1 DEF Appends, Adds
  <2>2. Fits' => Fits
    <3>1. PICK units \in Seq(Int) : m_buffer' = m_buffer \o units
      BY <1>1, UnitsType DEF Appends, Adds
    <3>2. m_buffer \in Seq(Int)
      BY DEF TypeInv, TypeOK
    <3>3. Len(m_buffer') = Len(m_buffer) + Len(units) /\ Len(units) \in Nat /\ Len(m_buffer) \in Nat
      BY <3>1, <3>2, ConcatProperties, LenProperties
    <3> QED
      BY <2>1, <3>3, BufferAssumption DEF Fits
  <2>3. LayoutInv'
    BY <1>0, <1>1, <2>2, AddsLayout DEF LayoutInv
  <2>4. LastIsRight => LastIsRight'
    BY <2>1 DEF LastIsRight, Expected
  <2> QED
    BY <2>2, <2>3, <2>4 DEF OrderInv, ValuesComeInOrder
<1>2. CASE AppendSelf
  BY <1>2 DEF AppendSelf, OrderInv, LayoutInv, ValuesComeInOrder, Fits
<1>3. CASE \/ ValueInt \/ ValueSize \/ ValueText \/ ValueMap
           \/ \E before \in {<<>>} \cup Vectors : ValueVector(before)
  BY <1>3, ReadStep
<1>4. CASE Clear
  BY <1>4, ClearIs, InitOrder, PTL
<1>5. ASSUME NEW value \in DOMAIN marks, SetPosition(value) PROVE OrderInv'
  <2>1. \A pos : Layout(pos) => Layout(pos)'
    <3> SUFFICES ASSUME NEW pos, Layout(pos) PROVE Layout(pos)'
      OBVIOUS
    <3>1. m_position' = pos[next'] /\ UNCHANGED <<m_buffer, added, marks>>
      BY <1>5 DEF SetPosition, Layout
    <3> QED
      BY <3>1, MovesLayout
  <2>2. UNCHANGED <<got, selfAdded, m_buffer>>
    BY <1>5 DEF SetPosition
  <2> QED
    BY <1>0, <2>1, <2>2
    DEF OrderInv, LayoutInv, ValuesComeInOrder, LastIsRight, Expected, Fits
<1>6. CASE Construct
  <2>1. \A pos : Layout(pos) => Layout(pos)'
    <3> SUFFICES ASSUME NEW pos, Layout(pos) PROVE Layout(pos)'
      OBVIOUS
    <3>1. m_position' = pos[next'] /\ UNCHANGED <<m_buffer, added, marks>>
      BY <1>6 DEF Construct, Layout
    <3> QED
      BY <3>1, MovesLayout
  <2>2. UNCHANGED <<got, selfAdded, m_buffer>>
    BY <1>6 DEF Construct
  <2> QED
    BY <1>0, <2>1, <2>2
    DEF OrderInv, LayoutInv, ValuesComeInOrder, LastIsRight, Expected, Fits
<1>7. CASE UNCHANGED vars
  BY <1>7
  DEF vars, OrderInv, LayoutInv, Layout, ValuesComeInOrder, LastIsRight, Expected, Fits
<1> QED
  BY <1>1, <1>2, <1>3, <1>4, <1>5, <1>6, <1>7, AppendCases DEF Next

\* However values of all kinds are added, taken out and gone back to, what is
\* taken out is what was added in its place, unless the buffer was added to
\* itself since it was last cleared or has more data than an unsigned int counts.
THEOREM ValuesAreInOrder == Spec => []ValuesComeInOrder
<1>1. OrderInv => ValuesComeInOrder
  BY DEF OrderInv
<1> QED
  BY <1>1, InitTypes, TypeStep, InitOrder, OrderStep, PTL DEF Spec
=============================================================================
