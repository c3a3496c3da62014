------------------------------ MODULE ByteBuf ------------------------------
(***************************************************************************)
(* A ByteBuffer that values are added to and taken out of: integers of one *)
(* size, size_t, texts, vectors and maps, each of which puts its size in   *)
(* front of its elements as an int.  An int and a char are one unit of the *)
(* buffer each.  m_position is an unsigned int and wraps around.           *)
(*                                                                         *)
(* The reader takes out what was added, type by type, as the example does; *)
(* a read beyond the end has no defined behaviour and is no step here.     *)
(***************************************************************************)
EXTENDS Integers, Sequences, FiniteSetsExt

CONSTANTS Ints,     \* values of type int
          Sizes,    \* values of type size_t
          Texts,    \* sequences of char, in which 0 is NUL
          Vectors,  \* sequences of int
          Maps,     \* functions from int to int
          Word,     \* 2^32, the values of int and of unsigned int
          LongWord, \* 2^64, the values of size_t
          LOG_TEXT_MAX_LEN,
          MaxItems  \* bound: values in the buffer

ASSUME BufferAssumption ==
    /\ Ints \subseteq Int /\ Sizes \subseteq Nat
    /\ Texts \subseteq Seq(Int) /\ Vectors \subseteq Seq(Int)
    /\ \A map \in Maps :
           /\ DOMAIN map \subseteq Int /\ IsFiniteSet(DOMAIN map)
           /\ map = [k \in DOMAIN map |-> map[k]] /\ \A k \in DOMAIN map : map[k] \in Int
    /\ Word \in Nat \ {0} /\ LongWord \in Nat /\ LongWord > Word
    /\ LOG_TEXT_MAX_LEN \in Nat \ {0} /\ MaxItems \in Nat

\* ByteBuffer.h:127, "The data must be within the sizeof(int)": an int can count
\* the elements of whatever is added.
ASSUME SizeAssumption ==
    /\ \A text \in Texts \cup Vectors : 2 * Len(text) < Word
    /\ \A map \in Maps : 2 * Cardinality(DOMAIN map) < Word

VARIABLES
    m_buffer,
    m_position,
    added,    \* the values added since the last Clear, with their kinds
    marks,    \* what Position was before each value the reader has got to
    next,     \* the value it takes out next
    got,      \* the last value taken out, and what was added in its place
    selfAdded \* the buffer has been added to itself

vars == <<m_buffer, m_position, added, marks, next, got, selfAdded>>

Init ==
    /\ m_buffer = <<>> /\ m_position = 0
    /\ added = <<>> /\ marks = <<0>> /\ next = 1
    /\ got = <<>> /\ selfAdded = FALSE

-----------------------------------------------------------------------------
(* Append and operator<<. *)

\* The program calls Append with a value of some kind.
Adds(kind, value, units) ==
    /\ Len(added) < MaxItems
    /\ added' = Append(added, [kind |-> kind, value |-> value])
    /\ m_buffer' = m_buffer \o units
    /\ UNCHANGED <<m_position, marks, next, got>>

\* static_cast<int> of a size_t.
ToInt(size) ==
    LET low == size % Word IN IF 2 * low < Word THEN low ELSE low - Word

\* And back, in the assignment of an int to a size_t.
ToSize(int) == IF int >= 0 THEN int ELSE int + LongWord

AppendInt(int) == Adds("int", int, <<int>>) /\ UNCHANGED selfAdded

AppendSize(size) == Adds("size", size, <<ToInt(size)>>) /\ UNCHANGED selfAdded

\* The part of a text in front of the first NUL.
CString(text) ==
    LET ends == {i \in DOMAIN text : text[i] = 0}
    IN IF ends = {} THEN text ELSE SubSeq(text, 1, Min(ends) - 1)

\* What a formatted text is cut to.
Formatted(text) ==
    SubSeq(text, 1, Min({Len(text), LOG_TEXT_MAX_LEN - 1}))

Sized(elements) == <<ToInt(Len(elements))>> \o elements

\* As a std::string or ByteBuffer, as a char *, or through the format "%s".
AppendText(text) ==
    /\ \/ Adds("string", text, Sized(text))
       \/ Adds("chars", text, Sized(CString(text)))
       \/ Adds("format", text, Sized(Formatted(CString(text))))
    /\ UNCHANGED selfAdded

\* Append(*this): the reference it is given sees the size that was added first.
AppendSelf ==
    /\ Adds("string", m_buffer, <<ToInt(Len(m_buffer))>> \o Append(m_buffer, ToInt(Len(m_buffer))))
    /\ selfAdded' = TRUE

AppendVector(vector) == Adds("vector", vector, Sized(vector)) /\ UNCHANGED selfAdded

\* The keys of a map in their order.
Keys(map) ==
    CHOOSE keys \in [1 .. Cardinality(DOMAIN map) -> DOMAIN map] :
        \A i, j \in DOMAIN keys : i < j => keys[i] < keys[j]

\* Each key, followed by its value.
Pairs(map) ==
    [i \in 1 .. 2 * Cardinality(DOMAIN map) |->
        LET key == Keys(map)[(i + 1) \div 2] IN IF i % 2 = 1 THEN key ELSE map[key]]

AppendMap(map) ==
    /\ Adds("map", map, <<ToInt(Cardinality(DOMAIN map))>> \o Pairs(map))
    /\ UNCHANGED selfAdded

-----------------------------------------------------------------------------
(* Value and operator>>. *)

\* Where a reader is that moves on by so many units.
After(units) == (m_position + units) % Word

\* The units [from, from + count) of the buffer are there.
Inside(from, count) == count >= 0 /\ from + count <= Len(m_buffer)

\* So many units from a position on.
Slice(from, count) == SubSeq(m_buffer, from + 1, from + count)

\* The size in front of what is taken out next.
size == m_buffer[m_position + 1]

\* The reader takes the next value, which was added as one of some kinds, into
\* a variable; the position moves on by so many units.
Takes(kinds, taken, units) ==
    /\ next <= Len(added) /\ added[next].kind \in kinds
    /\ got' = <<[kind |-> added[next].kind, taken |-> taken, added |-> added[next].value]>>
    /\ m_position' = After(units)
    /\ next' = next + 1
    /\ marks' = IF next = Len(marks) THEN Append(marks, After(units)) ELSE marks
    /\ UNCHANGED <<m_buffer, added, selfAdded>>

ValueInt ==
    /\ Inside(m_position, 1)
    /\ Takes({"int"}, m_buffer[m_position + 1], 1)

ValueSize ==
    /\ Inside(m_position, 1)
    /\ Takes({"size"}, ToSize(size), 1)

\* A mutant of ValueText: the position moves over the size only.
ValueTextStays ==
    /\ Inside(m_position, 1) /\ Inside(After(1), size)
    /\ Takes({"string", "chars", "format"}, Slice(After(1), size), 1)

\* Into a std::string or another ByteBuffer, or into a char *.
ValueText ==
    /\ Inside(m_position, 1) /\ Inside(After(1), size)
    /\ LET text == Slice(After(1), size)
       IN \/ Takes({"string", "chars", "format"}, text, 1 + size)
          \/ Takes({"chars", "format"}, CString(text), 1 + size)

\* The elements of a vector or map are read one by one: none if the size is
\* negative.  The i-th unit behind the size, and whether so many are there.
count == IF size > 0 THEN size ELSE 0
Unit(i) == m_buffer[After(i) + 1]
UnitsInside(n) == \A i \in 1 .. n : Inside(After(i), 1)

\* Into a vector that has some elements already, which stay.
ValueVector(before) ==
    /\ Inside(m_position, 1) /\ UnitsInside(count)
    /\ Takes({"vector"}, before \o [i \in 1 .. count |-> Unit(i)], 1 + count)

\* Into an empty map; insert leaves a key alone that is there.
ValueMap ==
    /\ Inside(m_position, 1) /\ UnitsInside(2 * count)
    /\ LET key(i) == Unit(2 * i - 1)
           first(k) == Min({i \in 1 .. count : key(i) = k})
       IN Takes({"map"},
                [k \in {key(i) : i \in 1 .. count} |-> Unit(2 * first(k))], 1 + 2 * count)

-----------------------------------------------------------------------------
(* Clear, SetPosition, and a buffer made of the data of another. *)

Clear ==
    /\ m_buffer' = <<>> /\ m_position' = 0
    /\ added' = <<>> /\ marks' = <<0>> /\ next' = 1
    /\ got' = <<>> /\ selfAdded' = FALSE

\* Back to what Position was.
SetPosition(value) ==
    /\ m_position' = marks[value] /\ next' = value
    /\ UNCHANGED <<m_buffer, added, marks, got, selfAdded>>

\* The same data in a new object, here or in another process.
Construct ==
    /\ m_position' = 0 /\ next' = 1
    /\ UNCHANGED <<m_buffer, added, marks, got, selfAdded>>

-----------------------------------------------------------------------------
Next ==
    \/ \E int \in Ints : AppendInt(int)
    \/ \E s \in Sizes : AppendSize(s)
    \/ \E text \in Texts : AppendText(text)
    \/ AppendSelf
    \/ \E vector \in Vectors : AppendVector(vector)
    \/ \E map \in Maps : AppendMap(map)
    \/ ValueInt \/ ValueSize \/ ValueText \/ ValueMap
    \/ \E before \in {<<>>} \cup Vectors : ValueVector(before)
    \/ Clear \/ Construct
    \/ \E value \in DOMAIN marks : SetPosition(value)

Spec == Init /\ [][Next]_vars

-----------------------------------------------------------------------------
(* Properties. *)

\* A value and its kind; the buffer itself is added as a string.
Item == [kind : {"int"}, value : Ints] \cup [kind : {"size"}, value : Sizes]
    \cup [kind : {"string"}, value : Seq(Int)] \cup [kind : {"chars", "format"}, value : Texts]
    \cup [kind : {"vector"}, value : Vectors] \cup [kind : {"map"}, value : Maps]

\* Type invariant.
TypeOK ==
    /\ m_buffer \in Seq(Int) /\ m_position \in 0 .. Len(m_buffer) /\ m_position < Word
    /\ added \in Seq(Item) /\ Len(added) <= MaxItems
    /\ next \in 1 .. Len(added) + 1
    /\ marks \in Seq(Nat) /\ Len(marks) \in next .. Len(added) + 1
    /\ selfAdded \in BOOLEAN

\* What a value comes out as: a text as a char * ends with its first NUL, a
\* formatted one is cut, and a size_t is what its int is.
Expected(item) ==
    CASE item.kind = "chars" -> {CString(item.added)}
      [] item.kind = "format" -> {Formatted(CString(item.added))}
      [] item.kind = "size" /\ 2 * item.added >= Word -> {ToSize(ToInt(item.added))}
      [] OTHER -> {item.added}

\* The value taken out last is what was added in its place; a vector keeps what
\* it had.
LastIsRight ==
    got # <<>> =>
        LET item == got[1]
        IN IF item.kind = "vector"
           THEN \E before \in {<<>>} \cup Vectors : item.taken = before \o item.added
           ELSE item.taken \in Expected(item)

\* The position can be anywhere in the data, and the buffer was not added to
\* itself.
Fits == ~selfAdded /\ Len(m_buffer) < Word

\* ByteBuffer.h:208, "Take them out in the order they are added": what is taken
\* out is what was added in its place, whatever the kinds and the order of
\* adding, taking and going back, as long as an unsigned int can count the data
\* and unless the buffer was added to itself.
ValuesComeInOrder == Fits => LastIsRight

\* The same of data that an unsigned int can count, for every call of Append that
\* ByteBuffer.h has, one with the buffer itself too.
OrderIsKept == Len(m_buffer) < Word => LastIsRight
=============================================================================
