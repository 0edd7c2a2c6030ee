------------------------- MODULE PackedCodecProofs -------------------------
(***************************************************************************)
(* Proofs about PackedCodec, for every width up to what a length code can  *)
(* count, every set of ids of twelve bits, of integers and of strings, and *)
(* documents of any length.                                                *)
(*                                                                         *)
(* The format: a header, an integer and a value are read back as they were *)
(* written wherever their bytes stand (HeaderIsReadBack, IntegerIsReadBack,*)
(* ValueIsReadBack).                                                       *)
(*                                                                         *)
(* The document: the items that were written stand in the buffer one       *)
(* behind the other (Layout), and the elements that are open behind each   *)
(* of them follow from the first (Nesting). Every write keeps both, and    *)
(* nothing else changes the buffer.                                        *)
(*                                                                         *)
(* parse_tree: it is at the start of an item and has what is before it     *)
(* (ParsedWell).                                                           *)
(*                                                                         *)
(* The decoder: it is at the start of an item, and what it remembers of    *)
(* the elements it is in are the starts of items, as many as are open      *)
(* there (ReadWell). Its loops stop where the stream's definitions say:    *)
(* behind the attributes of an element (RunIsReadBack), and at the end     *)
(* that starts and ends in between make the element's own (EndIsReadBack). *)
(* So every call is that call of the stream (ReadIsStream).                *)
(*                                                                         *)
(* Functions defined by recursion are shown to exist, and facts about all  *)
(* items by induction, from the least number that they do not hold for.    *)
(***************************************************************************)
EXTENDS PackedCodec, FiniteSetTheorems, SequenceTheorems, WellFoundedInduction, TLAPS

-----------------------------------------------------------------------------
(* Induction, over the set of the numbers a fact holds for *)

Less == {p \in Nat \X Nat : p[1] < p[2]}

\* A set of numbers with an element has a least one.
LEMMA LeastElement ==
    ASSUME NEW T, T \subseteq Nat, T # {}
    PROVE  \E m \in T : \A n \in T : m <= n
<1>1. IsWellFoundedOn(Less, Nat)
  BY NatLessThanWellFounded DEF OpToRel, Less
<1>2. PICK m \in T : \A n \in T : ~(<<n, m>> \in Less)
  BY <1>1, WFMin, Zenon
<1>3. ASSUME NEW n \in T, n < m PROVE FALSE
  <2>1. <<n, m>> \in Nat \X Nat /\ <<n, m>>[1] < <<n, m>>[2]
    BY <1>3
  <2>2. <<n, m>> \in Less
    BY <2>1, Zenon DEF Less
  <2> QED BY <2>2, <1>2
<1>4. \A n \in T : m <= n
  BY <1>3
<1> QED BY <1>4

LEMMA Induction ==
    ASSUME NEW N \in Nat, NEW T, 0 \in T,
           \A n \in 1..N : n - 1 \in T => n \in T
    PROVE  \A n \in 0..N : n \in T
<1> DEFINE Missed == {n \in 0..N : n \notin T}
<1>1. SUFFICES ASSUME Missed # {} PROVE FALSE
  OBVIOUS
<1>2. Missed \subseteq Nat
  OBVIOUS
<1>3. PICK m \in Missed : \A n \in Missed : m <= n
  BY <1>1, <1>2, LeastElement
<1>4. m \in 1..N /\ m \notin T
  BY <1>3
<1>5. m - 1 \in 0..N /\ m - 1 \notin Missed
  BY <1>3, <1>4
<1> QED BY <1>4, <1>5

\* The values of f are computed from a first one, each from the one before.
Solves(f, a, N, e) == f[0] = a /\ \A n \in 1..N : f[n] = e[n][f[n - 1]]

\* What is defined by recursion over an interval exists.
LEMMA Recursion ==
    ASSUME NEW D, NEW a \in D, NEW N \in Nat, NEW e \in [Nat -> [D -> D]]
    PROVE  \E f \in [0..N -> D] : Solves(f, a, N, e)
<1> DEFINE T == {k \in Nat : \E f \in [0..k -> D] : Solves(f, a, k, e)}
<1>1. 0 \in T
  <2>1. [n \in 0..0 |-> a] \in [0..0 -> D]
    OBVIOUS
  <2>2. Solves([n \in 0..0 |-> a], a, 0, e)
    BY DEF Solves
  <2> QED BY <2>1, <2>2
<1>2. ASSUME NEW k \in 1..N, k - 1 \in T PROVE k \in T
  <2>1. k \in Nat /\ k >= 1
    OBVIOUS
  <2>2. PICK f \in [0..(k - 1) -> D] : Solves(f, a, k - 1, e)
    BY <1>2
  <2> DEFINE g == [n \in 0..k |-> IF n = k THEN e[k][f[k - 1]] ELSE f[n]]
  <2>3. f[k - 1] \in D /\ e[k][f[k - 1]] \in D
    BY <2>1, <2>2
  <2>4. g \in [0..k -> D]
    BY <2>1, <2>2, <2>3
  <2>5. ASSUME NEW n \in 1..k PROVE g[n] = e[n][g[n - 1]]
    <3>1. n \in 0..k /\ n - 1 \in 0..k /\ n - 1 # k /\ g[n - 1] = f[n - 1]
      BY <2>1
    <3>2. CASE n = k
      BY <3>1, <3>2
    <3>3. CASE n # k
      <4>1. n \in 1..(k - 1) /\ g[n] = f[n]
        BY <3>1, <3>3, <2>1
      <4>2. f[n] = e[n][f[n - 1]]
        BY <4>1, <2>2 DEF Solves
      <4> QED BY <4>1, <4>2, <3>1
    <3> QED BY <3>2, <3>3
  <2>6. g[0] = a
    BY <2>1, <2>2 DEF Solves
  <2>7. Solves(g, a, k, e)
    BY <2>5, <2>6 DEF Solves
  <2> QED BY <2>1, <2>4, <2>7
<1> HIDE DEF T
<1>3. \A k \in 0..N : k \in T
  BY <1>1, <1>2, Induction
<1>4. N \in T
  BY <1>3
<1> QED BY <1>4 DEF T

LEMMA SolutionsAgree ==
    ASSUME NEW a, NEW e, NEW N \in Nat, NEW M \in Nat, N <= M, NEW f, NEW g,
           Solves(f, a, N, e), Solves(g, a, M, e)
    PROVE  \A n \in 0..N : f[n] = g[n]
<1> DEFINE T == {n \in Nat : f[n] = g[n]}
<1>1. 0 \in T
  BY DEF Solves
<1>2. ASSUME NEW n \in 1..N, n - 1 \in T PROVE n \in T
  <2>1. n \in 1..M /\ n \in Nat /\ f[n - 1] = g[n - 1]
    BY <1>2
  <2>2. f[n] = e[n][f[n - 1]] /\ g[n] = e[n][g[n - 1]]
    BY <2>1 DEF Solves
  <2> QED BY <2>1, <2>2
<1> HIDE DEF T
<1>3. \A n \in 0..N : n \in T
  BY <1>1, <1>2, Induction
<1> QED BY <1>3 DEF T

\* And over all numbers.
SolvesAll(f, a, e) == f[0] = a /\ \A n \in Nat \ {0} : f[n] = e[n][f[n - 1]]

LEMMA RecursionOnNat ==
    ASSUME NEW D, NEW a \in D, NEW e \in [Nat -> [D -> D]]
    PROVE  \E f \in [Nat -> D] : SolvesAll(f, a, e)
<1> DEFINE part(N) == CHOOSE f \in [0..N -> D] : Solves(f, a, N, e)
           f == [n \in Nat |-> part(n)[n]]
<1>1. ASSUME NEW N \in Nat PROVE part(N) \in [0..N -> D] /\ Solves(part(N), a, N, e)
  <2>1. \E g \in [0..N -> D] : Solves(g, a, N, e)
    BY Recursion
  <2> QED BY <2>1, Zenon
<1> HIDE DEF part
<1>2. f \in [Nat -> D]
  BY <1>1
<1>3. f[0] = a
  BY <1>1 DEF Solves
<1>4. ASSUME NEW n \in Nat \ {0} PROVE f[n] = e[n][f[n - 1]]
  <2>1. n - 1 \in Nat /\ n \in Nat /\ n - 1 <= n /\ n - 1 \in 0..(n - 1) /\ n \in 1..n
    OBVIOUS
  <2>2. Solves(part(n), a, n, e) /\ Solves(part(n - 1), a, n - 1, e)
    BY <1>1, <2>1
  <2>3. part(n - 1)[n - 1] = part(n)[n - 1]
    BY <2>1, <2>2, SolutionsAgree
  <2>4. part(n)[n] = e[n][part(n)[n - 1]]
    BY <2>1, <2>2 DEF Solves
  <2> QED BY <2>1, <2>3, <2>4
<1> HIDE DEF f
<1>5. SolvesAll(f, a, e)
  BY <1>3, <1>4 DEF SolvesAll
<1> QED BY <1>2, <1>5

-----------------------------------------------------------------------------
(* Powers *)

LEMMA PowersGrow ==
    ASSUME NEW b \in Nat \ {0}
    PROVE  /\ Powers(b) \in [Nat -> Nat \ {0}] /\ Powers(b)[0] = 1
           /\ \A n \in Nat \ {0} : Powers(b)[n] = b * Powers(b)[n - 1]
<1> DEFINE e == [n \in Nat |-> [x \in Nat \ {0} |-> b * x]]
           power == CHOOSE f : f = [n \in Nat |-> IF n = 0 THEN 1 ELSE b * f[n - 1]]
<1>0. \A x \in Nat \ {0} : b * x \in Nat \ {0}
  OBVIOUS
<1>1. e \in [Nat -> [Nat \ {0} -> Nat \ {0}]] /\ 1 \in Nat \ {0}
  BY <1>0
<1>2. PICK f \in [Nat -> Nat \ {0}] : SolvesAll(f, 1, e)
  <2> HIDE DEF e
  <2> DEFINE Positive == Nat \ {0}
  <2>1. e \in [Nat -> [Positive -> Positive]] /\ 1 \in Positive
    BY <1>1
  <2> HIDE DEF Positive
  <2>2. \E f \in [Nat -> Positive] : SolvesAll(f, 1, e)
    BY <2>1, RecursionOnNat
  <2> QED BY <2>2 DEF Positive
<1>3. ASSUME NEW n \in Nat \ {0} PROVE f[n] = b * f[n - 1]
  <2>1. n - 1 \in Nat /\ f[n - 1] \in Nat \ {0}
    OBVIOUS
  <2>2. e[n][f[n - 1]] = b * f[n - 1]
    BY <2>1
  <2> HIDE DEF e
  <2> QED BY <2>2, <1>2 DEF SolvesAll
<1>4. f[0] = 1
  <2> HIDE DEF e
  <2> QED BY <1>2 DEF SolvesAll
<1>5. f = [n \in Nat |-> IF n = 0 THEN 1 ELSE b * f[n - 1]]
  BY <1>3, <1>4
<1>6. power = [n \in Nat |-> IF n = 0 THEN 1 ELSE b * power[n - 1]]
  BY <1>5, Zenon
<1>7. Powers(b) = power
  BY DEF Powers
<1> HIDE DEF power
<1> DEFINE T == {n \in Nat : power[n] \in Nat \ {0}}
<1>8. ASSUME NEW N \in Nat PROVE power[N] \in Nat \ {0}
  <2>1. 0 \in T
    BY <1>6
  <2>2. ASSUME NEW n \in 1..N, n - 1 \in T PROVE n \in T
    <3>1. n \in Nat \ {0} /\ power[n - 1] \in Nat \ {0}
      BY <2>2
    <3>2. power[n] = b * power[n - 1]
      BY <3>1, <1>6
    <3> QED BY <3>1, <3>2, <1>0
  <2> HIDE DEF T
  <2>3. \A n \in 0..N : n \in T
    BY <2>1, <2>2, Induction
  <2>4. N \in T
    BY <2>3
  <2> QED BY <2>4 DEF T
<1>9. power \in [Nat -> Nat \ {0}]
  BY <1>6, <1>8
<1>10. power[0] = 1 /\ \A n \in Nat \ {0} : power[n] = b * power[n - 1]
  BY <1>6
<1> QED BY <1>7, <1>9, <1>10

LEMMA Radixes ==
    /\ \A n \in Nat : Radix[n] \in Nat \ {0} /\ Radix[n + 1] = 128 * Radix[n]
    /\ Radix[0] = 1
<1>1. /\ Radix \in [Nat -> Nat \ {0}] /\ Radix[0] = 1
      /\ \A n \in Nat \ {0} : Radix[n] = 128 * Radix[n - 1]
  BY PowersGrow DEF Radix
<1>2. \A n \in Nat : n + 1 \in Nat \ {0} /\ (n + 1) - 1 = n
  OBVIOUS
<1> QED BY <1>1, <1>2

LEMMA Powers2 ==
    /\ \A n \in Nat : Power2[n] \in Nat \ {0} /\ Power2[n + 1] = 2 * Power2[n]
    /\ Power2[0] = 1
<1>1. /\ Power2 \in [Nat -> Nat \ {0}] /\ Power2[0] = 1
      /\ \A n \in Nat \ {0} : Power2[n] = 2 * Power2[n - 1]
  BY PowersGrow DEF Power2
<1>2. \A n \in Nat : n + 1 \in Nat \ {0} /\ (n + 1) - 1 = n
  OBVIOUS
<1> QED BY <1>1, <1>2

LEMMA RadixMonotone ==
    ASSUME NEW n \in Nat, NEW m \in Nat, n <= m
    PROVE  Radix[n] <= Radix[m]
<1> DEFINE T == {d \in Nat : Radix[n] <= Radix[n + d]}
<1>1. 0 \in T
  BY Radixes
<1>2. ASSUME NEW d \in 1..(m - n), d - 1 \in T PROVE d \in T
  <2>1. d \in Nat /\ n + (d - 1) \in Nat /\ (n + (d - 1)) + 1 = n + d
    OBVIOUS
  <2>2. Radix[n + d] = 128 * Radix[n + (d - 1)] /\ Radix[n + (d - 1)] \in Nat
    BY <2>1, Radixes
  <2>3. Radix[n] <= Radix[n + (d - 1)] /\ Radix[n] \in Nat
    BY <1>2, Radixes
  <2> QED BY <2>1, <2>2, <2>3
<1>3. m - n \in Nat /\ n + (m - n) = m
  OBVIOUS
<1> HIDE DEF T
<1>4. \A d \in 0..(m - n) : d \in T
  BY <1>1, <1>2, <1>3, Induction
<1>5. m - n \in T
  BY <1>3, <1>4
<1> QED BY <1>3, <1>5 DEF T

\* The widest integer fits in MaxLength raw bytes, a number of four bits.
LEMMA LimitFits ==
    /\ MaxLength \in 1..15
    /\ Limit \in Nat \ {0}
    /\ Limit <= Radix[MaxLength]
<1>1. MaxLength \in 1..15 /\ Width \in Nat /\ Width <= 7 * MaxLength
  BY WidthAssumption DEF MaxLength
<1>2. Limit \in Nat \ {0}
  BY <1>1, Powers2 DEF Limit
<1> DEFINE T == {k \in Nat : Power2[7 * k] = Radix[k]}
<1>3. 0 \in T
  BY Powers2, Radixes
<1>4. ASSUME NEW k \in 1..MaxLength, k - 1 \in T PROVE k \in T
  <2> DEFINE w == 7 * (k - 1)
  <2>1. w \in Nat /\ k - 1 \in Nat /\ (k - 1) + 1 = k /\ 7 * k = w + 7
    OBVIOUS
  <2> HIDE DEF w
  <2>2. /\ Power2[w + 1] = 2 * Power2[w]
        /\ Power2[w + 2] = 2 * Power2[w + 1]
        /\ Power2[w + 3] = 2 * Power2[w + 2]
        /\ Power2[w + 4] = 2 * Power2[w + 3]
        /\ Power2[w + 5] = 2 * Power2[w + 4]
        /\ Power2[w + 6] = 2 * Power2[w + 5]
        /\ Power2[w + 7] = 2 * Power2[w + 6]
        /\ Power2[w] \in Nat
    <3>1. \A d \in Nat : w + d \in Nat /\ Power2[(w + d) + 1] = 2 * Power2[w + d]
      BY <2>1, Powers2
    <3>2. /\ (w + 0) + 1 = w + 1 /\ (w + 1) + 1 = w + 2 /\ (w + 2) + 1 = w + 3
          /\ (w + 3) + 1 = w + 4 /\ (w + 4) + 1 = w + 5 /\ (w + 5) + 1 = w + 6
          /\ (w + 6) + 1 = w + 7 /\ w + 0 = w
      BY <2>1
    <3> QED BY <3>1, <3>2, <2>1, Powers2
  <2>3. Power2[w + 7] = 128 * Power2[w]
    BY <2>2
  <2>4. Power2[w] = Radix[k - 1]
    BY <1>4 DEF w
  <2>5. Radix[k] = 128 * Radix[k - 1]
    BY <2>1, Radixes
  <2> QED BY <2>1, <2>3, <2>4, <2>5
<1>5. Power2[7 * MaxLength] = Radix[MaxLength]
  <2> HIDE DEF T
  <2>1. \A k \in 0..MaxLength : k \in T
    BY <1>1, <1>3, <1>4, Induction
  <2>2. MaxLength \in T
    BY <2>1, <1>1
  <2> QED BY <2>2 DEF T
<1> DEFINE U == {d \in Nat : Limit <= Power2[Width + d]}
           rest == 7 * MaxLength - Width
<1>6. 0 \in U
  BY <1>1, <1>2, Powers2 DEF Limit
<1>7. ASSUME NEW d \in 1..rest, d - 1 \in U PROVE d \in U
  <2>1. d \in Nat /\ Width + (d - 1) \in Nat /\ (Width + (d - 1)) + 1 = Width + d
    BY <1>1
  <2>2. Power2[Width + d] = 2 * Power2[Width + (d - 1)] /\ Power2[Width + (d - 1)] \in Nat
    BY <2>1, Powers2
  <2>3. Limit <= Power2[Width + (d - 1)]
    BY <1>7
  <2> QED BY <2>1, <2>2, <2>3, <1>2
<1>8. rest \in Nat /\ Width + rest = 7 * MaxLength
  BY <1>1
<1> HIDE DEF T, U, rest
<1>9. \A d \in 0..rest : d \in U
  BY <1>6, <1>7, <1>8, Induction
<1>10. rest \in U
  BY <1>8, <1>9
<1>11. Limit <= Power2[Width + rest]
  BY <1>10 DEF U
<1> QED BY <1>1, <1>2, <1>5, <1>8, <1>11

\* The number of raw bytes is the least that the integer fits in.
LEMMA LenCodeFits ==
    ASSUME NEW val \in Nat, val < Limit
    PROVE  /\ LenCode(val) \in 0..15
           /\ val < Radix[LenCode(val)]
<1> DEFINE Enough == {n \in 0..MaxLength : val < Radix[n]}
<1>1. MaxLength \in Enough /\ MaxLength \in 1..15
  BY LimitFits, Radixes
<1>2. PICK m \in Enough : \A n \in Enough : m <= n
  <2>1. Enough \subseteq Nat /\ Enough # {}
    BY <1>1
  <2> HIDE DEF Enough
  <2> QED BY <2>1, LeastElement
<1>3. m \in 0..MaxLength /\ val < Radix[m] /\ m \in Nat
  BY <1>1, <1>2
<1>4. {n \in 0..(MaxLength - 1) : val >= Radix[n]} = 0..(m - 1)
  <2>1. ASSUME NEW n \in 0..(MaxLength - 1), val >= Radix[n] PROVE n \in 0..(m - 1)
    <3>1. n \in Nat /\ Radix[n] \in Nat /\ Radix[m] \in Nat
      BY <1>1, <1>3, Radixes
    <3>2. ~(m <= n)
      BY <2>1, <3>1, <1>3, RadixMonotone
    <3> QED BY <3>1, <3>2, <1>3
  <2>2. ASSUME NEW n \in 0..(m - 1) PROVE n \in 0..(MaxLength - 1) /\ val >= Radix[n]
    <3>1. n \in 0..(MaxLength - 1) /\ n \in 0..MaxLength /\ n \in Nat /\ ~(m <= n)
      BY <1>1, <1>3
    <3>2. ~(val < Radix[n]) /\ Radix[n] \in Nat
      BY <3>1, <1>2, Radixes
    <3> QED BY <3>1, <3>2
  <2> QED BY <2>1, <2>2
<1>5. Cardinality(0..(m - 1)) = m
  BY <1>3, FS_Interval
<1>6. LenCode(val) = m
  BY <1>4, <1>5 DEF LenCode
<1> QED BY <1>1, <1>3, <1>6

Kinds == {ELEMENT_START, ELEMENT_END, ATTRIBUTE}

(* Headers *)

LEMMA ShortId ==
    ASSUME NEW k \in {64, 128, 192}, NEW id \in Nat, id < 32
    PROVE  /\ (k + id) \div 64 = k \div 64 /\ (k \div 64) * 64 = k
           /\ ((k + id) \div 32) % 2 = 0
           /\ (k + id) % 32 = id
OBVIOUS

LEMMA LongId ==
    ASSUME NEW k \in {64, 128, 192}, NEW high \in Nat, high < 32
    PROVE  /\ (k + 32 + high) \div 64 = k \div 64 /\ (k \div 64) * 64 = k
           /\ ((k + 32 + high) \div 32) % 2 = 1
           /\ (k + 32 + high) % 32 = high
OBVIOUS

LEMMA Halves ==
    ASSUME NEW id \in Nat, id < 4096
    PROVE  /\ id \div 128 \in Nat /\ id \div 128 < 32
           /\ id % 128 \in Nat /\ id % 128 < 128
           /\ ((id % 128) + 128) % 128 = id % 128
           /\ ((id \div 128) * 128) + (id % 128) = id
OBVIOUS

\* Bytes stand in the data at a position.
Stands(data, start, bytes) ==
    /\ start \in Nat
    /\ start + Len(bytes) <= Len(data)
    /\ \A i \in 1..Len(bytes) : data[start + i] = bytes[i]

\* Wherever a header that _header wrote (packed.py:67-72) stands in the data of
\* a decoder, its kind, its id and its end are read as they were written
\* (_read_id, packed.py:156-164), for every id of twelve bits.
THEOREM HeaderIsReadBack ==
    ASSUME NEW data, Len(data) \in Nat, NEW start, NEW k \in Kinds,
           NEW id \in Nat, id < 4096, Stands(data, start, Header(k, id))
    PROVE  /\ Kind(data, start) = k
           /\ ReadId(data, start) = id
           /\ IdEnd(data, start) = start + Len(Header(k, id))
<1>1. start \in Nat
  BY DEF Stands
<1>2. k \in {64, 128, 192}
  BY DEF Kinds, ELEMENT_START, ELEMENT_END, ATTRIBUTE
<1>3. CASE id <= 31
  <2>1. id < 32
    BY <1>3
  <2>2. Header(k, id) = <<k + id>>
    BY <1>3 DEF Header
  <2>3. start < Len(data) /\ Byte(data, start) = k + id
    <3>1. Len(Header(k, id)) = 1 /\ Header(k, id)[1] = k + id
      BY <2>2
    <3>2. start + 1 <= Len(data) /\ data[start + 1] = k + id
      BY <3>1 DEF Stands
    <3> QED BY <1>1, <3>2 DEF Byte
  <2>4. /\ (k + id) \div 64 = k \div 64 /\ (k \div 64) * 64 = k
        /\ ((k + id) \div 32) % 2 = 0
        /\ (k + id) % 32 = id
    BY <1>2, <2>1, ShortId
  <2> DEFINE byte == k + id
  <2>5. /\ (byte \div 64) * 64 = k
        /\ (byte \div 32) % 2 = 0
        /\ byte % 32 = id
    BY <2>4
  <2>6. Byte(data, start) = byte
    BY <2>3
  <2> HIDE DEF byte
  <2>7. ~Extended(data, start)
    BY <2>5, <2>6 DEF Extended, HEADEREXTEND
  <2>8. Kind(data, start) = k
    BY <2>3, <2>5, <2>6 DEF Kind
  <2>9. ReadId(data, start) = id
    BY <2>5, <2>6, <2>7 DEF ReadId
  <2>10. Len(Header(k, id)) = 1
    BY <2>2
  <2> QED BY <1>1, <2>7, <2>8, <2>9, <2>10 DEF IdEnd
<1>4. CASE id > 31
  <2> DEFINE high == id \div 128
             low  == id % 128
  <2>1. high \in Nat /\ high < 32
    BY Halves
  <2>2. /\ low \in Nat /\ low < 128
        /\ (low + 128) % 128 = low /\ (high * 128) + low = id
    BY Halves
  <2>3. Header(k, id) = <<k + 32 + high, low + 128>>
    BY <1>4 DEF Header, HEADEREXTEND
  <2>4. /\ start < Len(data)
        /\ Byte(data, start) = k + 32 + high
        /\ Byte(data, start + 1) = low + 128
    <3>1. /\ Len(Header(k, id)) = 2
          /\ Header(k, id)[1] = k + 32 + high
          /\ Header(k, id)[2] = low + 128
      BY <2>3
    <3>2. /\ start + 2 <= Len(data)
          /\ data[start + 1] = k + 32 + high
          /\ data[start + 2] = low + 128
      BY <3>1 DEF Stands
    <3> QED BY <1>1, <3>2 DEF Byte
  <2> HIDE DEF high, low
  <2>5. /\ (k + 32 + high) \div 64 = k \div 64 /\ (k \div 64) * 64 = k
        /\ ((k + 32 + high) \div 32) % 2 = 1
        /\ (k + 32 + high) % 32 = high
    BY <1>2, <2>1, LongId
  <2> DEFINE byte == k + 32 + high
  <2>6. /\ (byte \div 64) * 64 = k
        /\ (byte \div 32) % 2 = 1
        /\ byte % 32 = high
    BY <2>5
  <2>7. Byte(data, start) = byte
    BY <2>4
  <2> HIDE DEF byte
  <2>8. Extended(data, start)
    BY <2>6, <2>7 DEF Extended, HEADEREXTEND
  <2>9. Kind(data, start) = k
    BY <2>4, <2>6, <2>7 DEF Kind
  <2>10. ReadId(data, start) = id
    BY <2>2, <2>4, <2>6, <2>7, <2>8 DEF ReadId
  <2>11. Len(Header(k, id)) = 2
    BY <2>3
  <2> QED BY <1>1, <2>8, <2>9, <2>10, <2>11 DEF IdEnd
<1> QED BY <1>3, <1>4

-----------------------------------------------------------------------------
(* Payloads: sequences of bytes that are not zero *)

Payload == Seq(1..255)

LEMMA HeaderBytes ==
    ASSUME NEW k \in Kinds, NEW id \in Ids
    PROVE  Header(k, id) \in Payload
<1> id \in 1..4095
  BY DEF Ids
<1>1. k \in {64, 128, 192}
  BY DEF Kinds, ELEMENT_START, ELEMENT_END, ATTRIBUTE
<1>2. id \div 128 \in 0..31 /\ id % 128 \in 0..127
  BY Halves
<1>3. CASE id <= 31
  <2>1. Header(k, id) = <<k + id>> /\ k + id \in 1..255
    BY <1>1, <1>3 DEF Header
  <2> QED BY <2>1 DEF Payload
<1>4. CASE id > 31
  <2>1. Header(k, id) = <<k + 32 + (id \div 128), (id % 128) + 128>>
    BY <1>4 DEF Header, HEADEREXTEND
  <2>2. k + 32 + (id \div 128) \in 1..255 /\ (id % 128) + 128 \in 1..255
    BY <1>1, <1>2
  <2> QED BY <2>1, <2>2 DEF Payload
<1> QED BY <1>3, <1>4

LEMMA AllKinds == ELEMENT_START \in Kinds /\ ELEMENT_END \in Kinds /\ ATTRIBUTE \in Kinds
BY DEF Kinds

\* A raw byte has its marker.
LEMMA RawByte ==
    ASSUME NEW val \in Nat, NEW r \in Nat \ {0}
    PROVE  ((val \div r) % 128) + 128 \in 1..255
OBVIOUS

LEMMA LenCodeType ==
    ASSUME NEW val
    PROVE  LenCode(val) \in 0..MaxLength
<1> DEFINE Reached == {n \in 0..(MaxLength - 1) : val >= Radix[n]}
<1>1. MaxLength \in Nat
  BY LimitFits
<1>2. IsFiniteSet(0..(MaxLength - 1)) /\ Cardinality(0..(MaxLength - 1)) = MaxLength
  BY <1>1, FS_Interval
<1>3. Cardinality(Reached) \in Nat /\ Cardinality(Reached) <= MaxLength
  BY <1>2, FS_Subset, FS_CardinalityType
<1> QED BY <1>1, <1>3 DEF LenCode

LEMMA TuplesAreSequences ==
    ASSUME NEW S, NEW n \in Nat
    PROVE  [1..n -> S] \subseteq Seq(S)
BY SeqDef

LEMMA IntegerBytes ==
    ASSUME NEW code \in 1..7, NEW val \in Nat
    PROVE  Integer(code, val) \in Payload
<1> DEFINE n == LenCode(val)
<1>1. n \in 0..MaxLength /\ MaxLength \in 0..15
  BY LenCodeType, LimitFits
<1>2. TypeByte(code, n) \in 1..255
  BY <1>1 DEF TypeByte
<1>3. ASSUME NEW i \in 1..n
      PROVE  ((val \div Radix[n - i]) % 128) + 128 \in 1..255
  <2>1. Radix[n - i] \in Nat \ {0}
    BY <1>1, Radixes
  <2> QED BY <2>1, RawByte
<1>4. Digits(val, n) \in Payload
  <2>1. Digits(val, n) \in [1..n -> 1..255]
    BY <1>3 DEF Digits
  <2>2. n \in Nat
    BY <1>1
  <2>3. [1..n -> 1..255] \subseteq Seq(1..255)
    BY <2>2, TuplesAreSequences
  <2> QED BY <2>1, <2>3 DEF Payload
<1> QED BY <1>2, <1>4 DEF Integer, Payload

-----------------------------------------------------------------------------
(* Integers *)

\* The quotient is the number whose multiples bound the dividend.
LEMMA Quotient ==
    ASSUME NEW a \in Nat, NEW b \in Nat \ {0}
    PROVE  /\ a \div b \in Nat
           /\ (a \div b) * b <= a /\ a < ((a \div b) + 1) * b
OBVIOUS

LEMMA QuotientUnique ==
    ASSUME NEW a \in Nat, NEW b \in Nat \ {0}, NEW h \in Nat,
           h * b <= a, a < (h + 1) * b
    PROVE  a \div b = h
<1> DEFINE q == a \div b
<1>1. q \in Nat /\ q * b <= a /\ a < (q + 1) * b
  BY Quotient
<1> HIDE DEF q
<1>2. ASSUME NEW x \in Nat, NEW y \in Nat, x < y PROVE (x + 1) * b <= y * b
  <2>1. y - (x + 1) \in Nat
    BY <1>2
  <2>2. (y - (x + 1)) * b >= 0
    BY <2>1
  <2>3. y * b = (x + 1) * b + (y - (x + 1)) * b
    BY <2>1
  <2>4. (x + 1) * b \in Nat /\ y * b \in Nat /\ (y - (x + 1)) * b \in Nat
    BY <2>1
  <2> QED BY <2>2, <2>3, <2>4
<1>3. ~(q < h)
  <2>1. (q + 1) * b \in Nat /\ h * b \in Nat
    BY <1>1
  <2> QED BY <1>1, <1>2, <2>1
<1>4. ~(h < q)
  <2>1. (h + 1) * b \in Nat /\ q * b \in Nat
    BY <1>1
  <2> QED BY <1>1, <1>2, <2>1
<1> QED BY <1>1, <1>3, <1>4 DEF q

\* Seven more bits of a number.
LEMMA NextDigit ==
    ASSUME NEW val \in Nat, NEW r \in Nat \ {0}
    PROVE  ((val \div (128 * r)) * 128) + ((val \div r) % 128) = val \div r
<1> DEFINE q == val \div r
           h == q \div 128
           d == q % 128
<1>1. q \in Nat /\ q * r <= val /\ val < (q + 1) * r
  BY Quotient
<1> HIDE DEF q
<1>2. h \in Nat /\ d \in 0..127 /\ q = 128 * h + d
  BY <1>1
<1> HIDE DEF h, d
<1>3. q * r = h * (128 * r) + d * r /\ (q + 1) * r = h * (128 * r) + (d + 1) * r
  BY <1>2
<1>4. d * r \in Nat /\ (d + 1) * r <= 128 * r
  <2>1. (127 - d) * r \in Nat
    BY <1>2
  <2>2. 128 * r = (d + 1) * r + (127 - d) * r
    BY <1>2
  <2> QED BY <1>2, <2>1, <2>2
<1>5. h * (128 * r) \in Nat /\ (h + 1) * (128 * r) = h * (128 * r) + 128 * r
  BY <1>2
<1>6. h * (128 * r) <= val /\ val < (h + 1) * (128 * r)
  BY <1>1, <1>3, <1>4, <1>5, <1>2
<1>7. 128 * r \in Nat \ {0}
  OBVIOUS
<1>8. val \div (128 * r) = h
  BY <1>2, <1>6, <1>7, QuotientUnique
<1> QED BY <1>2, <1>8 DEF q, h, d

LEMMA ByteType ==
    ASSUME NEW data \in Payload, NEW p \in Nat
    PROVE  Byte(data, p) \in 0..255
<1>1. CASE p < Len(data)
  <2>1. p + 1 \in 1..Len(data) /\ data \in Seq(1..255)
    BY <1>1 DEF Payload
  <2>2. data[p + 1] \in 1..255
    BY <2>1, ElementOfSeq, Zenon
  <2> QED BY <1>1, <2>2 DEF Byte
<1>2. CASE ~(p < Len(data))
  BY <1>2 DEF Byte
<1> QED BY <1>1, <1>2

\* Each step of _read_integer takes one more byte.
Accumulates(f, data, start, length) ==
    /\ f[0] = 0
    /\ \A n \in 1..length : f[n] = (f[n - 1] * 128) + (Byte(data, start + n - 1) % 128)

LEMMA ReadIntegerSteps ==
    ASSUME NEW data \in Payload, NEW start \in Nat, NEW length \in Nat
    PROVE  \E f \in [0..length -> Nat] :
               /\ Accumulates(f, data, start, length)
               /\ ReadInteger(data, start, length) = f[length]
<1> DEFINE bits(n) == Byte(data, start + n - 1) % 128
           e == [n \in Nat |-> [x \in Nat |-> IF n = 0 THEN x ELSE (x * 128) + bits(n)]]
           res == CHOOSE f : f = [n \in 0..length |->
                      IF n = 0 THEN 0 ELSE (f[n - 1] * 128) + bits(n)]
<1>1. \A n \in Nat \ {0} : bits(n) \in Nat
  <2> SUFFICES ASSUME NEW n \in Nat \ {0} PROVE bits(n) \in Nat
    OBVIOUS
  <2>1. Byte(data, start + n - 1) \in 0..255
    BY ByteType
  <2> QED BY <2>1
<1>0. ReadInteger(data, start, length) = res[length]
  BY DEF ReadInteger
<1> HIDE DEF bits
<1>2. e \in [Nat -> [Nat -> Nat]]
  BY <1>1
<1>3. \E f \in [0..length -> Nat] : Solves(f, 0, length, e)
  <2> HIDE DEF e
  <2> QED BY <1>2, Recursion
<1>4. PICK f \in [0..length -> Nat] : Solves(f, 0, length, e)
  BY <1>3
<1>5. f[0] = 0 /\ \A n \in 1..length : f[n] = e[n][f[n - 1]]
  BY <1>4 DEF Solves
<1>6. ASSUME NEW n \in 1..length PROVE f[n] = (f[n - 1] * 128) + bits(n)
  <2>1. n \in Nat /\ n # 0 /\ f[n - 1] \in Nat
    OBVIOUS
  <2>2. e[n][f[n - 1]] = (f[n - 1] * 128) + bits(n)
    BY <2>1
  <2> QED BY <1>5, <2>2
<1>7. f = [n \in 0..length |-> IF n = 0 THEN 0 ELSE (f[n - 1] * 128) + bits(n)]
  BY <1>5, <1>6
<1>8. res = [n \in 0..length |-> IF n = 0 THEN 0 ELSE (res[n - 1] * 128) + bits(n)]
  BY <1>7, Zenon
<1> HIDE DEF res
<1>9. res[0] = 0 /\ \A n \in 1..length : res[n] = (res[n - 1] * 128) + bits(n)
  BY <1>8
<1> DEFINE T == {n \in Nat : res[n] = f[n]}
<1>10. 0 \in T
  BY <1>5, <1>9
<1>11. ASSUME NEW n \in 1..length, n - 1 \in T PROVE n \in T
  BY <1>11, <1>6, <1>9
<1> HIDE DEF T
<1>12. \A n \in 0..length : n \in T
  BY <1>10, <1>11, Induction
<1>13. res[length] = f[length]
  <2>1. length \in T
    BY <1>12
  <2> QED BY <2>1 DEF T
<1>14. Accumulates(f, data, start, length)
  BY <1>5, <1>6 DEF Accumulates, bits
<1> QED BY <1>0, <1>13, <1>14

LEMMA ReadIntegerType ==
    ASSUME NEW data \in Payload, NEW start \in Nat, NEW length \in Nat
    PROVE  ReadInteger(data, start, length) \in Nat
<1>1. PICK f \in [0..length -> Nat] : ReadInteger(data, start, length) = f[length]
  BY ReadIntegerSteps
<1> QED BY <1>1

\* Wherever the raw bytes of an integer stand, _read_integer (packed.py:166-171)
\* gives back the integer that _integer (packed.py:74-87) made them of.
THEOREM IntegerIsReadBack ==
    ASSUME NEW data \in Payload, NEW start \in Nat, NEW n \in Nat,
           NEW val \in Nat, val < Radix[n], Stands(data, start, Digits(val, n))
    PROVE  ReadInteger(data, start, n) = val
<1>1. PICK f \in [0..n -> Nat] : Accumulates(f, data, start, n)
                                 /\ ReadInteger(data, start, n) = f[n]
  BY ReadIntegerSteps
<1>2. /\ f[0] = 0
      /\ \A k \in 1..n : f[k] = (f[k - 1] * 128) + (Byte(data, start + k - 1) % 128)
  BY <1>1 DEF Accumulates
<1>3. /\ start + n <= Len(data)
      /\ \A k \in 1..n : data[start + k] = ((val \div Radix[n - k]) % 128) + 128
  <2>1. Digits(val, n) = [i \in 1..n |-> ((val \div Radix[n - i]) % 128) + 128]
    BY DEF Digits
  <2>2. Len(Digits(val, n)) = n
    BY <2>1
  <2> QED BY <2>1, <2>2 DEF Stands
<1> DEFINE T == {k \in Nat : f[k] = val \div Radix[n - k]}
<1>4. 0 \in T
  <2>1. Radix[n] \in Nat \ {0} /\ n - 0 = n
    BY Radixes
  <2>2. val \div Radix[n] = 0
    BY <2>1, QuotientUnique
  <2> QED BY <1>2, <2>1, <2>2
<1>5. ASSUME NEW k \in 1..n, k - 1 \in T PROVE k \in T
  <2> DEFINE r == Radix[n - k]
             d == (val \div r) % 128
  <2>1. n - k \in Nat /\ (n - k) + 1 = n - (k - 1) /\ k \in Nat
    OBVIOUS
  <2>2. r \in Nat \ {0} /\ Radix[n - (k - 1)] = 128 * r
    BY <2>1, Radixes
  <2>3. f[k - 1] = val \div (128 * r)
    BY <1>5, <2>2
  <2>4. val \div r \in Nat
    BY <2>2, Quotient
  <2>5. Byte(data, start + k - 1) = d + 128
    <3>1. start + k - 1 < Len(data) /\ (start + k - 1) + 1 = start + k
      BY <1>3, <2>1
    <3> QED BY <3>1, <1>3 DEF Byte
  <2>6. (d + 128) % 128 = d
    BY <2>4
  <2>7. f[k] = ((val \div (128 * r)) * 128) + d
    BY <1>2, <2>3, <2>5, <2>6
  <2>8. f[k] = val \div r
    BY <2>2, <2>7, NextDigit
  <2> QED BY <2>1, <2>8
<1> HIDE DEF T
<1>6. \A k \in 0..n : k \in T
  BY <1>4, <1>5, Induction
<1>7. f[n] = val \div Radix[0]
  <2>1. n \in T /\ n - n = 0
    BY <1>6
  <2> QED BY <2>1 DEF T
<1>8. val \div 1 = val
  OBVIOUS
<1> QED BY <1>1, <1>7, <1>8, Radixes

LEMMA StandsSplit ==
    ASSUME NEW data, Len(data) \in Nat, NEW start, NEW a \in Payload, NEW b \in Payload,
           Stands(data, start, a \o b)
    PROVE  Stands(data, start, a) /\ Stands(data, start + Len(a), b)
<1>1. /\ a \o b \in Payload /\ Len(a \o b) = Len(a) + Len(b)
      /\ Len(a) \in Nat /\ Len(b) \in Nat
  BY DEF Payload
<1>2. ASSUME NEW i \in 1..Len(a) PROVE data[start + i] = a[i]
  <2>1. i \in 1..Len(a \o b) /\ (a \o b)[i] = a[i]
    BY <1>1 DEF Payload
  <2> QED BY <2>1 DEF Stands
<1>3. ASSUME NEW i \in 1..Len(b) PROVE data[start + Len(a) + i] = b[i]
  <2>1. Len(a) + i \in 1..Len(a \o b) /\ (a \o b)[Len(a) + i] = b[i]
    BY <1>1 DEF Payload
  <2>2. start + (Len(a) + i) = start + Len(a) + i
    BY <1>1 DEF Stands
  <2> QED BY <2>1, <2>2 DEF Stands
<1>4. start \in Nat /\ start + Len(a) \in Nat /\ start + Len(a) + Len(b) <= Len(data)
  BY <1>1 DEF Stands
<1> QED BY <1>1, <1>2, <1>3, <1>4 DEF Stands

LEMMA StandsInMore ==
    ASSUME NEW data \in Payload, NEW more \in Payload, NEW start, NEW bytes \in Payload,
           Stands(data, start, bytes)
    PROVE  Stands(data \o more, start, bytes)
<1>1. /\ start \in Nat /\ start + Len(bytes) <= Len(data) /\ Len(bytes) \in Nat
      /\ Len(data) \in Nat /\ Len(more) \in Nat
      /\ Len(data \o more) = Len(data) + Len(more)
  BY DEF Stands, Payload
<1>2. ASSUME NEW i \in 1..Len(bytes) PROVE (data \o more)[start + i] = bytes[i]
  <2>1. start + i \in 1..Len(data)
    BY <1>1
  <2>2. (data \o more)[start + i] = data[start + i]
    BY <2>1 DEF Payload
  <2> QED BY <2>2 DEF Stands
<1> QED BY <1>1, <1>2 DEF Stands

LEMMA StandsBehind ==
    ASSUME NEW data \in Payload, NEW bytes \in Payload
    PROVE  Stands(data \o bytes, Len(data), bytes)
<1>1. ASSUME NEW i \in 1..Len(bytes) PROVE (data \o bytes)[Len(data) + i] = bytes[i]
  BY DEF Payload
<1>2. /\ Len(data) \in Nat /\ Len(data \o bytes) = Len(data) + Len(bytes)
      /\ Len(bytes) \in Nat
  BY DEF Payload
<1> QED BY <1>1, <1>2 DEF Stands

-----------------------------------------------------------------------------
(* Attribute values *)

\* What an attribute value is written as.
WrittenAs(value, bytes) ==
    \/ \E b \in BOOLEAN : value = <<"bool", b>> /\ bytes = Bool(b)
    \/ \E n \in Int : /\ Fits(IF n < 0 THEN -n ELSE n)
                      /\ value = <<"int", n>> /\ bytes = Signed(n)
    \/ \E n \in Int : value = <<"int", n % Limit>> /\ bytes = Unsigned(n)
    \/ \E n \in Nat : Fits(n) /\ value = <<"int", n>> /\ bytes = Space(n)
    \/ \E c \in 0..3 : value = <<"special", c>> /\ bytes = Special(c)
    \/ \E s \in Payload : Fits(Len(s)) /\ value = <<"string", s>> /\ bytes = String(s)

Codes == 1..7

LEMMA TypeByteIsReadBack ==
    ASSUME NEW code \in Codes, NEW n \in 0..15
    PROVE  TypeByte(code, n) \div 16 = code /\ TypeByte(code, n) % 16 = n
BY DEF TypeByte, Codes

LEMMA FirstByte ==
    ASSUME NEW data \in Payload, NEW start, NEW bytes, Len(bytes) \in Nat \ {0},
           Stands(data, start, bytes)
    PROVE  Byte(data, start) = bytes[1]
<1>1. start \in Nat /\ start < Len(data) /\ data[start + 1] = bytes[1]
  BY DEF Stands
<1> QED BY <1>1 DEF Byte

LEMMA DigitsType ==
    ASSUME NEW val \in Nat, NEW n \in Nat
    PROVE  Digits(val, n) \in Payload /\ Len(Digits(val, n)) = n
<1>1. ASSUME NEW i \in 1..n
      PROVE  ((val \div Radix[n - i]) % 128) + 128 \in 1..255
  <2>1. Radix[n - i] \in Nat \ {0}
    BY Radixes
  <2> QED BY <2>1, RawByte
<1>2. Digits(val, n) \in [1..n -> 1..255]
  BY <1>1 DEF Digits
<1>3. [1..n -> 1..255] \subseteq Seq(1..255)
  BY TuplesAreSequences
<1>4. Len(Digits(val, n)) = n
  BY DEF Digits
<1> QED BY <1>2, <1>3, <1>4 DEF Payload

LEMMA WholeInteger ==
    ASSUME NEW data \in Payload, NEW start, NEW code \in Codes,
           NEW val \in Nat, val < Limit, Stands(data, start, Integer(code, val))
    PROVE  /\ LenCode(val) \in 0..15
           /\ TypeCode(data, start) = code
           /\ LengthCode(data, start) = LenCode(val)
           /\ ReadInteger(data, start + 1, LenCode(val)) = val
           /\ Len(Integer(code, val)) = 1 + LenCode(val)
<1> DEFINE n == LenCode(val)
           head == <<TypeByte(code, n)>>
<1>1. n \in 0..15 /\ n \in Nat /\ val < Radix[n]
  BY LenCodeFits
<1>2. TypeByte(code, n) \in 1..255
  BY <1>1 DEF TypeByte, Codes
<1>3. Digits(val, n) \in Payload /\ Len(Digits(val, n)) = n
  BY <1>1, DigitsType
<1>4. head \in Payload /\ Len(head) = 1 /\ head[1] = TypeByte(code, n)
  BY <1>2 DEF Payload
<1>5. Integer(code, val) = head \o Digits(val, n)
  BY DEF Integer
<1> HIDE DEF head, n
<1>6. Len(data) \in Nat
  BY DEF Payload
<1>7. Stands(data, start, head) /\ Stands(data, start + 1, Digits(val, n))
  <2> DEFINE digits == Digits(val, n)
  <2>1. digits \in Payload
    BY <1>3
  <2> HIDE DEF digits
  <2>2. Stands(data, start, head \o digits)
    BY <1>5 DEF digits
  <2>3. Stands(data, start, head) /\ Stands(data, start + Len(head), digits)
    BY <1>4, <1>6, <2>1, <2>2, StandsSplit
  <2> QED BY <1>4, <2>3 DEF digits
<1>8. Byte(data, start) = TypeByte(code, n)
  BY <1>4, <1>7, FirstByte
<1>9. TypeCode(data, start) = code /\ LengthCode(data, start) = n
  BY <1>1, <1>8, TypeByteIsReadBack DEF TypeCode, LengthCode
<1>10. start + 1 \in Nat
  BY <1>7 DEF Stands
<1>11. ReadInteger(data, start + 1, n) = val
  BY <1>1, <1>7, <1>10, IntegerIsReadBack
<1>12. Len(Integer(code, val)) = 1 + n
  <2> DEFINE digits == Digits(val, n)
  <2>1. digits \in Payload /\ Len(digits) = n
    BY <1>3
  <2> HIDE DEF digits
  <2>2. head \in Seq(1..255) /\ digits \in Seq(1..255)
    BY <1>4, <2>1 DEF Payload
  <2>3. Len(head \o digits) = Len(head) + Len(digits)
    BY <2>2
  <2> QED BY <1>4, <1>5, <2>1, <2>3 DEF digits
<1> QED BY <1>1, <1>9, <1>11, <1>12 DEF n

\* A value and its end are read as they were written.
ValueReadBack(data, start, value, end) ==
    AttrValue(data, start) = value /\ SkipAttrValue(data, start) = end

LEMMA NumberIsReadBack ==
    ASSUME NEW data \in Payload, NEW start \in Nat,
           NEW code \in {POSITIVECODE, NEGATIVECODE, UNSIGNEDCODE, ADDRESSSPACECODE},
           NEW val \in Nat, val < Limit, Stands(data, start, Integer(code, val))
    PROVE  ValueReadBack(data, start,
                         <<"int", IF code = NEGATIVECODE THEN -val ELSE val>>,
                         start + Len(Integer(code, val)))
<1>1. code \in Codes
  BY DEF Codes, POSITIVECODE, NEGATIVECODE, UNSIGNEDCODE, ADDRESSSPACECODE
<1> DEFINE n == LenCode(val)
<1>2. /\ n \in 0..15
      /\ TypeCode(data, start) = code /\ LengthCode(data, start) = n
      /\ ReadInteger(data, start + 1, n) = val
      /\ Len(Integer(code, val)) = 1 + n
  BY <1>1, WholeInteger
<1> HIDE DEF n
<1>3. SkipAttrValue(data, start) = start + 1 + n
  BY <1>2 DEF SkipAttrValue, BOOLEANCODE, SPECIALSPACECODE, STRINGCODE,
              POSITIVECODE, NEGATIVECODE, UNSIGNEDCODE, ADDRESSSPACECODE
<1>4. AttrValue(data, start) = <<"int", IF code = NEGATIVECODE THEN -val ELSE val>>
  <2>1. CASE code = NEGATIVECODE
    BY <1>2, <2>1 DEF AttrValue, BOOLEANCODE, SPECIALSPACECODE, STRINGCODE,
                      POSITIVECODE, NEGATIVECODE, UNSIGNEDCODE, ADDRESSSPACECODE
  <2>2. CASE code # NEGATIVECODE
    BY <1>2, <2>2 DEF AttrValue, BOOLEANCODE, SPECIALSPACECODE, STRINGCODE,
                      POSITIVECODE, NEGATIVECODE, UNSIGNEDCODE, ADDRESSSPACECODE
  <2> QED BY <2>1, <2>2
<1> QED BY <1>2, <1>3, <1>4 DEF ValueReadBack

LEMMA FlagIsReadBack ==
    ASSUME NEW data \in Payload, NEW start \in Nat,
           NEW code \in {BOOLEANCODE, SPECIALSPACECODE}, NEW n \in 0..15,
           Stands(data, start, <<TypeByte(code, n)>>)
    PROVE  ValueReadBack(data, start,
               IF code = BOOLEANCODE THEN <<"bool", n # 0>> ELSE <<"special", n>>,
               start + 1)
<1>1. Byte(data, start) = TypeByte(code, n)
  <2> DEFINE bytes == <<TypeByte(code, n)>>
  <2>1. Len(bytes) = 1 /\ bytes[1] = TypeByte(code, n)
    OBVIOUS
  <2> HIDE DEF bytes
  <2>2. Stands(data, start, bytes)
    BY DEF bytes
  <2> QED BY <2>1, <2>2, FirstByte
<1>2. code \in Codes
  BY DEF Codes, BOOLEANCODE, SPECIALSPACECODE
<1>3. TypeCode(data, start) = code /\ LengthCode(data, start) = n
  BY <1>1, <1>2, TypeByteIsReadBack DEF TypeCode, LengthCode
<1>4. SkipAttrValue(data, start) = start + 1
  BY <1>3 DEF SkipAttrValue, BOOLEANCODE, SPECIALSPACECODE, STRINGCODE
<1>5. CASE code = BOOLEANCODE
  <2>1. AttrValue(data, start) = <<"bool", n # 0>>
    BY <1>3, <1>5 DEF AttrValue, BOOLEANCODE, SPECIALSPACECODE, STRINGCODE,
                      POSITIVECODE, NEGATIVECODE, UNSIGNEDCODE, ADDRESSSPACECODE
  <2> QED BY <1>4, <1>5, <2>1 DEF ValueReadBack
<1>6. CASE code = SPECIALSPACECODE
  <2>1. AttrValue(data, start) = <<"special", n>>
    BY <1>3, <1>6 DEF AttrValue, BOOLEANCODE, SPECIALSPACECODE, STRINGCODE,
                      POSITIVECODE, NEGATIVECODE, UNSIGNEDCODE, ADDRESSSPACECODE
  <2>2. SPECIALSPACECODE # BOOLEANCODE
    BY DEF BOOLEANCODE, SPECIALSPACECODE
  <2> QED BY <1>4, <1>6, <2>1, <2>2 DEF ValueReadBack
<1> QED BY <1>5, <1>6

LEMMA StringIsReadBack ==
    ASSUME NEW data \in Payload, NEW start \in Nat, NEW s \in Payload, Len(s) < Limit,
           Stands(data, start, String(s))
    PROVE  ValueReadBack(data, start, <<"string", s>>, start + Len(String(s)))
<1> DEFINE head == Integer(STRINGCODE, Len(s))
           n == LenCode(Len(s))
<1>1. Len(s) \in Nat /\ Len(data) \in Nat
  BY DEF Payload
<1>2. head \in Payload /\ String(s) = head \o s
  BY <1>1, IntegerBytes DEF STRINGCODE, String
<1> HIDE DEF head
<1>3. Stands(data, start, head) /\ Stands(data, start + Len(head), s)
  BY <1>1, <1>2, StandsSplit
<1>4. STRINGCODE \in Codes
  BY DEF STRINGCODE, Codes
<1>5. /\ n \in 0..15
      /\ TypeCode(data, start) = STRINGCODE /\ LengthCode(data, start) = n
      /\ ReadInteger(data, start + 1, n) = Len(s)
      /\ Len(head) = 1 + n
  BY <1>1, <1>3, <1>4, WholeInteger DEF head
<1> HIDE DEF n
<1>6. Len(String(s)) = 1 + n + Len(s)
  BY <1>1, <1>2, <1>5 DEF Payload
<1>7. SkipAttrValue(data, start) = start + 1 + n + Len(s)
  BY <1>5 DEF SkipAttrValue, BOOLEANCODE, SPECIALSPACECODE, STRINGCODE
<1> DEFINE from == start + 2 + n
           to   == start + 1 + n + Len(s)
<1>8. AttrValue(data, start) = <<"string", SubSeq(data, from, to)>>
  BY <1>5 DEF AttrValue, BOOLEANCODE, SPECIALSPACECODE, STRINGCODE,
              POSITIVECODE, NEGATIVECODE, UNSIGNEDCODE, ADDRESSSPACECODE
<1>9. SubSeq(data, from, to) = s
  <2>1. /\ from \in Nat /\ to \in Nat /\ from >= 1 /\ to <= Len(data)
        /\ to - from + 1 = Len(s)
    BY <1>1, <1>3, <1>5 DEF Stands
  <2>2. ASSUME NEW i \in 1..Len(s) PROVE data[from + i - 1] = s[i]
    <3>1. from + i - 1 = (start + Len(head)) + i
      BY <1>1, <1>5
    <3> QED BY <1>3, <3>1 DEF Stands
  <2>3. data \in Seq(1..255) /\ s \in Seq(1..255)
    BY DEF Payload
  <2> HIDE DEF from, to
  <2>4. SubSeq(data, from, to) = [i \in 1..Len(s) |-> data[from + i - 1]]
    BY <2>1, <2>3
  <2>5. s = [i \in 1..Len(s) |-> s[i]]
    BY <2>3
  <2> QED BY <2>2, <2>4, <2>5
<1>10. start + Len(String(s)) = start + 1 + n + Len(s)
  BY <1>1, <1>5, <1>6
<1> QED BY <1>7, <1>8, <1>9, <1>10 DEF ValueReadBack

\* Whatever write_bool, write_signed, write_unsigned, write_space,
\* write_special_space and write_string (packed.py:89-137) write, _attr_value and
\* _skip_attr_value (packed.py:173-213) read the value and the end of it,
\* wherever the bytes stand in the data of a decoder.
THEOREM ValueIsReadBack ==
    ASSUME NEW data \in Payload, NEW start \in Nat, NEW value, NEW bytes,
           WrittenAs(value, bytes), Stands(data, start, bytes)
    PROVE  ValueReadBack(data, start, value, start + Len(bytes))
<1>0. Limit \in Nat \ {0}
  BY LimitFits
<1>1. ASSUME NEW b \in BOOLEAN, value = <<"bool", b>>, bytes = Bool(b)
      PROVE  ValueReadBack(data, start, value, start + Len(bytes))
  <2> DEFINE n == IF b THEN 1 ELSE 0
  <2>1. n \in 0..15 /\ (n # 0) = b
    OBVIOUS
  <2>2. bytes = <<TypeByte(BOOLEANCODE, n)>> /\ Len(bytes) = 1
    BY <1>1 DEF Bool
  <2> HIDE DEF n
  <2> QED BY <1>1, <2>1, <2>2, FlagIsReadBack
<1>2. ASSUME NEW n \in Int, Fits(IF n < 0 THEN -n ELSE n),
             value = <<"int", n>>, bytes = Signed(n)
      PROVE  ValueReadBack(data, start, value, start + Len(bytes))
  <2>1. NEGATIVECODE # POSITIVECODE
    BY DEF NEGATIVECODE, POSITIVECODE
  <2>2. CASE n < 0
    <3>1. -n \in Nat /\ -n < Limit /\ -(-n) = n /\ bytes = Integer(NEGATIVECODE, -n)
      BY <1>2, <2>2 DEF Fits, Signed
    <3> QED BY <1>2, <3>1, NumberIsReadBack
  <2>3. CASE ~(n < 0)
    <3>1. n \in Nat /\ n < Limit /\ bytes = Integer(POSITIVECODE, n)
      BY <1>2, <2>3 DEF Fits, Signed
    <3> QED BY <1>2, <2>1, <3>1, NumberIsReadBack
  <2> QED BY <2>2, <2>3
<1>3. ASSUME NEW n \in Int, value = <<"int", n % Limit>>, bytes = Unsigned(n)
      PROVE  ValueReadBack(data, start, value, start + Len(bytes))
  <2>1. n % Limit \in Nat /\ n % Limit < Limit
    BY <1>0
  <2>2. UNSIGNEDCODE # NEGATIVECODE /\ bytes = Integer(UNSIGNEDCODE, n % Limit)
    BY <1>3 DEF NEGATIVECODE, UNSIGNEDCODE, Unsigned
  <2> QED BY <1>3, <2>1, <2>2, NumberIsReadBack
<1>4. ASSUME NEW n \in Nat, Fits(n), value = <<"int", n>>, bytes = Space(n)
      PROVE  ValueReadBack(data, start, value, start + Len(bytes))
  <2>1. n < Limit
    BY <1>4 DEF Fits
  <2>2. ADDRESSSPACECODE # NEGATIVECODE /\ bytes = Integer(ADDRESSSPACECODE, n)
    BY <1>4 DEF NEGATIVECODE, ADDRESSSPACECODE, Space
  <2> QED BY <1>4, <2>1, <2>2, NumberIsReadBack
<1>5. ASSUME NEW c \in 0..3, value = <<"special", c>>, bytes = Special(c)
      PROVE  ValueReadBack(data, start, value, start + Len(bytes))
  <2>1. c \in 0..15
    OBVIOUS
  <2>2. /\ SPECIALSPACECODE # BOOLEANCODE
        /\ bytes = <<TypeByte(SPECIALSPACECODE, c)>> /\ Len(bytes) = 1
    BY <1>5 DEF SPECIALSPACECODE, BOOLEANCODE, Special
  <2> QED BY <1>5, <2>1, <2>2, FlagIsReadBack
<1>6. ASSUME NEW s \in Payload, Fits(Len(s)), value = <<"string", s>>, bytes = String(s)
      PROVE  ValueReadBack(data, start, value, start + Len(bytes))
  BY <1>6, StringIsReadBack DEF Fits
<1> QED BY <1>1, <1>2, <1>3, <1>4, <1>5, <1>6 DEF WrittenAs

-----------------------------------------------------------------------------
(* The document in the buffer *)

Elements   == [kind : {"start", "end"}, id : ElementIds]
Attributed == [kind : {"attribute"}, id : AttributeIds, value : Values]
Items      == Elements \cup Attributed

\* What an item is written as.
Encoded(item, bytes) ==
    \/ item.kind = "start" /\ bytes = Header(ELEMENT_START, item.id)
    \/ item.kind = "end" /\ bytes = Header(ELEMENT_END, item.id)
    \/ /\ item.kind = "attribute"
       /\ \E b \in Payload : /\ WrittenAs(item.value, b)
                             /\ bytes = Header(ATTRIBUTE, item.id) \o b

\* Where an item starts, and what is behind the last one.
Start(i) == IF i <= Len(doc) THEN marks[i] ELSE Len(buf)

Placed(i) == \E bytes \in Payload : /\ Encoded(doc[i], bytes)
                                    /\ Stands(buf, Start(i), bytes)
                                    /\ Start(i + 1) = Start(i) + Len(bytes)

\* The items stand in the buffer one behind the other.
Layout ==
    /\ buf \in Payload
    /\ doc \in Seq(Items)
    /\ marks \in Seq(Nat) /\ Len(marks) = Len(doc)
    /\ Start(1) = 0
    /\ \A i \in 1..Len(doc) : Placed(i)

\* What an item does to the stack of open elements.
Follows(stack, item, next) ==
    \/ item.kind = "start" /\ next = Append(stack, item.id)
    \/ /\ item.kind = "end" /\ stack # <<>> /\ item.id = stack[Len(stack)]
       /\ next = SubSeq(stack, 1, Len(stack) - 1)
    \/ item.kind = "attribute" /\ stack # <<>> /\ next = stack

\* The open elements behind each item; those behind the last are nest.
Nesting(st) ==
    /\ st \in [0..Len(doc) -> Seq(ElementIds)]
    /\ st[0] = <<>> /\ st[Len(doc)] = nest
    /\ \A k \in 1..Len(doc) : Follows(st[k - 1], doc[k], st[k])

WrittenWell == Layout /\ \E st : Nesting(st)

LEMMA HeaderLength == \A k, id : Len(Header(k, id)) \in {1, 2}
<1> SUFFICES ASSUME NEW k, NEW id PROVE Len(Header(k, id)) \in {1, 2}
  OBVIOUS
<1>1. Header(k, id) = <<k + id>>
      \/ Header(k, id) = <<k + HEADEREXTEND + id \div 128, (id % 128) + 128>>
  BY DEF Header
<1> QED BY <1>1

LEMMA ItemKinds ==
    ASSUME NEW item \in Items
    PROVE  /\ item.kind \in {"start", "end", "attribute"}
           /\ item.id \in ElementIds \/ item.id \in AttributeIds
           /\ item.id \in Ids
<1>1. ElementIds \cup AttributeIds \subseteq Ids
  BY IdAssumption
<1>2. CASE item \in Elements
  BY <1>1, <1>2 DEF Elements
<1>3. CASE item \in Attributed
  BY <1>1, <1>3 DEF Attributed
<1> QED BY <1>2, <1>3 DEF Items

LEMMA EncodedIsPayload ==
    ASSUME NEW item \in Items, NEW bytes, Encoded(item, bytes)
    PROVE  bytes \in Payload /\ Len(bytes) \in Nat \ {0}
<1>1. item.id \in Ids
  BY ItemKinds
<1>2. ASSUME NEW k \in Kinds
      PROVE  Header(k, item.id) \in Payload /\ Len(Header(k, item.id)) \in {1, 2}
  BY <1>1, HeaderBytes, HeaderLength
<1>3. ASSUME NEW k \in Kinds, bytes = Header(k, item.id)
      PROVE  bytes \in Payload /\ Len(bytes) \in Nat \ {0}
  <2>1. bytes \in Payload /\ Len(bytes) \in {1, 2}
    BY <1>2, <1>3, Zenon
  <2> QED BY <2>1
<1>4. ASSUME NEW b \in Payload, bytes = Header(ATTRIBUTE, item.id) \o b
      PROVE  bytes \in Payload /\ Len(bytes) \in Nat \ {0}
  <2> DEFINE head == Header(ATTRIBUTE, item.id)
  <2>1. head \in Payload /\ Len(head) \in {1, 2}
    BY <1>2, AllKinds
  <2> HIDE DEF head
  <2>2. head \in Seq(1..255) /\ b \in Seq(1..255)
    BY <2>1 DEF Payload
  <2>3. head \o b \in Seq(1..255) /\ Len(head \o b) = Len(head) + Len(b)
    BY <2>2
  <2> QED BY <1>4, <2>1, <2>2, <2>3 DEF Payload, head
<1> QED BY <1>3, <1>4, AllKinds DEF Encoded

\* One more item behind the others.
LEMMA WriteStep ==
    ASSUME WrittenWell, NEW item \in Items, NEW bytes, Encoded(item, bytes),
           Put(item, bytes), Follows(nest, item, nest')
    PROVE  WrittenWell'
<1>1. bytes \in Payload /\ Len(bytes) \in Nat \ {0}
  BY EncodedIsPayload
<1>2. /\ buf \in Payload /\ doc \in Seq(Items) /\ marks \in Seq(Nat)
      /\ Len(marks) = Len(doc) /\ Len(doc) \in Nat
      /\ Len(buf) \in Nat
  BY DEF WrittenWell, Layout, Payload
<1> PICK n \in Nat : n = Len(doc)
  BY <1>2
<1>3. /\ buf' = buf \o bytes /\ doc' = Append(doc, item)
      /\ marks' = Append(marks, Len(buf))
  BY DEF Put
<1>4. /\ buf' \in Payload /\ Len(buf') = Len(buf) + Len(bytes)
      /\ doc' \in Seq(Items) /\ Len(doc') = n + 1
      /\ marks' \in Seq(Nat) /\ Len(marks') = Len(doc')
  BY <1>1, <1>2, <1>3 DEF Payload
<1>5. /\ \A i \in 1..Len(doc) : doc'[i] = doc[i] /\ marks'[i] = marks[i]
      /\ doc'[n + 1] = item /\ marks'[n + 1] = Len(buf)
  BY <1>2, <1>3
<1>6. /\ \A i \in 1..(n + 1) : Start(i)' = Start(i)
      /\ Start(n + 2)' = Len(buf')
      /\ Start(n + 1) = Len(buf)
  <2>1. Len(doc) = n /\ Len(doc') = n + 1
    BY <1>4
  <2>2. Start(n + 2)' = Len(buf') /\ Start(n + 1) = Len(buf)
    BY <2>1 DEF Start
  <2>3. ASSUME NEW i \in 1..(n + 1) PROVE Start(i)' = Start(i)
    <3>1. Start(i)' = marks'[i]
      BY <2>1 DEF Start
    <3>2. CASE i = n + 1
      BY <1>5, <2>2, <3>1, <3>2
    <3>3. CASE i # n + 1
      <4>1. i \in 1..Len(doc) /\ i <= Len(doc)
        BY <2>1, <3>3
      <4> QED BY <1>5, <3>1, <4>1 DEF Start
    <3> QED BY <3>2, <3>3
  <2> QED BY <2>2, <2>3
<1>7. ASSUME NEW i \in 1..Len(doc) PROVE Placed(i)'
  <2>1. PICK b \in Payload : /\ Encoded(doc[i], b) /\ Stands(buf, Start(i), b)
                             /\ Start(i + 1) = Start(i) + Len(b)
    BY DEF WrittenWell, Layout, Placed
  <2>2. Stands(buf', Start(i), b)
    BY <1>1, <1>2, <1>3, <2>1, StandsInMore
  <2>3. i \in 1..(n + 1) /\ i + 1 \in 1..(n + 1)
    BY <1>2
  <2> QED BY <1>5, <1>6, <2>1, <2>2, <2>3 DEF Placed
<1>8. Placed(n + 1)'
  <2>1. Start(n + 1)' = Len(buf) /\ Start((n + 1) + 1)' = Len(buf) + Len(bytes)
    <3>1. n + 1 \in 1..(n + 1) /\ (n + 1) + 1 = n + 2
      OBVIOUS
    <3> QED BY <1>4, <1>6, <3>1
  <2>2. Stands(buf', Len(buf), bytes)
    BY <1>1, <1>2, <1>3, StandsBehind
  <2> QED BY <1>1, <1>5, <2>1, <2>2 DEF Placed
<1>9. Layout'
  <2>1. Start(1)' = 0
    <3>1. 1 \in 1..(n + 1) /\ Start(1) = 0
      BY <1>2 DEF WrittenWell, Layout
    <3> QED BY <1>6, <3>1
  <2>2. \A i \in 1..Len(doc') : Placed(i)'
    <3>1. \A i \in 1..Len(doc') : i \in 1..Len(doc) \/ i = n + 1
      BY <1>2, <1>4
    <3> QED BY <1>7, <1>8, <3>1
  <2> QED BY <1>4, <2>1, <2>2 DEF Layout
<1>10. PICK st : Nesting(st)
  BY DEF WrittenWell
<1> PICK more : more = [k \in 0..(n + 1) |-> IF k = n + 1 THEN nest' ELSE st[k]]
  OBVIOUS
<1>11. nest \in Seq(ElementIds) /\ st \in [0..Len(doc) -> Seq(ElementIds)]
  BY <1>2, <1>10 DEF Nesting
<1>12. nest' \in Seq(ElementIds)
  <2>1. item.kind = "start" => item.id \in ElementIds
    BY DEF Items, Elements, Attributed
  <2>2. CASE item.kind = "start" /\ nest' = Append(nest, item.id)
    BY <1>11, <2>1, <2>2
  <2>3. CASE nest # <<>> /\ nest' = SubSeq(nest, 1, Len(nest) - 1)
    BY <1>11, <2>3
  <2>4. CASE nest' = nest
    BY <1>11, <2>4
  <2> QED BY <2>2, <2>3, <2>4 DEF Follows
<1>13. more \in [0..Len(doc') -> Seq(ElementIds)]
  BY <1>2, <1>4, <1>11, <1>12
<1>14. more[0] = <<>> /\ more[Len(doc')] = nest'
  BY <1>2, <1>4, <1>10 DEF Nesting
<1>15. ASSUME NEW k \in 1..Len(doc') PROVE Follows(more[k - 1], doc'[k], more[k])
  <2>1. CASE k = n + 1
    <3>1. more[k - 1] = nest /\ doc'[k] = item /\ more[k] = nest'
      BY <1>2, <1>4, <1>5, <1>10, <2>1 DEF Nesting
    <3> QED BY <3>1
  <2>2. CASE k # n + 1
    <3>1. k \in 1..Len(doc) /\ k \in 0..(n + 1) /\ k - 1 \in 0..(n + 1) /\ k - 1 # n + 1
      BY <1>2, <1>4, <2>2
    <3>2. more[k - 1] = st[k - 1] /\ doc'[k] = doc[k] /\ more[k] = st[k]
      BY <1>5, <2>2, <3>1
    <3> QED BY <1>10, <3>1, <3>2 DEF Nesting
  <2> QED BY <2>1, <2>2
<1>16. Nesting(more)'
  BY <1>13, <1>14, <1>15 DEF Nesting
<1> QED BY <1>9, <1>16 DEF WrittenWell

LEMMA AttributeStep ==
    ASSUME WrittenWell, NEW id \in AttributeIds, NEW value \in Values,
           NEW bytes \in Payload,
           WrittenAs(value, bytes), PutAttribute(id, value, bytes)
    PROVE  WrittenWell'
<1> DEFINE item == [kind |-> "attribute", id |-> id, value |-> value]
           all == Header(ATTRIBUTE, id) \o bytes
<1>1. item \in Items
  BY DEF Items, Attributed
<1>2. Encoded(item, all)
  BY DEF Encoded
<1>3. Put(item, all) /\ nest' = nest /\ nest # <<>>
  BY DEF PutAttribute
<1>4. Follows(nest, item, nest')
  BY <1>3 DEF Follows
<1> HIDE DEF item, all
<1> QED BY <1>1, <1>2, <1>3, <1>4, WriteStep

LEMMA ElementStep ==
    ASSUME WrittenWell, NEW id \in ElementIds, OpenElement(id) \/ CloseElement
    PROVE  WrittenWell'
<1>1. nest \in Seq(ElementIds)
  <2>1. PICK st : Nesting(st)
    BY DEF WrittenWell
  <2>2. Len(doc) \in 0..Len(doc)
    BY DEF WrittenWell, Layout
  <2> QED BY <2>1, <2>2 DEF Nesting
<1>2. CASE OpenElement(id)
  <2> DEFINE item == [kind |-> "start", id |-> id]
             bytes == Header(ELEMENT_START, id)
  <2>1. item \in Items /\ Encoded(item, bytes)
    BY DEF Items, Elements, Encoded
  <2>2. Put(item, bytes) /\ nest' = Append(nest, id)
    BY <1>2 DEF OpenElement
  <2>3. Follows(nest, item, nest')
    BY <2>2 DEF Follows
  <2> HIDE DEF item, bytes
  <2> QED BY <2>1, <2>2, <2>3, WriteStep
<1>3. CASE CloseElement
  <2> DEFINE item == [kind |-> "end", id |-> nest[Len(nest)]]
             bytes == Header(ELEMENT_END, nest[Len(nest)])
  <2>1. nest # <<>> /\ nest[Len(nest)] \in ElementIds
    BY <1>1, <1>3 DEF CloseElement
  <2>2. item \in Items /\ Encoded(item, bytes)
    BY <2>1 DEF Items, Elements, Encoded
  <2>3. Put(item, bytes) /\ nest' = SubSeq(nest, 1, Len(nest) - 1)
    BY <1>3 DEF CloseElement
  <2>4. Follows(nest, item, nest')
    BY <2>1, <2>3 DEF Follows
  <2> HIDE DEF item, bytes
  <2> PICK it : it = item
    OBVIOUS
  <2>5. it \in Items /\ Encoded(it, bytes) /\ Put(it, bytes) /\ Follows(nest, it, nest')
    BY <2>2, <2>3, <2>4
  <2> PICK by : by = bytes
    OBVIOUS
  <2>6. Encoded(it, by) /\ Put(it, by)
    BY <2>5
  <2> QED BY <2>5, <2>6, WriteStep
<1> QED BY <1>2, <1>3

LEMMA ClosingStep == WrittenWell /\ CloseElement => WrittenWell'
<1> SUFFICES ASSUME WrittenWell, CloseElement PROVE WrittenWell'
  OBVIOUS
<1>1. PICK st : Nesting(st)
  BY DEF WrittenWell
<1>2. Len(doc) \in 0..Len(doc) /\ nest # <<>>
  BY DEF WrittenWell, Layout, CloseElement
<1>3. nest \in Seq(ElementIds)
  BY <1>1, <1>2 DEF Nesting
<1>4. nest[1] \in ElementIds
  BY <1>2, <1>3
<1> QED BY <1>4, ElementStep

\* What every write action of the encoder writes is a payload.
LEMMA ValuesArePayload ==
    ASSUME NEW value, NEW bytes, WrittenAs(value, bytes)
    PROVE  bytes \in Payload
<1>0. Limit \in Nat \ {0}
  BY LimitFits
<1>1. ASSUME NEW n \in Int PROVE Signed(n) \in Payload /\ Unsigned(n) \in Payload
  <2>1. n < 0 => -n \in Nat
    OBVIOUS
  <2>2. n >= 0 => n \in Nat
    OBVIOUS
  <2>3. n % Limit \in Nat
    BY <1>0
  <2> QED BY <2>1, <2>2, <2>3, IntegerBytes
          DEF Signed, Unsigned, NEGATIVECODE, POSITIVECODE, UNSIGNEDCODE
<1>2. ASSUME NEW b \in BOOLEAN PROVE Bool(b) \in Payload
  BY DEF Bool, TypeByte, BOOLEANCODE, Payload
<1>3. ASSUME NEW n \in Nat PROVE Space(n) \in Payload
  BY IntegerBytes DEF Space, ADDRESSSPACECODE
<1>4. ASSUME NEW c \in 0..3 PROVE Special(c) \in Payload
  BY DEF Special, TypeByte, SPECIALSPACECODE, Payload
<1>5. ASSUME NEW s \in Payload PROVE String(s) \in Payload
  <2>1. s \in Seq(1..255) /\ Len(s) \in Nat
    BY DEF Payload
  <2>2. Integer(STRINGCODE, Len(s)) \in Payload
    BY <2>1, IntegerBytes DEF STRINGCODE
  <2> QED BY <2>1, <2>2 DEF String, Payload
<1> QED BY <1>1, <1>2, <1>3, <1>4, <1>5 DEF WrittenAs

\* A value that is one of the inputs, written as it is.
LEMMA ValueStep ==
    ASSUME WrittenWell, NEW id \in AttributeIds, NEW value \in Values, NEW bytes,
           WrittenAs(value, bytes), PutAttribute(id, value, bytes)
    PROVE  WrittenWell'
BY ValuesArePayload, AttributeStep

LEMMA WriteKeeps == WrittenWell /\ Write => WrittenWell'
<1> SUFFICES ASSUME WrittenWell, Write PROVE WrittenWell'
  OBVIOUS
<1>1. ASSUME NEW id \in AttributeIds, NEW b \in BOOLEAN, WriteBool(id, b)
      PROVE  WrittenWell'
  <2>1. <<"bool", b>> \in Values
    BY DEF Values
  <2>2. WrittenAs(<<"bool", b>>, Bool(b))
    BY DEF WrittenAs
  <2> QED BY <1>1, <2>1, <2>2, ValueStep DEF WriteBool
<1>2. ASSUME NEW id \in AttributeIds, NEW n \in SignedInputs,
             WriteSigned(id, n) \/ WriteOpcode(id, n)
      PROVE  WrittenWell'
  <2>1. <<"int", n>> \in Values /\ n \in Int
    BY InputAssumption DEF Values
  <2>2. WriteSigned(id, n)
    BY <1>2 DEF WriteOpcode
  <2>3. WrittenAs(<<"int", n>>, Signed(n))
    BY <2>1, <2>2 DEF WrittenAs, WriteSigned
  <2> QED BY <2>1, <2>2, <2>3, ValueStep DEF WriteSigned
<1>3. ASSUME NEW id \in AttributeIds, NEW n \in UnsignedInputs, WriteUnsigned(id, n)
      PROVE  WrittenWell'
  <2>1. <<"int", n % Limit>> \in Values /\ n \in Int
    BY InputAssumption DEF Values
  <2>2. WrittenAs(<<"int", n % Limit>>, Unsigned(n))
    BY <2>1 DEF WrittenAs
  <2> QED BY <1>3, <2>1, <2>2, ValueStep DEF WriteUnsigned
<1>4. ASSUME NEW id \in AttributeIds, NEW s \in StringInputs, WriteString(id, s)
      PROVE  WrittenWell'
  <2>1. <<"string", s>> \in Values /\ s \in Payload /\ Fits(Len(s))
    BY <1>4, InputAssumption DEF Values, Payload, WriteString
  <2>2. WrittenAs(<<"string", s>>, String(s))
    BY <2>1 DEF WrittenAs
  <2> QED BY <1>4, <2>1, <2>2, ValueStep DEF WriteString
<1>5. ASSUME NEW id \in AttributeIds, NEW i \in SpaceInputs, WriteSpace(id, i)
      PROVE  WrittenWell'
  <2>1. <<"int", i>> \in Values /\ i \in Nat /\ Fits(i)
    BY <1>5, InputAssumption DEF Values, WriteSpace
  <2>2. WrittenAs(<<"int", i>>, Space(i))
    BY <2>1 DEF WrittenAs
  <2> QED BY <1>5, <2>1, <2>2, ValueStep DEF WriteSpace
<1>6. ASSUME NEW id \in AttributeIds, NEW c \in SpecialInputs, WriteSpecial(id, c)
      PROVE  WrittenWell'
  <2>1. <<"special", c>> \in Values /\ c \in 0..3
    BY InputAssumption DEF Values
  <2>2. WrittenAs(<<"special", c>>, Special(c))
    BY <2>1 DEF WrittenAs
  <2> QED BY <1>6, <2>1, <2>2, ValueStep DEF WriteSpecial
<1> QED BY <1>1, <1>2, <1>3, <1>4, <1>5, <1>6, ElementStep, ClosingStep DEF Write

LEMMA EmptyIsWrittenWell == Init => WrittenWell
<1> SUFFICES ASSUME Init PROVE WrittenWell
  OBVIOUS
<1>1. buf = <<>> /\ doc = <<>> /\ marks = <<>> /\ nest = <<>> /\ Len(doc) = 0
  BY DEF Init
<1>2. Layout
  BY <1>1 DEF Layout, Start, Payload
<1>3. Nesting([k \in 0..0 |-> <<>>])
  BY <1>1 DEF Nesting
<1> QED BY <1>2, <1>3 DEF WrittenWell

LEMMA UnchangedIsWrittenWell ==
    WrittenWell /\ UNCHANGED <<buf, doc, marks, nest>> => WrittenWell'
BY DEF WrittenWell, Layout, Nesting, Placed, Start

LEMMA ReadingWritesNothing ==
    Read \/ ParseStart \/ ParseEnd \/ ParseAttribute \/ (\E to : ToBytes(to))
         \/ UNCHANGED vars
        => UNCHANGED <<buf, doc, marks, nest>>
<1>1. Read => UNCHANGED <<buf, doc, marks, nest>>
  BY DEF Read, Call, PeekElement, SkipElement, Attributes, DecodeOpen,
         DecodeClose, CloseElementSkipping, ReadAttribute, ReadOpt
<1>2. ParseStart \/ ParseEnd \/ ParseAttribute \/ (\E to : ToBytes(to)) \/ UNCHANGED vars
          => UNCHANGED <<buf, doc, marks, nest>>
  BY DEF ToBytes, Parsing, ParseStart, ParseEnd, ParseAttribute, vars
<1> QED BY <1>1, <1>2

LEMMA WrittenWellKept == WrittenWell /\ [Next]_vars => WrittenWell'
BY WriteKeeps, UnchangedIsWrittenWell, ReadingWritesNothing DEF Next

-----------------------------------------------------------------------------
(* No byte is zero *)

\* The items that were written stand in the buffer one behind the other, each as
\* the encoder writes it, and the elements follow from them: nothing that the
\* encoder does later (packed.py:83-137) disturbs what it wrote.
THEOREM DocumentIsInBuffer == Spec => []WrittenWell
BY EmptyIsWrittenWell, WrittenWellKept, PTL DEF Spec

\* No payload has a zero byte (packed.py:4), so that a zero always starts the
\* marker of a frame (framing.py:14-15), whatever a session writes.
THEOREM PayloadHasNoZero == Spec => []NoZeroByte
<1>1. WrittenWell => NoZeroByte
  <2> SUFFICES ASSUME buf \in Payload, 0 \in ToSet(buf) PROVE FALSE
    BY DEF WrittenWell, Layout, NoZeroByte
  <2>1. PICK i \in DOMAIN buf : buf[i] = 0
    BY DEF ToSet
  <2>2. i \in 1..Len(buf) /\ buf \in Seq(1..255)
    BY <2>1 DEF Payload
  <2>3. buf[i] \in 1..255
    BY <2>2, ElementOfSeq, Zenon
  <2> QED BY <2>1, <2>3
<1> QED BY <1>1, DocumentIsInBuffer, PTL

-----------------------------------------------------------------------------
(* Items *)

Places == 1..(Len(doc) + 1)

\* What the decoder reads at the start of an item.
ReadsBack(i) ==
    /\ Start(i) < Start(i + 1)
    /\ ReadId(buf, Start(i)) = doc[i].id
    /\ \/ /\ doc[i] = [kind |-> "start", id |-> doc[i].id]
          /\ Kind(buf, Start(i)) = ELEMENT_START /\ IdEnd(buf, Start(i)) = Start(i + 1)
       \/ /\ doc[i] = [kind |-> "end", id |-> doc[i].id]
          /\ Kind(buf, Start(i)) = ELEMENT_END /\ IdEnd(buf, Start(i)) = Start(i + 1)
       \/ /\ doc[i] = [kind |-> "attribute", id |-> doc[i].id, value |-> doc[i].value]
          /\ Kind(buf, Start(i)) = ATTRIBUTE
          /\ ValueReadBack(buf, IdEnd(buf, Start(i)), doc[i].value, Start(i + 1))

LEMMA LayoutTypes ==
    ASSUME Layout
    PROVE  /\ Len(doc) \in Nat /\ Len(buf) \in Nat
           /\ \A i \in 1..Len(doc) : doc[i] \in Items
           /\ \A i \in Places : Start(i) \in Nat
           /\ Start(1) = 0 /\ Start(Len(doc) + 1) = Len(buf)
<1>1. /\ Len(doc) \in Nat /\ doc \in Seq(Items) /\ buf \in Seq(1..255)
      /\ marks \in Seq(Nat) /\ Len(marks) = Len(doc) /\ Start(1) = 0
  BY DEF Layout, Payload
<1>2. Len(buf) \in Nat
  BY <1>1
<1>5. \A i \in 1..Len(doc) : doc[i] \in Items /\ marks[i] \in Nat
  BY <1>1
<1>3. \A i \in Places : i <= Len(doc) => i \in 1..Len(doc)
  BY <1>1 DEF Places
<1>4. ~(Len(doc) + 1 <= Len(doc))
  BY <1>1
<1> QED BY <1>1, <1>2, <1>3, <1>4, <1>5 DEF Start

LEMMA Between ==
    ASSUME NEW a \in Int, NEW b \in Int, NEW x \in a..b
    PROVE  x \in Int /\ a <= x /\ x <= b
OBVIOUS

LEMMA IdsAreShort == \A id \in Ids : id \in Nat /\ id < 4096
<1> SUFFICES ASSUME NEW id \in Ids PROVE id \in Nat /\ id < 4096
  OBVIOUS
<1>1. id \in Int /\ 1 <= id /\ id <= 4095
  <2> DEFINE last == 4095
  <2>1. last \in Int /\ last < 4096 /\ id \in 1..last
    BY DEF Ids
  <2> HIDE DEF last
  <2>2. id \in Int /\ 1 <= id /\ id <= last
    BY <2>1, Between
  <2> QED BY <2>2 DEF last
<1> QED BY <1>1

LEMMA ItemIsReadBack ==
    ASSUME Layout, NEW i \in 1..Len(doc)
    PROVE  ReadsBack(i)
<1>1. /\ Len(doc) \in Nat /\ Len(buf) \in Nat /\ buf \in Payload
      /\ doc[i] \in Items /\ Start(i) \in Nat
  <2>1. i \in Places
    BY LayoutTypes DEF Places
  <2> QED BY <2>1, LayoutTypes DEF Layout
<1>2. PICK bytes \in Payload : /\ Encoded(doc[i], bytes)
                               /\ Stands(buf, Start(i), bytes)
                               /\ Start(i + 1) = Start(i) + Len(bytes)
  BY DEF Layout, Placed
<1>3. Len(bytes) \in Nat \ {0}
  BY <1>1, <1>2, EncodedIsPayload
<1>4. Start(i) < Start(i + 1)
  BY <1>1, <1>2, <1>3
<1> DEFINE id == doc[i].id
<1>5. id \in Ids /\ id \in Nat /\ id < 4096
  <2>1. id \in Ids
    BY <1>1, ItemKinds
  <2> QED BY <2>1, IdsAreShort
<1>6. ASSUME NEW k \in Kinds, Stands(buf, Start(i), Header(k, id))
      PROVE  /\ Kind(buf, Start(i)) = k /\ ReadId(buf, Start(i)) = id
             /\ IdEnd(buf, Start(i)) = Start(i) + Len(Header(k, id))
  <2> HIDE DEF id
  <2> QED BY <1>1, <1>5, <1>6, HeaderIsReadBack
<1>7. CASE doc[i].kind \in {"start", "end"}
  <2>1. doc[i] = [kind |-> doc[i].kind, id |-> id]
    <3>1. doc[i] \notin Attributed
      BY <1>7 DEF Attributed
    <3> QED BY <1>1, <3>1 DEF Items, Elements
  <2>2. PICK k \in Kinds : /\ bytes = Header(k, id)
                           /\ doc[i].kind = "start" => k = ELEMENT_START
                           /\ doc[i].kind = "end" => k = ELEMENT_END
    BY <1>2, <1>7, AllKinds DEF Encoded
  <2>3. /\ Kind(buf, Start(i)) = k /\ ReadId(buf, Start(i)) = id
        /\ IdEnd(buf, Start(i)) = Start(i + 1)
    BY <1>2, <1>6, <2>2
  <2> QED BY <1>4, <1>7, <2>1, <2>2, <2>3 DEF ReadsBack
<1>8. CASE doc[i].kind = "attribute"
  <2>1. doc[i] = [kind |-> "attribute", id |-> id, value |-> doc[i].value]
    <3>1. doc[i] \notin Elements
      BY <1>8 DEF Elements
    <3> QED BY <1>1, <3>1 DEF Items, Attributed
  <2> DEFINE head == Header(ATTRIBUTE, id)
  <2>2. PICK b \in Payload : WrittenAs(doc[i].value, b) /\ bytes = head \o b
    BY <1>2, <1>8 DEF Encoded
  <2>3. head \in Payload
    BY <1>5, AllKinds, HeaderBytes
  <2>4. Stands(buf, Start(i), head) /\ Stands(buf, Start(i) + Len(head), b)
    <3> HIDE DEF head
    <3> QED BY <1>1, <1>2, <2>2, <2>3, StandsSplit
  <2>5. /\ Kind(buf, Start(i)) = ATTRIBUTE /\ ReadId(buf, Start(i)) = id
        /\ IdEnd(buf, Start(i)) = Start(i) + Len(head)
    BY <1>6, <2>4, AllKinds
  <2> HIDE DEF head
  <2>6. Start(i) + Len(head) \in Nat /\ Start(i + 1) = (Start(i) + Len(head)) + Len(b)
    <3>1. head \in Seq(1..255) /\ b \in Seq(1..255)
      BY <2>3 DEF Payload
    <3>2. Len(head \o b) = Len(head) + Len(b) /\ Len(head) \in Nat /\ Len(b) \in Nat
      BY <3>1
    <3> QED BY <1>1, <1>2, <2>2, <3>2
  <2>7. ValueReadBack(buf, Start(i) + Len(head), doc[i].value, Start(i + 1))
    BY <1>1, <2>2, <2>4, <2>6, ValueIsReadBack
  <2> QED BY <1>4, <2>1, <2>5, <2>7 DEF ReadsBack
<1> QED BY <1>1, <1>7, <1>8, ItemKinds

LEMMA NoByteNoKind ==
    ASSUME NEW data, NEW p, ~(p < Len(data))
    PROVE  Kind(data, p) = 0
<1>1. Byte(data, p) = 0
  BY DEF Byte
<1>2. (0 \div 64) * 64 = 0
  OBVIOUS
<1> QED BY <1>1, <1>2 DEF Kind

\* The items start one behind the other.
LEMMA StartsAscend ==
    ASSUME Layout, NEW i \in Places, NEW j \in Places, i < j
    PROVE  Start(i) < Start(j)
<1>1. /\ Len(doc) \in Nat /\ \A k \in Places : Start(k) \in Nat
      /\ \A k \in 1..Len(doc) : Start(k) < Start(k + 1)
  BY LayoutTypes, ItemIsReadBack DEF ReadsBack
<1> DEFINE T == {d \in Nat : /\ Start(i) <= Start(i + d)
                             /\ d > 0 => Start(i) < Start(i + d)}
<1>2. 0 \in T
  <2>1. i \in Nat /\ i + 0 = i
    BY DEF Places
  <2> QED BY <1>1, <2>1
<1>3. ASSUME NEW d \in 1..(j - i), d - 1 \in T PROVE d \in T
  <2>1. /\ d \in Nat /\ d > 0 /\ i + (d - 1) \in 1..Len(doc) /\ i + (d - 1) \in Places
        /\ (i + (d - 1)) + 1 = i + d /\ i + d \in Places
    BY <1>1 DEF Places
  <2>2. Start(i + (d - 1)) < Start(i + d)
    BY <1>1, <2>1
  <2>3. Start(i) <= Start(i + (d - 1))
    BY <1>3
  <2>4. Start(i) \in Nat /\ Start(i + (d - 1)) \in Nat /\ Start(i + d) \in Nat
    BY <1>1, <2>1
  <2> QED BY <2>1, <2>2, <2>3, <2>4
<1>4. j - i \in Nat /\ j - i > 0 /\ i + (j - i) = j
  BY DEF Places
<1> HIDE DEF T
<1>5. \A d \in 0..(j - i) : d \in T
  BY <1>2, <1>3, <1>4, Induction
<1>6. j - i \in T
  BY <1>4, <1>5
<1> QED BY <1>4, <1>6 DEF T

LEMMA StartsDiffer ==
    ASSUME Layout, NEW i \in Places, NEW j \in Places, Start(i) = Start(j)
    PROVE  i = j
<1>1. i \in Nat /\ j \in Nat /\ Start(i) \in Nat /\ Start(j) \in Nat
  BY LayoutTypes DEF Places
<1> QED BY <1>1, StartsAscend

-----------------------------------------------------------------------------
(* parse_tree *)

\* What has been parsed is a beginning of the document, and what is open the
\* elements that the writer had open behind it.
Parsed(st) ==
    /\ tree \in [pos : Nat, stack : Seq(ElementIds), items : Seq(Items)]
    /\ Len(tree.items) <= Len(doc)
    /\ \A k \in 1..Len(tree.items) : tree.items[k] = doc[k]
    /\ tree.pos = Start(Len(tree.items) + 1)
    /\ tree.stack = st[Len(tree.items)]

ParsedWell ==
    /\ phase \in {"writing", "reading", "parsing"}
    /\ phase = "writing" => tree = [pos |-> 0, stack |-> <<>>, items |-> <<>>]
    /\ \E st : Nesting(st) /\ Parsed(st)

\* One item is put into the tree.
LEMMA ParseItem ==
    ASSUME Layout, NEW st, Nesting(st), Parsed(st), Parsing,
           NEW i \in 1..Len(doc), i = Len(tree.items) + 1,
           tree' = [pos |-> Start(i + 1), stack |-> st[i],
                    items |-> Append(tree.items, doc[i])]
    PROVE  Parsed(st)'
<1>1. /\ Len(doc) \in Nat /\ doc[i] \in Items /\ Start(i + 1) \in Nat
      /\ tree.items \in Seq(Items) /\ i - 1 = Len(tree.items) /\ Len(tree.items) \in Nat
  <2>1. i + 1 \in Places /\ Len(doc) \in Nat
    BY LayoutTypes DEF Places
  <2> QED BY <2>1, LayoutTypes DEF Parsed
<1>2. st[i] \in Seq(ElementIds)
  BY <1>1 DEF Nesting
<1>3. UNCHANGED <<buf, doc, marks, nest>>
  BY DEF Parsing
<1>4. /\ tree'.items \in Seq(Items) /\ Len(tree'.items) = i
      /\ tree'.pos = Start(i + 1) /\ tree'.stack = st[i]
      /\ tree' \in [pos : Nat, stack : Seq(ElementIds), items : Seq(Items)]
  BY <1>1, <1>2
<1>5. \A k \in 1..Len(tree'.items) : tree'.items[k] = doc'[k]
  <2> SUFFICES ASSUME NEW k \in 1..i PROVE Append(tree.items, doc[i])[k] = doc[k]
    BY <1>3, <1>4
  <2>1. CASE k = i
    BY <1>1, <2>1
  <2>2. CASE k # i
    <3>1. k \in 1..Len(tree.items)
      BY <1>1, <2>2
    <3> QED BY <1>1, <3>1 DEF Parsed
  <2> QED BY <2>1, <2>2
<1>6. tree'.pos = Start(Len(tree.items) + 1)'
  <2>1. Start(i + 1)' = Start(i + 1)
    BY <1>3 DEF Start
  <2>2. Len(tree'.items) + 1 = i + 1
    BY <1>4
  <2> QED BY <1>4, <2>1, <2>2 DEF Start
<1>7. tree'.stack = st[Len(tree'.items)] /\ Len(tree'.items) <= Len(doc')
  BY <1>1, <1>3, <1>4
<1> QED BY <1>4, <1>5, <1>6, <1>7 DEF Parsed, Start

\* The item a parser is at.
LEMMA ParserIsAtItem ==
    ASSUME Layout, NEW st, Nesting(st), Parsed(st), tree.pos < Len(buf)
    PROVE  \E i \in 1..Len(doc) :
               /\ i = Len(tree.items) + 1 /\ tree.pos = Start(i)
               /\ ReadsBack(i) /\ Follows(tree.stack, doc[i], st[i])
<1>1. /\ Len(doc) \in Nat /\ Len(buf) \in Nat /\ Start(Len(doc) + 1) = Len(buf)
      /\ Len(tree.items) \in Nat /\ Len(tree.items) <= Len(doc)
      /\ tree.pos = Start(Len(tree.items) + 1) /\ tree.stack = st[Len(tree.items)]
  BY LayoutTypes DEF Parsed
<1>2. Len(tree.items) # Len(doc)
  BY <1>1
<1> PICK i \in 1..Len(doc) : i = Len(tree.items) + 1
  BY <1>1, <1>2
<1>3. i - 1 = Len(tree.items)
  BY <1>1
<1>4. Follows(st[i - 1], doc[i], st[i])
  BY DEF Nesting
<1> QED BY <1>1, <1>3, <1>4, ItemIsReadBack

LEMMA KindsDiffer ==
    /\ ELEMENT_START # ELEMENT_END /\ ELEMENT_START # ATTRIBUTE /\ ELEMENT_END # ATTRIBUTE
    /\ ELEMENT_START # 0 /\ ELEMENT_END # 0 /\ ATTRIBUTE # 0
BY DEF ELEMENT_START, ELEMENT_END, ATTRIBUTE

LEMMA ParseStep ==
    ASSUME Layout, NEW st, Nesting(st), Parsed(st),
           ParseStart \/ ParseEnd \/ ParseAttribute
    PROVE  Parsed(st)' /\ phase' = phase
<1>1. Parsing /\ tree.pos < Len(buf)
  BY DEF ParseStart, ParseEnd, ParseAttribute, Parsing
<1>2. PICK i \in 1..Len(doc) : /\ i = Len(tree.items) + 1 /\ tree.pos = Start(i)
                               /\ ReadsBack(i) /\ Follows(tree.stack, doc[i], st[i])
  BY <1>1, ParserIsAtItem
<1>3. ParsedId = doc[i].id
  BY <1>2 DEF ParsedId, ReadsBack
<1>4. tree \in [pos : Nat, stack : Seq(ElementIds), items : Seq(Items)]
  BY DEF Parsed
<1>5. CASE ParseStart
  <2>1. /\ doc[i] = [kind |-> "start", id |-> doc[i].id]
        /\ IdEnd(buf, Start(i)) = Start(i + 1)
    BY <1>2, <1>5, KindsDiffer DEF ParseStart, ReadsBack
  <2>2. st[i] = Append(tree.stack, doc[i].id)
    <3>1. doc[i].kind = "start"
      BY <2>1
    <3> QED BY <1>2, <3>1 DEF Follows
  <2>3. tree' = [pos |-> Start(i + 1), stack |-> st[i],
                 items |-> Append(tree.items, doc[i])]
    BY <1>2, <1>3, <1>5, <2>1, <2>2 DEF ParseStart
  <2> QED BY <1>1, <1>2, <1>5, <2>3, ParseItem DEF ParseStart
<1>6. CASE ParseEnd
  <2>1. /\ doc[i] = [kind |-> "end", id |-> doc[i].id]
        /\ IdEnd(buf, Start(i)) = Start(i + 1)
    BY <1>2, <1>6, KindsDiffer DEF ParseEnd, ReadsBack
  <2>2. /\ tree.stack # <<>> /\ doc[i].id = tree.stack[Len(tree.stack)]
        /\ st[i] = SubSeq(tree.stack, 1, Len(tree.stack) - 1)
    <3>1. doc[i].kind = "end"
      BY <2>1
    <3> QED BY <1>2, <3>1 DEF Follows
  <2>3. tree' = [pos |-> Start(i + 1), stack |-> st[i],
                 items |-> Append(tree.items, doc[i])] /\ phase' = phase
    BY <1>2, <1>3, <1>6, <2>1, <2>2 DEF ParseEnd
  <2> QED BY <1>1, <1>2, <2>3, ParseItem
<1>7. CASE ParseAttribute
  <2>1. /\ doc[i] = [kind |-> "attribute", id |-> doc[i].id, value |-> doc[i].value]
        /\ ValueReadBack(buf, IdEnd(buf, Start(i)), doc[i].value, Start(i + 1))
    BY <1>2, <1>7, KindsDiffer DEF ParseAttribute, ReadsBack
  <2>2. tree.stack # <<>> /\ st[i] = tree.stack
    <3>1. doc[i].kind = "attribute"
      BY <2>1
    <3> QED BY <1>2, <3>1 DEF Follows
  <2>3. tree' = [tree EXCEPT !.pos = Start(i + 1), !.items = Append(@, doc[i])]
    BY <1>2, <1>3, <1>7, <2>1, <2>2 DEF ParseAttribute, ValueReadBack
  <2>4. tree' = [pos |-> Start(i + 1), stack |-> st[i],
                 items |-> Append(tree.items, doc[i])]
    BY <1>4, <2>2, <2>3
  <2> QED BY <1>1, <1>2, <1>7, <2>4, ParseItem DEF ParseAttribute
<1> QED BY <1>5, <1>6, <1>7

LEMMA ParsedWellKept == WrittenWell /\ ParsedWell /\ [Next]_vars => ParsedWell'
<1> SUFFICES ASSUME WrittenWell, ParsedWell, [Next]_vars PROVE ParsedWell'
  OBVIOUS
<1>1. WrittenWell' /\ Layout
  BY WrittenWellKept DEF WrittenWell
<1>2. PICK st : Nesting(st) /\ Parsed(st)
  BY DEF ParsedWell
<1>3. CASE Write
  <2>1. phase = "writing" /\ UNCHANGED <<phase, tree>>
    BY <1>3 DEF Write, OpenElement, CloseElement, Put, PutAttribute, WriteBool,
                WriteSigned, WriteOpcode, WriteUnsigned, WriteString,
                WriteSpace, WriteSpecial
  <2>2. tree' = [pos |-> 0, stack |-> <<>>, items |-> <<>>]
    BY <2>1 DEF ParsedWell
  <2>3. PICK later : Nesting(later)'
    BY <1>1 DEF WrittenWell
  <2>4. later[0] = <<>>
    BY <2>3 DEF Nesting
  <2>5. Start(1)' = 0 /\ Len(doc') \in Nat
    <3>1. Layout' /\ doc' \in Seq(Items)
      BY <1>1 DEF WrittenWell, Layout
    <3> QED BY <3>1 DEF Layout
  <2>6. /\ tree'.items = <<>> /\ Len(tree'.items) = 0
        /\ tree'.pos = 0 /\ tree'.stack = <<>>
        /\ tree' \in [pos : Nat, stack : Seq(ElementIds), items : Seq(Items)]
    BY <2>2
  <2>7. Parsed(later)'
    BY <2>4, <2>5, <2>6 DEF Parsed
  <2> QED BY <2>1, <2>2, <2>3, <2>7 DEF ParsedWell
<1>4. CASE ParseStart \/ ParseEnd \/ ParseAttribute
  <2>1. Parsed(st)' /\ phase' = phase
    BY <1>1, <1>2, <1>4, ParseStep
  <2>2. phase = "parsing" /\ UNCHANGED <<buf, doc, marks, nest>>
    BY <1>4 DEF ParseStart, ParseEnd, ParseAttribute, Parsing
  <2>3. Nesting(st)'
    BY <1>2, <2>2 DEF Nesting
  <2> QED BY <2>1, <2>2, <2>3 DEF ParsedWell
<1>5. CASE Read \/ (\E to \in {"reading", "parsing"} : ToBytes(to)) \/ UNCHANGED vars
  <2>1. UNCHANGED <<buf, doc, marks, nest>>
    BY <1>5, ReadingWritesNothing
  <2>2. tree' = tree /\ (phase' = phase \/ phase' \in {"reading", "parsing"})
    BY <1>5 DEF Read, Call, PeekElement, SkipElement, Attributes, DecodeOpen, DecodeClose,
                CloseElementSkipping, ReadAttribute, ReadOpt, ToBytes, vars
  <2>3. Nesting(st)' /\ Parsed(st)'
    BY <1>2, <2>1, <2>2 DEF Nesting, Parsed, Start
  <2> QED BY <2>2, <2>3 DEF ParsedWell
<1> QED BY <1>3, <1>4, <1>5 DEF Next

LEMMA EmptyIsParsedWell == Init => ParsedWell
<1> SUFFICES ASSUME Init PROVE ParsedWell
  OBVIOUS
<1>1. PICK st : Nesting(st) /\ Layout
  BY EmptyIsWrittenWell DEF WrittenWell
<1>2. /\ tree = [pos |-> 0, stack |-> <<>>, items |-> <<>>] /\ phase = "writing"
      /\ doc = <<>> /\ Len(doc) = 0
  BY DEF Init
<1>3. st[0] = <<>> /\ Start(1) = 0
  BY <1>1 DEF Nesting, Layout
<1>4. Parsed(st)
  BY <1>2, <1>3 DEF Parsed
<1> QED BY <1>1, <1>2, <1>4 DEF ParsedWell

LEMMA ParsedIsWritten == WrittenWell /\ ParsedWell => ParsesWhatWasWritten
<1> SUFFICES ASSUME WrittenWell, ParsedWell PROVE ParsesWhatWasWritten
  OBVIOUS
<1>1. PICK st : Nesting(st) /\ Parsed(st)
  BY DEF ParsedWell
<1>2. Layout
  BY DEF WrittenWell
<1>3. /\ tree.items \in Seq(Items) /\ doc \in Seq(Items) /\ Len(tree.items) <= Len(doc)
      /\ \A k \in 1..Len(tree.items) : tree.items[k] = doc[k]
      /\ Len(tree.items) \in Nat /\ Len(doc) \in Nat /\ Len(buf) \in Nat
      /\ tree.pos = Start(Len(tree.items) + 1) /\ Start(Len(doc) + 1) = Len(buf)
      /\ tree.pos \in Nat
  BY <1>1, <1>2, LayoutTypes DEF Parsed, Layout
<1>4. IsPrefix(tree.items, doc)
  <2>1. \A k \in 1..Len(tree.items) : k \in 1..Len(doc)
    BY <1>3
  <2> QED BY <1>3, <2>1 DEF IsPrefix
<1>5. CASE tree.pos < Len(buf)
  <2>1. PICK i \in 1..Len(doc) : tree.pos = Start(i) /\ ReadsBack(i)
    BY <1>1, <1>2, <1>5, ParserIsAtItem
  <2>2. Kind(buf, tree.pos) # 0
    BY <2>1, KindsDiffer DEF ReadsBack
  <2> QED BY <1>4, <1>5, <2>2 DEF ParsesWhatWasWritten, ParsedWell
<1>6. CASE ~(tree.pos < Len(buf))
  <2>1. Len(tree.items) = Len(doc)
    <3>1. SUFFICES ASSUME Len(tree.items) # Len(doc) PROVE FALSE
      OBVIOUS
    <3>2. /\ Len(tree.items) + 1 \in Places /\ Len(doc) + 1 \in Places
          /\ Len(tree.items) + 1 < Len(doc) + 1
      BY <1>3, <3>1 DEF Places
    <3>3. tree.pos < Len(buf)
      BY <1>2, <1>3, <3>2, StartsAscend
    <3> QED BY <1>6, <3>3
  <2>2. tree.items = doc /\ tree.pos = Len(buf)
    BY <1>3, <2>1
  <2> QED BY <1>4, <2>2 DEF ParsesWhatWasWritten, ParsedWell
<1> QED BY <1>5, <1>6

\* parse_tree (dump.py:50-82) fails on no document that the encoder wrote and
\* puts what was written into the tree, in order and in full, whatever was
\* written and however wide the integers are.
THEOREM TreeIsWhatWasWritten == Spec => []ParsesWhatWasWritten
<1>1. Init => WrittenWell /\ ParsedWell
  BY EmptyIsWrittenWell, EmptyIsParsedWell
<1>2. WrittenWell /\ ParsedWell /\ [Next]_vars => WrittenWell' /\ ParsedWell'
  BY WrittenWellKept, ParsedWellKept
<1> QED BY <1>1, <1>2, ParsedIsWritten, PTL DEF Spec

-----------------------------------------------------------------------------
(* Readers that run on until something stops them *)

\* From a position that goes on, the value is that of the next one, changed.
Descends(f, go, next, e, stop) ==
    \A p \in Nat : f[p] = IF p \in go THEN e[p][f[next[p]]] ELSE stop[p]

\* Where only positions of the data go on, and each to one behind it, there is
\* such a function.
LEMMA Descent ==
    ASSUME NEW D, NEW N \in Nat, NEW go, go \subseteq {p \in Nat : p < N},
           NEW next \in [Nat -> Nat], \A p \in go : p < next[p],
           NEW e \in [Nat -> [D -> D]], NEW stop \in [Nat -> D]
    PROVE  \E f \in [Nat -> D] : Descends(f, go, next, e, stop)
<1> DEFINE Right(f, p) == f[p] = IF p \in go THEN e[p][f[next[p]]] ELSE stop[p]
           T == {k \in Nat : \E f \in [Nat -> D] :
                                 \A p \in Nat : p + k >= N => Right(f, p)}
<1>1. 0 \in T
  <2>1. ASSUME NEW p \in Nat, p + 0 >= N PROVE Right(stop, p)
    <3>1. p \notin go
      BY <2>1
    <3> QED BY <3>1
  <2> QED BY <2>1
<1>2. ASSUME NEW k \in 1..N, k - 1 \in T PROVE k \in T
  <2>1. k \in Nat /\ k - 1 \in Nat /\ N - k \in Nat
    OBVIOUS
  <2> DEFINE q == N - k
  <2>2. PICK f \in [Nat -> D] : \A p \in Nat : p + (k - 1) >= N => Right(f, p)
    BY <1>2
  <2> PICK v : v = IF q \in go THEN e[q][f[next[q]]] ELSE stop[q]
    OBVIOUS
  <2>3. v \in D
    BY <2>1
  <2> DEFINE g == [p \in Nat |-> IF p = q THEN v ELSE f[p]]
  <2>4. g \in [Nat -> D]
    BY <2>3
  <2>5. ASSUME NEW p \in Nat, p + k >= N PROVE Right(g, p)
    <3>1. p \in go => p < next[p] /\ next[p] \in Nat
      OBVIOUS
    <3>2. p >= q
      BY <2>1, <2>5
    <3>3. p \in go => next[p] # q /\ g[next[p]] = f[next[p]]
      BY <2>1, <3>1, <3>2
    <3>4. CASE p = q
      <4>1. g[p] = v
        BY <3>4
      <4> HIDE DEF g
      <4> QED BY <3>3, <3>4, <4>1
    <3>5. CASE p # q
      <4>1. p + (k - 1) >= N /\ g[p] = f[p]
        BY <2>1, <3>2, <3>5
      <4>2. Right(f, p)
        BY <2>2, <4>1
      <4> HIDE DEF g
      <4> QED BY <3>3, <4>1, <4>2
    <3> QED BY <3>4, <3>5
  <2> HIDE DEF g, Right
  <2> QED BY <2>1, <2>4, <2>5
<1> HIDE DEF T
<1>3. \A k \in 0..N : k \in T
  BY <1>1, <1>2, Induction
<1>4. N \in T
  BY <1>3
<1>5. PICK f \in [Nat -> D] : \A p \in Nat : p + N >= N => Right(f, p)
  BY <1>4 DEF T
<1>6. \A p \in Nat : p + N >= N
  OBVIOUS
<1>7. Descends(f, go, next, e, stop)
  BY <1>5, <1>6 DEF Descends
<1> QED BY <1>7

-----------------------------------------------------------------------------

\* The positions behind what is read at one.
LEMMA IdEndsBehind ==
    ASSUME NEW data, NEW p \in Nat
    PROVE  IdEnd(data, p) \in Nat /\ p < IdEnd(data, p)
BY DEF IdEnd

LEMMA SkipsForward ==
    ASSUME NEW data \in Payload, NEW p \in Nat
    PROVE  SkipAttrValue(data, p) \in Nat /\ p < SkipAttrValue(data, p)
<1> DEFINE length == LengthCode(data, p)
           number == ReadInteger(data, p + 1, length)
<1>1. length \in Nat
  <2>1. Byte(data, p) \in 0..255
    BY ByteType
  <2> QED BY <2>1 DEF LengthCode
<1>2. number \in Nat
  <2> HIDE DEF length
  <2> QED BY <1>1, ReadIntegerType
<1>3. SkipAttrValue(data, p) \in {p + 1, p + 1 + length + number, p + 1 + length}
  BY DEF SkipAttrValue
<1> HIDE DEF length, number
<1> QED BY <1>1, <1>2, <1>3

KindsOfItems == {ELEMENT_START, ELEMENT_END, ATTRIBUTE}

\* Only bytes have a kind.
LEMMA KindsInData ==
    ASSUME NEW data \in Payload
    PROVE  \A p \in Nat : Kind(data, p) \in KindsOfItems => p < Len(data)
<1>1. Len(data) \in Nat
  BY DEF Payload
<1> QED BY <1>1, NoByteNoKind, KindsDiffer DEF KindsOfItems

\* The function in a definition by recursion is one that the recursion describes.
LEMMA RunEndSteps ==
    ASSUME NEW data \in Payload, NEW p \in Nat
    PROVE  RunEnd(data, p) = IF Kind(data, p) = ATTRIBUTE
                             THEN RunEnd(data, SkipAttrValue(data, IdEnd(data, p)))
                             ELSE p
<1> DEFINE after(q) == SkipAttrValue(data, IdEnd(data, q))
           go == {q \in Nat : Kind(data, q) = ATTRIBUTE}
           next == [q \in Nat |-> after(q)]
           e == [q \in Nat |-> [x \in Nat |-> x]]
           stop == [q \in Nat |-> q]
           end == CHOOSE f : f = [q \in Nat |-> IF Kind(data, q) = ATTRIBUTE
                                                THEN f[after(q)] ELSE q]
<1>1. \A q \in Nat : after(q) \in Nat /\ q < after(q)
  <2> SUFFICES ASSUME NEW q \in Nat PROVE after(q) \in Nat /\ q < after(q)
    OBVIOUS
  <2>1. IdEnd(data, q) \in Nat /\ q < IdEnd(data, q)
    BY IdEndsBehind
  <2>2. after(q) \in Nat /\ IdEnd(data, q) < after(q)
    BY <2>1, SkipsForward
  <2> QED BY <2>1, <2>2
<1>2. \A q \in Nat : RunEnd(data, q) = end[q]
  BY DEF RunEnd
<1> HIDE DEF after
<1>3. PICK f \in [Nat -> Nat] : Descends(f, go, next, e, stop)
  <2>1. go \subseteq {q \in Nat : q < Len(data)}
    BY KindsInData DEF KindsOfItems
  <2>2. next \in [Nat -> Nat] /\ \A q \in go : q < next[q]
    BY <1>1
  <2>3. e \in [Nat -> [Nat -> Nat]] /\ stop \in [Nat -> Nat]
    OBVIOUS
  <2>4. Len(data) \in Nat
    BY DEF Payload
  <2> HIDE DEF go, next, e, stop
  <2> QED BY <2>1, <2>2, <2>3, <2>4, Descent
<1>4. \A q \in Nat : f[q] = IF Kind(data, q) = ATTRIBUTE THEN f[after(q)] ELSE q
  BY <1>1, <1>3 DEF Descends
<1>5. f = [q \in Nat |-> IF Kind(data, q) = ATTRIBUTE THEN f[after(q)] ELSE q]
  BY <1>4
<1>6. end = [q \in Nat |-> IF Kind(data, q) = ATTRIBUTE THEN end[after(q)] ELSE q]
  BY <1>5, Zenon
<1> HIDE DEF end
<1>7. end[p] = IF Kind(data, p) = ATTRIBUTE THEN end[after(p)] ELSE p
  BY <1>6
<1> QED BY <1>1, <1>2, <1>7 DEF after

-----------------------------------------------------------------------------
(* The loops of the decoder *)

\* The attribute at a position.
AttributeAt(data, p) == [kind |-> "attribute", id |-> ReadId(data, p),
                         value |-> AttrValue(data, IdEnd(data, p))]

LEMMA AfterAttribute ==
    ASSUME NEW data \in Payload, NEW q \in Nat
    PROVE  /\ SkipAttrValue(data, IdEnd(data, q)) \in Nat
           /\ q < SkipAttrValue(data, IdEnd(data, q))
<1>1. IdEnd(data, q) \in Nat /\ q < IdEnd(data, q)
  BY IdEndsBehind
<1>2. /\ SkipAttrValue(data, IdEnd(data, q)) \in Nat
      /\ IdEnd(data, q) < SkipAttrValue(data, IdEnd(data, q))
  BY <1>1, SkipsForward
<1> QED BY <1>1, <1>2

LEMMA RunSteps ==
    ASSUME NEW data \in Payload, NEW p \in Nat
    PROVE  Run(data, p) = IF Kind(data, p) = ATTRIBUTE
                          THEN <<AttributeAt(data, p)>>
                               \o Run(data, SkipAttrValue(data, IdEnd(data, p)))
                          ELSE <<>>
<1> DEFINE after(q) == SkipAttrValue(data, IdEnd(data, q))
           found(q) == AttributeAt(data, q)
           All == {found(q) : q \in Nat}
           D == Seq(All)
           go == {q \in Nat : Kind(data, q) = ATTRIBUTE}
           next == [q \in Nat |-> after(q)]
           e == [q \in Nat |-> [x \in D |-> <<found(q)>> \o x]]
           stop == [q \in Nat |-> <<>>]
           run == CHOOSE f : f =
                      [q \in Nat |-> IF Kind(data, q) = ATTRIBUTE
                                      THEN <<found(q)>> \o f[after(q)] ELSE <<>>]
<1>1. \A q \in Nat : after(q) \in Nat /\ q < after(q)
  BY AfterAttribute
<1>2. \A q \in Nat : Run(data, q) = run[q]
  BY DEF Run, AttributeAt
<1>3. \A q \in Nat : found(q) \in All
  OBVIOUS
<1> HIDE DEF after, found, All
<1>4. \A q \in Nat, x \in D : <<found(q)>> \o x \in D
  BY <1>3
<1>5. <<>> \in D
  OBVIOUS
<1> HIDE DEF D
<1>6. PICK f \in [Nat -> D] : Descends(f, go, next, e, stop)
  <2>1. go \subseteq {q \in Nat : q < Len(data)}
    BY KindsInData DEF KindsOfItems
  <2>2. next \in [Nat -> Nat] /\ \A q \in go : q < next[q]
    BY <1>1
  <2>3. e \in [Nat -> [D -> D]] /\ stop \in [Nat -> D]
    BY <1>4, <1>5
  <2>4. Len(data) \in Nat
    BY DEF Payload
  <2> HIDE DEF go, next, e, stop
  <2> QED BY <2>1, <2>2, <2>3, <2>4, Descent
<1>7. \A q \in Nat : f[q] = IF Kind(data, q) = ATTRIBUTE
                            THEN <<found(q)>> \o f[after(q)] ELSE <<>>
  <2> SUFFICES ASSUME NEW q \in Nat
               PROVE  f[q] = IF Kind(data, q) = ATTRIBUTE
                             THEN <<found(q)>> \o f[after(q)] ELSE <<>>
    OBVIOUS
  <2>1. f[q] = IF q \in go THEN e[q][f[next[q]]] ELSE stop[q]
    <3> HIDE DEF go, e, next, stop
    <3> QED BY <1>6 DEF Descends
  <2>2. next[q] = after(q) /\ f[after(q)] \in D /\ stop[q] = <<>>
    BY <1>1
  <2>3. e[q][f[after(q)]] = <<found(q)>> \o f[after(q)]
    BY <2>2
  <2>4. q \in go <=> Kind(data, q) = ATTRIBUTE
    OBVIOUS
  <2> HIDE DEF go, e, next, stop
  <2> QED BY <2>1, <2>2, <2>3, <2>4
<1>8. f = [q \in Nat |-> IF Kind(data, q) = ATTRIBUTE
                         THEN <<found(q)>> \o f[after(q)] ELSE <<>>]
  BY <1>7
<1>9. run = [q \in Nat |-> IF Kind(data, q) = ATTRIBUTE
                           THEN <<found(q)>> \o run[after(q)] ELSE <<>>]
  BY <1>8, Zenon
<1> HIDE DEF run
<1>10. run[p] = IF Kind(data, p) = ATTRIBUTE THEN <<found(p)>> \o run[after(p)] ELSE <<>>
  BY <1>9
<1> QED BY <1>1, <1>2, <1>10 DEF after, found

\* What close_element_skipping counts on its way.
Leaves(end, data) ==
    \A p \in Nat, d \in Nat :
        end[p][d] = CASE Kind(data, p) = ELEMENT_START -> end[IdEnd(data, p)][d + 1]
                      [] Kind(data, p) = ATTRIBUTE ->
                             end[SkipAttrValue(data, IdEnd(data, p))][d]
                      [] Kind(data, p) = ELEMENT_END /\ d > 0 ->
                             end[IdEnd(data, p)][d - 1]
                      [] OTHER -> p

LEMMA EndBehindSteps ==
    ASSUME NEW data \in Payload
    PROVE  \E end : Leaves(end, data) /\ \A p \in Nat : EndBehind(data, p) = end[p][0]
<1> DEFINE beyond(q) == SkipAttrValue(data, IdEnd(data, q))
           after(q) == IF Kind(data, q) = ATTRIBUTE THEN beyond(q) ELSE IdEnd(data, q)
           Step(f, q) == [d \in Nat |->
               CASE Kind(data, q) = ELEMENT_START -> f[IdEnd(data, q)][d + 1]
                 [] Kind(data, q) = ATTRIBUTE -> f[beyond(q)][d]
                 [] Kind(data, q) = ELEMENT_END /\ d > 0 -> f[IdEnd(data, q)][d - 1]
                 [] OTHER -> q]
           D == [Nat -> Nat]
           go == {q \in Nat : Kind(data, q) \in KindsOfItems}
           next == [q \in Nat |-> after(q)]
           change(q, x) == [d \in Nat |->
               CASE Kind(data, q) = ELEMENT_START -> x[d + 1]
                 [] Kind(data, q) = ATTRIBUTE -> x[d]
                 [] Kind(data, q) = ELEMENT_END /\ d > 0 -> x[d - 1]
                 [] OTHER -> q]
           e == [q \in Nat |-> [x \in D |-> change(q, x)]]
           stop == [q \in Nat |-> [d \in Nat |-> q]]
           end == CHOOSE f : f = [q \in Nat |-> Step(f, q)]
<1>1. \A q \in Nat : after(q) \in Nat /\ q < after(q)
  BY AfterAttribute, IdEndsBehind
<1>2. \A q \in Nat : EndBehind(data, q) = end[q][0]
  BY DEF EndBehind
<1>3. \A q \in Nat, x \in D : change(q, x) \in D
  <2> SUFFICES ASSUME NEW q \in Nat, NEW x \in D, NEW d \in Nat
               PROVE  (CASE Kind(data, q) = ELEMENT_START -> x[d + 1]
                         [] Kind(data, q) = ATTRIBUTE -> x[d]
                         [] Kind(data, q) = ELEMENT_END /\ d > 0 -> x[d - 1]
                         [] OTHER -> q) \in Nat
    OBVIOUS
  <2>1. x[d + 1] \in Nat /\ x[d] \in Nat /\ (d > 0 => x[d - 1] \in Nat)
    OBVIOUS
  <2> QED BY <2>1, KindsDiffer
<1> HIDE DEF change, after
<1>4. PICK f \in [Nat -> D] : Descends(f, go, next, e, stop)
  <2>1. go \subseteq {q \in Nat : q < Len(data)}
    BY KindsInData
  <2>2. next \in [Nat -> Nat] /\ \A q \in go : q < next[q]
    BY <1>1
  <2>3. e \in [Nat -> [D -> D]] /\ stop \in [Nat -> D]
    <3>1. \A q \in Nat : stop[q] \in D
      OBVIOUS
    <3> HIDE DEF D
    <3>2. e \in [Nat -> [D -> D]]
      BY <1>3
    <3> QED BY <3>1, <3>2
  <2>4. Len(data) \in Nat
    BY DEF Payload
  <2> HIDE DEF go, next, e, stop, D
  <2> QED BY <2>1, <2>2, <2>3, <2>4, Descent
<1>5. ASSUME NEW q \in Nat PROVE f[q] = Step(f, q)
  <2>1. f[q] = IF q \in go THEN e[q][f[next[q]]] ELSE stop[q]
    <3> HIDE DEF go, e, next, stop
    <3> QED BY <1>4 DEF Descends
  <2>2. next[q] = after(q) /\ f[after(q)] \in D
    BY <1>1
  <2>3. e[q][f[after(q)]] = change(q, f[after(q)])
    <3> HIDE DEF D
    <3> QED BY <2>2
  <2>4. stop[q] = [d \in Nat |-> q] /\ (q \in go <=> Kind(data, q) \in KindsOfItems)
    OBVIOUS
  <2>5. f[q] = IF Kind(data, q) \in KindsOfItems THEN change(q, f[after(q)])
               ELSE [d \in Nat |-> q]
    <3> HIDE DEF go, e, next, stop
    <3> QED BY <2>1, <2>2, <2>3, <2>4
  <2>6. CASE Kind(data, q) \in KindsOfItems
    <3>1. Kind(data, q) = ATTRIBUTE => after(q) = beyond(q)
      BY DEF after
    <3>2. Kind(data, q) # ATTRIBUTE => after(q) = IdEnd(data, q)
      BY DEF after
    <3>3. change(q, f[after(q)]) = Step(f, q)
      BY <3>1, <3>2, KindsDiffer DEF change
    <3> QED BY <2>5, <2>6, <3>3
  <2>7. CASE Kind(data, q) \notin KindsOfItems
    <3>1. Step(f, q) = [d \in Nat |-> q]
      BY <2>7 DEF KindsOfItems
    <3> QED BY <2>5, <2>7, <3>1
  <2> QED BY <2>6, <2>7
<1>6. f = [q \in Nat |-> Step(f, q)]
  <2> HIDE DEF Step
  <2> QED BY <1>5
<1>7. end = [q \in Nat |-> Step(end, q)]
  <2> HIDE DEF Step
  <2> QED BY <1>6, Zenon
<1> HIDE DEF end
<1>8. ASSUME NEW p \in Nat, NEW d \in Nat
      PROVE  end[p][d] = CASE Kind(data, p) = ELEMENT_START -> end[IdEnd(data, p)][d + 1]
                           [] Kind(data, p) = ATTRIBUTE -> end[beyond(p)][d]
                           [] Kind(data, p) = ELEMENT_END /\ d > 0 ->
                                  end[IdEnd(data, p)][d - 1]
                           [] OTHER -> p
  <2>1. end[p] = Step(end, p)
    <3> HIDE DEF Step
    <3> QED BY <1>7
  <2> QED BY <2>1
<1>9. Leaves(end, data)
  BY <1>8 DEF Leaves
<1> QED BY <1>2, <1>9

-----------------------------------------------------------------------------
(* From bytes to items *)

\* Induction from the end of the document back to an item.
LEMMA Backwards ==
    ASSUME NEW n \in Nat, NEW T, n + 1 \in T, \A i \in 1..n : i + 1 \in T => i \in T
    PROVE  \A i \in 1..(n + 1) : i \in T
<1> DEFINE U == {k \in Nat : (n + 1) - k \in T}
<1>1. 0 \in U
  OBVIOUS
<1>2. ASSUME NEW k \in 1..n, k - 1 \in U PROVE k \in U
  <2>1. /\ k \in Nat /\ (n + 1) - k \in 1..n
        /\ ((n + 1) - k) + 1 = (n + 1) - (k - 1)
    OBVIOUS
  <2>2. (n + 1) - (k - 1) \in T
    BY <1>2
  <2> QED BY <2>1, <2>2
<1> HIDE DEF U
<1>3. \A k \in 0..n : k \in U
  BY <1>1, <1>2, Induction
<1>4. ASSUME NEW i \in 1..(n + 1) PROVE i \in T
  <2>1. (n + 1) - i \in 0..n /\ (n + 1) - ((n + 1) - i) = i
    OBVIOUS
  <2>2. (n + 1) - i \in U
    BY <1>3, <2>1
  <2> QED BY <2>1, <2>2 DEF U
<1> QED BY <1>4

LEMMA KindsOfPlaces ==
    ASSUME Layout, NEW i \in Places
    PROVE  /\ Stream!Is(i, "start") <=> Kind(buf, Start(i)) = ELEMENT_START
           /\ Stream!Is(i, "end") <=> Kind(buf, Start(i)) = ELEMENT_END
           /\ Stream!Is(i, "attribute") <=> Kind(buf, Start(i)) = ATTRIBUTE
<1>1. Len(doc) \in Nat /\ Len(buf) \in Nat /\ Start(Len(doc) + 1) = Len(buf)
  BY LayoutTypes
<1>2. CASE i \in 1..Len(doc)
  <2>1. ReadsBack(i)
    BY <1>2, ItemIsReadBack
  <2>2. \/ doc[i].kind = "start" /\ Kind(buf, Start(i)) = ELEMENT_START
        \/ doc[i].kind = "end" /\ Kind(buf, Start(i)) = ELEMENT_END
        \/ doc[i].kind = "attribute" /\ Kind(buf, Start(i)) = ATTRIBUTE
    BY <2>1 DEF ReadsBack
  <2> QED BY <1>2, <2>2, KindsDiffer DEF Stream!Is
<1>3. CASE i = Len(doc) + 1
  <2>1. Kind(buf, Start(i)) = 0 /\ i \notin 1..Len(doc)
    BY <1>1, <1>3, NoByteNoKind
  <2> QED BY <2>1, KindsDiffer DEF Stream!Is
<1> QED BY <1>1, <1>2, <1>3 DEF Places

\* What is read at an item is the item.
LEMMA ReadAtItem ==
    ASSUME Layout, NEW i \in 1..Len(doc)
    PROVE  /\ ReadId(buf, Start(i)) = doc[i].id
           /\ Stream!Is(i, "start") \/ Stream!Is(i, "end") =>
                  IdEnd(buf, Start(i)) = Start(i + 1)
           /\ Stream!Is(i, "attribute") =>
                  /\ SkipAttrValue(buf, IdEnd(buf, Start(i))) = Start(i + 1)
                  /\ AttributeAt(buf, Start(i)) = doc[i]
<1>1. ReadsBack(i) /\ i \in Places
  BY ItemIsReadBack, LayoutTypes DEF Places
<1>2. /\ Stream!Is(i, "start") <=> Kind(buf, Start(i)) = ELEMENT_START
      /\ Stream!Is(i, "end") <=> Kind(buf, Start(i)) = ELEMENT_END
      /\ Stream!Is(i, "attribute") <=> Kind(buf, Start(i)) = ATTRIBUTE
  BY <1>1, KindsOfPlaces
<1> QED BY <1>1, <1>2, KindsDiffer DEF ReadsBack, ValueReadBack, AttributeAt

\* j is the first place from i on without an attribute.
RunsTo(i, j) == /\ j \in i..(Len(doc) + 1) /\ ~Stream!Is(j, "attribute")
                /\ \A k \in i..(j - 1) : Stream!Is(k, "attribute")

\* A run of attributes ends where the document says, and holds what it says.
LEMMA RunFromItem ==
    ASSUME Layout, NEW i \in Places
    PROVE  \E j \in Places : /\ RunsTo(i, j)
                             /\ RunEnd(buf, Start(i)) = Start(j)
                             /\ Run(buf, Start(i)) = SubSeq(doc, i, j - 1)
<1> DEFINE Good(k, j) == /\ RunsTo(k, j)
                         /\ RunEnd(buf, Start(k)) = Start(j)
                         /\ Run(buf, Start(k)) = SubSeq(doc, k, j - 1)
           T == {k \in Places : \E j \in Places : Good(k, j)}
<1>1. /\ Len(doc) \in Nat /\ doc \in Seq(Items) /\ buf \in Payload
      /\ \A k \in Places : Start(k) \in Nat
  BY LayoutTypes DEF Layout
<1>2. ASSUME NEW k \in Places, ~Stream!Is(k, "attribute") PROVE k \in T
  <2>1. k \in Nat /\ k \in k..(Len(doc) + 1) /\ \A m \in k..(k - 1) : FALSE
    BY <1>1 DEF Places
  <2>2. Kind(buf, Start(k)) # ATTRIBUTE
    BY <1>2, KindsOfPlaces
  <2>3. RunEnd(buf, Start(k)) = Start(k) /\ Run(buf, Start(k)) = <<>>
    BY <1>1, <2>2, RunEndSteps, RunSteps
  <2>4. SubSeq(doc, k, k - 1) = <<>>
    BY <1>1, <2>1
  <2>5. Good(k, k)
    BY <1>2, <2>1, <2>3, <2>4 DEF RunsTo
  <2> HIDE DEF Good
  <2> QED BY <2>5
<1>3. Len(doc) + 1 \in T
  <2>1. Len(doc) + 1 \in Places /\ ~Stream!Is(Len(doc) + 1, "attribute")
    BY <1>1 DEF Places, Stream!Is
  <2> HIDE DEF T
  <2> QED BY <1>2, <2>1
<1>4. ASSUME NEW k \in 1..Len(doc), k + 1 \in T PROVE k \in T
  <2>1. k \in Places /\ k \in Nat /\ k + 1 \in Places
    BY <1>1 DEF Places
  <2>2. CASE ~Stream!Is(k, "attribute")
    <3> HIDE DEF T
    <3> QED BY <1>2, <2>1, <2>2
  <2>3. CASE Stream!Is(k, "attribute")
    <3>1. PICK j \in Places : Good(k + 1, j)
      <4> HIDE DEF Good
      <4> QED BY <1>4
    <3>2. j \in Nat /\ k + 1 <= j /\ j <= Len(doc) + 1
      BY <2>1, <3>1, <1>1 DEF RunsTo, Places
    <3>3. RunsTo(k, j)
      <4>1. \A m \in k..(j - 1) : m = k \/ m \in (k + 1)..(j - 1)
        BY <2>1, <3>2
      <4>2. j \in k..(Len(doc) + 1)
        BY <1>1, <2>1, <3>2
      <4> QED BY <2>3, <3>1, <4>1, <4>2 DEF RunsTo
    <3>4. /\ Kind(buf, Start(k)) = ATTRIBUTE
          /\ SkipAttrValue(buf, IdEnd(buf, Start(k))) = Start(k + 1)
          /\ AttributeAt(buf, Start(k)) = doc[k]
      BY <2>1, <2>3, KindsOfPlaces, ReadAtItem
    <3>5. RunEnd(buf, Start(k)) = Start(j)
      BY <1>1, <2>1, <3>1, <3>4, RunEndSteps
    <3>6. Run(buf, Start(k)) = <<doc[k]>> \o SubSeq(doc, k + 1, j - 1)
      BY <1>1, <2>1, <3>1, <3>4, RunSteps
    <3>7. <<doc[k]>> \o SubSeq(doc, k + 1, j - 1) = SubSeq(doc, k, j - 1)
      BY <1>1, <2>1, <3>2
    <3>8. Good(k, j)
      BY <3>3, <3>5, <3>6, <3>7
    <3> HIDE DEF Good
    <3> QED BY <2>1, <3>8
  <2> QED BY <2>2, <2>3
<1> HIDE DEF T, Good
<1>5. \A k \in 1..(Len(doc) + 1) : k \in T
  BY <1>1, <1>3, <1>4, Backwards
<1>6. i \in T
  BY <1>5 DEF Places
<1> QED BY <1>6 DEF T, Good

LEMMA BehindIsIt ==
    ASSUME Layout, NEW i \in Places, NEW j, RunsTo(i, j)
    PROVE  Stream!Behind(i) = j
<1>1. Len(doc) \in Nat /\ i \in Nat
  BY LayoutTypes DEF Places
<1>2. ASSUME NEW m, RunsTo(i, m) PROVE m = j
  <2>1. m \in Nat /\ j \in Nat /\ i <= m /\ i <= j
    BY <1>1, <1>2 DEF RunsTo
  <2>2. ~(m < j)
    <3>1. m < j => m \in i..(j - 1)
      BY <1>1, <2>1
    <3> QED BY <1>2, <3>1 DEF RunsTo
  <2>3. ~(j < m)
    <3>1. j < m => j \in i..(m - 1)
      BY <1>1, <2>1
    <3> QED BY <1>2, <3>1 DEF RunsTo
  <2> QED BY <2>1, <2>2, <2>3
<1>3. Stream!Behind(i) = CHOOSE m \in i..(Len(doc) + 1) :
                             /\ ~Stream!Is(m, "attribute")
                             /\ \A k \in i..(m - 1) : Stream!Is(k, "attribute")
  BY DEF Stream!Behind
<1> DEFINE b == Stream!Behind(i)
<1>4. RunsTo(i, b)
  <2>1. \E m \in i..(Len(doc) + 1) : /\ ~Stream!Is(m, "attribute")
                                     /\ \A k \in i..(m - 1) : Stream!Is(k, "attribute")
    BY DEF RunsTo
  <2> QED BY <1>3, <2>1, Zenon DEF RunsTo
<1> HIDE DEF b
<1>5. b = j
  BY <1>2, <1>4
<1> QED BY <1>5 DEF b

LEMMA RunIsReadBack ==
    ASSUME Layout, NEW i \in Places
    PROVE  /\ Stream!Behind(i) \in Places /\ RunsTo(i, Stream!Behind(i))
           /\ RunEnd(buf, Start(i)) = Start(Stream!Behind(i))
           /\ Run(buf, Start(i)) = SubSeq(doc, i, Stream!Behind(i) - 1)
<1>1. PICK j \in Places : /\ RunsTo(i, j) /\ RunEnd(buf, Start(i)) = Start(j)
                          /\ Run(buf, Start(i)) = SubSeq(doc, i, j - 1)
  BY RunFromItem
<1>2. Stream!Behind(i) = j
  BY <1>1, BehindIsIt
<1> QED BY <1>1, <1>2

-----------------------------------------------------------------------------
(* The end of an element *)

LEMMA StackTypes ==
    ASSUME Layout, NEW st, Nesting(st)
    PROVE  \A k \in 0..Len(doc) : st[k] \in Seq(ElementIds) /\ Len(st[k]) \in Nat
<1>1. ASSUME NEW k \in 0..Len(doc) PROVE st[k] \in Seq(ElementIds)
  BY DEF Nesting
<1> QED BY <1>1

\* How many elements are open behind an item.
LEMMA DepthsFollow ==
    ASSUME Layout, NEW st, Nesting(st), NEW i \in 1..Len(doc)
    PROVE  /\ Stream!Is(i, "start") => Len(st[i]) = Len(st[i - 1]) + 1
           /\ Stream!Is(i, "end") => Len(st[i]) = Len(st[i - 1]) - 1
           /\ Stream!Is(i, "attribute") => Len(st[i]) = Len(st[i - 1])
           /\ Stream!Is(i, "start") \/ Stream!Is(i, "end") \/ Stream!Is(i, "attribute")
           /\ st[i - 1] \in Seq(ElementIds)
           /\ Len(st[i - 1]) \in Nat /\ Len(st[i]) \in Nat
<1>1. /\ i \in 0..Len(doc) /\ i - 1 \in 0..Len(doc)
      /\ doc[i] \in Items
  BY LayoutTypes
<1>2. st[i - 1] \in Seq(ElementIds) /\ Len(st[i - 1]) \in Nat /\ Len(st[i]) \in Nat
  BY <1>1, StackTypes
<1>3. Follows(st[i - 1], doc[i], st[i])
  BY DEF Nesting
<1>4. doc[i].kind \in {"start", "end", "attribute"}
  BY <1>1, ItemKinds
<1>5. CASE doc[i].kind = "start"
  BY <1>2, <1>3, <1>5 DEF Follows, Stream!Is
<1>6. CASE doc[i].kind = "end"
  <2>1. st[i - 1] # <<>> /\ st[i] = SubSeq(st[i - 1], 1, Len(st[i - 1]) - 1)
    BY <1>3, <1>6 DEF Follows
  <2>2. Len(st[i]) = Len(st[i - 1]) - 1
    BY <1>2, <2>1
  <2> QED BY <1>2, <1>6, <2>2 DEF Stream!Is
<1>7. CASE doc[i].kind = "attribute"
  BY <1>2, <1>3, <1>7 DEF Follows, Stream!Is
<1> QED BY <1>4, <1>5, <1>6, <1>7

LEMMA OneKind ==
    ASSUME NEW i
    PROVE  /\ ~(Stream!Is(i, "start") /\ Stream!Is(i, "end"))
           /\ ~(Stream!Is(i, "start") /\ Stream!Is(i, "attribute"))
           /\ ~(Stream!Is(i, "end") /\ Stream!Is(i, "attribute"))
BY DEF Stream!Is

\* With d more elements to leave, j is the end of the last of them, or behind all
\* when the document has no such end.
LeftAt(st, i, d, j) ==
    /\ j \in Places /\ i <= j
    /\ \A k \in (i - 1)..(j - 1) : Len(st[k]) + d >= Len(st[i - 1])
    /\ j <= Len(doc) => Stream!Is(j, "end") /\ Len(st[j]) + d + 1 = Len(st[i - 1])

LEMMA LeaveFromItem ==
    ASSUME Layout, NEW st, Nesting(st), NEW end, Leaves(end, buf)
    PROVE  \A i \in Places : \A d \in Nat :
               \E j \in Places : LeftAt(st, i, d, j) /\ end[Start(i)][d] = Start(j)
<1> DEFINE n == Len(doc)
           Good(i, d) == \E j \in Places :
                             LeftAt(st, i, d, j) /\ end[Start(i)][d] = Start(j)
           T == {i \in Places : \A d \in Nat : Good(i, d)}
<1>1. n \in Nat /\ \A k \in Places : Start(k) \in Nat
  BY LayoutTypes
<1>2. ASSUME NEW p \in Nat, NEW d \in Nat
      PROVE  end[p][d] = CASE Kind(buf, p) = ELEMENT_START -> end[IdEnd(buf, p)][d + 1]
                           [] Kind(buf, p) = ATTRIBUTE ->
                                  end[SkipAttrValue(buf, IdEnd(buf, p))][d]
                           [] Kind(buf, p) = ELEMENT_END /\ d > 0 ->
                                  end[IdEnd(buf, p)][d - 1]
                           [] OTHER -> p
  BY DEF Leaves
<1>3. n + 1 \in T
  <2>1. n + 1 \in Places /\ (n + 1) - 1 = n /\ n \in 0..Len(doc)
    BY <1>1 DEF Places
  <2>2. Kind(buf, Start(n + 1)) = 0
    <3>1. Start(n + 1) = Len(buf) /\ Len(buf) \in Nat
      BY LayoutTypes
    <3> QED BY <3>1, NoByteNoKind
  <2>3. Len(st[n]) \in Nat
    BY <2>1, StackTypes
  <2>4. ASSUME NEW d \in Nat PROVE Good(n + 1, d)
    <3>1. LeftAt(st, n + 1, d, n + 1)
      <4>1. \A k \in ((n + 1) - 1)..((n + 1) - 1) : k = n
        BY <1>1
      <4> QED BY <1>1, <2>1, <2>3, <4>1 DEF LeftAt
    <3>2. end[Start(n + 1)][d] = Start(n + 1)
      <4>1. Start(n + 1) \in Nat
        BY <1>1, <2>1
      <4> QED BY <1>2, <2>2, <4>1, KindsDiffer
    <3> QED BY <2>1, <3>1, <3>2
  <2> HIDE DEF Good
  <2> QED BY <2>1, <2>4
<1>4. ASSUME NEW i \in 1..n, i + 1 \in T PROVE i \in T
  <2>1. /\ i \in Places /\ i + 1 \in Places /\ i \in Nat /\ (i + 1) - 1 = i
        /\ i \in 1..Len(doc) /\ Start(i) \in Nat
    BY <1>1 DEF Places
  <2>2. ASSUME NEW d \in Nat PROVE Good(i + 1, d)
    <3> HIDE DEF Good
    <3> QED BY <1>4
  <2>3. /\ Stream!Is(i, "start") => Len(st[i]) = Len(st[i - 1]) + 1
        /\ Stream!Is(i, "end") => Len(st[i]) = Len(st[i - 1]) - 1
        /\ Stream!Is(i, "attribute") => Len(st[i]) = Len(st[i - 1])
        /\ Stream!Is(i, "start") \/ Stream!Is(i, "end") \/ Stream!Is(i, "attribute")
        /\ Len(st[i - 1]) \in Nat /\ Len(st[i]) \in Nat
    BY <2>1, DepthsFollow
  <2>4. /\ Stream!Is(i, "start") <=> Kind(buf, Start(i)) = ELEMENT_START
        /\ Stream!Is(i, "end") <=> Kind(buf, Start(i)) = ELEMENT_END
        /\ Stream!Is(i, "attribute") <=> Kind(buf, Start(i)) = ATTRIBUTE
        /\ Stream!Is(i, "start") \/ Stream!Is(i, "end") =>
               IdEnd(buf, Start(i)) = Start(i + 1)
        /\ Stream!Is(i, "attribute") =>
               SkipAttrValue(buf, IdEnd(buf, Start(i))) = Start(i + 1)
    BY <2>1, KindsOfPlaces, ReadAtItem
  <2>5. ASSUME NEW d \in Nat, NEW c \in Nat, c + Len(st[i - 1]) = d + Len(st[i]),
               end[Start(i)][d] = end[Start(i + 1)][c]
        PROVE  Good(i, d)
    <3>1. PICK j \in Places : LeftAt(st, i + 1, c, j) /\ end[Start(i + 1)][c] = Start(j)
      BY <2>2, <2>5
    <3>2. j \in Nat /\ i <= j /\ i + 1 <= j
      BY <2>1, <3>1 DEF LeftAt, Places
    <3>3. ASSUME NEW k \in (i - 1)..(j - 1) PROVE Len(st[k]) + d >= Len(st[i - 1])
      <4>1. CASE k = i - 1
        BY <2>3, <4>1
      <4>2. CASE k # i - 1
        <5>1. k \in ((i + 1) - 1)..(j - 1) /\ k \in 0..Len(doc)
          BY <1>1, <2>1, <3>2, <4>2 DEF Places
        <5>2. Len(st[k]) + c >= Len(st[i]) /\ Len(st[k]) \in Nat
          BY <2>1, <3>1, <5>1, StackTypes DEF LeftAt
        <5>3. c + Len(st[i - 1]) = d + Len(st[i]) /\ c \in Nat /\ d \in Nat
          BY <2>5
        <5>4. Len(st[i]) \in Nat /\ Len(st[i - 1]) \in Nat
          BY <2>3
        <5> DEFINE x == Len(st[k])
                   y == Len(st[i])
                   z == Len(st[i - 1])
        <5>5. x \in Nat /\ y \in Nat /\ z \in Nat /\ x + c >= y /\ c + z = d + y
          BY <5>2, <5>3, <5>4
        <5> HIDE DEF x, y, z
        <5>6. x + d >= z
          BY <5>3, <5>5
        <5> QED BY <5>6 DEF x, z
      <4> QED BY <4>1, <4>2
    <3>4. ASSUME j <= Len(doc)
          PROVE  Stream!Is(j, "end") /\ Len(st[j]) + d + 1 = Len(st[i - 1])
      <4>1. Stream!Is(j, "end") /\ Len(st[j]) + c + 1 = Len(st[i])
        BY <2>1, <3>1, <3>4 DEF LeftAt
      <4>2. Len(st[j]) \in Nat
        <5>1. j \in 0..Len(doc)
          BY <1>1, <3>2, <3>4
        <5> QED BY <5>1, StackTypes
      <4>3. \A x, y, z \in Nat : c + y = d + z /\ x + c + 1 = z => x + d + 1 = y
        OBVIOUS
      <4>4. Len(st[j]) + d + 1 = Len(st[i - 1])
        BY <2>3, <2>5, <4>1, <4>2, <4>3
      <4> QED BY <4>1, <4>4
    <3>5. LeftAt(st, i, d, j)
      BY <3>1, <3>2, <3>3, <3>4 DEF LeftAt
    <3> QED BY <2>5, <3>1, <3>5
  <2>6. ASSUME NEW d \in Nat PROVE Good(i, d)
    <3>1. CASE Stream!Is(i, "start")
      <4>1. end[Start(i)][d] = end[Start(i + 1)][d + 1]
        BY <1>2, <2>1, <2>4, <3>1, KindsDiffer
      <4>2. d + 1 \in Nat /\ (d + 1) + Len(st[i - 1]) = d + Len(st[i])
        <5>1. Len(st[i]) = Len(st[i - 1]) + 1
          BY <2>3, <3>1
        <5>2. \A x, y \in Nat : y = x + 1 => (d + 1) + x = d + y
          OBVIOUS
        <5>3. Len(st[i - 1]) \in Nat /\ Len(st[i]) \in Nat
          BY <2>3
        <5>4. (d + 1) + Len(st[i - 1]) = d + Len(st[i])
          BY <5>1, <5>2, <5>3
        <5>5. d + 1 \in Nat
          OBVIOUS
        <5> QED BY <5>4, <5>5
      <4> HIDE DEF Good
      <4> QED BY <2>5, <4>1, <4>2
    <3>2. CASE Stream!Is(i, "attribute")
      <4>1. end[Start(i)][d] = end[Start(i + 1)][d]
        BY <1>2, <2>1, <2>4, <3>2, KindsDiffer
      <4>2. d + Len(st[i - 1]) = d + Len(st[i])
        BY <2>3, <3>2
      <4> HIDE DEF Good
      <4> QED BY <2>5, <4>1, <4>2
    <3>3. CASE Stream!Is(i, "end") /\ d > 0
      <4>1. end[Start(i)][d] = end[Start(i + 1)][d - 1]
        BY <1>2, <2>1, <2>4, <3>3, KindsDiffer
      <4>2. d - 1 \in Nat /\ (d - 1) + Len(st[i - 1]) = d + Len(st[i])
        BY <2>3, <3>3
      <4> HIDE DEF Good
      <4> QED BY <2>5, <4>1, <4>2
    <3>4. CASE Stream!Is(i, "end") /\ ~(d > 0)
      <4>1. end[Start(i)][d] = Start(i)
        BY <1>2, <2>1, <2>4, <3>4, KindsDiffer
      <4>2. \A k \in (i - 1)..(i - 1) : k = i - 1
        BY <2>1
      <4>3. LeftAt(st, i, d, i)
        BY <2>1, <2>3, <3>4, <4>2 DEF LeftAt
      <4> QED BY <2>1, <4>1, <4>3
    <3> QED BY <2>3, <3>1, <3>2, <3>3, <3>4
  <2> HIDE DEF Good
  <2> QED BY <2>1, <2>6
<1> HIDE DEF T, Good
<1>5. \A i \in 1..(n + 1) : i \in T
  <2> HIDE DEF n
  <2> QED BY <1>1, <1>3, <1>4, Backwards
<1> QED BY <1>5 DEF T, Good, Places

LEMMA SameCardinality == \A S : Stream!Cardinality(S) = Cardinality(S)
BY DEF Stream!Cardinality, Cardinality

LEMMA CountSteps ==
    ASSUME NEW kind, NEW i \in Nat, NEW k \in Nat, i <= k + 1
    PROVE  /\ Stream!Count(kind, i, k) \in Nat
           /\ k < i => Stream!Count(kind, i, k) = 0
           /\ i <= k /\ Stream!Is(k, kind) =>
                  Stream!Count(kind, i, k) = Stream!Count(kind, i, k - 1) + 1
           /\ i <= k /\ ~Stream!Is(k, kind) =>
                  Stream!Count(kind, i, k) = Stream!Count(kind, i, k - 1)
<1> DEFINE Here(m) == {x \in i..m : Stream!Is(x, kind)}
<1>1. \A m \in Int : Stream!Count(kind, i, m) = Cardinality(Here(m))
  BY SameCardinality DEF Stream!Count
<1>2. ASSUME NEW m \in Int PROVE IsFiniteSet(Here(m))
  <2>1. IsFiniteSet(i..m)
    BY FS_Interval
  <2>2. Here(m) \subseteq i..m
    OBVIOUS
  <2> QED BY <2>1, <2>2, FS_Subset
<1>3. \A m \in Int : Cardinality(Here(m)) \in Nat
  <2> HIDE DEF Here
  <2> QED BY <1>2, FS_CardinalityType
<1>4. CASE k < i
  <2>1. Here(k) = {}
    BY <1>4
  <2>2. Cardinality(Here(k)) = 0
    BY <2>1, FS_EmptySet
  <2> QED BY <1>1, <1>3, <1>4, <2>2
<1>5. CASE i <= k /\ Stream!Is(k, kind)
  <2>1. Here(k) = Here(k - 1) \cup {k} /\ k \notin Here(k - 1)
    BY <1>5
  <2>2. IsFiniteSet(Here(k - 1))
    BY <1>2
  <2> HIDE DEF Here
  <2>3. Cardinality(Here(k)) = Cardinality(Here(k - 1)) + 1
    BY <2>1, <2>2, FS_AddElement
  <2> QED BY <1>1, <1>3, <1>5, <2>3
<1>6. CASE i <= k /\ ~Stream!Is(k, kind)
  <2>1. Here(k) = Here(k - 1)
    BY <1>6
  <2> HIDE DEF Here
  <2> QED BY <1>1, <1>3, <1>6, <2>1
<1> QED BY <1>4, <1>5, <1>6

\* Starts and ends are counted as the depth changes.
LEMMA DepthsCount ==
    ASSUME Layout, NEW st, Nesting(st), NEW i \in 1..(Len(doc) + 1)
    PROVE  \A k \in (i - 1)..Len(doc) :
               Stream!Count("start", i, k) + Len(st[i - 1])
                   = Stream!Count("end", i, k) + Len(st[k])
<1> DEFINE F(k) == Stream!Count("start", i, k) + Len(st[i - 1])
                       = Stream!Count("end", i, k) + Len(st[k])
           T == {c \in Nat : F(i - 1 + c)}
<1>1. Len(doc) \in Nat /\ i \in Nat /\ i - 1 \in Nat /\ i - 1 \in 0..Len(doc)
  BY LayoutTypes
<1>2. 0 \in T
  <2>1. i - 1 < i /\ i <= (i - 1) + 1 /\ (i - 1) + 0 = i - 1
    BY <1>1
  <2>2. Stream!Count("start", i, i - 1) = 0 /\ Stream!Count("end", i, i - 1) = 0
    BY <1>1, <2>1, CountSteps
  <2> QED BY <2>1, <2>2
<1>3. ASSUME NEW c \in 1..(Len(doc) - (i - 1)), c - 1 \in T PROVE c \in T
  <2> DEFINE k == i - 1 + c
  <2>1. /\ k \in 1..Len(doc) /\ k \in Nat /\ k - 1 \in Nat /\ i <= k /\ i <= (k - 1) + 1
        /\ (i - 1) + (c - 1) = k - 1 /\ c \in Nat
    BY <1>1
  <2>2. F(k - 1)
    BY <1>3, <2>1
  <2> HIDE DEF k
  <2>3. /\ Stream!Is(k, "start") => Len(st[k]) = Len(st[k - 1]) + 1
        /\ Stream!Is(k, "end") => Len(st[k]) = Len(st[k - 1]) - 1
        /\ Stream!Is(k, "attribute") => Len(st[k]) = Len(st[k - 1])
        /\ Stream!Is(k, "start") \/ Stream!Is(k, "end") \/ Stream!Is(k, "attribute")
        /\ Len(st[k - 1]) \in Nat /\ Len(st[k]) \in Nat
    BY <2>1, DepthsFollow
  <2>4. Len(st[i - 1]) \in Nat
    BY <1>1, StackTypes
  <2>5. /\ Stream!Count("start", i, k) \in Nat /\ Stream!Count("end", i, k) \in Nat
        /\ Stream!Count("start", i, k - 1) \in Nat
        /\ Stream!Count("end", i, k - 1) \in Nat
    <3>1. i <= k + 1
      BY <1>1, <2>1
    <3> QED BY <1>1, <2>1, <3>1, CountSteps
  <2> DEFINE x  == Len(st[i - 1])
             y0 == Len(st[k - 1])
             y1 == Len(st[k])
             s0 == Stream!Count("start", i, k - 1)
             s1 == Stream!Count("start", i, k)
             e0 == Stream!Count("end", i, k - 1)
             e1 == Stream!Count("end", i, k)
  <2>6. \/ s1 = s0 + 1 /\ e1 = e0 /\ y1 = y0 + 1
        \/ s1 = s0 /\ e1 = e0 + 1 /\ y1 = y0 - 1
        \/ s1 = s0 /\ e1 = e0 /\ y1 = y0
    <3>0. i <= k + 1
      BY <1>1, <2>1
    <3>1. CASE Stream!Is(k, "start")
      <4>1. ~Stream!Is(k, "end")
        BY <3>1, OneKind
      <4>2. s1 = s0 + 1 /\ e1 = e0
        BY <1>1, <2>1, <3>0, <3>1, <4>1, CountSteps
      <4> QED BY <2>3, <3>1, <4>2
    <3>2. CASE Stream!Is(k, "end")
      <4>1. ~Stream!Is(k, "start")
        BY <3>2, OneKind
      <4>2. s1 = s0 /\ e1 = e0 + 1
        BY <1>1, <2>1, <3>0, <3>2, <4>1, CountSteps
      <4> QED BY <2>3, <3>2, <4>2
    <3>3. CASE Stream!Is(k, "attribute")
      <4>1. ~Stream!Is(k, "start") /\ ~Stream!Is(k, "end")
        BY <3>3, OneKind
      <4>2. s1 = s0 /\ e1 = e0
        BY <1>1, <2>1, <3>0, <4>1, CountSteps
      <4> QED BY <2>3, <3>3, <4>2
    <3> QED BY <2>3, <3>1, <3>2, <3>3
  <2>7. s0 + x = e0 + y0
    BY <2>2
  <2>8. /\ x \in Nat /\ y0 \in Nat /\ y1 \in Nat /\ s0 \in Nat /\ s1 \in Nat
        /\ e0 \in Nat /\ e1 \in Nat
    BY <2>3, <2>4, <2>5
  <2>9. F(k)
    <3>1. s1 + x = e1 + y1
      <4> HIDE DEF x, y0, y1, s0, s1, e0, e1
      <4> QED BY <2>6, <2>7, <2>8
    <3> QED BY <3>1
  <2> HIDE DEF x, y0, y1, s0, s1, e0, e1
  <2> HIDE DEF F
  <2> QED BY <2>1, <2>9 DEF k
<1> HIDE DEF T, F
<1>4. Len(doc) - (i - 1) \in Nat
  BY <1>1
<1>5. \A c \in 0..(Len(doc) - (i - 1)) : c \in T
  BY <1>2, <1>3, <1>4, Induction
<1>6. ASSUME NEW k \in (i - 1)..Len(doc) PROVE F(k)
  <2>1. k - (i - 1) \in 0..(Len(doc) - (i - 1)) /\ i - 1 + (k - (i - 1)) = k
    BY <1>1
  <2>2. k - (i - 1) \in T
    BY <1>5, <2>1
  <2> QED BY <2>1, <2>2 DEF T
<1> QED BY <1>6 DEF F

\* Of a place inside an element, the end that close_element_skipping counts to is
\* the one of that element.
LEMMA EndIsIt ==
    ASSUME Layout, NEW st, Nesting(st), NEW i \in Places, NEW j \in Places,
           LeftAt(st, i, 0, j), j <= Len(doc)
    PROVE  Stream!MatchingEnd(i) = j
<1> DEFINE starts(k) == Stream!Count("start", i, k)
           ends(k) == Stream!Count("end", i, k)
           Is(m) == /\ m \in i..Len(doc) /\ ends(m) = starts(m) + 1
                    /\ \A k \in i..(m - 1) : ends(k) <= starts(k)
<1>1. /\ Len(doc) \in Nat /\ i \in Nat /\ j \in Nat /\ i <= j /\ j \in i..Len(doc)
      /\ i - 1 \in 0..Len(doc)
  BY LayoutTypes DEF Places, LeftAt
<1>2. ASSUME NEW k \in i..Len(doc)
      PROVE  /\ starts(k) \in Nat /\ ends(k) \in Nat /\ Len(st[k]) \in Nat
             /\ Len(st[i - 1]) \in Nat
             /\ starts(k) + Len(st[i - 1]) = ends(k) + Len(st[k])
  <2>1. /\ k \in Nat /\ i <= k + 1 /\ k \in (i - 1)..Len(doc) /\ k \in 0..Len(doc)
        /\ i \in 1..(Len(doc) + 1)
    BY <1>1 DEF Places
  <2>2. starts(k) \in Nat /\ ends(k) \in Nat
    BY <1>1, <2>1, CountSteps
  <2> HIDE DEF starts, ends
  <2>3. starts(k) + Len(st[i - 1]) = ends(k) + Len(st[k])
    BY <2>1, DepthsCount DEF starts, ends
  <2> QED BY <1>1, <2>1, <2>2, <2>3, StackTypes
<1>3. Stream!MatchingEnd(i) = CHOOSE m \in i..Len(doc) :
                                  /\ ends(m) = starts(m) + 1
                                  /\ \A k \in i..(m - 1) : ends(k) <= starts(k)
  BY DEF Stream!MatchingEnd
<1> HIDE DEF starts, ends
<1>4. Is(j)
  <2>1. ends(j) = starts(j) + 1
    <3>1. Len(st[j]) + 0 + 1 = Len(st[i - 1])
      BY DEF LeftAt
    <3>2. /\ starts(j) \in Nat /\ ends(j) \in Nat /\ Len(st[j]) \in Nat
          /\ starts(j) + Len(st[i - 1]) = ends(j) + Len(st[j])
      BY <1>1, <1>2
    <3> QED BY <3>1, <3>2
  <2>2. ASSUME NEW k \in i..(j - 1) PROVE ends(k) <= starts(k)
    <3>1. k \in i..Len(doc) /\ k \in (i - 1)..(j - 1)
      BY <1>1
    <3>2. Len(st[k]) + 0 >= Len(st[i - 1])
      BY <3>1 DEF LeftAt
    <3> QED BY <1>2, <3>1, <3>2
  <2> QED BY <1>1, <2>1, <2>2
<1>5. ASSUME NEW m, Is(m) PROVE m = j
  <2>1. m \in i..Len(doc) /\ m \in Nat /\ i <= m
    BY <1>1, <1>5
  <2>2. ~(m < j)
    <3>1. m < j => m \in i..(j - 1)
      BY <1>1, <2>1
    <3> QED BY <1>2, <1>4, <1>5, <2>1, <3>1
  <2>3. ~(j < m)
    <3>1. j < m => j \in i..(m - 1)
      BY <1>1, <2>1
    <3> QED BY <1>1, <1>2, <1>4, <1>5, <3>1
  <2> QED BY <1>1, <2>1, <2>2, <2>3
<1>6. Is(Stream!MatchingEnd(i))
  <2>1. \E m \in i..Len(doc) : /\ ends(m) = starts(m) + 1
                               /\ \A k \in i..(m - 1) : ends(k) <= starts(k)
    BY <1>4
  <2> QED BY <1>3, <2>1, Zenon
<1> HIDE DEF Is
<1> QED BY <1>5, <1>6

\* What close_element_skipping stops at in a whole document.
LEMMA EndIsReadBack ==
    ASSUME Layout, NEW st, Nesting(st), nest = <<>>, NEW i \in Places
    PROVE  \/ /\ Len(st[i - 1]) = 0
              /\ EndBehind(buf, Start(i)) = Len(buf)
           \/ /\ Len(st[i - 1]) > 0
              /\ Stream!MatchingEnd(i) \in 1..Len(doc) /\ i <= Stream!MatchingEnd(i)
              /\ LeftAt(st, i, 0, Stream!MatchingEnd(i))
              /\ EndBehind(buf, Start(i)) = Start(Stream!MatchingEnd(i))
<1>1. /\ Len(doc) \in Nat /\ i \in Nat /\ i - 1 \in 0..Len(doc) /\ Start(i) \in Nat
      /\ Len(st[i - 1]) \in Nat /\ buf \in Payload /\ Start(Len(doc) + 1) = Len(buf)
  <2>1. Len(doc) \in Nat /\ i \in Nat /\ i - 1 \in 0..Len(doc)
    BY LayoutTypes DEF Places
  <2> QED BY <2>1, LayoutTypes, StackTypes DEF Layout
<1>2. PICK end : Leaves(end, buf) /\ \A p \in Nat : EndBehind(buf, p) = end[p][0]
  BY <1>1, EndBehindSteps
<1>3. PICK j \in Places : LeftAt(st, i, 0, j) /\ end[Start(i)][0] = Start(j)
  BY <1>2, LeaveFromItem
<1>4. EndBehind(buf, Start(i)) = Start(j)
  BY <1>1, <1>2, <1>3
<1>5. CASE j <= Len(doc)
  <2>1. Stream!MatchingEnd(i) = j
    BY <1>3, <1>5, EndIsIt
  <2>2. Len(st[j]) + 0 + 1 = Len(st[i - 1]) /\ i <= j
    BY <1>3, <1>5 DEF LeftAt
  <2>3. j \in 1..Len(doc) /\ j \in 0..Len(doc)
    BY <1>1, <1>5 DEF Places
  <2>4. Len(st[j]) \in Nat
    BY <2>3, StackTypes
  <2>5. Len(st[i - 1]) > 0
    BY <1>1, <2>2, <2>4
  <2> QED BY <1>3, <1>4, <2>1, <2>2, <2>3, <2>5
<1>6. CASE ~(j <= Len(doc))
  <2>1. j = Len(doc) + 1
    BY <1>1, <1>6 DEF Places
  <2>2. Len(doc) \in (i - 1)..(j - 1) /\ st[Len(doc)] = <<>>
    BY <1>1, <2>1 DEF Nesting
  <2>3. Len(st[Len(doc)]) + 0 >= Len(st[i - 1])
    BY <1>3, <2>2 DEF LeftAt
  <2>4. Len(st[i - 1]) = 0
    BY <1>1, <2>2, <2>3
  <2> QED BY <1>1, <1>4, <2>1, <2>4
<1> QED BY <1>5, <1>6

\* The end that skip_element skips to is of the element it began with.
LEMMA SkippedEnd ==
    ASSUME Layout, NEW st, Nesting(st), NEW i \in 1..Len(doc), Stream!Is(i, "start"),
           NEW j \in 1..Len(doc), LeftAt(st, i + 1, 0, j)
    PROVE  doc[j].id = doc[i].id /\ Len(st[j]) = Len(st[i - 1])
<1> DEFINE d == Len(st[i])
           id == doc[i].id
           T == {c \in Nat : st[i + c][d] = id}
<1>1. /\ Len(doc) \in Nat /\ i \in Nat /\ j \in Nat /\ i + 1 <= j
      /\ (i + 1) - 1 = i
  BY LayoutTypes DEF LeftAt
<1>2. \A k \in 0..Len(doc) : st[k] \in Seq(ElementIds) /\ Len(st[k]) \in Nat
  BY StackTypes
<1>3. /\ d = Len(st[i - 1]) + 1 /\ d \in Nat /\ Len(st[i - 1]) \in Nat
      /\ st[i] = Append(st[i - 1], id) /\ st[i - 1] \in Seq(ElementIds)
  <2>1. i - 1 \in 0..Len(doc)
    BY <1>1
  <2>2. st[i] = Append(st[i - 1], id)
    <3>1. Follows(st[i - 1], doc[i], st[i]) /\ doc[i].kind = "start"
      BY DEF Nesting, Stream!Is
    <3> QED BY <3>1 DEF Follows
  <2> QED BY <1>2, <2>1, <2>2
<1>4. \A k \in i..(j - 1) : Len(st[k]) >= d
  <2>1. \A k \in i..(j - 1) : Len(st[k]) + 0 >= d
    BY <1>1 DEF LeftAt
  <2>2. \A k \in i..(j - 1) : k \in 0..Len(doc)
    BY <1>1
  <2> QED BY <1>2, <2>1, <2>2
<1>5. Stream!Is(j, "end") /\ Len(st[j]) + 1 = d
  <2>1. Stream!Is(j, "end") /\ Len(st[j]) + 0 + 1 = d
    BY <1>1 DEF LeftAt
  <2>2. j \in 0..Len(doc)
    BY <1>1
  <2> QED BY <1>2, <2>1, <2>2
<1>6. 0 \in T
  <2>1. st[i][d] = id
    BY <1>3
  <2> QED BY <1>1, <2>1
<1>7. ASSUME NEW c \in 1..(j - 1 - i), c - 1 \in T PROVE c \in T
  <2> DEFINE k == i + c
  <2>1. /\ c \in Nat /\ k \in 1..Len(doc) /\ k - 1 \in 0..Len(doc) /\ i + (c - 1) = k - 1
        /\ k \in i..(j - 1) /\ k - 1 \in i..(j - 1) /\ k \in 0..Len(doc)
    BY <1>1
  <2>2. st[k - 1][d] = id
    BY <1>7, <2>1
  <2> HIDE DEF k
  <2>3. /\ st[k - 1] \in Seq(ElementIds) /\ Len(st[k - 1]) >= d /\ Len(st[k]) >= d
        /\ Len(st[k - 1]) \in Nat /\ d \in 1..Len(st[k - 1])
    BY <1>2, <1>3, <1>4, <2>1
  <2>4. Follows(st[k - 1], doc[k], st[k])
    BY <2>1 DEF Nesting
  <2> HIDE DEF d, id
  <2>5. st[k][d] = st[k - 1][d]
    <3>1. CASE st[k] = Append(st[k - 1], doc[k].id)
      BY <2>3, <3>1
    <3>2. CASE st[k] = SubSeq(st[k - 1], 1, Len(st[k - 1]) - 1)
      <4>1. Len(st[k]) = Len(st[k - 1]) - 1
        BY <2>3, <3>2
      <4>2. d \in 1..(Len(st[k - 1]) - 1)
        BY <2>3, <4>1
      <4> QED BY <2>3, <3>2, <4>2
    <3>3. CASE st[k] = st[k - 1]
      BY <3>3
    <3> QED BY <2>4, <3>1, <3>2, <3>3 DEF Follows
  <2> QED BY <2>1, <2>2, <2>5 DEF k
<1>8. st[j - 1][d] = id
  <2> HIDE DEF T
  <2>1. j - 1 - i \in Nat /\ i + (j - 1 - i) = j - 1
    BY <1>1
  <2>2. \A c \in 0..(j - 1 - i) : c \in T
    BY <1>6, <1>7, <2>1, Induction
  <2>3. j - 1 - i \in T
    BY <2>1, <2>2
  <2> QED BY <2>1, <2>3 DEF T
<1>9. Len(st[j - 1]) = d /\ doc[j].id = st[j - 1][Len(st[j - 1])]
  <2>1. Len(st[j]) = Len(st[j - 1]) - 1 /\ Len(st[j - 1]) \in Nat
    BY <1>5, DepthsFollow
  <2>2. Len(st[j - 1]) = d
    BY <1>3, <1>5, <2>1
  <2>3. Follows(st[j - 1], doc[j], st[j]) /\ doc[j].kind = "end"
    BY <1>5 DEF Nesting, Stream!Is
  <2> QED BY <2>2, <2>3 DEF Follows
<1>10. Len(st[j]) = Len(st[i - 1])
  <2>1. j \in 0..Len(doc)
    BY <1>1
  <2> QED BY <1>2, <1>3, <1>5, <2>1
<1> QED BY <1>8, <1>9, <1>10

-----------------------------------------------------------------------------
(* Where a reader is *)

\* At item at, in elements whose starts are before the items op.
Reader(st, at, op) ==
    /\ at \in Places /\ pos = Start(at)
    /\ op \in Seq(Places) /\ attrStart = [k \in DOMAIN op |-> Start(op[k])]
    /\ Len(op) = Len(st[at - 1])

Reads(st) == raised = FALSE => \E at, op : Reader(st, at, op)

ReadWell ==
    /\ raised \in BOOLEAN
    /\ phase # "reading" => pos = 0 /\ attrStart = <<>> /\ raised = FALSE
    /\ phase # "writing" => nest = <<>>
    /\ \E st : Nesting(st) /\ Reads(st)

\* At and Open are these places.
Located ==
    raised = FALSE =>
        /\ \A at \in Places : pos = Start(at) => At = at
        /\ \A op \in Seq(Places) :
               attrStart = [k \in DOMAIN op |-> Start(op[k])] => Open = op

LEMMA LayoutLocates == Layout => Located
<1> SUFFICES ASSUME Layout, raised = FALSE
             PROVE  /\ \A at \in Places : pos = Start(at) => At = at
                    /\ \A op \in Seq(Places) :
                           attrStart = [k \in DOMAIN op |-> Start(op[k])] => Open = op
  BY DEF Located
<1>1. /\ Len(doc) \in Nat /\ DOMAIN marks = 1..Len(doc) /\ Start(Len(doc) + 1) = Len(buf)
      /\ \A i \in 1..Len(doc) : marks[i] = Start(i) /\ i \in Places
      /\ Len(doc) + 1 \in Places
  <2>1. marks \in Seq(Nat) /\ Len(marks) = Len(doc)
    BY DEF Layout
  <2> QED BY <2>1, LayoutTypes DEF Start, Places
<1>2. ASSUME NEW at \in Places, pos = Start(at) PROVE At = at
  <2>1. CASE at = Len(doc) + 1
    BY <1>1, <1>2, <2>1 DEF At
  <2>2. CASE at # Len(doc) + 1
    <3>1. at \in 1..Len(doc)
      BY <1>1, <2>2 DEF Places
    <3>2. pos # Len(buf)
      BY <1>1, <1>2, <2>2, StartsDiffer
    <3>3. at \in DOMAIN marks /\ marks[at] = pos
      BY <1>1, <1>2, <3>1
    <3>4. ASSUME NEW i \in DOMAIN marks, marks[i] = pos PROVE i = at
      <4>1. i \in Places /\ Start(i) = Start(at)
        BY <1>1, <1>2, <3>4
      <4> QED BY <4>1, StartsDiffer
    <3>5. At = CHOOSE i \in DOMAIN marks : marks[i] = pos
      BY <3>2, <3>3 DEF At
    <3> QED BY <3>3, <3>4, <3>5
  <2> QED BY <2>1, <2>2
<1>3. ASSUME NEW op \in Seq(Places), attrStart = [k \in DOMAIN op |-> Start(op[k])]
      PROVE  Open = op
  <2> DEFINE place(k) == CHOOSE i \in 1..(Len(doc) + 1) :
                             attrStart[k] = IF i <= Len(doc) THEN marks[i] ELSE Len(buf)
  <2>1. Open = [k \in DOMAIN op |-> place(k)]
    BY <1>3 DEF Open
  <2>2. ASSUME NEW k \in DOMAIN op PROVE place(k) = op[k]
    <3>1. op[k] \in Places /\ attrStart[k] = Start(op[k])
      BY <1>3
    <3>2. place(k) = CHOOSE i \in Places : attrStart[k] = Start(i)
      BY DEF Places, Start
    <3>3. \A i \in Places : attrStart[k] = Start(i) => i = op[k]
      BY <3>1, StartsDiffer
    <3> HIDE DEF place
    <3> QED BY <3>1, <3>2, <3>3
  <2> HIDE DEF place
  <2>3. op = [k \in DOMAIN op |-> op[k]]
    OBVIOUS
  <2> QED BY <2>1, <2>2, <2>3
<1> QED BY <1>2, <1>3

LEMMA LaterLocated == Layout' => Located'
BY LayoutLocates, PTL

\* A call that goes to a place, and one that raises.
LEMMA Goes ==
    ASSUME Layout, NEW st, Nesting(st), raised' = FALSE,
           UNCHANGED <<buf, doc, marks, nest>>,
           NEW at \in Places, pos' = Start(at),
           NEW op \in Seq(Places), attrStart' = [k \in DOMAIN op |-> Start(op[k])],
           Len(op) = Len(st[at - 1])
    PROVE  At' = at /\ Open' = op /\ Reads(st)' /\ Nesting(st)'
<1>1. Layout'
  BY DEF Layout, Placed, Start
<1>2. Located'
  BY <1>1, LaterLocated
<1>3. \A i \in Places : Start(i)' = Start(i)
  BY DEF Start
<1>4. Places' = Places
  BY DEF Places
<1>5. /\ at \in Places' /\ pos' = Start(at)'
      /\ op \in Seq(Places') /\ attrStart' = [k \in DOMAIN op |-> Start(op[k])']
  BY <1>3, <1>4
<1>6. At' = at /\ Open' = op
  BY <1>2, <1>5 DEF Located
<1>7. Reader(st, at, op)'
  BY <1>5 DEF Reader
<1>8. Nesting(st)'
  BY DEF Nesting
<1> QED BY <1>6, <1>7, <1>8 DEF Reads

LEMMA Stops ==
    ASSUME raised' = TRUE
    PROVE  At' = 0 /\ Open' = <<>> /\ \A st : Reads(st)'
BY DEF At, Open, Reads

-----------------------------------------------------------------------------
(* Each call of the decoder is a call of the stream *)

\* A reader of a whole document that has not raised.
AtCall(st, at, op) ==
    /\ Layout /\ Nesting(st) /\ Reader(st, at, op)
    /\ nest = <<>> /\ phase = "reading" /\ raised = FALSE

LEMMA AtCallFacts ==
    ASSUME NEW st, NEW at, NEW op, AtCall(st, at, op)
    PROVE  /\ Layout /\ Nesting(st) /\ raised = FALSE /\ nest = <<>>
           /\ At = at /\ Open = op
           /\ at \in Places /\ at \in Nat /\ Len(doc) \in Nat
           /\ pos = Start(at) /\ pos \in Nat
           /\ Stream!Is(at, "start") <=> KindHere = ELEMENT_START
           /\ Stream!Is(at, "end") <=> KindHere = ELEMENT_END
           /\ Stream!Is(at, "start") \/ Stream!Is(at, "end") =>
                  /\ at \in 1..Len(doc) /\ at + 1 \in Places
                  /\ IdHere = doc[at].id /\ IdEnd(buf, pos) = Start(at + 1)
<1>1. /\ Layout /\ Nesting(st) /\ raised = FALSE /\ nest = <<>>
      /\ at \in Places /\ pos = Start(at)
      /\ op \in Seq(Places) /\ attrStart = [k \in DOMAIN op |-> Start(op[k])]
      /\ Len(op) = Len(st[at - 1])
  BY DEF AtCall, Reader
<1>2. At = at /\ Open = op
  BY <1>1, LayoutLocates DEF Located
<1>3. Len(doc) \in Nat /\ at \in Nat /\ pos \in Nat
  BY <1>1, LayoutTypes DEF Places
<1>5. /\ Stream!Is(at, "start") <=> KindHere = ELEMENT_START
      /\ Stream!Is(at, "end") <=> KindHere = ELEMENT_END
  BY <1>1, KindsOfPlaces DEF KindHere
<1>6. ASSUME Stream!Is(at, "start") \/ Stream!Is(at, "end")
      PROVE  /\ at \in 1..Len(doc) /\ at + 1 \in Places
             /\ IdHere = doc[at].id /\ IdEnd(buf, pos) = Start(at + 1)
  <2>1. at \in 1..Len(doc)
    BY <1>6 DEF Stream!Is
  <2>2. at + 1 \in Places
    BY <1>3, <2>1 DEF Places
  <2> QED BY <1>1, <1>6, <2>1, <2>2, ReadAtItem DEF IdHere
<1> QED BY <1>1, <1>2, <1>3, <1>5, <1>6

LEMMA AttrStartIsOpen ==
    ASSUME NEW st, NEW at, NEW op, AtCall(st, at, op)
    PROVE  /\ op \in Seq(Places) /\ attrStart = [k \in DOMAIN op |-> Start(op[k])]
           /\ attrStart \in Seq(Nat) /\ Len(attrStart) = Len(op)
           /\ (attrStart = <<>>) <=> (op = <<>>)
           /\ Len(op) = Len(st[at - 1])
<1>1. /\ op \in Seq(Places) /\ attrStart = [k \in DOMAIN op |-> Start(op[k])]
      /\ Len(op) = Len(st[at - 1])
  BY DEF AtCall, Reader
<1>2. DOMAIN op = 1..Len(op) /\ Len(op) \in Nat
  BY <1>1
<1>3. \A i \in Places : Start(i) \in Nat
  BY LayoutTypes DEF AtCall
<1>4. attrStart \in Seq(Nat)
  BY <1>1, <1>2, <1>3
<1>5. Len(attrStart) = Len(op)
  BY <1>1, <1>2
<1>6. (attrStart = <<>>) <=> (op = <<>>)
  BY <1>1, <1>4, <1>5
<1> QED BY <1>1, <1>4, <1>5, <1>6

LEMMA StreamCall ==
    ASSUME NEW st, NEW at, NEW op, AtCall(st, at, op), Call
    PROVE  Stream!Call /\ UNCHANGED <<buf, doc, marks, nest>> /\ phase' = phase
BY DEF AtCall, Call, Stream!Call

LEMMA RaiseIsStream ==
    ASSUME Raise
    PROVE  raised' = TRUE /\ Stream!Raises /\ \A st : Reads(st)'
BY Stops DEF Raise, Stream!Raises, Stream!Nothing

\* A call that returns and leaves the reader where it is.
LEMMA StaysIsStream ==
    ASSUME NEW st, NEW at, NEW op, AtCall(st, at, op), Call,
           NEW a, Return(a), UNCHANGED <<pos, attrStart>>
    PROVE  Stream!Returns(a) /\ At' = At /\ Open' = Open /\ Reads(st)'
<1>1. /\ Layout /\ Nesting(st) /\ raised = FALSE /\ At = at /\ Open = op
      /\ at \in Places /\ pos = Start(at)
      /\ op \in Seq(Places) /\ attrStart = [k \in DOMAIN op |-> Start(op[k])]
      /\ Len(op) = Len(st[at - 1])
  BY AtCallFacts DEF AtCall, Reader
<1>2. UNCHANGED <<buf, doc, marks, nest>>
  BY StreamCall
<1>3. /\ raised' = FALSE /\ pos' = Start(at)
      /\ attrStart' = [k \in DOMAIN op |-> Start(op[k])]
      /\ answer' = a
  BY <1>1 DEF Return
<1>4. At' = at /\ Open' = op /\ Reads(st)'
  BY <1>1, <1>2, <1>3, Goes
<1> QED BY <1>1, <1>3, <1>4 DEF Stream!Returns

\* A call that returns with the reader at another place.
LEMMA GoesIsStream ==
    ASSUME NEW st, NEW at, NEW op, AtCall(st, at, op), Call, NEW a, Return(a),
           NEW at2 \in Places, pos' = Start(at2),
           NEW op2 \in Seq(Places), attrStart' = [k \in DOMAIN op2 |-> Start(op2[k])],
           Len(op2) = Len(st[at2 - 1])
    PROVE  Stream!Returns(a) /\ At' = at2 /\ Open' = op2 /\ Reads(st)'
<1>1. Layout /\ Nesting(st) /\ raised = FALSE
  BY AtCallFacts
<1>2. UNCHANGED <<buf, doc, marks, nest>>
  BY StreamCall
<1>3. raised' = FALSE /\ answer' = a
  BY <1>1 DEF Return
<1>4. At' = at2 /\ Open' = op2 /\ Reads(st)'
  BY <1>1, <1>2, <1>3, Goes
<1> QED BY <1>3, <1>4 DEF Stream!Returns

LEMMA PeekIsStream ==
    ASSUME NEW st, NEW at, NEW op, AtCall(st, at, op), PeekElement
    PROVE  Stream!Peek /\ Reads(st)'
<1> DEFINE a == IF KindHere = ELEMENT_START THEN <<"id", IdHere>> ELSE <<"nothing">>
<1>1. Call /\ Return(a) /\ UNCHANGED <<pos, attrStart>>
  BY DEF PeekElement
<1>2. a = IF Stream!Is(At, "start") THEN <<"id", doc[At].id>> ELSE Stream!Nothing
  BY AtCallFacts DEF Stream!Nothing
<1> HIDE DEF a
<1>3. Stream!Returns(a) /\ At' = At /\ Open' = Open /\ Reads(st)'
  BY <1>1, StaysIsStream
<1>4. Stream!Call
  BY <1>1, StreamCall
<1> QED BY <1>2, <1>3, <1>4 DEF Stream!Peek

\* Attributes open and close nothing.
LEMMA RunKeepsDepth ==
    ASSUME Layout, NEW st, Nesting(st), NEW i \in Places, NEW j \in Places, RunsTo(i, j)
    PROVE  Len(st[j - 1]) = Len(st[i - 1])
<1> DEFINE T == {c \in Nat : Len(st[i - 1 + c]) = Len(st[i - 1])}
<1>1. Len(doc) \in Nat /\ i \in Nat /\ j \in Nat /\ i <= j /\ j <= Len(doc) + 1
  BY LayoutTypes DEF Places, RunsTo
<1>2. 0 \in T
  <2>1. i - 1 + 0 = i - 1
    BY <1>1
  <2> QED BY <2>1
<1>3. ASSUME NEW c \in 1..(j - i), c - 1 \in T PROVE c \in T
  <2> DEFINE k == i - 1 + c
  <2>1. /\ c \in Nat /\ k \in i..(j - 1) /\ k \in 1..Len(doc) /\ (i - 1) + (c - 1) = k - 1
    BY <1>1 DEF Places
  <2> HIDE DEF k
  <2>2. Len(st[k]) = Len(st[k - 1])
    BY <2>1, DepthsFollow DEF RunsTo
  <2>3. Len(st[k - 1]) = Len(st[i - 1])
    BY <1>3, <2>1
  <2> QED BY <2>1, <2>2, <2>3 DEF k
<1> HIDE DEF T
<1>4. j - i \in Nat /\ i - 1 + (j - i) = j - 1
  BY <1>1
<1>5. \A c \in 0..(j - i) : c \in T
  BY <1>2, <1>3, <1>4, Induction
<1>6. j - i \in T
  BY <1>4, <1>5
<1> QED BY <1>4, <1>6 DEF T

LEMMA OpenIsStream ==
    ASSUME NEW st, NEW at, NEW op, AtCall(st, at, op), NEW expect, DecodeOpen(expect)
    PROVE  Stream!Open(expect) /\ Reads(st)'
<1>1. /\ Layout /\ Nesting(st) /\ raised = FALSE /\ At = at /\ Open = op
      /\ at \in Places /\ at \in Nat /\ Len(doc) \in Nat
      /\ Stream!Is(at, "start") <=> KindHere = ELEMENT_START
      /\ Stream!Is(at, "start") =>
             /\ at \in 1..Len(doc) /\ at + 1 \in Places
             /\ IdHere = doc[at].id /\ IdEnd(buf, pos) = Start(at + 1)
  <2>1. Stream!Is(at, "start") \/ Stream!Is(at, "end") =>
            /\ at \in 1..Len(doc) /\ at + 1 \in Places
            /\ IdHere = doc[at].id /\ IdEnd(buf, pos) = Start(at + 1)
    BY AtCallFacts, Zenon
  <2>2. Layout /\ Nesting(st) /\ raised = FALSE /\ At = at /\ Open = op
    BY AtCallFacts
  <2>3. at \in Places /\ at \in Nat /\ Len(doc) \in Nat
    BY AtCallFacts
  <2>4. Stream!Is(at, "start") <=> KindHere = ELEMENT_START
    BY AtCallFacts
  <2> QED BY <2>1, <2>2, <2>3, <2>4
<1>2. /\ op \in Seq(Places) /\ attrStart = [k \in DOMAIN op |-> Start(op[k])]
      /\ attrStart \in Seq(Nat) /\ Len(attrStart) = Len(op) /\ Len(op) = Len(st[at - 1])
  BY AttrStartIsOpen
<1>3. Call /\ Stream!Call
  BY StreamCall DEF DecodeOpen
<1>4. CASE KindHere = ELEMENT_START /\ expect \in {None, IdHere}
  <2>1. /\ attrStart' = Append(attrStart, Start(at + 1))
        /\ pos' = RunEnd(buf, Start(at + 1)) /\ Return(<<"id", doc[at].id>>)
    BY <1>1, <1>4 DEF DecodeOpen
  <2>2. PICK to : to = Stream!Behind(at + 1)
    OBVIOUS
  <2>3. PICK in : in = Append(op, at + 1)
    OBVIOUS
  <2>4. to \in Places /\ RunsTo(at + 1, to) /\ pos' = Start(to)
    BY <1>1, <1>4, <2>1, <2>2, RunIsReadBack
  <2>5. in \in Seq(Places) /\ Len(in) = Len(op) + 1
    BY <1>1, <1>2, <1>4, <2>3
  <2>6. attrStart' = [k \in DOMAIN in |-> Start(in[k])]
    BY <1>1, <1>2, <1>4, <2>1, <2>3
  <2>7. Len(in) = Len(st[to - 1])
    <3>1. Len(st[at]) = Len(st[at - 1]) + 1
      BY <1>1, <1>4, DepthsFollow
    <3>2. Len(st[to - 1]) = Len(st[(at + 1) - 1])
      BY <1>1, <1>4, <2>4, RunKeepsDepth
    <3>3. (at + 1) - 1 = at
      BY <1>1
    <3> QED BY <1>2, <2>5, <3>1, <3>2, <3>3
  <2>8. Stream!Returns(<<"id", doc[at].id>>) /\ At' = to /\ Open' = in /\ Reads(st)'
    BY <1>3, <2>1, <2>4, <2>5, <2>6, <2>7, GoesIsStream
  <2> QED BY <1>1, <1>3, <1>4, <2>2, <2>3, <2>8 DEF Stream!Open
<1>5. CASE ~(KindHere = ELEMENT_START /\ expect \in {None, IdHere})
  <2>1. Raise
    BY <1>5 DEF DecodeOpen
  <2>2. Stream!Raises /\ Reads(st)'
    BY <2>1, RaiseIsStream
  <2> QED BY <1>1, <1>3, <1>5, <2>2 DEF Stream!Open
<1> QED BY <1>4, <1>5

\* Without the last element.
LEMMA PopIsLeave ==
    ASSUME NEW op \in Seq(Places), attrStart = [k \in DOMAIN op |-> Start(op[k])],
           attrStart \in Seq(Nat), Len(attrStart) = Len(op), Len(op) > 0
    PROVE  LET out == SubSeq(op, 1, Len(op) - 1) IN
               /\ out \in Seq(Places) /\ Len(out) = Len(op) - 1
               /\ Pop = [k \in DOMAIN out |-> Start(out[k])]
<1> DEFINE n == Len(op) - 1
           out == SubSeq(op, 1, n)
<1>1. Len(op) \in Nat /\ n \in Nat /\ n <= Len(op)
  OBVIOUS
<1>2. out \in Seq(Places) /\ Len(out) = n /\ DOMAIN out = 1..n
  <2> HIDE DEF n
  <2>1. \A k \in 1..n : op[k] \in Places
    BY <1>1
  <2>2. out = [k \in 1..n |-> op[k]]
    BY <1>1
  <2> QED BY <1>1, <2>1, <2>2
<1>3. \A k \in 1..n : out[k] = op[k] /\ k \in DOMAIN op
  BY <1>1
<1>4. Pop = SubSeq(attrStart, 1, n)
  BY DEF Pop
<1>5. SubSeq(attrStart, 1, n) = [k \in 1..n |-> attrStart[k]]
  BY <1>1
<1> HIDE DEF out
<1>6. Pop = [k \in DOMAIN out |-> Start(out[k])]
  BY <1>2, <1>3, <1>4, <1>5
<1> QED BY <1>2, <1>6 DEF out

\* An element is closed at an item where one ends.
LEMMA ClosesIsStream ==
    ASSUME NEW st, NEW at, NEW op, AtCall(st, at, op), Call,
           NEW id, NEW j \in 1..Len(doc),
           Stream!Is(j, "end"), Len(st[j]) + 1 = Len(op), CloseAt(Start(j), id)
    PROVE  /\ doc[j].id = id =>
                  /\ Stream!Returns(Stream!Nothing) /\ At' = j + 1
                  /\ Open' = SubSeq(op, 1, Len(op) - 1)
           /\ doc[j].id # id => Stream!Raises
           /\ Reads(st)'
<1>1. Layout /\ Nesting(st)
  BY AtCallFacts
<1>2. /\ op \in Seq(Places) /\ attrStart = [k \in DOMAIN op |-> Start(op[k])]
      /\ attrStart \in Seq(Nat) /\ Len(attrStart) = Len(op)
  BY AttrStartIsOpen
<1>3. /\ Len(doc) \in Nat /\ j \in Nat /\ j \in 0..Len(doc)
      /\ j \in Places /\ j + 1 \in Places
      /\ (j + 1) - 1 = j
  <2>1. Len(doc) \in Nat
    BY <1>1, LayoutTypes
  <2> QED BY <2>1 DEF Places
<1>4. Len(st[j]) \in Nat /\ Len(op) \in Nat
  <2>1. Len(st[j]) \in Nat
    BY <1>1, <1>3, StackTypes
  <2>2. op \in Seq(Places)
    BY AttrStartIsOpen
  <2> QED BY <2>1, <2>2
<1>5. /\ Kind(buf, Start(j)) = ELEMENT_END /\ ReadId(buf, Start(j)) = doc[j].id
      /\ IdEnd(buf, Start(j)) = Start(j + 1)
  BY <1>1, <1>3, KindsOfPlaces, ReadAtItem
<1>6. CASE doc[j].id = id
  <2>1. PICK out : out = SubSeq(op, 1, Len(op) - 1)
    OBVIOUS
  <2>2. Len(op) > 0
    BY <1>4
  <2>3. out \in Seq(Places) /\ Len(out) = Len(op) - 1
        /\ Pop = [k \in DOMAIN out |-> Start(out[k])]
    BY <1>2, <2>1, <2>2, PopIsLeave
  <2>4. attrStart' = Pop /\ Return(<<"nothing">>) /\ pos' = Start(j + 1)
    BY <1>5, <1>6 DEF CloseAt
  <2>5. Len(out) = Len(st[(j + 1) - 1])
    BY <1>3, <1>4, <2>3
  <2>6. attrStart' = [k \in DOMAIN out |-> Start(out[k])]
    BY <2>3, <2>4
  <2>7. Stream!Returns(<<"nothing">>) /\ At' = j + 1 /\ Open' = out /\ Reads(st)'
    BY <1>3, <2>3, <2>4, <2>5, <2>6, GoesIsStream
  <2> QED BY <1>6, <2>1, <2>7 DEF Stream!Nothing
<1>7. CASE doc[j].id # id
  <2>1. Raise
    BY <1>5, <1>7 DEF CloseAt
  <2> QED BY <1>7, <2>1, RaiseIsStream
<1> QED BY <1>6, <1>7

LEMMA CloseIsStream ==
    ASSUME NEW st, NEW at, NEW op, AtCall(st, at, op), NEW id, DecodeClose(id)
    PROVE  Stream!Close(id) /\ Reads(st)'
<1>1. Call /\ CloseAt(pos, id)
  BY DEF DecodeClose
<1>2. Stream!Call
  BY <1>1, StreamCall
<1>3. Layout /\ Nesting(st) /\ At = at /\ Open = op /\ pos = Start(at)
  <2>1. At = at /\ Open = op
    BY AtCallFacts
  <2> QED BY <2>1 DEF AtCall, Reader
<1>4. CASE Stream!Is(at, "end")
  <2>1. at \in 1..Len(doc)
    BY <1>4 DEF Stream!Is
  <2>2. /\ Len(st[at]) = Len(st[at - 1]) - 1
        /\ Len(st[at - 1]) \in Nat /\ Len(st[at]) \in Nat
    BY <1>3, <1>4, <2>1, DepthsFollow
  <2>3. Len(op) = Len(st[at - 1])
    BY AttrStartIsOpen
  <2>4. Len(st[at]) + 1 = Len(op)
    BY <2>2, <2>3
  <2>5. /\ doc[at].id = id =>
               /\ Stream!Returns(Stream!Nothing) /\ At' = at + 1
               /\ Open' = SubSeq(op, 1, Len(op) - 1)
        /\ doc[at].id # id => Stream!Raises
        /\ Reads(st)'
    BY <1>1, <1>3, <1>4, <2>1, <2>4, ClosesIsStream
  <2> QED BY <1>2, <1>3, <1>4, <2>5 DEF Stream!Close, Stream!Leave
<1>5. CASE ~Stream!Is(at, "end")
  <2>1. Kind(buf, pos) # ELEMENT_END
    BY <1>5, AtCallFacts DEF KindHere
  <2>2. Raise
    BY <1>1, <2>1 DEF CloseAt
  <2> QED BY <1>2, <1>3, <1>5, <2>2, RaiseIsStream DEF Stream!Close
<1> QED BY <1>4, <1>5

LEMMA CloseSkippingIsStream ==
    ASSUME NEW st, NEW at, NEW op, AtCall(st, at, op), NEW id, CloseElementSkipping(id)
    PROVE  Stream!CloseSkipping(id) /\ Reads(st)'
<1>1. Call /\ CloseAt(EndBehind(buf, pos), id)
  BY DEF CloseElementSkipping
<1>2. Stream!Call
  BY <1>1, StreamCall
<1>3. /\ Layout /\ Nesting(st) /\ At = at /\ Open = op /\ pos = Start(at) /\ nest = <<>>
      /\ at \in Places
  <2>1. At = at /\ Open = op
    BY AtCallFacts
  <2> QED BY <2>1 DEF AtCall, Reader
<1>4. op \in Seq(Places) /\ Len(op) = Len(st[at - 1])
  BY AttrStartIsOpen
<1>5. CASE op = <<>>
  <2>1. Len(st[at - 1]) = 0
    BY <1>4, <1>5
  <2>2. EndBehind(buf, pos) = Len(buf) /\ Len(buf) \in Nat
    BY <1>3, <2>1, EndIsReadBack, LayoutTypes
  <2>3. Kind(buf, EndBehind(buf, pos)) # ELEMENT_END
    <3>1. Kind(buf, Len(buf)) = 0
      BY <2>2, NoByteNoKind
    <3> QED BY <2>2, <3>1, KindsDiffer
  <2>4. Raise
    BY <1>1, <2>3 DEF CloseAt
  <2> QED BY <1>2, <1>3, <1>5, <2>4, RaiseIsStream DEF Stream!CloseSkipping
<1>6. CASE op # <<>>
  <2>1. Len(st[at - 1]) # 0
    BY <1>4, <1>6
  <2>2. PICK j : j = Stream!MatchingEnd(at)
    OBVIOUS
  <2>3. /\ j \in 1..Len(doc) /\ LeftAt(st, at, 0, j) /\ EndBehind(buf, pos) = Start(j)
    BY <1>3, <2>1, <2>2, EndIsReadBack
  <2>4. Stream!Is(j, "end") /\ Len(st[j]) + 0 + 1 = Len(st[at - 1]) /\ Len(st[j]) \in Nat
    <3>1. j <= Len(doc) /\ j \in 0..Len(doc)
      BY <1>3, <2>3, LayoutTypes
    <3> QED BY <1>3, <2>3, <3>1, StackTypes DEF LeftAt
  <2>5. Len(st[j]) + 1 = Len(op)
    BY <1>4, <2>4
  <2>6. /\ doc[j].id = id =>
               /\ Stream!Returns(Stream!Nothing) /\ At' = j + 1
               /\ Open' = SubSeq(op, 1, Len(op) - 1)
        /\ doc[j].id # id => Stream!Raises
        /\ Reads(st)'
    BY <1>1, <2>3, <2>4, <2>5, ClosesIsStream
  <2> QED BY <1>2, <1>3, <1>6, <2>2, <2>6 DEF Stream!CloseSkipping, Stream!Leave
<1> QED BY <1>5, <1>6

LEMMA SkipIsStream ==
    ASSUME NEW st, NEW at, NEW op, AtCall(st, at, op), SkipElement
    PROVE  Stream!Skip /\ Reads(st)'
<1>1. Call
  BY DEF SkipElement
<1>2. Stream!Call
  BY <1>1, StreamCall
<1>3. /\ Layout /\ Nesting(st) /\ At = at /\ Open = op /\ pos = Start(at) /\ nest = <<>>
      /\ at \in Places /\ at \in Nat /\ Len(doc) \in Nat
  <2>1. At = at /\ Open = op
    BY AtCallFacts
  <2>2. at \in Nat /\ Len(doc) \in Nat
    BY LayoutTypes DEF AtCall, Reader, Places
  <2> QED BY <2>1, <2>2 DEF AtCall, Reader
<1>4. /\ op \in Seq(Places) /\ attrStart = [k \in DOMAIN op |-> Start(op[k])]
      /\ Len(op) = Len(st[at - 1])
  BY AttrStartIsOpen
<1>5. CASE Stream!Is(at, "start")
  <2>1. /\ at \in 1..Len(doc) /\ at + 1 \in Places
        /\ IdHere = doc[at].id /\ IdEnd(buf, pos) = Start(at + 1)
    BY <1>5, AtCallFacts, Zenon
  <2>2. Len(st[at]) = Len(st[at - 1]) + 1 /\ Len(st[at - 1]) \in Nat
    BY <1>3, <1>5, <2>1, DepthsFollow
  <2>3. (at + 1) - 1 = at
    BY <1>3
  <2>4. PICK j : j = Stream!MatchingEnd(at + 1)
    OBVIOUS
  <2>5. /\ j \in 1..Len(doc) /\ LeftAt(st, at + 1, 0, j)
        /\ EndBehind(buf, IdEnd(buf, pos)) = Start(j)
    <3>1. Len(st[(at + 1) - 1]) # 0
      BY <2>2, <2>3
    <3> QED BY <1>3, <2>1, <2>4, <3>1, EndIsReadBack
  <2>6. doc[j].id = doc[at].id /\ Len(st[j]) = Len(st[at - 1])
    BY <1>3, <1>5, <2>1, <2>5, SkippedEnd
  <2>7. Stream!Is(j, "end")
    <3>1. j <= Len(doc)
      BY <1>3, <2>5
    <3> QED BY <2>5, <3>1 DEF LeftAt
  <2>8. j \in Places /\ j + 1 \in Places /\ (j + 1) - 1 = j
    BY <1>3, <2>5 DEF Places
  <2>9. /\ Kind(buf, Start(j)) = ELEMENT_END /\ ReadId(buf, Start(j)) = doc[j].id
        /\ IdEnd(buf, Start(j)) = Start(j + 1)
    BY <1>3, <2>5, <2>7, <2>8, KindsOfPlaces, ReadAtItem
  <2>10. KindHere = ELEMENT_START
    BY <1>5, AtCallFacts
  <2>11. pos' = Start(j + 1) /\ Return(<<"nothing">>) /\ attrStart' = attrStart
    BY <2>1, <2>5, <2>6, <2>9, <2>10 DEF SkipElement
  <2>12. attrStart' = [k \in DOMAIN op |-> Start(op[k])] /\ Len(op) = Len(st[(j + 1) - 1])
    BY <1>4, <2>6, <2>8, <2>11
  <2>13. Stream!Returns(<<"nothing">>) /\ At' = j + 1 /\ Open' = op /\ Reads(st)'
    BY <1>1, <1>4, <2>8, <2>11, <2>12, GoesIsStream
  <2> QED BY <1>2, <1>3, <1>5, <2>4, <2>13 DEF Stream!Skip, Stream!Nothing
<1>6. CASE ~Stream!Is(at, "start")
  <2>1. KindHere # ELEMENT_START
    BY <1>6, AtCallFacts
  <2>2. Raise
    BY <2>1 DEF SkipElement
  <2> QED BY <1>2, <1>3, <1>6, <2>2, RaiseIsStream DEF Stream!Skip
<1> QED BY <1>5, <1>6

\* What attribute calls look at is the attributes of the innermost element.
LEMMA OwnIsRunHere ==
    ASSUME NEW st, NEW at, NEW op, AtCall(st, at, op), attrStart # <<>>
    PROVE  Open # <<>> /\ Stream!Own = RunHere
<1>1. /\ op \in Seq(Places) /\ attrStart = [k \in DOMAIN op |-> Start(op[k])]
      /\ Len(attrStart) = Len(op) /\ op # <<>>
  BY AttrStartIsOpen
<1>2. Layout /\ Open = op
  BY AtCallFacts
<1> PICK i : i = op[Len(op)]
  OBVIOUS
<1>3. i \in Places /\ attrStart[Len(attrStart)] = Start(i)
  <2>1. op \in Seq(Places) /\ op # <<>>
    BY <1>1
  <2>2. Len(op) \in DOMAIN op /\ i \in Places
    BY <2>1
  <2> QED BY <1>1, <2>2
<1>4. Run(buf, Start(i)) = SubSeq(doc, i, Stream!Behind(i) - 1)
  BY <1>2, <1>3, RunIsReadBack
<1>5. RunHere = SubSeq(doc, i, Stream!Behind(i) - 1)
  BY <1>3, <1>4 DEF RunHere
<1>6. Stream!Own = SubSeq(doc, i, Stream!Behind(i) - 1)
  BY <1>2 DEF Stream!Own
<1> QED BY <1>1, <1>2, <1>5, <1>6

LEMMA FoundIsMatching ==
    ASSUME Stream!Own = RunHere, NEW id
    PROVE  Stream!Found(id) = Matching(id) /\ Stream!FirstFound(id) = FirstMatching(id)
BY DEF Stream!Found, Matching, Stream!FirstFound, FirstMatching, Min

LEMMA AttributesIsStream ==
    ASSUME NEW st, NEW at, NEW op, AtCall(st, at, op), Attributes
    PROVE  Stream!Attributes /\ Reads(st)'
<1>1. /\ Call /\ attrStart # <<>> /\ Return(<<"attributes", RunHere>>)
      /\ UNCHANGED <<pos, attrStart>>
  BY DEF Attributes
<1>2. Stream!Call
  BY <1>1, StreamCall
<1>3. Open # <<>> /\ Stream!Own = RunHere
  BY <1>1, OwnIsRunHere
<1>4. /\ Stream!Returns(<<"attributes", RunHere>>) /\ At' = At /\ Open' = Open
      /\ Reads(st)'
  BY <1>1, StaysIsStream
<1> QED BY <1>2, <1>3, <1>4 DEF Stream!Attributes

LEMMA ReadAttributeIsStream ==
    ASSUME NEW st, NEW at, NEW op, AtCall(st, at, op), NEW id, ReadAttribute(id)
    PROVE  Stream!ReadAttribute(id) /\ Reads(st)'
<1>1. Call /\ attrStart # <<>> /\ UNCHANGED <<pos, attrStart>>
  BY DEF ReadAttribute
<1>2. Stream!Call
  BY <1>1, StreamCall
<1>3. /\ Open # <<>> /\ Stream!Found(id) = Matching(id)
      /\ Stream!FirstFound(id) = FirstMatching(id)
  BY <1>1, OwnIsRunHere, FoundIsMatching
<1>4. CASE Matching(id) # {}
  <2>1. Return(<<"value", FirstMatching(id)>>)
    BY <1>4 DEF ReadAttribute
  <2>2. /\ Stream!Returns(<<"value", FirstMatching(id)>>) /\ At' = At /\ Open' = Open
        /\ Reads(st)'
    BY <1>1, <2>1, StaysIsStream
  <2> QED BY <1>2, <1>3, <1>4, <2>2 DEF Stream!ReadAttribute
<1>5. CASE Matching(id) = {}
  <2>1. Raise
    BY <1>5 DEF ReadAttribute
  <2> QED BY <1>2, <1>3, <1>5, <2>1, RaiseIsStream DEF Stream!ReadAttribute
<1> QED BY <1>4, <1>5

LEMMA ReadOptIsStream ==
    ASSUME NEW st, NEW at, NEW op, AtCall(st, at, op), NEW id, ReadOpt(id)
    PROVE  Stream!ReadOpt(id) /\ Reads(st)'
<1> DEFINE a == IF Matching(id) # {} THEN <<"value", FirstMatching(id)>>
                ELSE <<"nothing">>
<1>1. Call /\ attrStart # <<>> /\ UNCHANGED <<pos, attrStart>> /\ Return(a)
  BY DEF ReadOpt
<1>2. Stream!Call
  BY <1>1, StreamCall
<1>3. /\ Open # <<>> /\ Stream!Found(id) = Matching(id)
      /\ Stream!FirstFound(id) = FirstMatching(id)
  BY <1>1, OwnIsRunHere, FoundIsMatching
<1>4. a = IF Stream!Found(id) # {} THEN <<"value", Stream!FirstFound(id)>>
          ELSE Stream!Nothing
  BY <1>3 DEF Stream!Nothing
<1> HIDE DEF a
<1>5. Stream!Returns(a) /\ At' = At /\ Open' = Open /\ Reads(st)'
  BY <1>1, StaysIsStream
<1> QED BY <1>2, <1>3, <1>4, <1>5 DEF Stream!ReadOpt

\* Every call of the decoder is that call of the stream, and leaves the reader at
\* an item.
LEMMA ReadIsStream ==
    ASSUME NEW st, NEW at, NEW op, AtCall(st, at, op), Read
    PROVE  Stream!Next /\ Reads(st)'
<1>1. CASE PeekElement
  BY <1>1, PeekIsStream DEF Stream!Next
<1>2. CASE SkipElement
  BY <1>2, SkipIsStream DEF Stream!Next
<1>3. CASE Attributes
  BY <1>3, AttributesIsStream DEF Stream!Next
<1>4. ASSUME NEW id \in ElementIds \cup {None}, DecodeOpen(id)
      PROVE  Stream!Next /\ Reads(st)'
  BY <1>4, OpenIsStream DEF Stream!Next
<1>5. ASSUME NEW id \in ElementIds, DecodeClose(id)
      PROVE  Stream!Next /\ Reads(st)'
  BY <1>5, CloseIsStream DEF Stream!Next
<1>6. ASSUME NEW id \in ElementIds, CloseElementSkipping(id)
      PROVE  Stream!Next /\ Reads(st)'
  BY <1>6, CloseSkippingIsStream DEF Stream!Next
<1>7. ASSUME NEW id \in AttributeIds, ReadAttribute(id)
      PROVE  Stream!Next /\ Reads(st)'
  BY <1>7, ReadAttributeIsStream DEF Stream!Next
<1>8. ASSUME NEW id \in AttributeIds, ReadOpt(id)
      PROVE  Stream!Next /\ Reads(st)'
  BY <1>8, ReadOptIsStream DEF Stream!Next
<1> QED BY <1>1, <1>2, <1>3, <1>4, <1>5, <1>6, <1>7, <1>8 DEF Read

-----------------------------------------------------------------------------
(* The refinement *)

\* Before it reads, a reader is in front of the first item.
Fresh ==
    /\ WrittenWell
    /\ pos = 0 /\ attrStart = <<>> /\ raised = FALSE
    /\ phase # "writing" => nest = <<>>

AtFirst == At = 1 /\ Open = <<>> /\ ReadWell

LEMMA FreshAtFirst == Fresh => AtFirst
<1> SUFFICES ASSUME Fresh PROVE AtFirst
  OBVIOUS
<1>1. Layout /\ pos = 0 /\ attrStart = <<>> /\ raised = FALSE
  BY DEF Fresh, WrittenWell
<1>2. 1 \in Places /\ pos = Start(1)
  BY <1>1, LayoutTypes DEF Places, Layout
<1>3. <<>> \in Seq(Places) /\ attrStart = [k \in DOMAIN <<>> |-> Start(<<>>[k])]
  BY <1>1
<1>4. At = 1 /\ Open = <<>>
  BY <1>1, <1>2, <1>3, LayoutLocates DEF Located
<1>5. PICK st : Nesting(st)
  BY DEF Fresh, WrittenWell
<1>6. Reads(st)
  <2>1. Len(<<>>) = Len(st[1 - 1])
    BY <1>5 DEF Nesting
  <2> QED BY <1>2, <1>3, <2>1 DEF Reads, Reader
<1>7. ReadWell
  BY <1>5, <1>6 DEF Fresh, ReadWell
<1> QED BY <1>4, <1>7 DEF AtFirst

LEMMA LaterAtFirst == Fresh' => AtFirst'
BY FreshAtFirst, PTL

LEMMA PutIsStream ==
    ASSUME WrittenWell, WrittenWell', ReadWell, NEW item, NEW bytes, Put(item, bytes)
    PROVE  Stream!Written(item) /\ ReadWell'
<1>1. /\ phase = "writing" /\ phase' = "writing" /\ doc' = Append(doc, item)
      /\ pos' = pos /\ attrStart' = attrStart /\ answer' = answer /\ raised' = raised
  BY DEF Put, reader
<1>2. pos = 0 /\ attrStart = <<>> /\ raised = FALSE
  BY <1>1 DEF ReadWell
<1>3. Fresh /\ Fresh'
  BY <1>1, <1>2 DEF Fresh
<1>4. At = 1 /\ Open = <<>> /\ At' = 1 /\ Open' = <<>> /\ ReadWell'
  BY <1>3, FreshAtFirst, LaterAtFirst DEF AtFirst
<1>5. (phase # "writing")' = (phase # "writing") /\ ~(phase # "writing")
  BY <1>1
<1> QED BY <1>1, <1>4, <1>5 DEF Stream!Written

\* Every write is that write of the stream.
LEMMA WriteIsStream ==
    ASSUME WrittenWell, WrittenWell', ReadWell, Write
    PROVE  Stream!Next /\ ReadWell'
<1>1. ASSUME NEW id \in ElementIds, OpenElement(id) PROVE Stream!Next /\ ReadWell'
  <2>1. Stream!Written(Stream!StartOf(id)) /\ ReadWell' /\ nest' = Append(nest, id)
    BY <1>1, PutIsStream DEF OpenElement, Stream!StartOf
  <2> QED BY <2>1 DEF Stream!Next, Stream!WriteStart
<1>2. ASSUME CloseElement PROVE Stream!Next /\ ReadWell'
  <2> PICK id : id = nest[Len(nest)]
    OBVIOUS
  <2>1. /\ Put([kind |-> "end", id |-> id], Header(ELEMENT_END, id)) /\ nest # <<>>
        /\ nest' = SubSeq(nest, 1, Len(nest) - 1)
    BY <1>2 DEF CloseElement
  <2>2. Stream!Written(Stream!EndOf(id)) /\ ReadWell'
    BY <2>1, PutIsStream DEF Stream!EndOf
  <2>3. Stream!WriteEnd
    BY <2>1, <2>2 DEF Stream!WriteEnd
  <2> QED BY <2>2, <2>3 DEF Stream!Next
<1>3. ASSUME NEW id \in AttributeIds, NEW value \in Values, NEW bytes,
             PutAttribute(id, value, bytes)
      PROVE  Stream!Next /\ ReadWell'
  <2>1. Stream!Written(Stream!AttributeOf(id, value)) /\ ReadWell'
    BY <1>3, PutIsStream DEF PutAttribute, Stream!AttributeOf
  <2>2. nest # <<>> /\ doc[Len(doc)].kind # "end" /\ UNCHANGED nest
    BY <1>3 DEF PutAttribute
  <2>3. Stream!WriteAttribute(id, value)
    BY <2>1, <2>2 DEF Stream!WriteAttribute
  <2> QED BY <2>1, <2>3 DEF Stream!Next
<1>4. ASSUME NEW id \in AttributeIds, NEW b \in BOOLEAN, WriteBool(id, b)
      PROVE  Stream!Next /\ ReadWell'
  BY <1>3, <1>4 DEF WriteBool, Values
<1>5. ASSUME NEW id \in AttributeIds, NEW n \in SignedInputs,
             WriteSigned(id, n) \/ WriteOpcode(id, n)
      PROVE  Stream!Next /\ ReadWell'
  BY <1>3, <1>5 DEF WriteSigned, WriteOpcode, Values
<1>6. ASSUME NEW id \in AttributeIds, NEW n \in UnsignedInputs, WriteUnsigned(id, n)
      PROVE  Stream!Next /\ ReadWell'
  BY <1>3, <1>6 DEF WriteUnsigned, Values
<1>7. ASSUME NEW id \in AttributeIds, NEW s \in StringInputs, WriteString(id, s)
      PROVE  Stream!Next /\ ReadWell'
  BY <1>3, <1>7 DEF WriteString, Values
<1>8. ASSUME NEW id \in AttributeIds, NEW i \in SpaceInputs, WriteSpace(id, i)
      PROVE  Stream!Next /\ ReadWell'
  BY <1>3, <1>8 DEF WriteSpace, Values
<1>9. ASSUME NEW id \in AttributeIds, NEW c \in SpecialInputs, WriteSpecial(id, c)
      PROVE  Stream!Next /\ ReadWell'
  BY <1>3, <1>9 DEF WriteSpecial, Values
<1> QED BY <1>1, <1>2, <1>4, <1>5, <1>6, <1>7, <1>8, <1>9 DEF Write

LEMMA ToBytesIsStream ==
    ASSUME WrittenWell, WrittenWell', ReadWell,
           NEW to \in {"reading", "parsing"}, ToBytes(to)
    PROVE  Stream!Next /\ ReadWell'
<1>1. /\ phase = "writing" /\ phase' = to /\ doc' = doc /\ nest' = nest /\ nest = <<>>
      /\ pos' = pos /\ attrStart' = attrStart /\ answer' = answer /\ raised' = raised
  BY DEF ToBytes, reader
<1>2. pos = 0 /\ attrStart = <<>> /\ raised = FALSE
  BY <1>1 DEF ReadWell
<1>3. Fresh /\ Fresh'
  BY <1>1, <1>2 DEF Fresh
<1>4. At = 1 /\ Open = <<>> /\ At' = 1 /\ Open' = <<>> /\ ReadWell'
  BY <1>3, FreshAtFirst, LaterAtFirst DEF AtFirst
<1>5. (phase # "writing")' = TRUE /\ ~(phase # "writing")
  BY <1>1
<1>6. Stream!HandOver
  BY <1>1, <1>4, <1>5 DEF Stream!HandOver
<1> QED BY <1>4, <1>6 DEF Stream!Next

\* parse_tree leaves the decoder alone.
LEMMA ParseIsNoStep ==
    ASSUME ReadWell, ParseStart \/ ParseEnd \/ ParseAttribute \/ UNCHANGED vars
    PROVE  UNCHANGED Stream!vars /\ ReadWell'
<1>1. /\ buf' = buf /\ doc' = doc /\ marks' = marks /\ nest' = nest
      /\ pos' = pos /\ attrStart' = attrStart /\ answer' = answer /\ raised' = raised
  BY DEF ParseStart, ParseEnd, ParseAttribute, Parsing, reader, vars
<1>2. \/ phase = "parsing" /\ phase' \in {"parsing", "failed"}
      \/ phase' = phase
  BY DEF ParseStart, ParseEnd, ParseAttribute, Parsing, vars
<1>3. At' = At /\ Open' = Open
  BY <1>1 DEF At, Open
<1>4. (phase # "writing")' = (phase # "writing")
  BY <1>2
<1>5. \A st : Nesting(st) /\ Reads(st) => (Nesting(st) /\ Reads(st))'
  BY <1>1 DEF Nesting, Reads, Reader, Places, Start
<1>6. ReadWell'
  BY <1>1, <1>2, <1>5 DEF ReadWell
<1> QED BY <1>1, <1>3, <1>4, <1>6 DEF Stream!vars

LEMMA ReadAnswers ==
    Read => /\ phase = "reading" /\ phase' = phase /\ raised # TRUE
            /\ raised' \in {raised, TRUE}
<1> SUFFICES ASSUME Read
             PROVE  /\ phase = "reading" /\ phase' = phase /\ raised # TRUE
                    /\ raised' \in {raised, TRUE}
  OBVIOUS
<1> USE DEF Call, Return, Raise
<1>1. CASE PeekElement \/ SkipElement \/ Attributes
  BY <1>1 DEF PeekElement, SkipElement, Attributes
<1>2. CASE \E id \in ElementIds \cup {None} : DecodeOpen(id)
  BY <1>2 DEF DecodeOpen
<1>3. CASE \E id \in ElementIds : DecodeClose(id) \/ CloseElementSkipping(id)
  BY <1>3 DEF DecodeClose, CloseElementSkipping, CloseAt
<1>4. CASE \E id \in AttributeIds : ReadAttribute(id) \/ ReadOpt(id)
  BY <1>4 DEF ReadAttribute, ReadOpt
<1> QED BY <1>1, <1>2, <1>3, <1>4 DEF Read

LEMMA ReadStep ==
    ASSUME WrittenWell, ReadWell, Read
    PROVE  Stream!Next /\ ReadWell'
<1>1. /\ phase = "reading" /\ phase' = phase /\ raised = FALSE
      /\ raised' \in BOOLEAN /\ nest = <<>>
  BY ReadAnswers DEF ReadWell
<1>2. UNCHANGED <<buf, doc, marks, nest>>
  BY ReadingWritesNothing
<1>3. PICK st : Nesting(st) /\ Reads(st)
  BY DEF ReadWell
<1>4. PICK at, op : Reader(st, at, op)
  BY <1>1, <1>3 DEF Reads
<1>5. AtCall(st, at, op)
  BY <1>1, <1>3, <1>4 DEF AtCall, WrittenWell
<1>6. Stream!Next /\ Reads(st)'
  BY <1>5, ReadIsStream
<1>7. Nesting(st)'
  BY <1>2, <1>3 DEF Nesting
<1>8. nest' = <<>> /\ phase' = "reading"
  BY <1>1, <1>2
<1> QED BY <1>1, <1>6, <1>7, <1>8 DEF ReadWell

\* The decoder implements the stream of elements that the encoder wrote: whatever
\* is called, in whatever order, it answers as if there were no bytes.
THEOREM ReaderImplementsStream == Spec => ReadsWhatWasWritten
<1>1. Init => WrittenWell /\ ReadWell /\ Stream!Init
  <2> SUFFICES ASSUME Init PROVE ReadWell /\ Stream!Init
    BY EmptyIsWrittenWell
  <2>1. WrittenWell
    BY EmptyIsWrittenWell
  <2>2. /\ pos = 0 /\ attrStart = <<>> /\ raised = FALSE /\ phase = "writing"
        /\ doc = <<>> /\ nest = <<>> /\ answer = <<"nothing">>
    BY DEF Init
  <2>3. At = 1 /\ Open = <<>> /\ ReadWell
    BY <2>1, <2>2, FreshAtFirst DEF Fresh, AtFirst
  <2>4. (phase # "writing") = FALSE
    BY <2>2
  <2> QED BY <2>2, <2>3, <2>4 DEF Stream!Init, Stream!Nothing
<1>2. WrittenWell /\ ReadWell /\ [Next]_vars
          => WrittenWell' /\ ReadWell' /\ [Stream!Next]_(Stream!vars)
  <2> SUFFICES ASSUME WrittenWell, ReadWell, [Next]_vars
               PROVE  WrittenWell' /\ ReadWell' /\ [Stream!Next]_(Stream!vars)
    OBVIOUS
  <2>1. WrittenWell'
    BY WrittenWellKept
  <2>2. CASE Write
    BY <2>1, <2>2, WriteIsStream
  <2>3. CASE Read
    BY <2>1, <2>3, ReadStep
  <2>4. CASE \E to \in {"reading", "parsing"} : ToBytes(to)
    BY <2>1, <2>4, ToBytesIsStream
  <2>5. CASE ParseStart \/ ParseEnd \/ ParseAttribute \/ UNCHANGED vars
    BY <2>1, <2>5, ParseIsNoStep
  <2> QED BY <2>2, <2>3, <2>4, <2>5 DEF Next
<1> QED BY <1>1, <1>2, PTL DEF Spec, ReadsWhatWasWritten, Stream!Spec
=============================================================================
