------------------------- MODULE DynamicHashProofs -------------------------
(***************************************************************************)
(* Proofs about DynamicHash, for op graphs of any size and any number of   *)
(* addresses: a varnode whose slot can be packed is always among the       *)
(* candidates for its own hash, so that its hash is refused only where all *)
(* methods are crowded; and one that a method singles out is found.        *)
(*                                                                         *)
(* The lists are built by recursion over sequences. That the recursion is  *)
(* well defined, and what the lists hold, is shown by induction, for which *)
(* the set of the numbers that a fact does not hold for is shown to have   *)
(* no least element.                                                       *)
(***************************************************************************)
EXTENDS DynamicHash, WellFoundedInduction, SequenceTheorems, TLAPS

-----------------------------------------------------------------------------
(* Induction, over the set of the numbers a fact holds for *)

Less == {p \in Nat \X Nat : p[1] < p[2]}

\* A set of numbers with an element has a least one.
LEMMA LeastElement ==
    ASSUME NEW T, T \subseteq Nat, T # {}
    PROVE  \E m \in T : \A n \in T : m <= n
<1>1. IsWellFoundedOn(Less, Nat)
    BY NatLessThanWellFounded DEF OpToRel, Less
<1>2. PICK m \in T : \A n \in T : ~(<<n, m>> \in Less)
    BY <1>1, WFMin, Zenon
<1>3. ASSUME NEW n \in T, n < m PROVE FALSE
    <2>1. <<n, m>> \in Nat \X Nat /\ <<n, m>>[1] < <<n, m>>[2]
        BY <1>3
    <2>2. <<n, m>> \in Less
        BY <2>1, Zenon DEF Less
    <2> QED BY <2>2, <1>2
<1>4. \A n \in T : m <= n
    BY <1>3
<1> QED BY <1>4

LEMMA Induction ==
    ASSUME NEW N \in Nat, NEW T, 0 \in T,
           \A n \in 1..N : n - 1 \in T => n \in T
    PROVE  \A n \in 0..N : n \in T
<1> DEFINE Missed == {n \in 0..N : n \notin T}
<1>1. SUFFICES ASSUME Missed # {} PROVE FALSE
    OBVIOUS
<1>2. Missed \subseteq Nat
    OBVIOUS
<1>3. PICK m \in Missed : \A n \in Missed : m <= n
    BY <1>1, <1>2, LeastElement
<1>4. m \in 1..N /\ m \notin T
    BY <1>3
<1>5. m - 1 \in 0..N /\ m - 1 \notin Missed
    BY <1>3, <1>4
<1> QED BY <1>4, <1>5

\* The values of f are computed from a first one, each from the one before.
Solves(f, a, b, N, e) == f[b] = a /\ \A n \in (b + 1)..N : f[n] = e[n][f[n - 1]]

\* What is defined by recursion over an interval exists.
LEMMA Recursion ==
    ASSUME NEW D, NEW a \in D, NEW b \in Int, NEW N \in Int, b <= N,
           NEW e \in [Int -> [D -> D]]
    PROVE  \E f \in [b..N -> D] : Solves(f, a, b, N, e)
<1> DEFINE T == {d \in Nat : \E f \in [b..(b + d) -> D] : Solves(f, a, b, b + d, e)}
<1>1. 0 \in T
    <2>1. [n \in b..(b + 0) |-> a] \in [b..(b + 0) -> D]
        OBVIOUS
    <2>2. Solves([n \in b..(b + 0) |-> a], a, b, b + 0, e)
        BY DEF Solves
    <2> QED BY <2>1, <2>2
<1>2. ASSUME NEW d \in 1..(N - b), d - 1 \in T PROVE d \in T
    <2> DEFINE k == b + d
    <2>1. k \in Int /\ b < k /\ b + (d - 1) = k - 1 /\ d \in Nat
        OBVIOUS
    <2> HIDE DEF k
    <2>2. PICK f \in [b..(k - 1) -> D] : Solves(f, a, b, k - 1, e)
        BY <1>2, <2>1
    <2> DEFINE g == [n \in b..k |-> IF n = k THEN e[k][f[k - 1]] ELSE f[n]]
    <2>3. k - 1 \in b..(k - 1) /\ f[k - 1] \in D
        BY <2>1, <2>2
    <2>4. e[k][f[k - 1]] \in D
        BY <2>1, <2>3
    <2>5. g \in [b..k -> D]
        BY <2>1, <2>2, <2>4
    <2>6. ASSUME NEW n \in (b + 1)..k PROVE g[n] = e[n][g[n - 1]]
        <3>1. n \in b..k /\ n - 1 \in b..k /\ n - 1 # k /\ g[n - 1] = f[n - 1]
            BY <2>1
        <3>2. CASE n = k
            BY <3>1, <3>2
        <3>3. CASE n # k
            <4>1. n \in (b + 1)..(k - 1) /\ g[n] = f[n]
                BY <3>1, <3>3, <2>1
            <4>2. f[n] = e[n][f[n - 1]]
                BY <4>1, <2>2 DEF Solves
            <4> QED BY <4>1, <4>2, <3>1
        <3> QED BY <3>2, <3>3
    <2>7. g[b] = a
        BY <2>1, <2>2 DEF Solves
    <2>8. Solves(g, a, b, k, e)
        BY <2>6, <2>7 DEF Solves
    <2> QED BY <2>1, <2>5, <2>8 DEF k
<1>3. N - b \in Nat
    OBVIOUS
<1> HIDE DEF T
<1>4. \A d \in 0..(N - b) : d \in T
    BY <1>1, <1>2, <1>3, Induction
<1>5. N - b \in T
    BY <1>3, <1>4
<1>6. b + (N - b) = N
    OBVIOUS
<1> QED BY <1>5, <1>6 DEF T

-----------------------------------------------------------------------------
(* Sequences *)

LEMMA ToSetOfConcat ==
    ASSUME NEW S, NEW s \in Seq(S), NEW t \in Seq(S)
    PROVE  ToSet(s \o t) = ToSet(s) \cup ToSet(t)
<1>1. ASSUME NEW x \in ToSet(s \o t) PROVE x \in ToSet(s) \cup ToSet(t)
    <2>1. PICK i \in 1..(Len(s) + Len(t)) : x = (s \o t)[i]
        BY DEF ToSet
    <2>2. CASE i <= Len(s)
        BY <2>1, <2>2 DEF ToSet
    <2>3. CASE i > Len(s)
        <3>1. i - Len(s) \in 1..Len(t) /\ x = t[i - Len(s)]
            BY <2>1, <2>3
        <3> QED BY <3>1 DEF ToSet
    <2> QED BY <2>2, <2>3
<1>2. ASSUME NEW x \in ToSet(s) PROVE x \in ToSet(s \o t)
    <2>1. PICK i \in 1..Len(s) : x = s[i]
        BY DEF ToSet
    <2>2. i \in 1..Len(s \o t) /\ (s \o t)[i] = x
        BY <2>1
    <2> QED BY <2>2 DEF ToSet
<1>3. ASSUME NEW x \in ToSet(t) PROVE x \in ToSet(s \o t)
    <2>1. PICK i \in 1..Len(t) : x = t[i]
        BY DEF ToSet
    <2>2. i + Len(s) \in 1..Len(s \o t) /\ (s \o t)[i + Len(s)] = x
        BY <2>1
    <2> QED BY <2>2 DEF ToSet
<1> QED BY <1>1, <1>2, <1>3

\* FlattenSeq has the elements of all sequences it is given.
LEMMA Flatten ==
    ASSUME NEW S, NEW s \in Seq(Seq(S))
    PROVE  /\ FlattenSeq(s) \in Seq(S)
           /\ ToSet(FlattenSeq(s)) = UNION {ToSet(s[i]) : i \in 1..Len(s)}
<1>1. CASE Len(s) = 0
    <2>1. FlattenSeq(s) = <<>>
        BY <1>1 DEF FlattenSeq
    <2>2. ToSet(<<>>) = {} /\ 1..Len(s) = {}
        BY <1>1 DEF ToSet
    <2> QED BY <2>1, <2>2
<1>2. CASE Len(s) # 0
    <2> DEFINE n == Len(s)
               e == [i \in Int |->
                         [x \in Seq(S) |-> IF i \in 1..n THEN x \o s[i] ELSE <<>>]]
               flatten == CHOOSE f : f = [i \in 1..n |->
                              IF i = 1 THEN s[i] ELSE f[i - 1] \o s[i]]
    <2>1. n \in Nat /\ 1 <= n /\ \A i \in 1..n : s[i] \in Seq(S)
        BY <1>2
    <2>2. e \in [Int -> [Seq(S) -> Seq(S)]]
        BY <2>1
    <2> HIDE DEF n
    <2>3. PICK g \in [1..n -> Seq(S)] : Solves(g, s[1], 1, n, e)
        <3> HIDE DEF e
        <3>1. 1 \in Int /\ n \in Int /\ 1 <= n /\ s[1] \in Seq(S)
            BY <2>1
        <3> QED BY <3>1, <2>2, Recursion
    <2>4. g[1] = s[1] /\ \A i \in (1 + 1)..n : g[i] = e[i][g[i - 1]]
        <3> HIDE DEF e
        <3> QED BY <2>3 DEF Solves
    <2>5. ASSUME NEW i \in 1..n, i # 1 PROVE g[i] = g[i - 1] \o s[i]
        <3>1. i \in (1 + 1)..n /\ g[i - 1] \in Seq(S) /\ i \in Int
            BY <2>5, <2>1
        <3>2. e[i][g[i - 1]] = g[i - 1] \o s[i]
            BY <3>1
        <3>3. g[i] = e[i][g[i - 1]]
            BY <3>1, <2>4
        <3> QED BY <3>2, <3>3
    <2>6. g = [i \in 1..n |-> IF i = 1 THEN s[i] ELSE g[i - 1] \o s[i]]
        <3> HIDE DEF e
        <3> QED BY <2>4, <2>5
    <2>7. flatten = [i \in 1..n |-> IF i = 1 THEN s[i] ELSE flatten[i - 1] \o s[i]]
        BY <2>6
    <2>8. FlattenSeq(s) = flatten[n]
        BY <1>2 DEF FlattenSeq, n
    <2> HIDE DEF flatten, e
    <2> DEFINE Flat(k) == /\ flatten[k] \in Seq(S)
                          /\ ToSet(flatten[k]) = UNION {ToSet(s[i]) : i \in 1..k}
               T == {k \in Nat : Flat(k + 1)}
    <2>9. Flat(1)
        <3>1. flatten[1] = s[1] /\ s[1] \in Seq(S)
            BY <2>1, <2>7
        <3>2. UNION {ToSet(s[i]) : i \in 1..1} = ToSet(s[1])
            OBVIOUS
        <3> QED BY <3>1, <3>2
    <2>10. ASSUME NEW k \in 1..(n - 1), Flat(k) PROVE Flat(k + 1)
        <3>1. k \in 1..n /\ k + 1 \in 1..n /\ k + 1 # 1 /\ (k + 1) - 1 = k
            BY <2>1
        <3>2. flatten[k + 1] = flatten[k] \o s[k + 1]
            BY <3>1, <2>7
        <3>3. s[k + 1] \in Seq(S) /\ flatten[k] \in Seq(S)
            BY <3>1, <2>1, <2>10
        <3>4. ToSet(flatten[k] \o s[k + 1]) = ToSet(flatten[k]) \cup ToSet(s[k + 1])
            BY <3>3, ToSetOfConcat
        <3>5. 1..(k + 1) = (1..k) \cup {k + 1}
            BY <3>1
        <3>6. UNION {ToSet(s[i]) : i \in 1..(k + 1)}
                  = (UNION {ToSet(s[i]) : i \in 1..k}) \cup ToSet(s[k + 1])
            BY <3>5, Zenon
        <3>7. flatten[k + 1] \in Seq(S)
            BY <3>2, <3>3
        <3>8. ToSet(flatten[k + 1]) = UNION {ToSet(s[i]) : i \in 1..(k + 1)}
            BY <3>2, <3>4, <3>6, <2>10
        <3> QED BY <3>7, <3>8
    <2> HIDE DEF Flat
    <2>11. 0 \in T /\ \A k \in 1..(n - 1) : k - 1 \in T => k \in T
        <3>1. ASSUME NEW k \in 1..(n - 1), k - 1 \in T PROVE k \in T
            <4>1. (k - 1) + 1 = k
                OBVIOUS
            <4> QED BY <3>1, <4>1, <2>10
        <3> QED BY <3>1, <2>9
    <2>12. n - 1 \in Nat /\ n - 1 \in 0..(n - 1) /\ (n - 1) + 1 = n
        BY <2>1
    <2>13. n - 1 \in T
        <3> HIDE DEF T
        <3> QED BY <2>11, <2>12, Induction
    <2>14. Flat(n)
        BY <2>12, <2>13
    <2> QED BY <2>8, <2>14 DEF n, Flat
<1> QED BY <1>1, <1>2

\* What Concat gathers.
LEMMA Gathers ==
    ASSUME NEW S, NEW n \in Nat, NEW t \in [1..n -> Seq(S)]
    PROVE  /\ FlattenSeq(t) \in Seq(S)
           /\ \A x : x \in ToSet(FlattenSeq(t)) <=> \E i \in 1..n : x \in ToSet(t[i])
<1>1. t \in Seq(Seq(S)) /\ Len(t) = n
    <2>1. DOMAIN t = 1..n /\ \A i \in 1..n : t[i] \in Seq(S)
        OBVIOUS
    <2> QED BY SeqDef
<1>2. /\ FlattenSeq(t) \in Seq(S)
      /\ ToSet(FlattenSeq(t)) = UNION {ToSet(t[i]) : i \in 1..n}
    BY <1>1, Flatten
<1> QED BY <1>2, Zenon

LEMMA KeptOnes ==
    ASSUME NEW S, NEW s \in Seq(S), NEW set
    PROVE  Kept(s, set) \in Seq(S) /\ ToSet(Kept(s, set)) = ToSet(s) \cap set
<1> DEFINE t == [i \in 1..Len(s) |-> IF s[i] \in set THEN <<s[i]>> ELSE <<>>]
<1>1. t \in [1..Len(s) -> Seq(S)] /\ Len(s) \in Nat
    OBVIOUS
<1>2. Kept(s, set) = FlattenSeq(t)
    BY DEF Kept, Concat
<1>3. ASSUME NEW i \in 1..Len(s), NEW x
      PROVE  x \in ToSet(t[i]) <=> x = s[i] /\ s[i] \in set
    BY DEF ToSet
<1> HIDE DEF t
<1>4. /\ FlattenSeq(t) \in Seq(S)
      /\ \A x : x \in ToSet(FlattenSeq(t)) <=> \E i \in 1..Len(s) : x \in ToSet(t[i])
    BY <1>1, Gathers
<1>5. \A x : x \in ToSet(FlattenSeq(t)) <=> \E i \in 1..Len(s) : x = s[i] /\ s[i] \in set
    BY <1>3, <1>4
<1>6. ToSet(s) = {s[i] : i \in 1..Len(s)}
    BY DEF ToSet
<1> QED BY <1>2, <1>4, <1>5, <1>6

LEMMA DistinctOnes ==
    ASSUME NEW S, NEW s \in Seq(S)
    PROVE  Distinct(s) \in Seq(S) /\ ToSet(Distinct(s)) = ToSet(s)
<1> DEFINE Old(i) == \E k \in 1..(i - 1) : s[k] = s[i]
           t == [i \in 1..Len(s) |-> IF Old(i) THEN <<>> ELSE <<s[i]>>]
<1>1. t \in [1..Len(s) -> Seq(S)] /\ Len(s) \in Nat
    OBVIOUS
<1>2. Distinct(s) = FlattenSeq(t)
    BY DEF Distinct, Concat
<1>3. ASSUME NEW i \in 1..Len(s), NEW x
      PROVE  x \in ToSet(t[i]) <=> x = s[i] /\ ~Old(i)
    BY DEF ToSet
<1> HIDE DEF t
<1>4. /\ FlattenSeq(t) \in Seq(S)
      /\ \A x : x \in ToSet(FlattenSeq(t)) <=> \E i \in 1..Len(s) : x \in ToSet(t[i])
    BY <1>1, Gathers
<1>5. ASSUME NEW i \in 1..Len(s) PROVE \E k \in 1..Len(s) : s[k] = s[i] /\ ~Old(k)
    <2> DEFINE Places == {k \in 1..Len(s) : s[k] = s[i]}
    <2>1. Places \subseteq Nat /\ Places # {}
        OBVIOUS
    <2>2. PICK k \in Places : \A j \in Places : k <= j
        <3> HIDE DEF Places
        <3> QED BY <2>1, LeastElement
    <2>3. k \in 1..Len(s) /\ s[k] = s[i]
        OBVIOUS
    <2>4. ~Old(k)
        BY <2>2, <2>3
    <2> QED BY <2>3, <2>4
<1>6. \A x : x \in ToSet(FlattenSeq(t)) <=> \E i \in 1..Len(s) : x = s[i]
    <2> HIDE DEF Old
    <2> TAKE x
    <2>1. x \in ToSet(FlattenSeq(t)) => \E i \in 1..Len(s) : x = s[i]
        BY <1>3, <1>4
    <2>2. ASSUME NEW i \in 1..Len(s), x = s[i] PROVE x \in ToSet(FlattenSeq(t))
        <3>1. PICK k \in 1..Len(s) : s[k] = s[i] /\ ~Old(k)
            BY <1>5
        <3>2. x \in ToSet(t[k])
            BY <1>3, <2>2, <3>1
        <3> QED BY <1>4, <3>2
    <2> QED BY <2>1, <2>2
<1>7. ToSet(s) = {s[i] : i \in 1..Len(s)}
    BY DEF ToSet
<1> QED BY <1>2, <1>4, <1>6, <1>7

LEMMA MaxOfBounded ==
    ASSUME NEW T, T \subseteq Nat, T # {}, NEW b \in Nat, \A y \in T : y <= b
    PROVE  Max(T) \in T /\ \A y \in T : y <= Max(T)
<1> DEFINE Gaps == {b - y : y \in T}
<1>1. Gaps \subseteq Nat /\ Gaps # {}
    <2>1. ASSUME NEW y \in T PROVE b - y \in Nat
        <3>1. y \in Nat /\ y <= b
            OBVIOUS
        <3> QED BY <3>1
    <2> QED BY <2>1
<1>2. PICK g \in Gaps : \A h \in Gaps : g <= h
    <2> HIDE DEF Gaps
    <2> QED BY <1>1, LeastElement
<1>3. PICK x \in T : g = b - x
    OBVIOUS
<1>4. \E z \in T : \A y \in T : z >= y
    <2>1. ASSUME NEW y \in T PROVE x >= y
        <3>1. y \in Nat /\ x \in Nat /\ b - x <= b - y
            BY <1>2, <1>3
        <3> QED BY <3>1
    <2> QED BY <2>1
<1>5. Max(T) \in T /\ \A y \in T : Max(T) >= y
    BY <1>4, Zenon DEF Max
<1> QED BY <1>5

LEMMA MinOfNumbers ==
    ASSUME NEW T, T \subseteq Nat, T # {}
    PROVE  Min(T) \in T
BY LeastElement DEF Min

-----------------------------------------------------------------------------
(* The op graph *)

Operation == [code : {shape.code : shape \in Shapes}, at : 1..NumAddrs,
              ins : Seq(Nat \ {0}), out : Nat]

\* Every varnode is written or read by an operation.
Attached ==
    \A v \in 1..count :
        \E i \in 1..Len(ops) : ops[i].out = v \/ v \in ToSet(ops[i].ins)

Graph == count \in Nat /\ ops \in Seq(Operation) /\ Attached

\* New inputs are numbered without a gap, so none is left without a use.
LEMMA EmitKeepsGraph ==
    ASSUME Graph, NEW shape \in Shapes, NEW a \in 1..NumAddrs,
           NEW ins \in NewInputs(shape.arity), Emit(shape, a, ins)
    PROVE  Graph'
<1> DEFINE arity == shape.arity
           top == Max({count} \cup ToSet(ins))
<1>1. arity \in Nat /\ count \in Nat
    BY ShapesAssumption DEF Graph
<1>2. /\ ins \in [1..arity -> 1..(count + arity)]
      /\ \A p \in 1..arity : ins[p] <= 1 + Max({count} \cup {ins[q] : q \in 1..(p - 1)})
    BY DEF NewInputs
<1> HIDE DEF arity
<1>3. ins \in Seq(Nat \ {0}) /\ Len(ins) = arity /\ ToSet(ins) = {ins[p] : p \in 1..arity}
    <2>1. DOMAIN ins = 1..arity /\ \A p \in 1..arity : ins[p] \in Nat \ {0}
        BY <1>1, <1>2
    <2>2. ins \in Seq(Nat \ {0}) /\ Len(ins) = arity
        BY <2>1, <1>1, <1>2, SeqDef
    <2> QED BY <2>1, <2>2 DEF ToSet
<1>4. top \in {count} \cup ToSet(ins) /\ \A y \in {count} \cup ToSet(ins) : y <= top
    <2>1. {count} \cup ToSet(ins) \subseteq Nat /\ {count} \cup ToSet(ins) # {}
        BY <1>1, <1>2, <1>3
    <2>2. count + arity \in Nat /\ \A y \in {count} \cup ToSet(ins) : y <= count + arity
        BY <1>1, <1>2, <1>3
    <2> QED BY <2>1, <2>2, MaxOfBounded
<1> HIDE DEF top
<1>5. top \in Nat /\ count <= top
    <2>1. {count} \cup ToSet(ins) \subseteq Nat
        BY <1>1, <1>2, <1>3
    <2>2. top \in Nat
        BY <2>1, <1>4, Zenon
    <2>3. count <= top
        BY <1>4
    <2> QED BY <2>2, <2>3
<1>6. ASSUME NEW v \in (count + 1)..top PROVE v \in ToSet(ins)
    <2> DEFINE Above == {p \in 1..arity : ins[p] >= v}
    <2>1. Above \subseteq Nat /\ Above # {}
        <3>1. top # count
            BY <1>1, <1>5
        <3>2. PICK p \in 1..arity : ins[p] = top
            BY <3>1, <1>3, <1>4
        <3>3. p \in Above
            BY <3>2, <1>5
        <3> QED BY <3>3
    <2>2. PICK p \in Above : \A q \in Above : p <= q
        <3> HIDE DEF Above
        <3> QED BY <2>1, LeastElement
    <2> DEFINE before == {count} \cup {ins[q] : q \in 1..(p - 1)}
    <2>3. p \in 1..arity /\ ins[p] \in Nat /\ ins[p] >= v /\ v - 1 \in Nat
        BY <1>1, <1>2, <1>5, <2>2
    <2>4. \A q \in 1..(p - 1) : q \in 1..arity /\ ins[q] \in Nat /\ ins[q] <= v - 1
        <3>1. ASSUME NEW q \in 1..(p - 1)
              PROVE  q \in 1..arity /\ ins[q] \in Nat /\ ins[q] <= v - 1
            <4>1. q \in 1..arity /\ ~(p <= q)
                BY <2>3, <1>1
            <4>2. ins[q] \in Nat /\ ~(ins[q] >= v)
                BY <4>1, <2>2, <1>1, <1>2
            <4> QED BY <4>1, <4>2, <1>5, <1>1
        <3> QED BY <3>1
    <2>5. before \subseteq Nat /\ before # {} /\ \A y \in before : y <= v - 1
        BY <1>1, <2>4
    <2>6. Max(before) \in Nat /\ Max(before) <= v - 1
        <3> HIDE DEF before
        <3> QED BY <2>3, <2>5, MaxOfBounded
    <2>7. ins[p] <= 1 + Max(before)
        BY <1>2, <2>3
    <2>8. ins[p] = v
        <3> HIDE DEF before
        <3> QED BY <2>3, <2>6, <2>7
    <2> QED BY <2>3, <2>8, <1>3
<1>7. PICK out \in Outputs(shape, top, ins) :
          /\ ops' = Append(ops, [code |-> shape.code, at |-> a, ins |-> ins, out |-> out])
          /\ count' = Max({top, out})
    BY DEF Emit, top
<1>8. out \in Nat /\ out <= top + 1
    BY <1>5, <1>7, ShapesAssumption DEF Outputs
<1>9. count' \in Nat /\ count' \in {top, out} /\ top <= count' /\ out <= count'
    <2>1. {top, out} \subseteq Nat /\ {top, out} # {} /\ top + 1 \in Nat
          /\ \A y \in {top, out} : y <= top + 1
        BY <1>5, <1>8
    <2>2. Max({top, out}) \in {top, out} /\ \A y \in {top, out} : y <= Max({top, out})
        BY <2>1, MaxOfBounded
    <2> QED BY <2>2, <1>5, <1>7, <1>8
<1> DEFINE op == [code |-> shape.code, at |-> a, ins |-> ins, out |-> out]
<1>10. op \in Operation
    BY <1>3, <1>8 DEF Operation
<1>11. op.out = out /\ op.ins = ins
    OBVIOUS
<1> HIDE DEF op
<1>12. ops' = Append(ops, op) /\ ops \in Seq(Operation)
    BY <1>7 DEF op, Graph
<1>13. /\ ops' \in Seq(Operation) /\ Len(ops') = Len(ops) + 1
       /\ ops'[Len(ops) + 1] = op /\ \A i \in 1..Len(ops) : ops'[i] = ops[i]
    BY <1>10, <1>12
<1>14. ASSUME NEW v \in 1..count'
       PROVE  \E i \in 1..Len(ops') : ops'[i].out = v \/ v \in ToSet(ops'[i].ins)
    <2>1. CASE v <= count
        <3>1. PICK i \in 1..Len(ops) : ops[i].out = v \/ v \in ToSet(ops[i].ins)
            BY <2>1, <1>1 DEF Graph, Attached
        <3>2. i \in 1..Len(ops') /\ ops'[i] = ops[i]
            BY <1>12, <1>13
        <3> QED BY <3>1, <3>2
    <2>2. CASE count < v /\ v <= top
        <3>1. v \in ToSet(ins)
            BY <2>2, <1>1, <1>5, <1>6
        <3>2. Len(ops) + 1 \in 1..Len(ops')
            BY <1>12, <1>13
        <3> QED BY <3>1, <3>2, <1>11, <1>13
    <2>3. CASE top < v
        <3>1. v = out
            BY <2>3, <1>5, <1>8, <1>9
        <3>2. Len(ops) + 1 \in 1..Len(ops')
            BY <1>12, <1>13
        <3> QED BY <3>1, <3>2, <1>11, <1>13
    <2> QED BY <2>1, <2>2, <2>3, <1>1, <1>5
<1> QED BY <1>9, <1>13, <1>14 DEF Graph, Attached

-----------------------------------------------------------------------------
(* Edges and candidates *)

Edge == [op : 1..Len(ops), slot : Nat]

\* An edge leads from its operation to a varnode.
Touches(e, v) ==
    \/ e.slot = 0 /\ ops[e.op].out = v
    \/ e.slot \in 1..Len(ops[e.op].ins) /\ ops[e.op].ins[e.slot] = v

LEMMA OperationTypes ==
    ASSUME Graph, NEW i \in 1..Len(ops)
    PROVE  /\ ops[i] \in Operation
           /\ ops[i].at \in 1..NumAddrs /\ ops[i].out \in Nat
           /\ ops[i].ins \in Seq(Nat \ {0}) /\ Len(ops[i].ins) \in Nat
<1>1. ops[i] \in Operation
    BY DEF Graph
<1> QED BY <1>1 DEF Operation

LEMMA UpEdges ==
    ASSUME Graph, NEW v
    PROVE  /\ Up(v) \in Seq(Edge)
           /\ \A e \in ToSet(Up(v)) : Touches(e, v)
           /\ (\E i \in 1..Len(ops) : ops[i].out = v) => ToSet(Up(v)) # {}
<1> DEFINE edge(i) == [op |-> i, slot |-> 0]
           t == [i \in 1..Len(ops) |-> IF ops[i].out = v THEN <<edge(i)>> ELSE <<>>]
<1>1. Len(ops) \in Nat
    BY DEF Graph
<1>2. ASSUME NEW i \in 1..Len(ops)
      PROVE  edge(i) \in Edge /\ edge(i).slot = 0 /\ edge(i).op = i
    BY DEF Edge
<1> HIDE DEF edge
<1>3. t \in [1..Len(ops) -> Seq(Edge)]
    BY <1>2
<1>4. Up(v) = FlattenSeq(t)
    BY DEF Up, Concat, edge
<1>5. ASSUME NEW i \in 1..Len(ops), NEW e
      PROVE  e \in ToSet(t[i]) <=> e = edge(i) /\ ops[i].out = v
    BY DEF ToSet
<1> HIDE DEF t
<1>6. /\ FlattenSeq(t) \in Seq(Edge)
      /\ \A e : e \in ToSet(FlattenSeq(t)) <=> \E i \in 1..Len(ops) : e \in ToSet(t[i])
    BY <1>1, <1>3, Gathers
<1>7. ASSUME NEW e \in ToSet(Up(v)) PROVE Touches(e, v)
    <2>1. PICK i \in 1..Len(ops) : e = edge(i) /\ ops[i].out = v
        BY <1>4, <1>5, <1>6
    <2> QED BY <2>1, <1>2 DEF Touches
<1>8. ASSUME NEW i \in 1..Len(ops), ops[i].out = v PROVE edge(i) \in ToSet(Up(v))
    BY <1>4, <1>5, <1>6, <1>8
<1> QED BY <1>4, <1>6, <1>7, <1>8

LEMMA UseEdges ==
    ASSUME Graph, NEW i \in 1..Len(ops), NEW v
    PROVE  /\ UsesBy(i, v) \in Seq(Edge)
           /\ \A e \in ToSet(UsesBy(i, v)) : Touches(e, v)
           /\ v \in ToSet(ops[i].ins) => ToSet(UsesBy(i, v)) # {}
<1> DEFINE slots == {p \in 1..Len(ops[i].ins) : ops[i].ins[p] = v}
           edge == [op |-> i, slot |-> Min(slots)]
           n == Len(ops[i].ins)
           t == [p \in 1..n |-> IF p \in slots THEN <<edge>> ELSE <<>>]
<1>1. n \in Nat /\ slots \subseteq 1..n
    BY OperationTypes
<1>2. ASSUME slots # {} PROVE edge \in Edge /\ Touches(edge, v)
    <2>1. Min(slots) \in slots
        <3> HIDE DEF slots, n
        <3>1. slots \subseteq Nat
            BY <1>1
        <3> QED BY <3>1, <1>2, MinOfNumbers
    <2>2. Min(slots) \in 1..Len(ops[i].ins) /\ ops[i].ins[Min(slots)] = v
        BY <2>1
    <2> DEFINE s == Min(slots)
    <2> HIDE DEF s
    <2>3. edge = [op |-> i, slot |-> s]
        BY DEF s
    <2>4. s \in 1..Len(ops[i].ins) /\ ops[i].ins[s] = v /\ s \in Nat
        BY <2>2, <1>1 DEF s
    <2> QED BY <2>3, <2>4 DEF Touches, Edge
<1>3. UsesBy(i, v) = FlattenSeq(t)
    BY DEF UsesBy, Concat
<1> HIDE DEF edge, n, slots
<1>4. t \in [1..n -> Seq(Edge)]
    BY <1>2
<1>5. ASSUME NEW p \in 1..n, NEW e
      PROVE  e \in ToSet(t[p]) <=> e = edge /\ p \in slots
    BY DEF ToSet
<1> HIDE DEF t
<1>6. /\ FlattenSeq(t) \in Seq(Edge)
      /\ \A e : e \in ToSet(FlattenSeq(t)) <=> \E p \in 1..n : e \in ToSet(t[p])
    BY <1>1, <1>4, Gathers
<1>7. ASSUME NEW e \in ToSet(UsesBy(i, v)) PROVE Touches(e, v)
    <2>1. PICK p \in 1..n : e = edge /\ p \in slots
        BY <1>3, <1>5, <1>6
    <2> QED BY <2>1, <1>2
<1>8. ASSUME v \in ToSet(ops[i].ins) PROVE edge \in ToSet(UsesBy(i, v))
    <2>1. PICK p \in slots : TRUE
        BY <1>8, OperationTypes DEF slots, ToSet
    <2> QED BY <2>1, <1>1, <1>3, <1>5, <1>6
<1> QED BY <1>3, <1>6, <1>7, <1>8

LEMMA DownEdges ==
    ASSUME Graph, NEW v
    PROVE  /\ Down(v) \in Seq(Edge)
           /\ \A e \in ToSet(Down(v)) : Touches(e, v)
           /\ (\E i \in 1..Len(ops) : v \in ToSet(ops[i].ins)) => ToSet(Down(v)) # {}
<1> DEFINE u(a) == [i \in 1..Len(ops) |-> IF ops[i].at = a THEN UsesBy(i, v) ELSE <<>>]
           t == [a \in 1..NumAddrs |-> FlattenSeq(u(a))]
<1>1. Len(ops) \in Nat /\ NumAddrs \in Nat
    BY NumAddrsAssumption DEF Graph
<1>2. \A a \in 1..NumAddrs : u(a) \in [1..Len(ops) -> Seq(Edge)]
    BY UseEdges
<1>3. Down(v) = FlattenSeq(t)
    BY DEF Down, Concat
<1>4. ASSUME NEW a \in 1..NumAddrs, NEW i \in 1..Len(ops), NEW e
      PROVE  e \in ToSet(u(a)[i]) <=> ops[i].at = a /\ e \in ToSet(UsesBy(i, v))
    BY DEF ToSet
<1> HIDE DEF u
<1>5. \A a \in 1..NumAddrs :
          /\ FlattenSeq(u(a)) \in Seq(Edge)
          /\ \A e : e \in ToSet(FlattenSeq(u(a)))
                      <=> \E i \in 1..Len(ops) : e \in ToSet(u(a)[i])
    BY <1>1, <1>2, Gathers
<1>6. t \in [1..NumAddrs -> Seq(Edge)] /\ \A a \in 1..NumAddrs : t[a] = FlattenSeq(u(a))
    BY <1>5
<1> HIDE DEF t
<1>7. /\ FlattenSeq(t) \in Seq(Edge)
      /\ \A e : e \in ToSet(FlattenSeq(t)) <=> \E a \in 1..NumAddrs : e \in ToSet(t[a])
    BY <1>1, <1>6, Gathers
<1>8. ASSUME NEW e \in ToSet(Down(v)) PROVE Touches(e, v)
    <2>1. PICK a \in 1..NumAddrs : e \in ToSet(FlattenSeq(u(a)))
        BY <1>3, <1>6, <1>7
    <2>2. PICK i \in 1..Len(ops) : e \in ToSet(UsesBy(i, v))
        BY <2>1, <1>4, <1>5
    <2> QED BY <2>2, UseEdges
<1>9. ASSUME NEW i \in 1..Len(ops), v \in ToSet(ops[i].ins) PROVE ToSet(Down(v)) # {}
    <2>1. PICK e : e \in ToSet(UsesBy(i, v))
        BY <1>9, UseEdges
    <2>2. ops[i].at \in 1..NumAddrs
        BY OperationTypes
    <2>3. e \in ToSet(u(ops[i].at)[i])
        BY <2>1, <2>2, <1>4
    <2>4. e \in ToSet(t[ops[i].at])
        BY <2>2, <2>3, <1>5, <1>6
    <2> QED BY <2>2, <2>4, <1>3, <1>7
<1> QED BY <1>3, <1>7, <1>8, <1>9

LEMMA NearEdges ==
    ASSUME Graph, NEW v \in 1..count
    PROVE  /\ Up(v) \o Down(v) \in Seq(Edge)
           /\ Up(v) \o Down(v) # <<>>
           /\ Touches((Up(v) \o Down(v))[1], v)
<1> DEFINE up == Up(v)
           down == Down(v)
           near == up \o down
<1>1. up \in Seq(Edge) /\ down \in Seq(Edge)
    BY UpEdges, DownEdges
<1>2. ToSet(up) # {} \/ ToSet(down) # {}
    BY UpEdges, DownEdges DEF Graph, Attached
<1>3. \A e \in ToSet(up) \cup ToSet(down) : Touches(e, v)
    BY UpEdges, DownEdges
<1> HIDE DEF up, down
<1>4. near \in Seq(Edge) /\ ToSet(near) = ToSet(up) \cup ToSet(down)
    BY <1>1, ToSetOfConcat
<1> HIDE DEF near
<1>5. PICK e : e \in ToSet(near)
    BY <1>2, <1>4
<1>6. near # <<>> /\ 1 \in 1..Len(near)
    BY <1>4, <1>5 DEF ToSet
<1>7. near[1] \in ToSet(near)
    BY <1>6, <1>4 DEF ToSet
<1>8. Touches(near[1], v)
    BY <1>3, <1>4, <1>7
<1> QED BY <1>4, <1>6, <1>8 DEF near, up, down

LEMMA AroundTypes ==
    ASSUME Graph, NEW edges \in Seq(Edge), NEW v, NEW m
    PROVE  Around(edges, v, m) \in Seq(Nat)
<1> DEFINE reached == [e \in 1..Len(edges) |-> edges[e].op]
           touched == Distinct(reached)
           side == [n \in 1..Len(touched) |->
                       IF m = 2 THEN Output(touched[n]) ELSE Inputs(touched[n])]
<1>1. reached \in Seq(1..Len(ops))
    <2>1. ASSUME NEW e \in 1..Len(edges) PROVE edges[e].op \in 1..Len(ops)
        <3>1. edges[e] \in Edge
            OBVIOUS
        <3> QED BY <3>1 DEF Edge
    <2> QED BY <2>1, SeqDef
<1> HIDE DEF reached
<1>2. touched \in Seq(1..Len(ops))
    BY <1>1, DistinctOnes
<1> HIDE DEF touched
<1>3. side \in [1..Len(touched) -> Seq(Nat)] /\ Len(touched) \in Nat
    <2>1. ASSUME NEW i \in 1..Len(ops)
          PROVE  Output(i) \in Seq(Nat) /\ Inputs(i) \in Seq(Nat)
        BY OperationTypes DEF Output, Inputs
    <2> QED BY <2>1, <1>2
<1> HIDE DEF side
<1>4. FlattenSeq(side) \in Seq(Nat)
    BY <1>3, Gathers
<1>5. Distinct(FlattenSeq(side)) \in Seq(Nat)
    BY <1>4, DistinctOnes
<1>6. Kept(Distinct(FlattenSeq(side)), 1..count \ {v}) \in Seq(Nat)
    BY <1>5, KeptOnes
<1> QED BY <1>6 DEF Around, Concat, side, touched, reached

\* The first edge is one of the varnode itself, by every method.
LEMMA FirstEdge ==
    ASSUME Graph, NEW v \in 1..count, NEW m
    PROVE  /\ Edges(v, m)[1] \in Edge
           /\ Touches(Edges(v, m)[1], v)
           /\ Edges(v, m)[1] = Nearest(v)
<1> DEFINE near == Up(v) \o Down(v)
           far == Around(near, v, m)
           further == [n \in 1..Len(far) |-> IF m = 1 THEN Up(far[n]) ELSE Down(far[n])]
<1>1. near \in Seq(Edge) /\ near # <<>> /\ Touches(near[1], v)
    BY NearEdges
<1>2. Edges(v, m) = IF m = 0 THEN near ELSE near \o FlattenSeq(further)
    BY DEF Edges, Concat
<1> HIDE DEF near
<1>3. far \in Seq(Nat)
    BY <1>1, AroundTypes
<1> HIDE DEF far
<1>4. further \in [1..Len(far) -> Seq(Edge)] /\ Len(far) \in Nat
    BY <1>3, UpEdges, DownEdges
<1> HIDE DEF further
<1>5. FlattenSeq(further) \in Seq(Edge)
    BY <1>4, Gathers
<1>6. (near \o FlattenSeq(further))[1] = near[1] /\ near[1] \in Edge
    BY <1>1, <1>5
<1>7. Edges(v, m)[1] = near[1]
    BY <1>2, <1>6
<1>8. near[1] = Nearest(v)
    BY DEF near, Nearest
<1> QED BY <1>1, <1>6, <1>7, <1>8

\* So a varnode whose slot can be packed is among the candidates for its hash.
LEMMA FirstLevelHasRoot ==
    ASSUME Graph, NEW v \in 1..count, NEW m, Fits(v)
    PROVE  /\ FirstLevel(Hash(v, m)) \in Seq(Nat)
           /\ v \in ToSet(FirstLevel(Hash(v, m)))
<1> DEFINE h == Hash(v, m)
           first == Edges(v, m)[1]
           t == [i \in 1..Len(ops) |->
                    IF ops[i].at # h.at \/ ops[i].code # h.code THEN <<>>
                    ELSE IF h.slot = 0 THEN Output(i)
                    ELSE IF h.slot <= Len(ops[i].ins)
                         THEN <<ops[i].ins[h.slot]>> ELSE <<>>]
<1>1. first \in Edge /\ Touches(first, v)
    BY FirstEdge
<1>2. h.slot = first.slot /\ h.code = ops[first.op].code /\ h.at = ops[first.op].at
    <2>1. /\ h.slot = first.slot % NumSlots
          /\ h.code = ops[first.op].code /\ h.at = ops[first.op].at
        BY DEF Hash
    <2>2. first = Nearest(v)
        BY FirstEdge
    <2>3. first.slot < NumSlots
        BY <2>2 DEF Fits
    <2>4. first.slot \in Nat
        BY <1>1 DEF Edge
    <2> HIDE DEF h, first
    <2>5. first.slot % NumSlots = first.slot
        BY <2>3, <2>4, NumSlotsAssumption
    <2> QED BY <2>1, <2>5
<1>3. FirstLevel(h) = Distinct(FlattenSeq(t))
    BY DEF FirstLevel, Concat
<1> HIDE DEF h, first
<1>4. first.op \in 1..Len(ops) /\ first.slot \in Nat /\ Len(ops) \in Nat
    BY <1>1 DEF Edge, Graph
<1>5. t \in [1..Len(ops) -> Seq(Nat)]
    <2>1. ASSUME NEW i \in 1..Len(ops) PROVE t[i] \in Seq(Nat)
        <3>1. Output(i) \in Seq(Nat)
            BY OperationTypes DEF Output
        <3>2. ASSUME h.slot # 0, h.slot <= Len(ops[i].ins)
              PROVE  <<ops[i].ins[h.slot]>> \in Seq(Nat)
            <4>1. h.slot \in 1..Len(ops[i].ins)
                BY <3>2, <1>2, <1>4, OperationTypes
            <4> QED BY <4>1, OperationTypes
        <3> QED BY <3>1, <3>2
    <2> QED BY <2>1
<1>6. v \in ToSet(t[first.op])
    <2>1. CASE first.slot = 0
        <3>1. ops[first.op].out = v /\ v # 0
            BY <1>1, <2>1 DEF Touches
        <3>2. t[first.op] = <<v>>
            BY <2>1, <3>1, <1>2, <1>4 DEF Output
        <3>3. v \in ToSet(<<v>>)
            BY DEF ToSet
        <3> HIDE DEF t
        <3> QED BY <3>2, <3>3
    <2>2. CASE first.slot # 0
        <3>1. /\ first.slot \in 1..Len(ops[first.op].ins)
              /\ ops[first.op].ins[first.slot] = v
            BY <1>1, <2>2 DEF Touches
        <3>2. t[first.op] = <<v>>
            BY <2>2, <3>1, <1>2, <1>4
        <3>3. v \in ToSet(<<v>>)
            BY DEF ToSet
        <3> HIDE DEF t
        <3> QED BY <3>2, <3>3
    <2> QED BY <2>1, <2>2
<1> HIDE DEF t
<1>7. FlattenSeq(t) \in Seq(Nat) /\ v \in ToSet(FlattenSeq(t))
    BY <1>4, <1>5, <1>6, Gathers
<1>8. Distinct(FlattenSeq(t)) \in Seq(Nat) /\ v \in ToSet(Distinct(FlattenSeq(t)))
    BY <1>7, DistinctOnes
<1> QED BY <1>3, <1>8 DEF h

\* The candidates that hash as the varnode does.
List(m) == Alike(Hash(root, m))

LEMMA ListHasRoot ==
    ASSUME Graph, root \in 1..count, Fits(root), NEW m
    PROVE  List(m) \in Seq(Nat) /\ root \in ToSet(List(m))
<1> DEFINE h == Hash(root, m)
           candidates == FirstLevel(h)
           same == {r \in ToSet(candidates) : Hash(r, h.method).trail = h.trail}
<1>1. candidates \in Seq(Nat) /\ root \in ToSet(candidates)
    BY FirstLevelHasRoot
<1>2. h.method = m
    BY DEF Hash
<1>3. root \in same
    BY <1>1, <1>2
<1>4. List(m) = Kept(candidates, same)
    BY DEF List, Alike
<1> HIDE DEF same, candidates
<1> QED BY <1>1, <1>3, <1>4, KeptOnes

\* 0, which stands for no list, is no varnode.
LEMMA ListIsSome ==
    ASSUME Graph, root \in 1..count, Fits(root), NEW m
    PROVE  List(m) # NoList
<1>1. root \in ToSet(List(m))
    BY ListHasRoot
<1>2. ToSet(NoList) = {0}
    BY DEF ToSet, NoList
<1> QED BY <1>1, <1>2

LEMMA ListsStay ==
    ASSUME UNCHANGED <<ops, count, root>>
    PROVE  /\ \A m : List(m)' = List(m) /\ Hash(root, m)' = Hash(root, m)
           /\ Fits(root)' = Fits(root)
<1>0. ops' = ops /\ count' = count /\ root' = root
    OBVIOUS
<1>1. \A v : Up(v)' = Up(v)
    BY <1>0 DEF Up, Concat
<1>2. \A i, v : UsesBy(i, v)' = UsesBy(i, v)
    BY <1>0 DEF UsesBy, Concat
<1>3. \A v : Down(v)' = Down(v)
    BY <1>0, <1>2 DEF Down, Concat
<1>4. \A edges, v, m : Around(edges, v, m)' = Around(edges, v, m)
    BY <1>0 DEF Around, Concat, Inputs, Output
<1>5. \A v, m : Edges(v, m)' = Edges(v, m)
    BY <1>1, <1>3, <1>4 DEF Edges, Concat
<1>6. \A v, m : Hash(v, m)' = Hash(v, m)
    <2> TAKE v, m
    <2>1. Edges(v, m)' = Edges(v, m)
        BY <1>5
    <2>2. Trail(Edges(v, m))' = Trail(Edges(v, m))
        BY <1>0, <2>1 DEF Trail
    <2> QED BY <1>0, <2>1, <2>2 DEF Hash
<1>7. \A h : FirstLevel(h)' = FirstLevel(h)
    BY <1>0 DEF FirstLevel, Concat, Output
<1>8. \A h : Alike(h)' = Alike(h)
    BY <1>0, <1>6, <1>7 DEF Alike
<1>9. Fits(root)' = Fits(root)
    BY <1>0, <1>1, <1>3 DEF Fits, Nearest
<1> QED BY <1>0, <1>6, <1>8, <1>9 DEF List

-----------------------------------------------------------------------------
(* The search and the lookup *)

Crowded(m) == Len(List(m)) > MaxDuplicates

\* What unique_hash knows when it has tried the methods of a set: the champion is
\* the list of one of them, or all of them are crowded.
Tried(methods) ==
    \/ champion = NoList /\ \A m \in methods : Crowded(m)
    \/ \E m \in methods : champion = List(m)

\* A list of one ends the search, else no method has one.
Chosen ==
    \/ champion = List(method) /\ Len(champion) = 1
    \/ method = 3 /\ \A m \in 0..3 : Len(List(m)) # 1

\* What is stored of the champion tells where in it the varnode is, and what was
\* found is what is in that place of the list of the lookup.
Packed ==
    /\ stored # None
    /\ stored.hash = Hash(root, method)
    /\ stored.total = Len(champion)
    /\ stored.pos \in 1..Len(champion) /\ champion[stored.pos] = root

LookedUp ==
    /\ matches = List(method)
    /\ found = IF Len(matches) = stored.total THEN matches[stored.pos] ELSE 0

\* What holds of a varnode whose slot can be packed.
HashInv ==
    /\ Graph
    /\ method \in 0..3
    /\ at \in {"emit", "try", "pack", "find", "end"}
    /\ at # "emit" => root \in 1..count
    /\ at \in {"emit", "try", "pack"} => stored = None
    /\ at = "emit" => champion = NoList /\ method = 0
    /\ at = "try" =>
          /\ Tried(0..(method - 1))
          /\ \A m \in 0..(method - 1) : Len(List(m)) # 1
    /\ at = "pack" => Chosen /\ (Tried(0..method) /\ (champion = NoList => method = 3))
    /\ at = "find" => Packed /\ Chosen
    /\ at = "end" =>
          \/ stored = None /\ \A m \in 0..3 : Crowded(m)
          \/ Packed /\ Chosen /\ LookedUp

IInv ==
    /\ Graph
    /\ at # "emit" => root \in 1..count
    /\ at = "emit" \/ Fits(root) => HashInv

LEMMA InitHash == Init => IInv
<1> SUFFICES ASSUME Init PROVE IInv
    OBVIOUS
<1>1. ops = <<>> /\ count = 0 /\ ops \in Seq(Operation)
    BY DEF Init
<1>2. Graph
    BY <1>1 DEF Graph, Attached
<1> QED BY <1>2 DEF Init, IInv, HashInv

\* The champion has the varnode in it.
LEMMA ChampionHasRoot ==
    ASSUME Graph, root \in 1..count, Fits(root), NEW methods, Tried(methods),
           champion # NoList
    PROVE  champion \in Seq(Nat) /\ root \in ToSet(champion) /\ Len(champion) > 0
<1>1. PICK m \in methods : champion = List(m)
    BY DEF Tried
<1>2. champion \in Seq(Nat) /\ root \in ToSet(champion)
    BY <1>1, ListHasRoot
<1>3. Len(champion) > 0
    BY <1>2 DEF ToSet
<1> QED BY <1>2, <1>3

LEMMA TryKeeps ==
    ASSUME HashInv, Fits(root), Try
    PROVE  HashInv'
<1> DEFINE list == List(method)
           best == IF Better(list) THEN list ELSE champion
           Ends == Better(list) /\ Len(list) = 1
<1>1. /\ Graph /\ method \in 0..3 /\ at = "try" /\ root \in 1..count /\ stored = None
      /\ Tried(0..(method - 1)) /\ \A m \in 0..(method - 1) : Len(List(m)) # 1
    BY DEF Try, HashInv
<1>2. /\ champion' = best
      /\ IF Ends \/ method = 3
         THEN at' = "pack" /\ UNCHANGED method
         ELSE method' = method + 1 /\ UNCHANGED at
      /\ UNCHANGED <<ops, count, root, stored, matches, found>>
    BY DEF Try, List
<1>3. Graph' /\ \A m : List(m)' = List(m)
    BY <1>1, <1>2, ListsStay DEF Graph, Attached, Operation
<1>4. list \in Seq(Nat) /\ Len(list) \in Nat /\ Len(list) > 0
    <2>1. list \in Seq(Nat) /\ root \in ToSet(list)
        BY <1>1, ListHasRoot
    <2> QED BY <2>1 DEF ToSet
<1>5. champion # NoList => champion \in Seq(Nat) /\ Len(champion) > 0
    BY <1>1, ChampionHasRoot
<1> HIDE DEF list
<1>6. MaxDuplicates \in Nat /\ MaxDuplicates >= 1
    BY MaxDuplicatesAssumption
\* The champion of the methods tried before has more than one.
<1>7. champion # NoList => Len(champion) # 1
    BY <1>1 DEF Tried
<1>8. \/ best = NoList /\ champion = NoList /\ Len(list) > MaxDuplicates
      \/ best = champion /\ champion # NoList
      \/ best = list
    BY <1>4, <1>6 DEF Better, Few
<1>9. Len(list) = 1 => Ends
    BY <1>4, <1>5, <1>6, <1>7 DEF Better, Few
<1>10. Ends => best = list /\ Len(list) = 1
    OBVIOUS
<1>11. 0..method = 0..(method - 1) \cup {method}
    BY <1>1
<1> DEFINE known(methods) ==
               \/ best = NoList /\ \A m \in methods : Len(List(m)) > MaxDuplicates
               \/ \E m \in methods : best = List(m)
<1>12. known(0..method)
    <2>1. CASE best = NoList /\ champion = NoList /\ Len(list) > MaxDuplicates
        <3>1. \A m \in 0..(method - 1) : Len(List(m)) > MaxDuplicates
            <4>1. \A m : champion # List(m)
                BY <2>1, <1>1, ListIsSome
            <4> QED BY <4>1, <1>1 DEF Tried, Crowded
        <3> QED BY <2>1, <3>1, <1>11 DEF list
    <2>2. CASE best = champion /\ champion # NoList
        <3>1. PICK m \in 0..(method - 1) : champion = List(m)
            BY <1>1, <2>2 DEF Tried
        <3> QED BY <2>2, <3>1, <1>11
    <2>3. CASE best = list
        BY <2>3, <1>11 DEF list
    <2> QED BY <1>8, <2>1, <2>2, <2>3
<1> HIDE DEF best, Ends
<1>13. \A methods : known(methods) => Tried(methods)'
    BY <1>2, <1>3 DEF Tried, Crowded
<1>14. CASE Ends
    <2>1. best = List(method)
        BY <1>10, <1>14 DEF list
    <2>2. method' = method /\ at' = "pack" /\ champion' = best
        BY <1>2, <1>14
    <2>3. Chosen'
        BY <2>1, <2>2, <1>3, <1>10, <1>14 DEF Chosen
    <2>4. Tried(0..method)'
        BY <1>12, <1>13, <2>2
    <2>5. champion' # NoList
        BY <1>1, <2>1, <2>2, ListIsSome
    <2> QED BY <1>1, <1>2, <1>3, <2>2, <2>3, <2>4, <2>5 DEF HashInv
<1>15. CASE ~Ends /\ method = 3
    <2>1. method' = method /\ at' = "pack" /\ champion' = best
        BY <1>2, <1>15
    <2>2. \A m \in 0..3 : Len(List(m)) # 1
        BY <1>1, <1>9, <1>11, <1>15 DEF list
    <2>3. Chosen'
        BY <2>1, <2>2, <1>3, <1>15 DEF Chosen
    <2>4. Tried(0..method)'
        BY <1>12, <1>13, <2>1
    <2> QED BY <1>1, <1>2, <1>3, <1>15, <2>1, <2>3, <2>4 DEF HashInv
<1>16. CASE ~Ends /\ method # 3
    <2>1. method' = method + 1 /\ at' = "try" /\ champion' = best
        BY <1>1, <1>2, <1>16
    <2>2. \A m \in 0..method : Len(List(m)) # 1
        BY <1>1, <1>9, <1>11, <1>16 DEF list
    <2>3. method' - 1 = method /\ method' \in 0..3
        BY <2>1, <1>1, <1>16
    <2>4. Tried(0..(method - 1))'
        BY <1>12, <1>13, <2>1, <2>3
    <2>5. (\A m \in 0..(method - 1) : Len(List(m)) # 1)'
        BY <2>2, <2>3, <1>3
    <2> QED BY <1>1, <1>2, <1>3, <2>1, <2>3, <2>4, <2>5 DEF HashInv
<1> QED BY <1>14, <1>15, <1>16

LEMMA PackKeeps ==
    ASSUME HashInv, Pack
    PROVE  HashInv'
<1> DEFINE pos == CHOOSE p \in 1..Len(champion) : champion[p] = root
<1>1. \E p \in 1..Len(champion) : champion[p] = root
    BY DEF Pack, Contains
<1>2. pos \in 1..Len(champion) /\ champion[pos] = root
    BY <1>1
<1>3. /\ stored'.hash = Hash(root, method) /\ stored'.total = Len(champion)
      /\ stored'.pos = pos /\ stored' # None
    BY DEF Pack, None
<1>4. UNCHANGED <<ops, count, root, method, champion>> /\ at = "pack" /\ at' = "find"
    BY DEF Pack
<1>5. /\ \A m : List(m)' = List(m)
      /\ Hash(root, method)' = Hash(root, method)
    BY <1>4, ListsStay
<1> HIDE DEF pos
<1>6. Packed'
    BY <1>2, <1>3, <1>4, <1>5 DEF Packed
<1>7. Chosen'
    BY <1>4, <1>5 DEF HashInv, Chosen
<1>8. Graph' /\ method' \in 0..3 /\ root' \in 1..count'
    BY <1>4 DEF HashInv, Graph, Attached, Operation
<1> QED BY <1>4, <1>6, <1>7, <1>8 DEF HashInv

\* The search gives up only when no method had few candidates.
LEMMA GiveUpKeeps ==
    ASSUME HashInv, Fits(root), GiveUp
    PROVE  HashInv'
<1>1. /\ Graph /\ root \in 1..count /\ stored = None /\ method \in 0..3
      /\ Tried(0..method) /\ (champion = NoList => method = 3)
    BY DEF GiveUp, HashInv
<1>2. UNCHANGED <<ops, count, root, method, stored>> /\ at' = "end"
    BY DEF GiveUp
<1>3. \A m : List(m)' = List(m)
    BY <1>2, ListsStay
<1>4. champion = NoList
    <2> SUFFICES ASSUME champion # NoList PROVE FALSE
        OBVIOUS
    <2>1. root \in ToSet(champion) /\ champion \in Seq(Nat)
        BY <1>1, ChampionHasRoot
    <2>2. Contains(champion, root)
        BY <2>1 DEF Contains, ToSet
    <2> QED BY <2>2 DEF GiveUp
<1>5. \A m \in 0..3 : Crowded(m)
    <2>1. \A m \in 0..method : champion # List(m)
        BY <1>1, <1>4, ListIsSome
    <2> QED BY <1>1, <1>4, <2>1 DEF Tried
<1>6. \A m \in 0..3 : Crowded(m)'
    BY <1>3, <1>5 DEF Crowded
<1>7. Graph' /\ method' \in 0..3 /\ root' \in 1..count'
    BY <1>1, <1>2 DEF Graph, Attached, Operation
<1> QED BY <1>1, <1>2, <1>6, <1>7 DEF HashInv

LEMMA FindKeeps ==
    ASSUME HashInv, Find
    PROVE  HashInv'
<1>1. Packed /\ Chosen
    BY DEF Find, HashInv
<1>2. UNCHANGED <<ops, count, root, method, champion, stored>> /\ at' = "end"
    BY DEF Find
<1>3. /\ \A m : List(m)' = List(m)
      /\ Hash(root, method)' = Hash(root, method)
    BY <1>2, ListsStay
<1>4. matches' = List(method)
    BY <1>1 DEF Find, Packed, List
<1>5. Packed' /\ Chosen'
    BY <1>1, <1>2, <1>3 DEF Packed, Chosen
<1>6. LookedUp'
    BY <1>2, <1>3, <1>4 DEF Find, LookedUp
<1>7. Graph' /\ method' \in 0..3 /\ root' \in 1..count'
    BY <1>2 DEF Find, HashInv, Graph, Attached, Operation
<1> QED BY <1>2, <1>5, <1>6, <1>7 DEF HashInv

LEMMA StepHash == IInv /\ [Next]_vars => IInv'
<1> SUFFICES ASSUME IInv, [Next]_vars PROVE IInv'
    OBVIOUS
<1>1. ASSUME NEW shape \in Shapes, NEW a \in 1..NumAddrs,
             NEW ins \in NewInputs(shape.arity), Emit(shape, a, ins)
      PROVE  IInv'
    <2>1. Graph'
        BY <1>1, EmitKeepsGraph DEF IInv
    <2>2. at = "emit" /\ UNCHANGED <<method, champion, stored, at>>
        BY <1>1 DEF Emit
    <2> QED BY <2>1, <2>2 DEF IInv, HashInv
<1>2. ASSUME NEW v \in 1..count, Begin(v) PROVE IInv'
    <2>1. /\ at = "emit" /\ at' = "try" /\ root' = v
          /\ UNCHANGED <<ops, count, method, champion, stored>>
        BY <1>2 DEF Begin
    <2>2. Graph' /\ method' = 0 /\ champion' = NoList /\ stored' = None
        BY <2>1 DEF IInv, HashInv, Graph, Attached, Operation
    <2>3. 0..(method' - 1) = {}
        BY <2>2
    <2>4. (Tried(0..(method - 1)) /\ \A m \in 0..(method - 1) : Len(List(m)) # 1)'
        BY <2>2, <2>3 DEF Tried
    <2>5. HashInv'
        BY <2>1, <2>2, <2>4 DEF HashInv
    <2> QED BY <2>1, <2>2, <2>5 DEF IInv
\* The graph stays, and with it whether the slot can be packed.
<1>3. ASSUME UNCHANGED <<ops, count, root>>, at # "emit", at' # "emit",
             Fits(root) => HashInv'
      PROVE  IInv'
    <2>1. Fits(root)' = Fits(root)
        BY <1>3, ListsStay
    <2>2. Graph' /\ root' \in 1..count'
        BY <1>3 DEF IInv, Graph, Attached, Operation
    <2> QED BY <1>3, <2>1, <2>2 DEF IInv
<1>4. CASE Try
    <2>1. UNCHANGED <<ops, count, root>> /\ at # "emit" /\ at' # "emit"
        BY <1>4 DEF Try
    <2>2. Fits(root) => HashInv'
        BY <1>4, TryKeeps DEF IInv
    <2> QED BY <2>1, <2>2, <1>3
<1>5. CASE Pack
    <2>1. UNCHANGED <<ops, count, root>> /\ at # "emit" /\ at' # "emit"
        BY <1>5 DEF Pack
    <2>2. Fits(root) => HashInv'
        BY <1>5, PackKeeps DEF IInv
    <2> QED BY <2>1, <2>2, <1>3
<1>6. CASE GiveUp
    <2>1. UNCHANGED <<ops, count, root>> /\ at # "emit" /\ at' # "emit"
        BY <1>6 DEF GiveUp
    <2>2. Fits(root) => HashInv'
        BY <1>6, GiveUpKeeps DEF IInv
    <2> QED BY <2>1, <2>2, <1>3
<1>7. CASE Find
    <2>1. UNCHANGED <<ops, count, root>> /\ at # "emit" /\ at' # "emit"
        BY <1>7 DEF Find
    <2>2. Fits(root) => HashInv'
        BY <1>7, FindKeeps DEF IInv
    <2> QED BY <2>1, <2>2, <1>3
<1>8. CASE UNCHANGED vars
    <2>1. UNCHANGED <<ops, count, root, method, champion, stored, matches, found, at>>
        BY <1>8 DEF vars
    <2>2. /\ \A m : List(m)' = List(m) /\ Hash(root, m)' = Hash(root, m)
          /\ Fits(root)' = Fits(root)
        BY <2>1, ListsStay
    <2>3. Graph' /\ (at # "emit" => root \in 1..count)'
        BY <2>1 DEF IInv, Graph, Attached, Operation
    <2>4. HashInv => HashInv'
        BY <2>1, <2>2, <2>3
           DEF HashInv, Tried, Chosen, Crowded, Packed, LookedUp
    <2> QED BY <2>1, <2>2, <2>3, <2>4 DEF IInv
<1> QED BY <1>1, <1>2, <1>4, <1>5, <1>6, <1>7, <1>8 DEF Next, Ended

THEOREM HashInvariant == Spec => []IInv
BY InitHash, StepHash, PTL DEF Spec

\* unique_hash (dynahash.py:302-332) refuses a varnode, whatever the op graph, only
\* if its slot does not fit in the hash, or by each of the four methods more than
\* _MAX_DUPLICATES varnodes hash as it does.
THEOREM OnlyCrowdedIsRefused == Spec => []RefusedOnlyIfCrowded
<1>1. IInv => RefusedOnlyIfCrowded
    <2> SUFFICES ASSUME IInv, at = "end", stored = None, Fits(root), NEW m \in 0..3
                 PROVE  Len(Alike(Hash(root, m))) > MaxDuplicates
        BY DEF RefusedOnlyIfCrowded
    <2>1. CASE \A n \in 0..3 : Crowded(n)
        BY <2>1 DEF Crowded, List
    <2>2. CASE Packed
        BY <2>2 DEF Packed
    <2>3. HashInv
        BY DEF IInv
    <2> QED BY <2>1, <2>2, <2>3 DEF HashInv
<1> QED BY <1>1, HashInvariant, PTL

\* A varnode that some method tells from all others is found by its hash
\* (find_varnode, dynahash.py:288-300), in op graphs of any size, if its slot fits
\* in the hash.
THEOREM UniqueIsAlwaysFound == Spec => []UniqueIsFound
<1>1. IInv => UniqueIsFound
    <2> SUFFICES ASSUME IInv, at = "end", Fits(root), NEW m \in 0..3, Len(List(m)) = 1
                 PROVE  found = root
        BY DEF UniqueIsFound, List
    <2>1. ~Crowded(m)
        BY MaxDuplicatesAssumption DEF Crowded
    <2>2. Packed /\ LookedUp /\ champion = List(method) /\ Len(champion) = 1
        BY <2>1 DEF IInv, HashInv, Chosen
    <2>3. stored.pos = 1 /\ champion[1] = root
        BY <2>2 DEF Packed
    <2> QED BY <2>2, <2>3 DEF Packed, LookedUp
<1> QED BY <1>1, HashInvariant, PTL
=============================================================================
