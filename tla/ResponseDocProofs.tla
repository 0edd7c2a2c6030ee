-------------------------- MODULE ResponseDocProofs --------------------------
(***************************************************************************)
(* Proofs about ResponseDoc, and about Lowering and HighVariables as it    *)
(* uses them, for any expressions, AIL graphs, variables and texts: the    *)
(* text of a response is angr's, every reference in it is to something     *)
(* that has been read, the op graph is read back as it is, and what reads  *)
(* and writes what is the same in it as in the statements it is made of.   *)
(*                                                                         *)
(* The proof goes through the parts of a response. What a sequence becomes *)
(* element by element (Each) is what each part becomes, one after the      *)
(* other: so a text is shown if each of its segments is, and a reference   *)
(* resolves if that which it is to is in a part before. What each part is  *)
(* follows from an invariant: of the lowering (every operation refers to   *)
(* varnodes there are, the times of the blocks follow each other, the      *)
(* in-edges are the edges of the graph, each once), and of the table of    *)
(* variables, which is that of HighVariablesProofs.                        *)
(*                                                                         *)
(* For the data flow, each varnode is given the values it carries: a       *)
(* value's varnode that value, a temporary what the operations that write  *)
(* it read. While the lowering runs there is one such assignment, by which *)
(* every statement so far has its operation; a step extends it.            *)
(*                                                                         *)
(* What recursive functions compute is proved by induction over the set of *)
(* the numbers a fact holds for, and through that they are defined at all. *)
(***************************************************************************)
EXTENDS ResponseDoc, WellFoundedInduction, SequenceTheorems, FiniteSetTheorems, TLAPS

-----------------------------------------------------------------------------
(* Induction, over the set of the numbers a fact holds for *)

Less == {p \in Nat \X Nat : p[1] < p[2]}

\* A set of numbers with an element has a least one.
LEMMA LeastElement ==
    ASSUME NEW T, T \subseteq Nat, T # {}
    PROVE  \E m \in T : \A n \in T : m <= n
<1>1. IsWellFoundedOn(Less, Nat)
    BY NatLessThanWellFounded DEF OpToRel, Less
<1>2. PICK m \in T : \A n \in T : ~(<<n, m>> \in Less)
    BY <1>1, WFMin, Zenon
<1>3. ASSUME NEW n \in T, n < m PROVE FALSE
    <2>1. <<n, m>> \in Nat \X Nat /\ <<n, m>>[1] < <<n, m>>[2]
        BY <1>3
    <2>2. <<n, m>> \in Less
        BY <2>1, Zenon DEF Less
    <2> QED BY <2>2, <1>2
<1>4. \A n \in T : m <= n
    BY <1>3
<1> QED BY <1>4

\* Induction up to a number.
LEMMA Induction ==
    ASSUME NEW N \in Nat, NEW T, 0 \in T,
           \A n \in 1..N : n - 1 \in T => n \in T
    PROVE  \A n \in 0..N : n \in T
<1> DEFINE Missed == {n \in 0..N : n \notin T}
<1>1. SUFFICES ASSUME Missed # {} PROVE FALSE
    OBVIOUS
<1>2. Missed \subseteq Nat
    OBVIOUS
<1>3. PICK m \in Missed : \A n \in Missed : m <= n
    BY <1>1, <1>2, LeastElement
<1>4. m \in 1..N /\ m \notin T
    BY <1>3
<1>5. m - 1 \in 0..N /\ m - 1 \notin Missed
    BY <1>3, <1>4
<1> QED BY <1>4, <1>5

\* The same from all the numbers before.
LEMMA StrongInduction ==
    ASSUME NEW S, S \subseteq Nat, NEW T,
           \A n \in S : (\A m \in S : m < n => m \in T) => n \in T
    PROVE  S \subseteq T
<1> DEFINE Missed == {n \in S : n \notin T}
<1>1. SUFFICES ASSUME Missed # {} PROVE FALSE
    OBVIOUS
<1>2. PICK m \in Missed : \A n \in Missed : m <= n
    BY <1>1, LeastElement
<1>3. \A n \in S : n < m => n \in T
    BY <1>2
<1> QED BY <1>2, <1>3

\* f has the values that a step computes from those before.
Solves(f, S, step, k) == \A n \in S : n < k => f[n] = step[n][f]

Steps(S, D) == [S -> [[S -> D] -> D]]

Backward(S, D, step) ==
    \A n \in S : \A f, g \in [S -> D] :
        (\A m \in S : m < n => f[m] = g[m]) => step[n][f] = step[n][g]

SolutionsUnique(S, D, step) ==
    \A k \in Nat : \A f, g \in [S -> D] :
        Solves(f, S, step, k) /\ Solves(g, S, step, k)
        => \A n \in S : n < k => f[n] = g[n]

\* Two solutions of a recursion agree below every number.
LEMMA SolutionsAgree ==
    ASSUME NEW S \in SUBSET Nat, NEW D, NEW step, Backward(S, D, step)
    PROVE  SolutionsUnique(S, D, step)
<1> SUFFICES ASSUME NEW k \in Nat, NEW f \in [S -> D], NEW g \in [S -> D],
                    Solves(f, S, step, k), Solves(g, S, step, k)
             PROVE  \A n \in S : n < k => f[n] = g[n]
    BY DEF SolutionsUnique
<1> DEFINE T == {n \in S : n < k => f[n] = g[n]}
<1>1. ASSUME NEW n \in S, \A m \in S : m < n => m \in T PROVE n \in T
    <2>1. SUFFICES ASSUME n < k PROVE f[n] = g[n]
        OBVIOUS
    <2>2. \A m \in S : m < n => f[m] = g[m]
        BY <1>1, <2>1
    <2>3. step[n][f] = step[n][g]
        BY <2>2, Zenon DEF Backward
    <2> QED BY <2>1, <2>3 DEF Solves
<1> HIDE DEF T
<1>2. S \subseteq T
    BY <1>1, StrongInduction
<1> QED BY <1>2 DEF T

HasSolution(S, D, step) == \E f \in [S -> D] : f = [n \in S |-> step[n][f]]

\* What is defined by recursion on the numbers before exists.
LEMMA Recursion ==
    ASSUME NEW S \in SUBSET Nat, NEW D, D # {}, NEW step \in Steps(S, D), Backward(S, D, step)
    PROVE  HasSolution(S, D, step)
<1>0. S \subseteq Nat
    OBVIOUS
<1> DEFINE T == {k \in Nat : \E f \in [S -> D] : Solves(f, S, step, k)}
<1>1. 0 \in T
    <2>1. PICK d \in D : TRUE
        OBVIOUS
    <2>2. [n \in S |-> d] \in [S -> D]
        OBVIOUS
    <2>3. Solves([n \in S |-> d], S, step, 0)
        BY DEF Solves
    <2> QED BY <2>2, <2>3
<1>2. ASSUME NEW k \in Nat \ {0}, k - 1 \in T PROVE k \in T
    <2>1. PICK f \in [S -> D] : Solves(f, S, step, k - 1)
        BY <1>2
    <2>0. step \in [S -> [[S -> D] -> D]]
        BY DEF Steps
    <2> DEFINE g == [n \in S |-> IF n = k - 1 THEN step[n][f] ELSE f[n]]
    <2>2. g \in [S -> D]
        BY <2>0
    <2>3. ASSUME NEW n \in S, n < k PROVE g[n] = step[n][g]
        <3>1. g[n] = step[n][f]
            <4>1. CASE n = k - 1
                BY <4>1
            <4>2. CASE n # k - 1
                <5>1. n < k - 1
                    BY <1>0, <2>3, <4>2
                <5> QED BY <2>1, <4>2, <5>1 DEF Solves
            <4> QED BY <4>1, <4>2
        <3>2. \A m \in S : m < n => g[m] = f[m]
            BY <1>0, <2>3
        <3> HIDE DEF g
        <3>3. step[n][g] = step[n][f]
            BY <2>2, <3>2, Zenon DEF Backward
        <3> QED BY <3>1, <3>3
    <2> HIDE DEF g
    <2>4. Solves(g, S, step, k)
        BY <2>3 DEF Solves
    <2> QED BY <2>2, <2>4
<1> HIDE DEF T
<1>3. ASSUME NEW k \in Nat PROVE k \in T
    <2>1. \A n \in 0..k : n \in T
        BY <1>1, <1>2, Induction
    <2> QED BY <2>1
<1>8. SolutionsUnique(S, D, step)
    BY SolutionsAgree
<1> DEFINE part(k) == CHOOSE f \in [S -> D] : Solves(f, S, step, k)
           f == [n \in S |-> part(n + 1)[n]]
<1>4. ASSUME NEW k \in Nat PROVE part(k) \in [S -> D] /\ Solves(part(k), S, step, k)
    <2>1. \E g \in [S -> D] : Solves(g, S, step, k)
        BY <1>3 DEF T
    <2> QED BY <2>1, Zenon
<1> HIDE DEF part
<1>5. f \in [S -> D]
    BY <1>4
<1>9. ASSUME NEW m \in S PROVE f[m] = part(m + 1)[m]
    OBVIOUS
<1> HIDE DEF f
<1>6. ASSUME NEW n \in S PROVE f[n] = step[n][f]
    <2>1. n + 1 \in Nat /\ n < n + 1
        OBVIOUS
    <2>2. part(n + 1)[n] = step[n][part(n + 1)]
        BY <2>1, <1>4 DEF Solves
    <2>3. ASSUME NEW m \in S, m < n PROVE f[m] = part(n + 1)[m]
        <3>1. m + 1 \in Nat /\ m < m + 1
            OBVIOUS
        <3>2. Solves(part(n + 1), S, step, m + 1)
            BY <1>4, <2>1, <2>3 DEF Solves
        <3> DEFINE p == part(m + 1)
                   q == part(n + 1)
        <3>3. p \in [S -> D] /\ q \in [S -> D] /\ Solves(p, S, step, m + 1)
            BY <1>4, <2>1, <3>1
        <3>5. Solves(q, S, step, m + 1)
            BY <3>2
        <3> DEFINE k == m + 1
        <3>7. k \in Nat /\ Solves(p, S, step, k) /\ Solves(q, S, step, k)
            BY <3>1, <3>3, <3>5
        <3> HIDE DEF p, q, k
        <3>8. \A i \in S : i < k => p[i] = q[i]
            BY <3>3, <3>7, <1>8 DEF SolutionsUnique
        <3>6. \A i \in S : i < m + 1 => p[i] = q[i]
            BY <3>8 DEF k
        <3>4. f[m] = part(m + 1)[m]
            BY <1>9
        <3> QED BY <3>1, <3>4, <3>6 DEF p, q
    <2>5. f[n] = part(n + 1)[n]
        BY <1>9
    <2>4. step[n][f] = step[n][part(n + 1)]
        BY <1>4, <1>5, <2>1, <2>3, Zenon DEF Backward
    <2> QED BY <2>2, <2>4, <2>5
<1>7. f = [n \in S |-> step[n][f]]
    BY <1>5, <1>6
<1> QED BY <1>5, <1>7 DEF HasSolution

Reached(f, N, a, e) == f = [n \in 0..N |-> IF n = 0 THEN a ELSE e[n][f[n - 1]]]

Moves(N, D) == [1..N -> [D -> D]]

\* What is defined by recursion on the number before exists.
LEMMA Stepwise ==
    ASSUME NEW N \in Nat, NEW D, NEW a \in D, NEW e \in Moves(N, D)
    PROVE  \E f \in [0..N -> D] : Reached(f, N, a, e)
<1>0. e \in [1..N -> [D -> D]]
    BY DEF Moves
<1> DEFINE S == 0..N
           step == [n \in S |-> [f \in [S -> D] |-> IF n = 0 THEN a ELSE e[n][f[n - 1]]]]
<1>1. S \subseteq Nat /\ D # {}
    OBVIOUS
<1>2. ASSUME NEW n \in S, NEW f \in [S -> D]
      PROVE  (IF n = 0 THEN a ELSE e[n][f[n - 1]]) \in D
    <2>1. CASE n = 0
        BY <2>1
    <2>2. CASE n # 0
        <3>1. n \in 1..N /\ n - 1 \in S
            BY <2>2
        <3>2. f[n - 1] \in D
            BY <3>1
        <3> QED BY <1>0, <2>2, <3>1, <3>2
    <2> QED BY <2>1, <2>2
<1>3. step \in [S -> [[S -> D] -> D]]
    <2> HIDE DEF S
    <2> QED BY <1>2
<1>4. ASSUME NEW n \in S, NEW f \in [S -> D] 
      PROVE step[n][f] = IF n = 0 THEN a ELSE e[n][f[n - 1]]
    <2> HIDE DEF S
    <2> QED OBVIOUS
<1> HIDE DEF step
<1>5. ASSUME NEW n \in S, NEW f \in [S -> D], NEW g \in [S -> D],
             \A m \in S : m < n => f[m] = g[m]
      PROVE  step[n][f] = step[n][g]
    <2>1. n # 0 => f[n - 1] = g[n - 1]
        BY <1>5
    <2> QED BY <1>4, <2>1
<1>6. Backward(S, D, step)
    <2> HIDE DEF S
    <2> QED BY <1>5 DEF Backward
<1>7. PICK f \in [S -> D] : f = [n \in S |-> step[n][f]]
    <2> HIDE DEF S
    <2>1. HasSolution(S, D, step)
        BY <1>1, <1>3, <1>6, Recursion DEF Steps
    <2> QED BY <2>1 DEF HasSolution
<1>8. \A n \in S : f[n] = IF n = 0 THEN a ELSE e[n][f[n - 1]]
    <2>1. \A n \in S : f[n] = step[n][f]
        <3> HIDE DEF S
        <3> QED BY <1>7
    <2> QED BY <1>4, <2>1
<1>9. f = [n \in S |-> IF n = 0 THEN a ELSE e[n][f[n - 1]]]
    <2> HIDE DEF S
    <2> QED BY <1>7, <1>8
<1> QED BY <1>7, <1>9 DEF Reached

-----------------------------------------------------------------------------
(* Sequences *)

\* A sequence that is not empty is one with an element appended.
LEMMA LastSplits ==
    ASSUME NEW S, NEW s \in Seq(S), NEW n \in 1..Len(s)
    PROVE  /\ SubSeq(s, 1, n - 1) \in Seq(S) /\ s[n] \in S
           /\ Len(SubSeq(s, 1, n - 1)) = n - 1
           /\ SubSeq(s, 1, n) = Append(SubSeq(s, 1, n - 1), s[n])
<1>1. /\ SubSeq(s, 1, n - 1) \in Seq(S) /\ Len(SubSeq(s, 1, n - 1)) = n - 1 /\ s[n] \in S
      /\ SubSeq(s, 1, n) \in Seq(S) /\ Len(SubSeq(s, 1, n)) = n
    OBVIOUS
<1>2. \A i \in 1..n : SubSeq(s, 1, n)[i] = Append(SubSeq(s, 1, n - 1), s[n])[i]
    OBVIOUS
<1>3. Append(SubSeq(s, 1, n - 1), s[n]) \in Seq(S)
      /\ Len(Append(SubSeq(s, 1, n - 1), s[n])) = n
    BY <1>1
<1> QED BY <1>1, <1>2, <1>3, SeqEqual

\* The shortest and the longest prefix of a sequence.
LEMMA SubSeqWhole ==
    ASSUME NEW S, NEW s \in Seq(S)
    PROVE  SubSeq(s, 1, 0) = <<>> /\ SubSeq(s, 1, Len(s)) = s
<1>1. SubSeq(s, 1, Len(s)) \in Seq(S) /\ Len(SubSeq(s, 1, Len(s))) = Len(s)
      /\ \A i \in 1..Len(s) : SubSeq(s, 1, Len(s))[i] = s[i]
    OBVIOUS
<1>2. SubSeq(s, 1, 0) = <<>>
    OBVIOUS
<1> QED BY <1>1, <1>2, SeqEqual

\* Sequences are made by appending.
LEMMA SeqInduction ==
    ASSUME NEW S, NEW T, <<>> \in T,
           \A s \in Seq(S) : \A x \in S : s \in T => Append(s, x) \in T
    PROVE  Seq(S) \subseteq T
<1> SUFFICES ASSUME NEW s \in Seq(S) PROVE s \in T
    OBVIOUS
<1> DEFINE P == {n \in Nat : SubSeq(s, 1, n) \in T}
<1>1. 0 \in P
    BY SubSeqWhole
<1>2. ASSUME NEW n \in 1..Len(s), n - 1 \in P PROVE n \in P
    <2>1. /\ SubSeq(s, 1, n - 1) \in Seq(S) /\ s[n] \in S
          /\ SubSeq(s, 1, n) = Append(SubSeq(s, 1, n - 1), s[n])
        BY LastSplits
    <2> DEFINE u == SubSeq(s, 1, n - 1)
    <2>2. u \in T /\ n \in Nat
        BY <1>2
    <2> HIDE DEF u
    <2>3. Append(u, s[n]) \in T
        BY <2>1, <2>2 DEF u
    <2> QED BY <2>1, <2>2, <2>3 DEF u
<1>0. Len(s) \in Nat
    OBVIOUS
<1> HIDE DEF P
<1>3. \A n \in 0..Len(s) : n \in P
    BY <1>0, <1>1, <1>2, Induction
<1>4. Len(s) \in P
    BY <1>0, <1>3
<1> QED BY <1>4, SubSeqWhole DEF P

\* FlattenSeq is its last partial result.
LEMMA FlattenUnfolds ==
    ASSUME NEW S, NEW s \in Seq(Seq(S))
    PROVE  \E g \in [0..Len(s) -> Seq(S)] :
               /\ g[0] = <<>> /\ \A i \in 1..Len(s) : g[i] = g[i - 1] \o s[i]
               /\ FlattenSeq(s) = g[Len(s)]
<1> DEFINE N == Len(s)
           e == [i \in 1..N |-> [x \in Seq(S) |-> x \o s[i]]]
           flatten == CHOOSE f : f = [i \in 1..N |->
                          IF i = 1 THEN s[i] ELSE f[i - 1] \o s[i]]
<1>1. e \in Moves(N, Seq(S)) /\ N \in Nat /\ <<>> \in Seq(S)
    BY DEF Moves
<1>2. \A i \in 1..N : s[i] \in Seq(S) /\ \A x \in Seq(S) : e[i][x] = x \o s[i]
    OBVIOUS
<1>3. N = 0 => s = <<>> /\ FlattenSeq(s) = <<>>
    BY DEF FlattenSeq
<1>4. N # 0 => FlattenSeq(s) = flatten[N]
    BY DEF FlattenSeq
<1> HIDE DEF e, N
<1>5. PICK g \in [0..N -> Seq(S)] : Reached(g, N, <<>>, e)
    BY <1>1, Stepwise
<1>6. g[0] = <<>>
    BY <1>1, <1>5 DEF Reached
<1>7. ASSUME NEW i \in 1..N PROVE g[i] = g[i - 1] \o s[i]
    <2>1. g[i - 1] \in Seq(S)
        <3>1. i - 1 \in 0..N
            BY <1>1
        <3> QED BY <3>1
    <2>2. g[i] = e[i][g[i - 1]]
        <3>1. i \in 0..N /\ i # 0
            BY <1>1
        <3> QED BY <1>5, <3>1 DEF Reached
    <2> QED BY <1>2, <2>1, <2>2
<1> DEFINE h == [i \in 1..N |-> g[i]]
<1>8. h = [i \in 1..N |-> IF i = 1 THEN s[i] ELSE h[i - 1] \o s[i]]
    <2>1. ASSUME NEW i \in 1..N
          PROVE  h[i] = IF i = 1 THEN s[i] ELSE h[i - 1] \o s[i]
        <3>1. CASE i = 1
            <4>1. g[i] = g[i - 1] \o s[i] /\ s[i] \in Seq(S)
                BY <1>2, <1>7
            <4>2. i - 1 = 0
                BY <3>1
            <4> QED BY <1>6, <3>1, <4>1, <4>2, ConcatEmptySeq
        <3>2. CASE i # 1
            <4>1. i - 1 \in 1..N
                BY <1>1, <3>2
            <4>2. h[i] = g[i] /\ h[i - 1] = g[i - 1]
                BY <4>1
            <4> HIDE DEF h
            <4> QED BY <1>7, <3>2, <4>2
        <3> QED BY <3>1, <3>2
    <2> QED BY <2>1
<1>9. flatten = [i \in 1..N |-> IF i = 1 THEN s[i] ELSE flatten[i - 1] \o s[i]]
    <2> HIDE DEF h
    <2> QED BY <1>8
<1> HIDE DEF flatten, h
<1> DEFINE P == {n \in Nat : n = 0 \/ flatten[n] = g[n]}
<1>10. ASSUME NEW n \in 1..N, n - 1 \in P PROVE n \in P
    <2>1. flatten[n] = IF n = 1 THEN s[n] ELSE flatten[n - 1] \o s[n]
        BY <1>9
    <2>2. CASE n = 1
        <3>1. g[n] = g[n - 1] \o s[n] /\ s[n] \in Seq(S)
            BY <1>2, <1>7
        <3>2. n - 1 = 0 /\ n \in Nat
            BY <2>2
        <3> QED BY <1>6, <2>1, <2>2, <3>1, <3>2, ConcatEmptySeq
    <2>3. CASE n # 1
        <3>1. flatten[n - 1] = g[n - 1] /\ n \in Nat
            BY <1>10, <2>3
        <3>2. g[n] = g[n - 1] \o s[n]
            BY <1>7
        <3> QED BY <2>1, <2>3, <3>1, <3>2
    <2> QED BY <2>2, <2>3
<1>11. 0 \in P
    OBVIOUS
<1> HIDE DEF P
<1>12. \A n \in 0..N : n \in P
    BY <1>1, <1>10, <1>11, Induction
<1>13. N \in P
    BY <1>1, <1>12
<1>14. FlattenSeq(s) = g[N]
    BY <1>1, <1>3, <1>4, <1>6, <1>13 DEF P, N
<1> QED BY <1>6, <1>7, <1>14 DEF N

\* There is nothing in no list.
LEMMA FlattenNone == FlattenSeq(<<>>) = <<>>
BY DEF FlattenSeq

\* A list more adds its elements at the end.
LEMMA FlattenAppend ==
    ASSUME NEW S, NEW s \in Seq(Seq(S)), NEW x \in Seq(S)
    PROVE  /\ FlattenSeq(s) \in Seq(S)
           /\ FlattenSeq(Append(s, x)) = FlattenSeq(s) \o x
<1> DEFINE t == Append(s, x)
<1>1. /\ t \in Seq(Seq(S)) /\ Len(t) = Len(s) + 1 /\ t[Len(s) + 1] = x /\ Len(s) \in Nat
      /\ \A i \in 1..Len(s) : t[i] = s[i]
    OBVIOUS
<1> HIDE DEF t
<1>2. PICK g \in [0..Len(s) -> Seq(S)] :
          /\ g[0] = <<>> /\ \A i \in 1..Len(s) : g[i] = g[i - 1] \o s[i]
          /\ FlattenSeq(s) = g[Len(s)]
    BY FlattenUnfolds
<1>3. PICK h \in [0..Len(t) -> Seq(S)] :
          /\ h[0] = <<>> /\ \A i \in 1..Len(t) : h[i] = h[i - 1] \o t[i]
          /\ FlattenSeq(t) = h[Len(t)]
    BY <1>1, FlattenUnfolds
<1> DEFINE P == {n \in Nat : g[n] = h[n]}
<1>4. 0 \in P
    BY <1>2, <1>3
<1>5. ASSUME NEW n \in 1..Len(s), n - 1 \in P PROVE n \in P
    <2>1. n \in 1..Len(t)
        BY <1>1
    <2>2. h[n] = h[n - 1] \o t[n] /\ g[n] = g[n - 1] \o s[n] /\ t[n] = s[n]
        BY <1>1, <1>2, <1>3, <2>1
    <2>3. n \in Nat /\ g[n - 1] = h[n - 1]
        BY <1>5
    <2> QED BY <2>2, <2>3
<1> HIDE DEF P
<1>6. \A n \in 0..Len(s) : n \in P
    BY <1>1, <1>4, <1>5, Induction
<1>7. Len(s) \in P
    BY <1>1, <1>6
<1>8. h[Len(t)] = h[Len(s)] \o x
    <2>1. Len(t) \in 1..Len(t) /\ Len(t) - 1 = Len(s)
        BY <1>1
    <2> QED BY <1>1, <1>3, <2>1
<1>9. g[Len(s)] \in Seq(S)
    <2>1. Len(s) \in 0..Len(s)
        BY <1>1
    <2> QED BY <2>1
<1> QED BY <1>2, <1>3, <1>7, <1>8, <1>9 DEF P, t

\* The elements of lists are elements of their concatenation.
LEMMA FlattenType ==
    ASSUME NEW S, NEW s \in Seq(Seq(S))
    PROVE  FlattenSeq(s) \in Seq(S)
BY FlattenAppend, EmptySeq

\* Concatenation and flattening commute.
LEMMA FlattenConcat ==
    ASSUME NEW S, NEW s \in Seq(Seq(S)), NEW t \in Seq(Seq(S))
    PROVE  FlattenSeq(s \o t) = FlattenSeq(s) \o FlattenSeq(t)
<1> DEFINE T == {u \in Seq(Seq(S)) : FlattenSeq(s \o u) = FlattenSeq(s) \o FlattenSeq(u)}
<1>1. <<>> \in T
    <2>1. s \o <<>> = s /\ FlattenSeq(s) \o <<>> = FlattenSeq(s) /\ <<>> \in Seq(Seq(S))
        BY FlattenType
    <2> QED BY <2>1, FlattenNone
<1>2. ASSUME NEW u \in Seq(Seq(S)), NEW x \in Seq(S), u \in T PROVE Append(u, x) \in T
    <2>1. s \o Append(u, x) = Append(s \o u, x) /\ s \o u \in Seq(Seq(S))
        <3>1. /\ s \o Append(u, x) \in Seq(Seq(S)) /\ Append(s \o u, x) \in Seq(Seq(S))
              /\ Len(s \o Append(u, x)) = Len(Append(s \o u, x))
            OBVIOUS
        <3>2. \A i \in 1..Len(s \o Append(u, x)) :
                  (s \o Append(u, x))[i] = Append(s \o u, x)[i]
            OBVIOUS
        <3> QED BY <3>1, <3>2, SeqEqual
    <2>2. /\ FlattenSeq(Append(s \o u, x)) = FlattenSeq(s \o u) \o x
          /\ FlattenSeq(Append(u, x)) = FlattenSeq(u) \o x
        BY <2>1, FlattenAppend
    <2>3. FlattenSeq(s) \in Seq(S) /\ FlattenSeq(u) \in Seq(S)
        BY FlattenType
    <2>4. (FlattenSeq(s) \o FlattenSeq(u)) \o x = FlattenSeq(s) \o (FlattenSeq(u) \o x)
        BY <2>3, ConcatAssociative, SMTT(30)
    <2>5. Append(u, x) \in Seq(Seq(S))
        OBVIOUS
    <2> QED BY <1>2, <2>1, <2>2, <2>4, <2>5
<1> HIDE DEF T
<1>3. Seq(Seq(S)) \subseteq T
    BY <1>1, <1>2, SeqInduction
<1> QED BY <1>3 DEF T

\* A sequence that has one element more.
LEMMA AppendEqual ==
    ASSUME NEW S, NEW s \in Seq(S), NEW t \in Seq(S), NEW x \in S, Len(t) = Len(s) + 1,
           \A i \in 1..Len(s) : t[i] = s[i], t[Len(s) + 1] = x
    PROVE  t = Append(s, x)
<1>1. Append(s, x) \in Seq(S) /\ Len(Append(s, x)) = Len(s) + 1 /\ Len(s) \in Nat
    OBVIOUS
<1>2. ASSUME NEW i \in 1..Len(t) PROVE t[i] = Append(s, x)[i]
    <2>1. CASE i \in 1..Len(s)
        BY <2>1, AppendProperties
    <2>2. CASE i = Len(s) + 1
        BY <2>2, AppendProperties
    <2> QED BY <1>1, <2>1, <2>2
<1> QED BY <1>1, <1>2, SeqEqual

\* One sequence is flat.
LEMMA FlattenOne ==
    ASSUME NEW S, NEW x \in Seq(S)
    PROVE  FlattenSeq(<<x>>) = x
<1>1. Append(<<>>, x) = <<x>> /\ <<>> \in Seq(Seq(S)) /\ <<>> \o x = x
    BY ConcatEmptySeq
<1> QED BY <1>1, FlattenAppend, FlattenNone

\* Sequences of nothing are nothing.
LEMMA FlattenEmpty ==
    ASSUME NEW S, NEW s \in Seq(Seq(S)), \A i \in 1..Len(s) : s[i] = <<>>
    PROVE  FlattenSeq(s) = <<>>
<1> DEFINE P == {n \in Nat : FlattenSeq(SubSeq(s, 1, n)) = <<>>}
<1>1. 0 \in P
    BY SubSeqWhole, FlattenNone
<1>2. ASSUME NEW n \in 1..Len(s), n - 1 \in P PROVE n \in P
    <2>1. /\ SubSeq(s, 1, n - 1) \in Seq(Seq(S)) /\ s[n] = <<>> /\ s[n] \in Seq(S)
          /\ SubSeq(s, 1, n) = Append(SubSeq(s, 1, n - 1), s[n])
        BY LastSplits
    <2>2. FlattenSeq(SubSeq(s, 1, n)) = FlattenSeq(SubSeq(s, 1, n - 1)) \o s[n]
        BY <2>1, FlattenAppend
    <2>3. <<>> \o <<>> = <<>> /\ n \in Nat
        OBVIOUS
    <2> QED BY <1>2, <2>1, <2>2, <2>3
<1>3. Len(s) \in Nat
    OBVIOUS
<1> HIDE DEF P
<1>4. Len(s) \in P
    <2>1. \A n \in 0..Len(s) : n \in P
        BY <1>1, <1>2, <1>3, Induction
    <2> QED BY <1>3, <2>1
<1> QED BY <1>4, SubSeqWhole DEF P

-----------------------------------------------------------------------------
(* What each element of a sequence becomes, one after the other *)

Becomes(E, D) == [E -> Seq(D)]
Each(f, s) == FlattenSeq([i \in DOMAIN s |-> f[s[i]]])

\* The images of a sequence.
LEMMA Images ==
    ASSUME NEW E, NEW D, NEW f \in Becomes(E, D), NEW s \in Seq(E)
    PROVE  /\ [i \in DOMAIN s |-> f[s[i]]] \in Seq(Seq(D))
           /\ DOMAIN s = 1..Len(s)
           /\ Each(f, s) \in Seq(D)
<1>1. f \in [E -> Seq(D)] /\ DOMAIN s = 1..Len(s) /\ Len(s) \in Nat
    BY DEF Becomes
<1>2. \A i \in 1..Len(s) : f[s[i]] \in Seq(D)
    BY <1>1
<1>3. [i \in DOMAIN s |-> f[s[i]]] \in Seq(Seq(D))
    BY <1>1, <1>2
<1> QED BY <1>1, <1>3, FlattenType DEF Each

\* Nothing becomes nothing.
LEMMA EachNone == \A f : Each(f, <<>>) = <<>>
<1> TAKE f
<1>1. [i \in DOMAIN <<>> |-> f[<<>>[i]]] = <<>>
    OBVIOUS
<1> QED BY <1>1, FlattenNone DEF Each

\* An element more adds what it becomes.
LEMMA EachAppend ==
    ASSUME NEW E, NEW D, NEW f \in Becomes(E, D), NEW s \in Seq(E), NEW x \in E
    PROVE  Each(f, Append(s, x)) = Each(f, s) \o f[x]
<1> DEFINE t == Append(s, x)
           imS == [i \in DOMAIN s |-> f[s[i]]]
           imT == [i \in DOMAIN t |-> f[t[i]]]
<1>1. t \in Seq(E) /\ Len(t) = Len(s) + 1 /\ Len(s) \in Nat
    OBVIOUS
<1>2. /\ imS \in Seq(Seq(D)) /\ imT \in Seq(Seq(D)) /\ f[x] \in Seq(D)
      /\ DOMAIN s = 1..Len(s) /\ DOMAIN t = 1..Len(t)
    <2> HIDE DEF t
    <2>1. f[x] \in Seq(D)
        BY DEF Becomes
    <2> QED BY <1>1, <2>1, Images
<1>3. Len(imS) = Len(s) /\ Len(imT) = Len(s) + 1
    BY <1>1, <1>2
<1>4. \A i \in 1..Len(s) : imT[i] = f[t[i]] /\ t[i] = s[i] /\ imS[i] = f[s[i]]
    BY <1>1, <1>2
<1>5. imT[Len(s) + 1] = f[x]
    BY <1>1, <1>2
<1> HIDE DEF t, imS, imT
<1>6. \A i \in 1..Len(imS) : imT[i] = imS[i]
    BY <1>3, <1>4
<1>8. imT = Append(imS, f[x])
    BY <1>2, <1>3, <1>5, <1>6, AppendEqual
<1> QED BY <1>2, <1>8, FlattenAppend DEF Each, imS, imT, t

\* One element becomes what it becomes.
LEMMA EachOne ==
    ASSUME NEW E, NEW D, NEW f \in Becomes(E, D), NEW x \in E
    PROVE  Each(f, <<x>>) = f[x]
<1>1. Append(<<>>, x) = <<x>> /\ <<>> \in Seq(E)
    OBVIOUS
<1>2. Each(f, <<x>>) = <<>> \o f[x] /\ f[x] \in Seq(D)
    BY <1>1, EachAppend, EachNone DEF Becomes
<1> QED BY <1>2, ConcatEmptySeq

\* What two sequences become, one after the other.
LEMMA EachConcat ==
    ASSUME NEW E, NEW D, NEW f \in Becomes(E, D), NEW s \in Seq(E), NEW t \in Seq(E)
    PROVE  Each(f, s \o t) = Each(f, s) \o Each(f, t)
<1> DEFINE T == {u \in Seq(E) : Each(f, s \o u) = Each(f, s) \o Each(f, u)}
<1>1. <<>> \in T
    <2>1. s \o <<>> = s /\ Each(f, s) \o <<>> = Each(f, s) /\ <<>> \in Seq(E)
        BY Images, ConcatEmptySeq
    <2> QED BY <2>1, EachNone
<1>2. ASSUME NEW u \in Seq(E), NEW x \in E, u \in T PROVE Append(u, x) \in T
    <2>1. s \o Append(u, x) = Append(s \o u, x) /\ s \o u \in Seq(E)
        <3>1. /\ s \o Append(u, x) \in Seq(E) /\ Append(s \o u, x) \in Seq(E)
              /\ Len(s \o Append(u, x)) = Len(Append(s \o u, x))
            OBVIOUS
        <3>2. \A i \in 1..Len(s \o Append(u, x)) :
                  (s \o Append(u, x))[i] = Append(s \o u, x)[i]
            OBVIOUS
        <3> QED BY <3>1, <3>2, SeqEqual
    <2>2. /\ Each(f, Append(s \o u, x)) = Each(f, s \o u) \o f[x]
          /\ Each(f, Append(u, x)) = Each(f, u) \o f[x]
        BY <2>1, EachAppend
    <2>3. Each(f, s) \in Seq(D) /\ Each(f, u) \in Seq(D) /\ f[x] \in Seq(D)
        BY Images DEF Becomes
    <2>4. (Each(f, s) \o Each(f, u)) \o f[x] = Each(f, s) \o (Each(f, u) \o f[x])
        <3>1. \A a, b, c \in Seq(D) : (a \o b) \o c = a \o (b \o c)
            BY ConcatAssociative, SMTT(30)
        <3> QED BY <2>3, <3>1, Zenon
    <2>5. Append(u, x) \in Seq(E)
        OBVIOUS
    <2> QED BY <1>2, <2>1, <2>2, <2>4, <2>5
<1> HIDE DEF T
<1>3. Seq(E) \subseteq T
    BY <1>1, <1>2, SeqInduction
<1> QED BY <1>3 DEF T

\* What the parts of a sequence become makes what the sequence becomes.
Parts(f, ss) == [i \in DOMAIN ss |-> Each(f, ss[i])]

\* What lists become, one list after the other.
LEMMA EachFlatten ==
    ASSUME NEW E, NEW D, NEW f \in Becomes(E, D), NEW ss \in Seq(Seq(E))
    PROVE  /\ Parts(f, ss) \in Seq(Seq(D))
           /\ Each(f, FlattenSeq(ss)) = FlattenSeq(Parts(f, ss))
<1> DEFINE T == {u \in Seq(Seq(E)) : Each(f, FlattenSeq(u)) = FlattenSeq(Parts(f, u))}
<1>0. ASSUME NEW u \in Seq(Seq(E))
      PROVE  Parts(f, u) \in Seq(Seq(D)) /\ Len(Parts(f, u)) = Len(u)
             /\ \A i \in 1..Len(u) : Parts(f, u)[i] = Each(f, u[i])
    <2>1. \A i \in 1..Len(u) : Each(f, u[i]) \in Seq(D)
        <3> TAKE i \in 1..Len(u)
        <3>1. u[i] \in Seq(E)
            OBVIOUS
        <3> QED BY <3>1, Images
    <2>2. DOMAIN u = 1..Len(u) /\ Len(u) \in Nat
        OBVIOUS
    <2> QED BY <2>1, <2>2 DEF Parts
<1>1. <<>> \in T
    <2>1. <<>> \in Seq(Seq(E)) /\ Parts(f, <<>>) = <<>>
        BY DEF Parts
    <2> QED BY <2>1, EachNone, FlattenNone
<1>2. ASSUME NEW u \in Seq(Seq(E)), NEW x \in Seq(E), u \in T PROVE Append(u, x) \in T
    <2>1. FlattenSeq(Append(u, x)) = FlattenSeq(u) \o x /\ FlattenSeq(u) \in Seq(E)
        BY FlattenAppend
    <2>2. Each(f, FlattenSeq(Append(u, x))) = Each(f, FlattenSeq(u)) \o Each(f, x)
        BY <2>1, EachConcat
    <2> DEFINE t == Append(u, x)
    <2>3. /\ t \in Seq(Seq(E)) /\ Len(t) = Len(u) + 1 /\ Len(u) \in Nat
          /\ t[Len(u) + 1] = x /\ \A i \in 1..Len(u) : t[i] = u[i]
        OBVIOUS
    <2> HIDE DEF t
    <2>4. Each(f, x) \in Seq(D)
        BY Images
    <2>5. Parts(f, t) = Append(Parts(f, u), Each(f, x))
        <3>1. Parts(f, u) \in Seq(Seq(D)) /\ Len(Parts(f, u)) = Len(u)
            BY <1>0
        <3>2. Parts(f, t) \in Seq(Seq(D)) /\ Len(Parts(f, t)) = Len(u) + 1
            BY <1>0, <2>3
        <3>5. \A i \in 1..(Len(u) + 1) : Parts(f, t)[i] = Each(f, t[i])
            BY <1>0, <2>3
        <3>3. ASSUME NEW i \in 1..Len(u) PROVE Parts(f, t)[i] = Parts(f, u)[i]
            <4>1. i \in 1..(Len(u) + 1)
                BY <2>3
            <4>2. Parts(f, u)[i] = Each(f, u[i])
                BY <1>0
            <4>3. t[i] = u[i]
                BY <2>3
            <4>4. Parts(f, t)[i] = Each(f, t[i])
                BY <3>5, <4>1
            <4> QED BY <4>2, <4>3, <4>4
        <3>4. Parts(f, t)[Len(u) + 1] = Each(f, x)
            <4>1. Len(u) + 1 \in 1..(Len(u) + 1)
                BY <2>3
            <4> QED BY <2>3, <3>5, <4>1
        <3> QED BY <2>4, <3>1, <3>2, <3>3, <3>4, AppendEqual
    <2>6. FlattenSeq(Parts(f, t)) = FlattenSeq(Parts(f, u)) \o Each(f, x)
        BY <1>0, <2>4, <2>5, FlattenAppend
    <2> QED BY <1>2, <2>2, <2>3, <2>6 DEF t
<1> HIDE DEF T
<1>3. Seq(Seq(E)) \subseteq T
    BY <1>1, <1>2, SeqInduction
<1> QED BY <1>0, <1>3 DEF T

\* Elements that become nothing.
LEMMA EachEmpty ==
    ASSUME NEW E, NEW D, NEW f \in Becomes(E, D), NEW s \in Seq(E),
           \A i \in 1..Len(s) : f[s[i]] = <<>>
    PROVE  Each(f, s) = <<>>
<1> DEFINE im == [i \in DOMAIN s |-> f[s[i]]]
<1>1. im \in Seq(Seq(D)) /\ DOMAIN s = 1..Len(s) /\ Len(s) \in Nat
    BY Images
<1>2. Len(im) = Len(s) /\ \A i \in 1..Len(im) : im[i] = <<>>
    BY <1>1
<1> HIDE DEF im
<1>3. FlattenSeq(im) = <<>>
    BY <1>1, <1>2, FlattenEmpty
<1> QED BY <1>3 DEF Each, im

Filled(s) == s # <<>>

\* Longer makes the last of some lists longer.
LEMMA LongerIs ==
    ASSUME NEW S, NEW ss \in Seq(S), Filled(ss)
    PROVE  \E front \in Seq(S), last \in S :
               /\ ss = Append(front, last) /\ ss[Len(ss)] = last
               /\ \A c : Longer(ss, c) = Append(front, Append(last, c))
<1>1. PICK front \in Seq(S), last \in S : ss = Append(front, last)
    BY SequenceEmptyOrAppend DEF Filled
<1>2. /\ Len(ss) = Len(front) + 1 /\ ss[Len(front) + 1] = last /\ Len(front) \in Nat
      /\ \A i \in 1..Len(front) : ss[i] = front[i]
    BY <1>1, AppendProperties
<1>3. ASSUME NEW c PROVE Longer(ss, c) = Append(front, Append(last, c))
    <2> DEFINE new == Append(last, c)
               U == S \cup {new}
    <2> HIDE DEF new
    <2>1. ss \in Seq(U) /\ front \in Seq(U) /\ new \in U
        OBVIOUS
    <2>2. Longer(ss, c) = [ss EXCEPT ![Len(ss)] = new]
        BY <1>2 DEF Longer, new
    <2>3. /\ [ss EXCEPT ![Len(ss)] = new] \in Seq(U)
          /\ Len([ss EXCEPT ![Len(ss)] = new]) = Len(ss)
          /\ \A j \in 1..Len(ss) : [ss EXCEPT ![Len(ss)] = new][j] = IF j = Len(ss) THEN new ELSE ss[j]
        BY <1>2, <2>1, ExceptSeq
    <2> DEFINE l == [ss EXCEPT ![Len(ss)] = new]
    <2>4. l \in Seq(U) /\ Len(l) = Len(front) + 1 /\ l[Len(front) + 1] = new
          /\ \A i \in 1..Len(front) : l[i] = front[i]
        BY <1>2, <2>3
    <2> HIDE DEF l, U
    <2>5. l = Append(front, new)
        BY <2>1, <2>4, AppendEqual
    <2> QED BY <2>2, <2>5 DEF l, new
<1> QED BY <1>1, <1>2, <1>3

-----------------------------------------------------------------------------
(* The lines of a text *)

\* Every line but the first begins with a line feed.
Line(i, seg) == IF i = 1 THEN seg ELSE <<"\n">> \o seg
Joined(ss) == FlattenSeq([i \in DOMAIN ss |-> Line(i, ss[i])])

\* The lines of a text, one after the other, begin with the first.
LEMMA Lines ==
    ASSUME NEW C, "\n" \in C, NEW ss \in Seq(Seq(C))
    PROVE  /\ [i \in DOMAIN ss |-> Line(i, ss[i])] \in Seq(Seq(C))
           /\ Len([i \in DOMAIN ss |-> Line(i, ss[i])]) = Len(ss)
           /\ Joined(ss) \in Seq(C)
<1>1. DOMAIN ss = 1..Len(ss) /\ Len(ss) \in Nat
    OBVIOUS
<1>2. ASSUME NEW i \in 1..Len(ss) PROVE Line(i, ss[i]) \in Seq(C)
    <2>1. ss[i] \in Seq(C)
        OBVIOUS
    <2>2. <<"\n">> \in Seq(C)
        OBVIOUS
    <2> QED BY <2>1, <2>2, ConcatProperties DEF Line
<1>3. [i \in DOMAIN ss |-> Line(i, ss[i])] \in Seq(Seq(C))
    BY <1>1, <1>2
<1>4. Len([i \in DOMAIN ss |-> Line(i, ss[i])]) = Len(ss)
    BY <1>1
<1> QED BY <1>3, <1>4, FlattenType DEF Joined

\* A line more is joined by a line feed.
LEMMA JoinedAppend ==
    ASSUME NEW C, "\n" \in C, NEW ss \in Seq(Seq(C)), NEW x \in Seq(C)
    PROVE  Joined(Append(ss, x)) = Joined(ss) \o Line(Len(ss) + 1, x)
<1> DEFINE t == Append(ss, x)
           ls == [i \in DOMAIN ss |-> Line(i, ss[i])]
           lt == [i \in DOMAIN t |-> Line(i, t[i])]
           new == Line(Len(ss) + 1, x)
<1>1. /\ t \in Seq(Seq(C)) /\ Len(t) = Len(ss) + 1 /\ Len(ss) \in Nat
      /\ t[Len(ss) + 1] = x /\ \A i \in 1..Len(ss) : t[i] = ss[i]
      /\ DOMAIN t = 1..(Len(ss) + 1) /\ DOMAIN ss = 1..Len(ss)
    OBVIOUS
<1> HIDE DEF t
<1>2. ls \in Seq(Seq(C)) /\ lt \in Seq(Seq(C)) /\ Len(ls) = Len(ss)
      /\ Len(lt) = Len(t)
    BY <1>1, Lines
<1>3. /\ \A i \in 1..Len(ls) : lt[i] = ls[i]
      /\ lt[Len(ls) + 1] = new
    <2>1. \A i \in 1..Len(ss) : i \in DOMAIN t /\ i \in DOMAIN ss
        BY <1>1
    <2>2. Len(ss) + 1 \in DOMAIN t
        BY <1>1
    <2>3. lt[Len(ss) + 1] = new
        BY <1>1, <2>2
    <2>4. \A i \in 1..Len(ss) : lt[i] = ls[i]
        BY <1>1, <2>1
    <2> HIDE DEF lt, ls
    <2> QED BY <1>2, <2>3, <2>4
<1>4. new \in Seq(C)
    <2>1. lt[Len(lt)] \in Seq(C)
        <3> HIDE DEF lt
        <3> QED BY <1>1, <1>2
    <2> HIDE DEF lt, ls, new
    <2> QED BY <1>1, <1>2, <1>3, <2>1
<1> HIDE DEF lt, ls, new
<1>5. lt = Append(ls, new)
    BY <1>1, <1>2, <1>3, <1>4, AppendEqual
<1>6. FlattenSeq(lt) = FlattenSeq(ls) \o new
    BY <1>2, <1>4, <1>5, FlattenAppend
<1> QED BY <1>6 DEF Joined, ls, lt, t, new

Lists(C) == {ss \in Seq(Seq(C)) : Filled(ss)}

\* A line break, and a character more.
LEMMA JoinedGrows ==
    ASSUME NEW C, "\n" \in C, NEW ss \in Lists(C), NEW c \in C
    PROVE  /\ Append(ss, <<>>) \in Lists(C)
           /\ Joined(Append(ss, <<>>)) = Append(Joined(ss), "\n")
           /\ Longer(ss, c) \in Lists(C)
           /\ Joined(Longer(ss, c)) = Append(Joined(ss), c)
<1>0. ss \in Seq(Seq(C)) /\ Filled(ss)
    BY DEF Lists
<1>1. Joined(ss) \in Seq(C) /\ Len(ss) \in Nat \ {0} /\ "\n" \in C
      /\ <<>> \in Seq(C)
    BY <1>0, Lines, EmptySeq DEF Filled
<1>2. Append(ss, <<>>) \in Seq(Seq(C)) /\ Filled(Append(ss, <<>>))
    <2>1. \A x \in Seq(C) : Append(ss, x) \in Seq(Seq(C)) /\ Append(ss, x) # <<>>
        BY <1>0, AppendProperties
    <2> QED BY <1>1, <2>1 DEF Filled
<1>3. Joined(Append(ss, <<>>)) = Append(Joined(ss), "\n")
    <2>1. Joined(Append(ss, <<>>)) = Joined(ss) \o Line(Len(ss) + 1, <<>>)
        BY <1>0, <1>1, JoinedAppend
    <2>2. Line(Len(ss) + 1, <<>>) = <<"\n">>
        BY <1>1 DEF Line
    <2> QED BY <1>1, <2>1, <2>2, AppendIsConcat
<1>4. PICK front \in Seq(Seq(C)), last \in Seq(C) :
          /\ ss = Append(front, last) /\ ss[Len(ss)] = last
          /\ \A x : Longer(ss, x) = Append(front, Append(last, x))
    <2> DEFINE U == Seq(C)
    <2>1. ss \in Seq(U) /\ Filled(ss)
        BY <1>0
    <2> HIDE DEF U
    <2>2. \E front, last : /\ front \in Seq(U) /\ last \in U
                           /\ ss = Append(front, last) /\ ss[Len(ss)] = last
                           /\ \A x : Longer(ss, x) = Append(front, Append(last, x))
        BY <2>1, LongerIs
    <2> QED BY <2>2 DEF U
<1>5. Append(last, c) \in Seq(C)
    BY AppendProperties
<1>6. Longer(ss, c) \in Seq(Seq(C)) /\ Filled(Longer(ss, c))
    <2> DEFINE new == Append(last, c)
    <2>1. Longer(ss, c) = Append(front, new) /\ new \in Seq(C)
        BY <1>4, <1>5
    <2> HIDE DEF new
    <2>2. Append(front, new) \in Seq(Seq(C)) /\ Append(front, new) # <<>>
        BY <2>1, AppendProperties
    <2> QED BY <2>1, <2>2 DEF Filled
<1>7. Joined(Longer(ss, c)) = Append(Joined(ss), c)
    <2> DEFINE n == Len(front) + 1
    <2>1. Joined(Longer(ss, c)) = Joined(front) \o Line(n, Append(last, c))
        BY <1>4, <1>5, JoinedAppend
    <2>2. Joined(ss) = Joined(front) \o Line(n, last)
        BY <1>4, JoinedAppend
    <2> HIDE DEF n
    <2>3. /\ <<"\n">> \in Seq(C) /\ <<c>> \in Seq(C)
          /\ \A s \in Seq(C) : Append(s, c) = s \o <<c>>
        BY AppendIsConcat
    <2>4. \A r, s, t \in Seq(C) : (r \o s) \o t = r \o (s \o t)
        BY ConcatAssociative, SMTT(30)
    <2>5. Line(n, Append(last, c)) = Line(n, last) \o <<c>> /\ Line(n, last) \in Seq(C)
        <3>1. CASE n = 1
            BY <2>3, <3>1 DEF Line
        <3>2. CASE n # 1
            <4>1. (<<"\n">> \o last) \o <<c>> = <<"\n">> \o (last \o <<c>>)
                BY <2>3, <2>4
            <4>2. <<"\n">> \o last \in Seq(C)
                BY <2>3, ConcatProperties
            <4> QED BY <2>3, <3>2, <4>1, <4>2 DEF Line
        <3> QED BY <3>1, <3>2
    <2>6. Joined(front) \in Seq(C)
        BY Lines
    <2> DEFINE l == Line(n, last)
               f == Joined(front)
    <2>7. (f \o l) \o <<c>> = f \o (l \o <<c>>) /\ f \o l \in Seq(C)
        BY <2>3, <2>4, <2>5, <2>6, ConcatProperties
    <2>8. Append(f \o l, c) = (f \o l) \o <<c>>
        BY <2>3, <2>7
    <2> QED BY <2>1, <2>2, <2>5, <2>7, <2>8
<1> QED BY <1>2, <1>3, <1>6, <1>7 DEF Lists

AddChar(ss, c) == IF c = "\n" THEN Append(ss, <<>>) ELSE Longer(ss, c)

\* A character more, at the end of the last line.
LEMMA AddCharGrows ==
    ASSUME NEW C, "\n" \in C, NEW ss \in Lists(C), NEW c \in C
    PROVE  AddChar(ss, c) \in Lists(C) /\ Joined(AddChar(ss, c)) = Append(Joined(ss), c)
BY JoinedGrows DEF AddChar

\* The segments of a text make the text, with line feeds between them.
LEMMA SegmentsJoin ==
    ASSUME NEW C, "\n" \in C, NEW chars \in Seq(C)
    PROVE  Segments(chars) \in Seq(Seq(C)) /\ Joined(Segments(chars)) = chars
<1> DEFINE N == Len(chars)
           a == << <<>> >>
           step(n, ss) == AddChar(ss, chars[n])
           e == [n \in 1..N |-> [ss \in Lists(C) |-> step(n, ss)]]
           segs == CHOOSE f : f = [n \in 0..N |->
                       IF n = 0 THEN << <<>> >>
                       ELSE IF chars[n] = "\n" THEN Append(f[n - 1], <<>>)
                       ELSE Longer(f[n - 1], chars[n])]
<1>1. N \in Nat /\ a \in Lists(C) /\ \A n \in 1..N : chars[n] \in C
    BY DEF Filled, Lists
<1>2. ASSUME NEW n \in 1..N, NEW ss \in Lists(C)
      PROVE  step(n, ss) \in Lists(C) /\ Joined(step(n, ss)) = Append(Joined(ss), chars[n])
    <2>1. chars[n] \in C
        BY <1>1
    <2> HIDE DEF N
    <2>2. \A c \in C : AddChar(ss, c) \in Lists(C)
                       /\ Joined(AddChar(ss, c)) = Append(Joined(ss), c)
        BY AddCharGrows
    <2> QED BY <2>1, <2>2
<1>3. Segments(chars) = segs[N]
    BY DEF Segments
<1> HIDE DEF N, step, a
<1>a. a = << <<>> >>
    BY DEF a
<1>4. e \in Moves(N, Lists(C))
    BY <1>2 DEF Moves
<1>5. PICK g \in [0..N -> Lists(C)] : Reached(g, N, a, e)
    <2> HIDE DEF e
    <2> QED BY <1>1, <1>4, Stepwise
<1>6. ASSUME NEW n \in 0..N PROVE g[n] = IF n = 0 THEN a ELSE step(n, g[n - 1])
    <2>1. g[n] = IF n = 0 THEN a ELSE e[n][g[n - 1]]
        <3> HIDE DEF e
        <3> QED BY <1>5 DEF Reached
    <2>2. n # 0 => n \in 1..N /\ g[n - 1] \in Lists(C)
        <3>1. n # 0 => n - 1 \in 0..N
            BY <1>1
        <3> QED BY <1>1, <3>1
    <2> QED BY <2>1, <2>2
<1> HIDE DEF e
<1>7. g = [n \in 0..N |->
               IF n = 0 THEN << <<>> >>
               ELSE IF chars[n] = "\n" THEN Append(g[n - 1], <<>>)
               ELSE Longer(g[n - 1], chars[n])]
    BY <1>a, <1>6 DEF step, AddChar
<1>8. segs = [n \in 0..N |->
               IF n = 0 THEN << <<>> >>
               ELSE IF chars[n] = "\n" THEN Append(segs[n - 1], <<>>)
               ELSE Longer(segs[n - 1], chars[n])]
    BY <1>7
<1>9. ASSUME NEW n \in 0..N PROVE segs[n] = IF n = 0 THEN a ELSE step(n, segs[n - 1])
    <2> HIDE DEF segs
    <2> QED BY <1>a, <1>8 DEF step, AddChar
<1> HIDE DEF segs
<1> DEFINE P == {n \in Nat : segs[n] \in Lists(C) /\ Joined(segs[n]) = SubSeq(chars, 1, n)}
<1>10. 0 \in P
    <2>1. segs[0] = a
        BY <1>1, <1>9
    <2>2. Joined(a) = <<>>
        <3>1. Append(<<>>, <<>>) = a /\ <<>> \in Seq(Seq(C)) /\ <<>> \in Seq(C)
            BY <1>a
        <3>2. Joined(a) = Joined(<<>>) \o Line(Len(<<>>) + 1, <<>>)
            BY <3>1, JoinedAppend
        <3>3. Joined(<<>>) = <<>>
            <4>1. [i \in DOMAIN <<>> |-> Line(i, <<>>[i])] = <<>>
                OBVIOUS
            <4> QED BY <4>1, FlattenNone DEF Joined
        <3>4. Line(Len(<<>>) + 1, <<>>) = <<>>
            BY DEF Line
        <3> QED BY <3>2, <3>3, <3>4
    <2> QED BY <1>1, <2>1, <2>2, SubSeqWhole
<1>11. ASSUME NEW n \in 1..N, n - 1 \in P PROVE n \in P
    <2>1. n \in 0..N /\ n # 0 /\ n \in Nat
        BY <1>1
    <2>2. segs[n] = step(n, segs[n - 1])
        BY <1>9, <2>1
    <2>3. segs[n] \in Lists(C) /\ Joined(segs[n]) = Append(SubSeq(chars, 1, n - 1), chars[n])
        BY <1>2, <1>11, <2>2
    <2>4. SubSeq(chars, 1, n) = Append(SubSeq(chars, 1, n - 1), chars[n])
        BY LastSplits DEF N
    <2> QED BY <2>1, <2>3, <2>4
<1> HIDE DEF P
<1>12. N \in P
    <2>1. \A n \in 0..N : n \in P
        BY <1>1, <1>10, <1>11, Induction
    <2> QED BY <1>1, <2>1
<1> QED BY <1>3, <1>12, SubSeqWhole DEF P, N, Lists

-----------------------------------------------------------------------------
(* The runs of a type name *)

\* A run is of word characters if its first one is.
Run(r) == Filled(r) /\ (IsWord(r) => \A i \in 1..Len(r) : r[i] = "w")
Runs(C) == {r \in Seq(C) : Run(r)}

AddToRuns(before, c) ==
    IF before # <<>> /\ (IsWord(before[Len(before)]) <=> c = "w")
    THEN Longer(before, c) ELSE Append(before, <<c>>)

\* A character more, in the last run or in one of its own.
LEMMA RunsGrow ==
    ASSUME NEW C, NEW before \in Seq(Runs(C)), NEW c \in C
    PROVE  /\ AddToRuns(before, c) \in Seq(Runs(C))
           /\ FlattenSeq(AddToRuns(before, c)) = Append(FlattenSeq(before), c)
<1>1. \A s \in Seq(Runs(C)) : s \in Seq(Seq(C))
    <2>1. Runs(C) \subseteq Seq(C)
        BY DEF Runs
    <2> QED BY <2>1, SeqMonotonic
<1>2. FlattenSeq(before) \in Seq(C)
    BY <1>1, FlattenType
<1>3. CASE before # <<>> /\ (IsWord(before[Len(before)]) <=> c = "w")
    <2> DEFINE U == Runs(C)
    <2>1. before \in Seq(U) /\ Filled(before)
        BY <1>3 DEF Filled
    <2> HIDE DEF U
    <2>2. PICK front \in Seq(U), last \in U :
              /\ before = Append(front, last) /\ before[Len(before)] = last
              /\ \A x : Longer(before, x) = Append(front, Append(last, x))
        BY <2>1, LongerIs
    <2>3. last \in Seq(C) /\ Run(last)
        BY DEF U, Runs
    <2> DEFINE new == Append(last, c)
    <2>4. /\ new \in Seq(C) /\ new # <<>> /\ Len(new) = Len(last) + 1
          /\ new[Len(last) + 1] = c /\ \A i \in 1..Len(last) : new[i] = last[i]
        BY <2>3, AppendProperties
    <2>5. Len(last) \in Nat /\ 1 \in 1..Len(last)
        BY <2>3 DEF Run, Filled
    <2> HIDE DEF new
    <2>6. new[1] = last[1] /\ (IsWord(last) <=> IsWord(new))
        BY <2>4, <2>5 DEF IsWord
    <2>7. IsWord(last) => c = "w" /\ \A i \in 1..Len(last) : last[i] = "w"
        BY <1>3, <2>2, <2>3 DEF Run
    <2>8. IsWord(new) => \A i \in 1..Len(new) : new[i] = "w"
        BY <2>4, <2>5, <2>6, <2>7
    <2>9. new \in U
        BY <2>4, <2>8 DEF U, Runs, Run, Filled
    <2>10. AddToRuns(before, c) = Append(front, new)
        BY <1>3, <2>2 DEF AddToRuns, new
    <2>11. Append(front, new) \in Seq(U)
        BY <2>9, AppendProperties
    <2>12. front \in Seq(Seq(C)) /\ FlattenSeq(front) \in Seq(C)
        BY <1>1, FlattenType DEF U
    <2>13. /\ FlattenSeq(Append(front, new)) = FlattenSeq(front) \o new
           /\ FlattenSeq(before) = FlattenSeq(front) \o last
        BY <2>2, <2>3, <2>4, <2>12, FlattenAppend
    <2>14. <<c>> \in Seq(C) /\ new = last \o <<c>>
        BY <2>3, AppendIsConcat DEF new
    <2>15. (FlattenSeq(front) \o last) \o <<c>> = FlattenSeq(front) \o (last \o <<c>>)
        BY <2>3, <2>12, <2>14, ConcatAssociative, SMTT(30)
    <2>16. Append(FlattenSeq(before), c) = FlattenSeq(before) \o <<c>>
        BY <1>2, AppendIsConcat
    <2> QED BY <2>10, <2>11, <2>13, <2>14, <2>15, <2>16 DEF U
<1>4. CASE ~(before # <<>> /\ (IsWord(before[Len(before)]) <=> c = "w"))
    <2> DEFINE new == <<c>>
    <2>1. AddToRuns(before, c) = Append(before, new)
        BY <1>4 DEF AddToRuns
    <2>2. new \in Seq(C) /\ Len(new) = 1 /\ new[1] = c /\ new # <<>>
        OBVIOUS
    <2> HIDE DEF new
    <2>3. IsWord(new) => \A i \in 1..Len(new) : new[i] = "w"
        <3>1. \A i \in 1..Len(new) : i = 1
            BY <2>2
        <3> QED BY <3>1 DEF IsWord
    <2>7. new \in Runs(C)
        BY <2>2, <2>3 DEF Runs, Run, Filled
    <2>4. Append(before, new) \in Seq(Runs(C))
        BY <2>7, AppendProperties
    <2>5. FlattenSeq(Append(before, new)) = FlattenSeq(before) \o new
        BY <1>1, <2>2, FlattenAppend
    <2>6. Append(FlattenSeq(before), c) = FlattenSeq(before) \o new
        BY <1>2, AppendIsConcat DEF new
    <2> QED BY <2>1, <2>4, <2>5, <2>6
<1> QED BY <1>3, <1>4

\* The runs of a segment make the segment.
LEMMA RunsJoin ==
    ASSUME NEW C, NEW seg \in Seq(C)
    PROVE  TypeRuns(seg) \in Seq(Runs(C)) /\ FlattenSeq(TypeRuns(seg)) = seg
<1> DEFINE N == Len(seg)
           step(n, b) == AddToRuns(b, seg[n])
           e == [n \in 1..N |-> [b \in Seq(Runs(C)) |-> step(n, b)]]
           runs == CHOOSE f : f = [n \in 0..N |->
                       IF n = 0 THEN <<>>
                       ELSE LET before == f[n - 1]
                            IN IF before # <<>>
                                  /\ (IsWord(before[Len(before)]) <=> seg[n] = "w")
                               THEN Longer(before, seg[n])
                               ELSE Append(before, <<seg[n]>>)]
<1>1. N \in Nat /\ <<>> \in Seq(Runs(C)) /\ \A n \in 1..N : seg[n] \in C
    OBVIOUS
<1>2. ASSUME NEW n \in 1..N, NEW b \in Seq(Runs(C))
      PROVE  step(n, b) \in Seq(Runs(C)) /\ FlattenSeq(step(n, b)) = Append(FlattenSeq(b), seg[n])
    <2>1. seg[n] \in C
        BY <1>1
    <2> HIDE DEF N
    <2>2. \A c \in C : AddToRuns(b, c) \in Seq(Runs(C))
                       /\ FlattenSeq(AddToRuns(b, c)) = Append(FlattenSeq(b), c)
        BY RunsGrow
    <2> QED BY <2>1, <2>2
<1>3. TypeRuns(seg) = runs[N]
    BY DEF TypeRuns
<1> HIDE DEF N, step
<1>4. e \in Moves(N, Seq(Runs(C)))
    BY <1>2 DEF Moves
<1>5. PICK g \in [0..N -> Seq(Runs(C))] : Reached(g, N, <<>>, e)
    <2> HIDE DEF e
    <2> QED BY <1>1, <1>4, Stepwise
<1>6. ASSUME NEW n \in 0..N PROVE g[n] = IF n = 0 THEN <<>> ELSE step(n, g[n - 1])
    <2>1. g[n] = IF n = 0 THEN <<>> ELSE e[n][g[n - 1]]
        <3> HIDE DEF e
        <3> QED BY <1>5 DEF Reached
    <2>2. n # 0 => n \in 1..N /\ g[n - 1] \in Seq(Runs(C))
        <3>1. n # 0 => n - 1 \in 0..N
            BY <1>1
        <3> QED BY <1>1, <3>1
    <2> QED BY <2>1, <2>2
<1> HIDE DEF e
<1>7. g = [n \in 0..N |->
               IF n = 0 THEN <<>>
               ELSE LET before == g[n - 1]
                    IN IF before # <<>> /\ (IsWord(before[Len(before)]) <=> seg[n] = "w")
                       THEN Longer(before, seg[n])
                       ELSE Append(before, <<seg[n]>>)]
    BY <1>6 DEF step, AddToRuns
<1>8. runs = [n \in 0..N |->
               IF n = 0 THEN <<>>
               ELSE LET before == runs[n - 1]
                    IN IF before # <<>> /\ (IsWord(before[Len(before)]) <=> seg[n] = "w")
                       THEN Longer(before, seg[n])
                       ELSE Append(before, <<seg[n]>>)]
    BY <1>7
<1>9. ASSUME NEW n \in 0..N PROVE runs[n] = IF n = 0 THEN <<>> ELSE step(n, runs[n - 1])
    <2> HIDE DEF runs
    <2> QED BY <1>8 DEF step, AddToRuns
<1> HIDE DEF runs
<1> DEFINE P == {n \in Nat : runs[n] \in Seq(Runs(C)) /\ FlattenSeq(runs[n]) = SubSeq(seg, 1, n)}
<1>10. 0 \in P
    <2>1. runs[0] = <<>>
        BY <1>1, <1>9
    <2> QED BY <1>1, <2>1, FlattenNone, SubSeqWhole
<1>11. ASSUME NEW n \in 1..N, n - 1 \in P PROVE n \in P
    <2>1. n \in 0..N /\ n # 0 /\ n \in Nat
        BY <1>1
    <2>2. runs[n] = step(n, runs[n - 1])
        BY <1>9, <2>1
    <2>3. /\ runs[n] \in Seq(Runs(C))
          /\ FlattenSeq(runs[n]) = Append(SubSeq(seg, 1, n - 1), seg[n])
        BY <1>2, <1>11, <2>2
    <2>4. SubSeq(seg, 1, n) = Append(SubSeq(seg, 1, n - 1), seg[n])
        BY LastSplits DEF N
    <2> QED BY <2>1, <2>3, <2>4
<1> HIDE DEF P
<1>12. N \in P
    <2>1. \A n \in 0..N : n \in P
        BY <1>1, <1>10, <1>11, Induction
    <2> QED BY <1>1, <2>1
<1> QED BY <1>3, <1>12, SubSeqWhole DEF P, N

-----------------------------------------------------------------------------
(* Indentation *)

Spaces(n) == [i \in 1..n |-> "space"]

\* A segment is its indentation and what comes after.
LEMMA IndentSplits ==
    ASSUME NEW C, NEW seg \in Seq(C)
    PROVE  /\ Indent(seg) \in 0..Len(seg)
           /\ SubSeq(seg, Indent(seg) + 1, Len(seg)) \in Seq(C)
           /\ Spaces(Indent(seg)) \o SubSeq(seg, Indent(seg) + 1, Len(seg)) = seg
<1> DEFINE N == Len(seg)
           T == {n \in 0..N : n < N => seg[n + 1] # "space"}
<1>0. N \in Nat
    OBVIOUS
<1>a. \A i \in 1..N : seg[i] \in C
    OBVIOUS
<1>b. \A k \in 0..N : /\ SubSeq(seg, k + 1, N) \in Seq(C) /\ Len(SubSeq(seg, k + 1, N)) = N - k
                      /\ \A i \in 1..(N - k) : SubSeq(seg, k + 1, N)[i] = seg[k + i]
    OBVIOUS
<1>c. Len(seg) = N
    OBVIOUS
<1> HIDE DEF N
<1>1. T \subseteq Nat /\ N \in T /\ N \in Nat
    BY <1>0
<1>2. PICK m \in T : \A n \in T : m <= n
    <2> HIDE DEF T
    <2> QED BY <1>1, LeastElement
<1>3. m \in 0..N /\ (m < N => seg[m + 1] # "space")
    OBVIOUS
<1>4. ASSUME NEW i \in 1..m PROVE seg[i] = "space"
    <2>1. i - 1 \in 0..N /\ i - 1 < N /\ i - 1 < m /\ (i - 1) + 1 = i /\ i - 1 \in Nat
        BY <1>0, <1>3
    <2>2. i - 1 \notin T
        <3> HIDE DEF T
        <3> QED BY <1>2, <1>1, <2>1
    <2> QED BY <2>1, <2>2
<1> DEFINE n == Indent(seg)
<1>5. n \in 0..N /\ \A i \in 1..n : seg[i] = "space"
    <2>1. \E k \in 0..N : /\ \A i \in 1..k : seg[i] = "space"
                          /\ k < N => seg[k + 1] # "space"
        BY <1>3, <1>4
    <2> QED BY <1>c, <2>1 DEF Indent
<1> HIDE DEF T, n
<1> DEFINE rest == SubSeq(seg, n + 1, N)
<1>6. rest \in Seq(C) /\ Len(rest) = N - n /\ \A i \in 1..(N - n) : rest[i] = seg[n + i]
    BY <1>b, <1>5
<1>7. Spaces(n) \in Seq(C) /\ Len(Spaces(n)) = n /\ \A i \in 1..n : Spaces(n)[i] = seg[i]
    <2>1. \A i \in 1..n : "space" \in C
        <3>1. \A i \in 1..n : i \in 1..N
            BY <1>0, <1>5
        <3> QED BY <1>a, <1>5, <3>1
    <2>2. n \in Nat
        BY <1>0, <1>5
    <2> QED BY <1>5, <2>1, <2>2 DEF Spaces
<1> HIDE DEF rest
<1>8. /\ Spaces(n) \o rest \in Seq(C) /\ Len(Spaces(n) \o rest) = N
      /\ \A i \in 1..N : (Spaces(n) \o rest)[i] = IF i <= n THEN Spaces(n)[i] ELSE rest[i - n]
    <2>1. n + (N - n) = N /\ n \in Nat /\ N - n \in Nat
        BY <1>0, <1>5
    <2>2. /\ Spaces(n) \o rest \in Seq(C)
          /\ Len(Spaces(n) \o rest) = Len(Spaces(n)) + Len(rest)
          /\ \A i \in 1..(Len(Spaces(n)) + Len(rest)) :
                 (Spaces(n) \o rest)[i] =
                     IF i <= Len(Spaces(n)) THEN Spaces(n)[i] ELSE rest[i - Len(Spaces(n))]
        BY <1>6, <1>7, ConcatProperties
    <2> QED BY <1>6, <1>7, <2>1, <2>2
<1>9. ASSUME NEW i \in 1..N PROVE (Spaces(n) \o rest)[i] = seg[i]
    <2>1. CASE i <= n
        <3>1. i \in 1..n
            BY <1>0, <1>5, <2>1
        <3> QED BY <1>7, <1>8, <2>1, <3>1
    <2>2. CASE ~(i <= n)
        <3>1. i - n \in 1..(N - n) /\ n + (i - n) = i
            BY <1>0, <1>5, <2>2
        <3> QED BY <1>6, <1>8, <2>2, <3>1
    <2> QED BY <2>1, <2>2
<1>10. Spaces(n) \o rest = seg
    BY <1>8, <1>9, <1>c, SeqEqual
<1> QED BY <1>5, <1>6, <1>10, <1>c DEF n, rest

-----------------------------------------------------------------------------
(* What lowering an expression does to a graph *)

Results   == [graph : Graphs, ref : Nat]
Lowerings == [Nat -> [Graphs -> Results]]
Several   == [graph : Graphs, refs : Seq(Nat)]

\* The graphs that refer to their own varnodes only.
Sound ==
    {g \in Graphs :
        /\ \A v \in SsaValues : g.refOf[v] \in 0..Len(g.varnodes)
        /\ \A t \in 1..Len(g.ops) :
              /\ g.ops[t].output \in 0..Len(g.varnodes)
              /\ g.ops[t].inputs \in Seq(1..Len(g.varnodes))}

\* A sound graph with at least as many varnodes and operations as another.
Grown(g, h) ==
    h \in Sound /\ Len(g.varnodes) <= Len(h.varnodes) /\ Len(g.ops) <= Len(h.ops)

SoundLowering(l) ==
    \A a \in Nat : \A g \in Sound :
        Grown(g, l[a][g].graph) /\ l[a][g].ref \in 1..Len(l[a][g].graph.varnodes)

\* What a graph consists of.
LEMMA GraphParts ==
    ASSUME NEW g \in Graphs
    PROVE  /\ g.varnodes \in Seq(Storages) /\ g.refOf \in [SsaValues -> Nat]
           /\ g.ops \in Seq(Operations) /\ Len(g.varnodes) \in Nat /\ Len(g.ops) \in Nat
           /\ g = [varnodes |-> g.varnodes, refOf |-> g.refOf, ops |-> g.ops]
BY DEF Graphs

\* A graph with another part.
LEMMA GraphWith ==
    ASSUME NEW g \in Graphs, NEW x
    PROVE  /\ [g EXCEPT !.varnodes = x] = [varnodes |-> x, refOf |-> g.refOf, ops |-> g.ops]
           /\ [g EXCEPT !.refOf = x] = [varnodes |-> g.varnodes, refOf |-> x, ops |-> g.ops]
           /\ [g EXCEPT !.ops = x] = [varnodes |-> g.varnodes, refOf |-> g.refOf, ops |-> x]
<1>1. PICK A : A = Seq(Storages)
    OBVIOUS
<1>2. PICK B : B = [SsaValues -> Nat]
    OBVIOUS
<1>3. PICK C : C = Seq(Operations)
    OBVIOUS
<1>4. g \in [varnodes : A, refOf : B, ops : C]
    BY <1>1, <1>2, <1>3 DEF Graphs
<1> QED BY ONLY <1>4

\* The graph with one varnode more.
LEMMA NewIs ==
    ASSUME NEW g \in Graphs, NEW s \in Storages
    PROVE  /\ New(g, s) \in Results
           /\ New(g, s).graph.refOf = g.refOf /\ New(g, s).graph.ops = g.ops
           /\ New(g, s).graph.varnodes = Append(g.varnodes, s)
           /\ Len(New(g, s).graph.varnodes) = Len(g.varnodes) + 1
           /\ New(g, s).ref = Len(g.varnodes) + 1
<1>1. Append(g.varnodes, s) \in Seq(Storages) /\ Len(Append(g.varnodes, s)) = Len(g.varnodes) + 1
    BY GraphParts, AppendProperties
<1>2. [g EXCEPT !.varnodes = Append(@, s)]
          = [varnodes |-> Append(g.varnodes, s), refOf |-> g.refOf, ops |-> g.ops]
    <2> DEFINE x == Append(g.varnodes, s)
    <2>1. [g EXCEPT !.varnodes = Append(@, s)] = [g EXCEPT !.varnodes = x]
        OBVIOUS
    <2> HIDE DEF x
    <2>2. [g EXCEPT !.varnodes = x] = [varnodes |-> x, refOf |-> g.refOf, ops |-> g.ops]
        BY GraphWith
    <2> QED BY <2>1, <2>2 DEF x
<1> DEFINE h == [varnodes |-> Append(g.varnodes, s), refOf |-> g.refOf, ops |-> g.ops]
<1>3. h \in Graphs
    BY <1>1, GraphParts DEF Graphs
<1>4. h.refOf = g.refOf /\ h.ops = g.ops /\ h.varnodes = Append(g.varnodes, s)
    OBVIOUS
<1>5. New(g, s) = [graph |-> h, ref |-> Len(g.varnodes) + 1]
    BY <1>2 DEF New
<1> HIDE DEF h
<1>6. New(g, s) \in Results /\ New(g, s).graph = h /\ New(g, s).ref = Len(g.varnodes) + 1
    BY <1>3, <1>5, GraphParts DEF Results
<1> QED BY <1>1, <1>4, <1>6

\* References to varnodes remain references when there are more of them.
LEMMA MoreRefs ==
    ASSUME NEW m \in Nat, NEW n \in Nat, m <= n
    PROVE  Seq(1..m) \subseteq Seq(1..n)
BY SeqMonotonic

\* A graph stays sound when varnodes are added.
LEMMA SoundWithMore ==
    ASSUME NEW g \in Sound, NEW h \in Graphs, Len(g.varnodes) <= Len(h.varnodes),
           h.refOf = g.refOf, h.ops = g.ops
    PROVE  Grown(g, h)
<1>1. g \in Graphs /\ Len(g.varnodes) \in Nat /\ Len(h.varnodes) \in Nat /\ Len(g.ops) \in Nat
    BY GraphParts DEF Sound
<1>2. \A v \in SsaValues : h.refOf[v] \in 0..Len(h.varnodes)
    BY <1>1 DEF Sound
<1>3. ASSUME NEW t \in 1..Len(h.ops)
      PROVE  h.ops[t].output \in 0..Len(h.varnodes) /\ h.ops[t].inputs \in Seq(1..Len(h.varnodes))
    <2>1. g.ops[t].output \in 0..Len(g.varnodes) /\ g.ops[t].inputs \in Seq(1..Len(g.varnodes))
        BY DEF Sound
    <2>2. Seq(1..Len(g.varnodes)) \subseteq Seq(1..Len(h.varnodes))
        BY <1>1, MoreRefs
    <2> QED BY <1>1, <2>1, <2>2
<1> QED BY <1>1, <1>2, <1>3 DEF Grown, Sound

\* New adds one varnode, and refers to it.
LEMMA NewGrows ==
    ASSUME NEW g \in Sound, NEW s \in Storages
    PROVE  /\ Grown(g, New(g, s).graph)
           /\ New(g, s).ref \in 1..Len(New(g, s).graph.varnodes)
<1>1. g \in Graphs /\ Len(g.varnodes) \in Nat
    BY GraphParts DEF Sound
<1>2. /\ New(g, s) \in Results /\ New(g, s).graph \in Graphs
      /\ New(g, s).graph.refOf = g.refOf /\ New(g, s).graph.ops = g.ops
      /\ Len(New(g, s).graph.varnodes) = Len(g.varnodes) + 1
      /\ New(g, s).ref = Len(g.varnodes) + 1
    BY <1>1, NewIs DEF Results
<1>3. Grown(g, New(g, s).graph)
    BY <1>1, <1>2, SoundWithMore
<1> QED BY <1>1, <1>2, <1>3

\* The storage of a value.
LEMMA StorageTyped ==
    ASSUME ail \in AilGraphs, NEW v \in SsaValues
    PROVE  ail.storage[v] \in Storages
BY GraphsAssumption

\* Vvar finds the varnode of a value or makes it.
LEMMA VvarIs ==
    ASSUME ail \in AilGraphs, NEW v \in SsaValues, NEW g \in Graphs
    PROVE  /\ Vvar(v, g) \in Results
           /\ g.refOf[v] # 0 => Vvar(v, g) = [graph |-> g, ref |-> g.refOf[v]]
           /\ g.refOf[v] = 0 =>
                  LET new == New(g, ail.storage[v])
                  IN /\ Vvar(v, g).ref = new.ref
                     /\ Vvar(v, g).graph.varnodes = new.graph.varnodes
                     /\ Vvar(v, g).graph.refOf = [g.refOf EXCEPT ![v] = new.ref]
                     /\ Vvar(v, g).graph.ops = g.ops
<1> DEFINE new == New(g, ail.storage[v])
<1>1. /\ new \in Results /\ new.graph.refOf = g.refOf /\ new.graph.ops = g.ops
    BY StorageTyped, NewIs
<1>2. new.graph \in Graphs /\ new.ref \in Nat /\ new = [graph |-> new.graph, ref |-> new.ref]
    BY <1>1 DEF Results
<1>3. Vvar(v, g) = IF g.refOf[v] # 0 THEN [graph |-> g, ref |-> g.refOf[v]]
                   ELSE [new EXCEPT !.graph.refOf[v] = new.ref]
    BY DEF Vvar
<1> HIDE DEF new
<1>4. [new EXCEPT !.graph.refOf[v] = new.ref]
          = [graph |-> [varnodes |-> new.graph.varnodes,
                        refOf |-> [new.graph.refOf EXCEPT ![v] = new.ref],
                        ops |-> new.graph.ops],
             ref |-> new.ref]
    <2> DEFINE ng == new.graph
               r == new.ref
    <2>1. ng \in Graphs /\ new = [graph |-> ng, ref |-> r]
        BY <1>2
    <2> HIDE DEF ng, r
    <2>2. [ng EXCEPT !.refOf[v] = r]
              = [varnodes |-> ng.varnodes, refOf |-> [ng.refOf EXCEPT ![v] = r], ops |-> ng.ops]
        <3> DEFINE x == [ng.refOf EXCEPT ![v] = r]
        <3>1. [ng EXCEPT !.refOf[v] = r] = [ng EXCEPT !.refOf = x]
            OBVIOUS
        <3> HIDE DEF x
        <3>2. [ng EXCEPT !.refOf = x] = [varnodes |-> ng.varnodes, refOf |-> x, ops |-> ng.ops]
            BY <2>1, GraphWith
        <3> QED BY <3>1, <3>2 DEF x
    <2>3. [new EXCEPT !.graph.refOf[v] = r] = [graph |-> [ng EXCEPT !.refOf[v] = r], ref |-> r]
        BY <2>1
    <2> QED BY <2>2, <2>3 DEF ng, r
<1>5. [new.graph.refOf EXCEPT ![v] = new.ref] \in [SsaValues -> Nat]
    BY <1>2, GraphParts
<1>6. [varnodes |-> new.graph.varnodes, refOf |-> [new.graph.refOf EXCEPT ![v] = new.ref],
       ops |-> new.graph.ops] \in Graphs
    BY <1>2, <1>5, GraphParts DEF Graphs
<1>7. g.refOf[v] \in Nat
    BY GraphParts
<1>8. Vvar(v, g) \in Results
    BY <1>2, <1>3, <1>4, <1>6, <1>7 DEF Results
<1> QED BY <1>1, <1>3, <1>4, <1>8 DEF new

\* Vvar keeps a graph sound, and refers to a varnode of it.
LEMMA VvarGrows ==
    ASSUME ail \in AilGraphs, NEW v \in SsaValues, NEW g \in Sound
    PROVE  Grown(g, Vvar(v, g).graph) /\ Vvar(v, g).ref \in 1..Len(Vvar(v, g).graph.varnodes)
<1>1. g \in Graphs /\ Len(g.varnodes) \in Nat /\ Len(g.ops) \in Nat
    BY GraphParts DEF Sound
<1>2. g.refOf[v] \in 0..Len(g.varnodes)
    BY DEF Sound
<1>3. CASE g.refOf[v] # 0
    <2>1. Vvar(v, g).graph = g /\ Vvar(v, g).ref = g.refOf[v]
        <3>1. Vvar(v, g) = [graph |-> g, ref |-> g.refOf[v]]
            BY <1>3 DEF Vvar
        <3> QED BY <3>1
    <2> QED BY <1>1, <1>2, <1>3, <2>1 DEF Grown
<1>4. CASE g.refOf[v] = 0
    <2> DEFINE new == New(g, ail.storage[v])
               h == Vvar(v, g).graph
    <2>1. /\ Vvar(v, g).ref = new.ref /\ h.varnodes = new.graph.varnodes
          /\ h.refOf = [g.refOf EXCEPT ![v] = new.ref] /\ h.ops = g.ops /\ h \in Graphs
        BY <1>1, <1>4, VvarIs DEF Results
    <2>2. /\ Grown(g, new.graph) /\ new.ref \in 1..Len(new.graph.varnodes)
          /\ new.graph.refOf = g.refOf /\ new.graph.ops = g.ops
        BY <1>1, StorageTyped, NewGrows, NewIs
    <2> HIDE DEF new, h
    <2>3. new.graph \in Sound /\ Len(new.graph.varnodes) \in Nat
        BY <2>2, GraphParts DEF Grown, Sound
    <2>4. ASSUME NEW u \in SsaValues PROVE h.refOf[u] \in 0..Len(h.varnodes)
        <3>1. new.graph.refOf[u] \in 0..Len(new.graph.varnodes)
            BY <2>3 DEF Sound
        <3>2. g.refOf \in [SsaValues -> Nat]
            BY <1>1, GraphParts
        <3> QED BY <2>1, <2>2, <2>3, <3>1, <3>2
    <2>5. h \in Sound
        BY <2>1, <2>2, <2>3, <2>4 DEF Sound
    <2>6. Grown(g, h)
        BY <1>1, <2>1, <2>2, <2>5 DEF Grown
    <2> QED BY <2>1, <2>2, <2>6 DEF h
<1> QED BY <1>2, <1>3, <1>4

\* Emit adds one operation.
LEMMA EmitIs ==
    ASSUME NEW g \in Graphs, NEW a \in Nat, NEW output \in Nat, NEW inputs \in Seq(Nat)
    PROVE  /\ Emit(g, a, output, inputs) \in Graphs
           /\ Emit(g, a, output, inputs).varnodes = g.varnodes
           /\ Emit(g, a, output, inputs).refOf = g.refOf
           /\ Emit(g, a, output, inputs).ops
                  = Append(g.ops, [address |-> a, output |-> output, inputs |-> inputs])
<1> DEFINE op == [address |-> a, output |-> output, inputs |-> inputs]
<1>1. op \in Operations
    BY DEF Operations
<1>2. Emit(g, a, output, inputs) = [g EXCEPT !.ops = Append(@, op)]
    BY DEF Emit
<1> HIDE DEF op
<1>3. Append(g.ops, op) \in Seq(Operations)
    BY <1>1, GraphParts, AppendProperties
<1>4. [g EXCEPT !.ops = Append(@, op)]
          = [varnodes |-> g.varnodes, refOf |-> g.refOf, ops |-> Append(g.ops, op)]
    <2> DEFINE x == Append(g.ops, op)
    <2>1. [g EXCEPT !.ops = Append(@, op)] = [g EXCEPT !.ops = x]
        OBVIOUS
    <2> HIDE DEF x
    <2>2. [g EXCEPT !.ops = x] = [varnodes |-> g.varnodes, refOf |-> g.refOf, ops |-> x]
        BY GraphWith
    <2> QED BY <2>1, <2>2 DEF x
<1> QED BY <1>2, <1>3, <1>4, GraphParts DEF Graphs, op

\* Emit keeps a graph sound where the operation refers to its varnodes.
LEMMA EmitGrows ==
    ASSUME NEW g \in Sound, NEW a \in Nat, NEW output \in 0..Len(g.varnodes),
           NEW inputs \in Seq(1..Len(g.varnodes))
    PROVE  /\ Grown(g, Emit(g, a, output, inputs))
           /\ Emit(g, a, output, inputs).varnodes = g.varnodes
           /\ Len(Emit(g, a, output, inputs).ops) = Len(g.ops) + 1
<1> DEFINE op == [address |-> a, output |-> output, inputs |-> inputs]
           h == Emit(g, a, output, inputs)
<1>1. g \in Graphs /\ Len(g.varnodes) \in Nat /\ Len(g.ops) \in Nat /\ g.ops \in Seq(Operations)
    BY GraphParts DEF Sound
<1>2. output \in Nat /\ inputs \in Seq(Nat)
    <2>1. Seq(1..Len(g.varnodes)) \subseteq Seq(Nat)
        BY <1>1, SeqMonotonic
    <2> QED BY <1>1, <2>1
<1>3. h \in Graphs /\ h.varnodes = g.varnodes /\ h.refOf = g.refOf /\ h.ops = Append(g.ops, op)
    BY <1>1, <1>2, EmitIs
<1>4. op \in Operations /\ op.output = output /\ op.inputs = inputs
    BY <1>2 DEF Operations
<1> HIDE DEF op, h
<1>5. /\ Len(h.ops) = Len(g.ops) + 1 /\ h.ops[Len(g.ops) + 1] = op
      /\ \A t \in 1..Len(g.ops) : h.ops[t] = g.ops[t]
    BY <1>1, <1>3, <1>4, AppendProperties
<1>6. ASSUME NEW t \in 1..Len(h.ops)
      PROVE  h.ops[t].output \in 0..Len(h.varnodes) /\ h.ops[t].inputs \in Seq(1..Len(h.varnodes))
    <2>1. CASE t \in 1..Len(g.ops)
        BY <1>3, <1>5, <2>1 DEF Sound
    <2>2. CASE t = Len(g.ops) + 1
        BY <1>3, <1>4, <1>5, <2>2
    <2> QED BY <1>1, <1>5, <2>1, <2>2
<1>7. h \in Sound
    BY <1>3, <1>6 DEF Sound
<1>8. Grown(g, h)
    BY <1>1, <1>3, <1>5, <1>7 DEF Grown
<1> QED BY <1>3, <1>5, <1>8 DEF h

\* One operand more.
AfterOperand(l, address, before) ==
    LET new == l[address][before.graph]
    IN [graph |-> new.graph, refs |-> Append(before.refs, new.ref)]

\* One operand more.
LEMMA AfterOperandType ==
    ASSUME NEW l \in Lowerings, NEW address \in Nat, NEW b \in Several
    PROVE  AfterOperand(l, address, b) \in Several
<1>1. b.graph \in Graphs /\ b.refs \in Seq(Nat)
    BY DEF Several
<1>2. l \in [Nat -> [Graphs -> Results]]
    BY DEF Lowerings
<1>3. l[address][b.graph] \in Results
    BY <1>1, <1>2
<1> DEFINE new == l[address][b.graph]
<1> HIDE DEF new
<1>4. new \in Results
    BY <1>3 DEF new
<1>5. new.graph \in Graphs /\ new.ref \in Nat
    BY <1>4 DEF Results
<1>6. Append(b.refs, new.ref) \in Seq(Nat)
    BY <1>1, <1>5, AppendProperties
<1> QED BY <1>5, <1>6 DEF AfterOperand, Several, new

NoOperands(g) == [graph |-> g, refs |-> <<>>]

\* What there is after each operand, up to a last one.
Operated(h, ls, address, g) ==
    /\ h[0] = NoOperands(g)
    /\ \A n \in 1..Len(ls) : h[n] = AfterOperand(ls[n], address, h[n - 1])

\* Operands is what the recursion in it reaches.
LEMMA OperandsUnfold ==
    ASSUME NEW ls \in Seq(Lowerings), NEW address \in Nat, NEW g \in Graphs
    PROVE  \E h \in [0..Len(ls) -> Several] :
               /\ Operated(h, ls, address, g)
               /\ Operands(ls, address, g) = h[Len(ls)]
<1> DEFINE N == Len(ls)
           a == NoOperands(g)
           step(n, b) == AfterOperand(ls[n], address, b)
           e == [n \in 1..N |-> [b \in Several |-> step(n, b)]]
           after == CHOOSE f : f = [n \in 0..N |->
                       IF n = 0 THEN [graph |-> g, refs |-> <<>>]
                       ELSE LET before == f[n - 1]
                                new    == ls[n][address][before.graph]
                            IN [graph |-> new.graph, refs |-> Append(before.refs, new.ref)]]
<1>1. N \in Nat /\ \A n \in 1..N : ls[n] \in Lowerings
    OBVIOUS
<1>2. a \in Several
    BY DEF Several, NoOperands
<1>3. Operands(ls, address, g) = after[N]
    BY DEF Operands
<1>4. ASSUME NEW n \in 1..N, NEW b \in Several PROVE step(n, b) \in Several
    <2>1. ls[n] \in Lowerings
        BY <1>1
    <2> HIDE DEF N
    <2> QED BY <2>1, AfterOperandType
<1> HIDE DEF N, step, a
<1>5. e \in Moves(N, Several)
    BY <1>4 DEF Moves
<1>6. PICK h \in [0..N -> Several] : Reached(h, N, a, e)
    <2> HIDE DEF e
    <2> QED BY <1>1, <1>2, <1>5, Stepwise
<1>7. ASSUME NEW n \in 0..N PROVE h[n] = IF n = 0 THEN a ELSE step(n, h[n - 1])
    <2>1. h[n] = IF n = 0 THEN a ELSE e[n][h[n - 1]]
        <3> HIDE DEF e
        <3> QED BY <1>6 DEF Reached
    <2>2. n # 0 => n \in 1..N /\ h[n - 1] \in Several
        <3>1. n # 0 => n - 1 \in 0..N
            BY <1>1
        <3> QED BY <1>1, <3>1
    <2> QED BY <2>1, <2>2
<1> HIDE DEF e
<1>8. h = [n \in 0..N |->
               IF n = 0 THEN [graph |-> g, refs |-> <<>>]
               ELSE LET before == h[n - 1]
                        new    == ls[n][address][before.graph]
                    IN [graph |-> new.graph, refs |-> Append(before.refs, new.ref)]]
    BY <1>7 DEF step, AfterOperand, a, NoOperands
<1>9. after = [n \in 0..N |->
               IF n = 0 THEN [graph |-> g, refs |-> <<>>]
               ELSE LET before == after[n - 1]
                        new    == ls[n][address][before.graph]
                    IN [graph |-> new.graph, refs |-> Append(before.refs, new.ref)]]
    BY <1>8
<1>10. ASSUME NEW n \in 0..N PROVE after[n] = IF n = 0 THEN a ELSE step(n, after[n - 1])
    <2> HIDE DEF after
    <2> QED BY <1>9 DEF step, AfterOperand, a, NoOperands
<1> HIDE DEF after
<1> DEFINE P == {n \in Nat : after[n] = h[n]}
<1>11. 0 \in P
    BY <1>1, <1>7, <1>10
<1>12. ASSUME NEW n \in 1..N, n - 1 \in P PROVE n \in P
    <2>1. n \in 0..N /\ n # 0 /\ n \in Nat
        BY <1>1
    <2>2. after[n] = step(n, after[n - 1]) /\ h[n] = step(n, h[n - 1])
        BY <1>7, <1>10, <2>1
    <2> QED BY <1>12, <2>1, <2>2
<1> HIDE DEF P
<1>13. N \in P
    <2>1. \A n \in 0..N : n \in P
        BY <1>1, <1>11, <1>12, Induction
    <2> QED BY <1>1, <2>1
<1>14. Operated(h, ls, address, g)
    <2>1. \A n \in 1..N : n \in 0..N /\ n # 0
        BY <1>1
    <2>2. \A n \in 1..N : h[n] = AfterOperand(ls[n], address, h[n - 1])
        BY <1>7, <2>1 DEF step
    <2>3. h[0] = NoOperands(g)
        BY <1>1, <1>7 DEF a
    <2> QED BY <2>2, <2>3 DEF Operated, N
<1> QED BY <1>3, <1>13, <1>14 DEF P, N

\* Operands leave a sound graph, and are varnodes of it.
LEMMA OperandsGrow ==
    ASSUME NEW ls \in Seq(Lowerings), NEW address \in Nat, NEW g \in Sound, \A i \in 1..Len(ls) : SoundLowering(ls[i])
    PROVE  LET all == Operands(ls, address, g)
           IN Grown(g, all.graph) /\ all.refs \in Seq(1..Len(all.graph.varnodes))
<1> DEFINE N == Len(ls)
<1>1. N \in Nat
    OBVIOUS
<1>2. PICK h \in [0..N -> Several] :
          Operated(h, ls, address, g) /\ Operands(ls, address, g) = h[N]
    BY OperandsUnfold DEF Sound
<1> DEFINE P == {n \in Nat : /\ Grown(g, h[n].graph)
                             /\ h[n].refs \in Seq(1..Len(h[n].graph.varnodes))}
<1>3. 0 \in P
    <2>1. h[0].graph = g /\ h[0].refs = <<>>
        BY <1>2 DEF Operated, NoOperands
    <2>2. Grown(g, g)
        BY GraphParts DEF Grown, Sound
    <2> QED BY <2>1, <2>2
<1>4. ASSUME NEW n \in 1..N, n - 1 \in P PROVE n \in P
    <2> DEFINE b == h[n - 1]
               new == ls[n][address][b.graph]
    <2>1. h[n] = AfterOperand(ls[n], address, b)
        BY <1>2 DEF Operated
    <2>2. h[n].graph = new.graph /\ h[n].refs = Append(b.refs, new.ref)
        <3> HIDE DEF b
        <3>1. h[n] = [graph |-> new.graph, refs |-> Append(b.refs, new.ref)]
            BY <2>1 DEF AfterOperand
        <3> HIDE DEF new
        <3> QED BY <3>1
    <2>3. Grown(g, b.graph) /\ b.refs \in Seq(1..Len(b.graph.varnodes)) /\ n \in Nat
        BY <1>4
    <2>4. b.graph \in Sound
        BY <2>3 DEF Grown
    <2>5. SoundLowering(ls[n])
        OBVIOUS
    <2>6. Grown(b.graph, new.graph) /\ new.ref \in 1..Len(new.graph.varnodes)
        <3> HIDE DEF b
        <3> QED BY <2>4, <2>5 DEF SoundLowering
    <2> HIDE DEF b, new
    <2>7. /\ g \in Graphs /\ b.graph \in Graphs /\ new.graph \in Graphs
        BY <2>4, <2>6 DEF Grown, Sound
    <2>8. /\ Len(g.varnodes) \in Nat /\ Len(b.graph.varnodes) \in Nat
          /\ Len(new.graph.varnodes) \in Nat
          /\ Len(g.ops) \in Nat /\ Len(b.graph.ops) \in Nat /\ Len(new.graph.ops) \in Nat
        BY <2>7, GraphParts
    <2>9. Grown(g, new.graph)
        <3>1. Len(g.varnodes) <= Len(b.graph.varnodes) /\ Len(g.ops) <= Len(b.graph.ops)
            BY <2>3 DEF Grown
        <3>2. /\ new.graph \in Sound /\ Len(b.graph.varnodes) <= Len(new.graph.varnodes)
              /\ Len(b.graph.ops) <= Len(new.graph.ops)
            BY <2>6 DEF Grown
        <3>3. /\ Len(g.varnodes) <= Len(new.graph.varnodes)
              /\ Len(g.ops) <= Len(new.graph.ops)
            <4>1. \A i, j, k \in Nat : i <= j /\ j <= k => i <= k
                OBVIOUS
            <4> QED BY <2>8, <3>1, <3>2, <4>1, Zenon
        <3> QED BY <3>2, <3>3 DEF Grown
    <2>10. Append(b.refs, new.ref) \in Seq(1..Len(new.graph.varnodes))
        <3>1. Seq(1..Len(b.graph.varnodes)) \subseteq Seq(1..Len(new.graph.varnodes))
            BY <2>6, <2>8, MoreRefs, SMTT(30) DEF Grown
        <3> DEFINE R == 1..Len(new.graph.varnodes)
        <3>2. b.refs \in Seq(R) /\ new.ref \in R
            BY <2>3, <2>6, <3>1
        <3> HIDE DEF R
        <3>3. Append(b.refs, new.ref) \in Seq(R)
            BY <3>2, AppendProperties
        <3> QED BY <3>3 DEF R
    <2> QED BY <2>2, <2>3, <2>9, <2>10
<1> HIDE DEF P
<1>5. N \in P
    <2> HIDE DEF N
    <2>1. \A n \in 0..N : n \in P
        BY <1>1, <1>3, <1>4, Induction
    <2> QED BY <1>1, <2>1
<1> QED BY <1>2, <1>5 DEF P

Lowerers(f, args) == [i \in DOMAIN args |-> f[args[i]]]

LowerOperation(ls, own, g) ==
    LET ins == Operands(ls, own, g)
        out == New(ins.graph, Nowhere)
    IN [out EXCEPT !.graph = Emit(@, own, out.ref, ins.refs)]

\* The operands of a statement or an operation, as references.
LEMMA OperandsType ==
    ASSUME NEW ls \in Seq(Lowerings), NEW address \in Nat, NEW g \in Graphs
    PROVE  Operands(ls, address, g) \in Several
<1>1. PICK h \in [0..Len(ls) -> Several] : Operands(ls, address, g) = h[Len(ls)]
    BY OperandsUnfold
<1>2. Len(ls) \in 0..Len(ls)
    OBVIOUS
<1> QED BY <1>1, <1>2

\* What lowers each operand of an operation.
LEMMA LowerersType ==
    ASSUME NEW S, NEW f \in [S -> Lowerings], NEW args \in Seq(S)
    PROVE  /\ Lowerers(f, args) \in Seq(Lowerings) /\ Len(Lowerers(f, args)) = Len(args)
           /\ \A i \in 1..Len(args) : Lowerers(f, args)[i] = f[args[i]]
<1>1. DOMAIN args = 1..Len(args) /\ Len(args) \in Nat /\ \A i \in 1..Len(args) : args[i] \in S
    OBVIOUS
<1> QED BY <1>1 DEF Lowerers

\* The result of an operation: its output is a new temporary.
LEMMA OperationIs ==
    ASSUME NEW ins \in Several, NEW a \in Nat
    PROVE  LET out == New(ins.graph, Nowhere)
               new == [out EXCEPT !.graph = Emit(@, a, out.ref, ins.refs)]
           IN new.graph = Emit(out.graph, a, out.ref, ins.refs) /\ new.ref = out.ref /\ new \in Results
<1> DEFINE out == New(ins.graph, Nowhere)
           h == Emit(out.graph, a, out.ref, ins.refs)
<1>1. ins.graph \in Graphs /\ ins.refs \in Seq(Nat)
    BY DEF Several
<1>2. out \in Results
    BY <1>1, NewIs DEF Storages
<1> HIDE DEF out
<1>3. out.graph \in Graphs /\ out.ref \in Nat
    BY <1>2 DEF Results
<1>4. h \in Graphs
    BY <1>1, <1>3, EmitIs
<1>5. [out EXCEPT !.graph = Emit(@, a, out.ref, ins.refs)] = [out EXCEPT !.graph = h]
    OBVIOUS
<1> HIDE DEF h
<1>6. /\ [out EXCEPT !.graph = h].graph = h /\ [out EXCEPT !.graph = h].ref = out.ref
      /\ [out EXCEPT !.graph = h] \in Results
    BY <1>2, <1>4 DEF Results
<1> QED BY <1>5, <1>6 DEF out, h

\* What an expression of each form has.
LEMMA ExprForms ==
    ASSUME NEW e \in DOMAIN Exprs
    PROVE  LET x == Exprs[e] IN
           /\ x.form \in {"var", "const", "operation", "other"} /\ x.address \in Nat
           /\ x.form = "var" => x.var \in SsaValues
           /\ x.form = "operation" => /\ x.args \in Seq(DOMAIN Exprs)
                                      /\ \A i \in 1..Len(x.args) : x.args[i] < e
           /\ \A a \in Nat : Own(x, a) \in Nat
<1>1. /\ Exprs[e].form \in {"var", "const", "operation", "other"} /\ Exprs[e].address \in Nat
      /\ Exprs[e].form = "var" => Exprs[e].var \in SsaValues
      /\ Exprs[e].form = "operation" => Exprs[e].args \in Seq({d \in DOMAIN Exprs : d < e})
    BY ExprsAssumption
<1>2. ASSUME NEW s \in Seq({d \in DOMAIN Exprs : d < e})
      PROVE  s \in Seq(DOMAIN Exprs) /\ \A i \in 1..Len(s) : s[i] < e
    <2> DEFINE D == {d \in DOMAIN Exprs : d < e}
    <2>1. D \subseteq DOMAIN Exprs /\ \A d \in D : d < e
        OBVIOUS
    <2> HIDE DEF D
    <2>2. Seq(D) \subseteq Seq(DOMAIN Exprs)
        BY <2>1, SeqMonotonic
    <2>3. s \in Seq(D)
        BY DEF D
    <2>4. \A i \in 1..Len(s) : s[i] \in D
        BY <2>3
    <2> QED BY <2>1, <2>2, <2>3, <2>4
<1> QED BY <1>1, <1>2 DEF Own

\* LowerOne, by the form of the expression.
LEMMA LowerOneIs ==
    ASSUME NEW f, NEW e, NEW a, NEW g
    PROVE  LET x == Exprs[e] IN
           LowerOne(f, e, a, g) =
               CASE x.form = "var" -> Vvar(x.var, g)
                 [] x.form \in {"const", "other"} -> New(g, Nowhere)
                 [] x.form = "operation" -> LowerOperation(Lowerers(f, x.args), Own(x, a), g)
BY DEF LowerOne, LowerOperation, Lowerers

\* LowerOne returns a graph and a reference.
LEMMA LowerOneType ==
    ASSUME ail \in AilGraphs, NEW f \in [DOMAIN Exprs -> Lowerings], NEW e \in DOMAIN Exprs,
           NEW a \in Nat, NEW g \in Graphs
    PROVE  LowerOne(f, e, a, g) \in Results
<1> DEFINE x == Exprs[e]
<1>1. /\ x.form \in {"var", "const", "operation", "other"}
      /\ x.form = "var" => x.var \in SsaValues
      /\ x.form = "operation" => x.args \in Seq(DOMAIN Exprs)
      /\ Own(x, a) \in Nat
    BY ExprForms
<1>2. LowerOne(f, e, a, g) =
          CASE x.form = "var" -> Vvar(x.var, g)
            [] x.form \in {"const", "other"} -> New(g, Nowhere)
            [] x.form = "operation" -> LowerOperation(Lowerers(f, x.args), Own(x, a), g)
    BY LowerOneIs
<1> HIDE DEF x
<1>3. CASE x.form = "var"
    <2>1. Vvar(x.var, g) \in Results
        BY <1>1, <1>3, VvarIs
    <2> QED BY <1>2, <1>3, <2>1
<1>4. CASE x.form \in {"const", "other"}
    <2>1. New(g, Nowhere) \in Results
        BY NewIs DEF Storages
    <2> QED BY <1>2, <1>4, <2>1
<1>5. CASE x.form = "operation"
    <2> DEFINE ls == Lowerers(f, x.args)
               ins == Operands(ls, Own(x, a), g)
    <2>1. ls \in Seq(Lowerings)
        BY <1>1, <1>5, LowerersType
    <2>2. ins \in Several
        <3> HIDE DEF ls
        <3> QED BY <1>1, <2>1, OperandsType
    <2> HIDE DEF ins
    <2>3. LowerOperation(ls, Own(x, a), g) \in Results
        BY <1>1, <2>2, OperationIs DEF LowerOperation, ins
    <2> QED BY <1>2, <1>5, <2>3
<1> QED BY <1>1, <1>3, <1>4, <1>5

\* LowerOne depends on what lowers the expressions before, and on nothing else.
LEMMA LowerOneAgrees ==
    ASSUME NEW f, NEW k, NEW e \in DOMAIN Exprs, NEW a \in Nat, NEW g,
           \A d \in DOMAIN Exprs : d < e => f[d] = k[d]
    PROVE  LowerOne(f, e, a, g) = LowerOne(k, e, a, g)
<1> DEFINE x == Exprs[e]
<1>1. x.form = "operation" => /\ x.args \in Seq(DOMAIN Exprs)
                              /\ \A i \in 1..Len(x.args) : x.args[i] < e
    BY ExprForms
<1>2. \A l : LowerOne(l, e, a, g) =
          CASE x.form = "var" -> Vvar(x.var, g)
            [] x.form \in {"const", "other"} -> New(g, Nowhere)
            [] x.form = "operation" -> LowerOperation(Lowerers(l, x.args), Own(x, a), g)
    BY LowerOneIs
<1> HIDE DEF x
<1>3. CASE x.form = "operation"
    <2>1. /\ DOMAIN x.args = 1..Len(x.args)
          /\ \A i \in 1..Len(x.args) : x.args[i] \in DOMAIN Exprs
        BY <1>1, <1>3
    <2>2. \A i \in DOMAIN x.args : f[x.args[i]] = k[x.args[i]]
        BY <1>1, <1>3, <2>1
    <2>3. Lowerers(f, x.args) = Lowerers(k, x.args)
        BY <2>2 DEF Lowerers
    <2>4. /\ LowerOne(f, e, a, g) = LowerOperation(Lowerers(f, x.args), Own(x, a), g)
          /\ LowerOne(k, e, a, g) = LowerOperation(Lowerers(k, x.args), Own(x, a), g)
        BY <1>2, <1>3
    <2> QED BY <2>3, <2>4
<1>4. CASE x.form # "operation"
    BY <1>2, <1>4
<1> QED BY <1>3, <1>4

\* The lowering of expressions is what its recursion says.
LEMMA ExprUnfolds ==
    ASSUME ail \in AilGraphs
    PROVE  /\ Expr \in [DOMAIN Exprs -> Lowerings]
           /\ \A e \in DOMAIN Exprs : \A a \in Nat : \A g \in Graphs :
                  Expr[e][a][g] = LowerOne(Expr, e, a, g)
<1> DEFINE S == DOMAIN Exprs
           D == Lowerings
           one(f, e) == [a \in Nat |-> [g \in Graphs |-> LowerOne(f, e, a, g)]]
           step == [e \in S |-> [f \in [S -> D] |-> one(f, e)]]
           expr == CHOOSE l : l = [e \in S |-> one(l, e)]
<1>1. S \in SUBSET Nat
    BY ExprsAssumption
<1>11. Expr = expr
    BY DEF Expr
<1>2. ASSUME NEW f \in [S -> D], NEW e \in S PROVE one(f, e) \in D
    <2>1. \A a \in Nat : \A g \in Graphs : LowerOne(f, e, a, g) \in Results
        BY LowerOneType
    <2> QED BY <2>1 DEF Lowerings
<1>3. D # {}
    <2>1. New([varnodes |-> <<>>, refOf |-> Unknown, ops |-> <<>>], Nowhere) \in Results
        <3>1. [varnodes |-> <<>>, refOf |-> Unknown, ops |-> <<>>] \in Graphs
            BY DEF Graphs, Unknown
        <3> QED BY <3>1, NewIs DEF Storages
    <2>2. PICK r : r \in Results
        BY <2>1
    <2>3. [a \in Nat |-> [g \in Graphs |-> r]] \in D
        BY <2>2 DEF Lowerings
    <2> QED BY <2>3
<1>5. ASSUME NEW e \in S, NEW f, NEW k, \A d \in S : d < e => f[d] = k[d]
      PROVE  one(f, e) = one(k, e)
    <2>1. ASSUME NEW a \in Nat, NEW g \in Graphs
          PROVE  LowerOne(f, e, a, g) = LowerOne(k, e, a, g)
        BY <1>5, LowerOneAgrees
    <2> QED BY <2>1
<1>15. \A f : \A e \in S : \A a \in Nat : \A g \in Graphs :
           one(f, e)[a][g] = LowerOne(f, e, a, g)
    OBVIOUS
<1> HIDE DEF one, D
<1>4. step \in Steps(S, D)
    <2> HIDE DEF S
    <2> QED BY <1>2 DEF Steps
<1>6. \A e \in S : \A f \in [S -> D] : step[e][f] = one(f, e)
    <2> HIDE DEF S
    <2> QED OBVIOUS
<1> HIDE DEF S, step
<1>7. Backward(S, D, step)
    BY <1>5, <1>6 DEF Backward
<1>8. HasSolution(S, D, step)
    BY <1>1, <1>3, <1>4, <1>7, Recursion
<1>9. PICK f \in [S -> D] : f = [e \in S |-> step[e][f]]
    BY <1>8 DEF HasSolution
<1>10. f = [e \in S |-> one(f, e)]
    BY <1>6, <1>9
<1>12. \E l : l = [e \in S |-> one(l, e)]
    BY <1>10
<1>13. expr = [e \in S |-> one(expr, e)]
    BY <1>12, Zenon
<1> HIDE DEF expr
<1> DEFINE T == {e \in S : expr[e] = f[e]}
<1>14. ASSUME NEW e \in S, \A d \in S : d < e => d \in T PROVE e \in T
    <2>1. expr[e] = one(expr, e) /\ f[e] = one(f, e)
        BY <1>10, <1>13
    <2>2. \A d \in S : d < e => expr[d] = f[d]
        BY <1>14
    <2>3. one(expr, e) = one(f, e)
        BY <1>5, <2>2
    <2> QED BY <2>1, <2>3
<1> HIDE DEF T
<1>16. S \subseteq T
    BY <1>1, <1>14, StrongInduction
<1>17. expr = f
    <2>1. \A e \in S : expr[e] = f[e]
        BY <1>16 DEF T
    <2>2. expr = [e \in S |-> expr[e]] /\ f = [e \in S |-> f[e]]
        BY <1>13
    <2> QED BY <2>1, <2>2
<1>18. \A e \in S : expr[e] = one(expr, e)
    BY <1>13
<1> QED BY <1>9, <1>11, <1>15, <1>17, <1>18 DEF S, D

\* A graph that has grown twice has grown.
LEMMA GrownTrans ==
    ASSUME NEW g \in Sound, NEW h, NEW k, Grown(g, h), Grown(h, k)
    PROVE  Grown(g, k)
<1>1. h \in Sound /\ k \in Sound
    BY DEF Grown
<1>2. /\ Len(g.varnodes) \in Nat /\ Len(h.varnodes) \in Nat /\ Len(k.varnodes) \in Nat
      /\ Len(g.ops) \in Nat /\ Len(h.ops) \in Nat /\ Len(k.ops) \in Nat
    BY <1>1, GraphParts DEF Sound
<1>3. \A i, j, l \in Nat : i <= j /\ j <= l => i <= l
    OBVIOUS
<1>4. /\ Len(g.varnodes) <= Len(h.varnodes) /\ Len(h.varnodes) <= Len(k.varnodes)
      /\ Len(g.ops) <= Len(h.ops) /\ Len(h.ops) <= Len(k.ops)
    BY DEF Grown
<1>5. Len(g.varnodes) <= Len(k.varnodes) /\ Len(g.ops) <= Len(k.ops)
    BY <1>2, <1>3, <1>4, Zenon
<1> QED BY <1>1, <1>5 DEF Grown

\* An operation leaves a sound graph whatever its operands, if they do.
LEMMA OperationSound ==
    ASSUME NEW ls \in Seq(Lowerings), NEW own \in Nat, NEW g \in Sound,
           \A i \in 1..Len(ls) : SoundLowering(ls[i])
    PROVE  /\ Grown(g, LowerOperation(ls, own, g).graph)
           /\ LowerOperation(ls, own, g).ref \in 1..Len(LowerOperation(ls, own, g).graph.varnodes)
<1> DEFINE ins == Operands(ls, own, g)
           out == New(ins.graph, Nowhere)
           last == Emit(out.graph, own, out.ref, ins.refs)
<1>0. g \in Graphs
    BY DEF Sound
<1>1. Grown(g, ins.graph) /\ ins.refs \in Seq(1..Len(ins.graph.varnodes)) /\ ins \in Several
    BY <1>0, OperandsGrow, OperandsType
<1>2. /\ LowerOperation(ls, own, g).graph = last
      /\ LowerOperation(ls, own, g).ref = out.ref
    <2> HIDE DEF ins
    <2>1. ins \in Several
        BY <1>1
    <2> QED BY <2>1, OperationIs DEF LowerOperation, ins
<1> HIDE DEF ins
<1>3. ins.graph \in Sound
    BY <1>1 DEF Grown
<1>4. Grown(ins.graph, out.graph) /\ out.ref \in 1..Len(out.graph.varnodes)
    BY <1>3, NewGrows DEF Storages
<1> HIDE DEF out
<1>5. out.graph \in Sound /\ Len(ins.graph.varnodes) <= Len(out.graph.varnodes)
    BY <1>4 DEF Grown
<1>6. /\ out.graph \in Graphs /\ ins.graph \in Graphs
      /\ Len(ins.graph.varnodes) \in Nat /\ Len(out.graph.varnodes) \in Nat
    BY <1>3, <1>5, GraphParts DEF Sound
<1>7. ins.refs \in Seq(1..Len(out.graph.varnodes)) /\ out.ref \in 0..Len(out.graph.varnodes)
    <2>1. Seq(1..Len(ins.graph.varnodes)) \subseteq Seq(1..Len(out.graph.varnodes))
        BY <1>5, <1>6, MoreRefs
    <2>2. out.ref \in 0..Len(out.graph.varnodes)
        BY <1>4, <1>6
    <2> QED BY <1>1, <2>1, <2>2
<1>8. Grown(out.graph, last) /\ last.varnodes = out.graph.varnodes
    BY <1>5, <1>7, EmitGrows
<1>9. Grown(g, last)
    <2> HIDE DEF last
    <2>1. Grown(g, out.graph)
        BY <1>1, <1>4, GrownTrans
    <2> QED BY <1>8, <2>1, GrownTrans
<1> QED BY <1>2, <1>4, <1>8, <1>9

\* Every expression, at every address, keeps a graph sound.
LEMMA ExprSound ==
    ASSUME ail \in AilGraphs
    PROVE  \A e \in DOMAIN Exprs : SoundLowering(Expr[e])
<1> DEFINE S == DOMAIN Exprs
           T == {e \in S : SoundLowering(Expr[e])}
<1>0. /\ Expr \in [DOMAIN Exprs -> Lowerings]
      /\ \A e \in DOMAIN Exprs : \A a \in Nat : \A g \in Graphs :
             Expr[e][a][g] = LowerOne(Expr, e, a, g)
    BY ExprUnfolds
<1>1. ASSUME NEW e \in S, \A d \in S : d < e => d \in T PROVE e \in T
    <2> SUFFICES ASSUME NEW a \in Nat, NEW g \in Sound
                 PROVE  /\ Grown(g, Expr[e][a][g].graph)
                        /\ Expr[e][a][g].ref \in 1..Len(Expr[e][a][g].graph.varnodes)
        BY DEF SoundLowering
    <2> DEFINE x == Exprs[e]
               r == Expr[e][a][g]
    <2>1. r = CASE x.form = "var" -> Vvar(x.var, g)
                [] x.form \in {"const", "other"} -> New(g, Nowhere)
                [] x.form = "operation" -> LowerOperation(Lowerers(Expr, x.args), Own(x, a), g)
        <3>1. g \in Graphs
            BY DEF Sound
        <3>2. r = LowerOne(Expr, e, a, g)
            BY <1>0, <3>1
        <3> QED BY <3>2, LowerOneIs
    <2>2. /\ x.form \in {"var", "const", "operation", "other"}
          /\ x.form = "var" => x.var \in SsaValues
          /\ x.form = "operation" => /\ x.args \in Seq(DOMAIN Exprs)
                                     /\ \A i \in 1..Len(x.args) : x.args[i] < e
          /\ Own(x, a) \in Nat
        BY ExprForms
    <2>3. \A d \in S : d < e => SoundLowering(Expr[d])
        BY <1>1
    <2> DEFINE goal == Grown(g, r.graph) /\ r.ref \in 1..Len(r.graph.varnodes)
    <2> HIDE DEF x, r, T
    <2>4. ASSUME x.form = "var" PROVE goal
        BY <2>1, <2>2, <2>4, VvarGrows
    <2>5. ASSUME x.form \in {"const", "other"} PROVE goal
        <3>1. Nowhere \in Storages
            BY DEF Storages
        <3> QED BY <2>1, <2>5, <3>1, NewGrows
    <2>6. ASSUME x.form = "operation" PROVE goal
        <3> DEFINE ls == Lowerers(Expr, x.args)
        <3>1. /\ ls \in Seq(Lowerings) /\ Len(ls) = Len(x.args)
              /\ \A i \in 1..Len(x.args) : ls[i] = Expr[x.args[i]]
            BY <1>0, <2>2, <2>6, LowerersType
        <3>2. \A i \in 1..Len(x.args) : x.args[i] \in S
            BY <2>2, <2>6
        <3>3. r = LowerOperation(ls, Own(x, a), g)
            BY <2>1, <2>6
        <3> HIDE DEF ls
        <3>4. \A i \in 1..Len(ls) : SoundLowering(ls[i])
            BY <2>2, <2>3, <2>6, <3>1, <3>2
        <3> QED BY <2>2, <3>1, <3>3, <3>4, OperationSound
    <2> QED BY <2>2, <2>4, <2>5, <2>6 DEF r
<1> HIDE DEF T
<1>2. S \subseteq Nat
    BY ExprsAssumption
<1>3. S \subseteq T
    <2> HIDE DEF S
    <2> QED BY <1>1, <1>2, StrongInduction
<1> QED BY <1>3 DEF T

\* What a statement of each form has.
LEMMA StatementForms ==
    ASSUME NEW st \in AilStatements
    PROVE  /\ st.form \in {"assign", "evaluate", "effect", "none"} /\ st.address \in Nat
           /\ st.form = "assign" => st.var \in SsaValues /\ st.args[1] \in DOMAIN Exprs
           /\ st.form # "assign" => st.args \in Seq(DOMAIN Exprs)
<1>1. CASE st \in [form : {"evaluate", "effect", "none"}, args : Seq(DOMAIN Exprs), address : Nat]
    BY <1>1
<1>2. CASE st \in [form : {"assign"}, var : SsaValues, args : [1..1 -> DOMAIN Exprs], address : Nat]
    BY <1>2
<1> QED BY <1>1, <1>2 DEF AilStatements

\* The operands of a statement keep a graph sound.
LEMMA ArgumentsSound ==
    ASSUME ail \in AilGraphs, NEW st \in AilStatements, st.form # "assign", NEW g \in Sound
    PROVE  /\ Grown(g, Arguments(st, g).graph)
           /\ Arguments(st, g).refs \in Seq(1..Len(Arguments(st, g).graph.varnodes))
<1> DEFINE ls == Lowerers(Expr, st.args)
<1>1. st.args \in Seq(DOMAIN Exprs) /\ st.address \in Nat
    BY StatementForms
<1>2. /\ ls \in Seq(Lowerings) /\ Len(ls) = Len(st.args)
      /\ \A i \in 1..Len(st.args) : ls[i] = Expr[st.args[i]]
    BY <1>1, ExprUnfolds, LowerersType
<1>3. Arguments(st, g) = Operands(ls, st.address, g)
    BY DEF Arguments, Lowerers
<1> HIDE DEF ls
<1>4. \A i \in 1..Len(ls) : SoundLowering(ls[i])
    <2>1. \A i \in 1..Len(st.args) : st.args[i] \in DOMAIN Exprs
        BY <1>1
    <2> QED BY <1>2, <2>1, ExprSound
<1> QED BY <1>1, <1>2, <1>3, <1>4, OperandsGrow

\* A statement's operations refer to varnodes that there are.
LEMMA StatementSound ==
    ASSUME ail \in AilGraphs, NEW st \in AilStatements, NEW g \in Sound
    PROVE  Grown(g, Statement(st, g))
<1>1. /\ st.form \in {"assign", "evaluate", "effect", "none"} /\ st.address \in Nat
      /\ st.form = "assign" => st.var \in SsaValues /\ st.args[1] \in DOMAIN Exprs
    BY StatementForms
<1>2. CASE st.form = "assign"
    <2> DEFINE dst == Vvar(st.var, g)
               src == Expr[st.args[1]][st.address][dst.graph]
               last == Emit(src.graph, st.address, dst.ref, <<src.ref>>)
    <2>1. Statement(st, g) = last
        BY <1>2 DEF Statement
    <2>2. Grown(g, dst.graph) /\ dst.ref \in 1..Len(dst.graph.varnodes)
        BY <1>1, <1>2, VvarGrows
    <2> HIDE DEF dst
    <2>3. dst.graph \in Sound
        BY <2>2 DEF Grown
    <2>4. Grown(dst.graph, src.graph) /\ src.ref \in 1..Len(src.graph.varnodes)
        BY <1>1, <1>2, <2>3, ExprSound DEF SoundLowering
    <2> HIDE DEF src
    <2>5. src.graph \in Sound /\ Len(dst.graph.varnodes) <= Len(src.graph.varnodes)
        BY <2>4 DEF Grown
    <2>6. Len(dst.graph.varnodes) \in Nat /\ Len(src.graph.varnodes) \in Nat
        BY <2>3, <2>5, GraphParts DEF Sound
    <2>7. dst.ref \in 0..Len(src.graph.varnodes)
        BY <2>2, <2>5, <2>6
    <2> DEFINE R == 1..Len(src.graph.varnodes)
    <2>8. <<src.ref>> \in Seq(R)
        <3>1. src.ref \in R
            BY <2>4
        <3> HIDE DEF R
        <3> QED BY <3>1
    <2>9. Grown(src.graph, last)
        BY <1>1, <2>5, <2>7, <2>8, EmitGrows
    <2> HIDE DEF last
    <2>10. Grown(g, src.graph)
        BY <2>2, <2>4, GrownTrans
    <2> QED BY <2>1, <2>9, <2>10, GrownTrans
<1>3. CASE st.form = "evaluate"
    <2>1. Statement(st, g) = Arguments(st, g).graph
        BY <1>3 DEF Statement
    <2> QED BY <1>3, <2>1, ArgumentsSound
<1>4. CASE st.form = "effect"
    <2> DEFINE ins == Arguments(st, g)
    <2>1. Statement(st, g) = Emit(ins.graph, st.address, 0, ins.refs)
        BY <1>4 DEF Statement
    <2>2. Grown(g, ins.graph) /\ ins.refs \in Seq(1..Len(ins.graph.varnodes))
        BY <1>4, ArgumentsSound
    <2> HIDE DEF ins
    <2>3. ins.graph \in Sound
        BY <2>2 DEF Grown
    <2>4. 0 \in 0..Len(ins.graph.varnodes)
        BY <2>3, GraphParts DEF Sound
    <2>5. Grown(ins.graph, Emit(ins.graph, st.address, 0, ins.refs))
        BY <1>1, <2>2, <2>3, <2>4, EmitGrows
    <2> QED BY <2>1, <2>2, <2>5, GrownTrans
<1>5. CASE st.form = "none"
    <2>1. Statement(st, g) = g
        BY <1>5 DEF Statement
    <2> QED BY <2>1, GraphParts DEF Grown, Sound
<1> QED BY <1>1, <1>2, <1>3, <1>4, <1>5

-----------------------------------------------------------------------------
(* The op graph that has been made *)

OpGraph == [varnodes |-> varnodes, refOf |-> refOf, ops |-> ops]

\* The n-th edge of a graph, as its target has it.
InEdge(g, n) ==
    <<g.edges[n][1], Cardinality({i \in 1..(n - 1) : g.edges[i][1] = g.edges[n][1]})>>

BlockRecords == [first : Nat, last : Nat, in : Seq(Nat \X Nat)]

LowTypes ==
    /\ ail \in AilGraphs
    /\ OpGraph \in Sound
    /\ blocks \in Seq(BlockRecords) /\ Len(blocks) <= Len(ail.blocks)
    /\ through \in Nat
    /\ edges \in 0..Len(ail.edges)
    /\ lowering \in {"runs", "done", "failed"}

\* Every operation is of one block, in their order.
BlocksShape ==
    /\ Len(ops) = IF Len(blocks) = 0 THEN 0 ELSE blocks[Len(blocks)].last
    /\ \A b \in 1..Len(blocks) :
          /\ blocks[b].first = (IF b = 1 THEN 0 ELSE blocks[b - 1].last) + 1
          /\ blocks[b].first <= blocks[b].last + 1

\* The in-edges of the blocks.
Ins == [b \in 1..Len(blocks) |-> blocks[b].in]

OnlyEdges(g, ins, m) ==
    \A b \in 1..Len(ins) : \A k \in 1..Len(ins[b]) :
        \E n \in 1..m : g.edges[n][2] = b /\ ins[b][k] = InEdge(g, n)

AllEdges(g, ins, m) ==
    \A n \in 1..m : \E k \in 1..Len(ins[g.edges[n][2]]) : ins[g.edges[n][2]][k] = InEdge(g, n)

\* The in-edges are the edges that have been added.
EdgesShape ==
    /\ edges > 0 => Len(blocks) = Len(ail.blocks)
    /\ OnlyEdges(ail, Ins, edges) /\ AllEdges(ail, Ins, edges)
    /\ Len(FlattenSeq(Ins)) = edges
    /\ lowering = "done" => edges = Len(ail.edges) /\ Len(blocks) = Len(ail.blocks)

\* What an AIL graph consists of.
LEMMA AilParts ==
    ASSUME ail \in AilGraphs
    PROVE  /\ ail.blocks \in Seq(Seq(AilStatements)) /\ Len(ail.blocks) \in Nat
           /\ ail.edges \in Seq((1..Len(ail.blocks)) \X (1..Len(ail.blocks)))
           /\ Len(ail.edges) \in Nat
BY GraphsAssumption

\* What the op graph consists of.
LEMMA OpGraphParts ==
    ASSUME OpGraph \in Sound
    PROVE  /\ varnodes \in Seq(Storages) /\ refOf \in [SsaValues -> Nat] /\ ops \in Seq(Operations)
           /\ Len(varnodes) \in Nat /\ Len(ops) \in Nat
           /\ \A v \in SsaValues : refOf[v] \in 0..Len(varnodes)
           /\ \A t \in 1..Len(ops) : /\ ops[t].output \in 0..Len(varnodes)
                                     /\ ops[t].inputs \in Seq(1..Len(varnodes))
<1> DEFINE g == OpGraph
<1>1. g.varnodes = varnodes /\ g.refOf = refOf /\ g.ops = ops
    BY DEF OpGraph
<1> HIDE DEF g
<1>2. g \in Sound
    BY DEF g
<1>3. g \in Graphs
    BY <1>2 DEF Sound
<1>4. /\ \A v \in SsaValues : g.refOf[v] \in 0..Len(g.varnodes)
      /\ \A t \in 1..Len(g.ops) : /\ g.ops[t].output \in 0..Len(g.varnodes)
                                  /\ g.ops[t].inputs \in Seq(1..Len(g.varnodes))
    BY <1>2 DEF Sound
<1> QED BY <1>1, <1>3, <1>4, GraphParts

\* A sequence with one block changed.
LEMMA BlockLast ==
    ASSUME NEW bs \in Seq(BlockRecords), NEW b \in 1..Len(bs), NEW n \in Nat
    PROVE  LET new == [bs EXCEPT ![b].last = n]
           IN /\ new \in Seq(BlockRecords) /\ Len(new) = Len(bs)
              /\ \A c \in 1..Len(bs) : /\ new[c].first = bs[c].first /\ new[c].in = bs[c].in
                                       /\ new[c].last = IF c = b THEN n ELSE bs[c].last
<1>1. \A c \in 1..Len(bs) : bs[c] \in BlockRecords
    OBVIOUS
<1>2. PICK R : R = BlockRecords
    OBVIOUS
<1>3. [bs[b] EXCEPT !.last = n] \in BlockRecords
    BY <1>1 DEF BlockRecords
<1> DEFINE x == [bs[b] EXCEPT !.last = n]
           new == [bs EXCEPT ![b] = x]
<1>4. x \in BlockRecords /\ x.first = bs[b].first /\ x.in = bs[b].in /\ x.last = n
    BY <1>1, <1>3 DEF BlockRecords
<1>5. [bs EXCEPT ![b].last = n] = new
    OBVIOUS
<1> HIDE DEF x
<1>6. new \in Seq(BlockRecords) /\ Len(new) = Len(bs)
      /\ \A c \in 1..Len(bs) : new[c] = IF c = b THEN x ELSE bs[c]
    BY <1>4, <1>2
<1> QED BY <1>4, <1>5, <1>6

\* One block has an in-edge more.
LEMMA BlockIn ==
    ASSUME NEW bs \in Seq(BlockRecords), NEW b \in 1..Len(bs), NEW e \in Nat \X Nat
    PROVE  LET new == [bs EXCEPT ![b].in = Append(@, e)]
           IN /\ new \in Seq(BlockRecords) /\ Len(new) = Len(bs)
              /\ \A c \in 1..Len(bs) :
                    /\ new[c].first = bs[c].first /\ new[c].last = bs[c].last
                    /\ new[c].in = IF c = b THEN Append(bs[c].in, e) ELSE bs[c].in
<1>1. \A c \in 1..Len(bs) : bs[c] \in BlockRecords
    OBVIOUS
<1>2. Append(bs[b].in, e) \in Seq(Nat \X Nat)
    <2>1. bs[b].in \in Seq(Nat \X Nat)
        BY <1>1 DEF BlockRecords
    <2> QED BY <2>1, AppendProperties
<1> DEFINE y == Append(bs[b].in, e)
<1> HIDE DEF y
<1> DEFINE x == [bs[b] EXCEPT !.in = y]
           new == [bs EXCEPT ![b] = x]
<1>3. y \in Seq(Nat \X Nat)
    BY <1>2 DEF y
<1>4. x \in BlockRecords /\ x.first = bs[b].first /\ x.last = bs[b].last /\ x.in = y
    BY <1>1, <1>3 DEF BlockRecords
<1>5. [bs EXCEPT ![b].in = Append(@, e)] = new
    BY DEF y
<1> HIDE DEF x
<1>6. new \in Seq(BlockRecords) /\ Len(new) = Len(bs)
      /\ \A c \in 1..Len(bs) : new[c] = IF c = b THEN x ELSE bs[c]
    BY <1>4
<1>7. \A c \in 1..Len(bs) :
          /\ new[c].first = bs[c].first /\ new[c].last = bs[c].last
          /\ new[c].in = IF c = b THEN y ELSE bs[c].in
    BY <1>4, <1>6
<1>8. \A c \in 1..Len(bs) : new[c].in = IF c = b THEN Append(bs[c].in, e) ELSE bs[c].in
    BY <1>7 DEF y
<1> HIDE DEF new
<1> QED BY <1>5, <1>6, <1>7, <1>8

\* What LowerStatement does to the op graph and to its blocks.
LEMMA StatementStep ==
    ASSUME LowTypes, LowerStatement
    PROVE  /\ Grown(OpGraph, OpGraph')
           /\ Len(blocks) \in 1..Len(blocks) /\ Len(blocks) <= Len(ail.blocks)
           /\ blocks' = [blocks EXCEPT ![Len(blocks)].last = Len(ops')]
           /\ Len(ops) <= Len(ops') /\ Len(ops') \in Nat
<1>1. /\ Len(blocks) \in Nat /\ blocks # <<>> /\ through \in Nat
      /\ through < Len(ail.blocks[Len(blocks)])
    BY DEF LowTypes, LowerStatement, StatementsLeft
<1>2. Len(blocks) \in 1..Len(blocks) /\ Len(blocks) <= Len(ail.blocks)
    <2>1. Len(blocks) # 0
        BY <1>1 DEF LowTypes
    <2> QED BY <1>1, <2>1 DEF LowTypes
<1>3. ail.blocks[Len(blocks)] \in Seq(AilStatements)
    BY <1>2, AilParts DEF LowTypes
<1> DEFINE st == ail.blocks[Len(blocks)][through + 1]
           after == Statement(st, OpGraph)
<1>4. st \in AilStatements
    BY <1>1, <1>3
<1>5. Grown(OpGraph, after)
    <2> HIDE DEF st
    <2> QED BY <1>4, StatementSound DEF LowTypes
<1>6. /\ varnodes' = after.varnodes /\ refOf' = after.refOf /\ ops' = after.ops
      /\ blocks' = [blocks EXCEPT ![Len(blocks)].last = Len(after.ops)]
    BY DEF LowerStatement, OpGraph
<1> HIDE DEF after
<1>7. after \in Graphs /\ Len(OpGraph.ops) <= Len(after.ops) /\ Len(after.ops) \in Nat
    BY <1>5, GraphParts DEF Grown, Sound
<1>8. OpGraph' = after
    BY <1>6, <1>7, GraphParts DEF OpGraph
<1>9. OpGraph.ops = ops
    BY DEF OpGraph
<1> QED BY <1>2, <1>5, <1>6, <1>7, <1>8, <1>9

\* What AddEdge does to the blocks.
LEMMA EdgeStep ==
    ASSUME LowTypes, AddEdge
    PROVE  /\ edges + 1 \in 1..Len(ail.edges) /\ Len(blocks) = Len(ail.blocks)
           /\ ail.edges[edges + 1][2] \in 1..Len(blocks)
           /\ ail.edges[edges + 1][1] \in 1..Len(blocks)
           /\ \A n \in 1..Len(ail.edges) : InEdge(ail, n) \in Nat \X Nat
           /\ blocks' = [blocks EXCEPT ![ail.edges[edges + 1][2]].in = Append(@, InEdge(ail, edges + 1))]
<1>1. edges \in Nat /\ edges < Len(ail.edges) /\ Len(blocks) = Len(ail.blocks)
    <2>1. /\ ail \in AilGraphs /\ blocks \in Seq(BlockRecords)
          /\ Len(blocks) <= Len(ail.blocks) /\ edges \in 0..Len(ail.edges)
        BY DEF LowTypes
    <2>2. ~(Len(blocks) < Len(ail.blocks)) /\ edges < Len(ail.edges)
        BY DEF AddEdge, AllLowered, BlocksLeft
    <2>3. ail.blocks \in Seq(Seq(AilStatements)) /\ Len(ail.edges) \in Nat
        BY <2>1, AilParts
    <2>4. Len(blocks) \in Nat /\ Len(ail.blocks) \in Nat
        BY <2>1, <2>3
    <2> QED BY <2>1, <2>2, <2>3, <2>4
<1>2. edges + 1 \in 1..Len(ail.edges)
    BY <1>1, AilParts DEF LowTypes
<1>3. ail.edges \in Seq((1..Len(ail.blocks)) \X (1..Len(ail.blocks))) /\ Len(ail.edges) \in Nat
    BY AilParts DEF LowTypes
<1>4. \A n \in 1..Len(ail.edges) : ail.edges[n] \in (1..Len(ail.blocks)) \X (1..Len(ail.blocks))
    BY <1>3
<1>5. \A n \in 1..Len(ail.edges) :
          ail.edges[n][1] \in 1..Len(ail.blocks) /\ ail.edges[n][2] \in 1..Len(ail.blocks)
    BY <1>4
<1>6. ASSUME NEW n \in 1..Len(ail.edges) PROVE InEdge(ail, n) \in Nat \X Nat
    <2> DEFINE before == {i \in 1..(n - 1) : ail.edges[i][1] = ail.edges[n][1]}
    <2>1. IsFiniteSet(before)
        <3>1. n - 1 \in Int /\ before \subseteq 1..(n - 1)
            BY <1>3
        <3>2. IsFiniteSet(1..(n - 1))
            BY <3>1, FS_Interval
        <3> HIDE DEF before
        <3> QED BY <3>1, <3>2, FS_Subset
    <2>2. Cardinality(before) \in Nat
        <3> HIDE DEF before
        <3> QED BY <2>1, FS_CardinalityType
    <2>3. ail.edges[n][1] \in Nat
        <3>1. ail.edges[n][1] \in 1..Len(ail.blocks)
            BY <1>5
        <3> QED BY <3>1
    <2> QED BY <2>2, <2>3 DEF InEdge
<1>7. blocks' = [blocks EXCEPT ![ail.edges[edges + 1][2]].in = Append(@, InEdge(ail, edges + 1))]
    BY DEF AddEdge, InEdge, OutBefore
<1> QED BY <1>1, <1>2, <1>5, <1>6, <1>7

NewBlock == [first |-> Len(ops) + 1, last |-> Len(ops), in |-> <<>>]

\* What OpenBlock does to the blocks.
LEMMA OpenStep ==
    ASSUME LowTypes, OpenBlock
    PROVE  /\ blocks' = Append(blocks, NewBlock) /\ NewBlock \in BlockRecords
           /\ blocks' \in Seq(BlockRecords) /\ Len(blocks') = Len(blocks) + 1
           /\ \A b \in 1..Len(blocks) : blocks'[b] = blocks[b]
           /\ blocks'[Len(blocks) + 1] = NewBlock
           /\ Len(blocks) + 1 <= Len(ail.blocks) /\ Len(blocks) \in Nat /\ Len(ops) \in Nat
<1>1. Len(ops) \in Nat
    BY OpGraphParts DEF LowTypes
<1>2. blocks' = Append(blocks, NewBlock) /\ NewBlock \in BlockRecords
    BY <1>1 DEF OpenBlock, NewBlock, BlockRecords
<1>3. /\ blocks \in Seq(BlockRecords) /\ Len(blocks) \in Nat
      /\ Len(blocks) < Len(ail.blocks) /\ Len(ail.blocks) \in Nat
    BY AilParts DEF LowTypes, OpenBlock, BlocksLeft
<1> QED BY <1>1, <1>2, <1>3, AppendProperties

\* There is nothing in the graph at the start.
LEMMA EmptyGraphSound ==
    [varnodes |-> <<>>, refOf |-> Unknown, ops |-> <<>>] \in Sound
<1> DEFINE g == [varnodes |-> <<>>, refOf |-> Unknown, ops |-> <<>>]
<1>1. /\ g \in Graphs /\ g.refOf = Unknown /\ g.ops = <<>> /\ g.varnodes = <<>>
    BY DEF Graphs, Unknown
<1> HIDE DEF g
<1>2. Len(g.varnodes) = 0 /\ Len(g.ops) = 0 /\ \A v \in SsaValues : g.refOf[v] = 0
    BY <1>1 DEF Unknown
<1>3. g \in Sound
    BY <1>1, <1>2 DEF Sound
<1> QED BY <1>3 DEF g

\* The types hold at the start.
LEMMA TypesAtStart == LowInit => LowTypes
<1> SUFFICES ASSUME LowInit PROVE LowTypes
    OBVIOUS
<1>1. OpGraph \in Sound
    BY EmptyGraphSound DEF LowInit, OpGraph
<1>2. Len(ail.blocks) \in Nat /\ Len(ail.edges) \in Nat
    BY AilParts DEF LowInit
<1> QED BY <1>1, <1>2 DEF LowInit, LowTypes

\* The lowering keeps references to varnodes that there are.
LEMMA TypesKept == LowTypes /\ Lower => LowTypes'
<1> SUFFICES ASSUME LowTypes, Lower PROVE LowTypes'
    OBVIOUS
<1>0. ail' = ail /\ ail \in AilGraphs
    BY DEF Lower, OpenBlock, LowerStatement, AddEdge, Translated, TranslationFails, LowTypes
<1>1. CASE OpenBlock
    <2>1. /\ varnodes' = varnodes /\ refOf' = refOf /\ ops' = ops
          /\ through' = 0 /\ edges' = edges /\ lowering' = lowering
        BY <1>1 DEF OpenBlock
    <2>2. OpGraph' = OpGraph
        BY <2>1 DEF OpGraph
    <2> QED BY <1>0, <1>1, <2>1, <2>2, OpenStep DEF LowTypes
<1>2. CASE LowerStatement
    <2>1. through' = through + 1 /\ edges' = edges /\ lowering' = lowering
        BY <1>2 DEF LowerStatement
    <2>2. OpGraph' \in Sound
        BY <1>2, StatementStep DEF Grown
    <2>3. blocks' \in Seq(BlockRecords) /\ Len(blocks') = Len(blocks)
        <3>1. blocks \in Seq(BlockRecords)
            BY DEF LowTypes
        <3> QED BY <1>2, <3>1, StatementStep, BlockLast
    <2> QED BY <1>0, <2>1, <2>2, <2>3 DEF LowTypes
<1>3. CASE AddEdge
    <2>1. /\ varnodes' = varnodes /\ refOf' = refOf /\ ops' = ops
          /\ through' = through /\ edges' = edges + 1 /\ lowering' = lowering
        BY <1>3 DEF AddEdge
    <2>2. OpGraph' = OpGraph
        BY <2>1 DEF OpGraph
    <2>3. blocks' \in Seq(BlockRecords) /\ Len(blocks') = Len(blocks)
        <3>1. blocks \in Seq(BlockRecords)
            BY DEF LowTypes
        <3>2. /\ InEdge(ail, edges + 1) \in Nat \X Nat
              /\ ail.edges[edges + 1][2] \in 1..Len(blocks)
              /\ blocks' = [blocks EXCEPT ![ail.edges[edges + 1][2]].in =
                                Append(@, InEdge(ail, edges + 1))]
            BY <1>3, EdgeStep
        <3> DEFINE b == ail.edges[edges + 1][2]
                   e == InEdge(ail, edges + 1)
        <3> HIDE DEF b, e
        <3>3. blocks' = [blocks EXCEPT ![b].in = Append(@, e)] /\ b \in 1..Len(blocks)
              /\ e \in Nat \X Nat
            BY <3>2 DEF b, e
        <3> QED BY <3>1, <3>3, BlockIn
    <2>4. edges + 1 \in 0..Len(ail.edges)
        BY <1>3, EdgeStep
    <2> QED BY <1>0, <2>1, <2>2, <2>3, <2>4 DEF LowTypes
<1>4. CASE Translated
    <2>1. /\ varnodes' = varnodes /\ refOf' = refOf /\ ops' = ops /\ blocks' = blocks
          /\ through' = through /\ edges' = edges /\ lowering' = "done"
        BY <1>4 DEF Translated
    <2>2. OpGraph' = OpGraph
        BY <2>1 DEF OpGraph
    <2> QED BY <1>0, <2>1, <2>2 DEF LowTypes
<1>5. CASE TranslationFails
    <2>1. /\ varnodes' = <<>> /\ refOf' = Unknown /\ ops' = <<>> /\ blocks' = <<>>
          /\ through' = 0 /\ edges' = 0 /\ lowering' = "failed"
        BY <1>5 DEF TranslationFails
    <2>2. OpGraph' \in Sound
        BY <2>1, EmptyGraphSound DEF OpGraph
    <2>3. Len(ail.blocks) \in Nat /\ Len(ail.edges) \in Nat
        BY AilParts DEF LowTypes
    <2> QED BY <1>0, <2>1, <2>2, <2>3 DEF LowTypes
<1> QED BY <1>1, <1>2, <1>3, <1>4, <1>5 DEF Lower

\* There is no block at the start.
LEMMA ShapeAtStart == LowInit => BlocksShape
BY DEF LowInit, BlocksShape

\* The operations of the blocks follow on one another.
LEMMA ShapeKept == LowTypes /\ BlocksShape /\ Lower => BlocksShape'
<1> SUFFICES ASSUME LowTypes, BlocksShape, Lower PROVE BlocksShape'
    OBVIOUS
<1>0. blocks \in Seq(BlockRecords) /\ Len(blocks) \in Nat
    BY DEF LowTypes
<1>9. \A b \in 1..Len(blocks) : blocks[b].first \in Nat /\ blocks[b].last \in Nat
    <2>1. \A b \in 1..Len(blocks) : blocks[b] \in BlockRecords
        BY <1>0
    <2> QED BY <2>1 DEF BlockRecords
<1>1. CASE OpenBlock
    <2>1. ops' = ops
        BY <1>1 DEF OpenBlock
    <2>2. /\ Len(blocks') = Len(blocks) + 1 /\ blocks'[Len(blocks) + 1] = NewBlock
          /\ \A b \in 1..Len(blocks) : blocks'[b] = blocks[b]
          /\ Len(ops) \in Nat
        BY <1>1, OpenStep
    <2>3. NewBlock.first = Len(ops) + 1 /\ NewBlock.last = Len(ops)
        BY DEF NewBlock
    <2>4. ASSUME NEW b \in 1..Len(blocks')
          PROVE  /\ blocks'[b].first = (IF b = 1 THEN 0 ELSE blocks'[b - 1].last) + 1
                 /\ blocks'[b].first <= blocks'[b].last + 1
        <3>1. CASE b \in 1..Len(blocks)
            <4>1. blocks'[b] = blocks[b] /\ (b # 1 => blocks'[b - 1] = blocks[b - 1])
                BY <1>0, <2>2, <3>1
            <4> QED BY <3>1, <4>1 DEF BlocksShape
        <3>2. CASE b = Len(blocks) + 1
            <4>1. b # 1 => blocks'[b - 1] = blocks[Len(blocks)]
                BY <1>0, <2>2, <3>2
            <4> QED BY <1>0, <2>2, <2>3, <3>2, <4>1 DEF BlocksShape
        <3> QED BY <1>0, <2>2, <3>1, <3>2
    <2> QED BY <1>0, <2>1, <2>2, <2>3, <2>4 DEF BlocksShape
<1>2. CASE LowerStatement
    <2>1. /\ Len(blocks) \in 1..Len(blocks) /\ Len(ops) <= Len(ops') /\ Len(ops') \in Nat
          /\ blocks' = [blocks EXCEPT ![Len(blocks)].last = Len(ops')]
          /\ Len(ops) \in Nat
        BY <1>2, StatementStep, OpGraphParts DEF LowTypes
    <2>2. /\ Len(blocks') = Len(blocks)
          /\ \A b \in 1..Len(blocks) :
                /\ blocks'[b].first = blocks[b].first
                /\ blocks'[b].last = IF b = Len(blocks) THEN Len(ops') ELSE blocks[b].last
        BY <1>0, <2>1, BlockLast
    <2>3. ASSUME NEW b \in 1..Len(blocks)
          PROVE  /\ blocks'[b].first = (IF b = 1 THEN 0 ELSE blocks'[b - 1].last) + 1
                 /\ blocks'[b].first <= blocks'[b].last + 1
        <3>1. b # 1 => b - 1 \in 1..Len(blocks) /\ b - 1 # Len(blocks)
            BY <1>0
        <3>2. b # 1 => blocks'[b - 1].last = blocks[b - 1].last
            BY <2>2, <3>1
        <3>3. blocks[b].first <= blocks[b].last + 1
              /\ blocks[b].first = (IF b = 1 THEN 0 ELSE blocks[b - 1].last) + 1
            BY DEF BlocksShape
        <3>4. blocks[b].last <= blocks'[b].last /\ blocks'[b].last \in Nat
            BY <1>9, <2>1, <2>2 DEF BlocksShape
        <3> QED BY <1>9, <2>2, <3>2, <3>3, <3>4
    <2> QED BY <2>1, <2>2, <2>3 DEF BlocksShape
<1>3. CASE AddEdge
    <2>1. ops' = ops
        BY <1>3 DEF AddEdge
    <2> DEFINE c == ail.edges[edges + 1][2]
               e == InEdge(ail, edges + 1)
    <2>2. /\ c \in 1..Len(blocks) /\ e \in Nat \X Nat
          /\ blocks' = [blocks EXCEPT ![c].in = Append(@, e)]
        BY <1>3, EdgeStep
    <2> HIDE DEF c, e
    <2>3. /\ Len(blocks') = Len(blocks)
          /\ \A b \in 1..Len(blocks) : /\ blocks'[b].first = blocks[b].first
                                       /\ blocks'[b].last = blocks[b].last
        BY <1>0, <2>2, BlockIn
    <2>4. \A b \in 1..Len(blocks) : b # 1 => b - 1 \in 1..Len(blocks)
        BY <1>0
    <2> QED BY <1>0, <2>1, <2>3, <2>4 DEF BlocksShape
<1>4. CASE Translated
    BY <1>4 DEF Translated, BlocksShape
<1>5. CASE TranslationFails
    BY <1>5 DEF TranslationFails, BlocksShape
<1> QED BY <1>1, <1>2, <1>3, <1>4, <1>5 DEF Lower

\* Arithmetic of the next lemma.
LEMMA OneMore ==
    ASSUME NEW n \in Int, NEW i \in Int, NEW ls \in Nat, NEW lt, NEW a \in Nat, NEW b,
           lt = ls + (IF n - 1 < i THEN 0 ELSE 1), b = a + (IF n = i THEN 1 ELSE 0)
    PROVE  lt + b = (ls + a) + (IF n < i THEN 0 ELSE 1)
OBVIOUS

\* One element more in one of some sequences is one more in all of them.
LEMMA FlattenLonger ==
    ASSUME NEW S, NEW s \in Seq(Seq(S)), NEW t \in Seq(Seq(S)), NEW i \in 1..Len(s),
           NEW x \in S, Len(t) = Len(s), t[i] = Append(s[i], x),
           \A j \in 1..Len(s) : j # i => t[j] = s[j]
    PROVE  Len(FlattenSeq(t)) = Len(FlattenSeq(s)) + 1
<1> DEFINE L(u, n) == Len(FlattenSeq(SubSeq(u, 1, n)))
           P == {n \in Nat : L(t, n) = L(s, n) + (IF n < i THEN 0 ELSE 1)}
<1>1. 0 \in P
    <2>1. L(s, 0) = 0 /\ L(t, 0) = 0
        <3>1. SubSeq(s, 1, 0) = <<>> /\ SubSeq(t, 1, 0) = <<>> /\ Len(<<>>) = 0
            BY SubSeqWhole
        <3> QED BY <3>1, FlattenNone
    <2> QED BY <2>1
<1>2. ASSUME NEW n \in 1..Len(s), n - 1 \in P PROVE n \in P
    <2>1. ASSUME NEW u \in Seq(Seq(S)), Len(u) = Len(s)
          PROVE  L(u, n) = L(u, n - 1) + Len(u[n]) /\ L(u, n - 1) \in Nat /\ Len(u[n]) \in Nat
        <3> DEFINE before == SubSeq(u, 1, n - 1)
        <3>1. /\ before \in Seq(Seq(S)) /\ u[n] \in Seq(S)
              /\ SubSeq(u, 1, n) = Append(before, u[n])
            BY <2>1, LastSplits
        <3> HIDE DEF before
        <3>2. /\ FlattenSeq(Append(before, u[n])) = FlattenSeq(before) \o u[n]
              /\ FlattenSeq(before) \in Seq(S)
            BY <3>1, FlattenAppend
        <3>3. /\ Len(FlattenSeq(before) \o u[n]) = Len(FlattenSeq(before)) + Len(u[n])
              /\ Len(FlattenSeq(before)) \in Nat /\ Len(u[n]) \in Nat
            BY <3>1, <3>2, ConcatProperties, LenProperties
        <3> QED BY <3>1, <3>2, <3>3 DEF before
    <2>2. L(s, n) = L(s, n - 1) + Len(s[n]) /\ L(s, n - 1) \in Nat /\ Len(s[n]) \in Nat
        BY <2>1
    <2>3. L(t, n) = L(t, n - 1) + Len(t[n]) /\ L(t, n - 1) \in Nat
        BY <2>1
    <2> HIDE DEF L
    <2>4. L(t, n - 1) = L(s, n - 1) + (IF n - 1 < i THEN 0 ELSE 1) /\ n \in Nat
        BY <1>2
    <2>5. Len(t[n]) = Len(s[n]) + (IF n = i THEN 1 ELSE 0)
        <3>1. CASE n = i
            <4>1. s[n] \in Seq(S)
                OBVIOUS
            <4>2. Len(Append(s[n], x)) = Len(s[n]) + 1
                BY <4>1, AppendProperties
            <4> QED BY <3>1, <4>2
        <3>2. CASE n # i
            <4>1. t[n] = s[n]
                BY <3>2
            <4> QED BY <2>2, <3>2, <4>1
        <3> QED BY <3>1, <3>2
    <2>6. L(t, n) = L(s, n) + (IF n < i THEN 0 ELSE 1)
        <3> DEFINE lt == L(t, n - 1)
                   ls == L(s, n - 1)
        <3> HIDE DEF lt, ls
        <3>1. /\ L(t, n) = lt + Len(t[n]) /\ L(s, n) = ls + Len(s[n]) /\ Len(s[n]) \in Nat
              /\ lt = ls + (IF n - 1 < i THEN 0 ELSE 1) /\ ls \in Nat
            BY <2>2, <2>3, <2>4 DEF lt, ls
        <3>2. n \in Int /\ i \in Int
            OBVIOUS
        <3>3. lt + Len(t[n]) = (ls + Len(s[n])) + (IF n < i THEN 0 ELSE 1)
            <4> DEFINE a == Len(s[n])
                       b == Len(t[n])
            <4> HIDE DEF a, b
            <4>1. /\ a \in Nat /\ b = a + (IF n = i THEN 1 ELSE 0) /\ ls \in Nat
                  /\ lt = ls + (IF n - 1 < i THEN 0 ELSE 1)
                BY <2>5, <3>1 DEF a, b
            <4>2. lt + b = (ls + a) + (IF n < i THEN 0 ELSE 1)
                BY ONLY <3>2, <4>1, OneMore
            <4> QED BY <4>2 DEF a, b
        <3> QED BY <3>1, <3>3, Zenon
    <2> QED BY <2>4, <2>6
<1>3. Len(s) \in Nat
    OBVIOUS
<1> HIDE DEF P
<1>4. Len(s) \in P
    <2>1. \A n \in 0..Len(s) : n \in P
        BY <1>1, <1>2, <1>3, Induction
    <2> QED BY <1>3, <2>1
<1>5. L(s, Len(s)) = Len(FlattenSeq(s)) /\ L(t, Len(s)) = Len(FlattenSeq(t))
    BY SubSeqWhole
<1> HIDE DEF L
<1> QED BY <1>4, <1>5 DEF P

\* The in-edges of the blocks.
LEMMA InsType ==
    ASSUME LowTypes
    PROVE  /\ Ins \in Seq(Seq(Nat \X Nat)) /\ Len(Ins) = Len(blocks) /\ Len(blocks) \in Nat
           /\ \A b \in 1..Len(blocks) : Ins[b] = blocks[b].in /\ blocks[b].in \in Seq(Nat \X Nat)
<1>1. blocks \in Seq(BlockRecords) /\ Len(blocks) \in Nat
    BY DEF LowTypes
<1>2. \A b \in 1..Len(blocks) : blocks[b] \in BlockRecords
    BY <1>1
<1>3. \A b \in 1..Len(blocks) : blocks[b].in \in Seq(Nat \X Nat)
    BY <1>2 DEF BlockRecords
<1> QED BY <1>1, <1>3 DEF Ins

\* Without blocks there are no edges.
LEMMA InsNone ==
    ASSUME Len(blocks) = 0, edges = 0, lowering # "done"
    PROVE  EdgesShape
<1>1. Ins = <<>>
    BY DEF Ins
<1>2. Len(FlattenSeq(Ins)) = 0 /\ Len(Ins) = 0
    BY <1>1, FlattenNone
<1> QED BY <1>2 DEF EdgesShape, OnlyEdges, AllEdges

\* There is no edge at the start.
LEMMA EdgesAtStart == LowInit => EdgesShape
<1>1. LowInit => Len(blocks) = 0 /\ edges = 0 /\ lowering # "done"
    BY DEF LowInit
<1> QED BY <1>1, InsNone

\* The blocks of the edges' ends.
LEMMA EdgeEnds ==
    ASSUME LowTypes, NEW n \in 1..Len(ail.edges)
    PROVE  ail.edges[n][1] \in 1..Len(ail.blocks) /\ ail.edges[n][2] \in 1..Len(ail.blocks)
<1>1. ail.edges \in Seq((1..Len(ail.blocks)) \X (1..Len(ail.blocks)))
    BY AilParts DEF LowTypes
<1>2. ail.edges[n] \in (1..Len(ail.blocks)) \X (1..Len(ail.blocks))
    BY <1>1
<1> QED BY <1>2

\* The edges stay what they are where no block gets another.
LEMMA EdgesOfSame ==
    ASSUME LowTypes, EdgesShape, Ins' = Ins, edges' = edges, ail' = ail,
           Len(blocks') = Len(blocks),
           lowering' = "done" => edges = Len(ail.edges) /\ Len(blocks) = Len(ail.blocks)
    PROVE  EdgesShape'
<1>1. OnlyEdges(ail, Ins, edges)' /\ AllEdges(ail, Ins, edges)'
    BY DEF EdgesShape
<1>2. Len(FlattenSeq(Ins)) = edges
    BY DEF EdgesShape
<1>3. Len(FlattenSeq(Ins'))  = edges'
    BY <1>2
<1>4. edges' > 0 => Len(blocks') = Len(ail'.blocks)
    BY DEF EdgesShape
<1> QED BY <1>1, <1>3, <1>4 DEF EdgesShape

\* A new block has no edge yet.
LEMMA OpenEdges ==
    ASSUME LowTypes, EdgesShape, OpenBlock
    PROVE  EdgesShape'
<1>1. /\ Len(blocks) + 1 = Len(blocks') /\ Len(blocks) + 1 <= Len(ail.blocks)
      /\ \A b \in 1..Len(blocks) : blocks'[b] = blocks[b]
      /\ blocks'[Len(blocks) + 1] = NewBlock /\ Len(blocks) \in Nat
    BY OpenStep
<1>2. edges' = edges /\ ail' = ail /\ lowering' = "runs"
    BY DEF OpenBlock
<1>3. edges = 0
    <2>1. edges \in Nat /\ Len(ail.edges) \in Nat /\ Len(ail.blocks) \in Nat
        BY AilParts DEF LowTypes
    <2> QED BY <1>1, <2>1 DEF EdgesShape
<1>4. NewBlock.in = <<>> /\ <<>> \in Seq(Nat \X Nat)
    BY DEF NewBlock
<1>5. /\ Ins \in Seq(Seq(Nat \X Nat)) /\ Len(Ins) = Len(blocks)
      /\ \A b \in 1..Len(blocks) : Ins[b] = blocks[b].in /\ blocks[b].in \in Seq(Nat \X Nat)
    BY InsType
<1> DEFINE t == Ins'
<1>6. t = [b \in 1..Len(blocks') |-> blocks'[b].in]
    BY DEF Ins
<1>7. \A b \in 1..Len(blocks) : blocks'[b].in \in Seq(Nat \X Nat)
    BY <1>1, <1>5
<1>8. blocks'[Len(blocks) + 1].in = <<>>
    BY <1>1, <1>4
<1>9. t \in Seq(Seq(Nat \X Nat)) /\ Len(t) = Len(Ins) + 1
    <2>1. ASSUME NEW b \in 1..Len(blocks') PROVE blocks'[b].in \in Seq(Nat \X Nat)
        <3>1. b \in 1..Len(blocks) \/ b = Len(blocks) + 1
            BY <1>1
        <3> QED BY <1>4, <1>7, <1>8, <3>1
    <2> QED BY <1>1, <1>5, <1>6, <2>1
<1>10. /\ \A b \in 1..Len(Ins) : t[b] = Ins[b]
       /\ t[Len(Ins) + 1] = <<>>
    BY <1>1, <1>5, <1>6, <1>8
<1> HIDE DEF t
<1>11. t = Append(Ins, <<>>)
    BY <1>4, <1>5, <1>9, <1>10, AppendEqual
<1>12. FlattenSeq(t) = FlattenSeq(Ins)
    <2>1. /\ FlattenSeq(Append(Ins, <<>>)) = FlattenSeq(Ins) \o <<>>
          /\ FlattenSeq(Ins) \in Seq(Nat \X Nat)
        BY <1>4, <1>5, FlattenAppend
    <2> QED BY <1>11, <2>1, ConcatEmptySeq
<1>13. Len(FlattenSeq(t)) = edges
    BY <1>12 DEF EdgesShape
<1>14. \A b \in 1..Len(t) : Len(t[b]) = 0
    <2>1. ASSUME NEW b \in 1..Len(Ins) PROVE Len(Ins[b]) = 0
        <3>1. ~\E k \in 1..Len(Ins[b]) : TRUE
            BY <1>3 DEF EdgesShape, OnlyEdges
        <3>2. Len(Ins[b]) \in Nat
            BY <1>5, LenProperties
        <3> QED BY <3>1, <3>2
    <2>2. Len(Ins) \in Nat /\ Len(<<>>) = 0
        BY <1>5
    <2>3. ASSUME NEW b \in 1..Len(t) PROVE Len(t[b]) = 0
        <3>1. b \in 1..Len(Ins) \/ b = Len(Ins) + 1
            BY <1>9, <2>2
        <3> QED BY <1>10, <2>1, <2>2, <3>1
    <2> QED BY <2>3
<1>15. OnlyEdges(ail, Ins, edges)' /\ AllEdges(ail, Ins, edges)'
    <2>1. \A b \in 1..Len(Ins') : Len(Ins'[b]) = 0
        BY <1>14 DEF t
    <2> QED BY <1>2, <1>3, <2>1 DEF OnlyEdges, AllEdges
<1> QED BY <1>2, <1>3, <1>13, <1>15 DEF EdgesShape, t

\* The m-th edge is entered at the block it leads to.
LEMMA AddToIns ==
    ASSUME NEW S, NEW m \in Nat \ {0}, NEW ins \in Seq(Seq(S)),
           NEW t \in Seq(Seq(S)), Len(t) = Len(ins),
           NEW c \in 1..Len(ins), c = ail.edges[m][2],
           t[c] = Append(ins[c], InEdge(ail, m)),
           \A b \in 1..Len(ins) : b # c => t[b] = ins[b],
           \A n \in 1..m : ail.edges[n][2] \in 1..Len(ins),
           InEdge(ail, m) \in S,
           OnlyEdges(ail, ins, m - 1), AllEdges(ail, ins, m - 1)
    PROVE  OnlyEdges(ail, t, m) /\ AllEdges(ail, t, m)
<1> DEFINE e == InEdge(ail, m)
           l == Len(ins[c])
<1>1. \A b \in 1..Len(ins) : ins[b] \in Seq(S) /\ Len(ins[b]) \in Nat
    BY LenProperties
<1>5. ins[c] \in Seq(S) /\ e \in S /\ t[c] = Append(ins[c], e)
    BY <1>1
<1>2. /\ Len(t[c]) = l + 1 /\ t[c][l + 1] = e /\ l \in Nat
      /\ \A k \in 1..l : t[c][k] = ins[c][k]
    <2> DEFINE u == ins[c]
    <2> HIDE DEF e, u
    <2>1. u \in Seq(S) /\ e \in S
        BY <1>5 DEF u
    <2>2. /\ Len(Append(u, e)) = Len(u) + 1 /\ Append(u, e)[Len(u) + 1] = e /\ Len(u) \in Nat
          /\ \A k \in 1..Len(u) : Append(u, e)[k] = u[k]
        BY ONLY <2>1, AppendProperties
    <2>3. t[c] = Append(u, e)
        BY <1>5 DEF u
    <2> QED BY <2>2, <2>3 DEF u
<1> HIDE DEF e, l
<1>3. ASSUME NEW b \in 1..Len(t), NEW k \in 1..Len(t[b])
      PROVE  \E n \in 1..m : ail.edges[n][2] = b /\ t[b][k] = InEdge(ail, n)
    <2>1. CASE b = c /\ k = l + 1
        <3>1. m \in 1..m
            OBVIOUS
        <3> QED BY <1>2, <2>1, <3>1 DEF e
    <2>2. CASE ~(b = c /\ k = l + 1)
        <3>1. k \in 1..Len(ins[b]) /\ t[b][k] = ins[b][k]
            <4>1. CASE b = c
                <5>1. k \in 1..l
                    <6>1. k \in 1..(l + 1) /\ k # l + 1
                        BY <1>2, <2>2, <4>1
                    <6> QED BY ONLY <1>2, <6>1
                <5> QED BY <1>2, <4>1, <5>1 DEF l
            <4>2. CASE b # c
                <5>1. t[b] = ins[b]
                    BY <4>2
                <5> QED BY <5>1
            <4> QED BY <4>1, <4>2
        <3>2. PICK n \in 1..(m - 1) : ail.edges[n][2] = b /\ ins[b][k] = InEdge(ail, n)
            BY <3>1 DEF OnlyEdges
        <3>3. n \in 1..m
            OBVIOUS
        <3> QED BY <3>1, <3>2, <3>3
    <2> QED BY <2>1, <2>2
<1>4. ASSUME NEW n \in 1..m
      PROVE  \E k \in 1..Len(t[ail.edges[n][2]]) : t[ail.edges[n][2]][k] = InEdge(ail, n)
    <2>1. CASE n = m
        <3>1. l + 1 \in 1..Len(t[c])
            BY ONLY <1>2
        <3> QED BY <1>2, <2>1, <3>1 DEF e
    <2>2. CASE n \in 1..(m - 1)
        <3> DEFINE b == ail.edges[n][2]
        <3>1. PICK k \in 1..Len(ins[b]) : ins[b][k] = InEdge(ail, n)
            BY <2>2 DEF AllEdges
        <3>2. b \in 1..Len(ins)
            OBVIOUS
        <3> HIDE DEF b
        <3>3. k \in 1..Len(t[b]) /\ t[b][k] = ins[b][k]
            <4>1. CASE b = c
                <5>1. k \in 1..l
                    BY <3>1, <4>1 DEF l
                <5>2. k \in 1..(l + 1)
                    BY ONLY <1>2, <5>1
                <5> QED BY <1>2, <3>1, <4>1, <5>1, <5>2
            <4>2. CASE b # c
                <5>1. t[b] = ins[b]
                    BY <3>2, <4>2
                <5> QED BY <3>1, <5>1
            <4> QED BY <4>1, <4>2
        <3>4. k \in 1..Len(t[b]) /\ t[b][k] = InEdge(ail, n)
            BY ONLY <3>1, <3>3
        <3>5. \E j \in 1..Len(t[b]) : t[b][j] = InEdge(ail, n)
            BY ONLY <3>4
        <3> QED BY ONLY <3>5 DEF b
    <2>3. n = m \/ n \in 1..(m - 1)
        OBVIOUS
    <2> QED BY <2>1, <2>2, <2>3, Zenon
<1> QED BY <1>3, <1>4 DEF OnlyEdges, AllEdges

\* AddEdge adds the next edge.
LEMMA AddedEdges ==
    ASSUME LowTypes, EdgesShape, AddEdge
    PROVE  EdgesShape'
<1> DEFINE m == edges + 1
           c == ail.edges[m][2]
           e == InEdge(ail, m)
<1>1. /\ m \in 1..Len(ail.edges) /\ Len(blocks) = Len(ail.blocks)
      /\ c \in 1..Len(blocks) /\ e \in Nat \X Nat
      /\ blocks' = [blocks EXCEPT ![c].in = Append(@, e)]
    BY EdgeStep
<1>2. edges' = m /\ ail' = ail /\ lowering' = "runs"
    BY DEF AddEdge
<1>3. edges \in Nat /\ Len(ail.edges) \in Nat
    BY AilParts DEF LowTypes
<1>4. \A n \in 1..m : ail.edges[n][2] \in 1..Len(blocks)
    <2>1. \A n \in 1..m : n \in 1..Len(ail.edges)
        BY <1>1, <1>3
    <2> QED BY <1>1, <2>1, EdgeEnds
<1>5. m \in Nat \ {0} /\ m - 1 = edges
    BY <1>3
<1> HIDE DEF c, e, m
<1>6. /\ Ins \in Seq(Seq(Nat \X Nat)) /\ Len(Ins) = Len(blocks) /\ Len(blocks) \in Nat
      /\ \A b \in 1..Len(blocks) : Ins[b] = blocks[b].in /\ blocks[b].in \in Seq(Nat \X Nat)
    BY InsType
<1>7. /\ Len(blocks') = Len(blocks)
      /\ \A b \in 1..Len(blocks) :
            blocks'[b].in = IF b = c THEN Append(blocks[b].in, e) ELSE blocks[b].in
    <2>1. blocks \in Seq(BlockRecords)
        BY DEF LowTypes
    <2> QED BY <1>1, <2>1, BlockIn
<1>8. \A b \in 1..Len(blocks) : blocks'[b].in \in Seq(Nat \X Nat)
    <2>1. \A s \in Seq(Nat \X Nat) : Append(s, e) \in Seq(Nat \X Nat)
        BY <1>1, AppendProperties
    <2> QED BY <1>6, <1>7, <2>1
<1> DEFINE t == Ins'
<1>9. t = [b \in 1..Len(blocks') |-> blocks'[b].in]
    BY DEF Ins
<1>10. t \in Seq(Seq(Nat \X Nat)) /\ Len(t) = Len(Ins)
       /\ \A b \in 1..Len(blocks) : t[b] = blocks'[b].in
    BY <1>6, <1>7, <1>8, <1>9
<1> HIDE DEF t
<1>11. t[c] = Append(Ins[c], e)
    BY <1>1, <1>6, <1>7, <1>10
<1>12. \A b \in 1..Len(Ins) : b # c => t[b] = Ins[b]
    BY <1>6, <1>7, <1>10
<1>13. Len(FlattenSeq(t)) = m
    <2>1. Len(FlattenSeq(t)) = Len(FlattenSeq(Ins)) + 1
        <3>1. c \in 1..Len(Ins)
            BY <1>1, <1>6
        <3> DEFINE P == Nat \X Nat
        <3>2. Ins \in Seq(Seq(P)) /\ t \in Seq(Seq(P)) /\ e \in P /\ Len(t) = Len(Ins)
            BY <1>1, <1>6, <1>10
        <3> HIDE DEF P
        <3> QED BY <1>11, <1>12, <3>1, <3>2, FlattenLonger, ZenonT(60)
    <2>2. Len(FlattenSeq(Ins)) = edges
        BY DEF EdgesShape
    <2> QED BY <2>1, <2>2 DEF m
<1>14. OnlyEdges(ail, t, m) /\ AllEdges(ail, t, m)
    <2>1. OnlyEdges(ail, Ins, m - 1) /\ AllEdges(ail, Ins, m - 1)
        BY <1>5 DEF EdgesShape
    <2>2. c \in 1..Len(Ins) /\ \A n \in 1..m : ail.edges[n][2] \in 1..Len(Ins)
        BY <1>1, <1>4, <1>6
    <2>3. c = ail.edges[m][2] /\ t[c] = Append(Ins[c], InEdge(ail, m)) /\ InEdge(ail, m) \in Nat \X Nat
        BY <1>1, <1>11 DEF c, e
    <2> DEFINE P == Nat \X Nat
    <2>4. /\ m \in Nat \ {0} /\ Ins \in Seq(Seq(P)) /\ t \in Seq(Seq(P)) /\ Len(t) = Len(Ins)
          /\ InEdge(ail, m) \in P
        BY <1>5, <1>6, <1>10, <2>3
    <2> HIDE DEF P
    <2> QED BY <1>12, <2>1, <2>2, <2>3, <2>4, AddToIns, ZenonT(60)
<1>15. OnlyEdges(ail, Ins, edges)' /\ AllEdges(ail, Ins, edges)'
    <2>1. OnlyEdges(ail, Ins', m) /\ AllEdges(ail, Ins', m)
        BY <1>14 DEF t
    <2> QED BY <1>2, <2>1
<1>16. Len(blocks') = Len(ail'.blocks) /\ Len(FlattenSeq(Ins')) = edges'
    BY <1>1, <1>2, <1>7, <1>13 DEF t
<1> QED BY <1>2, <1>15, <1>16 DEF EdgesShape

\* Every edge that has been added is an in-edge of its target.
LEMMA EdgesKept == LowTypes /\ EdgesShape /\ Lower => EdgesShape'
<1> SUFFICES ASSUME LowTypes, EdgesShape, Lower PROVE EdgesShape'
    OBVIOUS
<1>1. CASE OpenBlock
    BY <1>1, OpenEdges
<1>2. CASE LowerStatement
    <2>1. edges' = edges /\ ail' = ail /\ lowering' = "runs"
        BY <1>2 DEF LowerStatement
    <2>2. /\ blocks \in Seq(BlockRecords)
          /\ Len(blocks) \in 1..Len(blocks) /\ Len(ops') \in Nat
          /\ blocks' = [blocks EXCEPT ![Len(blocks)].last = Len(ops')]
        BY <1>2, StatementStep DEF LowTypes
    <2>3. Len(blocks') = Len(blocks) /\ \A b \in 1..Len(blocks) : blocks'[b].in = blocks[b].in
        BY <2>2, BlockLast
    <2>4. Ins' = Ins
        BY <2>3 DEF Ins
    <2> QED BY <2>1, <2>3, <2>4, EdgesOfSame
<1>3. CASE AddEdge
    BY <1>3, AddedEdges
<1>4. CASE Translated
    <2>1. blocks' = blocks /\ edges' = edges /\ ail' = ail /\ edges = Len(ail.edges)
        BY <1>4 DEF Translated
    <2>2. Len(blocks) = Len(ail.blocks)
        <3>1. ~(Len(blocks) < Len(ail.blocks)) /\ Len(blocks) <= Len(ail.blocks)
            BY <1>4 DEF Translated, AllLowered, BlocksLeft, LowTypes
        <3> QED BY <3>1, AilParts, InsType DEF LowTypes
    <2>3. Ins' = Ins
        BY <2>1 DEF Ins
    <2> QED BY <2>1, <2>2, <2>3, EdgesOfSame
<1>5. CASE TranslationFails
    <2>1. Len(blocks') = 0 /\ edges' = 0 /\ lowering' # "done"
        BY <1>5 DEF TranslationFails
    <2>2. (Len(blocks) = 0 /\ edges = 0 /\ lowering # "done" => EdgesShape)'
        BY InsNone, PTL
    <2> QED BY <2>1, <2>2
<1> QED BY <1>1, <1>2, <1>3, <1>4, <1>5 DEF Lower

-----------------------------------------------------------------------------
(* The input, and the table of variables *)

AnyVars == Vars \cup {NoVar}

InputTypes ==
    /\ text \in [1..NumChunks -> Chunks]
    /\ slot \in [AnyVars -> Storages] /\ slot[NoVar] = Nowhere

\* The table before build() has begun.
Fresh ==
    /\ lowered = Len(varnodes)
    /\ symbols = <<>> /\ claimed = {}
    /\ members = [v \in AnyVars |-> <<>>]
    /\ rep = [v \in AnyVars |-> 0]
    /\ pass = "first" /\ at = 1

\* The table when build() is done.
TableBuilt ==
    /\ symbols \in Seq(AnyVars)
    /\ members \in [AnyVars -> Seq(1..Len(varnodes))]
    /\ rep \in [AnyVars -> 0..Len(varnodes)]
    /\ \A i \in 1..Len(symbols) : /\ slot[symbols[i]] # Nowhere
                                  /\ rep[symbols[i]] \in ToSet(members[symbols[i]])
    /\ \A k \in 1..NumChunks :
          /\ Table!VarRef(k) \in 0..Len(varnodes)
          /\ Table!VarRef(k) # 0 => /\ text[k].var \in ToSet(symbols)
                                    /\ Table!VarRef(k) \in ToSet(members[text[k].var])

\* Without a lowering a variable has its representative alone.
AloneIfNotLowered ==
    lowered = 0 => \A v \in AnyVars : members[v] = <<>> \/ members[v] = <<rep[v]>>

\* What a chunk has.
LEMMA ChunkTypes ==
    ASSUME NEW c \in Chunks
    PROVE  /\ c.var \in AnyVars /\ c.value \in SsaValues \cup {Nowhere} /\ c.address \in Nat
           /\ c.chars \in Seq(Characters)
           /\ c.node \in {"variable", "field", "function", "type", "constant", "other"}
BY DEF Chunks, AnyVars

-----------------------------------------------------------------------------
(* What is shown of the markup *)

TokenElements ==
    [kind : {"token"}, tag : {"variable", "funcname", "type", "syntax", "op"},
     chars : Seq(Characters), varref : Nat, opref : Nat]
BreakElements == [kind : {"break"}, indent : Nat]
MarkupElements == TokenElements \cup BreakElements

\* Elements that can be shown.
Displayed  == Characters \cup {"_"}
Showing(E) == \A el \in E : Show(el) \in Seq(Displayed)
ShowF(E)   == [el \in E |-> Show(el)]
ShownOf(s) == FlattenSeq([i \in DOMAIN s |-> Show(s[i])])

\* ShownOf is what each element becomes.
LEMMA ShowIsOf ==
    ASSUME NEW E, Showing(E), NEW s \in Seq(E)
    PROVE  ShowF(E) \in Becomes(E, Displayed) /\ ShownOf(s) = Each(ShowF(E), s)
<1>1. ShowF(E) \in Becomes(E, Displayed)
    BY DEF Showing, ShowF, Becomes
<1>2. \A i \in DOMAIN s : Show(s[i]) = ShowF(E)[s[i]]
    BY DEF ShowF
<1>3. [i \in DOMAIN s |-> Show(s[i])] = [i \in DOMAIN s |-> ShowF(E)[s[i]]]
    BY <1>2
<1> QED BY <1>1, <1>3 DEF ShownOf, Each

\* What is shown of two sequences, one after the other.
LEMMA ShownConcat ==
    ASSUME NEW E, Showing(E), NEW s \in Seq(E), NEW t \in Seq(E)
    PROVE  ShownOf(s) \in Seq(Displayed) /\ ShownOf(s \o t) = ShownOf(s) \o ShownOf(t)
<1>1. s \o t \in Seq(E)
    BY ConcatProperties
<1>2. Each(ShowF(E), s) \in Seq(Displayed)
    BY ShowIsOf, Images
<1>3. Each(ShowF(E), s \o t) = Each(ShowF(E), s) \o Each(ShowF(E), t)
    BY ShowIsOf, EachConcat
<1> QED BY <1>1, <1>2, <1>3, ShowIsOf

\* What is shown of lists, one list after the other.
LEMMA ShownFlatten ==
    ASSUME NEW E, Showing(E), NEW ss \in Seq(Seq(E))
    PROVE  ShownOf(FlattenSeq(ss)) = FlattenSeq([i \in DOMAIN ss |-> ShownOf(ss[i])])
<1>1. FlattenSeq(ss) \in Seq(E)
    BY FlattenType
<1>2. Each(ShowF(E), FlattenSeq(ss)) = FlattenSeq(Parts(ShowF(E), ss))
    BY ShowIsOf, EachFlatten
<1>3. \A i \in DOMAIN ss : ShownOf(ss[i]) = Each(ShowF(E), ss[i])
    <2> TAKE i \in DOMAIN ss
    <2>1. ss[i] \in Seq(E)
        OBVIOUS
    <2> QED BY <2>1, ShowIsOf
<1>4. Parts(ShowF(E), ss) = [i \in DOMAIN ss |-> ShownOf(ss[i])]
    BY <1>3 DEF Parts
<1> QED BY <1>1, <1>2, <1>4, ShowIsOf

\* Elements of which nothing is shown.
LEMMA ShownNone ==
    ASSUME NEW E, NEW s \in Seq(E), \A el \in E : Show(el) = <<>>
    PROVE  ShownOf(s) = <<>>
<1>1. Showing(E)
    <2>1. <<>> \in Seq(Displayed)
        OBVIOUS
    <2> QED BY <2>1 DEF Showing
<1>2. \A i \in 1..Len(s) : ShowF(E)[s[i]] = <<>>
    BY DEF ShowF
<1>3. Each(ShowF(E), s) = <<>>
    BY <1>1, <1>2, ShowIsOf, EachEmpty
<1> QED BY <1>1, <1>3, ShowIsOf

\* What is shown of one element.
LEMMA ShownOne ==
    ASSUME NEW E, Showing(E), NEW el \in E
    PROVE  ShownOf(<<el>>) = Show(el) /\ <<el>> \in Seq(E)
<1>1. <<el>> \in Seq(E)
    OBVIOUS
<1>2. Each(ShowF(E), <<el>>) = ShowF(E)[el]
    BY ShowIsOf, <1>1, EachOne
<1> QED BY <1>1, <1>2, ShowIsOf DEF ShowF

\* What a token is.
LEMMA TokenIs ==
    ASSUME NEW tag \in {"variable", "funcname", "type", "syntax", "op"},
           NEW chars \in Seq(Characters), NEW varref \in Nat, NEW opref \in Nat
    PROVE  /\ Token(tag, chars, varref, opref) \in TokenElements
           /\ Token(tag, chars, varref, opref).kind = "token"
           /\ Token(tag, chars, varref, opref).tag = tag
           /\ Token(tag, chars, varref, opref).varref = varref
           /\ Token(tag, chars, varref, opref).opref = opref
           /\ Token(tag, chars, varref, opref).chars = chars
           /\ tag # "type" => Show(Token(tag, chars, varref, opref)) = chars
BY DEF Token, TokenElements, Show

\* Characters are displayed as they are.
LEMMA MoreCharacters == Seq(Characters) \subseteq Seq(Displayed)
<1>1. \A S, T : S \subseteq T => Seq(S) \subseteq Seq(T)
    OBVIOUS
<1>2. Characters \subseteq Displayed
    BY DEF Displayed
<1> QED BY <1>1, <1>2

\* What is shown of markup are characters.
LEMMA MarkupShows == Showing(MarkupElements)
<1>1. ASSUME NEW el \in TokenElements PROVE Show(el) \in Seq(Displayed)
    <2>1. el.kind = "token" /\ el.chars \in Seq(Characters)
        BY DEF TokenElements
    <2> DEFINE c == el.chars
    <2>2. Legal(c) \in Seq(Displayed)
        <3> HIDE DEF c
        <3>1. c \in Seq(Characters) /\ DOMAIN c = 1..Len(c) /\ Len(c) \in Nat
            BY <2>1 DEF c
        <3>2. \A i \in 1..Len(c) : (IF c[i] = "w" THEN "w" ELSE "_") \in Displayed
            BY DEF Displayed, Characters
        <3>3. [i \in 1..Len(c) |-> IF c[i] = "w" THEN "w" ELSE "_"] \in [1..Len(c) -> Displayed]
            BY <3>2
        <3>4. Legal(c) = [i \in 1..Len(c) |-> IF c[i] = "w" THEN "w" ELSE "_"]
            BY <3>1 DEF Legal
        <3>5. \A n \in Nat : [1..n -> Displayed] \subseteq Seq(Displayed)
            OBVIOUS
        <3> QED BY <3>1, <3>3, <3>4, <3>5
    <2>3. c \in Seq(Displayed)
        BY <2>1, MoreCharacters
    <2>4. Show(el) = IF el.tag = "type" THEN Legal(c) ELSE c
        BY <2>1 DEF Show
    <2> QED BY <2>2, <2>3, <2>4
<1>2. ASSUME NEW el \in BreakElements PROVE Show(el) \in Seq(Displayed)
    <2>1. el.kind = "break" /\ el.indent \in Nat
        BY DEF BreakElements
    <2>2. Show(el) = <<"\n">> \o [i \in 1..el.indent |-> "space"]
        BY <2>1 DEF Show
    <2>3. [i \in 1..el.indent |-> "space"] \in Seq(Displayed)
        <3>1. "space" \in Displayed
            BY DEF Displayed, Characters
        <3> DEFINE n == el.indent
        <3> HIDE DEF n
        <3>2. n \in Nat
            BY <2>1 DEF n
        <3>3. [i \in 1..n |-> "space"] \in Seq(Displayed)
            BY <3>1, <3>2
        <3> QED BY <3>3 DEF n
    <2>4. <<"\n">> \in Seq(Displayed)
        BY DEF Displayed, Characters
    <2> QED BY <2>2, <2>3, <2>4, ConcatProperties
<1> QED BY <1>1, <1>2 DEF Showing, MarkupElements

\* The elements that come of a chunk, by its variable's varnode and its operation.
ElementsOf(varref, opref) ==
    {el \in MarkupElements :
        el.kind = "token" =>
            /\ el.varref \in {0, varref} /\ el.opref \in {0, opref}
            /\ el.tag \in {"variable", "funcname", "op"} => el.opref = opref}

\* Nothing is replaced in a word.
LEMMA LegalWords ==
    ASSUME NEW r \in Seq(Characters), \A i \in 1..Len(r) : r[i] = "w"
    PROVE  Legal(r) = r
<1>1. DOMAIN r = 1..Len(r)
    OBVIOUS
<1>2. Legal(r) = [i \in 1..Len(r) |-> r[i]]
    BY <1>1 DEF Legal
<1> QED BY <1>1, <1>2

\* A run of a type name.
RunToken(r) == Token(IF IsWord(r) THEN "type" ELSE "syntax", r, 0, 0)

\* A run of a type name is shown as it is.
LEMMA RunIsShown ==
    ASSUME NEW r \in Runs(Characters)
    PROVE  /\ Show(RunToken(r)) = r
           /\ \A varref, opref \in Nat : RunToken(r) \in ElementsOf(varref, opref)
<1>1. r \in Seq(Characters) /\ Run(r)
    BY DEF Runs
<1> DEFINE tag == IF IsWord(r) THEN "type" ELSE "syntax"
<1>2. tag \in {"type", "syntax"}
    OBVIOUS
<1>3. RunToken(r) = Token(tag, r, 0, 0)
    BY DEF RunToken
<1>4. tag = "type" => \A i \in 1..Len(r) : r[i] = "w"
    BY <1>1 DEF Run
<1> HIDE DEF tag
<1>5. /\ Token(tag, r, 0, 0) \in TokenElements /\ Token(tag, r, 0, 0).tag = tag
      /\ Token(tag, r, 0, 0).kind = "token" /\ Token(tag, r, 0, 0).chars = r
      /\ Token(tag, r, 0, 0).varref = 0 /\ Token(tag, r, 0, 0).opref = 0
      /\ tag # "type" => Show(Token(tag, r, 0, 0)) = r
    BY <1>1, <1>2, TokenIs
<1>6. tag = "type" => Show(Token(tag, r, 0, 0)) = Legal(r)
    BY <1>5 DEF Show
<1>7. Show(RunToken(r)) = r
    BY <1>1, <1>3, <1>4, <1>5, <1>6, LegalWords
<1>8. \A varref, opref \in Nat : RunToken(r) \in ElementsOf(varref, opref)
    BY <1>2, <1>3, <1>5 DEF ElementsOf, MarkupElements
<1> QED BY <1>7, <1>8

\* Sequences of fewer elements.
LEMMA SubsetSeq == \A S, T : S \subseteq T => Seq(S) \subseteq Seq(T)
OBVIOUS

\* The tokens of a type name.
LEMMA TypeIsShown ==
    ASSUME NEW seg \in Seq(Characters), NEW varref \in Nat, NEW opref \in Nat
    PROVE  TypeTokens(seg) \in Seq(ElementsOf(varref, opref)) /\ ShownOf(TypeTokens(seg)) = seg
<1> DEFINE runs == TypeRuns(seg)
           toks == [i \in DOMAIN runs |-> RunToken(runs[i])]
<1>1. runs \in Seq(Runs(Characters)) /\ FlattenSeq(runs) = seg
    BY RunsJoin
<1>2. TypeTokens(seg) = toks
    BY DEF TypeTokens, RunToken
<1> HIDE DEF runs
<1>3. DOMAIN runs = 1..Len(runs) /\ Len(runs) \in Nat
    BY <1>1
<1>4. \A i \in 1..Len(runs) : runs[i] \in Runs(Characters)
    BY <1>1
<1>5. \A i \in 1..Len(runs) : Show(RunToken(runs[i])) = runs[i]
                              /\ RunToken(runs[i]) \in ElementsOf(varref, opref)
    BY <1>4, RunIsShown
<1>6. toks \in Seq(ElementsOf(varref, opref)) /\ DOMAIN toks = 1..Len(runs)
    <2> DEFINE S == ElementsOf(varref, opref)
               tk(i) == RunToken(runs[i])
    <2>1. \A i \in 1..Len(runs) : tk(i) \in S
        BY <1>5
    <2> HIDE DEF S, tk
    <2>2. [i \in 1..Len(runs) |-> tk(i)] \in Seq(S)
        BY <1>3, <2>1
    <2> QED BY <1>3, <2>2 DEF S, tk
<1>7. [i \in DOMAIN toks |-> Show(toks[i])] = runs
    <2>1. \A i \in 1..Len(runs) : toks[i] = RunToken(runs[i])
        BY <1>3
    <2>2. \A i \in 1..Len(runs) : Show(toks[i]) = runs[i]
        BY <1>5, <2>1
    <2> HIDE DEF toks
    <2>3. [i \in DOMAIN toks |-> Show(toks[i])] = [i \in 1..Len(runs) |-> runs[i]]
        BY <1>6, <2>2
    <2>4. runs = [i \in 1..Len(runs) |-> runs[i]]
        BY <1>1
    <2> QED BY <2>3, <2>4
<1> HIDE DEF toks
<1> QED BY <1>1, <1>2, <1>6, <1>7 DEF ShownOf

\* A segment that is one token is shown as it is.
LEMMA OneToken ==
    ASSUME NEW tag \in {"variable", "funcname", "syntax", "op"}, NEW seg \in Seq(Characters),
           NEW v \in Nat, NEW o \in Nat
    PROVE  /\ ShownOf(<<Token(tag, seg, v, o)>>) = seg
           /\ \A varref, opref \in Nat :
                 /\ v \in {0, varref} /\ o \in {0, opref}
                 /\ tag # "syntax" => o = opref
                 => <<Token(tag, seg, v, o)>> \in Seq(ElementsOf(varref, opref))
<1> DEFINE t == Token(tag, seg, v, o)
<1>1. /\ t \in TokenElements /\ t.kind = "token" /\ t.tag = tag /\ t.varref = v /\ t.opref = o
      /\ Show(t) = seg
    BY TokenIs
<1> HIDE DEF t
<1>2. ShownOf(<<t>>) = seg
    <2>1. t \in MarkupElements
        BY <1>1 DEF MarkupElements
    <2> QED BY <1>1, <2>1, MarkupShows, ShownOne
<1>3. ASSUME NEW varref \in Nat, NEW opref \in Nat, v \in {0, varref}, o \in {0, opref},
             tag # "syntax" => o = opref
      PROVE  <<t>> \in Seq(ElementsOf(varref, opref))
    <2>1. t \in ElementsOf(varref, opref)
        BY <1>1, <1>3 DEF ElementsOf, MarkupElements
    <2> QED BY <2>1
<1> QED BY <1>2, <1>3 DEF t

\* What a chunk's varnode and its operation are.
ChunkRefs(k) == Table!VarRef(k) \in Nat /\ OpRef(text[k]) \in Nat /\ text[k] \in Chunks
OfChunk(k)   == ElementsOf(Table!VarRef(k), OpRef(text[k]))

\* A segment is shown as it is, whatever its chunk is.
LEMMA SegmentIsShown ==
    ASSUME NEW k \in 1..NumChunks, ChunkRefs(k), NEW seg \in Seq(Characters)
    PROVE  Tokens(k, seg) \in Seq(OfChunk(k)) /\ ShownOf(Tokens(k, seg)) = seg
<1>1. CASE seg = <<>>
    <2>1. Tokens(k, seg) = <<>> /\ <<>> \in Seq(OfChunk(k))
        BY <1>1 DEF Tokens
    <2>2. ShownOf(<<>>) = <<>>
        <3>1. [i \in DOMAIN <<>> |-> Show(<<>>[i])] = <<>>
            OBVIOUS
        <3> QED BY <3>1, FlattenNone DEF ShownOf
    <2> QED BY <1>1, <2>1, <2>2
<1>2. CASE seg # <<>>
    <2> DEFINE v == Table!VarRef(k)
               o == OpRef(text[k])
               node == text[k].node
    <2>0. Tokens(k, seg) = SegmentTokens(k, seg)
        BY <1>2 DEF Tokens
    <2>1. v \in Nat /\ o \in Nat
        BY DEF ChunkRefs
    <2>2. node \in {"variable", "field", "function", "type", "constant", "other"}
        BY ChunkTypes DEF ChunkRefs
    <2>3. /\ node \in {"variable", "field"} => SegmentTokens(k, seg) = <<Token("variable", seg, v, o)>>
          /\ node = "function" => SegmentTokens(k, seg) = <<Token("funcname", seg, 0, o)>>
          /\ node = "type" => SegmentTokens(k, seg) = TypeTokens(seg)
          /\ node = "constant" => SegmentTokens(k, seg) = <<Token("syntax", seg, 0, 0)>>
          /\ node = "other" => SegmentTokens(k, seg)
                                   = <<Token(IF o # 0 THEN "op" ELSE "syntax", seg, 0, o)>>
        BY DEF SegmentTokens
    <2>4. OfChunk(k) = ElementsOf(v, o)
        BY DEF OfChunk
    <2> HIDE DEF v, o, node
    <2> DEFINE Good(toks) == toks \in Seq(ElementsOf(v, o)) /\ ShownOf(toks) = seg
    <2>5. ASSUME NEW tag \in {"variable", "funcname", "syntax", "op"},
                 NEW w \in {0, v}, NEW p \in {0, o}, tag # "syntax" => p = o
          PROVE  Good(<<Token(tag, seg, w, p)>>)
        <3>1. v \in Nat /\ o \in Nat /\ w \in {0, v} /\ p \in {0, o} /\ (tag # "syntax" => p = o)
            BY <2>1, <2>5
        <3>4. w \in Nat /\ p \in Nat
            BY <3>1
        <3>5. \A varref, opref \in Nat :
                 /\ w \in {0, varref} /\ p \in {0, opref}
                 /\ tag # "syntax" => p = opref
                 => <<Token(tag, seg, w, p)>> \in Seq(ElementsOf(varref, opref))
            BY <3>4, OneToken
        <3>2. <<Token(tag, seg, w, p)>> \in Seq(ElementsOf(v, o))
            BY <3>1, <3>5
        <3>3. ShownOf(<<Token(tag, seg, w, p)>>) = seg
            BY <3>1, OneToken
        <3> QED BY <3>2, <3>3
    <2> HIDE DEF Good
    <2>9. Good(<<Token("variable", seg, v, o)>>)
        BY <2>5
    <2>10. Good(<<Token("funcname", seg, 0, o)>>)
        BY <2>5
    <2>11. Good(<<Token("syntax", seg, 0, 0)>>)
        BY <2>5
    <2>6. Good(TypeTokens(seg))
        BY <2>1, TypeIsShown DEF Good
    <2>7. Good(<<Token(IF o # 0 THEN "op" ELSE "syntax", seg, 0, o)>>)
        <3> DEFINE tag == IF o # 0 THEN "op" ELSE "syntax"
        <3>1. tag \in {"variable", "funcname", "syntax", "op"} /\ (tag # "syntax" => o = o)
            OBVIOUS
        <3> HIDE DEF tag
        <3>2. Good(<<Token(tag, seg, 0, o)>>)
            BY <2>5, <3>1
        <3> QED BY <3>2 DEF tag
    <2>8. Good(SegmentTokens(k, seg))
        BY <2>2, <2>3, <2>6, <2>7, <2>9, <2>10, <2>11
    <2> QED BY <2>0, <2>4, <2>8 DEF Good
<1> QED BY <1>1, <1>2

\* The elements of a chunk are markup.
LEMMA ElementsAreMarkup ==
    ASSUME NEW varref, NEW opref
    PROVE  ElementsOf(varref, opref) \subseteq MarkupElements
           /\ Showing(ElementsOf(varref, opref))
BY MarkupShows DEF ElementsOf, Showing

\* A line is shown as it is, with the line feed before it.
LEMMA LineIsShown ==
    ASSUME NEW k \in 1..NumChunks, ChunkRefs(k), NEW i \in Nat, NEW seg \in Seq(Characters)
    PROVE  /\ LineTokens(k, i, seg) \in Seq(OfChunk(k))
           /\ ShownOf(LineTokens(k, i, seg)) = Line(i, seg)
<1>1. CASE i = 1
    BY <1>1, SegmentIsShown DEF LineTokens, Line
<1>2. CASE i # 1
    <2> DEFINE n == Indent(seg)
               rest == SubSeq(seg, n + 1, Len(seg))
               break == [kind |-> "break", indent |-> n]
               toks == Tokens(k, rest)
    <2>1. n \in Nat /\ rest \in Seq(Characters) /\ Spaces(n) \o rest = seg
        BY IndentSplits, SMTT(30)
    <2>2. LineTokens(k, i, seg) = <<break>> \o toks /\ Line(i, seg) = <<"\n">> \o seg
        BY <1>2 DEF LineTokens, Line
    <2>3. break.kind = "break" /\ break.indent = n /\ (n \in Nat => break \in BreakElements)
        BY DEF BreakElements
    <2> HIDE DEF rest, n, break
    <2>4. toks \in Seq(OfChunk(k)) /\ ShownOf(toks) = rest
        BY <2>1, SegmentIsShown
    <2>5. break \in OfChunk(k)
        BY <2>1, <2>3 DEF OfChunk, ElementsOf, MarkupElements
    <2>6. Show(break) = <<"\n">> \o Spaces(n)
        BY <2>3 DEF Show, Spaces
    <2> HIDE DEF toks
    <2>7. Showing(OfChunk(k))
        BY ElementsAreMarkup DEF OfChunk
    <2>8. <<break>> \in Seq(OfChunk(k)) /\ ShownOf(<<break>>) = Show(break)
        BY <2>5, <2>7, ShownOne
    <2>9. ShownOf(<<break>> \o toks) = (<<"\n">> \o Spaces(n)) \o rest
        BY <2>4, <2>6, <2>7, <2>8, ShownConcat, ZenonT(60)
    <2>10. <<break>> \o toks \in Seq(OfChunk(k))
        BY <2>4, <2>8, ConcatProperties
    <2>11. (<<"\n">> \o Spaces(n)) \o rest = <<"\n">> \o (Spaces(n) \o rest)
        <3>1. \A a, b, c \in Seq(Characters) : (a \o b) \o c = a \o (b \o c)
            BY ConcatAssociative, SMTT(30)
        <3>2. <<"\n">> \in Seq(Characters)
            BY DEF Characters
        <3>3. Spaces(n) \in Seq(Characters)
            <4>1. "space" \in Characters
                BY DEF Characters
            <4> QED BY <2>1, <4>1 DEF Spaces
        <3> QED BY <2>1, <3>1, <3>2, <3>3, Zenon
    <2> QED BY <2>1, <2>2, <2>9, <2>10, <2>11
<1> QED BY <1>1, <1>2

\* A chunk is shown as it is, by elements with its own references.
LEMMA ChunkIsShown ==
    ASSUME NEW k \in 1..NumChunks, ChunkRefs(k)
    PROVE  ChunkTokens(k) \in Seq(OfChunk(k)) /\ ShownOf(ChunkTokens(k)) = text[k].chars
<1> DEFINE chars == text[k].chars
           segs  == Segments(chars)
           lines == [i \in DOMAIN segs |-> LineTokens(k, i, segs[i])]
<1>1. chars \in Seq(Characters)
    BY ChunkTypes DEF ChunkRefs
<1>0. ChunkTokens(k) = FlattenSeq(lines)
    BY DEF ChunkTokens
<1> HIDE DEF chars
<1>2. segs \in Seq(Seq(Characters)) /\ Joined(segs) = chars
    <2>1. "\n" \in Characters
        BY DEF Characters
    <2> QED BY <1>1, <2>1, SegmentsJoin
<1> HIDE DEF segs
<1>3. DOMAIN segs = 1..Len(segs) /\ Len(segs) \in Nat
      /\ \A i \in 1..Len(segs) : segs[i] \in Seq(Characters)
    BY <1>2
<1>4. \A i \in 1..Len(segs) : /\ LineTokens(k, i, segs[i]) \in Seq(OfChunk(k))
                              /\ ShownOf(LineTokens(k, i, segs[i])) = Line(i, segs[i])
    <2> TAKE i \in 1..Len(segs)
    <2>1. i \in Nat
        OBVIOUS
    <2> QED BY <1>3, <2>1, LineIsShown
<1>5. lines \in Seq(Seq(OfChunk(k))) /\ DOMAIN lines = 1..Len(segs)
    <2> DEFINE S == Seq(OfChunk(k))
               line(i) == LineTokens(k, i, segs[i])
    <2>1. \A i \in 1..Len(segs) : line(i) \in S
        BY <1>4
    <2> HIDE DEF S, line
    <2>2. [i \in 1..Len(segs) |-> line(i)] \in Seq(S)
        BY <1>3, <2>1
    <2> QED BY <1>3, <2>2 DEF S, line
<1>6. Showing(OfChunk(k))
    BY ElementsAreMarkup DEF OfChunk
<1>7. \A i \in 1..Len(segs) : ShownOf(lines[i]) = Line(i, segs[i])
    BY <1>3, <1>4
<1> HIDE DEF lines
<1>8. ShownOf(FlattenSeq(lines)) = FlattenSeq([i \in DOMAIN lines |-> ShownOf(lines[i])])
    BY <1>5, <1>6, ShownFlatten
<1>9. [i \in DOMAIN lines |-> ShownOf(lines[i])] = [i \in DOMAIN segs |-> Line(i, segs[i])]
    BY <1>3, <1>5, <1>7
<1>10. FlattenSeq(lines) \in Seq(OfChunk(k))
    BY <1>5, FlattenType
<1> QED BY <1>0, <1>2, <1>8, <1>9, <1>10 DEF Joined, chars

\* The whole markup, with what is known of every element of it.
LEMMA MarkupIsShown ==
    ASSUME \A k \in 1..NumChunks : ChunkRefs(k), NEW E, E \subseteq MarkupElements,
           \A k \in 1..NumChunks : OfChunk(k) \subseteq E
    PROVE  /\ Markup \in Seq(E)
           /\ ShownOf(Markup) = FlattenSeq([k \in 1..NumChunks |-> text[k].chars])
<1> DEFINE parts == [k \in 1..NumChunks |-> ChunkTokens(k)]
<1>1. ASSUME NEW k \in 1..NumChunks
      PROVE  ChunkTokens(k) \in Seq(E) /\ ShownOf(ChunkTokens(k)) = text[k].chars
    <2>1. ChunkTokens(k) \in Seq(OfChunk(k))
        BY ChunkIsShown
    <2>2. OfChunk(k) \subseteq E
        OBVIOUS
    <2>3. Seq(OfChunk(k)) \subseteq Seq(E)
        BY <2>2, SubsetSeq, Zenon
    <2> QED BY <2>1, <2>3, ChunkIsShown
<1>2. parts \in Seq(Seq(E)) /\ DOMAIN parts = 1..NumChunks
    <2> DEFINE S == Seq(E)
               part(k) == ChunkTokens(k)
    <2>1. \A k \in 1..NumChunks : part(k) \in S
        BY <1>1
    <2> HIDE DEF S, part
    <2>2. [k \in 1..NumChunks |-> part(k)] \in Seq(S)
        BY <2>1, TextsAssumption
    <2> QED BY <2>2 DEF S, part
<1>3. Showing(E)
    BY MarkupShows DEF Showing
<1>4. \A k \in 1..NumChunks : ShownOf(parts[k]) = text[k].chars
    BY <1>1
<1>5. Markup = FlattenSeq(parts)
    BY DEF Markup
<1> HIDE DEF parts
<1>6. ShownOf(FlattenSeq(parts)) = FlattenSeq([k \in DOMAIN parts |-> ShownOf(parts[k])])
    BY <1>2, <1>3, ShownFlatten
<1>7. [k \in DOMAIN parts |-> ShownOf(parts[k])] = [k \in 1..NumChunks |-> text[k].chars]
    BY <1>2, <1>4
<1>8. FlattenSeq(parts) \in Seq(E)
    BY <1>2, FlattenType
<1> QED BY <1>5, <1>6, <1>7, <1>8

-----------------------------------------------------------------------------
(* A response that is read once *)

\* The elements of a sequence, by their places.
LEMMA InSet == \A S : \A s \in Seq(S) : \A x : x \in ToSet(s) <=> \E i \in 1..Len(s) : s[i] = x
BY DEF ToSet

\* The elements of two sequences.
LEMMA SetConcat ==
    ASSUME NEW S, NEW a \in Seq(S), NEW b \in Seq(S)
    PROVE  /\ ToSet(a) \subseteq ToSet(a \o b) /\ ToSet(b) \subseteq ToSet(a \o b)
           /\ a \o b \in Seq(S)
<1> DEFINE d == a \o b
<1>1. /\ d \in Seq(S) /\ Len(d) = Len(a) + Len(b) /\ Len(a) \in Nat /\ Len(b) \in Nat
      /\ \A i \in 1..Len(a) : d[i] = a[i]
      /\ \A i \in 1..Len(b) : d[Len(a) + i] = b[i]
    BY ConcatProperties
<1> HIDE DEF d
<1>2. ToSet(d) = {d[i] : i \in 1..Len(d)}
    <2>1. DOMAIN d = 1..Len(d)
        BY <1>1
    <2> QED BY <2>1 DEF ToSet
<1>3. ToSet(a) = {a[i] : i \in 1..Len(a)} /\ ToSet(b) = {b[i] : i \in 1..Len(b)}
    BY DEF ToSet
<1>4. \A i \in 1..Len(a) : i \in 1..Len(d)
    BY <1>1
<1>5. \A i \in 1..Len(b) : Len(a) + i \in 1..Len(d)
    BY <1>1
<1>6. ToSet(a) \subseteq ToSet(d)
    BY <1>1, <1>2, <1>3, <1>4
<1>7. ToSet(b) \subseteq ToSet(d)
    BY <1>1, <1>2, <1>3, <1>5
<1> QED BY <1>1, <1>6, <1>7 DEF d

\* The elements of lists.
LEMMA InFlat ==
    ASSUME NEW S, NEW ss \in Seq(Seq(S)), NEW i \in 1..Len(ss), NEW x \in ToSet(ss[i])
    PROVE  x \in ToSet(FlattenSeq(ss))
<1> PICK g \in [0..Len(ss) -> Seq(S)] :
            /\ g[0] = <<>> /\ \A n \in 1..Len(ss) : g[n] = g[n - 1] \o ss[n]
            /\ FlattenSeq(ss) = g[Len(ss)]
    BY FlattenUnfolds
<1>0. Len(ss) \in Nat
    OBVIOUS
<1> DEFINE T == {n \in Nat : i <= n => x \in ToSet(g[n])}
<1>1. 0 \in T
    OBVIOUS
<1>2. ASSUME NEW n \in 1..Len(ss), n - 1 \in T PROVE n \in T
    <2>0. n - 1 \in 0..Len(ss) /\ n \in Nat
        BY <1>0
    <2>5. g[n - 1] \in Seq(S)
        BY <2>0
    <2>6. ss[n] \in Seq(S)
        OBVIOUS
    <2>1. g[n - 1] \in Seq(S) /\ ss[n] \in Seq(S) /\ g[n] = g[n - 1] \o ss[n] /\ n \in Nat
        BY <2>0, <2>5, <2>6
    <2>2. \A a, b \in Seq(S) : ToSet(a) \cup ToSet(b) \subseteq ToSet(a \o b)
        BY SetConcat
    <2>3. CASE i = n
        BY <2>1, <2>2, <2>3
    <2>4. CASE i # n
        <3>1. i <= n => i <= n - 1
            BY <2>4
        <3> QED BY <1>2, <2>1, <2>2, <3>1
    <2> QED BY <2>3, <2>4
<1> HIDE DEF T
<1>3. Len(ss) \in T
    <2>1. \A n \in 0..Len(ss) : n \in T
        BY <1>0, <1>1, <1>2, Induction
    <2> QED BY <1>0, <2>1
<1> QED BY <1>0, <1>3 DEF T

RefsIn(seen)   == {el.ref : el \in {x \in seen : x.kind = "varnode"}}
BlocksIn(seen) == {el.index : el \in {x \in seen : x.kind = "block"}}

\* What an element refers to is among those that have been seen.
Fine(el, seen, types, syms) ==
    CASE el.kind = "op" -> ToSet(el.inputs) \cup ({el.output} \ {0}) \subseteq RefsIn(seen)
      [] el.kind = "edge" -> {el.to, el.end} \subseteq BlocksIn(seen)
      [] el.kind = "symbol" -> types = {} \/ el.type \in types
      [] el.kind = "high" ->
             /\ types = {} \/ el.type \in types
             /\ \E s \in seen : s.kind = "symbol" /\ s.var = el.symref
             /\ ToSet(el.members) \subseteq RefsIn(seen)
             /\ el.repref \in ToSet(el.members)
      [] el.kind = "token" ->
             /\ el.varref # 0 => \E h \in seen : h.kind = "high" /\ el.varref \in ToSet(h.members)
             /\ el.opref # 0 /\ syms # <<>> =>
                    \E op \in seen : op.kind = "op" /\ op.time = el.opref
      [] OTHER -> TRUE

AllFine(F, seen, types, syms) == \A el \in F : Fine(el, seen, types, syms)

Linked(d, types, syms) ==
    \A i \in 1..Len(d) : Fine(d[i], {d[j] : j \in 1..(i - 1)}, types, syms)

\* What resolves still resolves when more has been read.
LEMMA FineGrows ==
    ASSUME NEW el, NEW seen, NEW more, NEW types, NEW syms,
           seen \subseteq more, Fine(el, seen, types, syms)
    PROVE  Fine(el, more, types, syms)
<1>1. RefsIn(seen) \subseteq RefsIn(more) /\ BlocksIn(seen) \subseteq BlocksIn(more)
    BY DEF RefsIn, BlocksIn
<1> DEFINE k == el.kind
<1>2. CASE k = "op"
    BY <1>1, <1>2 DEF Fine
<1>3. CASE k = "edge"
    BY <1>1, <1>3 DEF Fine
<1>4. CASE k = "symbol"
    BY <1>4 DEF Fine
<1>5. CASE k = "high"
    BY <1>1, <1>5 DEF Fine
<1>6. CASE k = "token"
    BY <1>6 DEF Fine
<1>7. CASE k \notin {"op", "edge", "symbol", "high", "token"}
    BY <1>7 DEF Fine
<1> QED BY <1>2, <1>3, <1>4, <1>5, <1>6, <1>7

\* A part that resolves by what is before it.
LEMMA LinkedConcat ==
    ASSUME NEW E, NEW a \in Seq(E), NEW F, NEW b \in Seq(F), F \subseteq E, NEW types, NEW syms,
           Linked(a, types, syms), AllFine(F, ToSet(a), types, syms)
    PROVE  /\ a \o b \in Seq(E) /\ Linked(a \o b, types, syms)
           /\ ToSet(a) \subseteq ToSet(a \o b) /\ ToSet(b) \subseteq ToSet(a \o b)
<1>1. b \in Seq(E) /\ \A i \in 1..Len(b) : b[i] \in F
    <2>1. Seq(F) \subseteq Seq(E)
        BY SubsetSeq
    <2> QED BY <2>1
<1> DEFINE d == a \o b
<1>2. /\ d \in Seq(E) /\ Len(d) = Len(a) + Len(b) /\ Len(a) \in Nat /\ Len(b) \in Nat
      /\ \A i \in 1..Len(a) : d[i] = a[i]
      /\ \A i \in 1..Len(b) : d[Len(a) + i] = b[i]
    BY <1>1, ConcatProperties
<1> HIDE DEF d
<1>3. ASSUME NEW i \in 1..Len(d) PROVE Fine(d[i], {d[j] : j \in 1..(i - 1)}, types, syms)
    <2>1. CASE i \in 1..Len(a)
        <3>2. \A j \in 1..(i - 1) : d[j] = a[j]
            BY <1>2, <2>1
        <3>1. {d[j] : j \in 1..(i - 1)} = {a[j] : j \in 1..(i - 1)}
            BY <3>2
        <3> QED BY <1>2, <2>1, <3>1 DEF Linked
    <2>2. CASE i \notin 1..Len(a)
        <3>1. i - Len(a) \in 1..Len(b) /\ Len(a) + (i - Len(a)) = i
            BY <1>2, <2>2
        <3>2. d[i] \in F
            BY <1>1, <1>2, <3>1
        <3>3. ToSet(a) \subseteq {d[j] : j \in 1..(i - 1)}
            BY <1>2, <2>2, InSet
        <3> QED BY <3>2, <3>3, FineGrows DEF AllFine
    <2> QED BY <2>1, <2>2
<1>4. ToSet(a) \subseteq ToSet(d) /\ ToSet(b) \subseteq ToSet(d)
    BY <1>1, SetConcat DEF d
<1> QED BY <1>2, <1>3, <1>4 DEF Linked, d

-----------------------------------------------------------------------------
(* What the model consists of *)

SymbolElement(v) == [kind |-> "symbol", var |-> v, type |-> TypeRef(TypeOf(v))]
HighElement(v) ==
    [kind |-> "high", symref |-> v, repref |-> rep[v], type |-> TypeRef(TypeOf(v)),
     members |-> members[v]]
OpElement(t) ==
    [kind |-> "op", time |-> t, address |-> ops[t].address,
     output |-> ops[t].output, inputs |-> ops[t].inputs]
BlockMark(b) == [kind |-> "block", index |-> b]

SymbolElements  == {SymbolElement(v) : v \in ToSet(symbols)}
HighElements    == {HighElement(v) : v \in ToSet(symbols)}
VarnodeElements == {Varnode(r, s) : r \in Nat, s \in Storages}
OpElements      == {OpElement(t) : t \in 1..Len(ops)}
BlockMarks      == {BlockMark(b) : b \in 1..Len(blocks)}
EdgeElements    == [kind : {"edge"}, to : 1..Len(blocks), end : 1..Len(blocks), rev : Nat]
ModelElements   ==
    SymbolElements \cup VarnodeElements \cup BlockMarks \cup OpElements \cup EdgeElements
    \cup HighElements

VarnodeList == [r \in DOMAIN varnodes |-> Varnode(r, varnodes[r])]
RepList     == [i \in DOMAIN symbols |-> Varnode(rep[symbols[i]], slot[symbols[i]])]
BlockList   == FlattenSeq([b \in DOMAIN blocks |-> BlockElement(b)])
EdgeList    == FlattenSeq([b \in DOMAIN blocks |-> BlockEdges(b)])

\* What holds when the response is made.
Ready ==
    /\ LowTypes /\ BlocksShape /\ EdgesShape /\ InputTypes
    /\ lowering # "runs" /\ (lowering = "failed" => lowered = 0)
    /\ TableBuilt /\ AloneIfNotLowered

\* A list of what its places become.
LEMMA ListOf ==
    ASSUME NEW n \in Nat, NEW S, NEW f, f = [i \in 1..n |-> f[i]], \A i \in 1..n : f[i] \in S
    PROVE  /\ f \in Seq(S) /\ Len(f) = n /\ DOMAIN f = 1..n
           /\ \A i \in 1..n : f[i] \in ToSet(f)
<1>1. f \in [1..n -> S]
    OBVIOUS
<1>2. f \in Seq(S) /\ Len(f) = n /\ DOMAIN f = 1..n
    BY <1>1
<1> QED BY <1>2 DEF ToSet

\* The symbols are variables.
LEMMA SymbolsTyped ==
    ASSUME Ready
    PROVE  /\ Len(symbols) \in Nat /\ DOMAIN symbols = 1..Len(symbols)
           /\ \A i \in 1..Len(symbols) : symbols[i] \in AnyVars /\ symbols[i] \in ToSet(symbols)
           /\ \A v \in ToSet(symbols) : \E i \in 1..Len(symbols) : v = symbols[i]
           /\ ToSet(symbols) \subseteq AnyVars
<1>1. symbols \in Seq(AnyVars)
    BY DEF Ready, TableBuilt
<1>2. Len(symbols) \in Nat /\ DOMAIN symbols = 1..Len(symbols)
    BY <1>1
<1> QED BY <1>1, <1>2 DEF ToSet

\* The symbols of a response.
LEMMA SymbolListIs ==
    ASSUME Ready
    PROVE  /\ SymbolList \in Seq(SymbolElements)
           /\ \A v \in ToSet(symbols) : SymbolElement(v) \in ToSet(SymbolList)
<1>1. SymbolList = [i \in 1..Len(symbols) |-> SymbolElement(symbols[i])]
    BY SymbolsTyped DEF SymbolList, SymbolElement
<1>2. \A i \in 1..Len(symbols) : SymbolElement(symbols[i]) \in SymbolElements
    BY SymbolsTyped DEF SymbolElements
<1>3. /\ SymbolList \in Seq(SymbolElements)
      /\ \A i \in 1..Len(symbols) : SymbolList[i] \in ToSet(SymbolList)
    <2>1. \A i \in 1..Len(symbols) : SymbolList[i] \in SymbolElements
        BY <1>1, <1>2
    <2>2. SymbolList = [i \in 1..Len(symbols) |-> SymbolList[i]]
        BY <1>1
    <2> QED BY <2>1, <2>2, SymbolsTyped, ListOf
<1>4. \A i \in 1..Len(symbols) : SymbolElement(symbols[i]) \in ToSet(SymbolList)
    BY <1>1, <1>3
<1> QED BY <1>3, <1>4, SymbolsTyped

\* The high variables of a response.
LEMMA HighListIs ==
    ASSUME Ready
    PROVE  /\ HighList \in Seq(HighElements)
           /\ \A v \in ToSet(symbols) : HighElement(v) \in ToSet(HighList)
<1>1. HighList = [i \in 1..Len(symbols) |-> HighElement(symbols[i])]
    BY SymbolsTyped DEF HighList, HighElement
<1>2. \A i \in 1..Len(symbols) : HighElement(symbols[i]) \in HighElements
    BY SymbolsTyped DEF HighElements
<1>3. /\ HighList \in Seq(HighElements)
      /\ \A i \in 1..Len(symbols) : HighList[i] \in ToSet(HighList)
    <2>1. \A i \in 1..Len(symbols) : HighList[i] \in HighElements
        BY <1>1, <1>2
    <2>2. HighList = [i \in 1..Len(symbols) |-> HighList[i]]
        BY <1>1
    <2> QED BY <2>1, <2>2, SymbolsTyped, ListOf
<1>4. \A i \in 1..Len(symbols) : HighElement(symbols[i]) \in ToSet(HighList)
    BY <1>1, <1>3
<1> QED BY <1>3, <1>4, SymbolsTyped

\* What a varnode element is.
LEMMA VarnodeIs ==
    ASSUME NEW r \in Nat, NEW s \in Storages
    PROVE  /\ Varnode(r, s) \in VarnodeElements
           /\ Varnode(r, s).kind = "varnode" /\ Varnode(r, s).ref = r
BY DEF VarnodeElements, Varnode

\* All varnodes are in a response that has the op graph.
LEMMA VarnodeListIs ==
    ASSUME Ready
    PROVE  /\ VarnodeList \in Seq(VarnodeElements)
           /\ 1..Len(varnodes) \subseteq RefsIn(ToSet(VarnodeList))
<1>1. varnodes \in Seq(Storages) /\ Len(varnodes) \in Nat
    BY OpGraphParts DEF Ready, LowTypes
<1>2. /\ VarnodeList = [r \in 1..Len(varnodes) |-> Varnode(r, varnodes[r])]
      /\ \A r \in 1..Len(varnodes) : varnodes[r] \in Storages /\ r \in Nat
    BY <1>1 DEF VarnodeList
<1>3. \A r \in 1..Len(varnodes) : /\ VarnodeList[r] \in VarnodeElements
                                  /\ VarnodeList[r].kind = "varnode" /\ VarnodeList[r].ref = r
    BY <1>2, VarnodeIs
<1>4. /\ VarnodeList \in Seq(VarnodeElements)
      /\ \A r \in 1..Len(varnodes) : VarnodeList[r] \in ToSet(VarnodeList)
    <2>1. VarnodeList = [r \in 1..Len(varnodes) |-> VarnodeList[r]]
        BY <1>2
    <2> QED BY <1>1, <1>3, <2>1, ListOf
<1> QED BY <1>3, <1>4 DEF RefsIn

\* The representatives are in a response that has not.
LEMMA RepListIs ==
    ASSUME Ready
    PROVE  /\ RepList \in Seq(VarnodeElements)
           /\ \A v \in ToSet(symbols) : rep[v] \in RefsIn(ToSet(RepList))
<1>1. /\ RepList = [i \in 1..Len(symbols) |-> Varnode(rep[symbols[i]], slot[symbols[i]])]
      /\ \A i \in 1..Len(symbols) : rep[symbols[i]] \in Nat /\ slot[symbols[i]] \in Storages
    <2>1. rep \in [AnyVars -> 0..Len(varnodes)] /\ slot \in [AnyVars -> Storages]
        BY DEF Ready, TableBuilt, InputTypes
    <2>2. \A r \in 0..Len(varnodes) : r \in Nat
        OBVIOUS
    <2> QED BY <2>1, <2>2, SymbolsTyped DEF RepList
<1>2. \A i \in 1..Len(symbols) : /\ RepList[i] \in VarnodeElements
                                 /\ RepList[i].kind = "varnode" /\ RepList[i].ref = rep[symbols[i]]
    BY <1>1, VarnodeIs
<1>3. /\ RepList \in Seq(VarnodeElements)
      /\ \A i \in 1..Len(symbols) : RepList[i] \in ToSet(RepList)
    <2>1. RepList = [i \in 1..Len(symbols) |-> RepList[i]]
        BY <1>1
    <2> QED BY <1>2, <2>1, SymbolsTyped, ListOf
<1>4. \A i \in 1..Len(symbols) : rep[symbols[i]] \in RefsIn(ToSet(RepList))
    BY <1>2, <1>3 DEF RefsIn
<1> QED BY <1>3, <1>4, SymbolsTyped

\* The time up to which the first blocks go.
LastOf(b) == IF b = 0 THEN 0 ELSE blocks[b].last

\* The times of a block follow those of the block before.
LEMMA BlockTimes ==
    ASSUME LowTypes, BlocksShape
    PROVE  /\ Len(blocks) \in Nat /\ Len(ops) \in Nat /\ LastOf(Len(blocks)) = Len(ops)
           /\ \A b \in 0..Len(blocks) : LastOf(b) \in Nat
           /\ \A b \in 1..Len(blocks) : /\ blocks[b].first = LastOf(b - 1) + 1
                                        /\ blocks[b].last = LastOf(b)
                                        /\ LastOf(b - 1) <= LastOf(b)
<1>1. Len(blocks) \in Nat /\ Len(ops) \in Nat
    BY OpGraphParts DEF LowTypes
<1>2. \A b \in 1..Len(blocks) : blocks[b] \in BlockRecords
    BY DEF LowTypes
<1>3. \A b \in 1..Len(blocks) : blocks[b].last \in Nat /\ blocks[b].first \in Nat
    BY <1>2 DEF BlockRecords
<1>4. \A b \in 0..Len(blocks) : LastOf(b) \in Nat
    BY <1>1, <1>3 DEF LastOf
<1>5. LastOf(Len(blocks)) = Len(ops)
    BY <1>1 DEF LastOf, BlocksShape
<1>6. ASSUME NEW b \in 1..Len(blocks)
      PROVE  /\ blocks[b].first = LastOf(b - 1) + 1 /\ blocks[b].last = LastOf(b)
             /\ LastOf(b - 1) <= LastOf(b)
    <2>1. blocks[b].first = LastOf(b - 1) + 1
        BY DEF BlocksShape, LastOf
    <2>2. blocks[b].last = LastOf(b)
        BY DEF LastOf
    <2>3. b - 1 \in 0..Len(blocks) /\ b \in 0..Len(blocks)
        BY <1>1
    <2>4. blocks[b].first <= blocks[b].last + 1
        BY DEF BlocksShape
    <2> QED BY <1>4, <2>1, <2>2, <2>3, <2>4
<1> QED BY <1>1, <1>4, <1>5, <1>6

\* The times of a block are those of operations.
LEMMA TimesWithin ==
    ASSUME LowTypes, BlocksShape, NEW b \in 0..Len(blocks)
    PROVE  LastOf(b) <= Len(ops)
<1>1. Len(blocks) \in Nat
    BY BlockTimes
<1> DEFINE T == {j \in Nat : j <= Len(blocks) => LastOf(Len(blocks) - j) <= Len(ops)}
<1>2. 0 \in T
    BY BlockTimes
<1>3. ASSUME NEW j \in 1..Len(blocks), j - 1 \in T PROVE j \in T
    <2> DEFINE c == Len(blocks) - j + 1
    <2>1. c \in 1..Len(blocks) /\ c - 1 = Len(blocks) - j /\ c = Len(blocks) - (j - 1)
        BY <1>1
    <2>2. LastOf(c) <= Len(ops)
        BY <1>1, <1>3, <2>1
    <2> HIDE DEF c
    <2>3. LastOf(c - 1) <= LastOf(c) /\ LastOf(c - 1) \in Nat /\ LastOf(c) \in Nat /\ Len(ops) \in Nat
        <3>1. c - 1 \in 0..Len(blocks) /\ c \in 0..Len(blocks)
            BY <1>1, <2>1
        <3> QED BY <2>1, <3>1, BlockTimes
    <2> QED BY <2>1, <2>2, <2>3
<1> HIDE DEF T
<1>4. \A j \in 0..Len(blocks) : j \in T
    BY <1>1, <1>2, <1>3, Induction
<1>5. Len(blocks) - b \in 0..Len(blocks) /\ Len(blocks) - (Len(blocks) - b) = b
    BY <1>1
<1> QED BY <1>4, <1>5 DEF T

\* Every time is one of a block.
LEMMA TimeHasBlock ==
    ASSUME LowTypes, BlocksShape, NEW t \in 1..Len(ops)
    PROVE  \E b \in 1..Len(blocks) : LastOf(b - 1) < t /\ t <= LastOf(b)
<1> DEFINE T == {b \in 0..Len(blocks) : t <= LastOf(b)}
<1>1. Len(blocks) \in T
    BY BlockTimes
<1>2. T \subseteq Nat
    OBVIOUS
<1> HIDE DEF T
<1> PICK b \in T : \A c \in T : b <= c
    BY <1>1, <1>2, LeastElement
<1>3. b \in 0..Len(blocks) /\ t <= LastOf(b)
    BY DEF T
<1>4. b # 0
    BY <1>3 DEF LastOf
<1>5. b \in 1..Len(blocks) /\ b - 1 \in 0..Len(blocks) /\ b - 1 < b
    BY <1>3, <1>4
<1>6. b - 1 \notin T
    BY <1>2, <1>5
<1>7. LastOf(b - 1) < t
    <2>1. LastOf(b - 1) \in Nat
        BY <1>5, BlockTimes
    <2> QED BY <1>5, <1>6, <2>1 DEF T
<1> QED BY <1>3, <1>5, <1>7

\* The operations of a block.
OpsOf(b) == [k \in 1..(LastOf(b) - LastOf(b - 1)) |-> OpElement(LastOf(b - 1) + k)]

\* A block element and its operations.
LEMMA OpsOfBlock ==
    ASSUME LowTypes, BlocksShape, NEW b \in 1..Len(blocks)
    PROVE  /\ BlockElement(b) = <<BlockMark(b)>> \o OpsOf(b)
           /\ OpsOf(b) \in Seq(OpElements) /\ Len(OpsOf(b)) = LastOf(b) - LastOf(b - 1)
           /\ \A t \in (LastOf(b - 1) + 1)..LastOf(b) : OpElement(t) \in ToSet(OpsOf(b))
<1> DEFINE m == LastOf(b - 1)
           n == LastOf(b)
<1>1. m \in Nat /\ n \in Nat /\ m <= n /\ n <= Len(ops) /\ Len(ops) \in Nat
    <2>1. b - 1 \in 0..Len(blocks) /\ b \in 0..Len(blocks)
        BY BlockTimes
    <2> QED BY <2>1, BlockTimes, TimesWithin
<1>2. blocks[b].first = m + 1 /\ blocks[b].last = n
    BY BlockTimes
<1>0. OpsOf(b) = [k \in 1..(n - m) |-> OpElement(m + k)]
    BY DEF OpsOf
<1> HIDE DEF m, n
<1>3. BlockElement(b) = <<BlockMark(b)>> \o OpsOf(b)
    <2> DEFINE El(t) == [kind |-> "op", time |-> t, address |-> ops[t].address,
                         output |-> ops[t].output, inputs |-> ops[t].inputs]
    <2>1. BlockElement(b) = <<[kind |-> "block", index |-> b]>> \o
              [k \in 1..(blocks[b].last - blocks[b].first + 1) |-> El(blocks[b].first + k - 1)]
        BY DEF BlockElement
    <2>2. \A t : El(t) = OpElement(t)
        BY DEF OpElement
    <2> HIDE DEF El
    <2>3. blocks[b].last - blocks[b].first + 1 = n - m
        BY <1>1, <1>2
    <2>4. \A k \in 1..(n - m) : blocks[b].first + k - 1 = m + k
        BY <1>1, <1>2
    <2>5. [k \in 1..(n - m) |-> El(blocks[b].first + k - 1)] = OpsOf(b)
        BY <1>0, <2>2, <2>4
    <2> QED BY <2>1, <2>3, <2>5 DEF BlockMark
<1>4. \A k \in 1..(n - m) : OpsOf(b)[k] = OpElement(m + k) /\ m + k \in 1..Len(ops)
    BY <1>0, <1>1
<1>5. \A k \in 1..(n - m) : OpsOf(b)[k] \in OpElements
    BY <1>4 DEF OpElements
<1>6. /\ OpsOf(b) \in Seq(OpElements) /\ Len(OpsOf(b)) = n - m
      /\ \A k \in 1..(n - m) : OpsOf(b)[k] \in ToSet(OpsOf(b))
    <2>1. OpsOf(b) = [k \in 1..(n - m) |-> OpsOf(b)[k]] /\ n - m \in Nat
        BY <1>0, <1>1
    <2> DEFINE f == OpsOf(b)
               d == n - m
    <2> HIDE DEF f, d
    <2>2. f \in Seq(OpElements) /\ Len(f) = d /\ \A k \in 1..d : f[k] \in ToSet(f)
        BY <1>5, <2>1, ListOf DEF f, d
    <2> QED BY <2>2 DEF f, d
<1>7. ASSUME NEW t \in (m + 1)..n PROVE OpElement(t) \in ToSet(OpsOf(b))
    <2>1. t - m \in 1..(n - m) /\ m + (t - m) = t
        BY <1>1
    <2> QED BY <1>4, <1>6, <2>1
<1> QED BY <1>3, <1>6, <1>7 DEF m, n

\* All blocks and all operations are in the list of blocks.
LEMMA BlockListIs ==
    ASSUME Ready
    PROVE  /\ BlockList \in Seq(BlockMarks \cup OpElements)
           /\ \A b \in 1..Len(blocks) : BlockMark(b) \in ToSet(BlockList)
           /\ \A t \in 1..Len(ops) : OpElement(t) \in ToSet(BlockList)
<1> DEFINE E == BlockMarks \cup OpElements
           parts == [b \in DOMAIN blocks |-> BlockElement(b)]
<1>0. LowTypes /\ BlocksShape /\ Len(blocks) \in Nat /\ blocks \in Seq(BlockRecords)
    BY BlockTimes DEF Ready, LowTypes
<1>1. ASSUME NEW b \in 1..Len(blocks)
      PROVE  /\ BlockElement(b) \in Seq(E) /\ BlockMark(b) \in ToSet(BlockElement(b))
             /\ ToSet(OpsOf(b)) \subseteq ToSet(BlockElement(b))
    <2>1. BlockMark(b) \in E
        BY DEF BlockMarks
    <2>2. OpsOf(b) \in Seq(E)
        <3>1. Seq(OpElements) \subseteq Seq(E)
            BY SubsetSeq
        <3> QED BY <1>0, <3>1, OpsOfBlock
    <2> HIDE DEF E
    <2>3. <<BlockMark(b)>> \in Seq(E)
        BY <2>1
    <2>4. BlockMark(b) \in ToSet(<<BlockMark(b)>>)
        BY DEF ToSet
    <2>5. BlockElement(b) = <<BlockMark(b)>> \o OpsOf(b)
        BY <1>0, OpsOfBlock
    <2> QED BY <2>2, <2>3, <2>4, <2>5, SetConcat
<1>2. DOMAIN blocks = 1..Len(blocks)
    BY <1>0
<1> HIDE DEF E
<1>3. /\ parts \in Seq(Seq(E)) /\ Len(parts) = Len(blocks)
      /\ \A b \in 1..Len(blocks) : parts[b] = BlockElement(b)
    <2> DEFINE S == Seq(E)
    <2>1. \A b \in 1..Len(blocks) : parts[b] = BlockElement(b) /\ parts[b] \in S
        BY <1>1, <1>2
    <2>2. parts = [b \in 1..Len(blocks) |-> parts[b]]
        BY <1>2
    <2> HIDE DEF S, parts
    <2>3. parts \in Seq(S) /\ Len(parts) = Len(blocks)
        BY <1>0, <2>1, <2>2, ListOf
    <2> QED BY <2>1, <2>3 DEF S
<1>4. BlockList = FlattenSeq(parts)
    BY DEF BlockList
<1> HIDE DEF parts
<1>5. \A b \in 1..Len(blocks) : ToSet(BlockElement(b)) \subseteq ToSet(BlockList)
    BY <1>3, <1>4, InFlat
<1>6. \A t \in 1..Len(ops) : OpElement(t) \in ToSet(BlockList)
    <2> TAKE t \in 1..Len(ops)
    <2> PICK b \in 1..Len(blocks) : LastOf(b - 1) < t /\ t <= LastOf(b)
        BY <1>0, TimeHasBlock
    <2>1. t \in (LastOf(b - 1) + 1)..LastOf(b)
        <3>1. b - 1 \in 0..Len(blocks) /\ b \in 0..Len(blocks)
            BY <1>0
        <3>2. LastOf(b - 1) \in Nat /\ LastOf(b) \in Nat
            BY <1>0, <3>1, BlockTimes
        <3> QED BY <3>2
    <2>2. OpElement(t) \in ToSet(OpsOf(b))
        BY <1>0, <2>1, OpsOfBlock
    <2> QED BY <1>1, <1>5, <2>2
<1>7. BlockList \in Seq(E)
    BY <1>3, <1>4, FlattenType
<1> QED BY <1>1, <1>5, <1>6, <1>7 DEF E

\* The edges of a response lead from blocks to blocks.
LEMMA EdgeListIs ==
    ASSUME Ready
    PROVE  EdgeList \in Seq(EdgeElements)
<1> DEFINE parts == [b \in DOMAIN blocks |-> BlockEdges(b)]
           E == EdgeElements
<1>0. LowTypes /\ EdgesShape /\ blocks \in Seq(BlockRecords) /\ Len(blocks) \in Nat
    BY InsType DEF Ready, LowTypes
<1>1. ASSUME NEW b \in 1..Len(blocks) PROVE BlockEdges(b) \in Seq(E)
    <2> DEFINE in == blocks[b].in
    <2>1. in \in Seq(Nat \X Nat) /\ in = Ins[b] /\ Len(Ins) = Len(blocks)
        BY <1>0, InsType
    <2>2. BlockEdges(b) = [k \in DOMAIN in |->
              [kind |-> "edge", to |-> b, end |-> in[k][1], rev |-> in[k][2]]]
        BY DEF BlockEdges
    <2> HIDE DEF in
    <2>3. DOMAIN in = 1..Len(in) /\ Len(in) \in Nat /\ \A k \in 1..Len(in) : in[k] \in Nat \X Nat
        BY <2>1
    <2>4. ASSUME NEW k \in 1..Len(in) PROVE in[k][1] \in 1..Len(blocks) /\ in[k][2] \in Nat
        <3> PICK n \in 1..edges : in[k] = InEdge(ail, n)
            BY <1>0, <2>1 DEF EdgesShape, OnlyEdges
        <3>1. n \in 1..Len(ail.edges)
            <4>1. Len(ail.edges) \in Nat /\ edges \in 0..Len(ail.edges)
                BY <1>0, AilParts DEF LowTypes
            <4> QED BY <4>1
        <3>2. ail.edges[n][1] \in 1..Len(ail.blocks)
            BY <1>0, <3>1, EdgeEnds
        <3>3. in[k][1] = ail.edges[n][1]
            BY DEF InEdge
        <3>4. Len(blocks) = Len(ail.blocks)
            BY <1>0 DEF EdgesShape, LowTypes
        <3> QED BY <2>3, <3>2, <3>3, <3>4
    <2>5. \A k \in 1..Len(in) : [kind |-> "edge", to |-> b, end |-> in[k][1], rev |-> in[k][2]] \in E
        BY <2>4 DEF EdgeElements
    <2> DEFINE el(k) == [kind |-> "edge", to |-> b, end |-> in[k][1], rev |-> in[k][2]]
    <2>6. \A k \in 1..Len(in) : el(k) \in E
        BY <2>5
    <2>7. BlockEdges(b) = [k \in 1..Len(in) |-> el(k)]
        BY <2>2, <2>3
    <2> HIDE DEF el, E
    <2> QED BY <2>3, <2>6, <2>7
<1>2. DOMAIN blocks = 1..Len(blocks)
    BY <1>0
<1> HIDE DEF E
<1>3. parts \in Seq(Seq(E))
    <2> DEFINE S == Seq(E)
    <2>1. \A b \in 1..Len(blocks) : parts[b] \in S
        BY <1>1, <1>2
    <2>2. parts = [b \in 1..Len(blocks) |-> parts[b]]
        BY <1>2
    <2> HIDE DEF S, parts
    <2>3. parts \in Seq(S)
        BY <1>0, <2>1, <2>2, ListOf
    <2> QED BY <2>3 DEF S
<1> QED BY <1>3, FlattenType DEF EdgeList, E

-----------------------------------------------------------------------------
(* Every reference of a response resolves *)

\* OpRef is the time of an operation at the address, where there is one.
LEMMA OpRefIs ==
    ASSUME Ready, NEW c \in Chunks
    PROVE  /\ OpRef(c) \in Nat
           /\ OpRef(c) # 0 => /\ HasTranslator /\ OpRef(c) \in 1..Len(ops)
                              /\ ops[OpRef(c)].address = c.address
           /\ OpRef(c) = 0 /\ HasTranslator /\ c.address # 0 =>
                  \A t \in 1..Len(ops) : ops[t].address # c.address
<1> DEFINE there == {t \in DOMAIN ops : c.address # 0 /\ ops[t].address = c.address}
<1>1. DOMAIN ops = 1..Len(ops) /\ Len(ops) \in Nat
    BY OpGraphParts DEF Ready, LowTypes
<1>2. OpRef(c) = IF HasTranslator /\ there # {}
                 THEN CHOOSE t \in there : \A u \in there : t <= u ELSE 0
    BY DEF OpRef
<1>3. there \subseteq Nat /\ \A t \in there : t \in 1..Len(ops) /\ ops[t].address = c.address
    BY <1>1
<1>4. \A t \in 1..Len(ops) : c.address # 0 /\ ops[t].address = c.address => t \in there
    BY <1>1
<1> HIDE DEF there
<1>5. CASE HasTranslator /\ there # {}
    <2>1. \E t \in there : \A u \in there : t <= u
        BY <1>3, <1>5, LeastElement
    <2>2. OpRef(c) \in there
        BY <1>2, <1>5, <2>1
    <2>3. OpRef(c) \in 1..Len(ops) /\ ops[OpRef(c)].address = c.address
        BY <1>3, <2>2
    <2>4. OpRef(c) \in Nat /\ OpRef(c) # 0
        BY <1>1, <2>3
    <2> QED BY <1>5, <2>3, <2>4
<1>6. CASE ~(HasTranslator /\ there # {})
    BY <1>2, <1>4, <1>6
<1> QED BY <1>5, <1>6

\* The references of a chunk.
LEMMA RefsOfChunks ==
    ASSUME Ready, NEW k \in 1..NumChunks
    PROVE  ChunkRefs(k)
<1>1. text[k] \in Chunks
    BY DEF Ready, InputTypes
<1>2. Table!VarRef(k) \in 0..Len(varnodes)
    BY DEF Ready, TableBuilt
<1>3. \A r \in 0..Len(varnodes) : r \in Nat
    OBVIOUS
<1> QED BY <1>1, <1>2, <1>3, OpRefIs DEF ChunkRefs

\* _typeref returns a type that is registered, if any is.
LEMMA TypeIsRegistered == \A name : core = {} \/ TypeRef(name) \in core
BY DEF TypeRef

\* Symbols have registered types.
LEMMA SymbolsFine ==
    ASSUME NEW seen
    PROVE  AllFine(SymbolElements, seen, core, symbols)
<1>1. \A v : SymbolElement(v).kind = "symbol" /\ SymbolElement(v).type = TypeRef(TypeOf(v))
    BY DEF SymbolElement
<1>2. \A v : Fine(SymbolElement(v), seen, core, symbols)
    BY <1>1, TypeIsRegistered DEF Fine
<1> QED BY <1>2 DEF AllFine, SymbolElements

\* Varnodes refer to nothing.
LEMMA VarnodesFine ==
    ASSUME NEW seen
    PROVE  AllFine(VarnodeElements, seen, core, symbols)
<1>1. \A r, s : Varnode(r, s).kind = "varnode"
    BY DEF Varnode
<1>2. \A r, s : Fine(Varnode(r, s), seen, core, symbols)
    BY <1>1 DEF Fine
<1> QED BY <1>2 DEF AllFine, VarnodeElements

\* Operations refer to varnodes.
LEMMA OpsFine ==
    ASSUME Ready, NEW seen, 1..Len(varnodes) \subseteq RefsIn(seen)
    PROVE  AllFine(BlockMarks \cup OpElements, seen, core, symbols)
<1>1. \A b : Fine(BlockMark(b), seen, core, symbols)
    <2>1. \A b : BlockMark(b).kind = "block"
        BY DEF BlockMark
    <2> QED BY <2>1 DEF Fine
<1>2. ASSUME NEW t \in 1..Len(ops) PROVE Fine(OpElement(t), seen, core, symbols)
    <2> DEFINE el == OpElement(t)
               R == 1..Len(varnodes)
    <2>1. el.kind = "op" /\ el.output = ops[t].output /\ el.inputs = ops[t].inputs
        BY DEF OpElement
    <2>2. /\ ops[t].output \in 0..Len(varnodes) /\ ops[t].inputs \in Seq(R)
          /\ Len(varnodes) \in Nat
        BY OpGraphParts DEF Ready, LowTypes
    <2>3. {el.output} \ {0} \subseteq R
        BY <2>1, <2>2
    <2>4. ToSet(el.inputs) \subseteq R
        <3> HIDE DEF R, el
        <3>1. \A s \in Seq(R) : ToSet(s) \subseteq R
            BY DEF ToSet
        <3> QED BY <2>1, <2>2, <3>1
    <2> HIDE DEF el
    <2>5. Fine(el, seen, core, symbols)
              = (ToSet(el.inputs) \cup ({el.output} \ {0}) \subseteq RefsIn(seen))
        BY <2>1 DEF Fine
    <2>6. ToSet(el.inputs) \cup ({el.output} \ {0}) \subseteq RefsIn(seen)
        BY <2>3, <2>4
    <2> QED BY <2>5, <2>6 DEF el
<1> QED BY <1>1, <1>2 DEF AllFine, BlockMarks, OpElements

\* Edges refer to blocks.
LEMMA EdgesFine ==
    ASSUME NEW seen, 1..Len(blocks) \subseteq BlocksIn(seen)
    PROVE  AllFine(EdgeElements, seen, core, symbols)
<1>1. ASSUME NEW el \in EdgeElements PROVE Fine(el, seen, core, symbols)
    <2>1. el.kind = "edge" /\ el.to \in 1..Len(blocks) /\ el.end \in 1..Len(blocks)
        BY DEF EdgeElements
    <2> QED BY <2>1 DEF Fine
<1> QED BY <1>1 DEF AllFine

\* The varnodes of the variables, without a translator their representatives.
Instances == UNION {ToSet(members[v]) : v \in ToSet(symbols)}

\* High variables refer to symbols and to varnodes.
LEMMA HighFine ==
    ASSUME Ready, NEW seen, Instances \subseteq RefsIn(seen),
           \A v \in ToSet(symbols) : SymbolElement(v) \in seen
    PROVE  AllFine(HighElements, seen, core, symbols)
<1>1. ASSUME NEW v \in ToSet(symbols) PROVE Fine(HighElement(v), seen, core, symbols)
    <2> DEFINE el == HighElement(v)
    <2>1. /\ el.kind = "high" /\ el.type = TypeRef(TypeOf(v)) /\ el.symref = v
          /\ el.members = members[v] /\ el.repref = rep[v]
        BY DEF HighElement
    <2>2. rep[v] \in ToSet(members[v])
        BY SymbolsTyped DEF Ready, TableBuilt
    <2>3. ToSet(members[v]) \subseteq RefsIn(seen)
        BY DEF Instances
    <2>4. SymbolElement(v).kind = "symbol" /\ SymbolElement(v).var = v
        BY DEF SymbolElement
    <2> HIDE DEF el
    <2>5. core = {} \/ el.type \in core
        BY <2>1, TypeIsRegistered
    <2>6. \E s \in seen : s.kind = "symbol" /\ s.var = el.symref
        BY <2>1, <2>4
    <2>7. ToSet(el.members) \subseteq RefsIn(seen) /\ el.repref \in ToSet(el.members)
        BY <2>1, <2>2, <2>3
    <2>8. Fine(el, seen, core, symbols)
              = (/\ core = {} \/ el.type \in core
                 /\ \E s \in seen : s.kind = "symbol" /\ s.var = el.symref
                 /\ ToSet(el.members) \subseteq RefsIn(seen)
                 /\ el.repref \in ToSet(el.members))
        BY <2>1 DEF Fine
    <2> QED BY <2>5, <2>6, <2>7, <2>8 DEF el
<1> QED BY <1>1 DEF AllFine, HighElements

\* Elements of the markup as they come of a chunk.
FromChunks == UNION {OfChunk(k) : k \in 1..NumChunks}

\* Tokens refer to instances of high variables and to operations.
LEMMA MarkupFine ==
    ASSUME Ready, NEW seen,
           symbols # <<>> => \A v \in ToSet(symbols) : HighElement(v) \in seen,
           symbols # <<>> /\ HasTranslator => \A t \in 1..Len(ops) : OpElement(t) \in seen
    PROVE  AllFine(FromChunks, seen, core, symbols)
<1>1. ASSUME NEW k \in 1..NumChunks, NEW el \in OfChunk(k)
      PROVE  Fine(el, seen, core, symbols)
    <2> DEFINE v == text[k].var
               ref == Table!VarRef(k)
               o == OpRef(text[k])
    <2>0. el \in MarkupElements /\ (el.kind = "token" => el.varref \in {0, ref} /\ el.opref \in {0, o})
        BY DEF OfChunk, ElementsOf
    <2>1. el.kind \in {"token", "break"}
        BY <2>0 DEF MarkupElements, TokenElements, BreakElements
    <2>2. ref # 0 => v \in ToSet(symbols) /\ ref \in ToSet(members[v])
        BY DEF Ready, TableBuilt
    <2>3. o # 0 => HasTranslator /\ o \in 1..Len(ops)
        BY OpRefIs DEF Ready, InputTypes
    <2> HIDE DEF v, ref, o
    <2>4. el.kind = "token" /\ el.varref # 0 =>
              \E h \in seen : h.kind = "high" /\ el.varref \in ToSet(h.members)
        <3> SUFFICES ASSUME el.kind = "token", el.varref # 0
                     PROVE  \E h \in seen : h.kind = "high" /\ el.varref \in ToSet(h.members)
            OBVIOUS
        <3>1. el.varref = ref /\ v \in ToSet(symbols) /\ ref \in ToSet(members[v])
            BY <2>0, <2>2
        <3>2. symbols # <<>>
            BY <3>1 DEF ToSet
        <3>3. HighElement(v).kind = "high" /\ HighElement(v).members = members[v]
            BY DEF HighElement
        <3>4. HighElement(v) \in seen
            BY <3>1, <3>2
        <3> QED BY <3>1, <3>3, <3>4
    <2>5. el.kind = "token" /\ el.opref # 0 /\ symbols # <<>> =>
              \E op \in seen : op.kind = "op" /\ op.time = el.opref
        <3>1. \A t : OpElement(t).kind = "op" /\ OpElement(t).time = t
            BY DEF OpElement
        <3> QED BY <2>0, <2>3, <3>1
    <2>6. CASE el.kind = "token"
        BY <2>4, <2>5, <2>6 DEF Fine
    <2>7. CASE el.kind = "break"
        BY <2>7 DEF Fine
    <2> QED BY <2>1, <2>6, <2>7
<1> QED BY <1>1 DEF AllFine, FromChunks

\* In an empty response everything resolves.
LEMMA NothingLinked == \A types, syms : Linked(<<>>, types, syms)
BY DEF Linked

\* The symbols come first.
LEMMA SymbolsLinked ==
    ASSUME Ready
    PROVE  SymbolList \in Seq(ModelElements) /\ Linked(SymbolList, core, symbols)
<1>1. SymbolElements \subseteq ModelElements
    BY DEF ModelElements
<1>2. SymbolList \in Seq(SymbolElements) /\ <<>> \in Seq(ModelElements)
    BY SymbolListIs
<1>3. AllFine(SymbolElements, ToSet(<<>>), core, symbols)
    BY SymbolsFine
<1>4. /\ <<>> \o SymbolList \in Seq(ModelElements)
      /\ Linked(<<>> \o SymbolList, core, symbols)
    BY <1>1, <1>2, <1>3, NothingLinked, LinkedConcat
<1>5. <<>> \o SymbolList = SymbolList
    BY <1>2, ConcatEmptySeq
<1> QED BY <1>4, <1>5

\* More elements, more varnodes and blocks.
LEMMA RefsGrow ==
    ASSUME NEW a, NEW b, a \subseteq b
    PROVE  RefsIn(a) \subseteq RefsIn(b) /\ BlocksIn(a) \subseteq BlocksIn(b)
BY DEF RefsIn, BlocksIn

\* With a translator: all varnodes, then all blocks with their operations, then
\* all edges.
LEMMA GraphLinked ==
    ASSUME Ready, HasTranslator
    PROVE  /\ SymbolList \o Ast \in Seq(ModelElements)
           /\ Linked(SymbolList \o Ast, core, symbols)
           /\ ToSet(SymbolList) \subseteq ToSet(SymbolList \o Ast)
           /\ 1..Len(varnodes) \subseteq RefsIn(ToSet(SymbolList \o Ast))
           /\ \A t \in 1..Len(ops) : OpElement(t) \in ToSet(SymbolList \o Ast)
<1> DEFINE E  == ModelElements
           a1 == SymbolList
           a2 == a1 \o VarnodeList
           a3 == a2 \o BlockList
           a4 == a3 \o EdgeList
<1>1. a1 \in Seq(E) /\ Linked(a1, core, symbols)
    BY SymbolsLinked
<1>2. VarnodeElements \subseteq E /\ BlockMarks \cup OpElements \subseteq E /\ EdgeElements \subseteq E
    BY DEF ModelElements
<1>3. /\ VarnodeList \in Seq(VarnodeElements) /\ BlockList \in Seq(BlockMarks \cup OpElements)
      /\ EdgeList \in Seq(EdgeElements)
    BY VarnodeListIs, BlockListIs, EdgeListIs
<1> HIDE DEF E, a1
<1>4. /\ a2 \in Seq(E) /\ Linked(a2, core, symbols)
      /\ ToSet(a1) \subseteq ToSet(a2) /\ ToSet(VarnodeList) \subseteq ToSet(a2)
    <2>1. AllFine(VarnodeElements, ToSet(a1), core, symbols)
        BY VarnodesFine
    <2> QED BY <1>1, <1>2, <1>3, <2>1, LinkedConcat
<1> HIDE DEF a2
<1>5. 1..Len(varnodes) \subseteq RefsIn(ToSet(a2))
    BY <1>4, VarnodeListIs, RefsGrow
<1>6. /\ a3 \in Seq(E) /\ Linked(a3, core, symbols)
      /\ ToSet(a2) \subseteq ToSet(a3) /\ ToSet(BlockList) \subseteq ToSet(a3)
    <2>1. AllFine(BlockMarks \cup OpElements, ToSet(a2), core, symbols)
        BY <1>5, OpsFine
    <2> QED BY <1>2, <1>3, <1>4, <2>1, LinkedConcat
<1> HIDE DEF a3
<1>7. 1..Len(blocks) \subseteq BlocksIn(ToSet(a3))
    <2>1. \A b \in 1..Len(blocks) : BlockMark(b) \in ToSet(a3)
        BY <1>6, BlockListIs
    <2>2. \A b : BlockMark(b).kind = "block" /\ BlockMark(b).index = b
        BY DEF BlockMark
    <2> QED BY <2>1, <2>2 DEF BlocksIn
<1>8. /\ a4 \in Seq(E) /\ Linked(a4, core, symbols) /\ ToSet(a3) \subseteq ToSet(a4)
    <2>1. AllFine(EdgeElements, ToSet(a3), core, symbols)
        BY <1>7, EdgesFine
    <2> QED BY <1>2, <1>3, <1>6, <2>1, LinkedConcat
<1>9. a4 = SymbolList \o Ast
    <2>1. Ast = VarnodeList \o BlockList \o EdgeList
        BY DEF Ast, VarnodeList, BlockList, EdgeList
    <2>2. \A a, b, c \in Seq(E) : (a \o b) \o c = a \o (b \o c) /\ a \o b \in Seq(E)
        BY ConcatAssociative
    <2>3. VarnodeList \in Seq(E) /\ BlockList \in Seq(E) /\ EdgeList \in Seq(E)
        BY <1>2, <1>3, SubsetSeq
    <2>4. (a1 \o VarnodeList) \o BlockList = a1 \o (VarnodeList \o BlockList)
          /\ VarnodeList \o BlockList \in Seq(E)
        BY <1>1, <2>2, <2>3, Zenon
    <2>5. (a1 \o (VarnodeList \o BlockList)) \o EdgeList
              = a1 \o ((VarnodeList \o BlockList) \o EdgeList)
        <3> DEFINE b == VarnodeList \o BlockList
        <3>1. a1 \in Seq(E) /\ b \in Seq(E) /\ EdgeList \in Seq(E)
            BY <1>1, <2>3, <2>4
        <3> HIDE DEF b, E, a1
        <3>2. (a1 \o b) \o EdgeList = a1 \o (b \o EdgeList)
            BY <3>1, ConcatAssociative, SMTT(30)
        <3> QED BY <3>2 DEF b
    <2> QED BY <2>1, <2>4, <2>5 DEF a1, a2, a3
<1> HIDE DEF a4
<1>10. 1..Len(varnodes) \subseteq RefsIn(ToSet(a4))
    BY <1>5, <1>6, <1>8, RefsGrow
<1>11. \A t \in 1..Len(ops) : OpElement(t) \in ToSet(a4)
    BY <1>6, <1>8, BlockListIs
<1>12. ToSet(a1) \subseteq ToSet(a4)
    BY <1>4, <1>6, <1>8
<1> QED BY <1>8, <1>9, <1>10, <1>11, <1>12 DEF E, a1

\* Without one: the representatives.
LEMMA RepsLinked ==
    ASSUME Ready, ~HasTranslator
    PROVE  /\ SymbolList \o Ast \in Seq(ModelElements)
           /\ Linked(SymbolList \o Ast, core, symbols)
           /\ ToSet(SymbolList) \subseteq ToSet(SymbolList \o Ast)
           /\ \A v \in ToSet(symbols) : rep[v] \in RefsIn(ToSet(SymbolList \o Ast))
<1>1. Ast = RepList
    BY DEF Ast, RepList
<1>2. VarnodeElements \subseteq ModelElements
    BY DEF ModelElements
<1>3. AllFine(VarnodeElements, ToSet(SymbolList), core, symbols)
    BY VarnodesFine
<1>4. /\ SymbolList \o Ast \in Seq(ModelElements)
      /\ Linked(SymbolList \o Ast, core, symbols)
      /\ ToSet(SymbolList) \subseteq ToSet(SymbolList \o Ast)
      /\ ToSet(RepList) \subseteq ToSet(SymbolList \o Ast)
    BY <1>1, <1>2, <1>3, SymbolsLinked, RepListIs, LinkedConcat
<1>5. RefsIn(ToSet(RepList)) \subseteq RefsIn(ToSet(SymbolList \o Ast))
    BY <1>4, RefsGrow
<1> QED BY <1>4, <1>5, RepListIs

\* All instances of the symbols are in the <ast>.
LEMMA InstancesInAst ==
    ASSUME Ready
    PROVE  /\ SymbolList \o Ast \in Seq(ModelElements)
           /\ Linked(SymbolList \o Ast, core, symbols)
           /\ ToSet(SymbolList) \subseteq ToSet(SymbolList \o Ast)
           /\ Instances \subseteq RefsIn(ToSet(SymbolList \o Ast))
           /\ HasTranslator => \A t \in 1..Len(ops) : OpElement(t) \in ToSet(SymbolList \o Ast)
<1>1. ToSet(symbols) \subseteq AnyVars
    BY SymbolsTyped
<1>2. CASE HasTranslator
    <2> DEFINE R == 1..Len(varnodes)
    <2>1. \A v \in ToSet(symbols) : members[v] \in Seq(R)
        BY <1>1 DEF Ready, TableBuilt
    <2>2. \A s \in Seq(R) : ToSet(s) \subseteq R
        <3> HIDE DEF R
        <3> QED BY DEF ToSet
    <2>3. Instances \subseteq R
        <3> HIDE DEF R
        <3> QED BY <2>1, <2>2 DEF Instances
    <2> QED BY <1>2, <2>3, GraphLinked
<1>3. CASE ~HasTranslator
    <2>1. lowered = 0
        BY <1>3 DEF Ready, HasTranslator, LowTypes
    <2>2. ASSUME NEW v \in ToSet(symbols) PROVE ToSet(members[v]) \subseteq {rep[v]}
        <3>1. members[v] = <<>> \/ members[v] = <<rep[v]>>
            BY <1>1, <2>1 DEF Ready, AloneIfNotLowered
        <3>2. ToSet(<<>>) = {} /\ ToSet(<<rep[v]>>) = {rep[v]}
            BY DEF ToSet
        <3> QED BY <3>1, <3>2
    <2>3. \A v \in ToSet(symbols) : rep[v] \in RefsIn(ToSet(SymbolList \o Ast))
        BY <1>3, RepsLinked
    <2>4. Instances \subseteq RefsIn(ToSet(SymbolList \o Ast))
        BY <2>2, <2>3 DEF Instances
    <2> QED BY <1>3, <2>4, RepsLinked
<1> QED BY <1>2, <1>3

\* Concatenation is associative.
LEMMA Associates ==
    ASSUME NEW S, NEW b \in Seq(S), NEW c \in Seq(S), NEW d \in Seq(S)
    PROVE  (b \o c) \o d = b \o (c \o d)
BY ConcatAssociative

\* In the model everything resolves.
LEMMA ModelLinked ==
    ASSUME Ready
    PROVE  /\ Model \in Seq(ModelElements) /\ Linked(Model, core, symbols)
           /\ symbols # <<>> => \A v \in ToSet(symbols) : HighElement(v) \in ToSet(Model)
           /\ symbols # <<>> /\ HasTranslator =>
                  \A t \in 1..Len(ops) : OpElement(t) \in ToSet(Model)
<1>1. CASE symbols = <<>>
    <2>1. Model = SymbolList \o <<>>
        BY <1>1 DEF Model
    <2>2. SymbolList \o <<>> = SymbolList
        BY SymbolsLinked, ConcatEmptySeq
    <2> QED BY <1>1, <2>1, <2>2, SymbolsLinked
<1>2. CASE symbols # <<>>
    <2> DEFINE a == SymbolList \o Ast
    <2>1. /\ a \in Seq(ModelElements) /\ Linked(a, core, symbols)
          /\ ToSet(SymbolList) \subseteq ToSet(a) /\ Instances \subseteq RefsIn(ToSet(a))
          /\ HasTranslator => \A t \in 1..Len(ops) : OpElement(t) \in ToSet(a)
        BY InstancesInAst
    <2>2. Model = a \o HighList
        <3>1. Model = SymbolList \o (Ast \o HighList)
            BY <1>2 DEF Model
        <3>2. \E E : SymbolList \in Seq(E) /\ Ast \in Seq(E) /\ HighList \in Seq(E)
            <4> DEFINE E == ModelElements
            <4>1. HighElements \subseteq E /\ VarnodeElements \subseteq E
                  /\ BlockMarks \cup OpElements \subseteq E /\ EdgeElements \subseteq E
                BY DEF ModelElements
            <4>2. SymbolList \in Seq(E)
                BY SymbolsLinked
            <4> HIDE DEF E
            <4>3. HighList \in Seq(E)
                BY <4>1, HighListIs, SubsetSeq
            <4>4. CASE HasTranslator
                <5>1. Ast = VarnodeList \o BlockList \o EdgeList
                    BY <4>4 DEF Ast, VarnodeList, BlockList, EdgeList
                <5>2. VarnodeList \in Seq(E) /\ BlockList \in Seq(E) /\ EdgeList \in Seq(E)
                    BY <4>1, VarnodeListIs, BlockListIs, EdgeListIs, SubsetSeq
                <5>3. \A b, c \in Seq(E) : b \o c \in Seq(E)
                    OBVIOUS
                <5> QED BY <4>2, <4>3, <5>1, <5>2, <5>3
            <4>5. CASE ~HasTranslator
                <5>1. Ast = RepList
                    BY <4>5 DEF Ast, RepList
                <5>2. RepList \in Seq(E)
                    BY <4>1, RepListIs, SubsetSeq
                <5> QED BY <4>2, <4>3, <5>1, <5>2
            <4> QED BY <4>4, <4>5
        <3> PICK E : SymbolList \in Seq(E) /\ Ast \in Seq(E) /\ HighList \in Seq(E)
            BY <3>2
        <3>4. (SymbolList \o Ast) \o HighList = SymbolList \o (Ast \o HighList)
            BY Associates
        <3> QED BY <3>1, <3>4
    <2>3. \A v \in ToSet(symbols) : SymbolElement(v) \in ToSet(a)
        BY <2>1, SymbolListIs
    <2> HIDE DEF a
    <2>4. AllFine(HighElements, ToSet(a), core, symbols)
        BY <2>1, <2>3, HighFine
    <2>5. HighElements \subseteq ModelElements
        BY DEF ModelElements
    <2>6. /\ a \o HighList \in Seq(ModelElements) /\ Linked(a \o HighList, core, symbols)
          /\ ToSet(a) \subseteq ToSet(a \o HighList)
          /\ ToSet(HighList) \subseteq ToSet(a \o HighList)
        BY <2>1, <2>4, <2>5, HighListIs, LinkedConcat
    <2>7. \A v \in ToSet(symbols) : HighElement(v) \in ToSet(a \o HighList)
        BY <2>6, HighListIs
    <2> QED BY <2>1, <2>2, <2>6, <2>7
<1> QED BY <1>1, <1>2

DocElements == ModelElements \cup MarkupElements

\* What is shown of a response is what is shown of its markup, and every
\* reference in it resolves.
LEMMA ResponseIs ==
    ASSUME Ready
    PROVE  /\ Model \o Markup \in Seq(DocElements)
           /\ Linked(Model \o Markup, core, symbols)
           /\ ShownOf(Model \o Markup) = FlattenSeq([k \in 1..NumChunks |-> text[k].chars])
<1>1. \A k \in 1..NumChunks : ChunkRefs(k)
    BY RefsOfChunks
<1>2. FromChunks \subseteq MarkupElements /\ \A k \in 1..NumChunks : OfChunk(k) \subseteq FromChunks
    BY ElementsAreMarkup DEF FromChunks, OfChunk
<1>3. /\ Markup \in Seq(FromChunks)
      /\ ShownOf(Markup) = FlattenSeq([k \in 1..NumChunks |-> text[k].chars])
    BY <1>1, <1>2, MarkupIsShown
<1>4. AllFine(FromChunks, ToSet(Model), core, symbols)
    BY ModelLinked, MarkupFine
<1>5. FromChunks \subseteq DocElements /\ ModelElements \subseteq DocElements
    BY <1>2 DEF DocElements
<1>6. Model \in Seq(ModelElements) /\ Linked(Model, core, symbols)
    BY ModelLinked
<1>7. Model \in Seq(DocElements) /\ Markup \in Seq(DocElements)
    BY <1>3, <1>5, <1>6, SubsetSeq
<1>8. Model \o Markup \in Seq(DocElements) /\ Linked(Model \o Markup, core, symbols)
    BY <1>3, <1>4, <1>5, <1>6, <1>7, LinkedConcat
<1>9. ASSUME NEW el \in ModelElements PROVE Show(el) = <<>>
    <2>1. \A v, r, s, b, t : /\ SymbolElement(v).kind = "symbol" /\ HighElement(v).kind = "high"
                             /\ Varnode(r, s).kind = "varnode" /\ BlockMark(b).kind = "block"
                             /\ OpElement(t).kind = "op"
        BY DEF SymbolElement, HighElement, Varnode, BlockMark, OpElement
    <2>2. \A x \in EdgeElements : x.kind = "edge"
        BY DEF EdgeElements
    <2>3. el.kind \in {"symbol", "high", "varnode", "block", "op", "edge"}
        BY <2>1, <2>2 DEF ModelElements, SymbolElements, HighElements, VarnodeElements,
                          BlockMarks, OpElements
    <2> QED BY <2>3 DEF Show
<1>10. ShownOf(Model) = <<>>
    BY <1>6, <1>9, ShownNone
<1>11. Showing(DocElements)
    <2>1. <<>> \in Seq(Displayed)
        OBVIOUS
    <2> QED BY <1>9, <2>1, MarkupShows DEF Showing, DocElements
<1>12. ShownOf(Model \o Markup) = <<>> \o ShownOf(Markup) /\ ShownOf(Markup) \in Seq(Displayed)
    <2>1. ShownOf(Model \o Markup) = ShownOf(Model) \o ShownOf(Markup)
        BY <1>7, <1>11, ShownConcat
    <2>2. ShownOf(Markup) \in Seq(Displayed)
        BY <1>7, <1>11, ShownConcat
    <2> QED BY <1>10, <2>1, <2>2
<1> QED BY <1>3, <1>8, <1>12, ConcatEmptySeq

-----------------------------------------------------------------------------
(* The places of some numbers among them *)

Below(N, n) == {i \in N : i < n}
Rank(N, n)  == Cardinality(Below(N, n))

\* The numbers of a set below one.
LEMMA InBelow ==
    ASSUME NEW N, N \subseteq Nat, NEW n \in Nat
    PROVE  \A i : i \in Below(N, n) <=> i \in N /\ i \in Nat /\ i < n
BY DEF Below

\* The numbers below the next number.
LEMMA BelowMore ==
    ASSUME NEW N, N \subseteq Nat, NEW n \in Nat
    PROVE  /\ Below(N, 0) = {}
           /\ n \notin N => Below(N, n + 1) = Below(N, n)
           /\ n \in N => Below(N, n + 1) = Below(N, n) \cup {n} /\ n \notin Below(N, n)
           /\ \A m \in N : m < n => Below(N, m) \cup {m} \subseteq Below(N, n)
<1>1. \A m \in Nat : \A i : i \in Below(N, m) <=> i \in N /\ i \in Nat /\ i < m
    BY InBelow
<1>2. \A i \in Nat : ~(i < 0) /\ (i < n + 1 <=> i < n \/ i = n) /\ n + 1 \in Nat /\ 0 \in Nat
    OBVIOUS
<1>3. Below(N, 0) = {}
    BY <1>1, <1>2
<1>4. n \notin N => Below(N, n + 1) = Below(N, n)
    BY <1>1, <1>2
<1>5. n \in N => Below(N, n + 1) = Below(N, n) \cup {n} /\ n \notin Below(N, n)
    BY <1>1, <1>2
<1>6. ASSUME NEW m \in N, m < n PROVE Below(N, m) \cup {m} \subseteq Below(N, n)
    <2>1. m \in Nat /\ \A i \in Nat : i < m => i < n
        BY <1>6
    <2> QED BY <1>1, <1>6, <2>1
<1> QED BY <1>3, <1>4, <1>5, <1>6

\* They are finitely many.
LEMMA BelowFinite ==
    ASSUME NEW N, N \subseteq Nat, NEW n \in Nat
    PROVE  IsFiniteSet(Below(N, n)) /\ Rank(N, n) \in Nat
<1>1. IsFiniteSet(0..n)
    BY FS_Interval
<1>2. Below(N, n) \in SUBSET (0..n)
    <2>1. \A i \in Below(N, n) : i \in Nat /\ i < n
        BY InBelow
    <2> QED BY <2>1
<1>3. IsFiniteSet(Below(N, n))
    BY <1>1, <1>2, FS_Subset
<1> QED BY <1>3, FS_CardinalityType DEF Rank

\* A greater number has more below it.
LEMMA RankGrows ==
    ASSUME NEW N, N \subseteq Nat, NEW m \in N, NEW n \in Nat, m < n
    PROVE  Rank(N, m) < Rank(N, n)
<1> DEFINE A == Below(N, m)
           B == Below(N, n)
<1>1. IsFiniteSet(A) /\ IsFiniteSet(B) /\ Cardinality(A) \in Nat /\ Cardinality(B) \in Nat
    <2>1. m \in Nat
        OBVIOUS
    <2> QED BY <2>1, BelowFinite, FS_CardinalityType
<1>2. A \cup {m} \in SUBSET B /\ m \notin A
    BY BelowMore
<1>3. Rank(N, m) = Cardinality(A) /\ Rank(N, n) = Cardinality(B)
    BY DEF Rank
<1> HIDE DEF A, B
<1>4. Cardinality(A \cup {m}) = Cardinality(A) + 1
    BY <1>1, <1>2, FS_AddElement
<1>5. Cardinality(A \cup {m}) <= Cardinality(B)
    BY <1>1, <1>2, FS_Subset
<1> QED BY <1>1, <1>3, <1>4, <1>5

\* So two numbers do not have the same place.
LEMMA RanksDiffer ==
    ASSUME NEW N, N \subseteq Nat, NEW m \in N, NEW n \in N, Rank(N, m) = Rank(N, n)
    PROVE  m = n
<1>1. m \in Nat /\ n \in Nat /\ Rank(N, m) \in Nat /\ Rank(N, n) \in Nat
    BY BelowFinite
<1>2. m < n => Rank(N, m) < Rank(N, n)
    BY <1>1, RankGrows
<1>3. n < m => Rank(N, n) < Rank(N, m)
    BY <1>1, RankGrows
<1> QED BY <1>1, <1>2, <1>3

\* The places of all numbers of a set are 0, 1, ... without a gap.
LEMMA RanksBelow ==
    ASSUME NEW N, N \subseteq Nat, NEW L \in Nat, \A n \in N : n < L
    PROVE  {Rank(N, n) : n \in N} = 0..(Cardinality(N) - 1) /\ Cardinality(N) \in Nat
<1> DEFINE Under(m) == Below(N, m)
           T == {m \in Nat : {Rank(N, n) : n \in Under(m)} = 0..(Rank(N, m) - 1)}
<1>1. 0 \in T
    <2>1. Under(0) = {}
        BY BelowMore
    <2>2. Rank(N, 0) = 0
        BY <2>1, FS_EmptySet DEF Rank
    <2>3. {Rank(N, n) : n \in {}} = {} /\ 0..(0 - 1) = {}
        OBVIOUS
    <2> QED BY <2>1, <2>2, <2>3
<1>2. ASSUME NEW m \in 1..L, m - 1 \in T PROVE m \in T
    <2>0. m \in Nat /\ m - 1 \in Nat /\ (m - 1) + 1 = m
        OBVIOUS
    <2>1. {Rank(N, n) : n \in Under(m - 1)} = 0..(Rank(N, m - 1) - 1)
        BY <1>2
    <2>2. Rank(N, m - 1) \in Nat /\ IsFiniteSet(Under(m - 1))
        BY <2>0, BelowFinite
    <2> DEFINE p == m - 1
    <2>5. /\ p \notin N => Below(N, p + 1) = Below(N, p)
          /\ p \in N => Below(N, p + 1) = Below(N, p) \cup {p} /\ p \notin Below(N, p)
        <3> HIDE DEF p
        <3>1. p \in Nat
            BY <2>0 DEF p
        <3> QED BY <3>1, BelowMore
    <2>3. CASE m - 1 \notin N
        <3>1. Under(m) = Under(m - 1)
            BY <2>0, <2>3, <2>5
        <3>2. Rank(N, m) = Rank(N, m - 1)
            BY <3>1 DEF Rank
        <3> QED BY <2>0, <2>1, <3>1, <3>2
    <2>4. CASE m - 1 \in N
        <3>1. Under(m) = Under(m - 1) \cup {m - 1} /\ m - 1 \notin Under(m - 1)
            BY <2>0, <2>4, <2>5
        <3> DEFINE U == Under(m - 1)
                   r == Rank(N, m - 1)
        <3>2. Cardinality(U) = r /\ Rank(N, m) = Cardinality(Under(m))
            BY DEF Rank
        <3>3. Rank(N, m) = r + 1
            <4> HIDE DEF U, r
            <4>1. Cardinality(U \cup {m - 1}) = Cardinality(U) + 1
                BY <2>2, <3>1, FS_AddElement DEF U
            <4> QED BY <3>1, <3>2, <4>1 DEF U
        <3>4. {Rank(N, n) : n \in Under(m)} = {Rank(N, n) : n \in U} \cup {r}
            BY <3>1
        <3>5. {Rank(N, n) : n \in Under(m)} = 0..(r - 1) \cup {r}
            BY <2>1, <3>4
        <3>6. r \in Nat
            BY <2>2
        <3> HIDE DEF r
        <3>7. 0..(r - 1) \cup {r} = 0..((r + 1) - 1)
            BY <3>6
        <3> QED BY <2>0, <3>3, <3>5, <3>7
    <2> QED BY <2>3, <2>4
<1>3. L \in T
    <2> HIDE DEF T
    <2>1. \A m \in 0..L : m \in T
        BY <1>1, <1>2, Induction
    <2> QED BY <2>1
<1>4. Under(L) = N
    <2>1. \A i : i \in Below(N, L) <=> i \in N /\ i \in Nat /\ i < L
        BY InBelow
    <2>2. \A i \in N : i \in Nat /\ i < L
        OBVIOUS
    <2> QED BY <2>1, <2>2
<1>5. Rank(N, L) = Cardinality(N) /\ Rank(N, L) \in Nat
    BY <1>4, BelowFinite DEF Rank
<1> QED BY <1>3, <1>4, <1>5

\* Things that have all the places below a number, each its own.
LEMMA CountedByPlace ==
    ASSUME NEW out, NEW c \in Nat, {el.rev : el \in out} = 0..(c - 1),
           \A a, b \in out : a.rev = b.rev => a = b
    PROVE  {el.rev : el \in out} = 0..(Cardinality(out) - 1)
<1> DEFINE f == [el \in out |-> el.rev]
           T == 0..(c - 1)
<1>1. f \in [out -> T] /\ \A a, b \in out : f[a] = f[b] => a = b
    OBVIOUS
<1>2. \A t \in T : \E el \in out : f[el] = t
    OBVIOUS
<1>3. IsFiniteSet(T) /\ Cardinality(T) = c
    BY FS_Interval
<1> HIDE DEF f, T
<1>4. f \in Injection(out, T)
    BY <1>1 DEF Injection, IsInjective
<1>5. f \in Surjection(out, T)
    BY <1>1, <1>2 DEF Surjection
<1>6. Cardinality(out) = c
    BY <1>3, <1>4, <1>5, FS_Injection
<1> QED BY <1>6

-----------------------------------------------------------------------------
(* The elements of one kind *)

PickOf(kind, s)  == FlattenSeq([i \in DOMAIN s |-> IF s[i].kind = kind THEN <<s[i]>> ELSE <<>>])
PickF(E, kind)   == [el \in E |-> IF el.kind = kind THEN <<el>> ELSE <<>>]

\* PickOf is what each element becomes.
LEMMA PickIsOf ==
    ASSUME NEW E, NEW kind, NEW s \in Seq(E)
    PROVE  PickF(E, kind) \in Becomes(E, E) /\ PickOf(kind, s) = Each(PickF(E, kind), s)
<1>1. PickF(E, kind) \in Becomes(E, E)
    <2>1. \A el \in E : <<el>> \in Seq(E) /\ <<>> \in Seq(E)
        OBVIOUS
    <2>2. \A el \in E : (IF el.kind = kind THEN <<el>> ELSE <<>>) \in Seq(E)
        BY <2>1
    <2> QED BY <2>2 DEF PickF, Becomes
<1>2. \A i \in DOMAIN s : (IF s[i].kind = kind THEN <<s[i]>> ELSE <<>>) = PickF(E, kind)[s[i]]
    BY DEF PickF
<1>3. [i \in DOMAIN s |-> IF s[i].kind = kind THEN <<s[i]>> ELSE <<>>]
          = [i \in DOMAIN s |-> PickF(E, kind)[s[i]]]
    BY <1>2
<1> QED BY <1>1, <1>3 DEF PickOf, Each

\* Concatenation by a name of its own.
Both(s, t) == s \o t

\* The elements of one kind of two sequences.
LEMMA PickBoth ==
    ASSUME NEW E, NEW kind, NEW s \in Seq(E), NEW t \in Seq(E)
    PROVE  /\ Both(s, t) \in Seq(E)
           /\ PickOf(kind, s) \in Seq(E)
           /\ PickOf(kind, Both(s, t)) = Both(PickOf(kind, s), PickOf(kind, t))
<1> DEFINE p == PickOf(kind, s)
           q == PickOf(kind, t)
           r == PickOf(kind, s \o t)
<1>1. r = p \o q /\ p \in Seq(E)
    <2>1. s \o t \in Seq(E)
        BY ConcatProperties
    <2>2. Each(PickF(E, kind), s) \in Seq(E)
        BY PickIsOf, Images
    <2>3. Each(PickF(E, kind), s \o t) = Each(PickF(E, kind), s) \o Each(PickF(E, kind), t)
        BY PickIsOf, EachConcat
    <2> QED BY <2>1, <2>2, <2>3, PickIsOf
<1> HIDE DEF p, q, r
<1>2. r = Both(p, q)
    BY <1>1 DEF Both
<1>3. Both(s, t) \in Seq(E)
    BY ConcatProperties DEF Both
<1>4. PickOf(kind, Both(s, t)) = r
    BY DEF Both, r
<1> QED BY <1>1, <1>2, <1>3, <1>4 DEF p, q

\* The empty sequence adds nothing.
LEMMA NothingAround ==
    ASSUME NEW E, NEW s \in Seq(E)
    PROVE  Both(<<>>, s) = s /\ Both(s, <<>>) = s
BY ConcatEmptySeq DEF Both

\* The elements of one kind of lists.
LEMMA PickFlatten ==
    ASSUME NEW E, NEW kind, NEW ss \in Seq(Seq(E))
    PROVE  PickOf(kind, FlattenSeq(ss)) = FlattenSeq([i \in DOMAIN ss |-> PickOf(kind, ss[i])])
<1>1. FlattenSeq(ss) \in Seq(E)
    BY FlattenType
<1>2. PickF(E, kind) \in Becomes(E, E)
    BY PickIsOf, <1>1
<1>3. Each(PickF(E, kind), FlattenSeq(ss)) = FlattenSeq(Parts(PickF(E, kind), ss))
    BY <1>2, EachFlatten
<1>4. \A i \in DOMAIN ss : PickOf(kind, ss[i]) = Each(PickF(E, kind), ss[i])
    <2> TAKE i \in DOMAIN ss
    <2>1. ss[i] \in Seq(E)
        OBVIOUS
    <2> QED BY <2>1, PickIsOf
<1>5. Parts(PickF(E, kind), ss) = [i \in DOMAIN ss |-> PickOf(kind, ss[i])]
    BY <1>4 DEF Parts
<1> QED BY <1>1, <1>3, <1>5, PickIsOf

\* No element is of the kind.
LEMMA PickNone ==
    ASSUME NEW E, NEW kind, NEW s \in Seq(E), \A el \in E : el.kind # kind
    PROVE  PickOf(kind, s) = <<>>
<1>1. \A i \in 1..Len(s) : PickF(E, kind)[s[i]] = <<>>
    BY DEF PickF
<1>2. Each(PickF(E, kind), s) = <<>>
    BY <1>1, PickIsOf, EachEmpty
<1> QED BY <1>2, PickIsOf

\* All elements are of the kind.
LEMMA PickAll ==
    ASSUME NEW E, NEW kind, NEW s \in Seq(E), \A el \in E : el.kind = kind
    PROVE  PickOf(kind, s) = s
<1> DEFINE f == PickF(E, kind)
           T == {u \in Seq(E) : Each(f, u) = u}
<1>1. f \in Becomes(E, E)
    BY PickIsOf
<1>2. \A x \in E : f[x] = <<x>>
    BY DEF PickF
<1> HIDE DEF f
<1>3. <<>> \in T
    BY EachNone
<1>4. ASSUME NEW u \in Seq(E), NEW x \in E, u \in T PROVE Append(u, x) \in T
    <2>1. Each(f, Append(u, x)) = Each(f, u) \o f[x]
        BY <1>1, EachAppend
    <2>2. Append(u, x) = u \o <<x>> /\ Append(u, x) \in Seq(E)
        OBVIOUS
    <2> QED BY <1>2, <1>4, <2>1, <2>2
<1> HIDE DEF T
<1>5. Seq(E) \subseteq T
    BY <1>3, <1>4, SeqInduction
<1> QED BY <1>5, PickIsOf DEF T, f

\* Elements of a kind are in a sequence of such elements, one after the other.
LEMMA PickOne ==
    ASSUME NEW E, NEW kind, NEW el \in E
    PROVE  PickOf(kind, <<el>>) = IF el.kind = kind THEN <<el>> ELSE <<>>
<1> DEFINE s == <<el>>
           f == PickF(E, kind)
<1>1. s \in Seq(E)
    OBVIOUS
<1>2. f[el] = IF el.kind = kind THEN <<el>> ELSE <<>>
    BY DEF PickF
<1> HIDE DEF s
<1>3. f \in Becomes(E, E) /\ PickOf(kind, s) = Each(f, s)
    BY <1>1, PickIsOf
<1> HIDE DEF f
<1>4. Each(f, <<el>>) = f[el]
    BY <1>3, EachOne
<1> QED BY <1>2, <1>3, <1>4 DEF s

-----------------------------------------------------------------------------
(* The operations of all blocks are all operations *)

AllOps(n) == [t \in 1..n |-> OpElement(t)]

\* The operations up to some time, and those of the next block.
LEMMA MoreOps ==
    ASSUME LowTypes, BlocksShape, NEW b \in 1..Len(blocks)
    PROVE  AllOps(LastOf(b - 1)) \o OpsOf(b) = AllOps(LastOf(b))
<1> DEFINE m == LastOf(b - 1)
           n == LastOf(b)
           f == AllOps(m)
           g == OpsOf(b)
           h == AllOps(n)
           El == {OpElement(t) : t \in Nat}
<1>1. m \in Nat /\ n \in Nat /\ m <= n
    <2>1. b - 1 \in 0..Len(blocks) /\ b \in 0..Len(blocks)
        BY BlockTimes
    <2> QED BY <2>1, BlockTimes
<1>2. g \in Seq(OpElements) /\ Len(g) = n - m
    BY OpsOfBlock
<1>3. \A k \in 1..(n - m) : g[k] = OpElement(m + k)
    BY DEF OpsOf
<1> HIDE DEF m, n, g
<1>4. OpElements \subseteq El
    BY DEF OpElements
<1> HIDE DEF El
<1>5. \A t \in Nat : OpElement(t) \in El
    BY DEF El
<1>6. /\ f \in Seq(El) /\ Len(f) = m /\ \A t \in 1..m : f[t] = OpElement(t)
      /\ h \in Seq(El) /\ Len(h) = n /\ \A t \in 1..n : h[t] = OpElement(t)
    BY <1>1, <1>5 DEF AllOps
<1>7. g \in Seq(El)
    BY <1>2, <1>4, SubsetSeq
<1> HIDE DEF f, h
<1>8. f \o g \in Seq(El) /\ Len(f \o g) = n
    <2>1. f \o g \in Seq(El) /\ Len(f \o g) = Len(f) + Len(g)
        BY <1>6, <1>7, ConcatProperties
    <2> QED BY <1>1, <1>2, <1>6, <2>1
<1>9. ASSUME NEW t \in 1..n PROVE (f \o g)[t] = h[t]
    <2>1. CASE t \in 1..m
        BY <1>6, <1>7, <2>1, ConcatProperties
    <2>2. CASE t \notin 1..m
        <3>1. t - m \in 1..(n - m) /\ m + (t - m) = t
            BY <1>1, <2>2
        <3>2. g[t - m] = OpElement(t)
            BY <1>3, <3>1
        <3>3. (f \o g)[Len(f) + (t - m)] = g[t - m]
            BY <1>2, <1>6, <1>7, <3>1, ConcatProperties
        <3> QED BY <1>6, <3>1, <3>2, <3>3
    <2> QED BY <2>1, <2>2
<1>10. f \o g = h
    BY <1>6, <1>8, <1>9, SeqEqual
<1> QED BY <1>10 DEF f, g, h, m, n

\* The operations of all blocks, one after the other, are all operations.
LEMMA OpsOfAll ==
    ASSUME LowTypes, BlocksShape
    PROVE  FlattenSeq([b \in 1..Len(blocks) |-> OpsOf(b)]) = AllOps(Len(ops))
<1> DEFINE S == OpElements
           parts == [b \in 1..Len(blocks) |-> OpsOf(b)]
<1>0. Len(blocks) \in Nat
    BY BlockTimes
<1>1. \A b \in 1..Len(blocks) : OpsOf(b) \in Seq(S)
    BY OpsOfBlock
<1> HIDE DEF S
<1>2. parts \in Seq(Seq(S)) /\ Len(parts) = Len(blocks)
    <2> DEFINE Q == Seq(S)
    <2>1. \A b \in 1..Len(blocks) : parts[b] \in Q
        BY <1>1
    <2>2. parts = [b \in 1..Len(blocks) |-> parts[b]]
        OBVIOUS
    <2> HIDE DEF Q, parts
    <2> QED BY <1>0, <2>1, <2>2, ListOf DEF Q
<1>3. \A b \in 1..Len(blocks) : parts[b] = OpsOf(b)
    OBVIOUS
<1> HIDE DEF parts
<1> PICK g \in [0..Len(parts) -> Seq(S)] :
            /\ g[0] = <<>> /\ \A b \in 1..Len(parts) : g[b] = g[b - 1] \o parts[b]
            /\ FlattenSeq(parts) = g[Len(parts)]
    BY <1>2, FlattenUnfolds
<1> DEFINE T == {b \in Nat : b <= Len(blocks) => g[b] = AllOps(LastOf(b))}
<1>4. 0 \in T
    <2>1. AllOps(0) = <<>> /\ LastOf(0) = 0
        BY DEF AllOps, LastOf
    <2> QED BY <2>1
<1>5. ASSUME NEW b \in 1..Len(blocks), b - 1 \in T PROVE b \in T
    <2>1. g[b - 1] = AllOps(LastOf(b - 1))
        BY <1>0, <1>5
    <2>2. g[b] = g[b - 1] \o OpsOf(b)
        BY <1>2, <1>3
    <2>3. b \in Nat /\ g[b] = AllOps(LastOf(b))
        BY <2>1, <2>2, MoreOps
    <2> QED BY <2>3
<1>6. Len(blocks) \in T
    <2> HIDE DEF T
    <2>1. \A b \in 0..Len(blocks) : b \in T
        BY <1>0, <1>4, <1>5, Induction
    <2> QED BY <1>0, <2>1
<1>7. g[Len(blocks)] = AllOps(Len(ops))
    BY <1>0, <1>6, BlockTimes
<1> QED BY <1>2, <1>7 DEF parts

\* The kinds of the elements.
LEMMA Kinds ==
    /\ \A el \in SymbolElements  : el.kind = "symbol"
    /\ \A el \in HighElements    : el.kind = "high"
    /\ \A el \in VarnodeElements : el.kind = "varnode"
    /\ \A el \in BlockMarks      : el.kind = "block"
    /\ \A el \in OpElements      : el.kind = "op"
    /\ \A el \in EdgeElements    : el.kind = "edge"
    /\ \A el \in MarkupElements  : el.kind \in {"token", "break"}
<1>1. \A v, r, s, b, t : /\ SymbolElement(v).kind = "symbol" /\ HighElement(v).kind = "high"
                         /\ Varnode(r, s).kind = "varnode" /\ BlockMark(b).kind = "block"
                         /\ OpElement(t).kind = "op"
    BY DEF SymbolElement, HighElement, Varnode, BlockMark, OpElement
<1>2. \A el \in EdgeElements : el.kind = "edge"
    BY DEF EdgeElements
<1>3. \A el \in MarkupElements : el.kind \in {"token", "break"}
    BY DEF MarkupElements, TokenElements, BreakElements
<1> QED BY <1>1, <1>2, <1>3 DEF SymbolElements, HighElements, VarnodeElements, BlockMarks,
                                OpElements

\* All but the graph has neither operations nor edges.
LEMMA OutsideGraph ==
    ASSUME Ready, NEW kind \in {"op", "edge"}
    PROVE  /\ PickOf(kind, SymbolList) = <<>> /\ PickOf(kind, VarnodeList) = <<>>
           /\ PickOf(kind, HighList) = <<>> /\ PickOf(kind, Markup) = <<>>
<1>1. PickOf(kind, SymbolList) = <<>>
    <2>1. \A el \in SymbolElements : el.kind # kind
        BY Kinds
    <2> QED BY <2>1, SymbolListIs, PickNone
<1>2. PickOf(kind, VarnodeList) = <<>>
    <2>1. \A el \in VarnodeElements : el.kind # kind
        BY Kinds
    <2> QED BY <2>1, VarnodeListIs, PickNone
<1>3. PickOf(kind, HighList) = <<>>
    <2>1. \A el \in HighElements : el.kind # kind
        BY Kinds
    <2> QED BY <2>1, HighListIs, PickNone
<1>4. PickOf(kind, Markup) = <<>>
    <2>1. \A el \in MarkupElements : el.kind # kind
        BY Kinds
    <2>2. Markup \in Seq(MarkupElements)
        <3>1. \A k \in 1..NumChunks : OfChunk(k) \subseteq MarkupElements
            BY ElementsAreMarkup DEF OfChunk
        <3> QED BY <3>1, RefsOfChunks, MarkupIsShown
    <2> QED BY <2>1, <2>2, PickNone
<1> QED BY <1>1, <1>2, <1>3, <1>4

\* The operations in the list of blocks.
LEMMA BlocksPicked ==
    ASSUME Ready
    PROVE  PickOf("op", BlockList) = AllOps(Len(ops)) /\ PickOf("edge", BlockList) = <<>>
<1> DEFINE E == BlockMarks \cup OpElements
           parts == [b \in DOMAIN blocks |-> BlockElement(b)]
<1>0. LowTypes /\ BlocksShape /\ Len(blocks) \in Nat /\ DOMAIN blocks = 1..Len(blocks)
    BY BlockTimes DEF Ready, LowTypes
<1>1. ASSUME NEW b \in 1..Len(blocks)
      PROVE  BlockElement(b) \in Seq(E) /\ PickOf("op", BlockElement(b)) = OpsOf(b)
    <2> DEFINE mark == <<BlockMark(b)>>
    <2>1. BlockMark(b) \in E /\ BlockMark(b).kind = "block"
        BY DEF BlockMarks, BlockMark
    <2>2. OpsOf(b) \in Seq(OpElements) /\ BlockElement(b) = Both(mark, OpsOf(b))
        BY <1>0, OpsOfBlock DEF Both
    <2>3. OpsOf(b) \in Seq(E)
        BY <2>2, SubsetSeq
    <2>4. PickOf("op", OpsOf(b)) = OpsOf(b)
        BY <2>2, Kinds, PickAll
    <2> HIDE DEF E
    <2>5. PickOf("op", mark) = <<>>
        <3>1. PickOf("op", mark) = IF BlockMark(b).kind = "op" THEN mark ELSE <<>>
            BY <2>1, PickOne
        <3> QED BY <2>1, <3>1
    <2>6. mark \in Seq(E)
        BY <2>1
    <2> HIDE DEF mark
    <2>7. PickOf("op", Both(mark, OpsOf(b))) = Both(<<>>, OpsOf(b))
        BY <2>3, <2>4, <2>5, <2>6, PickBoth
    <2>8. Both(<<>>, OpsOf(b)) = OpsOf(b) /\ Both(mark, OpsOf(b)) \in Seq(E)
        BY <2>3, <2>6, NothingAround, PickBoth
    <2> QED BY <2>2, <2>7, <2>8
<1> HIDE DEF E
<1>2. parts \in Seq(Seq(E)) /\ DOMAIN parts = 1..Len(blocks)
    <2> DEFINE S == Seq(E)
    <2>1. \A b \in 1..Len(blocks) : parts[b] \in S
        BY <1>0, <1>1
    <2>2. parts = [b \in 1..Len(blocks) |-> parts[b]]
        BY <1>0
    <2> HIDE DEF S, parts
    <2>3. parts \in Seq(S) /\ DOMAIN parts = 1..Len(blocks)
        BY <1>0, <2>1, <2>2, ListOf
    <2> QED BY <2>3 DEF S
<1>3. \A b \in 1..Len(blocks) : parts[b] = BlockElement(b)
    BY <1>0
<1>4. BlockList = FlattenSeq(parts)
    BY DEF BlockList
<1> HIDE DEF parts
<1>5. PickOf("op", BlockList) = FlattenSeq([b \in DOMAIN parts |-> PickOf("op", parts[b])])
    <2>1. \A ss \in Seq(Seq(E)) : PickOf("op", FlattenSeq(ss))
                                      = FlattenSeq([b \in DOMAIN ss |-> PickOf("op", ss[b])])
        BY PickFlatten
    <2> QED BY <1>2, <1>4, <2>1
<1>6. [b \in DOMAIN parts |-> PickOf("op", parts[b])] = [b \in 1..Len(blocks) |-> OpsOf(b)]
    BY <1>1, <1>2, <1>3
<1>7. PickOf("op", BlockList) = AllOps(Len(ops))
    BY <1>0, <1>5, <1>6, OpsOfAll
<1>8. PickOf("edge", BlockList) = <<>>
    <2>1. \A el \in E : el.kind # "edge"
        BY Kinds DEF E
    <2>2. BlockList \in Seq(E)
        BY BlockListIs DEF E
    <2> QED BY <2>1, <2>2, PickNone
<1> QED BY <1>7, <1>8

\* The operations and the edges of a response.
LEMMA GraphPicked ==
    ASSUME Ready, HasTranslator, Filled(symbols)
    PROVE  /\ PickOf("op", Model \o Markup) = AllOps(Len(ops))
           /\ PickOf("edge", Model \o Markup) = EdgeList
<1> DEFINE D == DocElements
           Q(kind, s) == PickOf(kind, s)
<1>1. /\ SymbolList \in Seq(D) /\ VarnodeList \in Seq(D) /\ BlockList \in Seq(D)
      /\ EdgeList \in Seq(D) /\ HighList \in Seq(D) /\ Markup \in Seq(D)
    <2>1. /\ SymbolElements \subseteq D /\ VarnodeElements \subseteq D
          /\ BlockMarks \cup OpElements \subseteq D /\ EdgeElements \subseteq D
          /\ HighElements \subseteq D /\ MarkupElements \subseteq D
        BY DEF DocElements, ModelElements
    <2>2. Markup \in Seq(MarkupElements)
        <3>1. \A k \in 1..NumChunks : OfChunk(k) \subseteq MarkupElements
            BY ElementsAreMarkup DEF OfChunk
        <3> QED BY <3>1, RefsOfChunks, MarkupIsShown
    <2> HIDE DEF D
    <2> QED BY <2>1, <2>2, SubsetSeq, SymbolListIs, VarnodeListIs, BlockListIs, EdgeListIs, HighListIs
<1>2. Model \o Markup
          = Both(Both(SymbolList, Both(Both(Both(VarnodeList, BlockList), EdgeList), HighList)),
                 Markup)
    BY DEF Model, Ast, VarnodeList, BlockList, EdgeList, Filled, Both
<1> HIDE DEF D
<1>3. ASSUME NEW kind \in {"op", "edge"}
      PROVE  Q(kind, Model \o Markup) = Both(Q(kind, BlockList), Q(kind, EdgeList))
    <2> DEFINE a == Both(VarnodeList, BlockList)
               b == Both(a, EdgeList)
               c == Both(b, HighList)
               d == Both(SymbolList, c)
    <2>0. \A s, t \in Seq(D) : /\ Both(s, t) \in Seq(D) /\ Q(kind, s) \in Seq(D)
                                /\ Q(kind, Both(s, t)) = Both(Q(kind, s), Q(kind, t))
        BY PickBoth
    <2>1. a \in Seq(D) /\ Q(kind, a) = Both(<<>>, Q(kind, BlockList)) /\ Q(kind, BlockList) \in Seq(D)
        <3>1. a \in Seq(D) /\ Q(kind, a) = Both(Q(kind, VarnodeList), Q(kind, BlockList))
              /\ Q(kind, BlockList) \in Seq(D)
            BY <1>1, <2>0
        <3>2. Q(kind, VarnodeList) = <<>>
            BY OutsideGraph
        <3> HIDE DEF a, Q
        <3> QED BY <3>1, <3>2
    <2>2. Q(kind, a) = Q(kind, BlockList)
        BY <2>1, NothingAround
    <2> HIDE DEF a
    <2>3. b \in Seq(D) /\ Q(kind, b) = Both(Q(kind, BlockList), Q(kind, EdgeList))
          /\ Q(kind, b) \in Seq(D)
        <3> HIDE DEF Q
        <3>1. /\ Both(a, EdgeList) \in Seq(D)
              /\ Q(kind, Both(a, EdgeList)) = Both(Q(kind, a), Q(kind, EdgeList))
            BY <1>1, <2>1, <2>0, Zenon
        <3>2. Q(kind, Both(a, EdgeList)) \in Seq(D)
            BY <2>0, <3>1, Zenon
        <3> QED BY <2>2, <3>1, <3>2, Zenon
    <2> HIDE DEF b
    <2>4. c \in Seq(D) /\ Q(kind, c) = Both(Q(kind, b), <<>>)
        BY <1>1, <2>3, OutsideGraph, <2>0
    <2>5. Q(kind, c) = Q(kind, b)
        BY <2>3, <2>4, NothingAround
    <2> HIDE DEF c
    <2>6. d \in Seq(D) /\ Q(kind, d) = Both(<<>>, Q(kind, c))
        BY <1>1, <2>4, OutsideGraph, <2>0
    <2>7. Q(kind, d) = Q(kind, b)
        BY <2>3, <2>5, <2>6, NothingAround
    <2> HIDE DEF d
    <2>8. Q(kind, Both(d, Markup)) = Both(Q(kind, d), <<>>)
        BY <1>1, <2>6, OutsideGraph, <2>0
    <2>9. Q(kind, Both(d, Markup)) = Q(kind, b)
        BY <2>3, <2>7, <2>8, NothingAround
    <2> QED BY <1>2, <2>3, <2>9 DEF a, b, c, d
<1>4. Q("edge", EdgeList) = EdgeList /\ Q("op", EdgeList) = <<>>
    BY EdgeListIs, Kinds, PickAll, PickNone
<1>5. Q("op", Model \o Markup) = Both(AllOps(Len(ops)), <<>>)
    BY <1>3, <1>4, BlocksPicked
<1>6. Q("edge", Model \o Markup) = Both(<<>>, EdgeList)
    BY <1>3, <1>4, BlocksPicked
<1>7. \E E : AllOps(Len(ops)) \in Seq(E)
    <2>1. \A s \in Seq(D) : PickOf("op", s) \in Seq(D)
        BY PickBoth
    <2>2. PickOf("op", BlockList) \in Seq(D)
        BY <1>1, <2>1
    <2> QED BY <2>2, BlocksPicked
<1> QED BY <1>1, <1>5, <1>6, <1>7, NothingAround

-----------------------------------------------------------------------------
(* The edges of a response *)

\* Two lists of lists whose lengths are the same are as long when flattened.
LEMMA SameLengths ==
    ASSUME NEW A, NEW B, NEW ss \in Seq(Seq(A)), NEW tt \in Seq(Seq(B)), Len(ss) = Len(tt),
           \A i \in 1..Len(ss) : Len(ss[i]) = Len(tt[i])
    PROVE  Len(FlattenSeq(ss)) = Len(FlattenSeq(tt))
<1> DEFINE L == Len(ss)
<1>0. /\ L \in Nat /\ Len(tt) = L
      /\ \A i \in 1..L : ss[i] \in Seq(A) /\ tt[i] \in Seq(B) /\ Len(ss[i]) = Len(tt[i])
    <2> DEFINE P == Seq(A)
               Q == Seq(B)
    <2>1. ss \in Seq(P) /\ tt \in Seq(Q)
        OBVIOUS
    <2> HIDE DEF P, Q
    <2>2. \A i \in 1..Len(ss) : ss[i] \in P /\ tt[i] \in Q
        BY <2>1
    <2> QED BY <2>1, <2>2 DEF P, Q
<1>1. PICK g \in [0..L -> Seq(A)] :
            /\ g[0] = <<>> /\ \A n \in 1..L : g[n] = g[n - 1] \o ss[n]
            /\ FlattenSeq(ss) = g[L]
    BY FlattenUnfolds
<1>2. PICK h \in [0..L -> Seq(B)] :
            /\ h[0] = <<>> /\ \A n \in 1..L : h[n] = h[n - 1] \o tt[n]
            /\ FlattenSeq(tt) = h[L]
    <2>1. \E h \in [0..Len(tt) -> Seq(B)] :
            /\ h[0] = <<>> /\ \A n \in 1..Len(tt) : h[n] = h[n - 1] \o tt[n]
            /\ FlattenSeq(tt) = h[Len(tt)]
        BY FlattenUnfolds
    <2>2. Len(tt) = L
        OBVIOUS
    <2> HIDE DEF L
    <2> QED BY <2>1, <2>2
<1> HIDE DEF L
<1> DEFINE T == {n \in 0..L : Len(g[n]) = Len(h[n])}
<1>3. 0 \in T
    BY <1>0, <1>1, <1>2
<1>4. ASSUME NEW n \in 1..L, n - 1 \in T PROVE n \in T
    <2>1. n - 1 \in 0..L /\ n \in 0..L /\ Len(g[n - 1]) = Len(h[n - 1])
        BY <1>0, <1>4
    <2>2. Len(g[n]) = Len(g[n - 1]) + Len(ss[n])
        <3>1. g[n] = g[n - 1] \o ss[n] /\ g[n - 1] \in Seq(A) /\ ss[n] \in Seq(A)
            BY <1>0, <1>1, <2>1
        <3> QED BY <3>1, ConcatProperties
    <2>3. Len(h[n]) = Len(h[n - 1]) + Len(tt[n])
        <3>1. h[n] = h[n - 1] \o tt[n] /\ h[n - 1] \in Seq(B) /\ tt[n] \in Seq(B)
            BY <1>0, <1>2, <2>1
        <3> QED BY <3>1, ConcatProperties
    <2>4. Len(ss[n]) = Len(tt[n])
        BY <1>0
    <2> QED BY <2>1, <2>2, <2>3, <2>4
<1> HIDE DEF T
<1>5. \A n \in 0..L : n \in T
    BY <1>0, <1>3, <1>4, Induction
<1>6. L \in T
    BY <1>0, <1>5
<1> QED BY <1>1, <1>2, <1>6 DEF T

\* The element of an edge of the graph.
EdgeElement(n) ==
    [kind |-> "edge", to |-> ail.edges[n][2], end |-> ail.edges[n][1],
     rev |-> InEdge(ail, n)[2]]

EdgesMade == {EdgeElement(n) : n \in 1..Len(ail.edges)}

\* The edges of one block.
LEMMA BlockEdgesAre ==
    ASSUME Ready, HasTranslator, NEW b \in 1..Len(blocks)
    PROVE  /\ BlockEdges(b) \in Seq(EdgesMade) /\ Len(BlockEdges(b)) = Len(Ins[b])
           /\ \A n \in 1..Len(ail.edges) :
                 ail.edges[n][2] = b => EdgeElement(n) \in ToSet(BlockEdges(b))
<1> DEFINE in == blocks[b].in
           E  == EdgesMade
           M  == Len(ail.edges)
<1>0. LowTypes /\ EdgesShape /\ edges = Len(ail.edges) /\ M \in Nat
    BY AilParts DEF Ready, HasTranslator, EdgesShape, LowTypes
<1>1. in \in Seq(Nat \X Nat) /\ in = Ins[b] /\ Len(Ins) = Len(blocks)
    BY <1>0, InsType
<1> DEFINE el(k) == [kind |-> "edge", to |-> b, end |-> in[k][1], rev |-> in[k][2]]
           f == BlockEdges(b)
<1>2. f = [k \in DOMAIN in |-> el(k)]
    BY DEF BlockEdges
<1>3. \A k \in 1..Len(in) : \E n \in 1..M : ail.edges[n][2] = b /\ in[k] = InEdge(ail, n)
    BY <1>0, <1>1 DEF EdgesShape, OnlyEdges
<1>4. \A n \in 1..M : ail.edges[n][2] = b => \E k \in 1..Len(in) : in[k] = InEdge(ail, n)
    <2>1. AllEdges(ail, Ins, M)
        BY <1>0 DEF EdgesShape
    <2> QED BY <1>1, <2>1 DEF AllEdges
<1>5. \A k \in 1..Len(in) : \A n \in 1..M :
          ail.edges[n][2] = b /\ in[k] = InEdge(ail, n) => el(k) = EdgeElement(n)
    <2>1. \A n : InEdge(ail, n)[1] = ail.edges[n][1]
        BY DEF InEdge
    <2> QED BY <2>1 DEF EdgeElement
<1> HIDE DEF in, M, el
<1>6. \A k \in 1..Len(in) : el(k) \in E
    BY <1>3, <1>5 DEF EdgesMade, M
<1>7. DOMAIN in = 1..Len(in) /\ Len(in) \in Nat
    BY <1>1
<1>8. f = [k \in 1..Len(in) |-> el(k)]
    BY <1>2, <1>7
<1> HIDE DEF f, E
<1>9. \A k \in 1..Len(in) : f[k] = el(k)
    BY <1>8
<1>10. /\ f \in Seq(E) /\ Len(f) = Len(in)
       /\ \A k \in 1..Len(in) : f[k] \in ToSet(f)
    <2> DEFINE d == Len(in)
    <2>1. f = [k \in 1..d |-> f[k]] /\ d \in Nat /\ \A k \in 1..d : f[k] \in E
        BY <1>6, <1>7, <1>8, <1>9
    <2> HIDE DEF d
    <2>2. f \in Seq(E) /\ Len(f) = d /\ \A k \in 1..d : f[k] \in ToSet(f)
        BY <2>1, ListOf
    <2> QED BY <2>2 DEF d
<1>11. \A n \in 1..M : ail.edges[n][2] = b => EdgeElement(n) \in ToSet(f)
    BY <1>4, <1>5, <1>9, <1>10
<1> QED BY <1>1, <1>10, <1>11 DEF f, E, M

\* They are the edges of the graph, each once.
LEMMA EdgesAre ==
    ASSUME Ready, HasTranslator
    PROVE  ToSet(EdgeList) = EdgesMade /\ Len(EdgeList) = Len(ail.edges)
<1> DEFINE parts == [b \in DOMAIN blocks |-> BlockEdges(b)]
           E == EdgesMade
<1>0. /\ LowTypes /\ EdgesShape /\ blocks \in Seq(BlockRecords) /\ Len(blocks) \in Nat
      /\ edges = Len(ail.edges) /\ Len(blocks) = Len(ail.blocks)
      /\ Ins \in Seq(Seq(Nat \X Nat)) /\ Len(Ins) = Len(blocks)
    BY InsType DEF Ready, HasTranslator, EdgesShape, LowTypes
<1>1. DOMAIN blocks = 1..Len(blocks)
    BY <1>0
<1>2. \A b \in 1..Len(blocks) : parts[b] = BlockEdges(b)
    BY <1>1
<1>3. parts \in Seq(Seq(E)) /\ Len(parts) = Len(blocks)
    <2> DEFINE S == Seq(E)
    <2>1. \A b \in 1..Len(blocks) : parts[b] \in S
        BY <1>2, BlockEdgesAre
    <2>2. parts = [b \in 1..Len(blocks) |-> parts[b]]
        BY <1>1
    <2> HIDE DEF S, parts
    <2>3. parts \in Seq(S) /\ Len(parts) = Len(blocks)
        BY <1>0, <2>1, <2>2, ListOf
    <2> QED BY <2>3 DEF S
<1>4. EdgeList = FlattenSeq(parts)
    BY DEF EdgeList
<1> HIDE DEF parts
<1>5. Len(EdgeList) = Len(ail.edges)
    <2>1. \A b \in 1..Len(parts) : Len(parts[b]) = Len(Ins[b])
        BY <1>2, <1>3, BlockEdgesAre
    <2>2. Len(FlattenSeq(parts)) = Len(FlattenSeq(Ins))
        BY <1>0, <1>3, <2>1, SameLengths
    <2> QED BY <1>0, <1>4, <2>2 DEF EdgesShape
<1>6. EdgeList \in Seq(E)
    BY <1>3, <1>4, FlattenType
<1>7. ASSUME NEW n \in 1..Len(ail.edges) PROVE EdgeElement(n) \in ToSet(EdgeList)
    <2> DEFINE b == ail.edges[n][2]
    <2>1. b \in 1..Len(blocks)
        BY <1>0, EdgeEnds
    <2> HIDE DEF b
    <2>2. EdgeElement(n) \in ToSet(parts[b])
        BY <1>2, <2>1, BlockEdgesAre DEF b
    <2> QED BY <1>3, <1>4, <2>1, <2>2, InFlat
<1>8. E \subseteq ToSet(EdgeList)
    BY <1>7 DEF EdgesMade
<1>9. ToSet(EdgeList) \subseteq E
    <2> HIDE DEF E
    <2> QED BY <1>6, InSet
<1> QED BY <1>5, <1>8, <1>9

\* The edges that leave a block are numbered by their places.
LEMMA EdgesCounted ==
    ASSUME Ready, HasTranslator, NEW b \in 1..Len(blocks),
           NEW out, out = {el \in ToSet(EdgeList) : el.end = b}
    PROVE  {el.rev : el \in out} = 0..(Cardinality(out) - 1)
<1> DEFINE M == Len(ail.edges)
           N == {n \in 1..M : ail.edges[n][1] = b}
<1>0. ail \in AilGraphs /\ M \in Nat
    BY AilParts DEF Ready, LowTypes
<1> HIDE DEF M
<1>1. N \subseteq Nat /\ \A n \in N : n < M + 1 /\ n \in 1..M /\ ail.edges[n][1] = b
    BY <1>0
<1>2. \A n \in N : InEdge(ail, n)[2] = Rank(N, n)
    <2> TAKE n \in N
    <2>1. {i \in 1..(n - 1) : ail.edges[i][1] = ail.edges[n][1]} = Below(N, n)
        <3>1. n \in 1..M /\ ail.edges[n][1] = b
            BY <1>1
        <3>2. \A i : i \in Below(N, n) <=> i \in N /\ i \in Nat /\ i < n
            BY <1>0, <1>1, <3>1, InBelow
        <3>3. \A i : i \in 1..(n - 1) /\ ail.edges[i][1] = b <=> i \in N /\ i \in Nat /\ i < n
            BY <1>0, <3>1
        <3> QED BY <3>1, <3>2, <3>3
    <2> HIDE DEF N
    <2> QED BY <2>1 DEF InEdge, Rank
<1>3. out = {EdgeElement(n) : n \in N}
    <2>1. ToSet(EdgeList) = {EdgeElement(n) : n \in 1..M}
        BY EdgesAre DEF EdgesMade, M
    <2>2. \A n : EdgeElement(n).end = ail.edges[n][1]
        BY DEF EdgeElement
    <2> QED BY <2>1, <2>2
<1>4. \A n \in N : EdgeElement(n).rev = Rank(N, n)
    BY <1>2 DEF EdgeElement
<1> HIDE DEF N
<1>5. {el.rev : el \in out} = {Rank(N, n) : n \in N}
    BY <1>3, <1>4
<1>6. {Rank(N, n) : n \in N} = 0..(Cardinality(N) - 1) /\ Cardinality(N) \in Nat
    <2>1. M + 1 \in Nat /\ N \subseteq Nat /\ \A n \in N : n < M + 1
        BY <1>0, <1>1
    <2> QED BY <2>1, RanksBelow
<1>7. ASSUME NEW x \in out, NEW y \in out, x.rev = y.rev PROVE x = y
    <2> PICK m \in N : x = EdgeElement(m)
        BY <1>3
    <2> PICK n \in N : y = EdgeElement(n)
        BY <1>3
    <2>1. Rank(N, m) = Rank(N, n)
        BY <1>4, <1>7
    <2>2. m = n
        BY <1>1, <2>1, RanksDiffer
    <2> QED BY <2>2
<1> QED BY <1>5, <1>6, <1>7, CountedByPlace

-----------------------------------------------------------------------------
(* The table when build() is done *)

\* The table of variables, with what is proved of it.
TP == INSTANCE HighVariablesProofs WITH
          Vars <- Vars \cup {NoVar}, NumValues <- 0,
          chunks <- [k \in 1..NumChunks |-> Seen(text[k])],
          Unified <- {}, Stack <- {}, Registers <- {}, MaxEdits <- 0,
          unified <- <<>>, storage <- <<>>, edits <- <<>>, led <- <<>>, name <- <<>>,
          shown <- TRUE

\* What the table sees of the text.
LEMMA SeenTypes ==
    ASSUME LowTypes, InputTypes
    PROVE  [k \in 1..NumChunks |-> Seen(text[k])] \in [1..NumChunks -> TP!Chunk]
<1>1. refOf \in [SsaValues -> Nat]
    BY OpGraphParts DEF LowTypes
<1>2. ASSUME NEW k \in 1..NumChunks PROVE Seen(text[k]) \in TP!Chunk
    <2> DEFINE c == text[k]
    <2>1. c \in Chunks
        BY DEF InputTypes
    <2> HIDE DEF c
    <2>2. c.var \in Vars \cup {NoVar} /\ c.value \in SsaValues \cup {Nowhere}
        BY <2>1, ChunkTypes DEF AnyVars
    <2>3. (IF c.value = Nowhere THEN 0 ELSE refOf[c.value]) \in Nat
        BY <1>1, <2>2
    <2> QED BY <2>2, <2>3 DEF Seen, TP!Chunk, c
<1> QED BY <1>2

\* What a table is made of where build() has not begun.
LEMMA FreshIsGiven == LowTypes /\ InputTypes /\ Fresh => TP!Given
<1> SUFFICES ASSUME LowTypes, InputTypes, Fresh PROVE TP!Given
    OBVIOUS
<1>1. [k \in 1..NumChunks |-> Seen(text[k])] \in [1..NumChunks -> TP!Chunk]
    BY SeenTypes
<1>2. varnodes \in Seq(Slots \cup {Nowhere}) /\ slot \in [Vars \cup {NoVar} -> Slots \cup {Nowhere}]
    BY OpGraphParts DEF LowTypes, InputTypes, Storages, AnyVars
<1> QED BY <1>1, <1>2 DEF TP!Given, Fresh, AnyVars

\* It has the invariant of HighVariables.
LEMMA FreshHasInv == LowTypes /\ InputTypes /\ Fresh => TP!IInv
BY FreshIsGiven, TP!GivenInv, NowhereAssumption, TextsAssumption

\* The table built here is that of HighVariablesProofs.
LEMMA TableStep == Table!Build => TP!Build
<1>1. Table!Skip => TP!Skip
    BY DEF Table!Skip, Table!Current,
           TP!Skip, TP!Current
<1>2. Table!Claim => TP!Claim
    BY DEF Table!Claim, Table!Current, Table!WithSymbol, Table!OccurrenceRef, Table!Covers, Table!ToSet,
           TP!Claim, TP!Current, TP!WithSymbol, TP!OccurrenceRef, TP!Covers, TP!ToSet
<1>3. Table!Pass => TP!Pass
    BY DEF Table!Pass, Table!Current, Table!WithSymbol, Table!OccurrenceRef, Table!Covers, Table!ToSet,
           TP!Pass, TP!Current, TP!WithSymbol, TP!OccurrenceRef, TP!Covers, TP!ToSet
<1>4. Table!EndFirst => TP!EndFirst
    BY DEF Table!EndFirst,
           TP!EndFirst
<1>5. Table!RepresentByMember => TP!RepresentByMember
    BY DEF Table!RepresentByMember, Table!Symbol,
           TP!RepresentByMember, TP!Symbol
<1>6. Table!RepresentByStorage => TP!RepresentByStorage
    BY DEF Table!RepresentByStorage, Table!Symbol, Table!Represent, Table!Free, Table!First, Table!At, Table!Covers,
           TP!RepresentByStorage, TP!Symbol, TP!Represent, TP!Free, TP!First, TP!At, TP!Covers
<1>7. Table!RepresentByNew => TP!RepresentByNew
    BY DEF Table!RepresentByNew, Table!Symbol, Table!Represent, Table!Free, Table!First, Table!At, Table!Covers,
           TP!RepresentByNew, TP!Symbol, TP!Represent, TP!Free, TP!First, TP!At, TP!Covers
<1>8. Table!EndSecond => TP!EndSecond
    BY DEF Table!EndSecond,
           TP!EndSecond
<1> QED BY <1>1, <1>2, <1>3, <1>4, <1>5, <1>6, <1>7, <1>8 DEF Table!Build, TP!Build

\* What is known of the table when build() is done.
LEMMA BuiltIfDone ==
    ASSUME LowTypes, InputTypes, TP!IInv, pass = "done"
    PROVE  TableBuilt
<1>1. TP!TokensResolve
    BY TP!TokensFromInv, NowhereAssumption, TextsAssumption
<1>2. /\ symbols \in Seq(AnyVars) /\ members \in [AnyVars -> Seq(1..Len(varnodes))]
      /\ rep \in [AnyVars -> 0..Len(varnodes)]
    BY DEF TP!IInv, TP!TypeOK, AnyVars
<1>3. ASSUME NEW i \in 1..Len(symbols)
      PROVE  slot[symbols[i]] # Nowhere /\ rep[symbols[i]] \in ToSet(members[symbols[i]])
    <2>1. symbols[i] \in ToSet(symbols)
        BY <1>2 DEF ToSet
    <2> QED BY <2>1 DEF TP!IInv, TP!SymbolsShown, TP!Represented, TP!ToSet, ToSet
<1>4. ASSUME NEW k \in 1..NumChunks
      PROVE  /\ Table!VarRef(k) \in 0..Len(varnodes)
             /\ Table!VarRef(k) # 0 => /\ text[k].var \in ToSet(symbols)
                                       /\ Table!VarRef(k) \in ToSet(members[text[k].var])
    <2> DEFINE v == text[k].var
    <2>1. Table!VarRef(k) = TP!VarRef(k)
        BY DEF Table!VarRef, TP!VarRef, Table!OccurrenceRef, TP!OccurrenceRef, Table!Covers,
               TP!Covers,
               Table!ToSet, TP!ToSet
    <2>2. Seen(text[k]).var = v /\ v \in AnyVars
        BY ChunkTypes DEF Seen, InputTypes
    <2>3. slot[v] = Nowhere => TP!VarRef(k) = 0
        BY <2>2 DEF TP!VarRef
    <2>4. slot[v] # Nowhere => v \in ToSet(symbols) /\ TP!VarRef(k) \in ToSet(members[v])
        BY <1>1, <2>2 DEF TP!TokensResolve, TP!ToSet, ToSet
    <2>5. ToSet(members[v]) \subseteq 0..Len(varnodes)
        <3>1. members[v] \in Seq(1..Len(varnodes))
            BY <1>2, <2>2
        <3> DEFINE R == 1..Len(varnodes)
        <3>2. R \subseteq 0..Len(varnodes)
            OBVIOUS
        <3>3. ToSet(members[v]) \subseteq R
            <4> HIDE DEF R, v
            <4>1. \A s \in Seq(R) : ToSet(s) \subseteq R
                BY DEF ToSet
            <4> QED BY <3>1, <4>1 DEF R
        <3> QED BY <3>2, <3>3
    <2>6. 0 \in 0..Len(varnodes)
        BY OpGraphParts DEF LowTypes
    <2> HIDE DEF v
    <2> QED BY <2>1, <2>3, <2>4, <2>5, <2>6 DEF v
<1> QED BY <1>2, <1>3, <1>4 DEF TableBuilt
-----------------------------------------------------------------------------
(* The invariant *)

ShownText == FlattenSeq([k \in 1..NumChunks |-> text[k].chars])

\* What is read of the operations and of the edges.
OpsRead(p, made) ==
    /\ DOMAIN p = 1..Len(made)
    /\ \A t \in 1..Len(made) : p[t].time = t /\ p[t].address = made[t].address

EdgesRead(p, g, n) ==
    /\ Len(p) = Len(g.edges)
    /\ \A b \in 1..n : LET out == {el \in ToSet(p) : el.end = b}
                       IN {el.rev : el \in out} = 0..(Cardinality(out) - 1)

\* The response that has been sent.
Sent ==
    /\ DOMAIN doc = 1..Len(doc)
    /\ ShownOf(doc) = ShownText
    /\ Linked(doc, core, symbols)
    /\ HasTranslator /\ Filled(symbols) =>
           /\ OpsRead(PickOf("op", doc), ops)
           /\ EdgesRead(PickOf("edge", doc), ail, Len(blocks))

Phases ==
    /\ lowering = "runs" => Fresh
    /\ lowering = "failed" => lowered = 0
    /\ pass \in {"first", "second", "done", "emitted"}
    /\ lowering # "runs" /\ pass # "emitted" => TP!IInv
    /\ AloneIfNotLowered
    /\ IF pass = "emitted" THEN Ready /\ Sent ELSE doc = <<>>

DocInv == LowTypes /\ BlocksShape /\ EdgesShape /\ InputTypes /\ Phases

\* The invariant holds at the start.
LEMMA InvAtStart == Init => DocInv
<1> SUFFICES ASSUME Init PROVE DocInv
    OBVIOUS
<1>1. LowTypes /\ BlocksShape /\ EdgesShape
    BY TypesAtStart, ShapeAtStart, EdgesAtStart DEF Init
<1>2. InputTypes
    BY TextsAssumption DEF Init, InputTypes, AnyVars, LowInit
<1>3. Fresh /\ lowering = "runs" /\ doc = <<>>
    BY DEF Init, LowInit, Fresh, AnyVars
<1>4. AloneIfNotLowered
    BY <1>3 DEF Fresh, AloneIfNotLowered
<1>5. pass = "first"
    BY <1>3 DEF Fresh
<1> QED BY <1>1, <1>2, <1>3, <1>4, <1>5 DEF DocInv, Phases

\* The lowering keeps the invariant.
LEMMA InvAfterPcode == DocInv /\ BuildPcode => DocInv'
<1> SUFFICES ASSUME DocInv, BuildPcode PROVE DocInv'
    OBVIOUS
<1>0. Lower /\ LowTypes /\ BlocksShape /\ EdgesShape /\ InputTypes /\ Phases
    BY DEF DocInv, BuildPcode
<1>1. LowTypes' /\ BlocksShape' /\ EdgesShape'
    BY <1>0, TypesKept, ShapeKept, EdgesKept
<1>2. lowering = "runs"
    BY <1>0 DEF Lower, OpenBlock, LowerStatement, AddEdge, Translated, TranslationFails
<1>3. Fresh /\ doc = <<>>
    BY <1>0, <1>2 DEF Phases, Fresh
<1>4. InputTypes'
    BY <1>0 DEF BuildPcode, inputVars, InputTypes
<1>5. Fresh' /\ doc' = <<>> /\ pass' = "first"
    BY <1>3 DEF BuildPcode, tableVars, Fresh
<1>6. TP!IInv'
    <2>1. (LowTypes /\ InputTypes /\ Fresh => TP!IInv)'
        BY FreshHasInv, PTL
    <2> QED BY <1>1, <1>4, <1>5, <2>1
<1>7. AloneIfNotLowered'
    BY <1>5 DEF Fresh, AloneIfNotLowered
<1>8. lowering' = "failed" => lowered' = 0
    <2>1. lowering' = "failed" => TranslationFails
        BY <1>0, <1>2 DEF Lower, OpenBlock, LowerStatement, AddEdge, Translated
    <2>2. TranslationFails => varnodes' = <<>>
        BY DEF TranslationFails
    <2> QED BY <2>1, <2>2 DEF BuildPcode
<1> QED BY <1>1, <1>4, <1>5, <1>6, <1>7, <1>8 DEF DocInv, Phases

\* Steps that leave the operations alone.
LEMMA OpsStay ==
    ASSUME LowTypes, BlocksShape, EdgesShape, InputTypes,
           UNCHANGED <<ail, refOf, ops, blocks, through, edges, lowering, inputVars>>,
           varnodes' \in Seq(Storages), Len(varnodes) <= Len(varnodes')
    PROVE  LowTypes' /\ BlocksShape' /\ EdgesShape' /\ InputTypes'
<1>1. OpGraph' \in Sound
    <2>1. OpGraph \in Sound /\ varnodes \in Seq(Storages) /\ refOf \in [SsaValues -> Nat]
          /\ ops \in Seq(Operations)
        BY OpGraphParts DEF LowTypes
    <2>2. OpGraph' = [varnodes |-> varnodes', refOf |-> refOf, ops |-> ops]
        BY DEF OpGraph
    <2> DEFINE h == [varnodes |-> varnodes', refOf |-> refOf, ops |-> ops]
    <2>3. h \in Graphs
        BY <2>1 DEF Graphs
    <2>4. h.refOf = OpGraph.refOf /\ h.ops = OpGraph.ops /\ h.varnodes = varnodes'
          /\ OpGraph.varnodes = varnodes
        BY DEF OpGraph
    <2> HIDE DEF h
    <2>5. Grown(OpGraph, h)
        BY <2>1, <2>3, <2>4, SoundWithMore
    <2> QED BY <2>2, <2>5 DEF Grown, h
<1>2. LowTypes'
    BY <1>1 DEF LowTypes
<1>3. BlocksShape'
    BY DEF BlocksShape
<1>4. EdgesShape'
    BY EdgesOfSame DEF Ins, EdgesShape
<1>5. InputTypes'
    BY DEF InputTypes, inputVars
<1> QED BY <1>2, <1>3, <1>4, <1>5

\* Without a lowering no occurrence claims a varnode.
LEMMA AloneAfterTable ==
    ASSUME TP!IInv, AloneIfNotLowered, TP!Build
    PROVE  AloneIfNotLowered'
<1>0. /\ members \in [AnyVars -> Seq(1..Len(varnodes))]
      /\ rep \in [AnyVars -> 0..Len(varnodes)]
      /\ symbols \in Seq(AnyVars) /\ lowered \in Nat /\ at \in Nat \ {0}
    BY DEF TP!IInv, TP!TypeOK, AnyVars
<1> SUFFICES ASSUME lowered' = 0, NEW v \in AnyVars
             PROVE  members'[v] = <<>> \/ members'[v] = <<rep'[v]>>
    BY DEF AloneIfNotLowered
<1>1. lowered = 0
    BY DEF TP!Build, TP!Skip, TP!Claim, TP!Pass, TP!EndFirst, TP!RepresentByMember,
           TP!RepresentByStorage, TP!RepresentByNew, TP!Represent, TP!EndSecond
<1>2. members[v] = <<>> \/ members[v] = <<rep[v]>>
    BY <1>1 DEF AloneIfNotLowered
<1>3. CASE TP!Skip \/ TP!Pass \/ TP!EndFirst \/ TP!EndSecond
    BY <1>2, <1>3 DEF TP!Skip, TP!Pass, TP!EndFirst, TP!EndSecond
<1>4. CASE TP!Claim
    BY <1>0, <1>1, <1>4 DEF TP!Claim, TP!OccurrenceRef
<1>5. CASE TP!RepresentByMember
    <2> DEFINE s == symbols[at]
    <2>1. s \in AnyVars /\ members' = members /\ rep' = [rep EXCEPT ![s] = members[s][1]]
          /\ members[s] # <<>>
        BY <1>0, <1>5 DEF TP!RepresentByMember, TP!Symbol
    <2> HIDE DEF s
    <2>2. members[s] = <<rep[s]>>
        BY <1>1, <2>1 DEF AloneIfNotLowered
    <2>3. rep'[v] = rep[v]
        BY <1>0, <2>1, <2>2
    <2> QED BY <1>2, <2>1, <2>3
<1>6. ASSUME NEW ref, TP!Represent(ref), at <= Len(symbols), members[symbols[at]] = <<>>
      PROVE  members'[v] = <<>> \/ members'[v] = <<rep'[v]>>
    <2> DEFINE s == symbols[at]
    <2>1. /\ s \in AnyVars /\ members[s] = <<>>
          /\ rep' = [rep EXCEPT ![s] = ref]
          /\ members' = [members EXCEPT ![s] = Append(@, ref)]
        BY <1>0, <1>6 DEF TP!Represent, TP!Symbol
    <2> HIDE DEF s
    <2>2. members'[s] = <<ref>> /\ rep'[s] = ref
        BY <1>0, <2>1
    <2>3. v # s => members'[v] = members[v] /\ rep'[v] = rep[v]
        BY <1>0, <2>1
    <2> QED BY <1>2, <2>2, <2>3
<1>7. CASE TP!RepresentByStorage
    BY <1>6, <1>7 DEF TP!RepresentByStorage, TP!Symbol
<1>8. CASE TP!RepresentByNew
    BY <1>6, <1>8 DEF TP!RepresentByNew, TP!Symbol
<1> QED BY <1>3, <1>4, <1>5, <1>7, <1>8 DEF TP!Build

\* The table keeps the invariant.
LEMMA InvAfterTable == DocInv /\ BuildTable => DocInv'
<1> SUFFICES ASSUME DocInv, BuildTable PROVE DocInv'
    OBVIOUS
<1>0. LowTypes /\ BlocksShape /\ EdgesShape /\ InputTypes /\ Phases
    BY DEF DocInv
<1>1. TP!Build /\ lowering # "runs" /\ lowering' = lowering /\ lowered' = lowered /\ doc' = doc
    BY TableStep DEF BuildTable
<1>2. pass \in {"first", "second"} /\ pass' \in {"first", "second", "done"}
    BY <1>1 DEF TP!Build, TP!Skip, TP!Claim, TP!Pass, TP!EndFirst, TP!RepresentByMember,
           TP!RepresentByStorage, TP!RepresentByNew, TP!Represent, TP!EndSecond
<1>3. TP!IInv /\ AloneIfNotLowered /\ doc = <<>> /\ (lowering = "failed" => lowered = 0)
    BY <1>0, <1>1, <1>2 DEF Phases
<1>4. TP!IInv'
    BY <1>1, <1>3, TP!StepInv, NowhereAssumption, TextsAssumption
<1>5. AloneIfNotLowered'
    BY <1>1, <1>3, AloneAfterTable
<1>6. LowTypes' /\ BlocksShape' /\ EdgesShape' /\ InputTypes'
    <2>1. varnodes' \in Seq(Storages)
        BY <1>4 DEF TP!IInv, TP!TypeOK, Storages
    <2>2. Len(varnodes) <= Len(varnodes')
        BY <1>1, <1>3, TP!VarnodesStay, NowhereAssumption, TextsAssumption DEF TP!IInv
    <2>3. UNCHANGED <<ail, refOf, ops, blocks, through, edges, lowering, inputVars>>
        BY DEF BuildTable
    <2> QED BY <1>0, <2>1, <2>2, <2>3, OpsStay
<1> QED BY <1>1, <1>2, <1>3, <1>4, <1>5, <1>6 DEF DocInv, Phases

\* The response of a table that is done.
LEMMA SentIs ==
    ASSUME Ready, NEW d, d = Model \o Markup
    PROVE  /\ DOMAIN d = 1..Len(d)
           /\ ShownOf(d) = ShownText
           /\ Linked(d, core, symbols)
           /\ HasTranslator /\ Filled(symbols) =>
                  /\ OpsRead(PickOf("op", d), ops)
                  /\ EdgesRead(PickOf("edge", d), ail, Len(blocks))
<1> DEFINE D == DocElements
<1>1. /\ d \in Seq(D) /\ Linked(d, core, symbols)
      /\ ShownOf(d) = FlattenSeq([k \in 1..NumChunks |-> text[k].chars])
    BY ResponseIs
<1> HIDE DEF D
<1>2. DOMAIN d = 1..Len(d)
    BY <1>1
<1>3. ASSUME HasTranslator, Filled(symbols)
      PROVE  OpsRead(PickOf("op", d), ops) /\ EdgesRead(PickOf("edge", d), ail, Len(blocks))
    <2> DEFINE p == PickOf("op", d)
               q == PickOf("edge", d)
    <2>1. p = AllOps(Len(ops)) /\ q = EdgeList
        BY <1>3, GraphPicked
    <2>2. OpsRead(p, ops)
        <3>1. p = [t \in 1..Len(ops) |-> OpElement(t)]
            BY <2>1 DEF AllOps
        <3> HIDE DEF p
        <3> QED BY <3>1 DEF OpsRead, OpElement
    <2>3. EdgesRead(q, ail, Len(blocks))
        <3>1. Len(q) = Len(ail.edges)
            BY <1>3, <2>1, EdgesAre
        <3>2. ASSUME NEW b \in 1..Len(blocks), NEW out, out = {el \in ToSet(q) : el.end = b}
              PROVE  {el.rev : el \in out} = 0..(Cardinality(out) - 1)
            BY <1>3, <2>1, <3>2, EdgesCounted
        <3> HIDE DEF q
        <3> QED BY <3>1, <3>2 DEF EdgesRead
    <2> QED BY <2>2, <2>3
<1> QED BY <1>1, <1>2, <1>3 DEF ShownText

\* The types of the input and of the graph, when nothing of them changes.
LEMMA GraphStays ==
    ASSUME LowTypes, BlocksShape, EdgesShape, InputTypes, UNCHANGED <<lowVars, inputVars>>
    PROVE  LowTypes' /\ BlocksShape' /\ EdgesShape' /\ InputTypes'
<1>1. varnodes \in Seq(Storages) /\ varnodes' = varnodes /\ Len(varnodes) \in Nat
    BY OpGraphParts DEF LowTypes, lowVars
<1>2. UNCHANGED <<ail, refOf, ops, blocks, through, edges, lowering, inputVars>>
    BY DEF lowVars
<1>3. varnodes' \in Seq(Storages) /\ Len(varnodes) <= Len(varnodes')
    BY <1>1
<1> QED BY <1>2, <1>3, OpsStay

\* What a response is made of, when nothing of it changes.
LEMMA ReadyStays ==
    ASSUME Ready, UNCHANGED <<lowVars, inputVars, lowered, symbols, members, rep, claimed>>
    PROVE  Ready'
<1>1. LowTypes' /\ BlocksShape' /\ EdgesShape' /\ InputTypes'
    BY GraphStays DEF Ready
<1>2. lowering' = lowering /\ lowered' = lowered
    BY DEF lowVars
<1>3. TableBuilt'
    <2>1. TableBuilt
        BY DEF Ready
    <2>2. /\ text' = text /\ slot' = slot /\ refOf' = refOf /\ varnodes' = varnodes
          /\ lowered' = lowered /\ members' = members /\ rep' = rep /\ symbols' = symbols
        BY DEF lowVars, inputVars
    <2>3. ASSUME NEW k \in 1..NumChunks
          PROVE  /\ Table!VarRef(k)' \in 0..Len(varnodes)
                 /\ Table!VarRef(k)' # 0 => /\ text[k].var \in ToSet(symbols)
                                           /\ Table!VarRef(k)' \in ToSet(members[text[k].var])
        <3>1. Table!VarRef(k)' = Table!VarRef(k)
            BY <2>2 DEF Table!VarRef, Table!OccurrenceRef, Table!Covers, Seen
        <3> QED BY <2>1, <3>1 DEF TableBuilt
    <2> QED BY <2>1, <2>2, <2>3 DEF TableBuilt
<1>4. AloneIfNotLowered'
    <2>1. AloneIfNotLowered
        BY DEF Ready
    <2> QED BY <2>1 DEF AloneIfNotLowered
<1> QED BY <1>1, <1>2, <1>3, <1>4 DEF Ready

\* A response that is right where it is made is right after it is sent.
LEMMA SentStays ==
    ASSUME UNCHANGED <<lowVars, inputVars, symbols>>, NEW d, d = doc',
           DOMAIN d = 1..Len(d),
           ShownOf(d) = ShownText,
           Linked(d, core, symbols),
           HasTranslator /\ Filled(symbols) =>
                  /\ OpsRead(PickOf("op", d), ops)
                  /\ EdgesRead(PickOf("edge", d), ail, Len(blocks))
    PROVE  Sent'
<1>1. core' = core /\ symbols' = symbols /\ ops' = ops /\ ail' = ail /\ blocks' = blocks
      /\ text' = text /\ lowering' = lowering
    BY DEF lowVars, inputVars
<1>2. ShownText' = ShownText
    BY <1>1 DEF ShownText
<1>3. HasTranslator' = HasTranslator
    BY <1>1 DEF HasTranslator
<1> QED BY <1>1, <1>2, <1>3 DEF Sent

\* The response is what the invariant says.
LEMMA InvAfterEmit == DocInv /\ EmitDoc => DocInv'
<1> SUFFICES ASSUME DocInv, EmitDoc PROVE DocInv'
    OBVIOUS
<1>0. LowTypes /\ BlocksShape /\ EdgesShape /\ InputTypes /\ Phases
    BY DEF DocInv
<1>1. pass = "done" /\ pass' = "emitted" /\ doc' = Model \o Markup
      /\ UNCHANGED <<lowVars, inputVars, lowered, symbols, members, rep, claimed>>
    BY DEF EmitDoc
<1>2. lowering # "runs" /\ TP!IInv /\ AloneIfNotLowered /\ (lowering = "failed" => lowered = 0)
    BY <1>0, <1>1 DEF Phases, Fresh
<1>3. Ready
    BY <1>0, <1>1, <1>2, BuiltIfDone DEF Ready
<1>4. Ready'
    BY <1>1, <1>3, ReadyStays
<1>5. Sent'
    BY <1>1, <1>3, SentIs, SentStays
<1>6. lowering' = lowering
    BY <1>1 DEF lowVars
<1> QED BY <1>1, <1>2, <1>4, <1>5, <1>6 DEF DocInv, Phases, Ready

\* A step that changes nothing keeps the invariant.
LEMMA InvAfterNothing == DocInv /\ UNCHANGED vars => DocInv'
<1> SUFFICES ASSUME DocInv, UNCHANGED vars PROVE DocInv'
    OBVIOUS
<1>0. LowTypes /\ BlocksShape /\ EdgesShape /\ InputTypes /\ Phases
    BY DEF DocInv
<1>1. UNCHANGED <<lowVars, inputVars, lowered, symbols, members, rep, claimed, pass, at, doc>>
    BY DEF vars, tableVars
<1>2. LowTypes' /\ BlocksShape' /\ EdgesShape' /\ InputTypes'
    BY <1>0, <1>1, GraphStays
<1>3. lowering' = lowering
    BY <1>1 DEF lowVars
<1>4. lowering = "runs" => Fresh'
    BY <1>0, <1>1 DEF Phases, Fresh, lowVars
<1>5. AloneIfNotLowered'
    BY <1>0, <1>1 DEF Phases, AloneIfNotLowered
<1>6. lowering # "runs" /\ pass # "emitted" => TP!IInv'
    <2>1. UNCHANGED TP!vars
        BY <1>1 DEF TP!vars, lowVars, inputVars, Seen
    <2> QED BY <1>0, <2>1, TP!StepInv, NowhereAssumption, TextsAssumption DEF Phases
<1>7. CASE pass = "emitted"
    <2>1. Ready /\ Sent
        BY <1>0, <1>7 DEF Phases
    <2>2. Ready'
        BY <1>1, <2>1, ReadyStays
    <2>3. Sent'
        BY <1>1, <2>1, SentStays DEF Sent
    <2> QED BY <1>0, <1>1, <1>2, <1>3, <1>4, <1>5, <1>7, <2>2, <2>3 DEF DocInv, Phases
<1>8. CASE pass # "emitted"
    BY <1>0, <1>1, <1>2, <1>3, <1>4, <1>5, <1>6, <1>8 DEF DocInv, Phases
<1> QED BY <1>7, <1>8

\* The invariant always holds.
LEMMA DocInvHolds == Spec => []DocInv
<1>1. DocInv /\ [Next]_vars => DocInv'
    BY InvAfterPcode, InvAfterTable, InvAfterEmit, InvAfterNothing DEF Next
<1> QED BY <1>1, InvAtStart, PTL DEF Spec

\* The text of a response.
THEOREM TextIsAlwaysShown == Spec => []TextIsShown
<1>1. DocInv => TextIsShown
    BY DEF DocInv, Phases, Sent, TextIsShown, ShownOf, ShownText, Shown
<1> QED BY <1>1, DocInvHolds, PTL

\* What has been read before a place, and what of it is of one kind.
LEMMA BeforeIs ==
    ASSUME NEW i \in Nat, NEW seen, seen = {doc[j] : j \in 1..(i - 1)}
    PROVE  /\ \A kind : Before(i, kind) = {x \in seen : x.kind = kind}
           /\ VarnodesBefore(i) = RefsIn(seen)
           /\ {b.index : b \in Before(i, "block")} = BlocksIn(seen)
<1>1. ASSUME NEW kind PROVE Before(i, kind) = {x \in seen : x.kind = kind}
    BY DEF Before
<1>2. Before(i, "varnode") = {x \in seen : x.kind = "varnode"}
    BY <1>1
<1>3. Before(i, "block") = {x \in seen : x.kind = "block"}
    BY <1>1
<1> QED BY <1>1, <1>2, <1>3 DEF VarnodesBefore, RefsIn, BlocksIn

\* Fine says of an element what ReferencesResolve says of it.
LEMMA FineResolves ==
    ASSUME NEW i \in Nat, NEW el, NEW seen, seen = {doc[j] : j \in 1..(i - 1)},
           Fine(el, seen, core, symbols)
    PROVE  CASE el.kind = "op" ->
                    ToSet(el.inputs) \cup ({el.output} \ {0}) \subseteq VarnodesBefore(i)
             [] el.kind = "edge" ->
                    {el.to, el.end} \subseteq {b.index : b \in Before(i, "block")}
             [] el.kind = "symbol" -> core = {} \/ el.type \in core
             [] el.kind = "high" ->
                    /\ core = {} \/ el.type \in core
                    /\ \E s \in Before(i, "symbol") : s.var = el.symref
                    /\ ToSet(el.members) \subseteq VarnodesBefore(i)
                    /\ el.repref \in ToSet(el.members)
             [] el.kind = "token" ->
                    /\ el.varref # 0 =>
                           \E h \in Before(i, "high") : el.varref \in ToSet(h.members)
                    /\ el.opref # 0 /\ symbols # <<>> =>
                           \E op \in Before(i, "op") : op.time = el.opref
             [] OTHER -> TRUE
<1>1. /\ VarnodesBefore(i) = RefsIn(seen)
      /\ {b.index : b \in Before(i, "block")} = BlocksIn(seen)
    BY BeforeIs
<1>2. ASSUME NEW kind PROVE Before(i, kind) = {x \in seen : x.kind = kind}
    BY DEF Before
<1>3. CASE el.kind = "op"
    BY <1>1, <1>3 DEF Fine
<1>4. CASE el.kind = "edge"
    BY <1>1, <1>4 DEF Fine
<1>5. CASE el.kind = "symbol"
    BY <1>5 DEF Fine
<1>6. CASE el.kind = "high"
    <2>1. /\ core = {} \/ el.type \in core
          /\ \E s \in seen : s.kind = "symbol" /\ s.var = el.symref
          /\ ToSet(el.members) \subseteq RefsIn(seen)
          /\ el.repref \in ToSet(el.members)
        BY <1>6 DEF Fine
    <2>2. \E s \in Before(i, "symbol") : s.var = el.symref
        BY <1>2, <2>1
    <2> QED BY <1>1, <1>6, <2>1, <2>2
<1>7. CASE el.kind = "token"
    <2>1. /\ el.varref # 0 => \E h \in seen : h.kind = "high" /\ el.varref \in ToSet(h.members)
          /\ el.opref # 0 /\ symbols # <<>> =>
                 \E op \in seen : op.kind = "op" /\ op.time = el.opref
        BY <1>7 DEF Fine
    <2>2. el.varref # 0 => \E h \in Before(i, "high") : el.varref \in ToSet(h.members)
        BY <1>2, <2>1
    <2>3. el.opref # 0 /\ symbols # <<>> => \E op \in Before(i, "op") : op.time = el.opref
        BY <1>2, <2>1
    <2> QED BY <1>7, <2>2, <2>3
<1>8. CASE el.kind \notin {"op", "edge", "symbol", "high", "token"}
    BY <1>8
<1> QED BY <1>3, <1>4, <1>5, <1>6, <1>7, <1>8

\* In every response everything resolves.
LEMMA ResolvesFromInv == DocInv => ReferencesResolve
<1> SUFFICES ASSUME DocInv PROVE ReferencesResolve
    OBVIOUS
<1>1. CASE pass = "emitted"
    <2>1. Sent
        BY <1>1 DEF DocInv, Phases
    <2>2. ASSUME NEW i \in DOMAIN doc
          PROVE  i \in Nat /\ Fine(doc[i], {doc[j] : j \in 1..(i - 1)}, core, symbols)
        BY <2>1 DEF Sent, Linked
    <2> QED BY <2>2, FineResolves DEF ReferencesResolve
<1>2. CASE pass # "emitted"
    <2>1. doc = <<>>
        BY <1>2 DEF DocInv, Phases
    <2>2. DOMAIN doc = {}
        BY <2>1
    <2> QED BY <2>2 DEF ReferencesResolve
<1> QED BY <1>1, <1>2

\* Nothing dangles.
THEOREM ReferencesAlwaysResolve == Spec => []ReferencesResolve
BY ResolvesFromInv, DocInvHolds, PTL

\* The operation of a token that has one.
LEMMA NamesRead ==
    ASSUME Ready, HasTranslator, NEW p, OpsRead(p, ops), NEW k \in 1..NumChunks,
           NEW tok \in ToSet(ChunkTokens(k)), tok.kind = "token",
           tok.tag \in {"variable", "funcname", "op"}
    PROVE  \/ \E j \in DOMAIN p : p[j].time = tok.opref /\ p[j].address = text[k].address
           \/ /\ tok.opref = 0
              /\ \A j \in DOMAIN p : text[k].address \in {0} \/ p[j].address # text[k].address
<1> DEFINE c == text[k]
           O == OfChunk(k)
<1>1. c \in Chunks /\ ChunkTokens(k) \in Seq(O)
    BY RefsOfChunks, ChunkIsShown DEF ChunkRefs
<1>2. tok \in O
    <2> HIDE DEF O
    <2> QED BY <1>1, InSet
<1>3. tok.opref = OpRef(c)
    BY <1>2 DEF OfChunk, ElementsOf
<1> HIDE DEF O, c
<1>4. CASE OpRef(c) # 0
    <2>1. OpRef(c) \in 1..Len(ops) /\ ops[OpRef(c)].address = c.address
        BY <1>1, <1>4, OpRefIs
    <2>2. OpRef(c) \in DOMAIN p /\ p[OpRef(c)].time = OpRef(c) /\ p[OpRef(c)].address = c.address
        BY <2>1 DEF OpsRead
    <2> QED BY <1>3, <2>2 DEF c
<1>5. CASE OpRef(c) = 0
    <2>1. c.address # 0 => \A t \in 1..Len(ops) : ops[t].address # c.address
        BY <1>1, <1>5, OpRefIs
    <2>2. \A j \in DOMAIN p : c.address \in {0} \/ p[j].address # c.address
        BY <2>1 DEF OpsRead
    <2> QED BY <1>3, <1>5, <2>2 DEF c
<1> QED BY <1>4, <1>5

\* The graph of every response is read back.
LEMMA ReadBackFromInv == DocInv => GraphIsReadBack
<1> SUFFICES ASSUME DocInv, pass = "emitted", HasTranslator, symbols # <<>>
             PROVE  GraphIsReadBack
    BY DEF GraphIsReadBack
<1>1. /\ Ready /\ OpsRead(PickOf("op", doc), ops)
      /\ EdgesRead(PickOf("edge", doc), ail, Len(blocks))
    BY DEF DocInv, Phases, Sent, Filled
<1>2. Elements("op") = PickOf("op", doc) /\ Elements("edge") = PickOf("edge", doc)
    BY DEF Elements, PickOf
<1> DEFINE p == Elements("op")
           q == Elements("edge")
<1>3. OpsRead(p, ops) /\ EdgesRead(q, ail, Len(blocks))
    BY <1>1, <1>2
<1> HIDE DEF p, q
<1>4. ASSUME NEW k \in 1..NumChunks, NEW tok \in ToSet(ChunkTokens(k)),
             tok.kind = "token", tok.tag \in {"variable", "funcname", "op"}
      PROVE  \/ \E j \in DOMAIN p : p[j].time = tok.opref /\ p[j].address = text[k].address
             \/ /\ tok.opref = 0
                /\ \A j \in DOMAIN p :
                      text[k].address \in {0} \/ p[j].address # text[k].address
    BY <1>1, <1>3, <1>4, NamesRead
<1>5. DOMAIN ops = 1..Len(ops) /\ DOMAIN blocks = 1..Len(blocks)
    BY <1>1, OpGraphParts DEF Ready, LowTypes
<1>6. [j \in DOMAIN p |-> p[j].time] = [t \in DOMAIN ops |-> t]
    BY <1>3, <1>5 DEF OpsRead
<1>7. Len(q) = Len(ail.edges)
    BY <1>3 DEF EdgesRead
<1>8. \A b \in DOMAIN blocks :
          LET out == {el \in ToSet(q) : el.end = b}
          IN {el.rev : el \in out} = 0..(Cardinality(out) - 1)
    BY <1>3, <1>5 DEF EdgesRead
<1> QED BY <1>4, <1>6, <1>7, <1>8 DEF GraphIsReadBack, p, q

\* The op graph comes back as it is.
THEOREM GraphIsAlwaysReadBack == Spec => []GraphIsReadBack
BY ReadBackFromInv, DocInvHolds, PTL

-----------------------------------------------------------------------------
(* What the varnodes of a graph carry *)

\* What is no temporary: the varnodes of values, and 0.
Named(g) == {0} \cup {g.refOf[v] : v \in SsaValues}

\* What the inputs of an operation carry, by what each varnode carries.
Carried(src, ins) == UNION {src[ins[i]] : i \in 1..Len(ins)}

\* The operations that write a varnode, and those that read it.
Writers(g, r) == {t \in 1..Len(g.ops) : g.ops[t].output = r}
Readers(g, r) ==
    {t \in 1..Len(g.ops) : \E i \in 1..Len(g.ops[t].inputs) : g.ops[t].inputs[i] = r}

\* A varnode carries the value it is of; a temporary, what is read by the
\* operations that write it, which are before those that read it.
Flows(g, src) ==
    /\ g \in Sound
    /\ src \in [1..Len(g.varnodes) -> SUBSET SsaValues]
    /\ \A v \in SsaValues : g.refOf[v] # 0 => src[g.refOf[v]] = {v}
    /\ \A r \in 1..Len(g.varnodes) : r \notin Named(g) =>
          /\ src[r] = UNION {Carried(src, g.ops[u].inputs) : u \in Writers(g, r)}
          /\ \A u \in Writers(g, r) : \A t \in Readers(g, r) : u < t

\* The times of the operations that write no temporary.
Times(g) ==
    FlattenSeq([t \in DOMAIN g.ops |-> IF g.ops[t].output \in Named(g) THEN <<t>> ELSE <<>>])

\* A later graph, in which what there was carries what it did, and only
\* temporaries have been written.
Continues(g, src, h, k) ==
    /\ Grown(g, h)
    /\ \A r \in 1..Len(g.varnodes) : k[r] = src[r]
    /\ \A v \in SsaValues : IF g.refOf[v] # 0 THEN h.refOf[v] = g.refOf[v]
                            ELSE h.refOf[v] = 0 \/ h.refOf[v] > Len(g.varnodes)
    /\ \A t \in 1..Len(g.ops) : h.ops[t] = g.ops[t]
    /\ Times(h) = Times(g)

\* Something is computed: a temporary is written that carries it.
Computed(g, src, values) ==
    \E t \in 1..Len(g.ops) :
        g.ops[t].output \notin Named(g) /\ Carried(src, g.ops[t].inputs) = values

\* What a sound graph consists of.
LEMMA SoundParts ==
    ASSUME NEW g \in Sound
    PROVE  /\ g \in Graphs /\ Len(g.varnodes) \in Nat /\ Len(g.ops) \in Nat
           /\ g.ops \in Seq(Operations) /\ g.refOf \in [SsaValues -> Nat]
           /\ DOMAIN g.ops = 1..Len(g.ops)
           /\ \A v \in SsaValues : g.refOf[v] \in 0..Len(g.varnodes)
           /\ \A t \in 1..Len(g.ops) :
                 /\ g.ops[t].output \in 0..Len(g.varnodes)
                 /\ g.ops[t].inputs \in Seq(1..Len(g.varnodes))
                 /\ Len(g.ops[t].inputs) \in Nat
                 /\ \A i \in 1..Len(g.ops[t].inputs) : g.ops[t].inputs[i] \in 1..Len(g.varnodes)
<1>1. g \in Graphs
    BY DEF Sound
<1>2. /\ Len(g.varnodes) \in Nat /\ Len(g.ops) \in Nat
      /\ g.ops \in Seq(Operations) /\ g.refOf \in [SsaValues -> Nat]
    BY <1>1, GraphParts
<1>3. DOMAIN g.ops = 1..Len(g.ops)
    BY <1>2
<1>4. /\ \A v \in SsaValues : g.refOf[v] \in 0..Len(g.varnodes)
      /\ \A t \in 1..Len(g.ops) :
             g.ops[t].output \in 0..Len(g.varnodes) /\ g.ops[t].inputs \in Seq(1..Len(g.varnodes))
    BY DEF Sound
<1>5. ASSUME NEW R, NEW s \in Seq(R) PROVE Len(s) \in Nat /\ \A i \in 1..Len(s) : s[i] \in R
    OBVIOUS
<1> QED BY <1>1, <1>2, <1>3, <1>4, <1>5

\* What inputs carry depends on the varnodes they are only.
LEMMA CarriedSame ==
    ASSUME NEW n \in Nat, NEW ins \in Seq(1..n), NEW src, NEW k,
           \A r \in 1..n : k[r] = src[r]
    PROVE  Carried(k, ins) = Carried(src, ins)
<1>1. \A i \in 1..Len(ins) : ins[i] \in 1..n
    OBVIOUS
<1>2. \A i \in 1..Len(ins) : k[ins[i]] = src[ins[i]]
    BY <1>1
<1> QED BY <1>2 DEF Carried

\* The inputs of an operation carry what they did.
LEMMA StillCarried ==
    ASSUME NEW g \in Sound, NEW src, NEW h, NEW k, Continues(g, src, h, k), NEW t \in 1..Len(g.ops)
    PROVE  /\ h.ops[t] = g.ops[t]
           /\ Carried(k, g.ops[t].inputs) = Carried(src, g.ops[t].inputs)
<1>1. Len(g.varnodes) \in Nat /\ g.ops[t].inputs \in Seq(1..Len(g.varnodes))
    BY SoundParts
<1>2. \A r \in 1..Len(g.varnodes) : k[r] = src[r]
    BY DEF Continues
<1>3. h.ops[t] = g.ops[t]
    BY DEF Continues
<1> DEFINE N == Len(g.varnodes)
           ins == g.ops[t].inputs
<1>4. N \in Nat /\ ins \in Seq(1..N) /\ \A r \in 1..N : k[r] = src[r]
    BY <1>1, <1>2
<1> HIDE DEF N, ins
<1>5. Carried(k, ins) = Carried(src, ins)
    BY ONLY <1>4, CarriedSame
<1> QED BY <1>3, <1>5 DEF ins

\* An output that there was is of a value if it was.
LEMMA NamedStays ==
    ASSUME NEW g \in Sound, NEW src, NEW h, NEW k, Continues(g, src, h, k),
           NEW r \in 0..Len(g.varnodes)
    PROVE  r \in Named(h) <=> r \in Named(g)
<1>1. Len(g.varnodes) \in Nat /\ \A v \in SsaValues : g.refOf[v] \in 0..Len(g.varnodes)
    BY SoundParts
<1>2. \A v \in SsaValues : IF g.refOf[v] # 0 THEN h.refOf[v] = g.refOf[v]
                           ELSE h.refOf[v] = 0 \/ h.refOf[v] > Len(g.varnodes)
    BY DEF Continues
<1>3. ASSUME r \in Named(h) PROVE r \in Named(g)
    <2>1. CASE r = 0
        BY <2>1 DEF Named
    <2>2. CASE r # 0
        <3>1. PICK v \in SsaValues : r = h.refOf[v]
            BY <1>3, <2>2 DEF Named
        <3>2. g.refOf[v] # 0
            BY <1>1, <1>2, <2>2, <3>1
        <3> QED BY <1>2, <3>1, <3>2 DEF Named
    <2> QED BY <2>1, <2>2
<1>4. ASSUME r \in Named(g) PROVE r \in Named(h)
    <2>1. CASE r = 0
        BY <2>1 DEF Named
    <2>2. CASE r # 0
        <3>1. PICK v \in SsaValues : r = g.refOf[v]
            BY <1>4, <2>2 DEF Named
        <3> QED BY <1>2, <2>2, <3>1 DEF Named
    <2> QED BY <2>1, <2>2
<1> QED BY <1>3, <1>4

\* A graph continues itself.
LEMMA ContinuesSelf ==
    ASSUME NEW g \in Sound, NEW src
    PROVE  Continues(g, src, g, src)
<1>1. Len(g.varnodes) \in Nat /\ Len(g.ops) \in Nat
    BY SoundParts
<1> QED BY <1>1 DEF Continues, Grown

\* What continues a continuation continues the first graph.
LEMMA ContinuesTrans ==
    ASSUME NEW g \in Sound, NEW src, NEW h, NEW k, NEW i, NEW l,
           Continues(g, src, h, k), Continues(h, k, i, l)
    PROVE  Continues(g, src, i, l)
<1>1. /\ h \in Sound /\ Len(g.varnodes) <= Len(h.varnodes) /\ Len(g.ops) <= Len(h.ops)
      /\ Len(g.varnodes) \in Nat /\ Len(h.varnodes) \in Nat
      /\ Len(g.ops) \in Nat /\ Len(h.ops) \in Nat
    BY SoundParts DEF Continues, Grown
<1>2. Grown(g, i)
    BY <1>1, GrownTrans DEF Continues
<1>3. ASSUME NEW r \in 1..Len(g.varnodes) PROVE l[r] = src[r]
    <2>1. r \in 1..Len(h.varnodes)
        BY <1>1
    <2> QED BY <2>1 DEF Continues
<1>4. ASSUME NEW t \in 1..Len(g.ops) PROVE i.ops[t] = g.ops[t]
    <2>1. t \in 1..Len(h.ops)
        BY <1>1
    <2> QED BY <2>1 DEF Continues
<1>5. ASSUME NEW v \in SsaValues
      PROVE  IF g.refOf[v] # 0 THEN i.refOf[v] = g.refOf[v]
             ELSE i.refOf[v] = 0 \/ i.refOf[v] > Len(g.varnodes)
    <2>1. /\ IF g.refOf[v] # 0 THEN h.refOf[v] = g.refOf[v]
             ELSE h.refOf[v] = 0 \/ h.refOf[v] > Len(g.varnodes)
          /\ IF h.refOf[v] # 0 THEN i.refOf[v] = h.refOf[v]
             ELSE i.refOf[v] = 0 \/ i.refOf[v] > Len(h.varnodes)
        BY DEF Continues
    <2>2. i.refOf[v] \in Nat
        <3>1. i \in Sound
            BY <1>2 DEF Grown
        <3> QED BY <3>1, SoundParts
    <2> QED BY <1>1, <2>1, <2>2
<1>6. Times(i) = Times(g)
    BY DEF Continues
<1> QED BY <1>2, <1>3, <1>4, <1>5, <1>6 DEF Continues

\* What is computed stays so.
LEMMA ComputedStays ==
    ASSUME NEW g \in Sound, NEW src, NEW h, NEW k, Continues(g, src, h, k), NEW values,
           Computed(g, src, values)
    PROVE  Computed(h, k, values)
<1>1. PICK t \in 1..Len(g.ops) :
          g.ops[t].output \notin Named(g) /\ Carried(src, g.ops[t].inputs) = values
    BY DEF Computed
<1>2. h.ops[t] = g.ops[t] /\ Carried(k, g.ops[t].inputs) = Carried(src, g.ops[t].inputs)
    BY StillCarried
<1>3. g.ops[t].output \notin Named(h)
    <2>1. g.ops[t].output \in 0..Len(g.varnodes)
        BY SoundParts
    <2> QED BY <1>1, <2>1, NamedStays
<1>4. t \in 1..Len(h.ops)
    <2>1. h \in Sound /\ Len(g.ops) <= Len(h.ops)
        BY DEF Continues, Grown
    <2>2. Len(g.ops) \in Nat /\ Len(h.ops) \in Nat
        BY <2>1, SoundParts
    <2> QED BY <2>1, <2>2
<1> QED BY <1>1, <1>2, <1>3, <1>4 DEF Computed

\* Whether a time is one at which no temporary is written.
Time(g, t) == IF g.ops[t].output \in Named(g) THEN <<t>> ELSE <<>>

\* Times are numbers.
LEMMA TimesType ==
    ASSUME NEW g \in Sound
    PROVE  /\ [t \in DOMAIN g.ops |-> Time(g, t)] \in Seq(Seq(Nat))
           /\ Times(g) = FlattenSeq([t \in DOMAIN g.ops |-> Time(g, t)])
           /\ Times(g) \in Seq(Nat) /\ Len(Times(g)) \in Nat
<1>1. DOMAIN g.ops = 1..Len(g.ops) /\ Len(g.ops) \in Nat
    BY SoundParts
<1>2. \A t \in 1..Len(g.ops) : Time(g, t) \in Seq(Nat)
    <2>1. \A t \in 1..Len(g.ops) : <<t>> \in Seq(Nat) /\ <<>> \in Seq(Nat)
        OBVIOUS
    <2> QED BY <2>1 DEF Time
<1>3. [t \in DOMAIN g.ops |-> Time(g, t)] \in Seq(Seq(Nat))
    BY <1>1, <1>2
<1>4. Times(g) = FlattenSeq([t \in DOMAIN g.ops |-> Time(g, t)])
    BY DEF Times, Time
<1>5. Times(g) \in Seq(Nat)
    BY <1>3, <1>4, FlattenType
<1> QED BY <1>3, <1>4, <1>5, LenProperties

\* The times are the same where the operations are.
LEMMA TimesSame ==
    ASSUME NEW g \in Sound, NEW h, h.ops = g.ops,
           \A r \in 0..Len(g.varnodes) : r \in Named(h) <=> r \in Named(g)
    PROVE  Times(h) = Times(g)
<1>1. \A t \in DOMAIN g.ops : g.ops[t].output \in Named(h) <=> g.ops[t].output \in Named(g)
    BY SoundParts
<1> QED BY <1>1 DEF Times

\* An operation more.
LEMMA TimesEmit ==
    ASSUME NEW g \in Sound, NEW h \in Sound, NEW op, h.ops = Append(g.ops, op),
           op \in Operations, h.refOf = g.refOf
    PROVE  Times(h) = IF op.output \in Named(g) THEN Append(Times(g), Len(g.ops) + 1) ELSE Times(g)
<1> DEFINE n == Len(g.ops) + 1
           imG == [t \in DOMAIN g.ops |-> Time(g, t)]
           imH == [t \in DOMAIN h.ops |-> Time(h, t)]
<1>1. /\ Len(g.ops) \in Nat /\ Len(h.ops) = n /\ DOMAIN g.ops = 1..Len(g.ops)
      /\ DOMAIN h.ops = 1..n /\ h.ops[n] = op /\ \A t \in 1..Len(g.ops) : h.ops[t] = g.ops[t]
    BY SoundParts, AppendProperties
<1>2. Named(h) = Named(g)
    BY DEF Named
<1>3. /\ imG \in Seq(Seq(Nat)) /\ imH \in Seq(Seq(Nat))
      /\ Times(g) = FlattenSeq(imG) /\ Times(h) = FlattenSeq(imH) /\ Times(g) \in Seq(Nat)
    BY TimesType
<1>4. Len(imG) = Len(g.ops) /\ Len(imH) = n
    BY <1>1, <1>3
<1>5. \A t \in 1..Len(g.ops) : imH[t] = imG[t]
    BY <1>1, <1>2 DEF Time
<1>6. imH[n] = Time(h, n) /\ n \in Nat
    BY <1>1
<1>7. Time(h, n) = (IF op.output \in Named(g) THEN <<n>> ELSE <<>>)
    BY <1>1, <1>2 DEF Time
<1> HIDE DEF imG, imH, n
<1>8. Time(h, n) \in Seq(Nat)
    BY <1>6, <1>7
<1> DEFINE S == Seq(Nat)
           x == Time(h, n)
<1>14. n = Len(g.ops) + 1
    BY DEF n
<1> HIDE DEF S, x
<1>15. /\ imG \in Seq(S) /\ imH \in Seq(S) /\ x \in S
       /\ Len(imH) = Len(imG) + 1 /\ imH[Len(imG) + 1] = x
       /\ \A t \in 1..Len(imG) : imH[t] = imG[t]
    BY <1>3, <1>4, <1>5, <1>6, <1>8, <1>14 DEF S, x
<1>9. imH = Append(imG, Time(h, n))
    <2>1. imH = Append(imG, x)
        BY ONLY <1>15, AppendEqual, SMTT(30)
    <2> QED BY <2>1 DEF x
<1>10. Times(h) = Times(g) \o Time(h, n)
    BY <1>3, <1>8, <1>9, FlattenAppend
<1>11. CASE op.output \in Named(g)
    <2>1. Times(g) \o <<n>> = Append(Times(g), n)
        BY <1>3, <1>6, AppendIsConcat
    <2> QED BY <1>7, <1>10, <1>11, <2>1 DEF n
<1>12. CASE op.output \notin Named(g)
    <2>1. Times(g) \o <<>> = Times(g)
        BY <1>3, ConcatEmptySeq
    <2> QED BY <1>7, <1>10, <1>12, <2>1
<1> QED BY <1>11, <1>12

\* What is carried, of a graph that flows.
LEMMA FlowParts ==
    ASSUME NEW g, NEW src, Flows(g, src)
    PROVE  /\ g \in Sound /\ src \in [1..Len(g.varnodes) -> SUBSET SsaValues]
           /\ \A r \in 1..Len(g.varnodes) : src[r] \in SUBSET SsaValues
           /\ \A ins \in Seq(1..Len(g.varnodes)) : Carried(src, ins) \in SUBSET SsaValues
<1>1. g \in Sound /\ src \in [1..Len(g.varnodes) -> SUBSET SsaValues]
    BY DEF Flows
<1>2. \A r \in 1..Len(g.varnodes) : src[r] \in SUBSET SsaValues
    BY <1>1
<1>3. ASSUME NEW ins \in Seq(1..Len(g.varnodes)) PROVE Carried(src, ins) \in SUBSET SsaValues
    <2>1. \A i \in 1..Len(ins) : ins[i] \in 1..Len(g.varnodes)
        OBVIOUS
    <2>2. \A i \in 1..Len(ins) : src[ins[i]] \in SUBSET SsaValues
        BY <1>2, <2>1
    <2> QED BY <2>2 DEF Carried
<1> QED BY <1>1, <1>2, <1>3

\* A graph gets a varnode more, of a value (the one in S) that has none, or of none.
Widened(g, h, S) ==
    /\ h \in Sound /\ S \in SUBSET SsaValues
    /\ \A v \in S : S = {v} /\ g.refOf[v] = 0
    /\ Len(h.varnodes) = Len(g.varnodes) + 1 /\ h.ops = g.ops
    /\ \A v \in SsaValues :
           h.refOf[v] = IF v \in S THEN Len(g.varnodes) + 1 ELSE g.refOf[v]

\* The new varnode can carry what it is of.
Carries(g, src, h, S) ==
    \E k : Flows(h, k) /\ Continues(g, src, h, k) /\ k[Len(g.varnodes) + 1] = S

\* A new varnode carries what it is of, or nothing yet.
LEMMA FlowMore ==
    ASSUME NEW g, NEW src, Flows(g, src), NEW h, NEW S, Widened(g, h, S)
    PROVE  Carries(g, src, h, S)
<1>0. /\ h \in Sound /\ S \in SUBSET SsaValues
      /\ \A v \in S : S = {v} /\ g.refOf[v] = 0
      /\ Len(h.varnodes) = Len(g.varnodes) + 1 /\ h.ops = g.ops
      /\ \A v \in SsaValues :
             h.refOf[v] = IF v \in S THEN Len(g.varnodes) + 1 ELSE g.refOf[v]
    BY DEF Widened
<1> USE <1>0
<1> DEFINE N == Len(g.varnodes)
           k == [r \in 1..(N + 1) |-> IF r = N + 1 THEN S ELSE src[r]]
<1>1. /\ g \in Sound /\ N \in Nat /\ Len(g.ops) \in Nat
      /\ \A r \in 1..N : src[r] \in SUBSET SsaValues
      /\ \A v \in SsaValues : g.refOf[v] \in 0..N
      /\ \A t \in 1..Len(g.ops) : g.ops[t].output \in 0..N /\ g.ops[t].inputs \in Seq(1..N)
      /\ \A t \in 1..Len(g.ops) : \A i \in 1..Len(g.ops[t].inputs) : g.ops[t].inputs[i] \in 1..N
    BY FlowParts, SoundParts
<1>2. /\ k \in [1..(N + 1) -> SUBSET SsaValues] /\ k[N + 1] = S
      /\ \A r \in 1..N : k[r] = src[r]
    BY <1>1
<1> HIDE DEF k
<1>3. Len(h.varnodes) = N + 1
    OBVIOUS
<1>4. ASSUME NEW r \in 0..N PROVE r \in Named(h) <=> r \in Named(g)
    <2>1. ASSUME NEW v \in SsaValues, r = h.refOf[v] PROVE r \in Named(g)
        BY <1>1, <2>1 DEF Named
    <2>2. ASSUME NEW v \in SsaValues, r = g.refOf[v] PROVE r \in Named(h)
        <3>1. CASE v \in S
            BY <2>2, <3>1 DEF Named
        <3>2. CASE v \notin S
            BY <2>2, <3>2 DEF Named
        <3> QED BY <3>1, <3>2
    <2>3. 0 \in Named(g) /\ 0 \in Named(h)
        BY DEF Named
    <2> QED BY <2>1, <2>2, <2>3 DEF Named
<1>5. \A v \in SsaValues : h.refOf[v] # 0 => k[h.refOf[v]] = {v}
    <2> SUFFICES ASSUME NEW v \in SsaValues, h.refOf[v] # 0 PROVE k[h.refOf[v]] = {v}
        OBVIOUS
    <2>1. CASE v \in S
        BY <1>2, <2>1
    <2>2. CASE v \notin S
        <3>1. h.refOf[v] = g.refOf[v] /\ g.refOf[v] \in 1..N
            BY <1>1, <2>2
        <3>2. src[g.refOf[v]] = {v}
            BY <3>1 DEF Flows
        <3> QED BY <1>2, <3>1, <3>2
    <2> QED BY <2>1, <2>2
<1>6. ASSUME NEW t \in 1..Len(g.ops)
      PROVE  Carried(k, g.ops[t].inputs) = Carried(src, g.ops[t].inputs)
    <2> DEFINE ins == g.ops[t].inputs
    <2>1. N \in Nat /\ ins \in Seq(1..N) /\ \A r \in 1..N : k[r] = src[r]
        BY <1>1, <1>2
    <2> HIDE DEF N, ins
    <2>2. Carried(k, ins) = Carried(src, ins)
        BY ONLY <2>1, CarriedSame
    <2> QED BY <2>2 DEF ins
<1>7. ASSUME NEW r \in 1..(N + 1), r \notin Named(h)
      PROVE  /\ k[r] = UNION {Carried(k, h.ops[u].inputs) : u \in Writers(h, r)}
             /\ \A u \in Writers(h, r) : \A t \in Readers(h, r) : u < t
    <2>1. /\ Writers(h, r) = Writers(g, r) /\ Readers(h, r) = Readers(g, r)
          /\ \A u \in Writers(g, r) : u \in 1..Len(g.ops)
        BY DEF Writers, Readers
    <2>2. CASE r = N + 1
        <3>1. Writers(g, r) = {}
            BY <1>1, <2>2 DEF Writers
        <3>2. S = {}
            <4>1. ASSUME NEW v \in S PROVE FALSE
                <5>1. h.refOf[v] = N + 1
                    OBVIOUS
                <5> QED BY <1>7, <2>2, <5>1 DEF Named
            <4> QED BY <4>1
        <3> QED BY <1>2, <2>1, <2>2, <3>1, <3>2
    <2>3. CASE r \in 1..N
        <3>1. r \notin Named(g)
            BY <1>4, <1>7, <2>3
        <3>2. /\ src[r] = UNION {Carried(src, g.ops[u].inputs) : u \in Writers(g, r)}
              /\ \A u \in Writers(g, r) : \A t \in Readers(g, r) : u < t
            BY <2>3, <3>1 DEF Flows
        <3>3. \A u \in Writers(g, r) :
                  Carried(k, h.ops[u].inputs) = Carried(src, g.ops[u].inputs)
            BY <1>6, <2>1
        <3>4. UNION {Carried(k, h.ops[u].inputs) : u \in Writers(h, r)}
                  = UNION {Carried(src, g.ops[u].inputs) : u \in Writers(g, r)}
            BY <2>1, <3>3
        <3>5. k[r] = src[r]
            BY <1>2, <2>3
        <3> QED BY <2>1, <3>2, <3>4, <3>5
    <2> QED BY <1>1, <2>2, <2>3
<1>8. Flows(h, k)
    BY <1>2, <1>3, <1>5, <1>7 DEF Flows
<1>9. Times(h) = Times(g)
    BY <1>1, <1>4, TimesSame
<1>10. Grown(g, h)
    BY <1>1, <1>3 DEF Grown
<1>11. \A v \in SsaValues : IF g.refOf[v] # 0 THEN h.refOf[v] = g.refOf[v]
                            ELSE h.refOf[v] = 0 \/ h.refOf[v] > N
    BY <1>1
<1>12. Continues(g, src, h, k)
    BY <1>2, <1>9, <1>10, <1>11 DEF Continues
<1> QED BY <1>2, <1>8, <1>12 DEF Carries

\* An operation that writes a new temporary, which carries what it reads.
LEMMA FlowTemp ==
    ASSUME NEW g, NEW src, Flows(g, src), NEW h \in Sound, NEW op \in Operations,
           op.inputs \in Seq(1..Len(g.varnodes)), op.output = Len(g.varnodes) + 1,
           Len(h.varnodes) = Len(g.varnodes) + 1, h.refOf = g.refOf, h.ops = Append(g.ops, op)
    PROVE  \E k : /\ Flows(h, k) /\ Continues(g, src, h, k)
                  /\ k[op.output] = Carried(src, op.inputs)
                  /\ Computed(h, k, Carried(src, op.inputs))
<1> DEFINE N == Len(g.varnodes)
           M == Len(g.ops)
           X == Carried(src, op.inputs)
           k == [r \in 1..(N + 1) |-> IF r = N + 1 THEN X ELSE src[r]]
<1>1. /\ g \in Sound /\ N \in Nat /\ M \in Nat
      /\ \A r \in 1..N : src[r] \in SUBSET SsaValues
      /\ \A v \in SsaValues : g.refOf[v] \in 0..N
      /\ \A t \in 1..M : g.ops[t].output \in 0..N /\ g.ops[t].inputs \in Seq(1..N)
      /\ \A t \in 1..M : \A i \in 1..Len(g.ops[t].inputs) : g.ops[t].inputs[i] \in 1..N
      /\ X \in SUBSET SsaValues
    BY FlowParts, SoundParts
<1>0. N \in Nat /\ M \in Nat
    BY <1>1
<1>2. /\ k \in [1..(N + 1) -> SUBSET SsaValues] /\ k[N + 1] = X
      /\ \A r \in 1..N : k[r] = src[r]
    <2>1. X \in SUBSET SsaValues /\ \A r \in 1..N : src[r] \in SUBSET SsaValues
        BY <1>1
    <2> HIDE DEF X, N
    <2> QED BY <1>0, <2>1
<1>16. /\ \A t \in 1..M : g.ops[t].output \in 0..N
       /\ \A t \in 1..M : \A i \in 1..Len(g.ops[t].inputs) : g.ops[t].inputs[i] \in 1..N
    BY <1>1
<1>3. \A i \in 1..Len(op.inputs) : op.inputs[i] \in 1..N
    OBVIOUS
<1>4. /\ Len(h.ops) = M + 1 /\ h.ops[M + 1] = op /\ \A t \in 1..M : h.ops[t] = g.ops[t]
    BY <1>1, SoundParts, AppendProperties
<1> HIDE DEF k, X, M
<1>5. Named(h) = Named(g) /\ \A r \in Named(g) : r \in 0..N
    BY <1>1 DEF Named
<1>6. ASSUME NEW t \in 1..M
      PROVE  Carried(k, h.ops[t].inputs) = Carried(src, g.ops[t].inputs)
    <2>1. g.ops[t].inputs \in Seq(1..N) /\ h.ops[t] = g.ops[t]
        BY <1>1, <1>4
    <2> HIDE DEF N
    <2> QED BY <1>0, <1>2, <2>1, CarriedSame
<1>17. op.inputs \in Seq(1..N) /\ \A r \in 0..N : r # N + 1
    BY <1>0
<1>18. h.ops[M + 1].inputs = op.inputs
    BY <1>4
<1>7. Carried(k, h.ops[M + 1].inputs) = X
    <2>1. \A r \in 1..N : k[r] = src[r]
        BY <1>2
    <2> HIDE DEF N
    <2>2. Carried(k, op.inputs) = Carried(src, op.inputs)
        BY <1>0, <1>17, <2>1, CarriedSame
    <2> QED BY <1>18, <2>2 DEF X
<1>8. \A v \in SsaValues : h.refOf[v] # 0 => k[h.refOf[v]] = {v}
    <2> SUFFICES ASSUME NEW v \in SsaValues, h.refOf[v] # 0 PROVE k[h.refOf[v]] = {v}
        OBVIOUS
    <2>1. h.refOf[v] = g.refOf[v] /\ g.refOf[v] \in 1..N
        BY <1>1
    <2>2. src[g.refOf[v]] = {v}
        BY <2>1 DEF Flows
    <2> QED BY <1>2, <2>1, <2>2
<1>9. ASSUME NEW r \in 1..(N + 1), r \notin Named(h)
      PROVE  /\ k[r] = UNION {Carried(k, h.ops[u].inputs) : u \in Writers(h, r)}
             /\ \A u \in Writers(h, r) : \A t \in Readers(h, r) : u < t
    <2>1. CASE r = N + 1
        <3>1. ASSUME NEW t \in 1..M PROVE h.ops[t].output # N + 1
            <4>1. h.ops[t].output \in 0..N
                BY <1>4, <1>16
            <4> HIDE DEF N
            <4> QED BY <1>17, <4>1
        <3>2. Writers(h, r) = {M + 1}
            BY <1>0, <1>4, <2>1, <3>1 DEF Writers
        <3>3. ASSUME NEW t \in 1..(M + 1), NEW i \in 1..Len(h.ops[t].inputs)
              PROVE  h.ops[t].inputs[i] # N + 1
            <4>1. CASE t = M + 1
                <5>1. i \in 1..Len(op.inputs) /\ h.ops[t].inputs[i] = op.inputs[i]
                    BY <1>18, <4>1
                <5>2. op.inputs[i] \in 1..N
                    BY <1>3, <5>1
                <5> HIDE DEF N
                <5> QED BY <1>0, <5>1, <5>2
            <4>2. CASE t \in 1..M
                <5>1. i \in 1..Len(g.ops[t].inputs) /\ h.ops[t].inputs[i] = g.ops[t].inputs[i]
                    BY <1>4, <4>2
                <5>2. g.ops[t].inputs[i] \in 1..N
                    BY <1>16, <4>2, <5>1
                <5> HIDE DEF N
                <5> QED BY <1>0, <5>1, <5>2
            <4>3. t = M + 1 \/ t \in 1..M
                BY <1>0
            <4> QED BY <4>1, <4>2, <4>3
        <3>4. Readers(h, r) = {}
            BY <1>4, <2>1, <3>3 DEF Readers
        <3>5. UNION {Carried(k, h.ops[u].inputs) : u \in Writers(h, r)} = X
            BY <1>7, <3>2
        <3>6. k[r] = X
            BY <1>2, <2>1
        <3> QED BY <3>4, <3>5, <3>6
    <2>2. CASE r \in 1..N
        <3>1. r \notin Named(g)
            BY <1>5, <1>9
        <3>2. /\ src[r] = UNION {Carried(src, g.ops[u].inputs) : u \in Writers(g, r)}
              /\ \A u \in Writers(g, r) : \A t \in Readers(g, r) : u < t
            BY <2>2, <3>1 DEF Flows
        <3>3. Writers(h, r) = Writers(g, r) /\ \A u \in Writers(g, r) : u \in 1..M
            <4>1. op.output # r
                BY <1>1, <2>2
            <4> QED BY <1>1, <1>4, <4>1 DEF Writers, M
        <3>4. \A u \in Writers(g, r) :
                  Carried(k, h.ops[u].inputs) = Carried(src, g.ops[u].inputs)
            BY <1>6, <3>3
        <3>5. UNION {Carried(k, h.ops[u].inputs) : u \in Writers(h, r)}
                  = UNION {Carried(src, g.ops[u].inputs) : u \in Writers(g, r)}
            BY <3>3, <3>4
        <3>6. k[r] = src[r]
            BY <1>2, <2>2
        <3>7. ASSUME NEW u \in Writers(h, r), NEW t \in Readers(h, r) PROVE u < t
            <4>1. u \in 1..M /\ u \in Writers(g, r)
                BY <3>3
            <4>2. CASE t = M + 1
                BY <1>0, <4>1, <4>2
            <4>3. CASE t \in 1..M
                <5>1. t \in Readers(g, r)
                    BY <1>4, <4>3 DEF Readers, M
                <5> QED BY <3>2, <4>1, <5>1
            <4>4. t \in 1..(M + 1)
                BY <1>4 DEF Readers
            <4> QED BY <1>0, <4>2, <4>3, <4>4
        <3> QED BY <3>2, <3>5, <3>6, <3>7
    <2>3. r \in 1..N \/ r = N + 1
        BY <1>0
    <2> QED BY <2>1, <2>2, <2>3
<1>10. Flows(h, k)
    BY <1>2, <1>8, <1>9 DEF Flows
<1>11. Times(h) = Times(g)
    <2>1. op.output \notin Named(g)
        BY <1>1, <1>5
    <2> QED BY <1>1, <2>1, TimesEmit
<1>12. Grown(g, h)
    BY <1>1, <1>4 DEF Grown, M
<1>13. \A v \in SsaValues : IF g.refOf[v] # 0 THEN h.refOf[v] = g.refOf[v]
                            ELSE h.refOf[v] = 0 \/ h.refOf[v] > N
    OBVIOUS
<1>14. Continues(g, src, h, k)
    BY <1>2, <1>4, <1>11, <1>12, <1>13 DEF Continues, M
<1>15. Computed(h, k, X)
    <2>1. M + 1 \in 1..Len(h.ops) /\ h.ops[M + 1].output \notin Named(h)
        BY <1>1, <1>4, <1>5
    <2> QED BY <1>7, <2>1 DEF Computed
<1> QED BY <1>2, <1>10, <1>14, <1>15 DEF X

\* An operation that writes a value's varnode, or none.
LEMMA FlowEmit ==
    ASSUME NEW g, NEW src, Flows(g, src), NEW h \in Sound, NEW op \in Operations,
           op.inputs \in Seq(1..Len(g.varnodes)), op.output \in Named(g),
           h.varnodes = g.varnodes, h.refOf = g.refOf, h.ops = Append(g.ops, op)
    PROVE  Flows(h, src) /\ Times(h) = Append(Times(g), Len(g.ops) + 1)
<1> DEFINE N == Len(g.varnodes)
           M == Len(g.ops)
<1>1. /\ g \in Sound /\ N \in Nat /\ M \in Nat
    BY FlowParts, SoundParts
<1>2. /\ Len(h.ops) = M + 1 /\ h.ops[M + 1] = op /\ \A t \in 1..M : h.ops[t] = g.ops[t]
    BY <1>1, SoundParts, AppendProperties
<1> HIDE DEF M
<1>3. Named(h) = Named(g)
    BY DEF Named
<1>4. ASSUME NEW r \in 1..N, r \notin Named(h)
      PROVE  /\ src[r] = UNION {Carried(src, h.ops[u].inputs) : u \in Writers(h, r)}
             /\ \A u \in Writers(h, r) : \A t \in Readers(h, r) : u < t
    <2>1. /\ src[r] = UNION {Carried(src, g.ops[u].inputs) : u \in Writers(g, r)}
          /\ \A u \in Writers(g, r) : \A t \in Readers(g, r) : u < t
        BY <1>3, <1>4 DEF Flows
    <2>2. Writers(h, r) = Writers(g, r) /\ \A u \in Writers(g, r) : u \in 1..M
        <3>1. op.output # r
            BY <1>3, <1>4
        <3> QED BY <1>1, <1>2, <3>1 DEF Writers, M
    <2>3. \A u \in Writers(g, r) : h.ops[u] = g.ops[u]
        BY <1>2, <2>2
    <2>4. UNION {Carried(src, h.ops[u].inputs) : u \in Writers(h, r)}
              = UNION {Carried(src, g.ops[u].inputs) : u \in Writers(g, r)}
        BY <2>2, <2>3
    <2>5. ASSUME NEW u \in Writers(h, r), NEW t \in Readers(h, r) PROVE u < t
        <3>1. u \in 1..M /\ u \in Writers(g, r)
            BY <2>2
        <3>2. CASE t = M + 1
            BY <1>1, <3>1, <3>2
        <3>3. CASE t \in 1..M
            <4>1. t \in Readers(g, r)
                BY <1>2, <3>3 DEF Readers, M
            <4> QED BY <2>1, <3>1, <4>1
        <3>4. t \in 1..(M + 1)
            BY <1>2 DEF Readers
        <3> QED BY <1>1, <3>2, <3>3, <3>4
    <2> QED BY <2>1, <2>4, <2>5
<1>5. Flows(h, src)
    BY <1>4 DEF Flows
<1>6. Times(h) = Append(Times(g), Len(g.ops) + 1)
    BY <1>1, TimesEmit
<1> QED BY <1>5, <1>6

\* What a lowering results in: a continuation, and a varnode of it that carries
\* some values, and is computed where that is asked for.
Yields(g, src, r, values, computes) ==
    \E k : /\ Flows(r.graph, k) /\ Continues(g, src, r.graph, k)
           /\ r.ref \in 1..Len(r.graph.varnodes) /\ k[r.ref] = values
           /\ computes => Computed(r.graph, k, values)

Traces(l, values, computes) ==
    \A a \in Nat : \A g, src : Flows(g, src) => Yields(g, src, l[a][g], values, computes)

\* A constant, and what is not lowered, carries nothing.
LEMMA FlowNew ==
    ASSUME NEW g, NEW src, Flows(g, src)
    PROVE  Yields(g, src, New(g, Nowhere), {}, FALSE)
<1> DEFINE r == New(g, Nowhere)
<1>1. g \in Sound /\ g \in Graphs /\ Nowhere \in Storages
    BY FlowParts, SoundParts DEF Storages
<1>2. /\ r.graph.refOf = g.refOf /\ r.graph.ops = g.ops
      /\ Len(r.graph.varnodes) = Len(g.varnodes) + 1 /\ r.ref = Len(g.varnodes) + 1
    BY <1>1, NewIs
<1>3. r.graph \in Sound /\ r.ref \in 1..Len(r.graph.varnodes)
    BY <1>1, NewGrows DEF Grown
<1> DEFINE S == {}
<1>4. S \in SUBSET SsaValues /\ \A v : v \notin S
    OBVIOUS
<1> DEFINE h == r.graph
<1> HIDE DEF r, S
<1>5. \A v \in S : S = {v} /\ g.refOf[v] = 0
    BY <1>4
<1>6. \A v \in SsaValues : h.refOf[v] = IF v \in S THEN Len(g.varnodes) + 1 ELSE g.refOf[v]
    BY <1>2, <1>4
<1>7. h \in Sound /\ Len(h.varnodes) = Len(g.varnodes) + 1 /\ h.ops = g.ops
    BY <1>2, <1>3
<1>8. \E k : Flows(h, k) /\ Continues(g, src, h, k) /\ k[Len(g.varnodes) + 1] = S
    <2>1. S \in SUBSET SsaValues
        BY <1>4
    <2> HIDE DEF h
    <2>2. Widened(g, h, S)
        BY <1>5, <1>6, <1>7, <2>1 DEF Widened
    <2>3. Carries(g, src, h, S)
        BY <2>2, FlowMore
    <2> QED BY <2>3 DEF Carries
<1> QED BY <1>2, <1>3, <1>8 DEF Yields, r, S

\* A variable's varnode carries its value.
LEMMA FlowVvar ==
    ASSUME ail \in AilGraphs, NEW v \in SsaValues, NEW g, NEW src, Flows(g, src)
    PROVE  /\ Yields(g, src, Vvar(v, g), {v}, FALSE)
           /\ Vvar(v, g).graph.refOf[v] = Vvar(v, g).ref
<1> DEFINE r == Vvar(v, g)
<1>1. g \in Sound /\ g \in Graphs /\ Len(g.varnodes) \in Nat /\ g.refOf \in [SsaValues -> Nat]
    BY FlowParts, SoundParts
<1>2. r.graph \in Sound /\ r.ref \in 1..Len(r.graph.varnodes)
    BY <1>1, VvarGrows DEF Grown
<1>3. CASE g.refOf[v] # 0
    <2>1. r.graph = g /\ r.ref = g.refOf[v]
        <3>1. r = [graph |-> g, ref |-> g.refOf[v]]
            BY <1>1, <1>3, VvarIs
        <3> HIDE DEF r
        <3> QED BY <3>1
    <2> HIDE DEF r
    <2>2. src[g.refOf[v]] = {v}
        BY <1>3 DEF Flows
    <2>3. Continues(g, src, g, src)
        BY <1>1, ContinuesSelf
    <2> QED BY <1>2, <2>1, <2>2, <2>3 DEF Yields, r
<1>4. CASE g.refOf[v] = 0
    <2> DEFINE new == New(g, ail.storage[v])
    <2>1. /\ r.ref = new.ref /\ r.graph.varnodes = new.graph.varnodes
          /\ r.graph.refOf = [g.refOf EXCEPT ![v] = new.ref] /\ r.graph.ops = g.ops
        BY <1>1, <1>4, VvarIs
    <2>2. new.ref = Len(g.varnodes) + 1 /\ Len(new.graph.varnodes) = Len(g.varnodes) + 1
        BY <1>1, StorageTyped, NewIs
    <2> HIDE DEF new, r
    <2>3. /\ Len(r.graph.varnodes) = Len(g.varnodes) + 1 /\ r.ref = Len(g.varnodes) + 1
          /\ r.graph.ops = g.ops
          /\ r.graph.refOf = [g.refOf EXCEPT ![v] = Len(g.varnodes) + 1]
        BY <2>1, <2>2
    <2>4. \A u \in SsaValues :
              r.graph.refOf[u] = IF u \in {v} THEN Len(g.varnodes) + 1 ELSE g.refOf[u]
        BY <1>1, <2>3
    <2>5. \A u \in {v} : {v} = {u} /\ g.refOf[u] = 0
        BY <1>4
    <2> DEFINE h == r.graph
               S == {v}
    <2>6. \E k : Flows(h, k) /\ Continues(g, src, h, k) /\ k[Len(g.varnodes) + 1] = S
        <3>1. h \in Sound /\ Len(h.varnodes) = Len(g.varnodes) + 1 /\ h.ops = g.ops
            BY <1>2, <2>3
        <3>2. \A u \in SsaValues :
                  h.refOf[u] = IF u \in S THEN Len(g.varnodes) + 1 ELSE g.refOf[u]
            BY <2>4
        <3>3. \A u \in S : S = {u} /\ g.refOf[u] = 0
            BY <2>5
        <3>4. S \in SUBSET SsaValues
            OBVIOUS
        <3> HIDE DEF h, S
        <3>5. Widened(g, h, S)
            BY <3>1, <3>2, <3>3, <3>4 DEF Widened
        <3>6. Carries(g, src, h, S)
            BY <3>5, FlowMore
        <3> QED BY <3>6 DEF Carries
    <2>7. r.graph.refOf[v] = r.ref
        BY <2>3, <2>4
    <2>8. \E k : /\ Flows(r.graph, k) /\ Continues(g, src, r.graph, k)
                 /\ r.ref \in 1..Len(r.graph.varnodes) /\ k[r.ref] = {v}
        BY <1>2, <2>3, <2>6
    <2>9. Yields(g, src, r, {v}, FALSE)
        BY <2>8 DEF Yields
    <2> QED BY <2>7, <2>9 DEF r
<1> QED BY <1>3, <1>4

\* Operands, one after the other: each reference carries what its operand reads.
LEMMA OperandsTrace ==
    ASSUME NEW ls \in Seq(Lowerings), NEW a \in Nat, NEW g, NEW src, Flows(g, src),
           NEW values, NEW computes, \A i \in 1..Len(ls) : Traces(ls[i], values[i], computes[i])
    PROVE  LET all == Operands(ls, a, g)
           IN \E k : /\ Flows(all.graph, k) /\ Continues(g, src, all.graph, k)
                     /\ all.refs \in Seq(1..Len(all.graph.varnodes))
                     /\ Carried(k, all.refs) = UNION {values[i] : i \in 1..Len(ls)}
                     /\ \A i \in 1..Len(ls) : computes[i] => Computed(all.graph, k, values[i])
<1> DEFINE N == Len(ls)
<1>1. N \in Nat /\ g \in Sound /\ g \in Graphs
    BY FlowParts, SoundParts
<1>2. PICK h \in [0..N -> Several] : Operated(h, ls, a, g) /\ Operands(ls, a, g) = h[N]
    BY <1>1, OperandsUnfold
<1> DEFINE Good(n, k) ==
               /\ Flows(h[n].graph, k) /\ Continues(g, src, h[n].graph, k)
               /\ h[n].refs \in Seq(1..Len(h[n].graph.varnodes))
               /\ Len(h[n].refs) = n
               /\ \A i \in 1..n : k[h[n].refs[i]] = values[i]
               /\ \A i \in 1..n : computes[i] => Computed(h[n].graph, k, values[i])
           P == {n \in Nat : \E k : Good(n, k)}
<1>3. 0 \in P
    <2>1. h[0].graph = g /\ h[0].refs = <<>>
        BY <1>2 DEF Operated, NoOperands
    <2>2. Continues(g, src, g, src)
        BY <1>1, ContinuesSelf
    <2>3. Good(0, src)
        BY <2>1, <2>2
    <2> QED BY <2>3
<1>4. ASSUME NEW n \in 1..N, n - 1 \in P PROVE n \in P
    <2> DEFINE m == n - 1
               b == h[m]
               new == ls[n][a][b.graph]
    <2>1. h[n] = AfterOperand(ls[n], a, b)
        BY <1>2 DEF Operated
    <2>2. h[n].graph = new.graph /\ h[n].refs = Append(b.refs, new.ref)
        <3> HIDE DEF b
        <3>1. h[n] = [graph |-> new.graph, refs |-> Append(b.refs, new.ref)]
            BY <2>1 DEF AfterOperand
        <3> HIDE DEF new
        <3> QED BY <3>1
    <2>3. PICK k : Good(m, k)
        BY <1>4
    <2>4. n \in Nat /\ m \in Nat /\ n = m + 1 /\ \A i \in 1..n : i = n \/ i \in 1..m
        BY <1>1
    <2>5. Traces(ls[n], values[n], computes[n])
        OBVIOUS
    <2>6. /\ Flows(b.graph, k) /\ Continues(g, src, b.graph, k)
          /\ b.refs \in Seq(1..Len(b.graph.varnodes)) /\ Len(b.refs) = m
          /\ \A i \in 1..m : k[b.refs[i]] = values[i]
          /\ \A i \in 1..m : computes[i] => Computed(b.graph, k, values[i])
        BY <2>3
    <2> HIDE DEF b, m
    <2>7. Yields(b.graph, k, new, values[n], computes[n])
        BY <2>5, <2>6 DEF Traces
    <2> HIDE DEF new
    <2>8. PICK l : /\ Flows(new.graph, l) /\ Continues(b.graph, k, new.graph, l)
                   /\ new.ref \in 1..Len(new.graph.varnodes) /\ l[new.ref] = values[n]
                   /\ computes[n] => Computed(new.graph, l, values[n])
        BY <2>7 DEF Yields
    <2>9. /\ b.graph \in Sound /\ Len(b.graph.varnodes) \in Nat /\ new.graph \in Sound
          /\ Len(new.graph.varnodes) \in Nat /\ Len(b.graph.varnodes) <= Len(new.graph.varnodes)
        BY <2>6, <2>8, FlowParts, SoundParts DEF Continues, Grown
    <2>10. Continues(g, src, new.graph, l)
        BY <1>1, <2>6, <2>8, ContinuesTrans
    <2>11. Append(b.refs, new.ref) \in Seq(1..Len(new.graph.varnodes))
        <3>1. Seq(1..Len(b.graph.varnodes)) \subseteq Seq(1..Len(new.graph.varnodes))
            BY <2>9, MoreRefs
        <3> DEFINE R == 1..Len(new.graph.varnodes)
        <3>2. b.refs \in Seq(R) /\ new.ref \in R
            BY <2>6, <2>8, <3>1
        <3> HIDE DEF R
        <3>3. Append(b.refs, new.ref) \in Seq(R)
            BY <3>2, AppendProperties
        <3> QED BY <3>3 DEF R
    <2>12. /\ Len(Append(b.refs, new.ref)) = n /\ Append(b.refs, new.ref)[n] = new.ref
           /\ \A i \in 1..m : Append(b.refs, new.ref)[i] = b.refs[i]
        BY <2>4, <2>6, AppendProperties
    <2>13. ASSUME NEW i \in 1..n PROVE l[Append(b.refs, new.ref)[i]] = values[i]
        <3>1. CASE i = n
            BY <2>8, <2>12, <3>1
        <3>2. CASE i \in 1..m
            <4>1. b.refs[i] \in 1..Len(b.graph.varnodes)
                BY <2>6, <3>2
            <4>2. l[b.refs[i]] = k[b.refs[i]]
                BY <2>8, <4>1 DEF Continues
            <4> QED BY <2>6, <2>12, <3>2, <4>2
        <3> QED BY <2>4, <3>1, <3>2
    <2>14. ASSUME NEW i \in 1..n, computes[i] PROVE Computed(new.graph, l, values[i])
        <3>1. CASE i = n
            BY <2>8, <2>14, <3>1
        <3>2. CASE i \in 1..m
            <4>1. Computed(b.graph, k, values[i])
                BY <2>6, <2>14, <3>2
            <4> QED BY <2>8, <2>9, <4>1, ComputedStays
        <3> QED BY <2>4, <3>1, <3>2
    <2>15. Good(n, l)
        BY <2>2, <2>8, <2>10, <2>11, <2>12, <2>13, <2>14
    <2> HIDE DEF Good
    <2> QED BY <2>4, <2>15
<1> HIDE DEF P
<1>5. N \in P
    <2> HIDE DEF N
    <2>1. \A n \in 0..N : n \in P
        BY <1>1, <1>3, <1>4, Induction
    <2> QED BY <1>1, <2>1
<1>6. PICK k : Good(N, k)
    BY <1>5 DEF P
<1>7. Carried(k, h[N].refs) = UNION {values[i] : i \in 1..N}
    <2>1. Len(h[N].refs) = N /\ \A i \in 1..N : k[h[N].refs[i]] = values[i]
        BY <1>6
    <2> QED BY <2>1 DEF Carried
<1> QED BY <1>2, <1>6, <1>7

-----------------------------------------------------------------------------
(* What the expressions carry *)

\* An operation computes what its operands read.
LEMMA OperationTrace ==
    ASSUME NEW ls \in Seq(Lowerings), NEW own \in Nat, NEW g, NEW src, Flows(g, src),
           NEW values, NEW computes, \A i \in 1..Len(ls) : Traces(ls[i], values[i], computes[i])
    PROVE  Yields(g, src, LowerOperation(ls, own, g), UNION {values[i] : i \in 1..Len(ls)}, TRUE)
<1> DEFINE ins == Operands(ls, own, g)
           out == New(ins.graph, Nowhere)
           op == [address |-> own, output |-> out.ref, inputs |-> ins.refs]
           last == Emit(out.graph, own, out.ref, ins.refs)
           all == UNION {values[i] : i \in 1..Len(ls)}
           res == LowerOperation(ls, own, g)
<1>0. g \in Sound /\ g \in Graphs
    BY FlowParts, SoundParts
<1>1. ins \in Several
    BY <1>0, OperandsType
<1>2. PICK k : /\ Flows(ins.graph, k) /\ Continues(g, src, ins.graph, k)
               /\ ins.refs \in Seq(1..Len(ins.graph.varnodes))
               /\ Carried(k, ins.refs) = all
    <2>1. \E k : /\ Flows(ins.graph, k) /\ Continues(g, src, ins.graph, k)
                 /\ ins.refs \in Seq(1..Len(ins.graph.varnodes))
                 /\ Carried(k, ins.refs) = all
                 /\ \A i \in 1..Len(ls) : computes[i] => Computed(ins.graph, k, values[i])
        BY OperandsTrace, Zenon
    <2> HIDE DEF ins, all
    <2> QED BY <2>1
<1>3. res.graph = last /\ res.ref = out.ref
    <2> HIDE DEF ins
    <2> QED BY <1>1, OperationIs DEF LowerOperation, ins
<1> HIDE DEF ins, all, res
<1>4. /\ ins.graph \in Sound /\ ins.graph \in Graphs
      /\ Len(ins.graph.varnodes) \in Nat
    BY <1>2, FlowParts, SoundParts
<1>5. Grown(ins.graph, out.graph) /\ out.ref \in 1..Len(out.graph.varnodes)
    BY <1>4, NewGrows DEF Storages
<1>6. /\ out.graph.refOf = ins.graph.refOf /\ out.graph.ops = ins.graph.ops
      /\ Len(out.graph.varnodes) = Len(ins.graph.varnodes) + 1
      /\ out.ref = Len(ins.graph.varnodes) + 1
    <2>1. Nowhere \in Storages
        BY DEF Storages
    <2> QED BY <1>4, <2>1, NewIs
<1> HIDE DEF out
<1>7. out.graph \in Sound /\ out.graph \in Graphs /\ Len(out.graph.varnodes) \in Nat
    BY <1>5, SoundParts DEF Grown
<1>8. /\ ins.refs \in Seq(1..Len(out.graph.varnodes)) /\ out.ref \in 0..Len(out.graph.varnodes)
      /\ ins.refs \in Seq(Nat) /\ out.ref \in Nat
    <2>1. Seq(1..Len(ins.graph.varnodes)) \subseteq Seq(1..Len(out.graph.varnodes))
        BY <1>4, <1>6, <1>7, MoreRefs
    <2>2. out.ref \in 0..Len(out.graph.varnodes)
        BY <1>5, <1>7
    <2>3. Seq(1..Len(ins.graph.varnodes)) \subseteq Seq(Nat)
        BY <1>4, SeqMonotonic
    <2>4. ins.refs \in Seq(1..Len(ins.graph.varnodes))
        BY <1>2
    <2>5. ins.refs \in Seq(1..Len(out.graph.varnodes)) /\ ins.refs \in Seq(Nat)
        BY <2>1, <2>3, <2>4, Zenon
    <2>6. out.ref \in Nat
        BY <1>7, <2>2
    <2> QED BY <2>2, <2>5, <2>6
<1>9. /\ last.varnodes = out.graph.varnodes /\ last.refOf = out.graph.refOf
      /\ last.ops = Append(out.graph.ops, op)
    <2>1. /\ Emit(out.graph, own, out.ref, ins.refs).varnodes = out.graph.varnodes
          /\ Emit(out.graph, own, out.ref, ins.refs).refOf = out.graph.refOf
          /\ Emit(out.graph, own, out.ref, ins.refs).ops
                 = Append(out.graph.ops,
                          [address |-> own, output |-> out.ref, inputs |-> ins.refs])
        <3> DEFINE og == out.graph
                   to == out.ref
                   rs == ins.refs
        <3>1. og \in Graphs /\ to \in Nat /\ rs \in Seq(Nat)
            BY <1>7, <1>8
        <3> HIDE DEF og, to, rs
        <3>2. /\ Emit(og, own, to, rs).varnodes = og.varnodes
              /\ Emit(og, own, to, rs).refOf = og.refOf
              /\ Emit(og, own, to, rs).ops
                     = Append(og.ops, [address |-> own, output |-> to, inputs |-> rs])
            BY <3>1, EmitIs
        <3> QED BY <3>2 DEF og, to, rs
    <2> QED BY <2>1
<1>10. last \in Sound
    BY <1>7, <1>8, EmitGrows DEF Grown
<1>11. op \in Operations /\ op.output = out.ref /\ op.inputs = ins.refs
    BY <1>8 DEF Operations
<1> HIDE DEF op, last
<1> DEFINE b == ins.graph
<1>12. /\ op.inputs \in Seq(1..Len(b.varnodes)) /\ op.output = Len(b.varnodes) + 1
       /\ Len(last.varnodes) = Len(b.varnodes) + 1 /\ last.refOf = b.refOf
       /\ last.ops = Append(b.ops, op) /\ Flows(b, k)
    BY <1>2, <1>6, <1>9, <1>11
<1> HIDE DEF b
<1>13. PICK l : /\ Flows(last, l) /\ Continues(b, k, last, l)
                /\ l[op.output] = Carried(k, op.inputs)
                /\ Computed(last, l, Carried(k, op.inputs))
    BY <1>10, <1>11, <1>12, FlowTemp
<1>14. Carried(k, op.inputs) = all
    BY <1>2, <1>11
<1>15. Continues(g, src, last, l)
    BY <1>0, <1>2, <1>13, ContinuesTrans DEF b
<1>16. res.ref \in 1..Len(last.varnodes) /\ l[res.ref] = all
    BY <1>3, <1>5, <1>9, <1>11, <1>13, <1>14
<1>17. Yields(g, src, res, all, TRUE)
    BY <1>3, <1>13, <1>14, <1>15, <1>16 DEF Yields
<1> QED BY <1>17 DEF res, all

\* What an expression of a form whole, by what the expressions before it read.
ReadsOne(f, e) ==
    IF Exprs[e].form = "operation"
    THEN UNION {f[Exprs[e].args[i]] : i \in 1..Len(Exprs[e].args)}
    ELSE {v \in SsaValues : Exprs[e].form = "var" /\ v = Exprs[e].var}

\* What expressions read is what its recursion says.
LEMMA ReadsUnfolds ==
    /\ Reads \in [DOMAIN Exprs -> SUBSET SsaValues]
    /\ \A e \in DOMAIN Exprs : Reads[e] = ReadsOne(Reads, e)
<1> DEFINE S == DOMAIN Exprs
           D == SUBSET SsaValues
           one(f, e) == ReadsOne(f, e)
           step == [e \in S |-> [f \in [S -> D] |-> one(f, e)]]
           whole == CHOOSE l : l = [e \in S |-> one(l, e)]
<1>1. S \in SUBSET Nat
    BY ExprsAssumption
<1>11. Reads = whole
    BY DEF Reads, ReadsOne
<1>2. ASSUME NEW f \in [S -> D], NEW e \in S PROVE one(f, e) \in D
    <2>1. CASE Exprs[e].form = "operation"
        <3>1. Exprs[e].args \in Seq(DOMAIN Exprs)
            BY <2>1, ExprForms
        <3>2. \A i \in 1..Len(Exprs[e].args) : f[Exprs[e].args[i]] \subseteq SsaValues
            BY <3>1
        <3>3. one(f, e) = UNION {f[Exprs[e].args[i]] : i \in 1..Len(Exprs[e].args)}
            BY <2>1 DEF ReadsOne
        <3> HIDE DEF one
        <3> QED BY <3>2, <3>3
    <2>2. CASE Exprs[e].form # "operation"
        BY <2>2 DEF ReadsOne
    <2> QED BY <2>1, <2>2
<1>3. D # {}
    OBVIOUS
<1>5. ASSUME NEW e \in S, NEW f, NEW k, \A d \in S : d < e => f[d] = k[d]
      PROVE  one(f, e) = one(k, e)
    <2>1. CASE Exprs[e].form = "operation"
        <3>1. /\ Exprs[e].args \in Seq(DOMAIN Exprs)
              /\ \A i \in 1..Len(Exprs[e].args) : Exprs[e].args[i] < e
            BY <2>1, ExprForms
        <3>2. \A i \in 1..Len(Exprs[e].args) : Exprs[e].args[i] \in S
            BY <3>1
        <3>3. \A i \in 1..Len(Exprs[e].args) : f[Exprs[e].args[i]] = k[Exprs[e].args[i]]
            BY <1>5, <3>1, <3>2
        <3> QED BY <3>3 DEF ReadsOne
    <2>2. CASE Exprs[e].form # "operation"
        BY <2>2 DEF ReadsOne
    <2> QED BY <2>1, <2>2
<1> HIDE DEF one, D
<1>4. step \in Steps(S, D)
    <2> HIDE DEF S
    <2> QED BY <1>2 DEF Steps
<1>6. \A e \in S : \A f \in [S -> D] : step[e][f] = one(f, e)
    <2> HIDE DEF S
    <2> QED OBVIOUS
<1> HIDE DEF S, step
<1>7. Backward(S, D, step)
    BY <1>5, <1>6 DEF Backward
<1>8. HasSolution(S, D, step)
    BY <1>1, <1>3, <1>4, <1>7, Recursion
<1>9. PICK f \in [S -> D] : f = [e \in S |-> step[e][f]]
    BY <1>8 DEF HasSolution
<1>10. f = [e \in S |-> one(f, e)]
    BY <1>6, <1>9
<1>12. \E l : l = [e \in S |-> one(l, e)]
    BY <1>10
<1>13. whole = [e \in S |-> one(whole, e)]
    BY <1>12, Zenon
<1> HIDE DEF whole
<1> DEFINE T == {e \in S : whole[e] = f[e]}
<1>14. ASSUME NEW e \in S, \A d \in S : d < e => d \in T PROVE e \in T
    <2>1. whole[e] = one(whole, e) /\ f[e] = one(f, e)
        BY <1>10, <1>13
    <2>2. \A d \in S : d < e => whole[d] = f[d]
        BY <1>14
    <2>3. one(whole, e) = one(f, e)
        BY <1>5, <2>2
    <2> QED BY <2>1, <2>3
<1> HIDE DEF T
<1>16. S \subseteq T
    BY <1>1, <1>14, StrongInduction
<1>17. whole = f
    <2>1. \A e \in S : whole[e] = f[e]
        BY <1>16 DEF T
    <2>2. whole = [e \in S |-> whole[e]] /\ f = [e \in S |-> f[e]]
        BY <1>13
    <2> QED BY <2>1, <2>2
<1>18. \A e \in S : whole[e] = one(whole, e)
    BY <1>13
<1> QED BY <1>9, <1>11, <1>17, <1>18 DEF S, D, one

Computes(e) == Exprs[e].form = "operation"

\* Every expression, at every address, carries what it whole.
LEMMA ExprTraces ==
    ASSUME ail \in AilGraphs
    PROVE  \A e \in DOMAIN Exprs : Traces(Expr[e], Reads[e], Computes(e))
<1> DEFINE S == DOMAIN Exprs
           T == {e \in S : Traces(Expr[e], Reads[e], Computes(e))}
<1>0. /\ Expr \in [DOMAIN Exprs -> Lowerings]
      /\ \A e \in DOMAIN Exprs : \A a \in Nat : \A g \in Graphs :
             Expr[e][a][g] = LowerOne(Expr, e, a, g)
    BY ExprUnfolds
<1>1. ASSUME NEW e \in S, \A d \in S : d < e => d \in T PROVE e \in T
    <2> SUFFICES ASSUME NEW a \in Nat, NEW g, NEW src, Flows(g, src)
                 PROVE  Yields(g, src, Expr[e][a][g], Reads[e], Computes(e))
        BY DEF Traces
    <2> DEFINE x == Exprs[e]
               r == Expr[e][a][g]
    <2>1. r = CASE x.form = "var" -> Vvar(x.var, g)
                [] x.form \in {"const", "other"} -> New(g, Nowhere)
                [] x.form = "operation" -> LowerOperation(Lowerers(Expr, x.args), Own(x, a), g)
        <3>1. g \in Graphs
            BY FlowParts, SoundParts
        <3>2. r = LowerOne(Expr, e, a, g)
            BY <1>0, <3>1
        <3> QED BY <3>2, LowerOneIs
    <2>2. /\ x.form \in {"var", "const", "operation", "other"}
          /\ x.form = "var" => x.var \in SsaValues
          /\ x.form = "operation" => /\ x.args \in Seq(DOMAIN Exprs)
                                     /\ \A i \in 1..Len(x.args) : x.args[i] < e
          /\ Own(x, a) \in Nat
        BY ExprForms
    <2>3. \A d \in S : d < e => Traces(Expr[d], Reads[d], Computes(d))
        BY <1>1
    <2>7. Reads[e] = IF x.form = "operation"
                     THEN UNION {Reads[x.args[i]] : i \in 1..Len(x.args)}
                     ELSE {v \in SsaValues : x.form = "var" /\ v = x.var}
        BY ReadsUnfolds DEF ReadsOne
    <2> DEFINE goal == Yields(g, src, r, Reads[e], Computes(e))
    <2>8. goal <=> Yields(g, src, r, Reads[e], x.form = "operation")
        BY DEF Computes
    <2> HIDE DEF x, r, T, goal
    <2>4. ASSUME x.form = "var" PROVE goal
        <3>1. Yields(g, src, r, {x.var}, FALSE) /\ Reads[e] = {x.var}
            BY <2>1, <2>2, <2>4, <2>7, FlowVvar
        <3> QED BY <2>4, <2>8, <3>1
    <2>5. ASSUME x.form \in {"const", "other"} PROVE goal
        <3>1. Yields(g, src, r, {}, FALSE) /\ Reads[e] = {}
            BY <2>1, <2>5, <2>7, FlowNew
        <3> QED BY <2>5, <2>8, <3>1
    <2>6. ASSUME x.form = "operation" PROVE goal
        <3> DEFINE ls == Lowerers(Expr, x.args)
                   values == [i \in 1..Len(x.args) |-> Reads[x.args[i]]]
                   computes == [i \in 1..Len(x.args) |-> Computes(x.args[i])]
                   all == UNION {values[i] : i \in 1..Len(ls)}
        <3>1. /\ ls \in Seq(Lowerings) /\ Len(ls) = Len(x.args)
              /\ \A i \in 1..Len(x.args) : ls[i] = Expr[x.args[i]]
            BY <1>0, <2>2, <2>6, LowerersType
        <3>2. \A i \in 1..Len(x.args) : x.args[i] \in S
            BY <2>2, <2>6
        <3>3. r = LowerOperation(ls, Own(x, a), g)
            BY <2>1, <2>6
        <3> HIDE DEF ls
        <3>4. ASSUME NEW i \in 1..Len(ls) PROVE Traces(ls[i], values[i], computes[i])
            <4>1. i \in 1..Len(x.args) /\ x.args[i] \in S /\ x.args[i] < e
                BY <2>2, <2>6, <3>1, <3>2
            <4>2. Traces(Expr[x.args[i]], Reads[x.args[i]], Computes(x.args[i]))
                BY <2>3, <4>1
            <4>3. values[i] = Reads[x.args[i]] /\ computes[i] = Computes(x.args[i])
                BY <4>1, Zenon
            <4>4. ls[i] = Expr[x.args[i]]
                BY <3>1, <4>1
            <4>5. Traces(ls[i], values[i], Computes(x.args[i]))
                BY <4>2, <4>3, <4>4, Zenon
            <4> QED BY <4>3, <4>5, Zenon
        <3>5. Reads[e] = all
            <4>1. \A i \in 1..Len(ls) : values[i] = Reads[x.args[i]]
                BY <3>1
            <4>2. Reads[e] = UNION {Reads[x.args[i]] : i \in 1..Len(ls)}
                BY <2>6, <2>7, <3>1
            <4> HIDE DEF values
            <4> QED BY <4>1, <4>2
        <3> HIDE DEF values, computes
        <3>6. Yields(g, src, r, all, TRUE)
            <4> DEFINE own == Own(x, a)
            <4>1. own \in Nat /\ r = LowerOperation(ls, own, g)
                BY <2>2, <3>3
            <4>2. \A i \in 1..Len(ls) : Traces(ls[i], values[i], computes[i])
                BY <3>4
            <4> HIDE DEF own
            <4>3. Flows(g, src) /\ ls \in Seq(Lowerings)
                BY <3>1
            <4>4. Yields(g, src, LowerOperation(ls, own, g),
                         UNION {values[i] : i \in 1..Len(ls)}, TRUE)
                BY ONLY <4>1, <4>2, <4>3, OperationTrace, ZenonT(60)
            <4> QED BY <4>1, <4>4
        <3> QED BY <2>6, <2>8, <3>5, <3>6
    <2> QED BY <2>2, <2>4, <2>5, <2>6 DEF r, goal
<1> HIDE DEF T
<1>2. S \subseteq Nat
    BY ExprsAssumption
<1>3. S \subseteq T
    <2> HIDE DEF S
    <2> QED BY <1>1, <1>2, StrongInduction
<1> QED BY <1>3 DEF T

-----------------------------------------------------------------------------
(* What the property takes from the operations *)

\* What one input of an operation comes from, by what the operations before do.
Piece(f, t, ref) ==
    LET values == {v \in SsaValues : refOf[v] = ref}
    IN IF values # {} THEN values
       ELSE UNION {f[u] : u \in {w \in 1..(t - 1) : ops[w].output = ref}}

FromOne(f, t) == UNION {Piece(f, t, ops[t].inputs[i]) : i \in DOMAIN ops[t].inputs}

\* What operations read is what its recursion says.
LEMMA FromUnfolds ==
    ASSUME ops \in Seq(Operations)
    PROVE  \A t \in DOMAIN ops : From[t] = FromOne(From, t)
<1> DEFINE S == DOMAIN ops
           D == SUBSET SsaValues
           one(f, t) == FromOne(f, t)
           step == [t \in S |-> [f \in [S -> D] |-> one(f, t)]]
           whole == CHOOSE l : l = [t \in S |-> one(l, t)]
<1>1. S \in SUBSET Nat /\ S = 1..Len(ops) /\ Len(ops) \in Nat
    OBVIOUS
<1>11. From = whole
    BY DEF From, FromOne, Piece
<1>2. ASSUME NEW f \in [S -> D], NEW t \in S PROVE one(f, t) \in D
    <2>1. ASSUME NEW ref PROVE Piece(f, t, ref) \subseteq SsaValues
        <3>1. \A u \in 1..(t - 1) : u \in S
            BY <1>1
        <3>2. \A u \in 1..(t - 1) : f[u] \subseteq SsaValues
            BY <3>1
        <3> QED BY <3>2 DEF Piece
    <2> QED BY <2>1 DEF FromOne
<1>3. D # {}
    OBVIOUS
<1>5. ASSUME NEW t \in S, NEW f, NEW k, \A d \in S : d < t => f[d] = k[d]
      PROVE  one(f, t) = one(k, t)
    <2>1. \A u \in 1..(t - 1) : u \in S /\ u < t
        BY <1>1
    <2>2. \A u \in 1..(t - 1) : f[u] = k[u]
        BY <1>5, <2>1
    <2>3. ASSUME NEW ref PROVE Piece(f, t, ref) = Piece(k, t, ref)
        BY <2>2 DEF Piece
    <2> QED BY <2>3 DEF FromOne
<1> HIDE DEF one, D
<1>4. step \in Steps(S, D)
    <2> HIDE DEF S
    <2> QED BY <1>2 DEF Steps
<1>6. \A t \in S : \A f \in [S -> D] : step[t][f] = one(f, t)
    <2> HIDE DEF S
    <2> QED OBVIOUS
<1> HIDE DEF S, step
<1>7. Backward(S, D, step)
    BY <1>5, <1>6 DEF Backward
<1>8. HasSolution(S, D, step)
    BY <1>1, <1>3, <1>4, <1>7, Recursion
<1>9. PICK f \in [S -> D] : f = [t \in S |-> step[t][f]]
    BY <1>8 DEF HasSolution
<1>10. f = [t \in S |-> one(f, t)]
    BY <1>6, <1>9
<1>12. \E l : l = [t \in S |-> one(l, t)]
    BY <1>10
<1>13. whole = [t \in S |-> one(whole, t)]
    BY <1>12, Zenon
<1> HIDE DEF whole
<1>18. \A t \in S : whole[t] = one(whole, t)
    BY <1>13
<1> QED BY <1>11, <1>18 DEF S, one

\* The operations of a graph that flows read what their inputs carry.
LEMMA FromIsCarried ==
    ASSUME NEW src, Flows(OpGraph, src)
    PROVE  \A t \in DOMAIN ops : From[t] = Carried(src, ops[t].inputs)
<1> DEFINE N == Len(varnodes)
           S == DOMAIN ops
           T == {t \in S : From[t] = Carried(src, ops[t].inputs)}
<1>0. OpGraph.varnodes = varnodes /\ OpGraph.refOf = refOf /\ OpGraph.ops = ops
    BY DEF OpGraph
<1>1. OpGraph \in Sound
    BY FlowParts
<1>2. /\ ops \in Seq(Operations) /\ S = 1..Len(ops) /\ Len(ops) \in Nat /\ N \in Nat
      /\ \A v \in SsaValues : refOf[v] \in 0..N
      /\ \A t \in S : DOMAIN ops[t].inputs = 1..Len(ops[t].inputs)
      /\ \A t \in S : \A i \in 1..Len(ops[t].inputs) : ops[t].inputs[i] \in 1..N
    <2>1. /\ ops \in Seq(Operations) /\ S = 1..Len(ops) /\ Len(ops) \in Nat /\ N \in Nat
          /\ \A v \in SsaValues : refOf[v] \in 0..N
          /\ \A t \in 1..Len(ops) : ops[t].inputs \in Seq(1..N)
          /\ \A t \in 1..Len(ops) : \A i \in 1..Len(ops[t].inputs) : ops[t].inputs[i] \in 1..N
        BY <1>0, <1>1, SoundParts
    <2> HIDE DEF N
    <2>2. \A t \in 1..Len(ops) : DOMAIN ops[t].inputs = 1..Len(ops[t].inputs)
        BY <2>1
    <2> QED BY <2>1, <2>2
<1>3. \A v \in SsaValues : refOf[v] # 0 => src[refOf[v]] = {v}
    BY <1>0 DEF Flows
<1>4. ASSUME NEW r \in 1..N, r \notin Named(OpGraph)
      PROVE  /\ src[r] = UNION {Carried(src, ops[u].inputs) : u \in Writers(OpGraph, r)}
             /\ \A u \in Writers(OpGraph, r) : \A t \in Readers(OpGraph, r) : u < t
    BY <1>0, <1>4 DEF Flows
<1>5. ASSUME NEW t \in S, \A u \in S : u < t => u \in T PROVE t \in T
    <2>1. ASSUME NEW i \in 1..Len(ops[t].inputs)
          PROVE  Piece(From, t, ops[t].inputs[i]) = src[ops[t].inputs[i]]
        <3> DEFINE ref == ops[t].inputs[i]
                   values == {v \in SsaValues : refOf[v] = ref}
        <3>1. ref \in 1..N
            BY <1>2
        <3>2. CASE values # {}
            <4>1. PICK v \in SsaValues : refOf[v] = ref
                BY <3>2
            <4>2. ref # 0
                BY <1>2, <3>1
            <4>3. src[ref] = {v}
                BY <1>3, <4>1, <4>2
            <4>4. \A u \in SsaValues : refOf[u] = ref => src[ref] = {u}
                BY <1>3, <4>2
            <4>5. values = {v}
                BY <4>1, <4>3, <4>4
            <4>6. Piece(From, t, ref) = values
                BY <3>2 DEF Piece
            <4> QED BY <4>3, <4>5, <4>6
        <3>3. CASE values = {}
            <4>1. ref \notin Named(OpGraph)
                BY <1>0, <1>2, <3>1, <3>3 DEF Named
            <4>2. /\ src[ref] = UNION {Carried(src, ops[u].inputs) : u \in Writers(OpGraph, ref)}
                  /\ \A u \in Writers(OpGraph, ref) : \A s \in Readers(OpGraph, ref) : u < s
                BY <1>4, <3>1, <4>1
            <4>3. t \in Readers(OpGraph, ref)
                BY <1>0, <1>2 DEF Readers
            <4> HIDE DEF ref
            <4>4. Writers(OpGraph, ref) = {w \in 1..(t - 1) : ops[w].output = ref}
                <5>1. ASSUME NEW u \in Writers(OpGraph, ref)
                      PROVE  u \in 1..(t - 1) /\ ops[u].output = ref
                    <6>1. u < t /\ u \in 1..Len(ops) /\ ops[u].output = ref
                        BY <1>0, <4>2, <4>3 DEF Writers
                    <6> QED BY <1>2, <6>1
                <5>2. ASSUME NEW u \in 1..(t - 1), ops[u].output = ref
                      PROVE  u \in Writers(OpGraph, ref)
                    <6>1. u \in 1..Len(ops)
                        BY <1>2
                    <6> QED BY <1>0, <5>2, <6>1 DEF Writers
                <5> QED BY <5>1, <5>2
            <4>5. \A u \in 1..(t - 1) : From[u] = Carried(src, ops[u].inputs)
                <5>1. \A u \in 1..(t - 1) : u \in S /\ u < t
                    BY <1>2
                <5> QED BY <1>5, <5>1
            <4>6. Piece(From, t, ref)
                      = UNION {From[u] : u \in {w \in 1..(t - 1) : ops[w].output = ref}}
                BY <3>3 DEF Piece
            <4>7. UNION {From[u] : u \in {w \in 1..(t - 1) : ops[w].output = ref}}
                      = UNION {Carried(src, ops[u].inputs) : u \in Writers(OpGraph, ref)}
                BY <4>4, <4>5
            <4>8. Piece(From, t, ref) = src[ref]
                BY <4>2, <4>6, <4>7
            <4> QED BY <4>8 DEF ref
        <3> QED BY <3>2, <3>3
    <2>2. From[t] = UNION {Piece(From, t, ops[t].inputs[i]) : i \in 1..Len(ops[t].inputs)}
        <3>1. From[t] = FromOne(From, t)
            BY <1>2, FromUnfolds
        <3>2. DOMAIN ops[t].inputs = 1..Len(ops[t].inputs)
            BY <1>2
        <3> QED BY <3>1, <3>2 DEF FromOne
    <2>3. From[t] = Carried(src, ops[t].inputs)
        BY <2>1, <2>2 DEF Carried
    <2> QED BY <2>3
<1> HIDE DEF T
<1>6. S \subseteq T
    <2>1. S \subseteq Nat
        BY <1>2
    <2> HIDE DEF S
    <2> QED BY <1>5, <2>1, StrongInduction
<1> QED BY <1>6 DEF T

-----------------------------------------------------------------------------
(* What the statements become *)

\* What a statement is of the statements that become an operation.
Act == [st \in AilStatements |-> IF st.form \in {"assign", "effect"} THEN <<st>> ELSE <<>>]

\* Act is of every statement.
LEMMA ActType == Act \in Becomes(AilStatements, AilStatements)
<1>1. \A st \in AilStatements : <<st>> \in Seq(AilStatements) /\ <<>> \in Seq(AilStatements)
    OBVIOUS
<1> QED BY <1>1 DEF Act, Becomes

\* The operation at a time is the one a statement becomes.
Follows(g, src, t, st) ==
    /\ t \in 1..Len(g.ops)
    /\ Carried(src, g.ops[t].inputs) = ReadsOf(st)
    /\ IF st.form = "assign" THEN g.ops[t].output = g.refOf[st.var] /\ g.ops[t].output # 0
                             ELSE g.ops[t].output = 0

\* What a store computes is computed.
Stored(g, src, st) ==
    st.form = "evaluate" => \A i \in 1..Len(st.args) :
        Computes(st.args[i]) => Computed(g, src, Reads[st.args[i]])

\* A graph has what some statements become, and no other lasting operation.
Told(done, g, src) ==
    /\ Len(Times(g)) = Len(Each(Act, done))
    /\ \A i \in 1..Len(Each(Act, done)) : Follows(g, src, Times(g)[i], Each(Act, done)[i])
    /\ \A i \in 1..Len(done) : Stored(g, src, done[i])

\* The statements that become an operation, and those that have been done.
LEMMA ActsType ==
    ASSUME NEW done \in Seq(AilStatements)
    PROVE  /\ Each(Act, done) \in Seq(AilStatements) /\ Len(Each(Act, done)) \in Nat
           /\ \A i \in 1..Len(Each(Act, done)) : Each(Act, done)[i] \in AilStatements
<1>1. Each(Act, done) \in Seq(AilStatements)
    BY ActType, Images
<1> QED BY <1>1

\* An operation stays the one a statement becomes.
LEMMA FollowsStays ==
    ASSUME NEW g \in Sound, NEW src, NEW h, NEW k, Continues(g, src, h, k),
           NEW st \in AilStatements, NEW t, Follows(g, src, t, st)
    PROVE  Follows(h, k, t, st)
<1>1. /\ t \in 1..Len(g.ops) /\ Carried(src, g.ops[t].inputs) = ReadsOf(st)
      /\ IF st.form = "assign" THEN g.ops[t].output = g.refOf[st.var] /\ g.ops[t].output # 0
                               ELSE g.ops[t].output = 0
    BY DEF Follows
<1>2. h.ops[t] = g.ops[t] /\ Carried(k, g.ops[t].inputs) = Carried(src, g.ops[t].inputs)
    BY <1>1, StillCarried
<1>3. t \in 1..Len(h.ops)
    <2>1. h \in Sound /\ Len(g.ops) <= Len(h.ops)
        BY DEF Continues, Grown
    <2>2. Len(g.ops) \in Nat /\ Len(h.ops) \in Nat
        BY <2>1, SoundParts
    <2> QED BY <1>1, <2>1, <2>2
<1>4. st.form = "assign" => st.var \in SsaValues
    BY StatementForms
<1>5. \A v \in SsaValues : g.refOf[v] # 0 => h.refOf[v] = g.refOf[v]
    BY DEF Continues
<1>6. st.form = "assign" => h.refOf[st.var] = g.refOf[st.var]
    BY <1>1, <1>4, <1>5
<1> QED BY <1>1, <1>2, <1>3, <1>6 DEF Follows

\* What has been done stays done.
LEMMA ToldStays ==
    ASSUME NEW g \in Sound, NEW src, NEW h, NEW k, Continues(g, src, h, k),
           NEW done \in Seq(AilStatements), Told(done, g, src)
    PROVE  Told(done, h, k)
<1> DEFINE acts == Each(Act, done)
<1>1. \A i \in 1..Len(acts) : acts[i] \in AilStatements
    BY ActsType
<1>2. Times(h) = Times(g)
    BY DEF Continues
<1>3. /\ Len(Times(g)) = Len(acts)
      /\ \A i \in 1..Len(acts) : Follows(g, src, Times(g)[i], acts[i])
      /\ \A i \in 1..Len(done) : Stored(g, src, done[i])
    BY DEF Told
<1> HIDE DEF acts
<1>4. \A i \in 1..Len(acts) : Follows(h, k, Times(g)[i], acts[i])
    BY <1>1, <1>3, FollowsStays
<1>5. ASSUME NEW i \in 1..Len(done) PROVE Stored(h, k, done[i])
    <2>1. Stored(g, src, done[i])
        BY <1>3
    <2>2. ASSUME NEW values, Computed(g, src, values) PROVE Computed(h, k, values)
        BY <2>2, ComputedStays
    <2> QED BY <2>1, <2>2 DEF Stored
<1> QED BY <1>2, <1>3, <1>4, <1>5 DEF Told, acts

\* A statement that becomes no operation.
LEMMA ToldQuiet ==
    ASSUME NEW done \in Seq(AilStatements), NEW g, NEW src, Told(done, g, src),
           NEW st \in AilStatements, st.form \notin {"assign", "effect"}, Stored(g, src, st)
    PROVE  Told(Append(done, st), g, src)
<1>1. Act[st] = <<>>
    BY DEF Act
<1>2. Each(Act, Append(done, st)) = Each(Act, done) \o Act[st]
    BY ActType, EachAppend
<1>3. Each(Act, Append(done, st)) = Each(Act, done)
    <2>1. Each(Act, done) \in Seq(AilStatements)
        BY ActsType
    <2>2. Each(Act, done) \o <<>> = Each(Act, done)
        BY <2>1, ConcatEmptySeq
    <2> QED BY <1>1, <1>2, <2>2
<1>4. ASSUME NEW i \in 1..Len(Append(done, st)) PROVE Stored(g, src, Append(done, st)[i])
    <2>1. /\ i = Len(done) + 1 \/ i \in 1..Len(done)
          /\ Append(done, st)[Len(done) + 1] = st
          /\ \A j \in 1..Len(done) : Append(done, st)[j] = done[j]
        BY AppendProperties
    <2>2. \A j \in 1..Len(done) : Stored(g, src, done[j])
        BY DEF Told
    <2> QED BY <2>1, <2>2
<1> QED BY <1>3, <1>4 DEF Told

\* A statement that becomes the last operation.
LEMMA ToldAct ==
    ASSUME NEW done \in Seq(AilStatements), NEW g, NEW src, Flows(g, src), Told(done, g, src),
           NEW st \in AilStatements, st.form \in {"assign", "effect"},
           NEW h \in Sound, NEW op \in Operations, op.inputs \in Seq(1..Len(g.varnodes)),
           op.output \in Named(g),
           h.varnodes = g.varnodes, h.refOf = g.refOf, h.ops = Append(g.ops, op),
           Carried(src, op.inputs) = ReadsOf(st),
           IF st.form = "assign" THEN op.output = g.refOf[st.var] /\ op.output # 0
                                 ELSE op.output = 0
    PROVE  Flows(h, src) /\ Told(Append(done, st), h, src)
<1> DEFINE acts == Each(Act, done)
           now == Each(Act, Append(done, st))
           A == Len(acts)
           M == Len(g.ops)
<1>1. Flows(h, src) /\ Times(h) = Append(Times(g), M + 1)
    BY FlowEmit
<1>2. g \in Sound /\ M \in Nat /\ Len(Times(g)) \in Nat /\ Times(g) \in Seq(Nat)
    BY FlowParts, SoundParts, TimesType
<1>3. acts \in Seq(AilStatements) /\ A \in Nat
    BY ActsType
<1>4. now = Append(acts, st)
    <2>1. Act[st] = <<st>>
        BY DEF Act
    <2>2. now = acts \o Act[st]
        BY ActType, EachAppend
    <2>3. acts \o <<st>> = Append(acts, st)
        BY <1>3, AppendIsConcat
    <2> QED BY <2>1, <2>2, <2>3
<1>5. /\ Len(h.ops) = M + 1 /\ h.ops[M + 1] = op /\ \A t \in 1..M : h.ops[t] = g.ops[t]
    BY <1>2, SoundParts, AppendProperties
<1>6. /\ Len(Times(g)) = A
      /\ \A i \in 1..A : Follows(g, src, Times(g)[i], acts[i])
      /\ \A i \in 1..Len(done) : Stored(g, src, done[i])
    BY DEF Told
<1> HIDE DEF acts, now, A, M
<1>7. ASSUME NEW t, NEW s, Follows(g, src, t, s) PROVE Follows(h, src, t, s)
    <2>1. t \in 1..M
        BY <1>7 DEF Follows, M
    <2>2. h.ops[t] = g.ops[t] /\ t \in 1..Len(h.ops)
        BY <1>2, <1>5, <2>1
    <2> QED BY <1>7, <2>2 DEF Follows
<1>8. Follows(h, src, M + 1, st)
    <2>1. M + 1 \in 1..Len(h.ops)
        BY <1>2, <1>5
    <2> QED BY <1>5, <2>1 DEF Follows
<1>9. /\ Len(now) = A + 1 /\ now[A + 1] = st /\ \A i \in 1..A : now[i] = acts[i]
    BY <1>3, <1>4, AppendProperties DEF A
<1>10. /\ Len(Times(h)) = A + 1 /\ Times(h)[A + 1] = M + 1
       /\ \A i \in 1..A : Times(h)[i] = Times(g)[i]
    <2>1. M + 1 \in Nat
        BY <1>2
    <2> QED BY <1>1, <1>2, <1>6, <2>1, AppendProperties
<1>11. ASSUME NEW i \in 1..(A + 1) PROVE Follows(h, src, Times(h)[i], now[i])
    <2>1. CASE i = A + 1
        BY <1>8, <1>9, <1>10, <2>1
    <2>2. CASE i \in 1..A
        <3>1. Follows(g, src, Times(g)[i], acts[i])
            BY <1>6, <2>2
        <3> QED BY <1>7, <1>9, <1>10, <2>2, <3>1
    <2> QED BY <1>3, <2>1, <2>2
<1>12. ASSUME NEW values, Computed(g, src, values) PROVE Computed(h, src, values)
    <2>1. PICK t \in 1..M : g.ops[t].output \notin Named(g) /\ Carried(src, g.ops[t].inputs) = values
        BY <1>12 DEF Computed, M
    <2>2. h.ops[t] = g.ops[t] /\ t \in 1..Len(h.ops)
        BY <1>2, <1>5
    <2>3. Named(h) = Named(g)
        BY DEF Named
    <2> QED BY <2>1, <2>2, <2>3 DEF Computed
<1>13. ASSUME NEW i \in 1..Len(Append(done, st)) PROVE Stored(h, src, Append(done, st)[i])
    <2>1. /\ i = Len(done) + 1 \/ i \in 1..Len(done)
          /\ Append(done, st)[Len(done) + 1] = st
          /\ \A j \in 1..Len(done) : Append(done, st)[j] = done[j]
        BY AppendProperties
    <2>2. CASE i = Len(done) + 1
        BY <2>1, <2>2 DEF Stored
    <2>3. CASE i \in 1..Len(done)
        <3>1. Stored(g, src, done[i])
            BY <1>6, <2>3
        <3> QED BY <1>12, <2>1, <2>3, <3>1 DEF Stored
    <2> QED BY <2>1, <2>2, <2>3
<1> QED BY <1>1, <1>9, <1>10, <1>11, <1>13 DEF Told, now

\* The operands of a statement carry what it reads, and are computed.
LEMMA ArgumentsTrace ==
    ASSUME ail \in AilGraphs, NEW st \in AilStatements, st.form # "assign",
           NEW g, NEW src, Flows(g, src)
    PROVE  LET all == Arguments(st, g)
           IN \E k : /\ Flows(all.graph, k) /\ Continues(g, src, all.graph, k)
                     /\ all.refs \in Seq(1..Len(all.graph.varnodes))
                     /\ Carried(k, all.refs) = ReadsOf(st)
                     /\ \A i \in 1..Len(st.args) :
                            Computes(st.args[i]) => Computed(all.graph, k, Reads[st.args[i]])
<1> DEFINE ls == Lowerers(Expr, st.args)
           n == Len(st.args)
           a == st.address
           values == [i \in 1..n |-> Reads[st.args[i]]]
           computes == [i \in 1..n |-> Computes(st.args[i])]
<1>1. /\ st.args \in Seq(DOMAIN Exprs) /\ a \in Nat /\ DOMAIN st.args = 1..n
      /\ \A i \in 1..n : st.args[i] \in DOMAIN Exprs
    <2>1. st.args \in Seq(DOMAIN Exprs) /\ st.address \in Nat
        BY StatementForms
    <2>2. ASSUME NEW R, NEW s \in Seq(R) PROVE DOMAIN s = 1..Len(s) /\ \A i \in 1..Len(s) : s[i] \in R
        OBVIOUS
    <2> QED BY <2>1, <2>2
<1>2. ls \in Seq(Lowerings) /\ Len(ls) = n /\ \A i \in 1..n : ls[i] = Expr[st.args[i]]
    BY <1>1, ExprUnfolds, LowerersType
<1>3. Arguments(st, g) = Operands(ls, a, g)
    BY DEF Arguments, Lowerers
<1>4. ASSUME NEW i \in 1..Len(ls) PROVE Traces(ls[i], values[i], computes[i])
    <2>1. i \in 1..n /\ st.args[i] \in DOMAIN Exprs /\ ls[i] = Expr[st.args[i]]
        BY <1>1, <1>2
    <2>2. Traces(Expr[st.args[i]], Reads[st.args[i]], Computes(st.args[i]))
        BY <2>1, ExprTraces
    <2>3. values[i] = Reads[st.args[i]] /\ computes[i] = Computes(st.args[i])
        BY <2>1, Zenon
    <2>4. Traces(ls[i], values[i], Computes(st.args[i]))
        BY <2>1, <2>2, <2>3, Zenon
    <2> QED BY <2>3, <2>4, Zenon
<1>5. ReadsOf(st) = UNION {values[i] : i \in 1..Len(ls)}
    <2>1. \A i \in 1..n : values[i] = Reads[st.args[i]]
        OBVIOUS
    <2> HIDE DEF values
    <2> QED BY <1>1, <1>2, <2>1 DEF ReadsOf
<1>6. \A i \in 1..n : values[i] = Reads[st.args[i]] /\ (Computes(st.args[i]) => computes[i])
    OBVIOUS
<1> DEFINE all == Operands(ls, a, g)
<1> HIDE DEF ls, values, computes, a
<1>7. Flows(g, src) /\ ls \in Seq(Lowerings) /\ a \in Nat
    BY <1>1, <1>2
<1>8. \A i \in 1..Len(ls) : Traces(ls[i], values[i], computes[i])
    BY <1>4
<1>9. \E k : /\ Flows(all.graph, k) /\ Continues(g, src, all.graph, k)
             /\ all.refs \in Seq(1..Len(all.graph.varnodes))
             /\ Carried(k, all.refs) = UNION {values[i] : i \in 1..Len(ls)}
             /\ \A i \in 1..Len(ls) : computes[i] => Computed(all.graph, k, values[i])
    BY ONLY <1>7, <1>8, OperandsTrace, ZenonT(60)
<1> HIDE DEF all, n
<1>10. PICK k : /\ Flows(all.graph, k) /\ Continues(g, src, all.graph, k)
                /\ all.refs \in Seq(1..Len(all.graph.varnodes))
                /\ Carried(k, all.refs) = UNION {values[i] : i \in 1..Len(ls)}
                /\ \A i \in 1..Len(ls) : computes[i] => Computed(all.graph, k, values[i])
    BY <1>9
<1>11. \A i \in 1..n : Computes(st.args[i]) => Computed(all.graph, k, Reads[st.args[i]])
    <2> SUFFICES ASSUME NEW i \in 1..n, Computes(st.args[i])
                 PROVE  Computed(all.graph, k, Reads[st.args[i]])
        OBVIOUS
    <2>1. i \in 1..Len(ls) /\ values[i] = Reads[st.args[i]] /\ computes[i]
        BY <1>2, <1>6
    <2>2. Computed(all.graph, k, values[i])
        BY <1>10, <2>1
    <2> QED BY <2>1, <2>2
<1>12. Carried(k, all.refs) = ReadsOf(st)
    BY <1>5, <1>10
<1> QED BY <1>3, <1>10, <1>11, <1>12 DEF all, n

\* A graph in which a statement has been done, after those before it.
Tells(done, st, h) == \E k : Flows(h, k) /\ Told(Append(done, st), h, k)

\* An operation with one output, of a value or none, is the statement's.
LEMMA EmitTells ==
    ASSUME NEW done \in Seq(AilStatements), NEW g, NEW src, Flows(g, src), Told(done, g, src),
           NEW st \in AilStatements, st.form \in {"assign", "effect"},
           NEW a \in Nat, NEW output \in Named(g), NEW inputs \in Seq(1..Len(g.varnodes)),
           Carried(src, inputs) = ReadsOf(st),
           IF st.form = "assign" THEN output = g.refOf[st.var] /\ output # 0 ELSE output = 0
    PROVE  Tells(done, st, Emit(g, a, output, inputs))
<1> DEFINE op == [address |-> a, output |-> output, inputs |-> inputs]
           h == Emit(g, a, output, inputs)
<1>1. g \in Sound /\ g \in Graphs /\ Len(g.varnodes) \in Nat
    BY FlowParts, SoundParts
<1>2. output \in 0..Len(g.varnodes) /\ output \in Nat
    <2>1. \A v \in SsaValues : g.refOf[v] \in 0..Len(g.varnodes)
        BY <1>1, SoundParts
    <2>2. output \in 0..Len(g.varnodes)
        BY <1>1, <2>1 DEF Named
    <2> QED BY <1>1, <2>2
<1>3. inputs \in Seq(Nat)
    <2>1. Seq(1..Len(g.varnodes)) \subseteq Seq(Nat)
        BY <1>1, SeqMonotonic
    <2> QED BY <2>1
<1>4. op \in Operations /\ op.output = output /\ op.inputs = inputs
    BY <1>2, <1>3 DEF Operations
<1>5. h.varnodes = g.varnodes /\ h.refOf = g.refOf /\ h.ops = Append(g.ops, op)
    BY ONLY <1>1, <1>2, <1>3, EmitIs, SMTT(30)
<1>6. h \in Sound
    BY <1>1, <1>2, EmitGrows DEF Grown
<1> HIDE DEF op, h
<1>7. Flows(h, src) /\ Told(Append(done, st), h, src)
    BY <1>4, <1>5, <1>6, ToldAct
<1> QED BY <1>7 DEF Tells, h

\* An assignment.
LEMMA AssignTells ==
    ASSUME ail \in AilGraphs, NEW done \in Seq(AilStatements), NEW g, NEW src,
           Flows(g, src), Told(done, g, src), NEW st \in AilStatements, st.form = "assign"
    PROVE  Tells(done, st, Statement(st, g))
<1> DEFINE e == st.args[1]
           v == st.var
           a == st.address
           dst == Vvar(v, g)
           new == Expr[e][a][dst.graph]
<1>1. v \in SsaValues /\ e \in DOMAIN Exprs /\ a \in Nat
    BY StatementForms
<1>2. Statement(st, g) = Emit(new.graph, a, dst.ref, <<new.ref>>)
    BY DEF Statement
<1>3. ReadsOf(st) = Reads[e]
    <2>1. DOMAIN st.args = {1}
        <3>1. st \in [form : {"assign"}, var : SsaValues, args : [1..1 -> DOMAIN Exprs],
                      address : Nat]
            BY DEF AilStatements
        <3> QED BY <3>1
    <2> QED BY <2>1 DEF ReadsOf
<1> HIDE DEF e, v, a
<1>4. Yields(g, src, dst, {v}, FALSE) /\ dst.graph.refOf[v] = dst.ref
    BY <1>1, FlowVvar
<1> HIDE DEF dst
<1>5. PICK i : /\ Flows(dst.graph, i) /\ Continues(g, src, dst.graph, i)
               /\ dst.ref \in 1..Len(dst.graph.varnodes)
    BY <1>4 DEF Yields
<1>6. Yields(dst.graph, i, new, Reads[e], Computes(e))
    BY <1>1, <1>5, ExprTraces DEF Traces
<1> HIDE DEF new
<1>7. PICK k : /\ Flows(new.graph, k) /\ Continues(dst.graph, i, new.graph, k)
               /\ new.ref \in 1..Len(new.graph.varnodes) /\ k[new.ref] = Reads[e]
    BY <1>6 DEF Yields
<1>8. g \in Sound /\ dst.graph \in Sound /\ Len(dst.graph.varnodes) \in Nat
    BY <1>5, FlowParts, SoundParts
<1>9. Told(done, new.graph, k)
    <2>1. Continues(g, src, new.graph, k)
        BY <1>5, <1>7, <1>8, ContinuesTrans
    <2> QED BY <1>8, <2>1, ToldStays
<1>10. new.graph.refOf[v] = dst.ref /\ dst.ref # 0
    <2>1. dst.ref # 0
        BY <1>5, <1>8
    <2>2. dst.graph.refOf[v] # 0 => new.graph.refOf[v] = dst.graph.refOf[v]
        BY <1>1, <1>7 DEF Continues
    <2> QED BY <1>4, <2>1, <2>2
<1>11. dst.ref \in Named(new.graph)
    BY <1>1, <1>10 DEF Named
<1> DEFINE R == 1..Len(new.graph.varnodes)
<1>12. <<new.ref>> \in Seq(R) /\ Carried(k, <<new.ref>>) = Reads[e]
    <2>1. new.ref \in R
        BY <1>7
    <2>2. Len(<<new.ref>>) = 1 /\ <<new.ref>>[1] = new.ref /\ 1..1 = {1}
        OBVIOUS
    <2>3. Carried(k, <<new.ref>>) = k[new.ref]
        BY <2>2 DEF Carried
    <2> HIDE DEF R
    <2> QED BY <1>7, <2>1, <2>3
<1>13. IF st.form = "assign" THEN dst.ref = new.graph.refOf[st.var] /\ dst.ref # 0
       ELSE dst.ref = 0
    BY <1>10 DEF v
<1>14. Flows(new.graph, k) /\ Carried(k, <<new.ref>>) = ReadsOf(st) /\ <<new.ref>> \in Seq(R)
    BY <1>3, <1>7, <1>12
<1> QED BY <1>1, <1>2, <1>9, <1>11, <1>13, <1>14, EmitTells

\* Every statement.
LEMMA StatementTells ==
    ASSUME ail \in AilGraphs, NEW done \in Seq(AilStatements), NEW g, NEW src,
           Flows(g, src), Told(done, g, src), NEW st \in AilStatements
    PROVE  Tells(done, st, Statement(st, g))
<1>0. g \in Sound /\ st.address \in Nat /\ st.form \in {"assign", "evaluate", "effect", "none"}
    BY FlowParts, StatementForms
<1>1. CASE st.form = "assign"
    BY <1>1, AssignTells
<1>2. CASE st.form = "none"
    <2>1. Statement(st, g) = g
        BY <1>2 DEF Statement
    <2>2. Told(Append(done, st), g, src)
        BY <1>2, ToldQuiet DEF Stored
    <2> QED BY <2>1, <2>2 DEF Tells
<1>3. CASE st.form \in {"evaluate", "effect"}
    <2> DEFINE all == Arguments(st, g)
    <2>1. \E k : /\ Flows(all.graph, k) /\ Continues(g, src, all.graph, k)
                 /\ all.refs \in Seq(1..Len(all.graph.varnodes))
                 /\ Carried(k, all.refs) = ReadsOf(st)
                 /\ \A i \in 1..Len(st.args) :
                        Computes(st.args[i]) => Computed(all.graph, k, Reads[st.args[i]])
        <3>1. st.form # "assign"
            BY <1>3
        <3> QED BY <3>1, ArgumentsTrace, Zenon
    <2>2. /\ st.form = "evaluate" => Statement(st, g) = all.graph
          /\ st.form = "effect" => Statement(st, g) = Emit(all.graph, st.address, 0, all.refs)
        BY DEF Statement
    <2> HIDE DEF all
    <2>3. PICK k : /\ Flows(all.graph, k) /\ Continues(g, src, all.graph, k)
                   /\ all.refs \in Seq(1..Len(all.graph.varnodes))
                   /\ Carried(k, all.refs) = ReadsOf(st)
                   /\ \A i \in 1..Len(st.args) :
                          Computes(st.args[i]) => Computed(all.graph, k, Reads[st.args[i]])
        BY <2>1
    <2>4. Told(done, all.graph, k)
        BY <1>0, <2>3, ToldStays
    <2>5. CASE st.form = "evaluate"
        <3>1. Stored(all.graph, k, st)
            BY <2>3 DEF Stored
        <3>2. Told(Append(done, st), all.graph, k)
            BY <2>4, <2>5, <3>1, ToldQuiet
        <3> QED BY <2>2, <2>3, <2>5, <3>2 DEF Tells
    <2>6. CASE st.form = "effect"
        <3>1. 0 \in Named(all.graph)
            BY DEF Named
        <3>2. Tells(done, st, Emit(all.graph, st.address, 0, all.refs))
            BY <1>0, <2>3, <2>4, <2>6, <3>1, EmitTells
        <3> QED BY <2>2, <2>6, <3>2
    <2> QED BY <1>3, <2>5, <2>6
<1> QED BY <1>0, <1>1, <1>2, <1>3

-----------------------------------------------------------------------------
(* What has been lowered *)

\* The statements that have been lowered, block by block.
DoneOf(b) == IF b < Len(blocks) THEN ail.blocks[b] ELSE SubSeq(ail.blocks[b], 1, through)
Parted    == [b \in 1..Len(blocks) |-> DoneOf(b)]
Done      == FlattenSeq(Parted)

WithinBlock == Len(blocks) # 0 => through <= Len(ail.blocks[Len(blocks)])

\* While the lowering runs, its graph has what the statements so far become.
Traced == WithinBlock /\ \E src : Flows(OpGraph, src) /\ Told(Done, OpGraph, src)

FlowInv == (lowering = "runs" => Traced) /\ DataFlowIsKept

\* The parts that have been lowered are statements.
LEMMA PartedType ==
    ASSUME LowTypes, WithinBlock
    PROVE  /\ Len(blocks) \in Nat /\ Len(blocks) <= Len(ail.blocks) /\ Len(ail.blocks) \in Nat
           /\ through \in Nat
           /\ Parted \in Seq(Seq(AilStatements)) /\ Len(Parted) = Len(blocks)
           /\ Done \in Seq(AilStatements)
           /\ \A b \in 1..Len(blocks) : Parted[b] = DoneOf(b) /\ DoneOf(b) \in Seq(AilStatements)
           /\ ail.blocks \in Seq(Seq(AilStatements))
           /\ \A b \in 1..Len(ail.blocks) : ail.blocks[b] \in Seq(AilStatements)
<1>1. /\ Len(blocks) \in Nat /\ Len(blocks) <= Len(ail.blocks) /\ Len(ail.blocks) \in Nat
      /\ ail.blocks \in Seq(Seq(AilStatements)) /\ through \in Nat
    BY AilParts DEF LowTypes
<1>2. \A b \in 1..Len(ail.blocks) : ail.blocks[b] \in Seq(AilStatements)
    BY <1>1
<1>3. ASSUME NEW b \in 1..Len(blocks) PROVE DoneOf(b) \in Seq(AilStatements)
    <2>1. b \in 1..Len(ail.blocks) /\ (b < Len(blocks) \/ b = Len(blocks))
        BY <1>1
    <2>2. ail.blocks[b] \in Seq(AilStatements)
        BY <1>2, <2>1
    <2>3. ASSUME NEW S, NEW s \in Seq(S), NEW n \in Nat, n <= Len(s)
          PROVE  SubSeq(s, 1, n) \in Seq(S)
        BY <2>3
    <2>4. b = Len(blocks) => through <= Len(ail.blocks[b])
        BY <1>1 DEF WithinBlock
    <2> QED BY <1>1, <2>1, <2>2, <2>3, <2>4 DEF DoneOf
<1>4. Parted \in Seq(Seq(AilStatements)) /\ Len(Parted) = Len(blocks)
    <2> DEFINE n == Len(blocks)
               S == Seq(AilStatements)
    <2>1. n \in Nat /\ \A b \in 1..n : DoneOf(b) \in S
        BY <1>1, <1>3
    <2>2. Parted = [b \in 1..n |-> DoneOf(b)]
        BY DEF Parted
    <2> HIDE DEF n, S
    <2>3. Parted \in Seq(S) /\ Len(Parted) = n
        BY <2>1, <2>2
    <2> QED BY <2>3 DEF n, S
<1>5. Done \in Seq(AilStatements)
    BY <1>4, FlattenType DEF Done
<1>6. \A b \in 1..Len(blocks) : Parted[b] = DoneOf(b)
    BY DEF Parted
<1> QED BY <1>1, <1>2, <1>3, <1>4, <1>5, <1>6

\* A new block has nothing that is done.
LEMMA OpenLeavesDone ==
    ASSUME LowTypes, WithinBlock, OpenBlock
    PROVE  WithinBlock' /\ Done' = Done
<1>0. PICK n : n = Len(blocks)
    OBVIOUS
<1>1. /\ Len(blocks') = n + 1 /\ n \in Nat /\ n + 1 <= Len(ail.blocks) /\ through' = 0 /\ ail' = ail
      /\ Len(ail.blocks) \in Nat
    BY <1>0, OpenStep, AilParts DEF OpenBlock, LowTypes
<1>2. /\ Parted \in Seq(Seq(AilStatements)) /\ Len(Parted) = n
      /\ \A b \in 1..n : Parted[b] = DoneOf(b) /\ DoneOf(b) \in Seq(AilStatements)
      /\ \A b \in 1..Len(ail.blocks) : ail.blocks[b] \in Seq(AilStatements)
      /\ Done \in Seq(AilStatements) /\ through \in Nat
    BY <1>0, PartedType
<1>3. WithinBlock'
    <2>1. ail.blocks[n + 1] \in Seq(AilStatements)
        BY <1>1, <1>2
    <2>2. 0 <= Len(ail.blocks[n + 1])
        BY <2>1
    <2> QED BY <1>1, <2>2 DEF WithinBlock
<1>4. ASSUME NEW b \in 1..n PROVE DoneOf(b)' = DoneOf(b)
    <2>1. DoneOf(b)' = ail.blocks[b]
        BY <1>1 DEF DoneOf
    <2>2. CASE b < n
        BY <1>0, <2>1, <2>2 DEF DoneOf
    <2>3. CASE b = n
        <3>0. b \in 1..Len(ail.blocks)
            BY <1>1
        <3>1. ail.blocks[b] \in Seq(AilStatements) /\ Len(ail.blocks[b]) \in Nat
            BY <1>2, <3>0
        <3>2. ~(through < Len(ail.blocks[b]))
            <4>1. blocks # <<>>
                BY <1>0, <2>3
            <4> QED BY <1>0, <2>3, <4>1 DEF OpenBlock, StatementsLeft
        <3>3. through <= Len(ail.blocks[b])
            BY <1>0, <1>1, <2>3 DEF WithinBlock
        <3>4. through = Len(ail.blocks[b])
            BY <1>2, <3>1, <3>2, <3>3
        <3>5. SubSeq(ail.blocks[b], 1, through) = ail.blocks[b]
            BY <3>1, <3>4, SubSeqWhole
        <3> QED BY <1>0, <2>1, <2>3, <3>5 DEF DoneOf
    <2> QED BY <1>1, <2>2, <2>3
<1>5. DoneOf(n + 1)' = <<>>
    <2>1. DoneOf(n + 1)' = SubSeq(ail.blocks[n + 1], 1, 0)
        BY <1>1 DEF DoneOf
    <2>2. ail.blocks[n + 1] \in Seq(AilStatements)
        BY <1>1, <1>2
    <2> QED BY <2>1, <2>2, SubSeqWhole
<1>6. Parted' = [b \in 1..(n + 1) |-> IF b = n + 1 THEN <<>> ELSE DoneOf(b)]
    <2>1. Parted' = [b \in 1..(n + 1) |-> DoneOf(b)']
        BY <1>1 DEF Parted
    <2>2. \A b \in 1..(n + 1) : DoneOf(b)' = IF b = n + 1 THEN <<>> ELSE DoneOf(b)
        <3> SUFFICES ASSUME NEW b \in 1..(n + 1)
                     PROVE  DoneOf(b)' = IF b = n + 1 THEN <<>> ELSE DoneOf(b)
            OBVIOUS
        <3>1. n \in Nat
            BY <1>1
        <3>2. CASE b = n + 1
            BY <1>5, <3>2
        <3>3. CASE b # n + 1
            <4>1. b \in 1..n
                BY <3>1, <3>3
            <4> QED BY <1>4, <3>3, <4>1
        <3> QED BY <3>2, <3>3
    <2> QED BY <2>1, <2>2
<1> DEFINE S == Seq(AilStatements)
           p == Parted
           q == Parted'
<1>7. <<>> \in S
    OBVIOUS
<1>8. p \in Seq(S) /\ Len(p) = n /\ n \in Nat /\ \A b \in 1..n : p[b] = DoneOf(b) /\ DoneOf(b) \in S
    BY <1>1, <1>2
<1>9. q = [b \in 1..(n + 1) |-> IF b = n + 1 THEN <<>> ELSE DoneOf(b)]
    BY <1>6
<1> HIDE DEF S, p, q
<1>10. q \in Seq(S) /\ Len(q) = Len(p) + 1 /\ q[Len(p) + 1] = <<>>
       /\ \A b \in 1..Len(p) : q[b] = p[b]
    BY <1>7, <1>8, <1>9
<1>11. q = Append(p, <<>>)
    BY <1>7, <1>8, <1>10, AppendEqual
<1>12. FlattenSeq(q) = FlattenSeq(p) \o <<>>
    BY <1>7, <1>8, <1>11, FlattenAppend DEF S
<1>13. Done' = Done \o <<>>
    BY <1>12 DEF Done, p, q
<1> QED BY <1>2, <1>3, <1>13, ConcatEmptySeq

\* The statement that is lowered is one more that is done.
LEMMA LowerAddsDone ==
    ASSUME LowTypes, WithinBlock, LowerStatement
    PROVE  /\ WithinBlock'
           /\ ail.blocks[Len(blocks)][through + 1] \in AilStatements
           /\ Done' = Append(Done, ail.blocks[Len(blocks)][through + 1])
           /\ OpGraph' = Statement(ail.blocks[Len(blocks)][through + 1], OpGraph)
<1>0. PICK n : n = Len(blocks)
    OBVIOUS
<1> DEFINE B == ail.blocks[n]
           st == B[through + 1]
           S == Seq(AilStatements)
<1>1. /\ n \in 1..n /\ n \in Nat /\ n <= Len(ail.blocks)
      /\ ail' = ail /\ through' = through + 1 /\ through < Len(B)
    BY <1>0, StatementStep DEF LowerStatement, StatementsLeft, LowTypes
<1>2. Len(blocks') = n
    <2>1. blocks' = [blocks EXCEPT ![Len(blocks)].last = Len(ops')] /\ Len(ops') \in Nat
        BY StatementStep
    <2>2. blocks \in Seq(BlockRecords)
        BY DEF LowTypes
    <2> QED BY <1>0, <1>1, <2>1, <2>2, BlockLast
<1>3. /\ Parted \in Seq(S) /\ Len(Parted) = n
      /\ \A b \in 1..n : Parted[b] = DoneOf(b) /\ DoneOf(b) \in S
      /\ \A b \in 1..Len(ail.blocks) : ail.blocks[b] \in S
      /\ Done \in S /\ through \in Nat /\ Len(ail.blocks) \in Nat
    BY <1>0, PartedType
<1>4. B \in S /\ Len(B) \in Nat
    <2>1. n \in 1..Len(ail.blocks)
        BY <1>1, <1>3
    <2> QED BY <1>3, <2>1
<1>5. st \in AilStatements
    BY <1>1, <1>3, <1>4
<1>6. WithinBlock'
    BY <1>0, <1>1, <1>2, <1>3, <1>4 DEF WithinBlock
<1>7. OpGraph' = Statement(st, OpGraph)
    <2> DEFINE after == Statement(st, OpGraph)
    <2>1. Grown(OpGraph, after)
        <3> HIDE DEF st
        <3> QED BY <1>5, StatementSound DEF LowTypes
    <2>2. varnodes' = after.varnodes /\ refOf' = after.refOf /\ ops' = after.ops
        BY <1>0 DEF LowerStatement, OpGraph
    <2> HIDE DEF after
    <2>3. after \in Graphs
        BY <2>1 DEF Grown, Sound
    <2>4. OpGraph' = after
        BY <2>2, <2>3, GraphParts DEF OpGraph
    <2> QED BY <2>4 DEF after
<1>8. ASSUME NEW b \in 1..n, b # n PROVE DoneOf(b)' = DoneOf(b)
    <2>1. b < n
        BY <1>1, <1>8
    <2> QED BY <1>0, <1>1, <1>2, <2>1 DEF DoneOf
<1>9. DoneOf(n)' = Append(DoneOf(n), st)
    <2>0. ~(n < Len(blocks')) /\ ~(n < Len(blocks))
        BY <1>0, <1>1, <1>2
    <2>1. DoneOf(n) = SubSeq(B, 1, through)
        BY <2>0 DEF DoneOf
    <2>4. DoneOf(n)' = SubSeq(B, 1, through + 1)
        <3>1. DoneOf(n)' = SubSeq(ail'.blocks[n], 1, through')
            BY <2>0 DEF DoneOf
        <3>2. ail' = ail /\ through' = through + 1
            BY <1>1
        <3> QED BY <3>1, <3>2
    <2>2. through + 1 \in 1..Len(B) /\ (through + 1) - 1 = through
        BY <1>1, <1>3, <1>4
    <2> HIDE DEF B
    <2>3. SubSeq(B, 1, through + 1) = Append(SubSeq(B, 1, (through + 1) - 1), B[through + 1])
        BY <1>4, <2>2, LastSplits
    <2> QED BY <2>1, <2>2, <2>3, <2>4
<1>10. Parted' = [b \in 1..n |-> IF b = n THEN Append(DoneOf(n), st) ELSE DoneOf(b)]
    <2>1. Parted' = [b \in 1..n |-> DoneOf(b)']
        BY <1>0, <1>2 DEF Parted
    <2>2. \A b \in 1..n : DoneOf(b)' = IF b = n THEN Append(DoneOf(n), st) ELSE DoneOf(b)
        BY <1>8, <1>9
    <2> HIDE DEF st
    <2> QED BY <2>1, <2>2
<1> DEFINE p == Parted
           q == Parted'
           x == DoneOf(n)
           y == Append(x, st)
           front == SubSeq(p, 1, n - 1)
<1>11. x \in S /\ y \in S
    <2>1. DoneOf(n) \in Seq(AilStatements)
        BY <1>1, <1>3
    <2> HIDE DEF st
    <2> QED BY <1>5, <2>1, AppendProperties
<1>12. /\ p \in Seq(S) /\ Len(p) = n /\ n \in Nat /\ n \in 1..n
       /\ \A b \in 1..n : p[b] = DoneOf(b) /\ DoneOf(b) \in S
    BY <1>1, <1>3
<1>13. q = [b \in 1..n |-> IF b = n THEN y ELSE DoneOf(b)]
    BY <1>10
<1>20. p[n] = x
    BY <1>12
<1> HIDE DEF S, p, q, x, y
<1>14. /\ front \in Seq(S) /\ Len(front) = n - 1
       /\ SubSeq(p, 1, n) = Append(front, p[n]) /\ SubSeq(p, 1, Len(p)) = p
    BY <1>12, LastSplits, SubSeqWhole
<1>15. p = Append(front, x) /\ \A b \in 1..(n - 1) : front[b] = p[b]
    <2>1. p = Append(front, x)
        BY <1>12, <1>14, <1>20
    <2>2. \A b \in 1..(n - 1) : front[b] = p[b]
        BY <1>12
    <2> QED BY <2>1, <2>2
<1> HIDE DEF front
<1>16. /\ q \in Seq(S) /\ Len(q) = Len(front) + 1 /\ q[Len(front) + 1] = y
       /\ \A b \in 1..Len(front) : q[b] = front[b]
    <2>1. q \in Seq(S) /\ Len(q) = n /\ q[n] = y
        BY <1>11, <1>12, <1>13
    <2>2. \A b \in 1..(n - 1) : b \in 1..n /\ b # n
        BY <1>12
    <2>3. \A b \in 1..(n - 1) : q[b] = p[b]
        BY <1>12, <1>13, <2>2
    <2>4. Len(front) + 1 = n
        BY <1>12, <1>14
    <2> QED BY <1>14, <1>15, <2>1, <2>3, <2>4
<1>17. q = Append(front, y)
    BY <1>11, <1>14, <1>16, AppendEqual
<1>18. FlattenSeq(p) = FlattenSeq(front) \o x /\ FlattenSeq(q) = FlattenSeq(front) \o y
       /\ FlattenSeq(front) \in S
    BY <1>11, <1>14, <1>15, <1>17, FlattenAppend DEF S
<1> DEFINE f == FlattenSeq(front)
<1>19. f \o y = Append(f \o x, st)
    <2> HIDE DEF f, st
    <2>1. f \in Seq(AilStatements) /\ x \in Seq(AilStatements)
        BY <1>11, <1>18 DEF S, f
    <2>2. y = x \o <<st>> /\ Append(f \o x, st) = (f \o x) \o <<st>>
        <3>1. f \o x \in Seq(AilStatements)
            BY <2>1
        <3> QED BY <1>5, <2>1, <3>1, AppendIsConcat DEF y
    <2>3. f \o (x \o <<st>>) = (f \o x) \o <<st>>
        <3>1. <<st>> \in Seq(AilStatements)
            BY <1>5
        <3> QED BY <2>1, <3>1, ConcatAssociative
    <2> QED BY <2>2, <2>3
<1>21. Done' = Append(Done, st)
    BY <1>18, <1>19 DEF Done, p, q
<1> QED BY <1>0, <1>5, <1>6, <1>7, <1>21

\* When all is lowered, all the statements are done.
LEMMA AllIsDone ==
    ASSUME LowTypes, WithinBlock, AllLowered
    PROVE  Done = Statements
<1> DEFINE n == Len(blocks)
<1>1. /\ n \in Nat /\ n = Len(ail.blocks)
      /\ ail.blocks \in Seq(Seq(AilStatements)) /\ through \in Nat
      /\ Parted \in Seq(Seq(AilStatements)) /\ Len(Parted) = n
      /\ \A b \in 1..n : Parted[b] = DoneOf(b)
      /\ \A b \in 1..n : ail.blocks[b] \in Seq(AilStatements)
    BY PartedType DEF AllLowered, BlocksLeft
<1>2. ASSUME NEW b \in 1..n PROVE DoneOf(b) = ail.blocks[b]
    <2>1. CASE b < n
        BY <2>1 DEF DoneOf
    <2>2. CASE b = n
        <3>1. ail.blocks[b] \in Seq(AilStatements) /\ Len(ail.blocks[b]) \in Nat
            BY <1>1
        <3>2. ~(through < Len(ail.blocks[b]))
            <4>1. blocks # <<>>
                BY <2>2
            <4> QED BY <2>2, <4>1 DEF AllLowered, StatementsLeft
        <3>3. through <= Len(ail.blocks[b])
            BY <1>1, <2>2 DEF WithinBlock
        <3>4. through = Len(ail.blocks[b])
            BY <1>1, <3>1, <3>2, <3>3
        <3> QED BY <2>2, <3>1, <3>4, SubSeqWhole DEF DoneOf
    <2> QED BY <1>1, <2>1, <2>2
<1>3. Parted = ail.blocks
    <2>1. Len(Parted) = Len(ail.blocks) /\ \A b \in 1..Len(Parted) : Parted[b] = ail.blocks[b]
        BY <1>1, <1>2
    <2> HIDE DEF n
    <2> QED BY <1>1, <2>1, SeqEqual
<1> QED BY <1>3 DEF Done, Statements

-----------------------------------------------------------------------------
(* The lowering keeps the data flow *)

\* The statements and times of the property are those of a finished lowering.
LEMMA ActsAre ==
    ASSUME LowTypes
    PROVE  /\ Statements \in Seq(AilStatements)
           /\ Acts = Each(Act, Statements)
           /\ Lasting = Named(OpGraph) /\ ActTimes = Times(OpGraph)
<1>0. OpGraph.refOf = refOf /\ OpGraph.ops = ops
    BY DEF OpGraph
<1>1. Statements \in Seq(AilStatements)
    BY AilParts, FlattenType DEF LowTypes, Statements
<1>2. Acts = Each(Act, Statements)
    <2> DEFINE all == Statements
               made(i) == IF all[i].form \in {"assign", "effect"} THEN <<all[i]>> ELSE <<>>
    <2>1. \A i \in DOMAIN all : all[i] \in AilStatements
        BY <1>1
    <2>2. \A i \in DOMAIN all : Act[all[i]] = made(i)
        BY <2>1 DEF Act
    <2>3. Acts = FlattenSeq([i \in DOMAIN all |-> made(i)])
        BY DEF Acts
    <2>4. Each(Act, all) = FlattenSeq([i \in DOMAIN all |-> Act[all[i]]])
        BY DEF Each
    <2> HIDE DEF all, made
    <2>5. [i \in DOMAIN all |-> made(i)] = [i \in DOMAIN all |-> Act[all[i]]]
        BY <2>2
    <2>6. Acts = Each(Act, all)
        BY <2>3, <2>4, <2>5, Zenon
    <2> QED BY <2>6 DEF all
<1>3. Lasting = Named(OpGraph)
    BY <1>0 DEF Lasting, Named
<1>4. ActTimes = Times(OpGraph)
    BY <1>0, <1>3, Zenon DEF ActTimes, Times
<1> QED BY <1>1, <1>2, <1>3, <1>4

\* A graph that has what all the statements become has kept the data flow.
LEMMA KeptFromTold ==
    ASSUME LowTypes, NEW src, Flows(OpGraph, src), Told(Statements, OpGraph, src)
    PROVE  SameDataFlow
<1>0. OpGraph.refOf = refOf /\ OpGraph.ops = ops
    BY DEF OpGraph
<1>1. /\ Statements \in Seq(AilStatements) /\ Acts = Each(Act, Statements)
      /\ Lasting = Named(OpGraph) /\ ActTimes = Times(OpGraph)
    BY ActsAre
<1>2. /\ Len(ActTimes) = Len(Acts)
      /\ \A i \in 1..Len(Acts) : Follows(OpGraph, src, ActTimes[i], Acts[i])
      /\ \A i \in 1..Len(Statements) : Stored(OpGraph, src, Statements[i])
    BY <1>1 DEF Told
<1>3. \A t \in DOMAIN ops : From[t] = Carried(src, ops[t].inputs)
    BY FromIsCarried
<1>4. DOMAIN ops = 1..Len(ops)
    BY <1>0, FlowParts, SoundParts
<1>5. DOMAIN Acts = 1..Len(Acts) /\ DOMAIN Statements = 1..Len(Statements)
    BY <1>1, ActsType
<1>6. ASSUME NEW i \in DOMAIN Acts
      PROVE  LET st == Acts[i]
                 output == ops[ActTimes[i]].output
             IN /\ From[ActTimes[i]] = ReadsOf(st)
                /\ IF st.form = "assign" THEN output = refOf[st.var] /\ output # 0
                                         ELSE output = 0
    <2>1. Follows(OpGraph, src, ActTimes[i], Acts[i])
        BY <1>2, <1>5
    <2>2. /\ ActTimes[i] \in DOMAIN ops
          /\ Carried(src, ops[ActTimes[i]].inputs) = ReadsOf(Acts[i])
          /\ IF Acts[i].form = "assign"
             THEN ops[ActTimes[i]].output = refOf[Acts[i].var] /\ ops[ActTimes[i]].output # 0
             ELSE ops[ActTimes[i]].output = 0
        BY <1>0, <1>4, <2>1 DEF Follows
    <2>3. From[ActTimes[i]] = ReadsOf(Acts[i])
        BY <1>3, <2>2
    <2> QED BY <2>2, <2>3
<1>7. ASSUME NEW i \in DOMAIN Statements, Statements[i].form = "evaluate",
             NEW k \in DOMAIN Statements[i].args,
             Exprs[Statements[i].args[k]].form = "operation"
      PROVE  \E t \in DOMAIN ops : /\ ops[t].output \notin Lasting
                                   /\ From[t] = Reads[Statements[i].args[k]]
    <2> DEFINE st == Statements[i]
    <2>1. st \in AilStatements /\ Stored(OpGraph, src, st)
        BY <1>1, <1>2, <1>5
    <2>2. st.args \in Seq(DOMAIN Exprs) /\ k \in DOMAIN st.args /\ st.form = "evaluate"
        BY <1>7, <2>1, StatementForms
    <2>3. Computes(st.args[k])
        BY <1>7 DEF Computes
    <2> HIDE DEF st
    <2>4. k \in 1..Len(st.args)
        BY <2>2
    <2>5. Computed(OpGraph, src, Reads[st.args[k]])
        BY <2>1, <2>2, <2>3, <2>4 DEF Stored
    <2>6. PICK t \in 1..Len(ops) : /\ ops[t].output \notin Named(OpGraph)
                                   /\ Carried(src, ops[t].inputs) = Reads[st.args[k]]
        BY <1>0, <2>5 DEF Computed
    <2>7. /\ t \in DOMAIN ops /\ ops[t].output \notin Lasting
          /\ From[t] = Reads[st.args[k]]
        BY <1>1, <1>3, <1>4, <2>6
    <2> QED BY <2>7 DEF st
<1> QED BY <1>2, <1>6, <1>7 DEF SameDataFlow

\* The empty graph carries nothing.
LEMMA EmptyFlows ==
    ASSUME NEW g \in Sound, g.varnodes = <<>>, g.refOf = Unknown, g.ops = <<>>
    PROVE  Flows(g, <<>>) /\ Times(g) = <<>>
<1>1. Len(g.varnodes) = 0 /\ 1..0 = {} /\ \A v \in SsaValues : g.refOf[v] = 0
    BY DEF Unknown
<1>2. <<>> \in [1..Len(g.varnodes) -> SUBSET SsaValues]
    BY <1>1
<1>3. Times(g) = <<>>
    <2> DEFINE one(t) == IF g.ops[t].output \in Named(g) THEN <<t>> ELSE <<>>
    <2>1. Times(g) = FlattenSeq([t \in DOMAIN <<>> |-> one(t)])
        BY DEF Times
    <2>2. [t \in DOMAIN <<>> |-> one(t)] = <<>>
        <3> HIDE DEF one
        <3> QED OBVIOUS
    <2> HIDE DEF one
    <2> QED BY <2>1, <2>2, FlattenNone
<1> QED BY <1>1, <1>2, <1>3 DEF Flows

\* The lowering starts with nothing done.
LEMMA FlowAtStart == LowInit => FlowInv
<1> SUFFICES ASSUME LowInit PROVE FlowInv
    OBVIOUS
<1>1. LowTypes
    BY TypesAtStart
<1>2. /\ OpGraph.varnodes = <<>> /\ OpGraph.refOf = Unknown /\ OpGraph.ops = <<>>
      /\ OpGraph \in Sound
    BY <1>1 DEF LowInit, OpGraph, LowTypes
<1>3. Flows(OpGraph, <<>>) /\ Times(OpGraph) = <<>>
    BY <1>2, EmptyFlows
<1>4. blocks = <<>> /\ Len(blocks) = 0
    BY DEF LowInit
<1>5. Done = <<>>
    <2>1. Parted = <<>>
        <3>1. Parted = [b \in 1..0 |-> DoneOf(b)]
            BY <1>4 DEF Parted
        <3>2. \A f : DOMAIN f = 1..0 /\ f = [b \in 1..0 |-> f[b]] => f = <<>>
            OBVIOUS
        <3> QED BY <3>1
    <2> QED BY <2>1, FlattenNone DEF Done
<1>6. Told(<<>>, OpGraph, <<>>)
    <2>1. Each(Act, <<>>) = <<>>
        BY EachNone
    <2> QED BY <1>3, <2>1 DEF Told
<1>7. WithinBlock
    BY <1>4 DEF WithinBlock
<1>8. Traced
    BY <1>3, <1>5, <1>6, <1>7 DEF Traced
<1>9. DataFlowIsKept
    BY DEF LowInit, DataFlowIsKept
<1> QED BY <1>8, <1>9 DEF FlowInv

\* Another block.
LEMMA FlowAfterOpen == LowTypes /\ FlowInv /\ OpenBlock => FlowInv'
<1> SUFFICES ASSUME LowTypes, FlowInv, OpenBlock PROVE FlowInv'
    OBVIOUS
<1>1. lowering = "runs" /\ lowering' = "runs" /\ OpGraph' = OpGraph
    BY DEF OpenBlock, OpGraph
<1>2. WithinBlock /\ \E src : Flows(OpGraph, src) /\ Told(Done, OpGraph, src)
    BY <1>1 DEF FlowInv, Traced
<1>3. PICK src : Flows(OpGraph, src) /\ Told(Done, OpGraph, src)
    BY <1>2
<1>4. WithinBlock' /\ Done' = Done
    BY <1>2, OpenLeavesDone
<1>5. Flows(OpGraph', src) /\ Told(Done', OpGraph', src)
    BY <1>1, <1>3, <1>4
<1>6. Traced'
    BY <1>4, <1>5 DEF Traced
<1>7. DataFlowIsKept'
    BY <1>1 DEF DataFlowIsKept
<1> QED BY <1>6, <1>7 DEF FlowInv

\* Another statement.
LEMMA FlowAfterStatement == LowTypes /\ FlowInv /\ LowerStatement => FlowInv'
<1> SUFFICES ASSUME LowTypes, FlowInv, LowerStatement PROVE FlowInv'
    OBVIOUS
<1> DEFINE st == ail.blocks[Len(blocks)][through + 1]
<1>1. lowering = "runs" /\ lowering' = "runs"
    BY DEF LowerStatement
<1>2. WithinBlock /\ \E src : Flows(OpGraph, src) /\ Told(Done, OpGraph, src)
    BY <1>1 DEF FlowInv, Traced
<1>3. PICK src : Flows(OpGraph, src) /\ Told(Done, OpGraph, src)
    BY <1>2
<1>4. /\ WithinBlock' /\ st \in AilStatements /\ Done' = Append(Done, st)
      /\ OpGraph' = Statement(st, OpGraph)
    BY <1>2, LowerAddsDone
<1>5. Done \in Seq(AilStatements) /\ ail \in AilGraphs
    BY <1>2, PartedType DEF LowTypes
<1>6. Tells(Done, st, Statement(st, OpGraph))
    <2> HIDE DEF st
    <2> QED BY <1>3, <1>4, <1>5, StatementTells
<1>7. \E k : Flows(Statement(st, OpGraph), k) /\ Told(Append(Done, st), Statement(st, OpGraph), k)
    BY <1>6 DEF Tells
<1>8. PICK k : /\ Flows(Statement(st, OpGraph), k)
               /\ Told(Append(Done, st), Statement(st, OpGraph), k)
    BY <1>7
<1>9. Flows(OpGraph', k) /\ Told(Done', OpGraph', k)
    BY <1>4, <1>8
<1>10. Traced'
    BY <1>4, <1>9 DEF Traced
<1>11. DataFlowIsKept'
    BY <1>1 DEF DataFlowIsKept
<1> QED BY <1>10, <1>11 DEF FlowInv

\* Another edge.
LEMMA FlowAfterEdge == LowTypes /\ FlowInv /\ AddEdge => FlowInv'
<1> SUFFICES ASSUME LowTypes, FlowInv, AddEdge PROVE FlowInv'
    OBVIOUS
<1>1. /\ lowering = "runs" /\ lowering' = "runs" /\ OpGraph' = OpGraph
      /\ ail' = ail /\ through' = through
    BY DEF AddEdge, OpGraph
<1>2. WithinBlock /\ \E src : Flows(OpGraph, src) /\ Told(Done, OpGraph, src)
    BY <1>1 DEF FlowInv, Traced
<1>3. PICK src : Flows(OpGraph, src) /\ Told(Done, OpGraph, src)
    BY <1>2
<1>4. Len(blocks') = Len(blocks)
    <2> DEFINE n == ail.edges[edges + 1][2]
               e == InEdge(ail, edges + 1)
    <2>1. n \in 1..Len(blocks) /\ e \in Nat \X Nat /\ blocks \in Seq(BlockRecords)
          /\ blocks' = [blocks EXCEPT ![n].in = Append(@, e)]
        BY EdgeStep DEF LowTypes
    <2> HIDE DEF n, e
    <2> QED BY <2>1, BlockIn
<1>5. WithinBlock'
    BY <1>1, <1>2, <1>4 DEF WithinBlock
<1>6. Done' = Done
    <2>1. Parted' = Parted
        BY <1>1, <1>4 DEF Parted, DoneOf
    <2> QED BY <2>1 DEF Done
<1>7. Flows(OpGraph', src) /\ Told(Done', OpGraph', src)
    BY <1>1, <1>3, <1>6
<1>8. Traced'
    BY <1>5, <1>7 DEF Traced
<1>9. DataFlowIsKept'
    BY <1>1 DEF DataFlowIsKept
<1> QED BY <1>8, <1>9 DEF FlowInv

\* The property is about the statements, the values' varnodes and the operations.
LEMMA KeptWithSame ==
    UNCHANGED <<ail, refOf, ops>> /\ (lowering' = "done" => SameDataFlow) => DataFlowIsKept'
<1> SUFFICES ASSUME SameDataFlow, UNCHANGED <<ail, refOf, ops>>
             PROVE  SameDataFlow'
    BY DEF DataFlowIsKept
<1>1. ail' = ail /\ refOf' = refOf /\ ops' = ops
    OBVIOUS
<1>2. Statements' = Statements /\ Lasting' = Lasting /\ From' = From
    BY <1>1 DEF Statements, Lasting, From
<1>3. Acts' = Acts /\ ActTimes' = ActTimes
    BY <1>1, <1>2 DEF Acts, ActTimes
<1>4. \A st : ReadsOf(st)' = ReadsOf(st)
    BY DEF ReadsOf, Reads
<1> QED BY <1>1, <1>2, <1>3, <1>4 DEF SameDataFlow

\* The lowering is over.
LEMMA FlowAfterTranslated == LowTypes /\ FlowInv /\ Translated => FlowInv'
<1> SUFFICES ASSUME LowTypes, FlowInv, Translated PROVE FlowInv'
    OBVIOUS
<1>1. lowering = "runs" /\ lowering' = "done" /\ AllLowered
    BY DEF Translated
<1>2. WithinBlock /\ \E src : Flows(OpGraph, src) /\ Told(Done, OpGraph, src)
    BY <1>1 DEF FlowInv, Traced
<1>3. PICK src : Flows(OpGraph, src) /\ Told(Done, OpGraph, src)
    BY <1>2
<1>4. Done = Statements
    BY <1>1, <1>2, AllIsDone
<1>5. SameDataFlow
    BY <1>3, <1>4, KeptFromTold
<1>6. DataFlowIsKept
    BY <1>5 DEF DataFlowIsKept
<1>7. UNCHANGED <<ail, refOf, ops>> /\ (lowering' = "done" => SameDataFlow)
    BY <1>5 DEF Translated
<1>8. DataFlowIsKept'
    BY <1>7, KeptWithSame
<1> QED BY <1>1, <1>8 DEF FlowInv

\* Every step of the lowering.
LEMMA FlowKept == LowTypes /\ FlowInv /\ Lower => FlowInv'
<1> SUFFICES ASSUME LowTypes, FlowInv, Lower PROVE FlowInv'
    OBVIOUS
<1>1. CASE TranslationFails
    BY <1>1 DEF TranslationFails, FlowInv, DataFlowIsKept
<1> QED BY <1>1, FlowAfterOpen, FlowAfterStatement, FlowAfterEdge, FlowAfterTranslated DEF Lower

\* A step that is none of the lowering.
LEMMA FlowStays ==
    DataFlowIsKept /\ UNCHANGED <<ail, refOf, ops, lowering>> /\ lowering # "runs" => FlowInv'
<1> SUFFICES ASSUME DataFlowIsKept, UNCHANGED <<ail, refOf, ops, lowering>>, lowering # "runs"
             PROVE  FlowInv'
    OBVIOUS
<1>1. DataFlowIsKept'
    BY KeptWithSame DEF DataFlowIsKept
<1> QED BY <1>1 DEF FlowInv

\* Nothing changes.
LEMMA FlowAfterNothing == FlowInv /\ UNCHANGED lowVars => FlowInv'
<1> SUFFICES ASSUME FlowInv, UNCHANGED lowVars PROVE FlowInv'
    OBVIOUS
<1>1. UNCHANGED <<ail, varnodes, refOf, ops, blocks, through, lowering>>
    BY DEF lowVars
<1>2. DataFlowIsKept'
    BY <1>1, KeptWithSame DEF FlowInv, DataFlowIsKept
<1>3. OpGraph' = OpGraph /\ Done' = Done /\ WithinBlock' = WithinBlock
    BY <1>1 DEF OpGraph, Done, Parted, DoneOf, WithinBlock
<1>4. Traced' = Traced
    BY <1>3 DEF Traced
<1> QED BY <1>1, <1>2, <1>4 DEF FlowInv

\* The operations are those of the statements, in every state.
LEMMA FlowInvHolds == Spec => []FlowInv
<1>1. Init => FlowInv
    BY FlowAtStart DEF Init
<1>2. DocInv /\ FlowInv /\ [Next]_vars => FlowInv'
    <2> SUFFICES ASSUME DocInv, FlowInv, [Next]_vars PROVE FlowInv'
        OBVIOUS
    <2>1. LowTypes /\ Phases /\ DataFlowIsKept
        BY DEF DocInv, FlowInv
    <2>2. CASE BuildPcode
        BY <2>1, <2>2, FlowKept DEF BuildPcode
    <2>3. CASE BuildTable
        BY <2>1, <2>3, FlowStays DEF BuildTable
    <2>4. CASE EmitDoc
        BY <2>4, FlowAfterNothing DEF EmitDoc
    <2>5. CASE UNCHANGED vars
        BY <2>5, FlowAfterNothing DEF vars
    <2> QED BY <2>2, <2>3, <2>4, <2>5 DEF Next
<1> QED BY <1>1, <1>2, DocInvHolds, PTL DEF Spec

\* The lowering keeps the data flow: when it is done, its operations are those the
\* statements become, in their order, and each reads and writes what its statement does.
THEOREM DataFlowIsAlwaysKept == Spec => []DataFlowIsKept
<1>1. FlowInv => DataFlowIsKept
    BY DEF FlowInv
<1> QED BY <1>1, FlowInvHolds, PTL
=============================================================================
