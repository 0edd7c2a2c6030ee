------------------------ MODULE HighVariablesProofs ------------------------
(***************************************************************************)
(* Proofs about HighVariables, for any variables, storage, texts and       *)
(* number of SSA values: the instances of variables are disjoint, every    *)
(* token leads to its own variable, and refers to the value it renders     *)
(* unless another variable has taken that. They hold of UserEdits too,     *)
(* since its steps do not touch what build() has built; and a variable     *)
(* that shares nothing shows the newest of its names that led back to it.  *)
(***************************************************************************)
EXTENDS UserEdits, SequenceTheorems, WellFoundedInduction, TLAPS

-----------------------------------------------------------------------------
(* The invariant *)

\* The occurrences the first pass has been through.
Processed == {k \in 1..NumChunks : pass = "first" => k < at}

\* Each that has storage has a symbol, and nothing else has.
SymbolsShown ==
    /\ \A k \in Processed : slot[chunks[k].var] # Nowhere => chunks[k].var \in ToSet(symbols)
    /\ \A v \in ToSet(symbols) : slot[v] # Nowhere

\* What is claimed is what is somebody's instance.
ClaimedAreMembers ==
    /\ \A v \in Vars : ToSet(members[v]) \subseteq claimed
    /\ \A r \in claimed : \E v \in Vars : r \in ToSet(members[v])

\* Instances are at the storage of their variable.
MembersInPlace ==
    \A v \in Vars : \A r \in ToSet(members[v]) : Covers(varnodes[r], slot[v])

\* The symbols the second pass has been through have a representative.
Represented ==
    \A i \in 1..Len(symbols) :
        pass = "done" \/ (pass = "second" /\ i < at) =>
            rep[symbols[i]] \in ToSet(members[symbols[i]])

\* In the first pass, instances are values of occurrences it has been through.
MembersOccur ==
    pass = "first" =>
        \A v \in Vars : \A r \in ToSet(members[v]) :
            \E j \in Processed : /\ chunks[j].var = v /\ slot[v] # Nowhere
                                 /\ OccurrenceRef(chunks[j]) = r

\* An earlier occurrence shows the value of the k-th as another variable.
Taken(k) ==
    \E j \in 1..(k - 1) :
        /\ chunks[j].var # chunks[k].var
        /\ slot[chunks[j].var] # Nowhere
        /\ OccurrenceRef(chunks[j]) = OccurrenceRef(chunks[k])

\* The value of an occurrence is an instance of its variable unless taken.
OwnUnlessTaken ==
    \A k \in Processed :
        /\ slot[chunks[k].var] # Nowhere
        /\ OccurrenceRef(chunks[k]) # 0
        /\ OccurrenceRef(chunks[k]) \notin ToSet(members[chunks[k].var])
        => Taken(k)

IInv ==
    /\ TypeOK /\ InstancesDisjoint
    /\ SymbolsShown /\ ClaimedAreMembers /\ MembersInPlace
    /\ Represented /\ MembersOccur /\ OwnUnlessTaken

-----------------------------------------------------------------------------
(* Sequences and least elements *)

\* The elements of a sequence, by their places.
LEMMA ElementsByPlace ==
    ASSUME NEW S, NEW s \in Seq(S), NEW e
    PROVE  e \in ToSet(s) <=> \E i \in 1..Len(s) : s[i] = e
BY DEF ToSet

\* Append adds one element, at the end.
LEMMA ElementsOfAppend ==
    ASSUME NEW S, NEW s \in Seq(S), NEW e \in S
    PROVE  /\ Append(s, e) \in Seq(S) /\ Len(Append(s, e)) = Len(s) + 1
           /\ \A i \in 1..Len(s) : Append(s, e)[i] = s[i]
           /\ Append(s, e)[Len(s) + 1] = e
           /\ ToSet(Append(s, e)) = ToSet(s) \cup {e}
<1>1. /\ Append(s, e) \in Seq(S) /\ Len(Append(s, e)) = Len(s) + 1
      /\ \A i \in 1..Len(s) : Append(s, e)[i] = s[i]
      /\ Append(s, e)[Len(s) + 1] = e
    BY AppendProperties
<1>2. ASSUME NEW x PROVE x \in ToSet(Append(s, e)) <=> x \in ToSet(s) \cup {e}
    <2> DEFINE t == Append(s, e)
    <2>1. x \in ToSet(t) <=> \E i \in 1..Len(t) : t[i] = x
        BY <1>1, ElementsByPlace
    <2>2. x \in ToSet(s) <=> \E i \in 1..Len(s) : s[i] = x
        BY ElementsByPlace
    <2>3. Len(s) \in Nat
        BY LenProperties
    <2> HIDE DEF t
    <2>4. (\E i \in 1..Len(t) : t[i] = x) <=> (\E i \in 1..Len(s) : s[i] = x) \/ x = e
        BY <1>1, <2>3 DEF t
    <2> QED BY <2>1, <2>2, <2>4 DEF t
<1> QED BY <1>1, <1>2

Less == {p \in Nat \X Nat : p[1] < p[2]}

\* A set of numbers that is not empty has a least element.
LEMMA LeastElement ==
    ASSUME NEW T, T \subseteq Nat, T # {}
    PROVE  \E m \in T : \A n \in T : m <= n
<1>1. IsWellFoundedOn(Less, Nat)
    BY NatLessThanWellFounded DEF OpToRel, Less
<1>2. PICK m \in T : \A n \in T : ~(<<n, m>> \in Less)
    BY <1>1, WFMin, Zenon
<1>3. ASSUME NEW n \in T, n < m PROVE FALSE
    <2>1. <<n, m>> \in Nat \X Nat /\ <<n, m>>[1] < <<n, m>>[2]
        BY <1>3
    <2>2. <<n, m>> \in Less
        BY <2>1, Zenon DEF Less
    <2> QED BY <2>2, <1>2
<1>4. \A n \in T : m <= n
    BY <1>3
<1> QED BY <1>4

-----------------------------------------------------------------------------
(* Lookups *)

\* OccurrenceRef returns a lowered value at the storage of the variable, or none.
LEMMA OccurrenceRefType ==
    ASSUME TypeOK, NEW c \in Chunk
    PROVE  /\ OccurrenceRef(c) \in 0..lowered
           /\ OccurrenceRef(c) # 0 => Covers(varnodes[OccurrenceRef(c)], slot[c.var])
BY DEF TypeOK, OccurrenceRef, Chunk

\* The first varnode at a storage is one of those there.
LEMMA FirstIsThere ==
    ASSUME TypeOK, NEW s, At(s) # {}
    PROVE  First(s) \in 1..Len(varnodes) /\ Covers(varnodes[First(s)], s)
<1>1. At(s) \subseteq Nat
    BY DEF At, TypeOK
<1>2. \E r \in At(s) : \A q \in At(s) : r <= q
    BY <1>1, LeastElement
<1>3. First(s) \in At(s)
    BY <1>2 DEF First
<1> QED BY <1>3 DEF At

\* A step changes no varnode that is there.
LEMMA VarnodesStay ==
    ASSUME TypeOK, Build
    PROVE  /\ Len(varnodes) <= Len(varnodes')
           /\ \A r \in 1..Len(varnodes) : varnodes'[r] = varnodes[r]
           /\ UNCHANGED <<chunks, slot, lowered>>
<1>1. CASE RepresentByNew
    <2>1. slot[Symbol] \in Slots \cup {Nowhere}
        BY <1>1 DEF TypeOK, RepresentByNew, Symbol
    <2> QED BY <1>1, <2>1, AppendProperties DEF RepresentByNew, Represent, TypeOK
<1>2. CASE ~RepresentByNew
    BY <1>2 DEF TypeOK, Build, Skip, Claim, Pass, EndFirst, RepresentByMember,
                RepresentByStorage, Represent, EndSecond
<1> QED BY <1>1, <1>2

\* So the value of an occurrence stays too.
LEMMA OccurrencesStay ==
    ASSUME TypeOK, Build, NEW c \in Chunk
    PROVE  OccurrenceRef(c)' = OccurrenceRef(c)
<1>1. /\ \A r \in 1..Len(varnodes) : varnodes'[r] = varnodes[r]
      /\ slot' = slot /\ lowered' = lowered
    BY VarnodesStay
<1>2. 1..lowered \subseteq 1..Len(varnodes)
    BY DEF TypeOK
<1> QED BY <1>1, <1>2 DEF OccurrenceRef, Covers

\* A new instance of one variable, which was nobody's, is one more element of its
\* list; the lists stay disjoint, and what is claimed is what is in them.
LEMMA NewInstance ==
    ASSUME TypeOK, InstancesDisjoint, ClaimedAreMembers,
           NEW v \in Vars, NEW ref \in Nat, ref \notin claimed,
           members' = [members EXCEPT ![v] = Append(@, ref)],
           claimed' = claimed \cup {ref}
    PROVE  /\ InstancesDisjoint'
           /\ ClaimedAreMembers'
           /\ ToSet(members'[v]) = ToSet(members[v]) \cup {ref}
           /\ \A u \in Vars \ {v} : ToSet(members'[u]) = ToSet(members[u])
<1> DEFINE old == members[v]
           new == members'[v]
<1>1. \A u \in Vars : members[u] \in Seq(Nat)
    BY SeqMonotonic DEF TypeOK
<1>2. new = Append(old, ref) /\ \A u \in Vars \ {v} : members'[u] = members[u]
    BY DEF TypeOK
<1>3. /\ Len(old) \in Nat /\ Len(new) = Len(old) + 1
      /\ \A i \in 1..Len(old) : new[i] = old[i]
      /\ new[Len(old) + 1] = ref
      /\ ToSet(new) = ToSet(old) \cup {ref}
    BY <1>1, <1>2, ElementsOfAppend, LenProperties
<1>4. /\ ToSet(members'[v]) = ToSet(members[v]) \cup {ref}
      /\ \A u \in Vars \ {v} : ToSet(members'[u]) = ToSet(members[u])
    BY <1>2, <1>3
<1>5. ClaimedAreMembers'
    <2>1. ASSUME NEW u \in Vars PROVE ToSet(members'[u]) \subseteq claimed'
        <3>1. ToSet(members[u]) \subseteq claimed
            BY DEF ClaimedAreMembers
        <3>2. ToSet(members'[u]) \subseteq ToSet(members[u]) \cup {ref}
            BY <1>4
        <3> QED BY <3>1, <3>2
    <2>2. ASSUME NEW r \in claimed' PROVE \E u \in Vars : r \in ToSet(members'[u])
        <3>1. CASE r = ref
            <4>1. r \in ToSet(members'[v])
                BY <3>1, <1>4
            <4> QED BY <4>1
        <3>2. CASE r \in claimed
            <4>1. PICK u \in Vars : r \in ToSet(members[u])
                BY <3>2 DEF ClaimedAreMembers
            <4>2. r \in ToSet(members'[u])
                BY <4>1, <1>4
            <4> QED BY <4>2
        <3> QED BY <3>1, <3>2
    <2> QED BY <2>1, <2>2 DEF ClaimedAreMembers
<1>6. \A u \in Vars : \A i \in 1..Len(members[u]) : members[u][i] \in claimed
    BY <1>1, ElementsByPlace DEF ClaimedAreMembers
<1>7. InstancesDisjoint'
    <2> SUFFICES ASSUME NEW u \in Vars, NEW w \in Vars,
                        NEW i \in 1..Len(members'[u]), NEW j \in 1..Len(members'[w]),
                        members'[u][i] = members'[w][j]
                 PROVE  u = w /\ i = j
        BY DEF InstancesDisjoint
    <2>1. \A x \in Vars : \A k \in 1..Len(members'[x]) :
              \/ k \in 1..Len(members[x]) /\ members'[x][k] = members[x][k]
              \/ x = v /\ k = Len(old) + 1 /\ members'[x][k] = ref
        BY <1>2, <1>3
    <2>2. CASE members'[u][i] = ref
        BY <2>1, <2>2, <1>6
    <2>3. CASE members'[u][i] # ref
        BY <2>1, <2>3 DEF InstancesDisjoint
    <2> QED BY <2>2, <2>3
<1> QED BY <1>4, <1>5, <1>7

-----------------------------------------------------------------------------
(* Types *)

\* What build() is given, and the empty lists that it starts with.
Given ==
    /\ chunks \in [1..NumChunks -> Chunk]
    /\ slot \in [Vars -> Slots \cup {Nowhere}]
    /\ varnodes \in Seq(Slots \cup {Nowhere}) /\ lowered = Len(varnodes)
    /\ symbols = <<>> /\ claimed = {}
    /\ members = [v \in Vars |-> <<>>]
    /\ rep = [v \in Vars |-> 0]
    /\ pass = "first" /\ at = 1

LEMMA InitGiven == Init => Given
<1> SUFFICES ASSUME Init PROVE Given
    OBVIOUS
<1>1. varnodes \in Seq(Slots \cup {Nowhere}) /\ Len(varnodes) = lowered /\ lowered \in Nat
    <2>1. lowered \in Nat /\ varnodes \in [1..lowered -> Slots \cup {Nowhere}]
        BY NumValuesAssumption DEF Init
    <2> QED BY <2>1, IsASeq, LenProperties
<1>2. chunks \in [1..NumChunks -> Chunk]
    BY NumValuesAssumption DEF Init, Chunk
<1> QED BY <1>1, <1>2 DEF Init, Given

LEMMA GivenTypes == Given => TypeOK
<1> SUFFICES ASSUME Given PROVE TypeOK
    OBVIOUS
<1>1. symbols \in Seq(Vars) /\ members \in [Vars -> Seq(1..Len(varnodes))]
    BY DEF Given
<1> QED BY <1>1, LenProperties DEF Given, TypeOK

\* A list of varnodes remains one when there are more varnodes.
LEMMA MoreVarnodes ==
    ASSUME NEW m \in Nat, NEW n \in Nat, m <= n, NEW f \in [Vars -> Seq(1..m)]
    PROVE  f \in [Vars -> Seq(1..n)]
<1>1. Seq(1..m) \subseteq Seq(1..n)
    BY SeqMonotonic
<1> QED BY <1>1

\* An element that is in the range makes a longer list of the same kind.
LEMMA MoreMembers ==
    ASSUME NEW n \in Nat, NEW f \in [Vars -> Seq(1..n)], NEW v \in Vars, NEW r \in 1..n
    PROVE  [f EXCEPT ![v] = Append(@, r)] \in [Vars -> Seq(1..n)]
<1>1. Append(f[v], r) \in Seq(1..n)
    BY AppendProperties
<1> QED BY <1>1

\* The symbol the second pass is at is a variable, with storage or not.
LEMMA SymbolType ==
    ASSUME TypeOK, at <= Len(symbols)
    PROVE  Symbol \in Vars /\ slot[Symbol] \in Slots \cup {Nowhere}
BY DEF TypeOK, Symbol

\* The occurrence the first pass is at, and the symbols after it.
LEMMA CurrentType ==
    ASSUME TypeOK, at <= NumChunks
    PROVE  /\ Current \in Chunk /\ Current.var \in Vars
           /\ WithSymbol(Current.var) \in Seq(Vars)
<1>1. Current \in Chunk
    BY NumChunksAssumption DEF Current, TypeOK
<1>2. Current.var \in Vars
    BY <1>1 DEF Chunk
<1> QED BY <1>1, <1>2, AppendProperties DEF WithSymbol, TypeOK

\* A varnode that represents a symbol is there, and is entered everywhere.
LEMMA RepresentTypes ==
    ASSUME TypeOK, NEW ref \in 1..Len(varnodes'), Represent(ref), at <= Len(symbols),
           varnodes' \in Seq(Slots \cup {Nowhere}), Len(varnodes) <= Len(varnodes')
    PROVE  TypeOK'
<1>1. Len(varnodes) \in Nat /\ Len(varnodes') \in Nat
    BY LenProperties DEF TypeOK
<1>2. Symbol \in Vars
    BY SymbolType
<1>3. members \in [Vars -> Seq(1..Len(varnodes'))]
    BY <1>1, MoreVarnodes DEF TypeOK
<1>4. members' \in [Vars -> Seq(1..Len(varnodes'))]
    BY <1>1, <1>2, <1>3, MoreMembers DEF Represent
<1>5. rep' \in [Vars -> 0..Len(varnodes')]
    BY <1>1, <1>2 DEF Represent, TypeOK
<1>6. claimed' \subseteq 1..Len(varnodes')
    BY <1>1 DEF Represent, TypeOK
<1>7. lowered' \in Nat /\ lowered' <= Len(varnodes')
    BY <1>1 DEF Represent, TypeOK
<1>8. pass' \in {"first", "second", "done"} /\ at' \in Nat \ {0}
    BY DEF Represent, TypeOK
<1> QED BY <1>4, <1>5, <1>6, <1>7, <1>8 DEF Represent, TypeOK

\* Every step keeps the types.
LEMMA StepTypes == TypeOK /\ Build => TypeOK'
<1> SUFFICES ASSUME TypeOK, Build PROVE TypeOK'
    OBVIOUS
<1>1. CASE Skip
    BY <1>1 DEF Skip, TypeOK
<1>2. CASE Claim
    <2>1. Current \in Chunk /\ Current.var \in Vars /\ symbols' \in Seq(Vars)
        BY <1>2, CurrentType DEF Claim
    <2>2. OccurrenceRef(Current) \in 1..Len(varnodes) /\ Len(varnodes) \in Nat
        <3>1. OccurrenceRef(Current) \in 0..lowered
            BY <2>1, OccurrenceRefType
        <3>2. OccurrenceRef(Current) # 0
            BY <1>2 DEF Claim
        <3>3. lowered \in Nat /\ lowered <= Len(varnodes) /\ Len(varnodes) \in Nat
            BY LenProperties DEF TypeOK
        <3> QED BY <3>1, <3>2, <3>3
    <2>3. members' \in [Vars -> Seq(1..Len(varnodes))]
        BY <1>2, <2>1, <2>2, MoreMembers DEF Claim, TypeOK
    <2>4. claimed' \subseteq 1..Len(varnodes)
        BY <1>2, <2>2 DEF Claim, TypeOK
    <2>5. at' \in Nat \ {0}
        BY <1>2 DEF Claim, TypeOK
    <2> QED BY <1>2, <2>1, <2>3, <2>4, <2>5 DEF Claim, TypeOK
<1>3. CASE Pass
    <2>1. symbols' \in Seq(Vars)
        BY <1>3, CurrentType DEF Pass
    <2> QED BY <1>3, <2>1 DEF Pass, TypeOK
<1>4. CASE EndFirst
    BY <1>4 DEF EndFirst, TypeOK
<1>5. CASE RepresentByMember
    <2>1. Symbol \in Vars /\ members[Symbol] \in Seq(1..Len(varnodes))
        BY <1>5, SymbolType DEF RepresentByMember, TypeOK
    <2>2. members[Symbol][1] \in 1..Len(varnodes)
        BY <1>5, <2>1, EmptySeq DEF RepresentByMember
    <2>3. rep' \in [Vars -> 0..Len(varnodes)]
        BY <1>5, <2>1, <2>2 DEF RepresentByMember, TypeOK
    <2>4. at' \in Nat \ {0}
        BY <1>5 DEF RepresentByMember, TypeOK
    <2> QED BY <1>5, <2>3, <2>4 DEF RepresentByMember, TypeOK
<1>6. CASE RepresentByStorage
    <2>1. At(slot[Symbol]) # {}
        BY <1>6 DEF RepresentByStorage, Free
    <2>2. First(slot[Symbol]) \in 1..Len(varnodes)
        BY <2>1, FirstIsThere
    <2>3. varnodes' = varnodes /\ varnodes \in Seq(Slots \cup {Nowhere}) /\ Len(varnodes) \in Nat
        BY <1>6, LenProperties DEF RepresentByStorage, TypeOK
    <2> QED BY <1>6, <2>2, <2>3, RepresentTypes DEF RepresentByStorage
<1>7. CASE RepresentByNew
    <2>1. slot[Symbol] \in Slots \cup {Nowhere}
        BY <1>7, SymbolType DEF RepresentByNew
    <2>2. /\ varnodes' \in Seq(Slots \cup {Nowhere})
          /\ Len(varnodes') = Len(varnodes) + 1 /\ Len(varnodes) \in Nat
        BY <1>7, <2>1, AppendProperties, LenProperties DEF RepresentByNew, TypeOK
    <2>3. Len(varnodes) + 1 \in 1..Len(varnodes') /\ Len(varnodes) <= Len(varnodes')
        BY <2>2
    <2> QED BY <1>7, <2>2, <2>3, RepresentTypes DEF RepresentByNew
<1>8. CASE EndSecond
    BY <1>8 DEF EndSecond, TypeOK
<1> QED BY <1>1, <1>2, <1>3, <1>4, <1>5, <1>6, <1>7, <1>8 DEF Build

-----------------------------------------------------------------------------
(* Every step keeps the invariant *)

\* A step gives no variable a new instance, or one variable one that was nobody's
\* and is at its storage, and in the first pass is the value of the occurrence.
Grows(v, ref) ==
    /\ ref \notin claimed
    /\ members' = [members EXCEPT ![v] = Append(@, ref)]
    /\ claimed' = claimed \cup {ref}
    /\ Covers(varnodes'[ref], slot[v])
    /\ pass = "first" => /\ at <= NumChunks /\ at' = at + 1 /\ pass' = "first"
                         /\ v = Current.var /\ slot[v] # Nowhere
                         /\ ref = OccurrenceRef(Current)

LEMMA MembersStep ==
    ASSUME TypeOK, SymbolsShown, Build
    PROVE  \/ UNCHANGED <<members, claimed>>
           \/ \E v \in Vars, ref \in Nat : Grows(v, ref)
<1>1. CASE Claim
    <2>1. Current \in Chunk /\ Current.var \in Vars
        BY <1>1, CurrentType DEF Claim
    <2>2. /\ OccurrenceRef(Current) \in Nat
          /\ Covers(varnodes[OccurrenceRef(Current)], slot[Current.var])
        BY <1>1, <2>1, OccurrenceRefType, NumValuesAssumption DEF Claim, TypeOK
    <2>3. Grows(Current.var, OccurrenceRef(Current))
        BY <1>1, <2>2 DEF Claim, Grows
    <2> QED BY <2>1, <2>2, <2>3
<1>2. ASSUME pass = "second", at <= Len(symbols)
      PROVE  Symbol \in Vars /\ slot[Symbol] \in Slots
    <2>1. Symbol \in ToSet(symbols)
        BY <1>2, ElementsByPlace DEF Symbol, TypeOK
    <2> QED BY <1>2, <2>1, SymbolType DEF SymbolsShown
<1>3. CASE RepresentByStorage
    <2>1. At(slot[Symbol]) # {} /\ First(slot[Symbol]) \notin claimed
        BY <1>3 DEF RepresentByStorage, Free
    <2>2. /\ First(slot[Symbol]) \in 1..Len(varnodes)
          /\ Covers(varnodes[First(slot[Symbol])], slot[Symbol])
        BY <2>1, FirstIsThere
    <2>3. First(slot[Symbol]) \in Nat
        BY <2>2, LenProperties DEF TypeOK
    <2>4. Grows(Symbol, First(slot[Symbol]))
        BY <1>3, <2>1, <2>2 DEF RepresentByStorage, Represent, Grows
    <2>5. Symbol \in Vars
        BY <1>2, <1>3 DEF RepresentByStorage
    <2> QED BY <2>3, <2>4, <2>5
<1>4. CASE RepresentByNew
    <2>1. Symbol \in Vars /\ slot[Symbol] \in Slots
        BY <1>2, <1>4 DEF RepresentByNew
    <2>2. Len(varnodes) \in Nat /\ varnodes'[Len(varnodes) + 1] = slot[Symbol]
        BY <1>4, <2>1, AppendProperties, LenProperties DEF RepresentByNew, TypeOK
    <2>3. Len(varnodes) + 1 \notin claimed
        BY <2>2 DEF TypeOK
    <2>4. Grows(Symbol, Len(varnodes) + 1)
        BY <1>4, <2>1, <2>2, <2>3 DEF RepresentByNew, Represent, Grows, Covers
    <2> QED BY <2>1, <2>2, <2>4
<1>5. CASE Skip \/ Pass \/ EndFirst \/ RepresentByMember \/ EndSecond
    BY <1>5 DEF Skip, Pass, EndFirst, RepresentByMember, EndSecond
<1> QED BY <1>1, <1>3, <1>4, <1>5 DEF Build

\* The lists stay disjoint, and grow only.
LEMMA InstancesStep ==
    ASSUME IInv, Build
    PROVE  /\ InstancesDisjoint' /\ ClaimedAreMembers'
           /\ \A v \in Vars : ToSet(members[v]) \subseteq ToSet(members'[v])
<1>1. CASE UNCHANGED <<members, claimed>>
    BY <1>1 DEF IInv, InstancesDisjoint, ClaimedAreMembers
<1>2. CASE \E v \in Vars, ref \in Nat : Grows(v, ref)
    <2>1. PICK v \in Vars, ref \in Nat : Grows(v, ref)
        BY <1>2
    <2>2. /\ InstancesDisjoint' /\ ClaimedAreMembers'
          /\ ToSet(members'[v]) = ToSet(members[v]) \cup {ref}
          /\ \A u \in Vars \ {v} : ToSet(members'[u]) = ToSet(members[u])
        BY <2>1, NewInstance DEF Grows, IInv
    <2> QED BY <2>2
<1> QED BY <1>1, <1>2, MembersStep DEF IInv

\* Instances are at the storage of their variables.
LEMMA PlaceStep == IInv /\ Build => MembersInPlace'
<1> SUFFICES ASSUME IInv, Build, NEW u \in Vars, NEW r \in ToSet(members'[u])
             PROVE  Covers(varnodes'[r], slot'[u])
    BY DEF MembersInPlace
<1>1. slot' = slot /\ \A q \in 1..Len(varnodes) : varnodes'[q] = varnodes[q]
    BY VarnodesStay DEF IInv
<1>2. CASE r \in ToSet(members[u])
    <2>1. r \in 1..Len(varnodes)
        BY <1>2 DEF IInv, ClaimedAreMembers, TypeOK
    <2>2. Covers(varnodes[r], slot[u])
        BY <1>2 DEF IInv, MembersInPlace
    <2> QED BY <1>1, <2>1, <2>2
<1>3. CASE r \notin ToSet(members[u])
    <2>1. PICK v \in Vars, ref \in Nat : Grows(v, ref)
        BY <1>3, MembersStep DEF IInv
    <2>2. /\ ToSet(members'[v]) = ToSet(members[v]) \cup {ref}
          /\ \A w \in Vars \ {v} : ToSet(members'[w]) = ToSet(members[w])
        BY <2>1, NewInstance DEF Grows, IInv
    <2>3. u = v /\ r = ref
        BY <1>3, <2>2
    <2> QED BY <1>1, <2>1, <2>3 DEF Grows
<1> QED BY <1>2, <1>3

\* What the first pass has been through after a step: the occurrence it was at, too.
LEMMA ProcessedStep ==
    ASSUME TypeOK, Build, NEW k \in Processed'
    PROVE  \/ k \in Processed
           \/ k = at /\ pass = "first" /\ at <= NumChunks /\ (Skip \/ Claim \/ Pass)
BY NumChunksAssumption DEF TypeOK, Processed, Build, Skip, Claim, Pass, EndFirst,
   RepresentByMember, RepresentByStorage, RepresentByNew, Represent, EndSecond

\* Symbols are added only, and each for a variable with storage.
LEMMA SymbolsStep == IInv /\ Build => SymbolsShown'
<1> SUFFICES ASSUME IInv, Build PROVE SymbolsShown'
    OBVIOUS
<1>1. chunks' = chunks /\ slot' = slot
    BY VarnodesStay DEF IInv
<1>2. \/ symbols' = symbols
      \/ /\ symbols' = WithSymbol(Current.var) /\ slot[Current.var] # Nowhere
         /\ at <= NumChunks
    BY DEF Build, Skip, Claim, Pass, EndFirst, RepresentByMember, RepresentByStorage,
           RepresentByNew, Represent, EndSecond
<1>3. CASE symbols' = WithSymbol(Current.var) /\ slot[Current.var] # Nowhere
           /\ at <= NumChunks
    <2>1. Current.var \in Vars /\ symbols \in Seq(Vars)
        BY <1>3, CurrentType DEF IInv, TypeOK
    <2>2. ToSet(symbols') = ToSet(symbols) \cup {Current.var}
        BY <1>3, <2>1, ElementsOfAppend DEF WithSymbol
    <2>3. \A v \in ToSet(symbols') : slot'[v] # Nowhere
        BY <1>1, <1>3, <2>2 DEF IInv, SymbolsShown
    <2>4. ASSUME NEW k \in Processed', slot'[chunks'[k].var] # Nowhere
          PROVE  chunks'[k].var \in ToSet(symbols')
        <3>1. k \in Processed \/ k = at
            BY ProcessedStep DEF IInv
        <3> QED BY <1>1, <2>2, <2>4, <3>1 DEF IInv, SymbolsShown, Current
    <2> QED BY <2>3, <2>4 DEF SymbolsShown
<1>4. CASE symbols' = symbols
    <2>1. ASSUME NEW k \in Processed', slot'[chunks'[k].var] # Nowhere
          PROVE  chunks'[k].var \in ToSet(symbols')
        <3>1. CASE k \in Processed
            BY <1>1, <1>4, <2>1, <3>1 DEF IInv, SymbolsShown
        <3>2. CASE k = at /\ at <= NumChunks /\ (Claim \/ Pass)
            <4>1. symbols' = WithSymbol(Current.var) /\ slot[Current.var] # Nowhere
                BY <3>2 DEF Claim, Pass
            <4> QED BY <1>3, <4>1, <3>2, <2>1 DEF SymbolsShown
        <3>3. CASE k = at /\ Skip
            BY <1>1, <2>1, <3>3 DEF Skip, Current
        <3> QED BY <3>1, <3>2, <3>3, ProcessedStep DEF IInv
    <2> QED BY <1>1, <1>4, <2>1 DEF IInv, SymbolsShown
<1> QED BY <1>2, <1>3, <1>4

\* A representative, once chosen, is an instance, and stays one.
LEMMA RepresentedStep == IInv /\ Build => Represented'
<1> SUFFICES ASSUME IInv, Build PROVE Represented'
    OBVIOUS
<1>1. \A v \in Vars : ToSet(members[v]) \subseteq ToSet(members'[v])
    BY InstancesStep
<1>2. CASE pass' = "first"
    BY <1>2 DEF Represented
<1>3. CASE EndFirst
    BY <1>3 DEF EndFirst, Represented
<1>4. ASSUME pass = "second", at <= Len(symbols), at' = at + 1, pass' = pass,
             symbols' = symbols, NEW ref, rep' = [rep EXCEPT ![Symbol] = ref],
             ref \in ToSet(members'[Symbol])
      PROVE  Represented'
    <2> SUFFICES ASSUME NEW i \in 1..Len(symbols), i < at + 1
                 PROVE  rep'[symbols[i]] \in ToSet(members'[symbols[i]])
        BY <1>4 DEF Represented
    <2>1. symbols[i] \in Vars /\ rep \in [Vars -> 0..Len(varnodes)] /\ at \in Nat
        BY DEF IInv, TypeOK
    <2>2. CASE symbols[i] = Symbol
        BY <1>4, <2>1, <2>2
    <2>3. CASE symbols[i] # Symbol
        <3>1. i < at
            BY <2>1, <2>3 DEF Symbol
        <3>2. rep[symbols[i]] \in ToSet(members[symbols[i]])
            BY <1>4, <3>1 DEF IInv, Represented
        <3> QED BY <1>1, <1>4, <2>1, <2>3, <3>2
    <2> QED BY <2>2, <2>3
<1>5. CASE RepresentByMember
    <2>1. Symbol \in Vars /\ members[Symbol] \in Seq(1..Len(varnodes))
        BY <1>5, SymbolType DEF RepresentByMember, IInv, TypeOK
    <2>2. members[Symbol][1] \in ToSet(members'[Symbol])
        <3>1. 1 \in 1..Len(members[Symbol])
            BY <1>5, <2>1, EmptySeq, LenProperties DEF RepresentByMember
        <3> QED BY <1>5, <2>1, <3>1, ElementsByPlace DEF RepresentByMember
    <2> QED BY <1>4, <1>5, <2>2 DEF RepresentByMember
<1>6. ASSUME pass = "second", at <= Len(symbols), NEW ref \in Nat, Represent(ref)
      PROVE  Represented'
    <2>1. Symbol \in Vars /\ members[Symbol] \in Seq(Nat)
        <3>1. Symbol \in Vars /\ members[Symbol] \in Seq(1..Len(varnodes))
            BY <1>6, SymbolType DEF IInv, TypeOK
        <3>2. 1..Len(varnodes) \subseteq Nat
            OBVIOUS
        <3> QED BY <3>1, <3>2, SeqMonotonic, Zenon
    <2>2. members'[Symbol] = Append(members[Symbol], ref)
        BY <1>6, <2>1 DEF Represent, IInv, TypeOK
    <2>3. ref \in ToSet(members'[Symbol])
        BY <2>1, <2>2, ElementsOfAppend
    <2> QED BY <1>4, <1>6, <2>3 DEF Represent
<1>7. CASE RepresentByStorage
    <2>1. First(slot[Symbol]) \in Nat
        BY <1>7, FirstIsThere, LenProperties DEF RepresentByStorage, Free, IInv, TypeOK
    <2> QED BY <1>6, <1>7, <2>1 DEF RepresentByStorage
<1>8. CASE RepresentByNew
    <2>1. Len(varnodes) + 1 \in Nat
        BY LenProperties DEF IInv, TypeOK
    <2> QED BY <1>6, <1>8, <2>1 DEF RepresentByNew
<1>9. CASE EndSecond
    BY <1>9 DEF EndSecond, IInv, Represented, TypeOK
<1>10. CASE Skip \/ Claim \/ Pass
    BY <1>2, <1>10 DEF Skip, Claim, Pass
<1> QED BY <1>3, <1>5, <1>7, <1>8, <1>9, <1>10 DEF Build

\* An occurrence that was processed remains so while the first pass lasts.
LEMMA StaysProcessed ==
    ASSUME TypeOK, Build, pass' = "first"
    PROVE  pass = "first" /\ Processed \subseteq Processed'
BY DEF TypeOK, Processed, Build, Skip, Claim, Pass, EndFirst, RepresentByMember,
       RepresentByStorage, RepresentByNew, Represent, EndSecond

\* A new instance in the first pass is the value of the occurrence it is at.
LEMMA OccurStep == IInv /\ Build => MembersOccur'
<1> SUFFICES ASSUME IInv, Build, pass' = "first", NEW u \in Vars, NEW r \in ToSet(members'[u])
             PROVE  \E j \in Processed' : /\ chunks'[j].var = u /\ slot'[u] # Nowhere
                                          /\ OccurrenceRef(chunks[j])' = r
    BY DEF MembersOccur
<1>1. pass = "first" /\ Processed \subseteq Processed' /\ chunks' = chunks /\ slot' = slot
    BY StaysProcessed, VarnodesStay DEF IInv
<1>2. ASSUME NEW j \in 1..NumChunks PROVE OccurrenceRef(chunks[j])' = OccurrenceRef(chunks[j])
    <2>1. chunks[j] \in Chunk
        BY DEF IInv, TypeOK
    <2>2. \A c \in Chunk : OccurrenceRef(c)' = OccurrenceRef(c)
        BY OccurrencesStay DEF IInv
    <2> QED BY <1>1, <2>1, <2>2 DEF OccurrenceRef
<1>3. CASE r \in ToSet(members[u])
    <2>1. PICK j \in Processed : /\ chunks[j].var = u /\ slot[u] # Nowhere
                                 /\ OccurrenceRef(chunks[j]) = r
        BY <1>1, <1>3 DEF IInv, MembersOccur
    <2>2. j \in Processed' /\ j \in 1..NumChunks
        BY <1>1 DEF Processed
    <2> QED BY <1>1, <1>2, <2>1, <2>2
<1>4. CASE r \notin ToSet(members[u])
    <2>1. PICK v \in Vars, ref \in Nat : Grows(v, ref)
        BY <1>4, MembersStep DEF IInv
    <2>2. /\ ToSet(members'[v]) = ToSet(members[v]) \cup {ref}
          /\ \A w \in Vars \ {v} : ToSet(members'[w]) = ToSet(members[w])
        BY <2>1, NewInstance DEF Grows, IInv
    <2>3. u = v /\ r = ref
        BY <1>4, <2>2
    <2>4. /\ at \in 1..NumChunks /\ at \in Processed'
          /\ chunks[at].var = u /\ slot[u] # Nowhere /\ OccurrenceRef(chunks[at]) = r
        BY <1>1, <2>1, <2>3, NumChunksAssumption DEF Grows, Current, Processed, IInv, TypeOK
    <2> QED BY <1>1, <1>2, <2>4
<1> QED BY <1>3, <1>4

\* An occurrence whose value is not taken in has found another variable's there.
LEMMA OwnStep == IInv /\ Build => OwnUnlessTaken'
<1> SUFFICES ASSUME IInv, Build, NEW k \in Processed',
                    slot'[chunks'[k].var] # Nowhere,
                    OccurrenceRef(chunks[k])' # 0,
                    OccurrenceRef(chunks[k])' \notin ToSet(members'[chunks'[k].var])
             PROVE  Taken(k)'
    BY DEF OwnUnlessTaken
<1>1. chunks' = chunks /\ slot' = slot /\ k \in 1..NumChunks
    BY VarnodesStay DEF IInv, Processed
<1>2. \A j \in 1..NumChunks :
          chunks[j] \in Chunk /\ OccurrenceRef(chunks[j])' = OccurrenceRef(chunks[j])
    <2>1. \A c \in Chunk : OccurrenceRef(c)' = OccurrenceRef(c)
        BY OccurrencesStay DEF IInv
    <2>2. \A j \in 1..NumChunks : chunks[j] \in Chunk
        BY DEF IInv, TypeOK
    <2> QED BY <1>1, <2>1, <2>2 DEF OccurrenceRef
<1>3. chunks[k].var \in Vars
    BY <1>1, <1>2 DEF Chunk
<1>4. OccurrenceRef(chunks[k]) # 0 /\ OccurrenceRef(chunks[k]) \notin ToSet(members'[chunks[k].var])
    BY <1>1, <1>2
<1>5. OccurrenceRef(chunks[k]) \notin ToSet(members[chunks[k].var])
    BY <1>3, <1>4, InstancesStep
<1>6. Taken(k)
    <2>1. CASE k \in Processed
        BY <1>1, <1>4, <1>5, <2>1 DEF IInv, OwnUnlessTaken
    <2>2. CASE k = at /\ pass = "first" /\ Skip
        BY <1>1, <2>2 DEF Skip, Current
    <2>3. CASE k = at /\ pass = "first" /\ Claim
        <3>1. members[chunks[k].var] \in Seq(Nat) /\ OccurrenceRef(chunks[k]) \in Nat
            BY <1>1, <1>2, <1>3, SeqMonotonic, OccurrenceRefType, NumValuesAssumption
               DEF IInv, TypeOK
        <3>2. members'[chunks[k].var] = Append(members[chunks[k].var], OccurrenceRef(chunks[k]))
            BY <1>3, <2>3 DEF Claim, Current, IInv, TypeOK
        <3> QED BY <1>4, <3>1, <3>2, ElementsOfAppend
    <2>4. CASE k = at /\ pass = "first" /\ Pass
        <3>1. OccurrenceRef(chunks[k]) \in claimed
            BY <1>4, <2>4 DEF Pass, Current
        <3>2. PICK w \in Vars : OccurrenceRef(chunks[k]) \in ToSet(members[w])
            BY <3>1 DEF IInv, ClaimedAreMembers
        <3>3. PICK j \in Processed : /\ chunks[j].var = w /\ slot[w] # Nowhere
                                     /\ OccurrenceRef(chunks[j]) = OccurrenceRef(chunks[k])
            BY <2>4, <3>2 DEF IInv, MembersOccur
        <3>4. w # chunks[k].var
            BY <1>5, <3>2
        <3>5. j \in 1..(k - 1)
            BY <2>4, NumChunksAssumption DEF Processed, IInv, TypeOK
        <3> QED BY <3>3, <3>4, <3>5 DEF Taken
    <2> QED BY <2>1, <2>2, <2>3, <2>4, ProcessedStep DEF IInv
<1>7. \A j \in 1..(k - 1) : j \in 1..NumChunks
    BY <1>1, NumChunksAssumption
<1>8. PICK j \in 1..(k - 1) : /\ chunks[j].var # chunks[k].var
                              /\ slot[chunks[j].var] # Nowhere
                              /\ OccurrenceRef(chunks[j]) = OccurrenceRef(chunks[k])
    BY <1>6 DEF Taken
<1>9. /\ OccurrenceRef(chunks[j])' = OccurrenceRef(chunks[j])
      /\ OccurrenceRef(chunks[k])' = OccurrenceRef(chunks[k])
    BY <1>1, <1>2, <1>7
<1> QED BY <1>1, <1>8, <1>9 DEF Taken

-----------------------------------------------------------------------------
(* The invariant holds *)

LEMMA GivenInv == Given => IInv
<1> SUFFICES ASSUME Given PROVE IInv
    OBVIOUS
<1>1. TypeOK
    BY GivenTypes
<1>0. ToSet(<<>>) = {} /\ Len(<<>>) = 0
    BY DEF ToSet
<1>2. \A v \in Vars : members[v] = <<>> /\ ToSet(members[v]) = {}
    BY <1>0 DEF Given
<1>3. ToSet(symbols) = {} /\ Processed = {} /\ Len(symbols) = 0
    BY <1>0, NumChunksAssumption DEF Given, Processed
<1>4. InstancesDisjoint /\ ClaimedAreMembers /\ MembersInPlace /\ MembersOccur
    BY <1>2 DEF InstancesDisjoint, ClaimedAreMembers, MembersInPlace, MembersOccur, Given
<1>5. SymbolsShown /\ Represented /\ OwnUnlessTaken
    BY <1>3 DEF SymbolsShown, Represented, OwnUnlessTaken
<1> QED BY <1>1, <1>4, <1>5 DEF IInv

LEMMA StepInv == IInv /\ [Build]_vars => IInv'
<1> SUFFICES ASSUME IInv, [Build]_vars PROVE IInv'
    OBVIOUS
<1>1. CASE Build
    <2>1. TypeOK'
        BY <1>1, StepTypes DEF IInv
    <2>2. InstancesDisjoint' /\ ClaimedAreMembers'
        BY <1>1, InstancesStep
    <2> QED BY <1>1, <2>1, <2>2, SymbolsStep, PlaceStep, RepresentedStep, OccurStep, OwnStep
            DEF IInv
<1>2. CASE UNCHANGED vars
    BY <1>2 DEF vars, IInv, TypeOK, InstancesDisjoint, SymbolsShown, ClaimedAreMembers,
                MembersInPlace, Represented, MembersOccur, OwnUnlessTaken, Taken,
                Processed, OccurrenceRef, Covers
<1> QED BY <1>1, <1>2

\* Every token resolves to its variable when the passes are done.
LEMMA TokensFromInv == IInv => TokensResolve
<1> SUFFICES ASSUME IInv, pass = "done", NEW k \in 1..NumChunks, slot[chunks[k].var] # Nowhere
             PROVE  /\ chunks[k].var \in ToSet(symbols)
                    /\ VarRef(k) \in ToSet(members[chunks[k].var])
                    /\ Covers(varnodes[VarRef(k)], slot[chunks[k].var])
    BY DEF TokensResolve
<1>1. chunks[k].var \in Vars
    BY DEF IInv, TypeOK, Chunk
<1>2. chunks[k].var \in ToSet(symbols)
    BY DEF IInv, SymbolsShown, Processed
<1>3. rep[chunks[k].var] \in ToSet(members[chunks[k].var])
    <2>1. PICK i \in 1..Len(symbols) : symbols[i] = chunks[k].var
        BY <1>2, ElementsByPlace DEF IInv, TypeOK
    <2> QED BY <2>1 DEF IInv, Represented
<1>4. VarRef(k) \in ToSet(members[chunks[k].var])
    BY <1>3 DEF VarRef
<1> QED BY <1>1, <1>2, <1>4 DEF IInv, MembersInPlace

\* And to the value it shows unless that was taken.
LEMMA OwnFromInv == IInv => OwnValueUnlessTaken
BY DEF IInv, OwnUnlessTaken, Taken, Processed, OwnValueUnlessTaken, VarRef

-----------------------------------------------------------------------------
(* Theorems *)

\* The invariant, of build() by itself.
LEMMA BuildInvariant == Spec => []IInv
BY InitGiven, GivenInv, StepInv, PTL DEF Spec

\* The round trip of renames (edits.py) reads what build() has built and changes
\* none of it: to build(), its steps are stutters.
THEOREM EditsLeaveVariables == EditsSpec => Spec
<1>1. EditsInit => Init
    BY DEF EditsInit
<1>2. [Next]_<<vars, editVars>> => [Build]_vars
    BY DEF Next, Built, Rename, Redecompile, Rest
<1> QED BY <1>1, <1>2, PTL DEF EditsSpec, Spec

\* References of variables and tokens are to varnodes of the op graph.
THEOREM VariablesTypeCorrect == EditsSpec => []TypeOK
<1>1. IInv => TypeOK
    BY DEF IInv
<1> QED BY <1>1, BuildInvariant, EditsLeaveVariables, PTL

\* VariableSymbolTable.build: no varnode is an instance of two variables, for any
\* text, also when variables share storage.
THEOREM VariablesDisjoint == EditsSpec => []InstancesDisjoint
<1>1. IInv => InstancesDisjoint
    BY DEF IInv
<1> QED BY <1>1, BuildInvariant, EditsLeaveVariables, PTL

\* Every token of a variable with storage leads to a varnode at that storage that
\* is an instance of that variable.
THEOREM TokensAlwaysResolve == EditsSpec => []TokensResolve
BY TokensFromInv, BuildInvariant, EditsLeaveVariables, PTL

\* A token refers to the value it renders, unless an earlier occurrence renders
\* the same value as another variable.
THEOREM TokensShowTheirValue == EditsSpec => []OwnValueUnlessTaken
BY OwnFromInv, BuildInvariant, EditsLeaveVariables, PTL

-----------------------------------------------------------------------------
(* Renames *)

\* The edits that mean a unified variable.
MeantFor(u) == {i \in 1..Len(edits) : Means(led[i], u)}

\* Edits are of variables in the text that have storage, and once a text shows
\* them each unified variable has the name the edits give it.
EditsInv ==
    /\ \A v \in Vars : storage[v] \in StorageOf(slot[v])
    /\ edits \in Seq([var : Vars, slot : Slots \cup {Nowhere}])
    /\ \A i \in 1..Len(edits) : edits[i].var \in Occurring /\ storage[edits[i].var] # Nowhere
    /\ shown => \A u \in Unified : name[u] = Newest(MeantFor(u))
    /\ unified \in [Vars -> Unified]

LEMMA EditsInvInit == EditsInit => EditsInv
<1> SUFFICES ASSUME EditsInit PROVE EditsInv
    OBVIOUS
<1>1. edits = <<>> /\ 1..Len(edits) = {}
    BY DEF EditsInit
<1>2. \A u \in Unified : name[u] = Newest(MeantFor(u))
    <2>1. \A u : MeantFor(u) = {}
        BY <1>1 DEF MeantFor
    <2>2. \A u \in Unified : name[u] = 0
        BY DEF EditsInit
    <2> QED BY <2>1, <2>2 DEF Newest
<1>3. edits \in Seq([var : Vars, slot : Slots \cup {Nowhere}])
    BY <1>1
<1>4. unified \in [Vars -> Unified] /\ \A v \in Vars : storage[v] \in StorageOf(slot[v])
    BY DEF EditsInit
<1> QED BY <1>1, <1>2, <1>3, <1>4 DEF EditsInv

\* What has storage for Ghidra has it for angr.
LEMMA StorageKnown ==
    ASSUME NEW s, s # Nowhere, NEW t \in StorageOf(s)
    PROVE  t # Nowhere
BY StorageAssumption DEF StorageOf

\* A rename adds an edit of a variable that has storage.
LEMMA EditsInvRename ==
    ASSUME TypeOK, EditsInv, NEW k \in 1..NumChunks, Rename(k)
    PROVE  EditsInv'
<1> DEFINE v == chunks[k].var
           Edit == [var : Vars, slot : Slots \cup {Nowhere}]
<1>1. chunks[k] \in Chunk /\ v \in Vars /\ v \in Occurring
    BY DEF TypeOK, Chunk, Occurring
<1>2. slot[v] # Nowhere /\ storage[v] # Nowhere
    <2>1. slot[v] # Nowhere
        BY DEF Rename, VarRef
    <2> QED BY <1>1, <2>1, StorageKnown DEF EditsInv
<1>3. VarRef(k) \in 1..Len(varnodes)
    <2>1. members[v] \in Seq(1..Len(varnodes)) /\ rep[v] \in 0..Len(varnodes)
        BY <1>1 DEF TypeOK
    <2>2. \A r \in ToSet(members[v]) : r \in 1..Len(varnodes)
        BY <2>1, ElementsByPlace, ElementOfSeq
    <2>3. VarRef(k) # 0 /\ (VarRef(k) = rep[v] \/ VarRef(k) \in ToSet(members[v]))
        BY <1>2 DEF Rename, VarRef
    <2>4. Len(varnodes) \in Nat
        BY DEF TypeOK
    <2> QED BY <2>1, <2>2, <2>3, <2>4
<1>4. PICK kept \in {slot[v], varnodes[VarRef(k)]} :
          edits' = Append(edits, [var |-> v, slot |-> kept])
    BY DEF Rename
<1>5. kept \in Slots \cup {Nowhere}
    BY <1>1, <1>3, ElementOfSeq DEF TypeOK
<1> DEFINE new == [var |-> v, slot |-> kept]
<1>6. new \in Edit /\ new.var = v
    BY <1>1, <1>5
<1>7. edits \in Seq(Edit)
    BY DEF EditsInv
<1> HIDE DEF new, Edit
<1>8. /\ edits' \in Seq(Edit) /\ Len(edits') = Len(edits) + 1 /\ Len(edits) \in Nat
      /\ \A i \in 1..Len(edits) : edits'[i] = edits[i]
      /\ edits'[Len(edits) + 1] = new
    BY <1>4, <1>6, <1>7, AppendProperties, LenProperties DEF new
<1>9. UNCHANGED <<unified, storage, slot, Occurring>> /\ ~shown'
    BY DEF Rename, vars, Occurring
<1>10. \A i \in 1..Len(edits') : edits'[i].var \in Occurring /\ storage[edits'[i].var] # Nowhere
    <2> TAKE i \in 1..Len(edits')
    <2>1. i \in 1..Len(edits) \/ i = Len(edits) + 1
        BY <1>8
    <2>2. CASE i \in 1..Len(edits)
        BY <1>8, <2>2 DEF EditsInv
    <2>3. CASE i = Len(edits) + 1
        BY <1>1, <1>2, <1>6, <1>8, <2>3
    <2> QED BY <2>1, <2>2, <2>3
<1>11. \A w \in Vars : storage'[w] \in StorageOf(slot'[w])
    BY <1>9 DEF EditsInv
<1> QED BY <1>8, <1>9, <1>10, <1>11 DEF EditsInv, Edit

\* What is in the text, and where, stays.
LEMMA EditsInvStep == TypeOK /\ EditsInv /\ [Next]_<<vars, editVars>> => EditsInv'
<1> SUFFICES ASSUME TypeOK, EditsInv, [Next]_<<vars, editVars>> PROVE EditsInv'
    OBVIOUS
<1>1. CASE UNCHANGED editVars /\ UNCHANGED <<chunks, slot>>
    <2>1. UNCHANGED <<Occurring, unified, storage, edits, led, name, shown, slot>>
        BY <1>1 DEF editVars, Occurring
    <2>2. \A u : MeantFor(u)' = MeantFor(u)
        BY <1>1 DEF MeantFor, Means, Matches, Entered, editVars
    <2> QED BY <2>1, <2>2 DEF EditsInv
<1>2. CASE Redecompile
    <2>1. UNCHANGED <<Occurring, unified, storage, edits, slot, chunks>>
        BY <1>2 DEF Redecompile, vars, Occurring
    <2>2. \A u : MeantFor(u)' = {i \in 1..Len(edits) : Means(led'[i], u)}
        BY <2>1 DEF MeantFor, Means, Matches, Entered
    <2>3. \A u \in Unified : name'[u] = Newest({i \in 1..Len(edits) : Means(led'[i], u)})
        BY <1>2 DEF Redecompile
    <2>4. \A u \in Unified : name'[u] = Newest(MeantFor(u)')
        BY <2>2, <2>3
    <2>5. \A u \in Unified : name'[u] = Newest(MeantFor(u))'
        BY <2>4 DEF Newest
    <2> QED BY <2>1, <2>5 DEF EditsInv
<1>3. Build => UNCHANGED <<chunks, slot>>
    BY DEF Build, Skip, Claim, Pass, EndFirst, RepresentByMember, RepresentByStorage,
       RepresentByNew, EndSecond, Represent
<1>4. CASE \E k \in 1..NumChunks : Rename(k)
    BY <1>4, EditsInvRename
<1> QED BY <1>1, <1>2, <1>3, <1>4 DEF Next, Built, Rest, vars, editVars

\* The unified variable of a variable that shares nothing is meant by just the
\* edits of that variable that led back, if none led astray.
LEMMA MeansItsOwn ==
    ASSUME TypeOK, EditsInv, NEW v \in Occurring, Alone(v), NEW i \in 1..Len(edits), ~LedAstray(i)
    PROVE  Means(led[i], unified[v]) <=> edits[i].var = v /\ LedBack(i)
<1>1. \A k \in 1..NumChunks : chunks[k].var \in Occurring
    BY DEF Occurring
<1>2. \A k \in 1..NumChunks :
          chunks[k].var # v => /\ unified[chunks[k].var] # unified[v]
                               /\ storage[chunks[k].var] # storage[v]
    BY <1>1 DEF Alone
<1>3. ASSUME Means(led[i], unified[v]) PROVE edits[i].var = v /\ LedBack(i)
    <2>1. PICK k \in Matches(led[i]) : unified[v] = unified[chunks[k].var]
        BY <1>3 DEF Means
    <2>2. k \in 1..NumChunks /\ led[i] # Nowhere /\ storage[chunks[k].var] = led[i]
        BY DEF Matches
    <2>3. chunks[k].var = v
        BY <1>2, <2>1, <2>2
    <2>4. LedBack(i)
        BY <2>2 DEF LedAstray, LedBack
    <2>5. edits[i].var \in Occurring /\ storage[edits[i].var] = storage[v]
        BY <2>2, <2>3, <2>4 DEF LedBack, EditsInv
    <2>6. edits[i].var = v
        BY <2>5 DEF Alone
    <2> QED BY <2>4, <2>6
<1>4. ASSUME edits[i].var = v, LedBack(i) PROVE Means(led[i], unified[v])
    <2>1. led[i] = storage[v] /\ led[i] # Nowhere
        BY <1>4 DEF LedBack, EditsInv
    <2> DEFINE Shows == {k \in 1..NumChunks : chunks[k].var = v}
    <2>2. Shows # {} /\ Shows \subseteq Nat
        BY NumChunksAssumption DEF Occurring
    <2>3. PICK k \in Shows : \A j \in Shows : k <= j
        BY <2>2, LeastElement
    <2>4. Entered(k)
        <3> SUFFICES ASSUME NEW j \in 1..(k - 1), unified[chunks[j].var] = unified[chunks[k].var]
                     PROVE  FALSE
            BY DEF Entered
        <3>1. j \in 1..NumChunks /\ ~(k <= j)
            BY <2>2, <2>3, NumChunksAssumption
        <3>2. chunks[j].var # v
            BY <2>3, <3>1
        <3> QED BY <1>2, <2>3, <3>1, <3>2
    <2>5. k \in Matches(led[i])
        BY <2>1, <2>3, <2>4 DEF Matches
    <2>6. Matches(led[i]) \subseteq Shows
        BY <1>2, <2>1 DEF Matches
    <2> QED BY <2>3, <2>5, <2>6 DEF Means
<1> QED BY <1>3, <1>4

LEMMA RenamedFromInv == TypeOK /\ EditsInv => AloneIsRenamed
<1> SUFFICES ASSUME TypeOK, EditsInv, shown, \A i \in 1..Len(edits) : ~LedAstray(i),
                    NEW v \in Occurring, Alone(v)
             PROVE  name[unified[v]] =
                        Newest({i \in 1..Len(edits) : edits[i].var = v /\ LedBack(i)})
    BY DEF AloneIsRenamed
<1>1. unified[v] \in Unified
    BY DEF EditsInv, Occurring, TypeOK, Chunk
<1>2. name[unified[v]] = Newest(MeantFor(unified[v]))
    BY <1>1 DEF EditsInv
<1>3. \A i \in 1..Len(edits) : Means(led[i], unified[v]) <=> edits[i].var = v /\ LedBack(i)
    BY MeansItsOwn
<1>4. MeantFor(unified[v]) = {i \in 1..Len(edits) : edits[i].var = v /\ LedBack(i)}
    BY <1>3 DEF MeantFor
<1> QED BY <1>2, <1>4

\* A variable that shares neither storage nor unified variable shows the newest of
\* its names that led back to it, however many others are renamed (apply_renames).
THEOREM LoneVariablesKeepNames == EditsSpec => []AloneIsRenamed
<1>1. EditsSpec => []TypeOK
    BY VariablesTypeCorrect
<1>2. EditsInit => EditsInv
    BY EditsInvInit
<1>3. TypeOK /\ EditsInv /\ [Next]_<<vars, editVars>> => EditsInv'
    BY EditsInvStep
<1>4. TypeOK /\ EditsInv => AloneIsRenamed
    BY RenamedFromInv
<1> QED BY <1>1, <1>2, <1>3, <1>4, PTL DEF EditsSpec
=============================================================================
