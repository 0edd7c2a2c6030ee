--------------------------- MODULE HighVariables ---------------------------
(***************************************************************************)
(* VariableSymbolTable of core/variables.py over the varnodes of           *)
(* PcodeTranslator (core/pcode.py), and the references the markup tokens   *)
(* of core/emit.py carry.                                                  *)
(*                                                                         *)
(* The C text is a sequence of occurrences of variables. Each renders one  *)
(* SSA value, if the lowering has seen it, and that value's varnode may    *)
(* become an instance of the variable. Ghidra finds the variable of a      *)
(* token through the varnode the token refers to, so every token must      *)
(* refer to an instance of its own variable and no varnode may be an       *)
(* instance of two, also when variables share their storage.               *)
(***************************************************************************)
EXTENDS Integers, SequencesExt

CONSTANTS
    Vars,       \* angr's SimVariables
    Slots,      \* storage: records with an offset (of the stack, or of a
                \* register) and a size
    Nowhere,    \* of a variable: no storage Ghidra knows (a global, a register
                \* it does not name); of a varnode: a temporary
    NumValues,  \* bound on the SSA values that are lowered
    NumChunks   \* the occurrences in the text

ASSUME NowhereAssumption   == Nowhere \notin Slots
ASSUME NumValuesAssumption == NumValues \in Nat
ASSUME NumChunksAssumption == NumChunks \in Nat

VARIABLES
    chunks,     \* the occurrences: a variable and the value it renders
    slot,       \* the storage of each variable
    lowered,    \* the values seen by the lowering, as varnodes 1..lowered
    varnodes,   \* the storage of each varnode; those after "lowered" are minted
    symbols,    \* symbols: the variables found, in the order of the text
    members,    \* member_refs of each
    rep,        \* varnode_ref of each, 0 before it is chosen
    claimed,    \* the varnodes that are somebody's instance
    pass, at    \* which pass build() is in, and the next element of it

vars == <<chunks, slot, lowered, varnodes, symbols, members, rep, claimed, pass, at>>

\* Value 0 is an occurrence without a value, or one the lowering has not seen.
Chunk == [var : Vars, value : Nat]

\* The varnodes are those of PcodeTranslator._vvar, one for each value. A
\* lowering that failed leaves what an empty one leaves.
Init ==
    /\ chunks \in [1..NumChunks -> [var : Vars, value : 0..NumValues]]
    /\ slot \in [Vars -> Slots \cup {Nowhere}]
    /\ lowered \in 0..NumValues
    /\ varnodes \in [1..lowered -> Slots \cup {Nowhere}]
    /\ symbols = <<>>
    /\ members = [v \in Vars |-> <<>>]
    /\ rep = [v \in Vars |-> 0]
    /\ claimed = {}
    /\ pass = "first" /\ at = 1

-----------------------------------------------------------------------------
(* Lookups in the op graph *)

\* A varnode is at a variable's storage whatever its size is.
Covers(varnode, s) == varnode \in Slots /\ varnode.offset = s.offset

\* The varnode of the value an occurrence renders, if it is at the storage of
\* the variable; else 0.
OccurrenceRef(chunk) ==
    IF /\ chunk.value \in 1..lowered
       /\ Covers(varnodes[chunk.value], slot[chunk.var])
    THEN chunk.value
    ELSE 0

At(s) == {r \in 1..Len(varnodes) : Covers(varnodes[r], s)}

\* _stack_rep and _reg_rep: the first varnode at a storage.
First(s) == CHOOSE r \in At(s) : \A q \in At(s) : r <= q

\* The first varnode at a storage is nobody's instance yet.
Free(s) == At(s) # {} /\ First(s) \notin claimed

-----------------------------------------------------------------------------
(* First pass: symbols, and the values that are theirs *)

Current == chunks[at]

\* A variable without storage is remembered as skipped and has no symbol.
Skip ==
    /\ pass = "first" /\ at <= NumChunks
    /\ slot[Current.var] = Nowhere
    /\ at' = at + 1
    /\ UNCHANGED <<chunks, slot, lowered, varnodes, symbols, members, rep, claimed, pass>>

WithSymbol(v) == IF v \in ToSet(symbols) THEN symbols ELSE Append(symbols, v)

Claim ==
    LET v == Current.var
        ref == OccurrenceRef(Current)
    IN /\ pass = "first" /\ at <= NumChunks
       /\ slot[v] # Nowhere
       /\ ref # 0 /\ ref \notin claimed
       /\ symbols' = WithSymbol(v)
       /\ claimed' = claimed \cup {ref}
       /\ members' = [members EXCEPT ![v] = Append(@, ref)]
       /\ at' = at + 1
       /\ UNCHANGED <<chunks, slot, lowered, varnodes, rep, pass>>

\* The occurrence has no value of its own, or its value is taken already.
Pass ==
    LET v == Current.var
        ref == OccurrenceRef(Current)
    IN /\ pass = "first" /\ at <= NumChunks
       /\ slot[v] # Nowhere
       /\ ref = 0 \/ ref \in claimed
       /\ symbols' = WithSymbol(v)
       /\ at' = at + 1
       /\ UNCHANGED <<chunks, slot, lowered, varnodes, members, rep, claimed, pass>>

EndFirst ==
    /\ pass = "first" /\ at > NumChunks
    /\ pass' = "second" /\ at' = 1
    /\ UNCHANGED <<chunks, slot, lowered, varnodes, symbols, members, rep, claimed>>

-----------------------------------------------------------------------------
(* Second pass: representatives *)

Symbol == symbols[at]

\* A symbol that has instances is represented by the first.
RepresentByMember ==
    /\ pass = "second" /\ at <= Len(symbols)
    /\ members[Symbol] # <<>>
    /\ rep' = [rep EXCEPT ![Symbol] = members[Symbol][1]]
    /\ at' = at + 1
    /\ UNCHANGED <<chunks, slot, lowered, varnodes, symbols, members, claimed, pass>>

Represent(ref) ==
    /\ rep' = [rep EXCEPT ![Symbol] = ref]
    /\ members' = [members EXCEPT ![Symbol] = Append(@, ref)]
    /\ claimed' = claimed \cup {ref}
    /\ at' = at + 1
    /\ UNCHANGED <<chunks, slot, lowered, symbols, pass>>

\* Mutant: the varnode at the storage is taken though another has claimed it.
RepresentByStorageAnyway ==
    /\ pass = "second" /\ at <= Len(symbols)
    /\ members[Symbol] = <<>>
    /\ At(slot[Symbol]) # {}
    /\ Represent(First(slot[Symbol]))
    /\ UNCHANGED varnodes

\* variable_representative: the varnode that is at the storage already.
RepresentByStorage ==
    /\ pass = "second" /\ at <= Len(symbols)
    /\ members[Symbol] = <<>>
    /\ Free(slot[Symbol])
    /\ Represent(First(slot[Symbol]))
    /\ UNCHANGED varnodes

\* Nothing is there (variable_representative), or it has been claimed
\* (new_storage_varnode): a varnode without ops is made.
RepresentByNew ==
    /\ pass = "second" /\ at <= Len(symbols)
    /\ members[Symbol] = <<>>
    /\ ~Free(slot[Symbol])
    /\ varnodes' = Append(varnodes, slot[Symbol])
    /\ Represent(Len(varnodes) + 1)

EndSecond ==
    /\ pass = "second" /\ at > Len(symbols)
    /\ pass' = "done"
    /\ UNCHANGED <<chunks, slot, lowered, varnodes, symbols, members, rep, claimed, at>>

Build ==
    \/ Skip \/ Claim \/ Pass \/ EndFirst
    \/ RepresentByMember \/ RepresentByStorage \/ RepresentByNew \/ EndSecond

Spec == Init /\ [][Build]_vars

-----------------------------------------------------------------------------
(* The markup *)

\* Mutant: the value an occurrence renders, whoever has it as an instance.
VarRefOwn(k) ==
    IF slot[chunks[k].var] = Nowhere THEN 0
    ELSE IF OccurrenceRef(chunks[k]) # 0 THEN OccurrenceRef(chunks[k])
    ELSE rep[chunks[k].var]

\* Mutant: every token of a variable refers to its representative.
VarRefOne(k) == IF slot[chunks[k].var] = Nowhere THEN 0 ELSE rep[chunks[k].var]

\* varref of the k-th occurrence: the value it renders where that is an instance
\* of its variable, else the representative; 0 where it has no symbol.
VarRef(k) ==
    IF slot[chunks[k].var] = Nowhere THEN 0
    ELSE IF OccurrenceRef(chunks[k]) \in ToSet(members[chunks[k].var])
    THEN OccurrenceRef(chunks[k])
    ELSE rep[chunks[k].var]

-----------------------------------------------------------------------------
(* Properties *)

\* The types; and every reference is to a varnode that exists.
TypeOK ==
    /\ chunks \in [1..NumChunks -> Chunk]
    /\ slot \in [Vars -> Slots \cup {Nowhere}]
    /\ lowered \in Nat
    /\ varnodes \in Seq(Slots \cup {Nowhere}) /\ lowered <= Len(varnodes)
    /\ symbols \in Seq(Vars)
    /\ members \in [Vars -> Seq(1..Len(varnodes))]
    /\ rep \in [Vars -> 0..Len(varnodes)]
    /\ claimed \subseteq 1..Len(varnodes)
    /\ pass \in {"first", "second", "done"} /\ at \in Nat \ {0}

\* "Each HighVariable lists all of its SSA values as instances (disjoint across
\* variables, even when storage is shared)" (ROADMAP.md): no varnode is listed
\* twice, in one list or in two.
InstancesDisjoint ==
    \A u, v \in Vars : \A i \in 1..Len(members[u]), j \in 1..Len(members[v]) :
        members[u][i] = members[v][j] => u = v /\ i = j

\* "every token still resolves token -> varnode -> HighVariable -> HighSymbol":
\* the varnode a token refers to is an instance of the variable it shows, and at
\* its storage.
TokensResolve ==
    pass = "done" =>
        \A k \in 1..NumChunks :
            LET v == chunks[k].var
            IN slot[v] # Nowhere =>
                   /\ v \in ToSet(symbols)
                   /\ VarRef(k) \in ToSet(members[v])
                   /\ Covers(varnodes[VarRef(k)], slot[v])

\* "Variable tokens reference the varnode of the exact SSA value they render": a
\* token stands for another value than its own only where an earlier occurrence
\* shows that value as another variable.
OwnValueUnlessTaken ==
    pass = "done" =>
        \A k \in 1..NumChunks :
            /\ slot[chunks[k].var] # Nowhere
            /\ OccurrenceRef(chunks[k]) # 0
            /\ VarRef(k) # OccurrenceRef(chunks[k])
            => \E j \in 1..(k - 1) :
                   /\ chunks[j].var # chunks[k].var
                   /\ slot[chunks[j].var] # Nowhere
                   /\ OccurrenceRef(chunks[j]) = OccurrenceRef(chunks[k])
=============================================================================
