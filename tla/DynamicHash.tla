---------------------------- MODULE DynamicHash ----------------------------
(***************************************************************************)
(* DynamicHasher of core/dynahash.py: Ghidra keeps an edit of a varnode    *)
(* without a stable address with a hash of the operations around it        *)
(* (unique_hash), and the core looks for the varnode with that hash in the *)
(* op graph it has emitted (find_varnode). There are four methods of       *)
(* hashing, of growing neighbourhoods; if none is unique the number of     *)
(* varnodes with the hash and the position among them are stored with it.  *)
(*                                                                         *)
(* The hash is the sequence that the code feeds to its CRC-32, so what is  *)
(* shown here is shown but for collisions of the CRC. All varnodes have    *)
(* one size, and none is a constant, whose value is hashed too. No         *)
(* operation is one the code skips: PcodeTranslator emits no CAST.         *)
(* Operations stand for their class in _TRANSTABLE, and are in one block.  *)
(* The varnode is looked up in the op graph it was hashed in, as the next  *)
(* decompilation yields the same one.                                      *)
(***************************************************************************)
EXTENDS SequencesExt

CONSTANTS
    Shapes,         \* the operations: records of a code, what it writes
                    \* ("nothing", "temporary", "variable"), and the number of inputs
    NumAddrs,       \* bound on the instruction addresses
    MaxOps,         \* bound on the operations
    MaxDuplicates,  \* _MAX_DUPLICATES
    NumSlots        \* the slots that a hash tells apart: 32, as it has 5 bits for one

ASSUME MaxDuplicatesAssumption == MaxDuplicates \in Nat \ {0}

ASSUME NumSlotsAssumption == NumSlots \in Nat \ {0}

ASSUME NumAddrsAssumption == NumAddrs \in Nat

ASSUME ShapesAssumption ==
    \A shape \in Shapes : /\ shape.writes \in {"nothing", "temporary", "variable"}
                          /\ shape.arity \in Nat

VARIABLES
    ops,        \* the operations in the order of their times
    count,      \* the varnodes are 1..count
    root,       \* the varnode that is hashed, 0 before there is one
    method,     \* the method of the last hash
    champion,   \* the shortest list of candidates so far, NoList before there is one
    stored,     \* the hash that was stored, None if there is none
    matches,    \* the candidates of the lookup
    found,      \* the varnode that was found, 0 for none
    at          \* "emit", "try", "pack", "find", "end"

vars == <<ops, count, root, method, champion, stored, matches, found, at>>

\* No hash; and no list of varnodes, which is not the empty list.
None == <<>>
NoList == <<0>>

Init ==
    /\ ops = <<>> /\ count = 0
    /\ root = 0 /\ method = 0
    /\ champion = NoList /\ stored = None
    /\ matches = NoList /\ found = 0
    /\ at = "emit"

-----------------------------------------------------------------------------
(* The op graph *)

NewInputs(arity) ==
    {ins \in [1..arity -> 1..(count + arity)] :
        \A p \in 1..arity : ins[p] <= 1 + Max({count} \cup {ins[q] : q \in 1..(p - 1)})}

\* What an operation may write: an expression a new temporary, an assignment a
\* variable, which operations before it may have read (SSA, so none has written it).
Outputs(shape, top, ins) ==
    LET undefined == 1..top \ (ToSet(ins) \cup {ops[i].out : i \in 1..Len(ops)})
    IN IF shape.writes = "nothing" THEN {0}
       ELSE {top + 1} \cup IF shape.writes = "variable" THEN undefined ELSE {}

\* PcodeTranslator._emit: the inputs are known varnodes or new ones.
Emit(shape, a, ins) ==
    LET top == Max({count} \cup ToSet(ins))
    IN /\ at = "emit" /\ Len(ops) < MaxOps
       /\ \E out \in Outputs(shape, top, ins) :
              /\ ops' = Append(ops, [code |-> shape.code, at |-> a, ins |-> ins, out |-> out])
              /\ count' = Max({top, out})
       /\ UNCHANGED <<root, method, champion, stored, matches, found, at>>

\* The elements of the sequences F(1), F(2), ... up to F(n).
Concat(F(_), n) == FlattenSeq([i \in 1..n |-> F(i)])

\* The elements of a sequence that are in a set, and those not there before.
Kept(s, set) ==
    LET Keep(i) == IF s[i] \in set THEN <<s[i]>> ELSE <<>>
    IN Concat(Keep, Len(s))

Distinct(s) ==
    LET New(i) == IF \E k \in 1..(i - 1) : s[k] = s[i] THEN <<>> ELSE <<s[i]>>
    IN Concat(New, Len(s))

-----------------------------------------------------------------------------
(* calc_hash. An edge is an operation and the slot through which it is reached: *)
(* 0 for its output (-1 in the code), or the number of an input.                *)

\* build_vn_up: the operation that defines a varnode.
Up(v) ==
    LET Definer(i) == IF ops[i].out = v THEN <<[op |-> i, slot |-> 0]>> ELSE <<>>
    IN Concat(Definer, Len(ops))

\* One edge for each use, all of them through the first slot of the varnode.
UsesBy(i, v) ==
    LET slots == {p \in 1..Len(ops[i].ins) : ops[i].ins[p] = v}
        Use(p) == IF p \in slots THEN <<[op |-> i, slot |-> Min(slots)]>> ELSE <<>>
    IN Concat(Use, Len(ops[i].ins))

\* build_vn_down: the uses of a varnode by address, then by place in the block.
Down(v) ==
    LET UsesAt(a) ==
            LET Uses(i) == IF ops[i].at = a THEN UsesBy(i, v) ELSE <<>>
            IN Concat(Uses, Len(ops))
    IN Concat(UsesAt, NumAddrs)

\* build_op_up, build_op_down: the varnodes around the operations of some edges,
\* without the one the edges came from.
Inputs(i) == ops[i].ins
Output(i) == IF ops[i].out = 0 THEN <<>> ELSE <<ops[i].out>>

Around(edges, v, m) ==
    LET touched == Distinct([e \in 1..Len(edges) |-> edges[e].op])
        Side(n) == IF m = 2 THEN Output(touched[n]) ELSE Inputs(touched[n])
    IN Kept(Distinct(Concat(Side, Len(touched))), 1..count \ {v})

\* The edges of a neighbourhood: of the varnode, and by method 1 to 3 of those
\* that the operations around it read, or write, too.
Edges(v, m) ==
    LET near == Up(v) \o Down(v)
        far  == Around(near, v, m)
        Further(n) == IF m = 1 THEN Up(far[n]) ELSE Down(far[n])
    IN IF m = 0 THEN near ELSE near \o Concat(Further, Len(far))

\* _piece_together: what of the edges is fed to the CRC, and the first edge, which
\* is always one of the varnode itself. The slot is packed: the input of number
\* NumSlots is read back as the output, the next one as the first input.
Trail(edges) ==
    [e \in 1..Len(edges) |->
        <<edges[e].slot, ops[edges[e].op].code, ops[edges[e].op].at>>]

Hash(v, m) ==
    LET edges == Edges(v, m)
    IN [method |-> m, trail |-> Trail(edges), slot |-> edges[1].slot % NumSlots,
        code |-> ops[edges[1].op].code, at |-> ops[edges[1].op].at]

-----------------------------------------------------------------------------
(* _gather_first_level, and the candidates that hash alike *)

\* Mutant: the slot of an output is not recognised after it was unpacked.
FirstLevelOfInputs(h) ==
    LET Candidate(i) ==
            IF ops[i].at = h.at /\ ops[i].code = h.code /\ h.slot \in 1..Len(ops[i].ins)
            THEN <<ops[i].ins[h.slot]>> ELSE <<>>
    IN Distinct(Concat(Candidate, Len(ops)))

FirstLevel(h) ==
    LET Candidate(i) ==
            IF ops[i].at # h.at \/ ops[i].code # h.code THEN <<>>
            ELSE IF h.slot = 0 THEN Output(i)
            ELSE IF h.slot <= Len(ops[i].ins) THEN <<ops[i].ins[h.slot]>> ELSE <<>>
    IN Distinct(Concat(Candidate, Len(ops)))

\* The first-level varnodes whose hash by a method has the same CRC.
Alike(h) ==
    LET candidates == FirstLevel(h)
    IN Kept(candidates, {r \in ToSet(candidates) : Hash(r, h.method).trail = h.trail})

-----------------------------------------------------------------------------
(* unique_hash *)

\* Any varnode that an operation reads or writes may be edited.
Begin(v) ==
    /\ at = "emit"
    /\ root' = v
    /\ at' = "try"
    /\ UNCHANGED <<ops, count, method, champion, stored, matches, found>>

\* The candidates are gathered up to one more than MaxDuplicates.
Few(list) == Len(list) <= MaxDuplicates

Better(list) == Few(list) /\ (champion = NoList \/ Len(list) < Len(champion))

\* Mutant: a single candidate does not end the search.
TryOn ==
    LET list == Alike(Hash(root, method))
        best == IF Better(list) THEN list ELSE champion
    IN /\ at = "try"
       /\ champion' = best
       /\ IF method = 3 THEN at' = "pack" /\ UNCHANGED method
                        ELSE method' = method + 1 /\ UNCHANGED at
       /\ UNCHANGED <<ops, count, root, stored, matches, found>>

\* One method: the loop ends at a list of one, or after the last.
Try ==
    LET list == Alike(Hash(root, method))
        best == IF Better(list) THEN list ELSE champion
    IN /\ at = "try"
       /\ champion' = best
       /\ IF (Better(list) /\ Len(list) = 1) \/ method = 3
          THEN at' = "pack" /\ UNCHANGED method
          ELSE method' = method + 1 /\ UNCHANGED at
       /\ UNCHANGED <<ops, count, root, stored, matches, found>>

\* Stored is the hash of the last method tried, with the length of the shortest
\* list and the place in it, whichever method that list is of.
Pack ==
    /\ at = "pack"
    /\ Contains(champion, root)
    /\ stored' = [hash |-> Hash(root, method), total |-> Len(champion),
                  pos |-> CHOOSE p \in 1..Len(champion) : champion[p] = root]
    /\ at' = "find"
    /\ UNCHANGED <<ops, count, root, method, champion, matches, found>>

GiveUp ==
    /\ at = "pack"
    /\ ~Contains(champion, root)
    /\ at' = "end"
    /\ UNCHANGED <<ops, count, root, method, champion, stored, matches, found>>

-----------------------------------------------------------------------------
(* find_varnode *)

Find ==
    /\ at = "find"
    /\ matches' = Alike(stored.hash)
    /\ found' = IF Len(matches') = stored.total THEN matches'[stored.pos] ELSE 0
    /\ at' = "end"
    /\ UNCHANGED <<ops, count, root, method, champion, stored>>

Ended == at = "end" /\ UNCHANGED vars

Next ==
    \/ \E shape \in Shapes, a \in 1..NumAddrs :
           \E ins \in NewInputs(shape.arity) : Emit(shape, a, ins)
    \/ \E v \in 1..count : Begin(v)
    \/ Try \/ Pack \/ GiveUp \/ Find \/ Ended

Spec == Init /\ [][Next]_vars

-----------------------------------------------------------------------------
(* Properties *)

\* The types; and a varnode that was found, or is a candidate, exists.
TypeOK ==
    /\ \A i \in 1..Len(ops) : ops[i].out \in 0..count /\ ToSet(ops[i].ins) \subseteq 1..count
    /\ root \in 0..count /\ found \in 0..count
    /\ method \in 0..3
    /\ ToSet(champion) \subseteq 0..count
    /\ at \in {"emit", "try", "pack", "find", "end"}

\* The edge that the hashes of a varnode name, and that its slot can be packed.
Nearest(v) == (Up(v) \o Down(v))[1]
Fits(v) == Nearest(v).slot < NumSlots

\* A varnode is always among the candidates for its own hash, if its slot can be
\* packed: a hash is refused only if by every method too many varnodes have it.
RefusedOnlyIfCrowded ==
    at = "end" /\ stored = None /\ Fits(root) =>
        \A m \in 0..3 : Len(Alike(Hash(root, m))) > MaxDuplicates

\* A varnode that one method tells from all others is found again, if its slot can
\* be packed.
UniqueIsFound ==
    /\ at = "end" /\ Fits(root)
    /\ \E m \in 0..3 : Len(Alike(Hash(root, m))) = 1
    => found = root

-----------------------------------------------------------------------------
(* What the tests say and the code does not do *)

\* tests/test_dynahash.py:42-44, of unique_hash: "Every varnode attached to an op
\* gets a non-zero unique hash that find_varnode resolves back to exactly that
\* varnode", which lines 57-61 assert of each hash that is not zero. The hash that
\* is stored is of the last method tried, and the place with it may be one in the
\* list of an earlier one.
StoredIsFound ==
    at = "end" /\ stored # None => found = root
=============================================================================
