---------------------------- MODULE ResponseDoc ----------------------------
(***************************************************************************)
(* What cmd_decompileAt makes of a decompilation: the op graph (Lowering), *)
(* the variables (HighVariables), and out of both the response, emit_doc   *)
(* of core/emit.py. A reader goes through the response once, from front to *)
(* back, so a reference must be to something that has been read.           *)
(*                                                                         *)
(* The response is the sequence of its elements. Names, sizes, locks and   *)
(* what is the same in every response are left out. Characters are a word  *)
(* character, a space, a star (for all others) and the line feed.          *)
(***************************************************************************)
EXTENDS Lowering

CONSTANTS
    Vars,           \* as in HighVariables
    NoVar,          \* the variable of a chunk that shows none
    NumChunks,      \* chunks of the text
    TextsOf,        \* the texts of each AIL graph: sequences of NumChunks chunks
    CoreTypeSets,   \* sets of the names of core types
    StackOffsets    \* the offsets that are the stack's

\* What is shown of a chunk: a word character, a space, a star, the line feed.
Characters == {"w", "space", "star", "\n"}

Chunks ==
    [node : {"variable", "field", "function", "type", "constant", "other"},
     var : Vars \cup {NoVar}, value : SsaValues \cup {Nowhere}, address : Nat,
     chars : Seq(Characters)]

ASSUME NowhereAssumption == Nowhere \notin Slots \cup SsaValues
ASSUME NoVarAssumption   == NoVar \notin Vars
ASSUME TextsAssumption   ==
    /\ NumChunks \in Nat
    /\ \A g \in AilGraphs : TextsOf[g] \subseteq [1..NumChunks -> Chunks]

VARIABLES
    text,           \* codegen.cfunc.c_repr_chunks
    slot,           \* the storage of each variable
    core,           \* the registered core types
    lowered,        \* how many varnodes the lowering has made
    symbols, members, rep, claimed, pass, at, \* those of HighVariables
    doc             \* the response

tableVars == <<symbols, members, rep, claimed, pass, at>>
inputVars == <<text, slot, core>>
vars == <<lowVars, inputVars, lowered, tableVars, doc>>

\* A chunk as VariableSymbolTable.build sees it.
Seen(chunk) ==
    [var   |-> chunk.var,
     value |-> IF chunk.value = Nowhere THEN 0 ELSE refOf[chunk.value]]

Table == INSTANCE HighVariables WITH
             Vars <- Vars \cup {NoVar}, NumValues <- 0,
             chunks <- [k \in 1..NumChunks |-> Seen(text[k])]

Init ==
    /\ LowInit
    /\ text \in TextsOf[ail]
    /\ slot \in [Vars \cup {NoVar} -> Storages] /\ slot[NoVar] = Nowhere
    /\ core \in CoreTypeSets
    /\ lowered = 0
    /\ symbols = <<>> /\ claimed = {}
    /\ members = [v \in Vars \cup {NoVar} |-> <<>>]
    /\ rep = [v \in Vars \cup {NoVar} |-> 0]
    /\ pass = "first" /\ at = 1
    /\ doc = <<>>

\* _build_pcode.
BuildPcode ==
    /\ Lower
    /\ lowered' = Len(varnodes')
    /\ UNCHANGED <<inputVars, tableVars, doc>>

\* VariableSymbolTable.build: a varnode it makes is made by the translator.
BuildTable ==
    /\ lowering # "runs"
    /\ UNCHANGED <<ail, refOf, ops, blocks, through, edges, lowering, inputVars, lowered, doc>>
    /\ Table!Build

-----------------------------------------------------------------------------
(* The model *)

HasTranslator == lowering = "done"

\* _typeref: a name that is not registered is replaced by one that is.
TypeRef(name) ==
    IF name \in core \/ core = {} THEN name
    ELSE IF "undefined8" \in core THEN "undefined8"
    ELSE CHOOSE type \in core : TRUE

\* The type of a variable is of its size (variables.py, undef_type_for_size).
TypeOf(v) == slot[v].size

SymbolList ==
    [i \in DOMAIN symbols |->
        [kind |-> "symbol", var |-> symbols[i], type |-> TypeRef(TypeOf(symbols[i]))]]

IsStack(s) == s # Nowhere /\ s.offset \in StackOffsets

\* Varnodes in a stack slot that a variable has are tied to their address.
Varnode(ref, storage) ==
    [kind |-> "varnode", ref |-> ref,
     tied |-> IsStack(storage)
              /\ \E i \in DOMAIN symbols : slot[symbols[i]].offset = storage.offset]

BlockElement(b) ==
    <<[kind |-> "block", index |-> b]>>
    \o [k \in 1..(blocks[b].last - blocks[b].first + 1) |->
           LET t == blocks[b].first + k - 1
           IN [kind |-> "op", time |-> t, address |-> ops[t].address,
               output |-> ops[t].output, inputs |-> ops[t].inputs]]

BlockEdges(b) ==
    [k \in DOMAIN blocks[b].in |->
        [kind |-> "edge", to |-> b, end |-> blocks[b].in[k][1], rev |-> blocks[b].in[k][2]]]

\* _emit_ast: without a translator, the representatives alone.
Ast ==
    IF HasTranslator
    THEN [r \in DOMAIN varnodes |-> Varnode(r, varnodes[r])]
         \o FlattenSeq([b \in DOMAIN blocks |-> BlockElement(b)])
         \o FlattenSeq([b \in DOMAIN blocks |-> BlockEdges(b)])
    ELSE [i \in DOMAIN symbols |-> Varnode(rep[symbols[i]], slot[symbols[i]])]

HighList ==
    [i \in DOMAIN symbols |->
        LET v == symbols[i]
        IN [kind |-> "high", symref |-> v, repref |-> rep[v],
            type |-> TypeRef(TypeOf(v)), members |-> members[v]]]

\* Mutant: the variables before the varnodes they consist of.
ModelUnordered == SymbolList \o (IF symbols # <<>> THEN HighList \o Ast ELSE <<>>)

\* _emit_model_function.
Model == SymbolList \o (IF symbols # <<>> THEN Ast \o HighList ELSE <<>>)

-----------------------------------------------------------------------------
(* The markup *)

\* op_time_at: the first operation at the address of a chunk; 0 if there is none.
OpRef(chunk) ==
    LET there == {t \in DOMAIN ops : chunk.address # 0 /\ ops[t].address = chunk.address}
    IN IF HasTranslator /\ there # {} THEN CHOOSE t \in there : \A u \in there : t <= u ELSE 0

\* The last of some lists gets an element more.
Longer(lists, c) == [lists EXCEPT ![Len(lists)] = Append(@, c)]

\* text.split("\n").
Segments(chars) ==
    LET segs[n \in 0..Len(chars)] ==
            IF n = 0 THEN << <<>> >>
            ELSE IF chars[n] = "\n" THEN Append(segs[n - 1], <<>>)
            ELSE Longer(segs[n - 1], chars[n])
    IN segs[Len(chars)]

Indent(seg) == CHOOSE n \in 0..Len(seg) :
                   /\ \A i \in 1..n : seg[i] = "space"
                   /\ n < Len(seg) => seg[n + 1] # "space"

\* _TYPE_SPLIT: runs of word characters, and what is between them.
IsWord(run) == run[1] = "w"
TypeRuns(seg) ==
    LET runs[n \in 0..Len(seg)] ==
            IF n = 0 THEN <<>>
            ELSE LET before == runs[n - 1]
                 IN IF before # <<>> /\ (IsWord(before[Len(before)]) <=> seg[n] = "w")
                    THEN Longer(before, seg[n])
                    ELSE Append(before, <<seg[n]>>)
    IN runs[Len(seg)]

Token(tag, chars, varref, opref) ==
    [kind |-> "token", tag |-> tag, chars |-> chars, varref |-> varref, opref |-> opref]

\* Mutant: a type name of several words is one token.
TypeTokensWhole(seg) == <<Token("type", seg, 0, 0)>>

TypeTokens(seg) ==
    LET runs == TypeRuns(seg)
    IN [i \in DOMAIN runs |->
           Token(IF IsWord(runs[i]) THEN "type" ELSE "syntax", runs[i], 0, 0)]

\* _color_for and _emit_token, of the k-th chunk. Fields are coloured like
\* variables; what has no colour is an <op> where it has an operation.
SegmentTokens(k, seg) ==
    LET node == text[k].node
        opref == OpRef(text[k])
    IN CASE node \in {"variable", "field"} -> <<Token("variable", seg, Table!VarRef(k), opref)>>
         [] node = "function" -> <<Token("funcname", seg, 0, opref)>>
         [] node = "type"     -> TypeTokens(seg)
         [] node = "constant" -> <<Token("syntax", seg, 0, 0)>>
         [] node = "other"    -> <<Token(IF opref # 0 THEN "op" ELSE "syntax", seg, 0, opref)>>

Tokens(k, seg) == IF seg = <<>> THEN <<>> ELSE SegmentTokens(k, seg)

\* Every segment but the first begins a line.
LineTokens(k, i, seg) ==
    IF i = 1 THEN Tokens(k, seg)
    ELSE <<[kind |-> "break", indent |-> Indent(seg)]>>
         \o Tokens(k, SubSeq(seg, Indent(seg) + 1, Len(seg)))

ChunkTokens(k) ==
    LET segs == Segments(text[k].chars)
    IN FlattenSeq([i \in DOMAIN segs |-> LineTokens(k, i, segs[i])])

Markup == FlattenSeq([k \in 1..NumChunks |-> ChunkTokens(k)])

\* emit_doc: the model <function>, then the markup <function>.
EmitDoc ==
    /\ pass = "done" /\ doc = <<>>
    /\ doc' = Model \o Markup
    /\ pass' = "emitted"
    /\ UNCHANGED <<lowVars, inputVars, lowered, symbols, members, rep, claimed, at>>

Next == BuildPcode \/ BuildTable \/ EmitDoc

Spec == Init /\ [][Next]_vars

-----------------------------------------------------------------------------
(* Readers *)

Elements(kind) ==
    FlattenSeq([i \in DOMAIN doc |-> IF doc[i].kind = kind THEN <<doc[i]>> ELSE <<>>])

\* Ghidra writes an underscore for a character that no identifier has
\* (IllegalCharCppTransformer, of which emit.py:371 speaks).
Legal(chars) == [i \in DOMAIN chars |-> IF chars[i] = "w" THEN "w" ELSE "_"]

\* render_c, but for the line feeds it strips at both ends, as Ghidra shows it.
Show(el) ==
    CASE el.kind = "break" -> <<"\n">> \o [i \in 1..el.indent |-> "space"]
      [] el.kind = "token" -> IF el.tag = "type" THEN Legal(el.chars) ELSE el.chars
      [] OTHER -> <<>>

Shown == FlattenSeq([i \in DOMAIN doc |-> Show(doc[i])])

-----------------------------------------------------------------------------
(* Properties *)

\* The text Ghidra shows is angr's, character by character: no break, no
\* indentation, no type of several words (emit.py:371-376) and no empty chunk
\* gets lost or changed on the way.
TextIsShown ==
    pass = "emitted" => Shown = FlattenSeq([k \in 1..NumChunks |-> text[k].chars])

Before(i, kind) == {doc[j] : j \in {k \in 1..(i - 1) : doc[k].kind = kind}}
VarnodesBefore(i) == {el.ref : el \in Before(i, "varnode")}

\* "Both must come after <localdb> (highlist resolves symrefs against the
\* LocalSymbolMap) and the varnodes must be registered before the highlist
\* references them" (emit.py:153-157): what is referred to has been read before,
\* by operations, edges, variables and tokens, and types are registered. A token
\* leads through its variable's instances to a symbol, and through its operation
\* to its address; in a function that has no variable there is no <ast> and the
\* latter leads nowhere.
ReferencesResolve ==
    \A i \in DOMAIN doc :
        LET el == doc[i] IN
        CASE el.kind = "op" ->
                 ToSet(el.inputs) \cup ({el.output} \ {0}) \subseteq VarnodesBefore(i)
          [] el.kind = "edge" ->
                 {el.to, el.end} \subseteq {b.index : b \in Before(i, "block")}
          [] el.kind = "symbol" -> core = {} \/ el.type \in core
          [] el.kind = "high" ->
                 /\ core = {} \/ el.type \in core
                 /\ \E s \in Before(i, "symbol") : s.var = el.symref
                 /\ ToSet(el.members) \subseteq VarnodesBefore(i)
                 /\ el.repref \in ToSet(el.members)
          [] el.kind = "token" ->
                 /\ el.varref # 0 =>
                        \E h \in Before(i, "high") : el.varref \in ToSet(h.members)
                 /\ el.opref # 0 /\ symbols # <<>> =>
                        \E op \in Before(i, "op") : op.time = el.opref
          [] OTHER -> TRUE

\* "so token.getMinAddress() resolves and listing<->decompiler navigation works"
\* (emit.py:348-350): where the function has variables, a name or an operator
\* has the operation at its own address, if the response has one there; the
\* operations are read back in their order, each in one block; and an edge is
\* at its place among all edges that leave its source.
GraphIsReadBack ==
    pass = "emitted" /\ HasTranslator /\ symbols # <<>> =>
        /\ \A k \in 1..NumChunks : \A tok \in ToSet(ChunkTokens(k)) :
              tok.kind = "token" /\ tok.tag \in {"variable", "funcname", "op"} =>
                  \/ \E j \in DOMAIN Elements("op") :
                        /\ Elements("op")[j].time = tok.opref
                        /\ Elements("op")[j].address = text[k].address
                  \/ /\ tok.opref = 0
                     /\ \A j \in DOMAIN Elements("op") :
                           text[k].address \in {0} \/ Elements("op")[j].address # text[k].address
        /\ [j \in DOMAIN Elements("op") |-> Elements("op")[j].time] = [t \in DOMAIN ops |-> t]
        /\ Len(Elements("edge")) = Len(ail.edges)
        /\ \A b \in DOMAIN blocks :
              LET out == {el \in ToSet(Elements("edge")) : el.end = b}
              IN {el.rev : el \in out} = 0..(Cardinality(out) - 1)

\* "opref links the token to the p-code op at its instruction address" (emit.py:348):
\* every token's operation is in the response.
OpRefsResolve ==
    \A i \in DOMAIN doc :
        doc[i].kind = "token" /\ doc[i].opref # 0 =>
            \E op \in Before(i, "op") : op.time = doc[i].opref
=============================================================================
