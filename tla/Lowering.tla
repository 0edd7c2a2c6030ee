------------------------------ MODULE Lowering ------------------------------
(***************************************************************************)
(* PcodeTranslator of core/pcode.py: an AIL graph becomes varnodes, p-code *)
(* operations, and blocks with edges between them. Opcodes, sizes and the  *)
(* values of constants are left out: the lowering is meant to keep "who    *)
(* defines/uses what".                                                     *)
(*                                                                         *)
(* Expressions are numbered, operands before what they are operands of,    *)
(* and are records with a form and an address, 0 where they have none:     *)
(* "var" (a VirtualVariable), "const", "operation" (BinaryOp, UnaryOp,     *)
(* Convert, Load, Call: what has operands), and "other". So are            *)
(* statements: "assign" to a variable; "evaluate" (a Store, an assignment  *)
(* to anything else); "effect" (ConditionalJump, Jump, Return, Call), with *)
(* the inputs of its operation as arguments; and "none". A varnode's       *)
(* number is its place in varnodes, an operation's time its place in ops.  *)
(***************************************************************************)
EXTENDS SequencesExt

CONSTANTS
    Exprs,     \* the AIL expressions
    SsaValues, \* AIL virtual variables
    AilGraphs, \* AIL graphs: blocks in the order of their addresses, each a
               \* sequence of statements; edges between them; the storage of
               \* each SSA value
    Slots,     \* storage: records with an offset and a size
    Nowhere    \* no storage: a temporary or a constant

Storages == Slots \cup {Nowhere}

ASSUME ExprsAssumption ==
    /\ DOMAIN Exprs \subseteq Nat
    /\ \A e \in DOMAIN Exprs :
          /\ Exprs[e].form \in {"var", "const", "operation", "other"}
          /\ Exprs[e].address \in Nat
          /\ Exprs[e].form = "var" => Exprs[e].var \in SsaValues
          /\ Exprs[e].form = "operation" =>
                 Exprs[e].args \in Seq({d \in DOMAIN Exprs : d < e})

AilStatements ==
    [form : {"evaluate", "effect", "none"}, args : Seq(DOMAIN Exprs), address : Nat]
    \cup [form : {"assign"}, var : SsaValues, args : [1..1 -> DOMAIN Exprs], address : Nat]

ASSUME GraphsAssumption ==
    \A g \in AilGraphs :
        /\ g.blocks \in Seq(Seq(AilStatements))
        /\ g.edges \in Seq((1..Len(g.blocks)) \X (1..Len(g.blocks)))
        /\ g.storage \in [SsaValues -> Storages]

VARIABLES
    ail,      \* the graph
    varnodes, \* the storage of each varnode
    refOf,    \* _vvar_ref: the varnode of each SSA value, 0 if it has none
    ops,      \* the operations, by their times
    blocks,   \* of each block the first and last of its times, and its in-edges
    through,  \* statements of the last block that are done
    edges,    \* edges of the graph that are done
    lowering  \* "runs", "done", or "failed": then there is no translator

lowVars == <<ail, varnodes, refOf, ops, blocks, through, edges, lowering>>

Unknown == [v \in SsaValues |-> 0]

LowInit ==
    /\ ail \in AilGraphs
    /\ varnodes = <<>> /\ refOf = Unknown
    /\ ops = <<>> /\ blocks = <<>> /\ through = 0 /\ edges = 0
    /\ lowering = "runs"

-----------------------------------------------------------------------------
(* Varnodes, operations and expressions, over a graph that grows *)

Operations == [address : Nat, output : Nat, inputs : Seq(Nat)]
Graphs ==
    [varnodes : Seq(Storages), refOf : [SsaValues -> Nat], ops : Seq(Operations)]

New(g, storage) ==
    [graph |-> [g EXCEPT !.varnodes = Append(@, storage)], ref |-> Len(g.varnodes) + 1]

\* Mutant: the varnode of a value is not looked up again.
VvarForgotten(v, g) ==
    LET new == New(g, ail.storage[v]) IN [new EXCEPT !.graph.refOf[v] = new.ref]

\* _vvar: every SSA value has one varnode.
Vvar(v, g) ==
    LET new == New(g, ail.storage[v])
    IN IF g.refOf[v] # 0
       THEN [graph |-> g, ref |-> g.refOf[v]]
       ELSE [new EXCEPT !.graph.refOf[v] = new.ref]

\* _emit: an output of 0 is none.
Emit(g, address, output, inputs) ==
    [g EXCEPT !.ops = Append(@, [address |-> address, output |-> output, inputs |-> inputs])]

Own(expr, address) == IF expr.address # 0 THEN expr.address ELSE address

\* Some expressions one after the other, by what lowers each of them.
Operands(lowers, address, g) ==
    LET after[n \in 0..Len(lowers)] ==
            IF n = 0 THEN [graph |-> g, refs |-> <<>>]
            ELSE LET before == after[n - 1]
                     new    == lowers[n][address][before.graph]
                 IN [graph |-> new.graph, refs |-> Append(before.refs, new.ref)]
    IN after[Len(lowers)]

\* What an expression at an address does to a graph, by what those before it do.
LowerOne(lower, e, address, g) ==
    LET expr == Exprs[e] IN
    CASE expr.form = "var" -> Vvar(expr.var, g)
      [] expr.form \in {"const", "other"} -> New(g, Nowhere)
      [] expr.form = "operation" ->
             LET own == Own(expr, address)
                 ins == Operands([i \in DOMAIN expr.args |-> lower[expr.args[i]]], own, g)
                 out == New(ins.graph, Nowhere)
             IN [out EXCEPT !.graph = Emit(@, own, out.ref, ins.refs)]

\* _expr, _call.
Expr ==
    LET lower[e \in DOMAIN Exprs] ==
            [address \in Nat |-> [g \in Graphs |-> LowerOne(lower, e, address, g)]]
    IN lower

Arguments(st, g) == Operands([i \in DOMAIN st.args |-> Expr[st.args[i]]], st.address, g)

\* _stmt.
Statement(st, g) ==
    CASE st.form = "assign" ->
             LET dst == Vvar(st.var, g)
                 src == Expr[st.args[1]][st.address][dst.graph]
             IN Emit(src.graph, st.address, dst.ref, <<src.ref>>)
      [] st.form = "evaluate" -> Arguments(st, g).graph
      [] st.form = "effect" ->
             LET ins == Arguments(st, g)
             IN Emit(ins.graph, st.address, 0, ins.refs)
      [] st.form = "none" -> g

-----------------------------------------------------------------------------
(* translate *)

BlocksLeft     == Len(blocks) < Len(ail.blocks)
StatementsLeft == blocks # <<>> /\ through < Len(ail.blocks[Len(blocks)])

\* A block's times are those given out while its statements are lowered.
OpenBlock ==
    /\ lowering = "runs" /\ ~StatementsLeft /\ BlocksLeft
    /\ blocks' = Append(blocks, [first |-> Len(ops) + 1, last |-> Len(ops), in |-> <<>>])
    /\ through' = 0
    /\ UNCHANGED <<ail, varnodes, refOf, ops, edges, lowering>>

LowerStatement ==
    /\ lowering = "runs" /\ StatementsLeft
    /\ through' = through + 1
    /\ LET after == Statement(ail.blocks[Len(blocks)][through + 1],
                              [varnodes |-> varnodes, refOf |-> refOf, ops |-> ops])
       IN /\ varnodes' = after.varnodes /\ refOf' = after.refOf /\ ops' = after.ops
          /\ blocks' = [blocks EXCEPT ![Len(blocks)].last = Len(after.ops)]
    /\ UNCHANGED <<ail, edges, lowering>>

AllLowered == ~BlocksLeft /\ ~StatementsLeft

\* Mutant: one counter for all sources.
AllBefore(source, n) == 1..(n - 1)

\* The edges of the graph that leave a block and are before edge n.
OutBefore(source, n) == {i \in 1..(n - 1) : ail.edges[i][1] = source}

\* An in-edge has its source, and its place among the source's out-edges.
AddEdge ==
    /\ lowering = "runs" /\ AllLowered /\ edges < Len(ail.edges)
    /\ edges' = edges + 1
    /\ LET edge == ail.edges[edges + 1]
           in == <<edge[1], Cardinality(OutBefore(edge[1], edges + 1))>>
       IN blocks' = [blocks EXCEPT ![edge[2]].in = Append(@, in)]
    /\ UNCHANGED <<ail, varnodes, refOf, ops, through, lowering>>

Translated ==
    /\ lowering = "runs" /\ AllLowered /\ edges = Len(ail.edges)
    /\ lowering' = "done"
    /\ UNCHANGED <<ail, varnodes, refOf, ops, blocks, through, edges>>

\* _build_pcode: an exception anywhere, or no AIL graph, and there is no
\* translator.
TranslationFails ==
    /\ lowering = "runs"
    /\ lowering' = "failed"
    /\ varnodes' = <<>> /\ refOf' = Unknown
    /\ ops' = <<>> /\ blocks' = <<>> /\ through' = 0 /\ edges' = 0
    /\ UNCHANGED ail

Lower == OpenBlock \/ LowerStatement \/ AddEdge \/ Translated \/ TranslationFails

-----------------------------------------------------------------------------
(* Properties *)

\* The SSA values an expression reads, but for the forms that are not lowered.
Reads ==
    LET reads[e \in DOMAIN Exprs] ==
            IF Exprs[e].form = "operation"
            THEN UNION {reads[Exprs[e].args[i]] : i \in 1..Len(Exprs[e].args)}
            ELSE {v \in SsaValues : Exprs[e].form = "var" /\ v = Exprs[e].var}
    IN reads

ReadsOf(st) == UNION {Reads[st.args[i]] : i \in DOMAIN st.args}

\* The SSA values an operation reads, itself or through the temporaries that
\* operations before it have written.
From == LET from[t \in DOMAIN ops] ==
                UNION {LET ref == ops[t].inputs[i]
                           values == {v \in SsaValues : refOf[v] = ref}
                       IN IF values # {} THEN values
                          ELSE UNION {from[u] : u \in {w \in 1..(t - 1) : ops[w].output = ref}}
                       : i \in DOMAIN ops[t].inputs}
        IN from

Statements == FlattenSeq(ail.blocks)

\* The statements that become an operation of their own.
Acts == FlattenSeq([i \in DOMAIN Statements |->
            IF Statements[i].form \in {"assign", "effect"} THEN <<Statements[i]>> ELSE <<>>])

\* The times of the operations that write no temporary.
Lasting  == {0} \cup {refOf[v] : v \in SsaValues}
ActTimes == FlattenSeq([t \in DOMAIN ops |->
                IF ops[t].output \in Lasting THEN <<t>> ELSE <<>>])

\* Who defines and uses what, in the statements and in the operations: the
\* assignments, jumps, calls and returns are, in their order, the operations that
\* write no temporary; each writes the assigned value or nothing, and reads exactly
\* what the statement reads, through all its temporaries. And an operand of a store
\* that computes something is computed. (A store of one variable to another leaves
\* no operation.)
SameDataFlow ==
    /\ Len(ActTimes) = Len(Acts)
    /\ \A i \in DOMAIN Acts :
          LET st == Acts[i]
              output == ops[ActTimes[i]].output
          IN /\ From[ActTimes[i]] = ReadsOf(st)
             /\ IF st.form = "assign" THEN output = refOf[st.var] /\ output # 0
                                      ELSE output = 0
    /\ \A i \in DOMAIN Statements : Statements[i].form = "evaluate" =>
          \A k \in DOMAIN Statements[i].args :
              Exprs[Statements[i].args[k]].form = "operation" =>
                  \E t \in DOMAIN ops : /\ ops[t].output \notin Lasting
                                        /\ From[t] = Reads[Statements[i].args[k]]

\* "it preserves data-flow shape (who defines/uses what)" (pcode.py:12-13): when the
\* lowering is done, every statement has its operation, in the statements' order,
\* and each reads and writes what the other does; none is lost, doubled or mixed up.
DataFlowIsKept == lowering = "done" => SameDataFlow
=============================================================================
