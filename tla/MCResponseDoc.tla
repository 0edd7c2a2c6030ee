--------------------------- MODULE MCResponseDoc ---------------------------
(***************************************************************************)
(* Inputs of ResponseDoc, for TLC: many graphs with one text, and many     *)
(* texts with few graphs.                                                  *)
(***************************************************************************)
EXTENDS ResponseDoc

CONSTANTS x, y, z, stack, reg, v1, v2

S(offset) == [offset |-> offset, size |-> IF offset = stack THEN "undefined4" ELSE "undefined2"]
MCSlots == {S(stack), S(reg)}
MCStack == {stack}

Var(v)      == [form |-> "var", var |-> v, args |-> <<>>, address |-> 0]
Leaf(form)  == [form |-> form, args |-> <<>>, address |-> 0]
Op(args, a) == [form |-> "operation", args |-> args, address |-> a]
Assign(v, e, a) == [form |-> "assign", var |-> v, args |-> <<e>>, address |-> a]
Do(form, args, a) == [form |-> form, args |-> args, address |-> a]

\* x, y, z, a constant and what is not modelled; and operations on them, of two and
\* three levels, with addresses of their own and without.
MCExprs ==
    <<Var(x), Var(y), Var(z), Leaf("const"), Leaf("other"),
      Op(<<1>>, 3), Op(<<1, 2>>, 0),
      Op(<<2>>, 0), Op(<<1, 4>>, 3), Op(<<8, 9>>, 1),
      Op(<<2>>, 3), Op(<<5, 11>>, 0),
      Op(<<3, 1>>, 2), Op(<<1>>, 1)>>

Expressions == {1, 4, 5, 6, 7, 10, 12}

\* z is assigned first, and used in the second statement or the second block.
Firsts  == {Assign(z, e, 1) : e \in Expressions} \cup {Do("none", <<>>, 1)}
Seconds == {Do("evaluate", <<1, e>>, 2) : e \in Expressions}
           \cup {Do("effect", <<4, e>>, 0) : e \in Expressions}
Lasts   == {Do("effect", <<4, 13>>, 2), Do("effect", <<4>>, 0)}

\* A branch, a loop, two loops, and none.
EdgeLists == {<<>>, << <<1, 2>> >>, << <<1, 2>>, <<1, 1>>, <<2, 1>> >>,
              << <<1, 1>>, <<1, 2>>, <<2, 1>>, <<2, 2>> >>}

Storage == x :> S(stack) @@ y :> S(reg) @@ z :> S(stack)
Bare    == x :> Nowhere @@ y :> S(stack) @@ z :> S(stack)

Graph(first, second, last, edgeList, storage) ==
    [blocks |-> << <<first, second>>, <<last>> >>, edges |-> edgeList, storage |-> storage]

Many == {Graph(f, s, l, e, Storage) : f \in Firsts, s \in Seconds, l \in Lasts, e \in EdgeLists}
Few  == {Graph(Assign(z, 14, 1), Do("effect", <<4, 2>>, 2),
               Assign(z, 7, 0), <<>>, storage) : storage \in {Storage, Bare}}

MCGraphs == Many \cup Few

Node(kind, v, value, a) == [node |-> kind, var |-> v, value |-> value, address |-> a]
Plain(kind, a) == Node(kind, NoVar, Nowhere, a)

\* Occurrences with a value of their own, one another's, and none.
Nodes ==
    {Node("variable", v1, x, 0), Node("variable", v1, y, 1), Node("variable", v2, y, 2),
     Node("variable", v2, Nowhere, 2), Plain("field", 2), Plain("function", 1),
     Plain("type", 1), Plain("constant", 2), Plain("other", 2), Plain("other", 3)}

Chars ==
    {<<>>, <<"w">>, <<"w", "space", "w", "star">>, <<"w", "\n", "space", "space", "w">>,
     <<"space", "\n", "\n", "space">>}

With(node, chars) == node @@ [chars |-> chars]

Varied == {<<With(m, c), With(n, d)>> : m \in Nodes, n \in Nodes,
              c \in Chars, d \in {<<"w">>, <<"\n", "space", "star", "w">>}}
Plainly == {<<With(Node("variable", v1, z, 1), <<"w">>), With(Node("variable", v2, x, 3), <<"w">>)>>}

MCTextsOf == [g \in MCGraphs |-> IF g \in Few THEN Varied ELSE Plainly]
=============================================================================
