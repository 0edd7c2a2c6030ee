--------------------------- MODULE MCDynamicHash ---------------------------
EXTENDS DynamicHash

\* An assignment, a binary expression, and a call that returns nothing.
MCShapes == {[code |-> "COPY", writes |-> "variable", arity |-> 1],
             [code |-> "INT_ADD", writes |-> "temporary", arity |-> 2],
             [code |-> "CALL", writes |-> "nothing", arity |-> 1]}

\* Assignments alone, of which there can be more.
MCCopies == {shape \in MCShapes : shape.code = "COPY"}
=============================================================================
