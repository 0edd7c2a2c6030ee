---------------------------- MODULE MCUserEdits ----------------------------
EXTENDS UserEdits

CONSTANTS stack, reg, large, v1, v2, u1, u2, r1, r2

\* A stack slot and a register. (Lookups in the op graph go by the offset alone;
\* of angr's registers there are two, which may be two sizes of this one.)
MCSlots == {[offset |-> stack, size |-> large], [offset |-> reg, size |-> large]}

MCStack == {stack}

Symmetry == Permutations({v1, v2}) \cup Permutations({u1, u2}) \cup Permutations({r1, r2})
=============================================================================
