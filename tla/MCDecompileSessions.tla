------------------------ MODULE MCDecompileSessions -------------------------
(* Model values and symmetry for DecompileSessions. *)
EXTENDS DecompileSessions, TLC

CONSTANTS main, helper

\* main calls the helper, which calls itself and goes on in main by a jump.
MCCalls    == [i \in Image |-> (main :> {helper}) @@ (helper :> {helper})]
MCMentions == [i \in Image |-> (main :> {helper}) @@ (helper :> {main, helper})]

Symmetry == Permutations(Session) \cup Permutations(Process)
=============================================================================
