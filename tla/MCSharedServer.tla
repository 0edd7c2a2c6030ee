--------------------------- MODULE MCSharedServer ---------------------------
(* SharedServer for TLC; the configurations choose the launchers and bounds. *)
EXTENDS SharedServer, TLC

\* No action or safety property tells one launcher from another. (The runs of
\* liveness properties do not use it.)
Symmetry == Permutations(Launcher)
=============================================================================
