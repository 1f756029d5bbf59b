---------------------------- MODULE MCMouseDrag ----------------------------
(* Model-checking instance of MouseDrag. *)
EXTENDS MouseDrag, TLC

\* Windows are interchangeable: nothing orders them.
Symmetry == Permutations(Window)

============================================================================
