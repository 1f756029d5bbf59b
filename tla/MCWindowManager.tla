-------------------------- MODULE MCWindowManager --------------------------
(* Model-checking instance of WindowManager. *)
EXTENDS WindowManager, TLC

\* Windows are interchangeable: nothing orders them.
Symmetry == Permutations(Window)

============================================================================
