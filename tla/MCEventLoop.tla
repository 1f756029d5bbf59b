----------------------------- MODULE MCEventLoop -----------------------------
(* EventLoop for TLC: the monitors are alike.                                *)
EXTENDS EventLoop, TLC

Symmetry == Permutations(Monitor)
==============================================================================
