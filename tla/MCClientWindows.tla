-------------------------- MODULE MCClientWindows --------------------------
(* Model-checking instance of ClientWindows. *)
EXTENDS ClientWindows, TLC

============================================================================
