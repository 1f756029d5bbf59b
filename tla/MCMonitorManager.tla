------------------------- MODULE MCMonitorManager -------------------------
(* Model-checking instance of MonitorManager. *)
EXTENDS MonitorManager, TLC

CONSTANTS left, right, third

Two == <<left, right>>
Three == <<left, right, third>>

\* One output is pinned; the rule of another names no workspace there is.
Rules == [n \in Output \cup {Fallback} |->
            CASE n = right -> 2 [] n = left -> NumWorkspaces + 1 [] OTHER -> 0]

============================================================================
