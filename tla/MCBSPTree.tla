----------------------------- MODULE MCBSPTree -----------------------------
\* Instances of BSPTree for TLC: a wide and a tall monitor.
EXTENDS BSPTree

Wide == [x |-> 0, y |-> 0, width |-> 14, height |-> 8]
Tall == [x |-> 0, y |-> 0, width |-> 7, height |-> 13]
Monitors == {Wide, Tall}
Symmetry == Permutations(Window)
============================================================================
