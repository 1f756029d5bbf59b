------------------------------- MODULE Positions -------------------------------
(***************************************************************************)
(* What is left of a list when only the elements at some of its places      *)
(* stay: the loops over a std::vector that skip or erase, as a function.    *)
(***************************************************************************)
EXTENDS Naturals, FiniteSets

\* How many of these positions come before the i-th.
Before(positions, i) == Cardinality({j \in positions : j < i})

\* The n-th of the positions that are kept.
Nth(kept, n) == CHOOSE i \in kept : Before(kept, i) = n - 1

Remaining(seq, kept) == [n \in 1..Cardinality(kept) |-> seq[Nth(kept, n)]]
================================================================================
