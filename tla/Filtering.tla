----------------------------- MODULE Filtering -----------------------------
(* SelectSeq without its recursion, so that the provers see its length.      *)
EXTENDS Naturals, FiniteSets, Sequences

\* The elements of s at the given positions, in their order.
Picked(s, positions) ==
  LET Nth(k) == CHOOSE i \in positions : Cardinality({j \in positions : j < i}) = k - 1
  IN  [k \in 1 .. Cardinality(positions) |-> s[Nth(k)]]
=============================================================================
