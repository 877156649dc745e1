------------------------------ MODULE Positions ------------------------------
(***************************************************************************)
(* Lists by position: numbers in ascending order, as sort and unique of    *)
(* MATLAB give them, and indexing by a list of positions.                  *)
(***************************************************************************)
EXTENDS Integers, Sequences, FiniteSets

\* The elements of S in increasing order (unique sorts).
Ascending(S) ==
  [k \in 1 .. Cardinality(S) |->
     CHOOSE x \in S : Cardinality({y \in S : y < x}) = k - 1]
\* s(is).
At(s, is) == [k \in DOMAIN is |-> s[is[k]]]
\* The positions in s of the elements of S, as loops over k collect them.
PositionsIn(s, S) == Ascending({k \in DOMAIN s : s[k] \in S})
==============================================================================
