---------------------------- MODULE GreedyMerging ----------------------------
(***************************************************************************)
(* What a merging of regions by mean contour strength promises: of all     *)
(* pairs of adjacent regions one with the least mean is joined, again and  *)
(* again, until no two regions are adjacent.  There is no queue and        *)
(* nothing is stored that could be out of date.                            *)
(***************************************************************************)
EXTENDS Quotients, FiniteSets

VARIABLES sides,      \* contour |-> the leaves on its sides
          strength,   \* contour |-> its strength
          regions,    \* sets of leaves
          level       \* the mean at which the last two were joined

vars == <<sides, strength, regions, level>>

Leaves == UNION {sides[e] : e \in DOMAIN sides}
Between(A, B) ==
  {e \in DOMAIN sides : sides[e] \cap A # {} /\ sides[e] \cap B # {}}
Strength(e) == strength[e]
MeanBetween(A, B) ==
  Quotient(MapThenSumSet(Strength, Between(A, B)), Cardinality(Between(A, B)))
AdjacentRegions == {P \in regions \X regions : P[1] # P[2] /\ Between(P[1], P[2]) # {}}

Init ==
  /\ regions = {{a} : a \in Leaves}
  /\ level = Zero

Join(P) ==
  /\ \A Q \in AdjacentRegions : AtMost(MeanBetween(P[1], P[2]), MeanBetween(Q[1], Q[2]))
  /\ regions' = (regions \ {P[1], P[2]}) \cup {P[1] \cup P[2]}
  /\ level' = MeanBetween(P[1], P[2])
  /\ UNCHANGED <<sides, strength>>

Next == \E P \in AdjacentRegions : Join(P)

Spec == Init /\ [][Next]_vars
=============================================================================
