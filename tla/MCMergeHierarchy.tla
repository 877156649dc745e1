-------------------------- MODULE MCMergeHierarchy --------------------------
(***************************************************************************)
(* Instances of MergeHierarchy for TLC: every way to give the borders      *)
(* between leaves one strength each, or no border, that connects them; and *)
(* borders of two strengths, and with one leaf on both sides.              *)
(***************************************************************************)
EXTENDS MergeHierarchy

Borders == {P \in SUBSET Leaves : Cardinality(P) = 2}
Graph(f) == {[sides |-> P, th |-> f[P]] : P \in {Q \in DOMAIN f : f[Q] > 0}}
IsConnected(C) == \A S \in SUBSET Leaves : Closed(SidesUpTo(C, One), S) => S \in {{}, Leaves}

Odd == {[sides |-> {1}, th |-> 1], [sides |-> {3}, th |-> 2], [sides |-> {1, 2}, th |-> 1],
        [sides |-> {1, 2}, th |-> 2], [sides |-> {2, 3}, th |-> 2], [sides |-> {3, 4}, th |-> 1],
        [sides |-> {3, 4}, th |-> 2]}

MCMaps == {Odd} \cup {C \in {Graph(f) : f \in [Borders -> 0 .. One]} : IsConnected(C)}
=============================================================================
