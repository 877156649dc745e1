--------------------------- MODULE MCRegionMerging ---------------------------
(***************************************************************************)
(* Three initial partitions of an image of 3 x 2 pixels, with six, four    *)
(* and four regions, the last two with a region of more than one pixel.    *)
(***************************************************************************)
EXTENDS RegionMerging

Rows(a, b) == [p \in Pixels |-> IF p[2] = 0 THEN a[p[1] + 1] ELSE b[p[1] + 1]]
MCPartitions == {Rows(<<0, 1, 2>>, <<3, 4, 5>>), Rows(<<2, 0, 3>>, <<2, 1, 1>>), Rows(<<0, 1, 1>>, <<2, 2, 3>>)}

\* mex_prune_ucm_nregs on the map: clearing it up to the threshold leaves at
\* most the number of regions asked for, and any lower strength would leave
\* more.  A region is a set of pixels that some threshold leaves together; the
\* code counts them from differences between numbers of leaves.
Pruning == INSTANCE UcmPruning
Joined(s) == {pq \in AdjacentPixels : AtMost(ucm[Site(pq[1], pq[2])], s)}
Piece(p, s) ==
  Pruning!FoldLeft(LAMBDA R, n : R \cup {pq[2] : pq \in {x \in Joined(s) : x[1] \in R}},
                   {p}, [n \in 1 .. Tx * Ty |-> n])
Levels == {ucm[Site(pq[1], pq[2])] : pq \in AdjacentPixels} \cup {Zero}
RegionsAbove(s) == Cardinality({Piece(p, t) : p \in Pixels, t \in {t \in Levels : AtMost(s, t)}})
PrunedToFit ==
  pc = "done" /\ (\A pq \in AdjacentPixels : ucm[Site(pq[1], pq[2])] = Zero =>
                    initial_partition[pq[1]] = initial_partition[pq[2]]) =>
    \A nreg_max \in 1 .. 2 * Cardinality(Regions) :
      LET th == Pruning!ucm_th([p \in Pixels |-> initial_partition[p] + 1], ucm, nreg_max)
      IN /\ RegionsAbove(th) <= nreg_max
         /\ \A s \in Levels : Below(s, th) => RegionsAbove(s) > nreg_max
=============================================================================
