------------------------------ MODULE Proposals ------------------------------
(***************************************************************************)
(* im2mcg.m from the hierarchies on: candidates of every hierarchy         *)
(* (mex_get_tree_cands), one fused hierarchy for all of them, holes        *)
(* filled, near duplicates removed, ranked by a trained regressor, ranked  *)
(* again so that candidates unlike the ones before come first              *)
(* (mex_max_margin.cpp), and returned as labels and as masks.              *)
(***************************************************************************)
EXTENDS TreeCandidates, FusedHierarchy, HoleFilling, RegionFeatures

CONSTANTS
  Inputs,              \* partitions, mergings and wanted numbers, per hierarchy
  J_th,                \* overlap from which two candidates count as one
  theta,               \* weight of the score against the overlap, a quotient
  Forests,             \* the regressors considered
  regRF_predict(_, _)  \* the score one of them gives to features, an integer

ASSUME ParameterAssumption ==
  /\ J_th \in Nat \X (Nat \ {0}) /\ J_th[1] <= J_th[2]
  /\ theta \in Nat \X (Nat \ {0}) /\ theta[1] <= theta[2]

\* One partition, hierarchy and list of numbers for each contour map.  Its leaves
\* are the labels of the partition (asserted in full_cands_from_hiers.m, lines
\* 25 and 26) and mex_ucm2hier gives every region but the last one parent.
ASSUME HierarchyAssumption ==
  \A inp \in Inputs :
    /\ inp.ms \in Seq(Seq([sons : SUBSET Nat, parent : Nat])) /\ inp.ms # <<>>
    /\ Len(inp.lps) = Len(inp.ms)
    /\ inp.n_cands \in Seq(Seq(Nat)) /\ Len(inp.n_cands) = Len(inp.ms)
    /\ \A ii \in DOMAIN inp.ms :
         /\ IsTree(inp.ms[ii])
         /\ inp.lps[ii] \in [Pixels -> 1 .. n_leaves(inp.ms[ii])]
         /\ Range(inp.lps[ii]) = 1 .. n_leaves(inp.ms[ii])
         /\ inp.n_cands[ii] # <<>>

VARIABLES
  input,       \* lps, ms and n_cands, as given
  full_cands,  \* the candidates of the hierarchies done so far
  pruned,      \* the pruned hierarchies, each with its lut
  f_lp, f_ms,  \* the fused hierarchy
  cands, cands_hf, cands_comp,   \* rows of labels in it
  b_feats,     \* the features of its regions
  red_cands,   \* the candidates left, in the order of their scores
  scores,
  remaining, sel_ids, max_J,     \* of mex_max_margin
  stage

fused == <<f_lp, f_ms, cands>>
filled == <<cands_hf, cands_comp>>
margin == <<remaining, sel_ids, max_J>>
proposal_vars == <<tree_vars, input, full_cands, pruned, fused, filled, b_feats, red_cands, scores, margin, stage>>

n_hiers == Len(input.ms)
hier == Len(full_cands) + 1    \* the hierarchy it is at

ProposalsInit ==
  /\ input \in Inputs
  /\ mer_seq = <<>> /\ num_cands = <<>> /\ tree = <<>> /\ coexistent = {}
  /\ cands_list = <<>> /\ curr_n_reg_max = 0 /\ left = 0
  /\ full_cands = <<>> /\ pruned = <<>> /\ f_lp = <<>> /\ f_ms = <<>>
  /\ cands = <<>> /\ cands_hf = <<>> /\ cands_comp = <<>>
  /\ b_feats = <<>> /\ red_cands = <<>> /\ scores = <<>>
  /\ remaining = {} /\ sel_ids = <<>> /\ max_J = <<>>
  /\ stage = "hierarchy"
-----------------------------------------------------------------------------
(* full_cands_from_hiers                                                   *)

StartHierarchy ==
  /\ stage = "hierarchy"
  /\ StartTree(input.ms[hier], neigh_pairs(input.lps[hier]), input.n_cands[hier])
  /\ stage' = "undo"
  /\ UNCHANGED <<input, full_cands, pruned, fused, filled, b_feats, red_cands, scores, margin>>

UndoLastMerging ==
  /\ stage = "undo" /\ UndoMerging
  /\ UNCHANGED <<input, full_cands, pruned, fused, filled, b_feats, red_cands, scores, margin, stage>>

\* The singletons are the last regions of the hierarchy; then the rest by size.
Singletons(n, num) == [i \in 1 .. Min({n, num}) |-> <<Max({n - num, 0}) + i>>]
Rows(list) == [i \in DOMAIN list |-> Ascending(list[i])]
StoreHierarchy ==
  /\ stage = "undo" /\ left = 0
  /\ full_cands' = Append(full_cands,
       Singletons(n_regs(mer_seq), num_cands[1])
         \o FlattenSeq([k \in 1 .. n_reg_cand - 1 |-> Rows(tree_cands[k + 1])]))
  /\ stage' = IF hier = n_hiers THEN "prune" ELSE "hierarchy"
  /\ UNCHANGED <<tree_vars, input, pruned, fused, filled, b_feats, red_cands, scores, margin>>

Needed(ii) == UNION {Range(full_cands[ii][x]) : x \in DOMAIN full_cands[ii]}
PruneHierarchy ==
  /\ stage = "prune"
  /\ LET ii == Len(pruned) + 1
         h == Prune(input.lps[ii], input.ms[ii], Needed(ii))
     IN IF h.ok
        THEN /\ pruned' = Append(pruned, h)
             /\ stage' = IF ii = n_hiers THEN "fuse" ELSE "prune"
        ELSE stage' = "error" /\ UNCHANGED pruned
  /\ UNCHANGED <<tree_vars, input, full_cands, fused, filled, b_feats, red_cands, scores, margin>>

\* The candidates must all be found in the new labels ("Oh oh"), and none lost:
\* whole sizes are compared, and [] has no columns when no hierarchy is left.
AllFound == \A ii \in 1 .. n_hiers : pruned[ii].ms # <<>> =>
              \A x \in DOMAIN full_cands[ii] : Found(pruned[ii], full_cands[ii][x])
Fuse ==
  /\ stage = "fuse"
  /\ LET parts == [ii \in 1 .. n_hiers |-> pruned[ii].lp]
         offset == OffsetOf(pruned, Len(inter_lut(parts)))
     IN IF /\ AllFound
           /\ \E ii \in 1 .. n_hiers : pruned[ii].ms # <<>>
           /\ Len(FlattenSeq(full_cands)) = Len(new_cands(pruned, offset, full_cands))
        THEN /\ f_lp' = int_part(parts)
             /\ f_ms' = fuse_bpts(pruned)
             /\ cands' = new_cands(pruned, offset, full_cands)
             /\ stage' = "fill"
        ELSE stage' = "error" /\ UNCHANGED fused
  /\ UNCHANGED <<tree_vars, input, full_cands, pruned, filled, b_feats, red_cands, scores, margin>>
-----------------------------------------------------------------------------
(* The rest of im2mcg.                                                     *)

FillHoles ==
  /\ stage = "fill"
  /\ LET out == mex_hole_filling(f_ms, f_lp, cands)
     IN /\ cands_hf' = [x \in DOMAIN out |-> out[x].hf]
        /\ cands_comp' = [x \in DOMAIN out |-> out[x].comp]
  /\ stage' = "features"
  /\ UNCHANGED <<tree_vars, input, full_cands, pruned, fused, b_feats, red_cands, scores, margin>>

ComputeFeatures ==
  /\ stage = "features"
  /\ b_feats' = [areas |-> areas(f_lp, f_ms), intersections |-> intersections(f_lp, f_ms),
                 bboxes |-> base_bboxes(f_lp, f_ms)]
  /\ stage' = "reduce"
  /\ UNCHANGED <<tree_vars, input, full_cands, pruned, fused, filled, red_cands, scores, margin>>

overlap(row1, row2) == Jaccard(b_feats.areas, b_feats.intersections, row1, row2)
features(row) ==
  [n_regs |-> Len(row), areas |-> RowArea(b_feats.areas, row),
   area_balance |-> AreaBalance(b_feats.areas, row), bboxes |-> RowBox(b_feats.bboxes, row)]

\* Sorted by score, equal ones in the order they had.
RankedBefore(score, i, j) == score[i] > score[j] \/ (score[i] = score[j] /\ i < j)
Ranking(score) ==
  [k \in DOMAIN score |->
     CHOOSE i \in DOMAIN score : Cardinality({j \in DOMAIN score : RankedBefore(score, j, i)}) = k - 1]
Reduce ==
  /\ stage = "reduce"
  /\ red_cands' = Reduced(b_feats.areas, b_feats.intersections, cands_hf, J_th)
  /\ stage' = "score"
  /\ UNCHANGED <<tree_vars, input, full_cands, pruned, fused, filled, b_feats, scores, margin>>

Score ==
  /\ stage = "score"
  /\ \E forest \in Forests :
       scores' = [i \in DOMAIN red_cands |-> regRF_predict(forest, features(red_cands[i]))]
  /\ stage' = "rank"
  /\ UNCHANGED <<tree_vars, input, full_cands, pruned, fused, filled, b_feats, red_cands, margin>>

Rank ==
  /\ stage = "rank"
  /\ LET ids == Ranking(scores)
     IN /\ red_cands' = [k \in DOMAIN ids |-> red_cands[ids[k]]]
        /\ scores' = [k \in DOMAIN ids |-> scores[ids[k]]]
        /\ remaining' = DOMAIN ids
        /\ max_J' = [k \in DOMAIN ids |-> Zero]
  /\ sel_ids' = <<>>
  /\ stage' = "select"
  /\ UNCHANGED <<tree_vars, input, full_cands, pruned, fused, filled, b_feats>>

\* The next one is the first of the greatest margin; then the others' overlap
\* with what is selected is brought up to date.
Margin(i) == <<theta[1] * scores[i] * max_J[i][2] - (theta[2] - theta[1]) * max_J[i][1], max_J[i][2]>>
NextToAdd ==
  CHOOSE i \in remaining : \A j \in remaining :
    Below(Margin(j), Margin(i)) \/ (AtMost(Margin(j), Margin(i)) /\ i <= j)
LastOverlap(old, new) == new   \* mutant: no maximum
GreaterOverlap(old, new) == IF Below(old, new) THEN new ELSE old
SelectNext ==
  /\ stage = "select" /\ remaining # {}
  /\ LET next_to_add == NextToAdd IN
     /\ remaining' = remaining \ {next_to_add}
     /\ sel_ids' = Append(sel_ids, next_to_add)
     /\ max_J' = [i \in DOMAIN max_J |->
          IF i \notin remaining' THEN max_J[i]
          ELSE GreaterOverlap(max_J[i], overlap(red_cands[next_to_add], red_cands[i]))]
  /\ UNCHANGED <<tree_vars, input, full_cands, pruned, fused, filled, b_feats, red_cands, scores, stage>>

Return ==
  /\ stage = "select" /\ remaining = {}
  /\ stage' = "done"
  /\ UNCHANGED <<tree_vars, input, full_cands, pruned, fused, filled, b_feats, red_cands, scores, margin>>

\* cands2labels and cands2masks, of the rows returned.
labels(row) == UNION {leaves(f_ms)[row[y]] : y \in DOMAIN row}
coordsShort ==   \* mutant
  FoldLeft(LAMBDA c, i : [c EXCEPT ![n_leaves(f_ms) + i - 1] = UNION {c[s] : s \in f_ms[i].sons}],
           [r \in 1 .. n_regs(f_ms) |-> {p \in Pixels : f_lp[p] = r}],
           [i \in DOMAIN f_ms |-> i])
coords ==   \* of the jj-th merging at place n_leaves + jj, whatever its parent
  FoldLeft(LAMBDA c, i : [c EXCEPT ![n_leaves(f_ms) + i] = UNION {c[s] : s \in f_ms[i].sons}],
           [r \in 1 .. n_regs(f_ms) |-> {p \in Pixels : f_lp[p] = r}],
           [i \in DOMAIN f_ms |-> i])
masks(row) == UNION {coords[row[y]] : y \in DOMAIN row}

ProposalsNext ==
  \/ StartHierarchy \/ UndoLastMerging \/ StoreHierarchy \/ PruneHierarchy \/ Fuse
  \/ FillHoles \/ ComputeFeatures \/ Reduce \/ Score \/ Rank \/ SelectNext \/ Return

ProposalsSpec == ProposalsInit /\ [][ProposalsNext]_proposal_vars
-----------------------------------------------------------------------------
(* Properties.                                                             *)

FusedPixels(row) ==
  LET L == UNION {leaves(f_ms)[r] : r \in Range(row)} IN {p \in Pixels : f_lp[p] \in L}
Drawn(rows) == {[id |-> k, pixels |-> FusedPixels(rows[k])] : k \in DOMAIN rows}
Overlap(c, d) ==
  <<Cardinality(c.pixels \cap d.pixels), Cardinality(c.pixels \cup d.pixels)>>

\* "ERROR 2" and "Oh oh" are never reached, and the assertion that no candidate
\* was lost only fails when a hierarchy is asked for so few candidates that it
\* needs nothing but its root, for then it has no mergings left and is skipped,
\* or when no hierarchy is asked for any.
StopsOnlyOnBareRoot ==
  stage \in {"error", "fill"} =>
    (stage = "error" <=> \/ \E ii \in 1 .. n_hiers : Needed(ii) = {n_regs(input.ms[ii])}
                         \/ \A ii \in 1 .. n_hiers : Needed(ii) = {})

\* Every candidate is the same part of the image before and after its
\* hierarchy is pruned, relabelled, intersected with the others and shifted.
\* Four tables of labels are composed, each counted from another start.
OriginalPixels ==
  FlattenSeq([ii \in 1 .. n_hiers |->
    [x \in DOMAIN full_cands[ii] |->
       UNION {PixelsOf(input.lps[ii], input.ms[ii], r) : r \in Range(full_cands[ii][x])}]])
CandidatesKeepPixels ==
  stage = "fill" => [x \in DOMAIN cands |-> FusedPixels(cands[x])] = OriginalPixels

\* Filling adds to a candidate the pixels that it shuts in, and its complement
\* is what is left (or the image, when nothing is): although the code never
\* looks at pixels and groups the regions of one partition of the tree.
Outside(P) ==   \* reached from the border without crossing P
  FoldLeft(LAMBDA R, n : R \cup {pq[2] : pq \in {x \in AdjacentPixels : x[1] \in R /\ x[2] \notin P}},
           BorderPixels \ P, Scan)
HolesFilled ==
  stage = "features" =>
    \A x \in DOMAIN cands :
      LET out == Outside(FusedPixels(cands[x])) IN
      /\ FusedPixels(cands_hf[x]) = Pixels \ out
      /\ FusedPixels(cands_comp[x]) = IF out = {} THEN Pixels ELSE out

\* Removing duplicates leaves, for every candidate, one that overlaps it by the
\* threshold or more, and no two that do: as sets of pixels, though the code
\* adds up intersections of regions, some of different hierarchies.
DuplicatesRemoved ==
  stage = "score" =>
    /\ \A c \in Drawn(cands_hf) : \E d \in Drawn(red_cands) : AtMost(J_th, Overlap(c, d))
    /\ \A c, d \in Drawn(red_cands) : c.id # d.id => Below(Overlap(c, d), J_th)

\* The overlap of a candidate that is kept up to date, one selection at a
\* time, is its greatest overlap with those selected.
MarginsUpToDate ==
  stage = "select" =>
    LET pool == Drawn(red_cands)
        selected == {c \in pool : c.id \notin remaining}
    IN \A c \in pool \ selected :
         /\ \A d \in selected : AtMost(Overlap(c, d), max_J[c.id])
         /\ max_J[c.id] = Zero \/ \E d \in selected : AtMost(max_J[c.id], Overlap(c, d))

\* What is returned fits together: every candidate once, its mask made of the
\* superpixels its labels name, inside the box and with the area that its
\* features were computed from.
ResultsFitTogether ==
  stage = "done" =>
    /\ Range(sel_ids) = DOMAIN red_cands /\ IsInjective(sel_ids)
    /\ \A k \in DOMAIN red_cands :
         LET mask == masks(red_cands[k]) IN
         /\ mask = {p \in Pixels : f_lp[p] \in labels(red_cands[k])}
         /\ features(red_cands[k]).bboxes = BoxOf(mask)
         /\ features(red_cands[k]).areas = Cardinality(mask)

\* Violated: "Perimeters" (compute_base_features.m:75, mex_fast_features.cpp:86)
\* of a candidate is not the length of its contour.
ContourLength(P) ==
  Cardinality({pq \in AdjacentPixels : pq[1] \in P /\ pq[2] \notin P})
    + MapThenSumSet(SidesOnBorder, P \cap BorderPixels)
PerimetersAreContours ==
  stage = "done" =>
    LET common == common_perimeters(f_lp, f_ms)
        perims == perimeters(f_lp, f_ms)
    IN \A k \in DOMAIN red_cands :
         RowPerimeter(perims, common, red_cands[k]) = ContourLength(masks(red_cands[k]))
=============================================================================
