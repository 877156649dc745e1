----------------------------- MODULE RegionTrees -----------------------------
(***************************************************************************)
(* Hierarchies of regions as MCG passes them around: a partition of the    *)
(* image into leaves 1 .. n and a sequence of mergings, each with its sons *)
(* and its parent, the parents numbered n + 1, n + 2, ... in order.  What  *)
(* mex_get_tree_cands, mex_hole_filling, mex_fast_intersections and        *)
(* mex_cands2labels compute from them before their own work starts.        *)
(*                                                                         *)
(* The mex functions that count from zero are called with all labels less  *)
(* one and add one to what they return; here all labels count from one.    *)
(***************************************************************************)
EXTENDS Positions, SequencesExt

CONSTANTS Sx, Sy       \* the size of the image

ASSUME SizeAssumption == Sx \in Nat /\ Sy \in Nat

Pixels == (1 .. Sx) \X (1 .. Sy)
AdjacentPixels ==
  {pq \in Pixels \X Pixels :
     \/ pq[1][1] = pq[2][1] /\ pq[1][2] - pq[2][2] \in {-1, 1}
     \/ pq[1][2] = pq[2][2] /\ pq[1][1] - pq[2][1] \in {-1, 1}}
BorderPixels == {p \in Pixels : p[1] \in {1, Sx} \/ p[2] \in {1, Sy}}

\* seg2gridbmap: the pairs of labels on the two sides of a contour, and with
\* the border of the image, which counts as label 0.
neigh_pairs(lp) ==
  {{lp[pq[1]], lp[pq[2]]} : pq \in {x \in AdjacentPixels : lp[x[1]] # lp[x[2]]}}
border_pairs(lp) == {{0, lp[p]} : p \in BorderPixels}

n_leaves(ms) == ms[1].parent - 1
n_regs(ms) == n_leaves(ms) + Len(ms)

\* Not in the code: what makes a sequence of mergings a hierarchy, and what
\* makes it a tree, in which every region but the last is merged once.
IsHierarchy(ms) ==
  /\ ms \in Seq([sons : SUBSET Nat, parent : Nat]) /\ ms # <<>>
  /\ n_leaves(ms) \in Nat \ {0}
  /\ \A i \in DOMAIN ms :
       /\ ms[i].parent = n_leaves(ms) + i
       /\ ms[i].sons # {} /\ ms[i].sons \subseteq 1 .. n_leaves(ms) + i - 1
IsTree(ms) ==
  /\ IsHierarchy(ms)
  /\ \A i, j \in DOMAIN ms : i # j => ms[i].sons \cap ms[j].sons = {}
  /\ \A r \in 1 .. n_regs(ms) - 1 : \E i \in DOMAIN ms : r \in ms[i].sons

\* The regions a region is made of, itself included.
descendants(ms) ==
  FoldLeft(LAMBDA d, m : [d EXCEPT ![m.parent] = {m.parent} \cup UNION {d[s] : s \in m.sons}],
           [r \in 1 .. n_regs(ms) |-> {r}], ms)

\* The neighbours of a region on every level: a parent has those of its sons
\* that are not among its descendants, and is a neighbour of theirs.
MergedNeighbors(pairs, m, below) ==
  {rs[2] : rs \in {x \in pairs : x[1] \in m.sons}} \ below
neighbors(ms, pairs) ==
  LET D == descendants(ms)
      base == {rs \in (0 .. n_leaves(ms)) \X (0 .. n_leaves(ms)) : rs[1] # rs[2] /\ {rs[1], rs[2]} \in pairs}
      all == FoldLeft(LAMBDA nb, m :
                        nb \cup UNION {{<<m.parent, s>>, <<s, m.parent>>} :
                                         s \in MergedNeighbors(nb, m, D[m.parent])},
                      base, ms)
  IN [r \in 0 .. n_regs(ms) |-> {rs[2] : rs \in {x \in all : x[1] = r}}]

siblings(ms) ==
  FoldLeft(LAMBDA f, m : [r \in DOMAIN f |-> IF r \in m.sons THEN m.sons \ {r} ELSE f[r]],
           [r \in 1 .. n_regs(ms) |-> {}], ms)

\* From the last merging to the first.
ascendants(ms) ==
  FoldLeft(LAMBDA a, m : [r \in DOMAIN a |-> IF r \in m.sons THEN a[r] \cup {m.parent} \cup a[m.parent]
                                             ELSE a[r]],
           [r \in 1 .. n_regs(ms) |-> {}], Reverse(ms))

\* The leaves a region is made of.
leaves(ms) ==
  FoldLeft(LAMBDA l, m : [l EXCEPT ![m.parent] = UNION {l[s] : s \in m.sons}],
           [r \in 1 .. n_regs(ms) |-> IF r <= n_leaves(ms) THEN {r} ELSE {}], ms)

\* Not in the code: the pixels of a region.
PixelsOf(lp, ms, r) == {p \in Pixels : lp[p] \in leaves(ms)[r]}
=============================================================================
