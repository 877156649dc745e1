--------------------------- MODULE FusedHierarchy ---------------------------
(***************************************************************************)
(* full_cands_from_hiers.m after the candidates of every hierarchy are     *)
(* found: each hierarchy is pruned to the regions its candidates need      *)
(* (mex_prune_tree_to_regions.cpp), the partitions that are left are       *)
(* intersected (mex_intersect_hierarchies.cpp), the hierarchies are stacked *)
(* on the intersection (fuse_bpts.m) and the candidates renumbered.        *)
(***************************************************************************)
EXTENDS RegionTrees

\* The loops over rows and columns, and the values they meet, in order.
Scan == [k \in 1 .. Sx * Sy |-> <<1 + ((k - 1) \div Sy), 1 + ((k - 1) % Sy)>>]
FirstSeen(f) == FoldLeft(LAMBDA l, p : IF Contains(l, f[p]) THEN l ELSE Append(l, f[p]), <<>>, Scan)
Position(list, v) == CHOOSE k \in DOMAIN list : list[k] = v
-----------------------------------------------------------------------------
(* mex_prune_tree_to_regions.cpp                                           *)

\* A merging of a needed region is kept, and then its parent is needed; any
\* other merging is done, and its parent becomes a leaf instead of its sons.
KeepOnly(needed_regions, ms) ==   \* mutant: the parent is not needed in turn
  FoldLeft(LAMBDA a, m :
             IF m.sons \cap a.needed # {}
             THEN [a EXCEPT !.mergs_to_keep = Append(@, m)]
             ELSE [a EXCEPT !.leaves_to_keep = (@ \cup {m.parent}) \ m.sons],
           [needed |-> needed_regions, mergs_to_keep |-> <<>>, leaves_to_keep |-> {}], ms)
KeepOrMerge(needed_regions, ms) ==
  FoldLeft(LAMBDA a, m :
             IF m.sons \cap a.needed # {}
             THEN [a EXCEPT !.needed = @ \cup {m.parent}, !.mergs_to_keep = Append(@, m)]
             ELSE [a EXCEPT !.leaves_to_keep = (@ \cup {m.parent}) \ m.sons],
           [needed |-> needed_regions, mergs_to_keep |-> <<>>, leaves_to_keep |-> {}], ms)

MergedPart(lp, ms, leaves_to_keep) ==
  LET D == descendants(ms)
      over(l) == {r \in leaves_to_keep : l \in D[r]}
  IN [p \in Pixels |-> IF over(lp[p]) = {} THEN lp[p] ELSE CHOOSE r \in over(lp[p]) : TRUE]

\* The pruned hierarchy: the leaves are numbered as they are first seen and
\* then the parents, so lut[r] is the old label of the region that is now r.
\* ok is false where the program says "ERROR 2".
Prune(lp, ms, needed_regions) ==
  LET kept == KeepOrMerge(needed_regions, ms)
      curr_ms == kept.mergs_to_keep
      curr_part == MergedPart(lp, ms, kept.leaves_to_keep)
      lut == FirstSeen(curr_part) \o [i \in DOMAIN curr_ms |-> curr_ms[i].parent]
  IN [ok |-> \A i \in DOMAIN curr_ms : curr_ms[i].sons \subseteq Range(lut),
      lp |-> [p \in Pixels |-> Position(lut, curr_part[p])],
      ms |-> [i \in DOMAIN curr_ms |->
                [sons |-> {Position(lut, s) : s \in curr_ms[i].sons \cap Range(lut)},
                 parent |-> Position(lut, curr_ms[i].parent)]],
      lut |-> lut]
-----------------------------------------------------------------------------
(* mex_intersect_hierarchies.cpp, called without mergings.                 *)

Ids(parts) == [p \in Pixels |-> [ii \in DOMAIN parts |-> parts[ii][p]]]
inter_lut(parts) == FirstSeen(Ids(parts))
int_part(parts) == LET lut == inter_lut(parts) IN [p \in Pixels |-> Position(lut, Ids(parts)[p])]
-----------------------------------------------------------------------------
(* fuse_bpts.m: for every hierarchy that has mergings left, mergings of    *)
(* the intersection into its leaves and then its own mergings, shifted.    *)

n_pruned(h) == n_regs(h.ms)
OffsetByMergings(hiers, base) ==   \* mutant
  [ii \in DOMAIN hiers |-> FoldLeft(LAMBDA n, h : n + Len(h.ms), base, SubSeq(hiers, 1, ii - 1))]
OffsetOf(hiers, base) ==   \* the last label before those of a hierarchy
  [ii \in DOMAIN hiers |->
     FoldLeft(LAMBDA n, h : IF h.ms = <<>> THEN n ELSE n + n_pruned(h), base, SubSeq(hiers, 1, ii - 1))]

ArtificialMergings(lut, ii, n, offset) ==
  [jj \in 1 .. n |-> [sons |-> {k \in DOMAIN lut : lut[k][ii] = jj}, parent |-> jj + offset]]
ShiftedMergings(ms, offset) ==
  [jj \in DOMAIN ms |-> [sons |-> {s + offset : s \in ms[jj].sons},
                         parent |-> ms[jj].parent + offset]]
fuse_bpts(hiers) ==
  LET lut == inter_lut([ii \in DOMAIN hiers |-> hiers[ii].lp])
      offset == OffsetOf(hiers, Len(lut))
      Stacked(ii) ==
        IF hiers[ii].ms = <<>> THEN <<>>
        ELSE ArtificialMergings(lut, ii, n_leaves(hiers[ii].ms), offset[ii])
               \o ShiftedMergings(hiers[ii].ms, offset[ii])
  IN FlattenSeq([ii \in DOMAIN hiers |-> Stacked(ii)])
-----------------------------------------------------------------------------
(* "Redo cands (relabel)". A candidate is a row of labels.                 *)

\* Hierarchies without mergings are skipped, and their candidates with them.
Found(h, row) == \A y \in DOMAIN row : Cardinality({k \in DOMAIN h.lut : h.lut[k] = row[y]}) = 1
Relabelled(h, offset, rows) ==
  [x \in DOMAIN rows |-> [y \in DOMAIN rows[x] |-> offset + Position(h.lut, rows[x][y])]]
new_cands(hiers, offset, full_cands) ==
  FlattenSeq([ii \in DOMAIN hiers |->
                IF hiers[ii].ms = <<>> THEN <<>>
                ELSE Relabelled(hiers[ii], offset[ii], full_cands[ii])])
=============================================================================
