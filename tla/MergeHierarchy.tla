--------------------------- MODULE MergeHierarchy ---------------------------
(***************************************************************************)
(* mex_ucm2hier.cpp: the contours of an ultrametric contour map (UCM) are  *)
(* turned into a hierarchy of regions.  Two passes: the contours are       *)
(* scanned and the leaves they separate are grouped by contour strength;   *)
(* then, strength by strength, the regions the groups touch are merged and *)
(* get a parent.                                                           *)
(*                                                                         *)
(* A contour is abstracted to the set of leaves on its two sides (one leaf *)
(* for a contour with the same region on both sides) and its strength, a   *)
(* number between 1 and One, which stands for the value 1.0.  A list of    *)
(* label sets is a set of them: the place of a set in its list decides     *)
(* only which of the parents made at one strength gets the lower label.    *)
(***************************************************************************)
EXTENDS Integers, Sequences, FiniteSets

CONSTANTS NLeaves,      \* n_leaves, the largest label of lp
          One,          \* the largest strength
          Maps          \* the sets of contours an image may have

Leaves == 1 .. NLeaves
Strengths == 1 .. One
Contours == [sides : SUBSET Leaves, th : Strengths]

\* S has all of a set of M or nothing of it.
Closed(M, S) == \A P \in M : P \cap S # {} => P \subseteq S
SidesUpTo(C, t) == {c.sides : c \in {d \in C : d.th <= t}}

\* ucm2hier.m (lines 39-49) makes the leaves the parts of the image no contour
\* of positive strength crosses, so neighbouring leaves have a contour between
\* them, and the leaves of an image are connected by its contours.
ASSUME InputAssumption ==
  /\ NLeaves \in Nat \ {0} /\ One \in Nat \ {0}
  /\ Maps \subseteq SUBSET Contours
  /\ \A C \in Maps :
       /\ \A c \in C : c.sides # {}
       /\ \A S \in SUBSET Leaves : Closed(SidesUpTo(C, One), S) => S \in {{}, Leaves}

VARIABLES
  ucm2,                  \* the contours of the image
  toScan,                \* the contours the scan has not come to
  ucm_th_leaves_pairs,   \* strength |-> sets of leaves; {} where the map has no key
  it,                    \* the strength being merged, 0 before the first
  leaves_to_merge,       \* the leaf sets of it not yet turned into regions
  regs_to_merge,         \* sets of regions to be given a parent
  curr_max,              \* the last label given
  lut,                   \* label |-> the region that holds it now
  ilut,                  \* region |-> its leaves; {} once it has a parent
  parent_labels, children_labels,   \* the merging sequence
  start_ths,             \* region |-> the strength at which it appears
  end_ths,               \* output: the strength at which it disappears
  pc

vars == <<ucm2, toScan, ucm_th_leaves_pairs, it, leaves_to_merge, regs_to_merge,
          curr_max, lut, ilut, parent_labels, children_labels, start_ths, end_ths, pc>>
scanVars == <<ucm2, toScan, ucm_th_leaves_pairs>>
treeVars == <<curr_max, lut, ilut, parent_labels, children_labels, start_ths>>
-----------------------------------------------------------------------------
\* insert_labels_to_merge for the labels of T: the sets that hold one of them
\* are joined, with T, into one.  With T = {lab1, lab2} this is a new set when
\* neither is found, the set of one with the other added when one is found, and
\* the union when both are.
Touched(T, M) == {P \in M : P \cap T # {}}
InsertLabels(T, M) == (M \ Touched(T, M)) \cup {(UNION Touched(T, M)) \cup T}

\* The regions that hold the leaves of P.
PositionsOf(P) == {lut[l] - 1 : l \in P}   \* mutant: labels counted from zero
LeavesThemselves(P) == P                  \* mutant: the table is not consulted
RegionsOf(P) == {lut[l] : l \in P}

Init ==
  /\ ucm2 \in Maps /\ toScan = ucm2
  /\ ucm_th_leaves_pairs = [t \in Strengths |-> {}]
  /\ it = 0 /\ leaves_to_merge = {} /\ regs_to_merge = {}
  /\ curr_max = NLeaves
  /\ lut = [l \in Leaves |-> l] /\ ilut = [l \in Leaves |-> {l}]
  /\ parent_labels = <<>> /\ children_labels = <<>>
  /\ start_ths = [l \in Leaves |-> 0]
  /\ end_ths = <<>>
  /\ pc = "scan"

\* One contour of the two scans over ucm2.
ScanContour ==
  /\ pc = "scan"
  /\ \E c \in toScan :
       /\ toScan' = toScan \ {c}
       /\ ucm_th_leaves_pairs' = [ucm_th_leaves_pairs EXCEPT ![c.th] = InsertLabels(c.sides, @)]
  /\ UNCHANGED <<ucm2, it, leaves_to_merge, regs_to_merge, treeVars, end_ths, pc>>

EndOfScan ==
  /\ pc = "scan" /\ toScan = {}
  /\ pc' = "next"
  /\ UNCHANGED <<scanVars, it, leaves_to_merge, regs_to_merge, treeVars, end_ths>>

\* The strengths still to come, which the map gives in increasing order.
NotBefore == {t \in Strengths : t >= it /\ ucm_th_leaves_pairs[t] # {}}   \* mutant
Later == {t \in Strengths : t > it /\ ucm_th_leaves_pairs[t] # {}}

FromTheGreatest ==   \* mutant: the strengths in decreasing order
  /\ pc = "next"
  /\ it' \in Later /\ \A t \in Later : it' >= t
  /\ leaves_to_merge' = ucm_th_leaves_pairs[it']
  /\ regs_to_merge' = {}
  /\ pc' = "gather"
  /\ UNCHANGED <<scanVars, treeVars, end_ths>>
NextStrength ==
  /\ pc = "next"
  /\ it' \in Later /\ \A t \in Later : it' <= t
  /\ leaves_to_merge' = ucm_th_leaves_pairs[it']
  /\ regs_to_merge' = {}
  /\ pc' = "gather"
  /\ UNCHANGED <<scanVars, treeVars, end_ths>>

\* One set of leaves: the regions of its first leaf and of every other are put
\* together.  A set of one leaf has no other.
GatherRegions ==
  /\ pc = "gather"
  /\ \E P \in leaves_to_merge :
       /\ leaves_to_merge' = leaves_to_merge \ {P}
       /\ regs_to_merge' = IF Cardinality(P) = 1 THEN regs_to_merge
                           ELSE InsertLabels(RegionsOf(P), regs_to_merge)
  /\ UNCHANGED <<scanVars, it, treeVars, end_ths, pc>>

EndOfGather ==
  /\ pc = "gather" /\ leaves_to_merge = {}
  /\ pc' = "merge"
  /\ UNCHANGED <<scanVars, it, leaves_to_merge, regs_to_merge, treeVars, end_ths>>

\* to_update: the members of R, and what the table has for them.
ToUpdate(R) == R \cup {lut[r] : r \in R}
LeavesOf(R) == UNION {ilut[r] : r \in ToUpdate(R)}

\* One set of regions gets a parent, which takes over all their leaves.
MergeRegions ==
  /\ pc = "merge"
  /\ \E R \in regs_to_merge :
       LET new == curr_max + 1 IN
       /\ regs_to_merge' = regs_to_merge \ {R}
       /\ curr_max' = new
       /\ lut' = [l \in 1 .. new |-> IF l = new \/ l \in LeavesOf(R) THEN new ELSE lut[l]]
       /\ ilut' = [r \in 1 .. new |-> IF r = new THEN LeavesOf(R)
                                      ELSE IF r \in ToUpdate(R) THEN {} ELSE ilut[r]]
       /\ children_labels' = Append(children_labels, R)
       /\ parent_labels' = Append(parent_labels, new)
       /\ start_ths' = Append(start_ths, it)
  /\ UNCHANGED <<scanVars, it, leaves_to_merge, end_ths, pc>>

EndOfStrength ==
  /\ pc = "merge" /\ regs_to_merge = {}
  /\ pc' = "next"
  /\ UNCHANGED <<scanVars, it, leaves_to_merge, regs_to_merge, treeVars, end_ths>>

\* The parents of r in the merging sequence; the last one written counts.
MergingsOf(r) == {n \in DOMAIN children_labels : r \in children_labels[n]}   \* mutant
ParentsOf(r) == {parent_labels[k] : k \in {n \in DOMAIN children_labels : r \in children_labels[n]}}
LastParent(r) == CHOOSE p \in ParentsOf(r) : \A q \in ParentsOf(r) : q <= p

\* The outputs, unless the number of regions does not check ("Oh oh").  A new
\* matrix is all zeros.
Output ==
  /\ pc = "next" /\ Later = {}
  /\ IF curr_max = Len(start_ths)
     THEN /\ end_ths' = [r \in 1 .. curr_max |->
                           IF r = curr_max THEN One
                           ELSE IF ParentsOf(r) = {} THEN 0 ELSE start_ths[LastParent(r)]]
          /\ pc' = "done"
     ELSE pc' = "error" /\ UNCHANGED end_ths
  /\ UNCHANGED <<scanVars, it, leaves_to_merge, regs_to_merge, treeVars>>

Next == \/ ScanContour \/ EndOfScan \/ NextStrength \/ GatherRegions \/ EndOfGather
        \/ MergeRegions \/ EndOfStrength \/ Output

Spec == Init /\ [][Next]_vars
-----------------------------------------------------------------------------
Regions == 1 .. curr_max

\* The tables have an entry per label given so far, and labels stay in range.
TypeOK ==
  /\ ucm2 \subseteq Contours /\ toScan \subseteq ucm2
  /\ ucm_th_leaves_pairs \in [Strengths -> SUBSET (SUBSET Leaves)]
  /\ it \in 0 .. One
  /\ leaves_to_merge \subseteq SUBSET Leaves
  /\ regs_to_merge \subseteq SUBSET Regions
  /\ curr_max \in Nat /\ curr_max >= NLeaves
  /\ lut \in [Regions -> Regions]
  /\ ilut \in [Regions -> SUBSET Leaves]
  /\ parent_labels \in Seq(Nat) /\ children_labels \in Seq(SUBSET Nat)
  /\ start_ths \in Seq(0 .. One)
  /\ pc \in {"scan", "next", "gather", "merge", "done", "error"}

\* The two tables tell the same: the leaves listed for a region are those the
\* table sends to it, so every leaf is in exactly one region, and a region
\* that waits for a parent is the region of its leaves (lines 201-224).
TablesAgree ==
  /\ \A r \in Regions : ilut[r] = {l \in Leaves : lut[l] = r}
  /\ \A r \in Regions : ilut[r] # {} \/ r > NLeaves => lut[r] = r
  /\ \A R \in regs_to_merge : R # {} /\ \A r \in R : ilut[r] # {}

\* The sets waiting to be merged have no label in common, neither the leaf sets
\* of a strength nor the region sets made of them (lines 42-69).
MergesDisjoint ==
  /\ \A t \in Strengths : \A P, Q \in ucm_th_leaves_pairs[t] : P # Q => P \cap Q = {}
  /\ \A P, Q \in regs_to_merge : P # Q => P \cap Q = {}

\* The merging sequence is a forest in which strengths grow towards the roots:
\* no region has two parents, the regions with a parent are those without
\* leaves of their own, and a parent starts at a greater strength than each of
\* its children (lines 226-235).
ForestGrows ==
  /\ Len(parent_labels) = Len(children_labels)
  /\ Len(start_ths) = curr_max
  /\ \A m \in DOMAIN children_labels :
       /\ parent_labels[m] = NLeaves + m
       /\ \A r \in children_labels[m] :
            /\ r \in 1 .. parent_labels[m] - 1
            /\ start_ths[r] < start_ths[parent_labels[m]]
            /\ ilut[r] = {}
            /\ \A n \in DOMAIN children_labels : r \in children_labels[n] => n = m

\* Between strengths two leaves are in the same region exactly if contours no
\* stronger than the last one merged connect them: every region is closed under
\* these contours, and it is not larger than need be (lines 184-237).
RegionsAreComponents ==
  pc = "next" =>
    /\ \A r \in Regions : Closed(SidesUpTo(ucm2, it), ilut[r])
    /\ \A S \in SUBSET Leaves :
         Closed(SidesUpTo(ucm2, it), S) => Closed({ilut[r] : r \in Regions}, S)

\* When the function returns, the last region is the root, it holds the whole
\* image, and every other region disappears at a greater strength than the one
\* it appeared at; the check of line 241 never fails.
LifeSpans ==
  /\ pc # "error"
  /\ pc = "done" =>
       /\ ilut[curr_max] = Leaves
       /\ \A r \in 1 .. curr_max - 1 : ParentsOf(r) # {} /\ start_ths[r] < end_ths[r]
       /\ start_ths[curr_max] <= end_ths[curr_max]
=============================================================================
