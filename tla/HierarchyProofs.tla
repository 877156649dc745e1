-------------------------- MODULE HierarchyProofs --------------------------
(***************************************************************************)
(* Proofs about the hierarchies of MCG.  MergeHierarchy: the label tables  *)
(* agree and the merging sequence is a forest, and its regions are the     *)
(* components of the contours merged so far.  Proposals: what the tables   *)
(* of a tree hold and what the sweep down the tree has found at each step, *)
(* up to what the lists of candidates promise.                             *)
(***************************************************************************)
EXTENDS MergeHierarchy, Proposals, DataProofs

-----------------------------------------------------------------------------
(* MergeHierarchy.                                                         *)

\* A property of every set of M and of T that unions keep holds of every set
\* of InsertLabels(T, M): here, being a nonempty subset of U.
LEMMA InsertKeepsSubsets ==
  ASSUME NEW U, NEW T \in SUBSET U, NEW M \in SUBSET (SUBSET U)
  PROVE  InsertLabels(T, M) \in SUBSET (SUBSET U)
BY DEF InsertLabels, Touched

LEMMA InsertKeepsNonEmpty ==
  ASSUME NEW T, NEW M, T # {}, \A P \in M : P # {}
  PROVE  \A P \in InsertLabels(T, M) : P # {}
BY DEF InsertLabels, Touched

\* The sets of a list of disjoint sets stay disjoint.
LEMMA InsertKeepsDisjoint ==
  ASSUME NEW T, NEW M, \A P, Q \in M : P # Q => P \cap Q = {}
  PROVE  \A P, Q \in InsertLabels(T, M) : P # Q => P \cap Q = {}
<1> DEFINE J == (UNION Touched(T, M)) \cup T
<1>1. \A P \in M \ Touched(T, M) : P \cap J = {}
  <2> SUFFICES ASSUME NEW P \in M \ Touched(T, M), NEW x \in P, x \in J PROVE FALSE
    OBVIOUS
  <2>1. x \notin T
    BY DEF Touched
  <2>2. PICK Q \in Touched(T, M) : x \in Q
    BY <2>1
  <2>3. P # Q /\ Q \in M
    BY <2>2 DEF Touched
  <2> QED BY <2>2, <2>3
<1> QED BY <1>1 DEF InsertLabels

\* A set cuts no set of the new list exactly if it cuts none of the old one and
\* does not cut T.
LEMMA InsertClosed ==
  ASSUME NEW T, NEW M, NEW S
  PROVE  Closed(InsertLabels(T, M), S) <=> Closed(M, S) /\ (T \cap S # {} => T \subseteq S)
<1> DEFINE J == (UNION Touched(T, M)) \cup T
<1>1. J \in InsertLabels(T, M) /\ \A P \in Touched(T, M) : P \subseteq J /\ P \in M
  BY DEF InsertLabels, Touched
<1>2. ASSUME Closed(InsertLabels(T, M), S)
      PROVE  Closed(M, S) /\ (T \cap S # {} => T \subseteq S)
  <2>1. J \cap S # {} => J \subseteq S
    BY <1>1, <1>2 DEF Closed
  <2>2. \A P \in M \ Touched(T, M) : P \cap S # {} => P \subseteq S
    BY <1>2 DEF Closed, InsertLabels
  <2>3. \A P \in Touched(T, M) : P \cap S # {} => P \subseteq S
    BY <1>1, <2>1
  <2> QED BY <2>1, <2>2, <2>3 DEF Closed
<1>3. ASSUME Closed(M, S), T \cap S # {} => T \subseteq S
      PROVE  Closed(InsertLabels(T, M), S)
  <2>1. J \cap S # {} => T \cap S # {}
    <3> SUFFICES ASSUME NEW P \in Touched(T, M), P \cap S # {} PROVE T \cap S # {}
      OBVIOUS
    <3>1. P \subseteq S /\ P \cap T # {}
      BY <1>3 DEF Closed, Touched
    <3> QED BY <3>1
  <2>2. T \subseteq S => \A P \in Touched(T, M) : P \subseteq S
    BY <1>3 DEF Closed, Touched
  <2>3. J \cap S # {} => J \subseteq S
    BY <1>3, <2>1, <2>2
  <2> QED BY <1>3, <2>3 DEF Closed, InsertLabels
<1> QED BY <1>2, <1>3
-----------------------------------------------------------------------------
\* What TypeOK says of the tables, and what MergeRegions makes of it.
LEMMA ConstantTypes == NLeaves \in Nat /\ NLeaves >= 1 /\ One \in Nat /\ One >= 1
BY InputAssumption

LEMMA RegionsOfLeaves ==
  ASSUME TypeOK, NEW P \in SUBSET Leaves
  PROVE  RegionsOf(P) \in SUBSET Regions
<1>1. Leaves \subseteq Regions
  BY ConstantTypes DEF TypeOK, Leaves, Regions
<1> QED BY <1>1 DEF TypeOK, RegionsOf

\* Every variable keeps its type.
THEOREM TypeCorrect == Spec => []TypeOK
<1>1. Init => TypeOK
  <2> SUFFICES ASSUME Init PROVE TypeOK
    OBVIOUS
  <2>1. ucm2 \subseteq Contours /\ toScan \subseteq ucm2
    BY InputAssumption DEF Init
  <2>2. /\ ucm_th_leaves_pairs \in [Strengths -> SUBSET (SUBSET Leaves)]
        /\ it \in 0 .. One
    BY ConstantTypes DEF Init
  <2>3. curr_max = NLeaves /\ Regions = Leaves
    BY DEF Init, Regions, Leaves
  <2>4. lut \in [Regions -> Regions] /\ ilut \in [Regions -> SUBSET Leaves]
    BY <2>3 DEF Init
  <2>5. start_ths \in Seq(0 .. One)
    BY ConstantTypes DEF Init, Leaves
  <2> QED BY <2>1, <2>2, <2>3, <2>4, <2>5, ConstantTypes DEF Init, TypeOK
<1>2. ASSUME TypeOK, [Next]_vars PROVE TypeOK'
  <2>1. CASE ScanContour
    <3>1. PICK c \in toScan : /\ toScan' = toScan \ {c}
                              /\ ucm_th_leaves_pairs' =
                                   [ucm_th_leaves_pairs EXCEPT ![c.th] = InsertLabels(c.sides, @)]
      BY <2>1 DEF ScanContour
    <3>2. c.th \in Strengths /\ c.sides \in SUBSET Leaves
      BY <1>2 DEF TypeOK, Contours
    <3>3. InsertLabels(c.sides, ucm_th_leaves_pairs[c.th]) \in SUBSET (SUBSET Leaves)
      <4>1. ucm_th_leaves_pairs[c.th] \in SUBSET (SUBSET Leaves)
        BY <1>2, <3>2 DEF TypeOK
      <4> QED BY <3>2, <4>1, InsertKeepsSubsets
    <3>4. ucm_th_leaves_pairs' \in [Strengths -> SUBSET (SUBSET Leaves)]
      BY <1>2, <3>1, <3>2, <3>3 DEF TypeOK
    <3> QED BY <1>2, <2>1, <3>1, <3>4 DEF TypeOK, ScanContour, treeVars, Regions
  <2>2. CASE EndOfScan
    BY <1>2, <2>2 DEF TypeOK, EndOfScan, scanVars, treeVars, Regions
  <2>3. CASE NextStrength
    <3>1. it' \in Strengths
      BY <2>3 DEF NextStrength, Later
    <3>2. leaves_to_merge' \subseteq SUBSET Leaves /\ it' \in 0 .. One
      BY <1>2, <2>3, <3>1, ConstantTypes DEF NextStrength, TypeOK, Strengths
    <3> QED BY <1>2, <2>3, <3>2 DEF TypeOK, NextStrength, scanVars, treeVars, Regions
  <2>4. CASE GatherRegions
    <3>1. PICK P \in leaves_to_merge :
            /\ leaves_to_merge' = leaves_to_merge \ {P}
            /\ regs_to_merge' = IF Cardinality(P) = 1 THEN regs_to_merge
                                ELSE InsertLabels(RegionsOf(P), regs_to_merge)
      BY <2>4 DEF GatherRegions
    <3>2. InsertLabels(RegionsOf(P), regs_to_merge) \in SUBSET (SUBSET Regions)
      BY <1>2, RegionsOfLeaves, InsertKeepsSubsets DEF TypeOK
    <3>3. regs_to_merge' \subseteq SUBSET Regions
      BY <1>2, <3>1, <3>2 DEF TypeOK
    <3> QED BY <1>2, <2>4, <3>1, <3>3 DEF TypeOK, GatherRegions, scanVars, treeVars, Regions
  <2>5. CASE EndOfGather
    BY <1>2, <2>5 DEF TypeOK, EndOfGather, scanVars, treeVars, Regions
  <2>6. CASE MergeRegions
    <3> DEFINE new == curr_max + 1
    <3>1. PICK R \in regs_to_merge :
            /\ regs_to_merge' = regs_to_merge \ {R}
            /\ curr_max' = new
            /\ lut' = [l \in 1 .. new |-> IF l = new \/ l \in LeavesOf(R) THEN new ELSE lut[l]]
            /\ ilut' = [r \in 1 .. new |-> IF r = new THEN LeavesOf(R)
                                           ELSE IF r \in ToUpdate(R) THEN {} ELSE ilut[r]]
            /\ children_labels' = Append(children_labels, R)
            /\ parent_labels' = Append(parent_labels, new)
            /\ start_ths' = Append(start_ths, it)
      BY <2>6 DEF MergeRegions
    <3>2. R \subseteq Regions /\ curr_max \in Nat
      BY <1>2 DEF TypeOK
    <3>3. Regions' = 1 .. new /\ Regions \subseteq Regions' /\ new \in Regions'
      BY <3>1, <3>2, ConstantTypes, <1>2 DEF Regions, TypeOK
    <3>4. LeavesOf(R) \subseteq Leaves
      BY <1>2, <3>2 DEF TypeOK, LeavesOf, ToUpdate
    <3>5. lut' \in [Regions' -> Regions']
      <4>1. \A l \in 1 .. new : l # new => l \in Regions
        BY <3>2 DEF Regions
      <4> QED BY <1>2, <3>1, <3>3, <4>1 DEF TypeOK
    <3>6. ilut' \in [Regions' -> SUBSET Leaves]
      <4>1. \A l \in 1 .. new : l # new => l \in Regions
        BY <3>2 DEF Regions
      <4> QED BY <1>2, <3>1, <3>3, <3>4, <4>1 DEF TypeOK
    <3>7. regs_to_merge' \subseteq SUBSET Regions'
      BY <1>2, <3>1, <3>3 DEF TypeOK
    <3>8. children_labels' \in Seq(SUBSET Nat) /\ parent_labels' \in Seq(Nat)
      <4>1. R \in SUBSET Nat /\ new \in Nat
        BY <3>2 DEF Regions
      <4> QED BY <1>2, <3>1, <4>1 DEF TypeOK
    <3>9. start_ths' \in Seq(0 .. One)
      BY <1>2, <3>1 DEF TypeOK
    <3>10. curr_max' \in Nat /\ curr_max' >= NLeaves
      BY <1>2, <3>1, ConstantTypes DEF TypeOK
    <3> HIDE DEF new
    <3> QED BY <1>2, <2>6, <3>5, <3>6, <3>7, <3>8, <3>9, <3>10 DEF TypeOK, MergeRegions, scanVars
  <2>7. CASE EndOfStrength
    BY <1>2, <2>7 DEF TypeOK, EndOfStrength, scanVars, treeVars, Regions
  <2>8. CASE Output
    <3>1. pc' \in {"done", "error"}
      BY <2>8 DEF Output
    <3> QED BY <1>2, <2>8, <3>1 DEF TypeOK, Output, scanVars, treeVars, Regions
  <2>9. CASE UNCHANGED vars
    BY <1>2, <2>9 DEF TypeOK, vars, Regions
  <2> QED BY <1>2, <2>1, <2>2, <2>3, <2>4, <2>5, <2>6, <2>7, <2>8, <2>9 DEF Next
<1> QED BY <1>1, <1>2, PTL DEF Spec
-----------------------------------------------------------------------------
\* The strengths of the regions made so far do not pass the strength being
\* merged, and those of regions that wait for a parent are below it; labels
\* are given in the order of the merging sequence.
Phases ==
  /\ ucm2 \in Maps
  /\ \A t \in Strengths : \A P \in ucm_th_leaves_pairs[t] : P # {}
  /\ \A P \in leaves_to_merge : P # {}
  /\ pc \in {"scan", "next"} => regs_to_merge = {}
  /\ pc \in {"gather", "merge"} => it \in Strengths
  /\ \A r \in Regions : start_ths[r] <= it
  /\ pc = "gather" => \A r \in Regions : start_ths[r] < it
  /\ \A R \in regs_to_merge : \A r \in R : start_ths[r] < it
  /\ curr_max = NLeaves + Len(children_labels)

\* The newest region has leaves; a region without leaves has a parent.
Newest ==
  /\ ilut[curr_max] # {}
  /\ \A r \in Regions : ilut[r] = {} => \E n \in DOMAIN children_labels : r \in children_labels[n]

TreeInv == TablesAgree /\ MergesDisjoint /\ ForestGrows /\ Phases /\ Newest

\* The leaves of the regions of R.
HeldBy(R) == UNION {ilut[r] : r \in R}

\* The regions of a set to be merged are current, so following the table from
\* them adds nothing to what is updated.
LEMMA UpdateIsSet ==
  ASSUME TypeOK, TablesAgree, NEW R \in regs_to_merge
  PROVE  /\ R \subseteq Regions /\ R # {}
         /\ ToUpdate(R) = R
         /\ LeavesOf(R) = HeldBy(R)
         /\ LeavesOf(R) = {l \in Leaves : lut[l] \in R}
         /\ LeavesOf(R) # {}
<1>1. R \subseteq Regions /\ R # {}
  BY DEF TypeOK, TablesAgree
<1>2. \A r \in R : lut[r] = r /\ ilut[r] # {}
  BY <1>1 DEF TablesAgree
<1>3. ToUpdate(R) = R
  BY <1>2 DEF ToUpdate
<1>4. \A r \in R : ilut[r] = {l \in Leaves : lut[l] = r}
  BY <1>1 DEF TablesAgree
<1>5. LeavesOf(R) = UNION {ilut[r] : r \in R}
  BY <1>3 DEF LeavesOf
<1>6. LeavesOf(R) = {l \in Leaves : lut[l] \in R}
  BY <1>4, <1>5
<1>7. LeavesOf(R) # {}
  BY <1>1, <1>2, <1>5
<1> QED BY <1>1, <1>3, <1>5, <1>6, <1>7 DEF HeldBy

\* A step of MergeRegions, with the regions it merges.
MergesSet(R) ==
  LET new == curr_max + 1 IN
  /\ regs_to_merge' = regs_to_merge \ {R}
  /\ curr_max' = new
  /\ lut' = [l \in 1 .. new |-> IF l = new \/ l \in LeavesOf(R) THEN new ELSE lut[l]]
  /\ ilut' = [r \in 1 .. new |-> IF r = new THEN LeavesOf(R)
                                 ELSE IF r \in ToUpdate(R) THEN {} ELSE ilut[r]]
  /\ children_labels' = Append(children_labels, R)
  /\ parent_labels' = Append(parent_labels, new)
  /\ start_ths' = Append(start_ths, it)

\* What such a step makes of the tables, entry by entry.
LEMMA MergedTables ==
  ASSUME TypeOK, TablesAgree, ForestGrows, NEW R \in regs_to_merge, MergesSet(R)
  PROVE  LET new == curr_max + 1 IN
         /\ new \in Nat /\ new > NLeaves /\ curr_max' = new
         /\ Regions' = Regions \cup {new} /\ new \notin Regions /\ new \notin Leaves
         /\ \A l \in Regions : lut'[l] = IF l \in HeldBy(R) THEN new ELSE lut[l]
         /\ \A r \in Regions : ilut'[r] = IF r \in R THEN {} ELSE ilut[r]
         /\ lut'[new] = new /\ ilut'[new] = HeldBy(R)
         /\ \A r \in Regions : start_ths'[r] = start_ths[r]
         /\ start_ths'[new] = it /\ Len(start_ths') = new
<1> DEFINE new == curr_max + 1
<1>1. curr_max \in Nat /\ curr_max >= NLeaves /\ NLeaves \in Nat
  BY ConstantTypes DEF TypeOK
<1>2. Regions' = Regions \cup {new} /\ new \notin Regions /\ new \notin Leaves /\ new \in 1 .. new
  <2>1. \A n \in Nat : 1 .. n + 1 = (1 .. n) \cup {n + 1} /\ n + 1 \notin 1 .. n /\ n + 1 \in 1 .. n + 1
    OBVIOUS
  <2>2. Regions' = 1 .. new
    BY DEF MergesSet, Regions
  <2>3. new \notin Leaves
    BY <1>1 DEF Leaves
  <2> QED BY <1>1, <2>1, <2>2, <2>3 DEF Regions
<1>3. \A r \in Regions : r \in 1 .. new /\ r # new
  BY <1>1, <1>2 DEF Regions
<1>4. ToUpdate(R) = R /\ LeavesOf(R) = HeldBy(R)
  BY UpdateIsSet
<1>5. \A l \in Regions : lut'[l] = IF l \in HeldBy(R) THEN new ELSE lut[l]
  BY <1>3, <1>4 DEF MergesSet
<1>6. \A r \in Regions : ilut'[r] = IF r \in R THEN {} ELSE ilut[r]
  BY <1>3, <1>4 DEF MergesSet
<1>7. lut'[new] = new /\ ilut'[new] = HeldBy(R)
  BY <1>2, <1>4 DEF MergesSet
<1>8. /\ \A r \in Regions : start_ths'[r] = start_ths[r]
      /\ start_ths'[new] = it /\ Len(start_ths') = new
  <2>1. start_ths \in Seq(0 .. One) /\ Len(start_ths) = curr_max /\ start_ths' = Append(start_ths, it)
    BY DEF MergesSet, ForestGrows, TypeOK
  <2> QED BY <1>1, <2>1 DEF Regions
<1>9. new \in Nat /\ new > NLeaves /\ curr_max' = new
  BY <1>1, ConstantTypes DEF MergesSet
<1> QED BY <1>2, <1>5, <1>6, <1>7, <1>8, <1>9

\* A region gets a parent, and the tables and the forest stay right.
LEMMA MergeKeepsTree ==
  ASSUME TypeOK, TreeInv, pc = "merge", NEW R \in regs_to_merge, MergesSet(R),
         UNCHANGED <<scanVars, it, leaves_to_merge, end_ths, pc>>
  PROVE  TreeInv'
<1> DEFINE new == curr_max + 1
           k == Len(children_labels)
<1>1. TablesAgree /\ MergesDisjoint /\ ForestGrows /\ Phases /\ Newest
  BY DEF TreeInv
<1>2. /\ new \in Nat /\ new > NLeaves /\ curr_max' = new
      /\ Regions' = Regions \cup {new} /\ new \notin Regions /\ new \notin Leaves
      /\ \A l \in Regions : lut'[l] = IF l \in HeldBy(R) THEN new ELSE lut[l]
      /\ \A r \in Regions : ilut'[r] = IF r \in R THEN {} ELSE ilut[r]
      /\ lut'[new] = new /\ ilut'[new] = HeldBy(R)
      /\ \A r \in Regions : start_ths'[r] = start_ths[r]
      /\ start_ths'[new] = it /\ Len(start_ths') = new
  BY <1>1, MergedTables
<1>3. /\ R \subseteq Regions /\ R # {}
      /\ HeldBy(R) = {l \in Leaves : lut[l] \in R} /\ HeldBy(R) # {}
  BY <1>1, UpdateIsSet
<1>4. Leaves \subseteq Regions /\ \A l \in Leaves : lut[l] \in Regions
  BY ConstantTypes DEF TypeOK, Leaves, Regions
<1>5. \A r \in Regions : ilut[r] = {l \in Leaves : lut[l] = r}
  BY <1>1 DEF TablesAgree
<1>6. \A r \in Regions' : ilut'[r] = {l \in Leaves : lut'[l] = r}
  <2>1. ilut'[new] = {l \in Leaves : lut'[l] = new}
    BY <1>2, <1>3, <1>4
  <2>2. ASSUME NEW r \in R PROVE ilut'[r] = {l \in Leaves : lut'[l] = r}
    <3>1. \A l \in Leaves : lut'[l] # r
      BY <1>2, <1>3, <1>4
    <3> QED BY <1>2, <1>3, <3>1
  <2>3. ASSUME NEW r \in Regions, r \notin R PROVE ilut'[r] = {l \in Leaves : lut'[l] = r}
    <3>1. \A l \in Leaves : lut'[l] = r <=> lut[l] = r
      BY <1>2, <1>3, <1>4, <2>3
    <3> QED BY <1>2, <1>5, <2>3, <3>1
  <2> QED BY <1>2, <2>1, <2>2, <2>3
<1>7. \A r \in Regions' : ilut'[r] # {} \/ r > NLeaves => lut'[r] = r
  <2>1. ASSUME NEW r \in Regions, ilut'[r] # {} \/ r > NLeaves PROVE lut'[r] = r
    <3>1. CASE r \in Leaves
      <4>1. r \notin R /\ ilut[r] # {}
        BY <1>2, <2>1, <3>1, ConstantTypes DEF Leaves
      <4>2. lut[r] = r
        BY <1>1, <4>1 DEF TablesAgree
      <4> QED BY <1>2, <1>3, <4>1, <4>2
    <3>2. CASE r \notin Leaves
      <4>1. r > NLeaves
        BY <3>2, ConstantTypes DEF Leaves, Regions
      <4>2. lut[r] = r /\ r \notin HeldBy(R)
        BY <1>1, <1>3, <3>2, <4>1 DEF TablesAgree
      <4> QED BY <1>2, <4>2
    <3> QED BY <3>1, <3>2
  <2> QED BY <1>2, <2>1
<1>8. \A Q \in regs_to_merge' : /\ Q \in regs_to_merge /\ Q \cap R = {}
                              /\ Q # {} /\ Q \subseteq Regions
                              /\ \A r \in Q : ilut'[r] = ilut[r] /\ ilut[r] # {}
  BY <1>1, <1>2 DEF MergesSet, MergesDisjoint, TablesAgree, TypeOK
<1>9. TablesAgree'
  BY <1>6, <1>7, <1>8 DEF TablesAgree
<1>10. MergesDisjoint'
  BY <1>1, <1>8 DEF MergesDisjoint, scanVars
<1>11. ForestGrows'
  <2>1. /\ k \in Nat /\ children_labels \in Seq(SUBSET Nat) /\ parent_labels \in Seq(Nat)
        /\ Len(parent_labels) = k /\ Len(start_ths) = curr_max /\ curr_max = NLeaves + k
    BY <1>1 DEF TypeOK, ForestGrows, Phases
  <2>2. children_labels' = Append(children_labels, R) /\ parent_labels' = Append(parent_labels, new)
    BY DEF MergesSet
  <2>3. /\ Len(parent_labels') = k + 1 /\ Len(children_labels') = k + 1
        /\ DOMAIN children_labels' = DOMAIN children_labels \cup {k + 1}
        /\ k + 1 \notin DOMAIN children_labels
        /\ children_labels'[k + 1] = R /\ parent_labels'[k + 1] = new
        /\ \A m \in DOMAIN children_labels : /\ children_labels'[m] = children_labels[m]
                                            /\ parent_labels'[m] = parent_labels[m]
    BY <2>1, <2>2
  <2>4. \A m \in DOMAIN children_labels :
          /\ parent_labels[m] = NLeaves + m /\ parent_labels[m] \in Regions
          /\ \A r \in children_labels[m] :
               /\ r \in Regions /\ r \in 1 .. parent_labels[m] - 1
               /\ start_ths[r] < start_ths[parent_labels[m]]
               /\ ilut[r] = {}
               /\ \A n \in DOMAIN children_labels : r \in children_labels[n] => n = m
    <3>1. \A m \in DOMAIN children_labels : parent_labels[m] = NLeaves + m /\ m \in 1 .. k
      BY <1>1, <2>1 DEF ForestGrows
    <3>2. \A m \in DOMAIN children_labels : parent_labels[m] \in Regions
      BY <2>1, <3>1, ConstantTypes DEF Regions
    <3>3. \A p \in Regions : \A r \in 1 .. p - 1 : r \in Regions
      BY <2>1, ConstantTypes DEF Regions
    <3>4. \A m \in DOMAIN children_labels : \A r \in children_labels[m] : r \in Regions
      BY <1>1, <3>2, <3>3 DEF ForestGrows
    <3> QED BY <1>1, <3>1, <3>2, <3>4 DEF ForestGrows
  <2>5. \A r \in R : /\ r \in 1 .. new - 1 /\ start_ths'[r] < start_ths'[new] /\ ilut'[r] = {}
                    /\ \A n \in DOMAIN children_labels : r \notin children_labels[n]
    <3>1. \A r \in R : r \in 1 .. new - 1
      BY <1>3, <2>1, ConstantTypes DEF Regions
    <3>2. \A r \in R : start_ths'[r] < start_ths'[new]
      BY <1>1, <1>2, <1>3 DEF Phases
    <3>3. \A r \in R : ilut'[r] = {} /\ ilut[r] # {}
      BY <1>1, <1>2, <1>3 DEF TablesAgree
    <3> QED BY <2>4, <3>1, <3>2, <3>3
  <2>6. \A m \in DOMAIN children_labels : \A r \in children_labels[m] :
          /\ start_ths'[r] < start_ths'[parent_labels[m]] /\ ilut'[r] = {} /\ r \notin R
    <3>1. \A m \in DOMAIN children_labels : \A r \in children_labels[m] : r \notin R
      BY <2>5
    <3> QED BY <1>2, <2>4, <3>1
  <2>7. \A m \in DOMAIN children_labels' :
          /\ parent_labels'[m] = NLeaves + m
          /\ \A r \in children_labels'[m] :
               /\ r \in 1 .. parent_labels'[m] - 1
               /\ start_ths'[r] < start_ths'[parent_labels'[m]]
               /\ ilut'[r] = {}
               /\ \A n \in DOMAIN children_labels' : r \in children_labels'[n] => n = m
    <3>1. ASSUME NEW m \in DOMAIN children_labels
          PROVE  /\ parent_labels'[m] = NLeaves + m
                 /\ \A r \in children_labels'[m] :
                      /\ r \in 1 .. parent_labels'[m] - 1
                      /\ start_ths'[r] < start_ths'[parent_labels'[m]]
                      /\ ilut'[r] = {}
                      /\ \A n \in DOMAIN children_labels' : r \in children_labels'[n] => n = m
      BY <2>3, <2>4, <2>6
    <3>2. /\ parent_labels'[k + 1] = NLeaves + (k + 1)
          /\ \A r \in children_labels'[k + 1] :
               /\ r \in 1 .. parent_labels'[k + 1] - 1
               /\ start_ths'[r] < start_ths'[parent_labels'[k + 1]]
               /\ ilut'[r] = {}
               /\ \A n \in DOMAIN children_labels' : r \in children_labels'[n] => n = k + 1
      BY <2>1, <2>3, <2>5, ConstantTypes
    <3> QED BY <2>3, <3>1, <3>2
  <2> QED BY <1>2, <2>3, <2>7 DEF ForestGrows
<1>12. Phases'
  <2>1. \A r \in Regions' : start_ths'[r] <= it
    <3>1. \A r \in Regions : start_ths[r] <= it
      BY <1>1 DEF Phases
    <3>2. it <= it
      BY ConstantTypes DEF TypeOK
    <3> QED BY <1>2, <3>1, <3>2
  <2>2. \A Q \in regs_to_merge' : \A r \in Q : start_ths'[r] < it
    BY <1>1, <1>2, <1>8 DEF Phases
  <2>3. curr_max' = NLeaves + Len(children_labels')
    BY <1>1, <1>2, ConstantTypes DEF Phases, TypeOK, MergesSet
  <2> QED BY <1>1, <2>1, <2>2, <2>3 DEF Phases, scanVars
<1>13. Newest'
  <2>1. ilut'[curr_max'] # {}
    BY <1>2, <1>3
  <2>2. /\ DOMAIN children_labels' = DOMAIN children_labels \cup {k + 1}
        /\ children_labels'[k + 1] = R
        /\ \A m \in DOMAIN children_labels : children_labels'[m] = children_labels[m]
    BY DEF TypeOK, MergesSet
  <2>3. ASSUME NEW r \in Regions, ilut'[r] = {}
        PROVE  \E n \in DOMAIN children_labels' : r \in children_labels'[n]
    <3>1. CASE r \in R
      BY <2>2, <3>1
    <3>2. CASE r \notin R
      BY <1>1, <1>2, <2>2, <2>3, <3>2 DEF Newest
    <3> QED BY <3>1, <3>2
  <2> QED BY <1>2, <1>3, <2>1, <2>3 DEF Newest
<1> QED BY <1>9, <1>10, <1>11, <1>12, <1>13 DEF TreeInv

\* A step that leaves the tree alone.
LEMMA TreeUntouched ==
  ASSUME TypeOK, TreeInv, UNCHANGED treeVars
  PROVE  /\ Regions' = Regions /\ ForestGrows' /\ Newest'
         /\ \A r \in Regions' : ilut'[r] = {l \in Leaves : lut'[l] = r}
         /\ \A r \in Regions' : ilut'[r] # {} \/ r > NLeaves => lut'[r] = r
BY DEF TreeInv, TablesAgree, ForestGrows, Newest, treeVars, Regions

LEMMA StartsAreStrengths ==
  ASSUME TypeOK, ForestGrows
  PROVE  \A r \in Regions : start_ths[r] \in 0 .. One
<1>1. start_ths \in Seq(0 .. One)
  BY DEF TypeOK
<1>2. \A k \in 1 .. Len(start_ths) : start_ths[k] \in 0 .. One
  BY <1>1, ElementOfSeq
<1> QED BY <1>2 DEF ForestGrows, Regions

\* The invariant about the tree holds in every state.
LEMMA TreeInductive ==
  ASSUME TypeOK, TreeInv, [Next]_vars
  PROVE  TreeInv'
<1>1. TablesAgree /\ MergesDisjoint /\ ForestGrows /\ Phases /\ Newest
  BY DEF TreeInv
<1>2. CASE ScanContour
  <2>1. PICK c \in toScan : ucm_th_leaves_pairs' =
                               [ucm_th_leaves_pairs EXCEPT ![c.th] = InsertLabels(c.sides, @)]
    BY <1>2 DEF ScanContour
  <2>2. c.th \in Strengths /\ c.sides # {}
    <3>1. c \in ucm2 /\ ucm2 \in Maps
      BY <1>1 DEF TypeOK, Phases
    <3> QED BY <3>1, InputAssumption DEF TypeOK, Contours
  <2>3. \A t \in Strengths :
          /\ \A P \in ucm_th_leaves_pairs'[t] : P # {}
          /\ \A P, Q \in ucm_th_leaves_pairs'[t] : P # Q => P \cap Q = {}
    <3>1. ASSUME NEW t \in Strengths
          PROVE  ucm_th_leaves_pairs'[t] = IF t = c.th THEN InsertLabels(c.sides, ucm_th_leaves_pairs[t])
                                           ELSE ucm_th_leaves_pairs[t]
      BY <2>1, <2>2 DEF TypeOK
    <3>2. \A t \in Strengths : \A P \in ucm_th_leaves_pairs[t] : P # {}
      BY <1>1 DEF Phases
    <3>3. \A t \in Strengths : \A P, Q \in ucm_th_leaves_pairs[t] : P # Q => P \cap Q = {}
      BY <1>1 DEF MergesDisjoint
    <3>4. \A P \in InsertLabels(c.sides, ucm_th_leaves_pairs[c.th]) : P # {}
      BY <2>2, <3>2, InsertKeepsNonEmpty
    <3>5. \A P, Q \in InsertLabels(c.sides, ucm_th_leaves_pairs[c.th]) : P # Q => P \cap Q = {}
      BY <2>2, <3>3, InsertKeepsDisjoint
    <3> QED BY <3>1, <3>2, <3>3, <3>4, <3>5
  <2>4. TablesAgree' /\ ForestGrows' /\ Newest'
    BY <1>1, <1>2, TreeUntouched DEF TablesAgree, ScanContour, treeVars
  <2>5. MergesDisjoint'
    BY <1>1, <1>2, <2>3 DEF MergesDisjoint, ScanContour
  <2>6. Phases'
    BY <1>1, <1>2, <2>3 DEF Phases, ScanContour, treeVars, Regions
  <2> QED BY <2>4, <2>5, <2>6 DEF TreeInv
<1>3. CASE EndOfScan
  <2>1. TablesAgree' /\ ForestGrows' /\ Newest'
    BY <1>1, <1>3, TreeUntouched DEF TablesAgree, EndOfScan, treeVars
  <2>2. MergesDisjoint' /\ Phases'
    BY <1>1, <1>3 DEF MergesDisjoint, Phases, EndOfScan, scanVars, treeVars, Regions
  <2> QED BY <2>1, <2>2 DEF TreeInv
<1>4. CASE NextStrength
  <2>1. /\ it' \in Strengths /\ it' > it
        /\ leaves_to_merge' = ucm_th_leaves_pairs[it'] /\ regs_to_merge' = {}
    BY <1>4 DEF NextStrength, Later
  <2>2. TablesAgree' /\ ForestGrows' /\ Newest'
    BY <1>1, <1>4, <2>1, TreeUntouched DEF TablesAgree, NextStrength
  <2>3. \A r \in Regions : start_ths[r] < it'
    <3>1. \A r \in Regions : start_ths[r] \in Nat /\ start_ths[r] <= it
      BY <1>1, StartsAreStrengths, ConstantTypes DEF Phases
    <3>2. it \in Nat /\ it' \in Nat
      BY <2>1, ConstantTypes DEF TypeOK, Strengths
    <3> QED BY <2>1, <3>1, <3>2
  <2>4. \A r \in Regions : start_ths[r] <= it'
    <3>1. \A r \in Regions : start_ths[r] \in Nat
      BY <1>1, StartsAreStrengths, ConstantTypes
    <3>2. it' \in Nat
      BY <2>1 DEF Strengths
    <3> QED BY <2>3, <3>1, <3>2
  <2>5. MergesDisjoint'
    BY <1>1, <1>4, <2>1 DEF MergesDisjoint, NextStrength, scanVars
  <2>6. Phases'
    BY <1>1, <1>4, <2>1, <2>3, <2>4 DEF Phases, NextStrength, scanVars, treeVars, Regions
  <2> QED BY <2>2, <2>5, <2>6 DEF TreeInv
<1>5. CASE GatherRegions
  <2>1. PICK P \in leaves_to_merge :
          /\ leaves_to_merge' = leaves_to_merge \ {P}
          /\ regs_to_merge' = IF Cardinality(P) = 1 THEN regs_to_merge
                              ELSE InsertLabels(RegionsOf(P), regs_to_merge)
    BY <1>5 DEF GatherRegions
  <2>2. P # {} /\ P \in SUBSET Leaves
    BY <1>1 DEF Phases, TypeOK
  <2>3. RegionsOf(P) # {} /\ RegionsOf(P) \in SUBSET Regions /\ \A r \in RegionsOf(P) : ilut[r] # {}
    <3>1. RegionsOf(P) \in SUBSET Regions
      BY <2>2, RegionsOfLeaves
    <3>2. \A l \in P : l \in ilut[lut[l]]
      BY <1>1, <2>2, <3>1 DEF TablesAgree, RegionsOf
    <3> QED BY <2>2, <3>1, <3>2 DEF RegionsOf
  <2>4. \A R \in regs_to_merge' : R # {}
    BY <1>1, <2>1, <2>3, InsertKeepsNonEmpty DEF TablesAgree
  <2>5. \A Q, R \in regs_to_merge' : Q # R => Q \cap R = {}
    BY <1>1, <2>1, InsertKeepsDisjoint DEF MergesDisjoint
  <2>6. \A R \in regs_to_merge' : \A r \in R : ilut[r] # {} /\ r \in Regions
    <3>1. \A R \in regs_to_merge : \A r \in R : ilut[r] # {} /\ r \in Regions
      BY <1>1 DEF TablesAgree, TypeOK
    <3>2. \A R \in InsertLabels(RegionsOf(P), regs_to_merge) : \A r \in R :
            r \in RegionsOf(P) \/ \E Q \in regs_to_merge : r \in Q
      BY DEF InsertLabels, Touched
    <3> QED BY <2>1, <2>3, <3>1, <3>2
  <2>7. UNCHANGED <<scanVars, it, treeVars, end_ths, pc>> /\ pc = "gather"
    BY <1>5 DEF GatherRegions
  <2>8. TablesAgree' /\ ForestGrows' /\ Newest'
    <3>1. ilut' = ilut
      BY <2>7 DEF treeVars
    <3> QED BY <1>1, <2>4, <2>6, <2>7, <3>1, TreeUntouched DEF TablesAgree
  <2>9. MergesDisjoint'
    BY <1>1, <2>5, <2>7 DEF MergesDisjoint, scanVars
  <2>10. Phases'
    BY <1>1, <2>1, <2>6, <2>7 DEF Phases, scanVars, treeVars, Regions
  <2> QED BY <2>8, <2>9, <2>10 DEF TreeInv
<1>6. CASE EndOfGather
  <2>1. TablesAgree' /\ ForestGrows' /\ Newest'
    BY <1>1, <1>6, TreeUntouched DEF TablesAgree, EndOfGather, treeVars
  <2>2. MergesDisjoint' /\ Phases'
    BY <1>1, <1>6 DEF MergesDisjoint, Phases, EndOfGather, scanVars, treeVars, Regions
  <2> QED BY <2>1, <2>2 DEF TreeInv
<1>7. CASE MergeRegions
  <2>1. PICK R \in regs_to_merge : MergesSet(R)
    BY <1>7 DEF MergeRegions, MergesSet
  <2>2. pc = "merge" /\ UNCHANGED <<scanVars, it, leaves_to_merge, end_ths, pc>>
    BY <1>7 DEF MergeRegions
  <2> QED BY <2>1, <2>2, MergeKeepsTree
<1>8. CASE EndOfStrength
  <2>1. TablesAgree' /\ ForestGrows' /\ Newest'
    BY <1>1, <1>8, TreeUntouched DEF TablesAgree, EndOfStrength, treeVars
  <2>2. MergesDisjoint' /\ Phases'
    BY <1>1, <1>8 DEF MergesDisjoint, Phases, EndOfStrength, scanVars, treeVars, Regions
  <2> QED BY <2>1, <2>2 DEF TreeInv
<1>9. CASE Output
  <2>1. TablesAgree' /\ ForestGrows' /\ Newest'
    BY <1>1, <1>9, TreeUntouched DEF TablesAgree, Output, treeVars
  <2>2. pc' \in {"done", "error"} /\ pc = "next"
    BY <1>9 DEF Output
  <2>3. MergesDisjoint' /\ Phases'
    BY <1>1, <1>9, <2>2 DEF MergesDisjoint, Phases, Output, scanVars, treeVars, Regions
  <2> QED BY <2>1, <2>3 DEF TreeInv
<1>10. CASE UNCHANGED vars
  <2>1. TablesAgree' /\ ForestGrows' /\ Newest'
    BY <1>1, <1>10, TreeUntouched DEF TablesAgree, vars, treeVars
  <2>2. MergesDisjoint' /\ Phases'
    BY <1>1, <1>10 DEF MergesDisjoint, Phases, vars, Regions
  <2> QED BY <2>1, <2>2 DEF TreeInv
<1> QED BY <1>2, <1>3, <1>4, <1>5, <1>6, <1>7, <1>8, <1>9, <1>10 DEF Next

LEMMA TreeInitially ==
  ASSUME Init
  PROVE  TreeInv
<1>1. /\ curr_max = NLeaves /\ Regions = Leaves /\ NLeaves \in Leaves
      /\ lut = [l \in Leaves |-> l] /\ ilut = [l \in Leaves |-> {l}]
      /\ start_ths = [l \in Leaves |-> 0]
  BY ConstantTypes DEF Init, Regions, Leaves
<1>2. parent_labels = <<>> /\ children_labels = <<>> /\ Len(children_labels) = 0
  BY DEF Init
<1>3. TablesAgree
  BY <1>1 DEF TablesAgree, Init
<1>4. MergesDisjoint
  BY DEF MergesDisjoint, Init
<1>5. ForestGrows
  <2>1. Len(start_ths) = curr_max
    BY <1>1, ConstantTypes DEF Leaves
  <2>2. DOMAIN children_labels = {}
    BY <1>2
  <2> QED BY <1>2, <2>1, <2>2 DEF ForestGrows
<1>6. Phases
  <2>1. \A r \in Regions : start_ths[r] <= it
    BY <1>1 DEF Init
  <2>2. curr_max = NLeaves + Len(children_labels)
    BY <1>1, <1>2, ConstantTypes
  <2> QED BY <2>1, <2>2 DEF Phases, Init
<1>7. Newest
  BY <1>1 DEF Newest
<1> QED BY <1>3, <1>4, <1>5, <1>6, <1>7 DEF TreeInv

LEMMA TreeAlways == Spec => []TreeInv
<1>1. Init => TreeInv
  BY TreeInitially
<1>2. TypeOK /\ TreeInv /\ [Next]_vars => TreeInv'
  BY TreeInductive
<1> QED BY <1>1, <1>2, TypeCorrect, PTL DEF Spec

\* The table of regions and the lists of leaves agree at every step.
THEOREM TablesCorrect == Spec => []TablesAgree
<1>1. TreeInv => TablesAgree
  BY DEF TreeInv
<1> QED BY <1>1, TreeAlways, PTL

\* The sets waiting to be merged never overlap.
THEOREM DisjointCorrect == Spec => []MergesDisjoint
<1>1. TreeInv => MergesDisjoint
  BY DEF TreeInv
<1> QED BY <1>1, TreeAlways, PTL

\* The merging sequence is a forest whose strengths grow towards the roots.
THEOREM ForestCorrect == Spec => []ForestGrows
<1>1. TreeInv => ForestGrows
  BY DEF TreeInv
<1> QED BY <1>1, TreeAlways, PTL

-----------------------------------------------------------------------------
(* Regions are components.                                                 *)

\* The sides of the contours of strength t in C.
SidesAt(C, t) == {c.sides : c \in {d \in C : d.th = t}}

\* What is cut by no contour scanned is cut by no set of the table.
Scanned ==
  \A t \in Strengths : \A S \in SUBSET Leaves :
    Closed(SidesAt(ucm2 \ toScan, t), S) <=> Closed(ucm_th_leaves_pairs[t], S)

\* No set of the table up to strength t cuts S.
Uncut(t, S) == \A u \in Strengths : u <= t => Closed(ucm_th_leaves_pairs[u], S)

\* The current regions are the components of the contours up to strength t.
Components(t) ==
  /\ \A r \in Regions : Uncut(t, ilut[r])
  /\ \A S \in SUBSET Leaves : Uncut(t, S) => Closed({ilut[r] : r \in Regions}, S)

\* While regions are gathered the tree is that of the strengths before, and the
\* sets of regions cut what the sets of leaves done so far cut.
Gathered == {RegionsOf(P) : P \in ucm_th_leaves_pairs[it] \ leaves_to_merge}
Gathering ==
  pc = "gather" =>
    /\ leaves_to_merge \subseteq ucm_th_leaves_pairs[it]
    /\ Components(it - 1)
    /\ \A X \in SUBSET Regions : Closed(regs_to_merge, X) <=> Closed(Gathered, X)

\* While parents are made, a set of leaves that is uncut is cut by no region
\* and by no parent still to be made; and regions that do not wait for a
\* parent, and the parents to be made, are uncut.
Waiting == UNION regs_to_merge
MergingBody ==
  /\ \A S \in SUBSET Leaves :
       Uncut(it, S) => /\ Closed({ilut[r] : r \in Regions}, S)
                       /\ Closed({HeldBy(R) : R \in regs_to_merge}, S)
  /\ \A r \in Regions \ Waiting : Uncut(it, ilut[r])
  /\ \A R \in regs_to_merge : Uncut(it, HeldBy(R))
Merging == pc = "merge" => MergingBody

AtRest ==
  /\ pc = "scan" => it = 0 /\ Components(0)
  /\ pc = "next" => Components(it)
  /\ pc = "done" => Components(One)
  /\ pc # "scan" => toScan = {}

ComponentsInv == Scanned /\ Gathering /\ Merging /\ AtRest
-----------------------------------------------------------------------------
\* The contours up to a strength, strength by strength.
LEMMA UncutByContours ==
  ASSUME TypeOK, Scanned, toScan = {}, NEW t, NEW S \in SUBSET Leaves
  PROVE  Closed(SidesUpTo(ucm2, t), S) <=> Uncut(t, S)
<1>1. \A c \in ucm2 : c.th \in Strengths
  BY DEF TypeOK, Contours
<1>2. Closed(SidesUpTo(ucm2, t), S) <=> \A u \in Strengths : u <= t => Closed(SidesAt(ucm2, u), S)
  BY <1>1 DEF Closed, SidesUpTo, SidesAt
<1>3. ucm2 \ toScan = ucm2
  OBVIOUS
<1>4. \A u \in Strengths : Closed(SidesAt(ucm2, u), S) <=> Closed(ucm_th_leaves_pairs[u], S)
  BY <1>3 DEF Scanned
<1> QED BY <1>2, <1>4 DEF Uncut

\* Strengths at which nothing merges can be passed over.
LEMMA PassOver ==
  ASSUME NEW t \in Nat, NEW u \in Nat, t <= u, NEW S,
         \A v \in Strengths : v > t /\ v <= u => ucm_th_leaves_pairs[v] = {}
  PROVE  Uncut(t, S) <=> Uncut(u, S)
<1>1. ASSUME Uncut(t, S), NEW v \in Strengths, v <= u
      PROVE  Closed(ucm_th_leaves_pairs[v], S)
  <2>1. CASE v <= t
    BY <1>1, <2>1 DEF Uncut
  <2>2. CASE ~(v <= t)
    <3>1. ucm_th_leaves_pairs[v] = {}
      BY <1>1, <2>2 DEF Strengths
    <3> QED BY <3>1 DEF Closed
  <2> QED BY <2>1, <2>2
<1>2. ASSUME Uncut(u, S), NEW v \in Strengths, v <= t
      PROVE  Closed(ucm_th_leaves_pairs[v], S)
  <2>1. v <= u
    BY <1>2 DEF Strengths
  <2> QED BY <1>2, <2>1 DEF Uncut
<1> QED BY <1>1, <1>2 DEF Uncut

LEMMA ComponentsPassOver ==
  ASSUME TypeOK, NEW t \in Nat, NEW u \in Nat, t <= u, Components(t),
         \A v \in Strengths : v > t /\ v <= u => ucm_th_leaves_pairs[v] = {}
  PROVE  Components(u)
<1>1. \A S : Uncut(t, S) <=> Uncut(u, S)
  BY PassOver
<1> QED BY <1>1 DEF Components
-----------------------------------------------------------------------------
LEMMA ComponentsInitially ==
  ASSUME Init
  PROVE  ComponentsInv
<1>1. Scanned
  <2>1. ucm2 \ toScan = {} /\ \A t \in Strengths : ucm_th_leaves_pairs[t] = {}
    BY DEF Init
  <2> QED BY <2>1 DEF Scanned, SidesAt, Closed
<1>2. Components(0)
  <2>1. \A S : Uncut(0, S)
    BY DEF Init, Uncut, Closed
  <2>2. Regions = Leaves /\ \A l \in Leaves : ilut[l] = {l}
    BY DEF Init, Regions, Leaves
  <2>3. \A S \in SUBSET Leaves : Closed({ilut[r] : r \in Regions}, S)
    BY <2>2 DEF Closed
  <2> QED BY <2>1, <2>3 DEF Components
<1> QED BY <1>1, <1>2 DEF ComponentsInv, Gathering, Merging, AtRest, Init

\* Scanning a contour adds its sides to both.
LEMMA ScanKeeps ==
  ASSUME TypeOK, Scanned, ScanContour
  PROVE  Scanned'
<1>1. PICK c \in toScan : /\ toScan' = toScan \ {c}
                          /\ ucm_th_leaves_pairs' =
                               [ucm_th_leaves_pairs EXCEPT ![c.th] = InsertLabels(c.sides, @)]
  BY DEF ScanContour
<1>2. c.th \in Strengths /\ c \in ucm2 /\ ucm2' = ucm2
  BY DEF TypeOK, Contours, ScanContour
<1>3. SUFFICES ASSUME NEW t \in Strengths, NEW S \in SUBSET Leaves
               PROVE  Closed(SidesAt(ucm2 \ toScan', t), S) <=> Closed(ucm_th_leaves_pairs'[t], S)
  BY <1>2 DEF Scanned
<1>4. Closed(SidesAt(ucm2 \ toScan, t), S) <=> Closed(ucm_th_leaves_pairs[t], S)
  BY DEF Scanned
<1>5. CASE t = c.th
  <2>1. SidesAt(ucm2 \ toScan', t) = SidesAt(ucm2 \ toScan, t) \cup {c.sides}
    BY <1>1, <1>2, <1>5 DEF SidesAt
  <2>2. ucm_th_leaves_pairs'[t] = InsertLabels(c.sides, ucm_th_leaves_pairs[t])
    BY <1>1, <1>2, <1>5 DEF TypeOK
  <2>3. Closed(SidesAt(ucm2 \ toScan', t), S) <=>
          Closed(SidesAt(ucm2 \ toScan, t), S) /\ (c.sides \cap S # {} => c.sides \subseteq S)
    BY <2>1 DEF Closed
  <2> QED BY <1>4, <2>2, <2>3, InsertClosed
<1>6. CASE t # c.th
  <2>1. SidesAt(ucm2 \ toScan', t) = SidesAt(ucm2 \ toScan, t)
    BY <1>1, <1>2, <1>6 DEF SidesAt
  <2>2. ucm_th_leaves_pairs'[t] = ucm_th_leaves_pairs[t]
    BY <1>1, <1>2, <1>6 DEF TypeOK
  <2> QED BY <1>4, <2>1, <2>2
<1> QED BY <1>5, <1>6

\* One set of leaves has been turned into regions.
LEMMA GatherKeeps ==
  ASSUME TypeOK, TreeInv, Gathering, GatherRegions
  PROVE  Gathering'
<1>1. PICK P \in leaves_to_merge :
        /\ leaves_to_merge' = leaves_to_merge \ {P}
        /\ regs_to_merge' = IF Cardinality(P) = 1 THEN regs_to_merge
                            ELSE InsertLabels(RegionsOf(P), regs_to_merge)
  BY DEF GatherRegions
<1>2. pc = "gather" /\ UNCHANGED <<scanVars, it, treeVars, pc>>
  BY DEF GatherRegions
<1>3. /\ leaves_to_merge \subseteq ucm_th_leaves_pairs[it] /\ Components(it - 1)
      /\ \A X \in SUBSET Regions : Closed(regs_to_merge, X) <=> Closed(Gathered, X)
  BY <1>2 DEF Gathering
<1>4. Gathered' = Gathered \cup {RegionsOf(P)}
  <2>1. ucm_th_leaves_pairs[it] \ leaves_to_merge' = (ucm_th_leaves_pairs[it] \ leaves_to_merge) \cup {P}
    BY <1>1, <1>3
  <2> QED BY <1>2, <2>1 DEF Gathered, RegionsOf, scanVars, treeVars
<1>5. \A X : Closed(Gathered', X) <=>
               Closed(Gathered, X) /\ (RegionsOf(P) \cap X # {} => RegionsOf(P) \subseteq X)
  BY <1>4 DEF Closed
<1>6. ASSUME NEW X \in SUBSET Regions
      PROVE  Closed(regs_to_merge', X) <=> Closed(Gathered', X)
  <2>1. CASE Cardinality(P) = 1
    <3>1. IsFiniteSet(P)
      <4>1. IsFiniteSet(Leaves)
        BY ConstantTypes, FS_Interval DEF Leaves
      <4>2. P \subseteq Leaves
        BY DEF TypeOK
      <4> QED BY <4>1, <4>2, FS_Subset
    <3>2. PICK l : P = {l}
      BY <2>1, <3>1, FS_Singleton
    <3>3. RegionsOf(P) = {lut[l]}
      BY <3>2 DEF RegionsOf
    <3> QED BY <1>1, <1>3, <1>5, <2>1, <3>3
  <2>2. CASE Cardinality(P) # 1
    BY <1>1, <1>3, <1>5, <2>2, InsertClosed
  <2> QED BY <2>1, <2>2
<1>7. Components(it - 1)' /\ Regions' = Regions
  BY <1>2, <1>3 DEF Components, Uncut, Regions, scanVars, treeVars
<1> QED BY <1>1, <1>2, <1>3, <1>6, <1>7 DEF Gathering, scanVars

LEMMA BodyUntouched ==
  ASSUME MergingBody, UNCHANGED <<scanVars, treeVars, it, regs_to_merge>>
  PROVE  MergingBody'
<1>1. /\ ucm_th_leaves_pairs' = ucm_th_leaves_pairs /\ it' = it
      /\ ilut' = ilut /\ regs_to_merge' = regs_to_merge /\ curr_max' = curr_max
  BY DEF scanVars, treeVars
<1>2. (\A S \in SUBSET Leaves :
          Uncut(it, S) => /\ Closed({ilut[r] : r \in Regions}, S)
                          /\ Closed({HeldBy(R) : R \in regs_to_merge}, S))'
  BY <1>1 DEF MergingBody, Uncut, HeldBy, Regions
<1>3. (\A r \in Regions \ Waiting : Uncut(it, ilut[r]))'
  BY <1>1 DEF MergingBody, Uncut, Waiting, Regions
<1>4. (\A R \in regs_to_merge : Uncut(it, HeldBy(R)))'
  BY <1>1 DEF MergingBody, Uncut, HeldBy
<1> QED BY <1>2, <1>3, <1>4 DEF MergingBody

\* All leaf sets of the strength are done: its merges are the right ones.
LEMMA EndOfGatherKeeps ==
  ASSUME TypeOK, TreeInv, Gathering, EndOfGather
  PROVE  Merging'
<1>1. /\ pc = "gather" /\ leaves_to_merge = {}
      /\ UNCHANGED <<scanVars, it, regs_to_merge, treeVars>>
  BY DEF EndOfGather
<1>2. TablesAgree /\ MergesDisjoint /\ it \in Strengths
  BY <1>1 DEF TreeInv, Phases
<1>3. /\ Components(it - 1)
      /\ \A X \in SUBSET Regions : Closed(regs_to_merge, X) <=> Closed(Gathered, X)
      /\ Gathered = {RegionsOf(P) : P \in ucm_th_leaves_pairs[it]}
  BY <1>1 DEF Gathering, Gathered
<1>4. \A S : Uncut(it, S) <=> Uncut(it - 1, S) /\ Closed(ucm_th_leaves_pairs[it], S)
  <2>1. \A u \in Strengths : u <= it <=> u <= it - 1 \/ u = it
    BY <1>2 DEF Strengths
  <2> QED BY <1>2, <2>1 DEF Uncut
<1>5. /\ \A P \in ucm_th_leaves_pairs[it] : P \subseteq Leaves
      /\ \A R \in regs_to_merge : R \subseteq Regions
      /\ \A l \in Leaves : lut[l] \in Regions
      /\ \A r \in Regions : ilut[r] = {l \in Leaves : lut[l] = r}
  <2>1. Leaves \subseteq Regions
    BY ConstantTypes DEF TypeOK, Leaves, Regions
  <2> QED BY <1>2, <2>1 DEF TypeOK, TablesAgree
<1>6. ASSUME NEW S \in SUBSET Leaves, Uncut(it, S)
      PROVE  Closed({ilut[r] : r \in Regions}, S) /\ Closed({HeldBy(R) : R \in regs_to_merge}, S)
  <2> DEFINE X == {r \in Regions : ilut[r] # {} /\ ilut[r] \subseteq S}
  <2>1. Closed({ilut[r] : r \in Regions}, S) /\ Closed(ucm_th_leaves_pairs[it], S)
    BY <1>3, <1>4, <1>6 DEF Components
  <2>2. \A r \in Regions : ilut[r] \cap S # {} => r \in X
    BY <2>1 DEF Closed
  <2>3. Closed(Gathered, X)
    <3>1. SUFFICES ASSUME NEW P \in ucm_th_leaves_pairs[it], RegionsOf(P) \cap X # {}
                   PROVE  RegionsOf(P) \subseteq X
      BY <1>3 DEF Closed
    <3>2. PICK l \in P : lut[l] \in X
      BY <3>1 DEF RegionsOf
    <3>3. l \in ilut[lut[l]]
      BY <1>5, <3>1
    <3>4. P \subseteq S
      BY <2>1, <3>1, <3>2, <3>3 DEF Closed
    <3>5. ASSUME NEW m \in P PROVE lut[m] \in X
      <4>1. m \in ilut[lut[m]] /\ lut[m] \in Regions /\ m \in S
        BY <1>5, <3>1, <3>4
      <4>2. ilut[lut[m]] \cap S # {}
        BY <4>1
      <4> HIDE DEF X
      <4> QED BY <2>2, <4>1, <4>2
    <3> QED BY <3>5 DEF RegionsOf
  <2>4. Closed(regs_to_merge, X)
    BY <1>3, <2>3
  <2>5. ASSUME NEW R \in regs_to_merge, HeldBy(R) \cap S # {}
        PROVE  HeldBy(R) \subseteq S
    <3>1. PICK r \in R : ilut[r] \cap S # {}
      BY <2>5 DEF HeldBy
    <3>2. R \subseteq X
      BY <1>5, <2>2, <2>4, <3>1 DEF Closed
    <3> QED BY <3>2 DEF HeldBy
  <2>6. Closed({HeldBy(R) : R \in regs_to_merge}, S)
    BY <2>5 DEF Closed
  <2> QED BY <2>1, <2>6
<1>7. ASSUME NEW X \in SUBSET Regions, Closed(regs_to_merge, X)
      PROVE  Closed(ucm_th_leaves_pairs[it], HeldBy(X))
  <2>1. Closed(Gathered, X)
    BY <1>3, <1>7
  <2>2. SUFFICES ASSUME NEW P \in ucm_th_leaves_pairs[it], P \cap HeldBy(X) # {}
                 PROVE  P \subseteq HeldBy(X)
    BY DEF Closed
  <2>3. PICK l \in P, r \in X : l \in ilut[r]
    BY <2>2 DEF HeldBy
  <2>4. lut[l] = r
    BY <1>5, <1>7, <2>3
  <2>5. RegionsOf(P) \subseteq X
    <3>1. RegionsOf(P) \in Gathered
      BY <1>3
    <3>2. r \in RegionsOf(P)
      BY <2>3, <2>4 DEF RegionsOf
    <3> QED BY <2>1, <2>3, <3>1, <3>2 DEF Closed
  <2>6. ASSUME NEW m \in P PROVE m \in HeldBy(X)
    <3>1. lut[m] \in X
      BY <2>5 DEF RegionsOf
    <3>2. m \in ilut[lut[m]]
      BY <1>5, <1>7, <3>1
    <3> QED BY <3>1, <3>2 DEF HeldBy
  <2> QED BY <2>6
<1>8. ASSUME NEW X \in SUBSET Regions, Closed(regs_to_merge, X)
      PROVE  Uncut(it, HeldBy(X))
  <2>1. \A r \in X : Uncut(it - 1, ilut[r])
    BY <1>3, <1>8 DEF Components
  <2>2. Uncut(it - 1, HeldBy(X))
    <3>1. SUFFICES ASSUME NEW u \in Strengths, u <= it - 1, NEW P \in ucm_th_leaves_pairs[u],
                          P \cap HeldBy(X) # {}
                   PROVE  P \subseteq HeldBy(X)
      BY DEF Uncut, Closed
    <3>2. PICK r \in X : P \cap ilut[r] # {}
      BY <3>1 DEF HeldBy
    <3>3. P \subseteq ilut[r]
      BY <2>1, <3>1, <3>2 DEF Uncut, Closed
    <3> QED BY <3>3 DEF HeldBy
  <2> QED BY <1>4, <1>7, <1>8, <2>2
<1>9. ASSUME NEW r \in Regions \ Waiting PROVE Uncut(it, ilut[r])
  <2>1. Closed(regs_to_merge, {r}) /\ {r} \in SUBSET Regions
    BY <1>9 DEF Waiting, Closed
  <2>2. HeldBy({r}) = ilut[r]
    BY DEF HeldBy
  <2> QED BY <1>8, <2>1, <2>2
<1>10. ASSUME NEW R \in regs_to_merge PROVE Uncut(it, HeldBy(R))
  <2>1. Closed(regs_to_merge, R)
    BY <1>2 DEF MergesDisjoint, Closed
  <2> QED BY <1>5, <1>8, <2>1
<1>11. /\ \A S \in SUBSET Leaves :
            Uncut(it, S) => /\ Closed({ilut[r] : r \in Regions}, S)
                            /\ Closed({HeldBy(R) : R \in regs_to_merge}, S)
       /\ \A r \in Regions \ Waiting : Uncut(it, ilut[r])
       /\ \A R \in regs_to_merge : Uncut(it, HeldBy(R))
  BY <1>6, <1>9, <1>10
<1>12. MergingBody
  BY <1>11 DEF MergingBody
<1> QED BY <1>1, <1>12, BodyUntouched DEF Merging

\* A parent is made of the regions of R.
LEMMA MergeKeeps ==
  ASSUME TypeOK, TreeInv, Merging, pc = "merge", NEW R \in regs_to_merge, MergesSet(R),
         UNCHANGED <<scanVars, it>>
  PROVE  Merging'
<1> DEFINE new == curr_max + 1
<1>1. TablesAgree /\ MergesDisjoint /\ ForestGrows
  BY DEF TreeInv
<1>2. /\ Regions' = Regions \cup {new} /\ new \notin Regions
      /\ \A r \in Regions : ilut'[r] = IF r \in R THEN {} ELSE ilut[r]
      /\ ilut'[new] = HeldBy(R)
  BY <1>1, MergedTables
<1>3. /\ R \subseteq Regions /\ regs_to_merge' = regs_to_merge \ {R}
      /\ \A Q \in regs_to_merge' : Q \in regs_to_merge /\ Q \cap R = {} /\ Q \subseteq Regions
  BY <1>1 DEF TypeOK, MergesSet, MergesDisjoint
<1>5. \A S : Uncut(it, S)' <=> Uncut(it, S)
  BY DEF Uncut, scanVars
<1>6. \A Q \in regs_to_merge' : HeldBy(Q)' = HeldBy(Q)
  <2>1. SUFFICES ASSUME NEW Q \in regs_to_merge' PROVE HeldBy(Q)' = HeldBy(Q)
    OBVIOUS
  <2>2. \A r \in Q : ilut'[r] = ilut[r]
    BY <1>2, <1>3
  <2> QED BY <2>2 DEF HeldBy
<1>7. ASSUME NEW S \in SUBSET Leaves, Uncut(it, S)
      PROVE  /\ Closed({ilut'[r] : r \in Regions'}, S)
             /\ Closed({HeldBy(Q) : Q \in regs_to_merge'}, S)
  <2>1. /\ Closed({ilut[r] : r \in Regions}, S)
        /\ Closed({HeldBy(Q) : Q \in regs_to_merge}, S)
    BY <1>7 DEF Merging, MergingBody
  <2>2. \A r \in Regions' : ilut'[r] \cap S # {} => ilut'[r] \subseteq S
    <3>1. HeldBy(R) \cap S # {} => HeldBy(R) \subseteq S
      BY <2>1 DEF Closed
    <3>2. \A r \in Regions : ilut[r] \cap S # {} => ilut[r] \subseteq S
      BY <2>1 DEF Closed
    <3> QED BY <1>2, <3>1, <3>2
  <2>3. Closed({HeldBy(Q) : Q \in regs_to_merge'}, S)
    BY <1>3, <2>1 DEF Closed
  <2> QED BY <2>2, <2>3 DEF Closed
<1>8. ASSUME NEW r \in Regions', r \notin UNION regs_to_merge'
      PROVE  Uncut(it, ilut'[r])
  <2>1. CASE r = new
    BY <1>2, <2>1 DEF Merging, MergingBody
  <2>2. CASE r \in R
    <3>1. ilut'[r] = {}
      BY <1>2, <1>3, <2>2
    <3> QED BY <3>1 DEF Uncut, Closed
  <2>3. CASE r # new /\ r \notin R
    <3>1. r \in Regions \ Waiting /\ ilut'[r] = ilut[r]
      BY <1>2, <1>3, <1>8, <2>3 DEF Waiting
    <3> QED BY <3>1 DEF Merging, MergingBody
  <2> QED BY <2>1, <2>2, <2>3
<1>9. \A Q \in regs_to_merge' : Uncut(it, HeldBy(Q))
  BY <1>3 DEF Merging, MergingBody
<1>10. (\A S \in SUBSET Leaves :
          Uncut(it, S) => /\ Closed({ilut[r] : r \in Regions}, S)
                          /\ Closed({HeldBy(Q) : Q \in regs_to_merge}, S))'
  <2>1. ASSUME NEW S \in SUBSET Leaves, Uncut(it, S)'
        PROVE  Closed({ilut'[r] : r \in Regions'}, S) /\ Closed({HeldBy(Q)' : Q \in regs_to_merge'}, S)
    <3>1. {HeldBy(Q)' : Q \in regs_to_merge'} = {HeldBy(Q) : Q \in regs_to_merge'}
      BY <1>6
    <3> QED BY <1>5, <1>7, <2>1, <3>1
  <2> QED BY <2>1
<1>11. (\A r \in Regions \ Waiting : Uncut(it, ilut[r]))'
  <2>1. ASSUME NEW r \in Regions', r \notin UNION regs_to_merge'
        PROVE  Uncut(it, ilut[r])'
    <3>1. Uncut(it, ilut'[r])
      BY <1>8, <2>1
    <3> QED BY <3>1 DEF Uncut, scanVars
  <2> QED BY <2>1 DEF Waiting
<1>12. (\A Q \in regs_to_merge : Uncut(it, HeldBy(Q)))'
  <2>1. ASSUME NEW Q \in regs_to_merge' PROVE Uncut(it, HeldBy(Q))'
    <3>1. Uncut(it, HeldBy(Q)) /\ HeldBy(Q)' = HeldBy(Q)
      BY <1>6, <1>9, <2>1
    <3> QED BY <3>1 DEF Uncut, scanVars
  <2> QED BY <2>1
<1> QED BY <1>10, <1>11, <1>12 DEF Merging, MergingBody

\* A step that changes neither the table nor the tree.
LEMMA ComponentsUntouched ==
  ASSUME NEW t, Components(t), UNCHANGED <<scanVars, treeVars>>
  PROVE  Components(t)'
BY DEF Components, Uncut, Regions, scanVars, treeVars

LEMMA ScannedUntouched ==
  ASSUME Scanned, UNCHANGED scanVars
  PROVE  Scanned'
BY DEF Scanned, scanVars

LEMMA ComponentsInductive ==
  ASSUME TypeOK, TreeInv, ComponentsInv, [Next]_vars
  PROVE  ComponentsInv'
<1>1. Scanned /\ Gathering /\ Merging /\ AtRest
  BY DEF ComponentsInv
<1>2. CASE ScanContour
  <2>1. pc = "scan" /\ pc' = "scan" /\ it' = 0 /\ it = 0 /\ Components(0) /\ UNCHANGED treeVars
    BY <1>1, <1>2 DEF ScanContour, AtRest
  <2>2. Components(0)'
    <3>1. \A S : Uncut(0, S)'
      BY DEF Uncut, Strengths
    <3>2. \A S : Uncut(0, S)
      BY DEF Uncut, Strengths
    <3> QED BY <2>1, <3>1, <3>2 DEF Components, Regions, treeVars
  <2> QED BY <1>1, <1>2, <2>1, <2>2, ScanKeeps DEF ComponentsInv, Gathering, Merging, AtRest
<1>3. CASE EndOfScan
  <2>1. /\ pc = "scan" /\ pc' = "next" /\ it' = it /\ it = 0 /\ toScan = {} /\ toScan' = {}
        /\ Components(0) /\ UNCHANGED <<scanVars, treeVars>>
    BY <1>1, <1>3 DEF EndOfScan, AtRest, scanVars
  <2>2. Components(it)'
    BY <2>1 DEF Components, Uncut, Regions, scanVars, treeVars
  <2>3. AtRest' /\ Gathering' /\ Merging'
    BY <2>1, <2>2 DEF AtRest, Gathering, Merging
  <2> QED BY <1>1, <2>1, <2>3, ScannedUntouched DEF ComponentsInv
<1>4. CASE NextStrength
  <2>1. /\ pc = "next" /\ pc' = "gather" /\ it' \in Later /\ \A t \in Later : it' <= t
        /\ leaves_to_merge' = ucm_th_leaves_pairs[it'] /\ regs_to_merge' = {}
        /\ UNCHANGED <<scanVars, treeVars>> /\ Components(it) /\ toScan = {}
    BY <1>1, <1>4 DEF NextStrength, AtRest
  <2>2. it \in Nat /\ it' \in Nat /\ it' > it /\ it' - 1 \in Nat /\ it <= it' - 1 /\ it' \in Strengths
    <3>1. it' \in Strengths /\ it' > it
      BY <2>1 DEF Later
    <3>2. it \in Nat /\ it' \in Nat
      BY <3>1, ConstantTypes DEF Strengths, TypeOK
    <3>3. \A m, n \in Nat : n > m => n - 1 \in Nat /\ m <= n - 1
      OBVIOUS
    <3> QED BY <3>1, <3>2, <3>3
  <2>3. \A v \in Strengths : v > it /\ v <= it' - 1 => ucm_th_leaves_pairs[v] = {}
    <3>1. \A v \in Strengths : v \in Nat
      BY DEF Strengths
    <3>2. \A m, n \in Nat : m <= n - 1 => ~(n <= m)
      OBVIOUS
    <3>3. \A v \in Strengths : v <= it' - 1 => ~(it' <= v)
      BY <2>2, <3>1, <3>2
    <3> QED BY <2>1, <3>3 DEF Later
  <2>4. Components(it' - 1)
    BY <2>1, <2>2, <2>3, ComponentsPassOver
  <2>5. Components(it - 1)'
    BY <2>1, <2>4 DEF Components, Uncut, Regions, scanVars, treeVars
  <2>6. Gathered' = {}
    BY <2>1 DEF Gathered, scanVars
  <2>7. \A X : Closed({}, X)
    BY DEF Closed
  <2>8. Gathering'
    BY <2>1, <2>5, <2>6, <2>7 DEF Gathering, scanVars
  <2>9. AtRest' /\ Merging'
    BY <2>1 DEF AtRest, Merging, scanVars
  <2> QED BY <1>1, <2>1, <2>8, <2>9, ScannedUntouched DEF ComponentsInv
<1>5. CASE GatherRegions
  <2>1. pc = "gather" /\ pc' = "gather" /\ UNCHANGED scanVars
    BY <1>5 DEF GatherRegions
  <2>2. AtRest' /\ Merging'
    BY <1>1, <2>1 DEF AtRest, Merging, scanVars
  <2> QED BY <1>1, <1>5, <2>1, <2>2, GatherKeeps, ScannedUntouched DEF ComponentsInv
<1>6. CASE EndOfGather
  <2>1. pc = "gather" /\ pc' = "merge" /\ UNCHANGED scanVars
    BY <1>6 DEF EndOfGather
  <2>2. AtRest' /\ Gathering'
    BY <1>1, <2>1 DEF AtRest, Gathering, scanVars
  <2> QED BY <1>1, <1>6, <2>1, <2>2, EndOfGatherKeeps, ScannedUntouched DEF ComponentsInv
<1>7. CASE MergeRegions
  <2>1. PICK R \in regs_to_merge : MergesSet(R)
    BY <1>7 DEF MergeRegions, MergesSet
  <2>2. pc = "merge" /\ pc' = "merge" /\ UNCHANGED <<scanVars, it>>
    BY <1>7 DEF MergeRegions
  <2>3. Merging'
    BY <1>1, <2>1, <2>2, MergeKeeps
  <2>4. AtRest' /\ Gathering'
    BY <1>1, <2>2 DEF AtRest, Gathering, scanVars
  <2> QED BY <1>1, <2>2, <2>3, <2>4, ScannedUntouched DEF ComponentsInv
<1>8. CASE EndOfStrength
  <2>1. pc = "merge" /\ pc' = "next" /\ regs_to_merge = {} /\ it' = it /\ UNCHANGED <<scanVars, treeVars>>
    BY <1>8 DEF EndOfStrength
  <2>2. Components(it)
    <3>1. Waiting = {}
      BY <2>1 DEF Waiting
    <3> QED BY <1>1, <2>1, <3>1 DEF Merging, MergingBody, Components
  <2>3. Components(it)'
    BY <2>1, <2>2 DEF Components, Uncut, Regions, scanVars, treeVars
  <2>4. AtRest' /\ Gathering' /\ Merging'
    BY <1>1, <2>1, <2>3 DEF AtRest, Gathering, Merging, scanVars
  <2> QED BY <1>1, <2>1, <2>4, ScannedUntouched DEF ComponentsInv
<1>9. CASE Output
  <2>1. pc = "next" /\ pc' \in {"done", "error"} /\ Later = {} /\ UNCHANGED <<scanVars, treeVars>>
    BY <1>9 DEF Output
  <2>2. Components(One)
    <3>1. it \in Nat /\ One \in Nat /\ it <= One /\ Components(it)
      BY <1>1, <2>1, ConstantTypes DEF TypeOK, AtRest
    <3>2. \A v \in Strengths : v > it /\ v <= One => ucm_th_leaves_pairs[v] = {}
      BY <2>1 DEF Later
    <3> QED BY <3>1, <3>2, ComponentsPassOver
  <2>3. Components(One)'
    BY <2>1, <2>2, ComponentsUntouched
  <2>4. AtRest' /\ Gathering' /\ Merging'
    BY <1>1, <2>1, <2>3 DEF AtRest, Gathering, Merging, scanVars
  <2> QED BY <1>1, <2>1, <2>4, ScannedUntouched DEF ComponentsInv
<1>10. CASE UNCHANGED vars
  <2>1. UNCHANGED <<scanVars, treeVars>> /\ UNCHANGED <<it, leaves_to_merge, regs_to_merge, pc>>
    BY <1>10 DEF vars, scanVars, treeVars
  <2>2. Gathering'
    BY <1>1, <2>1 DEF Gathering, Gathered, RegionsOf, Components, Uncut, Regions, scanVars, treeVars
  <2>3. Merging'
    BY <1>1, <2>1, BodyUntouched DEF Merging
  <2>4. AtRest'
    BY <1>1, <2>1 DEF AtRest, Components, Uncut, Regions, scanVars, treeVars
  <2> QED BY <1>1, <2>1, <2>2, <2>3, <2>4, ScannedUntouched DEF ComponentsInv
<1> QED BY <1>2, <1>3, <1>4, <1>5, <1>6, <1>7, <1>8, <1>9, <1>10 DEF Next

LEMMA ComponentsAlways == Spec => []ComponentsInv
<1>1. Init => ComponentsInv
  BY ComponentsInitially
<1>2. TypeOK /\ TreeInv /\ ComponentsInv /\ [Next]_vars => ComponentsInv'
  BY ComponentsInductive
<1> QED BY <1>1, <1>2, TypeCorrect, TreeAlways, PTL DEF Spec

\* Between strengths the regions of the hierarchy are exactly the components of
\* the image under the contours merged so far.
THEOREM ComponentsCorrect == Spec => []RegionsAreComponents
<1>1. ASSUME TypeOK, ComponentsInv PROVE RegionsAreComponents
  <2>1. SUFFICES ASSUME pc = "next" PROVE RegionsAreComponents
    BY DEF RegionsAreComponents
  <2>2. Components(it) /\ Scanned /\ toScan = {}
    BY <1>1, <2>1 DEF ComponentsInv, AtRest
  <2>3. \A S \in SUBSET Leaves : Closed(SidesUpTo(ucm2, it), S) <=> Uncut(it, S)
    BY <1>1, <2>2, UncutByContours
  <2>4. \A r \in Regions : ilut[r] \in SUBSET Leaves
    BY <1>1 DEF TypeOK
  <2> QED BY <2>2, <2>3, <2>4 DEF RegionsAreComponents, Components
<1>2. TypeOK /\ ComponentsInv => RegionsAreComponents
  BY <1>1
<1> QED BY <1>2, TypeCorrect, ComponentsAlways, PTL
-----------------------------------------------------------------------------
\* The outputs are those of the finished tables.
Ends == [r \in 1 .. curr_max |->
           IF r = curr_max THEN One
           ELSE IF ParentsOf(r) = {} THEN 0 ELSE start_ths[LastParent(r)]]
OutputInv == pc # "error" /\ (pc = "done" => end_ths = Ends)

LEMMA OutputAlways == Spec => []OutputInv
<1>1. Init => OutputInv
  BY DEF Init, OutputInv
<1>2. ASSUME TypeOK, TreeInv, OutputInv, [Next]_vars PROVE OutputInv'
  <2>1. CASE Output
    <3>1. curr_max = Len(start_ths)
      BY <1>2 DEF TreeInv, ForestGrows
    <3>2. end_ths' = Ends /\ pc' = "done" /\ UNCHANGED treeVars
      BY <2>1, <3>1 DEF Output, Ends
    <3>3. Ends' = Ends
      BY <3>2 DEF Ends, ParentsOf, LastParent, treeVars
    <3> QED BY <3>2, <3>3 DEF OutputInv
  <2>2. CASE UNCHANGED vars
    <3>1. Ends' = Ends
      BY <2>2 DEF Ends, ParentsOf, LastParent, vars
    <3> QED BY <1>2, <2>2, <3>1 DEF OutputInv, vars
  <2>3. CASE \/ ScanContour \/ EndOfScan \/ NextStrength \/ GatherRegions \/ EndOfGather
             \/ MergeRegions \/ EndOfStrength
    <3>1. pc' \in {"scan", "next", "gather", "merge"}
      BY <2>3 DEF ScanContour, EndOfScan, NextStrength, GatherRegions, EndOfGather,
                  MergeRegions, EndOfStrength
    <3> QED BY <3>1 DEF OutputInv
  <2> QED BY <1>2, <2>1, <2>2, <2>3 DEF Next
<1>3. TypeOK /\ TreeInv /\ OutputInv /\ [Next]_vars => OutputInv'
  BY <1>2
<1> QED BY <1>1, <1>3, TypeCorrect, TreeAlways, PTL DEF Spec

\* A region with a parent has one, and starts before it.
LEMMA ParentIsUnique ==
  ASSUME TypeOK, ForestGrows, Newest, NEW r \in Regions, ilut[r] = {}
  PROVE  ParentsOf(r) # {} /\ start_ths[r] < start_ths[LastParent(r)]
<1>1. PICK n \in DOMAIN children_labels : r \in children_labels[n]
  BY DEF Newest
<1>2. \A m \in DOMAIN children_labels : r \in children_labels[m] => m = n
  BY <1>1 DEF ForestGrows
<1>3. ParentsOf(r) = {parent_labels[n]}
  BY <1>1, <1>2 DEF ParentsOf
<1>4. parent_labels[n] <= parent_labels[n]
  <2>1. parent_labels[n] = NLeaves + n /\ n \in Nat
    BY <1>1 DEF ForestGrows, TypeOK
  <2> QED BY <2>1, ConstantTypes
<1>5. LastParent(r) = parent_labels[n]
  BY <1>3, <1>4 DEF LastParent
<1> QED BY <1>1, <1>3, <1>5 DEF ForestGrows

\* The outputs of mex_ucm2hier form one tree over the whole image, in which
\* every region disappears at a greater strength than it appears at.
THEOREM LifeSpansCorrect == Spec => []LifeSpans
<1>1. ASSUME TypeOK, TreeInv, ComponentsInv, OutputInv PROVE LifeSpans
  <2>1. pc # "error"
    BY <1>1 DEF OutputInv
  <2>2. SUFFICES ASSUME pc = "done"
                 PROVE  /\ ilut[curr_max] = Leaves
                        /\ \A r \in 1 .. curr_max - 1 : ParentsOf(r) # {} /\ start_ths[r] < end_ths[r]
                        /\ start_ths[curr_max] <= end_ths[curr_max]
    BY <2>1 DEF LifeSpans
  <2>3. /\ TablesAgree /\ ForestGrows /\ Newest /\ ucm2 \in Maps
        /\ Components(One) /\ Scanned /\ toScan = {} /\ end_ths = Ends
    BY <1>1, <2>2 DEF TreeInv, Phases, ComponentsInv, AtRest, OutputInv
  <2>4. curr_max \in Regions /\ curr_max \in Nat /\ One \in Nat
    BY <1>1, ConstantTypes DEF TypeOK, Regions
  <2>5. \A r \in Regions : ilut[r] \in {{}, Leaves}
    <3>1. SUFFICES ASSUME NEW r \in Regions PROVE ilut[r] \in {{}, Leaves}
      OBVIOUS
    <3>2. ilut[r] \in SUBSET Leaves
      BY <1>1 DEF TypeOK
    <3>3. Closed(SidesUpTo(ucm2, One), ilut[r])
      BY <1>1, <2>3, <3>2, UncutByContours DEF Components
    <3> QED BY <2>3, <3>2, <3>3, InputAssumption
  <2>6. ilut[curr_max] = Leaves
    BY <2>3, <2>4, <2>5 DEF Newest
  <2>7. ASSUME NEW r \in Regions, r # curr_max PROVE ilut[r] = {}
    <3>1. ilut[r] = {l \in Leaves : lut[l] = r} /\ ilut[curr_max] = {l \in Leaves : lut[l] = curr_max}
      BY <2>3, <2>4 DEF TablesAgree
    <3> QED BY <2>6, <2>7, <3>1
  <2>8. ASSUME NEW r \in 1 .. curr_max - 1
        PROVE  ParentsOf(r) # {} /\ start_ths[r] < end_ths[r]
    <3>1. r \in Regions /\ r # curr_max
      BY <2>4, <2>8 DEF Regions
    <3>2. ParentsOf(r) # {} /\ start_ths[r] < start_ths[LastParent(r)]
      BY <1>1, <2>3, <2>7, <3>1, ParentIsUnique
    <3>3. end_ths[r] = start_ths[LastParent(r)]
      BY <2>3, <3>1, <3>2 DEF Ends, Regions
    <3> QED BY <3>2, <3>3
  <2>9. start_ths[curr_max] <= end_ths[curr_max]
    <3>1. end_ths[curr_max] = One
      BY <2>3, <2>4 DEF Ends, Regions
    <3>2. start_ths[curr_max] \in 0 .. One
      BY <1>1, <2>3, <2>4, StartsAreStrengths
    <3> QED BY <2>4, <3>1, <3>2
  <2> QED BY <2>6, <2>8, <2>9
<1>2. TypeOK /\ TreeInv /\ ComponentsInv /\ OutputInv => LifeSpans
  BY <1>1
<1> QED BY <1>2, TypeCorrect, TreeAlways, ComponentsAlways, OutputAlways, PTL

-----------------------------------------------------------------------------
(* The tables of a tree of regions: descendants, siblings, ascendants,      *)
(* neighbors.                                                              *)

LEMMA HierarchySizes ==
  ASSUME NEW ms, IsHierarchy(ms)
  PROVE  /\ Len(ms) \in Nat \ {0} /\ n_leaves(ms) \in Nat \ {0}
         /\ n_regs(ms) = n_leaves(ms) + Len(ms) /\ n_regs(ms) \in Nat \ {0}
         /\ DOMAIN ms = 1 .. Len(ms)
         /\ \A i \in 1 .. Len(ms) :
              /\ ms[i].parent = n_leaves(ms) + i /\ ms[i].parent \in 1 .. n_regs(ms)
              /\ ms[i].sons # {} /\ ms[i].sons \subseteq 1 .. n_regs(ms)
              /\ \A s \in ms[i].sons : s \in Nat /\ s < ms[i].parent
<1>1. ms \in Seq([sons : SUBSET Nat, parent : Nat]) /\ ms # <<>> /\ n_leaves(ms) \in Nat \ {0}
  BY DEF IsHierarchy
<1>2. Len(ms) \in Nat \ {0} /\ DOMAIN ms = 1 .. Len(ms)
  BY <1>1
<1>3. n_regs(ms) = n_leaves(ms) + Len(ms)
  BY DEF n_regs
<1>4. n_regs(ms) \in Nat \ {0}
  BY <1>1, <1>2, <1>3
<1>5. ASSUME NEW i \in 1 .. Len(ms)
      PROVE  /\ ms[i].parent = n_leaves(ms) + i /\ ms[i].parent \in 1 .. n_regs(ms)
             /\ ms[i].sons # {} /\ ms[i].sons \subseteq 1 .. n_regs(ms)
             /\ \A s \in ms[i].sons : s \in Nat /\ s < ms[i].parent
  <2>1. /\ ms[i].parent = n_leaves(ms) + i
        /\ ms[i].sons # {} /\ ms[i].sons \subseteq 1 .. n_leaves(ms) + i - 1
    BY <1>2 DEF IsHierarchy
  <2>2. i \in Nat /\ i >= 1 /\ i <= Len(ms)
    BY <1>2
  <2>3. ms[i].parent \in 1 .. n_regs(ms)
    BY <1>1, <1>2, <1>3, <2>1, <2>2
  <2>4. \A s \in ms[i].sons : s \in Nat /\ s >= 1 /\ s < n_leaves(ms) + i
    BY <1>1, <2>1, <2>2
  <2> QED BY <1>1, <1>2, <1>3, <2>1, <2>2, <2>3, <2>4
<1> QED BY <1>1, <1>2, <1>3, <1>4, <1>5

Put(table, r, x) == [table EXCEPT ![r] = x]

FillsUpwards(g, V, v, ms) ==
  /\ g \in [0 .. Len(ms) -> [1 .. n_regs(ms) -> V]]
  /\ \A k \in 1 .. Len(ms) : g[k] = Put(g[k - 1], ms[k].parent, v[k])

KeepsFilled(g, v, ms) ==
  /\ \A k \in 0 .. Len(ms) : \A r \in 1 .. n_leaves(ms) + k : g[Len(ms)][r] = g[k][r]
  /\ \A k \in 1 .. Len(ms) : g[Len(ms)][ms[k].parent] = v[k]

\* A table over the regions that is filled in from the leaves up keeps what it has.
LEMMA FilledUpwards ==
  ASSUME NEW ms, IsHierarchy(ms), NEW V, NEW g, NEW v, FillsUpwards(g, V, v, ms)
  PROVE  KeepsFilled(g, v, ms)
<1> DEFINE N == Len(ms)
           n == n_leaves(ms)
           T == {d \in 0 .. N : \A r \in 1 .. n + (N - d) : g[N][r] = g[N - d][r]}
<1>1. N \in Nat \ {0} /\ n \in Nat \ {0} /\ n_regs(ms) = n + N /\ \A i \in 1 .. N : ms[i].parent = n + i
  BY HierarchySizes
<1> USE DEF FillsUpwards
<1> HIDE DEF N, n
<1>2. 0 \in T
  BY <1>1
<1>3. ASSUME NEW d \in 1 .. N, d - 1 \in T PROVE d \in T
  <2> DEFINE k == N - (d - 1)
  <2>1. k \in 1 .. N /\ k - 1 = N - d /\ k - 1 \in 0 .. N /\ d \in 0 .. N
    BY <1>1
  <2>2. \A r \in 1 .. n + k : g[N][r] = g[k][r]
    BY <1>3
  <2> HIDE DEF k
  <2>3. g[k] = [g[k - 1] EXCEPT ![n + k] = v[k]]
    BY <1>1, <2>1 DEF N, Put
  <2>4. ASSUME NEW r \in 1 .. n + (k - 1) PROVE g[N][r] = g[k - 1][r]
    <3>1. r \in 1 .. n + k /\ r # n + k
      BY <1>1, <2>1
    <3>2. g[k - 1] \in [1 .. n + N -> V]
      BY <1>1, <2>1 DEF N
    <3>4. r \in 1 .. n + N
      BY <1>1, <2>1
    <3>3. g[k][r] = g[k - 1][r]
      BY <2>3, <3>1, <3>2, <3>4
    <3> QED BY <2>2, <3>1, <3>3
  <2> QED BY <2>1, <2>4
<1>4. \A d \in 0 .. N : d \in T
  <2> HIDE DEF T
  <2> QED BY <1>1, <1>2, <1>3, Climb
<1>5. ASSUME NEW k \in 0 .. N PROVE \A r \in 1 .. n + k : g[N][r] = g[k][r]
  <2>1. N - k \in 0 .. N /\ N - (N - k) = k
    BY <1>1
  <2> QED BY <1>4, <2>1
<1>6. ASSUME NEW k \in 1 .. N PROVE g[N][ms[k].parent] = v[k]
  <2>1. k \in 0 .. N /\ k - 1 \in 0 .. N /\ n + k \in 1 .. n + k /\ n + k \in 1 .. n + N
    BY <1>1
  <2>2. g[k - 1] \in [1 .. n + N -> V]
    BY <1>1, <2>1 DEF N
  <2>3. g[k] = [g[k - 1] EXCEPT ![n + k] = v[k]]
    BY <1>1 DEF N, Put
  <2>4. g[k][n + k] = v[k]
    BY <2>1, <2>2, <2>3
  <2>5. g[N][n + k] = g[k][n + k]
    BY <1>5, <2>1
  <2> QED BY <1>1, <2>4, <2>5
<1> QED BY <1>5, <1>6 DEF N, n, KeepsFilled

DescStep(d, m) == [d EXCEPT ![m.parent] = {m.parent} \cup UNION {d[s] : s \in m.sons}]
DescFold(base, ms) == FoldLeft(LAMBDA d, m : [d EXCEPT ![m.parent] = {m.parent} \cup UNION {d[s] : s \in m.sons}], base, ms)
LEMMA DescendantsFold ==
  ASSUME NEW ms, NEW A, NEW base \in A, NEW n \in Nat, DOMAIN ms = 1 .. n,
         \A a \in A : \A k \in 1 .. n :
           DescStep(a, ms[k]) \in A
  PROVE  \E g \in [0 .. n -> A] :
           /\ g[0] = base /\ DescFold(base, ms) = g[n]
           /\ \A k \in 1 .. n :
                g[k] = DescStep(g[k - 1], ms[k])
<1> DEFINE E(a, k) == DescStep(a, ms[k])
           step == [ak \in A \X (1 .. n) |-> E(ak[1], ak[2])]
           F(h) == [s \in SUBSET DOMAIN ms |-> IF s = {} THEN base ELSE E(h[s \ {Max(s)}], Max(s))]
           fold == CHOOSE h : h = F(h)
<1>1. DescFold(base, ms) = fold[1 .. n]
  BY DEF DescFold, DescStep, FoldLeft, MapThenFoldSet
<1>2. \A a \in A : \A k \in 1 .. n : E(a, k) \in A
  OBVIOUS
<1>3. \A g : (\A k \in 1 .. n : g[k] = E(g[k - 1], k)) =>
               \A k \in 1 .. n : g[k] = DescStep(g[k - 1], ms[k])
  OBVIOUS
<1> HIDE DEF E
<1>4. step \in [A \X (1 .. n) -> A] /\ \A a \in A : \A k \in 1 .. n : step[<<a, k>>] = E(a, k)
  BY <1>2
<1> HIDE DEF step
<1>5. PICK h : FoldsSubsets(h, A, base, step, n)
  BY <1>4, FoldSubsetsExist
<1>6. h = F(h)
  <2>1. h \in [SUBSET (1 .. n) -> A]
    BY <1>5 DEF FoldsSubsets
  <2>2. ASSUME NEW s \in SUBSET (1 .. n), s # {}
        PROVE  h[s] = E(h[s \ {Max(s)}], Max(s))
    <3>1. Max(s) \in 1 .. n
      BY <2>2, MaxInInterval
    <3>2. h[s \ {Max(s)}] \in A
      BY <2>1
    <3>3. h[s] = step[<<h[s \ {Max(s)}], Max(s)>>]
      BY <1>5, <2>2 DEF FoldsSubsets
    <3> QED BY <1>4, <3>1, <3>2, <3>3
  <2>3. \A s \in SUBSET (1 .. n) : s = {} => h[s] = base
    BY <1>5 DEF FoldsSubsets
  <2> QED BY <2>1, <2>2, <2>3
<1>7. fold = F(fold)
  <2> HIDE DEF F
  <2> QED BY <1>6
<1> HIDE DEF fold
<1>8. \A s \in SUBSET (1 .. n) : fold[s] = IF s = {} THEN base ELSE E(fold[s \ {Max(s)}], Max(s))
  BY <1>7
<1> HIDE DEF F
<1>9. ASSUME NEW s \in SUBSET (1 .. n), s # {}, fold[s \ {Max(s)}] \in A
      PROVE  fold[s] = step[<<fold[s \ {Max(s)}], Max(s)>>]
  <2>1. Max(s) \in 1 .. n
    BY <1>9, MaxInInterval
  <2> QED BY <1>4, <1>8, <1>9, <2>1
<1>10. FoldsFrom(fold, A, base, step, n)
  BY <1>4, <1>8, <1>9 DEF FoldsFrom
<1>11. PICK g : Accumulates(g, A, base, step, n) /\ fold[1 .. n] = g[n]
  BY <1>10, FoldRuns
<1>12. g \in [0 .. n -> A] /\ g[0] = base
  BY <1>11 DEF Accumulates
<1>13. ASSUME NEW k \in 1 .. n PROVE g[k] = E(g[k - 1], k)
  <2>1. g[k - 1] \in A
    BY <1>12
  <2> QED BY <1>4, <1>11, <2>1 DEF Accumulates
<1>14. \A k \in 1 .. n : g[k] = DescStep(g[k - 1], ms[k])
  BY <1>3, <1>13
<1> QED BY <1>1, <1>11, <1>12, <1>14


LEMMA DescendantsAre ==
  ASSUME NEW ms, IsHierarchy(ms)
  PROVE  /\ descendants(ms) \in [1 .. n_regs(ms) -> SUBSET (1 .. n_regs(ms))]
         /\ \A r \in 1 .. n_leaves(ms) : descendants(ms)[r] = {r}
         /\ \A i \in 1 .. Len(ms) : descendants(ms)[ms[i].parent] =
              {ms[i].parent} \cup UNION {descendants(ms)[s] : s \in ms[i].sons}
<1> DEFINE N == Len(ms)
           n == n_leaves(ms)
           R == 1 .. n_regs(ms)
           A == [R -> SUBSET R]
           base == [r \in R |-> {r}]
           D == descendants(ms)
<1>1. /\ N \in Nat \ {0} /\ n \in Nat \ {0} /\ n_regs(ms) = n + N /\ DOMAIN ms = 1 .. N
      /\ \A i \in 1 .. N : /\ ms[i].parent = n + i /\ ms[i].parent \in R /\ ms[i].sons \subseteq R
                           /\ \A s \in ms[i].sons : s \in Nat /\ s < ms[i].parent
  BY HierarchySizes
<1>2. base \in A
  OBVIOUS
<1>3. D = DescFold(base, ms)
  BY DEF descendants, DescFold
<1> HIDE DEF N, n, D
<1>4. \A a \in A : \A k \in 1 .. N : DescStep(a, ms[k]) \in A
  <2> TAKE a \in A
  <2> TAKE k \in 1 .. N
  <2>1. \A s \in ms[k].sons : a[s] \in SUBSET R
    BY <1>1
  <2>2. {ms[k].parent} \cup UNION {a[s] : s \in ms[k].sons} \in SUBSET R
    BY <1>1, <2>1
  <2> HIDE DEF R
  <2> QED BY <2>2 DEF DescStep
<1> HIDE DEF R, A, base
<1>5. PICK g \in [0 .. N -> A] :
        /\ g[0] = base /\ D = g[N]
        /\ \A k \in 1 .. N : g[k] = DescStep(g[k - 1], ms[k])
  <2>1. N \in Nat /\ DOMAIN ms = 1 .. N
    BY <1>1
  <2> QED BY <1>2, <1>3, <1>4, <2>1, DescendantsFold
<1> DEFINE v == [k \in 1 .. N |-> {ms[k].parent} \cup UNION {g[k - 1][s] : s \in ms[k].sons}]
<1>6. \A k \in 1 .. N : g[k] = Put(g[k - 1], ms[k].parent, v[k])
  BY <1>5 DEF DescStep, Put
<1>7. \A k \in 1 .. N : v[k] = {ms[k].parent} \cup UNION {g[k - 1][s] : s \in ms[k].sons}
  OBVIOUS
<1> HIDE DEF v
<1>8. /\ \A k \in 0 .. N : \A r \in 1 .. n + k : g[N][r] = g[k][r]
      /\ \A k \in 1 .. N : g[N][ms[k].parent] = v[k]
  <2> DEFINE V == SUBSET R
  <2>1. g \in [0 .. Len(ms) -> [1 .. n_regs(ms) -> V]]
    BY DEF N, A, R
  <2>2. \A k \in 1 .. Len(ms) : g[k] = Put(g[k - 1], ms[k].parent, v[k])
    BY <1>6 DEF N
  <2> HIDE DEF V
  <2>3. /\ \A k \in 0 .. Len(ms) : \A r \in 1 .. n_leaves(ms) + k : g[Len(ms)][r] = g[k][r]
        /\ \A k \in 1 .. Len(ms) : g[Len(ms)][ms[k].parent] = v[k]
    <3>1. FillsUpwards(g, V, v, ms)
      BY <2>1, <2>2 DEF FillsUpwards
    <3>2. KeepsFilled(g, v, ms)
      BY <3>1, FilledUpwards
    <3> QED BY <3>2 DEF KeepsFilled
  <2> QED BY <2>3 DEF N, n
<1>9. D \in A
  BY <1>1, <1>5
<1>10. ASSUME NEW r \in 1 .. n PROVE D[r] = {r}
  <2>1. 0 \in 0 .. N /\ r \in 1 .. n + 0 /\ r \in R
    BY <1>1 DEF R
  <2>2. g[N][r] = g[0][r]
    BY <1>8, <2>1
  <2> QED BY <1>5, <2>1, <2>2 DEF base
<1>11. ASSUME NEW i \in 1 .. N
       PROVE  D[ms[i].parent] = {ms[i].parent} \cup UNION {D[s] : s \in ms[i].sons}
  <2>1. \A s \in ms[i].sons : g[i - 1][s] = D[s]
    <3> TAKE s \in ms[i].sons
    <3>1. i - 1 \in 0 .. N /\ s \in 1 .. n + (i - 1)
      BY <1>1 DEF R
    <3> QED BY <1>5, <1>8, <3>1
  <2>2. {g[i - 1][s] : s \in ms[i].sons} = {D[s] : s \in ms[i].sons}
    BY <2>1
  <2> QED BY <1>5, <1>7, <1>8, <2>2
<1> QED BY <1>9, <1>10, <1>11 DEF N, n, A, R, D

\* The regions below one: itself and lower labels, and what is below those.
LEMMA DescendantsBelow ==
  ASSUME NEW ms, IsHierarchy(ms), NEW r \in 1 .. n_regs(ms)
  PROVE  r \in descendants(ms)[r] /\ descendants(ms)[r] \subseteq 1 .. r
<1> DEFINE N == Len(ms)
           n == n_leaves(ms)
           D == descendants(ms)
           T == {x \in 1 .. n + N : x \in D[x] /\ D[x] \subseteq 1 .. x}
<1>1. /\ N \in Nat /\ n \in Nat /\ n_regs(ms) = n + N
      /\ \A i \in 1 .. N : ms[i].parent = n + i /\ \A s \in ms[i].sons : s \in Nat /\ s < n + i
      /\ \A i \in 1 .. N : ms[i].sons \subseteq 1 .. n + N
  BY HierarchySizes
<1>2. /\ \A x \in 1 .. n : D[x] = {x}
      /\ \A i \in 1 .. N : D[ms[i].parent] = {ms[i].parent} \cup UNION {D[s] : s \in ms[i].sons}
  BY DescendantsAre
<1> HIDE DEF N, n, D
<1>3. ASSUME NEW k \in 1 .. n + N, \A j \in 1 .. k - 1 : j \in T
      PROVE  k \in T
  <2>1. CASE k \in 1 .. n
    BY <1>2, <2>1
  <2>2. CASE k \notin 1 .. n
    <3> DEFINE i == k - n
    <3>1. i \in 1 .. N /\ ms[i].parent = k
      BY <1>1, <2>2
    <3>2. D[k] = {k} \cup UNION {D[s] : s \in ms[i].sons}
      BY <1>2, <3>1
    <3>3. ASSUME NEW s \in ms[i].sons, NEW y \in D[s] PROVE y \in 1 .. k
      <4>1. s \in 1 .. k - 1
        BY <1>1, <3>1
      <4>2. D[s] \subseteq 1 .. s
        BY <1>3, <4>1
      <4> QED BY <3>3, <4>1, <4>2
    <3> QED BY <3>2, <3>3
  <2> QED BY <2>1, <2>2
<1>4. \A k \in 1 .. n + N : k \in T
  <2> HIDE DEF T
  <2>1. n + N \in Nat
    BY <1>1
  <2> QED BY <1>3, <2>1, ClimbAll
<1>5. r \in T
  BY <1>1, <1>4
<1> QED BY <1>5 DEF D

LEMMA DescendantsTransitive ==
  ASSUME NEW ms, IsHierarchy(ms), NEW r \in 1 .. n_regs(ms), NEW s \in descendants(ms)[r]
  PROVE  descendants(ms)[s] \subseteq descendants(ms)[r]
<1> DEFINE N == Len(ms)
           n == n_leaves(ms)
           D == descendants(ms)
           T == {x \in 1 .. n + N : \A y \in D[x] : D[y] \subseteq D[x]}
<1>1. /\ N \in Nat /\ n \in Nat /\ n_regs(ms) = n + N
      /\ \A i \in 1 .. N : ms[i].parent = n + i /\ \A x \in ms[i].sons : x \in Nat /\ x < n + i
      /\ \A i \in 1 .. N : ms[i].sons \subseteq 1 .. n + N
  BY HierarchySizes
<1>2. /\ \A x \in 1 .. n : D[x] = {x}
      /\ \A i \in 1 .. N : D[ms[i].parent] = {ms[i].parent} \cup UNION {D[x] : x \in ms[i].sons}
  BY DescendantsAre
<1> HIDE DEF N, n, D
<1>3. ASSUME NEW k \in 1 .. n + N, \A j \in 1 .. k - 1 : j \in T
      PROVE  k \in T
  <2>1. CASE k \in 1 .. n
    BY <1>2, <2>1
  <2>2. CASE k \notin 1 .. n
    <3> DEFINE i == k - n
    <3>1. i \in 1 .. N /\ ms[i].parent = k
      BY <1>1, <2>2
    <3>2. D[k] = {k} \cup UNION {D[x] : x \in ms[i].sons}
      BY <1>2, <3>1
    <3>3. ASSUME NEW x \in ms[i].sons, NEW y \in D[x] PROVE D[y] \subseteq D[k]
      <4>1. x \in 1 .. k - 1
        BY <1>1, <3>1
      <4>2. D[y] \subseteq D[x]
        BY <1>3, <3>3, <4>1
      <4> QED BY <3>2, <4>2
    <3> QED BY <3>2, <3>3
  <2> QED BY <2>1, <2>2
<1>4. \A k \in 1 .. n + N : k \in T
  <2> HIDE DEF T
  <2>1. n + N \in Nat
    BY <1>1
  <2> QED BY <1>3, <2>1, ClimbAll
<1>5. r \in T
  BY <1>1, <1>4
<1> QED BY <1>5 DEF D

-----------------------------------------------------------------------------
(* Trees: where a region is merged.                                        *)

MergedIn(ms) == [r \in 1 .. n_regs(ms) - 1 |-> CHOOSE i \in DOMAIN ms : r \in ms[i].sons]
Parent(ms, r) == ms[MergedIn(ms)[r]].parent

LEMMA MergedOnce ==
  ASSUME NEW ms, IsTree(ms), NEW r \in 1 .. n_regs(ms) - 1
  PROVE  /\ MergedIn(ms)[r] \in 1 .. Len(ms) /\ r \in ms[MergedIn(ms)[r]].sons
         /\ \A i \in 1 .. Len(ms) : r \in ms[i].sons => i = MergedIn(ms)[r]
         /\ Parent(ms, r) = n_leaves(ms) + MergedIn(ms)[r]
         /\ Parent(ms, r) \in 1 .. n_regs(ms) /\ r < Parent(ms, r)
<1>1. IsHierarchy(ms)
  BY DEF IsTree
<1>2. DOMAIN ms = 1 .. Len(ms)
  BY <1>1, HierarchySizes
<1>3. \E i \in DOMAIN ms : r \in ms[i].sons
  BY DEF IsTree
<1>4. MergedIn(ms)[r] \in DOMAIN ms /\ r \in ms[MergedIn(ms)[r]].sons
  BY <1>3 DEF MergedIn
<1>5. \A i, j \in DOMAIN ms : i # j => ms[i].sons \cap ms[j].sons = {}
  BY DEF IsTree
<1>6. \A i \in 1 .. Len(ms) : r \in ms[i].sons => i = MergedIn(ms)[r]
  BY <1>2, <1>4, <1>5
<1>7. /\ Parent(ms, r) = n_leaves(ms) + MergedIn(ms)[r]
      /\ Parent(ms, r) \in 1 .. n_regs(ms) /\ r < Parent(ms, r)
  BY <1>1, <1>2, <1>4, HierarchySizes DEF Parent
<1> QED BY <1>2, <1>4, <1>6, <1>7

\* A parent is below a region if one of its sons is and is not the region.
LEMMA ParentBelow ==
  ASSUME NEW ms, IsTree(ms), NEW r \in 1 .. n_regs(ms), NEW s \in descendants(ms)[r], s # r
  PROVE  s \in 1 .. n_regs(ms) - 1 /\ Parent(ms, s) \in descendants(ms)[r]
<1> DEFINE N == Len(ms)
           n == n_leaves(ms)
           D == descendants(ms)
           Good(x) == \A y \in D[x] : y # x => Parent(ms, y) \in D[x]
           T == {x \in 1 .. n + N : Good(x)}
<1>0. IsHierarchy(ms)
  BY DEF IsTree
<1>1. /\ N \in Nat /\ n \in Nat /\ n_regs(ms) = n + N
      /\ \A i \in 1 .. N : ms[i].parent = n + i /\ \A x \in ms[i].sons : x \in Nat /\ x < n + i
      /\ \A i \in 1 .. N : ms[i].sons \subseteq 1 .. n + N
  BY <1>0, HierarchySizes
<1>2. /\ \A x \in 1 .. n : D[x] = {x}
      /\ \A i \in 1 .. N : D[ms[i].parent] = {ms[i].parent} \cup UNION {D[x] : x \in ms[i].sons}
  BY <1>0, DescendantsAre
<1>3. \A i \in 1 .. N : \A x \in ms[i].sons : Parent(ms, x) = ms[i].parent
  <2> TAKE i \in 1 .. N
  <2> TAKE x \in ms[i].sons
  <2>1. x \in 1 .. n_regs(ms) - 1
    BY <1>1
  <2> QED BY <2>1, MergedOnce DEF Parent
<1> HIDE DEF N, n, D
<1>4. ASSUME NEW k \in 1 .. n + N, \A j \in 1 .. k - 1 : j \in T
      PROVE  k \in T
  <2>1. CASE k \in 1 .. n
    BY <1>2, <2>1
  <2>2. CASE k \notin 1 .. n
    <3> DEFINE i == k - n
    <3>1. i \in 1 .. N /\ ms[i].parent = k
      BY <1>1, <2>2
    <3>2. D[k] = {k} \cup UNION {D[x] : x \in ms[i].sons}
      BY <1>2, <3>1
    <3>3. ASSUME NEW x \in ms[i].sons, NEW y \in D[x] PROVE Parent(ms, y) \in D[k]
      <4>1. x \in 1 .. k - 1
        BY <1>1, <3>1
      <4>2. CASE y = x
        BY <1>3, <3>1, <3>2, <4>2
      <4>3. CASE y # x
        <5>1. Parent(ms, y) \in D[x]
          BY <1>4, <3>3, <4>1, <4>3
        <5> QED BY <3>2, <5>1
      <4> QED BY <4>2, <4>3
    <3>4. Good(k)
      BY <3>2, <3>3
    <3> QED BY <3>4
  <2> QED BY <2>1, <2>2
<1>5. \A k \in 1 .. n + N : k \in T
  <2> HIDE DEF T
  <2>1. n + N \in Nat
    BY <1>1
  <2> QED BY <1>4, <2>1, ClimbAll
<1>6. Good(r)
  BY <1>1, <1>5
<1>7. s \in 1 .. r
  BY <1>0, DescendantsBelow DEF D
<1>8. s \in 1 .. n_regs(ms) - 1
  BY <1>1, <1>7
<1> QED BY <1>6, <1>8 DEF D

\* Everything that is not the root is below its parent, and so below the root.
LEMMA BelowParent ==
  ASSUME NEW ms, IsTree(ms), NEW r \in 1 .. n_regs(ms) - 1
  PROVE  r \in descendants(ms)[Parent(ms, r)]
<1>1. IsHierarchy(ms)
  BY DEF IsTree
<1> DEFINE i == MergedIn(ms)[r]
<1>2. i \in 1 .. Len(ms) /\ r \in ms[i].sons /\ Parent(ms, r) = ms[i].parent
  BY MergedOnce DEF Parent
<1>3. descendants(ms)[ms[i].parent] = {ms[i].parent} \cup UNION {descendants(ms)[s] : s \in ms[i].sons}
  BY <1>1, <1>2, DescendantsAre
<1>4. r \in descendants(ms)[r]
  BY <1>1, HierarchySizes, DescendantsBelow
<1> QED BY <1>2, <1>3, <1>4

\* Two regions have nothing in common unless one is below the other.
LEMMA Laminar ==
  ASSUME NEW ms, IsTree(ms), NEW r \in 1 .. n_regs(ms), NEW s \in 1 .. n_regs(ms),
         NEW x, x \in descendants(ms)[r], x \in descendants(ms)[s]
  PROVE  r \in descendants(ms)[s] \/ s \in descendants(ms)[r]
<1> DEFINE M == n_regs(ms)
           D == descendants(ms)
           T == {d \in 0 .. M : \A y \in 1 .. M : y >= M - d /\ y \in D[r] /\ y \in D[s] => r \in D[s] \/ s \in D[r]}
<1>1. IsHierarchy(ms)
  BY DEF IsTree
<1>2. M \in Nat \ {0}
  BY <1>1, HierarchySizes
<1>3. D[r] \subseteq 1 .. r /\ D[s] \subseteq 1 .. s
  BY <1>1, DescendantsBelow
<1>4. ASSUME NEW d \in 0 .. M, \A e \in 0 .. M : e < d => e \in T,
             NEW y \in 1 .. M, y >= M - d, y \in D[r], y \in D[s]
      PROVE  r \in D[s] \/ s \in D[r]
  <2>1. CASE y = r \/ y = s
    BY <1>4, <2>1
  <2>2. CASE y # r /\ y # s
    <3>1. y \in 1 .. M - 1 /\ Parent(ms, y) \in D[r] /\ Parent(ms, y) \in D[s]
      BY <1>4, <2>2, ParentBelow
    <3>2. Parent(ms, y) \in 1 .. M /\ y < Parent(ms, y)
      BY <3>1, MergedOnce
    <3> DEFINE z == Parent(ms, y)
    <3>3. z \in 1 .. M /\ y < z /\ z \in D[r] /\ z \in D[s]
      BY <3>1, <3>2
    <3> HIDE DEF z, M, D
    <3>4. M - z \in 0 .. M /\ M - z < d /\ z >= M - (M - z)
      BY <1>2, <1>4, <3>3
    <3>5. M - z \in T
      BY <1>4, <3>4
    <3> QED BY <3>3, <3>4, <3>5
  <2> QED BY <2>1, <2>2
<1>5. \A d \in 0 .. M : d \in T
  <2>1. 0 \in T
    BY <1>2, <1>4
  <2>2. ASSUME NEW d \in 1 .. M, d - 1 \in T PROVE d \in T
    <3>1. ASSUME NEW e \in 0 .. M, e < d PROVE e \in T
      <4>1. \A y \in 1 .. M : y >= M - e => y >= M - (d - 1)
        BY <1>2, <3>1
      <4> QED BY <2>2, <4>1
    <3> QED BY <1>2, <1>4, <3>1
  <2> HIDE DEF T
  <2>3. M \in Nat
    BY <1>2
  <2> HIDE DEF M
  <2> QED BY <2>1, <2>2, <2>3, Climb
<1>6. x \in 1 .. M /\ M \in T /\ x >= M - M
  BY <1>2, <1>3, <1>5
<1> QED BY <1>6

LEMMA TreeSizes ==
  ASSUME NEW ms, IsTree(ms)
  PROVE  /\ IsHierarchy(ms)
         /\ Len(ms) \in Nat \ {0} /\ n_leaves(ms) \in Nat \ {0}
         /\ n_regs(ms) = n_leaves(ms) + Len(ms) /\ n_regs(ms) \in Nat \ {0}
         /\ DOMAIN ms = 1 .. Len(ms)
         /\ \A i \in 1 .. Len(ms) :
              /\ ms[i].parent = n_leaves(ms) + i /\ ms[i].parent \in 1 .. n_regs(ms)
              /\ ms[i].sons # {} /\ ms[i].sons \subseteq 1 .. n_regs(ms)
              /\ \A s \in ms[i].sons : s \in 1 .. n_regs(ms) - 1 /\ s < ms[i].parent
                                       /\ MergedIn(ms)[s] = i
<1>1. IsHierarchy(ms)
  BY DEF IsTree
<1>2. ASSUME NEW i \in 1 .. Len(ms), NEW s \in ms[i].sons
      PROVE  s \in 1 .. n_regs(ms) - 1 /\ s < ms[i].parent /\ MergedIn(ms)[s] = i
  <2>1. s \in 1 .. n_regs(ms) - 1 /\ s < ms[i].parent
    BY <1>1, HierarchySizes
  <2> QED BY <2>1, MergedOnce
<1>3. /\ Len(ms) \in Nat \ {0} /\ n_leaves(ms) \in Nat \ {0}
      /\ n_regs(ms) = n_leaves(ms) + Len(ms) /\ n_regs(ms) \in Nat \ {0}
      /\ DOMAIN ms = 1 .. Len(ms)
  BY <1>1, HierarchySizes
<1>4. \A i \in 1 .. Len(ms) : ms[i].parent = n_leaves(ms) + i /\ ms[i].parent \in 1 .. n_regs(ms)
                              /\ ms[i].sons # {} /\ ms[i].sons \subseteq 1 .. n_regs(ms)
  BY <1>1, HierarchySizes
<1> QED BY <1>1, <1>2, <1>3, <1>4

-----------------------------------------------------------------------------
(* Siblings.                                                               *)

SiblingStep(f, m) == [r \in DOMAIN f |-> IF r \in m.sons THEN m.sons \ {r} ELSE f[r]]
SiblingFold(base, ms) ==
  FoldLeft(LAMBDA f, m : [r \in DOMAIN f |-> IF r \in m.sons THEN m.sons \ {r} ELSE f[r]], base, ms)

LEMMA SiblingsFold ==
  ASSUME NEW ms, NEW A, NEW base \in A, NEW n \in Nat, DOMAIN ms = 1 .. n,
         \A a \in A : \A k \in 1 .. n :
           SiblingStep(a, ms[k]) \in A
  PROVE  \E g \in [0 .. n -> A] :
           /\ g[0] = base /\ SiblingFold(base, ms) = g[n]
           /\ \A k \in 1 .. n :
                g[k] = SiblingStep(g[k - 1], ms[k])
<1> DEFINE E(a, k) == SiblingStep(a, ms[k])
           step == [ak \in A \X (1 .. n) |-> E(ak[1], ak[2])]
           F(h) == [s \in SUBSET DOMAIN ms |-> IF s = {} THEN base ELSE E(h[s \ {Max(s)}], Max(s))]
           fold == CHOOSE h : h = F(h)
<1>1. SiblingFold(base, ms) = fold[1 .. n]
  BY DEF SiblingFold, SiblingStep, FoldLeft, MapThenFoldSet
<1>2. \A a \in A : \A k \in 1 .. n : E(a, k) \in A
  OBVIOUS
<1>3. \A g : (\A k \in 1 .. n : g[k] = E(g[k - 1], k)) =>
               \A k \in 1 .. n : g[k] = SiblingStep(g[k - 1], ms[k])
  OBVIOUS
<1> HIDE DEF E
<1>4. step \in [A \X (1 .. n) -> A] /\ \A a \in A : \A k \in 1 .. n : step[<<a, k>>] = E(a, k)
  BY <1>2
<1> HIDE DEF step
<1>5. PICK h : FoldsSubsets(h, A, base, step, n)
  BY <1>4, FoldSubsetsExist
<1>6. h = F(h)
  <2>1. h \in [SUBSET (1 .. n) -> A]
    BY <1>5 DEF FoldsSubsets
  <2>2. ASSUME NEW s \in SUBSET (1 .. n), s # {}
        PROVE  h[s] = E(h[s \ {Max(s)}], Max(s))
    <3>1. Max(s) \in 1 .. n
      BY <2>2, MaxInInterval
    <3>2. h[s \ {Max(s)}] \in A
      BY <2>1
    <3>3. h[s] = step[<<h[s \ {Max(s)}], Max(s)>>]
      BY <1>5, <2>2 DEF FoldsSubsets
    <3> QED BY <1>4, <3>1, <3>2, <3>3
  <2>3. \A s \in SUBSET (1 .. n) : s = {} => h[s] = base
    BY <1>5 DEF FoldsSubsets
  <2> QED BY <2>1, <2>2, <2>3
<1>7. fold = F(fold)
  <2> HIDE DEF F
  <2> QED BY <1>6
<1> HIDE DEF fold
<1>8. \A s \in SUBSET (1 .. n) : fold[s] = IF s = {} THEN base ELSE E(fold[s \ {Max(s)}], Max(s))
  BY <1>7
<1> HIDE DEF F
<1>9. ASSUME NEW s \in SUBSET (1 .. n), s # {}, fold[s \ {Max(s)}] \in A
      PROVE  fold[s] = step[<<fold[s \ {Max(s)}], Max(s)>>]
  <2>1. Max(s) \in 1 .. n
    BY <1>9, MaxInInterval
  <2> QED BY <1>4, <1>8, <1>9, <2>1
<1>10. FoldsFrom(fold, A, base, step, n)
  BY <1>4, <1>8, <1>9 DEF FoldsFrom
<1>11. PICK g : Accumulates(g, A, base, step, n) /\ fold[1 .. n] = g[n]
  BY <1>10, FoldRuns
<1>12. g \in [0 .. n -> A] /\ g[0] = base
  BY <1>11 DEF Accumulates
<1>13. ASSUME NEW k \in 1 .. n PROVE g[k] = E(g[k - 1], k)
  <2>1. g[k - 1] \in A
    BY <1>12
  <2> QED BY <1>4, <1>11, <2>1 DEF Accumulates
<1>14. \A k \in 1 .. n : g[k] = SiblingStep(g[k - 1], ms[k])
  BY <1>3, <1>13
<1> QED BY <1>1, <1>11, <1>12, <1>14


LEMMA SiblingsAre ==
  ASSUME NEW ms, IsTree(ms)
  PROVE  /\ siblings(ms) \in [1 .. n_regs(ms) -> SUBSET (1 .. n_regs(ms))]
         /\ \A i \in 1 .. Len(ms) : \A r \in ms[i].sons : siblings(ms)[r] = ms[i].sons \ {r}
         /\ siblings(ms)[n_regs(ms)] = {}
<1> DEFINE N == Len(ms)
           M == n_regs(ms)
           R == 1 .. M
           A == [R -> SUBSET R]
           base == [r \in R |-> {}]
           S == siblings(ms)
           sons(i) == ms[i].sons
           in == MergedIn(ms)
<1>1. N \in Nat /\ M \in Nat \ {0} /\ DOMAIN ms = 1 .. N
  BY TreeSizes
<1>2. \A i \in 1 .. N : \A s \in ms[i].sons : s \in 1 .. M - 1 /\ in[s] = i
  BY TreeSizes
<1>3. \A r \in 1 .. M - 1 : in[r] \in 1 .. N /\ r \in ms[in[r]].sons
  BY MergedOnce
<1>4. base \in A
  OBVIOUS
<1>5. S = SiblingFold(base, ms)
  BY DEF siblings, SiblingFold
<1> HIDE DEF S, N, M, in
<1>6. \A a \in A : \A k \in 1 .. N : SiblingStep(a, ms[k]) \in A
  <2> TAKE a \in A
  <2> TAKE k \in 1 .. N
  <2>1. ms[k].sons \subseteq R
    BY <1>1, <1>2
  <2> HIDE DEF R
  <2> QED BY <2>1 DEF SiblingStep
<1>7. PICK g \in [0 .. N -> A] :
        /\ g[0] = base /\ S = g[N]
        /\ \A k \in 1 .. N : g[k] = SiblingStep(g[k - 1], ms[k])
  <2> HIDE DEF A, base
  <2> QED BY <1>1, <1>4, <1>5, <1>6, SiblingsFold
<1> DEFINE Good(k) == \A r \in R : g[k][r] = IF r \in 1 .. M - 1 /\ in[r] <= k THEN ms[in[r]].sons \ {r} ELSE {}
           T == {k \in 0 .. N : Good(k)}
<1>8. 0 \in T
  <2>1. \A r \in R : r \in 1 .. M - 1 => ~ in[r] <= 0
    BY <1>1, <1>3
  <2>2. \A r \in R : g[0][r] = {}
    BY <1>7
  <2>3. Good(0)
    BY <2>1, <2>2
  <2>4. 0 \in 0 .. N
    BY <1>1
  <2> HIDE DEF Good
  <2> QED BY <2>3, <2>4
<1>9. ASSUME NEW k \in 1 .. N, k - 1 \in T PROVE k \in T
  <2>0. k - 1 \in 0 .. N /\ k \in 0 .. N
    BY <1>1
  <2>1. g[k - 1] \in A /\ DOMAIN g[k - 1] = R
    BY <1>7, <2>0
  <2>2. g[k] = [r \in R |-> IF r \in ms[k].sons THEN ms[k].sons \ {r} ELSE g[k - 1][r]]
    BY <1>7, <2>1 DEF SiblingStep
  <2>3. ASSUME NEW r \in R
        PROVE  g[k][r] = IF r \in 1 .. M - 1 /\ in[r] <= k THEN ms[in[r]].sons \ {r} ELSE {}
    <3>1. g[k - 1][r] = IF r \in 1 .. M - 1 /\ in[r] <= k - 1 THEN ms[in[r]].sons \ {r} ELSE {}
      BY <1>9
    <3>2. g[k][r] = IF r \in ms[k].sons THEN ms[k].sons \ {r} ELSE g[k - 1][r]
      BY <2>2
    <3>3. CASE r \in ms[k].sons
      <4>1. r \in 1 .. M - 1 /\ in[r] = k
        BY <1>2, <3>3
      <4> QED BY <3>2, <3>3, <4>1
    <3>4. CASE r \notin ms[k].sons
      <4>1. r \in 1 .. M - 1 => in[r] \in 1 .. N /\ in[r] # k
        BY <1>3, <3>4
      <4>2. r \in 1 .. M - 1 => (in[r] <= k <=> in[r] <= k - 1)
        BY <1>1, <4>1
      <4> QED BY <3>1, <3>2, <3>4, <4>2
    <3> QED BY <3>3, <3>4
  <2>4. Good(k)
    BY <2>3
  <2> HIDE DEF Good
  <2> QED BY <2>0, <2>4
<1>10. Good(N)
  <2>1. \A k \in 0 .. N : k \in T
    <3> HIDE DEF T
    <3> QED BY <1>1, <1>8, <1>9, Climb
  <2> HIDE DEF Good
  <2>2. N \in T
    BY <1>1, <2>1
  <2> QED BY <2>2
<1>11. S \in A
  BY <1>1, <1>7
<1>12. ASSUME NEW i \in 1 .. N, NEW r \in ms[i].sons PROVE S[r] = ms[i].sons \ {r}
  <2>1. r \in 1 .. M - 1 /\ in[r] = i /\ r \in R /\ i <= N
    BY <1>1, <1>2
  <2> QED BY <1>7, <1>10, <2>1
<1>13. S[M] = {}
  <2>1. M \in R /\ M \notin 1 .. M - 1
    BY <1>1
  <2> QED BY <1>7, <1>10, <2>1
<1> QED BY <1>11, <1>12, <1>13 DEF S, N, M

-----------------------------------------------------------------------------
(* Ascendants.                                                             *)

AscendStep(a, m) ==
  [r \in DOMAIN a |-> IF r \in m.sons THEN a[r] \cup {m.parent} \cup a[m.parent] ELSE a[r]]
AscendFold(base, ms) ==
  FoldLeft(LAMBDA a, m : [r \in DOMAIN a |-> IF r \in m.sons THEN a[r] \cup {m.parent} \cup a[m.parent]
                                             ELSE a[r]], base, ms)

LEMMA AscendantsFold ==
  ASSUME NEW ms, NEW A, NEW base \in A, NEW n \in Nat, DOMAIN ms = 1 .. n,
         \A a \in A : \A k \in 1 .. n :
           AscendStep(a, ms[k]) \in A
  PROVE  \E g \in [0 .. n -> A] :
           /\ g[0] = base /\ AscendFold(base, ms) = g[n]
           /\ \A k \in 1 .. n :
                g[k] = AscendStep(g[k - 1], ms[k])
<1> DEFINE E(a, k) == AscendStep(a, ms[k])
           step == [ak \in A \X (1 .. n) |-> E(ak[1], ak[2])]
           F(h) == [s \in SUBSET DOMAIN ms |-> IF s = {} THEN base ELSE E(h[s \ {Max(s)}], Max(s))]
           fold == CHOOSE h : h = F(h)
<1>1. AscendFold(base, ms) = fold[1 .. n]
  BY DEF AscendFold, AscendStep, FoldLeft, MapThenFoldSet
<1>2. \A a \in A : \A k \in 1 .. n : E(a, k) \in A
  OBVIOUS
<1>3. \A g : (\A k \in 1 .. n : g[k] = E(g[k - 1], k)) =>
               \A k \in 1 .. n : g[k] = AscendStep(g[k - 1], ms[k])
  OBVIOUS
<1> HIDE DEF E
<1>4. step \in [A \X (1 .. n) -> A] /\ \A a \in A : \A k \in 1 .. n : step[<<a, k>>] = E(a, k)
  BY <1>2
<1> HIDE DEF step
<1>5. PICK h : FoldsSubsets(h, A, base, step, n)
  BY <1>4, FoldSubsetsExist
<1>6. h = F(h)
  <2>1. h \in [SUBSET (1 .. n) -> A]
    BY <1>5 DEF FoldsSubsets
  <2>2. ASSUME NEW s \in SUBSET (1 .. n), s # {}
        PROVE  h[s] = E(h[s \ {Max(s)}], Max(s))
    <3>1. Max(s) \in 1 .. n
      BY <2>2, MaxInInterval
    <3>2. h[s \ {Max(s)}] \in A
      BY <2>1
    <3>3. h[s] = step[<<h[s \ {Max(s)}], Max(s)>>]
      BY <1>5, <2>2 DEF FoldsSubsets
    <3> QED BY <1>4, <3>1, <3>2, <3>3
  <2>3. \A s \in SUBSET (1 .. n) : s = {} => h[s] = base
    BY <1>5 DEF FoldsSubsets
  <2> QED BY <2>1, <2>2, <2>3
<1>7. fold = F(fold)
  <2> HIDE DEF F
  <2> QED BY <1>6
<1> HIDE DEF fold
<1>8. \A s \in SUBSET (1 .. n) : fold[s] = IF s = {} THEN base ELSE E(fold[s \ {Max(s)}], Max(s))
  BY <1>7
<1> HIDE DEF F
<1>9. ASSUME NEW s \in SUBSET (1 .. n), s # {}, fold[s \ {Max(s)}] \in A
      PROVE  fold[s] = step[<<fold[s \ {Max(s)}], Max(s)>>]
  <2>1. Max(s) \in 1 .. n
    BY <1>9, MaxInInterval
  <2> QED BY <1>4, <1>8, <1>9, <2>1
<1>10. FoldsFrom(fold, A, base, step, n)
  BY <1>4, <1>8, <1>9 DEF FoldsFrom
<1>11. PICK g : Accumulates(g, A, base, step, n) /\ fold[1 .. n] = g[n]
  BY <1>10, FoldRuns
<1>12. g \in [0 .. n -> A] /\ g[0] = base
  BY <1>11 DEF Accumulates
<1>13. ASSUME NEW k \in 1 .. n PROVE g[k] = E(g[k - 1], k)
  <2>1. g[k - 1] \in A
    BY <1>12
  <2> QED BY <1>4, <1>11, <2>1 DEF Accumulates
<1>14. \A k \in 1 .. n : g[k] = AscendStep(g[k - 1], ms[k])
  BY <1>3, <1>13
<1> QED BY <1>1, <1>11, <1>12, <1>14


LEMMA AscendantsFollow ==
  ASSUME NEW ms, IsTree(ms)
  PROVE  /\ ascendants(ms) \in [1 .. n_regs(ms) -> SUBSET (1 .. n_regs(ms))]
         /\ ascendants(ms)[n_regs(ms)] = {}
         /\ \A r \in 1 .. n_regs(ms) - 1 :
              ascendants(ms)[r] = {Parent(ms, r)} \cup ascendants(ms)[Parent(ms, r)]
<1> DEFINE N == Len(ms)
           n == n_leaves(ms)
           M == n_regs(ms)
           R == 1 .. M
           A == [R -> SUBSET R]
           base == [r \in R |-> {}]
           U == ascendants(ms)
           in == MergedIn(ms)
           rev == Reverse(ms)
<1>1. N \in Nat /\ M \in Nat \ {0} /\ DOMAIN ms = 1 .. N /\ n \in Nat /\ M = n + N
  BY TreeSizes
<1>2. \A i \in 1 .. N : /\ ms[i].parent = n + i /\ ms[i].parent \in R
                        /\ \A s \in ms[i].sons : s \in 1 .. M - 1 /\ in[s] = i
  BY TreeSizes
<1>3. \A r \in 1 .. M - 1 : /\ in[r] \in 1 .. N /\ r \in ms[in[r]].sons
                            /\ Parent(ms, r) = n + in[r] /\ r < Parent(ms, r) /\ Parent(ms, r) \in R
  BY MergedOnce
<1>4. base \in A
  OBVIOUS
<1>5. U = AscendFold(base, rev)
  BY DEF ascendants, AscendFold
<1>6. DOMAIN rev = 1 .. N /\ \A k \in 1 .. N : rev[k] = ms[N + 1 - k]
  <2>1. rev = [i \in 1 .. N |-> ms[(N - i) + 1]]
    BY DEF Reverse
  <2> HIDE DEF rev, N
  <2>2. \A k \in 1 .. N : (N - k) + 1 = N + 1 - k
    BY <1>1
  <2> QED BY <2>1, <2>2
<1> HIDE DEF U, N, M, n, in, rev
<1>7. \A a \in A : \A k \in 1 .. N : AscendStep(a, rev[k]) \in A
  <2> TAKE a \in A
  <2> TAKE k \in 1 .. N
  <2>1. N + 1 - k \in 1 .. N
    BY <1>1
  <2>2. rev[k].parent \in R
    BY <1>2, <1>6, <2>1
  <2> HIDE DEF R
  <2> QED BY <2>2 DEF AscendStep
<1>8. PICK g \in [0 .. N -> A] :
        /\ g[0] = base /\ U = g[N]
        /\ \A k \in 1 .. N : g[k] = AscendStep(g[k - 1], rev[k])
  <2> HIDE DEF A, base
  <2>1. N \in Nat /\ DOMAIN rev = 1 .. N
    BY <1>1, <1>6
  <2> QED BY <1>4, <1>5, <1>7, <2>1, AscendantsFold
<1>9. ASSUME NEW k \in 1 .. N, NEW r \in R
      PROVE  /\ k - 1 \in 0 .. N
             /\ r \in ms[N + 1 - k].sons =>
                  g[k][r] = g[k - 1][r] \cup {n + (N + 1 - k)} \cup g[k - 1][n + (N + 1 - k)]
             /\ r \notin ms[N + 1 - k].sons => g[k][r] = g[k - 1][r]
  <2>0. k - 1 \in 0 .. N
    BY <1>1
  <2>1. k - 1 \in 0 .. N /\ DOMAIN g[k - 1] = R
    BY <1>8, <2>0
  <2>2. N + 1 - k \in 1 .. N
    BY <1>1
  <2>3. rev[k] = ms[N + 1 - k] /\ ms[N + 1 - k].parent = n + (N + 1 - k)
    BY <1>2, <1>6, <2>2
  <2>4. g[k] = AscendStep(g[k - 1], ms[N + 1 - k])
    BY <1>8, <2>3
  <2>5. g[k][r] = IF r \in ms[N + 1 - k].sons
                  THEN g[k - 1][r] \cup {n + (N + 1 - k)} \cup g[k - 1][n + (N + 1 - k)] ELSE g[k - 1][r]
    BY <2>1, <2>3, <2>4 DEF AscendStep
  <2> QED BY <2>1, <2>5
\* Nothing yet for what is merged earlier, and for the root.
<1> DEFINE None(k) == \A r \in R : (r = M \/ in[r] < N + 1 - k) => g[k][r] = {}
           T == {k \in 0 .. N : None(k)}
<1>10. 0 \in T
  BY <1>1, <1>8
<1>11. ASSUME NEW k \in 1 .. N, k - 1 \in T PROVE k \in T
  <2>1. ASSUME NEW r \in R, r = M \/ in[r] < N + 1 - k PROVE g[k][r] = {}
    <3>1. N + 1 - k \in 1 .. N
      BY <1>1
    <3>2. r \notin ms[N + 1 - k].sons
      <4>1. SUFFICES ASSUME r \in ms[N + 1 - k].sons PROVE FALSE
        OBVIOUS
      <4>2. r \in 1 .. M - 1 /\ in[r] = N + 1 - k
        BY <1>2, <3>1, <4>1
      <4> QED BY <1>1, <2>1, <3>1, <4>2
    <3>3. r = M \/ in[r] < N + 1 - (k - 1)
      <4>1. r # M => in[r] \in 1 .. N
        BY <1>1, <1>3
      <4> QED BY <1>1, <2>1, <4>1
    <3> QED BY <1>9, <1>11, <3>2, <3>3
  <2> QED BY <2>1
<1>12. \A k \in 0 .. N : None(k)
  <2>1. \A k \in 0 .. N : k \in T
    <3> HIDE DEF T
    <3> QED BY <1>1, <1>10, <1>11, Climb
  <2> QED BY <2>1
\* What is filled in stays.
<1> DEFINE Kept(j) == \A r \in R, k \in 0 .. N : k <= j /\ (r = M \/ in[r] >= N + 1 - k) => g[j][r] = g[k][r]
           V == {j \in 0 .. N : Kept(j)}
<1>13. 0 \in V
  <2>1. \A k \in 0 .. N : k <= 0 => k = 0
    BY <1>1
  <2> QED BY <1>1, <2>1
<1>14. ASSUME NEW j \in 1 .. N, j - 1 \in V PROVE j \in V
  <2>1. ASSUME NEW r \in R, NEW k \in 0 .. N, k <= j, r = M \/ in[r] >= N + 1 - k
        PROVE  g[j][r] = g[k][r]
    <3>1. CASE k = j
      BY <3>1
    <3>2. CASE k # j
      <4>1. k <= j - 1
        BY <1>1, <2>1, <3>2
      <4>2. g[j - 1][r] = g[k][r]
        BY <1>14, <2>1, <4>1
      <4>3. r \notin ms[N + 1 - j].sons
        <5>1. SUFFICES ASSUME r \in ms[N + 1 - j].sons PROVE FALSE
          OBVIOUS
        <5>2. N + 1 - j \in 1 .. N
          BY <1>1
        <5>3. r \in 1 .. M - 1 /\ in[r] = N + 1 - j
          BY <1>2, <5>1, <5>2
        <5> QED BY <1>1, <2>1, <4>1, <5>3
      <4> QED BY <1>9, <4>2, <4>3
    <3> QED BY <3>1, <3>2
  <2> QED BY <2>1
<1>15. Kept(N)
  <2>1. \A j \in 0 .. N : j \in V
    <3> HIDE DEF V
    <3> QED BY <1>1, <1>13, <1>14, Climb
  <2> QED BY <1>1, <2>1
<1> HIDE DEF T, V, None, Kept
<1>16. U[M] = {}
  BY <1>1, <1>8, <1>12 DEF None
<1>17. ASSUME NEW r \in 1 .. M - 1
       PROVE  U[r] = {Parent(ms, r)} \cup U[Parent(ms, r)]
  <2> DEFINE k == N + 1 - in[r]
             p == n + in[r]
  <2>1. k \in 1 .. N /\ N + 1 - k = in[r] /\ k \in 0 .. N /\ k - 1 \in 0 .. N /\ r \in R /\ p \in R
    <3>1. in[r] \in 1 .. N /\ N \in Nat /\ n \in Nat
      BY <1>1, <1>3
    <3>2. k \in 1 .. N /\ N + 1 - k = in[r] /\ k \in 0 .. N /\ k - 1 \in 0 .. N
      BY <3>1
    <3> QED BY <1>1, <1>3, <3>1, <3>2
  <2>2. r \in ms[N + 1 - k].sons /\ Parent(ms, r) = p
    BY <1>3, <2>1
  <2>3. g[k][r] = g[k - 1][r] \cup {p} \cup g[k - 1][p]
    BY <1>9, <2>1, <2>2
  <2>4. g[k - 1][r] = {}
    <3>1. in[r] < N + 1 - (k - 1)
      BY <1>1, <1>3
    <3> HIDE DEF k
    <3> QED BY <1>12, <2>1, <3>1 DEF None
  <2>5. U[r] = g[k][r]
    <3>1. in[r] >= N + 1 - k /\ k <= N
      BY <1>1, <1>3
    <3> HIDE DEF k
    <3> QED BY <1>8, <1>15, <2>1, <3>1 DEF Kept
  <2>6. U[p] = g[k - 1][p]
    <3>1. p = M \/ in[p] >= N + 1 - (k - 1)
      <4>1. SUFFICES ASSUME p # M PROVE in[p] >= N + 1 - (k - 1)
        OBVIOUS
      <4>2. p \in 1 .. M - 1
        <5>1. p # M /\ p \in 1 .. M
          BY <2>1, <4>1
        <5> HIDE DEF p
        <5> QED BY <1>1, <5>1
      <4>3. in[p] \in 1 .. N /\ p < n + in[p]
        BY <1>3, <4>2
      <4>4. in[r] \in 1 .. N /\ n + in[r] < n + in[p]
        BY <1>3, <4>3
      <4>5. in[r] < in[p]
        BY <1>1, <4>3, <4>4
      <4> QED BY <1>1, <4>3, <4>4, <4>5
    <3>2. k - 1 <= N
      BY <1>1, <2>1
    <3> HIDE DEF k, p
    <3> QED BY <1>8, <1>15, <2>1, <3>1, <3>2 DEF Kept
  <2> QED BY <2>2, <2>3, <2>4, <2>5, <2>6
<1>18. U \in A
  BY <1>1, <1>8
<1> QED BY <1>16, <1>17, <1>18 DEF U, M

\* The ascendants of a region are those it is below.
LEMMA AscendantsAre ==
  ASSUME NEW ms, IsTree(ms), NEW r \in 1 .. n_regs(ms), NEW s \in 1 .. n_regs(ms)
  PROVE  r \in ascendants(ms)[s] <=> s \in descendants(ms)[r] /\ s # r
<1> DEFINE M == n_regs(ms)
           D == descendants(ms)
           U == ascendants(ms)
           Good(y) == r \in U[y] <=> y \in D[r] /\ y # r
           T == {d \in 0 .. M : \A y \in 1 .. M : y >= M - d => Good(y)}
<1>1. IsHierarchy(ms)
  BY DEF IsTree
<1>2. M \in Nat \ {0}
  BY <1>1, HierarchySizes
<1>3. D[r] \subseteq 1 .. r
  BY <1>1, DescendantsBelow
<1>4. ASSUME NEW y \in 1 .. M, y # M, Good(Parent(ms, y)) PROVE Good(y)
  <2>1. y \in 1 .. M - 1
    BY <1>2, <1>4
  <2> DEFINE p == Parent(ms, y)
  <2>2. p \in 1 .. M /\ y < p
    BY <2>1, MergedOnce
  <2>3. U[y] = {p} \cup U[p]
    BY <2>1, AscendantsFollow
  <2>4. ASSUME r \in U[y] PROVE y \in D[r] /\ y # r
    <3>1. p \in D[r]
      <4>1. r = p \/ r \in U[p]
        BY <2>3, <2>4
      <4>2. r = p => p \in D[r]
        BY <1>1, DescendantsBelow
      <4> QED BY <1>4, <4>1, <4>2
    <3>2. y \in D[p]
      BY <2>1, BelowParent
    <3>3. y \in D[r]
      BY <1>1, <3>1, <3>2, DescendantsTransitive
    <3>4. p <= r
      BY <1>3, <3>1
    <3>5. y # r
      BY <2>2, <3>4
    <3> QED BY <3>3, <3>5
  <2>5. ASSUME y \in D[r], y # r PROVE r \in U[y]
    <3>1. p \in D[r]
      BY <2>5, ParentBelow
    <3>2. CASE p = r
      BY <2>3, <3>2
    <3>3. CASE p # r
      BY <1>4, <2>3, <3>1, <3>3
    <3> QED BY <3>2, <3>3
  <2> QED BY <2>4, <2>5
<1>5. Good(M)
  <2>1. U[M] = {}
    BY AscendantsFollow
  <2>2. M \in D[r] => M = r
    BY <1>2, <1>3
  <2> QED BY <2>1, <2>2
<1> HIDE DEF Good
<1>6. 0 \in T
  <2>1. \A y \in 1 .. M : y >= M - 0 => y = M
    BY <1>2
  <2> QED BY <1>2, <1>5, <2>1
<1>7. ASSUME NEW d \in 1 .. M, d - 1 \in T PROVE d \in T
  <2>1. ASSUME NEW y \in 1 .. M, y >= M - d PROVE Good(y)
    <3>1. CASE y = M
      BY <1>5, <3>1
    <3>2. CASE y # M
      <4>1. y \in 1 .. M - 1
        BY <1>2, <3>2
      <4>2. Parent(ms, y) \in 1 .. M /\ y < Parent(ms, y)
        BY <4>1, MergedOnce
      <4>3. Parent(ms, y) >= M - (d - 1)
        BY <1>2, <2>1, <4>2
      <4>4. Good(Parent(ms, y))
        BY <1>7, <4>2, <4>3
      <4> QED BY <1>4, <3>2, <4>4
    <3> QED BY <3>1, <3>2
  <2> QED BY <2>1
<1>8. \A d \in 0 .. M : d \in T
  <2>1. M \in Nat
    BY <1>2
  <2> HIDE DEF T, M
  <2> QED BY <1>6, <1>7, <2>1, Climb
<1>9. M \in T /\ s >= M - M
  BY <1>2, <1>8
<1>10. Good(s)
  BY <1>9
<1> QED BY <1>10 DEF Good

-----------------------------------------------------------------------------
(* Neighbours.                                                             *)

Symmetric(nb) == \A rs \in nb : <<rs[2], rs[1]>> \in nb
PairsStep(nb, m, D) ==
  nb \cup UNION {{<<m.parent, s>>, <<s, m.parent>>} : s \in MergedNeighbors(nb, m, D[m.parent])}
PairsFold(base, ms, D) ==
  FoldLeft(LAMBDA nb, m :
             nb \cup UNION {{<<m.parent, s>>, <<s, m.parent>>} :
                              s \in MergedNeighbors(nb, m, D[m.parent])},
           base, ms)

LEMMA NeighborPairsFold ==
  ASSUME NEW ms, NEW D, NEW A, NEW base \in A, NEW n \in Nat, DOMAIN ms = 1 .. n,
         \A a \in A : \A k \in 1 .. n :
           PairsStep(a, ms[k], D) \in A
  PROVE  \E g \in [0 .. n -> A] :
           /\ g[0] = base /\ PairsFold(base, ms, D) = g[n]
           /\ \A k \in 1 .. n :
                g[k] = PairsStep(g[k - 1], ms[k], D)
<1> DEFINE E(a, k) == PairsStep(a, ms[k], D)
           step == [ak \in A \X (1 .. n) |-> E(ak[1], ak[2])]
           F(h) == [s \in SUBSET DOMAIN ms |-> IF s = {} THEN base ELSE E(h[s \ {Max(s)}], Max(s))]
           fold == CHOOSE h : h = F(h)
<1>1. PairsFold(base, ms, D) = fold[1 .. n]
  BY DEF PairsFold, PairsStep, FoldLeft, MapThenFoldSet
<1>2. \A a \in A : \A k \in 1 .. n : E(a, k) \in A
  OBVIOUS
<1>3. \A g : (\A k \in 1 .. n : g[k] = E(g[k - 1], k)) =>
               \A k \in 1 .. n : g[k] = PairsStep(g[k - 1], ms[k], D)
  OBVIOUS
<1> HIDE DEF E
<1>4. step \in [A \X (1 .. n) -> A] /\ \A a \in A : \A k \in 1 .. n : step[<<a, k>>] = E(a, k)
  BY <1>2
<1> HIDE DEF step
<1>5. PICK h : FoldsSubsets(h, A, base, step, n)
  BY <1>4, FoldSubsetsExist
<1>6. h = F(h)
  <2>1. h \in [SUBSET (1 .. n) -> A]
    BY <1>5 DEF FoldsSubsets
  <2>2. ASSUME NEW s \in SUBSET (1 .. n), s # {}
        PROVE  h[s] = E(h[s \ {Max(s)}], Max(s))
    <3>1. Max(s) \in 1 .. n
      BY <2>2, MaxInInterval
    <3>2. h[s \ {Max(s)}] \in A
      BY <2>1
    <3>3. h[s] = step[<<h[s \ {Max(s)}], Max(s)>>]
      BY <1>5, <2>2 DEF FoldsSubsets
    <3> QED BY <1>4, <3>1, <3>2, <3>3
  <2>3. \A s \in SUBSET (1 .. n) : s = {} => h[s] = base
    BY <1>5 DEF FoldsSubsets
  <2> QED BY <2>1, <2>2, <2>3
<1>7. fold = F(fold)
  <2> HIDE DEF F
  <2> QED BY <1>6
<1> HIDE DEF fold
<1>8. \A s \in SUBSET (1 .. n) : fold[s] = IF s = {} THEN base ELSE E(fold[s \ {Max(s)}], Max(s))
  BY <1>7
<1> HIDE DEF F
<1>9. ASSUME NEW s \in SUBSET (1 .. n), s # {}, fold[s \ {Max(s)}] \in A
      PROVE  fold[s] = step[<<fold[s \ {Max(s)}], Max(s)>>]
  <2>1. Max(s) \in 1 .. n
    BY <1>9, MaxInInterval
  <2> QED BY <1>4, <1>8, <1>9, <2>1
<1>10. FoldsFrom(fold, A, base, step, n)
  BY <1>4, <1>8, <1>9 DEF FoldsFrom
<1>11. PICK g : Accumulates(g, A, base, step, n) /\ fold[1 .. n] = g[n]
  BY <1>10, FoldRuns
<1>12. g \in [0 .. n -> A] /\ g[0] = base
  BY <1>11 DEF Accumulates
<1>13. ASSUME NEW k \in 1 .. n PROVE g[k] = E(g[k - 1], k)
  <2>1. g[k - 1] \in A
    BY <1>12
  <2> QED BY <1>4, <1>11, <2>1 DEF Accumulates
<1>14. \A k \in 1 .. n : g[k] = PairsStep(g[k - 1], ms[k], D)
  BY <1>3, <1>13
<1> QED BY <1>1, <1>11, <1>12, <1>14


LEMMA NeighborsSymmetric ==
  ASSUME NEW ms, IsHierarchy(ms), NEW pairs, \A e \in pairs : 0 \notin e
  PROVE  /\ neighbors(ms, pairs) \in [0 .. n_regs(ms) -> SUBSET (1 .. n_regs(ms))]
         /\ \A r, s \in 1 .. n_regs(ms) :
              s \in neighbors(ms, pairs)[r] => r \in neighbors(ms, pairs)[s]
<1> DEFINE N == Len(ms)
           n == n_leaves(ms)
           M == n_regs(ms)
           R == 1 .. M
           A == {nb \in SUBSET (R \X R) : Symmetric(nb)}
           D == descendants(ms)
           base == {rs \in (0 .. n) \X (0 .. n) : rs[1] # rs[2] /\ {rs[1], rs[2]} \in pairs}
           all == PairsFold(base, ms, D)
<1>1. N \in Nat /\ n \in Nat /\ M = n + N /\ DOMAIN ms = 1 .. N
  BY HierarchySizes
<1>2. \A i \in 1 .. N : ms[i].parent \in R
  BY HierarchySizes
<1>3. neighbors(ms, pairs) = [r \in 0 .. M |-> {rs[2] : rs \in {x \in all : x[1] = r}}]
  BY DEF neighbors, PairsFold
<1> HIDE DEF N, n, M, D
<1>4. base \in A
  <2>1. ASSUME NEW rs \in base
        PROVE  rs \in R \X R /\ <<rs[2], rs[1]>> \in base
    <3>1. rs \in (0 .. n) \X (0 .. n) /\ rs[1] # rs[2] /\ {rs[1], rs[2]} \in pairs
      OBVIOUS
    <3>2. 0 \notin {rs[1], rs[2]}
      BY <3>1
    <3>3. rs = <<rs[1], rs[2]>> /\ rs[1] \in 0 .. n /\ rs[2] \in 0 .. n
      BY <3>1
    <3>4. rs[1] \in R /\ rs[2] \in R
      BY <1>1, <3>2, <3>3
    <3>5. {rs[2], rs[1]} = {rs[1], rs[2]}
      OBVIOUS
    <3> DEFINE q == <<rs[2], rs[1]>>
    <3>6. q \in (0 .. n) \X (0 .. n) /\ q[1] = rs[2] /\ q[2] = rs[1]
      BY <3>3
    <3>7. q \in base
      BY <3>1, <3>5, <3>6
    <3> QED BY <3>3, <3>4, <3>7
  <2> HIDE DEF base
  <2> QED BY <2>1 DEF Symmetric
<1>5. \A a \in A : \A k \in 1 .. N : PairsStep(a, ms[k], D) \in A
  <2> TAKE a \in A
  <2> TAKE k \in 1 .. N
  <2> DEFINE p == ms[k].parent
             S == MergedNeighbors(a, ms[k], D[p])
             b == a \cup UNION {{<<p, s>>, <<s, p>>} : s \in S}
  <2>1. p \in R
    BY <1>2
  <2>2. S \subseteq R
    <3>1. \A rs \in a : rs[2] \in R
      OBVIOUS
    <3> QED BY <3>1 DEF MergedNeighbors
  <2> HIDE DEF p, S, R
  <2>3. b \subseteq R \X R
    BY <2>1, <2>2
  <2>4. ASSUME NEW rs \in b PROVE <<rs[2], rs[1]>> \in b
    <3>1. CASE rs \in a
      BY <3>1 DEF Symmetric
    <3>2. CASE rs \notin a
      <4>1. PICK s \in S : rs \in {<<p, s>>, <<s, p>>}
        BY <3>2
      <4>2. <<rs[2], rs[1]>> \in {<<p, s>>, <<s, p>>}
        BY <4>1
      <4> QED BY <4>1, <4>2
    <3> QED BY <3>1, <3>2
  <2>5. b \in A
    <3> HIDE DEF b
    <3> QED BY <2>3, <2>4 DEF Symmetric
  <2> QED BY <2>5 DEF PairsStep, p, S
<1>6. all \in A
  <2> HIDE DEF A, base, R
  <2>n. N \in Nat /\ DOMAIN ms = 1 .. N
    BY <1>1
  <2>b. base \in A
    BY <1>4
  <2>s. \A a \in A : \A k \in 1 .. N : PairsStep(a, ms[k], D) \in A
    BY <1>5
  <2>1. \E g \in [0 .. N -> A] : /\ g[0] = base /\ PairsFold(base, ms, D) = g[N]
                                 /\ \A k \in 1 .. N : g[k] = PairsStep(g[k - 1], ms[k], D)
    <3>1. all = PairsFold(base, ms, D)
      OBVIOUS
    <3> HIDE DEF all
    <3> QED BY <2>n, <2>b, <2>s, <3>1, NeighborPairsFold
  <2>2. N \in 0 .. N
    BY <1>1
  <2> QED BY <2>1, <2>2
<1> HIDE DEF all
<1>7. neighbors(ms, pairs) \in [0 .. M -> SUBSET R]
  <2>1. \A rs \in all : rs[2] \in R
    BY <1>6
  <2> HIDE DEF R
  <2> QED BY <1>3, <2>1
<1>8. ASSUME NEW r \in R, NEW s \in R, s \in neighbors(ms, pairs)[r]
      PROVE  r \in neighbors(ms, pairs)[s]
  <2>1. r \in 0 .. M /\ s \in 0 .. M
    BY <1>1
  <2>2. PICK rs \in all : rs[1] = r /\ rs[2] = s
    BY <1>3, <1>8, <2>1
  <2>3. <<rs[2], rs[1]>> \in all
    BY <1>6, <2>2 DEF Symmetric
  <2>4. <<s, r>> \in all /\ <<s, r>>[1] = s /\ <<s, r>>[2] = r
    BY <2>2, <2>3
  <2> QED BY <1>3, <2>1, <2>4
<1> QED BY <1>7, <1>8 DEF M

-----------------------------------------------------------------------------
(* The partitions of the image a tree goes through from the root down.     *)

\* The regions there are when the mergings after v are undone.
Coexist(ms, v) ==
  {r \in 1 .. n_regs(ms) - 1 : MergedIn(ms)[r] > v /\ r <= n_leaves(ms) + v}

LEMMA CoexistAtTop ==
  ASSUME NEW ms, IsTree(ms)
  PROVE  Coexist(ms, Len(ms)) = {}
<1>1. Len(ms) \in Nat
  BY TreeSizes
<1>2. \A r \in 1 .. n_regs(ms) - 1 : MergedIn(ms)[r] \in 1 .. Len(ms)
  BY MergedOnce
<1>3. \A r \in 1 .. n_regs(ms) - 1 : ~ (MergedIn(ms)[r] > Len(ms))
  BY <1>1, <1>2
<1> QED BY <1>3 DEF Coexist

LEMMA CoexistUndone ==
  ASSUME NEW ms, IsTree(ms), NEW v \in 1 .. Len(ms)
  PROVE  Coexist(ms, v - 1) = (Coexist(ms, v) \ {ms[v].parent}) \cup ms[v].sons
<1> DEFINE n == n_leaves(ms)
           M == n_regs(ms)
           in == MergedIn(ms)
<1>1. /\ n \in Nat /\ M \in Nat /\ Len(ms) \in Nat /\ ms[v].parent = n + v
      /\ \A s \in ms[v].sons : s \in 1 .. M - 1 /\ s < ms[v].parent /\ in[s] = v
  BY TreeSizes
<1>2. \A r \in 1 .. M - 1 : in[r] \in 1 .. Len(ms) /\ r \in ms[in[r]].sons
  BY MergedOnce
<1> HIDE DEF n, M, in
<1>3. ASSUME NEW r \in 1 .. M - 1
      PROVE  in[r] > v - 1 /\ r <= n + (v - 1) <=> (in[r] > v /\ r <= n + v /\ r # n + v) \/ r \in ms[v].sons
  <2>1. in[r] \in Int /\ v \in Int /\ r \in Int /\ n \in Int
    BY <1>1, <1>2
  <2>2. CASE in[r] = v
    BY <1>1, <1>2, <2>1, <2>2
  <2>3. CASE in[r] # v
    <3>1. r \notin ms[v].sons
      BY <1>1, <2>3
    <3> QED BY <2>1, <2>3, <3>1
  <2> QED BY <2>2, <2>3
<1>4. Coexist(ms, v - 1) = {r \in 1 .. M - 1 : in[r] > v - 1 /\ r <= n + (v - 1)}
  BY DEF Coexist, n, M, in
<1>5. Coexist(ms, v) = {r \in 1 .. M - 1 : in[r] > v /\ r <= n + v}
  BY DEF Coexist, n, M, in
<1>6. \A r : r \in Coexist(ms, v - 1) <=> r \in (Coexist(ms, v) \ {n + v}) \cup ms[v].sons
  BY <1>1, <1>3, <1>4, <1>5
<1> QED BY <1>1, <1>6

\* What is merged later is below one of them.
LEMMA BelowCoexisting ==
  ASSUME NEW ms, IsTree(ms), NEW v \in 0 .. Len(ms) - 1,
         NEW r \in 1 .. n_regs(ms) - 1, MergedIn(ms)[r] <= v
  PROVE  \E c \in Coexist(ms, v) : r \in descendants(ms)[c] \ {c}
<1> DEFINE n == n_leaves(ms)
           N == Len(ms)
           M == n_regs(ms)
           D == descendants(ms)
           in == MergedIn(ms)
           Good(y) == \E c \in Coexist(ms, v) : y \in D[c] \ {c}
           T == {d \in 0 .. M : \A y \in 1 .. M - 1 : y >= M - d /\ in[y] <= v => Good(y)}
<1>1. IsHierarchy(ms) /\ n \in Nat /\ N \in Nat /\ M \in Nat \ {0} /\ M = n + N
  BY TreeSizes
<1>2. \A y \in 1 .. M - 1 : /\ in[y] \in 1 .. N /\ Parent(ms, y) = n + in[y]
                            /\ Parent(ms, y) \in 1 .. M /\ y < Parent(ms, y)
  BY MergedOnce
<1>3. \A y \in 1 .. M - 1 : y \in D[Parent(ms, y)]
  BY BelowParent
<1>4. ASSUME NEW y \in 1 .. M - 1, in[y] <= v, Good(Parent(ms, y)) \/ Parent(ms, y) \in Coexist(ms, v)
      PROVE  Good(y)
  <2> DEFINE p == Parent(ms, y)
  <2>1. p \in 1 .. M /\ y < p /\ y \in D[p]
    BY <1>2, <1>3
  <2>2. CASE p \in Coexist(ms, v)
    BY <2>1, <2>2
  <2>3. CASE Good(p)
    <3>1. PICK c \in Coexist(ms, v) : p \in D[c] \ {c}
      BY <2>3
    <3>2. c \in 1 .. M
      BY <1>1 DEF Coexist
    <3>3. D[p] \subseteq D[c] /\ D[c] \subseteq 1 .. c
      BY <1>1, <3>1, <3>2, DescendantsTransitive, DescendantsBelow
    <3>4. y \in D[c] /\ y # c
      BY <2>1, <3>1, <3>3
    <3> QED BY <3>4
  <2> QED BY <1>4, <2>2, <2>3
<1> HIDE DEF Good, D
<1>5. 0 \in T
  <2>1. \A y \in 1 .. M - 1 : ~ (y >= M - 0)
    BY <1>1
  <2> QED BY <1>1, <2>1
<1>6. ASSUME NEW d \in 1 .. M, d - 1 \in T PROVE d \in T
  <2>1. ASSUME NEW y \in 1 .. M - 1, y >= M - d, in[y] <= v PROVE Good(y)
    <3> DEFINE p == Parent(ms, y)
    <3>1. in[y] \in 1 .. N /\ p = n + in[y] /\ p \in 1 .. M /\ y < p
      BY <1>2
    <3>2. in[y] < N
      BY <1>1, <2>1, <3>1
    <3>3. p \in 1 .. M - 1 /\ p <= n + v /\ p >= M - (d - 1)
      BY <1>1, <2>1, <3>1, <3>2
    <3> HIDE DEF p
    <3>4. CASE in[p] > v
      <4>1. p \in Coexist(ms, v)
        BY <3>3, <3>4 DEF Coexist
      <4> QED BY <1>4, <2>1, <4>1 DEF p
    <3>5. CASE ~ (in[p] > v)
      <4>1. in[p] <= v
        BY <1>2, <3>3, <3>5
      <4>2. Good(p)
        BY <1>6, <3>3, <4>1
      <4> QED BY <1>4, <2>1, <4>2 DEF p
    <3> QED BY <3>4, <3>5
  <2> QED BY <2>1
<1>7. \A d \in 0 .. M : d \in T
  <2>1. M \in Nat
    BY <1>1
  <2> HIDE DEF T, M
  <2> QED BY <1>5, <1>6, <2>1, Climb
<1>8. M \in T /\ r >= M - M
  BY <1>1, <1>7
<1>9. Good(r)
  BY <1>8
<1> QED BY <1>9 DEF Good, D

\* What is below one of them is merged before.
LEMMA CoexistingAbove ==
  ASSUME NEW ms, IsTree(ms), NEW v \in 0 .. Len(ms), NEW c \in Coexist(ms, v),
         NEW r \in descendants(ms)[c], r # c
  PROVE  r \in 1 .. n_regs(ms) - 1 /\ MergedIn(ms)[r] <= v
<1>1. IsHierarchy(ms) /\ n_leaves(ms) \in Nat /\ n_regs(ms) \in Nat
  BY TreeSizes
<1>2. c \in 1 .. n_regs(ms) /\ c <= n_leaves(ms) + v
  BY <1>1 DEF Coexist
<1>3. r \in 1 .. n_regs(ms) - 1 /\ Parent(ms, r) \in descendants(ms)[c]
  BY <1>2, ParentBelow
<1>4. Parent(ms, r) = n_leaves(ms) + MergedIn(ms)[r] /\ MergedIn(ms)[r] \in 1 .. Len(ms)
  BY <1>3, MergedOnce
<1>5. Parent(ms, r) \in 1 .. c
  BY <1>1, <1>2, <1>3, DescendantsBelow
<1>6. v \in Int
  OBVIOUS
<1> QED BY <1>1, <1>2, <1>3, <1>4, <1>5, <1>6


-----------------------------------------------------------------------------
(* The candidates of a tree: lists that grow, what one step adds.          *)

\* A list without repetitions that starts with another one and has, besides,
\* the elements of a set.
ExtendsBy(long, list, S) ==
  /\ Range(long) = Range(list) \cup S
  /\ IsInjective(long)
  /\ Len(list) <= Len(long) /\ \A p \in 1 .. Len(list) : long[p] = list[p]

LEMMA RangeOfList ==
  ASSUME NEW B, NEW list \in Seq(B)
  PROVE  /\ Len(list) \in Nat /\ DOMAIN list = 1 .. Len(list) /\ Range(list) \subseteq B
         /\ \A p \in 1 .. Len(list) : list[p] \in Range(list) /\ list[p] \in B
         /\ \A c \in Range(list) : \E p \in 1 .. Len(list) : list[p] = c
         /\ \A c : Contains(list, c) <=> c \in Range(list)
<1>1. Len(list) \in Nat /\ DOMAIN list = 1 .. Len(list) /\ \A p \in 1 .. Len(list) : list[p] \in B
  OBVIOUS
<1> QED BY <1>1 DEF Range, Contains

AppendStep(l, c) == IF Contains(l, c) THEN l ELSE Append(l, c)

LEMMA AppendOne ==
  ASSUME NEW B, NEW list \in Seq(B), NEW c \in B, IsInjective(list)
  PROVE  AppendStep(list, c) \in Seq(B) /\ ExtendsBy(AppendStep(list, c), list, {c})
<1>1. /\ Len(list) \in Nat /\ DOMAIN list = 1 .. Len(list)
      /\ \A x : Contains(list, x) <=> x \in Range(list)
  BY RangeOfList
<1>2. CASE Contains(list, c)
  <2>1. AppendStep(list, c) = list /\ c \in Range(list)
    BY <1>1, <1>2 DEF AppendStep
  <2> QED BY <1>1, <2>1 DEF ExtendsBy
<1>3. CASE ~ Contains(list, c)
  <2> DEFINE long == Append(list, c)
  <2>1. AppendStep(list, c) = long /\ c \notin Range(list)
    BY <1>1, <1>3 DEF AppendStep
  <2>2. /\ long \in Seq(B) /\ Len(long) = Len(list) + 1
        /\ \A p \in 1 .. Len(list) : long[p] = list[p]
        /\ long[Len(list) + 1] = c /\ DOMAIN long = 1 .. Len(list) + 1
    OBVIOUS
  <2> HIDE DEF long
  <2>3. \A p \in 1 .. Len(list) + 1 : p \in 1 .. Len(list) \/ p = Len(list) + 1
    BY <1>1
  <2>4. \A p \in 1 .. Len(list) : list[p] \in Range(list) /\ list[p] # c
    BY <1>1, <2>1 DEF Range
  <2>5. IsInjective(long)
    <3> SUFFICES ASSUME NEW a \in 1 .. Len(list) + 1, NEW b \in 1 .. Len(list) + 1, long[a] = long[b]
                 PROVE  a = b
      BY <2>2 DEF IsInjective
    <3>1. CASE a \in 1 .. Len(list) /\ b \in 1 .. Len(list)
      BY <1>1, <2>2, <3>1 DEF IsInjective
    <3>2. CASE a \notin 1 .. Len(list)
      BY <2>2, <2>3, <2>4, <3>2
    <3>3. CASE b \notin 1 .. Len(list)
      BY <2>2, <2>3, <2>4, <3>3
    <3> QED BY <3>1, <3>2, <3>3
  <2>6. Range(long) = Range(list) \cup {c}
    <3>1. \A p \in 1 .. Len(list) + 1 : long[p] \in Range(list) \cup {c}
      BY <2>2, <2>3, <2>4
    <3>2. \A x \in Range(list) : \E p \in 1 .. Len(list) + 1 : long[p] = x
      <4>1. 1 .. Len(list) \subseteq 1 .. Len(list) + 1
        BY <1>1
      <4> QED BY <1>1, <2>2, <4>1 DEF Range
    <3>3. Len(list) + 1 \in 1 .. Len(list) + 1
      BY <1>1
    <3> QED BY <2>2, <3>1, <3>2, <3>3 DEF Range
  <2> QED BY <1>1, <2>1, <2>2, <2>5, <2>6 DEF ExtendsBy
<1> QED BY <1>2, <1>3

LEMMA ExtendsTransitive ==
  ASSUME NEW B, NEW a \in Seq(B), NEW b \in Seq(B), NEW c \in Seq(B), NEW S, NEW T,
         ExtendsBy(b, a, S), ExtendsBy(c, b, T)
  PROVE  ExtendsBy(c, a, S \cup T)
<1>1. Len(a) \in Nat /\ Len(b) \in Nat /\ Len(c) \in Nat
  OBVIOUS
<1>2. Len(a) <= Len(b) /\ Len(b) <= Len(c)
  BY DEF ExtendsBy
<1>3. 1 .. Len(a) \subseteq 1 .. Len(b)
  BY <1>1, <1>2
<1>4. \A p \in 1 .. Len(a) : c[p] = a[p]
  BY <1>3 DEF ExtendsBy
<1>5. Range(c) = Range(a) \cup (S \cup T)
  BY DEF ExtendsBy
<1>6. Len(a) <= Len(c)
  BY <1>1, <1>2
<1> QED BY <1>4, <1>5, <1>6 DEF ExtendsBy

LEMMA AppendNewFold ==
  ASSUME NEW more, NEW A, NEW base \in A, NEW n \in Nat, DOMAIN more = 1 .. n,
         \A a \in A : \A k \in 1 .. n :
           AppendStep(a, more[k]) \in A
  PROVE  \E g \in [0 .. n -> A] :
           /\ g[0] = base /\ AppendNew(base, more) = g[n]
           /\ \A k \in 1 .. n :
                g[k] = AppendStep(g[k - 1], more[k])
<1> DEFINE E(a, k) == AppendStep(a, more[k])
           step == [ak \in A \X (1 .. n) |-> E(ak[1], ak[2])]
           F(h) == [s \in SUBSET DOMAIN more |-> IF s = {} THEN base ELSE E(h[s \ {Max(s)}], Max(s))]
           fold == CHOOSE h : h = F(h)
<1>1. AppendNew(base, more) = fold[1 .. n]
  BY DEF AppendNew, AppendStep, FoldLeft, MapThenFoldSet
<1>2. \A a \in A : \A k \in 1 .. n : E(a, k) \in A
  OBVIOUS
<1>3. \A g : (\A k \in 1 .. n : g[k] = E(g[k - 1], k)) =>
               \A k \in 1 .. n : g[k] = AppendStep(g[k - 1], more[k])
  OBVIOUS
<1> HIDE DEF E
<1>4. step \in [A \X (1 .. n) -> A] /\ \A a \in A : \A k \in 1 .. n : step[<<a, k>>] = E(a, k)
  BY <1>2
<1> HIDE DEF step
<1>5. PICK h : FoldsSubsets(h, A, base, step, n)
  BY <1>4, FoldSubsetsExist
<1>6. h = F(h)
  <2>1. h \in [SUBSET (1 .. n) -> A]
    BY <1>5 DEF FoldsSubsets
  <2>2. ASSUME NEW s \in SUBSET (1 .. n), s # {}
        PROVE  h[s] = E(h[s \ {Max(s)}], Max(s))
    <3>1. Max(s) \in 1 .. n
      BY <2>2, MaxInInterval
    <3>2. h[s \ {Max(s)}] \in A
      BY <2>1
    <3>3. h[s] = step[<<h[s \ {Max(s)}], Max(s)>>]
      BY <1>5, <2>2 DEF FoldsSubsets
    <3> QED BY <1>4, <3>1, <3>2, <3>3
  <2>3. \A s \in SUBSET (1 .. n) : s = {} => h[s] = base
    BY <1>5 DEF FoldsSubsets
  <2> QED BY <2>1, <2>2, <2>3
<1>7. fold = F(fold)
  <2> HIDE DEF F
  <2> QED BY <1>6
<1> HIDE DEF fold
<1>8. \A s \in SUBSET (1 .. n) : fold[s] = IF s = {} THEN base ELSE E(fold[s \ {Max(s)}], Max(s))
  BY <1>7
<1> HIDE DEF F
<1>9. ASSUME NEW s \in SUBSET (1 .. n), s # {}, fold[s \ {Max(s)}] \in A
      PROVE  fold[s] = step[<<fold[s \ {Max(s)}], Max(s)>>]
  <2>1. Max(s) \in 1 .. n
    BY <1>9, MaxInInterval
  <2> QED BY <1>4, <1>8, <1>9, <2>1
<1>10. FoldsFrom(fold, A, base, step, n)
  BY <1>4, <1>8, <1>9 DEF FoldsFrom
<1>11. PICK g : Accumulates(g, A, base, step, n) /\ fold[1 .. n] = g[n]
  BY <1>10, FoldRuns
<1>12. g \in [0 .. n -> A] /\ g[0] = base
  BY <1>11 DEF Accumulates
<1>13. ASSUME NEW k \in 1 .. n PROVE g[k] = E(g[k - 1], k)
  <2>1. g[k - 1] \in A
    BY <1>12
  <2> QED BY <1>4, <1>11, <2>1 DEF Accumulates
<1>14. \A k \in 1 .. n : g[k] = AppendStep(g[k - 1], more[k])
  BY <1>3, <1>13
<1> QED BY <1>1, <1>11, <1>12, <1>14


LEMMA AppendNewExtends ==
  ASSUME NEW B, NEW list \in Seq(B), IsInjective(list), NEW more \in Seq(B)
  PROVE  AppendNew(list, more) \in Seq(B) /\ ExtendsBy(AppendNew(list, more), list, Range(more))
<1> DEFINE A == {l \in Seq(B) : IsInjective(l)}
           n == Len(more)
           prefix(k) == {more[p] : p \in 1 .. k}
<1>1. n \in Nat /\ DOMAIN more = 1 .. n /\ \A p \in 1 .. n : more[p] \in B
  OBVIOUS
<1>2. list \in A
  OBVIOUS
<1>3. \A a \in A : \A k \in 1 .. n : AppendStep(a, more[k]) \in A /\ ExtendsBy(AppendStep(a, more[k]), a, {more[k]})
  <2> TAKE a \in A
  <2> TAKE k \in 1 .. n
  <2>1. AppendStep(a, more[k]) \in Seq(B) /\ ExtendsBy(AppendStep(a, more[k]), a, {more[k]})
    BY <1>1, AppendOne
  <2> QED BY <2>1 DEF ExtendsBy
<1>4. \A a \in A : a \in Seq(B) /\ IsInjective(a)
  OBVIOUS
<1> HIDE DEF A
<1>5. PICK g \in [0 .. n -> A] :
        /\ g[0] = list /\ AppendNew(list, more) = g[n]
        /\ \A k \in 1 .. n : g[k] = AppendStep(g[k - 1], more[k])
  <2>1. \A a \in A : \A k \in 1 .. n : AppendStep(a, more[k]) \in A
    BY <1>3
  <2>2. n \in Nat /\ DOMAIN more = 1 .. n
    BY <1>1
  <2> DEFINE out == AppendNew(list, more)
  <2>3. out = AppendNew(list, more)
    OBVIOUS
  <2> HIDE DEF n, out
  <2>4. \E g \in [0 .. n -> A] :
          /\ g[0] = list /\ out = g[n]
          /\ \A k \in 1 .. n : g[k] = AppendStep(g[k - 1], more[k])
    BY <1>2, <2>1, <2>2, <2>3, AppendNewFold
  <2> QED BY <2>3, <2>4
<1> DEFINE Good(k) == ExtendsBy(g[k], list, prefix(k))
           T == {k \in 0 .. n : Good(k)}
<1>6. Good(0)
  <2>1. prefix(0) = {}
    BY <1>1
  <2> HIDE DEF prefix
  <2> QED BY <1>5, <2>1 DEF ExtendsBy
<1>7. ASSUME NEW k \in 1 .. n, Good(k - 1) PROVE Good(k)
  <2>1. k - 1 \in 0 .. n /\ k \in 0 .. n
    BY <1>1
  <2>2. g[k - 1] \in A /\ g[k] \in A
    BY <1>5, <2>1
  <2>3. g[k] = AppendStep(g[k - 1], more[k])
    BY <1>5
  <2>4. ExtendsBy(g[k], g[k - 1], {more[k]})
    BY <1>3, <2>2, <2>3
  <2>5. prefix(k) = prefix(k - 1) \cup {more[k]}
    <3>1. \A p \in 1 .. k : p \in 1 .. k - 1 \/ p = k
      OBVIOUS
    <3>2. 1 .. k - 1 \subseteq 1 .. k /\ k \in 1 .. k
      OBVIOUS
    <3> QED BY <3>1, <3>2
  <2> HIDE DEF prefix
  <2>6. ExtendsBy(g[k], list, prefix(k - 1) \cup {more[k]})
    BY <1>4, <1>7, <2>2, <2>4, ExtendsTransitive
  <2> QED BY <2>5, <2>6
<1>8. Good(n)
  <2>1. 0 \in T
    BY <1>1, <1>6
  <2>2. \A k \in 1 .. n : k - 1 \in T => k \in T
    <3> TAKE k \in 1 .. n
    <3> HAVE k - 1 \in T
    <3>1. Good(k)
      BY <1>7
    <3>2. k \in 0 .. n
      BY <1>1
    <3> HIDE DEF Good
    <3> QED BY <3>1, <3>2
  <2> HIDE DEF T
  <2>3. n \in T
    <3>1. \A k \in 0 .. n : k \in T
      BY <1>1, <2>1, <2>2, Climb
    <3> QED BY <1>1, <3>1
  <2> QED BY <2>3 DEF T
<1>9. prefix(n) = Range(more)
  BY <1>1 DEF Range
<1>10. g[n] \in Seq(B)
  BY <1>1, <1>4, <1>5
<1> QED BY <1>5, <1>8, <1>9, <1>10

\* The tables are those of a tree.
TreeTables ==
  /\ IsTree(mer_seq)
  /\ tree.descendants = descendants(mer_seq) /\ tree.siblings = siblings(mer_seq)
  /\ tree.ascendants = ascendants(mer_seq)
  /\ tree.neighbors \in [0 .. n_regs(mer_seq) -> SUBSET (1 .. n_regs(mer_seq))]
  /\ \A r, s \in 1 .. n_regs(mer_seq) : s \in tree.neighbors[r] => r \in tree.neighbors[s]

LEMMA ReverseRange ==
  ASSUME NEW B, NEW list \in Seq(B)
  PROVE  Reverse(list) \in Seq(B) /\ Range(Reverse(list)) = Range(list)
<1> DEFINE n == Len(list)
           rev == Reverse(list)
<1>1. n \in Nat /\ DOMAIN list = 1 .. n /\ \A p \in 1 .. n : list[p] \in B
  OBVIOUS
<1>2. rev = [p \in 1 .. n |-> list[(n - p) + 1]]
  BY DEF Reverse
<1>3. \A p \in 1 .. n : (n - p) + 1 \in 1 .. n /\ (n - ((n - p) + 1)) + 1 = p
  BY <1>1
<1> HIDE DEF n, rev
<1>4. DOMAIN rev = 1 .. n /\ \A p \in 1 .. n : rev[p] = list[(n - p) + 1]
  BY <1>2
<1>5. rev \in Seq(B)
  BY <1>1, <1>2, <1>3
<1>6. \A p \in 1 .. n : rev[p] \in Range(list)
  BY <1>1, <1>3, <1>4 DEF Range
<1>7. \A p \in 1 .. n : list[p] \in Range(rev)
  <2> TAKE p \in 1 .. n
  <2>1. rev[(n - p) + 1] = list[p]
    BY <1>3, <1>4
  <2> QED BY <1>3, <1>4, <2>1 DEF Range
<1>8. Range(rev) = Range(list)
  BY <1>1, <1>4, <1>6, <1>7 DEF Range
<1> QED BY <1>5, <1>8 DEF rev

\* What the regions that may join a set give.
Larger(regs, U) == {regs \cup {s} : s \in U}

LEMMA ExtensionsAre ==
  ASSUME NEW regs, NEW coex, NEW M \in Nat, NEW B, UpNeighbors(regs, coex) \subseteq 1 .. M,
         Larger(regs, UpNeighbors(regs, coex)) \subseteq B
  PROVE  /\ Extensions(regs, coex) \in Seq(B)
         /\ Range(Extensions(regs, coex)) = Larger(regs, UpNeighbors(regs, coex))
<1> DEFINE U == UpNeighbors(regs, coex)
           up == Reverse(Ascending(U))
<1>1. U \in SUBSET Nat /\ IsFiniteSet(U)
  <2>1. IsFiniteSet(1 .. M)
    BY FS_Interval
  <2> QED BY <2>1, FS_Subset
<1> HIDE DEF U
<1>2. Lists(Ascending(U), U)
  BY <1>1, AscendingLists
<1>3. up \in Seq(U) /\ Range(up) = U
  <2>1. Ascending(U) \in Seq(U) /\ Range(Ascending(U)) = U
    BY <1>2 DEF Lists, Range
  <2> QED BY <2>1, ReverseRange
<1>4. Extensions(regs, coex) = [p \in DOMAIN up |-> regs \cup {up[p]}]
  BY DEF Extensions, U
<1> DEFINE ext == Extensions(regs, coex)
<1> HIDE DEF up, ext
<1>5. DOMAIN up = 1 .. Len(up) /\ Len(up) \in Nat /\ \A p \in 1 .. Len(up) : up[p] \in U
  BY <1>3
<1>6. DOMAIN ext = 1 .. Len(up) /\ \A p \in 1 .. Len(up) : ext[p] = regs \cup {up[p]}
  BY <1>4, <1>5 DEF ext
<1>7. \A p \in 1 .. Len(up) : ext[p] \in Larger(regs, U)
  BY <1>5, <1>6 DEF Larger
<1>8. \A c \in Larger(regs, U) : \E p \in 1 .. Len(up) : ext[p] = c
  <2> TAKE c \in Larger(regs, U)
  <2>1. PICK s \in U : c = regs \cup {s}
    BY DEF Larger
  <2>2. PICK p \in 1 .. Len(up) : up[p] = s
    BY <1>3, <1>5 DEF Range
  <2> QED BY <1>6, <2>1, <2>2
<1>9. Range(ext) = Larger(regs, U)
  BY <1>6, <1>7, <1>8 DEF Range
<1>10. ext \in Seq(B)
  <2>1. \A p \in 1 .. Len(up) : ext[p] \in B
    BY <1>7 DEF U
  <2>2. ext = [p \in 1 .. Len(up) |-> ext[p]]
    BY <1>4, <1>5, <1>6 DEF ext
  <2> QED BY <1>5, <2>1, <2>2
<1> QED BY <1>9, <1>10 DEF U, ext

ExtendStep(l, regs, coex) == AppendNew(l, Extensions(regs, coex))
ExtendFrom(base, list, coex) ==
  FoldLeft(LAMBDA l, regs : AppendNew(l, Extensions(regs, coex)), base, list)

LEMMA ExtendedFold ==
  ASSUME NEW list, NEW coex, NEW A, NEW base \in A, NEW n \in Nat, DOMAIN list = 1 .. n,
         \A a \in A : \A k \in 1 .. n :
           ExtendStep(a, list[k], coex) \in A
  PROVE  \E g \in [0 .. n -> A] :
           /\ g[0] = base /\ ExtendFrom(base, list, coex) = g[n]
           /\ \A k \in 1 .. n :
                g[k] = ExtendStep(g[k - 1], list[k], coex)
<1> DEFINE E(a, k) == ExtendStep(a, list[k], coex)
           step == [ak \in A \X (1 .. n) |-> E(ak[1], ak[2])]
           F(h) == [s \in SUBSET DOMAIN list |-> IF s = {} THEN base ELSE E(h[s \ {Max(s)}], Max(s))]
           fold == CHOOSE h : h = F(h)
<1>1. ExtendFrom(base, list, coex) = fold[1 .. n]
  BY DEF ExtendFrom, ExtendStep, FoldLeft, MapThenFoldSet
<1>2. \A a \in A : \A k \in 1 .. n : E(a, k) \in A
  OBVIOUS
<1>3. \A g : (\A k \in 1 .. n : g[k] = E(g[k - 1], k)) =>
               \A k \in 1 .. n : g[k] = ExtendStep(g[k - 1], list[k], coex)
  OBVIOUS
<1> HIDE DEF E
<1>4. step \in [A \X (1 .. n) -> A] /\ \A a \in A : \A k \in 1 .. n : step[<<a, k>>] = E(a, k)
  BY <1>2
<1> HIDE DEF step
<1>5. PICK h : FoldsSubsets(h, A, base, step, n)
  BY <1>4, FoldSubsetsExist
<1>6. h = F(h)
  <2>1. h \in [SUBSET (1 .. n) -> A]
    BY <1>5 DEF FoldsSubsets
  <2>2. ASSUME NEW s \in SUBSET (1 .. n), s # {}
        PROVE  h[s] = E(h[s \ {Max(s)}], Max(s))
    <3>1. Max(s) \in 1 .. n
      BY <2>2, MaxInInterval
    <3>2. h[s \ {Max(s)}] \in A
      BY <2>1
    <3>3. h[s] = step[<<h[s \ {Max(s)}], Max(s)>>]
      BY <1>5, <2>2 DEF FoldsSubsets
    <3> QED BY <1>4, <3>1, <3>2, <3>3
  <2>3. \A s \in SUBSET (1 .. n) : s = {} => h[s] = base
    BY <1>5 DEF FoldsSubsets
  <2> QED BY <2>1, <2>2, <2>3
<1>7. fold = F(fold)
  <2> HIDE DEF F
  <2> QED BY <1>6
<1> HIDE DEF fold
<1>8. \A s \in SUBSET (1 .. n) : fold[s] = IF s = {} THEN base ELSE E(fold[s \ {Max(s)}], Max(s))
  BY <1>7
<1> HIDE DEF F
<1>9. ASSUME NEW s \in SUBSET (1 .. n), s # {}, fold[s \ {Max(s)}] \in A
      PROVE  fold[s] = step[<<fold[s \ {Max(s)}], Max(s)>>]
  <2>1. Max(s) \in 1 .. n
    BY <1>9, MaxInInterval
  <2> QED BY <1>4, <1>8, <1>9, <2>1
<1>10. FoldsFrom(fold, A, base, step, n)
  BY <1>4, <1>8, <1>9 DEF FoldsFrom
<1>11. PICK g : Accumulates(g, A, base, step, n) /\ fold[1 .. n] = g[n]
  BY <1>10, FoldRuns
<1>12. g \in [0 .. n -> A] /\ g[0] = base
  BY <1>11 DEF Accumulates
<1>13. ASSUME NEW k \in 1 .. n PROVE g[k] = E(g[k - 1], k)
  <2>1. g[k - 1] \in A
    BY <1>12
  <2> QED BY <1>4, <1>11, <2>1 DEF Accumulates
<1>14. \A k \in 1 .. n : g[k] = ExtendStep(g[k - 1], list[k], coex)
  BY <1>3, <1>13
<1> QED BY <1>1, <1>11, <1>12, <1>14


LEMMA ExtendedAre ==
  ASSUME NEW B, NEW list \in Seq(B), NEW coex, NEW M \in Nat,
         \A c \in Range(list) : /\ UpNeighbors(c, coex) \subseteq 1 .. M
                                /\ Larger(c, UpNeighbors(c, coex)) \subseteq B
  PROVE  /\ Extended(list, coex) \in Seq(B)
         /\ Range(Extended(list, coex)) = UNION {Larger(c, UpNeighbors(c, coex)) : c \in Range(list)}
<1> DEFINE A == {l \in Seq(B) : IsInjective(l)}
           n == Len(list)
           L(p) == Larger(list[p], UpNeighbors(list[p], coex))
           prefix(k) == UNION {L(p) : p \in 1 .. k}
           out == ExtendFrom(<<>>, list, coex)
<1>1. n \in Nat /\ DOMAIN list = 1 .. n /\ \A p \in 1 .. n : list[p] \in Range(list)
  BY RangeOfList
<1>2. <<>> \in A
  BY DEF IsInjective
<1>3. \A a \in A : a \in Seq(B) /\ IsInjective(a)
  OBVIOUS
<1>4. \A a \in A : \A k \in 1 .. n :
        ExtendStep(a, list[k], coex) \in A /\ ExtendsBy(ExtendStep(a, list[k], coex), a, L(k))
  <2> TAKE a \in A
  <2> TAKE k \in 1 .. n
  <2> DEFINE ext == Extensions(list[k], coex)
  <2>1. ext \in Seq(B) /\ Range(ext) = L(k)
    BY <1>1, ExtensionsAre
  <2> HIDE DEF ext, L
  <2>2. AppendNew(a, ext) \in Seq(B) /\ ExtendsBy(AppendNew(a, ext), a, Range(ext))
    BY <1>3, <2>1, AppendNewExtends
  <2>3. AppendNew(a, ext) = ExtendStep(a, list[k], coex)
    BY DEF ExtendStep, ext
  <2> QED BY <2>1, <2>2, <2>3 DEF ExtendsBy
<1> HIDE DEF A, L
<1>5. PICK g \in [0 .. n -> A] :
        /\ g[0] = <<>> /\ out = g[n]
        /\ \A k \in 1 .. n : g[k] = ExtendStep(g[k - 1], list[k], coex)
  <2>1. \A a \in A : \A k \in 1 .. n : ExtendStep(a, list[k], coex) \in A
    BY <1>4
  <2>2. n \in Nat /\ DOMAIN list = 1 .. n
    BY <1>1
  <2>3. out = ExtendFrom(<<>>, list, coex)
    OBVIOUS
  <2> DEFINE none == <<>>
  <2>4. none \in A /\ out = ExtendFrom(none, list, coex)
    BY <1>2
  <2> HIDE DEF n, out, none
  <2>5. \E g \in [0 .. n -> A] :
          /\ g[0] = none /\ out = g[n]
          /\ \A k \in 1 .. n : g[k] = ExtendStep(g[k - 1], list[k], coex)
    BY <2>1, <2>2, <2>4, ExtendedFold
  <2> QED BY <2>5 DEF none
<1> DEFINE Good(k) == Range(g[k]) = prefix(k)
           T == {k \in 0 .. n : Good(k)}
<1>6. Good(0)
  <2>1. prefix(0) = {}
    BY <1>1
  <2>2. Range(<<>>) = {}
    BY DEF Range
  <2> HIDE DEF prefix
  <2> QED BY <1>5, <2>1, <2>2
<1>7. ASSUME NEW k \in 1 .. n, Good(k - 1) PROVE Good(k)
  <2>1. k - 1 \in 0 .. n /\ k \in 0 .. n
    BY <1>1
  <2>2. g[k - 1] \in A
    BY <1>5, <2>1
  <2>3. g[k] = ExtendStep(g[k - 1], list[k], coex)
    BY <1>5
  <2>4. ExtendsBy(g[k], g[k - 1], L(k))
    BY <1>4, <2>2, <2>3
  <2>5. prefix(k) = prefix(k - 1) \cup L(k)
    <3>1. \A p \in 1 .. k : p \in 1 .. k - 1 \/ p = k
      OBVIOUS
    <3>2. 1 .. k - 1 \subseteq 1 .. k /\ k \in 1 .. k
      OBVIOUS
    <3> QED BY <3>1, <3>2
  <2> HIDE DEF prefix
  <2> QED BY <1>7, <2>4, <2>5 DEF ExtendsBy
<1>8. Good(n)
  <2>1. 0 \in T
    BY <1>1, <1>6
  <2>2. \A k \in 1 .. n : k - 1 \in T => k \in T
    <3> TAKE k \in 1 .. n
    <3> HAVE k - 1 \in T
    <3>1. Good(k)
      BY <1>7
    <3>2. k \in 0 .. n
      BY <1>1
    <3> HIDE DEF Good
    <3> QED BY <3>1, <3>2
  <2> HIDE DEF T
  <2>3. n \in T
    <3>1. \A k \in 0 .. n : k \in T
      BY <1>1, <2>1, <2>2, Climb
    <3> QED BY <1>1, <3>1
  <2> QED BY <2>3 DEF T
<1>9. prefix(n) = UNION {Larger(c, UpNeighbors(c, coex)) : c \in Range(list)}
  <2>1. Range(list) = {list[p] : p \in 1 .. n}
    BY <1>1 DEF Range
  <2> QED BY <2>1 DEF L
<1>10. g[n] \in Seq(B)
  BY <1>1, <1>3, <1>5
<1>11. Extended(list, coex) = out
  BY DEF Extended, ExtendFrom
<1> HIDE DEF out, prefix
<1> QED BY <1>5, <1>8, <1>9, <1>10, <1>11

\* All regions are below the root.
LEMMA RootAbove ==
  ASSUME NEW ms, IsTree(ms), NEW r \in 1 .. n_regs(ms)
  PROVE  r \in descendants(ms)[n_regs(ms)]
<1> DEFINE N == Len(ms)
           M == n_regs(ms)
           D == descendants(ms)
<1>1. IsHierarchy(ms) /\ N \in Nat \ {0} /\ M \in Nat \ {0} /\ ms[N].parent = M
  BY TreeSizes
<1>2. M \in D[M]
  BY <1>1, DescendantsBelow
<1>3. CASE r # M
  <2>1. r \in 1 .. M - 1
    BY <1>1, <1>3
  <2>2. MergedIn(ms)[r] \in 1 .. N /\ Parent(ms, r) = n_leaves(ms) + MergedIn(ms)[r]
    BY <2>1, MergedOnce
  <2>3. CASE MergedIn(ms)[r] = N
    <3>1. Parent(ms, r) = M
      BY <2>2, <2>3, TreeSizes
    <3> QED BY <2>1, <3>1, BelowParent
  <2>4. CASE MergedIn(ms)[r] # N
    <3>1. MergedIn(ms)[r] <= N - 1 /\ N - 1 \in 0 .. N - 1 /\ N \in 1 .. N
      BY <1>1, <2>2, <2>4
    <3>2. PICK c \in Coexist(ms, N - 1) : r \in D[c] \ {c}
      BY <2>1, <3>1, BelowCoexisting
    <3>3. Coexist(ms, N - 1) = (Coexist(ms, N) \ {ms[N].parent}) \cup ms[N].sons
      BY <3>1, CoexistUndone
    <3>4. c \in ms[N].sons
      BY <3>2, <3>3, CoexistAtTop
    <3>5. D[M] = {M} \cup UNION {D[s] : s \in ms[N].sons}
      BY <1>1, <3>1, DescendantsAre
    <3> QED BY <3>2, <3>4, <3>5
  <2> QED BY <2>3, <2>4
<1> QED BY <1>2, <1>3

\* The regions there are once merging w is the next to undo, or were before.
Shown(ms, w) == {r \in 1 .. n_regs(ms) - 1 : MergedIn(ms)[r] > w}

MayJoin(regs, s, w) ==
  /\ s \in Shown(mer_seq, w) /\ \E r \in regs : s \in tree.neighbors[r]
  /\ \A r \in regs : tree.descendants[r] \cap tree.descendants[s] = {}
  /\ s \notin Twins(regs)

LEMMA UpNeighborsAre ==
  ASSUME TreeTables, NEW w \in 0 .. Len(mer_seq) - 1,
         NEW regs \in SUBSET Shown(mer_seq, w), NEW s
  PROVE  s \in UpNeighbors(regs, Coexist(mer_seq, w)) <=> MayJoin(regs, s, w)
<1> DEFINE M == n_regs(mer_seq)
           D == tree.descendants
           coex == Coexist(mer_seq, w)
           others == BelowOthers(regs, coex)
<1>1. IsTree(mer_seq) /\ IsHierarchy(mer_seq) /\ M \in Nat \ {0} /\ D = descendants(mer_seq)
  BY TreeSizes DEF TreeTables
<1>2. regs \subseteq 1 .. M - 1 /\ 1 .. M - 1 \subseteq 1 .. M /\ 1 .. M - 1 \subseteq 0 .. M
  BY <1>1 DEF Shown
<1>3. coex \subseteq 1 .. M - 1
  BY DEF Coexist
<1>4. s \in UpNeighbors(regs, coex) <=>
        /\ \E r \in regs : s \in tree.neighbors[r]
        /\ \A r \in regs : s \notin D[r] /\ s \notin tree.ascendants[r]
        /\ s \notin others /\ s \notin Twins(regs)
  BY DEF UpNeighbors
<1>5. s \in others <=> \E c \in coex \ regs : s \in D[c] /\ s # c
  BY DEF BelowOthers
<1>6. \A r \in regs : tree.neighbors[r] \subseteq 1 .. M
  BY <1>2 DEF TreeTables
<1>7. \A r \in regs : \A x \in 1 .. M : x \in tree.ascendants[r] <=> r \in D[x] /\ r # x
  BY <1>1, <1>2, AscendantsAre DEF TreeTables
<1>8. \A x \in 1 .. M : x \in D[x]
  BY <1>1, DescendantsBelow
<1>9. ASSUME s \in UpNeighbors(regs, coex) PROVE MayJoin(regs, s, w)
  <2>1. s \in 1 .. M
    BY <1>4, <1>6, <1>9
  <2>2. PICK r0 \in regs : s \in tree.neighbors[r0]
    BY <1>4, <1>9
  <2>3. s # M
    <3>1. r0 \in D[M] /\ r0 # M
      BY <1>1, <1>2, RootAbove
    <3>2. M \in 1 .. M
      BY <1>1
    <3> QED BY <1>4, <1>7, <1>9, <3>1, <3>2
  <2>4. s \in 1 .. M - 1
    BY <1>1, <2>1, <2>3
  <2>5. ASSUME NEW r \in regs, NEW x, x \in D[r], x \in D[s] PROVE FALSE
    <3>1. r \in D[s] \/ s \in D[r]
      BY <1>1, <1>2, <2>1, <2>5, Laminar
    <3>2. s \notin D[r] /\ s \notin tree.ascendants[r]
      BY <1>4, <1>9
    <3>3. r \in D[r]
      BY <1>2, <1>8
    <3> QED BY <1>7, <2>1, <3>1, <3>2, <3>3
  <2>6. MergedIn(mer_seq)[s] > w
    <3>1. SUFFICES ASSUME MergedIn(mer_seq)[s] <= w PROVE FALSE
      <4>1. MergedIn(mer_seq)[s] \in 1 .. Len(mer_seq)
        BY <1>1, <2>4, MergedOnce
      <4> QED BY <4>1
    <3>2. PICK c \in coex : s \in D[c] \ {c}
      BY <1>1, <2>4, <3>1, BelowCoexisting
    <3> QED BY <1>4, <1>5, <1>9, <3>2
  <2>7. s \in Shown(mer_seq, w)
    BY <2>4, <2>6 DEF Shown
  <2> QED BY <1>4, <1>9, <2>5, <2>7 DEF MayJoin
<1>10. ASSUME MayJoin(regs, s, w) PROVE s \in UpNeighbors(regs, coex)
  <2>1. s \in 1 .. M - 1 /\ MergedIn(mer_seq)[s] > w
    BY <1>10 DEF MayJoin, Shown
  <2>2. s \in D[s] /\ s \in 1 .. M
    BY <1>2, <1>8, <2>1
  <2>3. \A r \in regs : r \in D[r]
    BY <1>2, <1>8
  <2>4. \A r \in regs : s \notin D[r] /\ r \notin D[s]
    BY <1>10, <2>2, <2>3 DEF MayJoin
  <2>5. \A r \in regs : s \notin tree.ascendants[r]
    BY <1>7, <2>2, <2>4
  <2>6. s \notin others
    <3>1. SUFFICES ASSUME NEW c \in coex, s \in D[c], s # c PROVE FALSE
      BY <1>5
    <3>2. w \in 0 .. Len(mer_seq)
      BY TreeSizes, <1>1
    <3>3. MergedIn(mer_seq)[s] <= w
      BY <1>1, <3>1, <3>2, CoexistingAbove
    <3>4. MergedIn(mer_seq)[s] \in 1 .. Len(mer_seq)
      BY <1>1, <2>1, MergedOnce
    <3> QED BY <2>1, <3>3, <3>4
  <2> QED BY <1>4, <1>10, <2>4, <2>5, <2>6 DEF MayJoin
<1> QED BY <1>9, <1>10

\* A region more gives a candidate again.
LEMMA Joined ==
  ASSUME TreeTables, NEW w \in 0 .. Len(mer_seq) - 1,
         NEW c \in SUBSET Shown(mer_seq, w), IsFiniteSet(c), IsCandidate(c),
         NEW s, MayJoin(c, s, w)
  PROVE  /\ c \cup {s} \subseteq Shown(mer_seq, w) /\ IsCandidate(c \cup {s})
         /\ IsFiniteSet(c \cup {s}) /\ Cardinality(c \cup {s}) = Cardinality(c) + 1
<1> DEFINE M == n_regs(mer_seq)
           D == tree.descendants
           d == c \cup {s}
           Sib == tree.siblings
<1>1. /\ IsTree(mer_seq) /\ IsHierarchy(mer_seq) /\ M \in Nat \ {0} /\ D = descendants(mer_seq)
      /\ Sib = siblings(mer_seq)
  BY TreeSizes DEF TreeTables
<1>2. d \subseteq Shown(mer_seq, w)
  BY DEF MayJoin
<1>3. d \subseteq 1 .. M - 1 /\ 1 .. M - 1 \subseteq 1 .. M
  BY <1>1, <1>2 DEF Shown
<1>4. s \notin c
  <2>1. s \in D[s]
    BY <1>1, <1>3, DescendantsBelow
  <2> QED BY <2>1 DEF MayJoin
<1>5. IsFiniteSet(d) /\ Cardinality(d) = Cardinality(c) + 1
  BY <1>4, FS_AddElement
<1>6. Connected(d)
  <2> SUFFICES ASSUME NEW S \in SUBSET d, S # {}, S # d
               PROVE  \E r \in S, q \in d \ S : q \in tree.neighbors[r]
    BY DEF Connected
  <2>1. PICK r0 \in c : s \in tree.neighbors[r0]
    BY DEF MayJoin
  <2>2. r0 \in tree.neighbors[s]
    BY <1>3, <2>1 DEF TreeTables
  <2>3. \A U \in SUBSET c : U # {} /\ U # c => \E r \in U, q \in c \ U : q \in tree.neighbors[r]
    BY DEF IsCandidate, Connected
  <2>4. CASE s \notin S
    <3>1. S \in SUBSET c
      BY <2>4
    <3>2. CASE S = c
      BY <1>4, <2>1, <3>2
    <3>3. CASE S # c
      BY <2>3, <3>1, <3>3
    <3> QED BY <3>2, <3>3
  <2>5. CASE s \in S
    <3> DEFINE U == S \ {s}
    <3>1. U \in SUBSET c
      OBVIOUS
    <3>2. CASE U = {}
      BY <1>4, <2>1, <2>2, <2>5, <3>2
    <3>3. U # c
      BY <2>5
    <3>4. CASE U # {}
      <4>1. PICK r \in U, q \in c \ U : q \in tree.neighbors[r]
        BY <2>3, <3>1, <3>3, <3>4
      <4>2. r \in S /\ q \in d \ S
        BY <1>4, <4>1
      <4> QED BY <4>1, <4>2
    <3> QED BY <3>2, <3>4
  <2> QED BY <2>4, <2>5
<1>7. Disjoint(d)
  BY DEF IsCandidate, Disjoint, MayJoin
<1>8. \A r, q \in 1 .. M - 1 : q \in Sib[r] => /\ r \in Sib[q] /\ IsFiniteSet(Sib[r]) /\ IsFiniteSet(Sib[q])
                                               /\ Cardinality(Sib[r]) = Cardinality(Sib[q])
                                               /\ Cardinality(Sib[r]) \in Nat \ {0}
  <2> TAKE r, q \in 1 .. M - 1
  <2> HAVE q \in Sib[r]
  <2> DEFINE u == MergedIn(mer_seq)[r]
             sons == mer_seq[u].sons
  <2>1. u \in 1 .. Len(mer_seq) /\ r \in sons
    BY <1>1, MergedOnce
  <2>2. Sib[r] = sons \ {r}
    BY <1>1, <2>1, SiblingsAre
  <2>3. q \in sons /\ q # r
    BY <2>2
  <2>4. Sib[q] = sons \ {q}
    BY <1>1, <2>1, <2>3, SiblingsAre
  <2>5. sons \subseteq 1 .. M
    BY <1>1, <2>1, TreeSizes
  <2> HIDE DEF sons
  <2>6. IsFiniteSet(sons)
    <3>1. IsFiniteSet(1 .. M)
      BY <1>1, FS_Interval
    <3> QED BY <2>5, <3>1, FS_Subset
  <2>7. /\ IsFiniteSet(Sib[r]) /\ Cardinality(Sib[r]) = Cardinality(sons) - 1
    BY <2>1, <2>2, <2>6, FS_RemoveElement
  <2>8. /\ IsFiniteSet(Sib[q]) /\ Cardinality(Sib[q]) = Cardinality(sons) - 1
    BY <2>3, <2>4, <2>6, FS_RemoveElement
  <2>9. Cardinality(Sib[r]) \in Nat /\ Cardinality(Sib[r]) # 0
    BY <2>7, FS_CardinalityType, FS_EmptySet
  <2> QED BY <2>1, <2>3, <2>4, <2>7, <2>8, <2>9
<1>9. \A r \in c : s \in Sib[r] => Cardinality(Sib[r]) > 1
  <2> TAKE r \in c
  <2> HAVE s \in Sib[r]
  <2>1. Cardinality(Sib[r]) # 1
    BY DEF MayJoin, Twins
  <2>2. Cardinality(Sib[r]) \in Nat \ {0}
    BY <1>3, <1>8
  <2> QED BY <2>1, <2>2
<1>10. \A r \in d : Sib[r] \cap d = {} \/ Cardinality(Sib[r]) > 1
  <2> TAKE r \in d
  <2>1. SUFFICES ASSUME NEW q \in d, q \in Sib[r] PROVE Cardinality(Sib[r]) > 1
    OBVIOUS
  <2>2. CASE r = s
    <3>1. CASE q = s
      <4>1. MergedIn(mer_seq)[s] \in 1 .. Len(mer_seq) /\ s \in mer_seq[MergedIn(mer_seq)[s]].sons
        BY <1>1, <1>3, MergedOnce
      <4>2. Sib[s] = mer_seq[MergedIn(mer_seq)[s]].sons \ {s}
        BY <1>1, <4>1, SiblingsAre
      <4> QED BY <2>1, <2>2, <3>1, <4>2
    <3>2. CASE q # s
      <4>1. q \in c /\ s \in Sib[q] /\ Cardinality(Sib[q]) = Cardinality(Sib[r])
        BY <1>3, <1>8, <2>1, <2>2, <3>2
      <4> QED BY <1>9, <4>1
    <3> QED BY <3>1, <3>2
  <2>3. CASE r # s /\ q = s
    BY <1>9, <2>1, <2>3
  <2>4. CASE r # s /\ q # s
    <3>1. r \in c /\ q \in c
      BY <2>4
    <3> QED BY <2>1, <3>1 DEF IsCandidate
  <2> QED BY <2>2, <2>3, <2>4
<1>11. IsCandidate(d)
  BY <1>6, <1>7, <1>10 DEF IsCandidate
<1> QED BY <1>2, <1>5, <1>11

\* A part of a candidate that is not all of it is joined by another of its regions.
LEMMA PartJoined ==
  ASSUME TreeTables, NEW w, NEW c \in SUBSET Shown(mer_seq, w), IsCandidate(c),
         NEW S \in SUBSET c, S # {}, S # c
  PROVE  \E s \in c \ S : MayJoin(S, s, w)
<1>1. PICK r \in S, s \in c \ S : s \in tree.neighbors[r]
  BY DEF IsCandidate, Connected
<1>2. \A q \in S : q \in c /\ q # s
  BY <1>1
<1>3. \A q \in S : tree.descendants[q] \cap tree.descendants[s] = {}
  BY <1>1, <1>2 DEF IsCandidate, Disjoint
<1>4. s \notin Twins(S)
  <2> SUFFICES ASSUME NEW q \in S, Cardinality(tree.siblings[q]) = 1, s \in tree.siblings[q] PROVE FALSE
    BY DEF Twins
  <2>1. tree.siblings[q] \cap c # {}
    BY <1>1
  <2> QED BY <1>2, <2>1 DEF IsCandidate
<1> QED BY <1>1, <1>3, <1>4 DEF MayJoin

\* Values computed one from the other exist.
LEMMA AccumulatorExists ==
  ASSUME NEW A, NEW base \in A, NEW n \in Nat, NEW step \in [A \X (1 .. n) -> A]
  PROVE  \E g : Accumulates(g, A, base, step, n)
<1>1. PICK h : FoldsSubsets(h, A, base, step, n)
  BY FoldSubsetsExist
<1>2. {} \in SUBSET (1 .. n)
  OBVIOUS
<1>3. FoldsFrom(h, A, base, step, n)
  BY <1>1, <1>2 DEF FoldsSubsets, FoldsFrom
<1> QED BY <1>3, FoldRuns

Ones(sons) == [p \in DOMAIN Ascending(sons) |-> {Ascending(sons)[p]}]
GrowsFrom(f, sons, coex, n) ==
  f = [k \in 1 .. n |-> IF k = 1 THEN Ones(sons) ELSE Extended(f[k - 1], coex)]

LEMMA OnesAre ==
  ASSUME NEW M \in Nat, NEW sons \in SUBSET (1 .. M)
  PROVE  Ones(sons) \in Seq(SUBSET (1 .. M)) /\ Range(Ones(sons)) = {{s} : s \in sons}
<1> DEFINE a == Ascending(sons)
           f == Ones(sons)
<1>1. IsFiniteSet(sons) /\ sons \in SUBSET Nat
  <2>1. IsFiniteSet(1 .. M)
    BY FS_Interval
  <2>2. IsFiniteSet(sons)
    BY <2>1, FS_Subset
  <2> QED BY <2>2
<1>2. Lists(a, sons)
  BY <1>1, AscendingLists
<1>3. f = [p \in DOMAIN a |-> {a[p]}]
  BY DEF Ones
<1> HIDE DEF a, f
<1>4. /\ a \in Seq(sons) /\ Len(a) \in Nat /\ DOMAIN a = 1 .. Len(a)
      /\ \A p \in 1 .. Len(a) : a[p] \in sons
      /\ \A s \in sons : \E p \in 1 .. Len(a) : a[p] = s
  BY <1>2 DEF Lists
<1>5. DOMAIN f = 1 .. Len(a) /\ \A p \in 1 .. Len(a) : f[p] = {a[p]}
  BY <1>3, <1>4
<1>6. f \in Seq(SUBSET (1 .. M))
  <2>1. \A p \in 1 .. Len(a) : {a[p]} \in SUBSET (1 .. M)
    BY <1>4
  <2> QED BY <1>3, <1>4, <2>1
<1>7. Range(f) = {{s} : s \in sons}
  <2>1. \A p \in 1 .. Len(a) : f[p] \in {{s} : s \in sons}
    BY <1>4, <1>5
  <2>2. \A s \in sons : \E p \in 1 .. Len(a) : f[p] = {s}
    BY <1>4, <1>5
  <2>3. Range(f) = {f[p] : p \in 1 .. Len(a)}
    BY <1>5 DEF Range
  <2>4. \A c \in Range(f) : c \in {{s} : s \in sons}
    BY <2>1, <2>3
  <2>5. \A s \in sons : {s} \in Range(f)
    BY <2>2, <2>3
  <2> QED BY <2>4, <2>5
<1> QED BY <1>6, <1>7 DEF f

\* Whatever the partition, lists of sets of regions grow to lists of such sets.
LEMMA ExtendedType ==
  ASSUME TreeTables, NEW coex, NEW list \in Seq(SUBSET (1 .. n_regs(mer_seq)))
  PROVE  /\ Extended(list, coex) \in Seq(SUBSET (1 .. n_regs(mer_seq)))
         /\ Range(Extended(list, coex)) = UNION {Larger(c, UpNeighbors(c, coex)) : c \in Range(list)}
<1> DEFINE M == n_regs(mer_seq)
           B == SUBSET (1 .. M)
<1>1. M \in Nat /\ tree.neighbors \in [0 .. M -> SUBSET (1 .. M)]
  BY TreeSizes DEF TreeTables
<1>2. Range(list) \subseteq B
  BY RangeOfList
<1>3. ASSUME NEW c \in Range(list)
      PROVE  /\ UpNeighbors(c, coex) \subseteq 1 .. M
             /\ Larger(c, UpNeighbors(c, coex)) \subseteq B
  <2>1. c \subseteq 1 .. M /\ 1 .. M \subseteq 0 .. M
    BY <1>1, <1>2
  <2>2. \A r \in c : tree.neighbors[r] \subseteq 1 .. M
    BY <1>1, <2>1
  <2>3. UpNeighbors(c, coex) \subseteq 1 .. M
    BY <2>2 DEF UpNeighbors
  <2> QED BY <2>1, <2>3 DEF Larger
<1>4. list \in Seq(B)
  OBVIOUS
<1> HIDE DEF B, M
<1>5. Extended(list, coex) \in Seq(B)
      /\ Range(Extended(list, coex)) = UNION {Larger(c, UpNeighbors(c, coex)) : c \in Range(list)}
  BY <1>1, <1>3, <1>4, ExtendedAre
<1> QED BY <1>5 DEF B, M

LEMMA GrowthExists ==
  ASSUME TreeTables, NEW coex, NEW sons \in SUBSET (1 .. n_regs(mer_seq)), NEW n \in Nat
  PROVE  \E f : GrowsFrom(f, sons, coex, n)
<1> DEFINE A == Seq(SUBSET (1 .. n_regs(mer_seq)))
           E(a, k) == IF k = 1 THEN Ones(sons) ELSE Extended(a, coex)
           step == [ak \in A \X (1 .. n) |-> E(ak[1], ak[2])]
<1>1. n_regs(mer_seq) \in Nat
  BY TreeSizes DEF TreeTables
<1>2. Ones(sons) \in A
  BY <1>1, OnesAre
<1>3. \A a \in A : Extended(a, coex) \in A
  BY ExtendedType
<1>4. <<>> \in A
  OBVIOUS
<1> HIDE DEF A
<1>5. \A a \in A : \A k \in 1 .. n : E(a, k) \in A
  BY <1>2, <1>3
<1>6. \A a \in A : \A k \in 1 .. n : step[<<a, k>>] = E(a, k)
  OBVIOUS
<1>7. step \in [A \X (1 .. n) -> A]
  <2> HIDE DEF E
  <2> QED BY <1>5
<1> HIDE DEF step
<1>8. PICK g : Accumulates(g, A, <<>>, step, n)
  BY <1>4, <1>7, AccumulatorExists
<1> DEFINE f == [k \in 1 .. n |-> g[k]]
<1>9. \A k \in 1 .. n : g[k] = IF k = 1 THEN Ones(sons) ELSE Extended(f[k - 1], coex)
  <2> TAKE k \in 1 .. n
  <2>1. k - 1 \in 0 .. n
    OBVIOUS
  <2>2. g[k - 1] \in A /\ g[k] = step[<<g[k - 1], k>>]
    BY <1>8, <2>1 DEF Accumulates
  <2>3. g[k] = E(g[k - 1], k)
    BY <1>6, <2>2
  <2>4. k # 1 => k - 1 \in 1 .. n
    OBVIOUS
  <2>5. k # 1 => f[k - 1] = g[k - 1]
    BY <2>4
  <2> HIDE DEF f
  <2> QED BY <2>3, <2>5
<1>10. f = [k \in 1 .. n |-> IF k = 1 THEN Ones(sons) ELSE Extended(f[k - 1], coex)]
  <2> DEFINE e == [k \in 1 .. n |-> IF k = 1 THEN Ones(sons) ELSE Extended(f[k - 1], coex)]
  <2>1. \A k \in 1 .. n : e[k] = IF k = 1 THEN Ones(sons) ELSE Extended(f[k - 1], coex)
    OBVIOUS
  <2>2. \A k \in 1 .. n : f[k] = g[k]
    OBVIOUS
  <2>3. \A k \in 1 .. n : f[k] = e[k]
    <3> HIDE DEF f, e
    <3> QED BY <1>9, <2>1, <2>2
  <2>4. f = [k \in 1 .. n |-> f[k]] /\ e = [k \in 1 .. n |-> e[k]]
    OBVIOUS
  <2> HIDE DEF e, f
  <2>5. f = e
    BY <2>3, <2>4
  <2> QED BY <2>5 DEF e
<1>11. GrowsFrom(f, sons, coex, n)
  <2> HIDE DEF f
  <2> QED BY <1>10 DEF GrowsFrom
<1> QED BY <1>11

LEMMA NewCandsGrow ==
  ASSUME TreeTables, NEW coex, NEW sons \in SUBSET (1 .. n_regs(mer_seq)), curr_n_reg_max \in Nat
  PROVE  \E f : /\ GrowsFrom(f, sons, coex, curr_n_reg_max)
                /\ NewCands(sons, coex) =
                     [k \in 1 .. n_reg_cand |-> IF k <= curr_n_reg_max THEN f[k] ELSE <<>>]
<1> DEFINE G(f) == GrowsFrom(f, sons, coex, curr_n_reg_max)
           new == CHOOSE f : G(f)
<1>1. \E f : G(f)
  BY GrowthExists
<1>2. G(new)
  <2> HIDE DEF G
  <2> QED BY <1>1
<1>3. NewCands(sons, coex) = [k \in 1 .. n_reg_cand |-> IF k <= curr_n_reg_max THEN new[k] ELSE <<>>]
  BY DEF NewCands, GrowsFrom, Ones
<1> HIDE DEF new
<1> QED BY <1>2, <1>3

\* The candidates of size k that undoing merging v makes possible.
Fresh(k, v) ==
  {c \in SUBSET Shown(mer_seq, v - 1) :
     Cardinality(c) = k /\ IsCandidate(c) /\ c \cap mer_seq[v].sons # {}}

LEMMA ShownFinite ==
  ASSUME TreeTables, NEW w, NEW c \in SUBSET Shown(mer_seq, w)
  PROVE  IsFiniteSet(c) /\ c \subseteq 1 .. n_regs(mer_seq) /\ c \subseteq 1 .. n_regs(mer_seq) - 1
         /\ Cardinality(c) \in Nat
<1>1. n_regs(mer_seq) \in Nat \ {0}
  BY TreeSizes DEF TreeTables
<1>2. c \subseteq 1 .. n_regs(mer_seq) - 1 /\ 1 .. n_regs(mer_seq) - 1 \subseteq 1 .. n_regs(mer_seq)
  BY <1>1 DEF Shown
<1>3. IsFiniteSet(1 .. n_regs(mer_seq))
  BY <1>1, FS_Interval
<1>4. IsFiniteSet(c)
  BY <1>2, <1>3, FS_Subset
<1> QED BY <1>2, <1>4, FS_CardinalityType

LEMMA SonsShown ==
  ASSUME TreeTables, NEW v \in 1 .. Len(mer_seq)
  PROVE  mer_seq[v].sons \subseteq Shown(mer_seq, v - 1)
<1>1. \A s \in mer_seq[v].sons : s \in 1 .. n_regs(mer_seq) - 1 /\ MergedIn(mer_seq)[s] = v
  BY TreeSizes DEF TreeTables
<1>2. v > v - 1
  OBVIOUS
<1> QED BY <1>1, <1>2 DEF Shown

LEMMA OneIsFresh ==
  ASSUME TreeTables, NEW v \in 1 .. Len(mer_seq), NEW s \in mer_seq[v].sons
  PROVE  {s} \in Fresh(1, v)
<1>1. {s} \in SUBSET Shown(mer_seq, v - 1)
  BY SonsShown
<1>2. Cardinality({s}) = 1
  BY FS_Singleton
<1>3. Connected({s}) /\ Disjoint({s})
  BY DEF Connected, Disjoint
<1>4. tree.siblings[s] = mer_seq[v].sons \ {s}
  BY SiblingsAre DEF TreeTables
<1>5. IsCandidate({s})
  BY <1>3, <1>4 DEF IsCandidate
<1> QED BY <1>1, <1>2, <1>5 DEF Fresh

LEMMA GrownIsFresh ==
  ASSUME TreeTables, NEW v \in 1 .. Len(mer_seq), NEW k \in Nat, NEW c \in Fresh(k, v),
         NEW s \in UpNeighbors(c, Coexist(mer_seq, v - 1))
  PROVE  c \cup {s} \in Fresh(k + 1, v)
<1>1. v - 1 \in 0 .. Len(mer_seq) - 1
  BY TreeSizes DEF TreeTables
<1>2. c \in SUBSET Shown(mer_seq, v - 1) /\ IsCandidate(c) /\ Cardinality(c) = k
  BY DEF Fresh
<1>3. MayJoin(c, s, v - 1)
  BY <1>1, <1>2, UpNeighborsAre
<1>4. IsFiniteSet(c)
  BY <1>2, ShownFinite
<1>5. /\ c \cup {s} \subseteq Shown(mer_seq, v - 1) /\ IsCandidate(c \cup {s})
      /\ Cardinality(c \cup {s}) = k + 1
  BY <1>1, <1>2, <1>3, <1>4, Joined
<1>6. (c \cup {s}) \cap mer_seq[v].sons # {}
  BY DEF Fresh
<1> QED BY <1>5, <1>6 DEF Fresh

\* A list that grows from the sons of merging v.
Growing(f, v, n) == GrowsFrom(f, mer_seq[v].sons, Coexist(mer_seq, v - 1), n)

LEMMA GrowingSteps ==
  ASSUME TreeTables, NEW v \in 1 .. Len(mer_seq), NEW n \in Nat, NEW f, Growing(f, v, n)
  PROVE  /\ \A k \in 1 .. n : f[k] \in Seq(SUBSET (1 .. n_regs(mer_seq)))
         /\ n >= 1 => Range(f[1]) = {{s} : s \in mer_seq[v].sons}
         /\ \A k \in 2 .. n : Range(f[k]) =
              UNION {Larger(c, UpNeighbors(c, Coexist(mer_seq, v - 1))) : c \in Range(f[k - 1])}
<1> DEFINE A == Seq(SUBSET (1 .. n_regs(mer_seq)))
           sons == mer_seq[v].sons
           coex == Coexist(mer_seq, v - 1)
           T == {k \in 1 .. n : f[k] \in A}
<1>1. n_regs(mer_seq) \in Nat /\ sons \subseteq 1 .. n_regs(mer_seq)
  BY TreeSizes DEF TreeTables
<1>2. \A k \in 1 .. n : f[k] = IF k = 1 THEN Ones(sons) ELSE Extended(f[k - 1], coex)
  <2> HIDE DEF sons, coex
  <2>1. f = [k \in 1 .. n |-> IF k = 1 THEN Ones(sons) ELSE Extended(f[k - 1], coex)]
    BY DEF Growing, GrowsFrom, sons, coex
  <2> QED BY <2>1
<1>3. Ones(sons) \in A /\ Range(Ones(sons)) = {{s} : s \in sons}
  BY <1>1, OnesAre
<1>4. \A a \in A : Extended(a, coex) \in A
  BY ExtendedType
<1>5. \A k \in 1 .. n : (\A j \in 1 .. k - 1 : j \in T) => k \in T
  <2> TAKE k \in 1 .. n
  <2> HAVE \A j \in 1 .. k - 1 : j \in T
  <2>1. CASE k = 1
    BY <1>2, <1>3, <2>1
  <2>2. CASE k # 1
    <3>1. k - 1 \in 1 .. k - 1
      BY <2>2
    <3>2. f[k - 1] \in A
      BY <3>1
    <3> HIDE DEF A, coex
    <3>3. f[k] \in A
      BY <1>2, <1>4, <2>2, <3>2
    <3> QED BY <3>3
  <2> QED BY <2>1, <2>2
<1>6. \A k \in 1 .. n : f[k] \in A
  <2> HIDE DEF T
  <2>1. \A k \in 1 .. n : k \in T
    BY <1>5, ClimbAll
  <2> QED BY <2>1 DEF T
<1>7. n >= 1 => Range(f[1]) = {{s} : s \in sons}
  BY <1>2, <1>3
<1>8. ASSUME NEW k \in 2 .. n
      PROVE  Range(f[k]) = UNION {Larger(c, UpNeighbors(c, coex)) : c \in Range(f[k - 1])}
  <2>1. k \in 1 .. n /\ k # 1 /\ k - 1 \in 1 .. n
    OBVIOUS
  <2>2. f[k - 1] \in A /\ f[k] = Extended(f[k - 1], coex)
    BY <1>2, <1>6, <2>1
  <2> QED BY <2>2, ExtendedType
<1> QED BY <1>6, <1>7, <1>8

LEMMA GrowingFresh ==
  ASSUME TreeTables, NEW v \in 1 .. Len(mer_seq), NEW n \in Nat, NEW f, Growing(f, v, n)
  PROVE  \A k \in 1 .. n : Range(f[k]) \subseteq Fresh(k, v)
<1> DEFINE coex == Coexist(mer_seq, v - 1)
           Good(k) == Range(f[k]) \subseteq Fresh(k, v)
           T == {k \in 1 .. n : Good(k)}
<1>1. /\ n >= 1 => Range(f[1]) = {{s} : s \in mer_seq[v].sons}
      /\ \A k \in 2 .. n : Range(f[k]) = UNION {Larger(c, UpNeighbors(c, coex)) : c \in Range(f[k - 1])}
  BY GrowingSteps
<1>2. ASSUME NEW k \in 1 .. n, \A j \in 1 .. k - 1 : j \in T PROVE Good(k)
  <2>1. CASE k = 1
    <3>1. Range(f[k]) = {{s} : s \in mer_seq[v].sons}
      BY <1>1, <2>1
    <3>2. \A s \in mer_seq[v].sons : {s} \in Fresh(k, v)
      BY <2>1, OneIsFresh
    <3> HIDE DEF T
    <3> QED BY <3>1, <3>2
  <2>2. CASE k # 1
    <3>1. k - 1 \in 1 .. k - 1 /\ k \in 2 .. n /\ k - 1 \in Nat /\ (k - 1) + 1 = k
      BY <2>2
    <3>2. Range(f[k - 1]) \subseteq Fresh(k - 1, v)
      BY <1>2, <3>1
    <3> SUFFICES ASSUME NEW d \in Range(f[k]) PROVE d \in Fresh(k, v)
      OBVIOUS
    <3>3. PICK c \in Range(f[k - 1]) : d \in Larger(c, UpNeighbors(c, coex))
      BY <1>1, <3>1
    <3>4. PICK s \in UpNeighbors(c, coex) : d = c \cup {s}
      BY <3>3 DEF Larger
    <3>5. c \in Fresh(k - 1, v)
      BY <3>2, <3>3
    <3>6. c \cup {s} \in Fresh((k - 1) + 1, v)
      BY <3>1, <3>4, <3>5, GrownIsFresh
    <3> QED BY <3>1, <3>4, <3>6
  <2> QED BY <2>1, <2>2
<1>3. \A k \in 1 .. n : (\A j \in 1 .. k - 1 : j \in T) => k \in T
  <2> TAKE k \in 1 .. n
  <2> HAVE \A j \in 1 .. k - 1 : j \in T
  <2>1. Good(k)
    BY <1>2
  <2> HIDE DEF Good
  <2> QED BY <2>1
<1>4. \A k \in 1 .. n : k \in T
  <2> HIDE DEF T
  <2> QED BY <1>3, ClimbAll
<1> QED BY <1>4

\* No candidate is missed: it is found from one of the sons, a region at a time.
LEMMA GrowingFindsAll ==
  ASSUME TreeTables, NEW v \in 1 .. Len(mer_seq), NEW n \in Nat, NEW f, Growing(f, v, n),
         NEW k \in 1 .. n, NEW c \in Fresh(k, v)
  PROVE  c \in Range(f[k])
<1> DEFINE coex == Coexist(mer_seq, v - 1)
           Good(j) == \E S \in SUBSET c : Cardinality(S) = j /\ S \in Range(f[j])
           T == {j \in 1 .. k : Good(j)}
<1>1. /\ n >= 1 => Range(f[1]) = {{s} : s \in mer_seq[v].sons}
      /\ \A j \in 2 .. n : Range(f[j]) = UNION {Larger(S, UpNeighbors(S, coex)) : S \in Range(f[j - 1])}
  BY GrowingSteps
<1>2. c \in SUBSET Shown(mer_seq, v - 1) /\ Cardinality(c) = k /\ IsCandidate(c) /\ c \cap mer_seq[v].sons # {}
  BY DEF Fresh
<1>3. IsFiniteSet(c) /\ c \subseteq 1 .. n_regs(mer_seq) - 1
  BY <1>2, ShownFinite
<1>4. v - 1 \in 0 .. Len(mer_seq) - 1
  BY TreeSizes DEF TreeTables
<1>5. ASSUME NEW j \in 1 .. k, \A i \in 1 .. j - 1 : i \in T PROVE Good(j)
  <2>1. CASE j = 1
    <3>1. PICK s \in c : s \in mer_seq[v].sons
      BY <1>2
    <3>2. {s} \in SUBSET c /\ Cardinality({s}) = 1
      BY FS_Singleton
    <3>3. {s} \in Range(f[1])
      BY <1>1, <3>1
    <3> QED BY <2>1, <3>2, <3>3
  <2>2. CASE j # 1
    <3>1. j - 1 \in 1 .. j - 1 /\ j \in 2 .. n
      BY <2>2
    <3>2. Good(j - 1)
      BY <1>5, <3>1
    <3>3. PICK S \in SUBSET c : Cardinality(S) = j - 1 /\ S \in Range(f[j - 1])
      BY <3>2
    <3>4. S # {} /\ S # c
      <4>1. j - 1 # 0 /\ j - 1 # k
        BY <3>1
      <4> QED BY <1>2, <3>3, <4>1, FS_EmptySet
    <3>5. PICK s \in c \ S : MayJoin(S, s, v - 1)
      BY <1>2, <3>4, PartJoined
    <3>6. S \in SUBSET Shown(mer_seq, v - 1)
      BY <1>2
    <3>7. s \in UpNeighbors(S, coex)
      BY <1>4, <3>5, <3>6, UpNeighborsAre
    <3>8. S \cup {s} \in Larger(S, UpNeighbors(S, coex))
      BY <3>7 DEF Larger
    <3>9. S \cup {s} \in Range(f[j])
      BY <1>1, <3>1, <3>3, <3>8
    <3>10. Cardinality(S \cup {s}) = (j - 1) + 1
      BY <1>3, <3>3, <3>5, FS_Subset, FS_AddElement
    <3>11. (j - 1) + 1 = j
      OBVIOUS
    <3>12. S \cup {s} \in SUBSET c /\ Cardinality(S \cup {s}) = j
      BY <3>5, <3>10, <3>11
    <3> QED BY <3>9, <3>12
  <2> QED BY <2>1, <2>2
<1>6. \A j \in 1 .. k : (\A i \in 1 .. j - 1 : i \in T) => j \in T
  <2> TAKE j \in 1 .. k
  <2> HAVE \A i \in 1 .. j - 1 : i \in T
  <2>1. Good(j)
    BY <1>5
  <2> HIDE DEF Good
  <2> QED BY <2>1
<1>7. k \in T
  <2> HIDE DEF T
  <2>1. k \in Nat /\ k \in 1 .. k
    OBVIOUS
  <2>2. \A j \in 1 .. k : j \in T
    BY <1>6, <2>1, ClimbAll
  <2> QED BY <2>1, <2>2
<1>8. PICK S \in SUBSET c : Cardinality(S) = k /\ S \in Range(f[k])
  BY <1>7
<1>9. S = c
  BY <1>2, <1>3, <1>8, FS_Subset
<1> QED BY <1>8, <1>9

LEMMA NewCandsAre ==
  ASSUME TreeTables, num_cands \in Seq(Nat), curr_n_reg_max \in Nat, NEW v \in 1 .. Len(mer_seq),
         NEW new, new = NewCands(mer_seq[v].sons, Coexist(mer_seq, v - 1))
  PROVE  \A k \in 1 .. n_reg_cand :
           /\ new[k] \in Seq(SUBSET (1 .. n_regs(mer_seq)))
           /\ Range(new[k]) = IF k <= curr_n_reg_max THEN Fresh(k, v) ELSE {}
<1> DEFINE sons == mer_seq[v].sons
           coex == Coexist(mer_seq, v - 1)
           N(f) == [k \in 1 .. n_reg_cand |-> IF k <= curr_n_reg_max THEN f[k] ELSE <<>>]
<1>1. sons \in SUBSET (1 .. n_regs(mer_seq))
  BY TreeSizes DEF TreeTables
<1> HIDE DEF N
<1>2. PICK f : GrowsFrom(f, sons, coex, curr_n_reg_max) /\ new = N(f)
  <2>1. new = NewCands(sons, coex)
    OBVIOUS
  <2> HIDE DEF sons, coex
  <2>2. \E f : GrowsFrom(f, sons, coex, curr_n_reg_max) /\ NewCands(sons, coex) = N(f)
    BY <1>1, NewCandsGrow DEF N
  <2> QED BY <2>1, <2>2
<1>3. Growing(f, v, curr_n_reg_max)
  BY <1>2 DEF Growing
<1>4. \A k \in 1 .. n_reg_cand : k \in Nat /\ k >= 1 /\ new[k] = IF k <= curr_n_reg_max THEN f[k] ELSE <<>>
  <2>1. n_reg_cand \in Nat
    BY DEF n_reg_cand
  <2>2. \A k \in 1 .. n_reg_cand : k \in Nat /\ k >= 1
    BY <2>1
  <2>3. \A k \in 1 .. n_reg_cand : N(f)[k] = IF k <= curr_n_reg_max THEN f[k] ELSE <<>>
    BY DEF N
  <2> QED BY <1>2, <2>2, <2>3
<1> HIDE DEF sons, coex
<1> TAKE k \in 1 .. n_reg_cand
<1>5. CASE k <= curr_n_reg_max
  <2>1. k \in 1 .. curr_n_reg_max
    BY <1>4, <1>5
  <2>2. new[k] = f[k]
    BY <1>4, <1>5
  <2>3. f[k] \in Seq(SUBSET (1 .. n_regs(mer_seq)))
    BY <1>3, <2>1, GrowingSteps
  <2>4. Range(f[k]) \subseteq Fresh(k, v)
    BY <1>3, <2>1, GrowingFresh
  <2>5. Fresh(k, v) \subseteq Range(f[k])
    BY <1>3, <2>1, GrowingFindsAll
  <2>6. Range(f[k]) = Fresh(k, v)
    BY <2>4, <2>5
  <2> QED BY <1>5, <2>2, <2>3, <2>6
<1>6. CASE ~ (k <= curr_n_reg_max)
  <2>1. new[k] = <<>>
    BY <1>4, <1>6
  <2> DEFINE none == <<>>
  <2>2. none \in Seq(SUBSET (1 .. n_regs(mer_seq))) /\ Range(none) = {}
    BY DEF Range
  <2>3. new[k] = none
    BY <2>1
  <2> HIDE DEF none
  <2> QED BY <1>6, <2>2, <2>3
<1> QED BY <1>5, <1>6


-----------------------------------------------------------------------------
(* The search: the invariant of the sweep down the tree.                   *)

\* IsCandidate and Depth for any tables and mergings.
CandidateIn(t, regs) ==
  /\ \A S \in SUBSET regs : S # {} /\ S # regs =>
       \E r \in S, s \in regs \ S : s \in t.neighbors[r]
  /\ \A r, s \in regs : r # s => t.descendants[r] \cap t.descendants[s] = {}
  /\ \A r \in regs : t.siblings[r] \cap regs = {} \/ Cardinality(t.siblings[r]) > 1
DepthIn(ms, regs) ==
  Max({CHOOSE i \in 1 .. Len(ms) : r \in ms[Len(ms) + 1 - i].sons : r \in regs})
CandidatesOf(ms, t, k) ==
  {c \in SUBSET (1 .. n_regs(ms) - 1) : Cardinality(c) = k /\ CandidateIn(t, c)}

LEMMA DepthIs ==
  ASSUME NEW ms, IsTree(ms), NEW c \in SUBSET (1 .. n_regs(ms) - 1), c # {}
  PROVE  /\ DepthIn(ms, c) \in 1 .. Len(ms)
         /\ \A r \in c : Len(ms) + 1 - MergedIn(ms)[r] <= DepthIn(ms, c)
         /\ \E r \in c : Len(ms) + 1 - MergedIn(ms)[r] = DepthIn(ms, c)
<1> DEFINE N == Len(ms)
           in == MergedIn(ms)
           at == [r \in c |-> N + 1 - in[r]]
           S == {at[r] : r \in c}
<1>1. N \in Nat
  BY TreeSizes
<1>2. ASSUME NEW r \in c
      PROVE  /\ in[r] \in 1 .. N /\ at[r] \in 1 .. N
             /\ (CHOOSE i \in 1 .. N : r \in ms[N + 1 - i].sons) = at[r]
  <2>1. /\ in[r] \in 1 .. N /\ r \in ms[in[r]].sons
        /\ \A i \in 1 .. N : r \in ms[i].sons => i = in[r]
    BY MergedOnce
  <2>2. at[r] \in 1 .. N /\ N + 1 - at[r] = in[r]
    BY <1>1, <2>1
  <2>3. \A i \in 1 .. N : r \in ms[N + 1 - i].sons => i = at[r]
    <3> TAKE i \in 1 .. N
    <3> HAVE r \in ms[N + 1 - i].sons
    <3>1. N + 1 - i \in 1 .. N
      BY <1>1
    <3>2. N + 1 - i = in[r]
      BY <2>1, <3>1
    <3> QED BY <1>1, <2>1, <3>2
  <2>4. r \in ms[N + 1 - at[r]].sons
    BY <2>1, <2>2
  <2> HIDE DEF at, in
  <2> QED BY <2>1, <2>2, <2>3, <2>4
<1>3. {CHOOSE i \in 1 .. N : r \in ms[N + 1 - i].sons : r \in c} = S
  <2> HIDE DEF at
  <2> QED BY <1>2
<1>4. DepthIn(ms, c) = Max(S)
  BY <1>3 DEF DepthIn
<1>5. S \in SUBSET (1 .. N) /\ S # {}
  BY <1>2
<1> HIDE DEF S
<1>6. Max(S) \in S /\ \A x \in S : x <= Max(S)
  BY <1>1, <1>5, MaxInInterval
<1>7. \A r \in c : at[r] \in S
  BY DEF S
<1>8. \E r \in c : at[r] = Max(S)
  BY <1>6 DEF S
<1> QED BY <1>4, <1>5, <1>6, <1>7, <1>8

\* How deep a set is found says which mergings it takes to see it.
LEMMA DepthTells ==
  ASSUME NEW ms, IsTree(ms), NEW c \in SUBSET (1 .. n_regs(ms) - 1), c # {},
         NEW v \in 1 .. Len(ms)
  PROVE  /\ c \subseteq Shown(ms, v - 1) /\ c \cap ms[v].sons # {}
         <=> DepthIn(ms, c) = (Len(ms) - v) + 1
<1> DEFINE N == Len(ms)
           in == MergedIn(ms)
           d == DepthIn(ms, c)
<1>1. N \in Nat
  BY TreeSizes
<1>2. \A r \in c : in[r] \in 1 .. N /\ (r \in ms[v].sons <=> in[r] = v)
  BY MergedOnce
<1>3. d \in 1 .. N /\ (\A r \in c : N + 1 - in[r] <= d) /\ \E r \in c : N + 1 - in[r] = d
  BY DepthIs
<1>4. c \subseteq Shown(ms, v - 1) <=> \A r \in c : in[r] > v - 1
  BY DEF Shown
<1> HIDE DEF N, in, d
<1>5. ASSUME \A r \in c : in[r] > v - 1, NEW s \in c, in[s] = v PROVE d = (N - v) + 1
  <2>1. PICK r \in c : N + 1 - in[r] = d
    BY <1>3
  <2>2. in[r] > v - 1 /\ N + 1 - v <= d /\ in[r] \in Int /\ v \in Int
    BY <1>2, <1>3, <1>5
  <2> QED BY <1>1, <1>3, <2>1, <2>2
<1>6. ASSUME d = (N - v) + 1 PROVE (\A r \in c : in[r] > v - 1) /\ \E s \in c : in[s] = v
  <2>1. PICK s \in c : N + 1 - in[s] = d
    BY <1>3
  <2>2. in[s] = v
    BY <1>1, <1>2, <1>6, <2>1
  <2>3. \A r \in c : in[r] > v - 1
    <3> TAKE r \in c
    <3>1. N + 1 - in[r] <= d /\ in[r] \in Int /\ v \in Int
      BY <1>2, <1>3
    <3> QED BY <1>1, <1>6, <3>1
  <2> QED BY <2>2, <2>3
<1>7. (\A r \in c : in[r] > v - 1) /\ (\E s \in c : in[s] = v) <=> d = (N - v) + 1
  BY <1>5, <1>6
<1>8. c \cap ms[v].sons # {} <=> \E s \in c : in[s] = v
  BY <1>2
<1> QED BY <1>4, <1>7, <1>8 DEF N, in, d

LEMMA FreshAre ==
  ASSUME TreeTables, NEW v \in 1 .. Len(mer_seq), NEW k \in Nat \ {0}
  PROVE  Fresh(k, v) = {c \in CandidatesOf(mer_seq, tree, k) : DepthIn(mer_seq, c) = (Len(mer_seq) - v) + 1}
<1>1. \A c : IsCandidate(c) <=> CandidateIn(tree, c)
  BY DEF IsCandidate, CandidateIn, Connected, Disjoint
<1>2. Shown(mer_seq, v - 1) \subseteq 1 .. n_regs(mer_seq) - 1
  BY DEF Shown
<1>3. ASSUME NEW c \in SUBSET (1 .. n_regs(mer_seq) - 1), Cardinality(c) = k
      PROVE  c \subseteq Shown(mer_seq, v - 1) /\ c \cap mer_seq[v].sons # {}
             <=> DepthIn(mer_seq, c) = (Len(mer_seq) - v) + 1
  <2>1. c # {}
    BY <1>3, FS_EmptySet
  <2> QED BY <2>1, DepthTells DEF TreeTables
<1>4. ASSUME NEW c
      PROVE  c \in Fresh(k, v) <=> c \in CandidatesOf(mer_seq, tree, k) /\ DepthIn(mer_seq, c) = (Len(mer_seq) - v) + 1
  <2>1. c \in Fresh(k, v) <=> /\ c \in SUBSET Shown(mer_seq, v - 1) /\ Cardinality(c) = k /\ CandidateIn(tree, c)
                              /\ c \cap mer_seq[v].sons # {}
    BY <1>1 DEF Fresh
  <2>2. c \in CandidatesOf(mer_seq, tree, k) <=>
          c \in SUBSET (1 .. n_regs(mer_seq) - 1) /\ Cardinality(c) = k /\ CandidateIn(tree, c)
    BY DEF CandidatesOf
  <2> QED BY <1>2, <1>3, <2>1, <2>2
<1> QED BY <1>4

-----------------------------------------------------------------------------
(* One list.                                                               *)

Full(list, num, d, ms) == num <= Len(list) /\ \A i \in 1 .. num : DepthIn(ms, list[i]) <= d

\* The candidates of one size, coarsest first, with none left out down to
\* depth d but for being enough.
ListAt(list, ms, t, k, num, d) ==
  /\ list \in Seq(SUBSET (1 .. n_regs(ms))) /\ IsInjective(list)
  /\ \A i \in 1 .. Len(list) : list[i] \in CandidatesOf(ms, t, k) /\ DepthIn(ms, list[i]) <= d
  /\ \A i, j \in 1 .. Len(list) : i < j => DepthIn(ms, list[i]) <= DepthIn(ms, list[j])
  /\ k >= 2 => \A c \in CandidatesOf(ms, t, k) : DepthIn(ms, c) <= d =>
                 c \in Range(list) \/ Full(list, num, DepthIn(ms, c), ms)

LEMMA DepthNat ==
  ASSUME NEW ms, IsTree(ms), NEW t, NEW k \in Nat \ {0}, NEW c \in CandidatesOf(ms, t, k)
  PROVE  DepthIn(ms, c) \in Nat
<1>1. c \in SUBSET (1 .. n_regs(ms) - 1) /\ c # {}
  BY FS_EmptySet DEF CandidatesOf
<1>2. DepthIn(ms, c) \in 1 .. Len(ms) /\ Len(ms) \in Nat
  BY <1>1, DepthIs, TreeSizes
<1> QED BY <1>2

LEMMA ListDeeper ==
  ASSUME NEW ms, IsTree(ms), NEW t, NEW k \in Nat \ {0}, NEW num \in Nat, NEW d \in Nat,
         NEW list, ListAt(list, ms, t, k, num, d),
         NEW new \in Seq(SUBSET (1 .. n_regs(ms))),
         \/ Range(new) = {c \in CandidatesOf(ms, t, k) : DepthIn(ms, c) = d + 1}
         \/ Range(new) = {} /\ (k >= 2 => num <= Len(list))
  PROVE  ListAt(AppendNew(list, new), ms, t, k, num, d + 1) /\ Len(list) <= Len(AppendNew(list, new))
<1> DEFINE B == SUBSET (1 .. n_regs(ms))
           out == AppendNew(list, new)
           C == CandidatesOf(ms, t, k)
           dep(c) == DepthIn(ms, c)
<1>1. list \in Seq(B) /\ IsInjective(list)
  BY DEF ListAt
<1>2. out \in Seq(B) /\ ExtendsBy(out, list, Range(new))
  BY <1>1, AppendNewExtends
<1> HIDE DEF B, out
<1>3. /\ Len(list) \in Nat /\ Len(out) \in Nat /\ DOMAIN list = 1 .. Len(list) /\ DOMAIN out = 1 .. Len(out)
      /\ \A i \in 1 .. Len(out) : out[i] \in Range(out)
      /\ \A c \in Range(list) : \E i \in 1 .. Len(list) : list[i] = c
  BY <1>1, <1>2, RangeOfList
<1>4. /\ Len(list) <= Len(out) /\ \A i \in 1 .. Len(list) : out[i] = list[i]
      /\ IsInjective(out) /\ Range(out) = Range(list) \cup Range(new)
  BY <1>2 DEF ExtendsBy
<1>5. \A c \in C : dep(c) \in Nat
  BY DepthNat
<1>6. \A c \in Range(new) : c \in C /\ dep(c) = d + 1
  OBVIOUS
<1> HIDE DEF C
<1>7. \A i \in 1 .. Len(list) : list[i] \in C /\ dep(list[i]) <= d
  BY DEF ListAt, C
<1>8. ASSUME NEW i \in 1 .. Len(out), i \notin 1 .. Len(list) PROVE out[i] \in Range(new)
  <2>1. SUFFICES ASSUME out[i] \in Range(list) PROVE FALSE
    BY <1>3, <1>4
  <2>2. PICK j \in 1 .. Len(list) : list[j] = out[i]
    BY <1>3, <2>1
  <2>3. j \in 1 .. Len(out) /\ out[j] = out[i]
    BY <1>3, <1>4, <2>2
  <2>4. j = i
    BY <1>3, <1>4, <2>3 DEF IsInjective
  <2> QED BY <1>8, <2>4
<1>9. \A i \in 1 .. Len(out) : out[i] \in C /\ dep(out[i]) <= d + 1 /\ dep(out[i]) \in Nat
  <2> TAKE i \in 1 .. Len(out)
  <2>1. CASE i \in 1 .. Len(list)
    <3>1. out[i] \in C /\ dep(out[i]) <= d
      BY <1>4, <1>7, <2>1
    <3> QED BY <1>5, <3>1
  <2>2. CASE i \notin 1 .. Len(list)
    BY <1>5, <1>6, <1>8, <2>2
  <2> QED BY <2>1, <2>2
<1>10. ASSUME NEW i \in 1 .. Len(out), NEW j \in 1 .. Len(out), i < j
       PROVE  dep(out[i]) <= dep(out[j])
  <2>1. CASE j \in 1 .. Len(list)
    <3>1. i \in 1 .. Len(list)
      BY <1>3, <1>10, <2>1
    <3>2. dep(list[i]) <= dep(list[j])
      BY <1>10, <2>1, <3>1 DEF ListAt
    <3> QED BY <1>4, <2>1, <3>1, <3>2
  <2>2. CASE j \notin 1 .. Len(list)
    <3>1. dep(out[j]) = d + 1
      BY <1>6, <1>8, <2>2
    <3> QED BY <1>9, <3>1
  <2> QED BY <2>1, <2>2
<1>11. ASSUME k >= 2, NEW c \in C, dep(c) <= d + 1, c \notin Range(out)
       PROVE  Full(out, num, dep(c), ms)
  <2>1. Full(list, num, dep(c), ms)
    <3>1. CASE dep(c) <= d
      BY <1>4, <1>11, <3>1 DEF ListAt, C
    <3>2. CASE ~ (dep(c) <= d)
      <4>1. dep(c) = d + 1
        BY <1>5, <1>11, <3>2
      <4>2. num <= Len(list)
        BY <1>4, <1>11, <4>1 DEF C
      <4>3. \A i \in 1 .. num : dep(list[i]) <= dep(c)
        <5> TAKE i \in 1 .. num
        <5>1. i \in 1 .. Len(list)
          BY <1>3, <4>2
        <5>2. list[i] \in C /\ dep(list[i]) <= d
          BY <1>7, <5>1
        <5> QED BY <1>5, <4>1, <5>2
      <4> QED BY <4>2, <4>3 DEF Full
    <3> QED BY <3>1, <3>2
  <2>2. num <= Len(out)
    BY <1>3, <1>4, <2>1 DEF Full
  <2>3. \A i \in 1 .. num : out[i] = list[i]
    BY <1>3, <1>4, <2>1 DEF Full
  <2> QED BY <2>1, <2>2, <2>3 DEF Full
<1>12. out \in Seq(SUBSET (1 .. n_regs(ms)))
  BY <1>2 DEF B
<1>13. ListAt(out, ms, t, k, num, d + 1)
  BY <1>4, <1>9, <1>10, <1>11, <1>12 DEF ListAt, C
<1> QED BY <1>4, <1>13 DEF out

TablesOf(ms, t) ==
  /\ IsTree(ms)
  /\ t.descendants = descendants(ms) /\ t.siblings = siblings(ms) /\ t.ascendants = ascendants(ms)
  /\ t.neighbors \in [0 .. n_regs(ms) -> SUBSET (1 .. n_regs(ms))]
  /\ \A r, s \in 1 .. n_regs(ms) : s \in t.neighbors[r] => r \in t.neighbors[s]
EnoughIn(lists, num, k) == \A j \in k .. Len(num) : Len(lists[j]) >= num[j]
\* The sweep has v mergings left to undo, or has stopped with enough of every size.
SearchAt(ms, t, num, coex, lists, curr, rest, v) ==
  /\ TablesOf(ms, t) /\ num \in Seq(Nat) /\ Len(num) >= 1 /\ v \in 0 .. Len(ms)
  /\ \A k \in 1 .. Len(num) : ListAt(lists[k], ms, t, k, num[k], Len(ms) - v)
  /\ curr \in 1 .. Len(num) /\ \A k \in 2 .. Len(num) : k > curr => Len(lists[k]) >= num[k]
  /\ \/ rest = v /\ coex = Coexist(ms, v)
     \/ rest = 0 /\ EnoughIn(lists, num, 2)
SearchReady(v) ==
  SearchAt(mer_seq, tree, num_cands, coexistent, cands_list, curr_n_reg_max, left, v)
\* No search has started, or one is under way or over.
SearchInv ==
  \/ cands_list = <<>> /\ left = 0
  \/ \E v \in Nat : SearchReady(v)

LEMMA SearchStarts ==
  ASSUME NEW ms, IsTree(ms), NEW pairs, (\A e \in pairs : 0 \notin e),
         NEW num \in Seq(Nat), Len(num) >= 1, StartTree(ms, pairs, num)
  PROVE  SearchInv'
<1> DEFINE N == Len(ms)
           K == Len(num)
           t == [neighbors |-> neighbors(ms, pairs), descendants |-> descendants(ms),
                 siblings |-> siblings(ms), ascendants |-> ascendants(ms)]
           lists == [k \in 1 .. K |-> <<>>]
<1>1. N \in Nat \ {0} /\ K \in Nat
  BY TreeSizes
<1>2. /\ mer_seq' = ms /\ num_cands' = num /\ tree' = t /\ coexistent' = {} /\ cands_list' = lists
      /\ curr_n_reg_max' = K /\ left' = N
  BY DEF StartTree
<1>3. TablesOf(ms, t)
  <2>1. /\ t.descendants = descendants(ms) /\ t.siblings = siblings(ms) /\ t.ascendants = ascendants(ms)
        /\ t.neighbors = neighbors(ms, pairs)
    OBVIOUS
  <2> HIDE DEF t
  <2>2. IsHierarchy(ms)
    BY TreeSizes
  <2> QED BY <2>1, <2>2, NeighborsSymmetric DEF TablesOf
<1>4. ASSUME NEW k \in 1 .. K PROVE ListAt(lists[k], ms, t, k, num[k], N - N)
  <2> DEFINE list == lists[k]
  <2>1. list \in Seq(SUBSET (1 .. n_regs(ms))) /\ Len(list) = 0 /\ DOMAIN list = {}
    OBVIOUS
  <2>2. N - N = 0 /\ k \in Nat \ {0}
    BY <1>1
  <2> HIDE DEF list, t
  <2>3. \A c \in CandidatesOf(ms, t, k) : ~ (DepthIn(ms, c) <= 0)
    <3> TAKE c \in CandidatesOf(ms, t, k)
    <3>1. c \in SUBSET (1 .. n_regs(ms) - 1) /\ c # {}
      BY <2>2, FS_EmptySet DEF CandidatesOf
    <3>2. DepthIn(ms, c) \in 1 .. N
      BY <3>1, DepthIs
    <3> QED BY <3>2
  <2>4. IsInjective(list)
    BY <2>1 DEF IsInjective
  <2>5. ListAt(list, ms, t, k, num[k], 0)
    BY <2>1, <2>3, <2>4 DEF ListAt
  <2> QED BY <2>2, <2>5 DEF list
<1>5. Coexist(ms, N) = {}
  BY CoexistAtTop
<1> HIDE DEF lists, t, N, K
<1>6. SearchAt(ms, t, num, {}, lists, K, N, N)
  <2>1. N \in 0 .. N /\ K \in 1 .. K
    BY <1>1 DEF K
  <2>2. \A k \in 2 .. K : k > K => Len(lists[k]) >= num[k]
    BY <1>1
  <2>3. \A k \in 1 .. Len(num) : ListAt(lists[k], ms, t, k, num[k], Len(ms) - N)
    BY <1>4 DEF N, K
  <2>4. K = Len(num) /\ N \in 0 .. Len(ms)
    BY <1>1 DEF N, K
  <2>5. K \in 1 .. Len(num) /\ \A k \in 2 .. Len(num) : k > K => Len(lists[k]) >= num[k]
    BY <2>1, <2>2, <2>4
  <2> HIDE DEF SearchReady
  <2>6. TablesOf(ms, t) /\ num \in Seq(Nat) /\ Len(num) >= 1 /\ N \in 0 .. Len(ms)
    BY <1>3, <2>4
  <2>7. (N = N /\ {} = Coexist(ms, N)) \/ (N = 0 /\ EnoughIn(lists, num, 2))
    BY <1>5
  <2> QED BY <2>3, <2>5, <2>6, <2>7 DEF SearchAt
<1>7. SearchReady(N)'
  BY <1>2, <1>6 DEF SearchReady
<1>8. N \in Nat
  BY <1>1
<1>9. (\E v \in Nat : SearchReady(v))'
  BY <1>7, <1>8
<1> QED BY <1>9 DEF SearchInv

\* The sizes that are not looked for any more are full.
LEMMA SizesLeftAre ==
  ASSUME num_cands \in Seq(Nat), curr_n_reg_max \in 1 .. Len(num_cands), NEW lists,
         \A k \in 2 .. Len(num_cands) : k > curr_n_reg_max => Len(lists[k]) >= num_cands[k]
  PROVE  /\ SizesLeft(lists) \in 1 .. Len(num_cands)
         /\ \A k \in 2 .. Len(num_cands) : k > SizesLeft(lists) => Len(lists[k]) >= num_cands[k]
<1> DEFINE n == Len(num_cands)
           K == {k \in 2 .. n : EnoughFrom(lists, k)}
<1>1. n \in Nat /\ n_reg_cand = n
  BY DEF n_reg_cand
<1>2. SizesLeft(lists) = IF K = {} THEN curr_n_reg_max ELSE Min(K) - 1
  BY <1>1 DEF SizesLeft
<1>3. CASE K = {}
  BY <1>2, <1>3
<1>4. CASE K # {}
  <2>1. K \in SUBSET Nat
    BY <1>1
  <2>2. PICK x \in K : \A z \in K : x <= z
    BY <1>4, <2>1, LeastElement
  <2>3. Min(K) \in K
    <3> HIDE DEF K
    <3> QED BY <2>2 DEF Min
  <2>4. SizesLeft(lists) = Min(K) - 1 /\ Min(K) \in 2 .. n /\ EnoughFrom(lists, Min(K))
    BY <1>2, <1>4, <2>3
  <2>5. \A k \in Min(K) .. n : Len(lists[k]) >= num_cands[k]
    BY <1>1, <2>4 DEF EnoughFrom
  <2> HIDE DEF K
  <2>6. \A k \in 2 .. n : k > Min(K) - 1 => k \in Min(K) .. n
    BY <1>1, <2>4
  <2>7. Min(K) - 1 \in 1 .. n
    BY <1>1, <2>4
  <2> QED BY <2>4, <2>5, <2>6, <2>7
<1> QED BY <1>3, <1>4

LEMMA SearchGoesOn ==
  ASSUME SearchInv, UndoMerging
  PROVE  SearchInv'
<1> DEFINE N == Len(mer_seq)
           K == Len(num_cands)
<1>1. left > 0
  BY DEF UndoMerging
<1>2. PICK v \in Nat : SearchReady(v)
  BY <1>1 DEF SearchInv
<1>3. /\ TablesOf(mer_seq, tree) /\ num_cands \in Seq(Nat) /\ K >= 1 /\ v \in 0 .. N
      /\ \A k \in 1 .. K : ListAt(cands_list[k], mer_seq, tree, k, num_cands[k], N - v)
      /\ curr_n_reg_max \in 1 .. K
      /\ \A k \in 2 .. K : k > curr_n_reg_max => Len(cands_list[k]) >= num_cands[k]
      /\ left = v /\ coexistent = Coexist(mer_seq, v)
  BY <1>1, <1>2 DEF SearchReady, SearchAt
<1>4. TreeTables /\ IsTree(mer_seq)
  BY <1>3 DEF TablesOf, TreeTables
<1>5. N \in Nat /\ K \in Nat /\ n_reg_cand = K /\ v \in 1 .. N /\ v - 1 \in 0 .. N /\ v - 1 \in Nat
      /\ N - (v - 1) = (N - v) + 1 /\ N - v \in Nat
  <2>1. N \in Nat /\ K \in Nat
    BY <1>3, <1>4, TreeSizes
  <2>2. v \in 1 .. N
    BY <1>1, <1>3, <2>1
  <2> QED BY <2>1, <2>2 DEF n_reg_cand
<1> DEFINE coex == Coexist(mer_seq, v - 1)
           new == NewCands(mer_seq[v].sons, coex)
           lists == [k \in 1 .. K |-> AppendNew(cands_list[k], new[k])]
<1>6. (coexistent \ {mer_seq[left].parent}) \cup mer_seq[left].sons = coex
  BY <1>3, <1>4, <1>5, CoexistUndone
<1>7. /\ coexistent' = coex /\ cands_list' = lists /\ curr_n_reg_max' = SizesLeft(lists)
      /\ left' = (IF EnoughFrom(lists, 2) THEN 0 ELSE left - 1)
      /\ mer_seq' = mer_seq /\ num_cands' = num_cands /\ tree' = tree
  <2> DEFINE coexU == (coexistent \ {mer_seq[left].parent}) \cup mer_seq[left].sons
             newU == NewCands(mer_seq[left].sons, coexU)
             listsU == [k \in 1 .. n_reg_cand |-> AppendNew(cands_list[k], newU[k])]
  <2>1. /\ coexistent' = coexU /\ cands_list' = listsU /\ curr_n_reg_max' = SizesLeft(listsU)
        /\ left' = (IF EnoughFrom(listsU, 2) THEN 0 ELSE left - 1)
        /\ mer_seq' = mer_seq /\ num_cands' = num_cands /\ tree' = tree
    BY DEF UndoMerging
  <2>2. coexU = coex
    BY <1>6
  <2> HIDE DEF coexU, coex
  <2>3. newU = new
    BY <1>3, <2>2
  <2> HIDE DEF newU, new
  <2>4. listsU = lists
    BY <1>5, <2>3
  <2> HIDE DEF listsU, lists
  <2> QED BY <2>1, <2>2, <2>4
<1>8. ASSUME NEW k \in 1 .. K
      PROVE  /\ ListAt(lists[k], mer_seq, tree, k, num_cands[k], N - (v - 1))
             /\ Len(cands_list[k]) <= Len(lists[k])
             /\ Len(cands_list[k]) \in Nat /\ Len(lists[k]) \in Nat
  <2> DEFINE list == cands_list[k]
             out == AppendNew(list, new[k])
  <2>1. curr_n_reg_max \in Nat /\ k \in Nat \ {0}
    BY <1>3
  <2>2. /\ new[k] \in Seq(SUBSET (1 .. n_regs(mer_seq)))
        /\ Range(new[k]) = IF k <= curr_n_reg_max THEN Fresh(k, v) ELSE {}
    BY <1>3, <1>4, <1>5, <2>1, NewCandsAre
  <2>3. Fresh(k, v) = {c \in CandidatesOf(mer_seq, tree, k) : DepthIn(mer_seq, c) = (N - v) + 1}
    BY <1>4, <1>5, <2>1, FreshAre
  <2>4. num_cands[k] \in Nat
    BY <1>3
  <2>5. ListAt(list, mer_seq, tree, k, num_cands[k], N - v)
    BY <1>3
  <2>6. k >= 2 /\ ~ (k <= curr_n_reg_max) => num_cands[k] <= Len(list)
    <3>1. ASSUME k >= 2, ~ (k <= curr_n_reg_max) PROVE num_cands[k] <= Len(list)
      <4>1. k \in 2 .. K /\ k > curr_n_reg_max
        BY <1>5, <2>1, <3>1
      <4>2. Len(list) >= num_cands[k]
        BY <1>3, <4>1
      <4>3. Len(list) \in Nat
        BY <2>5 DEF ListAt
      <4> QED BY <2>4, <4>2, <4>3
    <3> QED BY <3>1
  <2> DEFINE nk == new[k]
             d == N - v
  <2>7. \/ Range(nk) = {c \in CandidatesOf(mer_seq, tree, k) : DepthIn(mer_seq, c) = d + 1}
        \/ Range(nk) = {} /\ (k >= 2 => num_cands[k] <= Len(list))
    <3>1. CASE k <= curr_n_reg_max
      BY <2>2, <2>3, <3>1
    <3>2. CASE ~ (k <= curr_n_reg_max)
      BY <2>2, <2>6, <3>2
    <3> QED BY <3>1, <3>2
  <2>8. d \in Nat /\ N - (v - 1) = d + 1
    BY <1>5
  <2>9. nk \in Seq(SUBSET (1 .. n_regs(mer_seq)))
    BY <2>2
  <2> HIDE DEF nk, d, list, new, N
  <2>10. ListAt(AppendNew(list, nk), mer_seq, tree, k, num_cands[k], d + 1) /\ Len(list) <= Len(AppendNew(list, nk))
    BY <1>4, <2>1, <2>4, <2>5, <2>7, <2>8, <2>9, ListDeeper DEF d
  <2>11. lists[k] = AppendNew(list, nk)
    BY DEF list, nk
  <2>12. Len(list) \in Nat /\ Len(AppendNew(list, nk)) \in Nat
    BY <2>5, <2>10 DEF ListAt
  <2> QED BY <2>8, <2>10, <2>11, <2>12 DEF list
<1> HIDE DEF lists, new, coex
<1>9. \A k \in 2 .. K : k > curr_n_reg_max => Len(lists[k]) >= num_cands[k]
  <2> TAKE k \in 2 .. K
  <2> HAVE k > curr_n_reg_max
  <2>1. k \in 1 .. K
    BY <1>5
  <2>2. Len(cands_list[k]) >= num_cands[k] /\ num_cands[k] \in Nat
    BY <1>3, <2>1
  <2> QED BY <1>8, <2>1, <2>2
<1>10. /\ SizesLeft(lists) \in 1 .. K
       /\ \A k \in 2 .. K : k > SizesLeft(lists) => Len(lists[k]) >= num_cands[k]
  BY <1>3, <1>9, SizesLeftAre
<1> DEFINE rest == IF EnoughFrom(lists, 2) THEN 0 ELSE v - 1
<1>11. \/ rest = v - 1 /\ coex = Coexist(mer_seq, v - 1)
       \/ rest = 0 /\ EnoughIn(lists, num_cands, 2)
  <2>1. EnoughFrom(lists, 2) <=> EnoughIn(lists, num_cands, 2)
    BY <1>5 DEF EnoughFrom, EnoughIn
  <2>2. CASE EnoughFrom(lists, 2)
    BY <2>1, <2>2
  <2>3. CASE ~ EnoughFrom(lists, 2)
    <3>1. rest = v - 1
      BY <2>3
    <3>2. coex = Coexist(mer_seq, v - 1)
      BY DEF coex
    <3> HIDE DEF rest
    <3> QED BY <3>1, <3>2
  <2> QED BY <2>2, <2>3
<1> HIDE DEF rest
<1>12. SearchAt(mer_seq, tree, num_cands, coex, lists, SizesLeft(lists), rest, v - 1)
  BY <1>3, <1>5, <1>8, <1>10, <1>11 DEF SearchAt, N, K
<1>13. left' = rest
  BY <1>3, <1>7 DEF rest
<1>14. SearchReady(v - 1)'
  BY <1>7, <1>12, <1>13 DEF SearchReady
<1>15. (\E w \in Nat : SearchReady(w))'
  BY <1>5, <1>14
<1> QED BY <1>15 DEF SearchInv

LEMMA SearchStays ==
  ASSUME SearchInv, UNCHANGED tree_vars
  PROVE  SearchInv'
BY DEF SearchInv, SearchReady, tree_vars

LEMMA MinOfTwo ==
  ASSUME NEW a \in Int, NEW b \in Int
  PROVE  Min({a, b}) \in {a, b} /\ Min({a, b}) <= a /\ Min({a, b}) <= b
<1>1. \E x \in {a, b} : \A y \in {a, b} : x <= y
  OBVIOUS
<1>2. Min({a, b}) \in {a, b} /\ \A y \in {a, b} : Min({a, b}) <= y
  BY <1>1 DEF Min
<1> QED BY <1>2

\* The first elements of a list.
FirstOf(out, list, m) ==
  /\ Len(out) = m /\ DOMAIN out = 1 .. m /\ \A i \in 1 .. m : out[i] = list[i]
  /\ \A c : Contains(out, c) <=> \E i \in 1 .. m : list[i] = c
  /\ Range(out) = {list[i] : i \in 1 .. m}

LEMMA FirstOfList ==
  ASSUME NEW B, NEW list \in Seq(B), NEW m \in 0 .. Len(list)
  PROVE  FirstOf(SubSeq(list, 1, m), list, m)
<1> DEFINE out == SubSeq(list, 1, m)
<1>1. Len(out) = m /\ DOMAIN out = 1 .. m /\ \A i \in 1 .. m : out[i] = list[i]
  OBVIOUS
<1>2. \A c : Contains(out, c) <=> \E i \in 1 .. m : list[i] = c
  BY <1>1 DEF Contains
<1>3. Range(out) = {list[i] : i \in 1 .. m}
  BY <1>1 DEF Range
<1> QED BY <1>1, <1>2, <1>3 DEF FirstOf

LEMMA SearchFindsCoarsest ==
  ASSUME SearchInv PROVE CoarsestFirst
<1> DEFINE N == Len(mer_seq)
           K == Len(num_cands)
           M == n_regs(mer_seq)
           dep(c) == DepthIn(mer_seq, c)
           C(k) == CandidatesOf(mer_seq, tree, k)
<1>1. SUFFICES ASSUME left = 0, NEW v \in Nat, SearchReady(v), NEW k \in 2 .. K
               PROVE  LET out == tree_cands[k] IN
                      /\ IsInjective(out)
                      /\ \A c \in Range(out) : Cardinality(c) = k /\ IsCandidate(c)
                      /\ \A c \in {x \in SUBSET (1 .. M - 1) : Cardinality(x) = k} :
                           IsCandidate(c) /\ ~ Contains(out, c) =>
                             /\ Len(out) = num_cands[k]
                             /\ \A x \in Range(out) : Depth(x) <= Depth(c)
  BY DEF CoarsestFirst, SearchInv, n_reg_cand
<1> DEFINE list == cands_list[k]
           num == num_cands[k]
           m == Min({Len(list), num})
           out == tree_cands[k]
<1>2. /\ TablesOf(mer_seq, tree) /\ num_cands \in Seq(Nat) /\ v \in 0 .. N
      /\ ListAt(list, mer_seq, tree, k, num, N - v)
      /\ v = 0 \/ EnoughIn(cands_list, num_cands, 2)
  <2>1. k \in 1 .. Len(num_cands)
    BY <1>1 DEF SearchReady, SearchAt
  <2> QED BY <1>1, <2>1 DEF SearchReady, SearchAt
<1>3. IsTree(mer_seq) /\ N \in Nat /\ K \in Nat /\ num \in Nat /\ k \in Nat \ {0} /\ k >= 2
  <2>1. IsTree(mer_seq)
    BY <1>2 DEF TablesOf
  <2>2. K \in Nat
    BY <1>2
  <2> QED BY <1>2, <2>1, <2>2, TreeSizes
<1>4. /\ list \in Seq(SUBSET (1 .. M)) /\ IsInjective(list) /\ Len(list) \in Nat /\ DOMAIN list = 1 .. Len(list)
      /\ \A i \in 1 .. Len(list) : list[i] \in C(k) /\ dep(list[i]) <= N - v
      /\ \A i, j \in 1 .. Len(list) : i < j => dep(list[i]) <= dep(list[j])
      /\ \A c \in C(k) : dep(c) <= N - v => c \in Range(list) \/ Full(list, num, dep(c), mer_seq)
  <2>1. ListAt(list, mer_seq, tree, k, num, N - v) /\ k >= 2
    BY <1>2, <1>3
  <2>2. list \in Seq(SUBSET (1 .. M)) /\ IsInjective(list)
    BY <2>1 DEF ListAt
  <2>3. Len(list) \in Nat /\ DOMAIN list = 1 .. Len(list)
    BY <2>2
  <2>4. \A i \in 1 .. Len(list) : list[i] \in C(k) /\ dep(list[i]) <= N - v
    BY <2>1 DEF ListAt
  <2>5. \A i, j \in 1 .. Len(list) : i < j => dep(list[i]) <= dep(list[j])
    BY <2>1 DEF ListAt
  <2>6. \A c \in C(k) : dep(c) <= N - v => c \in Range(list) \/ Full(list, num, dep(c), mer_seq)
    BY <2>1 DEF ListAt
  <2> QED BY <2>2, <2>3, <2>4, <2>5, <2>6
<1>len. Len(list) \in Nat
  BY <1>4
<1>num. num \in Nat
  BY <1>3
<1>5. (m = Len(list) \/ m = num) /\ m <= Len(list) /\ m <= num /\ m \in Nat
  <2> DEFINE a == Len(list)
  <2>1. a \in Int /\ num \in Int
    BY <1>len, <1>num
  <2> HIDE DEF a, num
  <2>2. Min({a, num}) \in {a, num} /\ Min({a, num}) <= a /\ Min({a, num}) <= num
    BY <2>1, MinOfTwo
  <2>3. m = Min({a, num})
    BY DEF a, num
  <2> QED BY <1>len, <1>num, <2>2, <2>3 DEF a
<1>6. out = SubSeq(list, 1, m)
  <2>1. k \in 2 .. n_reg_cand
    BY DEF n_reg_cand
  <2> QED BY <2>1 DEF tree_cands
<1>7. \A c : IsCandidate(c) <=> CandidateIn(tree, c)
  BY DEF IsCandidate, CandidateIn, Connected, Disjoint
<1>8. \A c : Depth(c) = dep(c)
  BY DEF Depth, DepthIn
<1> HIDE DEF out, m, list, num, N, M, K
<1>9. /\ Len(out) = m /\ DOMAIN out = 1 .. m /\ \A i \in 1 .. m : out[i] = list[i]
      /\ \A c : Contains(out, c) <=> \E i \in 1 .. m : list[i] = c
      /\ Range(out) = {list[i] : i \in 1 .. m}
  <2>1. m \in 0 .. Len(list)
    BY <1>len, <1>5
  <2>2. list \in Seq(SUBSET (1 .. M))
    BY <1>4
  <2> DEFINE B == SUBSET (1 .. M)
  <2>3. list \in Seq(B)
    BY <2>2
  <2> HIDE DEF B
  <2>4. FirstOf(SubSeq(list, 1, m), list, m)
    BY <2>1, <2>3, FirstOfList
  <2> QED BY <1>6, <2>4 DEF FirstOf
<1>10. 1 .. m \subseteq 1 .. Len(list)
  BY <1>len, <1>5
<1>11. IsInjective(out)
  BY <1>4, <1>9, <1>10 DEF IsInjective
<1>12. ASSUME NEW c \in Range(out) PROVE Cardinality(c) = k /\ IsCandidate(c) /\ c \in C(k)
  BY <1>4, <1>7, <1>9, <1>10 DEF CandidatesOf
<1>13. ASSUME NEW c \in SUBSET (1 .. M - 1), Cardinality(c) = k, IsCandidate(c), ~ Contains(out, c)
       PROVE  Len(out) = num /\ \A x \in Range(out) : dep(x) <= dep(c)
  <2>1. c \in C(k) /\ dep(c) \in Nat
    <3>1. c \in C(k)
      BY <1>7, <1>13 DEF CandidatesOf, M
    <3> QED BY <1>3, <3>1, DepthNat
  <2>2. \A i \in 1 .. Len(list) : dep(list[i]) \in Nat
    BY <1>3, <1>4, DepthNat
  <2>3. CASE dep(c) <= N - v /\ c \in Range(list)
    <3>1. PICK i \in 1 .. Len(list) : list[i] = c
      BY <1>4, <2>3 DEF Range
    <3>2. i \notin 1 .. m
      BY <1>9, <1>13, <3>1
    <3>3. m = num /\ i > m
      BY <1>len, <1>num, <1>5, <3>1, <3>2
    <3>4. \A j \in 1 .. m : dep(list[j]) <= dep(c)
      <4> TAKE j \in 1 .. m
      <4>1. j \in 1 .. Len(list) /\ j < i
        BY <1>5, <1>10, <3>3
      <4> QED BY <1>4, <3>1, <4>1
    <3> QED BY <1>9, <3>3, <3>4
  <2>4. CASE dep(c) <= N - v /\ c \notin Range(list)
    <3>1. Full(list, num, dep(c), mer_seq)
      BY <1>4, <2>1, <2>4
    <3>2. num <= Len(list) /\ \A i \in 1 .. num : dep(list[i]) <= dep(c)
      BY <3>1 DEF Full
    <3>3. m = num
      BY <1>len, <1>num, <1>5, <3>2
    <3> QED BY <1>9, <3>2, <3>3
  <2>5. CASE ~ (dep(c) <= N - v)
    <3>1. c # {} /\ c \in SUBSET (1 .. n_regs(mer_seq) - 1)
      BY <1>3, <1>13, FS_EmptySet DEF M
    <3>2. dep(c) \in 1 .. N
      BY <1>3, <3>1, DepthIs DEF N
    <3>3. v # 0
      BY <1>3, <2>5, <3>2
    <3>4. EnoughIn(cands_list, num_cands, 2)
      BY <1>2, <3>3
    <3>5. Len(list) >= num
      BY <3>4 DEF EnoughIn, K, list, num
    <3>6. m = num
      BY <1>len, <1>num, <1>5, <3>5
    <3>7. \A j \in 1 .. m : dep(list[j]) <= dep(c)
      <4> TAKE j \in 1 .. m
      <4>1. j \in 1 .. Len(list)
        BY <1>10
      <4>2. dep(list[j]) <= N - v /\ dep(list[j]) \in Nat /\ N - v \in Int
        BY <1>2, <1>3, <1>4, <2>2, <4>1
      <4> QED BY <2>1, <2>5, <4>2
    <3> QED BY <1>9, <3>6, <3>7
  <2> QED BY <2>3, <2>4, <2>5
<1> QED BY <1>8, <1>11, <1>12, <1>13 DEF out, num, M


-----------------------------------------------------------------------------
(* Proposals: the candidates of every hierarchy, as rows of labels.        *)

LEMMA ListIn ==
  ASSUME NEW S, NEW T, NEW list \in Seq(S), \A i \in 1 .. Len(list) : list[i] \in T
  PROVE  list \in Seq(T)
<1>1. Len(list) \in Nat /\ list = [i \in 1 .. Len(list) |-> list[i]]
  OBVIOUS
<1> QED BY <1>1

\* A row of labels of a tree whose regions have no region in common.
RowOf(ms, row) ==
  /\ row \in Seq(1 .. n_regs(ms)) /\ row # <<>>
  /\ \A y, z \in 1 .. Len(row) :
       y # z => descendants(ms)[row[y]] \cap descendants(ms)[row[z]] = {}

\* The candidates of the hierarchies done, and the search of the one under way.
ListsInv ==
  /\ input \in Inputs
  /\ full_cands \in Seq(Seq(Seq(Nat)))
  /\ \A ii \in 1 .. Len(full_cands) : \A x \in 1 .. Len(full_cands[ii]) :
       RowOf(input.ms[ii], full_cands[ii][x])
  /\ stage \in {"hierarchy", "undo"} => Len(full_cands) < n_hiers
  /\ stage = "undo" => /\ mer_seq = input.ms[hier] /\ num_cands = input.n_cands[hier]
                       /\ cands_list # <<>>
  /\ stage \notin {"hierarchy", "undo"} => Len(full_cands) = n_hiers
  /\ SearchInv

\* What the inputs are, hierarchy by hierarchy.
LEMMA InputIs ==
  ASSUME NEW inp \in Inputs
  PROVE  /\ Len(inp.ms) \in Nat \ {0} /\ DOMAIN inp.ms = 1 .. Len(inp.ms)
         /\ \A ii \in 1 .. Len(inp.ms) :
              /\ IsTree(inp.ms[ii]) /\ IsHierarchy(inp.ms[ii])
              /\ inp.lps[ii] \in [Pixels -> 1 .. n_leaves(inp.ms[ii])]
              /\ Range(inp.lps[ii]) = 1 .. n_leaves(inp.ms[ii])
              /\ inp.n_cands[ii] \in Seq(Nat) /\ Len(inp.n_cands[ii]) \in Nat \ {0}
<1>1. inp.ms \in Seq(Seq([sons : SUBSET Nat, parent : Nat])) /\ inp.ms # <<>>
  BY HierarchyAssumption
<1>2. Len(inp.ms) \in Nat \ {0} /\ DOMAIN inp.ms = 1 .. Len(inp.ms)
  BY <1>1
<1>3. inp.n_cands \in Seq(Seq(Nat)) /\ Len(inp.n_cands) = Len(inp.ms)
  BY HierarchyAssumption
<1>4. ASSUME NEW ii \in 1 .. Len(inp.ms)
      PROVE  /\ IsTree(inp.ms[ii]) /\ IsHierarchy(inp.ms[ii])
             /\ inp.lps[ii] \in [Pixels -> 1 .. n_leaves(inp.ms[ii])]
             /\ Range(inp.lps[ii]) = 1 .. n_leaves(inp.ms[ii])
             /\ inp.n_cands[ii] \in Seq(Nat) /\ Len(inp.n_cands[ii]) \in Nat \ {0}
  <2>1. /\ IsTree(inp.ms[ii]) /\ inp.lps[ii] \in [Pixels -> 1 .. n_leaves(inp.ms[ii])]
        /\ Range(inp.lps[ii]) = 1 .. n_leaves(inp.ms[ii]) /\ inp.n_cands[ii] # <<>>
    BY <1>2, HierarchyAssumption
  <2>2. inp.n_cands[ii] \in Seq(Nat)
    BY <1>3
  <2>3. Len(inp.n_cands[ii]) \in Nat \ {0}
    BY <2>1, <2>2
  <2> QED BY <2>1, <2>2, <2>3 DEF IsTree
<1> QED BY <1>2, <1>4

\* A contour is between two parts of the image, none of them the border.
LEMMA PairsInside ==
  ASSUME NEW n \in Nat, NEW lp \in [Pixels -> 1 .. n]
  PROVE  \A e \in neigh_pairs(lp) : 0 \notin e
<1> SUFFICES ASSUME NEW e \in neigh_pairs(lp) PROVE 0 \notin e
  OBVIOUS
<1>1. PICK pq \in AdjacentPixels : e = {lp[pq[1]], lp[pq[2]]}
  BY DEF neigh_pairs
<1>2. pq[1] \in Pixels /\ pq[2] \in Pixels
  BY DEF AdjacentPixels
<1>3. lp[pq[1]] \in 1 .. n /\ lp[pq[2]] \in 1 .. n
  BY <1>2
<1> QED BY <1>1, <1>3

\* The singletons that are returned.
LEMMA SingletonRows ==
  ASSUME NEW ms, IsTree(ms), NEW num \in Nat
  PROVE  /\ Singletons(n_regs(ms), num) \in Seq(Seq(Nat))
         /\ \A x \in 1 .. Len(Singletons(n_regs(ms), num)) : RowOf(ms, Singletons(n_regs(ms), num)[x])
<1> DEFINE M == n_regs(ms)
           s == Singletons(M, num)
<1>1. M \in Nat \ {0}
  BY TreeSizes
<1>2. PICK a \in Nat : a = Min({M, num}) /\ a <= M /\ a <= num /\ (a = M \/ a = num)
  <2>1. Min({M, num}) \in {M, num} /\ Min({M, num}) <= M /\ Min({M, num}) <= num
    BY <1>1, MinOfTwo
  <2> QED BY <1>1, <2>1
<1>3. PICK b \in Nat : b = Max({M - num, 0}) /\ (b = 0 \/ b = M - num) /\ b >= M - num
  <2>1. M - num \in Int /\ 0 \in Int
    BY <1>1
  <2>2. CASE M - num >= 0
    <3>1. Max({M - num, 0}) = M - num
      BY <2>1, <2>2, MaxIs
    <3> QED BY <1>1, <2>2, <3>1
  <2>3. CASE ~ (M - num >= 0)
    <3>1. {M - num, 0} \in SUBSET Int /\ 0 \in {M - num, 0} /\ \A x \in {M - num, 0} : x <= 0
      BY <2>1, <2>3
    <3>2. Max({M - num, 0}) = 0
      BY <3>1, MaxIs
    <3> QED BY <2>1, <2>3, <3>2
  <2> QED BY <2>2, <2>3
<1>4. a + b <= M
  BY <1>1, <1>2, <1>3
<1>5. s = [i \in 1 .. a |-> <<b + i>>]
  BY <1>2, <1>3 DEF Singletons
<1> HIDE DEF s, M
<1>6. \A i \in 1 .. a : b + i \in 1 .. M /\ b + i \in Nat
  BY <1>1, <1>2, <1>3, <1>4
<1>7. s \in Seq(Seq(Nat)) /\ Len(s) = a
  <2>1. \A i \in 1 .. a : <<b + i>> \in Seq(Nat)
    BY <1>6
  <2> DEFINE e(i) == <<b + i>>
  <2>2. s = [i \in 1 .. a |-> e(i)] /\ \A i \in 1 .. a : e(i) \in Seq(Nat)
    BY <1>5, <2>1
  <2> HIDE DEF e
  <2> DEFINE T == Seq(Nat)
  <2> HIDE DEF T
  <2>3. \A i \in 1 .. a : e(i) \in T
    BY <2>2 DEF T
  <2>4. s \in Seq(T) /\ Len(s) = a
    <3>1. s \in [1 .. a -> T]
      BY <2>2, <2>3
    <3>2. a \in Nat
      OBVIOUS
    <3>3. s \in Seq(T)
      BY <3>1, <3>2
    <3>4. DOMAIN s = 1 .. a /\ DOMAIN s = 1 .. Len(s) /\ Len(s) \in Nat
      BY <3>1, <3>3
    <3> QED BY <3>2, <3>3, <3>4
  <2> QED BY <2>4 DEF T
<1>8. ASSUME NEW x \in 1 .. Len(s) PROVE RowOf(ms, s[x])
  <2>1. s[x] = <<b + x>> /\ b + x \in 1 .. M
    BY <1>5, <1>6, <1>7
  <2>2. s[x] \in Seq(1 .. M) /\ Len(s[x]) = 1 /\ s[x] # <<>>
    BY <2>1
  <2> QED BY <2>2 DEF RowOf, M
<1> QED BY <1>7, <1>8 DEF s, M

\* A set of regions that do not overlap, as a row.
LEMMA CandidateRow ==
  ASSUME NEW ms, IsTree(ms), NEW c \in SUBSET (1 .. n_regs(ms)), c # {},
         \A r, s \in c : r # s => descendants(ms)[r] \cap descendants(ms)[s] = {}
  PROVE  RowOf(ms, Ascending(c)) /\ Ascending(c) \in Seq(Nat)
<1> DEFINE M == n_regs(ms)
           row == Ascending(c)
<1>1. M \in Nat \ {0} /\ c \in SUBSET Nat
  BY TreeSizes
<1>2. IsFiniteSet(c)
  <2>1. IsFiniteSet(1 .. M)
    BY <1>1, FS_Interval
  <2> QED BY <2>1, FS_Subset
<1>3. Lists(row, c)
  BY <1>1, <1>2, AscendingLists
<1> HIDE DEF row, M
<1>4. /\ row \in Seq(c) /\ \A y, z \in 1 .. Len(row) : row[y] = row[z] => y = z
      /\ \A r \in c : \E y \in 1 .. Len(row) : row[y] = r
  BY <1>3 DEF Lists
<1>5. Len(row) \in Nat /\ \A y \in 1 .. Len(row) : row[y] \in c
  BY <1>4
<1>6. row \in Seq(1 .. M) /\ row \in Seq(Nat)
  <2>1. \A y \in 1 .. Len(row) : row[y] \in 1 .. M /\ row[y] \in Nat
    BY <1>1, <1>5 DEF M
  <2> QED BY <1>4, <2>1, ListIn
<1>7. row # <<>>
  <2>1. PICK y \in 1 .. Len(row) : TRUE
    BY <1>4
  <2> QED BY <1>5, <2>1
<1>8. \A y, z \in 1 .. Len(row) :
        y # z => descendants(ms)[row[y]] \cap descendants(ms)[row[z]] = {}
  BY <1>4, <1>5
<1> QED BY <1>6, <1>7, <1>8 DEF RowOf, row, M

\* The rows of one size that are returned.
LEMMA SizeRows ==
  ASSUME NEW v \in Nat, SearchReady(v), left = 0, NEW k \in 2 .. n_reg_cand
  PROVE  /\ Rows(tree_cands[k]) \in Seq(Seq(Nat))
         /\ \A x \in 1 .. Len(Rows(tree_cands[k])) : RowOf(mer_seq, Rows(tree_cands[k])[x])
<1> DEFINE list == cands_list[k]
           num == num_cands[k]
           m == Min({Len(list), num})
           out == SubSeq(list, 1, m)
           rows == Rows(out)
<1>1. /\ TablesOf(mer_seq, tree) /\ num_cands \in Seq(Nat) /\ Len(num_cands) \in Nat
      /\ ListAt(list, mer_seq, tree, k, num, Len(mer_seq) - v)
  BY DEF SearchReady, SearchAt, n_reg_cand
<1>2. IsTree(mer_seq) /\ tree.descendants = descendants(mer_seq)
  BY <1>1 DEF TablesOf
<1>3. num \in Nat /\ k \in Nat \ {0}
  <2>1. k \in 1 .. Len(num_cands) /\ k \in Nat \ {0}
    BY <1>1 DEF n_reg_cand
  <2> QED BY <1>1, <2>1
<1>4. list \in Seq(SUBSET (1 .. n_regs(mer_seq)))
      /\ \A i \in 1 .. Len(list) : list[i] \in CandidatesOf(mer_seq, tree, k)
  BY <1>1 DEF ListAt
<1>5. tree_cands[k] = out
  BY DEF tree_cands
<1>6. Len(list) \in Nat
  BY <1>4
<1>7. m \in 0 .. Len(list)
  <2>1. m \in {Len(list), num} /\ m <= Len(list)
    <3>1. Len(list) \in Int /\ num \in Int
      BY <1>3, <1>6
    <3> HIDE DEF list, num
    <3> QED BY <3>1, MinOfTwo
  <2> QED BY <1>3, <1>6, <2>1
<1> HIDE DEF list, num, m
<1>8. Len(out) = m /\ DOMAIN out = 1 .. m /\ \A i \in 1 .. m : out[i] = list[i]
  BY <1>4, <1>7, FirstOfList DEF FirstOf
<1>9. rows = [i \in 1 .. m |-> Ascending(out[i])]
  BY <1>8 DEF Rows
<1> HIDE DEF out
<1>10. ASSUME NEW i \in 1 .. m PROVE RowOf(mer_seq, Ascending(out[i])) /\ Ascending(out[i]) \in Seq(Nat)
  <2> DEFINE c == out[i]
  <2>1. c \in CandidatesOf(mer_seq, tree, k)
    BY <1>4, <1>6, <1>7, <1>8
  <2>2. c \in SUBSET (1 .. n_regs(mer_seq) - 1) /\ Cardinality(c) = k /\ CandidateIn(tree, c)
    BY <2>1 DEF CandidatesOf
  <2> HIDE DEF c
  <2>3. n_regs(mer_seq) \in Nat /\ c \in SUBSET (1 .. n_regs(mer_seq))
    BY <1>2, <2>2, TreeSizes
  <2>4. c # {}
    BY <1>3, <2>2, FS_EmptySet
  <2>5. \A r, s \in c : r # s => descendants(mer_seq)[r] \cap descendants(mer_seq)[s] = {}
    BY <1>2, <2>2 DEF CandidateIn
  <2>6. RowOf(mer_seq, Ascending(c)) /\ Ascending(c) \in Seq(Nat)
    BY <1>2, <2>3, <2>4, <2>5, CandidateRow
  <2> QED BY <2>6 DEF c
<1>11. m \in Nat
  BY <1>6, <1>7
<1>12. rows \in Seq(Seq(Nat)) /\ Len(rows) = m /\ \A i \in 1 .. m : rows[i] = Ascending(out[i])
  BY <1>9, <1>10, <1>11
<1> QED BY <1>5, <1>10, <1>12

\* What is stored for a hierarchy once its search is over.
StoredRows == Singletons(n_regs(mer_seq), num_cands[1])
                \o FlattenSeq([k \in 1 .. n_reg_cand - 1 |-> Rows(tree_cands[k + 1])])

LEMMA StoredAreRows ==
  ASSUME NEW v \in Nat, SearchReady(v), left = 0
  PROVE  StoredRows \in Seq(Seq(Nat)) /\ \A x \in 1 .. Len(StoredRows) : RowOf(mer_seq, StoredRows[x])
<1> DEFINE R == {row \in Seq(Nat) : RowOf(mer_seq, row)}
           one == Singletons(n_regs(mer_seq), num_cands[1])
           lists == [k \in 1 .. n_reg_cand - 1 |-> Rows(tree_cands[k + 1])]
<1>1. /\ IsTree(mer_seq) /\ num_cands \in Seq(Nat) /\ Len(num_cands) \in Nat /\ Len(num_cands) >= 1
  BY DEF SearchReady, SearchAt, TablesOf
<1>2. num_cands[1] \in Nat /\ n_reg_cand \in Nat /\ n_reg_cand >= 1
  BY <1>1 DEF n_reg_cand
<1>3. one \in Seq(Seq(Nat)) /\ \A x \in 1 .. Len(one) : RowOf(mer_seq, one[x])
  BY <1>1, <1>2, SingletonRows
<1>4. ASSUME NEW k \in 1 .. n_reg_cand - 1 PROVE Rows(tree_cands[k + 1]) \in Seq(R)
  <2> DEFINE rows == Rows(tree_cands[k + 1])
  <2>1. k + 1 \in 2 .. n_reg_cand
    BY <1>2
  <2>2. rows \in Seq(Seq(Nat)) /\ \A x \in 1 .. Len(rows) : RowOf(mer_seq, rows[x])
    BY <2>1, SizeRows
  <2> HIDE DEF rows
  <2>3. \A x \in 1 .. Len(rows) : rows[x] \in R
    BY <2>2
  <2>4. rows \in Seq(R)
    <3> HIDE DEF R
    <3> QED BY <2>2, <2>3, ListIn
  <2> QED BY <2>4 DEF rows
<1> HIDE DEF one
<1>5. lists \in Seq(Seq(R))
  <2> HIDE DEF R
  <2> QED BY <1>2, <1>4
<1>6. FlattenSeq(lists) \in Seq(R)
  <2> HIDE DEF R, lists
  <2> QED BY <1>5, FlattenType
<1>7. one \in Seq(R)
  <2>1. \A x \in 1 .. Len(one) : one[x] \in R
    BY <1>3
  <2> QED BY <1>3, <2>1
<1>8. StoredRows = one \o FlattenSeq(lists)
  BY DEF StoredRows, one
<1> HIDE DEF lists
<1>9. StoredRows \in Seq(R)
  <2> HIDE DEF R
  <2> QED BY <1>6, <1>7, <1>8
<1>10. \A x \in 1 .. Len(StoredRows) : StoredRows[x] \in R
  <2> HIDE DEF R
  <2> QED BY <1>9
<1>11. StoredRows \in Seq(Seq(Nat))
  BY <1>9, <1>10
<1> QED BY <1>10, <1>11

LEMMA ListsStart ==
  ProposalsInit => ListsInv
<1> SUFFICES ASSUME ProposalsInit PROVE ListsInv
  OBVIOUS
<1>1. input \in Inputs /\ full_cands = <<>> /\ stage = "hierarchy" /\ cands_list = <<>> /\ left = 0
  BY DEF ProposalsInit
<1>2. Len(full_cands) = 0 /\ full_cands \in Seq(Seq(Seq(Nat)))
  BY <1>1
<1>3. n_hiers \in Nat \ {0}
  BY <1>1, InputIs DEF n_hiers
<1>4. SearchInv
  BY <1>1 DEF SearchInv
<1> QED BY <1>1, <1>2, <1>3, <1>4 DEF ListsInv

LEMMA ListsStep ==
  ASSUME ListsInv, [ProposalsNext]_proposal_vars
  PROVE  ListsInv'
<1> USE DEF ListsInv, n_hiers, hier
<1>1. Len(full_cands) \in Nat /\ Len(input.ms) \in Nat /\ input \in Inputs
  BY InputIs
<1>2. CASE StartHierarchy
  <2>1. /\ stage = "hierarchy" /\ stage' = "undo" /\ full_cands' = full_cands /\ input' = input
        /\ StartTree(input.ms[hier], neigh_pairs(input.lps[hier]), input.n_cands[hier])
    BY <1>2 DEF StartHierarchy
  <2>2. hier \in 1 .. Len(input.ms)
    BY <1>1, <2>1
  <2>3. /\ IsTree(input.ms[hier]) /\ input.n_cands[hier] \in Seq(Nat) /\ Len(input.n_cands[hier]) >= 1
        /\ input.lps[hier] \in [Pixels -> 1 .. n_leaves(input.ms[hier])]
        /\ n_leaves(input.ms[hier]) \in Nat
    <3> DEFINE ii == hier
    <3> HIDE DEF ii
    <3>1. ii \in 1 .. Len(input.ms)
      BY <2>2 DEF ii
    <3>2. /\ IsTree(input.ms[ii]) /\ IsHierarchy(input.ms[ii])
          /\ input.lps[ii] \in [Pixels -> 1 .. n_leaves(input.ms[ii])]
          /\ input.n_cands[ii] \in Seq(Nat) /\ Len(input.n_cands[ii]) \in Nat \ {0}
      BY <1>1, <3>1, InputIs
    <3>3. n_leaves(input.ms[ii]) \in Nat
      BY <3>2, HierarchySizes
    <3>4. Len(input.n_cands[ii]) >= 1
      BY <3>2
    <3> QED BY <3>2, <3>3, <3>4 DEF ii
  <2>4. \A e \in neigh_pairs(input.lps[hier]) : 0 \notin e
    BY <2>3, PairsInside
  <2>5. SearchInv'
    BY <2>1, <2>3, <2>4, SearchStarts
  <2>6. /\ mer_seq' = input.ms[hier] /\ num_cands' = input.n_cands[hier]
        /\ cands_list' = [k \in 1 .. Len(input.n_cands[hier]) |-> <<>>]
    BY <2>1 DEF StartTree
  <2>7. 1 \in DOMAIN cands_list'
    BY <2>3, <2>6
  <2>8. cands_list' # <<>>
    BY <2>7
  <2> QED BY <1>1, <2>1, <2>2, <2>5, <2>6, <2>8
<1>3. CASE UndoLastMerging
  <2>1. stage = "undo" /\ stage' = stage /\ full_cands' = full_cands /\ input' = input /\ UndoMerging
    BY <1>3 DEF UndoLastMerging
  <2>2. mer_seq' = mer_seq /\ num_cands' = num_cands
    BY <2>1 DEF UndoMerging
  <2>3. SearchInv'
    BY <2>1, SearchGoesOn
  <2>4. cands_list' # <<>>
    <3>1. PICK v \in Nat : SearchReady(v)
      BY <2>1 DEF SearchInv
    <3>2. Len(num_cands) \in Nat /\ Len(num_cands) >= 1
      BY <3>1 DEF SearchReady, SearchAt
    <3>3. DOMAIN (cands_list') = 1 .. Len(num_cands)
      BY <2>1 DEF UndoMerging, n_reg_cand
    <3>4. 1 \in DOMAIN (cands_list')
      BY <3>2, <3>3
    <3> QED BY <3>4
  <2> QED BY <2>1, <2>2, <2>3, <2>4
<1>4. CASE StoreHierarchy
  <2>1. /\ stage = "undo" /\ left = 0 /\ full_cands' = Append(full_cands, StoredRows)
        /\ stage' = IF hier = n_hiers THEN "prune" ELSE "hierarchy"
        /\ input' = input /\ UNCHANGED tree_vars
    BY <1>4 DEF StoreHierarchy, StoredRows
  <2>2. SearchInv'
    BY <2>1, SearchStays
  <2>3. PICK v \in Nat : SearchReady(v)
    BY <2>1 DEF SearchInv
  <2>4. StoredRows \in Seq(Seq(Nat)) /\ \A x \in 1 .. Len(StoredRows) : RowOf(mer_seq, StoredRows[x])
    BY <2>1, <2>3, StoredAreRows
  <2> HIDE DEF ListsInv
  <2>5. /\ full_cands \in Seq(Seq(Seq(Nat))) /\ Len(full_cands) < Len(input.ms) /\ mer_seq = input.ms[hier]
        /\ \A ii \in 1 .. Len(full_cands) : \A x \in 1 .. Len(full_cands[ii]) :
             RowOf(input.ms[ii], full_cands[ii][x])
    BY <2>1 DEF ListsInv
  <2>6. /\ full_cands' \in Seq(Seq(Seq(Nat))) /\ Len(full_cands') = hier
        /\ \A ii \in 1 .. Len(full_cands) : full_cands'[ii] = full_cands[ii]
        /\ full_cands'[hier] = StoredRows
    <3> DEFINE T == Seq(Seq(Nat))
               new == StoredRows
    <3>1. full_cands \in Seq(T) /\ new \in T /\ full_cands' = Append(full_cands, new)
      BY <2>1, <2>4, <2>5
    <3> HIDE DEF T, new
    <3>2. /\ full_cands' \in Seq(T) /\ Len(full_cands') = Len(full_cands) + 1
          /\ \A ii \in 1 .. Len(full_cands) : full_cands'[ii] = full_cands[ii]
          /\ full_cands'[Len(full_cands) + 1] = new
      BY <1>1, <3>1
    <3> QED BY <3>2 DEF T, new
  <2>7. \A ii \in 1 .. hier : \A x \in 1 .. Len(full_cands'[ii]) :
          RowOf(input.ms[ii], full_cands'[ii][x])
    <3>1. \A ii \in 1 .. hier : ii = hier \/ ii \in 1 .. Len(full_cands)
      BY <1>1
    <3> QED BY <2>4, <2>5, <2>6, <3>1
  <2>8. stage' \in {"hierarchy", "undo"} => hier < n_hiers
    BY <1>1, <2>1, <2>5
  <2>9. stage' \notin {"hierarchy", "undo"} => hier = n_hiers
    BY <2>1
  <2>10. stage' # "undo"
    BY <2>1
  <2> QED BY <1>1, <2>1, <2>2, <2>6, <2>7, <2>8, <2>9, <2>10 DEF ListsInv
\* The other steps start and end after the lists, and change none of this.
<1>5. ASSUME /\ stage \notin {"hierarchy", "undo"} /\ stage' \notin {"hierarchy", "undo"}
             /\ full_cands' = full_cands /\ input' = input /\ UNCHANGED tree_vars
      PROVE  ListsInv'
  <2>1. SearchInv'
    BY <1>5, SearchStays
  <2> QED BY <1>5, <2>1
<1>6. CASE PruneHierarchy
  BY <1>5, <1>6 DEF PruneHierarchy
<1>7. CASE Fuse
  BY <1>5, <1>7 DEF Fuse
<1>8. CASE FillHoles
  BY <1>5, <1>8 DEF FillHoles
<1>9. CASE ComputeFeatures
  BY <1>5, <1>9 DEF ComputeFeatures
<1>10. CASE Reduce
  BY <1>5, <1>10 DEF Reduce
<1>11. CASE Score
  BY <1>5, <1>11 DEF Score
<1>12. CASE Rank
  BY <1>5, <1>12 DEF Rank
<1>13. CASE SelectNext
  BY <1>5, <1>13 DEF SelectNext
<1>14. CASE Return
  BY <1>5, <1>14 DEF Return
<1>15. CASE UNCHANGED proposal_vars
  <2>1. UNCHANGED tree_vars /\ input' = input /\ full_cands' = full_cands /\ stage' = stage
    BY <1>15 DEF proposal_vars
  <2>2. SearchInv'
    BY <2>1, SearchStays
  <2>3. mer_seq' = mer_seq /\ num_cands' = num_cands /\ cands_list' = cands_list
    BY <2>1 DEF tree_vars
  <2> QED BY <2>1, <2>2, <2>3
<1> QED BY <1>2, <1>3, <1>4, <1>6, <1>7, <1>8, <1>9, <1>10, <1>11, <1>12, <1>13, <1>14, <1>15
        DEF ProposalsNext

\* The lists that the sweep down a tree returns have no candidate twice and
\* only connected sets of regions that do not overlap, and what they leave out
\* is never coarser than what they have (mex_get_tree_cands.cpp), for every
\* tree, every set of neighbours and every numbers wanted.
THEOREM CandidatesAreCoarsest == ProposalsSpec => []CoarsestFirst
<1>1. ProposalsInit => ListsInv
  BY ListsStart
<1>2. ListsInv /\ [ProposalsNext]_proposal_vars => ListsInv'
  BY ListsStep
<1>3. ListsInv => CoarsestFirst
  BY SearchFindsCoarsest DEF ListsInv
<1> QED BY <1>1, <1>2, <1>3, PTL DEF ProposalsSpec


-----------------------------------------------------------------------------
(* Proposals: pruning keeps what is needed.                                *)

Mergings == Seq([sons : SUBSET Nat, parent : Nat])
KeepStates == [needed : SUBSET Nat, mergs_to_keep : Mergings, leaves_to_keep : SUBSET Nat]
KeepStep(a, m) ==
  IF m.sons \cap a.needed # {}
  THEN [a EXCEPT !.needed = @ \cup {m.parent}, !.mergs_to_keep = Append(@, m)]
  ELSE [a EXCEPT !.leaves_to_keep = (@ \cup {m.parent}) \ m.sons]
KeepFold(base, ms) ==
  FoldLeft(LAMBDA a, m :
             IF m.sons \cap a.needed # {}
             THEN [a EXCEPT !.needed = @ \cup {m.parent}, !.mergs_to_keep = Append(@, m)]
             ELSE [a EXCEPT !.leaves_to_keep = (@ \cup {m.parent}) \ m.sons],
           base, ms)

LEMMA KeepsFold ==
  ASSUME NEW ms, NEW A, NEW base \in A, NEW n \in Nat, DOMAIN ms = 1 .. n,
         \A a \in A : \A k \in 1 .. n :
           KeepStep(a, ms[k]) \in A
  PROVE  \E g \in [0 .. n -> A] :
           /\ g[0] = base /\ KeepFold(base, ms) = g[n]
           /\ \A k \in 1 .. n :
                g[k] = KeepStep(g[k - 1], ms[k])
<1> DEFINE E(a, k) == KeepStep(a, ms[k])
           step == [ak \in A \X (1 .. n) |-> E(ak[1], ak[2])]
           F(h) == [s \in SUBSET DOMAIN ms |-> IF s = {} THEN base ELSE E(h[s \ {Max(s)}], Max(s))]
           fold == CHOOSE h : h = F(h)
<1>1. KeepFold(base, ms) = fold[1 .. n]
  BY DEF KeepFold, KeepStep, FoldLeft, MapThenFoldSet
<1>2. \A a \in A : \A k \in 1 .. n : E(a, k) \in A
  OBVIOUS
<1>3. \A g : (\A k \in 1 .. n : g[k] = E(g[k - 1], k)) =>
               \A k \in 1 .. n : g[k] = KeepStep(g[k - 1], ms[k])
  OBVIOUS
<1> HIDE DEF E
<1>4. step \in [A \X (1 .. n) -> A] /\ \A a \in A : \A k \in 1 .. n : step[<<a, k>>] = E(a, k)
  BY <1>2
<1> HIDE DEF step
<1>5. PICK h : FoldsSubsets(h, A, base, step, n)
  BY <1>4, FoldSubsetsExist
<1>6. h = F(h)
  <2>1. h \in [SUBSET (1 .. n) -> A]
    BY <1>5 DEF FoldsSubsets
  <2>2. ASSUME NEW s \in SUBSET (1 .. n), s # {}
        PROVE  h[s] = E(h[s \ {Max(s)}], Max(s))
    <3>1. Max(s) \in 1 .. n
      BY <2>2, MaxInInterval
    <3>2. h[s \ {Max(s)}] \in A
      BY <2>1
    <3>3. h[s] = step[<<h[s \ {Max(s)}], Max(s)>>]
      BY <1>5, <2>2 DEF FoldsSubsets
    <3> QED BY <1>4, <3>1, <3>2, <3>3
  <2>3. \A s \in SUBSET (1 .. n) : s = {} => h[s] = base
    BY <1>5 DEF FoldsSubsets
  <2> QED BY <2>1, <2>2, <2>3
<1>7. fold = F(fold)
  <2> HIDE DEF F
  <2> QED BY <1>6
<1> HIDE DEF fold
<1>8. \A s \in SUBSET (1 .. n) : fold[s] = IF s = {} THEN base ELSE E(fold[s \ {Max(s)}], Max(s))
  BY <1>7
<1> HIDE DEF F
<1>9. ASSUME NEW s \in SUBSET (1 .. n), s # {}, fold[s \ {Max(s)}] \in A
      PROVE  fold[s] = step[<<fold[s \ {Max(s)}], Max(s)>>]
  <2>1. Max(s) \in 1 .. n
    BY <1>9, MaxInInterval
  <2> QED BY <1>4, <1>8, <1>9, <2>1
<1>10. FoldsFrom(fold, A, base, step, n)
  BY <1>4, <1>8, <1>9 DEF FoldsFrom
<1>11. PICK g : Accumulates(g, A, base, step, n) /\ fold[1 .. n] = g[n]
  BY <1>10, FoldRuns
<1>12. g \in [0 .. n -> A] /\ g[0] = base
  BY <1>11 DEF Accumulates
<1>13. ASSUME NEW k \in 1 .. n PROVE g[k] = E(g[k - 1], k)
  <2>1. g[k - 1] \in A
    BY <1>12
  <2> QED BY <1>4, <1>11, <2>1 DEF Accumulates
<1>14. \A k \in 1 .. n : g[k] = KeepStep(g[k - 1], ms[k])
  BY <1>3, <1>13
<1> QED BY <1>1, <1>11, <1>12, <1>14


LEMMA KeepStepFields ==
  ASSUME NEW a \in KeepStates, NEW m \in [sons : SUBSET Nat, parent : Nat]
  PROVE  /\ KeepStep(a, m) \in KeepStates
         /\ m.sons \cap a.needed # {} =>
              /\ KeepStep(a, m).needed = a.needed \cup {m.parent}
              /\ KeepStep(a, m).mergs_to_keep = Append(a.mergs_to_keep, m)
              /\ KeepStep(a, m).leaves_to_keep = a.leaves_to_keep
         /\ m.sons \cap a.needed = {} =>
              /\ KeepStep(a, m).needed = a.needed
              /\ KeepStep(a, m).mergs_to_keep = a.mergs_to_keep
              /\ KeepStep(a, m).leaves_to_keep = (a.leaves_to_keep \cup {m.parent}) \ m.sons
<1>1. /\ a.needed \in SUBSET Nat /\ a.mergs_to_keep \in Mergings /\ a.leaves_to_keep \in SUBSET Nat
      /\ m.sons \in SUBSET Nat /\ m.parent \in Nat
      /\ a = [needed |-> a.needed, mergs_to_keep |-> a.mergs_to_keep, leaves_to_keep |-> a.leaves_to_keep]
  BY DEF KeepStates
<1>2. Append(a.mergs_to_keep, m) \in Mergings
  BY <1>1 DEF Mergings
<1>3. CASE m.sons \cap a.needed # {}
  <2>1. KeepStep(a, m) = [needed |-> a.needed \cup {m.parent}, mergs_to_keep |-> Append(a.mergs_to_keep, m),
                          leaves_to_keep |-> a.leaves_to_keep]
    BY <1>1, <1>3 DEF KeepStep
  <2>2. a.needed \cup {m.parent} \in SUBSET Nat
    BY <1>1
  <2> QED BY <1>1, <1>2, <1>3, <2>1, <2>2 DEF KeepStates
<1>4. CASE m.sons \cap a.needed = {}
  <2>1. KeepStep(a, m) = [needed |-> a.needed, mergs_to_keep |-> a.mergs_to_keep,
                          leaves_to_keep |-> (a.leaves_to_keep \cup {m.parent}) \ m.sons]
    BY <1>1, <1>4 DEF KeepStep
  <2>2. (a.leaves_to_keep \cup {m.parent}) \ m.sons \in SUBSET Nat
    BY <1>1
  <2> QED BY <1>1, <1>4, <2>1, <2>2 DEF KeepStates
<1> QED BY <1>3, <1>4

\* A region that is needed is strictly below r.
HasNeeded(ms, regs, r) == \E q \in regs : q \in descendants(ms)[r] /\ q # r
\* The mergings kept among the first k.
KeptOf(ms, regs, k) == {i \in 1 .. k : HasNeeded(ms, regs, n_leaves(ms) + i)}

LEMMA NeededBelow ==
  ASSUME NEW ms, IsHierarchy(ms), NEW regs, NEW k \in 1 .. Len(ms),
         NEW X, X = regs \cup {n_leaves(ms) + i : i \in KeptOf(ms, regs, k - 1)}
  PROVE  ms[k].sons \cap X # {} <=> HasNeeded(ms, regs, n_leaves(ms) + k)
<1> DEFINE N == Len(ms)
           n == n_leaves(ms)
           M == n_regs(ms)
           D == descendants(ms)
           kept(i) == HasNeeded(ms, regs, n + i)
<1>1. /\ N \in Nat \ {0} /\ n \in Nat \ {0} /\ M = n + N
      /\ \A i \in 1 .. N : /\ ms[i].parent = n + i /\ ms[i].sons \subseteq 1 .. M
                           /\ \A s \in ms[i].sons : s \in Nat /\ s < n + i
  BY HierarchySizes
<1>2. D[n + k] = {n + k} \cup UNION {D[s] : s \in ms[k].sons}
  BY <1>1, DescendantsAre
<1>3. \A s \in 1 .. M : s \in D[s] /\ D[s] \subseteq 1 .. s
  BY DescendantsBelow
<1>4. \A s \in 1 .. n : D[s] = {s}
  BY DescendantsAre
<1>5. X = regs \cup {n + i : i \in {j \in 1 .. k - 1 : kept(j)}}
  BY DEF KeptOf
<1>6. n + k \in 1 .. M
  BY <1>1
<1>7. \A s \in ms[k].sons : s \in 1 .. M /\ s < n + k
  BY <1>1
<1>8. \A s : \A q \in D[s] : s \in D[n + k] /\ s \in 1 .. M => q \in D[n + k]
  BY <1>6, DescendantsTransitive
<1> HIDE DEF D, N, n, M
<1>9. ASSUME NEW s \in ms[k].sons, s \in X PROVE kept(k)
  <2>1. s \in D[n + k] /\ s \in 1 .. M /\ s # n + k
    BY <1>2, <1>3, <1>7
  <2>2. CASE s \in regs
    BY <2>1, <2>2 DEF HasNeeded, D, n
  <2>3. CASE s \notin regs
    <3>1. PICK i \in 1 .. k - 1 : s = n + i /\ kept(i)
      BY <1>5, <1>9, <2>3
    <3>2. PICK q \in regs : q \in D[s] /\ q # s
      BY <3>1 DEF HasNeeded, D, n
    <3>3. q \in D[n + k] /\ q \in 1 .. s
      BY <1>3, <1>8, <2>1, <3>2
    <3>4. q # n + k
      BY <1>1, <1>7, <1>9, <3>3
    <3> QED BY <3>2, <3>3, <3>4 DEF HasNeeded, D, n
  <2> QED BY <2>2, <2>3
<1>10. ASSUME kept(k) PROVE ms[k].sons \cap X # {}
  <2>1. PICK q \in regs : q \in D[n + k] /\ q # n + k
    BY <1>10 DEF HasNeeded, D, n
  <2>2. PICK s \in ms[k].sons : q \in D[s]
    BY <1>2, <2>1
  <2>3. CASE q = s
    BY <1>5, <2>1, <2>2, <2>3
  <2>4. CASE q # s
    <3>1. s \notin 1 .. n
      BY <1>4, <2>2, <2>4
    <3>2. s \in Nat /\ s > n /\ s < n + k
      BY <1>1, <1>7, <3>1
    <3>3. PICK i \in 1 .. k - 1 : s = n + i
      <4>1. s - n \in 1 .. k - 1 /\ s = n + (s - n)
        BY <1>1, <3>2
      <4> QED BY <4>1
    <3>4. kept(i)
      BY <2>1, <2>2, <2>4, <3>3 DEF HasNeeded, D, n
    <3>5. s \in X
      BY <1>5, <3>3, <3>4
    <3> QED BY <2>2, <3>5
  <2> QED BY <2>3, <2>4
<1> QED BY <1>9, <1>10 DEF n

\* The mergings of a set of numbers, in order.
ListsMergings(list, ms, S) ==
  /\ list \in Mergings
  /\ \A x \in 1 .. Len(list) : \E i \in S : list[x] = ms[i]
  /\ \A i \in S : \E x \in 1 .. Len(list) : list[x] = ms[i]
  /\ \A x, y \in 1 .. Len(list) : x < y => list[x].parent < list[y].parent
\* The parents of mergings done, unless they are merged into another one of these.
LeavesOfPruned(ms, regs, k) ==
  {n_leaves(ms) + i : i \in {i \in 1 .. k \ KeptOf(ms, regs, k) :
                               \A j \in 1 .. k : n_leaves(ms) + i \in ms[j].sons => j \in KeptOf(ms, regs, k)}}
KeepsUpTo(ms, regs, k, a) ==
  /\ a \in KeepStates
  /\ a.needed = regs \cup {n_leaves(ms) + i : i \in KeptOf(ms, regs, k)}
  /\ ListsMergings(a.mergs_to_keep, ms, KeptOf(ms, regs, k))
  /\ a.leaves_to_keep = LeavesOfPruned(ms, regs, k)

LEMMA MergingIs ==
  ASSUME NEW ms, IsHierarchy(ms), NEW k \in 1 .. Len(ms)
  PROVE  ms[k] \in [sons : SUBSET Nat, parent : Nat]
<1> DEFINE X == [sons : SUBSET Nat, parent : Nat]
<1>1. ms \in Seq(X)
  BY DEF IsHierarchy
<1> HIDE DEF X
<1>2. ms[k] \in X
  BY <1>1
<1> QED BY <1>2 DEF X

LEMMA ListsOneMore ==
  ASSUME NEW ms, IsHierarchy(ms), NEW k \in 1 .. Len(ms), NEW S \in SUBSET (1 .. k - 1), NEW list,
         ListsMergings(list, ms, S)
  PROVE  ListsMergings(Append(list, ms[k]), ms, S \cup {k})
<1> DEFINE new == Append(list, ms[k])
<1>1. ms[k] \in [sons : SUBSET Nat, parent : Nat] /\ \A i \in 1 .. k - 1 : ms[i].parent < ms[k].parent
  <2>1. \A i \in 1 .. Len(ms) : ms[i].parent = n_leaves(ms) + i
    BY HierarchySizes
  <2>2. n_leaves(ms) \in Nat /\ Len(ms) \in Nat /\ \A i \in 1 .. k - 1 : i \in 1 .. Len(ms) /\ i < k
    BY HierarchySizes
  <2>3. ms[k] \in [sons : SUBSET Nat, parent : Nat]
    BY MergingIs
  <2>4. \A i \in 1 .. k - 1 : n_leaves(ms) + i < n_leaves(ms) + k
    BY <2>2
  <2> QED BY <2>1, <2>2, <2>3, <2>4
<1>2. list \in Mergings /\ Len(list) \in Nat
  BY DEF ListsMergings, Mergings
<1>3. /\ new \in Mergings /\ Len(new) = Len(list) + 1 /\ new[Len(list) + 1] = ms[k]
      /\ \A x \in 1 .. Len(list) : new[x] = list[x]
  <2> DEFINE m == ms[k]
  <2> HIDE DEF m
  <2>1. m \in [sons : SUBSET Nat, parent : Nat]
    BY <1>1 DEF m
  <2>2. /\ Append(list, m) \in Mergings /\ Len(Append(list, m)) = Len(list) + 1 /\ Append(list, m)[Len(list) + 1] = m
        /\ \A x \in 1 .. Len(list) : Append(list, m)[x] = list[x]
    BY <1>2, <2>1 DEF Mergings
  <2> QED BY <2>2 DEF m
<1> HIDE DEF new
<1>4. \A x \in 1 .. Len(new) : x \in 1 .. Len(list) \/ x = Len(list) + 1
  BY <1>2, <1>3
<1>5. \A x \in 1 .. Len(list) : x \in 1 .. Len(new)
  BY <1>2, <1>3
<1>6. Len(list) + 1 \in 1 .. Len(new)
  BY <1>2, <1>3
<1>7. /\ \A x \in 1 .. Len(list) : \E i \in S : list[x] = ms[i]
      /\ \A i \in S : \E x \in 1 .. Len(list) : list[x] = ms[i]
      /\ \A x, y \in 1 .. Len(list) : x < y => list[x].parent < list[y].parent
  BY DEF ListsMergings
<1>8. \A x \in 1 .. Len(new) : \E i \in S \cup {k} : new[x] = ms[i]
  BY <1>3, <1>4, <1>7
<1>9. \A i \in S \cup {k} : \E x \in 1 .. Len(new) : new[x] = ms[i]
  BY <1>3, <1>5, <1>6, <1>7
<1>10. ASSUME NEW x \in 1 .. Len(new), NEW y \in 1 .. Len(new), x < y PROVE new[x].parent < new[y].parent
  <2>1. x \in 1 .. Len(list)
    BY <1>2, <1>3, <1>10
  <2>2. CASE y \in 1 .. Len(list)
    BY <1>3, <1>7, <1>10, <2>1, <2>2
  <2>3. CASE y = Len(list) + 1
    <3>1. PICK i \in S : list[x] = ms[i]
      BY <1>7, <2>1
    <3>2. i \in 1 .. k - 1
      OBVIOUS
    <3> QED BY <1>1, <1>3, <2>1, <2>3, <3>1, <3>2
  <2> QED BY <1>4, <2>2, <2>3
<1> QED BY <1>3, <1>8, <1>9, <1>10 DEF ListsMergings, new

LEMMA KeepsOneMore ==
  ASSUME NEW ms, IsHierarchy(ms), NEW regs, NEW k \in 1 .. Len(ms), NEW a, KeepsUpTo(ms, regs, k - 1, a)
  PROVE  KeepsUpTo(ms, regs, k, KeepStep(a, ms[k]))
<1> DEFINE n == n_leaves(ms)
           kept(i) == HasNeeded(ms, regs, n + i)
           b == KeepStep(a, ms[k])
           S == KeptOf(ms, regs, k - 1)
           T == KeptOf(ms, regs, k)
<1>1. /\ Len(ms) \in Nat \ {0} /\ n \in Nat \ {0}
      /\ \A i \in 1 .. Len(ms) : /\ ms[i].parent = n + i
                           /\ \A s \in ms[i].sons : s \in Nat /\ s < n + i
  BY HierarchySizes
<1>2. ms[k] \in [sons : SUBSET Nat, parent : Nat] /\ ms[k].parent = n + k
  BY <1>1, MergingIs
<1>3. ms[k].sons \cap a.needed # {} <=> kept(k)
  BY NeededBelow DEF KeepsUpTo
<1>4. /\ b \in KeepStates
      /\ kept(k) => /\ b.needed = a.needed \cup {n + k}
                    /\ b.mergs_to_keep = Append(a.mergs_to_keep, ms[k])
                    /\ b.leaves_to_keep = a.leaves_to_keep
      /\ ~ kept(k) => /\ b.needed = a.needed
                      /\ b.mergs_to_keep = a.mergs_to_keep
                      /\ b.leaves_to_keep = (a.leaves_to_keep \cup {n + k}) \ ms[k].sons
  <2>1. a \in KeepStates
    BY DEF KeepsUpTo
  <2> HIDE DEF kept
  <2> QED BY <1>2, <1>3, <2>1, KeepStepFields
<1>5. S = {i \in 1 .. k - 1 : kept(i)} /\ T = {i \in 1 .. k : kept(i)}
  BY DEF KeptOf
<1> HIDE DEF kept, b, S, T
<1>6. k \in 1 .. k /\ k \notin 1 .. k - 1 /\ \A i \in 1 .. k : i \in 1 .. k - 1 \/ i = k
  BY <1>1
<1>7. \A i \in 1 .. k - 1 : i \in 1 .. k
  BY <1>1
<1>8. T = IF kept(k) THEN S \cup {k} ELSE S
  BY <1>5, <1>6, <1>7
<1>9. /\ a.needed = regs \cup {n + i : i \in S} /\ ListsMergings(a.mergs_to_keep, ms, S)
      /\ a.leaves_to_keep = LeavesOfPruned(ms, regs, k - 1)
  BY DEF KeepsUpTo, n, S
<1>10. b.needed = regs \cup {n + i : i \in T}
  BY <1>4, <1>8, <1>9
<1>11. ListsMergings(b.mergs_to_keep, ms, T)
  <2>1. S \in SUBSET (1 .. k - 1)
    BY <1>5
  <2>2. ListsMergings(Append(a.mergs_to_keep, ms[k]), ms, S \cup {k})
    BY <1>9, <2>1, ListsOneMore
  <2> QED BY <1>4, <1>8, <1>9, <2>2
<1>12. b.leaves_to_keep = LeavesOfPruned(ms, regs, k)
  <2> DEFINE old(i) == i \in 1 .. k - 1 /\ i \notin S /\ \A j \in 1 .. k - 1 : n + i \in ms[j].sons => j \in S
             new(i) == i \in 1 .. k /\ i \notin T /\ \A j \in 1 .. k : n + i \in ms[j].sons => j \in T
  <2>1. a.leaves_to_keep = {n + i : i \in {i \in 1 .. k - 1 : old(i)}}
    <3>1. \A i : i \in 1 .. k - 1 /\ old(i) <=>
                 i \in {i2 \in 1 .. k - 1 \ S : \A j \in 1 .. k - 1 : n + i2 \in ms[j].sons => j \in S}
      OBVIOUS
    <3>2. a.leaves_to_keep = {n + i : i \in {i \in 1 .. k - 1 \ S : \A j \in 1 .. k - 1 : n + i \in ms[j].sons => j \in S}}
      BY <1>9 DEF LeavesOfPruned, n, S
    <3> HIDE DEF old
    <3> QED BY <3>1, <3>2
  <2>2. LeavesOfPruned(ms, regs, k) = {n + i : i \in {i \in 1 .. k : new(i)}}
    <3>1. \A i : i \in 1 .. k /\ new(i) <=>
                 i \in {i2 \in 1 .. k \ T : \A j \in 1 .. k : n + i2 \in ms[j].sons => j \in T}
      OBVIOUS
    <3>2. LeavesOfPruned(ms, regs, k) = {n + i : i \in {i \in 1 .. k \ T : \A j \in 1 .. k : n + i \in ms[j].sons => j \in T}}
      BY DEF LeavesOfPruned, n, T
    <3> HIDE DEF new
    <3> QED BY <3>1, <3>2
  <2>3. \A j \in 1 .. k : n + k \notin ms[j].sons
    <3> SUFFICES ASSUME NEW j \in 1 .. k, n + k \in ms[j].sons PROVE FALSE
      OBVIOUS
    <3>1. j \in 1 .. Len(ms) /\ j <= k
      BY <1>1
    <3>2. n + k < n + j
      BY <1>1, <3>1
    <3> QED BY <1>1, <3>1, <3>2
  <2>4. new(k) <=> ~ kept(k)
    BY <1>5, <1>6, <2>3
  <2>5. ASSUME NEW i \in 1 .. k - 1
        PROVE  new(i) <=> old(i) /\ (kept(k) \/ n + i \notin ms[k].sons)
    <3>1. i \in T <=> i \in S
      BY <1>6, <1>8
    <3>2. \A j \in 1 .. k - 1 : j \in T <=> j \in S
      BY <1>6, <1>8
    <3>3. k \in T <=> kept(k)
      BY <1>5, <1>6
    <3>4. (\A j \in 1 .. k : n + i \in ms[j].sons => j \in T) <=>
            /\ \A j \in 1 .. k - 1 : n + i \in ms[j].sons => j \in T
            /\ n + i \in ms[k].sons => k \in T
      BY <1>6, <1>7
    <3> QED BY <1>7, <3>1, <3>2, <3>3, <3>4
  <2> HIDE DEF old, new
  <2>6. \A x : x \in LeavesOfPruned(ms, regs, k) <=>
               (x = n + k /\ ~ kept(k)) \/ (\E i \in 1 .. k - 1 : x = n + i /\ new(i))
    BY <1>6, <1>7, <2>2, <2>4
  <2>7. \A x : x \in a.leaves_to_keep <=> \E i \in 1 .. k - 1 : x = n + i /\ old(i)
    BY <2>1
  <2>8. CASE kept(k)
    BY <1>4, <2>5, <2>6, <2>7, <2>8
  <2>9. CASE ~ kept(k)
    <3>1. n + k \notin ms[k].sons
      BY <1>6, <2>3
    <3>2. b.leaves_to_keep = (a.leaves_to_keep \cup {n + k}) \ ms[k].sons
      BY <1>4, <2>9
    <3>3. \A x : x \in b.leaves_to_keep <=>
                 (x = n + k) \/ (\E i \in 1 .. k - 1 : x = n + i /\ old(i) /\ n + i \notin ms[k].sons)
      BY <2>7, <3>1, <3>2
    <3>4. \A x : x \in b.leaves_to_keep <=> x \in LeavesOfPruned(ms, regs, k)
      BY <2>5, <2>6, <2>9, <3>3
    <3> QED BY <3>4
  <2> QED BY <2>8, <2>9
<1> QED BY <1>4, <1>10, <1>11, <1>12 DEF KeepsUpTo, n, T, b

\* What is kept when all mergings have been looked at.
LEMMA KeepOrMergeIs ==
  ASSUME NEW ms, IsHierarchy(ms), NEW regs \in SUBSET Nat
  PROVE  KeepsUpTo(ms, regs, Len(ms), KeepOrMerge(regs, ms))
<1> DEFINE N == Len(ms)
           base == [needed |-> regs, mergs_to_keep |-> <<>>, leaves_to_keep |-> {}]
<1>1. N \in Nat \ {0} /\ DOMAIN ms = 1 .. N /\ \A k \in 1 .. N : ms[k] \in [sons : SUBSET Nat, parent : Nat]
  BY HierarchySizes, MergingIs
<1>2. KeepOrMerge(regs, ms) = KeepFold(base, ms)
  BY DEF KeepOrMerge, KeepFold
<1>3. base \in KeepStates
  BY DEF KeepStates, Mergings
<1>4. KeepsUpTo(ms, regs, 0, base)
  <2>1. base.needed = regs /\ base.mergs_to_keep = <<>> /\ base.leaves_to_keep = {}
    OBVIOUS
  <2> HIDE DEF base
  <2>2. 1 .. 0 = {}
    OBVIOUS
  <2>3. KeptOf(ms, regs, 0) = {} /\ LeavesOfPruned(ms, regs, 0) = {}
    BY <2>2 DEF KeptOf, LeavesOfPruned
  <2>4. ListsMergings(<<>>, ms, {})
    BY DEF ListsMergings, Mergings
  <2> QED BY <1>3, <2>1, <2>3, <2>4 DEF KeepsUpTo
<1> HIDE DEF base, N
<1>5. \A a \in KeepStates : \A k \in 1 .. N : KeepStep(a, ms[k]) \in KeepStates
  BY <1>1, KeepStepFields
<1>6. PICK g \in [0 .. N -> KeepStates] :
        /\ g[0] = base /\ KeepFold(base, ms) = g[N]
        /\ \A k \in 1 .. N : g[k] = KeepStep(g[k - 1], ms[k])
  <2>1. N \in Nat /\ DOMAIN ms = 1 .. N
    BY <1>1
  <2> DEFINE out == KeepFold(base, ms)
  <2>2. out = KeepFold(base, ms)
    OBVIOUS
  <2> HIDE DEF out
  <2>3. \E g \in [0 .. N -> KeepStates] :
          /\ g[0] = base /\ out = g[N]
          /\ \A k \in 1 .. N : g[k] = KeepStep(g[k - 1], ms[k])
    BY <1>3, <1>5, <2>1, <2>2, KeepsFold
  <2> QED BY <2>2, <2>3
<1> DEFINE T == {k \in 0 .. N : KeepsUpTo(ms, regs, k, g[k])}
<1>7. 0 \in T
  BY <1>1, <1>4, <1>6
<1>8. ASSUME NEW k \in 1 .. N, k - 1 \in T PROVE k \in T
  <2>1. KeepsUpTo(ms, regs, k - 1, g[k - 1])
    BY <1>8
  <2>2. KeepsUpTo(ms, regs, k, KeepStep(g[k - 1], ms[k]))
    BY <2>1, KeepsOneMore DEF N
  <2>3. k \in 0 .. N
    BY <1>1
  <2> QED BY <1>6, <2>2, <2>3
<1>9. \A k \in 0 .. N : k \in T
  <2> HIDE DEF T
  <2> QED BY <1>1, <1>7, <1>8, Climb
<1>10. N \in T
  BY <1>1, <1>9
<1> QED BY <1>2, <1>6, <1>10 DEF N

\* The leaves of a pruned tree: the regions with nothing needed strictly below
\* them, unless that is so of their parents, too.
Bare(ms, regs) ==
  {r \in 1 .. n_regs(ms) : /\ ~ HasNeeded(ms, regs, r)
                           /\ r # n_regs(ms) => HasNeeded(ms, regs, Parent(ms, r))}
ParentsKept(ms, regs) == {n_leaves(ms) + i : i \in KeptOf(ms, regs, Len(ms))}
RegionsKept(ms, regs) == Bare(ms, regs) \cup ParentsKept(ms, regs)

LEMMA NeededUp ==
  ASSUME NEW ms, IsHierarchy(ms), NEW regs, NEW r \in 1 .. n_regs(ms), NEW s \in descendants(ms)[r],
         HasNeeded(ms, regs, s)
  PROVE  HasNeeded(ms, regs, r)
<1>1. s \in 1 .. r
  BY DescendantsBelow
<1>2. n_regs(ms) \in Nat
  BY HierarchySizes
<1>3. s \in 1 .. n_regs(ms)
  BY <1>1, <1>2
<1>4. PICK q \in regs : q \in descendants(ms)[s] /\ q # s
  BY DEF HasNeeded
<1>5. q \in 1 .. s
  BY <1>3, <1>4, DescendantsBelow
<1>6. q \in descendants(ms)[r]
  BY <1>4, DescendantsTransitive
<1>7. q # r
  BY <1>1, <1>4, <1>5
<1> QED BY <1>4, <1>6, <1>7 DEF HasNeeded

LEMMA LeafNeedsNone ==
  ASSUME NEW ms, IsHierarchy(ms), NEW regs, NEW r \in 1 .. n_leaves(ms)
  PROVE  ~ HasNeeded(ms, regs, r)
<1>1. descendants(ms)[r] = {r}
  BY DescendantsAre
<1> QED BY <1>1 DEF HasNeeded

\* Something with nothing needed below it is below a leaf of the pruned tree.
LEMMA BareAbove ==
  ASSUME NEW ms, IsTree(ms), NEW regs, NEW l \in 1 .. n_regs(ms), ~ HasNeeded(ms, regs, l)
  PROVE  \E r \in Bare(ms, regs) : l \in descendants(ms)[r]
<1> DEFINE M == n_regs(ms)
           D == descendants(ms)
           U == {r \in 1 .. M : l \in D[r] /\ ~ HasNeeded(ms, regs, r)}
           T == {M - r : r \in U}
<1>1. M \in Nat \ {0} /\ IsHierarchy(ms)
  BY TreeSizes
<1>2. l \in U
  BY <1>1, DescendantsBelow
<1>3. T \in SUBSET Nat /\ T # {}
  BY <1>1, <1>2
<1>4. PICK x \in T : \A y \in T : x <= y
  <2> HIDE DEF T
  <2> QED BY <1>3, LeastElement
<1>5. PICK r \in U : x = M - r
  BY <1>4
<1>6. \A s \in U : s <= r
  <2> TAKE s \in U
  <2>1. M - s \in T
    OBVIOUS
  <2>2. M - r <= M - s
    BY <1>4, <1>5, <2>1
  <2>3. s \in Int /\ r \in Int
    BY <1>1
  <2> QED BY <1>1, <2>2, <2>3
<1>7. r \in 1 .. M /\ l \in D[r] /\ ~ HasNeeded(ms, regs, r)
  BY <1>5
<1>8. ASSUME r # M, ~ HasNeeded(ms, regs, Parent(ms, r)) PROVE FALSE
  <2>1. r \in 1 .. M - 1
    BY <1>1, <1>7, <1>8
  <2>2. Parent(ms, r) \in 1 .. M /\ r < Parent(ms, r)
    BY <2>1, MergedOnce
  <2>3. r \in D[Parent(ms, r)]
    BY <2>1, BelowParent
  <2>4. l \in D[Parent(ms, r)]
    BY <1>1, <1>7, <2>2, <2>3, DescendantsTransitive
  <2>5. Parent(ms, r) \in U
    BY <1>8, <2>2, <2>4
  <2>6. Parent(ms, r) <= r
    BY <1>6, <2>5
  <2> QED BY <1>7, <2>2, <2>6
<1> QED BY <1>7, <1>8 DEF Bare

\* The leaves of a pruned tree have nothing in common.
LEMMA BareBelow ==
  ASSUME NEW ms, IsTree(ms), NEW regs, NEW r \in Bare(ms, regs), NEW s \in Bare(ms, regs),
         r \in descendants(ms)[s]
  PROVE  r = s
<1> SUFFICES ASSUME r # s PROVE FALSE
  OBVIOUS
<1>1. r \in 1 .. n_regs(ms) /\ s \in 1 .. n_regs(ms) /\ ~ HasNeeded(ms, regs, s)
  BY DEF Bare
<1>2. r \in 1 .. n_regs(ms) - 1 /\ Parent(ms, r) \in descendants(ms)[s]
  BY <1>1, ParentBelow
<1>3. n_regs(ms) \in Nat /\ IsHierarchy(ms)
  BY TreeSizes
<1>4. HasNeeded(ms, regs, Parent(ms, r))
  BY <1>2, <1>3 DEF Bare
<1>5. HasNeeded(ms, regs, s)
  BY <1>1, <1>2, <1>3, <1>4, NeededUp
<1> QED BY <1>1, <1>5
LEMMA BareDisjoint ==
  ASSUME NEW ms, IsTree(ms), NEW regs, NEW r \in Bare(ms, regs), NEW s \in Bare(ms, regs),
         NEW x, x \in descendants(ms)[r], x \in descendants(ms)[s]
  PROVE  r = s
<1>1. r \in 1 .. n_regs(ms) /\ s \in 1 .. n_regs(ms)
  BY DEF Bare
<1>2. r \in descendants(ms)[s] \/ s \in descendants(ms)[r]
  BY <1>1, Laminar
<1> QED BY <1>2, BareBelow

\* A region with something needed below it is the parent of a merging kept.
LEMMA NeededIsParent ==
  ASSUME NEW ms, IsHierarchy(ms), NEW regs, NEW r \in 1 .. n_regs(ms)
  PROVE  HasNeeded(ms, regs, r) <=> r \in ParentsKept(ms, regs)
<1>1. /\ n_leaves(ms) \in Nat \ {0} /\ Len(ms) \in Nat /\ n_regs(ms) = n_leaves(ms) + Len(ms)
  BY HierarchySizes
<1>2. ASSUME HasNeeded(ms, regs, r) PROVE r \in ParentsKept(ms, regs)
  <2>1. r \notin 1 .. n_leaves(ms)
    BY <1>2, LeafNeedsNone
  <2>2. r - n_leaves(ms) \in 1 .. Len(ms) /\ r = n_leaves(ms) + (r - n_leaves(ms))
    BY <1>1, <2>1
  <2>3. r - n_leaves(ms) \in KeptOf(ms, regs, Len(ms))
    BY <1>2, <2>2 DEF KeptOf
  <2> QED BY <2>2, <2>3 DEF ParentsKept
<1>3. ASSUME r \in ParentsKept(ms, regs) PROVE HasNeeded(ms, regs, r)
  BY <1>3 DEF ParentsKept, KeptOf
<1> QED BY <1>2, <1>3

\* The sons of mergings that are kept are regions of the pruned tree.
LEMMA SonsKept ==
  ASSUME NEW ms, IsTree(ms), NEW regs, NEW i \in KeptOf(ms, regs, Len(ms)), NEW s \in ms[i].sons
  PROVE  s \in RegionsKept(ms, regs)
<1>1. /\ IsHierarchy(ms) /\ n_regs(ms) \in Nat /\ i \in 1 .. Len(ms) /\ HasNeeded(ms, regs, n_leaves(ms) + i)
  BY TreeSizes DEF KeptOf
<1>2. s \in 1 .. n_regs(ms) - 1 /\ MergedIn(ms)[s] = i
  BY <1>1, TreeSizes
<1>3. Parent(ms, s) = n_leaves(ms) + i /\ s \in 1 .. n_regs(ms)
  BY <1>1, <1>2, MergedOnce
<1>4. HasNeeded(ms, regs, s) \/ s \in Bare(ms, regs)
  BY <1>1, <1>3 DEF Bare
<1> QED BY <1>1, <1>3, <1>4, NeededIsParent DEF RegionsKept

\* So are the regions that are needed.
LEMMA NeededAreKept ==
  ASSUME NEW ms, IsTree(ms), NEW regs \in SUBSET (1 .. n_regs(ms))
  PROVE  regs \subseteq RegionsKept(ms, regs)
<1> SUFFICES ASSUME NEW q \in regs PROVE q \in RegionsKept(ms, regs)
  OBVIOUS
<1>1. IsHierarchy(ms) /\ n_regs(ms) \in Nat \ {0} /\ q \in 1 .. n_regs(ms)
  BY TreeSizes
<1>2. ASSUME q # n_regs(ms) PROVE HasNeeded(ms, regs, Parent(ms, q))
  <2>1. q \in 1 .. n_regs(ms) - 1
    BY <1>1, <1>2
  <2>2. q \in descendants(ms)[Parent(ms, q)] /\ q # Parent(ms, q)
    BY <1>1, <2>1, BelowParent, MergedOnce
  <2> QED BY <2>2 DEF HasNeeded
<1>3. HasNeeded(ms, regs, q) \/ q \in Bare(ms, regs)
  BY <1>1, <1>2 DEF Bare
<1> QED BY <1>1, <1>3, NeededIsParent DEF RegionsKept

\* No merging is kept exactly if nothing but the root is needed.
LEMMA NothingKept ==
  ASSUME NEW ms, IsTree(ms), NEW regs \in SUBSET (1 .. n_regs(ms))
  PROVE  KeptOf(ms, regs, Len(ms)) = {} <=> regs \subseteq {n_regs(ms)}
<1> DEFINE M == n_regs(ms)
<1>1. IsHierarchy(ms) /\ M \in Nat \ {0} /\ Len(ms) \in Nat \ {0} /\ M = n_leaves(ms) + Len(ms)
      /\ n_leaves(ms) \in Nat
  BY TreeSizes
<1>2. ASSUME NEW q \in regs, q # M PROVE Len(ms) \in KeptOf(ms, regs, Len(ms))
  <2>1. q \in descendants(ms)[M]
    BY RootAbove
  <2>2. HasNeeded(ms, regs, n_leaves(ms) + Len(ms))
    BY <1>1, <1>2, <2>1 DEF HasNeeded
  <2> QED BY <1>1, <2>2 DEF KeptOf
<1>3. ASSUME NEW i \in KeptOf(ms, regs, Len(ms)) PROVE \E q \in regs : q # M
  <2>1. i \in 1 .. Len(ms) /\ HasNeeded(ms, regs, n_leaves(ms) + i)
    BY DEF KeptOf
  <2>2. PICK q \in regs : q \in descendants(ms)[n_leaves(ms) + i] /\ q # n_leaves(ms) + i
    BY <2>1 DEF HasNeeded
  <2>3. n_leaves(ms) + i \in 1 .. M
    BY <1>1, <2>1
  <2>4. q \in 1 .. n_leaves(ms) + i
    BY <1>1, <2>2, <2>3, DescendantsBelow
  <2>5. q # M
    BY <1>1, <2>1, <2>2, <2>4
  <2> QED BY <2>5
<1> QED BY <1>2, <1>3

\* What the program keeps as leaves are those that are not leaves already.
LEMMA LeavesKeptAre ==
  ASSUME NEW ms, IsTree(ms), NEW regs
  PROVE  LeavesOfPruned(ms, regs, Len(ms)) = {r \in Bare(ms, regs) : r > n_leaves(ms)}
<1> DEFINE n == n_leaves(ms)
           N == Len(ms)
           M == n_regs(ms)
           K == KeptOf(ms, regs, N)
<1>1. IsHierarchy(ms) /\ N \in Nat \ {0} /\ n \in Nat \ {0} /\ M = n + N
  BY TreeSizes
<1>2. ASSUME NEW i \in 1 .. N
      PROVE  (\A j \in 1 .. N : n + i \in ms[j].sons => j \in K) <=>
               (n + i # M => HasNeeded(ms, regs, Parent(ms, n + i)))
  <2>1. CASE n + i = M
    <3>1. \A j \in 1 .. N : n + i \notin ms[j].sons
      <4> SUFFICES ASSUME NEW j \in 1 .. N, n + i \in ms[j].sons PROVE FALSE
        OBVIOUS
      <4>1. M \in 1 .. M - 1
        BY <2>1, TreeSizes
      <4> QED BY <1>1, <4>1
    <3> QED BY <2>1, <3>1
  <2>2. CASE n + i # M
    <3>1. n + i \in 1 .. M - 1
      BY <1>1, <2>2
    <3>2. /\ MergedIn(ms)[n + i] \in 1 .. N /\ n + i \in ms[MergedIn(ms)[n + i]].sons
          /\ \A j \in 1 .. N : n + i \in ms[j].sons => j = MergedIn(ms)[n + i]
          /\ Parent(ms, n + i) = n + MergedIn(ms)[n + i]
      BY <3>1, MergedOnce
    <3>3. MergedIn(ms)[n + i] \in K <=> HasNeeded(ms, regs, Parent(ms, n + i))
      BY <3>2 DEF KeptOf
    <3> QED BY <2>2, <3>2, <3>3
  <2> QED BY <2>1, <2>2
<1>3. \A i \in 1 .. N : i \in K <=> HasNeeded(ms, regs, n + i)
  BY DEF KeptOf
<1>4. LeavesOfPruned(ms, regs, N) =
        {n + i : i \in {i \in 1 .. N : ~ HasNeeded(ms, regs, n + i)
                          /\ (n + i # M => HasNeeded(ms, regs, Parent(ms, n + i)))}}
  <2> HIDE DEF n, N, M, K
  <2>1. LeavesOfPruned(ms, regs, N) =
          {n + i : i \in {i \in 1 .. N \ K : \A j \in 1 .. N : n + i \in ms[j].sons => j \in K}}
    BY DEF LeavesOfPruned, n, K
  <2>2. \A i : i \in {i2 \in 1 .. N \ K : \A j \in 1 .. N : n + i2 \in ms[j].sons => j \in K} <=>
               i \in {i2 \in 1 .. N : ~ HasNeeded(ms, regs, n + i2)
                          /\ (n + i2 # M => HasNeeded(ms, regs, Parent(ms, n + i2)))}
    BY <1>2, <1>3
  <2> QED BY <2>1, <2>2
<1>5. ASSUME NEW r PROVE r \in {x \in Bare(ms, regs) : x > n} <=>
                           \E i \in 1 .. N : r = n + i /\ r \in Bare(ms, regs)
  <2>1. ASSUME r \in Bare(ms, regs), r > n PROVE r - n \in 1 .. N /\ r = n + (r - n)
    <3>1. r \in 1 .. M
      BY <2>1 DEF Bare
    <3> QED BY <1>1, <2>1, <3>1
  <2>2. \A i \in 1 .. N : n + i > n
    BY <1>1
  <2> QED BY <2>1, <2>2
<1>6. \A i \in 1 .. N : n + i \in 1 .. M
  BY <1>1
<1>7. \A i \in 1 .. N : n + i \in Bare(ms, regs) <=>
        /\ ~ HasNeeded(ms, regs, n + i) /\ (n + i # M => HasNeeded(ms, regs, Parent(ms, n + i)))
  BY <1>6 DEF Bare
<1> HIDE DEF n, N, M
<1>8. \A r : r \in LeavesOfPruned(ms, regs, N) <=> r \in {x \in Bare(ms, regs) : x > n}
  BY <1>4, <1>5, <1>7
<1> QED BY <1>8 DEF n, N

\* Quotient and remainder, also without knowing that the divisor is a constant.
LEMMA DivideBy ==
  ASSUME NEW n \in Nat, NEW d \in Nat \ {0}
  PROVE  n \div d \in Nat /\ n % d \in 0 .. d - 1 /\ d * (n \div d) + (n % d) = n
<1>1. n \div d \in Nat
  OBVIOUS
<1>2. n % d \in 0 .. d - 1
  OBVIOUS
<1>3. d * (n \div d) + (n % d) = n
  OBVIOUS
<1> QED BY <1>1, <1>2, <1>3
LEMMA DividedBy ==
  ASSUME NEW d \in Nat \ {0}, NEW q \in Nat, NEW m \in 0 .. d - 1
  PROVE  (d * q + m) \div d = q /\ (d * q + m) % d = m
<1> DEFINE n == d * q + m
           q2 == n \div d
           m2 == n % d
<1>1. n \in Nat
  <2>1. d * q \in Nat
    OBVIOUS
  <2> QED BY <2>1
<1>2. q2 \in Nat /\ m2 \in 0 .. d - 1 /\ n = d * q2 + m2
  BY <1>1, DivideBy
<1>3. d * q + m = d * q2 + m2
  BY <1>2
<1> HIDE DEF q2, m2
<1>4. ASSUME NEW a \in Nat, NEW b \in Nat, a < b PROVE d * a + d <= d * b
  <2>1. PICK c \in Nat : b = a + 1 + c
    <3>1. b - a - 1 \in Nat /\ b = a + 1 + (b - a - 1)
      BY <1>4
    <3> QED BY <3>1
  <2>2. d * b = d * a + d + d * c /\ d * c \in Nat /\ d * a \in Nat
    BY <2>1
  <2> QED BY <2>2
<1>5. d * q \in Nat /\ d * q2 \in Nat
  BY <1>2
<1>6. ~ (q < q2)
  <2> SUFFICES ASSUME q < q2 PROVE FALSE
    OBVIOUS
  <2>1. d * q + d <= d * q2
    BY <1>2, <1>4
  <2> DEFINE a == d * q
             b == d * q2
  <2> HIDE DEF a, b, n
  <2>2. a + m = b + m2 /\ a + d <= b /\ a \in Nat /\ b \in Nat
    BY <1>3, <1>5, <2>1 DEF a, b
  <2> QED BY <1>2, <2>2
<1>7. ~ (q2 < q)
  <2> SUFFICES ASSUME q2 < q PROVE FALSE
    OBVIOUS
  <2>1. d * q2 + d <= d * q
    BY <1>2, <1>4
  <2> DEFINE a == d * q
             b == d * q2
  <2> HIDE DEF a, b, n
  <2>2. a + m = b + m2 /\ b + d <= a /\ a \in Nat /\ b \in Nat
    BY <1>3, <1>5, <2>1 DEF a, b
  <2> QED BY <1>2, <2>2
<1>8. q = q2
  BY <1>2, <1>6, <1>7
<1>9. m = m2
  <2> DEFINE a == d * q
  <2> HIDE DEF a, n
  <2>1. a + m = a + m2 /\ a \in Nat
    BY <1>3, <1>5, <1>8 DEF a
  <2> QED BY <1>2, <2>1
<1> QED BY <1>8, <1>9 DEF q2, m2

\* Scanning meets every pixel.
LEMMA ScanIs ==
  /\ Sx * Sy \in Nat /\ Len(Scan) = Sx * Sy /\ DOMAIN Scan = 1 .. Sx * Sy
  /\ \A k \in 1 .. Sx * Sy : Scan[k] \in Pixels
  /\ \A p \in Pixels : \E k \in 1 .. Sx * Sy : Scan[k] = p
<1>1. Sx \in Nat /\ Sy \in Nat /\ Sx * Sy \in Nat
  BY SizeAssumption
<1>2. Scan = [k \in 1 .. Sx * Sy |-> <<1 + ((k - 1) \div Sy), 1 + ((k - 1) % Sy)>>]
  BY DEF Scan
<1>3. DOMAIN Scan = 1 .. Sx * Sy
  BY <1>2
<1>4. ASSUME NEW a \in Nat, NEW x \in Nat, a < x PROVE Sy * a + Sy <= Sy * x
  <2>1. PICK c \in Nat : x = a + 1 + c
    <3>1. x - a - 1 \in Nat /\ x = a + 1 + (x - a - 1)
      BY <1>4
    <3> QED BY <3>1
  <2>2. Sy * x = Sy * a + Sy + Sy * c /\ Sy * c \in Nat /\ Sy * a \in Nat
    BY <1>1, <2>1
  <2> QED BY <1>1, <2>2
<1>5. ASSUME NEW k \in 1 .. Sx * Sy PROVE Scan[k] \in Pixels
  <2>1. Sy \in Nat \ {0}
    <3>1. Sy = 0 => Sx * Sy = 0
      BY <1>1
    <3> QED BY <1>1, <3>1
  <2> DEFINE q == (k - 1) \div Sy
             r == (k - 1) % Sy
  <2>2. k - 1 \in Nat /\ k - 1 < Sx * Sy
    BY <1>1
  <2>3. q \in Nat /\ r \in 0 .. Sy - 1 /\ k - 1 = Sy * q + r
    BY <2>1, <2>2, DivideBy
  <2>4. Scan[k] = <<1 + q, 1 + r>>
    BY <1>2
  <2> HIDE DEF q, r
  <2>5. q < Sx
    <3> SUFFICES ASSUME ~ (q < Sx) PROVE FALSE
      OBVIOUS
    <3>1. Sy * Sx <= Sy * q
      <4>1. CASE q = Sx
        BY <1>1, <2>3, <4>1
      <4>2. CASE q # Sx
        <5>1. Sy * Sx + Sy <= Sy * q
          BY <1>1, <1>4, <2>3, <4>2
        <5>2. Sy * Sx \in Nat /\ Sy * q \in Nat
          BY <1>1, <2>3
        <5> QED BY <1>1, <5>1, <5>2
      <4> QED BY <4>1, <4>2
    <3>2. Sx * Sy = Sy * Sx /\ Sy * q \in Nat
      BY <1>1, <2>3
    <3> DEFINE a == Sx * Sy
               b == Sy * q
    <3> HIDE DEF a, b
    <3>3. a \in Nat /\ b \in Nat /\ a <= b /\ k - 1 < a /\ k - 1 = b + r
      BY <1>1, <2>2, <2>3, <3>1, <3>2 DEF a, b
    <3> QED BY <2>1, <2>3, <3>3
  <2>6. 1 + q \in 1 .. Sx /\ 1 + r \in 1 .. Sy
    BY <1>1, <2>3, <2>5
  <2> QED BY <2>4, <2>6 DEF Pixels
<1>6. ASSUME NEW p \in Pixels PROVE \E k \in 1 .. Sx * Sy : Scan[k] = p
  <2>1. PICK x \in 1 .. Sx, y \in 1 .. Sy : p = <<x, y>>
    BY DEF Pixels
  <2>2. Sy \in Nat \ {0} /\ x - 1 \in Nat /\ y - 1 \in 0 .. Sy - 1 /\ x - 1 < Sx
    BY <1>1
  <2> DEFINE b == Sy * (x - 1)
             k == b + y
  <2>3. (b + (y - 1)) \div Sy = x - 1 /\ (b + (y - 1)) % Sy = y - 1
    BY <2>2, DividedBy
  <2>4. b \in Nat
    BY <1>1, <2>2
  <2>5. b + Sy <= Sx * Sy
    <3>1. Sy * (x - 1) + Sy <= Sy * Sx
      BY <1>1, <1>4, <2>2
    <3>2. Sy * Sx = Sx * Sy
      BY <1>1
    <3> QED BY <3>1, <3>2
  <2> HIDE DEF b
  <2>6. b + (y - 1) = k - 1
    BY <2>4
  <2>7. k \in 1 .. Sx * Sy
    <3> DEFINE m == Sx * Sy
    <3> HIDE DEF m
    <3>1. m \in Nat /\ b + Sy <= m
      BY <1>1, <2>5 DEF m
    <3>2. k \in 1 .. m
      BY <1>1, <2>4, <3>1
    <3> QED BY <3>2 DEF m
  <2>8. (k - 1) \div Sy = x - 1 /\ (k - 1) % Sy = y - 1
    BY <2>3, <2>6
  <2>9. Scan[k] = <<1 + (x - 1), 1 + (y - 1)>>
    <3> HIDE DEF k
    <3> QED BY <1>2, <2>7, <2>8
  <2>10. 1 + (x - 1) = x /\ 1 + (y - 1) = y
    BY <1>1
  <2> QED BY <2>1, <2>7, <2>9, <2>10
<1>7. Len(Scan) = Sx * Sy
  <2> DEFINE m == Sx * Sy
             e(k) == <<1 + ((k - 1) \div Sy), 1 + ((k - 1) % Sy)>>
  <2>1. m \in Nat /\ Scan = [k \in 1 .. m |-> e(k)] /\ \A k \in 1 .. m : Scan[k] \in Pixels
    BY <1>1, <1>2, <1>5
  <2> HIDE DEF m, e
  <2>2. Scan \in [1 .. m -> Pixels]
    BY <2>1
  <2>3. Scan \in Seq(Pixels)
    BY <2>1, <2>2
  <2>4. DOMAIN Scan = 1 .. m /\ DOMAIN Scan = 1 .. Len(Scan) /\ Len(Scan) \in Nat
    BY <2>1, <2>3
  <2>5. Len(Scan) = m
    BY <2>1, <2>4
  <2> QED BY <2>5 DEF m
<1> QED BY <1>1, <1>3, <1>5, <1>6, <1>7

SeenFold(base, f) ==
  FoldLeft(LAMBDA l, p : IF Contains(l, f[p]) THEN l ELSE Append(l, f[p]), base, Scan)

LEMMA FirstSeenFold ==
  ASSUME NEW f, NEW A, NEW base \in A, NEW n \in Nat, DOMAIN Scan = 1 .. n,
         \A a \in A : \A k \in 1 .. n :
           AppendStep(a, f[Scan[k]]) \in A
  PROVE  \E g \in [0 .. n -> A] :
           /\ g[0] = base /\ SeenFold(base, f) = g[n]
           /\ \A k \in 1 .. n :
                g[k] = AppendStep(g[k - 1], f[Scan[k]])
<1> DEFINE E(a, k) == AppendStep(a, f[Scan[k]])
           step == [ak \in A \X (1 .. n) |-> E(ak[1], ak[2])]
           F(h) == [s \in SUBSET DOMAIN Scan |-> IF s = {} THEN base ELSE E(h[s \ {Max(s)}], Max(s))]
           fold == CHOOSE h : h = F(h)
<1>1. SeenFold(base, f) = fold[1 .. n]
  BY DEF SeenFold, AppendStep, FoldLeft, MapThenFoldSet
<1>2. \A a \in A : \A k \in 1 .. n : E(a, k) \in A
  OBVIOUS
<1>3. \A g : (\A k \in 1 .. n : g[k] = E(g[k - 1], k)) =>
               \A k \in 1 .. n : g[k] = AppendStep(g[k - 1], f[Scan[k]])
  OBVIOUS
<1> HIDE DEF E
<1>4. step \in [A \X (1 .. n) -> A] /\ \A a \in A : \A k \in 1 .. n : step[<<a, k>>] = E(a, k)
  BY <1>2
<1> HIDE DEF step
<1>5. PICK h : FoldsSubsets(h, A, base, step, n)
  BY <1>4, FoldSubsetsExist
<1>6. h = F(h)
  <2>1. h \in [SUBSET (1 .. n) -> A]
    BY <1>5 DEF FoldsSubsets
  <2>2. ASSUME NEW s \in SUBSET (1 .. n), s # {}
        PROVE  h[s] = E(h[s \ {Max(s)}], Max(s))
    <3>1. Max(s) \in 1 .. n
      BY <2>2, MaxInInterval
    <3>2. h[s \ {Max(s)}] \in A
      BY <2>1
    <3>3. h[s] = step[<<h[s \ {Max(s)}], Max(s)>>]
      BY <1>5, <2>2 DEF FoldsSubsets
    <3> QED BY <1>4, <3>1, <3>2, <3>3
  <2>3. \A s \in SUBSET (1 .. n) : s = {} => h[s] = base
    BY <1>5 DEF FoldsSubsets
  <2> QED BY <2>1, <2>2, <2>3
<1>7. fold = F(fold)
  <2> HIDE DEF F
  <2> QED BY <1>6
<1> HIDE DEF fold
<1>8. \A s \in SUBSET (1 .. n) : fold[s] = IF s = {} THEN base ELSE E(fold[s \ {Max(s)}], Max(s))
  BY <1>7
<1> HIDE DEF F
<1>9. ASSUME NEW s \in SUBSET (1 .. n), s # {}, fold[s \ {Max(s)}] \in A
      PROVE  fold[s] = step[<<fold[s \ {Max(s)}], Max(s)>>]
  <2>1. Max(s) \in 1 .. n
    BY <1>9, MaxInInterval
  <2> QED BY <1>4, <1>8, <1>9, <2>1
<1>10. FoldsFrom(fold, A, base, step, n)
  BY <1>4, <1>8, <1>9 DEF FoldsFrom
<1>11. PICK g : Accumulates(g, A, base, step, n) /\ fold[1 .. n] = g[n]
  BY <1>10, FoldRuns
<1>12. g \in [0 .. n -> A] /\ g[0] = base
  BY <1>11 DEF Accumulates
<1>13. ASSUME NEW k \in 1 .. n PROVE g[k] = E(g[k - 1], k)
  <2>1. g[k - 1] \in A
    BY <1>12
  <2> QED BY <1>4, <1>11, <2>1 DEF Accumulates
<1>14. \A k \in 1 .. n : g[k] = AppendStep(g[k - 1], f[Scan[k]])
  BY <1>3, <1>13
<1> QED BY <1>1, <1>11, <1>12, <1>14


\* The values of a function are listed once each, in the order of the scan.
LEMMA FirstSeenLists ==
  ASSUME NEW B, NEW f \in [Pixels -> B]
  PROVE  Lists(FirstSeen(f), Range(f)) /\ FirstSeen(f) \in Seq(B)
<1> DEFINE A == {l \in Seq(B) : IsInjective(l)}
           n == Sx * Sy
           base == <<>>
           val(k) == f[Scan[k]]
           prefix(k) == {val(q) : q \in 1 .. k}
<1>1. n \in Nat /\ DOMAIN Scan = 1 .. n /\ \A k \in 1 .. n : val(k) \in B
  BY ScanIs
<1>2. base \in A
  <2>1. <<>> \in Seq(B) /\ IsInjective(<<>>)
    BY DEF IsInjective
  <2> QED BY <2>1
<1>3. \A a \in A : \A k \in 1 .. n : AppendStep(a, val(k)) \in A /\ ExtendsBy(AppendStep(a, val(k)), a, {val(k)})
  <2> TAKE a \in A
  <2> TAKE k \in 1 .. n
  <2> HIDE DEF val
  <2>1. AppendStep(a, val(k)) \in Seq(B) /\ ExtendsBy(AppendStep(a, val(k)), a, {val(k)})
    BY <1>1, AppendOne
  <2> QED BY <2>1 DEF ExtendsBy
<1>4. \A a \in A : a \in Seq(B) /\ IsInjective(a)
  OBVIOUS
<1>5. FirstSeen(f) = SeenFold(base, f)
  BY DEF FirstSeen, SeenFold
<1>6. Range(base) = {} /\ Len(base) = 0 /\ base \in Seq(B)
  BY DEF Range
<1> HIDE DEF A, base
<1>7. PICK g \in [0 .. n -> A] :
        /\ g[0] = base /\ FirstSeen(f) = g[n]
        /\ \A k \in 1 .. n : g[k] = AppendStep(g[k - 1], val(k))
  <2>1. \A a \in A : \A k \in 1 .. n : AppendStep(a, f[Scan[k]]) \in A
    BY <1>3
  <2>2. n \in Nat /\ DOMAIN Scan = 1 .. n
    BY <1>1
  <2> DEFINE out == SeenFold(base, f)
  <2>3. out = SeenFold(base, f)
    OBVIOUS
  <2> HIDE DEF n, out
  <2>4. \E g \in [0 .. n -> A] :
          /\ g[0] = base /\ out = g[n]
          /\ \A k \in 1 .. n : g[k] = AppendStep(g[k - 1], f[Scan[k]])
    BY <1>2, <2>1, <2>2, <2>3, FirstSeenFold
  <2> QED BY <1>5, <2>3, <2>4
<1> DEFINE Good(k) == ExtendsBy(g[k], base, prefix(k))
           T == {k \in 0 .. n : Good(k)}
<1>8. base \in A
  BY <1>2
<1> HIDE DEF val
<1>9. Good(0)
  <2>1. prefix(0) = {}
    BY <1>1
  <2> HIDE DEF prefix
  <2> QED BY <1>4, <1>7, <1>8, <2>1 DEF ExtendsBy
<1>10. ASSUME NEW k \in 1 .. n, Good(k - 1) PROVE Good(k)
  <2>1. k - 1 \in 0 .. n /\ k \in 0 .. n
    BY <1>1
  <2>2. g[k - 1] \in A /\ g[k] \in A
    BY <1>7, <2>1
  <2>3. g[k] = AppendStep(g[k - 1], val(k))
    BY <1>7
  <2>4. ExtendsBy(g[k], g[k - 1], {val(k)})
    BY <1>3, <2>2, <2>3
  <2>5. prefix(k) = prefix(k - 1) \cup {val(k)}
    <3>1. \A p \in 1 .. k : p \in 1 .. k - 1 \/ p = k
      OBVIOUS
    <3>2. 1 .. k - 1 \subseteq 1 .. k /\ k \in 1 .. k
      OBVIOUS
    <3> QED BY <3>1, <3>2
  <2> HIDE DEF prefix
  <2>6. ExtendsBy(g[k], base, prefix(k - 1) \cup {val(k)})
    BY <1>4, <1>8, <1>10, <2>2, <2>4, ExtendsTransitive
  <2> QED BY <2>5, <2>6
<1>11. Good(n)
  <2>1. 0 \in T
    BY <1>1, <1>9
  <2>2. \A k \in 1 .. n : k - 1 \in T => k \in T
    <3> TAKE k \in 1 .. n
    <3> HAVE k - 1 \in T
    <3>1. Good(k)
      BY <1>10
    <3>2. k \in 0 .. n
      BY <1>1
    <3> HIDE DEF Good
    <3> QED BY <3>1, <3>2
  <2> HIDE DEF T
  <2>3. n \in T
    <3>1. \A k \in 0 .. n : k \in T
      BY <1>1, <2>1, <2>2, Climb
    <3> QED BY <1>1, <3>1
  <2> QED BY <2>3 DEF T
<1>12. prefix(n) = Range(f)
  <2>1. \A k \in 1 .. n : Scan[k] \in DOMAIN f
    BY ScanIs
  <2>2. \A p \in DOMAIN f : \E k \in 1 .. n : Scan[k] = p
    BY ScanIs
  <2> QED BY <2>1, <2>2 DEF Range, val
<1>13. g[n] \in Seq(B) /\ IsInjective(g[n]) /\ Range(g[n]) = Range(f)
  <2>1. g[n] \in A
    BY <1>1, <1>7
  <2> HIDE DEF prefix
  <2> QED BY <1>4, <1>6, <1>11, <1>12, <2>1 DEF ExtendsBy
<1> DEFINE s == FirstSeen(f)
<1>14. s \in Seq(B) /\ IsInjective(s) /\ Range(s) = Range(f)
  BY <1>7, <1>13
<1> HIDE DEF s
<1>15. /\ Len(s) \in Nat /\ DOMAIN s = 1 .. Len(s) /\ \A p \in 1 .. Len(s) : s[p] \in Range(s)
       /\ \A c \in Range(s) : \E p \in 1 .. Len(s) : s[p] = c
  BY <1>14, RangeOfList
<1>16. s \in Seq(Range(f))
  BY <1>14, <1>15, ListIn
<1>17. \A i, j \in 1 .. Len(s) : s[i] = s[j] => i = j
  BY <1>14, <1>15 DEF IsInjective
<1>18. Lists(s, Range(f))
  BY <1>14, <1>15, <1>16, <1>17 DEF Lists
<1> QED BY <1>14, <1>18 DEF s

\* The place of a value in a list that has it once.
LEMMA PositionIs ==
  ASSUME NEW s, NEW S, Lists(s, S)
  PROVE  /\ Len(s) \in Nat /\ DOMAIN s = 1 .. Len(s) /\ Range(s) = S
         /\ \A v \in S : Position(s, v) \in 1 .. Len(s) /\ s[Position(s, v)] = v
         /\ \A k \in 1 .. Len(s) : s[k] \in S /\ Position(s, s[k]) = k
<1>1. /\ s \in Seq(S) /\ \A i, j \in 1 .. Len(s) : s[i] = s[j] => i = j
      /\ \A x \in S : \E i \in 1 .. Len(s) : s[i] = x
  BY DEF Lists
<1>2. Len(s) \in Nat /\ DOMAIN s = 1 .. Len(s) /\ \A k \in 1 .. Len(s) : s[k] \in S
  BY <1>1
<1>3. \A v \in S : Position(s, v) \in 1 .. Len(s) /\ s[Position(s, v)] = v
  BY <1>1, <1>2 DEF Position
<1>4. \A k \in 1 .. Len(s) : Position(s, s[k]) = k
  BY <1>1, <1>2, <1>3
<1>5. Range(s) = S
  BY <1>1, <1>2 DEF Range
<1> QED BY <1>2, <1>3, <1>4, <1>5


-----------------------------------------------------------------------------
(* Proposals: what a pruned hierarchy is made of.                          *)

-----------------------------------------------------------------------------
(* The leaves a region is made of.                                         *)

LeafStep(l, m) == [l EXCEPT ![m.parent] = UNION {l[s] : s \in m.sons}]
LeafFold(base, ms) == FoldLeft(LAMBDA l, m : [l EXCEPT ![m.parent] = UNION {l[s] : s \in m.sons}], base, ms)

LEMMA LeavesFold ==
  ASSUME NEW ms, NEW A, NEW base \in A, NEW n \in Nat, DOMAIN ms = 1 .. n,
         \A a \in A : \A k \in 1 .. n :
           LeafStep(a, ms[k]) \in A
  PROVE  \E g \in [0 .. n -> A] :
           /\ g[0] = base /\ LeafFold(base, ms) = g[n]
           /\ \A k \in 1 .. n :
                g[k] = LeafStep(g[k - 1], ms[k])
<1> DEFINE E(a, k) == LeafStep(a, ms[k])
           step == [ak \in A \X (1 .. n) |-> E(ak[1], ak[2])]
           F(h) == [s \in SUBSET DOMAIN ms |-> IF s = {} THEN base ELSE E(h[s \ {Max(s)}], Max(s))]
           fold == CHOOSE h : h = F(h)
<1>1. LeafFold(base, ms) = fold[1 .. n]
  BY DEF LeafFold, LeafStep, FoldLeft, MapThenFoldSet
<1>2. \A a \in A : \A k \in 1 .. n : E(a, k) \in A
  OBVIOUS
<1>3. \A g : (\A k \in 1 .. n : g[k] = E(g[k - 1], k)) =>
               \A k \in 1 .. n : g[k] = LeafStep(g[k - 1], ms[k])
  OBVIOUS
<1> HIDE DEF E
<1>4. step \in [A \X (1 .. n) -> A] /\ \A a \in A : \A k \in 1 .. n : step[<<a, k>>] = E(a, k)
  BY <1>2
<1> HIDE DEF step
<1>5. PICK h : FoldsSubsets(h, A, base, step, n)
  BY <1>4, FoldSubsetsExist
<1>6. h = F(h)
  <2>1. h \in [SUBSET (1 .. n) -> A]
    BY <1>5 DEF FoldsSubsets
  <2>2. ASSUME NEW s \in SUBSET (1 .. n), s # {}
        PROVE  h[s] = E(h[s \ {Max(s)}], Max(s))
    <3>1. Max(s) \in 1 .. n
      BY <2>2, MaxInInterval
    <3>2. h[s \ {Max(s)}] \in A
      BY <2>1
    <3>3. h[s] = step[<<h[s \ {Max(s)}], Max(s)>>]
      BY <1>5, <2>2 DEF FoldsSubsets
    <3> QED BY <1>4, <3>1, <3>2, <3>3
  <2>3. \A s \in SUBSET (1 .. n) : s = {} => h[s] = base
    BY <1>5 DEF FoldsSubsets
  <2> QED BY <2>1, <2>2, <2>3
<1>7. fold = F(fold)
  <2> HIDE DEF F
  <2> QED BY <1>6
<1> HIDE DEF fold
<1>8. \A s \in SUBSET (1 .. n) : fold[s] = IF s = {} THEN base ELSE E(fold[s \ {Max(s)}], Max(s))
  BY <1>7
<1> HIDE DEF F
<1>9. ASSUME NEW s \in SUBSET (1 .. n), s # {}, fold[s \ {Max(s)}] \in A
      PROVE  fold[s] = step[<<fold[s \ {Max(s)}], Max(s)>>]
  <2>1. Max(s) \in 1 .. n
    BY <1>9, MaxInInterval
  <2> QED BY <1>4, <1>8, <1>9, <2>1
<1>10. FoldsFrom(fold, A, base, step, n)
  BY <1>4, <1>8, <1>9 DEF FoldsFrom
<1>11. PICK g : Accumulates(g, A, base, step, n) /\ fold[1 .. n] = g[n]
  BY <1>10, FoldRuns
<1>12. g \in [0 .. n -> A] /\ g[0] = base
  BY <1>11 DEF Accumulates
<1>13. ASSUME NEW k \in 1 .. n PROVE g[k] = E(g[k - 1], k)
  <2>1. g[k - 1] \in A
    BY <1>12
  <2> QED BY <1>4, <1>11, <2>1 DEF Accumulates
<1>14. \A k \in 1 .. n : g[k] = LeafStep(g[k - 1], ms[k])
  BY <1>3, <1>13
<1> QED BY <1>1, <1>11, <1>12, <1>14

LEMMA LeavesAre ==
  ASSUME NEW ms, IsHierarchy(ms)
  PROVE  /\ leaves(ms) \in [1 .. n_regs(ms) -> SUBSET (1 .. n_regs(ms))]
         /\ \A r \in 1 .. n_leaves(ms) : leaves(ms)[r] = {r}
         /\ \A i \in 1 .. Len(ms) : leaves(ms)[ms[i].parent] =
              UNION {leaves(ms)[s] : s \in ms[i].sons}
<1> DEFINE N == Len(ms)
           n == n_leaves(ms)
           R == 1 .. n_regs(ms)
           A == [R -> SUBSET R]
           base == [r \in R |-> IF r <= n THEN {r} ELSE {}]
           L == leaves(ms)
<1>1. /\ N \in Nat \ {0} /\ n \in Nat \ {0} /\ n_regs(ms) = n + N /\ DOMAIN ms = 1 .. N
      /\ \A i \in 1 .. N : /\ ms[i].parent = n + i /\ ms[i].parent \in R /\ ms[i].sons \subseteq R
                           /\ \A s \in ms[i].sons : s \in Nat /\ s < ms[i].parent
  BY HierarchySizes
<1>2. base \in A
  OBVIOUS
<1>3. L = LeafFold(base, ms)
  BY DEF leaves, LeafFold
<1> HIDE DEF N, n, L
<1>4. \A a \in A : \A k \in 1 .. N : LeafStep(a, ms[k]) \in A
  <2> TAKE a \in A
  <2> TAKE k \in 1 .. N
  <2>1. \A s \in ms[k].sons : a[s] \in SUBSET R
    BY <1>1
  <2>2. UNION {a[s] : s \in ms[k].sons} \in SUBSET R
    BY <1>1, <2>1
  <2> HIDE DEF R
  <2> QED BY <2>2 DEF LeafStep
<1> HIDE DEF R, A, base
<1>5. PICK g \in [0 .. N -> A] :
        /\ g[0] = base /\ L = g[N]
        /\ \A k \in 1 .. N : g[k] = LeafStep(g[k - 1], ms[k])
  <2>1. N \in Nat /\ DOMAIN ms = 1 .. N
    BY <1>1
  <2> QED BY <1>2, <1>3, <1>4, <2>1, LeavesFold
<1> DEFINE v == [k \in 1 .. N |-> UNION {g[k - 1][s] : s \in ms[k].sons}]
<1>6. \A k \in 1 .. N : g[k] = Put(g[k - 1], ms[k].parent, v[k])
  BY <1>5 DEF LeafStep, Put
<1>7. \A k \in 1 .. N : v[k] = UNION {g[k - 1][s] : s \in ms[k].sons}
  OBVIOUS
<1> HIDE DEF v
<1>8. /\ \A k \in 0 .. N : \A r \in 1 .. n + k : g[N][r] = g[k][r]
      /\ \A k \in 1 .. N : g[N][ms[k].parent] = v[k]
  <2> DEFINE V == SUBSET R
  <2>1. g \in [0 .. Len(ms) -> [1 .. n_regs(ms) -> V]]
    BY DEF N, A, R
  <2>2. \A k \in 1 .. Len(ms) : g[k] = Put(g[k - 1], ms[k].parent, v[k])
    BY <1>6 DEF N
  <2> HIDE DEF V
  <2>3. /\ \A k \in 0 .. Len(ms) : \A r \in 1 .. n_leaves(ms) + k : g[Len(ms)][r] = g[k][r]
        /\ \A k \in 1 .. Len(ms) : g[Len(ms)][ms[k].parent] = v[k]
    <3>1. FillsUpwards(g, V, v, ms)
      BY <2>1, <2>2 DEF FillsUpwards
    <3>2. KeepsFilled(g, v, ms)
      BY <3>1, FilledUpwards
    <3> QED BY <3>2 DEF KeepsFilled
  <2> QED BY <2>3 DEF N, n
<1>9. L \in A
  BY <1>1, <1>5
<1>10. ASSUME NEW r \in 1 .. n PROVE L[r] = {r}
  <2>1. 0 \in 0 .. N /\ r \in 1 .. n + 0 /\ r \in R
    BY <1>1 DEF R
  <2>2. g[N][r] = g[0][r]
    BY <1>8, <2>1
  <2> QED BY <1>5, <2>1, <2>2 DEF base
<1>11. ASSUME NEW i \in 1 .. N
       PROVE  L[ms[i].parent] = UNION {L[s] : s \in ms[i].sons}
  <2>1. \A s \in ms[i].sons : g[i - 1][s] = L[s]
    <3> TAKE s \in ms[i].sons
    <3>1. i - 1 \in 0 .. N /\ s \in 1 .. n + (i - 1)
      BY <1>1 DEF R
    <3> QED BY <1>5, <1>8, <3>1
  <2>2. {g[i - 1][s] : s \in ms[i].sons} = {L[s] : s \in ms[i].sons}
    BY <2>1
  <2> QED BY <1>5, <1>7, <1>8, <2>2
<1> QED BY <1>9, <1>10, <1>11 DEF N, n, A, R, L

\* They are the leaves among its descendants.
LEMMA LeavesBelow ==
  ASSUME NEW ms, IsHierarchy(ms), NEW r \in 1 .. n_regs(ms)
  PROVE  /\ leaves(ms)[r] = descendants(ms)[r] \cap (1 .. n_leaves(ms))
         /\ leaves(ms)[r] # {} /\ leaves(ms)[r] \subseteq 1 .. n_leaves(ms)
<1> DEFINE N == Len(ms)
           n == n_leaves(ms)
           D == descendants(ms)
           L == leaves(ms)
           T == {x \in 1 .. n + N : L[x] = D[x] \cap (1 .. n) /\ L[x] # {}}
<1>1. /\ N \in Nat /\ n \in Nat /\ n_regs(ms) = n + N
      /\ \A i \in 1 .. N : ms[i].parent = n + i /\ \A s \in ms[i].sons : s \in Nat /\ s < n + i
      /\ \A i \in 1 .. N : ms[i].sons \subseteq 1 .. n + N /\ ms[i].sons # {}
  BY HierarchySizes
<1>2. /\ \A x \in 1 .. n : D[x] = {x} /\ L[x] = {x}
      /\ \A i \in 1 .. N : /\ D[ms[i].parent] = {ms[i].parent} \cup UNION {D[s] : s \in ms[i].sons}
                           /\ L[ms[i].parent] = UNION {L[s] : s \in ms[i].sons}
  BY DescendantsAre, LeavesAre
<1> HIDE DEF N, n, D, L
<1>3. ASSUME NEW k \in 1 .. n + N, \A j \in 1 .. k - 1 : j \in T
      PROVE  k \in T
  <2>1. CASE k \in 1 .. n
    BY <1>2, <2>1
  <2>2. CASE k \notin 1 .. n
    <3> DEFINE i == k - n
    <3>1. i \in 1 .. N /\ ms[i].parent = k
      BY <1>1, <2>2
    <3>2. D[k] = {k} \cup UNION {D[s] : s \in ms[i].sons} /\ L[k] = UNION {L[s] : s \in ms[i].sons}
      BY <1>2, <3>1
    <3>3. \A s \in ms[i].sons : L[s] = D[s] \cap (1 .. n) /\ L[s] # {}
      <4> TAKE s \in ms[i].sons
      <4>1. s \in 1 .. k - 1
        BY <1>1, <3>1
      <4> QED BY <1>3, <4>1
    <3>4. ms[i].sons # {}
      BY <1>1, <3>1
    <3> HIDE DEF i
    <3>5. L[k] = D[k] \cap (1 .. n)
      BY <2>2, <3>2, <3>3
    <3>6. L[k] # {}
      BY <3>2, <3>3, <3>4
    <3> QED BY <3>5, <3>6
  <2> QED BY <2>1, <2>2
<1>4. \A k \in 1 .. n + N : k \in T
  <2> HIDE DEF T
  <2>1. n + N \in Nat
    BY <1>1
  <2> QED BY <1>3, <2>1, ClimbAll
<1>5. r \in T
  BY <1>1, <1>4
<1> QED BY <1>5 DEF D, L, n

\* The pixels of regions without a region in common are different ones; those of
\* a region are those of its leaves.
LEMMA PixelsBelow ==
  ASSUME NEW ms, IsHierarchy(ms), NEW lp \in [Pixels -> 1 .. n_leaves(ms)], NEW r \in 1 .. n_regs(ms)
  PROVE  PixelsOf(lp, ms, r) = {p \in Pixels : lp[p] \in descendants(ms)[r]}
<1>1. \A p \in Pixels : lp[p] \in 1 .. n_leaves(ms)
  OBVIOUS
<1>2. leaves(ms)[r] = descendants(ms)[r] \cap (1 .. n_leaves(ms))
  BY LeavesBelow
<1> QED BY <1>1, <1>2 DEF PixelsOf

-----------------------------------------------------------------------------
(* The partition of a pruned tree.                                         *)

LEMMA MergedPartIs ==
  ASSUME NEW ms, IsTree(ms), NEW lp \in [Pixels -> 1 .. n_leaves(ms)], Range(lp) = 1 .. n_leaves(ms),
         NEW regs, NEW f, f = MergedPart(lp, ms, LeavesOfPruned(ms, regs, Len(ms)))
  PROVE  /\ f \in [Pixels -> Bare(ms, regs)] /\ Range(f) = Bare(ms, regs)
         /\ \A p \in Pixels : lp[p] \in descendants(ms)[f[p]]
<1> DEFINE n == n_leaves(ms)
           D == descendants(ms)
           LB == {r \in Bare(ms, regs) : r > n}
           over(l) == {r \in LB : l \in D[r]}
<1>1. /\ IsHierarchy(ms) /\ n \in Nat \ {0} /\ n_regs(ms) \in Nat /\ n <= n_regs(ms)
      /\ Bare(ms, regs) \subseteq 1 .. n_regs(ms)
  BY TreeSizes DEF Bare
<1>2. f = [p \in Pixels |-> IF over(lp[p]) = {} THEN lp[p] ELSE CHOOSE r \in over(lp[p]) : TRUE]
  <2> DEFINE X == LeavesOfPruned(ms, regs, Len(ms))
  <2>1. X = LB
    BY LeavesKeptAre
  <2>2. f = MergedPart(lp, ms, X)
    OBVIOUS
  <2> HIDE DEF X
  <2>3. f = [p \in Pixels |-> IF {r \in X : lp[p] \in D[r]} = {} THEN lp[p]
                              ELSE CHOOSE r \in {r \in X : lp[p] \in D[r]} : TRUE]
    BY <2>2 DEF MergedPart
  <2> HIDE DEF LB, D
  <2> QED BY <2>1, <2>3
<1>3. \A r \in 1 .. n : D[r] = {r}
  BY <1>1, DescendantsAre
<1>4. ASSUME NEW p \in Pixels
      PROVE  f[p] \in Bare(ms, regs) /\ lp[p] \in D[f[p]]
  <2> DEFINE l == lp[p]
  <2>1. l \in 1 .. n /\ l \in 1 .. n_regs(ms)
    BY <1>1
  <2>2. PICK r \in Bare(ms, regs) : l \in D[r]
    BY <1>1, <2>1, LeafNeedsNone, BareAbove
  <2>3. f[p] = IF over(l) = {} THEN l ELSE CHOOSE x \in over(l) : TRUE
    BY <1>2
  <2> HIDE DEF l, n
  <2>4. CASE over(l) = {}
    <3>1. r \in 1 .. n
      BY <1>1, <2>2, <2>4
    <3>2. l = r
      BY <1>3, <2>2, <3>1
    <3>3. f[p] = r
      BY <2>3, <2>4, <3>2
    <3> QED BY <2>2, <3>3 DEF l
  <2>5. CASE over(l) # {}
    <3>1. f[p] \in over(l)
      BY <2>3, <2>5
    <3> QED BY <3>1 DEF l
  <2> QED BY <2>4, <2>5
<1>5. f \in [Pixels -> Bare(ms, regs)]
  <2> HIDE DEF over
  <2>1. DOMAIN f = Pixels /\ f = [p \in Pixels |-> f[p]]
    BY <1>2
  <2> QED BY <1>4, <2>1
<1>6. ASSUME NEW r \in Bare(ms, regs) PROVE \E p \in Pixels : f[p] = r
  <2>1. r \in 1 .. n_regs(ms)
    BY <1>1
  <2>2. PICK l \in 1 .. n : l \in D[r]
    <3>1. leaves(ms)[r] = D[r] \cap (1 .. n) /\ leaves(ms)[r] # {}
      BY <1>1, <2>1, LeavesBelow
    <3> QED BY <3>1
  <2>3. PICK p \in Pixels : lp[p] = l
    BY DEF Range
  <2>4. f[p] \in Bare(ms, regs) /\ l \in D[f[p]]
    BY <1>4, <2>3
  <2>5. f[p] = r
    BY <2>2, <2>4, BareDisjoint
  <2> QED BY <2>5
<1>7. Range(f) = Bare(ms, regs)
  BY <1>5, <1>6 DEF Range
<1> QED BY <1>4, <1>5, <1>7

LEMMA ListsJoined ==
  ASSUME NEW s, NEW S, Lists(s, S), NEW t, NEW T, Lists(t, T), S \cap T = {}
  PROVE  /\ Lists(s \o t, S \cup T) /\ Len(s \o t) = Len(s) + Len(t)
         /\ \A i \in 1 .. Len(s) : (s \o t)[i] = s[i]
         /\ \A i \in 1 .. Len(t) : (s \o t)[Len(s) + i] = t[i]
<1> DEFINE u == s \o t
<1>1. /\ s \in Seq(S) /\ \A i, j \in 1 .. Len(s) : s[i] = s[j] => i = j
      /\ \A x \in S : \E i \in 1 .. Len(s) : s[i] = x
  BY DEF Lists
<1>2. /\ t \in Seq(T) /\ \A i, j \in 1 .. Len(t) : t[i] = t[j] => i = j
      /\ \A x \in T : \E i \in 1 .. Len(t) : t[i] = x
  BY DEF Lists
<1>3. Len(s) \in Nat /\ Len(t) \in Nat /\ (\A i \in 1 .. Len(s) : s[i] \in S) /\ (\A i \in 1 .. Len(t) : t[i] \in T)
  BY <1>1, <1>2
<1>4. s \in Seq(S \cup T) /\ t \in Seq(S \cup T)
  BY <1>1, <1>2, <1>3, ListIn
<1>5. /\ u \in Seq(S \cup T) /\ Len(u) = Len(s) + Len(t)
      /\ \A i \in 1 .. Len(s) : u[i] = s[i]
      /\ \A i \in 1 .. Len(t) : u[Len(s) + i] = t[i]
  <2>1. \A i \in 1 .. Len(t) : Len(s) + i \in 1 .. Len(s) + Len(t) /\ Len(s) + i > Len(s) /\ (Len(s) + i) - Len(s) = i
    BY <1>3
  <2>2. \A i \in 1 .. Len(s) : i \in 1 .. Len(s) + Len(t)
    BY <1>3
  <2> QED BY <1>4, <2>1, <2>2
<1> HIDE DEF u
<1>6. ASSUME NEW k \in 1 .. Len(u) PROVE k \in 1 .. Len(s) \/ (k - Len(s) \in 1 .. Len(t) /\ k = Len(s) + (k - Len(s)))
  BY <1>3, <1>5
<1>7. ASSUME NEW i \in 1 .. Len(u), NEW j \in 1 .. Len(u), u[i] = u[j] PROVE i = j
  <2>1. CASE i \in 1 .. Len(s) /\ j \in 1 .. Len(s)
    BY <1>1, <1>5, <1>7, <2>1
  <2>2. CASE i \in 1 .. Len(s) /\ j \notin 1 .. Len(s)
    <3>1. u[i] \in S /\ u[j] \in T
      BY <1>3, <1>5, <1>6, <2>2
    <3> QED BY <1>7, <3>1
  <2>3. CASE i \notin 1 .. Len(s) /\ j \in 1 .. Len(s)
    <3>1. u[i] \in T /\ u[j] \in S
      BY <1>3, <1>5, <1>6, <2>3
    <3> QED BY <1>7, <3>1
  <2>4. CASE i \notin 1 .. Len(s) /\ j \notin 1 .. Len(s)
    <3>1. PICK x \in 1 .. Len(t) : i = Len(s) + x
      BY <1>6, <2>4
    <3>2. PICK y \in 1 .. Len(t) : j = Len(s) + y
      BY <1>6, <2>4
    <3>3. t[x] = t[y]
      BY <1>5, <1>7, <3>1, <3>2
    <3> QED BY <1>2, <3>1, <3>2, <3>3
  <2> QED BY <2>1, <2>2, <2>3, <2>4
<1>8. ASSUME NEW x \in S \cup T PROVE \E k \in 1 .. Len(u) : u[k] = x
  <2>1. CASE x \in S
    <3>1. PICK i \in 1 .. Len(s) : s[i] = x
      BY <1>1, <2>1
    <3>2. i \in 1 .. Len(u)
      BY <1>3, <1>5
    <3> QED BY <1>5, <3>1, <3>2
  <2>2. CASE x \in T
    <3>1. PICK i \in 1 .. Len(t) : t[i] = x
      BY <1>2, <2>2
    <3>2. Len(s) + i \in 1 .. Len(u)
      BY <1>3, <1>5
    <3> QED BY <1>5, <3>1, <3>2
  <2> QED BY <2>1, <2>2
<1>9. Lists(u, S \cup T)
  BY <1>5, <1>7, <1>8 DEF Lists
<1> QED BY <1>5, <1>9 DEF u

\* The parents of the mergings kept, in order.
LEMMA ParentsListed ==
  ASSUME NEW ms, IsHierarchy(ms), NEW regs, NEW list, ListsMergings(list, ms, KeptOf(ms, regs, Len(ms))),
         NEW ups, ups = [i \in DOMAIN list |-> list[i].parent]
  PROVE  /\ Lists(ups, ParentsKept(ms, regs)) /\ Len(ups) = Len(list) /\ Len(list) \in Nat
         /\ DOMAIN list = 1 .. Len(list)
         /\ \A x \in 1 .. Len(list) :
              /\ ups[x] = list[x].parent
              /\ \E i \in KeptOf(ms, regs, Len(ms)) : list[x] = ms[i] /\ ups[x] = n_leaves(ms) + i
         /\ \A x, y \in 1 .. Len(list) : x < y => ups[x] < ups[y]
         /\ Len(list) = 0 <=> KeptOf(ms, regs, Len(ms)) = {}
<1> DEFINE K == KeptOf(ms, regs, Len(ms))
           n == n_leaves(ms)
<1>1. /\ list \in Mergings
      /\ \A x \in 1 .. Len(list) : \E i \in K : list[x] = ms[i]
      /\ \A i \in K : \E x \in 1 .. Len(list) : list[x] = ms[i]
      /\ \A x, y \in 1 .. Len(list) : x < y => list[x].parent < list[y].parent
  BY DEF ListsMergings
<1>2. Len(list) \in Nat /\ DOMAIN list = 1 .. Len(list)
  BY <1>1 DEF Mergings
<1>3. \A i \in K : ms[i].parent = n + i /\ n + i \in Nat /\ n + i \in ParentsKept(ms, regs)
  <2>1. \A i \in K : i \in 1 .. Len(ms)
    BY DEF KeptOf
  <2> QED BY <2>1, HierarchySizes DEF ParentsKept
<1>4. \A x \in 1 .. Len(list) : ups[x] = list[x].parent
  BY <1>2
<1> HIDE DEF K, n
<1>5. \A x \in 1 .. Len(list) : \E i \in K : list[x] = ms[i] /\ ups[x] = n + i
  <2> TAKE x \in 1 .. Len(list)
  <2>1. PICK i \in K : list[x] = ms[i]
    BY <1>1
  <2>2. ups[x] = n + i
    BY <1>3, <1>4, <2>1
  <2> QED BY <2>1, <2>2
<1>6. \A x \in 1 .. Len(list) : ups[x] \in ParentsKept(ms, regs) /\ ups[x] \in Nat
  BY <1>3, <1>5
<1>7. ups \in Seq(ParentsKept(ms, regs)) /\ Len(ups) = Len(list)
  <2> DEFINE T == ParentsKept(ms, regs)
             m == Len(list)
  <2> HIDE DEF T, m
  <2>1. m \in Nat /\ DOMAIN ups = 1 .. m /\ ups = [x \in 1 .. m |-> ups[x]] /\ \A x \in 1 .. m : ups[x] \in T
    BY <1>2, <1>6 DEF T, m
  <2>2. ups \in [1 .. m -> T]
    BY <2>1
  <2>3. ups \in Seq(T)
    BY <2>1, <2>2
  <2>4. Len(ups) = m
    <3>1. DOMAIN ups = 1 .. Len(ups) /\ Len(ups) \in Nat
      BY <2>3
    <3> QED BY <2>1, <3>1
  <2> QED BY <2>3, <2>4 DEF T, m
<1>8. \A x, y \in 1 .. Len(list) : x < y => ups[x] < ups[y]
  BY <1>1, <1>4
<1>9. \A x, y \in 1 .. Len(list) : ups[x] = ups[y] => x = y
  <2> TAKE x, y \in 1 .. Len(list)
  <2> HAVE ups[x] = ups[y]
  <2>1. x < y \/ y < x \/ x = y
    BY <1>2
  <2>2. CASE x < y
    <3>1. ups[x] < ups[y] /\ ups[x] \in Nat
      BY <1>6, <1>8, <2>2
    <3> QED BY <3>1
  <2>3. CASE y < x
    <3>1. ups[y] < ups[x] /\ ups[x] \in Nat
      BY <1>6, <1>8, <2>3
    <3> QED BY <3>1
  <2> QED BY <2>1, <2>2, <2>3
<1>10. ASSUME NEW r \in ParentsKept(ms, regs) PROVE \E x \in 1 .. Len(list) : ups[x] = r
  <2>1. PICK i \in K : r = n + i
    BY DEF ParentsKept, K, n
  <2>2. PICK x \in 1 .. Len(list) : list[x] = ms[i]
    BY <1>1
  <2>3. ups[x] = r
    BY <1>3, <1>4, <2>1, <2>2
  <2> QED BY <2>3
<1>11. Lists(ups, ParentsKept(ms, regs))
  BY <1>7, <1>9, <1>10 DEF Lists
<1>12. Len(list) = 0 <=> K = {}
  <2>1. ASSUME Len(list) = 0 PROVE K = {}
    BY <1>1, <2>1
  <2>2. ASSUME Len(list) # 0 PROVE K # {}
    <3>1. 1 \in 1 .. Len(list)
      BY <1>2, <2>2
    <3> QED BY <1>1, <3>1
  <2> QED BY <2>1, <2>2
<1> QED BY <1>2, <1>4, <1>5, <1>7, <1>8, <1>11, <1>12 DEF K, n

\* What a pruned hierarchy is, with its b leaves.
PrunedTo(h, lp, ms, regs, b) ==
  /\ b \in Nat \ {0} /\ h.ok
  /\ Lists(h.lut, RegionsKept(ms, regs)) /\ Len(h.lut) = b + Len(h.ms)
  /\ h.lp \in [Pixels -> 1 .. b] /\ Range(h.lp) = 1 .. b
  /\ \A x \in 1 .. b : /\ h.lut[x] \in 1 .. n_regs(ms)
                       /\ \A p \in Pixels : h.lp[p] = x <=> lp[p] \in descendants(ms)[h.lut[x]]
  /\ h.ms \in Mergings
  /\ \A j \in 1 .. Len(h.ms) :
       /\ h.ms[j].parent = b + j /\ h.ms[j].sons # {} /\ h.ms[j].sons \subseteq 1 .. (b + j) - 1
       /\ \E i \in 1 .. Len(ms) : /\ h.lut[b + j] = n_leaves(ms) + i
                                  /\ {h.lut[s] : s \in h.ms[j].sons} = ms[i].sons
  /\ h.ms = <<>> <=> regs \subseteq {n_regs(ms)}

\* What is seen of two lists that together are the table.
LEMMA PruneIs ==
  ASSUME NEW ms, IsTree(ms), NEW lp \in [Pixels -> 1 .. n_leaves(ms)], Range(lp) = 1 .. n_leaves(ms),
         NEW regs \in SUBSET (1 .. n_regs(ms))
  PROVE  \E b : PrunedTo(Prune(lp, ms, regs), lp, ms, regs, b)
<1> DEFINE h == Prune(lp, ms, regs)
           K == KeptOf(ms, regs, Len(ms))
           D == descendants(ms)
           n == n_leaves(ms)
           B == Bare(ms, regs)
           P == ParentsKept(ms, regs)
           kept == KeepOrMerge(regs, ms)
           list == kept.mergs_to_keep
           f == MergedPart(lp, ms, kept.leaves_to_keep)
           low == FirstSeen(f)
           ups == [i \in DOMAIN list |-> list[i].parent]
           olds == low \o ups
           b == Len(low)
<1>1. /\ IsHierarchy(ms) /\ n \in Nat \ {0} /\ Len(ms) \in Nat \ {0} /\ n_regs(ms) = n + Len(ms)
      /\ \A i \in 1 .. Len(ms) : ms[i].parent = n + i /\ ms[i].sons # {} /\ ms[i].sons \subseteq 1 .. n_regs(ms)
                                 /\ \A s \in ms[i].sons : s \in Nat /\ s < ms[i].parent
  BY TreeSizes
<1>2. ListsMergings(list, ms, K) /\ kept.leaves_to_keep = LeavesOfPruned(ms, regs, Len(ms))
  <2>1. regs \in SUBSET Nat
    BY <1>1
  <2>2. KeepsUpTo(ms, regs, Len(ms), KeepOrMerge(regs, ms))
    BY <1>1, <2>1, KeepOrMergeIs
  <2> QED BY <2>2 DEF KeepsUpTo
<1>3. h = [ok |-> \A i \in DOMAIN list : list[i].sons \subseteq Range(olds),
           lp |-> [p \in Pixels |-> Position(olds, f[p])],
           ms |-> [i \in DOMAIN list |-> [sons |-> {Position(olds, s) : s \in list[i].sons \cap Range(olds)},
                                          parent |-> Position(olds, list[i].parent)]],
           lut |-> olds]
  BY DEF Prune
<1> HIDE DEF kept
<1>4. f \in [Pixels -> B] /\ Range(f) = B /\ \A p \in Pixels : lp[p] \in D[f[p]]
  <2> DEFINE g == f
  <2>1. g = MergedPart(lp, ms, LeavesOfPruned(ms, regs, Len(ms)))
    BY <1>2
  <2> HIDE DEF g
  <2>2. g \in [Pixels -> B] /\ Range(g) = B /\ \A p \in Pixels : lp[p] \in D[g[p]]
    BY <2>1, MergedPartIs
  <2> QED BY <2>2 DEF g
<1> HIDE DEF f, h
<1>5. Lists(low, B)
  BY <1>4, FirstSeenLists
<1> HIDE DEF list
<1>6. /\ Lists(ups, P) /\ Len(ups) = Len(list) /\ Len(list) \in Nat /\ DOMAIN list = 1 .. Len(list)
      /\ \A x \in 1 .. Len(list) :
           ups[x] = list[x].parent /\ \E i \in K : list[x] = ms[i] /\ ups[x] = n + i
      /\ \A x, y \in 1 .. Len(list) : x < y => ups[x] < ups[y]
      /\ Len(list) = 0 <=> K = {}
  <2> DEFINE u == ups
  <2>1. u = [i \in DOMAIN list |-> list[i].parent]
    OBVIOUS
  <2> HIDE DEF u
  <2>2. /\ Lists(u, P) /\ Len(u) = Len(list) /\ Len(list) \in Nat /\ DOMAIN list = 1 .. Len(list)
        /\ \A x \in 1 .. Len(list) :
             u[x] = list[x].parent /\ \E i \in K : list[x] = ms[i] /\ u[x] = n + i
        /\ \A x, y \in 1 .. Len(list) : x < y => u[x] < u[y]
        /\ Len(list) = 0 <=> K = {}
    BY <1>1, <1>2, <2>1, ParentsListed
  <2> QED BY <2>2 DEF u
<1> HIDE DEF low, ups
<1>7. B \cap P = {} /\ B \subseteq 1 .. n_regs(ms)
  <2>1. \A r \in B : r \in 1 .. n_regs(ms) /\ ~ HasNeeded(ms, regs, r)
    BY DEF Bare
  <2>2. \A r \in B : r \notin P
    BY <1>1, <2>1, NeededIsParent
  <2> QED BY <2>1, <2>2
<1>8. /\ Lists(olds, B \cup P) /\ Len(olds) = b + Len(list)
      /\ \A x \in 1 .. b : olds[x] = low[x]
      /\ \A j \in 1 .. Len(list) : olds[b + j] = ups[j]
  <2> HIDE DEF B, P
  <2> QED BY <1>5, <1>6, <1>7, ListsJoined
<1> HIDE DEF olds
<1>9. /\ Len(olds) \in Nat /\ DOMAIN olds = 1 .. Len(olds) /\ Range(olds) = B \cup P
      /\ \A v \in B \cup P : Position(olds, v) \in 1 .. Len(olds) /\ olds[Position(olds, v)] = v
      /\ \A k \in 1 .. Len(olds) : olds[k] \in B \cup P /\ Position(olds, olds[k]) = k
  <2> HIDE DEF B, P
  <2> QED BY <1>8, PositionIs
<1>10. b \in Nat /\ (\A x \in 1 .. b : low[x] \in B) /\ \A v \in B : \E x \in 1 .. b : low[x] = v
  <2> HIDE DEF B, P
  <2> QED BY <1>5 DEF Lists
<1>11. \A x \in 1 .. b : x \in 1 .. Len(olds)
  BY <1>6, <1>8, <1>10
<1>12. \A v \in B : Position(olds, v) \in 1 .. b
  <2> TAKE v \in B
  <2>1. PICK x \in 1 .. b : low[x] = v
    BY <1>10
  <2>2. olds[x] = v /\ x \in 1 .. Len(olds)
    BY <1>8, <1>11, <2>1
  <2> QED BY <1>9, <2>2
<1>13. \A j \in 1 .. Len(list) : b + j \in 1 .. Len(olds)
  BY <1>6, <1>8, <1>10
<1>14. /\ h.lut = olds /\ h.lp = [p \in Pixels |-> Position(olds, f[p])]
       /\ h.ok <=> \A i \in DOMAIN list : list[i].sons \subseteq Range(olds)
       /\ h.ms = [i \in DOMAIN list |-> [sons |-> {Position(olds, s) : s \in list[i].sons \cap Range(olds)},
                                          parent |-> Position(olds, list[i].parent)]]
  BY <1>3
<1>15. ASSUME NEW j \in 1 .. Len(list)
       PROVE  /\ list[j].sons \subseteq Range(olds) /\ list[j].sons # {}
              /\ \E i \in 1 .. Len(ms) : list[j].sons = ms[i].sons /\ ups[j] = n + i
              /\ \A s \in list[j].sons : s \in Nat /\ s < ups[j]
  <2>1. PICK i \in K : list[j] = ms[i] /\ ups[j] = n + i
    BY <1>6
  <2>2. i \in 1 .. Len(ms)
    BY DEF KeptOf
  <2>3. \A s \in ms[i].sons : s \in B \cup P
    BY SonsKept DEF RegionsKept
  <2> QED BY <1>1, <1>9, <2>1, <2>2, <2>3
<1>16. h.ok
  BY <1>6, <1>14, <1>15
<1>17. h.lp \in [Pixels -> 1 .. b]
  <2>1. \A p \in Pixels : Position(olds, f[p]) \in 1 .. b
    BY <1>4, <1>12
  <2> QED BY <1>14, <2>1
<1>18. ASSUME NEW x \in 1 .. b
       PROVE  /\ olds[x] \in B /\ olds[x] \in 1 .. n_regs(ms)
              /\ \A p \in Pixels : h.lp[p] = x <=> lp[p] \in D[olds[x]]
              /\ \E p \in Pixels : h.lp[p] = x
  <2>1. olds[x] \in B
    BY <1>8, <1>10
  <2>2. \A p \in Pixels : h.lp[p] = x <=> f[p] = olds[x]
    <3> TAKE p \in Pixels
    <3>1. h.lp[p] = Position(olds, f[p]) /\ f[p] \in B
      BY <1>4, <1>14
    <3> QED BY <1>9, <1>11, <3>1
  <2>3. \A p \in Pixels : f[p] = olds[x] <=> lp[p] \in D[olds[x]]
    <3> TAKE p \in Pixels
    <3>1. f[p] \in B /\ lp[p] \in D[f[p]]
      BY <1>4
    <3> QED BY <2>1, <3>1, BareDisjoint
  <2>4. \E p \in Pixels : f[p] = olds[x]
    BY <1>4, <2>1 DEF Range
  <2> QED BY <1>7, <2>1, <2>2, <2>3, <2>4
<1>19. Range(h.lp) = 1 .. b
  BY <1>17, <1>18 DEF Range
<1>20. b # 0
  <2>1. PICK p \in Pixels : TRUE
    <3>1. 1 \in 1 .. n
      BY <1>1
    <3>2. 1 \in Range(lp)
      BY <3>1
    <3> QED BY <3>2 DEF Range
  <2>2. h.lp[p] \in 1 .. b
    BY <1>17, <2>1
  <2> QED BY <1>10, <2>2
<1>21. ASSUME NEW j \in 1 .. Len(list)
       PROVE  /\ h.ms[j] = [sons |-> {Position(olds, s) : s \in list[j].sons}, parent |-> b + j]
              /\ {Position(olds, s) : s \in list[j].sons} \subseteq 1 .. (b + j) - 1
              /\ {olds[y] : y \in {Position(olds, s) : s \in list[j].sons}} = list[j].sons
  <2>1. h.ms[j] = [sons |-> {Position(olds, s) : s \in list[j].sons \cap Range(olds)},
                   parent |-> Position(olds, list[j].parent)]
    BY <1>6, <1>14
  <2>2. list[j].sons \cap Range(olds) = list[j].sons
    BY <1>15
  <2>3. Position(olds, list[j].parent) = b + j
    BY <1>6, <1>8, <1>9, <1>13
  <2>4. ASSUME NEW s \in list[j].sons
        PROVE  Position(olds, s) \in 1 .. (b + j) - 1 /\ olds[Position(olds, s)] = s
    <3> DEFINE y == Position(olds, s)
    <3>1. s \in B \cup P /\ s \in Nat /\ s < ups[j]
      BY <1>9, <1>15
    <3>2. y \in 1 .. Len(olds) /\ olds[y] = s
      BY <1>9, <3>1
    <3> HIDE DEF y
    <3>3. ASSUME y >= b + j PROVE FALSE
      <4>1. PICK k \in 1 .. Len(list) : y = b + k
        <5>1. y - b \in 1 .. Len(list) /\ y = b + (y - b)
          BY <1>6, <1>8, <1>10, <3>2, <3>3
        <5> QED BY <5>1
      <4>2. s = ups[k]
        BY <1>8, <3>2, <4>1
      <4>3. j < k \/ j = k
        BY <1>6, <1>10, <3>3, <4>1
      <4>4. ups[j] \in Nat /\ ups[k] \in Nat
        <5>1. \A i \in K : n + i \in Nat
          BY <1>1 DEF KeptOf
        <5> QED BY <1>6, <5>1
      <4>5. CASE j < k
        <5>1. ups[j] < ups[k]
          BY <1>6, <4>5
        <5> QED BY <3>1, <4>2, <4>4, <5>1
      <4>6. CASE j = k
        BY <3>1, <4>2, <4>4, <4>6
      <4> QED BY <4>3, <4>5, <4>6
    <3>4. y \in 1 .. (b + j) - 1
      BY <1>6, <1>8, <1>10, <3>2, <3>3
    <3> QED BY <3>2, <3>4 DEF y
  <2> DEFINE S == {Position(olds, s) : s \in list[j].sons}
  <2>5. h.ms[j] = [sons |-> S, parent |-> b + j]
    BY <2>1, <2>2, <2>3
  <2>6. S \subseteq 1 .. (b + j) - 1
    BY <2>4
  <2>7. \A v : v \in {olds[y] : y \in S} <=> v \in list[j].sons
    BY <2>4
  <2> HIDE DEF S
  <2>8. {olds[y] : y \in S} = list[j].sons
    BY <2>7
  <2> QED BY <2>5, <2>6, <2>8 DEF S
<1>22. h.ms \in Mergings /\ Len(h.ms) = Len(list) /\ DOMAIN h.ms = 1 .. Len(list)
  <2> DEFINE X == [sons : SUBSET Nat, parent : Nat]
             m == Len(list)
             hm == h.ms
  <2>1. \A j \in 1 .. m : hm[j] \in X
    <3> TAKE j \in 1 .. m
    <3> DEFINE S == {Position(olds, s) : s \in list[j].sons}
    <3>1. hm[j] = [sons |-> S, parent |-> b + j] /\ S \subseteq 1 .. (b + j) - 1
      BY <1>21
    <3> HIDE DEF S, hm
    <3>2. S \in SUBSET Nat /\ b + j \in Nat
      BY <1>6, <1>10, <3>1
    <3> QED BY <3>1, <3>2
  <2>2. m \in Nat /\ DOMAIN hm = 1 .. m /\ hm = [j \in 1 .. m |-> hm[j]]
    BY <1>6, <1>14
  <2> HIDE DEF X, m, hm
  <2>3. hm \in [1 .. m -> X]
    BY <2>1, <2>2
  <2>4. hm \in Seq(X)
    BY <2>2, <2>3
  <2>5. Len(hm) = m
    <3>1. DOMAIN hm = 1 .. Len(hm) /\ Len(hm) \in Nat
      BY <2>4
    <3> QED BY <2>2, <3>1
  <2> QED BY <2>2, <2>4, <2>5 DEF X, m, hm, Mergings
<1>23. ASSUME NEW j \in 1 .. Len(h.ms)
       PROVE  /\ h.ms[j].parent = b + j /\ h.ms[j].sons # {} /\ h.ms[j].sons \subseteq 1 .. (b + j) - 1
              /\ \E i \in 1 .. Len(ms) : /\ h.lut[b + j] = n_leaves(ms) + i
                                         /\ {h.lut[s] : s \in h.ms[j].sons} = ms[i].sons
  <2> DEFINE S == {Position(olds, s) : s \in list[j].sons}
  <2>0. j \in 1 .. Len(list)
    BY <1>22
  <2>1. h.ms[j] = [sons |-> S, parent |-> b + j] /\ S \subseteq 1 .. (b + j) - 1 /\ {olds[y] : y \in S} = list[j].sons
    BY <1>21, <2>0
  <2>2. S # {}
    BY <1>15, <2>0
  <2> HIDE DEF S
  <2>3. PICK i \in 1 .. Len(ms) : list[j].sons = ms[i].sons /\ ups[j] = n + i
    BY <1>15, <2>0
  <2>4. h.ms[j].parent = b + j /\ h.ms[j].sons = S
    BY <2>1
  <2>5. h.lut[b + j] = n + i
    BY <1>8, <1>14, <2>0, <2>3
  <2>6. {h.lut[s] : s \in h.ms[j].sons} = ms[i].sons
    <3>1. {h.lut[s] : s \in h.ms[j].sons} = {olds[s] : s \in S}
      <4>1. h.lut = olds
        BY <1>14
      <4> QED BY <2>4, <4>1
    <3>2. {olds[s] : s \in S} = ms[i].sons
      BY <2>1, <2>3
    <3> QED BY <3>1, <3>2
  <2>7. h.ms[j].sons # {} /\ h.ms[j].sons \subseteq 1 .. (b + j) - 1
    BY <2>1, <2>2, <2>4
  <2> HIDE DEF b
  <2> QED BY <2>3, <2>4, <2>5, <2>6, <2>7
<1>24. h.ms = <<>> <=> regs \subseteq {n_regs(ms)}
  <2>1. h.ms = <<>> <=> Len(list) = 0
    <3>1. h.ms = <<>> => Len(h.ms) = 0
      OBVIOUS
    <3>2. Len(h.ms) = 0 => h.ms = <<>>
      BY <1>22 DEF Mergings
    <3> QED BY <1>22, <3>1, <3>2
  <2> QED BY <1>6, <2>1, NothingKept
<1>25. Lists(h.lut, RegionsKept(ms, regs)) /\ Len(h.lut) = b + Len(h.ms)
  BY <1>8, <1>14, <1>22 DEF RegionsKept
<1>26. \A x \in 1 .. b : /\ h.lut[x] \in 1 .. n_regs(ms)
                         /\ \A p \in Pixels : h.lp[p] = x <=> lp[p] \in D[h.lut[x]]
  BY <1>14, <1>18
<1>27. PrunedTo(h, lp, ms, regs, b)
  <2> HIDE DEF b, n
  <2>1. b \in Nat \ {0}
    BY <1>10, <1>20 DEF b
  <2>2. Lists(h.lut, RegionsKept(ms, regs)) /\ Len(h.lut) = b + Len(h.ms)
    BY <1>25
  <2> QED BY <1>16, <1>17, <1>19, <1>22, <1>23, <1>24, <1>26, <2>1, <2>2 DEF PrunedTo
<1> QED BY <1>27 DEF h

LEMMA PrunedIsHierarchy ==
  ASSUME NEW h, NEW lp, NEW ms, NEW regs, NEW b, PrunedTo(h, lp, ms, regs, b), h.ms # <<>>
  PROVE  IsHierarchy(h.ms) /\ n_leaves(h.ms) = b /\ n_regs(h.ms) = Len(h.lut) /\ Len(h.lut) \in Nat
<1>1. /\ b \in Nat \ {0} /\ h.ms \in Mergings /\ Len(h.lut) = b + Len(h.ms)
      /\ \A j \in 1 .. Len(h.ms) :
           h.ms[j].parent = b + j /\ h.ms[j].sons # {} /\ h.ms[j].sons \subseteq 1 .. (b + j) - 1
  BY DEF PrunedTo
<1> DEFINE m == h.ms
<1>2. m \in Mergings /\ m # <<>>
  BY <1>1
<1>3. \A j \in 1 .. Len(m) : m[j].parent = b + j /\ m[j].sons # {} /\ m[j].sons \subseteq 1 .. (b + j) - 1
  BY <1>1
<1> HIDE DEF m
<1>4. Len(m) \in Nat /\ DOMAIN m = 1 .. Len(m) /\ Len(m) # 0
  BY <1>2 DEF Mergings
<1>5. m[1].parent = b + 1
  BY <1>3, <1>4
<1>6. n_leaves(m) = b
  BY <1>1, <1>5 DEF n_leaves
<1>7. n_regs(m) = b + Len(m)
  BY <1>6 DEF n_regs
<1>8. IsHierarchy(m)
  BY <1>1, <1>2, <1>3, <1>4, <1>6 DEF IsHierarchy, Mergings
<1> QED BY <1>1, <1>4, <1>6, <1>7, <1>8 DEF m

\* Every region of a pruned hierarchy has the pixels of the region it was.
LEMMA PrunedPixels ==
  ASSUME NEW ms, IsTree(ms), NEW lp \in [Pixels -> 1 .. n_leaves(ms)],
         NEW h, NEW regs, NEW b, PrunedTo(h, lp, ms, regs, b), h.ms # <<>>,
         NEW x \in 1 .. Len(h.lut)
  PROVE  /\ h.lut[x] \in 1 .. n_regs(ms)
         /\ \A p \in Pixels : h.lp[p] \in leaves(h.ms)[x] <=> lp[p] \in leaves(ms)[h.lut[x]]
<1> DEFINE m == h.ms
           M == Len(h.lut)
           n == n_leaves(ms)
           L == leaves(m)
           O == leaves(ms)
           olds == h.lut
           Same(y) == \A p \in Pixels : h.lp[p] \in L[y] <=> lp[p] \in O[olds[y]]
           T == {y \in 1 .. M : olds[y] \in 1 .. n_regs(ms) /\ Same(y)}
<1>1. IsHierarchy(m) /\ n_leaves(m) = b /\ n_regs(m) = M /\ M \in Nat
  BY PrunedIsHierarchy
<1>2. IsHierarchy(ms) /\ n \in Nat /\ Len(ms) \in Nat /\ n_regs(ms) = n + Len(ms)
      /\ \A i \in 1 .. Len(ms) : ms[i].parent = n + i /\ n + i \in 1 .. n_regs(ms)
  <2>1. IsHierarchy(ms) /\ n \in Nat /\ Len(ms) \in Nat /\ n_regs(ms) = n + Len(ms)
        /\ \A i \in 1 .. Len(ms) : ms[i].parent = n + i
    BY TreeSizes
  <2> QED BY <2>1
<1>3. /\ b \in Nat \ {0} /\ M = b + Len(m)
      /\ \A y \in 1 .. b : /\ olds[y] \in 1 .. n_regs(ms)
                           /\ \A p \in Pixels : h.lp[p] = y <=> lp[p] \in descendants(ms)[olds[y]]
      /\ \A j \in 1 .. Len(m) : /\ m[j].parent = b + j /\ m[j].sons # {} /\ m[j].sons \subseteq 1 .. (b + j) - 1
                                /\ \E i \in 1 .. Len(ms) : /\ olds[b + j] = n + i
                                                           /\ {olds[s] : s \in m[j].sons} = ms[i].sons
  BY DEF PrunedTo
<1>4. /\ \A y \in 1 .. b : L[y] = {y}
      /\ \A j \in 1 .. Len(m) : L[b + j] = UNION {L[s] : s \in m[j].sons}
  <2>1. \A j \in 1 .. Len(m) : m[j].parent = b + j
    BY <1>3
  <2>2. /\ \A y \in 1 .. n_leaves(m) : L[y] = {y}
        /\ \A j \in 1 .. Len(m) : L[m[j].parent] = UNION {L[s] : s \in m[j].sons}
    BY <1>1, LeavesAre
  <2> QED BY <1>1, <2>1, <2>2
<1>5. \A i \in 1 .. Len(ms) : O[n + i] = UNION {O[s] : s \in ms[i].sons}
  <2>1. \A i \in 1 .. Len(ms) : O[ms[i].parent] = UNION {O[s] : s \in ms[i].sons}
    BY <1>2, LeavesAre
  <2> QED BY <1>2, <2>1
<1>6. \A r \in 1 .. n_regs(ms) : O[r] = descendants(ms)[r] \cap (1 .. n)
  BY <1>2, LeavesBelow
<1>7. \A p \in Pixels : lp[p] \in 1 .. n
  OBVIOUS
<1>8. Len(m) \in Nat
  BY <1>1, HierarchySizes
<1> HIDE DEF m, M, n, L, O, olds
<1>9. ASSUME NEW k \in 1 .. M, \A y \in 1 .. k - 1 : y \in T PROVE k \in T
  <2>1. CASE k \in 1 .. b
    <3>1. olds[k] \in 1 .. n_regs(ms) /\ L[k] = {k}
      BY <1>3, <1>4, <2>1
    <3>2. \A p \in Pixels : h.lp[p] = k <=> lp[p] \in O[olds[k]]
      BY <1>3, <1>6, <1>7, <2>1, <3>1
    <3> QED BY <3>1, <3>2
  <2>2. CASE k \notin 1 .. b
    <3> DEFINE j == k - b
    <3>1. j \in 1 .. Len(m) /\ k = b + j
      BY <1>1, <1>3, <1>8, <2>2
    <3> HIDE DEF j
    <3>2. PICK i \in 1 .. Len(ms) : olds[b + j] = n + i /\ {olds[s] : s \in m[j].sons} = ms[i].sons
      BY <1>3, <3>1
    <3>3. L[k] = UNION {L[s] : s \in m[j].sons}
      BY <1>4, <3>1
    <3>4. O[olds[k]] = UNION {O[s] : s \in ms[i].sons}
      BY <1>5, <3>1, <3>2
    <3>5. \A s \in m[j].sons : Same(s)
      <4> TAKE s \in m[j].sons
      <4>1. s \in 1 .. k - 1
        BY <1>3, <3>1
      <4>2. s \in T
        BY <1>9, <4>1
      <4> QED BY <4>2
    <3>6. \A p \in Pixels : h.lp[p] \in L[k] <=> \E s \in m[j].sons : h.lp[p] \in L[s]
      BY <3>3
    <3>7. \A p \in Pixels : lp[p] \in O[olds[k]] <=> \E s \in m[j].sons : lp[p] \in O[olds[s]]
      <4> TAKE p \in Pixels
      <4>1. lp[p] \in O[olds[k]] <=> \E r \in ms[i].sons : lp[p] \in O[r]
        BY <3>4
      <4>2. (\E r \in {olds[s] : s \in m[j].sons} : lp[p] \in O[r]) <=> \E s \in m[j].sons : lp[p] \in O[olds[s]]
        OBVIOUS
      <4> QED BY <3>2, <4>1, <4>2
    <3>8. Same(k)
      BY <3>5, <3>6, <3>7
    <3>9. olds[k] \in 1 .. n_regs(ms)
      BY <1>2, <3>1, <3>2
    <3> HIDE DEF Same
    <3> QED BY <3>8, <3>9
  <2> QED BY <2>1, <2>2
<1>10. \A k \in 1 .. M : k \in T
  <2> HIDE DEF T
  <2> QED BY <1>1, <1>9, ClimbAll
<1>11. x \in T
  BY <1>10 DEF M
<1> QED BY <1>11 DEF L, O, olds, m

\* The lists joined are as long as the lists together.
LEMMA FlattenLength ==
  ASSUME NEW S, NEW lists \in Seq(Seq(S)), NEW w, \A k \in 1 .. Len(lists) : w[k] = Len(lists[k])
  PROVE  Len(FlattenSeq(lists)) = Total(w, 1 .. Len(lists))
<1> DEFINE n == Len(lists)
           prefix(k) == [q \in 1 .. k |-> lists[q]]
           T == {k \in 0 .. n : Len(FlattenSeq(prefix(k))) = Total(w, 1 .. k)}
<1>1. n \in Nat /\ lists = prefix(n)
  OBVIOUS
<1>2. ASSUME NEW k \in 0 .. n
      PROVE  /\ prefix(k) \in Seq(Seq(S)) /\ Len(prefix(k)) = k
             /\ \A q \in 1 .. k : prefix(k)[q] = lists[q] /\ lists[q] \in Seq(S)
  <2>1. \A q \in 1 .. k : lists[q] \in Seq(S)
    BY <1>1
  <2> DEFINE U == Seq(S)
             s == prefix(k)
  <2>2. k \in Nat /\ s \in [1 .. k -> U] /\ DOMAIN s = 1 .. k /\ \A q \in 1 .. k : s[q] = lists[q]
    BY <1>1, <2>1
  <2> HIDE DEF U, s
  <2>3. s \in Seq(U)
    BY <2>2
  <2>4. DOMAIN s = 1 .. Len(s) /\ Len(s) \in Nat
    BY <2>3
  <2>5. Len(s) = k
    BY <2>2, <2>4
  <2> QED BY <2>1, <2>2, <2>3, <2>5 DEF U, s
<1>3. \A k \in 1 .. n : w[k] = Len(lists[k]) /\ lists[k] \in Seq(S) /\ w[k] \in Nat
  OBVIOUS
<1> HIDE DEF prefix
<1>4. 0 \in T
  <2>1. 0 \in 0 .. n /\ 1 .. 0 = {}
    BY <1>1
  <2>2. Len(prefix(0)) = 0
    BY <1>2, <2>1
  <2>3. Len(FlattenSeq(prefix(0))) = 0
    BY <2>2, FlattenNone
  <2>4. Total(w, 1 .. 0) = 0
    BY <2>1, TotalEmpty
  <2> QED BY <2>1, <2>3, <2>4
<1>5. ASSUME NEW k \in 1 .. n, k - 1 \in T PROVE k \in T
  <2>1. k \in 0 .. n /\ k - 1 \in 0 .. n /\ k \in 1 .. k /\ (1 .. k) \ {k} = 1 .. k - 1 /\ (k - 1) + 1 = k
    BY <1>1
  <2>2. /\ prefix(k) \in Seq(Seq(S)) /\ Len(prefix(k)) = k /\ prefix(k)[k] = lists[k]
        /\ prefix(k - 1) \in Seq(Seq(S)) /\ Len(prefix(k - 1)) = k - 1
    BY <1>2, <2>1
  <2>3. \A q \in 1 .. k - 1 : prefix(k)[q] = prefix(k - 1)[q]
    <3> TAKE q \in 1 .. k - 1
    <3>1. q \in 1 .. k
      BY <2>1
    <3> QED BY <1>2, <2>1, <3>1
  <2> DEFINE s == prefix(k - 1)
             t == prefix(k)
  <2>4. s \in Seq(Seq(S)) /\ t \in Seq(Seq(S)) /\ Len(t) = Len(s) + 1 /\ \A q \in 1 .. Len(s) : t[q] = s[q]
    BY <2>1, <2>2, <2>3
  <2>5. Len(t) = k /\ t[k] = lists[k]
    BY <2>2
  <2> HIDE DEF s, t
  <2>6. FlattenSeq(t) = FlattenSeq(s) \o lists[k]
    <3>1. FlattenSeq(t) = FlattenSeq(s) \o t[Len(t)]
      BY <2>4, FlattenStep
    <3> QED BY <2>5, <3>1
  <2>7. FlattenSeq(s) \in Seq(S) /\ lists[k] \in Seq(S)
    BY <1>3, <2>4, FlattenType
  <2>8. Len(FlattenSeq(t)) = Len(FlattenSeq(s)) + Len(lists[k])
    <3> DEFINE u == FlattenSeq(s)
               v == lists[k]
    <3>1. u \in Seq(S) /\ v \in Seq(S) /\ FlattenSeq(t) = u \o v
      BY <2>6, <2>7
    <3> HIDE DEF u, v
    <3>2. Len(u \o v) = Len(u) + Len(v)
      BY <3>1
    <3> QED BY <3>1, <3>2 DEF u, v
  <2>9. Len(FlattenSeq(s)) = Total(w, 1 .. k - 1)
    BY <1>5 DEF s
  <2>10. Total(w, 1 .. k) = w[k] + Total(w, 1 .. k - 1)
    <3>1. IsFiniteSet(1 .. k) /\ \A q \in 1 .. k : w[q] \in Nat
      <4>1. \A q \in 1 .. k : q \in 1 .. n
        BY <2>1
      <4>2. IsFiniteSet(1 .. k)
        BY <1>1, FS_Interval
      <4> QED BY <1>3, <4>1, <4>2
    <3>2. Total(w, 1 .. k) = w[k] + Total(w, (1 .. k) \ {k})
      <4> DEFINE X == 1 .. k
      <4>1. IsFiniteSet(X) /\ (\A q \in X : w[q] \in Nat) /\ k \in X
        BY <2>1, <3>1
      <4> HIDE DEF X
      <4>2. Total(w, X) = w[k] + Total(w, X \ {k})
        BY <4>1, TotalAny
      <4> QED BY <4>2 DEF X
    <3> QED BY <2>1, <3>2
  <2>11. Len(FlattenSeq(t)) = Total(w, 1 .. k)
    <3>1. Len(FlattenSeq(s)) \in Nat /\ w[k] = Len(lists[k]) /\ w[k] \in Nat
      BY <1>3, <2>7
    <3> QED BY <2>8, <2>9, <2>10, <3>1
  <2> QED BY <2>1, <2>11 DEF t
<1>6. n \in T
  <2> HIDE DEF T
  <2>1. \A k \in 0 .. n : k \in T
    BY <1>1, <1>4, <1>5, Climb
  <2> QED BY <1>1, <2>1
<1> QED BY <1>1, <1>6

\* Lists none of which is longer are as long together only if each one is.
LEMMA FlattenShorter ==
  ASSUME NEW S, NEW a \in Seq(Seq(S)), NEW b \in Seq(Seq(S)), Len(a) = Len(b),
         \A k \in 1 .. Len(a) : Len(a[k]) <= Len(b[k])
  PROVE  Len(FlattenSeq(a)) = Len(FlattenSeq(b)) <=> \A k \in 1 .. Len(a) : Len(a[k]) = Len(b[k])
<1> DEFINE n == Len(a)
           v == [k \in 1 .. n |-> Len(a[k])]
           w == [k \in 1 .. n |-> Len(b[k])]
<1>1. n \in Nat /\ IsFiniteSet(1 .. n)
  <2>1. n \in Nat
    OBVIOUS
  <2> HIDE DEF n
  <2> QED BY <2>1, FS_Interval
<1>2. \A k \in 1 .. n : v[k] = Len(a[k]) /\ w[k] = Len(b[k]) /\ v[k] \in Nat /\ w[k] \in Nat /\ v[k] <= w[k]
  OBVIOUS
<1>3. Len(FlattenSeq(a)) = Total(v, 1 .. n)
  <2>1. \A k \in 1 .. Len(a) : v[k] = Len(a[k])
    OBVIOUS
  <2> HIDE DEF v
  <2> QED BY <2>1, FlattenLength
<1>4. Len(FlattenSeq(b)) = Total(w, 1 .. n)
  <2>1. \A k \in 1 .. Len(b) : w[k] = Len(b[k])
    OBVIOUS
  <2> HIDE DEF w
  <2> QED BY <2>1, FlattenLength
<1> HIDE DEF v, w, n
<1>5. Total(v, 1 .. n) = Total(w, 1 .. n) <=> \A k \in 1 .. n : v[k] = w[k]
  <2> DEFINE X == 1 .. n
  <2>1. IsFiniteSet(X) /\ \A k \in X : v[k] \in Nat /\ w[k] \in Nat /\ v[k] <= w[k]
    BY <1>1, <1>2
  <2> HIDE DEF X
  <2>2. Total(v, X) = Total(w, X) <=> \A k \in X : v[k] = w[k]
    BY <2>1, TotalCompared
  <2> QED BY <2>2 DEF X
<1> QED BY <1>2, <1>3, <1>4, <1>5 DEF n


-----------------------------------------------------------------------------
(* Proposals: where the labels of each hierarchy start.                    *)

OffsetStep(n, h) == IF h.ms = <<>> THEN n ELSE n + n_pruned(h)
OffsetFold(base, hs) == FoldLeft(LAMBDA n, h : IF h.ms = <<>> THEN n ELSE n + n_pruned(h), base, hs)

OffsetRun(g, hs, base, n, A) ==
  /\ g \in [0 .. n -> A]
  /\ g[0] = base /\ OffsetFold(base, hs) = g[n]
  /\ \A k \in 1 .. n : g[k] = OffsetStep(g[k - 1], hs[k])

LEMMA OffsetsFold ==
  ASSUME NEW hs, NEW A, NEW base \in A, NEW n \in Nat, DOMAIN hs = 1 .. n,
         \A a \in A : \A k \in 1 .. n :
           OffsetStep(a, hs[k]) \in A
  PROVE  \E g : OffsetRun(g, hs, base, n, A)
<1> DEFINE E(a, k) == OffsetStep(a, hs[k])
           step == [ak \in A \X (1 .. n) |-> E(ak[1], ak[2])]
           F(h) == [s \in SUBSET DOMAIN hs |-> IF s = {} THEN base ELSE E(h[s \ {Max(s)}], Max(s))]
           fold == CHOOSE h : h = F(h)
<1>1. OffsetFold(base, hs) = fold[1 .. n]
  BY DEF OffsetFold, OffsetStep, FoldLeft, MapThenFoldSet
<1>2. \A a \in A : \A k \in 1 .. n : E(a, k) \in A
  OBVIOUS
<1>3. \A g : (\A k \in 1 .. n : g[k] = E(g[k - 1], k)) =>
               \A k \in 1 .. n : g[k] = OffsetStep(g[k - 1], hs[k])
  OBVIOUS
<1> HIDE DEF E
<1>4. step \in [A \X (1 .. n) -> A] /\ \A a \in A : \A k \in 1 .. n : step[<<a, k>>] = E(a, k)
  BY <1>2
<1> HIDE DEF step
<1>5. PICK h : FoldsSubsets(h, A, base, step, n)
  BY <1>4, FoldSubsetsExist
<1>6. h = F(h)
  <2>1. h \in [SUBSET (1 .. n) -> A]
    BY <1>5 DEF FoldsSubsets
  <2>2. ASSUME NEW s \in SUBSET (1 .. n), s # {}
        PROVE  h[s] = E(h[s \ {Max(s)}], Max(s))
    <3>1. Max(s) \in 1 .. n
      BY <2>2, MaxInInterval
    <3>2. h[s \ {Max(s)}] \in A
      BY <2>1
    <3>3. h[s] = step[<<h[s \ {Max(s)}], Max(s)>>]
      BY <1>5, <2>2 DEF FoldsSubsets
    <3> QED BY <1>4, <3>1, <3>2, <3>3
  <2>3. \A s \in SUBSET (1 .. n) : s = {} => h[s] = base
    BY <1>5 DEF FoldsSubsets
  <2> QED BY <2>1, <2>2, <2>3
<1>7. fold = F(fold)
  <2> HIDE DEF F
  <2> QED BY <1>6
<1> HIDE DEF fold
<1>8. \A s \in SUBSET (1 .. n) : fold[s] = IF s = {} THEN base ELSE E(fold[s \ {Max(s)}], Max(s))
  BY <1>7
<1> HIDE DEF F
<1>9. ASSUME NEW s \in SUBSET (1 .. n), s # {}, fold[s \ {Max(s)}] \in A
      PROVE  fold[s] = step[<<fold[s \ {Max(s)}], Max(s)>>]
  <2>1. Max(s) \in 1 .. n
    BY <1>9, MaxInInterval
  <2> QED BY <1>4, <1>8, <1>9, <2>1
<1>10. FoldsFrom(fold, A, base, step, n)
  BY <1>4, <1>8, <1>9 DEF FoldsFrom
<1>11. PICK g : Accumulates(g, A, base, step, n) /\ fold[1 .. n] = g[n]
  BY <1>10, FoldRuns
<1>12. g \in [0 .. n -> A] /\ g[0] = base
  BY <1>11 DEF Accumulates
<1>13. ASSUME NEW k \in 1 .. n PROVE g[k] = E(g[k - 1], k)
  <2>1. g[k - 1] \in A
    BY <1>12
  <2> QED BY <1>4, <1>11, <2>1 DEF Accumulates
<1>14. \A k \in 1 .. n : g[k] = OffsetStep(g[k - 1], hs[k])
  BY <1>3, <1>13
<1> QED BY <1>1, <1>11, <1>12, <1>14 DEF OffsetRun

\* Every element of the list adds its size to the offset.
AddsSizes(s, n, w) ==
  /\ n \in Nat /\ DOMAIN s = 1 .. n /\ \A k \in 1 .. n : w[k] \in Nat
  /\ \A a \in Nat : \A k \in 1 .. n : OffsetStep(a, s[k]) = a + w[k]

LEMMA OffsetRuns ==
  ASSUME NEW s, NEW n, NEW w, NEW base \in Nat, AddsSizes(s, n, w)
  PROVE  \E g : OffsetRun(g, s, base, n, Nat)
<1>1. n \in Nat
  BY DEF AddsSizes
<1>2. DOMAIN s = 1 .. n
  BY DEF AddsSizes
<1>3. ASSUME NEW a \in Nat, NEW k \in 1 .. n PROVE OffsetStep(a, s[k]) \in Nat
  <2>1. OffsetStep(a, s[k]) = a + w[k] /\ w[k] \in Nat
    BY DEF AddsSizes
  <2> QED BY <2>1
<1> DEFINE A == Nat
<1>4. base \in A
  OBVIOUS
<1>5. \A a \in A : \A k \in 1 .. n : OffsetStep(a, s[k]) \in A
  BY <1>3
<1> HIDE DEF A
<1>7. \E g : OffsetRun(g, s, base, n, A)
  BY <1>1, <1>2, <1>4, <1>5, OffsetsFold
<1> QED BY <1>7 DEF A

LEMMA OffsetAfter ==
  ASSUME NEW s, NEW n, NEW w, NEW base \in Nat, AddsSizes(s, n, w)
  PROVE  OffsetFold(base, s) = base + Total(w, 1 .. n) /\ Total(w, 1 .. n) \in Nat
<1>1. n \in Nat /\ DOMAIN s = 1 .. n
  BY DEF AddsSizes
<1>2. \A k \in 1 .. n : w[k] \in Nat
  BY DEF AddsSizes
<1>4. \A a \in Nat : \A k \in 1 .. n : OffsetStep(a, s[k]) = a + w[k]
  BY DEF AddsSizes
<1>3. PICK g : OffsetRun(g, s, base, n, Nat)
  BY OffsetRuns
<1>5. /\ g \in [0 .. n -> Nat] /\ g[0] = base /\ OffsetFold(base, s) = g[n]
      /\ \A k \in 1 .. n : g[k] = OffsetStep(g[k - 1], s[k])
  BY <1>3 DEF OffsetRun
<1> DEFINE T == {k \in 0 .. n : g[k] = base + Total(w, 1 .. k) /\ Total(w, 1 .. k) \in Nat}
<1>6. 0 \in T
  <2>1. 1 .. 0 = {}
    OBVIOUS
  <2>2. Total(w, 1 .. 0) = 0
    BY <2>1, TotalEmpty
  <2> QED BY <1>1, <1>5, <2>2
<1>7. ASSUME NEW k \in 1 .. n, k - 1 \in T PROVE k \in T
  <2> DEFINE X == 1 .. k
             Y == 1 .. k - 1
  <2>1. k \in X /\ X \ {k} = Y /\ k \in 0 .. n /\ k - 1 \in 0 .. n
    BY <1>1
  <2>2. IsFiniteSet(X)
    BY <1>1, FS_Interval
  <2>3. \A q \in X : w[q] \in Nat
    BY <1>1, <1>2
  <2>4. g[k - 1] = base + Total(w, Y) /\ Total(w, Y) \in Nat
    BY <1>7
  <2>5. g[k] = OffsetStep(g[k - 1], s[k]) /\ w[k] \in Nat
    BY <1>2, <1>5
  <2> HIDE DEF X, Y
  <2>6. Total(w, X) = w[k] + Total(w, X \ {k})
    BY <2>1, <2>2, <2>3, TotalAny
  <2> DEFINE t == Total(w, Y)
  <2>7. Total(w, X) = w[k] + t
    BY <2>1, <2>6
  <2>8. g[k - 1] = base + t /\ t \in Nat /\ g[k - 1] \in Nat
    BY <2>4
  <2>9. g[k] = g[k - 1] + w[k]
    BY <1>4, <2>5, <2>8
  <2> HIDE DEF t
  <2>10. g[k] = base + (w[k] + t) /\ w[k] + t \in Nat
    BY <2>5, <2>8, <2>9
  <2> QED BY <2>1, <2>7, <2>10 DEF X
<1>8. n \in T
  <2> HIDE DEF T
  <2>1. \A k \in 0 .. n : k \in T
    BY <1>1, <1>6, <1>7, Climb
  <2> QED BY <1>1, <2>1
<1> QED BY <1>5, <1>8

\* The offset of a hierarchy is the sum of the sizes of those before it.
LEMMA OffsetsAre ==
  ASSUME NEW H, NEW hs \in Seq(H), NEW base \in Nat, NEW w,
         \A k \in 1 .. Len(hs) : w[k] \in Nat /\ w[k] = IF hs[k].ms = <<>> THEN 0 ELSE n_pruned(hs[k])
  PROVE  /\ DOMAIN OffsetOf(hs, base) = 1 .. Len(hs)
         /\ \A ii \in 1 .. Len(hs) :
              OffsetOf(hs, base)[ii] = base + Total(w, 1 .. ii - 1) /\ Total(w, 1 .. ii - 1) \in Nat
<1>1. Len(hs) \in Nat /\ DOMAIN hs = 1 .. Len(hs)
  OBVIOUS
<1>2. OffsetOf(hs, base) = [ii \in 1 .. Len(hs) |-> OffsetFold(base, SubSeq(hs, 1, ii - 1))]
  BY <1>1 DEF OffsetOf, OffsetFold
<1>3. ASSUME NEW ii \in 1 .. Len(hs)
      PROVE  OffsetFold(base, SubSeq(hs, 1, ii - 1)) = base + Total(w, 1 .. ii - 1) /\ Total(w, 1 .. ii - 1) \in Nat
  <2> DEFINE n == ii - 1
             s == SubSeq(hs, 1, n)
  <2>1. n \in 0 .. Len(hs) /\ n \in Nat
    BY <1>1
  <2>2. DOMAIN s = 1 .. n /\ \A k \in 1 .. n : s[k] = hs[k]
    <3> HIDE DEF n
    <3> QED BY <2>1, FirstOfList DEF FirstOf
  <2> HIDE DEF n, s
  <2>3. \A k \in 1 .. n : /\ w[k] \in Nat /\ s[k] = hs[k]
                          /\ w[k] = IF hs[k].ms = <<>> THEN 0 ELSE n_pruned(hs[k])
    <3>1. \A k \in 1 .. n : k \in 1 .. Len(hs)
      BY <1>1, <2>1
    <3> QED BY <2>2, <3>1
  <2>4. \A a \in Nat : \A k \in 1 .. n : OffsetStep(a, s[k]) = a + w[k] /\ OffsetStep(a, s[k]) \in Nat
    <3> TAKE a \in Nat
    <3> TAKE k \in 1 .. n
    <3> DEFINE x == s[k]
    <3>1. w[k] \in Nat /\ w[k] = IF x.ms = <<>> THEN 0 ELSE n_pruned(x)
      BY <2>3
    <3> HIDE DEF x
    <3>2. OffsetStep(a, x) = a + w[k]
      BY <3>1 DEF OffsetStep
    <3> QED BY <3>1, <3>2 DEF x
  <2>5. AddsSizes(s, n, w)
    BY <2>1, <2>2, <2>3, <2>4 DEF AddsSizes
  <2>6. OffsetFold(base, s) = base + Total(w, 1 .. n) /\ Total(w, 1 .. n) \in Nat
    BY <2>5, OffsetAfter
  <2> QED BY <2>6 DEF n, s
<1> DEFINE off == OffsetOf(hs, base)
<1>4. \A ii \in 1 .. Len(hs) : off[ii] = OffsetFold(base, SubSeq(hs, 1, ii - 1))
  BY <1>2
<1>5. DOMAIN off = 1 .. Len(hs)
  BY <1>2
<1> HIDE DEF off
<1>6. \A ii \in 1 .. Len(hs) : off[ii] = base + Total(w, 1 .. ii - 1) /\ Total(w, 1 .. ii - 1) \in Nat
  BY <1>3, <1>4
<1> QED BY <1>5, <1>6 DEF off

-----------------------------------------------------------------------------
(* Proposals: the pruned hierarchies, and when it stops.                   *)

PrunedHere(ii) == Prune(input.lps[ii], input.ms[ii], Needed(ii))
PrunedInv ==
  /\ ListsInv
  /\ pruned \in Seq({PrunedHere(ii) : ii \in 1 .. n_hiers})
  /\ \A ii \in 1 .. Len(pruned) : pruned[ii] = PrunedHere(ii)
  /\ stage \in {"hierarchy", "undo"} => pruned = <<>>
  /\ stage = "prune" => Len(pruned) < n_hiers
  /\ stage \notin {"hierarchy", "undo", "prune"} => Len(pruned) = n_hiers

\* The regions that the candidates of a hierarchy need.
LEMMA NeededAre ==
  ASSUME ListsInv, Len(full_cands) = n_hiers, NEW ii \in 1 .. n_hiers
  PROVE  /\ Needed(ii) \in SUBSET (1 .. n_regs(input.ms[ii]))
         /\ Needed(ii) = {} <=> full_cands[ii] = <<>>
         /\ full_cands[ii] \in Seq(Seq(Nat)) /\ DOMAIN full_cands[ii] = 1 .. Len(full_cands[ii])
         /\ Len(full_cands[ii]) \in Nat
         /\ \A x \in 1 .. Len(full_cands[ii]) :
              LET row == full_cands[ii][x] IN
              /\ RowOf(input.ms[ii], row) /\ Len(row) \in Nat /\ DOMAIN row = 1 .. Len(row)
              /\ \A y \in 1 .. Len(row) : row[y] \in Needed(ii)
<1> DEFINE rows == full_cands[ii]
           M == n_regs(input.ms[ii])
<1>1. /\ full_cands \in Seq(Seq(Seq(Nat))) /\ ii \in 1 .. Len(full_cands)
      /\ \A x \in 1 .. Len(rows) : RowOf(input.ms[ii], rows[x])
  BY DEF ListsInv
<1>2. rows \in Seq(Seq(Nat))
  BY <1>1
<1>3. Len(rows) \in Nat /\ DOMAIN rows = 1 .. Len(rows)
  BY <1>2
<1>4. Needed(ii) = UNION {Range(rows[x]) : x \in 1 .. Len(rows)}
  BY <1>3 DEF Needed
<1> HIDE DEF rows, M
<1>5. ASSUME NEW x \in 1 .. Len(rows)
      PROVE  /\ Range(rows[x]) \subseteq 1 .. M /\ Range(rows[x]) # {}
             /\ Len(rows[x]) \in Nat /\ DOMAIN rows[x] = 1 .. Len(rows[x])
             /\ \A y \in 1 .. Len(rows[x]) : rows[x][y] \in Range(rows[x])
  <2> DEFINE row == rows[x]
  <2>1. row \in Seq(1 .. M) /\ row # <<>>
    BY <1>1 DEF RowOf, M
  <2> HIDE DEF row
  <2>2. Len(row) \in Nat /\ DOMAIN row = 1 .. Len(row) /\ Len(row) # 0
    BY <2>1
  <2>3. Range(row) \subseteq 1 .. M /\ \A y \in 1 .. Len(row) : row[y] \in Range(row)
    BY <2>1, RangeOfList
  <2>4. 1 \in 1 .. Len(row)
    BY <2>2
  <2> QED BY <2>2, <2>3, <2>4 DEF row
<1>6. Needed(ii) \in SUBSET (1 .. M)
  BY <1>4, <1>5
<1>7. Needed(ii) = {} <=> rows = <<>>
  <2>1. ASSUME rows = <<>> PROVE Needed(ii) = {}
    BY <1>4, <2>1
  <2>2. ASSUME rows # <<>> PROVE Needed(ii) # {}
    <3>1. 1 \in 1 .. Len(rows)
      BY <1>2, <1>3, <2>2
    <3> QED BY <1>4, <1>5, <3>1
  <2> QED BY <2>1, <2>2
<1>8. \A x \in 1 .. Len(rows) : \A y \in 1 .. Len(rows[x]) : rows[x][y] \in Needed(ii)
  BY <1>4, <1>5
<1> QED BY <1>1, <1>2, <1>3, <1>5, <1>6, <1>7, <1>8 DEF rows, M

LEMMA PrunedHereIs ==
  ASSUME ListsInv, Len(full_cands) = n_hiers, NEW ii \in 1 .. n_hiers
  PROVE  \E b : PrunedTo(PrunedHere(ii), input.lps[ii], input.ms[ii], Needed(ii), b)
<1> DEFINE lp == input.lps[ii]
           ms == input.ms[ii]
<1>1. /\ IsTree(ms) /\ lp \in [Pixels -> 1 .. n_leaves(ms)] /\ Range(lp) = 1 .. n_leaves(ms)
  BY InputIs DEF ListsInv, n_hiers
<1>2. Needed(ii) \in SUBSET (1 .. n_regs(ms))
  BY NeededAre
<1> HIDE DEF lp, ms
<1>3. \E b : PrunedTo(Prune(lp, ms, Needed(ii)), lp, ms, Needed(ii), b)
  BY <1>1, <1>2, PruneIs
<1> QED BY <1>3 DEF lp, ms, PrunedHere

LEMMA PrunedStart ==
  ProposalsInit => PrunedInv
<1> SUFFICES ASSUME ProposalsInit PROVE PrunedInv
  OBVIOUS
<1>1. pruned = <<>> /\ stage = "hierarchy"
  BY DEF ProposalsInit
<1>2. Len(pruned) = 0 /\ pruned \in Seq({PrunedHere(ii) : ii \in 1 .. n_hiers})
  BY <1>1
<1> QED BY <1>1, <1>2, ListsStart DEF PrunedInv

\* Pruning never stops the program.
LEMMA PruneStep ==
  ASSUME PrunedInv, PruneHierarchy
  PROVE  /\ stage = "prune" /\ pruned' = Append(pruned, PrunedHere(Len(pruned) + 1))
         /\ stage' = IF Len(pruned) + 1 = n_hiers THEN "fuse" ELSE "prune"
         /\ input' = input /\ full_cands' = full_cands
<1>1. stage = "prune" /\ Len(pruned) < n_hiers /\ ListsInv /\ Len(full_cands) = n_hiers
  BY DEF PruneHierarchy, PrunedInv, ListsInv
<1>2. Len(pruned) \in Nat /\ n_hiers \in Nat
  BY <1>1, InputIs DEF PrunedInv, ListsInv, n_hiers
<1> DEFINE ii == Len(pruned) + 1
           h == PrunedHere(ii)
<1>3. ii \in 1 .. n_hiers
  BY <1>1, <1>2
<1>4. h.ok
  <2> HIDE DEF ii
  <2>1. PICK b : PrunedTo(h, input.lps[ii], input.ms[ii], Needed(ii), b)
    BY <1>1, <1>3, PrunedHereIs
  <2> QED BY <2>1 DEF PrunedTo
<1>5. IF h.ok
      THEN pruned' = Append(pruned, h) /\ stage' = IF ii = n_hiers THEN "fuse" ELSE "prune"
      ELSE stage' = "error" /\ UNCHANGED pruned
  BY DEF PruneHierarchy, PrunedHere
<1> QED BY <1>1, <1>4, <1>5 DEF PruneHierarchy

LEMMA PrunedStep ==
  ASSUME PrunedInv, [ProposalsNext]_proposal_vars
  PROVE  PrunedInv'
<1>1. ListsInv' /\ ListsInv
  BY ListsStep DEF PrunedInv
<1>2. CASE StartHierarchy \/ UndoLastMerging \/ StoreHierarchy
  <2>1. pruned = <<>> /\ pruned' = pruned /\ stage' \in {"hierarchy", "undo", "prune"}
    BY <1>2 DEF PrunedInv, StartHierarchy, UndoLastMerging, StoreHierarchy
  <2>2. n_hiers' \in Nat \ {0}
    BY <1>1, InputIs DEF ListsInv, n_hiers
  <2>3. Len(pruned') = 0 /\ pruned' = <<>>
    BY <2>1
  <2>4. pruned' \in Seq({PrunedHere(ii)' : ii \in (1 .. n_hiers)'})
    BY <2>3
  <2> QED BY <1>1, <2>1, <2>2, <2>3, <2>4 DEF PrunedInv
\* The other steps change nothing of what a pruned hierarchy is made from.
<1>3. ASSUME input' = input, full_cands' = full_cands
      PROVE  /\ n_hiers' = n_hiers /\ \A ii : PrunedHere(ii)' = PrunedHere(ii)
             /\ {PrunedHere(ii) : ii \in 1 .. n_hiers}' = {PrunedHere(ii) : ii \in 1 .. n_hiers}
  <2>1. n_hiers' = n_hiers
    BY <1>3 DEF n_hiers
  <2>2. \A ii : PrunedHere(ii)' = PrunedHere(ii)
    BY <1>3 DEF PrunedHere, Needed
  <2> QED BY <2>1, <2>2
<1>4. CASE PruneHierarchy
  <2>1. /\ stage = "prune" /\ pruned' = Append(pruned, PrunedHere(Len(pruned) + 1))
        /\ stage' = IF Len(pruned) + 1 = n_hiers THEN "fuse" ELSE "prune"
        /\ input' = input /\ full_cands' = full_cands
    BY <1>4, PruneStep
  <2>2. /\ Len(pruned) < n_hiers /\ Len(pruned) \in Nat /\ n_hiers \in Nat
        /\ \A ii \in 1 .. Len(pruned) : pruned[ii] = PrunedHere(ii)
    BY <1>1, <2>1, InputIs DEF PrunedInv, ListsInv, n_hiers
  <2> DEFINE S == {PrunedHere(ii) : ii \in 1 .. n_hiers}
             h == PrunedHere(Len(pruned) + 1)
  <2>3. h \in S /\ pruned \in Seq(S)
    BY <2>2 DEF PrunedInv
  <2>4. S' = S /\ n_hiers' = n_hiers /\ \A ii : PrunedHere(ii)' = PrunedHere(ii)
    BY <1>3, <2>1
  <2>5. pruned' = Append(pruned, h)
    BY <2>1
  <2> HIDE DEF S, h
  <2>6. /\ pruned' \in Seq(S) /\ Len(pruned') = Len(pruned) + 1 /\ pruned'[Len(pruned) + 1] = h
        /\ \A ii \in 1 .. Len(pruned) : pruned'[ii] = pruned[ii]
    BY <2>3, <2>5
  <2>7. \A ii \in 1 .. Len(pruned') : pruned'[ii] = PrunedHere(ii)
    <3>1. \A ii \in 1 .. Len(pruned) + 1 : ii \in 1 .. Len(pruned) \/ ii = Len(pruned) + 1
      BY <2>2
    <3> QED BY <2>2, <2>6, <3>1 DEF h
  <2>8. pruned' \in Seq({PrunedHere(ii) : ii \in 1 .. n_hiers}')
    BY <2>4, <2>6 DEF S
  <2>9. \A ii \in 1 .. Len(pruned') : pruned'[ii] = PrunedHere(ii)'
    BY <2>4, <2>7
  <2>10. stage' \in {"fuse", "prune"} /\ (stage' = "prune" => Len(pruned') < n_hiers)
         /\ (stage' = "fuse" => Len(pruned') = n_hiers)
    BY <2>1, <2>2, <2>6
  <2> QED BY <1>1, <2>4, <2>8, <2>9, <2>10 DEF PrunedInv
<1>5. ASSUME /\ pruned' = pruned /\ input' = input /\ full_cands' = full_cands
             /\ stage' = stage \/ (stage \notin {"hierarchy", "undo", "prune"}
                                   /\ stage' \notin {"hierarchy", "undo", "prune"})
      PROVE  PrunedInv'
  <2>1. /\ n_hiers' = n_hiers /\ \A ii : PrunedHere(ii)' = PrunedHere(ii)
        /\ {PrunedHere(ii) : ii \in 1 .. n_hiers}' = {PrunedHere(ii) : ii \in 1 .. n_hiers}
    BY <1>3, <1>5
  <2>2. pruned' \in Seq({PrunedHere(ii) : ii \in 1 .. n_hiers}')
    BY <1>5, <2>1 DEF PrunedInv
  <2>3. \A ii \in 1 .. Len(pruned') : pruned'[ii] = PrunedHere(ii)'
    BY <1>5, <2>1 DEF PrunedInv
  <2>4. /\ stage' \in {"hierarchy", "undo"} => pruned' = <<>>
        /\ stage' = "prune" => Len(pruned') < n_hiers'
        /\ stage' \notin {"hierarchy", "undo", "prune"} => Len(pruned') = n_hiers'
    BY <1>5, <2>1 DEF PrunedInv
  <2> QED BY <1>1, <2>2, <2>3, <2>4 DEF PrunedInv
<1>6. CASE Fuse
  BY <1>5, <1>6 DEF Fuse
<1>7. CASE FillHoles
  BY <1>5, <1>7 DEF FillHoles
<1>8. CASE ComputeFeatures
  BY <1>5, <1>8 DEF ComputeFeatures
<1>9. CASE Reduce
  BY <1>5, <1>9 DEF Reduce
<1>10. CASE Score
  BY <1>5, <1>10 DEF Score
<1>11. CASE Rank
  BY <1>5, <1>11 DEF Rank
<1>12. CASE SelectNext
  BY <1>5, <1>12 DEF SelectNext
<1>13. CASE Return
  BY <1>5, <1>13 DEF Return
<1>14. CASE UNCHANGED proposal_vars
  BY <1>5, <1>14 DEF proposal_vars
<1> QED BY <1>2, <1>4, <1>6, <1>7, <1>8, <1>9, <1>10, <1>11, <1>12, <1>13, <1>14 DEF ProposalsNext

\* Some hierarchy needs its root and nothing else.
BareRoot == \E ii \in 1 .. n_hiers : Needed(ii) = {n_regs(input.ms[ii])}
NoneWanted == \A ii \in 1 .. n_hiers : Needed(ii) = {}
AllPruned ==
  /\ ListsInv /\ Len(full_cands) = n_hiers
  /\ pruned \in Seq({PrunedHere(ii) : ii \in 1 .. n_hiers}) /\ Len(pruned) = n_hiers
  /\ \A ii \in 1 .. n_hiers : pruned[ii] = PrunedHere(ii)
StopInv ==
  /\ PrunedInv
  /\ stage = "error" => BareRoot \/ NoneWanted
  /\ stage \notin {"hierarchy", "undo", "prune", "fuse", "error"} => ~ BareRoot /\ ~ NoneWanted

LEMMA PrunedSizes ==
  ASSUME AllPruned
  PROVE  /\ n_hiers \in Nat \ {0} /\ DOMAIN pruned = 1 .. n_hiers /\ DOMAIN full_cands = 1 .. n_hiers
         /\ full_cands \in Seq(Seq(Seq(Nat)))
         /\ \A ii \in 1 .. n_hiers :
              /\ IsTree(input.ms[ii]) /\ n_regs(input.ms[ii]) \in Nat \ {0}
              /\ input.lps[ii] \in [Pixels -> 1 .. n_leaves(input.ms[ii])]
              /\ Needed(ii) \in SUBSET (1 .. n_regs(input.ms[ii]))
              /\ \E b : PrunedTo(pruned[ii], input.lps[ii], input.ms[ii], Needed(ii), b)
<1>1. input \in Inputs /\ full_cands \in Seq(Seq(Seq(Nat)))
  BY DEF AllPruned, ListsInv
<1>2. n_hiers \in Nat \ {0} /\ \A ii \in 1 .. n_hiers :
        IsTree(input.ms[ii]) /\ input.lps[ii] \in [Pixels -> 1 .. n_leaves(input.ms[ii])]
  BY <1>1, InputIs DEF n_hiers
<1>3. DOMAIN pruned = 1 .. n_hiers /\ DOMAIN full_cands = 1 .. n_hiers
  BY <1>1 DEF AllPruned
<1>4. ASSUME NEW ii \in 1 .. n_hiers
      PROVE  /\ n_regs(input.ms[ii]) \in Nat \ {0}
             /\ Needed(ii) \in SUBSET (1 .. n_regs(input.ms[ii]))
             /\ \E b : PrunedTo(pruned[ii], input.lps[ii], input.ms[ii], Needed(ii), b)
  <2>1. n_regs(input.ms[ii]) \in Nat \ {0}
    BY <1>2, TreeSizes
  <2>2. ListsInv /\ Len(full_cands) = n_hiers /\ pruned[ii] = PrunedHere(ii)
    BY DEF AllPruned
  <2>3. Needed(ii) \in SUBSET (1 .. n_regs(input.ms[ii]))
    BY <2>2, NeededAre
  <2>4. \E b : PrunedTo(PrunedHere(ii), input.lps[ii], input.ms[ii], Needed(ii), b)
    BY <2>2, PrunedHereIs
  <2> QED BY <2>1, <2>2, <2>3, <2>4
<1> QED BY <1>1, <1>2, <1>3, <1>4

LEMMA RowsFound ==
  ASSUME AllPruned
  PROVE  AllFound
<1> SUFFICES ASSUME NEW ii \in 1 .. n_hiers, NEW x \in DOMAIN full_cands[ii],
                    NEW y \in DOMAIN full_cands[ii][x]
             PROVE  Cardinality({k \in DOMAIN pruned[ii].lut : pruned[ii].lut[k] = full_cands[ii][x][y]}) = 1
  BY DEF AllFound, Found
<1>1. PICK b : PrunedTo(pruned[ii], input.lps[ii], input.ms[ii], Needed(ii), b)
  BY PrunedSizes
<1> DEFINE v == full_cands[ii][x][y]
           news == pruned[ii].lut
<1>2. Lists(news, RegionsKept(input.ms[ii], Needed(ii)))
  BY <1>1 DEF PrunedTo
<1>3. v \in Needed(ii)
  <2>1. /\ DOMAIN full_cands[ii] = 1 .. Len(full_cands[ii])
        /\ \A z \in 1 .. Len(full_cands[ii]) :
             LET row == full_cands[ii][z] IN
             /\ DOMAIN row = 1 .. Len(row) /\ \A w \in 1 .. Len(row) : row[w] \in Needed(ii)
    BY NeededAre DEF AllPruned
  <2>2. x \in 1 .. Len(full_cands[ii])
    BY <2>1
  <2> QED BY <2>1, <2>2
<1>4. v \in RegionsKept(input.ms[ii], Needed(ii))
  BY <1>3, PrunedSizes, NeededAreKept
<1> HIDE DEF v, news
<1>5. \E k \in DOMAIN news : {q \in DOMAIN news : news[q] = v} = {k}
  <2>1. /\ DOMAIN news = 1 .. Len(news)
        /\ \A i, j \in 1 .. Len(news) : news[i] = news[j] => i = j
    BY <1>2 DEF Lists
  <2>2. PICK k \in DOMAIN news : news[k] = v
    BY <1>2, <1>4, <2>1 DEF Lists
  <2>3. {q \in DOMAIN news : news[q] = v} = {k}
    BY <2>1, <2>2
  <2> QED BY <2>2, <2>3
<1>6. Cardinality({k \in DOMAIN news : news[k] = v}) = 1
  BY <1>5, FS_Singleton
<1> QED BY <1>6 DEF v, news

\* Candidates are lost exactly when a hierarchy that has some is left bare.
LEMMA NoneLost ==
  ASSUME AllPruned, NEW offset
  PROVE  Len(FlattenSeq(full_cands)) = Len(new_cands(pruned, offset, full_cands)) <=> ~ BareRoot
<1> DEFINE N == n_hiers
           lists == [ii \in DOMAIN pruned |->
                       IF pruned[ii].ms = <<>> THEN <<>>
                       ELSE Relabelled(pruned[ii], offset[ii], full_cands[ii])]
           S == Seq(Nat) \cup UNION {Range(lists[ii]) : ii \in 1 .. N}
<1>1. /\ N \in Nat \ {0} /\ DOMAIN pruned = 1 .. N /\ DOMAIN full_cands = 1 .. N
      /\ full_cands \in Seq(Seq(Seq(Nat))) /\ Len(full_cands) = N
  BY PrunedSizes DEF AllPruned
<1>2. new_cands(pruned, offset, full_cands) = FlattenSeq(lists)
  BY DEF new_cands
<1>3. ASSUME NEW ii \in 1 .. N
      PROVE  /\ lists[ii] \in Seq(S) /\ Len(full_cands[ii]) \in Nat
             /\ Len(lists[ii]) = IF pruned[ii].ms = <<>> THEN 0 ELSE Len(full_cands[ii])
  <2> DEFINE rows == full_cands[ii]
             n == Len(rows)
             list == lists[ii]
  <2>1. rows \in Seq(Seq(Nat)) /\ n \in Nat /\ DOMAIN rows = 1 .. n
    BY <1>1
  <2>2. Range(list) \subseteq S
    OBVIOUS
  <2>3. list = IF pruned[ii].ms = <<>> THEN <<>> ELSE Relabelled(pruned[ii], offset[ii], rows)
    BY <1>1
  <2> HIDE DEF lists, S, rows, n, list
  <2>4. CASE pruned[ii].ms = <<>>
    <3>1. list = <<>>
      BY <2>3, <2>4
    <3>2. list \in Seq(S) /\ Len(list) = 0
      BY <3>1
    <3> QED BY <2>1, <2>4, <3>2 DEF rows, n, list
  <2>5. CASE pruned[ii].ms # <<>>
    <3>1. DOMAIN list = 1 .. n /\ list = [x \in 1 .. n |-> list[x]]
      BY <2>1, <2>3, <2>5 DEF Relabelled
    <3>2. \A x \in 1 .. n : list[x] \in S
      BY <2>2, <3>1 DEF Range
    <3>3. list \in [1 .. n -> S]
      BY <3>1, <3>2
    <3>4. list \in Seq(S)
      BY <2>1, <3>3
    <3>5. Len(list) = n
      BY <2>1, <3>1, <3>4
    <3> QED BY <2>1, <2>5, <3>4, <3>5 DEF rows, n, list
  <2> QED BY <2>4, <2>5
<1>4. lists \in Seq(Seq(S)) /\ Len(lists) = N
  <2>1. DOMAIN lists = 1 .. N /\ lists = [ii \in 1 .. N |-> lists[ii]]
    BY <1>1
  <2> HIDE DEF lists, S
  <2> DEFINE T == Seq(S)
  <2>2. lists \in [1 .. N -> T]
    BY <1>3, <2>1
  <2> HIDE DEF T
  <2>3. lists \in Seq(T)
    BY <1>1, <2>2
  <2>4. Len(lists) = N
    BY <1>1, <2>1, <2>3
  <2> QED BY <2>3, <2>4 DEF T
<1>5. full_cands \in Seq(Seq(S))
  <2>1. Seq(Nat) \subseteq S
    OBVIOUS
  <2> HIDE DEF S, lists
  <2> DEFINE U == Seq(Nat)
             T == Seq(S)
  <2>2. ASSUME NEW ii \in 1 .. Len(full_cands) PROVE full_cands[ii] \in T
    <3> DEFINE rows == full_cands[ii]
    <3>1. rows \in Seq(U)
      BY <1>1
    <3> HIDE DEF rows, U
    <3>2. \A x \in 1 .. Len(rows) : rows[x] \in S
      BY <2>1, <3>1 DEF U
    <3>3. rows \in Seq(S)
      BY <3>1, <3>2, ListIn
    <3> QED BY <3>3 DEF rows
  <2> HIDE DEF T
  <2>3. full_cands \in Seq(Seq(U))
    BY <1>1
  <2> HIDE DEF U
  <2>4. full_cands \in Seq(T)
    BY <2>2, <2>3, ListIn
  <2> QED BY <2>4 DEF T
<1>6. Len(FlattenSeq(lists)) = Len(FlattenSeq(full_cands))
        <=> \A ii \in 1 .. N : Len(lists[ii]) = Len(full_cands[ii])
  <2> HIDE DEF lists, S, N
  <2>1. \A k \in 1 .. Len(lists) : Len(lists[k]) <= Len(full_cands[k])
    BY <1>3, <1>4
  <2>2. Len(lists) = Len(full_cands)
    BY <1>1, <1>4
  <2>3. Len(FlattenSeq(lists)) = Len(FlattenSeq(full_cands))
          <=> \A k \in 1 .. Len(lists) : Len(lists[k]) = Len(full_cands[k])
    BY <1>4, <1>5, <2>1, <2>2, FlattenShorter
  <2> QED BY <1>4, <2>3
<1> HIDE DEF lists, S
<1>7. ASSUME NEW ii \in 1 .. N
      PROVE  Len(lists[ii]) # Len(full_cands[ii]) <=> Needed(ii) = {n_regs(input.ms[ii])}
  <2> DEFINE M == n_regs(input.ms[ii])
             h == pruned[ii]
  <2>1. PICK b : PrunedTo(h, input.lps[ii], input.ms[ii], Needed(ii), b)
    BY PrunedSizes
  <2>2. h.ms = <<>> <=> Needed(ii) \subseteq {M}
    BY <2>1 DEF PrunedTo
  <2>3. Needed(ii) = {} <=> full_cands[ii] = <<>>
    BY NeededAre DEF AllPruned
  <2>4. full_cands[ii] \in Seq(Seq(Nat))
    BY <1>1
  <2>5. full_cands[ii] = <<>> <=> Len(full_cands[ii]) = 0
    <3> DEFINE U == Seq(Nat)
               rows == full_cands[ii]
    <3>1. rows \in Seq(U)
      BY <2>4
    <3> HIDE DEF U, rows
    <3>2. rows = <<>> <=> Len(rows) = 0
      BY <3>1
    <3> QED BY <3>2 DEF rows
  <2>6. Len(lists[ii]) # Len(full_cands[ii]) <=> h.ms = <<>> /\ Len(full_cands[ii]) # 0
    BY <1>3
  <2> HIDE DEF M, h
  <2>7. Needed(ii) \subseteq {M} /\ Needed(ii) # {} <=> Needed(ii) = {M}
    OBVIOUS
  <2> QED BY <2>2, <2>3, <2>5, <2>6, <2>7 DEF M
<1>8. (\A ii \in 1 .. N : Len(lists[ii]) = Len(full_cands[ii])) <=> ~ BareRoot
  BY <1>7 DEF BareRoot
<1> QED BY <1>2, <1>6, <1>8

\* When none is left bare that has candidates, some hierarchy is left at all
\* exactly when any has candidates.
LEMMA SomeLeft ==
  ASSUME AllPruned, ~ BareRoot
  PROVE  (\E ii \in 1 .. n_hiers : pruned[ii].ms # <<>>) <=> ~ NoneWanted
<1>1. ASSUME NEW ii \in 1 .. n_hiers
      PROVE  pruned[ii].ms = <<>> <=> Needed(ii) = {}
  <2>1. PICK b : PrunedTo(pruned[ii], input.lps[ii], input.ms[ii], Needed(ii), b)
    BY PrunedSizes
  <2>2. pruned[ii].ms = <<>> <=> Needed(ii) \subseteq {n_regs(input.ms[ii])}
    BY <2>1 DEF PrunedTo
  <2>3. Needed(ii) # {n_regs(input.ms[ii])}
    BY DEF BareRoot
  <2> QED BY <2>2, <2>3
<1> QED BY <1>1 DEF NoneWanted

LEMMA StopStart ==
  ProposalsInit => StopInv
<1> SUFFICES ASSUME ProposalsInit PROVE StopInv
  OBVIOUS
<1>1. stage = "hierarchy"
  BY DEF ProposalsInit
<1> QED BY <1>1, PrunedStart DEF StopInv

LEMMA StopStep ==
  ASSUME StopInv, [ProposalsNext]_proposal_vars
  PROVE  StopInv'
<1>1. PrunedInv' /\ PrunedInv
  BY PrunedStep DEF StopInv
<1>2. CASE StartHierarchy \/ UndoLastMerging \/ StoreHierarchy
  <2>1. stage' \in {"hierarchy", "undo", "prune"}
    BY <1>2 DEF StartHierarchy, UndoLastMerging, StoreHierarchy
  <2> QED BY <1>1, <2>1 DEF StopInv
<1>3. CASE PruneHierarchy
  <2>1. stage' \in {"fuse", "prune"}
    BY <1>1, <1>3, PruneStep
  <2> QED BY <1>1, <2>1 DEF StopInv
<1>4. CASE Fuse
  <2>1. stage = "fuse" /\ input' = input /\ full_cands' = full_cands
    BY <1>4 DEF Fuse
  <2>2. (BareRoot' <=> BareRoot) /\ (NoneWanted' <=> NoneWanted)
    BY <2>1 DEF BareRoot, NoneWanted, n_hiers, Needed
  <2>3. AllPruned
    BY <1>1, <2>1 DEF PrunedInv, AllPruned, ListsInv
  <2> DEFINE parts == [ii \in 1 .. n_hiers |-> pruned[ii].lp]
             offset == OffsetOf(pruned, Len(inter_lut(parts)))
             same == Len(FlattenSeq(full_cands)) = Len(new_cands(pruned, offset, full_cands))
             some_left == \E ii \in 1 .. n_hiers : pruned[ii].ms # <<>>
  <2>4. stage' = IF AllFound /\ some_left /\ same THEN "fill" ELSE "error"
    BY <1>4 DEF Fuse
  <2> HIDE DEF parts
  <2> HIDE DEF offset
  <2>5. same <=> ~ BareRoot
    BY <2>3, NoneLost
  <2>6. ~ BareRoot => (some_left <=> ~ NoneWanted)
    BY <2>3, SomeLeft
  <2> HIDE DEF same, some_left
  <2>7. AllFound
    BY <2>3, RowsFound
  <2> QED BY <1>1, <2>2, <2>4, <2>5, <2>6, <2>7 DEF StopInv
<1>5. ASSUME input' = input, full_cands' = full_cands,
             stage \notin {"hierarchy", "undo", "prune", "fuse", "error"},
             stage' \notin {"hierarchy", "undo", "prune", "fuse", "error"}
      PROVE  StopInv'
  <2>1. (BareRoot' <=> BareRoot) /\ (NoneWanted' <=> NoneWanted)
    BY <1>5 DEF BareRoot, NoneWanted, n_hiers, Needed
  <2> QED BY <1>1, <1>5, <2>1 DEF StopInv
<1>6. CASE FillHoles
  BY <1>5, <1>6 DEF FillHoles
<1>7. CASE ComputeFeatures
  BY <1>5, <1>7 DEF ComputeFeatures
<1>8. CASE Reduce
  BY <1>5, <1>8 DEF Reduce
<1>9. CASE Score
  BY <1>5, <1>9 DEF Score
<1>10. CASE Rank
  BY <1>5, <1>10 DEF Rank
<1>11. CASE SelectNext
  BY <1>5, <1>11 DEF SelectNext
<1>12. CASE Return
  BY <1>5, <1>12 DEF Return
<1>13. CASE UNCHANGED proposal_vars
  <2>1. input' = input /\ full_cands' = full_cands /\ stage' = stage
    BY <1>13 DEF proposal_vars
  <2>2. (BareRoot' <=> BareRoot) /\ (NoneWanted' <=> NoneWanted)
    BY <2>1 DEF BareRoot, NoneWanted, n_hiers, Needed
  <2> QED BY <1>1, <2>1, <2>2 DEF StopInv
<1> QED BY <1>2, <1>3, <1>4, <1>6, <1>7, <1>8, <1>9, <1>10, <1>11, <1>12, <1>13 DEF ProposalsNext

\* im2mcg reaches neither "ERROR 2" nor "Oh oh", and its assertion that no
\* candidate was lost fails for the inputs that ask some hierarchy for so few
\* candidates that it needs its root and nothing else, or that ask none for
\* any, and only for those: the pruning keeps every region that a candidate
\* names.
THEOREM StopsAsStated ==
  ProposalsSpec => []StopsOnlyOnBareRoot
<1>1. ProposalsInit => StopInv
  BY StopStart
<1>2. StopInv /\ [ProposalsNext]_proposal_vars => StopInv'
  BY StopStep
<1>3. StopInv => StopsOnlyOnBareRoot
  BY DEF StopInv, StopsOnlyOnBareRoot, BareRoot, NoneWanted
<1> QED BY <1>1, <1>2, <1>3, PTL DEF ProposalsSpec


-----------------------------------------------------------------------------
(* Proposals: the fused hierarchy.                                         *)

\* The lists are joined one after the other.
Joins(F, lists, S) ==
  /\ F \in [0 .. Len(lists) -> Seq(S)] /\ F[0] = <<>> /\ F[Len(lists)] = FlattenSeq(lists)
  /\ \A k \in 1 .. Len(lists) : F[k] = F[k - 1] \o lists[k]

LEMMA FlattenJoins ==
  ASSUME NEW S, NEW lists \in Seq(Seq(S))
  PROVE  \E F : Joins(F, lists, S)
<1> DEFINE n == Len(lists)
           prefix(k) == [q \in 1 .. k |-> lists[q]]
           F == [k \in 0 .. n |-> FlattenSeq(prefix(k))]
<1>1. n \in Nat /\ lists = prefix(n)
  OBVIOUS
<1>2. ASSUME NEW k \in 0 .. n
      PROVE  /\ prefix(k) \in Seq(Seq(S)) /\ Len(prefix(k)) = k
             /\ \A q \in 1 .. k : prefix(k)[q] = lists[q] /\ lists[q] \in Seq(S)
  <2>1. \A q \in 1 .. k : lists[q] \in Seq(S)
    BY <1>1
  <2> DEFINE U == Seq(S)
             s == prefix(k)
  <2>2. k \in Nat /\ s \in [1 .. k -> U] /\ DOMAIN s = 1 .. k /\ \A q \in 1 .. k : s[q] = lists[q]
    BY <1>1, <2>1
  <2> HIDE DEF U, s
  <2>3. s \in Seq(U)
    BY <2>2
  <2>4. DOMAIN s = 1 .. Len(s) /\ Len(s) \in Nat
    BY <2>3
  <2>5. Len(s) = k
    BY <2>2, <2>4
  <2> QED BY <2>1, <2>2, <2>3, <2>5 DEF U, s
<1> HIDE DEF prefix
<1>3. \A k \in 0 .. n : FlattenSeq(prefix(k)) \in Seq(S)
  BY <1>2, FlattenType
<1>4. FlattenSeq(prefix(0)) = <<>>
  <2> DEFINE s == prefix(0)
             U == Seq(S)
  <2>1. 0 \in 0 .. n
    BY <1>1
  <2>2. s \in Seq(U) /\ Len(s) = 0
    BY <1>2, <2>1
  <2> HIDE DEF s, U
  <2>3. s = <<>> /\ FlattenSeq(s) = s
    BY <2>2, FlattenNone
  <2> QED BY <2>3 DEF s
<1>5. ASSUME NEW k \in 1 .. n
      PROVE  FlattenSeq(prefix(k)) = FlattenSeq(prefix(k - 1)) \o lists[k]
  <2>1. k \in 0 .. n /\ k - 1 \in 0 .. n /\ k \in 1 .. k /\ (k - 1) + 1 = k /\ 1 .. k - 1 \subseteq 1 .. k
    BY <1>1
  <2> DEFINE s == prefix(k - 1)
             t == prefix(k)
  <2>2. s \in Seq(Seq(S)) /\ Len(s) = k - 1 /\ \A q \in 1 .. k - 1 : s[q] = lists[q]
    BY <1>2, <2>1
  <2>3. t \in Seq(Seq(S)) /\ Len(t) = k /\ \A q \in 1 .. k : t[q] = lists[q]
    BY <1>2, <2>1
  <2> HIDE DEF s, t
  <2>4. Len(t) = Len(s) + 1 /\ \A q \in 1 .. Len(s) : t[q] = s[q]
    BY <2>1, <2>2, <2>3
  <2>5. FlattenSeq(t) = FlattenSeq(s) \o t[Len(t)]
    BY <2>2, <2>3, <2>4, FlattenStep
  <2> QED BY <2>1, <2>3, <2>5 DEF s, t
<1>6. F \in [0 .. n -> Seq(S)] /\ \A k \in 0 .. n : F[k] = FlattenSeq(prefix(k))
  BY <1>3
<1>7. 0 \in 0 .. n /\ n \in 0 .. n /\ \A k \in 1 .. n : k \in 0 .. n /\ k - 1 \in 0 .. n
  BY <1>1
<1> HIDE DEF F
<1>8. F[0] = <<>> /\ F[n] = FlattenSeq(lists) /\ \A k \in 1 .. n : F[k] = F[k - 1] \o lists[k]
  BY <1>1, <1>4, <1>5, <1>6, <1>7
<1> QED BY <1>6, <1>8 DEF Joins

\* What is joined from the first k lists has each of their elements at its place,
\* counted from the end of the lists before, and nothing else.
Start(w, i) == Total(w, 1 .. i - 1)
PlacedUpTo(flat, lists, w, k) ==
  /\ \A i \in 1 .. k : \A x \in 1 .. Len(lists[i]) :
       Start(w, i) + x \in 1 .. Len(flat) /\ flat[Start(w, i) + x] = lists[i][x]
  /\ \A q \in 1 .. Len(flat) : \E i \in 1 .. k : \E x \in 1 .. Len(lists[i]) : q = Start(w, i) + x
Placed(flat, lists, w) ==
  /\ \A i \in 1 .. Len(lists) : Start(w, i) \in Nat
  /\ PlacedUpTo(flat, lists, w, Len(lists))

LEMMA PlacedOneMore ==
  ASSUME NEW S, NEW lists, NEW w, NEW k \in Nat \ {0}, NEW u \in Seq(S), NEW v \in Seq(S), lists[k] = v,
         PlacedUpTo(u, lists, w, k - 1), Start(w, k) = Len(u)
  PROVE  PlacedUpTo(u \o v, lists, w, k)
<1> DEFINE t == u \o v
           a == Len(u)
<1>1. /\ a \in Nat /\ Len(v) \in Nat /\ Len(t) = a + Len(v)
      /\ \A q \in 1 .. a : t[q] = u[q]
      /\ \A x \in 1 .. Len(v) : t[a + x] = v[x]
  OBVIOUS
<1>2. /\ \A i \in 1 .. k - 1 : \A x \in 1 .. Len(lists[i]) :
           Start(w, i) + x \in 1 .. a /\ u[Start(w, i) + x] = lists[i][x]
      /\ \A q \in 1 .. a : \E i \in 1 .. k - 1 : \E x \in 1 .. Len(lists[i]) : q = Start(w, i) + x
  BY DEF PlacedUpTo
<1>3. \A i \in 1 .. k : i \in 1 .. k - 1 \/ i = k
  OBVIOUS
<1>4. k \in 1 .. k /\ 1 .. k - 1 \subseteq 1 .. k
  OBVIOUS
<1>5. Start(w, k) = a
  OBVIOUS
<1> HIDE DEF t, a
<1>6. ASSUME NEW i \in 1 .. k, NEW x \in 1 .. Len(lists[i])
      PROVE  Start(w, i) + x \in 1 .. Len(t) /\ t[Start(w, i) + x] = lists[i][x]
  <2>1. CASE i \in 1 .. k - 1
    <3> DEFINE q == Start(w, i) + x
    <3>1. q \in 1 .. a /\ u[q] = lists[i][x]
      BY <1>2, <2>1
    <3> HIDE DEF q
    <3>2. q \in 1 .. Len(t) /\ t[q] = u[q]
      BY <1>1, <3>1
    <3> QED BY <3>1, <3>2 DEF q
  <2>2. CASE i = k
    <3>1. Start(w, i) = a /\ lists[i] = v /\ x \in 1 .. Len(v)
      BY <1>5, <2>2
    <3>2. a + x \in 1 .. Len(t)
      BY <1>1, <3>1
    <3> QED BY <1>1, <3>1, <3>2
  <2> QED BY <1>3, <2>1, <2>2
<1>7. ASSUME NEW q \in 1 .. Len(t)
      PROVE  \E i \in 1 .. k : \E x \in 1 .. Len(lists[i]) : q = Start(w, i) + x
  <2>1. CASE q \in 1 .. a
    BY <1>2, <1>4, <2>1
  <2>2. CASE q \notin 1 .. a
    <3> DEFINE x == q - a
    <3>1. x \in 1 .. Len(v) /\ q = a + x
      BY <1>1, <2>2
    <3> HIDE DEF x
    <3> QED BY <1>4, <1>5, <3>1
  <2> QED BY <2>1, <2>2
<1> QED BY <1>6, <1>7 DEF PlacedUpTo, t

LEMMA FlattenPlaces ==
  ASSUME NEW S, NEW lists \in Seq(Seq(S)), NEW w, \A k \in 1 .. Len(lists) : w[k] = Len(lists[k])
  PROVE  Placed(FlattenSeq(lists), lists, w) /\ FlattenSeq(lists) \in Seq(S)
<1>1. PICK F : Joins(F, lists, S)
  BY FlattenJoins
<1> DEFINE n == Len(lists)
<1>2. /\ n \in Nat
      /\ \A k \in 1 .. n : lists[k] \in Seq(S) /\ w[k] = Len(lists[k]) /\ w[k] \in Nat
  OBVIOUS
<1>3. /\ F \in [0 .. n -> Seq(S)] /\ F[0] = <<>> /\ F[n] = FlattenSeq(lists)
      /\ \A k \in 1 .. n : F[k] = F[k - 1] \o lists[k]
  BY <1>1 DEF Joins
<1> HIDE DEF n
<1> DEFINE T == {k \in 0 .. n : /\ Len(F[k]) = Total(w, 1 .. k)
                                /\ PlacedUpTo(F[k], lists, w, k)}
<1>4. 0 \in T
  <2>1. 0 \in 0 .. n /\ 1 .. 0 = {}
    BY <1>2
  <2>2. Total(w, 1 .. 0) = 0
    BY <2>1, TotalEmpty
  <2>3. Len(F[0]) = 0
    BY <1>3
  <2>4. PlacedUpTo(F[0], lists, w, 0)
    BY <2>1, <2>3 DEF PlacedUpTo
  <2> QED BY <2>1, <2>2, <2>3, <2>4
<1>5. ASSUME NEW k \in 1 .. n, k - 1 \in T PROVE k \in T
  <2> DEFINE X == 1 .. k
             Y == 1 .. k - 1
             u == F[k - 1]
             v == lists[k]
  <2>1. k \in X /\ X \ {k} = Y /\ k \in 0 .. n /\ k - 1 \in 0 .. n /\ k \in Nat \ {0}
    BY <1>2
  <2>2. IsFiniteSet(X) /\ \A q \in X : w[q] \in Nat
    <3>1. IsFiniteSet(1 .. k)
      BY <1>2, FS_Interval
    <3> QED BY <1>2, <3>1
  <2>3. u \in Seq(S) /\ v \in Seq(S) /\ F[k] = u \o v /\ w[k] = Len(v)
    BY <1>2, <1>3, <2>1
  <2>4. Len(u) = Total(w, Y) /\ PlacedUpTo(u, lists, w, k - 1)
    BY <1>5
  <2>5. Start(w, k) = Len(u)
    BY <2>4 DEF Start
  <2>6. lists[k] = v
    OBVIOUS
  <2> HIDE DEF u, v
  <2>7. PlacedUpTo(u \o v, lists, w, k)
    BY <2>1, <2>3, <2>4, <2>5, <2>6, PlacedOneMore
  <2> HIDE DEF X, Y
  <2>8. Total(w, X) = w[k] + Total(w, X \ {k})
    BY <2>1, <2>2, TotalAny
  <2>9. Total(w, X) = Len(v) + Len(u)
    BY <2>1, <2>3, <2>4, <2>8
  <2>10. Len(u \o v) = Len(v) + Len(u)
    BY <2>3
  <2> QED BY <2>1, <2>3, <2>7, <2>9, <2>10 DEF X
<1>6. \A k \in 0 .. n : k \in T
  <2> HIDE DEF T
  <2> QED BY <1>2, <1>4, <1>5, Climb
<1>7. PlacedUpTo(F[n], lists, w, n)
  <2>1. n \in 0 .. n
    BY <1>2
  <2> QED BY <1>6, <2>1
<1>8. ASSUME NEW i \in 1 .. n PROVE Start(w, i) \in Nat
  <2>1. i - 1 \in 0 .. n
    BY <1>2
  <2>2. Len(F[i - 1]) = Total(w, 1 .. i - 1)
    BY <1>6, <2>1
  <2>3. F[i - 1] \in Seq(S)
    BY <1>3, <2>1
  <2> QED BY <2>2, <2>3 DEF Start
<1>9. FlattenSeq(lists) \in Seq(S)
  <2>1. n \in 0 .. n
    BY <1>2
  <2> QED BY <1>3, <2>1
<1> QED BY <1>3, <1>7, <1>8, <1>9 DEF Placed, n

Intersects(T, P, parts, N) ==
  /\ Len(T) \in Nat /\ DOMAIN T = 1 .. Len(T) /\ P \in [Pixels -> 1 .. Len(T)]
  /\ \A t \in 1 .. Len(T) : \E p \in Pixels : P[p] = t
  /\ \A p \in Pixels : \A ii \in 1 .. N : T[P[p]][ii] = parts[ii][p]

\* The regions of the intersection are the tuples of regions that some pixel is
\* in, each listed once.
LEMMA IntersectionIs ==
  ASSUME NEW N, NEW parts \in [1 .. N -> [Pixels -> Nat]]
  PROVE  Intersects(inter_lut(parts), int_part(parts), parts, N)
<1> DEFINE f == Ids(parts)
           T == inter_lut(parts)
           P == int_part(parts)
           B == [1 .. N -> Nat]
<1>1. f = [p \in Pixels |-> [ii \in 1 .. N |-> parts[ii][p]]]
  BY DEF Ids
<1>2. f \in [Pixels -> B]
  <2>1. \A p \in Pixels : f[p] \in B
    BY <1>1
  <2> HIDE DEF B
  <2> QED BY <1>1, <2>1
<1>3. \A p \in Pixels : \A ii \in 1 .. N : f[p][ii] = parts[ii][p]
  BY <1>1
<1>4. T = FirstSeen(f) /\ P = [p \in Pixels |-> Position(T, f[p])]
  BY DEF inter_lut, int_part
<1> HIDE DEF f, T, P, B
<1>5. Lists(T, Range(f))
  BY <1>2, <1>4, FirstSeenLists
<1>6. /\ Len(T) \in Nat /\ DOMAIN T = 1 .. Len(T)
      /\ \A v \in Range(f) : Position(T, v) \in 1 .. Len(T) /\ T[Position(T, v)] = v
      /\ \A k \in 1 .. Len(T) : T[k] \in Range(f) /\ Position(T, T[k]) = k
  BY <1>5, PositionIs
<1>7. \A p \in Pixels : f[p] \in Range(f) /\ P[p] = Position(T, f[p])
  BY <1>2, <1>4 DEF Range
<1>8. P \in [Pixels -> 1 .. Len(T)]
  BY <1>4, <1>6, <1>7
<1>9. ASSUME NEW t \in 1 .. Len(T) PROVE \E p \in Pixels : P[p] = t
  <2>1. PICK p \in Pixels : T[t] = f[p]
    BY <1>2, <1>6 DEF Range
  <2> QED BY <1>6, <1>7, <2>1
<1>10. \A p \in Pixels : \A ii \in 1 .. N : T[P[p]][ii] = parts[ii][p]
  BY <1>3, <1>6, <1>7
<1>11. Intersects(T, P, parts, N)
  BY <1>6, <1>8, <1>9, <1>10 DEF Intersects
<1> QED BY <1>11 DEF T, P

-----------------------------------------------------------------------------
(* fuse_bpts: hierarchies of b leaves each, on the same image.             *)

Fusable(h, b) ==
  /\ b \in Nat \ {0} /\ h.lp \in [Pixels -> 1 .. b] /\ Range(h.lp) = 1 .. b
  /\ h.ms \in Mergings
  /\ \A j \in 1 .. Len(h.ms) :
       h.ms[j].parent = b + j /\ h.ms[j].sons # {} /\ h.ms[j].sons \subseteq 1 .. (b + j) - 1
AllFusable(hs, bs) ==
  /\ Len(hs) \in Nat /\ DOMAIN hs = 1 .. Len(hs) /\ hs \in Seq(Range(hs))
  /\ \A ii \in 1 .. Len(hs) : Fusable(hs[ii], bs[ii])

PartsOf(hs) == [ii \in DOMAIN hs |-> hs[ii].lp]
TableOf(hs) == inter_lut(PartsOf(hs))
Starts(hs) == OffsetOf(hs, Len(TableOf(hs)))
SizesOf(hs) == [ii \in DOMAIN hs |-> IF hs[ii].ms = <<>> THEN 0 ELSE n_pruned(hs[ii])]
StackOf(hs, ii) ==
  IF hs[ii].ms = <<>> THEN <<>>
  ELSE ArtificialMergings(TableOf(hs), ii, n_leaves(hs[ii].ms), Starts(hs)[ii])
         \o ShiftedMergings(hs[ii].ms, Starts(hs)[ii])
StacksOf(hs) == [ii \in DOMAIN hs |-> StackOf(hs, ii)]

LEMMA FusedIsJoined ==
  ASSUME NEW hs
  PROVE  fuse_bpts(hs) = FlattenSeq(StacksOf(hs))
BY DEF fuse_bpts, StacksOf, StackOf, Starts, TableOf, PartsOf

LEMMA FusableIsHierarchy ==
  ASSUME NEW h, NEW b, Fusable(h, b)
  PROVE  /\ Len(h.ms) \in Nat /\ DOMAIN h.ms = 1 .. Len(h.ms)
         /\ h.ms # <<>> => /\ IsHierarchy(h.ms) /\ n_leaves(h.ms) = b /\ n_regs(h.ms) = b + Len(h.ms)
                           /\ Len(h.ms) # 0
<1> DEFINE m == h.ms
<1>1. /\ b \in Nat \ {0} /\ m \in Seq([sons : SUBSET Nat, parent : Nat])
      /\ \A j \in 1 .. Len(m) : m[j].parent = b + j /\ m[j].sons # {} /\ m[j].sons \subseteq 1 .. (b + j) - 1
  BY DEF Fusable, Mergings
<1> HIDE DEF m
<1>2. Len(m) \in Nat /\ DOMAIN m = 1 .. Len(m)
  BY <1>1
<1>3. ASSUME m # <<>>
      PROVE  IsHierarchy(m) /\ n_leaves(m) = b /\ n_regs(m) = b + Len(m) /\ Len(m) # 0
  <2>1. 1 \in 1 .. Len(m) /\ Len(m) # 0
    BY <1>1, <1>2, <1>3
  <2>2. m[1].parent = b + 1
    BY <1>1, <2>1
  <2>3. n_leaves(m) = b
    BY <1>1, <2>2 DEF n_leaves
  <2>4. IsHierarchy(m)
    BY <1>1, <1>2, <1>3, <2>3 DEF IsHierarchy
  <2> QED BY <2>1, <2>3, <2>4 DEF n_regs
<1> QED BY <1>2, <1>3 DEF m

LEMMA FusableTable ==
  ASSUME NEW hs, NEW bs, AllFusable(hs, bs)
  PROVE  /\ Len(TableOf(hs)) \in Nat /\ DOMAIN TableOf(hs) = 1 .. Len(TableOf(hs))
         /\ int_part(PartsOf(hs)) \in [Pixels -> 1 .. Len(TableOf(hs))]
         /\ \A t \in 1 .. Len(TableOf(hs)) : \E p \in Pixels : int_part(PartsOf(hs))[p] = t
         /\ \A p \in Pixels : \A ii \in 1 .. Len(hs) :
              TableOf(hs)[int_part(PartsOf(hs))[p]][ii] = hs[ii].lp[p]
<1> DEFINE N == Len(hs)
           parts == PartsOf(hs)
           F == [Pixels -> Nat]
<1>1. DOMAIN hs = 1 .. N /\ \A ii \in 1 .. N : hs[ii].lp \in F
  <2>1. ASSUME NEW ii \in 1 .. N PROVE hs[ii].lp \in F
    <3>1. bs[ii] \in Nat \ {0} /\ hs[ii].lp \in [Pixels -> 1 .. bs[ii]]
      BY DEF AllFusable, Fusable
    <3> QED BY <3>1
  <2> QED BY <2>1 DEF AllFusable
<1> HIDE DEF F
<1>2. parts \in [1 .. N -> F] /\ \A ii \in 1 .. N : parts[ii] = hs[ii].lp
  BY <1>1 DEF PartsOf
<1> HIDE DEF parts, N
<1> DEFINE T == inter_lut(parts)
           P == int_part(parts)
<1>3. parts \in [1 .. N -> [Pixels -> Nat]]
  BY <1>2 DEF F
<1>4. /\ Len(T) \in Nat /\ DOMAIN T = 1 .. Len(T) /\ P \in [Pixels -> 1 .. Len(T)]
      /\ \A t \in 1 .. Len(T) : \E p \in Pixels : P[p] = t
      /\ \A p \in Pixels : \A ii \in 1 .. N : T[P[p]][ii] = parts[ii][p]
  <2>1. Intersects(inter_lut(parts), int_part(parts), parts, N)
    BY <1>3, IntersectionIs
  <2> QED BY <2>1 DEF Intersects
<1>5. \A p \in Pixels : \A ii \in 1 .. N : T[P[p]][ii] = hs[ii].lp[p]
  BY <1>2, <1>4
<1>6. TableOf(hs) = T /\ int_part(PartsOf(hs)) = P
  BY DEF TableOf, parts
<1> HIDE DEF T, P
<1> QED BY <1>4, <1>5, <1>6 DEF N

LEMMA FusableOffsets ==
  ASSUME NEW hs, NEW bs, AllFusable(hs, bs), NEW ii \in 1 .. Len(hs)
  PROVE  /\ Starts(hs)[ii] = Len(TableOf(hs)) + Start(SizesOf(hs), ii)
         /\ Start(SizesOf(hs), ii) \in Nat /\ Starts(hs)[ii] \in Nat
         /\ SizesOf(hs)[ii] \in Nat
         /\ SizesOf(hs)[ii] = IF hs[ii].ms = <<>> THEN 0 ELSE bs[ii] + Len(hs[ii].ms)
<1> DEFINE w == SizesOf(hs)
           H == Range(hs)
           K == Len(TableOf(hs))
<1>1. Len(hs) \in Nat /\ DOMAIN hs = 1 .. Len(hs) /\ hs \in Seq(H)
  BY DEF AllFusable
<1>2. ASSUME NEW k \in 1 .. Len(hs)
      PROVE  /\ w[k] \in Nat
             /\ w[k] = IF hs[k].ms = <<>> THEN 0 ELSE n_pruned(hs[k])
             /\ w[k] = IF hs[k].ms = <<>> THEN 0 ELSE bs[k] + Len(hs[k].ms)
  <2> DEFINE h == hs[k]
             b == bs[k]
  <2>1. Fusable(h, b)
    BY DEF AllFusable
  <2>2. w[k] = IF h.ms = <<>> THEN 0 ELSE n_pruned(h)
    BY <1>1 DEF SizesOf
  <2> HIDE DEF h, b, w
  <2>3. /\ Len(h.ms) \in Nat /\ b \in Nat
        /\ h.ms # <<>> => n_regs(h.ms) = b + Len(h.ms)
    BY <2>1, FusableIsHierarchy DEF Fusable
  <2>4. n_pruned(h) = n_regs(h.ms)
    BY DEF n_pruned
  <2>5. w[k] = IF h.ms = <<>> THEN 0 ELSE b + Len(h.ms)
    BY <2>2, <2>3, <2>4
  <2>6. w[k] \in Nat
    BY <2>3, <2>5
  <2> QED BY <2>2, <2>5, <2>6 DEF h, b
<1>3. K \in Nat
  BY FusableTable
<1> HIDE DEF w, H, K
<1>4. OffsetOf(hs, K)[ii] = K + Total(w, 1 .. ii - 1) /\ Total(w, 1 .. ii - 1) \in Nat
  BY <1>1, <1>2, <1>3, OffsetsAre
<1>5. Starts(hs)[ii] = K + Start(w, ii) /\ Start(w, ii) \in Nat
  BY <1>4 DEF Starts, Start, K
<1> QED BY <1>2, <1>3, <1>5 DEF w, K

\* The mergings of one hierarchy, numbered on from the offset: b that make its
\* leaves out of regions of the intersection, and then its own.
Stacked(s, h, b, ii, T, offset) ==
  /\ s \in Mergings /\ Len(s) = b + Len(h.ms)
  /\ \A x \in 1 .. Len(s) :
       s[x].parent = offset + x /\ s[x].sons # {} /\ s[x].sons \subseteq 1 .. (offset + x) - 1
  /\ \A x \in 1 .. b : s[x].sons = {t \in 1 .. Len(T) : T[t][ii] = x}
  /\ \A j \in 1 .. Len(h.ms) : s[b + j].sons = {y + offset : y \in h.ms[j].sons}

LEMMA StackIs ==
  ASSUME NEW h, NEW b, Fusable(h, b), h.ms # <<>>, NEW ii, NEW T, NEW P, NEW offset \in Nat,
         Len(T) \in Nat, DOMAIN T = 1 .. Len(T), offset >= Len(T),
         P \in [Pixels -> 1 .. Len(T)],
         \A p \in Pixels : T[P[p]][ii] = h.lp[p]
  PROVE  Stacked(ArtificialMergings(T, ii, n_leaves(h.ms), offset) \o ShiftedMergings(h.ms, offset),
                 h, b, ii, T, offset)
<1> DEFINE m == h.ms
           K == Len(T)
           art == ArtificialMergings(T, ii, b, offset)
           own == ShiftedMergings(m, offset)
           E == [sons : SUBSET Nat, parent : Nat]
<1>1. /\ b \in Nat \ {0} /\ h.lp \in [Pixels -> 1 .. b] /\ Range(h.lp) = 1 .. b
      /\ \A j \in 1 .. Len(m) : m[j].parent = b + j /\ m[j].sons # {} /\ m[j].sons \subseteq 1 .. (b + j) - 1
  BY DEF Fusable
<1>2. Len(m) \in Nat /\ DOMAIN m = 1 .. Len(m) /\ n_leaves(m) = b
  BY FusableIsHierarchy
<1> HIDE DEF m
<1>3. art = [x \in 1 .. b |-> [sons |-> {t \in 1 .. K : T[t][ii] = x}, parent |-> x + offset]]
  BY DEF ArtificialMergings
<1>4. own = [j \in 1 .. Len(m) |-> [sons |-> {y + offset : y \in m[j].sons}, parent |-> m[j].parent + offset]]
  BY <1>2 DEF ShiftedMergings
<1>5. ArtificialMergings(T, ii, n_leaves(m), offset) = art
  BY <1>2
<1>6. K \in Nat /\ offset >= K
  OBVIOUS
<1> HIDE DEF K, art, own
<1>7. ASSUME NEW x \in 1 .. b
      PROVE  /\ art[x].parent = offset + x /\ art[x].sons = {t \in 1 .. K : T[t][ii] = x}
             /\ art[x].sons # {} /\ art[x].sons \subseteq 1 .. (offset + x) - 1
             /\ art[x] \in E
  <2> DEFINE S == {t \in 1 .. K : T[t][ii] = x}
  <2>1. art[x] = [sons |-> S, parent |-> x + offset]
    BY <1>3
  <2>2. S # {}
    <3>1. PICK p \in Pixels : h.lp[p] = x
      BY <1>1 DEF Range
    <3>2. P[p] \in 1 .. K /\ T[P[p]][ii] = x
      BY <3>1 DEF K
    <3> QED BY <3>2
  <2>3. \A t \in 1 .. K : t \in Nat /\ t \in 1 .. (offset + x) - 1
    BY <1>1, <1>6
  <2>4. S \subseteq 1 .. (offset + x) - 1 /\ S \in SUBSET Nat
    BY <2>3
  <2>5. x + offset = offset + x /\ x + offset \in Nat
    BY <1>1
  <2>6. art[x].sons = S /\ art[x].parent = offset + x
    BY <2>1, <2>5
  <2> HIDE DEF S
  <2>7. art[x] \in E
    BY <2>1, <2>4, <2>5
  <2> QED BY <2>2, <2>4, <2>6, <2>7 DEF S
<1>8. ASSUME NEW j \in 1 .. Len(m)
      PROVE  /\ own[j].parent = offset + (b + j) /\ own[j].sons = {y + offset : y \in m[j].sons}
             /\ own[j].sons # {} /\ own[j].sons \subseteq 1 .. (offset + (b + j)) - 1
             /\ own[j] \in E
  <2> DEFINE S == {y + offset : y \in m[j].sons}
  <2>1. own[j] = [sons |-> S, parent |-> m[j].parent + offset]
    BY <1>4
  <2>2. m[j].parent = b + j /\ m[j].sons # {} /\ m[j].sons \subseteq 1 .. (b + j) - 1
    BY <1>1
  <2>3. S # {}
    BY <2>2
  <2>4. \A y \in m[j].sons : y + offset \in 1 .. (offset + (b + j)) - 1 /\ y + offset \in Nat
    <3> TAKE y \in m[j].sons
    <3>1. y \in 1 .. (b + j) - 1
      BY <2>2
    <3> QED BY <1>1, <1>2, <3>1
  <2>5. S \subseteq 1 .. (offset + (b + j)) - 1 /\ S \in SUBSET Nat
    BY <2>4
  <2>6. m[j].parent + offset = offset + (b + j) /\ m[j].parent + offset \in Nat
    BY <1>1, <1>2, <2>2
  <2>7. own[j].sons = S /\ own[j].parent = offset + (b + j)
    BY <2>1, <2>6
  <2> HIDE DEF S
  <2>8. own[j] \in E
    BY <2>1, <2>5, <2>6
  <2> QED BY <2>3, <2>5, <2>7, <2>8 DEF S
<1> HIDE DEF E
<1>9. DOMAIN art = 1 .. b /\ art \in [1 .. b -> E] /\ DOMAIN own = 1 .. Len(m) /\ own \in [1 .. Len(m) -> E]
  <2>1. DOMAIN art = 1 .. b /\ DOMAIN own = 1 .. Len(m) /\ art = [x \in 1 .. b |-> art[x]]
        /\ own = [x \in 1 .. Len(m) |-> own[x]]
    BY <1>3, <1>4
  <2> QED BY <1>7, <1>8, <2>1
<1>10. art \in Seq(E) /\ own \in Seq(E)
  <2> DEFINE M == Len(m)
  <2>1. M \in Nat /\ own \in [1 .. M -> E]
    BY <1>2, <1>9
  <2> HIDE DEF M
  <2>2. own \in Seq(E)
    BY <2>1
  <2>3. art \in Seq(E)
    BY <1>1, <1>9
  <2> QED BY <2>2, <2>3
<1>11. Len(art) = b /\ Len(own) = Len(m)
  BY <1>1, <1>2, <1>9, <1>10
<1> DEFINE s == art \o own
<1>12. /\ s \in Seq(E) /\ Len(s) = b + Len(m)
       /\ \A x \in 1 .. b : s[x] = art[x]
       /\ \A j \in 1 .. Len(m) : s[b + j] = own[j]
  <2>1. /\ s \in Seq(E) /\ Len(s) = Len(art) + Len(own)
        /\ \A x \in 1 .. Len(art) : s[x] = art[x]
        /\ \A j \in 1 .. Len(own) : s[Len(art) + j] = own[j]
    BY <1>10
  <2> QED BY <1>11, <2>1
<1> HIDE DEF s
<1>13. ASSUME NEW x \in 1 .. Len(s)
       PROVE  s[x].parent = offset + x /\ s[x].sons # {} /\ s[x].sons \subseteq 1 .. (offset + x) - 1
  <2>1. CASE x \in 1 .. b
    BY <1>7, <1>12, <2>1
  <2>2. CASE x \notin 1 .. b
    <3> DEFINE j == x - b
    <3>1. j \in 1 .. Len(m) /\ x = b + j
      BY <1>1, <1>2, <1>12, <2>2
    <3> HIDE DEF j
    <3>2. s[x] = own[j]
      BY <1>12, <3>1
    <3> QED BY <1>8, <3>1, <3>2
  <2> QED BY <2>1, <2>2
<1>14. /\ \A x \in 1 .. b : s[x].sons = {t \in 1 .. K : T[t][ii] = x}
       /\ \A j \in 1 .. Len(m) : s[b + j].sons = {y + offset : y \in m[j].sons}
  BY <1>7, <1>8, <1>12
<1>15. s \in Mergings
  BY <1>12 DEF Mergings, E
<1>16. Stacked(s, h, b, ii, T, offset)
  BY <1>12, <1>13, <1>14, <1>15 DEF Stacked, m, K
<1> QED BY <1>5, <1>16 DEF s, own, m

LEMMA StacksAre ==
  ASSUME NEW hs, NEW bs, AllFusable(hs, bs)
  PROVE  /\ StacksOf(hs) \in Seq(Mergings) /\ Len(StacksOf(hs)) = Len(hs)
         /\ \A ii \in 1 .. Len(hs) :
              /\ SizesOf(hs)[ii] = Len(StacksOf(hs)[ii])
              /\ hs[ii].ms = <<>> => Len(StacksOf(hs)[ii]) = 0
              /\ hs[ii].ms # <<>> =>
                   Stacked(StacksOf(hs)[ii], hs[ii], bs[ii], ii, TableOf(hs), Starts(hs)[ii])
<1> DEFINE N == Len(hs)
           lists == StacksOf(hs)
           T == TableOf(hs)
           P == int_part(PartsOf(hs))
<1>1. N \in Nat /\ DOMAIN hs = 1 .. N /\ \A ii \in 1 .. N : Fusable(hs[ii], bs[ii])
  BY DEF AllFusable
<1>2. DOMAIN lists = 1 .. N /\ \A ii \in 1 .. N : lists[ii] = StackOf(hs, ii)
  BY <1>1 DEF StacksOf
<1>3. lists = [ii \in 1 .. N |-> lists[ii]]
  BY <1>1 DEF StacksOf
<1>4. /\ Len(T) \in Nat /\ DOMAIN T = 1 .. Len(T) /\ P \in [Pixels -> 1 .. Len(T)]
      /\ \A ii \in 1 .. N : \A p \in Pixels : T[P[p]][ii] = hs[ii].lp[p]
  BY FusableTable
<1> HIDE DEF N, lists, P
<1>5. ASSUME NEW ii \in 1 .. N
      PROVE  /\ lists[ii] \in Mergings /\ SizesOf(hs)[ii] = Len(lists[ii])
             /\ hs[ii].ms = <<>> => Len(lists[ii]) = 0
             /\ hs[ii].ms # <<>> => Stacked(lists[ii], hs[ii], bs[ii], ii, T, Starts(hs)[ii])
  <2> DEFINE h == hs[ii]
             b == bs[ii]
             offset == Starts(hs)[ii]
  <2>1. /\ offset = Len(T) + Start(SizesOf(hs), ii) /\ Start(SizesOf(hs), ii) \in Nat
        /\ SizesOf(hs)[ii] = IF h.ms = <<>> THEN 0 ELSE b + Len(h.ms)
    BY FusableOffsets DEF N
  <2>2. offset \in Nat /\ offset >= Len(T)
    BY <1>4, <2>1
  <2>3. lists[ii] = IF h.ms = <<>> THEN <<>>
                    ELSE ArtificialMergings(T, ii, n_leaves(h.ms), offset) \o ShiftedMergings(h.ms, offset)
    BY <1>2 DEF StackOf
  <2>4. Fusable(h, b) /\ \A p \in Pixels : T[P[p]][ii] = h.lp[p]
    BY <1>1, <1>4
  <2> HIDE DEF h, b, offset, T
  <2>5. CASE h.ms = <<>>
    <3>1. lists[ii] = <<>>
      BY <2>3, <2>5
    <3>2. lists[ii] \in Mergings /\ Len(lists[ii]) = 0
      BY <3>1 DEF Mergings
    <3> QED BY <2>1, <2>5, <3>2 DEF h
  <2>6. CASE h.ms # <<>>
    <3> DEFINE s == ArtificialMergings(T, ii, n_leaves(h.ms), offset) \o ShiftedMergings(h.ms, offset)
    <3>1. Stacked(s, h, b, ii, T, offset)
      BY <1>4, <2>2, <2>4, <2>6, StackIs
    <3>2. lists[ii] = s
      BY <2>3, <2>6
    <3> HIDE DEF s
    <3>3. s \in Mergings /\ Len(s) = b + Len(h.ms)
      BY <3>1 DEF Stacked
    <3> QED BY <2>1, <2>6, <3>1, <3>2, <3>3 DEF h, b, offset
  <2> QED BY <2>5, <2>6
<1>6. lists \in [1 .. N -> Mergings]
  BY <1>3, <1>5
<1> DEFINE U == Mergings
<1>7. lists \in [1 .. N -> U]
  BY <1>6
<1> HIDE DEF U
<1>8. lists \in Seq(U)
  BY <1>1, <1>7
<1>9. Len(lists) = N
  BY <1>1, <1>2, <1>8
<1> QED BY <1>5, <1>8, <1>9 DEF N, lists, U, T

\* The hierarchies stacked on the intersection, as one hierarchy with the
\* mergings of each at their places.
LEMMA FusedPlaces ==
  ASSUME NEW hs, NEW bs, AllFusable(hs, bs)
  PROVE  fuse_bpts(hs) \in Mergings /\ Placed(fuse_bpts(hs), StacksOf(hs), SizesOf(hs))
<1> DEFINE lists == StacksOf(hs)
           w == SizesOf(hs)
           E == [sons : SUBSET Nat, parent : Nat]
<1>1. lists \in Seq(Seq(E)) /\ \A k \in 1 .. Len(lists) : w[k] = Len(lists[k])
  BY StacksAre DEF Mergings
<1>2. fuse_bpts(hs) = FlattenSeq(lists)
  BY FusedIsJoined
<1> HIDE DEF lists, w, E
<1>3. Placed(FlattenSeq(lists), lists, w) /\ FlattenSeq(lists) \in Seq(E)
  BY <1>1, FlattenPlaces
<1> QED BY <1>2, <1>3 DEF lists, w, E, Mergings

LEMMA FusedMergings ==
  ASSUME NEW hs, NEW bs, AllFusable(hs, bs)
  PROVE  /\ Len(fuse_bpts(hs)) \in Nat
         /\ \A q \in 1 .. Len(fuse_bpts(hs)) :
              /\ fuse_bpts(hs)[q].parent = Len(TableOf(hs)) + q
              /\ fuse_bpts(hs)[q].sons # {}
              /\ fuse_bpts(hs)[q].sons \subseteq 1 .. (Len(TableOf(hs)) + q) - 1
         /\ \A ii \in 1 .. Len(hs) : hs[ii].ms # <<>> =>
              \A x \in 1 .. SizesOf(hs)[ii] :
                LET q == Start(SizesOf(hs), ii) + x IN
                /\ q \in 1 .. Len(fuse_bpts(hs)) /\ Starts(hs)[ii] + x = Len(TableOf(hs)) + q
                /\ fuse_bpts(hs)[q].sons = StacksOf(hs)[ii][x].sons
<1> DEFINE f == fuse_bpts(hs)
           lists == StacksOf(hs)
           w == SizesOf(hs)
           K == Len(TableOf(hs))
           N == Len(hs)
<1>1. f \in Mergings /\ Placed(f, lists, w)
  BY FusedPlaces
<1>2. K \in Nat
  BY FusableTable
<1>3. /\ Len(lists) = N
      /\ \A ii \in 1 .. N :
           /\ w[ii] = Len(lists[ii])
           /\ hs[ii].ms = <<>> => Len(lists[ii]) = 0
           /\ hs[ii].ms # <<>> => Stacked(lists[ii], hs[ii], bs[ii], ii, TableOf(hs), Starts(hs)[ii])
  BY StacksAre
<1>4. \A ii \in 1 .. N : Starts(hs)[ii] = K + Start(w, ii) /\ Start(w, ii) \in Nat /\ w[ii] \in Nat
  BY FusableOffsets
<1> HIDE DEF f, lists, w, K, N
<1>5. Len(f) \in Nat
  BY <1>1 DEF Mergings
<1>6. /\ \A ii \in 1 .. N : \A x \in 1 .. Len(lists[ii]) :
           Start(w, ii) + x \in 1 .. Len(f) /\ f[Start(w, ii) + x] = lists[ii][x]
      /\ \A q \in 1 .. Len(f) : \E ii \in 1 .. N : \E x \in 1 .. Len(lists[ii]) : q = Start(w, ii) + x
  BY <1>1, <1>3 DEF Placed, PlacedUpTo
<1>7. ASSUME NEW q \in 1 .. Len(f)
      PROVE  f[q].parent = K + q /\ f[q].sons # {} /\ f[q].sons \subseteq 1 .. (K + q) - 1
  <2>1. PICK ii \in 1 .. N : \E x \in 1 .. Len(lists[ii]) : q = Start(w, ii) + x
    BY <1>6
  <2>2. PICK x \in 1 .. Len(lists[ii]) : q = Start(w, ii) + x
    BY <2>1
  <2> DEFINE s == lists[ii]
             offset == Starts(hs)[ii]
  <2>3. f[q] = s[x]
    BY <1>6, <2>2
  <2>4. w[ii] = Len(s) /\ w[ii] \in Nat /\ x \in 1 .. Len(s)
    BY <1>3, <1>4
  <2>5. hs[ii].ms # <<>>
    <3>1. hs[ii].ms = <<>> => Len(s) = 0
      BY <1>3
    <3> QED BY <2>4, <3>1
  <2>6. Stacked(s, hs[ii], bs[ii], ii, TableOf(hs), offset)
    BY <1>3, <2>5
  <2>7. offset = K + Start(w, ii) /\ Start(w, ii) \in Nat
    BY <1>4
  <2> HIDE DEF s, offset
  <2>8. s[x].parent = offset + x /\ s[x].sons # {} /\ s[x].sons \subseteq 1 .. (offset + x) - 1
    BY <2>4, <2>6 DEF Stacked
  <2>9. offset + x = K + q
    <3>1. x \in Nat
      BY <2>4
    <3> QED BY <1>2, <2>2, <2>7, <3>1
  <2> QED BY <2>3, <2>8, <2>9
<1>8. ASSUME NEW ii \in 1 .. N, hs[ii].ms # <<>>, NEW x \in 1 .. w[ii]
      PROVE  /\ Start(w, ii) + x \in 1 .. Len(f)
             /\ Starts(hs)[ii] + x = K + (Start(w, ii) + x)
             /\ f[Start(w, ii) + x].sons = lists[ii][x].sons
  <2>1. x \in 1 .. Len(lists[ii])
    BY <1>3, <1>8
  <2>2. Start(w, ii) + x \in 1 .. Len(f) /\ f[Start(w, ii) + x] = lists[ii][x]
    BY <1>6, <2>1
  <2>3. Starts(hs)[ii] = K + Start(w, ii) /\ Start(w, ii) \in Nat /\ w[ii] \in Nat
    BY <1>4
  <2>4. Starts(hs)[ii] + x = K + (Start(w, ii) + x)
    <3> DEFINE a == Starts(hs)[ii]
               c == Start(w, ii)
    <3>1. a = K + c /\ c \in Nat /\ x \in Nat
      BY <2>3
    <3> HIDE DEF a, c
    <3>2. a + x = K + (c + x)
      BY <1>2, <3>1
    <3> QED BY <3>2 DEF a, c
  <2> QED BY <2>2, <2>4
<1> QED BY <1>5, <1>7, <1>8 DEF f, lists, w, K, N

LEMMA FusedIsHierarchy ==
  ASSUME NEW hs, NEW bs, AllFusable(hs, bs), NEW ii \in 1 .. Len(hs), hs[ii].ms # <<>>
  PROVE  /\ IsHierarchy(fuse_bpts(hs)) /\ n_leaves(fuse_bpts(hs)) = Len(TableOf(hs))
         /\ n_regs(fuse_bpts(hs)) = Len(TableOf(hs)) + Len(fuse_bpts(hs))
<1> DEFINE f == fuse_bpts(hs)
           K == Len(TableOf(hs))
<1>1. /\ Len(f) \in Nat
      /\ \A q \in 1 .. Len(f) : f[q].parent = K + q /\ f[q].sons # {} /\ f[q].sons \subseteq 1 .. (K + q) - 1
      /\ \A x \in 1 .. SizesOf(hs)[ii] : Start(SizesOf(hs), ii) + x \in 1 .. Len(f)
  BY FusedMergings
<1>2. f \in Mergings
  BY FusedPlaces
<1>3. Fusable(hs[ii], bs[ii])
  BY DEF AllFusable
<1>4. Len(f) # 0
  <2> DEFINE b == bs[ii]
             m == Len(hs[ii].ms)
             z == SizesOf(hs)[ii]
  <2>1. z = b + m
    BY FusableOffsets
  <2>2. b \in Nat \ {0} /\ m \in Nat
    BY <1>3, FusableIsHierarchy DEF Fusable
  <2>3. \A x \in 1 .. z : Start(SizesOf(hs), ii) + x \in 1 .. Len(f)
    BY <1>1
  <2> HIDE DEF b, m, z, f
  <2>4. 1 \in 1 .. z
    BY <2>1, <2>2
  <2>5. Start(SizesOf(hs), ii) + 1 \in 1 .. Len(f)
    BY <2>3, <2>4
  <2> QED BY <2>5
<1>5. K \in Nat \ {0}
  <2>1. /\ K \in Nat /\ int_part(PartsOf(hs)) \in [Pixels -> 1 .. K]
    BY FusableTable
  <2>2. Pixels # {}
    <3>1. bs[ii] \in Nat \ {0} /\ Range(hs[ii].lp) = 1 .. bs[ii] /\ hs[ii].lp \in [Pixels -> 1 .. bs[ii]]
      BY <1>3 DEF Fusable
    <3>2. 1 \in Range(hs[ii].lp)
      BY <3>1
    <3> QED BY <3>1, <3>2 DEF Range
  <2>3. \E k : k \in 1 .. K
    BY <2>1, <2>2
  <2> HIDE DEF K
  <2> QED BY <2>1, <2>3
<1> HIDE DEF f, K
<1>6. f \in Seq([sons : SUBSET Nat, parent : Nat]) /\ DOMAIN f = 1 .. Len(f) /\ f # <<>>
  BY <1>2, <1>4 DEF Mergings
<1>7. n_leaves(f) = K
  <2>1. 1 \in 1 .. Len(f)
    BY <1>1, <1>4
  <2>2. f[1].parent = K + 1
    BY <1>1, <2>1
  <2> QED BY <1>5, <2>2 DEF n_leaves
<1>8. IsHierarchy(f)
  BY <1>1, <1>5, <1>6, <1>7 DEF IsHierarchy
<1> QED BY <1>7, <1>8 DEF n_regs, f, K

\* A region of one of the hierarchies has the same pixels in the fused one.
LEMMA FusedPixelsOf ==
  ASSUME NEW hs, NEW bs, AllFusable(hs, bs), NEW ii \in 1 .. Len(hs), hs[ii].ms # <<>>,
         NEW y \in 1 .. SizesOf(hs)[ii]
  PROVE  /\ Starts(hs)[ii] + y \in 1 .. n_regs(fuse_bpts(hs))
         /\ \A p \in Pixels : int_part(PartsOf(hs))[p] \in leaves(fuse_bpts(hs))[Starts(hs)[ii] + y]
                                <=> hs[ii].lp[p] \in leaves(hs[ii].ms)[y]
<1> DEFINE f == fuse_bpts(hs)
           K == Len(TableOf(hs))
           T == TableOf(hs)
           P == int_part(PartsOf(hs))
           L == leaves(f)
           h == hs[ii]
           m == h.ms
           b == bs[ii]
           O == leaves(m)
           z == SizesOf(hs)[ii]
           offset == Starts(hs)[ii]
           at(x) == Start(SizesOf(hs), ii) + x
           s == StacksOf(hs)[ii]
<1>1. /\ \A q \in 1 .. Len(f) : f[q].parent = K + q
      /\ \A x \in 1 .. z : at(x) \in 1 .. Len(f) /\ offset + x = K + at(x) /\ f[at(x)].sons = s[x].sons
  BY FusedMergings
<1>2. IsHierarchy(f) /\ n_leaves(f) = K /\ n_regs(f) = K + Len(f) /\ K \in Nat /\ Len(f) \in Nat
  BY FusedIsHierarchy, FusedMergings, FusableTable
<1>3. Stacked(s, h, b, ii, T, offset)
  BY StacksAre
<1>4. /\ z \in Nat /\ z = b + Len(m) /\ b \in Nat \ {0} /\ IsHierarchy(m) /\ n_leaves(m) = b
      /\ Len(m) \in Nat /\ offset \in Nat
  <2>1. Fusable(h, b)
    BY DEF AllFusable
  <2>2. IsHierarchy(m) /\ n_leaves(m) = b /\ Len(m) \in Nat
    BY <2>1, FusableIsHierarchy
  <2>3. z = b + Len(m) /\ offset \in Nat
    BY FusableOffsets
  <2>4. b \in Nat \ {0}
    BY <2>1 DEF Fusable
  <2> HIDE DEF b, m, z
  <2>5. z \in Nat
    BY <2>2, <2>3, <2>4
  <2> QED BY <2>2, <2>3, <2>4, <2>5
<1>5. /\ \A p \in Pixels : P[p] \in 1 .. Len(T) /\ T[P[p]][ii] = h.lp[p]
  BY FusableTable
<1>6. /\ \A x \in 1 .. b : O[x] = {x}
      /\ \A j \in 1 .. Len(m) : O[b + j] = UNION {O[r] : r \in m[j].sons} /\ m[j].sons \subseteq 1 .. (b + j) - 1
  <2>1. /\ \A x \in 1 .. n_leaves(m) : O[x] = {x}
        /\ \A j \in 1 .. Len(m) : O[m[j].parent] = UNION {O[r] : r \in m[j].sons}
    BY <1>4, LeavesAre
  <2>2. \A j \in 1 .. Len(m) : m[j].parent = b + j /\ m[j].sons \subseteq 1 .. (b + j) - 1
    BY DEF AllFusable, Fusable
  <2> QED BY <1>4, <2>1, <2>2
<1>7. /\ \A t \in 1 .. K : L[t] = {t}
      /\ \A q \in 1 .. Len(f) : L[K + q] = UNION {L[r] : r \in f[q].sons}
  <2>1. /\ \A t \in 1 .. n_leaves(f) : L[t] = {t}
        /\ \A q \in 1 .. Len(f) : L[f[q].parent] = UNION {L[r] : r \in f[q].sons}
    BY <1>2, LeavesAre
  <2> QED BY <1>1, <1>2, <2>1
<1>8. K = Len(T)
  OBVIOUS
<1> HIDE DEF f, K, T, P, L, h, m, b, O, z, offset, at, s
<1>9. \A x \in 1 .. z : L[offset + x] = UNION {L[r] : r \in s[x].sons} /\ offset + x \in 1 .. n_regs(f)
  <2> TAKE x \in 1 .. z
  <2>1. at(x) \in 1 .. Len(f) /\ offset + x = K + at(x) /\ f[at(x)].sons = s[x].sons
    BY <1>1
  <2> DEFINE q == at(x)
  <2>2. q \in 1 .. Len(f) /\ offset + x = K + q /\ f[q].sons = s[x].sons
    BY <2>1
  <2> HIDE DEF q
  <2>3. L[K + q] = UNION {L[r] : r \in f[q].sons}
    BY <1>7, <2>2
  <2>4. K + q \in 1 .. n_regs(f)
    BY <1>2, <2>2
  <2> QED BY <2>2, <2>3, <2>4
<1> DEFINE Same(x) == \A p \in Pixels : P[p] \in L[offset + x] <=> h.lp[p] \in O[x]
           W == {x \in 1 .. z : Same(x)}
<1>10. ASSUME NEW k \in 1 .. z, \A x \in 1 .. k - 1 : x \in W PROVE k \in W
  <2>1. CASE k \in 1 .. b
    <3>1. s[k].sons = {t \in 1 .. Len(T) : T[t][ii] = k}
      BY <1>3, <2>1 DEF Stacked
    <3>2. \A v : v \in L[offset + k] <=> v \in 1 .. K /\ T[v][ii] = k
      <4> TAKE v
      <4>1. v \in L[offset + k] <=> \E r \in s[k].sons : v \in L[r]
        BY <1>9
      <4>2. \A r \in s[k].sons : r \in 1 .. K /\ L[r] = {r}
        BY <1>7, <1>8, <3>1
      <4> QED BY <1>8, <3>1, <4>1, <4>2
    <3>3. Same(k)
      <4> TAKE p \in Pixels
      <4>1. P[p] \in L[offset + k] <=> h.lp[p] = k
        BY <1>5, <1>8, <3>2
      <4>2. O[k] = {k}
        BY <1>6, <2>1
      <4> QED BY <4>1, <4>2
    <3> QED BY <3>3
  <2>2. CASE k \notin 1 .. b
    <3> DEFINE j == k - b
    <3>1. j \in 1 .. Len(m) /\ k = b + j
      BY <1>4, <2>2
    <3> HIDE DEF j
    <3>2. s[k].sons = {x + offset : x \in m[j].sons}
      BY <1>3, <3>1 DEF Stacked, m
    <3>3. \A x \in m[j].sons : x \in 1 .. k - 1 /\ x + offset = offset + x
      <4> TAKE x \in m[j].sons
      <4>1. x \in 1 .. k - 1
        BY <1>6, <3>1
      <4> QED BY <1>4, <4>1
    <3>4. \A x \in m[j].sons : Same(x)
      <4> TAKE x \in m[j].sons
      <4>1. x \in W
        BY <1>10, <3>3
      <4> QED BY <4>1
    <3>5. \A v : v \in L[offset + k] <=> \E x \in m[j].sons : v \in L[offset + x]
      <4> TAKE v
      <4>1. v \in L[offset + k] <=> \E r \in s[k].sons : v \in L[r]
        BY <1>9
      <4>2. (\E r \in s[k].sons : v \in L[r]) <=> \E x \in m[j].sons : v \in L[x + offset]
        BY <3>2
      <4> QED BY <3>3, <4>1, <4>2
    <3>6. \A v : v \in O[k] <=> \E x \in m[j].sons : v \in O[x]
      BY <1>6, <3>1
    <3>7. Same(k)
      BY <3>4, <3>5, <3>6
    <3> HIDE DEF Same
    <3> QED BY <3>7
  <2> QED BY <2>1, <2>2
<1>11. \A k \in 1 .. z : k \in W
  <2> HIDE DEF W
  <2> QED BY <1>4, <1>10, ClimbAll
<1>12. y \in W /\ y \in 1 .. z
  BY <1>11 DEF z
<1> QED BY <1>9, <1>12 DEF f, L, P, h, O, m, offset


-----------------------------------------------------------------------------
(* Proposals: the candidates in the fused hierarchy.                       *)

Alike(f, g, a, b) ==
  /\ Len(f) = Len(g)
  /\ \A q \in 1 .. Len(f) : \E i \in 1 .. Len(a) : \E x \in 1 .. Len(a[i]) :
       f[q] = a[i][x] /\ g[q] = b[i][x]

\* Lists of lists of the same lengths, joined, correspond element by element.
LEMMA FlattenAlike ==
  ASSUME NEW S, NEW a \in Seq(Seq(S)), NEW U, NEW b \in Seq(Seq(U)), Len(a) = Len(b),
         \A k \in 1 .. Len(a) : Len(a[k]) = Len(b[k])
  PROVE  /\ FlattenSeq(a) \in Seq(S) /\ FlattenSeq(b) \in Seq(U)
         /\ Alike(FlattenSeq(a), FlattenSeq(b), a, b)
<1> DEFINE w == [k \in 1 .. Len(a) |-> Len(a[k])]
           f == FlattenSeq(a)
           g == FlattenSeq(b)
<1>1. /\ \A k \in 1 .. Len(a) : w[k] = Len(a[k])
      /\ \A k \in 1 .. Len(b) : w[k] = Len(b[k])
  OBVIOUS
<1> HIDE DEF w
<1>2. Placed(f, a, w) /\ f \in Seq(S)
  BY <1>1, FlattenPlaces
<1>3. Placed(g, b, w) /\ g \in Seq(U)
  BY <1>1, FlattenPlaces
<1>4. Len(f) = Total(w, 1 .. Len(a)) /\ Len(g) = Total(w, 1 .. Len(b))
  BY <1>1, FlattenLength
<1> HIDE DEF f, g
<1>5. Len(f) = Len(g)
  BY <1>4
<1>6. ASSUME NEW q \in 1 .. Len(f)
      PROVE  \E i \in 1 .. Len(a) : \E x \in 1 .. Len(a[i]) : f[q] = a[i][x] /\ g[q] = b[i][x]
  <2>1. PICK i \in 1 .. Len(a) : \E x \in 1 .. Len(a[i]) : q = Start(w, i) + x
    BY <1>2 DEF Placed, PlacedUpTo
  <2>2. PICK x \in 1 .. Len(a[i]) : q = Start(w, i) + x
    BY <2>1
  <2>3. f[q] = a[i][x]
    BY <1>2, <2>2 DEF Placed, PlacedUpTo
  <2>4. i \in 1 .. Len(b) /\ x \in 1 .. Len(b[i])
    OBVIOUS
  <2>5. g[q] = b[i][x]
    BY <1>3, <2>2, <2>4 DEF Placed, PlacedUpTo
  <2> QED BY <2>3, <2>5
<1>7. Alike(f, g, a, b)
  BY <1>5, <1>6 DEF Alike
<1> QED BY <1>2, <1>3, <1>7 DEF f, g

-----------------------------------------------------------------------------
(* Proposals: the fused hierarchy and the candidates in it.               *)

PrunedFrom(ii, b) == PrunedTo(pruned[ii], input.lps[ii], input.ms[ii], Needed(ii), b)

LEMMA PrunedFusable ==
  ASSUME AllPruned
  PROVE  \E bs : AllFusable(pruned, bs) /\ \A ii \in 1 .. n_hiers : PrunedFrom(ii, bs[ii])
<1> DEFINE bs == [ii \in 1 .. n_hiers |-> CHOOSE b : PrunedFrom(ii, b)]
<1>1. \A ii \in 1 .. n_hiers : \E b : PrunedFrom(ii, b)
  BY PrunedSizes DEF PrunedFrom
<1>2. \A ii \in 1 .. n_hiers : PrunedFrom(ii, bs[ii])
  BY <1>1
<1> HIDE DEF bs
<1>3. n_hiers \in Nat /\ DOMAIN pruned = 1 .. n_hiers /\ Len(pruned) = n_hiers
  BY PrunedSizes DEF AllPruned
<1>4. pruned \in Seq(Range(pruned))
  <2> DEFINE H == {PrunedHere(ii) : ii \in 1 .. n_hiers}
             R == Range(pruned)
  <2>1. pruned \in Seq(H)
    BY DEF AllPruned
  <2>2. \A ii \in 1 .. Len(pruned) : pruned[ii] \in R
    BY <1>3 DEF Range
  <2> HIDE DEF H, R
  <2>3. pruned \in Seq(R)
    BY <2>1, <2>2, ListIn
  <2> QED BY <2>3 DEF R
<1>5. ASSUME NEW ii \in 1 .. n_hiers PROVE Fusable(pruned[ii], bs[ii])
  <2>1. PrunedFrom(ii, bs[ii])
    BY <1>2
  <2> DEFINE h == pruned[ii]
             b == bs[ii]
  <2>2. PrunedTo(h, input.lps[ii], input.ms[ii], Needed(ii), b)
    BY <2>1 DEF PrunedFrom
  <2> HIDE DEF h, b
  <2>3. Fusable(h, b)
    BY <2>2 DEF PrunedTo, Fusable
  <2> QED BY <2>3 DEF h, b
<1>6. AllFusable(pruned, bs)
  BY <1>3, <1>4, <1>5 DEF AllFusable
<1> QED BY <1>2, <1>6

PixelsIn(f, P, row) ==
  LET L == UNION {leaves(f)[r] : r \in Range(row)} IN {p \in Pixels : P[p] \in L}
OriginalRow(ii, row) == UNION {PixelsOf(input.lps[ii], input.ms[ii], r) : r \in Range(row)}
NewRow(ii, row) == [y \in DOMAIN row |-> Starts(pruned)[ii] + Position(pruned[ii].lut, row[y])]

\* A needed region, renumbered, has the pixels that it had.
LEMMA NeededPixels ==
  ASSUME AllPruned, NEW ii \in 1 .. n_hiers, pruned[ii].ms # <<>>, NEW v \in Needed(ii)
  PROVE  /\ Starts(pruned)[ii] + Position(pruned[ii].lut, v) \in Nat
         /\ \A p \in Pixels :
              int_part(PartsOf(pruned))[p]
                  \in leaves(fuse_bpts(pruned))[Starts(pruned)[ii] + Position(pruned[ii].lut, v)]
                <=> p \in PixelsOf(input.lps[ii], input.ms[ii], v)
<1>1. PICK bs : AllFusable(pruned, bs) /\ \A k \in 1 .. n_hiers : PrunedFrom(k, bs[k])
  BY PrunedFusable
<1> DEFINE h == pruned[ii]
           b == bs[ii]
           lp == input.lps[ii]
           ms == input.ms[ii]
           x == Position(h.lut, v)
           offset == Starts(pruned)[ii]
           f == fuse_bpts(pruned)
           P == int_part(PartsOf(pruned))
<1>2. PrunedTo(h, lp, ms, Needed(ii), b)
  BY <1>1 DEF PrunedFrom
<1>3. /\ IsTree(ms) /\ lp \in [Pixels -> 1 .. n_leaves(ms)]
      /\ Needed(ii) \in SUBSET (1 .. n_regs(ms)) /\ ii \in 1 .. Len(pruned)
  BY PrunedSizes DEF AllPruned
<1>4. v \in RegionsKept(ms, Needed(ii))
  BY <1>3, NeededAreKept
<1>5. Lists(h.lut, RegionsKept(ms, Needed(ii))) /\ Len(h.lut) = b + Len(h.ms)
  BY <1>2 DEF PrunedTo
<1>6. x \in 1 .. Len(h.lut) /\ h.lut[x] = v
  BY <1>4, <1>5, PositionIs
<1>7. SizesOf(pruned)[ii] = Len(h.lut) /\ offset \in Nat
  BY <1>1, <1>3, <1>5, FusableOffsets
<1>8. /\ x \in 1 .. SizesOf(pruned)[ii] /\ h.ms # <<>>
  BY <1>6, <1>7
<1> HIDE DEF x
<1>9. \A p \in Pixels : P[p] \in leaves(f)[offset + x] <=> h.lp[p] \in leaves(h.ms)[x]
  BY <1>1, <1>3, <1>8, FusedPixelsOf
<1>10. \A p \in Pixels : h.lp[p] \in leaves(h.ms)[x] <=> lp[p] \in leaves(ms)[h.lut[x]]
  <2> HIDE DEF h, lp, ms, b
  <2> QED BY <1>2, <1>3, <1>6, <1>8, PrunedPixels
<1>11. \A p \in Pixels : P[p] \in leaves(f)[offset + x] <=> p \in PixelsOf(lp, ms, v)
  BY <1>6, <1>9, <1>10 DEF PixelsOf
<1>12. offset + x \in Nat
  <2>1. x \in Nat
    BY <1>6
  <2> HIDE DEF offset
  <2> QED BY <1>7, <2>1
<1> QED BY <1>11, <1>12 DEF x

LEMMA RowPixels ==
  ASSUME AllPruned, NEW ii \in 1 .. n_hiers, pruned[ii].ms # <<>>, NEW x \in 1 .. Len(full_cands[ii])
  PROVE  /\ NewRow(ii, full_cands[ii][x]) \in Seq(Nat)
         /\ PixelsIn(fuse_bpts(pruned), int_part(PartsOf(pruned)), NewRow(ii, full_cands[ii][x]))
              = OriginalRow(ii, full_cands[ii][x])
<1> DEFINE row == full_cands[ii][x]
           new == NewRow(ii, row)
           n == Len(row)
           f == fuse_bpts(pruned)
           P == int_part(PartsOf(pruned))
           at(v) == Starts(pruned)[ii] + Position(pruned[ii].lut, v)
           old(v) == PixelsOf(input.lps[ii], input.ms[ii], v)
<1>1. n \in Nat /\ DOMAIN row = 1 .. n /\ \A y \in 1 .. n : row[y] \in Needed(ii)
  BY NeededAre DEF AllPruned
<1>2. new = [y \in 1 .. n |-> at(row[y])]
  BY <1>1 DEF NewRow
<1>3. \A v \in Needed(ii) : at(v) \in Nat /\ \A p \in Pixels : P[p] \in leaves(f)[at(v)] <=> p \in old(v)
  BY NeededPixels
<1>4. OriginalRow(ii, row) = UNION {old(r) : r \in Range(row)}
  BY DEF OriginalRow
<1>5. PixelsIn(f, P, new) = {p \in Pixels : P[p] \in UNION {leaves(f)[r] : r \in Range(new)}}
  BY DEF PixelsIn
<1>6. \A v : old(v) \subseteq Pixels
  BY DEF PixelsOf
<1> HIDE DEF row, new, n, f, P, at, old
<1>7. new \in Seq(Nat)
  <2>1. \A y \in 1 .. n : at(row[y]) \in Nat
    BY <1>1, <1>3
  <2>2. new \in [1 .. n -> Nat]
    BY <1>2, <2>1
  <2> QED BY <1>1, <2>2
<1>8. \A r : r \in Range(row) <=> \E y \in 1 .. n : r = row[y]
  BY <1>1 DEF Range
<1>9. \A r : r \in Range(new) <=> \E y \in 1 .. n : r = at(row[y])
  BY <1>2 DEF Range
<1>10. \A p : p \in PixelsIn(f, P, new) <=> p \in Pixels /\ \E y \in 1 .. n : P[p] \in leaves(f)[at(row[y])]
  BY <1>5, <1>9
<1>11. \A p : p \in OriginalRow(ii, row) <=> p \in Pixels /\ \E y \in 1 .. n : p \in old(row[y])
  BY <1>4, <1>6, <1>8
<1>12. \A p : p \in PixelsIn(f, P, new) <=> p \in OriginalRow(ii, row)
  BY <1>1, <1>3, <1>10, <1>11
<1>13. PixelsIn(f, P, new) = OriginalRow(ii, row)
  BY <1>12
<1> QED BY <1>7, <1>13 DEF row, new, f, P

NewRows ==
  [ii \in 1 .. n_hiers |-> IF pruned[ii].ms = <<>> THEN <<>>
                           ELSE [x \in 1 .. Len(full_cands[ii]) |-> NewRow(ii, full_cands[ii][x])]]
OldRows == [ii \in 1 .. n_hiers |-> [x \in 1 .. Len(full_cands[ii]) |-> OriginalRow(ii, full_cands[ii][x])]]

LEMMA RowsOfHierarchy ==
  ASSUME AllPruned, ~ BareRoot, NEW ii \in 1 .. n_hiers
  PROVE  /\ Len(full_cands[ii]) \in Nat
         /\ pruned[ii].ms = <<>> => Len(full_cands[ii]) = 0
         /\ NewRows[ii] \in Seq(Seq(Nat)) /\ Len(NewRows[ii]) = Len(full_cands[ii])
         /\ OldRows[ii] \in Seq(SUBSET Pixels) /\ Len(OldRows[ii]) = Len(full_cands[ii])
         /\ \A x \in 1 .. Len(full_cands[ii]) :
              OldRows[ii][x] = PixelsIn(fuse_bpts(pruned), int_part(PartsOf(pruned)), NewRows[ii][x])
<1> DEFINE n == Len(full_cands[ii])
           new == NewRows[ii]
           old == OldRows[ii]
           U == Seq(Nat)
           V == SUBSET Pixels
<1>1. n \in Nat /\ (Needed(ii) = {} <=> full_cands[ii] = <<>>)
  BY NeededAre DEF AllPruned
<1>2. pruned[ii].ms = <<>> => n = 0
  <2>1. PICK b : PrunedTo(pruned[ii], input.lps[ii], input.ms[ii], Needed(ii), b)
    BY PrunedSizes
  <2>2. pruned[ii].ms = <<>> <=> Needed(ii) \subseteq {n_regs(input.ms[ii])}
    BY <2>1 DEF PrunedTo
  <2>3. Needed(ii) # {n_regs(input.ms[ii])}
    BY DEF BareRoot
  <2>4. ASSUME pruned[ii].ms = <<>> PROVE n = 0
    <3>1. full_cands[ii] = <<>>
      BY <1>1, <2>2, <2>3, <2>4
    <3> QED BY <3>1
  <2> QED BY <2>4
<1>3. /\ pruned[ii].ms = <<>> => new = <<>>
      /\ pruned[ii].ms # <<>> => new = [x \in 1 .. n |-> NewRow(ii, full_cands[ii][x])]
  BY DEF NewRows
<1>4. old = [x \in 1 .. n |-> OriginalRow(ii, full_cands[ii][x])]
  BY DEF OldRows
<1>5. \A x \in 1 .. n : OriginalRow(ii, full_cands[ii][x]) \in V
  BY DEF OriginalRow, PixelsOf
<1>6. pruned[ii].ms # <<>> => \A x \in 1 .. n :
        /\ NewRow(ii, full_cands[ii][x]) \in U
        /\ PixelsIn(fuse_bpts(pruned), int_part(PartsOf(pruned)), NewRow(ii, full_cands[ii][x]))
             = OriginalRow(ii, full_cands[ii][x])
  BY RowPixels
<1> HIDE DEF n, new, old, U, V
<1>7. old \in Seq(V) /\ Len(old) = n
  <2>1. old \in [1 .. n -> V] /\ DOMAIN old = 1 .. n
    BY <1>4, <1>5
  <2>2. old \in Seq(V)
    BY <1>1, <2>1
  <2> QED BY <1>1, <2>1, <2>2
<1>8. new \in Seq(U) /\ Len(new) = n
  <2>1. CASE pruned[ii].ms = <<>>
    BY <1>2, <1>3, <2>1
  <2>2. CASE pruned[ii].ms # <<>>
    <3>1. new \in [1 .. n -> U] /\ DOMAIN new = 1 .. n
      BY <1>3, <1>6, <2>2
    <3>2. new \in Seq(U)
      BY <1>1, <3>1
    <3> QED BY <1>1, <3>1, <3>2
  <2> QED BY <2>1, <2>2
<1>9. ASSUME NEW x \in 1 .. n
      PROVE  old[x] = PixelsIn(fuse_bpts(pruned), int_part(PartsOf(pruned)), new[x])
  <2>1. pruned[ii].ms # <<>>
    BY <1>1, <1>2
  <2>2. new[x] = NewRow(ii, full_cands[ii][x]) /\ old[x] = OriginalRow(ii, full_cands[ii][x])
    BY <1>3, <1>4, <2>1
  <2> QED BY <1>6, <2>1, <2>2
<1> QED BY <1>1, <1>2, <1>7, <1>8, <1>9 DEF n, new, old, U, V

LEMMA RowsJoined ==
  ASSUME AllPruned
  PROVE  /\ new_cands(pruned, Starts(pruned), full_cands) = FlattenSeq(NewRows)
         /\ OriginalPixels = FlattenSeq(OldRows)
<1>1. DOMAIN pruned = 1 .. n_hiers
  BY PrunedSizes
<1>2. \A ii \in 1 .. n_hiers : DOMAIN full_cands[ii] = 1 .. Len(full_cands[ii])
  BY NeededAre DEF AllPruned
<1>3. ASSUME NEW ii \in 1 .. n_hiers
      PROVE  Relabelled(pruned[ii], Starts(pruned)[ii], full_cands[ii])
               = [x \in 1 .. Len(full_cands[ii]) |-> NewRow(ii, full_cands[ii][x])]
  BY <1>2 DEF Relabelled, NewRow
<1>4. NewRows = [ii \in DOMAIN pruned |->
                   IF pruned[ii].ms = <<>> THEN <<>>
                   ELSE Relabelled(pruned[ii], Starts(pruned)[ii], full_cands[ii])]
  BY <1>1, <1>3 DEF NewRows
<1>5. OldRows = [ii \in 1 .. n_hiers |->
                   [x \in DOMAIN full_cands[ii] |->
                      UNION {PixelsOf(input.lps[ii], input.ms[ii], r) : r \in Range(full_cands[ii][x])}]]
  BY <1>2 DEF OldRows, OriginalRow
<1>6. new_cands(pruned, Starts(pruned), full_cands) = FlattenSeq(NewRows)
  BY <1>4 DEF new_cands
<1> QED BY <1>5, <1>6 DEF OriginalPixels

LEMMA CandidatesKept ==
  ASSUME AllPruned, ~ BareRoot, NEW f, f = fuse_bpts(pruned), NEW P, P = int_part(PartsOf(pruned)),
         NEW rows, rows = new_cands(pruned, Starts(pruned), full_cands)
  PROVE  rows \in Seq(Seq(Nat)) /\ [x \in DOMAIN rows |-> PixelsIn(f, P, rows[x])] = OriginalPixels
<1> DEFINE N == n_hiers
           a == NewRows
           b == OldRows
           U == Seq(Nat)
           V == SUBSET Pixels
<1>1. N \in Nat
  BY PrunedSizes
<1>2. \A ii \in 1 .. N :
        /\ a[ii] \in Seq(U) /\ b[ii] \in Seq(V) /\ Len(a[ii]) = Len(b[ii])
        /\ \A x \in 1 .. Len(a[ii]) : b[ii][x] = PixelsIn(f, P, a[ii][x])
  BY RowsOfHierarchy
<1>3. DOMAIN a = 1 .. N /\ a = [ii \in 1 .. N |-> a[ii]] /\ DOMAIN b = 1 .. N /\ b = [ii \in 1 .. N |-> b[ii]]
  BY DEF NewRows, OldRows
<1>4. rows = FlattenSeq(a) /\ OriginalPixels = FlattenSeq(b)
  BY RowsJoined
<1> DEFINE old == OriginalPixels
<1> HIDE DEF N, a, b, U, V, old
<1> DEFINE SU == Seq(U)
           SV == Seq(V)
<1>5. a \in [1 .. N -> SU] /\ b \in [1 .. N -> SV]
  BY <1>2, <1>3
<1> HIDE DEF SU, SV
<1>6. a \in Seq(SU) /\ b \in Seq(SV)
  BY <1>1, <1>5
<1>7. Len(a) = N /\ Len(b) = N
  BY <1>1, <1>3, <1>6
<1>8. /\ rows \in Seq(U) /\ old \in Seq(V) /\ Len(rows) = Len(old)
      /\ \A q \in 1 .. Len(rows) : \E i \in 1 .. Len(a) : \E x \in 1 .. Len(a[i]) :
           rows[q] = a[i][x] /\ old[q] = b[i][x]
  <2>1. a \in Seq(Seq(U)) /\ b \in Seq(Seq(V)) /\ Len(a) = Len(b)
    BY <1>6, <1>7 DEF SU, SV
  <2>2. \A k \in 1 .. Len(a) : Len(a[k]) = Len(b[k])
    BY <1>2, <1>7
  <2>3. /\ FlattenSeq(a) \in Seq(U) /\ FlattenSeq(b) \in Seq(V)
        /\ Alike(FlattenSeq(a), FlattenSeq(b), a, b)
    BY <2>1, <2>2, FlattenAlike
  <2>4. old = FlattenSeq(b)
    BY <1>4 DEF old
  <2> QED BY <1>4, <2>3, <2>4 DEF Alike
<1>9. \A q \in 1 .. Len(rows) : old[q] = PixelsIn(f, P, rows[q])
  <2> TAKE q \in 1 .. Len(rows)
  <2>1. PICK i \in 1 .. Len(a) : \E x \in 1 .. Len(a[i]) : rows[q] = a[i][x] /\ old[q] = b[i][x]
    BY <1>8
  <2>2. PICK x \in 1 .. Len(a[i]) : rows[q] = a[i][x] /\ old[q] = b[i][x]
    BY <2>1
  <2> QED BY <1>2, <1>7, <2>2
<1>10. DOMAIN rows = 1 .. Len(rows) /\ old = [q \in 1 .. Len(rows) |-> old[q]]
  BY <1>8
<1>11. [x \in DOMAIN rows |-> PixelsIn(f, P, rows[x])] = old
  BY <1>9, <1>10
<1> QED BY <1>8, <1>11 DEF U, old

FusedInv ==
  /\ StopInv
  /\ stage \notin {"hierarchy", "undo", "prune", "fuse", "error"} =>
       /\ f_lp = int_part(PartsOf(pruned)) /\ f_ms = fuse_bpts(pruned)
       /\ cands = new_cands(pruned, Starts(pruned), full_cands)

LEMMA FusedStart ==
  ProposalsInit => FusedInv
<1> SUFFICES ASSUME ProposalsInit PROVE FusedInv
  OBVIOUS
<1>1. stage = "hierarchy"
  BY DEF ProposalsInit
<1> QED BY <1>1, StopStart DEF FusedInv

LEMMA FusedStep ==
  ASSUME FusedInv, [ProposalsNext]_proposal_vars
  PROVE  FusedInv'
<1>1. StopInv' /\ StopInv
  BY StopStep DEF FusedInv
<1>2. CASE StartHierarchy \/ UndoLastMerging \/ StoreHierarchy
  <2>1. stage' \in {"hierarchy", "undo", "prune"}
    BY <1>1, <1>2 DEF StartHierarchy, UndoLastMerging, StoreHierarchy
  <2> QED BY <1>1, <2>1 DEF FusedInv
<1>3. CASE PruneHierarchy
  <2>1. stage' \in {"fuse", "prune"}
    BY <1>1, <1>3, PruneStep DEF StopInv
  <2> QED BY <1>1, <2>1 DEF FusedInv
<1>4. CASE Fuse
  <2>1. stage = "fuse" /\ pruned' = pruned /\ full_cands' = full_cands
    BY <1>4 DEF Fuse
  <2>2. DOMAIN pruned = 1 .. n_hiers
    <3>1. AllPruned
      BY <1>1, <2>1 DEF StopInv, PrunedInv, AllPruned, ListsInv
    <3> QED BY <3>1, PrunedSizes
  <2> DEFINE parts == [ii \in 1 .. n_hiers |-> pruned[ii].lp]
             offset == OffsetOf(pruned, Len(inter_lut(parts)))
  <2>3. parts = PartsOf(pruned) /\ offset = Starts(pruned)
    BY <2>2 DEF PartsOf, Starts, TableOf
  <2>4. \/ /\ f_lp' = int_part(parts) /\ f_ms' = fuse_bpts(pruned)
           /\ cands' = new_cands(pruned, offset, full_cands)
        \/ stage' = "error"
    BY <1>4 DEF Fuse
  <2> HIDE DEF parts
  <2> HIDE DEF offset
  <2>5. /\ PartsOf(pruned)' = PartsOf(pruned) /\ Starts(pruned)' = Starts(pruned)
        /\ fuse_bpts(pruned)' = fuse_bpts(pruned)
    BY <2>1
  <2> QED BY <1>1, <2>1, <2>3, <2>4, <2>5 DEF FusedInv
<1>5. ASSUME /\ f_lp' = f_lp /\ f_ms' = f_ms /\ cands' = cands /\ pruned' = pruned /\ full_cands' = full_cands
             /\ stage' = stage \/ stage \notin {"hierarchy", "undo", "prune", "fuse", "error"}
      PROVE  FusedInv'
  BY <1>1, <1>5 DEF FusedInv
<1>6. CASE FillHoles
  BY <1>5, <1>6 DEF FillHoles, fused
<1>7. CASE ComputeFeatures
  BY <1>5, <1>7 DEF ComputeFeatures, fused
<1>8. CASE Reduce
  BY <1>5, <1>8 DEF Reduce, fused
<1>9. CASE Score
  BY <1>5, <1>9 DEF Score, fused
<1>10. CASE Rank
  BY <1>5, <1>10 DEF Rank, fused
<1>11. CASE SelectNext
  BY <1>5, <1>11 DEF SelectNext, fused
<1>12. CASE Return
  BY <1>5, <1>12 DEF Return, fused
<1>13. CASE UNCHANGED proposal_vars
  BY <1>5, <1>13 DEF proposal_vars, fused
<1> QED BY <1>2, <1>3, <1>4, <1>6, <1>7, <1>8, <1>9, <1>10, <1>11, <1>12, <1>13 DEF ProposalsNext

\* Fusing the pruned hierarchies changes the pixels of no candidate: its labels
\* are looked up in the table of its own hierarchy and moved on by the labels
\* of the hierarchies before, and the region at that place of the fused
\* hierarchy is made of the parts of the intersection that make up the region.
THEOREM PixelsKept ==
  ProposalsSpec => []CandidatesKeepPixels
<1>1. ProposalsInit => FusedInv
  BY FusedStart
<1>2. FusedInv /\ [ProposalsNext]_proposal_vars => FusedInv'
  BY FusedStep
<1>3. ASSUME FusedInv PROVE CandidatesKeepPixels
  <2> SUFFICES ASSUME stage = "fill"
               PROVE  [x \in DOMAIN cands |-> FusedPixels(cands[x])] = OriginalPixels
    BY DEF CandidatesKeepPixels
  <2>1. /\ f_lp = int_part(PartsOf(pruned)) /\ f_ms = fuse_bpts(pruned)
        /\ cands = new_cands(pruned, Starts(pruned), full_cands)
        /\ StopInv /\ ~ BareRoot
    BY <1>3 DEF FusedInv, StopInv
  <2>2. AllPruned
    BY <2>1 DEF StopInv, PrunedInv, AllPruned, ListsInv
  <2>3. [x \in DOMAIN cands |-> PixelsIn(f_ms, f_lp, cands[x])] = OriginalPixels
    BY <2>1, <2>2, CandidatesKept
  <2>4. \A row : FusedPixels(row) = PixelsIn(f_ms, f_lp, row)
    BY DEF FusedPixels, PixelsIn
  <2> QED BY <2>3, <2>4
<1> QED BY <1>1, <1>2, <1>3, PTL DEF ProposalsSpec
=============================================================================
