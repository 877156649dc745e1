---------------------------- MODULE RegionMerging ----------------------------
(***************************************************************************)
(* ucm_mean_pb.cpp: the regions of an over-segmentation are merged two by  *)
(* two, those with the weakest mean contour first, and every contour gets  *)
(* the strength at which the regions on its two sides became one: the      *)
(* ultrametric contour map (UCM).                                          *)
(*                                                                         *)
(* Pixels and contours lie on one grid of twice the size and one more: the *)
(* contour between two pixels is at the sum of their coordinates plus one, *)
(* and a place with two even coordinates is where contours meet.  An image *)
(* has at least two regions and each of its labels: the program reads the  *)
(* first element of a region's boundary without asking if it has one.      *)
(*                                                                         *)
(* The merging queue is lazy: entries are never removed when they go out   *)
(* of date but skipped when they come up.  A repeated entry can only come  *)
(* up right after itself, where it is out of date, so the queue is a set.  *)
(***************************************************************************)
EXTENDS Quotients, FiniteSets

CONSTANTS Tx, Ty,        \* the size of the image
          Partitions,    \* the initial partitions considered
          MaxPb          \* the greatest contour strength

Pixels == (0 .. Tx - 1) \X (0 .. Ty - 1)
Adjacent(p, q) ==
  \/ p[1] = q[1] /\ (p[2] = q[2] + 1 \/ q[2] = p[2] + 1)
  \/ p[2] = q[2] /\ (p[1] = q[1] + 1 \/ q[1] = p[1] + 1)
Site(p, q) == <<p[1] + q[1] + 1, p[2] + q[2] + 1>>
AdjacentPixels == {pq \in Pixels \X Pixels : Adjacent(pq[1], pq[2])}
Sites == {Site(pq[1], pq[2]) : pq \in AdjacentPixels}
Khalimsky == (0 .. 2 * Tx) \X (0 .. 2 * Ty)

ASSUME ImageAssumption ==
  /\ Tx \in Nat \ {0} /\ Ty \in Nat \ {0} /\ MaxPb \in Nat
  /\ \A P \in Partitions : P \in [Pixels -> Nat]

\* No region is without a boundary, or its first element would not be there to be read.
ASSUME BoundaryAssumption ==
  \A P \in Partitions : \A p \in Pixels :
    \E pq \in AdjacentPixels : P[pq[1]] = P[p] /\ P[pq[2]] # P[p]

VARIABLES
  local_boundaries,    \* contour |-> its strength
  initial_partition,   \* pixel |-> its region
  labels,              \* initial region |-> the region it is part of now
  boundary,            \* region |-> its contours, each with the initial region beyond
  neighbors,           \* region |-> (neighbour |-> energy, total_pb, bdry_length)
  merging_queue,       \* pairs of regions with the energy they had when pushed
  current_energy,      \* the energy of the last merging
  ucm,                 \* place |-> strength
  pc

vars == <<local_boundaries, initial_partition, labels, boundary, neighbors,
          merging_queue, current_energy, ucm, pc>>
input == <<local_boundaries, initial_partition>>

Regions == {initial_partition[p] : p \in Pixels}
Active == {r \in Regions : labels[r] = r}
-----------------------------------------------------------------------------
(* The state after sections I and II of compute_ucm up to the loop.        *)

InitialBoundary(r) ==
  {[coord |-> Site(pq[1], pq[2]), cc_neigh |-> initial_partition[pq[2]]] :
      pq \in {x \in AdjacentPixels : /\ initial_partition[x[1]] = r
                                     /\ initial_partition[x[2]] # r}}
NeighborRegion(total, length) ==
  [energy |-> Quotient(total, length), total_pb |-> total, bdry_length |-> length]
Strength(x) == local_boundaries[x]
InitialNeighbors(r) ==
  [n \in {b.cc_neigh : b \in boundary[r]} |->
     LET C == {b.coord : b \in {x \in boundary[r] : x.cc_neigh = n}}
     IN NeighborRegion(MapThenSumSet(Strength, C), Cardinality(C))]
OrderNode(e, r1, r2) == [energy |-> e, region1 |-> r1, region2 |-> r2]

Init ==
  /\ initial_partition \in Partitions
  /\ local_boundaries \in [Sites -> 0 .. MaxPb]
  /\ labels = [r \in Regions |-> r]
  /\ boundary = [r \in Regions |-> InitialBoundary(r)]
  /\ neighbors = [r \in Regions |-> InitialNeighbors(r)]
  /\ merging_queue = UNION {{OrderNode(neighbors[r][n].energy, r, n) :
                               n \in {m \in DOMAIN neighbors[r] : m > r}} : r \in Regions}
  /\ current_energy = Zero
  /\ ucm = [x \in Khalimsky |-> Zero]
  /\ pc = "merging"
-----------------------------------------------------------------------------
(* The loop.                                                               *)

StrongestBefore(x, y) == Below(y.energy, x.energy)   \* mutant: operator < the wrong way
Before(x, y) ==
  \/ Below(x.energy, y.energy)
  \/ x.energy = y.energy /\ x.region1 < y.region1
  \/ x.energy = y.energy /\ x.region1 = y.region1 /\ x.region2 < y.region2
IsTop(m) == m \in merging_queue /\ \A x \in merging_queue : ~ Before(x, m)

\* map::operator[], which makes an entry of zeros when there is none.
Entry(r, n) == IF n \in DOMAIN neighbors[r] THEN neighbors[r][n]
               ELSE [energy |-> Zero, total_pb |-> 0, bdry_length |-> 0]
IsAlive(m) == labels[m.region1] = m.region1 /\ labels[m.region2] = m.region2   \* mutant
IsCurrent(m) ==
  /\ labels[m.region1] = m.region1 /\ labels[m.region2] = m.region2
  /\ m.energy = Entry(m.region1, m.region2).energy

SkipStale ==
  /\ pc = "merging"
  /\ \E m \in merging_queue :
       /\ IsTop(m) /\ ~ IsCurrent(m)
       /\ merging_queue' = merging_queue \ {m}
  /\ UNCHANGED <<input, labels, boundary, neighbors, current_energy, ucm, pc>>

\* Region::merge: the contours between father and son leave both lists, the
\* rest of the son's go to the father; every contour of the son is raised.
Relabelled(father, son) == [r \in Regions |-> IF labels[r] = son THEN father ELSE labels[r]]
FathersBoundary(father, son) == {b \in boundary[father] : labels[b.cc_neigh] # son}   \* mutant
WholeBoundary(father, son) ==   \* mutant: nothing is removed from the father's
  boundary[father] \cup {b \in boundary[son] : labels[b.cc_neigh] # father}
MergedBoundary(father, son) ==
  {b \in boundary[father] : labels[b.cc_neigh] # son} \cup
  {b \in boundary[son] : labels[b.cc_neigh] # father}
Raised(son, saliency) ==
  [x \in Khalimsky |-> IF Below(ucm[x], saliency) /\ (\E b \in boundary[son] : b.coord = x)
                       THEN saliency ELSE ucm[x]]

\* The neighbours left on either side: those that are still active.
Kept(father, son) == {n \in DOMAIN neighbors[father] : labels[n] = n /\ n # son}
Gained(father, son) == {n \in DOMAIN neighbors[son] : labels[n] = n /\ n # father}
MergedNeighbors(father, son) == Kept(father, son) \cup Gained(father, son)

\* The son's totals towards n are added to those between father and n.
AddedPbOnly(t, father, son, n) ==   \* mutant: the lengths are not added
  IF n \notin Gained(father, son) THEN t
  ELSE [t EXCEPT !.total_pb = @ + neighbors[son][n].total_pb]
Added(t, father, son, n) ==
  IF n \notin Gained(father, son) THEN t
  ELSE [t EXCEPT !.total_pb = @ + neighbors[son][n].total_pb,
                 !.bdry_length = @ + neighbors[son][n].bdry_length]
Dissimilarity(father, son, n) ==
  LET t == Added(Entry(father, n), father, son, n) IN Quotient(t.total_pb, t.bdry_length)
Updated(t, father, son, n) ==
  [Added(t, father, son, n) EXCEPT !.energy = Dissimilarity(father, son, n)]
UpdatedNeighbors(father, son) ==
  LET N == MergedNeighbors(father, son) IN
  [r \in Regions |->
     CASE r = father -> [n \in N |-> Updated(Entry(father, n), father, son, n)]
       [] r = son -> [n \in {} |-> 0]
       [] r \in N -> [n \in DOMAIN neighbors[r] \cup {father} |->
                        IF n = father THEN Updated(Entry(r, father), father, son, r)
                        ELSE neighbors[r][n]]
       [] OTHER -> neighbors[r]]

\* Every neighbour of the father is pushed again, whether its energy changed or not.
PushedGained(father, son) ==   \* mutant
  {OrderNode(Dissimilarity(father, son, n), n, father) : n \in Gained(father, son) \ Kept(father, son)}
Pushed(father, son) ==
  {OrderNode(Dissimilarity(father, son, n), n, father) : n \in MergedNeighbors(father, son)}

MergeTop ==
  /\ pc = "merging"
  /\ \E m \in merging_queue :
       /\ IsTop(m) /\ IsCurrent(m)
       /\ IF ~ AtMost(current_energy, m.energy)
          THEN /\ pc' = "not an ultrametric"
               /\ merging_queue' = merging_queue \ {m}
               /\ UNCHANGED <<labels, boundary, neighbors, current_energy, ucm>>
          ELSE LET father == Max({m.region1, m.region2})
                   son == Min({m.region1, m.region2})
                   e == Entry(m.region1, m.region2)
               IN /\ current_energy' = m.energy
                  /\ labels' = Relabelled(father, son)
                  /\ boundary' = [boundary EXCEPT ![father] = MergedBoundary(father, son),
                                                  ![son] = {}]
                  /\ ucm' = Raised(son, Quotient(e.total_pb, e.bdry_length))
                  /\ neighbors' = UpdatedNeighbors(father, son)
                  /\ merging_queue' = (merging_queue \ {m}) \cup Pushed(father, son)
                  /\ UNCHANGED pc
  /\ UNCHANGED input

\* complete_contour_map: where contours meet, the greatest of them.
Around(x) == {y \in Khalimsky : Adjacent(x, y)}
complete_contour_map ==
  [x \in Khalimsky |-> IF x[1] % 2 = 1 \/ x[2] % 2 = 1 THEN ucm[x]
                       ELSE CHOOSE s \in {ucm[y] : y \in Around(x)} :
                              \A y \in Around(x) : AtMost(ucm[y], s)]
Complete ==
  /\ pc = "merging" /\ merging_queue = {}
  /\ ucm' = complete_contour_map
  /\ pc' = "done"
  /\ UNCHANGED <<input, labels, boundary, neighbors, merging_queue, current_energy>>

Next == SkipStale \/ MergeTop \/ Complete

\* The function is sequential code: it goes on until it returns.
Spec == Init /\ [][Next]_vars /\ WF_vars(Next)
-----------------------------------------------------------------------------
(* Properties.                                                             *)

RegionOf(p) == labels[initial_partition[p]]
ContoursBetween(r, s) ==
  {Site(pq[1], pq[2]) : pq \in {x \in AdjacentPixels : RegionOf(x[1]) = r /\ RegionOf(x[2]) = s}}

\* Every table is about regions of the initial partition and places of the grid.
TypeOK ==
  /\ labels \in [Regions -> Regions]
  /\ DOMAIN boundary = Regions
  /\ \A r \in Regions : \A b \in boundary[r] : b.coord \in Sites /\ b.cc_neigh \in Regions
  /\ DOMAIN neighbors = Regions
  /\ \A r \in Regions : DOMAIN neighbors[r] \subseteq Regions
  /\ \A m \in merging_queue : m.region1 \in Regions /\ m.region2 \in Regions
  /\ DOMAIN ucm = Khalimsky
  /\ pc \in {"merging", "done", "not an ultrametric"}

\* The tables of two regions that are still there agree with each other and
\* with the image: either has an entry for the other exactly when contours lie
\* between them, with the sum of their strengths, their number and the mean,
\* and its boundary list has these contours.  Every merging updates the tables
\* of third regions by hand and leaves dead entries in them.
TotalsMatchContours ==
  \A r, s \in Active : r # s =>
    LET C == ContoursBetween(r, s) IN
    /\ s \in DOMAIN neighbors[r] <=> C # {}
    /\ C # {} => neighbors[r][s] = NeighborRegion(MapThenSumSet(Strength, C), Cardinality(C))
    /\ {b.coord : b \in {x \in boundary[r] : labels[x.cc_neigh] = s}} = C

\* Two adjacent regions always have an entry in the queue that will not be
\* skipped, however many entries of theirs have gone out of date (lines
\* 345-354 push again for every neighbour of the region that grew).  The
\* error return of line 318 comes after its pair was taken from the queue.
NoPairForgotten ==
  \A r, s \in Active :
    r # s /\ ContoursBetween(r, s) # {} /\ pc # "not an ultrametric" =>
    \E m \in merging_queue : {m.region1, m.region2} = {r, s} /\ IsCurrent(m)

\* The message "THIS IS NOT AN ULTRAMETRIC" of line 318 is never given: the
\* mean that replaces two means is not below the energy merged last.
AlwaysUltrametric == pc # "not an ultrametric"

\* In the map returned, every contour is part of a closed curve of contours
\* at least as strong, so removing the weak contours merges whole regions; a
\* contour inside an initial region has strength zero.
Encloses(S, s) ==
  \A pq \in AdjacentPixels :
    pq[1] \in S /\ pq[2] \notin S => AtMost(s, ucm[Site(pq[1], pq[2])])
ClosedContours ==
  pc = "done" =>
    \A pq \in AdjacentPixels :
      IF initial_partition[pq[1]] = initial_partition[pq[2]] THEN ucm[Site(pq[1], pq[2])] = Zero
      ELSE \E S \in SUBSET Pixels :
             pq[1] \in S /\ pq[2] \notin S /\ Encloses(S, ucm[Site(pq[1], pq[2])])

\* Once the regions on its two sides are one, a contour keeps its strength.
\* A merging raises the whole boundary of the son, so a contour left behind in
\* one of the two lists would be raised again by a later merging.
JoinedContoursFixed ==
  [][\A pq \in AdjacentPixels :
       RegionOf(pq[1]) = RegionOf(pq[2]) =>
         ucm'[Site(pq[1], pq[2])] = ucm[Site(pq[1], pq[2])]]_vars

\* The lazy queue implements greedy merging: each merging joins two regions
\* with the least mean contour strength of all adjacent ones, computed anew,
\* and no other step changes the regions.
Beyond == {x \in Sites : \E pq \in AdjacentPixels :
             Site(pq[1], pq[2]) = x /\ initial_partition[pq[1]] # initial_partition[pq[2]]}
Sides(x) == {initial_partition[pq[1]] : pq \in {y \in AdjacentPixels : Site(y[1], y[2]) = x}}
Leaves(r) == {c \in Regions : labels[c] = r}
Greedy == INSTANCE GreedyMerging WITH
  sides <- [x \in Beyond |-> Sides(x)],
  strength <- local_boundaries,
  regions <- {Leaves(r) : r \in Active},
  level <- current_energy
IsGreedyMerging == Greedy!Spec

\* The loop ends although every merging pushes new entries, and then the
\* image, which is in one piece, is one region.
BecomesOneRegion == <>[](pc = "done" /\ Cardinality(Active) = 1)
=============================================================================
