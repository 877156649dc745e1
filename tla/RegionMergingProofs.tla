-------------------------- MODULE RegionMergingProofs --------------------------
(***************************************************************************)
(* Proofs about RegionMerging, for images of every size with any number of *)
(* regions and any strengths of contours, in three parts: the tables of    *)
(* neighbours and the queue; the totals of the contours between regions    *)
(* and the strengths of the mergings, which need sums; and what is         *)
(* returned, whose contours close and whose mergings are GreedyMerging's.  *)
(***************************************************************************)
EXTENDS RegionMerging, DataProofs, TLAPS

-----------------------------------------------------------------------------
(* The grid.                                                               *)

\* The place of a contour tells the two pixels it lies between.
LEMMA SiteInjective ==
  ASSUME NEW p \in Pixels, NEW q \in Pixels, NEW u \in Pixels, NEW v \in Pixels,
         Adjacent(p, q), Adjacent(u, v), Site(p, q) = Site(u, v)
  PROVE  (u = p /\ v = q) \/ (u = q /\ v = p)
<1>1. /\ p[1] \in Int /\ p[2] \in Int /\ q[1] \in Int /\ q[2] \in Int
      /\ u[1] \in Int /\ u[2] \in Int /\ v[1] \in Int /\ v[2] \in Int
  BY ImageAssumption DEF Pixels
<1>2. /\ p = <<p[1], p[2]>> /\ q = <<q[1], q[2]>> /\ u = <<u[1], u[2]>> /\ v = <<v[1], v[2]>>
  BY DEF Pixels
<1>3. p[1] + q[1] = u[1] + v[1] /\ p[2] + q[2] = u[2] + v[2]
  BY <1>1 DEF Site
<1>4. \/ u[1] = p[1] /\ u[2] = p[2] /\ v[1] = q[1] /\ v[2] = q[2]
      \/ u[1] = q[1] /\ u[2] = q[2] /\ v[1] = p[1] /\ v[2] = p[2]
  <2> DEFINE Along(a, b) == a[1] = b[1] /\ (a[2] = b[2] + 1 \/ b[2] = a[2] + 1)
             Across(a, b) == a[2] = b[2] /\ (a[1] = b[1] + 1 \/ b[1] = a[1] + 1)
  <2>1. (Along(p, q) \/ Across(p, q)) /\ (Along(u, v) \/ Across(u, v))
    BY DEF Adjacent
  <2>2. CASE Along(p, q) /\ Along(u, v)
    BY <1>1, <1>3, <2>2
  <2>3. CASE Across(p, q) /\ Across(u, v)
    BY <1>1, <1>3, <2>3
  <2>4. CASE Along(p, q) /\ Across(u, v)
    BY <1>1, <1>3, <2>4
  <2>5. CASE Across(p, q) /\ Along(u, v)
    BY <1>1, <1>3, <2>5
  <2> QED BY <2>1, <2>2, <2>3, <2>4, <2>5
<1> QED BY <1>2, <1>4

\* A contour is on the grid, at a place that is not one where contours meet.
LEMMA SiteOnGrid ==
  ASSUME NEW p \in Pixels, NEW q \in Pixels, Adjacent(p, q)
  PROVE  /\ Site(p, q) \in Khalimsky
         /\ Site(p, q)[1] % 2 = 1 \/ Site(p, q)[2] % 2 = 1
<1>1. /\ p[1] \in 0 .. Tx - 1 /\ p[2] \in 0 .. Ty - 1
      /\ q[1] \in 0 .. Tx - 1 /\ q[2] \in 0 .. Ty - 1
  BY DEF Pixels
<1>2. Site(p, q) \in Khalimsky
  BY <1>1, ImageAssumption DEF Site, Khalimsky
<1>3. CASE p[1] = q[1]
  <2>1. Site(p, q)[1] = 2 * p[1] + 1
    BY <1>1, <1>3, ImageAssumption DEF Site
  <2> QED BY <1>1, <1>2, <2>1, ImageAssumption
<1>4. CASE p[2] = q[2]
  <2>1. Site(p, q)[2] = 2 * p[2] + 1
    BY <1>1, <1>4, ImageAssumption DEF Site
  <2> QED BY <1>1, <1>2, <2>1, ImageAssumption
<1> QED BY <1>3, <1>4 DEF Adjacent

-----------------------------------------------------------------------------
(* The steps.                                                              *)

\* The strength a merging gives to the contours it raises.
Saliency(m) ==
  LET e == Entry(m.region1, m.region2) IN Quotient(e.total_pb, e.bdry_length)

\* What a merging does, with the names of its two regions.
Merging(m, father, son) ==
  /\ m \in merging_queue /\ IsCurrent(m)
  /\ father = Max({m.region1, m.region2}) /\ son = Min({m.region1, m.region2})
  /\ UNCHANGED input
  /\ labels' = Relabelled(father, son)
  /\ boundary' = [boundary EXCEPT ![father] = MergedBoundary(father, son), ![son] = {}]
  /\ ucm' = Raised(son, Saliency(m))
  /\ neighbors' = UpdatedNeighbors(father, son)
  /\ merging_queue' = (merging_queue \ {m}) \cup Pushed(father, son)
  /\ UNCHANGED pc

\* The other outcome: the energy is below that of the last merging.
NotUltrametric ==
  /\ UNCHANGED <<input, labels, boundary, neighbors, ucm>>
  /\ merging_queue' \subseteq merging_queue /\ pc' = "not an ultrametric"

LEMMA MergeTopCases ==
  ASSUME MergeTop
  PROVE  NotUltrametric \/ \E m, father, son : Merging(m, father, son)
<1>1. PICK m \in merging_queue :
        /\ IsTop(m) /\ IsCurrent(m)
        /\ IF ~ AtMost(current_energy, m.energy)
           THEN /\ pc' = "not an ultrametric"
                /\ merging_queue' = merging_queue \ {m}
                /\ UNCHANGED <<labels, boundary, neighbors, current_energy, ucm>>
           ELSE LET father == Max({m.region1, m.region2})
                    son == Min({m.region1, m.region2})
                    e == Entry(m.region1, m.region2)
                IN /\ current_energy' = m.energy
                   /\ labels' = Relabelled(father, son)
                   /\ boundary' = [boundary EXCEPT ![father] = MergedBoundary(father, son),
                                                   ![son] = {}]
                   /\ ucm' = Raised(son, Quotient(e.total_pb, e.bdry_length))
                   /\ neighbors' = UpdatedNeighbors(father, son)
                   /\ merging_queue' = (merging_queue \ {m}) \cup Pushed(father, son)
                   /\ UNCHANGED pc
  BY DEF MergeTop
<1>2. UNCHANGED input
  BY DEF MergeTop
<1>3. CASE ~ AtMost(current_energy, m.energy)
  BY <1>1, <1>2, <1>3 DEF NotUltrametric
<1>4. CASE AtMost(current_energy, m.energy)
  <2>1. Merging(m, Max({m.region1, m.region2}), Min({m.region1, m.region2}))
    BY <1>1, <1>2, <1>4 DEF Merging, Saliency
  <2> QED BY <2>1
<1> QED BY <1>3, <1>4

\* Labels are numbers, so one of two is the greater and one the smaller.
LEMMA RegionsAreNumbers ==
  ASSUME initial_partition \in Partitions
  PROVE  Regions \subseteq Nat
BY ImageAssumption DEF Regions

LEMMA MaxMinOfPair ==
  ASSUME NEW a \in Int, NEW b \in Int
  PROVE  \/ Max({a, b}) = a /\ Min({a, b}) = b
         \/ Max({a, b}) = b /\ Min({a, b}) = a
<1>1. CASE a >= b
  BY <1>1 DEF Max, Min
<1>2. CASE b >= a
  BY <1>2 DEF Max, Min
<1> QED BY <1>1, <1>2

\* After a merging the pixels of both regions are in the father.
LEMMA RegionAfter ==
  ASSUME NEW m, NEW father, NEW son, Merging(m, father, son)
  PROVE  /\ Regions' = Regions
         /\ \A r \in Regions : labels'[r] = IF labels[r] = son THEN father ELSE labels[r]
         /\ \A p \in Pixels : RegionOf(p)' = IF RegionOf(p) = son THEN father ELSE RegionOf(p)
<1>1. initial_partition' = initial_partition /\ labels' = Relabelled(father, son)
  BY DEF Merging, input
<1>2. Regions' = Regions
  BY <1>1 DEF Regions
<1>3. \A r \in Regions : labels'[r] = IF labels[r] = son THEN father ELSE labels[r]
  BY <1>1 DEF Relabelled
<1>4. \A p \in Pixels : initial_partition[p] \in Regions
  BY DEF Regions
<1> QED BY <1>1, <1>2, <1>3, <1>4 DEF RegionOf

-----------------------------------------------------------------------------
(* Types.                                                                  *)

\* The types, and that no region is its own neighbour or merged with itself.
Tables ==
  /\ TypeOK
  /\ initial_partition \in Partitions
  /\ \A r \in Regions : r \notin DOMAIN neighbors[r]
  /\ \A m \in merging_queue : m.region1 # m.region2

LEMMA InitTables == Init => Tables
<1> SUFFICES ASSUME Init PROVE Tables
  OBVIOUS
<1>1. /\ labels = [r \in Regions |-> r] /\ boundary = [r \in Regions |-> InitialBoundary(r)]
      /\ neighbors = [r \in Regions |-> InitialNeighbors(r)]
      /\ ucm = [x \in Khalimsky |-> Zero]
      /\ pc = "merging" /\ initial_partition \in Partitions
  BY DEF Init
<1>2. ASSUME NEW r \in Regions, NEW b \in boundary[r]
      PROVE  b.coord \in Sites /\ b.cc_neigh \in Regions
  <2>1. PICK pq \in AdjacentPixels :
          b = [coord |-> Site(pq[1], pq[2]), cc_neigh |-> initial_partition[pq[2]]]
    BY <1>1 DEF InitialBoundary
  <2>2. pq[2] \in Pixels
    BY DEF AdjacentPixels
  <2> QED BY <2>1, <2>2 DEF Sites, Regions
<1>3. ASSUME NEW r \in Regions
      PROVE  DOMAIN neighbors[r] \subseteq Regions /\ r \notin DOMAIN neighbors[r]
  <2>1. DOMAIN neighbors[r] = {b.cc_neigh : b \in boundary[r]}
    BY <1>1 DEF InitialNeighbors
  <2>2. \A b \in boundary[r] : b.cc_neigh # r
    BY <1>1 DEF InitialBoundary
  <2> QED BY <1>2, <2>1, <2>2
<1>4. ASSUME NEW m \in merging_queue
      PROVE  m.region1 \in Regions /\ m.region2 \in Regions /\ m.region1 # m.region2
  <2>1. PICK r \in Regions :
          m \in {OrderNode(neighbors[r][n].energy, r, n) : n \in {k \in DOMAIN neighbors[r] : k > r}}
    BY DEF Init
  <2>2. PICK n \in DOMAIN neighbors[r] : m = OrderNode(neighbors[r][n].energy, r, n)
    BY <2>1
  <2> QED BY <1>3, <2>2 DEF OrderNode
<1>5. labels \in [Regions -> Regions]
  BY <1>1
<1>6. DOMAIN boundary = Regions /\ DOMAIN neighbors = Regions /\ DOMAIN ucm = Khalimsky
  BY <1>1
<1> QED BY <1>1, <1>2, <1>3, <1>4, <1>5, <1>6 DEF Tables, TypeOK

\* Both regions of a merging are regions that are still there.
LEMMA MergedAreActive ==
  ASSUME Tables, NEW m, NEW father, NEW son, Merging(m, father, son)
  PROVE  /\ father \in Regions /\ labels[father] = father
         /\ son \in Regions /\ labels[son] = son /\ son # father
         /\ {m.region1, m.region2} = {father, son}
<1>1. /\ m.region1 \in Regions /\ labels[m.region1] = m.region1
      /\ m.region2 \in Regions /\ labels[m.region2] = m.region2
      /\ m.region1 # m.region2
  BY DEF Tables, TypeOK, Merging, IsCurrent
<1>2. m.region1 \in Int /\ m.region2 \in Int
  BY <1>1, RegionsAreNumbers DEF Tables
<1>3. \/ father = m.region1 /\ son = m.region2
      \/ father = m.region2 /\ son = m.region1
  BY <1>2, MaxMinOfPair DEF Merging
<1> QED BY <1>1, <1>3

\* The neighbours of the father after a merging are other regions still there.
LEMMA MergedNeighborsActive ==
  ASSUME Tables, NEW father \in Regions, NEW son \in Regions,
         NEW n \in MergedNeighbors(father, son)
  PROVE  n \in Regions /\ labels[n] = n /\ n # father
BY DEF Tables, TypeOK, MergedNeighbors, Kept, Gained

\* The tables of neighbours after a merging.
LEMMA NeighborsAfter ==
  ASSUME Tables, NEW m, NEW father, NEW son, Merging(m, father, son), NEW r \in Regions
  PROVE  /\ r = father =>
              /\ DOMAIN neighbors'[r] = MergedNeighbors(father, son)
              /\ \A n \in MergedNeighbors(father, son) :
                   neighbors'[r][n] = Updated(Entry(r, n), father, son, n)
         /\ r = son => DOMAIN neighbors'[r] = {}
         /\ r # father /\ r # son /\ r \in MergedNeighbors(father, son) =>
              /\ DOMAIN neighbors'[r] = DOMAIN neighbors[r] \cup {father}
              /\ \A n \in DOMAIN neighbors[r] \ {father} : neighbors'[r][n] = neighbors[r][n]
              /\ neighbors'[r][father] = Updated(Entry(r, father), father, son, r)
         /\ r # father /\ r # son /\ r \notin MergedNeighbors(father, son) =>
              neighbors'[r] = neighbors[r]
<1> DEFINE N == MergedNeighbors(father, son)
<1>1. neighbors' = UpdatedNeighbors(father, son)
  BY DEF Merging
<1>2. neighbors'[r] =
        CASE r = father -> [n \in N |-> Updated(Entry(father, n), father, son, n)]
          [] r = son -> [n \in {} |-> 0]
          [] r \in N -> [n \in DOMAIN neighbors[r] \cup {father} |->
                           IF n = father THEN Updated(Entry(r, father), father, son, r)
                           ELSE neighbors[r][n]]
          [] OTHER -> neighbors[r]
  BY <1>1 DEF UpdatedNeighbors
<1>3. son # father /\ father \notin N /\ son \notin N
  BY MergedAreActive DEF Tables, MergedNeighbors, Kept, Gained
<1>4. CASE r = father
  <2>1. neighbors'[r] = [n \in N |-> Updated(Entry(father, n), father, son, n)]
    BY <1>2, <1>3, <1>4
  <2> QED BY <1>3, <1>4, <2>1
<1>5. CASE r = son
  <2>1. neighbors'[r] = [n \in {} |-> 0]
    BY <1>2, <1>3, <1>5
  <2> QED BY <1>3, <1>5, <2>1
<1>6. CASE r # father /\ r # son /\ r \in N
  <2>1. neighbors'[r] = [n \in DOMAIN neighbors[r] \cup {father} |->
                          IF n = father THEN Updated(Entry(r, father), father, son, r)
                          ELSE neighbors[r][n]]
    BY <1>2, <1>3, <1>6
  <2> QED BY <1>6, <2>1
<1>7. CASE r # father /\ r # son /\ r \notin N
  <2>1. neighbors'[r] = neighbors[r]
    BY <1>2, <1>7
  <2> QED BY <1>7, <2>1
<1> QED BY <1>4, <1>5, <1>6, <1>7

LEMMA MergingKeepsTables ==
  ASSUME Tables, NEW m, NEW father, NEW son, Merging(m, father, son)
  PROVE  Tables'
<1>1. Regions' = Regions /\ initial_partition' \in Partitions
  BY RegionAfter DEF Merging, input, Tables
<1>2. father \in Regions /\ son \in Regions
  BY MergedAreActive
<1>3. labels' \in [Regions' -> Regions']
  BY <1>1, <1>2 DEF Merging, Relabelled, Tables, TypeOK
<1>4. DOMAIN boundary' = Regions' /\ DOMAIN neighbors' = Regions'
  BY <1>1 DEF Merging, UpdatedNeighbors, Tables, TypeOK
<1>5. DOMAIN ucm' = Khalimsky
  BY DEF Merging, Raised
<1>6. pc' \in {"merging", "done", "not an ultrametric"}
  BY DEF Merging, Tables, TypeOK
<1>7. ASSUME NEW r \in Regions, NEW b \in boundary'[r]
      PROVE  b.coord \in Sites /\ b.cc_neigh \in Regions
  <2>1. boundary'[r] = IF r = son THEN {}
                       ELSE IF r = father THEN MergedBoundary(father, son) ELSE boundary[r]
    BY DEF Merging, Tables, TypeOK
  <2>2. b \in boundary[r] \/ b \in boundary[father] \/ b \in boundary[son]
    BY <2>1, <1>7 DEF MergedBoundary
  <2> QED BY <1>2, <2>2 DEF Tables, TypeOK
<1>8. ASSUME NEW r \in Regions
      PROVE  DOMAIN neighbors'[r] \subseteq Regions /\ r \notin DOMAIN neighbors'[r]
  <2> DEFINE N == MergedNeighbors(father, son)
  <2>1. \A n \in N : n \in Regions /\ n # father
    BY <1>2, MergedNeighborsActive
  <2>2. DOMAIN neighbors[r] \subseteq Regions /\ r \notin DOMAIN neighbors[r]
    BY DEF Tables, TypeOK
  <2>3. \/ r = father /\ DOMAIN neighbors'[r] = N
        \/ DOMAIN neighbors'[r] = {}
        \/ r # father /\ DOMAIN neighbors'[r] = DOMAIN neighbors[r] \cup {father}
        \/ neighbors'[r] = neighbors[r]
    BY NeighborsAfter
  <2> QED BY <1>2, <2>1, <2>2, <2>3
<1>9. ASSUME NEW x \in merging_queue'
      PROVE  x.region1 \in Regions /\ x.region2 \in Regions /\ x.region1 # x.region2
  <2>1. CASE x \in merging_queue
    BY <2>1 DEF Tables, TypeOK
  <2>2. CASE x \in Pushed(father, son)
    <3>1. PICK n \in MergedNeighbors(father, son) : x = OrderNode(Dissimilarity(father, son, n), n, father)
      BY <2>2 DEF Pushed
    <3>2. n \in Regions /\ n # father
      BY <1>2, MergedNeighborsActive
    <3> QED BY <1>2, <3>1, <3>2 DEF OrderNode
  <2> QED BY <2>1, <2>2, <1>9 DEF Merging
<1> QED BY <1>1, <1>3, <1>4, <1>5, <1>6, <1>7, <1>8, <1>9 DEF Tables, TypeOK

LEMMA TablesInvariant == Spec => []Tables
<1>1. Init => Tables
  BY InitTables
<1>2. Tables /\ [Next]_vars => Tables'
  <2> SUFFICES ASSUME Tables, [Next]_vars PROVE Tables'
    OBVIOUS
  <2>1. CASE SkipStale
    <3>1. merging_queue' \subseteq merging_queue
      BY <2>1 DEF SkipStale
    <3>2. UNCHANGED <<initial_partition, labels, boundary, neighbors, ucm, pc>>
      BY <2>1 DEF SkipStale, input
    <3> QED BY <3>1, <3>2 DEF Tables, TypeOK, Regions
  <2>2. CASE MergeTop
    <3>1. CASE NotUltrametric
      BY <3>1 DEF NotUltrametric, input, Tables, TypeOK, Regions
    <3>2. CASE \E m, father, son : Merging(m, father, son)
      BY <3>2, MergingKeepsTables
    <3> QED BY <2>2, <3>1, <3>2, MergeTopCases
  <2>3. CASE Complete
    <3>1. UNCHANGED <<initial_partition, labels, boundary, neighbors, merging_queue>>
      BY <2>3 DEF Complete, input
    <3>2. DOMAIN ucm' = Khalimsky /\ pc' = "done"
      BY <2>3 DEF Complete, complete_contour_map
    <3> QED BY <3>1, <3>2 DEF Tables, TypeOK, Regions
  <2>4. CASE UNCHANGED vars
    BY <2>4 DEF vars, Tables, TypeOK, Regions
  <2> QED BY <2>1, <2>2, <2>3, <2>4 DEF Next
<1> QED BY <1>1, <1>2, PTL DEF Spec

\* The tables are about regions of the initial partition and places of the
\* grid only, whatever the order of the mergings.
THEOREM TypeCorrect == Spec => []TypeOK
<1>1. Tables => TypeOK
  BY DEF Tables
<1> QED BY <1>1, TablesInvariant, PTL

-----------------------------------------------------------------------------
(* The lists of boundaries.                                                *)

\* b is a contour of region r: r lies on one side, b.cc_neigh, which is not
\* part of r, on the other.
IsContourOf(b, r) ==
  \E p, q \in Pixels :
    /\ Adjacent(p, q)
    /\ b.coord = Site(p, q) /\ b.cc_neigh = initial_partition[q]
    /\ RegionOf(p) = r /\ RegionOf(q) # r

\* The strengthening JoinedContoursFixed follows from: no list holds a contour
\* that lies inside its region.
BoundariesOutside == \A r \in Regions : \A b \in boundary[r] : IsContourOf(b, r)

LEMMA InitOutside == Init => BoundariesOutside
<1> SUFFICES ASSUME Init, NEW r \in Regions, NEW b \in boundary[r]
             PROVE  IsContourOf(b, r)
  BY DEF BoundariesOutside
<1>1. labels = [c \in Regions |-> c] /\ boundary = [c \in Regions |-> InitialBoundary(c)]
  BY DEF Init
<1>2. b \in InitialBoundary(r)
  BY <1>1
<1>3. PICK pq \in AdjacentPixels :
        /\ initial_partition[pq[1]] = r /\ initial_partition[pq[2]] # r
        /\ b = [coord |-> Site(pq[1], pq[2]), cc_neigh |-> initial_partition[pq[2]]]
  BY <1>2 DEF InitialBoundary
<1>4. pq[1] \in Pixels /\ pq[2] \in Pixels /\ Adjacent(pq[1], pq[2])
  BY DEF AdjacentPixels
<1>5. RegionOf(pq[1]) = r /\ RegionOf(pq[2]) # r
  BY <1>1, <1>3, <1>4 DEF RegionOf, Regions
<1> QED BY <1>3, <1>4, <1>5 DEF IsContourOf

LEMMA MergingKeepsOutside ==
  ASSUME Tables, BoundariesOutside, NEW m, NEW father, NEW son, Merging(m, father, son)
  PROVE  BoundariesOutside'
<1>1. /\ Regions' = Regions
      /\ \A p \in Pixels : RegionOf(p)' = IF RegionOf(p) = son THEN father ELSE RegionOf(p)
  BY RegionAfter
<1>2. initial_partition' = initial_partition
  BY DEF Merging, input
<1>3. father \in Regions /\ son \in Regions /\ father # son
  BY MergedAreActive
<1>4. SUFFICES ASSUME NEW r \in Regions, NEW b \in boundary'[r]
               PROVE  \E p, q \in Pixels :
                        /\ Adjacent(p, q)
                        /\ b.coord = Site(p, q) /\ b.cc_neigh = initial_partition[q]
                        /\ RegionOf(p)' = r /\ RegionOf(q)' # r
  BY <1>1, <1>2 DEF BoundariesOutside, IsContourOf
<1>5. boundary'[r] = IF r = son THEN {}
                     ELSE IF r = father THEN MergedBoundary(father, son) ELSE boundary[r]
  BY DEF Merging, Tables, TypeOK
<1>6. r # son
  BY <1>4, <1>5
<1>7. CASE r = father /\ b \in boundary[father] /\ labels[b.cc_neigh] # son
  <2>1. PICK p \in Pixels, q \in Pixels :
          /\ Adjacent(p, q)
          /\ b.coord = Site(p, q) /\ b.cc_neigh = initial_partition[q]
          /\ RegionOf(p) = father /\ RegionOf(q) # father
    BY <1>3, <1>7 DEF BoundariesOutside, IsContourOf
  <2>2. RegionOf(q) # son
    BY <1>7, <2>1 DEF RegionOf
  <2> QED BY <1>1, <1>3, <1>7, <2>1, <2>2
<1>8. CASE r = father /\ b \in boundary[son] /\ labels[b.cc_neigh] # father
  <2>1. PICK p \in Pixels, q \in Pixels :
          /\ Adjacent(p, q)
          /\ b.coord = Site(p, q) /\ b.cc_neigh = initial_partition[q]
          /\ RegionOf(p) = son /\ RegionOf(q) # son
    BY <1>3, <1>8 DEF BoundariesOutside, IsContourOf
  <2>2. RegionOf(q) # father
    BY <1>8, <2>1 DEF RegionOf
  <2> QED BY <1>1, <1>8, <2>1, <2>2
<1>9. CASE r # father
  <2>1. b \in boundary[r]
    BY <1>4, <1>5, <1>6, <1>9
  <2>2. PICK p \in Pixels, q \in Pixels :
          /\ Adjacent(p, q)
          /\ b.coord = Site(p, q) /\ b.cc_neigh = initial_partition[q]
          /\ RegionOf(p) = r /\ RegionOf(q) # r
    BY <2>1 DEF BoundariesOutside, IsContourOf
  <2> QED BY <1>1, <1>6, <1>9, <2>2
<1>10. r = father => b \in MergedBoundary(father, son)
  BY <1>4, <1>5, <1>6
<1> QED BY <1>7, <1>8, <1>9, <1>10 DEF MergedBoundary

LEMMA OutsideInvariant == Spec => []BoundariesOutside
<1>1. Init => BoundariesOutside
  BY InitOutside
<1>2. Tables /\ BoundariesOutside /\ [Next]_vars => BoundariesOutside'
  <2> SUFFICES ASSUME Tables, BoundariesOutside, [Next]_vars PROVE BoundariesOutside'
    OBVIOUS
  <2>1. CASE UNCHANGED <<initial_partition, labels, boundary>>
    BY <2>1 DEF BoundariesOutside, IsContourOf, RegionOf, Regions
  <2>2. CASE \E m, father, son : Merging(m, father, son)
    BY <2>2, MergingKeepsOutside
  <2>3. SkipStale \/ Complete \/ NotUltrametric \/ UNCHANGED vars =>
          UNCHANGED <<initial_partition, labels, boundary>>
    BY DEF SkipStale, Complete, NotUltrametric, vars, input
  <2> QED BY <2>1, <2>2, <2>3, MergeTopCases DEF Next
<1> QED BY <1>1, <1>2, TablesInvariant, PTL DEF Spec

\* A step leaves the contours inside a region alone: a merging raises only what
\* is in the son's list, which lies outside the son, and the places filled in at
\* the end are none where a contour lies.
LEMMA StepKeepsInside ==
  ASSUME Tables, BoundariesOutside, Next,
         NEW pq \in AdjacentPixels, RegionOf(pq[1]) = RegionOf(pq[2])
  PROVE  ucm'[Site(pq[1], pq[2])] = ucm[Site(pq[1], pq[2])]
<1> DEFINE x == Site(pq[1], pq[2])
<1>1. pq[1] \in Pixels /\ pq[2] \in Pixels /\ Adjacent(pq[1], pq[2])
  BY DEF AdjacentPixels
<1>2. x \in Khalimsky /\ (x[1] % 2 = 1 \/ x[2] % 2 = 1)
  BY <1>1, SiteOnGrid
<1>3. CASE UNCHANGED ucm
  BY <1>3
<1>4. CASE Complete
  <2>1. ucm' = complete_contour_map
    BY <1>4 DEF Complete
  <2> QED BY <1>2, <2>1 DEF complete_contour_map
<1>5. CASE \E m, father, son : Merging(m, father, son)
  <2>1. PICK m, father, son : Merging(m, father, son)
    BY <1>5
  <2>2. ASSUME NEW b \in boundary[son], b.coord = x
        PROVE  FALSE
    <3>1. son \in Regions
      BY <2>1, MergedAreActive
    <3>2. PICK p \in Pixels, q \in Pixels :
            Adjacent(p, q) /\ x = Site(p, q) /\ RegionOf(p) = son /\ RegionOf(q) # son
      BY <2>2, <3>1 DEF BoundariesOutside, IsContourOf
    <3>3. (p = pq[1] /\ q = pq[2]) \/ (p = pq[2] /\ q = pq[1])
      BY <1>1, <3>2, SiteInjective
    <3> QED BY <3>2, <3>3
  <2>3. ucm' = Raised(son, Saliency(m))
    BY <2>1 DEF Merging
  <2> QED BY <1>2, <2>2, <2>3 DEF Raised
<1>6. SkipStale \/ NotUltrametric => UNCHANGED ucm
  BY DEF SkipStale, NotUltrametric
<1> QED BY <1>3, <1>4, <1>5, <1>6, MergeTopCases DEF Next

\* Once its two sides are one region, a contour keeps its strength to the end.
THEOREM JoinedContoursCorrect == Spec => JoinedContoursFixed
<1> DEFINE Fixed == \A pq \in AdjacentPixels :
                      RegionOf(pq[1]) = RegionOf(pq[2]) =>
                        ucm'[Site(pq[1], pq[2])] = ucm[Site(pq[1], pq[2])]
<1>1. Tables /\ BoundariesOutside /\ [Next]_vars => [Fixed]_vars
  BY StepKeepsInside
<1> QED BY <1>1, TablesInvariant, OutsideInvariant, PTL DEF Spec, JoinedContoursFixed

-----------------------------------------------------------------------------
(* The lazy queue.                                                         *)

\* Pixels of the two regions are adjacent.
Meet(r, s) == \E p, q \in Pixels : Adjacent(p, q) /\ RegionOf(p) = r /\ RegionOf(q) = s

LEMMA MeetContours ==
  ASSUME NEW r, NEW s
  PROVE  /\ ContoursBetween(r, s) # {} <=> Meet(r, s)
         /\ Meet(r, s) => Meet(s, r)
<1>1. ContoursBetween(r, s) # {} => Meet(r, s)
  BY DEF ContoursBetween, AdjacentPixels, Meet
<1>2. ASSUME Meet(r, s)
      PROVE  ContoursBetween(r, s) # {} /\ Meet(s, r)
  <2>1. PICK p \in Pixels, q \in Pixels : Adjacent(p, q) /\ RegionOf(p) = r /\ RegionOf(q) = s
    BY <1>2 DEF Meet
  <2>2. <<p, q>> \in AdjacentPixels
    BY <2>1 DEF AdjacentPixels
  <2>3. Site(p, q) \in ContoursBetween(r, s)
    BY <2>1, <2>2 DEF ContoursBetween
  <2>4. Adjacent(q, p)
    BY <2>1 DEF Adjacent
  <2> QED BY <2>1, <2>3, <2>4 DEF Meet
<1> QED BY <1>1, <1>2

\* Two regions with a contour between them are in each other's tables ...
Listed ==
  /\ \A r \in Regions : \A n \in DOMAIN neighbors[r] : "energy" \in DOMAIN neighbors[r][n]
  /\ \A r, s \in Active : r # s /\ Meet(r, s) => s \in DOMAIN neighbors[r]
\* ... and in an entry of the queue that agrees with them.
IsQueued(r, s) ==
  \E m \in merging_queue : {m.region1, m.region2} = {r, s} /\ IsCurrent(m)
Queued == \A r, s \in Active : r # s /\ Meet(r, s) => IsQueued(r, s)
Covered == Listed /\ (pc # "not an ultrametric" => Queued)

LEMMA InitCovered == Init => Covered
<1> SUFFICES ASSUME Init PROVE Covered
  OBVIOUS
<1>1. /\ labels = [r \in Regions |-> r] /\ boundary = [r \in Regions |-> InitialBoundary(r)]
      /\ neighbors = [r \in Regions |-> InitialNeighbors(r)]
      /\ merging_queue = UNION {{OrderNode(neighbors[r][n].energy, r, n) :
                                   n \in {m \in DOMAIN neighbors[r] : m > r}} : r \in Regions}
      /\ initial_partition \in Partitions
  BY DEF Init
<1>2. ASSUME NEW r \in Regions, NEW n \in DOMAIN neighbors[r]
      PROVE  "energy" \in DOMAIN neighbors[r][n]
  <2> DEFINE C == {b.coord : b \in {x \in boundary[r] : x.cc_neigh = n}}
  <2>1. neighbors[r][n] = NeighborRegion(MapThenSumSet(Strength, C), Cardinality(C))
    BY <1>1 DEF InitialNeighbors
  <2> QED BY <2>1 DEF NeighborRegion
<1>3. ASSUME NEW r \in Regions, NEW s \in Regions, r # s, Meet(r, s)
      PROVE  s \in DOMAIN neighbors[r]
  <2>1. PICK p \in Pixels, q \in Pixels : Adjacent(p, q) /\ RegionOf(p) = r /\ RegionOf(q) = s
    BY <1>3 DEF Meet
  <2>2. initial_partition[p] = r /\ initial_partition[q] = s
    BY <1>1, <2>1 DEF RegionOf, Regions
  <2>3. <<p, q>> \in AdjacentPixels
    BY <2>1 DEF AdjacentPixels
  <2>4. [coord |-> Site(p, q), cc_neigh |-> s] \in InitialBoundary(r)
    BY <1>3, <2>2, <2>3 DEF InitialBoundary
  <2>5. \E b \in boundary[r] : b.cc_neigh = s
    BY <1>1, <2>4
  <2> QED BY <1>1, <2>5 DEF InitialNeighbors
<1>4. Listed
  BY <1>2, <1>3 DEF Listed, Active
<1>5. ASSUME NEW r \in Regions, NEW s \in Regions, s \in DOMAIN neighbors[r], s > r
      PROVE  IsQueued(r, s)
  <2> DEFINE m == OrderNode(neighbors[r][s].energy, r, s)
  <2>1. m \in merging_queue
    BY <1>1, <1>5
  <2>2. m.region1 = r /\ m.region2 = s /\ m.energy = neighbors[r][s].energy
    BY DEF OrderNode
  <2>3. IsCurrent(m)
    BY <1>1, <1>5, <2>2 DEF IsCurrent, Entry
  <2> QED BY <2>1, <2>2, <2>3 DEF IsQueued
<1>6. ASSUME NEW r \in Active, NEW s \in Active, r # s, Meet(r, s)
      PROVE  IsQueued(r, s)
  <2>1. r \in Regions /\ s \in Regions
    BY DEF Active
  <2>2. s \in DOMAIN neighbors[r] /\ r \in DOMAIN neighbors[s]
    BY <1>3, <1>6, <2>1, MeetContours
  <2>3. s > r \/ r > s
    BY <1>1, <1>6, <2>1, RegionsAreNumbers
  <2>4. IsQueued(r, s) \/ IsQueued(s, r)
    BY <1>5, <2>1, <2>2, <2>3
  <2> QED BY <2>4 DEF IsQueued
<1> QED BY <1>4, <1>6 DEF Covered, Queued

\* Which regions met before a merging, if two meet after it.
LEMMA MeetBefore ==
  ASSUME Tables, NEW m, NEW father, NEW son, Merging(m, father, son),
         NEW r \in Active', NEW s \in Active', r # s, Meet(r, s)'
  PROVE  /\ r \in Active /\ s \in Active /\ r # son /\ s # son
         /\ r # father /\ s # father => Meet(r, s)
         /\ r = father => Meet(father, s) \/ Meet(son, s)
<1>1. /\ Regions' = Regions
      /\ \A c \in Regions : labels'[c] = IF labels[c] = son THEN father ELSE labels[c]
      /\ \A p \in Pixels : RegionOf(p)' = IF RegionOf(p) = son THEN father ELSE RegionOf(p)
  BY RegionAfter
<1>2. /\ father \in Regions /\ labels[father] = father
      /\ son \in Regions /\ labels[son] = son /\ son # father
  BY MergedAreActive
<1>3. r \in Regions /\ s \in Regions /\ labels'[r] = r /\ labels'[s] = s
  BY <1>1 DEF Active
<1>4. r \in Active /\ s \in Active /\ r # son /\ s # son
  BY <1>1, <1>2, <1>3 DEF Active
<1>5. PICK p \in Pixels, q \in Pixels : Adjacent(p, q) /\ RegionOf(p)' = r /\ RegionOf(q)' = s
  BY DEF Meet
<1>6. r # father /\ s # father => Meet(r, s)
  BY <1>1, <1>5 DEF Meet
<1>7. r = father => Meet(father, s) \/ Meet(son, s)
  BY <1>1, <1>5 DEF Meet
<1> QED BY <1>4, <1>6, <1>7

\* A region that meets the father after a merging was in the table of one of
\* the two, so the loop over the neighbours of the father visits it.
LEMMA MeetsFather ==
  ASSUME Tables, Listed, NEW m, NEW father, NEW son, Merging(m, father, son),
         NEW s \in Active', s # father, father \in Active', Meet(father, s)'
  PROVE  s \in MergedNeighbors(father, son) /\ s \in Regions /\ s # son
<1>1. s \in Active /\ s # son /\ (Meet(father, s) \/ Meet(son, s))
  BY MeetBefore
<1>2. father \in Active /\ son \in Active /\ son # father
  BY MergedAreActive DEF Active
<1>3. s \in DOMAIN neighbors[father] \/ s \in DOMAIN neighbors[son]
  BY <1>1, <1>2 DEF Listed
<1> QED BY <1>1, <1>3 DEF MergedNeighbors, Kept, Gained, Active

LEMMA EntryHasEnergy ==
  ASSUME Listed, NEW r \in Regions, NEW n, NEW father, NEW son, NEW k
  PROVE  LET u == Updated(Entry(r, n), father, son, k)
         IN u.energy = Dissimilarity(father, son, k) /\ "energy" \in DOMAIN u
<1> DEFINE a == Added(Entry(r, n), father, son, k)
<1>1. "energy" \in DOMAIN Entry(r, n)
  BY DEF Listed, Entry
<1>2. "energy" \in DOMAIN a
  BY <1>1 DEF Added
<1>3. Updated(Entry(r, n), father, son, k) = [a EXCEPT !.energy = Dissimilarity(father, son, k)]
  BY DEF Updated
<1> HIDE DEF a
<1> QED BY <1>2, <1>3

LEMMA MergingKeepsListed ==
  ASSUME Tables, Listed, NEW m, NEW father, NEW son, Merging(m, father, son)
  PROVE  Listed'
<1> DEFINE N == MergedNeighbors(father, son)
<1>1. Regions' = Regions
  BY RegionAfter
<1>2. ASSUME NEW r \in Regions, NEW n \in DOMAIN neighbors'[r]
      PROVE  "energy" \in DOMAIN neighbors'[r][n]
  <2>1. \/ neighbors'[r][n] = neighbors[r][n] /\ n \in DOMAIN neighbors[r]
        \/ \E k, l : neighbors'[r][n] = Updated(Entry(r, l), father, son, k)
    BY <1>2, NeighborsAfter
  <2> QED BY <2>1, EntryHasEnergy DEF Listed
<1>3. ASSUME NEW r \in Active', NEW s \in Active', r # s, Meet(r, s)'
      PROVE  s \in DOMAIN neighbors'[r]
  <2>1. r \in Regions /\ s \in Regions /\ r # son /\ s # son
    BY <1>1, <1>3, MeetBefore DEF Active
  <2>2. CASE r = father
    BY <1>3, <2>1, <2>2, MeetsFather, NeighborsAfter
  <2>3. CASE s = father
    <3>1. Meet(father, r)'
      BY <1>3, <2>3 DEF Meet, Adjacent
    <3>2. r \in N
      BY <1>3, <2>3, <3>1, MeetsFather
    <3> QED BY <1>3, <2>1, <2>3, <3>2, NeighborsAfter
  <2>4. CASE r # father /\ s # father
    <3>1. r \in Active /\ s \in Active /\ Meet(r, s)
      BY <1>3, <2>4, MeetBefore
    <3>2. s \in DOMAIN neighbors[r]
      BY <1>3, <3>1 DEF Listed
    <3> QED BY <2>1, <2>4, <3>2, NeighborsAfter
  <2> QED BY <2>2, <2>3, <2>4
<1> QED BY <1>1, <1>2, <1>3 DEF Listed

\* Every neighbour of the father has a new entry, which agrees with its table.
LEMMA PushedAreCurrent ==
  ASSUME Tables, Listed, NEW m, NEW father, NEW son, Merging(m, father, son),
         NEW n \in MergedNeighbors(father, son), n # son
  PROVE  IsQueued(n, father)'
<1>1. PICK x \in merging_queue' : x = OrderNode(Dissimilarity(father, son, n), n, father)
  BY DEF Merging, Pushed
<1>2. x.energy = Dissimilarity(father, son, n) /\ x.region1 = n /\ x.region2 = father
  BY <1>1 DEF OrderNode
<1>3. /\ father \in Regions /\ labels[father] = father
      /\ son \in Regions /\ labels[son] = son /\ son # father
  BY MergedAreActive
<1>4. n \in Regions /\ labels[n] = n /\ n # father
  BY <1>3, MergedNeighborsActive
<1>5. labels'[n] = n /\ labels'[father] = father
  BY <1>3, <1>4, RegionAfter
<1>6. /\ father \in DOMAIN neighbors'[n]
      /\ neighbors'[n][father] = Updated(Entry(n, father), father, son, n)
  BY <1>4, NeighborsAfter
<1>7. neighbors'[n][father].energy = Dissimilarity(father, son, n)
  BY <1>4, <1>6, EntryHasEnergy
<1>8. IsCurrent(x)'
  BY <1>2, <1>5, <1>6, <1>7 DEF IsCurrent, Entry
<1> QED BY <1>2, <1>8 DEF IsQueued

\* An entry of two other regions stays as good as it was.
LEMMA OthersStayCurrent ==
  ASSUME Tables, NEW m, NEW father, NEW son, Merging(m, father, son),
         NEW r \in Regions, NEW s \in Regions, r \notin {father, son}, s \notin {father, son},
         IsQueued(r, s)
  PROVE  IsQueued(r, s)'
<1>1. PICK x \in merging_queue : {x.region1, x.region2} = {r, s} /\ IsCurrent(x)
  BY DEF IsQueued
<1>2. x # m
  BY <1>1, MergedAreActive
<1>3. x \in merging_queue'
  BY <1>2 DEF Merging
<1>4. /\ x.region1 \in Regions /\ x.region1 # father /\ x.region1 # son
      /\ x.region2 \in Regions /\ x.region2 # father /\ x.region2 # son
  BY <1>1
<1>5. labels'[x.region1] = x.region1 /\ labels'[x.region2] = x.region2
  BY <1>1, <1>4, RegionAfter DEF IsCurrent
<1>6. /\ x.region2 \in DOMAIN neighbors'[x.region1] <=> x.region2 \in DOMAIN neighbors[x.region1]
      /\ x.region2 \in DOMAIN neighbors[x.region1] =>
           neighbors'[x.region1][x.region2] = neighbors[x.region1][x.region2]
  BY <1>4, NeighborsAfter
<1>7. Entry(x.region1, x.region2)' = Entry(x.region1, x.region2)
  BY <1>6 DEF Entry
<1>8. IsCurrent(x)'
  BY <1>1, <1>5, <1>7 DEF IsCurrent
<1> QED BY <1>1, <1>3, <1>8 DEF IsQueued

LEMMA MergingKeepsQueued ==
  ASSUME Tables, Listed, Queued, NEW m, NEW father, NEW son, Merging(m, father, son)
  PROVE  Queued'
<1> SUFFICES ASSUME NEW r \in Active', NEW s \in Active', r # s, Meet(r, s)'
             PROVE  IsQueued(r, s)'
  BY DEF Queued
<1>1. r \in Active /\ s \in Active /\ r # son /\ s # son
  BY MeetBefore
<1>2. CASE r = father
  <2>1. IsQueued(s, father)'
    BY <1>2, MeetsFather, PushedAreCurrent
  <2> QED BY <1>2, <2>1 DEF IsQueued
<1>3. CASE s = father
  <2>1. Meet(father, r)'
    BY <1>3 DEF Meet, Adjacent
  <2> QED BY <1>3, <2>1, MeetsFather, PushedAreCurrent
<1>4. CASE r # father /\ s # father
  <2>1. IsQueued(r, s)
    BY <1>1, <1>4, MeetBefore DEF Queued
  <2> QED BY <1>1, <1>4, <2>1, OthersStayCurrent DEF Active
<1> QED BY <1>2, <1>3, <1>4

LEMMA CoveredInvariant == Spec => []Covered
<1>1. Init => Covered
  BY InitCovered
<1>2. Tables /\ Covered /\ [Next]_vars => Covered'
  <2> SUFFICES ASSUME Tables, Covered, [Next]_vars PROVE Covered'
    OBVIOUS
  <2>1. CASE UNCHANGED <<initial_partition, labels, neighbors>>
    <3>1. Listed'
      BY <2>1 DEF Covered, Listed, Active, Regions, Meet, RegionOf
    <3>2. /\ Active' = Active
          /\ \A r, s : Meet(r, s)' <=> Meet(r, s)
          /\ \A x : IsCurrent(x)' <=> IsCurrent(x)
      BY <2>1 DEF Active, Regions, Meet, RegionOf, IsCurrent, Entry
    <3>3. CASE /\ \A x \in merging_queue : IsCurrent(x) => x \in merging_queue'
               /\ pc # "not an ultrametric"
      <4>1. \A r, s : IsQueued(r, s) => IsQueued(r, s)'
        BY <3>2, <3>3 DEF IsQueued
      <4>2. Queued
        BY <3>3 DEF Covered
      <4>3. Queued'
        BY <3>2, <4>1, <4>2 DEF Queued
      <4> QED BY <3>1, <4>3 DEF Covered
    <3>4. CASE pc' = "not an ultrametric"
      BY <3>1, <3>4 DEF Covered
    <3>5. CASE \E m, father, son : Merging(m, father, son)
      BY <3>5, MergingKeepsListed, MergingKeepsQueued DEF Covered, Merging
    <3>6. SkipStale \/ Complete =>
            /\ \A x \in merging_queue : IsCurrent(x) => x \in merging_queue'
            /\ pc # "not an ultrametric"
      BY DEF SkipStale, Complete
    <3>7. UNCHANGED vars => UNCHANGED <<merging_queue, pc>>
      BY DEF vars
    <3>8. NotUltrametric => pc' = "not an ultrametric"
      BY DEF NotUltrametric
    <3> QED BY <3>3, <3>4, <3>5, <3>6, <3>7, <3>8, MergeTopCases DEF Next
  <2>2. CASE \E m, father, son : Merging(m, father, son)
    BY <2>2, MergingKeepsListed, MergingKeepsQueued DEF Covered, Merging
  <2>3. SkipStale \/ Complete \/ NotUltrametric \/ UNCHANGED vars =>
          UNCHANGED <<initial_partition, labels, neighbors>>
    BY DEF SkipStale, Complete, NotUltrametric, vars, input
  <2> QED BY <2>1, <2>2, <2>3, MergeTopCases DEF Next
<1> QED BY <1>1, <1>2, TablesInvariant, PTL DEF Spec

\* As long as the function has not given up, two regions with a contour between
\* them have an entry in the queue that will not be skipped: an entry goes out of
\* date only when a merging changes the mean, and that merging pushes anew.
THEOREM NoPairForgottenCorrect == Spec => []NoPairForgotten
<1>1. Covered => NoPairForgotten
  BY MeetContours DEF Covered, Queued, IsQueued, NoPairForgotten
<1> QED BY <1>1, CoveredInvariant, PTL

\* When the queue is empty and the map is returned, no two regions are left
\* with a contour between them.
THEOREM NothingLeftToMerge ==
  Spec => [](pc = "done" => \A r, s \in Active : r # s => ContoursBetween(r, s) = {})
<1> DEFINE Emptied == pc = "done" => merging_queue = {}
<1>1. Init => Emptied
  BY DEF Init
<1>2. Emptied /\ [Next]_vars => Emptied'
  BY DEF Next, SkipStale, MergeTop, Complete, vars
<1>3. Emptied /\ NoPairForgotten =>
        (pc = "done" => \A r, s \in Active : r # s => ContoursBetween(r, s) = {})
  BY DEF NoPairForgotten
<1> QED BY <1>1, <1>2, <1>3, NoPairForgottenCorrect, PTL DEF Spec

\* The sum over a set of contours, by its definition.
LEMMA SumIsTotal ==
  ASSUME NEW C
  PROVE  MapThenSumSet(Strength, C) = Total(local_boundaries, C)
BY DEF MapThenSumSet, MapThenFoldSet, Strength, Total, Solves, SumStep, OneOf

StrengthsOK == local_boundaries \in [Sites -> 0 .. MaxPb]

-----------------------------------------------------------------------------
(* The contours between two regions.                                       *)

LEMMA SitesFinite == IsFiniteSet(Sites) /\ Sites \subseteq Khalimsky
<1>1. Sites \subseteq Khalimsky
  BY SiteOnGrid DEF Sites, AdjacentPixels
<1>2. IsFiniteSet(0 .. 2 * Tx) /\ IsFiniteSet(0 .. 2 * Ty)
  BY FS_Interval, ImageAssumption
<1>3. IsFiniteSet(Khalimsky)
  BY <1>2, FS_Product DEF Khalimsky
<1> QED BY <1>1, <1>3, FS_Subset

LEMMA ContoursFinite ==
  ASSUME NEW r, NEW s
  PROVE  /\ ContoursBetween(r, s) \subseteq Sites
         /\ IsFiniteSet(ContoursBetween(r, s))
<1>1. ContoursBetween(r, s) \subseteq Sites
  BY DEF ContoursBetween, Sites
<1> QED BY <1>1, SitesFinite, FS_Subset

LEMMA ContoursSymmetric ==
  ASSUME NEW r, NEW s
  PROVE  ContoursBetween(r, s) = ContoursBetween(s, r)
<1>1. ASSUME NEW a, NEW b, NEW x \in ContoursBetween(a, b)
      PROVE  x \in ContoursBetween(b, a)
  <2>1. PICK pq \in AdjacentPixels :
          x = Site(pq[1], pq[2]) /\ RegionOf(pq[1]) = a /\ RegionOf(pq[2]) = b
    BY <1>1 DEF ContoursBetween
  <2> DEFINE qp == <<pq[2], pq[1]>>
  <2>2. qp \in AdjacentPixels
    BY DEF AdjacentPixels, Adjacent
  <2>3. /\ pq[1][1] \in Int /\ pq[1][2] \in Int
        /\ pq[2][1] \in Int /\ pq[2][2] \in Int
    BY ImageAssumption DEF AdjacentPixels, Pixels
  <2>4. Site(pq[1], pq[2]) = Site(pq[2], pq[1])
    BY <2>3 DEF Site
  <2>5. x = Site(qp[1], qp[2]) /\ RegionOf(qp[1]) = b /\ RegionOf(qp[2]) = a
    BY <2>1, <2>4
  <2> QED BY <2>2, <2>5 DEF ContoursBetween
<1> QED BY <1>1

\* A contour of two different pairs of regions does not exist.
LEMMA ContoursDisjoint ==
  ASSUME NEW a, NEW b, NEW n, a # b, n # a, n # b
  PROVE  ContoursBetween(a, n) \cap ContoursBetween(b, n) = {}
<1> SUFFICES ASSUME NEW x, x \in ContoursBetween(a, n), x \in ContoursBetween(b, n)
             PROVE  FALSE
  OBVIOUS
<1>1. PICK pq \in AdjacentPixels :
        x = Site(pq[1], pq[2]) /\ RegionOf(pq[1]) = a /\ RegionOf(pq[2]) = n
  BY DEF ContoursBetween
<1>2. PICK uv \in AdjacentPixels :
        x = Site(uv[1], uv[2]) /\ RegionOf(uv[1]) = b /\ RegionOf(uv[2]) = n
  BY DEF ContoursBetween
<1>3. /\ pq[1] \in Pixels /\ pq[2] \in Pixels /\ Adjacent(pq[1], pq[2])
      /\ uv[1] \in Pixels /\ uv[2] \in Pixels /\ Adjacent(uv[1], uv[2])
  BY DEF AdjacentPixels
<1>4. (uv[1] = pq[1] /\ uv[2] = pq[2]) \/ (uv[1] = pq[2] /\ uv[2] = pq[1])
  BY <1>1, <1>2, <1>3, SiteInjective
<1> QED BY <1>1, <1>2, <1>4

\* After a merging the father has the contours of both, other pairs their own.
LEMMA ContoursAfter ==
  ASSUME Tables, NEW m, NEW father, NEW son, Merging(m, father, son)
  PROVE  \A r, s : r # s /\ r # son /\ s # son =>
           /\ r # father /\ s # father => ContoursBetween(r, s)' = ContoursBetween(r, s)
           /\ r = father => ContoursBetween(r, s)' = ContoursBetween(r, s) \cup ContoursBetween(son, s)
           /\ s = father => ContoursBetween(r, s)' = ContoursBetween(r, s) \cup ContoursBetween(r, son)
<1>1. \A p \in Pixels : RegionOf(p)' = IF RegionOf(p) = son THEN father ELSE RegionOf(p)
  BY RegionAfter
<1>2. \A pq \in AdjacentPixels : pq[1] \in Pixels /\ pq[2] \in Pixels
  BY DEF AdjacentPixels
<1>3. \A r, s : ContoursBetween(r, s)' =
        {Site(pq[1], pq[2]) : pq \in {x \in AdjacentPixels : RegionOf(x[1])' = r /\ RegionOf(x[2])' = s}}
  BY DEF ContoursBetween
<1> TAKE r, s
<1> HAVE r # s /\ r # son /\ s # son
<1>4. CASE r # father /\ s # father
  <2>1. ContoursBetween(r, s)' = ContoursBetween(r, s)
    BY <1>1, <1>2, <1>3, <1>4 DEF ContoursBetween
  <2> QED BY <1>4, <2>1
<1>5. CASE r = father
  <2>1. \A x \in AdjacentPixels : (RegionOf(x[1])' = r /\ RegionOf(x[2])' = s) <=>
          ((RegionOf(x[1]) = r /\ RegionOf(x[2]) = s) \/ (RegionOf(x[1]) = son /\ RegionOf(x[2]) = s))
    BY <1>1, <1>2, <1>5
  <2>2. ContoursBetween(r, s)' = ContoursBetween(r, s) \cup ContoursBetween(son, s)
    BY <1>3, <2>1 DEF ContoursBetween
  <2> QED BY <1>5, <2>2
<1>6. CASE s = father
  <2>1. \A x \in AdjacentPixels : (RegionOf(x[1])' = r /\ RegionOf(x[2])' = s) <=>
          ((RegionOf(x[1]) = r /\ RegionOf(x[2]) = s) \/ (RegionOf(x[1]) = r /\ RegionOf(x[2]) = son))
    BY <1>1, <1>2, <1>6
  <2>2. ContoursBetween(r, s)' = ContoursBetween(r, s) \cup ContoursBetween(r, son)
    BY <1>3, <2>1 DEF ContoursBetween
  <2> QED BY <1>6, <2>2
<1> QED BY <1>4, <1>5, <1>6

-----------------------------------------------------------------------------
(* The totals.                                                             *)

\* The entry of two regions holds the totals of the contours between them.
Sum(r, s) == Total(local_boundaries, ContoursBetween(r, s))
Length(r, s) == Cardinality(ContoursBetween(r, s))
TableMatches(r, s) ==
  /\ s \in DOMAIN neighbors[r] <=> ContoursBetween(r, s) # {}
  /\ ContoursBetween(r, s) # {} => neighbors[r][s] = NeighborRegion(Sum(r, s), Length(r, s))
Matched == \A r, s \in Active : r # s => TableMatches(r, s)

LEMMA TotalsAreNumbers ==
  ASSUME StrengthsOK, NEW r, NEW s
  PROVE  /\ Sum(r, s) \in Nat /\ Length(r, s) \in Nat
         /\ Length(r, s) = 0 <=> ContoursBetween(r, s) = {}
         /\ ContoursBetween(r, s) = {} => Sum(r, s) = 0
<1> DEFINE C == ContoursBetween(r, s)
<1>1. IsFiniteSet(C) /\ C \subseteq Sites
  BY ContoursFinite
<1>2. \A x \in C : local_boundaries[x] \in Nat
  BY <1>1, ImageAssumption DEF StrengthsOK
<1> HIDE DEF C
<1>3. Total(local_boundaries, C) \in Nat
  BY <1>1, <1>2, TotalNat
<1>4. Cardinality(C) \in Nat /\ (Cardinality(C) = 0 <=> C = {})
  BY <1>1, FS_CardinalityType, FS_EmptySet
<1>5. C = {} => Total(local_boundaries, C) = 0
  BY TotalEmpty
<1> QED BY <1>3, <1>4, <1>5 DEF C, Sum, Length

LEMMA TotalsSymmetric ==
  ASSUME NEW r, NEW s
  PROVE  Sum(r, s) = Sum(s, r) /\ Length(r, s) = Length(s, r)
BY ContoursSymmetric DEF Sum, Length

LEMMA InitMatched == Init => Matched
<1> SUFFICES ASSUME Init, NEW r \in Active, NEW s \in Active, r # s
             PROVE  TableMatches(r, s)
  BY DEF Matched
<1>1. /\ labels = [c \in Regions |-> c] /\ boundary = [c \in Regions |-> InitialBoundary(c)]
      /\ neighbors = [c \in Regions |-> InitialNeighbors(c)]
  BY DEF Init
<1>2. r \in Regions /\ s \in Regions
  BY DEF Active
<1>3. \A p \in Pixels : RegionOf(p) = initial_partition[p]
  BY <1>1 DEF RegionOf, Regions
<1>4. \A pq \in AdjacentPixels : pq[1] \in Pixels /\ pq[2] \in Pixels
  BY DEF AdjacentPixels
<1> DEFINE C == {b.coord : b \in {x \in boundary[r] : x.cc_neigh = s}}
<1>5. C = ContoursBetween(r, s)
  <2>1. ASSUME NEW x \in C PROVE x \in ContoursBetween(r, s)
    <3>1. PICK b \in InitialBoundary(r) : b.cc_neigh = s /\ x = b.coord
      BY <1>1, <1>2, <2>1
    <3>2. PICK pq \in AdjacentPixels :
            /\ initial_partition[pq[1]] = r
            /\ b = [coord |-> Site(pq[1], pq[2]), cc_neigh |-> initial_partition[pq[2]]]
      BY <3>1 DEF InitialBoundary
    <3>3. x = Site(pq[1], pq[2]) /\ RegionOf(pq[1]) = r /\ RegionOf(pq[2]) = s
      BY <1>3, <1>4, <3>1, <3>2
    <3> QED BY <3>3 DEF ContoursBetween
  <2>2. ASSUME NEW x \in ContoursBetween(r, s) PROVE x \in C
    <3>1. PICK pq \in AdjacentPixels :
            x = Site(pq[1], pq[2]) /\ RegionOf(pq[1]) = r /\ RegionOf(pq[2]) = s
      BY <2>2 DEF ContoursBetween
    <3>2. initial_partition[pq[1]] = r /\ initial_partition[pq[2]] = s
      BY <1>3, <1>4, <3>1
    <3>3. [coord |-> x, cc_neigh |-> s] \in InitialBoundary(r)
      BY <3>1, <3>2 DEF InitialBoundary
    <3>4. \E b \in boundary[r] : b.cc_neigh = s /\ b.coord = x
      BY <1>1, <1>2, <3>3
    <3> QED BY <3>4
  <2> QED BY <2>1, <2>2
<1>6. s \in DOMAIN neighbors[r] <=> C # {}
  <2>1. DOMAIN neighbors[r] = {b.cc_neigh : b \in boundary[r]}
    BY <1>1, <1>2 DEF InitialNeighbors
  <2> QED BY <2>1
<1>7. C # {} => neighbors[r][s] = NeighborRegion(MapThenSumSet(Strength, C), Cardinality(C))
  <2>1. DOMAIN neighbors[r] = {b.cc_neigh : b \in boundary[r]}
    BY <1>1, <1>2 DEF InitialNeighbors
  <2>2. C # {} => s \in {b.cc_neigh : b \in boundary[r]}
    BY <1>6, <2>1
  <2> QED BY <1>1, <1>2, <2>2 DEF InitialNeighbors
<1> HIDE DEF C
<1>8. MapThenSumSet(Strength, C) = Sum(r, s) /\ Cardinality(C) = Length(r, s)
  BY <1>5, SumIsTotal DEF Sum, Length
<1> QED BY <1>5, <1>6, <1>7, <1>8 DEF TableMatches

\* What map::operator[] gives for two regions that are still there.
LEMMA EntryTotals ==
  ASSUME StrengthsOK, Matched, NEW r \in Active, NEW s \in Active, r # s
  PROVE  \E e : Entry(r, s) = [energy |-> e, total_pb |-> Sum(r, s), bdry_length |-> Length(r, s)]
<1>1. CASE ContoursBetween(r, s) # {}
  <2>1. Entry(r, s) = NeighborRegion(Sum(r, s), Length(r, s))
    BY <1>1 DEF Matched, TableMatches, Entry
  <2> QED BY <2>1 DEF NeighborRegion
<1>2. CASE ContoursBetween(r, s) = {}
  <2>1. Entry(r, s) = [energy |-> Zero, total_pb |-> 0, bdry_length |-> 0]
    BY <1>2 DEF Matched, TableMatches, Entry
  <2>2. Sum(r, s) = 0 /\ Length(r, s) = 0
    BY <1>2, TotalsAreNumbers
  <2> QED BY <2>1, <2>2
<1> QED BY <1>1, <1>2

\* The totals of a son are added exactly when there are contours to add.
LEMMA AddedTotals ==
  ASSUME StrengthsOK, Matched, NEW father \in Active, NEW son \in Active, father # son,
         NEW n \in Active, n # father, n # son,
         NEW e, NEW t, t = [energy |-> e, total_pb |-> Sum(father, n), bdry_length |-> Length(father, n)]
  PROVE  Added(t, father, son, n) =
           [energy |-> e, total_pb |-> Sum(father, n) + Sum(son, n),
            bdry_length |-> Length(father, n) + Length(son, n)]
<1>1. n \in Gained(father, son) <=> ContoursBetween(son, n) # {}
  BY DEF Gained, Active, Matched, TableMatches
<1>2. Sum(father, n) \in Nat /\ Length(father, n) \in Nat
  BY TotalsAreNumbers
<1>3. CASE ContoursBetween(son, n) = {}
  <2>1. Sum(son, n) = 0 /\ Length(son, n) = 0
    BY <1>3, TotalsAreNumbers
  <2>2. Sum(father, n) + Sum(son, n) = Sum(father, n)
    BY <1>2, <2>1
  <2>3. Length(father, n) + Length(son, n) = Length(father, n)
    BY <1>2, <2>1
  <2>4. Added(t, father, son, n) = t
    BY <1>1, <1>3 DEF Added
  <2> QED BY <2>2, <2>3, <2>4
<1>4. CASE ContoursBetween(son, n) # {}
  <2>1. neighbors[son][n] = NeighborRegion(Sum(son, n), Length(son, n))
    BY <1>4 DEF Matched, TableMatches
  <2>2. neighbors[son][n].total_pb = Sum(son, n) /\ neighbors[son][n].bdry_length = Length(son, n)
    BY <2>1 DEF NeighborRegion
  <2>3. Added(t, father, son, n) = [t EXCEPT !.total_pb = @ + Sum(son, n),
                                             !.bdry_length = @ + Length(son, n)]
    BY <1>1, <1>4, <2>2 DEF Added
  <2> QED BY <2>3
<1> QED BY <1>3, <1>4

\* The new energy of a neighbour is the mean over the contours of both.
LEMMA UpdatedTotals ==
  ASSUME StrengthsOK, Matched, NEW father \in Active, NEW son \in Active, father # son,
         NEW n \in Active, n # father, n # son
  PROVE  LET T == Sum(father, n) + Sum(son, n)
             L == Length(father, n) + Length(son, n)
         IN /\ Dissimilarity(father, son, n) = Quotient(T, L)
            /\ Updated(Entry(father, n), father, son, n) = NeighborRegion(T, L)
            /\ Updated(Entry(n, father), father, son, n) = NeighborRegion(T, L)
<1> DEFINE T == Sum(father, n) + Sum(son, n)
           L == Length(father, n) + Length(son, n)
<1>1. PICK e : Entry(father, n) =
                 [energy |-> e, total_pb |-> Sum(father, n), bdry_length |-> Length(father, n)]
  BY EntryTotals
<1>2. PICK f : Entry(n, father) =
                 [energy |-> f, total_pb |-> Sum(father, n), bdry_length |-> Length(father, n)]
  BY EntryTotals, TotalsSymmetric
<1>3. Added(Entry(father, n), father, son, n) = [energy |-> e, total_pb |-> T, bdry_length |-> L]
  BY <1>1, AddedTotals
<1>4. Added(Entry(n, father), father, son, n) = [energy |-> f, total_pb |-> T, bdry_length |-> L]
  BY <1>2, AddedTotals
<1> HIDE DEF T, L
<1>5. Dissimilarity(father, son, n) = Quotient(T, L)
  BY <1>3 DEF Dissimilarity
<1>6. Updated(Entry(father, n), father, son, n) = NeighborRegion(T, L)
  BY <1>3, <1>5 DEF Updated, NeighborRegion
<1>7. Updated(Entry(n, father), father, son, n) = NeighborRegion(T, L)
  BY <1>4, <1>5 DEF Updated, NeighborRegion
<1> QED BY <1>5, <1>6, <1>7 DEF T, L

\* Contours of two regions with a third are different ones, so totals add up.
LEMMA TotalsAfter ==
  ASSUME StrengthsOK, NEW a, NEW b, NEW n, a # b, n # a, n # b, NEW C,
         C = ContoursBetween(a, n) \cup ContoursBetween(b, n)
  PROVE  /\ Total(local_boundaries, C) = Sum(a, n) + Sum(b, n)
         /\ Cardinality(C) = Length(a, n) + Length(b, n)
<1> DEFINE A == ContoursBetween(a, n)
           B == ContoursBetween(b, n)
<1>1. IsFiniteSet(A) /\ A \subseteq Sites /\ IsFiniteSet(B) /\ B \subseteq Sites
  BY ContoursFinite
<1>2. A \cap B = {}
  BY ContoursDisjoint
<1>3. \A x \in A \cup B : local_boundaries[x] \in Nat
  BY <1>1, ImageAssumption DEF StrengthsOK
<1>4. C = A \cup B /\ Sum(a, n) = Total(local_boundaries, A) /\ Sum(b, n) = Total(local_boundaries, B)
      /\ Length(a, n) = Cardinality(A) /\ Length(b, n) = Cardinality(B)
  BY DEF Sum, Length
<1> HIDE DEF A, B
<1>5. Total(local_boundaries, A \cup B) = Total(local_boundaries, A) + Total(local_boundaries, B)
  BY <1>1, <1>2, <1>3, TotalUnion
<1>6. Cardinality(A \cup B) = Cardinality(A) + Cardinality(B)
  <2>1. Cardinality(A \cap B) = 0
    BY <1>2, FS_EmptySet
  <2>2. Cardinality(A) \in Nat /\ Cardinality(B) \in Nat
    BY <1>1, FS_CardinalityType
  <2>3. Cardinality(A \cup B) = Cardinality(A) + Cardinality(B) - Cardinality(A \cap B)
    BY <1>1, FS_Union
  <2> QED BY <2>1, <2>2, <2>3
<1> QED BY <1>4, <1>5, <1>6

LEMMA ActiveAfter ==
  ASSUME Tables, NEW m, NEW father, NEW son, Merging(m, father, son)
  PROVE  /\ \A r \in Active' : r \in Active /\ r # son
         /\ father \in Active /\ son \in Active /\ father # son
<1>1. /\ Regions' = Regions
      /\ \A c \in Regions : labels'[c] = IF labels[c] = son THEN father ELSE labels[c]
  BY RegionAfter
<1>2. /\ father \in Regions /\ labels[father] = father
      /\ son \in Regions /\ labels[son] = son /\ son # father
  BY MergedAreActive
<1> QED BY <1>1, <1>2 DEF Active

LEMMA NeighborsOfFather ==
  ASSUME Matched, NEW father \in Active, NEW son \in Active,
         NEW n \in Active, n # father, n # son
  PROVE  n \in MergedNeighbors(father, son) <=>
           ContoursBetween(father, n) \cup ContoursBetween(son, n) # {}
<1>1. n \in MergedNeighbors(father, son) <=>
        (n \in DOMAIN neighbors[father] \/ n \in DOMAIN neighbors[son])
  BY DEF MergedNeighbors, Kept, Gained, Active
<1> QED BY <1>1 DEF Matched, TableMatches

LEMMA MergingKeepsMatched ==
  ASSUME Tables, StrengthsOK, Matched, NEW m, NEW father, NEW son, Merging(m, father, son)
  PROVE  Matched'
<1>1. local_boundaries' = local_boundaries
  BY DEF Merging, input
<1>2. SUFFICES ASSUME NEW r \in Active', NEW s \in Active', r # s
               PROVE  TableMatches(r, s)'
  BY DEF Matched
<1>3. /\ r \in Active /\ r # son /\ s \in Active /\ s # son
      /\ father \in Active /\ son \in Active /\ father # son
  BY ActiveAfter
<1>4. r \in Regions /\ s \in Regions /\ father \in Regions /\ son \in Regions
  BY <1>3 DEF Active
<1> DEFINE N == MergedNeighbors(father, son)
           C == ContoursBetween(r, s)'
<1>5. SUFFICES /\ s \in DOMAIN neighbors'[r] <=> C # {}
               /\ C # {} => neighbors'[r][s] =
                              NeighborRegion(Total(local_boundaries, C), Cardinality(C))
  BY <1>1 DEF TableMatches, Sum, Length
<1>6. CASE r = father
  <2>1. C = ContoursBetween(father, s) \cup ContoursBetween(son, s)
    BY <1>2, <1>3, <1>6, ContoursAfter
  <2>2. DOMAIN neighbors'[r] = N
        /\ \A n \in N : neighbors'[r][n] = Updated(Entry(father, n), father, son, n)
    BY <1>4, <1>6, NeighborsAfter
  <2>3. s \in N <=> C # {}
    BY <1>2, <1>3, <1>6, <2>1, NeighborsOfFather
  <2>4. Updated(Entry(father, s), father, son, s) =
          NeighborRegion(Sum(father, s) + Sum(son, s), Length(father, s) + Length(son, s))
    BY <1>2, <1>3, <1>6, UpdatedTotals
  <2> HIDE DEF C
  <2>5. /\ Total(local_boundaries, C) = Sum(father, s) + Sum(son, s)
        /\ Cardinality(C) = Length(father, s) + Length(son, s)
    BY <1>2, <1>3, <1>6, <2>1, TotalsAfter
  <2> QED BY <2>2, <2>3, <2>4, <2>5
<1>7. CASE s = father
  <2>1. C = ContoursBetween(father, r) \cup ContoursBetween(son, r)
    BY <1>2, <1>3, <1>7, ContoursAfter, ContoursSymmetric
  <2>2. r \in N <=> C # {}
    BY <1>2, <1>3, <1>7, <2>1, NeighborsOfFather
  <2>3. Updated(Entry(r, father), father, son, r) =
          NeighborRegion(Sum(father, r) + Sum(son, r), Length(father, r) + Length(son, r))
    BY <1>2, <1>3, <1>7, UpdatedTotals
  <2> HIDE DEF C
  <2>4. /\ Total(local_boundaries, C) = Sum(father, r) + Sum(son, r)
        /\ Cardinality(C) = Length(father, r) + Length(son, r)
    BY <1>2, <1>3, <1>7, <2>1, TotalsAfter
  <2>5. CASE r \in N
    <3>1. /\ father \in DOMAIN neighbors'[r]
          /\ neighbors'[r][father] = Updated(Entry(r, father), father, son, r)
      BY <1>2, <1>3, <1>4, <1>7, <2>5, NeighborsAfter
    <3> QED BY <1>7, <2>2, <2>3, <2>4, <2>5, <3>1
  <2>6. CASE r \notin N
    <3>1. neighbors'[r] = neighbors[r]
      BY <1>2, <1>3, <1>4, <1>7, <2>6, NeighborsAfter
    <3>2. ContoursBetween(r, father) = {}
      BY <2>1, <2>2, <2>6, ContoursSymmetric
    <3>3. father \notin DOMAIN neighbors[r]
      BY <1>2, <1>3, <1>7, <3>2 DEF Matched, TableMatches
    <3> QED BY <1>7, <2>2, <2>6, <3>1, <3>3
  <2> QED BY <2>5, <2>6
<1>8. CASE r # father /\ s # father
  <2>1. C = ContoursBetween(r, s)
    BY <1>2, <1>3, <1>8, ContoursAfter
  <2>2. /\ s \in DOMAIN neighbors'[r] <=> s \in DOMAIN neighbors[r]
        /\ s \in DOMAIN neighbors[r] => neighbors'[r][s] = neighbors[r][s]
    BY <1>3, <1>4, <1>8, NeighborsAfter
  <2>3. TableMatches(r, s)
    BY <1>2, <1>3 DEF Matched
  <2> QED BY <2>1, <2>2, <2>3 DEF TableMatches, Sum, Length
<1> QED BY <1>6, <1>7, <1>8

LEMMA MatchedInvariant == Spec => [](StrengthsOK /\ Matched)
<1>1. Init => StrengthsOK /\ Matched
  BY InitMatched DEF Init, StrengthsOK
<1>2. Tables /\ StrengthsOK /\ Matched /\ [Next]_vars => (StrengthsOK /\ Matched)'
  <2> SUFFICES ASSUME Tables, StrengthsOK, Matched, [Next]_vars
               PROVE  StrengthsOK' /\ Matched'
    OBVIOUS
  <2>1. CASE UNCHANGED <<input, labels, neighbors>>
    <3>1. /\ StrengthsOK' /\ UNCHANGED <<local_boundaries, neighbors>>
          /\ Active' = Active
      BY <2>1 DEF input, StrengthsOK, Active, Regions
    <3>2. \A r, s : ContoursBetween(r, s)' = ContoursBetween(r, s)
      BY <2>1 DEF input, ContoursBetween, RegionOf
    <3>3. \A r, s : TableMatches(r, s)' <=> TableMatches(r, s)
      BY <3>1, <3>2 DEF TableMatches, Sum, Length
    <3> QED BY <3>1, <3>3 DEF Matched
  <2>2. CASE \E m, father, son : Merging(m, father, son)
    <3>1. UNCHANGED local_boundaries
      BY <2>2 DEF Merging, input
    <3> QED BY <2>2, <3>1, MergingKeepsMatched DEF StrengthsOK
  <2>3. SkipStale \/ Complete \/ NotUltrametric \/ UNCHANGED vars =>
          UNCHANGED <<input, labels, neighbors>>
    BY DEF SkipStale, Complete, NotUltrametric, vars, input
  <2> QED BY <2>1, <2>2, <2>3, MergeTopCases DEF Next
<1> QED BY <1>1, <1>2, TablesInvariant, PTL DEF Spec

-----------------------------------------------------------------------------
(* The lists of boundaries hold every contour of their region.             *)

BoundariesComplete ==
  \A p, q \in Pixels : Adjacent(p, q) /\ RegionOf(p) # RegionOf(q) =>
    [coord |-> Site(p, q), cc_neigh |-> initial_partition[q]] \in boundary[RegionOf(p)]

LEMMA InitComplete == Init => BoundariesComplete
<1> SUFFICES ASSUME Init, NEW p \in Pixels, NEW q \in Pixels, Adjacent(p, q),
                    RegionOf(p) # RegionOf(q)
             PROVE  [coord |-> Site(p, q), cc_neigh |-> initial_partition[q]]
                      \in boundary[RegionOf(p)]
  BY DEF BoundariesComplete
<1>1. labels = [c \in Regions |-> c] /\ boundary = [c \in Regions |-> InitialBoundary(c)]
  BY DEF Init
<1>2. RegionOf(p) = initial_partition[p] /\ RegionOf(q) = initial_partition[q]
  BY <1>1 DEF RegionOf, Regions
<1>3. initial_partition[p] \in Regions
  BY DEF Regions
<1> DEFINE pq == <<p, q>>
<1>4. pq \in AdjacentPixels /\ pq[1] = p /\ pq[2] = q
  BY DEF AdjacentPixels
<1>5. initial_partition[pq[1]] = RegionOf(p) /\ initial_partition[pq[2]] # RegionOf(p)
  BY <1>2, <1>4
<1>6. [coord |-> Site(pq[1], pq[2]), cc_neigh |-> initial_partition[pq[2]]]
        \in InitialBoundary(RegionOf(p))
  BY <1>4, <1>5 DEF InitialBoundary
<1> QED BY <1>1, <1>2, <1>3, <1>4, <1>6

LEMMA MergingKeepsComplete ==
  ASSUME Tables, BoundariesComplete, NEW m, NEW father, NEW son, Merging(m, father, son)
  PROVE  BoundariesComplete'
<1>1. \A p \in Pixels : RegionOf(p)' = IF RegionOf(p) = son THEN father ELSE RegionOf(p)
  BY RegionAfter
<1>2. initial_partition' = initial_partition
  BY DEF Merging, input
<1>3. father \in Regions /\ son \in Regions /\ father # son
  BY MergedAreActive
<1>4. SUFFICES ASSUME NEW p \in Pixels, NEW q \in Pixels, Adjacent(p, q),
                      RegionOf(p)' # RegionOf(q)'
               PROVE  [coord |-> Site(p, q), cc_neigh |-> initial_partition[q]]
                        \in boundary'[RegionOf(p)']
  BY <1>2 DEF BoundariesComplete
<1> DEFINE b == [coord |-> Site(p, q), cc_neigh |-> initial_partition[q]]
<1>5. b \in boundary[RegionOf(p)] /\ labels[b.cc_neigh] = RegionOf(q)
  BY <1>1, <1>4 DEF BoundariesComplete, RegionOf
<1> HIDE DEF b
<1>6. \A r \in Regions :
        boundary'[r] = IF r = son THEN {}
                       ELSE IF r = father THEN MergedBoundary(father, son) ELSE boundary[r]
  BY DEF Merging, Tables, TypeOK
<1>7. RegionOf(p) \in Regions
  BY DEF Tables, TypeOK, RegionOf, Regions
<1>8. CASE RegionOf(p) = father
  <2>1. RegionOf(p)' = father /\ RegionOf(q) # son
    BY <1>1, <1>3, <1>4, <1>8
  <2>2. b \in MergedBoundary(father, son)
    BY <1>5, <1>8, <2>1 DEF MergedBoundary
  <2> QED BY <1>3, <1>6, <2>1, <2>2 DEF b
<1>9. CASE RegionOf(p) = son
  <2>1. RegionOf(p)' = father /\ RegionOf(q) # father
    BY <1>1, <1>3, <1>4, <1>9
  <2>2. b \in MergedBoundary(father, son)
    BY <1>5, <1>9, <2>1 DEF MergedBoundary
  <2> QED BY <1>3, <1>6, <2>1, <2>2 DEF b
<1>10. CASE RegionOf(p) # father /\ RegionOf(p) # son
  BY <1>1, <1>5, <1>6, <1>7, <1>10 DEF b
<1> QED BY <1>8, <1>9, <1>10

LEMMA CompleteInvariant == Spec => []BoundariesComplete
<1>1. Init => BoundariesComplete
  BY InitComplete
<1>2. Tables /\ BoundariesComplete /\ [Next]_vars => BoundariesComplete'
  <2> SUFFICES ASSUME Tables, BoundariesComplete, [Next]_vars PROVE BoundariesComplete'
    OBVIOUS
  <2>1. CASE UNCHANGED <<input, labels, boundary>>
    BY <2>1 DEF input, BoundariesComplete, RegionOf
  <2>2. CASE \E m, father, son : Merging(m, father, son)
    BY <2>2, MergingKeepsComplete
  <2>3. SkipStale \/ Complete \/ NotUltrametric \/ UNCHANGED vars =>
          UNCHANGED <<input, labels, boundary>>
    BY DEF SkipStale, Complete, NotUltrametric, vars, input
  <2> QED BY <2>1, <2>2, <2>3, MergeTopCases DEF Next
<1> QED BY <1>1, <1>2, TablesInvariant, PTL DEF Spec

\* For every image, partition and strengths: the tables and boundary lists that
\* a merging updates by hand are those a computation from the image would give.
THEOREM TotalsCorrect == Spec => []TotalsMatchContours
<1>1. Matched /\ BoundariesOutside /\ BoundariesComplete => TotalsMatchContours
  <2> SUFFICES ASSUME Matched, BoundariesOutside, BoundariesComplete,
                      NEW r \in Active, NEW s \in Active, r # s
               PROVE  LET C == ContoursBetween(r, s) IN
                      /\ s \in DOMAIN neighbors[r] <=> C # {}
                      /\ C # {} => neighbors[r][s] =
                                     NeighborRegion(MapThenSumSet(Strength, C), Cardinality(C))
                      /\ {b.coord : b \in {x \in boundary[r] : labels[x.cc_neigh] = s}} = C
    BY DEF TotalsMatchContours
  <2> DEFINE C == ContoursBetween(r, s)
             B == {b.coord : b \in {x \in boundary[r] : labels[x.cc_neigh] = s}}
  <2>1. TableMatches(r, s) /\ MapThenSumSet(Strength, C) = Sum(r, s) /\ Cardinality(C) = Length(r, s)
    BY SumIsTotal DEF Matched, Sum, Length
  <2>2. ASSUME NEW x \in B PROVE x \in C
    <3>1. PICK b \in boundary[r] : labels[b.cc_neigh] = s /\ x = b.coord
      BY <2>2
    <3>2. PICK p \in Pixels, q \in Pixels :
            /\ Adjacent(p, q)
            /\ x = Site(p, q) /\ b.cc_neigh = initial_partition[q]
            /\ RegionOf(p) = r
      BY <3>1 DEF BoundariesOutside, IsContourOf, Active
    <3>3. RegionOf(q) = s
      BY <3>1, <3>2 DEF RegionOf
    <3>4. <<p, q>> \in AdjacentPixels
      BY <3>2 DEF AdjacentPixels
    <3> QED BY <3>2, <3>3, <3>4 DEF ContoursBetween
  <2>3. ASSUME NEW x \in C PROVE x \in B
    <3>1. PICK pq \in AdjacentPixels :
            x = Site(pq[1], pq[2]) /\ RegionOf(pq[1]) = r /\ RegionOf(pq[2]) = s
      BY <2>3 DEF ContoursBetween
    <3>2. pq[1] \in Pixels /\ pq[2] \in Pixels /\ Adjacent(pq[1], pq[2])
      BY DEF AdjacentPixels
    <3>3. [coord |-> x, cc_neigh |-> initial_partition[pq[2]]] \in boundary[r]
      BY <3>1, <3>2 DEF BoundariesComplete
    <3>4. labels[initial_partition[pq[2]]] = s
      BY <3>1 DEF RegionOf
    <3> QED BY <3>3, <3>4
  <2>4. B = C
    BY <2>2, <2>3
  <2> HIDE DEF B, C
  <2> QED BY <2>1, <2>4 DEF TableMatches, B, C
<1> QED BY <1>1, MatchedInvariant, OutsideInvariant, CompleteInvariant, PTL

-----------------------------------------------------------------------------
(* The energies.                                                           *)

\* Nothing in the queue is below the energy merged last, so the function does
\* not give up.
EnergiesAscend ==
  /\ IsQuotient(current_energy)
  /\ \A x \in merging_queue : IsQuotient(x.energy) /\ AtMost(current_energy, x.energy)
  /\ pc # "not an ultrametric"

LEMMA InitEnergiesAscend == Init => EnergiesAscend
<1> SUFFICES ASSUME Init PROVE EnergiesAscend
  OBVIOUS
<1>1. IsQuotient(Zero) /\ current_energy = Zero /\ pc = "merging"
  BY DEF Init, IsQuotient, Zero
<1>2. ASSUME NEW x \in merging_queue
      PROVE  IsQuotient(x.energy) /\ AtMost(Zero, x.energy)
  <2>1. PICK r \in Regions :
          x \in {OrderNode(neighbors[r][k].energy, r, k) : k \in {l \in DOMAIN neighbors[r] : l > r}}
    BY DEF Init
  <2>2. PICK n \in DOMAIN neighbors[r] : n > r /\ x = OrderNode(neighbors[r][n].energy, r, n)
    BY <2>1
  <2>3. r # n /\ r \in Active /\ n \in Active
    <3>1. r \in Int
      BY RegionsAreNumbers DEF Init
    <3>2. n \in Regions
      BY InitTables DEF Tables, TypeOK
    <3>3. labels = [c \in Regions |-> c]
      BY DEF Init
    <3> QED BY <2>2, <3>1, <3>2, <3>3 DEF Active
  <2>4. ContoursBetween(r, n) # {} /\ neighbors[r][n] = NeighborRegion(Sum(r, n), Length(r, n))
    BY <2>3, InitMatched DEF Matched, TableMatches
  <2>5. x.energy = Quotient(Sum(r, n), Length(r, n))
    BY <2>2, <2>4 DEF OrderNode, NeighborRegion
  <2>6. Sum(r, n) \in Nat /\ Length(r, n) \in Nat \ {0}
    BY <2>4, TotalsAreNumbers DEF Init, StrengthsOK
  <2>7. IsQuotient(x.energy)
    BY <1>1, <2>5, <2>6, AtMostQuotient
  <2>8. AtMost(Zero, x.energy)
    BY <2>7 DEF IsQuotient, AtMost, Zero
  <2> QED BY <2>7, <2>8
<1> QED BY <1>1, <1>2 DEF EnergiesAscend

\* The top of the queue is the least mean of all regions that touch.
LEMMA TopIsLeast ==
  ASSUME Tables, StrengthsOK, Matched, Covered, EnergiesAscend, NEW m \in merging_queue, IsTop(m)
  PROVE  /\ \A x \in merging_queue : AtMost(m.energy, x.energy)
         /\ \A r, s \in Active : r # s /\ ContoursBetween(r, s) # {} =>
              AtMost(m.energy, Quotient(Sum(r, s), Length(r, s)))
<1>1. ASSUME NEW x \in merging_queue
      PROVE  AtMost(m.energy, x.energy)
  <2>1. ~ Below(x.energy, m.energy)
    BY DEF IsTop, Before
  <2>2. IsQuotient(x.energy) /\ IsQuotient(m.energy)
    BY DEF EnergiesAscend
  <2> QED BY <2>1, <2>2 DEF Below, AtMost, IsQuotient
<1>2. ASSUME NEW r \in Active, NEW s \in Active, r # s, ContoursBetween(r, s) # {}
      PROVE  AtMost(m.energy, Quotient(Sum(r, s), Length(r, s)))
  <2>1. IsQueued(r, s)
    BY <1>2, MeetContours DEF Covered, Queued, EnergiesAscend
  <2>2. PICK x \in merging_queue : {x.region1, x.region2} = {r, s} /\ IsCurrent(x)
    BY <2>1 DEF IsQueued
  <2> DEFINE a == x.region1
             b == x.region2
  <2>3. (a = r /\ b = s) \/ (a = s /\ b = r)
    BY <2>2
  <2>4. Sum(a, b) = Sum(r, s) /\ Length(a, b) = Length(r, s) /\ ContoursBetween(a, b) # {}
    BY <1>2, <2>3, ContoursSymmetric, TotalsSymmetric
  <2>5. TableMatches(a, b)
    BY <1>2, <2>3 DEF Matched
  <2>6. Entry(a, b) = NeighborRegion(Sum(r, s), Length(r, s))
    BY <2>4, <2>5 DEF TableMatches, Entry
  <2>7. x.energy = Quotient(Sum(r, s), Length(r, s))
    BY <2>2, <2>6 DEF IsCurrent, NeighborRegion
  <2> QED BY <1>1, <2>7
<1> QED BY <1>1, <1>2

\* A mean that replaces two is not below the lesser of them.
LEMMA PushedAbove ==
  ASSUME Tables, StrengthsOK, Matched, Covered, EnergiesAscend, NEW m, IsTop(m),
         NEW father, NEW son, Merging(m, father, son),
         NEW n \in MergedNeighbors(father, son)
  PROVE  /\ IsQuotient(Dissimilarity(father, son, n))
         /\ AtMost(m.energy, Dissimilarity(father, son, n))
<1>1. father \in Active /\ son \in Active /\ father # son
  BY ActiveAfter
<1>2. father \in Regions /\ son \in Regions
  BY <1>1 DEF Active
<1>3. n \in Active /\ n # father
  BY <1>2, MergedNeighborsActive DEF Active
<1>4. n # son
  BY <1>2 DEF MergedNeighbors, Kept, Gained, Tables
<1>5. m \in merging_queue /\ IsQuotient(m.energy)
  BY DEF Merging, EnergiesAscend
<1> DEFINE T1 == Sum(father, n)
           L1 == Length(father, n)
           T2 == Sum(son, n)
           L2 == Length(son, n)
           A == ContoursBetween(father, n)
           B == ContoursBetween(son, n)
<1>6. Dissimilarity(father, son, n) = Quotient(T1 + T2, L1 + L2)
  BY <1>1, <1>3, <1>4, UpdatedTotals
<1>7. /\ T1 \in Nat /\ L1 \in Nat /\ (L1 = 0 <=> A = {}) /\ (A = {} => T1 = 0)
      /\ T2 \in Nat /\ L2 \in Nat /\ (L2 = 0 <=> B = {}) /\ (B = {} => T2 = 0)
  BY TotalsAreNumbers
<1>8. A \cup B # {}
  BY <1>1, <1>3, <1>4, NeighborsOfFather
<1>9. /\ A # {} => AtMost(m.energy, Quotient(T1, L1))
      /\ B # {} => AtMost(m.energy, Quotient(T2, L2))
  BY <1>1, <1>3, <1>4, <1>5, TopIsLeast
<1> HIDE DEF T1, L1, T2, L2, A, B
<1>10. IsQuotient(Quotient(T1 + T2, L1 + L2))
  <2>1. T1 + T2 \in Nat /\ L1 + L2 \in Nat \ {0}
    BY <1>7, <1>8
  <2> QED BY <1>5, <2>1, AtMostQuotient
<1>11. CASE A # {} /\ B # {}
  <2>1. L1 \in Nat \ {0} /\ L2 \in Nat \ {0}
    BY <1>7, <1>11
  <2>2. AtMost(m.energy, Quotient(T1 + T2, L1 + L2))
    BY <1>5, <1>7, <1>9, <1>11, <2>1, Mediant
  <2> QED BY <1>6, <1>10, <2>2
<1>12. CASE A = {}
  <2>1. T1 + T2 = T2 /\ L1 + L2 = L2
    BY <1>7, <1>12
  <2> QED BY <1>6, <1>8, <1>9, <1>10, <1>12, <2>1
<1>13. CASE B = {}
  <2>1. T1 + T2 = T1 /\ L1 + L2 = L1
    BY <1>7, <1>13
  <2> QED BY <1>6, <1>8, <1>9, <1>10, <1>13, <2>1
<1> QED BY <1>11, <1>12, <1>13

\* MergeTop with what the names of Merging leave out.
LEMMA MergeTopAscends ==
  ASSUME EnergiesAscend, MergeTop
  PROVE  \E m, father, son :
           Merging(m, father, son) /\ IsTop(m) /\ current_energy' = m.energy
<1>1. PICK m \in merging_queue :
        /\ IsTop(m) /\ IsCurrent(m)
        /\ IF ~ AtMost(current_energy, m.energy)
           THEN /\ pc' = "not an ultrametric"
                /\ merging_queue' = merging_queue \ {m}
                /\ UNCHANGED <<labels, boundary, neighbors, current_energy, ucm>>
           ELSE LET father == Max({m.region1, m.region2})
                    son == Min({m.region1, m.region2})
                    e == Entry(m.region1, m.region2)
                IN /\ current_energy' = m.energy
                   /\ labels' = Relabelled(father, son)
                   /\ boundary' = [boundary EXCEPT ![father] = MergedBoundary(father, son),
                                                   ![son] = {}]
                   /\ ucm' = Raised(son, Quotient(e.total_pb, e.bdry_length))
                   /\ neighbors' = UpdatedNeighbors(father, son)
                   /\ merging_queue' = (merging_queue \ {m}) \cup Pushed(father, son)
                   /\ UNCHANGED pc
  BY DEF MergeTop
<1>2. UNCHANGED input
  BY DEF MergeTop
<1>3. AtMost(current_energy, m.energy)
  BY DEF EnergiesAscend
<1>4. Merging(m, Max({m.region1, m.region2}), Min({m.region1, m.region2}))
  BY <1>1, <1>2, <1>3 DEF Merging, Saliency
<1> QED BY <1>1, <1>3, <1>4

LEMMA AscendingInvariant == Spec => []EnergiesAscend
<1>1. Init => EnergiesAscend
  BY InitEnergiesAscend
<1>2. Tables /\ StrengthsOK /\ Matched /\ Covered /\ EnergiesAscend /\ [Next]_vars => EnergiesAscend'
  <2> SUFFICES ASSUME Tables, StrengthsOK, Matched, Covered, EnergiesAscend, [Next]_vars
               PROVE  EnergiesAscend'
    OBVIOUS
  <2>1. CASE MergeTop
    <3>1. PICK m, father, son :
            Merging(m, father, son) /\ IsTop(m) /\ current_energy' = m.energy
      BY <2>1, MergeTopAscends
    <3>2. m \in merging_queue /\ merging_queue' = (merging_queue \ {m}) \cup Pushed(father, son)
          /\ pc' = pc
      BY <3>1 DEF Merging
    <3>3. ASSUME NEW x \in Pushed(father, son)
          PROVE  IsQuotient(x.energy) /\ AtMost(m.energy, x.energy)
      <4>1. PICK n \in MergedNeighbors(father, son) :
              x = OrderNode(Dissimilarity(father, son, n), n, father)
        BY DEF Pushed
      <4>2. x.energy = Dissimilarity(father, son, n)
        BY <4>1 DEF OrderNode
      <4> QED BY <3>1, <4>2, PushedAbove
    <3>4. \A x \in merging_queue : IsQuotient(x.energy) /\ AtMost(m.energy, x.energy)
      BY <3>1, <3>2, TopIsLeast DEF EnergiesAscend
    <3> QED BY <3>1, <3>2, <3>3, <3>4 DEF EnergiesAscend
  <2>2. CASE SkipStale
    <3>1. merging_queue' \subseteq merging_queue /\ UNCHANGED <<current_energy, pc>>
      BY <2>2 DEF SkipStale
    <3> QED BY <3>1 DEF EnergiesAscend
  <2>3. CASE Complete
    <3>1. UNCHANGED <<merging_queue, current_energy>> /\ pc' = "done"
      BY <2>3 DEF Complete
    <3> QED BY <3>1 DEF EnergiesAscend
  <2>4. CASE UNCHANGED vars
    BY <2>4 DEF vars, EnergiesAscend
  <2> QED BY <2>1, <2>2, <2>3, <2>4 DEF Next
<1> QED BY <1>1, <1>2, TablesInvariant, MatchedInvariant, CoveredInvariant, PTL DEF Spec

\* The error of line 318 is unreachable: the strengths of successive mergings
\* never go down, so they order the regions as an ultrametric.
THEOREM UltrametricCorrect == Spec => []AlwaysUltrametric
<1>1. EnergiesAscend => AlwaysUltrametric
  BY DEF EnergiesAscend, AlwaysUltrametric
<1> QED BY <1>1, AscendingInvariant, PTL

-----------------------------------------------------------------------------
(* Labels and live entries.                                                *)

\* The label of a region is one that is still there, and an entry of the queue
\* for two regions that are still there is about neighbours.
Live ==
  /\ \A r \in Regions : labels[labels[r]] = labels[r]
  /\ \A x \in merging_queue :
       labels[x.region1] = x.region1 /\ labels[x.region2] = x.region2 =>
         x.region2 \in DOMAIN neighbors[x.region1]

LEMMA InitLive == Init => Live
<1> SUFFICES ASSUME Init PROVE Live
  OBVIOUS
<1>1. labels = [c \in Regions |-> c]
  BY DEF Init
<1>2. ASSUME NEW x \in merging_queue
      PROVE  x.region2 \in DOMAIN neighbors[x.region1]
  <2>1. PICK r \in Regions :
          x \in {OrderNode(neighbors[r][k].energy, r, k) : k \in {l \in DOMAIN neighbors[r] : l > r}}
    BY DEF Init
  <2>2. PICK n \in DOMAIN neighbors[r] : x = OrderNode(neighbors[r][n].energy, r, n)
    BY <2>1
  <2> QED BY <2>2 DEF OrderNode
<1> QED BY <1>1, <1>2 DEF Live

LEMMA MergingKeepsLive ==
  ASSUME Tables, Live, NEW m, NEW father, NEW son, Merging(m, father, son)
  PROVE  Live'
<1> DEFINE N == MergedNeighbors(father, son)
<1>1. /\ Regions' = Regions
      /\ \A c \in Regions : labels'[c] = IF labels[c] = son THEN father ELSE labels[c]
  BY RegionAfter
<1>2. /\ father \in Regions /\ labels[father] = father
      /\ son \in Regions /\ labels[son] = son /\ son # father
  BY MergedAreActive
<1>3. ASSUME NEW r \in Regions
      PROVE  labels'[labels'[r]] = labels'[r]
  <2>1. labels[r] \in Regions /\ labels[labels[r]] = labels[r]
    BY DEF Tables, TypeOK, Live
  <2> QED BY <1>1, <1>2, <2>1
<1>4. ASSUME NEW x \in merging_queue',
             labels'[x.region1] = x.region1, labels'[x.region2] = x.region2
      PROVE  x.region2 \in DOMAIN neighbors'[x.region1]
  <2>1. CASE x \in Pushed(father, son)
    <3>1. PICK n \in N : x = OrderNode(Dissimilarity(father, son, n), n, father)
      BY <2>1 DEF Pushed
    <3>2. x.region1 = n /\ x.region2 = father
      BY <3>1 DEF OrderNode
    <3>3. n \in Regions /\ n # father
      BY <1>2, MergedNeighborsActive
    <3>4. n # son
      BY <1>2 DEF MergedNeighbors, Kept, Gained, Tables
    <3> QED BY <3>2, <3>3, <3>4, NeighborsAfter
  <2>2. CASE x \in merging_queue
    <3> DEFINE a == x.region1
               b == x.region2
    <3>1. a \in Regions /\ b \in Regions
      BY <2>2 DEF Tables, TypeOK
    <3>2. labels[a] = a /\ labels[b] = b /\ a # son /\ b # son
      BY <1>1, <1>2, <1>4, <3>1
    <3>3. b \in DOMAIN neighbors[a]
      BY <2>2, <3>2 DEF Live
    <3>4. CASE a = father
      <4>1. b \in N
        BY <3>2, <3>3, <3>4 DEF MergedNeighbors, Kept
      <4> QED BY <3>1, <3>4, <4>1, NeighborsAfter
    <3>5. CASE a # father
      BY <3>1, <3>2, <3>3, <3>5, NeighborsAfter
    <3> QED BY <3>4, <3>5
  <2> QED BY <1>4, <2>1, <2>2 DEF Merging
<1> QED BY <1>1, <1>3, <1>4 DEF Live

LEMMA LiveInvariant == Spec => []Live
<1>1. Init => Live
  BY InitLive
<1>2. Tables /\ Live /\ [Next]_vars => Live'
  <2> SUFFICES ASSUME Tables, Live, [Next]_vars PROVE Live'
    OBVIOUS
  <2>1. CASE /\ UNCHANGED <<initial_partition, labels, neighbors>>
             /\ merging_queue' \subseteq merging_queue
    BY <2>1 DEF Live, Regions
  <2>2. CASE \E m, father, son : Merging(m, father, son)
    BY <2>2, MergingKeepsLive
  <2>3. SkipStale \/ Complete \/ NotUltrametric \/ UNCHANGED vars =>
          /\ UNCHANGED <<initial_partition, labels, neighbors>>
          /\ merging_queue' \subseteq merging_queue
    BY DEF SkipStale, Complete, NotUltrametric, vars, input
  <2> QED BY <2>1, <2>2, <2>3, MergeTopCases DEF Next
<1> QED BY <1>1, <1>2, TablesInvariant, PTL DEF Spec

\* The two regions of a merging touch, and what is written into the map is the
\* energy of the entry: their mean.
LEMMA SaliencyIsEnergy ==
  ASSUME Tables, StrengthsOK, Matched, Live, NEW m, NEW father, NEW son,
         Merging(m, father, son)
  PROVE  /\ ContoursBetween(father, son) # {}
         /\ Saliency(m) = m.energy
         /\ m.energy = Quotient(Sum(father, son), Length(father, son))
<1> DEFINE a == m.region1
           b == m.region2
<1>1. IsCurrent(m) /\ m \in merging_queue
  BY DEF Merging
<1>2. (a = father /\ b = son) \/ (a = son /\ b = father)
  BY MergedAreActive
<1>3. a \in Active /\ b \in Active /\ a # b
  BY <1>2, ActiveAfter
<1>4. b \in DOMAIN neighbors[a]
  BY <1>1 DEF Live, IsCurrent
<1>5. ContoursBetween(a, b) # {} /\ neighbors[a][b] = NeighborRegion(Sum(a, b), Length(a, b))
  BY <1>3, <1>4 DEF Matched, TableMatches
<1>6. Entry(a, b) = NeighborRegion(Sum(a, b), Length(a, b))
  BY <1>4, <1>5 DEF Entry
<1>7. /\ ContoursBetween(father, son) # {}
      /\ Sum(a, b) = Sum(father, son) /\ Length(a, b) = Length(father, son)
  BY <1>2, <1>5, ContoursSymmetric, TotalsSymmetric
<1>8. Saliency(m) = Quotient(Sum(a, b), Length(a, b))
  BY <1>6 DEF Saliency, NeighborRegion
<1>9. m.energy = Quotient(Sum(a, b), Length(a, b))
  BY <1>1, <1>6 DEF IsCurrent, NeighborRegion
<1> QED BY <1>7, <1>8, <1>9

-----------------------------------------------------------------------------
(* Closed contours.                                                        *)

\* No contour is stronger than the energy merged last; inside an initial region
\* there are none, and those inside a region close around one of its parts.
Enclosed(pq) ==
  \E S \in SUBSET Pixels : pq[1] \in S /\ pq[2] \notin S /\ Encloses(S, ucm[Site(pq[1], pq[2])])
Bounded == \A x \in Sites : IsQuotient(ucm[x]) /\ AtMost(ucm[x], current_energy)
Closed ==
  \A pq \in AdjacentPixels :
    IF initial_partition[pq[1]] = initial_partition[pq[2]] THEN ucm[Site(pq[1], pq[2])] = Zero
    ELSE RegionOf(pq[1]) = RegionOf(pq[2]) => Enclosed(pq)

LEMMA InitClosed == Init => Bounded /\ Closed
<1> SUFFICES ASSUME Init PROVE Bounded /\ Closed
  OBVIOUS
<1>1. ucm = [x \in Khalimsky |-> Zero] /\ current_energy = Zero /\ labels = [r \in Regions |-> r]
  BY DEF Init
<1>2. \A x \in Sites : ucm[x] = Zero
  BY <1>1, SitesFinite
<1>3. IsQuotient(Zero) /\ AtMost(Zero, Zero)
  BY DEF IsQuotient, AtMost, Zero
<1>4. \A pq \in AdjacentPixels :
        /\ Site(pq[1], pq[2]) \in Sites
        /\ RegionOf(pq[1]) = initial_partition[pq[1]]
        /\ RegionOf(pq[2]) = initial_partition[pq[2]]
  BY <1>1 DEF AdjacentPixels, Sites, RegionOf, Regions
<1> QED BY <1>1, <1>2, <1>3, <1>4 DEF Bounded, Closed

\* A merging raises contours and lowers none; all of the son's are raised.
LEMMA RaisedContours ==
  ASSUME Tables, BoundariesComplete, Bounded, NEW m, NEW father, NEW son,
         Merging(m, father, son), IsQuotient(m.energy), Saliency(m) = m.energy,
         AtMost(current_energy, m.energy), IsQuotient(current_energy)
  PROVE  /\ \A x \in Sites : /\ IsQuotient(ucm'[x]) /\ AtMost(ucm'[x], m.energy)
                             /\ AtMost(ucm[x], ucm'[x])
         /\ \A pq \in AdjacentPixels :
              RegionOf(pq[1]) = son /\ RegionOf(pq[2]) # son =>
                AtMost(m.energy, ucm'[Site(pq[1], pq[2])])
<1>1. \A x \in Khalimsky :
        ucm'[x] = IF Below(ucm[x], m.energy) /\ (\E b \in boundary[son] : b.coord = x)
                  THEN m.energy ELSE ucm[x]
  BY DEF Merging, Raised
<1>2. ASSUME NEW q, IsQuotient(q)
      PROVE  /\ AtMost(q, q)
             /\ Below(q, m.energy) => AtMost(q, m.energy)
             /\ ~ Below(q, m.energy) => AtMost(m.energy, q)
  BY <1>2 DEF IsQuotient, AtMost, Below
<1>3. ASSUME NEW x \in Sites
      PROVE  /\ IsQuotient(ucm'[x]) /\ AtMost(ucm'[x], m.energy)
             /\ AtMost(ucm[x], ucm'[x])
  <2>1. x \in Khalimsky /\ IsQuotient(ucm[x]) /\ AtMost(ucm[x], current_energy)
    BY SitesFinite DEF Bounded
  <2>2. AtMost(ucm[x], m.energy)
    BY <2>1, AtMostTransitive
  <2>3. CASE ucm'[x] = m.energy
    BY <1>2, <2>2, <2>3
  <2>4. CASE ucm'[x] = ucm[x]
    BY <1>2, <2>1, <2>2, <2>4
  <2> QED BY <1>1, <2>1, <2>3, <2>4
<1>4. ASSUME NEW pq \in AdjacentPixels, RegionOf(pq[1]) = son, RegionOf(pq[2]) # son
      PROVE  AtMost(m.energy, ucm'[Site(pq[1], pq[2])])
  <2> DEFINE x == Site(pq[1], pq[2])
  <2>1. pq[1] \in Pixels /\ pq[2] \in Pixels /\ Adjacent(pq[1], pq[2])
    BY DEF AdjacentPixels
  <2>2. [coord |-> x, cc_neigh |-> initial_partition[pq[2]]] \in boundary[son]
    BY <1>4, <2>1 DEF BoundariesComplete
  <2>3. \E b \in boundary[son] : b.coord = x
    BY <2>2
  <2>4. x \in Sites /\ x \in Khalimsky
    BY SitesFinite DEF Sites
  <2>5. CASE Below(ucm[x], m.energy)
    <3>1. ucm'[x] = m.energy
      BY <1>1, <2>3, <2>4, <2>5
    <3> QED BY <1>2, <3>1
  <2>6. CASE ~ Below(ucm[x], m.energy)
    <3>1. ucm'[x] = ucm[x]
      BY <1>1, <2>4, <2>6
    <3> QED BY <1>2, <2>4, <2>6, <3>1 DEF Bounded
  <2> QED BY <2>5, <2>6
<1> QED BY <1>3, <1>4

\* A curve around a part stays as strong as the contour it closes.
LEMMA EnclosedStays ==
  ASSUME NEW pq \in AdjacentPixels, Enclosed(pq),
         \A x \in Sites : IsQuotient(ucm[x]) /\ IsQuotient(ucm'[x]) /\ AtMost(ucm[x], ucm'[x]),
         ucm'[Site(pq[1], pq[2])] = ucm[Site(pq[1], pq[2])]
  PROVE  Enclosed(pq)'
<1>1. PICK S \in SUBSET Pixels :
        pq[1] \in S /\ pq[2] \notin S /\ Encloses(S, ucm[Site(pq[1], pq[2])])
  BY DEF Enclosed
<1> DEFINE s == ucm[Site(pq[1], pq[2])]
<1>2. ASSUME NEW uv \in AdjacentPixels, uv[1] \in S, uv[2] \notin S
      PROVE  AtMost(s, ucm'[Site(uv[1], uv[2])])
  <2>1. AtMost(s, ucm[Site(uv[1], uv[2])])
    BY <1>1, <1>2 DEF Encloses
  <2>2. Site(uv[1], uv[2]) \in Sites /\ Site(pq[1], pq[2]) \in Sites
    BY DEF Sites
  <2> QED BY <2>1, <2>2, AtMostTransitive
<1> QED BY <1>1, <1>2 DEF Enclosed, Encloses

\* Adjacency and the place between two pixels do not depend on their order.
LEMMA Reversed ==
  ASSUME NEW pq \in AdjacentPixels
  PROVE  /\ pq[1] \in Pixels /\ pq[2] \in Pixels
         /\ Site(pq[1], pq[2]) \in Sites
         /\ <<pq[2], pq[1]>> \in AdjacentPixels
         /\ Site(pq[2], pq[1]) = Site(pq[1], pq[2])
<1>1. pq[1] \in Pixels /\ pq[2] \in Pixels /\ Site(pq[1], pq[2]) \in Sites
  BY DEF AdjacentPixels, Sites
<1>2. <<pq[2], pq[1]>> \in AdjacentPixels
  BY DEF AdjacentPixels, Adjacent
<1>3. pq[1][1] \in Int /\ pq[1][2] \in Int /\ pq[2][1] \in Int /\ pq[2][2] \in Int
  BY <1>1, ImageAssumption DEF Pixels
<1>4. Site(pq[2], pq[1]) = Site(pq[1], pq[2])
  BY <1>3 DEF Site
<1> QED BY <1>1, <1>2, <1>4

\* The contour at which two regions become one closes around either of them.
LEMMA JoinedIsEnclosed ==
  ASSUME Tables, BoundariesComplete, Bounded, NEW m, NEW father, NEW son,
         Merging(m, father, son), IsQuotient(m.energy), Saliency(m) = m.energy,
         AtMost(current_energy, m.energy), IsQuotient(current_energy),
         NEW pq \in AdjacentPixels, RegionOf(pq[1]) # RegionOf(pq[2]),
         RegionOf(pq[1]) = son \/ RegionOf(pq[2]) = son
  PROVE  Enclosed(pq)'
<1> DEFINE t == ucm'[Site(pq[1], pq[2])]
           Part == {p \in Pixels : RegionOf(p) = son}
<1>1. \A uv \in AdjacentPixels :
        /\ uv[1] \in Pixels /\ uv[2] \in Pixels
        /\ Site(uv[1], uv[2]) \in Sites
        /\ <<uv[2], uv[1]>> \in AdjacentPixels
        /\ Site(uv[2], uv[1]) = Site(uv[1], uv[2])
  BY Reversed
<1>2. IsQuotient(t) /\ AtMost(t, m.energy)
  BY <1>1, RaisedContours
<1>3. \A uv \in AdjacentPixels : RegionOf(uv[1]) = son /\ RegionOf(uv[2]) # son =>
        AtMost(m.energy, ucm'[Site(uv[1], uv[2])])
  BY RaisedContours
<1>4. \A uv \in AdjacentPixels : IsQuotient(ucm'[Site(uv[1], uv[2])])
  BY <1>1, RaisedContours
<1>5. \A uv \in AdjacentPixels : RegionOf(uv[1]) = son /\ RegionOf(uv[2]) # son =>
        AtMost(t, ucm'[Site(uv[1], uv[2])])
  BY <1>2, <1>3, <1>4, AtMostTransitive
<1>6. \A uv \in AdjacentPixels : RegionOf(uv[1]) # son /\ RegionOf(uv[2]) = son =>
        AtMost(t, ucm'[Site(uv[1], uv[2])])
  <2> TAKE uv \in AdjacentPixels
  <2> DEFINE vu == <<uv[2], uv[1]>>
  <2>1. vu \in AdjacentPixels /\ vu[1] = uv[2] /\ vu[2] = uv[1]
    BY <1>1
  <2>2. RegionOf(vu[1]) = son /\ RegionOf(vu[2]) # son => AtMost(t, ucm'[Site(vu[1], vu[2])])
    BY <1>5, <2>1
  <2> QED BY <1>1, <2>1, <2>2
<1>7. CASE RegionOf(pq[1]) = son
  <2>1. Part \in SUBSET Pixels /\ pq[1] \in Part /\ pq[2] \notin Part
    BY <1>1, <1>7
  <2>2. \A uv \in AdjacentPixels : uv[1] \in Part /\ uv[2] \notin Part =>
          AtMost(t, ucm'[Site(uv[1], uv[2])])
    BY <1>1, <1>5
  <2> HIDE DEF Part
  <2> QED BY <2>1, <2>2 DEF Enclosed, Encloses
<1>8. CASE RegionOf(pq[2]) = son
  <2> DEFINE Rest == Pixels \ Part
  <2>1. Rest \in SUBSET Pixels /\ pq[1] \in Rest /\ pq[2] \notin Rest
    BY <1>1, <1>8
  <2>2. \A uv \in AdjacentPixels : uv[1] \in Rest /\ uv[2] \notin Rest =>
          AtMost(t, ucm'[Site(uv[1], uv[2])])
    BY <1>1, <1>6
  <2> HIDE DEF Rest
  <2> QED BY <2>1, <2>2 DEF Enclosed, Encloses
<1> QED BY <1>7, <1>8

LEMMA MergingKeepsClosed ==
  ASSUME Tables, BoundariesOutside, BoundariesComplete, StrengthsOK, Matched, Live, EnergiesAscend,
         Bounded, Closed, Next, NEW m, NEW father, NEW son, Merging(m, father, son),
         IsTop(m), current_energy' = m.energy
  PROVE  Bounded' /\ Closed'
<1>1. IsQuotient(m.energy) /\ AtMost(current_energy, m.energy) /\ IsQuotient(current_energy)
  BY DEF Merging, EnergiesAscend
<1>2. Saliency(m) = m.energy
  BY SaliencyIsEnergy
<1>3. \A x \in Sites : /\ IsQuotient(ucm'[x]) /\ AtMost(ucm'[x], m.energy)
                       /\ AtMost(ucm[x], ucm'[x])
  BY <1>1, <1>2, RaisedContours
<1>4. initial_partition' = initial_partition
  BY DEF Merging, input
<1>5. ASSUME NEW pq \in AdjacentPixels
      PROVE  IF initial_partition[pq[1]] = initial_partition[pq[2]]
             THEN ucm'[Site(pq[1], pq[2])] = Zero
             ELSE RegionOf(pq[1])' = RegionOf(pq[2])' => Enclosed(pq)'
  <2>1. RegionOf(pq[1]) = RegionOf(pq[2]) => ucm'[Site(pq[1], pq[2])] = ucm[Site(pq[1], pq[2])]
    BY StepKeepsInside
  <2>2. CASE initial_partition[pq[1]] = initial_partition[pq[2]]
    BY <2>1, <2>2 DEF Closed, RegionOf
  <2>3. CASE /\ initial_partition[pq[1]] # initial_partition[pq[2]]
             /\ RegionOf(pq[1]) = RegionOf(pq[2])
    <3>1. Enclosed(pq)
      BY <2>3 DEF Closed
    <3> QED BY <1>3, <2>1, <2>3, <3>1, EnclosedStays DEF Bounded
  <2>4. CASE /\ initial_partition[pq[1]] # initial_partition[pq[2]]
             /\ RegionOf(pq[1]) # RegionOf(pq[2]) /\ RegionOf(pq[1])' = RegionOf(pq[2])'
    <3>1. pq[1] \in Pixels /\ pq[2] \in Pixels
      BY DEF AdjacentPixels
    <3>2. RegionOf(pq[1]) = son \/ RegionOf(pq[2]) = son
      BY <2>4, <3>1, RegionAfter
    <3> QED BY <1>1, <1>2, <2>4, <3>2, JoinedIsEnclosed
  <2> QED BY <2>2, <2>3, <2>4
<1>6. Bounded'
  BY <1>3 DEF Bounded
<1> QED BY <1>4, <1>5, <1>6 DEF Closed

LEMMA ClosedInvariant == Spec => [](Bounded /\ Closed)
<1>1. Init => Bounded /\ Closed
  BY InitClosed
<1> DEFINE Inv == /\ Tables /\ BoundariesOutside /\ BoundariesComplete
                  /\ StrengthsOK /\ Matched /\ Live /\ EnergiesAscend
<1>2. Inv /\ Bounded /\ Closed /\ [Next]_vars => (Bounded /\ Closed)'
  <2> SUFFICES ASSUME Inv, Bounded, Closed, [Next]_vars
               PROVE  Bounded' /\ Closed'
    OBVIOUS
  <2>1. CASE MergeTop
    <3>1. PICK m, father, son :
            Merging(m, father, son) /\ IsTop(m) /\ current_energy' = m.energy
      BY <2>1, MergeTopAscends
    <3> QED BY <2>1, <3>1, MergingKeepsClosed DEF Next
  <2>2. ASSUME UNCHANGED <<initial_partition, labels, current_energy>>,
               \A x \in Sites : ucm'[x] = ucm[x]
        PROVE  Bounded' /\ Closed'
    <3>1. \A pq \in AdjacentPixels :
            /\ Site(pq[1], pq[2]) \in Sites
            /\ RegionOf(pq[1])' = RegionOf(pq[1]) /\ RegionOf(pq[2])' = RegionOf(pq[2])
      BY <2>2 DEF Sites, RegionOf
    <3>2. \A pq \in AdjacentPixels : Enclosed(pq) => Enclosed(pq)'
      BY <2>2, <3>1 DEF Enclosed, Encloses
    <3>3. Bounded'
      BY <2>2 DEF Bounded
    <3> QED BY <2>2, <3>1, <3>2, <3>3 DEF Closed
  <2>3. CASE Complete
    <3>1. ucm' = complete_contour_map /\ UNCHANGED <<initial_partition, labels, current_energy>>
      BY <2>3 DEF Complete, input
    <3>2. \A x \in Sites : x \in Khalimsky /\ (x[1] % 2 = 1 \/ x[2] % 2 = 1)
      BY SiteOnGrid DEF Sites, AdjacentPixels
    <3>3. \A x \in Sites : ucm'[x] = ucm[x]
      BY <3>1, <3>2 DEF complete_contour_map
    <3> QED BY <2>2, <3>1, <3>3
  <2>4. CASE SkipStale \/ UNCHANGED vars
    <3>1. UNCHANGED <<initial_partition, labels, current_energy, ucm>>
      BY <2>4 DEF SkipStale, vars, input
    <3> QED BY <2>2, <3>1
  <2> QED BY <2>1, <2>3, <2>4 DEF Next
<1> QED BY <1>1, <1>2, TablesInvariant, OutsideInvariant, CompleteInvariant, MatchedInvariant,
           LiveInvariant, AscendingInvariant, PTL DEF Spec

\* In the map returned every contour closes around a set of pixels whose whole
\* border is at least as strong: the map is a hierarchy of closed regions.
THEOREM ClosedContoursCorrect == Spec => []ClosedContours
<1> DEFINE NothingLeft == pc = "done" =>
                            \A r, s \in Active : r # s => ContoursBetween(r, s) = {}
<1>1. Tables /\ Live /\ Closed /\ NothingLeft => ClosedContours
  <2> SUFFICES ASSUME Tables, Live, Closed, NothingLeft, pc = "done",
                      NEW pq \in AdjacentPixels
               PROVE  IF initial_partition[pq[1]] = initial_partition[pq[2]]
                      THEN ucm[Site(pq[1], pq[2])] = Zero
                      ELSE \E S \in SUBSET Pixels :
                             pq[1] \in S /\ pq[2] \notin S /\ Encloses(S, ucm[Site(pq[1], pq[2])])
    BY DEF ClosedContours
  <2>1. initial_partition[pq[1]] \in Regions /\ initial_partition[pq[2]] \in Regions
    BY DEF AdjacentPixels, Regions
  <2>2. RegionOf(pq[1]) \in Active /\ RegionOf(pq[2]) \in Active
    BY <2>1 DEF RegionOf, Active, Live, Tables, TypeOK
  <2>3. Site(pq[1], pq[2]) \in ContoursBetween(RegionOf(pq[1]), RegionOf(pq[2]))
    BY DEF ContoursBetween
  <2>4. RegionOf(pq[1]) = RegionOf(pq[2])
    BY <2>2, <2>3
  <2> QED BY <2>4 DEF Closed, Enclosed
<1> QED BY <1>1, TablesInvariant, LiveInvariant, ClosedInvariant, NothingLeftToMerge, PTL
-----------------------------------------------------------------------------
(* One region.                                                             *)

\* The grid of pixels is in one piece.
LEMMA GridConnected ==
  ASSUME NEW f, \A pq \in AdjacentPixels : f[pq[1]] = f[pq[2]],
         NEW p \in Pixels, NEW q \in Pixels
  PROVE  f[p] = f[q]
<1>1. ASSUME NEW y \in 0 .. Ty - 1, NEW z \in 0 .. Tx - 1
      PROVE  f[<<z, y>>] = f[<<0, y>>]
  <2> DEFINE Bad == {x \in 0 .. Tx - 1 : f[<<x, y>>] # f[<<0, y>>]}
  <2>1. SUFFICES ASSUME Bad # {} PROVE FALSE
    OBVIOUS
  <2>2. Bad \in SUBSET Nat
    BY ImageAssumption
  <2> HIDE DEF Bad
  <2>3. PICK x \in Bad : \A w \in Bad : x <= w
    BY <2>1, <2>2, LeastElement
  <2>4. x \in 0 .. Tx - 1 /\ f[<<x, y>>] # f[<<0, y>>]
    BY DEF Bad
  <2>5. x - 1 \in 0 .. Tx - 1
    BY <2>4, ImageAssumption
  <2>6. x - 1 \notin Bad
    BY <2>3, <2>4, ImageAssumption
  <2>7. f[<<x - 1, y>>] = f[<<0, y>>]
    BY <2>5, <2>6 DEF Bad
  <2>8. <<<<x - 1, y>>, <<x, y>>>> \in AdjacentPixels
    BY <2>4, <2>5, ImageAssumption DEF AdjacentPixels, Adjacent, Pixels
  <2> QED BY <2>4, <2>7, <2>8
<1>2. ASSUME NEW z \in 0 .. Ty - 1
      PROVE  f[<<0, z>>] = f[<<0, 0>>]
  <2> DEFINE Bad == {y \in 0 .. Ty - 1 : f[<<0, y>>] # f[<<0, 0>>]}
  <2>1. SUFFICES ASSUME Bad # {} PROVE FALSE
    OBVIOUS
  <2>2. Bad \in SUBSET Nat
    BY ImageAssumption
  <2> HIDE DEF Bad
  <2>3. PICK y \in Bad : \A w \in Bad : y <= w
    BY <2>1, <2>2, LeastElement
  <2>4. y \in 0 .. Ty - 1 /\ f[<<0, y>>] # f[<<0, 0>>]
    BY DEF Bad
  <2>5. y - 1 \in 0 .. Ty - 1
    BY <2>4, ImageAssumption
  <2>6. y - 1 \notin Bad
    BY <2>3, <2>4, ImageAssumption
  <2>7. f[<<0, y - 1>>] = f[<<0, 0>>]
    BY <2>5, <2>6 DEF Bad
  <2>8. <<<<0, y - 1>>, <<0, y>>>> \in AdjacentPixels
    BY <2>4, <2>5, ImageAssumption DEF AdjacentPixels, Adjacent, Pixels
  <2> QED BY <2>4, <2>7, <2>8
<1>3. ASSUME NEW u \in Pixels
      PROVE  f[u] = f[<<0, 0>>]
  <2>1. u[1] \in 0 .. Tx - 1 /\ u[2] \in 0 .. Ty - 1 /\ u = <<u[1], u[2]>>
    BY DEF Pixels
  <2>2. f[<<u[1], u[2]>>] = f[<<0, u[2]>>]
    BY <1>1, <2>1
  <2>3. f[<<0, u[2]>>] = f[<<0, 0>>]
    BY <1>2, <2>1
  <2>4. f[u] = f[<<u[1], u[2]>>]
    BY <2>1
  <2> QED BY <2>2, <2>3, <2>4
<1> QED BY <1>3

\* When the function returns, the whole image is one region: the safety half of
\* BecomesOneRegion.
THEOREM OneRegionAtEnd == Spec => [](pc = "done" => \A r, s \in Active : r = s)
<1> DEFINE NothingLeft == pc = "done" =>
                            \A r, s \in Active : r # s => ContoursBetween(r, s) = {}
<1>1. Tables /\ Live /\ NothingLeft => (pc = "done" => \A r, s \in Active : r = s)
  <2> SUFFICES ASSUME Tables, Live, NothingLeft, pc = "done", NEW r \in Active, NEW s \in Active
               PROVE  r = s
    OBVIOUS
  <2> DEFINE f == [p \in Pixels |-> RegionOf(p)]
  <2>1. ASSUME NEW pq \in AdjacentPixels
        PROVE  f[pq[1]] = f[pq[2]]
    <3>1. pq[1] \in Pixels /\ pq[2] \in Pixels
      BY DEF AdjacentPixels
    <3>2. RegionOf(pq[1]) \in Active /\ RegionOf(pq[2]) \in Active
      BY <3>1 DEF RegionOf, Regions, Active, Live, Tables, TypeOK
    <3>3. Site(pq[1], pq[2]) \in ContoursBetween(RegionOf(pq[1]), RegionOf(pq[2]))
      BY DEF ContoursBetween
    <3> QED BY <3>1, <3>2, <3>3
  <2>2. PICK p \in Pixels : initial_partition[p] = r
    BY DEF Active, Regions
  <2>3. PICK q \in Pixels : initial_partition[q] = s
    BY DEF Active, Regions
  <2>4. f[p] = r /\ f[q] = s
    BY <2>2, <2>3 DEF RegionOf, Active
  <2> HIDE DEF f
  <2>5. f[p] = f[q]
    BY <2>1, GridConnected
  <2> QED BY <2>4, <2>5
<1> QED BY <1>1, TablesInvariant, LiveInvariant, NothingLeftToMerge, PTL

-----------------------------------------------------------------------------
(* Greedy merging.                                                         *)

\* Seen from the abstract specification, a region is the set of its leaves and
\* a contour has two leaves on its sides.
LEMMA SidesOfContour ==
  ASSUME NEW e, NEW c
  PROVE  c \in Sides(e) <=>
           \E pq \in AdjacentPixels : Site(pq[1], pq[2]) = e /\ initial_partition[pq[1]] = c
BY DEF Sides

LEMMA BetweenIsContours ==
  ASSUME Tables, NEW r \in Active, NEW s \in Active, r # s
  PROVE  Greedy!Between(Leaves(r), Leaves(s)) = ContoursBetween(r, s)
<1>1. Greedy!Between(Leaves(r), Leaves(s)) =
        {e \in Beyond : Sides(e) \cap Leaves(r) # {} /\ Sides(e) \cap Leaves(s) # {}}
  BY DEF Greedy!Between
<1>2. ASSUME NEW e \in ContoursBetween(r, s)
      PROVE  e \in Beyond /\ Sides(e) \cap Leaves(r) # {} /\ Sides(e) \cap Leaves(s) # {}
  <2>1. PICK pq \in AdjacentPixels :
          e = Site(pq[1], pq[2]) /\ RegionOf(pq[1]) = r /\ RegionOf(pq[2]) = s
    BY DEF ContoursBetween
  <2>2. initial_partition[pq[1]] \in Leaves(r) /\ initial_partition[pq[2]] \in Leaves(s)
    BY <2>1 DEF AdjacentPixels, RegionOf, Regions, Leaves
  <2>3. initial_partition[pq[1]] \in Sides(e) /\ initial_partition[pq[2]] \in Sides(e)
    <3> DEFINE qp == <<pq[2], pq[1]>>
    <3>1. qp \in AdjacentPixels /\ Site(qp[1], qp[2]) = e /\ qp[1] = pq[2]
      BY <2>1, Reversed
    <3> QED BY <2>1, <3>1, SidesOfContour
  <2>4. e \in Beyond
    BY <2>1 DEF Beyond, RegionOf, Sites
  <2> QED BY <2>2, <2>3, <2>4
<1>3. ASSUME NEW e \in Beyond, Sides(e) \cap Leaves(r) # {}, Sides(e) \cap Leaves(s) # {}
      PROVE  e \in ContoursBetween(r, s)
  <2>1. PICK c \in Sides(e), d \in Sides(e) : c \in Leaves(r) /\ d \in Leaves(s)
    BY <1>3
  <2>2. PICK pq \in AdjacentPixels : Site(pq[1], pq[2]) = e /\ initial_partition[pq[1]] = c
    BY SidesOfContour
  <2>3. PICK uv \in AdjacentPixels : Site(uv[1], uv[2]) = e /\ initial_partition[uv[1]] = d
    BY SidesOfContour
  <2>4. RegionOf(pq[1]) = r /\ RegionOf(uv[1]) = s
    BY <2>1, <2>2, <2>3 DEF RegionOf, Leaves
  <2>5. /\ pq[1] \in Pixels /\ pq[2] \in Pixels /\ Adjacent(pq[1], pq[2])
        /\ uv[1] \in Pixels /\ uv[2] \in Pixels /\ Adjacent(uv[1], uv[2])
    BY DEF AdjacentPixels
  <2>6. uv[1] = pq[1] \/ uv[1] = pq[2]
    BY <2>2, <2>3, <2>5, SiteInjective
  <2>7. RegionOf(pq[2]) = s
    BY <2>4, <2>6
  <2> QED BY <2>2, <2>4, <2>7 DEF ContoursBetween
<1> QED BY <1>1, <1>2, <1>3

\* Both specifications divide and compare in the same way.
LEMMA SameMean ==
  ASSUME Tables, NEW r \in Active, NEW s \in Active, r # s
  PROVE  Greedy!MeanBetween(Leaves(r), Leaves(s)) = Quotient(Sum(r, s), Length(r, s))
<1> DEFINE C == ContoursBetween(r, s)
<1>1. Greedy!Between(Leaves(r), Leaves(s)) = C
  BY BetweenIsContours
<1>2. \A n, d : Greedy!Quotient(n, d) = Quotient(n, d)
  BY DEF Greedy!Quotient, Greedy!Divisors, Greedy!Max, Quotient, Divisors, Max
<1> HIDE DEF C
<1>3. Greedy!MapThenSumSet(Greedy!Strength, C) = Total(local_boundaries, C)
  BY DEF Greedy!MapThenSumSet, Greedy!MapThenFoldSet, Greedy!Strength, Total, Solves, SumStep, OneOf
<1>4. Greedy!MeanBetween(Leaves(r), Leaves(s)) =
        Greedy!Quotient(Greedy!MapThenSumSet(Greedy!Strength, C), Greedy!Cardinality(C))
  BY <1>1 DEF Greedy!MeanBetween
<1>5. Greedy!Cardinality(C) = Cardinality(C)
  BY DEF Greedy!Cardinality, Cardinality
<1> QED BY <1>2, <1>3, <1>4, <1>5 DEF Sum, Length, C
LEMMA InitRefines == Init => Greedy!Init
<1> SUFFICES ASSUME Init PROVE Greedy!Init
  OBVIOUS
<1>1. /\ labels = [r \in Regions |-> r] /\ current_energy = Zero
      /\ initial_partition \in Partitions
  BY DEF Init
<1>2. Active = Regions /\ \A r \in Regions : Leaves(r) = {r}
  BY <1>1 DEF Active, Leaves
<1>3. \A e \in Beyond : Sides(e) \subseteq Regions
  BY SidesOfContour DEF AdjacentPixels, Regions
<1>4. ASSUME NEW r \in Regions
      PROVE  \E e \in Beyond : r \in Sides(e)
  <2>1. PICK p \in Pixels : initial_partition[p] = r
    BY DEF Regions
  <2>2. PICK pq \in AdjacentPixels : initial_partition[pq[1]] = r /\ initial_partition[pq[2]] # r
    BY <1>1, <2>1, BoundaryAssumption
  <2> QED BY <2>2, SidesOfContour DEF Beyond, Sites
<1>5. Greedy!Leaves = Regions
  BY <1>3, <1>4 DEF Greedy!Leaves
<1>6. {Leaves(r) : r \in Active} = {{a} : a \in Greedy!Leaves}
  BY <1>2, <1>5
<1> QED BY <1>1, <1>6 DEF Greedy!Init, Greedy!Zero, Zero

\* A region is one of its leaves, and no other region has a leaf of it.
LEMMA LeavesApart ==
  ASSUME NEW r \in Active, NEW s \in Active, r # s
  PROVE  r \in Leaves(r) /\ r \notin Leaves(s)
BY DEF Active, Leaves

LEMMA LeavesAfter ==
  ASSUME Tables, NEW m, NEW father, NEW son, Merging(m, father, son)
  PROVE  {Leaves(r) : r \in Active}' =
           ({Leaves(r) : r \in Active} \ {Leaves(father), Leaves(son)})
             \cup {Leaves(father) \cup Leaves(son)}
<1> DEFINE Parts == {Leaves(r) : r \in Active}
           Rest == Parts \ {Leaves(father), Leaves(son)}
<1>1. /\ Regions' = Regions
      /\ \A c \in Regions : labels'[c] = IF labels[c] = son THEN father ELSE labels[c]
  BY RegionAfter
<1>2. father \in Active /\ son \in Active /\ father # son
  BY ActiveAfter
<1>3. /\ father \in Regions /\ labels[father] = father
      /\ son \in Regions /\ labels[son] = son
  BY <1>2 DEF Active
<1>4. Active' = Active \ {son}
  BY <1>1, <1>2, <1>3 DEF Active
<1>5. Leaves(father)' = Leaves(father) \cup Leaves(son)
  BY <1>1, <1>2, <1>3 DEF Leaves
<1>6. \A r \in Active \ {father, son} : Leaves(r)' = Leaves(r)
  BY <1>1, <1>2, <1>3 DEF Leaves
<1>7. \A r \in Active \ {father, son} : Leaves(r) # Leaves(father) /\ Leaves(r) # Leaves(son)
  BY <1>2, LeavesApart
<1>8. Rest = {Leaves(r) : r \in Active \ {father, son}}
  BY <1>7
<1>9. Parts' = {Leaves(father)'} \cup {Leaves(r)' : r \in Active \ {father, son}}
  BY <1>2, <1>4
<1>10. {Leaves(r)' : r \in Active \ {father, son}} = {Leaves(r) : r \in Active \ {father, son}}
  BY <1>6
<1> QED BY <1>5, <1>8, <1>9, <1>10

LEMMA SidesStay ==
  ASSUME initial_partition' = initial_partition
  PROVE  [x \in Beyond |-> Sides(x)]' = [x \in Beyond |-> Sides(x)]
BY DEF Beyond, Sides

LEMMA MergingRefines ==
  ASSUME Tables, StrengthsOK, Matched, Covered, Live, EnergiesAscend,
         NEW m, NEW father, NEW son, Merging(m, father, son),
         IsTop(m), current_energy' = m.energy
  PROVE  Greedy!Next
<1> DEFINE Parts == {Leaves(r) : r \in Active}
           P == <<Leaves(father), Leaves(son)>>
<1>1. father \in Active /\ son \in Active /\ father # son
  BY ActiveAfter
<1>2. /\ ContoursBetween(father, son) # {}
      /\ m.energy = Quotient(Sum(father, son), Length(father, son))
  BY SaliencyIsEnergy
<1>3. Greedy!MeanBetween(P[1], P[2]) = m.energy
  BY <1>1, <1>2, SameMean
<1>4. Greedy!AdjacentRegions =
        {Q \in Parts \X Parts : Q[1] # Q[2] /\ Greedy!Between(Q[1], Q[2]) # {}}
  BY DEF Greedy!AdjacentRegions
<1>5. P \in Greedy!AdjacentRegions
  <2>1. P \in Parts \X Parts /\ P[1] # P[2]
    BY <1>1, LeavesApart
  <2>2. Greedy!Between(P[1], P[2]) # {}
    BY <1>1, <1>2, BetweenIsContours
  <2> QED BY <1>4, <2>1, <2>2
<1>6. ASSUME NEW Q \in Greedy!AdjacentRegions
      PROVE  Greedy!AtMost(Greedy!MeanBetween(P[1], P[2]), Greedy!MeanBetween(Q[1], Q[2]))
  <2>1. Q \in Parts \X Parts /\ Q[1] # Q[2] /\ Greedy!Between(Q[1], Q[2]) # {}
    BY <1>4
  <2>2. PICK r \in Active, s \in Active : Q[1] = Leaves(r) /\ Q[2] = Leaves(s)
    BY <2>1
  <2>3. r # s
    BY <2>1, <2>2
  <2>4. ContoursBetween(r, s) # {}
    BY <2>1, <2>2, <2>3, BetweenIsContours
  <2>5. AtMost(m.energy, Quotient(Sum(r, s), Length(r, s)))
    BY <2>3, <2>4, TopIsLeast DEF Merging
  <2>6. Greedy!MeanBetween(Q[1], Q[2]) = Quotient(Sum(r, s), Length(r, s))
    BY <2>2, <2>3, SameMean
  <2> QED BY <1>3, <2>5, <2>6 DEF Greedy!AtMost, AtMost
<1>7. Parts' = (Parts \ {P[1], P[2]}) \cup {P[1] \cup P[2]}
  BY LeavesAfter
<1>8. /\ [x \in Beyond |-> Sides(x)]' = [x \in Beyond |-> Sides(x)]
      /\ local_boundaries' = local_boundaries
  BY SidesStay DEF Merging, input
<1> HIDE DEF P, Parts
<1>9. Greedy!Join(P)
  BY <1>3, <1>6, <1>7, <1>8 DEF Greedy!Join, Parts
<1> QED BY <1>5, <1>9 DEF Greedy!Next

\* The lazy queue, with its entries out of date and its tables kept by hand,
\* implements greedy merging: a merging joins two of the adjacent regions whose
\* mean is least, and no other step changes a region.
THEOREM GreedyMergingCorrect == Spec => IsGreedyMerging
<1>1. Init => Greedy!Init
  BY InitRefines
<1> DEFINE Inv == Tables /\ StrengthsOK /\ Matched /\ Covered /\ Live /\ EnergiesAscend
<1>2. Inv /\ [Next]_vars => [Greedy!Next]_Greedy!vars
  <2> SUFFICES ASSUME Inv, [Next]_vars PROVE [Greedy!Next]_Greedy!vars
    OBVIOUS
  <2>1. CASE MergeTop
    <3>1. PICK m, father, son :
            Merging(m, father, son) /\ IsTop(m) /\ current_energy' = m.energy
      BY <2>1, MergeTopAscends
    <3> QED BY <3>1, MergingRefines
  <2>2. CASE SkipStale \/ Complete \/ UNCHANGED vars
    <3>1. UNCHANGED <<local_boundaries, initial_partition, labels, current_energy>>
      BY <2>2 DEF SkipStale, Complete, vars, input
    <3>2. [x \in Beyond |-> Sides(x)]' = [x \in Beyond |-> Sides(x)]
      BY <3>1, SidesStay
    <3>3. {Leaves(r) : r \in Active}' = {Leaves(r) : r \in Active}
      BY <3>1 DEF Leaves, Active, Regions
    <3> QED BY <3>1, <3>2, <3>3 DEF Greedy!vars
  <2> QED BY <2>1, <2>2 DEF Next
<1> QED BY <1>1, <1>2, TablesInvariant, MatchedInvariant, CoveredInvariant, LiveInvariant,
           AscendingInvariant, PTL DEF Spec, IsGreedyMerging, Greedy!Spec

================================================================================
