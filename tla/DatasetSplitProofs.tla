-------------------------- MODULE DatasetSplitProofs --------------------------
(***************************************************************************)
(* Proofs about DatasetSplit, for every contents of the features file: no  *)
(* image is lost or duplicated by the two rebalancings, the second of      *)
(* which moves images by positions that are out of date; the first one     *)
(* balances the images with two signs exactly; train gets its share of     *)
(* every type; and the files keep the rows of an image together.           *)
(***************************************************************************)
EXTENDS DatasetSplit, DataProofs, FunctionTheorems, SequenceTheorems, TLAPS

-----------------------------------------------------------------------------
(* Moving images between two lists by position.                            *)

LEMMA AtLists ==
  ASSUME NEW s, NEW S, Lists(s, S), NEW is, NEW I, Lists(is, I), I \subseteq 1 .. Len(s)
  PROVE  Lists(At(s, is), {s[i] : i \in I}) /\ Len(At(s, is)) = Len(is)
<1> DEFINE A == {s[i] : i \in I}
<1>1. Len(is) \in Nat /\ DOMAIN is = 1 .. Len(is) /\ \A k \in 1 .. Len(is) : is[k] \in I
  BY DEF Lists
<1>2. At(s, is) = [k \in 1 .. Len(is) |-> s[is[k]]]
  BY <1>1 DEF At
<1>3. At(s, is) \in Seq(A) /\ Len(At(s, is)) = Len(is)
  BY <1>1, <1>2
<1>4. ASSUME NEW j \in 1 .. Len(is), NEW k \in 1 .. Len(is), At(s, is)[j] = At(s, is)[k]
      PROVE  j = k
  <2>1. is[j] \in 1 .. Len(s) /\ is[k] \in 1 .. Len(s) /\ s[is[j]] = s[is[k]]
    BY <1>1, <1>2, <1>4
  <2>2. \A a, b \in 1 .. Len(s) : s[a] = s[b] => a = b
    BY DEF Lists
  <2>3. is[j] = is[k]
    BY <2>1, <2>2
  <2> QED BY <2>3 DEF Lists
<1>5. \A x \in A : \E k \in 1 .. Len(is) : At(s, is)[k] = x
  BY <1>2 DEF Lists
<1> QED BY <1>3, <1>4, <1>5 DEF Lists

LEMMA WithoutLists ==
  ASSUME NEW s, NEW S, Lists(s, S), NEW is, NEW I, Lists(is, I), I \subseteq 1 .. Len(s)
  PROVE  Lists(Without(s, is), S \ {s[i] : i \in I})
<1> DEFINE J == DOMAIN s \ ToSet(is)
<1>1. Len(s) \in Nat /\ DOMAIN s = 1 .. Len(s) /\ \A k \in 1 .. Len(s) : s[k] \in S
  BY DEF Lists
<1>2. J = (1 .. Len(s)) \ I
  BY <1>1, ListedSet
<1>3. IsFiniteSet(1 .. Len(s))
  BY <1>1, FS_Interval
<1>4. J \in SUBSET (1 .. Len(s)) /\ J \in SUBSET Nat
  BY <1>2
<1>5. IsFiniteSet(J)
  BY <1>3, <1>4, FS_Subset
<1>6. Lists(Ascending(J), J)
  BY <1>4, <1>5, AscendingLists
<1>7. Lists(Without(s, is), {s[j] : j \in J})
  BY <1>4, <1>6, AtLists DEF Without
<1>8. {s[j] : j \in J} = S \ {s[i] : i \in I}
  BY <1>1, <1>2 DEF Lists
<1> QED BY <1>7, <1>8

LEMMA ConcatLists ==
  ASSUME NEW s, NEW S, Lists(s, S), NEW t, NEW T, Lists(t, T), S \cap T = {}
  PROVE  Lists(s \o t, S \cup T)
<1>1. s \in Seq(S \cup T) /\ t \in Seq(S \cup T) /\ Len(s) \in Nat /\ Len(t) \in Nat
  BY DEF Lists
<1>2. s \o t \in Seq(S \cup T) /\ Len(s \o t) = Len(s) + Len(t)
  BY <1>1
<1>3. \A i \in 1 .. Len(s) + Len(t) :
        (s \o t)[i] = IF i <= Len(s) THEN s[i] ELSE t[i - Len(s)]
  BY <1>1
<1>4. /\ \A i \in 1 .. Len(s) : s[i] \in S
      /\ \A i \in 1 .. Len(t) : t[i] \in T
  BY DEF Lists
<1>5. ASSUME NEW i \in 1 .. Len(s) + Len(t), NEW j \in 1 .. Len(s) + Len(t),
             (s \o t)[i] = (s \o t)[j]
      PROVE  i = j
  <2>1. CASE i <= Len(s) /\ j <= Len(s)
    BY <1>1, <1>3, <1>5, <2>1 DEF Lists
  <2>2. CASE i > Len(s) /\ j > Len(s)
    <3>1. i - Len(s) \in 1 .. Len(t) /\ j - Len(s) \in 1 .. Len(t)
      BY <1>1, <2>2
    <3>2. t[i - Len(s)] = t[j - Len(s)]
      BY <1>1, <1>3, <1>5, <2>2
    <3>3. i - Len(s) = j - Len(s)
      BY <3>1, <3>2 DEF Lists
    <3> QED BY <1>1, <3>3
  <2>3. CASE (i <= Len(s) /\ j > Len(s)) \/ (i > Len(s) /\ j <= Len(s))
    <3>1. \A k \in 1 .. Len(s) + Len(t) :
            (k <= Len(s) => (s \o t)[k] \in S) /\ (k > Len(s) => (s \o t)[k] \in T)
      BY <1>1, <1>3, <1>4
    <3> QED BY <1>5, <2>3, <3>1
  <2> QED BY <1>1, <2>1, <2>2, <2>3
<1>6. ASSUME NEW x \in S
      PROVE  \E i \in 1 .. Len(s) + Len(t) : (s \o t)[i] = x
  BY <1>1, <1>3 DEF Lists
<1>7. ASSUME NEW x \in T
      PROVE  \E i \in 1 .. Len(s) + Len(t) : (s \o t)[i] = x
  <2>1. PICK k \in 1 .. Len(t) : t[k] = x
    BY DEF Lists
  <2>2. Len(s) + k \in 1 .. Len(s) + Len(t) /\ ~ (Len(s) + k <= Len(s)) /\ (Len(s) + k) - Len(s) = k
    BY <1>1
  <2> QED BY <1>3, <2>1, <2>2
<1> QED BY <1>2, <1>5, <1>6, <1>7 DEF Lists

LEMMA FirstLists ==
  ASSUME NEW s, NEW S, Lists(s, S), NEW n \in Int, n <= Len(s)
  PROVE  /\ Lists(SubSeq(s, 1, n), {s[i] : i \in 1 .. n})
         /\ Len(SubSeq(s, 1, n)) = IF n > 0 THEN n ELSE 0
<1> DEFINE F == {s[i] : i \in 1 .. n}
           m == IF n > 0 THEN n ELSE 0
<1>1. Len(s) \in Nat /\ \A k \in 1 .. Len(s) : s[k] \in S
  BY DEF Lists
<1>2. \A i \in 1 .. n : s[i] \in F
  OBVIOUS
<1>3. m \in Nat /\ 1 .. n = 1 .. m
  OBVIOUS
<1>4. /\ SubSeq(s, 1, n) \in Seq(F) /\ Len(SubSeq(s, 1, n)) = m
      /\ \A i \in 1 .. n : SubSeq(s, 1, n)[i] = s[i]
  BY <1>2, SubSeqProperties
<1>5. ASSUME NEW i \in 1 .. m, NEW j \in 1 .. m, SubSeq(s, 1, n)[i] = SubSeq(s, 1, n)[j]
      PROVE  i = j
  <2>1. i \in 1 .. Len(s) /\ j \in 1 .. Len(s) /\ s[i] = s[j]
    BY <1>1, <1>3, <1>4, <1>5
  <2> QED BY <2>1 DEF Lists
<1>6. \A x \in F : \E i \in 1 .. m : SubSeq(s, 1, n)[i] = x
  BY <1>3, <1>4
<1> QED BY <1>4, <1>5, <1>6 DEF Lists

ImagesAt(s, I) == {s[i] : i \in I}

LEMMA MoveLists ==
  ASSUME NEW s, NEW S, Lists(s, S), NEW t, NEW T, Lists(t, T), S \cap T = {},
         NEW out, NEW O, Lists(out, O), O \subseteq 1 .. Len(s),
         NEW in, NEW N, Lists(in, N), N \subseteq 1 .. Len(t)
  PROVE  /\ Lists(Without(s, out) \o At(t, in), (S \ ImagesAt(s, O)) \cup ImagesAt(t, N))
         /\ ImagesAt(s, O) \subseteq S /\ ImagesAt(t, N) \subseteq T
<1>1. Lists(Without(s, out), S \ ImagesAt(s, O))
  BY WithoutLists DEF ImagesAt
<1>2. Lists(At(t, in), ImagesAt(t, N))
  BY AtLists DEF ImagesAt
<1>3. ImagesAt(s, O) \subseteq S /\ ImagesAt(t, N) \subseteq T
  BY DEF Lists, ImagesAt
<1>4. (S \ ImagesAt(s, O)) \cap ImagesAt(t, N) = {}
  BY <1>3
<1> QED BY <1>1, <1>2, <1>3, <1>4, ConcatLists

LEMMA ShareBounds ==
  ASSUME NEW n \in Nat
  PROVE  Round70(n) \in Nat /\ Round70(n) <= n
<1>1. PICK h \in {4, 5} : Round70(n) = (7 * n + h) \div 10
  BY DEF Round70
<1>2. CASE h = 5
  BY <1>1, <1>2
<1>3. CASE h = 4
  BY <1>1, <1>3
<1> QED BY <1>2, <1>3
-----------------------------------------------------------------------------
(* Dealing the rows.                                                       *)

LEMMA ImagesAreNumbers ==
  ASSUME signs \in Datasets
  PROVE  Images \in SUBSET Nat /\ IsFiniteSet(Images) /\ ImagesOf(Rows) = Images
<1>1. /\ IsFiniteSet(Images) /\ Images \subseteq Nat
      /\ \A im \in Images : signs[im] \in Seq(ToSet(SignTypes)) /\ signs[im] # <<>>
  BY DatasetAssumption DEF Images
<1>2. \A im \in Images : 1 \in DOMAIN signs[im]
  BY <1>1
<1>3. \A im \in Images : <<im, 1>> \in Rows
  BY <1>2 DEF Rows
<1>4. \A r \in Rows : r[1] \in Images
  BY DEF Rows
<1>5. \A im \in Images : im \in ImagesOf(Rows)
  <2> TAKE im \in Images
  <2>1. <<im, 1>>[1] = im
    OBVIOUS
  <2> QED BY <1>3, <2>1 DEF ImagesOf
<1> QED BY <1>1, <1>4, <1>5 DEF ImagesOf

LEMMA EveryRowHasType ==
  ASSUME signs \in Datasets, NEW r \in Rows
  PROVE  \E k \in 1 .. Len(SignTypes) : signs[r[1]][r[2]] = SignTypes[k]
<1>1. PICK im \in Images : r \in {im} \X DOMAIN signs[im]
  BY DEF Rows
<1>2. r[1] = im /\ r[2] \in DOMAIN signs[im]
  BY <1>1
<1>3. signs[im] \in Seq(ToSet(SignTypes))
  BY DatasetAssumption DEF Images
<1>4. signs[im][r[2]] \in ToSet(SignTypes)
  BY <1>2, <1>3
<1>5. DOMAIN SignTypes = 1 .. Len(SignTypes)
  BY DatasetAssumption
<1> QED BY <1>2, <1>4, <1>5 DEF ToSet

\* The rows dealt are those of the types before this turn.
Dealt ==
  /\ signs \in Datasets
  /\ turn \in 1 .. Len(SignTypes) + 1
  /\ trainRows \cup valRows =
       {r \in Rows : \E k \in 1 .. turn - 1 : signs[r[1]][r[2]] = SignTypes[k]}

LEMMA DealtInvariant == Spec => []Dealt
<1>1. Len(SignTypes) \in Nat
  BY DatasetAssumption
<1>2. Init => Dealt
  BY <1>1 DEF Init, Dealt
<1>3. ASSUME Dealt, [Next]_vars PROVE Dealt'
  <2>1. CASE DealType
    <3>1. PICK T \in Draws(RowsOfType(SignTypes[turn])) :
            /\ T \in kSubset(Round70(Cardinality(RowsOfType(SignTypes[turn]))), RowsOfType(SignTypes[turn]))
            /\ trainRows' = trainRows \cup T
            /\ valRows' = valRows \cup (RowsOfType(SignTypes[turn]) \ T)
      BY <2>1 DEF DealType
    <3>2. T \subseteq RowsOfType(SignTypes[turn])
      BY <3>1 DEF kSubset
    <3>3. (trainRows \cup valRows)' = (trainRows \cup valRows) \cup RowsOfType(SignTypes[turn])
      BY <3>1, <3>2
    <3>4. signs' = signs /\ turn' = turn + 1 /\ turn <= Len(SignTypes)
      BY <2>1 DEF DealType
    <3>5. Rows' = Rows
      BY <3>4 DEF Rows, Images
    <3>6. turn' \in 1 .. Len(SignTypes) + 1
      BY <1>1, <1>3, <3>4 DEF Dealt
    <3>7. \A k : k \in 1 .. turn' - 1 <=> k \in 1 .. turn - 1 \/ k = turn
      BY <1>3, <3>4 DEF Dealt
    <3>8. (trainRows \cup valRows)' =
            {r \in Rows : \E k \in 1 .. turn' - 1 : signs[r[1]][r[2]] = SignTypes[k]}
      BY <1>3, <3>3, <3>7 DEF Dealt, RowsOfType
    <3> QED BY <1>3, <3>4, <3>5, <3>6, <3>8 DEF Dealt
  <2>2. CASE UNCHANGED <<signs, turn, trainRows, valRows>>
    BY <1>3, <2>2 DEF Dealt, Rows, Images
  <2> QED BY <1>3, <2>1, <2>2 DEF Next, CheckShares, CollectImages, IndexMultiSigns,
        BalanceTwo, BalanceThree, WriteFiles, vars
<1> QED BY <1>2, <1>3, PTL DEF Spec
-----------------------------------------------------------------------------
(* The two sets.                                                           *)

Split(s, t) ==
  /\ Lists(s, ToSet(s)) /\ Lists(t, ToSet(t))
  /\ ToSet(s) \cup ToSet(t) = Images
  /\ ToSet(s) \cap ToSet(t) = {}

\* The positions kept in idx are fresh for the first rebalancing only; for the
\* second one all that is known is that no position comes twice.
Fresh ==
  [train2 |-> PositionsIn(train, TwoSigns), train3 |-> PositionsIn(train, ThreeSigns),
   val2 |-> PositionsIn(val, TwoSigns), val3 |-> PositionsIn(val, ThreeSigns)]
Positions(is) == \E I \in SUBSET Nat : Lists(is, I)
Kept ==
  /\ pc \in {"index", "balance2"} => ToSet(train) = ImagesOf(trainRows)
  /\ pc = "balance2" => idx = Fresh
  /\ pc = "balance3" => Positions(idx.train3) /\ Positions(idx.val3)
SetsOK == Collected => Split(train, val)

LEMMA PositionsList ==
  ASSUME NEW s, NEW S, Lists(s, ToSet(s))
  PROVE  Lists(PositionsIn(s, S), {k \in 1 .. Len(s) : s[k] \in S})
<1> DEFINE K == {k \in 1 .. Len(s) : s[k] \in S}
<1>1. Len(s) \in Nat /\ DOMAIN s = 1 .. Len(s)
  BY DEF Lists
<1>2. IsFiniteSet(1 .. Len(s))
  BY <1>1, FS_Interval
<1>3. K \in SUBSET (1 .. Len(s)) /\ K \in SUBSET Nat
  BY <1>1
<1>4. IsFiniteSet(K)
  BY <1>2, <1>3, FS_Subset
<1>5. PositionsIn(s, S) = Ascending(K)
  BY <1>1 DEF PositionsIn
<1> QED BY <1>3, <1>4, <1>5, AscendingLists

\* What a rebalancing does, whatever the positions are.
Target(tIdx, vIdx) == Round70(Len(tIdx) + Len(vIdx))
Out(tIdx, vIdx) == {tIdx[k] : k \in 1 .. Len(tIdx) - Target(tIdx, vIdx)}
In(tIdx, vIdx) == {vIdx[k] : k \in 1 .. Target(tIdx, vIdx) - Len(tIdx)}

LEMMA BalanceSplits ==
  ASSUME Split(train, val), NEW tIdx, NEW vIdx, Positions(tIdx), Positions(vIdx),
         NEW next, Balance(tIdx, vIdx, next), pc' # "error"
  PROVE  LET O == Out(tIdx, vIdx)
             N == In(tIdx, vIdx)
         IN /\ O \subseteq 1 .. Len(train) /\ N \subseteq 1 .. Len(val)
            /\ ToSet(train') = (ToSet(train) \ ImagesAt(train, O)) \cup ImagesAt(val, N)
            /\ ToSet(val') = (ToSet(val) \ ImagesAt(val, N)) \cup ImagesAt(train, O)
            /\ Split(train', val')
<1> DEFINE target == Target(tIdx, vIdx)
           out == SubSeq(tIdx, 1, Len(tIdx) - target)
           in == SubSeq(vIdx, 1, target - Len(tIdx))
           O == Out(tIdx, vIdx)
           N == In(tIdx, vIdx)
<1>1. Len(tIdx) \in Nat /\ Len(vIdx) \in Nat
  BY DEF Positions, Lists
<1>2. target \in Nat /\ target <= Len(tIdx) + Len(vIdx)
  BY <1>1, ShareBounds DEF Target
<1>3. PICK I \in SUBSET Nat : Lists(tIdx, I)
  BY DEF Positions
<1>4. PICK J \in SUBSET Nat : Lists(vIdx, J)
  BY DEF Positions
<1>5. Len(tIdx) - target \in Int /\ Len(tIdx) - target <= Len(tIdx)
  BY <1>1, <1>2
<1>6. target - Len(tIdx) \in Int /\ target - Len(tIdx) <= Len(vIdx)
  BY <1>1, <1>2
<1>7. Lists(out, O)
  BY <1>3, <1>5, FirstLists DEF Out
<1>8. Lists(in, N)
  BY <1>4, <1>6, FirstLists DEF In
<1>9. /\ InBounds(train, out) /\ InBounds(val, in)
      /\ train' = Without(train, out) \o At(val, in)
      /\ val' = Without(val, in) \o At(train, out)
  BY DEF Balance, Target
<1>10. DOMAIN train = 1 .. Len(train) /\ DOMAIN val = 1 .. Len(val)
  BY DEF Split, Lists
<1>11. O \subseteq 1 .. Len(train) /\ N \subseteq 1 .. Len(val)
  BY <1>7, <1>8, <1>9, <1>10, ListedSet DEF InBounds
<1> DEFINE T == (ToSet(train) \ ImagesAt(train, O)) \cup ImagesAt(val, N)
           V == (ToSet(val) \ ImagesAt(val, N)) \cup ImagesAt(train, O)
<1> HIDE DEF out, in, O, N
<1>12. Lists(train', T) /\ ImagesAt(train, O) \subseteq ToSet(train) /\ ImagesAt(val, N) \subseteq ToSet(val)
  <2>1. Lists(train, ToSet(train)) /\ Lists(val, ToSet(val)) /\ ToSet(train) \cap ToSet(val) = {}
    BY DEF Split
  <2>2. /\ Lists(Without(train, out) \o At(val, in), T)
        /\ ImagesAt(train, O) \subseteq ToSet(train) /\ ImagesAt(val, N) \subseteq ToSet(val)
    BY <2>1, <1>7, <1>8, <1>11, MoveLists
  <2> QED BY <2>2, <1>9
<1>13. Lists(val', V)
  <2>1. Lists(train, ToSet(train)) /\ Lists(val, ToSet(val)) /\ ToSet(val) \cap ToSet(train) = {}
    BY DEF Split
  <2>2. Lists(Without(val, in) \o At(train, out), V)
    BY <2>1, <1>7, <1>8, <1>11, MoveLists
  <2> QED BY <2>2, <1>9
<1>14. ToSet(train') = T /\ ToSet(val') = V
  BY <1>12, <1>13, ListedSet
<1>15. T \cup V = Images /\ T \cap V = {}
  BY <1>12 DEF Split
<1>16. Split(train', val')
  BY <1>12, <1>13, <1>14, <1>15 DEF Split
<1> QED BY <1>11, <1>14, <1>16 DEF O, N

LEMMA CollectedSplits ==
  ASSUME Dealt, CollectImages
  PROVE  Split(train', val') /\ ToSet(train') = ImagesOf(trainRows)
<1> DEFINE T == ImagesOf(trainRows)
           V == ImagesOf(valRows) \ ImagesOf(trainRows)
<1>1. train' = Ascending(T) /\ val' = Ascending(V)
  BY DEF CollectImages
<1>2. turn - 1 = Len(SignTypes)
  <2>1. Len(SignTypes) \in Nat /\ turn \in 1 .. Len(SignTypes) + 1 /\ turn > Len(SignTypes)
    BY DatasetAssumption DEF Dealt, CollectImages
  <2> QED BY <2>1
<1>3. trainRows \cup valRows = Rows
  BY <1>2, EveryRowHasType DEF Dealt
<1>4. Images \in SUBSET Nat /\ IsFiniteSet(Images) /\ ImagesOf(Rows) = Images
  BY ImagesAreNumbers DEF Dealt
<1>5. T \cup V = Images
  BY <1>3, <1>4 DEF ImagesOf
<1>6. /\ T \in SUBSET Images /\ V \in SUBSET Images
      /\ T \in SUBSET Nat /\ V \in SUBSET Nat
  BY <1>4, <1>5
<1>7. IsFiniteSet(T) /\ IsFiniteSet(V)
  BY <1>4, <1>6, FS_Subset
<1> HIDE DEF T, V
<1>8. Lists(train', T) /\ Lists(val', V)
  BY <1>1, <1>6, <1>7, AscendingLists
<1>9. ToSet(train') = T /\ ToSet(val') = V
  BY <1>8, ListedSet
<1>10. T \cap V = {}
  BY DEF T, V
<1> QED BY <1>5, <1>8, <1>9, <1>10 DEF Split, T

LEMMA FreshArePositions ==
  ASSUME Split(train, val)
  PROVE  /\ Lists(Fresh.train2, {k \in 1 .. Len(train) : train[k] \in TwoSigns})
         /\ Lists(Fresh.val2, {k \in 1 .. Len(val) : val[k] \in TwoSigns})
         /\ Positions(Fresh.train2) /\ Positions(Fresh.val2)
         /\ Positions(Fresh.train3) /\ Positions(Fresh.val3)
<1>1. Len(train) \in Nat /\ Len(val) \in Nat
  BY DEF Split, Lists
<1>2. Lists(train, ToSet(train)) /\ Lists(val, ToSet(val))
  BY DEF Split
<1>3. ASSUME NEW S
      PROVE  Positions(PositionsIn(train, S)) /\ Positions(PositionsIn(val, S))
  <2>1. {k \in 1 .. Len(train) : train[k] \in S} \in SUBSET Nat
    BY <1>1
  <2>2. {k \in 1 .. Len(val) : val[k] \in S} \in SUBSET Nat
    BY <1>1
  <2> QED BY <1>2, <2>1, <2>2, PositionsList DEF Positions
<1> QED BY <1>2, <1>3, PositionsList DEF Fresh

LEMMA SetsInvariant == Spec => [](SetsOK /\ Kept)
<1>1. Init => SetsOK /\ Kept
  BY DEF Init, SetsOK, Kept, Collected
<1>2. ASSUME Dealt, SetsOK, Kept, [Next]_vars PROVE (SetsOK /\ Kept)'
  <2>1. CASE CheckShares
    BY <2>1 DEF CheckShares, SetsOK, Kept, Collected
  <2>2. CASE DealType
    BY <2>2 DEF DealType, SetsOK, Kept, Collected
  <2>3. CASE CollectImages
    <3>1. Split(train', val') /\ ToSet(train') = ImagesOf(trainRows)
      BY <1>2, <2>3, CollectedSplits
    <3>2. pc' = "index" /\ signs' = signs /\ trainRows' = trainRows
      BY <2>3 DEF CollectImages
    <3> QED BY <3>1, <3>2 DEF SetsOK, Kept, Split, Images
  <2>4. CASE IndexMultiSigns
    <3>1. /\ pc = "index" /\ pc' = "balance2" /\ idx' = Fresh
          /\ signs' = signs /\ trainRows' = trainRows /\ train' = train /\ val' = val
      BY <2>4 DEF IndexMultiSigns, Fresh
    <3>2. Fresh' = Fresh
      BY <3>1 DEF Fresh, TwoSigns, ThreeSigns, Images
    <3> QED BY <1>2, <3>1, <3>2 DEF SetsOK, Kept, Split, Collected, Images
  <2>5. CASE BalanceTwo
    <3>1. /\ pc = "balance2" /\ signs' = signs /\ idx' = idx
          /\ Balance(idx.train2, idx.val2, "balance3")
      BY <2>5 DEF BalanceTwo
    <3>2. Split(train, val) /\ idx = Fresh
      BY <1>2, <3>1 DEF SetsOK, Kept, Collected
    <3>3. pc' \in {"balance3", "error"}
      BY <3>1 DEF Balance
    <3>4. Positions(idx'.train3) /\ Positions(idx'.val3)
      BY <3>1, <3>2, FreshArePositions
    <3>5. Split(train', val')
      <4>1. CASE pc' = "error"
        BY <3>1, <3>2, <4>1 DEF Balance
      <4>2. CASE pc' # "error"
        BY <3>1, <3>2, <4>2, FreshArePositions, BalanceSplits
      <4> QED BY <4>1, <4>2
    <3> QED BY <3>1, <3>3, <3>4, <3>5 DEF SetsOK, Kept, Split, Images
  <2>6. CASE BalanceThree
    <3>1. /\ pc = "balance3" /\ signs' = signs
          /\ Balance(idx.train3, idx.val3, "write")
      BY <2>6 DEF BalanceThree
    <3>2. Split(train, val) /\ Positions(idx.train3) /\ Positions(idx.val3)
      BY <1>2, <3>1 DEF SetsOK, Kept, Collected
    <3>3. pc' \in {"write", "error"}
      BY <3>1 DEF Balance
    <3>4. Split(train', val')
      <4>1. CASE pc' = "error"
        BY <3>1, <3>2, <4>1 DEF Balance
      <4>2. CASE pc' # "error"
        BY <3>1, <3>2, <4>2, BalanceSplits
      <4> QED BY <4>1, <4>2
    <3> QED BY <3>1, <3>3, <3>4 DEF SetsOK, Kept, Split, Images
  <2>7. CASE WriteFiles
    BY <1>2, <2>7 DEF WriteFiles, SetsOK, Kept, Split, Collected, Images
  <2>8. CASE UNCHANGED vars
    BY <1>2, <2>8 DEF vars, SetsOK, Kept, Split, Collected, Images, Fresh, PositionsIn, TwoSigns, ThreeSigns
  <2> QED BY <1>2, <2>1, <2>2, <2>3, <2>4, <2>5, <2>6, <2>7, <2>8 DEF Next
<1> QED BY <1>1, <1>2, DealtInvariant, PTL DEF Spec

\* Every image is in exactly one of the two sets, once, through both
\* rebalancings: whatever permutations are drawn, and although the second one
\* moves images by positions that the first has made stale (lines 42-107).
THEOREM PartitionCorrect == Spec => []Partition
<1>1. ASSUME Dealt, SetsOK PROVE Partition
  <2> SUFFICES ASSUME Collected PROVE /\ ToSet(train) \cup ToSet(val) = Images
                                      /\ ToSet(train) \cap ToSet(val) = {}
                                      /\ Len(train) + Len(val) = Cardinality(Images)
    BY DEF Partition
  <2>1. Split(train, val)
    BY <1>1 DEF SetsOK
  <2>2. /\ IsFiniteSet(ToSet(train)) /\ Cardinality(ToSet(train)) = Len(train) /\ Len(train) \in Nat
        /\ IsFiniteSet(ToSet(val)) /\ Cardinality(ToSet(val)) = Len(val) /\ Len(val) \in Nat
    BY <2>1, ListedLength DEF Split
  <2>3. Cardinality(ToSet(train) \cap ToSet(val)) = 0
    BY <2>1, FS_EmptySet DEF Split
  <2>4. Cardinality(Images) = Len(train) + Len(val) - 0
    BY <2>1, <2>2, <2>3, FS_Union DEF Split
  <2> QED BY <2>1, <2>2, <2>4 DEF Split
<1> QED BY <1>1, DealtInvariant, SetsInvariant, PTL
-----------------------------------------------------------------------------
(* The first rebalancing.                                                  *)

PositionsOf(s, S) == {k \in 1 .. Len(s) : s[k] \in S}
FirstOf(is, n) == {is[k] : k \in 1 .. n}

\* The images of a kind in one of the sets, and their positions.
LEMMA CountOfKind ==
  ASSUME NEW s, Lists(s, ToSet(s)), NEW is, NEW S,
         Lists(is, PositionsOf(s, S))
  PROVE  /\ IsFiniteSet(S \cap ToSet(s)) /\ Cardinality(S \cap ToSet(s)) = Len(is)
         /\ Len(is) \in Nat
<1> DEFINE K == PositionsOf(s, S)
<1>1. Lists(At(s, is), ImagesAt(s, K)) /\ Len(At(s, is)) = Len(is)
  BY AtLists DEF ImagesAt, PositionsOf
<1>2. ImagesAt(s, K) = S \cap ToSet(s)
  <2>1. DOMAIN s = 1 .. Len(s)
    BY DEF Lists
  <2> QED BY <2>1 DEF ImagesAt, ToSet, PositionsOf
<1> QED BY <1>1, <1>2, ListedLength

\* Moving the first n of them takes n images of the kind.
LEMMA FirstOfKind ==
  ASSUME NEW s, Lists(s, ToSet(s)), NEW is, NEW S,
         Lists(is, PositionsOf(s, S)), NEW n \in Int, n <= Len(is),
         NEW A, A = ImagesAt(s, FirstOf(is, n))
  PROVE  /\ A \subseteq S \cap ToSet(s) /\ IsFiniteSet(A)
         /\ Cardinality(A) = IF n > 0 THEN n ELSE 0
<1> DEFINE K == PositionsOf(s, S)
           F == FirstOf(is, n)
           first == SubSeq(is, 1, n)
<1>1. Lists(first, F) /\ Len(first) = IF n > 0 THEN n ELSE 0
  BY FirstLists DEF FirstOf
<1>2. Len(is) \in Nat /\ \A k \in 1 .. Len(is) : is[k] \in K
  BY DEF Lists
<1>3. F \subseteq K
  BY <1>2 DEF FirstOf
<1>4. F \subseteq 1 .. Len(s) /\ \A k \in F : s[k] \in S
  BY <1>3 DEF PositionsOf
<1>5. DOMAIN s = 1 .. Len(s)
  BY DEF Lists
<1>6. ImagesAt(s, F) \subseteq S \cap ToSet(s)
  BY <1>4, <1>5 DEF ImagesAt, ToSet
<1> HIDE DEF F, first
<1>7. Lists(At(s, first), ImagesAt(s, F)) /\ Len(At(s, first)) = Len(first)
  BY <1>1, <1>4, AtLists DEF ImagesAt
<1>8. IsFiniteSet(ImagesAt(s, F)) /\ Cardinality(ImagesAt(s, F)) = Len(first)
  BY <1>7, ListedLength
<1> QED BY <1>1, <1>6, <1>8 DEF F

LEMMA Exchange ==
  ASSUME NEW S, IsFiniteSet(S), NEW A \in SUBSET S, NEW B, IsFiniteSet(B), S \cap B = {}
  PROVE  Cardinality((S \ A) \cup B) = Cardinality(S) - Cardinality(A) + Cardinality(B)
<1>1. IsFiniteSet(A) /\ IsFiniteSet(S \ A)
  BY FS_Subset
<1>2. /\ Cardinality(S) \in Nat /\ Cardinality(A) \in Nat
      /\ Cardinality(B) \in Nat /\ Cardinality(S \ A) \in Nat
  BY <1>1, FS_CardinalityType
<1>3. Cardinality({}) = 0
  BY FS_EmptySet
<1>4. (S \ A) \cup A = S /\ (S \ A) \cap A = {} /\ (S \ A) \cap B = {}
  OBVIOUS
<1>5. Cardinality(S) = Cardinality(S \ A) + Cardinality(A) - 0
  BY <1>1, <1>3, <1>4, FS_Union
<1>6. Cardinality((S \ A) \cup B) = Cardinality(S \ A) + Cardinality(B) - 0
  BY <1>1, <1>3, <1>4, FS_Union
<1> QED BY <1>2, <1>5, <1>6

\* After the first rebalancing train holds exactly 70% of the images with two
\* signs and no other image has been moved (lines 88-97): its positions are
\* fresh, and there are as many to move as it asks for.
THEOREM TwoSignsCorrect == Spec => []TwoSignsBalanced
<1>1. Init => TwoSignsBalanced
  BY DEF Init, TwoSignsBalanced
<1>2. ASSUME SetsOK, Kept, BalanceTwo, pc' = "balance3"
      PROVE  /\ Cardinality(TwoSigns \cap ToSet(train')) = Round70(Cardinality(TwoSigns))
             /\ ToSet(train') \ TwoSigns = ImagesOf(trainRows) \ TwoSigns
  <2> DEFINE tIdx == idx.train2
             vIdx == idx.val2
             S == TwoSigns \cap ToSet(train)
             V == TwoSigns \cap ToSet(val)
             n == Len(tIdx)
             m == Len(vIdx)
             target == Round70(n + m)
             A == ImagesAt(train, Out(tIdx, vIdx))
             B == ImagesAt(val, In(tIdx, vIdx))
  <2>1. /\ Split(train, val) /\ idx = Fresh /\ ToSet(train) = ImagesOf(trainRows)
        /\ Balance(tIdx, vIdx, "balance3")
    BY <1>2 DEF BalanceTwo, SetsOK, Kept, Collected
  <2>2. /\ Lists(tIdx, PositionsOf(train, TwoSigns)) /\ Positions(tIdx)
        /\ Lists(vIdx, PositionsOf(val, TwoSigns)) /\ Positions(vIdx)
    BY <2>1, FreshArePositions DEF PositionsOf
  <2>3. Lists(train, ToSet(train)) /\ Lists(val, ToSet(val))
    BY <2>1 DEF Split
  <2> HIDE DEF tIdx, vIdx
  <2>4. /\ IsFiniteSet(S) /\ Cardinality(S) = n /\ n \in Nat
        /\ IsFiniteSet(V) /\ Cardinality(V) = m /\ m \in Nat
    BY <2>2, <2>3, CountOfKind
  <2>5. TwoSigns = S \cup V /\ S \cap V = {}
    BY <2>1 DEF Split, TwoSigns
  <2> HIDE DEF S, V
  <2>6. Cardinality(TwoSigns) = n + m
    <3>1. Cardinality(S \cap V) = 0
      BY <2>5, FS_EmptySet
    <3>2. Cardinality(S \cup V) = n + m - 0
      BY <2>4, <3>1, FS_Union
    <3> QED BY <2>4, <2>5, <3>2
  <2>7. target \in Nat /\ target <= n + m
    BY <2>4, ShareBounds
  <2> HIDE DEF n, m, target
  <2>8. /\ A \subseteq S /\ IsFiniteSet(A)
        /\ Cardinality(A) = IF n - target > 0 THEN n - target ELSE 0
    <3>1. n - target \in Int /\ n - target <= Len(tIdx)
      BY <2>4, <2>7 DEF n
    <3>2. A = ImagesAt(train, FirstOf(tIdx, n - target))
      BY DEF Out, Target, n, m, target, FirstOf
    <3> HIDE DEF A
    <3> QED BY <2>2, <2>3, <3>1, <3>2, FirstOfKind DEF S
  <2>9. /\ B \subseteq V /\ IsFiniteSet(B)
        /\ Cardinality(B) = IF target - n > 0 THEN target - n ELSE 0
    <3>1. target - n \in Int /\ target - n <= Len(vIdx)
      BY <2>4, <2>7 DEF m
    <3>2. B = ImagesAt(val, FirstOf(vIdx, target - n))
      BY DEF In, Target, n, m, target, FirstOf
    <3> HIDE DEF B
    <3> QED BY <2>2, <2>3, <3>1, <3>2, FirstOfKind DEF V
  <2>10. ToSet(train') = (ToSet(train) \ A) \cup B
    <3>1. pc' # "error"
      BY <1>2
    <3> QED BY <2>1, <2>2, <3>1, BalanceSplits
  <2> HIDE DEF A, B
  <2>11. TwoSigns \cap ToSet(train') = (S \ A) \cup B
    BY <2>8, <2>9, <2>10 DEF S, V
  <2>12. Cardinality((S \ A) \cup B) = Cardinality(S) - Cardinality(A) + Cardinality(B)
    BY <2>4, <2>5, <2>8, <2>9, Exchange
  <2>13. Cardinality((S \ A) \cup B) = target
    BY <2>4, <2>7, <2>8, <2>9, <2>12
  <2>14. ToSet(train') \ TwoSigns = ToSet(train) \ TwoSigns
    BY <2>8, <2>9, <2>10 DEF S, V
  <2> QED BY <2>1, <2>6, <2>11, <2>13, <2>14 DEF target
<1>3. ASSUME TwoSignsBalanced, SetsOK, Kept, [Next]_vars PROVE TwoSignsBalanced'
  <2>1. CASE BalanceTwo
    <3>1. signs' = signs /\ trainRows' = trainRows
      BY <2>1 DEF BalanceTwo
    <3> QED BY <1>2, <1>3, <2>1, <3>1 DEF TwoSignsBalanced, TwoSigns, Images
  <2>2. CASE UNCHANGED vars
    BY <1>3, <2>2 DEF vars, TwoSignsBalanced, TwoSigns, Images
  <2>3. CASE CheckShares \/ DealType \/ CollectImages \/ IndexMultiSigns \/ BalanceThree \/ WriteFiles
    <3>1. pc' # "balance3"
      BY <1>3, <2>3 DEF CheckShares, DealType, CollectImages, IndexMultiSigns, BalanceThree,
           Balance, WriteFiles
    <3> QED BY <3>1 DEF TwoSignsBalanced
  <2> QED BY <1>3, <2>1, <2>2, <2>3 DEF Next
<1> QED BY <1>1, <1>3, SetsInvariant, PTL DEF Spec
-----------------------------------------------------------------------------
(* The shares.                                                             *)

LEMMA RowsFinite ==
  ASSUME signs \in Datasets
  PROVE  /\ IsFiniteSet(Rows)
         /\ \A r \in Rows : r \in Nat \X Nat /\ r = <<r[1], r[2]>> /\ r[1] \in Images
<1>1. /\ IsFiniteSet(Images) /\ Images \subseteq Nat
      /\ \A im \in Images : signs[im] \in Seq(ToSet(SignTypes))
  BY DatasetAssumption DEF Images
<1>2. ASSUME NEW im \in Images
      PROVE  IsFiniteSet({im} \X DOMAIN signs[im])
  <2>1. Len(signs[im]) \in Nat /\ DOMAIN signs[im] = 1 .. Len(signs[im])
    BY <1>1
  <2>2. IsFiniteSet(DOMAIN signs[im])
    BY <2>1, FS_Interval
  <2>3. IsFiniteSet({im})
    BY FS_Singleton
  <2> QED BY <2>2, <2>3, FS_Product
<1> DEFINE part == [im \in Images |-> {im} \X DOMAIN signs[im]]
           Parts == {part[im] : im \in Images}
<1>3. part \in Surjection(Images, Parts)
  BY DEF Surjection
<1>4. IsFiniteSet(Parts) /\ \A P \in Parts : IsFiniteSet(P)
  <2>1. \A P \in Parts : IsFiniteSet(P)
    BY <1>2
  <2> HIDE DEF Parts, part
  <2>2. IsFiniteSet(Parts)
    BY <1>1, <1>3, FS_Surjection
  <2> QED BY <2>1, <2>2
<1>5. Rows = UNION Parts
  BY DEF Rows
<1>6. IsFiniteSet(Rows)
  <2> HIDE DEF Parts
  <2> QED BY <1>4, <1>5, FS_UNION
<1>7. ASSUME NEW r \in Rows
      PROVE  r \in Nat \X Nat /\ r = <<r[1], r[2]>> /\ r[1] \in Images
  <2>1. PICK im \in Images : r \in {im} \X DOMAIN signs[im]
    BY DEF Rows
  <2>2. DOMAIN signs[im] \subseteq Nat
    BY <1>1
  <2> QED BY <1>1, <2>1, <2>2
<1> QED BY <1>6, <1>7

LEMMA TypeCount ==
  ASSUME signs \in Datasets, NEW t
  PROVE  IsFiniteSet(RowsOfType(t)) /\ CountOf(t) \in Nat
<1>1. RowsOfType(t) \in SUBSET Rows
  BY DEF RowsOfType
<1>2. IsFiniteSet(RowsOfType(t))
  BY <1>1, RowsFinite, FS_Subset
<1> QED BY <1>2, FS_CardinalityType DEF CountOf

\* The shares of n signs add up, or both are rounded up; no other error occurs.
LEMMA ShareExcess ==
  ASSUME NEW n \in Nat
  PROVE  /\ Round70(n) + Round30(n) = n + (IF BothRoundedUp(n) THEN 1 ELSE 0)
         /\ Round70(n) \in Nat /\ Round30(n) \in Nat
<1>1. CASE HalfExact(n)
  <2>1. Round70(n) = (7 * n + 5) \div 10 /\ (BothRoundedUp(n) <=> n % 10 = 5)
    BY <1>1 DEF Round70, BothRoundedUp
  <2> QED BY <2>1 DEF Round30
<1>2. CASE ~ HalfExact(n)
  <2>1. Round70(n) = (7 * n + 4) \div 10 /\ ~ BothRoundedUp(n)
    BY <1>2 DEF Round70, BothRoundedUp
  <2> QED BY <2>1 DEF Round30
<1> QED BY <1>1, <1>2

LEMMA SharesAddUp ==
  ASSUME signs \in Datasets
  PROVE  SumOver([i \in DOMAIN SignTypes |-> ShareOf(SignTypes[i])])
           = SumOver([i \in DOMAIN SignTypes |-> CountOf(SignTypes[i])])
         <=> ~ \E t \in ToSet(SignTypes) : BothRoundedUp(CountOf(t))
<1> DEFINE D == DOMAIN SignTypes
           share == [i \in D |-> ShareOf(SignTypes[i])]
           count == [i \in D |-> CountOf(SignTypes[i])]
<1>1. Len(SignTypes) \in Nat /\ D = 1 .. Len(SignTypes)
  BY DatasetAssumption
<1>2. IsFiniteSet(D)
  BY <1>1, FS_Interval
<1>3. ASSUME NEW i \in D
      PROVE  /\ count[i] \in Nat /\ share[i] \in Nat /\ count[i] <= share[i]
             /\ count[i] = share[i] <=> ~ BothRoundedUp(CountOf(SignTypes[i]))
  <2>1. PICK n \in Nat : n = CountOf(SignTypes[i])
    BY TypeCount
  <2>2. count[i] = n /\ share[i] = Round70(n) + Round30(n)
    BY <2>1 DEF ShareOf
  <2>3. share[i] = n + (IF BothRoundedUp(n) THEN 1 ELSE 0)
    BY <2>2, ShareExcess
  <2>4. CASE BothRoundedUp(n)
    <3>1. share[i] = n + 1 /\ count[i] = n
      BY <2>2, <2>3, <2>4
    <3> HIDE DEF share, count
    <3>2. share[i] \in Nat /\ count[i] \in Nat /\ count[i] <= share[i] /\ count[i] # share[i]
      BY <3>1
    <3> QED BY <2>1, <2>4, <3>2
  <2>5. CASE ~ BothRoundedUp(n)
    <3>1. share[i] = n /\ count[i] = n
      BY <2>2, <2>3, <2>5
    <3> HIDE DEF share, count
    <3>2. share[i] \in Nat /\ count[i] \in Nat /\ count[i] <= share[i] /\ count[i] = share[i]
      BY <3>1
    <3> QED BY <2>1, <2>5, <3>2
  <2> QED BY <2>4, <2>5
<1>4. (\E t \in ToSet(SignTypes) : BothRoundedUp(CountOf(t))) <=> \E i \in D : BothRoundedUp(CountOf(SignTypes[i]))
  BY DEF ToSet
<1> HIDE DEF share, count
<1>5. SumOver(share) = Total(share, D) /\ SumOver(count) = Total(count, D)
  BY DEF SumOver, MapThenSumSet, MapThenFoldSet, Total, Solves, SumStep, OneOf
<1>6. Total(count, D) = Total(share, D) <=> \A i \in D : count[i] = share[i]
  <2> HIDE DEF D
  <2>1. IsFiniteSet(D)
    BY <1>2 DEF IsFiniteSet, IsFiniteSet
  <2> QED BY <1>3, <2>1, TotalCompared
<1>7. SumOver(share) = SumOver(count) <=> ~ \E t \in ToSet(SignTypes) : BothRoundedUp(CountOf(t))
  <2> HIDE DEF D
  <2> QED BY <1>3, <1>4, <1>5, <1>6
<1> QED BY <1>7 DEF share, count

\* Once a type has been dealt, train has its share of it.
Aborts == pc # "check" => (pc = "aborted" <=> \E t \in ToSet(SignTypes) : BothRoundedUp(CountOf(t)))
DealtShare(t) == Cardinality(RowsOfType(t) \cap trainRows) >= Round70(CountOf(t))
Quota ==
  /\ \A k \in 1 .. turn - 1 : DealtShare(SignTypes[k])
  /\ pc \in {"index", "balance2"} => turn = Len(SignTypes) + 1

LEMMA AbortsKept ==
  ASSUME Dealt, Aborts, [Next]_vars
  PROVE  Aborts'
<1>1. CASE CheckShares
  <2>1. signs \in Datasets /\ signs' = signs
    BY <1>1 DEF Dealt, CheckShares
  <2>2. pc' = "aborted" <=> \E t \in ToSet(SignTypes) : BothRoundedUp(CountOf(t))
    BY <1>1, <2>1, SharesAddUp DEF CheckShares
  <2> QED BY <2>1, <2>2 DEF Aborts, CountOf, RowsOfType, Rows, Images
<1>2. CASE DealType \/ CollectImages \/ IndexMultiSigns \/ BalanceTwo \/ BalanceThree \/ WriteFiles
  <2>1. /\ signs' = signs /\ pc \notin {"check", "aborted"} /\ pc' \notin {"check", "aborted"}
    BY <1>2 DEF DealType, CollectImages, IndexMultiSigns, BalanceTwo, BalanceThree, Balance, WriteFiles
  <2> QED BY <2>1 DEF Aborts, CountOf, RowsOfType, Rows, Images
<1>3. CASE UNCHANGED vars
  BY <1>3 DEF vars, Aborts, CountOf, RowsOfType, Rows, Images
<1> QED BY <1>1, <1>2, <1>3 DEF Next

\* Rows are only added to train.
LEMMA DealtShareKept ==
  ASSUME signs \in Datasets, signs' = signs, trainRows \subseteq trainRows', NEW t, DealtShare(t)
  PROVE  DealtShare(t)'
<1>1. RowsOfType(t)' = RowsOfType(t) /\ CountOf(t)' = CountOf(t)
  BY DEF CountOf, RowsOfType, Rows, Images
<1> DEFINE A == RowsOfType(t) \cap trainRows
           B == RowsOfType(t) \cap trainRows'
<1>2. IsFiniteSet(B) /\ A \in SUBSET B
  BY TypeCount, FS_Intersection
<1>3. IsFiniteSet(A) /\ Cardinality(A) <= Cardinality(B)
  <2> HIDE DEF A, B
  <2> QED BY <1>2, FS_Subset
<1>4. PICK a \in Nat, b \in Nat : a = Cardinality(A) /\ b = Cardinality(B)
  <2> HIDE DEF A, B
  <2> QED BY <1>2, <1>3, FS_CardinalityType
<1>5. PICK r \in Nat : r = Round70(CountOf(t))
  BY TypeCount, ShareExcess
<1>6. a >= r /\ a <= b
  BY <1>3, <1>4, <1>5 DEF DealtShare
<1>7. b >= r
  BY <1>6
<1> QED BY <1>1, <1>4, <1>5, <1>7 DEF DealtShare

\* The share just dealt.
LEMMA ShareDealt ==
  ASSUME signs \in Datasets, signs' = signs, NEW t,
         NEW T \in kSubset(Round70(Cardinality(RowsOfType(t))), RowsOfType(t)),
         trainRows' = trainRows \cup T
  PROVE  DealtShare(t)'
<1> DEFINE R == RowsOfType(t)
           A == R \cap trainRows'
<1>1. R' = R /\ CountOf(t)' = CountOf(t)
  BY DEF CountOf, RowsOfType, Rows, Images
<1>2. T \in SUBSET R /\ Cardinality(T) = Round70(CountOf(t))
  BY DEF kSubset, CountOf
<1>3. IsFiniteSet(A) /\ T \in SUBSET A
  BY <1>2, TypeCount, FS_Intersection
<1>4. Cardinality(T) <= Cardinality(A) /\ IsFiniteSet(T)
  <2> HIDE DEF A
  <2> QED BY <1>3, FS_Subset
<1>5. PICK a \in Nat, b \in Nat : a = Cardinality(A) /\ b = Cardinality(T)
  <2> HIDE DEF A
  <2> QED BY <1>3, <1>4, FS_CardinalityType
<1>6. a >= b
  BY <1>4, <1>5
<1> QED BY <1>1, <1>2, <1>5, <1>6 DEF DealtShare

LEMMA QuotaKept ==
  ASSUME Dealt, Quota, [Next]_vars
  PROVE  Quota'
<1>1. Len(SignTypes) \in Nat /\ turn \in 1 .. Len(SignTypes) + 1 /\ signs \in Datasets
  BY DatasetAssumption DEF Dealt
<1>2. CASE DealType
  <2>1. signs' = signs /\ turn' = turn + 1 /\ turn <= Len(SignTypes) /\ pc = "deal" /\ pc' = pc
    BY <1>2 DEF DealType
  <2>2. PICK t : t = SignTypes[turn]
    OBVIOUS
  <2>3. PICK T \in kSubset(Round70(Cardinality(RowsOfType(t))), RowsOfType(t)) :
          trainRows' = trainRows \cup T
    BY <1>2, <2>2 DEF DealType
  <2>4. DealtShare(t)'
    BY <1>1, <2>1, <2>3, ShareDealt
  <2>5. ASSUME NEW k \in 1 .. turn' - 1
        PROVE  DealtShare(SignTypes[k])'
    <3>1. CASE k = turn
      BY <2>2, <2>4, <3>1
    <3>2. CASE k # turn
      <4>1. k \in 1 .. turn - 1
        BY <1>1, <2>1, <3>2
      <4>2. PICK u : u = SignTypes[k]
        OBVIOUS
      <4>3. DealtShare(u)
        BY <4>1, <4>2 DEF Quota
      <4>4. DealtShare(u)'
        BY <1>1, <2>1, <2>3, <4>3, DealtShareKept
      <4> QED BY <4>2, <4>4
    <3> QED BY <3>1, <3>2
  <2> QED BY <2>1, <2>5 DEF Quota
<1>3. CASE \/ CheckShares \/ CollectImages \/ IndexMultiSigns
           \/ BalanceTwo \/ BalanceThree \/ WriteFiles \/ UNCHANGED vars
  <2>1. /\ signs' = signs /\ turn' = turn /\ trainRows' = trainRows
    BY <1>3 DEF CheckShares, CollectImages, IndexMultiSigns, BalanceTwo, BalanceThree, WriteFiles, vars
  <2>2. pc' \in {"index", "balance2"} => turn = Len(SignTypes) + 1
    <3>1. CASE CollectImages
      BY <1>1, <3>1 DEF CollectImages
    <3>2. CASE CheckShares \/ IndexMultiSigns \/ BalanceTwo \/ BalanceThree \/ WriteFiles \/ UNCHANGED vars
      BY <3>2 DEF Quota, CheckShares, IndexMultiSigns, BalanceTwo, BalanceThree, Balance, WriteFiles, vars
    <3> QED BY <1>3, <3>1, <3>2
  <2>3. ASSUME NEW k \in 1 .. turn' - 1
        PROVE  DealtShare(SignTypes[k])'
    <3>1. PICK u : u = SignTypes[k]
      OBVIOUS
    <3>2. DealtShare(u)
      BY <2>1, <3>1 DEF Quota
    <3>3. DealtShare(u)'
      BY <1>1, <2>1, <3>2, DealtShareKept
    <3> QED BY <3>1, <3>3
  <2> QED BY <2>1, <2>2, <2>3 DEF Quota
<1> QED BY <1>2, <1>3 DEF Next

\* For every contents of the features file and whatever permutations are drawn:
\* the function gives up exactly when a count ends in five whose seven tenths
\* are a half in doubles, and otherwise train has the rounded 70% of the signs of
\* every type before images are moved (lines 26-53).
THEOREM TrainQuotaCorrect == Spec => []TrainQuota
<1>1. Len(SignTypes) \in Nat
  BY DatasetAssumption
<1>2. Init => Aborts /\ Quota
  BY DEF Init, Aborts, Quota
<1>3. Spec => [](Aborts /\ Quota)
  BY <1>2, AbortsKept, QuotaKept, DealtInvariant, PTL DEF Spec
<1>4. ASSUME Dealt, SetsOK, Kept, Aborts, Quota PROVE TrainQuota
  <2> SUFFICES ASSUME pc \in {"index", "balance2"}, NEW t \in ToSet(SignTypes)
               PROVE  Cardinality({r \in RowsOfType(t) : r[1] \in ToSet(train)}) >= Round70(CountOf(t))
    BY <1>4 DEF TrainQuota, Aborts
  <2>1. signs \in Datasets /\ turn = Len(SignTypes) + 1 /\ ToSet(train) = ImagesOf(trainRows)
    BY <1>4 DEF Dealt, Quota, Kept
  <2>2. PICK k \in 1 .. Len(SignTypes) : t = SignTypes[k]
    BY DatasetAssumption DEF ToSet
  <2>3. DealtShare(t)
    <3>1. k \in 1 .. turn - 1
      BY <1>1, <2>1
    <3> QED BY <1>4, <2>2, <3>1 DEF Quota
  <2> DEFINE A == RowsOfType(t) \cap trainRows
             B == {r \in RowsOfType(t) : r[1] \in ToSet(train)}
  <2>4. A \in SUBSET B /\ B \in SUBSET RowsOfType(t)
    BY <2>1 DEF ImagesOf
  <2>5. IsFiniteSet(RowsOfType(t))
    BY <2>1, TypeCount
  <2>6. IsFiniteSet(B) /\ IsFiniteSet(A) /\ Cardinality(A) <= Cardinality(B)
    <3> HIDE DEF A, B
    <3> QED BY <2>4, <2>5, FS_Subset
  <2>7. PICK a \in Nat, b \in Nat : a = Cardinality(A) /\ b = Cardinality(B)
    <3> HIDE DEF A, B
    <3> QED BY <2>6, FS_CardinalityType
  <2>8. PICK q \in Nat : q = Round70(CountOf(t))
    BY <2>1, TypeCount, ShareExcess
  <2>9. a <= b /\ a >= q
    BY <2>3, <2>6, <2>7, <2>8 DEF DealtShare
  <2>10. b >= q
    BY <2>9
  <2> QED BY <2>7, <2>8, <2>10
<1>5. Dealt /\ SetsOK /\ Kept /\ Aborts /\ Quota => TrainQuota
  BY <1>4
<1> QED BY <1>3, <1>5, DealtInvariant, SetsInvariant, PTL
-----------------------------------------------------------------------------
(* The files.                                                              *)

LEMMA RowsListed ==
  ASSUME signs \in Datasets
  PROVE  /\ Lists(AllRows, Rows)
         /\ \A i, j \in 1 .. Len(AllRows) : i < j => RowOrder(AllRows[i], AllRows[j])
<1> DEFINE before == [r \in Rows |-> {q \in Rows : RowOrder(q, r)}]
           s == AllRows
<1>1. IsFiniteSet(Rows) /\ \A r \in Rows : r[1] \in Nat /\ r[2] \in Nat /\ r = <<r[1], r[2]>>
  BY RowsFinite
<1>2. Ordered(Rows, before)
  <2>1. ASSUME NEW p \in Rows, NEW q \in Rows, NEW r \in Rows, RowOrder(p, q), RowOrder(q, r)
        PROVE  RowOrder(p, r)
    <3>1. PICK p1 \in Nat, p2 \in Nat : p1 = p[1] /\ p2 = p[2]
      BY <1>1
    <3>2. PICK q1 \in Nat, q2 \in Nat : q1 = q[1] /\ q2 = q[2]
      BY <1>1
    <3>3. PICK r1 \in Nat, r2 \in Nat : r1 = r[1] /\ r2 = r[2]
      BY <1>1
    <3> QED BY <2>1, <3>1, <3>2, <3>3 DEF RowOrder
  <2>2. ASSUME NEW p \in Rows, NEW r \in Rows
        PROVE  ~ RowOrder(p, p) /\ (p # r => RowOrder(p, r) \/ RowOrder(r, p))
    <3>1. PICK p1 \in Nat, p2 \in Nat : p1 = p[1] /\ p2 = p[2] /\ p = <<p1, p2>>
      BY <1>1
    <3>2. PICK r1 \in Nat, r2 \in Nat : r1 = r[1] /\ r2 = r[2] /\ r = <<r1, r2>>
      BY <1>1
    <3> QED BY <3>1, <3>2 DEF RowOrder
  <2> QED BY <2>1, <2>2 DEF Ordered
<1>3. s = [k \in 1 .. Cardinality(Rows) |-> s[k]]
  BY DEF AllRows
<1>4. ASSUME NEW k \in 1 .. Cardinality(Rows)
      PROVE  s[k] \in Rows /\ Cardinality(before[s[k]]) = k - 1
  <2>1. \E r \in Rows : Cardinality(before[r]) = k - 1
    <3> HIDE DEF before
    <3> QED BY <1>1, <1>2, RankTaken
  <2>2. \E r \in Rows : Cardinality({q \in Rows : RowOrder(q, r)}) = k - 1
    BY <2>1
  <2>3. s[k] = CHOOSE r \in Rows : Cardinality({q \in Rows : RowOrder(q, r)}) = k - 1
    BY DEF AllRows
  <2>4. s[k] \in Rows /\ Cardinality({q \in Rows : RowOrder(q, s[k])}) = k - 1
    BY <2>2, <2>3
  <2> QED BY <2>4
<1> HIDE DEF before, s
<1>5. Lists(s, Rows) /\ \A i, j \in 1 .. Len(s) : i < j => s[i] \in before[s[j]]
  BY <1>1, <1>2, <1>3, <1>4, RankedLists
<1>6. \A i \in 1 .. Len(s) : s[i] \in Rows
  BY <1>5 DEF Lists
<1> QED BY <1>5, <1>6 DEF before, s

RowsIn(S) == {r \in Rows : r[1] \in S}

LEMMA WrittenRows ==
  ASSUME signs \in Datasets, NEW S
  PROVE  /\ Lists(RowsWritten(S), RowsIn(S))
         /\ \A i, j \in 1 .. Len(RowsWritten(S)) :
              i < j => RowOrder(RowsWritten(S)[i], RowsWritten(S)[j])
<1> DEFINE K == {k \in DOMAIN AllRows : AllRows[k][1] \in S}
           a == Ascending(K)
<1>1. Lists(AllRows, Rows) /\ \A i, j \in 1 .. Len(AllRows) : i < j => RowOrder(AllRows[i], AllRows[j])
  BY RowsListed
<1>2. Len(AllRows) \in Nat /\ DOMAIN AllRows = 1 .. Len(AllRows)
  BY <1>1 DEF Lists
<1>3. K \in SUBSET (1 .. Len(AllRows)) /\ K \in SUBSET Nat
  BY <1>2
<1>4. IsFiniteSet(K)
  <2>1. IsFiniteSet(1 .. Len(AllRows))
    BY <1>2, FS_Interval
  <2> QED BY <1>3, <2>1, FS_Subset
<1>5. RowsWritten(S) = At(AllRows, a)
  BY DEF RowsWritten
<1>6. {AllRows[k] : k \in K} = RowsIn(S)
  BY <1>1, <1>2 DEF RowsIn, Lists
<1> HIDE DEF K
<1>7. Lists(a, K) /\ \A i, j \in 1 .. Len(a) : i < j => a[i] < a[j]
  BY <1>3, <1>4, AscendingLists
<1> HIDE DEF a
<1>8. Lists(At(AllRows, a), {AllRows[k] : k \in K}) /\ Len(At(AllRows, a)) = Len(a)
  BY <1>1, <1>3, <1>7, AtLists
<1>9. ASSUME NEW i \in 1 .. Len(a), NEW j \in 1 .. Len(a), i < j
      PROVE  RowOrder(At(AllRows, a)[i], At(AllRows, a)[j])
  <2>1. DOMAIN a = 1 .. Len(a) /\ a[i] \in K /\ a[j] \in K /\ a[i] < a[j]
    BY <1>7, <1>9 DEF Lists
  <2>2. At(AllRows, a)[i] = AllRows[a[i]] /\ At(AllRows, a)[j] = AllRows[a[j]]
    BY <2>1 DEF At
  <2>3. a[i] \in 1 .. Len(AllRows) /\ a[j] \in 1 .. Len(AllRows)
    BY <1>3, <2>1
  <2> QED BY <1>1, <2>1, <2>2, <2>3
<1> QED BY <1>5, <1>6, <1>8, <1>9

Written ==
  pc = "done" => /\ trainFile = RowsWritten(ToSet(train))
                 /\ valFile = RowsWritten(ToSet(val) \ ToSet(train))

\* Once the files are written, for every contents of the features file, the rows
\* of an image are all in the same file and every row is in one of them, in the
\* order of the features file (lines 110-127).
THEOREM FilesFollowImagesCorrect == Spec => []FilesFollowImages
<1>1. Init => Written
  BY DEF Init, Written
<1>2. Written /\ [Next]_vars => Written'
  <2> SUFFICES ASSUME Written, [Next]_vars PROVE Written'
    OBVIOUS
  <2>1. CASE WriteFiles
    BY <2>1 DEF WriteFiles, Written, RowsWritten, AllRows, Rows, Images
  <2>2. CASE CheckShares \/ DealType \/ CollectImages \/ IndexMultiSigns \/ BalanceTwo \/ BalanceThree
    BY <2>2 DEF CheckShares, DealType, CollectImages, IndexMultiSigns, BalanceTwo, BalanceThree,
         Balance, Written
  <2>3. CASE UNCHANGED vars
    BY <2>3 DEF vars, Written, RowsWritten, AllRows, Rows, Images
  <2> QED BY <2>1, <2>2, <2>3 DEF Next
<1>3. Spec => []Written
  BY <1>1, <1>2, PTL DEF Spec
<1>4. ASSUME Dealt, SetsOK, Written PROVE FilesFollowImages
  <2> SUFFICES ASSUME pc = "done"
               PROVE  /\ Len(trainFile) + Len(valFile) = Cardinality(Rows)
                      /\ ImagesOf(ToSet(trainFile)) \cap ImagesOf(ToSet(valFile)) = {}
                      /\ \A f \in {trainFile, valFile} :
                           \A i, j \in DOMAIN f : i < j => RowOrder(f[i], f[j])
    BY DEF FilesFollowImages
  <2> DEFINE T == ToSet(train)
             V == ToSet(val) \ ToSet(train)
  <2>1. signs \in Datasets /\ Split(train, val)
    BY <1>4 DEF Dealt, SetsOK, Collected
  <2>2. T \cup V = Images /\ T \cap V = {}
    BY <2>1 DEF Split
  <2>3. trainFile = RowsWritten(T) /\ valFile = RowsWritten(V)
    BY <1>4 DEF Written
  <2> HIDE DEF T, V
  <2>4. /\ Lists(trainFile, RowsIn(T)) /\ Lists(valFile, RowsIn(V))
        /\ \A i, j \in 1 .. Len(trainFile) : i < j => RowOrder(trainFile[i], trainFile[j])
        /\ \A i, j \in 1 .. Len(valFile) : i < j => RowOrder(valFile[i], valFile[j])
    BY <2>1, <2>3, WrittenRows
  <2>5. RowsIn(T) \cup RowsIn(V) = Rows /\ RowsIn(T) \cap RowsIn(V) = {}
    BY <2>1, <2>2, RowsFinite DEF RowsIn
  <2>6. /\ IsFiniteSet(RowsIn(T)) /\ Cardinality(RowsIn(T)) = Len(trainFile) /\ Len(trainFile) \in Nat
        /\ IsFiniteSet(RowsIn(V)) /\ Cardinality(RowsIn(V)) = Len(valFile) /\ Len(valFile) \in Nat
    BY <2>4, ListedLength
  <2>7. Len(trainFile) + Len(valFile) = Cardinality(Rows)
    <3>1. Cardinality(RowsIn(T) \cap RowsIn(V)) = 0
      BY <2>5, FS_EmptySet
    <3>2. PICK n \in Nat, m \in Nat : n = Len(trainFile) /\ m = Len(valFile)
      BY <2>6
    <3>3. Cardinality(RowsIn(T) \cup RowsIn(V)) = n + m - 0
      BY <2>6, <3>1, <3>2, FS_Union
    <3>4. n + m - 0 = n + m
      OBVIOUS
    <3> QED BY <2>5, <3>2, <3>3, <3>4
  <2>8. ImagesOf(ToSet(trainFile)) \cap ImagesOf(ToSet(valFile)) = {}
    <3>1. ToSet(trainFile) = RowsIn(T) /\ ToSet(valFile) = RowsIn(V)
      BY <2>4, ListedSet
    <3> QED BY <2>2, <3>1 DEF ImagesOf, RowsIn
  <2>9. DOMAIN trainFile = 1 .. Len(trainFile) /\ DOMAIN valFile = 1 .. Len(valFile)
    BY <2>4 DEF Lists
  <2> QED BY <2>4, <2>7, <2>8, <2>9
<1>5. Dealt /\ SetsOK /\ Written => FilesFollowImages
  BY <1>4
<1> QED BY <1>3, <1>5, DealtInvariant, SetsInvariant, PTL
=============================================================================
