---------------------------- MODULE DatasetSplit ----------------------------
(***************************************************************************)
(* split_train_val_dataset.m: the annotated images are divided into a      *)
(* train set and a validation set.  The signs of every type are dealt out  *)
(* at random, 70% / 30%; an image with a sign in train is a train image,   *)
(* the remaining images are validation images; then images with two signs, *)
(* and after them images with three or more, are moved across until 70% of *)
(* each kind is in train; last, the feature rows are written to one file   *)
(* per set.                                                                *)
(*                                                                         *)
(* An image id is a natural number: the code keeps the ids sorted          *)
(* (unique), and the order is all it uses of them.  A row of the features  *)
(* file is <<image, k>>, the k-th sign of the image.                       *)
(***************************************************************************)
EXTENDS Positions, SequencesExt

CONSTANTS SignTypes,   \* sign_types, in the order of the loop over them
          Datasets,    \* the contents the features file may have
          Draws(_)     \* what a random permutation of some rows may put first

\* A dataset gives every image the sequence of the types of its signs.
ASSUME DatasetAssumption ==
  /\ SignTypes \in Seq(STRING)
  /\ \A d \in Datasets :
       /\ IsFiniteSet(DOMAIN d) /\ DOMAIN d \subseteq Nat
       /\ \A im \in DOMAIN d : d[im] \in Seq(ToSet(SignTypes)) /\ d[im] # <<>>

VARIABLES
  signs,         \* the features file: image |-> types of its signs
  pc,            \* the statement the function is about to execute
  turn,          \* i, the loop over the sign types
  trainRows,     \* train_indexs, the rows dealt to train
  valRows,       \* val_indexs, the rows dealt to validation
  train, val,    \* train_dataset and val_dataset, sequences of images
  idx,           \* {train,val}_{2,3}signals_idx, positions in train and val
  trainFile, valFile   \* the rows written to train_dataset.txt, val_dataset.txt

vars == <<signs, pc, turn, trainRows, valRows, train, val, idx, trainFile, valFile>>
-----------------------------------------------------------------------------
Images == DOMAIN signs
Rows == UNION {{im} \X DOMAIN signs[im] : im \in Images}
RowsOfType(t) == {r \in Rows : signs[r[1]][r[2]] = t}
ImagesOf(R) == {r[1] : r \in R}

\* round(n * 0.7) and round(n * 0.3), in doubles and with halves rounded away
\* from zero.  The double 0.7 is too small by 0.4 / 2^53.  When n ends in five
\* the product is a half, less that error n times: it is the half again if the
\* doubles lie far enough apart there, which depends on the power of two below
\* the product.  So round(5 * 0.7) is 4, but round(45 * 0.7) is 31.  The error of
\* 0.3 is a quarter of that and never keeps a product from its half.
PowerOfTwo(p) == \A d \in 2 .. p : p % d = 0 => d % 2 = 0
HalfExact(n) == \E p \in 1 .. n : 4 * n <= 10 * p /\ 10 * p <= 7 * n /\ PowerOfTwo(p)
Round70(n) == (7 * n + (IF HalfExact(n) THEN 5 ELSE 4)) \div 10
Round30(n) == (3 * n + 5) \div 10

\* obtain_images_multiple_signals: an image has one row with a sign number of
\* two or more per extra sign; the images with two such rows or more are the
\* "3 signals" ones, the others the "2 signals" ones.
TwoSigns == {im \in Images : Len(signs[im]) = 2}
ThreeSigns == {im \in Images : Len(signs[im]) >= 3}

\* s after s(is) = [].
Without(s, is) == At(s, Ascending(DOMAIN s \ ToSet(is)))
InBounds(s, is) == ToSet(is) \subseteq DOMAIN s
-----------------------------------------------------------------------------
NoIdx == [train2 |-> <<>>, train3 |-> <<>>, val2 |-> <<>>, val3 |-> <<>>]

Init ==
  /\ signs \in Datasets
  /\ pc = "check" /\ turn = 1
  /\ trainRows = {} /\ valRows = {}
  /\ train = <<>> /\ val = <<>> /\ idx = NoIdx
  /\ trainFile = <<>> /\ valFile = <<>>

SumOver(f) == MapThenSumSet(LAMBDA i : f[i], DOMAIN SignTypes)
CountOf(t) == Cardinality(RowsOfType(t))
ShareOf(t) == Round70(CountOf(t)) + Round30(CountOf(t))

\* The two shares must add up to the number of signs, or the function returns.
CheckShares ==
  /\ pc = "check"
  /\ pc' = IF SumOver([i \in DOMAIN SignTypes |-> ShareOf(SignTypes[i])])
              = SumOver([i \in DOMAIN SignTypes |-> CountOf(SignTypes[i])]) THEN "deal" ELSE "aborted"
  /\ UNCHANGED <<signs, turn, trainRows, valRows, train, val, idx, trainFile, valFile>>

\* Mutant: the shares of the two sets are swapped.
DealTypeSwapped ==
  /\ pc = "deal" /\ turn <= Len(SignTypes)
  /\ LET R == RowsOfType(SignTypes[turn]) IN
     \E T \in Draws(R) :
       /\ T \in kSubset(Round30(Cardinality(R)), R)
       /\ trainRows' = trainRows \cup T
       /\ valRows' = valRows \cup (R \ T)
  /\ turn' = turn + 1
  /\ UNCHANGED <<signs, pc, train, val, idx, trainFile, valFile>>

\* The rows of one type are permuted at random; the first 70% are train's.
DealType ==
  /\ pc = "deal" /\ turn <= Len(SignTypes)
  /\ LET R == RowsOfType(SignTypes[turn]) IN
     \E T \in Draws(R) :
       /\ T \in kSubset(Round70(Cardinality(R)), R)
       /\ trainRows' = trainRows \cup T
       /\ valRows' = valRows \cup (R \ T)
  /\ turn' = turn + 1
  /\ UNCHANGED <<signs, pc, train, val, idx, trainFile, valFile>>

\* Mutant: an image of train is taken into val as well.
CollectImagesTwice ==
  /\ pc = "deal" /\ turn > Len(SignTypes)
  /\ train' = Ascending(ImagesOf(trainRows))
  /\ val' = Ascending(ImagesOf(valRows))
  /\ pc' = "index"
  /\ UNCHANGED <<signs, turn, trainRows, valRows, idx, trainFile, valFile>>

\* The images of the rows dealt; an image in train is not taken into val.
CollectImages ==
  /\ pc = "deal" /\ turn > Len(SignTypes)
  /\ train' = Ascending(ImagesOf(trainRows))
  /\ val' = Ascending(ImagesOf(valRows) \ ImagesOf(trainRows))
  /\ pc' = "index"
  /\ UNCHANGED <<signs, turn, trainRows, valRows, idx, trainFile, valFile>>

\* The positions of the images with two and with three signs or more, in both
\* sets; their lengths are the counts two_signals_train, ...
IndexMultiSigns ==
  /\ pc = "index"
  /\ idx' = [train2 |-> PositionsIn(train, TwoSigns), train3 |-> PositionsIn(train, ThreeSigns),
             val2 |-> PositionsIn(val, TwoSigns), val3 |-> PositionsIn(val, ThreeSigns)]
  /\ pc' = "balance2"
  /\ UNCHANGED <<signs, turn, trainRows, valRows, train, val, trainFile, valFile>>

\* Mutant: one image too few is moved to train.
BalanceShort(tIdx, vIdx, next) ==
  LET target == Round70(Len(tIdx) + Len(vIdx))
      out == SubSeq(tIdx, 1, Len(tIdx) - target)
      in == SubSeq(vIdx, 1, target - Len(tIdx) - 1)
  IN /\ pc' = IF InBounds(train, out) /\ InBounds(val, in) THEN next ELSE "error"
     /\ IF pc' = "error" THEN UNCHANGED <<train, val>>
        ELSE /\ train' = Without(train, out) \o At(val, in)
             /\ val' = Without(val, in) \o At(train, out)

\* Move images across until train holds 70% of those counted by tIdx and vIdx.
\* Indexing beyond the end of a set is an error that ends the function.
Balance(tIdx, vIdx, next) ==
  LET target == Round70(Len(tIdx) + Len(vIdx))
      out == SubSeq(tIdx, 1, Len(tIdx) - target)
      in == SubSeq(vIdx, 1, target - Len(tIdx))
  IN /\ pc' = IF InBounds(train, out) /\ InBounds(val, in) THEN next ELSE "error"
     /\ IF pc' = "error" THEN UNCHANGED <<train, val>>
        ELSE /\ train' = Without(train, out) \o At(val, in)
             /\ val' = Without(val, in) \o At(train, out)

BalanceTwo ==
  /\ pc = "balance2"
  /\ Balance(idx.train2, idx.val2, "balance3")
  /\ UNCHANGED <<signs, turn, trainRows, valRows, idx, trainFile, valFile>>

\* The positions used here are those computed before BalanceTwo moved images.
BalanceThree ==
  /\ pc = "balance3"
  /\ Balance(idx.train3, idx.val3, "write")
  /\ UNCHANGED <<signs, turn, trainRows, valRows, idx, trainFile, valFile>>

RowOrder(r, q) == r[1] < q[1] \/ (r[1] = q[1] /\ r[2] < q[2])
AllRows == [k \in 1 .. Cardinality(Rows) |->
              CHOOSE r \in Rows : Cardinality({q \in Rows : RowOrder(q, r)}) = k - 1]
\* The rows of the images of S, in file order.
RowsWritten(S) == At(AllRows, Ascending({k \in DOMAIN AllRows : AllRows[k][1] \in S}))
\* Mutant: the rows are written to the file of the set they were dealt to.
WriteDealtRows ==
  /\ pc = "write"
  /\ trainFile' = SelectSeq(AllRows, LAMBDA r : r \in trainRows)
  /\ valFile' = SelectSeq(AllRows, LAMBDA r : r \in valRows)
  /\ pc' = "done"
  /\ UNCHANGED <<signs, turn, trainRows, valRows, train, val, idx>>

\* Every feature row, in file order, goes to the file of its image's set.
WriteFiles ==
  /\ pc = "write"
  /\ trainFile' = RowsWritten(ToSet(train))
  /\ valFile' = RowsWritten(ToSet(val) \ ToSet(train))
  /\ pc' = "done"
  /\ UNCHANGED <<signs, turn, trainRows, valRows, train, val, idx>>

Next == \/ CheckShares \/ DealType \/ CollectImages \/ IndexMultiSigns
        \/ BalanceTwo \/ BalanceThree \/ WriteFiles

Spec == Init /\ [][Next]_vars
-----------------------------------------------------------------------------
Collected == pc \in {"index", "balance2", "balance3", "write", "done", "error"}

\* From the moment the images are collected, and through both rebalancing
\* moves, every image is in exactly one of the two sets and exactly once:
\* moving images neither loses, duplicates nor leaks one (lines 42-107).
Partition ==
  Collected =>
    /\ ToSet(train) \cup ToSet(val) = Images
    /\ ToSet(train) \cap ToSet(val) = {}
    /\ Len(train) + Len(val) = Cardinality(Images)

\* The function gives up (lines 26-32) exactly when the number of signs of some
\* type ends in 5 and seven tenths of it are a half in doubles too: both shares
\* are then rounded up, and no other type makes up for it.  Five signs are too
\* many to be shared out, 45 are not.  Otherwise, before images are moved, train
\* holds at least the rounded 70% of the signs of every type: an image dealt to
\* train brings all its signs along (lines 36-53).
BothRoundedUp(n) == n % 10 = 5 /\ HalfExact(n)
TrainQuota ==
  /\ pc # "check" => (pc = "aborted" <=> \E t \in ToSet(SignTypes) : BothRoundedUp(CountOf(t)))
  /\ pc \in {"index", "balance2"} =>
       \A t \in ToSet(SignTypes) :
         Cardinality({r \in RowsOfType(t) : r[1] \in ToSet(train)}) >= Round70(CountOf(t))

\* The first rebalancing, which uses fresh positions, leaves exactly 70% of
\* the two-sign images in train and moves no other image (lines 88-97).
TwoSignsBalanced ==
  pc = "balance3" =>
    /\ Cardinality(TwoSigns \cap ToSet(train)) = Round70(Cardinality(TwoSigns))
    /\ ToSet(train) \ TwoSigns = ImagesOf(trainRows) \ TwoSigns

\* Once the files are written, the rows of an image are all in the same file
\* and every row of the features file is in one of them, in the order of the
\* features file (lines 110-127).
FilesFollowImages ==
  pc = "done" =>
    /\ Len(trainFile) + Len(valFile) = Cardinality(Rows)
    /\ ImagesOf(ToSet(trainFile)) \cap ImagesOf(ToSet(valFile)) = {}
    /\ \A f \in {trainFile, valFile} : \A i, j \in DOMAIN f : i < j => RowOrder(f[i], f[j])

\* What the comment at lines 55-56 asks for ("Check how many images with
\* multiple signals are in train and val datasets and balance them"): at the
\* end 70% of the images with three signs or more are in train.
ThreeSignsBalanced ==
  pc = "done" => Cardinality(ThreeSigns \cap ToSet(train)) = Round70(Cardinality(ThreeSigns))
=============================================================================
