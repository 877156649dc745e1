--------------------------- MODULE CandidateProofs ---------------------------
(***************************************************************************)
(* Proofs about the windows of weeks 3 and 4.  CandidateWindows: for every *)
(* image, whatever the train set says of signs and whatever the step of    *)
(* the sliding windows.  CandidateGeneration4: for every list of annotated *)
(* images, any limits, and any outcome of the comparison with templates.   *)
(* They rest on facts about data: connected components are a partition,    *)
(* the box of a finite set holds it and touches it on all sides, a         *)
(* rectangle is counted by the four look-ups of an integral image, and     *)
(* sums can be taken term by term.                                         *)
(***************************************************************************)
EXTENDS CandidateWindows, CandidateGeneration4, DataProofs

-----------------------------------------------------------------------------
(* Components is a fold over the nodes: a recursive function on the sets   *)
(* of nodes, whose existence is proved by a minimal counterexample.        *)

\* A node joins the sets it has an edge to.
Touched(E, v, M) == {S \in M : \E u \in S : <<u, v>> \in E \/ <<v, u>> \in E}
Join(E, v, M) == (M \ Touched(E, v, M)) \cup {(UNION Touched(E, v, M)) \cup {v}}
JoinNext(E, g, s) == IF s = {} THEN {} ELSE Join(E, OneOf(s), g[s \ {OneOf(s)}])
Joins(E, g, V) == g = [s \in SUBSET V |-> JoinNext(E, g, s)]

\* Two such functions agree where both are defined.
LEMMA JoinsAgree ==
  ASSUME NEW E, NEW V, IsFiniteSet(V), NEW U \in SUBSET V,
         NEW g, Joins(E, g, V), NEW h, Joins(E, h, U)
  PROVE  \A s \in SUBSET U : g[s] = h[s]
<1> DEFINE Bad == {s \in SUBSET U : g[s] # h[s]}
<1>1. SUFFICES ASSUME Bad # {} PROVE FALSE
  OBVIOUS
<1>2. IsFiniteSet(U) /\ Bad \in SUBSET (SUBSET U)
  BY FS_Subset
<1> HIDE DEF Bad
<1>3. PICK s \in Bad : \A t \in Bad : t \subseteq s => t = s
  BY <1>1, <1>2, MinimalSubset
<1>4. s \in SUBSET U /\ g[s] # h[s] /\ g[s] = JoinNext(E, g, s) /\ h[s] = JoinNext(E, h, s)
  BY DEF Joins, Bad
<1>5. s # {}
  BY <1>4 DEF JoinNext
<1>6. OneOf(s) \in s
  BY <1>5, OneIsElement
<1>7. s \ {OneOf(s)} \notin Bad /\ s \ {OneOf(s)} \in SUBSET U
  BY <1>3, <1>4, <1>6
<1>8. g[s \ {OneOf(s)}] = h[s \ {OneOf(s)}]
  BY <1>7 DEF Bad
<1> QED BY <1>4, <1>5, <1>8 DEF JoinNext

LEMMA JoinsExists ==
  ASSUME NEW E, NEW V, IsFiniteSet(V)
  PROVE  \E g : Joins(E, g, V)
<1> DEFINE Bad == {U \in SUBSET V : ~ \E g : Joins(E, g, U)}
<1>1. SUFFICES ASSUME Bad # {} PROVE FALSE
  OBVIOUS
<1>2. PICK U \in Bad : \A W \in Bad : W \subseteq U => W = U
  <2>1. Bad \in SUBSET (SUBSET V)
    OBVIOUS
  <2> HIDE DEF Bad
  <2> QED BY <1>1, <2>1, MinimalSubset
<1> DEFINE Sol(s) == CHOOSE g : Joins(E, g, s)
           h == [s \in SUBSET U |->
                   IF s = U THEN JoinNext(E, [t \in SUBSET U |-> Sol(t)[t]], U) ELSE Sol(s)[s]]
<1>3. ASSUME NEW s \in SUBSET U, s # U
      PROVE  Joins(E, Sol(s), s)
  <2>1. s \in SUBSET V /\ s \notin Bad
    BY <1>2, <1>3
  <2>2. \E g : Joins(E, g, s)
    BY <2>1
  <2> QED BY <2>2
<1> HIDE DEF Sol
<1>4. ASSUME NEW s \in SUBSET U
      PROVE  h[s] = JoinNext(E, h, s)
  <2> DEFINE r == s \ {OneOf(s)}
  <2>1. CASE s = {}
    <3>1. h[s] = IF s = U THEN {} ELSE Sol(s)[s]
      BY <2>1 DEF JoinNext
    <3>2. s # U => Sol(s)[s] = {}
      BY <1>3, <2>1 DEF Joins, JoinNext
    <3> QED BY <2>1, <3>1, <3>2 DEF JoinNext
  <2>2. CASE s # {}
    <3>1. OneOf(s) \in s
      BY <2>2, OneIsElement
    <3>2. r \in SUBSET U /\ r # U /\ r \in SUBSET s
      BY <3>1
    <3>3. h[r] = Sol(r)[r]
      BY <3>2
    <3>4. JoinNext(E, h, s) = Join(E, OneOf(s), Sol(r)[r])
      BY <2>2, <3>3 DEF JoinNext
    <3>5. CASE s = U
      <4>1. h[s] = Join(E, OneOf(s), [t \in SUBSET U |-> Sol(t)[t]][r])
        BY <2>2, <3>5 DEF JoinNext
      <4> QED BY <3>2, <3>4, <4>1
    <3>6. CASE s # U
      <4>1. Joins(E, Sol(s), s) /\ Joins(E, Sol(r), r)
        BY <1>3, <3>2, <3>6
      <4>2. IsFiniteSet(s)
        BY <1>2, FS_Subset
      <4>3. Sol(s)[r] = Sol(r)[r]
        <5>1. PICK q : q = r
          OBVIOUS
        <5>2. q \in SUBSET s /\ Joins(E, Sol(q), q) /\ q \in SUBSET q
          BY <3>2, <4>1, <5>1
        <5>3. Sol(s)[q] = Sol(q)[q]
          BY <4>1, <4>2, <5>2, JoinsAgree
        <5> QED BY <5>1, <5>3
      <4>4. Sol(s)[s] = JoinNext(E, Sol(s), s)
        BY <4>1 DEF Joins
      <4>5. Sol(s)[s] = Join(E, OneOf(s), Sol(s)[r])
        BY <2>2, <4>4 DEF JoinNext
      <4> QED BY <3>4, <3>6, <4>3, <4>5
    <3> QED BY <3>5, <3>6
  <2> QED BY <2>1, <2>2
<1>5. Joins(E, h, U)
  <2>1. h = [s \in SUBSET U |-> h[s]]
    OBVIOUS
  <2> HIDE DEF h
  <2> QED BY <1>4, <2>1 DEF Joins
<1> QED BY <1>2, <1>5

LEMMA ComponentsJoin ==
  ASSUME NEW E, NEW V, IsFiniteSet(V)
  PROVE  \E g : Joins(E, g, V) /\ Components(V, E) = g[V]
<1>1. Components(V, E) = (CHOOSE g : Joins(E, g, V))[V]
  BY DEF Components, FoldSet, MapThenFoldSet, Joins, JoinNext, Join, Touched, OneOf
<1> QED BY <1>1, JoinsExists

\* M divides s into sets that are not empty and have nothing in common.
Divides(M, s) ==
  /\ UNION M = s /\ {} \notin M
  /\ \A A, B \in M : A = B \/ A \cap B = {}

LEMMA JoinDivides ==
  ASSUME NEW E, NEW v, NEW s, v \notin s, NEW M, Divides(M, s)
  PROVE  Divides(Join(E, v, M), s \cup {v})
<1> DEFINE T == Touched(E, v, M)
           N == (UNION T) \cup {v}
<1>1. T \subseteq M
  BY DEF Touched
<1> HIDE DEF T
<1>2. Join(E, v, M) = (M \ T) \cup {N}
  BY DEF Join, T
<1>3. UNION M = s /\ {} \notin M /\ \A A, B \in M : A = B \/ A \cap B = {}
  BY DEF Divides
<1>4. \A x : x \in N <=> x = v \/ \E A \in T : x \in A
  <2>1. \A x : x \in UNION T <=> \E A \in T : x \in A
    OBVIOUS
  <2>2. PICK W : W = UNION T
    OBVIOUS
  <2>3. N = W \cup {v}
    BY <2>2
  <2> HIDE DEF N
  <2> QED BY <2>1, <2>2, <2>3
<1>5. \A x : x \in s <=> \E A \in M : x \in A
  BY <1>3
<1> HIDE DEF N
<1>6. \A A \in M \ T : A \cap N = {}
  BY <1>1, <1>3, <1>4, <1>5
<1>7. \A x : x \in s \cup {v} <=> \E A \in (M \ T) \cup {N} : x \in A
  <2>1. ASSUME NEW x \in s PROVE \E A \in (M \ T) \cup {N} : x \in A
    BY <1>4, <1>5
  <2>2. ASSUME NEW A \in (M \ T) \cup {N}, NEW x \in A PROVE x \in s \cup {v}
    BY <1>1, <1>4, <1>5
  <2> QED BY <1>4, <2>1, <2>2
<1>8. UNION ((M \ T) \cup {N}) = s \cup {v}
  BY <1>7
<1>9. {} \notin (M \ T) \cup {N}
  BY <1>3, <1>4
<1>10. \A A, B \in (M \ T) \cup {N} : A = B \/ A \cap B = {}
  BY <1>3, <1>6
<1> QED BY <1>2, <1>8, <1>9, <1>10 DEF Divides

\* The components of a graph divide its nodes.
LEMMA ComponentsDivide ==
  ASSUME NEW E, NEW V, IsFiniteSet(V)
  PROVE  Divides(Components(V, E), V)
<1>1. PICK g : Joins(E, g, V) /\ Components(V, E) = g[V]
  BY ComponentsJoin
<1> DEFINE Bad == {s \in SUBSET V : ~ Divides(g[s], s)}
<1>2. Bad \in SUBSET (SUBSET V)
  OBVIOUS
<1>3. \A s \in SUBSET V : s \notin Bad => Divides(g[s], s)
  OBVIOUS
<1>4. \A s \in Bad : s \in SUBSET V /\ ~ Divides(g[s], s)
  OBVIOUS
<1> HIDE DEF Bad
<1>5. ASSUME Bad # {} PROVE FALSE
  <2>1. PICK s \in Bad : \A t \in Bad : t \subseteq s => t = s
    BY <1>2, <1>5, MinimalSubset
  <2>2. s \in SUBSET V /\ ~ Divides(g[s], s)
    BY <1>4
  <2>3. g[s] = JoinNext(E, g, s)
    BY <1>1, <2>2 DEF Joins
  <2>4. CASE s = {}
    <3>1. g[s] = {}
      BY <2>3, <2>4 DEF JoinNext
    <3> QED BY <2>2, <2>4, <3>1 DEF Divides
  <2>5. CASE s # {}
    <3> DEFINE v == OneOf(s)
               r == s \ {v}
    <3>1. v \in s
      BY <2>5, OneIsElement
    <3> HIDE DEF v
    <3>2. r \in SUBSET V /\ r \notin Bad /\ v \notin r /\ r \cup {v} = s
      BY <2>1, <2>2, <3>1
    <3>3. g[s] = Join(E, v, g[r])
      BY <2>3, <2>5 DEF JoinNext, v
    <3> HIDE DEF r
    <3>4. Divides(g[r], r)
      BY <1>3, <3>2
    <3>5. Divides(Join(E, v, g[r]), s)
      BY <3>2, <3>4, JoinDivides
    <3> QED BY <2>2, <3>3, <3>5
  <2> QED BY <2>4, <2>5
<1> QED BY <1>1, <1>3, <1>5

-----------------------------------------------------------------------------
(* Boxes.                                                                  *)

LEMMA LeastOf ==
  ASSUME NEW S \in SUBSET Nat, S # {}
  PROVE  Min(S) \in S /\ \A y \in S : Min(S) <= y
<1>1. \E x \in S : \A y \in S : x <= y
  BY LeastElement
<1> QED BY <1>1 DEF Min

LEMMA GreatestOf ==
  ASSUME NEW n \in Nat, NEW S \in SUBSET (1 .. n), S # {}
  PROVE  Max(S) \in S /\ \A y \in S : y <= Max(S)
<1> DEFINE T == {n - y : y \in S}
<1>1. \A y \in S : y \in Int /\ n - y \in Nat
  <2> TAKE y \in S
  <2>1. y \in 1 .. n
    OBVIOUS
  <2> QED BY <2>1
<1>2. T \in SUBSET Nat /\ T # {}
  BY <1>1
<1>3. PICK d \in T : \A e \in T : d <= e
  BY <1>2, LeastElement
<1>4. PICK x \in S : d = n - x
  OBVIOUS
<1>5. \A y \in S : x >= y
  <2> TAKE y \in S
  <2>1. n - x <= n - y
    BY <1>3, <1>4
  <2>2. x \in Int /\ y \in Int
    BY <1>1
  <2> QED BY <2>1, <2>2
<1>6. Max(S) \in S /\ \A y \in S : Max(S) >= y
  BY <1>4, <1>5 DEF Max
<1>7. \A y \in S : y <= Max(S)
  <2>1. Max(S) \in Int
    BY <1>1, <1>6
  <2> QED BY <1>1, <1>6, <2>1
<1> QED BY <1>6, <1>7

\* The box of some pixels of a canvas is inside it, holds them, and begins and
\* ends with one of them along both axes.
LEMMA BoundsHold ==
  ASSUME NEW w \in Nat, NEW h \in Nat, NEW P \in SUBSET ((1 .. w) \X (1 .. h)), P # {}
  PROVE  LET b == Bounds(P)
         IN /\ b.x \in Nat /\ b.y \in Nat /\ b.w \in Nat \ {0} /\ b.h \in Nat \ {0}
            /\ P \subseteq Cells(b) /\ Cells(b) \subseteq (1 .. w) \X (1 .. h)
            /\ \E p, q \in P : p[1] = b.x /\ q[1] = b.x + b.w - 1
            /\ \E p, q \in P : p[2] = b.y /\ q[2] = b.y + b.h - 1
<1> DEFINE X == {p[1] : p \in P}
           Y == {p[2] : p \in P}
<1>1. X \in SUBSET (1 .. w) /\ X # {} /\ Y \in SUBSET (1 .. h) /\ Y # {}
  OBVIOUS
<1>2. X \in SUBSET Nat /\ Y \in SUBSET Nat
  OBVIOUS
<1>3. \A p \in P : p = <<p[1], p[2]>> /\ p[1] \in X /\ p[2] \in Y
  OBVIOUS
<1>4. \A x \in X : \E p \in P : p[1] = x
  OBVIOUS
<1>5. \A y \in Y : \E p \in P : p[2] = y
  OBVIOUS
<1>6. Bounds(P) = [x |-> Min(X), y |-> Min(Y), w |-> Max(X) - Min(X) + 1, h |-> Max(Y) - Min(Y) + 1]
  BY DEF Bounds
<1> HIDE DEF X, Y
<1>7. PICK x0 \in X, x1 \in X : x0 = Min(X) /\ x1 = Max(X) /\ \A x \in X : x0 <= x /\ x <= x1
  BY <1>1, <1>2, LeastOf, GreatestOf
<1>8. PICK y0 \in Y, y1 \in Y : y0 = Min(Y) /\ y1 = Max(Y) /\ \A y \in Y : y0 <= y /\ y <= y1
  BY <1>1, <1>2, LeastOf, GreatestOf
<1>9. PICK b : b = Bounds(P)
  OBVIOUS
<1>10. b = [x |-> x0, y |-> y0, w |-> x1 - x0 + 1, h |-> y1 - y0 + 1]
  BY <1>6, <1>7, <1>8, <1>9
<1>11. x0 \in 1 .. w /\ x1 \in 1 .. w /\ x0 <= x1 /\ y0 \in 1 .. h /\ y1 \in 1 .. h /\ y0 <= y1
  BY <1>1, <1>7, <1>8
<1>12. x0 + (x1 - x0 + 1) - 1 = x1 /\ y0 + (y1 - y0 + 1) - 1 = y1
       /\ x1 - x0 + 1 \in Nat \ {0} /\ y1 - y0 + 1 \in Nat \ {0}
  BY <1>11
<1>13. Cells(b) = (x0 .. x1) \X (y0 .. y1)
  BY <1>10, <1>12 DEF Cells
<1>14. P \subseteq (x0 .. x1) \X (y0 .. y1)
  <2> SUFFICES ASSUME NEW p \in P PROVE p \in (x0 .. x1) \X (y0 .. y1)
    OBVIOUS
  <2>1. PICK u \in X, v \in Y : p = <<u, v>>
    BY <1>3
  <2>2. u \in Nat /\ v \in Nat /\ x0 <= u /\ u <= x1 /\ y0 <= v /\ v <= y1
    BY <1>2, <1>7, <1>8
  <2>3. u \in x0 .. x1 /\ v \in y0 .. y1
    BY <1>11, <2>2
  <2> QED BY <2>1, <2>3
<1>15. (x0 .. x1) \X (y0 .. y1) \subseteq (1 .. w) \X (1 .. h)
  <2>1. x0 .. x1 \subseteq 1 .. w /\ y0 .. y1 \subseteq 1 .. h
    BY <1>11
  <2> QED BY <2>1
<1>16. b.x = x0 /\ b.y = y0 /\ b.w = x1 - x0 + 1 /\ b.h = y1 - y0 + 1
  BY <1>10
<1>17. b.x + b.w - 1 = x1 /\ b.y + b.h - 1 = y1
  BY <1>12, <1>16
<1>18. \E p, q \in P : p[1] = x0 /\ q[1] = x1
  BY <1>4, <1>7
<1>19. \E p, q \in P : p[2] = y0 /\ q[2] = y1
  BY <1>5, <1>8
<1>20. b.x \in Nat /\ b.y \in Nat /\ b.w \in Nat \ {0} /\ b.h \in Nat \ {0}
  BY <1>11, <1>12, <1>16
<1>21. P \subseteq Cells(b) /\ Cells(b) \subseteq (1 .. w) \X (1 .. h)
  BY <1>13, <1>14, <1>15
<1> QED BY <1>9, <1>16, <1>17, <1>18, <1>19, <1>20, <1>21

-----------------------------------------------------------------------------
(* The boxes of an image.                                                  *)

\* Both window sizes are positive.
LEMMA SizesPositive ==
  ASSUME NEW range \in {Train.w, Train.h}, NEW n \in {1, 2}
  PROVE  Sizes(range)[n] \in Nat \ {0}
<1>1. /\ range \in (Nat \ {0}) \X Nat /\ range[2] > Margin /\ Margin \in Nat
  BY InputAssumption
<1>2. PICK a \in Nat \ {0}, b \in Nat : range[1] = a /\ range[2] = b /\ b > Margin
  BY <1>1
<1>3. b - Margin \in Nat \ {0}
  BY <1>1, <1>2
<1> QED BY <1>2, <1>3 DEF Sizes

\* A window that slides stays in the image, even one pixel wider.
LEMMA StartsInside ==
  ASSUME NEW length \in Nat, NEW size \in Nat, NEW p \in Starts(length, size)
  PROVE  p \in Nat \ {0} /\ p .. p + size \subseteq 1 .. length
<1>1. p \in 1 .. length - size
  BY DEF Starts
<1>2. p \in Nat \ {0} /\ p + size <= length
  BY <1>1
<1> QED BY <1>2

\* A candidate as the code lists it.
LEMMA CandidateInside ==
  ASSUME NEW img \in Images, NEW m, NEW c \in Positions(img, 1) \cup Positions(img, 2)
  PROVE  /\ c.n \in {1, 2} /\ c.i \in Nat \ {0} /\ c.j \in Nat \ {0}
         /\ Sizes(Train.h)[c.n] \in Nat \ {0} /\ Sizes(Train.w)[c.n] \in Nat \ {0}
         /\ (c.j .. c.j + Sizes(Train.w)[c.n]) \X (c.i .. c.i + Sizes(Train.h)[c.n]) \subseteq Canvas(img)
<1>1. c.n \in {1, 2} /\ c.i \in Starts(img.h, Sizes(Train.h)[c.n])
      /\ c.j \in Starts(img.w, Sizes(Train.w)[c.n])
  BY DEF Positions
<1>2. PICK sh \in Nat \ {0}, sw \in Nat \ {0} : sh = Sizes(Train.h)[c.n] /\ sw = Sizes(Train.w)[c.n]
  BY <1>1, SizesPositive
<1>3. img.w \in Nat /\ img.h \in Nat
  BY InputAssumption
<1>4. c.i \in Nat \ {0} /\ c.i .. c.i + sh \subseteq 1 .. img.h
  BY <1>1, <1>2, <1>3, StartsInside
<1>5. c.j \in Nat \ {0} /\ c.j .. c.j + sw \subseteq 1 .. img.w
  BY <1>1, <1>2, <1>3, StartsInside
<1>6. (c.j .. c.j + sw) \X (c.i .. c.i + sh) \subseteq (1 .. img.w) \X (1 .. img.h)
  BY <1>4, <1>5
<1> QED BY <1>1, <1>2, <1>4, <1>5, <1>6 DEF Canvas

LEMMA CanvasFinite ==
  ASSUME NEW img \in Images
  PROVE  IsFiniteSet(Canvas(img)) /\ IsFiniteSet(img.on) /\ img.on \subseteq Canvas(img)
<1>1. img.w \in Int /\ img.h \in Int /\ img.on \subseteq Canvas(img)
  BY InputAssumption
<1>2. IsFiniteSet(1 .. img.w) /\ IsFiniteSet(1 .. img.h)
  BY <1>1, FS_Interval
<1>3. IsFiniteSet(Canvas(img))
  BY <1>2, FS_Product DEF Canvas
<1> QED BY <1>1, <1>3, FS_Subset

LEMMA PositionsFinite ==
  ASSUME NEW img \in Images, NEW n \in {1, 2}
  PROVE  IsFiniteSet(Positions(img, n))
<1> DEFINE A == Starts(img.h, Sizes(Train.h)[n])
           B == Starts(img.w, Sizes(Train.w)[n])
           f == [t \in A \X B |-> [n |-> n, i |-> t[1], j |-> t[2]]]
<1>1. img.w \in Int /\ img.h \in Int
  BY InputAssumption
<1>2. PICK sh \in Nat, sw \in Nat : sh = Sizes(Train.h)[n] /\ sw = Sizes(Train.w)[n]
  BY SizesPositive
<1>3. IsFiniteSet(A)
  <2>1. PICK e \in Int : e = img.h - sh
    BY <1>1
  <2>2. IsFiniteSet(1 .. e)
    BY FS_Interval
  <2>3. A \subseteq 1 .. e
    BY <1>2, <2>1 DEF Starts
  <2> QED BY <2>2, <2>3, FS_Subset
<1>4. IsFiniteSet(B)
  <2>1. PICK e \in Int : e = img.w - sw
    BY <1>1
  <2>2. IsFiniteSet(1 .. e)
    BY FS_Interval
  <2>3. B \subseteq 1 .. e
    BY <1>2, <2>1 DEF Starts
  <2> QED BY <2>2, <2>3, FS_Subset
<1>5. Positions(img, n) = [n : {n}, i : A, j : B]
  BY DEF Positions
<1> HIDE DEF A, B
<1>6. IsFiniteSet(A \X B)
  BY <1>3, <1>4, FS_Product
<1>7. f \in Surjection(A \X B, [n : {n}, i : A, j : B])
  <2>1. f \in [A \X B -> [n : {n}, i : A, j : B]]
    OBVIOUS
  <2>2. ASSUME NEW c \in [n : {n}, i : A, j : B]
        PROVE  \E t \in A \X B : f[t] = c
    <3>1. <<c.i, c.j>> \in A \X B /\ c = [n |-> n, i |-> c.i, j |-> c.j]
      OBVIOUS
    <3>2. f[<<c.i, c.j>>] = [n |-> n, i |-> c.i, j |-> c.j]
      BY <3>1
    <3> QED BY <3>1, <3>2
  <2> QED BY <2>1, <2>2 DEF Surjection
<1> QED BY <1>5, <1>6, <1>7, FS_Surjection

\* What boxes are found of: pixels, or candidates.
Found == IF method = 1 THEN image.on ELSE Candidates(image, method)
Group(g) == g # {} /\ g \subseteq Found

LEMMA GroupsAreGroups ==
  ASSUME image \in Images
  PROVE  \A g \in Groups : Group(g)
<1>1. CASE method = 1
  <2>1. Found = image.on /\ IsFiniteSet(image.on)
    BY <1>1, CanvasFinite DEF Found
  <2>2. Divides(PixelComponents(image.on), image.on)
    BY <2>1, ComponentsDivide DEF PixelComponents
  <2>3. Groups = PixelComponents(image.on)
    BY <1>1 DEF Groups
  <2> QED BY <2>1, <2>2, <2>3 DEF Divides, Group
<1>2. CASE method # 1
  <2> DEFINE C == Candidates(image, method)
             E == {e \in C \X C : Overlapping(e[1], e[2])}
  <2>1. IsFiniteSet(C)
    <3>1. IsFiniteSet(Positions(image, 1) \cup Positions(image, 2))
      BY PositionsFinite, FS_Union
    <3>2. C \subseteq Positions(image, 1) \cup Positions(image, 2)
      BY DEF Candidates
    <3> QED BY <3>1, <3>2, FS_Subset
  <2>2. Groups = Components(C, E) /\ Found = C
    BY <1>2 DEF Groups, Found
  <2> HIDE DEF C, E
  <2>3. Divides(Components(C, E), C)
    BY <2>1, ComponentsDivide
  <2> QED BY <2>2, <2>3 DEF Divides, Group
<1> QED BY <1>1, <1>2

\* A group covers some of the canvas, and so its box is inside the image.
LEMMA GroupCovers ==
  ASSUME image \in Images, NEW g, Group(g)
  PROVE  Covers(g) # {} /\ Covers(g) \subseteq Canvas(image) /\ (method = 1 => Covers(g) = g)
<1>1. CASE method = 1
  <2>1. Covers(g) = UNION {{p} : p \in g}
    BY <1>1 DEF Covers
  <2>2. Covers(g) = g
    BY <2>1
  <2>3. g \subseteq image.on /\ g # {}
    BY <1>1 DEF Group, Found
  <2> QED BY <2>2, <2>3, CanvasFinite
<1>2. CASE method # 1
  <2> DEFINE Rect(c) == (c.j .. c.j + Sizes(Train.w)[c.n]) \X (c.i .. c.i + Sizes(Train.h)[c.n])
  <2>1. Covers(g) = UNION {Rect(c) : c \in g}
    BY <1>2 DEF Covers
  <2>2. g # {} /\ g \subseteq Positions(image, 1) \cup Positions(image, 2)
    BY <1>2 DEF Group, Found, Candidates
  <2>3. ASSUME NEW c \in g
        PROVE  Rect(c) \subseteq Canvas(image) /\ Rect(c) # {}
    <3>1. c \in Positions(image, 1) \cup Positions(image, 2)
      BY <2>2
    <3>2. Rect(c) \subseteq Canvas(image)
      BY <3>1, CandidateInside
    <3>3. PICK u \in Nat, v \in Nat, sw \in Nat, sh \in Nat :
            u = c.j /\ v = c.i /\ sw = Sizes(Train.w)[c.n] /\ sh = Sizes(Train.h)[c.n]
      BY <3>1, CandidateInside
    <3>4. u \in u .. u + sw /\ v \in v .. v + sh
      BY <3>3
    <3>5. <<u, v>> \in Rect(c)
      BY <3>3, <3>4
    <3> QED BY <3>2, <3>5
  <2> HIDE DEF Rect
  <2>4. PICK c \in g : TRUE
    BY <2>2
  <2>5. PICK p : p \in Rect(c)
    BY <2>3
  <2>6. p \in Covers(g)
    BY <2>1, <2>5
  <2>7. Covers(g) \subseteq Canvas(image)
    BY <2>1, <2>3
  <2> QED BY <1>2, <2>6, <2>7
<1> QED BY <1>1, <1>2

\* A box is a window, inside the image, that holds its group and begins and
\* ends with it.
LEMMA GroupBox ==
  ASSUME image \in Images, NEW g, Group(g)
  PROVE  LET b == BoxOf(g)
         IN /\ b \in Window
            /\ Covers(g) \subseteq Cells(b) /\ Cells(b) \subseteq Canvas(image)
            /\ \E p, q \in Covers(g) : p[1] = b.x /\ q[1] = b.x + b.w - 1
            /\ \E p, q \in Covers(g) : p[2] = b.y /\ q[2] = b.y + b.h - 1
<1>1. PICK P : P = Covers(g)
  OBVIOUS
<1>2. PICK w \in Nat, h \in Nat : w = image.w /\ h = image.h
  BY InputAssumption
<1>3. P \in SUBSET ((1 .. w) \X (1 .. h)) /\ P # {} /\ Canvas(image) = (1 .. w) \X (1 .. h)
  BY <1>1, <1>2, GroupCovers DEF Canvas
<1>4. PICK b : b = Bounds(P)
  OBVIOUS
<1>5. /\ b.x \in Nat /\ b.y \in Nat /\ b.w \in Nat \ {0} /\ b.h \in Nat \ {0}
      /\ P \subseteq Cells(b) /\ Cells(b) \subseteq (1 .. w) \X (1 .. h)
      /\ \E p, q \in P : p[1] = b.x /\ q[1] = b.x + b.w - 1
      /\ \E p, q \in P : p[2] = b.y /\ q[2] = b.y + b.h - 1
  BY <1>3, <1>4, BoundsHold
<1>6. b = [x |-> b.x, y |-> b.y, w |-> b.w, h |-> b.h]
  BY <1>4 DEF Bounds
<1>7. b \in Window
  BY <1>5, <1>6 DEF Window
<1>8. BoxOf(g) = b
  BY <1>1, <1>4 DEF BoxOf
<1> QED BY <1>1, <1>3, <1>5, <1>7, <1>8

-----------------------------------------------------------------------------
(* CandidateWindows.                                                       *)

\* A window that passed, and the group it is the box of.
Passed(b) == Qualifies(image.on, b) /\ \E g : Group(g) /\ b = BoxOf(g)

AllPassed == \A k \in DOMAIN windowCandidates : Passed(windowCandidates[k])

\* The mask is cut only at the end, when the windows are replaced by the
\* sentinel if there are none.
WindowsOK ==
  /\ image \in Images /\ method \in 1 .. 3
  /\ \A g \in todo : Group(g)
  /\ pc = "error" => method # 1 /\ (show \/ Cardinality(Groups) > IntegerBins)
  /\ windowCandidates \in Seq(Window)
  /\ IF pc = "done"
     THEN /\ windowCandidates # << >>
          /\ im_seg = image.on \cap Covered(windowCandidates)
          /\ \/ windowCandidates = <<Sentinel>>
             \/ AllPassed
     ELSE im_seg = image.on /\ AllPassed

LEMMA WindowsInit == Init => WindowsOK
<1> SUFFICES ASSUME Init PROVE WindowsOK
  OBVIOUS
<1>1. << >> \in Seq(Window) /\ DOMAIN << >> = {}
  OBVIOUS
<1> QED BY <1>1 DEF Init, WindowsOK, AllPassed

\* Groups, boxes and tests depend on the image and the method alone.
LEMMA GroupsKept ==
  ASSUME image' = image, method' = method
  PROVE  /\ \A g : Group(g)' <=> Group(g)
         /\ \A b : Passed(b)' <=> Passed(b)
         /\ AllPassed' <=> \A k \in DOMAIN windowCandidates' : Passed(windowCandidates'[k])
         /\ windowCandidates' = windowCandidates => (AllPassed' <=> AllPassed)
         /\ Groups' = Groups
<1>1. \A g : Group(g)' <=> Group(g)
  BY DEF Group, Found
<1>2. \A g : BoxOf(g)' = BoxOf(g)
  BY DEF BoxOf, Covers
<1>3. \A b : Passed(b)' <=> Passed(b)
  BY <1>1, <1>2 DEF Passed
<1>4. AllPassed' <=> \A k \in DOMAIN windowCandidates' : Passed(windowCandidates'[k])
  BY <1>1, <1>2 DEF AllPassed, Passed
<1>5. windowCandidates' = windowCandidates => (AllPassed' <=> AllPassed)
  BY <1>4 DEF AllPassed
<1>6. Groups' = Groups
  BY DEF Groups, Candidates, Positions, FillingSum, integral_image, Cumulated, WindowSum, On,
         Overlapping, SlidingBox
<1> QED BY <1>1, <1>3, <1>4, <1>5, <1>6

LEMMA FindBoxesKeeps ==
  ASSUME WindowsOK, FindBoxes
  PROVE  WindowsOK'
<1>1. /\ image' = image /\ method' = method /\ show' = show
      /\ windowCandidates' = windowCandidates /\ im_seg' = im_seg
      /\ todo' \subseteq Groups /\ pc = "find" /\ pc' \in {"test", "error"}
  BY DEF FindBoxes
<1>2. \A g \in todo' : Group(g)'
  BY <1>1, GroupsAreGroups, GroupsKept DEF WindowsOK
<1>3. pc' = "error" => method # 1 /\ (show \/ Cardinality(Groups) > IntegerBins)
  <2>1. PICK dropped \in DroppedSets :
          \/ pc' = IF show /\ dropped # {} THEN "error" ELSE "test"
          \/ Crowded
    BY DEF FindBoxes
  <2>2. CASE Crowded
    BY <2>2 DEF Crowded
  <2>3. CASE ~ Crowded
    <3>1. dropped = Alone
      BY <2>3 DEF DroppedSets
    <3>2. dropped # {} => method # 1
      BY <3>1 DEF Alone
    <3> QED BY <2>1, <2>3, <3>2
  <2> QED BY <2>2, <2>3
<1>5. Groups' = Groups
  BY <1>1, GroupsKept
<1>4. pc' # "done" /\ pc # "done"
  BY <1>1
<1> QED BY <1>1, <1>2, <1>3, <1>4, <1>5, GroupsKept DEF WindowsOK

LEMMA TestBoxKeeps ==
  ASSUME WindowsOK, TestBox
  PROVE  WindowsOK'
<1>1. PICK g \in todo :
        /\ todo' = todo \ {g}
        /\ pc' = IF Cells(BoxOf(g)) \subseteq Canvas(image) THEN "test" ELSE "error"
        /\ windowCandidates' = IF Qualifies(im_seg, BoxOf(g))
                               THEN Append(windowCandidates, BoxOf(g)) ELSE windowCandidates
  BY DEF TestBox
<1>2. image' = image /\ method' = method /\ show' = show /\ im_seg' = im_seg /\ pc = "test"
  BY DEF TestBox
<1>3. Group(g) /\ image \in Images /\ windowCandidates \in Seq(Window) /\ im_seg = image.on
      /\ \A k \in DOMAIN windowCandidates : Passed(windowCandidates[k])
  BY <1>2 DEF WindowsOK, AllPassed
<1>4. PICK b : b = BoxOf(g)
  OBVIOUS
<1>5. b \in Window /\ Cells(b) \subseteq Canvas(image)
  BY <1>3, <1>4, GroupBox
<1>6. pc' = "test"
  BY <1>1, <1>4, <1>5
<1>7. /\ windowCandidates' \in Seq(Window)
      /\ \A k \in DOMAIN windowCandidates' : Passed(windowCandidates'[k])
  <2>1. CASE Qualifies(im_seg, b)
    <3>1. windowCandidates' = Append(windowCandidates, b)
      BY <1>1, <1>4, <2>1
    <3>2. Passed(b)
      BY <1>3, <1>4, <2>1 DEF Passed
    <3>3. /\ windowCandidates' \in Seq(Window)
          /\ \A k \in DOMAIN windowCandidates' :
               \/ windowCandidates'[k] = b
               \/ /\ k \in DOMAIN windowCandidates
                  /\ windowCandidates'[k] = windowCandidates[k]
      <4>1. PICK s \in Seq(Window) : s = windowCandidates
        BY <1>3
      <4>2. Append(s, b) \in Seq(Window) /\ DOMAIN Append(s, b) = 1 .. Len(s) + 1
            /\ DOMAIN s = 1 .. Len(s) /\ Len(s) \in Nat
        BY <1>5
      <4>3. PICK n \in Nat, a \in Seq(Window) : n = Len(s) /\ a = Append(s, b)
        BY <4>2
      <4>4. \A k \in 1 .. n : a[k] = s[k]
        BY <4>3
      <4>5. PICK e : e = n + 1 /\ a[e] = b
        BY <4>3
      <4>6. \A k \in 1 .. n + 1 : k = e \/ k \in 1 .. n
        BY <4>5
      <4>7. \A k \in 1 .. n + 1 : a[k] = b \/ (k \in 1 .. n /\ a[k] = s[k])
        BY <4>4, <4>5, <4>6
      <4> QED BY <3>1, <4>1, <4>2, <4>3, <4>7
    <3> QED BY <1>3, <3>2, <3>3
  <2>2. CASE ~ Qualifies(im_seg, b)
    BY <1>1, <1>3, <1>4, <2>2
  <2> QED BY <2>1, <2>2
<1>8. AllPassed'
  BY <1>2, <1>7, GroupsKept
<1>9. \A h \in todo' : Group(h)'
  BY <1>1, <1>2, GroupsKept DEF WindowsOK
<1> QED BY <1>2, <1>3, <1>6, <1>7, <1>8, <1>9 DEF WindowsOK

LEMMA CutMaskKeeps ==
  ASSUME WindowsOK, CutMask
  PROVE  WindowsOK'
<1>1. /\ image' = image /\ method' = method /\ show' = show /\ todo' = todo
      /\ pc = "test" /\ pc' = "done"
      /\ windowCandidates' = WindowsToSave
      /\ im_seg' = im_seg \cap Covered(WindowsToSave)
  BY DEF CutMask
<1>2. /\ image \in Images /\ windowCandidates \in Seq(Window) /\ im_seg = image.on
      /\ \A k \in DOMAIN windowCandidates : Passed(windowCandidates[k])
  BY <1>1 DEF WindowsOK, AllPassed
<1>3. Sentinel \in Window
  BY DEF Sentinel, Window
<1>4. /\ windowCandidates' \in Seq(Window) /\ windowCandidates' # << >>
      /\ windowCandidates' = <<Sentinel>> \/ windowCandidates' = windowCandidates
  BY <1>1, <1>2, <1>3 DEF WindowsToSave, OrSentinel
<1>5. im_seg' = image'.on \cap Covered(windowCandidates')
  BY <1>1, <1>2
<1>6. windowCandidates' = <<Sentinel>> \/ AllPassed'
  BY <1>1, <1>2, <1>4, GroupsKept
<1>7. \A g \in todo' : Group(g)'
  BY <1>1, GroupsKept DEF WindowsOK
<1> QED BY <1>1, <1>4, <1>5, <1>6, <1>7 DEF WindowsOK

LEMMA WindowsInvariant == Spec => []WindowsOK
<1>1. WindowsOK /\ [Next]_vars => WindowsOK'
  <2> SUFFICES ASSUME WindowsOK, [Next]_vars PROVE WindowsOK'
    OBVIOUS
  <2>1. CASE UNCHANGED vars
    <3>1. /\ image' = image /\ method' = method /\ show' = show /\ todo' = todo /\ pc' = pc
          /\ windowCandidates' = windowCandidates /\ im_seg' = im_seg
      BY <2>1 DEF vars
    <3> QED BY <3>1, GroupsKept DEF WindowsOK
  <2> QED BY <2>1, FindBoxesKeeps, TestBoxKeeps, CutMaskKeeps DEF Next
<1> QED BY WindowsInit, <1>1, PTL DEF Spec

-----------------------------------------------------------------------------
(* What the windows promise.                                               *)

\* No box reaches out of the image, with any train set, step and method, so
\* reading it never fails: only the drawing of dropped groups does, and the
\* dropping itself when there are more groups than bins that tell them apart.
THEOREM BoxesInsideImageCorrect == Spec => []BoxesInsideImage
<1>1. WindowsOK => BoxesInsideImage
  <2> SUFFICES ASSUME WindowsOK PROVE BoxesInsideImage
    OBVIOUS
  <2>1. \A g \in todo : Cells(BoxOf(g)) \subseteq Canvas(image)
    BY GroupBox DEF WindowsOK
  <2> QED BY <2>1 DEF WindowsOK, BoxesInsideImage
<1> QED BY WindowsInvariant, <1>1, PTL

\* The mask within a window that passed is not empty, and is what the mask cut
\* down to all windows has there.
LEMMA PassedHasPixels ==
  ASSUME image \in Images, NEW b, Passed(b)
  PROVE  b # Sentinel /\ image.on \cap Cells(b) # {}
<1>1. b \in Window /\ Qualifies(image.on, b)
  BY GroupBox DEF Passed
<1>2. PICK w \in Nat \ {0}, h \in Nat \ {0} : w <= b.w /\ h <= b.h
  <2>1. Train.w[1] \in Nat \ {0} /\ Train.h[1] \in Nat \ {0}
        /\ Train.w[2] \in Nat /\ Train.h[2] \in Nat
    BY InputAssumption
  <2>2. b.w \in Train.w[1] .. Train.w[2] /\ b.h \in Train.h[1] .. Train.h[2]
    BY <1>1 DEF Qualifies
  <2> QED BY <2>1, <2>2
<1>3. PICK bw \in Nat \ {0}, bh \in Nat \ {0} : bw = b.w /\ bh = b.h
  BY <1>1, <1>2 DEF Window
<1>4. PICK u \in Nat \ {0}, d \in Nat : u = Train.fr[1][1] /\ d = Train.fr[1][2]
  BY InputAssumption
<1>5. AreaOn(image.on, b) * d >= u * (bw * bh)
  BY <1>1, <1>3, <1>4 DEF Qualifies, Between, NotBelow
<1>6. u * (bw * bh) > 0
  <2>1. bw * bh \in Nat \ {0}
    OBVIOUS
  <2> QED BY <2>1
<1>7. ASSUME image.on \cap Cells(b) = {} PROVE FALSE
  <2>1. AreaOn(image.on, b) = 0
    BY <1>7, FS_EmptySet DEF AreaOn
  <2> QED BY <1>5, <1>6, <2>1
<1>8. b # Sentinel
  BY <1>3 DEF Sentinel
<1> QED BY <1>7, <1>8

LEMMA MaskWithinWindow ==
  ASSUME NEW mask, NEW list, NEW k \in DOMAIN list
  PROVE  (mask \cap Covered(list)) \cap Cells(list[k]) = mask \cap Cells(list[k])
BY DEF Covered

LEMMA WindowsFit == WindowsOK => SavedFitsTogether
<1> SUFFICES ASSUME WindowsOK, pc = "done"
             PROVE  /\ windowCandidates = <<Sentinel>> <=> im_seg = {}
                    /\ im_seg # {} => \A k \in DOMAIN windowCandidates :
                         Between(AreaOn(im_seg, windowCandidates[k]),
                                 windowCandidates[k].w * windowCandidates[k].h, Train.fr)
  BY DEF SavedFitsTogether
<1>1. /\ image \in Images /\ windowCandidates # << >> /\ windowCandidates \in Seq(Window)
      /\ im_seg = image.on \cap Covered(windowCandidates)
      /\ windowCandidates = <<Sentinel>> \/ \A k \in DOMAIN windowCandidates : Passed(windowCandidates[k])
  BY DEF WindowsOK, AllPassed
<1>2. CASE windowCandidates = <<Sentinel>>
  <2>1. DOMAIN <<Sentinel>> = {1} /\ <<Sentinel>>[1] = Sentinel
    OBVIOUS
  <2>2. Cells(Sentinel) = {}
    <3>1. Cells(Sentinel) = (1 .. 1 + 0 - 1) \X (1 .. 1 + 0 - 1)
      BY DEF Cells, Sentinel
    <3>2. 1 .. 1 + 0 - 1 = {}
      OBVIOUS
    <3> QED BY <3>1, <3>2
  <2>3. Covered(<<Sentinel>>) = {}
    BY <2>1, <2>2 DEF Covered
  <2> QED BY <1>1, <1>2, <2>3
<1>3. CASE \A k \in DOMAIN windowCandidates : Passed(windowCandidates[k])
  <2>1. 1 \in DOMAIN windowCandidates
    BY <1>1
  <2>2. \A k \in DOMAIN windowCandidates :
          im_seg \cap Cells(windowCandidates[k]) = image.on \cap Cells(windowCandidates[k])
    BY <1>1, MaskWithinWindow
  <2>3. windowCandidates[1] # Sentinel /\ image.on \cap Cells(windowCandidates[1]) # {}
    BY <1>1, <1>3, <2>1, PassedHasPixels
  <2>4. im_seg # {}
    BY <2>1, <2>2, <2>3
  <2>5. windowCandidates # <<Sentinel>>
    BY <2>3
  <2>6. ASSUME NEW k \in DOMAIN windowCandidates
        PROVE  Between(AreaOn(im_seg, windowCandidates[k]),
                       windowCandidates[k].w * windowCandidates[k].h, Train.fr)
    <3>1. AreaOn(im_seg, windowCandidates[k]) = AreaOn(image.on, windowCandidates[k])
      BY <2>2 DEF AreaOn
    <3>2. Qualifies(image.on, windowCandidates[k])
      BY <1>3 DEF Passed
    <3> QED BY <3>1, <3>2 DEF Qualifies
  <2> QED BY <2>4, <2>5, <2>6
<1> QED BY <1>1, <1>2, <1>3

\* What is saved fits together, for every image and train set: the windows are
\* filled in the mask that is saved, and the sentinel comes with an empty mask.
THEOREM SavedFitsTogetherCorrect == Spec => []SavedFitsTogether
BY WindowsInvariant, WindowsFit, PTL

\* Windows of connected components begin and end at pixels of the saved mask.
THEOREM ComponentWindowsTightCorrect == Spec => []ComponentWindowsTight
<1>1. WindowsOK => ComponentWindowsTight
  <2> SUFFICES ASSUME WindowsOK, pc = "done", method = 1, im_seg # {},
                      NEW k \in DOMAIN windowCandidates
               PROVE  /\ \E p, q \in im_seg \cap Cells(windowCandidates[k]) :
                           /\ p[1] = windowCandidates[k].x
                           /\ q[1] = windowCandidates[k].x + windowCandidates[k].w - 1
                      /\ \E p, q \in im_seg \cap Cells(windowCandidates[k]) :
                           /\ p[2] = windowCandidates[k].y
                           /\ q[2] = windowCandidates[k].y + windowCandidates[k].h - 1
    BY DEF ComponentWindowsTight
  <2>1. /\ image \in Images
        /\ im_seg = image.on \cap Covered(windowCandidates)
        /\ windowCandidates = <<Sentinel>> \/ \A m \in DOMAIN windowCandidates : Passed(windowCandidates[m])
    BY DEF WindowsOK, AllPassed
  <2>2. windowCandidates # <<Sentinel>>
    <3>1. SavedFitsTogether => (windowCandidates = <<Sentinel>> <=> im_seg = {})
      BY DEF SavedFitsTogether
    <3> QED BY <3>1, WindowsFit
  <2>3. PICK b : b = windowCandidates[k]
    OBVIOUS
  <2>4. PICK g : Group(g) /\ b = BoxOf(g)
    BY <2>1, <2>2, <2>3 DEF Passed
  <2>5. /\ Covers(g) \subseteq Cells(b)
        /\ \E p, q \in Covers(g) : p[1] = b.x /\ q[1] = b.x + b.w - 1
        /\ \E p, q \in Covers(g) : p[2] = b.y /\ q[2] = b.y + b.h - 1
    BY <2>1, <2>4, GroupBox
  <2>6. Covers(g) \subseteq image.on
    BY <2>1, <2>4, GroupCovers DEF Group, Found
  <2>7. im_seg \cap Cells(b) = image.on \cap Cells(b)
    BY <2>1, <2>3, MaskWithinWindow
  <2>8. Covers(g) \subseteq im_seg \cap Cells(b)
    BY <2>5, <2>6, <2>7
  <2> QED BY <2>3, <2>5, <2>8
<1> QED BY WindowsInvariant, <1>1, PTL

\* The pixels of a rectangle whose corner is beyond (x, y) are the four
\* look-ups: by inclusion and exclusion.
LookUpsCount(img, x, y, sx, sy) ==
  integral_image(img, x, y, sx, sy) = On(img, x + 1 .. x + sx, y + 1 .. y + sy)

LEMMA FourLookUps ==
  ASSUME NEW img, IsFiniteSet(img.on),
         NEW W \in Nat, NEW H \in Nat, img.on \subseteq (1 .. W) \X (1 .. H),
         NEW x \in Nat, NEW y \in Nat, NEW sx \in Nat, NEW sy \in Nat
  PROVE  LookUpsCount(img, x, y, sx, sy)
<1> DEFINE Part(I, J) == {p \in img.on : p[1] \in J /\ p[2] \in I}
           A == Part(1 .. x + sx, 1 .. y + sy)
           B == Part(1 .. x, 1 .. y + sy)
           C == Part(1 .. x + sx, 1 .. y)
           D == Part(1 .. x, 1 .. y)
           R == Part(x + 1 .. x + sx, y + 1 .. y + sy)
<1>1. \A p \in img.on : p[1] \in Nat \ {0} /\ p[2] \in Nat \ {0}
  OBVIOUS
<1>2. \A I, J : Part(I, J) \subseteq img.on /\ IsFiniteSet(Part(I, J))
  BY FS_Subset
<1>3. B \cap C = D
  <2>1. \A p \in img.on : p \in B \cap C <=> p \in D
    BY <1>1
  <2> QED BY <2>1
<1>4. R \cup (B \cup C) = A
  <2>1. \A p \in img.on : p \in R \cup (B \cup C) <=> p \in A
    BY <1>1
  <2> QED BY <2>1
<1>5. R \cap (B \cup C) = {}
  <2>1. \A p \in img.on : p \notin R \cap (B \cup C)
    BY <1>1
  <2> QED BY <2>1
<1>6. /\ IsFiniteSet(A) /\ IsFiniteSet(B) /\ IsFiniteSet(C) /\ IsFiniteSet(D) /\ IsFiniteSet(R)
  BY <1>2
<1>7. /\ integral_image(img, x, y, sx, sy)
           = Cardinality(A) - Cardinality(B) - Cardinality(C) + Cardinality(D)
      /\ On(img, x + 1 .. x + sx, y + 1 .. y + sy) = Cardinality(R)
  BY DEF integral_image, Cumulated, On
<1> HIDE DEF A, B, C, D, R, Part
<1>8. /\ IsFiniteSet(B \cup C)
      /\ Cardinality(B \cup C) = Cardinality(B) + Cardinality(C) - Cardinality(B \cap C)
  BY <1>6, FS_Union
<1>9. Cardinality(R \cup (B \cup C)) = Cardinality(R) + Cardinality(B \cup C) - Cardinality(R \cap (B \cup C))
  BY <1>6, <1>8, FS_Union
<1>10. Cardinality(R \cap (B \cup C)) = 0
  BY <1>5, FS_EmptySet
<1>11. /\ Cardinality(A) \in Nat /\ Cardinality(B) \in Nat /\ Cardinality(C) \in Nat
       /\ Cardinality(D) \in Nat /\ Cardinality(R) \in Nat /\ Cardinality(B \cup C) \in Nat
  BY <1>6, <1>8, FS_CardinalityType
<1>12. Cardinality(B \cap C) = Cardinality(D) /\ Cardinality(R \cup (B \cup C)) = Cardinality(A)
  BY <1>3, <1>4
<1>13. Cardinality(A) = Cardinality(R) + (Cardinality(B) + Cardinality(C) - Cardinality(D))
  BY <1>8, <1>9, <1>10, <1>11, <1>12
<1>14. PICK a \in Nat, b \in Nat, c \in Nat, d \in Nat, r \in Nat :
         /\ a = Cardinality(A) /\ b = Cardinality(B) /\ c = Cardinality(C)
         /\ d = Cardinality(D) /\ r = Cardinality(R)
  BY <1>11
<1>15. a = r + (b + c - d)
  BY <1>13, <1>14
<1>16. a - b - c + d = r
  BY <1>15
<1> QED BY <1>7, <1>14, <1>16 DEF LookUpsCount

\* The look-ups of the integral image count the pixels of a window of the very
\* size they are divided by, at every position the windows slide to.
THEOREM IntegralCountsWindowCorrect == Spec => []IntegralCountsWindow
<1>1. WindowsOK => IntegralCountsWindow
  <2> SUFFICES ASSUME WindowsOK, NEW c \in Positions(image, 1) \cup Positions(image, 2)
               PROVE  integral_image(image, c.i, c.j, Sizes(Train.h)[c.n], Sizes(Train.w)[c.n])
                        = On(image, c.i + 1 .. c.i + Sizes(Train.h)[c.n],
                                    c.j + 1 .. c.j + Sizes(Train.w)[c.n])
    BY DEF IntegralCountsWindow
  <2>1. image \in Images
    BY DEF WindowsOK
  <2>2. PICK x \in Nat, y \in Nat, sx \in Nat, sy \in Nat :
          x = c.i /\ y = c.j /\ sx = Sizes(Train.h)[c.n] /\ sy = Sizes(Train.w)[c.n]
    BY <2>1, CandidateInside
  <2>3. PICK img : img = image
    OBVIOUS
  <2>4. PICK W \in Nat, H \in Nat : IsFiniteSet(img.on) /\ img.on \subseteq (1 .. W) \X (1 .. H)
    <3>1. image.w \in Nat /\ image.h \in Nat
      BY <2>1, InputAssumption
    <3>2. IsFiniteSet(image.on) /\ image.on \subseteq Canvas(image)
      BY <2>1, CanvasFinite
    <3> QED BY <2>3, <3>1, <3>2 DEF Canvas
  <2>5. LookUpsCount(img, x, y, sx, sy)
    <3>1. IsFiniteSet(img.on) /\ img.on \subseteq (1 .. W) \X (1 .. H)
      BY <2>4
    <3> QED BY <3>1, FourLookUps
  <2> QED BY <2>2, <2>3, <2>5 DEF LookUpsCount
<1> QED BY WindowsInvariant, <1>1, PTL
-----------------------------------------------------------------------------
(* CandidateGeneration4: the windows of an image.                          *)

\* What Those takes from a list.
LEMMA ThoseTaken ==
  ASSUME NEW T, NEW list \in Seq(T), NEW S
  PROVE  /\ Those(list, S) \in Seq(T)
         /\ Range(Those(list, S)) = Range(list) \cap S
<1> DEFINE K == {k \in DOMAIN list : list[k] \in S}
           is == Ascending(K)
<1>1. K \in SUBSET Nat /\ IsFiniteSet(K)
  <2>1. PICK n \in Nat : n = Len(list) /\ DOMAIN list = 1 .. n
    OBVIOUS
  <2>2. IsFiniteSet(1 .. n)
    BY FS_Interval
  <2>3. K \in SUBSET (1 .. n)
    BY <2>1
  <2> QED BY <2>2, <2>3, FS_Subset
<1>2. Lists(is, K)
  <2> HIDE DEF K
  <2> QED BY <1>1, AscendingLists
<1>3. /\ is \in Seq(K) /\ DOMAIN is = 1 .. Len(is) /\ Len(is) \in Nat
      /\ \A p \in 1 .. Len(is) : is[p] \in K
      /\ \A k \in K : \E p \in 1 .. Len(is) : is[p] = k
  <2> HIDE DEF K, is
  <2> QED BY <1>2 DEF Lists
<1>4. Those(list, S) = [p \in DOMAIN is |-> list[is[p]]]
  BY DEF Those, At, PositionsIn
<1>5. \A k \in K : k \in DOMAIN list /\ list[k] \in S /\ list[k] \in T
  OBVIOUS
<1>6. \A k \in DOMAIN list : list[k] \in S => k \in K
  OBVIOUS
<1> HIDE DEF K, is
<1>7. PICK n \in Nat : n = Len(is) /\ DOMAIN is = 1 .. n
  BY <1>3
<1>8. Those(list, S) = [p \in 1 .. n |-> list[is[p]]]
  BY <1>4, <1>7
<1>9. \A p \in 1 .. n : list[is[p]] \in T
  BY <1>3, <1>5, <1>7
<1>10. Those(list, S) \in Seq(T)
  BY <1>8, <1>9
<1>11. Range(Those(list, S)) = {list[is[p]] : p \in 1 .. n}
  BY <1>8 DEF Range
<1>12. {list[is[p]] : p \in 1 .. n} = {list[k] : k \in K}
  BY <1>3, <1>7
<1>13. {list[k] : k \in K} = Range(list) \cap S
  BY <1>5, <1>6 DEF Range
<1> QED BY <1>10, <1>11, <1>12, <1>13

\* The images of a list.
LEMMA FileFacts ==
  ASSUME NEW fs \in Files, NEW k \in 1 .. Len(fs)
  PROVE  /\ Len(fs) \in Nat \ {0} /\ DOMAIN fs = 1 .. Len(fs)
         /\ fs[k].w \in Nat /\ fs[k].h \in Nat
         /\ fs[k].on \subseteq Canvas(fs[k]) /\ IsFiniteSet(fs[k].on)
         /\ IsFiniteSet(fs[k].gt) /\ fs[k].gt # {}
         /\ Len(fs[k].signs) \in Nat \ {0}
<1>1. /\ fs \in Seq([w : Nat, h : Nat, on : SUBSET (Nat \X Nat), gt : SUBSET (Nat \X Nat),
                     signs : Seq(Window)])
      /\ Len(fs) >= 1
      /\ \A j \in DOMAIN fs :
           /\ fs[j].on \subseteq Canvas(fs[j])
           /\ fs[j].gt \subseteq Canvas(fs[j]) /\ fs[j].gt # {}
           /\ Len(fs[j].signs) >= 1
  BY FilesAssumption
<1>2. PICK R : R = [w : Nat, h : Nat, on : SUBSET (Nat \X Nat), gt : SUBSET (Nat \X Nat),
                    signs : Seq(Window)]
  OBVIOUS
<1>3. Len(fs) \in Nat \ {0} /\ DOMAIN fs = 1 .. Len(fs) /\ fs[k] \in R
  <2>1. fs \in Seq(R)
    BY <1>1, <1>2
  <2> QED BY <1>1, <2>1
<1>4. /\ fs[k].w \in Nat /\ fs[k].h \in Nat /\ fs[k].signs \in Seq(Window)
  BY <1>2, <1>3
<1>5. IsFiniteSet(Canvas(fs[k]))
  <2>1. PICK w \in Nat, h \in Nat : w = fs[k].w /\ h = fs[k].h
    BY <1>4
  <2>2. IsFiniteSet(1 .. w) /\ IsFiniteSet(1 .. h)
    BY FS_Interval
  <2>3. IsFiniteSet((1 .. w) \X (1 .. h))
    BY <2>2, FS_Product
  <2> QED BY <2>1, <2>3 DEF Canvas
<1>6. /\ fs[k].on \subseteq Canvas(fs[k]) /\ fs[k].gt \subseteq Canvas(fs[k]) /\ fs[k].gt # {}
      /\ Len(fs[k].signs) >= 1
  BY <1>1, <1>3
<1>7. IsFiniteSet(fs[k].on) /\ IsFiniteSet(fs[k].gt)
  BY <1>5, <1>6, FS_Subset
<1>8. Len(fs[k].signs) \in Nat
  BY <1>4
<1> QED BY <1>3, <1>4, <1>6, <1>7, <1>8

\* The images that files may have, by what the windows depend on.
IsImage(img) ==
  img.w \in Nat /\ img.h \in Nat /\ img.on \subseteq Canvas(img) /\ IsFiniteSet(img.on)

\* The boxes of an image are windows with pixels in them.
HasPixels(img, b) == b \in Window /\ b # Sentinel /\ img.on \cap Cells(b) # {}

LEMMA BoxesHavePixels ==
  ASSUME NEW img, IsImage(img)
  PROVE  /\ BoundingBoxes(img) \in Seq(Window)
         /\ \A b \in Range(BoundingBoxes(img)) : HasPixels(img, b)
<1> DEFINE comps == PixelComponents(img.on)
           F == {FirstPixel(img, P) : P \in comps}
           first == Ascending(F)
           Box(k) == Bounds(CHOOSE P \in comps : FirstPixel(img, P) = first[k])
<1>1. PICK w \in Nat, h \in Nat : w = img.w /\ h = img.h
  BY DEF IsImage
<1>2. img.on \subseteq (1 .. w) \X (1 .. h) /\ IsFiniteSet(img.on)
  BY <1>1 DEF IsImage, Canvas
<1>3. Divides(comps, img.on)
  BY <1>2, ComponentsDivide DEF PixelComponents
<1> HIDE DEF comps
<1>4. \A P \in comps : P # {} /\ P \in SUBSET img.on /\ P \in SUBSET ((1 .. w) \X (1 .. h))
  BY <1>2, <1>3 DEF Divides
<1>5. ASSUME NEW P \in comps
      PROVE  FirstPixel(img, P) \in Nat
  <2> DEFINE N == {p[1] * (img.h + 1) + p[2] : p \in P}
  <2>1. N \in SUBSET Nat /\ N # {}
    <3>1. ASSUME NEW p \in P PROVE p[1] * (img.h + 1) + p[2] \in Nat
      <4>1. p \in (1 .. w) \X (1 .. h)
        BY <1>4
      <4>2. PICK a \in Nat, b \in Nat : a = p[1] /\ b = p[2]
        BY <4>1
      <4>3. a * (h + 1) \in Nat
        OBVIOUS
      <4>4. a * (h + 1) + b \in Nat
        BY <4>3
      <4> QED BY <1>1, <4>2, <4>4
    <3> QED BY <1>4, <3>1
  <2> HIDE DEF N
  <2>2. Min(N) \in N
    BY <2>1, LeastOf
  <2> QED BY <2>1, <2>2 DEF FirstPixel, N
<1>6. IsFiniteSet(comps)
  <2>1. comps \in SUBSET (SUBSET img.on)
    BY <1>4
  <2>2. IsFiniteSet(SUBSET img.on)
    BY <1>2, FS_SUBSET
  <2> QED BY <2>1, <2>2, FS_Subset
<1>7. F \in SUBSET Nat /\ IsFiniteSet(F)
  <2> DEFINE f == [P \in comps |-> FirstPixel(img, P)]
  <2>1. f \in Surjection(comps, F)
    BY DEF Surjection
  <2> HIDE DEF f, F
  <2>2. IsFiniteSet(F)
    BY <1>6, <2>1, FS_Surjection
  <2> QED BY <1>5, <2>2 DEF F
<1>8. Lists(first, F)
  <2> HIDE DEF F
  <2> QED BY <1>7, AscendingLists
<1>9. PICK n \in Nat : n = Len(first) /\ DOMAIN first = 1 .. n /\ \A k \in 1 .. n : first[k] \in F
  <2> HIDE DEF F, first
  <2> QED BY <1>8 DEF Lists
<1>10. BoundingBoxes(img) = [k \in 1 .. n |-> Box(k)]
  <2>1. BoundingBoxes(img) = [k \in DOMAIN first |-> Box(k)]
    BY DEF BoundingBoxes, comps
  <2> QED BY <1>9, <2>1
<1>11. ASSUME NEW k \in 1 .. n
       PROVE  HasPixels(img, Box(k))
  <2>1. \E P \in comps : FirstPixel(img, P) = first[k]
    <3>1. first[k] \in F
      BY <1>9
    <3> HIDE DEF first
    <3> QED BY <3>1
  <2>2. PICK P \in comps : Box(k) = Bounds(P)
    BY <2>1
  <2> HIDE DEF Box
  <2>3. P \in SUBSET ((1 .. w) \X (1 .. h)) /\ P # {} /\ P \subseteq img.on
    BY <1>4
  <2>4. PICK b : b = Bounds(P)
    OBVIOUS
  <2>5. /\ b.x \in Nat /\ b.y \in Nat /\ b.w \in Nat \ {0} /\ b.h \in Nat \ {0}
        /\ P \subseteq Cells(b)
    BY <2>3, <2>4, BoundsHold
  <2>6. b = [x |-> b.x, y |-> b.y, w |-> b.w, h |-> b.h]
    BY <2>4 DEF Bounds
  <2>7. b \in Window /\ b # Sentinel
    <3>1. Sentinel.w = 0
      BY DEF Sentinel
    <3> QED BY <2>5, <2>6, <3>1 DEF Window
  <2>8. img.on \cap Cells(b) # {}
    BY <2>3, <2>5
  <2> QED BY <2>2, <2>4, <2>7, <2>8 DEF HasPixels
<1> HIDE DEF Box
<1>12. \A k \in 1 .. n : Box(k) \in Window
  BY <1>11 DEF HasPixels
<1>13. BoundingBoxes(img) \in Seq(Window)
  BY <1>10, <1>12
<1>14. Range(BoundingBoxes(img)) = {Box(k) : k \in 1 .. n}
  BY <1>10 DEF Range
<1> QED BY <1>11, <1>13, <1>14

\* The filter keeps windows with pixels, or the one that stands for none.
LEMMA FilteredWindows ==
  ASSUME NEW img, IsImage(img)
  PROVE  /\ Filtered(img) \in Seq(Window)
         /\ \/ Filtered(img) = <<Sentinel>>
            \/ \A b \in Range(Filtered(img)) : HasPixels(img, b)
<1> DEFINE boxes == BoundingBoxes(img)
           S == {b \in Range(boxes) : Passes(img.on, b)}
<1>1. boxes \in Seq(Window) /\ \A b \in Range(boxes) : HasPixels(img, b)
  BY BoxesHavePixels
<1>2. Filtered(img) = OrSentinel(Those(boxes, S))
  BY DEF Filtered
<1> HIDE DEF boxes, S
<1>3. Those(boxes, S) \in Seq(Window) /\ Range(Those(boxes, S)) = Range(boxes) \cap S
  BY <1>1, ThoseTaken
<1>4. <<Sentinel>> \in Seq(Window)
  BY DEF Sentinel, Window
<1>5. CASE Those(boxes, S) = << >>
  BY <1>2, <1>4, <1>5 DEF OrSentinel
<1>6. CASE Those(boxes, S) # << >>
  <2>1. Filtered(img) = Those(boxes, S)
    BY <1>2, <1>6 DEF OrSentinel
  <2> QED BY <1>1, <1>3, <2>1
<1> QED BY <1>5, <1>6
\* What the second method saves for an image if some windows match, and what a
\* method saves: of the second, what any choice of matching windows leaves.
Compared(img, F, match) ==
  LET list == Those(F, match)
  IN [mask |-> (img.on \cap Covered(F)) \cap Covered(SubSeq(list, 1, Smaller(1, Len(list)))),
      windows |-> list]
SavedBy(m, img, r) ==
  IF m = 1
  THEN r = [mask |-> img.on \cap Covered(Filtered(img)), windows |-> Filtered(img)]
  ELSE \E match \in SUBSET Matchable([list |-> Filtered(img), row |-> TRUE]) :
         r = Compared(img, Filtered(img), match)

LEMMA FirstCovered ==
  ASSUME NEW list \in Seq(Window)
  PROVE  Covered(SubSeq(list, 1, Smaller(1, Len(list)))) =
           IF list = << >> THEN {} ELSE Cells(list[1])
<1>1. PICK n \in Nat : n = Len(list)
  OBVIOUS
<1>2. CASE list = << >>
  <2>1. n = 0 /\ Smaller(1, n) = 0
    BY <1>1, <1>2 DEF Smaller
  <2>2. DOMAIN SubSeq(list, 1, 0) = {}
    BY <1>2
  <2> QED BY <1>1, <1>2, <2>1, <2>2 DEF Covered
<1>3. CASE list # << >>
  <2>1. n >= 1 /\ Smaller(1, n) = 1
    BY <1>1, <1>3 DEF Smaller
  <2>2. DOMAIN SubSeq(list, 1, 1) = {1} /\ SubSeq(list, 1, 1)[1] = list[1]
    BY <1>1, <2>1
  <2>3. Covered(SubSeq(list, 1, 1)) = Cells(list[1])
    BY <2>2 DEF Covered
  <2> QED BY <1>1, <1>3, <2>1, <2>3
<1> QED BY <1>2, <1>3

\* The second method keeps part of what the first keeps.
LEMMA SecondKeepsPart ==
  ASSUME NEW img, IsImage(img), NEW q, SavedBy(1, img, q), NEW r, SavedBy(2, img, r)
  PROVE  /\ Range(r.windows) \subseteq Range(q.windows) \ {Sentinel}
         /\ r.mask \subseteq q.mask
         /\ r.mask = {} <=> r.windows = << >>
<1>1. PICK F \in Seq(Window) : F = Filtered(img)
  BY FilteredWindows
<1>2. q = [mask |-> img.on \cap Covered(F), windows |-> F]
  BY <1>1 DEF SavedBy
<1>3. PICK match \in SUBSET Matchable([list |-> F, row |-> TRUE]) : r = Compared(img, F, match)
  <2>1. SavedBy(2, img, r) <=>
          \E match \in SUBSET Matchable([list |-> Filtered(img), row |-> TRUE]) :
            r = Compared(img, Filtered(img), match)
    BY DEF SavedBy
  <2> QED BY <1>1, <2>1
<1>4. PICK list \in Seq(Window) : list = Those(F, match) /\ Range(list) = Range(F) \cap match
  BY <1>1, ThoseTaken
<1>5. /\ r.windows = list
      /\ r.mask = (img.on \cap Covered(F)) \cap (IF list = << >> THEN {} ELSE Cells(list[1]))
  BY <1>3, <1>4, FirstCovered DEF Compared
<1>6. \A b \in match : b \in Range(F) /\ b.w > 0
  BY DEF Matchable
<1>7. Sentinel.w = 0
  BY DEF Sentinel
<1>8. Range(list) \subseteq Range(F) \ {Sentinel}
  BY <1>4, <1>6, <1>7
<1>9. ASSUME list # << >> PROVE r.mask # {}
  <2>1. 1 \in DOMAIN list
    BY <1>9
  <2>2. PICK b : b = list[1] /\ b \in Range(list)
    BY <2>1 DEF Range
  <2>3. b \in Range(F) /\ b # Sentinel
    BY <1>8, <2>2
  <2>4. F # <<Sentinel>>
    <3>1. Range(<<Sentinel>>) = {Sentinel}
      BY DEF Range
    <3> QED BY <2>3, <3>1
  <2>5. HasPixels(img, b)
    BY <1>1, <2>3, <2>4, FilteredWindows
  <2>6. PICK p : p \in img.on \cap Cells(b)
    BY <2>5 DEF HasPixels
  <2>7. PICK k \in DOMAIN F : b = F[k]
    BY <2>3 DEF Range
  <2>8. p \in Covered(F)
    BY <2>6, <2>7 DEF Covered
  <2> QED BY <1>5, <1>9, <2>2, <2>6, <2>8
<1> QED BY <1>2, <1>5, <1>8, <1>9

SavedRecord == [mask : SUBSET (Nat \X Nat), windows : Seq(Window)]

LEMMA SavedIs ==
  ASSUME NEW img, IsImage(img), NEW m \in {1, 2}, NEW r, SavedBy(m, img, r)
  PROVE  r \in SavedRecord /\ IsFiniteSet(r.mask)
<1>1. PICK F \in Seq(Window) : F = Filtered(img)
  BY FilteredWindows
<1>2. IsFiniteSet(img.on) /\ img.on \in SUBSET (Nat \X Nat)
  <2>1. img.on \subseteq (1 .. img.w) \X (1 .. img.h) /\ img.w \in Nat /\ img.h \in Nat
    BY DEF IsImage, Canvas
  <2> QED BY <2>1 DEF IsImage
<1>3. CASE m = 1
  <2>1. r = [mask |-> img.on \cap Covered(F), windows |-> F]
    BY <1>1, <1>3 DEF SavedBy
  <2> QED BY <1>2, <2>1, FS_Subset DEF SavedRecord
<1>4. CASE m = 2
  <2>1. PICK match : r = Compared(img, F, match)
    BY <1>1, <1>4 DEF SavedBy
  <2>2. PICK list : list = Those(F, match)
    OBVIOUS
  <2>3. list \in Seq(Window)
    BY <2>2, ThoseTaken
  <2>4. PICK A : r = [mask |-> (img.on \cap Covered(F)) \cap A, windows |-> list]
    BY <2>1, <2>2 DEF Compared
  <2> QED BY <1>2, <2>3, <2>4, FS_Subset DEF SavedRecord
<1> QED BY <1>3, <1>4

-----------------------------------------------------------------------------
(* CandidateGeneration4: the counts of an image.                           *)

\* The counts of a mask cover what is annotated.
LEMMA PixelsCounted ==
  ASSUME NEW mask, IsFiniteSet(mask), NEW gt, IsFiniteSet(gt), gt # {}
  PROVE  LET c == PixelCounts(mask, gt)
         IN c.TP \in Nat /\ c.FP \in Nat /\ c.FN \in Nat /\ c.TP + c.FN > 0
<1>1. /\ PixelCounts(mask, gt).TP = Cardinality(mask \cap gt)
      /\ PixelCounts(mask, gt).FP = Cardinality(mask \ gt)
      /\ PixelCounts(mask, gt).FN = Cardinality(gt \ mask)
  BY DEF PixelCounts
<1>2. IsFiniteSet(mask \cap gt) /\ IsFiniteSet(mask \ gt) /\ IsFiniteSet(gt \ mask)
  BY FS_Subset
<1>3. /\ Cardinality(mask \cap gt) \in Nat /\ Cardinality(mask \ gt) \in Nat
      /\ Cardinality(gt \ mask) \in Nat
  BY <1>2, FS_CardinalityType
<1>4. Cardinality(mask \cap gt) # 0 \/ Cardinality(gt \ mask) # 0
  <2>1. mask \cap gt # {} \/ gt \ mask # {}
    OBVIOUS
  <2> QED BY <1>2, <2>1, FS_EmptySet
<1> QED BY <1>1, <1>3, <1>4

\* The counts of windows cover every detection, and not nothing of what is
\* annotated.
LEMMA WindowsMatched ==
  ASSUME NEW hit, NEW na \in Nat \ {0}, NEW nd \in Nat
  PROVE  LET c == WindowCounts(hit, na, nd)
         IN /\ c.TP \in Nat /\ c.FP \in Nat /\ c.FN \in Nat
            /\ c.TP + c.FP = nd /\ c.TP + c.FN > 0
<1> DEFINE A == 1 .. na
           D == 1 .. nd
           UA == UsedAnnotations(hit, na, nd)
           UD == UsedDetections(hit, na, nd)
<1>1. UA \subseteq A /\ UD \subseteq D /\ (UA # {} => UD # {}) /\ 1 \in A
  <2>1. UA \subseteq A /\ UD \subseteq D
    BY DEF UsedAnnotations, UsedDetections
  <2>2. ASSUME NEW a \in UA PROVE UD # {}
    <3>1. a \in A /\ \E d \in D : <<a, d>> \in hit
      BY DEF UsedAnnotations
    <3>2. PICK d \in D : <<a, d>> \in hit
      BY <3>1
    <3>3. d \in UD
      BY <3>1, <3>2 DEF UsedDetections
    <3> QED BY <3>3
  <2>3. 1 \in A
    OBVIOUS
  <2> QED BY <2>1, <2>2, <2>3
<1>2. IsFiniteSet(A) /\ IsFiniteSet(D) /\ Cardinality(D) = nd
  BY FS_Interval
<1>3. /\ WindowCounts(hit, na, nd).TP = Cardinality(UD)
      /\ WindowCounts(hit, na, nd).FN = Cardinality(A \ UA)
      /\ WindowCounts(hit, na, nd).FP = Cardinality(D \ UD)
  BY DEF WindowCounts
<1> HIDE DEF A, D, UA, UD
<1>4. /\ IsFiniteSet(UD) /\ Cardinality(UD) \in Nat /\ Cardinality(D \ UD) \in Nat
      /\ Cardinality(UD) + Cardinality(D \ UD) = nd
  BY <1>1, <1>2, ComplementSize
<1>5. IsFiniteSet(A \ UA) /\ Cardinality(A \ UA) \in Nat
  BY <1>1, <1>2, ComplementSize
<1>6. Cardinality(UD) # 0 \/ Cardinality(A \ UA) # 0
  <2>1. UD # {} \/ A \ UA # {}
    BY <1>1
  <2> QED BY <1>4, <1>5, <2>1, FS_EmptySet
<1> QED BY <1>3, <1>4, <1>5, <1>6

\* The counts of a list that a method saves: of the first, a row, one window.
CountsBy(m, img, list) ==
  CompareFirst(img.signs, Len(img.signs), list, IF m = 1 THEN 1 ELSE Len(list))

LEMMA ListCounted ==
  ASSUME NEW m \in {1, 2}, NEW img, Len(img.signs) \in Nat \ {0}, NEW list \in Seq(Window)
  PROVE  LET c == CountsBy(m, img, list)
         IN /\ c.TP \in Nat /\ c.FP \in Nat /\ c.FN \in Nat /\ c.TP + c.FN > 0
            /\ c.TP + c.FP = IF m = 1 THEN 1 ELSE Len(list)
<1>1. PICK na \in Nat \ {0}, nd \in Nat :
        na = Len(img.signs) /\ nd = IF m = 1 THEN 1 ELSE Len(list)
  OBVIOUS
<1>2. PICK hit : CountsBy(m, img, list) = WindowCounts(hit, na, nd)
  BY <1>1 DEF CountsBy, CompareFirst
<1> QED BY <1>1, <1>2, WindowsMatched

-----------------------------------------------------------------------------
(* CandidateGeneration4: what holds in every state.                        *)

\* How many images a method has saved.
SavedSoFar(m) == IF m = method THEN i - 1 ELSE IF m < method THEN Len(files) ELSE 0

LoopsOK ==
  /\ files \in Files /\ method \in 1 .. 3 /\ i \in 1 .. Len(files) + 1
  /\ pc # "done" => method \in {1, 2}
  /\ pc \in {"compare", "save"} => i <= Len(files)

\* The image in hand: after the filter, and before it is saved.
ImageOK ==
  /\ pc = "compare" =>
       /\ method = 2
       /\ windowCandidates = [list |-> Filtered(files[i]), row |-> TRUE]
       /\ im_seg = files[i].on \cap Covered(Filtered(files[i]))
  /\ pc = "save" =>
       /\ SavedBy(method, files[i], [mask |-> im_seg, windows |-> windowCandidates.list])
       /\ windowCandidates.row <=> method = 1

SavesOK ==
  /\ saved = <<saved[1], saved[2]>>
  /\ \A m \in {1, 2} :
       /\ saved[m] \in Seq(SavedRecord) /\ Len(saved[m]) = SavedSoFar(m)
       /\ \A k \in 1 .. SavedSoFar(m) : SavedBy(m, files[k], saved[m][k])

\* The tables, allocated once, hold the figures of the images the method has
\* saved.
TablesOK ==
  /\ evaluation = [k \in 1 .. Len(files) |-> evaluation[k]]
  /\ windows = [k \in 1 .. Len(files) |-> windows[k]]
  /\ \A k \in 1 .. i - 1 :
       /\ evaluation[k] = PixelCounts(saved[method][k].mask, files[k].gt)
       /\ windows[k] = CountsBy(method, files[k], saved[method][k].windows)

\* The line of a method, computed from what it saved.
LineOf(m, fs, list) ==
  [pixel |-> [k \in 1 .. Len(fs) |-> PixelCounts(list[k].mask, fs[k].gt)],
   window |-> Totals([k \in 1 .. Len(fs) |-> CountsBy(m, fs[k], list[k].windows)])]
ReportsOK == reports = [m \in 1 .. method - 1 |-> LineOf(m, files, saved[m])]

GenerationOK == LoopsOK /\ ImageOK /\ SavesOK /\ TablesOK /\ ReportsOK

LEMMA FilesAreImages ==
  ASSUME NEW fs \in Files, NEW k \in 1 .. Len(fs)
  PROVE  IsImage(fs[k])
BY FileFacts DEF IsImage

LEMMA GenerationStarts == GenerationInit => GenerationOK
<1> SUFFICES ASSUME GenerationInit PROVE GenerationOK
  OBVIOUS
<1>1. /\ files \in Files /\ method = 1 /\ i = 1 /\ pc = "filter"
      /\ evaluation = [k \in DOMAIN files |-> NoCounts]
      /\ windows = [k \in DOMAIN files |-> NoCounts]
      /\ saved = <<<<>>, <<>>>> /\ reports = <<>>
  BY DEF GenerationInit
<1>2. PICK fs \in Files : fs = files
  BY <1>1
<1>3. 1 \in 1 .. Len(fs) + 1 /\ DOMAIN fs = 1 .. Len(fs)
  <2>1. fs \in Seq([w : Nat, h : Nat, on : SUBSET (Nat \X Nat), gt : SUBSET (Nat \X Nat),
                    signs : Seq(Window)])
    BY FilesAssumption
  <2> QED BY <2>1
<1>4. LoopsOK
  BY <1>1, <1>2, <1>3 DEF LoopsOK
<1>5. ImageOK
  BY <1>1 DEF ImageOK
<1>6. SavesOK
  <2>1. << >> \in Seq(SavedRecord) /\ Len(<< >>) = 0 /\ 1 .. 0 = {}
    OBVIOUS
  <2>2. SavedSoFar(1) = 0 /\ SavedSoFar(2) = 0
    BY <1>1 DEF SavedSoFar
  <2>3. saved[1] = << >> /\ saved[2] = << >>
    BY <1>1
  <2> QED BY <1>1, <2>1, <2>2, <2>3 DEF SavesOK
<1>7. TablesOK
  <2>1. 1 .. i - 1 = {}
    BY <1>1
  <2>2. DOMAIN files = 1 .. Len(files)
    BY <1>2, <1>3
  <2> QED BY <1>1, <2>1, <2>2 DEF TablesOK
<1>8. ReportsOK
  <2>1. 1 .. method - 1 = {}
    BY <1>1
  <2> QED BY <1>1, <2>1 DEF ReportsOK
<1> QED BY <1>4, <1>5, <1>6, <1>7, <1>8 DEF GenerationOK

\* Saves, tables and lines depend on the loops and on themselves.
LEMMA SavesKept ==
  ASSUME GenerationOK, files' = files, method' = method, i' = i,
         evaluation' = evaluation, windows' = windows, saved' = saved, reports' = reports
  PROVE  SavesOK' /\ TablesOK' /\ ReportsOK'
<1>1. \A m : SavedSoFar(m)' = SavedSoFar(m)
  BY DEF SavedSoFar
<1>2. SavesOK'
  BY <1>1 DEF GenerationOK, SavesOK
<1>3. TablesOK'
  BY DEF GenerationOK, TablesOK
<1>4. ReportsOK'
  BY DEF GenerationOK, ReportsOK
<1> QED BY <1>2, <1>3, <1>4

LEMMA FilterKeeps ==
  ASSUME GenerationOK, FilterWindows
  PROVE  GenerationOK'
<1>1. /\ pc = "filter" /\ i <= Len(files)
      /\ windowCandidates' = [list |-> Filtered(files[i]), row |-> TRUE]
      /\ im_seg' = files[i].on \cap Covered(Filtered(files[i]))
      /\ pc' = IF method = 2 THEN "compare" ELSE "save"
      /\ files' = files /\ method' = method /\ i' = i /\ evaluation' = evaluation
      /\ windows' = windows /\ saved' = saved /\ reports' = reports
  BY DEF FilterWindows
<1>2. SavesOK' /\ TablesOK' /\ ReportsOK'
  BY <1>1, SavesKept
<1>3. LoopsOK /\ method \in {1, 2}
  BY <1>1 DEF GenerationOK, LoopsOK
<1>4. LoopsOK'
  BY <1>1, <1>3 DEF LoopsOK
<1>5. ImageOK'
  <2>1. CASE method = 2
    BY <1>1, <2>1 DEF ImageOK
  <2>2. CASE method = 1
    <3>1. windowCandidates'.list = Filtered(files[i]) /\ windowCandidates'.row = TRUE
      BY <1>1
    <3>2. SavedBy(method', files'[i'], [mask |-> im_seg', windows |-> windowCandidates'.list])
      BY <1>1, <2>2, <3>1 DEF SavedBy
    <3> QED BY <1>1, <2>2, <3>1, <3>2 DEF ImageOK
  <2> QED BY <1>3, <2>1, <2>2
<1> QED BY <1>2, <1>4, <1>5 DEF GenerationOK

LEMMA CompareKeeps ==
  ASSUME GenerationOK, CompareWindows
  PROVE  GenerationOK'
<1> DEFINE cands(match) == [list |-> Those(windowCandidates.list, match), row |-> FALSE]
<1>1. PICK match \in SUBSET Matchable(windowCandidates) :
        /\ windowCandidates' = cands(match)
        /\ im_seg' = im_seg \cap Covered(SubSeq(cands(match).list, 1, Columns(cands(match))))
  BY DEF CompareWindows
<1>2. /\ pc = "compare" /\ pc' = "save"
      /\ files' = files /\ method' = method /\ i' = i /\ evaluation' = evaluation
      /\ windows' = windows /\ saved' = saved /\ reports' = reports
  BY DEF CompareWindows
<1>3. SavesOK' /\ TablesOK' /\ ReportsOK'
  BY <1>2, SavesKept
<1>4. LoopsOK'
  BY <1>2 DEF GenerationOK, LoopsOK
<1>5. ImageOK'
  <2>1. PICK img, F : img = files[i] /\ F = Filtered(files[i])
    OBVIOUS
  <2>2. /\ method = 2 /\ windowCandidates = [list |-> F, row |-> TRUE]
        /\ im_seg = img.on \cap Covered(F)
    BY <1>2, <2>1 DEF GenerationOK, ImageOK
  <2>3. match \in SUBSET Matchable([list |-> F, row |-> TRUE])
    BY <1>1, <2>2
  <2>4. PICK list : list = Those(F, match)
    OBVIOUS
  <2>5. cands(match).list = list /\ cands(match).row = FALSE
    BY <1>1, <2>2, <2>4
  <2> HIDE DEF cands
  <2>6. Columns(cands(match)) = Smaller(1, Len(list))
    BY <2>5 DEF Columns
  <2>7. [mask |-> im_seg', windows |-> windowCandidates'.list] = Compared(img, F, match)
    BY <1>1, <2>2, <2>4, <2>5, <2>6 DEF Compared
  <2>8. SavedBy(2, img, [mask |-> im_seg', windows |-> windowCandidates'.list])
    <3>1. SavedBy(2, img, [mask |-> im_seg', windows |-> windowCandidates'.list]) <=>
            \E choice \in SUBSET Matchable([list |-> Filtered(img), row |-> TRUE]) :
              [mask |-> im_seg', windows |-> windowCandidates'.list]
                = Compared(img, Filtered(img), choice)
      BY DEF SavedBy
    <3> QED BY <2>1, <2>3, <2>7, <3>1
  <2>9. windowCandidates'.row = FALSE
    BY <1>1, <2>5
  <2> QED BY <1>2, <2>1, <2>2, <2>8, <2>9 DEF ImageOK
<1> QED BY <1>3, <1>4, <1>5 DEF GenerationOK
LEMMA AppendSaved ==
  ASSUME NEW S, NEW s \in Seq(S), NEW e \in S
  PROVE  /\ Append(s, e) \in Seq(S) /\ Len(Append(s, e)) = Len(s) + 1
         /\ \A k \in 1 .. Len(s) : Append(s, e)[k] = s[k]
         /\ Append(s, e)[Len(s) + 1] = e
OBVIOUS

LEMMA SaveKeeps ==
  ASSUME GenerationOK, SaveAndEvaluate
  PROVE  GenerationOK'
<1> DEFINE r == [mask |-> im_seg, windows |-> windowCandidates.list]
<1>1. /\ pc = "save" /\ pc' = "filter" /\ i' = i + 1
      /\ files' = files /\ method' = method /\ reports' = reports
      /\ saved' = [saved EXCEPT ![method] = Append(@, r)]
      /\ evaluation' = [evaluation EXCEPT ![i] = PixelCounts(im_seg, files[i].gt)]
      /\ windows' = [windows EXCEPT ![i] =
                       CompareFirst(files[i].signs, Len(files[i].signs),
                                    windowCandidates.list, Rows(windowCandidates))]
  BY DEF SaveAndEvaluate, Entered
<1>2. files \in Files /\ method \in {1, 2} /\ i \in 1 .. Len(files)
  BY <1>1, FileFacts DEF GenerationOK, LoopsOK
<1>3. PICK n \in Nat \ {0}, j \in Nat \ {0}, me \in {1, 2} :
        n = Len(files) /\ j = i /\ me = method /\ j <= n
  BY <1>2, FileFacts
<1>4. SavedBy(me, files[j], r) /\ (windowCandidates.row <=> me = 1)
  BY <1>1, <1>3 DEF GenerationOK, ImageOK
<1>5. r \in SavedRecord
  <2>1. PICK img : img = files[j] /\ IsImage(img)
    BY <1>2, <1>3, FilesAreImages
  <2> HIDE DEF r
  <2> QED BY <1>4, <2>1, SavedIs
<1>6. r.mask = im_seg /\ r.windows = windowCandidates.list
  OBVIOUS
<1>7. CompareFirst(files[i].signs, Len(files[i].signs), windowCandidates.list, Rows(windowCandidates))
        = CountsBy(me, files[j], r.windows)
  <2>1. Rows(windowCandidates) = IF me = 1 THEN 1 ELSE Len(windowCandidates.list)
    BY <1>4 DEF Rows
  <2> QED BY <1>3, <1>6, <2>1 DEF CountsBy
<1> HIDE DEF r
<1>8. PICK s1 \in Seq(SavedRecord), s2 \in Seq(SavedRecord) :
        /\ saved = <<s1, s2>> /\ saved[1] = s1 /\ saved[2] = s2
        /\ Len(s1) = SavedSoFar(1) /\ Len(s2) = SavedSoFar(2)
        /\ \A k \in 1 .. SavedSoFar(1) : SavedBy(1, files[k], s1[k])
        /\ \A k \in 1 .. SavedSoFar(2) : SavedBy(2, files[k], s2[k])
  BY DEF GenerationOK, SavesOK
<1>9. PICK s \in Seq(SavedRecord), t \in Seq(SavedRecord) :
        /\ s = saved[me] /\ Len(s) = j - 1 /\ t = Append(s, r)
        /\ \A k \in 1 .. j - 1 : SavedBy(me, files[k], s[k])
  <2>1. SavedSoFar(me) = j - 1
    BY <1>3 DEF SavedSoFar
  <2>2. PICK s \in Seq(SavedRecord) :
          s = saved[me] /\ Len(s) = j - 1 /\ \A k \in 1 .. j - 1 : SavedBy(me, files[k], s[k])
    BY <1>8, <2>1
  <2>3. Append(s, r) \in Seq(SavedRecord)
    BY <1>5
  <2> QED BY <2>2, <2>3
<1>10. Len(t) = j /\ (\A k \in 1 .. j - 1 : t[k] = s[k]) /\ t[j] = r
  BY <1>3, <1>5, <1>9, AppendSaved
<1>11. \A k \in 1 .. j : SavedBy(me, files[k], t[k])
  <2> TAKE k \in 1 .. j
  <2>1. k = j \/ k \in 1 .. j - 1
    BY <1>3
  <2> QED BY <1>4, <1>9, <1>10, <2>1
<1>12. /\ SavedSoFar(me)' = j
       /\ \A m \in {1, 2} : m # me => SavedSoFar(m)' = SavedSoFar(m)
  BY <1>1, <1>3 DEF SavedSoFar
<1>13. saved'[me] = t /\ \A m \in {1, 2} : m # me => saved'[m] = saved[m]
  BY <1>1, <1>3, <1>8, <1>9
<1>14. saved' = <<saved'[1], saved'[2]>>
  <2>1. DOMAIN saved = 1 .. 2
    BY <1>8
  <2>2. saved' = [m \in 1 .. 2 |-> saved'[m]]
    BY <1>1, <2>1
  <2> QED BY <2>2
<1>15. SavesOK'
  <2>1. ASSUME NEW m \in {1, 2}, m = me
        PROVE  /\ saved'[m] \in Seq(SavedRecord) /\ Len(saved'[m]) = SavedSoFar(m)'
               /\ \A k \in 1 .. SavedSoFar(m)' : SavedBy(m, files'[k], saved'[m][k])
    BY <1>1, <1>9, <1>10, <1>11, <1>12, <1>13, <2>1
  <2>2. ASSUME NEW m \in {1, 2}, m # me
        PROVE  /\ saved'[m] \in Seq(SavedRecord) /\ Len(saved'[m]) = SavedSoFar(m)'
               /\ \A k \in 1 .. SavedSoFar(m)' : SavedBy(m, files'[k], saved'[m][k])
    <3>1. /\ saved[m] \in Seq(SavedRecord) /\ Len(saved[m]) = SavedSoFar(m)
          /\ \A k \in 1 .. SavedSoFar(m) : SavedBy(m, files[k], saved[m][k])
      BY DEF GenerationOK, SavesOK
    <3> QED BY <1>1, <1>12, <1>13, <2>2, <3>1
  <2> QED BY <1>14, <2>1, <2>2 DEF SavesOK
<1>16. TablesOK'
  <2>1. /\ evaluation = [k \in 1 .. n |-> evaluation[k]]
        /\ windows = [k \in 1 .. n |-> windows[k]]
        /\ \A k \in 1 .. j - 1 :
             /\ evaluation[k] = PixelCounts(s[k].mask, files[k].gt)
             /\ windows[k] = CountsBy(me, files[k], s[k].windows)
    BY <1>3, <1>9 DEF GenerationOK, TablesOK
  <2>2. /\ evaluation' = [evaluation EXCEPT ![j] = PixelCounts(r.mask, files[j].gt)]
        /\ windows' = [windows EXCEPT ![j] = CountsBy(me, files[j], r.windows)]
    BY <1>1, <1>3, <1>6, <1>7
  <2>3. /\ evaluation' = [k \in 1 .. n |-> evaluation'[k]]
        /\ windows' = [k \in 1 .. n |-> windows'[k]]
    BY <2>1, <2>2
  <2>4. j \in 1 .. n
    BY <1>3
  <2>5. /\ evaluation'[j] = PixelCounts(r.mask, files[j].gt)
        /\ windows'[j] = CountsBy(me, files[j], r.windows)
        /\ \A k \in 1 .. n : k # j => evaluation'[k] = evaluation[k] /\ windows'[k] = windows[k]
    BY <2>1, <2>2, <2>4
  <2>6. \A k \in 1 .. j :
          /\ evaluation'[k] = PixelCounts(t[k].mask, files[k].gt)
          /\ windows'[k] = CountsBy(me, files[k], t[k].windows)
    <3> TAKE k \in 1 .. j
    <3>1. k = j \/ (k \in 1 .. j - 1 /\ k \in 1 .. n /\ k # j)
      BY <1>3
    <3> QED BY <1>10, <2>1, <2>5, <3>1
  <2>7. i' - 1 = j /\ method' = me /\ files' = files /\ Len(files') = n
    BY <1>1, <1>3
  <2> QED BY <1>13, <2>3, <2>6, <2>7 DEF TablesOK
<1>17. ReportsOK'
  <2>1. \A m \in 1 .. me - 1 : m \in {1, 2} /\ m # me
    BY <1>3
  <2>2. \A m \in 1 .. me - 1 : saved'[m] = saved[m]
    BY <1>13, <2>1
  <2>3. reports = [m \in 1 .. me - 1 |-> LineOf(m, files, saved[m])]
    BY <1>3 DEF GenerationOK, ReportsOK
  <2> QED BY <1>1, <1>3, <2>2, <2>3 DEF ReportsOK
<1>18. LoopsOK'
  <2>1. i' \in 1 .. Len(files) + 1
    BY <1>1, <1>3
  <2> QED BY <1>1, <1>2, <2>1 DEF LoopsOK
<1>19. ImageOK'
  BY <1>1 DEF ImageOK
<1> QED BY <1>15, <1>16, <1>17, <1>18, <1>19 DEF GenerationOK

LEMMA AppendLine ==
  ASSUME NEW n \in Nat, NEW f, f = [m \in 1 .. n |-> f[m]], NEW x
  PROVE  Append(f, x) = [m \in 1 .. n + 1 |-> IF m = n + 1 THEN x ELSE f[m]]
<1> DEFINE S == {f[m] : m \in 1 .. n} \cup {x}
           g == [m \in 1 .. n + 1 |-> IF m = n + 1 THEN x ELSE f[m]]
<1>1. f \in Seq(S) /\ Len(f) = n /\ x \in S
  <2>1. \A m \in 1 .. n : f[m] \in S
    OBVIOUS
  <2>2. x \in S
    OBVIOUS
  <2> HIDE DEF S
  <2> QED BY <2>1, <2>2
<1>2. g \in Seq(S) /\ Len(g) = n + 1
  <2>1. \A m \in 1 .. n + 1 : g[m] \in S
    <3> TAKE m \in 1 .. n + 1
    <3>1. m = n + 1 \/ m \in 1 .. n
      OBVIOUS
    <3> QED BY <3>1
  <2>2. g = [m \in 1 .. n + 1 |-> g[m]]
    OBVIOUS
  <2> HIDE DEF S, g
  <2>3. n + 1 \in Nat
    OBVIOUS
  <2> QED BY <2>1, <2>2, <2>3
<1> HIDE DEF S
<1>3. /\ Append(f, x) \in Seq(S) /\ Len(Append(f, x)) = n + 1
      /\ \A m \in 1 .. n : Append(f, x)[m] = f[m]
      /\ Append(f, x)[n + 1] = x
  BY <1>1, AppendSaved
<1>4. \A m \in 1 .. n + 1 : Append(f, x)[m] = g[m]
  <2> TAKE m \in 1 .. n + 1
  <2>1. m = n + 1 \/ (m \in 1 .. n /\ m # n + 1)
    OBVIOUS
  <2> QED BY <1>3, <2>1
<1> HIDE DEF g
<1>5. Append(f, x) = g
  BY <1>2, <1>3, <1>4, SeqEqual
<1> QED BY <1>5 DEF g

LEMMA ReportKeeps ==
  ASSUME GenerationOK, ReportMethod
  PROVE  GenerationOK'
<1>1. /\ pc = "filter" /\ i > Len(files)
      /\ files' = files /\ im_seg' = im_seg /\ windowCandidates' = windowCandidates
      /\ evaluation' = evaluation /\ windows' = windows /\ saved' = saved
  BY DEF ReportMethod
<1>2. files \in Files /\ method \in {1, 2} /\ i \in 1 .. Len(files) + 1
  BY <1>1 DEF GenerationOK, LoopsOK
<1>3. PICK n \in Nat \ {0}, me \in {1, 2} : n = Len(files) /\ me = method /\ i = n + 1
  <2>1. PICK n \in Nat \ {0}, fs \in Files : fs = files /\ n = Len(fs)
    <3>1. PICK fs \in Files : fs = files
      BY <1>2
    <3>2. fs \in Seq([w : Nat, h : Nat, on : SUBSET (Nat \X Nat), gt : SUBSET (Nat \X Nat),
                      signs : Seq(Window)]) /\ Len(fs) >= 1
      BY FilesAssumption
    <3>3. Len(fs) \in Nat \ {0}
      BY <3>2
    <3> QED BY <3>1, <3>3
  <2>2. i \in 1 .. n + 1 /\ i > n
    BY <1>1, <1>2, <2>1
  <2> QED BY <1>2, <2>1, <2>2
<1>4. CASE ~ MeanIsRow(evaluation)
  <2>1. pc' = "error" /\ method' = method /\ i' = i /\ reports' = reports
    BY <1>4 DEF ReportMethod
  <2>2. SavesOK' /\ TablesOK' /\ ReportsOK'
    BY <1>1, <2>1, SavesKept
  <2>3. LoopsOK' /\ ImageOK'
    BY <1>1, <1>2, <2>1 DEF LoopsOK, ImageOK
  <2> QED BY <2>2, <2>3 DEF GenerationOK
<1>5. CASE MeanIsRow(evaluation)
  <2>1. /\ reports' = Append(reports, [pixel |-> evaluation, window |-> Totals(windows)])
        /\ method' = me + 1 /\ i' = 1
        /\ pc' = IF me = 2 THEN "done" ELSE "filter"
    BY <1>3, <1>5 DEF ReportMethod
  <2>2. \A m \in {1, 2} : SavedSoFar(m)' = SavedSoFar(m)
    BY <1>1, <1>3, <2>1 DEF SavedSoFar
  <2>3. SavesOK'
    <3>1. saved = <<saved[1], saved[2]>>
          /\ \A m \in {1, 2} :
               /\ saved[m] \in Seq(SavedRecord) /\ Len(saved[m]) = SavedSoFar(m)
               /\ \A k \in 1 .. SavedSoFar(m) : SavedBy(m, files[k], saved[m][k])
      BY DEF GenerationOK, SavesOK
    <3> QED BY <1>1, <2>2, <3>1 DEF SavesOK
  <2>4. TablesOK'
    <3>1. 1 .. i' - 1 = {}
      BY <2>1
    <3> QED BY <1>1, <3>1 DEF GenerationOK, TablesOK
  <2>5. LoopsOK'
    <3>1. i' \in 1 .. Len(files) + 1
      BY <1>3, <2>1
    <3>2. method' \in 1 .. 3 /\ (pc' # "done" => method' \in {1, 2})
          /\ pc' \notin {"compare", "save"}
      BY <1>3, <2>1
    <3> QED BY <1>1, <1>2, <3>1, <3>2 DEF LoopsOK
  <2>6. ImageOK'
    BY <2>1 DEF ImageOK
  <2>7. [pixel |-> evaluation, window |-> Totals(windows)] = LineOf(me, files, saved[me])
    <3>1. /\ evaluation = [k \in 1 .. n |-> evaluation[k]]
          /\ windows = [k \in 1 .. n |-> windows[k]]
          /\ \A k \in 1 .. n :
               /\ evaluation[k] = PixelCounts(saved[me][k].mask, files[k].gt)
               /\ windows[k] = CountsBy(me, files[k], saved[me][k].windows)
      BY <1>3 DEF GenerationOK, TablesOK
    <3>2. evaluation = [k \in 1 .. n |-> PixelCounts(saved[me][k].mask, files[k].gt)]
      BY <3>1
    <3>3. windows = [k \in 1 .. n |-> CountsBy(me, files[k], saved[me][k].windows)]
      BY <3>1
    <3> QED BY <1>3, <3>2, <3>3 DEF LineOf
  <2>8. ReportsOK'
    <3> DEFINE line == LineOf(me, files, saved[me])
    <3>1. PICK f : f = reports /\ f = [m \in 1 .. me - 1 |-> LineOf(m, files, saved[m])]
      BY <1>3 DEF GenerationOK, ReportsOK
    <3>2. PICK n1 \in Nat : n1 = me - 1 /\ n1 + 1 = me /\ method' - 1 = me
      BY <1>3, <2>1
    <3>3. f = [m \in 1 .. n1 |-> f[m]]
      BY <3>1, <3>2
    <3>4. reports' = [m \in 1 .. n1 + 1 |-> IF m = n1 + 1 THEN line ELSE f[m]]
      <4> HIDE DEF line
      <4>1. reports' = Append(f, line)
        BY <2>1, <2>7, <3>1 DEF line
      <4> QED BY <3>3, <4>1, AppendLine
    <3>5. \A m \in 1 .. me : (IF m = me THEN line ELSE f[m]) = LineOf(m, files, saved[m])
      <4> TAKE m \in 1 .. me
      <4>1. m = me \/ (m # me /\ m \in 1 .. me - 1)
        BY <1>3
      <4> QED BY <3>1, <4>1
    <3>6. reports' = [m \in 1 .. me |-> LineOf(m, files, saved[m])]
      BY <3>2, <3>4, <3>5
    <3> QED BY <1>1, <3>2, <3>6 DEF ReportsOK
  <2> QED BY <2>3, <2>4, <2>5, <2>6, <2>8 DEF GenerationOK
<1> QED BY <1>4, <1>5

LEMMA GenerationInvariant == GenerationSpec => []GenerationOK
<1>1. GenerationOK /\ [GenerationNext]_generationVars => GenerationOK'
  <2> SUFFICES ASSUME GenerationOK, [GenerationNext]_generationVars PROVE GenerationOK'
    OBVIOUS
  <2>1. CASE UNCHANGED generationVars
    <3>1. /\ files' = files /\ method' = method /\ i' = i /\ evaluation' = evaluation
          /\ windows' = windows /\ saved' = saved /\ reports' = reports
          /\ im_seg' = im_seg /\ windowCandidates' = windowCandidates /\ pc' = pc
      BY <2>1 DEF generationVars
    <3>2. SavesOK' /\ TablesOK' /\ ReportsOK'
      BY <3>1, SavesKept
    <3>3. LoopsOK' /\ ImageOK'
      BY <3>1 DEF GenerationOK, LoopsOK, ImageOK
    <3> QED BY <3>2, <3>3 DEF GenerationOK
  <2> QED BY <2>1, FilterKeeps, CompareKeeps, SaveKeeps, ReportKeeps DEF GenerationNext
<1> QED BY GenerationStarts, <1>1, PTL DEF GenerationSpec
-----------------------------------------------------------------------------
(* What CandidateGeneration4 promises.                                     *)

\* The images that a method has saved.
LEMMA SavedImages ==
  ASSUME GenerationOK, NEW m \in {1, 2}
  PROVE  /\ DOMAIN saved[m] = 1 .. SavedSoFar(m)
         /\ DOMAIN files = 1 .. Len(files) /\ Len(files) \in Nat \ {0}
         /\ m < method => SavedSoFar(m) = Len(files)
         /\ \A k \in DOMAIN saved[m] :
              /\ k \in 1 .. Len(files) /\ IsImage(files[k])
              /\ SavedBy(m, files[k], saved[m][k])
<1>1. PICK fs \in Files : fs = files
  BY DEF GenerationOK, LoopsOK
<1>2. PICK n \in Nat \ {0} : n = Len(fs) /\ DOMAIN fs = 1 .. n
  <2>1. fs \in Seq([w : Nat, h : Nat, on : SUBSET (Nat \X Nat), gt : SUBSET (Nat \X Nat),
                    signs : Seq(Window)]) /\ Len(fs) >= 1
    BY FilesAssumption
  <2> QED BY <2>1
<1>3. PICK me \in 1 .. 3, j \in 1 .. n + 1 : me = method /\ j = i
  BY <1>1, <1>2 DEF GenerationOK, LoopsOK
<1>4. PICK c \in 0 .. n : c = SavedSoFar(m) /\ (m < me => c = n)
  BY <1>1, <1>2, <1>3 DEF SavedSoFar
<1>5. saved[m] \in Seq(SavedRecord) /\ Len(saved[m]) = c
      /\ \A k \in 1 .. c : SavedBy(m, files[k], saved[m][k])
  BY <1>4 DEF GenerationOK, SavesOK
<1>6. DOMAIN saved[m] = 1 .. c
  BY <1>5
<1>7. \A k \in 1 .. c : k \in 1 .. n /\ IsImage(fs[k])
  BY <1>2, FilesAreImages
<1> QED BY <1>1, <1>2, <1>3, <1>4, <1>5, <1>6, <1>7

\* For every list of images and every outcome of the comparison with templates,
\* the second method saves part of what the first saved, and never the window
\* that stands for none.
THEOREM ComparisonOnlyRemovesCorrect == GenerationSpec => []ComparisonOnlyRemoves
<1>1. GenerationOK => ComparisonOnlyRemoves
  <2> SUFFICES ASSUME GenerationOK, NEW k \in DOMAIN saved[2]
               PROVE  /\ Range(saved[2][k].windows) \subseteq Range(saved[1][k].windows) \ {Sentinel}
                      /\ saved[2][k].mask \subseteq saved[1][k].mask
                      /\ saved[2][k].mask = {} <=> saved[2][k].windows = <<>>
    BY DEF ComparisonOnlyRemoves
  <2>1. k \in 1 .. Len(files) /\ IsImage(files[k]) /\ SavedBy(2, files[k], saved[2][k])
    BY SavedImages
  <2>2. 1 < method
    <3>1. k \in 1 .. SavedSoFar(2)
      BY SavedImages
    <3>2. method \in 1 .. 3
      BY DEF GenerationOK, LoopsOK
    <3> QED BY <3>1, <3>2 DEF SavedSoFar
  <2>3. k \in DOMAIN saved[1]
    BY <2>1, <2>2, SavedImages
  <2>4. SavedBy(1, files[k], saved[1][k])
    BY <2>3, SavedImages
  <2>5. PICK img, q, r : img = files[k] /\ q = saved[1][k] /\ r = saved[2][k]
    OBVIOUS
  <2>6. IsImage(img) /\ SavedBy(1, img, q) /\ SavedBy(2, img, r)
    BY <2>1, <2>4, <2>5
  <2>7. /\ Range(r.windows) \subseteq Range(q.windows) \ {Sentinel}
        /\ r.mask \subseteq q.mask
        /\ r.mask = {} <=> r.windows = << >>
    BY <2>6, SecondKeepsPart
  <2> QED BY <2>5, <2>7
<1> QED BY GenerationInvariant, <1>1, PTL

\* What a line is computed from.
LEMMA LinesComputed ==
  ASSUME GenerationOK, NEW m \in DOMAIN reports
  PROVE  /\ m \in {1, 2} /\ m < method
         /\ reports[m] = LineOf(m, files, saved[m])
<1>1. method \in 1 .. 3
  BY DEF GenerationOK, LoopsOK
<1>2. reports = [l \in 1 .. method - 1 |-> LineOf(l, files, saved[l])]
  BY DEF GenerationOK, ReportsOK
<1>3. m \in 1 .. method - 1
  BY <1>2
<1> QED BY <1>1, <1>2, <1>3

\* The tables are never cleared between the methods, and still each line is
\* computed from what its own method saved.
THEOREM FiguresOfOwnMethodCorrect == GenerationSpec => []FiguresOfOwnMethod
<1>1. GenerationOK => FiguresOfOwnMethod
  <2> SUFFICES ASSUME GenerationOK, NEW m \in DOMAIN reports, NEW k \in DOMAIN files
               PROVE  reports[m].pixel[k] = PixelCounts(saved[m][k].mask, files[k].gt)
    BY DEF FiguresOfOwnMethod
  <2>1. DOMAIN files = 1 .. Len(files)
    BY SavedImages
  <2>2. reports[m].pixel = [l \in 1 .. Len(files) |-> PixelCounts(saved[m][l].mask, files[l].gt)]
    <3>1. reports[m] = LineOf(m, files, saved[m])
      BY LinesComputed
    <3> QED BY <3>1 DEF LineOf
  <2> QED BY <2>1, <2>2
<1> QED BY GenerationInvariant, <1>1, PTL

\* The columns of a table are summed up.
LEMMA SumIsTotal == \A column : SumOf(column) = Total(column, DOMAIN column)
BY DEF SumOf, MapThenSumSet, MapThenFoldSet, Total, Solves, SumStep, OneOf

LEMMA TableTotals ==
  ASSUME NEW n \in Nat \ {0}, NEW T,
         \A k \in 1 .. n : /\ T[k].TP \in Nat /\ T[k].FP \in Nat /\ T[k].FN \in Nat
                           /\ T[k].TP + T[k].FN > 0
  PROVE  LET c == Totals([k \in 1 .. n |-> T[k]])
         IN /\ c.TP \in Nat /\ c.FP \in Nat /\ c.FN \in Nat /\ c.TP + c.FN > 0
            /\ c.TP + c.FP = Total([k \in 1 .. n |-> T[k].TP + T[k].FP], 1 .. n)
<1> DEFINE D == 1 .. n
           tp == [k \in D |-> T[k].TP]
           fp == [k \in D |-> T[k].FP]
           fn == [k \in D |-> T[k].FN]
           both == [k \in D |-> T[k].TP + T[k].FP]
           all == [k \in D |-> T[k].TP + T[k].FN]
           c == Totals([k \in D |-> T[k]])
<1>1. c.TP = SumOf(tp) /\ c.FP = SumOf(fp) /\ c.FN = SumOf(fn)
  <2>1. /\ [k \in D |-> [l \in D |-> T[l]][k].TP] = tp
        /\ [k \in D |-> [l \in D |-> T[l]][k].FP] = fp
        /\ [k \in D |-> [l \in D |-> T[l]][k].FN] = fn
    OBVIOUS
  <2> QED BY <2>1 DEF Totals
<1>2. IsFiniteSet(D) /\ 1 \in D
  BY FS_Interval
<1>3. \A k \in D : /\ tp[k] \in Nat /\ fp[k] \in Nat /\ fn[k] \in Nat
                   /\ both[k] = tp[k] + fp[k] /\ all[k] = tp[k] + fn[k] /\ all[k] # 0
  OBVIOUS
<1>4. DOMAIN tp = D /\ DOMAIN fp = D /\ DOMAIN fn = D
  OBVIOUS
<1> HIDE DEF D, tp, fp, fn, both, all, c
<1>5. c.TP = Total(tp, D) /\ c.FP = Total(fp, D) /\ c.FN = Total(fn, D)
  BY <1>1, <1>4, SumIsTotal
<1>6. Total(tp, D) \in Nat /\ Total(fp, D) \in Nat /\ Total(fn, D) \in Nat
  BY <1>2, <1>3, TotalNat
<1>7. Total(both, D) = Total(tp, D) + Total(fp, D)
  BY <1>2, <1>3, TotalSum
<1>8. Total(all, D) = Total(tp, D) + Total(fn, D)
  BY <1>2, <1>3, TotalSum
<1>9. Total(all, D) # 0
  <2>1. \A k \in D : all[k] \in Nat
    BY <1>3
  <2> QED BY <1>2, <1>3, <2>1, TotalZero
<1>10. /\ c.TP \in Nat /\ c.FP \in Nat /\ c.FN \in Nat /\ c.TP + c.FN > 0
       /\ c.TP + c.FP = Total(both, D)
  BY <1>5, <1>6, <1>7, <1>8, <1>9
<1> QED BY <1>10 DEF D, both, c

\* The window counts of a line: something is annotated, and of the first method
\* one window is counted for each image, of the second all that were kept.
LEMMA LineCounts ==
  ASSUME GenerationOK, NEW m \in DOMAIN reports
  PROVE  LET c == reports[m].window
             sizes == [k \in DOMAIN saved[m] |-> Len(saved[m][k].windows)]
         IN /\ c.TP \in Nat /\ c.FP \in Nat /\ c.FN \in Nat /\ c.TP + c.FN > 0
            /\ c.TP + c.FP = IF m = 1 THEN Len(files) ELSE SumOf(sizes)
            /\ SumOf(sizes) = 0 <=> \A k \in DOMAIN files : saved[m][k].windows = << >>
<1> DEFINE c == reports[m].window
           sizes == [k \in DOMAIN saved[m] |-> Len(saved[m][k].windows)]
<1>1. m \in {1, 2} /\ m < method /\ reports[m] = LineOf(m, files, saved[m])
  BY LinesComputed
<1>2. PICK n \in Nat \ {0} : n = Len(files) /\ DOMAIN files = 1 .. n /\ DOMAIN saved[m] = 1 .. n
  BY <1>1, SavedImages
<1>3. PICK fs \in Files : fs = files
  BY DEF GenerationOK, LoopsOK
<1>4. ASSUME NEW k \in 1 .. n
      PROVE  saved[m][k].windows \in Seq(Window) /\ Len(fs[k].signs) \in Nat \ {0}
  <2>1. PICK r, img : r = saved[m][k] /\ img = files[k] /\ IsImage(img) /\ SavedBy(m, img, r)
    BY <1>1, <1>2, SavedImages
  <2>2. r \in SavedRecord
    BY <1>1, <2>1, SavedIs
  <2> QED BY <1>2, <1>3, <2>1, <2>2, FileFacts DEF SavedRecord
<1> DEFINE T == [k \in 1 .. n |-> CountsBy(m, fs[k], saved[m][k].windows)]
<1>5. \A k \in 1 .. n :
        /\ T[k].TP \in Nat /\ T[k].FP \in Nat /\ T[k].FN \in Nat /\ T[k].TP + T[k].FN > 0
        /\ T[k].TP + T[k].FP = IF m = 1 THEN 1 ELSE Len(saved[m][k].windows)
  <2> TAKE k \in 1 .. n
  <2>1. PICK list \in Seq(Window), img \in {fs[k]} :
          list = saved[m][k].windows /\ Len(img.signs) \in Nat \ {0}
    BY <1>4
  <2>2. PICK d : d = CountsBy(m, img, list)
    OBVIOUS
  <2>3. /\ d.TP \in Nat /\ d.FP \in Nat /\ d.FN \in Nat /\ d.TP + d.FN > 0
        /\ d.TP + d.FP = IF m = 1 THEN 1 ELSE Len(list)
    BY <1>1, <2>1, <2>2, ListCounted
  <2>4. T[k] = d
    BY <2>1, <2>2
  <2> HIDE DEF T
  <2> QED BY <2>1, <2>3, <2>4
<1>6. c = Totals([k \in 1 .. n |-> T[k]])
  <2>1. c = Totals([k \in 1 .. n |-> CountsBy(m, files[k], saved[m][k].windows)])
    BY <1>1, <1>2 DEF LineOf
  <2>2. [k \in 1 .. n |-> T[k]] = [k \in 1 .. n |-> CountsBy(m, files[k], saved[m][k].windows)]
    BY <1>3
  <2> QED BY <2>1, <2>2
<1> HIDE DEF c, T
<1> DEFINE both == [k \in 1 .. n |-> T[k].TP + T[k].FP]
<1>7. /\ c.TP \in Nat /\ c.FP \in Nat /\ c.FN \in Nat /\ c.TP + c.FN > 0
      /\ c.TP + c.FP = Total(both, 1 .. n)
  BY <1>5, <1>6, TableTotals
<1>8. IsFiniteSet(1 .. n) /\ Cardinality(1 .. n) = n
  BY FS_Interval
<1>9. m = 1 => Total(both, 1 .. n) = n
  <2>1. m = 1 => \A k \in 1 .. n : both[k] = 1
    BY <1>5
  <2> HIDE DEF both
  <2> QED BY <1>8, <2>1, TotalOnes
<1>10. SumOf(sizes) = Total(sizes, 1 .. n) /\ sizes = [k \in 1 .. n |-> Len(saved[m][k].windows)]
  BY <1>2, SumIsTotal
<1>11. m # 1 => both = sizes
  BY <1>5, <1>10
<1>12. \A k \in 1 .. n : sizes[k] \in Nat /\ (sizes[k] = 0 <=> saved[m][k].windows = << >>)
  <2> TAKE k \in 1 .. n
  <2>1. PICK list \in Seq(Window) : list = saved[m][k].windows
    BY <1>4
  <2>2. sizes[k] = Len(list)
    BY <1>10, <2>1
  <2> QED BY <2>1, <2>2
<1>13. SumOf(sizes) = 0 <=> \A k \in 1 .. n : saved[m][k].windows = << >>
  <2> HIDE DEF sizes
  <2>1. Total(sizes, 1 .. n) = 0 <=> \A k \in 1 .. n : sizes[k] = 0
    BY <1>8, <1>12, TotalZero
  <2> QED BY <1>10, <1>12, <2>1
<1> HIDE DEF both, sizes
<1>14. c.TP + c.FP = IF m = 1 THEN Len(files) ELSE SumOf(sizes)
  BY <1>2, <1>7, <1>9, <1>10, <1>11
<1> QED BY <1>2, <1>7, <1>13, <1>14 DEF c, sizes

\* Whatever the images and matches, it is known how many windows a line counts.
THEOREM WindowsCountedCorrect == GenerationSpec => []WindowsCounted
<1>1. GenerationOK => WindowsCounted
  <2> SUFFICES ASSUME GenerationOK, NEW m \in DOMAIN reports
               PROVE  reports[m].window.TP + reports[m].window.FP =
                        IF m = 1 THEN Len(files)
                        ELSE SumOf([k \in DOMAIN saved[m] |-> Len(saved[m][k].windows)])
    BY DEF WindowsCounted
  <2> QED BY LineCounts
<1> QED BY GenerationInvariant, <1>1, PTL

\* Whatever the images and matches, no figure of a line is NaN but the precision
\* of windows, when the second method has kept none.
THEOREM FiguresDefinedCorrect == GenerationSpec => []FiguresDefined
<1>1. ASSUME GenerationOK, NEW m \in DOMAIN reports, NEW k \in DOMAIN files
      PROVE  LET c == reports[m].pixel[k]
             IN Defined(PixelPrecision(c)) /\ Defined(Recall(c)) /\ Defined(F1(c))
  <2>1. m \in {1, 2} /\ m < method /\ reports[m] = LineOf(m, files, saved[m])
    BY <1>1, LinesComputed
  <2>2. k \in 1 .. Len(files) /\ k \in DOMAIN saved[m] /\ DOMAIN files = 1 .. Len(files)
    BY <1>1, <2>1, SavedImages
  <2>3. PICK mask, gt : mask = saved[m][k].mask /\ gt = files[k].gt
    OBVIOUS
  <2>4. PICK c : c = PixelCounts(mask, gt) /\ c = reports[m].pixel[k]
    BY <2>1, <2>2, <2>3 DEF LineOf
  <2>5. IsFiniteSet(mask)
    <3>1. PICK r, img : r = saved[m][k] /\ img = files[k] /\ IsImage(img) /\ SavedBy(m, img, r)
      BY <1>1, <2>1, <2>2, SavedImages
    <3> QED BY <2>1, <2>3, <3>1, SavedIs
  <2>6. IsFiniteSet(gt) /\ gt # {}
    <3>1. PICK fs \in Files : fs = files
      BY <1>1 DEF GenerationOK, LoopsOK
    <3> QED BY <2>2, <2>3, <3>1, FileFacts
  <2>7. c.TP \in Nat /\ c.FP \in Nat /\ c.FN \in Nat /\ c.TP + c.FN > 0
    BY <2>4, <2>5, <2>6, PixelsCounted
  <2>8. Defined(PixelPrecision(c)) /\ Defined(Recall(c)) /\ Defined(F1(c))
    BY <2>7 DEF Defined, PixelPrecision, Precision, Recall, F1
  <2> QED BY <2>4, <2>8
<1>2. ASSUME GenerationOK, NEW m \in DOMAIN reports
      PROVE  LET c == reports[m].window
                 kept == m = 1 \/ \E k \in DOMAIN files : saved[m][k].windows # <<>>
             IN Defined(Recall(c)) /\ Defined(F1(c)) /\ (Defined(Precision(c)) <=> kept)
  <2>1. PICK c : c = reports[m].window
    OBVIOUS
  <2>2. PICK size : size = SumOf([k \in DOMAIN saved[m] |-> Len(saved[m][k].windows)])
    OBVIOUS
  <2>3. /\ c.TP \in Nat /\ c.FP \in Nat /\ c.FN \in Nat /\ c.TP + c.FN > 0
        /\ c.TP + c.FP = IF m = 1 THEN Len(files) ELSE size
        /\ size = 0 <=> \A k \in DOMAIN files : saved[m][k].windows = << >>
    BY <1>2, <2>1, <2>2, LineCounts
  <2>4. Len(files) # 0
    <3>1. m \in {1, 2}
      BY <1>2, LinesComputed
    <3> QED BY <1>2, <3>1, SavedImages
  <2>5. Defined(Recall(c)) /\ Defined(F1(c))
    BY <2>3 DEF Defined, Recall, F1
  <2>6. Defined(Precision(c)) <=> c.TP + c.FP # 0
    BY DEF Defined, Precision
  <2>7. Defined(Precision(c)) <=> (m = 1 \/ \E k \in DOMAIN files : saved[m][k].windows # <<>>)
    BY <2>3, <2>4, <2>6
  <2> QED BY <2>1, <2>5, <2>7
<1>3. GenerationOK => FiguresDefined
  BY <1>1, <1>2 DEF FiguresDefined
<1> QED BY GenerationInvariant, <1>3, PTL
=============================================================================
