------------------------------ MODULE DataProofs ------------------------------
(***************************************************************************)
(* Facts about data that several proofs need.  Sums over finite sets: what *)
(* MapThenSumSet of the community modules computes, and that its result    *)
(* does not depend on the order in which the elements are taken.  Means:   *)
(* a quotient in lowest terms has the value of the division, and the       *)
(* mediant of two means is not below the lesser.  Lists: those that have   *)
(* every element of a set once, and the one in ascending order; lists of   *)
(* lists joined; folds over sequences, as a function of the elements done. *)
(*                                                                         *)
(* Sums, joined lists and folds are defined by recursive functions; their  *)
(* existence and every fact about them are proved by a least               *)
(* counterexample, since strict inclusion of finite sets is well founded   *)
(* and so are the numbers.                                                 *)
(***************************************************************************)
EXTENDS Quotients, Positions, SequencesExt, FiniteSetTheorems, FunctionTheorems,
        SequenceTheorems, WellFoundedInduction, TLAPS

-----------------------------------------------------------------------------
(* Finite sets and least elements.                                         *)

\* A set of subsets of a finite set has one without a smaller one in it.
LEMMA MinimalSubset ==
  ASSUME NEW S, IsFiniteSet(S), NEW T \in SUBSET (SUBSET S), T # {}
  PROVE  \E U \in T : IsFiniteSet(U) /\ \A V \in T : V \subseteq U => V = U
<1> DEFINE R == StrictSubsetOrdering(S)
<1>1. IsWellFoundedOn(R, FiniteSubsetsOf(S))
  BY FS_StrictSubsetOrderingWellFounded
<1>2. \A U \in SUBSET S : IsFiniteSet(U)
  BY FS_Subset
<1>3. T \subseteq FiniteSubsetsOf(S)
  BY <1>2 DEF FiniteSubsetsOf
<1> HIDE DEF R
<1>4. PICK U \in T : \A V \in T : ~ <<V, U>> \in R
  BY <1>1, <1>3, WFMin
<1>5. ASSUME NEW V \in T, V \subseteq U, V # U
      PROVE  FALSE
  <2>1. <<V, U>> \in R
    BY <1>5 DEF R, StrictSubsetOrdering
  <2> QED BY <1>4, <2>1
<1> QED BY <1>2, <1>4, <1>5

\* A set of numbers has a least one.
LEMMA LeastElement ==
  ASSUME NEW T \in SUBSET Nat, T # {}
  PROVE  \E x \in T : \A y \in T : x <= y
<1> DEFINE R == {ss \in Nat \X Nat : ss[1] < ss[2]}
<1>1. IsWellFoundedOn(R, Nat)
  <2>1. OpToRel(<, Nat) = R
    BY DEF OpToRel
  <2> QED BY <2>1, NatLessThanWellFounded
<1> HIDE DEF R
<1>2. PICK x \in T : \A y \in T : ~ <<y, x>> \in R
  BY <1>1, WFMin
<1>3. ASSUME NEW y \in T, y < x
      PROVE  FALSE
  <2>1. <<y, x>> \in Nat \X Nat /\ <<y, x>>[1] < <<y, x>>[2]
    BY <1>3
  <2>2. <<y, x>> \in R
    BY <2>1 DEF R
  <2> QED BY <1>2, <2>2
<1>4. ASSUME NEW y \in T
      PROVE  x <= y
  <2>1. x \in Int /\ y \in Int /\ ~ (y < x)
    BY <1>3
  <2> QED BY <2>1
<1> QED BY <1>4

\* A subset of a finite set and its complement share out its elements.
LEMMA ComplementSize ==
  ASSUME NEW S, NEW T, IsFiniteSet(S), T \subseteq S
  PROVE  /\ IsFiniteSet(T) /\ IsFiniteSet(S \ T)
         /\ Cardinality(T) \in Nat /\ Cardinality(S \ T) \in Nat
         /\ Cardinality(T) + Cardinality(S \ T) = Cardinality(S)
<1>1. IsFiniteSet(T) /\ IsFiniteSet(S \ T)
  BY FS_Subset
<1>2. S \cap T = T
  OBVIOUS
<1>3. Cardinality(S \ T) = Cardinality(S) - Cardinality(T)
  BY <1>2, FS_Difference
<1>4. Cardinality(S) \in Nat
  BY FS_CardinalityType
<1>5. Cardinality(T) \in Nat
  BY <1>1, FS_CardinalityType
<1>6. Cardinality(S \ T) \in Nat
  BY <1>1, FS_CardinalityType
<1>7. Cardinality(T) + Cardinality(S \ T) = Cardinality(S)
  BY <1>3, <1>4, <1>5, <1>6
<1> QED BY <1>1, <1>5, <1>6, <1>7

-----------------------------------------------------------------------------
(* The recursive function.                                                 *)

OneOf(s) == CHOOSE x \in s : TRUE
SumStep(w, g, s) == IF s = {} THEN 0 ELSE w[OneOf(s)] + g[s \ {OneOf(s)}]
Solves(w, g, S) == g = [s \in SUBSET S |-> SumStep(w, g, s)]
Total(w, S) == (CHOOSE g : Solves(w, g, S))[S]

LEMMA OneIsElement == \A s : s # {} => OneOf(s) \in s
BY DEF OneOf

\* Two solutions agree where both are defined.
LEMMA SolutionsAgree ==
  ASSUME NEW w, NEW S, IsFiniteSet(S), NEW V \in SUBSET S,
         NEW g, Solves(w, g, S), NEW h, Solves(w, h, V)
  PROVE  \A s \in SUBSET V : g[s] = h[s]
<1> DEFINE Bad == {s \in SUBSET V : g[s] # h[s]}
<1>1. SUFFICES ASSUME Bad # {} PROVE FALSE
  OBVIOUS
<1>2. IsFiniteSet(V) /\ Bad \in SUBSET (SUBSET V)
  BY FS_Subset
<1> HIDE DEF Bad
<1>3. PICK s \in Bad : \A t \in Bad : t \subseteq s => t = s
  BY <1>1, <1>2, MinimalSubset
<1>4. s \in SUBSET V /\ g[s] # h[s] /\ g[s] = SumStep(w, g, s) /\ h[s] = SumStep(w, h, s)
  BY DEF Solves, Bad
<1>5. s # {}
  BY <1>4 DEF SumStep
<1>6. OneOf(s) \in s
  BY <1>5, OneIsElement
<1>7. s \ {OneOf(s)} \notin Bad /\ s \ {OneOf(s)} \in SUBSET V
  BY <1>3, <1>4, <1>6
<1>8. g[s \ {OneOf(s)}] = h[s \ {OneOf(s)}]
  BY <1>7 DEF Bad
<1> QED BY <1>4, <1>5, <1>8 DEF SumStep

LEMMA SolutionExists ==
  ASSUME NEW w, NEW S, IsFiniteSet(S)
  PROVE  \E g : Solves(w, g, S)
<1> DEFINE Bad == {U \in SUBSET S : ~ \E g : Solves(w, g, U)}
<1>1. SUFFICES ASSUME Bad # {} PROVE FALSE
  OBVIOUS
<1>2. PICK U \in Bad : IsFiniteSet(U) /\ \A V \in Bad : V \subseteq U => V = U
  <2>1. Bad \in SUBSET (SUBSET S)
    OBVIOUS
  <2> HIDE DEF Bad
  <2> QED BY <1>1, <2>1, MinimalSubset
<1> DEFINE Sol(s) == CHOOSE g : Solves(w, g, s)
           h == [s \in SUBSET U |-> IF s = U THEN SumStep(w, [t \in SUBSET U |-> Sol(t)[t]], U)
                                    ELSE Sol(s)[s]]
<1>3. ASSUME NEW s \in SUBSET U, s # U
      PROVE  Solves(w, Sol(s), s)
  <2>1. s \in SUBSET S /\ s \notin Bad
    BY <1>2, <1>3
  <2>2. \E g : Solves(w, g, s)
    BY <2>1
  <2> QED BY <2>2
<1> HIDE DEF Sol
<1>4. ASSUME NEW s \in SUBSET U
      PROVE  h[s] = SumStep(w, h, s)
  <2> DEFINE r == s \ {OneOf(s)}
  <2>1. CASE s = {}
    <3>1. h[s] = IF s = U THEN 0 ELSE Sol(s)[s]
      BY <2>1 DEF SumStep
    <3>2. s # U => Sol(s)[s] = 0
      BY <1>3, <2>1 DEF Solves, SumStep
    <3> QED BY <2>1, <3>1, <3>2 DEF SumStep
  <2>2. CASE s # {}
    <3>1. OneOf(s) \in s
      BY <2>2, OneIsElement
    <3>2. r \in SUBSET U /\ r # U /\ r \in SUBSET s
      BY <3>1
    <3>3. h[r] = Sol(r)[r]
      BY <3>2
    <3>4. SumStep(w, h, s) = w[OneOf(s)] + Sol(r)[r]
      BY <2>2, <3>3 DEF SumStep
    <3>5. CASE s = U
      <4>1. h[s] = w[OneOf(s)] + [t \in SUBSET U |-> Sol(t)[t]][r]
        BY <2>2, <3>5 DEF SumStep
      <4> QED BY <3>2, <3>4, <4>1
    <3>6. CASE s # U
      <4>1. Solves(w, Sol(s), s) /\ Solves(w, Sol(r), r)
        BY <1>3, <3>2, <3>6
      <4>2. IsFiniteSet(s)
        BY <1>2, FS_Subset
      <4>3. Sol(s)[r] = Sol(r)[r]
        <5> HIDE DEF r, Sol
        <5>1. \A q \in SUBSET r : Sol(s)[q] = Sol(r)[q]
          BY <3>2, <4>1, <4>2, SolutionsAgree
        <5> QED BY <5>1
      <4>4. Sol(s)[s] = SumStep(w, Sol(s), s)
        BY <4>1 DEF Solves
      <4>5. Sol(s)[s] = w[OneOf(s)] + Sol(s)[r]
        BY <2>2, <4>4 DEF SumStep
      <4> QED BY <3>4, <3>6, <4>3, <4>5
    <3> QED BY <3>5, <3>6
  <2> QED BY <2>1, <2>2
<1>5. Solves(w, h, U)
  <2>1. h = [s \in SUBSET U |-> h[s]]
    OBVIOUS
  <2> HIDE DEF h
  <2> QED BY <1>4, <2>1 DEF Solves
<1> QED BY <1>2, <1>5

-----------------------------------------------------------------------------
(* The sum.                                                                *)

LEMMA TotalSolves ==
  ASSUME NEW w, NEW S, IsFiniteSet(S)
  PROVE  \E g : Solves(w, g, S) /\ Total(w, S) = g[S]
BY SolutionExists DEF Total

LEMMA TotalEmpty ==
  ASSUME NEW w
  PROVE  Total(w, {}) = 0
<1>1. PICK g : Solves(w, g, {}) /\ Total(w, {}) = g[{}]
  BY TotalSolves, FS_EmptySet
<1>2. g[{}] = SumStep(w, g, {})
  BY <1>1 DEF Solves
<1> QED BY <1>1, <1>2 DEF SumStep

LEMMA TotalOne ==
  ASSUME NEW w, NEW S, IsFiniteSet(S), S # {}
  PROVE  Total(w, S) = w[OneOf(S)] + Total(w, S \ {OneOf(S)})
<1> DEFINE R == S \ {OneOf(S)}
<1>1. R \in SUBSET S /\ IsFiniteSet(R)
  BY FS_Subset
<1> HIDE DEF R
<1>2. PICK g : Solves(w, g, S) /\ Total(w, S) = g[S]
  BY TotalSolves
<1>3. PICK h : Solves(w, h, R) /\ Total(w, R) = h[R]
  BY <1>1, TotalSolves
<1>4. g[R] = h[R]
  BY <1>1, <1>2, <1>3, SolutionsAgree
<1>5. g[S] = SumStep(w, g, S)
  BY <1>2 DEF Solves
<1>6. g[S] = w[OneOf(S)] + g[R]
  BY <1>5 DEF SumStep, R
<1> QED BY <1>2, <1>3, <1>4, <1>6 DEF R

\* A sum of natural numbers is a natural number.
LEMMA TotalNat ==
  ASSUME NEW w, NEW S, IsFiniteSet(S), \A x \in S : w[x] \in Nat
  PROVE  Total(w, S) \in Nat
<1> DEFINE Bad == {U \in SUBSET S : Total(w, U) \notin Nat}
<1>1. SUFFICES ASSUME Bad # {} PROVE FALSE
  OBVIOUS
<1>2. Bad \in SUBSET (SUBSET S)
  OBVIOUS
<1>3. \A U \in SUBSET S : U \notin Bad => Total(w, U) \in Nat
  OBVIOUS
<1>4. \A U \in Bad : U \in SUBSET S /\ Total(w, U) \notin Nat
  OBVIOUS
<1> HIDE DEF Bad
<1>5. PICK U \in Bad : IsFiniteSet(U) /\ \A V \in Bad : V \subseteq U => V = U
  BY <1>1, <1>2, MinimalSubset
<1>6. U # {}
  <2>1. Total(w, {}) \in Nat
    BY TotalEmpty
  <2> QED BY <1>4, <2>1
<1>7. OneOf(U) \in U
  BY <1>6, OneIsElement
<1>8. Total(w, U \ {OneOf(U)}) \in Nat
  BY <1>3, <1>4, <1>5, <1>7
<1>9. w[OneOf(U)] \in Nat
  BY <1>4, <1>7
<1> QED BY <1>4, <1>5, <1>6, <1>8, <1>9, TotalOne

\* Any element may be taken first.
LEMMA TotalAny ==
  ASSUME NEW w, NEW S, IsFiniteSet(S), \A x \in S : w[x] \in Nat
  PROVE  \A x \in S : Total(w, S) = w[x] + Total(w, S \ {x})
<1> DEFINE Good(U) == \A x \in U : Total(w, U) = w[x] + Total(w, U \ {x})
           Bad == {U \in SUBSET S : ~ Good(U)}
<1>1. SUFFICES ASSUME Bad # {} PROVE FALSE
  OBVIOUS
<1>2. Bad \in SUBSET (SUBSET S)
  OBVIOUS
<1>3. \A U \in SUBSET S : U \notin Bad => Good(U)
  OBVIOUS
<1>4. \A U \in Bad : U \in SUBSET S /\ ~ Good(U)
  OBVIOUS
<1> HIDE DEF Bad
<1>5. PICK U \in Bad : IsFiniteSet(U) /\ \A V \in Bad : V \subseteq U => V = U
  BY <1>1, <1>2, MinimalSubset
<1>6. U \in SUBSET S
  BY <1>4
<1>7. PICK x \in U : Total(w, U) # w[x] + Total(w, U \ {x})
  BY <1>4
<1> DEFINE c == OneOf(U)
<1>8. c \in U
  BY <1>7, OneIsElement
<1>9. Total(w, U) = w[c] + Total(w, U \ {c})
  BY <1>5, <1>7, TotalOne
<1> HIDE DEF c
<1>10. c # x
  BY <1>7, <1>9
<1>11. Good(U \ {c}) /\ Good(U \ {x})
  BY <1>3, <1>5, <1>6, <1>7, <1>8
<1>12. x \in U \ {c} /\ c \in U \ {x} /\ (U \ {c}) \ {x} = (U \ {x}) \ {c}
  BY <1>7, <1>8, <1>10
<1>13. /\ Total(w, U \ {c}) = w[x] + Total(w, (U \ {c}) \ {x})
       /\ Total(w, U \ {x}) = w[c] + Total(w, (U \ {c}) \ {x})
  BY <1>11, <1>12
<1>14. Total(w, (U \ {c}) \ {x}) \in Nat
  <2>1. IsFiniteSet((U \ {c}) \ {x})
    BY <1>5, FS_Subset
  <2> QED BY <2>1, <1>6, TotalNat
<1>15. w[c] \in Nat /\ w[x] \in Nat
  BY <1>6, <1>7, <1>8
<1> QED BY <1>7, <1>9, <1>13, <1>14, <1>15

\* The sum over two disjoint sets is the sum of their sums.
LEMMA TotalUnion ==
  ASSUME NEW w, NEW A, IsFiniteSet(A), NEW B, IsFiniteSet(B), A \cap B = {},
         \A x \in A \cup B : w[x] \in Nat
  PROVE  Total(w, A \cup B) = Total(w, A) + Total(w, B)
<1> DEFINE Bad == {U \in SUBSET A : Total(w, U \cup B) # Total(w, U) + Total(w, B)}
<1>1. SUFFICES ASSUME Bad # {} PROVE FALSE
  OBVIOUS
<1>2. Bad \in SUBSET (SUBSET A)
  OBVIOUS
<1>3. \A U \in SUBSET A : U \notin Bad => Total(w, U \cup B) = Total(w, U) + Total(w, B)
  OBVIOUS
<1>4. \A U \in Bad : U \in SUBSET A /\ Total(w, U \cup B) # Total(w, U) + Total(w, B)
  OBVIOUS
<1> HIDE DEF Bad
<1>5. PICK U \in Bad : IsFiniteSet(U) /\ \A V \in Bad : V \subseteq U => V = U
  BY <1>1, <1>2, MinimalSubset
<1>6. U \in SUBSET A
  BY <1>4
<1>7. Total(w, B) \in Nat
  BY TotalNat
<1>8. U # {}
  <2>1. ({} \cup B) = B
    OBVIOUS
  <2> QED BY <1>4, <1>7, <2>1, TotalEmpty
<1>9. PICK x \in U : TRUE
  BY <1>8
<1>10. Total(w, U \cup B) = w[x] + Total(w, (U \cup B) \ {x})
  <2>1. IsFiniteSet(U \cup B)
    BY <1>5, FS_Union
  <2> QED BY <2>1, <1>6, TotalAny
<1>11. Total(w, U) = w[x] + Total(w, U \ {x})
  BY <1>5, <1>6, TotalAny
<1>12. (U \cup B) \ {x} = (U \ {x}) \cup B
  BY <1>6, <1>9
<1>13. Total(w, (U \ {x}) \cup B) = Total(w, U \ {x}) + Total(w, B)
  <2>1. U \ {x} \in SUBSET A /\ U \ {x} \notin Bad
    BY <1>5, <1>6, <1>9
  <2> QED BY <2>1, <1>3
<1>14. Total(w, U \ {x}) \in Nat /\ w[x] \in Nat
  <2>1. IsFiniteSet(U \ {x})
    BY <1>5, FS_Subset
  <2> QED BY <2>1, <1>6, TotalNat
<1>15. Total(w, U \cup B) # Total(w, U) + Total(w, B)
  BY <1>4
<1>16. Total(w, U \cup B) = w[x] + (Total(w, U \ {x}) + Total(w, B))
  BY <1>10, <1>12, <1>13
<1> QED BY <1>7, <1>11, <1>14, <1>15, <1>16

\* Terms that are not greater have a sum that is not greater, and the same sum
\* only when they are the same.
LEMMA TotalCompared ==
  ASSUME NEW v, NEW w, NEW S, IsFiniteSet(S),
         \A x \in S : v[x] \in Nat /\ w[x] \in Nat /\ v[x] <= w[x]
  PROVE  /\ Total(v, S) <= Total(w, S)
         /\ Total(v, S) = Total(w, S) <=> \A x \in S : v[x] = w[x]
<1> DEFINE Good(U) == /\ Total(v, U) <= Total(w, U)
                      /\ Total(v, U) = Total(w, U) <=> \A x \in U : v[x] = w[x]
           Bad == {U \in SUBSET S : ~ Good(U)}
<1>1. SUFFICES ASSUME Bad # {} PROVE FALSE
  OBVIOUS
<1>2. Bad \in SUBSET (SUBSET S)
  OBVIOUS
<1>3. \A U \in SUBSET S : U \notin Bad => Good(U)
  OBVIOUS
<1>4. \A U \in Bad : U \in SUBSET S /\ ~ Good(U)
  OBVIOUS
<1> HIDE DEF Bad
<1>5. PICK U \in Bad : IsFiniteSet(U) /\ \A V \in Bad : V \subseteq U => V = U
  BY <1>1, <1>2, MinimalSubset
<1>6. U \in SUBSET S
  BY <1>4
<1>7. CASE U = {}
  <2>1. Total(v, {}) = 0 /\ Total(w, {}) = 0
    BY TotalEmpty
  <2>2. Good({})
    BY <2>1
  <2> QED BY <1>4, <1>7, <2>2
<1>8. CASE U # {}
  <2>1. PICK x : x \in U
    BY <1>8
  <2>2. Good(U \ {x})
    BY <1>3, <1>5, <1>6, <2>1
  <2>3. Total(v, U) = v[x] + Total(v, U \ {x}) /\ Total(w, U) = w[x] + Total(w, U \ {x})
    BY <1>5, <1>6, <2>1, TotalAny
  <2>4. Total(v, U \ {x}) \in Nat /\ Total(w, U \ {x}) \in Nat
    <3>1. IsFiniteSet(U \ {x})
      BY <1>5, FS_Subset
    <3> QED BY <3>1, <1>6, TotalNat
  <2>5. v[x] \in Nat /\ w[x] \in Nat /\ v[x] <= w[x]
    BY <1>6, <2>1
  <2>6. (\A y \in U : v[y] = w[y]) <=> v[x] = w[x] /\ \A y \in U \ {x} : v[y] = w[y]
    BY <2>1
  <2>7. Good(U)
    BY <2>2, <2>3, <2>4, <2>5, <2>6
  <2> QED BY <1>4, <2>7
<1> QED BY <1>7, <1>8

\* Sums are added term by term.
LEMMA TotalSum ==
  ASSUME NEW S, IsFiniteSet(S), NEW u, NEW v, NEW w,
         \A x \in S : u[x] \in Nat /\ v[x] \in Nat /\ w[x] = u[x] + v[x]
  PROVE  Total(w, S) = Total(u, S) + Total(v, S)
<1> DEFINE Bad == {U \in SUBSET S : Total(w, U) # Total(u, U) + Total(v, U)}
<1>1. SUFFICES ASSUME Bad # {} PROVE FALSE
  OBVIOUS
<1>2. Bad \in SUBSET (SUBSET S)
  OBVIOUS
<1>3. \A U \in SUBSET S : U \notin Bad => Total(w, U) = Total(u, U) + Total(v, U)
  OBVIOUS
<1>4. \A U \in Bad : U \in SUBSET S /\ Total(w, U) # Total(u, U) + Total(v, U)
  OBVIOUS
<1> HIDE DEF Bad
<1>5. PICK U \in Bad : IsFiniteSet(U) /\ \A V \in Bad : V \subseteq U => V = U
  BY <1>1, <1>2, MinimalSubset
<1>6. U \in SUBSET S
  BY <1>4
<1>7. U # {}
  BY <1>4, TotalEmpty
<1>8. PICK x \in U : TRUE
  BY <1>7
<1>9. \A y \in U : u[y] \in Nat /\ v[y] \in Nat /\ w[y] \in Nat /\ w[y] = u[y] + v[y]
  BY <1>6
<1>10. /\ Total(u, U) = u[x] + Total(u, U \ {x}) /\ Total(v, U) = v[x] + Total(v, U \ {x})
       /\ Total(w, U) = w[x] + Total(w, U \ {x})
  BY <1>5, <1>9, TotalAny
<1>11. Total(w, U \ {x}) = Total(u, U \ {x}) + Total(v, U \ {x})
  <2>1. U \ {x} \in SUBSET S /\ U \ {x} \notin Bad
    BY <1>5, <1>6, <1>8
  <2> QED BY <2>1, <1>3
<1>12. Total(u, U \ {x}) \in Nat /\ Total(v, U \ {x}) \in Nat
  <2>1. IsFiniteSet(U \ {x})
    BY <1>5, FS_Subset
  <2> QED BY <2>1, <1>9, TotalNat
<1>13. Total(w, U) # Total(u, U) + Total(v, U)
  BY <1>4
<1> QED BY <1>9, <1>10, <1>11, <1>12, <1>13

\* Ones add up to the number of elements.
LEMMA TotalOnes ==
  ASSUME NEW S, IsFiniteSet(S), NEW w, \A x \in S : w[x] = 1
  PROVE  Total(w, S) = Cardinality(S)
<1> DEFINE Bad == {U \in SUBSET S : Total(w, U) # Cardinality(U)}
<1>1. SUFFICES ASSUME Bad # {} PROVE FALSE
  OBVIOUS
<1>2. Bad \in SUBSET (SUBSET S)
  OBVIOUS
<1>3. \A U \in SUBSET S : U \notin Bad => Total(w, U) = Cardinality(U)
  OBVIOUS
<1>4. \A U \in Bad : U \in SUBSET S /\ Total(w, U) # Cardinality(U)
  OBVIOUS
<1> HIDE DEF Bad
<1>5. PICK U \in Bad : IsFiniteSet(U) /\ \A V \in Bad : V \subseteq U => V = U
  BY <1>1, <1>2, MinimalSubset
<1>6. U # {}
  BY <1>4, TotalEmpty, FS_EmptySet
<1>7. PICK x \in U : TRUE
  BY <1>6
<1>8. Total(w, U) = 1 + Total(w, U \ {x})
  <2>1. \A y \in U : w[y] \in Nat /\ w[y] = 1
    BY <1>4
  <2> QED BY <1>5, <2>1, TotalAny
<1>9. Total(w, U \ {x}) = Cardinality(U \ {x})
  BY <1>3, <1>4, <1>5, <1>7
<1>10. Cardinality(U \ {x}) = Cardinality(U) - 1 /\ Cardinality(U) \in Nat
  BY <1>5, <1>7, FS_RemoveElement, FS_CardinalityType
<1> QED BY <1>4, <1>8, <1>9, <1>10

\* A sum is zero exactly if every term is.
LEMMA TotalZero ==
  ASSUME NEW S, IsFiniteSet(S), NEW w, \A x \in S : w[x] \in Nat
  PROVE  Total(w, S) = 0 <=> \A x \in S : w[x] = 0
<1>1. Total(w, S) \in Nat
  BY TotalNat
<1>2. ASSUME \A x \in S : w[x] = 0 PROVE Total(w, S) = 0
  <2>1. \A x \in S : w[x] \in Nat /\ w[x] = w[x] + w[x]
    BY <1>2
  <2>2. Total(w, S) = Total(w, S) + Total(w, S)
    BY <2>1, TotalSum
  <2>3. PICK t \in Nat : t = Total(w, S)
    BY <1>1
  <2>4. t = t + t
    BY <2>2, <2>3
  <2>5. t = 0
    BY <2>4
  <2> QED BY <2>3, <2>5
<1>3. ASSUME Total(w, S) = 0, NEW x \in S PROVE w[x] = 0
  <2>1. Total(w, S) = w[x] + Total(w, S \ {x})
    BY TotalAny
  <2>2. IsFiniteSet(S \ {x})
    BY FS_Subset
  <2>3. Total(w, S \ {x}) \in Nat /\ w[x] \in Nat
    BY <2>2, TotalNat
  <2> QED BY <1>3, <2>1, <2>3
<1> QED BY <1>2, <1>3

-----------------------------------------------------------------------------
(* Quotients.                                                              *)

\* A common factor that is not zero can be cancelled.
LEMMA CancelFactor ==
  ASSUME NEW a \in Int, NEW b \in Int, NEW k \in Nat \ {0}
  PROVE  k * a <= k * b <=> a <= b
<1>1. ASSUME a <= b PROVE k * a <= k * b
  <2>1. PICK c \in Nat : b = a + c
    BY <1>1
  <2>2. k * b = k * a + k * c /\ k * c \in Nat
    BY <2>1
  <2>3. k * a \in Int
    OBVIOUS
  <2> QED BY <2>2, <2>3
<1>2. ASSUME b < a PROVE k * b < k * a
  <2>1. PICK c \in Nat \ {0} : a = b + c
    BY <1>2
  <2>2. k * a = k * b + k * c /\ k * c \in Nat \ {0}
    BY <2>1
  <2>3. k * b \in Int
    OBVIOUS
  <2> QED BY <2>2, <2>3
<1>3. k * a \in Int /\ k * b \in Int
  OBVIOUS
<1> QED BY <1>1, <1>2, <1>3

LEMMA DivideExact ==
  ASSUME NEW n \in Nat, NEW k \in Nat \ {0}, n % k = 0
  PROVE  n \div k \in Nat /\ n = k * (n \div k)
OBVIOUS

LEMMA GreatestDivisor ==
  ASSUME NEW n \in Nat, NEW d \in Nat \ {0}
  PROVE  Max(Divisors(n, d)) \in Divisors(n, d)
<1> DEFINE D == Divisors(n, d)
           T == {d - k : k \in D}
<1>1. 1 \in D
  BY DEF Divisors
<1>2. D \subseteq 1 .. d
  BY DEF Divisors
<1> HIDE DEF D
<1>3. T \in SUBSET Nat /\ T # {}
  <2>1. d - 1 \in T
    BY <1>1
  <2>2. \A k \in D : d - k \in Nat
    BY <1>2
  <2> QED BY <2>1, <2>2
<1>4. PICK x \in T : \A y \in T : x <= y
  BY <1>3, LeastElement
<1>5. PICK k \in D : x = d - k
  BY <1>4
<1>6. \A j \in D : k >= j
  BY <1>2, <1>4, <1>5
<1> QED BY <1>5, <1>6 DEF Max, D

\* Reducing to lowest terms keeps the value.
LEMMA QuotientValue ==
  ASSUME NEW n \in Nat, NEW d \in Nat \ {0}
  PROVE  \E a \in Nat, b \in Nat \ {0}, k \in Nat \ {0} :
           Quotient(n, d) = <<a, b>> /\ n = k * a /\ d = k * b
<1> DEFINE k == Max(Divisors(n, d))
<1>1. k \in Divisors(n, d)
  BY GreatestDivisor
<1> HIDE DEF k
<1>2. k \in Nat \ {0} /\ n % k = 0 /\ d % k = 0
  BY <1>1 DEF Divisors
<1>3. n \div k \in Nat /\ n = k * (n \div k)
  BY <1>2, DivideExact
<1>4. d \div k \in Nat /\ d = k * (d \div k)
  BY <1>2, DivideExact
<1>5. d \div k # 0
  BY <1>2, <1>4
<1>6. Quotient(n, d) = <<n \div k, d \div k>>
  BY DEF Quotient, k
<1> QED BY <1>2, <1>3, <1>4, <1>5, <1>6

IsQuotient(q) == \E a \in Nat, b \in Nat \ {0} : q = <<a, b>>

LEMMA AtMostTransitive ==
  ASSUME NEW x, IsQuotient(x), NEW y, IsQuotient(y), NEW z, IsQuotient(z),
         AtMost(x, y), AtMost(y, z)
  PROVE  AtMost(x, z)
<1>1. PICK a \in Nat, b \in Nat \ {0} : x = <<a, b>>
  BY DEF IsQuotient
<1>2. PICK c \in Nat, d \in Nat \ {0} : y = <<c, d>>
  BY DEF IsQuotient
<1>3. PICK e \in Nat, f \in Nat \ {0} : z = <<e, f>>
  BY DEF IsQuotient
<1>4. a * d <= c * b /\ c * f <= e * d
  BY <1>1, <1>2, <1>3 DEF AtMost
<1>5. f * (a * d) <= f * (c * b) /\ b * (c * f) <= b * (e * d)
  <2>1. a * d \in Int /\ c * b \in Int /\ c * f \in Int /\ e * d \in Int
    OBVIOUS
  <2> QED BY <1>4, <2>1, CancelFactor
<1>6. /\ f * (a * d) = d * (a * f) /\ f * (c * b) = b * (c * f) /\ b * (e * d) = d * (e * b)
      /\ f * (a * d) \in Int /\ f * (c * b) \in Int /\ b * (e * d) \in Int
  OBVIOUS
<1>7. d * (a * f) <= d * (e * b)
  BY <1>5, <1>6
<1>8. a * f \in Int /\ e * b \in Int
  OBVIOUS
<1>9. a * f <= e * b
  BY <1>7, <1>8, CancelFactor
<1> QED BY <1>1, <1>3, <1>9 DEF AtMost

\* Comparing with a quotient is comparing with the division.
LEMMA AtMostQuotient ==
  ASSUME NEW e, IsQuotient(e), NEW n \in Nat, NEW d \in Nat \ {0}
  PROVE  /\ IsQuotient(Quotient(n, d))
         /\ AtMost(e, Quotient(n, d)) <=> e[1] * d <= n * e[2]
<1>1. PICK a \in Nat, b \in Nat \ {0}, k \in Nat \ {0} :
        Quotient(n, d) = <<a, b>> /\ n = k * a /\ d = k * b
  BY QuotientValue
<1>2. PICK x \in Nat, y \in Nat \ {0} : e = <<x, y>>
  BY DEF IsQuotient
<1>3. x * b \in Int /\ a * y \in Int
  BY <1>1, <1>2
<1>4. k * (x * b) <= k * (a * y) <=> x * b <= a * y
  BY <1>3, CancelFactor
<1>5. x * (k * b) = k * (x * b) /\ (k * a) * y = k * (a * y)
  BY <1>1, <1>2
<1>6. AtMost(e, Quotient(n, d)) <=> x * b <= a * y
  BY <1>1, <1>2 DEF AtMost
<1>7. e[1] * d <= n * e[2] <=> k * (x * b) <= k * (a * y)
  BY <1>1, <1>2, <1>5
<1> QED BY <1>1, <1>4, <1>6, <1>7 DEF IsQuotient

\* The mean of two means taken together is not below what neither is below.
LEMMA Mediant ==
  ASSUME NEW e, IsQuotient(e),
         NEW n \in Nat, NEW d \in Nat \ {0}, NEW m \in Nat, NEW f \in Nat \ {0},
         AtMost(e, Quotient(n, d)), AtMost(e, Quotient(m, f))
  PROVE  AtMost(e, Quotient(n + m, d + f))
<1>1. PICK x \in Nat, y \in Nat \ {0} : e = <<x, y>>
  BY DEF IsQuotient
<1>2. x * d <= n * y /\ x * f <= m * y
  BY <1>1, AtMostQuotient
<1>3. x * (d + f) = x * d + x * f /\ (n + m) * y = n * y + m * y
  BY <1>1
<1>4. /\ x * d \in Int /\ n * y \in Int /\ x * f \in Int /\ m * y \in Int
  BY <1>1
<1>5. x * (d + f) <= (n + m) * y
  BY <1>2, <1>3, <1>4
<1>6. e[1] * (d + f) <= (n + m) * e[2]
  BY <1>1, <1>5
<1>7. n + m \in Nat /\ d + f \in Nat \ {0}
  OBVIOUS
<1> QED BY <1>6, <1>7, AtMostQuotient

-----------------------------------------------------------------------------
(* Lists without repetition.                                               *)

\* s has every element of S once and nothing else.
Lists(s, S) ==
  /\ s \in Seq(S)
  /\ \A i, j \in 1 .. Len(s) : s[i] = s[j] => i = j
  /\ \A x \in S : \E i \in 1 .. Len(s) : s[i] = x

LEMMA ListedSet ==
  ASSUME NEW s, NEW S, Lists(s, S)
  PROVE  ToSet(s) = S
<1>1. DOMAIN s = 1 .. Len(s) /\ \A i \in 1 .. Len(s) : s[i] \in S
  BY DEF Lists
<1> QED BY <1>1 DEF Lists, ToSet

LEMMA ListedLength ==
  ASSUME NEW s, NEW S, Lists(s, S)
  PROVE  IsFiniteSet(S) /\ Cardinality(S) = Len(s) /\ Len(s) \in Nat
<1>1. Len(s) \in Nat /\ s \in [1 .. Len(s) -> S]
  BY DEF Lists
<1>2. s \in Bijection(1 .. Len(s), S)
  BY <1>1, Fun_IsBij DEF Lists
<1>3. ExistsBijection(1 .. Len(s), S)
  BY <1>2 DEF ExistsBijection
<1>4. IsFiniteSet(1 .. Len(s)) /\ Cardinality(1 .. Len(s)) = Len(s)
  BY <1>1, FS_Interval
<1> QED BY <1>1, <1>3, <1>4, FS_Bijection

\* The elements of a finite set are listed by their rank: how many come before.
Ordered(S, before) ==
  /\ \A x \in S : before[x] \in SUBSET S /\ x \notin before[x]
  /\ \A x, z \in S : x # z => \/ x \in before[z] /\ before[x] \subseteq before[z]
                              \/ z \in before[x] /\ before[z] \subseteq before[x]

LEMMA RankGrows ==
  ASSUME NEW S, IsFiniteSet(S), NEW before, Ordered(S, before),
         NEW x \in S, NEW z \in S, x \in before[z], before[x] \subseteq before[z]
  PROVE  Cardinality(before[x]) < Cardinality(before[z])
<1> DEFINE X == before[x]
           Z == before[z]
<1>1. X \subseteq Z /\ Z \in SUBSET S /\ x \in Z /\ x \notin X
  BY DEF Ordered
<1> HIDE DEF X, Z
<1>2. IsFiniteSet(Z)
  BY <1>1, FS_Subset
<1>3. X \in SUBSET Z
  BY <1>1
<1>4. IsFiniteSet(X) /\ Cardinality(X) <= Cardinality(Z) /\ (Cardinality(Z) = Cardinality(X) => Z = X)
  BY <1>2, <1>3, FS_Subset
<1>5. Cardinality(X) \in Nat /\ Cardinality(Z) \in Nat
  BY <1>2, <1>4, FS_CardinalityType
<1>6. Cardinality(X) < Cardinality(Z)
  BY <1>1, <1>4, <1>5
<1> QED BY <1>6 DEF X, Z

LEMMA RankBounded ==
  ASSUME NEW S, IsFiniteSet(S), NEW before, Ordered(S, before), NEW x \in S
  PROVE  Cardinality(before[x]) \in 0 .. Cardinality(S) - 1
<1> DEFINE X == before[x]
<1>1. IsFiniteSet(S \ {x}) /\ Cardinality(S \ {x}) = Cardinality(S) - 1
  BY FS_RemoveElement
<1>2. X \in SUBSET (S \ {x})
  BY DEF Ordered
<1>3. IsFiniteSet(X) /\ Cardinality(X) <= Cardinality(S \ {x})
  BY <1>1, <1>2, FS_Subset
<1>4. Cardinality(X) \in Nat /\ Cardinality(S) \in Nat
  BY <1>3, FS_CardinalityType
<1> QED BY <1>1, <1>3, <1>4

LEMMA RankOrders ==
  ASSUME NEW S, IsFiniteSet(S), NEW before, Ordered(S, before), NEW x \in S, NEW z \in S
  PROVE  /\ Cardinality(before[x]) = Cardinality(before[z]) => x = z
         /\ Cardinality(before[x]) < Cardinality(before[z]) => x \in before[z]
<1>1. Cardinality(before[x]) \in Int /\ Cardinality(before[z]) \in Int
  BY RankBounded, FS_CardinalityType
<1>2. CASE x # z /\ x \in before[z] /\ before[x] \subseteq before[z]
  BY <1>1, <1>2, RankGrows
<1>3. CASE x # z /\ z \in before[x] /\ before[z] \subseteq before[x]
  BY <1>1, <1>3, RankGrows
<1>4. CASE x = z
  BY <1>1, <1>4
<1> QED BY <1>2, <1>3, <1>4 DEF Ordered

\* Every rank is that of an element.
LEMMA RankTaken ==
  ASSUME NEW S, IsFiniteSet(S), NEW before, Ordered(S, before),
         NEW k \in 1 .. Cardinality(S)
  PROVE  \E x \in S : Cardinality(before[x]) = k - 1
<1> DEFINE n == Cardinality(S)
           rank == [x \in S |-> Cardinality(before[x]) + 1]
<1>1. n \in Nat
  BY FS_CardinalityType
<1>2. rank \in [S -> 1 .. n]
  BY <1>1, RankBounded
<1>3. ASSUME NEW x \in S, NEW z \in S, rank[x] = rank[z]
      PROVE  x = z
  <2>1. Cardinality(before[x]) \in Int /\ Cardinality(before[z]) \in Int
    BY <1>1, RankBounded
  <2>2. Cardinality(before[x]) + 1 = Cardinality(before[z]) + 1
    BY <1>3
  <2>3. Cardinality(before[x]) = Cardinality(before[z])
    BY <2>1, <2>2
  <2> QED BY <2>3, RankOrders
<1>4. rank \in Injection(S, 1 .. n)
  BY <1>2, <1>3, Fun_IsInj
<1>5. IsFiniteSet(1 .. n) /\ Cardinality(1 .. n) = n
  BY <1>1, FS_Interval
<1>6. rank \in Surjection(S, 1 .. n)
  BY <1>4, <1>5, FS_Injection
<1>7. PICK x \in S : rank[x] = k
  BY <1>6 DEF Surjection
<1>8. Cardinality(before[x]) \in Int /\ k \in Int
  BY <1>1, RankBounded
<1>9. Cardinality(before[x]) = k - 1
  BY <1>7, <1>8
<1> QED BY <1>9

LEMMA RankedLists ==
  ASSUME NEW S, IsFiniteSet(S), NEW before, Ordered(S, before),
         NEW s, s = [k \in 1 .. Cardinality(S) |-> s[k]],
         \A k \in 1 .. Cardinality(S) : s[k] \in S /\ Cardinality(before[s[k]]) = k - 1
  PROVE  /\ Lists(s, S) /\ Len(s) = Cardinality(S)
         /\ \A i, j \in 1 .. Len(s) : i < j => s[i] \in before[s[j]]
<1> DEFINE n == Cardinality(S)
<1>1. n \in Nat
  BY FS_CardinalityType
<1>2. s \in Seq(S) /\ Len(s) = n
  BY <1>1
<1>3. \A i, j \in 1 .. n : s[i] = s[j] => i = j
  <2> TAKE i, j \in 1 .. n
  <2> HAVE s[i] = s[j]
  <2>1. i - 1 = j - 1
    OBVIOUS
  <2> QED BY <2>1
<1>4. ASSUME NEW x \in S
      PROVE  \E i \in 1 .. n : s[i] = x
  <2>1. PICK r \in 0 .. n - 1 : r = Cardinality(before[x])
    BY RankBounded
  <2>2. r + 1 \in 1 .. n /\ (r + 1) - 1 = r
    BY <1>1
  <2>3. s[r + 1] \in S /\ Cardinality(before[s[r + 1]]) = Cardinality(before[x])
    BY <2>1, <2>2
  <2>4. s[r + 1] = x
    BY <2>3, RankOrders
  <2> QED BY <2>2, <2>4
<1>5. ASSUME NEW i \in 1 .. n, NEW j \in 1 .. n, i < j
      PROVE  s[i] \in before[s[j]]
  <2>1. /\ s[i] \in S /\ s[j] \in S
        /\ Cardinality(before[s[i]]) = i - 1 /\ Cardinality(before[s[j]]) = j - 1
    OBVIOUS
  <2>2. i - 1 < j - 1
    BY <1>1, <1>5
  <2> QED BY <2>1, <2>2, RankOrders
<1> QED BY <1>2, <1>3, <1>4, <1>5 DEF Lists

\* Ascending takes the elements of a set of numbers by their rank.
LEMMA AscendingLists ==
  ASSUME NEW S \in SUBSET Nat, IsFiniteSet(S)
  PROVE  /\ Lists(Ascending(S), S)
         /\ \A i, j \in 1 .. Len(Ascending(S)) : i < j => Ascending(S)[i] < Ascending(S)[j]
<1> DEFINE before == [x \in S |-> {y \in S : y < x}]
           s == Ascending(S)
<1>1. Ordered(S, before)
  <2>1. \A x, y, z \in S : x < y /\ y < z => x < z
    OBVIOUS
  <2>2. \A x, z \in S : ~ (x < x) /\ (x # z => x < z \/ z < x)
    OBVIOUS
  <2>3. \A x \in S : before[x] = {y \in S : y < x}
    OBVIOUS
  <2> HIDE DEF before
  <2>4. \A x \in S : before[x] \in SUBSET S /\ x \notin before[x]
    BY <2>2, <2>3
  <2>5. ASSUME NEW x \in S, NEW z \in S, x < z
        PROVE  x \in before[z] /\ before[x] \subseteq before[z]
    <3>1. \A y \in before[x] : y \in S /\ y < x /\ y < z
      BY <2>1, <2>3, <2>5
    <3> QED BY <2>3, <2>5, <3>1
  <2> QED BY <2>2, <2>4, <2>5 DEF Ordered
<1>2. s = [k \in 1 .. Cardinality(S) |-> s[k]]
  BY DEF Ascending
<1>3. ASSUME NEW k \in 1 .. Cardinality(S)
      PROVE  s[k] \in S /\ Cardinality(before[s[k]]) = k - 1
  <2>1. \E x \in S : Cardinality(before[x]) = k - 1
    <3> HIDE DEF before
    <3> QED BY <1>1, RankTaken
  <2>2. \E x \in S : Cardinality({y \in S : y < x}) = k - 1
    BY <2>1
  <2>3. s[k] = CHOOSE x \in S : Cardinality({y \in S : y < x}) = k - 1
    BY DEF Ascending
  <2>4. s[k] \in S /\ Cardinality({y \in S : y < s[k]}) = k - 1
    BY <2>2, <2>3
  <2> QED BY <2>4
<1> HIDE DEF before, s
<1>4. Lists(s, S) /\ \A i, j \in 1 .. Len(s) : i < j => s[i] \in before[s[j]]
  BY <1>1, <1>2, <1>3, RankedLists
<1>5. \A i \in 1 .. Len(s) : s[i] \in S
  BY <1>4 DEF Lists
<1> QED BY <1>4, <1>5 DEF before, s

-----------------------------------------------------------------------------
(* Lists of lists.                                                         *)

\* f is the function by which FlattenSeq is defined: f[p] joins the first p
\* lists.
Concatenates(f, lists) ==
  f = [p \in 1 .. Len(lists) |-> IF p = 1 THEN lists[p] ELSE f[p - 1] \o lists[p]]

\* t begins with the lists of s.
Begins(s, t) == Len(s) <= Len(t) /\ \A p \in 1 .. Len(s) : s[p] = t[p]

\* It is determined by the lists.
LEMMA ConcatenatesAgree ==
  ASSUME NEW S, NEW s \in Seq(Seq(S)), NEW t \in Seq(Seq(S)), Begins(s, t),
         NEW f, Concatenates(f, s), NEW g, Concatenates(g, t)
  PROVE  \A p \in 1 .. Len(s) : f[p] = g[p]
<1> USE DEF Begins
<1> DEFINE T == {p \in 1 .. Len(s) : f[p] # g[p]}
<1>1. T \in SUBSET Nat
  OBVIOUS
<1>2. ASSUME T # {} PROVE FALSE
  <2>1. PICK p \in T : \A j \in T : p <= j
    BY <1>1, <1>2, LeastElement
  <2>2. p \in 1 .. Len(s) /\ p \in 1 .. Len(t) /\ Len(s) \in Nat /\ Len(t) \in Nat
    OBVIOUS
  <2>3. f[p] = IF p = 1 THEN s[p] ELSE f[p - 1] \o s[p]
    BY <2>2 DEF Concatenates
  <2>4. g[p] = IF p = 1 THEN t[p] ELSE g[p - 1] \o t[p]
    BY <2>2 DEF Concatenates
  <2>5. CASE p = 1
    BY <2>2, <2>3, <2>4, <2>5
  <2>6. CASE p # 1
    <3>1. p - 1 \in 1 .. Len(s) /\ p - 1 \notin T
      <4>1. p - 1 \in 1 .. Len(s)
        BY <2>2, <2>6
      <4>2. ASSUME p - 1 \in T PROVE FALSE
        <5>1. p <= p - 1
          BY <2>1, <4>2
        <5> QED BY <2>2, <5>1
      <4> QED BY <4>1, <4>2
    <3>2. f[p - 1] = g[p - 1]
      BY <3>1
    <3> QED BY <2>2, <2>3, <2>4, <2>6, <3>2
  <2> QED BY <2>5, <2>6
<1> QED BY <1>2

\* It exists.
LEMMA ConcatenatesExists ==
  ASSUME NEW S, NEW lists \in Seq(Seq(S))
  PROVE  \E f : Concatenates(f, lists)
<1> DEFINE Part(n, f) == f = [p \in 1 .. n |-> IF p = 1 THEN lists[p] ELSE f[p - 1] \o lists[p]]
           T == {n \in 0 .. Len(lists) : ~ \E f : Part(n, f)}
<1> HIDE DEF Part
<1>1. T \in SUBSET Nat /\ Len(lists) \in Nat
  OBVIOUS
<1>2. ASSUME T # {} PROVE FALSE
  <2>1. PICK n \in T : \A m \in T : n <= m
    BY <1>1, <1>2, LeastElement
  <2>2. n \in 0 .. Len(lists) /\ ~ \E f : Part(n, f)
    BY <2>1
  <2>3. CASE n = 0
    <3> DEFINE e == [p \in 1 .. 0 |-> lists[p]]
    <3>1. e = [p \in 1 .. 0 |-> IF p = 1 THEN lists[p] ELSE e[p - 1] \o lists[p]]
      OBVIOUS
    <3>2. Part(n, e)
      BY <2>3, <3>1 DEF Part
    <3> QED BY <2>2, <3>2
  <2>4. CASE n # 0
    <3>1. n - 1 \in 0 .. Len(lists) /\ n - 1 \notin T /\ n \in Nat
      <4>1. n - 1 \in 0 .. Len(lists) /\ n \in Nat
        BY <1>1, <2>2, <2>4
      <4>2. ASSUME n - 1 \in T PROVE FALSE
        <5>1. n <= n - 1
          BY <2>1, <4>2
        <5> QED BY <4>1, <5>1
      <4> QED BY <4>1, <4>2
    <3>2. PICK f : Part(n - 1, f)
      BY <3>1
    <3>8. f = [p \in 1 .. n - 1 |-> IF p = 1 THEN lists[p] ELSE f[p - 1] \o lists[p]]
      BY <3>2 DEF Part
    <3> DEFINE g == [p \in 1 .. n |-> IF p = 1 THEN lists[p] ELSE f[p - 1] \o lists[p]]
    <3>3. \A p \in 1 .. n - 1 : g[p] = f[p]
      <4> TAKE p \in 1 .. n - 1
      <4>1. p \in 1 .. n
        BY <3>1
      <4>2. g[p] = IF p = 1 THEN lists[p] ELSE f[p - 1] \o lists[p]
        BY <4>1
      <4>3. f[p] = IF p = 1 THEN lists[p] ELSE f[p - 1] \o lists[p]
        BY <3>8
      <4> QED BY <4>2, <4>3
    <3>4. \A p \in 1 .. n : p # 1 => p - 1 \in 1 .. n - 1
      BY <3>1
    <3>5. \A p \in 1 .. n : p # 1 => g[p - 1] = f[p - 1]
      BY <3>3, <3>4
    <3>6. g = [p \in 1 .. n |-> IF p = 1 THEN lists[p] ELSE g[p - 1] \o lists[p]]
      BY <3>5
    <3>7. Part(n, g)
      BY <3>6 DEF Part
    <3> QED BY <2>2, <3>7
  <2> QED BY <2>3, <2>4
<1>3. PICK f : Part(Len(lists), f)
  BY <1>1, <1>2
<1> QED BY <1>3 DEF Concatenates, Part

\* FlattenSeq of no list, and of one list more.
LEMMA FlattenNone ==
  ASSUME NEW s, Len(s) = 0
  PROVE  FlattenSeq(s) = s
BY DEF FlattenSeq

LEMMA FlattenConcatenates ==
  ASSUME NEW S, NEW lists \in Seq(Seq(S)), Len(lists) # 0
  PROVE  \E f : Concatenates(f, lists) /\ FlattenSeq(lists) = f[Len(lists)]
<1> DEFINE F == CHOOSE f : Concatenates(f, lists)
<1>1. Concatenates(F, lists)
  BY ConcatenatesExists
<1>2. FlattenSeq(lists) = F[Len(lists)]
  BY DEF FlattenSeq, Concatenates
<1> QED BY <1>1, <1>2

\* A list more is appended at the end.
LEMMA FlattenStep ==
  ASSUME NEW S, NEW s \in Seq(Seq(S)), NEW t \in Seq(Seq(S)), Len(t) = Len(s) + 1,
         \A p \in 1 .. Len(s) : t[p] = s[p]
  PROVE  FlattenSeq(t) = FlattenSeq(s) \o t[Len(t)]
<1>1. Len(s) \in Nat /\ Len(t) \in Nat /\ t[Len(t)] \in Seq(S)
  OBVIOUS
<1>2. PICK g : Concatenates(g, t) /\ FlattenSeq(t) = g[Len(t)]
  <2> Len(t) # 0
    BY <1>1
  <2> QED BY FlattenConcatenates
<1>3. CASE Len(s) = 0
  <2>1. FlattenSeq(s) = << >>
    BY <1>3, FlattenNone
  <2>2. g[1] = t[1]
    BY <1>2, <1>3 DEF Concatenates
  <2>3. FlattenSeq(t) = t[Len(t)]
    BY <1>2, <1>3, <2>2
  <2> QED BY <1>1, <2>1, <2>3
<1>4. CASE Len(s) # 0
  <2>1. PICK f : Concatenates(f, s) /\ FlattenSeq(s) = f[Len(s)]
    BY <1>4, FlattenConcatenates
  <2>2. f[Len(s)] = g[Len(s)]
    <3>1. Len(s) \in 1 .. Len(s) /\ Len(s) <= Len(t)
      BY <1>1, <1>4
    <3>2. \A p \in 1 .. Len(s) : f[p] = g[p]
      <4>1. Concatenates(f, s) /\ Concatenates(g, t) /\ Begins(s, t)
        BY <1>2, <2>1, <3>1 DEF Begins
      <4>2. s \in Seq(Seq(S)) /\ t \in Seq(Seq(S))
        OBVIOUS
      <4> QED BY <3>1, <4>1, <4>2, ConcatenatesAgree
    <3> QED BY <3>1, <3>2
  <2>3. g[Len(t)] = g[Len(s)] \o t[Len(t)]
    <3>1. Len(t) \in 1 .. Len(t) /\ Len(t) # 1 /\ Len(t) - 1 = Len(s)
      BY <1>1, <1>4
    <3>2. g[Len(t)] = IF Len(t) = 1 THEN t[Len(t)] ELSE g[Len(t) - 1] \o t[Len(t)]
      BY <1>2, <3>1 DEF Concatenates
    <3> QED BY <3>1, <3>2
  <2> QED BY <1>2, <2>1, <2>2, <2>3
<1> QED BY <1>3, <1>4

\* The elements are those of the lists.
LEMMA FlattenType ==
  ASSUME NEW S, NEW lists \in Seq(Seq(S))
  PROVE  FlattenSeq(lists) \in Seq(S)
<1>1. CASE Len(lists) = 0
  <2>1. lists = << >>
    BY <1>1
  <2>2. FlattenSeq(lists) = lists
    BY <1>1, FlattenNone
  <2>3. << >> \in Seq(S)
    OBVIOUS
  <2>4. FlattenSeq(lists) = << >>
    BY <2>1, <2>2
  <2> QED BY <2>3, <2>4
<1>2. CASE Len(lists) # 0
  <2>1. PICK f : Concatenates(f, lists) /\ FlattenSeq(lists) = f[Len(lists)]
    BY <1>2, FlattenConcatenates
  <2> DEFINE T == {p \in 1 .. Len(lists) : f[p] \notin Seq(S)}
  <2>2. T \in SUBSET Nat /\ Len(lists) \in Nat
    OBVIOUS
  <2>3. ASSUME T # {} PROVE FALSE
    <3>1. PICK p \in T : \A j \in T : p <= j
      BY <2>2, <2>3, LeastElement
    <3>2. p \in 1 .. Len(lists) /\ lists[p] \in Seq(S)
      OBVIOUS
    <3>3. f[p] = IF p = 1 THEN lists[p] ELSE f[p - 1] \o lists[p]
      BY <2>1, <3>2 DEF Concatenates
    <3>4. CASE p = 1
      BY <3>1, <3>2, <3>3, <3>4
    <3>5. CASE p # 1
      <4>1. p - 1 \in 1 .. Len(lists)
        BY <2>2, <3>2, <3>5
      <4>2. ASSUME p - 1 \in T PROVE FALSE
        <5>1. p <= p - 1
          BY <3>1, <4>2
        <5> QED BY <3>2, <5>1
      <4>3. f[p - 1] \in Seq(S)
        BY <4>1, <4>2
      <4>4. f[p] = f[p - 1] \o lists[p]
        BY <3>3, <3>5
      <4>5. f[p] \in Seq(S)
        BY <3>2, <4>3, <4>4
      <4> QED BY <3>1, <4>5
    <3> QED BY <3>4, <3>5
  <2> QED BY <1>2, <2>1, <2>2, <2>3
<1> QED BY <1>1, <1>2

\* A list that holds the first values of a function, and one value more.
LEMMA AppendValue ==
  ASSUME NEW n \in Nat, NEW f
  PROVE  Append([k \in 1 .. n |-> f[k]], f[n + 1]) = [k \in 1 .. n + 1 |-> f[k]]
<1> DEFINE s == [k \in 1 .. n |-> f[k]]
<1>1. s \in Seq({f[k] : k \in 1 .. n + 1}) /\ Len(s) = n
  OBVIOUS
<1>2. Append(s, f[n + 1]) = [k \in 1 .. n + 1 |-> IF k = n + 1 THEN f[n + 1] ELSE s[k]]
  BY <1>1
<1> QED BY <1>2

-----------------------------------------------------------------------------
(* Induction over numbers, and folds over sequences.                         *)

\* Induction over the numbers from 0 to n, T being those for which it is proved.
LEMMA Climb ==
  ASSUME NEW n \in Nat, NEW T, 0 \in T, \A k \in 1 .. n : k - 1 \in T => k \in T
  PROVE  \A k \in 0 .. n : k \in T
<1> DEFINE B == {k \in 0 .. n : k \notin T}
<1>1. SUFFICES ASSUME B # {} PROVE FALSE
  OBVIOUS
<1>2. B \in SUBSET Nat
  OBVIOUS
<1>3. PICK x \in B : \A y \in B : x <= y
  BY <1>1, <1>2, LeastElement
<1>4. x \in 1 .. n
  OBVIOUS
<1>5. x - 1 \notin B
  BY <1>3, <1>4
<1>6. x - 1 \in T
  BY <1>4, <1>5
<1> QED BY <1>4, <1>6

LEMMA ClimbAll ==
  ASSUME NEW n \in Nat, NEW T,
         \A k \in 1 .. n : (\A j \in 1 .. k - 1 : j \in T) => k \in T
  PROVE  \A k \in 1 .. n : k \in T
<1> DEFINE B == {k \in 1 .. n : k \notin T}
<1>1. SUFFICES ASSUME B # {} PROVE FALSE
  OBVIOUS
<1>2. B \in SUBSET Nat
  OBVIOUS
<1>3. PICK x \in B : \A y \in B : x <= y
  BY <1>1, <1>2, LeastElement
<1>4. x \in 1 .. n /\ x \notin T
  OBVIOUS
<1>5. ASSUME NEW j \in 1 .. x - 1 PROVE j \in T
  <2>1. j \in 1 .. n /\ j < x
    BY <1>4
  <2>2. j \notin B
    BY <1>3, <2>1
  <2> QED BY <2>1, <2>2
<1> QED BY <1>4, <1>5

-----------------------------------------------------------------------------
(* FoldLeft.                                                               *)

Accumulates(g, A, base, step, n) ==
  /\ g \in [0 .. n -> A] /\ g[0] = base
  /\ \A k \in 1 .. n : g[k] = step[<<g[k - 1], k>>]

FoldsSubsets(h, A, base, step, n) ==
  /\ h \in [SUBSET (1 .. n) -> A]
  /\ \A s \in SUBSET (1 .. n) :
       h[s] = IF s = {} THEN base ELSE step[<<h[s \ {Max(s)}], Max(s)>>]

LEMMA MaxIs ==
  ASSUME NEW s \in SUBSET Int, NEW m \in s, \A x \in s : x <= m
  PROVE  Max(s) = m
<1>1. \A x \in s : m >= x
  OBVIOUS
<1>2. ASSUME NEW z \in s, \A x \in s : z >= x PROVE z = m
  BY <1>2
<1> QED BY <1>1, <1>2 DEF Max

LEMMA MaxInInterval ==
  ASSUME NEW n \in Nat, NEW s \in SUBSET (1 .. n), s # {}
  PROVE  Max(s) \in s /\ \A x \in s : x <= Max(s)
<1> DEFINE T == {n - k : k \in s}
<1>1. T \in SUBSET Nat /\ T # {}
  <2>1. \A k \in s : k \in Nat /\ n - k \in Nat /\ n - k \in T
    OBVIOUS
  <2> QED BY <2>1
<1>2. PICK x \in T : \A y \in T : x <= y
  BY <1>1, LeastElement
<1>3. PICK m \in s : x = n - m
  OBVIOUS
<1>4. \A y \in s : n - m <= n - y
  BY <1>2, <1>3
<1>5. \A y \in s : y <= m
  BY <1>4
<1>6. s \in SUBSET Int
  OBVIOUS
<1>7. Max(s) = m
  BY <1>5, <1>6, MaxIs
<1> QED BY <1>5, <1>7

LEMMA FoldSubsetsExist ==
  ASSUME NEW A, NEW base \in A, NEW n \in Nat, NEW step \in [A \X (1 .. n) -> A]
  PROVE  \E h : FoldsSubsets(h, A, base, step, n)
<1> DEFINE T == {k \in 0 .. n : \E h : FoldsSubsets(h, A, base, step, k)}
<1>1. 0 \in T
  <2> DEFINE h == [s \in SUBSET (1 .. 0) |-> base]
  <2>1. SUBSET (1 .. 0) = {{}}
    OBVIOUS
  <2>2. h \in [SUBSET (1 .. 0) -> A]
    OBVIOUS
  <2>3. \A s \in SUBSET (1 .. 0) : s = {} /\ h[s] = base
    BY <2>1
  <2> HIDE DEF h
  <2>4. FoldsSubsets(h, A, base, step, 0)
    BY <2>2, <2>3 DEF FoldsSubsets
  <2> QED BY <2>4
<1>2. ASSUME NEW k \in 1 .. n, k - 1 \in T PROVE k \in T
  <2>1. PICK f : FoldsSubsets(f, A, base, step, k - 1)
    BY <1>2
  <2> DEFINE P == SUBSET (1 .. k - 1)
             h == [s \in SUBSET (1 .. k) |-> IF k \in s THEN step[<<f[s \ {k}], k>>] ELSE f[s]]
  <2>2. f \in [P -> A] /\ \A s \in P : f[s] = IF s = {} THEN base ELSE step[<<f[s \ {Max(s)}], Max(s)>>]
    BY <2>1 DEF FoldsSubsets
  <2>3. \A s \in SUBSET (1 .. k) : s \ {k} \in P /\ (k \notin s => s \in P)
    OBVIOUS
  <2>4. \A s \in SUBSET (1 .. k) : h[s] \in A
    <3> TAKE s \in SUBSET (1 .. k)
    <3>1. f[s \ {k}] \in A /\ (k \notin s => f[s] \in A)
      BY <2>2, <2>3
    <3>2. <<f[s \ {k}], k>> \in A \X (1 .. n)
      BY <3>1
    <3>3. step[<<f[s \ {k}], k>>] \in A
      BY <3>2
    <3> QED BY <3>1, <3>3
  <2>5. \A s \in SUBSET (1 .. k) : h[s] = IF s = {} THEN base ELSE step[<<h[s \ {Max(s)}], Max(s)>>]
    <3> TAKE s \in SUBSET (1 .. k)
    <3>1. CASE k \in s
      <4>1. Max(s) = k
        <5>1. s \in SUBSET Int /\ \A x \in s : x <= k
          OBVIOUS
        <5> QED BY <3>1, <5>1, MaxIs
      <4>2. s \ {k} \in SUBSET (1 .. k) /\ k \notin s \ {k}
        OBVIOUS
      <4>3. h[s \ {k}] = f[s \ {k}]
        BY <4>2
      <4>4. h[s] = step[<<f[s \ {k}], k>>]
        BY <3>1
      <4> HIDE DEF h
      <4> QED BY <3>1, <4>1, <4>3, <4>4
    <3>2. CASE k \notin s
      <4>1. s \in P /\ h[s] = f[s]
        BY <2>3, <3>2
      <4>2. f[s] = IF s = {} THEN base ELSE step[<<f[s \ {Max(s)}], Max(s)>>]
        BY <2>2, <4>1
      <4>3. s \ {Max(s)} \in SUBSET (1 .. k) /\ k \notin s \ {Max(s)}
        BY <3>2
      <4>4. h[s \ {Max(s)}] = f[s \ {Max(s)}]
        BY <4>3
      <4> HIDE DEF h
      <4> QED BY <4>1, <4>2, <4>4
    <3> QED BY <3>1, <3>2
  <2>6. h \in [SUBSET (1 .. k) -> A]
    BY <2>4
  <2> HIDE DEF h
  <2>7. FoldsSubsets(h, A, base, step, k)
    BY <2>5, <2>6 DEF FoldsSubsets
  <2> QED BY <2>7
<1>3. n \in T
  <2> HIDE DEF T
  <2>1. \A k \in 0 .. n : k \in T
    BY <1>1, <1>2, Climb
  <2> QED BY <2>1
<1> QED BY <1>3

\* What a function that folds subsets has of the whole list.
LEMMA FoldPrefixes ==
  ASSUME NEW A, NEW base \in A, NEW n \in Nat, NEW step \in [A \X (1 .. n) -> A], NEW h,
         h[{}] = base,
         \A k \in 1 .. n : h[1 .. k - 1] \in A => h[1 .. k] = step[<<h[1 .. k - 1], k>>]
  PROVE  \E g : Accumulates(g, A, base, step, n) /\ h[1 .. n] = g[n]
<1> DEFINE g == [k \in 0 .. n |-> h[1 .. k]]
           T == {k \in 0 .. n : h[1 .. k] \in A}
<1>1. 1 .. 0 = {}
  OBVIOUS
<1>2. 0 \in T
  BY <1>1
<1>3. ASSUME NEW k \in 1 .. n, k - 1 \in T PROVE k \in T
  <2>1. h[1 .. k] = step[<<h[1 .. k - 1], k>>]
    BY <1>3
  <2>2. <<h[1 .. k - 1], k>> \in A \X (1 .. n)
    BY <1>3
  <2> QED BY <2>1, <2>2
<1>4. \A k \in 0 .. n : k \in T
  <2> HIDE DEF T
  <2> QED BY <1>2, <1>3, Climb
<1>5. g \in [0 .. n -> A] /\ g[0] = base
  BY <1>1, <1>4
<1>6. \A k \in 1 .. n : g[k] = step[<<g[k - 1], k>>]
  <2> TAKE k \in 1 .. n
  <2>1. k - 1 \in 0 .. n /\ k \in 0 .. n
    OBVIOUS
  <2>2. g[k] = h[1 .. k] /\ g[k - 1] = h[1 .. k - 1] /\ h[1 .. k - 1] \in A
    BY <1>4, <2>1
  <2> QED BY <2>2
<1>7. h[1 .. n] = g[n]
  OBVIOUS
<1> HIDE DEF g
<1> QED BY <1>5, <1>6, <1>7 DEF Accumulates

FoldsFrom(fold, A, base, step, n) ==
  /\ base \in A /\ step \in [A \X (1 .. n) -> A] /\ fold[{}] = base
  /\ \A s \in SUBSET (1 .. n) :
       s # {} /\ fold[s \ {Max(s)}] \in A => fold[s] = step[<<fold[s \ {Max(s)}], Max(s)>>]

LEMMA FoldRuns ==
  ASSUME NEW A, NEW base, NEW n \in Nat, NEW step, NEW fold, FoldsFrom(fold, A, base, step, n)
  PROVE  \E g : Accumulates(g, A, base, step, n) /\ fold[1 .. n] = g[n]
<1>1. ASSUME NEW k \in 1 .. n, fold[1 .. k - 1] \in A
      PROVE  fold[1 .. k] = step[<<fold[1 .. k - 1], k>>]
  <2>1. 1 .. k \in SUBSET (1 .. n) /\ 1 .. k # {} /\ (1 .. k) \ {k} = 1 .. k - 1
    OBVIOUS
  <2>2. k \in 1 .. k /\ 1 .. k \in SUBSET Int /\ \A x \in 1 .. k : x <= k
    OBVIOUS
  <2>3. Max(1 .. k) = k
    BY <2>2, MaxIs
  <2> QED BY <1>1, <2>1, <2>3 DEF FoldsFrom
<1> QED BY <1>1, FoldPrefixes DEF FoldsFrom
=============================================================================
