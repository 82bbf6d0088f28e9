------------------------- MODULE CollectionsProofs --------------------------
(***************************************************************************)
(* What SumOver and Only compute, for sets and sequences of any size: the  *)
(* laws of finite sums, and which elements are selected.                   *)
(***************************************************************************)
EXTENDS Collections, FiniteSetTheorems, TLAPS

-----------------------------------------------------------------------------
(* Sums: existence of the recursive function *)

Pick(T) == CHOOSE x \in T : TRUE

\* What the sum of T is, when g gives the sums of smaller sets.
Total(f, g, T) == IF T = {} THEN 0 ELSE f[Pick(T)] + g[T \ {Pick(T)}]

IsSum(g, f, S) == g = [T \in SUBSET S |-> Total(f, g, T)]

\* The subsets of at most n elements, and the sums of these alone.
Small(S, n) == {T \in SUBSET S : Cardinality(T) <= n}

IsPartialSum(g, f, S, n) == g = [T \in Small(S, n) |-> Total(f, g, T)]

\* A set of numbers that is not empty has a smallest one.
LEMMA LeastNumber ==
  ASSUME NEW S, S \subseteq Nat, S # {}
  PROVE  \E n \in S : \A m \in S : n <= m
<1>1. PICK R : R = OpToRel(<, Nat)
  BY Zenon
<1>2. IsWellFoundedOn(R, Nat)
  BY <1>1, NatLessThanWellFounded
<1>3. PICK n \in S : \A m \in S : ~ (<<m, n>> \in R)
  BY <1>2, WFMin, Zenon
<1>4. \A m \in Nat : m < n => <<m, n>> \in R
  BY <1>1 DEF OpToRel
<1>5. \A m \in S : ~ (m < n)
  BY <1>3, <1>4, Zenon
<1> QED
  BY <1>5

\* The element a sum takes out of a set, and what is left.
LEMMA PickIn ==
  ASSUME NEW T, IsFiniteSet(T), T # {}
  PROVE  /\ Pick(T) \in T
         /\ IsFiniteSet(T \ {Pick(T)})
         /\ Cardinality(T) \in Nat
         /\ Cardinality(T \ {Pick(T)}) = Cardinality(T) - 1
<1>1. Pick(T) \in T
  BY DEF Pick
<1> QED
  BY <1>1, FS_RemoveElement, FS_CardinalityType

\* The sums of larger sets follow from those of smaller ones.
LEMMA PartialSumStep ==
  ASSUME NEW f, NEW S, IsFiniteSet(S), NEW n \in Nat,
         NEW g, IsPartialSum(g, f, S, n)
  PROVE  \E h : IsPartialSum(h, f, S, n + 1)
<1>1. PICK h : h = [T \in Small(S, n + 1) |-> Total(f, g, T)]
  BY Zenon
<1>2. ASSUME NEW T \in Small(S, n + 1)
      PROVE  Total(f, g, T) = Total(f, h, T)
  <2>1. CASE T = {}
    BY <2>1 DEF Total
  <2>2. CASE T # {}
    <3>1. IsFiniteSet(T) /\ T \in SUBSET S /\ Cardinality(T) <= n + 1
      BY <1>2, FS_Subset DEF Small
    <3>2. PICK R : R = T \ {Pick(T)}
      BY Zenon
    <3>3. R \in SUBSET S /\ Cardinality(R) <= n
      <4>1. Cardinality(T) \in Nat /\ Cardinality(R) = Cardinality(T) - 1
        BY <2>2, <3>1, <3>2, PickIn
      <4> QED
        BY <3>1, <3>2, <4>1
    <3>4. R \in Small(S, n) /\ R \in Small(S, n + 1)
      <4>1. Cardinality(R) \in Nat
        BY <3>1, <3>2, FS_RemoveElement, FS_CardinalityType
      <4> QED
        BY <3>3, <4>1 DEF Small
    <3>5. g[R] = Total(f, g, R)
      BY <3>4 DEF IsPartialSum
    <3>6. h[R] = Total(f, g, R)
      BY <1>1, <3>4
    <3> QED
      BY <2>2, <3>2, <3>5, <3>6 DEF Total
  <2> QED
    BY <2>1, <2>2
<1>3. h = [T \in Small(S, n + 1) |-> Total(f, h, T)]
  BY <1>1, <1>2
<1> QED
  BY <1>3 DEF IsPartialSum

\* The sum of the empty set.
LEMMA PartialSumZero ==
  ASSUME NEW f, NEW S, IsFiniteSet(S)
  PROVE  \E g : IsPartialSum(g, f, S, 0)
<1>1. PICK g : g = [T \in Small(S, 0) |-> 0]
  BY Zenon
<1>2. \A T \in Small(S, 0) : T = {}
  <2> TAKE T \in Small(S, 0)
  <2>1. T \in SUBSET S /\ Cardinality(T) <= 0
    BY DEF Small
  <2>2. IsFiniteSet(T) /\ Cardinality(T) \in Nat
    BY <2>1, FS_Subset, FS_CardinalityType
  <2> QED
    BY <2>1, <2>2, FS_EmptySet
<1>3. \A T \in Small(S, 0) : Total(f, g, T) = 0
  BY <1>2 DEF Total
<1>4. g = [T \in Small(S, 0) |-> Total(f, g, T)]
  BY <1>1, <1>3
<1> QED
  BY <1>4 DEF IsPartialSum

\* There are sums of the subsets of any size.
LEMMA PartialSums ==
  ASSUME NEW f, NEW S, IsFiniteSet(S), NEW n \in Nat
  PROVE  \E g : IsPartialSum(g, f, S, n)
<1> DEFINE Bad == {m \in Nat : ~ \E g : IsPartialSum(g, f, S, m)}
<1>1. SUFFICES ASSUME Bad # {} PROVE FALSE
  BY Zenon
<1>2. PICK m \in Bad : \A k \in Bad : m <= k
  BY <1>1, LeastNumber
<1>3. m \in Nat /\ ~ \E g : IsPartialSum(g, f, S, m)
  BY <1>2
<1>4. m # 0
  BY <1>3, PartialSumZero
<1>5. m - 1 \in Nat /\ m - 1 \notin Bad
  BY <1>2, <1>3, <1>4
<1>6. PICK g : IsPartialSum(g, f, S, m - 1)
  BY <1>5
<1>7. \E h : IsPartialSum(h, f, S, (m - 1) + 1)
  BY <1>5, <1>6, PartialSumStep
<1>8. (m - 1) + 1 = m
  BY <1>3
<1> QED
  BY <1>3, <1>7, <1>8, Zenon

\* There is a function that gives the sums of all subsets of a finite set.
LEMMA SumExists ==
  ASSUME NEW f, NEW S, IsFiniteSet(S)
  PROVE  \E g : IsSum(g, f, S)
<1>1. PICK n \in Nat : n = Cardinality(S)
  BY FS_CardinalityType
<1>2. PICK g : IsPartialSum(g, f, S, n)
  BY PartialSums
<1>3. Small(S, n) = SUBSET S
  BY <1>1, FS_Subset DEF Small
<1> QED
  BY <1>2, <1>3 DEF IsPartialSum, IsSum

\* SumOver is the value of such a function.
LEMMA SumOverIs ==
  ASSUME NEW f, NEW S, IsFiniteSet(S)
  PROVE  \E g : IsSum(g, f, S) /\ SumOver(f, S) = g[S]
<1>1. SumOver(f, S) = (CHOOSE g : IsSum(g, f, S))[S]
  BY DEF SumOver, IsSum, Total, Pick
<1>2. IsSum(CHOOSE g : IsSum(g, f, S), f, S)
  BY SumExists
<1> QED
  BY <1>1, <1>2

-----------------------------------------------------------------------------
(* Uniqueness *)

Agree(f, g, S) == \A x \in S : f[x] = g[x]

SumsOf(u, f, S, v, g, R) ==
    /\ IsFiniteSet(S)
    /\ S \subseteq R
    /\ Agree(f, g, S)
    /\ IsSum(u, f, S)
    /\ IsSum(v, g, R)

\* Two functions that agree on S have the same sums of the subsets of S.
LEMMA SumsAgree ==
  ASSUME NEW f, NEW g, NEW S, NEW R, NEW u, NEW v, SumsOf(u, f, S, v, g, R)
  PROVE  \A T \in SUBSET S : u[T] = v[T]
<1> USE DEF SumsOf
<1> TAKE T \in SUBSET S
<1> DEFINE Bad == {n \in Nat : \E W \in SUBSET S : Cardinality(W) = n /\ u[W] # v[W]}
<1>1. SUFFICES ASSUME u[T] # v[T] PROVE FALSE
  OBVIOUS
<1>2. Cardinality(T) \in Nat
  BY FS_Subset, FS_CardinalityType
<1>3. Bad # {}
  BY <1>1, <1>2
<1>4. PICK n \in Bad : \A k \in Bad : n <= k
  BY <1>3, LeastNumber
<1>5. PICK W \in SUBSET S : Cardinality(W) = n /\ u[W] # v[W]
  BY <1>4
<1>6. u[W] = Total(f, u, W) /\ v[W] = Total(g, v, W)
  BY <1>5 DEF IsSum
<1>7. W # {}
  BY <1>5, <1>6 DEF Total
<1>8. PICK X : X = W \ {Pick(W)}
  BY Zenon
<1>9. /\ Pick(W) \in W
      /\ Cardinality(X) = n - 1
      /\ Cardinality(X) \in Nat
  <2>1. IsFiniteSet(W)
    BY <1>5, FS_Subset
  <2>2. IsFiniteSet(X) /\ Pick(W) \in W /\ Cardinality(X) = n - 1
    BY <1>5, <1>7, <1>8, <2>1, PickIn
  <2> QED
    BY <2>2, FS_CardinalityType
<1>10. u[X] = v[X]
  <2>1. X \in SUBSET S
    BY <1>5, <1>8
  <2>2. n - 1 \notin Bad
    BY <1>4
  <2> QED
    BY <1>9, <2>1, <2>2
<1>11. f[Pick(W)] = g[Pick(W)]
  BY <1>5, <1>9 DEF Agree
<1> QED
  BY <1>5, <1>6, <1>7, <1>8, <1>10, <1>11 DEF Total

\* The sum depends on the values at the elements only.
LEMMA SumSame ==
  ASSUME NEW S, IsFiniteSet(S), NEW f, NEW g, \A x \in S : f[x] = g[x]
  PROVE  SumOver(f, S) = SumOver(g, S)
<1>1. PICK u : IsSum(u, f, S) /\ SumOver(f, S) = u[S]
  BY SumOverIs
<1>2. PICK v : IsSum(v, g, S) /\ SumOver(g, S) = v[S]
  BY SumOverIs
<1>3. SumsOf(u, f, S, v, g, S)
  BY <1>1, <1>2 DEF SumsOf, Agree
<1>4. \A T \in SUBSET S : u[T] = v[T]
  BY <1>3, SumsAgree
<1> QED
  BY <1>1, <1>2, <1>4

\* A sum over nothing is zero.
LEMMA SumEmpty ==
  ASSUME NEW f
  PROVE  SumOver(f, {}) = 0
<1>1. IsFiniteSet({})
  BY FS_EmptySet
<1>2. PICK u : IsSum(u, f, {}) /\ SumOver(f, {}) = u[{}]
  BY <1>1, SumOverIs
<1> QED
  BY <1>2 DEF IsSum, Total

\* A sum is one of its terms and the sum of the others.
LEMMA SumPick ==
  ASSUME NEW f, NEW S, IsFiniteSet(S), S # {}
  PROVE  SumOver(f, S) = f[Pick(S)] + SumOver(f, S \ {Pick(S)})
<1>1. PICK R : R = S \ {Pick(S)}
  BY Zenon
<1>2. IsFiniteSet(R)
  BY <1>1, PickIn
<1>3. PICK u : IsSum(u, f, S) /\ SumOver(f, S) = u[S]
  BY SumOverIs
<1>4. PICK v : IsSum(v, f, R) /\ SumOver(f, R) = v[R]
  BY <1>2, SumOverIs
<1>5. SumsOf(v, f, R, u, f, S)
  BY <1>1, <1>2, <1>3, <1>4 DEF SumsOf, Agree
<1>6. \A T \in SUBSET R : v[T] = u[T]
  BY <1>5, SumsAgree
<1>7. u[S] = f[Pick(S)] + u[R]
  BY <1>1, <1>3 DEF IsSum, Total
<1> QED
  BY <1>1, <1>3, <1>4, <1>6, <1>7

-----------------------------------------------------------------------------
(* The laws *)

\* A sum of integers is an integer.
LEMMA SumType ==
  ASSUME NEW S, IsFiniteSet(S), NEW f, \A x \in S : f[x] \in Int
  PROVE  SumOver(f, S) \in Int
<1> DEFINE Bad == {n \in Nat : \E T \in SUBSET S : Cardinality(T) = n /\ SumOver(f, T) \notin Int}
<1>1. SUFFICES ASSUME SumOver(f, S) \notin Int PROVE FALSE
  OBVIOUS
<1>2. Cardinality(S) \in Nat
  BY FS_CardinalityType
<1>3. Bad # {}
  BY <1>1, <1>2
<1>4. PICK n \in Bad : \A k \in Bad : n <= k
  BY <1>3, LeastNumber
<1>5. PICK T \in SUBSET S : Cardinality(T) = n /\ SumOver(f, T) \notin Int
  BY <1>4
<1>6. IsFiniteSet(T) /\ T # {}
  <2>1. SumOver(f, {}) \in Int
    BY SumEmpty
  <2> QED
    BY <1>5, <2>1, FS_Subset, Zenon
<1>7. PICK R : R = T \ {Pick(T)}
  BY Zenon
<1>8. /\ Pick(T) \in T
      /\ IsFiniteSet(R)
      /\ Cardinality(R) = n - 1
  BY <1>5, <1>6, <1>7, PickIn
<1>9. Cardinality(R) \in Nat /\ n - 1 \notin Bad
  BY <1>4, <1>8, FS_CardinalityType
<1>10. SumOver(f, R) \in Int
  BY <1>5, <1>7, <1>8, <1>9
<1>11. SumOver(f, T) = f[Pick(T)] + SumOver(f, R)
  BY <1>6, <1>7, SumPick
<1>12. f[Pick(T)] \in Int
  BY <1>5, <1>8
<1> QED
  BY <1>5, <1>10, <1>11, <1>12

IntOn(f, S) == \A x \in S : f[x] \in Int

\* Of what is left after one element is taken out of a finite set.
LEMMA Without ==
  ASSUME NEW S, IsFiniteSet(S), NEW T \in SUBSET S, NEW x \in T
  PROVE  /\ T \ {x} \in SUBSET S
         /\ Cardinality(T \ {x}) = Cardinality(T) - 1
         /\ Cardinality(T) \in Nat
         /\ Cardinality(T) - 1 \in Nat
<1>1. IsFiniteSet(T)
  BY FS_Subset
<1>2. IsFiniteSet(T \ {x}) /\ Cardinality(T \ {x}) = Cardinality(T) - 1
  BY <1>1, FS_RemoveElement
<1>3. Cardinality(T) \in Nat /\ Cardinality(T) - 1 \in Nat
  BY <1>1, <1>2, FS_CardinalityType
<1> QED
  BY <1>2, <1>3

\* So is the sum over a part of the set.
LEMMA SumsAreInt ==
  ASSUME NEW S, IsFiniteSet(S), NEW f, IntOn(f, S), NEW T \in SUBSET S
  PROVE  SumOver(f, T) \in Int
<1>1. IsFiniteSet(T)
  BY FS_Subset
<1>2. \A x \in T : f[x] \in Int
  BY DEF IntOn
<1> QED
  BY <1>1, <1>2, SumType

\* Any element may be taken out first.
LEMMA SumRemove ==
  ASSUME NEW S, IsFiniteSet(S), NEW f, IntOn(f, S), NEW e \in S
  PROVE  SumOver(f, S) = f[e] + SumOver(f, S \ {e})
<1> DEFINE Wrong(T, x) == SumOver(f, T) # f[x] + SumOver(f, T \ {x})
           Bad == {n \in Nat : \E T \in SUBSET S :
                      Cardinality(T) = n /\ \E x \in T : Wrong(T, x)}
<1>1. SUFFICES ASSUME Wrong(S, e) PROVE FALSE
  OBVIOUS
<1> HIDE DEF Wrong
<1>2. Cardinality(S) \in Nat
  BY FS_CardinalityType
<1>3. Bad # {}
  BY <1>1, <1>2
<1>4. PICK n \in Bad : \A k \in Bad : n <= k
  BY <1>3, LeastNumber
<1>5. PICK T \in SUBSET S : Cardinality(T) = n /\ \E x \in T : Wrong(T, x)
  BY <1>4
<1> HIDE DEF Bad
<1>0. \A y \in T : /\ T \ {y} \in SUBSET S
                    /\ Cardinality(T \ {y}) = n - 1
                    /\ n - 1 \in Nat
                    /\ n \in Nat
  <2> TAKE y \in T
  <2>1. Cardinality(T) = n
    BY <1>5
  <2>2. /\ T \ {y} \in SUBSET S
        /\ Cardinality(T \ {y}) = Cardinality(T) - 1
        /\ Cardinality(T) \in Nat
        /\ Cardinality(T) - 1 \in Nat
    BY Without
  <2> QED
    BY <2>1, <2>2
<1>6. PICK x \in T : Wrong(T, x)
  BY <1>5
<1>7. PICK p : p = Pick(T)
  BY Zenon
<1>8. IsFiniteSet(T) /\ T # {}
  BY <1>5, <1>6, FS_Subset
<1>9. p \in T /\ SumOver(f, T) = f[p] + SumOver(f, T \ {p})
  BY <1>7, <1>8, PickIn, SumPick
<1>10. p # x
  BY <1>6, <1>9 DEF Wrong
<1>11. n - 1 \in Nat /\ n - 1 \notin Bad
  <2>1. n - 1 \in Nat /\ n \in Nat
    BY <1>0, <1>6
  <2> QED
    BY <2>1, <1>4
<1>12. ~ Wrong(T \ {p}, x)
  <2>1. T \ {p} \in SUBSET S /\ Cardinality(T \ {p}) = n - 1
    BY <1>0, <1>9
  <2> QED
    BY <2>1, <1>6, <1>10, <1>11 DEF Bad
<1>13. ~ Wrong(T \ {x}, p)
  <2>1. T \ {x} \in SUBSET S /\ Cardinality(T \ {x}) = n - 1
    BY <1>0
  <2> QED
    BY <2>1, <1>9, <1>10, <1>11 DEF Bad
<1>14. PICK a, b, c : /\ a = SumOver(f, T \ {p})
                      /\ b = SumOver(f, T \ {x})
                      /\ c = SumOver(f, (T \ {p}) \ {x})
  BY Zenon
<1>15. (T \ {p}) \ {x} = (T \ {x}) \ {p}
  OBVIOUS
<1>16. a = f[x] + c
  BY <1>12, <1>14 DEF Wrong
<1>17. b = f[p] + c
  BY <1>13, <1>14, <1>15 DEF Wrong
<1>18. c \in Int
  <2>1. (T \ {p}) \ {x} \in SUBSET S
    BY <1>5
  <2> QED
    BY <1>14, <2>1, SumsAreInt
<1>19. f[p] \in Int /\ f[x] \in Int
  BY <1>5, <1>6, <1>9 DEF IntOn
<1>20. f[p] + a = f[x] + b
  BY <1>16, <1>17, <1>18, <1>19
<1> QED
  BY <1>6, <1>9, <1>14, <1>20 DEF Wrong

\* A new element adds its value.
LEMMA SumInsert ==
  ASSUME NEW S, IsFiniteSet(S), NEW f, NEW e, e \notin S, IntOn(f, S \cup {e})
  PROVE  SumOver(f, S \cup {e}) = f[e] + SumOver(f, S)
<1>1. IsFiniteSet(S \cup {e})
  BY FS_AddElement
<1>2. (S \cup {e}) \ {e} = S /\ e \in S \cup {e}
  OBVIOUS
<1>3. SumOver(f, S \cup {e}) = f[e] + SumOver(f, (S \cup {e}) \ {e})
  BY <1>1, <1>2, SumRemove
<1> QED
  BY <1>2, <1>3

\* When one value changes, so does the sum, by as much.
LEMMA SumChange ==
  ASSUME NEW S, IsFiniteSet(S), NEW f, NEW g, IntOn(f, S), IntOn(g, S), NEW e \in S,
         \A x \in S : x # e => f[x] = g[x]
  PROVE  SumOver(g, S) = SumOver(f, S) - f[e] + g[e]
<1>1. PICK a, b, r : /\ a = SumOver(f, S)
                     /\ b = SumOver(g, S)
                     /\ r = SumOver(f, S \ {e})
  BY Zenon
<1>2. IsFiniteSet(S \ {e})
  BY FS_RemoveElement
<1>3. \A x \in S \ {e} : f[x] = g[x]
  OBVIOUS
<1>4. r = SumOver(g, S \ {e})
  BY <1>1, <1>2, <1>3, SumSame
<1>5. a = f[e] + r
  BY <1>1, SumRemove
<1>6. b = g[e] + r
  BY <1>1, <1>4, SumRemove
<1>7. f[e] \in Int /\ g[e] \in Int
  BY DEF IntOn
<1>8. r \in Int
  BY <1>1, SumsAreInt
<1>9. b = a - f[e] + g[e]
  BY <1>5, <1>6, <1>7, <1>8
<1> QED
  BY <1>1, <1>9

\* Sums of natural numbers grow with the set.
LEMMA SumMonotone ==
  ASSUME NEW S, IsFiniteSet(S), NEW f, \A x \in S : f[x] \in Nat, NEW Q \in SUBSET S
  PROVE  0 <= SumOver(f, Q) /\ SumOver(f, Q) <= SumOver(f, S)
<1> DEFINE Right(R, T) == 0 <= SumOver(f, R) /\ SumOver(f, R) <= SumOver(f, T)
           Bad == {n \in Nat : \E T \in SUBSET S :
                      Cardinality(T) = n /\ \E R \in SUBSET T : ~ Right(R, T)}
<1>1. SUFFICES ASSUME ~ Right(Q, S) PROVE FALSE
  OBVIOUS
<1> HIDE DEF Right
<1>2. Cardinality(S) \in Nat
  BY FS_CardinalityType
<1>3. Bad # {}
  BY <1>1, <1>2
<1>4. PICK n \in Bad : \A k \in Bad : n <= k
  BY <1>3, LeastNumber
<1>5. PICK T \in SUBSET S : Cardinality(T) = n /\ \E R \in SUBSET T : ~ Right(R, T)
  BY <1>4
<1>6. PICK R \in SUBSET T : ~ Right(R, T)
  BY <1>5
<1> HIDE DEF Bad
<1>7. IntOn(f, S)
  BY DEF IntOn
<1>8. T # {}
  <2>1. Right({}, {})
    BY SumEmpty DEF Right
  <2>2. T = {} => R = {}
    OBVIOUS
  <2> QED
    BY <1>6, <2>1, <2>2, Zenon
<1>9. PICK x \in T : x \notin R \/ R = T
  BY <1>8
<1>10. T \ {x} \in SUBSET S /\ Cardinality(T \ {x}) = n - 1 /\ n \in Nat /\ n - 1 \in Nat
  <2>1. T \in SUBSET S /\ Cardinality(T) = n /\ x \in T
    BY <1>5
  <2> QED
    BY <2>1, Without
<1>11. \A W \in SUBSET (T \ {x}) : Right(W, T \ {x})
  <2>1. n - 1 \notin Bad
    BY <1>4, <1>10
  <2> QED
    BY <1>10, <2>1 DEF Bad
<1>12. PICK a, b : a = SumOver(f, T) /\ b = SumOver(f, T \ {x})
  BY Zenon
<1>13. a = f[x] + b
  <2>1. IsFiniteSet(T) /\ IntOn(f, T)
    BY <1>7, FS_Subset DEF IntOn
  <2> QED
    BY <1>12, <2>1, SumRemove
<1>14. f[x] \in Nat /\ b \in Int /\ a \in Int
  BY <1>7, <1>10, <1>12, SumsAreInt
<1>15. CASE x \notin R
  <2>1. PICK r \in Int : r = SumOver(f, R)
    <3>1. R \in SUBSET S
      OBVIOUS
    <3> QED
      BY <1>7, <3>1, SumsAreInt
  <2>2. 0 <= r /\ r <= b
    BY <1>11, <1>12, <1>15, <2>1 DEF Right
  <2>3. 0 <= r /\ r <= a
    BY <1>13, <1>14, <2>2
  <2> QED
    BY <1>6, <1>12, <2>1, <2>3 DEF Right
<1>16. CASE R = T
  <2>1. 0 <= b
    BY <1>11, <1>12 DEF Right
  <2>2. 0 <= a /\ a <= a
    BY <1>13, <1>14, <2>1
  <2> QED
    BY <1>6, <1>12, <1>16, <2>2 DEF Right
<1> QED
  BY <1>9, <1>15, <1>16

\* A sum of zeros is zero.
LEMMA SumZero ==
  ASSUME NEW S, IsFiniteSet(S), NEW f, \A x \in S : f[x] = 0
  PROVE  SumOver(f, S) = 0
<1> DEFINE Bad == {n \in Nat : \E T \in SUBSET S : Cardinality(T) = n /\ SumOver(f, T) # 0}
<1>1. SUFFICES ASSUME SumOver(f, S) # 0 PROVE FALSE
  OBVIOUS
<1>2. Cardinality(S) \in Nat
  BY FS_CardinalityType
<1>3. Bad # {}
  BY <1>1, <1>2
<1>4. PICK n \in Bad : \A k \in Bad : n <= k
  BY <1>3, LeastNumber
<1>5. PICK T \in SUBSET S : Cardinality(T) = n /\ SumOver(f, T) # 0
  BY <1>4
<1> HIDE DEF Bad
<1>6. IsFiniteSet(T) /\ T # {}
  <2>1. SumOver(f, {}) = 0
    BY SumEmpty
  <2> QED
    BY <1>5, <2>1, FS_Subset, Zenon
<1>7. Pick(T) \in T
  BY <1>6, PickIn
<1>8. PICK R : R = T \ {Pick(T)}
  BY Zenon
<1>9. R \in SUBSET S /\ Cardinality(R) = n - 1 /\ n \in Nat /\ n - 1 \in Nat
  BY <1>5, <1>7, <1>8, Without
<1>10. n - 1 \notin Bad
  BY <1>4, <1>9
<1>11. SumOver(f, R) = 0
  BY <1>9, <1>10 DEF Bad
<1>12. SumOver(f, T) = f[Pick(T)] + SumOver(f, R)
  BY <1>6, <1>8, SumPick
<1>13. f[Pick(T)] = 0
  BY <1>5, <1>7
<1> QED
  BY <1>5, <1>11, <1>12, <1>13

-----------------------------------------------------------------------------
(* Finite sets *)

\* Pairs of a first element d and a number below m[d].
LEMMA PairsFinite ==
  ASSUME NEW D, IsFiniteSet(D), NEW m \in [D -> Nat]
  PROVE  IsFiniteSet(UNION {{<<d, n>> : n \in 0 .. m[d] - 1} : d \in D})
<1> DEFINE Row(d) == {<<d, n>> : n \in 0 .. m[d] - 1}
           Rows == {Row(d) : d \in D}
<1>1. \A d \in D : IsFiniteSet(Row(d))
  <2> TAKE d \in D
  <2>1. PICK I : I = 0 .. m[d] - 1
    BY Zenon
  <2>2. IsFiniteSet(I)
    BY <2>1, FS_Interval
  <2>3. PICK h : h = [n \in I |-> <<d, n>>]
    BY Zenon
  <2>4. h \in Surjection(I, Row(d))
    BY <2>1, <2>3 DEF Surjection
  <2> QED
    BY <2>2, <2>4, FS_Surjection
<1> HIDE DEF Row
<1>2. IsFiniteSet(Rows)
  <2>1. PICK h : h = [d \in D |-> Row(d)]
    BY Zenon
  <2>2. h \in Surjection(D, Rows)
    BY <2>1 DEF Surjection
  <2> QED
    BY <2>2, FS_Surjection
<1>3. \A T \in Rows : IsFiniteSet(T)
  BY <1>1
<1>4. IsFiniteSet(UNION Rows)
  BY <1>2, <1>3, FS_UNION
<1> QED
  BY <1>4 DEF Row

-----------------------------------------------------------------------------
(* Selection *)

Next1(k, q, S, n) ==
    IF n = 0 THEN <<>> ELSE IF q[n] \in S THEN Append(k[n - 1], q[n]) ELSE k[n - 1]

\* The selection from the first m elements, for every m up to n.
IsKept(k, q, S, n) == k = [m \in 0 .. n |-> Next1(k, q, S, m)]

\* The selections from the prefixes of a sequence are well defined.
LEMMA KeptExists ==
  ASSUME NEW q, NEW S, NEW n \in Nat
  PROVE  \E k : IsKept(k, q, S, n)
<1> DEFINE Bad == {m \in Nat : ~ \E k : IsKept(k, q, S, m)}
<1>1. SUFFICES ASSUME Bad # {} PROVE FALSE
  BY Zenon
<1>2. PICK m \in Bad : \A j \in Bad : m <= j
  BY <1>1, LeastNumber
<1>3. m \in Nat /\ ~ \E k : IsKept(k, q, S, m)
  BY <1>2
<1>4. CASE m = 0
  <2>1. PICK k : k = [j \in 0 .. 0 |-> <<>>]
    BY Zenon
  <2>2. \A j \in 0 .. 0 : j = 0
    OBVIOUS
  <2>3. k = [j \in 0 .. 0 |-> Next1(k, q, S, j)]
    BY <2>1, <2>2 DEF Next1
  <2> QED
    BY <1>3, <1>4, <2>3 DEF IsKept
<1>5. CASE m # 0
  <2>1. m - 1 \in Nat /\ m - 1 \notin Bad
    BY <1>2, <1>3, <1>5
  <2>2. PICK k : IsKept(k, q, S, m - 1)
    BY <2>1
  <2> HIDE DEF Bad
  <2>3. PICK h : h = [j \in 0 .. m |-> Next1(k, q, S, j)]
    BY Zenon
  <2>4. \A j \in 0 .. m - 1 : h[j] = k[j]
    BY <1>3, <2>2, <2>3 DEF IsKept
  <2>5. \A j \in 0 .. m : j # 0 => j - 1 \in 0 .. m - 1
    BY <1>3
  <2>6. \A j \in 0 .. m : Next1(k, q, S, j) = Next1(h, q, S, j)
    BY <2>4, <2>5 DEF Next1
  <2>7. IsKept(h, q, S, m)
    BY <2>3, <2>6 DEF IsKept
  <2> QED
    BY <1>3, <2>7
<1> QED
  BY <1>4, <1>5

\* Only elements of the sequence that are in the set are selected.
LEMMA OnlySelects ==
  ASSUME NEW X, NEW q \in Seq(X), NEW S
  PROVE  /\ Only(q, S) \in Seq(X)
         /\ \A i \in DOMAIN Only(q, S) : \E j \in DOMAIN q : Only(q, S)[i] = q[j] /\ q[j] \in S
<1>1. PICK n \in Nat : n = Len(q)
  OBVIOUS
<1>2. Only(q, S) = (CHOOSE k : IsKept(k, q, S, n))[n]
  BY <1>1 DEF Only, IsKept, Next1
<1>3. PICK k : k = CHOOSE h : IsKept(h, q, S, n)
  BY Zenon
<1>4. IsKept(k, q, S, n)
  BY <1>3, KeptExists
<1>5. \A m \in 0 .. n : k[m] = Next1(k, q, S, m)
  BY <1>4 DEF IsKept
<1> DEFINE Good(r) == /\ r \in Seq(X)
                      /\ \A i \in DOMAIN r : \E j \in DOMAIN q : r[i] = q[j] /\ q[j] \in S
           Bad == {m \in 0 .. n : ~ Good(k[m])}
<1>6. \A r, x : Good(r) /\ x \in S /\ (\E j \in DOMAIN q : x = q[j]) => Good(Append(r, x))
  <2> SUFFICES ASSUME NEW r, NEW x, Good(r), x \in S, NEW j \in DOMAIN q, x = q[j]
               PROVE  Good(Append(r, x))
    OBVIOUS
  <2>1. x \in X /\ Append(r, x) \in Seq(X)
    OBVIOUS
  <2>2. \A i \in DOMAIN Append(r, x) :
            \/ i \in DOMAIN r /\ Append(r, x)[i] = r[i]
            \/ Append(r, x)[i] = x
    OBVIOUS
  <2> QED
    BY <2>1, <2>2
<1>7. Good(<<>>)
  OBVIOUS
<1> HIDE DEF Good
<1>8. Bad = {}
  <2>1. SUFFICES ASSUME Bad # {} PROVE FALSE
    OBVIOUS
  <2>2. Bad \subseteq Nat
    OBVIOUS
  <2>3. PICK m \in Bad : \A j \in Bad : m <= j
    BY <2>1, <2>2, LeastNumber
  <2>4. m \in 0 .. n /\ ~ Good(k[m])
    BY <2>3
  <2>5. m # 0
    BY <1>5, <1>7, <2>4 DEF Next1
  <2>6. m - 1 \in 0 .. n /\ m \in DOMAIN q
    BY <1>1, <2>4, <2>5
  <2>7. Good(k[m - 1])
    BY <2>3, <2>6
  <2>8. k[m] = IF q[m] \in S THEN Append(k[m - 1], q[m]) ELSE k[m - 1]
    BY <1>5, <2>4, <2>5 DEF Next1
  <2> QED
    BY <1>6, <2>4, <2>6, <2>7, <2>8
<1>9. Good(k[n])
  BY <1>8
<1> QED
  BY <1>2, <1>3, <1>9 DEF Good
=============================================================================
