----------------------------- MODULE FiniteSums -----------------------------
(***************************************************************************)
(* Sums over finite sets: what MapThenSumSet of the community modules      *)
(* computes, one number per element.  Every lemma is an induction over the *)
(* subsets of a finite set, made by way of a smallest counterexample: the  *)
(* least element the library's well-founded orderings promise.             *)
(***************************************************************************)
EXTENDS FiniteSetsExt, FiniteSetTheorems, TLAPS

\* The sum of w over S.
Total(w, S) == MapThenSumSet(LAMBDA x : w[x], S)

(* A property of sets fails first at a set all of whose subsets have it.   *)
LEMMA SmallestSet ==
  ASSUME NEW S, IsFiniteSet(S), NEW Bad, Bad \subseteq SUBSET S, Bad # {}
  PROVE  \E T \in Bad : \A U \in SUBSET T : U # T => U \notin Bad
<1>1. IsWellFoundedOn(StrictSubsetOrdering(S), FiniteSubsetsOf(S))
  BY FS_StrictSubsetOrderingWellFounded
<1>2. Bad \subseteq FiniteSubsetsOf(S)
  BY FS_Subset DEF FiniteSubsetsOf
<1>3. PICK T \in Bad : \A U \in Bad : ~ (<<U, T>> \in StrictSubsetOrdering(S))
  BY <1>1, <1>2, WFMin
<1> QED
  BY <1>3 DEF StrictSubsetOrdering

SumStep(w, g, T) ==
  IF T = {} THEN 0 ELSE w[CHOOSE x \in T : TRUE] + g[T \ {CHOOSE x \in T : TRUE}]

\* g computes the sums of w over the subsets of S.
Sums(w, S, g) == g = [T \in SUBSET S |-> SumStep(w, g, T)]

LEMMA TotalIsSum ==
  ASSUME NEW w, NEW S, \E g : Sums(w, S, g)
  PROVE  \E g : Sums(w, S, g) /\ Total(w, S) = g[S]
<1> DEFINE h == CHOOSE g : g = [T \in SUBSET S |-> SumStep(w, g, T)]
<1>1. Sums(w, S, h)
  BY DEF Sums
<1>2. Total(w, S) = h[S]
  BY DEF Total, MapThenSumSet, MapThenFoldSet, SumStep
<1> QED
  BY <1>1, <1>2

LEMMA SumsAgree ==
  ASSUME NEW w, NEW v, NEW S, IsFiniteSet(S), NEW T \in SUBSET S,
         NEW g, NEW h, Sums(w, S, g), Sums(v, T, h), \A x \in T : w[x] = v[x]
  PROVE  g[T] = h[T]
<1> DEFINE Bad == {U \in SUBSET T : g[U] # h[U]}
<1>1. SUFFICES ASSUME Bad # {} PROVE FALSE
  OBVIOUS
<1>2. IsFiniteSet(T)
  BY FS_Subset
<1>3. PICK U \in Bad : \A V \in SUBSET U : V # U => V \notin Bad
  <2>1. Bad \subseteq SUBSET T
    OBVIOUS
  <2> HIDE DEF Bad
  <2> QED
    BY <1>1, <1>2, <2>1, SmallestSet
<1>4. g[U] = SumStep(w, g, U) /\ h[U] = SumStep(v, h, U)
  BY DEF Sums
<1>5. CASE U = {}
  BY <1>4, <1>5 DEF SumStep
<1>6. CASE U # {}
  <2> DEFINE c == CHOOSE x \in U : TRUE
  <2>1. c \in U
    BY <1>6
  <2> HIDE DEF c
  <2>2. U \ {c} \in SUBSET U /\ U \ {c} # U /\ U \ {c} \in SUBSET T
    BY <2>1
  <2>3. g[U \ {c}] = h[U \ {c}] /\ w[c] = v[c]
    BY <1>3, <2>1, <2>2
  <2>4. g[U] = w[c] + g[U \ {c}] /\ h[U] = v[c] + h[U \ {c}]
    BY <1>4, <1>6 DEF SumStep, c
  <2> QED
    BY <2>3, <2>4
<1> QED
  BY <1>5, <1>6

LEMMA SumsRestrict ==
  ASSUME NEW w, NEW S, IsFiniteSet(S), NEW T \in SUBSET S,
         NEW g, NEW h, Sums(w, S, g), Sums(w, T, h)
  PROVE  g[T] = h[T]
<1> DEFINE v == w
<1>1. Sums(v, T, h) /\ \A x \in T : w[x] = v[x]
  OBVIOUS
<1> HIDE DEF v
<1> QED
  BY <1>1, SumsAgree

LEMMA SumsExist ==
  ASSUME NEW w, NEW S, IsFiniteSet(S)
  PROVE  \E g : Sums(w, S, g)
<1> DEFINE Bad == {U \in SUBSET S : ~ \E g : Sums(w, U, g)}
<1>1. SUFFICES ASSUME Bad # {} PROVE FALSE
  OBVIOUS
<1>2. PICK T \in Bad : \A V \in SUBSET T : V # T => V \notin Bad
  <2>1. Bad \subseteq SUBSET S
    OBVIOUS
  <2> HIDE DEF Bad
  <2> QED
    BY <1>1, <2>1, SmallestSet
<1>3. \A V \in SUBSET T : V # T => \E g : Sums(w, V, g)
  BY <1>2
<1> DEFINE below == [U \in SUBSET T |-> Total(w, U)]
           g == [U \in SUBSET T |-> SumStep(w, below, U)]
<1>4. ASSUME NEW U \in SUBSET T, U # T PROVE Total(w, U) = SumStep(w, below, U)
  <2>1. PICK f : Sums(w, U, f) /\ Total(w, U) = f[U]
    BY <1>3, <1>4, TotalIsSum
  <2>2. f[U] = SumStep(w, f, U)
    BY <2>1 DEF Sums
  <2>3. CASE U = {}
    BY <2>1, <2>2, <2>3 DEF SumStep
  <2>4. CASE U # {}
    <3> DEFINE c == CHOOSE x \in U : TRUE
               V == U \ {c}
    <3>1. V \in SUBSET T /\ V # T /\ V \in SUBSET U
      BY <2>4
    <3>5. IsFiniteSet(U)
      BY FS_Subset
    <3>2. PICK h : Sums(w, V, h) /\ Total(w, V) = h[V]
      BY <1>3, <3>1, TotalIsSum
    <3>3. f[V] = h[V]
      <4> HIDE DEF V
      <4> QED
        BY <2>1, <3>1, <3>2, <3>5, SumsRestrict
    <3>4. below[V] = f[V]
      BY <3>1, <3>2, <3>3
    <3> QED
      BY <2>1, <2>2, <2>4, <3>4 DEF SumStep
  <2> QED
    BY <2>3, <2>4
<1>5. ASSUME NEW U \in SUBSET T PROVE g[U] = SumStep(w, g, U)
  <2>1. CASE U = {}
    BY <2>1 DEF SumStep
  <2>2. CASE U # {}
    <3> DEFINE c == CHOOSE x \in U : TRUE
               V == U \ {c}
    <3>1. V \in SUBSET T /\ V # T
      BY <2>2
    <3>2. g[V] = below[V]
      BY <1>4, <3>1
    <3> QED
      BY <2>2, <3>2 DEF SumStep
  <2> QED
    BY <2>1, <2>2
<1>6. Sums(w, T, g)
  <2> HIDE DEF below
  <2>1. g = [U \in SUBSET T |-> g[U]]
    OBVIOUS
  <2> HIDE DEF g
  <2> QED
    BY <1>5, <2>1 DEF Sums
<1> QED
  BY <1>2, <1>6

(* The equation of a sum, one element taken out.                           *)
LEMMA TotalStep ==
  ASSUME NEW w, NEW S, IsFiniteSet(S)
  PROVE  /\ S = {} => Total(w, S) = 0
         /\ S # {} => LET c == CHOOSE x \in S : TRUE
                      IN Total(w, S) = w[c] + Total(w, S \ {c})
<1>1. PICK g : Sums(w, S, g) /\ Total(w, S) = g[S]
  BY SumsExist, TotalIsSum
<1>2. g[S] = SumStep(w, g, S)
  BY <1>1 DEF Sums
<1>3. CASE S = {}
  BY <1>1, <1>2, <1>3 DEF SumStep
<1>4. CASE S # {}
  <2> DEFINE c == CHOOSE x \in S : TRUE
             T == S \ {c}
  <2>1. T \in SUBSET S /\ IsFiniteSet(T)
    BY FS_Subset
  <2>2. PICK h : Sums(w, T, h) /\ Total(w, T) = h[T]
    BY <2>1, SumsExist, TotalIsSum
  <2>3. g[T] = h[T]
    BY <1>1, <2>1, <2>2, SumsRestrict
  <2> QED
    BY <1>1, <1>2, <1>4, <2>2, <2>3 DEF SumStep
<1> QED
  BY <1>3, <1>4

LEMMA TotalCongruent ==
  ASSUME NEW w, NEW v, NEW S, IsFiniteSet(S), \A x \in S : w[x] = v[x]
  PROVE  Total(w, S) = Total(v, S)
<1>1. PICK g : Sums(w, S, g) /\ Total(w, S) = g[S]
  BY SumsExist, TotalIsSum
<1>2. PICK h : Sums(v, S, h) /\ Total(v, S) = h[S]
  BY SumsExist, TotalIsSum
<1> QED
  BY <1>1, <1>2, SumsAgree

LEMMA TotalType ==
  ASSUME NEW S, IsFiniteSet(S), NEW w, \A x \in S : w[x] \in Int
  PROVE  Total(w, S) \in Int
<1> DEFINE Bad == {U \in SUBSET S : Total(w, U) \notin Int}
<1>1. SUFFICES ASSUME Bad # {} PROVE FALSE
  OBVIOUS
<1>2. PICK U \in Bad : \A V \in SUBSET U : V # U => V \notin Bad
  <2>1. Bad \subseteq SUBSET S
    OBVIOUS
  <2> HIDE DEF Bad
  <2> QED
    BY <1>1, <2>1, SmallestSet
<1>3. IsFiniteSet(U)
  BY FS_Subset
<1>4. U # {}
  <2>1. Total(w, U) \notin Int
    BY <1>2
  <2>2. U = {} => Total(w, U) = 0
    BY <1>3, TotalStep
  <2> QED
    BY <2>1, <2>2
<1> DEFINE c == CHOOSE x \in U : TRUE
           V == U \ {c}
<1>5. c \in U /\ Total(w, U) = w[c] + Total(w, V)
  BY <1>3, <1>4, TotalStep
<1>6. V \in SUBSET U /\ V # U /\ V \in SUBSET S
  BY <1>5
<1>7. Total(w, V) \in Int
  BY <1>2, <1>6
<1> HIDE DEF V, c
<1>8. w[c] \in Int
  BY <1>5
<1> QED
  BY <1>2, <1>5, <1>7, <1>8

(* A sum does not depend on the order of its elements.                     *)
LEMMA TotalRemove ==
  ASSUME NEW S, IsFiniteSet(S), NEW w, \A x \in S : w[x] \in Int, NEW y \in S
  PROVE  Total(w, S) = w[y] + Total(w, S \ {y})
<1> DEFINE Bad == {U \in SUBSET S : \E z \in U : Total(w, U) # w[z] + Total(w, U \ {z})}
<1>1. SUFFICES ASSUME Bad # {} PROVE FALSE
  OBVIOUS
<1>2. PICK U \in Bad : \A V \in SUBSET U : V # U => V \notin Bad
  <2>1. Bad \subseteq SUBSET S
    OBVIOUS
  <2> HIDE DEF Bad
  <2> QED
    BY <1>1, <2>1, SmallestSet
<1>3. PICK z \in U : Total(w, U) # w[z] + Total(w, U \ {z})
  BY <1>2
<1>4. IsFiniteSet(U)
  BY FS_Subset
<1> DEFINE c == CHOOSE x \in U : TRUE
<1>5. c \in U /\ Total(w, U) = w[c] + Total(w, U \ {c})
  BY <1>3, <1>4, TotalStep
<1> HIDE DEF c
<1>6. c # z
  BY <1>3, <1>5
<1>7. \A V \in SUBSET U : V # U => \A x \in V : Total(w, V) = w[x] + Total(w, V \ {x})
  BY <1>2
<1>8. Total(w, U \ {c}) = w[z] + Total(w, (U \ {c}) \ {z})
  <2>1. U \ {c} \in SUBSET U /\ U \ {c} # U /\ z \in U \ {c}
    BY <1>5, <1>6
  <2> QED
    BY <1>7, <2>1
<1>9. Total(w, U \ {z}) = w[c] + Total(w, (U \ {z}) \ {c})
  <2>1. U \ {z} \in SUBSET U /\ U \ {z} # U /\ c \in U \ {z}
    BY <1>5, <1>6
  <2> QED
    BY <1>7, <2>1
<1> DEFINE V == (U \ {c}) \ {z}
<1>10. V = (U \ {z}) \ {c} /\ IsFiniteSet(V) /\ \A x \in V : w[x] \in Int
  BY <1>4, FS_Subset
<1>11. Total(w, V) \in Int
  BY <1>10, TotalType
<1>12. w[c] \in Int /\ w[z] \in Int
  BY <1>5
<1>13. /\ Total(w, U \ {c}) = w[z] + Total(w, V)
       /\ Total(w, U \ {z}) = w[c] + Total(w, V)
  BY <1>8, <1>9, <1>10
<1> HIDE DEF V
<1> QED
  BY <1>3, <1>5, <1>11, <1>12, <1>13

(* Disjoint sets add up.                                                   *)
LEMMA TotalUnion ==
  ASSUME NEW S, IsFiniteSet(S), NEW w, \A x \in S : w[x] \in Int,
         NEW T \in SUBSET S
  PROVE  Total(w, S) = Total(w, T) + Total(w, S \ T)
<1> DEFINE Bad == {U \in SUBSET T : Total(w, S) # Total(w, U) + Total(w, S \ U)}
           Good == {U \in SUBSET T : Total(w, S) = Total(w, U) + Total(w, S \ U)}
<1>1. SUFFICES ASSUME Bad # {} PROVE FALSE
  OBVIOUS
<1>2. PICK U \in Bad : \A V \in SUBSET U : V # U => V \notin Bad
  <2>1. IsFiniteSet(T) /\ Bad \subseteq SUBSET T
    BY FS_Subset
  <2> HIDE DEF Bad
  <2> QED
    BY <1>1, <2>1, SmallestSet
<1>3. \A V \in SUBSET S : IsFiniteSet(V) /\ Total(w, V) \in Int
  BY FS_Subset, TotalType
<1>4. U # {}
  <2>1. Total(w, {}) = 0 /\ S \ {} = S
    BY <1>3, TotalStep
  <2>2. Total(w, S) \in Int
    BY <1>3
  <2>3. Total(w, S) # Total(w, U) + Total(w, S \ U)
    BY <1>2
  <2>4. Total(w, S) = 0 + Total(w, S)
    BY <2>2
  <2> HIDE DEF Bad
  <2> QED
    BY <2>1, <2>3, <2>4
<1>5. PICK y \in U : TRUE
  BY <1>4
<1> DEFINE V == U \ {y}
<1>6. Total(w, S) = Total(w, V) + Total(w, S \ V)
  <2>1. V \in SUBSET U /\ V # U /\ V \in SUBSET T
    OBVIOUS
  <2> QED
    BY <1>2, <2>1
<1>7. Total(w, U) = w[y] + Total(w, V)
  BY <1>3, TotalRemove
<1>8. Total(w, S \ V) = w[y] + Total(w, S \ U)
  <2>1. y \in S \ V /\ (S \ V) \ {y} = S \ U
    OBVIOUS
  <2> HIDE DEF V
  <2>2. IsFiniteSet(S \ V) /\ \A x \in S \ V : w[x] \in Int
    BY <1>3
  <2>3. Total(w, S \ V) = w[y] + Total(w, (S \ V) \ {y})
    BY <2>1, <2>2, TotalRemove
  <2> QED
    BY <2>1, <2>3
<1>9. Total(w, V) \in Int /\ Total(w, S \ U) \in Int /\ w[y] \in Int
  BY <1>3
<1>10. Total(w, S) # Total(w, U) + Total(w, S \ U)
  BY <1>2
<1> HIDE DEF V
<1> QED
  BY <1>6, <1>7, <1>8, <1>9, <1>10

LEMMA TotalSingleton ==
  ASSUME NEW w, NEW x, w[x] \in Int
  PROVE  Total(w, {x}) = w[x]
<1>1. IsFiniteSet({x}) /\ IsFiniteSet({})
  BY FS_Singleton, FS_EmptySet
<1>2. Total(w, {x}) = w[x] + Total(w, {x} \ {x})
  BY <1>1, TotalRemove
<1>3. Total(w, {x} \ {x}) = 0
  BY <1>1, TotalStep, {x} \ {x} = {}
<1> QED
  BY <1>2, <1>3

LEMMA TotalNonNegative ==
  ASSUME NEW S, IsFiniteSet(S), NEW w, \A x \in S : w[x] \in Nat
  PROVE  Total(w, S) \in Nat
<1> DEFINE Bad == {U \in SUBSET S : Total(w, U) \notin Nat}
<1>1. SUFFICES ASSUME Bad # {} PROVE FALSE
  OBVIOUS
<1>2. PICK U \in Bad : \A V \in SUBSET U : V # U => V \notin Bad
  <2>1. Bad \subseteq SUBSET S
    OBVIOUS
  <2> HIDE DEF Bad
  <2> QED
    BY <1>1, <2>1, SmallestSet
<1>3. IsFiniteSet(U)
  BY FS_Subset
<1>4. U # {}
  <2>1. 0 \in Nat /\ Total(w, U) \notin Nat
    BY <1>2
  <2> QED
    BY <1>3, <2>1, TotalStep
<1> DEFINE c == CHOOSE x \in U : TRUE
           V == U \ {c}
<1>5. c \in U /\ Total(w, U) = w[c] + Total(w, V)
  BY <1>3, <1>4, TotalStep
<1>6. V \in SUBSET U /\ V # U /\ V \in SUBSET S
  BY <1>5
<1>7. Total(w, V) \in Nat
  BY <1>2, <1>6
<1> HIDE DEF V, c
<1>8. w[c] \in Nat
  BY <1>5
<1> QED
  BY <1>2, <1>5, <1>7, <1>8

(* Numbers up to a bound have a least one.                                 *)
LEMMA LeastOf ==
  ASSUME NEW m \in Nat, NEW S \in SUBSET (0 .. m), S # {}
  PROVE  \E x \in S : \A y \in S : x <= y
<1> DEFINE Bad == {0 .. x : x \in S}
<1>1. Bad \subseteq SUBSET (0 .. m) /\ Bad # {}
  <2>1. \A x \in S : x \in 0 .. m
    OBVIOUS
  <2>2. \A x \in S : 0 .. x \subseteq 0 .. m
    BY <2>1
  <2>3. \A T \in Bad : \E x \in S : T = 0 .. x
    OBVIOUS
  <2>4. \A x \in S : 0 .. x \in Bad
    OBVIOUS
  <2> HIDE DEF Bad
  <2> QED
    BY <2>2, <2>3, <2>4
<1>5. IsFiniteSet(0 .. m)
  BY FS_Interval
<1> HIDE DEF Bad
<1>2. PICK T \in Bad : \A U \in SUBSET T : U # T => U \notin Bad
  BY <1>1, <1>5, SmallestSet
<1>3. PICK x \in S : T = 0 .. x
  BY <1>2 DEF Bad
<1>4. ASSUME NEW y \in S, y < x PROVE FALSE
  <2>1. 0 .. y \in Bad
    BY DEF Bad
  <2>2. 0 .. y \in SUBSET T
    BY <1>3, <1>4
  <2>3. x \in T /\ x \notin 0 .. y
    BY <1>3, <1>4
  <2> QED
    BY <1>2, <2>1, <2>2, <2>3
<1> QED
  BY <1>4

(* The least of a set of numbers is one of them.                           *)
LEMMA MinIsLeast ==
  ASSUME NEW m \in Nat, NEW S \in SUBSET (0 .. m), S # {}
  PROVE  Min(S) \in S /\ \A y \in S : Min(S) <= y
BY LeastOf DEF Min

(* Two sums that differ in one element only.                               *)
LEMMA TotalMoves ==
  ASSUME NEW S, IsFiniteSet(S), NEW T, IsFiniteSet(T), NEW p, S \ {p} = T \ {p},
         NEW w, \A x \in S : w[x] \in Int, NEW v, \A x \in T : v[x] \in Int,
         \A x \in S \ {p} : w[x] = v[x]
  PROVE  /\ Total(w, S) \in Int /\ Total(v, T) \in Int
         /\ Total(v, T) + (IF p \in S THEN w[p] ELSE 0)
              = Total(w, S) + (IF p \in T THEN v[p] ELSE 0)
<1> DEFINE rest == S \ {p}
<1>1. IsFiniteSet(rest) /\ rest \subseteq S /\ rest \subseteq T
  BY FS_Subset
<1>2. Total(w, rest) = Total(v, rest) /\ Total(w, rest) \in Int
  BY <1>1, TotalCongruent, TotalType
<1>3. Total(w, S) = (IF p \in S THEN w[p] ELSE 0) + Total(w, rest)
  <2>1. CASE p \in S
    BY <2>1, TotalRemove
  <2>2. CASE p \notin S
    <3>1. rest = S
      BY <2>2
    <3> HIDE DEF rest
    <3> QED
      BY <1>2, <2>2, <3>1
  <2> QED
    BY <2>1, <2>2
<1>4. Total(v, T) = (IF p \in T THEN v[p] ELSE 0) + Total(v, rest)
  <2>1. CASE p \in T
    BY <2>1, TotalRemove
  <2>2. CASE p \notin T
    <3>1. rest = T
      BY <2>2
    <3> HIDE DEF rest
    <3> QED
      BY <1>2, <2>2, <3>1
  <2> QED
    BY <2>1, <2>2
<1> HIDE DEF rest
<1>5. /\ (IF p \in S THEN w[p] ELSE 0) \in Int /\ (IF p \in T THEN v[p] ELSE 0) \in Int
  OBVIOUS
<1> QED
  BY <1>2, <1>3, <1>4, <1>5
=============================================================================
