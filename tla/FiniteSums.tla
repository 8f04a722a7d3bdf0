----------------------------- MODULE FiniteSums -----------------------------
(***************************************************************************)
(* Facts about sums over finite sets, and about least elements, that the   *)
(* proofs about totals rest on.  SumFunctionOnSet is a fold: it is defined *)
(* by a table of the sums of all subsets, each the sum without its chosen  *)
(* element.  The table exists, is unique, and does not depend on which     *)
(* element is taken out first; each of these is shown by a smallest subset *)
(* for which it would fail, which a well-founded order on sizes provides.  *)
(***************************************************************************)
EXTENDS Integers, FiniteSetsExt, WellFoundedInduction, FiniteSetTheorems, TLAPS

\* A set of naturals that is not empty has a least element.
LEMMA LeastElement ==
  ASSUME NEW S \in SUBSET Nat, S # {}
  PROVE  \E n \in S : \A m \in S : n <= m
<1> DEFINE R == {p \in Nat \X Nat : p[1] < p[2]}
<1>1. IsWellFoundedOn(R, Nat)
  BY NatLessThanWellFounded DEF OpToRel
<1>2. PICK n \in S : \A m \in S : ~ (<<m, n>> \in R)
  BY <1>1, WFMin
<1>3. ASSUME NEW m \in S PROVE n <= m
  <2>1. m < n => <<m, n>> \in R
    OBVIOUS
  <2>2. ~ (m < n)
    BY <1>2, <2>1
  <2>3. QED  BY <2>2
<1>4. QED  BY <1>3

\* The element the library takes out first.
Chosen(s) == CHOOSE x \in s : TRUE

\* The subsets of S with up to n elements.
Small(S, n) == {s \in SUBSET S : Cardinality(s) <= n}

\* g is a table of the sums of f over the sets in D; its rows alone.
Sums(f, g, D) ==
  g = [s \in D |-> IF s = {} THEN 0 ELSE f[Chosen(s)] + g[s \ {Chosen(s)}]]

Adds(f, g, D) ==
  \A s \in D : g[s] = IF s = {} THEN 0 ELSE f[Chosen(s)] + g[s \ {Chosen(s)}]

\* The chosen element is one.
LEMMA ChosenIn == \A s : s # {} => Chosen(s) \in s
  BY DEF Chosen

\* Subsets of a finite set are finite, and each element counts one.
LEMMA SubsetCardinality ==
  ASSUME NEW S, IsFiniteSet(S)
  PROVE  /\ \A s \in SUBSET S : IsFiniteSet(s) /\ Cardinality(s) \in Nat /\ Cardinality(s) <= Cardinality(S)
         /\ \A s \in SUBSET S : \A x \in s : Cardinality(s \ {x}) = Cardinality(s) - 1 /\ s \ {x} \in SUBSET S
<1>1. \A s \in SUBSET S : IsFiniteSet(s) /\ Cardinality(s) \in Nat /\ Cardinality(s) <= Cardinality(S)
  BY FS_Subset, FS_CardinalityType
<1>2. \A s \in SUBSET S : \A x \in s : Cardinality(s \ {x}) = Cardinality(s) - 1
  BY <1>1, FS_RemoveElement
<1>3. QED  BY <1>1, <1>2

\* There is a table of sums for the subsets of a finite set: one for sets of
\* up to n + 1 elements is got from one for up to n.
LEMMA SumsExist ==
  ASSUME NEW S, IsFiniteSet(S), NEW f
  PROVE  \E g : Sums(f, g, SUBSET S)
<1> DEFINE Missing == {n \in Nat : ~ \E g : Sums(f, g, Small(S, n))}
<1>1. Small(S, 0) = {{}}
  <2>1. \A s \in SUBSET S : Cardinality(s) <= 0 <=> s = {}
    BY SubsetCardinality, FS_EmptySet
  <2>2. QED  BY <2>1 DEF Small
<1>2. \E g : Sums(f, g, Small(S, 0))
  <2> DEFINE g == [s \in {{}} |-> 0]
  <2>1. g = [s \in {{}} |-> IF s = {} THEN 0 ELSE f[Chosen(s)] + g[s \ {Chosen(s)}]]
    OBVIOUS
  <2>2. QED  BY <1>1, <2>1 DEF Sums
<1>3. ASSUME NEW n \in Nat, NEW h, Sums(f, h, Small(S, n))
      PROVE  \E g : Sums(f, g, Small(S, n + 1))
  <2> DEFINE g == [s \in Small(S, n + 1) |-> IF s = {} THEN 0 ELSE f[Chosen(s)] + h[s \ {Chosen(s)}]]
  <2>1. ASSUME NEW s \in Small(S, n + 1), s # {}
        PROVE  s \ {Chosen(s)} \in Small(S, n)
    <3>1. Chosen(s) \in s /\ s \in SUBSET S
      BY <2>1, ChosenIn DEF Small
    <3>2. Cardinality(s) \in Nat /\ Cardinality(s) <= n + 1
      BY <3>1, SubsetCardinality DEF Small
    <3>3. QED  BY <3>1, <3>2, SubsetCardinality DEF Small
  <2>2. ASSUME NEW s \in Small(S, n) PROVE g[s] = h[s]
    <3>1. s \in Small(S, n + 1)
      BY SubsetCardinality DEF Small
    <3>2. h[s] = IF s = {} THEN 0 ELSE f[Chosen(s)] + h[s \ {Chosen(s)}]
      BY <1>3 DEF Sums
    <3>3. QED  BY <3>1, <3>2
  <2>3. \A s \in Small(S, n + 1) : s # {} => g[s \ {Chosen(s)}] = h[s \ {Chosen(s)}]
    BY <2>1, <2>2
  <2>4. g = [s \in Small(S, n + 1) |-> IF s = {} THEN 0 ELSE f[Chosen(s)] + g[s \ {Chosen(s)}]]
    BY <2>3
  <2> HIDE DEF g
  <2>5. QED  BY <2>4 DEF Sums
<1>4. Missing = {}
  <2> SUFFICES ASSUME Missing # {} PROVE FALSE
    OBVIOUS
  <2>1. PICK n \in Missing : \A m \in Missing : n <= m
    BY LeastElement
  <2>2. n # 0
    BY <1>2
  <2>3. n - 1 \in Nat /\ n - 1 \notin Missing
    BY <2>1, <2>2
  <2>4. PICK h : Sums(f, h, Small(S, n - 1))
    BY <2>3
  <2>5. \E g : Sums(f, g, Small(S, (n - 1) + 1))
    BY <1>3, <2>3, <2>4
  <2>6. (n - 1) + 1 = n
    BY <2>1
  <2>7. QED  BY <2>5, <2>6
<1>5. Small(S, Cardinality(S)) = SUBSET S
  BY SubsetCardinality DEF Small
<1>6. Cardinality(S) \in Nat
  BY FS_CardinalityType
<1>7. QED  BY <1>4, <1>5, <1>6

\* Two tables agree: no smallest subset tells them apart.
LEMMA SumsUnique ==
  ASSUME NEW S, IsFiniteSet(S), NEW f, NEW g, NEW h,
         Adds(f, g, SUBSET S), Adds(f, h, SUBSET S)
  PROVE  \A s \in SUBSET S : g[s] = h[s]
<1> DEFINE Sizes == {n \in Nat : \E s \in SUBSET S : Cardinality(s) = n /\ g[s] # h[s]}
<1>1. SUFFICES Sizes = {}
  BY SubsetCardinality
<1>2. SUFFICES ASSUME Sizes # {} PROVE FALSE
  OBVIOUS
<1>3. PICK n \in Sizes : \A m \in Sizes : n <= m
  BY <1>2, LeastElement
<1>4. PICK s \in SUBSET S : Cardinality(s) = n /\ g[s] # h[s]
  BY <1>3
<1>5. s # {}
  BY <1>4 DEF Adds
<1>6. Chosen(s) \in s
  BY <1>5, ChosenIn
<1>7. s \ {Chosen(s)} \in SUBSET S /\ Cardinality(s \ {Chosen(s)}) = n - 1 /\ n - 1 \in Nat
  <2>1. s \ {Chosen(s)} \in SUBSET S /\ Cardinality(s \ {Chosen(s)}) = Cardinality(s) - 1
    BY <1>6, SubsetCardinality
  <2>2. Cardinality(s \ {Chosen(s)}) \in Nat
    BY <2>1, SubsetCardinality
  <2>3. QED  BY <1>4, <2>1, <2>2
<1>8. g[s \ {Chosen(s)}] = h[s \ {Chosen(s)}]
  BY <1>3, <1>7
<1>9. QED  BY <1>4, <1>5, <1>8 DEF Adds

\* The library's sum is read from such a table.
LEMMA SumDef ==
  ASSUME NEW S, IsFiniteSet(S), NEW f
  PROVE  \E g : Sums(f, g, SUBSET S) /\ SumFunctionOnSet(f, S) = g[S]
<1> DEFINE g == CHOOSE iter : Sums(f, iter, SUBSET S)
<1>1. Sums(f, g, SUBSET S)
  BY SumsExist
<1>2. SumFunctionOnSet(f, S) = g[S]
  BY DEF SumFunctionOnSet, FoldFunctionOnSet, MapThenFoldSet, Sums, Chosen
<1>3. QED  BY <1>1, <1>2

\* The sum over a set is what its chosen element adds to the rest.
LEMMA SumStep ==
  ASSUME NEW S, IsFiniteSet(S), NEW f
  PROVE  SumFunctionOnSet(f, S) =
           IF S = {} THEN 0 ELSE f[Chosen(S)] + SumFunctionOnSet(f, S \ {Chosen(S)})
<1>1. PICK g : Sums(f, g, SUBSET S) /\ SumFunctionOnSet(f, S) = g[S]
  BY SumDef
<1>2. g[S] = IF S = {} THEN 0 ELSE f[Chosen(S)] + g[S \ {Chosen(S)}]
  BY <1>1 DEF Sums
<1>3. CASE S = {}
  BY <1>1, <1>2, <1>3
<1>4. CASE S # {}
  <2> DEFINE R == S \ {Chosen(S)}
  <2>1. IsFiniteSet(R) /\ SUBSET R \subseteq SUBSET S
    BY FS_Subset
  <2>2. PICK h : Sums(f, h, SUBSET R) /\ SumFunctionOnSet(f, R) = h[R]
    BY <2>1, SumDef
  <2>3. Adds(f, g, SUBSET R)
    BY <1>1, <2>1 DEF Sums, Adds
  <2>4. Adds(f, h, SUBSET R)
    BY <2>2 DEF Sums, Adds
  <2> HIDE DEF R
  <2>5. g[R] = h[R]
    BY <2>1, <2>3, <2>4, SumsUnique
  <2>6. QED  BY <1>1, <1>2, <1>4, <2>2, <2>5 DEF R
<1>5. QED  BY <1>3, <1>4

\* Any element may be taken out of a sum.
LEMMA SumTake ==
  ASSUME NEW S, IsFiniteSet(S), NEW f, \A x \in S : f[x] \in Int
  PROVE  /\ SumFunctionOnSet(f, S) \in Int
         /\ \A y \in S : SumFunctionOnSet(f, S) = f[y] + SumFunctionOnSet(f, S \ {y})
<1> DEFINE Sum(s) == SumFunctionOnSet(f, s)
           Good(s) == Sum(s) \in Int /\ \A x \in s : Sum(s) = f[x] + Sum(s \ {x})
           Sizes == {n \in Nat : \E s \in SUBSET S : Cardinality(s) = n /\ ~Good(s)}
<1>1. \A s \in SUBSET S : IsFiniteSet(s) /\ Cardinality(s) \in Nat
  BY SubsetCardinality
<1>2. Sizes = {}
  <2> SUFFICES ASSUME Sizes # {} PROVE FALSE
    OBVIOUS
  <2>1. PICK n \in Sizes : \A m \in Sizes : n <= m
    BY LeastElement
  <2>2. PICK s \in SUBSET S : Cardinality(s) = n /\ ~Good(s)
    BY <2>1
  <2>3. \A t \in SUBSET S : Cardinality(t) < n => Good(t)
    BY <1>1, <2>1
  <2>4. \A x \in s : Cardinality(s \ {x}) = n - 1 /\ Good(s \ {x}) /\ s \ {x} \in SUBSET S
    <3> TAKE x \in s
    <3>1. s \ {x} \in SUBSET S /\ Cardinality(s \ {x}) = n - 1
      BY <2>2, SubsetCardinality
    <3>2. QED  BY <2>1, <2>3, <3>1
  <2>5. Sum(s) = IF s = {} THEN 0 ELSE f[Chosen(s)] + Sum(s \ {Chosen(s)})
    BY <1>1, SumStep
  <2>6. CASE s = {}
    BY <2>2, <2>5, <2>6
  <2>7. CASE s # {}
    <3> DEFINE c == Chosen(s)
    <3>1. c \in s
      BY <2>7, ChosenIn
    <3>2. f[c] \in Int /\ Sum(s \ {c}) \in Int /\ Sum(s) = f[c] + Sum(s \ {c})
      BY <2>4, <2>5, <2>7, <3>1
    <3>3. ASSUME NEW x \in s, x # c PROVE Sum(s) = f[x] + Sum(s \ {x})
      <4>1. Sum(s \ {c}) = f[x] + Sum((s \ {c}) \ {x})
        BY <2>4, <3>1, <3>3
      <4>2. Sum(s \ {x}) = f[c] + Sum((s \ {x}) \ {c})
        BY <2>4, <3>1, <3>3
      <4>3. (s \ {c}) \ {x} = (s \ {x}) \ {c}
        OBVIOUS
      <4>4. f[x] \in Int /\ Sum((s \ {c}) \ {x}) \in Int
        <5>1. (s \ {c}) \ {x} \in SUBSET S /\ Cardinality((s \ {c}) \ {x}) < n
          <6>1. s \ {c} \in SUBSET S /\ x \in s \ {c} /\ Cardinality(s \ {c}) = n - 1
            BY <2>4, <3>1, <3>3
          <6> HIDE DEF c
          <6>2. \A t \in SUBSET S : x \in t => Cardinality(t \ {x}) = Cardinality(t) - 1
            BY SubsetCardinality
          <6>3. Cardinality((s \ {c}) \ {x}) = (n - 1) - 1
            BY <6>1, <6>2
          <6>4. QED  BY <2>1, <6>1, <6>3
        <5>2. QED  BY <2>3, <5>1
      <4> HIDE DEF Sum, c
      <4>5. \A i, j, k \in Int : i + (j + k) = j + (i + k)
        OBVIOUS
      <4>6. Sum(s) = f[c] + (f[x] + Sum((s \ {c}) \ {x}))
        BY <3>2, <4>1
      <4>7. Sum(s \ {x}) = f[c] + Sum((s \ {c}) \ {x})
        BY <4>2, <4>3
      <4>8. QED  BY <3>2, <4>4, <4>5, <4>6, <4>7
    <3>4. Good(s)
      BY <3>2, <3>3
    <3>5. QED  BY <2>2, <3>4
  <2>8. QED  BY <2>6, <2>7
<1>3. Good(S)
  BY <1>1, <1>2
<1>4. QED  BY <1>3

\* A sum has the sign of what is added.
LEMMA SumSign ==
  ASSUME NEW S, IsFiniteSet(S), NEW f, \A x \in S : f[x] \in Int
  PROVE  /\ (\A x \in S : f[x] >= 0) => SumFunctionOnSet(f, S) >= 0
         /\ (\A x \in S : f[x] <= 0) => SumFunctionOnSet(f, S) <= 0
<1> DEFINE Sum(s) == SumFunctionOnSet(f, s)
           Good(s) == /\ (\A x \in s : f[x] >= 0) => Sum(s) >= 0
                      /\ (\A x \in s : f[x] <= 0) => Sum(s) <= 0
           Sizes == {n \in Nat : \E s \in SUBSET S : Cardinality(s) = n /\ ~Good(s)}
<1>1. \A s \in SUBSET S : IsFiniteSet(s) /\ Cardinality(s) \in Nat
  BY SubsetCardinality
<1>2. SUFFICES ASSUME Sizes # {} PROVE FALSE
  BY <1>1
<1>3. PICK n \in Sizes : \A m \in Sizes : n <= m
  BY <1>2, LeastElement
<1>4. PICK s \in SUBSET S : Cardinality(s) = n /\ ~Good(s)
  BY <1>3
<1>5. Sum(s) \in Int /\ \A x \in s : Sum(s) = f[x] + Sum(s \ {x}) /\ Sum(s \ {x}) \in Int
  <2>1. \A t \in SUBSET S : Sum(t) \in Int /\ \A x \in t : Sum(t) = f[x] + Sum(t \ {x})
    BY <1>1, SumTake
  <2>2. \A x \in s : s \ {x} \in SUBSET S
    OBVIOUS
  <2>3. QED  BY <2>1, <2>2
<1>6. s # {}
  <2>1. s = {} => Sum(s) = 0
    BY <1>1, SumStep
  <2>2. s = {} => Good(s)
    BY <2>1
  <2>3. QED  BY <1>4, <2>2
<1>7. PICK x \in s : TRUE
  BY <1>6
<1>8. s \ {x} \in SUBSET S /\ Cardinality(s \ {x}) = n - 1 /\ n - 1 \in Nat /\ ~(n <= n - 1)
  <2>1. s \ {x} \in SUBSET S /\ Cardinality(s \ {x}) = Cardinality(s) - 1
    BY <1>7, SubsetCardinality
  <2>2. Cardinality(s \ {x}) \in Nat /\ n \in Nat
    BY <1>1, <1>3, <2>1
  <2>3. QED  BY <1>4, <2>1, <2>2
<1>9. Good(s \ {x})
  <2>1. n - 1 \notin Sizes
    BY <1>3, <1>8
  <2>2. QED  BY <1>8, <2>1
<1>10. f[x] \in Int /\ Sum(s) = f[x] + Sum(s \ {x}) /\ Sum(s \ {x}) \in Int
  BY <1>5, <1>7
<1> HIDE DEF Sum
<1>11. Good(s)
  BY <1>7, <1>9, <1>10
<1>12. QED  BY <1>4, <1>11

\* Naturals add up to a natural.
LEMMA SumRemove ==
  ASSUME NEW S, IsFiniteSet(S), NEW f, \A x \in S : f[x] \in Nat
  PROVE  /\ SumFunctionOnSet(f, S) \in Nat
         /\ \A y \in S : SumFunctionOnSet(f, S) = f[y] + SumFunctionOnSet(f, S \ {y})
<1>1. \A x \in S : f[x] \in Int /\ f[x] >= 0
  OBVIOUS
<1>2. SumFunctionOnSet(f, S) \in Int /\ SumFunctionOnSet(f, S) >= 0
  BY <1>1, SumTake, SumSign
<1>3. QED  BY <1>1, <1>2, SumTake

\* A sum depends on what is added alone.
LEMMA SumAgree ==
  ASSUME NEW S, IsFiniteSet(S), NEW f, NEW g, \A x \in S : f[x] = g[x]
  PROVE  SumFunctionOnSet(f, S) = SumFunctionOnSet(g, S)
<1> DEFINE Differ(s) == SumFunctionOnSet(f, s) # SumFunctionOnSet(g, s)
           Sizes == {n \in Nat : \E s \in SUBSET S : Cardinality(s) = n /\ Differ(s)}
<1>1. SUFFICES ASSUME Sizes # {} PROVE FALSE
  BY SubsetCardinality
<1>2. PICK n \in Sizes : \A m \in Sizes : n <= m
  BY <1>1, LeastElement
<1>3. PICK s \in SUBSET S : Cardinality(s) = n /\ Differ(s)
  BY <1>2
<1>4. IsFiniteSet(s)
  BY SubsetCardinality
<1>5. /\ SumFunctionOnSet(f, s) = IF s = {} THEN 0 ELSE f[Chosen(s)] + SumFunctionOnSet(f, s \ {Chosen(s)})
      /\ SumFunctionOnSet(g, s) = IF s = {} THEN 0 ELSE g[Chosen(s)] + SumFunctionOnSet(g, s \ {Chosen(s)})
  BY <1>4, SumStep
<1>6. s # {}
  BY <1>3, <1>5
<1>7. Chosen(s) \in s
  BY <1>6, ChosenIn
<1>8. s \ {Chosen(s)} \in SUBSET S /\ Cardinality(s \ {Chosen(s)}) = n - 1 /\ n - 1 \in Nat
  <2>1. s \ {Chosen(s)} \in SUBSET S /\ Cardinality(s \ {Chosen(s)}) = Cardinality(s) - 1
    BY <1>7, SubsetCardinality
  <2>2. Cardinality(s \ {Chosen(s)}) \in Nat
    BY <2>1, SubsetCardinality
  <2>3. QED  BY <1>3, <2>1, <2>2
<1>9. ~Differ(s \ {Chosen(s)})
  BY <1>2, <1>8
<1>10. QED  BY <1>3, <1>5, <1>6, <1>7, <1>9

\* A sum over less is at most as large.
LEMMA SumSubset ==
  ASSUME NEW S, IsFiniteSet(S), NEW f, \A x \in S : f[x] \in Nat, NEW T \in SUBSET S
  PROVE  SumFunctionOnSet(f, T) <= SumFunctionOnSet(f, S)
<1> DEFINE Sum(s) == SumFunctionOnSet(f, s)
           Bad(s) == T \subseteq s /\ ~ (Sum(T) <= Sum(s))
           Sizes == {n \in Nat : \E s \in SUBSET S : Cardinality(s) = n /\ Bad(s)}
<1>1. SUFFICES ASSUME Sizes # {} PROVE FALSE
  BY SubsetCardinality
<1>2. PICK n \in Sizes : \A m \in Sizes : n <= m
  BY <1>1, LeastElement
<1>3. PICK s \in SUBSET S : Cardinality(s) = n /\ Bad(s)
  BY <1>2
<1>4. \A t \in SUBSET S : Sum(t) \in Nat /\ \A y \in t : Sum(t) = f[y] + Sum(t \ {y})
  BY SubsetCardinality, SumRemove
<1>5. s # T
  BY <1>3, <1>4
<1>6. PICK x \in s : x \notin T
  BY <1>3, <1>5
<1>7. s \ {x} \in SUBSET S /\ Cardinality(s \ {x}) = n - 1 /\ n - 1 \in Nat
  <2>1. s \ {x} \in SUBSET S /\ Cardinality(s \ {x}) = Cardinality(s) - 1
    BY <1>6, SubsetCardinality
  <2>2. Cardinality(s \ {x}) \in Nat
    BY <2>1, SubsetCardinality
  <2>3. QED  BY <1>3, <2>1, <2>2
<1>8. ~Bad(s \ {x})
  BY <1>2, <1>7
<1>9. Sum(T) <= Sum(s \ {x})
  BY <1>3, <1>6, <1>8
<1>10. Sum(s) = f[x] + Sum(s \ {x}) /\ f[x] \in Nat /\ Sum(s \ {x}) \in Nat /\ Sum(T) \in Nat
  BY <1>4, <1>6, <1>7
<1>11. ~ (Sum(T) <= Sum(s))
  BY <1>3
<1> HIDE DEF Sum
<1>12. QED  BY <1>9, <1>10, <1>11

\* Two sums over sets that share nothing are one over their union.
LEMMA SumUnion ==
  ASSUME NEW S, IsFiniteSet(S), NEW f, \A x \in S : f[x] \in Nat,
         NEW A \in SUBSET S, NEW B \in SUBSET S, A \cap B = {}
  PROVE  SumFunctionOnSet(f, A \cup B) = SumFunctionOnSet(f, A) + SumFunctionOnSet(f, B)
<1> DEFINE Sum(s) == SumFunctionOnSet(f, s)
           Bad(s) == s \subseteq B /\ Sum(A \cup s) # Sum(A) + Sum(s)
           Sizes == {n \in Nat : \E s \in SUBSET S : Cardinality(s) = n /\ Bad(s)}
<1> HIDE DEF Sum
<1>1. SUFFICES ASSUME Sizes # {} PROVE FALSE
  <2>1. Cardinality(B) \in Nat
    BY SubsetCardinality
  <2>2. ~Bad(B)
    BY <1>1, <2>1
  <2>3. QED  BY <2>2 DEF Sum
<1>2. PICK n \in Sizes : \A m \in Sizes : n <= m
  BY <1>1, LeastElement
<1>3. PICK s \in SUBSET S : Cardinality(s) = n /\ Bad(s)
  BY <1>2
<1>4. \A t \in SUBSET S : Sum(t) \in Nat /\ \A y \in t : f[y] \in Nat /\ Sum(t) = f[y] + Sum(t \ {y})
  BY SubsetCardinality, SumRemove DEF Sum
<1>5. Sum({}) = 0
  BY FS_EmptySet, SumStep DEF Sum
<1>6. s # {}
  <2>1. A \cup {} = A
    OBVIOUS
  <2>2. Sum(A) \in Nat
    BY <1>4
  <2>3. SUFFICES ASSUME s = {} PROVE FALSE
    OBVIOUS
  <2>4. Sum(A \cup s) = Sum(A) /\ Sum(s) = 0
    BY <1>5, <2>1, <2>3
  <2>5. Sum(A \cup s) # Sum(A) + Sum(s)
    BY <1>3
  <2>6. QED  BY <2>2, <2>4, <2>5
<1>7. PICK x \in s : TRUE
  BY <1>6
<1>8. s \ {x} \in SUBSET S /\ Cardinality(s \ {x}) = n - 1 /\ n - 1 \in Nat
  <2>1. s \ {x} \in SUBSET S /\ Cardinality(s \ {x}) = Cardinality(s) - 1
    BY <1>7, SubsetCardinality
  <2>2. Cardinality(s \ {x}) \in Nat
    BY <2>1, SubsetCardinality
  <2>3. QED  BY <1>3, <2>1, <2>2
<1>9. ~Bad(s \ {x})
  <2>1. n \in Nat /\ ~(n <= n - 1)
    BY <1>2
  <2>2. n - 1 \notin Sizes
    BY <1>2, <2>1
  <2>3. QED  BY <1>8, <2>2
<1>10. Sum(A \cup (s \ {x})) = Sum(A) + Sum(s \ {x})
  BY <1>3, <1>9
<1>11. (A \cup s) \ {x} = A \cup (s \ {x}) /\ x \in A \cup s /\ A \cup s \in SUBSET S
  BY <1>3, <1>7
<1>12. /\ Sum(A \cup s) = f[x] + Sum(A \cup (s \ {x}))
       /\ Sum(s) = f[x] + Sum(s \ {x}) /\ f[x] \in Nat /\ Sum(s \ {x}) \in Nat /\ Sum(A) \in Nat
  BY <1>4, <1>7, <1>8, <1>11
<1>13. Sum(A \cup s) # Sum(A) + Sum(s)
  BY <1>3
<1>14. QED  BY <1>10, <1>12, <1>13
=============================================================================
