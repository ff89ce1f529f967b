----------------------------- MODULE SumTheorems -----------------------------
(***************************************************************************)
(* Facts about SumFunctionOnSet(f, S), the sum of f[x] for the elements x  *)
(* of a finite set S, which the ledgers of this project are stated with.   *)
(* It is a recursive function that takes an arbitrary element out of the   *)
(* set at each turn: that it exists, and that the order does not matter,   *)
(* is shown by induction over the subsets of S.                            *)
(***************************************************************************)
EXTENDS Integers, FiniteSets, Functions, FiniteSetTheorems, WellFoundedInduction, TLAPS

\* A set of natural numbers has a least element.
LEMMA LeastNatural ==
  ASSUME NEW T \in SUBSET Nat, T # {}
  PROVE  \E m \in T : \A n \in T : m <= n
<1>1. PICK m \in T : \A n \in T : <<n, m>> \notin OpToRel(<, Nat)
  BY WFMin, NatLessThanWellFounded, Zenon
<1>2. \A n \in T : ~ (n < m)
  BY <1>1, Zenon DEF OpToRel
<1> QED
  BY <1>2

\* Induction over the subsets of a finite set S: good is the set of those the
\* claim holds of, and it holds of a set if it does of its proper subsets.
LEMMA SubsetInduction ==
  ASSUME NEW S, IsFiniteSet(S), NEW good,
         ASSUME NEW T \in SUBSET S, \A U \in SUBSET T : U # T => U \in good
         PROVE  T \in good
  PROVE  S \in good
<1> SUFFICES ASSUME S \notin good PROVE FALSE
  OBVIOUS
<1> DEFINE bad == {T \in SUBSET S : T \notin good}
           sizes == {n \in Nat : \E T \in bad : n = Cardinality(T)}
<1>1. \A T \in SUBSET S : IsFiniteSet(T) /\ Cardinality(T) \in Nat
  BY FS_Subset, FS_CardinalityType
<1>2. Cardinality(S) \in sizes
  BY <1>1
<1>3. PICK m \in sizes : \A n \in sizes : m <= n
  <2> HIDE DEF sizes
  <2>1. sizes \in SUBSET Nat
    BY DEF sizes
  <2> QED
    BY <1>2, <2>1, LeastNatural
<1>4. PICK T \in bad : m = Cardinality(T)
  BY <1>3
<1>5. ASSUME NEW U \in SUBSET T, U # T PROVE U \in good
  <2>1. U \in SUBSET S /\ Cardinality(U) < m
    BY <1>1, <1>4, <1>5, FS_Subset
  <2> QED
    BY <1>1, <1>3, <2>1
<1> QED
  BY <1>4, <1>5

\* The step that adds one element is enough.
LEMMA AddElementInduction ==
  ASSUME NEW S, IsFiniteSet(S), NEW good, {} \in good,
         ASSUME NEW T \in SUBSET S, T \in good, NEW x \in S \ T
         PROVE  T \cup {x} \in good
  PROVE  S \in good
<1>1. ASSUME NEW T \in SUBSET S, \A U \in SUBSET T : U # T => U \in good
      PROVE  T \in good
  <2>1. ASSUME NEW x \in T PROVE T \in good
    <3>1. T \ {x} \in SUBSET S /\ T \ {x} \in good /\ x \in S \ (T \ {x})
      BY <1>1
    <3>2. (T \ {x}) \cup {x} \in good
      BY <3>1
    <3> QED
      BY <3>2
  <2> QED
    BY <2>1
<1> QED
  BY <1>1, SubsetInduction

-----------------------------------------------------------------------------
(* The recursion of SumFunctionOnSet                                       *)

\* The element the recursion takes out of a set.
Taken(T) == CHOOSE x \in T : TRUE

\* g is the recursive function on the subsets that D holds.
SumsTo(g, f, D) ==
  g = [T \in D |-> IF T = {} THEN 0 ELSE f[Taken(T)] + g[T \ {Taken(T)}]]

\* The function on the subsets of S that the definition chooses.
PartialSums(f, S) == CHOOSE g : SumsTo(g, f, SUBSET S)

\* The recursion takes an element of the set.
LEMMA TakenElement ==
  ASSUME NEW T, T # {}
  PROVE  Taken(T) \in T
BY DEF Taken

\* The definition of the library, with its recursive function named.
LEMMA SumIsPartialSum ==
  ASSUME NEW f, NEW S
  PROVE  SumFunctionOnSet(f, S) = PartialSums(f, S)[S]
BY Zenon DEF SumFunctionOnSet, FoldFunctionOnSet, MapThenFoldSet, PartialSums, SumsTo, Taken

\* The recursive function exists: one for the subsets of at most n elements
\* gives one for those of at most n + 1.
LEMMA PartialSumsExist ==
  ASSUME NEW f, NEW S, IsFiniteSet(S)
  PROVE  SumsTo(PartialSums(f, S), f, SUBSET S)
<1> DEFINE Upto(n) == {T \in SUBSET S : Cardinality(T) <= n}
           none == {n \in Nat : ~ \E g : SumsTo(g, f, Upto(n))}
<1>1. \A T \in SUBSET S : IsFiniteSet(T) /\ Cardinality(T) \in Nat
  BY FS_Subset, FS_CardinalityType
<1>2. none = {}
  <2> SUFFICES ASSUME none # {} PROVE FALSE
    OBVIOUS
  <2>1. PICK m \in none : \A n \in none : m <= n
    <3> HIDE DEF none
    <3>1. none \in SUBSET Nat
      BY DEF none
    <3> QED
      BY <3>1, LeastNatural
  <2>2. ASSUME m = 0 PROVE FALSE
    <3>1. \A T \in Upto(0) : T = {}
      BY <1>1, FS_EmptySet
    <3> DEFINE g == [T \in Upto(0) |-> 0]
    <3>2. SumsTo(g, f, Upto(0))
      BY <3>1 DEF SumsTo
    <3> QED
      BY <2>1, <2>2, <3>2
  <2>3. ASSUME m # 0 PROVE FALSE
    <3>1. m - 1 \in Nat /\ m - 1 \notin none
      <4>1. m \in Nat
        BY <2>1
      <4> HIDE DEF none
      <4> QED
        BY <2>1, <2>3, <4>1
    <3>2. PICK g : SumsTo(g, f, Upto(m - 1))
      BY <3>1
    <3> DEFINE h == [T \in Upto(m) |->
                       IF T = {} THEN 0 ELSE f[Taken(T)] + g[T \ {Taken(T)}]]
    <3>3. \A T \in Upto(m - 1) : h[T] = g[T] /\ T \in Upto(m)
      <4>1. Upto(m - 1) \subseteq Upto(m)
        BY <1>1, <2>1
      <4> HIDE DEF Upto
      <4> QED
        BY <3>2, <4>1, Zenon DEF SumsTo
    <3>4. \A T \in Upto(m) : T # {} => T \ {Taken(T)} \in Upto(m - 1)
      BY <1>1, TakenElement, FS_RemoveElement
    <3>5. SumsTo(h, f, Upto(m))
      <4> SUFFICES h = [T \in Upto(m) |->
                          IF T = {} THEN 0 ELSE f[Taken(T)] + h[T \ {Taken(T)}]]
        BY DEF SumsTo
      <4> HIDE DEF Upto
      <4> QED
        BY <3>3, <3>4
    <3> QED
      BY <2>1, <3>5
  <2> QED
    BY <2>2, <2>3
<1>3. Upto(Cardinality(S)) = SUBSET S
  BY <1>1, FS_Subset
<1>4. \E g : SumsTo(g, f, SUBSET S)
  BY <1>1, <1>2, <1>3
<1> QED
  BY <1>4 DEF PartialSums

\* A partial sum does not depend on the set it is a part of.
LEMMA PartialSumsAgree ==
  ASSUME NEW f, NEW S, IsFiniteSet(S), NEW T \in SUBSET S
  PROVE  PartialSums(f, S)[T] = SumFunctionOnSet(f, T)
<1> DEFINE g == PartialSums(f, S)
           h == PartialSums(f, T)
           apart == {U \in SUBSET T : g[U] # h[U]}
           sizes == {n \in Nat : \E U \in apart : n = Cardinality(U)}
<1>1. IsFiniteSet(T)
  BY FS_Subset
<1>2. SumsTo(g, f, SUBSET S) /\ SumsTo(h, f, SUBSET T)
  BY <1>1, PartialSumsExist
<1> HIDE DEF g, h
<1>3. apart = {}
  <2> SUFFICES ASSUME NEW V \in apart PROVE FALSE
    OBVIOUS
  <2>1. \A U \in SUBSET T : IsFiniteSet(U) /\ Cardinality(U) \in Nat
    BY <1>1, FS_Subset, FS_CardinalityType
  <2>2. PICK m \in sizes : \A n \in sizes : m <= n
    <3>1. sizes \in SUBSET Nat /\ sizes # {}
      BY <2>1
    <3> HIDE DEF sizes
    <3> QED
      BY <3>1, LeastNatural
  <2>3. PICK U \in apart : m = Cardinality(U)
    BY <2>2
  <2>4. g[U] = (IF U = {} THEN 0 ELSE f[Taken(U)] + g[U \ {Taken(U)}])
    BY <1>2, <2>3, Zenon DEF SumsTo
  <2>5. h[U] = (IF U = {} THEN 0 ELSE f[Taken(U)] + h[U \ {Taken(U)}])
    BY <1>2, <2>3, Zenon DEF SumsTo
  <2>6. U # {}
    BY <2>3, <2>4, <2>5
  <2>7. U \ {Taken(U)} \in SUBSET T /\ Cardinality(U \ {Taken(U)}) = m - 1
    BY <2>1, <2>3, <2>6, TakenElement, FS_RemoveElement
  <2>8. g[U \ {Taken(U)}] = h[U \ {Taken(U)}]
    BY <2>1, <2>2, <2>7
  <2> QED
    BY <2>3, <2>4, <2>5, <2>6, <2>8
<1>4. g[T] = h[T]
  BY <1>3
<1> QED
  BY <1>4, SumIsPartialSum DEF g, h

\* The two cases of the recursion.
LEMMA SumRecursion ==
  ASSUME NEW f, NEW S, IsFiniteSet(S)
  PROVE  SumFunctionOnSet(f, S) =
           IF S = {} THEN 0
           ELSE f[Taken(S)] + SumFunctionOnSet(f, S \ {Taken(S)})
<1>1. SumsTo(PartialSums(f, S), f, SUBSET S)
  BY PartialSumsExist
<1>2. PartialSums(f, S)[S] =
        IF S = {} THEN 0 ELSE f[Taken(S)] + PartialSums(f, S)[S \ {Taken(S)}]
  BY <1>1, Zenon DEF SumsTo
<1>3. PartialSums(f, S)[S \ {Taken(S)}] = SumFunctionOnSet(f, S \ {Taken(S)})
  BY PartialSumsAgree
<1> QED
  BY <1>2, <1>3, SumIsPartialSum

-----------------------------------------------------------------------------
(* What sums of integers add up to                                         *)

\* The sum over no element.
LEMMA SumEmpty ==
  ASSUME NEW f
  PROVE  SumFunctionOnSet(f, {}) = 0
BY SumRecursion, FS_EmptySet

\* A sum of integers is an integer.
LEMMA SumInt ==
  ASSUME NEW S, IsFiniteSet(S), NEW f, \A x \in S : f[x] \in Int
  PROVE  SumFunctionOnSet(f, S) \in Int
<1> DEFINE good == {T \in SUBSET S : SumFunctionOnSet(f, T) \in Int}
<1>1. ASSUME NEW T \in SUBSET S, \A U \in SUBSET T : U # T => U \in good
      PROVE  T \in good
  <2>1. CASE T = {}
    BY <2>1, SumEmpty
  <2>2. CASE T # {}
    <3>1. Taken(T) \in T /\ IsFiniteSet(T)
      BY <2>2, TakenElement, FS_Subset
    <3>2. SumFunctionOnSet(f, T \ {Taken(T)}) \in Int
      BY <1>1, <3>1
    <3> QED
      BY <2>2, <3>1, <3>2, SumRecursion
  <2> QED
    BY <2>1, <2>2
<1>2. S \in good
  <2> HIDE DEF good
  <2> QED
    BY <1>1, SubsetInduction
<1> QED
  BY <1>2

\* Whichever element is taken out first, the sum is the same.
LEMMA SumRemove ==
  ASSUME NEW S, IsFiniteSet(S), NEW f, \A x \in S : f[x] \in Int, NEW y \in S
  PROVE  /\ SumFunctionOnSet(f, S) = f[y] + SumFunctionOnSet(f, S \ {y})
         /\ SumFunctionOnSet(f, S \ {y}) \in Int
<1> DEFINE Sum(T) == SumFunctionOnSet(f, T)
           good == {T \in SUBSET S : \A x \in T : Sum(T) = f[x] + Sum(T \ {x})}
<1>1. \A T \in SUBSET S : IsFiniteSet(T) /\ Sum(T) \in Int
  BY FS_Subset, SumInt
<1>2. ASSUME NEW T \in SUBSET S, \A U \in SUBSET T : U # T => U \in good, NEW x \in T
      PROVE  Sum(T) = f[x] + Sum(T \ {x})
  <2> DEFINE t == Taken(T)
             R == (T \ {t}) \ {x}
  <2>1. t \in T /\ Sum(T) = f[t] + Sum(T \ {t})
    BY <1>1, <1>2, TakenElement, SumRecursion
  <2>2. CASE x = t
    BY <2>1, <2>2
  <2>3. CASE x # t
    <3>1. T \ {t} \in good /\ T \ {x} \in good
      BY <1>2, <2>1
    <3>2. x \in T \ {t} /\ t \in T \ {x} /\ (T \ {x}) \ {t} = R
      BY <2>1, <2>3
    <3>3. Sum(T \ {t}) = f[x] + Sum(R) /\ Sum(T \ {x}) = f[t] + Sum(R)
      BY <3>1, <3>2
    <3>4. f[x] \in Int /\ f[t] \in Int /\ Sum(R) \in Int
      BY <1>1, <2>1
    <3> HIDE DEF Sum, R, t
    <3> QED
      BY <2>1, <3>3, <3>4
  <2> QED
    BY <2>2, <2>3
<1>3. S \in good
  <2>1. ASSUME NEW T \in SUBSET S, \A U \in SUBSET T : U # T => U \in good
        PROVE  T \in good
    BY <1>2, <2>1
  <2> HIDE DEF good
  <2> QED
    BY <2>1, SubsetInduction
<1> QED
  BY <1>1, <1>3

\* Adding an element adds its value.
LEMMA SumAdd ==
  ASSUME NEW S, IsFiniteSet(S), NEW y, y \notin S,
         NEW f, \A x \in S \cup {y} : f[x] \in Int
  PROVE  SumFunctionOnSet(f, S \cup {y}) = SumFunctionOnSet(f, S) + f[y]
<1>1. IsFiniteSet(S \cup {y}) /\ (S \cup {y}) \ {y} = S
  BY FS_AddElement
<1> QED
  BY <1>1, SumRemove

\* Only the values on the set count.
LEMMA SumSame ==
  ASSUME NEW S, IsFiniteSet(S), NEW f, NEW g,
         \A x \in S : f[x] \in Int /\ g[x] = f[x]
  PROVE  SumFunctionOnSet(g, S) = SumFunctionOnSet(f, S)
<1> DEFINE good == {T \in SUBSET S : SumFunctionOnSet(g, T) = SumFunctionOnSet(f, T)}
<1>1. {} \in good
  BY SumEmpty
<1>2. ASSUME NEW T \in SUBSET S, T \in good, NEW x \in S \ T
      PROVE  T \cup {x} \in good
  <2>1. IsFiniteSet(T) /\ T \cup {x} \in SUBSET S
    BY FS_Subset
  <2>2. /\ SumFunctionOnSet(f, T \cup {x}) = SumFunctionOnSet(f, T) + f[x]
        /\ SumFunctionOnSet(g, T \cup {x}) = SumFunctionOnSet(g, T) + g[x]
    BY <2>1, SumAdd
  <2> QED
    BY <1>2, <2>1, <2>2
<1>3. S \in good
  <2> HIDE DEF good
  <2> QED
    BY <1>1, <1>2, AddElementInduction
<1> QED
  BY <1>3

\* A function that differs at one element changes the sum by the difference.
LEMMA SumChange ==
  ASSUME NEW S, IsFiniteSet(S), NEW f, NEW g, NEW y \in S,
         \A x \in S : f[x] \in Int /\ g[x] \in Int,
         \A x \in S : x # y => g[x] = f[x]
  PROVE  SumFunctionOnSet(g, S) = SumFunctionOnSet(f, S) + g[y] - f[y]
<1>1. IsFiniteSet(S \ {y})
  BY FS_RemoveElement
<1>2. SumFunctionOnSet(g, S \ {y}) = SumFunctionOnSet(f, S \ {y})
  BY <1>1, SumSame
<1>3. SumFunctionOnSet(f, S \ {y}) \in Int
  BY SumRemove
<1>4. /\ SumFunctionOnSet(f, S) = f[y] + SumFunctionOnSet(f, S \ {y})
      /\ SumFunctionOnSet(g, S) = g[y] + SumFunctionOnSet(g, S \ {y})
  BY SumRemove
<1> QED
  BY <1>2, <1>3, <1>4

\* The sum of the sums.
LEMMA SumOfSums ==
  ASSUME NEW S, IsFiniteSet(S), NEW f, NEW g, NEW h,
         \A x \in S : f[x] \in Int /\ g[x] \in Int /\ h[x] = f[x] + g[x]
  PROVE  SumFunctionOnSet(h, S) = SumFunctionOnSet(f, S) + SumFunctionOnSet(g, S)
<1> DEFINE Adds(T) == SumFunctionOnSet(h, T) = SumFunctionOnSet(f, T) + SumFunctionOnSet(g, T)
           good == {T \in SUBSET S : Adds(T)}
<1>1. {} \in good
  BY SumEmpty
<1>2. ASSUME NEW T \in SUBSET S, T \in good, NEW x \in S \ T
      PROVE  T \cup {x} \in good
  <2>1. IsFiniteSet(T) /\ T \cup {x} \in SUBSET S
    BY FS_Subset
  <2>2. \A z \in S : f[z] \in Int /\ g[z] \in Int /\ h[z] \in Int
    OBVIOUS
  <2>3. /\ SumFunctionOnSet(f, T \cup {x}) = SumFunctionOnSet(f, T) + f[x]
        /\ SumFunctionOnSet(g, T \cup {x}) = SumFunctionOnSet(g, T) + g[x]
        /\ SumFunctionOnSet(h, T \cup {x}) = SumFunctionOnSet(h, T) + h[x]
    BY <2>1, <2>2, SumAdd
  <2>4. SumFunctionOnSet(f, T) \in Int /\ SumFunctionOnSet(g, T) \in Int
    BY <2>1, SumInt
  <2> QED
    BY <1>2, <2>1, <2>3, <2>4
<1>3. S \in good
  <2> HIDE DEF good
  <2> QED
    BY <1>1, <1>2, AddElementInduction
<1> QED
  BY <1>3

\* Larger values, a larger sum.
LEMMA SumMonotone ==
  ASSUME NEW S, IsFiniteSet(S), NEW f, NEW g,
         \A x \in S : f[x] \in Int /\ g[x] \in Int /\ f[x] <= g[x]
  PROVE  SumFunctionOnSet(f, S) <= SumFunctionOnSet(g, S)
<1> DEFINE good == {T \in SUBSET S : SumFunctionOnSet(f, T) <= SumFunctionOnSet(g, T)}
<1>1. {} \in good
  BY SumEmpty
<1>2. ASSUME NEW T \in SUBSET S, T \in good, NEW x \in S \ T
      PROVE  T \cup {x} \in good
  <2>1. IsFiniteSet(T) /\ T \cup {x} \in SUBSET S
    BY FS_Subset
  <2>2. /\ SumFunctionOnSet(f, T \cup {x}) = SumFunctionOnSet(f, T) + f[x]
        /\ SumFunctionOnSet(g, T \cup {x}) = SumFunctionOnSet(g, T) + g[x]
    BY <2>1, SumAdd
  <2>3. SumFunctionOnSet(f, T) \in Int /\ SumFunctionOnSet(g, T) \in Int
    BY <2>1, SumInt
  <2> QED
    BY <1>2, <2>1, <2>2, <2>3
<1>3. S \in good
  <2> HIDE DEF good
  <2> QED
    BY <1>1, <1>2, AddElementInduction
<1> QED
  BY <1>3

\* Nothing adds up to nothing.
LEMMA SumZero ==
  ASSUME NEW S, IsFiniteSet(S), NEW f, \A x \in S : f[x] = 0
  PROVE  SumFunctionOnSet(f, S) = 0
<1> DEFINE good == {T \in SUBSET S : SumFunctionOnSet(f, T) = 0}
<1>1. {} \in good
  BY SumEmpty
<1>2. ASSUME NEW T \in SUBSET S, T \in good, NEW x \in S \ T
      PROVE  T \cup {x} \in good
  <2>1. IsFiniteSet(T) /\ T \cup {x} \in SUBSET S
    BY FS_Subset
  <2>2. \A z \in S : f[z] \in Int
    OBVIOUS
  <2>3. SumFunctionOnSet(f, T \cup {x}) = SumFunctionOnSet(f, T) + f[x]
    BY <2>1, <2>2, SumAdd
  <2> QED
    BY <1>2, <2>1, <2>3
<1>3. S \in good
  <2> HIDE DEF good
  <2> QED
    BY <1>1, <1>2, AddElementInduction
<1> QED
  BY <1>3

\* Without negative values a part sums to no more than the whole.
LEMMA SumOfPart ==
  ASSUME NEW S, IsFiniteSet(S), NEW f, \A x \in S : f[x] \in Nat, NEW P \in SUBSET S
  PROVE  SumFunctionOnSet(f, P) <= SumFunctionOnSet(f, S)
<1> DEFINE part == SumFunctionOnSet(f, P)
           good == {T \in SUBSET (S \ P) : part <= SumFunctionOnSet(f, P \cup T)}
<1>1. IsFiniteSet(P) /\ IsFiniteSet(S \ P) /\ \A x \in S : f[x] \in Int
  BY FS_Subset, FS_Difference
<1>2. part \in Int
  BY <1>1, SumInt
<1>3. {} \in good
  BY <1>2
<1>4. ASSUME NEW T \in SUBSET (S \ P), T \in good, NEW x \in (S \ P) \ T
      PROVE  T \cup {x} \in good
  <2> DEFINE U == P \cup T
  <2>1. U \in SUBSET S /\ IsFiniteSet(U) /\ x \notin U /\ x \in S /\ f[x] \in Nat
        /\ P \cup (T \cup {x}) = U \cup {x} /\ part <= SumFunctionOnSet(f, U)
    BY <1>4, FS_Subset
  <2> HIDE DEF U, part
  <2>2. SumFunctionOnSet(f, U) \in Int
        /\ SumFunctionOnSet(f, U \cup {x}) = SumFunctionOnSet(f, U) + f[x]
    BY <1>1, <2>1, SumInt, SumAdd
  <2>3. part <= SumFunctionOnSet(f, U \cup {x})
    BY <1>2, <2>1, <2>2
  <2> QED
    BY <2>1, <2>3
<1>5. S \ P \in good
  <2> HIDE DEF good
  <2> QED
    BY <1>1, <1>3, <1>4, AddElementInduction
<1>6. P \cup (S \ P) = S
  OBVIOUS
<1> QED
  BY <1>5, <1>6

\* Elements that point at different positions sum to no more than all the positions.
LEMMA SumOfPointed ==
  ASSUME NEW S, IsFiniteSet(S), NEW T, IsFiniteSet(T), NEW f, NEW g, NEW at \in [S -> T],
         \A i \in T : g[i] \in Nat,
         \A x \in S : f[x] = g[at[x]],
         \A x \in S : \A y \in S : at[x] = at[y] => x = y
  PROVE  SumFunctionOnSet(f, S) <= SumFunctionOnSet(g, T)
<1> DEFINE image(U) == {at[x] : x \in U}
           good == {U \in SUBSET S : SumFunctionOnSet(f, U) = SumFunctionOnSet(g, image(U))}
<1>1. /\ \A U \in SUBSET S : image(U) \in SUBSET T /\ IsFiniteSet(image(U)) /\ IsFiniteSet(U)
      /\ \A x \in S : f[x] \in Int
      /\ \A i \in T : g[i] \in Int
  BY FS_Subset
<1>2. {} \in good
  <2>1. image({}) = {}
    OBVIOUS
  <2> QED
    BY <2>1, SumEmpty
<1>3. ASSUME NEW U \in SUBSET S, U \in good, NEW x \in S \ U
      PROVE  U \cup {x} \in good
  <2> DEFINE I == image(U)
  <2>1. image(U \cup {x}) = I \cup {at[x]} /\ at[x] \notin I
    OBVIOUS
  <2>2. I \in SUBSET T /\ IsFiniteSet(I) /\ IsFiniteSet(U) /\ at[x] \in T
    BY <1>1
  <2> HIDE DEF I
  <2>3. /\ SumFunctionOnSet(f, U \cup {x}) = SumFunctionOnSet(f, U) + f[x]
        /\ SumFunctionOnSet(g, I \cup {at[x]}) = SumFunctionOnSet(g, I) + g[at[x]]
    BY <1>1, <2>1, <2>2, SumAdd
  <2>4. SumFunctionOnSet(f, U) = SumFunctionOnSet(g, I)
    BY <1>3 DEF I
  <2> QED
    BY <1>3, <2>1, <2>3, <2>4
<1>4. S \in good
  <2> HIDE DEF good
  <2> QED
    BY <1>2, <1>3, AddElementInduction
<1>5. SumFunctionOnSet(f, S) = SumFunctionOnSet(g, image(S))
  BY <1>4
<1>6. image(S) \in SUBSET T
  BY <1>1
<1> HIDE DEF image
<1>7. SumFunctionOnSet(g, image(S)) <= SumFunctionOnSet(g, T)
  BY <1>6, SumOfPart
<1> QED
  BY <1>5, <1>7
==============================================================================
