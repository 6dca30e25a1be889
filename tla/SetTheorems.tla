---------------------------- MODULE SetTheorems ----------------------------
(***************************************************************************)
(* Facts about sets that the proofs of several components use: the least   *)
(* and largest elements of sets of numbers, their ascending listing, and   *)
(* SumFunctionOnSet of the Functions module, the sum of the weights of a   *)
(* set of validators: its recursion over subsets is well defined on a      *)
(* finite set, and one more element adds its weight.                       *)
(***************************************************************************)
EXTENDS Integers, FiniteSets, FiniteSetsExt, Functions, FiniteSetTheorems,
        WellFoundedInduction, TLAPS

-----------------------------------------------------------------------------
(* Least and largest elements.                                             *)

\* A loop that stops at the first hit finds the smallest position, and a
\* property of the natural numbers that fails fails first somewhere.
LEMMA MinOfNaturals ==
    ASSUME NEW S, S \subseteq Nat, S # {}
    PROVE  Min(S) \in S /\ \A y \in S : Min(S) <= y
<1>1. \E x \in S : \A y \in S : ~ (<<y, x>> \in OpToRel(<, Nat))
  BY Zenon, NatLessThanWellFounded, WFMin
<1>2. PICK x \in S : \A y \in S : ~ (<<y, x>> \in OpToRel(<, Nat))
  BY Zenon, <1>1
<1>3. \A y \in S : x <= y
  <2> TAKE y \in S
  <2>1. ~ (<<y, x>> \in OpToRel(<, Nat))
    BY Zenon, <1>2
  <2>2. ~ (y < x)
    BY <2>1 DEF OpToRel
  <2> QED
    BY <2>2
<1> QED
  BY Zenon, <1>3 DEF Min

\* The last element of an interval.
LEMMA MaxOfInterval ==
    ASSUME NEW lo \in Int, NEW hi \in Int, lo <= hi
    PROVE  Max(lo .. hi) = hi
<1>1. hi \in lo .. hi /\ \A y \in lo .. hi : hi >= y
  OBVIOUS
<1>2. \A x \in lo .. hi : (\A y \in lo .. hi : x >= y) => x = hi
  OBVIOUS
<1> QED
  BY <1>1, <1>2 DEF Max

\* The larger of two numbers.
LEMMA MaxOfTwo ==
    ASSUME NEW a \in Int, NEW b \in Int
    PROVE  Max({a, b}) = IF a >= b THEN a ELSE b
<1>1. PICK x \in {a, b} : x = IF a >= b THEN a ELSE b
  OBVIOUS
<1>2. \A y \in {a, b} : x >= y
  BY <1>1
<1>3. \A z \in {a, b} : (\A y \in {a, b} : z >= y) => z = x
  BY <1>1
<1> QED
  BY <1>1, <1>2, <1>3 DEF Max

\* The smaller of two numbers.
LEMMA MinOfTwo ==
    ASSUME NEW a \in Int, NEW b \in Int
    PROVE  Min({a, b}) = IF a <= b THEN a ELSE b
<1>1. PICK x \in {a, b} : x = IF a <= b THEN a ELSE b
  OBVIOUS
<1>2. \A y \in {a, b} : x <= y
  BY <1>1
<1>3. \A z \in {a, b} : (\A y \in {a, b} : z <= y) => z = x
  BY <1>1
<1> QED
  BY <1>1, <1>2, <1>3 DEF Min

-----------------------------------------------------------------------------
(* Ascending sequences.                                                    *)

\* The members of a set up to one of them, and how many there are.
UpTo(S, x) == {y \in S : y <= x}

Place(S, x) == Cardinality(UpTo(S, x))

\* In a finite set of numbers the rank is a number from 1 and grows with the member.
LEMMA PlaceGrows ==
    ASSUME NEW S, S \subseteq Int, IsFiniteSet(S), NEW x \in S
    PROVE  /\ Place(S, x) \in 1 .. Cardinality(S)
           /\ \A y \in S : y < x => Place(S, y) < Place(S, x)
  <1>1. \A y \in S : IsFiniteSet(UpTo(S, y)) /\ Place(S, y) \in Nat /\ Place(S, y) <= Cardinality(S)
    <2> TAKE y \in S
    <2>1. UpTo(S, y) \in SUBSET S
      BY DEF UpTo
    <2>2. IsFiniteSet(UpTo(S, y))
      BY <2>1, FS_Subset
    <2>3. Cardinality(UpTo(S, y)) <= Cardinality(S)
      BY <2>1, FS_Subset
    <2> QED BY <2>2, <2>3, FS_CardinalityType DEF Place
  <1>2. Place(S, x) # 0
    <2>1. x \in UpTo(S, x)
      BY DEF UpTo
    <2> QED BY <1>1, <2>1, FS_EmptySet DEF Place
  <1>3. ASSUME NEW y \in S, y < x PROVE Place(S, y) < Place(S, x)
    <2>1. UpTo(S, y) \in SUBSET UpTo(S, x)
      <3>1. \A z \in S : z <= y => z <= x
        BY <1>3
      <3> QED BY Zenon, <3>1 DEF UpTo
    <2>2. x \in UpTo(S, x) /\ x \notin UpTo(S, y)
      BY <1>3 DEF UpTo
    <2>3. Place(S, y) <= Place(S, x) /\ Place(S, y) # Place(S, x)
      BY <1>1, <2>1, <2>2, FS_Subset DEF Place
    <2> QED BY <1>1, <2>3
  <1>4. Cardinality(S) \in Nat
    BY FS_CardinalityType
  <1> QED BY <1>1, <1>2, <1>3, <1>4

\* A finite set of numbers can be listed in ascending order.
LEMMA AscendingExists ==
    ASSUME NEW S, S \subseteq Int, IsFiniteSet(S)
    PROVE  \E f \in [1 .. Cardinality(S) -> S] :
              \A i, j \in DOMAIN f : i < j => f[i] < f[j]
  <1> DEFINE n == Cardinality(S)
             r == [x \in S |-> Place(S, x)]
             f == [i \in 1 .. n |-> CHOOSE x \in S : r[x] = i]
  <1>1. n \in Nat /\ IsFiniteSet(1 .. n) /\ Cardinality(1 .. n) = n
    <2>1. n \in Nat
      BY FS_CardinalityType
    <2> HIDE DEF n
    <2>2. IsFiniteSet(1 .. n) /\ Cardinality(1 .. n) = IF 1 > n THEN 0 ELSE n - 1 + 1
      BY <2>1, FS_Interval
    <2> QED BY <2>1, <2>2
  <1>2. r \in [S -> 1 .. n]
    BY Zenon, PlaceGrows
  <1>3. \A x, y \in S : y < x => r[y] < r[x]
    BY Zenon, PlaceGrows
  <1> HIDE DEF r
  <1>4. \A x, y \in S : r[x] = r[y] => x = y
    <2> TAKE x, y \in S
    <2>1. x \in Int /\ y \in Int /\ r[x] \in Int /\ r[y] \in Int
      BY <1>1, <1>2
    <2> QED BY <1>3, <2>1
  <1>5. r \in Injection(S, 1 .. n)
    BY <1>2, <1>4 DEF Injection, IsInjective
  <1>6. r \in Surjection(S, 1 .. n)
    <2>1. Cardinality(S) = Cardinality(1 .. n)
      BY <1>1
    <2> HIDE DEF n
    <2> QED BY <1>1, <1>5, <2>1, FS_Injection
  <1>7. \A i \in 1 .. n : f[i] \in S /\ r[f[i]] = i
    <2> TAKE i \in 1 .. n
    <2>1. \E x \in S : r[x] = i
      BY <1>6 DEF Surjection
    <2> QED BY <2>1
  <1>8. DOMAIN f = 1 .. n /\ f \in [1 .. n -> S]
    BY <1>7
  <1> HIDE DEF f
  <1>9. \A i, j \in 1 .. n : i < j => f[i] < f[j]
    <2> TAKE i, j \in 1 .. n
    <2> HAVE i < j
    <2>1. f[i] \in S /\ f[j] \in S /\ f[i] \in Int /\ f[j] \in Int /\ r[f[i]] = i /\ r[f[j]] = j
      BY Zenon, <1>7
    <2>2. f[i] # f[j]
      BY <1>1, <2>1
    <2>3. ~ (f[j] < f[i])
      BY <1>1, <1>3, <2>1
    <2> QED BY <2>1, <2>2, <2>3
  <1> QED BY Zenon, <1>8, <1>9

\* A non-empty finite set of numbers has a greatest.
LEMMA MaxOfFinite ==
    ASSUME NEW S, S \subseteq Int, IsFiniteSet(S), S # {}
    PROVE  Max(S) \in S /\ \A x \in S : x <= Max(S)
  <1> DEFINE n == Cardinality(S)
             K == {n - Place(S, x) : x \in S}
  <1>1. n \in Nat /\ \A x \in S : Place(S, x) \in 1 .. n
    BY Zenon, FS_CardinalityType, PlaceGrows
  <1>2. PICK k \in K : \A l \in K : k <= l
    <2>1. K \subseteq Nat
      <3> HIDE DEF n
      <3> QED BY <1>1
    <2>2. K # {}
      BY Zenon
    <2> HIDE DEF K
    <2> QED BY Zenon, <2>1, <2>2, MinOfNaturals
  <1>3. PICK m \in S : k = n - Place(S, m)
    BY <1>2
  <1>4. ASSUME NEW x \in S PROVE x <= m
    <2>1. n - Place(S, m) <= n - Place(S, x)
      <3>1. n - Place(S, x) \in K
        OBVIOUS
      <3> HIDE DEF K
      <3> QED BY Zenon, <1>2, <1>3, <3>1
    <2>2. Place(S, x) <= Place(S, m)
      <3> HIDE DEF n
      <3> QED BY <1>1, <2>1
    <2>3. Place(S, x) \in Int /\ Place(S, m) \in Int
      <3> HIDE DEF n
      <3> QED BY <1>1
    <2>4. m < x => Place(S, m) < Place(S, x)
      BY Zenon, PlaceGrows
    <2> QED BY <2>2, <2>3, <2>4
  <1> QED BY Zenon, <1>4 DEF Max

-----------------------------------------------------------------------------
(* Sums of weights.                                                        *)

\* A non-empty set of subsets of a finite set has a smallest member.
LEMMA SmallestSet ==
    ASSUME NEW S, IsFiniteSet(S), NEW B \in SUBSET (SUBSET S), B # {}
    PROVE  \E T \in B : \A U \in B : U \subseteq T => U = T
<1>1. IsWellFoundedOn(StrictSubsetOrdering(S), SUBSET S)
  BY Zenon, FS_StrictSubsetOrderingWellFounded, FS_FiniteSubsetsOfFinite
<1>2. PICK T \in B : \A U \in B : ~ (<<U, T>> \in StrictSubsetOrdering(S))
  BY <1>1, WFMin
<1> QED
  BY Zenon, <1>2 DEF StrictSubsetOrdering

Chosen(s) == CHOOSE x \in s : TRUE

IsSum(f, w, S) ==
    f = [s \in SUBSET S |-> IF s = {} THEN 0 ELSE w[Chosen(s)] + f[s \ {Chosen(s)}]]

SumOver(w, S) == (CHOOSE f : IsSum(f, w, S))[S]

\* SumFunctionOnSet as the library defines it.
LEMMA SumIsFold ==
    ASSUME NEW w, NEW S
    PROVE  SumFunctionOnSet(w, S) = SumOver(w, S)
BY DEF SumFunctionOnSet, FoldFunctionOnSet, MapThenFoldSet, SumOver, IsSum, Chosen

\* The equations determine the values.
LEMMA SumUnique ==
    ASSUME NEW w, NEW f, NEW g, NEW S, NEW T, IsSum(f, w, S), IsSum(g, w, T),
           NEW U, IsFiniteSet(U), U \subseteq S, U \subseteq T
    PROVE  f[U] = g[U]
<1> DEFINE B == {V \in SUBSET U : f[V] # g[V]}
<1>1. SUFFICES ASSUME B # {} PROVE FALSE
  OBVIOUS
<1>2. PICK V \in B : \A W \in B : W \subseteq V => W = V
  <2>1. B \in SUBSET (SUBSET U)
    OBVIOUS
  <2> HIDE DEF B
  <2> QED
    BY <1>1, <2>1, SmallestSet
<1>3. V # {}
  BY <1>2 DEF IsSum
<1>4. Chosen(V) \in V
  BY <1>3 DEF Chosen
<1>5. V \ {Chosen(V)} \notin B
  BY <1>2, <1>4
<1>6. f[V \ {Chosen(V)}] = g[V \ {Chosen(V)}]
  BY <1>2, <1>5
<1>7. f[V] = w[Chosen(V)] + f[V \ {Chosen(V)}] /\ g[V] = w[Chosen(V)] + g[V \ {Chosen(V)}]
  BY Zenon, <1>2, <1>3 DEF IsSum
<1> QED
  BY <1>2, <1>6, <1>7

\* The recursion over subsets is well defined on a finite set.
LEMMA SumExists ==
    ASSUME NEW w, NEW S, IsFiniteSet(S)
    PROVE  IsSum(CHOOSE f : IsSum(f, w, S), w, S)
<1> DEFINE B == {T \in SUBSET S : ~ \E f : IsSum(f, w, T)}
<1>1. SUFFICES ASSUME B # {} PROVE FALSE
  OBVIOUS
<1>2. PICK T \in B : \A U \in B : U \subseteq T => U = T
  <2>1. B \in SUBSET (SUBSET S)
    OBVIOUS
  <2> HIDE DEF B
  <2> QED
    BY <1>1, <2>1, SmallestSet
<1> DEFINE c(U) == CHOOSE f : IsSum(f, w, U)
           F == [s \in SUBSET T |->
                   IF s = {} THEN 0 ELSE w[Chosen(s)] + c(s \ {Chosen(s)})[s \ {Chosen(s)}]]
<1>3. ASSUME NEW U \in SUBSET T, U # T
      PROVE  IsSum(c(U), w, U)
  BY <1>2, <1>3
<1>4. ASSUME NEW s \in SUBSET T, s # {}
      PROVE  F[s \ {Chosen(s)}] = c(s \ {Chosen(s)})[s \ {Chosen(s)}]
  <2> DEFINE U == s \ {Chosen(s)}
  <2>1. Chosen(s) \in s /\ U \in SUBSET T /\ U # T
    BY <1>4 DEF Chosen
  <2>2. IsSum(c(U), w, U)
    BY Zenon, <1>3, <2>1
  <2>3. CASE U = {}
    BY Zenon, <2>1, <2>2, <2>3 DEF IsSum
  <2>4. CASE U # {}
    <3> DEFINE V == U \ {Chosen(U)}
    <3>1. Chosen(U) \in U /\ V \in SUBSET T /\ V # T /\ V \subseteq U
      BY <2>1, <2>4 DEF Chosen
    <3>2. IsSum(c(V), w, V)
      BY Zenon, <1>3, <3>1
    <3>3. IsFiniteSet(V)
      BY <3>1, FS_Subset
    <3> HIDE DEF c, V, U
    <3>4. c(V)[V] = c(U)[V]
      BY <2>2, <3>1, <3>2, <3>3, SumUnique
    <3>5. c(U)[U] = w[Chosen(U)] + c(U)[V]
      BY Zenon, <2>2, <2>4 DEF IsSum, V
    <3>6. F[U] = w[Chosen(U)] + c(V)[V]
      BY <2>1, <2>4 DEF V
    <3> QED
      BY <3>4, <3>5, <3>6 DEF U
  <2> QED
    BY <2>3, <2>4
<1>5. IsSum(F, w, T)
  <2>1. ASSUME NEW s \in SUBSET T
        PROVE  F[s] = IF s = {} THEN 0 ELSE w[Chosen(s)] + F[s \ {Chosen(s)}]
    <3>1. F[s] = IF s = {} THEN 0 ELSE w[Chosen(s)] + c(s \ {Chosen(s)})[s \ {Chosen(s)}]
      OBVIOUS
    <3> HIDE DEF F, c
    <3> QED
      BY <1>4, <3>1
  <2>2. F = [s \in SUBSET T |-> F[s]]
    OBVIOUS
  <2> HIDE DEF F
  <2> QED
    BY Zenon, <2>1, <2>2 DEF IsSum
<1> HIDE DEF F
<1> QED
  BY <1>2, <1>5

\* A sum over a non-empty set, by one element of the recursion's choice.
LEMMA SumPick ==
    ASSUME NEW w, NEW S, IsFiniteSet(S)
    PROVE  SumOver(w, S) = IF S = {} THEN 0 ELSE w[Chosen(S)] + SumOver(w, S \ {Chosen(S)})
<1> DEFINE f == CHOOSE f : IsSum(f, w, S)
           T == S \ {Chosen(S)}
           g == CHOOSE g : IsSum(g, w, T)
<1>1. IsFiniteSet(T) /\ T \subseteq S
  BY FS_Subset
<1>2. IsSum(f, w, S) /\ IsSum(g, w, T)
  BY <1>1, SumExists
<1>3. SumOver(w, S) = f[S] /\ SumOver(w, T) = g[T]
  BY DEF SumOver
<1> HIDE DEF f, g
<1>4. f[S] = IF S = {} THEN 0 ELSE w[Chosen(S)] + f[T]
  BY Zenon, <1>2 DEF IsSum
<1>5. f[T] = g[T]
  BY <1>1, <1>2, SumUnique
<1> QED
  BY <1>3, <1>4, <1>5

\* A sum of natural numbers is a natural number.
LEMMA SumType ==
    ASSUME NEW w, NEW S, IsFiniteSet(S), \A x \in S : w[x] \in Nat
    PROVE  SumOver(w, S) \in Nat
<1> DEFINE B == {T \in SUBSET S : SumOver(w, T) \notin Nat}
<1>1. SUFFICES ASSUME B # {} PROVE FALSE
  OBVIOUS
<1>2. PICK T \in B : \A U \in B : U \subseteq T => U = T
  <2>1. B \in SUBSET (SUBSET S)
    OBVIOUS
  <2> HIDE DEF B
  <2> QED
    BY <1>1, <2>1, SmallestSet
<1>3. IsFiniteSet(T)
  BY FS_Subset
<1>4. T # {}
  <2>1. SumOver(w, {}) = 0
    BY Zenon, SumPick, FS_EmptySet
  <2>2. SumOver(w, T) \notin Nat
    BY <1>2
  <2> QED
    BY <2>1, <2>2
<1>5. Chosen(T) \in T
  BY <1>4 DEF Chosen
<1>6. SumOver(w, T \ {Chosen(T)}) \in Nat
  BY <1>2, <1>5
<1>7. SumOver(w, T) = w[Chosen(T)] + SumOver(w, T \ {Chosen(T)})
  BY <1>3, <1>4, SumPick
<1>8. w[Chosen(T)] \in Nat
  BY <1>2, <1>5
<1> QED
  BY <1>2, <1>6, <1>7, <1>8

\* One more element adds its weight, whatever the order of the recursion.
LEMMA SumAdd ==
    ASSUME NEW w, NEW S, IsFiniteSet(S), \A x \in S : w[x] \in Nat,
           NEW a, a \notin S, w[a] \in Nat
    PROVE  SumOver(w, S \cup {a}) = SumOver(w, S) + w[a]
<1> DEFINE A == S \cup {a}
           Ok(T) == \A y \in A \ T : SumOver(w, T \cup {y}) = SumOver(w, T) + w[y]
           B == {T \in SUBSET A : ~ Ok(T)}
<1>1. IsFiniteSet(A) /\ \A x \in A : w[x] \in Nat
  BY FS_AddElement
<1>2. B = {}
  <2>1. SUFFICES ASSUME B # {} PROVE FALSE
    OBVIOUS
  <2>2. PICK T \in B : \A U \in B : U \subseteq T => U = T
    <3>1. B \in SUBSET (SUBSET A)
      OBVIOUS
    <3> HIDE DEF B, A
    <3> QED
      BY <1>1, <2>1, <3>1, SmallestSet
  <2>3. PICK y \in A \ T : SumOver(w, T \cup {y}) # SumOver(w, T) + w[y]
    BY Zenon, <2>2
  <2> DEFINE V == T \cup {y}
             x == Chosen(V)
  <2>4. IsFiniteSet(T) /\ IsFiniteSet(V) /\ V # {} /\ x \in V
    BY <1>1, <2>2, <2>3, FS_Subset DEF Chosen
  <2>5. SumOver(w, V) = w[x] + SumOver(w, V \ {x})
    BY ZenonT(40), <2>4, SumPick
  <2>6. SumOver(w, T) \in Nat /\ w[y] \in Nat /\ w[x] \in Nat
    BY <1>1, <2>2, <2>3, <2>4, SumType
  <2> HIDE DEF x
  <2>7. CASE x = y
    <3>1. V \ {x} = T
      BY <2>3, <2>7
    <3>2. SumOver(w, V) = w[y] + SumOver(w, T)
      BY <2>5, <2>7, <3>1
    <3> QED
      BY <2>3, <2>6, <3>2
  <2>8. CASE x # y
    <3> DEFINE U == T \ {x}
    <3>1. /\ x \in T /\ U \in SUBSET A /\ U \subseteq T /\ U # T
          /\ V \ {x} = U \cup {y} /\ T = U \cup {x}
          /\ x \in A \ U /\ y \in A \ U
      BY <2>2, <2>3, <2>4, <2>8
    <3>2. Ok(U)
      BY <2>2, <3>1
    <3>3. SumOver(w, U \cup {y}) = SumOver(w, U) + w[y] /\ SumOver(w, U \cup {x}) = SumOver(w, U) + w[x]
      BY <3>1, <3>2
    <3>4. SumOver(w, U) \in Nat
      <4>1. IsFiniteSet(U) /\ \A b \in U : w[b] \in Nat
        BY <1>1, <2>4, <3>1, FS_Subset
      <4> QED BY <4>1, SumType
    <3> HIDE DEF U, V
    <3>5. SumOver(w, V) = w[x] + (SumOver(w, U) + w[y]) /\ SumOver(w, T) = SumOver(w, U) + w[x]
      BY <2>5, <3>1, <3>3
    <3>6. SumOver(w, V) = SumOver(w, T) + w[y]
      BY <2>6, <3>4, <3>5
    <3> QED
      BY <2>3, <3>6 DEF V
  <2> QED
    BY <2>7, <2>8
<1>3. Ok(S)
  BY <1>2
<1> QED
  BY <1>3

\* The three facts in terms of the library's operator.
LEMMA SumFunctionFacts ==
    ASSUME NEW w, NEW S, IsFiniteSet(S), \A x \in S : w[x] \in Nat
    PROVE  /\ SumFunctionOnSet(w, {}) = 0
           /\ SumFunctionOnSet(w, S) \in Nat
           /\ \A a : a \notin S /\ w[a] \in Nat =>
                 SumFunctionOnSet(w, S \cup {a}) = SumFunctionOnSet(w, S) + w[a]
<1>1. SumOver(w, {}) = 0
  BY Zenon, SumPick, FS_EmptySet
<1> QED
  BY <1>1, SumIsFold, SumType, SumAdd
=============================================================================
