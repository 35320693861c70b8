-------------------------- MODULE DistributeProofs --------------------------
(***************************************************************************)
(* Theorems about the scheduler in detail, for any jobs, nodes, GPUs and   *)
(* requirements: the search for GPUs, and the rounds of distribute().      *)
(***************************************************************************)
EXTENDS Distribute, FiniteSetTheorems, FunctionTheorems, WellFoundedInduction, TLAPS

-----------------------------------------------------------------------------
(* Natural numbers: the least of a set, and induction, over sets. *)

LEMMA Least ==
  ASSUME NEW T, T \subseteq Nat, T # {}
  PROVE  \E m \in T : \A n \in T : m <= n
<1> DEFINE R == OpToRel(<, Nat)
<1>1. IsWellFoundedOn(R, Nat)
  BY NatLessThanWellFounded
<1>2. \A x, y \in Nat : <<x, y>> \in R <=> x < y
  BY DEF OpToRel
<1> HIDE DEF R
<1>3. \E x \in T : \A y \in T : ~ (<<y, x>> \in R)
  BY <1>1, WFMin
<1>4. PICK x \in T : \A y \in T : ~ (<<y, x>> \in R)
  BY <1>3
<1>5. \A y \in T : ~ (y < x)
  BY <1>2, <1>4
<1> QED BY <1>5

LEMMA MinIsIn ==
  ASSUME NEW T, T \subseteq Nat, T # {}
  PROVE  Min(T) \in T
BY Least DEF Min

LEMMA SetInduction ==
  ASSUME NEW S, 0 \in S, \A n \in Nat : n \in S => n + 1 \in S
  PROVE  Nat \subseteq S
<1> SUFFICES ASSUME Nat \ S # {} PROVE FALSE
  OBVIOUS
<1>1. PICK m \in Nat \ S : \A n \in Nat \ S : m <= n
  BY Least
<1>2. m # 0 /\ m - 1 \in Nat
  BY <1>1
<1>3. m - 1 \in S
  BY <1>1, <1>2
<1> QED BY <1>1, <1>2, <1>3

LEMMA UpTo ==
  ASSUME NEW n \in Nat
  PROVE  IsFiniteSet(1 .. n) /\ Cardinality(1 .. n) = n
<1>1. /\ IsFiniteSet(1 .. n)
      /\ Cardinality(1 .. n) = IF 1 > n THEN 0 ELSE n - 1 + 1
  BY FS_Interval
<1> QED BY <1>1

-----------------------------------------------------------------------------
(* Sums over finite sets, as SumFunctionOnSet defines them. *)

First(T) == CHOOSE x \in T : TRUE

\* g has the sums of f over the subsets of S that have up to n elements.
Sums(g, n, f, S) ==
  g = [T \in SUBSET S |->
         IF T = {} \/ Cardinality(T) > n THEN 0 ELSE f[First(T)] + g[T \ {First(T)}]]

\* The same without a bound.
SumsAll(g, f, S) ==
  \A T \in SUBSET S : g[T] = IF T = {} THEN 0 ELSE f[First(T)] + g[T \ {First(T)}]

LEMMA FirstIsIn ==
  ASSUME NEW T, T # {}
  PROVE  First(T) \in T
BY DEF First

LEMMA FewerLeft ==
  ASSUME NEW T, IsFiniteSet(T), NEW x \in T
  PROVE  /\ IsFiniteSet(T \ {x}) /\ Cardinality(T) \in Nat \ {0}
         /\ Cardinality(T \ {x}) = Cardinality(T) - 1
<1>1. IsFiniteSet(T \ {x}) /\ Cardinality(T \ {x}) = Cardinality(T) - 1
  BY FS_RemoveElement
<1>2. Cardinality(T) \in Nat /\ Cardinality(T \ {x}) \in Nat
  BY <1>1, FS_CardinalityType
<1> QED BY <1>1, <1>2

LEMMA SumsExist ==
  ASSUME NEW f, NEW S, IsFiniteSet(S), NEW n \in Nat
  PROVE  \E g : Sums(g, n, f, S)
<1> DEFINE N == {i \in Nat : \E g : Sums(g, i, f, S)}
<1>1. 0 \in N
  <2> DEFINE g == [T \in SUBSET S |-> 0]
  <2>1. ASSUME NEW T \in SUBSET S, T # {} PROVE Cardinality(T) > 0
    <3>1. First(T) \in T /\ IsFiniteSet(T)
      BY <2>1, FirstIsIn, FS_Subset
    <3>2. Cardinality(T) \in Nat \ {0}
      BY <3>1, FewerLeft
    <3> QED BY <3>2
  <2>2. \A T \in SUBSET S : g[T] = IF T = {} \/ Cardinality(T) > 0 THEN 0
                                   ELSE f[First(T)] + g[T \ {First(T)}]
    BY <2>1
  <2>3. Sums(g, 0, f, S)
    BY <2>2 DEF Sums
  <2> QED BY <2>3
<1>2. ASSUME NEW i \in Nat, i \in N
      PROVE  i + 1 \in N
  <2>1. PICK g : Sums(g, i, f, S)
    BY <1>2
  <2> DEFINE h == [T \in SUBSET S |->
                     IF T = {} \/ Cardinality(T) > i + 1 THEN 0
                     ELSE f[First(T)] + g[T \ {First(T)}]]
  <2>2. ASSUME NEW T \in SUBSET S, ~(T = {} \/ Cardinality(T) > i + 1)
        PROVE  h[T \ {First(T)}] = g[T \ {First(T)}]
    <3> DEFINE U == T \ {First(T)}
    <3>1. U \in SUBSET S /\ Cardinality(T) \in Nat \ {0} /\ Cardinality(U) = Cardinality(T) - 1
      BY <2>2, FirstIsIn, FewerLeft, FS_Subset
    <3>2. ~(Cardinality(U) > i) /\ ~(Cardinality(U) > i + 1)
      BY <2>2, <3>1
    <3> HIDE DEF U
    <3>3. g[U] = IF U = {} THEN 0 ELSE f[First(U)] + g[U \ {First(U)}]
      BY <2>1, <3>1, <3>2 DEF Sums
    <3>4. h[U] = IF U = {} THEN 0 ELSE f[First(U)] + g[U \ {First(U)}]
      BY <3>1, <3>2
    <3> QED BY <3>3, <3>4 DEF U
  <2>3. \A T \in SUBSET S : h[T] = IF T = {} \/ Cardinality(T) > i + 1 THEN 0
                                   ELSE f[First(T)] + h[T \ {First(T)}]
    BY <2>2
  <2>4. Sums(h, i + 1, f, S)
    BY <2>3 DEF Sums
  <2> QED BY <2>4
<1>3. Nat \subseteq N
  <2> HIDE DEF N
  <2> QED BY <1>1, <1>2, SetInduction
<1> QED BY <1>3

\* SumFunctionOnSet takes one element after another.
LEMMA SumIs ==
  ASSUME NEW f, NEW S, IsFiniteSet(S)
  PROVE  \E g : SumsAll(g, f, S) /\ SumFunctionOnSet(f, S) = g[S]
<1> DEFINE n == Cardinality(S)
           Def(g) == g = [T \in SUBSET S |->
                            IF T = {} THEN 0 ELSE f[First(T)] + g[T \ {First(T)}]]
           c == CHOOSE g : Def(g)
<1>1. \E g : Def(g)
  <2>1. n \in Nat
    BY FS_CardinalityType
  <2>2. PICK g : Sums(g, n, f, S)
    BY <2>1, SumsExist
  <2>3. \A T \in SUBSET S : Cardinality(T) \in Nat /\ ~(Cardinality(T) > n)
    BY <2>1, FS_Subset, FS_CardinalityType
  <2>4. Def(g)
    BY <2>2, <2>3 DEF Sums
  <2> QED BY <2>4
<1>2. Def(c)
  BY <1>1
<1>3. SumFunctionOnSet(f, S) = c[S]
  BY DEF SumFunctionOnSet, FoldFunctionOnSet, MapThenFoldSet, First
<1> HIDE DEF c
<1>4. SumsAll(c, f, S)
  BY <1>2 DEF SumsAll
<1> QED BY <1>3, <1>4

\* Over which sets it is defined makes no difference.
LEMMA SumsAgree ==
  ASSUME NEW f, NEW S, NEW U \in SUBSET S, IsFiniteSet(S), NEW g, NEW h,
         SumsAll(g, f, S), SumsAll(h, f, U)
  PROVE  g[U] = h[U]
<1> DEFINE N == {n \in Nat : \A T \in SUBSET U : Cardinality(T) = n => g[T] = h[T]}
<1>1. \A T \in SUBSET U : IsFiniteSet(T) /\ Cardinality(T) \in Nat /\ T \in SUBSET S
  BY FS_Subset, FS_CardinalityType
<1>2. ASSUME NEW T \in SUBSET U, T # {}
      PROVE  /\ First(T) \in T /\ T \ {First(T)} \in SUBSET U
             /\ Cardinality(T \ {First(T)}) = Cardinality(T) - 1
  BY <1>1, <1>2, FirstIsIn, FewerLeft
<1>3. 0 \in N
  <2> SUFFICES ASSUME NEW T \in SUBSET U, Cardinality(T) = 0 PROVE g[T] = h[T]
    OBVIOUS
  <2>1. T = {}
    BY <1>1, FS_EmptySet
  <2> QED BY <1>1, <2>1 DEF SumsAll
<1>4. ASSUME NEW n \in Nat, n \in N
      PROVE  n + 1 \in N
  <2> SUFFICES ASSUME NEW T \in SUBSET U, Cardinality(T) = n + 1 PROVE g[T] = h[T]
    OBVIOUS
  <2>1. T # {}
    BY FS_EmptySet
  <2>2. g[T \ {First(T)}] = h[T \ {First(T)}]
    BY <1>2, <1>4, <2>1
  <2> QED BY <1>1, <2>1, <2>2 DEF SumsAll
<1>5. Nat \subseteq N
  <2> HIDE DEF N
  <2> QED BY <1>3, <1>4, SetInduction
<1> QED BY <1>1, <1>5

LEMMA SumEmpty ==
  ASSUME NEW f
  PROVE  SumFunctionOnSet(f, {}) = 0
<1>1. IsFiniteSet({})
  BY FS_EmptySet
<1>2. PICK g : SumsAll(g, f, {}) /\ SumFunctionOnSet(f, {}) = g[{}]
  BY <1>1, SumIs
<1> QED BY <1>2 DEF SumsAll

LEMMA SumFirst ==
  ASSUME NEW f, NEW S, IsFiniteSet(S), S # {}
  PROVE  SumFunctionOnSet(f, S) = f[First(S)] + SumFunctionOnSet(f, S \ {First(S)})
<1> DEFINE R == S \ {First(S)}
<1>1. R \in SUBSET S /\ IsFiniteSet(R)
  BY FS_Subset
<1>2. PICK g : SumsAll(g, f, S) /\ SumFunctionOnSet(f, S) = g[S]
  BY SumIs
<1>3. g[S] = f[First(S)] + g[R]
  BY <1>2 DEF SumsAll
<1> HIDE DEF R
<1>4. PICK h : SumsAll(h, f, R) /\ SumFunctionOnSet(f, R) = h[R]
  BY <1>1, SumIs
<1>5. g[R] = h[R]
  BY <1>1, <1>2, <1>4, SumsAgree
<1> QED BY <1>2, <1>3, <1>4, <1>5 DEF R

\* All of S's sums of integers are integers.
LEMMA SumTyped ==
  ASSUME NEW S, IsFiniteSet(S), NEW f, \A x \in S : f[x] \in Int
  PROVE  SumFunctionOnSet(f, S) \in Int
<1> DEFINE N == {n \in Nat : \A T \in SUBSET S :
                   Cardinality(T) = n => SumFunctionOnSet(f, T) \in Int}
<1>1. \A T \in SUBSET S : IsFiniteSet(T) /\ Cardinality(T) \in Nat
  BY FS_Subset, FS_CardinalityType
<1>2. ASSUME NEW T \in SUBSET S, T # {}
      PROVE  /\ First(T) \in T /\ T \ {First(T)} \in SUBSET S
             /\ Cardinality(T \ {First(T)}) = Cardinality(T) - 1
  BY <1>1, <1>2, FirstIsIn, FewerLeft
<1>3. 0 \in N
  <2> SUFFICES ASSUME NEW T \in SUBSET S, Cardinality(T) = 0
               PROVE  SumFunctionOnSet(f, T) \in Int
    OBVIOUS
  <2>1. T = {}
    BY <1>1, FS_EmptySet
  <2> QED BY <2>1, SumEmpty
<1>4. ASSUME NEW n \in Nat, n \in N
      PROVE  n + 1 \in N
  <2> SUFFICES ASSUME NEW T \in SUBSET S, Cardinality(T) = n + 1
               PROVE  SumFunctionOnSet(f, T) \in Int
    OBVIOUS
  <2>1. T # {}
    BY FS_EmptySet
  <2>2. SumFunctionOnSet(f, T \ {First(T)}) \in Int /\ f[First(T)] \in Int
    BY <1>2, <1>4, <2>1
  <2>3. SumFunctionOnSet(f, T) = f[First(T)] + SumFunctionOnSet(f, T \ {First(T)})
    BY <1>1, <2>1, SumFirst
  <2> QED BY <2>2, <2>3
<1>5. Nat \subseteq N
  <2> HIDE DEF N
  <2> QED BY <1>3, <1>4, SetInduction
<1> QED BY <1>1, <1>5

\* The order makes no difference: any element may be the last.
LEMMA SumAdds ==
  ASSUME NEW S, IsFiniteSet(S), NEW f, \A x \in S : f[x] \in Int, NEW e \in S
  PROVE  SumFunctionOnSet(f, S) = f[e] + SumFunctionOnSet(f, S \ {e})
<1> DEFINE N == {n \in Nat : \A T \in SUBSET S : \A x \in T :
                   Cardinality(T) = n
                     => SumFunctionOnSet(f, T) = f[x] + SumFunctionOnSet(f, T \ {x})}
<1>1. \A T \in SUBSET S : /\ IsFiniteSet(T) /\ Cardinality(T) \in Nat
                          /\ SumFunctionOnSet(f, T) \in Int
  BY FS_Subset, FS_CardinalityType, SumTyped
<1>2. ASSUME NEW T \in SUBSET S, NEW x \in T
      PROVE  T \ {x} \in SUBSET S /\ Cardinality(T \ {x}) = Cardinality(T) - 1
  BY <1>1, FewerLeft
<1>3. 0 \in N
  <2> SUFFICES ASSUME NEW T \in SUBSET S, NEW x \in T, Cardinality(T) = 0 PROVE FALSE
    OBVIOUS
  <2> QED BY <1>1, FS_EmptySet
<1>4. ASSUME NEW n \in Nat, n \in N
      PROVE  n + 1 \in N
  <2> SUFFICES ASSUME NEW T \in SUBSET S, NEW x \in T, Cardinality(T) = n + 1
               PROVE  SumFunctionOnSet(f, T) = f[x] + SumFunctionOnSet(f, T \ {x})
    OBVIOUS
  <2> DEFINE y == First(T)
             R == (T \ {x}) \ {y}
  <2>1. y \in T
    BY FirstIsIn
  <2>2. SumFunctionOnSet(f, T) = f[y] + SumFunctionOnSet(f, T \ {y})
    BY <1>1, SumFirst
  <2> HIDE DEF y
  <2>3. CASE x = y
    BY <2>2, <2>3
  <2>4. CASE x # y
    <3>1. /\ T \ {y} \in SUBSET S /\ Cardinality(T \ {y}) = n /\ x \in T \ {y}
          /\ T \ {x} \in SUBSET S /\ Cardinality(T \ {x}) = n /\ y \in T \ {x}
          /\ (T \ {y}) \ {x} = R
      BY <1>2, <2>1, <2>4
    <3> HIDE DEF R
    <3>2. SumFunctionOnSet(f, T \ {y}) = f[x] + SumFunctionOnSet(f, R)
      BY <1>4, <3>1
    <3>3. SumFunctionOnSet(f, T \ {x}) = f[y] + SumFunctionOnSet(f, R)
      BY <1>4, <3>1 DEF R
    <3>4. f[x] \in Int /\ f[y] \in Int /\ SumFunctionOnSet(f, R) \in Int
      BY <1>1, <2>1 DEF R
    <3>5. \A a, b, c \in Int : a + (b + c) = b + (a + c)
      OBVIOUS
    <3> QED BY <2>2, <3>2, <3>3, <3>4, <3>5
  <2> QED BY <2>3, <2>4
<1>5. Nat \subseteq N
  <2> HIDE DEF N
  <2> QED BY <1>3, <1>4, SetInduction
<1> QED BY <1>1, <1>5

\* Equal functions have equal sums.
LEMMA SumSame ==
  ASSUME NEW S, IsFiniteSet(S), NEW f, NEW h, \A x \in S : f[x] \in Int /\ h[x] = f[x]
  PROVE  SumFunctionOnSet(f, S) = SumFunctionOnSet(h, S)
<1> DEFINE N == {n \in Nat : \A T \in SUBSET S :
                   Cardinality(T) = n => SumFunctionOnSet(f, T) = SumFunctionOnSet(h, T)}
<1>1. \A T \in SUBSET S : IsFiniteSet(T) /\ Cardinality(T) \in Nat
  BY FS_Subset, FS_CardinalityType
<1>2. ASSUME NEW T \in SUBSET S, T # {}
      PROVE  /\ First(T) \in T /\ T \ {First(T)} \in SUBSET S
             /\ Cardinality(T \ {First(T)}) = Cardinality(T) - 1
  BY <1>1, <1>2, FirstIsIn, FewerLeft
<1>3. 0 \in N
  <2> SUFFICES ASSUME NEW T \in SUBSET S, Cardinality(T) = 0
               PROVE  SumFunctionOnSet(f, T) = SumFunctionOnSet(h, T)
    OBVIOUS
  <2>1. T = {}
    BY <1>1, FS_EmptySet
  <2> QED BY <2>1, SumEmpty
<1>4. ASSUME NEW n \in Nat, n \in N
      PROVE  n + 1 \in N
  <2> SUFFICES ASSUME NEW T \in SUBSET S, Cardinality(T) = n + 1
               PROVE  SumFunctionOnSet(f, T) = SumFunctionOnSet(h, T)
    OBVIOUS
  <2>1. T # {}
    BY FS_EmptySet
  <2>2. /\ SumFunctionOnSet(f, T \ {First(T)}) = SumFunctionOnSet(h, T \ {First(T)})
        /\ f[First(T)] = h[First(T)]
    BY <1>2, <1>4, <2>1
  <2>3. /\ SumFunctionOnSet(f, T) = f[First(T)] + SumFunctionOnSet(f, T \ {First(T)})
        /\ SumFunctionOnSet(h, T) = h[First(T)] + SumFunctionOnSet(h, T \ {First(T)})
    BY <1>1, <2>1, SumFirst
  <2> QED BY <2>2, <2>3
<1>5. Nat \subseteq N
  <2> HIDE DEF N
  <2> QED BY <1>3, <1>4, SetInduction
<1> QED BY <1>1, <1>5

\* A sum of natural numbers over a part is no greater than over the whole.
LEMMA SumOfPart ==
  ASSUME NEW S, IsFiniteSet(S), NEW f, \A x \in S : f[x] \in Nat, NEW P \in SUBSET S
  PROVE  SumFunctionOnSet(f, P) <= SumFunctionOnSet(f, S)
<1> DEFINE N == {n \in Nat : \A T \in SUBSET S :
                   Cardinality(T) = n
                     => SumFunctionOnSet(f, T \cap P) <= SumFunctionOnSet(f, T)}
<1>1. \A T \in SUBSET S : /\ IsFiniteSet(T) /\ Cardinality(T) \in Nat
                          /\ SumFunctionOnSet(f, T) \in Int
  BY FS_Subset, FS_CardinalityType, SumTyped
<1>2. ASSUME NEW T \in SUBSET S, T # {}
      PROVE  /\ First(T) \in T /\ T \ {First(T)} \in SUBSET S
             /\ Cardinality(T \ {First(T)}) = Cardinality(T) - 1
  BY <1>1, <1>2, FirstIsIn, FewerLeft
<1>3. 0 \in N
  <2> SUFFICES ASSUME NEW T \in SUBSET S, Cardinality(T) = 0
               PROVE  SumFunctionOnSet(f, T \cap P) <= SumFunctionOnSet(f, T)
    OBVIOUS
  <2>1. T = {} /\ T \cap P = {}
    BY <1>1, FS_EmptySet
  <2> QED BY <2>1, SumEmpty
<1>4. ASSUME NEW n \in Nat, n \in N
      PROVE  n + 1 \in N
  <2> SUFFICES ASSUME NEW T \in SUBSET S, Cardinality(T) = n + 1
               PROVE  SumFunctionOnSet(f, T \cap P) <= SumFunctionOnSet(f, T)
    OBVIOUS
  <2> DEFINE y == First(T)
             R == T \ {y}
  <2>1. T # {}
    BY FS_EmptySet
  <2>2. y \in T /\ R \in SUBSET S /\ Cardinality(R) = n
    BY <1>2, <2>1
  <2>3. SumFunctionOnSet(f, T) = f[y] + SumFunctionOnSet(f, R)
    BY <1>1, <2>1, SumFirst
  <2> HIDE DEF y
  <2>4. SumFunctionOnSet(f, R \cap P) <= SumFunctionOnSet(f, R)
    <3> HIDE DEF R
    <3> QED BY <1>4, <2>2
  <2>5. SumFunctionOnSet(f, T \cap P) \in {SumFunctionOnSet(f, R \cap P),
                                           f[y] + SumFunctionOnSet(f, R \cap P)}
    <3>1. CASE y \notin P
      <4>1. T \cap P = R \cap P
        BY <3>1
      <4> QED BY <4>1
    <3>2. CASE y \in P
      <4>1. y \in T \cap P /\ (T \cap P) \ {y} = R \cap P
        BY <2>2, <3>2
      <4>2. IsFiniteSet(T \cap P) /\ \A x \in T \cap P : f[x] \in Int
        BY FS_Subset
      <4> HIDE DEF R
      <4> QED BY <4>1, <4>2, SumAdds
    <3> QED BY <3>1, <3>2
  <2>6. /\ f[y] \in Nat /\ SumFunctionOnSet(f, R) \in Int
        /\ SumFunctionOnSet(f, R \cap P) \in Int
    BY <1>1, <2>2
  <2> HIDE DEF R
  <2>7. \A a \in Nat, b, c \in Int : b <= c => b <= a + c /\ a + b <= a + c
    OBVIOUS
  <2> QED BY <2>3, <2>4, <2>5, <2>6, <2>7
<1>5. Nat \subseteq N
  <2> HIDE DEF N
  <2> QED BY <1>3, <1>4, SetInduction
<1>6. SumFunctionOnSet(f, S \cap P) <= SumFunctionOnSet(f, S)
  BY <1>1, <1>5
<1>7. S \cap P = P
  OBVIOUS
<1> QED BY <1>6, <1>7

-----------------------------------------------------------------------------
(* The search of one node, requirement by requirement. *)

Begin(gpus) == [gpus |-> gpus, used |-> {}, found |-> 0]

\* m has what has been taken after each of the first n requirements.
Searches(m, n, gpus, reqs) ==
  m = [k \in 0 .. n |-> IF k = 0 THEN Begin(gpus) ELSE Take(m[k - 1], reqs[k])]

LEMMA SearchExists ==
  ASSUME NEW gpus, NEW reqs, NEW n \in Nat
  PROVE  \E m : Searches(m, n, gpus, reqs)
<1> DEFINE S == {i \in Nat : \E m : Searches(m, i, gpus, reqs)}
<1>1. 0 \in S
  <2>1. Searches([k \in 0 .. 0 |-> Begin(gpus)], 0, gpus, reqs)
    BY DEF Searches
  <2> QED BY <2>1
<1>2. ASSUME NEW i \in Nat, i \in S
      PROVE  i + 1 \in S
  <2>1. PICK m : Searches(m, i, gpus, reqs)
    BY <1>2
  <2> DEFINE p == [k \in 0 .. i + 1 |-> IF k = i + 1 THEN Take(m[i], reqs[i + 1]) ELSE m[k]]
  <2>2. \A k \in 0 .. i : m[k] = IF k = 0 THEN Begin(gpus) ELSE Take(m[k - 1], reqs[k])
    BY <2>1 DEF Searches
  <2>3. \A k \in 0 .. i + 1 : p[k] = IF k = 0 THEN Begin(gpus) ELSE Take(p[k - 1], reqs[k])
    BY <2>2
  <2>4. Searches(p, i + 1, gpus, reqs)
    BY <2>3 DEF Searches
  <2> QED BY <2>4
<1>3. Nat \subseteq S
  <2> HIDE DEF S
  <2> QED BY <1>1, <1>2, SetInduction
<1> QED BY <1>3

LEMMA MatchSearches ==
  ASSUME NEW gpus, NEW reqs, Len(reqs) \in Nat
  PROVE  \E m : /\ Searches(m, Len(reqs), gpus, reqs)
                /\ Match(gpus, reqs) = m[Len(reqs)]
<1> DEFINE c == CHOOSE m : Searches(m, Len(reqs), gpus, reqs)
<1>1. Searches(c, Len(reqs), gpus, reqs)
  BY SearchExists
<1>2. Match(gpus, reqs) = c[Len(reqs)]
  BY DEF Match, Searches, Begin
<1> QED BY <1>1, <1>2

-----------------------------------------------------------------------------
(* The lines that nvidia-smi prints. *)

Line == GPU \cup [error : STRING]

Parses(g, n, lines) ==
  g = [k \in 0 .. n |->
         IF k = 0 THEN <<>>
         ELSE IF IsGpu(lines[k]) THEN Append(g[k - 1], lines[k])
         ELSE g[k - 1]]

LEMMA ParseExists ==
  ASSUME NEW lines, NEW n \in Nat
  PROVE  \E g : Parses(g, n, lines)
<1> DEFINE S == {i \in Nat : \E g : Parses(g, i, lines)}
<1>1. 0 \in S
  <2>1. Parses([k \in 0 .. 0 |-> <<>>], 0, lines)
    BY DEF Parses
  <2> QED BY <2>1
<1>2. ASSUME NEW i \in Nat, i \in S
      PROVE  i + 1 \in S
  <2>1. PICK g : Parses(g, i, lines)
    BY <1>2
  <2> DEFINE p == [k \in 0 .. i + 1 |->
                     IF k < i + 1 THEN g[k]
                     ELSE IF IsGpu(lines[i + 1]) THEN Append(g[i], lines[i + 1])
                     ELSE g[i]]
  <2>2. \A k \in 0 .. i :
          g[k] = IF k = 0 THEN <<>>
                 ELSE IF IsGpu(lines[k]) THEN Append(g[k - 1], lines[k])
                 ELSE g[k - 1]
    BY <2>1 DEF Parses
  <2>3. \A k \in 0 .. i + 1 :
          p[k] = IF k = 0 THEN <<>>
                 ELSE IF IsGpu(lines[k]) THEN Append(p[k - 1], lines[k])
                 ELSE p[k - 1]
    BY <2>2
  <2>4. Parses(p, i + 1, lines)
    BY <2>3 DEF Parses
  <2> QED BY <2>4
<1>3. Nat \subseteq S
  <2> HIDE DEF S
  <2> QED BY <1>1, <1>2, SetInduction
<1> QED BY <1>3

\* Only GPUs come out.
LEMMA ParseTyped ==
  ASSUME NEW lines \in Seq(Line)
  PROVE  parseNvidiaOut(lines) \in Seq(GPU)
<1> DEFINE c == CHOOSE g : Parses(g, Len(lines), lines)
           S == {i \in Nat : i <= Len(lines) => c[i] \in Seq(GPU)}
<1>1. Parses(c, Len(lines), lines)
  BY ParseExists
<1>2. parseNvidiaOut(lines) = c[Len(lines)]
  BY DEF parseNvidiaOut, Parses
<1>3. \A k \in 0 .. Len(lines) :
        c[k] = IF k = 0 THEN <<>>
               ELSE IF IsGpu(lines[k]) THEN Append(c[k - 1], lines[k])
               ELSE c[k - 1]
  BY <1>1 DEF Parses
<1> HIDE DEF c
<1>4. 0 \in S
  <2>1. c[0] = <<>>
    BY <1>3
  <2>2. <<>> \in Seq(GPU)
    OBVIOUS
  <2> QED BY <2>1, <2>2
<1>5. ASSUME NEW i \in Nat, i \in S
      PROVE  i + 1 \in S
  <2> SUFFICES ASSUME i + 1 <= Len(lines)
               PROVE  c[i + 1] \in Seq(GPU)
    OBVIOUS
  <2>1. c[i] \in Seq(GPU) /\ lines[i + 1] \in Line
    BY <1>5
  <2>2. IsGpu(lines[i + 1]) => lines[i + 1] \in GPU
    BY <2>1 DEF IsGpu, Line
  <2>3. c[i + 1] = IF IsGpu(lines[i + 1]) THEN Append(c[i], lines[i + 1]) ELSE c[i]
    BY <1>3
  <2> QED BY <2>1, <2>2, <2>3
<1>6. Nat \subseteq S
  <2> HIDE DEF S
  <2> QED BY <1>4, <1>5, SetInduction
<1> QED BY <1>2, <1>6

-----------------------------------------------------------------------------
(* What the search has taken. *)

\* There are different GPUs for the first k requirements, and they are the ones used.
Found(used, k, gpus, reqs) ==
  \E f \in [1 .. k -> used] :
    /\ \A i, n \in 1 .. k : i # n => f[i] # f[n]
    /\ \A x \in used : \E i \in 1 .. k : f[i] = x
    /\ \A i \in 1 .. k : Matches(gpus[f[i]], reqs[i])

\* The search after k requirements: a GPU that is not used is as it was, and if none of
\* them was passed over all were found.
Good(m, k, gpus, reqs) ==
  /\ m.gpus \in Seq(GPU) /\ DOMAIN m.gpus = DOMAIN gpus
  /\ m.used \subseteq DOMAIN gpus
  /\ m.found \in 0 .. k
  /\ \A x \in DOMAIN gpus \ m.used : m.gpus[x] = gpus[x]
  /\ m.found = k => Found(m.used, k, gpus, reqs)

LEMMA SubtractTyped ==
  ASSUME NEW gpu \in GPU, NEW req \in Requirement
  PROVE  Subtract(gpu, req) \in GPU
BY DEF Subtract, GPU, Requirement

LEMMA TakeGood ==
  ASSUME NEW gpus \in Seq(GPU), NEW reqs \in Seq(Requirement), NEW k \in Nat, k + 1 <= Len(reqs),
         NEW m, Good(m, k, gpus, reqs)
  PROVE  Good(Take(m, reqs[k + 1]), k + 1, gpus, reqs)
<1> DEFINE req == reqs[k + 1]
           open == Open(m.gpus, m.used, req)
           x == Min(open)
           new == [m.gpus EXCEPT ![x] = Subtract(@, req)]
<1>1. /\ req \in Requirement /\ DOMAIN gpus \subseteq Nat
      /\ open \subseteq DOMAIN gpus \ m.used
  BY DEF Open, Good
<1>2. CASE open = {}
  <2>1. Take(m, req) = m
    BY <1>2 DEF Take
  <2>2. m.found \in 0 .. k + 1 /\ m.found # k + 1
    BY DEF Good
  <2> QED BY <2>1, <2>2 DEF Good
<1>3. CASE open # {}
  <2>1. x \in open
    <3> HIDE DEF open
    <3> QED BY <1>1, <1>3, MinIsIn
  <2>2. Take(m, req) = [gpus |-> new, used |-> m.used \cup {x}, found |-> m.found + 1]
    BY <1>3 DEF Take
  <2>3. x \in DOMAIN gpus \ m.used /\ Matches(gpus[x], req)
    BY <1>1, <2>1 DEF Open, Good
  <2> HIDE DEF x, open
  <2>4. new \in Seq(GPU) /\ DOMAIN new = DOMAIN gpus
    <3>1. m.gpus \in Seq(GPU) /\ DOMAIN m.gpus = DOMAIN gpus /\ x \in DOMAIN m.gpus
      BY <2>3 DEF Good
    <3>2. m.gpus[x] \in GPU
      BY <3>1
    <3>3. Subtract(m.gpus[x], req) \in GPU
      <4> HIDE DEF req
      <4> QED BY <1>1, <3>2, SubtractTyped
    <3> QED BY <3>1, <3>3
  <2>5. \A y \in DOMAIN gpus \ (m.used \cup {x}) : new[y] = gpus[y]
    BY <2>3 DEF Good
  <2>6. m.found + 1 \in 0 .. k + 1
    BY DEF Good
  <2>7. ASSUME m.found + 1 = k + 1 PROVE Found(m.used \cup {x}, k + 1, gpus, reqs)
    <3>1. PICK f \in [1 .. k -> m.used] :
            /\ \A i, n \in 1 .. k : i # n => f[i] # f[n]
            /\ \A y \in m.used : \E i \in 1 .. k : f[i] = y
            /\ \A i \in 1 .. k : Matches(gpus[f[i]], reqs[i])
      <4>1. m.found = k
        BY <2>7 DEF Good
      <4> QED BY <4>1 DEF Good, Found
    <3> DEFINE g == [i \in 1 .. k + 1 |-> IF i = k + 1 THEN x ELSE f[i]]
    <3>2. g \in [1 .. k + 1 -> m.used \cup {x}]
      OBVIOUS
    <3>3. \A i, n \in 1 .. k + 1 : i # n => g[i] # g[n]
      BY <2>3, <3>1
    <3>4. ASSUME NEW y \in m.used \cup {x} PROVE \E i \in 1 .. k + 1 : g[i] = y
      <4>1. CASE y = x
        <5>1. k + 1 \in 1 .. k + 1 /\ g[k + 1] = x
          OBVIOUS
        <5> QED BY <4>1, <5>1
      <4>2. CASE y # x
        <5>1. PICK i \in 1 .. k : f[i] = y
          BY <3>1, <4>2
        <5>2. i \in 1 .. k + 1 /\ g[i] = f[i]
          OBVIOUS
        <5> QED BY <5>1, <5>2
      <4> QED BY <4>1, <4>2
    <3>5. ASSUME NEW i \in 1 .. k + 1 PROVE Matches(gpus[g[i]], reqs[i])
      <4>1. CASE i = k + 1
        <5>1. g[i] = x
          BY <4>1
        <5> QED BY <2>3, <4>1, <5>1
      <4>2. CASE i # k + 1
        <5>1. i \in 1 .. k /\ g[i] = f[i]
          BY <4>2
        <5> QED BY <3>1, <5>1
      <4> QED BY <4>1, <4>2
    <3> HIDE DEF g
    <3> QED BY <3>2, <3>3, <3>4, <3>5 DEF Found
  <2>8. m.used \cup {x} \subseteq DOMAIN gpus
    BY <2>3 DEF Good
  <2> HIDE DEF new
  <2> QED BY <2>2, <2>4, <2>5, <2>6, <2>7, <2>8 DEF Good
<1> QED BY <1>2, <1>3

LEMMA BeginGood ==
  ASSUME NEW gpus \in Seq(GPU), NEW reqs
  PROVE  Good(Begin(gpus), 0, gpus, reqs)
<1>1. [i \in 1 .. 0 |-> 0] \in [1 .. 0 -> {}]
  OBVIOUS
<1>2. Found({}, 0, gpus, reqs)
  BY <1>1 DEF Found
<1> QED BY <1>2 DEF Good, Begin

LEMMA MatchGood ==
  ASSUME NEW gpus \in Seq(GPU), NEW reqs \in Seq(Requirement)
  PROVE  Good(Match(gpus, reqs), Len(reqs), gpus, reqs)
<1>1. PICK m : Searches(m, Len(reqs), gpus, reqs) /\ Match(gpus, reqs) = m[Len(reqs)]
  BY MatchSearches
<1>2. \A k \in 0 .. Len(reqs) : m[k] = IF k = 0 THEN Begin(gpus) ELSE Take(m[k - 1], reqs[k])
  BY <1>1 DEF Searches
<1> DEFINE S == {i \in Nat : i <= Len(reqs) => Good(m[i], i, gpus, reqs)}
<1>3. 0 \in S
  BY <1>2, BeginGood
<1>4. ASSUME NEW i \in Nat, i \in S
      PROVE  i + 1 \in S
  <2> SUFFICES ASSUME i + 1 <= Len(reqs)
               PROVE  Good(m[i + 1], i + 1, gpus, reqs)
    OBVIOUS
  <2>1. Good(m[i], i, gpus, reqs)
    BY <1>4
  <2>2. m[i + 1] = Take(m[i], reqs[i + 1])
    BY <1>2
  <2> QED BY <2>1, <2>2, TakeGood
<1>5. Nat \subseteq S
  <2> HIDE DEF S
  <2> QED BY <1>3, <1>4, SetInduction
<1> QED BY <1>1, <1>5

LEMMA LessMemory ==
  ASSUME NEW a \in Int, NEW b \in Int, NEW c \in Int, a <= b, b > -1 => c >= b
  PROVE  a > -1 => c >= a
OBVIOUS

\* What matches a requirement matches one that is no harder.
LEMMA EasierMatches ==
  ASSUME NEW gpu \in GPU, NEW req \in Requirement, NEW easier \in Requirement,
         easier.type \in {"", req.type}, easier.memory <= req.memory,
         Matches(gpu, req)
  PROVE  Matches(gpu, easier)
<1>1. gpu.free \in Int /\ req.memory \in Int /\ easier.memory \in Int
  BY DEF GPU, Requirement
<1>2. easier.type # "" => gpu.name = easier.type
  BY Zenon DEF Matches
<1>3. req.memory > -1 => gpu.free >= req.memory
  BY DEF Matches
<1>4. easier.memory > -1 => gpu.free >= easier.memory
  BY <1>1, <1>3, LessMemory, Zenon
<1> QED BY <1>2, <1>4, Zenon DEF Matches

\* When different GPUs match all the requirements and the hardest comes first, the next
\* requirement finds one: were all that match it in use, those for the requirements
\* before it and its own, one more, would have no room among them.
LEMMA HardestTakes ==
  ASSUME NEW gpus \in Seq(GPU), NEW reqs \in Seq(Requirement), NEW k \in Nat, k + 1 <= Len(reqs),
         NEW m, Good(m, k, gpus, reqs), m.found = k,
         Fulfils(gpus, reqs), HardestFirst(reqs)
  PROVE  Take(m, reqs[k + 1]).found = k + 1
<1> DEFINE req == reqs[k + 1]
           open == Open(m.gpus, m.used, req)
<1>1. ASSUME open = {} PROVE FALSE
  <2>1. PICK f \in [1 .. Len(reqs) -> DOMAIN gpus] :
          /\ \A i, n \in 1 .. Len(reqs) : i # n => f[i] # f[n]
          /\ \A i \in 1 .. Len(reqs) : Matches(gpus[f[i]], reqs[i])
    <3>1. DOMAIN reqs = 1 .. Len(reqs)
      OBVIOUS
    <3> QED BY <3>1, Zenon DEF Fulfils
  <2>2. \A i \in 1 .. Len(reqs) : gpus[f[i]] \in GPU /\ reqs[i] \in Requirement
    OBVIOUS
  <2>3. ASSUME NEW i \in 1 .. k + 1 PROVE Matches(gpus[f[i]], req)
    <3>1. i \in 1 .. Len(reqs) /\ k + 1 \in 1 .. Len(reqs) /\ Matches(gpus[f[i]], reqs[i])
      BY <2>1
    <3>2. CASE i = k + 1
      BY <3>1, <3>2
    <3>3. CASE i < k + 1
      <4>1. i \in DOMAIN reqs /\ k + 1 \in DOMAIN reqs
        BY <3>1
      <4>2. req.type \in {"", reqs[i].type} /\ req.memory <= reqs[i].memory
        <5> HIDE DEF req
        <5>1. i < k + 1 => reqs[k + 1].type \in {"", reqs[i].type}
                           /\ reqs[k + 1].memory <= reqs[i].memory
          BY <4>1, Zenon DEF HardestFirst
        <5> QED BY <3>3, <5>1 DEF req
      <4>3. gpus[f[i]] \in GPU /\ reqs[i] \in Requirement /\ req \in Requirement
        BY <2>2, <3>1
      <4> HIDE DEF req
      <4> QED BY <3>1, <4>2, <4>3, EasierMatches
    <3> QED BY <3>2, <3>3
  <2>4. \A i \in 1 .. k + 1 : f[i] \in m.used
    <3> SUFFICES ASSUME NEW i \in 1 .. k + 1, f[i] \notin m.used PROVE FALSE
      OBVIOUS
    <3>1. f[i] \in DOMAIN gpus \ m.used /\ Matches(gpus[f[i]], req)
      BY <2>3
    <3>2. f[i] \in DOMAIN m.gpus \ m.used /\ m.gpus[f[i]] = gpus[f[i]]
      BY <3>1 DEF Good
    <3>3. f[i] \in open
      BY <3>1, <3>2 DEF Open
    <3> QED BY <1>1, <3>3
  <2>5. IsFiniteSet(m.used) /\ Cardinality(m.used) <= k
    <3>1. PICK g \in [1 .. k -> m.used] : \A y \in m.used : \E i \in 1 .. k : g[i] = y
      BY DEF Good, Found
    <3>2. g \in Surjection(1 .. k, m.used)
      BY <3>1, Fun_IsSurj
    <3>3. IsFiniteSet(1 .. k) /\ Cardinality(1 .. k) = k
      BY UpTo
    <3> QED BY <3>2, <3>3, FS_Surjection
  <2> DEFINE I == 1 .. k + 1
             h == [i \in I |-> f[i]]
  <2>6. IsFiniteSet(I) /\ Cardinality(I) = k + 1
    BY UpTo
  <2>7. h \in [I -> m.used]
    BY <2>4
  <2>8. Cardinality(m.used) < Cardinality(I)
    BY <2>5, <2>6, FS_CardinalityType
  <2>9. \E i, n \in I : i # n /\ h[i] = h[n]
    <3> HIDE DEF h, I
    <3> QED BY <2>5, <2>6, <2>7, <2>8, FS_PigeonHole
  <2>10. PICK i \in 1 .. k + 1, n \in 1 .. k + 1 : i # n /\ h[i] = h[n]
    BY <2>9
  <2>11. f[i] = f[n] /\ i \in 1 .. Len(reqs) /\ n \in 1 .. Len(reqs)
    BY <2>10
  <2> QED BY <2>1, <2>10, <2>11, Zenon
<1>2. open # {}
  BY <1>1
<1> QED BY <1>2 DEF Take

\* Then none is passed over.
LEMMA HardestMatch ==
  ASSUME NEW gpus \in Seq(GPU), NEW reqs \in Seq(Requirement),
         Fulfils(gpus, reqs), HardestFirst(reqs)
  PROVE  HasGpus(gpus, reqs)
<1>1. PICK m : Searches(m, Len(reqs), gpus, reqs) /\ Match(gpus, reqs) = m[Len(reqs)]
  BY MatchSearches
<1>2. \A k \in 0 .. Len(reqs) : m[k] = IF k = 0 THEN Begin(gpus) ELSE Take(m[k - 1], reqs[k])
  BY <1>1 DEF Searches
<1> DEFINE S == {i \in Nat : i <= Len(reqs) => Good(m[i], i, gpus, reqs) /\ m[i].found = i}
<1>3. 0 \in S
  <2>1. Good(Begin(gpus), 0, gpus, reqs) /\ Begin(gpus).found = 0
    BY BeginGood DEF Begin
  <2> QED BY <1>2, <2>1
<1>4. ASSUME NEW i \in Nat, i \in S
      PROVE  i + 1 \in S
  <2> SUFFICES ASSUME i + 1 <= Len(reqs)
               PROVE  Good(m[i + 1], i + 1, gpus, reqs) /\ m[i + 1].found = i + 1
    OBVIOUS
  <2>1. Good(m[i], i, gpus, reqs) /\ m[i].found = i
    BY <1>4
  <2>2. m[i + 1] = Take(m[i], reqs[i + 1])
    BY <1>2
  <2>3. Good(Take(m[i], reqs[i + 1]), i + 1, gpus, reqs)
    BY <2>1, TakeGood
  <2>4. Take(m[i], reqs[i + 1]).found = i + 1
    BY <2>1, HardestTakes
  <2> QED BY <2>2, <2>3, <2>4
<1>5. Nat \subseteq S
  <2> HIDE DEF S
  <2> QED BY <1>3, <1>4, SetInduction
<1> QED BY <1>1, <1>5 DEF HasGpus

LEMMA SoundMatch ==
  ASSUME NEW gpus \in Seq(GPU), NEW reqs \in Seq(Requirement), HasGpus(gpus, reqs)
  PROVE  Fulfils(gpus, reqs)
<1> DEFINE m == Match(gpus, reqs)
<1>1. Good(m, Len(reqs), gpus, reqs) /\ m.found = Len(reqs)
  BY MatchGood DEF HasGpus
<1> HIDE DEF m
<1>2. PICK f \in [1 .. Len(reqs) -> m.used] :
        /\ \A i, n \in 1 .. Len(reqs) : i # n => f[i] # f[n]
        /\ \A i \in 1 .. Len(reqs) : Matches(gpus[f[i]], reqs[i])
  BY <1>1 DEF Good, Found
<1>3. f \in [DOMAIN reqs -> DOMAIN gpus] /\ DOMAIN reqs = 1 .. Len(reqs)
  BY <1>1 DEF Good
<1> QED BY <1>2, <1>3 DEF Fulfils

-----------------------------------------------------------------------------
(* Types. *)

LEMMA Capped ==
  ASSUME NEW p \in Int, p > 0
  PROVE  Min({p, 100}) \in 1 .. 100
<1>1. Min({p, 100}) \in {p, 100}
  BY MinIsIn
<1>2. \A x \in {p, 100} : Min({p, 100}) <= x
  BY Least DEF Min
<1> QED BY <1>1, <1>2

LEMMA RowTyped ==
  ASSUME NEW d, d.priority \in Int, d.gpus \in Seq(Requirement)
  PROVE  Row(d).priority \in 1 .. 100 /\ Row(d).gpus \in Seq(Requirement)
<1>1. Row(d).priority \in 1 .. 100
  <2>1. CASE d.priority <= 0
    BY <2>1 DEF Row
  <2>2. CASE d.priority > 0
    <3>1. Row(d).priority = Min({d.priority, 100})
      BY <2>2 DEF Row
    <3> QED BY <2>2, <3>1, Capped, Zenon
  <2> QED BY <2>1, <2>2
<1>2. Row(d).gpus \in Seq(Requirement)
  <2> DEFINE less(k) == [d.gpus[k] EXCEPT !.memory = IF d.gpus[k].memory = 0
                                                     THEN -1 ELSE d.gpus[k].memory]
             n == Len(d.gpus)
  <2>1. n \in Nat /\ DOMAIN d.gpus = 1 .. n /\ \A k \in 1 .. n : d.gpus[k] \in Requirement
    OBVIOUS
  <2>2. Row(d).gpus = [k \in 1 .. n |-> less(k)]
    BY <2>1, Zenon DEF Row
  <2>3. ASSUME NEW k \in 1 .. n PROVE less(k) \in Requirement
    <3>1. d.gpus[k] \in Requirement
      BY <2>1
    <3>2. \A m \in Int : [d.gpus[k] EXCEPT !.memory = m] \in Requirement
      BY <3>1 DEF Requirement
    <3>3. (IF d.gpus[k].memory = 0 THEN -1 ELSE d.gpus[k].memory) \in Int
      BY <3>1 DEF Requirement
    <3> QED BY <3>2, <3>3, Zenon
  <2> HIDE DEF less, n
  <2> QED BY <2>1, <2>2, <2>3
<1> QED BY <1>1, <1>2

LEMMA QueueTyped ==
  ASSUME NEW W, W \subseteq Jobs, NEW q \in SetToSeqs(W)
  PROVE  /\ q \in Seq(Jobs) /\ Len(q) = Cardinality(W)
         /\ \A x \in DOMAIN q : q[x] \in W
         /\ \A x, y \in DOMAIN q : x # y => q[x] # q[y]
<1>1. IsFiniteSet(W) /\ Cardinality(W) \in Nat
  BY DistributeAssumption, FS_Subset, FS_CardinalityType
<1>2. /\ q \in [1 .. Cardinality(W) -> W]
      /\ \A x, y \in 1 .. Cardinality(W) : x # y => q[x] # q[y]
  BY DEF SetToSeqs
<1> QED BY <1>1, <1>2

LEMMA RunningTyped ==
  ASSUME NEW a
  PROVE  Cardinality(JobsRunning(a)) \in Nat
BY DistributeAssumption, FS_Subset, FS_CardinalityType DEF JobsRunning

NodeType == [running : Nat, gpus : Seq(GPU)]

LEMMA NodeTyped ==
  ASSUME TypeOK, NEW a \in Agents
  PROVE  Node(a) \in NodeType
BY RunningTyped DEF TypeOK, Node, NodeType

LEMMA PriorityTyped ==
  ASSUME TypeOK, NEW j \in Jobs
  PROVE  job[j].priority \in Int
<1>1. job[j].priority \in 1 .. 100
  BY DEF TypeOK
<1> QED BY <1>1

\* The search changes GPUs only.
LEMMA SearchTyped ==
  ASSUME TypeOK, NEW j \in Jobs
  PROVE  /\ AfterSearch(j) \in [Agents -> NodeType]
         /\ \A a \in Agents : AfterSearch(j)[a].running = proxy[a].running
<1>1. ASSUME NEW a \in Agents
      PROVE  AfterSearch(j)[a] \in NodeType /\ AfterSearch(j)[a].running = proxy[a].running
  <2>1. proxy[a] \in NodeType /\ job[j].gpus \in Seq(Requirement)
    BY DEF TypeOK, NodeType
  <2>2. Match(proxy[a].gpus, job[j].gpus).gpus \in Seq(GPU)
    <3>1. proxy[a].gpus \in Seq(GPU)
      BY <2>1 DEF NodeType
    <3> QED BY <2>1, <3>1, MatchGood DEF Good
  <2>3. \/ AfterSearch(j)[a] = proxy[a]
        \/ AfterSearch(j)[a] =
             [proxy[a] EXCEPT !.gpus = Match(proxy[a].gpus, job[j].gpus).gpus]
    BY DEF AfterSearch
  <2> QED BY <2>1, <2>2, <2>3 DEF NodeType
<1>2. AfterSearch(j) = [a \in Agents |-> AfterSearch(j)[a]]
  BY DEF AfterSearch
<1> QED BY <1>1, <1>2

\* The queue loses its head.
LEMMA TailTyped ==
  ASSUME TypeOK, queue # <<>>
  PROVE  /\ Head(queue) \in Jobs /\ Tail(queue) \in Seq(Jobs)
         /\ Len(queue) \in Nat \ {0} /\ Head(queue) = queue[1]
         /\ Len(Tail(queue)) = Len(queue) - 1
         /\ \A x \in 1 .. Len(queue) - 1 : Tail(queue)[x] = queue[x + 1]
BY DEF TypeOK

LEMMA InitTyped == Init => TypeOK
<1> SUFFICES ASSUME Init PROVE TypeOK
  OBVIOUS
<1>1. limit \in Limits
  BY DEF Init
<1>2. /\ DOMAIN job = Jobs
      /\ \A j \in Jobs : job[j].priority \in 1 .. 100 /\ job[j].gpus \in Seq(Requirement)
  <2>1. PICK d \in Definitions : job = [j \in Jobs |-> Row(d[j])]
    BY DEF Init
  <2>2. \A j \in Jobs : d[j].priority \in Int /\ d[j].gpus \in Seq(Requirement)
    BY DistributeAssumption
  <2> QED BY <2>1, <2>2, RowTyped
<1>3. /\ gpuInfo \in [Agents -> Seq(GPU)]
      /\ polls \in [Agents -> 0 .. MaxPolls]
      /\ placed \in [Jobs -> Agents \cup {NoAgent}]
      /\ ended \subseteq Jobs /\ batch \subseteq Jobs /\ queue \in Seq(Jobs)
  BY DistributeAssumption DEF Init
<1>4. nodesIn \in [Agents -> [running : Nat, gpus : Seq(GPU)]] /\ proxy = nodesIn
  BY DEF Init
<1> QED BY <1>1, <1>2, <1>3, <1>4 DEF TypeOK

LEMMA NextTyped == TypeOK /\ [Next]_vars => TypeOK'
<1> SUFFICES ASSUME TypeOK, [Next]_vars PROVE TypeOK'
  OBVIOUS
<1>1. CASE schedule
  <2>1. /\ batch' = Waiting /\ queue' \in SetToSeqs(Waiting)
        /\ nodesIn' = [a \in Agents |-> Node(a)] /\ proxy' = nodesIn'
        /\ UNCHANGED <<limit, job, gpuInfo, polls, placed, ended>>
    BY <1>1 DEF schedule
  <2>2. Waiting \subseteq Jobs
    BY DEF Waiting
  <2>3. queue' \in Seq(Jobs)
    BY <2>1, <2>2, QueueTyped
  <2>4. nodesIn' \in [Agents -> NodeType]
    BY <2>1, NodeTyped
  <2> QED BY <2>1, <2>2, <2>3, <2>4 DEF TypeOK, NodeType
<1>2. CASE Assign
  <2> DEFINE j == Head(queue)
  <2>1. PICK a \in Firsts(j) :
          /\ placed' = [placed EXCEPT ![j] = a]
          /\ proxy' = [AfterSearch(j) EXCEPT ![a].running = @ + 1]
    BY <1>2 DEF Assign
  <2>2. /\ queue # <<>> /\ queue' = Tail(queue)
        /\ UNCHANGED <<limit, job, gpuInfo, polls, ended, batch, nodesIn>>
    BY <1>2 DEF Assign
  <2>3. j \in Jobs /\ queue' \in Seq(Jobs)
    BY <2>2, TailTyped
  <2>4. a \in Agents
    BY DEF Firsts, Candidates, Tried, CapableNodes, FreeNodes
  <2> HIDE DEF j
  <2>5. AfterSearch(j) \in [Agents -> NodeType]
    BY <2>3, SearchTyped
  <2>6. proxy' \in [Agents -> NodeType]
    BY <2>1, <2>4, <2>5 DEF NodeType
  <2>7. placed' \in [Jobs -> Agents \cup {NoAgent}]
    BY <2>1, <2>3, <2>4 DEF TypeOK
  <2> QED BY <2>2, <2>3, <2>6, <2>7 DEF TypeOK, NodeType
<1>3. CASE Skip
  <2>1. /\ queue # <<>> /\ queue' = Tail(queue) /\ proxy' = AfterSearch(Head(queue))
        /\ UNCHANGED <<limit, job, gpuInfo, polls, placed, ended, batch, nodesIn>>
    BY <1>3 DEF Skip
  <2>2. Head(queue) \in Jobs /\ queue' \in Seq(Jobs)
    BY <2>1, TailTyped
  <2>3. proxy' \in [Agents -> NodeType]
    BY <2>1, <2>2, SearchTyped
  <2> QED BY <2>1, <2>2, <2>3 DEF TypeOK, NodeType
<1>4. CASE Break
  BY <1>4 DEF Break, TypeOK
<1>5. ASSUME NEW a \in Agents, pollGpuData(a) PROVE TypeOK'
  <2>1. /\ polls[a] < MaxPolls /\ polls' = [polls EXCEPT ![a] = @ + 1]
        /\ UNCHANGED <<limit, job, placed, ended, batch, queue, nodesIn, proxy>>
    BY <1>5 DEF pollGpuData
  <2>2. polls' \in [Agents -> 0 .. MaxPolls]
    BY <2>1, DistributeAssumption DEF TypeOK
  <2>3. gpuInfo' \in [Agents -> Seq(GPU)]
    <3>1. CASE UNCHANGED gpuInfo
      BY <3>1 DEF TypeOK
    <3>2. ASSUME NEW lines \in Outputs,
                 gpuInfo' = [gpuInfo EXCEPT ![a] = parseNvidiaOut(lines)]
          PROVE  gpuInfo' \in [Agents -> Seq(GPU)]
      <4>1. parseNvidiaOut(lines) \in Seq(GPU)
        BY DistributeAssumption, ParseTyped DEF Line
      <4> QED BY <3>2, <4>1 DEF TypeOK
    <3> QED BY <1>5, <3>1, <3>2 DEF pollGpuData
  <2> QED BY <2>1, <2>2, <2>3 DEF TypeOK
<1>6. ASSUME NEW j \in Jobs, JobDone(j) PROVE TypeOK'
  BY <1>6 DEF JobDone, TypeOK
<1>7. CASE UNCHANGED vars
  BY <1>7 DEF TypeOK, vars
<1> QED BY <1>1, <1>2, <1>3, <1>4, <1>5, <1>6, <1>7 DEF Next, distribute

\* Every variable has its type, for any jobs, nodes and outputs of nvidia-smi: the GPUs
\* that distribute() plans with are GPUs, whatever lines were printed, also while its
\* search takes memory from them (agent/nvidiapoll.go, server/scheduler.go:86-107).
THEOREM TypeCorrect == Spec => []TypeOK
<1> QED BY InitTyped, NextTyped, PTL DEF Spec

\* For any jobs and nodes, the greedy search of nodesWhichFulfillGpuRequirements finds
\* only nodes with different GPUs for all requirements, and it finds every such node
\* when the hardest requirement comes first (server/scheduler.go:86-126).
THEOREM SearchRight == Spec => []SearchIsRight
<1>1. ASSUME TypeOK PROVE SearchIsRight
  <2> SUFFICES ASSUME NEW a \in Agents, NEW j \in Jobs
               PROVE  /\ HasGpus(proxy[a].gpus, job[j].gpus)
                           => Fulfils(proxy[a].gpus, job[j].gpus)
                      /\ Fulfils(proxy[a].gpus, job[j].gpus) /\ HardestFirst(job[j].gpus)
                           => HasGpus(proxy[a].gpus, job[j].gpus)
    BY Zenon DEF SearchIsRight
  <2>1. proxy[a].gpus \in Seq(GPU) /\ job[j].gpus \in Seq(Requirement)
    BY <1>1 DEF TypeOK
  <2> QED BY <2>1, SoundMatch, HardestMatch, Zenon
<1> QED BY <1>1, TypeCorrect, PTL

-----------------------------------------------------------------------------
(* The rounds. *)

Elements(q) == {q[x] : x \in DOMAIN q}

Queued == Elements(queue)

\* The jobs this round has sent to node a.
Sent(a) == {j \in batch : placed[j] = a}

\* Why a job with GPUs may be left out although node a has room: another one with GPUs
\* was tried before, its requirements are in another order, or the node lacks a GPU.
Excused(i, a) ==
  /\ NeedsGpu(i)
  /\ \/ \E h \in batch \ {i} : NeedsGpu(h) /\ job[h].priority >= job[i].priority
     \/ ~HardestFirst(job[i].gpus)
     \/ ~Fulfils(nodesIn[a].gpus, job[i].gpus)

\* distribute() counts what it plans.
PlanCounts ==
  \A a \in Agents : proxy[a].running = nodesIn[a].running + Cardinality(Sent(a))

\* The jobs to come are of this round, each once, and wait.
QueueWaits ==
  /\ \A x, y \in DOMAIN queue : x # y => queue[x] # queue[y]
  /\ \A x \in DOMAIN queue : queue[x] \in batch /\ placed[queue[x]] = NoAgent

\* They come in the order of priorities, after those of the round that have been tried.
QueueSorted ==
  /\ Ordered(queue)
  /\ \A h \in batch \ Queued, i \in Queued : job[h].priority >= job[i].priority

\* A job is placed where it can run and there was room.
PlacedFit ==
  \A j \in batch, a \in Agents :
    placed[j] = a => Capable(a, j) /\ proxy[a].running <= limit[a]

\* Until the first job with GPUs is tried the copies have the GPUs that were reported.
Untouched ==
  (\A h \in batch : NeedsGpu(h) => h \in Queued)
    => \A a \in Agents : proxy[a].gpus = nodesIn[a].gpus

\* A job has been left out since every node that can run it is full, or it is excused.
LeftOut ==
  \A i \in batch \ Queued, a \in Agents :
    placed[i] = NoAgent /\ Capable(a, i) /\ limit[a] > proxy[a].running => Excused(i, a)

\* NotOvertaken in these terms.
FairlyLeftOut ==
  \A i, k \in batch, a \in Agents :
    /\ placed[i] = NoAgent /\ i \notin Queued
    /\ placed[k] = a
    /\ job[i].priority > job[k].priority
    /\ Capable(a, i)
    => Excused(i, a)

IInv ==
  /\ TypeOK
  /\ PlanCounts
  /\ QueueWaits
  /\ QueueSorted
  /\ PlacedFit
  /\ Untouched
  /\ LeftOut
  /\ FairlyLeftOut

LEMMA Overtaken ==
  ASSUME TypeOK, FairlyLeftOut
  PROVE  NotOvertaken
<1> SUFFICES ASSUME NEW i \in batch, NEW k \in batch,
                    placed[i] = NoAgent, ~Contains(queue, i), placed[k] # NoAgent,
                    job[i].priority > job[k].priority, Capable(placed[k], i)
             PROVE  Excused(i, placed[k])
  BY Zenon DEF NotOvertaken, Excused
<1>1. i \notin Queued
  BY DEF Contains, Queued, Elements, TypeOK
<1>2. placed[k] \in Agents
  BY DEF TypeOK
<1> QED BY <1>1, <1>2, Zenon DEF FairlyLeftOut

LEMMA TailElements ==
  ASSUME NEW q \in Seq(Jobs), q # <<>>,
         \A x, y \in DOMAIN q : x # y => q[x] # q[y]
  PROVE  /\ Head(q) \in Elements(q)
         /\ Elements(Tail(q)) = Elements(q) \ {Head(q)}
         /\ \A x, y \in DOMAIN Tail(q) : x # y => Tail(q)[x] # Tail(q)[y]
<1>1. /\ Len(q) \in Nat \ {0} /\ Head(q) = q[1] /\ DOMAIN q = 1 .. Len(q)
      /\ DOMAIN Tail(q) = 1 .. Len(q) - 1
      /\ \A x \in 1 .. Len(q) - 1 : Tail(q)[x] = q[x + 1]
  OBVIOUS
<1>2. Head(q) \in Elements(q)
  BY <1>1 DEF Elements
<1>3. ASSUME NEW e \in Elements(Tail(q)) PROVE e \in Elements(q) \ {Head(q)}
  <2>1. PICK x \in 1 .. Len(q) - 1 : e = q[x + 1]
    BY <1>1 DEF Elements
  <2>2. x + 1 \in DOMAIN q /\ 1 \in DOMAIN q /\ x + 1 # 1
    BY <1>1
  <2> QED BY <1>1, <2>1, <2>2 DEF Elements
<1>4. ASSUME NEW e \in Elements(q), e # Head(q) PROVE e \in Elements(Tail(q))
  <2>1. PICK x \in 1 .. Len(q) : e = q[x]
    BY <1>1 DEF Elements
  <2>2. x - 1 \in 1 .. Len(q) - 1 /\ (x - 1) + 1 = x
    BY <1>1, <1>4, <2>1
  <2>3. Tail(q)[x - 1] = e
    BY <1>1, <2>1, <2>2
  <2> QED BY <1>1, <2>2, <2>3 DEF Elements
<1>5. \A x, y \in DOMAIN Tail(q) : x # y => Tail(q)[x] # Tail(q)[y]
  BY <1>1
<1> QED BY <1>2, <1>3, <1>4, <1>5

\* A node with all GPUs has enough of them.
LEMMA FulfilsEnough ==
  ASSUME NEW gpus \in Seq(GPU), NEW reqs \in Seq(Requirement), Fulfils(gpus, reqs)
  PROVE  Len(gpus) >= Len(reqs)
<1> SUFFICES ASSUME Len(gpus) < Len(reqs) PROVE FALSE
  OBVIOUS
<1>1. DOMAIN gpus = 1 .. Len(gpus) /\ DOMAIN reqs = 1 .. Len(reqs)
  OBVIOUS
<1>2. PICK f \in [DOMAIN reqs -> DOMAIN gpus] :
        \A i, k \in DOMAIN reqs : i # k => f[i] # f[k]
  BY Zenon DEF Fulfils
<1>3. /\ IsFiniteSet(1 .. Len(reqs)) /\ Cardinality(1 .. Len(reqs)) = Len(reqs)
      /\ IsFiniteSet(1 .. Len(gpus)) /\ Cardinality(1 .. Len(gpus)) = Len(gpus)
  <2>1. Len(gpus) \in Nat /\ Len(reqs) \in Nat
    OBVIOUS
  <2> QED BY <2>1, UpTo, Zenon
<1>4. \E i, k \in 1 .. Len(reqs) : i # k /\ f[i] = f[k]
  <2>1. Cardinality(1 .. Len(gpus)) < Cardinality(1 .. Len(reqs))
    BY <1>3
  <2>2. f \in [1 .. Len(reqs) -> 1 .. Len(gpus)]
    BY <1>1, <1>2, Zenon
  <2> QED BY <1>3, <2>1, <2>2, FS_PigeonHole
<1> QED BY <1>1, <1>2, <1>4, Zenon

\* A job without a candidate is excused from nodes with room.
LEMMA NoCandidate ==
  ASSUME IInv, queue # <<>>, Candidates(Head(queue)) = {},
         NEW a \in Agents, Capable(a, Head(queue)), limit[a] > proxy[a].running
  PROVE  Excused(Head(queue), a)
<1> DEFINE j == Head(queue)
<1>1. j \in Jobs /\ j \in Queued
  BY TailTyped, TailElements DEF IInv, QueueWaits, TypeOK, Queued
<1>2. a \in CapableNodes(j)
  BY DEF CapableNodes, FreeNodes
<1> HIDE DEF j
<1>3. Candidates(j) = {}
  BY DEF j
<1>4. NeedsGpu(j)
  BY <1>2, <1>3 DEF Candidates
<1>5. ASSUME \A h \in batch \ {j} : ~(NeedsGpu(h) /\ job[h].priority >= job[j].priority),
             HardestFirst(job[j].gpus), Fulfils(nodesIn[a].gpus, job[j].gpus)
      PROVE  FALSE
  <2>1. \A h \in batch : NeedsGpu(h) => h \in Queued
    BY <1>1, <1>5 DEF IInv, QueueSorted
  <2>2. proxy[a].gpus = nodesIn[a].gpus
    BY <2>1 DEF IInv, Untouched
  <2>3. proxy[a].gpus \in Seq(GPU) /\ job[j].gpus \in Seq(Requirement)
    BY <1>1 DEF IInv, TypeOK
  <2>4. HasGpus(proxy[a].gpus, job[j].gpus)
    BY <1>5, <2>2, <2>3, HardestMatch
  <2>5. Len(proxy[a].gpus) >= Len(job[j].gpus)
    BY <1>5, <2>2, <2>3, FulfilsEnough
  <2>6. a \in Candidates(j)
    BY <1>2, <1>4, <2>4, <2>5 DEF Candidates, Tried
  <2> QED BY <1>3, <2>6
<1> QED BY <1>4, <1>5 DEF Excused, j

\* The head of the queue waits and has not been tried; the others keep their order.
LEMMA HeadLeaves ==
  ASSUME IInv, queue # <<>>
  PROVE  LET j == Head(queue)
             rest == Tail(queue)
         IN /\ j \in Jobs /\ j \in batch /\ placed[j] = NoAgent /\ j \in Queued
            /\ rest \in Seq(Jobs)
            /\ Elements(rest) = Queued \ {j}
            /\ \A x, y \in DOMAIN rest : x # y => rest[x] # rest[y]
            /\ \A x \in DOMAIN rest : /\ rest[x] \in batch
                                      /\ placed[rest[x]] = NoAgent
                                      /\ rest[x] # j
            /\ Ordered(rest)
            /\ \A h \in batch \ Elements(rest), i \in Elements(rest) :
                 job[h].priority >= job[i].priority
<1> DEFINE j == Head(queue)
           rest == Tail(queue)
<1>1. /\ queue \in Seq(Jobs)
      /\ \A x, y \in DOMAIN queue : x # y => queue[x] # queue[y]
      /\ \A x \in DOMAIN queue : queue[x] \in batch /\ placed[queue[x]] = NoAgent
  BY DEF IInv, QueueWaits, TypeOK
<1>2. /\ j \in Jobs /\ rest \in Seq(Jobs)
      /\ Len(queue) \in Nat \ {0} /\ j = queue[1] /\ DOMAIN queue = 1 .. Len(queue)
      /\ DOMAIN rest = 1 .. Len(queue) - 1
      /\ \A x \in 1 .. Len(queue) - 1 : rest[x] = queue[x + 1]
  BY TailTyped DEF IInv, TypeOK
<1>3. /\ j \in Queued /\ Elements(rest) = Queued \ {j}
      /\ \A x, y \in DOMAIN rest : x # y => rest[x] # rest[y]
  BY <1>1, TailElements DEF Queued
<1>4. j \in batch /\ placed[j] = NoAgent
  BY <1>1, <1>2
<1> HIDE DEF j, rest
<1>5. \A x \in DOMAIN rest : rest[x] \in batch /\ placed[rest[x]] = NoAgent /\ rest[x] # j
  <2> SUFFICES ASSUME NEW x \in 1 .. Len(queue) - 1
               PROVE  rest[x] \in batch /\ placed[rest[x]] = NoAgent /\ rest[x] # j
    BY <1>2
  <2>1. x + 1 \in DOMAIN queue /\ 1 \in DOMAIN queue /\ x + 1 # 1
    BY <1>2
  <2> QED BY <1>1, <1>2, <2>1
<1>6. Ordered(queue)
  BY DEF IInv, QueueSorted
<1>7. Ordered(rest)
  <2> SUFFICES ASSUME NEW x \in 1 .. Len(queue) - 1, NEW y \in 1 .. Len(queue) - 1, x < y
               PROVE  job[rest[x]].priority >= job[rest[y]].priority
    BY <1>2 DEF Ordered
  <2>1. x + 1 \in DOMAIN queue /\ y + 1 \in DOMAIN queue /\ x + 1 < y + 1
    BY <1>2
  <2>2. job[queue[x + 1]].priority >= job[queue[y + 1]].priority
    BY <1>6, <2>1, Zenon DEF Ordered
  <2> QED BY <1>2, <2>2
<1>8. ASSUME NEW h \in batch \ Elements(rest), NEW i \in Elements(rest)
      PROVE  job[h].priority >= job[i].priority
  <2>1. CASE h # j
    BY <1>3, <2>1 DEF IInv, QueueSorted
  <2>2. CASE h = j
    <3>1. PICK x \in 1 .. Len(queue) - 1 : i = rest[x]
      BY <1>2 DEF Elements
    <3>2. 1 \in DOMAIN queue /\ x + 1 \in DOMAIN queue /\ 1 < x + 1
      BY <1>2
    <3>3. job[queue[1]].priority >= job[queue[x + 1]].priority
      BY <1>6, <3>2, Zenon DEF Ordered
    <3> QED BY <1>2, <2>2, <3>1, <3>3
  <2> QED BY <2>1, <2>2
<1> QED BY <1>2, <1>3, <1>4, <1>5, <1>7, <1>8 DEF j, rest

\* An agent that gets the job at the head can run it and has room.
LEMMA FirstFits ==
  ASSUME NEW j, NEW a \in Firsts(j)
  PROVE  a \in Agents /\ Capable(a, j) /\ limit[a] > proxy[a].running
BY DEF Firsts, Candidates, Tried, CapableNodes, FreeNodes

\* Nothing of what the invariant is about changes but queue, placed and proxy.
Fixed == UNCHANGED <<limit, job, batch, nodesIn>>

LEMMA SortedTail ==
  ASSUME IInv, queue # <<>>, queue' = Tail(queue), Fixed
  PROVE  QueueSorted'
<1>1. /\ Ordered(Tail(queue))
      /\ \A h \in batch \ Elements(Tail(queue)), i \in Elements(Tail(queue)) :
           job[h].priority >= job[i].priority
  BY HeadLeaves
<1>2. job' = job /\ batch' = batch
  BY DEF Fixed
<1>3. Ordered(queue)'
  BY <1>1, <1>2 DEF Ordered
<1>4. Queued' = Elements(Tail(queue))
  BY DEF Queued, Elements
<1> QED BY <1>1, <1>2, <1>3, <1>4 DEF QueueSorted

LEMMA AssignKeeps == IInv /\ Assign /\ TypeOK' => IInv'
<1> SUFFICES ASSUME IInv, Assign, TypeOK' PROVE IInv'
  OBVIOUS
<1> DEFINE j == Head(queue)
<1>1. PICK a \in Firsts(j) :
        /\ placed' = [placed EXCEPT ![j] = a]
        /\ proxy' = [AfterSearch(j) EXCEPT ![a].running = @ + 1]
  BY DEF Assign
<1>2. /\ queue # <<>> /\ queue' = Tail(queue) /\ Fixed
      /\ limit' = limit /\ job' = job /\ batch' = batch /\ nodesIn' = nodesIn
  BY DEF Assign, Fixed
<1>3. /\ j \in Jobs /\ j \in batch /\ placed[j] = NoAgent /\ j \in Queued
      /\ Queued' = Queued \ {j}
      /\ \A x, y \in DOMAIN queue' : x # y => queue'[x] # queue'[y]
      /\ \A x \in DOMAIN queue' : /\ queue'[x] \in batch
                                  /\ placed[queue'[x]] = NoAgent
                                  /\ queue'[x] # j
  BY <1>2, HeadLeaves DEF Queued, Elements
<1>4. a \in Agents /\ Capable(a, j) /\ limit[a] > proxy[a].running /\ a # NoAgent
  BY <1>1, FirstFits, DistributeAssumption
<1>5. /\ AfterSearch(j) \in [Agents -> NodeType]
      /\ \A b \in Agents : AfterSearch(j)[b].running = proxy[b].running
  BY <1>3, SearchTyped DEF IInv
<1> HIDE DEF j
<1>6. /\ placed \in [Jobs -> Agents \cup {NoAgent}] /\ batch \subseteq Jobs
      /\ limit \in [Agents -> Nat \ {0}]
      /\ \A b \in Agents : proxy[b].running \in Nat /\ nodesIn[b].running \in Nat
  BY DistributeAssumption DEF IInv, TypeOK
<1>7. /\ placed'[j] = a
      /\ \A i \in Jobs : i # j => placed'[i] = placed[i]
  BY <1>1, <1>3, <1>6
<1>8. /\ proxy'[a].running = proxy[a].running + 1
      /\ \A b \in Agents : b # a => proxy'[b].running = proxy[b].running
      /\ \A b \in Agents : proxy'[b].gpus = AfterSearch(j)[b].gpus
  BY <1>1, <1>4, <1>5 DEF NodeType
<1>9. PlanCounts'
  <2> SUFFICES ASSUME NEW b \in Agents
               PROVE  proxy'[b].running = nodesIn[b].running + Cardinality(Sent(b)')
    BY <1>2 DEF PlanCounts
  <2>1. proxy[b].running = nodesIn[b].running + Cardinality(Sent(b))
    BY DEF IInv, PlanCounts
  <2>2. CASE b = a
    <3>1. Sent(b)' = Sent(b) \cup {j} /\ j \notin Sent(b)
      BY <1>2, <1>3, <1>4, <1>6, <1>7, <2>2 DEF Sent
    <3>2. IsFiniteSet(Sent(b)) /\ Cardinality(Sent(b)) \in Nat
      BY <1>6, DistributeAssumption, FS_Subset, FS_CardinalityType DEF Sent
    <3>3. Cardinality(Sent(b)') = Cardinality(Sent(b)) + 1
      BY <3>1, <3>2, FS_AddElement
    <3>4. proxy'[b].running = (nodesIn[b].running + Cardinality(Sent(b))) + 1
      BY <1>8, <2>1, <2>2
    <3>5. \A x, y \in Nat : (x + y) + 1 = x + (y + 1)
      OBVIOUS
    <3> QED BY <1>6, <3>2, <3>3, <3>4, <3>5, ZenonT(30)
  <2>3. CASE b # a
    <3>1. Sent(b)' = Sent(b)
      BY <1>2, <1>3, <1>4, <1>6, <1>7, <2>3, DistributeAssumption DEF Sent
    <3> QED BY <1>8, <2>1, <2>3, <3>1
  <2> QED BY <2>2, <2>3
<1>10. QueueWaits'
  BY <1>2, <1>3, <1>6, <1>7 DEF QueueWaits
<1>11. QueueSorted'
  BY <1>2, SortedTail
<1>12. PlacedFit'
  <2> SUFFICES ASSUME NEW i \in Jobs, i \in batch, NEW b \in Agents, placed'[i] = b
               PROVE  Capable(b, i)' /\ proxy'[b].running <= limit[b]
    BY <1>2, <1>6 DEF PlacedFit
  <2>1. Capable(b, i)' <=> Capable(b, i)
    BY <1>2 DEF Capable
  <2>2. CASE i = j
    <3>1. b = a
      BY <1>7, <2>2
    <3>2. proxy'[a].running <= limit[a]
      BY <1>4, <1>6, <1>8
    <3> QED BY <1>4, <2>1, <2>2, <3>1, <3>2
  <2>3. CASE i # j
    <3>1. Capable(b, i) /\ proxy[b].running <= limit[b]
      BY <1>7, <2>3 DEF IInv, PlacedFit
    <3>2. CASE b = a
      BY <1>4, <1>6, <1>8, <2>1, <3>1, <3>2
    <3>3. CASE b # a
      BY <1>8, <2>1, <3>1, <3>3
    <3> QED BY <3>2, <3>3
  <2> QED BY <2>2, <2>3
<1>13. Untouched'
  <2> SUFFICES ASSUME \A h \in batch : NeedsGpu(h)' => h \in Queued',
                      NEW b \in Agents
               PROVE  proxy'[b].gpus = nodesIn[b].gpus
    BY <1>2 DEF Untouched
  <2>1. \A h \in batch : NeedsGpu(h) => h \in Queued \ {j}
    BY <1>2, <1>3 DEF NeedsGpu
  <2>2. ~NeedsGpu(j)
    BY <1>3, <2>1
  <2>3. proxy[b].gpus = nodesIn[b].gpus
    BY <2>1 DEF IInv, Untouched
  <2>4. AfterSearch(j)[b] = proxy[b]
    BY <2>2 DEF AfterSearch
  <2> QED BY <1>8, <2>3, <2>4
<1>14. \A i, b : Excused(i, b)' <=> Excused(i, b)
  BY <1>2 DEF Excused, NeedsGpu
<1>15. LeftOut'
  <2> SUFFICES ASSUME NEW i \in Jobs, i \in batch, i \notin Queued', NEW b \in Agents,
                      placed'[i] = NoAgent, Capable(b, i)', limit[b] > proxy'[b].running
               PROVE  Excused(i, b)'
    BY <1>2, <1>6 DEF LeftOut
  <2>1. i \notin Queued /\ placed[i] = NoAgent
    BY <1>3, <1>4, <1>7
  <2>2. Capable(b, i)
    BY <1>2 DEF Capable
  <2>3. limit[b] > proxy[b].running
    <3>1. limit[b] \in Nat /\ proxy[b].running \in Nat
      BY <1>6
    <3>2. proxy'[b].running \in {proxy[b].running, proxy[b].running + 1}
      BY <1>8
    <3> QED BY <3>1, <3>2
  <2>4. Excused(i, b)
    BY <2>1, <2>2, <2>3 DEF IInv, LeftOut
  <2> QED BY <1>14, <2>4
<1>16. FairlyLeftOut'
  <2> SUFFICES ASSUME NEW i \in Jobs, i \in batch, NEW k \in Jobs, k \in batch, NEW b \in Agents,
                      placed'[i] = NoAgent, i \notin Queued', placed'[k] = b,
                      job[i].priority > job[k].priority, Capable(b, i)'
               PROVE  Excused(i, b)'
    BY <1>2, <1>6 DEF FairlyLeftOut
  <2>1. i \notin Queued /\ placed[i] = NoAgent
    BY <1>3, <1>4, <1>7
  <2>2. Capable(b, i)
    BY <1>2 DEF Capable
  <2>3. Excused(i, b)
    <3>1. CASE k = j
      BY <1>4, <1>7, <2>1, <2>2, <3>1 DEF IInv, LeftOut
    <3>2. CASE k # j
      BY <1>7, <2>1, <2>2, <3>2 DEF IInv, FairlyLeftOut
    <3> QED BY <3>1, <3>2
  <2> QED BY <1>14, <2>3
<1> QED BY <1>9, <1>10, <1>11, <1>12, <1>13, <1>15, <1>16 DEF IInv

LEMMA SkipKeeps == IInv /\ Skip /\ TypeOK' => IInv'
<1> SUFFICES ASSUME IInv, Skip, TypeOK' PROVE IInv'
  OBVIOUS
<1> DEFINE j == Head(queue)
<1>1. /\ queue # <<>> /\ queue' = Tail(queue) /\ Fixed
      /\ limit' = limit /\ job' = job /\ batch' = batch /\ nodesIn' = nodesIn
      /\ placed' = placed /\ proxy' = AfterSearch(j)
  BY DEF Skip, Fixed
<1>2. Candidates(j) = {}
  BY DEF Skip
<1>3. /\ j \in Jobs /\ j \in batch /\ placed[j] = NoAgent /\ j \in Queued
      /\ Queued' = Queued \ {j}
      /\ \A x, y \in DOMAIN queue' : x # y => queue'[x] # queue'[y]
      /\ \A x \in DOMAIN queue' : /\ queue'[x] \in batch
                                  /\ placed[queue'[x]] = NoAgent
  BY <1>1, HeadLeaves DEF Queued, Elements
<1>4. \A b \in Agents : proxy'[b].running = proxy[b].running
  BY <1>1, <1>3, SearchTyped DEF IInv
<1>5. \A a \in Agents :
        Capable(a, j) /\ limit[a] > proxy[a].running => Excused(j, a)
  BY <1>1, <1>2, NoCandidate
<1> HIDE DEF j
<1>6. batch \subseteq Jobs
  BY DEF IInv, TypeOK
<1>7. \A b : Sent(b)' = Sent(b)
  BY <1>1 DEF Sent
<1>8. PlanCounts'
  BY <1>1, <1>4, <1>7 DEF IInv, PlanCounts
<1>9. QueueWaits'
  BY <1>1, <1>3 DEF QueueWaits
<1>10. QueueSorted'
  BY <1>1, SortedTail
<1>11. \A b, i : Capable(b, i)' <=> Capable(b, i)
  BY <1>1 DEF Capable
<1>12. PlacedFit'
  BY <1>1, <1>4, <1>11 DEF IInv, PlacedFit
<1>13. Untouched'
  <2> SUFFICES ASSUME \A h \in batch : NeedsGpu(h)' => h \in Queued',
                      NEW b \in Agents
               PROVE  proxy'[b].gpus = nodesIn[b].gpus
    BY <1>1 DEF Untouched
  <2>1. \A h \in batch : NeedsGpu(h) => h \in Queued \ {j}
    BY <1>1, <1>3 DEF NeedsGpu
  <2>2. ~NeedsGpu(j)
    BY <1>3, <2>1
  <2>3. proxy[b].gpus = nodesIn[b].gpus
    BY <2>1 DEF IInv, Untouched
  <2>4. AfterSearch(j)[b] = proxy[b]
    BY <2>2 DEF AfterSearch
  <2> QED BY <1>1, <2>3, <2>4
<1>14. \A i, b : Excused(i, b)' <=> Excused(i, b)
  BY <1>1 DEF Excused, NeedsGpu
<1>15. LeftOut'
  <2> SUFFICES ASSUME NEW i \in Jobs, i \in batch, i \notin Queued', NEW b \in Agents,
                      placed[i] = NoAgent, Capable(b, i), limit[b] > proxy[b].running
               PROVE  Excused(i, b)
    BY <1>1, <1>4, <1>6, <1>11, <1>14 DEF LeftOut
  <2>1. CASE i = j
    BY <1>5, <2>1
  <2>2. CASE i # j
    BY <1>3, <2>2 DEF IInv, LeftOut
  <2> QED BY <2>1, <2>2
<1>16. FairlyLeftOut'
  <2> SUFFICES ASSUME NEW i \in Jobs, i \in batch, NEW k \in Jobs, k \in batch, NEW b \in Agents,
                      placed[i] = NoAgent, i \notin Queued', placed[k] = b,
                      job[i].priority > job[k].priority, Capable(b, i)
               PROVE  Excused(i, b)
    BY <1>1, <1>6, <1>11, <1>14 DEF FairlyLeftOut
  <2>1. CASE i = j
    <3>1. k \notin Queued
      <4>1. placed[k] # NoAgent
        BY DistributeAssumption
      <4> QED BY <4>1 DEF IInv, QueueWaits, Queued, Elements
    <3>2. job[k].priority >= job[i].priority
      BY <1>3, <2>1, <3>1 DEF IInv, QueueSorted
    <3>3. job[k].priority \in Int /\ job[i].priority \in Int
      BY PriorityTyped DEF IInv
    <3> QED BY <3>2, <3>3
  <2>2. CASE i # j
    BY <1>3, <2>2 DEF IInv, FairlyLeftOut
  <2> QED BY <2>1, <2>2
<1> QED BY <1>8, <1>9, <1>10, <1>12, <1>13, <1>15, <1>16 DEF IInv

LEMMA BreakKeeps == IInv /\ Break /\ TypeOK' => IInv'
<1> SUFFICES ASSUME IInv, Break, TypeOK' PROVE IInv'
  OBVIOUS
<1>1. /\ limit' = limit /\ job' = job /\ batch' = batch /\ nodesIn' = nodesIn
      /\ placed' = placed /\ proxy' = proxy
      /\ queue # <<>> /\ queue' = <<>> /\ Queued' = {}
  BY DEF Break, Queued, Elements
<1>2. \A a \in Agents : ~(limit[a] > proxy[a].running)
  BY DEF Break, FreeNodes
<1>3. batch \subseteq Jobs
  BY DEF IInv, TypeOK
<1>4. \A b : Sent(b)' = Sent(b)
  BY <1>1 DEF Sent
<1>5. PlanCounts'
  BY <1>1, <1>4 DEF IInv, PlanCounts
<1>6. QueueWaits' /\ QueueSorted'
  BY <1>1 DEF QueueWaits, QueueSorted, Ordered
<1>7. \A b, i : Capable(b, i)' <=> Capable(b, i)
  BY <1>1 DEF Capable
<1>8. PlacedFit'
  BY <1>1, <1>7 DEF IInv, PlacedFit
<1>9. Untouched'
  <2>1. \A h : NeedsGpu(h)' <=> NeedsGpu(h)
    BY <1>1 DEF NeedsGpu
  <2> QED BY <1>1, <2>1 DEF IInv, Untouched
<1>10. \A i, b : Excused(i, b)' <=> Excused(i, b)
  BY <1>1 DEF Excused, NeedsGpu
<1>11. LeftOut'
  BY <1>1, <1>2 DEF LeftOut
<1>12. FairlyLeftOut'
  <2> SUFFICES ASSUME NEW i \in Jobs, i \in batch, NEW k \in Jobs, k \in batch, NEW b \in Agents,
                      placed[i] = NoAgent, placed[k] = b,
                      job[i].priority > job[k].priority, Capable(b, i)
               PROVE  Excused(i, b)
    BY <1>1, <1>3, <1>7, <1>10 DEF FairlyLeftOut
  <2>1. CASE i \in Queued
    <3>1. k \notin Queued
      <4>1. placed[k] # NoAgent
        BY DistributeAssumption
      <4> QED BY <4>1 DEF IInv, QueueWaits, Queued, Elements
    <3>2. job[k].priority >= job[i].priority
      BY <2>1, <3>1 DEF IInv, QueueSorted
    <3>3. job[k].priority \in Int /\ job[i].priority \in Int
      BY PriorityTyped DEF IInv
    <3> QED BY <3>2, <3>3
  <2>2. CASE i \notin Queued
    BY <2>2 DEF IInv, FairlyLeftOut
  <2> QED BY <2>1, <2>2
<1> QED BY <1>5, <1>6, <1>8, <1>9, <1>11, <1>12 DEF IInv

\* SetToSeqs leaves nothing out.
LEMMA QueueCovers ==
  ASSUME NEW W, W \subseteq Jobs, NEW q \in SetToSeqs(W)
  PROVE  Elements(q) = W
<1> DEFINE n == Cardinality(W)
<1>1. IsFiniteSet(W) /\ n \in Nat
  BY DistributeAssumption, FS_Subset, FS_CardinalityType
<1>2. q \in [1 .. n -> W] /\ \A x, y \in 1 .. n : x # y => q[x] # q[y]
  BY DEF SetToSeqs
<1>3. q \in Injection(1 .. n, W)
  BY <1>2, Fun_IsInj
<1>4. Cardinality(1 .. n) = n
  BY <1>1, UpTo
<1>5. q \in Surjection(1 .. n, W)
  <2>1. Cardinality(1 .. n) = Cardinality(W) <=> q \in Surjection(1 .. n, W)
    <3> HIDE DEF n
    <3> QED BY <1>1, <1>3, FS_Injection
  <2> QED BY <1>4, <2>1
<1>6. \A w \in W : \E x \in 1 .. n : q[x] = w
  BY <1>5 DEF Surjection
<1> QED BY <1>2, <1>6 DEF Elements

LEMMA ScheduleKeeps == IInv /\ schedule /\ TypeOK' => IInv'
<1> SUFFICES ASSUME IInv, schedule, TypeOK' PROVE IInv'
  OBVIOUS
<1>1. /\ batch' = Waiting /\ queue' \in SetToSeqs(Waiting) /\ Ordered(queue')
      /\ proxy' = nodesIn' /\ placed' = placed /\ job' = job
  BY DEF schedule
<1>2. Waiting \subseteq Jobs /\ \A j \in batch' : placed'[j] = NoAgent
  BY <1>1 DEF Waiting
<1>3. Queued' = batch'
  BY <1>1, <1>2, QueueCovers DEF Queued, Elements
<1>4. /\ \A x \in DOMAIN queue' : queue'[x] \in batch'
      /\ \A x, y \in DOMAIN queue' : x # y => queue'[x] # queue'[y]
  BY <1>1, <1>2, QueueTyped
<1>5. NoAgent \notin Agents
  BY DistributeAssumption
<1>6. PlanCounts'
  <2> SUFFICES ASSUME NEW a \in Agents
               PROVE  nodesIn'[a].running = nodesIn'[a].running + Cardinality(Sent(a)')
    BY <1>1 DEF PlanCounts
  <2>1. Sent(a)' = {}
    BY <1>2, <1>5 DEF Sent
  <2>2. Cardinality(Sent(a)') = 0
    BY <2>1, FS_EmptySet
  <2>3. nodesIn'[a].running \in Nat
    BY DEF TypeOK
  <2> QED BY <2>2, <2>3
<1>7. QueueWaits'
  BY <1>2, <1>4 DEF QueueWaits
<1>8. QueueSorted'
  <2>1. Ordered(queue)'
    BY <1>1 DEF Ordered
  <2> QED BY <1>3, <2>1 DEF QueueSorted
<1>9. PlacedFit' /\ LeftOut' /\ FairlyLeftOut'
  BY <1>2, <1>3, <1>5 DEF PlacedFit, LeftOut, FairlyLeftOut
<1>10. Untouched'
  BY <1>1 DEF Untouched
<1> QED BY <1>6, <1>7, <1>8, <1>9, <1>10 DEF IInv

\* Nothing else in the model is part of a round.
LEMMA OthersKeep ==
  IInv /\ UNCHANGED <<limit, job, placed, batch, queue, nodesIn, proxy>> /\ TypeOK' => IInv'
<1> SUFFICES ASSUME IInv, UNCHANGED <<limit, job, placed, batch, queue, nodesIn, proxy>>, TypeOK'
             PROVE  IInv'
  OBVIOUS
<1>1. /\ Queued' = Queued
      /\ \A b : Sent(b)' = Sent(b)
      /\ \A b, i : Capable(b, i)' <=> Capable(b, i)
      /\ \A h : NeedsGpu(h)' <=> NeedsGpu(h)
  BY DEF Queued, Elements, Sent, Capable, NeedsGpu
<1>2. \A i, b : Excused(i, b)' <=> Excused(i, b)
  BY DEF Excused, NeedsGpu
<1>3. PlanCounts' /\ QueueWaits' /\ QueueSorted'
  BY <1>1 DEF IInv, PlanCounts, QueueWaits, QueueSorted, Ordered
<1>4. PlacedFit' /\ Untouched'
  BY <1>1 DEF IInv, PlacedFit, Untouched
<1>5. LeftOut' /\ FairlyLeftOut'
  BY <1>1, <1>2 DEF IInv, LeftOut, FairlyLeftOut
<1> QED BY <1>3, <1>4, <1>5 DEF IInv

LEMMA InitIInv == Init => IInv
<1> SUFFICES ASSUME Init PROVE IInv
  OBVIOUS
<1>1. TypeOK
  BY InitTyped
<1>2. /\ batch = {} /\ queue = <<>> /\ Queued = {} /\ proxy = nodesIn
      /\ \A a \in Agents : nodesIn[a].running = 0
  BY DEF Init, Queued, Elements
<1>3. PlanCounts
  <2>1. \A a : Sent(a) = {}
    BY <1>2 DEF Sent
  <2>2. \A a : Cardinality(Sent(a)) = 0
    BY <2>1, FS_EmptySet
  <2> QED BY <1>2, <2>2 DEF PlanCounts
<1>4. QueueWaits /\ QueueSorted /\ PlacedFit /\ Untouched /\ LeftOut /\ FairlyLeftOut
  BY <1>2 DEF QueueWaits, QueueSorted, Ordered, PlacedFit, Untouched, LeftOut, FairlyLeftOut
<1> QED BY <1>1, <1>3, <1>4 DEF IInv

LEMMA NextIInv == IInv /\ [Next]_vars => IInv'
<1> SUFFICES ASSUME IInv, [Next]_vars PROVE IInv'
  OBVIOUS
<1>1. TypeOK'
  BY NextTyped DEF IInv
<1>2. CASE schedule
  BY <1>1, <1>2, ScheduleKeeps
<1>3. CASE Assign
  BY <1>1, <1>3, AssignKeeps
<1>4. CASE Skip
  BY <1>1, <1>4, SkipKeeps
<1>5. CASE Break
  BY <1>1, <1>5, BreakKeeps
<1>6. ASSUME NEW a \in Agents, pollGpuData(a) PROVE IInv'
  BY <1>1, <1>6, OthersKeep DEF pollGpuData
<1>7. ASSUME NEW j \in Jobs, JobDone(j) PROVE IInv'
  BY <1>1, <1>7, OthersKeep DEF JobDone
<1>8. CASE UNCHANGED vars
  BY <1>1, <1>8, OthersKeep DEF vars
<1> QED BY <1>2, <1>3, <1>4, <1>5, <1>6, <1>7, <1>8 DEF Next, distribute

LEMMA Inductive == Spec => []IInv
<1> QED BY InitIInv, NextIInv, PTL DEF Spec

\* The loop of distribute(), over any jobs without GPUs, any nodes and any order of
\* nodes and of jobs of one priority, returns a placement as Server assumes it
\* (server/scheduler.go:18-82): every job on a node that can run it, none beyond its
\* room, and none left out while a node that can run it has room.
THEOREM RoundsArePlacements == Spec => []RoundIsPlacement
<1>1. ASSUME IInv PROVE RoundIsPlacement
  <2> SUFFICES ASSUME queue = <<>>, \A j \in batch : ~NeedsGpu(j)
               PROVE  [j \in batch |-> placed[j]] \in
                        Placements(batch, Agents, NoAgent,
                                   [a \in Agents |-> nodesIn[a].running], limit, Capable)
    BY Zenon DEF RoundIsPlacement
  <2> DEFINE D == [j \in batch |-> placed[j]]
             load == [a \in Agents |-> nodesIn[a].running]
             planned(a) == load[a] + Cardinality({j \in batch : D[j] = a})
  <2>1. batch \subseteq Jobs /\ placed \in [Jobs -> Agents \cup {NoAgent}]
    BY <1>1 DEF IInv, TypeOK
  <2>2. D \in [batch -> Agents \cup {NoAgent}]
    BY <2>1
  <2>3. ASSUME NEW a \in Agents PROVE planned(a) = proxy[a].running
    <3>1. {j \in batch : D[j] = a} = Sent(a)
      BY DEF Sent
    <3> QED BY <1>1, <3>1 DEF IInv, PlanCounts
  <2>4. Queued = {}
    BY DEF Queued, Elements
  <2>5. ASSUME NEW j \in batch, D[j] = NoAgent, NEW a \in Agents, Capable(a, j)
        PROVE  planned(a) >= limit[a]
    <3>1. ~Excused(j, a)
      BY DEF Excused
    <3>2. ~(limit[a] > proxy[a].running)
      BY <1>1, <2>4, <2>5, <3>1 DEF IInv, LeftOut
    <3>3. limit[a] \in Nat /\ proxy[a].running \in Nat
      BY <1>1, DistributeAssumption DEF IInv, TypeOK
    <3>4. proxy[a].running >= limit[a]
      BY <3>2, <3>3
    <3> HIDE DEF planned
    <3> QED BY <2>3, <3>4
  <2>6. ASSUME NEW j \in batch, D[j] # NoAgent
        PROVE  Capable(D[j], j) /\ planned(D[j]) <= limit[D[j]]
    <3>1. PICK a \in Agents : a = D[j] /\ a = placed[j]
      BY <2>1, <2>6
    <3>2. Capable(a, j) /\ proxy[a].running <= limit[a]
      BY <1>1, <3>1 DEF IInv, PlacedFit
    <3>3. planned(a) <= limit[a]
      <4> HIDE DEF planned
      <4> QED BY <2>3, <3>2
    <3> HIDE DEF D, planned
    <3> QED BY <3>1, <3>2, <3>3
  <2>7. \A j \in batch : IF D[j] = NoAgent
                           THEN \A a \in Agents : Capable(a, j) => planned(a) >= limit[a]
                           ELSE Capable(D[j], j) /\ planned(D[j]) <= limit[D[j]]
    <3> HIDE DEF D, planned
    <3> QED BY <2>5, <2>6
  <2> QED BY <2>2, <2>7, Zenon DEF Placements
<1> QED BY <1>1, Inductive, PTL

\* A job that a round has left out is not overtaken by one of a lower priority on a node
\* that could run it, for any jobs, nodes and GPUs; one with GPUs only when another job
\* with GPUs was tried before it, or its requirements are not in order, or the node
\* lacks a GPU (server/scheduler.go:18-82).
THEOREM NobodyOvertaken == Spec => []NotOvertaken
<1>1. IInv => NotOvertaken
  BY Overtaken DEF IInv
<1> QED BY <1>1, Inductive, PTL

-----------------------------------------------------------------------------
(* Memory. *)

LEMMA MaxZero ==
  ASSUME NEW n \in Int
  PROVE  Max({0, n}) \in Nat /\ Max({0, n}) = IF n > 0 THEN n ELSE 0
<1>1. \E x \in {0, n} : \A y \in {0, n} : x >= y
  OBVIOUS
<1>2. Max({0, n}) \in {0, n} /\ \A y \in {0, n} : Max({0, n}) >= y
  BY <1>1 DEF Max
<1> QED BY <1>2

\* What a requirement takes from a GPU that matches it, and what it adds.
LEMMA SubtractMemory ==
  ASSUME NEW gpu \in GPU, NEW req \in Requirement, Matches(gpu, req)
  PROVE  Max({0, Subtract(gpu, req).free}) + Max({0, req.memory})
           <= Max({0, gpu.free}) + Max({0, -req.memory})
<1>1. gpu.free \in Int /\ req.memory \in Int /\ -req.memory \in Int
      /\ gpu.free - req.memory \in Int
  BY DEF GPU, Requirement
<1>2. Subtract(gpu, req).free = gpu.free - req.memory
  BY DEF Subtract, GPU
<1>3. req.memory > -1 => gpu.free >= req.memory
  BY DEF Matches
<1>4. \A f, r \in Int : (r > -1 => f >= r)
        => (IF f - r > 0 THEN f - r ELSE 0) + (IF r > 0 THEN r ELSE 0)
             <= (IF f > 0 THEN f ELSE 0) + (IF -r > 0 THEN -r ELSE 0)
  OBVIOUS
<1>5. /\ Max({0, gpu.free - req.memory}) =
           IF gpu.free - req.memory > 0 THEN gpu.free - req.memory ELSE 0
      /\ Max({0, req.memory}) = IF req.memory > 0 THEN req.memory ELSE 0
      /\ Max({0, gpu.free}) = IF gpu.free > 0 THEN gpu.free ELSE 0
      /\ Max({0, -req.memory}) = IF -req.memory > 0 THEN -req.memory ELSE 0
  BY <1>1, MaxZero, Zenon
<1> QED BY <1>1, <1>2, <1>3, <1>4, <1>5, Zenon

FreeOf(gpus) == [k \in DOMAIN gpus |-> Max({0, gpus[k].free})]

LEMMA FreeTyped ==
  ASSUME NEW gpus \in Seq(GPU)
  PROVE  /\ IsFiniteSet(DOMAIN gpus) /\ DOMAIN FreeOf(gpus) = DOMAIN gpus
         /\ \A k \in DOMAIN gpus : FreeOf(gpus)[k] \in Nat
         /\ FreeMemory(gpus) = SumFunctionOnSet(FreeOf(gpus), DOMAIN gpus)
         /\ FreeMemory(gpus) \in Nat
<1>1. DOMAIN gpus = 1 .. Len(gpus) /\ Len(gpus) \in Nat
  OBVIOUS
<1>2. IsFiniteSet(DOMAIN gpus) /\ DOMAIN FreeOf(gpus) = DOMAIN gpus
  BY <1>1, UpTo DEF FreeOf
<1>3. ASSUME NEW k \in DOMAIN gpus PROVE FreeOf(gpus)[k] \in Nat
  <2>1. gpus[k] \in GPU
    OBVIOUS
  <2>2. gpus[k].free \in Int
    BY <2>1 DEF GPU
  <2> QED BY <2>2, MaxZero DEF FreeOf
<1>4. FreeMemory(gpus) = SumFunctionOnSet(FreeOf(gpus), DOMAIN gpus)
  BY <1>2 DEF FreeMemory, SumFunction, FreeOf
<1>5. SumFunctionOnSet(FreeOf(gpus), DOMAIN gpus) \in Int
  BY <1>2, <1>3, SumTyped
<1>6. SumFunctionOnSet(FreeOf(gpus), {}) <= SumFunctionOnSet(FreeOf(gpus), DOMAIN gpus)
  BY <1>2, <1>3, SumOfPart
<1>7. SumFunctionOnSet(FreeOf(gpus), {}) = 0
  BY SumEmpty
<1> QED BY <1>2, <1>3, <1>4, <1>5, <1>6, <1>7

\* A requirement that finds a GPU takes its memory from the node.
LEMMA TakeMemory ==
  ASSUME NEW gpus \in Seq(GPU), NEW reqs, NEW k, NEW m, Good(m, k, gpus, reqs),
         NEW req \in Requirement, Open(m.gpus, m.used, req) # {}
  PROVE  FreeMemory(Take(m, req).gpus) + Max({0, req.memory})
           <= FreeMemory(m.gpus) + Max({0, -req.memory})
<1> DEFINE open == Open(m.gpus, m.used, req)
           x == Min(open)
           new == Take(m, req).gpus
           D == DOMAIN m.gpus
           f == FreeOf(m.gpus)
           h == FreeOf(new)
<1>1. m.gpus \in Seq(GPU) /\ open \subseteq D /\ D \subseteq Nat /\ open # {}
  BY DEF Open, Good
<1>2. x \in open
  <2> HIDE DEF open
  <2> QED BY <1>1, MinIsIn
<1>3. x \in D /\ Matches(m.gpus[x], req) /\ m.gpus[x] \in GPU
  <2>1. x \in D /\ Matches(m.gpus[x], req)
    <3> HIDE DEF x
    <3> QED BY <1>2 DEF Open
  <2> QED BY <1>1, <2>1
<1>4. new = [m.gpus EXCEPT ![x] = Subtract(m.gpus[x], req)]
  BY DEF Take
<1> HIDE DEF x, open, new
<1>5. Subtract(m.gpus[x], req) \in GPU
  BY <1>3, SubtractTyped
<1>6. new \in Seq(GPU) /\ DOMAIN new = D
      /\ new[x] = Subtract(m.gpus[x], req) /\ \A y \in D \ {x} : new[y] = m.gpus[y]
  BY <1>1, <1>3, <1>4, <1>5
<1>7. /\ IsFiniteSet(D) /\ \A y \in D : f[y] \in Nat /\ h[y] \in Nat
      /\ FreeMemory(m.gpus) = SumFunctionOnSet(f, D)
      /\ FreeMemory(new) = SumFunctionOnSet(h, D)
  BY <1>1, <1>6, FreeTyped
<1>8. /\ f[x] = Max({0, m.gpus[x].free}) /\ h[x] = Max({0, Subtract(m.gpus[x], req).free})
      /\ \A y \in D \ {x} : h[y] = f[y]
  BY <1>3, <1>6 DEF FreeOf
<1> DEFINE R == D \ {x}
<1>9. IsFiniteSet(R) /\ R \subseteq D
  BY <1>7, FS_Subset
<1> HIDE DEF f, h, D
<1>10. /\ SumFunctionOnSet(f, D) = f[x] + SumFunctionOnSet(f, R)
       /\ SumFunctionOnSet(h, D) = h[x] + SumFunctionOnSet(h, R)
  BY <1>3, <1>7, SumAdds, SMTT(30)
<1> HIDE DEF R
<1>11. SumFunctionOnSet(f, R) = SumFunctionOnSet(h, R) /\ SumFunctionOnSet(f, R) \in Int
  <2>1. \A y \in R : f[y] \in Int /\ h[y] = f[y]
    BY <1>7, <1>8, <1>9 DEF R
  <2> QED BY <1>9, <2>1, SumSame, SumTyped
<1>12. h[x] + Max({0, req.memory}) <= f[x] + Max({0, -req.memory})
  BY <1>3, <1>8, SubtractMemory
<1>13. /\ f[x] \in Nat /\ h[x] \in Nat
       /\ Max({0, req.memory}) \in Nat /\ Max({0, -req.memory}) \in Nat
  <2>1. req.memory \in Int /\ -req.memory \in Int
    BY DEF Requirement
  <2> QED BY <1>3, <1>7, <2>1, MaxZero
<1>14. \A a, b, c, d \in Nat, s \in Int : a + c <= b + d => (a + s) + c <= (b + s) + d
  OBVIOUS
<1> QED BY <1>7, <1>10, <1>11, <1>12, <1>13, <1>14, Zenon DEF new

AskedOf(reqs) == [k \in DOMAIN reqs |-> Max({0, reqs[k].memory})]

AddedOf(reqs) == [k \in DOMAIN reqs |-> Max({0, -reqs[k].memory})]

LEMMA RequirementsTyped ==
  ASSUME NEW reqs \in Seq(Requirement)
  PROVE  /\ \A k \in 1 .. Len(reqs) :
              /\ reqs[k] \in Requirement
              /\ AskedOf(reqs)[k] = Max({0, reqs[k].memory}) /\ AskedOf(reqs)[k] \in Nat
              /\ AddedOf(reqs)[k] = Max({0, -reqs[k].memory}) /\ AddedOf(reqs)[k] \in Nat
         /\ Asked(reqs) = SumFunctionOnSet(AskedOf(reqs), 1 .. Len(reqs))
         /\ Added(reqs) = SumFunctionOnSet(AddedOf(reqs), 1 .. Len(reqs))
<1>1. DOMAIN reqs = 1 .. Len(reqs)
  OBVIOUS
<1>2. ASSUME NEW k \in 1 .. Len(reqs)
      PROVE  /\ reqs[k] \in Requirement
             /\ AskedOf(reqs)[k] = Max({0, reqs[k].memory}) /\ AskedOf(reqs)[k] \in Nat
             /\ AddedOf(reqs)[k] = Max({0, -reqs[k].memory}) /\ AddedOf(reqs)[k] \in Nat
  <2>1. reqs[k] \in Requirement
    OBVIOUS
  <2>2. reqs[k].memory \in Int /\ -reqs[k].memory \in Int
    BY <2>1 DEF Requirement
  <2>3. Max({0, reqs[k].memory}) \in Nat /\ Max({0, -reqs[k].memory}) \in Nat
    BY <2>2, MaxZero
  <2> QED BY <1>1, <2>1, <2>3 DEF AskedOf, AddedOf
<1>3. /\ Asked(reqs) = SumFunctionOnSet(AskedOf(reqs), 1 .. Len(reqs))
      /\ Added(reqs) = SumFunctionOnSet(AddedOf(reqs), 1 .. Len(reqs))
  BY <1>1 DEF Asked, Added, SumFunction, AskedOf, AddedOf
<1> QED BY <1>2, <1>3, Zenon

\* One more of a sequence of integers.
LEMMA SumNext ==
  ASSUME NEW f, NEW k \in Nat, \A i \in 1 .. k + 1 : f[i] \in Int
  PROVE  /\ SumFunctionOnSet(f, 1 .. k + 1) = f[k + 1] + SumFunctionOnSet(f, 1 .. k)
         /\ SumFunctionOnSet(f, 1 .. k) \in Int
<1>1. IsFiniteSet(1 .. k + 1) /\ IsFiniteSet(1 .. k)
  BY UpTo
<1>2. k + 1 \in 1 .. k + 1 /\ (1 .. k + 1) \ {k + 1} = 1 .. k
  OBVIOUS
<1>3. \A i \in 1 .. k : f[i] \in Int
  OBVIOUS
<1>4. SumFunctionOnSet(f, 1 .. k) \in Int
  BY <1>1, <1>3, SumTyped
<1>5. SumFunctionOnSet(f, 1 .. k + 1) = f[k + 1] + SumFunctionOnSet(f, (1 .. k + 1) \ {k + 1})
  BY <1>1, <1>2, SumAdds
<1> QED BY <1>2, <1>4, <1>5

\* The memory of a node after the first k requirements.
Spent(m, k, gpus, reqs) ==
  LET added == SumFunctionOnSet(AddedOf(reqs), 1 .. k)
      asked == SumFunctionOnSet(AskedOf(reqs), 1 .. k)
  IN /\ FreeMemory(m.gpus) <= FreeMemory(gpus) + added
     /\ m.found = k => FreeMemory(m.gpus) + asked <= FreeMemory(gpus) + added

LEMMA TakeSpends ==
  ASSUME NEW gpus \in Seq(GPU), NEW reqs \in Seq(Requirement), NEW k \in Nat, k + 1 <= Len(reqs),
         NEW m, Good(m, k, gpus, reqs), Spent(m, k, gpus, reqs)
  PROVE  Spent(Take(m, reqs[k + 1]), k + 1, gpus, reqs)
<1> DEFINE req == reqs[k + 1]
           t == Take(m, req)
           add == AddedOf(reqs)
           ask == AskedOf(reqs)
           added == SumFunctionOnSet(add, 1 .. k)
           asked == SumFunctionOnSet(ask, 1 .. k)
           added1 == SumFunctionOnSet(add, 1 .. k + 1)
           asked1 == SumFunctionOnSet(ask, 1 .. k + 1)
           open == Open(m.gpus, m.used, req)
           F == FreeMemory(gpus)
           M == FreeMemory(m.gpus)
           T == FreeMemory(t.gpus)
<1>1. \A i \in 1 .. k + 1 : ask[i] \in Nat /\ add[i] \in Nat
  <2>1. \A i \in 1 .. Len(reqs) : ask[i] \in Nat /\ add[i] \in Nat
    BY RequirementsTyped, Zenon
  <2> HIDE DEF ask, add
  <2> QED BY <2>1
<1>2. /\ req \in Requirement
      /\ ask[k + 1] = Max({0, req.memory}) /\ add[k + 1] = Max({0, -req.memory})
      /\ ask[k + 1] \in Nat /\ add[k + 1] \in Nat
  <2>1. k + 1 \in 1 .. Len(reqs)
    OBVIOUS
  <2> QED BY <2>1, RequirementsTyped, Zenon
<1>3. Good(t, k + 1, gpus, reqs)
  BY TakeGood
<1>4. /\ m.gpus \in Seq(GPU) /\ t.gpus \in Seq(GPU)
      /\ m.found \in 0 .. k
  BY <1>3 DEF Good
<1>5. F \in Nat /\ M \in Nat /\ T \in Nat
  BY <1>4, FreeTyped
<1>6. M <= F + added /\ (m.found = k => M + asked <= F + added)
  BY DEF Spent
<1> HIDE DEF ask, add, F
<1>7. /\ added1 = add[k + 1] + added /\ asked1 = ask[k + 1] + asked
      /\ added \in Int /\ asked \in Int
  BY <1>1, SumNext
<1> HIDE DEF added, asked, added1, asked1
<1>8. CASE open = {}
  <2>1. t = m
    BY <1>8 DEF Take
  <2>2. t.found # k + 1
    BY <1>4, <2>1
  <2>3. T = M
    BY <2>1
  <2> HIDE DEF T, M, t
  <2>4. T <= F + added1
    BY <1>2, <1>5, <1>6, <1>7, <2>3, SMTT(30)
  <2> QED BY <2>2, <2>4 DEF Spent, T, F, t, added1, add
<1>9. CASE open # {}
  <2>1. T + ask[k + 1] <= M + add[k + 1]
    BY <1>2, <1>9, TakeMemory
  <2>2. t.found = m.found + 1
    BY <1>9 DEF Take
  <2> HIDE DEF T, M, t
  <2>3. T <= F + added1
    BY <1>2, <1>5, <1>6, <1>7, <2>1, SMTT(30)
  <2>4. t.found = k + 1 => T + asked1 <= F + added1
    <3> SUFFICES ASSUME t.found = k + 1 PROVE T + asked1 <= F + added1
      OBVIOUS
    <3>1. M + asked <= F + added
      BY <1>4, <1>6, <2>2
    <3>2. \A a, b, c, d, e, f, g \in Int :
            a + b <= c + d /\ c + e <= f + g => a + (b + e) <= f + (d + g)
      OBVIOUS
    <3>3. /\ T \in Int /\ ask[k + 1] \in Int /\ M \in Int /\ add[k + 1] \in Int
          /\ asked \in Int /\ F \in Int /\ added \in Int
      BY <1>2, <1>5, <1>7
    <3>4. T + (ask[k + 1] + asked) <= F + (add[k + 1] + added)
      BY <2>1, <3>1, <3>2, <3>3, Zenon
    <3> QED BY <1>7, <3>4
  <2> QED BY <2>3, <2>4 DEF Spent, T, F, t, added1, asked1, add, ask
<1> QED BY <1>8, <1>9

LEMMA MatchMemory ==
  ASSUME NEW gpus \in Seq(GPU), NEW reqs \in Seq(Requirement)
  PROVE  /\ FreeMemory(Match(gpus, reqs).gpus) <= FreeMemory(gpus) + Added(reqs)
         /\ HasGpus(gpus, reqs)
              => FreeMemory(Match(gpus, reqs).gpus) + Asked(reqs) <= FreeMemory(gpus) + Added(reqs)
<1>1. PICK m : Searches(m, Len(reqs), gpus, reqs) /\ Match(gpus, reqs) = m[Len(reqs)]
  BY MatchSearches
<1>2. \A k \in 0 .. Len(reqs) : m[k] = IF k = 0 THEN Begin(gpus) ELSE Take(m[k - 1], reqs[k])
  BY <1>1 DEF Searches
<1> DEFINE S == {i \in Nat : i <= Len(reqs) => Good(m[i], i, gpus, reqs) /\ Spent(m[i], i, gpus, reqs)}
<1>3. 0 \in S
  <2>1. m[0] = Begin(gpus) /\ Begin(gpus).gpus = gpus
    <3>1. 0 \in 0 .. Len(reqs)
      OBVIOUS
    <3>2. m[0] = Begin(gpus)
      BY <1>2, <3>1, Zenon
    <3> QED BY <3>2 DEF Begin
  <2>2. Good(m[0], 0, gpus, reqs)
    BY <2>1, BeginGood
  <2>3. 1 .. 0 = {} /\ FreeMemory(gpus) \in Nat
    BY FreeTyped
  <2>4. Spent(m[0], 0, gpus, reqs)
    BY <2>1, <2>3, SumEmpty DEF Spent
  <2> QED BY <2>2, <2>4
<1>4. ASSUME NEW i \in Nat, i \in S
      PROVE  i + 1 \in S
  <2> SUFFICES ASSUME i + 1 <= Len(reqs)
               PROVE  Good(m[i + 1], i + 1, gpus, reqs) /\ Spent(m[i + 1], i + 1, gpus, reqs)
    OBVIOUS
  <2>1. Good(m[i], i, gpus, reqs) /\ Spent(m[i], i, gpus, reqs)
    BY <1>4
  <2>2. m[i + 1] = Take(m[i], reqs[i + 1])
    BY <1>2
  <2>3. Good(Take(m[i], reqs[i + 1]), i + 1, gpus, reqs)
    BY <2>1, TakeGood
  <2>4. Spent(Take(m[i], reqs[i + 1]), i + 1, gpus, reqs)
    BY <2>1, TakeSpends
  <2> QED BY <2>2, <2>3, <2>4
<1>5. Nat \subseteq S
  <2> HIDE DEF S
  <2> QED BY <1>3, <1>4, SetInduction
<1>6. Spent(Match(gpus, reqs), Len(reqs), gpus, reqs)
  BY <1>1, <1>5
<1> QED BY <1>6, RequirementsTyped DEF Spent, HasGpus

LEMMA AskedTyped ==
  ASSUME NEW reqs \in Seq(Requirement)
  PROVE  /\ Asked(reqs) \in Nat /\ Added(reqs) \in Nat
         /\ reqs = <<>> => Asked(reqs) = 0
<1> DEFINE D == 1 .. Len(reqs)
<1>1. IsFiniteSet(D) /\ {} \in SUBSET D
  BY UpTo
<1>2. /\ \A k \in D : AskedOf(reqs)[k] \in Nat /\ AddedOf(reqs)[k] \in Nat
      /\ Asked(reqs) = SumFunctionOnSet(AskedOf(reqs), D)
      /\ Added(reqs) = SumFunctionOnSet(AddedOf(reqs), D)
  BY RequirementsTyped, Zenon
<1>3. reqs = <<>> => D = {}
  OBVIOUS
<1> HIDE DEF D
<1>4. /\ SumFunctionOnSet(AskedOf(reqs), D) \in Int
      /\ SumFunctionOnSet(AddedOf(reqs), D) \in Int
  BY <1>1, <1>2, SumTyped
<1>5. /\ SumFunctionOnSet(AskedOf(reqs), {}) <= SumFunctionOnSet(AskedOf(reqs), D)
      /\ SumFunctionOnSet(AddedOf(reqs), {}) <= SumFunctionOnSet(AddedOf(reqs), D)
  BY <1>1, <1>2, SumOfPart
<1>6. /\ SumFunctionOnSet(AskedOf(reqs), {}) = 0
      /\ SumFunctionOnSet(AddedOf(reqs), {}) = 0
  BY SumEmpty
<1>7. Asked(reqs) \in Nat /\ Added(reqs) \in Nat
  BY <1>2, <1>4, <1>5, <1>6
<1>8. reqs = <<>> => Asked(reqs) = 0
  BY <1>2, <1>3, <1>6, Zenon
<1> QED BY <1>7, <1>8

\* What the search for job j leaves of the memory of a node, and of that of its node.
LEMMA SearchMemory ==
  ASSUME TypeOK, NEW j \in Jobs, NEW b \in Agents
  PROVE  LET left == FreeMemory(AfterSearch(j)[b].gpus)
             before == FreeMemory(proxy[b].gpus)
             added == Added(job[j].gpus)
         IN /\ left <= before + added
            /\ b \in Firsts(j) => left + Asked(job[j].gpus) <= before + added
<1>1. proxy[b] \in NodeType /\ proxy[b].gpus \in Seq(GPU) /\ job[j].gpus \in Seq(Requirement)
  BY DEF TypeOK, NodeType
<1>2. /\ FreeMemory(proxy[b].gpus) \in Nat
      /\ Added(job[j].gpus) \in Nat /\ Asked(job[j].gpus) \in Nat
  BY <1>1, FreeTyped, AskedTyped
<1>3. CASE NeedsGpu(j) /\ b \in Tried(CapableNodes(j), job[j].gpus)
  <2>1. AfterSearch(j)[b].gpus = Match(proxy[b].gpus, job[j].gpus).gpus
    BY <1>1, <1>3 DEF AfterSearch, NodeType
  <2>2. b \in Firsts(j) => HasGpus(proxy[b].gpus, job[j].gpus)
    BY <1>3 DEF Firsts, Candidates
  <2> QED BY <1>1, <2>1, <2>2, MatchMemory, Zenon
<1>4. CASE ~(NeedsGpu(j) /\ b \in Tried(CapableNodes(j), job[j].gpus))
  <2>1. AfterSearch(j)[b] = proxy[b]
    BY <1>4 DEF AfterSearch
  <2>2. b \in Firsts(j) => job[j].gpus = <<>>
    BY <1>4 DEF Firsts, Candidates, NeedsGpu
  <2>3. b \in Firsts(j) => Asked(job[j].gpus) = 0
    BY <1>1, <2>2, AskedTyped
  <2> QED BY <1>2, <2>1, <2>3
<1> QED BY <1>3, <1>4

AskMap == [j \in Jobs |-> Asked(job[j].gpus)]

AddMap == [j \in Jobs |-> Added(job[j].gpus)]

\* What the jobs sent to a node ask for, and what its copy has left, are no more than the
\* node had, and what the searches of the round so far have added.
MemoryPlanned ==
  \A a \in Agents :
    SumFunctionOnSet(AskMap, Sent(a)) + FreeMemory(proxy[a].gpus)
      <= FreeMemory(nodesIn[a].gpus) + SumFunctionOnSet(AddMap, batch \ Queued)

LEMMA MapsTyped ==
  ASSUME TypeOK, NEW P, P \subseteq Jobs
  PROVE  /\ IsFiniteSet(P)
         /\ \A j \in P : /\ AskMap[j] = Asked(job[j].gpus) /\ AskMap[j] \in Nat
                         /\ AddMap[j] = Added(job[j].gpus) /\ AddMap[j] \in Nat
         /\ SumFunctionOnSet(AskMap, P) \in Int
         /\ SumFunctionOnSet(AddMap, P) \in Int
<1>1. IsFiniteSet(P)
  BY DistributeAssumption, FS_Subset
<1>2. ASSUME NEW j \in P
      PROVE  /\ AskMap[j] = Asked(job[j].gpus) /\ AskMap[j] \in Nat
             /\ AddMap[j] = Added(job[j].gpus) /\ AddMap[j] \in Nat
  <2>1. j \in Jobs /\ job[j].gpus \in Seq(Requirement)
    BY DEF TypeOK
  <2> QED BY <2>1, AskedTyped DEF AskMap, AddMap
<1>3. SumFunctionOnSet(AskMap, P) \in Int /\ SumFunctionOnSet(AddMap, P) \in Int
  BY <1>1, <1>2, SumTyped
<1> QED BY <1>1, <1>2, <1>3

\* The sums when a job more has been tried, or sent.
LEMMA SumsGrow ==
  ASSUME TypeOK, NEW P, P \subseteq Jobs, NEW j \in Jobs, j \notin P
  PROVE  /\ SumFunctionOnSet(AskMap, P \cup {j}) = AskMap[j] + SumFunctionOnSet(AskMap, P)
         /\ SumFunctionOnSet(AddMap, P \cup {j}) = AddMap[j] + SumFunctionOnSet(AddMap, P)
<1> DEFINE R == P \cup {j}
<1>1. R \subseteq Jobs /\ j \in R /\ R \ {j} = P
  OBVIOUS
<1> HIDE DEF R
<1>2. IsFiniteSet(R) /\ \A i \in R : AskMap[i] \in Int /\ AddMap[i] \in Int
  BY <1>1, MapsTyped
<1>3. /\ SumFunctionOnSet(AskMap, R) = AskMap[j] + SumFunctionOnSet(AskMap, R \ {j})
      /\ SumFunctionOnSet(AddMap, R) = AddMap[j] + SumFunctionOnSet(AddMap, R \ {j})
  BY <1>1, <1>2, SumAdds
<1> QED BY <1>1, <1>3 DEF R

LEMMA NodesTyped ==
  ASSUME TypeOK, NEW a \in Agents
  PROVE  FreeMemory(proxy[a].gpus) \in Nat /\ FreeMemory(nodesIn[a].gpus) \in Nat
<1>1. proxy[a].gpus \in Seq(GPU) /\ nodesIn[a].gpus \in Seq(GPU)
  BY DEF TypeOK
<1> QED BY <1>1, FreeTyped

LEMMA AssignPromises == IInv /\ MemoryPlanned /\ Assign => MemoryPlanned'
<1> SUFFICES ASSUME IInv, MemoryPlanned, Assign PROVE MemoryPlanned'
  OBVIOUS
<1> DEFINE j == Head(queue)
           tried == batch \ Queued
<1>1. PICK a \in Firsts(j) :
        /\ placed' = [placed EXCEPT ![j] = a]
        /\ proxy' = [AfterSearch(j) EXCEPT ![a].running = @ + 1]
  BY DEF Assign
<1>2. /\ queue # <<>> /\ queue' = Tail(queue)
      /\ job' = job /\ batch' = batch /\ nodesIn' = nodesIn
  BY DEF Assign
<1>3. /\ j \in Jobs /\ j \in batch /\ placed[j] = NoAgent /\ j \in Queued
      /\ Queued' = Queued \ {j}
  BY <1>2, HeadLeaves DEF Queued, Elements
<1>4. TypeOK /\ a \in Agents /\ NoAgent \notin Agents
  BY <1>1, FirstFits, DistributeAssumption DEF IInv
<1>5. AfterSearch(j) \in [Agents -> NodeType]
  BY <1>3, <1>4, SearchTyped
<1>6. /\ placed \in [Jobs -> Agents \cup {NoAgent}] /\ batch \subseteq Jobs
  BY <1>4 DEF TypeOK
<1> HIDE DEF j
<1>7. \A b \in Agents : proxy'[b].gpus = AfterSearch(j)[b].gpus
  BY <1>1, <1>4, <1>5 DEF NodeType
<1>8. (batch \ Queued)' = tried \cup {j} /\ j \notin tried /\ tried \subseteq Jobs
  BY <1>2, <1>3, <1>6
<1>9. AskMap' = AskMap /\ AddMap' = AddMap
  BY <1>2 DEF AskMap, AddMap
<1> HIDE DEF tried
<1>10. SumFunctionOnSet(AddMap, tried \cup {j}) = AddMap[j] + SumFunctionOnSet(AddMap, tried)
  BY <1>3, <1>4, <1>8, SumsGrow
<1>11. /\ AskMap[j] = Asked(job[j].gpus) /\ AskMap[j] \in Nat
       /\ AddMap[j] = Added(job[j].gpus) /\ AddMap[j] \in Nat
       /\ SumFunctionOnSet(AddMap, tried) \in Int
  <2>1. {j} \subseteq Jobs /\ j \in {j}
    BY <1>3
  <2> QED BY <1>4, <1>8, <2>1, MapsTyped
<1> SUFFICES ASSUME NEW b \in Agents
             PROVE  SumFunctionOnSet(AskMap, Sent(b)') + FreeMemory(AfterSearch(j)[b].gpus)
                      <= FreeMemory(nodesIn[b].gpus)
                           + (AddMap[j] + SumFunctionOnSet(AddMap, tried))
  BY <1>2, <1>7, <1>8, <1>9, <1>10 DEF MemoryPlanned
<1> DEFINE sent == SumFunctionOnSet(AskMap, Sent(b))
           left == FreeMemory(AfterSearch(j)[b].gpus)
           before == FreeMemory(proxy[b].gpus)
           had == FreeMemory(nodesIn[b].gpus)
           added == SumFunctionOnSet(AddMap, tried)
<1>12. sent + before <= had + added
  BY DEF MemoryPlanned, tried
<1>13. Sent(b) \subseteq Jobs /\ j \notin Sent(b)
  BY <1>3, <1>4, <1>6 DEF Sent
<1>14. sent \in Int /\ before \in Nat /\ had \in Nat /\ left \in Nat
  <2>1. AfterSearch(j)[b].gpus \in Seq(GPU)
    BY <1>5 DEF NodeType
  <2>2. left \in Nat
    BY <2>1, FreeTyped
  <2> QED BY <1>4, <1>13, <2>2, MapsTyped, NodesTyped
<1>15. left <= before + AddMap[j] /\ (b = a => left + AskMap[j] <= before + AddMap[j])
  BY <1>1, <1>3, <1>4, <1>11, SearchMemory
<1>16. SumFunctionOnSet(AskMap, Sent(b)') = IF b = a THEN AskMap[j] + sent ELSE sent
  <2>1. CASE b = a
    <3>1. Sent(b)' = Sent(b) \cup {j}
      BY <1>1, <1>2, <1>3, <1>6, <2>1 DEF Sent
    <3> HIDE DEF sent
    <3>2. SumFunctionOnSet(AskMap, Sent(b) \cup {j}) = AskMap[j] + sent
      BY <1>3, <1>4, <1>13, SumsGrow DEF sent
    <3> QED BY <2>1, <3>1, <3>2
  <2>2. CASE b # a
    <3>1. Sent(b)' = Sent(b)
      BY <1>1, <1>2, <1>3, <1>4, <1>6, <2>2 DEF Sent
    <3> QED BY <2>2, <3>1
  <2> QED BY <2>1, <2>2
<1> HIDE DEF sent, left, before, had, added
<1>17. SumFunctionOnSet(AskMap, Sent(b)') + left <= had + (AddMap[j] + added)
  <2>1. added \in Int
    BY <1>11 DEF added
  <2>2. CASE b = a
    BY <1>11, <1>12, <1>14, <1>15, <1>16, <2>1, <2>2
  <2>3. CASE b # a
    BY <1>11, <1>12, <1>14, <1>15, <1>16, <2>1, <2>3
  <2> QED BY <2>2, <2>3
<1> QED BY <1>17 DEF left, had, added

LEMMA SkipPromises == IInv /\ MemoryPlanned /\ Skip => MemoryPlanned'
<1> SUFFICES ASSUME IInv, MemoryPlanned, Skip PROVE MemoryPlanned'
  OBVIOUS
<1> DEFINE j == Head(queue)
           tried == batch \ Queued
<1>1. /\ queue # <<>> /\ queue' = Tail(queue) /\ proxy' = AfterSearch(j)
      /\ job' = job /\ batch' = batch /\ nodesIn' = nodesIn /\ placed' = placed
  BY DEF Skip
<1>2. j \in Jobs /\ j \in batch /\ j \in Queued /\ Queued' = Queued \ {j}
  BY <1>1, HeadLeaves DEF Queued, Elements
<1>3. TypeOK /\ batch \subseteq Jobs
  BY DEF IInv, TypeOK
<1> HIDE DEF j
<1>4. (batch \ Queued)' = tried \cup {j} /\ j \notin tried /\ tried \subseteq Jobs
  BY <1>1, <1>2, <1>3
<1>5. AskMap' = AskMap /\ AddMap' = AddMap /\ \A b : Sent(b)' = Sent(b)
  BY <1>1 DEF AskMap, AddMap, Sent
<1> HIDE DEF tried
<1>6. SumFunctionOnSet(AddMap, tried \cup {j}) = AddMap[j] + SumFunctionOnSet(AddMap, tried)
  BY <1>2, <1>3, <1>4, SumsGrow
<1>7. /\ AddMap[j] = Added(job[j].gpus) /\ AddMap[j] \in Nat
      /\ SumFunctionOnSet(AddMap, tried) \in Int
  <2>1. {j} \subseteq Jobs /\ j \in {j}
    BY <1>2
  <2> QED BY <1>3, <1>4, <2>1, MapsTyped
<1> SUFFICES ASSUME NEW b \in Agents
             PROVE  SumFunctionOnSet(AskMap, Sent(b)) + FreeMemory(AfterSearch(j)[b].gpus)
                      <= FreeMemory(nodesIn[b].gpus)
                           + (AddMap[j] + SumFunctionOnSet(AddMap, tried))
  BY <1>1, <1>4, <1>5, <1>6 DEF MemoryPlanned
<1> DEFINE sent == SumFunctionOnSet(AskMap, Sent(b))
           left == FreeMemory(AfterSearch(j)[b].gpus)
           before == FreeMemory(proxy[b].gpus)
           had == FreeMemory(nodesIn[b].gpus)
           added == SumFunctionOnSet(AddMap, tried)
<1>8. sent + before <= had + added
  BY DEF MemoryPlanned, tried
<1>9. left <= before + AddMap[j]
  BY <1>2, <1>3, <1>7, SearchMemory
<1>10. sent \in Int /\ before \in Nat /\ had \in Nat /\ left \in Nat
  <2>1. Sent(b) \subseteq Jobs
    BY <1>3 DEF Sent
  <2>2. AfterSearch(j)[b].gpus \in Seq(GPU)
    BY <1>2, <1>3, SearchTyped DEF NodeType
  <2>3. left \in Nat
    BY <2>2, FreeTyped
  <2> QED BY <1>3, <2>1, <2>3, MapsTyped, NodesTyped
<1> HIDE DEF sent, left, before, had, added
<1>11. sent + left <= had + (AddMap[j] + added)
  <2>1. added \in Int
    BY <1>7 DEF added
  <2> QED BY <1>7, <1>8, <1>9, <1>10, <2>1
<1> QED BY <1>11 DEF sent, left, had, added

LEMMA BreakPromises == IInv /\ MemoryPlanned /\ Break => MemoryPlanned'
<1> SUFFICES ASSUME IInv, MemoryPlanned, Break PROVE MemoryPlanned'
  OBVIOUS
<1> DEFINE tried == batch \ Queued
<1>1. /\ job' = job /\ batch' = batch /\ nodesIn' = nodesIn /\ placed' = placed /\ proxy' = proxy
      /\ Queued' = {}
  BY DEF Break, Queued, Elements
<1>2. TypeOK /\ batch \subseteq Jobs
  BY DEF IInv, TypeOK
<1>3. AskMap' = AskMap /\ AddMap' = AddMap /\ \A b : Sent(b)' = Sent(b)
  BY <1>1 DEF AskMap, AddMap, Sent
<1>4. (batch \ Queued)' = batch
  BY <1>1
<1>5. SumFunctionOnSet(AddMap, tried) <= SumFunctionOnSet(AddMap, batch)
  BY <1>2, MapsTyped, SumOfPart
<1>6. /\ SumFunctionOnSet(AddMap, tried) \in Int
      /\ SumFunctionOnSet(AddMap, batch) \in Int
  BY <1>2, MapsTyped
<1> SUFFICES ASSUME NEW b \in Agents
             PROVE  SumFunctionOnSet(AskMap, Sent(b)) + FreeMemory(proxy[b].gpus)
                      <= FreeMemory(nodesIn[b].gpus) + SumFunctionOnSet(AddMap, batch)
  BY <1>1, <1>3, <1>4 DEF MemoryPlanned
<1>7. SumFunctionOnSet(AskMap, Sent(b)) + FreeMemory(proxy[b].gpus)
        <= FreeMemory(nodesIn[b].gpus) + SumFunctionOnSet(AddMap, tried)
  BY DEF MemoryPlanned
<1>8. /\ SumFunctionOnSet(AskMap, Sent(b)) \in Int
      /\ FreeMemory(proxy[b].gpus) \in Nat /\ FreeMemory(nodesIn[b].gpus) \in Nat
  <2>1. Sent(b) \subseteq Jobs
    BY <1>2 DEF Sent
  <2> QED BY <1>2, <2>1, MapsTyped, NodesTyped
<1> QED BY <1>5, <1>6, <1>7, <1>8

LEMMA SchedulePromises == schedule /\ TypeOK' => MemoryPlanned'
<1> SUFFICES ASSUME schedule, TypeOK' PROVE MemoryPlanned'
  OBVIOUS
<1>1. /\ batch' = Waiting /\ queue' \in SetToSeqs(Waiting)
      /\ proxy' = nodesIn' /\ placed' = placed
  BY DEF schedule
<1>2. Waiting \subseteq Jobs /\ \A i \in batch' : placed'[i] = NoAgent
  BY <1>1 DEF Waiting
<1>3. Queued' = batch'
  BY <1>1, <1>2, QueueCovers DEF Queued, Elements
<1> SUFFICES ASSUME NEW b \in Agents
             PROVE  SumFunctionOnSet(AskMap', Sent(b)') + FreeMemory(nodesIn'[b].gpus)
                      <= FreeMemory(nodesIn'[b].gpus)
                           + SumFunctionOnSet(AddMap', (batch \ Queued)')
  BY <1>1 DEF MemoryPlanned
<1>4. Sent(b)' = {} /\ (batch \ Queued)' = {}
  BY <1>2, <1>3, DistributeAssumption DEF Sent
<1>5. /\ SumFunctionOnSet(AskMap', Sent(b)') = 0
      /\ SumFunctionOnSet(AddMap', (batch \ Queued)') = 0
  BY <1>4, SumEmpty
<1>6. FreeMemory(nodesIn'[b].gpus) \in Nat
  <2>1. nodesIn'[b].gpus \in Seq(GPU)
    BY DEF TypeOK
  <2> QED BY <2>1, FreeTyped
<1> QED BY <1>5, <1>6

LEMMA OthersPromise ==
  MemoryPlanned /\ UNCHANGED <<job, placed, batch, queue, nodesIn, proxy>> => MemoryPlanned'
<1> SUFFICES ASSUME MemoryPlanned, UNCHANGED <<job, placed, batch, queue, nodesIn, proxy>>
             PROVE  MemoryPlanned'
  OBVIOUS
<1>1. /\ AskMap' = AskMap /\ AddMap' = AddMap /\ \A b : Sent(b)' = Sent(b)
      /\ (batch \ Queued)' = batch \ Queued
  BY DEF AskMap, AddMap, Sent, Queued, Elements
<1> QED BY <1>1 DEF MemoryPlanned

LEMMA InitPromises == Init => MemoryPlanned
<1> SUFFICES ASSUME Init, NEW b \in Agents
             PROVE  SumFunctionOnSet(AskMap, Sent(b)) + FreeMemory(proxy[b].gpus)
                      <= FreeMemory(nodesIn[b].gpus) + SumFunctionOnSet(AddMap, batch \ Queued)
  BY DEF MemoryPlanned
<1>1. Sent(b) = {} /\ batch \ Queued = {} /\ proxy = nodesIn
  BY DEF Init, Sent
<1>2. /\ SumFunctionOnSet(AskMap, Sent(b)) = 0
      /\ SumFunctionOnSet(AddMap, batch \ Queued) = 0
  BY <1>1, SumEmpty
<1>3. FreeMemory(nodesIn[b].gpus) \in Nat
  BY InitTyped, NodesTyped
<1> QED BY <1>1, <1>2, <1>3

LEMMA NextPromises == IInv /\ MemoryPlanned /\ [Next]_vars => MemoryPlanned'
<1> SUFFICES ASSUME IInv, MemoryPlanned, [Next]_vars PROVE MemoryPlanned'
  OBVIOUS
<1>1. CASE schedule
  <2>1. TypeOK'
    BY NextTyped DEF IInv
  <2> QED BY <1>1, <2>1, SchedulePromises
<1>2. CASE Assign
  BY <1>2, AssignPromises
<1>3. CASE Skip
  BY <1>3, SkipPromises
<1>4. CASE Break
  BY <1>4, BreakPromises
<1>5. ASSUME NEW a \in Agents, pollGpuData(a) PROVE MemoryPlanned'
  BY <1>5, OthersPromise DEF pollGpuData
<1>6. ASSUME NEW j \in Jobs, JobDone(j) PROVE MemoryPlanned'
  BY <1>6, OthersPromise DEF JobDone
<1>7. CASE UNCHANGED vars
  BY <1>7, OthersPromise DEF vars
<1> QED BY <1>1, <1>2, <1>3, <1>4, <1>5, <1>6, <1>7 DEF Next, distribute

\* The jobs that a round sends to a node ask for no more memory than the GPUs of the node
\* have free and the negative memories of the round add, for any jobs, nodes and GPUs
\* (server/scheduler.go:86-107).
THEOREM MemoryKept == Spec => []MemoryPromised
<1>1. ASSUME IInv, MemoryPlanned PROVE MemoryPromised
  <2> SUFFICES ASSUME NEW a \in Agents
               PROVE  SumFunctionOnSet(AskMap, Sent(a))
                        <= FreeMemory(nodesIn[a].gpus) + SumFunctionOnSet(AddMap, batch)
    BY DEF MemoryPromised, Sent, AskMap, AddMap
  <2>1. TypeOK /\ batch \subseteq Jobs /\ Sent(a) \subseteq Jobs /\ batch \ Queued \subseteq Jobs
    BY <1>1 DEF IInv, TypeOK, Sent
  <2>2. SumFunctionOnSet(AskMap, Sent(a)) + FreeMemory(proxy[a].gpus)
          <= FreeMemory(nodesIn[a].gpus) + SumFunctionOnSet(AddMap, batch \ Queued)
    BY <1>1 DEF MemoryPlanned
  <2>3. SumFunctionOnSet(AddMap, batch \ Queued) <= SumFunctionOnSet(AddMap, batch)
    BY <2>1, MapsTyped, SumOfPart
  <2>4. /\ SumFunctionOnSet(AskMap, Sent(a)) \in Int
        /\ SumFunctionOnSet(AddMap, batch \ Queued) \in Int
        /\ SumFunctionOnSet(AddMap, batch) \in Int
        /\ FreeMemory(proxy[a].gpus) \in Nat /\ FreeMemory(nodesIn[a].gpus) \in Nat
    BY <2>1, MapsTyped, NodesTyped
  <2> QED BY <2>2, <2>3, <2>4
<1>2. Init => IInv /\ MemoryPlanned
  BY InitIInv, InitPromises
<1>3. IInv /\ MemoryPlanned /\ [Next]_vars => (IInv /\ MemoryPlanned)'
  BY NextIInv, NextPromises
<1> QED BY <1>1, <1>2, <1>3, PTL DEF Spec

=============================================================================
