----------------------------- MODULE SumTheorems -----------------------------
(***************************************************************************)
(* Facts about SumFunction and SumFunctionOnSet, by which the models count *)
(* channels and calls: that the recursion behind them is well defined on   *)
(* finite sets, and how a sum changes when one summand does.  Induction    *)
(* over finite sets is done by a smallest counterexample, which the        *)
(* well-foundedness of strict inclusion provides.                          *)
(***************************************************************************)
EXTENDS Functions, FiniteSetTheorems, TLAPS

(* A set of subsets of a finite set has a smallest one.                    *)
LEMMA SmallestSet ==
    ASSUME NEW S, IsFiniteSet(S), NEW T, T \subseteq SUBSET S, T # {}
    PROVE  \E A \in T : \A B \in T : B \subseteq A => B = A
<1>1. T \subseteq FiniteSubsetsOf(S)
  BY FS_FiniteSubsetsOfFinite
<1>2. PICK A \in T : \A B \in T : <<B, A>> \notin StrictSubsetOrdering(S)
  BY <1>1, FS_StrictSubsetOrderingWellFounded, WFMin
<1> QED
  BY <1>2 DEF StrictSubsetOrdering

-----------------------------------------------------------------------------
(* The recursion of the fold: any first element, then the others.          *)
First(s) == CHOOSE x \in s : TRUE

Others(s) == s \ {First(s)}

AddsUp(g, f, S) ==
    g = [s \in SUBSET S |-> IF s = {} THEN 0 ELSE f[First(s)] + g[Others(s)]]

LEMMA OthersAreFewer ==
    ASSUME NEW s, s # {}
    PROVE  First(s) \in s /\ Others(s) \subseteq s /\ Others(s) # s
BY DEF First, Others

LEMMA AddsUpOnce ==
    ASSUME NEW S, IsFiniteSet(S), NEW A \in SUBSET S, NEW f, NEW g, NEW h,
           AddsUp(g, f, A), AddsUp(h, f, S)
    PROVE  \A s \in SUBSET A : g[s] = h[s]
<1> DEFINE T == {s \in SUBSET A : g[s] # h[s]}
<1> SUFFICES ASSUME T # {}
             PROVE  FALSE
  OBVIOUS
<1>1. PICK s \in T : \A t \in T : t \subseteq s => t = s
  <2>1. IsFiniteSet(A)
    BY FS_Subset
  <2>2. T \subseteq SUBSET A
    OBVIOUS
  <2> HIDE DEF T
  <2> QED
    BY <2>1, <2>2, SmallestSet
<1>2. s \in SUBSET A /\ s \in SUBSET S
  OBVIOUS
<1>3. CASE s = {}
  BY <1>2, <1>3 DEF AddsUp
<1>4. CASE s # {}
  <2>1. Others(s) \in SUBSET A /\ Others(s) \notin T
    BY <1>1, <1>2, <1>4, OthersAreFewer
  <2>2. g[Others(s)] = h[Others(s)]
    BY <2>1
  <2>3. g[s] = f[First(s)] + g[Others(s)]
    BY <1>2, <1>4 DEF AddsUp
  <2>4. h[s] = f[First(s)] + h[Others(s)]
    BY <1>2, <1>4 DEF AddsUp
  <2> QED
    BY <2>2, <2>3, <2>4
<1> QED
  BY <1>3, <1>4

LEMMA AddsUpExists ==
    ASSUME NEW S, IsFiniteSet(S), NEW f
    PROVE  \A A \in SUBSET S : \E g : AddsUp(g, f, A)
<1> DEFINE T == {A \in SUBSET S : ~ \E g : AddsUp(g, f, A)}
<1> SUFFICES ASSUME T # {}
             PROVE  FALSE
  OBVIOUS
<1>1. PICK A \in T : \A B \in T : B \subseteq A => B = A
  <2>1. T \subseteq SUBSET S
    OBVIOUS
  <2> HIDE DEF T
  <2> QED
    BY <2>1, SmallestSet
<1>2. A \in SUBSET S /\ ~ \E g : AddsUp(g, f, A)
  OBVIOUS
<1> DEFINE G(B) == CHOOSE g : AddsUp(g, f, B)
           sum == [s \in SUBSET A |->
                     IF s = {} THEN 0 ELSE f[First(s)] + G(Others(s))[Others(s)]]
<1>3. ASSUME NEW B \in SUBSET A, B # A
      PROVE  AddsUp(G(B), f, B)
  <2>1. B \in SUBSET S /\ B \notin T
    BY <1>1, <1>2, <1>3
  <2>2. \E g : AddsUp(g, f, B)
    BY <2>1
  <2> QED
    BY <2>2
<1>4. ASSUME NEW r \in SUBSET A, r # A
      PROVE  sum[r] = G(r)[r]
  <2>1. AddsUp(G(r), f, r)
    BY <1>3, <1>4
  <2> HIDE DEF G
  <2>2. CASE r = {}
    BY <2>1, <2>2 DEF AddsUp
  <2>3. CASE r # {}
    <3> DEFINE q == Others(r)
    <3>1. q \in SUBSET r /\ q \in SUBSET A /\ q # A
      BY <1>4, <2>3, OthersAreFewer
    <3>2. AddsUp(G(q), f, q)
      BY <1>3, <3>1
    <3>3. IsFiniteSet(r)
      BY <1>2, <1>4, FS_Subset
    <3>4. G(q)[q] = G(r)[q]
      BY <2>1, <3>1, <3>2, <3>3, AddsUpOnce
    <3>5. G(r)[r] = f[First(r)] + G(r)[q]
      BY <2>1, <2>3 DEF AddsUp
    <3>6. sum[r] = f[First(r)] + G(q)[q]
      BY <1>4, <2>3
    <3> QED
      BY <3>4, <3>5, <3>6
  <2> QED
    BY <2>2, <2>3
<1>5. AddsUp(sum, f, A)
  <2>1. ASSUME NEW s \in SUBSET A, s # {}
        PROVE  sum[s] = f[First(s)] + sum[Others(s)]
    <3>1. Others(s) \in SUBSET A /\ Others(s) # A
      BY <2>1, OthersAreFewer
    <3>2. sum[Others(s)] = G(Others(s))[Others(s)]
      BY <1>4, <3>1
    <3> QED
      BY <2>1, <3>2
  <2>2. sum = [s \in SUBSET A |-> sum[s]]
    OBVIOUS
  <2>3. {} \in SUBSET A /\ sum[{}] = 0
    OBVIOUS
  <2> HIDE DEF sum
  <2>4. \A s \in SUBSET A : sum[s] = IF s = {} THEN 0 ELSE f[First(s)] + sum[Others(s)]
    BY <2>1, <2>3
  <2> QED
    BY <2>2, <2>4 DEF AddsUp
<1> QED
  BY <1>2, <1>5
-----------------------------------------------------------------------------
(* The sum of nothing, and of one element and the others.                  *)
LEMMA SumIsAddedUp ==
    ASSUME NEW S, IsFiniteSet(S), NEW f
    PROVE  \E g : AddsUp(g, f, S) /\ SumFunctionOnSet(f, S) = g[S]
<1>1. \E g : AddsUp(g, f, S)
  BY AddsUpExists
<1>2. SumFunctionOnSet(f, S) = (CHOOSE g : AddsUp(g, f, S))[S]
  BY DEF SumFunctionOnSet, FoldFunctionOnSet, MapThenFoldSet, AddsUp, First, Others
<1> QED
  BY <1>1, <1>2

LEMMA SumEmpty == \A f : SumFunctionOnSet(f, {}) = 0
<1> TAKE f
<1>1. PICK g : AddsUp(g, f, {}) /\ SumFunctionOnSet(f, {}) = g[{}]
  BY SumIsAddedUp, FS_EmptySet
<1> QED
  BY <1>1 DEF AddsUp

LEMMA SumFirst ==
    ASSUME NEW S, IsFiniteSet(S), S # {}, NEW f
    PROVE  SumFunctionOnSet(f, S) = f[First(S)] + SumFunctionOnSet(f, Others(S))
<1>1. PICK g : AddsUp(g, f, S) /\ SumFunctionOnSet(f, S) = g[S]
  BY SumIsAddedUp
<1>2. Others(S) \in SUBSET S /\ IsFiniteSet(Others(S))
  BY OthersAreFewer, FS_Subset
<1>3. PICK h : AddsUp(h, f, Others(S)) /\ SumFunctionOnSet(f, Others(S)) = h[Others(S)]
  BY <1>2, SumIsAddedUp
<1>4. h[Others(S)] = g[Others(S)]
  BY <1>1, <1>2, <1>3, AddsUpOnce
<1>5. g[S] = f[First(S)] + g[Others(S)]
  BY <1>1 DEF AddsUp
<1> QED
  BY <1>1, <1>3, <1>4, <1>5

LEMMA SumType ==
    ASSUME NEW S, IsFiniteSet(S), NEW f, \A x \in S : f[x] \in Int
    PROVE  SumFunctionOnSet(f, S) \in Int
<1> DEFINE T == {A \in SUBSET S : SumFunctionOnSet(f, A) \notin Int}
<1> SUFFICES ASSUME T # {}
             PROVE  FALSE
  OBVIOUS
<1>1. PICK A \in T : \A B \in T : B \subseteq A => B = A
  <2>1. T \subseteq SUBSET S
    OBVIOUS
  <2> HIDE DEF T
  <2> QED
    BY <2>1, SmallestSet
<1>2. A \in SUBSET S /\ SumFunctionOnSet(f, A) \notin Int /\ IsFiniteSet(A)
  BY FS_Subset
<1>3. A # {}
  BY <1>2, SumEmpty
<1>4. Others(A) \in SUBSET S /\ Others(A) \notin T /\ First(A) \in S
  BY <1>1, <1>2, <1>3, OthersAreFewer
<1>5. SumFunctionOnSet(f, Others(A)) \in Int /\ f[First(A)] \in Int
  BY <1>4
<1>6. SumFunctionOnSet(f, A) = f[First(A)] + SumFunctionOnSet(f, Others(A))
  BY <1>2, <1>3, SumFirst
<1> QED
  BY <1>2, <1>5, <1>6

(* Any element may be the first.                                           *)
LEMMA SumSplit ==
    ASSUME NEW S, IsFiniteSet(S), NEW f, \A x \in S : f[x] \in Int, NEW x \in S
    PROVE  SumFunctionOnSet(f, S) = f[x] + SumFunctionOnSet(f, S \ {x})
<1> DEFINE Splits(A, y) == SumFunctionOnSet(f, A) = f[y] + SumFunctionOnSet(f, A \ {y})
           T == {A \in SUBSET S : \E y \in A : ~ Splits(A, y)}
<1> SUFFICES ASSUME T # {}
             PROVE  FALSE
  OBVIOUS
<1>1. PICK A \in T : \A B \in T : B \subseteq A => B = A
  <2>1. T \subseteq SUBSET S
    OBVIOUS
  <2> HIDE DEF T
  <2> QED
    BY <2>1, SmallestSet
<1>2. A \in SUBSET S /\ IsFiniteSet(A)
  BY FS_Subset
<1>3. PICK y \in A : ~ Splits(A, y)
  OBVIOUS
<1> DEFINE z == First(A)
<1>4. z \in A /\ Others(A) = A \ {z}
  BY <1>3, OthersAreFewer DEF Others
<1>5. Splits(A, z)
  BY <1>2, <1>3, <1>4, SumFirst
<1> HIDE DEF z
<1>6. y # z
  BY <1>3, <1>5
<1>7. ASSUME NEW a \in A, NEW b \in A \ {a}
      PROVE  Splits(A \ {a}, b)
  <2>1. A \ {a} \in SUBSET S /\ A \ {a} \notin T
    BY <1>1, <1>2
  <2> QED
    BY <2>1
<1>8. Splits(A \ {z}, y) /\ Splits(A \ {y}, z)
  BY <1>3, <1>4, <1>6, <1>7
<1>9. (A \ {z}) \ {y} = (A \ {y}) \ {z}
  OBVIOUS
<1>10. /\ f[y] \in Int /\ f[z] \in Int
       /\ SumFunctionOnSet(f, (A \ {y}) \ {z}) \in Int
  <2>1. IsFiniteSet((A \ {y}) \ {z}) /\ (A \ {y}) \ {z} \subseteq S
    BY <1>2, FS_Subset
  <2> QED
    BY <1>2, <1>3, <1>4, <2>1, SumType
<1> DEFINE rest == SumFunctionOnSet(f, (A \ {y}) \ {z})
<1>11. SumFunctionOnSet(f, A) = f[z] + (f[y] + rest)
  BY <1>5, <1>8, <1>9
<1>12. SumFunctionOnSet(f, A \ {y}) = f[z] + rest
  BY <1>8
<1>13. f[z] + (f[y] + rest) = f[y] + (f[z] + rest)
  BY <1>10
<1> QED
  BY <1>3, <1>11, <1>12, <1>13

(* What the summands obey, one by one, the sums obey: of two functions     *)
(* whose summands compare, the sums do.                                    *)
LEMMA SumMonotone ==
    ASSUME NEW S, IsFiniteSet(S), NEW f, NEW g,
           \A x \in S : f[x] \in Int /\ g[x] \in Int /\ f[x] <= g[x]
    PROVE  SumFunctionOnSet(f, S) <= SumFunctionOnSet(g, S)
<1> DEFINE T == {A \in SUBSET S : ~ SumFunctionOnSet(f, A) <= SumFunctionOnSet(g, A)}
<1> SUFFICES ASSUME T # {}
             PROVE  FALSE
  OBVIOUS
<1>1. PICK A \in T : \A B \in T : B \subseteq A => B = A
  <2>1. T \subseteq SUBSET S
    OBVIOUS
  <2> HIDE DEF T
  <2> QED
    BY <2>1, SmallestSet
<1>2. A \in SUBSET S /\ IsFiniteSet(A)
  BY FS_Subset
<1>3. A # {}
  <2>1. ~ SumFunctionOnSet(f, A) <= SumFunctionOnSet(g, A)
    OBVIOUS
  <2>2. SumFunctionOnSet(f, {}) = 0 /\ SumFunctionOnSet(g, {}) = 0
    BY SumEmpty
  <2> QED
    BY <2>1, <2>2
<1>4. Others(A) \in SUBSET S /\ Others(A) \notin T /\ First(A) \in S
  BY <1>1, <1>2, <1>3, OthersAreFewer
<1>5. IsFiniteSet(Others(A))
  BY <1>4, FS_Subset
<1> DEFINE p == SumFunctionOnSet(f, Others(A))
           q == SumFunctionOnSet(g, Others(A))
<1>6. p <= q /\ p \in Int /\ q \in Int
  BY <1>4, <1>5, SumType
<1>7. /\ SumFunctionOnSet(f, A) = f[First(A)] + p
      /\ SumFunctionOnSet(g, A) = g[First(A)] + q
  BY <1>2, <1>3, SumFirst
<1>8. f[First(A)] + p <= g[First(A)] + q
  <2> HIDE DEF p, q
  <2> QED
    BY <1>4, <1>6
<1> QED
  BY <1>7, <1>8

LEMMA SumSame ==
    ASSUME NEW S, IsFiniteSet(S), NEW f, NEW g,
           \A x \in S : f[x] \in Int /\ g[x] = f[x]
    PROVE  SumFunctionOnSet(g, S) = SumFunctionOnSet(f, S)
<1>1. /\ SumFunctionOnSet(f, S) <= SumFunctionOnSet(g, S)
      /\ SumFunctionOnSet(g, S) <= SumFunctionOnSet(f, S)
  BY SumMonotone
<1>2. SumFunctionOnSet(f, S) \in Int /\ SumFunctionOnSet(g, S) \in Int
  BY SumType
<1> QED
  BY <1>1, <1>2

(* A constant is added once for each element.                              *)
LEMMA SumConstant ==
    ASSUME NEW S, IsFiniteSet(S), NEW k \in Int, NEW f, \A x \in S : f[x] = k
    PROVE  SumFunctionOnSet(f, S) = k * Cardinality(S)
<1> DEFINE T == {A \in SUBSET S : SumFunctionOnSet(f, A) # k * Cardinality(A)}
<1> SUFFICES ASSUME T # {}
             PROVE  FALSE
  OBVIOUS
<1>1. PICK A \in T : \A B \in T : B \subseteq A => B = A
  <2>1. T \subseteq SUBSET S
    OBVIOUS
  <2> HIDE DEF T
  <2> QED
    BY <2>1, SmallestSet
<1>2. A \in SUBSET S /\ IsFiniteSet(A)
  BY FS_Subset
<1>3. A # {}
  BY SumEmpty, FS_EmptySet
<1>4. /\ Others(A) \in SUBSET S /\ Others(A) \notin T
      /\ First(A) \in A /\ First(A) \in S
  BY <1>1, <1>2, <1>3, OthersAreFewer
<1>5. Cardinality(Others(A)) = Cardinality(A) - 1 /\ Cardinality(A) \in Nat
  BY <1>2, <1>4, FS_RemoveElement, FS_CardinalityType DEF Others
<1>6. SumFunctionOnSet(f, A) = k + k * (Cardinality(A) - 1)
  BY <1>2, <1>3, <1>4, <1>5, SumFirst
<1>7. \A n \in Nat : k + k * (n - 1) = k * n
  OBVIOUS
<1> QED
  BY <1>5, <1>6, <1>7

LEMMA SumBounded ==
    ASSUME NEW S, IsFiniteSet(S), NEW k \in Int, NEW f,
           \A x \in S : f[x] \in Int /\ f[x] <= k
    PROVE  SumFunctionOnSet(f, S) <= k * Cardinality(S)
<1> DEFINE g == [x \in S |-> k]
<1>1. SumFunctionOnSet(f, S) <= SumFunctionOnSet(g, S)
  BY SumMonotone
<1>2. SumFunctionOnSet(g, S) = k * Cardinality(S)
  BY SumConstant
<1> QED
  BY <1>1, <1>2

LEMMA SumNatural ==
    ASSUME NEW S, IsFiniteSet(S), NEW f, \A x \in S : f[x] \in Nat
    PROVE  SumFunctionOnSet(f, S) \in Nat
<1> DEFINE g == [x \in S |-> 0]
<1>1. SumFunctionOnSet(g, S) <= SumFunctionOnSet(f, S)
  BY SumMonotone
<1>2. SumFunctionOnSet(g, S) = 0
  <2>1. SumFunctionOnSet(g, S) = 0 * Cardinality(S)
    BY SumConstant
  <2> QED
    BY <2>1, FS_CardinalityType
<1>3. SumFunctionOnSet(f, S) \in Int
  BY SumType
<1> QED
  BY <1>1, <1>2, <1>3

(* Every element that counts adds to the sum.                              *)
LEMMA SumCounts ==
    ASSUME NEW S, IsFiniteSet(S), NEW f, NEW T,
           \A x \in S : f[x] \in Nat /\ (x \in T => f[x] # 0)
    PROVE  Cardinality(S \cap T) <= SumFunctionOnSet(f, S)
<1> DEFINE U == {A \in SUBSET S : ~ Cardinality(A \cap T) <= SumFunctionOnSet(f, A)}
<1> SUFFICES ASSUME U # {}
             PROVE  FALSE
  OBVIOUS
<1>1. PICK A \in U : \A B \in U : B \subseteq A => B = A
  <2>1. U \subseteq SUBSET S
    OBVIOUS
  <2> HIDE DEF U
  <2> QED
    BY <2>1, SmallestSet
<1>2. A \in SUBSET S /\ IsFiniteSet(A) /\ IsFiniteSet(A \cap T)
  BY FS_Subset, FS_Intersection
<1>3. A # {}
  <2>1. ~ Cardinality(A \cap T) <= SumFunctionOnSet(f, A)
    OBVIOUS
  <2>2. SumFunctionOnSet(f, {}) = 0 /\ Cardinality({} \cap T) = 0
    BY SumEmpty, FS_EmptySet
  <2> QED
    BY <2>1, <2>2
<1> DEFINE z == First(A)
           B == Others(A)
<1>4. z \in A /\ z \in S /\ B = A \ {z} /\ B \in SUBSET S /\ B \notin U
  BY <1>1, <1>2, <1>3, OthersAreFewer DEF Others
<1>5. Cardinality(B \cap T) <= SumFunctionOnSet(f, B)
  BY <1>4
<1>6. SumFunctionOnSet(f, A) = f[z] + SumFunctionOnSet(f, B)
  BY <1>2, <1>3, SumFirst
<1> HIDE DEF z, B
<1>7. IsFiniteSet(B) /\ SumFunctionOnSet(f, B) \in Nat /\ f[z] \in Nat
  <2>1. IsFiniteSet(B)
    BY <1>4, FS_Subset
  <2> QED
    BY <1>4, <2>1, SumNatural
<1>8. Cardinality(A \cap T) <= f[z] + Cardinality(B \cap T)
  <2>1. IsFiniteSet(B \cap T) /\ Cardinality(B \cap T) \in Nat
    BY <1>7, FS_Intersection, FS_CardinalityType
  <2>2. CASE z \in T
    <3>1. A \cap T = (B \cap T) \cup {z} /\ z \notin B \cap T
      BY <1>4, <2>2
    <3>2. Cardinality(A \cap T) = Cardinality(B \cap T) + 1
      BY <2>1, <3>1, FS_AddElement
    <3>3. f[z] # 0
      BY <1>4, <2>2
    <3> QED
      BY <1>7, <2>1, <3>2, <3>3
  <2>3. CASE z \notin T
    <3>1. A \cap T = B \cap T
      BY <1>4, <2>3
    <3> QED
      BY <1>7, <2>1, <3>1
  <2> QED
    BY <2>2, <2>3
<1>9. Cardinality(A \cap T) \in Nat /\ Cardinality(B \cap T) \in Nat
  BY <1>2, <1>7, FS_Intersection, FS_CardinalityType
<1>10. Cardinality(A \cap T) <= SumFunctionOnSet(f, A)
  BY <1>5, <1>6, <1>7, <1>8, <1>9
<1> QED
  BY <1>10

-----------------------------------------------------------------------------
(* SumFunction, over the whole domain.                                     *)
LEMMA SumOfNone ==
    ASSUME NEW S, IsFiniteSet(S), NEW f \in [S -> Int], \A x \in S : f[x] = 0
    PROVE  SumFunction(f) = 0
<1>1. SumFunctionOnSet(f, S) = 0 * Cardinality(S)
  BY SumConstant
<1> QED
  BY <1>1, FS_CardinalityType DEF SumFunction

(* One summand changes, and the sum by as much.                            *)
LEMMA SumUpdate ==
    ASSUME NEW S, IsFiniteSet(S), NEW f \in [S -> Int], NEW g \in [S -> Int],
           NEW x \in S, \A y \in S \ {x} : g[y] = f[y]
    PROVE  SumFunction(g) = SumFunction(f) - f[x] + g[x]
<1> DEFINE p == SumFunctionOnSet(f, S \ {x})
           q == SumFunctionOnSet(g, S \ {x})
<1>1. IsFiniteSet(S \ {x})
  BY FS_Subset
<1>2. p \in Int /\ q = p
  BY <1>1, SumType, SumSame
<1>3. SumFunction(f) = f[x] + p /\ SumFunction(g) = g[x] + q
  BY SumSplit DEF SumFunction
<1> HIDE DEF p, q
<1> QED
  BY <1>2, <1>3

LEMMA SumExcept ==
    ASSUME NEW S, IsFiniteSet(S), NEW f \in [S -> Int], NEW x \in S, NEW v \in Int
    PROVE  SumFunction([f EXCEPT ![x] = v]) = SumFunction(f) - f[x] + v
<1> DEFINE g == [f EXCEPT ![x] = v]
<1>1. g \in [S -> Int] /\ g[x] = v /\ \A y \in S \ {x} : g[y] = f[y]
  OBVIOUS
<1> HIDE DEF g
<1>2. SumFunction(g) = SumFunction(f) - f[x] + g[x]
  BY <1>1, SumUpdate
<1> QED
  BY <1>1, <1>2 DEF g

=============================================================================
