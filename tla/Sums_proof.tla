----------------------------- MODULE Sums_proof -----------------------------
(***************************************************************************)
(* The lemmas about numbers, sums and recursion that the proofs about the  *)
(* components share: recursion on the naturals, the ranks of an order,     *)
(* sums over finite sets, products and quotients of whole numbers.         *)
(*                                                                         *)
(* A fold chooses the order in which it takes the elements of a set, and   *)
(* is defined by recursion over the subsets; the lemmas about sums free    *)
(* the proofs from both.  There is no induction rule with a formula for    *)
(* its parameter to cite; each induction looks at a smallest set, or a     *)
(* least number, for which the claim fails.                                *)
(***************************************************************************)
EXTENDS Sums, FiniteSetTheorems, TLAPS

(* Among finite sets there is one that contains no other of them.          *)
LEMMA SmallestSet ==
    ASSUME NEW F, F # {}, \A s \in F : IsFiniteSet(s)
    PROVE  \E s \in F : \A t \in F : t \subseteq s => t = s
<1> DEFINE U == UNION F
<1>1. F \subseteq FiniteSubsetsOf(U)
  BY DEF FiniteSubsetsOf
<1>2. IsWellFoundedOn(StrictSubsetOrdering(U), FiniteSubsetsOf(U))
  BY FS_StrictSubsetOrderingWellFounded
<1>3. PICK s \in F : \A t \in F : <<t, s>> \notin StrictSubsetOrdering(U)
  BY <1>1, <1>2, WFMin
<1>4. ASSUME NEW t \in F, t \subseteq s, t # s PROVE FALSE
  <2>1. <<t, s>> \in StrictSubsetOrdering(U)
    BY <1>4 DEF StrictSubsetOrdering
  <2>. QED
    BY <1>3, <2>1
<1>. QED
  BY <1>4

-----------------------------------------------------------------------------
(* Recursion on the natural numbers: some function starts with a given     *)
(* value and takes the given steps.  An equation that defines a function   *)
(* by recursion is then satisfied by the function chosen for it.           *)
LEMMA LeastNumber ==
    ASSUME NEW N \in SUBSET Nat, N # {}
    PROVE  \E n \in N : \A m \in N : n <= m
<1> DEFINE F == {0..n : n \in N}
<1>1. F # {} /\ \A s \in F : IsFiniteSet(s)
  <2>1. \A n \in N : IsFiniteSet(0..n)
    BY FS_Interval
  <2>. QED
    BY <2>1
<1>2. PICK s \in F : \A t \in F : t \subseteq s => t = s
  <2> HIDE DEF F
  <2>. QED
    BY <1>1, SmallestSet
<1>3. PICK n \in N : s = 0..n
  OBVIOUS
<1>4. ASSUME NEW m \in N, m < n PROVE FALSE
  <2>1. 0..m \in F /\ 0..m \subseteq 0..n
    BY <1>4
  <2>2. n \in 0..n /\ n \notin 0..m
    BY <1>4
  <2>. QED
    BY <1>2, <1>3, <2>1, <2>2
<1>. QED
  BY <1>4

Runs(n, V, first, step) ==
    {h \in [0..n -> V] : h[0] = first /\ \A i \in 1..n : h[i] = step[<<i, h[i - 1]>>]}

LEMMA StepsExist ==
    ASSUME NEW n \in Nat, NEW V, NEW first \in V, NEW step \in [(1..n) \X V -> V]
    PROVE  Runs(n, V, first, step) # {}
<1> DEFINE Upto(m) == {h \in [0..m -> V] :
                          h[0] = first /\ \A i \in 1..m : h[i] = step[<<i, h[i - 1]>>]}
           bad == {m \in 0..n : Upto(m) = {}}
<1>. SUFFICES ASSUME bad # {} PROVE FALSE
  <2>1. n \in 0..n
    OBVIOUS
  <2>. QED
    BY <2>1 DEF Runs
<1>1. PICK m \in bad : \A l \in bad : m <= l
  <2>1. bad \in SUBSET Nat
    OBVIOUS
  <2> HIDE DEF bad
  <2>. QED
    BY <2>1, LeastNumber
<1>2. CASE m = 0
  <2>1. [i \in 0..0 |-> first] \in Upto(0)
    OBVIOUS
  <2>. QED
    BY <1>2, <2>1
<1>3. CASE m # 0
  <2>1. m \in 1..n /\ m - 1 \in 0..n /\ ~(m <= m - 1)
    BY <1>1, <1>3
  <2>2. PICK h \in Upto(m - 1) : TRUE
    BY <1>1, <2>1
  <2> DEFINE g == [i \in 0..m |-> IF i = m THEN step[<<m, h[m - 1]>>] ELSE h[i]]
  <2>3. h[m - 1] \in V /\ g[m] \in V
    BY <2>1, <2>2
  <2>4. \A i \in 0..m : i # m => i \in 0..(m - 1) /\ g[i] = h[i] /\ g[i] \in V
    BY <2>1, <2>2
  <2>5. g \in [0..m -> V]
    BY <2>3, <2>4
  <2>6. g[0] = first
    BY <2>1, <2>2
  <2>7. \A i \in 1..m : g[i] = step[<<i, g[i - 1]>>]
    <3>. SUFFICES ASSUME NEW i \in 1..m PROVE g[i] = step[<<i, g[i - 1]>>]
      OBVIOUS
    <3>1. g[i - 1] = h[i - 1]
      BY <2>1, <2>4
    <3>2. CASE i = m
      <4>1. g[m] = step[<<m, h[m - 1]>>]
        BY <2>1
      <4> HIDE DEF g
      <4>. QED
        BY <3>1, <3>2, <4>1
    <3>3. CASE i # m
      <4>1. i \in 1..(m - 1) /\ g[i] = h[i]
        BY <2>1, <3>3
      <4>. QED
        BY <2>2, <3>1, <4>1
    <3>. QED
      BY <3>2, <3>3
  <2>8. g \in Upto(m)
    BY <2>5, <2>6, <2>7
  <2>. QED
    BY <1>1, <2>8
<1>. QED
  BY <1>2, <1>3

LEMMA StepsStay ==
    ASSUME NEW n \in Nat, NEW V, NEW h, h[0] \in V,
           \A i \in 1..n : h[i - 1] \in V => h[i] \in V
    PROVE  \A i \in 0..n : h[i] \in V
<1> DEFINE bad == {i \in 0..n : h[i] \notin V}
<1>. SUFFICES ASSUME bad # {} PROVE FALSE
  OBVIOUS
<1>1. PICK i \in bad : \A j \in bad : i <= j
  <2>1. bad \in SUBSET Nat
    OBVIOUS
  <2> HIDE DEF bad
  <2>. QED
    BY <2>1, LeastNumber
<1>2. i \in 1..n /\ i - 1 \in 0..n /\ ~(i <= i - 1)
  BY <1>1
<1>. QED
  BY <1>1, <1>2

(* A finite set in a strict order has an element of every rank: `Below'    *)
(* gives what comes before each element.                                   *)
LEMMA EveryRank ==
    ASSUME NEW S, IsFiniteSet(S), NEW Below \in [S -> SUBSET S],
           \A f \in S : f \notin Below[f],
           \A f, g \in S : f \in Below[g] => Below[f] \subseteq Below[g],
           \A f, g \in S : f # g => f \in Below[g] \/ g \in Below[f]
    PROVE  \A i \in 1..Cardinality(S) : \E f \in S : Cardinality(Below[f]) = i - 1
<1> DEFINE n == Cardinality(S)
           T == 0..(n - 1)
           rank == [f \in S |-> Cardinality(Below[f])]
<1>1. n \in Nat
  BY FS_CardinalityType
<1>2. IsFiniteSet(T) /\ Cardinality(T) = n
  <2> HIDE DEF n
  <2>1. 0 \in Int /\ n - 1 \in Int
    BY <1>1
  <2>2. /\ IsFiniteSet(0..(n - 1))
        /\ Cardinality(0..(n - 1)) = IF 0 > n - 1 THEN 0 ELSE (n - 1) - 0 + 1
    BY <2>1, FS_Interval
  <2>. QED
    BY <1>1, <2>2
<1>3. \A f \in S : /\ IsFiniteSet(Below[f]) /\ Cardinality(Below[f]) \in Nat
                    /\ Cardinality(Below[f]) <= n /\ Cardinality(Below[f]) # n
  <2>. SUFFICES ASSUME NEW f \in S
                PROVE  /\ IsFiniteSet(Below[f]) /\ Cardinality(Below[f]) \in Nat
                       /\ Cardinality(Below[f]) <= n /\ Cardinality(Below[f]) # n
    OBVIOUS
  <2>1. Below[f] \in SUBSET S /\ Below[f] # S
    OBVIOUS
  <2>2. IsFiniteSet(Below[f]) /\ Cardinality(Below[f]) <= n /\ Cardinality(Below[f]) # n
    BY <2>1, FS_Subset
  <2>. QED
    BY <2>2, FS_CardinalityType
<1>4. rank \in [S -> T]
  BY <1>1, <1>3
<1>5. \A f, g \in S : f \in Below[g] => Cardinality(Below[f]) # Cardinality(Below[g])
  <2>. SUFFICES ASSUME NEW f \in S, NEW g \in S, f \in Below[g]
                PROVE  Cardinality(Below[f]) # Cardinality(Below[g])
    OBVIOUS
  <2>1. Below[f] \in SUBSET Below[g] /\ Below[f] # Below[g]
    OBVIOUS
  <2>. QED
    BY <2>1, <1>3, FS_Subset
<1>6. rank \in Injection(S, T)
  <2>1. \A f, g \in S : rank[f] = rank[g] => f = g
    BY <1>5
  <2> HIDE DEF rank, T
  <2>. QED
    BY <1>4, <2>1 DEF Injection, IsInjective
<1>7. rank \in Surjection(S, T)
  <2> HIDE DEF rank, T
  <2>. QED
    BY <1>2, <1>6, FS_Injection
<1>8. \A k \in T : \E f \in S : rank[f] = k
  <2> HIDE DEF rank, T
  <2>. QED
    BY <1>7 DEF Surjection
<1>9. \A i \in 1..n : i - 1 \in T
  BY <1>1
<1>. QED
  BY <1>8, <1>9

-----------------------------------------------------------------------------
(* The recursion of the fold.                                              *)
Some(s) == CHOOSE x \in s : TRUE
Rest(s) == s \ {Some(s)}

LEMMA SomeInSet == \A s : s # {} => Some(s) \in s
BY DEF Some

Unfolded(f, s) == IF s = {} THEN 0 ELSE f[Some(s)] + SumOver(f, Rest(s))

LEMMA SumIsIteration ==
    ASSUME NEW f, NEW S
    PROVE  SumOver(f, S) =
             (CHOOSE g : g = [s \in SUBSET S |->
                 IF s = {} THEN 0 ELSE f[Some(s)] + g[Rest(s)]])[S]
BY DEF SumOver, FoldFunctionOnSet, MapThenFoldSet, Some, Rest

LEMMA SumUnfolds ==
    ASSUME NEW f, NEW S, IsFiniteSet(S)
    PROVE  SumOver(f, S) = Unfolded(f, S)
<1> DEFINE bad == {s \in SUBSET S : SumOver(f, s) # Unfolded(f, s)}
<1>. SUFFICES ASSUME bad # {} PROVE FALSE
  OBVIOUS
<1>1. PICK T \in bad : \A s \in bad : s \subseteq T => s = T
  <2>1. \A s \in bad : IsFiniteSet(s)
    BY FS_Subset
  <2> HIDE DEF bad
  <2>. QED
    BY <2>1, SmallestSet
<1> DEFINE H == [s \in SUBSET T |-> Unfolded(f, s)]
           eq(g) == [s \in SUBSET T |-> IF s = {} THEN 0 ELSE f[Some(s)] + g[Rest(s)]]
<1>2. \A s \in SUBSET T : s # {} => Rest(s) \in SUBSET T /\ Rest(s) # s /\ Rest(s) \subseteq s
  BY SomeInSet DEF Rest
<1>3. \A s \in SUBSET T : s # T => SumOver(f, s) = Unfolded(f, s)
  BY <1>1
<1>4. \A s \in SUBSET T : s # {} => H[Rest(s)] = SumOver(f, Rest(s))
  <2>. SUFFICES ASSUME NEW s \in SUBSET T, s # {} PROVE H[Rest(s)] = SumOver(f, Rest(s))
    OBVIOUS
  <2>1. Rest(s) \in SUBSET T /\ Rest(s) # T
    BY <1>2
  <2>2. H[Rest(s)] = Unfolded(f, Rest(s))
    BY <2>1
  <2>. QED
    BY <1>3, <2>1, <2>2
<1>5. H = eq(H)
  BY <1>4 DEF Unfolded
<1>6. ASSUME NEW g, g = eq(g) PROVE g = H
  <2> DEFINE off == {s \in SUBSET T : g[s] # H[s]}
  <2>. SUFFICES ASSUME off # {} PROVE FALSE
    BY <1>6
  <2>1. \A s \in off : IsFiniteSet(s)
    BY FS_Subset
  <2> HIDE DEF off
  <2>2. PICK s \in off : \A t \in off : t \subseteq s => t = s
    BY <2>1, SmallestSet
  <2> USE DEF off
  <2>3. g[s] = IF s = {} THEN 0 ELSE f[Some(s)] + g[Rest(s)]
    BY <1>6
  <2>4. H[s] = IF s = {} THEN 0 ELSE f[Some(s)] + H[Rest(s)]
    BY <1>5
  <2>5. s # {} => g[Rest(s)] = H[Rest(s)]
    BY <1>2, <2>2
  <2>. QED
    BY <2>3, <2>4, <2>5
<1>7. (CHOOSE g : g = eq(g)) = H
  BY <1>5, <1>6
<1>8. SumOver(f, T) = H[T]
  BY <1>7, SumIsIteration
<1>. QED
  BY <1>1, <1>8

-----------------------------------------------------------------------------
(* Sums of whole numbers.                                                  *)
Ints(f, S) == IsFiniteSet(S) /\ \A x \in S : f[x] \in Int

LEMMA SumEmpty == \A f : SumOver(f, {}) = 0
BY SumUnfolds, FS_EmptySet DEF Unfolded

LEMMA SumType ==
    ASSUME NEW f, NEW S, Ints(f, S)
    PROVE  SumOver(f, S) \in Int
<1> DEFINE bad == {s \in SUBSET S : SumOver(f, s) \notin Int}
<1>. SUFFICES ASSUME bad # {} PROVE FALSE
  OBVIOUS
<1>1. \A s \in bad : IsFiniteSet(s)
  BY FS_Subset DEF Ints
<1>2. PICK T \in bad : \A s \in bad : s \subseteq T => s = T
  <2> HIDE DEF bad
  <2>. QED
    BY <1>1, SmallestSet
<1>3. T # {} /\ Some(T) \in T /\ Rest(T) \in SUBSET S /\ Rest(T) \subseteq T /\ Rest(T) # T
  BY SumEmpty, SomeInSet DEF Rest
<1>4. SumOver(f, Rest(T)) \in Int /\ f[Some(T)] \in Int
  BY <1>2, <1>3 DEF Ints
<1>5. SumOver(f, T) = f[Some(T)] + SumOver(f, Rest(T))
  BY <1>1, <1>3, SumUnfolds DEF Unfolded
<1>. QED
  BY <1>4, <1>5

(* Any element may be taken out first.                                     *)
LEMMA SumSplit ==
    ASSUME NEW f, NEW S, Ints(f, S), NEW x \in S
    PROVE  SumOver(f, S) = f[x] + SumOver(f, S \ {x})
<1> DEFINE fails(s, y) == SumOver(f, s) # f[y] + SumOver(f, s \ {y})
           bad == {s \in SUBSET S : \E y \in s : fails(s, y)}
<1>. SUFFICES ASSUME bad # {} PROVE FALSE
  OBVIOUS
<1>1. \A s \in SUBSET S : Ints(f, s) /\ IsFiniteSet(s) /\ SumOver(f, s) \in Int
  BY FS_Subset, SumType DEF Ints
<1>2. PICK T \in bad : \A s \in bad : s \subseteq T => s = T
  <2>1. \A s \in bad : IsFiniteSet(s)
    BY <1>1
  <2> HIDE DEF bad
  <2>. QED
    BY <2>1, SmallestSet
<1>3. PICK y \in T : fails(T, y)
  OBVIOUS
<1> DEFINE z == Some(T)
<1>4. z \in T /\ SumOver(f, T) = f[z] + SumOver(f, T \ {z})
  BY <1>1, SumUnfolds, SomeInSet DEF Unfolded, Rest
<1> HIDE DEF z
<1>5. y # z
  BY <1>3, <1>4
<1>6. SumOver(f, T \ {z}) = f[y] + SumOver(f, (T \ {z}) \ {y})
  BY <1>2, <1>4, <1>5
<1>7. SumOver(f, T \ {y}) = f[z] + SumOver(f, (T \ {y}) \ {z})
  BY <1>2, <1>4, <1>5
<1>8. (T \ {z}) \ {y} = (T \ {y}) \ {z}
  OBVIOUS
<1>9. f[y] \in Int /\ f[z] \in Int /\ SumOver(f, (T \ {z}) \ {y}) \in Int
  BY <1>1, <1>4 DEF Ints
<1>10. SumOver(f, T) = f[y] + SumOver(f, T \ {y})
  BY <1>4, <1>6, <1>7, <1>8, <1>9
<1>. QED
  BY <1>3, <1>10

(* A relation between two sums is a relation between their terms: of       *)
(* equality up to factors, and of order.                                   *)
LEMMA SumScales ==
    ASSUME NEW f, NEW g, NEW S, Ints(f, S), Ints(g, S), NEW a \in Int, NEW b \in Int,
           \A x \in S : a * g[x] = b * f[x]
    PROVE  a * SumOver(g, S) = b * SumOver(f, S)
<1> DEFINE bad == {s \in SUBSET S : a * SumOver(g, s) # b * SumOver(f, s)}
<1>. SUFFICES ASSUME bad # {} PROVE FALSE
  OBVIOUS
<1>1. \A s \in SUBSET S : Ints(f, s) /\ Ints(g, s) /\ IsFiniteSet(s)
                           /\ SumOver(f, s) \in Int /\ SumOver(g, s) \in Int
  BY FS_Subset, SumType DEF Ints
<1>2. PICK T \in bad : \A s \in bad : s \subseteq T => s = T
  <2>1. \A s \in bad : IsFiniteSet(s)
    BY <1>1
  <2> HIDE DEF bad
  <2>. QED
    BY <2>1, SmallestSet
<1>3. T # {}
  BY SumEmpty
<1>4. PICK x \in T : TRUE
  BY <1>3
<1> DEFINE F == SumOver(f, T \ {x})
           G == SumOver(g, T \ {x})
<1>5. SumOver(f, T) = f[x] + F /\ SumOver(g, T) = g[x] + G
  BY <1>1, SumSplit
<1>6. a * G = b * F
  BY <1>2, <1>4
<1>7. F \in Int /\ G \in Int /\ f[x] \in Int /\ g[x] \in Int
  BY <1>1 DEF Ints
<1> HIDE DEF F, G
<1>8. a * (g[x] + G) = a * g[x] + a * G /\ b * (f[x] + F) = b * f[x] + b * F
  BY <1>7
<1>9. a * g[x] = b * f[x]
  BY <1>4
<1>. QED
  BY <1>5, <1>6, <1>8, <1>9

LEMMA SumSame ==
    ASSUME NEW f, NEW g, NEW S, Ints(f, S), \A x \in S : g[x] = f[x]
    PROVE  SumOver(g, S) = SumOver(f, S)
<1>1. Ints(g, S)
  BY DEF Ints
<1>2. \A x \in S : 1 * g[x] = 1 * f[x]
  BY DEF Ints
<1>3. 1 * SumOver(g, S) = 1 * SumOver(f, S)
  BY <1>1, <1>2, SumScales
<1>. QED
  BY <1>1, <1>3, SumType

LEMMA SumZero ==
    ASSUME NEW f, NEW S, IsFiniteSet(S), \A x \in S : f[x] = 0
    PROVE  SumOver(f, S) = 0
<1>1. Ints(f, S)
  BY DEF Ints
<1>2. \A x \in S : 1 * f[x] = 0 * f[x]
  BY DEF Ints
<1>3. 1 * SumOver(f, S) = 0 * SumOver(f, S)
  BY <1>1, <1>2, SumScales
<1>. QED
  BY <1>1, <1>3, SumType

(* A term of a sum of natural numbers is at most the sum.                  *)
LEMMA SumBounds ==
    ASSUME NEW f, NEW S, IsFiniteSet(S), \A x \in S : f[x] \in Nat
    PROVE  /\ SumOver(f, S) \in Nat
           /\ \A x \in S : f[x] <= SumOver(f, S)
           /\ \A x, y \in S : x # y => f[x] + f[y] <= SumOver(f, S)
<1> DEFINE bad == {s \in SUBSET S : SumOver(f, s) \notin Nat}
<1>1. \A s \in SUBSET S : Ints(f, s) /\ IsFiniteSet(s)
  BY FS_Subset DEF Ints
<1>2. \A s \in SUBSET S : SumOver(f, s) \in Nat
  <2>. SUFFICES ASSUME bad # {} PROVE FALSE
    OBVIOUS
  <2>1. PICK T \in bad : \A s \in bad : s \subseteq T => s = T
    <3>1. \A s \in bad : IsFiniteSet(s)
      BY <1>1
    <3> HIDE DEF bad
    <3>. QED
      BY <3>1, SmallestSet
  <2>2. T # {}
    BY SumEmpty
  <2>3. PICK x \in T : TRUE
    BY <2>2
  <2>4. SumOver(f, T) = f[x] + SumOver(f, T \ {x})
    BY <1>1, SumSplit
  <2>5. SumOver(f, T \ {x}) \in Nat
    BY <2>1
  <2>. QED
    BY <2>4, <2>5
<1>3. \A x \in S : SumOver(f, S) = f[x] + SumOver(f, S \ {x})
  BY <1>1, SumSplit
<1>4. ASSUME NEW x \in S, NEW y \in S, x # y PROVE f[x] + f[y] <= SumOver(f, S)
  <2>1. SumOver(f, S \ {x}) = f[y] + SumOver(f, (S \ {x}) \ {y})
    BY <1>1, <1>4, SumSplit
  <2>2. SumOver(f, (S \ {x}) \ {y}) \in Nat
    BY <1>2
  <2>3. SumOver(f, S) = f[x] + SumOver(f, S \ {x})
    BY <1>3
  <2>4. f[x] \in Nat /\ f[y] \in Nat
    OBVIOUS
  <2>. QED
    BY <2>1, <2>2, <2>3, <2>4
<1>5. ASSUME NEW x \in S PROVE f[x] <= SumOver(f, S)
  <2>1. SumOver(f, S) = f[x] + SumOver(f, S \ {x})
    BY <1>3
  <2>2. SumOver(f, S \ {x}) \in Nat /\ f[x] \in Nat
    BY <1>2
  <2>. QED
    BY <2>1, <2>2
<1>. QED
  BY <1>2, <1>4, <1>5

(* Changing one term changes the sum by as much.                           *)
LEMMA SumChanges ==
    ASSUME NEW f, NEW g, NEW S, Ints(f, S), NEW x \in S, g[x] \in Int,
           \A y \in S \ {x} : g[y] = f[y]
    PROVE  SumOver(g, S) = SumOver(f, S) + g[x] - f[x]
<1>1. Ints(g, S) /\ Ints(f, S \ {x})
  BY FS_Subset DEF Ints
<1>2. SumOver(g, S \ {x}) = SumOver(f, S \ {x})
  BY <1>1, SumSame
<1>3. /\ SumOver(f, S) = f[x] + SumOver(f, S \ {x})
      /\ SumOver(g, S) = g[x] + SumOver(g, S \ {x})
  BY <1>1, SumSplit
<1>4. f[x] \in Int /\ SumOver(f, S \ {x}) \in Int
  BY <1>1, SumType DEF Ints
<1>. QED
  BY <1>2, <1>3, <1>4

-----------------------------------------------------------------------------
(* Arithmetic the provers need as facts of their own.                      *)
LEMMA Products ==
    /\ \A a, b \in Int : a * b \in Int
    /\ \A a, b \in Nat : a * b \in Nat
OBVIOUS

LEMMA Quotients ==
    ASSUME NEW a \in Int, NEW b \in Nat \ {0}
    PROVE  /\ a \div b \in Int
           /\ a \in Nat => a \div b \in Nat
OBVIOUS

LEMMA Cancels ==
    ASSUME NEW a \in Int, NEW b \in Int, NEW s \in Nat \ {0}
    PROVE  /\ s * a <= s * b => a <= b
           /\ s * a = s * b => a = b
<1>1. ASSUME b < a PROVE s * b < s * a
  <2>1. PICK d \in Nat \ {0} : a = b + d
    <3>1. a - b \in Nat \ {0} /\ a = b + (a - b)
      BY <1>1
    <3>. QED
      BY <3>1
  <2>2. s * a = s * b + s * d
    BY <2>1
  <2>3. s * d > 0
    BY <2>1
  <2>4. s * b \in Int /\ s * d \in Int
    BY <2>1, Products
  <2>. QED
    BY <2>2, <2>3, <2>4
<1>2. ASSUME a < b PROVE s * a < s * b
  <2>1. PICK d \in Nat \ {0} : b = a + d
    <3>1. b - a \in Nat \ {0} /\ b = a + (b - a)
      BY <1>2
    <3>. QED
      BY <3>1
  <2>2. s * b = s * a + s * d
    BY <2>1
  <2>3. s * d > 0
    BY <2>1
  <2>4. s * a \in Int /\ s * d \in Int
    BY <2>1, Products
  <2>. QED
    BY <2>2, <2>3, <2>4
<1>3. s * a \in Int /\ s * b \in Int
  BY Products
<1>. QED
  BY <1>1, <1>2, <1>3

LEMMA Larger ==
    ASSUME NEW a \in Nat, NEW b \in Nat, a <= b, NEW c \in Nat
    PROVE  a * c <= b * c /\ c * a <= c * b
<1>1. PICK d \in Nat : b = a + d
  <2>1. b - a \in Nat /\ b = a + (b - a)
    OBVIOUS
  <2>. QED
    BY <2>1
<1>2. b * c = a * c + d * c /\ c * b = c * a + c * d
  BY <1>1
<1>3. a * c \in Nat /\ d * c \in Nat /\ c * a \in Nat /\ c * d \in Nat
  BY <1>1, Products
<1>. QED
  BY <1>2, <1>3
(* A quotient is rounded down.                                             *)
LEMMA RoundedDown ==
    ASSUME NEW a \in Int, NEW b \in Nat \ {0}
    PROVE  a \div b \in Int /\ (a \div b) * b <= a /\ (a \in Nat => a \div b \in Nat)
OBVIOUS

(* The part of c that belongs to q of s shares is not more than c.         *)
LEMMA PartAtMost ==
    ASSUME NEW s \in Nat \ {0}, NEW q \in 0..s, NEW c \in Nat
    PROVE  (c * q) \div s \in Nat /\ (c * q) \div s <= c
<1> DEFINE d == (c * q) \div s
<1>1. c * q \in Nat
  BY Products
<1>2. d \in Nat /\ d * s <= c * q
  BY <1>1, RoundedDown
<1> HIDE DEF d
<1>3. c * q <= c * s
  BY Larger
<1>4. d * s = s * d /\ c * s = s * c /\ s * d \in Nat /\ s * c \in Nat
  BY <1>2, Products
<1>5. s * d <= s * c
  BY <1>1, <1>2, <1>3, <1>4
<1>6. d <= c
  BY <1>2, <1>5, Cancels
<1>. QED
  BY <1>2, <1>6 DEF d
=============================================================================
