-------------------------------- MODULE Sums --------------------------------
(***************************************************************************)
(* Facts about the sum of a function over a finite set, SumFunction of the *)
(* community modules, for invariants that count claims, references or      *)
(* requests over all threads.  Induction is by the least counterexample:   *)
(* a non-empty set of numbers, or of finite sets, has a smallest element.  *)
(***************************************************************************)
EXTENDS Functions, FiniteSetTheorems, WellFoundedInduction, TLAPS

(* A non-empty set of natural numbers has a least element. *)
LEMMA LeastNumber ==
  ASSUME NEW S \in SUBSET Nat, S # {}
  PROVE  \E n \in S : \A m \in S : n <= m
<1>1. PICK n \in S : \A m \in S : <<m, n>> \notin OpToRel(<, Nat)
  BY NatLessThanWellFounded, WFMin
<1>2. \A m \in S : ~(m < n)
  BY <1>1 DEF OpToRel
<1>3. QED
  BY <1>2

(* What holds of 0, and of n + 1 with n, holds of every number. *)
LEMMA NumberInduction ==
  ASSUME NEW S \in SUBSET Nat, 0 \in S, \A n \in S : n + 1 \in S
  PROVE  S = Nat
<1> SUFFICES ASSUME Nat \ S # {} PROVE FALSE
  OBVIOUS
<1>1. PICK n \in Nat \ S : \A m \in Nat \ S : n <= m
  BY LeastNumber
<1>2. n # 0 /\ n - 1 \in Nat /\ n - 1 \notin Nat \ S
  BY <1>1
<1>3. n - 1 + 1 \in S
  BY <1>2
<1>4. QED
  BY <1>1, <1>3

(* A non-empty set of finite sets has a member that includes no other. *)
LEMMA SmallestSet ==
  ASSUME NEW D, IsFiniteSet(D), NEW S \in SUBSET SUBSET D, S # {}
  PROVE  \E T \in S : \A U \in S : U \subseteq T => U = T
<1> DEFINE Sizes == {Cardinality(T) : T \in S}
<1>1. \A T \in S : IsFiniteSet(T) /\ Cardinality(T) \in Nat
  BY FS_Subset, FS_CardinalityType
<1>2. PICK n \in Sizes : \A m \in Sizes : n <= m
  <2>1. Sizes \in SUBSET Nat /\ Sizes # {}
    BY <1>1
  <2>2. QED
    BY <2>1, LeastNumber
<1>3. PICK T \in S : Cardinality(T) = n
  BY <1>2
<1>4. ASSUME NEW U \in S, U \subseteq T
      PROVE  U = T
  <2>1. Cardinality(U) <= Cardinality(T) /\ Cardinality(T) <= Cardinality(U)
    BY <1>1, <1>2, <1>3, <1>4, FS_Subset
  <2>2. Cardinality(U) = Cardinality(T)
    BY <1>1, <2>1
  <2>3. QED
    BY <1>1, <1>4, <2>2, FS_Subset
<1>5. QED
  BY <1>4

(* What holds of a set if it holds of the set without one of its elements    *)
(* holds of every finite set.                                                *)
LEMMA SetInduction ==
  ASSUME NEW D, IsFiniteSet(D), NEW S \in SUBSET SUBSET D, {} \in S,
         \A T \in SUBSET D : (\A x \in T : T \ {x} \in S) /\ T # {} => T \in S
  PROVE  S = SUBSET D
<1> SUFFICES ASSUME (SUBSET D) \ S # {} PROVE FALSE
  OBVIOUS
<1> DEFINE Bad == (SUBSET D) \ S
<1>1. PICK T \in Bad : \A U \in Bad : U \subseteq T => U = T
  <2>1. Bad \in SUBSET SUBSET D /\ Bad # {}
    OBVIOUS
  <2> HIDE DEF Bad
  <2>2. QED
    BY <2>1, SmallestSet
<1>2. \A x \in T : T \ {x} \in S
  BY <1>1
<1>3. QED
  BY <1>1, <1>2

-----------------------------------------------------------------------------
(* g[s] is the sum of the part of f on s: one element is taken at a time, in *)
(* the order CHOOSE gives.                                                   *)
First(s) == CHOOSE x \in s : TRUE

Adds(g, f) ==
  g = [s \in SUBSET (DOMAIN f) |->
         IF s = {} THEN 0 ELSE f[First(s)] + g[s \ {First(s)}]]

(* Such a function exists... *)
LEMMA AddsExists ==
  ASSUME NEW f, IsFiniteSet(DOMAIN f)
  PROVE  \E g : Adds(g, f)
<1> DEFINE D == DOMAIN f
           Upto(n) == {s \in SUBSET D : Cardinality(s) <= n}
           Part(g, n) == g = [s \in Upto(n) |->
                                IF s = {} THEN 0 ELSE f[First(s)] + g[s \ {First(s)}]]
           Good == {n \in Nat : \E g : Part(g, n)}
<1>1. \A s \in SUBSET D : IsFiniteSet(s) /\ Cardinality(s) \in Nat
  BY FS_Subset, FS_CardinalityType
<1>2. 0 \in Good
  <2> DEFINE g == [s \in Upto(0) |-> 0]
  <2>1. \A s \in Upto(0) : s = {}
    BY <1>1, FS_EmptySet
  <2>2. Part(g, 0)
    BY <2>1
  <2>3. QED
    BY <2>2
<1>3. ASSUME NEW n \in Good
      PROVE  n + 1 \in Good
  <2>1. PICK g : Part(g, n)
    OBVIOUS
  <2> DEFINE h == [s \in Upto(n + 1) |->
                     IF s = {} THEN 0 ELSE f[First(s)] + g[s \ {First(s)}]]
  <2>0. n \in Nat
    OBVIOUS
  <2>2. \A s \in Upto(n) : s \in Upto(n + 1) /\ h[s] = g[s]
    <3>1. \A s \in Upto(n) : s \in Upto(n + 1)
      BY <1>1, <2>0
    <3>2. ASSUME NEW s \in Upto(n) PROVE h[s] = g[s]
      <4>1. h[s] = IF s = {} THEN 0 ELSE f[First(s)] + g[s \ {First(s)}]
        BY <3>1
      <4>2. g[s] = IF s = {} THEN 0 ELSE f[First(s)] + g[s \ {First(s)}]
        BY <2>1
      <4>3. QED
        BY <4>1, <4>2
    <3>3. QED
      BY <3>1, <3>2
  <2>3. \A s \in Upto(n + 1) : s # {} => s \ {First(s)} \in Upto(n)
    <3> SUFFICES ASSUME NEW s \in Upto(n + 1), s # {}
                 PROVE  s \ {First(s)} \in Upto(n)
      OBVIOUS
    <3>1. First(s) \in s
      BY DEF First
    <3>2. Cardinality(s \ {First(s)}) = Cardinality(s) - 1
      BY <1>1, <3>1, FS_RemoveElement
    <3>3. QED
      BY <1>1, <3>2
  <2>4. Part(h, n + 1)
    BY <2>2, <2>3
  <2> HIDE DEF h, Part
  <2>5. QED
    BY <2>0, <2>4
<1>4. Cardinality(D) \in Good
  BY <1>1, <1>2, <1>3, NumberInduction
<1>5. Upto(Cardinality(D)) = SUBSET D
  BY FS_Subset
<1>6. QED
  BY <1>4, <1>5 DEF Adds

(* ... and the sum is its value for the whole domain. *)
LEMMA SumAdds ==
  ASSUME NEW f, IsFiniteSet(DOMAIN f)
  PROVE  \E g : Adds(g, f) /\ SumFunction(f) = g[DOMAIN f]
<1>1. PICK g : Adds(g, f)
  BY AddsExists
<1>2. SumFunction(f) = (CHOOSE h : Adds(h, f))[DOMAIN f]
  BY DEF SumFunction, SumFunctionOnSet, FoldFunctionOnSet, MapThenFoldSet, Adds, First
<1>3. Adds(CHOOSE h : Adds(h, f), f)
  BY <1>1
<1>4. QED
  BY <1>2, <1>3

(* One element is taken from a set that has any. *)
LEMMA AddsStep ==
  ASSUME NEW f, NEW g, Adds(g, f)
  PROVE  /\ g[{}] = 0
         /\ \A s \in SUBSET (DOMAIN f) :
              s # {} => First(s) \in s /\ g[s] = f[First(s)] + g[s \ {First(s)}]
<1>1. g[{}] = 0
  BY DEF Adds
<1>2. ASSUME NEW s \in SUBSET (DOMAIN f), s # {}
      PROVE  First(s) \in s /\ g[s] = f[First(s)] + g[s \ {First(s)}]
  <2>1. First(s) \in s
    BY <1>2 DEF First
  <2>2. g[s] = f[First(s)] + g[s \ {First(s)}]
    BY <1>2 DEF Adds
  <2>3. QED
    BY <2>1, <2>2
<1>3. QED
  BY <1>1, <1>2

(* The sum of natural numbers is one, none of them is above it, and if all   *)
(* are zero it is.                                                           *)
LEMMA SumNat ==
  ASSUME NEW D, IsFiniteSet(D), NEW f \in [D -> Nat]
  PROVE  /\ SumFunction(f) \in Nat
         /\ \A x \in D : f[x] <= SumFunction(f)
         /\ (\A x \in D : f[x] = 0) => SumFunction(f) = 0
<1>1. PICK g : Adds(g, f) /\ SumFunction(f) = g[D]
  BY SumAdds
<1> DEFINE Good == {s \in SUBSET D : /\ g[s] \in Nat
                                     /\ \A x \in s : f[x] <= g[s]
                                     /\ (\A x \in s : f[x] = 0) => g[s] = 0}
<1>2. {} \in Good
  BY <1>1, AddsStep
<1>3. ASSUME NEW T \in SUBSET D, \A x \in T : T \ {x} \in Good, T # {}
      PROVE  T \in Good
  <2>1. /\ First(T) \in T /\ f[First(T)] \in Nat
        /\ g[T] = f[First(T)] + g[T \ {First(T)}]
    BY <1>1, <1>3, AddsStep
  <2>2. /\ g[T \ {First(T)}] \in Nat
        /\ \A x \in T \ {First(T)} : f[x] \in Nat /\ f[x] <= g[T \ {First(T)}]
        /\ (\A x \in T \ {First(T)} : f[x] = 0) => g[T \ {First(T)}] = 0
    BY <1>3, <2>1
  <2>3. g[T] \in Nat /\ f[First(T)] <= g[T] /\ g[T \ {First(T)}] <= g[T]
    BY <2>1, <2>2
  <2>4. \A x \in T : f[x] <= g[T]
    BY <2>1, <2>2, <2>3
  <2>5. (\A x \in T : f[x] = 0) => g[T] = 0
    BY <2>1, <2>2
  <2>6. QED
    BY <2>3, <2>4, <2>5
<1>4. D \in Good
  <2> HIDE DEF Good
  <2>1. Good \in SUBSET SUBSET D
    BY DEF Good
  <2>2. \A T \in SUBSET D : (\A x \in T : T \ {x} \in Good) /\ T # {} => T \in Good
    BY <1>3
  <2>3. Good = SUBSET D
    BY <1>2, <2>1, <2>2, SetInduction, Zenon
  <2>4. QED
    BY <2>3
<1>5. QED
  BY <1>1, <1>4

(* The sum changes as much as the one number that changes. *)
LEMMA SumChange ==
  ASSUME NEW D, IsFiniteSet(D), NEW f \in [D -> Int], NEW e \in [D -> Int],
         NEW t \in D, \A x \in D \ {t} : e[x] = f[x]
  PROVE  /\ SumFunction(f) \in Int
         /\ SumFunction(e) = SumFunction(f) + (e[t] - f[t])
<1>1. PICK g : Adds(g, f) /\ SumFunction(f) = g[D]
  BY SumAdds
<1>2. PICK h : Adds(h, e) /\ SumFunction(e) = h[D]
  BY SumAdds
<1> DEFINE Good == {s \in SUBSET D :
                      g[s] \in Int /\ h[s] = IF t \in s THEN g[s] + (e[t] - f[t]) ELSE g[s]}
<1>3. {} \in Good
  BY <1>1, <1>2, AddsStep
<1>4. ASSUME NEW T \in SUBSET D, \A x \in T : T \ {x} \in Good, T # {}
      PROVE  T \in Good
  <2> DEFINE x == First(T)
             R == T \ {x}
  <2>1. x \in T /\ f[x] \in Int /\ e[x] \in Int /\ f[t] \in Int /\ e[t] \in Int
    BY <1>1, <1>4, AddsStep
  <2>2. g[T] = f[x] + g[R] /\ h[T] = e[x] + h[R]
    <3>1. g[T] = f[x] + g[R]
      BY <1>1, <1>4, AddsStep
    <3>2. h[T] = e[x] + h[R]
      BY <1>2, <1>4, AddsStep
    <3>3. QED
      BY <3>1, <3>2
  <2>3. g[R] \in Int /\ h[R] = IF t \in R THEN g[R] + (e[t] - f[t]) ELSE g[R]
    BY <1>4, <2>1
  <2> HIDE DEF x
  <2>4. CASE x = t
    BY <2>1, <2>2, <2>3, <2>4
  <2>5. CASE x # t
    <3>1. e[x] = f[x] /\ (t \in R <=> t \in T)
      BY <2>1, <2>5
    <3>2. QED
      BY <2>1, <2>2, <2>3, <3>1
  <2>6. QED
    BY <2>4, <2>5
<1>5. D \in Good
  <2> HIDE DEF Good
  <2>1. Good \in SUBSET SUBSET D
    BY DEF Good
  <2>2. \A T \in SUBSET D : (\A x \in T : T \ {x} \in Good) /\ T # {} => T \in Good
    BY <1>4
  <2>3. Good = SUBSET D
    BY <1>3, <2>1, <2>2, SetInduction, Zenon
  <2>4. QED
    BY <2>3
<1>6. QED
  BY <1>1, <1>2, <1>5

(* The sum of bounded numbers is the size of a set: a pair for each one that *)
(* is counted.                                                               *)
Pairs(f, D, N) == {c \in D \X (1..N) : c[2] <= f[c[1]]}

(* The pairs are as many as the sum says. *)
LEMMA SumIsSize ==
  ASSUME NEW D, IsFiniteSet(D), NEW N \in Nat, NEW f \in [D -> 0..N]
  PROVE  IsFiniteSet(Pairs(f, D, N)) /\ SumFunction(f) = Cardinality(Pairs(f, D, N))
<1>1. PICK g : Adds(g, f) /\ SumFunction(f) = g[D]
  BY SumAdds
<1> DEFINE Part(s) == Pairs(f, s, N)
           Good == {s \in SUBSET D : IsFiniteSet(Part(s)) /\ g[s] = Cardinality(Part(s))}
<1>2. {} \in Good
  <2>1. Part({}) = {}
    BY DEF Pairs
  <2>2. QED
    BY <1>1, <2>1, AddsStep, FS_EmptySet
<1>3. ASSUME NEW T \in SUBSET D, \A x \in T : T \ {x} \in Good, T # {}
      PROVE  T \in Good
  <2> DEFINE x == First(T)
             R == T \ {x}
             New == {x} \X (1..f[x])
  <2>1. x \in T /\ f[x] \in 0..N /\ g[T] = f[x] + g[R]
    BY <1>1, <1>3, AddsStep
  <2>2. IsFiniteSet(Part(R)) /\ g[R] = Cardinality(Part(R))
    BY <1>3, <2>1
  <2>3. IsFiniteSet(New) /\ Cardinality(New) = f[x]
    <3>1. IsFiniteSet(1..f[x]) /\ Cardinality(1..f[x]) = f[x]
      BY <2>1, FS_Interval
    <3>2. IsFiniteSet({x}) /\ Cardinality({x}) = 1
      BY FS_Singleton
    <3>3. IsFiniteSet(New) /\ Cardinality(New) = Cardinality({x}) * Cardinality(1..f[x])
      BY <3>1, <3>2, FS_Product
    <3>4. QED
      BY <2>1, <3>1, <3>2, <3>3
  <2> HIDE DEF x
  <2>4. Part(T) = Part(R) \cup New
    <3>1. ASSUME NEW c \in Part(T) PROVE c \in Part(R) \cup New
      BY <2>1 DEF Pairs
    <3>2. ASSUME NEW c \in New PROVE c \in Part(T)
      BY <2>1 DEF Pairs
    <3>3. Part(R) \subseteq Part(T)
      BY DEF Pairs
    <3>4. QED
      BY <3>1, <3>2, <3>3
  <2>5. Part(R) \cap New = {}
    BY DEF Pairs
  <2> HIDE DEF New, Part, R
  <2>6. /\ IsFiniteSet(Part(R) \cup New)
        /\ Cardinality(Part(R) \cup New)
             = Cardinality(Part(R)) + Cardinality(New) - Cardinality(Part(R) \cap New)
    BY <2>2, <2>3, FS_Union
  <2>7. Cardinality(Part(R) \cap New) = 0
    BY <2>5, FS_EmptySet
  <2>8. Cardinality(Part(R)) \in Nat /\ f[x] \in Nat
    BY <2>1, <2>2, FS_CardinalityType
  <2>9. Cardinality(Part(R) \cup New) = Cardinality(Part(R)) + f[x]
    BY <2>3, <2>6, <2>7, <2>8
  <2>10. IsFiniteSet(Part(T)) /\ Cardinality(Part(T)) = Cardinality(Part(R)) + f[x]
    BY <2>4, <2>6, <2>9
  <2>11. g[T] = Cardinality(Part(T))
    BY <2>1, <2>2, <2>8, <2>10
  <2> HIDE DEF Good
  <2>12. QED
    BY <2>10, <2>11 DEF Good
<1>4. D \in Good
  <2> HIDE DEF Good
  <2>1. Good \in SUBSET SUBSET D
    BY DEF Good
  <2>2. \A T \in SUBSET D : (\A x \in T : T \ {x} \in Good) /\ T # {} => T \in Good
    BY <1>3
  <2>3. Good = SUBSET D
    BY <1>2, <2>1, <2>2, SetInduction, Zenon
  <2>4. QED
    BY <2>3
<1>5. QED
  BY <1>1, <1>4
=============================================================================
