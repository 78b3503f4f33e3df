----------------------------- MODULE SumTheorems -----------------------------
(* Sums of counters: SumFunction(f) of the community modules is the sum of f[x]  *)
(* for every x in the domain of f.  They define it by recursion on the sets it   *)
(* runs over, so what it is for a set follows from what it is for smaller ones.  *)
EXTENDS Integers, FiniteSets, Functions, FiniteSetTheorems, TLAPS

(* Induction on the natural numbers, as a fact about sets: what no least number *)
(* has, none has.                                                              *)
LEMMA NoneIsLeast ==
  ASSUME NEW B \in SUBSET Nat, 0 \notin B, \A n \in Nat : n + 1 \in B => n \in B
  PROVE  B = {}
<1> SUFFICES ASSUME B # {} PROVE FALSE
  OBVIOUS
<1>1. PICK n \in B : \A k \in B : <<k, n>> \notin OpToRel(<, Nat)
  BY NatLessThanWellFounded, WFMin
<1>2. PICK k \in Nat : n = k + 1
  <2>1. n \in Nat /\ n # 0
    OBVIOUS
  <2>2. n - 1 \in Nat /\ n = (n - 1) + 1
    BY <2>1
  <2>3. QED  BY <2>2
<1>3. k \in B
  BY <1>2
<1>4. <<k, n>> \in OpToRel(<, Nat)
  BY <1>2, SMT DEF OpToRel
<1>5. QED  BY <1>1, <1>3, <1>4

\* g sums f over every set in D.
Pick(s) == CHOOSE x \in s : TRUE
Summed(f, D, g) ==
  g = [s \in D |-> IF s = {} THEN 0 ELSE f[Pick(s)] + g[s \ {Pick(s)}]]
SumFor(f) == CHOOSE g : Summed(f, SUBSET DOMAIN f, g)
UpTo(S, n) == {s \in SUBSET S : Cardinality(s) <= n}

LEMMA SumIs ==
  ASSUME NEW f
  PROVE  SumFunction(f) = SumFor(f)[DOMAIN f]
BY DEF SumFunction, SumFunctionOnSet, FoldFunctionOnSet, MapThenFoldSet, SumFor, Summed, Pick

LEMMA SubsetSizes ==
  ASSUME NEW S, IsFiniteSet(S)
  PROVE  /\ UpTo(S, 0) = {{}}
         /\ Cardinality(S) \in Nat /\ UpTo(S, Cardinality(S)) = SUBSET S
         /\ \A k \in Nat : UpTo(S, k) \subseteq UpTo(S, k + 1)
<1>1. \A s \in SUBSET S :
        /\ Cardinality(s) \in Nat /\ Cardinality(s) <= Cardinality(S)
        /\ Cardinality(s) = 0 <=> s = {}
  BY FS_Subset, FS_CardinalityType, FS_EmptySet
<1>2. Cardinality(S) \in Nat
  BY FS_CardinalityType
<1>3. \A s \in SUBSET S : Cardinality(s) <= 0 <=> s = {}
  BY <1>1
<1>4. QED  BY <1>1, <1>2, <1>3 DEF UpTo

LEMMA Picked ==
  ASSUME NEW S, IsFiniteSet(S), NEW n \in Nat, NEW s \in UpTo(S, n + 1), s # {}
  PROVE  Pick(s) \in s /\ Pick(s) \in S /\ s \ {Pick(s)} \in UpTo(S, n)
<1>1. Pick(s) \in s
  BY DEF Pick
<1>2. s \in SUBSET S /\ IsFiniteSet(s) /\ Cardinality(s) \in Nat /\ Cardinality(s) <= n + 1
  BY FS_Subset, FS_CardinalityType DEF UpTo
<1>3. Cardinality(s \ {Pick(s)}) = Cardinality(s) - 1
  BY <1>1, <1>2, FS_RemoveElement
<1>4. QED  BY <1>1, <1>2, <1>3 DEF UpTo

(* The recursion has a solution on the sets of n elements at most, for every n. *)
LEMMA SumsExist ==
  ASSUME NEW f, IsFiniteSet(DOMAIN f), NEW n \in Nat
  PROVE  \E g : Summed(f, UpTo(DOMAIN f, n), g)
<1> DEFINE S == DOMAIN f
           Bad == {k \in Nat : ~ \E g : Summed(f, UpTo(S, k), g)}
<1>1. 0 \notin Bad
  <2>1. Summed(f, UpTo(S, 0), [s \in {{}} |-> 0])
    BY SubsetSizes DEF Summed
  <2>2. QED  BY <2>1
<1>2. ASSUME NEW k \in Nat, k \notin Bad PROVE k + 1 \notin Bad
  <2>1. PICK g : Summed(f, UpTo(S, k), g)
    BY <1>2
  <2> DEFINE h == [s \in UpTo(S, k + 1) |->
                     IF s = {} THEN 0 ELSE f[Pick(s)] + g[s \ {Pick(s)}]]
  <2>2. \A s \in UpTo(S, k) : h[s] = g[s]
    BY <2>1, SubsetSizes DEF Summed
  <2>3. \A s \in UpTo(S, k + 1) : s # {} => s \ {Pick(s)} \in UpTo(S, k)
    BY Picked
  <2>4. Summed(f, UpTo(S, k + 1), h)
    BY <2>2, <2>3 DEF Summed
  <2>5. QED  BY <2>4
<1> HIDE DEF Bad
<1>3. Bad \in SUBSET Nat
  BY DEF Bad
<1>4. Bad = {}
  BY <1>1, <1>2, <1>3, NoneIsLeast
<1>5. QED  BY <1>4 DEF Bad

LEMMA SumRec ==
  ASSUME NEW f, IsFiniteSet(DOMAIN f)
  PROVE  Summed(f, SUBSET DOMAIN f, SumFor(f))
<1>1. \E g : Summed(f, UpTo(DOMAIN f, Cardinality(DOMAIN f)), g)
  BY SubsetSizes, SumsExist
<1>2. UpTo(DOMAIN f, Cardinality(DOMAIN f)) = SUBSET DOMAIN f
  BY SubsetSizes
<1>3. \E g : Summed(f, SUBSET DOMAIN f, g)
  BY <1>1, <1>2, Zenon
<1>4. QED  BY <1>3, Zenon DEF SumFor

(* Two families of numbers that differ in one place at most: so do their sums,  *)
(* by as much.                                                                  *)
LEMMA SumChanges ==
  ASSUME NEW S, IsFiniteSet(S), NEW f \in [S -> Nat], NEW e \in [S -> Nat], NEW m \in S,
         \A x \in S : x # m => e[x] = f[x]
  PROVE  /\ SumFunction(f) \in Nat /\ SumFunction(e) \in Nat
         /\ SumFunction(e) + f[m] = SumFunction(f) + e[m]
         /\ f[m] <= SumFunction(f)
<1> DEFINE g == SumFor(f)
           h == SumFor(e)
           Was(s) == IF m \in s THEN f[m] ELSE 0
           Is(s) == IF m \in s THEN e[m] ELSE 0
           Differ(s) == /\ g[s] \in Nat /\ h[s] \in Nat
                        /\ h[s] + Was(s) = g[s] + Is(s)
                        /\ Was(s) <= g[s]
           Bad == {k \in Nat : \E s \in UpTo(S, k) : ~ Differ(s)}
<1>0. DOMAIN f = S /\ DOMAIN e = S
  OBVIOUS
<1>1. Summed(f, SUBSET S, g) /\ Summed(e, SUBSET S, h)
  BY <1>0, SumRec
<1> HIDE DEF g, h
<1>2. Differ({})
  <2>1. g[{}] = 0 /\ h[{}] = 0
    BY <1>1 DEF Summed
  <2>2. QED  BY <2>1
<1> HIDE DEF Differ
<1>3. 0 \notin Bad
  BY <1>2, SubsetSizes
<1>4. ASSUME NEW k \in Nat, k \notin Bad PROVE k + 1 \notin Bad
  <2> SUFFICES ASSUME NEW s \in UpTo(S, k + 1), s # {} PROVE Differ(s)
    BY <1>2
  <2> DEFINE p == Pick(s)
             t == s \ {p}
  <2>1. p \in s /\ p \in S /\ t \in UpTo(S, k) /\ s \in SUBSET S
    BY Picked DEF UpTo
  <2>2. Differ(t)
    BY <1>4, <2>1
  <2>3. g[s] = f[p] + g[t] /\ h[s] = e[p] + h[t]
    BY <1>1, <2>1 DEF Summed
  <2> HIDE DEF p
  <2>4. CASE p = m
    <3>1. Was(s) = f[m] /\ Is(s) = e[m] /\ Was(t) = 0 /\ Is(t) = 0
      BY <2>1, <2>4
    <3>2. f[m] \in Nat /\ e[m] \in Nat
      OBVIOUS
    <3> HIDE DEF Was, Is, t
    <3>3. QED  BY <2>2, <2>3, <2>4, <3>1, <3>2 DEF Differ
  <2>5. CASE p # m
    <3>1. Was(s) = Was(t) /\ Is(s) = Is(t) /\ e[p] = f[p] /\ f[p] \in Nat
      BY <2>1, <2>5
    <3>2. Was(t) \in Nat /\ Is(t) \in Nat
      OBVIOUS
    <3> HIDE DEF Was, Is, t
    <3>3. QED  BY <2>2, <2>3, <3>1, <3>2 DEF Differ
  <2>6. QED  BY <2>4, <2>5
<1> HIDE DEF Bad
<1>5. Bad \in SUBSET Nat
  BY DEF Bad
<1>6. Bad = {}
  BY <1>3, <1>4, <1>5, NoneIsLeast
<1>7. Differ(S)
  BY <1>6, SubsetSizes DEF Bad
<1>8. Was(S) = f[m] /\ Is(S) = e[m]
  OBVIOUS
<1> HIDE DEF Was, Is
<1>9. QED  BY <1>0, <1>7, <1>8, SumIs DEF g, h, Differ

(* The sum of nothing. *)
LEMMA SumOfZeros ==
  ASSUME NEW f, IsFiniteSet(DOMAIN f), \A x \in DOMAIN f : f[x] = 0
  PROVE  SumFunction(f) = 0
<1> DEFINE S == DOMAIN f
           g == SumFor(f)
           Bad == {k \in Nat : \E s \in UpTo(S, k) : g[s] # 0}
<1>1. Summed(f, SUBSET S, g)
  BY SumRec
<1> HIDE DEF g
<1>2. g[{}] = 0
  BY <1>1 DEF Summed
<1>3. 0 \notin Bad
  BY <1>2, SubsetSizes
<1>4. ASSUME NEW k \in Nat, k \notin Bad PROVE k + 1 \notin Bad
  <2> SUFFICES ASSUME NEW s \in UpTo(S, k + 1), s # {} PROVE g[s] = 0
    BY <1>2
  <2>1. Pick(s) \in S /\ s \ {Pick(s)} \in UpTo(S, k) /\ s \in SUBSET S
    BY Picked DEF UpTo
  <2>2. g[s \ {Pick(s)}] = 0
    BY <1>4, <2>1
  <2>3. g[s] = f[Pick(s)] + g[s \ {Pick(s)}]
    BY <1>1, <2>1 DEF Summed
  <2>4. QED  BY <2>1, <2>2, <2>3
<1> HIDE DEF Bad
<1>5. Bad \in SUBSET Nat
  BY DEF Bad
<1>6. Bad = {}
  BY <1>3, <1>4, <1>5, NoneIsLeast
<1>7. g[S] = 0
  BY <1>6, SubsetSizes DEF Bad
<1>8. QED  BY <1>7, SumIs DEF g

(* A sum of natural numbers is one. *)
LEMMA SumType ==
  ASSUME NEW S, IsFiniteSet(S), NEW f \in [S -> Nat]
  PROVE  SumFunction(f) \in Nat
<1>1. CASE S = {}
  <2>1. SumFunction(f) = 0
    BY <1>1, SumOfZeros
  <2>2. QED  BY <2>1
<1>2. CASE S # {}
  BY <1>2, SumChanges
<1>3. QED  BY <1>1, <1>2
=============================================================================
