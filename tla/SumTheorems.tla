---------------------------- MODULE SumTheorems -----------------------------
(***************************************************************************)
(* What a sum over a finite set is: the facts about SumFunctionOnSet that  *)
(* the tiers' totals rest on.                                              *)
(*                                                                         *)
(* The sum is defined by a recursive function over the subsets of the set, *)
(* which picks an element at a time.  That there is such a function, that  *)
(* there is one only and what it adds up to is shown by induction on the   *)
(* size of a subset, in the form of a smallest counterexample: a set B of  *)
(* subsets that violate a claim has a member of which no subset with one   *)
(* element less is in B (MinimalSubset), and that one does not violate it. *)
(***************************************************************************)
EXTENDS Integers, Functions, FiniteSets, FiniteSetTheorems, WellFoundedInduction, TLAPS

LEMMA MinimalSubset ==
  ASSUME NEW S, IsFiniteSet(S), NEW B \in SUBSET SUBSET S, B # {}
  PROVE  \E T \in B : IsFiniteSet(T) /\ \A y \in T : T \ {y} \notin B
<1>1. \A T \in B : IsFiniteSet(T) /\ Cardinality(T) \in Nat
  BY FS_Subset, FS_CardinalityType
<1>2. PICK R : R = OpToRel(<, Nat)
  OBVIOUS
<1>3. \A x, y \in Nat : x < y => <<x, y>> \in R
  BY <1>2 DEF OpToRel
<1>4. PICK N : N = {Cardinality(T) : T \in B}
  OBVIOUS
<1>5. PICK n \in N : \A m \in N : ~ (<<m, n>> \in R)
  <2>1. N \in SUBSET Nat /\ N # {}
    BY <1>1, <1>4
  <2> QED  BY <1>2, <2>1, NatLessThanWellFounded, WFMin
<1>6. PICK T \in B : n = Cardinality(T)
  BY <1>4, <1>5
<1>7. ASSUME NEW y \in T, T \ {y} \in B PROVE FALSE
  <2>1. Cardinality(T \ {y}) = Cardinality(T) - 1
    BY <1>1, FS_RemoveElement
  <2>2. Cardinality(T \ {y}) \in N /\ Cardinality(T \ {y}) \in Nat /\ Cardinality(T) \in Nat
    BY <1>1, <1>4, <1>7
  <2>3. PICK m : m = Cardinality(T \ {y}) /\ m \in N /\ m \in Nat /\ n \in Nat /\ m < n
    BY <1>6, <2>1, <2>2
  <2> QED  BY <1>3, <1>5, <2>3
<1> QED  BY <1>1, <1>7

----------------------------------------------------------------------------
(* The recursive function behind the sum *)

Pick(s) == CHOOSE x \in s : TRUE
IsIter(g, fun, S) ==
  g = [s \in SUBSET S |-> IF s = {} THEN 0 ELSE fun[Pick(s)] + g[s \ {Pick(s)}]]
Iter(fun, S) == CHOOSE g : IsIter(g, fun, S)

LEMMA Unfold ==
  ASSUME NEW fun, NEW S
  PROVE  SumFunctionOnSet(fun, S) = Iter(fun, S)[S]
BY DEF SumFunctionOnSet, FoldFunctionOnSet, MapThenFoldSet, Iter, IsIter, Pick

LEMMA PickMember ==
  ASSUME NEW s, s # {}
  PROVE  Pick(s) \in s
BY DEF Pick

LEMMA Iterates ==
  ASSUME NEW g, NEW fun, NEW S, IsIter(g, fun, S), NEW s \in SUBSET S
  PROVE  g[s] = IF s = {} THEN 0 ELSE fun[Pick(s)] + g[s \ {Pick(s)}]
BY Zenon DEF IsIter

(* Two of them agree where both are defined.                                *)
LEMMA IterUnique ==
  ASSUME NEW fun, NEW S, NEW T, IsFiniteSet(T), T \subseteq S,
         NEW g, IsIter(g, fun, S), NEW h, IsIter(h, fun, T)
  PROVE  g[T] = h[T]
<1>1. PICK B : B = {U \in SUBSET T : g[U] # h[U]}
  OBVIOUS
<1>2. SUFFICES ASSUME B # {} PROVE FALSE
  BY <1>1
<1>3. PICK U \in B : \A y \in U : U \ {y} \notin B
  BY <1>1, <1>2, MinimalSubset
<1>4. /\ g[U] = IF U = {} THEN 0 ELSE fun[Pick(U)] + g[U \ {Pick(U)}]
      /\ h[U] = IF U = {} THEN 0 ELSE fun[Pick(U)] + h[U \ {Pick(U)}]
  <2>1. U \in SUBSET S /\ U \in SUBSET T
    BY <1>1, <1>3
  <2> QED  BY <2>1, Iterates
<1>5. U # {} /\ Pick(U) \in U
  BY <1>1, <1>3, <1>4, PickMember
<1>6. g[U \ {Pick(U)}] = h[U \ {Pick(U)}]
  BY <1>1, <1>3, <1>5
<1> QED  BY <1>1, <1>3, <1>4, <1>5, <1>6

(* Where there is such a function, there is one for each subset.            *)
LEMMA IterRestricts ==
  ASSUME NEW fun, NEW S, NEW T, NEW g, IsIter(g, fun, S), T \subseteq S
  PROVE  IsIter([s \in SUBSET T |-> g[s]], fun, T)
<1>1. PICK h : h = [s \in SUBSET T |-> g[s]]
  OBVIOUS
<1>2. ASSUME NEW s \in SUBSET T
      PROVE  h[s] = IF s = {} THEN 0 ELSE fun[Pick(s)] + h[s \ {Pick(s)}]
  <2>1. g[s] = IF s = {} THEN 0 ELSE fun[Pick(s)] + g[s \ {Pick(s)}]
    BY Iterates
  <2>2. h[s] = g[s] /\ h[s \ {Pick(s)}] = g[s \ {Pick(s)}]
    BY <1>1
  <2> QED  BY <2>1, <2>2
<1>3. h = [s \in SUBSET T |-> IF s = {} THEN 0 ELSE fun[Pick(s)] + h[s \ {Pick(s)}]]
  BY <1>1, <1>2
<1> QED  BY <1>1, <1>3 DEF IsIter

LEMMA IterChosen ==
  ASSUME NEW fun, NEW S, NEW g, IsIter(g, fun, S)
  PROVE  IsIter(Iter(fun, S), fun, S)
BY Zenon DEF Iter

LEMMA SumOfIter ==
  ASSUME NEW fun, NEW S, IsFiniteSet(S), NEW g, IsIter(g, fun, S), NEW T \in SUBSET S
  PROVE  SumFunctionOnSet(fun, T) = g[T]
<1>1. IsIter(Iter(fun, T), fun, T)
  BY IterRestricts, IterChosen
<1> QED  BY <1>1, IterUnique, Unfold, FS_Subset

(* There is one: on a smallest set without it, the sums of the proper       *)
(* subsets, which have one, and what they make of the set would be one.     *)
LEMMA IterExists ==
  ASSUME NEW fun, NEW S, IsFiniteSet(S)
  PROVE  \E g : IsIter(g, fun, S)
<1>1. PICK B : B = {T \in SUBSET S : ~ \E g : IsIter(g, fun, T)}
  OBVIOUS
<1>2. SUFFICES ASSUME B # {} PROVE FALSE
  BY <1>1
<1>3. PICK T \in B : IsFiniteSet(T) /\ \A y \in T : T \ {y} \notin B
  BY <1>1, <1>2, MinimalSubset
<1>4. ASSUME NEW s \in SUBSET T, s # T
      PROVE  SumFunctionOnSet(fun, s)
               = IF s = {} THEN 0 ELSE fun[Pick(s)] + SumFunctionOnSet(fun, s \ {Pick(s)})
  <2>1. PICK y \in T : y \notin s
    BY <1>4
  <2>2. T \ {y} \in SUBSET S /\ T \ {y} \notin B /\ s \in SUBSET (T \ {y}) /\ IsFiniteSet(T \ {y})
    BY <1>1, <1>3, <2>1, FS_Subset
  <2>3. PICK g : IsIter(g, fun, T \ {y})
    BY <1>1, <2>2
  <2>4. SumFunctionOnSet(fun, s) = g[s]
    BY <2>2, <2>3, SumOfIter
  <2>5. SumFunctionOnSet(fun, s \ {Pick(s)}) = g[s \ {Pick(s)}]
    BY <2>2, <2>3, SumOfIter
  <2> QED  BY <2>2, <2>3, <2>4, <2>5, Iterates
<1>5. PICK top : top = IF T = {} THEN 0 ELSE fun[Pick(T)] + SumFunctionOnSet(fun, T \ {Pick(T)})
  OBVIOUS
<1>6. PICK h : h = [s \in SUBSET T |-> IF s = T THEN top ELSE SumFunctionOnSet(fun, s)]
  OBVIOUS
<1>7. ASSUME NEW s \in SUBSET T
      PROVE  h[s] = IF s = {} THEN 0 ELSE fun[Pick(s)] + h[s \ {Pick(s)}]
  <2>1. s # {} => s \ {Pick(s)} # T /\ s \ {Pick(s)} \in SUBSET T
    BY PickMember
  <2> QED  BY <1>4, <1>5, <1>6, <2>1
<1>8. IsIter(h, fun, T)
  BY <1>6, <1>7 DEF IsIter
<1> QED  BY <1>1, <1>3, <1>8

----------------------------------------------------------------------------
(* Sums *)

LEMMA SumStep ==
  ASSUME NEW fun, NEW S, IsFiniteSet(S)
  PROVE  SumFunctionOnSet(fun, S)
           = IF S = {} THEN 0 ELSE fun[Pick(S)] + SumFunctionOnSet(fun, S \ {Pick(S)})
<1>1. PICK g : IsIter(g, fun, S)
  BY IterExists
<1>2. SumFunctionOnSet(fun, S) = g[S] /\ SumFunctionOnSet(fun, S \ {Pick(S)}) = g[S \ {Pick(S)}]
  BY <1>1, SumOfIter
<1> QED  BY <1>1, <1>2, Iterates

LEMMA SumEmpty ==
  ASSUME NEW fun
  PROVE  SumFunctionOnSet(fun, {}) = 0
BY SumStep, FS_EmptySet

LEMMA SumOfZeros ==
  ASSUME NEW fun, NEW S, IsFiniteSet(S), \A x \in S : fun[x] = 0
  PROVE  SumFunctionOnSet(fun, S) = 0
<1>1. PICK B : B = {T \in SUBSET S : SumFunctionOnSet(fun, T) # 0}
  OBVIOUS
<1>2. SUFFICES ASSUME B # {} PROVE FALSE
  BY <1>1
<1>3. PICK T \in B : IsFiniteSet(T) /\ \A y \in T : T \ {y} \notin B
  BY <1>1, <1>2, MinimalSubset
<1>4. SumFunctionOnSet(fun, T)
        = IF T = {} THEN 0 ELSE fun[Pick(T)] + SumFunctionOnSet(fun, T \ {Pick(T)})
  BY <1>3, SumStep
<1>5. T # {} /\ Pick(T) \in T
  BY <1>1, <1>3, <1>4, PickMember
<1>6. SumFunctionOnSet(fun, T \ {Pick(T)}) = 0 /\ fun[Pick(T)] = 0
  BY <1>1, <1>3, <1>5
<1> QED  BY <1>1, <1>3, <1>4, <1>5, <1>6

LEMMA SumInNat ==
  ASSUME NEW fun, NEW S, IsFiniteSet(S), \A x \in S : fun[x] \in Nat
  PROVE  SumFunctionOnSet(fun, S) \in Nat
<1>1. PICK B : B = {T \in SUBSET S : SumFunctionOnSet(fun, T) \notin Nat}
  OBVIOUS
<1>2. SUFFICES ASSUME B # {} PROVE FALSE
  BY <1>1
<1>3. PICK T \in B : IsFiniteSet(T) /\ \A y \in T : T \ {y} \notin B
  BY <1>1, <1>2, MinimalSubset
<1>4. SumFunctionOnSet(fun, T)
        = IF T = {} THEN 0 ELSE fun[Pick(T)] + SumFunctionOnSet(fun, T \ {Pick(T)})
  BY <1>3, SumStep
<1>5. T # {} /\ Pick(T) \in T
  BY <1>1, <1>3, <1>4, PickMember
<1>6. SumFunctionOnSet(fun, T \ {Pick(T)}) \in Nat /\ fun[Pick(T)] \in Nat
  BY <1>1, <1>3, <1>5
<1> QED  BY <1>1, <1>3, <1>4, <1>5, <1>6

(* The order in which elements are picked does not matter.                  *)
LEMMA SumRemove ==
  ASSUME NEW fun, NEW S, IsFiniteSet(S), \A x \in S : fun[x] \in Nat, NEW x \in S
  PROVE  SumFunctionOnSet(fun, S) = fun[x] + SumFunctionOnSet(fun, S \ {x})
<1>1. PICK B : B = {T \in SUBSET S : \E y \in T : SumFunctionOnSet(fun, T)
                                          # fun[y] + SumFunctionOnSet(fun, T \ {y})}
  OBVIOUS
<1>2. SUFFICES ASSUME B # {} PROVE FALSE
  BY <1>1
<1>3. PICK T \in B : IsFiniteSet(T) /\ \A y \in T : T \ {y} \notin B
  BY <1>1, <1>2, MinimalSubset
<1>4. PICK y \in T : SumFunctionOnSet(fun, T) # fun[y] + SumFunctionOnSet(fun, T \ {y})
  BY <1>1, <1>3
<1>5. PICK p : p = Pick(T) /\ p \in T
  BY <1>4, PickMember
<1>6. SumFunctionOnSet(fun, T) = fun[p] + SumFunctionOnSet(fun, T \ {p})
  BY <1>3, <1>5, SumStep
<1>7. p # y
  BY <1>4, <1>6
<1>8. SumFunctionOnSet(fun, T \ {p}) = fun[y] + SumFunctionOnSet(fun, (T \ {p}) \ {y})
  BY <1>1, <1>3, <1>5, <1>7
<1>9. SumFunctionOnSet(fun, T \ {y}) = fun[p] + SumFunctionOnSet(fun, (T \ {y}) \ {p})
  BY <1>1, <1>3, <1>5, <1>7
<1>10. (T \ {p}) \ {y} = (T \ {y}) \ {p}
  OBVIOUS
<1>11. PICK rest \in Nat, a \in Nat, b \in Nat :
         rest = SumFunctionOnSet(fun, (T \ {y}) \ {p}) /\ a = fun[p] /\ b = fun[y]
  <2>1. IsFiniteSet((T \ {y}) \ {p}) /\ \A z \in (T \ {y}) \ {p} : fun[z] \in Nat
    BY <1>1, <1>3, FS_Subset
  <2>2. SumFunctionOnSet(fun, (T \ {y}) \ {p}) \in Nat
    BY <2>1, SumInNat
  <2> QED  BY <1>1, <1>3, <1>5, <2>2
<1>12. SumFunctionOnSet(fun, T) = a + (b + rest) /\ SumFunctionOnSet(fun, T \ {y}) = a + rest
  BY <1>6, <1>8, <1>9, <1>10, <1>11
<1> QED  BY <1>4, <1>11, <1>12

LEMMA SumAdd ==
  ASSUME NEW fun, NEW S, IsFiniteSet(S), NEW x, x \notin S, \A y \in S \cup {x} : fun[y] \in Nat
  PROVE  SumFunctionOnSet(fun, S \cup {x}) = SumFunctionOnSet(fun, S) + fun[x]
<1>1. (S \cup {x}) \ {x} = S /\ IsFiniteSet(S \cup {x})
  BY FS_AddElement
<1>2. SumFunctionOnSet(fun, S \cup {x}) = fun[x] + SumFunctionOnSet(fun, (S \cup {x}) \ {x})
  BY <1>1, SumRemove
<1>3. SumFunctionOnSet(fun, S) \in Nat /\ fun[x] \in Nat
  BY SumInNat
<1> QED  BY <1>1, <1>2, <1>3

(* A sum with one element that counts.                                      *)
LEMMA SumOfOne ==
  ASSUME NEW fun, NEW S, IsFiniteSet(S), NEW x \in S, fun[x] \in Nat,
         \A y \in S : y # x => fun[y] = 0
  PROVE  SumFunctionOnSet(fun, S) = fun[x]
<1>1. \A y \in S : fun[y] \in Nat
  OBVIOUS
<1>2. SumFunctionOnSet(fun, S) = fun[x] + SumFunctionOnSet(fun, S \ {x})
  BY <1>1, SumRemove
<1>3. IsFiniteSet(S \ {x}) /\ \A y \in S \ {x} : fun[y] = 0
  BY FS_Subset
<1>4. SumFunctionOnSet(fun, S \ {x}) = 0
  BY <1>3, SumOfZeros
<1> QED  BY <1>2, <1>4

LEMMA SumSame ==
  ASSUME NEW f, NEW g, NEW S, IsFiniteSet(S), \A x \in S : f[x] = g[x]
  PROVE  SumFunctionOnSet(f, S) = SumFunctionOnSet(g, S)
<1>1. PICK B : B = {T \in SUBSET S : SumFunctionOnSet(f, T) # SumFunctionOnSet(g, T)}
  OBVIOUS
<1>2. SUFFICES ASSUME B # {} PROVE FALSE
  BY <1>1
<1>3. PICK T \in B : IsFiniteSet(T) /\ \A y \in T : T \ {y} \notin B
  BY <1>1, <1>2, MinimalSubset
<1>4. /\ SumFunctionOnSet(f, T)
           = IF T = {} THEN 0 ELSE f[Pick(T)] + SumFunctionOnSet(f, T \ {Pick(T)})
      /\ SumFunctionOnSet(g, T)
           = IF T = {} THEN 0 ELSE g[Pick(T)] + SumFunctionOnSet(g, T \ {Pick(T)})
  BY <1>3, SumStep
<1>5. T # {} /\ Pick(T) \in T
  BY <1>1, <1>3, <1>4, PickMember
<1>6. SumFunctionOnSet(f, T \ {Pick(T)}) = SumFunctionOnSet(g, T \ {Pick(T)})
      /\ f[Pick(T)] = g[Pick(T)]
  BY <1>1, <1>3, <1>5
<1> QED  BY <1>1, <1>3, <1>4, <1>5, <1>6

LEMMA SumUnion ==
  ASSUME NEW fun, NEW S, NEW T, IsFiniteSet(S), IsFiniteSet(T), S \cap T = {},
         \A x \in S \cup T : fun[x] \in Nat
  PROVE  SumFunctionOnSet(fun, S \cup T) = SumFunctionOnSet(fun, S) + SumFunctionOnSet(fun, T)
<1>1. PICK B : B = {U \in SUBSET T : SumFunctionOnSet(fun, S \cup U)
                                       # SumFunctionOnSet(fun, S) + SumFunctionOnSet(fun, U)}
  OBVIOUS
<1>2. SUFFICES ASSUME B # {} PROVE FALSE
  BY <1>1
<1>3. PICK U \in B : IsFiniteSet(U) /\ \A y \in U : U \ {y} \notin B
  <2>1. B \in SUBSET SUBSET T
    BY <1>1
  <2> QED  BY <1>2, <2>1, MinimalSubset
<1>4. SumFunctionOnSet(fun, S) \in Nat
  BY SumInNat
<1>5. CASE U = {}
  <2>1. S \cup U = S
    BY <1>5
  <2> QED  BY <1>1, <1>3, <1>4, <1>5, <2>1, SumEmpty
<1>6. CASE U # {}
  <2>1. PICK y \in U : TRUE
    BY <1>6
  <2>2. PICK V : V = U \ {y} /\ IsFiniteSet(V) /\ V \in SUBSET T /\ V \notin B
    <3>1. U \in SUBSET T /\ U \ {y} \in SUBSET T /\ U \ {y} \notin B
      BY <1>1, <1>3, <2>1
    <3>2. IsFiniteSet(U \ {y})
      BY <1>3, FS_Subset
    <3> QED  BY <3>1, <3>2
  <2>3. /\ y \notin V /\ y \notin S /\ U = V \cup {y} /\ S \cup U = (S \cup V) \cup {y}
        /\ IsFiniteSet(S \cup V) /\ fun[y] \in Nat
    BY <1>1, <1>3, <2>1, <2>2, FS_Union
  <2>4. SumFunctionOnSet(fun, U) = SumFunctionOnSet(fun, V) + fun[y]
    BY <2>2, <2>3, SumAdd
  <2>5. SumFunctionOnSet(fun, S \cup U) = SumFunctionOnSet(fun, S \cup V) + fun[y]
    BY <2>2, <2>3, SumAdd
  <2>6. SumFunctionOnSet(fun, S \cup V) = SumFunctionOnSet(fun, S) + SumFunctionOnSet(fun, V)
    BY <1>1, <2>2
  <2>7. SumFunctionOnSet(fun, V) \in Nat
    BY <2>2, SumInNat
  <2> QED  BY <1>1, <1>3, <1>4, <2>3, <2>4, <2>5, <2>6, <2>7
<1> QED  BY <1>5, <1>6

LEMMA SumSubset ==
  ASSUME NEW fun, NEW S, IsFiniteSet(S), \A x \in S : fun[x] \in Nat, NEW T \in SUBSET S
  PROVE  SumFunctionOnSet(fun, T) <= SumFunctionOnSet(fun, S)
<1>1. IsFiniteSet(T) /\ IsFiniteSet(S \ T) /\ S = T \cup (S \ T)
  BY FS_Subset
<1>2. SumFunctionOnSet(fun, S) = SumFunctionOnSet(fun, T) + SumFunctionOnSet(fun, S \ T)
  BY <1>1, SumUnion
<1>3. SumFunctionOnSet(fun, T) \in Nat /\ SumFunctionOnSet(fun, S \ T) \in Nat
  BY <1>1, SumInNat
<1> QED  BY <1>2, <1>3

(* A cardinality is a sum of ones.                                          *)
LEMMA CardinalityIsSum ==
  ASSUME NEW fun, NEW S, IsFiniteSet(S), \A x \in S : fun[x] = 1
  PROVE  SumFunctionOnSet(fun, S) = Cardinality(S)
<1>1. PICK B : B = {T \in SUBSET S : SumFunctionOnSet(fun, T) # Cardinality(T)}
  OBVIOUS
<1>2. SUFFICES ASSUME B # {} PROVE FALSE
  BY <1>1
<1>3. PICK T \in B : IsFiniteSet(T) /\ \A y \in T : T \ {y} \notin B
  BY <1>1, <1>2, MinimalSubset
<1>4. T # {}
  BY <1>1, <1>3, SumEmpty, FS_EmptySet
<1>5. PICK y \in T : TRUE
  BY <1>4
<1>6. SumFunctionOnSet(fun, T) = fun[y] + SumFunctionOnSet(fun, T \ {y}) /\ fun[y] = 1
  BY <1>1, <1>3, <1>5, SumRemove
<1>7. SumFunctionOnSet(fun, T \ {y}) = Cardinality(T \ {y})
  BY <1>1, <1>3, <1>5
<1>8. Cardinality(T \ {y}) = Cardinality(T) - 1 /\ Cardinality(T) \in Nat
  BY <1>3, <1>5, FS_RemoveElement, FS_CardinalityType
<1> QED  BY <1>1, <1>3, <1>6, <1>7, <1>8

(* The elements whose key is k, and those whose key is in K.                *)
Part(F, key, k)  == {x \in F : key[x] = k}
Parts(F, key, K) == {x \in F : key[x] \in K}

(* The sums of the parts, one for each value of key, make the sum of all.   *)
LEMMA SumOfParts ==
  ASSUME NEW fun, NEW F, IsFiniteSet(F), \A x \in F : fun[x] \in Nat, NEW key,
         NEW K, IsFiniteSet(K), NEW part,
         \A k \in K : part[k] = SumFunctionOnSet(fun, Part(F, key, k))
  PROVE  SumFunctionOnSet(part, K) = SumFunctionOnSet(fun, Parts(F, key, K))
<1>1. PICK B : B = {L \in SUBSET K :
                      SumFunctionOnSet(part, L)
                        # SumFunctionOnSet(fun, Parts(F, key, L))}
  OBVIOUS
<1>2. SUFFICES ASSUME B # {} PROVE FALSE
  BY <1>1
<1>3. PICK L \in B : IsFiniteSet(L) /\ \A y \in L : L \ {y} \notin B
  BY <1>1, <1>2, MinimalSubset
<1>4. L # {}
  <2>1. SUFFICES ASSUME L = {} PROVE FALSE
    OBVIOUS
  <2>2. Parts(F, key, L) = {}
    BY <2>1 DEF Parts
  <2> QED  BY <1>1, <1>3, <2>1, <2>2, SumEmpty
<1>5. PICK k \in L : TRUE
  BY <1>4
<1>6. \A j \in K : part[j] \in Nat
  <2>1. ASSUME NEW j \in K PROVE part[j] \in Nat
    <3>1. IsFiniteSet(Part(F, key, j)) /\ Part(F, key, j) \subseteq F
      BY FS_Subset DEF Part
    <3> QED  BY <3>1, SumInNat
  <2> QED  BY <2>1
<1>7. SumFunctionOnSet(part, L) = part[k] + SumFunctionOnSet(part, L \ {k})
  BY <1>1, <1>3, <1>5, <1>6, SumRemove
<1>8. PICK P, Q : P = Part(F, key, k) /\ Q = Parts(F, key, L \ {k})
  OBVIOUS
<1>9. IsFiniteSet(P) /\ IsFiniteSet(Q) /\ P \cap Q = {} /\ Parts(F, key, L) = P \cup Q
      /\ P \cup Q \subseteq F
  BY <1>5, <1>8, FS_Subset DEF Part, Parts
<1>10. SumFunctionOnSet(fun, P \cup Q) = SumFunctionOnSet(fun, P) + SumFunctionOnSet(fun, Q)
  BY <1>8, <1>9, SumUnion
<1>11. SumFunctionOnSet(part, L \ {k}) = SumFunctionOnSet(fun, Q)
  BY <1>1, <1>3, <1>5, <1>8
<1>12. part[k] = SumFunctionOnSet(fun, P)
  BY <1>1, <1>3, <1>5, <1>8
<1> QED  BY <1>1, <1>3, <1>7, <1>9, <1>10, <1>11, <1>12

(* So do the sizes of the parts.                                            *)
LEMMA CountOfParts ==
  ASSUME NEW F, IsFiniteSet(F), NEW key, NEW K, IsFiniteSet(K), NEW part,
         \A k \in K : part[k] = Cardinality(Part(F, key, k))
  PROVE  SumFunctionOnSet(part, K) = Cardinality(Parts(F, key, K))
<1>1. PICK one : one = [x \in F |-> 1]
  OBVIOUS
<1>2. ASSUME NEW G \in SUBSET F PROVE SumFunctionOnSet(one, G) = Cardinality(G)
  <2>1. IsFiniteSet(G) /\ \A x \in G : one[x] = 1
    BY <1>1, FS_Subset
  <2> QED  BY <2>1, CardinalityIsSum
<1>3. \A k \in K : part[k] = SumFunctionOnSet(one, Part(F, key, k))
  BY <1>2 DEF Part
<1>4. \A x \in F : one[x] \in Nat
  BY <1>1
<1>5. SumFunctionOnSet(part, K) = SumFunctionOnSet(one, Parts(F, key, K))
  BY <1>3, <1>4, SumOfParts
<1> QED  BY <1>2, <1>5 DEF Parts

(* A sum may be taken over the images of another set's elements.            *)
LEMMA SumOfImages ==
  ASSUME NEW fun, NEW T, IsFiniteSet(T), NEW image, NEW other,
         \A t, u \in T : image[t] = image[u] => t = u,
         \A t \in T : other[t] = fun[image[t]] /\ other[t] \in Nat
  PROVE  SumFunctionOnSet(other, T) = SumFunctionOnSet(fun, {image[t] : t \in T})
<1>1. PICK B : B = {U \in SUBSET T : SumFunctionOnSet(other, U)
                                       # SumFunctionOnSet(fun, {image[t] : t \in U})}
  OBVIOUS
<1>2. SUFFICES ASSUME B # {} PROVE FALSE
  BY <1>1
<1>3. PICK U \in B : IsFiniteSet(U) /\ \A y \in U : U \ {y} \notin B
  BY <1>1, <1>2, MinimalSubset
<1>4. U # {}
  <2>1. SUFFICES ASSUME U = {} PROVE FALSE
    OBVIOUS
  <2>2. {image[t] : t \in U} = {}
    BY <2>1
  <2> QED  BY <1>1, <1>3, <2>1, <2>2, SumEmpty
<1>5. PICK y \in U : TRUE
  BY <1>4
<1>6. SumFunctionOnSet(other, U) = other[y] + SumFunctionOnSet(other, U \ {y})
  BY <1>1, <1>3, <1>5, SumRemove
<1>7. PICK I, J : I = {image[t] : t \in U} /\ J = {image[t] : t \in U \ {y}}
  OBVIOUS
<1>8. IsFiniteSet(I) /\ image[y] \in I /\ J = I \ {image[y]} /\ \A x \in I : fun[x] \in Nat
  <2>1. IsFiniteSet(I)
    <3>1. [t \in U |-> image[t]] \in Surjection(U, I)
      BY <1>7 DEF Surjection
    <3> QED  BY <1>3, <3>1, FS_Surjection
  <2>2. U \in SUBSET T
    BY <1>1, <1>3
  <2> QED  BY <1>5, <1>7, <2>1, <2>2
<1>9. SumFunctionOnSet(fun, I) = fun[image[y]] + SumFunctionOnSet(fun, J)
  BY <1>8, SumRemove
<1>10. SumFunctionOnSet(other, U \ {y}) = SumFunctionOnSet(fun, J)
  BY <1>1, <1>3, <1>5, <1>7
<1>11. other[y] = fun[image[y]]
  BY <1>1, <1>3, <1>5
<1> QED  BY <1>1, <1>3, <1>6, <1>7, <1>9, <1>10, <1>11

(* Among others when the set of the images goes by a name.                  *)
LEMMA SumMoved ==
  ASSUME NEW f, NEW h, NEW shift, NEW J, NEW T, IsFiniteSet(J),
         \A i, k \in J : shift[i] = shift[k] => i = k,
         \A i \in J : h[i] = f[shift[i]] /\ h[i] \in Nat,
         T = {shift[i] : i \in J}
  PROVE  SumFunctionOnSet(h, J) = SumFunctionOnSet(f, T)
BY SumOfImages

(* An element that joins a sum with one, or of which the sum counts one     *)
(* more.                                                                    *)
LEMMA SumOneMore ==
  ASSUME NEW f, NEW g, NEW S, IsFiniteSet(S), \A y \in S : f[y] \in Nat, NEW x,
         \A y \in S : y # x => g[y] = f[y],
         g[x] = (IF x \in S THEN f[x] ELSE 0) + 1
  PROVE  SumFunctionOnSet(g, S \cup {x}) = SumFunctionOnSet(f, S) + 1
<1>1. PICK R, T : R = S \ {x} /\ T = S \cup {x}
  OBVIOUS
<1>2. IsFiniteSet(R) /\ IsFiniteSet(T) /\ x \in T /\ T \ {x} = R
  BY <1>1, FS_Subset, FS_AddElement
<1>3. (\A y \in T : g[y] \in Nat) /\ \A y \in R : f[y] \in Nat
  BY <1>1
<1>4. SumFunctionOnSet(g, T) = g[x] + SumFunctionOnSet(g, R)
  BY <1>2, <1>3, SumRemove
<1>5. SumFunctionOnSet(g, R) = SumFunctionOnSet(f, R)
  BY <1>1, <1>2, SumSame
<1>6. SumFunctionOnSet(f, R) \in Nat
  BY <1>2, <1>3, SumInNat
<1>7. CASE x \in S
  <2>1. SumFunctionOnSet(f, S) = f[x] + SumFunctionOnSet(f, R)
    BY <1>1, <1>7, SumRemove
  <2> QED  BY <1>1, <1>4, <1>5, <1>6, <1>7, <2>1
<1>8. CASE x \notin S
  <2>1. R = S /\ g[x] = 1
    BY <1>1, <1>8
  <2> QED  BY <1>1, <1>4, <1>5, <1>6, <2>1
<1> QED  BY <1>7, <1>8

----------------------------------------------------------------------------
(* Ranks *)

(* Different elements that have numbers up to the size of their set have    *)
(* all of them.                                                             *)
LEMMA NumbersAreAll ==
  ASSUME NEW S, IsFiniteSet(S), NEW f \in [S -> 1 .. Cardinality(S)],
         \A x, y \in S : f[x] = f[y] => x = y
  PROVE  \A k \in 1 .. Cardinality(S) : \E x \in S : f[x] = k
<1>1. PICK n, T : n = Cardinality(S) /\ n \in Nat /\ T = 1 .. n
  BY FS_CardinalityType
<1>2. IsFiniteSet(T) /\ Cardinality(T) = n
  BY <1>1, FS_Interval
<1>3. f \in Injection(S, T)
  BY <1>1 DEF Injection, IsInjective
<1>4. f \in Surjection(S, T)
  BY <1>1, <1>2, <1>3, FS_Injection
<1> QED  BY <1>1, <1>4 DEF Surjection

(* How many elements are up to one: a number of its own for each.           *)
Rank(S, x) == Cardinality({y \in S : y <= x})

LEMMA RankGrows ==
  ASSUME NEW S \in SUBSET Int, IsFiniteSet(S), NEW x \in Int, NEW y \in S, x < y
  PROVE  Rank(S, x) < Rank(S, y)
<1>1. PICK X, Y : X = {z \in S : z <= x} /\ Y = {z \in S : z <= y}
  OBVIOUS
<1>2. X \subseteq Y /\ y \in Y /\ y \notin X /\ Y \subseteq S
  <2>1. y \in Int /\ \A z \in S : z \in Int
    OBVIOUS
  <2>2. \A z \in S : z <= x => z <= y
    BY <2>1
  <2>3. y <= y /\ ~(y <= x)
    BY <2>1
  <2> QED  BY <1>1, <2>2, <2>3
<1>3. IsFiniteSet(Y)
  BY <1>2, FS_Subset
<1>4. Cardinality(X) <= Cardinality(Y) /\ Cardinality(X) # Cardinality(Y)
  BY <1>2, <1>3, FS_Subset
<1>5. Cardinality(X) \in Nat /\ Cardinality(Y) \in Nat
  BY <1>2, <1>3, FS_Subset, FS_CardinalityType
<1> QED  BY <1>1, <1>4, <1>5 DEF Rank

LEMMA RankIsNumber ==
  ASSUME NEW S \in SUBSET Int, IsFiniteSet(S), NEW x \in Int
  PROVE  Rank(S, x) \in 0 .. Cardinality(S) /\ (x \in S => Rank(S, x) \in 1 .. Cardinality(S))
<1>1. PICK X : X = {z \in S : z <= x} /\ X \subseteq S
  OBVIOUS
<1>2. /\ IsFiniteSet(X) /\ Cardinality(X) <= Cardinality(S)
      /\ Cardinality(X) \in Nat /\ Cardinality(S) \in Nat
  BY <1>1, FS_Subset, FS_CardinalityType
<1>3. x \in S => Cardinality(X) # 0
  BY <1>1, <1>2, FS_EmptySet
<1> QED  BY <1>1, <1>2, <1>3 DEF Rank

LEMMA RankIsOwn ==
  ASSUME NEW S \in SUBSET Int, IsFiniteSet(S), NEW x \in S, NEW y \in S, Rank(S, x) = Rank(S, y)
  PROVE  x = y
<1>1. x \in Int /\ y \in Int /\ Rank(S, x) \in Int /\ Rank(S, y) \in Int
  BY RankIsNumber
<1>2. ~(x < y) /\ ~(y < x)
  BY <1>1, RankGrows
<1> QED  BY <1>1, <1>2

LEMMA RanksAreAll ==
  ASSUME NEW S \in SUBSET Int, IsFiniteSet(S), NEW k \in 1 .. Cardinality(S)
  PROVE  \E x \in S : Rank(S, x) = k
<1>1. PICK f : f = [x \in S |-> Rank(S, x)]
  OBVIOUS
<1>2. \A x \in S : Rank(S, x) \in 1 .. Cardinality(S)
  BY RankIsNumber
<1>3. f \in [S -> 1 .. Cardinality(S)]
  BY <1>1, <1>2
<1>4. \A x, y \in S : f[x] = f[y] => x = y
  BY <1>1, RankIsOwn
<1>5. \E x \in S : f[x] = k
  BY <1>3, <1>4, NumbersAreAll
<1> QED  BY <1>1, <1>5
=============================================================================
