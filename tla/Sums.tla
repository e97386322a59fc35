---------------------------------- MODULE Sums ---------------------------------
(***************************************************************************)
(* Facts about SumFunctionOnSet(f, S), the sum of f[x] for the x of a      *)
(* finite set S.  The money of the books and the capacity of an event are  *)
(* such sums.                                                              *)
(*                                                                         *)
(* The community modules define a sum by a recursive function on the       *)
(* subsets of S.  That this function exists, and what it computes, is      *)
(* shown here by induction: strict inclusion is well founded on the        *)
(* subsets of a finite set (FS_StrictSubsetOrderingWellFounded), so that   *)
(* a non-empty set of counterexamples has a smallest one.  Stated for sets *)
(* of subsets in place of predicates, this needs no higher-order step.     *)
(***************************************************************************)
EXTENDS Integers, Functions, FiniteSetTheorems, TLAPS

(* The element that the fold of a set begins with.                         *)
Pick(s) == CHOOSE x \in s : TRUE

(* g computes the sum of every subset of T.                                *)
Adds(f, T, g) ==
    g = [s \in SUBSET T |-> IF s = {} THEN 0 ELSE f[Pick(s)] + g[s \ {Pick(s)}]]

--------------------------------------------------------------------------------

(* A non-empty set of subsets of a finite set has one with no other of     *)
(* them inside.                                                            *)
LEMMA Smallest ==
    ASSUME NEW S, IsFiniteSet(S), NEW B \in SUBSET (SUBSET S), B # {}
    PROVE \E T \in B : \A U \in B : U \subseteq T => U = T
<1>1. IsWellFoundedOn(StrictSubsetOrdering(S), SUBSET S)
  BY FS_StrictSubsetOrderingWellFounded, FS_FiniteSubsetsOfFinite
<1>2. PICK T \in B : \A U \in B : ~ (<<U, T>> \in StrictSubsetOrdering(S))
  BY <1>1, WFMin
<1>3. ASSUME NEW U \in B, U \subseteq T, U # T PROVE FALSE
  BY <1>2, <1>3 DEF StrictSubsetOrdering
<1> QED BY <1>2, <1>3

(* Induction on the subsets of a finite set: a set of subsets that has the *)
(* empty one, and every subset that it has without its first element, has  *)
(* all of S.                                                               *)
LEMMA SubsetInduction ==
    ASSUME NEW S, IsFiniteSet(S), NEW G, {} \in G,
           \A T \in SUBSET S : T # {} /\ T \ {Pick(T)} \in G => T \in G
    PROVE S \in G
<1> DEFINE B == {T \in SUBSET S : T \notin G}
<1>1. SUFFICES ASSUME B # {} PROVE FALSE
  OBVIOUS
<1>2. B \in SUBSET (SUBSET S)
  OBVIOUS
<1> HIDE DEF B
<1>3. PICK T \in B : \A U \in B : U \subseteq T => U = T
  BY <1>1, <1>2, Smallest
<1>4. T # {}
  BY <1>3 DEF B
<1>5. T \ {Pick(T)} \notin B /\ T \ {Pick(T)} \in SUBSET S
  BY <1>3, <1>4 DEF Pick, B
<1> QED BY <1>3, <1>4, <1>5 DEF B

(* The definition of a sum, unfolded.                                      *)
LEMMA Unfold ==
    ASSUME NEW f, NEW S
    PROVE SumFunctionOnSet(f, S) = (CHOOSE g : Adds(f, S, g))[S]
BY DEF SumFunctionOnSet, FoldFunctionOnSet, MapThenFoldSet, Adds, Pick

(* Two functions that compute sums agree where both are defined.           *)
LEMMA Agree ==
    ASSUME NEW f, NEW T, IsFiniteSet(T), NEW U \in SUBSET T, NEW g, NEW h,
           Adds(f, T, g), Adds(f, U, h)
    PROVE \A s \in SUBSET U : g[s] = h[s]
<1> DEFINE B == {s \in SUBSET U : g[s] # h[s]}
<1>1. SUFFICES ASSUME B # {} PROVE FALSE
  OBVIOUS
<1>2. IsFiniteSet(U) /\ B \in SUBSET (SUBSET U)
  BY FS_Subset
<1> HIDE DEF B
<1>3. PICK s \in B : \A r \in B : r \subseteq s => r = s
  BY <1>1, <1>2, Smallest
<1>4. s \in SUBSET U /\ s \in SUBSET T /\ g[s] # h[s]
  BY <1>3 DEF B
<1>5. s # {}
  BY <1>4 DEF Adds
<1>6. Pick(s) \in s /\ s \ {Pick(s)} \in SUBSET U /\ s \ {Pick(s)} \in SUBSET T
  BY <1>4, <1>5 DEF Pick
<1>7. g[s \ {Pick(s)}] = h[s \ {Pick(s)}]
  BY <1>3, <1>6 DEF B
<1>8. g[s] = f[Pick(s)] + g[s \ {Pick(s)}] /\ h[s] = f[Pick(s)] + h[s \ {Pick(s)}]
  BY <1>4, <1>5, <1>6 DEF Adds
<1> QED BY <1>4, <1>7, <1>8

(* The recursive function of the definition exists.                        *)
LEMMA SumExists ==
    ASSUME NEW f, NEW S, IsFiniteSet(S)
    PROVE \E g : Adds(f, S, g)
<1> DEFINE Part(s) == CHOOSE g : Adds(f, s, g)
           B == {T \in SUBSET S : ~ \E g : Adds(f, T, g)}
<1>1. SUFFICES ASSUME B # {} PROVE FALSE
  OBVIOUS
<1>0. B \in SUBSET (SUBSET S)
  OBVIOUS
<1> HIDE DEF B
<1>2. PICK T \in B : \A U \in B : U \subseteq T => U = T
  BY <1>1, <1>0, Smallest
<1> USE DEF B
<1>3. \A s \in SUBSET T : s # T => Adds(f, s, Part(s))
  BY <1>2
<1>4. \A s \in SUBSET T : s # {} => Pick(s) \in s /\ s \ {Pick(s)} \in SUBSET s /\ s \ {Pick(s)} # T
  BY DEF Pick
<1> DEFINE g == [s \in SUBSET T |-> IF s = {} THEN 0 ELSE
                    IF s = T THEN f[Pick(T)] + Part(T \ {Pick(T)})[T \ {Pick(T)}]
                    ELSE Part(s)[s]]
<1>5. ASSUME NEW s \in SUBSET T, s # T
      PROVE g[s] = Part(s)[s]
  <2>1. CASE s = {}
    <3>1. Adds(f, s, Part(s))
      BY <1>3, <1>5
    <3> HIDE DEF Part
    <3>2. Part(s)[s] = 0
      BY <3>1, <2>1 DEF Adds
    <3> QED BY <2>1, <3>2
  <2>2. CASE s # {}
    BY <1>5, <2>2
  <2> QED BY <2>1, <2>2
<1>6. ASSUME NEW s \in SUBSET T, s # {}
      PROVE g[s] = f[Pick(s)] + g[s \ {Pick(s)}]
  <2> DEFINE r == s \ {Pick(s)}
  <2>1. r \in SUBSET T /\ r \in SUBSET s /\ r # T /\ g[r] = Part(r)[r]
    BY <1>4, <1>5, <1>6
  <2>2. CASE s = T
    <3>1. g[s] = f[Pick(s)] + Part(r)[r]
      BY <1>6, <2>2
    <3> QED BY <2>1, <3>1
  <2>3. CASE s # T
    <3>1. Adds(f, s, Part(s)) /\ Adds(f, r, Part(r)) /\ IsFiniteSet(s)
      BY <1>2, <1>3, <2>1, <2>3, FS_Subset
    <3>2. Part(s)[s] = f[Pick(s)] + Part(s)[r]
      BY <3>1, <1>6, <2>1 DEF Adds
    <3>3. Part(s)[r] = Part(r)[r]
      BY <3>1, <2>1, Agree
    <3>4. g[s] = Part(s)[s]
      BY <1>5, <2>3
    <3> QED BY <2>1, <3>2, <3>3, <3>4
  <2> QED BY <2>2, <2>3
<1>7. g[{}] = 0
  BY <1>2
<1> HIDE DEF g
<1>8. g = [s \in SUBSET T |-> IF s = {} THEN 0 ELSE f[Pick(s)] + g[s \ {Pick(s)}]]
  <2>1. g = [s \in SUBSET T |-> g[s]]
    BY DEF g
  <2> QED BY <2>1, <1>6, <1>7
<1> QED BY <1>2, <1>8 DEF Adds

(* It computes the sum of every subset.                                    *)
LEMMA SumIsAdded ==
    ASSUME NEW f, NEW S, IsFiniteSet(S), NEW g, Adds(f, S, g)
    PROVE \A T \in SUBSET S : SumFunctionOnSet(f, T) = g[T]
<1> SUFFICES ASSUME NEW T \in SUBSET S PROVE SumFunctionOnSet(f, T) = g[T]
  OBVIOUS
<1>1. IsFiniteSet(T)
  BY FS_Subset
<1>2. PICK k : Adds(f, T, k) /\ SumFunctionOnSet(f, T) = k[T]
  BY <1>1, SumExists, Unfold
<1>3. T \in SUBSET T
  OBVIOUS
<1>4. g[T] = k[T]
  BY <1>2, <1>3, Agree
<1> QED BY <1>2, <1>4

--------------------------------------------------------------------------------

(* The sum of nothing is 0.                                                *)
THEOREM SumOfNone ==
    ASSUME NEW f
    PROVE SumFunctionOnSet(f, {}) = 0
<1>1. PICK g : Adds(f, {}, g)
  BY SumExists, FS_EmptySet
<1>2. SumFunctionOnSet(f, {}) = g[{}]
  BY <1>1, SumIsAdded, FS_EmptySet
<1> QED BY <1>1, <1>2 DEF Adds

(* The recursion itself: the first element and the sum of the others.      *)
LEMMA SumOfPick ==
    ASSUME NEW f, NEW S, IsFiniteSet(S), S # {}
    PROVE SumFunctionOnSet(f, S) = f[Pick(S)] + SumFunctionOnSet(f, S \ {Pick(S)})
<1>1. PICK g : Adds(f, S, g)
  BY SumExists
<1>2. SumFunctionOnSet(f, S) = g[S] /\ SumFunctionOnSet(f, S \ {Pick(S)}) = g[S \ {Pick(S)}]
  BY <1>1, SumIsAdded
<1> QED BY <1>1, <1>2 DEF Adds

(* A sum of integers is an integer.                                        *)
THEOREM SumIsInt ==
    ASSUME NEW S, IsFiniteSet(S), NEW f, \A x \in S : f[x] \in Int
    PROVE SumFunctionOnSet(f, S) \in Int
<1> DEFINE G == {T \in SUBSET S : SumFunctionOnSet(f, T) \in Int}
<1>1. {} \in G
  BY SumOfNone
<1>2. ASSUME NEW T \in SUBSET S, T # {}, T \ {Pick(T)} \in G
      PROVE T \in G
  <2>1. Pick(T) \in T /\ IsFiniteSet(T) /\ f[Pick(T)] \in Int
    BY <1>2, FS_Subset DEF Pick
  <2>2. SumFunctionOnSet(f, T) = f[Pick(T)] + SumFunctionOnSet(f, T \ {Pick(T)})
    BY <1>2, <2>1, SumOfPick
  <2> QED BY <1>2, <2>1, <2>2
<1> HIDE DEF G
<1>3. S \in G
  BY <1>1, <1>2, SubsetInduction
<1> QED BY <1>3 DEF G

(* Any element may be taken out first: addition does not depend on the     *)
(* order of the fold.                                                      *)
THEOREM SumTakesOut ==
    ASSUME NEW S, IsFiniteSet(S), NEW f, \A x \in S : f[x] \in Int, NEW a \in S
    PROVE SumFunctionOnSet(f, S) = f[a] + SumFunctionOnSet(f, S \ {a})
<1> DEFINE Sum(T) == SumFunctionOnSet(f, T)
           B == {T \in SUBSET S : \E x \in T : Sum(T) # f[x] + Sum(T \ {x})}
<1>1. SUFFICES ASSUME B # {} PROVE FALSE
  OBVIOUS
<1>0. B \in SUBSET (SUBSET S)
  OBVIOUS
<1> HIDE DEF B
<1>2. PICK T \in B : \A U \in B : U \subseteq T => U = T
  BY <1>1, <1>0, Smallest
<1> USE DEF B
<1>3. PICK x \in T : Sum(T) # f[x] + Sum(T \ {x})
  BY <1>2
<1> DEFINE p == Pick(T)
<1>4. p \in T /\ T # {} /\ T \in SUBSET S
  BY <1>2, <1>3 DEF Pick
<1>5. IsFiniteSet(T) /\ IsFiniteSet((T \ {p}) \ {x}) /\ IsFiniteSet(T \ {x})
  BY <1>2, <1>4, FS_Subset
<1>6. Sum(T) = f[p] + Sum(T \ {p})
  BY <1>4, <1>5, SumOfPick
<1>7. x # p
  BY <1>3, <1>6
<1>8. x \in T \ {p} /\ T \ {p} \notin B /\ p \in T \ {x} /\ T \ {x} \notin B
  BY <1>2, <1>3, <1>4, <1>7
<1>9. Sum(T \ {p}) = f[x] + Sum((T \ {p}) \ {x}) /\ Sum(T \ {x}) = f[p] + Sum((T \ {x}) \ {p})
  BY <1>4, <1>8
<1>10. (T \ {p}) \ {x} = (T \ {x}) \ {p}
  OBVIOUS
<1>11. Sum((T \ {p}) \ {x}) \in Int /\ f[x] \in Int /\ f[p] \in Int
  BY <1>3, <1>4, <1>5, SumIsInt
<1> HIDE DEF Sum, p
<1> QED BY <1>3, <1>6, <1>9, <1>10, <1>11

(* One element more.                                                       *)
THEOREM SumAdds ==
    ASSUME NEW S, IsFiniteSet(S), NEW a, a \notin S,
           NEW f, \A x \in S \cup {a} : f[x] \in Int
    PROVE SumFunctionOnSet(f, S \cup {a}) = f[a] + SumFunctionOnSet(f, S)
<1>1. IsFiniteSet(S \cup {a}) /\ (S \cup {a}) \ {a} = S
  BY FS_AddElement
<1>2. SumFunctionOnSet(f, S \cup {a}) = f[a] + SumFunctionOnSet(f, (S \cup {a}) \ {a})
  BY <1>1, SumTakesOut
<1> QED BY <1>1, <1>2

(* A sum depends on the values on the set only.                            *)
THEOREM SumSame ==
    ASSUME NEW S, IsFiniteSet(S), NEW f, NEW g, \A x \in S : f[x] = g[x]
    PROVE SumFunctionOnSet(f, S) = SumFunctionOnSet(g, S)
<1> DEFINE G == {T \in SUBSET S : SumFunctionOnSet(f, T) = SumFunctionOnSet(g, T)}
<1>1. {} \in G
  BY SumOfNone
<1>2. ASSUME NEW T \in SUBSET S, T # {}, T \ {Pick(T)} \in G
      PROVE T \in G
  <2>1. Pick(T) \in T /\ IsFiniteSet(T) /\ f[Pick(T)] = g[Pick(T)]
    BY <1>2, FS_Subset DEF Pick
  <2>2. /\ SumFunctionOnSet(f, T) = f[Pick(T)] + SumFunctionOnSet(f, T \ {Pick(T)})
        /\ SumFunctionOnSet(g, T) = g[Pick(T)] + SumFunctionOnSet(g, T \ {Pick(T)})
    BY <1>2, <2>1, SumOfPick
  <2> QED BY <1>2, <2>1, <2>2
<1> HIDE DEF G
<1>3. S \in G
  BY <1>1, <1>2, SubsetInduction
<1> QED BY <1>3 DEF G

(* The sum of two functions is the sum of their sums.                      *)
THEOREM SumOfSums ==
    ASSUME NEW S, IsFiniteSet(S), NEW f, NEW g, NEW h,
           \A x \in S : f[x] \in Int /\ g[x] \in Int /\ h[x] = f[x] + g[x]
    PROVE SumFunctionOnSet(h, S) = SumFunctionOnSet(f, S) + SumFunctionOnSet(g, S)
<1> DEFINE G == {T \in SUBSET S : SumFunctionOnSet(h, T) = SumFunctionOnSet(f, T) + SumFunctionOnSet(g, T)}
<1>1. {} \in G
  <2>1. \A k : SumFunctionOnSet(k, {}) = 0
    BY SumOfNone
  <2>2. SumFunctionOnSet(h, {}) = SumFunctionOnSet(f, {}) + SumFunctionOnSet(g, {})
    BY <2>1
  <2> QED BY <2>2
<1>2. ASSUME NEW T \in SUBSET S, T # {}, T \ {Pick(T)} \in G
      PROVE T \in G
  <2> DEFINE p == Pick(T)
             U == T \ {p}
  <2>1. p \in S /\ IsFiniteSet(T) /\ IsFiniteSet(U) /\ f[p] \in Int /\ g[p] \in Int /\ h[p] = f[p] + g[p]
    BY <1>2, FS_Subset DEF Pick
  <2>2. /\ SumFunctionOnSet(h, T) = h[p] + SumFunctionOnSet(h, U)
        /\ SumFunctionOnSet(f, T) = f[p] + SumFunctionOnSet(f, U)
        /\ SumFunctionOnSet(g, T) = g[p] + SumFunctionOnSet(g, U)
    BY <1>2, <2>1, SumOfPick
  <2>3. SumFunctionOnSet(f, U) \in Int /\ SumFunctionOnSet(g, U) \in Int
    BY <2>1, SumIsInt
  <2>4. SumFunctionOnSet(h, U) = SumFunctionOnSet(f, U) + SumFunctionOnSet(g, U)
    BY <1>2
  <2> HIDE DEF p, U
  <2>5. SumFunctionOnSet(h, T) = SumFunctionOnSet(f, T) + SumFunctionOnSet(g, T)
    BY <2>1, <2>2, <2>3, <2>4
  <2> QED BY <2>5
<1> HIDE DEF G
<1>3. S \in G
  BY <1>1, <1>2, SubsetInduction
<1> QED BY <1>3 DEF G

(* Smaller values, smaller sum.                                            *)
THEOREM SumAtMost ==
    ASSUME NEW S, IsFiniteSet(S), NEW f, NEW g,
           \A x \in S : f[x] \in Int /\ g[x] \in Int /\ f[x] <= g[x]
    PROVE SumFunctionOnSet(f, S) <= SumFunctionOnSet(g, S)
<1> DEFINE G == {T \in SUBSET S : SumFunctionOnSet(f, T) <= SumFunctionOnSet(g, T)}
<1>1. {} \in G
  <2>1. \A k : SumFunctionOnSet(k, {}) = 0
    BY SumOfNone
  <2>2. SumFunctionOnSet(f, {}) <= SumFunctionOnSet(g, {})
    BY <2>1
  <2> QED BY <2>2
<1>2. ASSUME NEW T \in SUBSET S, T # {}, T \ {Pick(T)} \in G
      PROVE T \in G
  <2> DEFINE p == Pick(T)
             U == T \ {p}
  <2>1. p \in S /\ IsFiniteSet(T) /\ IsFiniteSet(U) /\ f[p] \in Int /\ g[p] \in Int /\ f[p] <= g[p]
    BY <1>2, FS_Subset DEF Pick
  <2>2. /\ SumFunctionOnSet(f, T) = f[p] + SumFunctionOnSet(f, U)
        /\ SumFunctionOnSet(g, T) = g[p] + SumFunctionOnSet(g, U)
    BY <1>2, <2>1, SumOfPick
  <2>3. SumFunctionOnSet(f, U) \in Int /\ SumFunctionOnSet(g, U) \in Int
    BY <2>1, SumIsInt
  <2>4. SumFunctionOnSet(f, U) <= SumFunctionOnSet(g, U)
    BY <1>2
  <2> HIDE DEF p, U
  <2>5. SumFunctionOnSet(f, T) <= SumFunctionOnSet(g, T)
    BY <2>1, <2>2, <2>3, <2>4
  <2> QED BY <2>5
<1> HIDE DEF G
<1>3. S \in G
  BY <1>1, <1>2, SubsetInduction
<1> QED BY <1>3 DEF G

(* A sum of zeros is 0.                                                    *)
THEOREM SumOfZeros ==
    ASSUME NEW S, IsFiniteSet(S), NEW f, \A x \in S : f[x] = 0
    PROVE SumFunctionOnSet(f, S) = 0
<1> DEFINE G == {T \in SUBSET S : SumFunctionOnSet(f, T) = 0}
<1>1. {} \in G
  BY SumOfNone
<1>2. ASSUME NEW T \in SUBSET S, T # {}, T \ {Pick(T)} \in G
      PROVE T \in G
  <2>1. Pick(T) \in T /\ IsFiniteSet(T) /\ f[Pick(T)] = 0
    BY <1>2, FS_Subset DEF Pick
  <2>2. SumFunctionOnSet(f, T) = f[Pick(T)] + SumFunctionOnSet(f, T \ {Pick(T)})
    BY <1>2, <2>1, SumOfPick
  <2> QED BY <1>2, <2>1, <2>2
<1> HIDE DEF G
<1>3. S \in G
  BY <1>1, <1>2, SubsetInduction
<1> QED BY <1>3 DEF G

(* A sum of natural numbers is one.                                        *)
THEOREM SumIsNat ==
    ASSUME NEW S, IsFiniteSet(S), NEW f, \A x \in S : f[x] \in Nat
    PROVE SumFunctionOnSet(f, S) \in Nat
<1> DEFINE z == [x \in S |-> 0]
<1>1. SumFunctionOnSet(z, S) = 0
  BY SumOfZeros
<1>2. SumFunctionOnSet(z, S) <= SumFunctionOnSet(f, S)
  BY SumAtMost
<1>3. SumFunctionOnSet(f, S) \in Int
  BY SumIsInt
<1> QED BY <1>1, <1>2, <1>3

(* When one value changes, the sum changes by the difference.              *)
THEOREM SumChanges ==
    ASSUME NEW S, IsFiniteSet(S), NEW a \in S, NEW f, NEW g,
           \A x \in S : f[x] \in Int /\ g[x] \in Int,
           \A x \in S \ {a} : g[x] = f[x]
    PROVE SumFunctionOnSet(g, S) = SumFunctionOnSet(f, S) - f[a] + g[a]
<1>1. IsFiniteSet(S \ {a})
  BY FS_Subset
<1>2. /\ SumFunctionOnSet(f, S) = f[a] + SumFunctionOnSet(f, S \ {a})
      /\ SumFunctionOnSet(g, S) = g[a] + SumFunctionOnSet(g, S \ {a})
  BY SumTakesOut
<1>3. SumFunctionOnSet(g, S \ {a}) = SumFunctionOnSet(f, S \ {a})
  BY <1>1, SumSame
<1>4. SumFunctionOnSet(f, S \ {a}) \in Int
  BY <1>1, SumIsInt
<1> QED BY <1>2, <1>3, <1>4

(* The values outside a part may count as 0.                               *)
THEOREM SumOfPart ==
    ASSUME NEW S, IsFiniteSet(S), NEW P \in SUBSET S, NEW f, NEW g,
           \A x \in S : f[x] \in Int,
           \A x \in S : g[x] = IF x \in P THEN f[x] ELSE 0
    PROVE SumFunctionOnSet(g, S) = SumFunctionOnSet(f, P)
<1> DEFINE G == {T \in SUBSET S : SumFunctionOnSet(g, T) = SumFunctionOnSet(f, T \cap P)}
<1>1. {} \in G
  <2>1. {} \cap P = {} /\ SumFunctionOnSet(g, {}) = 0 /\ SumFunctionOnSet(f, {}) = 0
    BY SumOfNone
  <2> QED BY <2>1
<1>2. ASSUME NEW T \in SUBSET S, T # {}, T \ {Pick(T)} \in G
      PROVE T \in G
  <2> DEFINE p == Pick(T)
  <2>1. p \in T /\ p \in S /\ IsFiniteSet(T) /\ IsFiniteSet(T \cap P)
    BY <1>2, FS_Subset DEF Pick
  <2>2. SumFunctionOnSet(g, T) = g[p] + SumFunctionOnSet(g, T \ {p})
    BY <1>2, <2>1, SumOfPick
  <2>3. SumFunctionOnSet(g, T \ {p}) = SumFunctionOnSet(f, (T \ {p}) \cap P)
    BY <1>2
  <2>4. CASE p \in P
    <3>1. (T \ {p}) \cap P = (T \cap P) \ {p} /\ p \in T \cap P
      BY <2>1, <2>4
    <3>2. SumFunctionOnSet(f, T \cap P) = f[p] + SumFunctionOnSet(f, (T \cap P) \ {p})
      BY <2>1, <3>1, SumTakesOut
    <3> QED BY <2>1, <2>2, <2>3, <2>4, <3>1, <3>2
  <2>5. CASE p \notin P
    <3>1. (T \ {p}) \cap P = T \cap P
      BY <2>5
    <3>2. SumFunctionOnSet(f, T \cap P) \in Int
      BY <2>1, SumIsInt
    <3> QED BY <2>1, <2>2, <2>3, <2>5, <3>1, <3>2
  <2> QED BY <2>4, <2>5
<1> HIDE DEF G
<1>3. S \in G
  BY <1>1, <1>2, SubsetInduction
<1>4. S \cap P = P
  OBVIOUS
<1> QED BY <1>3, <1>4 DEF G

(* A sum of n values that are at most k is at most n * k.                  *)
THEOREM SumWithin ==
    ASSUME NEW S, IsFiniteSet(S), NEW k \in Nat, NEW f, \A x \in S : f[x] \in Int /\ f[x] <= k
    PROVE SumFunctionOnSet(f, S) <= Cardinality(S) * k
<1> DEFINE G == {T \in SUBSET S : SumFunctionOnSet(f, T) <= Cardinality(T) * k}
<1>1. {} \in G
  <2>1. SumFunctionOnSet(f, {}) = 0 /\ Cardinality({}) = 0
    BY SumOfNone, FS_EmptySet
  <2> QED BY <2>1
<1>2. ASSUME NEW T \in SUBSET S, T # {}, T \ {Pick(T)} \in G
      PROVE T \in G
  <2> DEFINE p == Pick(T)
             U == T \ {p}
  <2>1. p \in S /\ p \in T /\ IsFiniteSet(T) /\ IsFiniteSet(U) /\ f[p] \in Int /\ f[p] <= k
    BY <1>2, FS_Subset DEF Pick
  <2>2. SumFunctionOnSet(f, T) = f[p] + SumFunctionOnSet(f, U)
    BY <1>2, <2>1, SumOfPick
  <2>3. SumFunctionOnSet(f, U) \in Int
    BY <2>1, SumIsInt
  <2>4. SumFunctionOnSet(f, U) <= Cardinality(U) * k
    BY <1>2
  <2>5. Cardinality(T) \in Nat /\ Cardinality(U) = Cardinality(T) - 1
    BY <2>1, FS_RemoveElement, FS_CardinalityType
  <2> HIDE DEF p, U
  <2>6. ASSUME NEW c \in Int, NEW s \in Int, NEW v \in Int, v <= k, s <= (c - 1) * k
        PROVE v + s <= c * k
    <3>1. c * k = (c - 1) * k + k /\ (c - 1) * k \in Int
      OBVIOUS
    <3> QED BY <2>6, <3>1
  <2>7. SumFunctionOnSet(f, T) <= Cardinality(T) * k
    BY <2>1, <2>2, <2>3, <2>4, <2>5, <2>6
  <2> QED BY <2>7
<1> HIDE DEF G
<1>3. S \in G
  BY <1>1, <1>2, SubsetInduction
<1> QED BY <1>3 DEF G

(* A finite set of numbers has a greatest one.                             *)
THEOREM GreatestExists ==
    ASSUME NEW S \in SUBSET Int, IsFiniteSet(S), S # {}
    PROVE \E n \in S : \A m \in S : m <= n
<1> DEFINE G == {T \in SUBSET S : T = {} \/ \E n \in T : \A m \in T : m <= n}
<1>1. {} \in G
  OBVIOUS
<1>2. ASSUME NEW T \in SUBSET S, T # {}, T \ {Pick(T)} \in G
      PROVE T \in G
  <2>1. Pick(T) \in T /\ Pick(T) \in Int
    BY <1>2 DEF Pick
  <2>2. CASE T \ {Pick(T)} = {}
    BY <2>1, <2>2
  <2>3. CASE T \ {Pick(T)} # {}
    <3>1. PICK n \in T \ {Pick(T)} : \A m \in T \ {Pick(T)} : m <= n
      BY <1>2, <2>3
    <3> QED BY <2>1, <3>1
  <2> QED BY <2>2, <2>3
<1> HIDE DEF G
<1>3. S \in G
  BY <1>1, <1>2, SubsetInduction
<1> QED BY <1>3 DEF G
================================================================================
