------------------------------ MODULE CartsProofs ------------------------------
(* Counting the units of a set of claims, for every set of orders and carts. *)
EXTENDS Carts, FiniteSetTheorems, TLAPS

(* The units of one line. *)
LineUnits(o, b) == {u \in Orders \X (1..MaxUnits) : u[1] = o /\ u[2] <= Cart[o][b]}

(* The units counted in any state of the rows form a finite set, so every  *)
(* cardinality below is a natural number.                                  *)
LEMMA UnitsFinite ==
    ASSUME NEW r, NEW b, NEW S
    PROVE  /\ IsFiniteSet(UnitsOf(r, b, S))
           /\ Cardinality(UnitsOf(r, b, S)) \in Nat
<1>1. IsFiniteSet(Orders \X (1..MaxUnits))
    <2>1. IsFiniteSet(1..MaxUnits)
        BY FS_Interval, CartsAssumption
    <2>2. QED
        BY <2>1, FS_Product, CartsAssumption
<1>2. UnitsOf(r, b, S) \in SUBSET (Orders \X (1..MaxUnits))
    BY DEF UnitsOf
<1>3. IsFiniteSet(UnitsOf(r, b, S))
    BY <1>1, <1>2, FS_Subset
<1>4. QED
    BY <1>3, FS_CardinalityType

(* A line numbers its units from one. *)
LEMMA IntervalCount ==
    ASSUME NEW n \in Nat
    PROVE  IsFiniteSet(1..n) /\ Cardinality(1..n) = n
<1>1. 1 \in Int /\ n \in Int
    OBVIOUS
<1>2. IsFiniteSet(1..n) /\ Cardinality(1..n) = IF 1 > n THEN 0 ELSE n - 1 + 1
    BY <1>1, FS_Interval
<1>3. QED
    BY <1>2

(* A line has as many units as its cart says. *)
LEMMA LineUnitsCount ==
    ASSUME NEW o \in Orders, NEW b \in Batches
    PROVE  /\ IsFiniteSet(LineUnits(o, b))
           /\ Cardinality(LineUnits(o, b)) = Cart[o][b]
<1> DEFINE q == Cart[o][b]
<1>1. q \in 0..MaxUnits /\ q \in Int /\ MaxUnits \in Nat
    BY CartsAssumption
<1>2. LineUnits(o, b) = {o} \X (1..q)
    BY <1>1 DEF LineUnits
<1>3. IsFiniteSet({o}) /\ Cardinality({o}) = 1
    BY FS_Singleton
<1>4. IsFiniteSet(1..q) /\ Cardinality(1..q) = q
    BY <1>1, IntervalCount
<1>5. IsFiniteSet({o} \X (1..q)) /\ Cardinality({o} \X (1..q)) = Cardinality({o}) * Cardinality(1..q)
    BY <1>3, <1>4, FS_Product
<1>6. Cardinality({o} \X (1..q)) = q
    BY <1>1, <1>3, <1>4, <1>5
<1>7. QED
    BY <1>2, <1>5, <1>6

(* A change of rows that moves no line of batch b in or out of S leaves    *)
(* the count of S alone.                                                   *)
LEMMA UnitsUnmoved ==
    ASSUME NEW r, NEW r2, NEW b \in Batches, NEW S,
           \A o \in Orders : Cart[o][b] > 0 => (r[o][b] \in S <=> r2[o][b] \in S)
    PROVE  UnitsOf(r2, b, S) = UnitsOf(r, b, S)
<1>1. ASSUME NEW u \in Orders \X (1..MaxUnits), u[2] <= Cart[u[1]][b]
      PROVE  Cart[u[1]][b] > 0
    BY <1>1, CartsAssumption
<1>2. QED
    BY <1>1 DEF UnitsOf

(* A line that enters S adds its units to the count of S. *)
LEMMA UnitsEnter ==
    ASSUME NEW r, NEW r2, NEW o \in Orders, NEW b \in Batches, NEW S,
           \A p \in Orders \ {o} : r2[p][b] = r[p][b],
           r[o][b] \notin S, r2[o][b] \in S
    PROVE  Cardinality(UnitsOf(r2, b, S)) = Cardinality(UnitsOf(r, b, S)) + Cart[o][b]
<1> DEFINE A == UnitsOf(r, b, S)
           L == LineUnits(o, b)
<1>1. UnitsOf(r2, b, S) = A \cup L
    BY DEF UnitsOf, LineUnits
<1>2. A \cap L = {}
    BY DEF UnitsOf, LineUnits
<1>3. IsFiniteSet(A) /\ Cardinality(A) \in Nat
    BY UnitsFinite
<1>4. IsFiniteSet(L) /\ Cardinality(L) = Cart[o][b]
    BY LineUnitsCount
<1>5. Cardinality(A \cup L) = Cardinality(A) + Cardinality(L) - Cardinality(A \cap L)
    BY <1>3, <1>4, FS_Union
<1>6. Cardinality(A \cap L) = 0
    BY <1>2, FS_EmptySet
<1>7. Cart[o][b] \in Int
    BY CartsAssumption
<1>8. QED
    BY <1>1, <1>3, <1>4, <1>5, <1>6, <1>7

(* The units of two disjoint sets of states are counted separately. *)
LEMMA UnitsSplit ==
    ASSUME NEW r, NEW b, NEW S, NEW T, S \cap T = {}
    PROVE  Cardinality(UnitsOf(r, b, S \cup T)) =
               Cardinality(UnitsOf(r, b, S)) + Cardinality(UnitsOf(r, b, T))
<1> DEFINE A == UnitsOf(r, b, S)
           B == UnitsOf(r, b, T)
<1>1. UnitsOf(r, b, S \cup T) = A \cup B
    BY DEF UnitsOf
<1>2. A \cap B = {}
    BY DEF UnitsOf
<1>3. /\ IsFiniteSet(A) /\ Cardinality(A) \in Nat
      /\ IsFiniteSet(B) /\ Cardinality(B) \in Nat
    BY UnitsFinite
<1>4. Cardinality(A \cup B) = Cardinality(A) + Cardinality(B) - Cardinality(A \cap B)
    BY <1>3, FS_Union
<1>5. Cardinality(A \cap B) = 0
    BY <1>2, FS_EmptySet
<1>6. Cardinality(A \cup B) = Cardinality(A) + Cardinality(B)
    BY <1>3, <1>4, <1>5
<1>7. QED
    BY <1>1, <1>6

================================================================================
