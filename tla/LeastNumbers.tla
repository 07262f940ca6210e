---------------------------- MODULE LeastNumbers ----------------------------
(***************************************************************************)
(* A set of natural numbers has a least element.  Handlers of the server    *)
(* that go on with the first row, or the first folder, rest on it.          *)
(***************************************************************************)
EXTENDS Integers, FiniteSets, FiniteSetTheorems, TLAPS

\* How many numbers there are below a number.
LEMMA BelowCount ==
    ASSUME NEW n \in Nat, n # 0
    PROVE  IsFiniteSet(1..(n - 1)) /\ Cardinality(1..(n - 1)) < n
<1>1. PICK m \in Int : m = n - 1
  OBVIOUS
<1>2. IsFiniteSet(1..m) /\ Cardinality(1..m) = IF 1 > m THEN 0 ELSE m - 1 + 1
  BY FS_Interval
<1>3. QED  BY <1>1, <1>2

\* A set of numbers has a least one: otherwise counting the smaller elements would map
\* the elements up to some place into as many numbers less one.
LEMMA LeastNumber ==
    ASSUME NEW S \in SUBSET Nat, S # {}
    PROVE  \E n \in S : \A m \in S : n <= m
<1> SUFFICES ASSUME \A n \in S : \E m \in S : m < n PROVE FALSE
  OBVIOUS
<1>1. PICK top \in S : TRUE
  OBVIOUS
<1> DEFINE T == S \cap 0..top
           Smaller(x) == {y \in T : y < x}
           count == [x \in T |-> Cardinality(Smaller(x))]
<1>2. IsFiniteSet(T) /\ Cardinality(T) \in Nat /\ top \in T
  <2>1. IsFiniteSet(0..top)
    BY FS_Interval, <1>1
  <2>2. QED  BY <2>1, <1>1, FS_Subset, FS_CardinalityType
<1>3. \A x \in T : IsFiniteSet(Smaller(x)) /\ Cardinality(Smaller(x)) \in Nat
  BY <1>2, FS_Subset, FS_CardinalityType
<1>4. ASSUME NEW x \in T
      PROVE  Cardinality(Smaller(x)) \in 1..(Cardinality(T) - 1)
  <2>1. Smaller(x) # {}
    OBVIOUS
  <2>2. Cardinality(Smaller(x)) # 0
    BY <1>3, <2>1, FS_EmptySet
  <2>3. Smaller(x) \subseteq T \ {x}
    OBVIOUS
  <2>4. IsFiniteSet(T \ {x}) /\ Cardinality(T \ {x}) = Cardinality(T) - 1
    BY <1>2, FS_RemoveElement
  <2>5. Cardinality(Smaller(x)) <= Cardinality(T \ {x})
    BY <2>3, <2>4, FS_Subset
  <2>6. \A n, k \in Nat : k # 0 /\ k <= n - 1 => k \in 1..(n - 1)
    OBVIOUS
  <2> HIDE DEF T, Smaller
  <2>7. QED  BY <1>2, <1>3, <2>2, <2>4, <2>5, <2>6
<1>5. ASSUME NEW x \in T, NEW y \in T, x < y
      PROVE  count[x] # count[y]
  <2>1. Smaller(x) \in SUBSET Smaller(y) /\ x \in Smaller(y) /\ x \notin Smaller(x)
    BY <1>5
  <2>2. Cardinality(Smaller(x)) # Cardinality(Smaller(y))
    BY <1>3, <2>1, FS_Subset
  <2>3. QED  BY <2>2
<1>6. count \in [T -> 1..(Cardinality(T) - 1)]
  BY <1>4
<1>7. /\ IsFiniteSet(1..(Cardinality(T) - 1))
      /\ Cardinality(1..(Cardinality(T) - 1)) < Cardinality(T)
  <2>1. Cardinality(T) # 0
    BY <1>2, FS_EmptySet
  <2>2. \A n \in Nat : n # 0 => IsFiniteSet(1..(n - 1)) /\ Cardinality(1..(n - 1)) < n
    BY BelowCount
  <2> HIDE DEF T
  <2>3. QED  BY <1>2, <2>1, <2>2
<1> HIDE DEF count
<1>8. PICK x \in T, y \in T : x # y /\ count[x] = count[y]
  BY <1>2, <1>6, <1>7, FS_PigeonHole
<1>9. x < y \/ y < x
  BY <1>8
<1>10. QED  BY <1>5, <1>8, <1>9
=============================================================================
