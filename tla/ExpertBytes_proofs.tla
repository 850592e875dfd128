------------------------- MODULE ExpertBytes_proofs -------------------------
(***************************************************************************)
(* Facts about the bytes charged for a set of experts: the total of a      *)
(* finite set is a natural number, and grows and shrinks by the sizes of   *)
(* what is added and removed.                                              *)
(***************************************************************************)
EXTENDS ExpertBytes, FiniteSetTheorems, TLAPS

\* The experts of a set occupy finitely many bytes, so their total is a
\* natural number.
LEMMA ChargedType ==
  ASSUME NEW S \in SUBSET Keys
  PROVE  IsFiniteSet(Occupied(S)) /\ Charged(S) \in Nat
<1>1. IsFiniteSet(Keys \X (1..MaxBytes))
  <2>1. IsFiniteSet(Keys) /\ 1 \in Int /\ MaxBytes \in Int
    BY BytesAssumption
  <2>2. IsFiniteSet(1..MaxBytes)
    BY <2>1, FS_Interval, Zenon
  <2> QED
    BY <2>1, <2>2, FS_Product, Zenon
<1>2. Occupied(S) \in SUBSET (Keys \X (1..MaxBytes))
  BY DEF Occupied
<1>3. IsFiniteSet(Occupied(S))
  BY <1>1, <1>2, FS_Subset
<1> QED
  BY <1>3, FS_CardinalityType DEF Charged

\* No experts, no bytes.
LEMMA ChargedNothing == Charged({}) = 0
<1>1. Occupied({}) = {}
  BY DEF Occupied
<1> QED
  BY <1>1, FS_EmptySet DEF Charged

\* The payload of one expert is charged its size.
LEMMA ChargedOne ==
  ASSUME NEW k \in Keys
  PROVE  Charged({k}) = Bytes[k]
<1>1. Bytes[k] \in 1..MaxBytes
  BY BytesAssumption
<1>2. Occupied({k}) = {k} \X (1..Bytes[k])
  <2>1. ASSUME NEW b \in Occupied({k}) PROVE b \in {k} \X (1..Bytes[k])
    BY <2>1, <1>1, BytesAssumption DEF Occupied
  <2>2. ASSUME NEW b \in {k} \X (1..Bytes[k]) PROVE b \in Occupied({k})
    BY <2>2, <1>1, BytesAssumption DEF Occupied
  <2> QED
    BY <2>1, <2>2
<1>3. IsFiniteSet(1..Bytes[k]) /\ Cardinality(1..Bytes[k]) = Bytes[k]
  BY <1>1, FS_Interval
<1>4. IsFiniteSet({k}) /\ Cardinality({k}) = 1
  BY FS_Singleton
<1>5. Cardinality({k} \X (1..Bytes[k])) = Cardinality({k}) * Cardinality(1..Bytes[k])
  BY <1>3, <1>4, FS_Product, Zenon
<1>6. Bytes[k] \in Nat /\ 1 * Bytes[k] = Bytes[k]
  BY <1>1
<1> QED
  BY <1>2, <1>3, <1>4, <1>5, <1>6, Zenon DEF Charged

\* Removing a subset takes its total away.
LEMMA ChargedRemove ==
  ASSUME NEW S \in SUBSET Keys, NEW D \in SUBSET S
  PROVE  /\ Charged(S \ D) = Charged(S) - Charged(D)
         /\ Charged(D) <= Charged(S)
<1>1. Occupied(S \ D) = Occupied(S) \ Occupied(D)
  BY DEF Occupied
<1>2. Occupied(S) \cap Occupied(D) = Occupied(D)
  BY DEF Occupied
<1>3. IsFiniteSet(Occupied(S)) /\ Charged(S) \in Nat
  BY ChargedType
<1>4. Charged(S \ D) = Charged(S) - Charged(D)
  <2>1. Cardinality(Occupied(S) \ Occupied(D))
          = Cardinality(Occupied(S)) - Cardinality(Occupied(S) \cap Occupied(D))
    BY <1>3, FS_Difference, Zenon
  <2> QED
    BY <1>1, <1>2, <2>1 DEF Charged
<1>5. Charged(S \ D) \in Nat /\ Charged(D) \in Nat
  BY ChargedType
<1> QED
  BY <1>3, <1>4, <1>5

\* Adding an absent expert adds its size.
LEMMA ChargedAdd ==
  ASSUME NEW S \in SUBSET Keys, NEW k \in Keys, k \notin S
  PROVE  Charged(S \cup {k}) = Charged(S) + Bytes[k]
<1> DEFINE T == S \cup {k}
<1>1. T \in SUBSET Keys /\ {k} \in SUBSET T /\ T \ {k} = S
  OBVIOUS
<1>2. Charged(S) = Charged(T) - Charged({k})
  BY <1>1, ChargedRemove
<1>3. Charged(T) \in Nat /\ Charged(S) \in Nat
  BY <1>1, ChargedType
<1>4. Bytes[k] \in Nat
  BY BytesAssumption
<1>5. Charged({k}) = Bytes[k]
  BY ChargedOne
<1> HIDE DEF T
<1>6. Charged(T) = Charged(S) + Bytes[k]
  BY <1>2, <1>3, <1>4, <1>5
<1> QED
  BY <1>6 DEF T
=============================================================================
