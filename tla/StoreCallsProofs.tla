-------------------------- MODULE StoreCallsProofs ---------------------------
(***************************************************************************)
(* What the proofs about MasterClient use of the operators of StoreCalls:  *)
(* the values of a growing set of keys, and the keys of a store.           *)
(***************************************************************************)
EXTENDS StoreCalls, Sequences, FiniteSetsExt, FiniteSetTheorems, SequenceTheorems,
        NaturalsInduction, WellFoundedInduction, TLAPS

LEMMA WithDomain ==
  ASSUME NEW f, NEW k, NEW v
  PROVE  DOMAIN With(f, k, v) = DOMAIN f \cup {k}
  BY DEF With

LEMMA WithoutDomain ==
  ASSUME NEW f, NEW S
  PROVE  DOMAIN Without(f, S) = DOMAIN f \ S
  BY DEF Without, Restrict

\* Min is the least element of a nonempty set of keys.
LEMMA MinIsLeast ==
  ASSUME NEW S, S \subseteq Nat, S # {}
  PROVE  Min(S) \in S /\ \A k \in S : Min(S) <= k
<1> DEFINE R == OpToRel(<, Nat)
<1>1. R = {p \in Nat \X Nat : p[1] < p[2]}
  BY Zenon DEF OpToRel
<1>2. IsWellFoundedOn(R, Nat)
  BY NatLessThanWellFounded
<1> HIDE DEF R
<1>3. PICK m \in S : \A k \in S : ~(<<k, m>> \in R)
  BY <1>2, WFMin
<1>4. \A k \in S : m <= k
  <2> SUFFICES ASSUME NEW k \in S, k < m PROVE FALSE
    OBVIOUS
  <2>1. <<k, m>> \in R
    BY <1>1
  <2> QED BY <1>3, <2>1
<1> QED BY <1>4 DEF Min

\* There is one value for each key.
LEMMA ValuesType ==
  ASSUME NEW f, NEW S, IsFiniteSet(S), NEW v \in ValuesOf(f, S)
  PROVE  /\ Cardinality(S) \in Nat
         /\ DOMAIN v = 1 .. Cardinality(S)
         /\ \E o \in InOrder(S) : v = [i \in 1 .. Cardinality(S) |-> f[o[i]]]
<1>1. PICK o \in InOrder(S) : v = [i \in DOMAIN o |-> f[o[i]]]
  BY DEF ValuesOf
<1>2. DOMAIN o = 1 .. Cardinality(S)
  BY DEF InOrder
<1> QED BY <1>1, <1>2, FS_CardinalityType

LEMMA NoValues ==
  ASSUME NEW f
  PROVE  <<>> \in ValuesOf(f, {})
<1>1. Cardinality({}) = 0
  BY FS_EmptySet
<1>2. <<>> \in InOrder({})
  BY <1>1 DEF InOrder
<1>3. <<>> = [i \in DOMAIN <<>> |-> f[<<>>[i]]]
  OBVIOUS
<1> QED BY <1>2, <1>3 DEF ValuesOf

LEMMA NoValuesNoKeys ==
  ASSUME NEW f, NEW S, IsFiniteSet(S), <<>> \in ValuesOf(f, S)
  PROVE  S = {}
<1>1. DOMAIN <<>> = 1 .. Cardinality(S) /\ Cardinality(S) \in Nat
  BY ValuesType
<1>2. Cardinality(S) = 0
  BY <1>1
<1> QED BY <1>2, FS_EmptySet

LEMMA OneValue ==
  ASSUME NEW f, NEW k
  PROVE  <<f[k]>> \in ValuesOf(f, {k})
<1>1. Cardinality({k}) = 1
  BY FS_Singleton
<1> DEFINE o == [i \in 1 .. 1 |-> k]
<1>2. o \in InOrder({k})
  BY <1>1 DEF InOrder
<1>3. <<f[k]>> = [i \in DOMAIN o |-> f[o[i]]]
  OBVIOUS
<1> QED BY <1>2, <1>3 DEF ValuesOf

\* The value of a key beyond the others comes last.
LEMMA ValuesAppend ==
  ASSUME NEW f, NEW S, IsFiniteSet(S), S \subseteq Nat, NEW v \in ValuesOf(f, S),
         NEW k \in Nat, \A j \in S : j < k
  PROVE  Append(v, f[k]) \in ValuesOf(f, S \cup {k})
<1> DEFINE n == Cardinality(S)
           T == S \cup {k}
<1>1. PICK o \in InOrder(S) : v = [i \in 1 .. n |-> f[o[i]]]
  BY ValuesType
<1>2. n \in Nat
  BY FS_CardinalityType
<1>3. Cardinality(T) = n + 1
  BY FS_AddElement
<1> HIDE DEF n
<1> DEFINE p == [i \in 1 .. (n + 1) |-> IF i = n + 1 THEN k ELSE o[i]]
<1>4. o \in [1 .. n -> S] /\ \A i, j \in 1 .. n : i < j => o[i] < o[j]
  BY DEF InOrder, n
<1>5. p \in InOrder(T)
  <2>1. p \in [1 .. (n + 1) -> T]
    BY <1>2, <1>4
  <2>2. ASSUME NEW i \in 1 .. (n + 1), NEW j \in 1 .. (n + 1), i < j
        PROVE  p[i] < p[j]
    <3>1. i \in 1 .. n
      BY <1>2, <2>2
    <3>2. p[i] = o[i] /\ o[i] \in S
      BY <1>2, <1>4, <3>1
    <3>3. CASE j = n + 1
      BY <1>2, <3>2, <3>3
    <3>4. CASE j # n + 1
      BY <1>2, <1>4, <3>1, <3>2, <3>4, <2>2
    <3> QED BY <3>3, <3>4
  <2> QED BY <1>3, <2>1, <2>2 DEF InOrder
<1>6. Append(v, f[k]) = [i \in 1 .. (n + 1) |-> f[p[i]]]
  <2>1. Len(v) = n
    BY <1>1, <1>2
  <2>2. Append(v, f[k]) = [i \in 1 .. (n + 1) |-> IF i = n + 1 THEN f[k] ELSE v[i]]
    BY <1>1, <1>2, <2>1
  <2> QED BY <1>1, <1>2, <2>2
<1>7. DOMAIN p = 1 .. (n + 1)
  OBVIOUS
<1> QED BY <1>5, <1>6, <1>7 DEF ValuesOf
-----------------------------------------------------------------------------
(***************************************************************************)
(* Sequences and functions.                                                *)
(***************************************************************************)
LEMMA ExceptType ==
  ASSUME NEW S, NEW T, NEW f \in [S -> T], NEW x \in S, NEW v \in T
  PROVE  [f EXCEPT ![x] = v] \in [S -> T]
OBVIOUS

LEMMA RangeAppend ==
  ASSUME NEW S, NEW s \in Seq(S), NEW x
  PROVE  Range(Append(s, x)) = Range(s) \cup {x}
<1>1. DOMAIN Append(s, x) = 1 .. Len(s) + 1 /\ DOMAIN s = 1 .. Len(s) /\ Len(s) \in Nat
  OBVIOUS
<1>2. \A i \in 1 .. Len(s) : Append(s, x)[i] = s[i]
  OBVIOUS
<1>3. Append(s, x)[Len(s) + 1] = x
  OBVIOUS
<1>4. \A y : y \in Range(Append(s, x)) <=> y \in Range(s) \/ y = x
  <2>1. ASSUME NEW y \in Range(Append(s, x)) PROVE y \in Range(s) \/ y = x
    <3>1. PICK i \in 1 .. Len(s) + 1 : y = Append(s, x)[i]
      BY <1>1 DEF Range
    <3>2. CASE i \in 1 .. Len(s)
      BY <1>1, <1>2, <3>1, <3>2 DEF Range
    <3>3. CASE i = Len(s) + 1
      BY <1>3, <3>1, <3>3
    <3> QED BY <1>1, <3>1, <3>2, <3>3
  <2>2. ASSUME NEW y \in Range(s) PROVE y \in Range(Append(s, x))
    <3>1. PICK i \in 1 .. Len(s) : y = s[i]
      BY <1>1 DEF Range
    <3> QED BY <1>1, <1>2, <3>1 DEF Range
  <2>3. x \in Range(Append(s, x))
    BY <1>1, <1>3 DEF Range
  <2> QED BY <2>1, <2>2, <2>3
<1> QED BY <1>4

LEMMA RangeTail ==
  ASSUME NEW S, NEW s \in Seq(S), s # <<>>
  PROVE  Range(s) = Range(Tail(s)) \cup {Head(s)}
<1>1. /\ DOMAIN s = 1 .. Len(s) /\ Len(s) \in Nat /\ Len(s) > 0
      /\ DOMAIN Tail(s) = 1 .. (Len(s) - 1) /\ Head(s) = s[1]
      /\ \A i \in 1 .. (Len(s) - 1) : Tail(s)[i] = s[i + 1]
  OBVIOUS
<1>2. ASSUME NEW y \in Range(s) PROVE y \in Range(Tail(s)) \/ y = Head(s)
  <2>1. PICK i \in 1 .. Len(s) : y = s[i]
    BY <1>1 DEF Range
  <2>2. CASE i = 1
    BY <1>1, <2>1, <2>2
  <2>3. CASE i # 1
    <3>1. i - 1 \in 1 .. (Len(s) - 1) /\ (i - 1) + 1 = i
      BY <1>1, <2>3
    <3>2. Tail(s)[i - 1] = y
      BY <1>1, <2>1, <3>1
    <3> QED BY <1>1, <3>1, <3>2 DEF Range
  <2> QED BY <2>2, <2>3
<1>3. ASSUME NEW y \in Range(Tail(s)) PROVE y \in Range(s)
  <2>1. PICK i \in 1 .. (Len(s) - 1) : y = s[i + 1]
    BY <1>1 DEF Range
  <2>2. i + 1 \in 1 .. Len(s)
    BY <1>1
  <2> QED BY <1>1, <2>1, <2>2 DEF Range
<1>4. Head(s) \in Range(s)
  <2>1. 1 \in 1 .. Len(s)
    BY <1>1
  <2> QED BY <1>1, <2>1 DEF Range
<1>5. \A y : y \in Range(s) <=> y \in Range(Tail(s)) \/ y = Head(s)
  BY <1>2, <1>3, <1>4
<1> QED BY <1>5

LEMMA EmptyTail ==
  ASSUME NEW S, NEW s \in Seq(S), s # <<>>
  PROVE  Tail(s) = <<>> <=> Len(s) = 1
<1>1. Tail(s) \in Seq(S) /\ Len(Tail(s)) = Len(s) - 1 /\ Len(s) \in Nat
  BY HeadTailProperties
<1>2. Tail(s) = <<>> => Len(Tail(s)) = 0
  BY EmptySeq
<1>3. Tail(s) # <<>> => Len(Tail(s)) # 0
  BY <1>1, EmptySeq
<1> QED BY <1>1, <1>2, <1>3
=============================================================================
