-------------------------- MODULE BranchIndexProofs --------------------------
(***************************************************************************)
(* Theorems about BranchIndex for every number of levels, bucket size and  *)
(* width of blkid_t that block.h admits: the shifts and masks of server    *)
(* and client, wrap-around included, compute the branch and the            *)
(* intersection bucket of OramTree.                                        *)
(***************************************************************************)
EXTENDS BranchIndex, OramTreeProofs, FiniteSetTheorems, TLAPS

USE TreeLevelsAssumption, BlocksPerBucketAssumption

(***************************************************************************)
(* Arithmetic.  What is true of every number by induction is proved here   *)
(* by looking at the least number of which it is not.                      *)
(***************************************************************************)
LEMMA LeastElement ==
  ASSUME NEW S, S \subseteq Nat, S # {}
  PROVE  \E n \in S : \A m \in S : n <= m
<1> DEFINE R == OpToRel(<, Nat)
<1>1. R = {p \in Nat \X Nat : p[1] < p[2]}
  BY Zenon DEF OpToRel
<1>2. IsWellFoundedOn(R, Nat)
  BY NatLessThanWellFounded
<1> HIDE DEF R
<1>3. PICK n \in S : \A m \in S : ~(<<m, n>> \in R)
  BY <1>2, WFMin
<1>4. ASSUME NEW m \in S PROVE n <= m
  <2>1. m \in Nat /\ n \in Nat
    OBVIOUS
  <2>2. m < n => <<m, n>> \in R
    BY <1>1, <2>1
  <2> QED  BY <1>3, <2>1, <2>2
<1> QED  BY <1>4

\* 2 ^ k counts the subsets of 1 .. k.  Those of 1 .. k + 1 are the same ones
\* and the same ones with k + 1 added.
LEMMA PowerOfTwo ==
  ASSUME NEW k \in Nat
  PROVE  2 ^ k \in Nat \ {0} /\ 2 ^ (k + 1) = 2 * 2 ^ k
<1> DEFINE S == 1 .. k
           T == 1 .. k + 1
           Added == {A \cup {k + 1} : A \in SUBSET S}
           f == [A \in SUBSET S |-> A \cup {k + 1}]
<1>1. IsFiniteSet(S) /\ Cardinality(S) = k
  BY FS_Interval, 1 \in Int, k \in Int
<1>2. IsFiniteSet(T) /\ Cardinality(T) = k + 1
  BY FS_Interval, 1 \in Int, k + 1 \in Int
<1>3. IsFiniteSet(SUBSET S) /\ Cardinality(SUBSET S) = 2 ^ k
  BY <1>1, FS_SUBSET
<1>4. Cardinality(SUBSET T) = 2 ^ (k + 1)
  BY <1>2, FS_SUBSET
<1>5. k + 1 \notin S /\ T = S \cup {k + 1}
  OBVIOUS
<1> HIDE DEF S, T
<1>6. SUBSET T = (SUBSET S) \cup Added
  <2>1. ASSUME NEW A \in SUBSET T, k + 1 \in A PROVE A \in Added
    <3>1. A \ {k + 1} \in SUBSET S /\ A = (A \ {k + 1}) \cup {k + 1}
      BY <1>5, <2>1
    <3> QED  BY <3>1
  <2>2. ASSUME NEW A \in SUBSET T, k + 1 \notin A PROVE A \in SUBSET S
    BY <1>5, <2>2
  <2> QED  BY <1>5, <2>1, <2>2
<1>7. (SUBSET S) \cap Added = {}
  BY <1>5
<1>8. ExistsBijection(SUBSET S, Added)
  <2>1. f \in [SUBSET S -> Added]
    OBVIOUS
  <2>2. ASSUME NEW A \in SUBSET S, NEW B \in SUBSET S, f[A] = f[B] PROVE A = B
    BY <1>5, <2>2
  <2>3. \A B \in Added : \E A \in SUBSET S : f[A] = B
    OBVIOUS
  <2> HIDE DEF f, Added
  <2>4. IsInjective(f)
    BY <2>1, <2>2 DEF IsInjective
  <2>5. f \in Bijection(SUBSET S, Added)
    BY <2>1, <2>3, <2>4, Zenon DEF Bijection, Injection, Surjection
  <2> QED  BY <2>5, Zenon DEF ExistsBijection
<1>9. IsFiniteSet(Added) /\ Cardinality(Added) = 2 ^ k
  BY <1>3, <1>8, FS_Bijection
<1>10. Cardinality(SUBSET T) = 2 ^ k + 2 ^ k - 0
  <2>1. Cardinality((SUBSET S) \cap Added) = 0
    BY <1>7, FS_EmptySet
  <2> HIDE DEF Added
  <2> QED  BY <1>3, <1>6, <1>9, <2>1, FS_Union
<1>11. 2 ^ k \in Nat
  BY <1>3, FS_CardinalityType
<1>12. 2 ^ k # 0
  <2>1. SUBSET S # {}
    OBVIOUS
  <2> QED  BY <1>3, <2>1, FS_EmptySet
<1> QED  BY <1>4, <1>10, <1>11, <1>12

\* A power of two divides the larger ones.
LEMMA PowerDivides ==
  ASSUME NEW j \in Nat, NEW k \in Nat, j <= k
  PROVE  \E m \in Nat \ {0} : 2 ^ k = 2 ^ j * m
<1> DEFINE Divides(n) == \E m \in Nat \ {0} : 2 ^ n = 2 ^ j * m
           Bad == {n \in Nat : n >= j /\ ~Divides(n)}
<1>1. SUFFICES ASSUME Bad # {} PROVE FALSE
  OBVIOUS
<1>2. PICK n \in Bad : \A b \in Bad : n <= b
  BY <1>1, LeastElement, Bad \subseteq Nat
<1>3. n # j
  <2>1. 2 ^ j \in Nat
    BY PowerOfTwo
  <2>2. 2 ^ j = 2 ^ j * 1 /\ 1 \in Nat \ {0}
    BY <2>1
  <2> QED  BY <1>2, <2>2
<1>4. n - 1 \in Nat /\ n - 1 >= j /\ n - 1 \notin Bad /\ (n - 1) + 1 = n
  BY <1>2, <1>3
<1>5. PICK m \in Nat \ {0} : 2 ^ (n - 1) = 2 ^ j * m
  BY <1>4
<1>6. 2 ^ n = 2 * (2 ^ j * m)
  BY <1>4, <1>5, PowerOfTwo
<1>7. 2 * (2 ^ j * m) = 2 ^ j * (2 * m)
  BY PowerOfTwo
<1>8. 2 * m \in Nat \ {0}
  OBVIOUS
<1>9. Divides(n)
  BY <1>6, <1>7, <1>8, Zenon
<1> QED  BY <1>2, <1>9

LEMMA PowersGrow ==
  ASSUME NEW j \in Nat, NEW k \in Nat, j <= k
  PROVE  2 ^ j <= 2 ^ k
<1>1. PICK m \in Nat \ {0} : 2 ^ k = 2 ^ j * m
  BY PowerDivides
<1>2. 2 ^ j \in Nat
  BY PowerOfTwo
<1>3. \A p \in Nat : p <= p * m
  OBVIOUS
<1> QED  BY <1>1, <1>2, <1>3

LEMMA PowerIsLarger ==
  ASSUME NEW k \in Nat
  PROVE  k < 2 ^ k
<1> DEFINE Bad == {n \in Nat : ~(n < 2 ^ n)}
<1>1. SUFFICES ASSUME Bad # {} PROVE FALSE
  OBVIOUS
<1>2. PICK n \in Bad : \A b \in Bad : n <= b
  BY <1>1, LeastElement, Bad \subseteq Nat
<1>3. n # 0
  BY <1>2, PowerOfTwo
<1>4. n - 1 \in Nat /\ n - 1 < 2 ^ (n - 1) /\ (n - 1) + 1 = n
  BY <1>2, <1>3
<1>5. 2 ^ n = 2 * 2 ^ (n - 1) /\ 2 ^ (n - 1) \in Nat
  BY <1>4, PowerOfTwo
<1> QED  BY <1>2, <1>4, <1>5

LEMMA DividedTwice ==
  ASSUME NEW n \in Nat, NEW a \in Nat \ {0}, NEW b \in Nat \ {0}
  PROVE  (n \div a) \div b = n \div (a * b)
  OBVIOUS

\* One more shift to the right.
LEMMA Halved ==
  ASSUME NEW n \in Nat, NEW k \in Nat
  PROVE  /\ n \div 2 ^ k \in Nat
         /\ n \div 2 ^ (k + 1) = (n \div 2 ^ k) \div 2
<1> DEFINE p == 2 ^ k
           q == n \div p
           r == n % p
<1>1. p \in Nat /\ p > 0 /\ 2 ^ (k + 1) = p * 2
  BY PowerOfTwo
<1> HIDE DEF p
<1>2. p \in Nat \ {0} /\ 2 \in Nat \ {0}
  BY <1>1
<1>3. (n \div p) \div 2 = n \div (p * 2)
  BY <1>2, DividedTwice
<1>4. n \div p \in Nat
  BY <1>1
<1> QED  BY <1>1, <1>3, <1>4 DEF p

LEMMA ShiftedOut ==
  ASSUME NEW n \in Nat, NEW k \in Nat, n < 2 ^ k
  PROVE  n \div 2 ^ k = 0
<1>1. \A p \in Nat : n < p => n \div p = 0
  OBVIOUS
<1> QED  BY <1>1, PowerOfTwo

\* Once equal, numbers that are shifted to the right stay equal.
Shifted(n, k) == n \div 2 ^ k

LEMMA StayEqual ==
  ASSUME NEW m \in Nat, NEW n \in Nat, NEW j \in Nat, NEW k \in Nat,
         j <= k, Shifted(m, j) = Shifted(n, j)
  PROVE  Shifted(m, k) = Shifted(n, k)
<1> USE DEF Shifted
<1> DEFINE Bad == {x \in Nat : x >= j /\ m \div 2 ^ x # n \div 2 ^ x}
<1>1. SUFFICES ASSUME Bad # {} PROVE FALSE
  OBVIOUS
<1>2. PICK x \in Bad : \A b \in Bad : x <= b
  BY <1>1, LeastElement, Bad \subseteq Nat
<1>3. x - 1 \in Nat /\ x - 1 >= j /\ x - 1 \notin Bad /\ (x - 1) + 1 = x
  BY <1>2
<1>4. m \div 2 ^ (x - 1) = n \div 2 ^ (x - 1)
  BY <1>3
<1> DEFINE y == x - 1
<1>5. /\ m \div 2 ^ (y + 1) = (m \div 2 ^ y) \div 2
      /\ n \div 2 ^ (y + 1) = (n \div 2 ^ y) \div 2
  <2>1. y \in Nat
    BY <1>3
  <2> HIDE DEF y
  <2> QED  BY <2>1, Halved
<1>6. m \div 2 ^ x = n \div 2 ^ x
  BY <1>3, <1>4, <1>5
<1> QED  BY <1>2, <1>6

\* Shifting x to the left in w bits moves its bit b - 1 to b.
LEMMA ShiftedBit ==
  ASSUME NEW x \in Nat, NEW w \in Nat, NEW b \in Nat, b > 0, b < w
  PROVE  (((2 * x) % 2 ^ w) \div 2 ^ b) % 2 = (x \div 2 ^ (b - 1)) % 2
<1> DEFINE p == 2 ^ (b - 1)
           a == x \div p
           r == x % p
           y == (2 * x) % 2 ^ w
           q == (2 * x) \div 2 ^ w
<1>1. p \in Nat /\ p > 0 /\ 2 ^ b = 2 * p
  BY PowerOfTwo, b - 1 \in Nat, (b - 1) + 1 = b
<1>2. PICK m \in Nat : 2 ^ w = 2 ^ (b + 1) * m /\ m > 0
  BY PowerDivides, b + 1 \in Nat, b + 1 <= w
<1>3. 2 ^ (b + 1) = 4 * p
  BY <1>1, PowerOfTwo
<1>4. 2 ^ w \in Nat /\ 2 ^ w > 0
  BY PowerOfTwo
<1> HIDE DEF p
<1>5. a \in Nat /\ r \in Nat /\ r < p /\ x = p * a + r
  BY <1>1
<1>6. y \in Nat /\ q \in Nat /\ 2 * x = 2 ^ w * q + y
  BY <1>4
<1>7. y = (2 * p) * (a - 2 * (m * q)) + 2 * r
  <2> HIDE DEF a, r, y, q
  <2>1. 2 * x = (2 * p) * a + 2 * r
    BY <1>1, <1>5
  <2>2. 2 ^ w * q = ((4 * p) * m) * q
    BY <1>2, <1>3
  <2>3. ((4 * p) * m) * q = (2 * p) * (2 * (m * q))
    BY <1>1, <1>2, <1>6
  <2>4. (2 * p) * (a - 2 * (m * q)) = (2 * p) * a - (2 * p) * (2 * (m * q))
    BY <1>1, <1>2, <1>5, <1>6
  <2>5. (2 * p) * a \in Int /\ (2 * p) * (2 * (m * q)) \in Int
    BY <1>1, <1>2, <1>5, <1>6
  <2>6. 2 * x = (2 * p) * (2 * (m * q)) + y
    BY <1>6, <2>2, <2>3
  <2> HIDE DEF p
  <2> QED  BY <1>5, <1>6, <2>1, <2>4, <2>5, <2>6
<1> DEFINE c == a - 2 * (m * q)
<1>8. c \in Int /\ m * q \in Int
  BY <1>5, <1>6
<1>9. y \div (2 * p) = c
  <2>1. \A d \in Int, e, s \in Nat : s < e => (e * d + s) \div e = d
    OBVIOUS
  <2>2. 2 * p \in Nat /\ 2 * r \in Nat /\ 2 * r < 2 * p
    BY <1>1, <1>5
  <2> HIDE DEF c, y, r
  <2> QED  BY <1>7, <1>8, <2>1, <2>2 DEF c
<1>10. c % 2 = a % 2
  BY <1>5, <1>8
<1> QED  BY <1>1, <1>9, <1>10 DEF p

-----------------------------------------------------------------------------
(***************************************************************************)
(* Bucket numbers.  Number is a recursive function; that it exists, and    *)
(* that numbering a longer branch does not renumber the buckets above, is  *)
(* again shown at the least depth at which it could fail.                  *)
(***************************************************************************)
IsNumbering(f, n, turns) ==
  f = [d \in 0 .. n |-> IF d = 0 THEN 1 ELSE 2 * f[d - 1] + turns[d]]

LEMMA NumberingExists ==
  ASSUME NEW turns, NEW n \in Nat
  PROVE  \E f : IsNumbering(f, n, turns)
<1> DEFINE Bad == {m \in Nat : ~ \E f : IsNumbering(f, m, turns)}
<1>1. SUFFICES ASSUME Bad # {} PROVE FALSE
  OBVIOUS
<1>2. PICK m \in Bad : \A b \in Bad : m <= b
  BY <1>1, LeastElement, Bad \subseteq Nat
<1>3. CASE m = 0
  <2>1. IsNumbering([d \in 0 .. 0 |-> 1], 0, turns)
    BY DEF IsNumbering
  <2> QED  BY <1>2, <1>3, <2>1
<1>4. CASE m # 0
  <2>1. m - 1 \in Nat /\ m - 1 \notin Bad
    BY <1>2, <1>4
  <2>2. PICK g : IsNumbering(g, m - 1, turns)
    BY <2>1
  <2> DEFINE f == [d \in 0 .. m |-> IF d = m THEN 2 * g[m - 1] + turns[m] ELSE g[d]]
  <2>3. ASSUME NEW d \in 0 .. m
        PROVE  f[d] = IF d = 0 THEN 1 ELSE 2 * f[d - 1] + turns[d]
    <3>1. CASE d = m
      <4>1. d - 1 \in 0 .. m /\ d - 1 # m /\ d # 0
        BY <1>4, <3>1, <2>1
      <4>2. f[d - 1] = g[m - 1]
        BY <3>1, <4>1
      <4> QED  BY <3>1, <4>1, <4>2
    <3>2. CASE d # m
      <4>1. d \in 0 .. m - 1 /\ f[d] = g[d]
        BY <2>1, <3>2
      <4>2. g[d] = IF d = 0 THEN 1 ELSE 2 * g[d - 1] + turns[d]
        BY <2>2, <4>1 DEF IsNumbering
      <4>3. d # 0 => d - 1 \in 0 .. m /\ d - 1 # m
        BY <4>1, <2>1
      <4>4. d # 0 => f[d - 1] = g[d - 1]
        BY <4>3
      <4> HIDE DEF f
      <4> QED  BY <4>1, <4>2, <4>4
    <3> QED  BY <3>1, <3>2
  <2>4. f = [d \in 0 .. m |-> f[d]]
    OBVIOUS
  <2> HIDE DEF f
  <2>5. IsNumbering(f, m, turns)
    BY <2>3, <2>4 DEF IsNumbering
  <2> QED  BY <1>2, <2>5
<1> QED  BY <1>3, <1>4

LEMMA NumberingsAgree ==
  ASSUME NEW f, NEW g, NEW m \in Nat, NEW n \in Nat, m <= n, NEW s, NEW t,
         IsNumbering(f, m, s), IsNumbering(g, n, t),
         \A d \in 1 .. m : s[d] = t[d],
         NEW e \in 0 .. m
  PROVE  f[e] = g[e]
<1> DEFINE Bad == {d \in Nat : d <= m /\ f[d] # g[d]}
<1>1. SUFFICES ASSUME Bad # {} PROVE FALSE
  OBVIOUS
<1>2. PICK d \in Bad : \A b \in Bad : d <= b
  BY <1>1, LeastElement, Bad \subseteq Nat
<1>3. /\ f[d] = IF d = 0 THEN 1 ELSE 2 * f[d - 1] + s[d]
      /\ g[d] = IF d = 0 THEN 1 ELSE 2 * g[d - 1] + t[d]
  <2>1. d \in 0 .. m /\ d \in 0 .. n
    BY <1>2
  <2> QED  BY <2>1 DEF IsNumbering
<1>4. d # 0
  BY <1>2, <1>3
<1>5. d - 1 \in Nat /\ d - 1 <= m /\ d - 1 \notin Bad /\ d \in 1 .. m
  BY <1>2, <1>4
<1>6. f[d - 1] = g[d - 1] /\ s[d] = t[d]
  BY <1>5
<1> QED  BY <1>2, <1>3, <1>6

LEMMA NumberIsNumbering ==
  ASSUME NEW b, Len(b) \in Nat
  PROVE  \E f : IsNumbering(f, Len(b), b) /\ Number(b) = f[Len(b)]
<1> DEFINE F(f) == [d \in 0 .. Len(b) |-> IF d = 0 THEN 1 ELSE 2 * f[d - 1] + b[d]]
           h == CHOOSE f : f = F(f)
<1>1. \E f : f = F(f)
  BY NumberingExists DEF IsNumbering
<1>2. h = F(h)
  <2> HIDE DEF F
  <2> QED  BY <1>1
<1>3. Number(b) = h[Len(b)]
  BY DEF Number
<1>4. IsNumbering(h, Len(b), b)
  BY <1>2 DEF IsNumbering
<1> HIDE DEF h
<1> QED  BY <1>3, <1>4

\* The root has number 1; the bucket one turn further down has twice the
\* number, plus the turn.
LEMMA NumberOfBucket ==
  ASSUME NEW leaf
  PROVE  /\ Number(Bucket(leaf, 0)) = 1
         /\ \A d \in Nat : d + 1 \in Levels =>
              Number(Bucket(leaf, d + 1)) = 2 * Number(Bucket(leaf, d)) + Turn(leaf, d + 1)
<1>1. Number(Bucket(leaf, 0)) = 1
  <2>1. Len(Bucket(leaf, 0)) = 0
    BY BucketDepth, 0 \in Levels DEF Levels
  <2>2. PICK f : IsNumbering(f, 0, Bucket(leaf, 0)) /\ Number(Bucket(leaf, 0)) = f[0]
    BY <2>1, NumberIsNumbering
  <2> QED  BY <2>2 DEF IsNumbering
<1>2. ASSUME NEW d \in Nat, d + 1 \in Levels
      PROVE  Number(Bucket(leaf, d + 1)) = 2 * Number(Bucket(leaf, d)) + Turn(leaf, d + 1)
  <2> DEFINE a == Bucket(leaf, d)
             b == Bucket(leaf, d + 1)
  <2>1. d \in Levels
    BY <1>2 DEF Levels
  <2>2. Len(a) = d /\ Len(b) = d + 1
    BY <1>2, <2>1, BucketDepth
  <2>3. PICK f : IsNumbering(f, d, a) /\ Number(a) = f[d]
    BY <2>2, NumberIsNumbering
  <2>4. PICK g : IsNumbering(g, d + 1, b) /\ Number(b) = g[d + 1]
    BY <2>2, NumberIsNumbering
  <2>5. \A t \in 1 .. d : a[t] = b[t]
    BY DEF Bucket
  <2>6. b[d + 1] = Turn(leaf, d + 1)
    BY DEF Bucket
  <2> HIDE DEF a, b
  <2>7. f[d] = g[d]
    BY <2>3, <2>4, <2>5, NumberingsAgree, d + 1 \in Nat, d <= d + 1, d \in 0 .. d
  <2>8. g[d + 1] = 2 * g[d] + b[d + 1]
    <3>1. d + 1 \in 0 .. d + 1 /\ d + 1 # 0 /\ (d + 1) - 1 = d
      OBVIOUS
    <3> QED  BY <2>4, <3>1 DEF IsNumbering
  <2> QED  BY <2>3, <2>4, <2>6, <2>7, <2>8 DEF a, b
<1> QED  BY <1>1, <1>2

\* Depth d holds the numbers from 2 ^ d on, as many as there are.
LEMMA NumberBounds ==
  ASSUME NEW leaf \in Nat, NEW d \in Levels
  PROVE  /\ Number(Bucket(leaf, d)) \in Nat
         /\ 2 ^ d <= Number(Bucket(leaf, d))
         /\ Number(Bucket(leaf, d)) < 2 ^ (d + 1)
<1> DEFINE Fits(e) == LET n == Number(Bucket(leaf, e))
                      IN  n \in Nat /\ 2 ^ e <= n /\ n < 2 ^ (e + 1)
           Bad == {e \in Levels : ~Fits(e)}
<1>1. SUFFICES ASSUME Bad # {} PROVE FALSE
  OBVIOUS
<1>2. PICK e \in Bad : \A b \in Bad : e <= b
  BY <1>1, LeastElement, Bad \subseteq Nat DEF Levels
<1>3. e \in Nat
  BY <1>2 DEF Levels
<1>4. CASE e = 0
  <2>1. 2 ^ 0 = 1 /\ 2 ^ (0 + 1) = 2
    BY PowerOfTwo, 0 \in Nat
  <2> QED  BY <1>2, <1>4, <2>1, NumberOfBucket
<1>5. CASE e # 0
  <2>1. e - 1 \in Nat /\ e - 1 \in Levels /\ e - 1 \notin Bad /\ (e - 1) + 1 = e
    BY <1>2, <1>3, <1>5 DEF Levels
  <2> DEFINE m == Number(Bucket(leaf, e - 1))
             n == Number(Bucket(leaf, e))
  <2>2. m \in Nat /\ 2 ^ (e - 1) <= m /\ m < 2 ^ e
    BY <2>1
  <2>3. n = 2 * m + Turn(leaf, e)
    BY <1>2, <2>1, NumberOfBucket
  <2>4. Turn(leaf, e) \in 0 .. 1
    <3>1. TREE_LEVELS - 1 - e \in Nat
      BY <1>2 DEF Levels
    <3>2. (leaf - 1) \div 2 ^ (TREE_LEVELS - 1 - e) \in Int
      BY <3>1, PowerOfTwo
    <3> QED  BY <3>2 DEF Turn
  <2>5. 2 ^ e = 2 * 2 ^ (e - 1) /\ 2 ^ (e + 1) = 2 * 2 ^ e /\ 2 ^ (e - 1) \in Nat
    BY <1>3, <2>1, PowerOfTwo
  <2> HIDE DEF m, n
  <2>6. n \in Nat /\ 2 ^ e <= n /\ n < 2 ^ (e + 1)
    BY <2>2, <2>3, <2>4, <2>5
  <2> QED  BY <1>2, <2>6 DEF n
<1> QED  BY <1>4, <1>5

-----------------------------------------------------------------------------
(***************************************************************************)
(* What block.h's condition says of the width of a blkid_t.                *)
(***************************************************************************)
LEMMA Widths ==
  /\ IdModulus \in Nat /\ IdBits \in Nat
  /\ 2 ^ TREE_LEVELS <= IdModulus
  /\ TREE_LEVELS < IdModulus
  /\ TREE_LEVELS <= IdBits
<1> DEFINE t == 2 ^ TREE_LEVELS
<1>1. t \in Nat /\ t > 0 /\ TREE_LEVELS < t
  BY PowerOfTwo, PowerIsLarger
<1>2. IdBits \in Nat /\ (t - 1) * BLOCKS_PER_BUCKET <= IdModulus - 1
  BY WidthAssumption
<1>3. IdModulus \in Nat /\ IdModulus > 0
  BY <1>2, PowerOfTwo DEF IdModulus
<1> HIDE DEF t
<1>4. t - 1 <= (t - 1) * BLOCKS_PER_BUCKET
  BY <1>1
<1>5. t <= IdModulus
  <2>1. (t - 1) * BLOCKS_PER_BUCKET \in Int
    BY <1>1
  <2> QED  BY <1>1, <1>2, <1>3, <1>4, <2>1
<1>6. TREE_LEVELS <= IdBits
  <2>1. SUFFICES ASSUME IdBits + 1 <= TREE_LEVELS PROVE FALSE
    BY <1>2
  <2>2. 2 ^ (IdBits + 1) <= t
    BY <1>2, <2>1, PowersGrow, IdBits + 1 \in Nat DEF t
  <2>3. 2 ^ (IdBits + 1) = 2 * IdModulus
    BY <1>2, PowerOfTwo DEF IdModulus
  <2> QED  BY <1>1, <1>3, <1>5, <2>2, <2>3
<1> QED  BY <1>1, <1>2, <1>3, <1>5, <1>6 DEF t

LEMMA Wrapped ==
  /\ \A n \in Int : Wrap(n) \in BlockIds
  /\ \A n \in BlockIds : Wrap(n) = n
  /\ BlockIds \subseteq Nat
  /\ \A n \in Int : -IdModulus <= n /\ n < 0 => Wrap(n) = n + IdModulus
<1>1. IdModulus \in Nat /\ IdModulus > 0
  BY Widths
<1> HIDE DEF IdModulus
<1>2. \A n \in BlockIds : Wrap(n) = n
  BY <1>1 DEF Wrap, BlockIds
<1>3. \A n \in Int : Wrap(n) \in BlockIds
  BY <1>1 DEF Wrap, BlockIds
<1>4. ASSUME NEW n \in Int, -IdModulus <= n, n < 0
      PROVE  Wrap(n) = n + IdModulus
  <2>1. \A m \in Nat \ {0} : \A d \in Int : -m <= d /\ d < 0 => d % m = d + m
    OBVIOUS
  <2> QED  BY <1>1, <1>4, <2>1 DEF Wrap
<1> QED  BY <1>2, <1>3, <1>4 DEF BlockIds

LEMMA LeafFits ==
  ASSUME NEW leaf \in LeafIds
  PROVE  /\ leaf \in Nat /\ leaf - 1 \in BlockIds /\ leaf # 0
         /\ Wrap(leaf - 1) = leaf - 1
         /\ leaf - 1 < 2 ^ (TREE_LEVELS - 1)
<1>1. /\ TREE_LEVELS - 1 \in Nat /\ (TREE_LEVELS - 1) + 1 = TREE_LEVELS
      /\ 2 ^ (TREE_LEVELS - 1) \in Nat
  BY PowerOfTwo
<1>2. 2 ^ TREE_LEVELS = 2 * 2 ^ (TREE_LEVELS - 1)
  BY <1>1, PowerOfTwo
<1>3. leaf \in Nat /\ leaf > 0 /\ leaf <= 2 ^ (TREE_LEVELS - 1)
  BY <1>1 DEF LeafIds
<1>4. leaf - 1 \in BlockIds
  BY <1>1, <1>2, <1>3, Widths DEF BlockIds
<1> QED  BY <1>1, <1>3, <1>4, Wrapped

-----------------------------------------------------------------------------
(***************************************************************************)
(* The server's loop.  Before its i-th round the bits i .. TREE_LEVELS - 2 *)
(* of leaf_id are the lowest bits of what it was at the start (the ones    *)
(* the mask can still meet), whatever the shifts pushed out at the top,    *)
(* and tree_idx is the number of the bucket the first i of them lead to.   *)
(***************************************************************************)
Bit(n, b) == (n \div 2 ^ b) % 2

ServerInv ==
  /\ pc = "check" =>
       /\ args = <<leaf_id>> /\ leaf_id \in BlockIds
       /\ tree_idx = 1 /\ i = 0 /\ branch_indexes = <<>>
  /\ pc = "refused" => args[1] \notin LeafIds
  /\ pc \in {"indexes", "indexed"} =>
       /\ args[1] \in LeafIds /\ i \in 0 .. TREE_LEVELS /\ leaf_id \in BlockIds
       /\ \A b \in i .. TREE_LEVELS - 2 : Bit(leaf_id, b) = Bit(args[1] - 1, b - i)
       /\ i < TREE_LEVELS => tree_idx = Number(Bucket(args[1], i))
       /\ branch_indexes = [n \in 1 .. i |-> Number(Bucket(args[1], n - 1))]
  /\ pc = "indexed" => i = TREE_LEVELS

(***************************************************************************)
(* The client's loop.  After k rounds both leaves are k bits shorter and   *)
(* were different at every round before; idx counts the rounds.  That two  *)
(* leaves agree after k rounds says that their branches agree down to      *)
(* level TREE_LEVELS - 1 - k.                                              *)
(***************************************************************************)
First  == Wrap(args[1] - 1)
Second == Wrap(args[2] - 1)

ClientInv ==
  /\ pc \in {"intersect", "found"} =>
       /\ args[1] \in LeafIds /\ args[2] \in LeafIds \cup {0}
       /\ \E k \in BlockIds :
            /\ idx = Wrap(TREE_LEVELS - 1 - k)
            /\ leaf_id_1 = First \div 2 ^ k /\ leaf_id_2 = Second \div 2 ^ k
            /\ \A j \in 0 .. k - 1 : First \div 2 ^ j # Second \div 2 ^ j
  /\ pc = "found" => leaf_id_1 = leaf_id_2

LEMMA ServerInit == Init => ServerInv
<1>1. ASSUME NEW leaf \in BlockIds, ServerCall(leaf) PROVE ServerInv
  BY <1>1 DEF ServerCall, ServerInv
<1>2. ASSUME NEW leaf1, NEW leaf2, ClientCall(leaf1, leaf2) PROVE ServerInv
  BY <1>2 DEF ClientCall, ServerInv
<1> QED  BY <1>1, <1>2 DEF Init

LEMMA PushIndexKeeps == ServerInv /\ PushIndex => ServerInv'
<1> SUFFICES ASSUME ServerInv, PushIndex PROVE ServerInv'
  OBVIOUS
<1> DEFINE leaf == args[1]
           G(n) == Number(Bucket(leaf, n - 1))
<1>1. /\ leaf \in LeafIds /\ i \in 0 .. TREE_LEVELS /\ leaf_id \in BlockIds
      /\ \A b \in i .. TREE_LEVELS - 2 : Bit(leaf_id, b) = Bit(leaf - 1, b - i)
      /\ tree_idx = Number(Bucket(leaf, i))
      /\ branch_indexes = [n \in 1 .. i |-> G(n)]
      /\ i \in Levels
  BY DEF ServerInv, PushIndex, Levels
<1>2. /\ pc = "indexes" /\ pc' = "indexes" /\ args' = args
      /\ leaf_id' = Wrap(leaf_id * 2) /\ i' = i + 1
      /\ tree_idx' = Wrap(tree_idx * 2 + GoesRight)
      /\ branch_indexes' = Append(branch_indexes, tree_idx)
  BY DEF PushIndex
<1>3. /\ IdModulus \in Nat /\ IdBits \in Nat
      /\ 2 ^ TREE_LEVELS <= IdModulus /\ TREE_LEVELS <= IdBits
  BY Widths
<1>4. leaf_id \in Nat
  BY <1>1, Wrapped
<1>5. leaf_id' \in BlockIds
  BY <1>2, <1>4, Wrapped
<1>6. ASSUME NEW b \in i + 1 .. TREE_LEVELS - 2
      PROVE  Bit(leaf_id', b) = Bit(leaf - 1, b - (i + 1))
  <2>1. b \in Nat /\ b > 0 /\ b < IdBits /\ b - 1 \in i .. TREE_LEVELS - 2
    BY <1>1, <1>3
  <2>2. (((2 * leaf_id) % 2 ^ IdBits) \div 2 ^ b) % 2 = (leaf_id \div 2 ^ (b - 1)) % 2
    BY <1>3, <1>4, <2>1, ShiftedBit
  <2>3. leaf_id' = (2 * leaf_id) % 2 ^ IdBits
    <3>1. leaf_id * 2 = 2 * leaf_id
      BY <1>4
    <3> QED  BY <1>2, <3>1, Zenon DEF Wrap, IdModulus
  <2>4. Bit(leaf_id', b) = Bit(leaf_id, b - 1)
    BY <2>2, <2>3, Zenon DEF Bit
  <2>5. Bit(leaf_id, b - 1) = Bit(leaf - 1, (b - 1) - i)
    BY <1>1, <2>1
  <2>6. (b - 1) - i = b - (i + 1)
    BY <1>1
  <2> QED  BY <2>4, <2>5, <2>6
<1>7. ASSUME i + 1 < TREE_LEVELS
      PROVE  tree_idx' = Number(Bucket(leaf, i + 1))
  <2>1. i \in Nat /\ i + 1 \in Levels /\ TREE_LEVELS - 2 \in i .. TREE_LEVELS - 2
    BY <1>1, <1>7 DEF Levels
  <2>2. GoesRight = Bit(leaf_id, TREE_LEVELS - 2)
    BY DEF GoesRight, Bit
  <2>3. GoesRight = Bit(leaf - 1, (TREE_LEVELS - 2) - i)
    BY <1>1, <2>1, <2>2
  <2>4. (TREE_LEVELS - 2) - i = TREE_LEVELS - 1 - (i + 1)
    BY <2>1
  <2>5. GoesRight = Turn(leaf, i + 1)
    BY <2>3, <2>4, Zenon DEF Bit, Turn
  <2> DEFINE n == Number(Bucket(leaf, i))
             m == Number(Bucket(leaf, i + 1))
  <2>6. m = 2 * n + GoesRight
    BY <2>1, <2>5, NumberOfBucket
  <2>7. n \in Nat /\ m \in Nat /\ m < 2 ^ ((i + 1) + 1)
    BY <1>1, <2>1, NumberBounds, LeafFits
  <2>8. 2 ^ ((i + 1) + 1) <= 2 ^ TREE_LEVELS
    BY <2>1, <1>7, PowersGrow, (i + 1) + 1 \in Nat
  <2>9. 2 ^ ((i + 1) + 1) \in Nat /\ 2 ^ TREE_LEVELS \in Nat
    BY <2>1, PowerOfTwo, (i + 1) + 1 \in Nat
  <2>10. m \in BlockIds
    BY <1>3, <2>7, <2>8, <2>9 DEF BlockIds
  <2>11. tree_idx * 2 + GoesRight = m
    <3>1. GoesRight \in Int
      <4>1. leaf_id \div 2 ^ (TREE_LEVELS - 2) \in Nat
        BY <1>4, Halved, TREE_LEVELS - 2 \in Nat
      <4> QED  BY <4>1 DEF GoesRight
    <3> HIDE DEF n, m
    <3>2. tree_idx = n
      BY <1>1 DEF n
    <3> QED  BY <2>6, <2>7, <3>1, <3>2
  <2> HIDE DEF m
  <2>12. tree_idx' = m
    BY <1>2, <2>10, <2>11, Wrapped
  <2> QED  BY <2>12 DEF m
<1>8. branch_indexes' = [n \in 1 .. i + 1 |-> G(n)]
  <2>1. tree_idx = G(i + 1)
    BY <1>1, (i + 1) - 1 = i
  <2> HIDE DEF G
  <2>2. i \in Nat
    BY <1>1
  <2>3. Len(branch_indexes) = i
    BY <1>1, <2>2
  <2> QED  BY <1>1, <1>2, <2>1, <2>2, <2>3
<1>9. i + 1 \in 0 .. TREE_LEVELS
  BY <1>1 DEF Levels
<1> QED  BY <1>1, <1>2, <1>5, <1>6, <1>7, <1>8, <1>9 DEF ServerInv

LEMMA ServerStep == ServerInv /\ [Next]_vars => ServerInv'
<1> SUFFICES ASSUME ServerInv, [Next]_vars PROVE ServerInv'
  OBVIOUS
<1>1. CASE RefuseLeaf
  <2>1. leaf_id \notin LeafIds
    <3>1. 2 ^ (TREE_LEVELS - 1) \in Nat
      BY PowerOfTwo, TREE_LEVELS - 1 \in Nat
    <3>2. leaf_id \in Nat
      BY <1>1, Wrapped DEF RefuseLeaf, ServerInv
    <3> QED  BY <1>1, <3>1, <3>2 DEF RefuseLeaf, LeafIds
  <2>2. args'[1] = leaf_id
    BY <1>1 DEF RefuseLeaf, ServerInv
  <2> QED  BY <1>1, <2>1, <2>2 DEF RefuseLeaf, ServerInv
<1>2. CASE AcceptLeaf
  <2>1. /\ args = <<leaf_id>> /\ leaf_id \in BlockIds /\ args' = args
        /\ tree_idx = 1 /\ i = 0 /\ branch_indexes = <<>>
        /\ tree_idx' = 1 /\ i' = 0 /\ branch_indexes' = <<>>
        /\ pc' = "indexes" /\ leaf_id' = leaf_id - 1
        /\ ~(leaf_id = 0 \/ leaf_id > 2 ^ (TREE_LEVELS - 1))
    BY <1>2 DEF AcceptLeaf, ServerInv, server, client
  <2>2. args[1] = leaf_id
    BY <2>1
  <2>3. leaf_id \in LeafIds
    <3>1. 2 ^ (TREE_LEVELS - 1) \in Nat
      BY PowerOfTwo, TREE_LEVELS - 1 \in Nat
    <3>2. leaf_id \in Nat
      BY <2>1, Wrapped
    <3> QED  BY <2>1, <3>1, <3>2 DEF LeafIds
  <2>4. leaf_id' \in BlockIds
    BY <2>1, <2>3, LeafFits
  <2>5. tree_idx' = Number(Bucket(args'[1], 0))
    BY <2>1, NumberOfBucket
  <2>6. branch_indexes' = [n \in 1 .. 0 |-> Number(Bucket(args'[1], n - 1))]
    BY <2>1
  <2>7. \A b \in 0 .. TREE_LEVELS - 2 : Bit(leaf_id', b) = Bit(args'[1] - 1, b - 0)
    BY <2>1, <2>2
  <2> QED  BY <2>1, <2>2, <2>3, <2>4, <2>5, <2>6, <2>7 DEF ServerInv
<1>3. CASE PushIndex
  BY <1>3, PushIndexKeeps
<1>4. CASE ReturnIndexes
  BY <1>4 DEF ReturnIndexes, ServerInv, server, client
<1>5. CASE ShiftBoth
  BY <1>5 DEF ShiftBoth, ServerInv, server
<1>6. CASE ReturnBucket
  BY <1>6 DEF ReturnBucket, ServerInv, server, client
<1>7. CASE UNCHANGED vars
  BY <1>7 DEF vars, ServerInv, server, client
<1> QED  BY <1>1, <1>2, <1>3, <1>4, <1>5, <1>6, <1>7 DEF Next

(***************************************************************************)
(* The server serves the leaves of the tree and no other id, and touches   *)
(* exactly the buckets of the leaf's branch, root first, under numbers     *)
(* that fit a blkid_t and are not 0.                                       *)
(***************************************************************************)
THEOREM ServerNamesTheBranch == Spec => []IndexesNameTheBranch
<1>1. ServerInv => IndexesNameTheBranch
  <2> SUFFICES ASSUME ServerInv, pc = "indexed" PROVE
        /\ args[1] \in LeafIds
        /\ branch_indexes = [n \in 1 .. TREE_LEVELS |-> Number(Bucket(args[1], n - 1))]
        /\ \A n \in 1 .. TREE_LEVELS : branch_indexes[n] \in BlockIds \ {0}
    BY DEF ServerInv, IndexesNameTheBranch
  <2>1. /\ args[1] \in LeafIds
        /\ branch_indexes = [n \in 1 .. TREE_LEVELS |-> Number(Bucket(args[1], n - 1))]
    BY DEF ServerInv
  <2>2. ASSUME NEW n \in 1 .. TREE_LEVELS
        PROVE  Number(Bucket(args[1], n - 1)) \in BlockIds \ {0}
    <3>1. n - 1 \in Nat /\ n - 1 \in Levels /\ (n - 1) + 1 = n /\ n \in Nat /\ n <= TREE_LEVELS
      BY DEF Levels
    <3> DEFINE m == Number(Bucket(args[1], n - 1))
    <3>2. m \in Nat /\ 2 ^ (n - 1) <= m /\ m < 2 ^ n
      BY <2>1, <3>1, NumberBounds, LeafFits
    <3>3. /\ 2 ^ n <= 2 ^ TREE_LEVELS /\ 2 ^ (n - 1) \in Nat \ {0}
          /\ 2 ^ n \in Nat /\ 2 ^ TREE_LEVELS \in Nat
      BY <3>1, PowersGrow, PowerOfTwo
    <3> HIDE DEF m
    <3>4. m \in BlockIds \ {0}
      BY <3>2, <3>3, Widths DEF BlockIds
    <3> QED  BY <3>4 DEF m
  <2> QED  BY <2>1, <2>2
<1> QED  BY <1>1, ServerInit, ServerStep, PTL DEF Spec

-----------------------------------------------------------------------------
LEMMA ClientInit == Init => ClientInv
<1>1. ASSUME NEW leaf, ServerCall(leaf) PROVE ClientInv
  BY <1>1 DEF ServerCall, ClientInv
<1>2. ASSUME NEW leaf1 \in LeafIds, NEW leaf2 \in LeafIds \cup {0}, ClientCall(leaf1, leaf2)
      PROVE  ClientInv
  <2>1. /\ pc = "intersect" /\ args[1] = leaf1 /\ args[2] = leaf2
        /\ leaf_id_1 = First /\ leaf_id_2 = Second /\ idx = TREE_LEVELS - 1
    BY <1>2 DEF ClientCall, First, Second
  <2>2. First \in Nat /\ Second \in Nat
    <3>1. leaf1 - 1 \in Int /\ leaf2 - 1 \in Int
      BY LeafFits
    <3> QED  BY <2>1, <3>1, Wrapped DEF First, Second
  <2>3. First \div 2 ^ 0 = First /\ Second \div 2 ^ 0 = Second
    BY <2>2, PowerOfTwo
  <2>4. 0 \in BlockIds /\ idx = Wrap(TREE_LEVELS - 1 - 0)
    BY <2>1, Widths, Wrapped, TREE_LEVELS - 1 - 0 \in BlockIds DEF BlockIds
  <2>5. \A j \in 0 .. 0 - 1 : First \div 2 ^ j # Second \div 2 ^ j
    OBVIOUS
  <2> QED  BY <2>1, <2>3, <2>4, <2>5 DEF ClientInv
<1> QED  BY <1>1, <1>2 DEF Init

LEMMA ArgumentsFit ==
  ASSUME args[1] \in LeafIds, args[2] \in LeafIds \cup {0}
  PROVE  /\ First \in BlockIds /\ First = args[1] - 1 /\ First < 2 ^ (TREE_LEVELS - 1)
         /\ Second \in BlockIds
         /\ args[2] = 0 => Second = IdModulus - 1
         /\ args[2] # 0 => Second = args[2] - 1 /\ Second < 2 ^ (TREE_LEVELS - 1)
         /\ First \in Nat /\ Second \in Nat
<1>1. First \in BlockIds /\ First = args[1] - 1 /\ First < 2 ^ (TREE_LEVELS - 1)
  BY LeafFits DEF First
<1>2. args[2] # 0 => /\ Second \in BlockIds /\ Second = args[2] - 1
                     /\ Second < 2 ^ (TREE_LEVELS - 1)
  BY LeafFits DEF Second
<1>3. args[2] = 0 => Second \in BlockIds /\ Second = IdModulus - 1
  <2>1. IdModulus \in Nat /\ TREE_LEVELS < IdModulus
    BY Widths
  <2>2. Wrap(-1) = -1 + IdModulus /\ Wrap(-1) \in BlockIds
    BY <2>1, Wrapped
  <2> QED  BY <2>1, <2>2 DEF Second
<1> QED  BY <1>1, <1>2, <1>3, Wrapped

\* Counting down goes on from 0 to the largest blkid_t.
LEMMA CountDown ==
  ASSUME NEW x \in Int, x < IdModulus, -IdModulus < x
  PROVE  Wrap(Wrap(x) - 1) = Wrap(x - 1)
<1>1. IdModulus \in Nat
  BY Widths
<1>2. CASE x >= 0
  BY <1>1, <1>2, Wrapped DEF BlockIds
<1>3. CASE x < 0
  <2>1. Wrap(x) = x + IdModulus
    BY <1>1, <1>3, Wrapped
  <2>2. x + IdModulus - 1 \in BlockIds
    BY <1>1, <1>3 DEF BlockIds
  <2>3. Wrap(x + IdModulus - 1) = x + IdModulus - 1
    BY <2>2, Wrapped
  <2>4. Wrap(x - 1) = (x - 1) + IdModulus
    BY <1>1, <1>3, Wrapped
  <2> QED  BY <1>1, <2>1, <2>3, <2>4
<1> QED  BY <1>2, <1>3

LEMMA ShiftBothKeeps == ClientInv /\ ShiftBoth => ClientInv'
<1> SUFFICES ASSUME ClientInv, ShiftBoth PROVE ClientInv'
  OBVIOUS
<1>1. /\ pc = "intersect" /\ pc' = "intersect" /\ args' = args
      /\ leaf_id_1 # leaf_id_2
      /\ leaf_id_1' = leaf_id_1 \div 2 /\ leaf_id_2' = leaf_id_2 \div 2
      /\ idx' = Wrap(idx - 1)
  BY DEF ShiftBoth
<1>2. args[1] \in LeafIds /\ args[2] \in LeafIds \cup {0}
  BY <1>1 DEF ClientInv
<1>3. PICK k \in BlockIds :
        /\ idx = Wrap(TREE_LEVELS - 1 - k)
        /\ leaf_id_1 = First \div 2 ^ k /\ leaf_id_2 = Second \div 2 ^ k
        /\ \A j \in 0 .. k - 1 : First \div 2 ^ j # Second \div 2 ^ j
  BY <1>1 DEF ClientInv
<1>4. First' = First /\ Second' = Second
  BY <1>1 DEF First, Second
<1>5. /\ First \in BlockIds /\ Second \in BlockIds /\ First \in Nat /\ Second \in Nat
      /\ k \in Nat /\ k < IdModulus /\ IdModulus \in Nat /\ TREE_LEVELS < IdModulus
  BY <1>2, ArgumentsFit, Widths, Wrapped DEF BlockIds
<1>6. k + 1 \in BlockIds
  <2>1. SUFFICES ASSUME k = IdModulus - 1 PROVE FALSE
    BY <1>5 DEF BlockIds
  <2>2. k < 2 ^ k /\ 2 ^ k \in Nat
    BY <1>5, PowerIsLarger, PowerOfTwo
  <2>3. First < 2 ^ k /\ Second < 2 ^ k
    BY <1>5, <2>1, <2>2 DEF BlockIds
  <2>4. First \div 2 ^ k = 0 /\ Second \div 2 ^ k = 0
    BY <1>5, <2>3, ShiftedOut
  <2> QED  BY <1>1, <1>3, <2>4
<1>7. leaf_id_1' = First \div 2 ^ (k + 1) /\ leaf_id_2' = Second \div 2 ^ (k + 1)
  <2>1. First \div 2 ^ (k + 1) = (First \div 2 ^ k) \div 2
    BY <1>5, Halved
  <2>2. Second \div 2 ^ (k + 1) = (Second \div 2 ^ k) \div 2
    BY <1>5, Halved
  <2> QED  BY <1>1, <1>3, <2>1, <2>2, Zenon
<1>8. idx' = Wrap(TREE_LEVELS - 1 - (k + 1))
  <2> DEFINE x == TREE_LEVELS - 1 - k
  <2>1. x \in Int /\ x < IdModulus /\ -IdModulus < x
        /\ x - 1 = TREE_LEVELS - 1 - (k + 1)
    BY <1>5
  <2>2. idx' = Wrap(Wrap(x) - 1)
    BY <1>1, <1>3
  <2> HIDE DEF x
  <2>3. Wrap(Wrap(x) - 1) = Wrap(x - 1)
    BY <2>1, CountDown
  <2> QED  BY <2>1, <2>2, <2>3
<1>9. \A j \in 0 .. (k + 1) - 1 : First \div 2 ^ j # Second \div 2 ^ j
  <2>1. First \div 2 ^ k # Second \div 2 ^ k
    BY <1>1, <1>3, Zenon
  <2>2. \A j \in 0 .. (k + 1) - 1 : j = k \/ j \in 0 .. k - 1
    BY <1>5
  <2> QED  BY <1>3, <2>1, <2>2, Zenon
<1> QED
  <2>1. \E n \in BlockIds :
          /\ idx' = Wrap(TREE_LEVELS - 1 - n)
          /\ leaf_id_1' = First' \div 2 ^ n /\ leaf_id_2' = Second' \div 2 ^ n
          /\ \A j \in 0 .. n - 1 : First' \div 2 ^ j # Second' \div 2 ^ j
    BY <1>4, <1>6, <1>7, <1>8, <1>9, Zenon
  <2> QED  BY <1>1, <1>2, <2>1, Zenon DEF ClientInv

LEMMA ClientStep == ClientInv /\ [Next]_vars => ClientInv'
<1> SUFFICES ASSUME ClientInv, [Next]_vars PROVE ClientInv'
  OBVIOUS
<1>1. CASE RefuseLeaf
  BY <1>1 DEF RefuseLeaf, ClientInv
<1>2. CASE AcceptLeaf
  BY <1>2 DEF AcceptLeaf, ClientInv
<1>3. CASE PushIndex
  BY <1>3 DEF PushIndex, ClientInv
<1>4. CASE ReturnIndexes
  BY <1>4 DEF ReturnIndexes, ClientInv
<1>5. CASE ShiftBoth
  BY <1>5, ShiftBothKeeps
<1>6. CASE ReturnBucket
  BY <1>6 DEF ReturnBucket, ClientInv, client, First, Second
<1>7. CASE UNCHANGED vars
  BY <1>7 DEF vars, client, ClientInv, First, Second
<1> QED  BY <1>1, <1>2, <1>3, <1>4, <1>5, <1>6, <1>7 DEF Next

\* Two branches share their bucket at depth d when all but the lowest
\* TREE_LEVELS - 1 - d bits of their leaves agree.
LEMMA SameBucket ==
  ASSUME NEW leaf1 \in LeafIds, NEW leaf2 \in LeafIds, NEW d \in Levels
  PROVE  Bucket(leaf1, d) = Bucket(leaf2, d)
           <=> (leaf1 - 1) \div 2 ^ (TREE_LEVELS - 1 - d)
                 = (leaf2 - 1) \div 2 ^ (TREE_LEVELS - 1 - d)
<1> DEFINE Top(leaf, e) == (leaf - 1) \div 2 ^ (TREE_LEVELS - 1 - e)
<1>0. /\ leaf1 - 1 \in Nat /\ leaf2 - 1 \in Nat
      /\ leaf1 - 1 < 2 ^ (TREE_LEVELS - 1) /\ leaf2 - 1 < 2 ^ (TREE_LEVELS - 1)
  BY LeafFits, Wrapped
<1>1. ASSUME Top(leaf1, d) = Top(leaf2, d)
      PROVE  Bucket(leaf1, d) = Bucket(leaf2, d)
  <2>1. ASSUME NEW t \in 1 .. d PROVE Turn(leaf1, t) = Turn(leaf2, t)
    <3>1. /\ TREE_LEVELS - 1 - d \in Nat /\ TREE_LEVELS - 1 - t \in Nat
          /\ TREE_LEVELS - 1 - d <= TREE_LEVELS - 1 - t
      BY DEF Levels
    <3>2. Top(leaf1, t) = Top(leaf2, t)
      <4>1. Shifted(leaf1 - 1, TREE_LEVELS - 1 - d) = Shifted(leaf2 - 1, TREE_LEVELS - 1 - d)
        BY <1>1 DEF Shifted
      <4>2. Shifted(leaf1 - 1, TREE_LEVELS - 1 - t) = Shifted(leaf2 - 1, TREE_LEVELS - 1 - t)
        BY <1>0, <3>1, <4>1, StayEqual
      <4> QED  BY <4>2 DEF Shifted
    <3> QED  BY <3>2 DEF Turn
  <2> QED  BY <2>1 DEF Bucket
<1>2. ASSUME Bucket(leaf1, d) = Bucket(leaf2, d)
      PROVE  Top(leaf1, d) = Top(leaf2, d)
  <2> DEFINE Bad == {e \in Levels : e <= d /\ Top(leaf1, e) # Top(leaf2, e)}
  <2>1. SUFFICES ASSUME Bad # {} PROVE FALSE
    <3>1. d <= d
      BY DEF Levels
    <3>2. ASSUME Top(leaf1, d) # Top(leaf2, d) PROVE d \in Bad
      BY <3>1, <3>2
    <3> HIDE DEF Bad, Top
    <3> QED  BY <3>2
  <2>2. PICK e \in Bad : \A b \in Bad : e <= b
    BY <2>1, LeastElement, Bad \subseteq Nat DEF Levels
  <2>3. e \in Nat /\ e <= d /\ e \in Levels
    BY <2>2 DEF Levels
  <2>4. e # 0
    <3>1. TREE_LEVELS - 1 - 0 = TREE_LEVELS - 1 /\ TREE_LEVELS - 1 \in Nat
      OBVIOUS
    <3>2. Top(leaf1, 0) = 0 /\ Top(leaf2, 0) = 0
      BY <1>0, <3>1, ShiftedOut
    <3> QED  BY <2>2, <3>2
  <2>5. e - 1 \in Levels /\ e - 1 <= d /\ e - 1 \notin Bad /\ e \in 1 .. d
    BY <2>2, <2>3, <2>4 DEF Levels
  <2>6. Top(leaf1, e - 1) = Top(leaf2, e - 1)
    BY <2>5
  <2> DEFINE k == TREE_LEVELS - 1 - e
  <2>7. k \in Nat /\ TREE_LEVELS - 1 - (e - 1) = k + 1
    BY <2>3 DEF Levels
  <2>8. Turn(leaf1, e) = Turn(leaf2, e)
    <3>1. Bucket(leaf1, d)[e] = Turn(leaf1, e) /\ Bucket(leaf2, d)[e] = Turn(leaf2, e)
      BY <2>5 DEF Bucket
    <3> QED  BY <1>2, <3>1
  <2> DEFINE p == (leaf1 - 1) \div 2 ^ k
             q == (leaf2 - 1) \div 2 ^ k
  <2>9. /\ p \in Nat /\ (leaf1 - 1) \div 2 ^ (k + 1) = p \div 2
        /\ q \in Nat /\ (leaf2 - 1) \div 2 ^ (k + 1) = q \div 2
    <3> HIDE DEF k
    <3> QED  BY <1>0, <2>7, Halved
  <2>10. p \div 2 = q \div 2
    BY <2>6, <2>7, <2>9
  <2>11. p % 2 = q % 2
    BY <2>8 DEF Turn
  <2>12. p = q
    <3> HIDE DEF p, q
    <3> QED  BY <2>9, <2>10, <2>11
  <2> QED  BY <2>2, <2>12
<1> QED  BY <1>1, <1>2

\* What the loop has found when it ends.
LEMMA Found ==
  ASSUME ClientInv, pc = "found"
  PROVE  /\ args[1] \in LeafIds /\ args[2] \in LeafIds \cup {0}
         /\ \E k \in Nat :
              /\ k < IdModulus
              /\ idx = Wrap(TREE_LEVELS - 1 - k)
              /\ First \div 2 ^ k = Second \div 2 ^ k
              /\ \A j \in 0 .. k - 1 : First \div 2 ^ j # Second \div 2 ^ j
<1>1. args[1] \in LeafIds /\ args[2] \in LeafIds \cup {0} /\ leaf_id_1 = leaf_id_2
  BY DEF ClientInv
<1>2. PICK k \in BlockIds :
        /\ idx = Wrap(TREE_LEVELS - 1 - k)
        /\ leaf_id_1 = First \div 2 ^ k /\ leaf_id_2 = Second \div 2 ^ k
        /\ \A j \in 0 .. k - 1 : First \div 2 ^ j # Second \div 2 ^ j
  BY DEF ClientInv
<1>3. k \in Nat /\ k < IdModulus
  BY Widths DEF BlockIds
<1>4. First \div 2 ^ k = Second \div 2 ^ k
  BY <1>1, <1>2, Zenon
<1> QED  BY <1>1, <1>2, <1>3, <1>4, Zenon

(***************************************************************************)
(* For two leaves of the tree the client's shifts find the lowest bucket   *)
(* that their branches share: the level the blocks of one access may sink  *)
(* to when the branch of another leaf is written back.                     *)
(***************************************************************************)
THEOREM ClientFindsLowestBucket == Spec => []IntersectionIsLowest
<1>1. ClientInv => IntersectionIsLowest
  <2> SUFFICES ASSUME ClientInv, pc = "found", 0 \notin {args[1], args[2]}
               PROVE  idx = find_intersection_bucket(args[1], args[2])
    BY DEF IntersectionIsLowest
  <2> DEFINE f == find_intersection_bucket(args[1], args[2])
  <2>1. args[1] \in LeafIds /\ args[2] \in LeafIds
    BY Found
  <2>2. PICK k \in Nat :
          /\ idx = Wrap(TREE_LEVELS - 1 - k)
          /\ First \div 2 ^ k = Second \div 2 ^ k
          /\ \A j \in 0 .. k - 1 : First \div 2 ^ j # Second \div 2 ^ j
    BY Found
  <2>3. /\ First \in Nat /\ First = args[1] - 1 /\ First < 2 ^ (TREE_LEVELS - 1)
        /\ Second \in Nat /\ Second = args[2] - 1 /\ Second < 2 ^ (TREE_LEVELS - 1)
    BY <2>1, ArgumentsFit
  <2>4. k <= TREE_LEVELS - 1
    <3>1. SUFFICES ASSUME k > TREE_LEVELS - 1 PROVE FALSE
      OBVIOUS
    <3>2. TREE_LEVELS - 1 \in 0 .. k - 1 /\ TREE_LEVELS - 1 \in Nat
      BY <3>1
    <3>3. First \div 2 ^ (TREE_LEVELS - 1) = 0 /\ Second \div 2 ^ (TREE_LEVELS - 1) = 0
      BY <2>3, <3>2, ShiftedOut
    <3> QED  BY <2>2, <3>2, <3>3
  <2> DEFINE e == TREE_LEVELS - 1 - k
  <2>5. e \in Levels /\ TREE_LEVELS - 1 - e = k
    BY <2>4 DEF Levels
  <2>6. idx = e
    <3>1. e \in BlockIds
      BY <2>5, Widths DEF BlockIds, Levels
    <3> QED  BY <2>2, <3>1, Wrapped
  <2> HIDE DEF e
  <2>7. Bucket(args[1], e) = Bucket(args[2], e)
    BY <2>1, <2>2, <2>3, <2>5, SameBucket
  <2>8. /\ f \in Levels
        /\ \A d \in Levels : Bucket(args[1], d) = Bucket(args[2], d) <=> d <= f
    BY IntersectionBucket
  <2> HIDE DEF f
  <2>9. e <= f
    BY <2>5, <2>7, <2>8
  <2>10. ~(e < f)
    <3>1. SUFFICES ASSUME e < f PROVE FALSE
      OBVIOUS
    <3>2. Bucket(args[1], f) = Bucket(args[2], f)
      BY <2>8 DEF Levels
    <3>3. First \div 2 ^ (TREE_LEVELS - 1 - f) = Second \div 2 ^ (TREE_LEVELS - 1 - f)
      BY <2>1, <2>3, <2>8, <3>2, SameBucket
    <3>4. TREE_LEVELS - 1 - f \in 0 .. k - 1
      BY <2>5, <2>8, <3>1 DEF Levels
    <3> QED  BY <2>2, <3>3, <3>4, Zenon
  <2> QED  BY <2>5, <2>6, <2>8, <2>9, <2>10 DEF Levels, f
<1> QED  BY <1>1, ClientInit, ClientStep, PTL DEF Spec

(***************************************************************************)
(* For an id without a leaf (leaf 0, which is decremented to the largest   *)
(* blkid_t) the client's loop counts idx past 0 and returns a number that  *)
(* is no level of the branch, whatever the width of a blkid_t.             *)
(***************************************************************************)
THEOREM NoLevelWithoutLeaf == Spec => []MissingLeafIsOutside
<1>1. ClientInv => MissingLeafIsOutside
  <2> SUFFICES ASSUME ClientInv, pc = "found", 0 \in {args[1], args[2]}
               PROVE  idx \notin Levels
    BY DEF MissingLeafIsOutside
  <2>1. args[1] \in LeafIds /\ args[2] = 0
    BY Found, LeafFits
  <2>2. PICK k \in Nat :
          /\ k < IdModulus
          /\ idx = Wrap(TREE_LEVELS - 1 - k)
          /\ First \div 2 ^ k = Second \div 2 ^ k
    BY Found
  <2>3. /\ First \in Nat /\ First < 2 ^ (TREE_LEVELS - 1)
        /\ Second \in Nat /\ Second = IdModulus - 1
    BY <2>1, ArgumentsFit
  <2>4. IdModulus \in Nat /\ 2 ^ TREE_LEVELS <= IdModulus
    BY Widths
  <2>5. k > TREE_LEVELS - 1
    <3>1. SUFFICES ASSUME k <= TREE_LEVELS - 1 PROVE FALSE
      OBVIOUS
    <3> DEFINE p == 2 ^ (TREE_LEVELS - 1)
    <3>2. First \div p = Second \div p
      <4> DEFINE t == TREE_LEVELS - 1
      <4>1. t \in Nat /\ k <= t
        BY <3>1
      <4> HIDE DEF t
      <4>2. Shifted(First, k) = Shifted(Second, k)
        BY <2>2 DEF Shifted
      <4>3. Shifted(First, t) = Shifted(Second, t)
        BY <2>3, <4>1, <4>2, StayEqual
      <4> QED  BY <4>3 DEF t, Shifted
    <3>3. First \div p = 0
      BY <2>3, ShiftedOut, TREE_LEVELS - 1 \in Nat
    <3>4. p \in Nat /\ p > 0 /\ 2 ^ TREE_LEVELS = 2 * p
      BY PowerOfTwo, TREE_LEVELS - 1 \in Nat, (TREE_LEVELS - 1) + 1 = TREE_LEVELS
    <3> HIDE DEF p
    <3>5. Second >= p
      BY <2>3, <2>4, <3>4
    <3>6. Second \div p # 0
      BY <2>3, <3>4, <3>5
    <3> QED  BY <3>2, <3>3, <3>6
  <2>6. idx = (TREE_LEVELS - 1 - k) + IdModulus
    BY <2>2, <2>4, <2>5, Wrapped
  <2> QED  BY <2>2, <2>4, <2>6 DEF Levels
<1> QED  BY <1>1, ClientInit, ClientStep, PTL DEF Spec
=============================================================================
