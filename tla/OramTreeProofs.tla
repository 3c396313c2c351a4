--------------------------- MODULE OramTreeProofs ---------------------------
(***************************************************************************)
(* Facts about the bucket tree, for every number of levels and every       *)
(* bucket size: slots and buckets of a branch correspond, a branch shares  *)
(* with another one exactly the buckets down to the intersection bucket,   *)
(* and writing a branch back is the inverse of reading it.                 *)
(***************************************************************************)
EXTENDS OramTree, WellFoundedInduction, TLAPS

USE TreeLevelsAssumption, BlocksPerBucketAssumption

(***************************************************************************)
(* A bucket's length is its depth.                                         *)
(***************************************************************************)
LEMMA BucketDepth ==
  ASSUME NEW leaf, NEW d \in Levels
  PROVE  Len(Bucket(leaf, d)) = d
BY DEF Bucket, Levels

(***************************************************************************)
(* The slots of a branch are its levels times the places of a bucket       *)
(* (server.cpp: current_bucket * BLOCKS_PER_BUCKET + current_block).       *)
(***************************************************************************)
LEMMA SlotParts ==
  ASSUME NEW s \in Slots
  PROVE  /\ LevelOf(s) \in Levels
         /\ PlaceOf(s) \in Places
         /\ s = LevelOf(s) * BLOCKS_PER_BUCKET + PlaceOf(s)
<1> DEFINE B == BLOCKS_PER_BUCKET
           q == s \div B
           r == s % B
<1>1. B \in Nat /\ B > 0 /\ s \in Nat /\ s < TREE_LEVELS * B
  BY DEF Slots
<1>2. q \in Int /\ r \in 0 .. B - 1 /\ s = B * q + r
  BY <1>1
<1>3. q >= 0
  BY <1>1, <1>2
<1>4. q < TREE_LEVELS
  <2>1. SUFFICES ASSUME q >= TREE_LEVELS PROVE FALSE
    BY <1>2
  <2>2. B * q >= B * TREE_LEVELS
    BY <1>1, <1>2, <2>1
  <2> QED BY <1>1, <1>2, <2>2
<1> QED BY <1>1, <1>2, <1>3, <1>4 DEF LevelOf, PlaceOf, Levels, Places

LEMMA SlotOf ==
  ASSUME NEW d \in Levels, NEW k \in Places
  PROVE  /\ d * BLOCKS_PER_BUCKET + k \in Slots
         /\ LevelOf(d * BLOCKS_PER_BUCKET + k) = d
         /\ PlaceOf(d * BLOCKS_PER_BUCKET + k) = k
<1> DEFINE B == BLOCKS_PER_BUCKET
           s == d * B + k
<1>1. /\ B \in Nat /\ B > 0 /\ d \in Nat /\ d <= TREE_LEVELS - 1
      /\ k \in Nat /\ k < B
  BY DEF Levels, Places
<1>2. d * B <= (TREE_LEVELS - 1) * B /\ d * B >= 0 /\ d * B \in Int
  BY <1>1
<1>3. s \in Slots
  BY <1>1, <1>2 DEF Slots
<1>4. s \div B = d /\ s % B = k
  BY <1>1, <1>2
<1> QED BY <1>3, <1>4 DEF LevelOf, PlaceOf

(***************************************************************************)
(* Two branches that share a bucket share all buckets above it.            *)
(***************************************************************************)
LEMMA SharedAbove ==
  ASSUME NEW leaf1, NEW leaf2, NEW d \in Levels, NEW e \in Levels,
         e <= d, Bucket(leaf1, d) = Bucket(leaf2, d)
  PROVE  Bucket(leaf1, e) = Bucket(leaf2, e)
<1>1. \A i \in 1 .. e : Bucket(leaf1, d)[i] = Turn(leaf1, i)
                     /\ Bucket(leaf2, d)[i] = Turn(leaf2, i)
  BY DEF Bucket, Levels
<1> QED BY <1>1 DEF Bucket

(***************************************************************************)
(* A nonempty set of levels has a greatest element.                        *)
(***************************************************************************)
LEMMA GreatestLevel ==
  ASSUME NEW S, S \subseteq Levels, S # {}
  PROVE  \E d \in S : \A e \in S : e <= d
<1> DEFINE R == OpToRel(<, Nat)
           T == {TREE_LEVELS - d : d \in S}
<1>1. R = {p \in Nat \X Nat : p[1] < p[2]}
  BY Zenon DEF OpToRel
<1>2. IsWellFoundedOn(R, Nat)
  BY NatLessThanWellFounded
<1>3. T \subseteq Nat
  BY SMT DEF Levels
<1>4. T # {}
  OBVIOUS
<1> HIDE DEF R
<1>5. PICK t \in T : \A u \in T : ~(<<u, t>> \in R)
  BY <1>2, <1>3, <1>4, WFMin
<1>6. ASSUME NEW u \in T PROVE t <= u
  <2>1. u \in Nat /\ t \in Nat
    BY <1>3
  <2>2. u < t => <<u, t>> \in R
    BY <1>1, <2>1
  <2> QED BY <1>5, <2>1, <2>2
<1>7. PICK d \in S : t = TREE_LEVELS - d
  OBVIOUS
<1>8. \A e \in S : e <= d
  BY <1>6, <1>7 DEF Levels
<1> QED BY <1>8

(***************************************************************************)
(* find_intersection_bucket returns a level of the tree, and two branches  *)
(* share their buckets exactly down to that level.                         *)
(***************************************************************************)
THEOREM IntersectionBucket ==
  ASSUME NEW leaf1, NEW leaf2
  PROVE  /\ find_intersection_bucket(leaf1, leaf2) \in Levels
         /\ \A d \in Levels :
              Bucket(leaf1, d) = Bucket(leaf2, d)
                <=> d <= find_intersection_bucket(leaf1, leaf2)
<1> DEFINE S == SharedLevels(leaf1, leaf2)
           f == find_intersection_bucket(leaf1, leaf2)
<1>1. S \subseteq Levels
  BY DEF SharedLevels
<1>2. 0 \in S
  <2>1. 0 \in Levels
    BY DEF Levels
  <2>2. Bucket(leaf1, 0) = Bucket(leaf2, 0)
    BY DEF Bucket
  <2> QED BY <2>1, <2>2 DEF SharedLevels
<1>3. \E d \in S : \A e \in S : e <= d
  BY <1>1, <1>2, GreatestLevel
<1>4. f \in S /\ \A e \in S : e <= f
  BY <1>3 DEF find_intersection_bucket
<1>5. ASSUME NEW d \in Levels
      PROVE  Bucket(leaf1, d) = Bucket(leaf2, d) <=> d <= f
  <2>1. ASSUME Bucket(leaf1, d) = Bucket(leaf2, d) PROVE d <= f
    BY <1>4, <2>1 DEF SharedLevels
  <2>2. ASSUME d <= f PROVE Bucket(leaf1, d) = Bucket(leaf2, d)
    <3>1. f \in Levels /\ Bucket(leaf1, f) = Bucket(leaf2, f)
      BY <1>4 DEF SharedLevels
    <3> QED BY <2>2, <3>1, SharedAbove
  <2> QED BY <2>1, <2>2
<1> QED BY <1>1, <1>4, <1>5

(***************************************************************************)
(* Types of the two transfers between the tree and a branch.               *)
(***************************************************************************)
LEMMA BranchInTree ==
  ASSUME NEW leaf \in LeafIds, NEW d \in Levels
  PROVE  Bucket(leaf, d) \in Branch(leaf) /\ Bucket(leaf, d) \in Buckets
BY DEF Branch, Buckets

LEMMA ReadBranchType ==
  ASSUME NEW T, NEW tree \in [Buckets -> [Places -> T]], NEW leaf \in LeafIds
  PROVE  ReadBranch(tree, leaf) \in [Slots -> T]
<1> SUFFICES ASSUME NEW s \in Slots
             PROVE  tree[Bucket(leaf, LevelOf(s))][PlaceOf(s)] \in T
  BY DEF ReadBranch
<1> QED BY SlotParts, BranchInTree

LEMMA WriteBranchType ==
  ASSUME NEW T, NEW tree \in [Buckets -> [Places -> T]], NEW leaf,
         NEW branch \in [Slots -> T]
  PROVE  WriteBranch(tree, leaf, branch) \in [Buckets -> [Places -> T]]
<1>1. ASSUME NEW b \in Branch(leaf), NEW k \in Places
      PROVE  branch[Len(b) * BLOCKS_PER_BUCKET + k] \in T
  <2>1. PICK d \in Levels : b = Bucket(leaf, d)
    BY DEF Branch
  <2>2. Len(b) = d
    BY <2>1, BucketDepth
  <2> QED BY <2>2, SlotOf
<1> QED BY <1>1 DEF WriteBranch
=============================================================================
