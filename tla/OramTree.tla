------------------------------ MODULE OramTree ------------------------------
(***************************************************************************)
(* The binary tree of buckets in which the Path ORAM server keeps its      *)
(* blocks, and the two computations both ends make on it: which buckets    *)
(* lie on the branch of a leaf (server.cpp, get_branch_indexes) and in     *)
(* which bucket two branches part (single_client.cpp,                      *)
(* find_intersection_bucket).                                              *)
(*                                                                         *)
(* A bucket is named by the turns taken from the root to reach it: the     *)
(* empty sequence is the root, <<0>> its left child, <<0, 1>> the right    *)
(* child of that.  The code numbers the same buckets 1, 2, 3, ... in heap  *)
(* order, from the same turns; module BranchIndex checks the bit-level     *)
(* loops of the code against these definitions.                            *)
(***************************************************************************)
EXTENDS Integers, Sequences

CONSTANTS
  TREE_LEVELS,        \* buckets on a branch, the root's included
  BLOCKS_PER_BUCKET   \* slots of a bucket

\* block.h refuses TREE_LEVELS <= 1 at compile time.
ASSUME TreeLevelsAssumption == TREE_LEVELS \in Nat /\ TREE_LEVELS > 1
ASSUME BlocksPerBucketAssumption == BLOCKS_PER_BUCKET \in Nat \ {0}

LeafIds == 1 .. 2 ^ (TREE_LEVELS - 1)
Levels  == 0 .. TREE_LEVELS - 1
Places  == 0 .. BLOCKS_PER_BUCKET - 1

\* The i-th turn on the way down to leaf: the i-th highest bit of leaf - 1.
Turn(leaf, i) == ((leaf - 1) \div 2 ^ (TREE_LEVELS - 1 - i)) % 2

\* The bucket at depth d of the branch of leaf.
Bucket(leaf, d) == [i \in 1 .. d |-> Turn(leaf, i)]

Branch(leaf) == {Bucket(leaf, d) : d \in Levels}

Buckets == UNION {Branch(leaf) : leaf \in LeafIds}

(***************************************************************************)
(* The depth of the lowest bucket that two branches share.                 *)
(***************************************************************************)
SharedLevels(leaf1, leaf2) == {d \in Levels : Bucket(leaf1, d) = Bucket(leaf2, d)}

find_intersection_bucket(leaf1, leaf2) ==
  CHOOSE d \in SharedLevels(leaf1, leaf2) :
    \A e \in SharedLevels(leaf1, leaf2) : e <= d

(***************************************************************************)
(* A branch in transit is one flat vector of slots, root bucket first.     *)
(***************************************************************************)
Slots == 0 .. TREE_LEVELS * BLOCKS_PER_BUCKET - 1

LevelOf(s) == s \div BLOCKS_PER_BUCKET
PlaceOf(s) == s % BLOCKS_PER_BUCKET

\* A faulty variant, off by one bucket: no definition uses it.
BucketSlots_Below(d) == {s \in Slots : LevelOf(s) = d + 1}

BucketSlots(d) == {s \in Slots : LevelOf(s) = d}

\* get_branch_from_fdb: the slots of the buckets on the branch of leaf.
ReadBranch(tree, leaf) ==
  [s \in Slots |-> tree[Bucket(leaf, LevelOf(s))][PlaceOf(s)]]

\* send_branch_to_fdb: the buckets on the branch of leaf are overwritten.
WriteBranch(tree, leaf, branch) ==
  [b \in Buckets |->
     IF b \in Branch(leaf)
     THEN [k \in Places |-> branch[Len(b) * BLOCKS_PER_BUCKET + k]]
     ELSE tree[b]]
=============================================================================
