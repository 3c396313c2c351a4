---------------------------- MODULE BranchIndex -----------------------------
(***************************************************************************)
(* The two loops that compute with leaves and bucket numbers, statement by *)
(* statement and in the arithmetic of blkid_t, an unsigned integer of      *)
(* IdBits bits: get_branch_indexes on the server and                       *)
(* find_intersection_bucket on the client.  OramTree says what they are    *)
(* meant to compute; the two ends never compare notes, so if they          *)
(* disagreed on which bucket is which, blocks would silently be misplaced. *)
(*                                                                         *)
(* Definitions named like GoesRight_OneUp are faulty variants that no     *)
(* action uses; each breaks a property when put in the place of the        *)
(* definition it stands before.                                            *)
(***************************************************************************)
EXTENDS OramTree

CONSTANT IdBits   \* the bits of a blkid_t

IdModulus == 2 ^ IdBits   \* blkid_t holds 0 .. IdModulus - 1

\* The condition block.h puts on TREE_LEVELS.
ASSUME WidthAssumption ==
  IdBits \in Nat /\ (2 ^ TREE_LEVELS - 1) * BLOCKS_PER_BUCKET <= IdModulus - 1

VARIABLES
  pc,
  args,                                   \* the leaf ids the call was given
  leaf_id, tree_idx, i, branch_indexes,   \* locals of get_branch_indexes
  leaf_id_1, leaf_id_2, idx               \* locals of find_intersection_bucket

server == <<leaf_id, tree_idx, i, branch_indexes>>
client == <<leaf_id_1, leaf_id_2, idx>>
vars   == <<pc, args, server, client>>

BlockIds == 0 .. IdModulus - 1

\* Subtraction, and the result of any operation, wrap around.
Wrap(n) == n % IdModulus

ServerCall(leaf) ==
  /\ pc = "check" /\ args = <<leaf>>
  /\ leaf_id = leaf /\ tree_idx = 1 /\ i = 0 /\ branch_indexes = <<>>
  /\ leaf_id_1 = 0 /\ leaf_id_2 = 0 /\ idx = 0

\* The client calls it with leaves from its map; 0 is a missing entry.
ClientCall(leaf1, leaf2) ==
  /\ pc = "intersect" /\ args = <<leaf1, leaf2>>
  /\ leaf_id_1 = Wrap(leaf1 - 1) /\ leaf_id_2 = Wrap(leaf2 - 1)
  /\ idx = TREE_LEVELS - 1
  /\ leaf_id = 0 /\ tree_idx = 0 /\ i = 0 /\ branch_indexes = <<>>

Init ==
  \/ \E leaf \in BlockIds : ServerCall(leaf)
  \/ \E leaf1 \in LeafIds, leaf2 \in LeafIds \cup {0} : ClientCall(leaf1, leaf2)

RefuseLeaf ==
  /\ pc = "check"
  /\ leaf_id = 0 \/ leaf_id > 2 ^ (TREE_LEVELS - 1)
  /\ pc' = "refused"
  /\ UNCHANGED <<args, server, client>>

AcceptLeaf ==
  /\ pc = "check"
  /\ ~(leaf_id = 0 \/ leaf_id > 2 ^ (TREE_LEVELS - 1))
  /\ leaf_id' = leaf_id - 1
  /\ pc' = "indexes"
  /\ UNCHANGED <<args, tree_idx, i, branch_indexes, client>>

GoesRight_OneUp == (leaf_id \div 2 ^ (TREE_LEVELS - 1)) % 2

\* leaf_id & 1 << (TREE_LEVELS - 2)
GoesRight == (leaf_id \div 2 ^ (TREE_LEVELS - 2)) % 2

PushIndex ==
  /\ pc = "indexes" /\ i < TREE_LEVELS
  /\ branch_indexes' = Append(branch_indexes, tree_idx)
  /\ tree_idx' = Wrap(tree_idx * 2 + GoesRight)
  /\ leaf_id' = Wrap(leaf_id * 2)
  /\ i' = i + 1
  /\ UNCHANGED <<pc, args, client>>

ReturnIndexes ==
  /\ pc = "indexes" /\ i = TREE_LEVELS
  /\ pc' = "indexed"
  /\ UNCHANGED <<args, server, client>>

ShiftBoth_Twice ==
  /\ pc = "intersect" /\ leaf_id_1 # leaf_id_2
  /\ leaf_id_1' = leaf_id_1 \div 4 /\ leaf_id_2' = leaf_id_2 \div 4
  /\ idx' = Wrap(idx - 1)
  /\ UNCHANGED <<pc, args, server>>

ShiftBoth_OnlyFirst ==
  /\ pc = "intersect" /\ leaf_id_1 # leaf_id_2
  /\ leaf_id_1' = leaf_id_1 \div 2
  /\ idx' = Wrap(idx - 1)
  /\ UNCHANGED <<pc, args, server, leaf_id_2>>

ShiftBoth ==
  /\ pc = "intersect" /\ leaf_id_1 # leaf_id_2
  /\ leaf_id_1' = leaf_id_1 \div 2 /\ leaf_id_2' = leaf_id_2 \div 2
  /\ idx' = Wrap(idx - 1)
  /\ UNCHANGED <<pc, args, server>>

ReturnBucket ==
  /\ pc = "intersect" /\ leaf_id_1 = leaf_id_2
  /\ pc' = "found"
  /\ UNCHANGED <<args, server, client>>

Next ==
  \/ RefuseLeaf \/ AcceptLeaf \/ PushIndex \/ ReturnIndexes
  \/ ShiftBoth \/ ReturnBucket

Spec == Init /\ [][Next]_vars /\ WF_vars(Next)

-----------------------------------------------------------------------------
\* The heap number of a bucket: 1 for the root, 2n and 2n + 1 for the
\* children of n.
Number(b) ==
  LET number[d \in 0 .. Len(b)] == IF d = 0 THEN 1 ELSE 2 * number[d - 1] + b[d]
  IN  number[Len(b)]

\* The server serves every leaf of the tree and no other id: it reads and
\* writes the buckets of the leaf's branch, root first, under numbers that
\* fit blkid_t (bucket keys in FoundationDB are made of them) and are never 0.
IndexesNameTheBranch ==
  /\ pc = "refused" => args[1] \notin LeafIds
  /\ pc = "indexed" =>
       /\ args[1] \in LeafIds
       /\ branch_indexes = [n \in 1 .. TREE_LEVELS |-> Number(Bucket(args[1], n - 1))]
       /\ \A n \in 1 .. TREE_LEVELS : branch_indexes[n] \in BlockIds \ {0}

\* The client's shifts find the lowest bucket that two branches share.
IntersectionIsLowest ==
  pc = "found" /\ 0 \notin {args[1], args[2]} =>
    idx = find_intersection_bucket(args[1], args[2])

\* For a block that has no leaf the result is no level of the tree: using
\* it to index the branch reads outside the vector.
MissingLeafIsOutside ==
  pc = "found" /\ 0 \in {args[1], args[2]} => idx \notin Levels

\* Both loops end for every argument, wrap-around included.
LoopsEnd == <>(pc \in {"refused", "indexed", "found"})
=============================================================================
