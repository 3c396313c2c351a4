-------------------------- MODULE PathOramPlacement --------------------------
(***************************************************************************)
(* Where the blocks are, for every tree with one slot per bucket (the      *)
(* default), and every set of keys for which blkid_t has enough ids.       *)
(*                                                                         *)
(* The tree and the branch in transit together hold at most one block id   *)
(* per bucket (Live).  Every step of a call takes one block out of one     *)
(* place, draws a leaf for a block that is nowhere, or puts a block into a *)
(* free bucket of its path or the stash; each keeps the blocks Placed.     *)
(***************************************************************************)
EXTENDS PathOramProofs

SingleSlot == BLOCKS_PER_BUCKET = 1

InTransit == pc \in {"scan", "stash", "insert", "send"}

\* The block id of each bucket of the tree, and of each bucket once a branch
\* in transit is back.
LiveTree(t) == [x \in Buckets |-> t[x][0].block_id]

LiveWith(leaf, b, t) ==
  [x \in Buckets |-> IF x \in Branch(leaf) THEN b[Len(x)].block_id
                                            ELSE t[x][0].block_id]

Live == IF InTransit THEN LiveWith(leaf_id, branch, tree) ELSE LiveTree(tree)

\* live once bucket x holds block id.
With(live, x, id) == [live EXCEPT ![x] = id]

\* The block ids in the buckets and in the stash S.
Held(live, S) == S \cup ({live[x] : x \in Buckets} \ {0})

\* Each block in one place, and the blocks in the tree on their paths.
Placed(live, positions, S) ==
  /\ 0 \notin S
  /\ Held(live, S) \subseteq DOMAIN positions
  /\ \A x \in Buckets : live[x] # 0 => /\ x \in Branch(positions[live[x]])
                                       /\ live[x] \notin S
  /\ \A x, y \in Buckets : live[x] = live[y] /\ live[x] # 0 => x = y

\* A block that is created, or forgotten, by the call in progress.
Missing ==
  IF \/ op = "WRITE" /\ pc \in {"fetch", "scan", "stash", "insert"}
     \/ op = "CLEAR" /\ pc \in {"send", "confirm"}
  THEN {requested_block_id} ELSE {}

\* What the traversal has established so far.
Progress ==
  /\ InTransit => leaf_id \in LeafIds
  /\ pc \in {"scan", "stash", "insert"} => leaf_id = position_map[requested_block_id]
  /\ pc = "scan" => \A s \in Slots : s < current_slot => branch[s].block_id = 0
  /\ pc \in {"stash", "insert"} =>
       \A s \in Slots : branch[s].block_id # requested_block_id
  /\ pc = "stash" /\ requested_block_id \in DOMAIN stash =>
       requested_block_id \in unvisited
  /\ pc = "insert" => requested_block_id \notin DOMAIN stash

PlaceInv ==
  /\ connected /\ pc # "crashed"
  /\ Placed(Live, position_map, DOMAIN stash)
  /\ DOMAIN position_map \subseteq Held(Live, DOMAIN stash) \cup Missing
  /\ op = "CLEAR" /\ pc \in {"send", "confirm"} =>
       requested_block_id \notin Held(Live, DOMAIN stash)
  /\ Progress
-----------------------------------------------------------------------------
(***************************************************************************)
(* The elementary moves.                                                   *)
(***************************************************************************)
LEMMA TakeFromTree ==
  ASSUME NEW live \in [Buckets -> BlockIds], NEW pm, NEW S, Placed(live, pm, S),
         NEW x \in Buckets, live[x] # 0
  PROVE  /\ Placed(With(live, x, 0), pm, S)
         /\ Held(With(live, x, 0), S) = Held(live, S) \ {live[x]}
         /\ With(live, x, 0) \in [Buckets -> BlockIds]
BY IdModulusAssumption DEF Placed, Held, BlockIds, With

LEMMA TakeFromStash ==
  ASSUME NEW live \in [Buckets -> BlockIds], NEW pm, NEW S, Placed(live, pm, S),
         NEW id \in S
  PROVE  /\ Placed(live, pm, S \ {id})
         /\ Held(live, S \ {id}) = Held(live, S) \ {id}
BY DEF Placed, Held

\* Drawing a leaf for a block that is nowhere disturbs no other block.
LEMMA DrawLeaf ==
  ASSUME NEW live \in [Buckets -> BlockIds], NEW pm, NEW S, Placed(live, pm, S),
         NEW id, id \notin Held(live, S), NEW leaf
  PROVE  Placed(live, Assign(pm, id, leaf), S)
<1> DEFINE pm2 == Assign(pm, id, leaf)
<1>1. \A j \in Held(live, S) : j \in DOMAIN pm2 /\ pm2[j] = pm[j]
  BY DEF Placed, Assign
<1>2. \A x \in Buckets : live[x] # 0 => live[x] \in Held(live, S)
  BY DEF Held
<1> HIDE DEF pm2
<1>3. Held(live, S) \subseteq DOMAIN pm2
  BY <1>1
<1>4. \A x \in Buckets : live[x] # 0 => pm2[live[x]] = pm[live[x]]
  BY <1>1, <1>2
<1>5. Placed(live, pm2, S)
  BY <1>3, <1>4 DEF Placed
<1> QED BY <1>5 DEF pm2

LEMMA ForgetBlock ==
  ASSUME NEW live \in [Buckets -> BlockIds], NEW pm, NEW S, Placed(live, pm, S),
         NEW id, id \notin Held(live, S)
  PROVE  Placed(live, Erase(pm, id), S)
<1> DEFINE pm2 == Erase(pm, id)
<1>1. \A j \in Held(live, S) : j \in DOMAIN pm2 /\ pm2[j] = pm[j]
  BY DEF Placed, Erase
<1>2. \A x \in Buckets : live[x] # 0 => live[x] \in Held(live, S)
  BY DEF Held
<1> HIDE DEF pm2
<1>3. Held(live, S) \subseteq DOMAIN pm2
  BY <1>1
<1>4. \A x \in Buckets : live[x] # 0 => pm2[live[x]] = pm[live[x]]
  BY <1>1, <1>2
<1>5. Placed(live, pm2, S)
  BY <1>3, <1>4 DEF Placed
<1> QED BY <1>5 DEF pm2

LEMMA PutIntoTree ==
  ASSUME NEW live \in [Buckets -> BlockIds], NEW pm, NEW S, Placed(live, pm, S),
         NEW x \in Buckets, live[x] = 0,
         NEW id \in DOMAIN pm, id # 0, id \notin Held(live, S),
         x \in Branch(pm[id])
  PROVE  /\ Placed(With(live, x, id), pm, S)
         /\ Held(With(live, x, id), S) = Held(live, S) \cup {id}
BY DEF Placed, Held, With

LEMMA PutIntoStash ==
  ASSUME NEW live \in [Buckets -> BlockIds], NEW pm, NEW S, Placed(live, pm, S),
         NEW id \in DOMAIN pm, id # 0, id \notin Held(live, S)
  PROVE  /\ Placed(live, pm, S \cup {id})
         /\ Held(live, S \cup {id}) = Held(live, S) \cup {id}
BY DEF Placed, Held

-----------------------------------------------------------------------------
(***************************************************************************)
(* The branch in transit and the buckets it stands for.                    *)
(***************************************************************************)
LEMMA SlotIsLevel ==
  ASSUME SingleSlot
  PROVE  /\ Slots = Levels
         /\ \A s \in Slots : LevelOf(s) = s /\ PlaceOf(s) = 0
         /\ Places = {0}
         /\ \A d \in Levels : BucketSlots(d) = {d}
BY TreeLevelsAssumption DEF SingleSlot, Slots, Levels, LevelOf, PlaceOf, Places, BucketSlots

LEMMA LiveInTransit ==
  ASSUME SingleSlot, NEW leaf \in LeafIds, NEW b, NEW t
  PROVE  /\ \A s \in Slots :
              /\ Bucket(leaf, s) \in Buckets /\ Bucket(leaf, s) \in Branch(leaf)
              /\ Len(Bucket(leaf, s)) = s
              /\ LiveWith(leaf, b, t)[Bucket(leaf, s)] = b[s].block_id
         /\ \A x \in Branch(leaf) : \E s \in Slots : x = Bucket(leaf, s)
         /\ \A s, u \in Slots : Bucket(leaf, s) = Bucket(leaf, u) => s = u
<1>1. Slots = Levels
  BY SlotIsLevel
<1>2. \A s \in Slots : /\ Bucket(leaf, s) \in Buckets
                       /\ Bucket(leaf, s) \in Branch(leaf)
                       /\ Len(Bucket(leaf, s)) = s
  BY <1>1, BranchInTree, BucketDepth
<1> QED BY <1>1, <1>2 DEF LiveWith, Branch

\* A block that moves from slot s to slot u of the branch in transit.
LEMMA LiveAfterMove ==
  ASSUME SingleSlot, NEW leaf \in LeafIds, NEW b, NEW c, NEW t,
         NEW s \in Slots, NEW u \in Slots, NEW id,
         \A v \in Slots : c[v].block_id = IF v = u THEN id
                                          ELSE IF v = s THEN 0 ELSE b[v].block_id
  PROVE  LiveWith(leaf, c, t)
           = With(With(LiveWith(leaf, b, t), Bucket(leaf, s), 0), Bucket(leaf, u), id)
<1> DEFINE before == LiveWith(leaf, b, t)
           after  == LiveWith(leaf, c, t)
<1>1. /\ before = [x \in Buckets |-> before[x]]
      /\ after = [x \in Buckets |-> after[x]]
  BY DEF LiveWith
<1>2. ASSUME NEW x \in Buckets
      PROVE  after[x] = IF x = Bucket(leaf, u) THEN id
                        ELSE IF x = Bucket(leaf, s) THEN 0 ELSE before[x]
  <2>1. CASE x \in Branch(leaf)
    <3>1. PICK v \in Slots : x = Bucket(leaf, v)
      BY <2>1, LiveInTransit
    <3>2. after[x] = c[v].block_id /\ before[x] = b[v].block_id
      BY <3>1, LiveInTransit
    <3>3. (x = Bucket(leaf, s) <=> v = s) /\ (x = Bucket(leaf, u) <=> v = u)
      BY <3>1, LiveInTransit
    <3> QED BY <3>1, <3>2, <3>3
  <2>2. CASE x \notin Branch(leaf)
    <3>1. x # Bucket(leaf, s) /\ x # Bucket(leaf, u)
      BY <2>2, LiveInTransit
    <3> QED BY <2>2, <3>1 DEF LiveWith
  <2> QED BY <2>1, <2>2
<1>3. Bucket(leaf, s) \in Buckets /\ Bucket(leaf, u) \in Buckets
  BY LiveInTransit
<1> HIDE DEF before, after
<1>4. after = With(With(before, Bucket(leaf, s), 0), Bucket(leaf, u), id)
  BY <1>1, <1>2, <1>3 DEF With
<1> QED BY <1>4 DEF before, after

\* A block put into slot s, or taken out of it.
LEMMA LiveAfterSlot ==
  ASSUME SingleSlot, NEW leaf \in LeafIds, NEW b, NEW c, NEW t,
         NEW s \in Slots, NEW id,
         \A v \in Slots : c[v].block_id = IF v = s THEN id ELSE b[v].block_id
  PROVE  LiveWith(leaf, c, t) = With(LiveWith(leaf, b, t), Bucket(leaf, s), id)
<1>1. LiveWith(leaf, c, t)
        = With(With(LiveWith(leaf, b, t), Bucket(leaf, s), 0), Bucket(leaf, s), id)
  BY LiveAfterMove
<1> DEFINE before == LiveWith(leaf, b, t)
<1> HIDE DEF before
<1>2. With(With(before, Bucket(leaf, s), 0), Bucket(leaf, s), id)
        = With(before, Bucket(leaf, s), id)
  BY DEF With
<1> QED BY <1>1, <1>2 DEF before

LEMMA LiveType ==
  ASSUME SingleSlot, NEW t \in [Buckets -> [Places -> Block]]
  PROVE  /\ LiveTree(t) \in [Buckets -> BlockIds]
         /\ \A leaf \in LeafIds, b \in [Slots -> Block] :
              LiveWith(leaf, b, t) \in [Buckets -> BlockIds]
<1>1. \A x \in Buckets : t[x][0].block_id \in BlockIds
  BY SlotIsLevel DEF Block
<1>2. ASSUME NEW leaf \in LeafIds, NEW b \in [Slots -> Block], NEW x \in Branch(leaf)
      PROVE  b[Len(x)].block_id \in BlockIds
  <2>1. PICK s \in Slots : x = Bucket(leaf, s)
    BY LiveInTransit
  <2>2. Len(x) \in Slots
    BY <2>1, LiveInTransit
  <2> QED BY <2>2 DEF Block
<1> QED BY <1>1, <1>2 DEF LiveTree, LiveWith

\* Fetching a branch, and committing it, moves no block.
LEMMA LiveFetched ==
  ASSUME SingleSlot, NEW leaf \in LeafIds, NEW t
  PROVE  LiveWith(leaf, ReadBranch(t, leaf), t) = LiveTree(t)
<1>1. ASSUME NEW x \in Branch(leaf)
      PROVE  ReadBranch(t, leaf)[Len(x)].block_id = t[x][0].block_id
  <2>1. PICK s \in Slots : x = Bucket(leaf, s)
    BY LiveInTransit
  <2>2. Len(x) = s
    BY <2>1, SlotIsLevel, BucketDepth
  <2> QED BY <2>1, <2>2, SlotIsLevel DEF ReadBranch
<1> QED BY <1>1 DEF LiveTree, LiveWith

LEMMA LiveCommitted ==
  ASSUME SingleSlot, NEW leaf \in LeafIds, NEW b, NEW t
  PROVE  LiveTree(WriteBranch(t, leaf, b)) = LiveWith(leaf, b, t)
<1>1. ASSUME NEW x \in Branch(leaf), x \in Buckets
      PROVE  WriteBranch(t, leaf, b)[x][0].block_id = b[Len(x)].block_id
  <2>1. PICK s \in Slots : x = Bucket(leaf, s)
    BY LiveInTransit
  <2>2. Len(x) = s /\ s \in Int
    BY <2>1, SlotIsLevel, BucketDepth DEF Levels
  <2>3. Len(x) * BLOCKS_PER_BUCKET + 0 = s
    BY <2>2 DEF SingleSlot
  <2> QED BY <1>1, <2>2, <2>3, SlotIsLevel DEF WriteBranch
<1> QED BY <1>1 DEF LiveTree, LiveWith, WriteBranch

\* A bucket of the fetched branch lies on another leaf's path if and only if
\* it is no lower than the bucket in which the two part.
LEMMA SharedBucket ==
  ASSUME SingleSlot, NEW leaf1, NEW leaf2, NEW s \in Slots
  PROVE  Bucket(leaf1, s) \in Branch(leaf2)
           <=> s <= find_intersection_bucket(leaf1, leaf2)
<1>1. s \in Levels
  BY SlotIsLevel
<1>2. Bucket(leaf1, s) \in Branch(leaf2) <=> Bucket(leaf1, s) = Bucket(leaf2, s)
  <2>1. ASSUME NEW d \in Levels, Bucket(leaf1, s) = Bucket(leaf2, d) PROVE d = s
    BY <1>1, <2>1, BucketDepth
  <2> QED BY <1>1, <2>1 DEF Branch
<1> QED BY <1>1, <1>2, IntersectionBucket

-----------------------------------------------------------------------------
(***************************************************************************)
(* The steps.                                                              *)
(***************************************************************************)
LEMMA LiveValue ==
  /\ InTransit => Live = LiveWith(leaf_id, branch, tree)
  /\ ~InTransit => Live = LiveTree(tree)
  /\ InTransit' => Live' = LiveWith(leaf_id', branch', tree')
  /\ ~InTransit' => Live' = LiveTree(tree')
BY DEF Live

LEMMA LiveTyped ==
  ASSUME SingleSlot, TypeInv, PlaceInv
  PROVE  Live \in [Buckets -> BlockIds]
BY LiveType DEF TypeInv, TypeOK, PlaceInv, Progress, Live

\* A step outside the traversal leaves every block where it is.
LEMMA LiveOutside ==
  ASSUME ~InTransit, ~InTransit', UNCHANGED tree
  PROVE  Live' = Live
BY LiveValue

LEMMA PlaceOutside ==
  ASSUME PlaceInv, ~InTransit, pc' \in {"idle", "called", "fetch", "done"},
         pc \in {"idle", "called", "done"}, UNCHANGED <<maps, connected, tree>>
  PROVE  PlaceInv'
<1>1. ~InTransit' /\ Live' = Live
  BY LiveOutside DEF InTransit
<1> QED BY <1>1 DEF PlaceInv, Progress, Missing, maps, InTransit

LEMMA PlacePutNewKey ==
  ASSUME SingleSlot, IdForEveryKey, TypeInv, KeyInv, PlaceInv, PutNewKey
  PROVE  PlaceInv'
<1>1. PICK i \in 1 .. Cardinality(DOMAIN position_map) + 1, leaf \in LeafIds :
        /\ IsNewIndex(i)
        /\ position_map' = Assign(position_map, ToBlockId(i), leaf)
        /\ requested_block_id' = ToBlockId(i)
  BY DEF PutNewKey, Randomize
<1>2. ToBlockId(i) \notin DOMAIN position_map
  BY <1>1, IdLeftForNewKey, NewIndexIsFree DEF KeyInv, PutNewKey, TypeInv
<1>3. /\ pc = "called" /\ pc' = "fetch" /\ op = "WRITE"
      /\ UNCHANGED <<stash, connected, tree, op>>
  BY DEF PutNewKey, disk
<1>4. ~InTransit /\ ~InTransit' /\ Live' = Live
  BY <1>3, LiveOutside DEF InTransit
<1>5. ToBlockId(i) \notin Held(Live, DOMAIN stash)
  BY <1>2 DEF PlaceInv, Placed
<1>6. Placed(Live, position_map', DOMAIN stash)
  BY <1>1, <1>5, LiveTyped, DrawLeaf DEF PlaceInv
<1>7. DOMAIN position_map' = DOMAIN position_map \cup {ToBlockId(i)}
  BY <1>1 DEF Assign
<1> QED BY <1>1, <1>3, <1>4, <1>6, <1>7 DEF PlaceInv, Progress, Missing

LEMMA PlaceFetchBranch ==
  ASSUME SingleSlot, TypeInv, KeyInv, PlaceInv, FetchBranch
  PROVE  PlaceInv'
<1>1. /\ pc = "fetch" /\ pc' = "scan"
      /\ leaf_id' = position_map[requested_block_id]
      /\ branch' = ReadBranch(tree, leaf_id')
      /\ current_slot' = 0
      /\ UNCHANGED <<position_map, stash, connected, tree, op, requested_block_id>>
  BY DEF FetchBranch, maps, disk, call
<1>2. leaf_id' \in LeafIds
  BY <1>1 DEF KeyInv, FetchBranch, Known
<1>3. ~InTransit /\ InTransit'
  BY <1>1 DEF InTransit
<1>4. Live' = Live
  BY <1>1, <1>2, <1>3, LiveValue, LiveFetched
<1>5. Progress'
  BY <1>1, <1>2 DEF Progress, Slots
<1> QED BY <1>1, <1>4, <1>5 DEF PlaceInv, Missing

LEMMA PlaceCommitBranch ==
  ASSUME SingleSlot, TypeInv, PlaceInv, CommitBranch
  PROVE  PlaceInv'
<1>1. /\ pc = "send" /\ pc' = "confirm"
      /\ tree' = WriteBranch(tree, leaf_id, branch)
      /\ UNCHANGED <<position_map, stash, connected, op, requested_block_id>>
  BY DEF CommitBranch, maps, call
<1>2. InTransit /\ ~InTransit'
  BY <1>1 DEF InTransit
<1>3. leaf_id \in LeafIds
  BY <1>2 DEF PlaceInv, Progress
<1>4. Live' = Live
  BY <1>1, <1>2, <1>3, LiveValue, LiveCommitted
<1>5. Progress'
  BY <1>1, <1>2 DEF Progress
<1> QED BY <1>1, <1>4, <1>5 DEF PlaceInv, Missing

LEMMA PlaceConfirm ==
  ASSUME SingleSlot, TypeInv, PlaceInv, Confirm
  PROVE  PlaceInv'
<1>1. /\ pc = "confirm" /\ pc' = "idle" /\ op' = "none"
      /\ UNCHANGED <<stash, connected, tree>>
  BY DEF Confirm, EndOfCall
<1>2. ~InTransit /\ ~InTransit' /\ Live' = Live
  BY <1>1, LiveOutside DEF InTransit
<1>3. Progress' /\ Missing' = {}
  BY <1>1, <1>2 DEF Progress, Missing
<1>4. CASE op = "CLEAR"
  <2>1. position_map' = Erase(position_map, requested_block_id)
    BY <1>4 DEF Confirm
  <2>2. requested_block_id \notin Held(Live, DOMAIN stash)
    BY <1>1, <1>4 DEF PlaceInv
  <2>3. Placed(Live, position_map', DOMAIN stash)
    BY <2>1, <2>2, LiveTyped, ForgetBlock DEF PlaceInv
  <2>4. DOMAIN position_map' = DOMAIN position_map \ {requested_block_id}
    BY <2>1 DEF Erase
  <2> QED BY <1>1, <1>2, <1>3, <2>3, <2>4 DEF PlaceInv, Missing
<1>5. CASE op # "CLEAR"
  <2>1. UNCHANGED position_map /\ Missing = {}
    BY <1>1, <1>5 DEF Confirm, Missing
  <2> QED BY <1>1, <1>2, <1>3, <2>1 DEF PlaceInv
<1> QED BY <1>4, <1>5

(***************************************************************************)
(* The steps of the traversal.                                             *)
(***************************************************************************)
LEMMA RequestedKnown ==
  ASSUME KeyInv, pc \in {"fetch", "scan", "stash", "insert"}
  PROVE  /\ requested_block_id \in DOMAIN position_map
         /\ requested_block_id # 0
         /\ position_map[requested_block_id] \in LeafIds
         /\ Known(requested_block_id)
<1>1. requested_block_id \in DOMAIN position_map
  BY DEF KeyInv, KeysHaveTheirOwnBlocks
<1> QED BY <1>1, TreeLevelsAssumption DEF KeyInv, Known, LeafIds

\* A step that serves the request and leaves the traversal.
LEMMA PlaceServed ==
  ASSUME PlaceInv, pc \in {"scan", "stash", "insert"}, pc' = "send",
         UNCHANGED <<connected, op, requested_block_id, leaf_id>>,
         DOMAIN position_map' = DOMAIN position_map,
         Placed(Live', position_map', DOMAIN stash'),
         Held(Live', DOMAIN stash')
           = IF op = "CLEAR" THEN Held(Live, DOMAIN stash) \ {requested_block_id}
             ELSE Held(Live, DOMAIN stash) \cup {requested_block_id}
  PROVE  PlaceInv'
<1>1. Progress'
  BY DEF PlaceInv, Progress, InTransit
<1>2. DOMAIN position_map \subseteq
        Held(Live, DOMAIN stash) \cup {requested_block_id}
  BY DEF PlaceInv, Missing
<1>3. Missing' = IF op = "CLEAR" THEN {requested_block_id} ELSE {}
  BY DEF Missing
<1>4. DOMAIN position_map' \subseteq Held(Live', DOMAIN stash') \cup Missing'
  BY <1>2, <1>3
<1>5. op = "CLEAR" => requested_block_id \notin Held(Live', DOMAIN stash')
  OBVIOUS
<1> QED BY <1>1, <1>4, <1>5 DEF PlaceInv

\* A step that stays in the traversal.
LEMMA PlaceMoved ==
  ASSUME PlaceInv, pc \in {"scan", "stash", "insert"},
         pc' \in {"scan", "stash", "insert"},
         UNCHANGED <<position_map, connected, op, requested_block_id>>,
         Placed(Live', position_map, DOMAIN stash'),
         Held(Live', DOMAIN stash') = Held(Live, DOMAIN stash),
         Progress'
  PROVE  PlaceInv'
<1>1. Missing' = Missing
  BY DEF Missing
<1> QED BY <1>1 DEF PlaceInv

\* The requested block, taken from its place, gets a leaf and a new place.
LEMMA PlaceAgain ==
  ASSUME SingleSlot, KeyInv, PlaceInv, pc \in {"scan", "stash", "insert"},
         NEW live \in [Buckets -> BlockIds], NEW S,
         Placed(live, position_map, S), requested_block_id \notin Held(live, S),
         NEW leaf \in LeafIds, Randomize(requested_block_id, leaf)
  PROVE  /\ DOMAIN position_map' = DOMAIN position_map
         /\ Placed(live, position_map', S)
         /\ Placed(live, position_map', S \cup {requested_block_id})
         /\ Held(live, S \cup {requested_block_id})
              = Held(live, S) \cup {requested_block_id}
         /\ \A s \in SlotsShared(leaf) :
              LET after == With(live, Bucket(leaf_id, s), requested_block_id)
              IN  live[Bucket(leaf_id, s)] = 0 =>
                    /\ Placed(after, position_map', S)
                    /\ Held(after, S) = Held(live, S) \cup {requested_block_id}
<1>1. /\ requested_block_id \in DOMAIN position_map /\ requested_block_id # 0
      /\ leaf_id = position_map[requested_block_id] /\ leaf_id \in LeafIds
  BY RequestedKnown DEF PlaceInv, Progress
<1>2. position_map' = Assign(position_map, requested_block_id, leaf)
  BY DEF Randomize
<1>3. /\ DOMAIN position_map' = DOMAIN position_map
      /\ position_map'[requested_block_id] = leaf
  BY <1>1, <1>2 DEF Assign
<1>4. Placed(live, position_map', S)
  BY <1>2, DrawLeaf
<1>5. ASSUME NEW s \in SlotsShared(leaf), live[Bucket(leaf_id, s)] = 0
      PROVE  LET after == With(live, Bucket(leaf_id, s), requested_block_id)
             IN  /\ Placed(after, position_map', S)
                 /\ Held(after, S) = Held(live, S) \cup {requested_block_id}
  <2>1. s \in Slots /\ s <= find_intersection_bucket(leaf_id, leaf)
    BY <1>1, SlotIsLevel DEF SlotsShared
  <2>2. Bucket(leaf_id, s) \in Branch(leaf) /\ Bucket(leaf_id, s) \in Buckets
    BY <1>1, <2>1, SharedBucket, LiveInTransit
  <2> QED BY <1>1, <1>3, <1>4, <1>5, <2>2, PutIntoTree
<1>6. /\ Placed(live, position_map', S \cup {requested_block_id})
      /\ Held(live, S \cup {requested_block_id})
           = Held(live, S) \cup {requested_block_id}
  BY <1>1, <1>3, <1>4, PutIntoStash
<1> QED BY <1>3, <1>4, <1>5, <1>6

\* What Live says of a slot of the branch in transit.
LEMMA LiveSlot ==
  ASSUME SingleSlot, PlaceInv, InTransit, NEW s \in Slots
  PROVE  /\ leaf_id \in LeafIds
         /\ Bucket(leaf_id, s) \in Buckets
         /\ Live[Bucket(leaf_id, s)] = branch[s].block_id
BY LiveValue, LiveInTransit DEF PlaceInv, Progress

LEMMA PlaceSkipFreeSlot ==
  ASSUME SingleSlot, TypeInv, PlaceInv, SkipFreeSlot
  PROVE  PlaceInv'
<1>1. /\ pc = "scan" /\ pc' = "scan" /\ current_slot \in Slots
      /\ branch[current_slot].block_id = 0
      /\ current_slot' = current_slot + 1
      /\ UNCHANGED <<position_map, stash, connected, op, requested_block_id,
                     leaf_id, branch, tree>>
  BY DEF SkipFreeSlot, maps, disk, call, transit
<1>2. InTransit /\ InTransit' /\ Live' = Live
  BY <1>1, LiveValue DEF InTransit
<1>3. \A s \in Slots : s < current_slot + 1 => s < current_slot \/ s = current_slot
  BY <1>1 DEF Slots
<1>4. Progress'
  BY <1>1, <1>2, <1>3 DEF PlaceInv, Progress
<1> QED BY <1>1, <1>2, <1>4, PlaceMoved DEF PlaceInv

LEMMA PlaceMoveOtherBlock ==
  ASSUME SingleSlot, TypeInv, KeyInv, PlaceInv, MoveOtherBlock
  PROVE  PlaceInv'
<1> DEFINE c == current_slot
           id == branch[c].block_id
           x == Bucket(leaf_id, c)
           f == find_intersection_bucket(leaf_id, position_map[id])
           y == Bucket(leaf_id, f)
           S == DOMAIN stash
           live == With(Live, x, 0)
<1>1. /\ pc = "scan" /\ pc' = "scan" /\ c \in Slots
      /\ id \notin {0, requested_block_id}
      /\ current_slot' = c + 1
      /\ UNCHANGED <<position_map, connected, op, requested_block_id, leaf_id, tree>>
  BY DEF MoveOtherBlock, disk, call
<1>2. InTransit /\ InTransit'
  BY <1>1 DEF InTransit
<1>3. /\ leaf_id \in LeafIds /\ leaf_id = position_map[requested_block_id]
      /\ \A s \in Slots : s < c => branch[s].block_id = 0
  BY <1>1, <1>2 DEF PlaceInv, Progress
<1>4. /\ x \in Buckets /\ Live[x] = id /\ Live \in [Buckets -> BlockIds]
  BY <1>1, <1>2, LiveSlot, LiveTyped
<1>5. Placed(Live, position_map, S)
  BY DEF PlaceInv
<1>6. /\ id \in DOMAIN position_map /\ id \in Held(Live, S)
      /\ x \in Branch(position_map[id])
  BY <1>1, <1>4, <1>5 DEF Placed, Held
<1>7. f \in Slots /\ c <= f /\ LowestBucket(id) = {f}
  BY <1>1, <1>3, <1>6, SharedBucket, SlotIsLevel, IntersectionBucket DEF LowestBucket
<1>8. /\ Placed(live, position_map, S)
      /\ Held(live, S) = Held(Live, S) \ {id}
      /\ live \in [Buckets -> BlockIds]
  BY <1>1, <1>4, <1>5, TakeFromTree
<1>9. branch \in [Slots -> Block]
  BY DEF TypeInv, TypeOK
<1>10. CASE /\ \E s \in Lowest(Free(branch, LowestBucket(id))) :
                  branch' = Swap(branch, c, s)
            /\ UNCHANGED stash
  <2>1. branch' = Swap(branch, c, f) /\ branch[f].block_id = 0
    BY <1>7, <1>10 DEF Lowest, Free
  <2>2. c < f
    BY <1>1, <1>7, <2>1 DEF Slots
  <2>3. \A v \in Slots : branch'[v].block_id = IF v = f THEN id
                                               ELSE IF v = c THEN 0 ELSE branch[v].block_id
    BY <1>1, <1>7, <1>9, <2>1 DEF Swap
  <2>4. LiveWith(leaf_id, branch', tree)
          = With(With(LiveWith(leaf_id, branch, tree), x, 0), y, id)
    BY <1>1, <1>3, <1>7, <2>3, LiveAfterMove
  <2>5. Live' = With(live, y, id)
    BY <1>1, <1>2, <2>4, LiveValue
  <2>6. /\ y \in Buckets /\ y # x /\ Live[y] = 0
        /\ y \in Branch(position_map[id])
    <3>1. y \in Buckets /\ Live[y] = branch[f].block_id
      BY <1>2, <1>7, LiveSlot
    <3>2. f \in Slots /\ f <= f
      BY <1>7 DEF Slots
    <3>3. y \in Branch(position_map[id])
      BY <3>2, SharedBucket
    <3> QED BY <1>1, <1>4, <2>1, <3>1, <3>3
  <2>7. live[y] = 0
    BY <1>4, <2>6 DEF With
  <2>8. /\ Placed(Live', position_map, S)
        /\ Held(Live', S) = Held(live, S) \cup {id}
    BY <1>1, <1>6, <1>8, <2>5, <2>6, <2>7, PutIntoTree
  <2>9. Held(Live', S) = Held(Live, S)
    BY <1>6, <1>8, <2>8
  <2>10. \A s \in Slots : s < c + 1 => branch'[s].block_id = 0
    BY <1>1, <1>3, <2>2, <2>3 DEF Slots
  <2>11. Progress'
    BY <1>1, <1>2, <1>3, <2>10 DEF Progress
  <2> QED BY <1>1, <1>10, <2>8, <2>9, <2>11, PlaceMoved
<1>11. CASE /\ stash' = Assign(stash, id, branch[c].data)
            /\ branch' = [branch EXCEPT ![c] = Dummy]
  <2>1. \A v \in Slots : branch'[v].block_id = IF v = c THEN 0 ELSE branch[v].block_id
    BY <1>1, <1>9, <1>11 DEF Dummy
  <2>2. LiveWith(leaf_id, branch', tree) = With(LiveWith(leaf_id, branch, tree), x, 0)
    BY <1>1, <1>3, <2>1, LiveAfterSlot
  <2>3. Live' = live
    BY <1>1, <1>2, <2>2, LiveValue
  <2>4. DOMAIN stash' = S \cup {id}
    BY <1>11 DEF Assign
  <2>5. /\ Placed(Live', position_map, DOMAIN stash')
        /\ Held(Live', DOMAIN stash') = Held(live, S) \cup {id}
    <3>1. id \notin Held(live, S) /\ id # 0
      BY <1>1, <1>8
    <3> HIDE DEF live, S, id
    <3>2. /\ Placed(live, position_map, S \cup {id})
          /\ Held(live, S \cup {id}) = Held(live, S) \cup {id}
      BY <1>6, <1>8, <3>1, PutIntoStash
    <3> QED BY <2>3, <2>4, <3>2
  <2>6. Held(Live', DOMAIN stash') = Held(Live, S)
    BY <1>6, <1>8, <2>5
  <2>7. \A s \in Slots : s < c + 1 => branch'[s].block_id = 0
    BY <1>1, <1>3, <2>1 DEF Slots
  <2>8. Progress'
    BY <1>1, <1>2, <1>3, <2>7 DEF Progress
  <2> QED BY <1>1, <2>5, <2>6, <2>8, PlaceMoved
<1> QED BY <1>10, <1>11 DEF MoveOtherBlock

LEMMA PlaceServeFromBranch ==
  ASSUME SingleSlot, TypeInv, KeyInv, PlaceInv, ServeFromBranch
  PROVE  PlaceInv'
<1> DEFINE c == current_slot
           req == requested_block_id
           x == Bucket(leaf_id, c)
           S == DOMAIN stash
           live == With(Live, x, 0)
           served == Served(branch[c].data)
           b == [branch EXCEPT ![c] = served]
<1>1. /\ pc = "scan" /\ pc' = "send" /\ c \in Slots
      /\ branch[c].block_id = req /\ req # 0
      /\ UNCHANGED <<connected, op, requested_block_id, leaf_id, tree>>
  BY DEF ServeFromBranch, disk, call
<1>2. PICK leaf \in LeafIds :
        /\ Randomize(req, leaf)
        /\ \/ /\ \E s \in Deepest(Free(b, SlotsShared(leaf))) : branch' = Swap(b, c, s)
              /\ UNCHANGED stash
           \/ /\ Free(b, SlotsShared(leaf)) = {}
              /\ stash' = Assign(stash, b[c].block_id, b[c].data)
              /\ branch' = [b EXCEPT ![c] = Dummy]
  BY DEF ServeFromBranch
<1>3. InTransit /\ InTransit'
  BY <1>1 DEF InTransit
<1>4. /\ leaf_id \in LeafIds
      /\ \A s \in Slots : s < c => branch[s].block_id = 0
  BY <1>1, <1>3 DEF PlaceInv, Progress
<1>5. /\ x \in Buckets /\ Live[x] = req /\ Live \in [Buckets -> BlockIds]
  BY <1>1, <1>3, LiveSlot, LiveTyped
<1>6. /\ Placed(live, position_map, S)
      /\ Held(live, S) = Held(Live, S) \ {req}
      /\ live \in [Buckets -> BlockIds]
  BY <1>1, <1>5, TakeFromTree DEF PlaceInv
<1>7. /\ DOMAIN position_map' = DOMAIN position_map
      /\ Placed(live, position_map', S)
      /\ Placed(live, position_map', S \cup {req})
      /\ Held(live, S \cup {req}) = Held(live, S) \cup {req}
      /\ \A s \in SlotsShared(leaf) :
           LET after == With(live, Bucket(leaf_id, s), req)
           IN  live[Bucket(leaf_id, s)] = 0 =>
                 /\ Placed(after, position_map', S)
                 /\ Held(after, S) = Held(live, S) \cup {req}
  <2>1. req \notin Held(live, S)
    BY <1>6
  <2> HIDE DEF live, S
  <2> QED BY <1>1, <1>2, <1>6, <2>1, PlaceAgain
<1>8. /\ branch \in [Slots -> Block] /\ op \in {"READ", "WRITE", "CLEAR"}
      /\ branch[c].data \in Values /\ served \in Block
  BY <1>1, ServedType DEF TypeInv, TypeOK, Block
<1>9. b \in [Slots -> Block] /\ b[c] = served
      /\ \A v \in Slots : v # c => b[v] = branch[v]
  BY <1>1, <1>8
<1>10. Deepest(Free(b, SlotsShared(leaf))) \subseteq Free(b, SlotsShared(leaf))
  BY DEF Deepest
<1> HIDE DEF b, served
<1>11. CASE op = "CLEAR"
  <2>1. served.block_id = 0
    BY <1>11 DEF served, Served, Dummy
  <2>2. 0 \in Slots /\ 0 \in SlotsShared(leaf)
    BY SlotIsLevel, IntersectionBucket, TreeLevelsAssumption DEF SlotsShared, Levels
  <2>3. b[0].block_id = 0
    BY <1>1, <1>4, <1>9, <2>1, <2>2 DEF Slots
  <2>4. 0 \in Free(b, SlotsShared(leaf))
    BY <2>2, <2>3 DEF Free
  <2>5. PICK s \in Free(b, SlotsShared(leaf)) : branch' = Swap(b, c, s) /\ UNCHANGED stash
    BY <1>2, <1>10, <2>4
  <2>6. s \in Slots /\ b[s].block_id = 0
    BY <2>5 DEF Free, SlotsShared
  <2>7. \A v \in Slots : branch'[v].block_id = IF v = c THEN 0 ELSE branch[v].block_id
    BY <1>1, <1>9, <2>1, <2>5, <2>6 DEF Swap
  <2>8. LiveWith(leaf_id, branch', tree) = With(LiveWith(leaf_id, branch, tree), x, 0)
    BY <1>1, <1>4, <2>7, LiveAfterSlot
  <2>9. Live' = live
    BY <1>1, <1>3, <2>8, LiveValue
  <2> QED BY <1>1, <1>6, <1>7, <1>11, <2>5, <2>9, PlaceServed
<1>12. CASE op # "CLEAR"
  <2>1. served.block_id = req
    BY <1>1, <1>8, <1>12 DEF served, Served, NewBlock
  <2>2. CASE \E s \in Deepest(Free(b, SlotsShared(leaf))) :
               branch' = Swap(b, c, s) /\ UNCHANGED stash
    <3>1. PICK s \in SlotsShared(leaf) :
            branch' = Swap(b, c, s) /\ UNCHANGED stash /\ b[s].block_id = 0
      BY <1>10, <2>2 DEF Free
    <3>2. s \in Slots /\ s # c /\ branch[s].block_id = 0
      BY <1>1, <1>9, <2>1, <3>1 DEF SlotsShared
    <3>3. \A v \in Slots : branch'[v].block_id = IF v = s THEN req
                                                 ELSE IF v = c THEN 0 ELSE branch[v].block_id
      BY <1>1, <1>9, <2>1, <3>1, <3>2 DEF Swap
    <3>4. LiveWith(leaf_id, branch', tree)
            = With(With(LiveWith(leaf_id, branch, tree), x, 0), Bucket(leaf_id, s), req)
      BY <1>1, <1>4, <3>2, <3>3, LiveAfterMove
    <3>5. Live' = With(live, Bucket(leaf_id, s), req)
      BY <1>1, <1>3, <3>4, LiveValue
    <3>6. live[Bucket(leaf_id, s)] = 0
      <4>1. Bucket(leaf_id, s) \in Buckets /\ Live[Bucket(leaf_id, s)] = 0
        BY <1>3, <3>2, LiveSlot
      <4> QED BY <1>5, <4>1 DEF With
    <3>7. /\ Placed(Live', position_map', DOMAIN stash')
          /\ Held(Live', DOMAIN stash') = Held(live, S) \cup {req}
      BY <1>7, <3>1, <3>5, <3>6
    <3>8. Held(Live', DOMAIN stash') = Held(Live, S) \cup {req}
      BY <1>6, <3>7
    <3> QED BY <1>1, <1>7, <1>12, <3>7, <3>8, PlaceServed
  <2>3. CASE /\ stash' = Assign(stash, b[c].block_id, b[c].data)
             /\ branch' = [b EXCEPT ![c] = Dummy]
    <3>1. DOMAIN stash' = S \cup {req}
      BY <1>9, <2>1, <2>3 DEF Assign
    <3>2. \A v \in Slots : branch'[v].block_id = IF v = c THEN 0 ELSE branch[v].block_id
      BY <1>1, <1>9, <2>3 DEF Dummy
    <3>3. LiveWith(leaf_id, branch', tree) = With(LiveWith(leaf_id, branch, tree), x, 0)
      BY <1>1, <1>4, <3>2, LiveAfterSlot
    <3>4. Live' = live
      BY <1>1, <1>3, <3>3, LiveValue
    <3>5. /\ Placed(Live', position_map', DOMAIN stash')
          /\ Held(Live', DOMAIN stash') = Held(live, S) \cup {req}
      BY <1>7, <3>1, <3>4
    <3>6. Held(Live', DOMAIN stash') = Held(Live, S) \cup {req}
      BY <1>6, <3>5
    <3> QED BY <1>1, <1>7, <1>12, <3>5, <3>6, PlaceServed
  <2> QED BY <1>2, <2>2, <2>3
<1> QED BY <1>11, <1>12

LEMMA PlaceEndScan ==
  ASSUME SingleSlot, TypeInv, KeyInv, PlaceInv, EndScan
  PROVE  PlaceInv'
<1>1. /\ pc = "scan" /\ pc' = "stash" /\ current_slot \notin Slots
      /\ unvisited' = DOMAIN stash
      /\ UNCHANGED <<position_map, stash, connected, op, requested_block_id,
                     leaf_id, branch, tree>>
  BY DEF EndScan, maps, disk, call, transit
<1>2. InTransit /\ InTransit' /\ Live' = Live
  BY <1>1, LiveValue DEF InTransit
<1>3. current_slot \in 0 .. TREE_LEVELS * BLOCKS_PER_BUCKET
  BY DEF TypeInv, TypeOK
<1>4. \A s \in Slots : s < current_slot
  <2>1. TREE_LEVELS * BLOCKS_PER_BUCKET \in Nat
    BY TreeLevelsAssumption, BlocksPerBucketAssumption
  <2> QED BY <1>1, <1>3, <2>1 DEF Slots
<1>5. \A s \in Slots : branch[s].block_id # requested_block_id
  BY <1>1, <1>4, RequestedKnown DEF PlaceInv, Progress
<1>6. Progress'
  BY <1>1, <1>2, <1>5 DEF PlaceInv, Progress
<1> QED BY <1>1, <1>2, <1>6, PlaceMoved DEF PlaceInv

LEMMA PlaceEndStash ==
  ASSUME SingleSlot, TypeInv, PlaceInv, EndStash
  PROVE  PlaceInv'
<1>1. /\ pc = "stash" /\ pc' = "insert" /\ unvisited = {}
      /\ UNCHANGED <<position_map, stash, connected, op, requested_block_id,
                     leaf_id, branch, tree>>
  BY DEF EndStash, maps, disk, call, transit
<1>2. InTransit /\ InTransit' /\ Live' = Live
  BY <1>1, LiveValue DEF InTransit
<1>3. Progress'
  BY <1>1, <1>2 DEF PlaceInv, Progress
<1> QED BY <1>1, <1>2, <1>3, PlaceMoved DEF PlaceInv

\* The requested block is put into the branch, or into the stash, from
\* nowhere.
LEMMA PlaceFromNowhere ==
  ASSUME SingleSlot, TypeInv, KeyInv, PlaceInv, pc \in {"stash", "insert"},
         pc' = "send", op # "CLEAR",
         UNCHANGED <<connected, op, requested_block_id, leaf_id, tree>>,
         NEW S, S = DOMAIN stash \ {requested_block_id},
         Placed(Live, position_map, S), requested_block_id \notin Held(Live, S),
         NEW leaf \in LeafIds, Randomize(requested_block_id, leaf),
         \/ /\ \E s \in Deepest(Free(branch, SlotsShared(leaf))), block \in Block :
                 /\ block.block_id = requested_block_id
                 /\ branch' = [branch EXCEPT ![s] = block]
            /\ DOMAIN stash' = S
         \/ UNCHANGED branch /\ DOMAIN stash' = S \cup {requested_block_id}
  PROVE  PlaceInv'
<1> DEFINE req == requested_block_id
<1>1. InTransit /\ InTransit' /\ leaf_id \in LeafIds
  BY DEF InTransit, PlaceInv, Progress
<1>2. Live \in [Buckets -> BlockIds] /\ branch \in [Slots -> Block]
  BY LiveTyped DEF TypeInv, TypeOK
<1>3. /\ DOMAIN position_map' = DOMAIN position_map
      /\ Placed(Live, position_map', S \cup {req})
      /\ Held(Live, S \cup {req}) = Held(Live, S) \cup {req}
      /\ \A s \in SlotsShared(leaf) :
           LET after == With(Live, Bucket(leaf_id, s), req)
           IN  Live[Bucket(leaf_id, s)] = 0 =>
                 /\ Placed(after, position_map', S)
                 /\ Held(after, S) = Held(Live, S) \cup {req}
  BY <1>2, PlaceAgain
<1>4. Held(Live, S) \cup {req} = Held(Live, DOMAIN stash) \cup {req}
  BY DEF Held
<1>5. CASE /\ \E s \in Deepest(Free(branch, SlotsShared(leaf))), block \in Block :
                 /\ block.block_id = requested_block_id
                 /\ branch' = [branch EXCEPT ![s] = block]
           /\ DOMAIN stash' = S
  <2>1. PICK s \in SlotsShared(leaf), block \in Block :
          /\ block.block_id = req /\ branch[s].block_id = 0
          /\ branch' = [branch EXCEPT ![s] = block]
    BY <1>5 DEF Deepest, Free
  <2>2. s \in Slots
    BY <2>1 DEF SlotsShared
  <2>3. \A v \in Slots : branch'[v].block_id = IF v = s THEN req ELSE branch[v].block_id
    BY <1>2, <2>1, <2>2
  <2>4. LiveWith(leaf_id, branch', tree)
          = With(LiveWith(leaf_id, branch, tree), Bucket(leaf_id, s), req)
    BY <1>1, <2>2, <2>3, LiveAfterSlot
  <2>5. Live' = With(Live, Bucket(leaf_id, s), req)
    BY <1>1, <2>4, LiveValue
  <2>6. Live[Bucket(leaf_id, s)] = 0
    BY <1>1, <2>1, <2>2, LiveSlot
  <2>7. /\ Placed(Live', position_map', DOMAIN stash')
        /\ Held(Live', DOMAIN stash') = Held(Live, DOMAIN stash) \cup {req}
    BY <1>3, <1>4, <1>5, <2>1, <2>5, <2>6
  <2> QED BY <1>3, <2>7, PlaceServed
<1>6. CASE UNCHANGED branch /\ DOMAIN stash' = S \cup {requested_block_id}
  <2>1. Live' = Live
    BY <1>1, <1>6, LiveValue
  <2>2. /\ Placed(Live', position_map', DOMAIN stash')
        /\ Held(Live', DOMAIN stash') = Held(Live, DOMAIN stash) \cup {req}
    BY <1>3, <1>4, <1>6, <2>1
  <2> QED BY <1>3, <2>2, PlaceServed
<1> QED BY <1>5, <1>6

LEMMA PlaceServeFromStash ==
  ASSUME SingleSlot, TypeInv, KeyInv, PlaceInv, ServeFromStash
  PROVE  PlaceInv'
<1> DEFINE req == requested_block_id
           S == DOMAIN stash \ {req}
<1>1. /\ pc = "stash" /\ pc' = "send"
      /\ UNCHANGED <<connected, op, requested_block_id, leaf_id, tree>>
  BY DEF ServeFromStash, disk, call
<1>2. req \in DOMAIN stash
  BY <1>1 DEF ServeFromStash, TypeInv
<1>3. InTransit /\ InTransit' /\ Live \in [Buckets -> BlockIds]
  BY <1>1, LiveTyped DEF InTransit
<1>4. /\ Placed(Live, position_map, S)
      /\ Held(Live, S) = Held(Live, DOMAIN stash) \ {req}
  BY <1>2, <1>3, TakeFromStash DEF PlaceInv
<1>5. CASE op = "CLEAR"
  <2>1. DOMAIN stash' = S /\ UNCHANGED <<position_map, branch>>
    BY <1>5 DEF ServeFromStash, Erase
  <2>2. Live' = Live
    BY <1>1, <1>3, <2>1, LiveValue
  <2> QED BY <1>1, <1>4, <1>5, <2>1, <2>2, PlaceServed
<1>6. CASE op # "CLEAR"
  <2>1. PICK leaf \in LeafIds :
          /\ Randomize(req, leaf)
          /\ \/ \E s \in Deepest(Free(branch, SlotsShared(leaf))) :
                   /\ branch' = [branch EXCEPT ![s] = Served(stash[req])]
                   /\ stash' = Erase(stash, req)
             \/ /\ stash' = Assign(stash, req, IF op = "READ" THEN stash[req] ELSE value)
                /\ UNCHANGED branch
    BY <1>6 DEF ServeFromStash
  <2>2. DOMAIN Erase(stash, req) = S
    BY DEF Erase
  <2>3. \A v : DOMAIN Assign(stash, req, v) = S \cup {req}
    BY <1>2 DEF Assign
  <2>4. stash[req] \in Values
    BY <1>2, SavedMapsOK DEF TypeInv, TypeOK, MapTypes, IsMap
  <2>5. Served(stash[req]) \in Block
    BY <1>1, <2>4, ServedType DEF TypeInv, TypeOK
  <2>6. Served(stash[req]).block_id = req
    BY <1>1, <1>6, RequestedKnown DEF TypeInv, Served, NewBlock
  <2>7. req \notin Held(Live, S)
    BY <1>4
  <2>8. \/ /\ \E s \in Deepest(Free(branch, SlotsShared(leaf))), block \in Block :
                 /\ block.block_id = req
                 /\ branch' = [branch EXCEPT ![s] = block]
           /\ DOMAIN stash' = S
        \/ UNCHANGED branch /\ DOMAIN stash' = S \cup {req}
    BY <2>1, <2>2, <2>3, <2>5, <2>6
  <2> HIDE DEF S
  <2>9. S = DOMAIN stash \ {req}
    BY DEF S
  <2> QED BY <1>1, <1>4, <1>6, <2>1, <2>7, <2>8, <2>9, PlaceFromNowhere
<1> QED BY <1>5, <1>6

\* A block the traversal has not found on its path or in the stash is not
\* anywhere.
LEMMA RequestedNowhere ==
  ASSUME SingleSlot, KeyInv, PlaceInv, pc = "insert"
  PROVE  requested_block_id \notin Held(Live, DOMAIN stash)
<1> DEFINE req == requested_block_id
<1>1. /\ InTransit /\ leaf_id \in LeafIds /\ leaf_id = position_map[req]
      /\ req \notin DOMAIN stash
      /\ \A s \in Slots : branch[s].block_id # req
  BY DEF PlaceInv, Progress, InTransit
<1>2. SUFFICES ASSUME NEW x \in Buckets, Live[x] = req PROVE FALSE
  BY <1>1 DEF Held
<1>3. x \in Branch(leaf_id)
  BY <1>1, <1>2, RequestedKnown DEF PlaceInv, Placed
<1>4. PICK s \in Slots : x = Bucket(leaf_id, s)
  BY <1>1, <1>3, LiveInTransit
<1> QED BY <1>1, <1>2, <1>4, LiveSlot

LEMMA PlaceInsertBlock ==
  ASSUME SingleSlot, TypeInv, KeyInv, PlaceInv, InsertBlock
  PROVE  PlaceInv'
<1> DEFINE req == requested_block_id
           S == DOMAIN stash
<1>1. /\ pc = "insert" /\ pc' = "send" /\ op # "CLEAR"
      /\ UNCHANGED <<connected, op, requested_block_id, leaf_id, tree>>
  BY DEF InsertBlock, disk, call
<1>2. req \notin Held(Live, S) /\ S = S \ {req}
  BY <1>1, RequestedNowhere DEF Held
<1>3. Placed(Live, position_map, S)
  BY DEF PlaceInv
<1>4. PICK leaf \in LeafIds :
        /\ Randomize(req, leaf)
        /\ \/ \E s \in Deepest(Free(branch, SlotsShared(leaf))) :
                 /\ branch' = [branch EXCEPT ![s] = NewBlock(req, value)]
                 /\ UNCHANGED stash
           \/ stash' = Assign(stash, req, value) /\ UNCHANGED branch
  BY DEF InsertBlock
<1>5. NewBlock(req, value) \in Block
  BY NewBlockType DEF TypeInv, TypeOK
<1>6. NewBlock(req, value).block_id = req
  BY <1>1, RequestedKnown DEF NewBlock
<1>7. DOMAIN Assign(stash, req, value) = S \cup {req}
  BY DEF Assign
<1>8. \/ /\ \E s \in Deepest(Free(branch, SlotsShared(leaf))), block \in Block :
               /\ block.block_id = req
               /\ branch' = [branch EXCEPT ![s] = block]
         /\ DOMAIN stash' = S
      \/ UNCHANGED branch /\ DOMAIN stash' = S \cup {req}
  BY <1>4, <1>5, <1>6, <1>7
<1>9. S = DOMAIN stash \ {req}
  BY <1>2
<1> HIDE DEF S
<1> QED BY <1>1, <1>2, <1>3, <1>4, <1>8, <1>9, PlaceFromNowhere

LEMMA PlaceEvictFromStash ==
  ASSUME SingleSlot, TypeInv, KeyInv, PlaceInv, NEW id \in unvisited, EvictFromStash(id)
  PROVE  PlaceInv'
<1> DEFINE f == find_intersection_bucket(leaf_id, position_map[id])
           y == Bucket(leaf_id, f)
           S == DOMAIN stash
           free == Free(branch, LowestBucket(id))
<1>1. /\ pc = "stash" /\ pc' = "stash" /\ id # requested_block_id
      /\ branch' = [s \in Slots |-> IF s \in free THEN NewBlock(id, stash[id])
                                                   ELSE branch[s]]
      /\ stash' = IF free = {} THEN stash ELSE Erase(stash, id)
      /\ unvisited' = unvisited \ {id}
      /\ UNCHANGED <<position_map, connected, op, requested_block_id, leaf_id, tree>>
  BY DEF EvictFromStash, disk, call
<1>2. InTransit /\ InTransit' /\ Live \in [Buckets -> BlockIds]
  BY <1>1, LiveTyped DEF InTransit
<1>3. /\ leaf_id \in LeafIds /\ leaf_id = position_map[requested_block_id]
      /\ \A s \in Slots : branch[s].block_id # requested_block_id
      /\ requested_block_id \in S => requested_block_id \in unvisited
  BY <1>1, <1>2 DEF PlaceInv, Progress
<1>4. id \in S /\ branch \in [Slots -> Block]
  BY <1>1 DEF TypeInv, TypeOK
<1>5. Placed(Live, position_map, S)
  BY DEF PlaceInv
<1>6. id # 0 /\ id \in DOMAIN position_map /\ id \in Held(Live, S)
  BY <1>4, <1>5 DEF Placed, Held
<1>7. f \in Slots /\ LowestBucket(id) = {f}
  BY <1>3, IntersectionBucket, SlotIsLevel DEF LowestBucket
<1> HIDE DEF free
<1>8. free = IF branch[f].block_id = 0 THEN {f} ELSE {}
  BY <1>7 DEF free, Free
<1>9. CASE branch[f].block_id # 0
  <2>1. branch' = branch /\ stash' = stash
    BY <1>1, <1>4, <1>8, <1>9
  <2>2. Live' = Live
    BY <1>1, <1>2, <2>1, LiveValue
  <2>3. Progress'
    BY <1>1, <1>2, <1>3, <2>1 DEF Progress
  <2> QED BY <1>1, <1>5, <2>1, <2>2, <2>3, PlaceMoved
<1>10. CASE branch[f].block_id = 0
  <2>1. \A s \in Slots : branch'[s].block_id = IF s = f THEN id ELSE branch[s].block_id
    BY <1>1, <1>6, <1>8, <1>10 DEF NewBlock
  <2>2. DOMAIN stash' = S \ {id}
    BY <1>1, <1>8, <1>10 DEF Erase
  <2>3. LiveWith(leaf_id, branch', tree) = With(LiveWith(leaf_id, branch, tree), y, id)
    BY <1>3, <1>7, <2>1, LiveAfterSlot
  <2>4. Live' = With(Live, y, id)
    BY <1>1, <1>2, <2>3, LiveValue
  <2>5. y \in Buckets /\ Live[y] = 0 /\ y \in Branch(position_map[id])
    <3>1. y \in Buckets /\ Live[y] = 0
      BY <1>2, <1>7, <1>10, LiveSlot
    <3>2. f \in Slots /\ f <= f
      BY <1>7 DEF Slots
    <3> QED BY <3>1, <3>2, SharedBucket
  <2>6. /\ Placed(Live, position_map, S \ {id})
        /\ Held(Live, S \ {id}) = Held(Live, S) \ {id}
    BY <1>2, <1>4, <1>5, TakeFromStash
  <2>7. /\ Placed(Live', position_map, DOMAIN stash')
        /\ Held(Live', DOMAIN stash') = Held(Live, S)
    <3>1. id \notin Held(Live, S \ {id})
      BY <2>6
    <3>2. /\ Placed(With(Live, y, id), position_map, S \ {id})
          /\ Held(With(Live, y, id), S \ {id}) = Held(Live, S \ {id}) \cup {id}
      BY <1>2, <1>6, <2>5, <2>6, <3>1, PutIntoTree
    <3> QED BY <1>6, <2>2, <2>4, <2>6, <3>2
  <2>8. \A s \in Slots : branch'[s].block_id # requested_block_id
    BY <1>1, <1>3, <2>1
  <2>9. Progress'
    BY <1>1, <1>2, <1>3, <2>2, <2>8 DEF Progress
  <2> QED BY <1>1, <2>7, <2>9, PlaceMoved
<1> QED BY <1>9, <1>10

LEMMA NoCrash ==
  ASSUME SingleSlot, TypeInv, KeyInv, PlaceInv
  PROVE  ~Crash /\ ~RejectLeaf /\ ~SendFails
<1>1. \A id \in DOMAIN position_map : Known(id)
  BY TreeLevelsAssumption DEF KeyInv, Known, LeafIds
<1>2. Placed(Live, position_map, DOMAIN stash)
  BY DEF PlaceInv
<1>3. ASSUME pc = "scan", NEW c \in Slots, branch[c].block_id # 0
      PROVE  Known(branch[c].block_id)
  <2>1. Bucket(leaf_id, c) \in Buckets /\ Live[Bucket(leaf_id, c)] = branch[c].block_id
    BY <1>3, LiveSlot DEF InTransit
  <2> QED BY <1>1, <1>2, <1>3, <2>1 DEF Placed, Held
<1>4. ASSUME pc = "stash", NEW id \in unvisited
      PROVE  Known(id) /\ id # 0
  <2>1. id \in DOMAIN stash
    BY <1>4 DEF TypeInv
  <2> QED BY <1>1, <1>2, <2>1 DEF Placed, Held
<1>5. ASSUME pc = "insert", op = "CLEAR" PROVE FALSE
  <2>1. requested_block_id \in DOMAIN position_map
    BY <1>5, RequestedKnown
  <2>2. requested_block_id \in Held(Live, DOMAIN stash)
    BY <1>5, <2>1 DEF PlaceInv, Missing
  <2> QED BY <1>5, <2>2, RequestedNowhere
<1>6. ~Crash
  BY <1>3, <1>4, <1>5 DEF Crash, EvictsForever
<1>7. ~RejectLeaf
  BY RequestedKnown DEF RejectLeaf
<1> QED BY <1>6, <1>7 DEF SendFails, PlaceInv

-----------------------------------------------------------------------------
LEMMA PlaceInit == ASSUME SingleSlot PROVE Init => PlaceInv
<1> SUFFICES ASSUME Init PROVE PlaceInv
  OBVIOUS
<1>1. ~InTransit /\ pc = "idle" /\ connected /\ Missing = {}
      /\ DOMAIN position_map = {} /\ DOMAIN stash = {}
  BY DEF Init, InTransit, Missing
<1>2. Live = LiveTree(tree)
  BY <1>1, LiveValue
<1>3. \A x \in Buckets : Live[x] = 0
  BY <1>2, SlotIsLevel DEF Init, LiveTree, Dummy
<1>4. Placed(Live, position_map, DOMAIN stash)
  BY <1>1, <1>3 DEF Placed, Held
<1>5. Progress
  BY <1>1 DEF Progress
<1> QED BY <1>1, <1>4, <1>5 DEF PlaceInv

LEMMA PlaceStutter ==
  ASSUME PlaceInv, UNCHANGED vars
  PROVE  PlaceInv'
<1>1. Live' = Live /\ Missing' = Missing /\ (Progress' <=> Progress)
  BY DEF Live, InTransit, Missing, Progress, vars, maps, disk, call, transit, progress
<1> QED BY <1>1 DEF PlaceInv, vars, maps, call

LEMMA PlaceNext ==
  ASSUME SingleSlot, IdForEveryKey
  PROVE  TypeInv /\ KeyInv /\ PlaceInv /\ [Next]_vars => PlaceInv'
<1> SUFFICES ASSUME TypeInv, KeyInv, PlaceInv, [Next]_vars PROVE PlaceInv'
  OBVIOUS
<1>1. ASSUME NEW o, NEW k, NEW v, Call(o, k, v) PROVE PlaceInv'
  BY <1>1, PlaceOutside DEF Call, disk, InTransit
<1>2. CASE PutNewKey
  BY <1>2, PlacePutNewKey
<1>3. CASE UseKnownKey
  BY <1>3, PlaceOutside DEF UseKnownKey, disk, InTransit
<1>4. CASE MissingKey
  BY <1>4, PlaceOutside DEF MissingKey, disk, InTransit
<1>5. CASE FetchBranch
  BY <1>5, PlaceFetchBranch
<1>6. CASE TraverseBranch
  BY <1>6, PlaceSkipFreeSlot, PlaceServeFromBranch, PlaceMoveOtherBlock, PlaceEndScan,
     PlaceServeFromStash, PlaceEvictFromStash, PlaceEndStash, PlaceInsertBlock, NoCrash
     DEF TraverseBranch
<1>7. CASE CommitBranch
  BY <1>7, PlaceCommitBranch
<1>8. CASE Confirm
  BY <1>8, PlaceConfirm
<1>9. CASE Return
  BY <1>9, PlaceOutside DEF Return, disk, InTransit
<1>10. CASE UNCHANGED vars
  BY <1>10, PlaceStutter
<1> QED BY <1>1, <1>2, <1>3, <1>4, <1>5, <1>6, <1>7, <1>8, <1>9, <1>10, NoCrash
       DEF Next, Put, Get, Clear, CallStep

LEMMA PlaceInvariant ==
  ASSUME SingleSlot, IdForEveryKey
  PROVE  Spec => []PlaceInv
<1>1. Init => PlaceInv
  BY PlaceInit
<1>2. TypeInv /\ KeyInv /\ PlaceInv /\ [Next]_vars => PlaceInv'
  BY PlaceNext
<1>3. Spec => []KeyInv
  BY KeyInvariant
<1> QED BY <1>1, <1>2, <1>3, TypeInvariant, PTL DEF Spec

-----------------------------------------------------------------------------
(***************************************************************************)
(* What the invariant says in the terms of PathOram.                       *)
(***************************************************************************)
LEMMA LiveBlockIds ==
  ASSUME SingleSlot
  PROVE  /\ Places = {0}
         /\ \A b \in Buckets : LiveBlock(b, 0).block_id = Live[b]
<1>1. \A b \in Branch(leaf_id) : Len(b) * BLOCKS_PER_BUCKET + 0 = Len(b)
  <2>1. \A d \in Levels : d * 1 + 0 = d
    BY DEF Levels
  <2> QED BY <2>1, BucketDepth DEF Branch, SingleSlot
<1> QED BY <1>1, SlotIsLevel DEF LiveBlock, Live, LiveTree, LiveWith, InTransit

LEMMA CopiesAreLive ==
  ASSUME SingleSlot, NEW id
  PROVE  /\ CopiesInTree(id) = {x \in Buckets : Live[x] = id} \X {0}
         /\ id # 0 => (Present(id) <=> id \in Held(Live, DOMAIN stash))
<1>1. \A p \in Buckets \X Places : p[2] = 0 /\ LiveBlock(p[1], p[2]).block_id = Live[p[1]]
  BY LiveBlockIds
<1>2. CopiesInTree(id) = {x \in Buckets : Live[x] = id} \X {0}
  BY <1>1, LiveBlockIds DEF CopiesInTree
<1>3. CopiesInTree(id) # {} <=> \E x \in Buckets : Live[x] = id
  <2>1. ASSUME NEW x \in Buckets, Live[x] = id PROVE <<x, 0>> \in CopiesInTree(id)
    BY <1>2, <2>1
  <2>2. ASSUME NEW p \in CopiesInTree(id) PROVE p[1] \in Buckets /\ Live[p[1]] = id
    BY <1>2, <2>2
  <2> QED BY <2>1, <2>2
<1>4. id # 0 => (id \in Held(Live, DOMAIN stash)
                  <=> id \in DOMAIN stash \/ \E x \in Buckets : Live[x] = id)
  BY DEF Held
<1> QED BY <1>2, <1>3, <1>4 DEF Present

\* traverse_branch, which moves blocks between slots and stash in three
\* loops, leaves no second copy of a block that get would read as stale.
THEOREM OneCopyOfEachBlock ==
  ASSUME SingleSlot, IdForEveryKey
  PROVE  Spec => []OneCopy
<1>1. PlaceInv => OneCopy
  <2> SUFFICES ASSUME PlaceInv, NEW id \in BlockIds \ {0}
               PROVE  /\ \A p, q \in CopiesInTree(id) : p = q
                      /\ id \in DOMAIN stash => CopiesInTree(id) = {}
    BY DEF OneCopy
  <2>1. Placed(Live, position_map, DOMAIN stash)
    BY DEF PlaceInv
  <2> QED BY <2>1, CopiesAreLive DEF Placed
<1> QED BY <1>1, PlaceInvariant, PTL

\* The Path ORAM invariant: every block the server holds lies on the branch
\* of the leaf that position_map names, so that fetch_branch brings it.
THEOREM BlocksStayOnTheirPath ==
  ASSUME SingleSlot, IdForEveryKey
  PROVE  Spec => []BlocksOnTheirPath
<1>1. KeyInv /\ PlaceInv => BlocksOnTheirPath
  <2> SUFFICES ASSUME KeyInv, PlaceInv, NEW b \in Buckets, LiveBlock(b, 0).block_id # 0
               PROVE  LET id == LiveBlock(b, 0).block_id
                      IN  Known(id) /\ b \in Branch(position_map[id])
    BY LiveBlockIds DEF BlocksOnTheirPath
  <2>1. Live[b] # 0 /\ LiveBlock(b, 0).block_id = Live[b]
    BY LiveBlockIds
  <2>2. Live[b] \in DOMAIN position_map /\ b \in Branch(position_map[Live[b]])
    BY <2>1 DEF PlaceInv, Placed, Held
  <2> QED BY <2>1, <2>2, TreeLevelsAssumption DEF KeyInv, Known, LeafIds
<1> QED BY <1>1, PlaceInvariant, KeyInvariant, PTL

\* Between calls the blocks in the tree and the stash are those of the
\* stored keys: put, get and clear lose none and leave none behind.
THEOREM BlocksAreNeverLost ==
  ASSUME SingleSlot, IdForEveryKey
  PROVE  Spec => []NoBlockLost
<1>1. TypeInv /\ PlaceInv => NoBlockLost
  <2> SUFFICES ASSUME TypeInv, PlaceInv, pc = "idle"
               PROVE  {id \in BlockIds \ {0} : Present(id)} = DOMAIN position_map
    BY DEF NoBlockLost
  <2>1. Held(Live, DOMAIN stash) = DOMAIN position_map
    BY DEF PlaceInv, Placed, Missing
  <2>2. 0 \notin Held(Live, DOMAIN stash)
    BY DEF PlaceInv, Placed, Held
  <2>3. DOMAIN position_map \subseteq BlockIds
    BY SavedMapsOK DEF TypeInv, TypeOK, MapTypes, IsMap
  <2> QED BY <2>1, <2>2, <2>3, CopiesAreLive
<1> QED BY <1>1, PlaceInvariant, TypeInvariant, PTL

\* Once the server has confirmed a clear, the block is neither in the tree
\* nor in the stash.
THEOREM ClearedBlocksAreGone ==
  ASSUME SingleSlot, IdForEveryKey
  PROVE  Spec => []ClearRemovesBlock
<1>1. KeyInv /\ PlaceInv => ClearRemovesBlock
  <2> SUFFICES ASSUME KeyInv, PlaceInv, pc = "confirm", op = "CLEAR"
               PROVE  ~Present(requested_block_id)
    BY DEF ClearRemovesBlock
  <2>1. requested_block_id # 0
    BY DEF KeyInv, KeysHaveTheirOwnBlocks
  <2>2. requested_block_id \notin Held(Live, DOMAIN stash)
    BY DEF PlaceInv
  <2> QED BY <2>1, <2>2, CopiesAreLive
<1> QED BY <1>1, PlaceInvariant, KeyInvariant, PTL

\* No call indexes outside the branch, dereferences clear's null buffer or
\* loops in the stash: the leaf of every block it meets is known, and clear
\* always meets its block.
THEOREM ClientNeverCrashes ==
  ASSUME SingleSlot, IdForEveryKey
  PROVE  Spec => []NeverCrashes
<1>1. PlaceInv => NeverCrashes
  BY DEF PlaceInv, NeverCrashes
<1> QED BY <1>1, PlaceInvariant, PTL
=============================================================================
