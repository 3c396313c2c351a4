--------------------------- MODULE PathOramProofs ---------------------------
(***************************************************************************)
(* What holds of PathOram for every tree, every bucket size, every set of  *)
(* keys and values and every width of blkid_t.                             *)
(***************************************************************************)
EXTENDS PathOram, OramTreeProofs, FiniteSetTheorems

-----------------------------------------------------------------------------
(***************************************************************************)
(* operator[]= and erase keep a map a map.                                 *)
(***************************************************************************)
LEMMA AssignType ==
  ASSUME NEW S, NEW T, NEW m, IsMap(m, S, T), NEW x \in S, NEW v \in T
  PROVE  IsMap(Assign(m, x, v), S, T)
BY DEF IsMap, Assign

LEMMA EraseType ==
  ASSUME NEW S, NEW T, NEW m, IsMap(m, S, T), NEW x
  PROVE  IsMap(Erase(m, x), S, T)
BY DEF IsMap, Erase

LEMMA ToBlockIdType ==
  ASSUME NEW i \in Int
  PROVE  ToBlockId(i) \in BlockIds
BY IdModulusAssumption DEF ToBlockId, BlockIds

LEMMA NewBlockType ==
  ASSUME NEW id \in BlockIds, NEW d \in Values
  PROVE  NewBlock(id, d) \in Block
BY IdModulusAssumption DEF NewBlock, Dummy, Block, BlockIds, Values

LEMMA DummyType == Dummy \in Block
BY IdModulusAssumption DEF Dummy, Block, BlockIds, Values

LEMMA ServedType ==
  ASSUME requested_block_id \in BlockIds, value \in Values, NEW d \in Values,
         op \in {"READ", "WRITE", "CLEAR"}
  PROVE  Served(d) \in Block
BY NewBlockType, DummyType DEF Served

LEMMA SlotRange ==
  /\ 0 \in 0 .. TREE_LEVELS * BLOCKS_PER_BUCKET
  /\ \A s \in Slots : s + 1 \in 0 .. TREE_LEVELS * BLOCKS_PER_BUCKET
<1>1. TREE_LEVELS * BLOCKS_PER_BUCKET \in Nat
  BY TreeLevelsAssumption, BlocksPerBucketAssumption
<1> QED BY <1>1 DEF Slots

LEMMA FreeSlots ==
  ASSUME NEW b, NEW S \in SUBSET Slots
  PROVE  /\ Free(b, S) \subseteq Slots
         /\ Deepest(Free(b, S)) \subseteq Slots
         /\ Lowest(Free(b, S)) \subseteq Slots
BY DEF Free, Deepest, Lowest

LEMMA SwapType ==
  ASSUME NEW T, NEW b \in [Slots -> T], NEW s \in Slots, NEW t \in Slots
  PROVE  Swap(b, s, t) \in [Slots -> T]
BY DEF Swap

-----------------------------------------------------------------------------
(***************************************************************************)
(* Type correctness.  TypeOK is not inductive: put stores under the key of *)
(* the call, and the walk over the stash reads the entries it has not yet  *)
(* visited.                                                                *)
(***************************************************************************)
TypeInv ==
  /\ TypeOK
  /\ pc # "idle" => key \in Keys /\ op \in {"READ", "WRITE", "CLEAR"}
  /\ pc = "stash" => unvisited \subseteq DOMAIN stash

\* What the three maps and the file may hold.
MapTypes ==
  /\ IsMap(key_to_block_id, Keys, BlockIds)
  /\ IsMap(position_map, BlockIds, LeafIds \cup {0})
  /\ IsMap(stash, BlockIds, Values)

LEMMA SavedMapsOK ==
  /\ MapsOK(SavedMaps) <=> MapTypes
  /\ MapsOK(SavedMaps)' <=> MapTypes'
BY DEF MapsOK, SavedMaps, MapTypes

LEMMA TypeInit == Init => TypeInv
<1> SUFFICES ASSUME Init PROVE TypeInv
  OBVIOUS
<1>1. MapTypes
  BY DEF Init, MapTypes, IsMap
<1>2. Dummy \in Block
  BY DummyType
<1>3. NoBranch \in [Slots -> Block]
  BY <1>2 DEF NoBranch
<1>4. tree \in [Buckets -> [Places -> Block]]
  BY <1>2 DEF Init
<1>5. MapsOK(SavedMaps) /\ MapsOK(oram_state)
  BY <1>1, SavedMapsOK DEF Init
<1>6. 0 \in BlockIds
  BY IdModulusAssumption DEF BlockIds
<1>7. 0 \in 0 .. TREE_LEVELS * BLOCKS_PER_BUCKET
  BY SlotRange
<1> QED BY <1>3, <1>4, <1>5, <1>6, <1>7 DEF Init, TypeInv, TypeOK, Values

LEMMA FinitePositions ==
  ASSUME TypeInv
  PROVE  /\ IsFiniteSet(DOMAIN position_map)
         /\ Cardinality(DOMAIN position_map) \in Nat
<1>1. DOMAIN position_map \subseteq BlockIds
  BY SavedMapsOK DEF TypeInv, TypeOK, MapTypes, IsMap
<1>2. IsFiniteSet(BlockIds)
  BY IdModulusAssumption, FS_Interval DEF BlockIds
<1> QED BY <1>1, <1>2, FS_Subset, FS_CardinalityType

(***************************************************************************)
(* The operations before and after the traversal.                          *)
(***************************************************************************)
LEMMA TypeCall ==
  ASSUME TypeInv,
         NEW o \in {"READ", "WRITE", "CLEAR"}, NEW k \in Keys,
         NEW v \in Data \cup {NoData}, Call(o, k, v)
  PROVE  TypeInv'
<1>1. MapTypes /\ UNCHANGED SavedMaps
  BY SavedMapsOK DEF TypeInv, TypeOK, Call, SavedMaps, maps
<1> QED BY <1>1 DEF TypeInv, TypeOK, Call, disk, transit, progress, Values

LEMMA TypePutNewKey ==
  ASSUME TypeInv, PutNewKey
  PROVE  TypeInv'
<1>1. MapTypes
  BY SavedMapsOK DEF TypeInv, TypeOK
<1>2. PICK i \in 1 .. Cardinality(DOMAIN position_map) + 1, leaf \in LeafIds :
        /\ key_to_block_id' = Assign(key_to_block_id, key, ToBlockId(i))
        /\ Randomize(ToBlockId(i), leaf)
        /\ requested_block_id' = ToBlockId(i)
  BY DEF PutNewKey
<1>3. ToBlockId(i) \in BlockIds
  BY FinitePositions, ToBlockIdType
<1>4. key \in Keys
  BY DEF TypeInv, PutNewKey
<1>5. MapTypes'
  BY <1>1, <1>2, <1>3, <1>4, AssignType DEF MapTypes, Randomize, PutNewKey
<1>6. disclosed' \in SUBSET BlockIds
  BY <1>2 DEF TypeInv, TypeOK, Randomize
<1>7. MapsOK(SavedMaps)'
  BY <1>5, SavedMapsOK
<1> QED BY <1>2, <1>3, <1>6, <1>7
        DEF TypeInv, TypeOK, PutNewKey, disk, transit, progress

LEMMA TypeUseKnownKey ==
  ASSUME TypeInv, UseKnownKey
  PROVE  TypeInv'
<1>1. MapTypes /\ UNCHANGED SavedMaps
  BY SavedMapsOK DEF TypeInv, TypeOK, UseKnownKey, SavedMaps, maps
<1>2. key_to_block_id[key] \in BlockIds
  BY <1>1 DEF UseKnownKey, MapTypes, IsMap
<1> QED BY <1>1, <1>2
        DEF TypeInv, TypeOK, UseKnownKey, disk, transit, progress, Values

LEMMA TypeMissingKey ==
  ASSUME TypeInv, MissingKey \/ SendFails
  PROVE  TypeInv'
<1>1. UNCHANGED SavedMaps
  BY DEF MissingKey, SendFails, SavedMaps, maps
<1> QED BY <1>1
        DEF TypeInv, TypeOK, MissingKey, SendFails, disk, call, transit, progress

LEMMA TypeRejectLeaf ==
  ASSUME TypeInv, RejectLeaf
  PROVE  TypeInv'
<1>1. MapTypes /\ requested_block_id \in BlockIds
  BY SavedMapsOK DEF TypeInv, TypeOK
<1>2. MapTypes'
  BY <1>1, AssignType DEF MapTypes, RejectLeaf
<1>3. MapsOK(SavedMaps)'
  BY <1>2, SavedMapsOK
<1> QED BY <1>1, <1>3
        DEF TypeInv, TypeOK, RejectLeaf, disk, call, transit, progress

LEMMA TypeFetchBranch ==
  ASSUME TypeInv, FetchBranch
  PROVE  TypeInv'
<1>1. MapTypes /\ UNCHANGED SavedMaps
  BY SavedMapsOK DEF TypeInv, TypeOK, FetchBranch, SavedMaps, maps
<1>2. position_map[requested_block_id] \in LeafIds
  BY <1>1 DEF FetchBranch, Known, MapTypes, IsMap
<1>3. branch' \in [Slots -> Block]
  BY <1>2, ReadBranchType DEF FetchBranch, TypeInv, TypeOK
<1>4. 0 \in 0 .. TREE_LEVELS * BLOCKS_PER_BUCKET
  BY SlotRange
<1> QED BY <1>1, <1>2, <1>3, <1>4
        DEF TypeInv, TypeOK, FetchBranch, disk, call

LEMMA TypeCommitBranch ==
  ASSUME TypeInv, CommitBranch
  PROVE  TypeInv'
<1>1. UNCHANGED SavedMaps
  BY DEF CommitBranch, SavedMaps, maps
<1>2. tree' \in [Buckets -> [Places -> Block]]
  BY WriteBranchType DEF CommitBranch, TypeInv, TypeOK
<1> QED BY <1>1, <1>2
        DEF TypeInv, TypeOK, CommitBranch, call, transit, progress

LEMMA TypeEndOfCall ==
  ASSUME TypeInv, Confirm \/ Return
  PROVE  TypeInv'
<1>1. MapTypes
  BY SavedMapsOK DEF TypeInv, TypeOK
<1>2. MapTypes'
  <2>1. CASE Confirm /\ op = "CLEAR"
    BY <1>1, <2>1, EraseType DEF Confirm, MapTypes
  <2>2. CASE (Confirm /\ op # "CLEAR") \/ Return
    BY <1>1, <2>2 DEF Confirm, Return, MapTypes, maps
  <2> QED BY <2>1, <2>2
<1>3. MapsOK(SavedMaps)' /\ MapsOK(oram_state)'
  BY <1>2, SavedMapsOK DEF Confirm, Return, disk, TypeInv, TypeOK
<1>4. Dummy \in Block /\ 0 \in BlockIds
  BY IdModulusAssumption DEF Dummy, Block, BlockIds, Values
<1>5. branch' \in [Slots -> Block]
  BY <1>4 DEF Confirm, Return, EndOfCall, NoBranch
<1>6. /\ disclosed' \in SUBSET BlockIds
      /\ tree' \in [Buckets -> [Places -> Block]]
      /\ connected' \in BOOLEAN
      /\ pc' = "idle"
  BY DEF Confirm, Return, TypeInv, TypeOK, disk
<1>7. EndOfCall
  BY DEF Confirm, Return
<1>8. 0 \in 0 .. TREE_LEVELS * BLOCKS_PER_BUCKET
  BY SlotRange
<1> QED BY <1>3, <1>4, <1>5, <1>6, <1>7, <1>8
        DEF TypeInv, TypeOK, EndOfCall, Values
(***************************************************************************)
(* The traversal.                                                          *)
(***************************************************************************)
\* What an action of the traversal must show.
Moved ==
  /\ MapTypes'
  /\ branch' \in [Slots -> Block]
  /\ value' \in Values
  /\ current_slot' \in 0 .. TREE_LEVELS * BLOCKS_PER_BUCKET
  /\ unvisited' \in SUBSET BlockIds
  /\ disclosed' \in SUBSET BlockIds
  /\ pc' \in {"scan", "stash", "insert", "send"}
  /\ pc' = "stash" => unvisited' \subseteq DOMAIN stash'
  /\ UNCHANGED <<connected, disk, call, result, leaf_id>>

LEMMA TypeMoved ==
  ASSUME TypeInv, pc # "idle", Moved
  PROVE  TypeInv'
<1>1. MapsOK(SavedMaps)'
  BY SavedMapsOK DEF Moved
<1> QED BY <1>1 DEF TypeInv, TypeOK, Moved, disk, call

LEMMA TypeLoopSteps ==
  ASSUME TypeInv, SkipFreeSlot \/ EndScan \/ EndStash
  PROVE  TypeInv'
<1>1. MapTypes
  BY SavedMapsOK DEF TypeInv, TypeOK
<1>2. MapTypes'
  BY <1>1 DEF MapTypes, maps, SkipFreeSlot, EndScan, EndStash
<1>3. DOMAIN stash \subseteq BlockIds
  BY <1>1 DEF MapTypes, IsMap
<1>4. Moved
  BY <1>2, <1>3, SlotRange
  DEF Moved, TypeInv, TypeOK, SkipFreeSlot, EndScan, EndStash,
      call, transit, progress, maps
<1> QED BY <1>4, TypeMoved DEF SkipFreeSlot, EndScan, EndStash

LEMMA TypeServeFromBranch ==
  ASSUME TypeInv, ServeFromBranch
  PROVE  TypeInv'
<1> DEFINE found == branch[current_slot]
           b     == [branch EXCEPT ![current_slot] = Served(found.data)]
<1>1. /\ MapTypes
      /\ branch \in [Slots -> Block]
      /\ current_slot \in Slots
      /\ requested_block_id \in BlockIds
      /\ value \in Values
      /\ op \in {"READ", "WRITE", "CLEAR"}
  BY SavedMapsOK DEF TypeInv, TypeOK, ServeFromBranch
<1>2. found \in Block /\ found.data \in Values
  BY <1>1 DEF Block
<1>3. Served(found.data) \in Block
  BY <1>1, <1>2, ServedType
<1>4. b \in [Slots -> Block]
  BY <1>1, <1>3
<1>5. Dummy \in Block
  BY DummyType
<1>6. PICK leaf \in LeafIds :
        /\ Randomize(requested_block_id, leaf)
        /\ \/ \E s \in Deepest(Free(b, SlotsShared(leaf))) :
                /\ branch' = Swap(b, current_slot, s)
                /\ UNCHANGED stash
           \/ /\ stash' = Assign(stash, b[current_slot].block_id, b[current_slot].data)
              /\ branch' = [b EXCEPT ![current_slot] = Dummy]
  BY DEF ServeFromBranch
<1>7. SlotsShared(leaf) \in SUBSET Slots
  BY DEF SlotsShared
<1>8. b[current_slot] \in Block
  BY <1>1, <1>4
<1>9. branch' \in [Slots -> Block] /\ IsMap(stash', BlockIds, Values)
  <2>1. CASE \E s \in Deepest(Free(b, SlotsShared(leaf))) :
               /\ branch' = Swap(b, current_slot, s)
               /\ UNCHANGED stash
    <3> HIDE DEF b
    <3> QED BY <1>1, <1>4, <1>7, <2>1, FreeSlots, SwapType DEF MapTypes
  <2>2. CASE /\ stash' = Assign(stash, b[current_slot].block_id, b[current_slot].data)
             /\ branch' = [b EXCEPT ![current_slot] = Dummy]
    <3>1. b[current_slot].block_id \in BlockIds /\ b[current_slot].data \in Values
      BY <1>8 DEF Block
    <3>2. IsMap(stash', BlockIds, Values)
      BY <1>1, <2>2, <3>1, AssignType DEF MapTypes
    <3> HIDE DEF b
    <3>3. branch' \in [Slots -> Block]
      BY <1>4, <1>5, <2>2
    <3> QED BY <3>2, <3>3
  <2> QED BY <1>6, <2>1, <2>2
<1>10. /\ IsMap(position_map', BlockIds, LeafIds \cup {0})
       /\ disclosed' \in SUBSET BlockIds
  BY <1>1, <1>6, AssignType DEF MapTypes, Randomize, TypeInv, TypeOK
<1>11. MapTypes'
  BY <1>1, <1>9, <1>10 DEF MapTypes, ServeFromBranch
<1>12. value' \in Values
  BY <1>1, <1>2 DEF ServeFromBranch
<1>13. Moved
  BY <1>9, <1>10, <1>11, <1>12
  DEF Moved, ServeFromBranch, TypeInv, TypeOK, progress
<1> QED BY <1>13, TypeMoved DEF ServeFromBranch

LEMMA TypeMoveOtherBlock ==
  ASSUME TypeInv, MoveOtherBlock
  PROVE  TypeInv'
<1> DEFINE other == branch[current_slot]
           free  == Free(branch, LowestBucket(other.block_id))
<1>1. /\ MapTypes
      /\ branch \in [Slots -> Block]
      /\ current_slot \in Slots
  BY SavedMapsOK DEF TypeInv, TypeOK, MoveOtherBlock
<1>2. /\ other \in Block
      /\ other.block_id \in BlockIds
      /\ other.data \in Values
  BY <1>1 DEF Block
<1>3. LowestBucket(other.block_id) \in SUBSET Slots
  BY DEF LowestBucket, BucketSlots
<1>4. branch' \in [Slots -> Block] /\ IsMap(stash', BlockIds, Values)
  <2>1. CASE \E s \in Lowest(free) :
               /\ branch' = Swap(branch, current_slot, s)
               /\ UNCHANGED stash
    BY <1>1, <1>3, <2>1, FreeSlots, SwapType DEF MapTypes
  <2>2. CASE /\ stash' = Assign(stash, other.block_id, other.data)
             /\ branch' = [branch EXCEPT ![current_slot] = Dummy]
    BY <1>1, <1>2, <2>2, AssignType, DummyType DEF MapTypes
  <2> QED BY <2>1, <2>2 DEF MoveOtherBlock
<1>5. MapTypes'
  BY <1>1, <1>4 DEF MapTypes, MoveOtherBlock
<1>6. Moved
  BY <1>1, <1>4, <1>5, SlotRange DEF Moved, MoveOtherBlock, TypeInv, TypeOK
<1> QED BY <1>6, TypeMoved DEF MoveOtherBlock

LEMMA TypeServeFromStash ==
  ASSUME TypeInv, ServeFromStash
  PROVE  TypeInv'
<1> DEFINE id    == requested_block_id
           block == Served(stash[id])
<1>1. /\ MapTypes
      /\ branch \in [Slots -> Block]
      /\ id \in BlockIds
      /\ value \in Values
      /\ disclosed \in SUBSET BlockIds
      /\ op \in {"READ", "WRITE", "CLEAR"}
      /\ id \in DOMAIN stash
  BY SavedMapsOK DEF TypeInv, TypeOK, ServeFromStash
<1>2. stash[id] \in Values
  BY <1>1 DEF MapTypes, IsMap
<1>3. block \in Block
  BY <1>1, <1>2, ServedType
<1>4. CASE op = "CLEAR"
  <2>1. MapTypes'
    BY <1>1, <1>4, EraseType DEF ServeFromStash, MapTypes
  <2>2. Moved
    BY <1>1, <1>4, <2>1 DEF Moved, ServeFromStash, TypeInv, TypeOK, progress
  <2> QED BY <2>2, TypeMoved DEF ServeFromStash
<1>5. CASE op # "CLEAR"
  <2>1. value' \in Values
    BY <1>1, <1>2, <1>5 DEF ServeFromStash
  <2>2. PICK leaf \in LeafIds :
          /\ Randomize(id, leaf)
          /\ \/ \E s \in Deepest(Free(branch, SlotsShared(leaf))) :
                  /\ branch' = [branch EXCEPT ![s] = block]
                  /\ stash' = Erase(stash, id)
             \/ /\ stash' = Assign(stash, id, IF op = "READ" THEN stash[id] ELSE value)
                /\ UNCHANGED branch
    BY <1>5 DEF ServeFromStash
  <2>3. SlotsShared(leaf) \in SUBSET Slots
    BY DEF SlotsShared
  <2>4. branch' \in [Slots -> Block] /\ IsMap(stash', BlockIds, Values)
    <3>1. CASE \E s \in Deepest(Free(branch, SlotsShared(leaf))) :
                 /\ branch' = [branch EXCEPT ![s] = block]
                 /\ stash' = Erase(stash, id)
      <4> HIDE DEF block
      <4> QED BY <1>1, <1>3, <2>3, <3>1, FreeSlots, EraseType DEF MapTypes
    <3>2. CASE /\ stash' = Assign(stash, id, IF op = "READ" THEN stash[id] ELSE value)
               /\ UNCHANGED branch
      <4>1. (IF op = "READ" THEN stash[id] ELSE value) \in Values
        BY <1>1, <1>2
      <4> QED BY <1>1, <3>2, <4>1, AssignType DEF MapTypes
    <3> QED BY <2>2, <3>1, <3>2
  <2>5. /\ IsMap(position_map', BlockIds, LeafIds \cup {0})
        /\ disclosed' \in SUBSET BlockIds
    BY <1>1, <2>2, AssignType DEF MapTypes, Randomize
  <2>6. MapTypes'
    BY <1>1, <2>4, <2>5 DEF MapTypes, ServeFromStash
  <2>7. Moved
    BY <2>1, <2>4, <2>5, <2>6 DEF Moved, ServeFromStash, TypeInv, TypeOK, progress
  <2> QED BY <2>7, TypeMoved DEF ServeFromStash
<1> QED BY <1>4, <1>5

LEMMA TypeEvictFromStash ==
  ASSUME TypeInv, NEW id \in unvisited, EvictFromStash(id)
  PROVE  TypeInv'
<1> DEFINE free == Free(branch, LowestBucket(id))
<1>1. /\ MapTypes
      /\ branch \in [Slots -> Block]
      /\ id \in BlockIds /\ id \in DOMAIN stash
      /\ unvisited \subseteq DOMAIN stash
  BY SavedMapsOK DEF TypeInv, TypeOK, EvictFromStash
<1>2. NewBlock(id, stash[id]) \in Block
  BY <1>1, NewBlockType DEF MapTypes, IsMap
<1>3. branch' = [s \in Slots |-> IF s \in free THEN NewBlock(id, stash[id]) ELSE branch[s]]
  BY DEF EvictFromStash
<1>4. branch' \in [Slots -> Block]
  <2> HIDE DEF free
  <2> QED BY <1>1, <1>2, <1>3
<1>5. stash' = stash \/ stash' = Erase(stash, id)
  BY DEF EvictFromStash
<1>6. MapTypes'
  BY <1>1, <1>5, EraseType DEF MapTypes, EvictFromStash
<1>7. unvisited' \subseteq DOMAIN stash'
  BY <1>1, <1>5 DEF EvictFromStash, Erase
<1>8. Moved
  BY <1>4, <1>6, <1>7 DEF Moved, EvictFromStash, TypeInv, TypeOK
<1> QED BY <1>8, TypeMoved DEF EvictFromStash

LEMMA TypeInsertBlock ==
  ASSUME TypeInv, InsertBlock
  PROVE  TypeInv'
<1>1. /\ MapTypes
      /\ branch \in [Slots -> Block]
      /\ requested_block_id \in BlockIds
      /\ value \in Values
      /\ disclosed \in SUBSET BlockIds
  BY SavedMapsOK DEF TypeInv, TypeOK
<1>2. PICK leaf \in LeafIds :
        /\ Randomize(requested_block_id, leaf)
        /\ \/ \E s \in Deepest(Free(branch, SlotsShared(leaf))) :
                /\ branch' = [branch EXCEPT ![s] = NewBlock(requested_block_id, value)]
                /\ UNCHANGED stash
           \/ /\ stash' = Assign(stash, requested_block_id, value)
              /\ UNCHANGED branch
  BY DEF InsertBlock
<1>3. SlotsShared(leaf) \in SUBSET Slots
  BY DEF SlotsShared
<1>4. NewBlock(requested_block_id, value) \in Block
  BY <1>1, NewBlockType
<1>5. branch' \in [Slots -> Block] /\ IsMap(stash', BlockIds, Values)
  BY <1>1, <1>2, <1>3, <1>4, FreeSlots, AssignType DEF MapTypes
<1>6. /\ IsMap(position_map', BlockIds, LeafIds \cup {0})
      /\ disclosed' \in SUBSET BlockIds
  BY <1>1, <1>2, AssignType DEF MapTypes, Randomize
<1>7. MapTypes'
  BY <1>1, <1>5, <1>6 DEF MapTypes, InsertBlock
<1>8. Moved
  BY <1>1, <1>5, <1>6, <1>7 DEF Moved, InsertBlock, TypeInv, TypeOK, progress, call
<1> QED BY <1>8, TypeMoved DEF InsertBlock

LEMMA TypeCrash ==
  ASSUME TypeInv, Crash
  PROVE  TypeInv'
<1>1. UNCHANGED SavedMaps
  BY DEF Crash, SavedMaps, maps
<1> QED BY <1>1 DEF TypeInv, TypeOK, Crash, disk, call, transit, progress
LEMMA TypeNext == TypeInv /\ [Next]_vars => TypeInv'
<1> SUFFICES ASSUME TypeInv, [Next]_vars PROVE TypeInv'
  OBVIOUS
<1>1. ASSUME NEW k \in Keys, NEW v \in Data, Put(k, v) PROVE TypeInv'
  BY <1>1, TypeCall DEF Put
<1>2. ASSUME NEW k \in Keys, Get(k) \/ Clear(k) PROVE TypeInv'
  BY <1>2, TypeCall DEF Get, Clear
<1>3. ASSUME CallStep PROVE TypeInv'
  <2>1. CASE TraverseBranch
    BY <2>1, TypeLoopSteps, TypeServeFromBranch, TypeMoveOtherBlock,
       TypeServeFromStash, TypeEvictFromStash, TypeInsertBlock, TypeCrash
    DEF TraverseBranch
  <2> QED BY <1>3, <2>1, TypePutNewKey, TypeUseKnownKey, TypeMissingKey,
             TypeRejectLeaf, TypeFetchBranch, TypeCommitBranch, TypeEndOfCall
          DEF CallStep
<1>4. ASSUME UNCHANGED vars PROVE TypeInv'
  <2>1. UNCHANGED SavedMaps
    BY <1>4 DEF vars, maps, SavedMaps
  <2> QED BY <1>4, <2>1
          DEF TypeInv, TypeOK, vars, disk, call, transit, progress, maps
<1> QED BY <1>1, <1>2, <1>3, <1>4 DEF Next

LEMMA TypeInvariant == Spec => []TypeInv
BY TypeInit, TypeNext, PTL DEF Spec

(***************************************************************************)
(* Every variable keeps its type, whatever the width of blkid_t and the    *)
(* number of keys (block ids that wrapped around included).                *)
(***************************************************************************)
THEOREM TypeCorrect == Spec => []TypeOK
<1>1. TypeInv => TypeOK
  BY DEF TypeInv
<1> QED BY <1>1, TypeInvariant, PTL
-----------------------------------------------------------------------------
(***************************************************************************)
(* Obliviousness.  While the server listens, the only block whose leaf it  *)
(* has seen is the one being accessed, from the moment the leaf is sent to *)
(* the moment the traversal draws a new one or clear forgets the block.    *)
(***************************************************************************)
DisclosedInv ==
  connected =>
    /\ pc \in {"idle", "called", "fetch", "done"} => disclosed = {}
    /\ pc \in {"scan", "stash", "insert"} => disclosed \subseteq {requested_block_id}
    /\ pc \in {"send", "confirm"} =>
         \/ disclosed = {}
         \/ op = "CLEAR" /\ disclosed \subseteq {requested_block_id}

LEMMA DisclosedNext == DisclosedInv /\ [Next]_vars => DisclosedInv'
<1> SUFFICES ASSUME DisclosedInv, [Next]_vars PROVE DisclosedInv'
  OBVIOUS
<1> USE DEF DisclosedInv, transit, progress, maps, disk, call
<1>1. ASSUME NEW o, NEW k, NEW v, Call(o, k, v) PROVE DisclosedInv'
  BY <1>1 DEF Call
<1>2. CASE PutNewKey
  BY <1>2 DEF PutNewKey, Randomize
<1>3. CASE UseKnownKey \/ MissingKey \/ SendFails \/ RejectLeaf \/ Return
  BY <1>3 DEF UseKnownKey, MissingKey, SendFails, RejectLeaf, Return
<1>4. CASE FetchBranch
  BY <1>4 DEF FetchBranch
<1>5. CASE SkipFreeSlot \/ MoveOtherBlock \/ EndScan \/ EndStash
  BY <1>5 DEF SkipFreeSlot, MoveOtherBlock, EndScan, EndStash
<1>6. CASE ServeFromBranch
  <2>1. disclosed' = disclosed \ {requested_block_id} /\ pc' = "send"
    BY <1>6 DEF ServeFromBranch, Randomize
  <2> QED BY <1>6, <2>1 DEF ServeFromBranch
<1>7. CASE ServeFromStash
  <2>1. CASE op = "CLEAR"
    BY <1>7, <2>1 DEF ServeFromStash
  <2>2. CASE op # "CLEAR"
    <3>1. disclosed' = disclosed \ {requested_block_id} /\ pc' = "send"
      BY <1>7, <2>2 DEF ServeFromStash, Randomize
    <3> QED BY <1>7, <3>1 DEF ServeFromStash
  <2> QED BY <2>1, <2>2
<1>8. CASE InsertBlock
  <2>1. disclosed' = disclosed \ {requested_block_id} /\ pc' = "send"
    BY <1>8 DEF InsertBlock, Randomize
  <2> QED BY <1>8, <2>1 DEF InsertBlock
<1>9. ASSUME NEW id \in unvisited, EvictFromStash(id) PROVE DisclosedInv'
  BY <1>9 DEF EvictFromStash
<1>10. CASE Crash \/ CommitBranch
  BY <1>10 DEF Crash, CommitBranch
<1>11. CASE Confirm
  BY <1>11 DEF Confirm
<1>12. CASE UNCHANGED vars
  BY <1>12 DEF vars
<1>13. ASSUME CallStep PROVE DisclosedInv'
  BY <1>2, <1>3, <1>4, <1>5, <1>6, <1>7, <1>8, <1>9, <1>10, <1>11, <1>13
  DEF CallStep, TraverseBranch
<1> QED BY <1>1, <1>12, <1>13 DEF Next, Put, Get, Clear

(***************************************************************************)
(* No leaf is sent twice for a block, whatever the tree, the bucket size   *)
(* and the width of blkid_t, and whatever else goes wrong with the blocks: *)
(* not even the duplicates that wide buckets cause make the client repeat  *)
(* a path, as long as the connection stands.                               *)
(***************************************************************************)
THEOREM LeavesAreFresh == Spec => []NoLeafSentTwice
<1>1. Init => DisclosedInv
  BY DEF Init, DisclosedInv
<1>2. DisclosedInv => NoLeafSentTwice
  BY DEF DisclosedInv, NoLeafSentTwice
<1> QED BY <1>1, <1>2, DisclosedNext, PTL DEF Spec

-----------------------------------------------------------------------------
(***************************************************************************)
(* The walk over the stash.  A stash entry it has passed found its lowest  *)
(* bucket full, and what comes later only fills slots.                     *)
(***************************************************************************)
Full(id) == Free(branch, LowestBucket(id)) = {}

GreedyInv ==
  /\ pc = "stash" => \A id \in DOMAIN stash \ unvisited : Full(id)
  /\ EvictionIsGreedy

LEMMA GreedyEvict ==
  ASSUME TypeInv, GreedyInv, NEW id \in unvisited, EvictFromStash(id)
  PROVE  GreedyInv'
<1> DEFINE free == Free(branch, LowestBucket(id))
<1>1. /\ pc = "stash" /\ pc' = "stash" /\ ~EvictsForever(id) /\ Known(id)
      /\ branch' = [s \in Slots |-> IF s \in free THEN NewBlock(id, stash[id]) ELSE branch[s]]
      /\ stash' = IF free = {} THEN stash ELSE Erase(stash, id)
      /\ unvisited' = unvisited \ {id}
      /\ UNCHANGED <<position_map, requested_block_id>>
  BY DEF EvictFromStash, call
<1>2. \A j : LowestBucket(j)' = LowestBucket(j)
  BY <1>1 DEF LowestBucket
<1>3. \A j : LowestBucket(j) \subseteq Slots
  BY DEF LowestBucket, BucketSlots
<1>4. free # {} => id # 0
  BY <1>1 DEF EvictsForever
<1>5. \A s \in free : branch'[s].block_id # 0
  <2>1. free \subseteq Slots
    BY <1>3 DEF Free
  <2> QED BY <1>1, <1>4, <2>1 DEF NewBlock
<1>6. ASSUME NEW j, Full(j) PROVE Full(j)'
  <2>1. \A s \in LowestBucket(j) : branch'[s].block_id # 0
    BY <1>1, <1>3, <1>5, <1>6 DEF Full, Free
  <2> QED BY <1>2, <2>1 DEF Full, Free
<1>7. free = {} => Full(id)
  BY DEF Full
<1>8. DOMAIN stash' \subseteq DOMAIN stash \ (IF free = {} THEN {} ELSE {id})
  BY <1>1 DEF Erase
<1> HIDE DEF free
<1>9. \A j \in DOMAIN stash' \ unvisited' : Full(j)'
  BY <1>1, <1>6, <1>7, <1>8 DEF GreedyInv
<1> QED BY <1>1, <1>9 DEF GreedyInv, EvictionIsGreedy

LEMMA GreedyNext == TypeInv /\ GreedyInv /\ [Next]_vars => GreedyInv'
<1> SUFFICES ASSUME TypeInv, GreedyInv, [Next]_vars PROVE GreedyInv'
  OBVIOUS
<1>1. CASE pc' \notin {"stash", "insert"}
  BY <1>1 DEF GreedyInv, EvictionIsGreedy
<1>2. CASE EndScan
  BY <1>2 DEF EndScan, GreedyInv, EvictionIsGreedy, maps
<1>3. CASE EndStash
  BY <1>3 DEF EndStash, GreedyInv, EvictionIsGreedy, Full, LowestBucket, maps, transit, call
<1>4. CASE UNCHANGED vars
  BY <1>4 DEF vars, maps, transit, call, progress, GreedyInv, EvictionIsGreedy, Full, LowestBucket
<1>5. ASSUME NEW o, NEW k, NEW v, Call(o, k, v) PROVE GreedyInv'
  BY <1>1, <1>5 DEF Call
<1>6. CASE PutNewKey \/ UseKnownKey \/ MissingKey \/ SendFails \/ RejectLeaf \/ FetchBranch
  BY <1>1, <1>6 DEF PutNewKey, UseKnownKey, MissingKey, SendFails, RejectLeaf, FetchBranch
<1>7. CASE CommitBranch \/ Confirm \/ Return
  BY <1>1, <1>7 DEF CommitBranch, Confirm, Return
<1>8. CASE SkipFreeSlot \/ MoveOtherBlock
  BY <1>1, <1>8 DEF SkipFreeSlot, MoveOtherBlock
<1>9. CASE ServeFromBranch \/ ServeFromStash \/ InsertBlock \/ Crash
  BY <1>1, <1>9 DEF ServeFromBranch, ServeFromStash, InsertBlock, Crash
<1>10. ASSUME NEW id \in unvisited, EvictFromStash(id) PROVE GreedyInv'
  BY <1>10, GreedyEvict
<1> QED BY <1>2, <1>3, <1>4, <1>5, <1>6, <1>7, <1>8, <1>9, <1>10
       DEF Next, Put, Get, Clear, CallStep, TraverseBranch

\* Once the walk over the stash has ended, every block that stays behind
\* found its lowest bucket full: whatever the bucket size and the order in
\* which the entries came, the client leaves no block in the stash that the
\* branch had room for.
THEOREM NoRoomLeft == Spec => []EvictionIsGreedy
<1>1. Init => GreedyInv
  BY DEF Init, GreedyInv, EvictionIsGreedy
<1>2. GreedyInv => EvictionIsGreedy
  BY DEF GreedyInv
<1> QED BY <1>1, <1>2, GreedyNext, TypeInvariant, PTL DEF Spec

-----------------------------------------------------------------------------
(***************************************************************************)
(* put's search for a block id.                                            *)
(***************************************************************************)
LEMMA NewIndexIsFree ==
  ASSUME TypeInv, NEW i \in 1 .. Cardinality(DOMAIN position_map) + 1,
         IsNewIndex(i), (BlockIds \ {0}) \ DOMAIN position_map # {}
  PROVE  ToBlockId(i) \in (BlockIds \ {0}) \ DOMAIN position_map
<1> DEFINE D == DOMAIN position_map
           n == Cardinality(D)
           M == IdModulus
<1>1. /\ M \in Nat /\ M > 1 /\ n \in Nat
      /\ IsFiniteSet(D) /\ D \subseteq 0 .. M - 1
  BY IdModulusAssumption, FinitePositions, SavedMapsOK
  DEF TypeInv, TypeOK, MapTypes, IsMap, BlockIds
<1>2. \A j \in 1 .. M - 1 : ToBlockId(j) = j
  BY <1>1 DEF ToBlockId
<1>3. PICK f \in 1 .. M - 1 : f \notin D
  BY <1>1 DEF BlockIds
<1>4. \A j \in 1 .. i - 1 : ToBlockId(j) \in D
  BY DEF IsNewIndex
<1>5. i \in Nat /\ i >= 1 /\ i <= n + 1
  BY <1>1
<1>6. i <= f
  BY <1>2, <1>3, <1>4, <1>5
<1>7. i \in 1 .. M - 1 /\ ToBlockId(i) = i
  BY <1>1, <1>2, <1>3, <1>5, <1>6
<1>8. i \notin D
  <2>1. CASE i <= n
    BY <1>7, <2>1 DEF IsNewIndex
  <2>2. CASE i = n + 1
    <3>1. 1 .. n \subseteq D
      BY <1>1, <1>2, <1>4, <1>7, <2>2
    <3>2. Cardinality(1 .. n) = n
      BY <1>1, FS_Interval
    <3>3. 1 .. n = D
      BY <1>1, <3>1, <3>2, FS_Subset
    <3> QED BY <1>1, <2>2, <3>3
  <2> QED BY <1>1, <1>5, <2>1, <2>2
<1> QED BY <1>1, <1>7, <1>8 DEF BlockIds

LEMMA NewKeyStep ==
  ASSUME [Next]_vars, NEW k \in DOMAIN key_to_block_id' \ DOMAIN key_to_block_id
  PROVE  /\ PutNewKey
         /\ k = key
<1> USE DEF maps
<1>1. CASE \E o, x, v : Call(o, x, v)
  BY <1>1 DEF Call
<1>2. CASE PutNewKey
  BY <1>2 DEF PutNewKey, Assign
<1>3. CASE UseKnownKey \/ MissingKey \/ SendFails \/ RejectLeaf \/ FetchBranch
  BY <1>3 DEF UseKnownKey, MissingKey, SendFails, RejectLeaf, FetchBranch
<1>4. CASE TraverseBranch
  BY <1>4 DEF TraverseBranch, SkipFreeSlot, ServeFromBranch, MoveOtherBlock,
              EndScan, ServeFromStash, EvictFromStash, EndStash, InsertBlock, Crash
<1>5. CASE CommitBranch \/ Return
  BY <1>5 DEF CommitBranch, Return
<1>6. CASE Confirm
  BY <1>6 DEF Confirm, Erase
<1>7. CASE UNCHANGED vars
  BY <1>7 DEF vars
<1> QED BY <1>1, <1>2, <1>3, <1>4, <1>5, <1>6, <1>7
        DEF Next, CallStep, Put, Get, Clear

(***************************************************************************)
(* put never gives a new key an id in use while blkid_t has another one.   *)
(***************************************************************************)
THEOREM FreshIds == Spec => FreshIdWhileOneIsLeft
<1> DEFINE A == \A k \in DOMAIN key_to_block_id' \ DOMAIN key_to_block_id :
                  LET left == (BlockIds \ {0}) \ DOMAIN position_map
                  IN  left # {} => key_to_block_id'[k] \in left
<1>1. TypeInv /\ [Next]_vars => A
  <2> SUFFICES ASSUME TypeInv, [Next]_vars,
                      NEW k \in DOMAIN key_to_block_id' \ DOMAIN key_to_block_id,
                      (BlockIds \ {0}) \ DOMAIN position_map # {}
               PROVE  key_to_block_id'[k] \in (BlockIds \ {0}) \ DOMAIN position_map
    OBVIOUS
  <2>1. PutNewKey /\ k = key
    BY NewKeyStep
  <2>2. PICK i \in 1 .. Cardinality(DOMAIN position_map) + 1 :
          /\ IsNewIndex(i)
          /\ key_to_block_id' = Assign(key_to_block_id, key, ToBlockId(i))
    BY <2>1 DEF PutNewKey
  <2>3. key_to_block_id'[k] = ToBlockId(i)
    BY <2>1, <2>2 DEF Assign
  <2> QED BY <2>2, <2>3, NewIndexIsFree
<1>2. Spec => [][A]_vars
  BY <1>1, TypeInvariant, PTL DEF Spec
<1> QED BY <1>2 DEF FreshIdWhileOneIsLeft
-----------------------------------------------------------------------------
(***************************************************************************)
(* Keys and block ids, as long as blkid_t has an id for every key.         *)
(***************************************************************************)
IdForEveryKey == IsFiniteSet(Keys) /\ Cardinality(Keys) < IdModulus

\* Every block that is in use has a leaf, and from fetch_branch on the
\* requested block is the key's.
KeyInv ==
  /\ KeysHaveTheirOwnBlocks
  /\ \A id \in DOMAIN position_map : id # 0 /\ position_map[id] \in LeafIds
  /\ pc \in {"fetch", "scan", "stash", "insert", "send", "confirm"} =>
       /\ key \in DOMAIN key_to_block_id
       /\ requested_block_id = key_to_block_id[key]

LEMMA IdLeftForNewKey ==
  ASSUME IdForEveryKey, TypeInv, KeysHaveTheirOwnBlocks, key \in Keys,
         key \notin DOMAIN key_to_block_id
  PROVE  (BlockIds \ {0}) \ DOMAIN position_map # {}
<1> DEFINE K == DOMAIN key_to_block_id
           D == DOMAIN position_map
<1>1. K \subseteq Keys
  BY SavedMapsOK DEF TypeInv, TypeOK, MapTypes, IsMap
<1>2. /\ IsFiniteSet(K) /\ Cardinality(K) \in Nat
      /\ Cardinality(K) < Cardinality(Keys)
  BY <1>1, FS_Subset, FS_CardinalityType DEF IdForEveryKey
<1>3. key_to_block_id \in Surjection(K, D)
  BY SavedMapsOK DEF TypeInv, TypeOK, MapTypes, IsMap, KeysHaveTheirOwnBlocks, Surjection
<1>4. IsFiniteSet(D) /\ Cardinality(D) <= Cardinality(K)
  BY <1>2, <1>3, FS_Surjection
<1>5. SUFFICES ASSUME BlockIds \ {0} \subseteq D PROVE FALSE
  OBVIOUS
<1>6. Cardinality(1 .. IdModulus - 1) = IdModulus - 1
  BY IdModulusAssumption, FS_Interval
<1>7. 1 .. IdModulus - 1 \subseteq D
  BY <1>5, IdModulusAssumption DEF BlockIds
<1>8. Cardinality(1 .. IdModulus - 1) <= Cardinality(D)
  <2> HIDE DEF D
  <2> QED BY <1>4, <1>7, FS_Subset
<1>9. Cardinality(Keys) \in Nat /\ Cardinality(D) \in Nat
  BY <1>4, FS_CardinalityType DEF IdForEveryKey
<1> QED BY <1>2, <1>4, <1>6, <1>8, <1>9, IdModulusAssumption DEF IdForEveryKey

LEMMA KeyPutNewKey ==
  ASSUME IdForEveryKey, TypeInv, KeyInv, PutNewKey
  PROVE  KeyInv'
<1>1. key \in Keys /\ key \notin DOMAIN key_to_block_id
  BY DEF PutNewKey, TypeInv
<1>2. PICK i \in 1 .. Cardinality(DOMAIN position_map) + 1, leaf \in LeafIds :
        /\ IsNewIndex(i)
        /\ key_to_block_id' = Assign(key_to_block_id, key, ToBlockId(i))
        /\ position_map' = Assign(position_map, ToBlockId(i), leaf)
        /\ requested_block_id' = ToBlockId(i)
  BY DEF PutNewKey, Randomize
<1>3. ToBlockId(i) # 0 /\ ToBlockId(i) \notin DOMAIN position_map
  BY <1>1, <1>2, IdLeftForNewKey, NewIndexIsFree DEF KeyInv
<1>4. UNCHANGED key
  BY DEF PutNewKey
<1> HIDE DEF PutNewKey
<1> QED BY <1>1, <1>2, <1>3, <1>4 DEF KeyInv, KeysHaveTheirOwnBlocks, Assign

LEMMA KeyRandomize ==
  ASSUME KeyInv, requested_block_id \in DOMAIN position_map,
         NEW leaf \in LeafIds, Randomize(requested_block_id, leaf),
         pc' = "send", UNCHANGED <<key_to_block_id, key, requested_block_id>>,
         key \in DOMAIN key_to_block_id,
         requested_block_id = key_to_block_id[key]
  PROVE  KeyInv'
BY DEF KeyInv, KeysHaveTheirOwnBlocks, Randomize, Assign

LEMMA KeyConfirm ==
  ASSUME TypeInv, KeyInv, Confirm
  PROVE  KeyInv'
<1>1. pc' = "idle"
  BY DEF Confirm
<1>2. CASE op = "CLEAR"
  <2>1. /\ position_map' = Erase(position_map, requested_block_id)
        /\ key_to_block_id' = Erase(key_to_block_id, key)
        /\ key \in DOMAIN key_to_block_id
        /\ requested_block_id = key_to_block_id[key]
    BY <1>2 DEF Confirm, KeyInv
  <2> QED BY <1>1, <2>1 DEF KeyInv, KeysHaveTheirOwnBlocks, Erase
<1>3. CASE op # "CLEAR"
  BY <1>1, <1>3 DEF Confirm, KeyInv, KeysHaveTheirOwnBlocks
<1> QED BY <1>2, <1>3

LEMMA KeyNext == IdForEveryKey /\ TypeInv /\ KeyInv /\ [Next]_vars => KeyInv'
<1> SUFFICES ASSUME IdForEveryKey, TypeInv, KeyInv, [Next]_vars PROVE KeyInv'
  OBVIOUS
<1>1. ASSUME UNCHANGED <<key_to_block_id, position_map, key, requested_block_id>>,
             \/ pc' \notin {"fetch", "scan", "stash", "insert", "send", "confirm"}
             \/ pc \in {"fetch", "scan", "stash", "insert", "send", "confirm"}
      PROVE  KeyInv'
  BY <1>1 DEF KeyInv, KeysHaveTheirOwnBlocks
<1>2. ASSUME NEW o, NEW k, NEW v, Call(o, k, v) PROVE KeyInv'
  BY <1>2 DEF Call, maps, KeyInv, KeysHaveTheirOwnBlocks
<1>3. CASE UseKnownKey
  BY <1>3 DEF UseKnownKey, maps, KeyInv, KeysHaveTheirOwnBlocks
<1>4. CASE MissingKey \/ SendFails \/ Crash
  BY <1>1, <1>4 DEF MissingKey, SendFails, Crash, maps, call
<1>5. ASSUME pc \in {"fetch", "scan", "stash", "insert"}
      PROVE  /\ requested_block_id \in DOMAIN position_map
             /\ key \in DOMAIN key_to_block_id
             /\ requested_block_id = key_to_block_id[key]
             /\ Known(requested_block_id)
  <2>1. 0 \notin LeafIds
    BY TreeLevelsAssumption DEF LeafIds
  <2> QED BY <1>5, <2>1 DEF KeyInv, KeysHaveTheirOwnBlocks, Known
<1>6. CASE RejectLeaf
  BY <1>5, <1>6 DEF RejectLeaf
<1>7. CASE FetchBranch \/ SkipFreeSlot \/ MoveOtherBlock \/ EndScan \/ EndStash
  BY <1>1, <1>7
  DEF FetchBranch, SkipFreeSlot, MoveOtherBlock, EndScan, EndStash, maps, call
<1>8. CASE ServeFromBranch
  <2>1. /\ \E leaf \in LeafIds : Randomize(requested_block_id, leaf)
        /\ pc = "scan" /\ pc' = "send"
        /\ UNCHANGED <<key_to_block_id, key, requested_block_id>>
    BY <1>8 DEF ServeFromBranch, call
  <2> QED BY <1>5, <2>1, KeyRandomize
<1>9. CASE ServeFromStash
  <2>1. CASE op = "CLEAR"
    BY <1>1, <1>9, <2>1 DEF ServeFromStash, call
  <2>2. CASE op # "CLEAR"
    <3>1. /\ \E leaf \in LeafIds : Randomize(requested_block_id, leaf)
          /\ pc = "stash" /\ pc' = "send"
          /\ UNCHANGED <<key_to_block_id, key, requested_block_id>>
      BY <1>9, <2>2 DEF ServeFromStash, call
    <3> QED BY <1>5, <3>1, KeyRandomize
  <2> QED BY <2>1, <2>2
<1>10. ASSUME NEW id \in unvisited, EvictFromStash(id) PROVE KeyInv'
  BY <1>1, <1>10 DEF EvictFromStash, call
<1>11. CASE InsertBlock
  <2>1. /\ \E leaf \in LeafIds : Randomize(requested_block_id, leaf)
        /\ pc = "insert" /\ pc' = "send"
        /\ UNCHANGED <<key_to_block_id, key, requested_block_id>>
    BY <1>11 DEF InsertBlock, call
  <2> QED BY <1>5, <2>1, KeyRandomize
<1>12. CASE CommitBranch
  BY <1>1, <1>12 DEF CommitBranch, maps, call
<1>13. CASE Return
  BY <1>13 DEF Return, EndOfCall, maps, KeyInv, KeysHaveTheirOwnBlocks
<1>14. CASE UNCHANGED vars
  BY <1>14 DEF vars, maps, call, KeyInv, KeysHaveTheirOwnBlocks
<1>15. CASE CallStep
  BY <1>3, <1>4, <1>6, <1>7, <1>8, <1>9, <1>10, <1>11, <1>12, <1>13, <1>15,
     KeyPutNewKey, KeyConfirm
  DEF CallStep, TraverseBranch
<1> QED BY <1>2, <1>14, <1>15 DEF Next, Put, Get, Clear

LEMMA KeyInvariant == ASSUME IdForEveryKey PROVE Spec => []KeyInv
<1>1. Init => KeyInv
  BY DEF Init, KeyInv, KeysHaveTheirOwnBlocks
<1>2. TypeInv /\ KeyInv /\ [Next]_vars => KeyInv'
  BY KeyNext
<1> QED BY <1>1, <1>2, TypeInvariant, PTL DEF Spec

(***************************************************************************)
(* With fewer keys than blkid_t has values, put's search and clear's       *)
(* erasures never give two keys the same block, and exactly the keys'      *)
(* blocks have a position.                                                 *)
(***************************************************************************)
THEOREM KeysAreSeparate == ASSUME IdForEveryKey PROVE Spec => []KeysHaveTheirOwnBlocks
<1>1. KeyInv => KeysHaveTheirOwnBlocks
  BY DEF KeyInv
<1> QED BY <1>1, KeyInvariant, PTL
=============================================================================
