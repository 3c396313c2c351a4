------------------------- MODULE PathOramRefinement -------------------------
(***************************************************************************)
(* The client implements the key-value store of KVStore, for every tree    *)
(* with one slot per bucket and every set of keys for which blkid_t has    *)
(* enough ids.                                                             *)
(*                                                                         *)
(* What the store holds is what lies in the buckets, in the branch in      *)
(* transit and in the stash (Somewhere).  A step that moves blocks keeps   *)
(* that set; the step that serves the request changes it for the requested *)
(* block only, and this is the instant at which the call takes effect.     *)
(***************************************************************************)
EXTENDS PathOramPlacement

StoredAs(id, d) == [block_id |-> id, data |-> d]

InStash(m)    == {StoredAs(id, m[id]) : id \in DOMAIN m}
InTree(t)     == {t[x][0] : x \in Buckets}
InSlots(b)    == {b[s] : s \in Slots}
Rest(leaf, t) == {t[x][0] : x \in Buckets \ Branch(leaf)}

Somewhere ==
  (IF InTransit THEN Rest(leaf_id, tree) \cup InSlots(branch) ELSE InTree(tree))
    \cup InStash(stash)

\* Key k has value v.
Has(k, v) ==
  k \in DOMAIN key_to_block_id /\ StoredAs(key_to_block_id[k], v) \in Somewhere

\* Somewhere agrees with what PathOram says of one block, and of the store.
StoreInv ==
  /\ \A id \in BlockIds \ {0} :
       /\ id \in Held(Live, DOMAIN stash) <=> \E d : StoredAs(id, d) \in Somewhere
       /\ \A d : StoredAs(id, d) \in Somewhere => Present(id) /\ ValueOf(id) = d
  /\ \A k : k \in DOMAIN Contents <=> \E v : Has(k, v)
  /\ \A k, v : Has(k, v) => Contents[k] = v

RefinementInv ==
  /\ TypeInv /\ KeyInv /\ PlaceInv /\ StoreInv
  /\ pc # "idle" /\ op = "WRITE" => value \in Data

-----------------------------------------------------------------------------
LEMMA LiveBlocks ==
  ASSUME SingleSlot, PlaceInv
  PROVE  {LiveBlock(x, 0) : x \in Buckets}
           = IF InTransit THEN Rest(leaf_id, tree) \cup InSlots(branch) ELSE InTree(tree)
<1>1. CASE ~InTransit
  BY <1>1 DEF LiveBlock, InTransit, InTree
<1>2. CASE InTransit
  <2>1. leaf_id \in LeafIds
    BY <1>2 DEF PlaceInv, Progress
  <2>2. ASSUME NEW x \in Buckets, x \notin Branch(leaf_id) PROVE LiveBlock(x, 0) = tree[x][0]
    BY <2>2 DEF LiveBlock
  <2>3. ASSUME NEW s \in Slots PROVE LiveBlock(Bucket(leaf_id, s), 0) = branch[s]
    <3>1. Bucket(leaf_id, s) \in Branch(leaf_id) /\ Len(Bucket(leaf_id, s)) = s
      BY <2>1, LiveInTransit
    <3>2. s * BLOCKS_PER_BUCKET + 0 = s
      BY DEF SingleSlot, Slots
    <3> QED BY <1>2, <3>1, <3>2 DEF LiveBlock, InTransit
  <2>4. \A s \in Slots : Bucket(leaf_id, s) \in Buckets
    BY <2>1, LiveInTransit
  <2>5. \A x \in Branch(leaf_id) : \E s \in Slots : x = Bucket(leaf_id, s)
    BY <2>1, LiveInTransit
  <2>6. \A y : y \in {LiveBlock(x, 0) : x \in Buckets} <=> y \in Rest(leaf_id, tree) \cup InSlots(branch)
    <3>1. ASSUME NEW x \in Buckets PROVE LiveBlock(x, 0) \in Rest(leaf_id, tree) \cup InSlots(branch)
      <4>1. CASE x \in Branch(leaf_id)
        BY <2>3, <2>5, <4>1 DEF InSlots
      <4>2. CASE x \notin Branch(leaf_id)
        BY <2>2, <4>2 DEF Rest
      <4> QED BY <4>1, <4>2
    <3>2. ASSUME NEW y \in Rest(leaf_id, tree) PROVE y \in {LiveBlock(x, 0) : x \in Buckets}
      BY <2>2 DEF Rest
    <3>3. ASSUME NEW y \in InSlots(branch) PROVE y \in {LiveBlock(x, 0) : x \in Buckets}
      BY <2>3, <2>4 DEF InSlots
    <3> QED BY <3>1, <3>2, <3>3
  <2> QED BY <1>2, <2>6
<1> QED BY <1>1, <1>2

LEMMA LiveBlockType ==
  ASSUME SingleSlot, TypeInv, PlaceInv, NEW x \in Buckets
  PROVE  LiveBlock(x, 0) \in Block
<1>1. LiveBlock(x, 0) \in Rest(leaf_id, tree) \cup InSlots(branch) \cup InTree(tree)
  BY LiveBlocks
<1>2. tree \in [Buckets -> [Places -> Block]] /\ branch \in [Slots -> Block] /\ 0 \in Places
  BY SlotIsLevel DEF TypeInv, TypeOK
<1> QED BY <1>1, <1>2 DEF Rest, InSlots, InTree

LEMMA StoredBlocks ==
  ASSUME SingleSlot, TypeInv, PlaceInv, NEW id \in BlockIds \ {0}
  PROVE  /\ id \in Held(Live, DOMAIN stash) <=> \E d : StoredAs(id, d) \in Somewhere
         /\ Present(id) <=> id \in Held(Live, DOMAIN stash)
         /\ \A d : StoredAs(id, d) \in Somewhere => Present(id) /\ ValueOf(id) = d
<1>1. Somewhere = {LiveBlock(x, 0) : x \in Buckets} \cup InStash(stash)
  BY LiveBlocks DEF Somewhere
<1>2. \A x \in Buckets : LiveBlock(x, 0).block_id = Live[x]
  BY LiveBlockIds
<1>3. Present(id) <=> id \in Held(Live, DOMAIN stash)
  BY CopiesAreLive
<1>4. Placed(Live, position_map, DOMAIN stash)
  BY DEF PlaceInv
<1>5. CopiesInTree(id) = {x \in Buckets : Live[x] = id} \X {0}
  BY CopiesAreLive
<1>6. ASSUME id \in DOMAIN stash PROVE StoredAs(id, stash[id]) \in Somewhere
  BY <1>1, <1>6 DEF InStash
<1>7. ASSUME NEW x \in Buckets, Live[x] = id
      PROVE  StoredAs(id, LiveBlock(x, 0).data) \in Somewhere
  <2>1. LiveBlock(x, 0) \in Block /\ LiveBlock(x, 0).block_id = id
    BY <1>2, <1>7, LiveBlockType
  <2>2. LiveBlock(x, 0) = StoredAs(id, LiveBlock(x, 0).data)
    BY <2>1 DEF Block, StoredAs
  <2> QED BY <1>1, <2>2
<1>8. ASSUME NEW d, StoredAs(id, d) \in Somewhere
      PROVE  id \in Held(Live, DOMAIN stash) /\ ValueOf(id) = d
  <2>1. CASE StoredAs(id, d) \in InStash(stash)
    BY <2>1 DEF InStash, StoredAs, Held, ValueOf
  <2>2. CASE \E x \in Buckets : StoredAs(id, d) = LiveBlock(x, 0)
    <3>1. PICK x \in Buckets : StoredAs(id, d) = LiveBlock(x, 0)
      BY <2>2
    <3>2. Live[x] = id /\ LiveBlock(x, 0).data = d
      BY <1>2, <3>1 DEF StoredAs
    <3>3. id \in Held(Live, DOMAIN stash) /\ id \notin DOMAIN stash
      BY <1>4, <3>2 DEF Held, Placed
    <3>4. CopiesInTree(id) = {<<x, 0>>}
      <4>1. {y \in Buckets : Live[y] = id} = {x}
        BY <1>4, <3>2 DEF Placed
      <4> QED BY <1>5, <4>1
    <3> DEFINE p == CHOOSE p \in CopiesInTree(id) : TRUE
    <3>5. p = <<x, 0>>
      BY <3>4
    <3>6. ValueOf(id) = LiveBlock(p[1], p[2]).data
      BY <3>3 DEF ValueOf
    <3> HIDE DEF p
    <3>7. p[1] = x /\ p[2] = 0
      BY <3>5
    <3> QED BY <3>2, <3>3, <3>6, <3>7
  <2> QED BY <1>1, <1>8, <2>1, <2>2
<1>9. ASSUME id \in Held(Live, DOMAIN stash) PROVE \E d : StoredAs(id, d) \in Somewhere
  BY <1>6, <1>7, <1>9 DEF Held
<1> QED BY <1>3, <1>8, <1>9

LEMMA StoreIs ==
  ASSUME SingleSlot, TypeInv, KeyInv, PlaceInv
  PROVE  StoreInv
<1>1. ASSUME NEW id \in BlockIds \ {0}
      PROVE  /\ id \in Held(Live, DOMAIN stash) <=> \E d : StoredAs(id, d) \in Somewhere
             /\ Present(id) <=> id \in Held(Live, DOMAIN stash)
             /\ \A d : StoredAs(id, d) \in Somewhere => Present(id) /\ ValueOf(id) = d
  BY StoredBlocks
<1>2. \A k \in DOMAIN key_to_block_id : key_to_block_id[k] \in BlockIds \ {0}
  <2>1. \A k \in DOMAIN key_to_block_id : key_to_block_id[k] \in BlockIds
    BY SavedMapsOK DEF TypeInv, TypeOK, MapTypes, IsMap
  <2>2. \A k \in DOMAIN key_to_block_id : key_to_block_id[k] \in DOMAIN position_map
    BY DEF KeyInv, KeysHaveTheirOwnBlocks
  <2> QED BY <2>1, <2>2 DEF KeyInv
<1>3. \A k : k \in DOMAIN Contents <=> \E v : Has(k, v)
  BY <1>1, <1>2 DEF Contents, Has
<1>4. \A k, v : Has(k, v) => Contents[k] = v
  BY <1>1, <1>2 DEF Contents, Has
<1> QED BY <1>1, <1>3, <1>4 DEF StoreInv
-----------------------------------------------------------------------------
(***************************************************************************)
(* The elementary moves.                                                   *)
(***************************************************************************)
LEMMA SwapSlots ==
  ASSUME NEW T, NEW b \in [Slots -> T], NEW s \in Slots, NEW t \in Slots
  PROVE  InSlots(Swap(b, s, t)) = InSlots(b)
<1>1. \A v \in Slots : Swap(b, s, t)[v] = IF v = t THEN b[s] ELSE IF v = s THEN b[t] ELSE b[v]
  BY DEF Swap
<1> HIDE DEF Swap
<1>2. ASSUME NEW y PROVE y \in InSlots(Swap(b, s, t)) <=> y \in InSlots(b)
  <2>1. ASSUME NEW v \in Slots PROVE b[v] \in InSlots(Swap(b, s, t))
    BY <1>1 DEF InSlots
  <2>2. ASSUME NEW v \in Slots PROVE Swap(b, s, t)[v] \in InSlots(b)
    BY <1>1 DEF InSlots
  <2> QED BY <2>1, <2>2 DEF InSlots
<1> QED BY <1>2

LEMMA OverwriteSlot ==
  ASSUME NEW T, NEW b \in [Slots -> T], NEW s \in Slots, NEW x, NEW y, y # b[s]
  PROVE  y \in InSlots([b EXCEPT ![s] = x]) <=> y = x \/ y \in InSlots(b)
BY DEF InSlots

LEMMA AssignStash ==
  ASSUME NEW m, NEW id, NEW d, NEW j, NEW e
  PROVE  StoredAs(j, e) \in InStash(Assign(m, id, d))
           <=> IF j = id THEN e = d ELSE StoredAs(j, e) \in InStash(m)
BY DEF StoredAs, InStash, Assign

LEMMA EraseStash ==
  ASSUME NEW m, NEW id, NEW j, NEW e
  PROVE  StoredAs(j, e) \in InStash(Erase(m, id))
           <=> j # id /\ StoredAs(j, e) \in InStash(m)
BY DEF StoredAs, InStash, Erase

\* Where a block is during the traversal.
LEMMA During ==
  /\ InTransit => \A y : y \in Somewhere <=>
       y \in Rest(leaf_id, tree) \/ y \in InSlots(branch) \/ y \in InStash(stash)
  /\ InTransit' => \A y : y \in Somewhere' <=>
       y \in Rest(leaf_id', tree') \/ y \in InSlots(branch') \/ y \in InStash(stash')
BY DEF Somewhere

LEMMA Outside ==
  /\ ~InTransit => Somewhere = InTree(tree) \cup InStash(stash)
  /\ ~InTransit' => Somewhere' = InTree(tree') \cup InStash(stash')
BY DEF Somewhere

LEMMA FetchedSlots ==
  ASSUME SingleSlot, NEW leaf \in LeafIds, NEW t
  PROVE  InSlots(ReadBranch(t, leaf)) \cup Rest(leaf, t) = InTree(t)
<1>1. \A s \in Slots : ReadBranch(t, leaf)[s] = t[Bucket(leaf, s)][0]
  BY SlotIsLevel DEF ReadBranch
<1>2. \A s \in Slots : Bucket(leaf, s) \in Buckets
  BY LiveInTransit
<1>3. \A x \in Branch(leaf) : \E s \in Slots : x = Bucket(leaf, s)
  BY LiveInTransit
<1> HIDE DEF ReadBranch
<1>4. ASSUME NEW x \in Buckets PROVE t[x][0] \in InSlots(ReadBranch(t, leaf)) \cup Rest(leaf, t)
  <2>1. CASE x \in Branch(leaf)
    BY <1>1, <1>3, <2>1 DEF InSlots
  <2>2. CASE x \notin Branch(leaf)
    BY <2>2 DEF Rest
  <2> QED BY <2>1, <2>2
<1>5. InSlots(ReadBranch(t, leaf)) \subseteq InTree(t)
  BY <1>1, <1>2 DEF InSlots, InTree
<1>6. Rest(leaf, t) \subseteq InTree(t)
  BY DEF Rest, InTree
<1>7. InTree(t) \subseteq InSlots(ReadBranch(t, leaf)) \cup Rest(leaf, t)
  BY <1>4 DEF InTree
<1> QED BY <1>5, <1>6, <1>7

LEMMA CommittedSlots ==
  ASSUME SingleSlot, NEW leaf \in LeafIds, NEW b, NEW t
  PROVE  InTree(WriteBranch(t, leaf, b)) = InSlots(b) \cup Rest(leaf, t)
<1> DEFINE w == WriteBranch(t, leaf, b)
<1>1. ASSUME NEW s \in Slots PROVE w[Bucket(leaf, s)][0] = b[s]
  <2>1. /\ Bucket(leaf, s) \in Buckets /\ Bucket(leaf, s) \in Branch(leaf)
        /\ Len(Bucket(leaf, s)) = s
    BY LiveInTransit
  <2>2. s * BLOCKS_PER_BUCKET + 0 = s
    BY DEF SingleSlot, Slots
  <2> QED BY <2>1, <2>2, SlotIsLevel DEF WriteBranch
<1>2. ASSUME NEW x \in Buckets, x \notin Branch(leaf) PROVE w[x] = t[x]
  BY <1>2 DEF WriteBranch
<1>3. \A s \in Slots : Bucket(leaf, s) \in Buckets
  BY LiveInTransit
<1>4. \A x \in Branch(leaf) : \E s \in Slots : x = Bucket(leaf, s)
  BY LiveInTransit
<1> HIDE DEF w
<1>5. ASSUME NEW x \in Buckets PROVE w[x][0] \in InSlots(b) \cup Rest(leaf, t)
  <2>1. CASE x \in Branch(leaf)
    BY <1>1, <1>4, <2>1 DEF InSlots
  <2>2. CASE x \notin Branch(leaf)
    BY <1>2, <2>2 DEF Rest
  <2> QED BY <2>1, <2>2
<1>6. InSlots(b) \subseteq InTree(w)
  BY <1>1, <1>3 DEF InSlots, InTree
<1>7. Rest(leaf, t) \subseteq InTree(w)
  BY <1>2 DEF Rest, InTree
<1>8. InTree(w) \subseteq InSlots(b) \cup Rest(leaf, t)
  BY <1>5 DEF InTree
<1> QED BY <1>6, <1>7, <1>8 DEF w
-----------------------------------------------------------------------------
(***************************************************************************)
(* The steps that move blocks, and those that serve the request.           *)
(***************************************************************************)
Keeps == \A j, d : j # 0 => (StoredAs(j, d) \in Somewhere' <=> StoredAs(j, d) \in Somewhere)

Serves ==
  /\ \A j, d : j \notin {0, requested_block_id} =>
       (StoredAs(j, d) \in Somewhere' <=> StoredAs(j, d) \in Somewhere)
  /\ op = "WRITE" => UNCHANGED value /\ StoredAs(requested_block_id, value) \in Somewhere'
  /\ op = "READ" => /\ StoredAs(requested_block_id, value') \in Somewhere
                    /\ StoredAs(requested_block_id, value') \in Somewhere'

LEMMA KeepsWhole ==
  ASSUME Somewhere' = Somewhere
  PROVE  Keeps
BY DEF Keeps

LEMMA KeepsOutside ==
  ASSUME ~InTransit, ~InTransit', UNCHANGED <<tree, stash>>
  PROVE  Keeps
BY Outside, KeepsWhole

LEMMA FetchKeeps ==
  ASSUME SingleSlot, KeyInv, FetchBranch
  PROVE  Keeps
<1>1. /\ pc = "fetch" /\ pc' = "scan" /\ UNCHANGED <<tree, stash>>
      /\ leaf_id' = position_map[requested_block_id]
      /\ branch' = ReadBranch(tree, leaf_id')
  BY DEF FetchBranch, maps, disk
<1>2. leaf_id' \in LeafIds
  BY <1>1, RequestedKnown
<1>3. Somewhere' = Rest(leaf_id', tree) \cup InSlots(branch') \cup InStash(stash)
  BY <1>1 DEF Somewhere, InTransit
<1>4. Somewhere = InTree(tree) \cup InStash(stash)
  BY <1>1, Outside DEF InTransit
<1>5. InSlots(branch') \cup Rest(leaf_id', tree) = InTree(tree)
  BY <1>1, <1>2, FetchedSlots
<1> QED BY <1>3, <1>4, <1>5, KeepsWhole

LEMMA CommitKeeps ==
  ASSUME SingleSlot, PlaceInv, CommitBranch
  PROVE  Keeps
<1>1. /\ pc = "send" /\ pc' = "confirm" /\ UNCHANGED stash
      /\ tree' = WriteBranch(tree, leaf_id, branch)
  BY DEF CommitBranch, maps
<1>2. leaf_id \in LeafIds
  BY <1>1 DEF PlaceInv, Progress, InTransit
<1>3. Somewhere = Rest(leaf_id, tree) \cup InSlots(branch) \cup InStash(stash)
  BY <1>1 DEF Somewhere, InTransit
<1>4. Somewhere' = InTree(tree') \cup InStash(stash)
  BY <1>1, Outside DEF InTransit
<1> QED BY <1>1, <1>2, <1>3, <1>4, CommittedSlots, KeepsWhole

LEMMA LoopKeeps ==
  ASSUME SkipFreeSlot \/ EndScan \/ EndStash
  PROVE  Keeps
<1>1. InTransit /\ InTransit' /\ UNCHANGED <<leaf_id, tree, branch, stash>>
  BY DEF SkipFreeSlot, EndScan, EndStash, InTransit, maps, disk, transit
<1> QED BY <1>1, During DEF Keeps

LEMMA MoveKeeps ==
  ASSUME SingleSlot, TypeInv, PlaceInv, MoveOtherBlock
  PROVE  Keeps
<1> DEFINE c == current_slot
           id == branch[c].block_id
<1>1. /\ pc = "scan" /\ pc' = "scan" /\ c \in Slots /\ id # 0
      /\ UNCHANGED <<leaf_id, tree>>
  BY DEF MoveOtherBlock, disk
<1>2. InTransit /\ InTransit'
  BY <1>1 DEF InTransit
<1>3. branch \in [Slots -> Block]
  BY DEF TypeInv, TypeOK
<1>4. branch[c] = StoredAs(id, branch[c].data)
  BY <1>1, <1>3 DEF Block, StoredAs
<1>5. CASE /\ \E s \in Lowest(Free(branch, LowestBucket(id))) : branch' = Swap(branch, c, s)
           /\ UNCHANGED stash
  <2>1. PICK s \in Slots : branch' = Swap(branch, c, s)
    BY <1>5 DEF Lowest, Free, LowestBucket, BucketSlots
  <2>2. InSlots(branch') = InSlots(branch)
    BY <1>1, <1>3, <2>1, SwapSlots
  <2> QED BY <1>1, <1>2, <1>5, <2>2, During DEF Keeps
<1>6. CASE /\ stash' = Assign(stash, id, branch[c].data)
           /\ branch' = [branch EXCEPT ![c] = Dummy]
  <2>1. id \notin DOMAIN stash
    <3>1. Live[Bucket(leaf_id, c)] = id /\ Bucket(leaf_id, c) \in Buckets
      BY <1>1, <1>2, LiveSlot
    <3> QED BY <1>1, <3>1 DEF PlaceInv, Placed
  <2>2. \A e : StoredAs(id, e) \notin InStash(stash)
    BY <2>1 DEF InStash, StoredAs
  <2>3. branch[c] \in InSlots(branch)
    BY <1>1 DEF InSlots
  <2>4. ASSUME NEW j, NEW d, j # 0
        PROVE  /\ StoredAs(j, d) \in InSlots(branch') \/ StoredAs(j, d) \in InStash(stash')
                  <=> StoredAs(j, d) \in InSlots(branch) \/ StoredAs(j, d) \in InStash(stash)
    <3>1. StoredAs(j, d) # Dummy
      BY <2>4 DEF StoredAs, Dummy
    <3>2. StoredAs(j, d) \in InStash(stash')
            <=> IF j = id THEN d = branch[c].data ELSE StoredAs(j, d) \in InStash(stash)
      BY <1>6, AssignStash
    <3>3. CASE StoredAs(j, d) = branch[c]
      <4>1. j = id /\ d = branch[c].data
        BY <1>4, <3>3 DEF StoredAs
      <4> QED BY <2>3, <3>2, <3>3, <4>1
    <3>4. CASE StoredAs(j, d) # branch[c]
      <4>1. StoredAs(j, d) \in InSlots(branch') <=> StoredAs(j, d) \in InSlots(branch)
        BY <1>1, <1>3, <1>6, <3>1, <3>4, OverwriteSlot
      <4>2. ~(j = id /\ d = branch[c].data)
        BY <1>4, <3>4
      <4> QED BY <2>2, <3>2, <4>1, <4>2
    <3> QED BY <3>3, <3>4
  <2> QED BY <1>1, <1>2, <2>4, During DEF Keeps
<1> QED BY <1>5, <1>6 DEF MoveOtherBlock

LEMMA EvictKeeps ==
  ASSUME SingleSlot, TypeInv, PlaceInv, NEW id \in unvisited, EvictFromStash(id)
  PROVE  Keeps
<1> DEFINE free == Free(branch, LowestBucket(id))
           block == StoredAs(id, stash[id])
<1>1. /\ pc = "stash" /\ pc' = "stash"
      /\ branch' = [s \in Slots |-> IF s \in free THEN NewBlock(id, stash[id]) ELSE branch[s]]
      /\ stash' = IF free = {} THEN stash ELSE Erase(stash, id)
      /\ UNCHANGED <<leaf_id, tree>>
  BY DEF EvictFromStash, disk
<1>2. InTransit /\ InTransit'
  BY <1>1 DEF InTransit
<1>3. id \in DOMAIN stash /\ branch \in [Slots -> Block]
  BY <1>1 DEF TypeInv, TypeOK
<1>4. id # 0
  BY <1>3 DEF PlaceInv, Placed
<1>5. NewBlock(id, stash[id]) = block
  BY <1>4 DEF NewBlock, StoredAs
<1>6. \A s \in free : s \in Slots /\ branch[s].block_id = 0
  BY DEF Free, LowestBucket, BucketSlots
<1>7. \A e : StoredAs(id, e) \in InStash(stash) <=> e = stash[id]
  BY <1>3 DEF InStash, StoredAs
<1> HIDE DEF free
<1>8. ASSUME NEW j, NEW d, j # 0
      PROVE  StoredAs(j, d) \in InSlots(branch')
               <=> StoredAs(j, d) \in InSlots(branch) \/ (free # {} /\ StoredAs(j, d) = block)
  <2>1. \A s \in free : branch[s] # StoredAs(j, d)
    BY <1>6, <1>8 DEF StoredAs
  <2>2. ASSUME StoredAs(j, d) \in InSlots(branch')
        PROVE  StoredAs(j, d) \in InSlots(branch) \/ (free # {} /\ StoredAs(j, d) = block)
    BY <1>1, <1>5, <2>2 DEF InSlots
  <2>3. ASSUME StoredAs(j, d) \in InSlots(branch) PROVE StoredAs(j, d) \in InSlots(branch')
    BY <1>1, <2>1, <2>3 DEF InSlots
  <2>4. ASSUME free # {} PROVE block \in InSlots(branch')
    BY <1>1, <1>5, <1>6, <2>4 DEF InSlots
  <2> QED BY <2>2, <2>3, <2>4
<1>9. ASSUME NEW j, NEW d, j # 0
      PROVE  StoredAs(j, d) \in InSlots(branch') \/ StoredAs(j, d) \in InStash(stash')
               <=> StoredAs(j, d) \in InSlots(branch) \/ StoredAs(j, d) \in InStash(stash)
  <2>1. StoredAs(j, d) = block <=> j = id /\ d = stash[id]
    BY DEF StoredAs
  <2>2. CASE free = {}
    BY <1>1, <1>8, <1>9, <2>2
  <2>3. CASE free # {}
    <3>1. StoredAs(j, d) \in InStash(stash') <=> j # id /\ StoredAs(j, d) \in InStash(stash)
      BY <1>1, <2>3, EraseStash
    <3>2. StoredAs(j, d) \in InSlots(branch')
            <=> StoredAs(j, d) \in InSlots(branch) \/ StoredAs(j, d) = block
      BY <1>8, <1>9, <2>3
    <3> QED BY <1>7, <2>1, <3>1, <3>2
  <2> QED BY <2>2, <2>3
<1> QED BY <1>1, <1>2, <1>9, During DEF Keeps

LEMMA BranchServes ==
  ASSUME SingleSlot, TypeInv, ServeFromBranch
  PROVE  Serves
<1> DEFINE c == current_slot
           req == requested_block_id
           found == branch[c]
           served == Served(found.data)
           b == [branch EXCEPT ![c] = served]
<1>1. /\ pc = "scan" /\ pc' = "send" /\ c \in Slots
      /\ found.block_id = req /\ req # 0
      /\ value' = IF op = "READ" THEN found.data ELSE value
      /\ UNCHANGED <<op, requested_block_id, leaf_id, tree>>
  BY DEF ServeFromBranch, disk, call
<1>2. InTransit /\ InTransit'
  BY <1>1 DEF InTransit
<1>3. branch \in [Slots -> Block] /\ op \in {"READ", "WRITE", "CLEAR"} /\ found \in Block
      /\ served \in Block
  BY <1>1, ServedType DEF TypeInv, TypeOK, Block
<1>4. served = IF op = "CLEAR" THEN Dummy ELSE StoredAs(req, value')
  BY <1>1, <1>3 DEF Served, NewBlock, StoredAs
<1>5. b \in [Slots -> Block] /\ b[c] = served
  BY <1>1, <1>3
<1>6. ASSUME NEW j, NEW d, j # 0, j # req
      PROVE  StoredAs(j, d) \in InSlots(b) <=> StoredAs(j, d) \in InSlots(branch)
  <2>1. StoredAs(j, d) # found /\ StoredAs(j, d) # served
    BY <1>1, <1>4, <1>6 DEF StoredAs, Dummy
  <2> HIDE DEF served
  <2> QED BY <1>1, <1>3, <2>1, OverwriteSlot
<1>7. found = StoredAs(req, found.data)
  BY <1>1, <1>3 DEF Block, StoredAs
<1>8. found \in InSlots(branch) /\ b[c] \in InSlots(b)
  BY <1>1 DEF InSlots
<1> HIDE DEF b, served
<1>9. CASE \E s \in Slots : branch' = Swap(b, c, s) /\ UNCHANGED stash
  <2>1. InSlots(branch') = InSlots(b) /\ UNCHANGED stash
    BY <1>1, <1>5, <1>9, SwapSlots
  <2>2. \A j, d : j \notin {0, req} =>
          (StoredAs(j, d) \in Somewhere' <=> StoredAs(j, d) \in Somewhere)
    BY <1>1, <1>2, <1>6, <2>1, During
  <2>3. op # "CLEAR" => StoredAs(req, value') \in Somewhere'
    BY <1>2, <1>4, <1>5, <1>8, <2>1, During
  <2>4. op = "READ" => StoredAs(req, value') \in Somewhere
    BY <1>1, <1>2, <1>7, <1>8, During
  <2> QED BY <1>1, <2>2, <2>3, <2>4 DEF Serves
<1>10. CASE /\ stash' = Assign(stash, b[c].block_id, b[c].data)
            /\ branch' = [b EXCEPT ![c] = Dummy]
  <2>1. b[c].block_id \in {0, req}
    BY <1>4, <1>5 DEF StoredAs, Dummy
  <2>2. ASSUME NEW j, NEW d, j \notin {0, req}
        PROVE  StoredAs(j, d) \in Somewhere' <=> StoredAs(j, d) \in Somewhere
    <3>1. StoredAs(j, d) \in InStash(stash') <=> StoredAs(j, d) \in InStash(stash)
      BY <1>10, <2>1, <2>2, AssignStash
    <3>2. StoredAs(j, d) # b[c] /\ StoredAs(j, d) # Dummy
      BY <2>1, <2>2 DEF StoredAs, Dummy
    <3>3. StoredAs(j, d) \in InSlots(branch') <=> StoredAs(j, d) \in InSlots(b)
      BY <1>1, <1>5, <1>10, <3>2, OverwriteSlot
    <3> QED BY <1>1, <1>2, <1>6, <2>2, <3>1, <3>3, During
  <2>3. op # "CLEAR" => StoredAs(req, value') \in Somewhere'
    <3>1. ASSUME op # "CLEAR" PROVE StoredAs(req, value') \in InStash(stash')
      <4>1. b[c].block_id = req /\ b[c].data = value'
        BY <1>4, <1>5, <3>1 DEF StoredAs
      <4> QED BY <1>10, <4>1, AssignStash
    <3> QED BY <1>2, <3>1, During
  <2>4. op = "READ" => StoredAs(req, value') \in Somewhere
    BY <1>1, <1>2, <1>7, <1>8, During
  <2> QED BY <1>1, <2>2, <2>3, <2>4 DEF Serves
<1>11. (\E s \in Slots : branch' = Swap(b, c, s) /\ UNCHANGED stash)
       \/ (/\ stash' = Assign(stash, b[c].block_id, b[c].data)
           /\ branch' = [b EXCEPT ![c] = Dummy])
  <2>1. \A leaf : Deepest(Free(b, SlotsShared(leaf))) \subseteq Slots
    BY DEF Deepest, Free, SlotsShared
  <2> QED BY <2>1 DEF ServeFromBranch, b, served
<1> QED BY <1>9, <1>10, <1>11

\* The requested block is put into a free slot or the stash.
LEMMA NowhereServes ==
  ASSUME TypeInv, KeyInv, pc \in {"stash", "insert"}, pc' = "send",
         UNCHANGED <<leaf_id, tree>>, op # "CLEAR",
         NEW leaf, NEW d, d = value', NEW m,
         \A j, e : j # requested_block_id =>
           (StoredAs(j, e) \in InStash(m) <=> StoredAs(j, e) \in InStash(stash)),
         op = "WRITE" => UNCHANGED value,
         op = "READ" => StoredAs(requested_block_id, d) \in InStash(stash),
         \/ /\ \E s \in Deepest(Free(branch, SlotsShared(leaf))) :
                 branch' = [branch EXCEPT ![s] = StoredAs(requested_block_id, d)]
            /\ stash' = m
         \/ stash' = Assign(stash, requested_block_id, d) /\ UNCHANGED branch
  PROVE  Serves
<1> DEFINE req == requested_block_id
<1>1. InTransit /\ InTransit'
  BY DEF InTransit
<1>2. branch \in [Slots -> Block]
  BY DEF TypeInv, TypeOK
<1>3. CASE /\ \E s \in Deepest(Free(branch, SlotsShared(leaf))) :
                branch' = [branch EXCEPT ![s] = StoredAs(req, d)]
           /\ stash' = m
  <2>1. PICK s \in Slots : branch[s].block_id = 0 /\ branch' = [branch EXCEPT ![s] = StoredAs(req, d)]
    BY <1>3 DEF Deepest, Free, SlotsShared
  <2>2. ASSUME NEW j, NEW e, j \notin {0, req}
        PROVE  StoredAs(j, e) \in Somewhere' <=> StoredAs(j, e) \in Somewhere
    <3>1. StoredAs(j, e) # branch[s] /\ StoredAs(j, e) # StoredAs(req, d)
      BY <2>1, <2>2 DEF StoredAs
    <3>2. StoredAs(j, e) \in InSlots(branch') <=> StoredAs(j, e) \in InSlots(branch)
      BY <1>2, <2>1, <3>1, OverwriteSlot
    <3> QED BY <1>1, <1>3, <2>2, <3>2, During
  <2>3. StoredAs(req, d) \in InSlots(branch')
    BY <1>2, <2>1 DEF InSlots
  <2> QED BY <1>1, <2>2, <2>3, During DEF Serves
<1>4. CASE stash' = Assign(stash, req, d) /\ UNCHANGED branch
  <2>1. \A j, e : j # req =>
          (StoredAs(j, e) \in InStash(stash') <=> StoredAs(j, e) \in InStash(stash))
    BY <1>4, AssignStash
  <2>2. StoredAs(req, d) \in InStash(stash')
    BY <1>4, AssignStash
  <2> QED BY <1>1, <1>4, <2>1, <2>2, During DEF Serves
<1> QED BY <1>3, <1>4

LEMMA StashServes ==
  ASSUME TypeInv, KeyInv, ServeFromStash
  PROVE  Serves
<1> DEFINE req == requested_block_id
           d == IF op = "READ" THEN stash[req] ELSE value
<1>1. /\ pc = "stash" /\ pc' = "send" /\ req \in DOMAIN stash
      /\ UNCHANGED <<leaf_id, tree>> /\ op \in {"READ", "WRITE", "CLEAR"}
  BY DEF ServeFromStash, disk, TypeInv
<1>2. req # 0
  BY <1>1, RequestedKnown
<1>3. \A j, e : j # req =>
        (StoredAs(j, e) \in InStash(Erase(stash, req)) <=> StoredAs(j, e) \in InStash(stash))
  BY EraseStash
<1>4. CASE op = "CLEAR"
  <2>1. stash' = Erase(stash, req) /\ UNCHANGED branch
    BY <1>4 DEF ServeFromStash
  <2>2. InTransit /\ InTransit'
    BY <1>1 DEF InTransit
  <2> QED BY <1>1, <1>3, <1>4, <2>1, <2>2, During DEF Serves
<1>5. CASE op # "CLEAR"
  <2>1. value' = d
    BY <1>5 DEF ServeFromStash
  <2>2. Served(stash[req]) = StoredAs(req, d)
    BY <1>1, <1>2, <1>5 DEF Served, NewBlock, StoredAs
  <2>3. PICK leaf \in LeafIds :
          \/ \E s \in Deepest(Free(branch, SlotsShared(leaf))) :
               /\ branch' = [branch EXCEPT ![s] = Served(stash[req])]
               /\ stash' = Erase(stash, req)
          \/ stash' = Assign(stash, req, d) /\ UNCHANGED branch
    BY <1>5 DEF ServeFromStash
  <2>4. op = "READ" => StoredAs(req, d) \in InStash(stash)
    BY <1>1 DEF InStash
  <2>5. op = "WRITE" => UNCHANGED value
    BY <2>1
  <2>6. \/ /\ \E s \in Deepest(Free(branch, SlotsShared(leaf))) :
                branch' = [branch EXCEPT ![s] = StoredAs(req, value')]
           /\ stash' = Erase(stash, req)
        \/ stash' = Assign(stash, req, value') /\ UNCHANGED branch
    BY <2>1, <2>2, <2>3
  <2> QED BY <1>1, <1>3, <1>5, <2>1, <2>4, <2>5, <2>6, NowhereServes
<1> QED BY <1>4, <1>5

LEMMA InsertServes ==
  ASSUME SingleSlot, TypeInv, KeyInv, PlaceInv, InsertBlock
  PROVE  Serves
<1> DEFINE req == requested_block_id
<1>1. /\ pc = "insert" /\ pc' = "send" /\ op # "CLEAR"
      /\ UNCHANGED <<leaf_id, tree, value>> /\ op \in {"READ", "WRITE", "CLEAR"}
  BY DEF InsertBlock, disk, call, TypeInv
<1>2. req # 0 /\ req \in DOMAIN position_map
  BY <1>1, RequestedKnown
<1>3. op # "READ"
  <2>1. op = "READ" => req \in Held(Live, DOMAIN stash)
    BY <1>1, <1>2 DEF PlaceInv, Missing
  <2> QED BY <1>1, <2>1, RequestedNowhere
<1>4. NewBlock(req, value) = StoredAs(req, value')
  BY <1>1, <1>2 DEF NewBlock, StoredAs
<1>5. PICK leaf \in LeafIds :
        \/ \E s \in Deepest(Free(branch, SlotsShared(leaf))) :
             /\ branch' = [branch EXCEPT ![s] = NewBlock(req, value)]
             /\ UNCHANGED stash
        \/ stash' = Assign(stash, req, value) /\ UNCHANGED branch
  BY DEF InsertBlock
<1>6. \/ /\ \E s \in Deepest(Free(branch, SlotsShared(leaf))) :
              branch' = [branch EXCEPT ![s] = StoredAs(req, value')]
         /\ stash' = stash
      \/ stash' = Assign(stash, req, value') /\ UNCHANGED branch
  BY <1>1, <1>4, <1>5
<1> QED BY <1>1, <1>3, <1>6, NowhereServes
-----------------------------------------------------------------------------
(***************************************************************************)
(* The contents of the store before and after a step.                      *)
(***************************************************************************)
LEMMA SameContents ==
  ASSUME StoreInv, StoreInv', \A k, v : Has(k, v)' <=> Has(k, v)
  PROVE  Contents' = Contents
<1>1. DOMAIN Contents' = DOMAIN Contents
  BY DEF StoreInv
<1>2. ASSUME NEW k \in DOMAIN Contents PROVE Contents'[k] = Contents[k]
  BY DEF StoreInv
<1>3. /\ Contents = [k \in DOMAIN Contents |-> Contents[k]]
      /\ Contents' = [k \in DOMAIN Contents' |-> Contents'[k]]
  BY DEF Contents
<1> QED BY <1>1, <1>2, <1>3

LEMMA StoredKeys ==
  ASSUME TypeInv, KeyInv, NEW k \in DOMAIN key_to_block_id
  PROVE  /\ key_to_block_id[k] \in BlockIds \ {0}
         /\ key_to_block_id[k] \in DOMAIN position_map
<1>1. key_to_block_id[k] \in BlockIds
  BY SavedMapsOK DEF TypeInv, TypeOK, MapTypes, IsMap
<1>2. key_to_block_id[k] \in DOMAIN position_map
  BY DEF KeyInv, KeysHaveTheirOwnBlocks
<1> QED BY <1>1, <1>2 DEF KeyInv

\* A step that keeps the blocks and the keys keeps the contents.
LEMMA KeptContents ==
  ASSUME RefinementInv, RefinementInv', UNCHANGED key_to_block_id, Keeps
  PROVE  Contents' = Contents
<1>1. \A k, v : Has(k, v)' <=> Has(k, v)
  <2> TAKE k, v
  <2>1. CASE k \in DOMAIN key_to_block_id
    <3>1. key_to_block_id[k] # 0
      BY <2>1, StoredKeys DEF RefinementInv
    <3> QED BY <3>1 DEF Has, Keeps
  <2> QED BY <2>1 DEF Has
<1> QED BY <1>1, SameContents DEF RefinementInv

\* So does a step that forgets a key without a block, and one that gives a
\* key the id of no block.
LEMMA ConfirmContents ==
  ASSUME RefinementInv, RefinementInv', Confirm
  PROVE  Contents' = Contents
<1>1. /\ pc = "confirm" /\ pc' = "idle" /\ UNCHANGED <<tree, stash>>
      /\ key_to_block_id' = IF op = "CLEAR" THEN Erase(key_to_block_id, key) ELSE key_to_block_id
  BY DEF Confirm
<1>2. ~InTransit /\ ~InTransit'
  BY <1>1 DEF InTransit
<1>3. Keeps /\ Somewhere' = Somewhere
  BY <1>1, <1>2, KeepsOutside, Outside
<1>4. CASE op # "CLEAR"
  BY <1>1, <1>3, <1>4, KeptContents
<1>5. CASE op = "CLEAR"
  <2>1. key \in DOMAIN key_to_block_id /\ requested_block_id = key_to_block_id[key]
    BY <1>1 DEF RefinementInv, KeyInv
  <2>2. \A v : ~Has(key, v)
    <3>1. requested_block_id \in BlockIds \ {0}
      BY <2>1, StoredKeys DEF RefinementInv
    <3>2. requested_block_id \notin Held(Live, DOMAIN stash)
      BY <1>1, <1>5 DEF RefinementInv, PlaceInv
    <3> QED BY <2>1, <3>1, <3>2 DEF RefinementInv, StoreInv, Has
  <2>3. /\ DOMAIN key_to_block_id' = DOMAIN key_to_block_id \ {key}
        /\ \A k \in DOMAIN key_to_block_id' : key_to_block_id'[k] = key_to_block_id[k]
    BY <1>1, <1>5 DEF Erase
  <2>4. \A k, v : Has(k, v)' <=> Has(k, v)
    BY <1>3, <2>2, <2>3 DEF Has
  <2> QED BY <2>4, SameContents DEF RefinementInv
<1> QED BY <1>4, <1>5

LEMMA PutNewKeyContents ==
  ASSUME RefinementInv, RefinementInv', IdForEveryKey, PutNewKey
  PROVE  Contents' = Contents
<1>1. /\ pc = "called" /\ pc' = "fetch" /\ UNCHANGED <<tree, stash>>
      /\ key \in Keys /\ key \notin DOMAIN key_to_block_id
  BY DEF PutNewKey, disk, RefinementInv, TypeInv
<1>2. PICK i \in 1 .. Cardinality(DOMAIN position_map) + 1 :
        /\ IsNewIndex(i)
        /\ key_to_block_id' = Assign(key_to_block_id, key, ToBlockId(i))
  BY DEF PutNewKey
<1>3. ToBlockId(i) \in (BlockIds \ {0}) \ DOMAIN position_map
  BY <1>1, <1>2, IdLeftForNewKey, NewIndexIsFree DEF RefinementInv, KeyInv
<1>4. Somewhere' = Somewhere
  BY <1>1, Outside DEF InTransit
<1>5. \A v : StoredAs(ToBlockId(i), v) \notin Somewhere
  <2>1. ToBlockId(i) \notin Held(Live, DOMAIN stash)
    BY <1>3 DEF RefinementInv, PlaceInv, Placed
  <2> QED BY <1>3, <2>1 DEF RefinementInv, StoreInv
<1>6. /\ DOMAIN key_to_block_id' = DOMAIN key_to_block_id \cup {key}
      /\ key_to_block_id'[key] = ToBlockId(i)
      /\ \A k \in DOMAIN key_to_block_id : key_to_block_id'[k] = key_to_block_id[k]
  BY <1>1, <1>2 DEF Assign
<1>7. \A k, v : Has(k, v)' <=> Has(k, v)
  BY <1>1, <1>4, <1>5, <1>6 DEF Has
<1> QED BY <1>7, SameContents DEF RefinementInv

LEMMA ServedContents ==
  ASSUME RefinementInv, RefinementInv', Serves, pc \in {"scan", "stash", "insert"}, pc' = "send",
         UNCHANGED <<op, requested_block_id, key_to_block_id, key>>
  PROVE  /\ op = "WRITE" => UNCHANGED value /\ Contents' = KV!Stored(key, value)
         /\ op = "CLEAR" => Contents' = Restrict(Contents, DOMAIN Contents \ {key})
         /\ op = "READ" => /\ key \in DOMAIN Contents /\ Contents[key] = value'
                           /\ Contents' = Contents
<1>1. key \in DOMAIN key_to_block_id /\ requested_block_id = key_to_block_id[key]
  BY DEF RefinementInv, KeyInv
<1>2. requested_block_id \in BlockIds \ {0}
  BY <1>1, StoredKeys DEF RefinementInv
<1>3. ASSUME NEW k, NEW v, k # key PROVE Has(k, v)' <=> Has(k, v)
  <2>1. CASE k \in DOMAIN key_to_block_id
    <3>1. key_to_block_id[k] # 0
      BY <2>1, StoredKeys DEF RefinementInv
    <3>2. key_to_block_id[k] # requested_block_id
      BY <1>1, <1>3, <2>1 DEF RefinementInv, KeyInv, KeysHaveTheirOwnBlocks
    <3> QED BY <3>1, <3>2 DEF Has, Serves
  <2> QED BY <2>1 DEF Has
<1>4. /\ Contents = [k \in DOMAIN Contents |-> Contents[k]]
      /\ Contents' = [k \in DOMAIN Contents' |-> Contents'[k]]
  BY DEF Contents
<1>5. ASSUME NEW k, k # key
      PROVE  /\ k \in DOMAIN Contents' <=> k \in DOMAIN Contents
             /\ k \in DOMAIN Contents => Contents'[k] = Contents[k]
  BY <1>3, <1>5 DEF RefinementInv, StoreInv
<1>6. ASSUME op = "WRITE" PROVE UNCHANGED value /\ Contents' = KV!Stored(key, value)
  <2>1. UNCHANGED value /\ Has(key, value)'
    BY <1>1, <1>6 DEF Serves, Has
  <2>2. key \in DOMAIN Contents' /\ Contents'[key] = value
    BY <2>1 DEF RefinementInv, StoreInv
  <2>3. DOMAIN Contents' = DOMAIN Contents \cup {key}
    BY <1>5, <2>2
  <2>4. Contents' = [x \in DOMAIN Contents \cup {key} |-> IF x = key THEN value ELSE Contents[x]]
    BY <1>4, <1>5, <2>2, <2>3
  <2> QED BY <2>1, <2>4 DEF KV!Stored
<1>7. ASSUME op = "CLEAR" PROVE Contents' = Restrict(Contents, DOMAIN Contents \ {key})
  <2>1. requested_block_id \notin Held(Live, DOMAIN stash)'
    BY <1>7 DEF RefinementInv, PlaceInv
  <2>2. \A v : ~Has(key, v)'
    BY <1>1, <1>2, <2>1 DEF RefinementInv, StoreInv, Has
  <2>3. key \notin DOMAIN Contents'
    BY <2>2 DEF RefinementInv, StoreInv
  <2>4. DOMAIN Contents' = DOMAIN Contents \ {key}
    BY <1>5, <2>3
  <2> QED BY <1>4, <1>5, <2>4 DEF Restrict
<1>8. ASSUME op = "READ"
      PROVE  key \in DOMAIN Contents /\ Contents[key] = value' /\ Contents' = Contents
  <2>1. Has(key, value') /\ Has(key, value)'
    BY <1>1, <1>8 DEF Serves, Has
  <2>2. /\ key \in DOMAIN Contents /\ Contents[key] = value'
        /\ key \in DOMAIN Contents' /\ Contents'[key] = value'
    BY <2>1 DEF RefinementInv, StoreInv
  <2>3. DOMAIN Contents' = DOMAIN Contents
    BY <1>5, <2>2
  <2> QED BY <1>4, <1>5, <2>2, <2>3
<1> QED BY <1>6, <1>7, <1>8
-----------------------------------------------------------------------------
(***************************************************************************)
(* The steps of the client as steps of the store.                          *)
(***************************************************************************)
Asked == KV!Request(op, key, IF op = "WRITE" THEN value ELSE NoData)

LEMMA CallIs ==
  ASSUME TypeInv
  PROVE  KVCall = IF pc = "idle" THEN KV!Idle
                  ELSE IF pc \in {"called", "fetch", "scan", "stash", "insert"}
                  THEN KV!Pending(Asked)
                  ELSE IF pc \in {"send", "confirm"}
                  THEN KV!Returning(Asked, IF op = "READ" THEN value ELSE Ok)
                  ELSE KV!Returning(Asked, result)
<1>1. pc \in {"idle", "called", "fetch", "scan", "stash", "insert", "send", "confirm", "done",
              "crashed"}
  BY DEF TypeInv, TypeOK
<1> QED BY <1>1 DEF KVCall, Asked, KV!Idle, KV!Pending, KV!Returning, KV!Request

LEMMA CallIsAfter ==
  ASSUME TypeInv'
  PROVE  KVCall' = IF pc' = "idle" THEN KV!Idle
                   ELSE IF pc' \in {"called", "fetch", "scan", "stash", "insert"}
                   THEN KV!Pending(Asked')
                   ELSE IF pc' \in {"send", "confirm"}
                   THEN KV!Returning(Asked', IF op' = "READ" THEN value' ELSE Ok)
                   ELSE KV!Returning(Asked', result')
<1>1. pc' \in {"idle", "called", "fetch", "scan", "stash", "insert", "send", "confirm", "done",
               "crashed"}
  BY DEF TypeInv, TypeOK
<1> QED BY <1>1 DEF KVCall, Asked, KV!Idle, KV!Pending, KV!Returning, KV!Request

LEMMA AskedType ==
  ASSUME RefinementInv, pc # "idle"
  PROVE  Asked \in KV!Requests
<1>1. op \in {"READ", "WRITE", "CLEAR"} /\ key \in Keys /\ (op = "WRITE" => value \in Data)
  BY DEF RefinementInv, TypeInv
<1> QED BY <1>1 DEF Asked, KV!Requests

LEMMA SameAsked ==
  ASSUME UNCHANGED <<op, key>>, op = "WRITE" => UNCHANGED value
  PROVE  Asked' = Asked
BY DEF Asked

\* The client is the store's only caller.
LEMMA OneClient ==
  /\ [c \in Clients |-> KVCall]["application"] = KVCall
  /\ [c \in Clients |-> KVCall]' = [[c \in Clients |-> KVCall] EXCEPT !["application"] = KVCall']
  /\ "application" \in Clients
BY DEF Clients

LEMMA StuttersKV ==
  ASSUME Contents' = Contents, KVCall' = KVCall
  PROVE  UNCHANGED KV!vars
BY DEF KV!vars

LEMMA CallRefinesKV ==
  ASSUME RefinementInv, RefinementInv',
         NEW o \in {"READ", "WRITE", "CLEAR"}, NEW k \in Keys, NEW v, Call(o, k, v)
  PROVE  KV!Next
<1>1. /\ pc = "idle" /\ pc' = "called" /\ UNCHANGED <<tree, stash, key_to_block_id>>
  BY DEF Call, maps, disk
<1>2. Contents' = Contents
  BY <1>1, KeepsOutside, KeptContents DEF InTransit
<1>3. KVCall = KV!Idle /\ KVCall' = KV!Pending(Asked')
  BY <1>1, CallIs, CallIsAfter DEF RefinementInv
<1>4. Asked' \in KV!Requests
  <2>1. op' \in {"READ", "WRITE", "CLEAR"} /\ key' \in Keys /\ (op' = "WRITE" => value' \in Data)
    BY <1>1 DEF RefinementInv, TypeInv
  <2> QED BY <2>1 DEF Asked, KV!Requests
<1>5. KV!Invoke("application")
  BY <1>2, <1>3, <1>4, OneClient DEF KV!Invoke
<1> QED BY <1>5, OneClient DEF KV!Next

LEMMA ServedRefines ==
  ASSUME RefinementInv, RefinementInv', Serves, pc \in {"scan", "stash", "insert"}, pc' = "send",
         UNCHANGED <<op, requested_block_id, key_to_block_id, key>>
  PROVE  KV!Next
<1> DEFINE result_ == IF op = "READ" THEN value' ELSE Ok
<1>1. op \in {"READ", "WRITE", "CLEAR"}
  BY DEF RefinementInv, TypeInv
<1>2. /\ op = "WRITE" => UNCHANGED value /\ Contents' = KV!Stored(key, value)
      /\ op = "CLEAR" => Contents' = Restrict(Contents, DOMAIN Contents \ {key})
      /\ op = "READ" => /\ key \in DOMAIN Contents /\ Contents[key] = value'
                        /\ Contents' = Contents
  BY ServedContents
<1>3. Asked' = Asked /\ Asked \in KV!Requests
  BY <1>2, SameAsked, AskedType
<1>4. KVCall = KV!Pending(Asked) /\ KVCall' = KV!Returning(Asked, result_)
  BY <1>3, CallIs, CallIsAfter DEF RefinementInv
<1>5. /\ Asked.op = op /\ Asked.key = key /\ (op = "WRITE" => Asked.value = value)
  BY DEF Asked, KV!Request
<1>6. [c \in Clients |-> KVCall]' =
        [[c \in Clients |-> KVCall] EXCEPT !["application"] = KV!Returning(Asked, result_)]
  BY <1>4, OneClient
<1>7. [c \in Clients |-> KVCall]["application"] = KV!Pending(Asked)
  BY <1>4, OneClient
<1>8. KV!Effect("application")
  <2>1. CASE op = "WRITE"
    BY <1>2, <1>3, <1>5, <1>6, <1>7, <2>1 DEF KV!Effect
  <2>2. CASE op = "CLEAR"
    <3>1. Contents' = KV!Restrict(Contents, DOMAIN Contents \ {key})
      BY <1>2, <2>2 DEF KV!Restrict, Restrict
    <3> QED BY <1>3, <1>5, <1>6, <1>7, <2>2, <3>1 DEF KV!Effect
  <2>3. CASE op = "READ"
    BY <1>2, <1>3, <1>5, <1>6, <1>7, <2>3 DEF KV!Effect
  <2> QED BY <1>1, <2>1, <2>2, <2>3
<1> QED BY <1>8, OneClient DEF KV!Next

LEMMA MissingRefines ==
  ASSUME RefinementInv, RefinementInv', MissingKey
  PROVE  KV!Next
<1>1. /\ pc = "called" /\ pc' = "done" /\ op \in {"READ", "CLEAR"}
      /\ key \notin DOMAIN key_to_block_id
      /\ result' = IF op = "READ" THEN Failed ELSE Ok
      /\ UNCHANGED <<tree, stash, key_to_block_id, op, key, value>>
  BY DEF MissingKey, maps, disk, call
<1>2. Contents' = Contents
  BY <1>1, KeepsOutside, KeptContents DEF InTransit
<1>3. key \notin DOMAIN Contents
  BY <1>1 DEF Contents
<1>4. Asked' = Asked /\ Asked \in KV!Requests
  BY <1>1, SameAsked, AskedType
<1>5. KVCall = KV!Pending(Asked) /\ KVCall' = KV!Returning(Asked, result')
  BY <1>1, <1>4, CallIs, CallIsAfter DEF RefinementInv
<1>6. Asked.op = op /\ Asked.key = key
  BY DEF Asked, KV!Request
<1>7. [c \in Clients |-> KVCall]' =
        [[c \in Clients |-> KVCall] EXCEPT !["application"] = KV!Returning(Asked, result')]
  BY <1>5, OneClient
<1>8. [c \in Clients |-> KVCall]["application"] = KV!Pending(Asked)
  BY <1>5, OneClient
<1>9. KV!Effect("application")
  <2>1. CASE op = "READ"
    BY <1>1, <1>2, <1>3, <1>4, <1>6, <1>7, <1>8, <2>1 DEF KV!Effect
  <2>2. CASE op = "CLEAR"
    <3>1. Contents = [x \in DOMAIN Contents |-> Contents[x]]
      BY DEF Contents
    <3>2. Contents' = KV!Restrict(Contents, DOMAIN Contents \ {key})
      <4>1. DOMAIN Contents \ {key} = DOMAIN Contents
        BY <1>3
      <4> QED BY <1>2, <3>1, <4>1 DEF KV!Restrict
    <3> QED BY <1>1, <1>4, <1>6, <1>7, <1>8, <2>2, <3>2 DEF KV!Effect
  <2> QED BY <1>1, <2>1, <2>2
<1> QED BY <1>9, OneClient DEF KV!Next

LEMMA EndRefines ==
  ASSUME RefinementInv, RefinementInv', Confirm \/ Return
  PROVE  KV!Next
<1>1. pc \in {"confirm", "done"} /\ pc' = "idle"
  BY DEF Confirm, Return
<1>2. Contents' = Contents
  <2>1. CASE Confirm
    BY <2>1, ConfirmContents
  <2>2. CASE Return
    BY <1>1, <2>2, KeepsOutside, KeptContents DEF Return, maps, disk, InTransit
  <2> QED BY <2>1, <2>2
<1>3. KVCall' = KV!Idle /\ KVCall.op = "returning"
  BY <1>1, CallIs, CallIsAfter DEF RefinementInv, KV!Returning
<1>4. KV!Return("application")
  BY <1>2, <1>3, OneClient DEF KV!Return
<1> QED BY <1>4, OneClient DEF KV!Next

\* A step of a call that neither takes effect nor returns.
LEMMA InnerStep ==
  ASSUME RefinementInv, RefinementInv', Contents' = Contents, UNCHANGED <<op, key>>,
         op # "READ" => UNCHANGED value,
         \/ /\ pc \in {"called", "fetch", "scan", "stash", "insert"}
            /\ pc' \in {"called", "fetch", "scan", "stash", "insert"}
         \/ pc \in {"send", "confirm"} /\ pc' \in {"send", "confirm"} /\ UNCHANGED value
  PROVE  UNCHANGED KV!vars
<1>1. Asked' = Asked
  BY SameAsked
<1>2. KVCall' = KVCall
  BY <1>1, CallIs, CallIsAfter DEF RefinementInv
<1> QED BY <1>2, StuttersKV

LEMMA StepRefines ==
  ASSUME SingleSlot, IdForEveryKey, RefinementInv, RefinementInv', [Next]_vars
  PROVE  KV!Next \/ UNCHANGED KV!vars
<1> USE DEF RefinementInv
<1>1. ASSUME NEW k \in Keys, NEW v, Put(k, v) \/ Get(k) \/ Clear(k) PROVE KV!Next
  BY <1>1, CallRefinesKV DEF Put, Get, Clear
<1>2. CASE PutNewKey
  <2>1. pc = "called" /\ pc' = "fetch" /\ UNCHANGED <<op, key, value>>
    BY <1>2 DEF PutNewKey
  <2> QED BY <1>2, <2>1, PutNewKeyContents, InnerStep
<1>3. CASE UseKnownKey
  <2>1. /\ pc = "called" /\ pc' = "fetch" /\ (op # "READ" => UNCHANGED value)
        /\ UNCHANGED <<op, key, key_to_block_id, tree, stash>>
    BY <1>3 DEF UseKnownKey, maps, disk
  <2>2. Contents' = Contents
    BY <2>1, KeepsOutside, KeptContents DEF InTransit
  <2> QED BY <2>1, <2>2, InnerStep
<1>4. CASE FetchBranch
  <2>1. pc = "fetch" /\ pc' = "scan" /\ UNCHANGED <<op, key, value, key_to_block_id>>
    BY <1>4 DEF FetchBranch, maps, call
  <2> QED BY <1>4, <2>1, FetchKeeps, KeptContents, InnerStep
<1>5. CASE SkipFreeSlot \/ MoveOtherBlock \/ EndScan \/ EndStash
  <2>1. /\ pc \in {"scan", "stash"} /\ pc' \in {"scan", "stash", "insert"}
        /\ UNCHANGED <<op, key, value, key_to_block_id>>
    BY <1>5 DEF SkipFreeSlot, MoveOtherBlock, EndScan, EndStash, maps, call
  <2> QED BY <1>5, <2>1, LoopKeeps, MoveKeeps, KeptContents, InnerStep
<1>6. ASSUME NEW id \in unvisited, EvictFromStash(id) PROVE UNCHANGED KV!vars
  <2>1. pc = "stash" /\ pc' = "stash" /\ UNCHANGED <<op, key, value, key_to_block_id>>
    BY <1>6 DEF EvictFromStash, call
  <2> QED BY <1>6, <2>1, EvictKeeps, KeptContents, InnerStep
<1>7. CASE ServeFromBranch \/ ServeFromStash \/ InsertBlock
  <2>1. /\ pc \in {"scan", "stash", "insert"} /\ pc' = "send"
        /\ UNCHANGED <<op, requested_block_id, key_to_block_id, key>>
    BY <1>7 DEF ServeFromBranch, ServeFromStash, InsertBlock, call
  <2>2. Serves
    BY <1>7, BranchServes, StashServes, InsertServes
  <2> QED BY <2>1, <2>2, ServedRefines
<1>8. CASE CommitBranch
  <2>1. pc = "send" /\ pc' = "confirm" /\ UNCHANGED <<op, key, value, key_to_block_id>>
    BY <1>8 DEF CommitBranch, maps, call
  <2> QED BY <1>8, <2>1, CommitKeeps, KeptContents, InnerStep
<1>9. CASE UNCHANGED vars
  <2>1. UNCHANGED <<op, key, value, key_to_block_id, pc, result, tree, stash, leaf_id, branch>>
    BY <1>9 DEF vars, maps, call, transit, disk
  <2>2. Somewhere' = Somewhere
    BY <2>1 DEF Somewhere, InTransit
  <2>3. Contents' = Contents
    BY <2>1, <2>2, KeepsWhole, KeptContents
  <2>4. Asked' = Asked
    BY <2>1, SameAsked
  <2>5. KVCall' = KVCall
    BY <2>1, <2>4, CallIs, CallIsAfter
  <2> QED BY <2>3, <2>5, StuttersKV
<1>10. ~Crash /\ ~RejectLeaf /\ ~SendFails
  BY NoCrash
<1>11. CASE CallStep
  BY <1>2, <1>3, <1>4, <1>5, <1>6, <1>7, <1>8, <1>10, <1>11, MissingRefines, EndRefines
     DEF CallStep, TraverseBranch
<1> QED BY <1>1, <1>9, <1>11 DEF Next

-----------------------------------------------------------------------------
ValueOK == pc # "idle" /\ op = "WRITE" => value \in Data

LEMMA ValueNext == TypeInv /\ ValueOK /\ [Next]_vars => ValueOK'
<1> SUFFICES ASSUME TypeInv, ValueOK, [Next]_vars PROVE ValueOK'
  OBVIOUS
<1> USE DEF ValueOK
<1>1. ASSUME NEW k \in Keys, Get(k) \/ Clear(k) \/ \E v \in Data : Put(k, v) PROVE ValueOK'
  BY <1>1 DEF Put, Get, Clear, Call
<1>2. CASE PutNewKey \/ UseKnownKey \/ MissingKey \/ SendFails \/ RejectLeaf \/ FetchBranch
  BY <1>2 DEF PutNewKey, UseKnownKey, MissingKey, SendFails, RejectLeaf, FetchBranch, call
<1>3. CASE SkipFreeSlot \/ MoveOtherBlock \/ EndScan \/ EndStash \/ Crash
  BY <1>3 DEF SkipFreeSlot, MoveOtherBlock, EndScan, EndStash, Crash, call
<1>4. ASSUME NEW id \in unvisited, EvictFromStash(id) PROVE ValueOK'
  BY <1>4 DEF EvictFromStash, call
<1>5. CASE ServeFromBranch \/ ServeFromStash \/ InsertBlock
  BY <1>5 DEF ServeFromBranch, ServeFromStash, InsertBlock, call
<1>6. CASE CommitBranch \/ Confirm \/ Return
  BY <1>6 DEF CommitBranch, Confirm, Return, EndOfCall, call
<1>7. CASE UNCHANGED vars
  BY <1>7 DEF vars, call
<1> HIDE DEF ValueOK
<1>8. CASE CallStep
  BY <1>2, <1>3, <1>4, <1>5, <1>6, <1>8 DEF CallStep, TraverseBranch
<1> QED BY <1>1, <1>7, <1>8 DEF Next

LEMMA RefinementInvariant ==
  ASSUME SingleSlot, IdForEveryKey
  PROVE  Spec => []RefinementInv
<1>1. Init => ValueOK
  BY DEF Init, ValueOK
<1>2. TypeInv /\ ValueOK /\ [Next]_vars => ValueOK'
  BY ValueNext
<1>3. TypeInv /\ KeyInv /\ PlaceInv /\ ValueOK => RefinementInv
  BY StoreIs DEF RefinementInv, ValueOK
<1>4. Spec => []KeyInv
  BY KeyInvariant
<1>5. Spec => []PlaceInv
  BY PlaceInvariant
<1> QED BY <1>1, <1>2, <1>3, <1>4, <1>5, TypeInvariant, PTL DEF Spec

\* put, get and clear, for all the blocks they move through the branch and
\* the stash, are the operations of one key-value store: each takes effect at
\* one instant between its call and its return, on its own key only, and get
\* returns what was last put under its key.
THEOREM ClientImplementsKVStore ==
  ASSUME SingleSlot, IdForEveryKey
  PROVE  Spec => ImplementsKVStore
<1>1. Init => KV!Init
  <2> SUFFICES ASSUME Init PROVE KV!Init
    OBVIOUS
  <2>1. Contents = <<>>
    BY DEF Init, Contents
  <2>2. KVCall = KV!Idle
    BY DEF Init, KVCall, KV!Idle
  <2> QED BY <2>1, <2>2 DEF KV!Init
<1>2. RefinementInv /\ RefinementInv' /\ [Next]_vars => [KV!Next]_KV!vars
  BY StepRefines
<1>3. Spec => []RefinementInv
  BY RefinementInvariant
<1> QED BY <1>1, <1>2, <1>3, PTL DEF Spec, ImplementsKVStore, KV!Spec
=============================================================================
