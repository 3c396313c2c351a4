------------------------------ MODULE PathOram ------------------------------
(***************************************************************************)
(* One Path ORAM client (class SingleClient) working against the Path ORAM *)
(* server and the bucket tree the server keeps in FoundationDB, over a     *)
(* connection that loses nothing.                                          *)
(*                                                                         *)
(* The client handles one call at a time: it sends the leaf of the block   *)
(* it needs, receives that leaf's branch, moves blocks around in it (slot  *)
(* by slot, then stash entry by stash entry, as traverse_branch does) and  *)
(* sends it back.  The server reads the branch from FoundationDB and       *)
(* writes the returned one back in one transaction.  Encryption is left    *)
(* out: the client sees blocks, the server only moves them.  The random    *)
(* filler of a slot that holds no block is never looked at; it is Dummy.   *)
(*                                                                         *)
(* A definition whose name ends in an underscore and a word (Erase_Keeps)  *)
(* is a faulty variant of the one it stands before.  No action uses it:    *)
(* put in that one's place, it breaks the property it was written for.     *)
(***************************************************************************)
EXTENDS OramTree, FiniteSets

CONSTANTS
  Keys,        \* key names of the application
  Data,        \* values the application stores
  ZeroData,    \* the all-zero buffer get() starts from
  NoData,      \* no particular value
  Ok, Failed,  \* return values 0 and -1
  IdModulus    \* blkid_t holds 0 .. IdModulus - 1

ASSUME IdModulusAssumption == IdModulus \in Nat /\ IdModulus > 1
ASSUME SentinelAssumption ==
  /\ ZeroData \notin Data /\ NoData \notin Data
  /\ Failed \notin Data /\ Ok \notin Data
  /\ NoData # ZeroData

VARIABLES
  \* the client object
  key_to_block_id, position_map, stash, connected,
  \* the file it saves them in
  oram_state,
  \* the server's tree in FoundationDB
  tree,
  \* the call in progress: its arguments, and the locals of put, get, clear
  pc, op, key, value, requested_block_id, result,
  \* the branch in transit, whose leaf the server holds
  leaf_id, branch,
  \* progress of the two loops of traverse_branch
  current_slot, unvisited,
  \* history: the blocks whose present leaf the server has been sent
  disclosed

maps     == <<key_to_block_id, position_map, stash>>
call     == <<op, key, requested_block_id>>
transit  == <<leaf_id, branch>>
progress == <<current_slot, unvisited>>
disk     == <<oram_state, tree>>
vars     == <<maps, connected, disk, pc, call, value, result, transit, progress,
              disclosed>>

BlockIds == 0 .. IdModulus - 1
Values   == Data \cup {ZeroData, NoData}

\* Block id 0 marks a slot that holds no block.
Dummy == [block_id |-> 0, data |-> NoData]

\* Conversion to blkid_t.
ToBlockId_Wide(i) == i
ToBlockId(i)      == i % IdModulus

NewBlock(id, d) == IF id = 0 THEN Dummy ELSE [block_id |-> id, data |-> d]

\* operator[]= and erase of the client's maps.
Assign(m, x, v)   == [y \in DOMAIN m \cup {x} |-> IF y = x THEN v ELSE m[y]]
Erase_Keeps(m, x) == m
Erase(m, x)       == [y \in DOMAIN m \ {x} |-> m[y]]

SavedMaps == [key_to_block_id |-> key_to_block_id,
              position_map    |-> position_map,
              stash           |-> stash]

\* A map entry that is missing reads as 0, which is no leaf.
Known(id) == id \in DOMAIN position_map /\ position_map[id] # 0

Randomize_Once(id, leaf) ==
  IF id \in DOMAIN position_map
  THEN UNCHANGED <<position_map, disclosed>>
  ELSE /\ position_map' = Assign(position_map, id, leaf)
       /\ disclosed' = disclosed \ {id}

\* A new random leaf, which the server has not seen.
Randomize(id, leaf) ==
  /\ position_map' = Assign(position_map, id, leaf)
  /\ disclosed' = disclosed \ {id}

Free_Any(b, slots) == slots

Free(b, slots) == {s \in slots : b[s].block_id = 0}
Lowest(S)      == {s \in S : \A t \in S : s <= t}
Deepest(S)     == {s \in S : \A t \in S : t <= s}

-----------------------------------------------------------------------------
NoBranch == [s \in Slots |-> Dummy]

EndOfCall ==
  /\ op' = "none" /\ key' = NoData /\ requested_block_id' = 0
  /\ value' = NoData /\ result' = Ok
  /\ leaf_id' = 0 /\ branch' = NoBranch
  /\ current_slot' = 0 /\ unvisited' = {}

\* After the first initialize() filled the tree with dummies.
Init ==
  /\ key_to_block_id = <<>> /\ position_map = <<>> /\ stash = <<>>
  /\ connected = TRUE
  /\ oram_state = SavedMaps
  /\ tree = [b \in Buckets |-> [k \in Places |-> Dummy]]
  /\ pc = "idle"
  /\ op = "none" /\ key = NoData /\ requested_block_id = 0
  /\ value = NoData /\ result = Ok
  /\ leaf_id = 0 /\ branch = NoBranch
  /\ current_slot = 0 /\ unvisited = {}
  /\ disclosed = {}

\* The application calls put, get or clear.
Call(o, k, v) ==
  /\ pc = "idle"
  /\ pc' = "called"
  /\ op' = o /\ key' = k /\ value' = v
  /\ UNCHANGED <<maps, connected, disk, requested_block_id, result, transit, progress, disclosed>>

-----------------------------------------------------------------------------
(***************************************************************************)
(* The opening of put, get and clear: the key's block id.                  *)
(***************************************************************************)

IsNewIndex_Size(i) == i = Cardinality(DOMAIN position_map) + 1

\* put's search: the first i in 1 .. size whose id is not taken, else
\* size + 1.
IsNewIndex(i) ==
  LET size == Cardinality(DOMAIN position_map)
  IN  /\ i \in 1 .. size + 1
      /\ \A j \in 1 .. i - 1 : ToBlockId(j) \in DOMAIN position_map
      /\ i <= size => ToBlockId(i) \notin DOMAIN position_map

PutNewKey ==
  /\ pc = "called" /\ op = "WRITE"
  /\ key \notin DOMAIN key_to_block_id
  /\ \E i \in 1 .. Cardinality(DOMAIN position_map) + 1, leaf \in LeafIds :
       /\ IsNewIndex(i)
       /\ key_to_block_id' = Assign(key_to_block_id, key, ToBlockId(i))
       /\ Randomize(ToBlockId(i), leaf)
       /\ requested_block_id' = ToBlockId(i)
  /\ pc' = "fetch"
  /\ UNCHANGED <<stash, connected, disk, op, key, value, result, transit, progress>>

\* get's buffer starts as zeros; put's holds the value; clear has none.
UseKnownKey ==
  /\ pc = "called"
  /\ key \in DOMAIN key_to_block_id
  /\ requested_block_id' = key_to_block_id[key]
  /\ value' = IF op = "READ" THEN ZeroData ELSE value
  /\ pc' = "fetch"
  /\ UNCHANGED <<maps, connected, disk, op, key, result, transit, progress, disclosed>>

\* get returns -1 and clear 0 when the key is unknown.
MissingKey ==
  /\ pc = "called" /\ op \in {"READ", "CLEAR"}
  /\ key \notin DOMAIN key_to_block_id
  /\ result' = IF op = "READ" THEN Failed ELSE Ok
  /\ pc' = "done"
  /\ UNCHANGED <<maps, connected, disk, call, value, transit, progress, disclosed>>

-----------------------------------------------------------------------------
(***************************************************************************)
(* fetch_branch and the server's side of it.                               *)
(***************************************************************************)

\* Nothing can be sent on a closed socket.
SendFails ==
  /\ pc = "fetch" /\ ~connected
  /\ result' = Failed
  /\ pc' = "done"
  /\ UNCHANGED <<maps, connected, disk, call, value, transit, progress, disclosed>>

\* operator[] inserts leaf 0 for a block without a position.  The server
\* refuses leaf 0 and closes the connection, and so does the client.
RejectLeaf ==
  /\ pc = "fetch" /\ connected
  /\ ~Known(requested_block_id)
  /\ position_map' = Assign(position_map, requested_block_id, 0)
  /\ disclosed' = disclosed \cup {requested_block_id}
  /\ connected' = FALSE
  /\ result' = Failed
  /\ pc' = "done"
  /\ UNCHANGED <<key_to_block_id, stash, disk, call, value, transit, progress>>

FetchBranch ==
  /\ pc = "fetch" /\ connected
  /\ Known(requested_block_id)
  /\ leaf_id' = position_map[requested_block_id]
  /\ disclosed' = disclosed \cup {requested_block_id}
  /\ branch' = ReadBranch(tree, position_map[requested_block_id])
  /\ current_slot' = 0
  /\ pc' = "scan"
  /\ UNCHANGED <<maps, connected, disk, call, value, result, unvisited>>

-----------------------------------------------------------------------------
(***************************************************************************)
(* traverse_branch.  The requested block gets a new random leaf and the    *)
(* deepest free slot that its old and its new branch share; every other    *)
(* block on the branch gets a free slot of the lowest bucket it may be in. *)
(* A block that finds no slot goes to the stash.                           *)
(***************************************************************************)
Swap(b, s, t) == [b EXCEPT ![s] = b[t], ![t] = b[s]]

SlotsShared_All(leaf) == Slots

\* Slots the requested block may take once its leaf is redrawn.
SlotsShared(leaf) ==
  {s \in Slots :
     LevelOf(s) <= find_intersection_bucket(position_map[requested_block_id], leaf)}

\* Slots of the lowest bucket that block id shares with the branch.
LowestBucket(id) ==
  BucketSlots(find_intersection_bucket(position_map[requested_block_id], position_map[id]))

Served_NotCleared(d) == IF op = "WRITE" THEN NewBlock(requested_block_id, value)
                                        ELSE NewBlock(requested_block_id, d)

Served_NotWritten(d) == IF op = "CLEAR" THEN Dummy ELSE NewBlock(requested_block_id, d)

\* The block once the operation has been carried out on it.
Served(d) == CASE op = "READ"  -> NewBlock(requested_block_id, d)
               [] op = "WRITE" -> NewBlock(requested_block_id, value)
               [] op = "CLEAR" -> Dummy

SkipFreeSlot_Stays ==
  /\ pc = "scan" /\ current_slot \in Slots
  /\ branch[current_slot].block_id = 0
  /\ UNCHANGED vars

SkipFreeSlot ==
  /\ pc = "scan" /\ current_slot \in Slots
  /\ branch[current_slot].block_id = 0
  /\ current_slot' = current_slot + 1
  /\ UNCHANGED <<maps, connected, disk, pc, call, value, result, transit, unvisited, disclosed>>

\* The traversal ends where it meets the requested block.
ServeFromBranch ==
  /\ pc = "scan" /\ current_slot \in Slots
  /\ LET found == branch[current_slot]
         b     == [branch EXCEPT ![current_slot] = Served(found.data)]
     IN  /\ found.block_id # 0 /\ found.block_id = requested_block_id
         /\ value' = IF op = "READ" THEN found.data ELSE value
         /\ \E leaf \in LeafIds :
              /\ Randomize(requested_block_id, leaf)
              /\ \/ \E s \in Deepest(Free(b, SlotsShared(leaf))) :
                      /\ branch' = Swap(b, current_slot, s)
                      /\ UNCHANGED stash
                 \/ /\ Free(b, SlotsShared(leaf)) = {}
                    /\ stash' = Assign(stash, b[current_slot].block_id, b[current_slot].data)
                    /\ branch' = [b EXCEPT ![current_slot] = Dummy]
  /\ pc' = "send"
  /\ UNCHANGED <<key_to_block_id, connected, disk, call, result, leaf_id, progress>>

MoveOtherBlock ==
  /\ pc = "scan" /\ current_slot \in Slots
  /\ LET other == branch[current_slot]
         free  == Free(branch, LowestBucket(other.block_id))
     IN  /\ other.block_id \notin {0, requested_block_id}
         /\ Known(other.block_id)
         /\ \/ \E s \in Lowest(free) :
                 /\ branch' = Swap(branch, current_slot, s)
                 /\ UNCHANGED stash
            \/ /\ free = {}
               /\ stash' = Assign(stash, other.block_id, other.data)
               /\ branch' = [branch EXCEPT ![current_slot] = Dummy]
  /\ current_slot' = current_slot + 1
  /\ UNCHANGED <<key_to_block_id, position_map, connected, disk, pc, call, value,
                 result, leaf_id, unvisited, disclosed>>

EndScan ==
  /\ pc = "scan" /\ current_slot \notin Slots
  /\ unvisited' = DOMAIN stash
  /\ pc' = "stash"
  /\ UNCHANGED <<maps, connected, disk, call, value, result, transit, current_slot, disclosed>>

\* The stash is a hash map: its entries come in any order.
ServeFromStash ==
  /\ pc = "stash" /\ requested_block_id \in unvisited
  /\ LET id    == requested_block_id
         block == Served(stash[id])
     IN  \/ /\ op = "CLEAR"
            /\ stash' = Erase(stash, id)
            /\ UNCHANGED <<position_map, disclosed, value, branch>>
         \/ /\ op # "CLEAR"
            /\ value' = IF op = "READ" THEN stash[id] ELSE value
            /\ \E leaf \in LeafIds :
                 /\ Randomize(id, leaf)
                 /\ \/ \E s \in Deepest(Free(branch, SlotsShared(leaf))) :
                         /\ branch' = [branch EXCEPT ![s] = block]
                         /\ stash' = Erase(stash, id)
                    \/ /\ Free(branch, SlotsShared(leaf)) = {}
                       /\ stash' = Assign(stash, id, IF op = "READ" THEN stash[id] ELSE value)
                       /\ UNCHANGED branch
  /\ pc' = "send"
  /\ UNCHANGED <<key_to_block_id, connected, disk, call, result, leaf_id, progress>>

EvictsForever(id) == id = 0 /\ Known(id) /\ Free(branch, LowestBucket(id)) # {}

\* Having placed a block, the loop starts over with the same block (goto
\* RESTART): it is copied into every free slot of its bucket.  The entry is
\* erased when the loop is left; nothing looks at it in between.
EvictFromStash(id) ==
  /\ pc = "stash" /\ id \in unvisited \ {requested_block_id}
  /\ Known(id) /\ ~EvictsForever(id)
  /\ LET free == Free(branch, LowestBucket(id))
     IN  /\ branch' = [s \in Slots |-> IF s \in free THEN NewBlock(id, stash[id])
                                                     ELSE branch[s]]
         /\ stash' = IF free = {} THEN stash ELSE Erase(stash, id)
  /\ unvisited' = unvisited \ {id}
  /\ UNCHANGED <<key_to_block_id, position_map, connected, disk, pc, call, value,
                 result, leaf_id, current_slot, disclosed>>

EndStash_Early ==
  /\ pc = "stash" /\ requested_block_id \notin unvisited
  /\ pc' = "insert"
  /\ UNCHANGED <<maps, connected, disk, call, value, result, transit, progress, disclosed>>

EndStash ==
  /\ pc = "stash" /\ unvisited = {}
  /\ pc' = "insert"
  /\ UNCHANGED <<maps, connected, disk, call, value, result, transit, progress, disclosed>>

\* The block was nowhere: it is created, by put from the value, by get from
\* its zeroed buffer.
InsertBlock ==
  /\ pc = "insert" /\ op # "CLEAR"
  /\ \E leaf \in LeafIds :
       /\ Randomize(requested_block_id, leaf)
       /\ \/ \E s \in Deepest(Free(branch, SlotsShared(leaf))) :
               /\ branch' = [branch EXCEPT ![s] = NewBlock(requested_block_id, value)]
               /\ UNCHANGED stash
          \/ /\ Free(branch, SlotsShared(leaf)) = {}
             /\ stash' = Assign(stash, requested_block_id, value)
             /\ UNCHANGED branch
  /\ pc' = "send"
  /\ UNCHANGED <<key_to_block_id, connected, disk, call, value, result, leaf_id, progress>>

\* What ends the process: find_intersection_bucket of a block without a
\* known leaf is an index outside the branch (undefined behaviour); clear
\* passes a null buffer to the code that creates a block; a stash entry for
\* block id 0 fills a slot that stays free, over and over, until memory for
\* keys_to_remove runs out.
Crash ==
  /\ \/ /\ pc = "scan" /\ current_slot \in Slots
        /\ branch[current_slot].block_id \notin {0, requested_block_id}
        /\ ~Known(branch[current_slot].block_id)
     \/ /\ pc = "stash"
        /\ \E id \in unvisited \ {requested_block_id} :
             ~Known(id) \/ EvictsForever(id)
     \/ pc = "insert" /\ op = "CLEAR"
  /\ pc' = "crashed"
  /\ UNCHANGED <<maps, connected, disk, call, value, result, transit, progress, disclosed>>

-----------------------------------------------------------------------------
(***************************************************************************)
(* The branch goes back, the server stores and confirms it, the call ends. *)
(***************************************************************************)

\* send_branch, receive_updated_blocks and send_branch_to_fdb: one
\* FoundationDB transaction writes all buckets of the branch.
CommitBranch ==
  /\ pc = "send"
  /\ tree' = WriteBranch(tree, leaf_id, branch)
  /\ pc' = "confirm"
  /\ UNCHANGED <<maps, connected, oram_state, call, value, result, transit, progress, disclosed>>

\* The request id came back: clear forgets the key, the maps are saved.
Confirm ==
  /\ pc = "confirm"
  /\ IF op = "CLEAR"
     THEN /\ position_map' = Erase(position_map, requested_block_id)
          /\ key_to_block_id' = Erase(key_to_block_id, key)
          /\ disclosed' = disclosed \ {requested_block_id}
     ELSE UNCHANGED <<position_map, key_to_block_id, disclosed>>
  /\ UNCHANGED <<stash, connected, tree>>
  /\ oram_state' = SavedMaps'
  /\ pc' = "idle"
  /\ EndOfCall

\* A call that did not get as far as a branch.
Return ==
  /\ pc = "done"
  /\ pc' = "idle"
  /\ EndOfCall
  /\ UNCHANGED <<maps, connected, disk, disclosed>>

-----------------------------------------------------------------------------
TraverseBranch ==
  \/ SkipFreeSlot \/ ServeFromBranch \/ MoveOtherBlock \/ EndScan
  \/ ServeFromStash \/ (\E id \in unvisited : EvictFromStash(id)) \/ EndStash
  \/ InsertBlock \/ Crash

\* The steps of a call, once made.
CallStep ==
  \/ PutNewKey \/ UseKnownKey \/ MissingKey
  \/ SendFails \/ RejectLeaf \/ FetchBranch
  \/ TraverseBranch
  \/ CommitBranch \/ Confirm \/ Return

Put(k, v) == Call("WRITE", k, v)
Get(k)    == Call("READ", k, NoData)
Clear(k)  == Call("CLEAR", k, NoData)

Next ==
  \/ \E k \in Keys, v \in Data : Put(k, v)
  \/ \E k \in Keys : Get(k) \/ Clear(k)
  \/ CallStep

Spec == Init /\ [][Next]_vars

\* Client, server and FoundationDB keep running while a call is in progress.
FairSpec == Spec /\ WF_vars(CallStep)

-----------------------------------------------------------------------------
(***************************************************************************)
(* Correctness.                                                            *)
(***************************************************************************)
IsMap(m, S, T) == DOMAIN m \subseteq S /\ m \in [DOMAIN m -> T]

MapsOK(m) ==
  /\ m = [key_to_block_id |-> m.key_to_block_id,
          position_map    |-> m.position_map,
          stash           |-> m.stash]
  /\ IsMap(m.key_to_block_id, Keys, BlockIds)
  /\ IsMap(m.position_map, BlockIds, LeafIds \cup {0})
  /\ IsMap(m.stash, BlockIds, Values)

Block == [block_id : BlockIds, data : Values]

\* Every variable holds a value of its type in the code.
TypeOK ==
  /\ MapsOK(SavedMaps)
  /\ MapsOK(oram_state)
  /\ connected \in BOOLEAN
  /\ tree \in [Buckets -> [Places -> Block]]
  /\ pc \in {"idle", "called", "fetch", "scan", "stash", "insert", "send",
             "confirm", "done", "crashed"}
  /\ op \in {"none", "READ", "WRITE", "CLEAR"}
  /\ key \in Keys \cup {NoData}
  /\ value \in Values
  /\ requested_block_id \in BlockIds
  /\ result \in {Ok, Failed}
  /\ leaf_id \in LeafIds \cup {0}
  /\ branch \in [Slots -> Block]
  /\ current_slot \in 0 .. TREE_LEVELS * BLOCKS_PER_BUCKET
  /\ unvisited \in SUBSET BlockIds
  /\ disclosed \in SUBSET BlockIds

\* What a place of the tree will hold once the branch in transit is back.
LiveBlock(b, k) ==
  IF pc \in {"scan", "stash", "insert", "send"} /\ b \in Branch(leaf_id)
  THEN branch[Len(b) * BLOCKS_PER_BUCKET + k]
  ELSE tree[b][k]

CopiesInTree(id) == {p \in Buckets \X Places : LiveBlock(p[1], p[2]).block_id = id}
Present(id)      == id \in DOMAIN stash \/ CopiesInTree(id) # {}

\* A block is in at most one place: one slot of the tree, or the stash.
\* Copies that traverse_branch leaves behind would be read as stale data.
OneCopy ==
  \A id \in BlockIds \ {0} :
    /\ \A p, q \in CopiesInTree(id) : p = q
    /\ id \in DOMAIN stash => CopiesInTree(id) = {}

\* The Path ORAM invariant: a block in the tree lies on the branch of the
\* leaf its position_map entry names, so fetching that branch finds it.
BlocksOnTheirPath ==
  \A b \in Buckets, k \in Places :
    LET id == LiveBlock(b, k).block_id
    IN  id # 0 => Known(id) /\ b \in Branch(position_map[id])

\* Different keys have different blocks, and the block ids in use are those
\* with a position: put's search for a free id and clear's erasures agree.
KeysHaveTheirOwnBlocks ==
  /\ \A k1, k2 \in DOMAIN key_to_block_id :
       key_to_block_id[k1] = key_to_block_id[k2] => k1 = k2
  /\ DOMAIN position_map = {key_to_block_id[k] : k \in DOMAIN key_to_block_id}

\* No block is lost: between calls every key's block is somewhere, and
\* nothing else is.
NoBlockLost ==
  pc = "idle" => {id \in BlockIds \ {0} : Present(id)} = DOMAIN position_map

\* When the walk over the stash has ended, every block left there found its
\* lowest bucket full.
EvictionIsGreedy ==
  pc = "insert" => \A id \in DOMAIN stash : Free(branch, LowestBucket(id)) = {}

\* clear() "ensures the block is removed from the server storage": once the
\* server has confirmed, no copy of the block is left there or in the stash.
ClearRemovesBlock ==
  pc = "confirm" /\ op = "CLEAR" => ~Present(requested_block_id)

\* The process never reads outside the branch, dereferences null or loops.
NeverCrashes == pc # "crashed"

\* Obliviousness: the leaf a call sends is one the server has not been sent
\* for this block; the block got a new random leaf since it was last accessed
\* ("everytime a block is accessed, its position in the path is randomized").
NoLeafSentTwice ==
  pc = "fetch" /\ connected => requested_block_id \notin disclosed

\* put gives a new key an id that no other block has, as long as the width
\* of blkid_t leaves one.
FreshIdWhileOneIsLeft ==
  [][\A k \in DOMAIN key_to_block_id' \ DOMAIN key_to_block_id :
       LET left == (BlockIds \ {0}) \ DOMAIN position_map
       IN  left # {} => key_to_block_id'[k] \in left]_vars

\* The value a key's block holds, wherever the block is.
ValueOf(id) ==
  IF id \in DOMAIN stash
  THEN stash[id]
  ELSE LET p == CHOOSE p \in CopiesInTree(id) : TRUE IN LiveBlock(p[1], p[2]).data

\* put() "adds a new block or updates an existing block with the given key
\* and value": when it is about to return 0, the key's block holds the value.
PutStores ==
  pc = "confirm" /\ op = "WRITE" =>
    /\ requested_block_id # 0 /\ Present(requested_block_id)
    /\ ValueOf(requested_block_id) = value

(***************************************************************************)
(* The client implements the key-value store.  A key is stored while its   *)
(* block is present; a call takes effect when its block is served.         *)
(***************************************************************************)
Contents ==
  [k \in {k \in DOMAIN key_to_block_id : Present(key_to_block_id[k])}
     |-> ValueOf(key_to_block_id[k])]

Clients == {"application"}

KVCall ==
  LET req == [op    |-> op,
              key   |-> key,
              value |-> IF op = "WRITE" THEN value ELSE NoData]
      returning(r) == [op |-> "returning", request |-> req, result |-> r]
  IN  CASE pc = "idle" -> [op |-> "none"]
        [] pc \in {"called", "fetch", "scan", "stash", "insert"} ->
             [op |-> "pending", request |-> req]
        [] pc \in {"send", "confirm"} ->
             returning(IF op = "READ" THEN value ELSE Ok)
        [] pc \in {"done", "crashed"} -> returning(result)

KV == INSTANCE KVStore WITH
        store <- Contents, call <- [c \in Clients |-> KVCall]

ImplementsKVStore == KV!Spec

\* Every call returns.
CallsReturn == pc = "called" ~> pc = "idle"
=============================================================================
