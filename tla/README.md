# Path ORAM over FoundationDB: specifications, model checking and proofs

The program keeps a key-value store whose server cannot tell which key is
accessed. A client library (`src/src/single_client.cpp`) runs the Path ORAM
algorithm; a server (`src/src/server.cpp`) keeps a binary tree of encrypted
buckets in FoundationDB and hands out one root-to-leaf branch per request. A
master client (`src/src/master_client.cpp`) shares one such client among many
(`src/src/multiclient.cpp`).

This directory holds TLA+ modules translated from that code, the TLC runs that
check them on small instances, and theorems proved with TLAPS for all
instances. `PROJECT.json` lists components, runs, findings, hazards and
theorems, and maps every definition to the source lines it stands for.

## 1. The system

| component | state | operations | talks to |
|---|---|---|---|
| **Client** `SingleClient` | `key_to_block_id`, `position_map` (block id to leaf), `stash` (block id to data), the socket, the branch in hand | `initialize`, `put`, `get`, `clear`, `read_range`, `clear_range`, `shutdown`, destructor | server, over TCP; `.oram_state` |
| **State file** `.oram_state` | the three maps | written by `store_state` after every confirmed call and by the destructor, read by `initialize` | client |
| **Server** `server.cpp` | current socket, transaction `tr` and future `status` (globals), initialised flag | accept, `setup_fdb`, then per request: request id, leaf, branch out, branch in, commit, acknowledgement; `close_connection` | one client at a time; FoundationDB |
| **Bucket tree** in FoundationDB | `2^TREE_LEVELS - 1` buckets of `BLOCKS_PER_BUCKET` blocks, and the initialised flag | one read transaction per bucket, one write transaction per branch | server |
| **Block** `block.h`, `block.cpp` | block id (0 = free slot) and data, encrypted or not | `swap`, `encrypt`, `decrypt` | |
| **Master client** | one `SingleClient`, one accepted socket | READ, WRITE, CLEAR, READ_RANGE, CLEAR_RANGE, one request per connection | multi clients, client |
| **Multi client** | a connection per call | the same five operations | master client |
| `clear_fdb`, `make clear` | | clears the initialised flag | FoundationDB |

A call of `put`, `get` or `clear` (section *Path ORAM* of `src/README.md`):

1. look the key up; `put` gives a new key the lowest free block id and a random leaf;
2. send a request id and the block's leaf; the server answers with the branch of that leaf;
3. `traverse_branch`: walk over the slots; move every other block to a free slot of the
   lowest bucket its own path shares with the branch, or to the stash; serve the requested
   block where it is met, draw a new leaf for it and put it into the deepest free slot its
   old and new paths share, or into the stash; if the slots end without it, walk over the
   stash (evicting what fits) and, if it is not there either, create it;
4. send the branch back; the server commits it and echoes the request id;
5. `clear` forgets the key; the maps are saved.

What is hard about it:

- *Placement.* One call moves many blocks, and a mistake shows up many calls later, when a
  branch is fetched that should hold a block and does not, or holds two. Correctness needs the
  tree to be nearly full and the stash in use, which unit tests do not reach.
- *Order.* The stash is an unordered map and the walk over it is cut short by the requested block.
- *Limits.* Block ids wrap at the width of `blkid_t`; id 0 doubles as "free slot"; leaf 0 as "no leaf".
- *Bit tricks twice.* Server and client each derive bucket positions from a leaf with their own
  shifts on a wrapping integer.
- *Failure.* The server commits before the client saves; the maps change before the branch is
  sent; the state file is truncated and rewritten; the handshake sends a flag twice;
  `close_connection` leaves dangling pointers.

What makes each component correct:

- client: every block is in exactly one place and on its own path; keys have blocks of their
  own; the calls behave like a key-value store; every leaf the server sees is fresh; calls return;
- tree: both ends agree on which bucket is which;
- server: a branch is replaced as a whole, and acknowledged only then; the byte stream stays in step;
- state file: after a restart the maps match the tree;
- master: each client gets the answer to its own request, and one client's failure hurts no other.

## 2. Modules

| module | models | state and actions |
|---|---|---|
| `OramTree` | geometry of the tree: branches, `find_intersection_bucket`, reading and writing a branch | no state. A bucket is named by the turns from the root to it; a branch in transit is the flat vector of slots the code sends |
| `BranchIndex` | the loops of `get_branch_indexes` and `find_intersection_bucket`, bit by bit, in `IdBits` bits | the loops' locals; one action per statement group |
| `PathOram` | one client and the server's request handling, over a connection that loses nothing | variables named as in the code; `pc` is where the call is (below) |
| `KVStore` | what the library promises: a store in which every call takes effect at one instant | `store`, `call`; `Invoke`, `Effect`, `Return` |
| `MCPathOram` | `PathOram` for TLC | symmetry over keys and values |
| `OramWire` | client processes, one after the other, the server, the two byte streams of each connection, FoundationDB, `.oram_state` | tables below |
| `StoreCalls` | requests, results and what they do to a function from keys to values | no state |
| `SharedStore` | what the master client promises to all multi clients: one store, each call effective at one instant or, when it returns -1, perhaps not at all | `store`, `call`; `Invoke`, `TakeEffect`, `Return`, `Fail`, `Forget` |
| `MasterClient` | the calls of multi clients, the master's loop, what its `SingleClient` does; implements `SharedStore` | tables below |
| `MCMasterClient` | `MasterClient` for TLC | the requests |
| `NoFdb` | the benchmarks' baseline: `no_fdb_client`, `no_fdb_server` | one action per message |
| `OramTreeProofs` | facts about `OramTree` | theorem `IntersectionBucket` and lemmas |
| `BranchIndexProofs` | theorems about both loops, for every width and depth | see section 4 |
| `PathOramProofs` | theorems about `PathOram` for all parameters | see section 4 |
| `PathOramPlacement` | theorems about where the blocks are | see section 4 |
| `PathOramRefinement` | `PathOram` implements `KVStore` | see section 4 |
| `OramWireProofs` | theorems about the protocol, the flag, what is written to the tree and the state file | see section 4 |
| `StoreCallsProofs` | lemmas about requests, results and their effects | used by the next one |
| `MasterClientProofs` | theorems about the master, and that it implements `SharedStore` | see section 4 |

`PathOram` against the code. The program counter `pc` goes through

    idle -> called -> fetch -> scan -> stash -> insert -> send -> confirm -> idle
                  \-> done -> idle                     (calls that never get a branch)
                           traversal -> crashed        (undefined behaviour)

| action | code |
|---|---|
| `Put`, `Get`, `Clear` | the application calls the library |
| `PutNewKey`, `UseKnownKey`, `MissingKey` | opening of `put`, `get`, `clear` |
| `FetchBranch`, `RejectLeaf`, `SendFails` | `fetch_branch` with the server's side of it |
| `SkipFreeSlot`, `ServeFromBranch`, `MoveOtherBlock`, `EndScan` | first loop of `traverse_branch`, one slot per step |
| `ServeFromStash`, `EvictFromStash`, `EndStash` | second loop, one stash entry per step, in any order |
| `InsertBlock` | last part of `traverse_branch` |
| `Crash` | index outside the branch, null buffer, endless restart |
| `CommitBranch` | `send_branch`, `receive_updated_blocks`, `send_branch_to_fdb` |
| `Confirm`, `Return` | end of the call; `store_state` |

`disclosed` is a history variable: the blocks whose present leaf the server has
been sent. A random draw is a choice of any leaf. Encryption and the random
filler of free slots are left out: no property tells them apart, and a free
slot's data is never read. The server's six steps between the leaf and the
acknowledgement are two actions here because nobody else acts in between: the
server handles one connection at a time and nothing else writes the tree.
`Crash` stops the process: reading far outside the vector is undefined
behaviour, and nothing is claimed of what follows.

`OramWire` against the code. `PathOram` says what a call does to the blocks; here the maps, a
branch, the tree and the state file are version numbers, and equal numbers describe each other.
In return every message is there, and everything that can be lost.

| action | code |
|---|---|
| `Connect`, `InitializeFails` | `SingleClient::initialize` up to the maps (`Connect` loads them; a failure before that leaves them empty) |
| `ReceiveFlag`, `UploadBucket`, `ReceiveSecondFlag`, `HandshakeFails` | the rest of `initialize` |
| `SendRequest`, `SendLeaf`, `ReceiveNum`, `ReceiveBlocks`, `SendBranch`, `ReceiveConfirmation`, `CallFails` | `put`, `get`, `clear` with `fetch_branch` and `send_branch`; `ReceiveBlocks` includes `traverse_branch`, which is when the maps change |
| `Truncate`, `Write` | `store_state`, of a call or of the destructor |
| `Shutdown`, `Quit`, `Crash` | `shutdown`, the destructor, a kill or SIGPIPE |
| `Accept`, `SendFlag`, `ReceiveBucket`, `CommitTree`, `SetFlag`, `Announce`, `SetupFails`, `SetupFdbFails` | `accept`, `setup_fdb`; a failure, of the client or of FoundationDB where it is accessed, ends the process |
| `ReceiveRequest`, `ReceiveLeaf`, `SendNum`, `SendBranchToClient`, `ReceiveUpdatedBlocks`, `CommitBranch`, `Acknowledge` | the request loop of `main` |
| `ClientDisconnected`, `ClientGone`, `FdbFails`, `CloseConnection` | its `goto LISTEN` and `continue`; after `close_connection` the loop goes on to `recv` on the closed socket, fails and closes again |
| `ServerKilled`, `Restart`, `ClearFdb` | a kill or SIGPIPE, a new process, `make clear` |

`fresh` (the clients that found the store empty) and `mishaps` are history.
Streams: a connection delivers what was sent in order, a `send` arrives as a whole, except that
`num_blocks` is two tokens, because a `recv` without `MSG_WAITALL` can meet it in part. What was
sent to an end that is closed is lost; an end that closes loses what it has not read. A commit that
reports an error may or may not have taken place.

`MasterClient` against the code. `SingleClient` appears as `oram` shows it to be: a store whose
calls take effect at one instant.

| action | code |
|---|---|
| `Connect`, `SendPart` | `send_request`, `send_key`, the value |
| `ReceiveNumber`, `ReceiveValue`, `ReceiveConfirmation`, `CallFails` | `read_range`, `get`, `confirm_request`, and the `close` of every failure |
| `CallerKilled`, `NextCall` | the application is killed; goes on to its next call (with a new socket) |
| `Accept`, `ReceivePart`, `ReceiveFails` | `accept`, `receive_request`, `receive_key`, the value; any `recv` may return a piece of what it asked for, which drops the request |
| `Put`, `Get`, `GetUnknownKey`, `Clear`, `ClearUnknownKey`, `GetNext`, `EndOfRange` | the cases of the `switch` with the call of `SingleClient` in them; `read_range` key by key |
| `SingleClientFails` | its connection breaks: -1 with or without effect, or SIGPIPE |
| `TalkToCaller`, `NoNum`, `Misread` | the next calls after that: `SingleClient` has closed its descriptor but keeps the number, `accept` hands the same number to the next multi client, and the request id and leaf go to that one. A `read_range` that is waiting for its four-byte number takes them for it (with a `blkid_t` of two bytes or more) |
| `SendNumber`, `SendValue`, `SendValueFails`, `Confirm`, `Disconnect` | the answer and the end of the request; `SendValueFails` is the `continue` that stays in the inner loop |
| `MasterKilled` | a kill or SIGPIPE |

The first part of a request is id, operation and first key, the second another key or the value.
The refinement mapping (`CallState`) lets a call be "answered" from the moment `SingleClient` has
done it, whether or not the answer arrives.

A definition with an underscore and a word in its name (`Erase_Keeps`) is a
plausible bug, kept next to the definition it would replace. No action uses it;
`PROJECT.json` ("mutants") says which property it breaks.

## 3. Runs

`tlc -config X.cfg M` in this directory.

| run | instance | shows |
|---|---|---|
| `oram` | 2 levels, 1 slot per bucket, 3 keys, 2 values, ids modulo 4 | with the default bucket size, and an id for every key: one copy of every block, on its own path, none lost, keys apart, eviction as far as possible, `clear` complete, no undefined behaviour, fresh leaves, and the whole client refines `KVStore` |
| `oram_deep` | 3 levels, 1 slot, 2 keys, 1 value | branches that part in the middle, buckets off the fetched branch; every call returns |
| `oram_full` | 2 levels, 4 keys, ids modulo 3 | more keys than ids: wrap-around, refused leaf, closed connection, crash. Types, fresh leaves and fresh ids survive |
| `branch_index` | 8 levels, 1 slot, ids of 8 bits | every leaf and pair of leaves of the deepest tree an 8-bit `blkid_t` can number |
| `wire` | 2 client processes, 3 buckets in batches of 2, branches of 2 blocks, 2 calls, 1 restart of the server, 1 `make clear` | the server takes no message for another one, nor does a client that found the store empty; the flag is set only on a finished tree; a confirmed call's branch is in the tree; no branch but that of the last traversal is ever written while the flag is set; the state file describes the tree unless one of four named mishaps has happened; the server is freed when its client goes, `initialize` returns, a call of a client that found the store empty returns |
| `wire_reconnect` | the same | violation: a client that reconnects is out of step (finding 3) |
| `wire_state_file` | the same without `make clear` | violation: a state file ahead of the tree (finding 4) |
| `master` | 2 overlapping calls, 2 keys, 2 values, the five operations | refines `SharedStore`; the master knows exactly the keys that are stored; every call returns, one exception named |
| `master_clear_range` | the same | violation: `clear_range` clears one key (finding 5) |
| `no_fdb` | 2 keys | violation: a `put` of the baseline never returns (finding 6) |
| `oram_wide_clear` | 2 levels, 2 slots | violation: `clear` leaves a copy behind (finding 1) |
| `oram_full_put` | 2 levels, 4 keys, ids modulo 4 | violation: a `put` that returns 0 stores nothing (finding 2) |

Bounds, and why they are enough:

- `oram`: three buckets for three blocks, but a branch has two slots, so blocks compete for
  slots, the stash is in use and grows beyond one entry, and `clear` and `put` recycle
  ids. Three ids are the least for which a freed id lies below one in use and another is free.
- `oram_deep`: three levels are the least for which an intersection bucket is neither the
  root nor the leaf.
- `oram_full`: modulo 3 is the least modulus with two usable ids, so that ids are both
  fresh and used up; the fourth key repeats an id. Nothing that `PathOram` models depends on
  the modulus being a power of two; the shifts of `BranchIndex` do, whose constant is therefore the width.
- `branch_index`: the arithmetic is checked at the real width of the smallest `blkid_t`,
  with the largest number of levels the compile-time checks of `block.h` admit there.

- `wire`: a client process to set up the tree and one to come back to it; a process that could
  not finish the upload is followed by one that must do it again. A batch is committed before the
  upload ends and one with its end. Two traversals make "one ahead" and "equal" different, and one restart lets
  a client outlive the server it talked to. `num_blocks` is one byte of value and one of zero: that is
  enough to shift the stream by one.
- `master`: calls never run out (a finished call's place is used again), so histories are
  unbounded; two at a time are enough for one to be served while the other is waiting, gone or
  sending; two keys make a range that a write can change in the middle.

Fairness. `oram_deep` assumes `WF_vars(CallStep)`: once the application has made a call, the
client's thread, the server's thread and FoundationDB continue until it returns. They
block only on each other, on a connection that loses nothing. The application need not call
at all. `wire` assumes `WF` of the server's steps together and of each client's steps once it has
begun `initialize`, a call or the destructor: each process is a sequential program that the
operating system runs, and its only step is enabled until it is taken. That a `send` or `recv` fails once the peer
has gone is such a step. Failed accesses to FoundationDB, kills, restarts and new calls are not assumed to happen, and
none of them helps a server out of a `recv` it blocks in. `master` assumes the same of the master and of every call; that
`SingleClient`'s calls return there is `CallsReturn` of `wire`, since the master found the store empty.
`no_fdb` assumes `WF` of both ends' steps. `branch_index` assumes weak fairness of the loop's next statement.

Where deadlock checking is off, the system may stop: a crashed process (`oram_full`), a
function that returned (`branch_index`), bounds used up and every process ended (`wire`), the
master dead or talking to a caller that waits for it (`master`).

### Findings

1. *Duplicated blocks.* `traverse_branch` evicts a block from the stash into a free slot and
   jumps to `RESTART` with the same entry (`single_client.cpp:562`): with
   `BLOCKS_PER_BUCKET` of 2 or more the block fills every free slot of that bucket. `README.md:115`
   promises that `clear()` "ensures the block is removed from the server storage"; a copy stays.
   With the same instance TLC also refutes `OneCopy`, `BlocksOnTheirPath`, `NoBlockLost` and
   `NeverCrashes`. With one slot per bucket, the default (`README.md:41`), all of them hold.
2. *Block id 0.* The new id is a counter converted to `blkid_t` (`single_client.cpp:199`). When
   every id is in use it becomes 0, the mark of a free slot: `put` returns 0 and the value
   is gone, against `README.md:113`. The next key gets an id that another key has.
3. *A flag too many.* `setup_fdb` sends the flag at `server.cpp:295` and again at `:398`; a client of an
   initialised store reads one. From then on the stream is one byte out of step: `num_blocks`
   becomes a multiple of 256 plus one and the first call of every process but the first waits for blocks
   that never come, while the server waits for the branch. `README.md:128` describes the message
   that is misread.
4. *Maps saved after a failed call.* `traverse_branch` changes the maps before the branch is sent; when the call
   then fails the destructor saves them all the same (`single_client.cpp:186`), against
   `README.md:134` ("on a successful operation"). Other ways for file and tree to part, all found with
   `FileDescribesTree`: a kill between the server's commit and the end of `store_state`, an `initialize`
   that fails before it loads the file (the destructor then truncates it), `make clear`.
5. *clear_range.* `multiclient.cpp:162` sends CLEAR. The master clears the first key and confirms.
6. *The baseline.* `no_fdb_server.cpp:116` and `:195` receive the confirmation that the client waits for too.

Met while modelling and kept in the model, without a finding of their own because no text of the repository
speaks of them: the reuse of `SingleClient`'s descriptor (`TalkToCaller`, with its mutual wait
`Misread`), the descriptor the server never closes, the second destruction of `tr` and `status` after a failed FoundationDB access
(`server.cpp:549-552`: `close_connection`, `continue`, a `recv` that fails, `close_connection` again; undefined behaviour, which
`OramWire` lets end the server, as `ServerKilled`, or pass without effect).

## 4. Theorems

All in TLAPS, for every value of the constants. The assumptions are the compile-time checks
of `block.h` (at least two levels, at least one slot, a `blkid_t` that numbers every block of the tree, or,
where only that matters, one with at least two values), that bounds and sizes are natural numbers, that
`None` is not a value of the store, and that the requests of `MasterClient` are requests of its keys and
values. TLC evaluates each of them on the runs.

| theorem | statement | argument |
|---|---|---|
| `IntersectionBucket` | `find_intersection_bucket` is a level, and two branches share exactly the buckets down to it | the shared levels are closed upwards in the tree and contain the root; a nonempty set of levels has a greatest one |
| `ServerNamesTheBranch`, `ClientFindsLowestBucket`, `NoLevelWithoutLeaf` | `IndexesNameTheBranch`, `IntersectionIsLowest`, `MissingLeafIsOutside` of `BranchIndex` always hold, for every depth, bucket size and width | below, *The two loops* |
| `TypeCorrect` | `Spec => []TypeOK` | `TypeOK` alone is not inductive: `put` stores under the key of the call, and the walk over the stash reads entries not yet visited. `TypeInv` adds that a call in progress has a key and an operation, and that unvisited entries are in the stash |
| `LeavesAreFresh` | `Spec => []NoLeafSentTwice` | `DisclosedInv`: while connected, the only block whose leaf the server knows is the one being accessed, between sending the leaf and drawing a new one or forgetting the block. No type is needed, and no restriction: finding 1 does not break obliviousness in this sense |
| `NoRoomLeft` | `Spec => []EvictionIsGreedy` | `GreedyInv` says it of the entries the walk has passed already: each found its lowest bucket full, and no later step of the walk empties a slot |
| `FreshIds` | `Spec => FreshIdWhileOneIsLeft` | the ids below the search index are all taken; were the index to pass the largest id, or to be one more than the number of ids in use while some id is free, counting would give a contradiction |
| `KeysAreSeparate` | `Cardinality(Keys) < IdModulus` implies `Spec => []KeysHaveTheirOwnBlocks` | `KeyInv` adds that every block in use has a leaf (so the server never refuses one) and that the requested block is the key's; a new key leaves an id free by counting |
| `OneCopyOfEachBlock`, `BlocksStayOnTheirPath`, `BlocksAreNeverLost`, `ClearedBlocksAreGone`, `ClientNeverCrashes` | with one slot per bucket and `Cardinality(Keys) < IdModulus`: `OneCopy`, `BlocksOnTheirPath`, `NoBlockLost`, `ClearRemovesBlock`, `NeverCrashes` always hold | all from `PlaceInv`, below |
| `ClientImplementsKVStore` | under the same conditions `Spec => ImplementsKVStore` | below, *The client is a store* |
| `TypeCorrect` of `OramWire`, `NothingIsMistaken`, `ConfirmationFollowsCommit` | `TypeOK`, `MessagesStayInStep`, `ConfirmedIsCommitted` always hold, for any number of processes, restarts, resets, buckets and blocks | below, *The protocol* |
| `FileStaysTrue` | `Spec => []FileDescribesTreeUnlessMishap` | `FileInv`, below |
| `FlagNeverEarly` | `Spec => []FlagMeansTree` of `OramWire`, for any number of clients, kills, restarts and resets | `FlagInv`: what clients send are numbers, so no branch that is committed is an unfinished tree; the batches of an upload are committed only while the flag is not set, and the flag only after the last of them. That the first is inductive takes the type of the streams and `maps \in Nat` of a client about to send |
| `OnlyTheNewest` | `Spec => NewestIsWritten` of `OramWire` | `NewestInv`, relative to `ProtocolInv`: a client about to send its branch, the branch in the stream of a server that waits for it and the branch a server is about to write are all those of the last traversal. While the last two exist nobody can traverse, because the server lets no other client in |
| `KeysAlwaysMatch` | `Spec => []KeysMatchStore` of `MasterClient`, for any number of calls | inductive by itself: a call of `SingleClient` that fails may have entered its key without storing, or stored, never stored without entering, and it closes the descriptor, after which knowing more keys than are stored is allowed |
| `TypeCorrect` of `MasterClient`, `MasterImplementsSharedStore` | `Spec => []TypeOK`, `Spec => ImplementsSharedStore`, for any number of multi clients and any requests | below, *The shared store* |

The condition on the bucket size is the code's: finding 1 is a counterexample for wider buckets.
So is the condition on the number of keys: finding 2.

`PlaceInv` (module `PathOramPlacement`). While a branch is in transit the server's copy of it is
stale, so the invariant is about `Live`, the block id each bucket will hold once the branch is
back. It says that the ids in `Live` and the stash are pairwise distinct, have leaves, and that
those in `Live` lie on their leaves' branches (`Placed`); and that the only block with a leaf that may
be in neither is the one being created or forgotten (`Missing`). That is not inductive alone. `Progress`
adds what the loops of `traverse_branch` have established: the slots passed by the first loop are free
(hence a block that is moved goes to a deeper slot and leaves the passed ones free, and `clear`, which
empties the block's slot before it looks for another, always finds a free one); after the first loop the requested block is not on the branch, hence, being on its
path, in no bucket at all; after the second it is not in the stash either. So the block that
`InsertBlock` creates was nowhere, and `clear` never gets there. Each action is then one of a few
elementary moves (take from the tree, take from the stash, draw a leaf for a block that is nowhere,
put into a free bucket of its path, put into the stash), each a lemma of its own; that a move's
target is on the block's path is `IntersectionBucket`.

*The two loops* (`BranchIndexProofs`). `ServerInv`: before round `i` the bits `i` to `TREE_LEVELS - 2` of
`leaf_id` are the lowest bits of the leaf (those the mask can still meet; what the shift pushed out at the
top does not matter), `tree_idx` is the number of the bucket that the turns so far lead to, and the vector
holds the numbers above it. `ClientInv`: after `k` rounds both leaves are shifted by `k`, `idx` is
`TREE_LEVELS - 1 - k` in the arithmetic of `blkid_t`, and the leaves were different at every round before. So at the
end `k` is the least shift that makes them equal; for two leaves this is the level where the branches
part (`SameBucket`), and with the wrapped leaf 0 it takes at least `TREE_LEVELS` rounds and fewer than `blkid_t` has
values, which leaves `idx` outside the branch. The provers know nothing of `2 ^ k`; that
`2 ^ (k + 1) = 2 * 2 ^ k` is proved by counting subsets, and what takes an induction (that powers grow, that
equal numbers stay equal when shifted, that `Number` exists and does not renumber) by looking at the least
counterexample.

*The client is a store* (`PathOramRefinement`). The abstract store is what `PathOram` says the keys'
blocks hold. `Somewhere` is the set of stored blocks in the buckets, the branch in transit and the stash;
`StoreInv` ties it to the abstract store. Steps that move blocks keep `Somewhere` (each elementary move of
`PlaceInv` does), so they are stutters. The step that serves the request (`ServeFromBranch`,
`ServeFromStash`, `InsertBlock`, or `MissingKey`) is `Effect`: it changes the requested block's value, or removes
it, and no other block. The conditions are those of `PlaceInv`, and for the same reasons.

*The protocol* (`OramWireProofs`). `ProtocolInv` is `TypeOK`, `LineInv` and `StreamInv`. `LineInv` says who may be
there: one process runs at a time, those who wait in the backlog before the last are gone, and nobody has
touched the stream of one who waits. `StreamInv` says, for the client being served, what its two
streams can hold for each place the client is at (`DownFits`), for each place the server is at
(`UpFits`), and which places go together (`InStep`): about thirty pairs, such as "the server is about to
commit: the client waits for the confirmation, nothing is on its way to it, and the branch in hand is the
client's maps". A client that did not find the store empty is one flag behind (finding 3, `Stray`): it
waits for `1 + 256 * BranchBlocks` blocks, more than are ever sent, so the server never gets a branch from it and
is not confused either. `FileInv`, relative to that, says whom the state file's number
describes: until a mishap, the maps of a running client equal the file except between `traverse_branch` and the end of
`store_state`, and there the maps describe what the server has committed.

*The shared store* (`MasterClientProofs`). `Inv` is `TypeOK`, `KeysMatchStore` and `ProtocolInv`, which says for each
call how far the exchange with the master has got: the tokens received, those on the way and those
still to be sent are one script (`InScript`: number of values, values, confirmation) of the result the
call has had; a call without a result has only got stray bytes from the reuse of the descriptor
(`NotDone`); and `RangeInv` says that a `READ_RANGE` in progress has collected the values of the keys below those left to do,
in a store that has not changed since. The step mapping: `Connect` is `Invoke`; `Put`, `Get`, `Clear`,
`ClearUnknownKey`, `EndOfRange` and a `SingleClient` call that fails are `TakeEffect` (with or without a change
of the store); `ReceiveConfirmation` is `Return`; `CallFails` is `Fail`; `NextCall` is `Forget`; every other step is a
stutter.

Model-checked only: liveness (`CallsReturn`, `ServerIsFreed`, `InitializeReturns`, `LoopsEnd`), which is out of the
prover's reach, and what the violation runs refute. Every safety property of a passing run is also a
theorem; those of `MCPathOram` and `MCMasterClient` are the ones of the modules they instantiate.

## 5. Plan

Done: all of `OramTree`, `KVStore`, `PathOram`, `BranchIndex`, `OramWire`, `SharedStore`,
`MasterClient`, `NoFdb`, and the theorems above. What is left, by weight:

1. The part of liveness that is not about fairness: that each step of a call lessens a natural number
   (slots not passed, stash entries not visited, messages not exchanged) and that no step of the other
   end or of the environment raises it, as action properties with proofs. `CallsReturn` and `LoopsEnd` then rest on
   fairness alone.
2. A second start of the master on a store that is not empty: by finding 3 its `SingleClient` is out of
   step at once, so nothing more than "every call fails or hangs" can be said until that is repaired.

## 6. Not modelled

- AES encryption, padding, and the random filler: data no property tells apart. That ciphertexts
  hide the contents is assumed, and so is a uniform random generator; the model only says that
  a leaf is drawn anew.
- The master's `CLEAR_RANGE` handler and `SingleClient::clear_range`. Nothing in the repository sends
  CLEAR_RANGE (finding 5), and the loop advances an iterator whose element `clear` has erased: what it does then
  is the allocator's affair, not the code's.
- `custom_init` of `initialize`: no program passes one.
- Failures of `socket`, `bind`, `listen`, `open` and of the network thread at the start of a process: it
  then ends before it has done anything. `InitializeFails` is the one with consequences.
- Formatting and debug output; the timing benchmarks (`fdb`, `medium_fdb`, `startup`, `without`), which keep no
  state; the command-line applications, which are the environment of `OramWire` and `MasterClient`.
- The attack scripts in `src/Attack`, an offline evaluation that shares no code with the system.
- FoundationDB itself, beyond atomic transactions that may report an error after they took effect.
- The undefined behaviour after an index outside the branch, and after `tr` or `status` has been destroyed twice.

Assumptions of `OramWire` and `MasterClient`: one client process at a time uses `.oram_state` (the
programs do not lock it); the master is started once, on an empty store and a running server; request
ids of multi clients differ from the bytes that reach them by mistake; a key that `clear_range` leaves unread is too short
to fill the eight bytes of a `num_blocks`; a connection breaks only when one end closes it or dies (no
`recv` has a timeout, so a host that vanishes holds the server for ever, and there is nothing to model about it).
