------------------------------ MODULE OramWire ------------------------------
(***************************************************************************)
(* Client processes, one after the other, the server's session loop, the   *)
(* byte streams between them, FoundationDB and the client's state file:    *)
(* accept, the initialisation handshake, the messages of a call, what      *)
(* either end does when the other is gone, failed FoundationDB             *)
(* transactions, crashes and restarts of both, and make clear.             *)
(*                                                                         *)
(* What a call does to the blocks is PathOram's subject.  Here maps (the   *)
(* three maps of SingleClient), a branch, the tree and the state file are  *)
(* numbers: n stands for the outcome of the n-th traversal, 0 for empty    *)
(* maps and for a tree of dummies.  Equal numbers describe each other.     *)
(* What put enters for a new key, and clear erases, names no block of any  *)
(* branch and leaves the number alone.                                     *)
(*                                                                         *)
(* A stream is a sequence of tokens: a flag, a request id, a leaf or a     *)
(* block is one token, the eight bytes of num_blocks are two digits.  What *)
(* is sent at once arrives at once.  A name with an underscore             *)
(* (Announce_Never) is a faulty variant no action uses.                    *)
(***************************************************************************)
EXTENDS Naturals, Sequences

CONSTANTS
  Clients,       \* client processes
  NoClient,
  Buckets,       \* BUCKETS_PER_TREE
  BatchBuckets,  \* buckets per transaction of the first upload
  BranchBlocks,  \* blocks of a branch
  Torn,          \* a state file that was cut short, or what was read from it
  Unfinished,    \* a tree of which not every bucket has been written
  MaxCalls,      \* bounds: traversals in all,
  MaxRestarts,   \* restarts of the server,
  MaxClears      \* and uses of make clear

ASSUME WireAssumption ==
  /\ Buckets \in Nat \ {0} /\ BatchBuckets \in Nat \ {0}
  /\ BranchBlocks \in Nat \ {0}
  /\ NoClient \notin Clients
  /\ Torn \notin Nat /\ Unfinished \notin Nat
  /\ MaxCalls \in Nat /\ MaxRestarts \in Nat /\ MaxClears \in Nat

VARIABLES
  \* each client process: where it is, blocks it still has to send or get
  client, expected,
  \* the maps of the running client and the file they are saved in
  maps, oram_state,
  \* each connection: its two streams and the ends that are still open
  up, down, ends,
  \* the server: where it is, whom it serves, who waits to be accepted, the
  \* buckets received in setup_fdb, and the branch received
  server, client_socket, backlog, uploaded, branch,
  \* FoundationDB: the tree and the initialised flag
  tree, fdb_is_initialized,
  \* history: who found the store empty, what has gone wrong
  fresh, mishaps,
  \* counters of the bounds
  traversals, restarts, clears

clientVars == <<client, expected, maps, oram_state>>
streams    == <<up, down, ends>>
serverVars == <<server, client_socket, backlog, uploaded, branch>>
fdb        == <<tree, fdb_is_initialized>>
history    == <<fresh, mishaps>>
counters   == <<traversals, restarts, clears>>
vars == <<clientVars, streams, serverVars, fdb, history, counters>>

-----------------------------------------------------------------------------
Flag(b)  == [kind |-> "flag",  value |-> IF b THEN 1 ELSE 0]
Id(i)    == [kind |-> "id",    value |-> i]
Leaf(i)  == [kind |-> "leaf",  value |-> i]
Digit(i) == [kind |-> "num",   value |-> i]
Block(n) == [kind |-> "block", value |-> n]

Blocks(n) == [i \in 1 .. BranchBlocks |-> Block(n)]

\* num_blocks, lowest byte first.
NumBlocks  == <<Digit(BranchBlocks), Digit(0)>>
Base       == 256
Number(s)  == s[1].value + Base * s[2].value

Drop(s, n) == SubSeq(s, n + 1, Len(s))

\* What is sent to an end that is closed is lost.
Send(end, c, s) ==
  IF end = "client"
  THEN /\ up' = [up EXCEPT ![c] = IF "server" \in ends[c] THEN @ \o s ELSE @]
       /\ UNCHANGED down
  ELSE /\ down' = [down EXCEPT ![c] = IF "client" \in ends[c] THEN @ \o s ELSE @]
       /\ UNCHANGED up

Receive(end, c, n) ==
  IF end = "client"
  THEN Len(down[c]) >= n /\ down' = [down EXCEPT ![c] = Drop(@, n)] /\ UNCHANGED up
  ELSE Len(up[c]) >= n /\ up' = [up EXCEPT ![c] = Drop(@, n)] /\ UNCHANGED down

Running(c) == client[c] \notin {"out", "gone"}

Init ==
  /\ client = [c \in Clients |-> "out"] /\ expected = [c \in Clients |-> 0]
  /\ maps = 0 /\ oram_state = 0
  /\ up = [c \in Clients |-> <<>>] /\ down = [c \in Clients |-> <<>>]
  /\ ends = [c \in Clients |-> {}]
  /\ server = "listen" /\ client_socket = NoClient /\ backlog = <<>>
  /\ uploaded = 0 /\ branch = 0
  /\ tree = Unfinished /\ fdb_is_initialized = FALSE
  /\ fresh = {} /\ mishaps = {}
  /\ traversals = 0 /\ restarts = 0 /\ clears = 0

-----------------------------------------------------------------------------
(***************************************************************************)
(* SingleClient::initialize.  One process at a time uses the state file.   *)
(***************************************************************************)
Goto(c, place) == client' = [client EXCEPT ![c] = place]

\* The kernel completes the connection before the server accepts it.
Connect(c) ==
  /\ client[c] = "out" /\ \A d \in Clients : ~Running(d)
  /\ server # "down"
  /\ ends' = [ends EXCEPT ![c] = {"client", "server"}]
  /\ backlog' = Append(backlog, c)
  /\ maps' = oram_state
  /\ Goto(c, "flag")
  /\ UNCHANGED <<expected, oram_state, up, down, server, client_socket, uploaded,
                 branch, fdb, history, counters>>

\* No server, or no key file: initialize returns before it loads the maps.
InitializeFails(c) ==
  /\ client[c] = "out" /\ \A d \in Clients : ~Running(d)
  /\ maps' = 0
  /\ Goto(c, "unloaded")
  /\ UNCHANGED <<expected, oram_state, streams, serverVars, fdb, history, counters>>

ReceiveFlag(c) ==
  /\ client[c] = "flag"
  /\ Receive("client", c, 1)
  /\ IF Head(down[c]).value # 0
     THEN Goto(c, "ready") /\ UNCHANGED <<expected, fresh>>
     ELSE /\ Goto(c, "upload")
          /\ expected' = [expected EXCEPT ![c] = Buckets]
          /\ fresh' = fresh \cup {c}
  /\ UNCHANGED <<maps, oram_state, ends, serverVars, fdb, mishaps, counters>>

UploadBucket_OneMore(c) ==
  /\ client[c] = "upload"
  /\ Send("client", c, <<Block(0)>>)
  /\ expected' = [expected EXCEPT ![c] = @ - 1]
  /\ Goto(c, IF expected[c] = 0 THEN "uploaded" ELSE "upload")
  /\ UNCHANGED <<maps, oram_state, ends, serverVars, fdb, history, counters>>

\* One bucket of encrypted dummies.
UploadBucket(c) ==
  /\ client[c] = "upload" /\ expected[c] > 0
  /\ Send("client", c, <<Block(0)>>)
  /\ expected' = [expected EXCEPT ![c] = @ - 1]
  /\ Goto(c, IF expected[c] = 1 THEN "uploaded" ELSE "upload")
  /\ UNCHANGED <<maps, oram_state, ends, serverVars, fdb, history, counters>>

ReceiveSecondFlag(c) ==
  /\ client[c] = "uploaded"
  /\ Receive("client", c, 1)
  /\ Goto(c, IF Head(down[c]).value # 0 THEN "ready" ELSE "unusable")
  /\ UNCHANGED <<expected, maps, oram_state, ends, serverVars, fdb, history, counters>>

-----------------------------------------------------------------------------
(***************************************************************************)
(* A call of put, get or clear.                                            *)
(***************************************************************************)
SendRequest(c) ==
  /\ client[c] = "ready" /\ traversals < MaxCalls
  /\ Send("client", c, <<Id(1)>>)
  /\ Goto(c, "leaf")
  /\ UNCHANGED <<expected, maps, oram_state, ends, serverVars, fdb, history, counters>>

\* Leaf 0 stands for one the server refuses (PathOram!RejectLeaf).
SendLeaf(c) ==
  /\ client[c] = "leaf"
  /\ \E leaf \in {0, 1} : Send("client", c, <<Leaf(leaf)>>)
  /\ Goto(c, "num")
  /\ UNCHANGED <<expected, maps, oram_state, ends, serverVars, fdb, history, counters>>

\* recv takes what there is, up to eight bytes.
ReceiveNum(c) ==
  /\ client[c] = "num"
  /\ Receive("client", c, 2)
  /\ expected' = [expected EXCEPT ![c] = Number(down[c])]
  /\ Goto(c, "blocks")
  /\ UNCHANGED <<maps, oram_state, ends, serverVars, fdb, history, counters>>

\* The blocks arrive, traverse_branch changes the maps and the branch.
ReceiveBlocks(c) ==
  /\ client[c] = "blocks"
  /\ Receive("client", c, expected[c])
  /\ traversals' = traversals + 1
  /\ maps' = traversals + 1
  /\ expected' = [expected EXCEPT ![c] = 0]
  /\ Goto(c, "send")
  /\ UNCHANGED <<oram_state, ends, serverVars, fdb, history, restarts, clears>>

SendBranch(c) ==
  /\ client[c] = "send"
  /\ Send("client", c, Blocks(maps))
  /\ Goto(c, "confirm")
  /\ UNCHANGED <<expected, maps, oram_state, ends, serverVars, fdb, history, counters>>

ReceiveConfirmation(c) ==
  /\ client[c] = "confirm"
  /\ Receive("client", c, 1)
  /\ Head(down[c]) = Id(1)
  /\ Goto(c, "save")
  /\ UNCHANGED <<expected, maps, oram_state, ends, serverVars, fdb, history, counters>>

\* store_state opens the file with O_TRUNC and then writes it.
Truncate(c) ==
  /\ client[c] \in {"save", "quitting"}
  /\ oram_state' = Torn
  /\ Goto(c, IF client[c] = "save" THEN "write" ELSE "last write")
  /\ UNCHANGED <<expected, maps, streams, serverVars, fdb, history, counters>>

Write_Forgets(c) ==
  /\ client[c] \in {"write", "last write"}
  /\ oram_state' = IF client[c] = "write" THEN traversals - 1 ELSE maps
  /\ maps' = IF client[c] = "write" THEN maps ELSE 0
  /\ Goto(c, IF client[c] = "write" THEN "ready" ELSE "gone")
  /\ UNCHANGED <<expected, streams, serverVars, fdb, history, counters>>

Write(c) ==
  /\ client[c] \in {"write", "last write"}
  /\ oram_state' = maps
  /\ maps' = IF client[c] = "write" THEN maps ELSE 0
  /\ Goto(c, IF client[c] = "write" THEN "ready" ELSE "gone")
  /\ UNCHANGED <<expected, streams, serverVars, fdb, history, counters>>

-----------------------------------------------------------------------------
(***************************************************************************)
(* How a client stops.                                                     *)
(***************************************************************************)
Mishap(m) == mishaps' = mishaps \cup {m}

\* What that end has not read is lost.
Close(end, c) ==
  /\ ends' = [ends EXCEPT ![c] = @ \ {end}]
  /\ IF end = "client"
     THEN down' = [down EXCEPT ![c] = <<>>] /\ UNCHANGED up
     ELSE up' = [up EXCEPT ![c] = <<>>] /\ UNCHANGED down

\* initialize returns -1 and leaves the socket as it is.
HandshakeFails(c) ==
  /\ client[c] \in {"flag", "upload", "uploaded"}
  /\ "server" \notin ends[c]
  /\ Goto(c, "unusable")
  /\ UNCHANGED <<expected, maps, oram_state, streams, serverVars, fdb, history, counters>>

\* A short read of num_blocks, or another id than the one sent.
Unexpected(c) ==
  \/ client[c] = "num" /\ Len(down[c]) = 1
  \/ client[c] = "confirm" /\ down[c] # <<>> /\ Head(down[c]) # Id(1)

\* The connection is lost, or what it brings is not what the call waits for:
\* the call closes the socket and returns -1, and so does every later one.
CallFails(c) ==
  /\ client[c] \in {"ready", "leaf", "num", "blocks", "send", "confirm"}
  /\ "server" \notin ends[c] \/ Unexpected(c)
  /\ IF client[c] \in {"send", "confirm"} THEN Mishap("call failed late") ELSE UNCHANGED mishaps
  /\ Close("client", c)
  /\ Goto(c, "unusable")
  /\ expected' = [expected EXCEPT ![c] = 0]
  /\ UNCHANGED <<maps, oram_state, serverVars, fdb, fresh, counters>>

\* shutdown: request id 0 tells the server to end.
Shutdown(c) ==
  /\ client[c] = "ready"
  /\ Send("client", c, <<Id(0)>>)
  /\ Goto(c, "shut down")
  /\ UNCHANGED <<expected, maps, oram_state, ends, serverVars, fdb, history, counters>>

\* The application ends.  The destructor closes the socket and saves the
\* maps, loaded or not.
Quit(c) ==
  /\ client[c] \in {"ready", "shut down", "unusable", "unloaded"}
  /\ IF client[c] = "unloaded" /\ oram_state # 0
     THEN Mishap("saved unloaded maps") ELSE UNCHANGED mishaps
  /\ Close("client", c)
  /\ Goto(c, "quitting")
  /\ UNCHANGED <<expected, maps, oram_state, serverVars, fdb, fresh, counters>>

\* The process is killed, for one by SIGPIPE when it sends to a server that
\* has closed the connection.
Crash(c) ==
  /\ Running(c)
  /\ IF client[c] \in {"confirm", "save", "write", "last write"}
     THEN Mishap("crash before the save") ELSE UNCHANGED mishaps
  /\ Close("client", c)
  /\ Goto(c, "gone")
  /\ maps' = 0 /\ expected' = [expected EXCEPT ![c] = 0]
  /\ UNCHANGED <<oram_state, serverVars, fdb, fresh, counters>>

-----------------------------------------------------------------------------
(***************************************************************************)
(* The server accepts a connection and sets up the tree (setup_fdb).       *)
(***************************************************************************)
Gone == "client" \notin ends[client_socket]

Accept ==
  /\ server = "listen" /\ backlog # <<>>
  /\ client_socket' = Head(backlog)
  /\ backlog' = Tail(backlog)
  /\ server' = "setup"
  /\ UNCHANGED <<clientVars, streams, uploaded, branch, fdb, history, counters>>

SendFlag ==
  /\ server = "setup"
  /\ Send("server", client_socket, <<Flag(fdb_is_initialized)>>)
  /\ uploaded' = 0
  /\ server' = IF fdb_is_initialized THEN "announce" ELSE "receive tree"
  /\ UNCHANGED <<clientVars, ends, client_socket, backlog, branch, fdb, history,
                 counters>>

ReceiveBucket_FlagFirst ==
  /\ server = "receive tree" /\ uploaded < Buckets
  /\ Receive("server", client_socket, 1)
  /\ uploaded' = uploaded + 1
  /\ IF uploaded' % BatchBuckets = 0
     THEN tree' = Unfinished /\ fdb_is_initialized' = TRUE
     ELSE UNCHANGED fdb
  /\ UNCHANGED <<clientVars, ends, server, client_socket, backlog, branch,
                 history, counters>>

\* A full batch is committed at once; the tree is a mixture from then on.
ReceiveBucket ==
  /\ server = "receive tree" /\ uploaded < Buckets
  /\ Receive("server", client_socket, 1)
  /\ uploaded' = uploaded + 1
  /\ tree' = IF uploaded' % BatchBuckets = 0 THEN Unfinished ELSE tree
  /\ UNCHANGED <<clientVars, ends, server, client_socket, backlog, branch,
                 fdb_is_initialized, history, counters>>

CommitTree ==
  /\ server = "receive tree" /\ uploaded = Buckets
  /\ tree' = 0 /\ uploaded' = 0
  /\ server' = "set flag"
  /\ UNCHANGED <<clientVars, streams, client_socket, backlog, branch,
                 fdb_is_initialized, history, counters>>

SetFlag_Announces ==
  /\ server = "set flag"
  /\ fdb_is_initialized' = TRUE
  /\ Send("server", client_socket, <<Flag(TRUE)>>)
  /\ server' = "announce"
  /\ UNCHANGED <<clientVars, ends, client_socket, backlog, uploaded, branch,
                 tree, history, counters>>

SetFlag ==
  /\ server = "set flag"
  /\ fdb_is_initialized' = TRUE
  /\ server' = "announce"
  /\ UNCHANGED <<clientVars, streams, client_socket, backlog, uploaded, branch,
                 tree, history, counters>>

Announce_Never ==
  /\ server = "announce"
  /\ server' = "request"
  /\ UNCHANGED <<clientVars, streams, client_socket, backlog, uploaded, branch,
                 fdb, history, counters>>

\* The flag goes out again, whether or not the tree has just been set up.
Announce ==
  /\ server = "announce"
  /\ Send("server", client_socket, <<Flag(TRUE)>>)
  /\ server' = "request"
  /\ UNCHANGED <<clientVars, ends, client_socket, backlog, uploaded, branch,
                 fdb, history, counters>>

-----------------------------------------------------------------------------
(***************************************************************************)
(* The server's request loop.                                              *)
(***************************************************************************)

\* All descriptors are closed, also those of clients not yet accepted.
Exit ==
  /\ server' = "down"
  /\ client_socket' = NoClient /\ backlog' = <<>>
  /\ uploaded' = 0 /\ branch' = 0
  /\ ends' = [c \in Clients |-> ends[c] \ {"server"}]
  /\ up' = [c \in Clients |-> <<>>]

ReceiveRequest ==
  /\ server = "request"
  /\ Len(up[client_socket]) >= 1
  /\ IF Head(up[client_socket]).value = 0
     THEN Exit /\ UNCHANGED down
     ELSE /\ Receive("server", client_socket, 1)
          /\ server' = "leaf"
          /\ UNCHANGED <<client_socket, backlog, uploaded, branch, ends>>
  /\ UNCHANGED <<clientVars, fdb, history, counters>>

\* recv returned 0: back to accept.  The descriptor is not closed.
ClientDisconnected ==
  /\ server = "request" /\ Gone /\ up[client_socket] = <<>>
  /\ server' = "listen" /\ client_socket' = NoClient
  /\ UNCHANGED <<clientVars, streams, backlog, uploaded, branch, fdb,
                 history, counters>>

ReceiveLeaf ==
  /\ server = "leaf"
  /\ Receive("server", client_socket, 1)
  /\ server' = IF Head(up[client_socket]).value = 0 THEN "closing" ELSE "num"
  /\ UNCHANGED <<clientVars, ends, client_socket, backlog, uploaded, branch,
                 fdb, history, counters>>

SendNum ==
  /\ server = "num"
  /\ Send("server", client_socket, NumBlocks)
  /\ server' = "branch"
  /\ UNCHANGED <<clientVars, ends, client_socket, backlog, uploaded, branch,
                 fdb, history, counters>>

\* get_branch_from_fdb and send_branch_to_client.
SendBranchToClient ==
  /\ server = "branch"
  /\ Send("server", client_socket, Blocks(tree))
  /\ server' = "receive"
  /\ UNCHANGED <<clientVars, ends, client_socket, backlog, uploaded, branch, fdb,
                 history, counters>>

ReceiveUpdatedBlocks_AcksFirst ==
  /\ server = "receive"
  /\ Receive("server", client_socket, BranchBlocks)
  /\ branch' = Head(up[client_socket]).value
  /\ server' = "ack"
  /\ UNCHANGED <<clientVars, ends, client_socket, backlog, uploaded, fdb,
                 history, counters>>

ReceiveUpdatedBlocks ==
  /\ server = "receive"
  /\ Receive("server", client_socket, BranchBlocks)
  /\ branch' = Head(up[client_socket]).value
  /\ server' = "commit"
  /\ UNCHANGED <<clientVars, ends, client_socket, backlog, uploaded, fdb,
                 history, counters>>

\* send_branch_to_fdb: one transaction.
CommitBranch ==
  /\ server = "commit"
  /\ tree' = branch /\ branch' = 0
  /\ server' = "ack"
  /\ UNCHANGED <<clientVars, streams, client_socket, backlog, uploaded,
                 fdb_is_initialized, history, counters>>

Acknowledge_Never ==
  /\ server = "ack"
  /\ server' = "request"
  /\ UNCHANGED <<clientVars, streams, client_socket, backlog, uploaded, branch,
                 fdb, history, counters>>

Acknowledge ==
  /\ server = "ack"
  /\ Send("server", client_socket, <<Id(1)>>)
  /\ server' = "request"
  /\ UNCHANGED <<clientVars, ends, client_socket, backlog, uploaded, branch,
                 fdb, history, counters>>

-----------------------------------------------------------------------------
(***************************************************************************)
(* What can go wrong on the server's side.                                 *)
(***************************************************************************)

\* A send or recv of setup_fdb fails because the client has gone: the server
\* ends.
SetupFails ==
  /\ \/ server \in {"setup", "announce"}
     \/ server = "receive tree" /\ uploaded < Buckets
  /\ Gone
  /\ Exit
  /\ UNCHANGED <<clientVars, down, fdb, history, counters>>

\* So does a failed access to FoundationDB: to the flag, to a batch that the
\* bucket just received completes, to the last batch.  A transaction whose
\* commit reports an error may have been committed.  (What fails right after
\* the first flag is sent ends the server as ServerKilled does.)
SetupFdbFails ==
  /\ \/ server = "setup" /\ UNCHANGED fdb
     \/ /\ server = "receive tree" /\ uploaded < Buckets
        /\ up[client_socket] # <<>> /\ (uploaded + 1) % BatchBuckets = 0
        /\ tree' \in {tree, Unfinished} /\ UNCHANGED fdb_is_initialized
     \/ /\ server = "receive tree" /\ uploaded = Buckets
        /\ tree' \in {tree, 0} /\ UNCHANGED fdb_is_initialized
     \/ /\ server = "set flag"
        /\ fdb_is_initialized' \in {fdb_is_initialized, TRUE} /\ UNCHANGED tree
  /\ Exit
  /\ UNCHANGED <<clientVars, down, history, counters>>

\* get_branch_from_fdb or send_branch_to_fdb fails.  A commit that reports an
\* error may have taken place.
FdbFails ==
  /\ server \in {"branch", "commit"}
  /\ tree' \in IF server = "commit" THEN {tree, branch} ELSE {tree}
  /\ branch' = 0
  /\ server' = "closing"
  /\ UNCHANGED <<clientVars, streams, client_socket, backlog, uploaded,
                 fdb_is_initialized, history, counters>>

ClientGone_Commits ==
  /\ server \in {"request", "leaf", "num", "branch", "receive", "ack"} /\ Gone
  /\ server' = CASE server = "request" -> "closing again"
                 [] server = "receive" -> "commit"
                 [] OTHER              -> "closing"
  /\ UNCHANGED <<clientVars, streams, client_socket, backlog, uploaded, branch,
                 fdb, history, counters>>

ClientGone_Retries ==
  /\ server \in {"request", "leaf", "num", "branch", "receive", "ack"} /\ Gone
  /\ UNCHANGED vars

\* A send or recv fails in the request loop because the client has gone.
ClientGone ==
  /\ server \in {"request", "leaf", "num", "branch", "receive", "ack"} /\ Gone
  /\ server' = IF server = "request" THEN "closing again" ELSE "closing"
  /\ UNCHANGED <<clientVars, streams, client_socket, backlog, uploaded, branch, fdb,
                 history, counters>>

\* close_connection closes the socket; the loop goes on to recv on the closed
\* socket, which fails, and calls it once more.  After a failed access to
\* FoundationDB it destroys tr and status both times: see ServerKilled.
CloseConnection ==
  /\ server \in {"closing", "closing again"}
  /\ Close("server", client_socket)
  /\ IF server = "closing"
     THEN server' = "closing again" /\ UNCHANGED client_socket
     ELSE server' = "listen" /\ client_socket' = NoClient
  /\ UNCHANGED <<clientVars, backlog, uploaded, branch, fdb, history, counters>>

\* The server is killed: at any time, by SIGPIPE when it sends to a client
\* that has gone, or by destroying an object twice.
ServerKilled ==
  /\ server # "down"
  /\ Exit
  /\ UNCHANGED <<clientVars, down, fdb, history, counters>>

Restart ==
  /\ server = "down" /\ restarts < MaxRestarts
  /\ server' = "listen"
  /\ restarts' = restarts + 1
  /\ UNCHANGED <<clientVars, streams, client_socket, backlog, uploaded, branch, fdb,
                 history, traversals, clears>>

\* make clear resets the flag.  It is harmless while no process runs and
\* nothing is saved.
ClearFdb ==
  /\ clears < MaxClears
  /\ clears' = clears + 1
  /\ fdb_is_initialized' = FALSE
  /\ IF oram_state = 0 /\ \A c \in Clients : ~Running(c)
     THEN UNCHANGED mishaps ELSE Mishap("make clear")
  /\ UNCHANGED <<clientVars, streams, serverVars, tree, fresh,
                 traversals, restarts>>

-----------------------------------------------------------------------------
Starts(c) == Connect(c) \/ InitializeFails(c)

\* The steps of initialize, of a call and of the destructor, once begun.
ClientStep(c) ==
  \/ ReceiveFlag(c) \/ UploadBucket(c) \/ ReceiveSecondFlag(c) \/ HandshakeFails(c)
  \/ SendLeaf(c) \/ ReceiveNum(c) \/ ReceiveBlocks(c) \/ SendBranch(c)
  \/ ReceiveConfirmation(c) \/ Truncate(c) \/ Write(c)
  \/ client[c] # "ready" /\ CallFails(c)

ServerStep ==
  \/ Accept \/ SendFlag \/ ReceiveBucket \/ CommitTree \/ SetFlag \/ Announce
  \/ ReceiveRequest \/ ClientDisconnected \/ ReceiveLeaf \/ SendNum
  \/ SendBranchToClient \/ ReceiveUpdatedBlocks \/ CommitBranch \/ Acknowledge
  \/ SetupFails \/ ClientGone \/ CloseConnection

Next ==
  \/ \E c \in Clients :
       Starts(c) \/ ClientStep(c) \/ SendRequest(c) \/ CallFails(c)
         \/ Shutdown(c) \/ Quit(c) \/ Crash(c)
  \/ ServerStep
  \/ FdbFails \/ SetupFdbFails \/ ServerKilled \/ Restart \/ ClearFdb

Spec == Init /\ [][Next]_vars

\* The processes go on as long as they run; nothing makes FoundationDB fail.
FairSpec ==
  /\ Spec
  /\ WF_vars(ServerStep)
  /\ \A c \in Clients : WF_vars(ClientStep(c))

-----------------------------------------------------------------------------
(***************************************************************************)
(* Correctness.                                                            *)
(***************************************************************************)
Token    == [kind : {"flag", "id", "leaf", "num", "block"}, value : Nat \cup {Unfinished, Torn}]
Versions == Nat \cup {Torn}

\* Every variable holds a value of its type.
TypeOK ==
  /\ client \in [Clients -> {"out", "flag", "upload", "uploaded", "ready", "leaf", "num",
                              "blocks", "send", "confirm", "save", "write", "unusable",
                              "unloaded", "shut down", "quitting", "last write", "gone"}]
  /\ expected \in [Clients -> Nat]
  /\ maps \in Versions /\ oram_state \in Versions
  /\ up \in [Clients -> Seq(Token)] /\ down \in [Clients -> Seq(Token)]
  /\ ends \in [Clients -> SUBSET {"client", "server"}]
  /\ server \in {"listen", "setup", "receive tree", "set flag", "announce", "request",
                 "leaf", "num", "branch", "receive", "commit", "ack", "closing",
                 "closing again", "down"}
  /\ client_socket \in Clients \cup {NoClient}
  /\ (client_socket = NoClient) = (server \in {"listen", "down"})
  /\ backlog \in Seq(Clients)
  /\ uploaded \in 0 .. Buckets
  /\ branch \in Versions
  /\ tree \in Versions \cup {Unfinished}
  /\ fdb_is_initialized \in BOOLEAN
  /\ fresh \subseteq Clients
  /\ mishaps \subseteq {"call failed late", "saved unloaded maps", "crash before the save",
                        "make clear"}
  /\ traversals \in 0 .. MaxCalls /\ restarts \in 0 .. MaxRestarts
  /\ clears \in 0 .. MaxClears

\* What each end takes next from the stream.
ClientTakes(c) ==
  CASE client[c] \in {"flag", "uploaded"} -> "flag"
    [] client[c] = "num"                  -> "num"
    [] client[c] = "blocks"               -> "block"
    [] client[c] = "confirm"              -> "id"
    [] OTHER                              -> "nothing"

ServerTakes ==
  CASE server = "receive tree" /\ uploaded < Buckets -> "block"
    [] server = "request"                             -> "id"
    [] server = "leaf"                                -> "leaf"
    [] server = "receive"                             -> "block"
    [] OTHER                                          -> "nothing"

ClientInStep(c) ==
  ClientTakes(c) # "nothing" /\ down[c] # <<>> => Head(down[c]).kind = ClientTakes(c)

\* Neither end ever takes a message for another one: the server not on any
\* connection, the client not on one that found the store empty.
MessagesStayInStep ==
  /\ ServerTakes # "nothing" /\ up[client_socket] # <<>> =>
       Head(up[client_socket]).kind = ServerTakes
  /\ \A c \in fresh : ClientInStep(c)

\* The same for every client, as README.md tells it: the server "sends the
\* master client the number of blocks being sent and the blocks of data".
EveryClientInStep == \A c \in Clients : ClientInStep(c)

\* Once the flag is set every bucket of the tree has been written, whatever
\* batch of the upload, crash or restart came in between: no client is
\* handed a branch of a tree that was never finished.
FlagMeansTree == fdb_is_initialized => tree # Unfinished

\* A client that got its confirmation, and is about to save its maps, has
\* maps that describe the tree in FoundationDB.
ConfirmedIsCommitted ==
  \A c \in Clients : client[c] \in {"save", "write"} => tree = maps

\* While the flag is set, the one branch that is ever written is that of the
\* last traversal any client made (receive_updated_blocks and
\* send_branch_to_fdb): never that of an earlier call or of a process before,
\* nor one that was not received, however clients end and however the server
\* fails, restarts or goes on to the next of them.
NewestIsWritten == [][fdb_is_initialized /\ tree' # tree => tree' = traversals]_vars

\* "On a successful operation, the master client will update its state"
\* (README.md): what is saved is never ahead of what the server has stored.
SavedOnSuccess == oram_state \in Nat /\ tree \in Nat => oram_state <= tree

\* Between processes the state file describes the tree.
FileDescribesTree ==
  fdb_is_initialized /\ (\A c \in Clients : ~Running(c)) => oram_state = tree

\* Only four things can part the two: a call that fails after its traversal,
\* a crash between sending the branch and the end of store_state, a process
\* that ends without having loaded the file, and make clear.
FileDescribesTreeUnlessMishap == mishaps = {} => FileDescribesTree

\* The server returns to accept, or ends, once its client has gone.
ServerIsFreed ==
  \A c \in Clients : client_socket = c /\ client[c] = "gone" ~> client_socket # c

\* initialize returns.
InitializeReturns ==
  \A c \in Clients : client[c] \in {"flag", "upload", "uploaded"} ~>
                      client[c] \in {"ready", "unusable", "gone"}

\* Every call returns to a client that found the store empty.
CallsReturn ==
  \A c \in Clients : c \in fresh /\ client[c] = "leaf" ~>
                      client[c] \in {"ready", "unusable", "gone"}
=============================================================================
