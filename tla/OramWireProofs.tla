---------------------------- MODULE OramWireProofs ----------------------------
(***************************************************************************)
(* Theorems about OramWire for any number of client processes, buckets,    *)
(* blocks and restarts: the initialised flag (FlagInv), the protocol of    *)
(* client and server over the two streams of their connection (LineInv,    *)
(* StreamInv), the branches that are written (NewestInv) and the state     *)
(* file (FileInv), both on top of the protocol.                            *)
(***************************************************************************)
EXTENDS OramWire, SequenceTheorems, TLAPS

(***************************************************************************)
(* The flag.  What a client sends is numbers, so a branch that the server  *)
(* commits is never an unfinished tree; the upload, which leaves one, only *)
(* takes place while the flag is not set, and the flag is only set after   *)
(* the last commit.                                                        *)
(***************************************************************************)
Message == [kind : {"flag", "id", "leaf", "num", "block"}, value : Nat]

\* The server has a connection.
Serving == server \notin {"listen", "down"} => client_socket \in Clients

Sent ==
  /\ up \in [Clients -> Seq(Message)]
  /\ branch \in Nat /\ traversals \in Nat
  /\ DOMAIN client = Clients
  /\ \A c \in Clients : client[c] = "send" => maps \in Nat

Upload ==
  /\ server = "receive tree" => ~fdb_is_initialized
  /\ server = "set flag" => tree # Unfinished

FlagInv == Serving /\ backlog \in Seq(Clients) /\ Sent /\ Upload /\ FlagMeansTree

-----------------------------------------------------------------------------
LEMMA FlagInit == Init => FlagInv
  BY DEF Init, FlagInv, Serving, Sent, Upload, FlagMeansTree

\* A closed end loses its stream, sending extends it, receiving shortens it.
LEMMA ClientSends ==
  ASSUME Sent, NEW c \in Clients, NEW s \in Seq(Message), Send("client", c, s)
  PROVE  up' \in [Clients -> Seq(Message)]
<1>1. up[c] \in Seq(Message)
  BY DEF Sent
<1>2. up[c] \o s \in Seq(Message)
  BY <1>1, ConcatProperties
<1>. QED  BY <1>1, <1>2 DEF Sent, Send

LEMMA ServerReceives ==
  ASSUME Sent, NEW c \in Clients, NEW n \in Nat, Receive("server", c, n)
  PROVE  up' \in [Clients -> Seq(Message)]
<1>1. Drop(up[c], n) \in Seq(Message)
  <2>1. up[c] \in Seq(Message) /\ Len(up[c]) \in Nat
    BY LenProperties DEF Sent
  <2>2. n + 1 \in Nat /\ n + 1 >= 1
    OBVIOUS
  <2>. QED  BY <2>1, <2>2, SubSeqProperties DEF Drop
<1>. QED  BY <1>1 DEF Receive, Sent

LEMMA Closes ==
  ASSUME Sent, NEW c \in Clients, NEW end, Close(end, c)
  PROVE  up' \in [Clients -> Seq(Message)]
<1>1. <<>> \in Seq(Message)
  BY EmptySeq
<1>. QED  BY <1>1 DEF Sent, Close

\* The blocks of a branch, and any single message, can be sent.
LEMMA Messages ==
  ASSUME NEW n \in Nat
  PROVE  /\ Blocks(n) \in Seq(Message)
         /\ <<Block(n)>> \in Seq(Message)
         /\ <<Id(n)>> \in Seq(Message)
         /\ <<Leaf(n)>> \in Seq(Message)
<1>1. Block(n) \in Message /\ Id(n) \in Message /\ Leaf(n) \in Message
  BY DEF Block, Id, Leaf, Message
<1>2. Blocks(n) \in Seq(Message)
  BY <1>1, WireAssumption, IsASeq DEF Blocks
<1>. QED  BY <1>1, <1>2

\* The first message of a stream is a message.
LEMMA FirstMessage ==
  ASSUME Sent, NEW c \in Clients, Len(up[c]) >= 1
  PROVE  Head(up[c]).value \in Nat
<1>1. up[c] \in Seq(Message) /\ up[c] # <<>>
  BY DEF Sent
<1>2. Head(up[c]) \in Message
  BY <1>1, HeadTailProperties
<1>. QED  BY <1>2 DEF Message

-----------------------------------------------------------------------------
\* The steps of a client.
LEMMA FlagClient ==
  ASSUME FlagInv, NEW c \in Clients,
         Starts(c) \/ ClientStep(c) \/ SendRequest(c) \/ CallFails(c)
           \/ Shutdown(c) \/ Quit(c) \/ Crash(c)
  PROVE  FlagInv'
<1>. USE DEF FlagInv
<1>1. ASSUME UNCHANGED <<server, client_socket, tree, fdb_is_initialized>>
      PROVE  (Serving /\ Upload /\ FlagMeansTree)'
  BY <1>1 DEF Serving, Upload, FlagMeansTree
<1>2. CASE Connect(c)
  <2>1. backlog' \in Seq(Clients)
    BY <1>2, AppendProperties DEF Connect
  <2>2. Sent'
    BY <1>2 DEF Sent, Connect, Goto, Running, counters
  <2>. QED  BY <1>1, <1>2, <2>1, <2>2 DEF Connect, fdb
<1>3. CASE InitializeFails(c)
  BY <1>1, <1>3 DEF InitializeFails, Goto, Sent, serverVars, streams, fdb, history, counters
<1>4. CASE ReceiveFlag(c) \/ ReceiveSecondFlag(c) \/ ReceiveNum(c) \/ ReceiveConfirmation(c)
  <2>1. UNCHANGED <<up, maps, serverVars, fdb, counters>>
    BY <1>4 DEF ReceiveFlag, ReceiveSecondFlag, ReceiveNum, ReceiveConfirmation, Receive, history
  <2>2. PICK place : place # "send" /\ Goto(c, place)
    BY <1>4 DEF ReceiveFlag, ReceiveSecondFlag, ReceiveNum, ReceiveConfirmation
  <2>. QED  BY <1>1, <2>1, <2>2 DEF Sent, Goto, serverVars, fdb, counters
<1>5. CASE ReceiveBlocks(c)
  <2>1. UNCHANGED <<up, serverVars, fdb>>
    BY <1>5 DEF ReceiveBlocks, Receive
  <2>2. traversals' \in Nat /\ maps' \in Nat
    BY <1>5 DEF ReceiveBlocks, Sent
  <2>. QED  BY <1>1, <1>5, <2>1, <2>2 DEF ReceiveBlocks, Goto, Sent, serverVars, fdb
<1>6. CASE UploadBucket(c) \/ SendRequest(c) \/ SendLeaf(c) \/ SendBranch(c) \/ Shutdown(c)
  <2>1. UNCHANGED <<maps, serverVars, fdb, counters>>
    BY <1>6 DEF UploadBucket, SendRequest, SendLeaf, SendBranch, Shutdown
  <2>2. PICK place : place # "send" /\ Goto(c, place)
    BY <1>6 DEF UploadBucket, SendRequest, SendLeaf, SendBranch, Shutdown
  <2>3. PICK s \in Seq(Message) : Send("client", c, s)
    <3>1. CASE UploadBucket(c)
      BY <3>1, Messages DEF UploadBucket
    <3>2. CASE SendRequest(c) \/ Shutdown(c)
      BY <3>2, Messages DEF SendRequest, Shutdown
    <3>3. CASE SendLeaf(c)
      BY <3>3, Messages DEF SendLeaf
    <3>4. CASE SendBranch(c)
      BY <3>4, Messages DEF SendBranch, Sent
    <3>. QED  BY <1>6, <3>1, <3>2, <3>3, <3>4
  <2>4. up' \in [Clients -> Seq(Message)]
    BY <2>3, ClientSends
  <2>. QED  BY <1>1, <2>1, <2>2, <2>4 DEF Sent, Goto, serverVars, fdb, counters
<1>7. CASE Truncate(c) \/ Write(c) \/ HandshakeFails(c)
  <2>1. UNCHANGED <<up, serverVars, fdb, counters>> /\ (maps' = maps \/ maps' = 0)
    BY <1>7 DEF Truncate, Write, HandshakeFails, streams
  <2>2. PICK place : place # "send" /\ Goto(c, place)
    BY <1>7 DEF Truncate, Write, HandshakeFails
  <2>. QED  BY <1>1, <2>1, <2>2 DEF Sent, Goto, serverVars, fdb, counters
<1>8. CASE CallFails(c) \/ Quit(c) \/ Crash(c)
  <2>1. UNCHANGED <<serverVars, fdb, counters>> /\ (maps' = maps \/ maps' = 0)
    BY <1>8 DEF CallFails, Quit, Crash
  <2>2. PICK place : place # "send" /\ Goto(c, place)
    BY <1>8 DEF CallFails, Quit, Crash
  <2>3. up' \in [Clients -> Seq(Message)]
    BY <1>8, Closes DEF CallFails, Quit, Crash
  <2>4. branch' = branch /\ traversals' = traversals
    BY <2>1 DEF serverVars, counters
  <2>5. ASSUME NEW d \in Clients, client'[d] = "send"
        PROVE  maps' \in Nat
    <3>1. client[d] = "send"
      BY <2>2, <2>5 DEF Goto, Sent
    <3>. QED  BY <2>1, <3>1 DEF Sent
  <2>6. Sent'
    BY <2>2, <2>3, <2>4, <2>5 DEF Sent, Goto
  <2>. QED  BY <1>1, <2>1, <2>6 DEF serverVars, fdb
<1>. QED  BY <1>2, <1>3, <1>4, <1>5, <1>6, <1>7, <1>8 DEF Starts, ClientStep

\* The steps of the server, of FoundationDB and of make clear.
LEMMA FlagServer ==
  ASSUME FlagInv, ServerStep \/ FdbFails \/ SetupFdbFails \/ ServerKilled \/ Restart \/ ClearFdb
  PROVE  FlagInv'
<1>. USE DEF FlagInv
<1>1. ASSUME UNCHANGED <<client, maps, up, branch, traversals>>
      PROVE  Sent'
  BY <1>1 DEF Sent
<1>2. CASE Accept
  <2>1. client_socket' \in Clients /\ backlog' \in Seq(Clients)
    BY <1>2, HeadTailProperties DEF Accept
  <2>. QED
    BY <1>1, <1>2, <2>1 DEF Accept, Serving, Upload, FlagMeansTree, clientVars, streams, fdb, counters
<1>3. CASE SendFlag
  BY <1>1, <1>3 DEF SendFlag, Send, Serving, Upload, FlagMeansTree, clientVars, fdb, counters
<1>4. CASE ReceiveBucket
  <2>1. client_socket \in Clients
    BY <1>4 DEF ReceiveBucket, Serving
  <2>2. up' \in [Clients -> Seq(Message)]
    BY <1>4, <2>1, ServerReceives DEF ReceiveBucket
  <2>. QED
    BY <1>4, <2>1, <2>2 DEF ReceiveBucket, Sent, Serving, Upload, FlagMeansTree, clientVars, counters
<1>5. CASE CommitTree \/ SetFlag
  <2>1. Sent'
    BY <1>1, <1>5 DEF CommitTree, SetFlag, clientVars, streams, counters
  <2>2. CASE CommitTree
    <3>1. tree' = 0 /\ server' = "set flag" /\ server = "receive tree"
      BY <2>2 DEF CommitTree
    <3>2. UNCHANGED <<client_socket, backlog>>
      BY <2>2 DEF CommitTree
    <3>3. Unfinished # 0
      BY WireAssumption
    <3>. QED  BY <2>1, <3>1, <3>2, <3>3 DEF Serving, Upload, FlagMeansTree
  <2>3. CASE SetFlag
    BY <2>1, <2>3 DEF SetFlag, Serving, Upload, FlagMeansTree
  <2>. QED  BY <1>5, <2>2, <2>3
<1>6. CASE Announce \/ SendNum \/ SendBranchToClient \/ Acknowledge
  <2>1. UNCHANGED <<up, fdb, client_socket, backlog, branch, clientVars, counters>>
    BY <1>6 DEF Announce, SendNum, SendBranchToClient, Acknowledge, Send
  <2>2. server \notin {"listen", "down"} /\ server' \notin {"receive tree", "set flag"}
    BY <1>6 DEF Announce, SendNum, SendBranchToClient, Acknowledge
  <2>. QED  BY <1>1, <2>1, <2>2 DEF Serving, Upload, FlagMeansTree, clientVars, fdb, counters
<1>7. ASSUME Exit
      PROVE  up' \in [Clients -> Seq(Message)] /\ Serving' /\ Upload' /\ branch' \in Nat
                /\ backlog' \in Seq(Clients)
  <2>1. <<>> \in Seq(Message) /\ <<>> \in Seq(Clients)
    BY EmptySeq
  <2>. QED  BY <1>7, <2>1 DEF Exit, Serving, Upload
<1>8. CASE ReceiveRequest
  <2>1. client_socket \in Clients
    BY <1>8 DEF ReceiveRequest, Serving
  <2>2. CASE Exit
    BY <1>7, <1>8, <2>2 DEF ReceiveRequest, Sent, FlagMeansTree, clientVars, fdb, counters
  <2>3. CASE ~Exit
    <3>1. up' \in [Clients -> Seq(Message)]
      BY <1>8, <2>1, <2>3, ServerReceives DEF ReceiveRequest
    <3>. QED
      BY <1>8, <2>1, <2>3, <3>1 DEF ReceiveRequest, Serving, Upload, Sent, FlagMeansTree, clientVars, fdb, counters
  <2>. QED  BY <2>2, <2>3
<1>9. CASE ReceiveLeaf
  <2>1. client_socket \in Clients
    BY <1>9 DEF ReceiveLeaf, Serving
  <2>2. up' \in [Clients -> Seq(Message)]
    BY <1>9, <2>1, ServerReceives DEF ReceiveLeaf
  <2>. QED
    BY <1>9, <2>1, <2>2 DEF ReceiveLeaf, Sent, Serving, Upload, FlagMeansTree, clientVars, fdb, counters
<1>10. CASE ReceiveUpdatedBlocks
  <2>1. client_socket \in Clients
    BY <1>10 DEF ReceiveUpdatedBlocks, Serving
  <2>2. up' \in [Clients -> Seq(Message)]
    BY <1>10, <2>1, WireAssumption, ServerReceives DEF ReceiveUpdatedBlocks
  <2>3. up[client_socket] \in Seq(Message) /\ Len(up[client_socket]) \in Nat
    BY <2>1, LenProperties DEF Sent
  <2>4. branch' \in Nat
    BY <1>10, <2>1, <2>3, WireAssumption, FirstMessage DEF ReceiveUpdatedBlocks, Receive
  <2>. QED
    BY <1>10, <2>1, <2>2, <2>4 DEF ReceiveUpdatedBlocks, Sent, Serving, Upload, FlagMeansTree,
       clientVars, fdb, counters
<1>11. CASE CommitBranch
  BY <1>11, WireAssumption DEF CommitBranch, Sent, Serving, Upload, FlagMeansTree,
     clientVars, streams, counters
<1>12. CASE SetupFails \/ SetupFdbFails \/ ServerKilled
  <2>1. Exit /\ UNCHANGED <<clientVars, counters>>
    BY <1>12 DEF SetupFails, SetupFdbFails, ServerKilled
  <2>2. FlagMeansTree'
    BY <1>12, WireAssumption DEF SetupFails, SetupFdbFails, ServerKilled, FlagMeansTree, Upload, fdb
  <2>. QED  BY <1>7, <2>1, <2>2 DEF Sent, clientVars, counters
<1>13. CASE FdbFails
  BY <1>13, WireAssumption DEF FdbFails, Sent, Serving, Upload, FlagMeansTree,
     clientVars, streams, counters
<1>14. CASE ClientGone \/ ClientDisconnected
  <2>1. Sent'
    BY <1>1, <1>14 DEF ClientGone, ClientDisconnected, clientVars, streams, counters
  <2>2. UNCHANGED <<fdb, backlog>> /\ server' \in {"listen", "closing", "closing again"}
    BY <1>14 DEF ClientGone, ClientDisconnected
  <2>3. Serving'
    BY <1>14 DEF ClientGone, ClientDisconnected, Serving
  <2>. QED  BY <2>1, <2>2, <2>3 DEF Upload, FlagMeansTree, fdb
<1>15. CASE CloseConnection
  <2>1. client_socket \in Clients
    BY <1>15 DEF CloseConnection, Serving
  <2>2. up' \in [Clients -> Seq(Message)]
    BY <1>15, <2>1, Closes DEF CloseConnection
  <2>. QED
    BY <1>15, <2>1, <2>2 DEF CloseConnection, Sent, Serving, Upload, FlagMeansTree, clientVars,
       fdb, counters
<1>16. CASE Restart \/ ClearFdb
  <2>1. Sent'
    BY <1>1, <1>16 DEF Restart, ClearFdb, clientVars, streams, serverVars
  <2>2. CASE Restart
    BY <2>1, <2>2 DEF Restart, Serving, Upload, FlagMeansTree, fdb
  <2>3. CASE ClearFdb
    BY <2>1, <2>3 DEF ClearFdb, Serving, Upload, FlagMeansTree, serverVars
  <2>. QED  BY <1>16, <2>2, <2>3
<1>. QED
  BY <1>2, <1>3, <1>4, <1>5, <1>6, <1>8, <1>9, <1>10, <1>11, <1>12, <1>13, <1>14, <1>15, <1>16
  DEF ServerStep

LEMMA FlagStutters ==
  ASSUME FlagInv, UNCHANGED vars
  PROVE  FlagInv'
  BY DEF FlagInv, Serving, Sent, Upload, FlagMeansTree, vars, clientVars, streams, serverVars,
     fdb, counters

\* However often the upload is cut short, and whatever crashes, restarts or
\* resets come in between, no client is served a branch of a tree that was
\* never finished.
THEOREM FlagNeverEarly == Spec => []FlagMeansTree
<1>1. FlagInv /\ [Next]_vars => FlagInv'
  BY FlagClient, FlagServer, FlagStutters DEF Next
<1>2. FlagInv => FlagMeansTree
  BY DEF FlagInv
<1>. QED  BY FlagInit, <1>1, <1>2, PTL DEF Spec

-----------------------------------------------------------------------------
(***************************************************************************)
(* The protocol.  One process runs at a time, and whoever waits before it  *)
(* to be accepted has gone; so a process that has been accepted is the     *)
(* only one the server deals with.  Where the server is then tells where   *)
(* its client can be and what is on the way between them.                  *)
(***************************************************************************)

\* A client that has connected and has neither failed nor begun to quit.
Active == {"flag", "upload", "uploaded", "ready", "leaf", "num", "blocks", "send", "confirm",
           "save", "write", "shut down"}

InLine == {backlog[i] : i \in 1 .. Len(backlog)}

NoRepeats(s) == \A i, j \in 1 .. Len(s) : s[i] = s[j] => i = j

Untouched(c) == up[c] = <<>> /\ down[c] = <<>> /\ c \notin fresh

\* Who waits, and who is served.
LineInv ==
  /\ \A c, d \in Clients : Running(c) /\ Running(d) => c = d
  /\ NoRepeats(backlog)
  /\ \A i \in 1 .. Len(backlog) : i < Len(backlog) => client[backlog[i]] = "gone"
  /\ \A c \in InLine : /\ c # client_socket /\ Untouched(c)
                       /\ client[c] \in {"flag", "gone"} /\ "server" \in ends[c]
  /\ \A c \in Clients : client[c] = "out" => c # client_socket /\ Untouched(c)
  /\ \A c \in Clients : client[c] \in Active => "client" \in ends[c]
  /\ \A c \in Clients : client[c] \in Active /\ c \notin InLine =>
                          backlog = <<>> /\ client_socket \in {c, NoClient}
  /\ server \notin {"listen", "down", "closing again"} => "server" \in ends[client_socket]

\* A client that did not find the store empty reads one flag too few: it
\* takes the second one for a part of num_blocks.
Stray(c) == IF c \in fresh THEN 0 ELSE 1

IsBranch(s) == s # <<>> /\ s = Blocks(s[1].value)

\* What a client still has to read.
DownFits(c) ==
  /\ client[c] = "flag" =>
       c \notin fresh /\ down[c] \in {<<>>, <<Flag(FALSE)>>, <<Flag(TRUE)>>, <<Flag(TRUE), Flag(TRUE)>>}
  /\ client[c] = "upload" => c \in fresh /\ down[c] = <<>> /\ expected[c] > 0
  /\ client[c] = "uploaded" => /\ c \in fresh /\ down[c] \in {<<>>, <<Flag(TRUE)>>}
                               /\ expected[c] = 0
  /\ client[c] \in {"ready", "leaf", "shut down"} =>
       down[c] = <<>> \/ (c \notin fresh /\ down[c] = <<Flag(TRUE)>>)
  /\ client[c] = "num" /\ c \in fresh =>
       \/ down[c] \in {<<>>, NumBlocks}
       \/ IsBranch(Drop(down[c], 2)) /\ down[c] = NumBlocks \o Drop(down[c], 2)
  /\ client[c] = "num" /\ c \notin fresh =>
       /\ Len(down[c]) <= 3 + BranchBlocks
       /\ Len(down[c]) >= 1 => down[c][1] = Flag(TRUE)
       /\ Len(down[c]) >= 2 => down[c][2] = Digit(BranchBlocks)
  /\ client[c] = "blocks" /\ c \in fresh =>
       expected[c] = BranchBlocks /\ (down[c] = <<>> \/ IsBranch(down[c]))
  /\ client[c] = "blocks" /\ c \notin fresh =>
       expected[c] = 1 + Base * BranchBlocks /\ Len(down[c]) <= 1 + BranchBlocks
  /\ client[c] = "send" => c \in fresh /\ down[c] = <<>> /\ maps \in Nat
  /\ client[c] = "confirm" => /\ c \in fresh /\ maps \in Nat
                              /\ down[c] = <<>> \/ (down[c] = <<Id(1)>> /\ tree = maps)
  /\ client[c] \in {"save", "write"} => c \in fresh /\ down[c] = <<>> /\ maps \in Nat /\ tree = maps

\* What the server still has to read.
UpFits(c) ==
  /\ server \in {"setup", "set flag", "num", "branch", "commit", "ack"} => up[c] = <<>>
  /\ server = "receive tree" => /\ uploaded + Len(up[c]) <= Buckets
                                /\ \A i \in 1 .. Len(up[c]) : up[c][i] = Block(0)
  /\ server \in {"announce", "request"} =>
       up[c] \in {<<>>, <<Id(0)>>, <<Id(1)>>, <<Id(1), Leaf(0)>>, <<Id(1), Leaf(1)>>}
  /\ server = "leaf" => up[c] \in {<<>>, <<Leaf(0)>>, <<Leaf(1)>>}
  /\ server = "receive" => up[c] = <<>> \/ (IsBranch(up[c]) /\ up[c][1].value \in Nat)

\* The server has taken nothing of what the client sent last.
Ahead(c) ==
  \/ client[c] \in {"ready", "save", "write"} /\ up[c] = <<>>
  \/ client[c] = "leaf" /\ up[c] = <<Id(1)>>
  \/ client[c] = "num" /\ up[c] \in {<<Id(1), Leaf(0)>>, <<Id(1), Leaf(1)>>}
  \/ client[c] = "shut down" /\ up[c] = <<Id(0)>>

\* Where the client of the server is.
InStep(c) ==
  /\ server = "setup" => client[c] = "flag" /\ down[c] = <<>>
  /\ server = "receive tree" =>
       \/ client[c] = "flag" /\ down[c] = <<Flag(FALSE)>> /\ uploaded = 0 /\ up[c] = <<>>
       \/ /\ client[c] \in {"upload", "uploaded"} /\ down[c] = <<>>
          /\ uploaded + Len(up[c]) + expected[c] = Buckets
  /\ server = "set flag" => client[c] = "uploaded" /\ down[c] = <<>>
  /\ server = "announce" =>
       \/ client[c] = "uploaded" /\ down[c] = <<>> /\ up[c] = <<>>
       \/ client[c] = "flag" /\ down[c] = <<Flag(TRUE)>> /\ up[c] = <<>>
       \/ c \notin fresh /\ Ahead(c) /\ down[c] = <<>>
  /\ server = "request" =>
       \/ client[c] = "flag" /\ down[c] = <<Flag(TRUE), Flag(TRUE)>> /\ up[c] = <<>>
       \/ client[c] = "uploaded" /\ down[c] = <<Flag(TRUE)>> /\ up[c] = <<>>
       \/ client[c] = "confirm" /\ down[c] = <<Id(1)>> /\ up[c] = <<>>
       \/ Ahead(c) /\ Len(down[c]) = Stray(c)
  /\ server = "leaf" =>
       /\ Len(down[c]) = Stray(c)
       /\ \/ client[c] = "leaf" /\ up[c] = <<>>
          \/ client[c] = "num" /\ up[c] \in {<<Leaf(0)>>, <<Leaf(1)>>}
  /\ server = "num" => client[c] = "num" /\ Len(down[c]) = Stray(c)
  /\ server = "branch" => \/ client[c] = "num" /\ Len(down[c]) = 2 + Stray(c)
                          \/ client[c] = "blocks" /\ Len(down[c]) = Stray(c)
  /\ server = "receive" =>
       \/ client[c] \in {"num", "blocks", "send"} /\ up[c] = <<>>
       \/ client[c] = "confirm" /\ down[c] = <<>> /\ up[c] = Blocks(maps)
  /\ server = "commit" => client[c] = "confirm" /\ down[c] = <<>> /\ branch = maps
  /\ server = "ack"    => client[c] = "confirm" /\ down[c] = <<>> /\ tree = maps

StreamInv ==
  /\ \A c \in Clients : DownFits(c)
  /\ client_socket \in Clients => UpFits(client_socket)
  /\ client_socket \in Clients /\ client[client_socket] \in Active => InStep(client_socket)
  /\ \A c \in Clients : client[c] \in {"leaf", "num", "blocks"} => traversals < MaxCalls

ProtocolInv == TypeOK /\ LineInv /\ StreamInv

-----------------------------------------------------------------------------
\* n is what the state file has to hold.
Describes(n) == n \in Nat /\ IF fdb_is_initialized THEN tree = n ELSE n = 0

\* As long as nothing has gone wrong.
FileInv ==
  /\ server \in {"receive tree", "set flag"} => ~fdb_is_initialized
  /\ server = "set flag" => tree = 0
  /\ \A c \in Clients : client[c] = "unloaded" => maps = 0
  /\ mishaps = {} =>
       /\ \A c \in Clients :
            /\ client[c] \in Active \ {"flag", "upload", "uploaded"} => fdb_is_initialized
            /\ client[c] \in {"flag", "uploaded"} /\ down[c] # <<>> /\ down[c][1] = Flag(TRUE)
                 => fdb_is_initialized
            /\ client[c] \in (Active \ {"send", "confirm", "save", "write"})
                               \cup {"unusable", "quitting"} => maps = oram_state
            /\ client[c] \in {"write", "last write"} => Describes(maps)
       /\ (\A c \in Clients : client[c] \notin {"confirm", "save", "write", "last write"}) =>
            Describes(oram_state)
       /\ server = "announce" /\ client[client_socket] \in Active => fdb_is_initialized
       /\ server = "commit" \/ (server = "receive" /\ up[client_socket] # <<>>) =>
            client[client_socket] = "confirm"

-----------------------------------------------------------------------------
LEMMA NoFitNeeded ==
  ASSUME NEW c \in Clients, client'[c] \notin Active
  PROVE  DownFits(c)'
  BY DEF DownFits, Active

LEMMA InLineUnchanged == UNCHANGED backlog => InLine' = InLine
  BY DEF InLine

LEMMA Queued ==
  ASSUME TypeOK
  PROVE  /\ InLine \subseteq Clients /\ Len(backlog) \in Nat
         /\ \A i \in 1 .. Len(backlog) : backlog[i] \in Clients
<1>1. backlog \in Seq(Clients)
  BY DEF TypeOK
<1>2. Len(backlog) \in Nat /\ \A i \in 1 .. Len(backlog) : backlog[i] \in Clients
  BY <1>1, ElementOfSeq, LenProperties
<1> QED BY <1>2 DEF InLine

\* A step of process c, the only one that runs, that leaves it at place.
LEMMA ClientMoves ==
  ASSUME ProtocolInv, NEW c \in Clients, NEW place,
         client[c] # "gone", \A d \in Clients \ {c} : ~Running(d),
         client' = [client EXCEPT ![c] = place], TypeOK', place # "out",
         \A d \in Clients \ {c} : /\ up'[d] = up[d] /\ down'[d] = down[d] /\ ends'[d] = ends[d]
                                  /\ d \in fresh' => d \in fresh,
         UNCHANGED <<serverVars, tree>>,
         ends'[c] = ends[c] \/ (place \notin Active /\ ends'[c] = ends[c] \ {"client"}),
         c \in InLine => place = "gone" /\ up'[c] = <<>> /\ down'[c] = <<>> /\ c \notin fresh',
         client_socket = c => UpFits(c)',
         place \in Active => /\ client[c] \in Active /\ DownFits(c)'
                             /\ client_socket = c => InStep(c)'
                             /\ place \in {"leaf", "num", "blocks"} => traversals' < MaxCalls
  PROVE  ProtocolInv'
<1>1. /\ client'[c] = place
      /\ \A d \in Clients \ {c} : client'[d] = client[d] /\ ~Running(d) /\ client[d] \notin Active
  <2>1. client'[c] = place /\ \A d \in Clients \ {c} : client'[d] = client[d]
    BY DEF ProtocolInv, TypeOK
  <2>2. \A d \in Clients \ {c} : client[d] \notin Active
    BY DEF Active, Running
  <2> QED BY <2>1, <2>2
<1>2. UNCHANGED <<server, client_socket, backlog, branch, uploaded>> /\ InLine' = InLine
  BY InLineUnchanged DEF serverVars
<1>3. LineInv'
  <2> USE <1>1, <1>2
  <2>1. \A d, e \in Clients : Running(d)' /\ Running(e)' => d = e
    BY DEF Running
  <2>2. NoRepeats(backlog')
    BY DEF ProtocolInv, LineInv
  <2>3. ASSUME NEW i \in 1 .. Len(backlog), i < Len(backlog) PROVE client'[backlog[i]] = "gone"
    <3>1. backlog[i] \in Clients /\ client[backlog[i]] = "gone"
      BY <2>3, Queued DEF ProtocolInv, LineInv
    <3>2. backlog[i] # c
      BY <3>1
    <3> QED BY <3>1, <3>2
  <2>4. ASSUME NEW d \in InLine
        PROVE  /\ d # client_socket /\ Untouched(d)'
               /\ client'[d] \in {"flag", "gone"} /\ "server" \in ends'[d]
    <3>1. /\ d # client_socket /\ Untouched(d) /\ d \in Clients
          /\ client[d] \in {"flag", "gone"} /\ "server" \in ends[d]
      BY Queued DEF ProtocolInv, LineInv
    <3>2. CASE d = c
      BY <3>1, <3>2 DEF Untouched
    <3>3. CASE d # c
      BY <3>1, <3>3 DEF Untouched
    <3> QED BY <3>2, <3>3
  <2>5. ASSUME NEW d \in Clients, client'[d] = "out" PROVE d # client_socket /\ Untouched(d)'
    <3>1. d # c /\ client[d] = "out"
      BY <2>5
    <3>2. d # client_socket /\ Untouched(d)
      BY <3>1 DEF ProtocolInv, LineInv
    <3> QED BY <3>1, <3>2 DEF Untouched
  <2>6. ASSUME NEW d \in Clients, client'[d] \in Active PROVE d = c /\ ends'[d] = ends[d] /\ client[d] \in Active
    BY <2>6
  <2>7. \A d \in Clients : client'[d] \in Active => "client" \in ends'[d]
    BY <2>6 DEF ProtocolInv, LineInv
  <2>8. \A d \in Clients : client'[d] \in Active /\ d \notin InLine =>
                             backlog = <<>> /\ client_socket \in {d, NoClient}
    BY <2>6 DEF ProtocolInv, LineInv
  <2>9. server \notin {"listen", "down", "closing again"} => "server" \in ends'[client_socket]
    <3>1. ASSUME server \notin {"listen", "down", "closing again"}
          PROVE  client_socket \in Clients /\ "server" \in ends[client_socket]
      BY <3>1 DEF ProtocolInv, LineInv, TypeOK
    <3> QED BY <3>1
  <2> QED BY <2>1, <2>2, <2>3, <2>4, <2>5, <2>7, <2>8, <2>9 DEF LineInv
<1>4. \A d \in Clients : DownFits(d)'
  <2>1. ASSUME NEW d \in Clients, d # c PROVE client'[d] \notin Active
    BY <1>1, <2>1
  <2>2. CASE place \in Active
    BY <2>1, <2>2, NoFitNeeded
  <2>3. CASE place \notin Active
    BY <1>1, <2>1, <2>3, NoFitNeeded
  <2> QED BY <2>2, <2>3
<1>5. client_socket \in Clients => UpFits(client_socket)'
  <2>1. CASE client_socket = c
    BY <1>2, <2>1 DEF UpFits
  <2>2. CASE client_socket \in Clients \ {c}
    <3>1. up'[client_socket] = up[client_socket] /\ UpFits(client_socket)
      BY <2>2 DEF ProtocolInv, StreamInv
    <3> QED BY <1>2, <3>1 DEF UpFits
  <2> QED BY <2>1, <2>2
<1>6. client_socket \in Clients /\ client'[client_socket] \in Active => InStep(client_socket)'
  BY <1>1, <1>2 DEF InStep, Ahead, Stray
<1>7. \A d \in Clients : client'[d] \in {"leaf", "num", "blocks"} => traversals' < MaxCalls
  BY <1>1 DEF Active
<1> QED BY <1>2, <1>3, <1>4, <1>5, <1>6, <1>7 DEF ProtocolInv, StreamInv

\* A step of the server for the client it serves.
LEMMA ServerMoves ==
  ASSUME ProtocolInv, NEW c \in Clients, c = client_socket, TypeOK',
         UNCHANGED <<clientVars, client_socket, backlog, fresh, traversals>>,
         server \notin {"listen", "down", "closing again"}, server' \notin {"listen", "down"},
         \A d \in Clients \ {c} : up'[d] = up[d] /\ down'[d] = down[d] /\ ends'[d] = ends[d],
         ends'[c] = ends[c] \/ (server' = "closing again" /\ ends'[c] = ends[c] \ {"server"}),
         UpFits(c)',
         client[c] \in Active => DownFits(c)' /\ InStep(c)'
  PROVE  ProtocolInv'
<1>1. /\ client' = client /\ client_socket' = client_socket /\ backlog' = backlog
      /\ fresh' = fresh /\ traversals' = traversals /\ InLine' = InLine
  BY InLineUnchanged DEF clientVars
<1>2. c \notin InLine
  BY DEF ProtocolInv, LineInv
<1>3. LineInv'
  <2> USE <1>1, <1>2
  <2>1. \A d, e \in Clients : Running(d)' /\ Running(e)' => d = e
    BY DEF ProtocolInv, LineInv, Running
  <2>2. /\ NoRepeats(backlog)
        /\ \A i \in 1 .. Len(backlog) : i < Len(backlog) => client[backlog[i]] = "gone"
    BY DEF ProtocolInv, LineInv
  <2>3. ASSUME NEW d \in InLine
        PROVE  /\ d # client_socket /\ Untouched(d)'
               /\ client'[d] \in {"flag", "gone"} /\ "server" \in ends'[d]
    <3>1. /\ d # client_socket /\ Untouched(d) /\ d \in Clients
          /\ client[d] \in {"flag", "gone"} /\ "server" \in ends[d]
      BY Queued DEF ProtocolInv, LineInv
    <3> QED BY <3>1 DEF Untouched
  <2>4. ASSUME NEW d \in Clients, client'[d] = "out" PROVE d # client_socket /\ Untouched(d)'
    <3>1. d # client_socket /\ Untouched(d)
      BY <2>4 DEF ProtocolInv, LineInv
    <3> QED BY <3>1 DEF Untouched
  <2>5. \A d \in Clients : client'[d] \in Active => "client" \in ends'[d]
    BY DEF ProtocolInv, LineInv
  <2>6. \A d \in Clients : client'[d] \in Active /\ d \notin InLine =>
                             backlog = <<>> /\ client_socket \in {d, NoClient}
    BY DEF ProtocolInv, LineInv
  <2>7. server' \notin {"listen", "down", "closing again"} => "server" \in ends'[client_socket]
    BY DEF ProtocolInv, LineInv
  <2>8. /\ NoRepeats(backlog')
        /\ \A i \in 1 .. Len(backlog') : i < Len(backlog') => client'[backlog'[i]] = "gone"
    BY <2>2
  <2>9. /\ \A d \in InLine' : /\ d # client_socket' /\ Untouched(d)'
                               /\ client'[d] \in {"flag", "gone"} /\ "server" \in ends'[d]
        /\ \A d \in Clients : client'[d] = "out" => d # client_socket' /\ Untouched(d)'
    BY <2>3, <2>4
  <2>10. /\ \A d \in Clients : client'[d] \in Active /\ d \notin InLine' =>
                                 backlog' = <<>> /\ client_socket' \in {d, NoClient}
         /\ server' \notin {"listen", "down", "closing again"} => "server" \in ends'[client_socket']
    BY <2>6, <2>7
  <2> HIDE <1>1, <1>2
  <2> QED BY <2>1, <2>8, <2>9, <2>5, <2>10 DEF LineInv
<1>4. ASSUME NEW d \in Clients PROVE DownFits(d)'
  <2>1. CASE client[d] \notin Active
    BY <1>1, <2>1, NoFitNeeded
  <2>2. CASE client[d] \in Active /\ d \in InLine
    <3>1. client'[d] = "flag" /\ down'[d] = <<>> /\ d \notin fresh'
      BY <1>1, <1>2, <2>2 DEF ProtocolInv, LineInv, Untouched, Active
    <3> QED BY <3>1 DEF DownFits
  <2>3. CASE client[d] \in Active /\ d \notin InLine
    <3>1. d = c
      BY <2>3, WireAssumption DEF ProtocolInv, LineInv
    <3> QED BY <2>3, <3>1
  <2> QED BY <2>1, <2>2, <2>3
<1>5. client_socket' \in Clients => UpFits(client_socket)'
  BY <1>1 DEF UpFits
<1>6. client_socket' \in Clients /\ client'[client_socket'] \in Active => InStep(client_socket)'
  BY <1>1 DEF InStep, Ahead, Stray
<1>7. \A d \in Clients : client'[d] \in {"leaf", "num", "blocks"} => traversals' < MaxCalls
  BY <1>1 DEF ProtocolInv, StreamInv
<1> QED BY <1>3, <1>4, <1>5, <1>6, <1>7 DEF ProtocolInv, StreamInv

-----------------------------------------------------------------------------
\* What streams hold, and what is left of them.
LEMMA Tokens ==
  ASSUME NEW n \in Nat \cup {Unfinished, Torn}
  PROVE  /\ Block(n) \in Token /\ <<Block(n)>> \in Seq(Token)
         /\ Blocks(n) \in Seq(Token) /\ Len(Blocks(n)) = BranchBlocks
         /\ \A i \in 1 .. BranchBlocks : Blocks(n)[i] = Block(n)
         /\ Blocks(n) # <<>> /\ Blocks(n)[1].value = n
<1>1. Block(n) \in Token
  BY DEF Block, Token
<1>2. Blocks(n) \in Seq(Token)
  BY <1>1, WireAssumption, IsASeq DEF Blocks
<1>3. Len(Blocks(n)) = BranchBlocks
  <2>1. DOMAIN Blocks(n) = 1 .. Len(Blocks(n)) /\ Len(Blocks(n)) \in Nat
    BY <1>2, LenProperties
  <2>2. DOMAIN Blocks(n) = 1 .. BranchBlocks
    BY DEF Blocks
  <2>3. BranchBlocks \in 1 .. BranchBlocks
    BY WireAssumption
  <2>4. BranchBlocks <= Len(Blocks(n)) /\ Len(Blocks(n)) \in 1 .. Len(Blocks(n))
    BY <2>1, <2>2, <2>3, WireAssumption
  <2>5. Len(Blocks(n)) <= BranchBlocks
    BY <2>1, <2>2, <2>4, WireAssumption
  <2>6. BranchBlocks \in Nat /\ Len(Blocks(n)) \in Nat
    BY <2>1, WireAssumption
  <2> QED BY <2>4, <2>5, <2>6
<1>4. \A i \in 1 .. BranchBlocks : Blocks(n)[i] = Block(n)
  BY DEF Blocks
<1>5. 1 \in 1 .. BranchBlocks
  BY WireAssumption
<1>6. Blocks(n)[1].value = n
  BY <1>4, <1>5 DEF Block
<1>7. Blocks(n) # <<>>
  BY <1>3, WireAssumption
<1> QED BY <1>1, <1>2, <1>3, <1>4, <1>6, <1>7

LEMMA SmallTokens ==
  /\ \A i \in Nat : /\ Id(i) \in Token /\ Leaf(i) \in Token /\ Digit(i) \in Token
                    /\ <<Id(i)>> \in Seq(Token) /\ <<Leaf(i)>> \in Seq(Token)
  /\ \A b \in BOOLEAN : Flag(b) \in Token /\ <<Flag(b)>> \in Seq(Token)
  /\ NumBlocks \in Seq(Token) /\ Len(NumBlocks) = 2
<1>1. \A i \in Nat : Id(i) \in Token /\ Leaf(i) \in Token /\ Digit(i) \in Token
  BY DEF Id, Leaf, Digit, Token
<1>2. \A b \in BOOLEAN : Flag(b) \in Token
  BY DEF Flag, Token
<1>3. NumBlocks \in Seq(Token) /\ Len(NumBlocks) = 2
  BY <1>1, WireAssumption DEF NumBlocks
<1> QED BY <1>1, <1>2, <1>3

\* Taking n messages.
LEMMA DropProperties ==
  ASSUME NEW S, NEW s \in Seq(S), NEW n \in Nat, n <= Len(s)
  PROVE  /\ Drop(s, n) \in Seq(S) /\ Len(Drop(s, n)) = Len(s) - n
         /\ \A i \in 1 .. Len(s) - n : Drop(s, n)[i] = s[n + i]
<1>1. Len(s) \in Nat
  BY LenProperties
<1>2. n + 1 \in 1 .. Len(s) + 1 /\ Len(s) \in 0 .. Len(s)
  BY <1>1
<1>3. \A i \in n + 1 .. Len(s) : s[i] \in S
  BY <1>1, ElementOfSeq
<1>4. /\ SubSeq(s, n + 1, Len(s)) \in Seq(S)
      /\ Len(SubSeq(s, n + 1, Len(s))) = IF n + 1 <= Len(s) THEN Len(s) - (n + 1) + 1 ELSE 0
  BY <1>1, <1>2, <1>3, SubSeqProperties
<1>5. \A i \in 1 .. Len(s) - (n + 1) + 1 : SubSeq(s, n + 1, Len(s))[i] = s[n + 1 + i - 1]
  BY <1>1, <1>2, <1>3, SubSeqProperties
<1>6. Len(s) - (n + 1) + 1 = Len(s) - n /\ (n + 1 <= Len(s) \/ Len(s) - n = 0)
  BY <1>1
<1>7. ASSUME NEW i \in 1 .. Len(s) - n PROVE SubSeq(s, n + 1, Len(s))[i] = s[n + i]
  <2>1. n + 1 + i - 1 = n + i
    OBVIOUS
  <2> QED BY <1>5, <1>6, <2>1
<1> QED BY <1>4, <1>6, <1>7 DEF Drop

LEMMA DropAll ==
  ASSUME NEW S, NEW s \in Seq(S)
  PROVE  Drop(s, Len(s)) = <<>>
<1>1. Len(s) \in Nat
  BY LenProperties
<1>2. Drop(s, Len(s)) \in Seq(S) /\ Len(Drop(s, Len(s))) = 0
  BY <1>1, DropProperties
<1> QED BY <1>2, EmptySeq

\* Sending leaves what is on its way where it is.
LEMMA StartOfConcat ==
  ASSUME NEW S, NEW s \in Seq(S), NEW t \in Seq(S), NEW i \in 1 .. Len(s)
  PROVE  (s \o t)[i] = s[i]
<1>1. Len(s) \in Nat /\ Len(t) \in Nat
  BY LenProperties
<1>2. i \in 1 .. Len(s) + Len(t) /\ i <= Len(s)
  BY <1>1
<1> QED BY <1>2, ConcatProperties

\* What was sent after n messages is left when they have been taken.
LEMMA DropConcat ==
  ASSUME NEW S, NEW s \in Seq(S), NEW t \in Seq(S)
  PROVE  Drop(s \o t, Len(s)) = t
<1>1. Len(s) \in Nat /\ Len(t) \in Nat
  BY LenProperties
<1>2. /\ s \o t \in Seq(S) /\ Len(s \o t) = Len(s) + Len(t)
      /\ \A i \in 1 .. Len(s) + Len(t) : (s \o t)[i] = IF i <= Len(s) THEN s[i] ELSE t[i - Len(s)]
  BY ConcatProperties
<1>3. /\ Drop(s \o t, Len(s)) \in Seq(S) /\ Len(Drop(s \o t, Len(s))) = Len(t)
      /\ \A i \in 1 .. Len(t) : Drop(s \o t, Len(s))[i] = (s \o t)[Len(s) + i]
  <2>1. Len(s \o t) - Len(s) = Len(t) /\ Len(s) <= Len(s \o t)
    BY <1>1, <1>2
  <2>2. /\ Drop(s \o t, Len(s)) \in Seq(S) /\ Len(Drop(s \o t, Len(s))) = Len(s \o t) - Len(s)
        /\ \A i \in 1 .. Len(s \o t) - Len(s) : Drop(s \o t, Len(s))[i] = (s \o t)[Len(s) + i]
    BY <1>1, <1>2, <2>1, DropProperties
  <2> QED BY <2>1, <2>2
<1>4. ASSUME NEW i \in 1 .. Len(t) PROVE Drop(s \o t, Len(s))[i] = t[i]
  <2>1. Len(s) + i \in 1 .. Len(s) + Len(t) /\ ~(Len(s) + i <= Len(s)) /\ Len(s) + i - Len(s) = i
    BY <1>1
  <2> QED BY <1>2, <1>3, <2>1
<1> QED BY <1>3, <1>4, SeqEqual

LEMMA DropFirst ==
  ASSUME NEW a, NEW b
  PROVE  /\ Drop(<<a>>, 1) = <<>> /\ Drop(<<a, b>>, 1) = <<b>> /\ Drop(<<a, b>>, 2) = <<>>
         /\ <<a>> \o <<b>> = <<a, b>>
<1>1. <<a>> \in Seq({a, b}) /\ <<a, b>> \in Seq({a, b}) /\ <<b>> \in Seq({a, b})
  OBVIOUS
<1>2. Len(<<a>>) = 1 /\ Len(<<a, b>>) = 2 /\ Len(<<b>>) = 1
  OBVIOUS
<1>3. <<a>> \o <<b>> = <<a, b>>
  <2>1. /\ <<a>> \o <<b>> \in Seq({a, b}) /\ Len(<<a>> \o <<b>>) = 2
        /\ \A i \in 1 .. 2 : (<<a>> \o <<b>>)[i] = IF i <= 1 THEN <<a>>[i] ELSE <<b>>[i - 1]
    BY <1>1, <1>2, ConcatProperties
  <2>2. (<<a>> \o <<b>>)[1] = a /\ (<<a>> \o <<b>>)[2] = b
    BY <2>1
  <2>3. <<a, b>>[1] = a /\ <<a, b>>[2] = b
    OBVIOUS
  <2>4. ASSUME NEW i \in 1 .. 2 PROVE (<<a>> \o <<b>>)[i] = <<a, b>>[i]
    <3>1. i = 1 \/ i = 2
      OBVIOUS
    <3> QED BY <2>2, <2>3, <3>1
  <2>5. <<a>> \o <<b>> \in Seq({a, b}) /\ Len(<<a>> \o <<b>>) = Len(<<a, b>>)
    BY <1>2, <2>1
  <2> HIDE <2>1, <2>2
  <2> QED BY <1>1, <1>2, <2>4, <2>5, SeqEqual
<1>4. Drop(<<a>>, 1) = <<>> /\ Drop(<<a, b>>, 2) = <<>>
  BY <1>1, <1>2, DropAll
<1>5. Drop(<<a, b>>, 1) = <<b>>
  BY <1>1, <1>2, <1>3, DropConcat
<1> QED BY <1>3, <1>4, <1>5

LEMMA Shapes ==
  ASSUME NEW a, NEW b, NEW x
  PROVE  /\ Head(<<a>>) = a /\ Head(<<a, b>>) = a
         /\ Len(<<>>) = 0 /\ Len(<<a>>) = 1 /\ Len(<<a, b>>) = 2
         /\ <<a>> # <<>> /\ <<a, b>> # <<>> /\ <<a, b>> # <<x>> /\ (a # x => <<a>> # <<x>>)
         /\ <<a>>[1] = a /\ <<a, b>>[1] = a /\ <<a, b>>[2] = b
  OBVIOUS

\* The streams of the handshake.
LEMMA FlagStreams ==
  /\ Head(<<Flag(FALSE)>>).value = 0 /\ Drop(<<Flag(FALSE)>>, 1) = <<>>
  /\ Head(<<Flag(TRUE)>>).value # 0 /\ Drop(<<Flag(TRUE)>>, 1) = <<>>
  /\ Head(<<Flag(TRUE), Flag(TRUE)>>).value # 0
  /\ Drop(<<Flag(TRUE), Flag(TRUE)>>, 1) = <<Flag(TRUE)>>
  /\ <<Flag(TRUE)>> # <<Flag(FALSE)>> /\ <<Flag(TRUE), Flag(TRUE)>> # <<Flag(FALSE)>>
  /\ <<Flag(TRUE), Flag(TRUE)>> # <<Flag(TRUE)>> /\ <<Flag(FALSE)>> # <<>>
  /\ <<Flag(TRUE)>> # <<>> /\ <<Flag(TRUE), Flag(TRUE)>> # <<>>
  /\ Len(<<Flag(TRUE)>>) = 1
  /\ <<>> \o <<Flag(TRUE)>> = <<Flag(TRUE)>> /\ <<>> \o <<Flag(FALSE)>> = <<Flag(FALSE)>>
  /\ <<Flag(TRUE)>> \o <<Flag(TRUE)>> = <<Flag(TRUE), Flag(TRUE)>>
<1> DEFINE F == Flag(FALSE) T == Flag(TRUE)
<1>1. F.value = 0 /\ T.value # 0 /\ T # F
  BY DEF Flag
<1>2. /\ Drop(<<F>>, 1) = <<>> /\ Drop(<<T>>, 1) = <<>> /\ Drop(<<T, T>>, 1) = <<T>>
      /\ <<T>> \o <<T>> = <<T, T>>
  <2> HIDE DEF F, T
  <2> QED BY DropFirst
<1>3. /\ Head(<<F>>) = F /\ Head(<<T>>) = T /\ Head(<<T, T>>) = T
      /\ <<T, T>> # <<F>> /\ <<T, T>> # <<T>> /\ <<F>> # <<>> /\ <<T>> # <<>>
      /\ <<T, T>> # <<>> /\ Len(<<T>>) = 1
  <2> HIDE DEF F, T
  <2> QED BY Shapes
<1>4. <<T>> # <<F>>
  <2> HIDE DEF F, T
  <2> QED BY <1>1
<1>5. <<>> \o <<T>> = <<T>> /\ <<>> \o <<F>> = <<F>>
  <2> HIDE DEF F, T
  <2>1. <<T>> \in Seq({F, T}) /\ <<F>> \in Seq({F, T})
    OBVIOUS
  <2> QED BY <2>1, ConcatEmptySeq
<1> HIDE DEF F, T
<1>6. /\ Head(<<F>>).value = 0 /\ Head(<<T>>).value # 0 /\ Head(<<T, T>>).value # 0
  BY <1>1, <1>3
<1> QED BY <1>2, <1>3, <1>4, <1>5, <1>6 DEF F, T

\* The two streams of a connection.
LEMMA Streams ==
  ASSUME TypeOK, NEW c \in Clients
  PROVE  /\ up[c] \in Seq(Token) /\ down[c] \in Seq(Token)
         /\ Len(up[c]) \in Nat /\ Len(down[c]) \in Nat
         /\ down[c] # <<>> <=> Len(down[c]) >= 1
         /\ up[c] # <<>> <=> Len(up[c]) >= 1
<1>1. up[c] \in Seq(Token) /\ down[c] \in Seq(Token)
  BY DEF TypeOK
<1>2. Len(up[c]) \in Nat /\ Len(down[c]) \in Nat
  BY <1>1, LenProperties
<1>3. (down[c] # <<>> => Len(down[c]) >= 1) /\ (up[c] # <<>> => Len(up[c]) >= 1)
  BY <1>1, <1>2, EmptySeq
<1>4. Len(<<>>) = 0
  OBVIOUS
<1> QED BY <1>1, <1>2, <1>3, <1>4

LEMMA ClientAppends ==
  ASSUME TypeOK, NEW c \in Clients, NEW s \in Seq(Token), Send("client", c, s)
  PROVE  /\ up' \in [Clients -> Seq(Token)] /\ down' = down
         /\ \A d \in Clients \ {c} : up'[d] = up[d]
         /\ "server" \in ends[c] => up'[c] = up[c] \o s /\ Len(up'[c]) = Len(up[c]) + Len(s)
<1>1. up[c] \in Seq(Token) /\ up \in [Clients -> Seq(Token)]
  BY DEF TypeOK
<1>2. up[c] \o s \in Seq(Token) /\ Len(up[c] \o s) = Len(up[c]) + Len(s)
  BY <1>1, ConcatProperties
<1> QED BY <1>1, <1>2 DEF Send

LEMMA ServerAppends ==
  ASSUME TypeOK, NEW c \in Clients, NEW s \in Seq(Token), Send("server", c, s)
  PROVE  /\ down' \in [Clients -> Seq(Token)] /\ up' = up
         /\ \A d \in Clients \ {c} : down'[d] = down[d]
         /\ "client" \in ends[c] => down'[c] = down[c] \o s /\ Len(down'[c]) = Len(down[c]) + Len(s)
<1>1. down[c] \in Seq(Token) /\ down \in [Clients -> Seq(Token)]
  BY DEF TypeOK
<1>2. down[c] \o s \in Seq(Token) /\ Len(down[c] \o s) = Len(down[c]) + Len(s)
  BY <1>1, ConcatProperties
<1> QED BY <1>1, <1>2 DEF Send

LEMMA ClientDrops ==
  ASSUME TypeOK, NEW c \in Clients, NEW n \in Nat, Receive("client", c, n)
  PROVE  /\ down' \in [Clients -> Seq(Token)] /\ up' = up /\ Len(down[c]) >= n
         /\ \A d \in Clients \ {c} : down'[d] = down[d]
         /\ down'[c] = Drop(down[c], n) /\ Len(down'[c]) = Len(down[c]) - n
<1>1. down[c] \in Seq(Token) /\ down \in [Clients -> Seq(Token)] /\ Len(down[c]) \in Nat
  BY Streams DEF TypeOK
<1>2. Len(down[c]) >= n /\ down' = [down EXCEPT ![c] = Drop(@, n)] /\ up' = up
  BY DEF Receive
<1>3. Drop(down[c], n) \in Seq(Token) /\ Len(Drop(down[c], n)) = Len(down[c]) - n
  BY <1>1, <1>2, DropProperties
<1> QED BY <1>1, <1>2, <1>3

LEMMA ServerDrops ==
  ASSUME TypeOK, NEW c \in Clients, NEW n \in Nat, Receive("server", c, n)
  PROVE  /\ up' \in [Clients -> Seq(Token)] /\ down' = down /\ Len(up[c]) >= n
         /\ \A d \in Clients \ {c} : up'[d] = up[d]
         /\ up'[c] = Drop(up[c], n) /\ Len(up'[c]) = Len(up[c]) - n
<1>1. up[c] \in Seq(Token) /\ up \in [Clients -> Seq(Token)] /\ Len(up[c]) \in Nat
  BY Streams DEF TypeOK
<1>2. Len(up[c]) >= n /\ up' = [up EXCEPT ![c] = Drop(@, n)] /\ down' = down
  BY DEF Receive
<1>3. Drop(up[c], n) \in Seq(Token) /\ Len(Drop(up[c], n)) = Len(up[c]) - n
  BY <1>1, <1>2, DropProperties
<1> QED BY <1>1, <1>2, <1>3

LEMMA EndCloses ==
  ASSUME TypeOK, NEW c \in Clients, NEW end \in {"client", "server"}, Close(end, c)
  PROVE  /\ up' \in [Clients -> Seq(Token)] /\ down' \in [Clients -> Seq(Token)]
         /\ ends' \in [Clients -> SUBSET {"client", "server"}]
         /\ ends'[c] = ends[c] \ {end}
         /\ \A d \in Clients \ {c} : up'[d] = up[d] /\ down'[d] = down[d] /\ ends'[d] = ends[d]
         /\ end = "client" => up' = up /\ down'[c] = <<>>
         /\ end = "server" => down' = down /\ up'[c] = <<>>
<1>1. /\ up \in [Clients -> Seq(Token)] /\ down \in [Clients -> Seq(Token)]
      /\ ends \in [Clients -> SUBSET {"client", "server"}]
  BY DEF TypeOK
<1>2. <<>> \in Seq(Token)
  BY EmptySeq
<1>3. ends' = [ends EXCEPT ![c] = @ \ {end}]
  BY DEF Close
<1>4. /\ ends' \in [Clients -> SUBSET {"client", "server"}] /\ ends'[c] = ends[c] \ {end}
      /\ \A d \in Clients \ {c} : ends'[d] = ends[d]
  BY <1>1, <1>3
<1>5. CASE end = "client"
  BY <1>1, <1>2, <1>4, <1>5 DEF Close
<1>6. CASE end = "server"
  BY <1>1, <1>2, <1>4, <1>6 DEF Close
<1> QED BY <1>5, <1>6

\* A client that has something to read, or is beyond its first step, has been
\* accepted, and the server, if it serves anyone, serves this client.
LEMMA Accepted ==
  ASSUME ProtocolInv, NEW c \in Clients, client[c] \in Active,
         client[c] # "flag" \/ down[c] # <<>> \/ "server" \notin ends[c]
  PROVE  /\ c \notin InLine /\ client_socket \in {c, NoClient} /\ backlog = <<>>
         /\ DownFits(c) /\ "client" \in ends[c]
         /\ client_socket = c => UpFits(c) /\ InStep(c)
         /\ client_socket = c /\ server \notin {"closing", "closing again"} => "server" \in ends[c]
         /\ \A d \in Clients \ {c} : ~Running(d)
         /\ client[c] # "gone" /\ Running(c)
<1>1. c \notin InLine
  BY DEF ProtocolInv, LineInv, Untouched, Active
<1>2. Running(c) /\ client[c] # "gone"
  BY DEF Running, Active
<1>3. client_socket = c => server \notin {"listen", "down"}
  <2>1. NoClient # c /\ (client_socket = NoClient) = (server \in {"listen", "down"})
    BY WireAssumption DEF ProtocolInv, TypeOK
  <2> QED BY <2>1
<1> QED BY <1>1, <1>2, <1>3 DEF ProtocolInv, LineInv, StreamInv

-----------------------------------------------------------------------------
\* The steps of a client.
Places == {"out", "flag", "upload", "uploaded", "ready", "leaf", "num", "blocks", "send",
           "confirm", "save", "write", "unusable", "unloaded", "shut down", "quitting",
           "last write", "gone"}

LEMMA ClientTypes ==
  ASSUME TypeOK, NEW c \in Clients, NEW place \in Places,
         client' = [client EXCEPT ![c] = place],
         up' \in [Clients -> Seq(Token)], down' \in [Clients -> Seq(Token)],
         ends' \in [Clients -> SUBSET {"client", "server"}], expected' \in [Clients -> Nat],
         maps' \in Versions, oram_state' \in Versions, fresh' \subseteq Clients,
         mishaps' \subseteq {"call failed late", "saved unloaded maps", "crash before the save",
                             "make clear"},
         traversals' \in 0 .. MaxCalls, UNCHANGED <<serverVars, fdb, restarts, clears>>
  PROVE  TypeOK' /\ UNCHANGED <<serverVars, tree>>
<1>1. client' \in [Clients -> Places]
  BY DEF TypeOK, Places
<1>2. /\ server' = server /\ client_socket' = client_socket /\ backlog' = backlog
      /\ uploaded' = uploaded /\ branch' = branch /\ tree' = tree
      /\ fdb_is_initialized' = fdb_is_initialized
      /\ restarts' = restarts /\ clears' = clears
  BY DEF serverVars, fdb
<1>3. TypeOK'
  BY <1>1, <1>2 DEF TypeOK, Places
<1> QED BY <1>2, <1>3

LEMMA ProtocolReceiveFlag ==
  ASSUME ProtocolInv, NEW c \in Clients, ReceiveFlag(c)
  PROVE  ProtocolInv'
<1>1. /\ client[c] = "flag" /\ Receive("client", c, 1)
      /\ UNCHANGED <<maps, oram_state, ends, serverVars, fdb, mishaps, counters>>
  BY DEF ReceiveFlag
<1>2. TypeOK
  BY DEF ProtocolInv
<1>3. /\ down' \in [Clients -> Seq(Token)] /\ up' = up /\ Len(down[c]) >= 1
      /\ \A d \in Clients \ {c} : down'[d] = down[d]
      /\ down'[c] = Drop(down[c], 1)
  BY <1>1, <1>2, ClientDrops
<1>4. down[c] # <<>>
  BY <1>2, <1>3, Streams
<1>5. /\ c \notin InLine /\ DownFits(c) /\ client[c] # "gone"
      /\ client_socket = c => UpFits(c) /\ InStep(c)
      /\ \A d \in Clients \ {c} : ~Running(d)
  BY <1>1, <1>4, Accepted DEF Active
<1>6. c \notin fresh /\ down[c] \in {<<Flag(FALSE)>>, <<Flag(TRUE)>>, <<Flag(TRUE), Flag(TRUE)>>}
  BY <1>1, <1>4, <1>5 DEF DownFits
<1>7. server' = server /\ uploaded' = uploaded /\ branch' = branch /\ tree' = tree
  BY <1>1 DEF serverVars, fdb
<1>8. client_socket = c => UpFits(c)'
  BY <1>3, <1>5, <1>7 DEF UpFits
<1>10. CASE down[c] = <<Flag(FALSE)>>
  <2>1. /\ down'[c] = <<>> /\ Head(down[c]).value = 0
        /\ down[c] \notin {<<>>, <<Flag(TRUE)>>, <<Flag(TRUE), Flag(TRUE)>>}
    BY <1>3, <1>10, FlagStreams
  <2>2. /\ client' = [client EXCEPT ![c] = "upload"]
        /\ expected' = [expected EXCEPT ![c] = Buckets] /\ fresh' = fresh \cup {c}
    BY <2>1 DEF ReceiveFlag, Goto
  <2>3. TypeOK' /\ UNCHANGED <<serverVars, tree>>
    <3>1. expected' \in [Clients -> Nat] /\ fresh' \subseteq Clients
      BY <1>2, <2>2, WireAssumption DEF TypeOK
    <3> QED BY <1>1, <1>2, <1>3, <2>2, <3>1, ClientTypes DEF Places, TypeOK, counters
  <2>4. client'[c] = "upload" /\ expected'[c] = Buckets
    BY <1>2, <2>2 DEF TypeOK
  <2>5. DownFits(c)'
    BY <2>1, <2>2, <2>4, WireAssumption DEF DownFits
  <2>6. client_socket = c => InStep(c)'
    <3>1. SUFFICES ASSUME client_socket = c PROVE InStep(c)'
      OBVIOUS
    <3>2. server \in {"receive tree", "closing", "closing again", "listen", "down"}
          /\ (server = "receive tree" => uploaded = 0 /\ up[c] = <<>>)
      BY <1>1, <1>2, <1>5, <2>1, <3>1 DEF InStep, Ahead, TypeOK
    <3>3. server = "receive tree" => uploaded + Len(up[c]) + Buckets = Buckets
      <4>1. SUFFICES ASSUME server = "receive tree" PROVE uploaded + Len(up[c]) + Buckets = Buckets
        OBVIOUS
      <4>2. uploaded = 0 /\ up[c] = <<>>
        BY <3>2, <4>1
      <4>3. Len(up[c]) = 0
        BY <4>2, Shapes
      <4> QED BY <4>2, <4>3, WireAssumption
    <3> QED BY <1>3, <1>7, <2>1, <2>4, <3>2, <3>3 DEF InStep
  <2> QED
    BY <1>1, <1>3, <1>5, <1>8, <2>2, <2>3, <2>5, <2>6, ClientMoves DEF Active
<1>11. CASE down[c] # <<Flag(FALSE)>>
  <2>1. \/ down[c] = <<Flag(TRUE)>> /\ down'[c] = <<>>
        \/ down[c] = <<Flag(TRUE), Flag(TRUE)>> /\ down'[c] = <<Flag(TRUE)>>
    <3>1. CASE down[c] = <<Flag(TRUE)>>
      BY <1>3, <3>1, FlagStreams
    <3>2. CASE down[c] = <<Flag(TRUE), Flag(TRUE)>>
      BY <1>3, <3>2, FlagStreams
    <3> QED BY <1>6, <1>11, <3>1, <3>2
  <2>7. /\ Head(down[c]).value # 0 /\ down[c] \notin {<<>>, <<Flag(FALSE)>>}
        /\ (down[c] = <<Flag(TRUE)>>) <=> (down'[c] = <<>>)
        /\ down[c] = <<Flag(TRUE), Flag(TRUE)>> => Len(down'[c]) = 1
    <3>1. CASE down[c] = <<Flag(TRUE)>> /\ down'[c] = <<>>
      BY <3>1, FlagStreams
    <3>2. CASE down[c] = <<Flag(TRUE), Flag(TRUE)>> /\ down'[c] = <<Flag(TRUE)>>
      BY <3>2, FlagStreams
    <3> QED BY <2>1, <3>1, <3>2
  <2>2. client' = [client EXCEPT ![c] = "ready"] /\ expected' = expected /\ fresh' = fresh
    <3>1. Head(down[c]).value # 0
      BY <2>7
    <3>2. Goto(c, "ready") /\ UNCHANGED <<expected, fresh>>
      BY <3>1 DEF ReceiveFlag
    <3> QED BY <3>2 DEF Goto
  <2>3. TypeOK' /\ UNCHANGED <<serverVars, tree>>
    BY <1>1, <1>2, <1>3, <2>2, ClientTypes DEF Places, TypeOK, counters
  <2>4. client'[c] = "ready"
    BY <1>2, <2>2 DEF TypeOK
  <2>5. DownFits(c)'
    BY <1>6, <2>1, <2>2, <2>4 DEF DownFits
  <2>6. client_socket = c => InStep(c)'
    <3>1. SUFFICES ASSUME client_socket = c PROVE InStep(c)'
      OBVIOUS
    <3>2. /\ server \in {"announce", "request", "closing", "closing again", "listen", "down"}
          /\ server = "announce" => up[c] = <<>> /\ down'[c] = <<>>
          /\ server = "request" => up[c] = <<>> /\ Len(down'[c]) = 1
      <4>1. client[c] = "flag" /\ InStep(c) /\ down[c] # <<>> /\ down[c] # <<Flag(FALSE)>>
        BY <1>1, <1>5, <2>7, <3>1
      <4>2. server \in {"announce", "request", "closing", "closing again", "listen", "down"}
        BY <1>2, <4>1 DEF InStep, Ahead, TypeOK
      <4>3. server = "announce" => up[c] = <<>> /\ down[c] = <<Flag(TRUE)>>
        BY <4>1 DEF InStep, Ahead
      <4>4. server = "request" => up[c] = <<>> /\ down[c] = <<Flag(TRUE), Flag(TRUE)>>
        BY <4>1 DEF InStep, Ahead
      <4> QED BY <2>7, <4>2, <4>3, <4>4
    <3> QED BY <1>3, <1>6, <1>7, <2>2, <2>4, <3>2 DEF InStep, Ahead, Stray
  <2> QED
    BY <1>1, <1>3, <1>5, <1>8, <2>2, <2>3, <2>5, <2>6, ClientMoves DEF Active
<1> QED BY <1>10, <1>11

LEMMA ProtocolReceiveSecondFlag ==
  ASSUME ProtocolInv, NEW c \in Clients, ReceiveSecondFlag(c)
  PROVE  ProtocolInv'
<1>1. /\ client[c] = "uploaded" /\ Receive("client", c, 1)
      /\ UNCHANGED <<expected, maps, oram_state, ends, serverVars, fdb, history, counters>>
  BY DEF ReceiveSecondFlag
<1>2. TypeOK
  BY DEF ProtocolInv
<1>3. /\ down' \in [Clients -> Seq(Token)] /\ up' = up /\ Len(down[c]) >= 1
      /\ \A d \in Clients \ {c} : down'[d] = down[d]
      /\ down'[c] = Drop(down[c], 1)
  BY <1>1, <1>2, ClientDrops
<1>4. down[c] # <<>>
  BY <1>2, <1>3, Streams
<1>5. /\ c \notin InLine /\ DownFits(c) /\ client[c] # "gone"
      /\ client_socket = c => UpFits(c) /\ InStep(c)
      /\ \A d \in Clients \ {c} : ~Running(d)
  BY <1>1, <1>4, Accepted DEF Active
<1>6. c \in fresh /\ down[c] = <<Flag(TRUE)>>
  BY <1>1, <1>4, <1>5 DEF DownFits
<1>7. server' = server /\ uploaded' = uploaded /\ branch' = branch /\ tree' = tree /\ fresh' = fresh
  BY <1>1 DEF serverVars, fdb, history
<1>8. client_socket = c => UpFits(c)'
  BY <1>3, <1>5, <1>7 DEF UpFits
<1>9. down'[c] = <<>> /\ Head(down[c]).value # 0
  BY <1>3, <1>6, FlagStreams
<1>10. client' = [client EXCEPT ![c] = "ready"]
  BY <1>9 DEF ReceiveSecondFlag, Goto
<1>11. TypeOK' /\ UNCHANGED <<serverVars, tree>>
  BY <1>1, <1>2, <1>3, <1>10, ClientTypes DEF Places, TypeOK, counters, history
<1>12. client'[c] = "ready"
  BY <1>2, <1>10 DEF TypeOK
<1>13. DownFits(c)'
  BY <1>9, <1>12 DEF DownFits
<1>14. client_socket = c => InStep(c)'
  <2>1. SUFFICES ASSUME client_socket = c PROVE InStep(c)'
    OBVIOUS
  <2>2. server \in {"request", "closing", "closing again", "listen", "down"}
    BY <1>1, <1>2, <1>4, <1>5, <2>1 DEF InStep, Ahead, TypeOK
  <2>3. server = "request" => up[c] = <<>>
    BY <1>1, <1>5, <2>1 DEF InStep, Ahead
  <2>4. Len(down'[c]) = 0
    BY <1>9, Shapes
  <2> QED BY <1>3, <1>6, <1>7, <1>12, <2>2, <2>3, <2>4 DEF InStep, Ahead, Stray
<1> QED BY <1>1, <1>3, <1>5, <1>7, <1>8, <1>10, <1>11, <1>13, <1>14, ClientMoves DEF Active

LEMMA ProtocolUploadBucket ==
  ASSUME ProtocolInv, NEW c \in Clients, UploadBucket(c)
  PROVE  ProtocolInv'
<1> DEFINE place == IF expected[c] = 1 THEN "uploaded" ELSE "upload"
<1>1. /\ client[c] = "upload" /\ expected[c] > 0 /\ Send("client", c, <<Block(0)>>)
      /\ expected' = [expected EXCEPT ![c] = @ - 1] /\ client' = [client EXCEPT ![c] = place]
      /\ UNCHANGED <<maps, oram_state, ends, serverVars, fdb, history, counters>>
  BY DEF UploadBucket, Goto
<1>2. TypeOK
  BY DEF ProtocolInv
<1>3. Block(0) \in Token /\ <<Block(0)>> \in Seq(Token) /\ Len(<<Block(0)>>) = 1
  BY Tokens, Shapes
<1>4. /\ up' \in [Clients -> Seq(Token)] /\ down' = down
      /\ \A d \in Clients \ {c} : up'[d] = up[d]
      /\ "server" \in ends[c] => up'[c] = up[c] \o <<Block(0)>> /\ Len(up'[c]) = Len(up[c]) + 1
  BY <1>1, <1>2, <1>3, ClientAppends
<1>5. /\ c \notin InLine /\ DownFits(c) /\ client[c] # "gone"
      /\ client_socket = c => UpFits(c) /\ InStep(c)
      /\ client_socket = c /\ server \notin {"closing", "closing again"} => "server" \in ends[c]
      /\ \A d \in Clients \ {c} : ~Running(d)
  BY <1>1, Accepted DEF Active
<1>6. c \in fresh /\ down[c] = <<>>
  BY <1>1, <1>5 DEF DownFits
<1>7. server' = server /\ uploaded' = uploaded /\ branch' = branch /\ tree' = tree /\ fresh' = fresh
  BY <1>1 DEF serverVars, fdb, history
<1>8. expected[c] \in Nat /\ expected' \in [Clients -> Nat] /\ expected'[c] = expected[c] - 1
  <2>1. expected \in [Clients -> Nat]
    BY <1>2 DEF TypeOK
  <2>2. expected[c] \in Nat /\ expected[c] - 1 \in Nat
    BY <1>1, <2>1
  <2> QED BY <1>1, <2>1, <2>2
<1>9. TypeOK' /\ UNCHANGED <<serverVars, tree>>
  BY <1>1, <1>2, <1>4, <1>8, ClientTypes DEF Places, TypeOK, counters, history
<1>10. client'[c] = place
  BY <1>1, <1>2 DEF TypeOK
<1>11. DownFits(c)'
  <2>1. CASE expected[c] = 1
    BY <1>4, <1>6, <1>7, <1>8, <1>10, <2>1 DEF DownFits
  <2>2. CASE expected[c] # 1
    BY <1>1, <1>4, <1>6, <1>7, <1>8, <1>10, <2>2 DEF DownFits
  <2> QED BY <2>1, <2>2
<1>12. ASSUME client_socket = c
       PROVE  /\ server \in {"receive tree", "closing", "closing again", "listen", "down"}
              /\ server = "receive tree" => /\ uploaded + Len(up[c]) + expected[c] = Buckets
                                            /\ up'[c] = up[c] \o <<Block(0)>>
                                            /\ Len(up'[c]) = Len(up[c]) + 1
  <2>1. InStep(c) /\ client[c] = "upload"
    BY <1>1, <1>5, <1>12
  <2>2. server \in {"receive tree", "closing", "closing again", "listen", "down"}
    BY <1>2, <2>1 DEF InStep, Ahead, TypeOK
  <2>3. server = "receive tree" => uploaded + Len(up[c]) + expected[c] = Buckets
    BY <2>1 DEF InStep
  <2> QED BY <1>4, <1>5, <1>12, <2>2, <2>3
<1>13. /\ Len(up[c]) \in Nat /\ uploaded \in Nat /\ Buckets \in Nat /\ up[c] \in Seq(Token)
  <2>1. uploaded \in 0 .. Buckets /\ Buckets \in Nat
    BY <1>2, WireAssumption DEF TypeOK
  <2> QED BY <1>2, <2>1, Streams
<1>14. client_socket = c => UpFits(c)'
  <2>1. SUFFICES ASSUME client_socket = c, server = "receive tree" PROVE UpFits(c)'
    BY <1>7, <1>12 DEF UpFits
  <2>2. uploaded + Len(up'[c]) <= Buckets
    <3>1. /\ uploaded + Len(up[c]) + expected[c] = Buckets
          /\ Len(up'[c]) = Len(up[c]) + 1
      BY <1>12, <2>1
    <3> QED BY <1>1, <1>8, <1>13, <3>1
  <2>3. ASSUME NEW i \in 1 .. Len(up'[c]) PROVE up'[c][i] = Block(0)
    <3>1. \A j \in 1 .. Len(up[c]) : up[c][j] = Block(0)
      BY <1>5, <2>1 DEF UpFits
    <3>2. up'[c][i] = IF i <= Len(up[c]) THEN up[c][i] ELSE <<Block(0)>>[i - Len(up[c])]
      <4>1. up'[c] = up[c] \o <<Block(0)>> /\ Len(up'[c]) = Len(up[c]) + Len(<<Block(0)>>)
        BY <1>3, <1>12, <2>1
      <4>2. \A j \in 1 .. Len(up[c]) + Len(<<Block(0)>>) :
              (up[c] \o <<Block(0)>>)[j] = IF j <= Len(up[c]) THEN up[c][j] ELSE <<Block(0)>>[j - Len(up[c])]
        BY <1>3, <1>13, ConcatProperties
      <4> QED BY <4>1, <4>2
    <3>3. CASE i <= Len(up[c])
      BY <1>13, <3>1, <3>2, <3>3
    <3>4. CASE ~(i <= Len(up[c]))
      <4>1. Len(up'[c]) = Len(up[c]) + 1
        BY <1>12, <2>1
      <4>2. i - Len(up[c]) = 1
        BY <1>13, <3>4, <4>1
      <4>3. <<Block(0)>>[1] = Block(0)
        OBVIOUS
      <4> QED BY <3>2, <3>4, <4>2, <4>3
    <3> QED BY <3>3, <3>4
  <2> QED BY <1>7, <2>1, <2>2, <2>3 DEF UpFits
<1>15. client_socket = c => InStep(c)'
  <2>1. SUFFICES ASSUME client_socket = c PROVE InStep(c)'
    OBVIOUS
  <2>2. server = "receive tree" => uploaded + Len(up'[c]) + expected'[c] = Buckets
    <3>1. SUFFICES ASSUME server = "receive tree"
                   PROVE  uploaded + Len(up'[c]) + expected'[c] = Buckets
      OBVIOUS
    <3>2. /\ uploaded + Len(up[c]) + expected[c] = Buckets
          /\ Len(up'[c]) = Len(up[c]) + 1
      BY <1>12, <2>1, <3>1
    <3> QED BY <1>8, <1>13, <3>2
  <2>3. client'[c] \in {"upload", "uploaded"}
    BY <1>10
  <2> QED BY <1>4, <1>6, <1>7, <1>12, <2>1, <2>2, <2>3 DEF InStep
<1>16. place \in Active /\ place \notin {"out", "leaf", "num", "blocks"}
  BY DEF Active
<1> HIDE DEF place
<1> QED BY <1>1, <1>4, <1>5, <1>7, <1>9, <1>11, <1>14, <1>15, <1>16, ClientMoves DEF Active

\* What every step has in common in which a client sends something.
LEMMA SendFrame ==
  ASSUME ProtocolInv, NEW c \in Clients, NEW s \in Seq(Token), NEW place \in Places \cap Active,
         client[c] \in Active \ {"flag"}, Send("client", c, s), Goto(c, place), place # "out",
         UNCHANGED <<expected, maps, oram_state, ends, serverVars, fdb, history, counters>>
  PROVE  /\ client'[c] = place /\ down' = down /\ server' = server /\ tree' = tree /\ maps' = maps
         /\ uploaded' = uploaded /\ branch' = branch /\ fresh' = fresh /\ expected' = expected
         /\ DownFits(c)
         /\ client_socket = c => UpFits(c) /\ InStep(c)
         /\ client_socket = c => server \notin {"listen", "down"}
         /\ client_socket = c /\ server \notin {"closing", "closing again"} =>
              up'[c] = up[c] \o s
         /\ (/\ DownFits(c)'
             /\ client_socket = c => UpFits(c)' /\ InStep(c)'
             /\ place \in {"leaf", "num", "blocks"} => traversals < MaxCalls) => ProtocolInv'
<1>1. TypeOK
  BY DEF ProtocolInv
<1>2. client' = [client EXCEPT ![c] = place]
  BY DEF Goto
<1>3. /\ up' \in [Clients -> Seq(Token)] /\ down' = down
      /\ \A d \in Clients \ {c} : up'[d] = up[d]
      /\ "server" \in ends[c] => up'[c] = up[c] \o s
  BY <1>1, ClientAppends
<1>4. /\ c \notin InLine /\ DownFits(c) /\ client[c] # "gone"
      /\ client_socket = c => UpFits(c) /\ InStep(c)
      /\ client_socket = c /\ server \notin {"closing", "closing again"} => "server" \in ends[c]
      /\ \A d \in Clients \ {c} : ~Running(d)
  BY Accepted
<1>5. /\ server' = server /\ uploaded' = uploaded /\ branch' = branch /\ tree' = tree
      /\ fresh' = fresh /\ traversals' = traversals /\ ends' = ends
  BY DEF serverVars, fdb, history, counters
<1>6. TypeOK' /\ UNCHANGED <<serverVars, tree>>
  BY <1>1, <1>2, <1>3, ClientTypes DEF TypeOK, counters, history
<1>7. client'[c] = place
  BY <1>1, <1>2 DEF TypeOK
<1>8. client_socket = c => server \notin {"listen", "down"}
  <2>1. NoClient # c /\ (client_socket = NoClient) = (server \in {"listen", "down"})
    BY <1>1, WireAssumption DEF TypeOK
  <2> QED BY <2>1
<1>9. ASSUME DownFits(c)', client_socket = c => UpFits(c)' /\ InStep(c)',
             place \in {"leaf", "num", "blocks"} => traversals < MaxCalls
      PROVE  ProtocolInv'
  BY <1>2, <1>3, <1>4, <1>5, <1>6, <1>9, ClientMoves
<1> QED BY <1>3, <1>4, <1>5, <1>7, <1>8, <1>9

LEMMA ProtocolSendRequest ==
  ASSUME ProtocolInv, NEW c \in Clients, SendRequest(c)
  PROVE  ProtocolInv'
<1>1. /\ client[c] = "ready" /\ traversals < MaxCalls
      /\ Send("client", c, <<Id(1)>>) /\ Goto(c, "leaf")
      /\ UNCHANGED <<expected, maps, oram_state, ends, serverVars, fdb, history, counters>>
  BY DEF SendRequest
<1>2. <<Id(1)>> \in Seq(Token) /\ "leaf" \in Places \cap Active /\ "ready" \in Active \ {"flag"}
  BY SmallTokens DEF Places, Active
<1>3. /\ client'[c] = "leaf" /\ down' = down /\ server' = server /\ fresh' = fresh
      /\ DownFits(c)
      /\ client_socket = c => UpFits(c) /\ InStep(c)
      /\ client_socket = c => server \notin {"listen", "down"}
      /\ client_socket = c /\ server \notin {"closing", "closing again"} =>
           up'[c] = up[c] \o <<Id(1)>>
  BY <1>1, <1>2, SendFrame
<1>4. DownFits(c)'
  BY <1>1, <1>3 DEF DownFits
<1>5. ASSUME client_socket = c PROVE UpFits(c)' /\ InStep(c)'
  <2>1. CASE server \in {"announce", "request"}
    <3>1. up[c] = <<>> /\ (server = "announce" => c \notin fresh /\ down[c] = <<>>)
          /\ (server = "request" => Len(down[c]) = Stray(c))
      BY <1>1, <1>3, <1>5, <2>1 DEF InStep, Ahead
    <3>2. up'[c] = <<Id(1)>>
      BY <1>2, <1>3, <1>5, <2>1, <3>1, ConcatEmptySeq
    <3> QED BY <1>3, <2>1, <3>1, <3>2 DEF UpFits, InStep, Ahead, Stray
  <2>2. CASE server \notin {"announce", "request"}
    <3>1. server \in {"closing", "closing again"}
      BY <1>1, <1>3, <1>5, <2>2 DEF InStep, ProtocolInv, TypeOK
    <3> QED BY <1>3, <3>1 DEF UpFits, InStep
  <2> QED BY <2>1, <2>2
<1> QED BY <1>1, <1>2, <1>4, <1>5, SendFrame

LEMMA ProtocolShutdown ==
  ASSUME ProtocolInv, NEW c \in Clients, Shutdown(c)
  PROVE  ProtocolInv'
<1>1. /\ client[c] = "ready" /\ Send("client", c, <<Id(0)>>) /\ Goto(c, "shut down")
      /\ UNCHANGED <<expected, maps, oram_state, ends, serverVars, fdb, history, counters>>
  BY DEF Shutdown
<1>2. <<Id(0)>> \in Seq(Token) /\ "shut down" \in Places \cap Active /\ "ready" \in Active \ {"flag"}
  BY SmallTokens DEF Places, Active
<1>3. /\ client'[c] = "shut down" /\ down' = down /\ server' = server /\ fresh' = fresh
      /\ DownFits(c)
      /\ client_socket = c => UpFits(c) /\ InStep(c)
      /\ client_socket = c => server \notin {"listen", "down"}
      /\ client_socket = c /\ server \notin {"closing", "closing again"} =>
           up'[c] = up[c] \o <<Id(0)>>
  BY <1>1, <1>2, SendFrame
<1>4. DownFits(c)'
  BY <1>1, <1>3 DEF DownFits
<1>5. ASSUME client_socket = c PROVE UpFits(c)' /\ InStep(c)'
  <2>1. CASE server \in {"announce", "request"}
    <3>1. up[c] = <<>> /\ (server = "announce" => c \notin fresh /\ down[c] = <<>>)
          /\ (server = "request" => Len(down[c]) = Stray(c))
      BY <1>1, <1>3, <1>5, <2>1 DEF InStep, Ahead
    <3>2. up'[c] = <<Id(0)>>
      BY <1>2, <1>3, <1>5, <2>1, <3>1, ConcatEmptySeq
    <3> QED BY <1>3, <2>1, <3>1, <3>2 DEF UpFits, InStep, Ahead, Stray
  <2>2. CASE server \notin {"announce", "request"}
    <3>1. server \in {"closing", "closing again"}
      BY <1>1, <1>3, <1>5, <2>2 DEF InStep, ProtocolInv, TypeOK
    <3> QED BY <1>3, <3>1 DEF UpFits, InStep
  <2> QED BY <2>1, <2>2
<1> QED BY <1>1, <1>2, <1>4, <1>5, SendFrame

LEMMA NumFits ==
  ASSUME NEW c \in Clients, client'[c] = "num",
         down'[c] = <<>> \/ (c \notin fresh' /\ down'[c] = <<Flag(TRUE)>>)
  PROVE  DownFits(c)'
<1>1. CASE c \in fresh'
  BY <1>1 DEF DownFits
<1>2. CASE c \notin fresh'
  <2>1. BranchBlocks \in Nat
    BY WireAssumption
  <2>2. CASE down'[c] = <<>>
    <3>1. Len(down'[c]) = 0
      BY <2>2, Shapes
    <3>2. Len(down'[c]) <= 3 + BranchBlocks /\ ~(Len(down'[c]) >= 1) /\ ~(Len(down'[c]) >= 2)
      BY <2>1, <3>1
    <3> QED BY <1>2, <3>2 DEF DownFits
  <2>3. CASE down'[c] = <<Flag(TRUE)>>
    <3>1. Len(down'[c]) = 1 /\ down'[c][1] = Flag(TRUE)
      BY <2>3, Shapes
    <3>2. Len(down'[c]) <= 3 + BranchBlocks /\ ~(Len(down'[c]) >= 2)
      BY <2>1, <3>1
    <3> QED BY <1>2, <3>1, <3>2 DEF DownFits
  <2>4. down'[c] \in {<<>>, <<Flag(TRUE)>>}
    OBVIOUS
  <2> QED BY <2>2, <2>3, <2>4
<1> QED BY <1>1, <1>2

LEMMA ProtocolSendLeaf ==
  ASSUME ProtocolInv, NEW c \in Clients, SendLeaf(c)
  PROVE  ProtocolInv'
<1>1. PICK leaf \in {0, 1} : Send("client", c, <<Leaf(leaf)>>)
  BY DEF SendLeaf
<1>2. /\ client[c] = "leaf" /\ Goto(c, "num")
      /\ UNCHANGED <<expected, maps, oram_state, ends, serverVars, fdb, history, counters>>
  BY DEF SendLeaf
<1>3. <<Leaf(leaf)>> \in Seq(Token) /\ "num" \in Places \cap Active /\ "leaf" \in Active \ {"flag"}
  BY SmallTokens DEF Places, Active
<1>4. /\ client'[c] = "num" /\ down' = down /\ server' = server /\ fresh' = fresh
      /\ DownFits(c)
      /\ client_socket = c => UpFits(c) /\ InStep(c)
      /\ client_socket = c => server \notin {"listen", "down"}
      /\ client_socket = c /\ server \notin {"closing", "closing again"} =>
           up'[c] = up[c] \o <<Leaf(leaf)>>
  BY <1>1, <1>2, <1>3, SendFrame
<1>5. down[c] = <<>> \/ (c \notin fresh /\ down[c] = <<Flag(TRUE)>>)
  BY <1>2, <1>4 DEF DownFits
<1>6. DownFits(c)'
  BY <1>4, <1>5, NumFits
<1>7. traversals < MaxCalls
  BY <1>2 DEF ProtocolInv, StreamInv
<1>8. ASSUME client_socket = c PROVE UpFits(c)' /\ InStep(c)'
  <2>1. CASE server \in {"announce", "request"}
    <3>1. up[c] = <<Id(1)>> /\ (server = "announce" => c \notin fresh /\ down[c] = <<>>)
          /\ (server = "request" => Len(down[c]) = Stray(c))
      BY <1>2, <1>4, <1>8, <2>1 DEF InStep, Ahead
    <3>2. up'[c] = <<Id(1), Leaf(leaf)>>
      BY <1>4, <1>8, <2>1, <3>1, DropFirst
    <3>3. up'[c] \in {<<Id(1), Leaf(0)>>, <<Id(1), Leaf(1)>>}
      BY <3>2
    <3> QED BY <1>4, <2>1, <3>1, <3>3 DEF UpFits, InStep, Ahead, Stray
  <2>2. CASE server = "leaf"
    <3>1. up[c] = <<>> /\ Len(down[c]) = Stray(c)
      BY <1>2, <1>4, <1>8, <2>2 DEF InStep
    <3>2. up'[c] = <<Leaf(leaf)>>
      BY <1>3, <1>4, <1>8, <2>2, <3>1, ConcatEmptySeq
    <3>3. up'[c] \in {<<Leaf(0)>>, <<Leaf(1)>>}
      BY <3>2
    <3> QED BY <1>4, <2>2, <3>1, <3>3 DEF UpFits, InStep, Stray
  <2>3. CASE server \notin {"announce", "request", "leaf"}
    <3>1. server \in {"closing", "closing again"}
      BY <1>2, <1>4, <1>8, <2>3 DEF InStep, ProtocolInv, TypeOK
    <3> QED BY <1>4, <3>1 DEF UpFits, InStep
  <2> QED BY <2>1, <2>2, <2>3
<1> QED BY <1>1, <1>2, <1>3, <1>6, <1>7, <1>8, SendFrame

LEMMA ProtocolSendBranch ==
  ASSUME ProtocolInv, NEW c \in Clients, SendBranch(c)
  PROVE  ProtocolInv'
<1>1. /\ client[c] = "send" /\ Send("client", c, Blocks(maps)) /\ Goto(c, "confirm")
      /\ UNCHANGED <<expected, maps, oram_state, ends, serverVars, fdb, history, counters>>
  BY DEF SendBranch
<1>2. maps \in Nat
  BY <1>1 DEF ProtocolInv, StreamInv, DownFits
<1>3. /\ Blocks(maps) \in Seq(Token) /\ Blocks(maps) # <<>> /\ Blocks(maps)[1].value = maps
      /\ "confirm" \in Places \cap Active /\ "send" \in Active \ {"flag"}
  BY <1>2, Tokens DEF Places, Active
<1>4. /\ client'[c] = "confirm" /\ down' = down /\ server' = server /\ fresh' = fresh
      /\ maps' = maps /\ tree' = tree
      /\ DownFits(c)
      /\ client_socket = c => UpFits(c) /\ InStep(c)
      /\ client_socket = c => server \notin {"listen", "down"}
      /\ client_socket = c /\ server \notin {"closing", "closing again"} =>
           up'[c] = up[c] \o Blocks(maps)
  BY <1>1, <1>3, SendFrame
<1>5. down[c] = <<>> /\ c \in fresh
  BY <1>1, <1>4 DEF DownFits
<1>6. DownFits(c)'
  BY <1>2, <1>4, <1>5 DEF DownFits
<1>7. ASSUME client_socket = c PROVE UpFits(c)' /\ InStep(c)'
  <2>1. CASE server = "receive"
    <3>1. up[c] = <<>>
      BY <1>1, <1>4, <1>7, <2>1 DEF InStep
    <3>2. up'[c] = Blocks(maps)
      BY <1>3, <1>4, <1>7, <2>1, <3>1, ConcatEmptySeq
    <3>3. IsBranch(up'[c]) /\ up'[c][1].value \in Nat
      BY <1>2, <1>3, <3>2 DEF IsBranch
    <3>4. Blocks(maps)' = Blocks(maps)
      BY <1>4 DEF Blocks
    <3> QED BY <1>4, <1>5, <2>1, <3>2, <3>3, <3>4 DEF UpFits, InStep
  <2>2. CASE server # "receive"
    <3>1. server \in {"closing", "closing again"}
      BY <1>1, <1>4, <1>7, <2>2 DEF InStep, Ahead, ProtocolInv, TypeOK
    <3> QED BY <1>4, <3>1 DEF UpFits, InStep
  <2> QED BY <2>1, <2>2
<1> QED BY <1>1, <1>3, <1>6, <1>7, SendFrame

\* The same for a step that receives something.
LEMMA ReceiveFrame ==
  ASSUME ProtocolInv, NEW c \in Clients, NEW n \in Nat, NEW place \in Places \cap Active,
         client[c] \in Active \ {"flag"}, Receive("client", c, n), Goto(c, place), place # "out",
         expected' \in [Clients -> Nat], maps' \in Versions, traversals' \in 0 .. MaxCalls,
         UNCHANGED <<oram_state, ends, serverVars, fdb, history, restarts, clears>>
  PROVE  /\ client'[c] = place /\ up' = up /\ server' = server /\ tree' = tree /\ fresh' = fresh
         /\ uploaded' = uploaded /\ branch' = branch
         /\ Len(down[c]) >= n /\ down'[c] = Drop(down[c], n) /\ Len(down'[c]) = Len(down[c]) - n
         /\ DownFits(c)
         /\ client_socket = c => UpFits(c) /\ InStep(c) /\ UpFits(c)'
         /\ client_socket = c => server \notin {"listen", "down"}
         /\ (/\ DownFits(c)'
             /\ client_socket = c => InStep(c)'
             /\ place \in {"leaf", "num", "blocks"} => traversals' < MaxCalls) => ProtocolInv'
<1>1. TypeOK
  BY DEF ProtocolInv
<1>2. client' = [client EXCEPT ![c] = place]
  BY DEF Goto
<1>3. /\ down' \in [Clients -> Seq(Token)] /\ up' = up /\ Len(down[c]) >= n
      /\ \A d \in Clients \ {c} : down'[d] = down[d]
      /\ down'[c] = Drop(down[c], n) /\ Len(down'[c]) = Len(down[c]) - n
  BY <1>1, ClientDrops
<1>4. /\ c \notin InLine /\ DownFits(c) /\ client[c] # "gone"
      /\ client_socket = c => UpFits(c) /\ InStep(c)
      /\ \A d \in Clients \ {c} : ~Running(d)
  BY Accepted
<1>5. /\ server' = server /\ uploaded' = uploaded /\ branch' = branch /\ tree' = tree
      /\ fresh' = fresh /\ ends' = ends
  BY DEF serverVars, fdb, history
<1>6. TypeOK' /\ UNCHANGED <<serverVars, tree>>
  BY <1>1, <1>2, <1>3, ClientTypes DEF TypeOK, history
<1>7. client'[c] = place
  BY <1>1, <1>2 DEF TypeOK
<1>8. client_socket = c => server \notin {"listen", "down"}
  <2>1. NoClient # c /\ (client_socket = NoClient) = (server \in {"listen", "down"})
    BY <1>1, WireAssumption DEF TypeOK
  <2> QED BY <2>1
<1>9. client_socket = c => UpFits(c)'
  BY <1>3, <1>4, <1>5 DEF UpFits
<1>10. ASSUME DownFits(c)', client_socket = c => InStep(c)',
              place \in {"leaf", "num", "blocks"} => traversals' < MaxCalls
       PROVE  ProtocolInv'
  BY <1>2, <1>3, <1>4, <1>5, <1>6, <1>9, <1>10, ClientMoves
<1> QED BY <1>3, <1>4, <1>5, <1>7, <1>8, <1>9, <1>10

\* num_blocks, with and without the blocks behind it, and behind a stray flag.
LEMMA NumStreams ==
  ASSUME NEW t \in Seq(Token)
  PROVE  /\ Number(NumBlocks) = BranchBlocks /\ Drop(NumBlocks, 2) = <<>>
         /\ Number(NumBlocks \o t) = BranchBlocks /\ Drop(NumBlocks \o t, 2) = t
         /\ NumBlocks[1] = Digit(BranchBlocks)
<1>1. NumBlocks \in Seq(Token) /\ Len(NumBlocks) = 2
  BY SmallTokens
<1>2. /\ NumBlocks[1] = Digit(BranchBlocks) /\ NumBlocks[2] = Digit(0)
      /\ NumBlocks[1].value = BranchBlocks /\ NumBlocks[2].value = 0
  BY DEF NumBlocks, Digit
<1>3. Drop(NumBlocks, 2) = <<>> /\ Drop(NumBlocks \o t, 2) = t
  BY <1>1, DropAll, DropConcat
<1>4. (NumBlocks \o t)[1] = NumBlocks[1] /\ (NumBlocks \o t)[2] = NumBlocks[2]
  <2>1. Len(t) \in Nat
    BY LenProperties
  <2>2. \A i \in 1 .. Len(NumBlocks) + Len(t) :
          (NumBlocks \o t)[i] = IF i <= Len(NumBlocks) THEN NumBlocks[i] ELSE t[i - Len(NumBlocks)]
    BY <1>1, ConcatProperties
  <2>3. 1 \in 1 .. Len(NumBlocks) + Len(t) /\ 2 \in 1 .. Len(NumBlocks) + Len(t)
    BY <1>1, <2>1
  <2>4. 1 <= Len(NumBlocks) /\ 2 <= Len(NumBlocks)
    BY <1>1
  <2> QED BY <2>2, <2>3, <2>4
<1>5. Number(NumBlocks) = BranchBlocks /\ Number(NumBlocks \o t) = BranchBlocks
  BY <1>2, <1>4, WireAssumption DEF Number, Base
<1> QED BY <1>2, <1>3, <1>5

LEMMA ProtocolReceiveNum ==
  ASSUME ProtocolInv, NEW c \in Clients, ReceiveNum(c)
  PROVE  ProtocolInv'
<1>1. /\ client[c] = "num" /\ Receive("client", c, 2) /\ Goto(c, "blocks")
      /\ expected' = [expected EXCEPT ![c] = Number(down[c])]
      /\ UNCHANGED <<maps, oram_state, ends, serverVars, fdb, history, counters>>
  BY DEF ReceiveNum
<1>2. TypeOK
  BY DEF ProtocolInv
<1>3. Len(down[c]) >= 2 /\ down[c] \in Seq(Token) /\ Len(down[c]) \in Nat
  BY <1>1, <1>2, ClientDrops, Streams
<1>4. DownFits(c) /\ traversals < MaxCalls
  BY <1>1, Accepted DEF Active, ProtocolInv, StreamInv
<1>5. ASSUME c \in fresh
      PROVE  /\ Number(down[c]) = BranchBlocks
             /\ Drop(down[c], 2) = <<>> \/ IsBranch(Drop(down[c], 2))
  <2>1. down[c] # <<>>
    BY <1>3, Shapes
  <2>2. CASE down[c] = NumBlocks
    <3>1. <<>> \in Seq(Token)
      BY EmptySeq
    <3> QED BY <2>2, <3>1, NumStreams
  <2>3. CASE IsBranch(Drop(down[c], 2)) /\ down[c] = NumBlocks \o Drop(down[c], 2)
    <3>1. Drop(down[c], 2) \in Seq(Token)
      BY <1>3, DropProperties
    <3> QED BY <2>3, <3>1, NumStreams
  <2> QED BY <1>1, <1>4, <1>5, <2>1, <2>2, <2>3 DEF DownFits
<1>6. ASSUME c \notin fresh
      PROVE  Number(down[c]) = 1 + Base * BranchBlocks /\ Len(down[c]) <= 3 + BranchBlocks
  <2>1. /\ down[c][1] = Flag(TRUE) /\ down[c][2] = Digit(BranchBlocks)
        /\ Len(down[c]) <= 3 + BranchBlocks
    <3>1. /\ Len(down[c]) <= 3 + BranchBlocks
          /\ Len(down[c]) >= 1 => down[c][1] = Flag(TRUE)
          /\ Len(down[c]) >= 2 => down[c][2] = Digit(BranchBlocks)
      BY <1>1, <1>4, <1>6 DEF DownFits
    <3>2. Len(down[c]) >= 1 /\ Len(down[c]) >= 2
      BY <1>3
    <3> QED BY <3>1, <3>2
  <2>2. down[c][1].value = 1 /\ down[c][2].value = BranchBlocks
    BY <2>1 DEF Flag, Digit
  <2> QED BY <2>1, <2>2 DEF Number
<1>7. expected' \in [Clients -> Nat] /\ expected'[c] = Number(down[c])
  <2>1. Number(down[c]) \in Nat
    BY <1>5, <1>6, WireAssumption DEF Base
  <2> QED BY <1>1, <1>2, <2>1 DEF TypeOK
<1>8. /\ maps' \in Versions /\ traversals' \in 0 .. MaxCalls /\ traversals' = traversals
      /\ UNCHANGED <<oram_state, ends, serverVars, fdb, history, restarts, clears>>
  BY <1>1, <1>2 DEF TypeOK, counters
<1>9. 2 \in Nat /\ "blocks" \in Places \cap Active /\ "num" \in Active \ {"flag"}
  BY DEF Places, Active
<1>10. /\ client'[c] = "blocks" /\ up' = up /\ server' = server /\ fresh' = fresh
       /\ down'[c] = Drop(down[c], 2) /\ Len(down'[c]) = Len(down[c]) - 2
       /\ client_socket = c => InStep(c)
       /\ client_socket = c => server \notin {"listen", "down"}
  BY <1>1, <1>7, <1>8, <1>9, ReceiveFrame
<1>11. DownFits(c)'
  <2>1. CASE c \in fresh
    BY <1>5, <1>7, <1>10, <2>1 DEF DownFits
  <2>2. CASE c \notin fresh
    <3>1. Len(down'[c]) <= 1 + BranchBlocks
      BY <1>3, <1>6, <1>10, <2>2, WireAssumption
    <3> QED BY <1>6, <1>7, <1>10, <2>2, <3>1 DEF DownFits
  <2> QED BY <2>1, <2>2
<1>12. ASSUME client_socket = c PROVE InStep(c)'
  <2>1. server \in {"branch", "receive", "closing", "closing again"}
    <3>1. Stray(c) \in {0, 1} /\ Len(down[c]) # Stray(c) /\ down[c] # <<>>
      BY <1>3, Shapes DEF Stray
    <3> QED BY <1>1, <1>2, <1>10, <1>12, <3>1 DEF InStep, TypeOK
  <2>2. CASE server = "branch"
    <3>1. Len(down[c]) = 2 + Stray(c) /\ Stray(c) \in {0, 1}
      BY <1>1, <1>10, <1>12, <2>2 DEF InStep, Stray
    <3>2. Len(down'[c]) = Stray(c) /\ Stray(c)' = Stray(c)
      BY <1>10, <3>1 DEF Stray
    <3> QED BY <1>10, <2>2, <3>2 DEF InStep
  <2>3. CASE server = "receive"
    <3>1. up[c] = <<>>
      BY <1>1, <1>10, <1>12, <2>3 DEF InStep
    <3> QED BY <1>10, <2>3, <3>1 DEF InStep
  <2>4. CASE server \in {"closing", "closing again"}
    BY <1>10, <2>4 DEF InStep
  <2> QED BY <2>1, <2>2, <2>3, <2>4
<1>13. traversals' < MaxCalls
  BY <1>4, <1>8
<1> QED BY <1>1, <1>7, <1>8, <1>9, <1>11, <1>12, <1>13, ReceiveFrame

LEMMA ProtocolReceiveBlocks ==
  ASSUME ProtocolInv, NEW c \in Clients, ReceiveBlocks(c)
  PROVE  ProtocolInv'
<1>1. /\ client[c] = "blocks" /\ Receive("client", c, expected[c]) /\ Goto(c, "send")
      /\ expected' = [expected EXCEPT ![c] = 0]
      /\ traversals' = traversals + 1 /\ maps' = traversals + 1
      /\ UNCHANGED <<oram_state, ends, serverVars, fdb, history, restarts, clears>>
  BY DEF ReceiveBlocks
<1>2. TypeOK /\ expected[c] \in Nat
  BY DEF ProtocolInv, TypeOK
<1>3. Len(down[c]) >= expected[c] /\ down[c] \in Seq(Token) /\ Len(down[c]) \in Nat
  BY <1>1, <1>2, ClientDrops, Streams
<1>4. DownFits(c) /\ traversals < MaxCalls
  BY <1>1, Accepted DEF Active, ProtocolInv, StreamInv
<1>5. BranchBlocks \in Nat /\ BranchBlocks >= 1
  BY WireAssumption
<1>6. c \in fresh
  <2>1. SUFFICES ASSUME c \notin fresh PROVE FALSE
    OBVIOUS
  <2>2. expected[c] = 1 + Base * BranchBlocks /\ Len(down[c]) <= 1 + BranchBlocks
    BY <1>1, <1>4, <2>1 DEF DownFits
  <2> QED BY <1>3, <1>5, <2>2 DEF Base
<1>7. expected[c] = BranchBlocks /\ Len(down[c]) = BranchBlocks
  <2>1. expected[c] = BranchBlocks /\ (down[c] = <<>> \/ IsBranch(down[c]))
    BY <1>1, <1>4, <1>6 DEF DownFits
  <2>2. down[c] # <<>>
    BY <1>3, <1>5, <2>1, Shapes
  <2>3. down[c] = Blocks(down[c][1].value)
    BY <2>1, <2>2 DEF IsBranch
  <2>4. down[c][1].value \in Nat \cup {Unfinished, Torn}
    <3>1. 1 \in 1 .. Len(down[c])
      BY <1>3, <1>5, <2>1
    <3>2. down[c][1] \in Token
      BY <1>3, <3>1, ElementOfSeq
    <3> QED BY <3>2 DEF Token
  <2> QED BY <2>1, <2>3, <2>4, Tokens
<1>8. /\ expected' \in [Clients -> Nat] /\ maps' \in Versions /\ maps' \in Nat
      /\ traversals' \in 0 .. MaxCalls
  <2>1. traversals \in 0 .. MaxCalls /\ MaxCalls \in Nat /\ expected \in [Clients -> Nat]
    BY <1>2, WireAssumption DEF TypeOK
  <2>2. traversals' \in 0 .. MaxCalls /\ maps' \in Nat
    BY <1>1, <1>4, <2>1
  <2>3. expected' \in [Clients -> Nat]
    BY <1>1, <2>1
  <2> QED BY <2>2, <2>3 DEF Versions
<1>9. "send" \in Places \cap Active /\ "blocks" \in Active \ {"flag"}
  BY DEF Places, Active
<1>10. /\ client'[c] = "send" /\ up' = up /\ server' = server /\ fresh' = fresh
       /\ down'[c] = Drop(down[c], expected[c])
       /\ client_socket = c => InStep(c)
       /\ client_socket = c => server \notin {"listen", "down"}
  BY <1>1, <1>2, <1>8, <1>9, ReceiveFrame
<1>11. down'[c] = <<>>
  BY <1>3, <1>7, <1>10, DropAll
<1>12. DownFits(c)'
  BY <1>6, <1>8, <1>10, <1>11 DEF DownFits
<1>13. ASSUME client_socket = c PROVE InStep(c)'
  <2>1. server \in {"receive", "closing", "closing again"}
    <3>1. Len(down[c]) # Stray(c)
      BY <1>5, <1>6, <1>7 DEF Stray
    <3> QED BY <1>1, <1>2, <1>10, <1>13, <3>1 DEF InStep, Ahead, TypeOK
  <2>2. server = "receive" => up[c] = <<>>
    BY <1>1, <1>10, <1>13 DEF InStep
  <2> QED BY <1>10, <2>1, <2>2 DEF InStep
<1> QED BY <1>1, <1>2, <1>8, <1>9, <1>12, <1>13, ReceiveFrame

LEMMA ProtocolReceiveConfirmation ==
  ASSUME ProtocolInv, NEW c \in Clients, ReceiveConfirmation(c)
  PROVE  ProtocolInv'
<1>1. /\ client[c] = "confirm" /\ Receive("client", c, 1) /\ Goto(c, "save")
      /\ UNCHANGED <<expected, maps, oram_state, ends, serverVars, fdb, history, counters>>
  BY DEF ReceiveConfirmation
<1>2. TypeOK
  BY DEF ProtocolInv
<1>3. down[c] # <<>>
  BY <1>1, <1>2, ClientDrops, Streams
<1>4. DownFits(c)
  BY <1>1, Accepted DEF Active
<1>5. c \in fresh /\ maps \in Nat /\ down[c] = <<Id(1)>> /\ tree = maps
  BY <1>1, <1>3, <1>4 DEF DownFits
<1>6. /\ maps' \in Versions /\ traversals' \in 0 .. MaxCalls /\ maps' = maps
      /\ expected' \in [Clients -> Nat]
      /\ UNCHANGED <<oram_state, ends, serverVars, fdb, history, restarts, clears>>
  BY <1>1, <1>2 DEF TypeOK, counters
<1>7. "save" \in Places \cap Active /\ "confirm" \in Active \ {"flag"}
  BY DEF Places, Active
<1>8. /\ client'[c] = "save" /\ up' = up /\ server' = server /\ fresh' = fresh /\ tree' = tree
      /\ down'[c] = Drop(down[c], 1)
      /\ client_socket = c => InStep(c)
      /\ client_socket = c => server \notin {"listen", "down"}
  BY <1>1, <1>6, <1>7, ReceiveFrame
<1>9. down'[c] = <<>> /\ Len(down'[c]) = 0
  <2>1. down'[c] = <<>>
    BY <1>5, <1>8, DropFirst
  <2> QED BY <2>1, Shapes
<1>10. DownFits(c)'
  BY <1>5, <1>6, <1>8, <1>9 DEF DownFits
<1>11. ASSUME client_socket = c PROVE InStep(c)'
  <2>1. server \in {"request", "closing", "closing again"}
    BY <1>1, <1>2, <1>3, <1>8, <1>11 DEF InStep, Ahead, TypeOK
  <2>2. server = "request" => up[c] = <<>>
    BY <1>1, <1>8, <1>11 DEF InStep, Ahead
  <2>3. Stray(c)' = 0
    BY <1>5, <1>8 DEF Stray
  <2> QED BY <1>8, <1>9, <2>1, <2>2, <2>3 DEF InStep, Ahead
<1> QED BY <1>1, <1>6, <1>7, <1>10, <1>11, ReceiveFrame

\* Saving the maps after a call.
LEMMA ProtocolSave ==
  ASSUME ProtocolInv, NEW c \in Clients, client[c] \in {"save", "write"}, Truncate(c) \/ Write(c)
  PROVE  ProtocolInv'
<1> DEFINE place == IF client[c] = "save" THEN "write" ELSE "ready"
<1>1. /\ client' = [client EXCEPT ![c] = place] /\ maps' = maps
      /\ oram_state' \in {Torn, maps}
      /\ UNCHANGED <<expected, streams, serverVars, fdb, history, counters>>
  BY DEF Truncate, Write, Goto
<1>2. TypeOK
  BY DEF ProtocolInv
<1>3. /\ c \notin InLine /\ DownFits(c) /\ client[c] # "gone"
      /\ client_socket = c => UpFits(c) /\ InStep(c)
      /\ \A d \in Clients \ {c} : ~Running(d)
  BY Accepted DEF Active
<1>4. c \in fresh /\ down[c] = <<>> /\ maps \in Nat /\ tree = maps
  BY <1>3 DEF DownFits
<1>5. /\ server' = server /\ uploaded' = uploaded /\ branch' = branch /\ tree' = tree
      /\ fresh' = fresh /\ ends' = ends /\ up' = up /\ down' = down
  BY <1>1 DEF serverVars, fdb, history, streams
<1>6. place \in {"write", "ready"}
  OBVIOUS
<1> HIDE DEF place
<1>7. TypeOK' /\ UNCHANGED <<serverVars, tree>>
  <2>1. /\ oram_state' \in Versions /\ maps' \in Versions /\ traversals' \in 0 .. MaxCalls
        /\ expected' \in [Clients -> Nat] /\ fresh' \subseteq Clients
        /\ up' \in [Clients -> Seq(Token)] /\ down' \in [Clients -> Seq(Token)]
        /\ ends' \in [Clients -> SUBSET {"client", "server"}]
    BY <1>1, <1>2, <1>5 DEF TypeOK, Versions, counters
  <2>2. place \in Places /\ mishaps' = mishaps
    BY <1>1, <1>6 DEF Places, history
  <2> QED BY <1>1, <1>2, <2>1, <2>2, ClientTypes DEF TypeOK, history, counters
<1>8. client'[c] = place
  BY <1>1, <1>2 DEF TypeOK
<1>9. DownFits(c)'
  BY <1>1, <1>4, <1>5, <1>6, <1>8 DEF DownFits
<1>10. client_socket = c => UpFits(c)'
  BY <1>3, <1>5 DEF UpFits
<1>11. ASSUME client_socket = c PROVE InStep(c)'
  <2>1. server \in {"request", "closing", "closing again", "listen", "down"}
    BY <1>2, <1>3, <1>4, <1>11 DEF InStep, Ahead, TypeOK
  <2>2. server = "request" => up[c] = <<>> /\ Len(down[c]) = Stray(c)
    BY <1>3, <1>11 DEF InStep, Ahead
  <2>3. Stray(c)' = Stray(c)
    BY <1>5 DEF Stray
  <2> QED BY <1>5, <1>6, <1>8, <2>1, <2>2, <2>3 DEF InStep, Ahead
<1>12. place # "out" /\ place \notin {"leaf", "num", "blocks"} /\ client[c] \in Active
  BY <1>6 DEF Active
<1> QED BY <1>1, <1>3, <1>5, <1>7, <1>9, <1>10, <1>11, <1>12, ClientMoves

\* A client that stops, closing its end or not.
LEMMA ProtocolStop ==
  ASSUME ProtocolInv, NEW c \in Clients,
         \/ InitializeFails(c) \/ HandshakeFails(c) \/ CallFails(c) \/ Quit(c) \/ Crash(c)
         \/ client[c] \in {"quitting", "last write"} /\ (Truncate(c) \/ Write(c))
  PROVE  ProtocolInv'
<1> DEFINE Stops == {"unloaded", "unusable", "quitting", "last write", "gone"}
<1>1. PICK place \in Stops :
        /\ client' = [client EXCEPT ![c] = place]
        /\ Crash(c) => place = "gone"
  BY DEF InitializeFails, HandshakeFails, CallFails, Quit, Crash, Truncate, Write, Goto
<1>2. TypeOK
  BY DEF ProtocolInv
<1>3. client[c] # "gone" /\ \A d \in Clients \ {c} : ~Running(d)
  <2>1. CASE InitializeFails(c)
    BY <2>1 DEF InitializeFails
  <2>2. CASE ~InitializeFails(c)
    <3>1. Running(c) /\ client[c] # "gone"
      BY <2>2 DEF HandshakeFails, CallFails, Quit, Crash, Running
    <3> QED BY <3>1 DEF ProtocolInv, LineInv
  <2> QED BY <2>1, <2>2
<1>4. /\ up' = up /\ down' \in [Clients -> Seq(Token)]
      /\ ends' \in [Clients -> SUBSET {"client", "server"}]
      /\ ends'[c] \in {ends[c], ends[c] \ {"client"}}
      /\ \A d \in Clients \ {c} : down'[d] = down[d] /\ ends'[d] = ends[d]
      /\ Crash(c) => down'[c] = <<>>
  <2>1. CASE CallFails(c) \/ Quit(c) \/ Crash(c)
    <3>1. Close("client", c)
      BY <2>1 DEF CallFails, Quit, Crash
    <3> QED BY <1>2, <3>1, EndCloses
  <2>2. CASE ~(CallFails(c) \/ Quit(c) \/ Crash(c))
    <3>1. UNCHANGED streams
      BY <2>2 DEF InitializeFails, HandshakeFails, Truncate, Write
    <3> QED BY <1>2, <2>2, <3>1 DEF streams, TypeOK
  <2> QED BY <2>1, <2>2
<1>5. /\ UNCHANGED <<serverVars, fdb, restarts, clears>>
      /\ traversals' = traversals /\ fresh' = fresh
  <2>1. UNCHANGED <<serverVars, fdb, fresh, counters>>
    BY DEF InitializeFails, HandshakeFails, CallFails, Quit, Crash, Truncate, Write, history
  <2> QED BY <2>1 DEF counters
<1>6. /\ expected' \in [Clients -> Nat] /\ maps' \in Versions /\ oram_state' \in Versions
      /\ mishaps' \subseteq {"call failed late", "saved unloaded maps", "crash before the save",
                             "make clear"}
  <2>1. expected \in [Clients -> Nat] /\ maps \in Versions /\ oram_state \in Versions
    BY <1>2 DEF TypeOK
  <2>2. 0 \in Versions /\ Torn \in Versions
    BY DEF Versions
  <2>3. (expected' = expected) \/ (expected' = [expected EXCEPT ![c] = 0])
    BY DEF InitializeFails, HandshakeFails, CallFails, Quit, Crash, Truncate, Write
  <2>4. maps' \in {0, maps} /\ oram_state' \in {oram_state, Torn, maps}
    BY DEF InitializeFails, HandshakeFails, CallFails, Quit, Crash, Truncate, Write
  <2>5. \/ mishaps' = mishaps
        \/ \E m \in {"call failed late", "saved unloaded maps", "crash before the save"} :
             mishaps' = mishaps \cup {m}
    BY DEF InitializeFails, HandshakeFails, CallFails, Quit, Crash, Truncate, Write, history, Mishap
  <2>6. mishaps' \subseteq {"call failed late", "saved unloaded maps", "crash before the save",
                            "make clear"}
    <3>1. mishaps \subseteq {"call failed late", "saved unloaded maps", "crash before the save",
                            "make clear"}
      BY <1>2 DEF TypeOK
    <3>2. CASE mishaps' = mishaps
      BY <3>1, <3>2
    <3>3. CASE \E m \in {"call failed late", "saved unloaded maps", "crash before the save"} :
                 mishaps' = mishaps \cup {m}
      BY <3>1, <3>3
    <3> QED BY <2>5, <3>2, <3>3
  <2>7. expected' \in [Clients -> Nat]
    <3>1. CASE expected' = expected
      BY <2>1, <3>1
    <3>2. CASE expected' = [expected EXCEPT ![c] = 0]
      BY <2>1, <3>2
    <3> QED BY <2>3, <3>1, <3>2
  <2> QED BY <2>1, <2>2, <2>4, <2>6, <2>7
<1>7. TypeOK' /\ UNCHANGED <<serverVars, tree>>
  <2>1. up' \in [Clients -> Seq(Token)] /\ fresh' \subseteq Clients /\ traversals' \in 0 .. MaxCalls
    BY <1>2, <1>4, <1>5 DEF TypeOK
  <2>2. place \in Places
    BY DEF Places
  <2> QED BY <1>1, <1>2, <1>4, <1>5, <1>6, <2>1, <2>2, ClientTypes
<1>8. c \in InLine => Crash(c) /\ Untouched(c)
  <2>1. SUFFICES ASSUME c \in InLine PROVE Crash(c) /\ Untouched(c)
    OBVIOUS
  <2>2. client[c] \in {"flag", "gone"} /\ Untouched(c) /\ "server" \in ends[c]
    BY <2>1 DEF ProtocolInv, LineInv
  <2> QED BY <2>2 DEF InitializeFails, HandshakeFails, CallFails, Quit, Crash
<1>9. place \notin Active /\ place # "out"
  BY DEF Active
<1>10. client_socket = c => UpFits(c)'
  <2>1. client_socket = c => UpFits(c)
    BY DEF ProtocolInv, StreamInv
  <2> QED BY <1>4, <1>5, <2>1 DEF UpFits, serverVars
<1>11. c \in InLine => place = "gone" /\ up'[c] = <<>> /\ down'[c] = <<>> /\ c \notin fresh'
  BY <1>1, <1>4, <1>5, <1>8 DEF Untouched
<1> HIDE DEF Stops
<1> QED BY <1>1, <1>3, <1>4, <1>5, <1>7, <1>9, <1>10, <1>11, ClientMoves

LEMMA ProtocolConnect ==
  ASSUME ProtocolInv, NEW c \in Clients, Connect(c)
  PROVE  ProtocolInv'
<1>1. /\ client[c] = "out" /\ \A d \in Clients : ~Running(d)
      /\ ends' = [ends EXCEPT ![c] = {"client", "server"}]
      /\ backlog' = Append(backlog, c) /\ maps' = oram_state
      /\ client' = [client EXCEPT ![c] = "flag"]
      /\ UNCHANGED <<expected, oram_state, up, down, server, client_socket, uploaded,
                     branch, fdb, history, counters>>
  BY DEF Connect, Goto
<1>2. TypeOK
  BY DEF ProtocolInv
<1>3. /\ client'[c] = "flag" /\ \A d \in Clients \ {c} : client'[d] = client[d] /\ client'[d] \notin Active
      /\ "client" \in ends'[c] /\ "server" \in ends'[c] /\ \A d \in Clients \ {c} : ends'[d] = ends[d]
      /\ up' = up /\ down' = down /\ fresh' = fresh /\ tree' = tree /\ traversals' = traversals
      /\ server' = server /\ client_socket' = client_socket /\ uploaded' = uploaded
  <2>1. client'[c] = "flag" /\ \A d \in Clients \ {c} : client'[d] = client[d]
    BY <1>1, <1>2 DEF TypeOK
  <2>2. \A d \in Clients : client[d] \notin Active
    BY <1>1 DEF Running, Active
  <2>3. "client" \in ends'[c] /\ "server" \in ends'[c] /\ \A d \in Clients \ {c} : ends'[d] = ends[d]
    BY <1>1, <1>2 DEF TypeOK
  <2> QED BY <1>1, <2>1, <2>2, <2>3 DEF fdb, history, counters
<1>4. c # client_socket /\ Untouched(c) /\ c \notin InLine
  BY <1>1 DEF ProtocolInv, LineInv
<1>5. /\ backlog' \in Seq(Clients) /\ Len(backlog') = Len(backlog) + 1 /\ Len(backlog) \in Nat
      /\ backlog'[Len(backlog) + 1] = c
      /\ \A i \in 1 .. Len(backlog) : backlog'[i] = backlog[i]
  <2>1. backlog \in Seq(Clients)
    BY <1>2 DEF TypeOK
  <2> QED BY <1>1, <2>1, AppendProperties, LenProperties
<1>6. \A i \in 1 .. Len(backlog) : backlog[i] \in InLine /\ client[backlog[i]] = "gone"
  <2>1. \A i \in 1 .. Len(backlog) : backlog[i] \in InLine /\ backlog[i] \in Clients
    BY <1>2, Queued DEF InLine
  <2>2. \A d \in InLine : client[d] \in {"flag", "gone"}
    BY DEF ProtocolInv, LineInv
  <2> QED BY <1>1, <2>1, <2>2 DEF Running
<1>7. \A i \in 1 .. Len(backlog') : i \in 1 .. Len(backlog) \/ i = Len(backlog) + 1
  BY <1>5
<1>8. InLine' = InLine \cup {c}
  <2>1. \A d : d \in InLine' <=> \E i \in 1 .. Len(backlog') : d = backlog'[i]
    BY DEF InLine
  <2>2. \A d : d \in InLine <=> \E i \in 1 .. Len(backlog) : d = backlog[i]
    BY DEF InLine
  <2>3. InLine' \subseteq InLine \cup {c}
    BY <1>5, <1>7, <2>1, <2>2
  <2>4. 1 .. Len(backlog) \subseteq 1 .. Len(backlog') /\ Len(backlog) + 1 \in 1 .. Len(backlog')
    BY <1>5
  <2>5. InLine \cup {c} \subseteq InLine'
    BY <1>5, <2>1, <2>2, <2>4
  <2> QED BY <2>3, <2>5
<1>9. LineInv'
  <2>1. \A d, e \in Clients : Running(d)' /\ Running(e)' => d = e
    BY <1>1, <1>3 DEF Running
  <2>2. NoRepeats(backlog')
    <3>1. ASSUME NEW i \in 1 .. Len(backlog'), NEW j \in 1 .. Len(backlog'), backlog'[i] = backlog'[j]
          PROVE  i = j
      <4>1. CASE i \in 1 .. Len(backlog) /\ j \in 1 .. Len(backlog)
        BY <1>5, <3>1, <4>1 DEF ProtocolInv, LineInv, NoRepeats
      <4>2. CASE i = Len(backlog) + 1 /\ j = Len(backlog) + 1
        BY <4>2
      <4>3. CASE i \in 1 .. Len(backlog) /\ j = Len(backlog) + 1
        BY <1>4, <1>5, <1>6, <3>1, <4>3
      <4>4. CASE j \in 1 .. Len(backlog) /\ i = Len(backlog) + 1
        BY <1>4, <1>5, <1>6, <3>1, <4>4
      <4> QED BY <1>7, <4>1, <4>2, <4>3, <4>4
    <3> QED BY <3>1 DEF NoRepeats
  <2>3. ASSUME NEW i \in 1 .. Len(backlog'), i < Len(backlog') PROVE client'[backlog'[i]] = "gone"
    <3>1. i \in 1 .. Len(backlog)
      BY <1>5, <1>7, <2>3
    <3>2. backlog'[i] = backlog[i] /\ backlog[i] \in InLine /\ client[backlog[i]] = "gone"
          /\ backlog[i] \in Clients
      BY <1>2, <1>5, <1>6, <3>1, Queued
    <3>3. backlog[i] # c
      BY <1>4, <3>2
    <3> QED BY <1>3, <3>2, <3>3
  <2>4. ASSUME NEW d \in InLine'
        PROVE  /\ d # client_socket' /\ Untouched(d)'
               /\ client'[d] \in {"flag", "gone"} /\ "server" \in ends'[d]
    <3>1. CASE d = c
      BY <1>3, <1>4, <3>1 DEF Untouched
    <3>2. CASE d \in InLine /\ d # c
      <4>1. d \in Clients /\ d # client_socket /\ Untouched(d)
            /\ client[d] \in {"flag", "gone"} /\ "server" \in ends[d]
        BY <1>2, <3>2, Queued DEF ProtocolInv, LineInv
      <4> QED BY <1>3, <3>2, <4>1 DEF Untouched
    <3> QED BY <1>8, <3>1, <3>2
  <2>5. ASSUME NEW d \in Clients, client'[d] = "out" PROVE d # client_socket' /\ Untouched(d)'
    <3>1. d # c /\ client[d] = "out"
      BY <1>3, <2>5
    <3>2. d # client_socket /\ Untouched(d)
      BY <3>1 DEF ProtocolInv, LineInv
    <3> QED BY <1>3, <3>2 DEF Untouched
  <2>6. \A d \in Clients : client'[d] \in Active => "client" \in ends'[d] /\ d \in InLine'
    BY <1>3, <1>8
  <2>7. server' \notin {"listen", "down", "closing again"} => "server" \in ends'[client_socket']
    <3>1. ASSUME server \notin {"listen", "down", "closing again"}
          PROVE  client_socket \in Clients /\ "server" \in ends[client_socket]
      BY <1>2, <3>1 DEF ProtocolInv, LineInv, TypeOK
    <3> QED BY <1>3, <3>1
  <2> QED BY <2>1, <2>2, <2>3, <2>4, <2>5, <2>6, <2>7 DEF LineInv
<1>10. StreamInv'
  <2>1. ASSUME NEW d \in Clients PROVE DownFits(d)'
    <3>1. CASE d = c
      BY <1>3, <1>4, <3>1 DEF DownFits, Untouched
    <3>2. CASE d # c
      BY <1>3, <3>2, NoFitNeeded
    <3> QED BY <3>1, <3>2
  <2>2. client_socket' \in Clients => UpFits(client_socket)'
    <3>1. client_socket \in Clients => UpFits(client_socket)
      BY DEF ProtocolInv, StreamInv
    <3> QED BY <1>3, <3>1 DEF UpFits
  <2>3. client_socket' \in Clients => client'[client_socket'] \notin Active
    BY <1>3, <1>4
  <2>4. \A d \in Clients : client'[d] \notin {"leaf", "num", "blocks"}
    BY <1>3 DEF Active
  <2> QED BY <2>1, <2>2, <2>3, <2>4 DEF StreamInv
<1>11. TypeOK'
  <2>1. client' \in [Clients -> Places]
    BY <1>1, <1>2 DEF TypeOK, Places
  <2>2. ends' \in [Clients -> SUBSET {"client", "server"}] /\ maps' \in Versions
    BY <1>1, <1>2 DEF TypeOK
  <2>3. /\ expected' = expected /\ oram_state' = oram_state /\ up' = up /\ down' = down
        /\ server' = server /\ client_socket' = client_socket /\ uploaded' = uploaded
        /\ branch' = branch
    BY <1>1
  <2>4. /\ tree' = tree /\ fdb_is_initialized' = fdb_is_initialized /\ fresh' = fresh
        /\ mishaps' = mishaps /\ traversals' = traversals
        /\ restarts' = restarts /\ clears' = clears
    BY <1>1 DEF fdb, history, counters
  <2> QED BY <1>2, <1>5, <2>1, <2>2, <2>3, <2>4 DEF TypeOK, Places
<1> QED BY <1>9, <1>10, <1>11 DEF ProtocolInv

LEMMA ProtocolClient ==
  ASSUME ProtocolInv, NEW c \in Clients,
         Starts(c) \/ ClientStep(c) \/ SendRequest(c) \/ CallFails(c)
           \/ Shutdown(c) \/ Quit(c) \/ Crash(c)
  PROVE  ProtocolInv'
<1>1. CASE Connect(c)
  BY <1>1, ProtocolConnect
<1>2. CASE ReceiveFlag(c) \/ UploadBucket(c) \/ ReceiveSecondFlag(c)
  BY <1>2, ProtocolReceiveFlag, ProtocolUploadBucket, ProtocolReceiveSecondFlag
<1>3. CASE SendRequest(c) \/ SendLeaf(c) \/ ReceiveNum(c) \/ ReceiveBlocks(c)
  BY <1>3, ProtocolSendRequest, ProtocolSendLeaf, ProtocolReceiveNum, ProtocolReceiveBlocks
<1>4. CASE SendBranch(c) \/ ReceiveConfirmation(c) \/ Shutdown(c)
  BY <1>4, ProtocolSendBranch, ProtocolReceiveConfirmation, ProtocolShutdown
<1>5. CASE Truncate(c) \/ Write(c)
  <2>1. client[c] \in {"save", "write"} \/ client[c] \in {"quitting", "last write"}
    BY <1>5 DEF Truncate, Write
  <2> QED BY <1>5, <2>1, ProtocolSave, ProtocolStop
<1>6. CASE InitializeFails(c) \/ HandshakeFails(c) \/ CallFails(c) \/ Quit(c) \/ Crash(c)
  BY <1>6, ProtocolStop
<1> QED BY <1>1, <1>2, <1>3, <1>4, <1>5, <1>6 DEF Starts, ClientStep

-----------------------------------------------------------------------------
\* The steps of the server.
Stages == {"listen", "setup", "receive tree", "set flag", "announce", "request", "leaf", "num",
           "branch", "receive", "commit", "ack", "closing", "closing again", "down"}

LEMMA Served ==
  ASSUME ProtocolInv, server \notin {"listen", "down"}
  PROVE  /\ client_socket \in Clients /\ UpFits(client_socket)
         /\ client[client_socket] \in Active =>
              /\ InStep(client_socket) /\ DownFits(client_socket)
              /\ "client" \in ends[client_socket]
  BY DEF ProtocolInv, TypeOK, LineInv, StreamInv

LEMMA ServerTypes ==
  ASSUME TypeOK, server \notin {"listen", "down"}, server' \in Stages \ {"listen", "down"},
         UNCHANGED <<clientVars, client_socket, backlog, fresh, mishaps, counters>>,
         up' \in [Clients -> Seq(Token)], down' \in [Clients -> Seq(Token)],
         ends' \in [Clients -> SUBSET {"client", "server"}], uploaded' \in 0 .. Buckets,
         branch' \in Versions,
         tree' \in Versions \cup {Unfinished}, fdb_is_initialized' \in BOOLEAN
  PROVE  TypeOK'
<1>1. /\ client' = client /\ expected' = expected /\ maps' = maps /\ oram_state' = oram_state
      /\ client_socket' = client_socket /\ backlog' = backlog /\ fresh' = fresh
      /\ mishaps' = mishaps
      /\ traversals' = traversals /\ restarts' = restarts /\ clears' = clears
  BY DEF clientVars, counters
<1>2. (client_socket = NoClient) = (server' \in {"listen", "down"})
  <2>1. (client_socket = NoClient) = (server \in {"listen", "down"})
    BY DEF TypeOK
  <2> QED BY <2>1
<1> QED BY <1>1, <1>2 DEF TypeOK, Stages

\* What every step has in common in which the server sends something.
LEMMA ServerSends ==
  ASSUME ProtocolInv, NEW c \in Clients, c = client_socket, NEW s \in Seq(Token),
         NEW stage \in Stages \ {"listen", "down", "closing again"},
         server \notin {"listen", "down", "closing again"}, server' = stage,
         Send("server", c, s), uploaded' \in 0 .. Buckets,
         UNCHANGED <<clientVars, ends, client_socket, backlog, branch, fdb, history, counters>>
  PROVE  /\ client' = client /\ expected' = expected /\ maps' = maps /\ up' = up /\ tree' = tree
         /\ fresh' = fresh /\ down[c] \in Seq(Token)
         /\ client[c] \in Active => /\ down'[c] = down[c] \o s /\ Len(down'[c]) = Len(down[c]) + Len(s)
                                    /\ InStep(c) /\ DownFits(c)
         /\ UpFits(c)' /\ (client[c] \in Active => DownFits(c)' /\ InStep(c)') => ProtocolInv'
<1>1. TypeOK
  BY DEF ProtocolInv
<1>2. /\ down' \in [Clients -> Seq(Token)] /\ up' = up
      /\ \A d \in Clients \ {c} : down'[d] = down[d]
      /\ "client" \in ends[c] => down'[c] = down[c] \o s /\ Len(down'[c]) = Len(down[c]) + Len(s)
  BY <1>1, ServerAppends
<1>3. client[c] \in Active => "client" \in ends[c] /\ InStep(c) /\ DownFits(c)
  BY Served
<1>4. /\ client' = client /\ expected' = expected /\ maps' = maps
      /\ branch' = branch /\ tree' = tree /\ fdb_is_initialized' = fdb_is_initialized
      /\ fresh' = fresh /\ mishaps' = mishaps /\ ends' = ends
      /\ traversals' = traversals
  BY DEF clientVars, fdb, history, counters
<1>5. down[c] \in Seq(Token) /\ up \in [Clients -> Seq(Token)]
  BY <1>1 DEF TypeOK
<1>6. TypeOK'
  <2>1. /\ branch' \in Versions /\ tree' \in Versions \cup {Unfinished}
        /\ fdb_is_initialized' \in BOOLEAN /\ ends' \in [Clients -> SUBSET {"client", "server"}]
    BY <1>1, <1>4 DEF TypeOK
  <2> QED BY <1>1, <1>2, <1>4, <1>5, <2>1, ServerTypes
<1>7. ASSUME UpFits(c)', client[c] \in Active => DownFits(c)' /\ InStep(c)' PROVE ProtocolInv'
  BY <1>2, <1>4, <1>6, <1>7, ServerMoves
<1> QED BY <1>2, <1>3, <1>4, <1>5, <1>7

\* What every step has in common in which the server takes n messages.
LEMMA ServerTakesSome ==
  ASSUME ProtocolInv, NEW c \in Clients, c = client_socket, NEW n \in Nat,
         NEW stage \in Stages \ {"listen", "down", "closing again"},
         server \notin {"listen", "down", "closing again"}, server' = stage,
         Receive("server", c, n), uploaded' \in 0 .. Buckets, branch' \in Versions,
         tree' \in Versions \cup {Unfinished},
         UNCHANGED <<clientVars, ends, client_socket, backlog, fdb_is_initialized,
                     history, counters>>
  PROVE  /\ client' = client /\ expected' = expected /\ maps' = maps /\ down' = down
         /\ fresh' = fresh /\ up'[c] = Drop(up[c], n) /\ Len(up[c]) >= n
         /\ Len(up'[c]) = Len(up[c]) - n /\ up[c] \in Seq(Token) /\ Len(up[c]) \in Nat
         /\ UpFits(c) /\ (client[c] \in Active => InStep(c) /\ DownFits(c))
         /\ UpFits(c)' /\ (client[c] \in Active => DownFits(c)' /\ InStep(c)') => ProtocolInv'
<1>1. TypeOK
  BY DEF ProtocolInv
<1>2. /\ up' \in [Clients -> Seq(Token)] /\ down' = down /\ Len(up[c]) >= n
      /\ \A d \in Clients \ {c} : up'[d] = up[d]
      /\ up'[c] = Drop(up[c], n) /\ Len(up'[c]) = Len(up[c]) - n
  BY <1>1, ServerDrops
<1>3. UpFits(c) /\ (client[c] \in Active => InStep(c) /\ DownFits(c))
  BY Served
<1>4. /\ client' = client /\ expected' = expected /\ maps' = maps
      /\ fresh' = fresh /\ mishaps' = mishaps
      /\ ends' = ends /\ traversals' = traversals
  BY DEF clientVars, history, counters
<1>5. up[c] \in Seq(Token) /\ Len(up[c]) \in Nat /\ down' \in [Clients -> Seq(Token)]
  BY <1>1, <1>2, Streams DEF TypeOK
<1>6. TypeOK'
  <2>1. /\ fdb_is_initialized' \in BOOLEAN /\ ends' \in [Clients -> SUBSET {"client", "server"}]
    BY <1>1, <1>4 DEF TypeOK
  <2> QED BY <1>1, <1>2, <1>4, <1>5, <2>1, ServerTypes
<1>7. ASSUME UpFits(c)', client[c] \in Active => DownFits(c)' /\ InStep(c)' PROVE ProtocolInv'
  BY <1>2, <1>4, <1>6, <1>7, ServerMoves
<1> QED BY <1>2, <1>3, <1>4, <1>5, <1>7

\* And in which it neither sends nor receives.
LEMMA ServerGoesOn ==
  ASSUME ProtocolInv, NEW c \in Clients, c = client_socket,
         NEW stage \in Stages \ {"listen", "down"},
         server \notin {"listen", "down", "closing again"}, server' = stage,
         uploaded' \in 0 .. Buckets, branch' \in Versions, tree' \in Versions \cup {Unfinished},
         fdb_is_initialized' \in BOOLEAN,
         UNCHANGED <<clientVars, streams, client_socket, backlog, fresh, mishaps, counters>>
  PROVE  /\ client' = client /\ expected' = expected /\ maps' = maps /\ down' = down /\ up' = up
         /\ fresh' = fresh /\ UpFits(c) /\ (client[c] \in Active => InStep(c) /\ DownFits(c))
         /\ UpFits(c)' /\ (client[c] \in Active => DownFits(c)' /\ InStep(c)') => ProtocolInv'
<1>1. TypeOK
  BY DEF ProtocolInv
<1>2. UpFits(c) /\ (client[c] \in Active => InStep(c) /\ DownFits(c))
  BY Served
<1>3. /\ client' = client /\ expected' = expected /\ maps' = maps /\ oram_state' = oram_state
      /\ up' = up /\ down' = down /\ ends' = ends /\ fresh' = fresh /\ mishaps' = mishaps
      /\ traversals' = traversals /\ restarts' = restarts /\ clears' = clears
      /\ client_socket' = client_socket /\ backlog' = backlog
  BY DEF clientVars, streams, counters
<1>4. TypeOK'
  <2>1. /\ up' \in [Clients -> Seq(Token)] /\ down' \in [Clients -> Seq(Token)]
        /\ ends' \in [Clients -> SUBSET {"client", "server"}]
    BY <1>1, <1>3 DEF TypeOK
  <2> QED BY <1>1, <1>3, <2>1, ServerTypes
<1>5. ASSUME UpFits(c)', client[c] \in Active => DownFits(c)' /\ InStep(c)' PROVE ProtocolInv'
  BY <1>3, <1>4, <1>5, ServerMoves
<1> QED BY <1>2, <1>3, <1>5

LEMMA ProtocolSendFlag ==
  ASSUME ProtocolInv, NEW c \in Clients, c = client_socket, SendFlag
  PROVE  ProtocolInv'
<1> DEFINE stage == IF fdb_is_initialized THEN "announce" ELSE "receive tree"
<1>1. /\ server = "setup" /\ Send("server", c, <<Flag(fdb_is_initialized)>>)
      /\ uploaded' = 0 /\ server' = stage
      /\ UNCHANGED <<clientVars, ends, client_socket, backlog, branch, fdb, history, counters>>
  BY DEF SendFlag
<1>2. UpFits(c)
  BY <1>1, Served
<1>3. /\ <<Flag(fdb_is_initialized)>> \in Seq(Token) /\ uploaded' \in 0 .. Buckets
      /\ fdb_is_initialized \in BOOLEAN
      /\ stage \in Stages \ {"listen", "down", "closing again"}
      /\ server \notin {"listen", "down", "closing again"}
  <2>1. fdb_is_initialized \in BOOLEAN
    BY DEF ProtocolInv, TypeOK
  <2>2. uploaded' \in 0 .. Buckets
    <3>1. 0 \in 0 .. Buckets
      BY WireAssumption
    <3>2. uploaded' = 0
      BY <1>1
    <3> QED BY <3>1, <3>2
  <2> QED BY <1>1, <2>1, <2>2, SmallTokens DEF Stages
<1>4. /\ client' = client /\ up' = up /\ fresh' = fresh
      /\ client[c] \in Active => /\ down'[c] = down[c] \o <<Flag(fdb_is_initialized)>>
                                 /\ InStep(c) /\ DownFits(c)
  BY <1>1, <1>2, <1>3, ServerSends
<1>5. up[c] = <<>> /\ Len(up[c]) = 0
  <2>1. up[c] = <<>>
    BY <1>1, <1>2 DEF UpFits
  <2> QED BY <2>1, Shapes
<1>6. UpFits(c)'
  <2>1. CASE fdb_is_initialized
    BY <1>1, <1>4, <1>5, <2>1 DEF UpFits
  <2>2. CASE ~fdb_is_initialized
    <3>1. server' = "receive tree" /\ uploaded' = 0 /\ Len(up[c]) = 0
      <4>1. server' = "receive tree" /\ uploaded' = 0
        BY <1>1, <2>2
      <4>2. Len(up[c]) = 0
        BY <1>5
      <4> QED BY <4>1, <4>2
    <3>2. 0 + 0 <= Buckets /\ \A i \in 1 .. 0 : FALSE
      BY WireAssumption
    <3> QED BY <1>4, <1>5, <3>1, <3>2 DEF UpFits
  <2> QED BY <2>1, <2>2
<1>7. ASSUME client[c] \in Active PROVE DownFits(c)' /\ InStep(c)'
  <2>1. client[c] = "flag" /\ down[c] = <<>> /\ c \notin fresh
    BY <1>1, <1>4, <1>7 DEF InStep, DownFits
  <2>2. down'[c] = <<Flag(fdb_is_initialized)>>
    BY <1>3, <1>4, <1>7, <2>1, ConcatEmptySeq
  <2>3. CASE fdb_is_initialized
    <3>1. server' = "announce" /\ down'[c] = <<Flag(TRUE)>>
      BY <1>1, <2>2, <2>3
    <3> QED BY <1>4, <1>5, <2>1, <3>1 DEF DownFits, InStep
  <2>4. CASE ~fdb_is_initialized
    <3>1. server' = "receive tree" /\ down'[c] = <<Flag(FALSE)>>
      BY <1>1, <1>3, <2>2, <2>4
    <3> QED BY <1>1, <1>4, <1>5, <2>1, <3>1 DEF DownFits, InStep
  <2> QED BY <2>3, <2>4
<1> HIDE DEF stage
<1> QED BY <1>1, <1>2, <1>3, <1>6, <1>7, ServerSends

LEMMA ProtocolAnnounce ==
  ASSUME ProtocolInv, NEW c \in Clients, c = client_socket, Announce
  PROVE  ProtocolInv'
<1>1. /\ server = "announce" /\ Send("server", c, <<Flag(TRUE)>>) /\ server' = "request"
      /\ UNCHANGED <<clientVars, ends, client_socket, backlog, uploaded, branch,
                     fdb, history, counters>>
  BY DEF Announce
<1>2. UpFits(c)
  BY <1>1, Served
<1>3. /\ <<Flag(TRUE)>> \in Seq(Token) /\ uploaded' \in 0 .. Buckets
      /\ "request" \in Stages \ {"listen", "down", "closing again"}
      /\ server \notin {"listen", "down", "closing again"}
  BY <1>1, SmallTokens DEF Stages, ProtocolInv, TypeOK
<1>4. /\ client' = client /\ up' = up /\ fresh' = fresh /\ expected' = expected
      /\ client[c] \in Active => /\ down'[c] = down[c] \o <<Flag(TRUE)>>
                                 /\ InStep(c) /\ DownFits(c)
  BY <1>1, <1>2, <1>3, ServerSends
<1>5. UpFits(c)'
  BY <1>1, <1>2, <1>4 DEF UpFits
<1>6. ASSUME client[c] \in Active PROVE DownFits(c)' /\ InStep(c)'
  <2>1. \/ client[c] = "uploaded" /\ down[c] = <<>> /\ up[c] = <<>>
        \/ client[c] = "flag" /\ down[c] = <<Flag(TRUE)>> /\ up[c] = <<>>
        \/ c \notin fresh /\ Ahead(c) /\ down[c] = <<>>
    BY <1>1, <1>4, <1>6 DEF InStep
  <2>2. CASE client[c] = "uploaded" /\ down[c] = <<>> /\ up[c] = <<>>
    <3>1. down'[c] = <<Flag(TRUE)>>
      BY <1>3, <1>4, <1>6, <2>2, ConcatEmptySeq
    <3>2. c \in fresh /\ expected[c] = 0
      BY <1>4, <1>6, <2>2 DEF DownFits
    <3> QED BY <1>1, <1>4, <2>2, <3>1, <3>2 DEF DownFits, InStep
  <2>3. CASE client[c] = "flag" /\ down[c] = <<Flag(TRUE)>> /\ up[c] = <<>>
    <3>1. down'[c] = <<Flag(TRUE), Flag(TRUE)>>
      BY <1>4, <1>6, <2>3, FlagStreams
    <3>2. c \notin fresh
      BY <1>4, <1>6, <2>3 DEF DownFits
    <3> QED BY <1>1, <1>4, <2>3, <3>1, <3>2 DEF DownFits, InStep
  <2>4. CASE c \notin fresh /\ Ahead(c) /\ down[c] = <<>>
    <3>1. down'[c] = <<Flag(TRUE)>>
      BY <1>3, <1>4, <1>6, <2>4, ConcatEmptySeq
    <3>2. Len(down'[c]) = 1
      BY <3>1, FlagStreams
    <3>3. client[c] \in {"ready", "leaf", "num", "shut down"}
      BY <1>4, <1>6, <2>4 DEF Ahead, DownFits
    <3>4. Ahead(c)' /\ Stray(c)' = 1
      BY <1>4, <2>4, <3>3 DEF Ahead, Stray
    <3>5. InStep(c)'
      BY <1>1, <3>2, <3>4 DEF InStep
    <3>6. CASE client[c] = "num"
      BY <1>4, <2>4, <3>1, <3>5, <3>6, NumFits
    <3>7. CASE client[c] # "num"
      BY <1>4, <2>4, <3>1, <3>3, <3>5, <3>7 DEF DownFits
    <3> QED BY <3>6, <3>7
  <2> QED BY <2>1, <2>2, <2>3, <2>4
<1> QED BY <1>1, <1>2, <1>3, <1>5, <1>6, ServerSends

LEMMA ProtocolSendNum ==
  ASSUME ProtocolInv, NEW c \in Clients, c = client_socket, SendNum
  PROVE  ProtocolInv'
<1>1. /\ server = "num" /\ Send("server", c, NumBlocks) /\ server' = "branch"
      /\ UNCHANGED <<clientVars, ends, client_socket, backlog, uploaded, branch,
                     fdb, history, counters>>
  BY DEF SendNum
<1>2. UpFits(c)
  BY <1>1, Served
<1>3. /\ NumBlocks \in Seq(Token) /\ Len(NumBlocks) = 2 /\ uploaded' \in 0 .. Buckets
      /\ "branch" \in Stages \ {"listen", "down", "closing again"}
      /\ server \notin {"listen", "down", "closing again"}
  BY <1>1, SmallTokens DEF Stages, ProtocolInv, TypeOK
<1>4. /\ client' = client /\ up' = up /\ fresh' = fresh /\ down[c] \in Seq(Token)
      /\ client[c] \in Active => /\ down'[c] = down[c] \o NumBlocks
                                 /\ Len(down'[c]) = Len(down[c]) + Len(NumBlocks)
                                 /\ InStep(c) /\ DownFits(c)
  BY <1>1, <1>2, <1>3, ServerSends
<1>5. UpFits(c)'
  BY <1>1, <1>2, <1>4 DEF UpFits
<1>6. ASSUME client[c] \in Active PROVE DownFits(c)' /\ InStep(c)'
  <2>1. client[c] = "num" /\ Len(down[c]) = Stray(c) /\ DownFits(c)
    BY <1>1, <1>4, <1>6 DEF InStep
  <2>2. Len(down'[c]) = 2 + Stray(c) /\ Stray(c)' = Stray(c)
    <3>1. Stray(c) \in Nat /\ Stray(c)' = Stray(c)
      BY <1>4 DEF Stray
    <3>2. Len(down'[c]) = Stray(c) + 2
      BY <1>3, <1>4, <1>6, <2>1
    <3> QED BY <3>1, <3>2
  <2>3. InStep(c)'
    BY <1>1, <1>4, <2>1, <2>2 DEF InStep
  <2>4. CASE c \in fresh
    <3>1. down[c] = <<>>
      BY <1>4, <2>1, <2>4, EmptySeq DEF Stray
    <3>2. down'[c] = NumBlocks
      BY <1>3, <1>4, <1>6, <3>1, ConcatEmptySeq
    <3> QED BY <1>4, <2>1, <2>3, <2>4, <3>2 DEF DownFits
  <2>5. CASE c \notin fresh
    <3>1. Len(down[c]) = 1 /\ Len(down'[c]) = 3
      BY <2>1, <2>2, <2>5 DEF Stray
    <3>2. down[c][1] = Flag(TRUE)
      <4>1. Len(down[c]) >= 1 => down[c][1] = Flag(TRUE)
        BY <2>1, <2>5 DEF DownFits
      <4>2. Len(down[c]) >= 1
        BY <3>1
      <4> QED BY <4>1, <4>2
    <3>3. \A i \in 1 .. 3 : down'[c][i] = IF i <= 1 THEN down[c][i] ELSE NumBlocks[i - 1]
      <4>1. \A i \in 1 .. Len(down[c]) + Len(NumBlocks) :
              (down[c] \o NumBlocks)[i] = IF i <= Len(down[c]) THEN down[c][i]
                                                             ELSE NumBlocks[i - Len(down[c])]
        BY <1>3, <1>4, ConcatProperties
      <4>2. down'[c] = down[c] \o NumBlocks
        BY <1>4, <1>6
      <4>3. Len(down[c]) = 1 /\ Len(NumBlocks) = 2
        BY <1>3, <3>1
      <4>4. ASSUME NEW i \in 1 .. 3
            PROVE  down'[c][i] = IF i <= 1 THEN down[c][i] ELSE NumBlocks[i - 1]
        <5>1. i \in 1 .. Len(down[c]) + Len(NumBlocks)
          BY <4>3
        <5> QED BY <4>1, <4>2, <4>3, <5>1
      <4> QED BY <4>4
    <3>4. down'[c][1] = down[c][1] /\ down'[c][2] = NumBlocks[1]
      BY <3>3
    <3>5. NumBlocks[1] = Digit(BranchBlocks)
      BY DEF NumBlocks
    <3>6. Len(down'[c]) <= 3 + BranchBlocks
      BY <3>1, WireAssumption
    <3> QED BY <1>4, <2>1, <2>3, <2>5, <3>2, <3>4, <3>5, <3>6 DEF DownFits
  <2> QED BY <2>4, <2>5
<1> QED BY <1>1, <1>2, <1>3, <1>5, <1>6, ServerSends

LEMMA ProtocolAcknowledge ==
  ASSUME ProtocolInv, NEW c \in Clients, c = client_socket, Acknowledge
  PROVE  ProtocolInv'
<1>1. /\ server = "ack" /\ Send("server", c, <<Id(1)>>) /\ server' = "request"
      /\ UNCHANGED <<clientVars, ends, client_socket, backlog, uploaded, branch,
                     fdb, history, counters>>
  BY DEF Acknowledge
<1>2. UpFits(c)
  BY <1>1, Served
<1>3. /\ <<Id(1)>> \in Seq(Token) /\ uploaded' \in 0 .. Buckets
      /\ "request" \in Stages \ {"listen", "down", "closing again"}
      /\ server \notin {"listen", "down", "closing again"}
  BY <1>1, SmallTokens DEF Stages, ProtocolInv, TypeOK
<1>4. /\ client' = client /\ up' = up /\ fresh' = fresh /\ maps' = maps /\ tree' = tree
      /\ client[c] \in Active => /\ down'[c] = down[c] \o <<Id(1)>>
                                 /\ InStep(c) /\ DownFits(c)
  BY <1>1, <1>2, <1>3, ServerSends
<1>5. up[c] = <<>>
  BY <1>1, <1>2 DEF UpFits
<1>6. UpFits(c)'
  BY <1>1, <1>4, <1>5 DEF UpFits
<1>7. ASSUME client[c] \in Active PROVE DownFits(c)' /\ InStep(c)'
  <2>1. client[c] = "confirm" /\ down[c] = <<>> /\ tree = maps
    BY <1>1, <1>4, <1>7 DEF InStep
  <2>2. c \in fresh /\ maps \in Nat
    BY <1>4, <1>7, <2>1 DEF DownFits
  <2>3. down'[c] = <<Id(1)>>
    BY <1>3, <1>4, <1>7, <2>1, ConcatEmptySeq
  <2> QED BY <1>1, <1>4, <1>5, <2>1, <2>2, <2>3 DEF DownFits, InStep
<1> QED BY <1>1, <1>2, <1>3, <1>6, <1>7, ServerSends

LEMMA ProtocolSendBranchToClient ==
  ASSUME ProtocolInv, NEW c \in Clients, c = client_socket, SendBranchToClient
  PROVE  ProtocolInv'
<1> DEFINE B == Blocks(tree)
<1>1. /\ server = "branch" /\ Send("server", c, B) /\ server' = "receive"
      /\ UNCHANGED <<clientVars, ends, client_socket, backlog, uploaded, branch, fdb,
                     history, counters>>
  BY DEF SendBranchToClient
<1>2. UpFits(c)
  BY <1>1, Served
<1>3. /\ B \in Seq(Token) /\ Len(B) = BranchBlocks /\ B # <<>> /\ B[1].value = tree
      /\ BranchBlocks \in Nat /\ BranchBlocks >= 1
  <2>1. tree \in Nat \cup {Unfinished, Torn}
    BY DEF ProtocolInv, TypeOK, Versions
  <2> QED BY <2>1, Tokens, WireAssumption
<1>4. /\ uploaded' \in 0 .. Buckets
      /\ "receive" \in Stages \ {"listen", "down", "closing again"}
      /\ server \notin {"listen", "down", "closing again"}
  BY <1>1 DEF Stages, ProtocolInv, TypeOK
<1>5. IsBranch(B)
  BY <1>3 DEF IsBranch
<1> HIDE DEF B
<1>6. /\ client' = client /\ up' = up /\ fresh' = fresh /\ expected' = expected
      /\ down[c] \in Seq(Token)
      /\ client[c] \in Active => /\ down'[c] = down[c] \o B
                                 /\ Len(down'[c]) = Len(down[c]) + Len(B)
                                 /\ InStep(c) /\ DownFits(c)
  BY <1>1, <1>2, <1>3, <1>4, ServerSends
<1>7. up[c] = <<>>
  BY <1>1, <1>2 DEF UpFits
<1>8. UpFits(c)'
  BY <1>1, <1>6, <1>7 DEF UpFits
<1>9. ASSUME client[c] \in Active PROVE DownFits(c)' /\ InStep(c)'
  <2>1. /\ \/ client[c] = "num" /\ Len(down[c]) = 2 + Stray(c)
           \/ client[c] = "blocks" /\ Len(down[c]) = Stray(c)
        /\ DownFits(c) /\ down'[c] = down[c] \o B /\ Len(down'[c]) = Len(down[c]) + Len(B)
    BY <1>1, <1>6, <1>9 DEF InStep
  <2>2. InStep(c)'
    BY <1>1, <1>6, <1>7, <2>1 DEF InStep
  <2>3. CASE client[c] = "num" /\ c \in fresh
    <3>1. Len(down[c]) = 2
      BY <2>1, <2>3 DEF Stray
    <3>2. down[c] = NumBlocks
      <4>1. \/ down[c] \in {<<>>, NumBlocks}
            \/ IsBranch(Drop(down[c], 2))
        BY <2>1, <2>3 DEF DownFits
      <4>2. Drop(down[c], 2) = <<>>
        BY <1>6, <3>1, DropAll
      <4>3. Len(<<>>) = 0
        OBVIOUS
      <4>4. down[c] # <<>>
        BY <3>1, <4>3
      <4> QED BY <4>1, <4>2, <4>4 DEF IsBranch
    <3>3. Drop(down'[c], 2) = B
      BY <1>3, <1>6, <2>1, <3>1, DropConcat
    <3>4. down'[c] = NumBlocks \o Drop(down'[c], 2) /\ IsBranch(Drop(down'[c], 2))
      BY <1>5, <2>1, <3>2, <3>3
    <3>5. client'[c] = "num" /\ c \in fresh'
      BY <1>6, <2>3
    <3>6. DownFits(c)'
      BY <3>4, <3>5 DEF DownFits, IsBranch
    <3> QED BY <2>2, <3>6
  <2>4. CASE client[c] = "num" /\ c \notin fresh
    <3>1. Len(down[c]) = 3 /\ Len(down'[c]) = 3 + BranchBlocks
      <4>1. Stray(c) = 1 /\ Len(down[c]) = 2 + Stray(c)
        BY <2>1, <2>4 DEF Stray
      <4>2. Len(down[c]) = 3
        BY <4>1
      <4> QED BY <1>3, <2>1, <4>2
    <3>2. down[c][1] = Flag(TRUE) /\ down[c][2] = Digit(BranchBlocks)
      <4>1. /\ Len(down[c]) >= 1 => down[c][1] = Flag(TRUE)
            /\ Len(down[c]) >= 2 => down[c][2] = Digit(BranchBlocks)
        BY <2>1, <2>4 DEF DownFits
      <4>2. Len(down[c]) >= 1 /\ Len(down[c]) >= 2
        BY <3>1
      <4> QED BY <4>1, <4>2
    <3>3. down'[c] = down[c] \o B /\ down[c] \in Seq(Token) /\ B \in Seq(Token)
      BY <1>3, <1>6, <2>1
    <3>4. down'[c][1] = down[c][1] /\ down'[c][2] = down[c][2]
      <4>1. 1 \in 1 .. Len(down[c]) /\ 2 \in 1 .. Len(down[c])
        BY <3>1
      <4>2. (down[c] \o B)[1] = down[c][1] /\ (down[c] \o B)[2] = down[c][2]
        BY <3>3, <4>1, StartOfConcat
      <4> QED BY <3>3, <4>2
    <3>5. Len(down'[c]) <= 3 + BranchBlocks
      BY <1>3, <3>1
    <3> QED BY <1>6, <2>2, <2>4, <3>2, <3>4, <3>5 DEF DownFits
  <2>5. CASE client[c] = "blocks" /\ c \in fresh
    <3>1. down[c] = <<>>
      BY <1>6, <2>1, <2>5, EmptySeq DEF Stray
    <3>2. down'[c] = B
      BY <1>3, <2>1, <3>1, ConcatEmptySeq
    <3>3. expected[c] = BranchBlocks
      BY <2>1, <2>5 DEF DownFits
    <3>4. IsBranch(down'[c]) /\ client'[c] = "blocks" /\ c \in fresh' /\ expected'[c] = BranchBlocks
      BY <1>5, <1>6, <2>5, <3>2, <3>3
    <3> QED BY <2>2, <3>4 DEF DownFits, IsBranch
  <2>6. CASE client[c] = "blocks" /\ c \notin fresh
    <3>1. Len(down'[c]) <= 1 + BranchBlocks
      BY <1>3, <2>1, <2>6 DEF Stray
    <3>2. expected[c] = 1 + Base * BranchBlocks
      BY <2>1, <2>6 DEF DownFits
    <3> QED BY <1>6, <2>2, <2>6, <3>1, <3>2 DEF DownFits
  <2> QED BY <2>1, <2>3, <2>4, <2>5, <2>6
<1> QED BY <1>1, <1>2, <1>3, <1>4, <1>8, <1>9, ServerSends

LEMMA ProtocolReceiveBucket ==
  ASSUME ProtocolInv, NEW c \in Clients, c = client_socket, ReceiveBucket
  PROVE  ProtocolInv'
<1>1. /\ server = "receive tree" /\ uploaded < Buckets /\ Receive("server", c, 1)
      /\ uploaded' = uploaded + 1 /\ tree' \in {Unfinished, tree} /\ server' = "receive tree"
      /\ UNCHANGED <<clientVars, ends, client_socket, backlog, branch,
                     fdb_is_initialized, history, counters>>
  BY DEF ReceiveBucket
<1>2. /\ uploaded \in Nat /\ uploaded' \in 0 .. Buckets /\ branch' \in Versions
      /\ tree' \in Versions \cup {Unfinished}
  <2>1. uploaded \in 0 .. Buckets /\ Buckets \in Nat
    BY WireAssumption DEF ProtocolInv, TypeOK
  <2>2. uploaded' \in 0 .. Buckets
    <3>1. uploaded < Buckets /\ uploaded' = uploaded + 1
      BY <1>1
    <3> QED BY <2>1, <3>1
  <2>3. branch' \in Versions /\ tree' \in Versions \cup {Unfinished}
    BY <1>1 DEF ProtocolInv, TypeOK
  <2> QED BY <2>1, <2>2, <2>3
<1>3. /\ "receive tree" \in Stages \ {"listen", "down", "closing again"}
      /\ server \notin {"listen", "down", "closing again"}
  BY <1>1 DEF Stages
<1>4. /\ client' = client /\ expected' = expected /\ down' = down /\ fresh' = fresh
      /\ up'[c] = Drop(up[c], 1) /\ Len(up[c]) >= 1 /\ Len(up'[c]) = Len(up[c]) - 1
      /\ up[c] \in Seq(Token) /\ Len(up[c]) \in Nat
      /\ UpFits(c) /\ (client[c] \in Active => InStep(c) /\ DownFits(c))
  BY <1>1, <1>2, <1>3, ServerTakesSome
<1>5. uploaded' + Len(up'[c]) = uploaded + Len(up[c])
  <2>1. uploaded' = uploaded + 1 /\ uploaded \in Nat
    BY <1>1, <1>2
  <2>2. Len(up'[c]) = Len(up[c]) - 1 /\ Len(up[c]) \in Nat
    BY <1>4
  <2>3. \A u, n \in Nat : (u + 1) + (n - 1) = u + n
    OBVIOUS
  <2>4. (uploaded + 1) + (Len(up[c]) - 1) = uploaded + Len(up[c])
    BY <2>1, <2>2, <2>3
  <2> QED BY <2>1, <2>2, <2>4
<1>6. UpFits(c)'
  <2>1. /\ uploaded + Len(up[c]) <= Buckets
        /\ \A i \in 1 .. Len(up[c]) : up[c][i] = Block(0)
    BY <1>1, <1>4 DEF UpFits
  <2>2. uploaded' + Len(up'[c]) = uploaded + Len(up[c])
    BY <1>5
  <2>3. ASSUME NEW i \in 1 .. Len(up'[c]) PROVE up'[c][i] = Block(0)
    <3>1. i \in 1 .. Len(up[c]) - 1 /\ 1 + i \in 1 .. Len(up[c])
      BY <1>4
    <3>2. Drop(up[c], 1)[i] = up[c][1 + i]
      <4>1. up[c] \in Seq(Token) /\ 1 <= Len(up[c]) /\ 1 \in Nat
        BY <1>4
      <4>2. \A k \in 1 .. Len(up[c]) - 1 : Drop(up[c], 1)[k] = up[c][1 + k]
        BY <4>1, DropProperties
      <4> QED BY <3>1, <4>2
    <3> QED BY <1>4, <2>1, <3>1, <3>2
  <2> QED BY <1>1, <2>1, <2>2, <2>3 DEF UpFits
<1>7. ASSUME client[c] \in Active PROVE DownFits(c)' /\ InStep(c)'
  <2>1. up[c] # <<>>
    BY <1>4, Shapes
  <2>2. /\ client[c] \in {"upload", "uploaded"} /\ down[c] = <<>> /\ DownFits(c)
        /\ uploaded + Len(up[c]) + expected[c] = Buckets
    BY <1>1, <1>4, <1>7, <2>1 DEF InStep
  <2>3. expected[c] \in Nat
    BY DEF ProtocolInv, TypeOK
  <2>4. uploaded' + Len(up'[c]) + expected[c] = Buckets
    <3>1. uploaded' + Len(up'[c]) = uploaded + Len(up[c])
      BY <1>5
    <3> QED BY <2>2, <3>1
  <2>5. DownFits(c)'
    BY <1>4, <2>2 DEF DownFits
  <2>6. InStep(c)'
    BY <1>1, <1>4, <2>2, <2>4 DEF InStep
  <2> QED BY <2>5, <2>6
<1> QED BY <1>1, <1>2, <1>3, <1>6, <1>7, ServerTakesSome

LEMMA ProtocolCommitTree ==
  ASSUME ProtocolInv, NEW c \in Clients, c = client_socket, CommitTree
  PROVE  ProtocolInv'
<1>1. /\ server = "receive tree" /\ uploaded = Buckets /\ tree' = 0 /\ uploaded' = 0
      /\ server' = "set flag"
      /\ UNCHANGED <<clientVars, streams, client_socket, backlog, branch,
                     fdb_is_initialized, history, counters>>
  BY DEF CommitTree
<1>2. TypeOK
  BY DEF ProtocolInv
<1>3. /\ branch' = branch /\ fdb_is_initialized' = fdb_is_initialized
      /\ fresh' = fresh /\ mishaps' = mishaps
  BY <1>1 DEF history
<1>4. /\ uploaded' \in 0 .. Buckets /\ branch' \in Versions /\ tree' \in Versions \cup {Unfinished}
      /\ fdb_is_initialized' \in BOOLEAN
  <2>1. 0 \in 0 .. Buckets /\ 0 \in Versions
    BY WireAssumption DEF Versions
  <2> QED BY <1>1, <1>2, <1>3, <2>1 DEF TypeOK
<1>5. /\ "set flag" \in Stages \ {"listen", "down"}
      /\ server \notin {"listen", "down", "closing again"}
  BY <1>1 DEF Stages
<1>6. /\ client' = client /\ expected' = expected /\ down' = down /\ up' = up
      /\ UpFits(c) /\ (client[c] \in Active => InStep(c) /\ DownFits(c))
  BY <1>1, <1>3, <1>4, <1>5, ServerGoesOn
<1>7. up[c] = <<>> /\ Len(up[c]) = 0
  <2>1. uploaded + Len(up[c]) <= Buckets
    BY <1>1, <1>6 DEF UpFits
  <2>2. up[c] \in Seq(Token) /\ Len(up[c]) \in Nat
    BY <1>2, Streams
  <2>3. Len(up[c]) = 0
    <3>1. uploaded = Buckets /\ Buckets \in Nat
      BY <1>1, WireAssumption
    <3> QED BY <2>1, <2>2, <3>1
  <2> QED BY <2>2, <2>3, EmptySeq
<1>8. UpFits(c)'
  BY <1>1, <1>6, <1>7 DEF UpFits
<1>9. ASSUME client[c] \in Active PROVE DownFits(c)' /\ InStep(c)'
  <2>1. uploaded # 0
    BY <1>1, WireAssumption
  <2>2. /\ client[c] \in {"upload", "uploaded"} /\ down[c] = <<>> /\ DownFits(c)
        /\ uploaded + Len(up[c]) + expected[c] = Buckets
    BY <1>1, <1>6, <1>9, <2>1 DEF InStep
  <2>3. expected[c] = 0
    <3>1. expected[c] \in Nat
      BY <1>2 DEF TypeOK
    <3>2. uploaded = Buckets /\ Buckets \in Nat
      BY <1>1, WireAssumption
    <3>3. Len(up[c]) = 0 /\ uploaded + Len(up[c]) + expected[c] = Buckets
      BY <1>7, <2>2
    <3> QED BY <3>1, <3>2, <3>3
  <2>4. client[c] = "uploaded"
    <3>1. client[c] = "upload" => expected[c] > 0
      BY <2>2 DEF DownFits
    <3> QED BY <2>2, <2>3, <3>1
  <2> QED BY <1>1, <1>3, <1>6, <2>2, <2>4 DEF DownFits, InStep
<1> QED BY <1>1, <1>3, <1>4, <1>5, <1>8, <1>9, ServerGoesOn

LEMMA ProtocolSetFlag ==
  ASSUME ProtocolInv, NEW c \in Clients, c = client_socket, SetFlag
  PROVE  ProtocolInv'
<1>1. /\ server = "set flag" /\ fdb_is_initialized' = TRUE /\ server' = "announce"
      /\ UNCHANGED <<clientVars, streams, client_socket, backlog, uploaded, branch,
                     tree, history, counters>>
  BY DEF SetFlag
<1>2. /\ branch' = branch /\ uploaded' = uploaded /\ tree' = tree
      /\ fresh' = fresh /\ mishaps' = mishaps
  BY <1>1 DEF history
<1>3. /\ uploaded' \in 0 .. Buckets /\ branch' \in Versions /\ tree' \in Versions \cup {Unfinished}
      /\ fdb_is_initialized' \in BOOLEAN
  BY <1>1, <1>2 DEF ProtocolInv, TypeOK
<1>4. /\ "announce" \in Stages \ {"listen", "down"}
      /\ server \notin {"listen", "down", "closing again"}
  BY <1>1 DEF Stages
<1>5. /\ client' = client /\ expected' = expected /\ down' = down /\ up' = up
      /\ UpFits(c) /\ (client[c] \in Active => InStep(c) /\ DownFits(c))
  BY <1>1, <1>2, <1>3, <1>4, ServerGoesOn
<1>6. up[c] = <<>> /\ UpFits(c)'
  <2>1. up[c] = <<>>
    BY <1>1, <1>5 DEF UpFits
  <2> QED BY <1>1, <1>5, <2>1 DEF UpFits
<1>7. ASSUME client[c] \in Active PROVE DownFits(c)' /\ InStep(c)'
  <2>1. client[c] = "uploaded" /\ down[c] = <<>> /\ DownFits(c)
    BY <1>1, <1>5, <1>7 DEF InStep
  <2> QED BY <1>1, <1>2, <1>5, <1>6, <2>1 DEF DownFits, InStep
<1> QED BY <1>1, <1>2, <1>3, <1>4, <1>6, <1>7, ServerGoesOn

LEMMA ProtocolCommitBranch ==
  ASSUME ProtocolInv, NEW c \in Clients, c = client_socket, CommitBranch
  PROVE  ProtocolInv'
<1>1. /\ server = "commit" /\ tree' = branch /\ branch' = 0 /\ server' = "ack"
      /\ UNCHANGED <<clientVars, streams, client_socket, backlog, uploaded,
                     fdb_is_initialized, history, counters>>
  BY DEF CommitBranch
<1>2. /\ uploaded' = uploaded /\ fdb_is_initialized' = fdb_is_initialized
      /\ fresh' = fresh /\ mishaps' = mishaps
  BY <1>1 DEF history
<1>3. /\ uploaded' \in 0 .. Buckets /\ branch' \in Versions /\ tree' \in Versions \cup {Unfinished}
      /\ fdb_is_initialized' \in BOOLEAN
  <2>1. 0 \in Versions
    BY DEF Versions
  <2> QED BY <1>1, <1>2, <2>1 DEF ProtocolInv, TypeOK
<1>4. /\ "ack" \in Stages \ {"listen", "down"}
      /\ server \notin {"listen", "down", "closing again"}
  BY <1>1 DEF Stages
<1>5. /\ client' = client /\ maps' = maps /\ down' = down /\ up' = up
      /\ UpFits(c) /\ (client[c] \in Active => InStep(c) /\ DownFits(c))
  BY <1>1, <1>2, <1>3, <1>4, ServerGoesOn
<1>6. UpFits(c)'
  <2>1. up[c] = <<>>
    BY <1>1, <1>5 DEF UpFits
  <2> QED BY <1>1, <1>5, <2>1 DEF UpFits
<1>7. ASSUME client[c] \in Active PROVE DownFits(c)' /\ InStep(c)'
  <2>1. client[c] = "confirm" /\ down[c] = <<>> /\ branch = maps /\ DownFits(c)
    BY <1>1, <1>5, <1>7 DEF InStep
  <2>2. c \in fresh /\ maps \in Nat
    BY <2>1 DEF DownFits
  <2> QED BY <1>1, <1>2, <1>5, <2>1, <2>2 DEF DownFits, InStep
<1> QED BY <1>1, <1>2, <1>3, <1>4, <1>6, <1>7, ServerGoesOn

LEMMA ProtocolFdbFails ==
  ASSUME ProtocolInv, NEW c \in Clients, c = client_socket, FdbFails
  PROVE  ProtocolInv'
<1>1. /\ server \in {"branch", "commit"}
      /\ tree' \in {tree, branch}
      /\ server = "branch" => tree' = tree
      /\ branch' = 0 /\ server' = "closing"
      /\ UNCHANGED <<clientVars, streams, client_socket, backlog, uploaded,
                     fdb_is_initialized, fresh, mishaps, counters>>
  BY DEF FdbFails, history
<1>2. /\ uploaded' \in 0 .. Buckets /\ branch' \in Versions /\ tree' \in Versions \cup {Unfinished}
      /\ fdb_is_initialized' \in BOOLEAN
  <2>1. 0 \in Versions
    BY DEF Versions
  <2>2. branch \in Versions /\ tree \in Versions \cup {Unfinished} /\ uploaded \in 0 .. Buckets
        /\ fdb_is_initialized \in BOOLEAN
    BY DEF ProtocolInv, TypeOK
  <2>3. tree' \in Versions \cup {Unfinished}
    <3>1. tree' \in {tree, branch}
      BY <1>1
    <3> QED BY <2>2, <3>1
  <2>4. branch' \in Versions
    BY <1>1, <2>1
  <2>5. /\ uploaded' \in 0 .. Buckets /\ fdb_is_initialized' \in BOOLEAN
    BY <1>1, <2>2
  <2> QED BY <2>3, <2>4, <2>5
<1>3. /\ "closing" \in Stages \ {"listen", "down"}
      /\ server \notin {"listen", "down", "closing again"}
  BY <1>1 DEF Stages
<1>4. /\ client' = client /\ maps' = maps /\ down' = down /\ up' = up /\ fresh' = fresh
      /\ expected' = expected
      /\ client[c] \in Active => InStep(c) /\ DownFits(c)
  BY <1>1, <1>2, <1>3, ServerGoesOn
<1>5. UpFits(c)'
  BY <1>1 DEF UpFits
<1>6. ASSUME client[c] \in Active PROVE DownFits(c)' /\ InStep(c)'
  <2>1. InStep(c)'
    BY <1>1 DEF InStep
  <2>2. CASE server = "branch"
    <3>1. tree' = tree
      BY <1>1, <2>2
    <3>2. DownFits(c)
      BY <1>4, <1>6
    <3>3. DownFits(c)'
      BY <1>4, <3>1, <3>2 DEF DownFits
    <3> QED BY <2>1, <3>3
  <2>3. CASE server = "commit"
    <3>1. client[c] = "confirm" /\ down[c] = <<>> /\ DownFits(c)
      BY <1>4, <1>6, <2>3 DEF InStep
    <3>2. c \in fresh /\ maps \in Nat
      BY <3>1 DEF DownFits
    <3> QED BY <1>4, <2>1, <3>1, <3>2 DEF DownFits
  <2> QED BY <1>1, <2>2, <2>3
<1> QED BY <1>1, <1>2, <1>3, <1>5, <1>6, ServerGoesOn

LEMMA ProtocolClientGone ==
  ASSUME ProtocolInv, NEW c \in Clients, c = client_socket, ClientGone
  PROVE  ProtocolInv'
<1>1. /\ server \in {"request", "leaf", "num", "branch", "receive", "ack"}
      /\ "client" \notin ends[c] /\ server' \in {"closing", "closing again"}
      /\ UNCHANGED <<clientVars, streams, client_socket, backlog, uploaded, branch,
                     fdb, history, counters>>
  BY DEF ClientGone, Gone
<1>2. /\ uploaded' = uploaded /\ branch' = branch /\ tree' = tree
      /\ fdb_is_initialized' = fdb_is_initialized
      /\ fresh' = fresh /\ mishaps' = mishaps
  BY <1>1 DEF history, fdb
<1>3. /\ uploaded' \in 0 .. Buckets /\ branch' \in Versions /\ tree' \in Versions \cup {Unfinished}
      /\ fdb_is_initialized' \in BOOLEAN
  BY <1>2 DEF ProtocolInv, TypeOK
<1>4. /\ server' \in Stages \ {"listen", "down"}
      /\ server \notin {"listen", "down", "closing again"}
  BY <1>1 DEF Stages
<1>5. UpFits(c)'
  BY <1>1 DEF UpFits
<1>6. client[c] \notin Active
  BY <1>1, <1>4, Served
<1>7. PICK stage \in Stages \ {"listen", "down"} : server' = stage
  BY <1>4
<1> QED BY <1>1, <1>2, <1>3, <1>4, <1>5, <1>6, <1>7, ServerGoesOn

\* The streams of a request.
LEMMA RequestStreams ==
  /\ \A i \in Nat : /\ Head(<<Id(i)>>).value = i /\ Drop(<<Id(i)>>, 1) = <<>>
                    /\ <<Id(i)>> # <<>> /\ Head(<<Leaf(i)>>).value = i
                    /\ Drop(<<Leaf(i)>>, 1) = <<>> /\ <<Leaf(i)>> # <<>>
  /\ \A i, j \in Nat : /\ Head(<<Id(i), Leaf(j)>>).value = i
                       /\ Drop(<<Id(i), Leaf(j)>>, 1) = <<Leaf(j)>>
                       /\ <<Id(i), Leaf(j)>> # <<>> /\ <<Id(i), Leaf(j)>> # <<Id(i)>>
                       /\ <<Id(i), Leaf(j)>> # <<Id(0)>>
<1>1. ASSUME NEW i \in Nat
      PROVE  /\ Head(<<Id(i)>>).value = i /\ Drop(<<Id(i)>>, 1) = <<>>
             /\ <<Id(i)>> # <<>> /\ Head(<<Leaf(i)>>).value = i
             /\ Drop(<<Leaf(i)>>, 1) = <<>> /\ <<Leaf(i)>> # <<>>
  <2>1. /\ Head(<<Id(i)>>) = Id(i) /\ Head(<<Leaf(i)>>) = Leaf(i)
        /\ <<Id(i)>> # <<>> /\ <<Leaf(i)>> # <<>>
    BY Shapes
  <2>2. Drop(<<Id(i)>>, 1) = <<>> /\ Drop(<<Leaf(i)>>, 1) = <<>>
    BY DropFirst
  <2>3. Id(i).value = i /\ Leaf(i).value = i
    BY DEF Id, Leaf
  <2> QED BY <2>1, <2>2, <2>3
<1>2. ASSUME NEW i \in Nat, NEW j \in Nat
      PROVE  /\ Head(<<Id(i), Leaf(j)>>).value = i
             /\ Drop(<<Id(i), Leaf(j)>>, 1) = <<Leaf(j)>>
             /\ <<Id(i), Leaf(j)>> # <<>> /\ <<Id(i), Leaf(j)>> # <<Id(i)>>
             /\ <<Id(i), Leaf(j)>> # <<Id(0)>>
  <2>1. /\ Head(<<Id(i), Leaf(j)>>) = Id(i) /\ <<Id(i), Leaf(j)>> # <<>>
        /\ <<Id(i), Leaf(j)>> # <<Id(i)>> /\ <<Id(i), Leaf(j)>> # <<Id(0)>>
    BY Shapes
  <2>2. Drop(<<Id(i), Leaf(j)>>, 1) = <<Leaf(j)>>
    BY DropFirst
  <2>3. Id(i).value = i
    BY DEF Id
  <2> QED BY <2>1, <2>2, <2>3
<1> QED BY <1>1, <1>2

\* A request id other than 0.
LEMMA ProtocolReceiveRequest ==
  ASSUME ProtocolInv, NEW c \in Clients, c = client_socket, ReceiveRequest,
         Head(up[c]).value # 0
  PROVE  ProtocolInv'
<1>1. /\ server = "request" /\ Receive("server", c, 1) /\ server' = "leaf"
      /\ UNCHANGED <<client_socket, backlog, uploaded, branch, ends>>
      /\ UNCHANGED <<clientVars, fdb, history, counters>>
  BY DEF ReceiveRequest
<1>2. /\ uploaded' \in 0 .. Buckets /\ branch' \in Versions /\ tree' \in Versions \cup {Unfinished}
      /\ fdb_is_initialized' = fdb_is_initialized
  BY <1>1 DEF ProtocolInv, TypeOK, fdb
<1>3. /\ "leaf" \in Stages \ {"listen", "down", "closing again"}
      /\ server \notin {"listen", "down", "closing again"}
  BY <1>1 DEF Stages
<1>4. /\ client' = client /\ expected' = expected /\ down' = down /\ fresh' = fresh /\ maps' = maps
      /\ up'[c] = Drop(up[c], 1) /\ Len(up[c]) >= 1
      /\ UpFits(c) /\ (client[c] \in Active => InStep(c) /\ DownFits(c))
  BY <1>1, <1>2, <1>3, ServerTakesSome
<1>5. up[c] # <<>>
  BY <1>4, Shapes
<1>6. up[c] \in {<<Id(1)>>, <<Id(1), Leaf(0)>>, <<Id(1), Leaf(1)>>}
  <2>1. up[c] \in {<<>>, <<Id(0)>>, <<Id(1)>>, <<Id(1), Leaf(0)>>, <<Id(1), Leaf(1)>>}
    BY <1>1, <1>4 DEF UpFits
  <2>2. Head(<<Id(0)>>).value = 0
    BY RequestStreams
  <2> QED BY <1>5, <2>1, <2>2
<1>7. /\ up[c] = <<Id(1)>> => up'[c] = <<>>
      /\ up[c] = <<Id(1), Leaf(0)>> => up'[c] = <<Leaf(0)>>
      /\ up[c] = <<Id(1), Leaf(1)>> => up'[c] = <<Leaf(1)>>
  <2>1. Drop(<<Id(1)>>, 1) = <<>>
    BY RequestStreams
  <2>2. Drop(<<Id(1), Leaf(0)>>, 1) = <<Leaf(0)>> /\ Drop(<<Id(1), Leaf(1)>>, 1) = <<Leaf(1)>>
    BY RequestStreams
  <2> QED BY <1>4, <2>1, <2>2
<1>8. UpFits(c)'
  BY <1>1, <1>6, <1>7 DEF UpFits
<1>9. ASSUME client[c] \in Active PROVE DownFits(c)' /\ InStep(c)'
  <2>1. Ahead(c) /\ Len(down[c]) = Stray(c) /\ DownFits(c)
    BY <1>1, <1>4, <1>5, <1>9 DEF InStep
  <2>2. up[c] # <<Id(0)>>
    <3>1. Head(<<Id(0)>>).value = 0
      BY RequestStreams
    <3> QED BY <3>1
  <2>3. \/ client[c] = "leaf" /\ up[c] = <<Id(1)>>
        \/ client[c] = "num" /\ up[c] \in {<<Id(1), Leaf(0)>>, <<Id(1), Leaf(1)>>}
    BY <1>5, <2>1, <2>2 DEF Ahead
  <2>4. Stray(c)' = Stray(c)
    BY <1>4 DEF Stray
  <2>5. InStep(c)'
    BY <1>1, <1>4, <1>7, <2>1, <2>3, <2>4 DEF InStep
  <2>6. DownFits(c)'
    BY <1>4, <2>1, <2>3 DEF DownFits
  <2> QED BY <2>5, <2>6
<1> QED BY <1>1, <1>2, <1>3, <1>8, <1>9, ServerTakesSome DEF fdb

LEMMA ProtocolReceiveLeaf ==
  ASSUME ProtocolInv, NEW c \in Clients, c = client_socket, ReceiveLeaf
  PROVE  ProtocolInv'
<1>1. /\ server = "leaf" /\ Receive("server", c, 1) /\ server' \in {"closing", "num"}
      /\ UNCHANGED <<clientVars, ends, client_socket, backlog, uploaded, branch,
                     fdb, history, counters>>
  BY DEF ReceiveLeaf
<1>2. /\ uploaded' \in 0 .. Buckets /\ branch' \in Versions /\ tree' \in Versions \cup {Unfinished}
      /\ fdb_is_initialized' = fdb_is_initialized /\ tree' = tree
  BY <1>1 DEF ProtocolInv, TypeOK, fdb
<1>3. /\ server' \in Stages \ {"listen", "down", "closing again"}
      /\ server \notin {"listen", "down", "closing again"}
  BY <1>1 DEF Stages
<1>4. PICK s \in Stages \ {"listen", "down", "closing again"} : server' = s
  BY <1>3
<1>5. /\ client' = client /\ expected' = expected /\ down' = down /\ fresh' = fresh /\ maps' = maps
      /\ up'[c] = Drop(up[c], 1) /\ Len(up[c]) >= 1
      /\ UpFits(c) /\ (client[c] \in Active => InStep(c) /\ DownFits(c))
  BY <1>1, <1>2, <1>3, <1>4, ServerTakesSome
<1>6. up[c] # <<>>
  <2>1. Len(up[c]) >= 1
    BY <1>5
  <2> QED BY <2>1, Streams DEF ProtocolInv
<1>7. up'[c] = <<>>
  <2>1. up[c] \in {<<Leaf(0)>>, <<Leaf(1)>>}
    BY <1>1, <1>5, <1>6 DEF UpFits
  <2>2. Drop(<<Leaf(0)>>, 1) = <<>> /\ Drop(<<Leaf(1)>>, 1) = <<>>
    BY RequestStreams
  <2> QED BY <1>5, <2>1, <2>2
<1>8. UpFits(c)'
  BY <1>1, <1>7 DEF UpFits
<1>9. ASSUME client[c] \in Active PROVE DownFits(c)' /\ InStep(c)'
  <2>1. client[c] = "num" /\ Len(down[c]) = Stray(c) /\ DownFits(c)
    BY <1>1, <1>5, <1>6, <1>9 DEF InStep
  <2>2. Stray(c)' = Stray(c)
    BY <1>5 DEF Stray
  <2>3. InStep(c)'
    BY <1>1, <1>5, <2>1, <2>2 DEF InStep
  <2>4. DownFits(c)'
    BY <1>2, <1>5, <2>1 DEF DownFits
  <2> QED BY <2>3, <2>4
<1> QED BY <1>1, <1>2, <1>3, <1>4, <1>8, <1>9, ServerTakesSome

LEMMA ProtocolReceiveUpdatedBlocks ==
  ASSUME ProtocolInv, NEW c \in Clients, c = client_socket, ReceiveUpdatedBlocks
  PROVE  ProtocolInv'
<1>1. /\ server = "receive" /\ Receive("server", c, BranchBlocks) /\ server' = "commit"
      /\ branch' = Head(up[c]).value
      /\ UNCHANGED <<clientVars, ends, client_socket, backlog, uploaded,
                     fdb, history, counters>>
  BY DEF ReceiveUpdatedBlocks
<1>2. BranchBlocks \in Nat /\ BranchBlocks >= 1
  BY WireAssumption
<1>3. TypeOK /\ UpFits(c)
  BY <1>1, Served DEF ProtocolInv
<1>4. Len(up[c]) >= BranchBlocks /\ up[c] \in Seq(Token) /\ Len(up[c]) \in Nat
  BY <1>1, <1>2, <1>3, ServerDrops, Streams
<1>5. up[c] # <<>>
  <2>1. Len(up[c]) # 0
    BY <1>2, <1>4
  <2> QED BY <2>1, Shapes
<1>6. IsBranch(up[c]) /\ up[c][1].value \in Nat
  BY <1>1, <1>3, <1>5 DEF UpFits
<1>7. Len(up[c]) = BranchBlocks
  <2>1. up[c] = Blocks(up[c][1].value)
    BY <1>6 DEF IsBranch
  <2> QED BY <1>6, <2>1, Tokens
<1>8. branch' = up[c][1].value /\ branch' \in Nat
  <2>1. Head(up[c]) = up[c][1]
    BY <1>4, <1>5, HeadTailProperties
  <2> QED BY <1>1, <1>6, <2>1
<1>9. /\ uploaded' \in 0 .. Buckets /\ branch' \in Versions /\ tree' \in Versions \cup {Unfinished}
      /\ fdb_is_initialized' = fdb_is_initialized /\ tree' = tree
  BY <1>1, <1>3, <1>8 DEF TypeOK, fdb, Versions
<1>10. /\ "commit" \in Stages \ {"listen", "down", "closing again"}
       /\ server \notin {"listen", "down", "closing again"}
  BY <1>1 DEF Stages
<1>11. /\ client' = client /\ expected' = expected /\ down' = down /\ fresh' = fresh /\ maps' = maps
       /\ up'[c] = Drop(up[c], BranchBlocks)
       /\ client[c] \in Active => InStep(c) /\ DownFits(c)
  BY <1>1, <1>2, <1>9, <1>10, ServerTakesSome
<1>12. up'[c] = <<>>
  BY <1>4, <1>7, <1>11, DropAll
<1>13. UpFits(c)'
  BY <1>1, <1>12 DEF UpFits
<1>14. ASSUME client[c] \in Active PROVE DownFits(c)' /\ InStep(c)'
  <2>1. client[c] = "confirm" /\ down[c] = <<>> /\ up[c] = Blocks(maps) /\ DownFits(c)
    BY <1>1, <1>5, <1>11, <1>14 DEF InStep
  <2>2. c \in fresh /\ maps \in Nat
    BY <2>1 DEF DownFits
  <2>3. branch' = maps
    <3>1. Blocks(maps)[1].value = maps
      BY <2>2, Tokens
    <3> QED BY <1>8, <2>1, <3>1
  <2> QED BY <1>1, <1>11, <2>1, <2>2, <2>3 DEF DownFits, InStep
<1> QED BY <1>1, <1>2, <1>9, <1>10, <1>13, <1>14, ServerTakesSome

\* The server gives up a client.
LEMMA ProtocolServerLeaves ==
  ASSUME ProtocolInv, NEW c \in Clients, c = client_socket, TypeOK',
         UNCHANGED <<clientVars, down, backlog, uploaded, branch, tree, fresh, traversals>>,
         server' = "listen", client_socket' = NoClient,
         up'[c] \in {<<>>, up[c]}, ends'[c] \in {ends[c], ends[c] \ {"server"}},
         \A d \in Clients \ {c} : up'[d] = up[d] /\ ends'[d] = ends[d]
  PROVE  ProtocolInv'
<1>1. /\ client' = client /\ expected' = expected /\ maps' = maps /\ down' = down
      /\ backlog' = backlog /\ InLine' = InLine /\ tree' = tree /\ fresh' = fresh
      /\ traversals' = traversals
  BY InLineUnchanged DEF clientVars
<1>2. c \notin InLine /\ \A d \in InLine : d \in Clients
  BY Queued DEF ProtocolInv, LineInv
<1>3. NoClient \notin Clients
  BY WireAssumption
<1>4. LineInv'
  <2>1. /\ \A d, e \in Clients : Running(d)' /\ Running(e)' => d = e
        /\ NoRepeats(backlog')
        /\ \A i \in 1 .. Len(backlog') : i < Len(backlog') => client'[backlog'[i]] = "gone"
    BY <1>1 DEF ProtocolInv, LineInv, Running
  <2>2. ASSUME NEW d \in InLine'
        PROVE  /\ d # client_socket' /\ Untouched(d)'
               /\ client'[d] \in {"flag", "gone"} /\ "server" \in ends'[d]
    <3>1. d \in InLine /\ d \in Clients /\ d # c
      BY <1>1, <1>2
    <3>2. Untouched(d) /\ client[d] \in {"flag", "gone"} /\ "server" \in ends[d]
      BY <3>1 DEF ProtocolInv, LineInv
    <3> QED BY <1>1, <1>3, <3>1, <3>2 DEF Untouched
  <2>3. ASSUME NEW d \in Clients, client'[d] = "out" PROVE d # client_socket' /\ Untouched(d)'
    <3>1. d # c /\ Untouched(d)
      BY <1>1, <2>3 DEF ProtocolInv, LineInv
    <3> QED BY <1>1, <1>3, <3>1 DEF Untouched
  <2>4. ASSUME NEW d \in Clients, client'[d] \in Active PROVE "client" \in ends'[d]
    <3>1. "client" \in ends[d]
      BY <1>1, <2>4 DEF ProtocolInv, LineInv
    <3> QED BY <3>1
  <2>5. \A d \in Clients : client'[d] \in Active /\ d \notin InLine' =>
                             backlog' = <<>> /\ client_socket' \in {d, NoClient}
    BY <1>1 DEF ProtocolInv, LineInv
  <2> QED BY <2>1, <2>2, <2>3, <2>4, <2>5 DEF LineInv
<1>5. ASSUME NEW d \in Clients PROVE DownFits(d)'
  <2>1. DownFits(d)
    BY DEF ProtocolInv, StreamInv
  <2> QED BY <1>1, <2>1 DEF DownFits
<1>6. \A d \in Clients : client'[d] \in {"leaf", "num", "blocks"} => traversals' < MaxCalls
  BY <1>1 DEF ProtocolInv, StreamInv
<1> QED BY <1>3, <1>4, <1>5, <1>6 DEF ProtocolInv, StreamInv

LEMMA ProtocolClientDisconnected == ProtocolInv /\ ClientDisconnected => ProtocolInv'
<1> SUFFICES ASSUME ProtocolInv, ClientDisconnected PROVE ProtocolInv'
  OBVIOUS
<1>1. /\ server = "request" /\ server' = "listen" /\ client_socket' = NoClient
      /\ UNCHANGED <<clientVars, streams, backlog, uploaded, branch, fdb,
                     history, counters>>
  BY DEF ClientDisconnected
<1>2. TypeOK /\ client_socket \in Clients
  BY <1>1, Served DEF ProtocolInv
<1>3. /\ client' = client /\ expected' = expected /\ maps' = maps /\ oram_state' = oram_state
      /\ up' = up /\ down' = down /\ ends' = ends /\ fresh' = fresh /\ mishaps' = mishaps
      /\ traversals' = traversals /\ restarts' = restarts /\ clears' = clears
      /\ backlog' = backlog /\ tree' = tree /\ uploaded' = uploaded /\ branch' = branch
      /\ fdb_is_initialized' = fdb_is_initialized
  BY <1>1 DEF clientVars, streams, fdb, history, counters
<1>4. TypeOK'
  BY <1>1, <1>2, <1>3 DEF TypeOK
<1>5. PICK c \in Clients : c = client_socket
  BY <1>2
<1> QED BY <1>1, <1>3, <1>4, <1>5, ProtocolServerLeaves

LEMMA ProtocolCloseConnection == ProtocolInv /\ CloseConnection => ProtocolInv'
<1> SUFFICES ASSUME ProtocolInv, CloseConnection PROVE ProtocolInv'
  OBVIOUS
<1>1. /\ server \in {"closing", "closing again"} /\ Close("server", client_socket)
      /\ \/ server = "closing" /\ server' = "closing again" /\ client_socket' = client_socket
         \/ server = "closing again" /\ server' = "listen" /\ client_socket' = NoClient
      /\ UNCHANGED <<clientVars, backlog, uploaded, branch, fdb, history, counters>>
  BY DEF CloseConnection
<1>2. TypeOK /\ client_socket \in Clients
  BY <1>1, Served DEF ProtocolInv
<1>3. PICK c \in Clients : c = client_socket
  BY <1>2
<1>4. /\ up' \in [Clients -> Seq(Token)] /\ down' \in [Clients -> Seq(Token)]
      /\ ends' \in [Clients -> SUBSET {"client", "server"}]
      /\ ends'[c] = ends[c] \ {"server"} /\ down' = down /\ up'[c] = <<>>
      /\ \A d \in Clients \ {c} : up'[d] = up[d] /\ down'[d] = down[d] /\ ends'[d] = ends[d]
  BY <1>1, <1>2, <1>3, EndCloses
<1>5. /\ client' = client /\ expected' = expected /\ maps' = maps /\ oram_state' = oram_state
      /\ fresh' = fresh /\ mishaps' = mishaps
      /\ traversals' = traversals /\ restarts' = restarts /\ clears' = clears
      /\ backlog' = backlog /\ tree' = tree /\ uploaded' = uploaded /\ branch' = branch
      /\ fdb_is_initialized' = fdb_is_initialized
  BY <1>1 DEF clientVars, fdb, history, counters
<1>7. CASE server = "closing" /\ server' = "closing again" /\ client_socket' = client_socket
  <2>1. "closing again" \in Stages \ {"listen", "down"} /\ server \notin {"listen", "down", "closing again"}
    BY <1>7 DEF Stages
  <2>2. TypeOK'
    <3>1. /\ uploaded' \in 0 .. Buckets /\ branch' \in Versions
          /\ tree' \in Versions \cup {Unfinished} /\ fdb_is_initialized' \in BOOLEAN
      BY <1>2, <1>5 DEF TypeOK
    <3>2. UNCHANGED <<clientVars, client_socket, backlog, fresh, mishaps, counters>>
      BY <1>5, <1>7 DEF clientVars, counters
    <3> QED BY <1>2, <1>4, <1>7, <2>1, <3>1, <3>2, ServerTypes
  <2>3. UpFits(c)' /\ InStep(c)'
    BY <1>7 DEF UpFits, InStep
  <2>4. client[c] \in Active => DownFits(c)'
    <3>1. DownFits(c)
      BY DEF ProtocolInv, StreamInv
    <3> QED BY <1>4, <1>5, <3>1 DEF DownFits
  <2>5. UNCHANGED <<clientVars, client_socket, backlog, fresh, traversals>>
    BY <1>5, <1>7 DEF clientVars
  <2> QED BY <1>3, <1>4, <1>7, <2>1, <2>2, <2>3, <2>4, <2>5, ServerMoves
<1>8. CASE server = "closing again" /\ server' = "listen" /\ client_socket' = NoClient
  <2>1. TypeOK'
    BY <1>2, <1>4, <1>5, <1>8 DEF TypeOK
  <2>2. UNCHANGED <<clientVars, down, backlog, uploaded, branch, tree, fresh, traversals>>
    BY <1>4, <1>5 DEF clientVars
  <2> QED BY <1>3, <1>4, <1>8, <2>1, <2>2, ProtocolServerLeaves
<1> QED BY <1>1, <1>7, <1>8

\* The server ends.
LEMMA ProtocolExit ==
  ASSUME ProtocolInv, Exit, UNCHANGED <<clientVars, down, history, counters>>,
         fdb_is_initialized' \in BOOLEAN, tree' \in Versions \cup {Unfinished},
         tree' = tree \/ \A c \in Clients : client[c] \notin {"confirm", "save", "write"}
  PROVE  ProtocolInv'
<1>1. /\ client' = client /\ expected' = expected /\ maps' = maps /\ oram_state' = oram_state
      /\ down' = down /\ fresh' = fresh /\ mishaps' = mishaps
      /\ traversals' = traversals /\ restarts' = restarts /\ clears' = clears
  BY DEF clientVars, history, counters
<1>2. /\ server' = "down" /\ client_socket' = NoClient /\ backlog' = <<>>
      /\ uploaded' = 0 /\ branch' = 0
      /\ ends' = [c \in Clients |-> ends[c] \ {"server"}]
      /\ up' = [c \in Clients |-> <<>>]
  BY DEF Exit
<1>3. TypeOK /\ NoClient \notin Clients
  BY WireAssumption DEF ProtocolInv
<1>4. Len(backlog') = 0 /\ InLine' = {}
  <2>1. Len(<<>>) = 0 /\ 1 .. 0 = {}
    OBVIOUS
  <2> QED BY <1>2, <2>1 DEF InLine
<1>5. TypeOK'
  <2>1. backlog' \in Seq(Clients) /\ up' \in [Clients -> Seq(Token)]
    <3>1. <<>> \in Seq(Clients) /\ <<>> \in Seq(Token)
      BY EmptySeq
    <3> QED BY <1>2, <3>1
  <2>2. ends' \in [Clients -> SUBSET {"client", "server"}]
    BY <1>2, <1>3 DEF TypeOK
  <2>3. uploaded' \in 0 .. Buckets /\ branch' \in Versions
    <3>1. 0 \in 0 .. Buckets /\ 0 \in Versions
      BY WireAssumption DEF Versions
    <3> QED BY <1>2, <3>1
  <2> QED BY <1>1, <1>2, <1>3, <2>1, <2>2, <2>3 DEF TypeOK
<1>6. LineInv'
  <2>1. /\ \A d, e \in Clients : Running(d)' /\ Running(e)' => d = e
    BY <1>1 DEF ProtocolInv, LineInv, Running
  <2>2. NoRepeats(backlog')
        /\ \A i \in 1 .. Len(backlog') : i < Len(backlog') => client'[backlog'[i]] = "gone"
    <3>1. \A i \in 1 .. 0 : FALSE
      OBVIOUS
    <3> QED BY <1>4, <3>1 DEF NoRepeats
  <2>3. ASSUME NEW d \in Clients, client'[d] = "out" PROVE d # client_socket' /\ Untouched(d)'
    <3>1. Untouched(d)
      BY <1>1, <2>3 DEF ProtocolInv, LineInv
    <3> QED BY <1>1, <1>2, <1>3, <3>1 DEF Untouched
  <2>4. ASSUME NEW d \in Clients, client'[d] \in Active PROVE "client" \in ends'[d]
    <3>1. "client" \in ends[d]
      BY <1>1, <2>4 DEF ProtocolInv, LineInv
    <3> QED BY <1>2, <3>1
  <2> QED BY <1>2, <1>4, <2>1, <2>2, <2>3, <2>4 DEF LineInv
<1>7. ASSUME NEW d \in Clients PROVE DownFits(d)'
  <2>1. DownFits(d)
    BY DEF ProtocolInv, StreamInv
  <2> QED BY <1>1, <2>1 DEF DownFits
<1>8. \A d \in Clients : client'[d] \in {"leaf", "num", "blocks"} => traversals' < MaxCalls
  BY <1>1 DEF ProtocolInv, StreamInv
<1> QED BY <1>2, <1>3, <1>5, <1>6, <1>7, <1>8 DEF ProtocolInv, StreamInv

LEMMA ProtocolSetupFails == ProtocolInv /\ (SetupFails \/ SetupFdbFails) => ProtocolInv'
<1> SUFFICES ASSUME ProtocolInv, SetupFails \/ SetupFdbFails PROVE ProtocolInv'
  OBVIOUS
<1>1. /\ server \in {"setup", "receive tree", "set flag", "announce"}
      /\ \/ tree' = tree /\ fdb_is_initialized' \in {fdb_is_initialized, TRUE}
         \/ /\ server = "receive tree" /\ tree' \in {tree, 0, Unfinished}
            /\ fdb_is_initialized' = fdb_is_initialized
      /\ Exit /\ UNCHANGED <<clientVars, down, history, counters>>
  BY DEF SetupFails, SetupFdbFails, fdb
<1>2. fdb_is_initialized' \in BOOLEAN /\ tree' \in Versions \cup {Unfinished}
  <2>1. /\ fdb_is_initialized \in BOOLEAN /\ tree \in Versions \cup {Unfinished}
        /\ 0 \in Versions
    BY DEF ProtocolInv, TypeOK, Versions
  <2> QED BY <1>1, <2>1
<1>3. ASSUME server = "receive tree", NEW c \in Clients
      PROVE  client[c] \notin {"confirm", "save", "write"}
  <2>1. CASE c \in InLine
    BY <2>1 DEF ProtocolInv, LineInv
  <2>2. CASE c \notin InLine /\ client[c] \in Active
    <3>1. client_socket \in Clients /\ NoClient \notin Clients
      BY <1>3, Served, WireAssumption
    <3>2. c = client_socket
      BY <2>2, <3>1 DEF ProtocolInv, LineInv
    <3>3. InStep(c)
      BY <2>2, <3>2 DEF ProtocolInv, StreamInv
    <3> QED BY <1>3, <3>3 DEF InStep
  <2>3. CASE client[c] \notin Active
    BY <2>3 DEF Active
  <2> QED BY <2>1, <2>2, <2>3
<1> QED BY <1>1, <1>2, <1>3, ProtocolExit

LEMMA ProtocolServerKilled == ProtocolInv /\ ServerKilled => ProtocolInv'
<1> SUFFICES ASSUME ProtocolInv, ServerKilled PROVE ProtocolInv'
  OBVIOUS
<1>1. Exit /\ UNCHANGED <<clientVars, down, history, counters>>
      /\ tree' = tree /\ fdb_is_initialized' = fdb_is_initialized
  BY DEF ServerKilled, fdb
<1>2. fdb_is_initialized' \in BOOLEAN /\ tree' \in Versions \cup {Unfinished}
  BY <1>1 DEF ProtocolInv, TypeOK
<1> QED BY <1>1, <1>2, ProtocolExit

LEMMA ProtocolRequest == ProtocolInv /\ ReceiveRequest => ProtocolInv'
<1> SUFFICES ASSUME ProtocolInv, ReceiveRequest PROVE ProtocolInv'
  OBVIOUS
<1>1. server = "request" /\ client_socket \in Clients
  BY Served DEF ReceiveRequest
<1>2. CASE Head(up[client_socket]).value # 0
  <2>1. PICK c \in Clients : c = client_socket
    BY <1>1
  <2> QED BY <1>2, <2>1, ProtocolReceiveRequest
<1>3. CASE Head(up[client_socket]).value = 0
  <2>1. Exit /\ UNCHANGED <<clientVars, down, history, counters>>
        /\ tree' = tree /\ fdb_is_initialized' = fdb_is_initialized
    BY <1>3 DEF ReceiveRequest, fdb
  <2>2. fdb_is_initialized' \in BOOLEAN /\ tree' \in Versions \cup {Unfinished}
    BY <2>1 DEF ProtocolInv, TypeOK
  <2> QED BY <2>1, <2>2, ProtocolExit
<1> QED BY <1>2, <1>3

LEMMA ProtocolAccept == ProtocolInv /\ Accept => ProtocolInv'
<1> SUFFICES ASSUME ProtocolInv, Accept PROVE ProtocolInv'
  OBVIOUS
<1>1. /\ server = "listen" /\ backlog # <<>> /\ client_socket' = Head(backlog)
      /\ backlog' = Tail(backlog) /\ server' = "setup"
      /\ UNCHANGED <<clientVars, streams, uploaded, branch, fdb, history, counters>>
  BY DEF Accept
<1>2. TypeOK
  BY DEF ProtocolInv
<1>3. /\ client' = client /\ expected' = expected /\ maps' = maps /\ oram_state' = oram_state
      /\ up' = up /\ down' = down /\ ends' = ends /\ fresh' = fresh /\ mishaps' = mishaps
      /\ traversals' = traversals /\ restarts' = restarts /\ clears' = clears
      /\ tree' = tree /\ uploaded' = uploaded /\ branch' = branch
      /\ fdb_is_initialized' = fdb_is_initialized
  BY <1>1 DEF clientVars, streams, fdb, history, counters
<1>4. /\ backlog \in Seq(Clients) /\ Len(backlog) \in Nat /\ Len(backlog) >= 1
      /\ Head(backlog) = backlog[1]
      /\ Tail(backlog) \in Seq(Clients) /\ Len(Tail(backlog)) = Len(backlog) - 1
      /\ \A i \in 1 .. Len(Tail(backlog)) : Tail(backlog)[i] = backlog[i + 1]
  <2>1. backlog \in Seq(Clients)
    BY <1>2 DEF TypeOK
  <2>2. Len(backlog) \in Nat /\ Len(backlog) # 0
    BY <1>1, <2>1, LenProperties, EmptySeq
  <2>3. Len(backlog) >= 1
    BY <2>2
  <2> QED BY <1>1, <2>1, <2>2, <2>3, HeadTailProperties
<1>5. PICK c \in Clients : c = backlog[1] /\ c = client_socket'
  <2>1. 1 \in 1 .. Len(backlog)
    BY <1>4
  <2> QED BY <1>1, <1>2, <1>4, <2>1, Queued
<1>6. /\ 1 \in 1 .. Len(backlog) /\ c \in InLine /\ Untouched(c)
      /\ client[c] \in {"flag", "gone"} /\ "server" \in ends[c]
  <2>1. 1 \in 1 .. Len(backlog)
    BY <1>4
  <2>2. c \in InLine
    BY <1>5, <2>1 DEF InLine
  <2> QED BY <2>1, <2>2 DEF ProtocolInv, LineInv
<1>7. \A i \in 1 .. Len(backlog') : /\ i + 1 \in 1 .. Len(backlog) /\ i + 1 # 1
                                    /\ backlog'[i] = backlog[i + 1]
                                    /\ i < Len(backlog') => i + 1 < Len(backlog)
  <2>1. /\ Len(backlog') = Len(backlog) - 1 /\ Len(backlog) \in Nat
        /\ \A i \in 1 .. Len(backlog') : backlog'[i] = backlog[i + 1]
    BY <1>1, <1>4
  <2> QED BY <2>1
<1>8. NoRepeats(backlog)
  BY DEF ProtocolInv, LineInv
<1>9. ASSUME NEW d \in InLine' PROVE d \in InLine /\ d # c /\ d \in Clients
  <2>1. PICK i \in 1 .. Len(backlog') : d = backlog'[i]
    BY DEF InLine
  <2>2. d = backlog[i + 1] /\ i + 1 \in 1 .. Len(backlog) /\ i + 1 # 1
    BY <1>7, <2>1
  <2>3. d \in InLine
    BY <2>2 DEF InLine
  <2>4. d # c
    BY <1>5, <1>6, <1>8, <2>2 DEF NoRepeats
  <2> QED BY <1>2, <2>3, <2>4, Queued
<1>10. LineInv'
  <2>1. \A d, e \in Clients : Running(d)' /\ Running(e)' => d = e
    BY <1>3 DEF ProtocolInv, LineInv, Running
  <2>2. NoRepeats(backlog')
    <3>1. ASSUME NEW i \in 1 .. Len(backlog'), NEW j \in 1 .. Len(backlog'), backlog'[i] = backlog'[j]
          PROVE  i = j
      <4>1. i + 1 = j + 1
        BY <1>7, <1>8, <3>1 DEF NoRepeats
      <4> QED BY <4>1
    <3> QED BY <3>1 DEF NoRepeats
  <2>3. ASSUME NEW i \in 1 .. Len(backlog'), i < Len(backlog') PROVE client'[backlog'[i]] = "gone"
    <3>1. i + 1 \in 1 .. Len(backlog) /\ backlog'[i] = backlog[i + 1] /\ i + 1 < Len(backlog)
      BY <1>7, <2>3
    <3>2. \A j \in 1 .. Len(backlog) : j < Len(backlog) => client[backlog[j]] = "gone"
      BY DEF ProtocolInv, LineInv
    <3> QED BY <1>3, <3>1, <3>2
  <2>4. ASSUME NEW d \in InLine'
        PROVE  /\ d # client_socket' /\ Untouched(d)'
               /\ client'[d] \in {"flag", "gone"} /\ "server" \in ends'[d]
    <3>1. Untouched(d) /\ client[d] \in {"flag", "gone"} /\ "server" \in ends[d] /\ d # c
      BY <1>9 DEF ProtocolInv, LineInv
    <3> QED BY <1>3, <1>5, <3>1 DEF Untouched
  <2>5. ASSUME NEW d \in Clients, client'[d] = "out" PROVE d # client_socket' /\ Untouched(d)'
    <3>1. Untouched(d) /\ d # c
      BY <1>3, <1>6, <2>5 DEF ProtocolInv, LineInv
    <3> QED BY <1>3, <1>5, <3>1 DEF Untouched
  <2>6. \A d \in Clients : client'[d] \in Active => "client" \in ends'[d]
    BY <1>3 DEF ProtocolInv, LineInv
  <2>7. ASSUME NEW d \in Clients, client'[d] \in Active, d \notin InLine'
        PROVE  backlog' = <<>> /\ client_socket' \in {d, NoClient}
    <3>1. d \in InLine
      BY <1>1, <1>3, <2>7 DEF ProtocolInv, LineInv
    <3>2. PICK i \in 1 .. Len(backlog) : d = backlog[i]
      BY <3>1 DEF InLine
    <3>3. i = 1
      <4>1. SUFFICES ASSUME i # 1 PROVE FALSE
        OBVIOUS
      <4>2. i - 1 \in 1 .. Len(backlog) - 1 /\ (i - 1) + 1 = i
        BY <1>4, <4>1
      <4>3. i - 1 \in 1 .. Len(backlog') /\ backlog'[i - 1] = backlog[i]
        BY <1>1, <1>4, <4>2
      <4> QED BY <2>7, <3>2, <4>3 DEF InLine
    <3>4. client[backlog[1]] # "gone"
      BY <1>3, <2>7, <3>2, <3>3 DEF Active
    <3>5. ~(1 < Len(backlog))
      BY <1>6, <3>4 DEF ProtocolInv, LineInv
    <3>6. Len(backlog') = 0
      BY <1>1, <1>4, <3>5
    <3> QED BY <1>1, <1>4, <1>5, <3>2, <3>3, <3>6, EmptySeq
  <2>8. "server" \in ends'[client_socket']
    BY <1>3, <1>5, <1>6
  <2> QED BY <2>1, <2>2, <2>3, <2>4, <2>5, <2>6, <2>7, <2>8 DEF LineInv
<1>11. StreamInv'
  <2>1. ASSUME NEW d \in Clients PROVE DownFits(d)'
    <3>1. DownFits(d)
      BY DEF ProtocolInv, StreamInv
    <3> QED BY <1>3, <3>1 DEF DownFits
  <2>2. UpFits(c)'
    BY <1>1, <1>3, <1>6 DEF UpFits, Untouched
  <2>3. client[c] \in Active => InStep(c)'
    BY <1>1, <1>3, <1>6 DEF InStep, Untouched, Active
  <2>4. UpFits(client_socket)' /\ (client'[client_socket'] \in Active => InStep(client_socket)')
    BY <1>3, <1>5, <2>2, <2>3 DEF UpFits, InStep, Ahead, Stray
  <2>5. \A d \in Clients : client'[d] \in {"leaf", "num", "blocks"} => traversals' < MaxCalls
    BY <1>3 DEF ProtocolInv, StreamInv
  <2> QED BY <2>1, <2>4, <2>5 DEF StreamInv
<1>12. TypeOK'
  <2>1. NoClient \notin Clients
    BY WireAssumption
  <2>2. (client_socket' = NoClient) = (server' \in {"listen", "down"})
    BY <1>1, <1>5, <2>1
  <2> QED BY <1>1, <1>2, <1>3, <1>4, <1>5, <2>2 DEF TypeOK
<1> QED BY <1>10, <1>11, <1>12 DEF ProtocolInv

\* Steps that concern neither a client nor a stream.
LEMMA ProtocolElsewhere ==
  ASSUME ProtocolInv, TypeOK', UNCHANGED <<clientVars, streams, client_socket, backlog, uploaded,
                                            branch, tree, fresh, traversals>>,
         server' = server \/ (server = "down" /\ server' = "listen")
  PROVE  ProtocolInv'
<1>1. /\ client' = client /\ expected' = expected /\ maps' = maps
      /\ up' = up /\ down' = down /\ ends' = ends /\ fresh' = fresh
      /\ client_socket' = client_socket /\ backlog' = backlog /\ uploaded' = uploaded
      /\ branch' = branch /\ tree' = tree /\ traversals' = traversals /\ InLine' = InLine
  BY InLineUnchanged DEF clientVars, streams
<1>2. LineInv'
  <2>1. /\ \A d, e \in Clients : Running(d)' /\ Running(e)' => d = e
        /\ NoRepeats(backlog')
        /\ \A i \in 1 .. Len(backlog') : i < Len(backlog') => client'[backlog'[i]] = "gone"
    BY <1>1 DEF ProtocolInv, LineInv, Running
  <2>2. /\ \A d \in InLine' : /\ d # client_socket' /\ Untouched(d)'
                               /\ client'[d] \in {"flag", "gone"} /\ "server" \in ends'[d]
        /\ \A d \in Clients : client'[d] = "out" => d # client_socket' /\ Untouched(d)'
    BY <1>1 DEF ProtocolInv, LineInv, Untouched
  <2>3. /\ \A d \in Clients : client'[d] \in Active => "client" \in ends'[d]
        /\ \A d \in Clients : client'[d] \in Active /\ d \notin InLine' =>
                                backlog' = <<>> /\ client_socket' \in {d, NoClient}
    BY <1>1 DEF ProtocolInv, LineInv
  <2>4. server' \notin {"listen", "down", "closing again"} => "server" \in ends'[client_socket']
    BY <1>1 DEF ProtocolInv, LineInv
  <2> QED BY <2>1, <2>2, <2>3, <2>4 DEF LineInv
<1>3. ASSUME NEW d \in Clients PROVE DownFits(d)'
  <2>1. DownFits(d)
    BY DEF ProtocolInv, StreamInv
  <2> QED BY <1>1, <2>1 DEF DownFits
<1>4. ASSUME client_socket \in Clients
      PROVE  UpFits(client_socket)' /\ (client[client_socket] \in Active => InStep(client_socket)')
  <2>1. server' = server
    <3>1. server # "down"
      BY <1>4, WireAssumption DEF ProtocolInv, TypeOK
    <3> QED BY <3>1
  <2>2. UpFits(client_socket) /\ (client[client_socket] \in Active => InStep(client_socket))
    BY <1>4 DEF ProtocolInv, StreamInv
  <2>3. UpFits(client_socket)'
    BY <1>1, <2>1, <2>2 DEF UpFits
  <2>4. ASSUME client[client_socket] \in Active PROVE InStep(client_socket)'
    BY <1>1, <2>1, <2>2, <2>4 DEF InStep, Ahead, Stray
  <2> QED BY <2>3, <2>4
<1>5. \A d \in Clients : client'[d] \in {"leaf", "num", "blocks"} => traversals' < MaxCalls
  BY <1>1 DEF ProtocolInv, StreamInv
<1> QED BY <1>1, <1>2, <1>3, <1>4, <1>5 DEF ProtocolInv, StreamInv

LEMMA ProtocolInit == Init => ProtocolInv
<1> SUFFICES ASSUME Init PROVE ProtocolInv
  OBVIOUS
<1>1. /\ client = [c \in Clients |-> "out"] /\ expected = [c \in Clients |-> 0]
      /\ up = [c \in Clients |-> <<>>] /\ down = [c \in Clients |-> <<>>]
      /\ ends = [c \in Clients |-> {}] /\ server = "listen" /\ client_socket = NoClient
      /\ backlog = <<>> /\ fresh = {}
  BY DEF Init
<1>2. NoClient \notin Clients /\ Len(backlog) = 0 /\ InLine = {}
  <2>1. Len(<<>>) = 0 /\ 1 .. 0 = {}
    OBVIOUS
  <2> QED BY <1>1, <2>1, WireAssumption DEF InLine
<1>3. TypeOK
  <2>1. /\ up \in [Clients -> Seq(Token)] /\ down \in [Clients -> Seq(Token)]
        /\ backlog \in Seq(Clients)
    <3>1. <<>> \in Seq(Clients) /\ <<>> \in Seq(Token)
      BY EmptySeq
    <3> QED BY <1>1, <3>1
  <2>2. /\ uploaded \in 0 .. Buckets /\ traversals \in 0 .. MaxCalls
        /\ restarts \in 0 .. MaxRestarts /\ clears \in 0 .. MaxClears
    <3>1. 0 \in 0 .. Buckets /\ 0 \in 0 .. MaxCalls /\ 0 \in 0 .. MaxRestarts /\ 0 \in 0 .. MaxClears
      BY WireAssumption
    <3> QED BY <3>1 DEF Init
  <2>3. maps \in Versions /\ oram_state \in Versions /\ branch \in Versions
    BY DEF Init, Versions
  <2>4. client \in [Clients -> Places] /\ ends \in [Clients -> SUBSET {"client", "server"}]
        /\ expected \in [Clients -> Nat]
    BY <1>1 DEF Places
  <2> QED BY <1>1, <2>1, <2>2, <2>3, <2>4 DEF Init, TypeOK, Places
<1>4. LineInv
  <2>1. NoRepeats(backlog)
        /\ \A i \in 1 .. Len(backlog) : i < Len(backlog) => client[backlog[i]] = "gone"
    <3>1. \A i \in 1 .. 0 : FALSE
      OBVIOUS
    <3> QED BY <1>2, <3>1 DEF NoRepeats
  <2> QED BY <1>1, <1>2, <2>1 DEF LineInv, Running, Untouched, Active
<1>5. StreamInv
  <2>1. \A c \in Clients : client[c] = "out" /\ DownFits(c)
    BY <1>1 DEF DownFits
  <2> QED BY <1>1, <1>2, <2>1 DEF StreamInv
<1> QED BY <1>3, <1>4, <1>5 DEF ProtocolInv

LEMMA ProtocolStep == ProtocolInv /\ [Next]_vars => ProtocolInv'
<1> SUFFICES ASSUME ProtocolInv, [Next]_vars PROVE ProtocolInv'
  OBVIOUS
<1>1. CASE \E c \in Clients :
             Starts(c) \/ ClientStep(c) \/ SendRequest(c) \/ CallFails(c)
               \/ Shutdown(c) \/ Quit(c) \/ Crash(c)
  BY <1>1, ProtocolClient
<1>2. CASE SendFlag \/ ReceiveBucket \/ CommitTree \/ SetFlag \/ Announce \/ ReceiveLeaf \/ SendNum
             \/ SendBranchToClient \/ ReceiveUpdatedBlocks \/ CommitBranch \/ Acknowledge
             \/ FdbFails \/ ClientGone
  <2>1. server \notin {"listen", "down"}
    BY <1>2 DEF SendFlag, ReceiveBucket, CommitTree, SetFlag, Announce, ReceiveLeaf, SendNum,
         SendBranchToClient, ReceiveUpdatedBlocks, CommitBranch, Acknowledge, FdbFails, ClientGone
  <2>2. PICK c \in Clients : c = client_socket
    BY <2>1, Served
  <2>3. CASE SendFlag \/ ReceiveBucket \/ CommitTree \/ SetFlag \/ Announce
    BY <2>2, <2>3, ProtocolSendFlag, ProtocolReceiveBucket, ProtocolCommitTree, ProtocolSetFlag,
       ProtocolAnnounce
  <2>4. CASE ReceiveLeaf \/ SendNum \/ SendBranchToClient \/ ReceiveUpdatedBlocks
    BY <2>2, <2>4, ProtocolReceiveLeaf, ProtocolSendNum, ProtocolSendBranchToClient,
       ProtocolReceiveUpdatedBlocks
  <2>5. CASE CommitBranch \/ Acknowledge \/ FdbFails \/ ClientGone
    BY <2>2, <2>5, ProtocolCommitBranch, ProtocolAcknowledge, ProtocolFdbFails, ProtocolClientGone
  <2> QED BY <1>2, <2>3, <2>4, <2>5
<1>3. CASE Accept \/ ReceiveRequest \/ ClientDisconnected \/ SetupFails \/ SetupFdbFails
             \/ CloseConnection \/ ServerKilled
  BY <1>3, ProtocolAccept, ProtocolRequest, ProtocolClientDisconnected, ProtocolSetupFails,
     ProtocolCloseConnection, ProtocolServerKilled
<1>4. CASE Restart
  <2>1. /\ server = "down" /\ server' = "listen"
        /\ restarts < MaxRestarts /\ restarts' = restarts + 1
        /\ UNCHANGED <<clientVars, streams, client_socket, backlog, uploaded, branch,
                       fdb, history, traversals, clears>>
    BY <1>4 DEF Restart
  <2>2. TypeOK'
    <3>1. restarts' \in 0 .. MaxRestarts
      <4>1. restarts \in 0 .. MaxRestarts /\ MaxRestarts \in Nat
        BY WireAssumption DEF ProtocolInv, TypeOK
      <4>2. restarts < MaxRestarts /\ restarts' = restarts + 1
        BY <2>1
      <4> QED BY <4>1, <4>2
    <3> QED BY <2>1, <3>1 DEF ProtocolInv, TypeOK, clientVars, streams, fdb, history
  <2> QED BY <2>1, <2>2, ProtocolElsewhere DEF fdb, history
<1>5. CASE ClearFdb
  <2>1. /\ clears < MaxClears /\ clears' = clears + 1 /\ fdb_is_initialized' = FALSE
        /\ \/ mishaps' = mishaps
           \/ mishaps' = mishaps \cup {"make clear"}
        /\ UNCHANGED <<clientVars, streams, serverVars, tree, fresh,
                       traversals, restarts>>
    BY <1>5 DEF ClearFdb, Mishap
  <2>2. TypeOK'
    <3>1. clears' \in 0 .. MaxClears
      <4>1. clears \in 0 .. MaxClears /\ MaxClears \in Nat
        BY WireAssumption DEF ProtocolInv, TypeOK
      <4>2. clears < MaxClears /\ clears' = clears + 1
        BY <2>1
      <4> QED BY <4>1, <4>2
    <3>2. mishaps' \subseteq {"call failed late", "saved unloaded maps", "crash before the save",
                              "make clear"}
      <4>1. mishaps \subseteq {"call failed late", "saved unloaded maps", "crash before the save",
                               "make clear"}
        BY DEF ProtocolInv, TypeOK
      <4> QED BY <2>1, <4>1
    <3> QED BY <2>1, <3>1, <3>2 DEF ProtocolInv, TypeOK, clientVars, streams, serverVars
  <2> QED BY <2>1, <2>2, ProtocolElsewhere DEF serverVars
<1>6. CASE UNCHANGED vars
  <2>1. UNCHANGED <<clientVars, streams, serverVars, fdb, history, counters>>
    BY <1>6 DEF vars
  <2>2. TypeOK'
    BY <2>1 DEF ProtocolInv, TypeOK, clientVars, streams, serverVars, fdb, history, counters
  <2> QED BY <2>1, <2>2, ProtocolElsewhere DEF serverVars, fdb, history, counters
<1> QED BY <1>1, <1>2, <1>3, <1>4, <1>5, <1>6 DEF Next, ServerStep

\* Every variable keeps its type (OramWire!TypeOK): among others a stream
\* only ever carries tokens, the line of those who wait only clients, and the
\* server has a client exactly while it is neither in accept nor down.
THEOREM TypeCorrect == Spec => []TypeOK
<1>1. Spec => []ProtocolInv
  BY ProtocolInit, ProtocolStep, PTL DEF Spec
<1>2. ProtocolInv => TypeOK
  BY DEF ProtocolInv
<1> QED BY <1>1, <1>2, PTL

\* The first token of a branch.
LEMMA BranchStartsWithBlock ==
  ASSUME NEW s \in Seq(Token), IsBranch(s)
  PROVE  Head(s).kind = "block"
<1>1. s # <<>> /\ s = Blocks(s[1].value)
  BY DEF IsBranch
<1>2. Len(s) \in Nat /\ Len(s) # 0 /\ Head(s) = s[1]
  BY <1>1, HeadTailProperties, LenProperties, EmptySeq
<1>3. s[1].value \in Nat \cup {Unfinished, Torn}
  <2>1. 1 \in 1 .. Len(s)
    BY <1>2
  <2>2. s[1] \in Token
    BY <2>1, ElementOfSeq
  <2> QED BY <2>2 DEF Token
<1>4. 1 \in 1 .. BranchBlocks
  BY WireAssumption
<1>5. Blocks(s[1].value)[1] = Block(s[1].value)
  BY <1>3, <1>4, Tokens
<1> QED BY <1>1, <1>2, <1>5 DEF Block

\* Neither end takes a message for another one (setup_fdb, the request loop
\* and receive_updated_blocks on one side, initialize, get_num_blocks,
\* receive_blocks and get_request_confirmation on the other): the server on no
\* connection at all, the client on none that found the store empty.
THEOREM NothingIsMistaken == Spec => []MessagesStayInStep
<1>1. Spec => []ProtocolInv
  BY ProtocolInit, ProtocolStep, PTL DEF Spec
<1>2. ASSUME ProtocolInv PROVE MessagesStayInStep
  <2> DEFINE c == client_socket
  <2>1. ASSUME ServerTakes # "nothing", up[c] # <<>> PROVE Head(up[c]).kind = ServerTakes
    <3>1. server \in {"receive tree", "request", "leaf", "receive"}
      BY <2>1 DEF ServerTakes
    <3>2. c \in Clients /\ UpFits(c) /\ up[c] \in Seq(Token)
      BY <1>2, <3>1, Served, Streams DEF ProtocolInv
    <3> HIDE DEF c
    <3>3. Len(up[c]) \in Nat /\ Len(up[c]) # 0 /\ Head(up[c]) = up[c][1]
      BY <2>1, <3>2, HeadTailProperties, LenProperties, EmptySeq
    <3>4. CASE server = "receive tree"
      <4>1. \A i \in 1 .. Len(up[c]) : up[c][i] = Block(0)
        BY <3>2, <3>4 DEF UpFits
      <4>2. 1 \in 1 .. Len(up[c])
        BY <3>3
      <4>3. Head(up[c]).kind = "block"
        BY <3>3, <4>1, <4>2 DEF Block
      <4> QED BY <2>1, <3>4, <4>3 DEF ServerTakes
    <3>5. CASE server = "request"
      <4>1. up[c] \in {<<Id(0)>>, <<Id(1)>>, <<Id(1), Leaf(0)>>, <<Id(1), Leaf(1)>>}
        BY <2>1, <3>2, <3>5 DEF UpFits
      <4>2. /\ Head(<<Id(0)>>) = Id(0) /\ Head(<<Id(1)>>) = Id(1)
            /\ Head(<<Id(1), Leaf(0)>>) = Id(1) /\ Head(<<Id(1), Leaf(1)>>) = Id(1)
        BY Shapes
      <4>3. Head(up[c]) \in {Id(0), Id(1)}
        BY <4>1, <4>2
      <4> QED BY <3>5, <4>3 DEF ServerTakes, Id
    <3>6. CASE server = "leaf"
      <4>1. up[c] \in {<<Leaf(0)>>, <<Leaf(1)>>}
        BY <2>1, <3>2, <3>6 DEF UpFits
      <4>2. Head(<<Leaf(0)>>) = Leaf(0) /\ Head(<<Leaf(1)>>) = Leaf(1)
        BY Shapes
      <4>3. Head(up[c]) \in {Leaf(0), Leaf(1)}
        BY <4>1, <4>2
      <4> QED BY <3>6, <4>3 DEF ServerTakes, Leaf
    <3>7. CASE server = "receive"
      <4>1. IsBranch(up[c])
        BY <2>1, <3>2, <3>7 DEF UpFits
      <4>2. Head(up[c]).kind = "block"
        BY <3>2, <4>1, BranchStartsWithBlock
      <4> QED BY <3>7, <4>2 DEF ServerTakes
    <3> QED BY <3>1, <3>4, <3>5, <3>6, <3>7
  <2>2. ASSUME NEW d \in fresh, ClientTakes(d) # "nothing", down[d] # <<>>
        PROVE  Head(down[d]).kind = ClientTakes(d)
    <3>1. d \in Clients /\ DownFits(d) /\ down[d] \in Seq(Token)
      BY <1>2, Streams DEF ProtocolInv, StreamInv, TypeOK
    <3>2. client[d] \in {"uploaded", "num", "blocks", "confirm"}
      BY <2>2, <3>1 DEF ClientTakes, DownFits
    <3>3. CASE client[d] = "uploaded"
      <4>1. down[d] = <<Flag(TRUE)>>
        BY <2>2, <3>1, <3>3 DEF DownFits
      <4>2. Head(down[d]) = Flag(TRUE)
        BY <4>1, Shapes
      <4> QED BY <3>3, <4>2 DEF ClientTakes, Flag
    <3>4. CASE client[d] = "num"
      <4>1. down[d] = NumBlocks \/ \E t \in Seq(Token) : down[d] = NumBlocks \o t
        <5>1. \/ down[d] \in {<<>>, NumBlocks}
              \/ down[d] = NumBlocks \o Drop(down[d], 2) /\ IsBranch(Drop(down[d], 2))
          BY <3>1, <3>4 DEF DownFits
        <5>2. ASSUME down[d] = NumBlocks \o Drop(down[d], 2), IsBranch(Drop(down[d], 2))
              PROVE  Drop(down[d], 2) \in Seq(Token)
          <6>1. Len(down[d]) \in Nat
            BY <3>1, LenProperties
          <6>2. CASE 2 <= Len(down[d])
            BY <3>1, <6>2, DropProperties
          <6>3. CASE ~(2 <= Len(down[d]))
            <7>1. Drop(down[d], 2) = SubSeq(down[d], 3, Len(down[d]))
              BY DEF Drop
            <7>2. 3 \in 1 .. 3 /\ Len(SubSeq(down[d], 3, Len(down[d]))) = 0
              BY <3>1, <6>1, <6>3
            <7>3. Drop(down[d], 2) = <<>>
              BY <3>1, <6>1, <6>3, <7>1, <7>2, EmptySeq
            <7> QED BY <5>2, <7>3 DEF IsBranch
          <6> QED BY <6>1, <6>2, <6>3
        <5> QED BY <2>2, <5>1, <5>2
      <4>2. NumBlocks \in Seq(Token) /\ Len(NumBlocks) = 2 /\ NumBlocks[1] = Digit(BranchBlocks)
        BY SmallTokens DEF NumBlocks
      <4>3. down[d][1] = Digit(BranchBlocks)
        <5>1. ASSUME NEW t \in Seq(Token), down[d] = NumBlocks \o t
              PROVE  down[d][1] = Digit(BranchBlocks)
          <6>1. Len(t) \in Nat
            BY LenProperties
          <6>2. 1 \in 1 .. Len(NumBlocks) + Len(t) /\ 1 <= Len(NumBlocks)
            BY <4>2, <6>1
          <6>3. (NumBlocks \o t)[1] = NumBlocks[1]
            BY <4>2, <6>2, ConcatProperties
          <6> QED BY <4>2, <5>1, <6>3
        <5> QED BY <4>1, <4>2, <5>1
      <4>4. Head(down[d]) = down[d][1]
        BY <2>2, <3>1, HeadTailProperties
      <4> QED BY <3>4, <4>3, <4>4 DEF ClientTakes, Digit
    <3>5. CASE client[d] = "blocks"
      <4>1. IsBranch(down[d])
        BY <2>2, <3>1, <3>5 DEF DownFits
      <4>2. Head(down[d]).kind = "block"
        BY <3>1, <4>1, BranchStartsWithBlock
      <4> QED BY <3>5, <4>2 DEF ClientTakes
    <3>6. CASE client[d] = "confirm"
      <4>1. down[d] = <<Id(1)>>
        BY <2>2, <3>1, <3>6 DEF DownFits
      <4>2. Head(down[d]) = Id(1)
        BY <4>1, Shapes
      <4> QED BY <3>6, <4>2 DEF ClientTakes, Id
    <3> QED BY <3>2, <3>3, <3>4, <3>5, <3>6
  <2> HIDE DEF c
  <2> QED BY <2>1, <2>2 DEF MessagesStayInStep, ClientInStep, c
<1> QED BY <1>1, <1>2, PTL

\* The server confirms a request only after it has committed the branch
\* (send_branch_to_fdb before send_request_confirmation): a client about to
\* save its maps has the maps of the tree in FoundationDB, after whatever
\* failures, crashes and restarts.
THEOREM ConfirmationFollowsCommit == Spec => []ConfirmedIsCommitted
<1>1. Spec => []ProtocolInv
  BY ProtocolInit, ProtocolStep, PTL DEF Spec
<1>2. ProtocolInv => ConfirmedIsCommitted
  BY DEF ProtocolInv, StreamInv, DownFits, ConfirmedIsCommitted
<1> QED BY <1>1, <1>2, PTL

-----------------------------------------------------------------------------
(***************************************************************************)
(* The branches that are written.  A client in the middle of a call has    *)
(* the maps of the last traversal, the branch it sends reaches the server  *)
(* while that waits for one, and nobody else can traverse before the       *)
(* server has written or dropped it.                                       *)
(***************************************************************************)
NewestInv ==
  /\ \A c \in Clients : client[c] = "send" => maps = traversals
  /\ server = "receive" /\ up[client_socket] # <<>> =>
       Head(up[client_socket]).value = traversals
  /\ server = "commit" => branch = traversals

LEMMA NewestInit == Init => NewestInv
  BY DEF Init, NewestInv

\* The blocks of a branch reach the server, or are lost with the connection.
LEMMA NewestSendBranch ==
  ASSUME ProtocolInv, NewestInv, NEW c \in Clients, SendBranch(c)
  PROVE  NewestInv'
<1>1. /\ client[c] = "send" /\ Send("client", c, Blocks(maps)) /\ Goto(c, "confirm")
      /\ UNCHANGED <<maps, ends, serverVars, counters>>
  BY DEF SendBranch
<1>2. client[c] \in Active /\ client[c] # "flag"
  BY <1>1 DEF Active
<1>3. /\ client_socket \in {c, NoClient} /\ DownFits(c)
      /\ client_socket = c => InStep(c)
      /\ client_socket = c /\ server \notin {"closing", "closing again"} => "server" \in ends[c]
      /\ \A d \in Clients \ {c} : ~Running(d)
  BY <1>2, Accepted
<1>4. maps \in Nat /\ maps = traversals
  BY <1>1, <1>3 DEF DownFits, NewestInv
<1>5. ASSUME NEW d \in Clients, client'[d] = "send" PROVE FALSE
  <2>1. CASE d = c
    BY <1>1, <1>5, <2>1 DEF Goto, ProtocolInv, TypeOK
  <2>2. CASE d # c
    BY <1>1, <1>3, <1>5, <2>2 DEF Goto, Running, ProtocolInv, TypeOK
  <2> QED BY <2>1, <2>2
<1>6. /\ server' = server /\ client_socket' = client_socket /\ branch' = branch
      /\ traversals' = traversals
  BY <1>1 DEF serverVars, counters
<1>7. ASSUME server = "receive" PROVE Head(up'[client_socket]).value = traversals
  <2>1. client_socket = c
    BY <1>3, <1>7, Served, WireAssumption
  <2>2. up[c] = <<>> /\ "server" \in ends[c]
    BY <1>1, <1>3, <1>7, <2>1 DEF InStep
  <2>3. /\ Blocks(maps) \in Seq(Token) /\ Blocks(maps) # <<>> /\ Blocks(maps)[1].value = maps
    BY <1>4, Tokens
  <2>4. up'[c] = <<>> \o Blocks(maps)
    BY <1>1, <2>2, <2>3, ClientAppends DEF ProtocolInv
  <2>5. <<>> \o Blocks(maps) = Blocks(maps)
    BY <2>3, ConcatEmptySeq
  <2>6. Head(Blocks(maps)) = Blocks(maps)[1]
    BY <2>3, HeadTailProperties
  <2> QED BY <1>4, <2>1, <2>3, <2>4, <2>5, <2>6
<1> QED BY <1>5, <1>6, <1>7 DEF NewestInv

\* While a branch waits to be taken or written nobody can traverse.
LEMMA NewestReceiveBlocks ==
  ASSUME ProtocolInv, NewestInv, NEW c \in Clients, ReceiveBlocks(c)
  PROVE  NewestInv'
<1>1. /\ client[c] = "blocks" /\ Goto(c, "send") /\ Receive("client", c, expected[c])
      /\ maps' = traversals + 1 /\ traversals' = traversals + 1
      /\ UNCHANGED serverVars
  BY DEF ReceiveBlocks
<1>2. client[c] \in Active /\ client[c] # "flag"
  BY <1>1 DEF Active
<1>3. /\ client_socket \in {c, NoClient}
      /\ client_socket = c => InStep(c)
  BY <1>2, Accepted
<1>4. server' = server /\ client_socket' = client_socket /\ up' = up
  BY <1>1 DEF serverVars, Receive
<1>5. ASSUME server \in {"receive", "commit"} PROVE server = "receive" /\ up[client_socket] = <<>>
  <2>1. client_socket = c
    BY <1>3, <1>5, Served, WireAssumption
  <2> QED BY <1>1, <1>3, <1>5, <2>1 DEF InStep
<1> QED BY <1>1, <1>4, <1>5 DEF NewestInv

\* No other step of a client touches a call's maps or the branch on its way.
LEMMA NewestClient ==
  ASSUME ProtocolInv, NewestInv, NEW c \in Clients,
         Starts(c) \/ ClientStep(c) \/ SendRequest(c) \/ CallFails(c)
           \/ Shutdown(c) \/ Quit(c) \/ Crash(c)
  PROVE  NewestInv'
<1>1. CASE SendBranch(c)
  BY <1>1, NewestSendBranch
<1>2. CASE ReceiveBlocks(c)
  BY <1>2, NewestReceiveBlocks
<1>3. ASSUME NEW place, place # "send", Goto(c, place),
             UNCHANGED <<server, client_socket, branch, traversals>>,
             server = "receive" => up'[client_socket] = up[client_socket],
             maps' = maps \/ \A d \in Clients \ {c} : ~Running(d)
      PROVE  NewestInv'
  <2>1. ASSUME NEW d \in Clients, client'[d] = "send"
        PROVE  client[d] = "send" /\ d # c
    BY <1>3, <2>1 DEF Goto, ProtocolInv, TypeOK
  <2>2. ASSUME NEW d \in Clients, client'[d] = "send" PROVE maps' = traversals
    <3>1. Running(d) /\ d \in Clients \ {c}
      BY <2>1, <2>2 DEF Running
    <3> QED BY <1>3, <2>1, <2>2, <3>1 DEF NewestInv
  <2> QED BY <1>3, <2>2 DEF NewestInv
<1>4. CASE UploadBucket(c) \/ SendRequest(c) \/ SendLeaf(c) \/ Shutdown(c)
  <2>1. /\ client[c] \in {"upload", "ready", "leaf"}
        /\ UNCHANGED <<maps, serverVars, counters>>
    BY <1>4 DEF UploadBucket, SendRequest, SendLeaf, Shutdown
  <2>2. PICK place : place # "send" /\ Goto(c, place)
    BY <1>4 DEF UploadBucket, SendRequest, SendLeaf, Shutdown
  <2>3. /\ client_socket \in {c, NoClient}
        /\ client_socket = c => InStep(c)
    <3>1. client[c] \in Active /\ client[c] # "flag"
      BY <2>1 DEF Active
    <3> QED BY <3>1, Accepted
  <2>4. ASSUME server = "receive" PROVE FALSE
    <3>1. client_socket = c
      BY <2>3, <2>4, Served, WireAssumption
    <3> QED BY <2>1, <2>3, <2>4, <3>1 DEF InStep
  <2> QED BY <1>3, <2>1, <2>2, <2>4 DEF serverVars, counters
<1>5. CASE ReceiveFlag(c) \/ ReceiveSecondFlag(c) \/ ReceiveNum(c) \/ ReceiveConfirmation(c)
  <2>1. UNCHANGED <<maps, up, serverVars, counters>>
    BY <1>5 DEF ReceiveFlag, ReceiveSecondFlag, ReceiveNum, ReceiveConfirmation, Receive, history
  <2>2. PICK place : place # "send" /\ Goto(c, place)
    BY <1>5 DEF ReceiveFlag, ReceiveSecondFlag, ReceiveNum, ReceiveConfirmation
  <2> QED BY <1>3, <2>1, <2>2 DEF serverVars, counters
<1>6. CASE HandshakeFails(c) \/ CallFails(c) \/ Quit(c) \/ Truncate(c)
  <2>1. UNCHANGED <<maps, up, serverVars, counters>>
    BY <1>6 DEF HandshakeFails, CallFails, Quit, Truncate, Close, streams
  <2>2. PICK place : place # "send" /\ Goto(c, place)
    BY <1>6 DEF HandshakeFails, CallFails, Quit, Truncate
  <2> QED BY <1>3, <2>1, <2>2 DEF serverVars, counters
<1>7. CASE Starts(c) \/ Write(c) \/ Crash(c)
  <2>1. UNCHANGED <<up, server, client_socket, branch, traversals>>
    BY <1>7 DEF Starts, Connect, InitializeFails, Write, Crash, Close, streams, serverVars, counters
  <2>2. PICK place : place # "send" /\ Goto(c, place)
    BY <1>7 DEF Starts, Connect, InitializeFails, Write, Crash
  <2>3. \A d \in Clients \ {c} : ~Running(d)
    <3>1. CASE Starts(c)
      BY <3>1 DEF Starts, Connect, InitializeFails
    <3>2. CASE Write(c) \/ Crash(c)
      <4>1. Running(c)
        BY <3>2 DEF Write, Crash, Running
      <4> QED BY <4>1 DEF ProtocolInv, LineInv
    <3> QED BY <1>7, <3>1, <3>2
  <2> QED BY <1>3, <2>1, <2>2, <2>3
<1> QED BY <1>1, <1>2, <1>4, <1>5, <1>6, <1>7 DEF ClientStep

LEMMA NewestServer ==
  ASSUME ProtocolInv, NewestInv,
         ServerStep \/ FdbFails \/ SetupFdbFails \/ ServerKilled \/ Restart \/ ClearFdb
  PROVE  NewestInv'
<1>1. UNCHANGED <<client, maps, traversals>>
  BY DEF ServerStep, Accept, SendFlag, ReceiveBucket, CommitTree, SetFlag, Announce, ReceiveRequest,
     ClientDisconnected, ReceiveLeaf, SendNum, SendBranchToClient, ReceiveUpdatedBlocks, CommitBranch,
     Acknowledge, SetupFails, ClientGone, CloseConnection, FdbFails, SetupFdbFails, ServerKilled,
     Restart, ClearFdb, clientVars, counters
<1>2. CASE server' \notin {"receive", "commit"}
  BY <1>1, <1>2 DEF NewestInv
<1>3. CASE SendBranchToClient
  <2>1. server = "branch" /\ server' = "receive" /\ client_socket' = client_socket /\ up' = up
    BY <1>3 DEF SendBranchToClient, Send
  <2>2. up[client_socket] = <<>>
    BY <2>1, Served DEF UpFits
  <2> QED BY <1>1, <2>1, <2>2 DEF NewestInv
<1>4. CASE ReceiveUpdatedBlocks
  <2>1. /\ server = "receive" /\ Receive("server", client_socket, BranchBlocks)
        /\ server' = "commit" /\ branch' = Head(up[client_socket]).value
    BY <1>4 DEF ReceiveUpdatedBlocks
  <2>2. client_socket \in Clients /\ TypeOK /\ BranchBlocks \in Nat /\ BranchBlocks >= 1
    BY <2>1, Served, WireAssumption DEF ProtocolInv
  <2>3. Len(up[client_socket]) >= BranchBlocks
    BY <2>1, <2>2, ServerDrops
  <2>4. up[client_socket] # <<>>
    BY <2>2, <2>3, Streams
  <2> QED BY <1>1, <2>1, <2>4 DEF NewestInv
<1>5. CASE ClearFdb
  <2>1. UNCHANGED <<server, client_socket, up, branch>>
    BY <1>5 DEF ClearFdb, serverVars, streams
  <2> QED BY <1>1, <2>1 DEF NewestInv
<1>6. ASSUME ~SendBranchToClient, ~ReceiveUpdatedBlocks, ~ClearFdb
      PROVE  server' \notin {"receive", "commit"}
  BY <1>6 DEF ServerStep, Accept, SendFlag, ReceiveBucket, CommitTree, SetFlag, Announce, ReceiveRequest,
     ClientDisconnected, ReceiveLeaf, SendNum, CommitBranch, Acknowledge, SetupFails, ClientGone,
     CloseConnection, FdbFails, SetupFdbFails, ServerKilled, Restart, Exit
<1> QED BY <1>2, <1>3, <1>4, <1>5, <1>6

\* While the flag is set only the branch of the last traversal is written
\* (receive_updated_blocks, send_branch_to_fdb): no failure, crash or restart
\* of either end lets the server write that of an earlier call or process, or
\* one that it has not received.
THEOREM OnlyTheNewest == Spec => NewestIsWritten
<1> DEFINE Inv == ProtocolInv /\ FlagInv /\ NewestInv
<1>1. Init => Inv
  BY ProtocolInit, FlagInit, NewestInit
<1>2. ASSUME Inv, [Next]_vars PROVE Inv'
  <2>1. ProtocolInv'
    BY <1>2, ProtocolStep
  <2>2. FlagInv'
    BY <1>2, FlagClient, FlagServer, FlagStutters DEF Next
  <2>3. NewestInv'
    <3>1. CASE UNCHANGED vars
      BY <1>2, <3>1 DEF NewestInv, vars, clientVars, streams, serverVars, counters
    <3> QED BY <1>2, <3>1, NewestClient, NewestServer DEF Next
  <2> QED BY <2>1, <2>2, <2>3
<1>3. ASSUME Inv, [Next]_vars PROVE [fdb_is_initialized /\ tree' # tree => tree' = traversals]_vars
  <2>1. SUFFICES ASSUME Next, fdb_is_initialized, tree' # tree PROVE tree' = traversals
    BY <1>3
  <2>2. server # "receive tree"
    BY <1>3, <2>1 DEF FlagInv, Upload
  <2>3. CASE CommitBranch \/ FdbFails
    <3>1. server = "commit" /\ tree' = branch
      BY <2>1, <2>3 DEF CommitBranch, FdbFails
    <3> QED BY <1>3, <3>1 DEF NewestInv
  <2>4. CASE \E c \in Clients :
               Starts(c) \/ ClientStep(c) \/ SendRequest(c) \/ CallFails(c)
                 \/ Shutdown(c) \/ Quit(c) \/ Crash(c)
    <3>1. tree' = tree
      BY <2>4 DEF Starts, ClientStep, Connect, InitializeFails, ReceiveFlag, UploadBucket,
         ReceiveSecondFlag, HandshakeFails, SendLeaf, ReceiveNum, ReceiveBlocks, SendBranch,
         ReceiveConfirmation, Truncate, Write, CallFails, SendRequest, Shutdown, Quit, Crash, fdb
    <3> QED BY <2>1, <3>1
  <2>5. CASE ReceiveBucket \/ CommitTree
    BY <2>2, <2>5 DEF ReceiveBucket, CommitTree
  <2>6. CASE \/ Accept \/ SendFlag \/ SetFlag \/ Announce \/ ReceiveRequest \/ ClientDisconnected
             \/ ReceiveLeaf \/ SendNum \/ SendBranchToClient \/ ReceiveUpdatedBlocks \/ Acknowledge
             \/ ClientGone \/ CloseConnection
    BY <2>1, <2>6 DEF Accept, SendFlag, SetFlag, Announce, ReceiveRequest, ClientDisconnected,
       ReceiveLeaf, SendNum, SendBranchToClient, ReceiveUpdatedBlocks, Acknowledge, ClientGone,
       CloseConnection, fdb
  <2>7. CASE SetupFails \/ SetupFdbFails \/ ServerKilled \/ Restart \/ ClearFdb
    BY <2>1, <2>2, <2>7 DEF SetupFails, SetupFdbFails, ServerKilled, Restart, ClearFdb, fdb
  <2> QED BY <2>1, <2>3, <2>4, <2>5, <2>6, <2>7 DEF Next, ServerStep
<1>4. Spec => []Inv
  <2> HIDE DEF Inv
  <2> QED BY <1>1, <1>2, PTL DEF Spec
<1> HIDE DEF Inv
<1> QED BY <1>3, <1>4, PTL DEF Spec, NewestIsWritten

-----------------------------------------------------------------------------
(***************************************************************************)
(* The state file.                                                         *)
(***************************************************************************)
Saving == {"confirm", "save", "write", "last write"}

LEMMA FileInit == Init => FileInv
  BY DEF Init, FileInv, Describes, Active

\* A step of process c, the only one that runs, that leaves it at place.
LEMMA FileClientMoves ==
  ASSUME ProtocolInv, FileInv, NEW c \in Clients, NEW place,
         client[c] # "gone", \A d \in Clients \ {c} : ~Running(d),
         client' = [client EXCEPT ![c] = place],
         UNCHANGED <<server, client_socket, tree, fdb_is_initialized>>,
         \A d \in Clients \ {c} : up'[d] = up[d] /\ down'[d] = down[d],
         place = "unloaded" => maps' = 0,
         mishaps' = {} =>
           /\ mishaps = {}
           /\ place \in Active \ {"flag", "upload", "uploaded"} => fdb_is_initialized
           /\ place \in {"flag", "uploaded"} /\ down'[c] # <<>> /\ down'[c][1] = Flag(TRUE)
                => fdb_is_initialized
           /\ place \in (Active \ {"send", "confirm", "save", "write"}) \cup {"unusable", "quitting"}
                => maps' = oram_state'
           /\ place \in {"write", "last write"} => Describes(maps')
           /\ place \notin Saving => Describes(oram_state')
           /\ server = "announce" /\ client_socket = c /\ place \in Active => fdb_is_initialized
           /\ client_socket = c /\ (server = "commit" \/ (server = "receive" /\ up'[c] # <<>>)) =>
                place = "confirm"
  PROVE  FileInv'
<1>1. client'[c] = place /\ \A d \in Clients \ {c} : client'[d] = client[d]
  BY DEF ProtocolInv, TypeOK
<1>2. \A d \in Clients \ {c} : client[d] \in {"out", "gone"} /\ client'[d] \in {"out", "gone"}
  BY <1>1 DEF Running
<1>3. /\ server' = server /\ client_socket' = client_socket /\ tree' = tree
      /\ fdb_is_initialized' <=> fdb_is_initialized
  OBVIOUS
<1>4. /\ server' \in {"receive tree", "set flag"} => ~fdb_is_initialized'
      /\ server' = "set flag" => tree' = 0
  <2>1. /\ server \in {"receive tree", "set flag"} => ~fdb_is_initialized
        /\ server = "set flag" => tree = 0
    BY DEF FileInv
  <2> QED BY <1>3, <2>1
<1>5. \A d \in Clients : client'[d] = "unloaded" => maps' = 0
  BY <1>1, <1>2
<1>6. Describes(maps)' = Describes(maps') /\ Describes(oram_state)' = Describes(oram_state')
  BY <1>3 DEF Describes
<1>7. ASSUME mishaps' = {}
      PROVE  /\ \A d \in Clients :
                  /\ client'[d] \in Active \ {"flag", "upload", "uploaded"} => fdb_is_initialized'
                  /\ client'[d] \in {"flag", "uploaded"} /\ down'[d] # <<>> /\ down'[d][1] = Flag(TRUE)
                       => fdb_is_initialized'
                  /\ client'[d] \in (Active \ {"send", "confirm", "save", "write"})
                                      \cup {"unusable", "quitting"} => maps' = oram_state'
                  /\ client'[d] \in {"write", "last write"} => Describes(maps)'
             /\ (\A d \in Clients : client'[d] \notin Saving) => Describes(oram_state)'
             /\ server' = "announce" /\ client'[client_socket'] \in Active => fdb_is_initialized'
             /\ server' = "commit" \/ (server' = "receive" /\ up'[client_socket'] # <<>>) =>
                  client'[client_socket'] = "confirm"
  <2>1. ASSUME NEW d \in Clients, d # c
        PROVE  /\ client'[d] \notin Active
               /\ client'[d] \notin {"flag", "uploaded", "unusable", "quitting", "write", "last write"}
    BY <1>2, <2>1 DEF Active
  <2>2. ASSUME NEW d \in Clients
        PROVE  /\ client'[d] \in Active \ {"flag", "upload", "uploaded"} => fdb_is_initialized'
               /\ client'[d] \in {"flag", "uploaded"} /\ down'[d] # <<>> /\ down'[d][1] = Flag(TRUE)
                    => fdb_is_initialized'
               /\ client'[d] \in (Active \ {"send", "confirm", "save", "write"})
                                   \cup {"unusable", "quitting"} => maps' = oram_state'
               /\ client'[d] \in {"write", "last write"} => Describes(maps)'
    <3>1. CASE d = c
      <4>1. /\ place \in Active \ {"flag", "upload", "uploaded"} => fdb_is_initialized
            /\ place \in {"flag", "uploaded"} /\ down'[c] # <<>> /\ down'[c][1] = Flag(TRUE)
                 => fdb_is_initialized
        BY <1>7
      <4>2. place \in (Active \ {"send", "confirm", "save", "write"}) \cup {"unusable", "quitting"}
              => maps' = oram_state'
        BY <1>7
      <4>3. place \in {"write", "last write"} => Describes(maps)'
        BY <1>6, <1>7
      <4>4. client'[c] = place /\ (fdb_is_initialized' <=> fdb_is_initialized)
        BY <1>1, <1>3
      <4> QED BY <3>1, <4>1, <4>2, <4>3, <4>4
    <3>2. CASE d # c
      BY <2>1, <3>2
    <3> QED BY <3>1, <3>2
  <2>3. ASSUME \A d \in Clients : client'[d] \notin Saving PROVE Describes(oram_state)'
    <3>1. Describes(oram_state')
      BY <1>1, <1>7, <2>3
    <3> QED BY <1>6, <3>1
  <2>4. client_socket \in Clients \/ server \in {"listen", "down"}
    <3>1. /\ client_socket \in Clients \cup {NoClient}
          /\ (client_socket = NoClient) = (server \in {"listen", "down"})
      BY DEF ProtocolInv, TypeOK
    <3> QED BY <3>1
  <2>5. CASE client_socket = c
    <3>1. /\ server = "announce" /\ place \in Active => fdb_is_initialized
          /\ server = "commit" \/ (server = "receive" /\ up'[c] # <<>>) => place = "confirm"
      BY <1>7, <2>5
    <3>2. client'[client_socket'] = place /\ client_socket' = c
      BY <1>1, <1>3, <2>5
    <3> QED BY <1>3, <2>2, <2>3, <3>1, <3>2
  <2>6. CASE client_socket \in Clients \ {c}
    <3>1. client'[client_socket] \notin Active /\ up'[client_socket] = up[client_socket]
          /\ client'[client_socket] = client[client_socket]
      BY <1>1, <2>1, <2>6
    <3>2. server = "commit" \/ (server = "receive" /\ up[client_socket] # <<>>) =>
            client[client_socket] = "confirm"
      BY <1>7 DEF FileInv
    <3> QED BY <1>3, <2>2, <2>3, <3>1, <3>2
  <2>7. CASE server \in {"listen", "down"}
    BY <1>3, <2>2, <2>3, <2>7
  <2> QED BY <2>4, <2>5, <2>6, <2>7
<1> QED BY <1>4, <1>5, <1>7 DEF FileInv, Saving

\* A step of the server.
LEMMA FileServerMoves ==
  ASSUME ProtocolInv, FileInv,
         UNCHANGED <<client, maps, oram_state, mishaps>>,
         server' \in {"receive tree", "set flag"} => ~fdb_is_initialized',
         server' = "set flag" => tree' = 0,
         fdb_is_initialized => fdb_is_initialized',
         mishaps = {} =>
           /\ \/ \A n : Describes(n) => Describes(n)'
              \/ \E c \in Clients : client[c] = "confirm"
           /\ \A c \in Clients :
                client[c] \in {"flag", "uploaded"} /\ down'[c] # <<>> /\ down'[c][1] = Flag(TRUE)
                  => fdb_is_initialized'
           /\ server' = "announce" /\ client[client_socket'] \in Active => fdb_is_initialized'
           /\ server' = "commit" \/ (server' = "receive" /\ up'[client_socket'] # <<>>) =>
                client[client_socket'] = "confirm"
  PROVE  FileInv'
<1>1. client' = client /\ maps' = maps /\ oram_state' = oram_state /\ mishaps' = mishaps
  OBVIOUS
<1>2. \A c \in Clients : client'[c] = "unloaded" => maps' = 0
  BY <1>1 DEF FileInv
<1>3. ASSUME mishaps' = {}
      PROVE  /\ \A c \in Clients :
                  /\ client'[c] \in Active \ {"flag", "upload", "uploaded"} => fdb_is_initialized'
                  /\ client'[c] \in {"flag", "uploaded"} /\ down'[c] # <<>> /\ down'[c][1] = Flag(TRUE)
                       => fdb_is_initialized'
                  /\ client'[c] \in (Active \ {"send", "confirm", "save", "write"})
                                      \cup {"unusable", "quitting"} => maps' = oram_state'
                  /\ client'[c] \in {"write", "last write"} => Describes(maps)'
             /\ (\A c \in Clients : client'[c] \notin Saving) => Describes(oram_state)'
             /\ server' = "announce" /\ client'[client_socket'] \in Active => fdb_is_initialized'
             /\ server' = "commit" \/ (server' = "receive" /\ up'[client_socket'] # <<>>) =>
                  client'[client_socket'] = "confirm"
  <2>1. mishaps = {}
    BY <1>1, <1>3
  <2>2. ASSUME NEW c \in Clients
        PROVE  /\ client[c] \in Active \ {"flag", "upload", "uploaded"} => fdb_is_initialized'
               /\ client[c] \in (Active \ {"send", "confirm", "save", "write"})
                                   \cup {"unusable", "quitting"} => maps = oram_state
    BY <2>1 DEF FileInv
  <2>3. ASSUME NEW c \in Clients, client[c] \in {"write", "last write"} PROVE Describes(maps)'
    <3>1. Describes(maps)
      BY <2>1, <2>3 DEF FileInv
    <3>2. \A d \in Clients : client[d] # "confirm"
      <4>1. ASSUME NEW d \in Clients, client[d] = "confirm" PROVE FALSE
        <5>1. Running(c) /\ Running(d)
          BY <2>3, <4>1 DEF Running
        <5>2. c = d
          BY <5>1 DEF ProtocolInv, LineInv
        <5> QED BY <2>3, <4>1, <5>2
      <4> QED BY <4>1
    <3>3. \A n : Describes(n) => Describes(n)'
      BY <2>1, <3>2
    <3> QED BY <1>1, <3>1, <3>3 DEF Describes
  <2>4. ASSUME \A c \in Clients : client[c] \notin Saving PROVE Describes(oram_state)'
    <3>1. Describes(oram_state)
      BY <2>1, <2>4 DEF FileInv, Saving
    <3>2. \A n : Describes(n) => Describes(n)'
      BY <2>1, <2>4 DEF Saving
    <3> QED BY <1>1, <3>1, <3>2 DEF Describes
  <2> QED BY <1>1, <2>1, <2>2, <2>3, <2>4
<1> QED BY <1>2, <1>3 DEF FileInv, Saving

\* What is known of the client that runs.
LEMMA FileOf ==
  ASSUME ProtocolInv, FileInv, NEW c \in Clients, Running(c)
  PROVE  /\ \A d \in Clients \ {c} : ~Running(d)
         /\ client[c] # "gone" /\ DownFits(c)
         /\ client[c] = "unloaded" => maps = 0
         /\ client[c] \in Active /\ client_socket = c => InStep(c)
         /\ mishaps = {} =>
              /\ client[c] \in Active \ {"flag", "upload", "uploaded"} => fdb_is_initialized
              /\ client[c] \in {"flag", "uploaded"} /\ down[c] # <<>> /\ down[c][1] = Flag(TRUE)
                   => fdb_is_initialized
              /\ client[c] \in (Active \ {"send", "confirm", "save", "write"})
                                 \cup {"unusable", "quitting"} => maps = oram_state
              /\ client[c] \in {"write", "last write"} => Describes(maps)
              /\ client[c] \notin Saving => Describes(oram_state)
              /\ server = "announce" /\ client_socket = c /\ client[c] \in Active => fdb_is_initialized
              /\ client_socket = c /\ (server = "commit" \/ (server = "receive" /\ up[c] # <<>>)) =>
                   client[c] = "confirm"
<1>1. (\A d \in Clients \ {c} : ~Running(d)) /\ client[c] # "gone" /\ DownFits(c)
  BY DEF ProtocolInv, LineInv, StreamInv, Running
<1>2. client[c] = "unloaded" => maps = 0
  BY DEF FileInv
<1>3. client[c] \in Active /\ client_socket = c => InStep(c)
  BY DEF ProtocolInv, StreamInv
<1>4. ASSUME mishaps = {}
      PROVE  /\ client[c] \in Active \ {"flag", "upload", "uploaded"} => fdb_is_initialized
             /\ client[c] \in {"flag", "uploaded"} /\ down[c] # <<>> /\ down[c][1] = Flag(TRUE)
                  => fdb_is_initialized
             /\ client[c] \in (Active \ {"send", "confirm", "save", "write"})
                                \cup {"unusable", "quitting"} => maps = oram_state
             /\ client[c] \in {"write", "last write"} => Describes(maps)
  BY <1>4 DEF FileInv
<1>5. ASSUME mishaps = {}, client[c] \notin Saving PROVE Describes(oram_state)
  <2>1. \A d \in Clients : client[d] \notin Saving
    BY <1>1, <1>5 DEF Running, Saving
  <2> QED BY <1>5, <2>1 DEF FileInv, Saving
<1>6. ASSUME mishaps = {}, client_socket = c
      PROVE  /\ server = "announce" /\ client[c] \in Active => fdb_is_initialized
             /\ server = "commit" \/ (server = "receive" /\ up[c] # <<>>) => client[c] = "confirm"
  BY <1>6 DEF FileInv
<1> QED BY <1>1, <1>2, <1>3, <1>4, <1>5, <1>6

LEMMA FileSends ==
  ASSUME ProtocolInv, FileInv, NEW c \in Clients,
         UploadBucket(c) \/ SendRequest(c) \/ SendLeaf(c) \/ SendBranch(c) \/ Shutdown(c)
  PROVE  FileInv'
<1>1. PICK place \in {"upload", "uploaded", "leaf", "num", "confirm", "shut down"} :
        /\ client' = [client EXCEPT ![c] = place]
        /\ client[c] \in Active
        /\ place \in {"upload", "uploaded"} => client[c] = "upload"
        /\ place \in {"leaf", "num", "shut down"} => client[c] \in {"ready", "leaf"}
        /\ place = "confirm" => client[c] = "send"
  BY DEF UploadBucket, SendRequest, SendLeaf, SendBranch, Shutdown, Goto, Active
<1>2. UNCHANGED <<maps, oram_state, mishaps>>
      /\ UNCHANGED <<server, client_socket, tree, fdb_is_initialized>>
  BY DEF UploadBucket, SendRequest, SendLeaf, SendBranch, Shutdown, serverVars, fdb, history
<1>3. down' = down /\ \A d \in Clients \ {c} : up'[d] = up[d]
  <2>1. \E s : Send("client", c, s)
    BY DEF UploadBucket, SendRequest, SendLeaf, SendBranch, Shutdown
  <2> QED BY <2>1 DEF Send, ProtocolInv, TypeOK
<1>4. Running(c)
  BY <1>1 DEF Active, Running
<1>5. /\ \A d \in Clients \ {c} : ~Running(d)
      /\ client[c] # "gone" /\ DownFits(c)
      /\ client_socket = c => InStep(c)
  BY <1>1, <1>4, FileOf
<1>6. ASSUME mishaps = {}
      PROVE  /\ client[c] \in Active \ {"flag", "upload", "uploaded"} => fdb_is_initialized
             /\ client[c] \in {"upload", "ready", "leaf"} => maps = oram_state
             /\ client[c] \notin Saving => Describes(oram_state)
             /\ server = "announce" /\ client_socket = c => fdb_is_initialized
             /\ client_socket = c /\ server = "commit" => client[c] = "confirm"
  BY <1>1, <1>4, <1>6, FileOf DEF Active
<1>7. ASSUME mishaps = {}
      PROVE  /\ place \in Active \ {"flag", "upload", "uploaded"} => fdb_is_initialized
             /\ place \in (Active \ {"send", "confirm", "save", "write"}) \cup {"unusable", "quitting"}
                  => maps = oram_state
             /\ place \notin Saving => Describes(oram_state)
             /\ client_socket = c /\ (server = "commit" \/ (server = "receive" /\ up'[c] # <<>>)) =>
                  place = "confirm"
  <2>1. place \in Active \ {"flag", "upload", "uploaded"} => fdb_is_initialized
    BY <1>1, <1>6, <1>7 DEF Active
  <2>2. place # "confirm" => maps = oram_state /\ Describes(oram_state)
    BY <1>1, <1>6, <1>7 DEF Saving
  <2>3. client_socket = c /\ server = "commit" => FALSE
    BY <1>1, <1>6, <1>7
  <2>4. client_socket = c /\ server = "receive" => place = "confirm"
    <3>1. client_socket = c /\ server = "receive" => client[c] \in {"num", "blocks", "send", "confirm"}
      BY <1>5 DEF InStep
    <3> QED BY <1>1, <3>1
  <2> QED BY <2>1, <2>2, <2>3, <2>4 DEF Saving
<1>8. place = "uploaded" => down'[c] = <<>>
  BY <1>1, <1>3, <1>5 DEF DownFits
<1>9. place \notin {"flag", "write", "last write", "unloaded"}
  OBVIOUS
<1> QED BY <1>1, <1>2, <1>3, <1>5, <1>6, <1>7, <1>8, <1>9, FileClientMoves

LEMMA FileReceives ==
  ASSUME ProtocolInv, FileInv, NEW c \in Clients,
         ReceiveFlag(c) \/ ReceiveSecondFlag(c) \/ ReceiveNum(c) \/ ReceiveBlocks(c)
           \/ ReceiveConfirmation(c)
  PROVE  FileInv'
<1>1. PICK place \in {"upload", "ready", "unusable", "blocks", "send", "save"} :
        /\ client' = [client EXCEPT ![c] = place]
        /\ client[c] \in Active
        /\ place = "upload" => client[c] = "flag"
        /\ place = "ready" => client[c] \in {"flag", "uploaded"} /\ Head(down[c]).value # 0
        /\ place = "unusable" => client[c] = "uploaded"
        /\ place = "blocks" => client[c] = "num" /\ maps' = maps
        /\ place = "send" => client[c] = "blocks"
        /\ place = "save" => client[c] = "confirm" /\ Receive("client", c, 1)
        /\ place # "send" => maps' = maps
        /\ place \in {"ready", "upload"} => Receive("client", c, 1)
  <2>1. CASE ReceiveFlag(c)
    BY <2>1 DEF ReceiveFlag, Goto, Active
  <2>2. CASE ReceiveSecondFlag(c)
    BY <2>2 DEF ReceiveSecondFlag, Goto, Active
  <2>3. CASE ReceiveNum(c) \/ ReceiveBlocks(c) \/ ReceiveConfirmation(c)
    BY <2>3 DEF ReceiveNum, ReceiveBlocks, ReceiveConfirmation, Goto, Active
  <2> QED BY <2>1, <2>2, <2>3
<1>2. UNCHANGED <<oram_state, mishaps>> /\ UNCHANGED <<server, client_socket, tree, fdb_is_initialized>>
  BY DEF ReceiveFlag, ReceiveSecondFlag, ReceiveNum, ReceiveBlocks, ReceiveConfirmation,
         serverVars, fdb, history
<1>3. up' = up /\ \A d \in Clients \ {c} : down'[d] = down[d]
  <2>1. \E n : Receive("client", c, n)
    BY DEF ReceiveFlag, ReceiveSecondFlag, ReceiveNum, ReceiveBlocks, ReceiveConfirmation
  <2> QED BY <2>1 DEF Receive, ProtocolInv, TypeOK
<1>4. Running(c)
  BY <1>1 DEF Active, Running
<1>5. /\ \A d \in Clients \ {c} : ~Running(d)
      /\ client[c] # "gone" /\ DownFits(c)
      /\ client_socket = c => InStep(c)
  BY <1>1, <1>4, FileOf
<1>6. ASSUME mishaps = {}
      PROVE  /\ client[c] \in Active \ {"flag", "upload", "uploaded"} => fdb_is_initialized
             /\ client[c] \in {"flag", "uploaded"} /\ down[c] # <<>> /\ down[c][1] = Flag(TRUE)
                  => fdb_is_initialized
             /\ client[c] \in {"flag", "uploaded", "num"} => maps = oram_state
             /\ client[c] \notin Saving => Describes(oram_state)
             /\ server = "announce" /\ client_socket = c => fdb_is_initialized
             /\ client_socket = c /\ (server = "commit" \/ (server = "receive" /\ up[c] # <<>>)) =>
                  client[c] = "confirm"
  BY <1>1, <1>4, <1>6, FileOf DEF Active
<1>7. place = "ready" => down[c] # <<>> /\ down[c][1] = Flag(TRUE)
  <2>1. SUFFICES ASSUME place = "ready" PROVE down[c] # <<>> /\ down[c][1] = Flag(TRUE)
    OBVIOUS
  <2>2. down[c] \in {<<>>, <<Flag(FALSE)>>, <<Flag(TRUE)>>, <<Flag(TRUE), Flag(TRUE)>>}
    BY <1>1, <1>5, <2>1 DEF DownFits
  <2>3. down[c] # <<>>
    <3>1. TypeOK /\ Len(down[c]) >= 1
      BY <1>1, <2>1, ClientDrops DEF ProtocolInv
    <3> QED BY <3>1, Streams
  <2>4. down[c] # <<Flag(FALSE)>>
    <3>1. Head(<<Flag(FALSE)>>).value = 0
      BY FlagStreams
    <3> QED BY <1>1, <2>1, <3>1
  <2>5. <<Flag(TRUE)>>[1] = Flag(TRUE) /\ <<Flag(TRUE), Flag(TRUE)>>[1] = Flag(TRUE)
    BY Shapes
  <2> QED BY <2>2, <2>3, <2>4, <2>5
<1>8. place = "save" /\ client_socket = c => server # "commit" /\ (server = "receive" => up[c] = <<>>)
  <2>1. SUFFICES ASSUME place = "save", client_socket = c
                 PROVE  server # "commit" /\ (server = "receive" => up[c] = <<>>)
    OBVIOUS
  <2>2. down[c] # <<>>
    <3>1. TypeOK /\ Len(down[c]) >= 1
      BY <1>1, <2>1, ClientDrops DEF ProtocolInv
    <3> QED BY <3>1, Streams
  <2> QED BY <1>1, <1>5, <2>1, <2>2 DEF InStep
<1>9. ASSUME mishaps = {}
      PROVE  /\ place \in Active \ {"flag", "upload", "uploaded"} => fdb_is_initialized
             /\ place \in (Active \ {"send", "confirm", "save", "write"}) \cup {"unusable", "quitting"}
                  => maps' = oram_state
             /\ place \notin Saving => Describes(oram_state)
             /\ client_socket = c => ~(server = "commit" \/ (server = "receive" /\ up[c] # <<>>))
  <2>1. place \in Active \ {"flag", "upload", "uploaded"} => fdb_is_initialized
    <3>1. place = "ready" => fdb_is_initialized
      BY <1>1, <1>6, <1>7, <1>9
    <3>2. place \in {"blocks", "send", "save"} => fdb_is_initialized
      BY <1>1, <1>6, <1>9 DEF Active
    <3> QED BY <3>1, <3>2 DEF Active
  <2>2. place \notin {"send", "save"} => maps' = oram_state
    BY <1>1, <1>6, <1>9
  <2>3. place # "save" => Describes(oram_state)
    BY <1>1, <1>6, <1>9 DEF Saving
  <2>4. client_socket = c => ~(server = "commit" \/ (server = "receive" /\ up[c] # <<>>))
    BY <1>1, <1>6, <1>8, <1>9
  <2> QED BY <2>1, <2>2, <2>3, <2>4 DEF Saving
<1>10. place \notin {"flag", "uploaded", "write", "last write", "unloaded"}
  OBVIOUS
<1> QED BY <1>2, <1>1, <1>3, <1>5, <1>6, <1>9, <1>10, FileClientMoves

LEMMA FileSaves ==
  ASSUME ProtocolInv, FileInv, NEW c \in Clients, Truncate(c) \/ Write(c)
  PROVE  FileInv'
<1>1. PICK place \in {"write", "last write", "ready", "gone"} :
        /\ client' = [client EXCEPT ![c] = place]
        /\ place = "write" => client[c] = "save"
        /\ place = "last write" => client[c] = "quitting"
        /\ place \in {"write", "last write"} => maps' = maps
        /\ place = "ready" => client[c] = "write" /\ maps' = maps
        /\ place = "gone" => client[c] = "last write"
        /\ place \in {"ready", "gone"} => oram_state' = maps
  BY DEF Truncate, Write, Goto
<1>2. /\ UNCHANGED mishaps /\ UNCHANGED <<server, client_socket, tree, fdb_is_initialized>>
      /\ up' = up /\ down' = down
  BY DEF Truncate, Write, serverVars, fdb, history, streams
<1>3. Running(c)
  BY <1>1 DEF Running
<1>4. /\ \A d \in Clients \ {c} : ~Running(d)
      /\ client[c] # "gone" /\ DownFits(c)
  BY <1>3, FileOf
<1>5. ASSUME mishaps = {}
      PROVE  /\ client[c] \in Active \ {"flag", "upload", "uploaded"} => fdb_is_initialized
             /\ client[c] = "quitting" => maps = oram_state
             /\ client[c] \in {"write", "last write"} => Describes(maps)
             /\ client[c] \notin Saving => Describes(oram_state)
             /\ client_socket = c /\ (server = "commit" \/ (server = "receive" /\ up[c] # <<>>)) =>
                  client[c] = "confirm"
  BY <1>3, <1>5, FileOf
<1>6. ASSUME mishaps = {}
      PROVE  /\ place \in Active \ {"flag", "upload", "uploaded"} => fdb_is_initialized
             /\ place \in (Active \ {"send", "confirm", "save", "write"}) \cup {"unusable", "quitting"}
                  => maps' = oram_state'
             /\ place \in {"write", "last write"} => Describes(maps')
             /\ place \notin Saving => Describes(oram_state')
             /\ client_socket = c => ~(server = "commit" \/ (server = "receive" /\ up'[c] # <<>>))
  <2>1. place \in {"write", "ready"} => fdb_is_initialized
    BY <1>1, <1>5, <1>6 DEF Active
  <2>2. place = "write" => Describes(maps)
    <3>1. place = "write" => maps \in Nat /\ tree = maps
      BY <1>1, <1>4 DEF DownFits
    <3> QED BY <2>1, <3>1 DEF Describes
  <2>3. place = "last write" => Describes(maps)
    BY <1>1, <1>5, <1>6 DEF Saving
  <2>4. place \in {"ready", "gone"} => Describes(oram_state')
    BY <1>1, <1>5, <1>6
  <2>5. client_socket = c => ~(server = "commit" \/ (server = "receive" /\ up'[c] # <<>>))
    BY <1>1, <1>2, <1>5, <1>6
  <2>6. place = "ready" => maps' = oram_state'
    BY <1>1
  <2> QED BY <1>1, <2>1, <2>2, <2>3, <2>4, <2>5, <2>6 DEF Saving, Active
<1>7. place \notin {"flag", "uploaded", "unloaded"}
  OBVIOUS
<1>8. mishaps = {} /\ place \in Active => fdb_is_initialized
  BY <1>6, <1>7 DEF Active
<1> QED BY <1>1, <1>2, <1>4, <1>6, <1>7, <1>8, FileClientMoves

\* A client that has no outcome to save yet stops, or something goes wrong.
LEMMA FileStops ==
  ASSUME ProtocolInv, FileInv, NEW c \in Clients,
         HandshakeFails(c) \/ CallFails(c) \/ Quit(c) \/ Crash(c)
  PROVE  FileInv'
<1>1. PICK place \in {"unusable", "quitting", "gone"} :
        /\ client' = [client EXCEPT ![c] = place]
        /\ place \in {"unusable", "quitting"} => maps' = maps
        /\ mishaps' = {} /\ place = "unusable" =>
             client[c] \in {"flag", "upload", "uploaded", "ready", "leaf", "num", "blocks"}
        /\ mishaps' = {} /\ place = "quitting" =>
             \/ client[c] \in {"ready", "shut down", "unusable"}
             \/ client[c] = "unloaded" /\ oram_state = 0
        /\ mishaps' = {} /\ place = "gone" => client[c] \notin Saving
  <2>1. CASE HandshakeFails(c)
    BY <2>1 DEF HandshakeFails, Goto
  <2>2. CASE CallFails(c)
    <3>1. client[c] \in {"send", "confirm"} => mishaps' # {}
      BY <2>2 DEF CallFails, Mishap
    <3> QED BY <2>2, <3>1 DEF CallFails, Goto
  <2>3. CASE Quit(c)
    <3>1. client[c] = "unloaded" /\ oram_state # 0 => mishaps' # {}
      BY <2>3 DEF Quit, Mishap
    <3> QED BY <2>3, <3>1 DEF Quit, Goto
  <2>4. CASE Crash(c)
    <3>1. client[c] \in Saving => mishaps' # {}
      BY <2>4 DEF Crash, Mishap, Saving
    <3> QED BY <2>4, <3>1 DEF Crash, Goto
  <2> QED BY <2>1, <2>2, <2>3, <2>4
<1>2. /\ Running(c) /\ oram_state' = oram_state
      /\ UNCHANGED <<server, client_socket, tree, fdb_is_initialized>>
  BY DEF HandshakeFails, CallFails, Quit, Crash, Running, serverVars, fdb
<1>3. mishaps' = {} => mishaps = {}
  <2>1. mishaps' = mishaps \/ \E m : mishaps' = mishaps \cup {m}
    BY DEF HandshakeFails, CallFails, Quit, Crash, Mishap, history
  <2> QED BY <2>1
<1>4. up' = up /\ \A d \in Clients \ {c} : down'[d] = down[d]
  <2>1. CASE CallFails(c) \/ Quit(c) \/ Crash(c)
    <3>1. Close("client", c) /\ TypeOK
      BY <2>1 DEF CallFails, Quit, Crash, ProtocolInv
    <3> QED BY <3>1, EndCloses
  <2>2. CASE HandshakeFails(c)
    BY <2>2 DEF HandshakeFails, streams
  <2> QED BY <2>1, <2>2
<1>5. /\ \A d \in Clients \ {c} : ~Running(d)
      /\ client[c] # "gone"
      /\ client[c] = "unloaded" => maps = 0
  BY <1>2, FileOf
<1>6. ASSUME mishaps = {}
      PROVE  /\ client[c] \in {"flag", "upload", "uploaded", "ready", "leaf", "num", "blocks",
                               "shut down", "unusable"} => maps = oram_state
             /\ client[c] \notin Saving => Describes(oram_state)
             /\ client_socket = c /\ (server = "commit" \/ (server = "receive" /\ up[c] # <<>>)) =>
                  client[c] = "confirm"
  BY <1>2, <1>6, FileOf DEF Active
<1>7. mishaps' = {} => client[c] \notin Saving
  BY <1>1 DEF Saving
<1>8. mishaps' = {} /\ place \in {"unusable", "quitting"} => maps' = oram_state'
  BY <1>1, <1>2, <1>3, <1>5, <1>6
<1>9. mishaps' = {} => /\ Describes(oram_state')
                       /\ client_socket = c =>
                            ~(server = "commit" \/ (server = "receive" /\ up'[c] # <<>>))
  BY <1>2, <1>3, <1>4, <1>6, <1>7 DEF Saving
<1>10. place \notin Active /\ place \notin {"flag", "uploaded", "write", "last write", "unloaded"}
  BY DEF Active
<1>11. place \notin Active \ {"flag", "upload", "uploaded"}
       /\ place \notin Active \ {"send", "confirm", "save", "write"}
  BY <1>10
<1> HIDE DEF Active
<1> QED BY <1>1, <1>2, <1>3, <1>4, <1>5, <1>8, <1>9, <1>10, <1>11, FileClientMoves

LEMMA FileStarts ==
  ASSUME ProtocolInv, FileInv, NEW c \in Clients, Starts(c)
  PROVE  FileInv'
<1>1. PICK place \in {"flag", "unloaded"} :
        /\ client' = [client EXCEPT ![c] = place]
        /\ place = "flag" => maps' = oram_state
        /\ place = "unloaded" => maps' = 0
  BY DEF Starts, Connect, InitializeFails, Goto
<1>2. /\ client[c] = "out" /\ \A d \in Clients : ~Running(d)
      /\ oram_state' = oram_state /\ mishaps' = mishaps
      /\ UNCHANGED <<server, client_socket, tree, fdb_is_initialized>>
      /\ up' = up /\ down' = down
  BY DEF Starts, Connect, InitializeFails, fdb, history, streams, serverVars
<1>3. c # client_socket /\ down[c] = <<>>
  BY <1>2 DEF ProtocolInv, LineInv, Untouched
<1>4. mishaps = {} => Describes(oram_state)
  <2>1. \A d \in Clients : client[d] \notin Saving
    BY <1>2 DEF Running, Saving
  <2> QED BY <2>1 DEF FileInv, Saving
<1>5. \A d \in Clients \ {c} : ~Running(d)
  BY <1>2
<1>6. place \notin Active \ {"flag", "upload", "uploaded"} /\ place \notin {"write", "last write"}
      /\ (place \in (Active \ {"send", "confirm", "save", "write"}) \cup {"unusable", "quitting"}
            => maps' = oram_state')
  BY <1>1, <1>2 DEF Active
<1>7. client[c] # "gone" /\ mishaps' = mishaps /\ down'[c] = <<>> /\ oram_state' = oram_state
  BY <1>2, <1>3
<1> QED BY <1>1, <1>2, <1>3, <1>4, <1>5, <1>6, <1>7, FileClientMoves

\* The server hears, or gives up, or starts again.
LEMMA FileServerQuiet ==
  ASSUME ProtocolInv, FileInv,
         UNCHANGED <<client, maps, oram_state, mishaps, down, tree, fdb_is_initialized>>,
         server' \notin {"receive tree", "set flag", "announce", "commit", "receive"}
  PROVE  FileInv'
<1>1. \A n : Describes(n) => Describes(n)'
  BY DEF Describes
<1>2. ASSUME mishaps = {}, NEW c \in Clients, client[c] \in {"flag", "uploaded"}, down'[c] # <<>>,
             down'[c][1] = Flag(TRUE)
      PROVE  fdb_is_initialized'
  BY <1>2 DEF FileInv
<1>3. fdb_is_initialized => fdb_is_initialized'
  OBVIOUS
<1> QED BY <1>1, <1>2, <1>3, FileServerMoves

\* The server sends s to its client.
LEMMA FileServerSends ==
  ASSUME ProtocolInv, FileInv, NEW c \in Clients, c = client_socket, NEW s \in Seq(Token),
         Send("server", c, s), UNCHANGED <<client, client_socket, maps, oram_state, mishaps, tree>>,
         fdb_is_initialized' = fdb_is_initialized,
         server \notin {"listen", "down"},
         server' \notin {"set flag", "commit"},
         server' = "receive tree" => ~fdb_is_initialized,
         server' = "receive" => up[c] = <<>>,
         mishaps = {} =>
           /\ client[c] \in {"flag", "uploaded"} =>
                fdb_is_initialized \/ (down[c] = <<>> /\ s = <<Flag(FALSE)>>)
           /\ server' = "announce" => fdb_is_initialized
  PROVE  FileInv'
<1>1. /\ up' = up /\ \A d \in Clients \ {c} : down'[d] = down[d]
      /\ "client" \in ends[c] => down'[c] = down[c] \o s
  BY ServerAppends DEF ProtocolInv
<1>2. \A n : Describes(n) => Describes(n)'
  BY DEF Describes
<1>3. fdb_is_initialized' <=> fdb_is_initialized
  OBVIOUS
<1>4. ASSUME mishaps = {}, NEW d \in Clients, client[d] \in {"flag", "uploaded"}, down'[d] # <<>>,
             down'[d][1] = Flag(TRUE)
      PROVE  fdb_is_initialized
  <2>1. CASE d # c
    BY <1>1, <1>4, <2>1 DEF FileInv
  <2>2. CASE d = c
    <3>1. SUFFICES ASSUME ~fdb_is_initialized PROVE FALSE
      OBVIOUS
    <3>2. down[c] = <<>> /\ s = <<Flag(FALSE)>>
      BY <1>4, <2>2, <3>1
    <3>3. "client" \in ends[c]
      BY <1>4, <2>2 DEF ProtocolInv, LineInv, Active
    <3>4. down'[c] = <<Flag(FALSE)>>
      BY <1>1, <3>2, <3>3, FlagStreams
    <3>5. <<Flag(FALSE)>>[1] = Flag(FALSE) /\ Flag(FALSE) # Flag(TRUE)
      <4>1. <<Flag(FALSE)>>[1] = Flag(FALSE)
        BY Shapes
      <4>2. <<Flag(TRUE)>> # <<Flag(FALSE)>>
        BY FlagStreams
      <4> QED BY <4>1, <4>2
    <3> QED BY <1>4, <2>2, <3>4, <3>5
  <2> QED BY <2>1, <2>2
<1>5. client_socket' = c /\ up'[c] = up[c]
  BY <1>1
<1> QED BY <1>1, <1>2, <1>3, <1>4, <1>5, FileServerMoves

LEMMA FileServerSpeaks ==
  ASSUME ProtocolInv, FileInv,
         SendFlag \/ Announce \/ SendNum \/ SendBranchToClient \/ Acknowledge
  PROVE  FileInv'
<1>1. server \in {"setup", "announce", "num", "branch", "ack"}
  BY DEF SendFlag, Announce, SendNum, SendBranchToClient, Acknowledge
<1>2. PICK c \in Clients : c = client_socket
  BY <1>1, Served
<1>3. UpFits(c) /\ (client[c] \in {"flag", "uploaded"} => InStep(c))
  BY <1>1, <1>2, Served DEF Active
<1>4. /\ UNCHANGED <<client, client_socket, maps, oram_state, mishaps, tree>>
      /\ fdb_is_initialized' = fdb_is_initialized
  BY DEF SendFlag, Announce, SendNum, SendBranchToClient, Acknowledge, clientVars, fdb, history
<1>5. /\ fdb_is_initialized \in BOOLEAN
      /\ tree \in Nat \cup {Unfinished, Torn}
  BY DEF ProtocolInv, TypeOK, Versions
<1>6. CASE SendFlag
  <2>1. /\ server = "setup" /\ Send("server", c, <<Flag(fdb_is_initialized)>>)
        /\ server' = IF fdb_is_initialized THEN "announce" ELSE "receive tree"
    BY <1>2, <1>6 DEF SendFlag
  <2>2. <<Flag(fdb_is_initialized)>> \in Seq(Token)
    BY <1>5, SmallTokens
  <2>3. client[c] \in {"flag", "uploaded"} =>
          fdb_is_initialized \/ (down[c] = <<>> /\ <<Flag(fdb_is_initialized)>> = <<Flag(FALSE)>>)
    <3>1. SUFFICES ASSUME client[c] \in {"flag", "uploaded"}, ~fdb_is_initialized
                   PROVE  down[c] = <<>> /\ <<Flag(fdb_is_initialized)>> = <<Flag(FALSE)>>
      OBVIOUS
    <3>2. fdb_is_initialized = FALSE
      BY <1>5, <3>1
    <3>3. down[c] = <<>>
      BY <1>3, <2>1, <3>1 DEF InStep
    <3> QED BY <3>2, <3>3
  <2>4. /\ server \notin {"listen", "down"} /\ server' \notin {"set flag", "commit", "receive"}
        /\ server' = "receive tree" => ~fdb_is_initialized
        /\ server' = "announce" => fdb_is_initialized
    BY <2>1
  <2> QED BY <1>2, <1>4, <2>1, <2>2, <2>3, <2>4, FileServerSends
<1>7. CASE Announce
  <2>1. server = "announce" /\ Send("server", c, <<Flag(TRUE)>>) /\ server' = "request"
    BY <1>2, <1>7 DEF Announce
  <2>2. <<Flag(TRUE)>> \in Seq(Token)
    BY SmallTokens
  <2>3. mishaps = {} /\ client[c] \in {"flag", "uploaded"} => fdb_is_initialized
    BY <1>2, <2>1 DEF FileInv, Active
  <2>4. /\ server \notin {"listen", "down"}
        /\ server' \notin {"set flag", "commit", "receive", "receive tree", "announce"}
    BY <2>1
  <2> QED BY <1>2, <1>4, <2>1, <2>2, <2>3, <2>4, FileServerSends
<1>8. CASE SendNum \/ SendBranchToClient \/ Acknowledge
  <2>1. PICK s \in Seq(Token) : Send("server", c, s)
    <3>1. NumBlocks \in Seq(Token) /\ Blocks(tree) \in Seq(Token) /\ <<Id(1)>> \in Seq(Token)
      BY <1>5, SmallTokens, Tokens
    <3> QED BY <1>2, <1>8, <3>1 DEF SendNum, SendBranchToClient, Acknowledge
  <2>2. /\ server \in {"num", "branch", "ack"} /\ server' \in {"branch", "receive", "request"}
        /\ server' = "receive" => server = "branch"
    BY <1>8 DEF SendNum, SendBranchToClient, Acknowledge
  <2>3. client[c] \notin {"flag", "uploaded"}
    BY <1>3, <2>2 DEF InStep
  <2>4. server' = "receive" => up[c] = <<>>
    BY <1>3, <2>2 DEF UpFits
  <2>5. /\ server \notin {"listen", "down"}
        /\ server' \notin {"set flag", "commit", "receive tree", "announce"}
    BY <2>2
  <2> QED BY <1>2, <1>4, <2>1, <2>3, <2>4, <2>5, FileServerSends
<1> QED BY <1>6, <1>7, <1>8

LEMMA FileServerStores ==
  ASSUME ProtocolInv, FileInv,
         ReceiveBucket \/ CommitTree \/ SetFlag \/ SetupFails \/ SetupFdbFails
  PROVE  FileInv'
<1>1. UNCHANGED <<client, maps, oram_state, mishaps, down>>
  <2>1. CASE ReceiveBucket
    <3>1. client_socket \in Clients /\ TypeOK
      BY <2>1, Served DEF ReceiveBucket, ProtocolInv
    <3>2. down' = down
      BY <2>1 DEF ReceiveBucket, Receive
    <3> QED BY <2>1, <3>2 DEF ReceiveBucket, clientVars, history
  <2>2. CASE CommitTree \/ SetFlag \/ SetupFails \/ SetupFdbFails
    BY <2>2 DEF CommitTree, SetFlag, SetupFails, SetupFdbFails, clientVars, history, streams
  <2> QED BY <2>1, <2>2
<1>2. /\ server' \in {"receive tree", "set flag", "announce", "down"}
      /\ server' = "set flag" => tree' = 0
      /\ server' = "announce" => fdb_is_initialized'
  BY DEF ReceiveBucket, CommitTree, SetFlag, SetupFails, SetupFdbFails, Exit
<1>3. \/ /\ server = "receive tree"
         /\ fdb_is_initialized' = fdb_is_initialized
      \/ /\ server = "set flag" /\ fdb_is_initialized' = TRUE /\ tree' = tree
         /\ server' \notin {"receive tree", "set flag"}
      \/ /\ fdb_is_initialized' = fdb_is_initialized /\ tree' = tree
         /\ server' \notin {"receive tree", "set flag"}
  BY DEF ReceiveBucket, CommitTree, SetFlag, SetupFails, SetupFdbFails, Exit, fdb
<1>4. /\ server \in {"receive tree", "set flag"} => ~fdb_is_initialized
      /\ server = "set flag" => tree = 0
  BY DEF FileInv
<1>5. fdb_is_initialized => fdb_is_initialized'
  BY <1>3
<1>6. ASSUME NEW n, Describes(n) PROVE Describes(n)'
  <2>1. CASE server = "receive tree" /\ fdb_is_initialized' = fdb_is_initialized
    BY <1>4, <1>6, <2>1 DEF Describes
  <2>2. CASE server = "set flag" /\ fdb_is_initialized' = TRUE /\ tree' = tree
    BY <1>4, <1>6, <2>2 DEF Describes
  <2>3. CASE fdb_is_initialized' = fdb_is_initialized /\ tree' = tree
    BY <1>6, <2>3 DEF Describes
  <2> QED BY <1>3, <2>1, <2>2, <2>3
<1>7. server' \in {"receive tree", "set flag"} => ~fdb_is_initialized'
  BY <1>3, <1>4
<1>8. ASSUME mishaps = {}, NEW c \in Clients, client[c] \in {"flag", "uploaded"}, down'[c] # <<>>,
             down'[c][1] = Flag(TRUE)
      PROVE  fdb_is_initialized'
  <2>1. fdb_is_initialized
    BY <1>1, <1>8 DEF FileInv
  <2> QED BY <1>5, <2>1
<1>9. server' \notin {"commit", "receive"}
  BY <1>2
<1> QED BY <1>1, <1>2, <1>5, <1>6, <1>7, <1>8, <1>9, FileServerMoves

LEMMA FileServerUpdates ==
  ASSUME ProtocolInv, FileInv, ReceiveUpdatedBlocks \/ CommitBranch \/ FdbFails
  PROVE  FileInv'
<1>1. /\ server \in {"receive", "commit", "branch"}
      /\ server' \in {"commit", "ack", "closing"}
      /\ server' = "commit" => server = "receive" /\ Receive("server", client_socket, BranchBlocks)
      /\ server # "commit" => tree' = tree
      /\ fdb_is_initialized' <=> fdb_is_initialized
      /\ UNCHANGED <<client, maps, oram_state, mishaps, client_socket>>
  BY DEF ReceiveUpdatedBlocks, CommitBranch, FdbFails, clientVars, fdb, history
<1>2. PICK c \in Clients : c = client_socket
  BY <1>1, Served
<1>3. down' = down
  BY DEF ReceiveUpdatedBlocks, CommitBranch, FdbFails, Receive, streams
<1>4. server' = "commit" => up[c] # <<>>
  <2>1. SUFFICES ASSUME server' = "commit" PROVE up[c] # <<>>
    OBVIOUS
  <2>2. TypeOK /\ BranchBlocks \in Nat /\ BranchBlocks >= 1
    BY WireAssumption DEF ProtocolInv
  <2>3. Len(up[c]) >= BranchBlocks
    BY <1>1, <1>2, <2>1, <2>2, ServerDrops
  <2>4. Len(up[c]) \in Nat
    BY <2>2, Streams
  <2>5. Len(up[c]) >= 1
    BY <2>2, <2>3, <2>4
  <2> QED BY <2>2, <2>5, Streams
<1>5. ASSUME mishaps = {}
      PROVE  /\ server = "commit" => client[c] = "confirm"
             /\ server' = "commit" => client[c] = "confirm"
  <2>1. server = "commit" \/ (server = "receive" /\ up[c] # <<>>) => client[c] = "confirm"
    BY <1>2, <1>5 DEF FileInv
  <2> QED BY <1>1, <1>4, <2>1
<1>6. ASSUME mishaps = {}
      PROVE  (\A n : Describes(n) => Describes(n)') \/ \E d \in Clients : client[d] = "confirm"
  <2>1. CASE server = "commit"
    BY <1>5, <1>6, <2>1
  <2>2. CASE server # "commit"
    BY <1>1, <2>2 DEF Describes
  <2> QED BY <2>1, <2>2
<1>7. ASSUME mishaps = {}, NEW d \in Clients, client[d] \in {"flag", "uploaded"}, down'[d] # <<>>,
             down'[d][1] = Flag(TRUE)
      PROVE  fdb_is_initialized'
  BY <1>1, <1>3, <1>7 DEF FileInv
<1>8. server' \notin {"receive tree", "set flag", "announce", "receive"}
      /\ client_socket' = c
  BY <1>1, <1>2
<1> QED BY <1>1, <1>5, <1>6, <1>7, <1>8, FileServerMoves

LEMMA FileClear ==
  ASSUME ProtocolInv, FileInv, ClearFdb
  PROVE  FileInv'
<1>1. /\ fdb_is_initialized' = FALSE
      /\ mishaps' = {} => mishaps = {} /\ oram_state = 0 /\ \A c \in Clients : ~Running(c)
      /\ UNCHANGED <<client, maps, oram_state, up, down, server, client_socket, tree>>
  <2>1. mishaps' = mishaps \cup {"make clear"} => mishaps' # {}
    OBVIOUS
  <2> QED BY <2>1 DEF ClearFdb, Mishap, clientVars, streams, serverVars
<1>2. /\ server' \in {"receive tree", "set flag"} => ~fdb_is_initialized'
      /\ server' = "set flag" => tree' = 0
      /\ \A c \in Clients : client'[c] = "unloaded" => maps' = 0
  BY <1>1 DEF FileInv
<1>3. ASSUME mishaps' = {}
      PROVE  /\ \A c \in Clients : client'[c] \in {"out", "gone"}
             /\ Describes(oram_state)'
             /\ server' = "commit" \/ (server' = "receive" /\ up'[client_socket'] # <<>>) =>
                  client'[client_socket'] = "confirm"
  <2>1. \A c \in Clients : client'[c] \in {"out", "gone"}
    BY <1>1, <1>3 DEF Running
  <2>2. Describes(oram_state)'
    BY <1>1, <1>3 DEF Describes
  <2>3. server = "commit" \/ (server = "receive" /\ up[client_socket] # <<>>) =>
          client[client_socket] = "confirm"
    BY <1>1, <1>3 DEF FileInv
  <2> QED BY <1>1, <2>1, <2>2, <2>3
<1>4. ASSUME mishaps' = {}, server' = "announce" PROVE client'[client_socket'] \notin Active
  <2>1. client_socket \in Clients
    BY <1>1, <1>4, Served
  <2> QED BY <1>1, <1>3, <1>4, <2>1 DEF Active
<1>5. ASSUME mishaps' = {}, NEW c \in Clients
      PROVE  client'[c] \notin Active /\ client'[c] \notin {"flag", "uploaded", "unusable", "quitting",
                                                           "write", "last write"}
  BY <1>3, <1>5 DEF Active
<1> QED BY <1>2, <1>3, <1>4, <1>5 DEF FileInv

LEMMA FileStep == ProtocolInv /\ FileInv /\ [Next]_vars => FileInv'
<1> SUFFICES ASSUME ProtocolInv, FileInv, [Next]_vars PROVE FileInv'
  OBVIOUS
<1>1. ASSUME NEW c \in Clients,
             Starts(c) \/ ClientStep(c) \/ SendRequest(c) \/ CallFails(c)
               \/ Shutdown(c) \/ Quit(c) \/ Crash(c)
      PROVE  FileInv'
  <2>1. CASE Starts(c)
    BY <2>1, FileStarts
  <2>2. CASE UploadBucket(c) \/ SendRequest(c) \/ SendLeaf(c) \/ SendBranch(c) \/ Shutdown(c)
    BY <2>2, FileSends
  <2>3. CASE ReceiveFlag(c) \/ ReceiveSecondFlag(c) \/ ReceiveNum(c) \/ ReceiveBlocks(c)
               \/ ReceiveConfirmation(c)
    BY <2>3, FileReceives
  <2>4. CASE Truncate(c) \/ Write(c)
    BY <2>4, FileSaves
  <2>5. CASE HandshakeFails(c) \/ CallFails(c) \/ Quit(c) \/ Crash(c)
    BY <2>5, FileStops
  <2> QED BY <1>1, <2>1, <2>2, <2>3, <2>4, <2>5 DEF ClientStep
<1>2. CASE SendFlag \/ Announce \/ SendNum \/ SendBranchToClient \/ Acknowledge
  BY <1>2, FileServerSpeaks
<1>3. CASE ReceiveBucket \/ CommitTree \/ SetFlag \/ SetupFails \/ SetupFdbFails
  BY <1>3, FileServerStores
<1>4. CASE ReceiveUpdatedBlocks \/ CommitBranch \/ FdbFails
  BY <1>4, FileServerUpdates
<1>5. CASE Accept \/ ReceiveRequest \/ ClientDisconnected \/ ReceiveLeaf \/ ClientGone
             \/ CloseConnection \/ ServerKilled \/ Restart
  <2>1. UNCHANGED <<client, maps, oram_state, mishaps, tree, fdb_is_initialized>>
    BY <1>5 DEF Accept, ReceiveRequest, ClientDisconnected, ReceiveLeaf, ClientGone, CloseConnection,
         ServerKilled, Restart, clientVars, history, fdb
  <2>2. server' \notin {"receive tree", "set flag", "announce", "commit", "receive"}
    BY <1>5 DEF Accept, ReceiveRequest, ClientDisconnected, ReceiveLeaf, ClientGone, CloseConnection,
         ServerKilled, Restart, Exit
  <2>3. down' = down
    <3>1. CASE Accept \/ ClientDisconnected \/ ClientGone \/ ServerKilled \/ Restart
      BY <3>1 DEF Accept, ClientDisconnected, ClientGone, ServerKilled, Restart, streams
    <3>2. CASE ReceiveRequest \/ ReceiveLeaf \/ CloseConnection
      BY <3>2 DEF ReceiveRequest, ReceiveLeaf, CloseConnection, Receive, Close
    <3> QED BY <1>5, <3>1, <3>2
  <2> QED BY <2>1, <2>2, <2>3, FileServerQuiet
<1>6. CASE ClearFdb
  BY <1>6, FileClear
<1>7. CASE UNCHANGED vars
  <2>1. UNCHANGED <<client, maps, oram_state, up, down, server, client_socket, tree,
                    fdb_is_initialized, mishaps>>
    BY <1>7 DEF vars, clientVars, streams, serverVars, fdb, history
  <2> QED BY <2>1 DEF FileInv, Describes
<1> QED BY <1>1, <1>2, <1>3, <1>4, <1>5, <1>6, <1>7 DEF Next, ServerStep

\* The state file describes the tree whenever no process runs (store_state
\* against send_branch_to_fdb), unless one of four things has happened: a call
\* that failed after its traversal, a crash between sending the branch and the
\* end of store_state, a process that ended without having loaded the file, or
\* make clear.  No other failure, crash or restart, at either end, parts them.
THEOREM FileStaysTrue == Spec => []FileDescribesTreeUnlessMishap
<1>1. Spec => []ProtocolInv
  BY ProtocolInit, ProtocolStep, PTL DEF Spec
<1>2. Spec => []FileInv
  BY <1>1, FileInit, FileStep, PTL DEF Spec
<1>3. ASSUME FileInv PROVE FileDescribesTreeUnlessMishap
  <2>1. SUFFICES ASSUME mishaps = {}, fdb_is_initialized, \A c \in Clients : ~Running(c)
                 PROVE  oram_state = tree
    BY DEF FileDescribesTreeUnlessMishap, FileDescribesTree
  <2>2. \A c \in Clients : client[c] \notin {"confirm", "save", "write", "last write"}
    BY <2>1 DEF Running
  <2>3. Describes(oram_state)
    BY <1>3, <2>1, <2>2 DEF FileInv
  <2> QED BY <2>1, <2>3 DEF Describes
<1> QED BY <1>2, <1>3, PTL
=============================================================================
