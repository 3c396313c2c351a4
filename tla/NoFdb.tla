-------------------------------- MODULE NoFdb --------------------------------
(***************************************************************************)
(* The baseline of the benchmarks: a client that puts, gets and clears     *)
(* Limit keys one after the other, and a server that keeps them in         *)
(* FoundationDB without any tree.                                          *)
(***************************************************************************)
EXTENDS Naturals, Sequences

CONSTANTS Limit, SHUTDOWN

VARIABLES
  client, phase, key,   \* the client: where it is, its operation and key
  server, op,           \* the server: where it is, the operation received
  up, down,             \* the two directions of the connection
  fdb, fdb_failed       \* the keys stored; whether an access has failed

vars == <<client, phase, key, server, op, up, down, fdb, fdb_failed>>

Operations == <<"PUT", "GET", "CLEAR">>

Init ==
  /\ client = "connect" /\ phase = 1 /\ key = 1
  /\ server = "listen" /\ op = SHUTDOWN
  /\ up = <<>> /\ down = <<>>
  /\ fdb = {} /\ fdb_failed = FALSE

Connect ==
  /\ client = "connect" /\ server = "listen"
  /\ client' = "send" /\ server' = "operation"
  /\ UNCHANGED <<phase, key, op, up, down, fdb, fdb_failed>>

\* Operation, key and value.
SendRequest ==
  /\ client = "send" /\ phase <= 3
  /\ up' = up \o IF Operations[phase] = "PUT" THEN <<"PUT", key, "value">>
                                              ELSE <<Operations[phase], key>>
  /\ client' = "wait"
  /\ UNCHANGED <<phase, key, server, op, down, fdb, fdb_failed>>

\* The value of a get, the confirmation of a put or clear.
ReceiveReply ==
  /\ client = "wait" /\ down # <<>>
  /\ down' = Tail(down)
  /\ IF key < Limit THEN key' = key + 1 /\ UNCHANGED phase
                    ELSE key' = 1 /\ phase' = phase + 1
  /\ client' = "send"
  /\ UNCHANGED <<server, op, up, fdb, fdb_failed>>

\* shutdown_fdb_server sends an id of 0 and no key; the process ends.
Shutdown ==
  /\ client = "send" /\ phase = 4
  /\ up' = Append(up, SHUTDOWN)
  /\ client' = "gone"
  /\ UNCHANGED <<phase, key, server, op, down, fdb, fdb_failed>>

Killed ==
  /\ client \in {"send", "wait"}
  /\ client' = "gone"
  /\ UNCHANGED <<phase, key, server, op, up, down, fdb, fdb_failed>>

-----------------------------------------------------------------------------
ReceiveOperation ==
  /\ server = "operation" /\ up # <<>>
  /\ op' = Head(up) /\ up' = Tail(up)
  /\ server' = "key"
  /\ UNCHANGED <<client, phase, key, down, fdb, fdb_failed>>

Put ==
  /\ server = "key" /\ op = "PUT" /\ Len(up) >= 2
  /\ fdb' = fdb \cup {Head(up)}
  /\ up' = SubSeq(up, 3, Len(up))
  /\ server' = "confirmation"
  /\ UNCHANGED <<client, phase, key, op, down, fdb_failed>>

\* A key that is not there has a value of zeroes.
Get ==
  /\ server = "key" /\ op = "GET" /\ up # <<>>
  /\ up' = Tail(up)
  /\ down' = Append(down, Head(up) \in fdb)
  /\ server' = "operation"
  /\ UNCHANGED <<client, phase, key, op, fdb, fdb_failed>>

Clear ==
  /\ server = "key" /\ op = "CLEAR" /\ up # <<>>
  /\ fdb' = fdb \ {Head(up)}
  /\ up' = Tail(up)
  /\ server' = "confirmation"
  /\ UNCHANGED <<client, phase, key, op, down, fdb_failed>>

Exit ==
  /\ server = "key" /\ op = SHUTDOWN /\ up # <<>>
  /\ server' = "down"
  /\ UNCHANGED <<client, phase, key, op, up, down, fdb, fdb_failed>>

\* The server, too, waits for a confirmation.
ReceiveConfirmation ==
  /\ server = "confirmation" /\ up # <<>>
  /\ up' = Tail(up)
  /\ server' = IF Head(up) = 1 THEN "operation" ELSE "listen"
  /\ UNCHANGED <<client, phase, key, op, down, fdb, fdb_failed>>

\* The error paths go back to accept and leave the connection open.
FdbFails ==
  /\ server = "key" /\ op # SHUTDOWN /\ up # <<>>
  /\ fdb_failed' = TRUE
  /\ server' = "listen"
  /\ UNCHANGED <<client, phase, key, op, up, down, fdb>>

ClientGone ==
  /\ server \in {"operation", "key", "confirmation"} /\ client = "gone" /\ up = <<>>
  /\ server' = "listen"
  /\ UNCHANGED <<client, phase, key, op, up, down, fdb, fdb_failed>>

-----------------------------------------------------------------------------
Step ==
  \/ SendRequest \/ ReceiveReply \/ Shutdown
  \/ ReceiveOperation \/ Put \/ Get \/ Clear \/ Exit \/ ReceiveConfirmation \/ ClientGone

Next == Connect \/ Killed \/ FdbFails \/ Step

\* Client and server go on as long as they can.
FairSpec == Init /\ [][Next]_vars /\ WF_vars(Step)

\* Both ends call the byte that ends a put "confirm put success": a call
\* returns once FoundationDB has stored the value.
CallsReturn == client = "wait" ~> client # "wait" \/ fdb_failed
=============================================================================
