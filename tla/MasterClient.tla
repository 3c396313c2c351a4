---------------------------- MODULE MasterClient ----------------------------
(***************************************************************************)
(* The master client and the calls of the multi clients that share it.     *)
(* Every call of MultiClient opens a connection of its own, sends its      *)
(* request part by part and reads the answer; the master accepts one       *)
(* connection at a time and serves it with its one SingleClient, range     *)
(* operations key by key.  A connection that both ends are done with is    *)
(* used again, so that calls never run out.                                *)
(*                                                                         *)
(* SingleClient's calls are taken as PathOram shows them to be while the   *)
(* connection to the server works: put, get and clear of one key.  When    *)
(* that connection breaks, the call in progress may or may not have        *)
(* reached the store; SingleClient closes its descriptor and keeps the     *)
(* number, and the next connection the master accepts gets that number.    *)
(* The master is started once, on an empty store and a running server.     *)
(* The request ids of multi clients are taken to differ from the bytes     *)
(* that reach them by mistake.                                             *)
(***************************************************************************)
EXTENDS StoreCalls, FiniteSetsExt, Sequences

CONSTANTS
  Calls,      \* the calls that can be in progress at a time
  Requests,   \* what a call may ask for
  None

Keys == {r.first : r \in Requests} \cup {r.last : r \in Requests}
Data == {r.value : r \in Requests}

Results == [ok : BOOLEAN, values : Seq(Data)]

\* An application names the ends of a range in their order: nothing in the
\* code looks at it, and SingleClient's loop over an inverted range would
\* not find its end.
ASSUME RequestsAssumption ==
  /\ IsFiniteSet(Requests)
  /\ \A r \in Requests :
       /\ r = Request(r.op, r.first, r.last, r.value)
       /\ r.op \in {"READ", "WRITE", "CLEAR", "READ_RANGE", "CLEAR_RANGE"}
       /\ r.first \in Nat /\ r.last \in Nat
       /\ IF r.op \in {"READ_RANGE", "CLEAR_RANGE"} THEN r.first <= r.last
                                                   ELSE r.first = r.last

ASSUME NoneAssumption == None \notin Calls \cup Requests \cup Results

VARIABLES
  \* each call: where it is, what it asks for, the parts of it sent, the
  \* values read, how many are still to be read, and what it returns
  caller, request, sent, received, wanted, outcome,
  \* each connection: the parts the master has read, what the master has
  \* sent and the call not read, whether the master has closed it
  taken, answer, closed,
  \* the connections to accept
  backlog,
  \* the master: where it is, whom it serves, the keys of a range still to
  \* be read, the values to be sent
  master, client_socket, todo, blocks,
  \* SingleClient: what socket_fd names, the keys it knows, and the values
  \* stored under them
  socket_fd, key_to_block_id, store,
  \* history: what SingleClient has done for a call
  executed

callVars   == <<caller, request, sent, received, wanted, outcome>>
connection == <<taken, answer, closed>>
masterVars == <<master, client_socket, todo, blocks>>
oram       == <<socket_fd, key_to_block_id, store>>
vars == <<callVars, connection, backlog, masterVars, oram, executed>>

-----------------------------------------------------------------------------
\* The first part is the request id, the operation and a key, the second
\* another key or a value.
PartsSent(op)  == IF op \in {"READ", "CLEAR"} THEN 1 ELSE 2

\* clear_range sends the operation CLEAR.
Operation(r)   == IF r.op = "CLEAR_RANGE" THEN "CLEAR" ELSE r.op
PartsTaken(op) == IF op \in {"READ", "CLEAR"} THEN 1 ELSE 2

Token(kind, value) == [kind |-> kind, value |-> value]
Confirmation       == Token("id", None)

\* The id and the leaf that SingleClient sends to the wrong descriptor.
Stray              == Token("stray", None)

Init ==
  /\ caller = [c \in Calls |-> "new"] /\ request = [c \in Calls |-> None]
  /\ sent = [c \in Calls |-> 0] /\ received = [c \in Calls |-> <<>>]
  /\ wanted = [c \in Calls |-> 0] /\ outcome = [c \in Calls |-> None]
  /\ taken = [c \in Calls |-> 0] /\ answer = [c \in Calls |-> <<>>]
  /\ closed = [c \in Calls |-> FALSE]
  /\ backlog = <<>>
  /\ master = "accept" /\ client_socket = None /\ todo = {} /\ blocks = <<>>
  /\ socket_fd = "server"
  /\ key_to_block_id = {} /\ store = <<>>
  /\ executed = [c \in Calls |-> None]

-----------------------------------------------------------------------------
(***************************************************************************)
(* A call of MultiClient.                                                  *)
(***************************************************************************)
Goto(c, place) == caller' = [caller EXCEPT ![c] = place]

\* The kernel completes the connection.  Without a master nothing happens.
Connect(c) ==
  /\ caller[c] = "new" /\ master # "dead"
  /\ \E r \in Requests : request' = [request EXCEPT ![c] = r]
  /\ Goto(c, "sending")
  /\ backlog' = Append(backlog, c)
  /\ UNCHANGED <<sent, received, wanted, outcome, connection, masterVars, oram, executed>>

SendPart(c) ==
  /\ caller[c] = "sending"
  /\ sent' = [sent EXCEPT ![c] = @ + 1]
  /\ LET op == request[c].op IN
     /\ wanted' = [wanted EXCEPT ![c] = IF op = "READ" THEN 1 ELSE 0]
     /\ Goto(c, IF sent'[c] < PartsSent(op) THEN "sending"
                ELSE CASE op = "READ"       -> "value"
                       [] op = "READ_RANGE" -> "number"
                       [] OTHER             -> "confirm")
  /\ UNCHANGED <<request, received, outcome, connection, backlog, masterVars, oram, executed>>

Arrived(c, kind) == answer[c] # <<>> /\ Head(answer[c]).kind = kind

Take(c) == answer' = [answer EXCEPT ![c] = Tail(@)]

ReceiveNumber(c) ==
  /\ caller[c] = "number" /\ Arrived(c, "number")
  /\ wanted' = [wanted EXCEPT ![c] = Head(answer[c]).value]
  /\ Goto(c, IF wanted'[c] = 0 THEN "confirm" ELSE "value")
  /\ Take(c)
  /\ UNCHANGED <<request, sent, received, outcome, taken, closed, backlog, masterVars, oram,
                 executed>>

ReceiveValue(c) ==
  /\ caller[c] = "value" /\ Arrived(c, "value")
  /\ received' = [received EXCEPT ![c] = Append(@, Head(answer[c]).value)]
  /\ wanted' = [wanted EXCEPT ![c] = @ - 1]
  /\ Goto(c, IF wanted[c] = 1 THEN "confirm" ELSE "value")
  /\ Take(c)
  /\ UNCHANGED <<request, sent, outcome, taken, closed, backlog, masterVars, oram, executed>>

\* The socket is closed; what has not been read is lost.
End(c, place) ==
  /\ Goto(c, place)
  /\ received' = [received EXCEPT ![c] = <<>>] /\ wanted' = [wanted EXCEPT ![c] = 0]
  /\ answer' = [answer EXCEPT ![c] = <<>>]
  /\ UNCHANGED <<request, sent, taken, closed, backlog, masterVars, oram, executed>>

ReceiveConfirmation(c) ==
  /\ caller[c] = "confirm" /\ Arrived(c, "id")
  /\ outcome' = [outcome EXCEPT ![c] = Success(received[c])]
  /\ End(c, "returned")

\* With a blkid_t of two bytes or more, id and leaf fill the four bytes of
\* the number: read_range then waits for as many values.
Misread(c) ==
  /\ caller[c] = "number" /\ Arrived(c, "stray")
  /\ Goto(c, "misled")
  /\ Take(c)
  /\ UNCHANGED <<request, sent, received, wanted, outcome, taken, closed, backlog, masterVars,
                 oram, executed>>

\* recv reports the end of the connection once everything has been read; it
\* may do so earlier when the master closed without reading everything.
EndOfAnswer(c) == closed[c] /\ (answer[c] = <<>> \/ taken[c] < sent[c])

\* What arrived is not what was asked for: a stray id, or, because recv does
\* not wait for the whole of it, a piece of a value.
Unusable(c) ==
  \/ caller[c] \in {"number", "value", "confirm"} /\ Arrived(c, "stray")
  \/ caller[c] = "value" /\ Arrived(c, "value")

Begun(c) == caller[c] \in {"sending", "number", "value", "confirm", "misled"}

CallFails(c) ==
  /\ Begun(c)
  /\ EndOfAnswer(c) \/ Unusable(c)
  /\ outcome' = [outcome EXCEPT ![c] = Failed]
  /\ End(c, "returned")

\* The application is killed, for one by SIGPIPE when it sends a part to a
\* master that has closed the connection.
CallerKilled(c) ==
  /\ Begun(c)
  /\ End(c, "killed")
  /\ UNCHANGED outcome

\* The application goes on to its next call, or another one to its first.
NextCall(c) ==
  /\ caller[c] \in {"returned", "killed"} /\ closed[c] /\ client_socket # c
  /\ Goto(c, "new")
  /\ request' = [request EXCEPT ![c] = None] /\ outcome' = [outcome EXCEPT ![c] = None]
  /\ sent' = [sent EXCEPT ![c] = 0] /\ taken' = [taken EXCEPT ![c] = 0]
  /\ closed' = [closed EXCEPT ![c] = FALSE] /\ executed' = [executed EXCEPT ![c] = None]
  /\ UNCHANGED <<received, wanted, answer, backlog, masterVars, oram>>

-----------------------------------------------------------------------------
(***************************************************************************)
(* The master accepts a connection and reads the request.                  *)
(***************************************************************************)
Gone == caller[client_socket] \in {"returned", "killed"}
Now  == request[client_socket]
Op   == Operation(Now)

CloseSocket ==
  /\ closed' = [closed EXCEPT ![client_socket] = TRUE]
  /\ client_socket' = None
  /\ master' = "accept"

\* A descriptor that named the connection now being closed names nothing.
Released == IF socket_fd = "client" THEN "closed" ELSE socket_fd

\* accept returns the lowest free number.
Accept ==
  /\ master = "accept" /\ backlog # <<>>
  /\ client_socket' = Head(backlog) /\ backlog' = Tail(backlog)
  /\ socket_fd' = IF socket_fd = "closed" THEN "client" ELSE socket_fd
  /\ master' = "receive"
  /\ UNCHANGED <<callVars, connection, todo, blocks, key_to_block_id, store, executed>>

ReceivePart_NoWait ==
  /\ master = "receive"
  /\ taken' = [taken EXCEPT ![client_socket] = @ + 1]
  /\ IF taken'[client_socket] = PartsTaken(Op)
     THEN /\ master' = "call"
          /\ todo' = IF Op = "READ_RANGE" THEN Between(key_to_block_id, Now) ELSE {}
     ELSE UNCHANGED <<master, todo>>
  /\ UNCHANGED <<callVars, answer, closed, backlog, client_socket, blocks, oram, executed>>

ReceivePart ==
  /\ master = "receive" /\ taken[client_socket] < sent[client_socket]
  /\ taken' = [taken EXCEPT ![client_socket] = @ + 1]
  /\ IF taken'[client_socket] = PartsTaken(Op)
     THEN /\ master' = "call"
          /\ todo' = IF Op = "READ_RANGE" THEN Between(key_to_block_id, Now) ELSE {}
     ELSE UNCHANGED <<master, todo>>
  /\ UNCHANGED <<callVars, answer, closed, backlog, client_socket, blocks, oram, executed>>

ReceiveFails_Retries ==
  /\ master = "receive"
  /\ Gone /\ taken[client_socket] = sent[client_socket]
  /\ UNCHANGED vars

\* The call has gone, or one recv of a part (id, size of a key, key, value)
\* returned a piece of it: none of them waits for the whole.
ReceiveFails ==
  /\ master = "receive"
  /\ \/ Gone /\ taken[client_socket] = sent[client_socket]
     \/ taken[client_socket] < sent[client_socket]
  /\ CloseSocket
  /\ socket_fd' = Released
  /\ UNCHANGED <<callVars, taken, answer, backlog, todo, blocks, key_to_block_id, store, executed>>

-----------------------------------------------------------------------------
(***************************************************************************)
(* SingleClient executes the request.                                      *)
(***************************************************************************)
Knows == Now.first \in key_to_block_id

Executed(s) == executed' = [executed EXCEPT ![client_socket] = s]

Stored  == With(store, Now.first, Now.value)
Cleared == Without(store, {Now.first})

Put ==
  /\ master = "call" /\ Op = "WRITE" /\ socket_fd = "server"
  /\ key_to_block_id' = key_to_block_id \cup {Now.first}
  /\ store' = Stored
  /\ Executed(Success(<<>>))
  /\ master' = "confirm"
  /\ UNCHANGED <<callVars, connection, backlog, client_socket, todo, blocks, socket_fd>>

Get ==
  /\ master = "call" /\ Op = "READ" /\ Knows /\ socket_fd = "server"
  /\ blocks' = <<store[Now.first]>>
  /\ Executed(Success(blocks'))
  /\ master' = "values"
  /\ UNCHANGED <<callVars, connection, backlog, client_socket, todo, oram>>

GetUnknownKey ==
  /\ master = "call" /\ Op = "READ" /\ ~Knows
  /\ CloseSocket
  /\ socket_fd' = Released
  /\ UNCHANGED <<callVars, taken, answer, backlog, todo, blocks, key_to_block_id, store, executed>>

Clear_KeepsKey ==
  /\ master = "call" /\ Op = "CLEAR" /\ Knows /\ socket_fd = "server"
  /\ store' = Cleared
  /\ Executed(Success(<<>>))
  /\ master' = "confirm"
  /\ UNCHANGED <<callVars, connection, backlog, client_socket, todo, blocks, socket_fd,
                 key_to_block_id>>

Clear ==
  /\ master = "call" /\ Op = "CLEAR" /\ Knows /\ socket_fd = "server"
  /\ key_to_block_id' = key_to_block_id \ {Now.first}
  /\ store' = Cleared
  /\ Executed(Success(<<>>))
  /\ master' = "confirm"
  /\ UNCHANGED <<callVars, connection, backlog, client_socket, todo, blocks, socket_fd>>

ClearUnknownKey ==
  /\ master = "call" /\ Op = "CLEAR" /\ ~Knows
  /\ Executed(Success(<<>>))
  /\ master' = "confirm"
  /\ UNCHANGED <<callVars, connection, backlog, client_socket, todo, blocks, oram>>

GetNext_Backwards ==
  /\ master = "call" /\ todo # {} /\ socket_fd = "server"
  /\ blocks' = Append(blocks, store[Max(todo)])
  /\ todo' = todo \ {Max(todo)}
  /\ UNCHANGED <<callVars, connection, backlog, master, client_socket, oram, executed>>

\* read_range gets the keys one by one.
GetNext ==
  /\ master = "call" /\ todo # {} /\ socket_fd = "server"
  /\ blocks' = Append(blocks, store[Min(todo)])
  /\ todo' = todo \ {Min(todo)}
  /\ UNCHANGED <<callVars, connection, backlog, master, client_socket, oram, executed>>

EndOfRange ==
  /\ master = "call" /\ Op = "READ_RANGE" /\ todo = {}
  /\ Executed(Success(blocks))
  /\ master' = "number"
  /\ UNCHANGED <<callVars, connection, backlog, client_socket, todo, blocks, oram>>

NeedsServer ==
  \/ Op = "WRITE"
  \/ Op \in {"READ", "CLEAR"} /\ Knows
  \/ todo # {}

\* put enters its key before anything is sent.
Entered == IF Op = "WRITE" THEN key_to_block_id \cup {Now.first} ELSE key_to_block_id

\* The kernel closes all descriptors; what the process knew is gone.
Die ==
  /\ master' = "dead"
  /\ client_socket' = None
  /\ backlog' = <<>>
  /\ closed' = [c \in Calls |-> caller[c] # "new"]
  /\ socket_fd' = "closed" /\ key_to_block_id' = {}

\* The connection to the server breaks, before or after the server has done
\* its part.  The call returns -1, or SIGPIPE ends the master.
SingleClientFails ==
  /\ master = "call" /\ NeedsServer /\ socket_fd = "server"
  /\ \/ UNCHANGED <<store, executed>>
     \/ /\ Op \in {"WRITE", "CLEAR"}
        /\ store' = IF Op = "WRITE" THEN Stored ELSE Cleared
        /\ Executed(Failed)
  /\ \/ /\ key_to_block_id' = Entered
        /\ socket_fd' = "closed"
        /\ CloseSocket /\ UNCHANGED backlog
     \/ Die
  /\ todo' = {} /\ blocks' = <<>>
  /\ UNCHANGED <<callVars, taken, answer>>

\* SingleClient sends id and leaf to the multi client and waits for the
\* number of blocks.
TalkToCaller ==
  /\ master = "call" /\ NeedsServer /\ socket_fd = "client"
  /\ key_to_block_id' = Entered
  /\ answer' = [answer EXCEPT ![client_socket] = IF Gone THEN @ ELSE Append(@, Stray)]
  /\ todo' = {}
  /\ master' = "num"
  /\ UNCHANGED <<callVars, taken, closed, backlog, client_socket, blocks, socket_fd, store,
                 executed>>

\* The call has gone, or left bytes too few for that number.
NoNum ==
  /\ master = "num"
  /\ Gone \/ taken[client_socket] < sent[client_socket]
  /\ CloseSocket
  /\ socket_fd' = Released
  /\ UNCHANGED <<callVars, taken, answer, backlog, todo, blocks, key_to_block_id, store, executed>>

-----------------------------------------------------------------------------
(***************************************************************************)
(* The master answers.                                                     *)
(***************************************************************************)
Answer(token) ==
  /\ ~closed[client_socket]
  /\ answer' = [answer EXCEPT ![client_socket] = IF Gone THEN @ ELSE Append(@, token)]

SendNumber ==
  /\ master = "number"
  /\ Answer(Token("number", Len(blocks)))
  /\ master' = IF blocks = <<>> THEN "confirm" ELSE "values"
  /\ UNCHANGED <<callVars, taken, closed, backlog, client_socket, todo, blocks, oram, executed>>

NextValue ==
  /\ blocks' = Tail(blocks)
  /\ master' = IF Len(blocks) = 1 THEN "confirm" ELSE "values"

SendValue ==
  /\ master = "values"
  /\ Answer(Token("value", Head(blocks)))
  /\ NextValue
  /\ UNCHANGED <<callVars, taken, closed, backlog, client_socket, todo, oram, executed>>

\* The continue of a failed send of READ_RANGE goes on with the loop over
\* the values, on the closed socket.
SendValueFails ==
  /\ master = "values" /\ Op = "READ_RANGE" /\ Gone
  /\ closed' = [closed EXCEPT ![client_socket] = TRUE]
  /\ NextValue
  /\ UNCHANGED <<callVars, taken, answer, backlog, client_socket, todo, oram, executed>>

Confirm ==
  /\ master = "confirm"
  /\ Answer(Confirmation)
  /\ master' = "close"
  /\ UNCHANGED <<callVars, taken, closed, backlog, client_socket, todo, blocks, oram, executed>>

\* Any other failed send, and the end of every request.
Disconnect ==
  /\ \/ master = "close"
     \/ master \in {"number", "confirm"} /\ Gone
     \/ master = "values" /\ Op = "READ" /\ Gone
  /\ CloseSocket
  /\ blocks' = <<>>
  /\ socket_fd' = Released
  /\ UNCHANGED <<callVars, taken, answer, backlog, todo, key_to_block_id, store, executed>>

\* At any time, for one by SIGPIPE when it sends to a call that has gone.
MasterKilled ==
  /\ master # "dead"
  /\ Die
  /\ todo' = {} /\ blocks' = <<>>
  /\ UNCHANGED <<callVars, taken, answer, store, executed>>

-----------------------------------------------------------------------------
\* The steps of a call once it has begun.
CallStep(c) ==
  \/ SendPart(c) \/ ReceiveNumber(c) \/ ReceiveValue(c) \/ ReceiveConfirmation(c)
  \/ Misread(c) \/ CallFails(c)

MasterStep ==
  \/ Accept \/ ReceivePart \/ ReceiveFails
  \/ Put \/ Get \/ GetUnknownKey \/ Clear \/ ClearUnknownKey \/ GetNext \/ EndOfRange
  \/ SingleClientFails \/ TalkToCaller \/ NoNum
  \/ SendNumber \/ SendValue \/ SendValueFails \/ Confirm \/ Disconnect

Next ==
  \/ \E c \in Calls : Connect(c) \/ CallStep(c) \/ CallerKilled(c) \/ NextCall(c)
  \/ MasterStep \/ MasterKilled

Spec == Init /\ [][Next]_vars

\* Applications and the master go on as long as they run, and SingleClient's
\* calls return (OramWire!CallsReturn: the master found the store empty).
FairSpec ==
  /\ Spec
  /\ WF_vars(MasterStep)
  /\ \A c \in Calls : WF_vars(CallStep(c))

-----------------------------------------------------------------------------
(***************************************************************************)
(* Correctness.                                                            *)
(***************************************************************************)
CallType ==
  /\ caller \in [Calls -> {"new", "sending", "number", "value", "confirm", "misled",
                           "returned", "killed"}]
  /\ request \in [Calls -> Requests \cup {None}]
  /\ \A c \in Calls : (request[c] = None) = (caller[c] = "new")
  /\ sent \in [Calls -> 0 .. 2]
  /\ received \in [Calls -> Seq(Data)]
  /\ wanted \in [Calls -> 0 .. Cardinality(Keys)]
  /\ outcome \in [Calls -> Results \cup {None}]

ConnectionType ==
  /\ taken \in [Calls -> 0 .. 2]
  /\ \A c \in Calls : taken[c] <= sent[c]
  /\ answer \in [Calls -> Seq([kind : {"number", "value", "id", "stray"},
                               value : Nat \cup Data \cup {None}])]
  /\ closed \in [Calls -> BOOLEAN]
  /\ backlog \in Seq(Calls)

MasterType ==
  /\ master \in {"accept", "receive", "call", "num", "number", "values", "confirm", "close",
                 "dead"}
  /\ client_socket \in Calls \cup {None}
  /\ (client_socket = None) = (master \in {"accept", "dead"})
  /\ todo \subseteq Keys /\ blocks \in Seq(Data)
  /\ socket_fd \in {"server", "closed", "client"}
  /\ key_to_block_id \subseteq Keys
  /\ DOMAIN store \subseteq Keys /\ store \in [DOMAIN store -> Data]
  /\ executed \in [Calls -> Results \cup {None}]

\* Every variable holds a value of its type; the master never reads more
\* than has been sent to it.
TypeOK == CallType /\ ConnectionType /\ MasterType

\* Whatever calls came and failed, SingleClient knows every key that has a
\* value in the store, and knows no other as long as its connection lasts:
\* no value is out of reach, and get of a known key finds one.
KeysMatchStore ==
  master # "dead" =>
  /\ DOMAIN store \subseteq key_to_block_id
  /\ socket_fd = "server" => DOMAIN store = key_to_block_id

\* How a call looks to its application: it has taken effect once SingleClient
\* has done it, whether or not the call will learn of it.
CallState(c) ==
  CASE caller[c] = "new"      -> [state |-> "new"]
    [] caller[c] = "returned" ->
         [state |-> "returned", request |-> request[c], result |-> outcome[c]]
    [] caller[c] # "new" /\ caller[c] # "returned" /\ executed[c] # None ->
         [state |-> "answered", request |-> request[c], result |-> executed[c]]
    [] OTHER                  -> [state |-> "pending", request |-> request[c]]

Shared == INSTANCE SharedStore WITH call <- [c \in Calls |-> CallState(c)]

\* Calls that overlap, fail, are killed or are served by a master that dies
\* behave like calls of one shared store: a call that returns 0 has taken
\* effect at one instant, with the values of that instant, and one that has
\* returned -1 never takes effect afterwards.
ImplementsSharedStore == Shared!Spec

\* Every call returns, unless a read_range has taken SingleClient's id for
\* the number of values: it and the master then wait for each other.
CallsReturn ==
  \A c \in Calls : caller[c] = "sending" ~>
    \/ caller[c] \in {"returned", "killed"}
    \/ \E d \in Calls : caller[d] = "misled"

\* clear_range "clears a range of blocks" (README.md): when the master is
\* about to confirm it, no key of the range has a value.
ClearRangeClears ==
  master = "confirm" /\ Now.op = "CLEAR_RANGE" /\ socket_fd = "server" =>
    Between(DOMAIN store, Now) = {}
=============================================================================
