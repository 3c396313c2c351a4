-------------------------- MODULE MasterClientProofs --------------------------
(***************************************************************************)
(* Theorems about MasterClient for any number of calls and any requests.   *)
(***************************************************************************)
EXTENDS MasterClient, StoreCallsProofs

\* A call of SingleClient that fails may have entered its key and may have
\* changed the store, but never stores under a key it has not entered.
LEMMA FailureKeepsKeys ==
  ASSUME KeysMatchStore, SingleClientFails
  PROVE  KeysMatchStore'
<1>1. DOMAIN store \subseteq key_to_block_id
  BY DEF KeysMatchStore, SingleClientFails
<1>2. CASE Die
  BY <1>2 DEF Die, KeysMatchStore
<1>3. CASE key_to_block_id' = Entered /\ socket_fd' = "closed"
  <2>1. key_to_block_id \subseteq Entered
    BY DEF Entered
  <2>2. DOMAIN Cleared \subseteq DOMAIN store
    <3>1. DOMAIN Cleared = DOMAIN store \ {Now.first}
      BY WithoutDomain, Zenon DEF Cleared
    <3>. QED  BY <3>1
  <2>3. Op = "WRITE" => DOMAIN Stored \subseteq Entered
    <3>1. DOMAIN Stored = DOMAIN store \cup {Now.first}
      BY WithDomain, Zenon DEF Stored
    <3>. QED  BY <1>1, <3>1 DEF Entered
  <2>4. DOMAIN store' \subseteq Entered
    <3>1. CASE UNCHANGED <<store, executed>>
      BY <1>1, <2>1, <3>1
    <3>2. CASE store' = IF Op = "WRITE" THEN Stored ELSE Cleared
      BY <1>1, <2>1, <2>2, <2>3, <3>2
    <3>. QED  BY <3>1, <3>2 DEF SingleClientFails
  <2>. QED  BY <1>3, <2>4 DEF KeysMatchStore
<1>. QED  BY <1>2, <1>3 DEF SingleClientFails

LEMMA KeysStep ==
  ASSUME KeysMatchStore, [Next]_vars
  PROVE  KeysMatchStore'
<1>1. ASSUME UNCHANGED <<key_to_block_id, store>>, master # "dead",
             socket_fd' = "server" => socket_fd = "server"
      PROVE  KeysMatchStore'
  BY <1>1 DEF KeysMatchStore
<1>2. CASE UNCHANGED vars
  BY <1>2 DEF KeysMatchStore, vars, masterVars, oram
<1>3. ASSUME NEW c \in Calls, Connect(c) \/ CallStep(c) \/ CallerKilled(c) \/ NextCall(c)
      PROVE  KeysMatchStore'
  <2>1. CASE Connect(c) \/ CallerKilled(c) \/ NextCall(c) \/ SendPart(c) \/ Misread(c)
    BY <2>1 DEF Connect, CallerKilled, NextCall, SendPart, Misread, End, KeysMatchStore,
       masterVars, oram
  <2>2. CASE ReceiveNumber(c) \/ ReceiveValue(c) \/ ReceiveConfirmation(c) \/ CallFails(c)
    BY <2>2 DEF ReceiveNumber, ReceiveValue, ReceiveConfirmation, CallFails, End,
       KeysMatchStore, masterVars, oram
  <2>. QED  BY <1>3, <2>1, <2>2 DEF CallStep
<1>4. CASE Put
  BY <1>4, WithDomain DEF Put, Stored, KeysMatchStore
<1>5. CASE Clear
  BY <1>5, WithoutDomain DEF Clear, Cleared, KeysMatchStore
<1>6. CASE SingleClientFails
  BY <1>6, FailureKeepsKeys
<1>7. CASE TalkToCaller
  BY <1>7 DEF TalkToCaller, Entered, KeysMatchStore
<1>8. CASE MasterKilled
  BY <1>8 DEF MasterKilled, Die, KeysMatchStore
<1>9. CASE Get \/ ClearUnknownKey \/ GetNext \/ EndOfRange \/ ReceivePart
  BY <1>1, <1>9 DEF Get, ClearUnknownKey, GetNext, EndOfRange, ReceivePart, oram
<1>10. CASE SendNumber \/ SendValue \/ SendValueFails \/ Confirm
  BY <1>1, <1>10 DEF SendNumber, SendValue, SendValueFails, Confirm, oram
<1>11. CASE Accept \/ ReceiveFails \/ GetUnknownKey \/ NoNum \/ Disconnect
  BY <1>1, <1>11 DEF Accept, ReceiveFails, GetUnknownKey, NoNum, Disconnect, Released
<1>. QED
  BY <1>2, <1>3, <1>4, <1>5, <1>6, <1>7, <1>8, <1>9, <1>10, <1>11 DEF Next, MasterStep

\* Whatever calls come, fail, are killed or meet a dying master, for any
\* number of them: every stored value is under a key that SingleClient
\* knows, and while its connection lasts it knows no others.
THEOREM KeysAlwaysMatch == Spec => []KeysMatchStore
<1>1. Init => KeysMatchStore
  BY DEF Init, KeysMatchStore
<1>2. KeysMatchStore /\ [Next]_vars => KeysMatchStore'
  BY KeysStep
<1>. QED  BY <1>1, <1>2, PTL DEF Spec
-----------------------------------------------------------------------------
(***************************************************************************)
(* The protocol between a call, the master and SingleClient.               *)
(***************************************************************************)
Served(c, places) == client_socket = c /\ master \in places

\* SingleClient has not touched its request, and still may.
Waiting(c) == c \in Range(backlog) \/ Served(c, {"receive", "call"})

Done(c) == executed[c] # None /\ executed[c].ok

\* Where a call waits first once its request is sent.
FirstWait(r) ==
  IF r.op = "READ" THEN "value" ELSE IF r.op = "READ_RANGE" THEN "number" ELSE "confirm"

CallInv(c) ==
  /\ caller[c] = "new" => /\ sent[c] = 0 /\ taken[c] = 0
                          /\ executed[c] = None /\ ~closed[c] /\ client_socket # c
  /\ caller[c] \in {"new", "returned", "killed"} => received[c] = <<>> /\ answer[c] = <<>>
  /\ caller[c] = "sending" => sent[c] < PartsSent(request[c].op)
  /\ caller[c] # "value" => wanted[c] = 0

WaitingInv(c) ==
  Waiting(c) => /\ caller[c] \notin {"new", "returned", "misled"}
                /\ executed[c] = None /\ ~closed[c] /\ answer[c] = <<>>

BacklogInv ==
  \A i, j \in DOMAIN backlog :
    /\ backlog[i] = backlog[j] => i = j
    /\ backlog[i] # client_socket

ServedInv ==
  /\ master = "num" => executed[client_socket] = None
  /\ master \in {"number", "values", "confirm", "close"} => Done(client_socket)
  /\ master = "number" => Op = "READ_RANGE"
  /\ master = "values" => Op \in {"READ", "READ_RANGE"}

ResultInv(c) ==
  Done(c) =>
    /\ request[c].op = "READ" => Len(executed[c].values) = 1
    /\ Len(executed[c].values) <= Cardinality(Keys)
    /\ request[c].op \notin {"READ", "READ_RANGE"} => executed[c].values = <<>>

\* The answer of a call that has been done: the number of values at 0, for read_range only,
\* the values from 1, the confirmation.
ScriptToken(vs, i) ==
  IF i = 0 THEN Token("number", Len(vs))
  ELSE IF i <= Len(vs) THEN Token("value", vs[i])
  ELSE Confirmation

Position(c) ==
  IF request[c].op = "READ_RANGE" /\ caller[c] \in {"sending", "number"}
  THEN 0 ELSE Len(received[c]) + 1

Written(c) == Position(c) + Len(answer[c])

InScript(c) ==
  LET vs == executed[c].values IN
  /\ caller[c] # "misled"
  /\ caller[c] \in {"sending", "number"} => received[c] = <<>>
  /\ caller[c] = "number" => request[c].op = "READ_RANGE"
  /\ caller[c] = "value" => /\ request[c].op \in {"READ", "READ_RANGE"}
                            /\ wanted[c] = Len(vs) - Len(received[c])
                            /\ wanted[c] > 0
  /\ caller[c] = "confirm" => Len(received[c]) = Len(vs)
  /\ \A i \in DOMAIN received[c] : received[c][i] = vs[i]
  /\ \A i \in DOMAIN answer[c] : answer[c][i] = ScriptToken(vs, Position(c) + i - 1)
  /\ Written(c) <= Len(vs) + 2
  /\ Served(c, {"number"}) => Written(c) = 0 /\ blocks = vs
  /\ Served(c, {"values"}) =>
        /\ Len(blocks) <= Len(vs) /\ Written(c) = Len(vs) - Len(blocks) + 1
        /\ \A j \in DOMAIN blocks : blocks[j] = vs[Len(vs) - Len(blocks) + j]
  /\ Served(c, {"confirm"}) => Written(c) = Len(vs) + 1

NotDone(c) ==
  /\ received[c] = <<>>
  /\ \A i \in DOMAIN answer[c] : answer[c][i] = Stray
  /\ \/ caller[c] \in {"sending", FirstWait(request[c])}
     \/ caller[c] = "misled" /\ request[c].op = "READ_RANGE"
  /\ caller[c] = "value" => wanted[c] = 1

AnswerInv(c) == Begun(c) => IF Done(c) THEN InScript(c) ELSE NotDone(c)

RangeRead == master = "call" /\ Op = "READ_RANGE"

RangeInv ==
  /\ ~RangeRead => todo = {}
  /\ RangeRead =>
       LET K == Between(key_to_block_id, Now) IN
       /\ todo \subseteq K
       /\ blocks \in ValuesOf(store, K \ todo)
       /\ \A k \in K \ todo, t \in todo : k < t
       /\ socket_fd # "server" => blocks = <<>>
  /\ master \in {"accept", "receive", "num", "confirm", "close", "dead"} => blocks = <<>>
  /\ master = "call" /\ Op # "READ_RANGE" => blocks = <<>>
  /\ master = "values" => blocks # <<>>

ProtocolInv ==
  /\ \A c \in Calls : CallInv(c) /\ WaitingInv(c) /\ ResultInv(c) /\ AnswerInv(c)
  /\ BacklogInv /\ ServedInv /\ RangeInv

Inv == TypeOK /\ KeysMatchStore /\ ProtocolInv

LEMMA KeysAreNumbers == Keys \subseteq Nat /\ IsFiniteSet(Keys)
<1>1. Keys \subseteq Nat
  BY RequestsAssumption DEF Keys
<1> DEFINE first == [r \in Requests |-> r.first]
           last  == [r \in Requests |-> r.last]
           F == {r.first : r \in Requests}
           L == {r.last : r \in Requests}
<1>2. first \in Surjection(Requests, F) /\ last \in Surjection(Requests, L)
  BY DEF Surjection
<1> HIDE DEF first, last, F, L
<1>3. IsFiniteSet(F) /\ IsFiniteSet(L)
  BY <1>2, RequestsAssumption, FS_Surjection
<1>4. IsFiniteSet(F \cup L)
  BY <1>3, FS_Union
<1> QED BY <1>1, <1>4 DEF Keys, F, L

\* What a call takes from its connection.
LEMMA TakesFromScript ==
  ASSUME Inv, NEW c \in Calls, Begun(c), answer[c] # <<>>, Head(answer[c]).kind # "stray"
  PROVE  /\ Done(c) /\ InScript(c)
         /\ Head(answer[c]) = ScriptToken(executed[c].values, Position(c))
<1>1. answer[c] \in Seq([kind : {"number", "value", "id", "stray"},
                         value : Nat \cup Data \cup {None}])
  BY DEF Inv, TypeOK, CallType, ConnectionType
<1>2. Head(answer[c]) = answer[c][1] /\ 1 \in DOMAIN answer[c]
  BY <1>1
<1>3. AnswerInv(c)
  BY DEF Inv, ProtocolInv
<1>4. Done(c)
  BY <1>2, <1>3 DEF AnswerInv, NotDone, Stray, Token
<1>5. InScript(c)
  BY <1>3, <1>4 DEF AnswerInv
<1>6. answer[c][1] = ScriptToken(executed[c].values, Position(c) + 1 - 1)
  BY <1>2, <1>5 DEF InScript
<1>7. Position(c) \in Nat
  BY DEF Inv, TypeOK, CallType, Position
<1> QED BY <1>2, <1>4, <1>5, <1>6, <1>7

\* Facts about the request being served.
LEMMA Serving ==
  ASSUME Inv, client_socket # None
  PROVE  /\ client_socket \in Calls
         /\ Now \in Requests /\ Now.value \in Data
         /\ Now.first \in Keys /\ Now.first \in Nat /\ Now.last \in Nat
         /\ caller[client_socket] # "new"
<1>1. client_socket \in Calls
  BY DEF Inv, TypeOK, MasterType
<1>2. caller[client_socket] # "new"
  BY <1>1 DEF Inv, ProtocolInv, CallInv
<1>3. Now \in Requests
  BY <1>1, <1>2 DEF Inv, TypeOK, CallType, Now
<1> QED BY <1>1, <1>2, <1>3, RequestsAssumption DEF Keys, Data

LEMMA SomeKey ==
  ASSUME NEW r \in Requests
  PROVE  Cardinality(Keys) \in Nat /\ Cardinality(Keys) > 0
<1>1. Cardinality(Keys) \in Nat
  BY KeysAreNumbers, FS_CardinalityType
<1>2. r.first \in Keys
  BY DEF Keys
<1>3. Cardinality(Keys) # 0
  BY <1>2, KeysAreNumbers, FS_EmptySet, Zenon
<1> QED BY <1>1, <1>3

LEMMA ResultType ==
  ASSUME Inv, NEW c \in Calls, Done(c)
  PROVE  executed[c] = Success(executed[c].values) /\ executed[c].values \in Seq(Data)
BY DEF Inv, TypeOK, MasterType, Done, Results, Success

\* Where a call goes when a part has been sent.
LEMMA SendPartGoesTo ==
  ASSUME Inv, NEW c \in Calls, SendPart(c)
  PROVE  /\ sent' = [sent EXCEPT ![c] = @ + 1] /\ sent[c] \in 0 .. 1
         /\ sent' \in [Calls -> 0 .. 2]
         /\ caller' = [caller EXCEPT ![c] = IF sent[c] + 1 < PartsSent(request[c].op)
                                           THEN "sending" ELSE FirstWait(request[c])]
         /\ request[c] \in Requests /\ caller[c] = "sending"
         /\ wanted' = [wanted EXCEPT ![c] = IF request[c].op = "READ" THEN 1 ELSE 0]
         /\ UNCHANGED <<request, received, outcome, connection, backlog, masterVars, oram, executed>>
<1>1. sent[c] \in 0 .. 1
  BY DEF SendPart, Inv, TypeOK, CallType, ProtocolInv, CallInv, PartsSent
<1>2. request[c] \in Requests
  BY DEF SendPart, Inv, TypeOK, CallType
<1>3. sent' = [sent EXCEPT ![c] = @ + 1] /\ sent'[c] = sent[c] + 1
  BY DEF SendPart, Inv, TypeOK, CallType
<1>4. (CASE request[c].op = "READ"       -> "value"
         [] request[c].op = "READ_RANGE" -> "number"
         [] OTHER                        -> "confirm") = FirstWait(request[c])
  BY DEF FirstWait
<1>5. caller' = [caller EXCEPT ![c] = IF sent'[c] < PartsSent(request[c].op)
                                      THEN "sending" ELSE FirstWait(request[c])]
  BY <1>4 DEF SendPart, Goto
<1>6. /\ wanted' = [wanted EXCEPT ![c] = IF request[c].op = "READ" THEN 1 ELSE 0]
      /\ caller[c] = "sending"
      /\ UNCHANGED <<request, received, outcome, connection, backlog, masterVars, oram, executed>>
  BY DEF SendPart
<1>7. sent' \in [Calls -> 0 .. 2]
  <2>1. sent[c] + 1 \in 0 .. 2 /\ sent \in [Calls -> 0 .. 2]
    BY <1>1 DEF Inv, TypeOK, CallType
  <2> QED BY <1>3, <2>1, ExceptType
<1> QED BY <1>1, <1>2, <1>3, <1>5, <1>6, <1>7

\* The steps of a call leave the variables of the master alone.
LEMMA CallStepFrame ==
  ASSUME NEW c \in Calls, Connect(c) \/ CallStep(c) \/ CallerKilled(c) \/ NextCall(c)
  PROVE  /\ UNCHANGED <<masterVars, oram>>
         /\ Connect(c) \/ UNCHANGED backlog
         /\ NextCall(c) \/ UNCHANGED <<taken, closed, executed>>
BY DEF CallStep, Connect, SendPart, ReceiveNumber, ReceiveValue, ReceiveConfirmation, Misread,
   CallFails, CallerKilled, NextCall, End, connection

LEMMA CallStepCallType ==
  ASSUME Inv, NEW c \in Calls, Connect(c) \/ CallStep(c) \/ CallerKilled(c) \/ NextCall(c)
  PROVE  CallType'
<1> USE DEF Inv, TypeOK, CallType, Goto
<1>1. CASE Connect(c)
  BY <1>1, NoneAssumption DEF Connect
<1>2. CASE SendPart(c)
  <2>1. 0 \in 0 .. Cardinality(Keys) /\ 1 \in 0 .. Cardinality(Keys)
    BY <1>2, SendPartGoesTo, SomeKey
  <2>2. wanted' \in [Calls -> 0 .. Cardinality(Keys)]
    BY <1>2, <2>1, SendPartGoesTo
  <2>3. /\ caller' \in [Calls -> {"new", "sending", "number", "value", "confirm", "misled",
                           "returned", "killed"}]
        /\ \A d \in Calls : (caller'[d] = "new") = (caller[d] = "new")
    BY <1>2, SendPartGoesTo DEF FirstWait
  <2> QED BY <1>2, <2>2, <2>3, SendPartGoesTo
<1>3. CASE ReceiveNumber(c)
  <2>1. Head(answer[c]) = ScriptToken(executed[c].values, Position(c)) /\ InScript(c) /\ Done(c)
    BY <1>3, TakesFromScript DEF ReceiveNumber, Arrived, Begun
  <2>2. Head(answer[c]).value \in 0 .. Cardinality(Keys)
    BY <1>3, <2>1, NoneAssumption DEF ReceiveNumber, Arrived, ScriptToken, Token, Confirmation,
       ProtocolInv, ResultInv, Done, Results
  <2> QED BY <1>3, <2>2 DEF ReceiveNumber
<1>4. CASE ReceiveValue(c)
  <2>1. Head(answer[c]) = ScriptToken(executed[c].values, Position(c)) /\ InScript(c) /\ Done(c)
    BY <1>4, TakesFromScript DEF ReceiveValue, Arrived, Begun
  <2>2. Head(answer[c]).value \in Data
    <3>1. Position(c) \in Nat /\ Position(c) > 0
      BY <1>4 DEF ReceiveValue, Position
    <3> QED
      BY <1>4, <2>1, <3>1, ResultType DEF ReceiveValue, Arrived, ScriptToken, Token, Confirmation
  <2>3. wanted[c] > 0
    BY <1>4, <2>1 DEF ReceiveValue, InScript
  <2>4. wanted[c] - 1 \in 0 .. Cardinality(Keys)
    BY <2>3, KeysAreNumbers, FS_CardinalityType
  <2> QED BY <1>4, <2>2, <2>4 DEF ReceiveValue
<1>5. ASSUME NEW place \in {"returned", "killed"}, End(c, place), caller[c] # "new",
             outcome' \in [Calls -> Results \cup {None}]
      PROVE  CallType'
  <2>1. <<>> \in Seq(Data) /\ 0 \in 0 .. Cardinality(Keys)
    BY KeysAreNumbers, FS_CardinalityType
  <2> QED BY <1>5, <2>1 DEF End
<1>6. CASE ReceiveConfirmation(c)
  <2>1. Success(received[c]) \in Results
    BY DEF Results, Success
  <2> QED BY <1>5, <1>6, <2>1 DEF ReceiveConfirmation
<1>7. CASE CallFails(c) \/ CallerKilled(c)
  <2>1. Failed \in Results
    BY DEF Results, Failed
  <2> QED BY <1>5, <1>7, <2>1 DEF CallFails, CallerKilled, Begun
<1>8. CASE Misread(c)
  BY <1>8 DEF Misread
<1>9. CASE NextCall(c)
  BY <1>9 DEF NextCall
<1> QED BY <1>1, <1>2, <1>3, <1>4, <1>5, <1>6, <1>7, <1>8, <1>9 DEF CallStep

LEMMA CallStepConnectionType ==
  ASSUME Inv, NEW c \in Calls, Connect(c) \/ CallStep(c) \/ CallerKilled(c) \/ NextCall(c)
  PROVE  ConnectionType'
<1> DEFINE Tokens == [kind : {"number", "value", "id", "stray"}, value : Nat \cup Data \cup {None}]
<1>0. /\ taken \in [Calls -> 0 .. 2] /\ sent \in [Calls -> 0 .. 2]
      /\ \A d \in Calls : taken[d] <= sent[d]
      /\ closed \in [Calls -> BOOLEAN] /\ backlog \in Seq(Calls)
      /\ answer \in [Calls -> Seq(Tokens)]
  BY DEF Inv, TypeOK, CallType, ConnectionType
<1> HIDE DEF Tokens
<1>00. /\ taken \in [Calls -> 0 .. 2] /\ sent \in [Calls -> 0 .. 2]
       /\ \A d \in Calls : taken[d] <= sent[d]
  BY <1>0
<1>1. CASE Connect(c)
  <2>1. backlog' \in Seq(Calls) /\ UNCHANGED <<sent, taken, answer, closed>>
    BY <1>0, <1>1 DEF Connect, connection
  <2> QED BY <1>0, <2>1 DEF ConnectionType, Tokens
<1>2. CASE SendPart(c)
  <2>1. /\ UNCHANGED <<taken, answer, closed, backlog>>
        /\ sent' = [sent EXCEPT ![c] = @ + 1]
    BY <1>2, SendPartGoesTo DEF connection
  <2>2. \A d \in Calls : taken'[d] <= sent'[d]
    BY <1>00, <2>1
  <2> QED BY <1>0, <2>1, <2>2 DEF ConnectionType, Tokens
<1>3. ASSUME answer' \in [Calls -> Seq(Tokens)], UNCHANGED <<sent, taken, closed, backlog>>
      PROVE  ConnectionType'
  BY <1>0, <1>3 DEF ConnectionType, Tokens
<1>4. CASE Take(c) /\ answer[c] # <<>> /\ UNCHANGED <<sent, taken, closed, backlog>>
  <2>1. answer[c] \in Seq(Tokens)
    BY <1>0
  <2>2. Tail(answer[c]) \in Seq(Tokens)
    BY <1>4, <2>1
  <2> QED BY <1>0, <1>3, <1>4, <2>2, ExceptType DEF Take
<1>5. CASE ReceiveNumber(c) \/ ReceiveValue(c) \/ Misread(c)
  BY <1>4, <1>5 DEF ReceiveNumber, ReceiveValue, Misread, Begun, Arrived
<1>6. CASE ReceiveConfirmation(c) \/ CallFails(c) \/ CallerKilled(c)
  <2>1. <<>> \in Seq(Tokens)
    OBVIOUS
  <2>2. answer' = [answer EXCEPT ![c] = <<>>] /\ UNCHANGED <<sent, taken, closed, backlog>>
    BY <1>6 DEF ReceiveConfirmation, CallFails, CallerKilled, End
  <2> QED BY <1>0, <1>3, <2>1, <2>2, ExceptType
<1>7. CASE NextCall(c)
  <2>1. /\ sent' = [sent EXCEPT ![c] = 0] /\ taken' = [taken EXCEPT ![c] = 0]
        /\ closed' = [closed EXCEPT ![c] = FALSE]
        /\ UNCHANGED <<answer, backlog>>
    BY <1>7 DEF NextCall
  <2>2. /\ taken' \in [Calls -> 0 .. 2] /\ closed' \in [Calls -> BOOLEAN]
        /\ \A d \in Calls : taken'[d] <= sent'[d]
    BY <1>0, <2>1
  <2> QED BY <1>0, <2>1, <2>2 DEF ConnectionType, Tokens
<1> QED BY <1>1, <1>2, <1>5, <1>6, <1>7 DEF CallStep

LEMMA CallStepMasterType ==
  ASSUME Inv, NEW c \in Calls, Connect(c) \/ CallStep(c) \/ CallerKilled(c) \/ NextCall(c)
  PROVE  MasterType'
<1>1. UNCHANGED <<masterVars, oram>>
  BY CallStepFrame
<1>2. executed' \in [Calls -> Results \cup {None}]
  BY CallStepFrame DEF NextCall, Inv, TypeOK, MasterType
<1> QED BY <1>1, <1>2 DEF Inv, TypeOK, MasterType, masterVars, oram

\* The steps of the master leave the variables of the calls alone.
LEMMA MasterStepFrame ==
  ASSUME MasterStep \/ MasterKilled
  PROVE  UNCHANGED callVars
BY DEF MasterStep, Accept, ReceivePart, ReceiveFails, Put, Get, GetUnknownKey, Clear, ClearUnknownKey,
   GetNext, EndOfRange, SingleClientFails, TalkToCaller, NoNum, SendNumber, SendValue,
   SendValueFails, Confirm, Disconnect, MasterKilled

LEMMA MasterStepConnectionType ==
  ASSUME Inv, MasterStep \/ MasterKilled
  PROVE  ConnectionType'
<1> DEFINE Tokens == [kind : {"number", "value", "id", "stray"}, value : Nat \cup Data \cup {None}]
           m == client_socket
<1>0. /\ taken \in [Calls -> 0 .. 2] /\ sent \in [Calls -> 0 .. 2]
      /\ \A c \in Calls : taken[c] <= sent[c]
      /\ closed \in [Calls -> BOOLEAN] /\ backlog \in Seq(Calls)
      /\ answer \in [Calls -> Seq(Tokens)]
      /\ m \in Calls \cup {None} /\ (m = None) = (master \in {"accept", "dead"})
      /\ blocks \in Seq(Data)
  BY DEF Inv, TypeOK, CallType, ConnectionType, MasterType
<1> HIDE DEF Tokens
<1>00. /\ taken \in [Calls -> 0 .. 2] /\ sent \in [Calls -> 0 .. 2]
       /\ \A d \in Calls : taken[d] <= sent[d]
  BY <1>0
<1>1. UNCHANGED <<caller, request, sent>>
  BY MasterStepFrame DEF callVars
<1>2. ASSUME UNCHANGED <<taken, answer, backlog>>, closed' \in [Calls -> BOOLEAN]
      PROVE  ConnectionType'
  BY <1>0, <1>1, <1>2 DEF ConnectionType, Tokens
<1>3. ASSUME UNCHANGED <<taken, closed, backlog>>, m \in Calls,
             NEW t \in Tokens, answer' = [answer EXCEPT ![m] = IF Gone THEN @ ELSE Append(@, t)]
      PROVE  ConnectionType'
  <2>1. (IF Gone THEN answer[m] ELSE Append(answer[m], t)) \in Seq(Tokens)
    BY <1>0, <1>3
  <2>2. answer' \in [Calls -> Seq(Tokens)]
    BY <1>0, <1>3, <2>1, ExceptType
  <2> QED BY <1>0, <1>1, <1>3, <2>2 DEF ConnectionType, Tokens
<1>4. CASE Accept
  <2>1. backlog' \in Seq(Calls) /\ UNCHANGED <<taken, answer, closed>>
    BY <1>0, <1>4 DEF Accept, connection
  <2> QED BY <1>0, <1>1, <2>1 DEF ConnectionType, Tokens
<1>5. CASE ReceivePart
  <2>1. m \in Calls /\ taken[m] < sent[m] /\ taken' = [taken EXCEPT ![m] = @ + 1]
    BY <1>0, <1>5 DEF ReceivePart
  <2>2. taken[m] + 1 \in 0 .. 2
    BY <1>00, <2>1
  <2>3. taken' \in [Calls -> 0 .. 2]
    BY <1>0, <2>1, <2>2, ExceptType
  <2>4. \A c \in Calls : taken'[c] <= sent[c]
    BY <1>00, <2>1
  <2>5. UNCHANGED <<answer, closed, backlog>>
    BY <1>5 DEF ReceivePart
  <2> QED BY <1>0, <1>1, <2>3, <2>4, <2>5 DEF ConnectionType, Tokens
<1>6. CASE ReceiveFails \/ GetUnknownKey \/ NoNum \/ Disconnect \/ SendValueFails
  <2>1. closed' = [closed EXCEPT ![m] = TRUE] /\ UNCHANGED <<taken, answer, backlog>>
    BY <1>6 DEF ReceiveFails, GetUnknownKey, NoNum, Disconnect, SendValueFails, CloseSocket
  <2> QED BY <1>0, <1>2, <2>1
<1>7. CASE Put \/ Get \/ Clear \/ ClearUnknownKey \/ GetNext \/ EndOfRange
  BY <1>0, <1>2, <1>7 DEF Put, Get, Clear, ClearUnknownKey, GetNext, EndOfRange, connection
<1>8. ASSUME Die, UNCHANGED <<taken, answer>>
      PROVE  ConnectionType'
  <2>1. closed' \in [Calls -> BOOLEAN] /\ backlog' \in Seq(Calls)
    BY <1>8 DEF Die
  <2> QED BY <1>0, <1>1, <1>8, <2>1 DEF ConnectionType, Tokens
<1>9. CASE SingleClientFails
  <2>1. CASE Die
    BY <1>8, <1>9, <2>1 DEF SingleClientFails
  <2>2. CASE CloseSocket /\ UNCHANGED backlog
    BY <1>0, <1>2, <1>9, <2>2 DEF SingleClientFails, CloseSocket
  <2> QED BY <1>9, <2>1, <2>2 DEF SingleClientFails
<1>10. CASE TalkToCaller
  <2>1. Stray \in Tokens
    BY DEF Stray, Token, Tokens
  <2> QED BY <1>0, <1>3, <1>10, <2>1 DEF TalkToCaller
<1>11. CASE SendNumber
  <2>1. Token("number", Len(blocks)) \in Tokens
    BY <1>0 DEF Token, Tokens
  <2> QED BY <1>0, <1>3, <1>11, <2>1 DEF SendNumber, Answer
<1>12. CASE SendValue
  <2>1. blocks # <<>>
    BY <1>12 DEF SendValue, Inv, ProtocolInv, RangeInv
  <2>2. Token("value", Head(blocks)) \in Tokens
    BY <1>0, <2>1 DEF Token, Tokens
  <2> QED BY <1>0, <1>3, <1>12, <2>2 DEF SendValue, Answer
<1>13. CASE Confirm
  <2>1. Confirmation \in Tokens
    BY DEF Confirmation, Token, Tokens
  <2> QED BY <1>0, <1>3, <1>13, <2>1 DEF Confirm, Answer
<1>14. CASE MasterKilled
  BY <1>8, <1>14 DEF MasterKilled
<1> QED
  BY <1>4, <1>5, <1>6, <1>7, <1>9, <1>10, <1>11, <1>12, <1>13, <1>14 DEF MasterStep

\* The keys of a range that have been read, and their values.
LEMMA RangeFacts ==
  ASSUME Inv, RangeRead
  PROVE  LET K == Between(key_to_block_id, Now) IN
         /\ K \subseteq Keys /\ IsFiniteSet(K) /\ IsFiniteSet(K \ todo)
         /\ todo \subseteq K /\ blocks \in ValuesOf(store, K \ todo)
         /\ Len(blocks) = Cardinality(K \ todo)
         /\ Cardinality(K \ todo) <= Cardinality(Keys)
<1> DEFINE K == Between(key_to_block_id, Now)
<1>1. K \subseteq Keys
  BY DEF Inv, TypeOK, MasterType, Between
<1>2. IsFiniteSet(K) /\ IsFiniteSet(K \ todo)
  BY <1>1, KeysAreNumbers, FS_Subset
<1>3. todo \subseteq K /\ blocks \in ValuesOf(store, K \ todo)
  BY DEF Inv, ProtocolInv, RangeInv
<1>4. DOMAIN blocks = 1 .. Cardinality(K \ todo) /\ Cardinality(K \ todo) \in Nat
  BY <1>2, <1>3, ValuesType
<1>5. blocks \in Seq(Data)
  BY DEF Inv, TypeOK, MasterType
<1>6. Len(blocks) = Cardinality(K \ todo)
  BY <1>4, <1>5
<1>7. Cardinality(K \ todo) <= Cardinality(Keys)
  BY <1>1, KeysAreNumbers, FS_Subset
<1> QED BY <1>1, <1>2, <1>3, <1>6, <1>7

LEMMA StoredType ==
  ASSUME Inv, client_socket # None
  PROVE  DOMAIN Stored \subseteq Keys /\ Stored \in [DOMAIN Stored -> Data]
<1>1. Now.first \in Keys /\ Now.value \in Data
  BY Serving
<1> QED BY <1>1 DEF Inv, TypeOK, MasterType, Stored, With

LEMMA ClearedType ==
  ASSUME Inv
  PROVE  DOMAIN Cleared \subseteq Keys /\ Cleared \in [DOMAIN Cleared -> Data]
BY DEF Inv, TypeOK, MasterType, Cleared, Without, Restrict

LEMMA MasterStepMasterType ==
  ASSUME Inv, MasterStep \/ MasterKilled
  PROVE  MasterType'
<1> DEFINE m == client_socket
<1>1. /\ m \in Calls \cup {None} /\ (m = None) = (master \in {"accept", "dead"})
      /\ todo \subseteq Keys /\ key_to_block_id \subseteq Keys
      /\ socket_fd \in {"server", "closed", "client"}
      /\ master \in {"accept", "receive", "call", "num", "number", "values", "confirm", "close",
                     "dead"}
      /\ None \notin Calls
  BY NoneAssumption DEF Inv, TypeOK, MasterType
<1>2. blocks \in Seq(Data) /\ <<>> \in Seq(Data)
  BY DEF Inv, TypeOK, MasterType
<1>3. DOMAIN store \subseteq Keys /\ store \in [DOMAIN store -> Data]
  BY DEF Inv, TypeOK, MasterType
<1>4. executed \in [Calls -> Results \cup {None}]
  BY DEF Inv, TypeOK, MasterType
<1>5. ASSUME UNCHANGED <<store, executed>>, blocks' \in Seq(Data), todo' \subseteq Keys,
             key_to_block_id' \subseteq Keys, socket_fd' \in {"server", "closed", "client"},
             \/ UNCHANGED client_socket /\ master \notin {"accept", "dead"}
                /\ master' \in {"receive", "call", "num", "number", "values", "confirm", "close"}
             \/ client_socket' = None /\ master' \in {"accept", "dead"}
      PROVE  MasterType'
  BY <1>1, <1>3, <1>4, <1>5 DEF MasterType
<1>6. ASSUME NEW s \in Results, m \in Calls, UNCHANGED client_socket, blocks' \in Seq(Data),
             Executed(s), UNCHANGED <<todo, socket_fd>>, key_to_block_id' \subseteq Keys,
             master' \in {"confirm", "values", "number"},
             DOMAIN store' \subseteq Keys, store' \in [DOMAIN store' -> Data]
      PROVE  MasterType'
  <2>1. executed' \in [Calls -> Results \cup {None}]
    BY <1>4, <1>6, ExceptType DEF Executed
  <2> QED BY <1>1, <1>6, <2>1 DEF MasterType
<1>7. Success(<<>>) \in Results /\ Success(blocks) \in Results /\ Failed \in Results
  BY <1>2 DEF Success, Failed, Results
<1>8. CASE Accept
  <2>1. client_socket' \in Calls
    BY <1>8 DEF Accept, Inv, TypeOK, ConnectionType
  <2>2. /\ master' = "receive" /\ socket_fd' \in {"server", "closed", "client"}
        /\ UNCHANGED <<todo, blocks, key_to_block_id, store, executed>>
    BY <1>1, <1>8 DEF Accept
  <2> QED BY <1>1, <1>2, <1>3, <1>4, <2>1, <2>2 DEF MasterType
<1>9. CASE ReceivePart
  <2>1. master' \in {"receive", "call"} /\ todo' \subseteq Keys
    BY <1>1, <1>9 DEF ReceivePart, Between
  <2>2. /\ UNCHANGED <<client_socket, blocks, oram, executed>> /\ master = "receive"
    BY <1>9 DEF ReceivePart
  <2> QED BY <1>1, <1>2, <1>5, <2>1, <2>2 DEF oram
<1>10. CASE ReceiveFails \/ GetUnknownKey \/ NoNum \/ Disconnect
  <2>1. Released \in {"server", "closed", "client"}
    BY <1>1 DEF Released
  <2> QED
    BY <1>1, <1>2, <1>5, <1>10, <2>1 DEF ReceiveFails, GetUnknownKey, NoNum, Disconnect, CloseSocket
<1>11. CASE Put
  BY <1>1, <1>2, <1>6, <1>7, <1>11, StoredType, Serving DEF Put
<1>12. CASE Clear
  BY <1>1, <1>2, <1>6, <1>7, <1>12, ClearedType DEF Clear
<1>13. CASE ClearUnknownKey
  BY <1>1, <1>2, <1>3, <1>6, <1>7, <1>13 DEF ClearUnknownKey, oram
<1>14. CASE EndOfRange
  BY <1>1, <1>2, <1>3, <1>6, <1>7, <1>14 DEF EndOfRange, oram
<1>15. CASE Get
  <2>1. Now.first \in DOMAIN store
    BY <1>15 DEF Get, Knows, Inv, KeysMatchStore
  <2>2. <<store[Now.first]>> \in Seq(Data)
    BY <1>3, <2>1
  <2>3. Success(blocks') \in Results
    BY <1>15, <2>2 DEF Get, Success, Results
  <2> QED BY <1>1, <1>3, <1>6, <1>15, <2>2, <2>3 DEF Get, oram
<1>16. CASE GetNext
  <2>1. RangeRead
    BY <1>16 DEF GetNext, Inv, ProtocolInv, RangeInv
  <2>2. todo \subseteq DOMAIN store
    BY <1>16, <2>1, RangeFacts DEF GetNext, Inv, KeysMatchStore, Between
  <2>3. Min(todo) \in todo
    BY <1>1, <1>16, KeysAreNumbers, MinIsLeast DEF GetNext
  <2>4. store[Min(todo)] \in Data
    BY <1>3, <2>2, <2>3
  <2>5. blocks' \in Seq(Data) /\ todo' \subseteq Keys
    BY <1>1, <1>2, <1>16, <2>4 DEF GetNext
  <2>6. UNCHANGED <<master, client_socket, oram, executed>> /\ master = "call"
    BY <1>16 DEF GetNext
  <2> QED BY <1>1, <1>5, <2>5, <2>6 DEF oram
<1>17. CASE SingleClientFails
  <2>1. m \in Calls /\ m # None
    BY <1>1, <1>17 DEF SingleClientFails
  <2>2. DOMAIN store' \subseteq Keys /\ store' \in [DOMAIN store' -> Data]
    BY <1>3, <1>17, <2>1, StoredType, ClearedType DEF SingleClientFails
  <2>3. executed' \in [Calls -> Results \cup {None}]
    BY <1>4, <1>7, <1>17, <2>1, ExceptType DEF SingleClientFails, Executed
  <2>4. Entered \subseteq Keys
    BY <1>1, <2>1, Serving DEF Entered
  <2>5. /\ key_to_block_id' \subseteq Keys /\ socket_fd' = "closed" /\ client_socket' = None
        /\ master' \in {"accept", "dead"} /\ todo' = {} /\ blocks' = <<>>
    BY <1>17, <2>4 DEF SingleClientFails, CloseSocket, Die
  <2> QED BY <1>1, <1>2, <2>2, <2>3, <2>5 DEF MasterType
<1>18. CASE TalkToCaller
  <2>1. Entered \subseteq Keys
    BY <1>1, <1>18, Serving DEF Entered, TalkToCaller
  <2> QED BY <1>1, <1>2, <1>5, <1>18, <2>1 DEF TalkToCaller
<1>19. CASE SendNumber \/ Confirm
  <2>1. /\ UNCHANGED <<client_socket, todo, blocks, oram, executed>>
        /\ master \in {"number", "confirm"} /\ master' \in {"confirm", "values", "close"}
    BY <1>19 DEF SendNumber, Confirm
  <2> QED BY <1>1, <1>2, <1>5, <2>1 DEF oram
<1>20. CASE SendValue \/ SendValueFails
  <2>1. blocks # <<>>
    BY <1>20 DEF SendValue, SendValueFails, Inv, ProtocolInv, RangeInv
  <2>2. blocks' \in Seq(Data)
    BY <1>2, <1>20, <2>1 DEF SendValue, SendValueFails, NextValue
  <2>3. /\ UNCHANGED <<client_socket, todo, oram, executed>>
        /\ master = "values" /\ master' \in {"confirm", "values"}
    BY <1>20 DEF SendValue, SendValueFails, NextValue
  <2> QED BY <1>1, <1>5, <2>2, <2>3 DEF oram
<1>21. CASE MasterKilled
  BY <1>1, <1>2, <1>5, <1>21 DEF MasterKilled, Die
<1> QED
  BY <1>8, <1>9, <1>10, <1>11, <1>12, <1>13, <1>14, <1>15, <1>16, <1>17, <1>18, <1>19, <1>20, <1>21
     DEF MasterStep
-----------------------------------------------------------------------------
(***************************************************************************)
(* The steps of a call keep the protocol.                                  *)
(***************************************************************************)
Local(d) == <<caller[d], request[d], sent[d], received[d], wanted[d], outcome[d],
              taken[d], answer[d], closed[d], executed[d]>>

LEMMA OtherCalls ==
  ASSUME Inv, NEW c \in Calls, Connect(c) \/ CallStep(c) \/ CallerKilled(c) \/ NextCall(c),
         NEW d \in Calls, d # c
  PROVE  UNCHANGED Local(d)
<1> USE DEF Local
<1>1. CASE Connect(c)
  BY <1>1 DEF Connect, Goto, connection, Inv, TypeOK, CallType
<1>2. CASE SendPart(c)
  BY <1>2, SendPartGoesTo DEF connection, Inv, TypeOK, CallType
<1>3. CASE ReceiveNumber(c) \/ ReceiveValue(c) \/ Misread(c)
  BY <1>3 DEF ReceiveNumber, ReceiveValue, Misread, Goto, Take, Inv, TypeOK, CallType, ConnectionType
<1>4. CASE ReceiveConfirmation(c) \/ CallFails(c) \/ CallerKilled(c)
  BY <1>4 DEF ReceiveConfirmation, CallFails, CallerKilled, End, Goto, Inv, TypeOK, CallType,
     ConnectionType
<1>5. CASE NextCall(c)
  BY <1>5 DEF NextCall, Goto, Inv, TypeOK, CallType, ConnectionType, MasterType
<1> QED BY <1>1, <1>2, <1>3, <1>4, <1>5 DEF CallStep

LEMMA CallStepCallInv ==
  ASSUME Inv, NEW c \in Calls, Connect(c) \/ CallStep(c) \/ CallerKilled(c) \/ NextCall(c),
         NEW d \in Calls
  PROVE  CallInv(d)'
<1>1. CallInv(d) /\ CallInv(c)
  BY DEF Inv, ProtocolInv
<1>2. UNCHANGED client_socket
  BY CallStepFrame DEF masterVars
<1>3. CASE d # c
  BY <1>1, <1>2, <1>3, OtherCalls DEF Local, CallInv
<1>4. ASSUME d = c PROVE CallInv(c)'
  <2> USE DEF CallInv, Goto
  <2>1. CASE Connect(c)
    BY <1>1, <2>1 DEF Connect, connection, PartsSent, Inv, TypeOK, CallType, ConnectionType, MasterType
  <2>2. CASE SendPart(c)
    <3>1. /\ caller'[c] = (IF sent[c] + 1 < PartsSent(request[c].op)
                           THEN "sending" ELSE FirstWait(request[c]))
          /\ wanted'[c] = (IF request[c].op = "READ" THEN 1 ELSE 0)
          /\ sent'[c] = sent[c] + 1 /\ sent[c] \in Nat /\ taken[c] \in Nat
          /\ UNCHANGED <<request, taken>>
      <4>1. caller \in [Calls -> {"new", "sending", "number", "value", "confirm", "misled",
                                  "returned", "killed"}]
            /\ wanted \in [Calls -> 0 .. Cardinality(Keys)]
            /\ sent \in [Calls -> 0 .. 2] /\ taken \in [Calls -> 0 .. 2]
        BY DEF Inv, TypeOK, CallType, ConnectionType
      <4>2. UNCHANGED <<request, taken>>
        BY <2>2, SendPartGoesTo DEF connection
      <4>3. caller'[c] = IF sent[c] + 1 < PartsSent(request[c].op)
                           THEN "sending" ELSE FirstWait(request[c])
        BY <2>2, <4>1, SendPartGoesTo
      <4> QED BY <2>2, <4>1, <4>2, <4>3, SendPartGoesTo
    <3>2. caller'[c] # "value" => wanted'[c] = 0
      BY <3>1 DEF FirstWait, PartsSent
    <3> QED BY <1>1, <3>1, <3>2 DEF FirstWait
  <2>3. CASE ReceiveNumber(c)
    BY <1>1, <2>3 DEF ReceiveNumber, Take, Inv, TypeOK, CallType
  <2>4. CASE ReceiveValue(c)
    BY <1>1, <2>4 DEF ReceiveValue, Take, Inv, TypeOK, CallType
  <2>5. CASE Misread(c)
    BY <1>1, <2>5 DEF Misread, Take, Inv, TypeOK, CallType
  <2>6. CASE ReceiveConfirmation(c) \/ CallFails(c) \/ CallerKilled(c)
    BY <1>1, <2>6 DEF ReceiveConfirmation, CallFails, CallerKilled, End, Inv, TypeOK, CallType,
       ConnectionType
  <2>7. CASE NextCall(c)
    <3>1. sent'[c] = 0 /\ taken'[c] = 0 /\ ~closed'[c] /\ executed'[c] = None /\ caller'[c] = "new"
      BY <2>7 DEF NextCall, Inv, TypeOK, CallType, ConnectionType, MasterType
    <3>2. caller[c] \in {"returned", "killed"} /\ UNCHANGED <<received, wanted, answer>>
          /\ client_socket # c
      BY <2>7 DEF NextCall
    <3> QED BY <1>1, <1>2, <3>1, <3>2
  <2> QED BY <2>1, <2>2, <2>3, <2>4, <2>5, <2>6, <2>7 DEF CallStep
<1> QED BY <1>3, <1>4

LEMMA CallStepWaitingInv ==
  ASSUME Inv, NEW c \in Calls, Connect(c) \/ CallStep(c) \/ CallerKilled(c) \/ NextCall(c),
         NEW d \in Calls
  PROVE  WaitingInv(d)'
<1>1. WaitingInv(d) /\ CallInv(c)
  BY DEF Inv, ProtocolInv
<1>2. UNCHANGED <<client_socket, master>>
  BY CallStepFrame DEF masterVars
<1>3. CASE Connect(c)
  <2>1. Range(backlog') = Range(backlog) \cup {c}
    <3>1. backlog' = Append(backlog, c) /\ backlog \in Seq(Calls)
      BY <1>3 DEF Connect, Inv, TypeOK, ConnectionType
    <3> QED BY <3>1, RangeAppend
  <2>2. CASE d # c
    BY <1>1, <1>2, <2>1, <2>2, OtherCalls DEF WaitingInv, Waiting, Served, Local
  <2>3. CASE d = c
    BY <1>1, <1>3, <2>3 DEF Connect, Goto, connection, CallInv, WaitingInv, Inv, TypeOK, CallType
  <2> QED BY <2>2, <2>3
<1>4. ASSUME UNCHANGED backlog, d # c PROVE WaitingInv(d)'
  BY <1>1, <1>2, <1>4, OtherCalls DEF WaitingInv, Waiting, Served, Local
<1>5. ASSUME UNCHANGED backlog, d = c, Waiting(c), ~Connect(c)
      PROVE  /\ caller'[c] \notin {"new", "returned", "misled"}
             /\ UNCHANGED <<executed, closed>> /\ answer'[c] = <<>>
  <2>1. executed[c] = None /\ ~closed[c] /\ answer[c] = <<>>
    BY <1>1, <1>5 DEF WaitingInv
  <2>2. SendPart(c) \/ CallerKilled(c)
    BY <1>5, <2>1 DEF CallStep, NextCall, ReceiveNumber, ReceiveValue, ReceiveConfirmation, Misread,
       CallFails, Arrived, EndOfAnswer, Unusable, Inv, TypeOK, ConnectionType
  <2>3. CASE SendPart(c)
    BY <2>1, <2>3, SendPartGoesTo DEF connection, FirstWait, Inv, TypeOK, CallType
  <2>4. CASE CallerKilled(c)
    BY <2>1, <2>4 DEF CallerKilled, End, Goto, Inv, TypeOK, CallType, ConnectionType
  <2> QED BY <2>2, <2>3, <2>4
<1>6. ASSUME UNCHANGED backlog, d = c, ~Connect(c) PROVE WaitingInv(c)'
  <2>1. Waiting(c)' = Waiting(c)
    BY <1>2, <1>6 DEF Waiting, Served
  <2> QED BY <1>1, <1>5, <1>6, <2>1 DEF WaitingInv
<1> QED BY <1>3, <1>4, <1>6, CallStepFrame

\* A call that begins is not waiting.
LEMMA NewIsNotWaiting ==
  ASSUME Inv, NEW c \in Calls, Connect(c)
  PROVE  ~Waiting(c) /\ client_socket # c /\ executed[c] = None
BY DEF Inv, ProtocolInv, CallInv, WaitingInv, Connect

LEMMA CallStepMasterInvs ==
  ASSUME Inv, NEW c \in Calls, Connect(c) \/ CallStep(c) \/ CallerKilled(c) \/ NextCall(c)
  PROVE  BacklogInv' /\ ServedInv' /\ RangeInv'
<1>1. UNCHANGED <<masterVars, oram>>
  BY CallStepFrame
<1>2. BacklogInv /\ ServedInv /\ RangeInv
  BY DEF Inv, ProtocolInv
<1>3. BacklogInv'
  <2>1. CASE UNCHANGED backlog
    BY <1>1, <1>2, <2>1 DEF BacklogInv, masterVars
  <2>2. CASE Connect(c)
    <3>1. c \notin Range(backlog) /\ client_socket # c
      BY <2>2, NewIsNotWaiting DEF Waiting
    <3>2. backlog' = Append(backlog, c) /\ backlog \in Seq(Calls)
      BY <2>2 DEF Connect, Inv, TypeOK, ConnectionType
    <3>3. \A i \in DOMAIN backlog : backlog[i] # c
      BY <3>1 DEF Range
    <3> QED BY <1>1, <1>2, <3>1, <3>2, <3>3 DEF BacklogInv, masterVars
  <2> QED BY <2>1, <2>2, CallStepFrame
<1>4. ASSUME client_socket # None
      PROVE  UNCHANGED <<request[client_socket], executed[client_socket]>>
  <2>1. client_socket \in Calls
    BY <1>4 DEF Inv, TypeOK, MasterType
  <2>2. CASE client_socket # c
    BY <1>1, <2>1, <2>2, OtherCalls DEF Local, masterVars
  <2>3. CASE client_socket = c
    <3>1. ~Connect(c) /\ ~NextCall(c)
      BY <2>3, NewIsNotWaiting DEF NextCall
    <3>2. UNCHANGED <<request, executed>>
      BY <2>3, <3>1, SendPartGoesTo DEF CallStep, ReceiveNumber, ReceiveValue, ReceiveConfirmation,
         Misread, CallFails, CallerKilled, End
    <3> QED BY <1>1, <3>2 DEF masterVars
  <2> QED BY <2>2, <2>3
<1>5. client_socket = None <=> master \in {"accept", "dead"}
  BY DEF Inv, TypeOK, MasterType
<1>6. ServedInv'
  BY <1>1, <1>2, <1>4, <1>5 DEF ServedInv, Done, Op, Operation, Now, masterVars
<1>7. RangeInv'
  BY <1>1, <1>2, <1>4, <1>5 DEF RangeInv, RangeRead, Op, Operation, Now, masterVars, oram
<1> QED BY <1>3, <1>6, <1>7

LEMMA CallStepResultInv ==
  ASSUME Inv, NEW c \in Calls, Connect(c) \/ CallStep(c) \/ CallerKilled(c) \/ NextCall(c),
         NEW d \in Calls
  PROVE  ResultInv(d)'
<1>1. ResultInv(d)
  BY DEF Inv, ProtocolInv
<1>2. CASE UNCHANGED <<request[d], executed[d]>>
  BY <1>1, <1>2 DEF ResultInv, Done
<1>3. CASE d # c
  BY <1>2, <1>3, OtherCalls DEF Local
<1>4. CASE Connect(c) /\ d = c
  BY <1>4, NewIsNotWaiting DEF Connect, ResultInv, Done
<1>5. CASE NextCall(c) /\ d = c
  BY <1>5 DEF NextCall, ResultInv, Done, Inv, TypeOK, MasterType
<1>6. CASE (CallStep(c) \/ CallerKilled(c)) /\ d = c
  BY <1>2, <1>6, SendPartGoesTo DEF CallStep, ReceiveNumber, ReceiveValue, ReceiveConfirmation,
     Misread, CallFails, CallerKilled, End
<1> QED BY <1>3, <1>4, <1>5, <1>6

\* What the answer's invariant speaks of, typed.
LEMMA CallTypes ==
  ASSUME Inv, NEW c \in Calls
  PROVE  /\ answer[c] \in Seq([kind : {"number", "value", "id", "stray"},
                               value : Nat \cup Data \cup {None}])
         /\ received[c] \in Seq(Data) /\ wanted[c] \in Nat
         /\ Position(c) \in Nat
         /\ Done(c) => executed[c].values \in Seq(Data)
<1>1. received[c] \in Seq(Data) /\ wanted[c] \in 0 .. Cardinality(Keys)
  BY DEF Inv, TypeOK, CallType
<1>2. Position(c) \in Nat
  BY <1>1 DEF Position
<1>3. wanted[c] \in Nat
  BY <1>1, KeysAreNumbers, FS_CardinalityType
<1>4. answer[c] \in Seq([kind : {"number", "value", "id", "stray"},
                         value : Nat \cup Data \cup {None}])
  BY DEF Inv, TypeOK, ConnectionType
<1> QED BY <1>1, <1>2, <1>3, <1>4, ResultType

\* Reading a part of the answer moves on by one.
LEMMA TakesOne ==
  ASSUME Inv, NEW c \in Calls, Begun(c), answer[c] # <<>>, Done(c),
         Take(c), UNCHANGED executed, Position(c)' = Position(c) + 1
  PROVE  LET vs == executed[c].values IN
         /\ \A i \in DOMAIN answer'[c] : answer'[c][i] = ScriptToken(vs, Position(c)' + i - 1)
         /\ Written(c)' = Written(c)
<1> DEFINE vs == executed[c].values
           a == answer[c]
           p == Position(c)
<1>1. answer'[c] = Tail(a)
  BY DEF Take, Inv, TypeOK, ConnectionType
<1>2. a \in Seq([kind : {"number", "value", "id", "stray"}, value : Nat \cup Data \cup {None}])
      /\ p \in Nat
  BY CallTypes
<1>3. \A i \in DOMAIN a : a[i] = ScriptToken(vs, p + i - 1)
  BY DEF Inv, ProtocolInv, AnswerInv, InScript
<1>4. Position(c)' = p + 1
  OBVIOUS
<1> HIDE DEF p
<1>5. Len(Tail(a)) = Len(a) - 1 /\ DOMAIN Tail(a) = 1 .. (Len(a) - 1) /\ Len(a) \in Nat
      /\ \A i \in 1 .. (Len(a) - 1) : i + 1 \in DOMAIN a /\ Tail(a)[i] = a[i + 1]
  BY <1>2
<1> HIDE DEF a, vs
<1>6. \A i \in DOMAIN Tail(a) : Tail(a)[i] = ScriptToken(vs, (p + 1) + i - 1)
  <2> TAKE i \in DOMAIN Tail(a)
  <2>1. i \in 1 .. (Len(a) - 1) /\ i \in Nat
    BY <1>5
  <2>2. Tail(a)[i] = ScriptToken(vs, p + (i + 1) - 1)
    BY <1>3, <1>5, <2>1
  <2>3. p + (i + 1) - 1 = (p + 1) + i - 1
    BY <1>2, <2>1
  <2> QED BY <2>2, <2>3
<1>7. Written(c)' = Written(c)
  BY <1>1, <1>2, <1>4, <1>5 DEF Written, p, a
<1> QED BY <1>1, <1>4, <1>6, <1>7 DEF p, vs

LEMMA SendPartAnswerInv ==
  ASSUME Inv, NEW c \in Calls, SendPart(c)
  PROVE  AnswerInv(c)'
<1>1. /\ UNCHANGED <<request, received, taken, answer, closed, masterVars, executed>>
      /\ caller[c] = "sending" /\ request[c] \in Requests
  BY SendPartGoesTo DEF connection
<1>2. caller'[c] \in {"sending", FirstWait(request[c])}
  <2>1. caller \in [Calls -> {"new", "sending", "number", "value", "confirm", "misled", "returned",
                              "killed"}]
    BY DEF Inv, TypeOK, CallType
  <2> QED BY <2>1, SendPartGoesTo
<1>3. caller'[c] = "value" => request[c].op = "READ" /\ wanted'[c] = 1
  <2>1. wanted \in [Calls -> 0 .. Cardinality(Keys)]
    BY DEF Inv, TypeOK, CallType
  <2> QED BY <1>2, <2>1, SendPartGoesTo DEF FirstWait
<1>4. AnswerInv(c) /\ ResultInv(c)
  BY DEF Inv, ProtocolInv
<1>5. CASE Done(c)
  <2>1. InScript(c) /\ received[c] = <<>>
    BY <1>1, <1>4, <1>5 DEF AnswerInv, Begun, InScript
  <2>2. Position(c)' = Position(c)
    BY <1>1, <1>2, <2>1 DEF Position, FirstWait
  <2>3. Written(c)' = Written(c)
    BY <1>1, <2>2 DEF Written
  <2>4. caller'[c] = "value" => wanted'[c] = Len(executed[c].values) - Len(received[c]) /\ wanted'[c] > 0
    <3>1. Len(received[c]) = 0
      BY <2>1
    <3>2. request[c].op = "READ" => Len(executed[c].values) = 1
      BY <1>4, <1>5 DEF ResultInv
    <3>3. ASSUME caller'[c] = "value"
          PROVE  wanted'[c] = 1 /\ Len(executed[c].values) = 1
      BY <1>3, <3>2, <3>3
    <3>4. ASSUME NEW w, NEW n, NEW k, w = 1, n = 1, k = 0
          PROVE  w = n - k /\ w > 0
      BY <3>4
    <3> QED BY <3>1, <3>3, <3>4
  <2>5. caller'[c] = "confirm" => Len(received[c]) = Len(executed[c].values)
    BY <1>2, <1>4, <1>5, <2>1 DEF ResultInv, FirstWait
  <2>6. caller'[c] = "number" => request[c].op = "READ_RANGE"
    BY <1>2 DEF FirstWait
  <2>7. caller'[c] # "misled"
    BY <1>2 DEF FirstWait
  <2>8. InScript(c)'
    BY <1>1, <1>3, <2>1, <2>2, <2>3, <2>4, <2>5, <2>6, <2>7 DEF InScript, Served, masterVars
  <2> QED BY <1>1, <1>5, <2>8 DEF AnswerInv, Done
<1>6. CASE ~Done(c)
  <2>1. NotDone(c)'
    BY <1>1, <1>2, <1>3, <1>4, <1>6 DEF AnswerInv, NotDone, Begun
  <2> QED BY <1>1, <1>6, <2>1 DEF AnswerInv, Done
<1> QED BY <1>5, <1>6

LEMMA ReceiveNumberAnswerInv ==
  ASSUME Inv, NEW c \in Calls, ReceiveNumber(c)
  PROVE  AnswerInv(c)'
<1> DEFINE vs == executed[c].values
<1>1. /\ UNCHANGED <<request, received, taken, closed, masterVars, executed>>
      /\ caller[c] = "number" /\ answer[c] # <<>> /\ Head(answer[c]).kind = "number" /\ Take(c)
      /\ wanted'[c] = Head(answer[c]).value
      /\ caller'[c] = IF wanted'[c] = 0 THEN "confirm" ELSE "value"
  BY DEF ReceiveNumber, Arrived, Goto, Inv, TypeOK, CallType
<1>2. Done(c) /\ InScript(c) /\ Head(answer[c]) = ScriptToken(vs, Position(c))
  BY <1>1, TakesFromScript DEF Begun
<1>3. request[c].op = "READ_RANGE" /\ received[c] = <<>> /\ Position(c) = 0 /\ Position(c)' = 1
  BY <1>1, <1>2 DEF InScript, Position
<1>4. wanted'[c] = Len(vs) /\ vs \in Seq(Data)
  BY <1>1, <1>2, <1>3, ResultType DEF ScriptToken, Token
<1>5. /\ \A i \in DOMAIN answer'[c] : answer'[c][i] = ScriptToken(vs, Position(c)' + i - 1)
      /\ Written(c)' = Written(c)
  BY <1>1, <1>2, <1>3, TakesOne DEF Begun
<1> HIDE DEF vs
<1>6. caller'[c] = "value" => wanted'[c] = Len(vs) - Len(received[c]) /\ wanted'[c] > 0
  BY <1>1, <1>3, <1>4
<1>7. caller'[c] = "confirm" => Len(received[c]) = Len(vs)
  BY <1>1, <1>3, <1>4
<1>8. InScript(c)'
  BY <1>1, <1>2, <1>3, <1>5, <1>6, <1>7 DEF InScript, Served, masterVars, vs
<1> QED BY <1>1, <1>2, <1>8 DEF AnswerInv, Done

LEMMA ReceiveValueAnswerInv ==
  ASSUME Inv, NEW c \in Calls, ReceiveValue(c)
  PROVE  AnswerInv(c)'
<1> DEFINE vs == executed[c].values
           r == received[c]
<1>1. /\ UNCHANGED <<request, taken, closed, masterVars, executed>>
      /\ caller[c] = "value" /\ answer[c] # <<>> /\ Head(answer[c]).kind = "value" /\ Take(c)
      /\ wanted'[c] = wanted[c] - 1
      /\ caller'[c] = (IF wanted[c] = 1 THEN "confirm" ELSE "value")
      /\ received'[c] = Append(r, Head(answer[c]).value)
  BY DEF ReceiveValue, Arrived, Goto, Inv, TypeOK, CallType
<1>2. Done(c) /\ InScript(c) /\ Head(answer[c]) = ScriptToken(vs, Position(c))
  BY <1>1, TakesFromScript DEF Begun
<1>3. /\ request[c].op \in {"READ", "READ_RANGE"}
      /\ wanted[c] = Len(vs) - Len(r) /\ wanted[c] > 0
      /\ \A i \in DOMAIN r : r[i] = vs[i]
  BY <1>1, <1>2 DEF InScript
<1>4. vs \in Seq(Data) /\ r \in Seq(Data) /\ wanted[c] \in Nat
  BY <1>2, CallTypes
<1>5. Position(c) = Len(r) + 1
  BY <1>1 DEF Position
<1>6. Head(answer[c]).value = vs[Len(r) + 1]
  BY <1>1, <1>2, <1>4, <1>5 DEF ScriptToken, Token, Confirmation
<1> DEFINE x == Head(answer[c]).value
<1> HIDE DEF vs, r, x
<1>7. Append(r, x) \in Seq(Data) \/ x \notin Data
  BY <1>4
<1>8. DOMAIN Append(r, x) = 1 .. (Len(r) + 1) /\ Len(Append(r, x)) = Len(r) + 1
      /\ (\A i \in 1 .. Len(r) : Append(r, x)[i] = r[i]) /\ Append(r, x)[Len(r) + 1] = x
  BY <1>4
<1>9. received'[c] = Append(r, x)
  BY <1>1 DEF x
<1>10. \A i \in DOMAIN received'[c] : received'[c][i] = vs[i]
  <2> SUFFICES ASSUME NEW i \in 1 .. (Len(r) + 1) PROVE Append(r, x)[i] = vs[i]
    BY <1>8, <1>9
  <2>1. CASE i = Len(r) + 1
    BY <1>6, <1>8, <2>1 DEF x
  <2>2. CASE i # Len(r) + 1
    <3>1. i \in 1 .. Len(r) /\ i \in DOMAIN r
      BY <1>4, <2>2
    <3> QED BY <1>3, <1>8, <3>1
  <2> QED BY <2>1, <2>2
<1>11. Len(received'[c]) = Len(r) + 1
  BY <1>8, <1>9
<1>12. Position(c)' = Position(c) + 1
  BY <1>1, <1>4, <1>5, <1>11 DEF Position
<1>13. /\ \A i \in DOMAIN answer'[c] : answer'[c][i] = ScriptToken(vs, Position(c)' + i - 1)
       /\ Written(c)' = Written(c)
  BY <1>1, <1>2, <1>12, TakesOne DEF Begun, vs
<1>14. caller'[c] = "value" => wanted'[c] = Len(vs) - Len(received'[c]) /\ wanted'[c] > 0
  BY <1>1, <1>3, <1>4, <1>11
<1>15. caller'[c] = "confirm" => Len(received'[c]) = Len(vs)
  BY <1>1, <1>3, <1>4, <1>11
<1>16. InScript(c)'
  BY <1>1, <1>2, <1>3, <1>10, <1>13, <1>14, <1>15 DEF InScript, Served, masterVars, vs
<1> QED BY <1>1, <1>2, <1>16 DEF AnswerInv, Done

LEMMA CallStepAnswerInv ==
  ASSUME Inv, NEW c \in Calls, Connect(c) \/ CallStep(c) \/ CallerKilled(c) \/ NextCall(c),
         NEW d \in Calls
  PROVE  AnswerInv(d)'
<1>1. CASE d # c
  <2>1. UNCHANGED Local(d) /\ UNCHANGED masterVars
    BY <1>1, OtherCalls, CallStepFrame
  <2>2. AnswerInv(d)
    BY DEF Inv, ProtocolInv
  <2>3. UNCHANGED <<caller[d], request[d], received[d], wanted[d], answer[d], executed[d]>>
        /\ UNCHANGED <<client_socket, master, blocks>>
    BY <2>1 DEF Local, masterVars
  <2>4. Position(d)' = Position(d) /\ Done(d)' = Done(d) /\ Begun(d)' = Begun(d)
        /\ \A places : Served(d, places)' = Served(d, places)
    BY <2>3 DEF Position, Done, Begun, Served
  <2>5. Written(d)' = Written(d)
    BY <2>3, <2>4 DEF Written
  <2>6. InScript(d) => InScript(d)'
    BY <2>3, <2>4, <2>5 DEF InScript
  <2>7. NotDone(d) => NotDone(d)'
    BY <2>3 DEF NotDone
  <2> QED BY <2>2, <2>4, <2>6, <2>7 DEF AnswerInv
<1>2. CASE d = c /\ Connect(c)
  <2>1. caller'[c] = "sending" /\ executed'[c] = None /\ received'[c] = <<>> /\ answer'[c] = <<>>
    BY <1>2, NewIsNotWaiting DEF Connect, Goto, connection, Inv, TypeOK, CallType, ProtocolInv, CallInv
  <2> QED BY <1>2, <2>1 DEF AnswerInv, Done, NotDone
<1>3. CASE d = c /\ SendPart(c)
  BY <1>3, SendPartAnswerInv
<1>4. CASE d = c /\ ReceiveNumber(c)
  BY <1>4, ReceiveNumberAnswerInv
<1>5. CASE d = c /\ ReceiveValue(c)
  BY <1>5, ReceiveValueAnswerInv
<1>6. CASE d = c /\ Misread(c)
  <2>1. /\ caller[c] = "number" /\ answer[c] # <<>> /\ Head(answer[c]).kind = "stray"
        /\ caller'[c] = "misled" /\ answer'[c] = Tail(answer[c])
        /\ UNCHANGED <<request, received, wanted, executed>>
    BY <1>6 DEF Misread, Arrived, Goto, Take, Inv, TypeOK, CallType, ConnectionType
  <2>2. answer[c] \in Seq([kind : {"number", "value", "id", "stray"},
                           value : Nat \cup Data \cup {None}])
    BY CallTypes
  <2>3. AnswerInv(c) /\ Begun(c)
    BY <2>1 DEF Inv, ProtocolInv, Begun
  <2>4. ~Done(c)
    <3> SUFFICES ASSUME Done(c) PROVE FALSE
      OBVIOUS
    <3>1. \A i \in DOMAIN answer[c] :
            answer[c][i] = ScriptToken(executed[c].values, Position(c) + i - 1)
      BY <2>3 DEF AnswerInv, InScript
    <3>2. Head(answer[c]) = answer[c][1] /\ 1 \in DOMAIN answer[c]
      BY <2>1, <2>2
    <3>3. \A vs, i : ScriptToken(vs, i).kind \in {"number", "value", "id"}
      BY DEF ScriptToken, Token, Confirmation
    <3>4. Head(answer[c]) = ScriptToken(executed[c].values, Position(c) + 1 - 1)
      BY <3>1, <3>2
    <3> QED BY <2>1, <3>3, <3>4
  <2>5. NotDone(c)
    BY <2>3, <2>4 DEF AnswerInv
  <2>6. request[c].op = "READ_RANGE"
    BY <2>1, <2>5 DEF NotDone, FirstWait
  <2>7. \A i \in DOMAIN answer'[c] : answer'[c][i] = Stray
    <3>1. \A i \in DOMAIN answer[c] : answer[c][i] = Stray
      BY <2>5 DEF NotDone
    <3>2. \A i \in DOMAIN Tail(answer[c]) : i + 1 \in DOMAIN answer[c]
                                            /\ Tail(answer[c])[i] = answer[c][i + 1]
      BY <2>1, <2>2
    <3> QED BY <2>1, <3>1, <3>2
  <2>8. NotDone(c)'
    BY <2>1, <2>5, <2>6, <2>7 DEF NotDone
  <2> QED BY <1>6, <2>1, <2>4, <2>8 DEF AnswerInv, Done
<1>7. CASE d = c /\ (ReceiveConfirmation(c) \/ CallFails(c) \/ CallerKilled(c) \/ NextCall(c))
  <2>1. caller'[c] \in {"returned", "killed", "new"}
    BY <1>7 DEF ReceiveConfirmation, CallFails, CallerKilled, NextCall, End, Goto, Inv, TypeOK, CallType
  <2> QED BY <1>7, <2>1 DEF AnswerInv, Begun
<1> QED BY <1>1, <1>2, <1>3, <1>4, <1>5, <1>6, <1>7 DEF CallStep
-----------------------------------------------------------------------------
(***************************************************************************)
(* The steps of the master keep the protocol.                              *)
(***************************************************************************)

\* The steps that end with the connection closed, and those of SingleClient.
Drop == ReceiveFails \/ GetUnknownKey \/ NoNum \/ Disconnect
Does == Put \/ Get \/ Clear \/ ClearUnknownKey \/ EndOfRange
Send == SendNumber \/ SendValue \/ SendValueFails \/ Confirm

LEMMA MasterCases ==
  ASSUME MasterStep \/ MasterKilled
  PROVE  Accept \/ ReceivePart \/ Drop \/ Does \/ GetNext \/ SingleClientFails \/ TalkToCaller
         \/ Send \/ MasterKilled
BY DEF MasterStep, Drop, Does, Send

LEMMA DropFacts ==
  ASSUME Inv, Drop
  PROVE  /\ client_socket \in Calls /\ client_socket' = None /\ master' = "accept"
         /\ closed' = [closed EXCEPT ![client_socket] = TRUE]
         /\ UNCHANGED <<callVars, taken, answer, backlog, todo, key_to_block_id, store, executed>>
         /\ blocks' = <<>> /\ todo = {}
<1>1. client_socket \in Calls
  BY DEF Drop, ReceiveFails, GetUnknownKey, NoNum, Disconnect, Inv, TypeOK, MasterType
<1>2. blocks' = <<>> /\ todo = {}
  BY DEF Drop, ReceiveFails, GetUnknownKey, NoNum, Disconnect, Inv, ProtocolInv, RangeInv, RangeRead
<1> QED BY <1>1, <1>2 DEF Drop, ReceiveFails, GetUnknownKey, NoNum, Disconnect, CloseSocket

LEMMA DoesFacts ==
  ASSUME Inv, Does
  PROVE  /\ client_socket \in Calls /\ UNCHANGED client_socket /\ master = "call"
         /\ UNCHANGED <<callVars, taken, answer, closed, backlog, todo>> /\ todo = {}
         /\ executed' = [executed EXCEPT ![client_socket] = Success(blocks')]
         /\ \/ Get /\ master' = "values" /\ Op = "READ" /\ Len(blocks') = 1
            \/ EndOfRange /\ master' = "number" /\ Op = "READ_RANGE" /\ blocks' = blocks
            \/ /\ Put \/ Clear \/ ClearUnknownKey
               /\ master' = "confirm" /\ Op \notin {"READ", "READ_RANGE"} /\ blocks' = <<>>
<1>1. client_socket \in Calls /\ master = "call"
  BY DEF Does, Put, Get, Clear, ClearUnknownKey, EndOfRange, Inv, TypeOK, MasterType
<1>2. todo = {} /\ (Op # "READ_RANGE" => blocks = <<>>)
  BY <1>1 DEF Does, Put, Get, Clear, ClearUnknownKey, EndOfRange, Inv, ProtocolInv, RangeInv, RangeRead
<1>3. UNCHANGED <<callVars, taken, answer, closed, backlog, todo, client_socket>>
  BY DEF Does, Put, Get, Clear, ClearUnknownKey, EndOfRange, connection
<1>4. CASE Get
  BY <1>1, <1>2, <1>3, <1>4 DEF Get, Executed
<1>5. CASE EndOfRange
  BY <1>1, <1>2, <1>3, <1>5 DEF EndOfRange, Executed
<1>6. CASE Put \/ Clear \/ ClearUnknownKey
  BY <1>1, <1>2, <1>3, <1>6 DEF Put, Clear, ClearUnknownKey, Executed
<1> QED BY <1>4, <1>5, <1>6 DEF Does

LEMMA SendFacts ==
  ASSUME Inv, Send
  PROVE  /\ client_socket \in Calls /\ Done(client_socket)
         /\ UNCHANGED <<callVars, taken, backlog, client_socket, todo, oram, executed>>
         /\ todo = {}
         /\ master \in {"number", "values", "confirm"} /\ master' \in {"values", "confirm", "close"}
         /\ \A d \in Calls : d # client_socket \/ Gone => answer'[d] = answer[d]
<1>1. client_socket \in Calls /\ master \in {"number", "values", "confirm"}
  BY DEF Send, SendNumber, SendValue, SendValueFails, Confirm, Inv, TypeOK, MasterType
<1>2. todo = {} /\ Done(client_socket)
  BY <1>1 DEF Inv, ProtocolInv, RangeInv, RangeRead, ServedInv
<1>3. \A d \in Calls : d # client_socket \/ Gone => answer'[d] = answer[d]
  BY <1>1 DEF Send, SendNumber, SendValue, SendValueFails, Confirm, Answer, Inv, TypeOK, ConnectionType
<1> QED BY <1>1, <1>2, <1>3 DEF Send, SendNumber, SendValue, SendValueFails, Confirm, NextValue

LEMMA FailureFacts ==
  ASSUME Inv, SingleClientFails
  PROVE  /\ client_socket \in Calls /\ master = "call"
         /\ UNCHANGED <<callVars, taken, answer>> /\ client_socket' = None
         /\ master' \in {"accept", "dead"} /\ todo' = {} /\ blocks' = <<>>
         /\ UNCHANGED executed \/ executed' = [executed EXCEPT ![client_socket] = Failed]
         /\ \/ UNCHANGED backlog /\ closed' = [closed EXCEPT ![client_socket] = TRUE]
            \/ backlog' = <<>> /\ closed' = [c \in Calls |-> caller[c] # "new"]
BY DEF SingleClientFails, CloseSocket, Die, Executed, Inv, TypeOK, MasterType

LEMMA MasterOthers ==
  ASSUME Inv, MasterStep \/ MasterKilled, NEW d \in Calls, d # client_socket
  PROVE  UNCHANGED <<taken[d], answer[d], executed[d]>>
<1>1. CASE Accept \/ GetNext
  BY <1>1 DEF Accept, GetNext, connection
<1>2. CASE ReceivePart
  BY <1>2 DEF ReceivePart, Inv, TypeOK, ConnectionType
<1>3. CASE Drop
  BY <1>3, DropFacts
<1>4. CASE Does
  BY <1>4, DoesFacts DEF Inv, TypeOK, MasterType
<1>5. CASE Send
  BY <1>5, SendFacts
<1>6. CASE SingleClientFails
  BY <1>6, FailureFacts DEF Inv, TypeOK, MasterType
<1>7. CASE TalkToCaller
  BY <1>7 DEF TalkToCaller, Inv, TypeOK, ConnectionType
<1>8. CASE MasterKilled
  BY <1>8 DEF MasterKilled
<1> QED BY <1>1, <1>2, <1>3, <1>4, <1>5, <1>6, <1>7, <1>8, MasterCases

LEMMA AcceptFacts ==
  ASSUME Inv, Accept
  PROVE  /\ Range(backlog) = Range(backlog') \cup {client_socket'}
         /\ client_socket' \notin Range(backlog') /\ client_socket' \in Calls
         /\ client_socket = None /\ master = "accept" /\ master' = "receive"
         /\ UNCHANGED <<callVars, connection, todo, blocks, key_to_block_id, store, executed>>
<1>1. /\ master = "accept" /\ master' = "receive" /\ backlog # <<>>
      /\ client_socket' = Head(backlog) /\ backlog' = Tail(backlog)
      /\ UNCHANGED <<callVars, connection, todo, blocks, key_to_block_id, store, executed>>
  BY DEF Accept
<1>2. backlog \in Seq(Calls)
  BY DEF Inv, TypeOK, ConnectionType
<1>3. client_socket = None
  BY <1>1 DEF Inv, TypeOK, MasterType
<1>4. \A i, j \in DOMAIN backlog : backlog[i] = backlog[j] => i = j
  BY DEF Inv, ProtocolInv, BacklogInv
<1>5. Head(backlog) \notin Range(Tail(backlog))
  <2>1. /\ DOMAIN Tail(backlog) = 1 .. (Len(backlog) - 1) /\ Len(backlog) \in Nat
        /\ \A i \in 1 .. (Len(backlog) - 1) : Tail(backlog)[i] = backlog[i + 1]
        /\ Head(backlog) = backlog[1] /\ DOMAIN backlog = 1 .. Len(backlog)
    BY <1>1, <1>2
  <2> SUFFICES ASSUME NEW i \in 1 .. (Len(backlog) - 1), backlog[i + 1] = backlog[1] PROVE FALSE
    BY <2>1 DEF Range
  <2>2. i + 1 \in DOMAIN backlog /\ 1 \in DOMAIN backlog /\ i + 1 # 1
    BY <2>1
  <2> QED BY <1>4, <2>2
<1>6. Head(backlog) \in Calls
  BY <1>1, <1>2
<1> QED BY <1>1, <1>2, <1>3, <1>5, <1>6, RangeTail

LEMMA MasterStepCallInv ==
  ASSUME Inv, MasterStep \/ MasterKilled, NEW d \in Calls
  PROVE  CallInv(d)'
<1>1. UNCHANGED <<caller, request, sent, received, wanted>>
  BY MasterStepFrame DEF callVars
<1>2. CallInv(d) /\ WaitingInv(d)
  BY DEF Inv, ProtocolInv
<1>3. ASSUME caller[d] = "new"
      PROVE  /\ UNCHANGED <<taken[d], executed[d]>> /\ ~closed'[d] /\ client_socket' # d
             /\ d # client_socket
  <2>1. d # client_socket /\ d \notin Range(backlog) /\ ~closed[d] /\ d # None
    BY <1>2, <1>3, NoneAssumption DEF CallInv, WaitingInv, Waiting
  <2>2. UNCHANGED <<taken[d], executed[d]>>
    BY <2>1, MasterOthers
  <2>3. client_socket' # d
    <3>1. CASE Accept
      BY <2>1, <3>1, AcceptFacts
    <3>2. CASE ReceivePart \/ GetNext \/ TalkToCaller
      BY <2>1, <3>2 DEF ReceivePart, GetNext, TalkToCaller
    <3>3. CASE Drop \/ Does \/ Send \/ SingleClientFails
      BY <2>1, <3>3, DropFacts, DoesFacts, SendFacts, FailureFacts
    <3>4. CASE MasterKilled
      BY <2>1, <3>4 DEF MasterKilled, Die
    <3> QED BY <3>1, <3>2, <3>3, <3>4, MasterCases
  <2>4. ~closed'[d]
    <3>1. CASE Accept \/ ReceivePart \/ GetNext \/ TalkToCaller \/ Does
      BY <2>1, <3>1, DoesFacts DEF Accept, ReceivePart, GetNext, TalkToCaller, connection
    <3>2. CASE Drop
      BY <2>1, <3>2, DropFacts DEF Inv, TypeOK, ConnectionType
    <3>3. CASE Send
      BY <2>1, <3>3 DEF Send, SendNumber, SendValue, SendValueFails, Confirm, Inv, TypeOK,
         ConnectionType
    <3>4. CASE SingleClientFails
      BY <1>3, <2>1, <3>4, FailureFacts DEF Inv, TypeOK, ConnectionType
    <3>5. CASE MasterKilled
      BY <1>3, <3>5 DEF MasterKilled, Die
    <3> QED BY <3>1, <3>2, <3>3, <3>4, <3>5, MasterCases
  <2> QED BY <2>1, <2>2, <2>3, <2>4
<1>4. ASSUME caller[d] \in {"returned", "killed"} PROVE answer'[d] = answer[d]
  <2>1. CASE d # client_socket
    BY <2>1, MasterOthers
  <2>2. CASE d = client_socket
    <3>1. Gone
      BY <1>4, <2>2 DEF Gone
    <3>2. CASE Accept \/ ReceivePart \/ GetNext \/ MasterKilled
      BY <3>2 DEF Accept, ReceivePart, GetNext, MasterKilled, connection
    <3>3. CASE Drop \/ Does \/ Send \/ SingleClientFails
      BY <3>1, <3>3, DropFacts, DoesFacts, SendFacts, FailureFacts
    <3>4. CASE TalkToCaller
      BY <2>2, <3>1, <3>4 DEF TalkToCaller, Inv, TypeOK, ConnectionType
    <3> QED BY <3>2, <3>3, <3>4, MasterCases
  <2> QED BY <2>1, <2>2
<1>5. caller[d] \in {"new", "returned", "killed"} => answer'[d] = answer[d]
  BY <1>3, <1>4, MasterOthers
<1> QED BY <1>1, <1>2, <1>3, <1>5 DEF CallInv

LEMMA MasterStepBacklogInv ==
  ASSUME Inv, MasterStep \/ MasterKilled
  PROVE  BacklogInv'
<1>1. BacklogInv /\ backlog \in Seq(Calls)
  BY DEF Inv, ProtocolInv, TypeOK, ConnectionType
<1>2. CASE UNCHANGED <<backlog, client_socket>>
  BY <1>1, <1>2 DEF BacklogInv
<1>3. CASE client_socket' = None /\ UNCHANGED backlog
  <2>1. \A i \in DOMAIN backlog : backlog[i] \in Calls
    BY <1>1
  <2> QED BY <1>1, <1>3, <2>1, NoneAssumption DEF BacklogInv
<1>4. CASE backlog' = <<>>
  BY <1>4 DEF BacklogInv
<1>5. CASE Accept
  <2>1. \A i \in DOMAIN backlog' : backlog'[i] # client_socket'
    BY <1>5, AcceptFacts DEF Range
  <2>2. \A i \in DOMAIN Tail(backlog) : i + 1 \in DOMAIN backlog /\ Tail(backlog)[i] = backlog[i + 1]
                                        /\ i \in Nat
    BY <1>1, <1>5 DEF Accept
  <2>3. \A i, j \in DOMAIN backlog' : backlog'[i] = backlog'[j] => i = j
    <3> SUFFICES ASSUME NEW i \in DOMAIN Tail(backlog), NEW j \in DOMAIN Tail(backlog),
                        Tail(backlog)[i] = Tail(backlog)[j]
                 PROVE  i = j
      BY <1>5 DEF Accept
    <3>1. i + 1 = j + 1
      BY <1>1, <2>2 DEF BacklogInv
    <3> QED BY <2>2, <3>1
  <2> QED BY <2>1, <2>3 DEF BacklogInv
<1>6. CASE ReceivePart \/ GetNext \/ TalkToCaller
  BY <1>2, <1>6 DEF ReceivePart, GetNext, TalkToCaller
<1>7. CASE Drop \/ Does \/ Send \/ SingleClientFails
  BY <1>2, <1>3, <1>4, <1>7, DropFacts, DoesFacts, SendFacts, FailureFacts
<1>8. CASE MasterKilled
  BY <1>4, <1>8 DEF MasterKilled, Die
<1> QED BY <1>5, <1>6, <1>7, <1>8, MasterCases

LEMMA MasterStepWaitingInv ==
  ASSUME Inv, MasterStep \/ MasterKilled, NEW d \in Calls
  PROVE  WaitingInv(d)'
<1>1. UNCHANGED caller
  BY MasterStepFrame DEF callVars
<1>2. WaitingInv(d) /\ BacklogInv
  BY DEF Inv, ProtocolInv
<1>3. d \in Range(backlog) => d # client_socket
  BY <1>2 DEF BacklogInv, Range
<1>4. ASSUME Waiting(d), UNCHANGED <<executed[d], closed[d], answer[d]>> PROVE WaitingInv(d)'
  BY <1>1, <1>2, <1>4 DEF WaitingInv
<1>5. CASE ~Waiting(d)'
  BY <1>5 DEF WaitingInv
<1>6. CASE Accept
  BY <1>4, <1>5, <1>6, AcceptFacts DEF Waiting, Served, connection
<1>7. CASE ReceivePart \/ GetNext
  <2>1. /\ UNCHANGED <<executed, closed, answer, backlog, client_socket>>
        /\ master \in {"receive", "call"}
    BY <1>7 DEF ReceivePart, GetNext, connection
  <2> QED BY <1>4, <1>5, <2>1 DEF Waiting, Served
<1>8. CASE Drop
  <2>1. Waiting(d)' => d \in Range(backlog)
    BY <1>8, DropFacts DEF Waiting, Served
  <2>2. d \in Range(backlog) => UNCHANGED <<executed[d], closed[d], answer[d]>>
    BY <1>3, <1>8, DropFacts DEF Inv, TypeOK, ConnectionType
  <2> QED BY <1>4, <1>5, <2>1, <2>2 DEF Waiting
<1>9. CASE Does \/ Send \/ TalkToCaller
  <2>1. UNCHANGED backlog /\ master' \notin {"receive", "call"}
    BY <1>9, DoesFacts, SendFacts DEF TalkToCaller
  <2>2. Waiting(d)' => d \in Range(backlog)
    BY <2>1 DEF Waiting, Served
  <2>3. d \in Range(backlog) => UNCHANGED <<executed[d], answer[d]>>
    BY <1>3, MasterOthers
  <2>4. d \in Range(backlog) => UNCHANGED closed[d]
    BY <1>3, <1>9, DoesFacts DEF TalkToCaller, Send, SendNumber, SendValue, SendValueFails, Confirm,
       Inv, TypeOK, ConnectionType
  <2> QED BY <1>4, <1>5, <2>2, <2>3, <2>4 DEF Waiting
<1>10. CASE SingleClientFails
  <2>1. client_socket' = None /\ master' \in {"accept", "dead"}
    BY <1>10, FailureFacts
  <2>2. CASE backlog' = <<>>
    BY <1>5, <2>1, <2>2 DEF Waiting, Served, Range
  <2>3. CASE UNCHANGED backlog /\ closed' = [closed EXCEPT ![client_socket] = TRUE]
    <3>1. Waiting(d)' => d \in Range(backlog)
      BY <2>1, <2>3 DEF Waiting, Served
    <3>2. d \in Range(backlog) => UNCHANGED <<executed[d], answer[d]>>
      BY <1>3, MasterOthers
    <3>3. d \in Range(backlog) => UNCHANGED closed[d]
      BY <1>3, <2>3 DEF Inv, TypeOK, ConnectionType
    <3> QED BY <1>4, <1>5, <3>1, <3>2, <3>3 DEF Waiting
  <2> QED BY <1>10, <2>2, <2>3, FailureFacts
<1>11. CASE MasterKilled
  BY <1>5, <1>11 DEF MasterKilled, Die, Waiting, Served, Range
<1> QED BY <1>6, <1>7, <1>8, <1>9, <1>10, <1>11, MasterCases

LEMMA MasterStepServedInv ==
  ASSUME Inv, MasterStep \/ MasterKilled
  PROVE  ServedInv'
<1>1. UNCHANGED <<caller, request>>
  BY MasterStepFrame DEF callVars
<1>2. ServedInv
  BY DEF Inv, ProtocolInv
<1>3. CASE Accept
  BY <1>3 DEF Accept, ServedInv
<1>4. CASE ReceivePart \/ GetNext
  <2>1. master' \in {"receive", "call"}
    BY <1>4 DEF ReceivePart, GetNext
  <2> QED BY <2>1 DEF ServedInv
<1>5. CASE Drop \/ SingleClientFails \/ MasterKilled
  <2>1. master' \in {"accept", "dead"}
    BY <1>5, DropFacts, FailureFacts DEF MasterKilled, Die
  <2> QED BY <2>1 DEF ServedInv
<1>6. CASE TalkToCaller
  <2>1. client_socket \in Calls /\ master = "call"
    BY <1>6 DEF TalkToCaller, Inv, TypeOK, MasterType
  <2>2. executed[client_socket] = None
    BY <2>1 DEF Inv, ProtocolInv, WaitingInv, Waiting, Served
  <2> QED BY <1>6, <2>2 DEF TalkToCaller, ServedInv
<1>7. CASE Does
  <2>1. executed'[client_socket] = Success(blocks')
    BY <1>7, DoesFacts DEF Inv, TypeOK, MasterType
  <2>2. Success(blocks') # None
    <3>1. executed' \in [Calls -> Results \cup {None}]
      BY MasterStepMasterType DEF MasterType
    <3>2. Success(blocks') \in Results
      <4>1. blocks' \in Seq(Data)
        BY MasterStepMasterType DEF MasterType
      <4> QED BY <4>1 DEF Success, Results
    <3> QED BY <3>2, NoneAssumption
  <2>3. Done(client_socket)'
    BY <1>7, <2>1, <2>2, DoesFacts DEF Done, Success
  <2>4. Op' = Op
    BY <1>1, <1>7, DoesFacts DEF Op, Operation, Now
  <2> QED BY <1>7, <2>3, <2>4, DoesFacts DEF ServedInv
<1>8. CASE Send
  <2>1. UNCHANGED <<client_socket, executed>> /\ Done(client_socket)
    BY <1>8, SendFacts
  <2>2. Op' = Op /\ Done(client_socket)'
    BY <1>1, <2>1 DEF Op, Operation, Now, Done
  <2>3. master' = "values" => Op \in {"READ", "READ_RANGE"}
    BY <1>2, <1>8 DEF Send, SendNumber, SendValue, SendValueFails, Confirm, NextValue, ServedInv
  <2> QED BY <1>8, <2>2, <2>3, SendFacts DEF ServedInv
<1> QED BY <1>3, <1>4, <1>5, <1>6, <1>7, <1>8, MasterCases

LEMMA MasterStepResultInv ==
  ASSUME Inv, MasterStep \/ MasterKilled, NEW d \in Calls
  PROVE  ResultInv(d)'
<1>1. UNCHANGED request
  BY MasterStepFrame DEF callVars
<1>2. ResultInv(d)
  BY DEF Inv, ProtocolInv
<1>3. CASE UNCHANGED executed[d]
  BY <1>1, <1>2, <1>3 DEF ResultInv, Done
<1>4. CASE d = client_socket /\ Does
  <2>1. executed'[d] = Success(blocks')
    BY <1>4, DoesFacts DEF Inv, TypeOK, MasterType
  <2>2. executed'[d].values = blocks'
    BY <2>1 DEF Success
  <2>3. client_socket # None /\ Now = request[d] /\ Now \in Requests
    BY <1>4, Serving, NoneAssumption DEF Now
  <2>4. CASE Op = "READ" /\ Len(blocks') = 1
    <3>1. request[d].op = "READ"
      BY <2>3, <2>4 DEF Op, Operation
    <3>2. Cardinality(Keys) \in Nat /\ Cardinality(Keys) > 0
      BY <2>3, SomeKey
    <3> QED BY <1>1, <2>2, <2>4, <3>1, <3>2 DEF ResultInv
  <2>5. CASE Op = "READ_RANGE" /\ EndOfRange /\ blocks' = blocks
    <3>1. request[d].op = "READ_RANGE"
      BY <2>3, <2>5 DEF Op, Operation
    <3>2. Len(blocks) <= Cardinality(Keys)
      BY <2>5, RangeFacts DEF RangeRead, EndOfRange
    <3> QED BY <1>1, <2>2, <2>5, <3>1, <3>2 DEF ResultInv
  <2>6. CASE Op \notin {"READ", "READ_RANGE"} /\ blocks' = <<>>
    <3>1. request[d].op \notin {"READ", "READ_RANGE"}
      BY <2>3, <2>6 DEF Op, Operation
    <3>2. Len(blocks') <= Cardinality(Keys)
      BY <2>3, <2>6, SomeKey
    <3> QED BY <1>1, <2>2, <2>6, <3>1, <3>2 DEF ResultInv
  <2> QED BY <1>4, <2>4, <2>5, <2>6, DoesFacts
<1>5. CASE d = client_socket /\ SingleClientFails
  <2>1. UNCHANGED executed[d] \/ executed'[d] = Failed
    BY <1>5, FailureFacts DEF Inv, TypeOK, MasterType
  <2> QED BY <1>3, <2>1 DEF ResultInv, Done, Failed
<1>6. CASE Accept \/ ReceivePart \/ GetNext \/ TalkToCaller \/ MasterKilled
  BY <1>3, <1>6 DEF Accept, ReceivePart, GetNext, TalkToCaller, MasterKilled
<1>7. CASE Drop \/ Send
  BY <1>3, <1>7, DropFacts, SendFacts
<1> QED BY <1>3, <1>4, <1>5, <1>6, <1>7, MasterOthers, MasterCases

\* Sending the next part of the answer.
LEMMA WritesOne ==
  ASSUME Inv, NEW c \in Calls, Begun(c), Done(c), UNCHANGED callVars, UNCHANGED executed,
         NEW t, answer'[c] = Append(answer[c], t), t = ScriptToken(executed[c].values, Written(c))
  PROVE  LET vs == executed[c].values IN
         /\ \A i \in DOMAIN answer'[c] : answer'[c][i] = ScriptToken(vs, Position(c)' + i - 1)
         /\ Written(c)' = Written(c) + 1
<1> DEFINE vs == executed[c].values
           a == answer[c]
           p == Position(c)
<1>1. a \in Seq([kind : {"number", "value", "id", "stray"}, value : Nat \cup Data \cup {None}])
      /\ p \in Nat
  BY CallTypes
<1>2. \A i \in DOMAIN a : a[i] = ScriptToken(vs, p + i - 1)
  BY DEF Inv, ProtocolInv, AnswerInv, InScript
<1>3. Position(c)' = p
  BY DEF Position, callVars
<1>4. Written(c) = p + Len(a)
  BY DEF Written
<1> HIDE DEF p, vs, a
<1>5. /\ Len(Append(a, t)) = Len(a) + 1 /\ DOMAIN Append(a, t) = 1 .. (Len(a) + 1) /\ Len(a) \in Nat
      /\ \A i \in 1 .. Len(a) : i \in DOMAIN a /\ Append(a, t)[i] = a[i]
      /\ Append(a, t)[Len(a) + 1] = t
  BY <1>1
<1>6. \A i \in DOMAIN Append(a, t) : Append(a, t)[i] = ScriptToken(vs, p + i - 1)
  <2> SUFFICES ASSUME NEW i \in 1 .. (Len(a) + 1) PROVE Append(a, t)[i] = ScriptToken(vs, p + i - 1)
    BY <1>5
  <2>1. CASE i = Len(a) + 1
    <3>1. p + i - 1 = p + Len(a)
      BY <1>1, <1>5, <2>1
    <3> QED BY <1>4, <1>5, <2>1, <3>1 DEF vs
  <2>2. CASE i # Len(a) + 1
    <3>1. i \in 1 .. Len(a)
      BY <1>5, <2>2
    <3> QED BY <1>2, <1>5, <3>1
  <2> QED BY <2>1, <2>2
<1>7. answer'[c] = Append(a, t)
  BY DEF a
<1>8. Written(c)' = Written(c) + 1
  BY <1>1, <1>3, <1>4, <1>5, <1>7 DEF Written
<1> QED BY <1>3, <1>6, <1>7, <1>8 DEF vs

\* What no step of the master changes for a call keeps its answer.
LEMMA AnswerKept ==
  ASSUME Inv, NEW d \in Calls, UNCHANGED callVars, UNCHANGED answer[d],
         UNCHANGED executed[d] \/ (~Done(d) /\ ~Done(d)'),
         ~Served(d, {"number", "values", "confirm"})'
  PROVE  AnswerInv(d)'
<1>1. UNCHANGED <<caller[d], request[d], received[d], wanted[d]>>
  BY DEF callVars
<1>2. AnswerInv(d)
  BY DEF Inv, ProtocolInv
<1>3. Position(d)' = Position(d) /\ Begun(d)' = Begun(d) /\ Done(d)' = Done(d)
  BY <1>1 DEF Position, Begun, Done
<1>4. Written(d)' = Written(d)
  BY <1>3 DEF Written
<1>5. ~Served(d, {"number"})' /\ ~Served(d, {"values"})' /\ ~Served(d, {"confirm"})'
  BY DEF Served
<1>6. InScript(d) /\ UNCHANGED executed[d] => InScript(d)'
  BY <1>1, <1>3, <1>4, <1>5 DEF InScript
<1>7. NotDone(d) => NotDone(d)'
  BY <1>1 DEF NotDone
<1> QED BY <1>2, <1>3, <1>6, <1>7 DEF AnswerInv

LEMMA DoesAnswerInv ==
  ASSUME Inv, Does, NEW m \in Calls, m = client_socket
  PROVE  AnswerInv(m)'
<1>1. /\ m \in Calls /\ UNCHANGED client_socket /\ master = "call"
      /\ UNCHANGED <<caller, request, received, wanted, answer>>
      /\ executed' = [executed EXCEPT ![m] = Success(blocks')]
  BY DoesFacts DEF callVars
<1>2. m # None /\ executed'[m].values = blocks' /\ executed'[m].ok
  BY <1>1, NoneAssumption DEF Success, Inv, TypeOK, MasterType
<1>3. Done(m)'
  BY <1>1, DoesFacts, MasterStepServedInv DEF ServedInv, Does, MasterStep
<1>4. /\ executed[m] = None /\ answer[m] = <<>> /\ caller[m] # "misled"
  BY <1>1 DEF Inv, ProtocolInv, WaitingInv, Waiting, Served
<1>5. AnswerInv(m)
  BY <1>1 DEF Inv, ProtocolInv
<1>6. ASSUME Begun(m)
      PROVE  InScript(m)'
  <2>1. received[m] = <<>> /\ caller[m] \in {"sending", FirstWait(request[m])}
        /\ (caller[m] = "value" => wanted[m] = 1)
    BY <1>4, <1>5, <1>6 DEF AnswerInv, NotDone, Done
  <2>2. Now = request[m]
    BY DEF Now
  <2>3. blocks' \in Seq(Data)
    BY DoesFacts, MasterStepMasterType DEF Does, MasterStep, MasterType
  <2>4. CASE Get /\ master' = "values" /\ Op = "READ" /\ Len(blocks') = 1
    <3>1. request[m].op = "READ"
      BY <2>2, <2>4 DEF Op, Operation
    <3>2. Position(m)' = 1
      BY <1>1, <2>1, <3>1 DEF Position
    <3>3. Written(m)' = 1
      BY <1>1, <1>4, <3>2 DEF Written
    <3>4. /\ caller'[m] # "number" /\ caller'[m] # "confirm"
          /\ caller'[m] = "value" => wanted'[m] = 1
      BY <1>1, <2>1, <3>1 DEF FirstWait
    <3>5. \A j \in DOMAIN blocks' : blocks'[j] = blocks'[Len(blocks') - Len(blocks') + j]
      BY <2>3
    <3>6. Served(m, {"values"})' /\ ~Served(m, {"number"})' /\ ~Served(m, {"confirm"})'
      BY <1>1, <2>4 DEF Served
    <3>7. caller'[m] = "value" => wanted'[m] = Len(blocks') - Len(received'[m]) /\ wanted'[m] > 0
      BY <1>1, <2>1, <2>4, <3>4
    <3>8. Written(m)' <= Len(blocks') + 2 /\ Written(m)' = Len(blocks') - Len(blocks') + 1
      BY <2>4, <3>3
    <3> QED BY <1>1, <1>2, <1>4, <2>1, <2>3, <3>1, <3>4, <3>5, <3>6, <3>7, <3>8 DEF InScript
  <2>5. CASE EndOfRange /\ master' = "number" /\ Op = "READ_RANGE" /\ blocks' = blocks
    <3>1. request[m].op = "READ_RANGE"
      BY <2>2, <2>5 DEF Op, Operation
    <3>2. Position(m)' = 0
      BY <1>1, <2>1, <3>1 DEF Position, FirstWait
    <3>3. Written(m)' = 0
      BY <1>1, <1>4, <3>2 DEF Written
    <3>4. caller'[m] # "value" /\ caller'[m] # "confirm"
      BY <1>1, <2>1, <3>1 DEF FirstWait
    <3>5. Served(m, {"number"})' /\ ~Served(m, {"values"})' /\ ~Served(m, {"confirm"})'
      BY <1>1, <2>5 DEF Served
    <3>6. Written(m)' <= Len(blocks') + 2
      BY <2>3, <3>3
    <3> QED BY <1>1, <1>2, <1>4, <2>1, <3>1, <3>3, <3>4, <3>5, <3>6 DEF InScript
  <2>6. CASE master' = "confirm" /\ Op \notin {"READ", "READ_RANGE"} /\ blocks' = <<>>
    <3>1. request[m].op \notin {"READ", "READ_RANGE"}
      BY <2>2, <2>6 DEF Op, Operation
    <3>2. Position(m)' = 1
      BY <1>1, <2>1, <3>1 DEF Position
    <3>3. Written(m)' = 1
      BY <1>1, <1>4, <3>2 DEF Written
    <3>4. caller'[m] # "value" /\ caller'[m] # "number"
      BY <1>1, <2>1, <3>1 DEF FirstWait
    <3>5. Served(m, {"confirm"})' /\ ~Served(m, {"values"})' /\ ~Served(m, {"number"})'
      BY <1>1, <2>6 DEF Served
    <3>6. Len(received'[m]) = Len(blocks') /\ Len(blocks') = 0
      BY <1>1, <2>1, <2>6
    <3>7. Written(m)' <= Len(blocks') + 2 /\ Written(m)' = Len(blocks') + 1
      BY <3>3, <3>6
    <3> QED BY <1>1, <1>2, <1>4, <2>1, <3>4, <3>5, <3>6, <3>7 DEF InScript
  <2> QED BY <2>4, <2>5, <2>6, DoesFacts
<1> QED BY <1>1, <1>3, <1>6 DEF AnswerInv, Begun

LEMMA SendAnswerInv ==
  ASSUME Inv, Send, NEW m \in Calls, m = client_socket
  PROVE  AnswerInv(m)'
<1> DEFINE vs == executed[m].values
<1>1. /\ m \in Calls /\ UNCHANGED client_socket /\ Done(m)
      /\ UNCHANGED callVars /\ UNCHANGED executed
  BY SendFacts
<1>2. UNCHANGED <<caller, request, received, wanted>>
  BY <1>1 DEF callVars
<1>3. AnswerInv(m)
  BY <1>1 DEF Inv, ProtocolInv
<1>4. ASSUME Begun(m)
      PROVE  InScript(m)'
  <2>1. InScript(m) /\ ~Gone
    BY <1>1, <1>3, <1>4 DEF AnswerInv, Begun, Gone
  <2>2. vs \in Seq(Data) /\ blocks \in Seq(Data) /\ Position(m) \in Nat /\ Written(m) \in Nat
    <3>1. answer[m] \in Seq([kind : {"number", "value", "id", "stray"},
                             value : Nat \cup Data \cup {None}]) /\ Position(m) \in Nat
      BY <1>1, CallTypes
    <3> QED BY <1>1, <3>1, CallTypes DEF Written, Inv, TypeOK, MasterType
  <2>3. ASSUME NEW t, answer' = [answer EXCEPT ![m] = IF Gone THEN @ ELSE Append(@, t)]
        PROVE  answer'[m] = Append(answer[m], t)
    BY <1>1, <2>1, <2>3 DEF Inv, TypeOK, ConnectionType
  <2>4. ASSUME \A i \in DOMAIN answer'[m] : answer'[m][i] = ScriptToken(vs, Position(m)' + i - 1),
               Written(m)' <= Len(vs) + 2, ~Served(m, {"number"})',
               Served(m, {"values"})' => /\ Len(blocks') <= Len(vs)
                                         /\ Written(m)' = Len(vs) - Len(blocks') + 1
                                         /\ \A j \in DOMAIN blocks' :
                                              blocks'[j] = vs[Len(vs) - Len(blocks') + j],
               Served(m, {"confirm"})' => Written(m)' = Len(vs) + 1
        PROVE  InScript(m)'
    BY <1>1, <1>2, <2>1, <2>4 DEF InScript
  <2>5. CASE SendNumber
    <3>1. /\ master = "number" /\ answer'[m] = Append(answer[m], Token("number", Len(blocks)))
          /\ blocks' = blocks /\ master' = (IF blocks = <<>> THEN "confirm" ELSE "values")
      BY <2>3, <2>5 DEF SendNumber, Answer
    <3>2. Written(m) = 0 /\ blocks = vs
      BY <2>1, <3>1 DEF InScript, Served
    <3>3. Token("number", Len(blocks)) = ScriptToken(vs, Written(m))
      BY <3>2 DEF ScriptToken
    <3>4. /\ \A i \in DOMAIN answer'[m] : answer'[m][i] = ScriptToken(vs, Position(m)' + i - 1)
          /\ Written(m)' = 1
      BY <1>1, <1>4, <3>1, <3>2, <3>3, WritesOne
    <3>5. Len(vs) \in Nat /\ \A j \in DOMAIN vs : vs[j] = vs[Len(vs) - Len(vs) + j]
      BY <2>2
    <3>6. master' = "confirm" => Len(vs) = 0
      BY <3>1, <3>2
    <3> QED BY <1>1, <2>4, <3>1, <3>2, <3>4, <3>5, <3>6 DEF Served
  <2>6. CASE SendValue
    <3>1. /\ master = "values" /\ answer'[m] = Append(answer[m], Token("value", Head(blocks)))
          /\ blocks' = Tail(blocks) /\ master' = (IF Len(blocks) = 1 THEN "confirm" ELSE "values")
      BY <2>3, <2>6 DEF SendValue, Answer, NextValue
    <3>2. /\ Len(blocks) <= Len(vs) /\ Written(m) = Len(vs) - Len(blocks) + 1
          /\ \A j \in DOMAIN blocks : blocks[j] = vs[Len(vs) - Len(blocks) + j]
      BY <2>1, <3>1 DEF InScript, Served
    <3>3. blocks # <<>>
      BY <3>1 DEF Inv, ProtocolInv, RangeInv
    <3> HIDE DEF vs
    <3>4. /\ Len(blocks) \in Nat /\ Len(blocks) > 0 /\ Len(vs) \in Nat
          /\ Len(Tail(blocks)) = Len(blocks) - 1 /\ Head(blocks) = blocks[1] /\ 1 \in DOMAIN blocks
          /\ DOMAIN Tail(blocks) = 1 .. (Len(blocks) - 1)
          /\ \A j \in 1 .. (Len(blocks) - 1) : j + 1 \in DOMAIN blocks /\ Tail(blocks)[j] = blocks[j + 1]
      BY <2>2, <3>3
    <3>5. Token("value", Head(blocks)) = ScriptToken(vs, Written(m))
      <4>1. Head(blocks) = vs[Written(m)]
        BY <3>2, <3>4
      <4>2. Written(m) # 0 /\ Written(m) <= Len(vs)
        BY <3>2, <3>4
      <4> QED BY <4>1, <4>2 DEF ScriptToken
    <3>6. /\ \A i \in DOMAIN answer'[m] : answer'[m][i] = ScriptToken(vs, Position(m)' + i - 1)
          /\ Written(m)' = Written(m) + 1
      BY <1>1, <1>4, <3>1, <3>5, WritesOne DEF vs
    <3>7. /\ Len(blocks') <= Len(vs) /\ Written(m)' = Len(vs) - Len(blocks') + 1
          /\ Written(m)' <= Len(vs) + 2
      <4>1. Len(blocks') = Len(blocks) - 1
        BY <3>1, <3>4
      <4> QED BY <3>2, <3>4, <3>6, <4>1
    <3>8. \A j \in DOMAIN blocks' : blocks'[j] = vs[Len(vs) - Len(blocks') + j]
      <4> SUFFICES ASSUME NEW j \in 1 .. (Len(blocks) - 1)
                   PROVE  Tail(blocks)[j] = vs[Len(vs) - (Len(blocks) - 1) + j]
        BY <3>1, <3>4
      <4>1. Tail(blocks)[j] = vs[Len(vs) - Len(blocks) + (j + 1)]
        BY <3>2, <3>4
      <4>2. Len(vs) - Len(blocks) + (j + 1) = Len(vs) - (Len(blocks) - 1) + j
        BY <3>4
      <4> QED BY <4>1, <4>2
    <3>9. master' = "confirm" => Written(m)' = Len(vs) + 1
      <4>1. master' = "confirm" => Len(blocks) = 1
        BY <3>1
      <4>2. Len(blocks') = Len(blocks) - 1
        BY <3>1, <3>4
      <4> QED BY <3>4, <3>7, <4>1, <4>2
    <3>10. master' \notin {"number"}
      BY <3>1
    <3> QED BY <1>1, <2>4, <3>6, <3>7, <3>8, <3>9, <3>10 DEF Served, vs
  <2>7. CASE Confirm
    <3>1. /\ master = "confirm" /\ answer'[m] = Append(answer[m], Confirmation) /\ master' = "close"
      BY <2>3, <2>7 DEF Confirm, Answer
    <3>2. Written(m) = Len(vs) + 1
      BY <2>1, <3>1 DEF InScript, Served
    <3>3. Confirmation = ScriptToken(vs, Written(m))
      <4>1. Len(vs) \in Nat
        BY <2>2
      <4>2. Written(m) # 0 /\ ~(Written(m) <= Len(vs))
        BY <3>2, <4>1
      <4> QED BY <4>2 DEF ScriptToken
    <3>4. /\ \A i \in DOMAIN answer'[m] : answer'[m][i] = ScriptToken(vs, Position(m)' + i - 1)
          /\ Written(m)' = Written(m) + 1
      BY <1>1, <1>4, <3>1, <3>3, WritesOne
    <3>5. Written(m)' <= Len(vs) + 2
      BY <2>2, <3>2, <3>4
    <3> QED BY <2>4, <3>1, <3>4, <3>5 DEF Served
  <2>8. CASE SendValueFails
    BY <2>1, <2>8 DEF SendValueFails
  <2> QED BY <2>5, <2>6, <2>7, <2>8 DEF Send
<1> QED BY <1>1, <1>2, <1>4 DEF AnswerInv, Begun, Done

LEMMA MasterStepAnswerInv ==
  ASSUME Inv, MasterStep \/ MasterKilled, NEW d \in Calls
  PROVE  AnswerInv(d)'
<1>1. UNCHANGED callVars
  BY MasterStepFrame
<1>2. d # None
  BY NoneAssumption
<1>3. CASE Accept
  BY <1>1, <1>3, AcceptFacts, AnswerKept DEF Served, connection
<1>4. CASE ReceivePart \/ GetNext
  <2>1. master' \in {"receive", "call"} /\ UNCHANGED <<answer, executed>>
    BY <1>4 DEF ReceivePart, GetNext, connection
  <2> QED BY <1>1, <2>1, AnswerKept DEF Served
<1>5. CASE Drop
  <2>1. master' = "accept" /\ UNCHANGED <<answer, executed>>
    BY <1>5, DropFacts
  <2> QED BY <1>1, <2>1, AnswerKept DEF Served
<1>6. CASE MasterKilled
  <2>1. master' = "dead" /\ UNCHANGED <<answer, executed>>
    BY <1>6 DEF MasterKilled, Die
  <2> QED BY <1>1, <2>1, AnswerKept DEF Served
<1>7. CASE SingleClientFails
  <2>1. master = "call" /\ master' \in {"accept", "dead"} /\ UNCHANGED answer
        /\ (UNCHANGED executed \/ executed' = [executed EXCEPT ![client_socket] = Failed])
    BY <1>7, FailureFacts
  <2>2. ~Served(d, {"number", "values", "confirm"})'
    BY <2>1 DEF Served
  <2>3. UNCHANGED executed[d] \/ (~Done(d) /\ ~Done(d)')
    <3>1. CASE d # client_socket
      BY <1>7, <3>1, MasterOthers DEF MasterStep
    <3>2. CASE d = client_socket
      <4>1. executed[d] = None
        BY <2>1, <3>2 DEF Inv, ProtocolInv, WaitingInv, Waiting, Served
      <4>2. UNCHANGED executed[d] \/ executed'[d] = Failed
        BY <2>1, <3>2 DEF Inv, TypeOK, MasterType
      <4> QED BY <4>1, <4>2 DEF Done, Failed
    <3> QED BY <3>1, <3>2
  <2> QED BY <1>1, <2>1, <2>2, <2>3, AnswerKept
<1>8. CASE d # client_socket /\ (Does \/ Send \/ TalkToCaller)
  <2>1. UNCHANGED client_socket
    BY <1>8, DoesFacts, SendFacts DEF TalkToCaller
  <2>2. ~Served(d, {"number", "values", "confirm"})'
    BY <1>8, <2>1 DEF Served
  <2> QED BY <1>1, <1>8, <2>2, MasterOthers, AnswerKept
<1>9. CASE d = client_socket /\ Does
  BY <1>9, DoesAnswerInv
<1>10. CASE d = client_socket /\ Send
  BY <1>10, SendAnswerInv
<1>11. CASE d = client_socket /\ TalkToCaller
  <2>1. executed[d] = None /\ answer[d] = <<>>
    BY <1>11 DEF TalkToCaller, Inv, ProtocolInv, WaitingInv, Waiting, Served
  <2>2. ~Done(d) /\ AnswerInv(d)
    BY <2>1 DEF Done, Inv, ProtocolInv
  <2>3. answer'[d] \in {<<>>, <<Stray>>} /\ UNCHANGED executed
    BY <1>11, <2>1 DEF TalkToCaller, Inv, TypeOK, ConnectionType
  <2>4. \A i \in DOMAIN answer'[d] : answer'[d][i] = Stray
    BY <2>3
  <2>5. UNCHANGED <<caller, request, received, wanted>>
    BY <1>1 DEF callVars
  <2>6. NotDone(d) => NotDone(d)'
    BY <2>4, <2>5 DEF NotDone
  <2> QED BY <2>2, <2>3, <2>5, <2>6 DEF AnswerInv, Begun, Done
<1> QED
  BY <1>3, <1>4, <1>5, <1>6, <1>7, <1>8, <1>9, <1>10, <1>11, MasterCases

LEMMA MasterStepRangeInv ==
  ASSUME Inv, MasterStep \/ MasterKilled
  PROVE  RangeInv'
<1>1. UNCHANGED request
  BY MasterStepFrame DEF callVars
<1>2. RangeInv
  BY DEF Inv, ProtocolInv
<1>3. CASE Accept
  <2>1. master = "accept" /\ master' = "receive" /\ UNCHANGED <<todo, blocks>>
    BY <1>3, AcceptFacts
  <2> QED BY <1>2, <2>1 DEF RangeInv, RangeRead
<1>4. CASE ReceivePart
  <2>1. blocks = <<>> /\ todo = {} /\ master = "receive"
    BY <1>2, <1>4 DEF RangeInv, ReceivePart, RangeRead
  <2>2. UNCHANGED <<client_socket, blocks, oram>>
    BY <1>4 DEF ReceivePart
  <2>3. Op' = Op /\ Now' = Now
    BY <1>1, <2>2 DEF Op, Operation, Now
  <2>4. CASE UNCHANGED <<master, todo>>
    BY <2>1, <2>2, <2>4 DEF RangeInv, RangeRead
  <2>5. CASE /\ master' = "call"
             /\ todo' = IF Op = "READ_RANGE" THEN Between(key_to_block_id, Now) ELSE {}
    <3>1. CASE Op # "READ_RANGE"
      BY <2>1, <2>2, <2>3, <2>5, <3>1 DEF RangeInv, RangeRead
    <3>2. CASE Op = "READ_RANGE"
      <4>1. <<>> \in ValuesOf(store, {})
        BY NoValues
      <4>2. Between(key_to_block_id, Now) \ todo' = {} /\ todo' = Between(key_to_block_id, Now)
        BY <2>5, <3>2
      <4>3. UNCHANGED <<key_to_block_id, store>>
        BY <2>2 DEF oram
      <4> QED BY <2>1, <2>2, <2>3, <2>5, <3>2, <4>1, <4>2, <4>3 DEF RangeInv, RangeRead
    <3> QED BY <3>1, <3>2
  <2> QED BY <1>4, <2>4, <2>5 DEF ReceivePart
<1>5. CASE Drop \/ SingleClientFails \/ MasterKilled
  <2>1. master' \in {"accept", "dead"} /\ todo' = {} /\ blocks' = <<>>
    BY <1>5, DropFacts, FailureFacts DEF MasterKilled, Die
  <2> QED BY <2>1 DEF RangeInv, RangeRead
<1>6. CASE Does
  <2>1. todo' = {} /\ master' \in {"values", "number", "confirm"}
        /\ (master' = "values" => Len(blocks') = 1) /\ (master' = "confirm" => blocks' = <<>>)
    BY <1>6, DoesFacts
  <2> QED BY <2>1 DEF RangeInv, RangeRead
<1>7. CASE GetNext
  <2>1. RangeRead /\ socket_fd = "server"
    BY <1>2, <1>7 DEF GetNext, RangeInv
  <2> DEFINE K == Between(key_to_block_id, Now)
             k == Min(todo)
  <2>2. /\ todo' = todo \ {k} /\ blocks' = Append(blocks, store[k])
        /\ UNCHANGED <<master, client_socket, oram>>
    BY <1>7 DEF GetNext
  <2>3. Op' = Op /\ Now' = Now /\ UNCHANGED <<key_to_block_id, store, socket_fd>> /\ RangeRead'
    BY <1>1, <2>1, <2>2 DEF Op, Operation, Now, oram, RangeRead
  <2>4. /\ K \subseteq Keys /\ IsFiniteSet(K \ todo) /\ todo \subseteq K
        /\ blocks \in ValuesOf(store, K \ todo)
    BY <2>1, RangeFacts
  <2>5. K \subseteq Nat
    BY <2>4, KeysAreNumbers
  <2>6. k \in todo /\ (\A t \in todo : k <= t) /\ k \in Nat
    BY <1>7, <2>4, <2>5, MinIsLeast DEF GetNext
  <2>7. \A x \in K \ todo, t \in todo : x < t
    BY <1>2, <2>1 DEF RangeInv
  <2> HIDE DEF K, k
  <2>8. (K \ todo) \cup {k} = K \ (todo \ {k})
    BY <2>4, <2>6
  <2>9. Append(blocks, store[k]) \in ValuesOf(store, (K \ todo) \cup {k})
    BY <2>4, <2>5, <2>6, <2>7, ValuesAppend
  <2>10. \A x \in K \ (todo \ {k}), t \in todo \ {k} : x < t
    <3> SUFFICES ASSUME NEW x \in K \ (todo \ {k}), NEW t \in todo \ {k} PROVE x < t
      OBVIOUS
    <3>1. CASE x = k
      <4>1. k <= t /\ k # t /\ t \in Nat
        BY <2>4, <2>5, <2>6
      <4> QED BY <2>6, <3>1, <4>1
    <3>2. CASE x # k
      BY <2>7, <3>2
    <3> QED BY <3>1, <3>2
  <2> QED BY <2>1, <2>2, <2>3, <2>4, <2>8, <2>9, <2>10 DEF RangeInv, RangeRead, K
<1>8. CASE TalkToCaller
  <2>1. blocks = <<>>
    BY <1>2, <1>8 DEF TalkToCaller, RangeInv, RangeRead
  <2> QED BY <1>8, <2>1 DEF TalkToCaller, RangeInv, RangeRead
<1>9. CASE Send
  <2>1. todo' = {} /\ master' \in {"values", "confirm", "close"}
    BY <1>9, SendFacts
  <2>2. master' = "values" => blocks' # <<>>
    <3>1. blocks \in Seq(Data)
      BY DEF Inv, TypeOK, MasterType
    <3>2. CASE SendNumber \/ Confirm
      BY <3>2 DEF SendNumber, Confirm
    <3>3. CASE SendValue \/ SendValueFails
      <4>1. blocks # <<>> /\ blocks' = Tail(blocks) /\ (master' = "values" => Len(blocks) # 1)
        BY <1>2, <3>3 DEF SendValue, SendValueFails, NextValue, RangeInv
      <4> QED BY <3>1, <4>1, EmptyTail
    <3> QED BY <1>9, <3>2, <3>3 DEF Send
  <2>3. master' \in {"confirm", "close"} => blocks' = <<>>
    <3>1. blocks \in Seq(Data)
      BY DEF Inv, TypeOK, MasterType
    <3>2. CASE SendNumber \/ Confirm
      BY <1>2, <3>2 DEF SendNumber, Confirm, RangeInv
    <3>3. CASE SendValue \/ SendValueFails
      <4>1. blocks # <<>> /\ blocks' = Tail(blocks) /\ (master' \in {"confirm", "close"} => Len(blocks) = 1)
        BY <1>2, <3>3 DEF SendValue, SendValueFails, NextValue, RangeInv
      <4> QED BY <3>1, <4>1, EmptyTail
    <3> QED BY <1>9, <3>2, <3>3 DEF Send
  <2> QED BY <2>1, <2>2, <2>3 DEF RangeInv, RangeRead
<1> QED BY <1>3, <1>4, <1>5, <1>6, <1>7, <1>8, <1>9, MasterCases
-----------------------------------------------------------------------------
LEMMA InitInv == Init => Inv
<1> SUFFICES ASSUME Init PROVE Inv
  OBVIOUS
<1>1. Cardinality(Keys) \in Nat
  BY KeysAreNumbers, FS_CardinalityType
<1>2. CallType
  <2>1. 0 \in 0 .. Cardinality(Keys)
    BY <1>1
  <2> QED BY <2>1 DEF Init, CallType
<1>3. ConnectionType
  <2>1. /\ taken \in [Calls -> 0 .. 2] /\ \A c \in Calls : taken[c] <= sent[c]
        /\ closed \in [Calls -> BOOLEAN] /\ backlog \in Seq(Calls)
    BY DEF Init
  <2>2. answer \in [Calls -> Seq([kind : {"number", "value", "id", "stray"},
                                  value : Nat \cup Data \cup {None}])]
    BY DEF Init
  <2> QED BY <2>1, <2>2 DEF ConnectionType
<1>4. MasterType
  <2>1. store \in [DOMAIN store -> Data] /\ DOMAIN store = {}
    BY DEF Init
  <2> QED BY <2>1 DEF Init, MasterType
<1>5. KeysMatchStore
  BY DEF Init, KeysMatchStore
<1>6. ASSUME NEW c \in Calls
      PROVE  CallInv(c) /\ WaitingInv(c) /\ ResultInv(c) /\ AnswerInv(c)
  <2>1. c # None
    BY NoneAssumption
  <2>2. CallInv(c) /\ ResultInv(c) /\ AnswerInv(c)
    BY <2>1 DEF Init, CallInv, ResultInv, AnswerInv, Done, Begun
  <2>3. ~Waiting(c)
    BY DEF Init, Waiting, Served, Range
  <2> QED BY <2>2, <2>3 DEF WaitingInv
<1>7. BacklogInv /\ ServedInv /\ RangeInv
  BY DEF Init, BacklogInv, ServedInv, RangeInv, RangeRead
<1> QED BY <1>2, <1>3, <1>4, <1>5, <1>6, <1>7 DEF Inv, TypeOK, ProtocolInv

LEMMA NextInv ==
  ASSUME Inv, [Next]_vars
  PROVE  Inv'
<1>1. KeysMatchStore'
  BY KeysStep DEF Inv
<1>2. ASSUME NEW c \in Calls, Connect(c) \/ CallStep(c) \/ CallerKilled(c) \/ NextCall(c)
      PROVE  Inv'
  <2>1. TypeOK'
    BY <1>2, CallStepCallType, CallStepConnectionType, CallStepMasterType DEF TypeOK
  <2>2. \A d \in Calls : CallInv(d)' /\ WaitingInv(d)' /\ ResultInv(d)' /\ AnswerInv(d)'
    BY <1>2, CallStepCallInv, CallStepWaitingInv, CallStepResultInv, CallStepAnswerInv
  <2>3. BacklogInv' /\ ServedInv' /\ RangeInv'
    BY <1>2, CallStepMasterInvs
  <2> QED BY <1>1, <2>1, <2>2, <2>3 DEF Inv, ProtocolInv
<1>3. CASE MasterStep \/ MasterKilled
  <2>1. TypeOK'
    <3>1. CallType'
      BY <1>3, MasterStepFrame DEF callVars, CallType, Inv, TypeOK
    <3> QED BY <1>3, <3>1, MasterStepConnectionType, MasterStepMasterType DEF TypeOK
  <2>2. \A d \in Calls : CallInv(d)' /\ WaitingInv(d)' /\ ResultInv(d)' /\ AnswerInv(d)'
    BY <1>3, MasterStepCallInv, MasterStepWaitingInv, MasterStepResultInv, MasterStepAnswerInv
  <2>3. BacklogInv' /\ ServedInv' /\ RangeInv'
    BY <1>3, MasterStepBacklogInv, MasterStepServedInv, MasterStepRangeInv
  <2> QED BY <1>1, <2>1, <2>2, <2>3 DEF Inv, ProtocolInv
<1>4. CASE UNCHANGED vars
  <2>1. UNCHANGED <<caller, request, sent, received, wanted, outcome, taken, answer, closed, backlog,
                    master, client_socket, todo, blocks, socket_fd, key_to_block_id, store, executed>>
    BY <1>4 DEF vars, callVars, connection, masterVars, oram
  <2>2. TypeOK'
    BY <2>1 DEF Inv, TypeOK, CallType, ConnectionType, MasterType
  <2>3. \A c \in Calls : CallInv(c)' /\ WaitingInv(c)' /\ ResultInv(c)'
    BY <2>1 DEF Inv, ProtocolInv, CallInv, WaitingInv, ResultInv, Waiting, Served, Done
  <2>4. \A c \in Calls : AnswerInv(c)'
    <3> TAKE c \in Calls
    <3>1. AnswerInv(c)
      BY DEF Inv, ProtocolInv
    <3>2. UNCHANGED <<caller[c], request[c], received[c], wanted[c], answer[c], executed[c]>>
          /\ UNCHANGED <<client_socket, master, blocks>>
      BY <2>1
    <3>3. Position(c)' = Position(c) /\ Done(c)' = Done(c) /\ Begun(c)' = Begun(c)
          /\ \A places : Served(c, places)' = Served(c, places)
      BY <3>2 DEF Position, Done, Begun, Served
    <3>4. Written(c)' = Written(c)
      BY <3>2, <3>3 DEF Written
    <3>5. InScript(c) => InScript(c)'
      BY <3>2, <3>3, <3>4 DEF InScript
    <3>6. NotDone(c) => NotDone(c)'
      BY <3>2 DEF NotDone
    <3> QED BY <3>1, <3>3, <3>5, <3>6 DEF AnswerInv
  <2>5. BacklogInv' /\ ServedInv' /\ RangeInv'
    BY <2>1 DEF Inv, ProtocolInv, BacklogInv, ServedInv, RangeInv, RangeRead, Done, Op, Operation, Now
  <2> QED BY <1>1, <2>2, <2>3, <2>4, <2>5 DEF Inv, ProtocolInv
<1> QED BY <1>2, <1>3, <1>4 DEF Next

LEMMA AlwaysInv == Spec => []Inv
<1>1. Inv /\ [Next]_vars => Inv'
  BY NextInv
<1> QED BY <1>1, InitInv, PTL DEF Spec

\* For any number of multi clients and any requests, whatever they do and
\* wherever they are killed: every variable of the protocol keeps its type,
\* and the master never reads more of a request than has been sent.
THEOREM TypeCorrect == Spec => []TypeOK
<1>1. Inv => TypeOK
  BY DEF Inv
<1> QED BY <1>1, AlwaysInv, PTL
-----------------------------------------------------------------------------
(***************************************************************************)
(* The calls behave like calls of one shared store.                        *)
(***************************************************************************)
LEMMA SharedOperators ==
  /\ \A f, S : Shared!ValuesOf(f, S) = ValuesOf(f, S)
  /\ \A S, r : Shared!Between(S, r) = Between(S, r)
  /\ \A f, k, v : Shared!With(f, k, v) = With(f, k, v)
  /\ \A f, S : Shared!Without(f, S) = Without(f, S)
  /\ \A v : Shared!Success(v) = Success(v)
  /\ Shared!Failed = Failed
<1>1. \A S : Shared!Cardinality(S) = Cardinality(S)
  BY DEF Shared!Cardinality, Cardinality
<1>2. \A S : Shared!InOrder(S) = InOrder(S)
  BY <1>1 DEF Shared!InOrder, InOrder
<1>3. \A f, S : Shared!ValuesOf(f, S) = ValuesOf(f, S)
  BY <1>2 DEF Shared!ValuesOf, ValuesOf
<1>4. \A f, S : Shared!Without(f, S) = Without(f, S)
  BY DEF Shared!Without, Without, Shared!Restrict, Restrict
<1> QED
  BY <1>3, <1>4 DEF Shared!Between, Between, Shared!With, With, Shared!Success, Success,
     Shared!Failed, Failed

LEMMA StateOf ==
  ASSUME NEW c
  PROVE  CallState(c) =
           IF caller[c] = "new" THEN Shared!New
           ELSE IF caller[c] = "returned" THEN Shared!Returned(request[c], outcome[c])
           ELSE IF executed[c] # None THEN Shared!Answered(request[c], executed[c])
           ELSE Shared!Pending(request[c])
BY DEF CallState, Shared!New, Shared!Returned, Shared!Answered, Shared!Pending

LEMMA StateOfAfter ==
  ASSUME NEW c
  PROVE  CallState(c)' =
           IF caller'[c] = "new" THEN Shared!New
           ELSE IF caller'[c] = "returned" THEN Shared!Returned(request'[c], outcome'[c])
           ELSE IF executed'[c] # None THEN Shared!Answered(request'[c], executed'[c])
           ELSE Shared!Pending(request'[c])
BY DEF CallState, Shared!New, Shared!Returned, Shared!Answered, Shared!Pending

LEMMA SameState ==
  ASSUME NEW c, UNCHANGED <<caller[c], request[c], outcome[c], executed[c]>>
  PROVE  CallState(c)' = CallState(c)
BY StateOf, StateOfAfter

\* The store as the applications see it does not change.
LEMMA Stutters ==
  ASSUME UNCHANGED store, \A c \in Calls : CallState(c)' = CallState(c)
  PROVE  UNCHANGED Shared!vars
BY DEF Shared!vars

\* One call changes its state.
LEMMA OneChanges ==
  ASSUME NEW c \in Calls, \A d \in Calls : d # c => CallState(d)' = CallState(d),
         NEW s, CallState(c)' = s
  PROVE  [d \in Calls |-> CallState(d)]' = [[d \in Calls |-> CallState(d)] EXCEPT ![c] = s]
OBVIOUS

LEMMA CallRefines ==
  ASSUME Inv, NEW c \in Calls, Connect(c) \/ CallStep(c) \/ CallerKilled(c) \/ NextCall(c)
  PROVE  Shared!Next \/ UNCHANGED Shared!vars
<1>1. \A d \in Calls : d # c => CallState(d)' = CallState(d)
  BY OtherCalls, SameState DEF Local
<1>2. UNCHANGED store
  BY CallStepFrame DEF oram
<1>3. CASE Connect(c)
  <2>1. /\ caller[c] = "new" /\ caller'[c] = "sending" /\ executed'[c] = executed[c]
        /\ \E r \in Requests : request'[c] = r
    BY <1>3 DEF Connect, Goto, Inv, TypeOK, CallType
  <2>2. executed[c] = None
    BY <2>1 DEF Inv, ProtocolInv, CallInv
  <2>3. PICK r \in Requests : request'[c] = r
    BY <2>1
  <2>4. CallState(c) = Shared!New /\ CallState(c)' = Shared!Pending(r)
    BY <2>1, <2>2, <2>3, StateOf, StateOfAfter
  <2>5. Shared!Invoke(c)
    BY <1>1, <1>2, <2>4, OneChanges DEF Shared!Invoke
  <2> QED BY <2>5 DEF Shared!Next
<1>4. CASE SendPart(c) \/ ReceiveNumber(c) \/ ReceiveValue(c) \/ Misread(c) \/ CallerKilled(c)
  <2>1. /\ caller[c] \notin {"new", "returned"} /\ caller'[c] \notin {"new", "returned"}
        /\ UNCHANGED <<request, executed>>
    <3>1. CASE SendPart(c)
      BY <3>1, SendPartGoesTo DEF SendPart, Goto, Inv, TypeOK, CallType, FirstWait
    <3>2. CASE ReceiveNumber(c) \/ ReceiveValue(c) \/ Misread(c) \/ CallerKilled(c)
      BY <3>2 DEF ReceiveNumber, ReceiveValue, Misread, CallerKilled, End, Goto, Begun, Inv,
         TypeOK, CallType
    <3> QED BY <1>4, <3>1, <3>2
  <2>2. CallState(c)' = CallState(c)
    BY <2>1, StateOf, StateOfAfter
  <2> QED BY <1>1, <1>2, <2>2, Stutters
<1>5. CASE ReceiveConfirmation(c)
  <2>1. /\ caller[c] = "confirm" /\ caller'[c] = "returned" /\ UNCHANGED <<request, executed>>
        /\ answer[c] # <<>> /\ Head(answer[c]).kind = "id"
        /\ outcome'[c] = Success(received[c])
    BY <1>5 DEF ReceiveConfirmation, Arrived, End, Goto, Inv, TypeOK, CallType
  <2>2. Done(c) /\ InScript(c)
    BY <2>1, TakesFromScript DEF Begun
  <2>3. executed[c] = Success(executed[c].values) /\ executed[c].values \in Seq(Data)
    BY <2>2, ResultType
  <2>4. received[c] = executed[c].values
    <3>1. /\ Len(received[c]) = Len(executed[c].values)
          /\ \A i \in DOMAIN received[c] : received[c][i] = executed[c].values[i]
      BY <2>1, <2>2 DEF InScript
    <3>2. received[c] \in Seq(Data)
      BY DEF Inv, TypeOK, CallType
    <3> QED BY <2>3, <3>1, <3>2
  <2>5. /\ CallState(c) = Shared!Answered(request[c], executed[c])
        /\ CallState(c)' = Shared!Returned(request[c], executed[c])
    BY <2>1, <2>2, <2>3, <2>4, StateOf, StateOfAfter DEF Done
  <2>6. Shared!Return(c)
    <3>1. [d \in Calls |-> CallState(d)]' =
            [[d \in Calls |-> CallState(d)] EXCEPT ![c] = Shared!Returned(request[c], executed[c])]
      BY <1>1, <2>5, OneChanges
    <3>2. /\ CallState(c).state = "answered" /\ CallState(c).request = request[c]
          /\ CallState(c).result = executed[c]
      BY <2>5 DEF Shared!Answered
    <3> QED BY <1>2, <3>1, <3>2 DEF Shared!Return
  <2> QED BY <2>6 DEF Shared!Next
<1>6. CASE CallFails(c)
  <2>1. /\ caller[c] \notin {"new", "returned"} /\ caller'[c] = "returned"
        /\ UNCHANGED <<request, executed>> /\ outcome'[c] = Failed
    BY <1>6 DEF CallFails, Begun, End, Goto, Inv, TypeOK, CallType
  <2>2. CallState(c)' = Shared!Returned(request[c], Failed)
    BY <2>1, StateOfAfter
  <2>3. CallState(c).state \in {"pending", "answered"} /\ CallState(c).request = request[c]
    BY <2>1, StateOf DEF Shared!Answered, Shared!Pending
  <2>4. Shared!Fail(c)
    <3>1. [d \in Calls |-> CallState(d)]' =
            [[d \in Calls |-> CallState(d)] EXCEPT ![c] = Shared!Returned(request[c], Failed)]
      BY <1>1, <2>2, OneChanges
    <3> QED BY <1>2, <2>3, <3>1, SharedOperators DEF Shared!Fail
  <2> QED BY <2>4 DEF Shared!Next
<1>7. CASE NextCall(c)
  <2>1. caller[c] # "new" /\ caller'[c] = "new"
    BY <1>7 DEF NextCall, Goto, Inv, TypeOK, CallType
  <2>2. CallState(c) # Shared!New /\ CallState(c)' = Shared!New
    BY <2>1, StateOf, StateOfAfter DEF Shared!New, Shared!Answered, Shared!Pending, Shared!Returned
  <2>3. Shared!Forget(c)
    <3>1. [d \in Calls |-> CallState(d)]' =
            [[d \in Calls |-> CallState(d)] EXCEPT ![c] = Shared!New]
      BY <1>1, <2>2, OneChanges
    <3> QED BY <1>2, <2>2, <3>1 DEF Shared!Forget
  <2> QED BY <2>3 DEF Shared!Next
<1> QED BY <1>3, <1>4, <1>5, <1>6, <1>7 DEF CallStep

\* SingleClient does what the call being served asks for.
LEMMA TakesEffect ==
  ASSUME Inv, NEW c \in Calls, c = client_socket, master = "call", UNCHANGED callVars,
         NEW s \in Results, s \in {Success(v) : v \in Shared!Values(Now)} \cup {Failed},
         executed' = [executed EXCEPT ![c] = s], Shared!Update(Now)
  PROVE  Shared!Next
<1>1. WaitingInv(c) /\ Waiting(c)
  BY DEF Inv, ProtocolInv, Waiting, Served
<1>2. executed[c] = None /\ caller[c] \notin {"new", "returned"}
  BY <1>1 DEF WaitingInv
<1>3. executed'[c] = s /\ \A d \in Calls : d # c => executed'[d] = executed[d]
  BY DEF Inv, TypeOK, MasterType
<1>4. UNCHANGED <<caller, request, outcome>>
  BY DEF callVars
<1>5. s # None
  BY NoneAssumption
<1>6. CallState(c) = Shared!Pending(request[c]) /\ CallState(c)' = Shared!Answered(request[c], s)
  BY <1>2, <1>3, <1>4, <1>5, StateOf, StateOfAfter
<1>7. \A d \in Calls : d # c => CallState(d)' = CallState(d)
  BY <1>3, <1>4, SameState
<1>8. [d \in Calls |-> CallState(d)]' =
        [[d \in Calls |-> CallState(d)] EXCEPT ![c] = Shared!Answered(request[c], s)]
  BY <1>6, <1>7, OneChanges
<1>9. CallState(c).state = "pending" /\ CallState(c).request = request[c]
  BY <1>6 DEF Shared!Pending
<1>10. Now = request[c]
  BY DEF Now
<1>11. s \in {Shared!Success(v) : v \in Shared!Values(Now)} \cup {Shared!Failed}
  BY SharedOperators
<1>12. Shared!TakeEffect(c)
  BY <1>8, <1>9, <1>10, <1>11 DEF Shared!TakeEffect
<1> QED BY <1>12 DEF Shared!Next

LEMMA PutRefines ==
  ASSUME Inv, Put
  PROVE  Shared!Next
<1>1. /\ client_socket \in Calls /\ master = "call" /\ UNCHANGED callVars
      /\ Now.op = "WRITE" /\ store' = With(store, Now.first, Now.value)
      /\ executed' = [executed EXCEPT ![client_socket] = Success(<<>>)]
  BY DEF Put, Executed, Stored, Op, Operation, Inv, TypeOK, MasterType
<1>2. Shared!Update(Now)
  BY <1>1, SharedOperators DEF Shared!Update
<1>3. <<>> \in Shared!Values(Now)
  BY <1>1 DEF Shared!Values
<1>4. Success(<<>>) \in Results
  BY DEF Success, Results
<1> QED BY <1>1, <1>2, <1>3, <1>4, TakesEffect

LEMMA GetRefines ==
  ASSUME Inv, Get
  PROVE  Shared!Next
<1>1. /\ client_socket \in Calls /\ master = "call" /\ UNCHANGED callVars
      /\ Now.op = "READ" /\ Knows /\ socket_fd = "server" /\ UNCHANGED store
      /\ executed' = [executed EXCEPT ![client_socket] = Success(<<store[Now.first]>>)]
  BY DEF Get, Executed, Op, Operation, Inv, TypeOK, MasterType, oram
<1>2. DOMAIN store = key_to_block_id /\ store \in [DOMAIN store -> Data]
  BY <1>1 DEF Inv, KeysMatchStore, TypeOK, MasterType
<1>3. Now.first \in DOMAIN store
  BY <1>1, <1>2 DEF Knows
<1>4. Now \in Requests /\ Now.first \in Nat /\ DOMAIN store \subseteq Nat
  BY <1>1, Serving, KeysAreNumbers, NoneAssumption DEF Inv, TypeOK, MasterType
<1>5. Now.first = Now.last
  BY <1>1, <1>4, RequestsAssumption
<1>6. Between(DOMAIN store, Now) = {Now.first}
  BY <1>3, <1>4, <1>5 DEF Between
<1>7. Shared!Update(Now)
  BY <1>1, <1>3 DEF Shared!Update
<1>8. <<store[Now.first]>> \in Shared!Values(Now)
  BY <1>1, <1>6, OneValue, SharedOperators DEF Shared!Values
<1>9. Success(<<store[Now.first]>>) \in Results
  BY <1>2, <1>3 DEF Success, Results
<1> QED BY <1>1, <1>7, <1>8, <1>9, TakesEffect

LEMMA EndOfRangeRefines ==
  ASSUME Inv, EndOfRange
  PROVE  Shared!Next
<1>1. /\ client_socket \in Calls /\ master = "call" /\ UNCHANGED callVars
      /\ Now.op = "READ_RANGE" /\ Op = "READ_RANGE" /\ todo = {} /\ UNCHANGED store
      /\ executed' = [executed EXCEPT ![client_socket] = Success(blocks)]
  BY DEF EndOfRange, Executed, Op, Operation, Inv, TypeOK, MasterType, oram
<1> DEFINE K == Between(key_to_block_id, Now)
<1>2. blocks \in ValuesOf(store, K) /\ (socket_fd # "server" => blocks = <<>>)
  BY <1>1 DEF Inv, ProtocolInv, RangeInv, RangeRead
<1>3. IsFiniteSet(K)
  BY KeysAreNumbers, FS_Subset DEF Between, Inv, TypeOK, MasterType
<1>4. K = Between(DOMAIN store, Now)
  <2>1. DOMAIN store \subseteq key_to_block_id /\ (socket_fd = "server" => DOMAIN store = key_to_block_id)
    BY <1>1 DEF Inv, KeysMatchStore
  <2>2. CASE socket_fd = "server"
    BY <2>1, <2>2
  <2>3. CASE socket_fd # "server"
    <3>1. K = {}
      BY <1>2, <1>3, <2>3, NoValuesNoKeys
    <3> QED BY <2>1, <3>1 DEF Between
  <2> QED BY <2>2, <2>3
<1> HIDE DEF K
<1>5. Shared!Update(Now)
  BY <1>1 DEF Shared!Update
<1>6. blocks \in Shared!Values(Now)
  BY <1>1, <1>2, <1>4, SharedOperators DEF Shared!Values
<1>7. Success(blocks) \in Results
  BY DEF Success, Results, Inv, TypeOK, MasterType
<1> QED BY <1>1, <1>5, <1>6, <1>7, TakesEffect

LEMMA ClearingUpdates ==
  ASSUME Inv, client_socket \in Calls, Op = "CLEAR", Now \in Requests,
         \/ store' = Cleared
         \/ UNCHANGED store /\ Now.first \notin DOMAIN store
  PROVE  Shared!Update(Now) /\ <<>> \in Shared!Values(Now)
<1>1. Now.op \in {"CLEAR", "CLEAR_RANGE"}
  BY DEF Op, Operation
<1>2. store \in [DOMAIN store -> Data]
  BY DEF Inv, TypeOK, MasterType
<1>3. store = Without(store, {})
  BY <1>2 DEF Without, Restrict
<1>4. Now.first \notin DOMAIN store => Without(store, {Now.first}) = store
  BY <1>2 DEF Without, Restrict
<1>5. store' = Without(store, {Now.first})
  BY <1>4 DEF Cleared
<1>6. ASSUME Now.op = "CLEAR" PROVE Shared!Update(Now)
  <2>1. store' = Shared!Without(store, {Now.first})
    BY <1>5, SharedOperators
  <2> QED BY <1>6, <2>1 DEF Shared!Update
<1>7. ASSUME Now.op = "CLEAR_RANGE" PROVE Shared!Update(Now)
  <2>1. Now.first \in Nat /\ Now.first <= Now.last
    BY <1>7, RequestsAssumption
  <2>2. \E S \in SUBSET Between(DOMAIN store, Now) : store' = Without(store, S)
    <3>1. CASE Now.first \in DOMAIN store
      <4>1. {Now.first} \subseteq Between(DOMAIN store, Now)
        BY <2>1, <3>1 DEF Between
      <4> QED BY <1>5, <4>1
    <3>2. CASE Now.first \notin DOMAIN store
      BY <1>3, <1>4, <1>5, <3>2
    <3> QED BY <3>1, <3>2
  <2>3. \E S \in SUBSET Shared!Between(DOMAIN store, Now) : store' = Shared!Without(store, S)
    <3>1. Shared!Between(DOMAIN store, Now) = Between(DOMAIN store, Now)
      BY SharedOperators
    <3>2. \A S : Shared!Without(store, S) = Without(store, S)
      BY SharedOperators
    <3> QED BY <2>2, <3>1, <3>2
  <2> QED BY <1>7, <2>3 DEF Shared!Update
<1>8. <<>> \in Shared!Values(Now)
  BY <1>1 DEF Shared!Values
<1> QED BY <1>1, <1>6, <1>7, <1>8

LEMMA ClearRefines ==
  ASSUME Inv, Clear \/ ClearUnknownKey
  PROVE  Shared!Next
<1>1. /\ client_socket \in Calls /\ master = "call" /\ UNCHANGED callVars /\ Op = "CLEAR"
      /\ executed' = [executed EXCEPT ![client_socket] = Success(<<>>)]
      /\ store' = Cleared \/ (UNCHANGED store /\ ~Knows)
  BY DEF Clear, ClearUnknownKey, Executed, Inv, TypeOK, MasterType, oram
<1>2. ~Knows => Now.first \notin DOMAIN store
  BY <1>1 DEF Inv, KeysMatchStore, Knows
<1>3. Now \in Requests
  BY <1>1, Serving, NoneAssumption
<1>4. Shared!Update(Now) /\ <<>> \in Shared!Values(Now)
  BY <1>1, <1>2, <1>3, ClearingUpdates
<1>5. Success(<<>>) \in Results
  BY DEF Success, Results
<1> QED BY <1>1, <1>4, <1>5, TakesEffect

LEMMA FailureRefines ==
  ASSUME Inv, SingleClientFails
  PROVE  Shared!Next \/ UNCHANGED Shared!vars
<1>1. client_socket \in Calls /\ master = "call" /\ UNCHANGED callVars
  BY FailureFacts
<1>2. CASE UNCHANGED <<store, executed>>
  BY <1>1, <1>2, SameState, Stutters DEF callVars
<1>3. CASE /\ Op \in {"WRITE", "CLEAR"}
           /\ store' = IF Op = "WRITE" THEN Stored ELSE Cleared
           /\ Executed(Failed)
  <2>1. Now \in Requests
    BY <1>1, Serving, NoneAssumption
  <2>2. Shared!Update(Now)
    <3>1. CASE Op = "WRITE"
      BY <1>3, <3>1, SharedOperators DEF Op, Operation, Stored, Shared!Update
    <3>2. CASE Op = "CLEAR"
      BY <1>1, <1>3, <2>1, <3>2, ClearingUpdates
    <3> QED BY <1>3, <3>1, <3>2
  <2>3. Failed \in Results
    BY DEF Failed, Results
  <2>4. executed' = [executed EXCEPT ![client_socket] = Failed]
    BY <1>3 DEF Executed
  <2> QED BY <1>1, <2>2, <2>3, <2>4, TakesEffect
<1> QED BY <1>2, <1>3 DEF SingleClientFails

LEMMA MasterRefines ==
  ASSUME Inv, MasterStep \/ MasterKilled
  PROVE  Shared!Next \/ UNCHANGED Shared!vars
<1>1. CASE Does
  BY <1>1, PutRefines, GetRefines, EndOfRangeRefines, ClearRefines DEF Does
<1>2. CASE SingleClientFails
  BY <1>2, FailureRefines
<1>3. CASE Accept \/ ReceivePart \/ Drop \/ GetNext \/ TalkToCaller \/ Send \/ MasterKilled
  <2>1. UNCHANGED callVars /\ UNCHANGED <<store, executed>>
    <3>1. CASE Accept \/ ReceivePart \/ GetNext \/ TalkToCaller \/ MasterKilled
      BY <3>1 DEF Accept, ReceivePart, GetNext, TalkToCaller, MasterKilled, oram
    <3>2. CASE Drop
      BY <3>2, DropFacts
    <3>3. CASE Send
      BY <3>3, SendFacts DEF oram
    <3> QED BY <1>3, <3>1, <3>2, <3>3
  <2> QED BY <2>1, SameState, Stutters DEF callVars
<1> QED BY <1>1, <1>2, <1>3, MasterCases

\* Calls that overlap, are killed, lose their connection or meet a dying
\* master, in any number: they behave like calls of one shared store, each
\* of which takes effect at one instant between its beginning and its
\* return, or not at all.
THEOREM MasterImplementsSharedStore == Spec => ImplementsSharedStore
<1>1. Init => Shared!Init
  <2> SUFFICES ASSUME Init PROVE Shared!Init
    OBVIOUS
  <2>1. \A c \in Calls : CallState(c) = Shared!New
    BY StateOf DEF Init
  <2> QED BY <2>1 DEF Init, Shared!Init
<1>2. Inv /\ [Next]_vars => [Shared!Next]_Shared!vars
  <2> SUFFICES ASSUME Inv, [Next]_vars PROVE [Shared!Next]_Shared!vars
    OBVIOUS
  <2>1. CASE UNCHANGED vars
    BY <2>1, SameState, Stutters DEF vars, callVars, oram
  <2>2. CASE Next
    BY <2>2, CallRefines, MasterRefines DEF Next
  <2> QED BY <2>1, <2>2
<1> QED BY <1>1, <1>2, AlwaysInv, PTL DEF Spec, ImplementsSharedStore, Shared!Spec
=============================================================================
