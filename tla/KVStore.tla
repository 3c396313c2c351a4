------------------------------ MODULE KVStore -------------------------------
(***************************************************************************)
(* What the client library promises its application: a key-value store in  *)
(* which put, get and clear each take effect at one instant between their  *)
(* call and their return.  README.md lists the operations (put() "adds a   *)
(* new block or updates an existing block with the given key and value",   *)
(* get() "retrieves a block with the given key", clear() "ensures the      *)
(* block is removed"); the results are those the code returns: put and     *)
(* clear 0, get 0 and the value, or -1 for a key that is not there.        *)
(***************************************************************************)
EXTENDS Functions

CONSTANTS
  Clients,   \* who calls the library
  Keys,      \* key names
  Data,      \* values a block can hold
  NoData,    \* stands for "no value argument"
  Ok,        \* return value 0
  Failed     \* return value -1

VARIABLES
  store,     \* the contents: a function from the keys that are there
  call       \* each client's call in progress, or Idle

vars == <<store, call>>

Operations == {"READ", "WRITE", "CLEAR"}

Idle == [op |-> "none"]

Request(o, k, v) == [op |-> o, key |-> k, value |-> v]
Pending(req)     == [op |-> "pending", request |-> req]
Returning(req, r) == [op |-> "returning", request |-> req, result |-> r]

\* Only a put carries a value.
Requests ==
  {Request(o, k, NoData) : o \in {"READ", "CLEAR"}, k \in Keys}
    \cup {Request("WRITE", k, v) : k \in Keys, v \in Data}

Init ==
  /\ store = <<>>
  /\ call = [c \in Clients |-> Idle]

Invoke(c) ==
  /\ call[c] = Idle
  /\ \E req \in Requests : call' = [call EXCEPT ![c] = Pending(req)]
  /\ UNCHANGED store

Stored(k, v) == [x \in DOMAIN store \cup {k} |-> IF x = k THEN v ELSE store[x]]

Effect(c) ==
  \E req \in Requests :
    /\ call[c] = Pending(req)
    /\ \/ /\ req.op = "WRITE"
          /\ store' = Stored(req.key, req.value)
          /\ call' = [call EXCEPT ![c] = Returning(req, Ok)]
       \/ /\ req.op = "CLEAR"
          /\ store' = Restrict(store, DOMAIN store \ {req.key})
          /\ call' = [call EXCEPT ![c] = Returning(req, Ok)]
       \/ /\ req.op = "READ"
          /\ call' = [call EXCEPT ![c] =
                        Returning(req, IF req.key \in DOMAIN store
                                       THEN store[req.key] ELSE Failed)]
          /\ UNCHANGED store

Return(c) ==
  /\ call[c].op = "returning"
  /\ call' = [call EXCEPT ![c] = Idle]
  /\ UNCHANGED store

Next == \E c \in Clients : Invoke(c) \/ Effect(c) \/ Return(c)

Spec == Init /\ [][Next]_vars
=============================================================================
