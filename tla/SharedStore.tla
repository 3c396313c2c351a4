----------------------------- MODULE SharedStore -----------------------------
(***************************************************************************)
(* What the master client promises to the many multi clients that share    *)
(* it: one key-value store, in which every call takes effect at one        *)
(* instant between its beginning and its return, range reads included,     *)
(* whatever the other calls do.  A call may also return -1; it has then    *)
(* taken effect or not, but once it has returned it never takes effect     *)
(* any more.                                                               *)
(*                                                                         *)
(* Calls are in progress independently of each other: those of one         *)
(* application follow each other, those of several overlap.                *)
(***************************************************************************)
EXTENDS StoreCalls

CONSTANTS
  Calls,      \* the calls that can be in progress at a time
  Requests    \* what they may ask for

VARIABLES
  store,      \* the contents: a function from the keys that are there
  call        \* each call: whether it has begun, taken effect, returned

vars == <<store, call>>

New           == [state |-> "new"]
Pending(r)    == [state |-> "pending", request |-> r]
Answered(r, s) == [state |-> "answered", request |-> r, result |-> s]
Returned(r, s) == [state |-> "returned", request |-> r, result |-> s]

Init ==
  /\ store = <<>>
  /\ call = [c \in Calls |-> New]

Invoke(c) ==
  /\ call[c] = New
  /\ \E r \in Requests : call' = [call EXCEPT ![c] = Pending(r)]
  /\ UNCHANGED store

\* What a call may return when it does not fail.
Values(r) ==
  IF r.op \in {"READ", "READ_RANGE"} THEN ValuesOf(store, Between(DOMAIN store, r)) ELSE {<<>>}

\* What it does to the store.  CLEAR_RANGE is only promised to clear nothing
\* outside its range.
Update(r) ==
  \/ r.op = "READ" /\ r.first \in DOMAIN store /\ UNCHANGED store
  \/ r.op = "READ_RANGE" /\ UNCHANGED store
  \/ r.op = "WRITE" /\ store' = With(store, r.first, r.value)
  \/ r.op = "CLEAR" /\ store' = Without(store, {r.first})
  \/ /\ r.op = "CLEAR_RANGE"
     /\ \E S \in SUBSET Between(DOMAIN store, r) : store' = Without(store, S)

TakeEffect(c) ==
  /\ call[c].state = "pending"
  /\ LET r == call[c].request
     IN /\ Update(r)
        /\ \E s \in {Success(v) : v \in Values(r)} \cup {Failed} :
             call' = [call EXCEPT ![c] = Answered(r, s)]

\* A call that has not taken effect when it fails never will.
Fail(c) ==
  /\ call[c].state \in {"pending", "answered"}
  /\ call' = [call EXCEPT ![c] = Returned(@.request, Failed)]
  /\ UNCHANGED store

Return(c) ==
  /\ call[c].state = "answered"
  /\ call' = [call EXCEPT ![c] = Returned(@.request, @.result)]
  /\ UNCHANGED store

\* The application goes on, or was killed before the call returned.
Forget(c) ==
  /\ call[c] # New
  /\ call' = [call EXCEPT ![c] = New]
  /\ UNCHANGED store

Next ==
  \E c \in Calls : Invoke(c) \/ TakeEffect(c) \/ Fail(c) \/ Return(c) \/ Forget(c)

Spec == Init /\ [][Next]_vars
=============================================================================
