----------------------------- MODULE StoreCalls ------------------------------
(***************************************************************************)
(* Requests to the shared store, their results, and what they do to a      *)
(* function from keys to values.  Keys are numbers, in the order of their  *)
(* names.                                                                  *)
(***************************************************************************)
EXTENDS Naturals, FiniteSets, Functions

\* A request is about the keys from first to last; only READ_RANGE and
\* CLEAR_RANGE have a last key that differs from the first.
Request(op, first, last, value) ==
  [op |-> op, first |-> first, last |-> last, value |-> value]

Success(values) == [ok |-> TRUE, values |-> values]
Failed          == [ok |-> FALSE, values |-> <<>>]

\* The keys of a set that a request is about.
Between(S, r)  == {k \in S : r.first <= k /\ k <= r.last}

\* The enumerations of a set of keys in their order, and the values that a
\* function has for them: one sequence each.
InOrder(S) ==
  {o \in [1 .. Cardinality(S) -> S] : \A i, j \in DOMAIN o : i < j => o[i] < o[j]}
ValuesOf(f, S) == {[i \in DOMAIN o |-> f[o[i]]] : o \in InOrder(S)}

With(f, k, v) == [x \in DOMAIN f \cup {k} |-> IF x = k THEN v ELSE f[x]]
Without(f, S) == Restrict(f, DOMAIN f \ S)
=============================================================================
