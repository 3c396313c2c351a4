--------------------------- MODULE MCMasterClient ----------------------------
(***************************************************************************)
(* A small instance of MasterClient for TLC: two keys, two values.         *)
(***************************************************************************)
EXTENDS MasterClient, TLC

CONSTANTS d1, d2

MCRequests ==
  {Request("WRITE", 1, 1, d1), Request("WRITE", 2, 2, d2), Request("READ", 1, 1, d1),
   Request("CLEAR", 1, 1, d1), Request("READ_RANGE", 1, 2, d1),
   Request("CLEAR_RANGE", 1, 2, d1)}
=============================================================================
