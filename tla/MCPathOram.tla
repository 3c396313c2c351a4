----------------------------- MODULE MCPathOram -----------------------------
(***************************************************************************)
(* Small instances of PathOram for TLC.                                    *)
(***************************************************************************)
EXTENDS PathOram, TLC

\* Keys and values are interchangeable (no property tells them apart).
Symmetry == Permutations(Keys) \cup Permutations(Data)
=============================================================================
