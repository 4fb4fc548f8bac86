---------------------------- MODULE MCMVCCTable -----------------------------
(***************************************************************************)
(* MVCCTable for TLC: the readers are interchangeable.                     *)
(***************************************************************************)
EXTENDS MVCCTable, TLC

Symm == Permutations(Readers)
=============================================================================
