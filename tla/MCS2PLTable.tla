---------------------------- MODULE MCS2PLTable -----------------------------
(***************************************************************************)
(* S2PLTable for TLC: the readers are interchangeable.                     *)
(***************************************************************************)
EXTENDS S2PLTable, TLC

Symm == Permutations(Readers)
=============================================================================
