---------------------------- MODULE MCBOCCTable -----------------------------
(***************************************************************************)
(* BOCCTable for TLC: the readers are interchangeable.                     *)
(***************************************************************************)
EXTENDS BOCCTable, TLC

Symm == Permutations(Readers)
=============================================================================
