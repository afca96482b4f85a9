---------------------------- MODULE MCLinkedBook ----------------------------
(***************************************************************************)
(* LinkedBook for TLC.  Owners are model values, only ever compared with   *)
(* each other, so they may be taken up to permutation.                     *)
(***************************************************************************)
EXTENDS LinkedBook, TLC

OwnerSymmetry == Permutations(Owners)
=============================================================================
