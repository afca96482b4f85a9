----------------------------- MODULE MCOrderBook -----------------------------
(***************************************************************************)
(* Recovery for TLC.  Owners are model values, only ever compared with     *)
(* each other, so they may be taken up to permutation.                     *)
(***************************************************************************)
EXTENDS Recovery, TLC

OwnerSymmetry == Permutations(Owners)
=============================================================================
