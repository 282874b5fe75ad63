------------------------------- MODULE MCPool -------------------------------
(* Small instances of Pool.  Keys are only ever compared, and no constant  *)
(* tells one from another, so permuting them changes nothing.              *)
EXTENDS Pool, TLC

KeySymmetry == Permutations(Keys)
=============================================================================
