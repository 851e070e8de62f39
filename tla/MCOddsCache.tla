---------------------------- MODULE MCOddsCache ----------------------------
(***************************************************************************)
(* OddsCache with three requests in flight, which are interchangeable.       *)
(***************************************************************************)
EXTENDS OddsCache, TLC

RequestSymmetry == Permutations(Requests)
=============================================================================
