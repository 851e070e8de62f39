-------------------------- MODULE MCWeightedDraw --------------------------
(***************************************************************************)
(* WeightedDraw on pools of up to four candidates, some without diapers,   *)
(* with four keys and two simulated draws: the second one finds the first  *)
(* one's arrays.                                                           *)
(***************************************************************************)
EXTENDS WeightedDraw

MCPools == {<<>>, <<0>>, <<2, 0, 1>>, <<1, 3, 2, 5>>}
=============================================================================
