---------------------------- MODULE MCXtrackLoop ----------------------------
(***************************************************************************)
(* The loop with a handful of video directories: none, one without frames, *)
(* a single video, and a gap between two.                                  *)
(***************************************************************************)
EXTENDS XtrackLoop, TLC

SomeDirectories == {<<>>, 1 :> 0, (1 :> 1) @@ (3 :> 2)}
\* A rate of 2/3, half and all of the rate, and two that the constructor refuses.
SomeRatios == {<<2, 3>>, <<2, 4>>, <<1, 1>>, <<0, 1>>, <<3, 2>>}
=============================================================================
