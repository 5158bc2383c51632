----------------------------- MODULE MCResampler ----------------------------
EXTENDS Resampler, TLC

Lengths == 0 :> 2 @@ 1 :> 6
Positions == 0 :> 1 @@ 1 :> 2
SomeRatios == {<<3, 2>>, <<7, 9>>, <<6, 11>>}
=============================================================================
