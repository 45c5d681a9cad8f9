--------------------------- MODULE MCPtsStamping ---------------------------
(* Two clocks, the second one ahead of the first, for TLC.                 *)
EXTENDS PtsStamping, TLC

CONSTANTS c1, c2

TwoClocks == {c1, c2}
Offsets   == c1 :> 0 @@ c2 :> 2
=============================================================================
