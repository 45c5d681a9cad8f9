---------------------------- MODULE MCPtzControl ----------------------------
(* A gimbal camera, and one whose tilt is fixed.                           *)
EXTENDS PtzControl, TLC

CONSTANTS gimbal, fixed

Ranges(pan, tilt, zoom) == "pan" :> pan @@ "tilt" :> tilt @@ "zoom" :> zoom

BothCameras == {gimbal, fixed}
Lows  == gimbal :> Ranges(0, 0, 1) @@ fixed :> Ranges(0, 1, 1)
Highs == gimbal :> Ranges(1, 1, 2) @@ fixed :> Ranges(1, 1, 1)

\* In and above the range of pan and tilt, below and in that of zoom.
Requests == {0, 2}
Always   == {TRUE}
Maybe    == BOOLEAN
=============================================================================
