---------------------------- MODULE MCAccessUnits ----------------------------
(* Cameras of either codec.                                                *)
EXTENDS AccessUnits, TLC

BothFormats == {"H264", "H265"}
H265Only    == {"H265"}
H264Only    == {"H264"}

KeySlices  == "H264" :> {5} @@ "H265" :> {19, 20}
Trailing   == "H264" :> {1} @@ "H265" :> {1}    \* non-IDR slices, TRAIL_R
H265Keys   == "H265" :> {19, 20}
WithTrailN == "H265" :> {0, 1}                  \* TRAIL_N as well
H264Keys   == "H264" :> {5}
H264Others == "H264" :> {1}
=============================================================================
