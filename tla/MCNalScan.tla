------------------------------ MODULE MCNalScan ------------------------------
(* Every delivery of up to ten bytes, told apart as 0, 1 and another.      *)
EXTENDS NalScan

ThreeBytes == 0..2
=============================================================================
