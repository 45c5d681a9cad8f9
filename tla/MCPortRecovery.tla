--------------------------- MODULE MCPortRecovery ---------------------------
(* The camera's port and one neighbour; two vid:pids.                      *)
EXTENDS PortRecovery

CONSTANTS p1, p2, camera, other

TwoPorts  == {p1, p2}
TwoIdents == {camera, other}
=============================================================================
