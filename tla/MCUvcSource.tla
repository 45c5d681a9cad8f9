---------------------------- MODULE MCUvcSource ----------------------------
(* Small instances of UvcSource for TLC.                                   *)
EXTENDS UvcSource

Props(r, a, d) == [reconnect |-> r, auto_port_reset |-> a,
                   deep_port_recovery |-> d]

\* The default ladder with the deep rung opted in.
WedgeConfigs == {Props(FALSE, TRUE, TRUE)}

ReconnectConfigs == {Props(TRUE, TRUE, FALSE)}

\* The app flips `reconnect` and `auto-port-reset` while streaming.
MixedConfigs == {Props(TRUE, FALSE, FALSE), Props(FALSE, TRUE, TRUE)}
=============================================================================
