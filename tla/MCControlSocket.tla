--------------------------- MODULE MCControlSocket ---------------------------
(* Two elements of one process, the first with a configured path.          *)
EXTENDS ControlSocket, TLC

CONSTANTS e1, e2, p1, k1, k2

TwoElements == {e1, e2}
OneElement  == {e1}

\* A restart beside another element, a session of each with a client, and two
\* sessions of one element with two.
Restart == [spent |-> e1 :> 0 @@ e2 :> 1, clients |-> {}]
Pair    == [spent |-> e1 :> 1 @@ e2 :> 1, clients |-> {k1}]
Service == [spent |-> e1 :> 0 @@ e2 :> 2, clients |-> {k1, k2}]
Every   == {Restart, Pair, Service}
Alone   == {[spent |-> e1 :> 0, clients |-> {k1}]}
Configured  == e1 :> {p1} @@ e2 :> {}
=============================================================================
