----------------------------- MODULE LossyLink -----------------------------
(***************************************************************************)
(* What the element promises to whatever is linked downstream of it:       *)
(* access units are numbered in the order they are captured, and are       *)
(* delivered in that order, each at most once.  Frames may be lost (a      *)
(* flush, a reopen and a teardown all drop queued frames), never repeated  *)
(* and never reordered; a new session numbers from zero again.             *)
(***************************************************************************)
EXTENDS Integers

VARIABLES
    open,       \* TRUE between a successful start() and stop()
    captured,   \* how many access units this session has numbered
    last        \* number of the last one delivered, -1 before the first

vars == <<open, captured, last>>

TypeOK == /\ open \in BOOLEAN
          /\ captured \in Nat
          /\ last \in Nat \cup {-1}

Init == ~open /\ captured = 0 /\ last = -1

\* A session begins, or fails to: the numbering restarts either way.
Open == /\ ~open
        /\ open' \in BOOLEAN
        /\ captured' = 0
        /\ last' = -1

Capture == /\ open
           /\ captured' = captured + 1
           /\ UNCHANGED <<open, last>>

\* Any captured frame later than the last delivered one may be next: the
\* ones in between are lost.
Deliver == /\ open
           /\ last' \in (last + 1) .. (captured - 1)
           /\ UNCHANGED <<open, captured>>

Close == /\ open
         /\ open' = FALSE
         /\ UNCHANGED <<captured, last>>

Next == Open \/ Capture \/ Deliver \/ Close

Spec == Init /\ [][Next]_vars
=============================================================================
