------------------------- MODULE PortRecoveryProofs -------------------------
(***************************************************************************)
(* PortRecovery, for every hub, every set of devices and every number of   *)
(* rejected writes.  Only OthersUntouched needs a bus that is quiet while  *)
(* the rung runs; PortSwap shows it fail on one that moves.                *)
(***************************************************************************)
EXTENDS PortRecovery, TLAPS

Occupants == Idents \cup {None}

\* The positions of usb_deep_recovery_run() that have a target and have not
\* ended.
Running == {"occupant", "device", "siblings", "deauthorize", "authorize",
            "disable", "restore"}

TypeInv ==
    /\ TypeOK
    /\ dir \in [Ports -> Occupants] /\ link \in [Ports -> Occupants]
    /\ authorized \in [Ports -> BOOLEAN] /\ disabled \in [Ports -> BOOLEAN]
    /\ visible \in BOOLEAN /\ held \in BOOLEAN /\ known \in BOOLEAN
    /\ step \in 1 .. 3
    /\ pc \in Running \cup {"before", "unreachable", "done"}
    /\ target \in Occupants

\* What the camera's port was left with, unless a claim of recovery is due.
AttrInv ==
    /\ disabled[Port] => \/ pc = "restore"
                         \/ pc = "done" /\ outcome \notin Acted
    /\ ~authorized[Port] => \/ pc = "authorize"
                            \/ pc = "done" /\ outcome \notin Acted

\* The target is captured in the first step, from a device still on the bus.
CaptureInv ==
    /\ step = 1 => pc = "before" /\ target = None
    /\ step > 1 /\ target = None => ~(known /\ visible)
    /\ pc \in Running => target # None
    /\ outcome = "NO_TARGET" => step > 1 /\ target = None

\* On a quiet bus, what a check saw is still so at the write.
QuietInv ==
    /\ pc = "before" => disturbed = {}
    /\ disturbed \subseteq {target}
    /\ pc \in Running => dir = link
    /\ pc \in {"deauthorize", "authorize"} => dir[Port] = target
    /\ pc \in {"siblings", "disable"} => dir[Port] = None
    /\ pc = "disable" => \A p \in Ports \ {Port} : dir[p] = None

\* The three steps of recover_wedged_device(), and their order.
LEMMA StepOrder ==
    ASSUME TypeInv
    PROVE  /\ At("capture") => pc = "before" /\ step = 1
           /\ At("reset") => pc = "before" /\ step = 2
           /\ At("run") => pc = "before" /\ step = 3
BY DEF TypeInv, At, Order

\* The whole step that a rejected write is.
LEMMA RejectedWrite ==
    ASSUME TypeInv, NEW exists \in BOOLEAN, WriteFails(exists)
    PROVE  /\ pc' = "done" /\ outcome' \in {"DENIED", "UNAVAILABLE", "FAILED"}
           /\ UNCHANGED <<bus, disturbed>>
BY DEF WriteFails, End

\* Types: an outcome exactly at the end, and no port disabled but our own.
THEOREM TypesAreKept == Spec => []TypeInv
<1> USE PortAssumption, NoneAssumption DEF Occupants, Running, Outcomes, Acted
<1>1. Init => TypeInv
  BY DEF Init, TypeInv, TypeOK
<1>2. TypeInv /\ [Next]_vars => TypeInv'
  <2> SUFFICES ASSUME TypeInv, [Next]_vars PROVE TypeInv'
    OBVIOUS
  <2> USE DEF TypeInv, TypeOK, bus, hub, setting, Go, End
  <2>1. ASSUME NEW p \in Ports, Unplug(p)
        PROVE  TypeInv'
    BY <2>1 DEF Unplug
  <2>2. ASSUME NEW p \in Ports, Plug(p)
        PROVE  TypeInv'
    BY <2>2 DEF Plug
  <2>3. ASSUME NEW p \in Ports, Enumerate(p)
        PROVE  TypeInv'
    BY <2>3 DEF Enumerate
  <2>4. ASSUME NEW p \in Ports, LinkUp(p)
        PROVE  TypeInv'
    BY <2>4 DEF LinkUp
  <2>5. CASE Capture
    <3>1. known' \in BOOLEAN /\ target' \in Idents \cup {None}
      BY <2>5 DEF Capture, Began
    <3>2. step' \in 1 .. 3 /\ pc = "before"
      BY <2>5, StepOrder DEF Capture
    <3>3. QED
      BY <2>5, <3>1, <3>2 DEF Capture
  <2>6. CASE Reset
    <3>1. known' \in BOOLEAN /\ held' \in BOOLEAN /\ pc = "before"
      BY <2>6, StepOrder DEF Reset, Began
    <3>2. step' \in 1 .. 3 /\ pc' \in {"before", "unreachable"}
      BY <2>6, StepOrder DEF Reset
    <3>3. dir' \in [Ports -> Idents \cup {None}]
          /\ link' \in [Ports -> Idents \cup {None}]
      BY <2>6 DEF Reset
    <3>4. QED
      BY <2>6, <3>1, <3>2, <3>3 DEF Reset
  <2>7. CASE Escalate
    BY <2>7, StepOrder DEF Escalate
  <2>8. CASE CheckOccupant
    BY <2>8 DEF CheckOccupant
  <2>9. CASE CheckDevice
    BY <2>9 DEF CheckDevice
  <2>10. CASE CheckSiblings
    BY <2>10 DEF CheckSiblings
  <2>11. CASE Deauthorize
    <3>1. CASE WriteFails(dir[Port] # None)
      BY <2>11, <3>1, RejectedWrite DEF Deauthorize
    <3>2. CASE dir[Port] # None /\ WriteAuthorized(FALSE, Go("authorize"))
      BY <2>11, <3>2 DEF Deauthorize, WriteAuthorized
    <3>3. QED
      BY <2>11, <3>1, <3>2 DEF Deauthorize
  <2>12. CASE Authorize
    <3>1. CASE WriteFails(dir[Port] # None)
      BY <2>12, <3>1, RejectedWrite DEF Authorize
    <3>2. CASE dir[Port] # None /\ WriteAuthorized(TRUE, End("DEVICE_REPROBED"))
      BY <2>12, <3>2 DEF Authorize, WriteAuthorized
    <3>3. QED
      BY <2>12, <3>1, <3>2 DEF Authorize
  <2>13. CASE Disable
    <3>1. CASE \E exists \in BOOLEAN : WriteFails(exists)
      BY <2>13, <3>1, RejectedWrite DEF Disable
    <3>2. CASE ~\E exists \in BOOLEAN : WriteFails(exists)
      <4> DEFINE off == IF ganged THEN Ports ELSE {Port}
      <4>1. /\ pc' = "restore" /\ outcome' = outcome
            /\ disabled' = [disabled EXCEPT ![Port] = TRUE]
            /\ dir' = [p \in Ports |-> IF p \in off THEN None ELSE dir[p]]
            /\ link' = [p \in Ports |-> IF p \in off THEN None ELSE link[p]]
            /\ disturbed' = disturbed \cup ({dir[p] : p \in off} \ {None})
            /\ UNCHANGED <<plugged, authorized, setting, step, target>>
        BY <2>13, <3>2 DEF Disable
      <4>2. {dir[p] : p \in off} \ {None} \subseteq Idents
        OBVIOUS
      <4> HIDE DEF off
      <4>3. disturbed' \subseteq Idents
        BY <4>1, <4>2
      <4>4. dir' \in [Ports -> Idents \cup {None}]
            /\ link' \in [Ports -> Idents \cup {None}]
        BY <4>1
      <4>5. disabled' \in [Ports -> BOOLEAN]
            /\ \A p \in Ports : disabled'[p] => p = Port
        BY <4>1
      <4>6. QED
        BY <2>13, <4>1, <4>3, <4>4, <4>5 DEF Disable
    <3>3. QED
      BY <3>1, <3>2
  <2>14. CASE Restore
    <3>1. CASE WriteFails(TRUE)
      BY <2>14, <3>1, RejectedWrite DEF Restore
    <3>2. CASE ~WriteFails(TRUE)
      BY <2>14, <3>2 DEF Restore, Enabled
    <3>3. QED
      BY <3>1, <3>2
  <2>15. CASE UNCHANGED vars
    BY <2>15 DEF vars
  <2>16. QED
    BY <2>1, <2>2, <2>3, <2>4, <2>5, <2>6, <2>7, <2>8, <2>9, <2>10, <2>11,
       <2>12, <2>13, <2>14, <2>15 DEF Next
<1>3. QED
  BY <1>1, <1>2, PTL DEF Spec

\* An attribute written away from its resting value is written back, or the
\* run ends without a claim.
LEMMA AttrStep ==
    ASSUME TypeInv, AttrInv, [Next]_vars
    PROVE  AttrInv'
<1> USE PortAssumption DEF TypeInv, AttrInv, bus, hub, setting, Go, End, Acted
<1>1. ASSUME NEW p \in Ports,
             Unplug(p) \/ Plug(p) \/ Enumerate(p) \/ LinkUp(p)
      PROVE  AttrInv'
  BY <1>1 DEF Unplug, Plug, Enumerate, LinkUp
<1>2. CASE Capture \/ Reset \/ Escalate
  BY <1>2, StepOrder DEF Capture, Reset, Escalate
<1>3. CASE CheckOccupant \/ CheckDevice \/ CheckSiblings
  BY <1>3 DEF CheckOccupant, CheckDevice, CheckSiblings
<1>4. CASE Deauthorize
  <2>1. CASE WriteFails(dir[Port] # None)
    BY <1>4, <2>1, RejectedWrite DEF Deauthorize
  <2>2. CASE WriteAuthorized(FALSE, Go("authorize"))
    BY <1>4, <2>2 DEF Deauthorize, WriteAuthorized
  <2>3. QED
    BY <1>4, <2>1, <2>2 DEF Deauthorize
<1>5. CASE Authorize
  <2>1. CASE WriteFails(dir[Port] # None)
    BY <1>5, <2>1, RejectedWrite DEF Authorize
  <2>2. CASE WriteAuthorized(TRUE, End("DEVICE_REPROBED"))
    BY <1>5, <2>2 DEF Authorize, WriteAuthorized
  <2>3. QED
    BY <1>5, <2>1, <2>2 DEF Authorize
<1>6. CASE Disable
  <2>1. CASE \E exists \in BOOLEAN : WriteFails(exists)
    BY <1>6, <2>1, RejectedWrite DEF Disable
  <2>2. CASE pc' = "restore" /\ outcome' = outcome /\ authorized' = authorized
    BY <1>6, <2>2 DEF Disable
  <2>3. QED
    BY <1>6, <2>1, <2>2 DEF Disable
<1>7. CASE Restore
  <2>1. CASE WriteFails(TRUE)
    BY <1>7, <2>1, RejectedWrite DEF Restore
  <2>2. CASE disabled' = [disabled EXCEPT ![Port] = Enabled]
             /\ authorized' = authorized
    BY <1>7, <2>2 DEF Restore, Enabled
  <2>3. QED
    BY <1>7, <2>1, <2>2 DEF Restore
<1>8. CASE UNCHANGED vars
  BY <1>8 DEF vars
<1>9. QED
  BY <1>1, <1>2, <1>3, <1>4, <1>5, <1>6, <1>7, <1>8 DEF Next

\* The capture comes before the reset takes the device off the bus, and what
\* it found is what the run acts on.
LEMMA CaptureStep ==
    ASSUME TypeInv, CaptureInv, [Next]_vars
    PROVE  CaptureInv'
<1> USE PortAssumption, NoneAssumption
    DEF TypeInv, TypeOK, CaptureInv, bus, hub, setting, Go, End, Running,
        Outcomes, Acted
<1>1. ASSUME NEW p \in Ports,
             Unplug(p) \/ Plug(p) \/ Enumerate(p) \/ LinkUp(p)
      PROVE  CaptureInv'
  BY <1>1 DEF Unplug, Plug, Enumerate, LinkUp
<1>2. CASE Capture
  <2>1. pc = "before" /\ step = 1 /\ step' = 2 /\ known' = held
        /\ pc' = pc /\ outcome' = outcome /\ visible' = visible
    BY <1>2, StepOrder DEF Capture, Began
  <2>2. target' = IF visible /\ held THEN Ours ELSE None
    BY <1>2 DEF Capture
  <2>3. QED
    BY <2>1, <2>2
<1>3. CASE Reset
  <2>1. /\ pc = "before" /\ step = 2 /\ known' = known /\ step' >= 2
        /\ pc' \in {"before", "unreachable"}
        /\ UNCHANGED <<outcome, visible, target>>
    BY <1>3, StepOrder DEF Reset, Began
  <2>2. QED
    BY <2>1
<1>4. CASE Escalate
  <2>1. pc = "before" /\ step = 3
    BY <1>4, StepOrder DEF Escalate
  <2>2. QED
    BY <1>4, <2>1 DEF Escalate
<1>5. CASE CheckOccupant \/ CheckDevice \/ CheckSiblings
  BY <1>5 DEF CheckOccupant, CheckDevice, CheckSiblings
<1>6. CASE Deauthorize \/ Authorize \/ Disable \/ Restore
  <2>1. CASE \E exists \in BOOLEAN : WriteFails(exists)
    <3>1. pc \in Running /\ UNCHANGED <<setting, step, target>>
      BY <1>6 DEF Deauthorize, Authorize, Disable, Restore
    <3>2. QED
      BY <2>1, <3>1, RejectedWrite
  <2>2. CASE ~\E exists \in BOOLEAN : WriteFails(exists)
    <3>1. /\ pc \in Running /\ UNCHANGED <<setting, step, target>>
          /\ pc' \in {"authorize", "restore", "done"}
          /\ outcome' # "NO_TARGET"
      BY <1>6, <2>2 DEF Deauthorize, Authorize, Disable, Restore,
                        WriteAuthorized
    <3>2. QED
      BY <3>1
  <2>3. QED
    BY <2>1, <2>2
<1>7. CASE UNCHANGED vars
  BY <1>7 DEF vars
<1>8. QED
  BY <1>1, <1>2, <1>3, <1>4, <1>5, <1>6, <1>7 DEF Next

\* With a quiet bus the device a write reaches is the one a check saw.
LEMMA QuietStep ==
    ASSUME BusMoves = FALSE, TypeInv, CaptureInv, QuietInv, [Next]_vars
    PROVE  QuietInv'
<1> USE PortAssumption DEF TypeInv, CaptureInv, QuietInv, Running,
                           bus, hub, setting, Go, End
<1>1. ASSUME NEW p \in Ports,
             Unplug(p) \/ Plug(p) \/ Enumerate(p) \/ LinkUp(p)
      PROVE  QuietInv'
  BY <1>1 DEF Unplug, Plug, Enumerate, LinkUp, MayMove
<1>2. CASE Capture
  BY <1>2, StepOrder DEF Capture
<1>3. CASE Reset
  BY <1>3, StepOrder DEF Reset
<1>4. CASE Escalate
  BY <1>4, StepOrder DEF Escalate
<1>5. CASE CheckOccupant
  BY <1>5 DEF CheckOccupant
<1>6. CASE CheckDevice
  BY <1>6 DEF CheckDevice, identity_matches
<1>7. CASE CheckSiblings
  BY <1>7 DEF CheckSiblings, hub_carries_other_devices
<1>8. CASE Deauthorize
  BY <1>8 DEF Deauthorize, WriteAuthorized, WriteFails
<1>9. CASE Authorize
  BY <1>9 DEF Authorize, WriteAuthorized, WriteFails
<1>10. CASE Disable
  <2>1. CASE \E exists \in BOOLEAN : WriteFails(exists)
    BY <1>10, <2>1, RejectedWrite DEF Disable
  <2>2. CASE ~\E exists \in BOOLEAN : WriteFails(exists)
    <3> DEFINE off == IF ganged THEN Ports ELSE {Port}
    <3>1. /\ pc' = "restore" /\ target' = target
          /\ dir' = [p \in Ports |-> IF p \in off THEN None ELSE dir[p]]
          /\ link' = [p \in Ports |-> IF p \in off THEN None ELSE link[p]]
          /\ disturbed' = disturbed \cup ({dir[p] : p \in off} \ {None})
      BY <1>10, <2>2 DEF Disable
    <3>2. \A p \in Ports : dir[p] = None
      BY <1>10 DEF Disable
    <3>3. {dir[p] : p \in off} \ {None} = {}
      BY <3>2
    <3>4. dir' = link' /\ disturbed' = disturbed
      <4> HIDE DEF off
      <4>1. dir = link
        BY <1>10 DEF Disable
      <4>2. QED
        BY <3>1, <3>3, <4>1
    <3>5. QED
      BY <3>1, <3>4
  <2>3. QED
    BY <2>1, <2>2
<1>11. CASE Restore
  BY <1>11 DEF Restore, WriteFails
<1>12. CASE UNCHANGED vars
  BY <1>12 DEF vars
<1>13. QED
  BY <1>1, <1>2, <1>3, <1>4, <1>5, <1>6, <1>7, <1>8, <1>9, <1>10, <1>11,
     <1>12 DEF Next

-----------------------------------------------------------------------------

\* Both outcomes that claim a recovery leave the port as it was found, also
\* when the bus moves under the rung.
THEOREM ClaimsAreRestored == Spec => []ActedMeansRestored
<1>1. Init => AttrInv
  BY PortAssumption DEF Init, AttrInv
<1>2. TypeInv /\ AttrInv => ActedMeansRestored
  BY NoneAssumption DEF AttrInv, ActedMeansRestored, TypeInv, TypeOK, Outcomes,
                        Acted
<1>3. QED
  BY <1>1, <1>2, AttrStep, TypesAreKept, PTL DEF Spec

\* A camera that was on the bus when the recovery began is never missed for
\* want of a capture.
THEOREM TargetsSurvive == Spec => []TargetSurvivesReset
<1>1. Init => CaptureInv
  BY NoneAssumption DEF Init, CaptureInv, Running, Outcomes
<1>2. CaptureInv => TargetSurvivesReset
  BY DEF CaptureInv, TargetSurvivesReset
<1>3. QED
  BY <1>1, <1>2, CaptureStep, TypesAreKept, PTL DEF Spec

\* On a bus that is quiet while the rung runs, no write reaches a device but
\* the captured one, whatever took its place before and whoever shares the
\* hub.
THEOREM OthersAreUntouched ==
    ASSUME BusMoves = FALSE
    PROVE  Spec => []OthersUntouched
<1>1. Init => CaptureInv /\ QuietInv
  BY NoneAssumption DEF Init, CaptureInv, QuietInv, Running, Outcomes
<1>2. TypeInv /\ CaptureInv /\ QuietInv /\ [Next]_vars =>
          CaptureInv' /\ QuietInv'
  BY CaptureStep, QuietStep
<1>3. TypeInv /\ QuietInv => OthersUntouched
  BY DEF TypeInv, QuietInv, OthersUntouched
<1>4. QED
  BY <1>1, <1>2, <1>3, TypesAreKept, PTL DEF Spec
=============================================================================
