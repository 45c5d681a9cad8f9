----------------------------- MODULE PortRecovery -----------------------------
(***************************************************************************)
(* The deep rung of usb_port_recovery.c: the target captured while the     *)
(* handle is live, then, after a port reset that did not take, one         *)
(* escalation through sysfs: `authorized` 0 and 1 on the device if it is   *)
(* still there, else `disable` 1 and 0 on its port.  Other devices come    *)
(* and go on the same hub, which may switch the power of its ports         *)
(* together.  What leads to the rung is UvcSource's business.              *)
(*                                                                         *)
(* A device is known by its vid:pid, as it is to usb_deep_recovery_run();  *)
(* the capture knows it by its bus address, which it loses when it leaves  *)
(* the bus.  A device directory appears when its port's device enumerates, *)
(* the port's `device` link a moment later.                                *)
(***************************************************************************)
EXTENDS Integers, FiniteSets

CONSTANTS
    Ports, Port,    \* a hub's ports, and the one the camera is on
    Idents, Ours,   \* vid:pids, and the camera's
    BusMoves,       \* does the bus move during usb_deep_recovery_run()?
    MaxFaults,      \* bound: writes the kernel rejects
    None

\* UsbDeepRecoveryOutcome, and those that claim a recovery.
Acted    == {"DEVICE_REPROBED", "PORT_CYCLED"}
Outcomes == Acted \cup {"NO_TARGET", "REFUSED_SHARED_HUB", "REFUSED_IDENTITY",
                        "UNAVAILABLE", "DENIED", "FAILED"}

ASSUME PortAssumption  ==
    Port \in Ports /\ Ours \in Idents /\ None \notin Idents
ASSUME NoneAssumption  == None \notin Outcomes
ASSUME BoundAssumption == BusMoves \in BOOLEAN /\ MaxFaults \in Nat

VARIABLES
    plugged, dir, link,     \* per port: what is there, as sysfs shows it
    authorized, disabled,   \* per port: the two attributes
    ganged,                 \* the hub switches the power of all its ports
    privileged, visible,    \* the process may write sysfs; it can read it
    step, pc,               \* progress before the run, and inside it
    held,                   \* the opened device is on the bus, same address
    known,                  \* it was when the recovery began
    target,                 \* None, or the vid:pid captured with the paths
    outcome, disturbed, faults

bus     == <<plugged, dir, link, authorized, disabled>>
hub     == <<ganged, privileged, visible>>
setting == <<hub, held, known>>
vars    == <<bus, setting, step, pc, target, outcome, disturbed, faults>>

NoDevice == [p \in Ports |-> None]

Init ==
    /\ plugged \in [Ports -> Idents \cup {None}] /\ plugged[Port] = Ours
    /\ dir = plugged /\ link = plugged
    /\ authorized = [p \in Ports |-> TRUE]
    /\ disabled = [p \in Ports |-> FALSE]
    /\ ganged \in BOOLEAN /\ privileged \in BOOLEAN /\ visible \in BOOLEAN
    /\ step = 1 /\ pc = "before" /\ target = None
    /\ held = TRUE /\ known = TRUE
    /\ outcome = None /\ disturbed = {} /\ faults = 0

-----------------------------------------------------------------------------
(* The bus.                                                                *)

MayMove == pc = "before" \/ BusMoves

Unplug(p) ==
    /\ MayMove /\ plugged[p] # None
    /\ plugged' = [plugged EXCEPT ![p] = None]
    /\ dir' = [dir EXCEPT ![p] = None] /\ link' = [link EXCEPT ![p] = None]
    /\ held' = (held /\ p # Port)
    /\ UNCHANGED <<authorized, disabled, hub, known, step, pc, target, outcome,
                   disturbed, faults>>

Plug(p) ==
    /\ MayMove /\ plugged[p] = None
    /\ \E d \in Idents : plugged' = [plugged EXCEPT ![p] = d]
    /\ UNCHANGED <<dir, link, authorized, disabled, setting, step, pc, target,
                   outcome, disturbed, faults>>

\* A port whose device fails to enumerate is one where this never happens.
Enumerate(p) ==
    /\ MayMove /\ plugged[p] # None /\ dir[p] = None /\ ~disabled[p]
    /\ dir' = [dir EXCEPT ![p] = plugged[p]]
    /\ authorized' = [authorized EXCEPT ![p] = TRUE]
    /\ UNCHANGED <<plugged, link, disabled, setting, step, pc, target, outcome,
                   disturbed, faults>>

LinkUp(p) ==
    /\ MayMove /\ dir[p] # link[p]
    /\ link' = [link EXCEPT ![p] = dir[p]]
    /\ UNCHANGED <<plugged, dir, authorized, disabled, setting, step, pc,
                   target, outcome, disturbed, faults>>

-----------------------------------------------------------------------------
(* recover_wedged_device(), up to the rung.                                *)

F_ResetFirst == <<"reset", "capture", "run">>

\* The paths are read while the device is there to lead to them.
Order == <<"capture", "reset", "run">>

At(name) == pc = "before" /\ Order[step] = name

Began == known' = IF step = 1 THEN held ELSE known

\* By bus and address, so never a device that has taken the camera's port.
Capture ==
    /\ At("capture") /\ Began
    /\ target' = IF visible /\ held THEN Ours ELSE None
    /\ step' = step + 1
    /\ UNCHANGED <<bus, hub, held, pc, outcome, disturbed, faults>>

\* The device drops off the bus, for good or until it enumerates again; one
\* that is not there any more cannot be reset, which ends the recovery.
Reset ==
    /\ At("reset") /\ Began
    /\ \/ /\ held /\ held' = FALSE
          /\ dir' = [dir EXCEPT ![Port] = None]
          /\ link' = [link EXCEPT ![Port] = None]
          /\ step' = step + 1 /\ pc' = pc
       \/ /\ ~held /\ pc' = "unreachable"
          /\ UNCHANGED <<held, dir, link, step>>
    /\ UNCHANGED <<plugged, authorized, disabled, hub, target, outcome,
                   disturbed, faults>>

\* The reopens of the budget have failed.  A bus that does not move while the
\* rung runs has settled by now: no device is halfway through enumeration.
Escalate ==
    /\ At("run") /\ (BusMoves \/ dir = link)
    /\ IF target = None THEN pc' = "done" /\ outcome' = "NO_TARGET"
       ELSE pc' = "occupant" /\ outcome' = outcome
    /\ UNCHANGED <<bus, setting, step, target, disturbed, faults>>

-----------------------------------------------------------------------------
(* usb_deep_recovery_run().                                                *)

F_EndSilently(result) == pc' = "done" /\ outcome' = outcome

End(result) == pc' = "done" /\ outcome' = result

Go(next) == pc' = next /\ outcome' = outcome

F_AnyDevice(d) == TRUE

identity_matches(d) == d = target

CheckOccupant ==
    /\ pc = "occupant"
    /\ IF link[Port] # None /\ ~identity_matches(link[Port])
       THEN End("REFUSED_IDENTITY") ELSE Go("device")
    /\ UNCHANGED <<bus, setting, step, target, disturbed, faults>>

CheckDevice ==
    /\ pc = "device"
    /\ IF dir[Port] = None THEN Go("siblings")
       ELSE IF ~identity_matches(dir[Port]) THEN End("REFUSED_IDENTITY")
       ELSE Go("deauthorize")
    /\ UNCHANGED <<bus, setting, step, target, disturbed, faults>>

F_Unshared(listed) == ~listed

\* A child on any other port of the hub, or a hub whose ports cannot be listed.
hub_carries_other_devices(listed) ==
    ~listed \/ \E p \in Ports \ {Port} : link[p] # None

CheckSiblings ==
    /\ pc = "siblings"
    /\ \E listed \in BOOLEAN :
           IF hub_carries_other_devices(listed) THEN End("REFUSED_SHARED_HUB")
           ELSE Go("disable")
    /\ UNCHANGED <<bus, setting, step, target, disturbed, faults>>

\* write_attr() fails on its own, without touching anything: no privilege, no
\* such attribute, or a write the kernel rejects.
WriteFails(exists) ==
    /\ \/ exists /\ ~privileged /\ End("DENIED") /\ faults' = faults
       \/ ~exists /\ End("UNAVAILABLE") /\ faults' = faults
       \/ /\ exists /\ privileged /\ faults < MaxFaults
          /\ End("FAILED") /\ faults' = faults + 1
    /\ UNCHANGED <<bus, disturbed>>

WriteAuthorized(on, next) ==
    /\ authorized' = [authorized EXCEPT ![Port] = on]
    /\ disturbed' = disturbed \cup {dir[Port]}
    /\ next
    /\ UNCHANGED <<plugged, dir, link, disabled, faults>>

Deauthorize ==
    /\ pc = "deauthorize"
    /\ \/ /\ privileged /\ dir[Port] # None
          /\ WriteAuthorized(FALSE, Go("authorize"))
       \/ WriteFails(dir[Port] # None)
    /\ UNCHANGED <<setting, step, target>>

Authorize ==
    /\ pc = "authorize"
    /\ \/ /\ privileged /\ dir[Port] # None
          /\ WriteAuthorized(TRUE, End("DEVICE_REPROBED"))
       \/ WriteFails(dir[Port] # None)
    /\ UNCHANGED <<setting, step, target>>

\* Not every kernel has the attribute.  Powering the port off drops
\* its device, or that of every port on a ganged hub.
Disable ==
    /\ pc = "disable"
    /\ \/ LET off == IF ganged THEN Ports ELSE {Port}
          IN  /\ privileged /\ Go("restore") /\ faults' = faults
              /\ disabled' = [disabled EXCEPT ![Port] = TRUE]
              /\ dir' = [p \in Ports |-> IF p \in off THEN None ELSE dir[p]]
              /\ link' = [p \in Ports |-> IF p \in off THEN None ELSE link[p]]
              /\ disturbed' = disturbed \cup ({dir[p] : p \in off} \ {None})
              /\ UNCHANGED <<plugged, authorized>>
       \/ \E exists \in BOOLEAN : WriteFails(exists)
    /\ UNCHANGED <<setting, step, target>>

F_StillDisabled == TRUE

Enabled == FALSE

Restore ==
    /\ pc = "restore"
    /\ \/ /\ disabled' = [disabled EXCEPT ![Port] = Enabled]
          /\ End("PORT_CYCLED")
          /\ UNCHANGED <<plugged, dir, link, authorized, disturbed, faults>>
       \/ WriteFails(TRUE)
    /\ UNCHANGED <<setting, step, target>>

-----------------------------------------------------------------------------
Next ==
    \/ \E p \in Ports : Unplug(p) \/ Plug(p) \/ Enumerate(p) \/ LinkUp(p)
    \/ Capture \/ Reset \/ Escalate
    \/ CheckOccupant \/ CheckDevice \/ CheckSiblings
    \/ Deauthorize \/ Authorize \/ Disable \/ Restore

Spec == Init /\ [][Next]_vars

-----------------------------------------------------------------------------
(* Properties.                                                             *)

\* Types; an outcome is reported exactly when the run is over, and only the
\* camera's own port is ever disabled.
TypeOK ==
    /\ plugged \in [Ports -> Idents \cup {None}]
    /\ outcome \in Outcomes \cup {None} /\ (outcome # None <=> pc = "done")
    /\ \A p \in Ports : disabled[p] => p = Port
    /\ disturbed \subseteq Idents

\* No write reaches a device other than the camera: not one that took its
\* place since the capture, nor a neighbour on a hub that may be ganged, and
\* no port but its own is disabled.
OthersUntouched == TypeOK /\ disturbed \subseteq {target}

\* The two outcomes that claim a recovery leave the port enabled and what is
\* on it authorized.
ActedMeansRestored ==
    outcome \in Acted =>
        ~disabled[Port] /\ (dir[Port] # None => authorized[Port])

\* A camera that was on the bus when the recovery began is never reported as
\* NO_TARGET where sysfs can be read, although the reset takes its directory
\* away: the capture comes first.
TargetSurvivesReset == outcome = "NO_TARGET" => ~(known /\ visible)

\* However the run ends, the port is not left disabled.
PortLeftEnabled == pc = "done" => ~disabled[Port]
=============================================================================
