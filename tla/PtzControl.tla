------------------------------ MODULE PtzControl ------------------------------
(***************************************************************************)
(* Pan, tilt and zoom: the probe, the three setters of ptz_control.c and   *)
(* the two threads that call them, the app (properties, set-ptz) and the   *)
(* control socket's (PAN_TILT, ZOOM), beside a streaming thread that may   *)
(* close and reopen the handle when it recovers a silent camera.           *)
(*                                                                         *)
(* A value is a small integer.  A camera goes where a transfer tells it,   *)
(* and back to its rest position when it loses power: unplugged, or cycled *)
(* by the recovery.                                                        *)
(***************************************************************************)
EXTENDS Integers, Sequences

CONSTANTS
    Cameras, Lo, Hi,    \* the range of each camera's axes: Lo[c][a]..Hi[c][a]
    Values,             \* what a caller may ask for
    CurReads,           \* GET_CUR answers: {TRUE}, or BOOLEAN
    Pinned,             \* does the index selector name one camera for good?
    NULL, Nobody

Axis    == {"pan", "tilt", "zoom"}
PanTilt == {"pan", "tilt"}          \* one UVC control
Thread  == {"app", "ctl"}

ASSUME RangesAssumption ==
    /\ Lo \in [Cameras -> [Axis -> Int]]
    /\ Hi \in [Cameras -> [Axis -> Int]]
    /\ \A c \in Cameras, a \in Axis : Lo[c][a] <= Hi[c][a]
ASSUME ValuesAssumption == Values \subseteq Int
ASSUME SwitchesAssumption ==
    CurReads \in {{TRUE}, BOOLEAN} /\ Pinned \in BOOLEAN
ASSUME NullAssumption == NULL \notin Cameras /\ Nobody \notin Thread

VARIABLES
    uvc_devh,           \* NULL, or the camera behind the open handle
    selected,           \* the camera start() opened and probed
    control_mutex,      \* Nobody, or the thread that holds it
    supported, min, max, cur,   \* per axis, as probed
    pc,                 \* "off", "idle", "check", "lock", "transfer", "record"
    jobs,               \* the sets a thread still has to make, in order
    res,                \* did the thread's last transfer succeed?
    position,           \* where each camera really points
    rehomed             \* history: axes of the selected camera that went to
                        \* rest since they were last probed or transferred

handle  == <<uvc_devh, selected>>
probed  == <<supported, min, max>>
vars    == <<handle, control_mutex, probed, cur, pc, jobs, res,
             position, rehomed>>

\* Where a camera points when it is powered up.
AtRest(c) == [a \in Axis |-> Hi[c][a]]

Zero == [a \in Axis |-> 0]

Init ==
    /\ uvc_devh = NULL /\ selected = NULL /\ control_mutex = Nobody
    /\ supported = [a \in Axis |-> FALSE]
    /\ min = Zero /\ max = Zero /\ cur = Zero
    /\ pc = [t \in Thread |-> IF t = "app" THEN "idle" ELSE "off"]
    /\ jobs = [t \in Thread |-> <<>>]
    /\ res = [t \in Thread |-> FALSE]
    /\ position = [c \in Cameras |-> AtRest(c)] /\ rehomed = {}

\* The axes of the controls whose MIN, MAX and RES all answered.
Answered == {{}, PanTilt, {"zoom"}, Axis}

\* An axis counts when its own range is not degenerate; the current value of
\* pan and tilt is read with either, that of zoom only with zoom itself.
Probe(c, answered, read) ==
    LET ok == {a \in answered : Lo[c][a] < Hi[c][a]}
    IN  /\ supported' = [a \in Axis |-> a \in ok]
        /\ min' = [a \in Axis |-> IF a \in ok THEN Lo[c][a] ELSE 0]
        /\ max' = [a \in Axis |-> IF a \in ok THEN Hi[c][a] ELSE 0]
        /\ cur' = [a \in Axis |-> IF read /\ a \in ok \cup (PanTilt \cap answered)
                                  THEN position[c][a] ELSE 0]

\* start() opens a camera, probes it, then lets the control thread run.
Start ==
    /\ uvc_devh = NULL /\ pc["ctl"] = "off" /\ pc["app"] = "idle"
    /\ \E c \in Cameras, answered \in Answered, read \in CurReads :
           uvc_devh' = c /\ selected' = c /\ Probe(c, answered, read)
    /\ pc' = [pc EXCEPT !["ctl"] = "idle"]
    /\ rehomed' = {}
    /\ UNCHANGED <<control_mutex, jobs, res, position>>

\* stop() joins the control thread before it closes the handle.
Stop ==
    /\ pc["ctl"] = "idle" /\ pc["app"] = "idle"
    /\ pc' = [pc EXCEPT !["ctl"] = "off"]
    /\ uvc_devh' = NULL /\ selected' = NULL
    /\ UNCHANGED <<control_mutex, probed, cur, jobs, res, position, rehomed>>

\* teardown_handle() on the streaming thread, without control_mutex.
TeardownHandle ==
    /\ uvc_devh # NULL
    /\ uvc_devh' = NULL
    /\ UNCHANGED <<selected, control_mutex, probed, cur, pc, jobs, res,
                   position, rehomed>>

\* reopen_once(): whatever camera the selector finds now; no new probe.
Reopen ==
    /\ uvc_devh = NULL /\ pc["ctl"] # "off"
    /\ uvc_devh' \in IF Pinned THEN {selected} ELSE Cameras
    /\ UNCHANGED <<selected, control_mutex, probed, cur, pc, jobs, res,
                   position, rehomed>>

\* A camera without an open handle is unplugged or power-cycled, and comes up
\* at rest.  Under an open handle the transfers fail until the handle is torn
\* down, so nothing is lost by waiting for that.
PowerCycle(c) ==
    /\ uvc_devh # c
    /\ position' = [position EXCEPT ![c] = AtRest(c)]
    /\ rehomed' = IF c = selected THEN Axis ELSE rehomed
    /\ UNCHANGED <<handle, control_mutex, probed, cur, pc, jobs, res>>

-----------------------------------------------------------------------------
(* The setters.                                                            *)

OneSet(axes) == {<<[axis |-> a, value |-> v]>> : a \in axes, v \in Values}

PanTiltCommand(v, w) ==
    <<[axis |-> "pan", value |-> v], [axis |-> "tilt", value |-> w]>>

Commands(t) ==
    LET pairs == {PanTiltCommand(v, w) : v, w \in Values}
    IN  IF t = "ctl" THEN pairs \cup OneSet({"zoom"})
        ELSE OneSet(Axis) \cup {Append(p, [axis |-> "zoom", value |-> v]) :
                                    p \in pairs, v \in Values}

\* A property, set-ptz, or a line on the socket.
Command(t) ==
    /\ pc[t] = "idle"
    /\ \E j \in Commands(t) : jobs' = [jobs EXCEPT ![t] = j]
    /\ pc' = [pc EXCEPT ![t] = "check"]
    /\ UNCHANGED <<handle, control_mutex, probed, cur, res, position, rehomed>>

axis(t)  == Head(jobs[t]).axis
value(t) == Head(jobs[t]).value

\* On to the next set of the command, or back to the caller.
NextJob(t) ==
    /\ jobs' = [jobs EXCEPT ![t] = Tail(@)]
    /\ pc' = [pc EXCEPT ![t] = IF Len(jobs[t]) = 1 THEN "idle" ELSE "check"]

\* The gate, read before the mutex is taken.
Check(t) ==
    /\ pc[t] = "check"
    /\ IF uvc_devh # NULL /\ supported[axis(t)]
       THEN pc' = [pc EXCEPT ![t] = "lock"] /\ jobs' = jobs
       ELSE NextJob(t)
    /\ UNCHANGED <<handle, control_mutex, probed, cur, res, position, rehomed>>

F_NoLock(t) == TRUE

MayLock(t) == control_mutex = Nobody

Lock(t) ==
    /\ pc[t] = "lock" /\ MayLock(t)
    /\ control_mutex' = t
    /\ pc' = [pc EXCEPT ![t] = "transfer"]
    /\ UNCHANGED <<handle, probed, cur, jobs, res, position, rehomed>>

F_ClampBelow(v, lo, hi) == IF v < lo THEN lo ELSE v

ptz_clamp(v, lo, hi) == IF v < lo THEN lo ELSE IF v > hi THEN hi ELSE v

Target(t) == ptz_clamp(value(t), min[axis(t)], max[axis(t)])

\* What the transfer carries: pan and tilt travel together, the other one
\* re-sent from its cached value.
Payload(t) ==
    [a \in IF axis(t) = "zoom" THEN {"zoom"} ELSE PanTilt |->
        IF a = axis(t) THEN Target(t) ELSE cur[a]]

\* One control transfer, which the camera obeys or refuses as a whole.
Transfer(t) ==
    /\ pc[t] = "transfer"
    /\ \/ /\ uvc_devh # NULL
          /\ position' = [position EXCEPT ![uvc_devh] =
                 [a \in Axis |-> IF a \in DOMAIN Payload(t)
                                 THEN Payload(t)[a] ELSE @[a]]]
          /\ res' = [res EXCEPT ![t] = TRUE]
          /\ rehomed' = rehomed \ DOMAIN Payload(t)
       \/ /\ res' = [res EXCEPT ![t] = FALSE]
          /\ UNCHANGED <<position, rehomed>>
    /\ pc' = [pc EXCEPT ![t] = "record"]
    /\ UNCHANGED <<handle, control_mutex, probed, cur, jobs>>

F_RecordAlways(t) == cur' = [cur EXCEPT ![axis(t)] = Target(t)]

RecordResult(t) ==
    cur' = IF res[t] THEN [cur EXCEPT ![axis(t)] = Target(t)] ELSE cur

F_KeepLock == control_mutex

Released == Nobody

Record(t) ==
    /\ pc[t] = "record"
    /\ RecordResult(t)
    /\ control_mutex' = Released
    /\ NextJob(t)
    /\ UNCHANGED <<handle, probed, res, position, rehomed>>

-----------------------------------------------------------------------------
Next ==
    \/ Start \/ Stop \/ TeardownHandle \/ Reopen
    \/ \E c \in Cameras : PowerCycle(c)
    \/ \E t \in Thread :
           Command(t) \/ Check(t) \/ Lock(t) \/ Transfer(t) \/ Record(t)

Spec == Init /\ [][Next]_vars

-----------------------------------------------------------------------------
(* Properties.                                                             *)

\* Types; a thread between lock and unlock is the one that holds the mutex.
TypeOK ==
    /\ selected \in Cameras \cup {NULL}
    /\ uvc_devh \in (IF Pinned THEN {selected} ELSE Cameras) \cup {NULL}
    /\ supported \in [Axis -> BOOLEAN] /\ rehomed \subseteq Axis
    /\ cur \in [Axis -> Int] /\ min \in [Axis -> Int] /\ max \in [Axis -> Int]
    /\ \A t \in Thread :
           /\ pc[t] \in {"off", "idle", "check", "lock", "transfer", "record"}
           /\ control_mutex = t <=> pc[t] \in {"transfer", "record"}
           /\ pc[t] \in {"check", "lock", "transfer", "record"} => jobs[t] # <<>>

\* The axes a transfer may carry: pan and tilt travel together.
Carried(a) ==
    supported[a] \/ (a \in PanTilt /\ \E b \in PanTilt : supported[b])

\* Whoever takes control_mutex (GET_POSITION, the next setter) finds in *_cur
\* where the camera points, on every axis a transfer could carry - over
\* failed and concurrent sets, teardowns and reopens.  The one exception is
\* the code's: an axis that went to rest and was not transferred since.
PositionAgrees ==
    uvc_devh # NULL /\ control_mutex = Nobody =>
        \A a \in Axis \ rehomed : Carried(a) => cur[a] = position[uvc_devh][a]

\* Setting one axis leaves every other one where it was last set or found,
\* though pan and tilt share a control and two threads may be setting them at
\* once: another axis moves only if the camera had gone to rest, and then
\* back to its cached position.
OneAxisPerSet ==
    [][\A t \in Thread :
           Transfer(t) => \A c \in Cameras, a \in Axis \ {axis(t)} :
               \/ position'[c][a] = position[c][a]
               \/ /\ c = selected /\ a \in rehomed
                  /\ position'[c][a] = cur[a]]_vars

\* No sequence of sets points a camera outside the range it reported, and no
\* thread holds the mutex outside its transfer.
StaysInRange ==
    /\ TypeOK
    /\ \A c \in Cameras, a \in Axis : position[c][a] \in Lo[c][a]..Hi[c][a]

\* A setter drives the camera only while a device is open; with none it
\* returns FALSE.
TransferNeedsDevice ==
    \A t \in Thread : pc[t] = "transfer" => uvc_devh # NULL

\* Setting pan does not move the tilt, whatever happened to the camera.
OtherAxesStay ==
    [][\A t \in Thread :
           Transfer(t) => \A c \in Cameras, a \in Axis \ {axis(t)} :
                              position'[c][a] = position[c][a]]_vars

\* Only axes the open camera exposes are driven.
DrivenAxisIsExposed ==
    [][\A t \in Thread :
           Transfer(t) /\ uvc_devh # NULL =>
               Lo[uvc_devh][axis(t)] < Hi[uvc_devh][axis(t)]]_vars
=============================================================================
