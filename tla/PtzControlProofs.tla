-------------------------- MODULE PtzControlProofs --------------------------
(***************************************************************************)
(* PtzControl, for every set of cameras, every range and every request.    *)
(*                                                                         *)
(* The types and the mutual exclusion of the transfer need no hypothesis.  *)
(* What is said of the camera's position needs two: that GET_CUR answers   *)
(* at the probe, and that a reopen finds the camera that was probed.       *)
(* PtzNoCurrent and PtzOtherCamera show what happens without them.  The    *)
(* camera may lose power whenever its handle is closed.                    *)
(***************************************************************************)
EXTENDS PtzControl, SequenceTheorems, TLAPS

Position == {"off", "idle", "check", "lock", "transfer", "record"}
Job      == [axis : Axis, value : Values]

\* TypeOK says nothing of the program counters' domain, of what the jobs are
\* or of where the cameras point.
TypeInv ==
    /\ TypeOK
    /\ control_mutex \in Thread \cup {Nobody}
    /\ pc \in [Thread -> Position]
    /\ jobs \in [Thread -> Seq(Job)]
    /\ res \in [Thread -> BOOLEAN]
    /\ position \in [Cameras -> [Axis -> Int]]

\* The control thread runs exactly while a camera is selected, and a thread
\* past the gate sets an axis that the probe found.
GateInv ==
    /\ selected = NULL <=> pc["ctl"] = "off"
    /\ selected = NULL => uvc_devh = NULL
    /\ pc["app"] # "off"
    /\ \A t \in Thread : pc[t] \in {"lock", "transfer", "record"} =>
           selected # NULL /\ supported[axis(t)]

\* The limits of an axis in use are those of the selected camera.
RangeInv ==
    selected # NULL => \A a \in Axis :
        supported[a] => min[a] = Lo[selected][a] /\ max[a] = Hi[selected][a]

\* The cached position is the camera's, but on an axis that went to rest and
\* on the one a transfer has just moved and whose result is not recorded yet.
CurInv ==
    /\ selected # NULL =>
           \A a \in Axis \ rehomed :
               Carried(a) => \/ cur[a] = position[selected][a]
                             \/ \E t \in Thread : /\ pc[t] = "record"
                                                  /\ res[t] /\ axis(t) = a
    /\ \A t \in Thread : pc[t] = "record" /\ axis(t) \notin rehomed =>
           position[selected][axis(t)] =
               IF res[t] THEN Target(t) ELSE cur[axis(t)]

\* A stale value may be sent again, so it too is one the camera can take.
CachedInRange ==
    selected # NULL => \A a \in Axis :
        Carried(a) => cur[a] \in Lo[selected][a]..Hi[selected][a]

InRange ==
    \A c \in Cameras, a \in Axis : position[c][a] \in Lo[c][a]..Hi[c][a]

PositionInv == /\ TypeInv /\ GateInv /\ RangeInv
               /\ CurInv /\ CachedInRange /\ InRange

-----------------------------------------------------------------------------
(* Types.                                                                  *)

\* What a command leaves in jobs is a list of sets, and is not empty: the
\* property and the socket line make one set or two, set-ptz three.
LEMMA CommandTypes ==
    ASSUME NEW t \in Thread, NEW j \in Commands(t)
    PROVE  j \in Seq(Job) /\ j # <<>>
<1> DEFINE One(a, v) == [axis |-> a, value |-> v]
<1>1. \A a \in Axis, v \in Values : One(a, v) \in Job
  BY DEF Job
<1>2. ASSUME NEW axes \in SUBSET Axis, j \in OneSet(axes)
      PROVE  j \in Seq(Job) /\ j # <<>>
  <2>1. PICK a \in axes, v \in Values : j = <<One(a, v)>>
    BY <1>2 DEF OneSet
  <2>2. One(a, v) \in Job
    BY <1>1
  <2>3. QED
    BY <2>1, <2>2
<1>3. \A v, w \in Values : /\ PanTiltCommand(v, w) \in Seq(Job)
                           /\ PanTiltCommand(v, w) # <<>>
  <2> TAKE v, w \in Values
  <2>1. One("pan", v) \in Job /\ One("tilt", w) \in Job
    BY <1>1 DEF Axis
  <2>2. PanTiltCommand(v, w) = <<One("pan", v), One("tilt", w)>>
    BY DEF PanTiltCommand
  <2>3. QED
    BY <2>1, <2>2
<1>4. \A v, w, z \in Values :
          /\ Append(PanTiltCommand(v, w), One("zoom", z)) \in Seq(Job)
          /\ Append(PanTiltCommand(v, w), One("zoom", z)) # <<>>
  <2> TAKE v, w, z \in Values
  <2>1. PanTiltCommand(v, w) \in Seq(Job) /\ One("zoom", z) \in Job
    BY <1>1, <1>3 DEF Axis
  <2>2. QED
    BY <2>1, AppendProperties
<1>5. CASE t = "ctl"
  BY <1>2, <1>3, <1>5 DEF Commands, Axis
<1>6. CASE t = "app"
  <2>1. \/ j \in OneSet(Axis)
        \/ \E v, w, z \in Values :
               j = Append(PanTiltCommand(v, w), One("zoom", z))
    BY <1>6 DEF Commands
  <2>2. QED
    BY <1>2, <1>4, <2>1
<1>7. QED
  BY <1>5, <1>6 DEF Thread

\* The set a thread is making names an axis and an integer.
LEMMA JobTypes ==
    ASSUME TypeInv, NEW t \in Thread, jobs[t] # <<>>
    PROVE  axis(t) \in Axis /\ value(t) \in Int
<1>1. Head(jobs[t]) \in Job
  BY HeadTailProperties DEF TypeInv
<1>2. QED
  BY <1>1, ValuesAssumption DEF Job, axis, value

\* A value brought inside a range whose ends are in order lies inside it.
LEMMA ClampStaysInside ==
    ASSUME NEW v \in Int, NEW lo \in Int, NEW hi \in Int, lo <= hi
    PROVE  ptz_clamp(v, lo, hi) \in lo..hi
BY DEF ptz_clamp

\* What a transfer carries is an integer for each of its axes.
LEMMA PayloadTypes ==
    ASSUME TypeInv, NEW t \in Thread, jobs[t] # <<>>
    PROVE  /\ Target(t) \in Int
           /\ DOMAIN Payload(t) \subseteq Axis
           /\ \A a \in DOMAIN Payload(t) : Payload(t)[a] \in Int
<1>1. axis(t) \in Axis /\ value(t) \in Int
  BY JobTypes
<1>2. min[axis(t)] \in Int /\ max[axis(t)] \in Int
  BY <1>1 DEF TypeInv, TypeOK
<1>3. Target(t) \in Int
  BY <1>1, <1>2 DEF Target, ptz_clamp
<1>4. DOMAIN Payload(t) = IF axis(t) = "zoom" THEN {"zoom"} ELSE PanTilt
  BY DEF Payload
<1>5. \A a \in DOMAIN Payload(t) :
          Payload(t)[a] = IF a = axis(t) THEN Target(t) ELSE cur[a]
  BY DEF Payload
<1>6. \A a \in Axis : cur[a] \in Int
  BY DEF TypeInv, TypeOK
<1>7. DOMAIN Payload(t) \subseteq Axis
  BY <1>4 DEF Axis, PanTilt
<1>8. QED
  BY <1>3, <1>5, <1>6, <1>7

\* On to the next set: the list loses its head, and a thread with none left
\* goes idle.
LEMMA NextJobTypes ==
    ASSUME TypeInv, NEW t \in Thread, jobs[t] # <<>>, NextJob(t)
    PROVE  /\ jobs' \in [Thread -> Seq(Job)]
           /\ pc' \in [Thread -> Position]
           /\ pc'[t] \in {"idle", "check"}
           /\ pc'[t] = "check" => jobs'[t] # <<>>
           /\ \A u \in Thread \ {t} : pc'[u] = pc[u] /\ jobs'[u] = jobs[u]
<1>1. /\ jobs[t] \in Seq(Job)
      /\ Tail(jobs[t]) \in Seq(Job)
      /\ Len(Tail(jobs[t])) = Len(jobs[t]) - 1
  BY HeadTailProperties DEF TypeInv
<1>2. Len(jobs[t]) # 1 => Tail(jobs[t]) # <<>>
  <2>1. Len(jobs[t]) \in Nat
    BY <1>1, LenProperties
  <2>2. Tail(jobs[t]) = <<>> => Len(Tail(jobs[t])) = 0
    BY <1>1, EmptySeq
  <2>3. QED
    BY <1>1, <2>1, <2>2
<1>3. jobs' = [jobs EXCEPT ![t] = Tail(jobs[t])]
  BY DEF NextJob
<1>4. pc' = [pc EXCEPT ![t] = IF Len(jobs[t]) = 1 THEN "idle" ELSE "check"]
  BY DEF NextJob
<1>5. QED
  BY <1>1, <1>2, <1>3, <1>4 DEF TypeInv, Position

\* start() finds types for everything the probe fills in.
LEMMA ProbeTypes ==
    ASSUME TypeInv, NEW c \in Cameras, NEW answered \in Answered,
           NEW read \in BOOLEAN, Probe(c, answered, read)
    PROVE  /\ supported' \in [Axis -> BOOLEAN]
           /\ min' \in [Axis -> Int] /\ max' \in [Axis -> Int]
           /\ cur' \in [Axis -> Int]
<1>1. \A a \in Axis : /\ Lo[c][a] \in Int /\ Hi[c][a] \in Int
                      /\ position[c][a] \in Int
  BY RangesAssumption DEF TypeInv
<1>2. QED
  BY <1>1 DEF Probe

\* Types, and that a thread past the lock is the one that holds it: the two
\* setters of ptz_control.c never make their transfers at the same time.
THEOREM TypesAreKept == Spec => []TypeInv
<1>1. Init => TypeInv
  <2> SUFFICES ASSUME Init PROVE TypeInv
    OBVIOUS
  <2>1. /\ Zero \in [Axis -> Int]
        /\ [a \in Axis |-> FALSE] \in [Axis -> BOOLEAN]
        /\ \A t \in Thread : jobs[t] = <<>> /\ <<>> \in Seq(Job)
    BY EmptySeq DEF Zero, Init
  <2>2. \A c \in Cameras : AtRest(c) \in [Axis -> Int]
    BY RangesAssumption DEF AtRest
  <2>3. TypeOK
    BY <2>1, NullAssumption DEF Init, TypeOK, Thread
  <2>4. QED
    BY <2>1, <2>2, <2>3 DEF Init, TypeInv, Thread, Position
<1>2. TypeInv /\ [Next]_vars => TypeInv'
  <2> SUFFICES ASSUME TypeInv, [Next]_vars PROVE TypeInv'
    OBVIOUS
  <2> USE NullAssumption DEF TypeInv, TypeOK, Position, handle, probed
  <2>1. CASE Start
    <3>1. PICK c \in Cameras, answered \in Answered, read \in CurReads :
              uvc_devh' = c /\ selected' = c /\ Probe(c, answered, read)
      BY <2>1 DEF Start
    <3>2. read \in BOOLEAN
      BY SwitchesAssumption
    <3>3. /\ supported' \in [Axis -> BOOLEAN]
          /\ min' \in [Axis -> Int] /\ max' \in [Axis -> Int]
          /\ cur' \in [Axis -> Int]
      BY <3>1, <3>2, ProbeTypes
    <3>4. QED
      BY <2>1, <3>1, <3>3 DEF Start, Thread
  <2>2. CASE Stop
    BY <2>2 DEF Stop, Thread
  <2>3. CASE TeardownHandle
    BY <2>3 DEF TeardownHandle
  <2>4. CASE Reopen
    BY <2>4 DEF Reopen
  <2>4a. ASSUME NEW c \in Cameras, PowerCycle(c)
         PROVE  TypeInv'
    <3>1. AtRest(c) \in [Axis -> Int]
      BY RangesAssumption DEF AtRest
    <3>2. position' \in [Cameras -> [Axis -> Int]] /\ rehomed' \subseteq Axis
      BY <2>4a, <3>1 DEF PowerCycle
    <3>3. QED
      BY <2>4a, <3>2 DEF PowerCycle
  <2>5. ASSUME NEW t \in Thread, Command(t)
        PROVE  TypeInv'
    <3>1. PICK j \in Commands(t) : jobs' = [jobs EXCEPT ![t] = j]
      BY <2>5 DEF Command
    <3>2. j \in Seq(Job) /\ j # <<>>
      BY <3>1, CommandTypes
    <3>3. QED
      BY <2>5, <3>1, <3>2 DEF Command
  <2>6. ASSUME NEW t \in Thread, Check(t)
        PROVE  TypeInv'
    <3>1. CASE uvc_devh # NULL /\ supported[axis(t)]
      BY <2>6, <3>1 DEF Check
    <3>2. CASE ~(uvc_devh # NULL /\ supported[axis(t)])
      <4>1. NextJob(t) /\ jobs[t] # <<>> /\ pc[t] = "check"
        BY <2>6, <3>2 DEF Check
      <4>2. /\ jobs' \in [Thread -> Seq(Job)]
            /\ pc' \in [Thread -> Position]
            /\ pc'[t] \in {"idle", "check"}
            /\ pc'[t] = "check" => jobs'[t] # <<>>
            /\ \A u \in Thread \ {t} : pc'[u] = pc[u] /\ jobs'[u] = jobs[u]
        BY <4>1, NextJobTypes
      <4>3. QED
        BY <2>6, <4>1, <4>2 DEF Check
    <3>3. QED
      BY <3>1, <3>2
  <2>7. ASSUME NEW t \in Thread, Lock(t)
        PROVE  TypeInv'
    BY <2>7 DEF Lock, MayLock
  <2>8. ASSUME NEW t \in Thread, Transfer(t)
        PROVE  TypeInv'
    <3>1. jobs[t] # <<>>
      BY <2>8 DEF Transfer
    <3>2. position' \in [Cameras -> [Axis -> Int]]
      <4>1. CASE position' = position
        BY <4>1
      <4>2. CASE /\ uvc_devh # NULL
                 /\ position' = [position EXCEPT ![uvc_devh] =
                        [a \in Axis |-> IF a \in DOMAIN Payload(t)
                                        THEN Payload(t)[a] ELSE @[a]]]
        <5>1. uvc_devh \in Cameras
          BY <4>2
        <5>2. \A a \in DOMAIN Payload(t) : Payload(t)[a] \in Int
          BY <3>1, PayloadTypes
        <5>3. [a \in Axis |-> IF a \in DOMAIN Payload(t) THEN Payload(t)[a]
                              ELSE position[uvc_devh][a]] \in [Axis -> Int]
          BY <5>1, <5>2
        <5>4. QED
          BY <4>2, <5>1, <5>3
      <4>3. QED
        BY <2>8, <4>1, <4>2 DEF Transfer
    <3>3. res' \in [Thread -> BOOLEAN]
      BY <2>8 DEF Transfer
    <3>4. QED
      BY <2>8, <3>2, <3>3 DEF Transfer
  <2>9. ASSUME NEW t \in Thread, Record(t)
        PROVE  TypeInv'
    <3>1. NextJob(t) /\ jobs[t] # <<>> /\ pc[t] = "record"
      BY <2>9 DEF Record
    <3>2. /\ jobs' \in [Thread -> Seq(Job)]
          /\ pc' \in [Thread -> Position]
          /\ pc'[t] \in {"idle", "check"}
          /\ pc'[t] = "check" => jobs'[t] # <<>>
          /\ \A u \in Thread \ {t} : pc'[u] = pc[u] /\ jobs'[u] = jobs[u]
      BY <3>1, NextJobTypes
    <3>3. cur' \in [Axis -> Int]
      BY <2>9, <3>1, PayloadTypes DEF Record, RecordResult
    <3>4. control_mutex = t /\ control_mutex' = Nobody
      BY <2>9 DEF Record, Released
    <3>5. \A u \in Thread \ {t} : pc[u] \notin {"transfer", "record"}
      BY <3>4
    <3>6. \A u \in Thread : control_mutex' = u <=>
                               pc'[u] \in {"transfer", "record"}
      BY <3>2, <3>4, <3>5
    <3>7. \A u \in Thread :
              pc'[u] \in {"check", "lock", "transfer", "record"} =>
                  jobs'[u] # <<>>
      BY <3>2
    <3>8. QED
      BY <2>9, <3>2, <3>3, <3>4, <3>6, <3>7 DEF Record
  <2>10. CASE UNCHANGED vars
    BY <2>10 DEF vars
  <2>11. QED
    BY <2>1, <2>2, <2>3, <2>4, <2>4a, <2>5, <2>6, <2>7, <2>8, <2>9, <2>10
    DEF Next
<1>3. QED
  BY <1>1, <1>2, PTL DEF Spec

-----------------------------------------------------------------------------
(* Positions.  The gate and the ranges need no hypothesis.                 *)

\* Only the thread that steps changes its place and its sets, and it changes
\* the sets only at places outside lock, transfer and record.
LEMMA ThreadSteps ==
    ASSUME TypeInv, NEW t \in Thread,
           Command(t) \/ Check(t) \/ Lock(t) \/ Transfer(t) \/ Record(t)
    PROVE  /\ \A u \in Thread \ {t} : pc'[u] = pc[u] /\ jobs'[u] = jobs[u]
           /\ pc[t] # "off" /\ pc'[t] # "off"
           /\ pc'[t] \in {"lock", "transfer", "record"} => jobs'[t] = jobs[t]
           /\ UNCHANGED <<handle, probed>>
<1> USE DEF TypeInv, TypeOK, Position
<1>1. CASE Command(t)
  BY <1>1 DEF Command
<1>2. CASE Check(t)
  <2>1. CASE uvc_devh # NULL /\ supported[axis(t)]
    BY <1>2, <2>1 DEF Check
  <2>2. CASE NextJob(t)
    BY <1>2, <2>2, NextJobTypes DEF Check
  <2>3. QED
    BY <1>2, <2>1, <2>2 DEF Check
<1>3. CASE Lock(t)
  BY <1>3 DEF Lock
<1>4. CASE Transfer(t)
  BY <1>4 DEF Transfer
<1>5. CASE Record(t)
  <2>1. NextJob(t) /\ jobs[t] # <<>> /\ pc[t] = "record"
    BY <1>5 DEF Record
  <2>2. QED
    BY <1>5, <2>1, NextJobTypes DEF Record
<1>6. QED
  BY <1>1, <1>2, <1>3, <1>4, <1>5

\* A thread past the gate keeps the set it passed it with: whatever another
\* thread does, the transfer is made for an axis that the camera has.
LEMMA GateStep ==
    ASSUME TypeInv, GateInv, [Next]_vars
    PROVE  GateInv'
<1> USE NullAssumption DEF TypeInv, TypeOK, Position, handle, probed
<1>1. CASE Start
  BY <1>1 DEF Start, GateInv, Thread
<1>2. CASE Stop
  BY <1>2 DEF Stop, GateInv, Thread
<1>3. CASE TeardownHandle
  BY <1>3 DEF TeardownHandle, GateInv, axis
<1>4. CASE Reopen
  BY <1>4 DEF Reopen, GateInv, axis
<1>4a. ASSUME NEW c \in Cameras, PowerCycle(c)
       PROVE  GateInv'
  BY <1>4a DEF PowerCycle, GateInv, axis
<1>5. ASSUME NEW t \in Thread,
             Command(t) \/ Check(t) \/ Lock(t) \/ Transfer(t) \/ Record(t)
      PROVE  GateInv'
  <2>1. /\ \A u \in Thread \ {t} : pc'[u] = pc[u] /\ jobs'[u] = jobs[u]
        /\ pc[t] # "off" /\ pc'[t] # "off"
        /\ pc'[t] \in {"lock", "transfer", "record"} => jobs'[t] = jobs[t]
        /\ UNCHANGED <<handle, probed>>
    BY <1>5, ThreadSteps
  <2>2. ASSUME pc'[t] \in {"lock", "transfer", "record"}
        PROVE  selected # NULL /\ supported[axis(t)]
    <3>1. CASE Command(t)
      BY <2>2, <3>1 DEF Command
    <3>2. CASE Check(t)
      <4>1. CASE uvc_devh # NULL /\ supported[axis(t)]
        BY <4>1 DEF GateInv
      <4>2. CASE NextJob(t)
        BY <2>2, <3>2, <4>2, NextJobTypes DEF Check
      <4>3. QED
        BY <3>2, <4>1, <4>2 DEF Check
    <3>3. CASE Lock(t)
      BY <3>3 DEF Lock, GateInv
    <3>4. CASE Transfer(t)
      BY <3>4 DEF Transfer, GateInv
    <3>5. CASE Record(t)
      <4>1. NextJob(t) /\ jobs[t] # <<>>
        BY <3>5 DEF Record
      <4>2. QED
        BY <2>2, <4>1, NextJobTypes
    <3>6. QED
      BY <1>5, <3>1, <3>2, <3>3, <3>4, <3>5
  <2>3. ASSUME NEW u \in Thread, pc'[u] \in {"lock", "transfer", "record"}
        PROVE  selected' # NULL /\ supported'[axis(u)']
    <3>1. jobs'[u] = jobs[u] /\ selected # NULL /\ supported[axis(u)]
      BY <2>1, <2>2, <2>3 DEF GateInv
    <3>2. axis(u)' = axis(u)
      BY <3>1 DEF axis
    <3>3. QED
      BY <2>1, <3>1, <3>2
  <2>4. QED
    BY <2>1, <2>3 DEF GateInv, Thread
<1>6. CASE UNCHANGED vars
  BY <1>6 DEF vars, GateInv, axis
<1>7. QED
  BY <1>1, <1>2, <1>3, <1>4, <1>4a, <1>5, <1>6 DEF Next

\* The limits a setter clamps to are those of the camera that was probed.
LEMMA RangeStep ==
    ASSUME TypeInv, RangeInv, [Next]_vars
    PROVE  RangeInv'
<1> USE DEF RangeInv, handle, probed
<1>1. CASE Start
  <2>1. PICK c \in Cameras, answered \in Answered, read \in CurReads :
            selected' = c /\ Probe(c, answered, read)
    BY <1>1 DEF Start
  <2>2. QED
    BY <2>1 DEF Probe
<1>2. CASE Stop
  BY <1>2 DEF Stop
<1>3. CASE TeardownHandle
  BY <1>3 DEF TeardownHandle
<1>4. CASE Reopen
  BY <1>4 DEF Reopen
<1>4a. ASSUME NEW c \in Cameras, PowerCycle(c)
       PROVE  RangeInv'
  BY <1>4a DEF PowerCycle
<1>5. ASSUME NEW t \in Thread,
             Command(t) \/ Check(t) \/ Lock(t) \/ Transfer(t) \/ Record(t)
      PROVE  RangeInv'
  BY <1>5, ThreadSteps
<1>6. CASE UNCHANGED vars
  BY <1>6 DEF vars
<1>7. QED
  BY <1>1, <1>2, <1>3, <1>4, <1>4a, <1>5, <1>6 DEF Next

-----------------------------------------------------------------------------
(* The two hypotheses, and the invariant.                                  *)

\* No transfer is being made while another thread is about to record one.
LEMMA OneTransfer ==
    ASSUME TypeInv, NEW t \in Thread, NEW u \in Thread,
           pc[t] \in {"transfer", "record"}, pc[u] \in {"transfer", "record"}
    PROVE  t = u
BY DEF TypeInv, TypeOK

\* Where the selected camera points after a set: the axis that was set, at
\* the value clamped; the other axis of the shared control, at its cached
\* value if it had gone to rest; every other axis where it was.
AfterSet(t) ==
    [a \in Axis |-> IF a = axis(t) THEN Target(t)
                    ELSE IF a \in DOMAIN Payload(t) \cap rehomed THEN cur[a]
                    ELSE position[selected][a]]

\* A transfer fails and moves nothing, or moves the camera as AfterSet says.
LEMMA TransferMoves ==
    ASSUME Pinned = TRUE, TypeInv, GateInv, CurInv,
           NEW t \in Thread, Transfer(t)
    PROVE  \/ /\ position' = position /\ rehomed' = rehomed
              /\ res' = [res EXCEPT ![t] = FALSE]
           \/ /\ selected \in Cameras
              /\ res' = [res EXCEPT ![t] = TRUE]
              /\ position' = [position EXCEPT ![selected] = AfterSet(t)]
              /\ rehomed' = rehomed \ DOMAIN Payload(t)
<1>1. /\ jobs[t] # <<>> /\ axis(t) \in Axis /\ Target(t) \in Int
      /\ selected # NULL /\ supported[axis(t)]
      /\ \A u \in Thread : pc[u] # "record"
  <2>1. jobs[t] # <<>> /\ pc[t] = "transfer"
    BY DEF Transfer, TypeInv, TypeOK
  <2>2. axis(t) \in Axis /\ Target(t) \in Int
    BY <2>1, JobTypes, PayloadTypes
  <2>3. \A u \in Thread : pc[u] # "record"
    BY <2>1, OneTransfer
  <2>4. QED
    BY <2>1, <2>2, <2>3 DEF GateInv
<1>2. CASE res' = [res EXCEPT ![t] = FALSE] /\ UNCHANGED <<position, rehomed>>
  BY <1>2
<1>3. CASE /\ uvc_devh # NULL
           /\ position' = [position EXCEPT ![uvc_devh] =
                  [a \in Axis |-> IF a \in DOMAIN Payload(t)
                                  THEN Payload(t)[a] ELSE @[a]]]
           /\ res' = [res EXCEPT ![t] = TRUE]
           /\ rehomed' = rehomed \ DOMAIN Payload(t)
  <2>1. uvc_devh = selected /\ selected \in Cameras
    BY <1>3, <1>1 DEF TypeInv, TypeOK
  <2>2. \A a \in Axis \ rehomed : Carried(a) => cur[a] = position[selected][a]
    BY <1>1 DEF CurInv
  <2>3. ASSUME NEW a \in Axis
        PROVE  (IF a \in DOMAIN Payload(t) THEN Payload(t)[a]
                ELSE position[selected][a]) = AfterSet(t)[a]
    <3>1. CASE a = axis(t)
      <4>1. a \in DOMAIN Payload(t) /\ Payload(t)[a] = Target(t)
        BY <3>1 DEF Payload, Axis, PanTilt
      <4>2. QED
        BY <3>1, <4>1 DEF AfterSet
    <3>2. CASE a # axis(t) /\ a \in DOMAIN Payload(t)
      <4>1. a \in PanTilt /\ axis(t) \in PanTilt
        BY <1>1, <3>2 DEF Payload, Axis, PanTilt
      <4>2. Carried(a)
        BY <1>1, <4>1 DEF Carried
      <4>3. Payload(t)[a] = cur[a]
        BY <3>2 DEF Payload
      <4>4. QED
        BY <2>2, <3>2, <4>2, <4>3 DEF AfterSet
    <3>3. CASE a # axis(t) /\ a \notin DOMAIN Payload(t)
      BY <3>3 DEF AfterSet
    <3>4. QED
      BY <3>1, <3>2, <3>3
  <2>4. [a \in Axis |-> IF a \in DOMAIN Payload(t) THEN Payload(t)[a]
                        ELSE position[selected][a]] = AfterSet(t)
    BY <2>3 DEF AfterSet
  <2>5. QED
    BY <1>3, <2>1, <2>4
<1>4. QED
  BY <1>2, <1>3 DEF Transfer

\* The value a set sends for its own axis is one the camera can take.
LEMMA TargetInRange ==
    ASSUME TypeInv, GateInv, RangeInv, NEW t \in Thread,
           pc[t] \in {"transfer", "record"}
    PROVE  /\ axis(t) \in Axis /\ supported[axis(t)] /\ selected # NULL
           /\ selected \in Cameras =>
                  Target(t) \in Lo[selected][axis(t)]..Hi[selected][axis(t)]
<1>1. jobs[t] # <<>> /\ selected # NULL /\ supported[axis(t)]
  BY DEF TypeInv, TypeOK, GateInv
<1>2. axis(t) \in Axis /\ value(t) \in Int
  BY <1>1, JobTypes
<1>3. min[axis(t)] = Lo[selected][axis(t)]
      /\ max[axis(t)] = Hi[selected][axis(t)]
  BY <1>1, <1>2 DEF RangeInv
<1>4. ASSUME selected \in Cameras
      PROVE  Target(t) \in Lo[selected][axis(t)]..Hi[selected][axis(t)]
  <2>1. /\ Lo[selected][axis(t)] \in Int /\ Hi[selected][axis(t)] \in Int
        /\ Lo[selected][axis(t)] <= Hi[selected][axis(t)]
    BY <1>2, <1>4, RangesAssumption
  <2>2. QED
    BY <1>2, <1>3, <2>1, ClampStaysInside DEF Target
<1>5. QED
  BY <1>1, <1>2, <1>4

\* An axis of the payload other than the one being set is carried.
LEMMA PayloadIsCarried ==
    ASSUME TypeInv, NEW t \in Thread, jobs[t] # <<>>, supported[axis(t)]
    PROVE  \A a \in DOMAIN Payload(t) : a \in Axis /\ Carried(a)
<1>1. axis(t) \in Axis
  BY JobTypes
<1>2. ASSUME NEW a \in DOMAIN Payload(t)
      PROVE  a \in Axis /\ Carried(a)
  <2>1. a \in IF axis(t) = "zoom" THEN {"zoom"} ELSE PanTilt
    BY DEF Payload
  <2>2. a = axis(t) \/ (a \in PanTilt /\ axis(t) \in PanTilt)
    BY <1>1, <2>1 DEF Axis, PanTilt
  <2>3. QED
    BY <1>1, <2>2 DEF Carried, Axis, PanTilt
<1>3. QED
  BY <1>2

\* No set leaves the range of the camera that is driven, and a camera at rest
\* is within its range.
LEMMA InRangeStep ==
    ASSUME Pinned = TRUE, PositionInv, [Next]_vars
    PROVE  InRange'
<1> USE DEF PositionInv
<1>1. CASE position' = position
  BY <1>1 DEF InRange
<1>2. ASSUME NEW t \in Thread, Transfer(t), position' # position
      PROVE  InRange'
  <2>1. /\ selected \in Cameras
        /\ position' = [position EXCEPT ![selected] = AfterSet(t)]
    BY <1>2, TransferMoves
  <2>2. pc[t] = "transfer" /\ jobs[t] # <<>>
    BY <1>2 DEF Transfer, TypeInv, TypeOK
  <2>3. /\ axis(t) \in Axis /\ supported[axis(t)] /\ selected # NULL
        /\ Target(t) \in Lo[selected][axis(t)]..Hi[selected][axis(t)]
    BY <2>1, <2>2, TargetInRange
  <2>4. \A a \in DOMAIN Payload(t) : a \in Axis /\ Carried(a)
    BY <2>2, <2>3, PayloadIsCarried
  <2>5. \A a \in Axis : AfterSet(t)[a] \in Lo[selected][a]..Hi[selected][a]
    <3>1. \A a \in DOMAIN Payload(t) :
              cur[a] \in Lo[selected][a]..Hi[selected][a]
      BY <2>3, <2>4 DEF CachedInRange
    <3>2. \A a \in Axis :
              position[selected][a] \in Lo[selected][a]..Hi[selected][a]
      BY <2>1 DEF InRange
    <3>3. QED
      BY <2>3, <3>1, <3>2 DEF AfterSet
  <2>6. QED
    BY <2>1, <2>5 DEF InRange, TypeInv
<1>3. ASSUME NEW c \in Cameras, PowerCycle(c)
      PROVE  InRange'
  <2>1. \A a \in Axis : AtRest(c)[a] \in Lo[c][a]..Hi[c][a]
    BY RangesAssumption DEF AtRest
  <2>2. QED
    BY <1>3, <2>1 DEF PowerCycle, InRange, TypeInv
<1>4. QED
  BY <1>1, <1>2, <1>3 DEF Next, vars, Start, Stop, TeardownHandle, Reopen,
                          Command, Check, Lock, Record

\* A step that leaves the cached and the true positions alone keeps what is
\* said of them, if it neither starts nor ends a record.
LEMMA CurUntouched ==
    ASSUME TypeInv, CurInv,
           UNCHANGED <<selected, probed, cur, res, position, rehomed>>,
           \A u \in Thread : /\ pc'[u] = "record" <=> pc[u] = "record"
                             /\ pc[u] = "record" => jobs'[u] = jobs[u]
    PROVE  CurInv'
<1>1. \A u \in Thread : pc[u] = "record" =>
          axis(u)' = axis(u) /\ Target(u)' = Target(u)
  BY DEF axis, value, Target, probed
<1>2. \A a : Carried(a)' = Carried(a)
  BY DEF Carried, probed
<1>3. QED
  BY <1>1, <1>2 DEF CurInv

\* The probe reads the position of every axis that a transfer may carry.
LEMMA ProbeReadsCarried ==
    ASSUME CurReads = {TRUE}, TypeInv, Start
    PROVE  \A a \in Axis : Carried(a)' => cur'[a] = position'[selected'][a]
<1>1. PICK c \in Cameras, answered \in Answered :
          selected' = c /\ Probe(c, answered, TRUE) /\ position' = position
  BY DEF Start
<1> DEFINE ok == {a \in answered : Lo[c][a] < Hi[c][a]}
<1>2. answered \cap PanTilt \in {{}, PanTilt} /\ ok \subseteq answered
  BY DEF Answered, Axis, PanTilt
<1>3. /\ \A a \in Axis : supported'[a] = (a \in ok)
      /\ \A a \in Axis : a \in ok \cup (PanTilt \cap answered) =>
                             cur'[a] = position[c][a]
  BY <1>1 DEF Probe
<1>4. ASSUME NEW a \in Axis, Carried(a)'
      PROVE  a \in ok \cup (PanTilt \cap answered)
  <2>1. CASE supported'[a]
    BY <1>3, <2>1
  <2>2. CASE a \in PanTilt /\ \E b \in PanTilt : supported'[b]
    <3>1. PICK b \in PanTilt : supported'[b]
      BY <2>2
    <3>2. b \in ok
      BY <1>3, <3>1 DEF Axis, PanTilt
    <3>3. QED
      BY <1>2, <2>2, <3>1, <3>2
  <2>3. QED
    BY <1>4, <2>1, <2>2 DEF Carried
<1>5. QED
  BY <1>1, <1>3, <1>4

\* What is cached stays within the range of the selected camera: it was read
\* from the camera, or sent to it.
LEMMA CachedStep ==
    ASSUME CurReads = {TRUE}, Pinned = TRUE, PositionInv, [Next]_vars
    PROVE  CachedInRange'
<1> USE DEF PositionInv
<1>1. CASE Start
  <2>1. selected' \in Cameras /\ position' = position
    BY <1>1 DEF Start
  <2>2. \A a \in Axis : Carried(a)' => cur'[a] = position'[selected'][a]
    BY <1>1, ProbeReadsCarried
  <2>3. QED
    BY <2>1, <2>2 DEF CachedInRange, InRange
<1>2. CASE Stop
  BY <1>2 DEF Stop, CachedInRange
<1>3. CASE UNCHANGED <<selected, supported, cur>>
  BY <1>3 DEF CachedInRange, Carried
<1>4. ASSUME NEW t \in Thread, Record(t)
      PROVE  CachedInRange'
  <2>1. /\ pc[t] = "record"
        /\ UNCHANGED <<selected, supported>>
        /\ cur' = IF res[t] THEN [cur EXCEPT ![axis(t)] = Target(t)] ELSE cur
    BY <1>4 DEF Record, RecordResult, handle, probed
  <2>2. /\ axis(t) \in Axis /\ selected # NULL
        /\ selected \in Cameras =>
               Target(t) \in Lo[selected][axis(t)]..Hi[selected][axis(t)]
    BY <2>1, TargetInRange
  <2>3. selected \in Cameras /\ cur \in [Axis -> Int]
    BY <2>2 DEF TypeInv, TypeOK
  <2>4. QED
    BY <2>1, <2>2, <2>3 DEF CachedInRange, Carried
<1>5. QED
  <2>1. \A t \in Thread : Command(t) \/ Check(t) \/ Lock(t) \/ Transfer(t) =>
            UNCHANGED <<selected, supported, cur>>
    BY DEF Command, Check, Lock, Transfer, handle, probed
  <2>2. UNCHANGED vars \/ TeardownHandle \/ Reopen
        \/ (\E c \in Cameras : PowerCycle(c)) =>
            UNCHANGED <<selected, supported, cur>>
    BY DEF TeardownHandle, Reopen, PowerCycle, vars, handle, probed
  <2>3. QED
    BY <1>1, <1>2, <1>3, <1>4, <2>1, <2>2 DEF Next

\* The cache follows the camera: a transfer that succeeded is recorded before
\* the mutex is released, one that failed moved nothing.
LEMMA CurStep ==
    ASSUME CurReads = {TRUE}, Pinned = TRUE, PositionInv, [Next]_vars
    PROVE  CurInv'
<1> USE DEF PositionInv
<1>1. CASE Start
  <2>1. \A u \in Thread : pc'[u] # "record"
    BY <1>1 DEF Start, Thread, TypeInv
  <2>2. QED
    BY <1>1, <2>1, ProbeReadsCarried DEF CurInv
<1>2. CASE Stop
  <2>1. \A u \in Thread : pc'[u] # "record"
    BY <1>2 DEF Stop, Thread, TypeInv
  <2>2. QED
    BY <1>2, <2>1 DEF Stop, CurInv
<1>3. CASE TeardownHandle
  BY <1>3, CurUntouched DEF TeardownHandle
<1>4. CASE Reopen
  BY <1>4, CurUntouched DEF Reopen
<1>4a. ASSUME NEW c \in Cameras, PowerCycle(c)
       PROVE  CurInv'
  <2>1. /\ UNCHANGED <<selected, probed, cur, pc, jobs, res>>
        /\ position' = [position EXCEPT ![c] = AtRest(c)]
        /\ rehomed' = IF c = selected THEN Axis ELSE rehomed
    BY <1>4a DEF PowerCycle, handle
  <2>2. \A u \in Thread : axis(u)' = axis(u) /\ Target(u)' = Target(u)
    BY <2>1 DEF axis, value, Target, probed
  <2>3. \A u \in Thread : pc[u] = "record" =>
            axis(u) \in Axis /\ selected # NULL
    BY JobTypes DEF TypeInv, TypeOK, GateInv
  <2>4. CASE c = selected
    BY <2>1, <2>2, <2>3, <2>4 DEF CurInv
  <2>5. CASE c # selected
    <3>1. selected # NULL => position'[selected] = position[selected]
      BY <2>1, <2>5 DEF TypeInv, TypeOK
    <3>2. \A a : Carried(a)' = Carried(a)
      BY <2>1 DEF Carried, probed
    <3>3. QED
      BY <2>1, <2>2, <2>3, <2>5, <3>1, <3>2 DEF CurInv
  <2>6. QED
    BY <2>4, <2>5
<1>5. ASSUME NEW t \in Thread, Command(t) \/ Check(t) \/ Lock(t)
      PROVE  CurInv'
  <2>1. /\ \A u \in Thread \ {t} : pc'[u] = pc[u] /\ jobs'[u] = jobs[u]
        /\ UNCHANGED <<handle, probed>>
    BY <1>5, ThreadSteps
  <2>2. pc[t] # "record" /\ pc'[t] # "record"
    <3>1. CASE Command(t)
      BY <3>1 DEF Command, TypeInv
    <3>2. CASE Check(t)
      BY <3>2 DEF Check, NextJob, TypeInv
    <3>3. CASE Lock(t)
      BY <3>3 DEF Lock, TypeInv
    <3>4. QED
      BY <1>5, <3>1, <3>2, <3>3
  <2>3. UNCHANGED <<cur, res, position, rehomed>>
    BY <1>5 DEF Command, Check, Lock
  <2>4. QED
    BY <2>1, <2>2, <2>3, CurUntouched DEF handle
<1>6. ASSUME NEW t \in Thread, Transfer(t)
      PROVE  CurInv'
  <2>1. /\ jobs[t] # <<>> /\ axis(t) \in Axis
        /\ selected # NULL /\ supported[axis(t)]
        /\ \A u \in Thread : pc[u] # "record"
    <3>1. jobs[t] # <<>> /\ pc[t] = "transfer"
      BY <1>6 DEF Transfer, TypeInv, TypeOK
    <3>2. QED
      BY <3>1, JobTypes, OneTransfer DEF GateInv
  <2>2. \A a \in Axis \ rehomed : Carried(a) => cur[a] = position[selected][a]
    BY <2>1 DEF CurInv
  <2>3. /\ pc' = [pc EXCEPT ![t] = "record"]
        /\ UNCHANGED <<selected, probed, cur, jobs>>
    BY <1>6 DEF Transfer, handle
  <2>4. /\ axis(t)' = axis(t) /\ Target(t)' = Target(t)
        /\ \A a : Carried(a)' = Carried(a)
    BY <2>3 DEF axis, value, Target, Carried, probed
  <2>5. \A u \in Thread : pc'[u] = "record" <=> u = t
    BY <2>1, <2>3 DEF TypeInv
  <2>6. CASE /\ position' = position /\ rehomed' = rehomed
             /\ res' = [res EXCEPT ![t] = FALSE]
    <3>1. Carried(axis(t)) /\ res'[t] = FALSE
      BY <2>1, <2>6 DEF Carried, TypeInv
    <3>2. QED
      BY <2>1, <2>2, <2>3, <2>4, <2>5, <2>6, <3>1 DEF CurInv
  <2>7. CASE /\ selected \in Cameras
             /\ res' = [res EXCEPT ![t] = TRUE]
             /\ position' = [position EXCEPT ![selected] = AfterSet(t)]
             /\ rehomed' = rehomed \ DOMAIN Payload(t)
    <3>1. /\ res'[t] = TRUE
          /\ \A a \in Axis : position'[selected][a] = AfterSet(t)[a]
      BY <2>7 DEF TypeInv
    <3>2. AfterSet(t)[axis(t)] = Target(t)
      BY <2>1 DEF AfterSet
    <3>3. ASSUME NEW a \in Axis \ rehomed', Carried(a), a # axis(t)
          PROVE  cur[a] = AfterSet(t)[a]
      <4>1. CASE a \in DOMAIN Payload(t) \cap rehomed
        BY <3>3, <4>1 DEF AfterSet
      <4>2. CASE a \notin DOMAIN Payload(t) \cap rehomed
        <5>1. a \notin rehomed
          BY <2>7, <3>3, <4>2
        <5>2. QED
          BY <2>2, <3>3, <4>2, <5>1 DEF AfterSet
      <4>3. QED
        BY <4>1, <4>2
    <3>4. position'[selected][axis(t)] = Target(t)
      BY <2>1, <3>1, <3>2
    <3>5. \A a \in Axis \ rehomed' : Carried(a) =>
              cur[a] = position'[selected][a] \/ a = axis(t)
      BY <3>1, <3>3
    <3>6. QED
      BY <2>3, <2>4, <2>5, <3>1, <3>4, <3>5 DEF CurInv
  <2>8. QED
    BY <1>6, <2>6, <2>7, TransferMoves
<1>7. ASSUME NEW t \in Thread, Record(t)
      PROVE  CurInv'
  <2>1. /\ pc[t] = "record" /\ jobs[t] # <<>> /\ NextJob(t)
        /\ UNCHANGED <<selected, probed, res, position, rehomed>>
    BY <1>7 DEF Record, TypeInv, TypeOK, handle
  <2>2. \A u \in Thread : pc'[u] # "record"
    BY <2>1, NextJobTypes, OneTransfer
  <2>3. /\ axis(t) \in Axis /\ Target(t) \in Int
        /\ \A u \in Thread : pc[u] = "record" => u = t
    BY <2>1, JobTypes, PayloadTypes, OneTransfer
  <2>4. cur' = IF res[t] THEN [cur EXCEPT ![axis(t)] = Target(t)] ELSE cur
    BY <1>7 DEF Record, RecordResult
  <2>5. axis(t) \notin rehomed =>
            position[selected][axis(t)] =
                IF res[t] THEN Target(t) ELSE cur[axis(t)]
    BY <2>1 DEF CurInv
  <2>6. ASSUME NEW a \in Axis \ rehomed, Carried(a), selected # NULL
        PROVE  cur'[a] = position[selected][a]
    <3>1. cur \in [Axis -> Int]
      BY DEF TypeInv, TypeOK
    <3>2. CASE a = axis(t)
      BY <2>3, <2>4, <2>5, <3>1, <3>2
    <3>3. CASE a # axis(t)
      <4>1. cur[a] = position[selected][a]
        BY <2>3, <2>6, <3>3 DEF CurInv
      <4>2. QED
        BY <2>3, <2>4, <3>1, <3>3, <4>1
    <3>4. QED
      BY <3>2, <3>3
  <2>7. \A a : Carried(a)' = Carried(a)
    BY <2>1 DEF Carried, probed
  <2>8. QED
    BY <2>1, <2>2, <2>6, <2>7 DEF CurInv
<1>8. CASE UNCHANGED vars
  BY <1>8, CurUntouched DEF vars, handle
<1>9. QED
  BY <1>1, <1>2, <1>3, <1>4, <1>4a, <1>5, <1>6, <1>7, <1>8 DEF Next

\* The invariant, for a probe that reads every position and a reopen that
\* finds the camera of the probe, which may have lost power in between.
THEOREM PositionsAreKept ==
    ASSUME CurReads = {TRUE}, Pinned = TRUE
    PROVE  Spec => []PositionInv
<1>1. Init => GateInv /\ RangeInv /\ CurInv /\ CachedInRange
  BY DEF Init, GateInv, RangeInv, CurInv, CachedInRange, handle, Thread
<1>2. Init => InRange
  BY RangesAssumption DEF Init, AtRest, InRange
<1>3. GateInv /\ RangeInv /\ CurInv /\ CachedInRange /\ InRange /\ TypeInv
      /\ TypeInv' /\ [Next]_vars =>
          (GateInv /\ RangeInv /\ CurInv /\ CachedInRange /\ InRange)'
  BY GateStep, RangeStep, CurStep, CachedStep, InRangeStep DEF PositionInv
<1>4. QED
  BY <1>1, <1>2, <1>3, TypesAreKept, PTL DEF Spec, PositionInv

\* Whoever takes control_mutex finds in the cache where the camera points, on
\* every axis that a transfer carries and that has not gone to rest since it
\* was last probed or sent.
THEOREM CacheAgrees ==
    ASSUME CurReads = {TRUE}, Pinned = TRUE
    PROVE  Spec => []PositionAgrees
<1>1. PositionInv => PositionAgrees
  <2> SUFFICES ASSUME PositionInv, uvc_devh # NULL, control_mutex = Nobody,
                      NEW a \in Axis \ rehomed, Carried(a)
               PROVE  cur[a] = position[uvc_devh][a]
    BY DEF PositionAgrees
  <2>1. \A u \in Thread : pc[u] # "record"
    BY NullAssumption DEF PositionInv, TypeInv, TypeOK
  <2>2. uvc_devh = selected /\ selected # NULL
    BY DEF PositionInv, TypeInv, TypeOK
  <2>3. QED
    BY <2>1, <2>2 DEF PositionInv, CurInv
<1>2. QED
  BY <1>1, PositionsAreKept, PTL

\* No sequence of sets from two threads drives a camera out of its range, nor
\* does a position re-sent from before a power cycle.
THEOREM CameraStaysInRange ==
    ASSUME CurReads = {TRUE}, Pinned = TRUE
    PROVE  Spec => []StaysInRange
<1>1. PositionInv => StaysInRange
  BY DEF PositionInv, InRange, StaysInRange, TypeInv
<1>2. QED
  BY <1>1, PositionsAreKept, PTL

\* A setter moves another axis than its own only where a power cycle had moved
\* it, and then back to its cached position, though pan and tilt travel in one
\* transfer and two threads make them.
THEOREM SetsMoveOneAxis ==
    ASSUME CurReads = {TRUE}, Pinned = TRUE
    PROVE  Spec => OneAxisPerSet
<1> DEFINE Stays(t) == \A c \in Cameras, a \in Axis \ {axis(t)} :
               \/ position'[c][a] = position[c][a]
               \/ /\ c = selected /\ a \in rehomed
                  /\ position'[c][a] = cur[a]
<1>1. ASSUME PositionInv, NEW t \in Thread, Transfer(t)
      PROVE  Stays(t)
  <2>1. position \in [Cameras -> [Axis -> Int]]
    BY <1>1 DEF PositionInv, TypeInv
  <2>2. CASE position' = position
    BY <2>2
  <2>3. CASE /\ selected \in Cameras
             /\ position' = [position EXCEPT ![selected] = AfterSet(t)]
    <3>1. ASSUME NEW c \in Cameras, NEW a \in Axis \ {axis(t)}, c = selected
          PROVE  /\ position'[c][a] = AfterSet(t)[a]
                 /\ \/ AfterSet(t)[a] = position[c][a]
                    \/ a \in rehomed /\ AfterSet(t)[a] = cur[a]
      BY <2>1, <2>3, <3>1 DEF AfterSet
    <3>2. \A c \in Cameras : c # selected => position'[c] = position[c]
      BY <2>1, <2>3
    <3>3. QED
      BY <3>1, <3>2
  <2>4. QED
    BY <1>1, <2>2, <2>3, TransferMoves DEF PositionInv
<1>2. PositionInv => [\A t \in Thread : Transfer(t) => Stays(t)]_vars
  BY <1>1
<1>3. QED
  BY <1>2, PositionsAreKept, PTL DEF OneAxisPerSet
=============================================================================
