---------------------------- MODULE PtsStamping ----------------------------
(***************************************************************************)
(* How an access unit gets its PTS.  frame_callback() runs on libuvc's     *)
(* thread and takes the object lock three times per delivery: to snapshot  *)
(* the clock and the latched base_time, to commit a base_time it latched,  *)
(* and to stamp.  Between them the app thread may swap the clock           *)
(* (set_clock) or resume the pipeline (change_state), each of which puts   *)
(* the latches base_time and prev_pts back to their sentinel.              *)
(*                                                                         *)
(* Times are 64-bit in the code and modulo Width here; what GstPipeline    *)
(* does around a resume (choosing a clock, assigning the base time) is     *)
(* external.  F_... are faulty variants, used by no specification.         *)
(***************************************************************************)
EXTENDS Integers

CONSTANTS
    Clocks, NoClock,    \* the clocks a pipeline may select
    ClockOffset,        \* what each shows at tick zero
    MaxTick,            \* bound: how long a behaviour lasts
    MaxUnits,           \* bound: access units one delivery may carry
    Width               \* GstClockTime values are taken modulo this

ASSUME ClocksAssumption == NoClock \notin Clocks
ASSUME WidthAssumption  ==
    /\ MaxTick \in Nat /\ MaxUnits \in Nat /\ Width \in Nat \ {0}
    /\ ClockOffset \in [Clocks -> Nat]
    /\ \A c \in Clocks :
          ClockOffset[c] + MaxTick * (MaxUnits + 1) < Width - 1

G_MAXUINT64 == Width - 1

VARIABLES
    clock,          \* self->clock
    base_time, prev_pts,    \* the latches, G_MAXUINT64 when unset
    element_base,   \* GstElement's own base time
    app,            \* "PLAYING", "PAUSED", or a step of the resume
    elapsed,        \* running time the pipeline had reached when it paused
    feeding,        \* libuvc's callback thread exists
    cb,             \* where frame_callback() is
    cbClock, cbBase, cbNow, cbUnits,   \* its locals
    tick,
  (* history, read only by properties *)
    touched,        \* the app thread moved the clock or a base time under the
                    \* delivery in hand
    raced,          \* the latches were committed by such a delivery
    stamped         \* what the last stamp did

latches  == <<base_time, prev_pts>>
locals   == <<cbClock, cbBase, cbNow, cbUnits>>
pipeline == <<clock, element_base, app, elapsed>>
history  == <<touched, raced, stamped>>
vars == <<latches, pipeline, feeding, cb, locals, tick, history>>

Times == 0 .. G_MAXUINT64

Stamps == [pts : Times, prev : Times, due : Times, clean : BOOLEAN]

TypeOK ==
    /\ clock \in Clocks \cup {NoClock}
    /\ base_time \in Times /\ prev_pts \in Times /\ element_base \in Times
    /\ app \in {"PLAYING", "PAUSED", "clock", "base", "relatch"}
    /\ elapsed \in Times /\ feeding \in BOOLEAN
    /\ cb \in {"idle", "now", "latch", "commit", "stamp"}
    /\ cbClock \in Clocks \cup {NoClock}
    /\ cbBase \in Times /\ cbNow \in Times /\ cbUnits \in 0 .. MaxUnits
    /\ tick \in 0 .. MaxTick
    /\ touched \in BOOLEAN /\ raced \in BOOLEAN
    /\ stamped \in Stamps

F_SignedMinus(a, b) == a - b

\* GstClockTime arithmetic, and a clock's reading.
Minus(a, b) == (a - b) % Width
Reading(c)  == (ClockOffset[c] + tick) % Width

Init ==
    /\ clock = NoClock
    /\ base_time = G_MAXUINT64 /\ prev_pts = G_MAXUINT64
    /\ element_base = 0 /\ app = "PAUSED" /\ elapsed = 0
    /\ feeding = FALSE /\ cb = "idle"
    /\ cbClock = NoClock /\ cbBase = 0 /\ cbNow = 0 /\ cbUnits = 0
    /\ tick = 0
    /\ touched = FALSE /\ raced = FALSE
    /\ stamped = [pts |-> 0, prev |-> G_MAXUINT64, due |-> 0, clean |-> TRUE]

-----------------------------------------------------------------------------
(* The app thread.  A resume goes clock, base time, change_state.          *)

Touch == touched' = (touched \/ cb # "idle") /\ UNCHANGED <<raced, stamped>>

ResetLatches == base_time' = G_MAXUINT64 /\ prev_pts' = G_MAXUINT64

Pause ==
    /\ app = "PLAYING"
    /\ app' = "PAUSED" /\ elapsed' = Minus(Reading(clock), element_base)
    /\ UNCHANGED <<clock, element_base, latches, feeding, cb, locals, tick,
                   history>>

Resume ==
    /\ app = "PAUSED" /\ app' = "clock"
    /\ UNCHANGED <<clock, element_base, elapsed, latches, feeding, cb, locals,
                   tick, history>>

\* set_clock() rebaselines; a pipeline that keeps its clock may not call it.
SetClock ==
    /\ app = "clock"
    /\ \/ clock \in Clocks /\ UNCHANGED <<clock, latches, history>>
       \/ clock' \in Clocks /\ ResetLatches /\ Touch
    /\ app' = "base"
    /\ UNCHANGED <<element_base, elapsed, feeding, cb, locals, tick>>

\* GstPipeline keeps the running time continuous over the pause.
AssignBase ==
    /\ app = "base"
    /\ element_base' = Minus(Reading(clock), elapsed)
    /\ app' = "relatch" /\ Touch
    /\ UNCHANGED <<clock, elapsed, latches, feeding, cb, locals, tick>>

F_NoRelatch == UNCHANGED latches

Relatch == ResetLatches

\* change_state(PAUSED_TO_PLAYING).
ChangeState ==
    /\ app = "relatch"
    /\ Relatch /\ touched' = (cb # "idle") /\ raced' = FALSE
    /\ app' = "PLAYING"
    /\ UNCHANGED <<clock, element_base, elapsed, feeding, cb, locals, tick,
                   stamped>>

\* create() or reopen_once() starts the stream: the callback thread does not
\* exist yet, or has been joined.
StartStream ==
    /\ app = "PLAYING" /\ cb = "idle"
    /\ ResetLatches /\ feeding' = TRUE /\ raced' = FALSE
    /\ UNCHANGED <<pipeline, cb, locals, tick, touched, stamped>>

-----------------------------------------------------------------------------
(* frame_callback().                                                       *)

\* First critical section.  Without a clock the delivery is discarded.  A tick
\* passes between two deliveries.
Snapshot ==
    /\ feeding /\ cb = "idle" /\ clock # NoClock
    /\ tick < MaxTick /\ tick' = tick + 1
    /\ cbClock' = clock /\ cbBase' = base_time
    /\ cbUnits' \in 1 .. MaxUnits
    /\ cb' = "now" /\ touched' = FALSE
    /\ UNCHANGED <<latches, pipeline, feeding, cbNow, raced, stamped>>

\* The expensive read, outside the lock.
ReadClock ==
    /\ cb = "now"
    /\ cbNow' = Reading(cbClock)
    /\ cb' = IF cbBase = G_MAXUINT64 THEN "latch" ELSE "stamp"
    /\ UNCHANGED <<latches, pipeline, feeding, cbClock, cbBase, cbUnits, tick,
                   history>>

\* gst_element_get_base_time() takes the lock by itself ...
ReadBase ==
    /\ cb = "latch"
    /\ cbBase' = element_base /\ cb' = "commit"
    /\ UNCHANGED <<latches, pipeline, feeding, cbClock, cbNow, cbUnits, tick,
                   history>>

\* ... and the value is committed in a critical section of its own.
Commit ==
    /\ cb = "commit"
    /\ base_time' = cbBase /\ raced' = (raced \/ touched) /\ cb' = "stamp"
    /\ UNCHANGED <<prev_pts, pipeline, feeding, locals, tick, touched,
                   stamped>>

\* A running time at or behind the last PTS becomes one tick more.
Clamped(ts) == IF prev_pts # G_MAXUINT64 /\ ts <= prev_pts
               THEN (prev_pts + 1) % Width ELSE ts

\* One access unit with a slice; all of a delivery share one arrival time.
Stamp ==
    /\ cb = "stamp"
    /\ LET pts == Clamped(Minus(cbNow, cbBase))
       IN /\ prev_pts' = pts
          /\ stamped' = [pts |-> pts, prev |-> prev_pts,
                         due |-> Minus(cbNow, element_base),
                         clean |-> ~touched /\ ~raced
                                   /\ app \in {"PLAYING", "PAUSED"}]
    /\ raced' = (raced \/ touched)
    /\ cbUnits' = cbUnits - 1
    /\ cb' = IF cbUnits = 1 THEN "idle" ELSE "stamp"
    /\ UNCHANGED <<base_time, pipeline, feeding, cbClock, cbBase, cbNow, tick,
                   touched>>

Tick ==
    /\ tick < MaxTick
    /\ tick' = tick + 1
    /\ UNCHANGED <<latches, pipeline, feeding, cb, locals, history>>

Next == \/ Pause \/ Resume \/ SetClock \/ AssignBase \/ ChangeState
        \/ StartStream
        \/ Snapshot \/ ReadClock \/ ReadBase \/ Commit \/ Stamp \/ Tick

Spec == Init /\ [][Next]_vars

-----------------------------------------------------------------------------

\* A delivery that no clock change and no resume overlapped carries the
\* running time it arrived at, or one tick more than the PTS before it: never
\* a time of an earlier baseline, and never one clamped against it; and every
\* time stays in 64 bits.
HonestStamp ==
    /\ TypeOK
    /\ stamped.clean =>
           stamped.pts = IF stamped.prev # G_MAXUINT64
                            /\ stamped.due <= stamped.prev
                         THEN stamped.prev + 1 ELSE stamped.due

\* "so the next frame re-latches the new running-time baseline"
\* (gstlibuvch264src.c:1127): a playing source has latched the base time the
\* pipeline gave it, or none yet.
ResumeRelatches ==
    app = "PLAYING" /\ cb = "idle" => base_time \in {G_MAXUINT64, element_base}
=============================================================================
