----------------------------- MODULE UvcSource -----------------------------
(***************************************************************************)
(* The capture core of the libuvcsrc element: the libuvc session, the      *)
(* frame queue, create() on the streaming thread, the silence ladder       *)
(* (reconnect, port reset, settle, deep recovery) and the app thread's     *)
(* start/stop/unlock/unlock_stop, interleaved as GstBaseSrc interleaves    *)
(* them.                                                                   *)
(*                                                                         *)
(* One action per atomic step of a thread.  Time is abstracted: a timed    *)
(* wait may end at any moment, and a settle budget may run out at any      *)
(* moment.  A blocking libuvc call is one step, which takes as long as the *)
(* call does.  A definition F_... is a faulty variant of the one after it: *)
(* no specification uses it, it is there to show which property would      *)
(* catch it.  PTS stamping, access units, the control socket, PTZ and the  *)
(* deep rung's sysfs side have modules of their own.                       *)
(***************************************************************************)
EXTENDS Integers, Sequences

CONSTANTS
    DISCONNECT_TIMEOUT_COUNT,   \* pop timeouts in a row that mean "gone"
    RECONNECT_MAX_RETRIES,      \* reopens the reconnect ladder may try
    ResetRearmFrames,           \* the reset-rearm-frames property
    Configs,                    \* values the app gives the boolean properties
    MaxFrames,                  \* bound: access units captured per session
    QueueCap,                   \* bound: items queued (the code has no limit)
    FLUSH_SENTINEL, NoItem      \* unlock()'s marker; "nothing popped"

ASSUME TimeoutsAssumption == DISCONNECT_TIMEOUT_COUNT \in Nat \ {0}
ASSUME RetriesAssumption  == RECONNECT_MAX_RETRIES \in Nat \ {0}
ASSUME RearmAssumption    == ResetRearmFrames \in Nat \ {0}
ASSUME ConfigsAssumption  ==
    Configs \subseteq [reconnect : BOOLEAN, auto_port_reset : BOOLEAN,
                       deep_port_recovery : BOOLEAN]
ASSUME BoundsAssumption   == MaxFrames \in Nat /\ QueueCap \in Nat

\* An access unit on the queue: its GST_BUFFER_OFFSET, whether it holds an
\* IDR, and the stream start (alternating 0/1) it was captured under.
Frame == [off : Nat, key : BOOLEAN, ep : {0, 1}]

ASSUME SentinelAssumption ==
    /\ FLUSH_SENTINEL \notin Frame
    /\ NoItem \notin Frame \cup {FLUSH_SENTINEL}

VARIABLES
  (* the libuvc session *)
    uvc_ctx,    \* "NULL", "fresh", or "stale": open across a port reset
    uvc_devh,   \* "NULL", "live", or "dead": its device went away under it
    streaming,  \* the element's flag
    running,    \* libuvc's callback thread exists
  (* shared between the threads *)
    frame_queue, flushing, props,
  (* callback thread *)
    had_idr, frame_offset,
  (* streaming thread *)
    pc,         \* where create() is; "idle" between two calls
    item,       \* what the last pop returned
    ladder,     \* "none", "reconnect", "settle" or "deep"
    after,      \* where teardown+drain, or an interruptible wait, returns to
    attempt, expired,
    consecutive_timeouts, reset_recovery_used, frames_since_reset,
    deep_recovery_used,
    flow,       \* what create() last returned; the task runs while it is OK
  (* app thread *)
    app,        \* the element's state
    target,     \* the state a change in progress leads to
    appPc,      \* where that change is
  (* the camera *)
    present, wedged,
  (* history, read only by properties *)
    epoch,      \* which stream start is current
    lead,       \* "fresh" epoch, its head "lost" to a flush, or "led"
    proof,      \* frames delivered since the last port reset, saturating
    deepProof,  \* frames delivered since the last deep recovery, saturating
    quiet,      \* pop timeouts since a frame last left the queue, saturating
    lastOff     \* offset of the last frame create() returned

session  == <<uvc_ctx, uvc_devh, streaming, running>>
capture  == <<had_idr, frame_offset>>
position == <<ladder, after, attempt, expired>>
oneShots == <<reset_recovery_used, frames_since_reset, deep_recovery_used>>
appVars  == <<app, target, appPc>>
camera   == <<present, wedged>>
history  == <<epoch, lead, proof, deepProof, quiet, lastOff>>
vars == <<session, frame_queue, flushing, props, capture, pc, item, position,
          consecutive_timeouts, oneShots, flow, appVars, camera, history>>

Pcs == {"idle", "starting", "pop", "got", "silence", "reset", "teardown",
        "drain", "reinit", "settle", "reopen", "opened", "wait", "parked",
        "await", "awaitGot", "deepGate", "deepHold", "verdict"}

TypeOK ==
    /\ uvc_ctx \in {"NULL", "fresh", "stale"}
    /\ uvc_devh \in {"NULL", "live", "dead"}
    /\ streaming \in BOOLEAN /\ running \in BOOLEAN
    /\ frame_queue \in Seq(Frame \cup {FLUSH_SENTINEL})
    /\ flushing \in BOOLEAN /\ props \in Configs
    /\ had_idr \in BOOLEAN /\ frame_offset \in Nat
    /\ pc \in Pcs
    /\ item \in Frame \cup {FLUSH_SENTINEL, NoItem}
    /\ ladder \in {"none", "reconnect", "settle", "deep"}
    /\ after \in {"wait", "reopen", "reinit", "settle"}
    /\ attempt \in Nat /\ expired \in BOOLEAN
    /\ consecutive_timeouts \in 0 .. DISCONNECT_TIMEOUT_COUNT
    /\ reset_recovery_used \in BOOLEAN /\ deep_recovery_used \in BOOLEAN
    /\ frames_since_reset \in 0 .. ResetRearmFrames
    /\ flow \in {"OK", "FLUSHING", "ERROR"}
    /\ app \in {"READY", "PAUSED", "PLAYING"}
    /\ target \in {"READY", "PAUSED", "PLAYING"}
    /\ appPc \in {"idle", "push", "cast", "join", "clear", "drop", "stop"}
    /\ present \in BOOLEAN /\ wedged \in BOOLEAN
    /\ epoch \in {0, 1} /\ lead \in {"fresh", "lost", "led"}
    /\ proof \in 0 .. ResetRearmFrames /\ deepProof \in 0 .. ResetRearmFrames
    /\ quiet \in 0 .. DISCONNECT_TIMEOUT_COUNT
    /\ lastOff \in Nat \cup {-1}

\* class_init/init: nothing open, nothing queued, the camera in any condition.
Init ==
    /\ uvc_ctx = "NULL" /\ uvc_devh = "NULL"
    /\ streaming = FALSE /\ running = FALSE
    /\ frame_queue = <<>> /\ flushing = FALSE /\ props \in Configs
    /\ had_idr = FALSE /\ frame_offset = 0
    /\ pc = "idle" /\ item = NoItem
    /\ ladder = "none" /\ after = "settle" /\ attempt = 0 /\ expired = FALSE
    /\ consecutive_timeouts = 0
    /\ reset_recovery_used = FALSE /\ frames_since_reset = 0
    /\ deep_recovery_used = FALSE
    /\ flow = "OK"
    /\ app = "READY" /\ target = "READY" /\ appPc = "idle"
    /\ present \in BOOLEAN /\ wedged = FALSE
    /\ epoch = 0 /\ lead = "led"
    /\ proof = ResetRearmFrames /\ deepProof = ResetRearmFrames
    /\ quiet = 0 /\ lastOff = -1

Saturate(n, bound) == IF n < bound THEN n + 1 ELSE bound

IsFrame(x) == x \in Frame
Frames(q)  == {i \in DOMAIN q : IsFrame(q[i])}

\* History of frames leaving the queue undelivered.
Dropped(some) == /\ lead' = IF some /\ lead = "fresh" THEN "lost" ELSE lead
                 /\ quiet' = IF some THEN 0 ELSE quiet
                 /\ UNCHANGED <<epoch, proof, deepProof, lastOff>>

\* History of a stream (re)start: frames captured from here on are its own.
NewEpoch == /\ epoch' = 1 - epoch
            /\ lead' = "fresh"
            /\ UNCHANGED <<proof, deepProof, quiet, lastOff>>

-----------------------------------------------------------------------------
(* The app thread.                                                         *)

\* start(): re-arms every per-session field whether or not it gets as far as
\* an open handle; every failing path frees what it had acquired.
Start ==
    /\ app = "READY" /\ appPc = "idle"
    /\ had_idr' = FALSE /\ frame_offset' = 0
    /\ consecutive_timeouts' = 0
    /\ reset_recovery_used' = FALSE /\ frames_since_reset' = 0
    /\ deep_recovery_used' = FALSE
    /\ proof' = ResetRearmFrames /\ deepProof' = ResetRearmFrames
    /\ lastOff' = -1
    /\ \/ /\ present
          /\ uvc_ctx' = "fresh" /\ uvc_devh' = "live"
          /\ app' = "PAUSED" /\ target' = "PAUSED" /\ flow' = "OK"
       \/ UNCHANGED <<uvc_ctx, uvc_devh, app, target, flow>>
    /\ UNCHANGED <<streaming, running, frame_queue, flushing, props, pc, item,
                   position, appPc, camera, epoch, lead, quiet>>

\* unlock(), step by step: raise the flag, ...
UnlockSet ==
    /\ app \in {"PLAYING", "PAUSED"} /\ appPc = "idle"
    /\ flushing' = TRUE
    /\ target' = IF app = "PLAYING" THEN "PAUSED" ELSE "READY"
    /\ appPc' = "push"
    /\ UNCHANGED <<session, frame_queue, props, capture, pc, item, position,
                   consecutive_timeouts, oneShots, flow, app, camera, history>>

F_PushNothing(q) == q

PushSentinel(q) == Append(q, FLUSH_SENTINEL)

\* ... wake a create() blocked on the queue, ...
UnlockPush ==
    /\ appPc = "push"
    /\ frame_queue' = PushSentinel(frame_queue)
    /\ appPc' = "cast"
    /\ UNCHANGED <<session, flushing, props, capture, pc, item, position,
                   consecutive_timeouts, oneShots, flow, app, target, camera,
                   history>>

F_NoBroadcast == pc' = pc

Broadcast == pc' = IF pc = "parked" THEN "wait" ELSE pc

\* ... and wake one parked on reconnect_cond.  A pause ends here; a stop goes
\* on to join the task.
UnlockCast ==
    /\ appPc = "cast"
    /\ Broadcast
    /\ \/ target = "PAUSED" /\ app' = "PAUSED" /\ appPc' = "idle"
       \/ target = "READY" /\ app' = app /\ appPc' = "join"
    /\ UNCHANGED <<session, frame_queue, flushing, props, capture, item,
                   position, consecutive_timeouts, oneShots, flow, target,
                   camera, history>>

\* GstBaseSrc joins the streaming task before it goes on to stop().
Join ==
    /\ appPc = "join" /\ pc = "idle"
    /\ appPc' = "clear"
    /\ UNCHANGED <<session, frame_queue, flushing, props, capture, pc, item,
                   position, consecutive_timeouts, oneShots, flow, app, target,
                   camera, history>>

Play ==
    /\ app = "PAUSED" /\ appPc = "idle"
    /\ target' = "PLAYING" /\ appPc' = "clear"
    /\ UNCHANGED <<session, frame_queue, flushing, props, capture, pc, item,
                   position, consecutive_timeouts, oneShots, flow, app, camera,
                   history>>

\* unlock_stop(): lower the flag; nobody waits for create() to have seen it.
UnlockStopClear ==
    /\ appPc = "clear"
    /\ flushing' = FALSE
    /\ appPc' = "drop"
    /\ UNCHANGED <<session, frame_queue, props, capture, pc, item, position,
                   consecutive_timeouts, oneShots, flow, app, target, camera,
                   history>>

\* Then drop sentinels and frames alike.  Entering PLAYING restarts the task.
UnlockStopDrop ==
    /\ appPc = "drop"
    /\ frame_queue' = <<>> /\ Dropped(Frames(frame_queue) # {})
    /\ \/ /\ target = "PLAYING"
          /\ app' = "PLAYING" /\ appPc' = "idle" /\ flow' = "OK"
       \/ target = "READY" /\ appPc' = "stop" /\ UNCHANGED <<app, flow>>
    /\ UNCHANGED <<session, flushing, props, capture, pc, item, position,
                   consecutive_timeouts, oneShots, target, camera>>

\* stop(): uvc_stop_streaming() joins the callback thread before the queue is
\* cleared, and uvc_close() owns the only close of the handle.
F_StopForgetsContext ==
    /\ uvc_devh' = "NULL"
    /\ uvc_ctx' = IF uvc_devh = "NULL" THEN uvc_ctx ELSE "NULL"

CloseAll == uvc_devh' = "NULL" /\ uvc_ctx' = "NULL"

Stop ==
    /\ appPc = "stop"
    /\ streaming' = (streaming /\ uvc_devh = "NULL")
    /\ running' = FALSE
    /\ frame_queue' = <<>> /\ Dropped(Frames(frame_queue) # {})
    /\ CloseAll
    /\ app' = "READY" /\ appPc' = "idle"
    /\ UNCHANGED <<flushing, props, capture, pc, item, position,
                   consecutive_timeouts, oneShots, flow, target, camera>>

\* g_object_set() on the boolean properties, at any time.
SetProperties ==
    /\ props' \in Configs
    /\ UNCHANGED <<session, frame_queue, flushing, capture, pc, item, position,
                   consecutive_timeouts, oneShots, flow, appVars, camera,
                   history>>

-----------------------------------------------------------------------------
(* create() on the streaming thread.                                       *)

\* GstBaseSrc calls create() again and again while PLAYING, until a call
\* fails or is flushed.  A handle that is not streaming yet is started first.
CallCreate ==
    /\ pc = "idle" /\ app = "PLAYING" /\ flow = "OK"
    /\ pc' = IF streaming THEN "pop" ELSE "starting"
    /\ streaming' = TRUE
    /\ UNCHANGED <<uvc_ctx, uvc_devh, running, frame_queue, flushing, props,
                   capture, item, position, consecutive_timeouts, oneShots,
                   flow, appVars, camera, history>>

\* uvc_start_streaming() on whatever uvc_devh is, NULL included; the retry
\* with a clean payload only changes how likely each outcome is.
StartStreaming ==
    /\ pc = "starting"
    /\ \/ /\ uvc_devh = "live"
          /\ running' = TRUE /\ pc' = "pop" /\ NewEpoch
          /\ UNCHANGED <<streaming, flow>>
       \/ /\ streaming' = FALSE /\ pc' = "idle" /\ flow' = "ERROR"
          /\ UNCHANGED <<running, history>>
    /\ UNCHANGED <<uvc_ctx, uvc_devh, frame_queue, flushing, props, capture,
                   item, position, consecutive_timeouts, oneShots, appVars,
                   camera>>

PopItem(from, to) ==
    /\ pc = from /\ frame_queue # <<>>
    /\ item' = Head(frame_queue) /\ frame_queue' = Tail(frame_queue)
    /\ pc' = to
    /\ UNCHANGED <<session, flushing, props, capture, position,
                   consecutive_timeouts, oneShots, flow, appVars, camera,
                   history>>

Pop == PopItem("pop", "got")

\* The 1 s bound on the pop: a NULL item.
PopTimeout ==
    /\ pc = "pop" /\ frame_queue = <<>>
    /\ item' = NoItem /\ pc' = "got"
    /\ quiet' = Saturate(quiet, DISCONNECT_TIMEOUT_COUNT)
    /\ UNCHANGED <<session, frame_queue, flushing, props, capture, position,
                   consecutive_timeouts, oneShots, flow, appVars, camera,
                   epoch, lead, proof, deepProof, lastOff>>

\* Whatever was popped, a flush outranks it; a frame in hand is dropped.
GotFlush ==
    /\ pc = "got" /\ flushing
    /\ Dropped(IsFrame(item))
    /\ item' = NoItem /\ pc' = "idle" /\ flow' = "FLUSHING"
    /\ UNCHANGED <<session, frame_queue, flushing, props, capture, position,
                   consecutive_timeouts, oneShots, appVars, camera>>

GotTimeout ==
    /\ pc = "got" /\ ~flushing /\ item = NoItem
    /\ consecutive_timeouts' =
           Saturate(consecutive_timeouts, DISCONNECT_TIMEOUT_COUNT)
    /\ pc' = IF consecutive_timeouts + 1 < DISCONNECT_TIMEOUT_COUNT
             THEN "pop" ELSE "silence"
    /\ UNCHANGED <<session, frame_queue, flushing, props, capture, item,
                   position, oneShots, flow, appVars, camera, history>>

\* A sentinel left over from a finished flush.
GotSentinel ==
    /\ pc = "got" /\ ~flushing /\ item = FLUSH_SENTINEL
    /\ consecutive_timeouts' = 0
    /\ item' = NoItem /\ pc' = "pop"
    /\ UNCHANGED <<session, frame_queue, flushing, props, capture, position,
                   oneShots, flow, appVars, camera, history>>

F_RearmOnFirstFrame ==
    /\ frames_since_reset' = IF reset_recovery_used THEN 1
                             ELSE frames_since_reset
    /\ reset_recovery_used' = FALSE

F_RearmNever ==
    /\ frames_since_reset' = IF reset_recovery_used
                             THEN frames_since_reset + 1
                             ELSE frames_since_reset
    /\ UNCHANGED reset_recovery_used

\* Re-arm the one-shot reset once the device has proven itself.
Rearm ==
    IF reset_recovery_used
    THEN /\ frames_since_reset' = frames_since_reset + 1
         /\ reset_recovery_used' = (frames_since_reset + 1 < ResetRearmFrames)
    ELSE UNCHANGED <<frames_since_reset, reset_recovery_used>>

GotFrame ==
    /\ pc = "got" /\ ~flushing /\ IsFrame(item)
    /\ consecutive_timeouts' = 0
    /\ Rearm /\ UNCHANGED deep_recovery_used
    /\ item' = NoItem /\ pc' = "idle" /\ flow' = "OK"
    /\ lastOff' = item.off /\ lead' = "led" /\ quiet' = 0
    /\ proof' = Saturate(proof, ResetRearmFrames)
    /\ deepProof' = Saturate(deepProof, ResetRearmFrames)
    /\ UNCHANGED <<session, frame_queue, flushing, props, capture, position,
                   appVars, camera, epoch>>

\* Sustained silence: choose a recovery, or none.  An index that no longer
\* parses ends the chosen one before it touches anything.
Silence ==
    /\ pc = "silence"
    /\ \/ /\ props.reconnect
          /\ \/ /\ pc' = "teardown" /\ after' = "wait"
                /\ ladder' = "reconnect" /\ attempt' = 0
             \/ pc' = "verdict" /\ UNCHANGED <<after, ladder, attempt>>
          /\ UNCHANGED oneShots
       \/ /\ ~props.reconnect /\ ~reset_recovery_used /\ props.auto_port_reset
          /\ reset_recovery_used' = TRUE /\ frames_since_reset' = 0
          /\ pc' \in {"reset", "verdict"}
          /\ UNCHANGED <<deep_recovery_used, ladder, after, attempt>>
       \/ /\ ~props.reconnect
          /\ reset_recovery_used \/ ~props.auto_port_reset
          /\ pc' = "verdict"
          /\ UNCHANGED <<oneShots, ladder, after, attempt>>
    /\ UNCHANGED <<session, frame_queue, flushing, props, capture, item,
                   expired, consecutive_timeouts, flow, appVars, camera,
                   history>>

\* The recovery returns, and its local variables are gone.
LadderEnds == /\ ladder' = "none" /\ after' = "settle"
              /\ attempt' = 0 /\ expired' = FALSE

\* A flush that raced in is honoured over the disconnect error.
Verdict ==
    /\ pc = "verdict"
    /\ pc' = "idle" /\ LadderEnds
    /\ flow' = IF flushing THEN "FLUSHING" ELSE "ERROR"
    /\ UNCHANGED <<session, frame_queue, flushing, props, capture, item,
                   consecutive_timeouts, oneShots, appVars, camera, history>>

-----------------------------------------------------------------------------
(* The silence ladder, still inside create().                              *)

\* One libusb port reset.  It invalidates the handle, leaves the context
\* unable to reopen the device, and the device may come back clean, still
\* wedged, or not at all.  On a handle that is dead already it may fail, or
\* report NOT_FOUND, which the code takes for a success.
PortReset ==
    /\ pc = "reset"
    /\ proof' = 0
    /\ \/ /\ uvc_devh # "NULL"
          /\ uvc_devh' = "dead" /\ uvc_ctx' = "stale"
          /\ present' \in BOOLEAN /\ (present' => present)
          /\ wedged' \in BOOLEAN /\ (wedged' => wedged /\ present')
          /\ ladder' = "settle" /\ expired' = FALSE
          /\ pc' = "teardown" /\ after' = "reinit"
       \/ pc' = "verdict"
          /\ UNCHANGED <<uvc_ctx, uvc_devh, camera, ladder, expired, after>>
    /\ UNCHANGED <<streaming, running, frame_queue, flushing, props, capture,
                   item, attempt, consecutive_timeouts, oneShots, flow,
                   appVars, epoch, lead, deepProof, quiet, lastOff>>

F_KeepFlag == uvc_devh' = "NULL" /\ running' = FALSE /\ UNCHANGED streaming

F_KeepDeadHandle ==
    /\ uvc_devh' = IF uvc_devh = "live" THEN "NULL" ELSE uvc_devh
    /\ running' = FALSE /\ streaming' = FALSE

CloseHandle ==
    /\ uvc_devh' = "NULL" /\ running' = FALSE
    /\ streaming' = (streaming /\ uvc_devh = "NULL")

\* uvc_stop_streaming() -> uvc_close() -> uvc_unref_device().
TeardownHandle ==
    /\ pc = "teardown"
    /\ CloseHandle
    /\ pc' = "drain"
    /\ UNCHANGED <<uvc_ctx, frame_queue, flushing, props, capture, item,
                   position, consecutive_timeouts, oneShots, flow, appVars,
                   camera, history>>

F_KeepQueue(q) == q

Drained(q) == <<>>

\* Nothing captured before the break may follow the reopen; a sentinel on
\* the queue goes with it, so the flag is what the next step looks at.
DrainQueue ==
    /\ pc = "drain"
    /\ frame_queue' = Drained(frame_queue) /\ Dropped(Frames(frame_queue) # {})
    /\ pc' = after
    /\ after' = IF ladder = "reconnect" THEN "reopen" ELSE "settle"
    /\ UNCHANGED <<session, flushing, props, capture, item, ladder, attempt,
                   expired, consecutive_timeouts, oneShots, flow, appVars,
                   camera>>

F_KeepContext == UNCHANGED uvc_ctx

FreshContext == uvc_ctx' = "fresh"

\* uvc_exit() and uvc_init(): a context may not straddle a re-enumeration.
ReinitContext ==
    /\ pc = "reinit"
    /\ \/ FreshContext /\ pc' = "settle"
       \/ uvc_ctx' = "NULL" /\ pc' = "verdict"
    /\ UNCHANGED <<uvc_devh, streaming, running, frame_queue, flushing, props,
                   capture, item, position, consecutive_timeouts, oneShots,
                   flow, appVars, camera, history>>

F_SettleForever == flushing

SettleOver == flushing \/ expired

\* Where settle_until_frame() returns FALSE to.
SettleFailed == IF ladder = "deep" THEN "verdict" ELSE "deepGate"

Settle ==
    /\ pc = "settle"
    /\ pc' = IF SettleOver THEN SettleFailed ELSE "reopen"
    /\ UNCHANGED <<session, frame_queue, flushing, props, capture, item,
                   position, consecutive_timeouts, oneShots, flow, appVars,
                   camera, history>>

\* The budget of reset-settle-max-ms runs out.
BudgetExpires ==
    /\ ladder \in {"settle", "deep"} /\ ~expired
    /\ expired' = TRUE
    /\ UNCHANGED <<session, frame_queue, flushing, props, capture, pc, item,
                   ladder, after, attempt, consecutive_timeouts, oneShots,
                   flow, appVars, camera, history>>

F_KeepGate == UNCHANGED capture

F_RestartOffsets == had_idr' = FALSE /\ frame_offset' = 0

RearmCapture == had_idr' = FALSE /\ UNCHANGED frame_offset

\* reopen_once() up to uvc_open(): resolve and open.  With a deadline, each of
\* its steps is taken only while some of the budget is left.
ReopenOpens ==
    /\ pc = "reopen" /\ present /\ uvc_ctx = "fresh"
    /\ ladder = "reconnect" \/ ~expired
    /\ uvc_devh' = "live" /\ pc' = "opened"
    /\ UNCHANGED <<uvc_ctx, streaming, running, frame_queue, flushing, props,
                   capture, item, position, consecutive_timeouts, oneShots,
                   flow, appVars, camera, history>>

\* Its other half: negotiate, re-arm the stream state, start.  A clean start
\* ends the reconnect ladder; the settle loop wants a frame.
ReopenStarts ==
    /\ pc = "opened" /\ uvc_devh = "live"
    /\ ladder = "reconnect" \/ ~expired
    /\ streaming' = TRUE /\ running' = TRUE
    /\ RearmCapture /\ NewEpoch
    /\ \/ /\ ladder = "reconnect"
          /\ pc' = "pop" /\ LadderEnds /\ consecutive_timeouts' = 0
       \/ /\ ladder # "reconnect"
          /\ pc' = "await" /\ UNCHANGED <<position, consecutive_timeouts>>
    /\ UNCHANGED <<uvc_ctx, uvc_devh, frame_queue, flushing, props, item,
                   oneShots, flow, appVars, camera>>

\* Where a failed reopen leads: the next backoff, the verdict after the last
\* one, or another turn of the settle loop.
ReopenFailed ==
    \/ /\ ladder = "reconnect" /\ attempt + 1 < RECONNECT_MAX_RETRIES
       /\ attempt' = attempt + 1 /\ pc' = "wait" /\ UNCHANGED after
    \/ /\ ladder = "reconnect" /\ attempt + 1 >= RECONNECT_MAX_RETRIES
       /\ pc' = "verdict" /\ UNCHANGED <<attempt, after>>
    \/ /\ ladder # "reconnect"
       /\ pc' = "wait" /\ after' = "settle" /\ UNCHANGED attempt

\* No such device, no budget left, or uvc_open() fails: nothing is open.
ReopenFails ==
    /\ pc = "reopen"
    /\ ReopenFailed
    /\ UNCHANGED <<session, frame_queue, flushing, props, capture, item,
                   ladder, expired, consecutive_timeouts, oneShots, flow,
                   appVars, camera, history>>

F_KeepReopened == UNCHANGED uvc_devh

CloseReopened == uvc_devh' = "NULL"

\* The budget, the negotiation or the start fails on the handle just opened,
\* before or after the gate was re-armed.
ReopenCloses ==
    /\ pc = "opened"
    /\ CloseReopened
    /\ had_idr' \in {had_idr, FALSE}
    /\ ReopenFailed
    /\ UNCHANGED <<uvc_ctx, streaming, running, frame_queue, flushing, props,
                   frame_offset, item, ladder, expired, consecutive_timeouts,
                   oneShots, flow, appVars, camera, history>>

\* resolve_device() with a deadline polls until the device enumerates.
ReopenPolls ==
    /\ pc = "reopen" /\ ladder # "reconnect" /\ ~present /\ ~expired
    /\ pc' = "wait" /\ after' = "reopen"
    /\ UNCHANGED <<session, frame_queue, flushing, props, capture, item,
                   ladder, attempt, expired, consecutive_timeouts, oneShots,
                   flow, appVars, camera, history>>

\* A wait that a flush ended: the reconnect ladder and the settle loop give
\* up; a resolve poll fails its reopen, which enters the settle loop's wait.
Interrupted ==
    \/ ladder = "reconnect" /\ pc' = "verdict" /\ UNCHANGED after
    \/ /\ ladder # "reconnect" /\ after = "reopen"
       /\ pc' = "wait" /\ after' = "settle"
    \/ /\ ladder # "reconnect" /\ after = "settle"
       /\ pc' = SettleFailed /\ UNCHANGED after

F_ParkUntested == TRUE

MayPark == ~flushing

\* interruptible_wait(): test the flag under reconnect_lock, then park.
Wait ==
    /\ pc = "wait"
    /\ \/ flushing /\ Interrupted
       \/ MayPark /\ pc' = "parked" /\ UNCHANGED after
    /\ UNCHANGED <<session, frame_queue, flushing, props, capture, item,
                   ladder, attempt, expired, consecutive_timeouts, oneShots,
                   flow, appVars, camera, history>>

\* The backoff interval ends; the flag has the last word.
WaitExpires ==
    /\ pc = "parked"
    /\ \/ flushing /\ Interrupted
       \/ ~flushing /\ pc' = after /\ UNCHANGED after
    /\ UNCHANGED <<session, frame_queue, flushing, props, capture, item,
                   ladder, attempt, expired, consecutive_timeouts, oneShots,
                   flow, appVars, camera, history>>

AwaitPop == PopItem("await", "awaitGot")

F_TrustStart == pc' = "pop" /\ UNCHANGED after

NoProof == pc' = "teardown" /\ after' = "settle"

\* The proof window or the budget ends, before a pop even where an item is
\* queued: after a stale sentinel the deadline is looked at first.
AwaitTimeout ==
    /\ pc = "await"
    /\ NoProof
    /\ UNCHANGED <<session, frame_queue, flushing, props, capture, item,
                   ladder, attempt, expired, consecutive_timeouts, oneShots,
                   flow, appVars, camera, history>>

AwaitFlush ==
    /\ pc = "awaitGot" /\ flushing
    /\ Dropped(IsFrame(item)) /\ item' = NoItem
    /\ NoProof
    /\ UNCHANGED <<session, frame_queue, flushing, props, capture, ladder,
                   attempt, expired, consecutive_timeouts, oneShots, flow,
                   appVars, camera>>

\* A stale sentinel: wait on, if the deadline still allows it.
AwaitSentinel ==
    /\ pc = "awaitGot" /\ ~flushing /\ item = FLUSH_SENTINEL
    /\ item' = NoItem
    /\ \/ ~expired /\ pc' = "await" /\ UNCHANGED after
       \/ expired /\ NoProof
    /\ UNCHANGED <<session, frame_queue, flushing, props, capture, ladder,
                   attempt, expired, consecutive_timeouts, oneShots, flow,
                   appVars, camera, history>>

F_PushBack(x, q) == Append(q, x)

PushFront(x, q) == <<x>> \o q

\* A delivered frame is the only proof; it goes back to the queue's head.
AwaitFrame ==
    /\ pc = "awaitGot" /\ ~flushing /\ IsFrame(item)
    /\ frame_queue' = PushFront(item, frame_queue) /\ item' = NoItem
    /\ pc' = "pop" /\ LadderEnds /\ consecutive_timeouts' = 0
    /\ UNCHANGED <<session, flushing, props, capture, oneShots, flow, appVars,
                   camera, history>>

\* What usb_deep_recovery_run() does to the bus when it acted: the device may
\* be back, and the context is stale once more.
DeepActed ==
    /\ pc' = "reinit" /\ ladder' = "deep" /\ expired' = FALSE
    /\ uvc_ctx' = "stale"
    /\ present' \in BOOLEAN /\ (present => present')
    /\ wedged' \in BOOLEAN /\ (wedged' => wedged)

\* The rung below the reset: opt-in, one shot, outranked by a flush.  It
\* re-probes a device at once, refuses or fails at once, or turns the port
\* off and holds it there.
DeepRecovery ==
    /\ pc = "deepGate"
    /\ ~flushing /\ props.deep_port_recovery /\ ~deep_recovery_used
    /\ deep_recovery_used' = TRUE /\ deepProof' = 0
    /\ \/ present /\ DeepActed
       \/ /\ pc' \in {"deepHold", "verdict"}
          /\ UNCHANGED <<ladder, expired, uvc_ctx, camera>>
    /\ UNCHANGED <<uvc_devh, streaming, running, frame_queue, flushing, props,
                   capture, item, after, attempt, consecutive_timeouts,
                   reset_recovery_used, frames_since_reset, flow, appVars,
                   epoch, lead, proof, quiet, lastOff>>

\* The hold is a plain sleep, so no flush shortens it.  It ends by itself:
\* the port is turned on again, or the write that should do it fails.
DeepHoldEnds ==
    /\ pc = "deepHold"
    /\ \/ DeepActed
       \/ pc' = "verdict" /\ UNCHANGED <<ladder, expired, uvc_ctx, camera>>
    /\ UNCHANGED <<uvc_devh, streaming, running, frame_queue, flushing, props,
                   capture, item, after, attempt, consecutive_timeouts,
                   oneShots, flow, appVars, history>>

DeepSkipped ==
    /\ pc = "deepGate"
    /\ flushing \/ ~props.deep_port_recovery \/ deep_recovery_used
    /\ pc' = "verdict"
    /\ UNCHANGED <<session, frame_queue, flushing, props, capture, item,
                   position, consecutive_timeouts, oneShots, flow, appVars,
                   camera, history>>

-----------------------------------------------------------------------------
(* The callback thread and the camera.                                     *)

\* frame_callback() with one access unit: nothing passes before an IDR.
FrameCallback ==
    /\ running /\ uvc_devh = "live" /\ ~wedged
    /\ frame_offset < MaxFrames /\ Len(frame_queue) < QueueCap
    /\ \E key \in BOOLEAN :
          /\ had_idr \/ key
          /\ frame_queue' = Append(frame_queue,
                 [off |-> frame_offset, key |-> key, ep |-> epoch])
          /\ had_idr' = TRUE
    /\ frame_offset' = frame_offset + 1
    /\ UNCHANGED <<session, flushing, props, pc, item, position,
                   consecutive_timeouts, oneShots, flow, appVars, camera,
                   history>>

Unplug ==
    /\ present
    /\ present' = FALSE /\ wedged' = FALSE
    /\ uvc_devh' = IF uvc_devh = "live" THEN "dead" ELSE uvc_devh
    /\ UNCHANGED <<uvc_ctx, streaming, running, frame_queue, flushing, props,
                   capture, pc, item, position, consecutive_timeouts, oneShots,
                   flow, appVars, history>>

\* A handle opened before the unplug stays dead.
Plug ==
    /\ ~present
    /\ present' = TRUE
    /\ UNCHANGED <<session, frame_queue, flushing, props, capture, pc, item,
                   position, consecutive_timeouts, oneShots, flow, appVars,
                   wedged, history>>

\* Still enumerated, still answering control transfers, delivering nothing.
Wedge ==
    /\ present /\ ~wedged
    /\ wedged' = TRUE
    /\ UNCHANGED <<session, frame_queue, flushing, props, capture, pc, item,
                   position, consecutive_timeouts, oneShots, flow, appVars,
                   present, history>>

-----------------------------------------------------------------------------

\* Steps the streaming thread takes by itself, once the libuvc call that the
\* step stands for has returned.
StreamSteps ==
    \/ CallCreate \/ StartStreaming \/ Pop
    \/ GotFlush \/ GotTimeout \/ GotSentinel \/ GotFrame
    \/ Silence \/ Verdict
    \/ PortReset \/ TeardownHandle \/ DrainQueue \/ ReinitContext \/ Settle
    \/ ReopenOpens \/ ReopenStarts \/ ReopenFails \/ ReopenCloses
    \/ ReopenPolls \/ Wait
    \/ AwaitPop \/ AwaitFlush \/ AwaitSentinel \/ AwaitFrame
    \/ DeepRecovery \/ DeepSkipped

Timers == PopTimeout \/ WaitExpires \/ AwaitTimeout \/ BudgetExpires

\* A state change that has begun: what the app thread still has to do.
AppProceeds == UnlockPush \/ UnlockCast \/ Join \/ UnlockStopClear
               \/ UnlockStopDrop \/ Stop

AppBegins == Start \/ UnlockSet \/ Play \/ SetProperties

Camera == FrameCallback \/ Unplug \/ Plug \/ Wedge

Next == \/ StreamSteps \/ DeepHoldEnds \/ Timers
        \/ AppProceeds \/ AppBegins \/ Camera

Spec == Init /\ [][Next]_vars

\* Every thread runs: each blocking libuvc call returns, the teardown's above
\* all, which no flush interrupts, and the deep rung's hold ends.  None of the
\* clocks of Timers is needed.
FairSpec == Spec /\ WF_vars(StreamSteps) /\ WF_vars(DeepHoldEnds)
                 /\ WF_vars(AppProceeds)

\* Clocks run too: what must happen within bounded time.  The deadline of an
\* interruptible wait is absolute, so being woken in between does not put it
\* off: strong fairness.
TimersRun == WF_vars(PopTimeout) /\ SF_vars(WaitExpires)
             /\ WF_vars(AwaitTimeout) /\ WF_vars(BudgetExpires)

-----------------------------------------------------------------------------
(* Properties.                                                             *)

\* Opening never overwrites an open handle, the context is never replaced
\* under one, and a handle never outlives its context: what keeps uvc_close()
\* the single libusb_close() across reopen_once(), the recovery and stop().
HandleDiscipline ==
    /\ pc \in {"reopen", "reinit", "settle", "deepGate", "deepHold"} =>
           uvc_devh = "NULL"
    /\ uvc_devh # "NULL" => uvc_ctx # "NULL"
    /\ running => uvc_devh # "NULL"

\* create() skips the start when the streaming flag is up, and stop() only
\* lowers it next to a handle: so the flag may stand only over a running
\* stream, or a later session would wait on a stream nobody started.
StreamingIsRunning == streaming /\ pc # "starting" => running

\* A stopped element has released everything, whichever failure, flush or
\* half-finished recovery the session ended in.
SessionLeavesNothing ==
    app = "READY" =>
        /\ uvc_ctx = "NULL" /\ uvc_devh = "NULL"
        /\ ~streaming /\ ~running /\ frame_queue = <<>> /\ item = NoItem
        /\ pc = "idle" /\ ~flushing

\* No reopen runs on a libuvc context that was open across a port reset or a
\* deep recovery: such a context cannot open the re-enumerated device.
ReopenOnFreshContext == pc = "reopen" => uvc_ctx # "stale"

\* Once unlock() has returned, create() sits out no timer that a wakeup could
\* cut short: it is not parked in a backoff, and not blocked on an empty
\* queue - whatever the drains of the recovery did to the sentinel.
FlushReachesWaiter ==
    flushing /\ appPc \notin {"push", "cast"} =>
        /\ pc # "parked"
        /\ pc \in {"pop", "await"} => frame_queue # <<>>

\* Every frame on its way to downstream was captured by the current stream:
\* teardown, reopen and restart leave none from before the break.
NoStaleFrame ==
    /\ \A i \in Frames(frame_queue) : frame_queue[i].ep = epoch
    /\ IsFrame(item) => item.ep = epoch

\* The first frame delivered after a (re)start of the stream holds an IDR,
\* unless a flush threw queued frames away in between.
ReopenLeadsWithKey ==
    pc = "got" /\ IsFrame(item) /\ lead = "fresh" => item.key

\* A second port reset is only ever issued after ResetRearmFrames frames were
\* delivered since the first: a device that emits a few frames and wedges
\* again cannot have its port reset for ever.
ResetNeedsProof == pc = "reset" => proof = ResetRearmFrames

\* The recovery reports success only over a frame of the reopened stream
\* that create() can hand on at once; a clean start proves nothing.
ProvenStep == ladder \in {"settle", "deep"} /\ pc' = "pop" =>
                  /\ frame_queue' # <<>>
                  /\ IsFrame(frame_queue'[1]) /\ frame_queue'[1].ep = epoch

RecoveryProven == [][ProvenStep]_vars

\* Downstream sees the lossy link of LossyLink: in order, at most once.
Link == INSTANCE LossyLink WITH open <- app # "READY",
                                captured <- frame_offset, last <- lastOff
LinkSpec == Link!Spec

\* stop() completes without waiting for a pop timeout, a backoff interval, a
\* proof window or a settle budget, wherever it finds create(): it sits out
\* libuvc calls in progress and the hold of the deep rung, and no more.
StopSkipsTimers == (appPc = "join") ~> (app = "READY")

\* Sustained silence is resolved: where the clocks run, create() delivers from
\* the device again or returns, it does not stay in the ladder.
SilenceResolves == TimersRun => ((pc = "silence") ~> (pc \in {"idle", "pop"}))

\* A source left PLAYING before a device that stays on the bus and never
\* delivers again.
LeftWedged == app = "PLAYING" /\ appPc = "idle" /\ wedged

\* Such a source ends up with an error that lasts, whatever the switches were
\* in between, unless it reconnects: a reopen that succeeds without a frame
\* puts the error off.
WedgeReported ==
    TimersRun /\ <>[](LeftWedged /\ ~props.reconnect) => <>[](flow = "ERROR")

-----------------------------------------------------------------------------
(* What the repository says and the code does not do.                      *)

\* Under reconnect=true too.
WedgeAlwaysReported == TimersRun /\ <>[]LeftWedged => <>(flow = "ERROR")

\* "a pause/resume cycle that never passes through NULL" resumes with a next
\* frame (gstlibuvch264src.c:1124): the stream is started on an open handle.
ResumeHasHandle == pc = "starting" => uvc_devh # "NULL"

\* The deep one-shot is "re-armed on the same delivered-frame proof as the
\* reset's" (gstlibuvch264src_internal.h:97).
DeepRearmed == deepProof = ResetRearmFrames => ~deep_recovery_used

\* "downstream never sees an undecodable leading fragment"
\* (frame_pipeline.c:391): the first frame of a stream to reach it is an IDR.
LeadingFrameIsKey ==
    pc = "got" /\ ~flushing /\ IsFrame(item) /\ lead # "led" => item.key

\* "The counter resets on every real frame and in start(), so an isolated gap
\* never trips it" (disconnect-reconnect-behavior.md:17).
SilentStep == pc # "silence" /\ pc' = "silence" =>
                  quiet = DISCONNECT_TIMEOUT_COUNT

DisconnectNeedsSilence == [][SilentStep]_vars
=============================================================================
