# A TLA+ development of libuvcsrc

`libuvcsrc` is a GStreamer live source for UVC cameras that encode H.264 or
H.265 themselves. It drives libuvc, cuts what the camera delivers into access
units, stamps them, and pushes them downstream; when the camera falls silent it
tries to bring it back without leaving `create()`; and it moves a gimbal on
request of the application or of a Unix socket. This directory holds TLA+
models of that program, the TLC configurations that check them, and TLAPS proofs
of the safety of every modelled component.

File names without a directory are under `src/libuvch264src/src/` of the
repository.

## 1. Inventory

### Threads

| thread | what it runs |
|---|---|
| application | `start()`, `stop()`, `unlock()`, `unlock_stop()`, `change_state()`, `set_clock()`, properties, the `set-ptz` signal |
| streaming task | `create()`, in a loop that GstBaseSrc runs while PLAYING and that ends when `create()` returns anything but OK |
| libuvc callback | `frame_callback()`, between `uvc_start_streaming()` and the join inside `uvc_stop_streaming()` |
| control socket | the accept loop of `ptz_control.c`, between `start()` and the join in `stop()` |

GstBaseSrc ties the first two together, and the models rely on it as external
behaviour: PLAYING to PAUSED calls `unlock()` and stops the task without
joining it; PAUSED to PLAYING calls `unlock_stop()` and starts the task again,
also after an earlier ERROR; PAUSED to READY calls `unlock()`, joins the task,
then `unlock_stop()` and `stop()`.

### Components

| component | source | state | operations | talks to |
|---|---|---|---|---|
| session | `gstlibuvch264src.c` | `uvc_ctx`, `uvc_devh`, `streaming`, `flushing`, `frame_queue` | `start`, `stop`, `unlock`, `unlock_stop`, `drain`, `teardown_handle` | all others, through the element |
| `create()` and the silence ladder | `gstlibuvch264src.c` 1660-2290 | `consecutive_timeouts`, `reset_recovery_used`, `frames_since_reset`, `deep_recovery_used` | pop, reconnect, port reset, settle, proof of recovery, deep gate | the queue; the flag and the condition of `reconnect_lock`; the bus |
| callback: NAL scan | `frame_pipeline.c` | none | `find_nal_unit`, `parse_nal_units`, `count_nal_units` | the next row |
| callback: access units | `frame_pipeline.c` | `had_idr`, `send_sps_pps`, `vps/sps/pps` | `split_access_units`, `cache_parameter_set`, the gate, the prefix | the queue |
| callback: PTS | `frame_pipeline.c`, `gstlibuvch264src.c` | `base_time`, `prev_pts`, `clock` | three critical sections per delivery; `set_clock`, `change_state` | object lock |
| control socket | `ptz_control.c` | `control_socket`, `control_socket_path`, `control_running`, `control_socket_seq` | `bind`, `unbind`, the thread, the wakeup | file system, clients, other elements of the process |
| PTZ | `ptz_control.c` | `*_min`, `*_max`, `*_cur`, `*_supported` | probe, three setters, `get_position` | `control_mutex`; the handle |
| deep port recovery | `usb_port_recovery.c` | sysfs | capture, run, restore | sysfs |
| mode selection, quirks | `gstlibuvch264src.c`, `quirks.c` | `frame_format`, `negotiated_*`, `deliverable_caps` | `negotiate`, `uvc_quirks_filter_caps`, the `filter-deliverable-caps` signal | descriptors, the peer's caps |
| payload hints | `gstlibuvch264src.c` | `max_payload`, `transfer_buffers` and their `_effective` values, `uvc_ctrl` | probe, read-back, clean re-negotiation, fallback of `create()` | libuvc; the application, which writes the requests |
| persistent parameter sets | `spspps_cache.c`, `spspps_path.h` | a file per index, codec and size; `vps/sps/pps` | load at negotiation, store from the callback | callback thread, `index` property |
| device selection | `gstlibuvch264src.c` 1144-1352 | none | parse, match, resolve | enumeration, `index` property |
| V4L2 probe, error table | `uvc_device.c`, `gstlibuvch264src_error.c` | none | | |

### What is hard here

* `unlock()` has to reach `create()` wherever it is: blocked on the queue,
  parked in a backoff, between a drain that swallows the wakeup and the next
  wait, inside a recovery that reopens the device.
* A recovery closes, resets, reopens and restarts while the application pauses,
  stops or changes properties and the camera is unplugged, comes back or comes
  back still wedged. Frames of the old stream, a libuvc context that outlived a
  re-enumeration, and one-shots that must or must not be re-armed all have to
  come out right at the end of sequences of a dozen steps.
* A clean start is no proof that a wedged camera recovered; only a frame is.
* A flush throws away buffers whose production has already changed the state:
  the gate was opened, the parameter sets were put back.
* A camera that lost power comes back at rest, and the cached position is not
  probed again.
* The PTS latches are read and written in three critical sections of one thread
  and reset by two operations of another.
* The control socket is closed, unlinked and rebound beside a thread that is
  selecting on it, with other elements in the same process.
* Pan and tilt are two axes and one transfer, set from two threads.
* Start codes of two lengths may touch, overlap with payload, or end a delivery.
* sysfs is checked and then written, while devices come and go.
* Modes are chosen where three parties restrict them, the camera, its quirk row
  and downstream, and an operator is shown a list that must be the one the
  choice is made from.
* The payload hint is read by the streaming thread at three places and written
  by the application at any time; the device may answer another value than it
  was asked for, and the link may carry neither.
* The key of the cache file is taken when a set is stored, from an index, a
  format and a size that other threads change, and the file outlives a crash at
  any step of its writing.

### What makes each component correct

| component | correct means |
|---|---|
| session | one close per open, nothing held when stopped, a stop that sits out none of the ladder's timers |
| ladder | silence ends in frames or an error; success only over a delivered frame; no second reset without proof; no frame from before the break |
| NAL scan | the units are exactly the Annex-B units, and they tile the delivery |
| access units | one buffer per picture, decodable where the decoder joins, nothing lost or repeated |
| PTS | a frame carries its running time, or one tick more than the frame before it |
| control socket | never a closed descriptor, never another element's name, a command is answered, a stop ends |
| PTZ | the cached position is the true one, or the one a camera that went to rest had; one set moves one axis; no value out of range |
| mode selection | the largest picture that all three parties allow; what is offered is accepted |
| hints | what streams was read back from the device; a hint never costs the stream; the property tells what runs |
| persistent sets | an entry is whole or empty, and what was latched in it is of its key's camera and mode; a keyframe gets the latched sets of its own stream |
| deep recovery | no other device is touched; success is reported only over an enabled port |

## 2. Plan

Done, in this order: `LossyLink` and `UvcSource` (the core, and what it
promises), `UvcSourceProofs`, then `PtsStamping`, `ControlSocket`,
`PtzControl`, `NalScan`, `AccessUnits`, `PortRecovery`, then `ModeSelection`
with `StreamArming`, which runs it, and `DeviceSelect` with `ParamSetCache`,
which runs that.

Then the proofs: `PtzControlProofs`, `FrameCallbackProofs` (PtsStamping and
NalScan), `PortRecoveryProofs`, `StreamArmingProofs`, `ControlSocketProofs`,
`ParamSetCacheProofs`, `AccessUnitsProofs`. Every safety property that a run
checks is now a theorem.

Next: a composition of `UvcSource` with `PtsStamping`, the reopen's reset of the
latches and the resume's in one session, and the hazards that no property covers
yet.

## 3. The modules

In every module an action is one step of one thread between two points where
another thread may come in, and carries the name of the function or branch it
stands for. Definitions named `F_...` are faulty variants of the definition
after them; no specification uses one, they serve to show which property would
notice the fault. Variables under "history" record the past for a property and
no action's guard reads them.

**LossyLink** is what the element promises downstream: access units are
numbered as they are captured and delivered in that order, each at most once;
some are lost; a new session counts from zero.

**UvcSource** is the session, `create()`, the ladder and the application's state
changes. `pc` is the position in `create()`; the ladder's positions are its
helper functions: `teardown`, `drain`, `reinit`, `settle`, `reopen`, `wait` and
`parked` (`interruptible_wait()`, on either side of the flag test), `await`
(`await_first_frame()`), `deepGate`, `deepHold`, `verdict`. A reopen is two
steps: `opened` is the position after `uvc_open()`, from which the negotiation
and the start either succeed (`ReopenStarts`) or fail and close the handle
(`ReopenCloses`). `deepHold` is the second the deep rung sleeps between its two
writes, which no flush interrupts. `appPc` is the position of a
state change: `unlock()` is three steps (flag, sentinel, broadcast),
`unlock_stop()` two. A handle is `live` or `dead` (its device left the bus), a
context `fresh` or `stale` (open across a re-enumeration). The camera is
unplugged, plugged in and wedged at any moment. Timers are actions that are
enabled at any moment: time itself is not modelled, and a libuvc call that takes
long is one step. What is abstracted: the
payload of a buffer (offset, whether it holds an IDR, which stream captured
it), the retry with a clean payload inside a start (StreamArming's), the bus
messages' text.

**PtsStamping** has `frame_callback()`'s three critical sections and the two
reads between them, against `set_clock()`, the distribution of the base time
(external: GstPipeline) and `change_state()`. 64-bit times become times modulo
`Width`; every subtraction wraps as in C.

**NalScan** is the scanning loop, one turn per action, over every delivery up to
`MaxLen` bytes of three kinds (0, 1, other).

**AccessUnits** takes the units from there: `split_access_units()` a unit at a
time, then the loop that caches, gates, prefixes and pushes. The camera encodes
whole pictures in one of a set of layouts; each unit carries, as ghosts, its
picture and the version of the parameter sets it refers to, and `dec` is what a
decoder fed with the buffers knows. A buffer that `unlock_stop()` throws out of
the queue never reaches it (`Received`), while `had_idr` and `send_sps_pps` stay
as the push left them. The cache starts empty where `init()` loads built-in
sets; no property here tells the two apart (ParamSetCache's does). The codec, the delimiters and the kinds of
set too large for the cache are chosen once per behaviour.

**ControlSocket** has every system call of `bind()`, `unbind()`, the wakeup and
the accept loop as a step, for several elements of one process that share
`control_socket_seq` and the file system. A `bind()` that fails before it has a
name (the path is too long, or `socket()` fails) keeps the path it resolved and
the number it took (`ResolveFails`). A socket is named by its element and a
serial number so that a reused file descriptor is not mistaken for the old one.
Commands are plain text lines (`PAN_TILT`, `ZOOM`, `GET_POSITION`), and what
they do is the next module's.

**PtzControl** has the probe, the setters step by step (gate, lock, transfer,
record) from both threads, and the streaming thread closing and reopening the
handle without `control_mutex`, as `teardown_handle()` does. A transfer on a
closed handle is taken to fail. A camera with no open handle may lose power and
comes back at rest (`PowerCycle`); a reopen does not probe, so the axes listed
in the history variable `rehomed` are those where the cache is not to be
believed, until the next transfer that carries them. `Pinned` says whether the selector names one
camera for good (a serial number) or whichever it finds (a bus position).

**PortRecovery** has `usb_recovery_target_capture()` and
`usb_deep_recovery_run()` over sysfs: identity and sibling checks, the
`authorized` and the `disable` writes and their restores, each a step, with
other devices on the hub and faults at each write. A hub that cannot be listed
counts as shared.

**ModeSelection** is `negotiate()`'s choice as constant operators: the quirk
row, the filter over lists and ranges of rates, the ladder, the comparison with
the best mode so far and the fixation. A descriptor is its codec, size and set
of rates; caps are the codecs, sizes and rates the peer accepts. Rates are whole
frames per second, which is what the code makes of intervals. **StreamArming**
runs it and follows the two hints from there: `negotiate()`, the probe with its
one retry, `apply_max_payload()`, `apply_transfer_buffers()`, the start, the one
fallback of `create()`, and the same in a reopen and in a live renegotiation.
Each critical section that reads a request is a step, and the application may
rewrite it before any of them. `dwMaxPayloadTransferSize` is the field of
`uvc_ctrl` that a start commits unread; `proven` remembers what the device last
confirmed.

**DeviceSelect** is the `index` text, split at its colons, to a selector, and
the selector over an enumeration: constant operators again, whose less common
forms MCParamSetCache checks by assumptions over every order of three devices.
**ParamSetCache** runs them. It has the element's copies of VPS, SPS and PPS, which
a delivery replaces one by one and not at all where a set is too long (`Kept`),
the files, and the callback's store in three steps (key, truncation, write),
beside an application that changes the index, a bus whose cameras change places,
renegotiations, reconnects and crashes. A set is known by the model and mode it
came from. `heard` lists the kinds latched from the open stream, `known` those
and what was loaded from an entry where they had been; what is in neither is a
copy from before. `camera`, `running` and the rest of "history" tell what it should
have been. The escaping of a key is modelled by its effect, one key per index.

**XProofs** EXTENDS module X and holds its inductive invariant, in named parts,
the lemmas and the theorems (section 6). FrameCallbackProofs is that of two
modules, PtsStamping and NalScan, whose specification is `ScanSpec` so that the
two can be extended together. Everything a run checks is defined in X itself;
the proofs add no assumption of their own, and a theorem that needs a hypothesis
states it.

The modules meet at named points: UvcSource's `RearmCapture` closes the gate
that AccessUnits' `Reopen` closes; its `DeepRecovery` and
`DeepHoldEnds` are the whole of PortRecovery; PtsStamping's `StartStream` is its
`StartStreaming` and `ReopenStarts`; NalScan's units are AccessUnits' `units`; ControlSocket's `Respond`
is a `Command("ctl")` of PtzControl; its `Stop` follows ControlSocket's `Join`;
StreamArming's `StartStreaming` to `Restart` are what UvcSource's
`StartStreaming` is, its `Reopen` what ends in `ReopenStarts`, `ReopenCloses` or `ReopenFails`;
ParamSetCache's `Latched` is AccessUnits' caching of a set, refusal included, and its `Reopen`
resolves where UvcSource's `ReopenPolls` polls.

## 4. What the runs check

`tlc -config X.cfg MCmodule`. Every passing run also checks for deadlock, but
NalScan and PortQuiet, where the program really ends.

| run | configuration | shows |
|---|---|---|
| uvc_wedge | UvcWedge | the safety of the core with port reset and deep rung on |
| uvc_live | UvcLive | silence is resolved, a wedge is reported, and a stop sits out none of the ladder's timers |
| pts_clean | PtsClean | honest stamps across pauses and clock changes |
| socket | Socket | restarts with faults, two elements, clients: descriptors, names, stops, answers |
| ptz_shared | PtzShared | two threads and a recovery on one camera, which may come back from it at rest |
| nal_scan | NalScan | the scan against Annex B |
| au_both | AuBoth | access units of both codecs, through drops, reconnects and flushes |
| port_quiet | PortQuiet | the deep rung on a bus that has settled |
| stream_arming | StreamArming | the mode chosen, and both hints through start, recovery and renegotiation |
| param_cache | ParamCache | the cache files and what keyframes are prefixed with |
| uvc_deep_once | UvcDeepOnce | finding 1 |
| pts_stale_base | PtsStaleBase | finding 2 |

### The properties

UvcSource:
* `HandleDiscipline`: nothing is opened over an open handle, no context is
  replaced under one. With `uvc_close()` calling `libusb_close()`, a second
  close or a handle of a dead context would be the failure; a reopen that fails
  after `uvc_open()` has to close what it opened.
* `StreamingIsRunning`: the flag that lets `create()` skip the start never stands
  without a stream.
* `SessionLeavesNothing`: whatever the session ended in, `stop()` released all.
* `ReopenOnFreshContext`: no reopen on a context from before a re-enumeration.
* `FlushReachesWaiter`: after `unlock()` returned, `create()` is neither parked
  nor blocked on an empty queue. It fails if the flag is not tested under the
  lock before parking, or if the broadcast is missing. Note that the drain of a
  recovery may discard the sentinel; the flag test of the next step is what
  saves it.
* `NoStaleFrame`: a queued frame belongs to the current stream.
* `ReopenLeadsWithKey`: the first frame of a restarted stream is a key frame,
  unless a flush threw queued frames away.
* `ResetNeedsProof`: a second port reset only after `reset-rearm-frames` frames
  were delivered since the first.
* `RecoveryProven`: the settle loop reports success only with a frame of the
  reopened stream at the head of the queue.
* `LinkSpec`: the refinement of LossyLink. `captured` is `frame_offset`, `last`
  the offset last delivered.
* `StopSkipsTimers`: a `stop()` that has begun to join the task completes
  without a pop timeout, a backoff, a proof window or a settle budget coming to
  its end. What it does sit out is the libuvc call in progress, of which a
  teardown inside a recovery is the longest (measured at about 22 s,
  `gstlibuvch264src.c` 1953-1958), and the second of the deep rung
  (`usb_port_recovery.c` 239-241): it says that these are all, not that they are
  short.
* `SilenceResolves`: silence ends in a return of `create()` or in its next pop.
* `WedgeReported`: a source left PLAYING before a camera that never delivers
  again ends in an error that lasts, for the port reset's ladder.

PtsStamping: `HonestStamp`. ControlSocket: `NoDeadDescriptor`,
`StoppedLeavesNothing`, `PathReachesServer`, `StopEnds`, `CommandsAnswered`.
NalScan: `UnitsTile`, `NoUnitMissed` (against the set of Annex-B starts),
`HeaderAgrees`. AccessUnits: `OneUnitPerPicture`, `DelimiterLeads`,
`NothingLost`. PortRecovery: `OthersUntouched`, `ActedMeansRestored`,
`TargetSurvivesReset`. Each is stated in words above its definition. A
module's type invariant is a conjunct of one of its properties, except
UvcSource's, which is proved and listed on its own.

AccessUnits:
* `DecoderHasSets`: where a key slice reaches the decoder, so have the sets it
  refers to, over reconnects, set changes and flushes; except from a flush that
  threw away a buffer with sets until the camera sends them again or a reopen
  closes the gate. The exception is the code's, and AuFlushed shows it.

PtzControl:
* `PositionAgrees`: whoever takes `control_mutex` finds the camera's position in
  the cache, on every axis that was not moved by a loss of power since it was
  last transferred.
* `OneAxisPerSet`: a set moves its own axis; another only if the camera had gone
  to rest, and then back to the cached value and nowhere else (PtzRehomed).
* `StaysInRange`: no value outside the range the probe found.

ModeSelection, through StreamArming:
* `LargestDeliverable`: the mode and rate chosen are advertised, deliverable and
  accepted, and no such mode has a larger picture; compared with the set of all
  that qualify, which the code never builds.
* `OfferedIsAccepted`: a caller that pins a mode and rate of the published
  ladder gets exactly that.

StreamArming:
* `StartSurvivesHint`: a first start is refused only where it would be refused
  without the hint, or the application withdrew it, or the device failed.
* `StreamIsVerified`: the committed payload is one the device confirmed on this
  handle; a hint left unset changes nothing, whatever was set before.
* `ReadBackHonest`: the properties read back what the stream runs with.

ParamSetCache:
* `EntryMatchesKey`: an entry is empty or holds a set of every kind of the key's
  codec, whatever crashed in between; and each kind that was latched from the
  stream is of the key's mode, from a camera the key names where the index is a
  `vid:pid` or a serial.
* `PrefixIsOwn`: in what a keyframe is prefixed with, each set that was latched,
  or loaded from an entry where it had been, is of the keyframe's own camera and
  mode.

Neither says anything of a kind the stream has not delivered yet, or delivered
in a form `cache_parameter_set()` refuses: the code stores and prefixes the copy
from before (CacheLeads). And both speak of what no index change and no live
renegotiation touched between the start and the store. All of these are in the
same behaviours, and section 5 shows what they leave behind.

### Bounds

| run | bounds | why they are enough |
|---|---|---|
| uvc_wedge | 1 timeout means silence, 2 proof frames, 3 frames and 2 queued, default ladder with the deep rung | three frames cover one before a break, one that proves the recovery and one more; two proof frames tell "first frame" from "enough frames" |
| uvc_live | every bound 1 | the waits and wakeups do not depend on the counts; two configurations alternate, so all three recoveries occur in one session |
| pts_clean | 2 clocks 2 ticks apart, 4 ticks, 2 units a delivery, times modulo 24 | a clock behind a stale base wraps; two units of one delivery meet the clamp |
| socket | `Casts`: one element restarted with a fault at any one call; two elements, one with a configured path; one element with clients and no fault; 2 binds an element | path reuse over a restart, a name shared by two, one client queued behind another that hangs up |
| ptz_shared | a gimbal and a camera with a fixed tilt, ranges of 2 values, requests below, in and above them | every clamp; both axes of the shared transfer differ; a rest position that is not the cached one |
| nal_scan | 10 bytes of 3 values, room for 2 units | two codes of 4 bytes with payload, and a third code that finds no room |
| au_both | 1-2 pictures a delivery, 1-2 slices, 1 PPS, 2 versions of the sets | a cut needs a second picture; a change, and a set lost to a flush, need a second version |
| port_quiet | 2 ports, 2 identities, 1 fault | the camera, and one other device that takes its place or sits beside it |
| stream_arming | pairs of 4 descriptors, a faulty one, an MJPEG one, 3 peers, caps of 16 pixels a second or none; payload band 2-4, requests of 0, below and above it; links that carry any payload, the device's own only, or none | a range against a list, a cap between two rates, a cap that empties a mode, a tie of size; every clamp and every outcome of a start |
| param_cache | 2 cameras in 2 orders, an ordinal and a serial, 3 modes, one set too long to keep, deliveries of some sets or all, 2 sessions, 1 disturbance | one session stores, the next loads or finds the other camera; a change between key and write. What takes three sessions is left to the theorems |

`MaxFrames`, `QueueCap`, `MaxSessions`, `MaxDisturbances`, `MaxTick`,
`MaxUnits`, `MaxBinds`, `MaxFaults` and `MaxLen` exist only as such bounds. `DISCONNECT_TIMEOUT_COUNT` (5 in the code),
`RECONNECT_MAX_RETRIES` (5) and `ResetRearmFrames` are parameters; counters
that the code lets run on saturate where nothing compares them any further.
The queue has no limit in the code: `QueueCap` keeps the model finite, and a
callback that finds it full waits.

### Fairness

`FairSpec` gives weak fairness to the streaming thread's own steps
(`StreamSteps`), to the end of the deep rung's hold, a plain sleep that ends by
itself, and to a state change that has begun: the scheduler runs every thread, and a blocking
call is a disabled action. Nothing is assumed of the application's decisions, of
the camera, or of any other clock. `TimersRun` adds the clocks, as the antecedent of
`SilenceResolves` and `WedgeReported`: weak fairness for the 1 s pop, the proof
window and the settle budget, strong fairness for the end of an interruptible
wait, since its deadline is absolute and being woken in between does not put it
off. `StopSkipsTimers` does not have it. `ThreadsSpec` is the same for the
socket's threads. `ServiceSpec` adds that a connected client writes or hangs up, which the code
cannot enforce (see 5).

### Not part of the twelve runs' claims

`OneUnitPerPicture` and `DecoderHasSets` hold for slice types that the code's
table lists and one PPS, `DecoderHasSets` until a flush throws away sets; `StoppedLeavesNothing` for a path that stays put
between start and stop; `PositionAgrees` and `OneAxisPerSet` for a probe whose GET_CUR answers, and with
the exception of a camera that came back at rest; `EntryMatchesKey` and
`PrefixIsOwn` for the sets that were latched;
`OthersUntouched` for a bus that does not move during the run; `WedgeReported`
for the port reset's ladder, not for `reconnect`; `RearmSurvivesHint`, the claim
of a reopen that `StartSurvivesHint` makes of a first start, does not hold.
Section 5 says what happens otherwise. The inputs of StreamArming leave out a
list of no rates and a range of one (section 7).

## 5. Where the code and its documentation part

Two findings are runs of the project:

1. `uvc_deep_once`. The header says the deep one-shot is "re-armed on the same
   delivered-frame proof as the reset's", the properties page "once per silence
   episode"; `create()` re-arms only the reset's. It is once per session.
2. `pts_stale_base`. `frame_callback()` reads the element's base time and commits
   it in a later critical section. A resume in between resets the latch "so the
   next frame re-latches the new running-time baseline", and the stale value is
   committed over it. Every stamp until the next resume is then off by the
   length of the pause. The window is short, but nothing closes it.

The modules state more claims under "What the repository says and the code does
not do", or next to the properties, and a configuration beside each shows the
counterexample. They are leads for whoever maintains the code:

| configuration | property | behaviour |
|---|---|---|
| UvcNullResume | `ResumeHasHandle` | a recovery gave up, the element is still PLAYING; pause and resume calls `uvc_start_streaming(NULL)` (`gstlibuvch264src.c` 2119) |
| UvcLeadingFrame | `LeadingFrameIsKey` | `unlock_stop()` drops the captured IDR while the gate stays open (1591) |
| UvcCounter | `DisconnectNeedsSilence` | a frame dropped by a flush does not reset the timeout counter (2154-2159, 2167) |
| UvcReconnectWedge | `WedgeAlwaysReported` | with `reconnect`, a clean reopen of a wedged camera starts the count over for ever (2176) |
| SocketRepath | `StoppedLeavesNothing` | the path set mid-session is the one unlinked (`ptz_control.c` 111) |
| SocketIdle | `StopEnds` | a client that never writes holds `read()` (156), and the stop's join with it |
| PtzNoCurrent | `OneAxisPerSet` | after a failed GET_CUR the other axis is re-sent as 0 (302, 342) |
| PtzRehomed | `OtherAxesStay` | the camera lost power and came back at rest, the reopen did not probe: setting the pan sends the stale tilt and moves it (342), where `docs/agents/properties.md` has the cache at the last value applied |
| PtzTeardown | `TransferNeedsDevice` | the gate is read before the mutex, the close does not take it (337) |
| PtzOtherCamera | `DrivenAxisIsExposed` | a reopen may find another camera, whose ranges are not probed |
| AuTrailN | `OneUnitPerPicture` | H.265 types other than 1, 19, 20 open no access unit (`frame_pipeline.c` 23) |
| AuTwoPps | `DecoderHasSets` | one PPS is cached and none is forwarded: a second replaces the first |
| AuFlushed | `SetsHeld` | `unlock_stop()` drops a key frame that was prefixed, or the sets that came with it, and the next one goes out without them (`gstlibuvch264src.c` 1591) |
| HintLeads | `RearmSurvivesHint` | the start of a reopen has no fallback: a hint the link no longer carries fails every retry (1745), where the comment above it promises the device's payload |
| HintLeads | `UnappliedReadsRequested` | the effective count of an earlier stream is read back after the request was cleared or refused (1021) |
| HintLeads | `HighestRate` | a range loses to any list of its size, and a best mode that the peer restricted is beaten by another's unrestricted rate (763) |
| CacheLeads | `ResolutionKeyed` | a live renegotiation changes the key of a stream that keeps its mode: the entry of one size holds the sets of another (849) |
| CacheLeads | `SelectorsKeptApart` | the key is the index of the moment, not the one the camera was found by (`spspps_cache.c` 19) |
| CacheLeads | `NewKeyStored` | sets equal to the copies in memory are not stored, also under a key that has no file (`frame_pipeline.c` 268) |
| CacheLeads | `WholeDeliveryIsPrefixed` | of a delivery with all its sets one is refused, and the key frame is prefixed with the built-in or a former camera's in its place (262), where the comment at 247 has the sets always put back |
| PortSwap | `OthersUntouched` | a device that arrives between check and write is acted on (`usb_port_recovery.c` 222) |
| PortStuck | `PortLeftEnabled` | a failed second write leaves the port disabled (245) |

Also noted: the socket's documentation speaks of JSON commands where the code
parses plain text lines.

## 6. What is proved

All theorems hold for every value of the constants that the named assumptions of
the module admit: any number of elements, cameras, modes, faults and sessions,
deliveries of any length, times of any width. Where a theorem has a hypothesis
of its own, the table says which, and which configuration shows what happens
without it. TLC has checked each invariant below on the constants of a run.

| theorem | property | hypothesis |
|---|---|---|
| UvcSourceProofs: `TypeCorrect`, `HandlesAreDisciplined`, `FlagMeansRunning`, `StopReleasesAll`, `ReopensAreFresh`, `FlushIsHeard`, `FramesAreCurrent`, `StreamLeadsWithKey`, `ResetsAreProven`, `RecoveryIsProven` | `TypeOK`, then the nine safety properties of UvcSource in the order of section 4 | none |
| UvcSourceProofs: `ImplementsLossyLink` | `LinkSpec`, the refinement | none |
| FrameCallbackProofs: `StampsAreHonest` | `HonestStamp` | none |
| PtzControlProofs: `CacheAgrees`, `CameraStaysInRange`, `SetsMoveOneAxis` | `PositionAgrees`, `StaysInRange`, `OneAxisPerSet` | the probe reads every position (PtzNoCurrent); the selector names one camera for good (PtzOtherCamera). A camera may lose power at any time it is not open (PtzRehomed) |
| FrameCallbackProofs: `UnitsAreTiled`, `NoUnitIsMissed`, `HeadersAgree` | `UnitsTile`, `NoUnitMissed`, `HeaderAgrees` | none |
| AccessUnitsProofs: `PicturesAreCut`, `DelimitersLead`, `NothingIsLost` | `OneUnitPerPicture`, `DelimiterLeads`, `NothingLost` | the camera's slices are of the types the code's table lists (AuTrailN) |
| AccessUnitsProofs: `DecodersHaveSets` | `DecoderHasSets` | the same, and the camera has one PPS (AuTwoPps). A flush may throw away any buffer (AuFlushed) |
| ControlSocketProofs: `DescriptorsAreAlive` | `NoDeadDescriptor` | none: paths may change at any time |
| ControlSocketProofs: `StopLeavesNothing`, `PathsReachServers` | `StoppedLeavesNothing`, `PathReachesServer` | no path changes under a bound socket (SocketRepath) |
| PortRecoveryProofs: `ClaimsAreRestored`, `TargetsSurvive` | `ActedMeansRestored`, `TargetSurvivesReset` | none: the bus may move |
| PortRecoveryProofs: `OthersAreUntouched` | `OthersUntouched` | the bus is quiet while the rung runs (PortSwap) |
| StreamArmingProofs: `HintsNeverRefuse`, `StreamsAreVerified`, `ReadBacksAreHonest` | `StartSurvivesHint`, `StreamIsVerified`, `ReadBackHonest` | none |
| StreamArmingProofs: `LargestIsChosen`, `OfferedAreAccepted` | `LargestDeliverable`, `OfferedIsAccepted` | none: any descriptors, quirk table and peers |
| ParamSetCacheProofs: `EntriesMatchKeys` | `EntryMatchesKey` | none: any sets refused, any part of them delivered |
| ParamSetCacheProofs: `PrefixesAreOwn` | `PrefixIsOwn` | the cameras that one `vid:pid` or serial names are of one model |

`OneModelPerSelector`, the hypothesis of `PrefixesAreOwn`, is what the format of the key rests
on: a `vid:pid` is a model's, and a serial is one device's. It holds of the
constants of param_cache.

None of the properties is inductive. What each proof strengthens it to:

**UvcSource.** `Invariance` proves `IInv`, the conjunction of

* `TypeInv`: types, and that the count of proof frames stays below its limit
  while the one-shot is spent. Without it the counter's range is not preserved.
* `AppInv`: which states of a state change go with the flag, and at which the
  task is out of `create()`. It is what makes `stop()` a step that finds the
  streaming thread idle.
* `SessionInv`: for each position of `create()`, whether there is a handle, a
  stream, a stale context, an item in hand. The positions split into `AtDevice`
  and `Apart`; the other session properties follow.
* `FlushInv`: a raised flag finds, at every position where `create()` could
  block, something that wakes it: an item on the queue, or a test of the flag
  still ahead. The two positions between flag and broadcast are where it is
  allowed to fail, and it is repaired by the step that ends them.
* `FrameInv`: without a running stream no frame is queued, hence a new epoch
  starts clean.
* `ProofInv`: the code's counter never runs ahead of the frames delivered.
* `LinkInv`: offsets increase from the last delivered frame through the item in
  hand and the queue to the next capture.
* `LeadInv`: where the first frame of a fresh epoch is, and that it holds an IDR.

Each part is preserved by a lemma of its own (`TypeStep`, `AppStep`, ...) with
one step per action; facts about sequences (`FramesOfTail`, `FramesOfAppend`,
`FramesOfPushFront`) are lemmas they share. `RecoveryIsProven` and
`ImplementsLossyLink` are proved from `IInv` action by action.

**PtsStamping.** `StampInv` (`LatchesAreKept`) says what each position of
`frame_callback()` knows of the latches with the lock released in between:
an undisturbed delivery holds the latch or, if that was unset, the pipeline's
base time; the latch is unset or the pipeline's except between the assignment
of a base time and `change_state()`. That one tick past a PTS never wraps is a
lemma about the width.

**PtzControl.** `TypesAreKept` has the mutual exclusion of the two setters and
needs no hypothesis. `PositionInv` (`PositionsAreKept`) adds that a thread past
the gate sets an axis the probe found (`GateInv`), that the limits in use are
the selected camera's (`RangeInv`), that the cache is the camera's position
except on a rehomed axis and on the one that a finished transfer has not
recorded yet (`CurInv`), and that a stale value too is one the camera can take
(`CachedInRange`).

**NalScan.** `ScanInv` (`ScanIsKept`) compares each turn of the loop with the
part of the Annex-B starts it has passed: all of them are found, nothing else
is, and the byte the scan stands on does not continue a four-byte code that
began one byte before. The last conjunct keeps the tail of a four-byte code from
being taken for a code of three.

**AccessUnits.** `DeliveryInv` (`DeliveriesAreKept`) describes whatever the camera
delivers by three numbers, `h1`, `b` and `h2`: where the first picture's slices
begin, where it ends, where the second's begin (`Delivery`). Its parts:

* `SplitInv`: the four locals of `split_access_units()` are a function of those
  numbers and of how many units the loop has seen (`Split`), and once it is done
  the cuts are the pictures' (`Cuts`). `OneUnitPerPicture` speaks of the finished
  partition only and says nothing of the loop on the way.
* `Slots`: a cache slot holds one set of its own kind or nothing, without which
  nothing is known of what a key frame is prefixed with.
* `OutInv`: types of the buffers, and `DelimiterLeads`.
* `LostInv`: what went out so far is what the units before the next access unit
  owed, and the gate stands as it stood before the delivery or as a key picture
  among those units left it. `NothingLost` looks at the delivery's end alone.

`StreamInv` (`StreamIsKept`) adds, for a camera of one PPS, `CacheInv` (sets that
were announced are in the cache, or still to come in this delivery, and before
any key picture that needs them) and `DecInv` (with the gate open and no refresh
pending the same of the decoder, while no flush threw sets away). The "still to come" is what makes them
inductive: a delivery brings a change of sets and the picture that uses it
together. TLC has checked both as invariants of au_both's constants.

**ControlSocket.** `SocketInv` (`DescriptorsAreKept`) gives each descriptor one
owner: the `start()` that builds it, then `control_socket` until `unbind()`, and
the thread's snapshot is that one while it runs. `PathInv` (`NamesAreKept`) adds
that two elements never share a path, since a default one carries the count at
which it was resolved, and that a name and its descriptor come and go together.
`control_socket_seq` is bounded by the sockets made, a cardinality argument
(`SocketsAreFinite`, `SeqIsBounded`).

**PortRecovery.** `TypesAreKept`; then `AttrInv` (the port is disabled or
unauthorized only between the two writes, or under an outcome that claims
nothing), `CaptureInv` (a target is missing only if the device was not there at
the first step) and, for a quiet bus, `QuietInv` (what a check saw is still so
at the write).

**StreamArming.** `ArmingInv` (`ArmingIsKept`) ties the control block to what
the last probe proved, at every position until the start (`BlockInv`), the
handle's count to the effective value (`CountInv`), what runs to both through a
live renegotiation (`StreamInv`), and the reasons for a failed start to the
position it failed at (`FailInv`). Of the mode it says only that a choice in
hand is one of `Negotiations`. What those are is a lemma for any camera and
peer: the ladder holds an entry for each mode that survives the filter and no
other (`LadderHolds`), the preference finds none only if none is compatible and
otherwise one of the largest (`SelectLargest`), and the filter's two judgments,
a product for lists and a quotient for ranges, agree (`CapsAgree`).
`OfferedAreAccepted` applies `SelectLargest` to a peer that leaves one record to
pick (`PinnedPick`).

**ParamSetCache.** `CacheInv` (`CacheIsKept`): without a renegotiation the
element's mode is the stream's (`PhaseInv`); the index names the open camera, and
a key in hand the camera and mode it was taken from, until the element knows
otherwise (`FoundInv`, `KeyInv`); what was latched
stays the camera's, with whatever a refused set left beside it (`HeardInv`).
`KnownInv` says the same of what was loaded from an entry to be trusted. `resolve_device()`
takes the first match, by the well-foundedness of the naturals
(`MinIsMember`).

**Loops over data.** The folds of StreamArming and the joins of AccessUnits are
recursive definitions, and an induction theorem that takes a predicate cannot be
instantiated by the provers. `SetInduction` is induction with a set in the place
of the predicate, proved from the well-foundedness of the naturals; from it
follow `SeqInduction` and, for each recursion that is used, that it has a
solution (`RunsExist`, `FoldExists`) and is computed turn by turn
(`FlattenAppend`, `FoldRun`).

### The assumptions

Bounds and counts are naturals, positive where the code divides or compares with
them (`TimeoutsAssumption`, `RetriesAssumption`, `RearmAssumption`,
`BoundsAssumption`, `WidthAssumption`, `SizesAssumption`, `BandsAssumption`,
`CountsAssumption`, ...). `RangesAssumption`: a camera's minimum is at most its
maximum. `PathsAssumption`: the application gives two elements different explicit
paths, and none of the form of a default one, which is left to it in the code. `LinksAssumption`: a
probe that succeeds answers a payload. `ModesAssumption`, `BusesAssumption`: a
mode has one of two codecs, and an enumeration lists devices.
`CamerasAssumption`: a frame has two pixels or more, since the initial best of
`negotiate()` counts as one, and finitely many rates. `PeersAssumption`: the peer's caps
have been met with the pad's own, so they name the two codecs only.
`RowsAssumption`: a quirk row is a device, a flag and a cap. The rest say that a
null value is none of the values it stands beside (`SentinelAssumption`,
`NullAssumption`, `NoneAssumption`, `NamesAssumption`, `NullsAssumption`). TLC
evaluates every one of them on the runs of its module.

### Only model-checked

* Liveness: `StopSkipsTimers`, `SilenceResolves`, `WedgeReported`, `StopEnds`,
  `CommandsAnswered`. Fairness and ENABLED are outside the prover.
* The two findings and the leads of section 5, which are counterexamples.
* That the models' operators agree with reference definitions on particular
  inputs (the assumptions of MCParamSetCache).

## 7. What is not modelled

* The V4L2 probe (one read-only ioctl, only logged) and the table of error
  messages (stateless).
* `finalize()` and the rest of the property plumbing; the override of the probe
  policy that only a drill build compiles in.
* In mode selection: an interval list that begins with zero, and a continuous
  range whose ends round to one rate, or that the cap leaves one rate of. What
  remains of a caps structure after GStreamer refuses such a value is the
  library's affair. Fractional rates in the caps a caller of
  `filter-deliverable-caps` passes in are rounded up there; `negotiate()` itself
  makes whole rates only.
* In the parameter set cache: the bytes of a file. Three sets of at most
  `SPSPPSBUFSZ` (1024) bytes fit in a stdio buffer, so a store writes all of
  them or nothing at the close. The race on the bytes of `vps`, `sps` and
  `pps` during a live renegotiation's load is one step there.
* The lifetime of the index string that a parsed `serial:` selector borrows.
* libuvc, libusb, GStreamer and the kernel, beyond what section 1 says the code
  relies on. Vendored patches and build scripts.
