---------------------------- MODULE StreamArming ----------------------------
(***************************************************************************)
(* From an open handle to a running stream: negotiate(), the max-payload   *)
(* and transfer-buffers hints, uvc_start_streaming() with its one fallback *)
(* in create(), and the same arming again in reopen_once() and in a        *)
(* renegotiation that downstream asks for while the stream runs.           *)
(*                                                                         *)
(* The streaming thread takes one step per critical section: what matters  *)
(* is when it reads the requests, which the app writes at any time.  The   *)
(* recovery ladders around reopen_once() are UvcSource's.  The link (bus   *)
(* speed, DMA pool) and the device are external: default is the payload    *)
(* the device answers to a clean negotiation, limit the largest payload a  *)
(* stream can be started with.                                             *)
(***************************************************************************)
EXTENDS ModeSelection

CONSTANTS
    MAX_PAYLOAD_MIN_LEGAL, MAX_PAYLOAD_MAX,
    TRANSFER_BUFFERS_MIN, TRANSFER_BUFFERS_MAX,
    PayloadRequests, BufferRequests,    \* what the app asks for, 0 included
    Links,                              \* [default, limit] of a handle
    Cameras,                            \* [id, modes] of an open device
    Peers,                              \* what downstream accepts
    QuirkTable,
    NoStream, NoChoice

ASSUME BandsAssumption ==
    /\ MAX_PAYLOAD_MIN_LEGAL \in Nat \ {0} /\ TRANSFER_BUFFERS_MIN \in Nat \ {0}
    /\ MAX_PAYLOAD_MAX \in Nat /\ TRANSFER_BUFFERS_MAX \in Nat
    /\ MAX_PAYLOAD_MIN_LEGAL <= MAX_PAYLOAD_MAX
    /\ TRANSFER_BUFFERS_MIN <= TRANSFER_BUFFERS_MAX
ASSUME RequestsAssumption ==
    PayloadRequests \subseteq Nat /\ BufferRequests \subseteq Nat
\* Frames have at least two pixels, and finitely many rates.
ASSUME CamerasAssumption ==
    \A camera \in Cameras :
        /\ camera.modes \in Seq(Modes)
        /\ \A n \in 1..Len(camera.modes) :
               /\ Pixels(camera.modes[n]) >= 2
               /\ IsFiniteSet(camera.modes[n].rates)
ASSUME PeersAssumption == \A peer \in Peers : peer.codecs \subseteq Codecs
ASSUME RowsAssumption ==
    QuirkTable \in Seq([id : STRING, flagged : BOOLEAN, max_pixel_rate : Nat])
ASSUME LinksAssumption ==
    \A l \in Links : l.default \in Nat \ {0} /\ l.limit \in Nat

VARIABLES
    max_payload, transfer_buffers,      \* the properties, as requested
    max_payload_effective, transfer_buffers_effective,
    dwMaxPayloadTransferSize,           \* of self->uvc_ctrl
    libuvc_buffers,     \* the count set on the handle, 0 libuvc's default
    link,               \* of the open handle
    pc,                 \* the streaming thread
    goal,               \* "first", "reopen" or "live": what is being armed
    stream,             \* what runs: [payload, buffers, verified, ...]
    choice,             \* the negotiation just made, forgotten once probed
    proven,             \* history: the payload of the last successful probe
    unclean,            \* history: a clean re-negotiation failed since
    asked               \* history: which requests were set when last read

app     == <<max_payload, transfer_buffers>>
hints   == <<max_payload_effective, transfer_buffers_effective>>
history == <<proven, unclean, asked>>
vars    == <<app, hints, dwMaxPayloadTransferSize, libuvc_buffers, link, pc,
             goal, stream, choice, history>>

Clamp(v, low, high) == IF v < low THEN low ELSE IF v > high THEN high ELSE v

Init ==
    /\ max_payload \in PayloadRequests /\ transfer_buffers \in BufferRequests
    /\ max_payload_effective = 0 /\ transfer_buffers_effective = 0
    /\ dwMaxPayloadTransferSize = 0 /\ libuvc_buffers = 0
    /\ link \in Links
    /\ pc = "closed" /\ goal = "first"
    /\ stream = NoStream /\ choice = NoChoice
    /\ proven = 0 /\ unclean = FALSE
    /\ asked = [payload |-> FALSE, buffers |-> FALSE]

-----------------------------------------------------------------------------
(* The app.                                                                *)

SetMaxPayload ==
    /\ \E v \in PayloadRequests : max_payload' = v
    /\ UNCHANGED <<transfer_buffers, hints, dwMaxPayloadTransferSize,
                   libuvc_buffers, link, pc, goal, stream, choice, history>>

SetTransferBuffers ==
    /\ \E v \in BufferRequests : transfer_buffers' = v
    /\ UNCHANGED <<max_payload, hints, dwMaxPayloadTransferSize,
                   libuvc_buffers, link, pc, goal, stream, choice, history>>

\* A fresh handle: libuvc's own buffer count, whatever the last one had.
FreshHandle == link' \in Links /\ libuvc_buffers' = 0

\* start()
Open ==
    /\ pc = "closed"
    /\ FreshHandle
    /\ pc' = "open" /\ goal' = "first"
    /\ UNCHANGED <<app, hints, dwMaxPayloadTransferSize, stream, choice,
                   history>>

\* stop() joins the streaming thread; the element keeps its control block
\* and both effective values.
Stop ==
    /\ pc \in {"open", "running", "reopen", "refused", "error"}
    /\ pc' = "closed" /\ stream' = NoStream /\ choice' = NoChoice
    /\ goal' = "first"
    /\ UNCHANGED <<app, hints, dwMaxPayloadTransferSize, libuvc_buffers, link,
                   history>>

-----------------------------------------------------------------------------
(* negotiate()                                                             *)

\* The outcomes of uvc_get_stream_ctrl_format_size(): success leaves the
\* device's own payload in the control block.
Probed ==
    /\ dwMaxPayloadTransferSize' = link.default
    /\ proven' = link.default /\ unclean' = FALSE

\* One failure of the first probe with INVALID_MODE is retried; the second
\* attempt, or any other error, is final.
ProbeOutcomes == {<<"ok">>, <<"invalid", "ok">>, <<"invalid", "invalid">>,
                  <<"error">>}

\* The ladder is published and the best mode picked, whatever comes of it.
Choose(camera, peer) ==
    LET ladder == Deliverable(QuirkLimit(QuirkTable, camera.id), camera.modes)
    IN  [camera |-> camera, peer |-> peer, ladder |-> ladder,
         best |-> Select(peer, ladder)]

Negotiations == {Choose(camera, peer) : camera \in Cameras, peer \in Peers}

Negotiate ==
    /\ pc \in {"open", "running"}
    /\ \E c \in Negotiations, probes \in ProbeOutcomes :
           /\ choice' = c
           /\ IF Usable(c.best) /\ probes[Len(probes)] = "ok"
              THEN Probed /\ pc' = "payload"
              ELSE /\ pc' = "error"
                   /\ UNCHANGED <<dwMaxPayloadTransferSize, proven, unclean>>
    /\ goal' = IF pc = "running" THEN "live" ELSE "first"
    /\ UNCHANGED <<app, hints, libuvc_buffers, link, stream, asked>>

-----------------------------------------------------------------------------
(* apply_max_payload() and the clean re-negotiation it falls back to.      *)

F_CleanUnrecorded == Probed /\ UNCHANGED max_payload_effective

\* negotiate_clean_payload(): one probe without the override.
CleanSucceeds ==
    /\ Probed
    /\ max_payload_effective' = link.default

\* The control block keeps what the failed probes left in it, and the
\* effective value what an earlier negotiation recorded.
CleanFails ==
    /\ \E left \in {dwMaxPayloadTransferSize, link.default,
                    Clamp(max_payload, MAX_PAYLOAD_MIN_LEGAL, MAX_PAYLOAD_MAX)} :
           dwMaxPayloadTransferSize' = left
    /\ unclean' = TRUE
    /\ UNCHANGED <<max_payload_effective, proven>>

Honoured(clamped) ==
    /\ dwMaxPayloadTransferSize' = clamped /\ proven' = clamped
    /\ max_payload_effective' = clamped
    /\ unclean' = FALSE

F_NoReadBack(clamped) ==
    /\ dwMaxPayloadTransferSize' = clamped /\ max_payload_effective' = clamped
    /\ UNCHANGED <<proven, unclean>>

\* The device refuses the value or answers another: the probe failed, or its
\* read-back differs.
NotHonoured(clamped) ==
    \/ CleanSucceeds
    \/ CleanFails

\* Unset: no write to the device, its own value is recorded.
Unset ==
    /\ max_payload_effective' = dwMaxPayloadTransferSize
    /\ UNCHANGED <<dwMaxPayloadTransferSize, proven, unclean>>

ApplyMaxPayload ==
    /\ pc = "payload"
    /\ IF max_payload = 0 THEN Unset
       ELSE LET clamped == Clamp(max_payload, MAX_PAYLOAD_MIN_LEGAL,
                                 MAX_PAYLOAD_MAX)
            IN  Honoured(clamped) \/ NotHonoured(clamped)
    /\ asked' = [asked EXCEPT !.payload = max_payload # 0]
    /\ pc' = IF goal = "live" THEN "running" ELSE "buffers"
    /\ choice' = NoChoice
    /\ UNCHANGED <<app, transfer_buffers_effective, libuvc_buffers, link, goal,
                   stream>>

-----------------------------------------------------------------------------
(* apply_transfer_buffers() and the start of the stream.                   *)

\* The fork accepts the clamped count, or refuses it and keeps its default.
SetCount ==
    LET clamped == Clamp(transfer_buffers, TRANSFER_BUFFERS_MIN,
                         TRANSFER_BUFFERS_MAX)
    IN  \/ libuvc_buffers' = clamped /\ transfer_buffers_effective' = clamped
        \/ UNCHANGED <<libuvc_buffers, transfer_buffers_effective>>

ApplyTransferBuffers ==
    /\ pc = "buffers"
    /\ IF transfer_buffers = 0
       THEN UNCHANGED <<libuvc_buffers, transfer_buffers_effective>>
       ELSE SetCount
    /\ asked' = [asked EXCEPT !.buffers = transfer_buffers # 0]
    /\ pc' = "start"
    /\ UNCHANGED <<app, max_payload_effective, dwMaxPayloadTransferSize, link,
                   goal, stream, choice, proven, unclean>>

\* uvc_start_streaming() commits the control block without reading it back.
Starts == dwMaxPayloadTransferSize <= link.limit

Running ==
    /\ stream' = [payload  |-> dwMaxPayloadTransferSize,
                  buffers  |-> libuvc_buffers,
                  verified |-> dwMaxPayloadTransferSize = proven,
                  unclean  |-> unclean,
                  asked    |-> asked]
    /\ pc' = "running"

StartStreaming ==
    /\ pc = "start"
    /\ \/ Starts /\ Running
       \/ /\ ~Starts /\ stream' = stream
          /\ pc' = IF goal = "reopen" THEN "reopen" ELSE "failed"
    /\ UNCHANGED <<app, hints, dwMaxPayloadTransferSize, libuvc_buffers, link,
                   goal, choice, history>>

F_NoFallback == FALSE

FallbackWanted == max_payload # 0

\* create() reads the request once more, and only a set one is reverted.
Fallback ==
    /\ pc = "failed" /\ FallbackWanted
    /\ CleanSucceeds \/ CleanFails
    /\ asked' = [asked EXCEPT !.payload = max_payload # 0]
    /\ pc' = IF unclean' THEN "refused" ELSE "restart"
    /\ UNCHANGED <<app, transfer_buffers_effective, libuvc_buffers, link, goal,
                   stream, choice>>

NoFallback ==
    /\ pc = "failed" /\ ~FallbackWanted
    /\ asked' = [asked EXCEPT !.payload = max_payload # 0]
    /\ pc' = "refused"
    /\ UNCHANGED <<app, hints, dwMaxPayloadTransferSize, libuvc_buffers, link,
                   goal, stream, choice, proven, unclean>>

Restart ==
    /\ pc = "restart"
    /\ \/ Starts /\ Running
       \/ ~Starts /\ stream' = stream /\ pc' = "refused"
    /\ UNCHANGED <<app, hints, dwMaxPayloadTransferSize, libuvc_buffers, link,
                   goal, choice, history>>

-----------------------------------------------------------------------------
(* A recovery: the handle is torn down, and reopen_once() arms another.    *)

Lost ==
    /\ pc = "running"
    /\ pc' = "reopen" /\ goal' = "reopen" /\ stream' = NoStream
    /\ UNCHANGED <<app, hints, dwMaxPayloadTransferSize, libuvc_buffers, link,
                   choice, history>>

F_NoReprobe == UNCHANGED <<dwMaxPayloadTransferSize, proven, unclean>>

\* One format probe with the negotiated geometry, without a retry.
Reprobe ==
    /\ dwMaxPayloadTransferSize' = link'.default
    /\ proven' = link'.default /\ unclean' = FALSE

Reopen ==
    /\ pc = "reopen"
    /\ FreshHandle
    /\ Reprobe
    /\ pc' = "payload"
    /\ UNCHANGED <<app, hints, goal, stream, choice, asked>>

\* The handle did not open, the probe failed or the budget was spent.
ReopenFails ==
    /\ pc = "reopen"
    /\ pc' \in {"reopen", "error"}
    /\ UNCHANGED <<app, hints, dwMaxPayloadTransferSize, libuvc_buffers, link,
                   goal, stream, choice, history>>

-----------------------------------------------------------------------------

Next ==
    \/ SetMaxPayload \/ SetTransferBuffers \/ Open \/ Stop
    \/ Negotiate \/ ApplyMaxPayload \/ ApplyTransferBuffers
    \/ StartStreaming \/ Fallback \/ NoFallback \/ Restart
    \/ Lost \/ Reopen \/ ReopenFails

Spec == Init /\ [][Next]_vars

-----------------------------------------------------------------------------
(* Properties: the mode.                                                   *)

\* The advertised modes and rates that the cap and the peer both leave.
Acceptable(limit, camera, peer) ==
    {p \in ToSet(camera.modes) \X UNION {m.rates : m \in ToSet(camera.modes)} :
        /\ p[1].codec \in peer.codecs /\ <<p[1].w, p[1].h>> \in peer.frames
        /\ p[1].kind # "zero" /\ p[2] \in p[1].rates /\ p[2] \in peer.rates
        /\ limit # 0 => Pixels(p[1]) * p[2] <= limit}

\* negotiate() picks a mode and a rate that the camera advertises, that its
\* quirk row lets it deliver and that downstream accepts, and of these none
\* has a larger picture; it finds none only when there is none.
LargestDeliverable ==
    choice # NoChoice =>
        LET limit == QuirkLimit(QuirkTable, choice.camera.id)
            all   == Acceptable(limit, choice.camera, choice.peer)
            best  == choice.best
        IN  IF best = NoMode THEN all = {}
            ELSE /\ \E p \in all : /\ p[1].codec = best.codec /\ p[1].w = best.w
                                   /\ p[1].h = best.h /\ p[2] = best.rate
                 /\ \A p \in all : Pixels(p[1]) <= Pixels(best)

Pinned(m, r) == [codecs |-> {m.codec}, frames |-> {<<m.w, m.h>>}, rates |-> {r}]

\* A caller that pins any mode and rate of the published ladder gets exactly
\* that: the modes offered and the modes accepted do not drift apart.  (A mode
\* slower than one frame per second is offered and refused.)
OfferedIsAccepted ==
    choice # NoChoice =>
        \A m \in ToSet(choice.ladder) : \A r \in m.rates \ {0} :
            Select(Pinned(m, r), choice.ladder) =
                [codec |-> m.codec, w |-> m.w, h |-> m.h, rate |-> r]

(* Properties: the hints.                                                  *)

Payloads == 0..MAX_PAYLOAD_MAX \cup {l.default : l \in Links}
Buffers  == 0..TRANSFER_BUFFERS_MAX
Asked    == [payload : BOOLEAN, buffers : BOOLEAN]

TypeOK ==
    /\ max_payload \in PayloadRequests /\ transfer_buffers \in BufferRequests
    /\ max_payload_effective \in Payloads
    /\ transfer_buffers_effective \in Buffers
    /\ dwMaxPayloadTransferSize \in Payloads /\ libuvc_buffers \in Buffers
    /\ link \in Links
    /\ pc \in {"closed", "open", "payload", "buffers", "start", "failed",
              "restart", "running", "reopen", "refused", "error"}
    /\ goal \in {"first", "reopen", "live"}
    /\ stream \in {NoStream} \cup
           [payload : Payloads, buffers : Buffers, verified : BOOLEAN,
            unclean : BOOLEAN, asked : Asked]
    /\ choice \in {NoChoice} \cup Negotiations
    /\ proven \in Payloads /\ unclean \in BOOLEAN /\ asked \in Asked

\* A hint never keeps create() from starting a stream that would start
\* without it: it gives up only when the device's own payload does not fit the
\* link, the clean re-negotiation failed, or the app took the request back.
StartSurvivesHint ==
    pc = "refused" =>
        link.limit < link.default \/ unclean \/ ~asked.payload

\* What streams was read back from the device first, on this handle, unless
\* the clean re-negotiation failed; and a hint left unset leaves the device's
\* payload and libuvc's count alone, whatever an earlier session had set.
StreamIsVerified ==
    /\ TypeOK
    /\ stream # NoStream =>
        /\ stream.verified \/ stream.unclean
        /\ ~stream.asked.payload => stream.payload = link.default
        /\ ~stream.asked.buffers => stream.buffers = 0

\* get_property(): the effective value, when one was recorded.
ReadMaxPayload == IF max_payload_effective > 0 THEN max_payload_effective
                  ELSE max_payload
ReadTransferBuffers == IF transfer_buffers_effective > 0
                       THEN transfer_buffers_effective ELSE transfer_buffers

\* The properties read back what the stream runs with: the payload unless the
\* clean re-negotiation failed, the count whenever one was applied.  (A live
\* renegotiation reports the next stream's payload.)
ReadBackHonest ==
    pc = "running" /\ goal # "live" =>
        /\ ~stream.unclean => ReadMaxPayload = stream.payload
        /\ stream.buffers # 0 => ReadTransferBuffers = stream.buffers

-----------------------------------------------------------------------------
(* What the repository says and the code does not do.                      *)

\* "falls back to the device-negotiated payload here rather than failing the
\* reopen" (gstlibuvch264src.c:1725): reopen_once() has no fallback once the
\* start itself fails.
RearmStep ==
    pc = "start" /\ pc' = "reopen" => link.limit < link.default \/ unclean

RearmSurvivesHint == [][RearmStep]_vars

\* "Read-back reports the effective (clamped) value once applied; before that
\* it reports the requested value" (properties.md:57).
UnappliedReadsRequested ==
    pc = "running" /\ stream.buffers = 0 =>
        ReadTransferBuffers = transfer_buffers

\* "select the highest compatible resolution, at the highest supported
\* framerate" (gstlibuvch264src.c:693): a range loses to any list of its size,
\* and a restricted best is beaten by its own top rate.
HighestRate ==
    choice # NoChoice =>
        \A p \in Acceptable(QuirkLimit(QuirkTable, choice.camera.id),
                            choice.camera, choice.peer) :
            Pixels(p[1]) = Pixels(choice.best) => p[2] <= choice.best.rate
=============================================================================
