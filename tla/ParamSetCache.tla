--------------------------- MODULE ParamSetCache ---------------------------
(***************************************************************************)
(* The parameter-set cache: the element's copies of VPS, SPS and PPS, the  *)
(* files that outlive the process, and who writes which when.              *)
(*                                                                         *)
(* The callback thread latches in-band sets, prefixes keyframes with the   *)
(* copies and stores them: it takes the file's key under the object lock,  *)
(* opens the file, which truncates it, and writes.  The app changes the    *)
(* index and downstream makes the streaming thread renegotiate in between. *)
(* The process can die at any step; the files stay.                        *)
(*                                                                         *)
(* A set is known by where it came from: [model, mode].  A delivery holds  *)
(* any sets of its codec, of which those the element has no room for are   *)
(* refused.  Cameras of one model send equal sets.                         *)
(***************************************************************************)
EXTENDS DeviceSelect, FiniteSets

CONSTANTS
    Indexes,            \* texts of the index property
    Buses,              \* enumerations: sequences of devices
    Modes,              \* [codec, size]
    BuiltIn,            \* the sets of init(), of no camera
    Oversized,          \* [model, codec, kind]: empty, or over SPSPPSBUFSZ
    Deliveries,         \* the kinds of set one delivery may hold
    NoMode, NoCamera, NoEntry, NoPrefix, NoKey,
    MaxSessions,        \* handles opened, by start() or by a reconnect
    MaxDisturbances     \* index changes while a camera is open, and live
                        \* renegotiations

ASSUME BoundsAssumption ==
    MaxSessions \in Nat /\ MaxDisturbances \in Nat
ASSUME ModesAssumption ==
    Modes \subseteq [codec : {"h264", "h265"}, size : Nat]
ASSUME BusesAssumption ==
    \A b \in Buses : /\ DOMAIN b \subseteq Nat
                     /\ \A n \in DOMAIN b : b[n] # NoCamera

VARIABLES
    index, bus,
    phase,              \* "stopped", "open", "streaming" or "lost"
    camera,             \* the open device
    frame_format, negotiated_size,
    pending,            \* the mode a live renegotiation is about to record
    sets,               \* the element's copies, by kind
    had_idr, send_sps_pps,
    files,              \* <<index, mode>> to NoEntry, or the stored sets and,
                        \* as history, which of them belong to that key
    cb, key,            \* the callback thread's store, and the key it took
    running,            \* history: the mode the stream was started with
    moved,              \* history: the index changed since it was resolved
    renegotiated,       \* history: a live renegotiation began
    heard,              \* history: the kinds latched since the mode was set
    known,              \* history: those, and the kinds a good entry gave
    prefix,             \* history: the sets the last delivery's keyframe got
    sessions, disturbances

device   == <<index, bus, phase, camera>>
mode     == <<frame_format, negotiated_size, pending, running>>
gate     == <<had_idr, send_sps_pps>>
store    == <<files, cb, key>>
history  == <<moved, renegotiated, heard, known, prefix>>
counters == <<sessions, disturbances>>
vars     == <<device, mode, sets, gate, store, history, counters>>

Kinds(codec) ==
    IF codec = "h265" THEN {"vps", "sps", "pps"} ELSE {"sps", "pps"}

\* Every codec with every size: a live renegotiation can leave the format of
\* one mode beside the size of another.
Keys ==
    Indexes \X [codec : {m.codec : m \in Modes}, size : {m.size : m \in Modes}]

Model(d) == <<d.vid, d.pid>>
Own == [model |-> Model(camera), mode |-> running]

Init ==
    /\ index \in Indexes /\ bus \in Buses
    /\ phase = "stopped" /\ camera = NoCamera
    /\ frame_format = "h264" /\ negotiated_size = 0
    /\ pending = NoMode /\ running = NoMode
    /\ sets = [k \in Kinds("h265") |-> BuiltIn]
    /\ had_idr = FALSE /\ send_sps_pps = FALSE
    /\ files = [k \in Keys |-> NoEntry]
    /\ cb = "idle" /\ key = NoKey
    /\ moved = FALSE /\ renegotiated = FALSE /\ heard = {} /\ known = {}
    /\ prefix = NoPrefix
    /\ sessions = 0 /\ disturbances = 0

-----------------------------------------------------------------------------
(* The app and the bus.                                                    *)

Disturb ==
    /\ disturbances < MaxDisturbances
    /\ disturbances' = disturbances + 1

SetIndex ==
    /\ \E i \in Indexes \ {index} : index' = i
    /\ IF phase = "stopped" THEN UNCHANGED <<moved, disturbances>>
       ELSE Disturb /\ moved' = TRUE
    /\ UNCHANGED <<bus, phase, camera, mode, sets, gate, store, renegotiated,
                   heard, known, prefix, sessions>>

\* Only a resolve reads the enumeration: it changes where one is due.
Replug ==
    /\ phase \in {"stopped", "lost"}
    /\ \E b \in Buses \ {bus} : bus' = b
    /\ UNCHANGED <<index, phase, camera, mode, sets, gate, store, history,
                   counters>>

-----------------------------------------------------------------------------
(* The streaming thread.                                                   *)

\* start(): a malformed index or an absent device fails it and changes nothing.
Start ==
    /\ phase = "stopped" /\ sessions < MaxSessions
    /\ \E d \in resolve_device(index, bus) : camera' = d
    /\ phase' = "open"
    /\ had_idr' = FALSE /\ send_sps_pps' = FALSE
    /\ moved' = FALSE /\ renegotiated' = FALSE /\ heard' = {} /\ known' = {}
    /\ sessions' = sessions + 1
    /\ UNCHANGED <<index, bus, mode, sets, store, prefix, disturbances>>

F_NoResolution(i, codec, size) ==
    <<i, CHOOSE m \in Modes : m.codec = codec>>

\* spspps_build_path(): index, codec and size, injectively.
build_path(i, codec, size) == <<i, [codec |-> codec, size |-> size]>>

\* An entry that holds nothing leaves the copies as they are.
Loaded(entry) ==
    [k \in DOMAIN sets |-> IF entry # NoEntry /\ k \in DOMAIN entry.sets
                           THEN entry.sets[k] ELSE sets[k]]

load_spspps(m) ==
    LET entry == files[build_path(index, m.codec, m.size)]
    IN  sets' = Loaded(entry)

\* What a store of this index may be trusted for: a selector that names the
\* same camera after a replug.
Stable(i) == parse_selector(i).type \in {"vidpid", "serial"}

Trusted(m) ==
    LET entry == files[build_path(index, m.codec, m.size)]
    IN  {k \in Kinds(m.codec) : /\ Stable(index) /\ ~moved
                                /\ entry # NoEntry /\ k \in entry.own}

\* negotiate() before the stream, and the start of the stream.
Negotiate ==
    /\ phase = "open"
    /\ \E m \in Modes :
           /\ frame_format' = m.codec /\ negotiated_size' = m.size
           /\ running' = m
           /\ load_spspps(m)
           /\ heard' = {} /\ known' = Trusted(m)
    /\ phase' = "streaming"
    /\ UNCHANGED <<index, bus, camera, pending, gate, store, moved,
                   renegotiated, prefix, counters>>

\* negotiate() under a running stream: the format first, the size and the
\* load after the probe, the device's mode not at all.
Renegotiate ==
    /\ phase = "streaming" /\ pending = NoMode
    /\ Disturb
    /\ \E m \in Modes : pending' = m /\ frame_format' = m.codec
    /\ renegotiated' = TRUE
    /\ UNCHANGED <<device, negotiated_size, running, sets, gate, store, moved,
                   heard, known, prefix, sessions>>

RenegotiateRecords ==
    /\ pending # NoMode
    /\ negotiated_size' = pending.size
    /\ load_spspps(pending)
    /\ pending' = NoMode
    /\ UNCHANGED <<device, frame_format, running, gate, store, history,
                   counters>>

RenegotiateFails ==
    /\ pending # NoMode
    /\ pending' = NoMode
    /\ UNCHANGED <<device, frame_format, negotiated_size, running, sets, gate,
                   store, history, counters>>

\* A reconnect closes the handle, which joins the callback thread, and reopens
\* whatever the index finds now, in the mode negotiated before.
Lost ==
    /\ phase = "streaming" /\ pending = NoMode /\ cb = "idle"
    /\ phase' = "lost"
    /\ UNCHANGED <<index, bus, camera, mode, sets, gate, store, history,
                   counters>>

Unchanged(d) == ~renegotiated /\ Model(d) = Model(camera)

Reopen ==
    /\ phase = "lost" /\ sessions < MaxSessions
    /\ sessions' = sessions + 1
    /\ \E d \in resolve_device(index, bus) :
           /\ camera' = d
           /\ heard' = {k \in heard : Unchanged(d)}
           /\ known' = {k \in known : Unchanged(d)}
    /\ running' = [codec |-> frame_format, size |-> negotiated_size]
    /\ phase' = "streaming"
    /\ had_idr' = FALSE /\ send_sps_pps' = FALSE
    /\ moved' = FALSE /\ renegotiated' = FALSE /\ prefix' = NoPrefix
    /\ UNCHANGED <<index, bus, frame_format, negotiated_size, pending, sets,
                   store, disturbances>>

Forgotten ==
    /\ moved' = FALSE /\ renegotiated' = FALSE /\ heard' = {} /\ known' = {}
    /\ prefix' = NoPrefix

\* stop() joins the callback thread; the copies stay.
Stop ==
    /\ phase # "stopped" /\ pending = NoMode /\ cb = "idle"
    /\ phase' = "stopped" /\ camera' = NoCamera /\ running' = NoMode
    /\ Forgotten
    /\ UNCHANGED <<index, bus, frame_format, negotiated_size, pending, sets,
                   gate, store, counters>>

\* The process dies; the next one starts from init() and the files.
Crash ==
    /\ phase # "stopped"
    /\ phase' = "stopped" /\ camera' = NoCamera /\ running' = NoMode
    /\ pending' = NoMode /\ frame_format' = "h264" /\ negotiated_size' = 0
    /\ sets' = [k \in DOMAIN sets |-> BuiltIn]
    /\ had_idr' = FALSE /\ send_sps_pps' = FALSE
    /\ cb' = "idle" /\ key' = NoKey
    /\ Forgotten
    /\ UNCHANGED <<index, bus, files, counters>>

-----------------------------------------------------------------------------
(* The callback thread.                                                    *)

\* cache_parameter_set() refuses an empty or oversized set outright.
Kept(carried) ==
    {k \in carried : [model |-> Model(camera), codec |-> running.codec,
                      kind |-> k] \notin Oversized}

F_LengthOnly(kinds) ==
    [k \in DOMAIN sets |-> IF k \in kinds /\ sets[k] = BuiltIn
                           THEN Own ELSE sets[k]]

\* It latches the others one by one, so a copy may be left beside them that
\* is no set of this camera.
Latched(kinds) == [k \in DOMAIN sets |-> IF k \in kinds THEN Own ELSE sets[k]]

\* A delivery of the other codec holds no unit the scan takes for a set or a
\* keyframe: its slices are too long for one.
Deliver ==
    /\ phase = "streaming" /\ cb = "idle"
    /\ \E carried \in Deliveries, idr \in BOOLEAN :
           LET ours     == frame_format = running.codec
               latched  == IF ours THEN Kept(carried) ELSE {}
               send     == send_sps_pps \/ latched # {}
               keyframe == idr /\ ours
               prefixed == keyframe /\ (~had_idr \/ send)
           IN  /\ carried \subseteq Kinds(frame_format)
               /\ sets' = Latched(latched)
               /\ cb' = IF sets' # sets THEN "updated" ELSE "idle"
               /\ heard' = heard \cup latched
               /\ known' = known \cup latched
               /\ had_idr' = (had_idr \/ keyframe)
               /\ send_sps_pps' = (send /\ ~prefixed)
               /\ prefix' = IF ~prefixed THEN NoPrefix
                            ELSE [sets  |-> [k \in Kinds(frame_format) |->
                                                 sets'[k]],
                                  own   |-> Own,
                                  whole |-> carried = Kinds(frame_format),
                                  known |-> {k \in known' : ~renegotiated}]
    /\ UNCHANGED <<device, mode, files, key, moved, renegotiated, counters>>

\* spspps_key_snapshot(), under the object lock.
TakeKey ==
    /\ cb = "updated"
    /\ key' = [path  |-> build_path(index, frame_format, negotiated_size),
               codec |-> frame_format, moved |-> moved]
    /\ cb' = "keyed"
    /\ UNCHANGED <<device, mode, sets, gate, files, history, counters>>

\* fopen(): it truncates, or it fails and these sets are not tried again.
OpenFile ==
    /\ cb = "keyed"
    /\ \/ /\ files' = [files EXCEPT ![key.path] =
                           [sets |-> [k \in {} |-> BuiltIn], own |-> {}]]
          /\ cb' = "opened" /\ UNCHANGED key
       \/ /\ files' = files
          /\ cb' = "idle" /\ key' = NoKey
    /\ UNCHANGED <<device, mode, sets, gate, history, counters>>

\* The sets are few bytes: they reach the file at fclose(), all or none.
WriteFile ==
    /\ cb = "opened"
    /\ \/ files' = [files EXCEPT ![key.path] =
                        [sets |-> [k \in Kinds(key.codec) |-> sets[k]],
                         own  |-> {k \in Kinds(key.codec) :
                                       /\ ~key.moved /\ ~renegotiated
                                       /\ k \in heard}]]
       \/ files' = files
    /\ cb' = "idle" /\ key' = NoKey
    /\ UNCHANGED <<device, mode, sets, gate, history, counters>>

-----------------------------------------------------------------------------

Next ==
    \/ SetIndex \/ Replug
    \/ Start \/ Negotiate \/ Renegotiate \/ RenegotiateRecords
    \/ RenegotiateFails \/ Lost \/ Reopen \/ Stop \/ Crash
    \/ Deliver \/ TakeKey \/ OpenFile \/ WriteFile

Spec == Init /\ [][Next]_vars

-----------------------------------------------------------------------------
(* Properties.                                                             *)

\* A mode a stream can run in: a failed renegotiation leaves the codec of one
\* mode with the size of another, and a reconnect may find a camera for it.
Mixed   == [codec : {m.codec : m \in Modes}, size : {m.size : m \in Modes}]
Devices == UNION {{b[n] : n \in DOMAIN b} : b \in Buses}
Heard   == [model : {Model(d) : d \in Devices}, mode : Mixed]
Sets    == {BuiltIn} \cup Heard
Taken   == [path : Keys, codec : {"h264", "h265"}, moved : BOOLEAN]

ASSUME NullsAssumption == BuiltIn \notin Heard /\ NoKey \notin Taken

Entry(e) ==
    /\ e.own \subseteq DOMAIN e.sets /\ DOMAIN e.sets \subseteq Kinds("h265")
    /\ \A s \in DOMAIN e.sets : e.sets[s] \in Sets

TypeOK ==
    /\ index \in Indexes /\ bus \in Buses
    /\ phase \in {"stopped", "open", "streaming", "lost"}
    /\ camera \in Devices \cup {NoCamera}
    /\ camera = NoCamera <=> phase = "stopped"
    /\ frame_format \in {"h264", "h265"}
    /\ negotiated_size \in {0} \cup {m.size : m \in Modes}
    /\ pending \in Modes \cup {NoMode} /\ running \in Mixed \cup {NoMode}
    /\ sets \in [Kinds("h265") -> Sets]
    /\ had_idr \in BOOLEAN /\ send_sps_pps \in BOOLEAN
    /\ DOMAIN files = Keys
    /\ \A k \in Keys : files[k] = NoEntry \/ Entry(files[k])
    /\ cb \in {"idle", "updated", "keyed", "opened"}
    /\ key = NoKey <=> cb \in {"idle", "updated"}
    /\ moved \in BOOLEAN /\ renegotiated \in BOOLEAN
    /\ heard \subseteq Kinds("h265") /\ known \subseteq Kinds("h265")
    /\ sessions \in 0..MaxSessions /\ disturbances \in 0..MaxDisturbances

\* The devices any enumeration shows that the text of an index names.
Named(i) ==
    {d \in Devices :
        selector_matches(parse_selector(i), d, 0)}

\* Whatever crashed, was moved or reopened: an entry holds nothing or a set of
\* every kind of the key's codec; and a set that was latched from the stream,
\* before an index change or a renegotiation, is one of the key's mode, from a
\* camera the key names.  A kind whose set was refused, or has not come yet,
\* is stored as the copy happens to be, and nothing is claimed of it.
EntryMatchesKey ==
    /\ TypeOK
    /\ \A k \in Keys :
        LET entry == files[k] IN
        entry # NoEntry =>
            /\ DOMAIN entry.sets \in {{}, Kinds(k[2].codec)}
            /\ \A s \in entry.own :
                   /\ entry.sets[s] # BuiltIn
                   /\ entry.sets[s].mode = k[2]
                   /\ Stable(k[1]) =>
                          \E d \in Named(k[1]) : entry.sets[s].model = Model(d)

\* In a keyframe's prefix, each set that was latched from the stream, or came
\* from an entry where it was, is of the camera and the mode the keyframe
\* comes from.  Again, nothing is claimed of a kind that was refused.
PrefixIsOwn ==
    prefix # NoPrefix =>
        \A s \in DOMAIN prefix.sets :
            s \in prefix.known => prefix.sets[s] = prefix.own

-----------------------------------------------------------------------------
(* What the repository says and the code does not do.                      *)

\* "a cache entry written for one resolution can never be loaded for a
\* different one" (spspps_path.h:28): a live renegotiation changes the key of
\* a stream that keeps its mode.
ResolutionKeyed ==
    \A k \in Keys : files[k] # NoEntry =>
        \A s \in DOMAIN files[k].sets :
            files[k].sets[s] = BuiltIn \/ files[k].sets[s].mode = k[2]

\* "distinct selectors [...] always map to DISTINCT keys", so that cameras no
\* longer share a file (spspps_path.h:19): the key is the index of the moment,
\* not the one the camera was found by.
SelectorsKeptApart ==
    \A k \in Keys : files[k] # NoEntry /\ Stable(k[1]) =>
        \A s \in DOMAIN files[k].sets :
            \/ files[k].sets[s] = BuiltIn
            \/ \E d \in Named(k[1]) : files[k].sets[s].model = Model(d)

\* "The SPS/PPS cache file must be written on the first (changed) parameter
\* set" (test_live_source.c:17): changed against the copies, which outlive the
\* key, so a key without a file may stay without one.
FirstHeardStep ==
    phase = "streaming" /\ known = {} /\ known' # {} =>
        \/ cb' = "updated"
        \/ files[build_path(index, frame_format, negotiated_size)] # NoEntry

NewKeyStored == [][FirstHeardStep]_vars

\* "the parameter sets are always re-prepended in band"
\* (frame_pipeline.c:247-248): of a delivery with all its sets, one that is
\* refused is replaced by the built-in copy, or by another camera's.
WholeDeliveryIsPrefixed ==
    prefix # NoPrefix /\ prefix.whole =>
        \A s \in DOMAIN prefix.sets : prefix.sets[s] = prefix.own
=============================================================================
