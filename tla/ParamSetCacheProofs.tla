------------------------ MODULE ParamSetCacheProofs ------------------------
(***************************************************************************)
(* What holds of ParamSetCache for every set of cameras, selectors and     *)
(* modes, whatever sets are refused and however often the process dies: a  *)
(* stored set that was latched is what its key says, and so is one that a  *)
(* keyframe is prefixed with.                                              *)
(***************************************************************************)
EXTENDS ParamSetCache, NaturalsInduction, WellFoundedInduction, TLAPS

\* A selector that a replug does not turn to another camera.
Names(i, d) == selector_matches(parse_selector(i), d, 0)

Live == phase \in {"streaming", "lost"}

\* Which modes there are to speak of, and what the callback thread may rely
\* on: a store in progress has a stream under it, and without a renegotiation
\* the element's mode is the stream's.
PhaseInv ==
    /\ Live => /\ running \in Mixed
               /\ frame_format \in {m.codec : m \in Modes}
               /\ negotiated_size \in {m.size : m \in Modes}
    /\ Live /\ ~renegotiated =>
           running = [codec |-> frame_format, size |-> negotiated_size]
    /\ pending # NoMode => phase = "streaming" /\ renegotiated
    /\ phase = "open" => ~renegotiated
    /\ cb # "idle" => phase = "streaming"

\* The index names the open camera until one of the two changes; so does the
\* key that was taken from it, which no later change of the index touches.
FoundInv ==
    phase # "stopped" /\ ~moved /\ Stable(index) => Names(index, camera)

KeyInv ==
    cb \in {"keyed", "opened"} =>
        /\ key \in Taken
        /\ ~key.moved /\ Stable(key.path[1]) => Names(key.path[1], camera)
        /\ key.codec = key.path[2].codec
        /\ ~renegotiated => key.path[2] = running

OwnCopies(kinds) == \A k \in kinds : sets[k] = Own

\* What was latched stays the camera's, with whatever a refused set left
\* beside it, until a renegotiation.
HeardInv == Live /\ ~renegotiated => OwnCopies(heard)

CacheInv ==
    PhaseInv /\ FoundInv /\ KeyInv /\ HeardInv /\ EntryMatchesKey

\* So does what was loaded from an entry to be trusted.
KnownInv == Live /\ ~renegotiated => OwnCopies(known)

PrefixInv == CacheInv /\ KnownInv /\ PrefixIsOwn
-----------------------------------------------------------------------------
(* Lemmas: the devices.                                                    *)

\* A set of positions has a first one.
LEMMA MinIsMember ==
    ASSUME NEW S, S \subseteq Nat, S # {} PROVE Min(S) \in S
<1>1. PICK x \in S : \A y \in S : ~(<<y, x>> \in OpToRel(<, Nat))
  BY NatLessThanWellFounded, WFMin
<1>2. ASSUME NEW y \in S PROVE x <= y
  <2>1. ~(y < x)
    <3> SUFFICES ASSUME y < x PROVE FALSE
      OBVIOUS
    <3>1. <<y, x>> \in Nat \X Nat /\ <<y, x>>[1] < <<y, x>>[2]
      OBVIOUS
    <3>2. <<y, x>> \in OpToRel(<, Nat)
      BY <3>1, Zenon DEF OpToRel
    <3> QED
      BY <1>1, <3>2
  <2>2. x \in Nat /\ y \in Nat
    OBVIOUS
  <2> QED
    BY <2>1, <2>2
<1> QED
  BY <1>2 DEF Min

\* A vid:pid or a serial matches a device wherever it is enumerated.
LEMMA StableMatches ==
    ASSUME NEW i, NEW d, NEW n, Stable(i),
           selector_matches(parse_selector(i), d, n)
    PROVE  Names(i, d)
BY DEF Stable, Names, selector_matches

\* What a resolve opens is a device of the enumeration, and one its selector
\* goes on naming.
LEMMA ResolvedIsNamed ==
    ASSUME NEW i, NEW b \in Buses, NEW d \in resolve_device(i, b)
    PROVE  d \in Devices /\ d # NoCamera /\ (Stable(i) => Names(i, d))
<1> DEFINE hits == {n \in DOMAIN b :
                        selector_matches(parse_selector(i), b[n], n - 1)}
<1>1. hits # {} /\ d = b[Min(hits)]
  BY DEF resolve_device
<1>2. Min(hits) \in hits
  BY <1>1, MinIsMember, BusesAssumption
<1>3. PICK n \in DOMAIN b : d = b[n] /\ n = Min(hits)
  BY <1>1, <1>2
<1>4. selector_matches(parse_selector(i), d, n - 1)
  BY <1>2, <1>3
<1>5. Stable(i) => Names(i, d)
  BY <1>4, StableMatches
<1>6. d \in Devices /\ d # NoCamera
  BY <1>3, BusesAssumption DEF Devices
<1> QED
  BY <1>5, <1>6

-----------------------------------------------------------------------------
(* Lemmas: the types.                                                      *)

CodecsSeen == {m.codec : m \in Modes}
SizesSeen  == {m.size : m \in Modes}

\* A mode is its codec and its size, and there is a key for each pair.
LEMMA ModeFacts ==
    /\ CodecsSeen \subseteq {"h264", "h265"}
    /\ \A m \in Modes : /\ m \in Mixed /\ m.codec \in CodecsSeen
                        /\ m.size \in SizesSeen
                        /\ m = [codec |-> m.codec, size |-> m.size]
    /\ \A c \in CodecsSeen, z \in SizesSeen :
           [codec |-> c, size |-> z] \in Mixed
    /\ \A x \in Mixed : x.codec \in CodecsSeen /\ x.size \in SizesSeen
    /\ Keys = Indexes \X Mixed
  BY ModesAssumption DEF CodecsSeen, SizesSeen, Mixed, Keys

\* spspps_build_path() keeps what it is given apart.
LEMMA PathParts ==
    ASSUME NEW i \in Indexes, NEW c \in CodecsSeen, NEW z \in SizesSeen
    PROVE  /\ build_path(i, c, z) \in Keys
           /\ build_path(i, c, z)[1] = i
           /\ build_path(i, c, z)[2] = [codec |-> c, size |-> z]
  BY ModeFacts DEF build_path

\* A file name is an index and a mode, whose codec build_path() spells out.
LEMMA KeyParts ==
    ASSUME NEW k \in Keys
    PROVE  /\ k[1] \in Indexes /\ k[2] \in Mixed
           /\ k[2].codec \in {"h264", "h265"}
  BY ModeFacts

\* H.264 has no set that H.265 lacks.
LEMMA KindsOf == \A c : Kinds(c) \subseteq Kinds("h265")
  BY DEF Kinds

\* What a stream carries is a set of its camera and mode.
LEMMA OwnIsHeard ==
    ASSUME CacheInv, Live
    PROVE  /\ Own \in Heard /\ Own # BuiltIn
           /\ Own.model = Model(camera) /\ Own.mode = running
<1>1. camera \in Devices /\ running \in Mixed
  BY DEF CacheInv, PhaseInv, EntryMatchesKey, TypeOK, Live
<1> QED
  BY <1>1, NullsAssumption DEF Own, Heard

\* A load leaves sets where there were sets, whatever the file holds.
LEMMA LoadTypes ==
    ASSUME TypeOK, NEW m \in Modes, load_spspps(m)
    PROVE  sets' \in [Kinds("h265") -> Sets]
<1> DEFINE entry == files[build_path(index, m.codec, m.size)]
<1>1. build_path(index, m.codec, m.size) \in Keys
  BY ModeFacts, PathParts DEF TypeOK
<1>2. entry = NoEntry \/ Entry(entry)
  BY <1>1 DEF TypeOK
<1>3. sets' = Loaded(entry)
  BY DEF load_spspps
<1> HIDE DEF entry
<1> QED
  BY <1>2, <1>3 DEF TypeOK, Loaded, Entry

\* A key is what the callback thread takes while it stores, and nothing else.
LEMMA KeyTypes ==
    ASSUME CacheInv, TakeKey
    PROVE  /\ key' \in Taken /\ key' # NoKey
           /\ key'.path[1] = index
           /\ key'.path[2] = [codec |-> frame_format, size |-> negotiated_size]
           /\ key'.codec = frame_format
           /\ key'.moved = moved
<1>1. /\ frame_format \in CodecsSeen /\ negotiated_size \in SizesSeen
      /\ index \in Indexes /\ moved \in BOOLEAN
  BY DEF CacheInv, PhaseInv, EntryMatchesKey, TypeOK, TakeKey, Live,
         CodecsSeen, SizesSeen
<1>2. key' = [path  |-> build_path(index, frame_format, negotiated_size),
              codec |-> frame_format, moved |-> moved]
  BY DEF TakeKey
<1> QED
  BY <1>1, <1>2, ModeFacts, PathParts, NullsAssumption DEF Taken

\* Every entry of the files keeps its form: emptied, written or untouched.
LEMMA FileTypes ==
    ASSUME TypeOK, NEW p, NEW e, Entry(e), files' = [files EXCEPT ![p] = e]
    PROVE  /\ DOMAIN files' = Keys
           /\ \A k \in Keys : files'[k] = NoEntry \/ Entry(files'[k])
           /\ \A k \in Keys : k # p => files'[k] = files[k]
           /\ \A k \in Keys : k = p => files'[k] = e
  BY DEF TypeOK

Emptied == [sets |-> [k \in {} |-> BuiltIn], own |-> {}]
Latches == {k \in Kinds(key.codec) :
                ~key.moved /\ ~renegotiated /\ k \in heard}
Written == [sets |-> [k \in Kinds(key.codec) |-> sets[k]], own |-> Latches]

\* The file that fopen() truncates, and the one that fclose() leaves.
LEMMA EntryTypes ==
    ASSUME TypeOK, key \in Taken
    PROVE  /\ Entry(Emptied) /\ DOMAIN Emptied.sets = {} /\ Emptied.own = {}
           /\ Entry(Written) /\ DOMAIN Written.sets = Kinds(key.codec)
           /\ \A k \in Kinds(key.codec) : Written.sets[k] = sets[k]
           /\ Written.own = Latches
<1>1. Entry(Emptied) /\ DOMAIN Emptied.sets = {} /\ Emptied.own = {}
  BY DEF Entry, Emptied
<1>2. Latches \subseteq Kinds(key.codec)
  BY DEF Latches
<1>3. /\ Written.sets = [k \in Kinds(key.codec) |-> sets[k]]
      /\ Written.own = Latches
  BY DEF Written
<1>4. /\ Entry(Written) /\ DOMAIN Written.sets = Kinds(key.codec)
      /\ \A k \in Kinds(key.codec) : Written.sets[k] = sets[k]
  BY <1>2, <1>3, KindsOf DEF TypeOK, Entry
<1> QED
  BY <1>1, <1>3, <1>4

\* One delivery: the sets it holds are latched but for the refused ones, the
\* other copies stay, only a change starts a store, and the prefix is what the
\* copies are by now.
LEMMA DeliverFacts ==
    ASSUME CacheInv, Deliver
    PROVE  \E latched \in SUBSET Kinds("h265") :
           /\ phase = "streaming" /\ cb = "idle"
           /\ Own' = Own /\ UNCHANGED <<phase, renegotiated>>
           /\ sets' = Latched(latched)
           /\ sets' \in [Kinds("h265") -> Sets]
           /\ heard' = heard \cup latched /\ known' = known \cup latched
           /\ had_idr' \in BOOLEAN /\ send_sps_pps' \in BOOLEAN
           /\ cb' \in {"idle", "updated"}
           /\ \/ prefix' = NoPrefix
              \/ /\ DOMAIN prefix'.sets \subseteq Kinds("h265")
                 /\ \A k \in DOMAIN prefix'.sets : prefix'.sets[k] = sets'[k]
                 /\ prefix'.own = Own
                 /\ \A k \in prefix'.known : k \in known' /\ ~renegotiated
<1> USE DEF device, mode, history, counters
<1>1. PICK carried \in Deliveries, idr \in BOOLEAN :
          LET ours     == frame_format = running.codec
              latched  == IF ours THEN Kept(carried) ELSE {}
              send     == send_sps_pps \/ latched # {}
              keyframe == idr /\ ours
              prefixed == keyframe /\ (~had_idr \/ send)
          IN  /\ carried \subseteq Kinds(frame_format)
              /\ sets' = Latched(latched)
              /\ cb' = IF sets' # sets THEN "updated" ELSE "idle"
              /\ heard' = heard \cup latched
              /\ known' = known \cup latched
              /\ had_idr' = (had_idr \/ keyframe)
              /\ send_sps_pps' = (send /\ ~prefixed)
              /\ prefix' = IF ~prefixed THEN NoPrefix
                           ELSE [sets  |-> [k \in Kinds(frame_format) |->
                                                sets'[k]],
                                 own   |-> Own,
                                 whole |-> carried = Kinds(frame_format),
                                 known |-> {k \in known' : ~renegotiated}]
  BY DEF Deliver
<1> DEFINE ours     == frame_format = running.codec
           latched  == IF ours THEN Kept(carried) ELSE {}
           send     == send_sps_pps \/ latched # {}
           keyframe == idr /\ ours
           prefixed == keyframe /\ (~had_idr \/ send)
<1>2. /\ phase = "streaming" /\ cb = "idle"
      /\ UNCHANGED <<phase, renegotiated, running, camera>>
  BY DEF Deliver
<1>3. Own' = Own
  BY <1>2 DEF Own
<1>4. sets \in [Kinds("h265") -> Sets] /\ Own \in Sets
  BY <1>2, OwnIsHeard DEF Live, CacheInv, EntryMatchesKey, TypeOK, Sets
<1>5. latched \in SUBSET Kinds("h265")
  BY <1>1, KindsOf DEF Kept
<1>6. had_idr' \in BOOLEAN /\ send_sps_pps' \in BOOLEAN
  <2>1. had_idr' = (had_idr \/ keyframe)
    BY <1>1
  <2>2. send_sps_pps' = (send /\ ~prefixed)
    BY <1>1
  <2> HIDE DEF latched, keyframe, send, prefixed
  <2> QED
    BY <2>1, <2>2, Zenon
<1>7. /\ sets' = Latched(latched)
      /\ heard' = heard \cup latched /\ known' = known \cup latched
      /\ cb' \in {"idle", "updated"}
  BY <1>1
<1>8. \/ prefix' = NoPrefix
      \/ /\ DOMAIN prefix'.sets \subseteq Kinds("h265")
         /\ \A k \in DOMAIN prefix'.sets : prefix'.sets[k] = sets'[k]
         /\ prefix'.own = Own
         /\ \A k \in prefix'.known : k \in known' /\ ~renegotiated
  <2>1. CASE ~prefixed
    BY <1>1, <2>1
  <2>2. CASE prefixed
    <3>1. prefix' = [sets  |-> [k \in Kinds(frame_format) |-> sets'[k]],
                     own   |-> Own,
                     whole |-> carried = Kinds(frame_format),
                     known |-> {k \in known' : ~renegotiated}]
      BY <1>1, <2>2
    <3> HIDE DEF ours, latched, send, keyframe, prefixed
    <3>2. /\ prefix'.sets = [k \in Kinds(frame_format) |-> sets'[k]]
          /\ prefix'.own = Own
          /\ prefix'.known = {k \in known' : ~renegotiated}
      BY <3>1, Zenon
    <3> QED
      BY <3>2, KindsOf
  <2> QED
    BY <2>1, <2>2
<1> HIDE DEF ours, latched, send, keyframe, prefixed
<1>9. sets' \in [Kinds("h265") -> Sets]
  BY <1>4, <1>7 DEF Latched
<1> QED
  BY <1>2, <1>3, <1>5, <1>6, <1>7, <1>8, <1>9

\* What is latched from here on is the camera's, and so is what was before.
LEMMA LatchKeepsOwn ==
    ASSUME TypeOK, NEW latched \in SUBSET Kinds("h265"), Own' = Own,
           sets' = Latched(latched),
           NEW kinds \in SUBSET Kinds("h265"), OwnCopies(kinds)
    PROVE  \A k \in kinds \cup latched : sets'[k] = Own'
  BY DEF TypeOK, Latched, OwnCopies

\* The two counters stop at their bounds.
LEMMA DisturbTypes ==
    ASSUME disturbances \in 0..MaxDisturbances, Disturb
    PROVE  disturbances' \in 0..MaxDisturbances
  BY BoundsAssumption DEF Disturb

\* The session that start() opens is counted.
LEMMA SessionTypes ==
    ASSUME sessions \in 0..MaxSessions, sessions < MaxSessions,
           sessions' = sessions + 1
    PROVE  sessions' \in 0..MaxSessions
  BY BoundsAssumption

\* Every step stays in the types: what is loaded, heard and stored are sets of
\* some camera in some mode, under a key there is.
LEMMA TypeStep == ASSUME CacheInv, Next PROVE TypeOK'
<1> USE DEF device, mode, gate, store, history, counters, Forgotten
<1>0. TypeOK /\ PhaseInv /\ KeyInv
  BY DEF CacheInv, EntryMatchesKey
<1>1. CASE SetIndex
  <2>1. disturbances' \in 0..MaxDisturbances /\ moved' \in BOOLEAN
    BY <1>0, <1>1, DisturbTypes DEF SetIndex, TypeOK
  <2>2. /\ index' \in Indexes
        /\ UNCHANGED <<bus, phase, camera, mode, sets, gate, store,
                       renegotiated, heard, known, prefix, sessions>>
    BY <1>1 DEF SetIndex
  <2> QED
    BY <1>0, <2>1, <2>2 DEF TypeOK
<1>2. CASE Replug
  BY <1>0, <1>2 DEF Replug, TypeOK
<1>3. CASE Start
  <2>1. camera' \in Devices /\ camera' # NoCamera
    BY <1>0, <1>3, ResolvedIsNamed DEF Start, TypeOK
  <2>2. sessions' \in 0..MaxSessions
    BY <1>3, SessionTypes DEF Start, CacheInv, EntryMatchesKey, TypeOK
  <2>3. /\ phase' = "open" /\ had_idr' = FALSE /\ send_sps_pps' = FALSE
        /\ moved' = FALSE /\ renegotiated' = FALSE
        /\ heard' = {} /\ known' = {}
        /\ UNCHANGED <<index, bus, mode, sets, store, prefix, disturbances>>
    BY <1>3 DEF Start
  <2> QED
    BY <1>0, <2>1, <2>2, <2>3 DEF TypeOK
<1>4. CASE Negotiate
  <2>1. PICK m \in Modes :
            /\ frame_format' = m.codec /\ negotiated_size' = m.size
            /\ running' = m
            /\ load_spspps(m)
            /\ heard' = {} /\ known' = Trusted(m)
    BY <1>4 DEF Negotiate
  <2>2. /\ frame_format' \in {"h264", "h265"}
        /\ negotiated_size' \in {0} \cup {x.size : x \in Modes}
        /\ running' \in Mixed \cup {NoMode}
        /\ sets' \in [Kinds("h265") -> Sets]
    BY <1>0, <2>1, ModeFacts, LoadTypes
  <2>3. heard' \subseteq Kinds("h265") /\ known' \subseteq Kinds("h265")
    BY <2>1, KindsOf DEF Trusted
  <2> QED
    BY <1>0, <1>4, <2>2, <2>3 DEF Negotiate, TypeOK
<1>5. CASE Renegotiate
  <2>1. PICK m \in Modes : pending' = m /\ frame_format' = m.codec
    BY <1>5 DEF Renegotiate
  <2>2. pending' \in Modes /\ frame_format' \in {"h264", "h265"}
    BY <2>1, ModeFacts
  <2> QED
    BY <1>0, <1>5, <2>2, DisturbTypes DEF Renegotiate, TypeOK
<1>6. CASE RenegotiateRecords
  <2>1. pending \in Modes
    BY <1>0, <1>6 DEF RenegotiateRecords, TypeOK
  <2>2. /\ sets' \in [Kinds("h265") -> Sets]
        /\ negotiated_size' \in {0} \cup {x.size : x \in Modes}
    BY <1>0, <1>6, <2>1, LoadTypes DEF RenegotiateRecords
  <2> QED
    BY <1>0, <1>6, <2>2 DEF RenegotiateRecords, TypeOK
<1>7. CASE RenegotiateFails
  BY <1>0, <1>7 DEF RenegotiateFails, TypeOK
<1>8. CASE Lost
  BY <1>0, <1>8 DEF Lost, TypeOK
<1>9. CASE Reopen
  <2>1. PICK d \in resolve_device(index, bus) :
            /\ camera' = d
            /\ heard' = {k \in heard : Unchanged(d)}
            /\ known' = {k \in known : Unchanged(d)}
    BY <1>9 DEF Reopen
  <2>2. camera' \in Devices /\ camera' # NoCamera
    BY <1>0, <2>1, ResolvedIsNamed DEF TypeOK
  <2>3. heard' \subseteq Kinds("h265") /\ known' \subseteq Kinds("h265")
    BY <1>0, <2>1 DEF TypeOK
  <2>4. running' \in Mixed
    BY <1>0, <1>9, ModeFacts
       DEF Reopen, PhaseInv, Live, CodecsSeen, SizesSeen
  <2>5. sessions' \in 0..MaxSessions
    BY <1>9, SessionTypes DEF Reopen, CacheInv, EntryMatchesKey, TypeOK
  <2>6. /\ phase' = "streaming" /\ had_idr' = FALSE /\ send_sps_pps' = FALSE
        /\ moved' = FALSE /\ renegotiated' = FALSE
        /\ UNCHANGED <<index, bus, frame_format, negotiated_size, pending,
                       sets, store, disturbances>>
    BY <1>9 DEF Reopen
  <2> QED
    BY <1>0, <2>2, <2>3, <2>4, <2>5, <2>6 DEF TypeOK
<1>10. CASE Stop
  BY <1>0, <1>10 DEF Stop, TypeOK
<1>11. CASE Crash
  <2>1. sets' \in [Kinds("h265") -> Sets]
    BY <1>0, <1>11 DEF Crash, TypeOK, Sets
  <2> QED
    BY <1>0, <1>11, <2>1 DEF Crash, TypeOK
<1>12. CASE Deliver
  <2>1. key = NoKey /\ cb' \in {"idle", "updated"}
    BY <1>0, <1>12, DeliverFacts DEF TypeOK
  <2>2. UNCHANGED <<device, mode, files, key, moved, renegotiated, counters>>
    BY <1>12 DEF Deliver
  <2>3. heard' \subseteq Kinds("h265") /\ known' \subseteq Kinds("h265")
    BY <1>0, <1>12, DeliverFacts DEF TypeOK
  <2> QED
    BY <1>0, <1>12, <2>1, <2>2, <2>3, DeliverFacts DEF TypeOK
<1>13. CASE TakeKey
  <2>1. key' # NoKey /\ cb' = "keyed"
    BY <1>13, KeyTypes DEF TakeKey
  <2>2. UNCHANGED <<device, mode, sets, gate, files, history, counters>>
    BY <1>13 DEF TakeKey
  <2> QED
    BY <1>0, <2>1, <2>2 DEF TypeOK
<1>14. CASE OpenFile \/ WriteFile
  <2>1. key \in Taken /\ key # NoKey
    BY <1>0, <1>14 DEF OpenFile, WriteFile, KeyInv, TypeOK
  <2>2. /\ DOMAIN files' = Keys
        /\ \A k \in Keys : files'[k] = NoEntry \/ Entry(files'[k])
    <3>1. \/ files' = files
          \/ files' = [files EXCEPT ![key.path] = Emptied]
          \/ files' = [files EXCEPT ![key.path] = Written]
      BY <1>14 DEF OpenFile, WriteFile, Emptied, Written, Latches
    <3> QED
      BY <1>0, <2>1, <3>1, EntryTypes, FileTypes DEF TypeOK
  <2>3. /\ cb' \in {"idle", "opened"}
        /\ key' = NoKey <=> cb' = "idle"
        /\ UNCHANGED <<device, mode, sets, gate, history, counters>>
    BY <1>14, <2>1 DEF OpenFile, WriteFile
  <2> QED
    BY <1>0, <2>2, <2>3 DEF TypeOK
<1> QED
  BY <1>1, <1>2, <1>3, <1>4, <1>5, <1>6, <1>7, <1>8, <1>9, <1>10, <1>11,
     <1>12, <1>13, <1>14 DEF Next

-----------------------------------------------------------------------------
(* Lemmas: the mode, the index and the key.                                *)

\* A stream runs in a mode the element knows, and the two part only in a
\* renegotiation.
LEMMA PhaseStep == ASSUME CacheInv, Next PROVE PhaseInv'
<1> USE DEF device, mode, gate, store, history, counters, Forgotten, Live
<1>0. TypeOK /\ PhaseInv
  BY DEF CacheInv, EntryMatchesKey
<1>1. CASE SetIndex \/ Replug \/ Start
  BY <1>0, <1>1 DEF SetIndex, Replug, Start, PhaseInv, TypeOK
<1>2. CASE Negotiate
  <2>1. PICK m \in Modes : /\ frame_format' = m.codec
                           /\ negotiated_size' = m.size /\ running' = m
    BY <1>2 DEF Negotiate
  <2>2. /\ m \in Mixed /\ m = [codec |-> m.codec, size |-> m.size]
        /\ pending' = pending /\ cb' = cb /\ phase' = "streaming"
        /\ phase = "open" /\ renegotiated' = renegotiated
    BY <1>2, <2>1, ModeFacts DEF Negotiate
  <2> QED
    BY <1>0, <2>1, <2>2 DEF PhaseInv
<1>3. CASE Renegotiate
  BY <1>0, <1>3 DEF Renegotiate, PhaseInv
<1>4. CASE RenegotiateRecords
  BY <1>0, <1>4 DEF RenegotiateRecords, PhaseInv, TypeOK
<1>5. CASE RenegotiateFails \/ Lost \/ Stop \/ Crash
  BY <1>0, <1>5 DEF RenegotiateFails, Lost, Stop, Crash, PhaseInv
<1>6. CASE Reopen
  <2>1. running' = [codec |-> frame_format, size |-> negotiated_size]
        /\ running' \in Mixed
    BY <1>0, <1>6, ModeFacts DEF Reopen, PhaseInv, CodecsSeen, SizesSeen
  <2> QED
    BY <1>0, <1>6, <2>1 DEF Reopen, PhaseInv
<1>7. CASE Deliver
  BY <1>0, <1>7 DEF Deliver, PhaseInv
<1>8. CASE TakeKey \/ OpenFile \/ WriteFile
  BY <1>0, <1>8 DEF TakeKey, OpenFile, WriteFile, PhaseInv
<1> QED
  BY <1>1, <1>2, <1>3, <1>4, <1>5, <1>6, <1>7, <1>8 DEF Next

\* Only a resolve opens a camera, and a change of the index is remembered.
LEMMA FoundStep == ASSUME CacheInv, Next PROVE FoundInv'
<1> USE DEF device, mode, gate, store, history, counters, Forgotten
<1>0. TypeOK /\ FoundInv
  BY DEF CacheInv, EntryMatchesKey
<1>1. CASE SetIndex
  BY <1>0, <1>1 DEF SetIndex, FoundInv
<1>2. CASE Start \/ Reopen
  <2>1. camera' \in resolve_device(index, bus) /\ index' = index
    BY <1>2 DEF Start, Reopen
  <2>2. Stable(index) => Names(index, camera')
    BY <1>0, <2>1, ResolvedIsNamed DEF TypeOK
  <2> QED
    BY <2>1, <2>2 DEF FoundInv, Names
<1>3. CASE Stop \/ Crash
  BY <1>3 DEF Stop, Crash, FoundInv
<1>4. CASE \/ Replug \/ Negotiate \/ Renegotiate \/ RenegotiateRecords
           \/ RenegotiateFails \/ Lost \/ Deliver \/ TakeKey \/ OpenFile
           \/ WriteFile
  <2>1. /\ UNCHANGED <<index, camera, moved>>
        /\ phase' = "stopped" <=> phase = "stopped"
    BY <1>4 DEF Replug, Negotiate, Renegotiate, RenegotiateRecords,
                RenegotiateFails, Lost, Deliver, TakeKey, OpenFile, WriteFile
  <2> QED
    BY <1>0, <2>1 DEF FoundInv, Names
<1> QED
  BY <1>1, <1>2, <1>3, <1>4 DEF Next

\* What the callback thread took under the lock stays what it was, whatever
\* the app writes before the file is open.
LEMMA KeyStep == ASSUME CacheInv, Next PROVE KeyInv'
<1> USE DEF device, mode, gate, store, history, counters, Forgotten
<1>0. TypeOK /\ PhaseInv /\ FoundInv /\ KeyInv
  BY DEF CacheInv, EntryMatchesKey
<1>1. CASE TakeKey
  <2>1. /\ key' \in Taken /\ key'.path[1] = index /\ key'.moved = moved
        /\ key'.path[2] = [codec |-> frame_format, size |-> negotiated_size]
        /\ key'.codec = frame_format
    BY <1>1, KeyTypes
  <2>2. /\ UNCHANGED <<camera, running, renegotiated>>
        /\ phase = "streaming"
    BY <1>0, <1>1 DEF TakeKey, PhaseInv
  <2>3. ~key'.moved /\ Stable(key'.path[1]) => Names(key'.path[1], camera')
    BY <1>0, <2>1, <2>2 DEF FoundInv
  <2>4. ~renegotiated' => key'.path[2] = running'
    BY <1>0, <2>1, <2>2 DEF PhaseInv, Live
  <2>5. key'.codec = key'.path[2].codec
    BY <2>1
  <2> QED
    BY <2>1, <2>3, <2>4, <2>5 DEF KeyInv, Names
<1>2. CASE \/ Start \/ Negotiate \/ Lost \/ Reopen \/ Stop \/ Crash \/ Deliver
           \/ WriteFile
  <2>1. cb' \notin {"keyed", "opened"}
    BY <1>0, <1>2 DEF Start, Negotiate, Lost, Reopen, Stop, Crash, Deliver,
                      WriteFile, PhaseInv
  <2> QED
    BY <2>1 DEF KeyInv
<1>3. CASE \/ SetIndex \/ Replug \/ Renegotiate \/ RenegotiateRecords
           \/ RenegotiateFails \/ OpenFile
  <2>1. /\ UNCHANGED <<camera, running>>
        /\ ~renegotiated' => ~renegotiated
        /\ cb' \in {"keyed", "opened"} =>
               cb \in {"keyed", "opened"} /\ key' = key
    BY <1>3 DEF SetIndex, Replug, Renegotiate, RenegotiateRecords,
                RenegotiateFails, OpenFile
  <2> QED
    BY <1>0, <2>1 DEF KeyInv, Names
<1> QED
  BY <1>1, <1>2, <1>3 DEF Next

\* The copies that were latched are left alone until a renegotiation, or a
\* reopen that finds another model.
LEMMA HeardStep == ASSUME CacheInv, Next PROVE HeardInv'
<1> USE DEF device, mode, gate, store, history, counters, Forgotten
<1>0. TypeOK /\ PhaseInv /\ HeardInv
  BY DEF CacheInv, EntryMatchesKey
<1>1. CASE Deliver
  <2>1. PICK latched \in SUBSET Kinds("h265") :
            /\ phase = "streaming"
            /\ Own' = Own /\ UNCHANGED <<phase, renegotiated>>
            /\ sets' = Latched(latched) /\ heard' = heard \cup latched
    BY <1>1, DeliverFacts
  <2>2. CASE ~renegotiated
    <3>1. OwnCopies(heard) /\ heard \in SUBSET Kinds("h265")
      BY <1>0, <2>1, <2>2 DEF HeardInv, Live, TypeOK
    <3>2. \A k \in heard \cup latched : sets'[k] = Own'
      BY <1>0, <2>1, <3>1, LatchKeepsOwn
    <3> QED
      BY <2>1, <3>2 DEF HeardInv, OwnCopies
  <2>3. CASE renegotiated
    BY <2>1, <2>3 DEF HeardInv
  <2> QED
    BY <2>2, <2>3
<1>2. CASE Start \/ Negotiate \/ Stop \/ Crash
  <2>1. heard' = {}
    BY <1>2 DEF Start, Negotiate, Stop, Crash
  <2> QED
    BY <2>1 DEF HeardInv, OwnCopies
<1>3. CASE Renegotiate \/ RenegotiateRecords
  <2>1. renegotiated'
    BY <1>0, <1>3 DEF Renegotiate, RenegotiateRecords, PhaseInv
  <2> QED
    BY <2>1 DEF HeardInv
<1>4. CASE Reopen
  <2>1. PICK d : camera' = d /\ heard' = {k \in heard : Unchanged(d)}
    BY <1>4 DEF Reopen
  <2>2. CASE Unchanged(d)
    <3>1. /\ running' = [codec |-> frame_format, size |-> negotiated_size]
          /\ phase = "lost" /\ sets' = sets /\ heard' = heard
      BY <1>4, <2>1, <2>2 DEF Reopen
    <3>2. Own' = Own
      BY <1>0, <2>1, <2>2, <3>1 DEF PhaseInv, Live, Unchanged, Own, Model
    <3>3. OwnCopies(heard)
      BY <1>0, <2>2, <3>1 DEF HeardInv, Live, Unchanged
    <3> QED
      BY <3>1, <3>2, <3>3 DEF HeardInv, OwnCopies
  <2>3. CASE ~Unchanged(d)
    BY <2>1, <2>3 DEF HeardInv, OwnCopies
  <2> QED
    BY <2>2, <2>3
<1>5. CASE \/ SetIndex \/ Replug \/ RenegotiateFails \/ Lost \/ TakeKey
           \/ OpenFile \/ WriteFile
  <2>1. /\ UNCHANGED <<camera, running, sets, heard, renegotiated>>
        /\ Live' => Live
    BY <1>5 DEF SetIndex, Replug, RenegotiateFails, Lost, TakeKey, OpenFile,
                WriteFile, Live
  <2>2. Own' = Own
    BY <2>1 DEF Own
  <2> QED
    BY <1>0, <2>1, <2>2 DEF HeardInv, OwnCopies
<1> QED
  BY <1>1, <1>2, <1>3, <1>4, <1>5 DEF Next

-----------------------------------------------------------------------------
(* Lemmas: the files.                                                      *)

\* What EntryMatchesKey asks of one entry.
Matches(k, entry) ==
    /\ DOMAIN entry.sets \in {{}, Kinds(k[2].codec)}
    /\ \A s \in entry.own :
           /\ entry.sets[s] # BuiltIn
           /\ entry.sets[s].mode = k[2]
           /\ Stable(k[1]) =>
                  \E d \in Named(k[1]) : entry.sets[s].model = Model(d)

\* The claim about every file that the load may find, one key at a time.
LEMMA EntryOfFile ==
    EntryMatchesKey
        <=> TypeOK /\ \A k \in Keys : files[k] # NoEntry =>
                                          Matches(k, files[k])
  BY DEF EntryMatchesKey, Matches

\* fclose(): between the latched copies, the key and the camera nothing has
\* come apart unless the index moved or a renegotiation began, and then the
\* entry owns none of them.
LEMMA WrittenMatches ==
    ASSUME CacheInv, cb = "opened"
    PROVE  Matches(key.path, Written)
<1>1. /\ key \in Taken /\ TypeOK /\ PhaseInv /\ Live
      /\ key.codec = key.path[2].codec
  BY DEF CacheInv, KeyInv, EntryMatchesKey, PhaseInv, Live
<1>2. DOMAIN Written.sets = Kinds(key.path[2].codec)
  BY <1>1, EntryTypes
<1>3. ASSUME NEW s \in Written.own
      PROVE  /\ Written.sets[s] # BuiltIn
             /\ Written.sets[s].mode = key.path[2]
             /\ Stable(key.path[1]) =>
                    \E d \in Named(key.path[1]) :
                        Written.sets[s].model = Model(d)
  <2>1. /\ s \in Kinds(key.codec) /\ s \in heard
        /\ ~key.moved /\ ~renegotiated
    BY <1>1, <1>3, EntryTypes DEF Latches
  <2>2. /\ Stable(key.path[1]) => Names(key.path[1], camera)
        /\ key.path[2] = running
    BY <2>1 DEF CacheInv, KeyInv
  <2>3. Written.sets[s] = Own
    BY <1>1, <2>1, EntryTypes DEF CacheInv, HeardInv, OwnCopies
  <2>4. /\ Own # BuiltIn /\ Own.model = Model(camera) /\ Own.mode = running
    BY <1>1, OwnIsHeard
  <2>5. Stable(key.path[1]) => camera \in Named(key.path[1])
    BY <1>1, <2>2 DEF Named, Names, Live, TypeOK
  <2> QED
    BY <2>2, <2>3, <2>4, <2>5
<1> QED
  BY <1>2, <1>3 DEF Matches

\* No step touches an entry but a store, which empties the one of its key and
\* then writes it, or dies in between.
LEMMA EntryStep == ASSUME CacheInv, Next PROVE EntryMatchesKey'
<1> USE DEF device, mode, gate, store, history, counters, Forgotten
<1>0. TypeOK /\ \A k \in Keys : files[k] # NoEntry => Matches(k, files[k])
  BY EntryOfFile DEF CacheInv
<1>1. TypeOK'
  BY TypeStep
<1>2. CASE files' = files
  <2>1. \A k \in Keys : files'[k] # NoEntry => Matches(k, files'[k])
    BY <1>0, <1>2
  <2> QED
    BY <1>1, <2>1 DEF EntryMatchesKey, Matches
<1>3. ASSUME OpenFile \/ WriteFile, files' # files
      PROVE  EntryMatchesKey'
  <2>1. key \in Taken
    BY <1>3 DEF OpenFile, WriteFile, CacheInv, KeyInv
  <2>2. PICK e : /\ files' = [files EXCEPT ![key.path] = e] /\ Entry(e)
                 /\ Matches(key.path, e)
    <3>1. CASE OpenFile
      <4>1. files' = [files EXCEPT ![key.path] = Emptied]
        BY <1>3, <3>1 DEF OpenFile, Emptied
      <4>2. Entry(Emptied) /\ Matches(key.path, Emptied)
        BY <1>0, <2>1, EntryTypes DEF Matches
      <4> QED
        BY <4>1, <4>2
    <3>2. CASE WriteFile
      <4>1. files' = [files EXCEPT ![key.path] = Written] /\ cb = "opened"
        BY <1>3, <3>2 DEF WriteFile, Written, Latches
      <4>2. Entry(Written)
        BY <1>0, <2>1, EntryTypes
      <4> QED
        BY <4>1, <4>2, WrittenMatches
    <3> QED
      BY <1>3, <3>1, <3>2
  <2>3. ASSUME NEW k \in Keys, files'[k] # NoEntry
        PROVE  Matches(k, files'[k])
    <3>1. CASE k = key.path
      BY <1>0, <2>2, <2>3, <3>1, FileTypes
    <3>2. CASE k # key.path
      BY <1>0, <2>2, <2>3, <3>2, FileTypes
    <3> QED
      BY <3>1, <3>2
  <2> QED
    BY <1>1, <2>3 DEF EntryMatchesKey, Matches
<1>4. OpenFile \/ WriteFile \/ files' = files
  BY DEF Next, SetIndex, Replug, Start, Negotiate, Renegotiate,
         RenegotiateRecords, RenegotiateFails, Lost, Reopen, Stop, Crash,
         Deliver, TakeKey
<1> QED
  BY <1>2, <1>3, <1>4

-----------------------------------------------------------------------------
(* Lemmas: the copies that are known.                                      *)

\* Cameras that one vid:pid or one serial names are of one model.
OneModelPerSelector ==
    \A i \in Indexes :
        Stable(i) => \A d, e \in Named(i) : Model(d) = Model(e)

\* A load gives the element its camera's sets, of what an entry is trusted for.
LEMMA TrustedIsOwn ==
    ASSUME CacheInv, OneModelPerSelector, phase = "open",
           NEW m \in Modes, load_spspps(m),
           running' = m, camera' = camera,
           NEW s \in Trusted(m)
    PROVE  sets'[s] = Own'
<1> DEFINE k     == build_path(index, m.codec, m.size)
           entry == files[k]
<1>1. /\ k \in Keys /\ k[1] = index /\ k[2] = m
      /\ m \in Mixed /\ m.codec \in {"h264", "h265"}
  BY ModeFacts, PathParts DEF CacheInv, EntryMatchesKey, TypeOK
<1>2. /\ Stable(index) /\ ~moved /\ entry # NoEntry
      /\ s \in Kinds(m.codec) /\ s \in entry.own
      /\ sets' = Loaded(entry)
  BY DEF Trusted, load_spspps
<1> HIDE DEF k, entry
<1>3. entry = files[k]
  BY DEF entry
<1>4. Matches(k, entry) /\ Entry(entry) /\ TypeOK
  BY <1>1, <1>2, <1>3, EntryOfFile DEF CacheInv, TypeOK
<1>5. camera \in Named(index) /\ camera \in Devices
  BY <1>2 DEF CacheInv, FoundInv, EntryMatchesKey, TypeOK, Named, Names
<1>6. s \in DOMAIN entry.sets
  BY <1>2, <1>4 DEF Entry
<1>7. sets'[s] = entry.sets[s]
  BY <1>2, <1>4, <1>6, KindsOf DEF Loaded, TypeOK
<1>8. /\ entry.sets[s] \in Heard /\ entry.sets[s].mode = m
      /\ \E d \in Named(index) : entry.sets[s].model = Model(d)
  BY <1>1, <1>2, <1>4, <1>6 DEF Matches, Entry, Sets
<1>9. entry.sets[s].model = Model(camera)
  BY <1>2, <1>4, <1>5, <1>8 DEF OneModelPerSelector, TypeOK
<1>10. Own' = [model |-> Model(camera), mode |-> m]
  BY DEF Own, Model
<1> QED
  BY <1>7, <1>8, <1>9, <1>10 DEF Heard

\* Known copies stay the camera's: a renegotiation, or a reopen that finds
\* another model, ends what is known of them.
LEMMA KnownStep ==
    ASSUME CacheInv, OneModelPerSelector, KnownInv, Next PROVE KnownInv'
<1> USE DEF device, mode, gate, store, history, counters, Forgotten
<1>0. TypeOK /\ PhaseInv
  BY DEF CacheInv, EntryMatchesKey
<1>1. CASE Negotiate
  <2>1. PICK m \in Modes : /\ running' = m /\ load_spspps(m)
                           /\ known' = Trusted(m)
    BY <1>1 DEF Negotiate
  <2>2. phase = "open" /\ camera' = camera
    BY <1>1 DEF Negotiate
  <2>3. \A s \in Trusted(m) : sets'[s] = Own'
    BY <2>1, <2>2, TrustedIsOwn
  <2> QED
    BY <2>1, <2>3 DEF KnownInv, OwnCopies
<1>2. CASE Reopen
  <2>1. PICK d : camera' = d /\ known' = {k \in known : Unchanged(d)}
    BY <1>2 DEF Reopen
  <2>2. CASE Unchanged(d)
    <3>1. /\ running' = [codec |-> frame_format, size |-> negotiated_size]
          /\ phase = "lost" /\ sets' = sets /\ known' = known
      BY <1>2, <2>1, <2>2 DEF Reopen
    <3>2. Own' = Own
      BY <1>0, <2>1, <2>2, <3>1 DEF PhaseInv, Live, Unchanged, Own, Model
    <3>3. OwnCopies(known)
      BY <2>2, <3>1 DEF KnownInv, Live, Unchanged
    <3> QED
      BY <3>1, <3>2, <3>3 DEF KnownInv, OwnCopies
  <2>3. CASE ~Unchanged(d)
    BY <2>1, <2>3 DEF KnownInv, OwnCopies
  <2> QED
    BY <2>2, <2>3
<1>3. CASE Deliver
  <2>1. PICK latched \in SUBSET Kinds("h265") :
            /\ phase = "streaming"
            /\ Own' = Own /\ UNCHANGED <<phase, renegotiated>>
            /\ sets' = Latched(latched) /\ known' = known \cup latched
    BY <1>3, DeliverFacts
  <2>2. CASE ~renegotiated
    <3>1. OwnCopies(known) /\ known \in SUBSET Kinds("h265")
      BY <1>0, <2>1, <2>2 DEF KnownInv, Live, TypeOK
    <3>2. \A k \in known \cup latched : sets'[k] = Own'
      BY <1>0, <2>1, <3>1, LatchKeepsOwn
    <3> QED
      BY <2>1, <3>2 DEF KnownInv, OwnCopies
  <2>3. CASE renegotiated
    BY <2>1, <2>3 DEF KnownInv
  <2> QED
    BY <2>2, <2>3
<1>4. CASE Start \/ Stop \/ Crash
  BY <1>4 DEF Start, Stop, Crash, KnownInv, OwnCopies
<1>5. CASE Renegotiate \/ RenegotiateRecords
  <2>1. renegotiated'
    BY <1>0, <1>5 DEF Renegotiate, RenegotiateRecords, PhaseInv
  <2> QED
    BY <2>1 DEF KnownInv
<1>6. CASE \/ SetIndex \/ Replug \/ RenegotiateFails \/ Lost \/ TakeKey
           \/ OpenFile \/ WriteFile
  <2>1. /\ UNCHANGED <<camera, running, sets, known, renegotiated>>
        /\ Live' => Live
    BY <1>6 DEF SetIndex, Replug, RenegotiateFails, Lost, TakeKey, OpenFile,
                WriteFile, Live
  <2>2. Own' = Own
    BY <2>1 DEF Own
  <2> QED
    BY <2>1, <2>2 DEF KnownInv, OwnCopies
<1> QED
  BY <1>1, <1>2, <1>3, <1>4, <1>5, <1>6 DEF Next

-----------------------------------------------------------------------------
(* Theorems.                                                               *)

\* Between the app that moves the index, downstream that renegotiates and the
\* callback thread that latches what it has room for and stores, the mode, the
\* key and the latched copies come apart only by an index change or a
\* renegotiation.
THEOREM CacheIsKept == Spec => []CacheInv
<1>1. Init => CacheInv
  <2> SUFFICES ASSUME Init PROVE CacheInv
    OBVIOUS
  <2>1. TypeOK
    <3>1. 0 \in 0..MaxSessions /\ 0 \in 0..MaxDisturbances
      BY BoundsAssumption
    <3>2. sets \in [Kinds("h265") -> Sets]
      BY DEF Init, Sets
    <3> QED
      BY <3>1, <3>2 DEF Init, TypeOK
  <2>2. EntryMatchesKey
    BY <2>1 DEF Init, EntryMatchesKey
  <2> QED
    BY <2>2 DEF Init, CacheInv, PhaseInv, FoundInv, KeyInv, HeardInv, Live,
                OwnCopies
<1>2. CacheInv /\ [Next]_vars => CacheInv'
  <2> SUFFICES ASSUME CacheInv, [Next]_vars PROVE CacheInv'
    OBVIOUS
  <2>1. CASE Next
    BY <2>1, PhaseStep, FoundStep, KeyStep, HeardStep, EntryStep DEF CacheInv
  <2>2. CASE UNCHANGED vars
    <3> USE <2>2 DEF vars, device, mode, gate, store, history, counters
    <3>1. PhaseInv' /\ FoundInv' /\ KeyInv' /\ HeardInv'
      BY DEF CacheInv, PhaseInv, FoundInv, KeyInv, HeardInv, Live, Names,
             OwnCopies, Own
    <3>2. EntryMatchesKey'
      BY DEF CacheInv, EntryMatchesKey, TypeOK
    <3> QED
      BY <3>1, <3>2 DEF CacheInv
  <2> QED
    BY <2>1, <2>2
<1> QED
  BY <1>1, <1>2, PTL DEF Spec

\* An entry is empty or holds a set of every kind of its key's codec; one that
\* was latched before any move of the index or renegotiation is of the key's
\* mode and, under a vid:pid or serial, from a camera it names: crashes in the
\* store, reopens and refused sets beside it included.
THEOREM EntriesMatchKeys == Spec => []EntryMatchesKey
<1>1. CacheInv => EntryMatchesKey
  BY DEF CacheInv
<1> QED
  BY <1>1, CacheIsKept, PTL

\* In a keyframe's prefix, each set that was latched, or loaded from an entry
\* where it had been, is of the keyframe's camera and mode, whatever sets were
\* refused beside it.
THEOREM PrefixesAreOwn ==
    ASSUME OneModelPerSelector PROVE Spec => []PrefixIsOwn
<1>1. Init => KnownInv /\ PrefixIsOwn
  BY DEF Init, KnownInv, OwnCopies, PrefixIsOwn
<1>2. CacheInv /\ KnownInv /\ PrefixIsOwn /\ [Next]_vars
          => KnownInv' /\ PrefixIsOwn'
  <2> SUFFICES ASSUME CacheInv, KnownInv, PrefixIsOwn, [Next]_vars
               PROVE  KnownInv' /\ PrefixIsOwn'
    OBVIOUS
  <2> USE DEF device, mode, gate, store, history, counters, Forgotten
  <2>1. CASE Next
    <3>1. KnownInv'
      BY <2>1, KnownStep
    <3>2. CASE Deliver
      <4>1. /\ phase = "streaming" /\ Own' = Own
            /\ UNCHANGED <<phase, renegotiated>>
            /\ \/ prefix' = NoPrefix
               \/ /\ \A k \in DOMAIN prefix'.sets : prefix'.sets[k] = sets'[k]
                  /\ prefix'.own = Own
                  /\ \A k \in prefix'.known : k \in known' /\ ~renegotiated
        BY <3>2, DeliverFacts
      <4>2. ~renegotiated => \A k \in known' : sets'[k] = Own'
        BY <3>1, <4>1 DEF KnownInv, Live, OwnCopies
      <4> QED
        BY <3>1, <4>1, <4>2 DEF PrefixIsOwn
    <3>3. CASE ~Deliver
      <4>1. prefix' = prefix \/ prefix' = NoPrefix
        BY <2>1, <3>3
           DEF Next, SetIndex, Replug, Start, Negotiate, Renegotiate,
               RenegotiateRecords, RenegotiateFails, Lost, Reopen, Stop, Crash,
               TakeKey, OpenFile, WriteFile
      <4> QED
        BY <3>1, <4>1 DEF PrefixIsOwn
    <3> QED
      BY <3>2, <3>3
  <2>2. CASE UNCHANGED vars
    BY <2>2 DEF vars, KnownInv, PrefixIsOwn, Live, OwnCopies, Own
  <2> QED
    BY <2>1, <2>2
<1> QED
  BY <1>1, <1>2, CacheIsKept, PTL DEF Spec
=============================================================================
