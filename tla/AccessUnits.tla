----------------------------- MODULE AccessUnits -----------------------------
(***************************************************************************)
(* frame_callback() between the scan (NalScan) and the stamp (PtsStamping):*)
(* the NAL units of a delivery partitioned into access units, parameter    *)
(* sets taken into the cache and put back in front of key slices, the      *)
(* keyframe gate, and the buffers pushed downstream.                       *)
(*                                                                         *)
(* The camera encodes whole pictures; each unit carries, as a ghost, the   *)
(* picture it belongs to and the version of the parameter sets in force.   *)
(* `dec` is what a decoder has learnt from the buffers that reached it: a  *)
(* flush may throw away any buffer that was pushed on the queue.           *)
(***************************************************************************)
EXTENDS Integers, Sequences, FiniteSetsExt, SequencesExt

CONSTANTS
    Formats,            \* what negotiate() may have settled on
    KeyNals, OtherNals, \* format -> nal types of the camera's slices
    PpsCount,           \* picture parameter sets the camera sends together
    MayExceed           \* kinds of set that may exceed SPSPPSBUFSZ

ASSUME FormatAssumption ==
    /\ Formats \subseteq {"H264", "H265"}
    /\ {KeyNals, OtherNals} \subseteq [Formats -> SUBSET Nat]
ASSUME SetsAssumption == PpsCount \in Nat \ {0}

VARIABLES
    frame_format,       \* fixed for the session
    delimits,           \* this camera emits access unit delimiters
    oversize,           \* kinds of set it makes too large for the cache
    ver,                \* version of its parameter sets, alternately 0 and 1
    announced,          \* it has sent them since it was first opened
    pc,                 \* "wait", "split" or "emit"
    units, lead,        \* the delivery; had_idr when it came in
    i, starts, au_has_slice, nonvcl_run,    \* split_access_units()
    a, out,             \* access units pushed so far, and their buffers
    had_idr, send_sps_pps,
    cache,              \* kind -> <<the set held>>, or <<>>
    dec,                \* kind and id -> the version the decoder holds
    missed              \* history: the sets last sent went with a flush

camera  == <<frame_format, delimits, oversize, ver, announced>>
split   == <<i, starts, au_has_slice, nonvcl_run>>
stream  == <<had_idr, send_sps_pps, cache, dec, missed>>
vars    == <<camera, pc, units, lead, split, a, out, stream>>

-----------------------------------------------------------------------------
(* Kinds of unit.                                                          *)

convert_unit_type(nal) ==
    IF frame_format = "H264"
    THEN CASE nal = 1 -> "NON_IDR" [] nal = 5 -> "IDR" [] nal = 7 -> "SPS"
           [] nal = 8 -> "PPS"     [] nal = 9 -> "AUD" [] OTHER -> "INVALID"
    ELSE CASE nal = 1 -> "NON_IDR" [] nal \in {19, 20} -> "IDR"
           [] nal = 32 -> "VPS"    [] nal = 33 -> "SPS" [] nal = 34 -> "PPS"
           [] nal = 35 -> "AUD"    [] OTHER -> "INVALID"

Type(u) == convert_unit_type(u.nal)
nal_is_parameter_set(u) == Type(u) \in {"VPS", "SPS", "PPS"}
nal_is_slice(u) == Type(u) \in {"IDR", "NON_IDR"}

-----------------------------------------------------------------------------
(* What a camera delivers.                                                 *)

Nal(kind) ==
    CASE kind = "VPS" -> 32
      [] kind = "SPS" -> IF frame_format = "H264" THEN 7 ELSE 33
      [] kind = "PPS" -> IF frame_format = "H264" THEN 8 ELSE 34
      [] kind = "AUD" -> IF frame_format = "H264" THEN 9 ELSE 35
      [] kind = "SEI" -> IF frame_format = "H264" THEN 6 ELSE 39

Unit(nal, first, pic, id, v) ==
    [nal |-> nal, first |-> first, pic |-> pic, id |-> id, ver |-> v]

Kinds == IF frame_format = "H264" THEN {"SPS", "PPS"} ELSE {"VPS", "SPS", "PPS"}

\* The sets a picture may refer to: kind and id.
SetKeys ==
    {key \in Kinds \X (1..PpsCount) : key[2] = 1 \/ key[1] = "PPS"}

When(cond, s) == IF cond THEN s ELSE <<>>

ParameterSets(pic, v) ==
    When(frame_format = "H265", <<Unit(Nal("VPS"), FALSE, pic, 1, v)>>)
    \o <<Unit(Nal("SPS"), FALSE, pic, 1, v)>>
    \o [id \in 1..PpsCount |-> Unit(Nal("PPS"), FALSE, pic, id, v)]

\* One picture as the encoder lays it out; only its first slice says so.
Picture(pic, p, v) ==
    When(delimits, <<Unit(Nal("AUD"), FALSE, pic, 1, v)>>)
    \o When(p.sets, ParameterSets(pic, v))
    \o When(p.sei, <<Unit(Nal("SEI"), FALSE, pic, 1, v)>>)
    \o [s \in 1..p.slices |-> Unit(p.nal, s = 1, pic, 1, v)]

Layouts == [nal : KeyNals[frame_format] \cup OtherNals[frame_format],
            sets : BOOLEAN, sei : BOOLEAN,
            slices : 1..2]

IsKey(p) == p.nal \in KeyNals[frame_format]

\* Sets change only where a key picture carries the new ones, and the first
\* key picture of all comes with them.
Init ==
    /\ frame_format \in Formats /\ delimits \in BOOLEAN
    /\ oversize \in SUBSET (MayExceed \cap Kinds)
    /\ ver = 0 /\ announced = FALSE
    /\ pc = "wait" /\ units = <<>> /\ lead = FALSE
    /\ i = 1 /\ starts = <<>> /\ au_has_slice = FALSE /\ nonvcl_run = 0
    /\ a = 0 /\ out = <<>>
    /\ had_idr = FALSE /\ send_sps_pps = FALSE
    /\ cache = [k \in Kinds |-> <<>>]
    /\ dec = [k \in SetKeys |-> -1] /\ missed = FALSE

Receive(seq) ==
    /\ units' = seq /\ lead' = had_idr
    /\ pc' = "split"
    /\ UNCHANGED <<frame_format, delimits, oversize, split, a, out, stream>>

\* Two pictures in one delivery, or one.
DeliverPictures ==
    /\ pc = "wait"
    /\ \E p \in Layouts, q \in Layouts \cup {<<>>}, v \in {0, 1} :
           /\ v # ver => IsKey(p) /\ p.sets
           /\ IsKey(p) => announced \/ p.sets
           /\ q # <<>> => (IsKey(q) => announced \/ p.sets \/ q.sets)
           /\ ver' = v
           /\ announced' = (announced \/ p.sets \/ (q # <<>> /\ q.sets))
           /\ Receive(Picture(1, p, v)
                      \o When(q # <<>>, IF q = <<>> THEN <<>>
                                        ELSE Picture(2, q, v)))

\* Parameter sets in a transfer of their own.
DeliverSets ==
    /\ pc = "wait"
    /\ Receive(ParameterSets(1, ver))
    /\ announced' = TRUE /\ ver' = ver

\* A reconnect, between two deliveries: the gate closes, the cache stays.
Reopen ==
    /\ pc = "wait" /\ had_idr
    /\ had_idr' = FALSE /\ send_sps_pps' = FALSE
    /\ UNCHANGED <<camera, pc, units, lead, split, a, out, cache, dec,
                   missed>>

-----------------------------------------------------------------------------
(* split_access_units(), one unit at a time.                               *)

nal_opens_new_picture(u) == u.first

F_CutAtSlice == i

\* The non-VCL run before a slice goes with it.
CutBefore == IF nonvcl_run # 0 THEN nonvcl_run ELSE i

F_AnySlice(u) == TRUE

SecondPicture(u) == au_has_slice /\ nal_opens_new_picture(u)

\* Where the access unit that unit i opens begins; 0 when it opens none.
Boundary ==
    LET u == units[i]
    IN  CASE starts = <<>> -> 1
          [] starts # <<>> /\ Type(u) = "AUD" -> i
          [] starts # <<>> /\ nal_is_slice(u) /\ SecondPicture(u) -> CutBefore
          [] OTHER -> 0

F_KeepRun(u) == IF nonvcl_run = 0 /\ ~nal_is_slice(u) THEN i ELSE nonvcl_run

\* The first non-VCL unit since the last slice; 0 right after a slice.
RunAfter(u) ==
    IF nal_is_slice(u) THEN 0 ELSE IF nonvcl_run = 0 THEN i ELSE nonvcl_run

SplitUnit ==
    /\ pc = "split" /\ i <= Len(units)
    /\ starts' = IF Boundary # 0 THEN Append(starts, Boundary) ELSE starts
    /\ au_has_slice' = (nal_is_slice(units[i])
                           \/ (Boundary = 0 /\ au_has_slice))
    /\ nonvcl_run' = RunAfter(units[i])
    /\ i' = i + 1
    /\ UNCHANGED <<camera, pc, units, lead, a, out, stream>>

SplitDone ==
    /\ pc = "split" /\ i > Len(units)
    /\ pc' = "emit"
    /\ UNCHANGED <<camera, units, lead, split, a, out, stream>>

-----------------------------------------------------------------------------
(* The loop over access units.                                             *)

AccessUnit(n) ==
    SubSeq(units, starts[n],
           IF n < Len(starts) THEN starts[n + 1] - 1 ELSE Len(units))

LastOf(k, seq) ==
    SelectLastInSeq(seq, LAMBDA u : Type(u) = k)

\* cache_parameter_set() over an access unit: the last of each kind stays; a
\* set that does not fit is refused.
Cached(seq) ==
    [k \in Kinds |-> IF k \in oversize \/ LastOf(k, seq) = 0 THEN cache[k]
                     ELSE <<seq[LastOf(k, seq)]>>]

Refreshed(seq) ==
    \E n \in DOMAIN seq :
        nal_is_parameter_set(seq[n]) /\ Type(seq[n]) \notin oversize

\* The members of S, in order: what is left of a sequence.
Kept(seq, S) ==
    FlattenSeq([n \in DOMAIN seq |-> When(seq[n] \in S, <<seq[n]>>)])

\* Parameter sets are consumed, never forwarded from the wire.
Forwardable(seq) ==
    Kept(seq, {u \in ToSet(seq) : ~nal_is_parameter_set(u)})

F_OnlyFirst(send) == ~had_idr

\* The first key picture gets the sets, and every one they were sent before.
NeedsSets(send) == ~had_idr \/ send

Prefix(sets) ==
    When(frame_format = "H265", sets["VPS"]) \o sets["SPS"] \o sets["PPS"]

F_AtHead(payload, prefix) == prefix \o payload

\* Right before the first key slice, so that a delimiter stays first.
Insert(payload, prefix) ==
    LET k == SelectInSeq(payload, LAMBDA u : Type(u) = "IDR")
    IN  SubSeq(payload, 1, k - 1) \o prefix \o SubSeq(payload, k, Len(payload))

\* A decoder reads a buffer in order.
Learn(buffer) ==
    [key \in SetKeys |->
        LET n == SelectLastInSeq(buffer, LAMBDA u :
                     Type(u) = key[1] /\ u.id = key[2])
        IN  IF n = 0 THEN dec[key] ELSE buffer[n].ver]

\* unlock_stop() drops what create() has not taken from the queue; had_idr
\* and send_sps_pps stay as the push left them.  Decided here, where the
\* buffer is pushed: until its turn came nothing else could tell.
Received(buffer, flushed) == IF flushed THEN dec ELSE Learn(buffer)

F_GateOff(key) == TRUE

Forwards(key) == had_idr \/ key

EmitUnit ==
    /\ pc = "emit" /\ a < Len(starts)
    /\ LET seq     == AccessUnit(a + 1)
           payload == Forwardable(seq)
           key     == \E n \in DOMAIN seq : Type(seq[n]) = "IDR"
           sets    == Cached(seq)
           send    == send_sps_pps \/ Refreshed(seq)
           prefix  == When(key /\ NeedsSets(send), Prefix(sets))
           buffer  == IF prefix = <<>> THEN payload ELSE Insert(payload, prefix)
       IN  /\ cache' = sets
           /\ IF Forwards(key) /\ payload # <<>>
              THEN /\ out' = Append(out, buffer)
                   /\ \E flushed \in BOOLEAN :
                          /\ dec' = Received(buffer, flushed)
                          /\ missed' = IF key /\ (~had_idr \/ send)
                                       THEN flushed /\ prefix # <<>>
                                       ELSE missed
                   /\ had_idr' = (had_idr \/ key)
                   /\ send_sps_pps' = (send /\ prefix = <<>>)
              ELSE /\ send_sps_pps' = send
                   /\ UNCHANGED <<out, dec, missed, had_idr>>
    /\ a' = a + 1
    /\ UNCHANGED <<camera, pc, units, lead, split>>

EmitDone ==
    /\ pc = "emit" /\ a = Len(starts)
    /\ pc' = "wait"
    /\ units' = <<>> /\ lead' = FALSE
    /\ i' = 1 /\ starts' = <<>> /\ au_has_slice' = FALSE /\ nonvcl_run' = 0
    /\ a' = 0 /\ out' = <<>>
    /\ UNCHANGED <<camera, stream>>

-----------------------------------------------------------------------------
Next ==
    \/ DeliverPictures \/ DeliverSets \/ Reopen
    \/ SplitUnit \/ SplitDone \/ EmitUnit \/ EmitDone

Spec == Init /\ [][Next]_vars

-----------------------------------------------------------------------------
(* Properties.                                                             *)

\* Types; the starts climb from the first unit, so that every access unit
\* has units of its own and none is left out.
TypeOK ==
    /\ i \in 1..(Len(units) + 1) /\ a \in 0..Len(starts)
    /\ nonvcl_run \in 0..Len(units)
    /\ starts # <<>> => starts[1] = 1
    /\ \A n \in DOMAIN starts : starts[n] \in 1..Len(units)
    /\ \A n \in 1..(Len(starts) - 1) : starts[n] < starts[n + 1]
    /\ \A k \in Kinds : Len(cache[k]) <= 1

\* One access unit per picture, with delimiters or without, and with the
\* SEI and the sets of a picture on its side of the cut.
OneUnitPerPicture ==
    pc = "emit" =>
        ToSet(starts) = {n \in DOMAIN units :
                            n = 1 \/ units[n].pic # units[n - 1].pic}

\* A delimiter is never behind anything in a buffer, inserted sets included.
DelimiterLeads ==
    \A n \in DOMAIN out : \A k \in DOMAIN out[n] :
        Type(out[n][k]) = "AUD" => k = 1

\* The decoder holds every set the last buffer's key slices may use, in the
\* version the camera sent last.
SetsHeld ==
    out # <<>> =>
        LET buffer == Last(out)
        IN  \A k \in DOMAIN buffer :
                Type(buffer[k]) = "IDR" =>
                    \A key \in SetKeys :
                        key[1] \notin oversize => dec[key] = buffer[k].ver

\* A decoder that reaches a key slice holds what it needs, over reconnects,
\* flushes and changes of the sets.  The one exception is the code's: when a
\* flush took the buffer with the sets, and until the camera sends them again
\* or a reopen closes the gate, key pictures go out without.
DecoderHasSets == ~missed => SetsHeld

KeyPictures ==
    {units[k].pic : k \in {n \in DOMAIN units : Type(units[n]) = "IDR"}}

\* The units a delivery owes downstream.
Due == {u \in ToSet(units) :
           /\ ~nal_is_parameter_set(u)
           /\ lead \/ \E p \in KeyPictures : p <= u.pic}

\* When a delivery is done, each unit that is not a parameter set has been
\* pushed once and in order, from the first key picture on if the gate was
\* closed, from the first unit if it was open; and no two access units start
\* at one unit.
NothingLost ==
    /\ TypeOK
    /\ pc = "emit" /\ a = Len(starts) =>
           FlattenSeq([n \in DOMAIN out |-> Forwardable(out[n])]) =
               Kept(units, Due)
=============================================================================
