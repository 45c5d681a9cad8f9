------------------------- MODULE StreamArmingProofs -------------------------
(***************************************************************************)
(* What holds of StreamArming for every camera, quirk table, peer, link,   *)
(* band and request: the mode chosen is one of the largest that all three  *)
(* parties allow, what is offered is accepted; a hint never keeps a stream *)
(* from starting, what runs was read back first, and the properties report *)
(* it.                                                                     *)
(*                                                                         *)
(* The hints come first: that invariant looks at where the streaming       *)
(* thread stands.  The mode is a fold over the advertised modes (the       *)
(* ladder) and one over the ladder (the preference), and its proofs are    *)
(* inductions over the turns of the two loops (FoldRun).                   *)
(***************************************************************************)
EXTENDS StreamArming, FiniteSetTheorems, NaturalsInduction,
        WellFoundedInduction, TLAPS

Streams == [payload : Payloads, buffers : Buffers, verified : BOOLEAN,
            unclean : BOOLEAN, asked : Asked]

\* Where a stream may exist: not between the steps that arm one.
Arming == {"closed", "open", "buffers", "start", "failed", "restart",
           "reopen", "refused"}

QuietInv ==
    /\ pc \in Arming => stream = NoStream /\ goal # "live"
    /\ pc = "payload" /\ goal # "live" => stream = NoStream

\* The count of a handle is libuvc's own until a request is applied to it,
\* and what was applied is what the element reports.
CountInv ==
    /\ pc \in {"open", "buffers", "payload"} /\ goal # "live" =>
           libuvc_buffers = 0
    /\ pc \in {"start", "failed", "restart"} =>
           /\ ~asked.buffers => libuvc_buffers = 0
           /\ libuvc_buffers # 0 => transfer_buffers_effective = libuvc_buffers

\* The control block holds what the last probe proved, unless the clean
\* re-negotiation failed; the device's own payload unless one was asked for.
BlockInv ==
    /\ pc = "payload" =>
           /\ dwMaxPayloadTransferSize = link.default
           /\ proven = link.default /\ ~unclean
    /\ pc \in {"buffers", "start", "failed", "restart"} =>
           /\ ~asked.payload =>
                  dwMaxPayloadTransferSize = link.default /\ ~unclean
           /\ ~unclean => /\ dwMaxPayloadTransferSize = proven
                          /\ dwMaxPayloadTransferSize > 0
                          /\ max_payload_effective = dwMaxPayloadTransferSize

\* Why a start that failed ends where it ends.
FailInv ==
    /\ pc = "restart" =>
           /\ dwMaxPayloadTransferSize = link.default
           /\ ~unclean /\ asked.payload
    /\ StartSurvivesHint

\* What runs, through a live renegotiation too, and what it is told by the
\* effective values until one changes the payload.
StreamInv ==
    /\ pc = "running" \/ goal = "live" \/ stream # NoStream =>
           /\ stream \in Streams
           /\ stream.verified \/ stream.unclean
           /\ ~stream.asked.payload => stream.payload = link.default
           /\ ~stream.asked.buffers => stream.buffers = 0
           /\ stream.buffers # 0 =>
                  transfer_buffers_effective = stream.buffers
    /\ pc = "running" /\ goal # "live" /\ ~stream.unclean =>
           stream.payload > 0 /\ max_payload_effective = stream.payload

ArmingInv ==
    /\ TypeOK /\ QuietInv /\ CountInv /\ BlockInv /\ FailInv /\ StreamInv

-----------------------------------------------------------------------------
(* Lemmas.                                                                 *)

\* A request that is applied lands in its band, whatever the app asked for.
LEMMA ClampInBand ==
    /\ \A v \in PayloadRequests :
           Clamp(v, MAX_PAYLOAD_MIN_LEGAL, MAX_PAYLOAD_MAX)
               \in MAX_PAYLOAD_MIN_LEGAL..MAX_PAYLOAD_MAX
    /\ \A v \in BufferRequests :
           Clamp(v, TRANSFER_BUFFERS_MIN, TRANSFER_BUFFERS_MAX)
               \in TRANSFER_BUFFERS_MIN..TRANSFER_BUFFERS_MAX
BY BandsAssumption, RequestsAssumption DEF Clamp

\* A probe of a device answers a payload that is not zero.
LEMMA DefaultIsPayload ==
    \A l \in Links : /\ l.default \in Payloads /\ l.default > 0
                     /\ l.limit \in Nat
BY LinksAssumption DEF Payloads

\* What a hint is compared with and recorded as is a number.
LEMMA PayloadsAreNumbers == Payloads \subseteq Nat /\ Buffers \subseteq Nat
BY BandsAssumption, LinksAssumption DEF Payloads, Buffers

\* negotiate() picks some mode, or none, for each outcome of its probes: the
\* mode is never looked into here.
LEMMA NegotiateOutcomes ==
    ASSUME Negotiate
    PROVE  /\ pc \in {"open", "running"}
           /\ choice' \in Negotiations
           /\ \/ Probed /\ pc' = "payload"
              \/ /\ pc' = "error"
                 /\ UNCHANGED <<dwMaxPayloadTransferSize, proven, unclean>>
           /\ goal' = IF pc = "running" THEN "live" ELSE "first"
           /\ UNCHANGED <<app, hints, libuvc_buffers, link, stream, asked>>
BY Zenon DEF Negotiate

\* apply_max_payload(): what it leaves in the control block and records, by
\* the request of the moment.
LEMMA PayloadOutcomes ==
    ASSUME TypeOK, Honoured(Clamp(max_payload, MAX_PAYLOAD_MIN_LEGAL,
                                  MAX_PAYLOAD_MAX))
                   \/ CleanSucceeds \/ CleanFails
    PROVE  /\ dwMaxPayloadTransferSize' \in Payloads
           /\ proven' \in Payloads
           /\ max_payload_effective' \in Payloads
           /\ unclean' \in BOOLEAN
           /\ ~unclean' =>
                  /\ dwMaxPayloadTransferSize' = proven'
                  /\ dwMaxPayloadTransferSize' > 0
                  /\ max_payload_effective' = dwMaxPayloadTransferSize'
<1> DEFINE clamped == Clamp(max_payload, MAX_PAYLOAD_MIN_LEGAL,
                            MAX_PAYLOAD_MAX)
<1>1. clamped \in Payloads /\ clamped > 0
  BY ClampInBand, BandsAssumption DEF TypeOK, Payloads
<1>2. link.default \in Payloads /\ link.default > 0
  BY DefaultIsPayload DEF TypeOK
<1>3. CASE Honoured(clamped)
  BY <1>1, <1>3 DEF Honoured
<1>4. CASE CleanSucceeds
  BY <1>2, <1>4 DEF CleanSucceeds, Probed
<1>5. CASE CleanFails
  <2>1. PICK left \in {dwMaxPayloadTransferSize, link.default, clamped} :
            dwMaxPayloadTransferSize' = left
    BY <1>5 DEF CleanFails
  <2>2. left \in Payloads
    BY <1>1, <1>2, <2>1 DEF TypeOK
  <2> QED
    BY <1>5, <2>1, <2>2 DEF CleanFails, TypeOK
<1> QED
  BY <1>3, <1>4, <1>5

\* Which requests were set when they were last read: one field at a time.
LEMMA PayloadAsked ==
    ASSUME asked \in Asked,
           asked' = [asked EXCEPT !.payload = max_payload # 0]
    PROVE  /\ asked' \in Asked
           /\ asked'.payload <=> max_payload # 0
           /\ asked'.buffers = asked.buffers
<1> DEFINE set == max_payload # 0
<1>1. set \in BOOLEAN /\ asked' = [asked EXCEPT !.payload = set]
  OBVIOUS
<1>2. set <=> max_payload # 0
  OBVIOUS
<1> HIDE DEF set
<1> QED
  BY <1>1, <1>2 DEF Asked

\* apply_transfer_buffers() notes whether a count was requested, only that.
LEMMA BuffersAsked ==
    ASSUME asked \in Asked,
           asked' = [asked EXCEPT !.buffers = transfer_buffers # 0]
    PROVE  /\ asked' \in Asked
           /\ asked'.buffers <=> transfer_buffers # 0
           /\ asked'.payload = asked.payload
<1> DEFINE set == transfer_buffers # 0
<1>1. set \in BOOLEAN /\ asked' = [asked EXCEPT !.buffers = set]
  OBVIOUS
<1>2. set <=> transfer_buffers # 0
  OBVIOUS
<1> HIDE DEF set
<1> QED
  BY <1>1, <1>2 DEF Asked

\* uvc_start_streaming() takes what it finds: what runs is what the control
\* block and the handle held.
LEMMA RunningStream ==
    ASSUME TypeOK, Running
    PROVE  /\ stream' \in Streams /\ pc' = "running"
           /\ stream'.payload = dwMaxPayloadTransferSize
           /\ stream'.buffers = libuvc_buffers
           /\ stream'.verified <=> dwMaxPayloadTransferSize = proven
           /\ stream'.unclean = unclean
           /\ stream'.asked = asked
<1> DEFINE same == dwMaxPayloadTransferSize = proven
<1>1. same \in BOOLEAN /\ (same <=> dwMaxPayloadTransferSize = proven)
  OBVIOUS
<1>2. stream' = [payload  |-> dwMaxPayloadTransferSize,
                 buffers  |-> libuvc_buffers,
                 verified |-> same,
                 unclean  |-> unclean,
                 asked    |-> asked]
  BY DEF Running
<1>3. pc' = "running"
  BY DEF Running
<1> HIDE DEF same
<1> QED
  BY <1>1, <1>2, <1>3 DEF TypeOK, Streams

\* Every step stays in the types: what a probe leaves, what a band clamps and
\* what the app asks for are the values there are.
LEMMA TypeStep == ASSUME TypeOK, Next PROVE TypeOK'
<1> USE DEF TypeOK, app, hints, history, Asked
<1>1. CASE SetMaxPayload
  BY <1>1 DEF SetMaxPayload
<1>2. CASE SetTransferBuffers
  BY <1>2 DEF SetTransferBuffers
<1>3. CASE Open
  BY <1>3, BandsAssumption DEF Open, FreshHandle, Buffers
<1>4. CASE Stop
  BY <1>4 DEF Stop
<1>5. CASE Negotiate
  BY <1>5, NegotiateOutcomes, DefaultIsPayload DEF Probed
<1>6. CASE ApplyMaxPayload
  <2>1. CASE max_payload = 0
    BY <1>6, <2>1 DEF ApplyMaxPayload, Unset
  <2>2. CASE max_payload # 0
    BY <1>6, <2>2, PayloadOutcomes DEF ApplyMaxPayload, NotHonoured
  <2> QED
    BY <2>1, <2>2
<1>7. CASE ApplyTransferBuffers
  <2>1. Clamp(transfer_buffers, TRANSFER_BUFFERS_MIN, TRANSFER_BUFFERS_MAX)
            \in Buffers
    BY ClampInBand, BandsAssumption DEF Buffers
  <2> QED
    BY <1>7, <2>1 DEF ApplyTransferBuffers, SetCount
<1>8. CASE StartStreaming
  <2>1. CASE Starts /\ Running
    BY <1>8, <2>1, RunningStream DEF StartStreaming, Streams
  <2>2. CASE ~Starts
    BY <1>8, <2>2 DEF StartStreaming
  <2> QED
    BY <1>8, <2>1, <2>2 DEF StartStreaming
<1>9. CASE Fallback
  <2>1. /\ dwMaxPayloadTransferSize' \in Payloads /\ proven' \in Payloads
        /\ max_payload_effective' \in Payloads /\ unclean' \in BOOLEAN
    BY <1>9, PayloadOutcomes DEF Fallback
  <2>2. /\ asked' \in Asked
        /\ pc' \in {"refused", "restart"}
        /\ UNCHANGED <<app, transfer_buffers_effective, libuvc_buffers, link,
                       goal, stream, choice>>
    BY <1>9, PayloadAsked DEF Fallback
  <2> QED
    BY <2>1, <2>2
<1>10. CASE NoFallback
  <2>1. asked' \in Asked /\ pc' = "refused"
    BY <1>10, PayloadAsked DEF NoFallback
  <2> QED
    BY <1>10, <2>1 DEF NoFallback
<1>11. CASE Restart
  <2>1. CASE Starts /\ Running
    BY <1>11, <2>1, RunningStream DEF Restart, Streams
  <2>2. CASE ~Starts
    BY <1>11, <2>2 DEF Restart
  <2> QED
    BY <1>11, <2>1, <2>2 DEF Restart
<1>12. CASE Lost
  BY <1>12 DEF Lost
<1>13. CASE Reopen
  <2>1. link' \in Links /\ libuvc_buffers' = 0
    BY <1>13 DEF Reopen, FreshHandle
  <2>2. /\ dwMaxPayloadTransferSize' \in Payloads /\ proven' \in Payloads
        /\ unclean' = FALSE
    BY <1>13, <2>1, DefaultIsPayload DEF Reopen, Reprobe
  <2>3. libuvc_buffers' \in Buffers
    BY <2>1, BandsAssumption DEF Buffers
  <2> QED
    BY <1>13, <2>1, <2>2, <2>3 DEF Reopen
<1>14. CASE ReopenFails
  BY <1>14 DEF ReopenFails
<1> QED
  BY <1>1, <1>2, <1>3, <1>4, <1>5, <1>6, <1>7, <1>8, <1>9, <1>10, <1>11,
     <1>12, <1>13, <1>14 DEF Next

\* The parts of the invariant that read no request.
Armed == QuietInv /\ CountInv /\ BlockInv /\ FailInv /\ StreamInv

\* One step of the streaming thread, or of the app, from one point of the
\* arming to the next.
LEMMA ArmedStep == ASSUME ArmingInv, Next PROVE Armed'
<1> USE DEF Arming, app, hints, history, StartSurvivesHint
<1>1. CASE SetMaxPayload \/ SetTransferBuffers
  BY <1>1 DEF SetMaxPayload, SetTransferBuffers, ArmingInv, Armed, QuietInv,
              CountInv, BlockInv, FailInv, StreamInv
<1>2. CASE Open
  BY <1>2 DEF Open, FreshHandle, ArmingInv, Armed, QuietInv, CountInv,
              BlockInv, FailInv, StreamInv
<1>3. CASE Stop
  BY <1>3 DEF Stop, ArmingInv, Armed, QuietInv, CountInv, BlockInv, FailInv,
              StreamInv
<1>4. CASE Negotiate
  BY <1>4, NegotiateOutcomes
     DEF Probed, ArmingInv, Armed, QuietInv, CountInv, BlockInv, FailInv,
         StreamInv
<1>5. CASE ApplyMaxPayload
  <2>1. /\ pc = "payload" /\ pc' = IF goal = "live" THEN "running"
                                   ELSE "buffers"
        /\ asked'.payload <=> max_payload # 0
        /\ asked'.buffers = asked.buffers
        /\ UNCHANGED <<app, transfer_buffers_effective, libuvc_buffers, link,
                       goal, stream>>
    BY <1>5, PayloadAsked DEF ApplyMaxPayload, ArmingInv, TypeOK
  <2>2. /\ ~asked'.payload =>
               dwMaxPayloadTransferSize' = link.default /\ ~unclean'
        /\ ~unclean' =>
               /\ dwMaxPayloadTransferSize' = proven'
               /\ dwMaxPayloadTransferSize' > 0
               /\ max_payload_effective' = dwMaxPayloadTransferSize'
    <3>1. CASE max_payload = 0
      BY <1>5, <2>1, <3>1, DefaultIsPayload
         DEF ApplyMaxPayload, Unset, ArmingInv, BlockInv, TypeOK
    <3>2. CASE max_payload # 0
      BY <1>5, <2>1, <3>2, PayloadOutcomes
         DEF ApplyMaxPayload, NotHonoured, ArmingInv
    <3> QED
      BY <3>1, <3>2
  <2> QED
    BY <2>1, <2>2 DEF ArmingInv, Armed, QuietInv, CountInv, BlockInv, FailInv,
                      StreamInv
<1>6. CASE ApplyTransferBuffers
  <2>1. /\ pc = "buffers" /\ pc' = "start"
        /\ asked'.buffers <=> transfer_buffers # 0
        /\ asked'.payload = asked.payload
        /\ UNCHANGED <<app, max_payload_effective, dwMaxPayloadTransferSize,
                       link, goal, stream, choice, proven, unclean>>
    BY <1>6, BuffersAsked DEF ApplyTransferBuffers, ArmingInv, TypeOK
  <2>2. /\ ~asked'.buffers => libuvc_buffers' = 0
        /\ libuvc_buffers' # 0 => transfer_buffers_effective' = libuvc_buffers'
    <3>1. CASE transfer_buffers = 0
      <4>1. UNCHANGED <<libuvc_buffers, transfer_buffers_effective>>
        BY <1>6, <3>1 DEF ApplyTransferBuffers
      <4> QED
        BY <2>1, <3>1, <4>1 DEF ArmingInv, QuietInv, CountInv
    <3>2. CASE transfer_buffers # 0
      <4>1. SetCount
        BY <1>6, <3>2 DEF ApplyTransferBuffers
      <4> QED
        BY <2>1, <3>2, <4>1 DEF SetCount, ArmingInv, QuietInv, CountInv
    <3> QED
      BY <3>1, <3>2
  <2> QED
    BY <2>1, <2>2 DEF ArmingInv, Armed, QuietInv, CountInv, BlockInv, FailInv,
                      StreamInv
<1>7. CASE StartStreaming
  <2>1. CASE Starts /\ Running
    BY <1>7, <2>1, RunningStream
       DEF StartStreaming, ArmingInv, Armed, QuietInv, CountInv, BlockInv,
           FailInv, StreamInv
  <2>2. CASE ~Starts
    BY <1>7, <2>2
       DEF StartStreaming, ArmingInv, Armed, QuietInv, CountInv, BlockInv,
           FailInv, StreamInv
  <2> QED
    BY <1>7, <2>1, <2>2 DEF StartStreaming
<1>8. CASE Fallback
  <2>1. /\ pc = "failed" /\ max_payload # 0
        /\ pc' = IF unclean' THEN "refused" ELSE "restart"
        /\ asked'.payload
        /\ asked'.buffers = asked.buffers
        /\ UNCHANGED <<app, transfer_buffers_effective, libuvc_buffers, link,
                       goal, stream>>
    BY <1>8, PayloadAsked DEF Fallback, FallbackWanted, ArmingInv, TypeOK
  <2>2. ~unclean' => /\ dwMaxPayloadTransferSize' = link.default
                     /\ dwMaxPayloadTransferSize' = proven'
                     /\ dwMaxPayloadTransferSize' > 0
                     /\ max_payload_effective' = dwMaxPayloadTransferSize'
    BY <1>8, DefaultIsPayload
       DEF Fallback, CleanSucceeds, CleanFails, Probed, ArmingInv, TypeOK
  <2> QED
    BY <2>1, <2>2 DEF ArmingInv, Armed, QuietInv, CountInv, BlockInv, FailInv,
                      StreamInv
<1>9. CASE NoFallback
  <2>1. ~asked'.payload
    BY <1>9, PayloadAsked DEF NoFallback, FallbackWanted, ArmingInv, TypeOK
  <2> QED
    BY <1>9, <2>1 DEF NoFallback, ArmingInv, Armed, QuietInv, CountInv,
                      BlockInv, FailInv, StreamInv
<1>10. CASE Restart
  <2>1. CASE Starts /\ Running
    BY <1>10, <2>1, RunningStream
       DEF Restart, ArmingInv, Armed, QuietInv, CountInv, BlockInv, FailInv,
           StreamInv
  <2>2. CASE ~Starts
    <3>1. link.limit < link.default
      BY <1>10, <2>2, DefaultIsPayload, PayloadsAreNumbers
         DEF Restart, Starts, ArmingInv, FailInv, TypeOK
    <3> QED
      BY <1>10, <2>2, <3>1 DEF Restart, ArmingInv, Armed, QuietInv, CountInv,
                               BlockInv, FailInv, StreamInv
  <2> QED
    BY <1>10, <2>1, <2>2 DEF Restart
<1>11. CASE Lost
  BY <1>11 DEF Lost, ArmingInv, Armed, QuietInv, CountInv, BlockInv, FailInv,
               StreamInv
<1>12. CASE Reopen
  BY <1>12 DEF Reopen, FreshHandle, Reprobe, ArmingInv, Armed, QuietInv,
               CountInv, BlockInv, FailInv, StreamInv
<1>13. CASE ReopenFails
  BY <1>13 DEF ReopenFails, ArmingInv, Armed, QuietInv, CountInv, BlockInv,
               FailInv, StreamInv
<1> QED
  BY <1>1, <1>2, <1>3, <1>4, <1>5, <1>6, <1>7, <1>8, <1>9, <1>10, <1>11,
     <1>12, <1>13 DEF Next

-----------------------------------------------------------------------------
(* Numbers: induction, the least and the greatest of a set.                *)

\* Induction over the naturals, with a set for the predicate.
LEMMA SetInduction ==
    ASSUME NEW S, 0 \in S, \A n \in Nat : n \in S => n + 1 \in S
    PROVE  \A n \in Nat : n \in S
<1> DEFINE T == Nat \ S
<1>1. SUFFICES ASSUME T # {} PROVE FALSE
  OBVIOUS
<1>2. PICK x \in T : \A y \in T : ~(<<y, x>> \in OpToRel(<, Nat))
  BY <1>1, NatLessThanWellFounded, WFMin
<1>3. x - 1 \in T
  <2>1. x \in Nat /\ x # 0
    BY <1>2
  <2>2. x - 1 \in Nat /\ (x - 1) + 1 = x
    BY <2>1
  <2> QED BY <2>2, <1>2
<1>4. <<x - 1, x>> \in Nat \X Nat /\ <<x - 1, x>>[1] < <<x - 1, x>>[2]
  BY <1>3
<1>5. <<x - 1, x>> \in OpToRel(<, Nat)
  BY <1>4, Zenon DEF OpToRel
<1> QED
  BY <1>2, <1>3, <1>5

\* A set of naturals has a least member: a rate of a range, or the first row
\* of a device.
LEMMA MinIsMember ==
    ASSUME NEW S, S \subseteq Nat, S # {}
    PROVE  Min(S) \in S
<1>1. PICK x \in S : \A y \in S : ~(<<y, x>> \in OpToRel(<, Nat))
  BY NatLessThanWellFounded, WFMin
<1>2. ASSUME NEW y \in S PROVE x =< y
  <2>1. SUFFICES ASSUME y < x PROVE FALSE
    OBVIOUS
  <2>2. <<y, x>> \in Nat \X Nat /\ <<y, x>>[1] < <<y, x>>[2]
    BY <2>1
  <2>3. <<y, x>> \in OpToRel(<, Nat)
    BY <2>2, Zenon DEF OpToRel
  <2> QED BY <2>3, <1>1
<1> QED
  BY <1>2, Zenon DEF Min

\* A finite one has a greatest: a rate of a list.
LEMMA MaxIsMember ==
    ASSUME NEW S, S \subseteq Nat, S # {}, IsFiniteSet(S)
    PROVE  Max(S) \in S
<1>1. PICK n \in Nat : ExistsSurjection(1..n, S)
  BY FS_NatSurjection
<1>2. PICK f \in [1..n -> S] : \A y \in S : \E k \in 1..n : f[k] = y
  BY <1>1 DEF ExistsSurjection, Surjection
<1> DEFINE Tops == {m \in Nat : m \in 1..n =>
                        \E x \in 1..m : \A y \in 1..m : f[x] >= f[y]}
<1>3. 0 \in Tops
  OBVIOUS
<1>4. ASSUME NEW m \in Nat, m \in Tops PROVE m + 1 \in Tops
  <2> SUFFICES ASSUME m + 1 \in 1..n
               PROVE  \E x \in 1..(m + 1) : \A y \in 1..(m + 1) : f[x] >= f[y]
    OBVIOUS
  <2>1. \A k \in 1..(m + 1) : f[k] \in Nat
    <3>1. \A k \in 1..(m + 1) : k \in 1..n
      OBVIOUS
    <3> QED BY <1>2, <3>1
  <2>2. CASE m = 0
    BY <2>1, <2>2
  <2>3. CASE m # 0
    <3>1. PICK x \in 1..m : \A y \in 1..m : f[x] >= f[y]
      BY <1>4, <2>3
    <3>2. CASE f[x] >= f[m + 1]
      <4>1. \A y \in 1..(m + 1) : f[x] >= f[y]
        BY <3>1, <3>2
      <4> QED BY <4>1
    <3>3. CASE ~(f[x] >= f[m + 1])
      <4>1. \A y \in 1..(m + 1) : f[m + 1] >= f[y]
        BY <2>1, <3>1, <3>3
      <4> QED BY <4>1
    <3> QED BY <3>2, <3>3
  <2> QED BY <2>2, <2>3
<1> HIDE DEF Tops
<1>5. n \in Tops
  BY <1>3, <1>4, SetInduction
<1>6. n # 0
  <2>1. PICK y \in S : TRUE
    OBVIOUS
  <2>2. PICK k \in 1..n : f[k] = y
    BY <1>2
  <2> QED BY <2>2
<1>7. PICK x \in 1..n : \A y \in 1..n : f[x] >= f[y]
  BY <1>5, <1>6 DEF Tops
<1>8. f[x] \in S /\ \A y \in S : f[x] >= y
  BY <1>2, <1>7
<1> QED
  BY <1>8, Zenon DEF Max

-----------------------------------------------------------------------------
(* Folds: FoldLeft as the loop it stands for.                              *)

\* The last of the positions 1..n, and the others.
LEMMA MaxOfRun ==
    ASSUME NEW n \in Nat \ {0}
    PROVE  /\ Max(1..n) = n
           /\ (1..n) \ {n} = 1..(n - 1)
<1>1. \A x \in 1..n : (\A y \in 1..n : x >= y) => x = n
  OBVIOUS
<1>2. n \in 1..n /\ \A y \in 1..n : n >= y
  OBVIOUS
<1>3. Max(1..n) = n
  BY <1>1, <1>2, Zenon DEF Max
<1> QED BY <1>3

\* f computes a fold of G from base over the sets of positions up to N, as
\* FoldLeft does: the greatest position last.
FoldsTo(f, N, base, G) ==
    \A s \in SUBSET (1..N) :
        f[s] = IF s = {} THEN base ELSE G[<<f[s \ {Max(s)}], Max(s)>>]

\* The greatest position of a set is in it.
LEMMA MaxInRun ==
    ASSUME NEW n \in Nat, NEW s \in SUBSET (1..n), s # {}
    PROVE  Max(s) \in s
<1>1. s \subseteq Nat
  OBVIOUS
<1>2. IsFiniteSet(1..n)
  BY FS_Interval
<1>3. IsFiniteSet(s)
  BY <1>2, FS_Subset
<1> QED BY <1>1, <1>3, MaxIsMember

\* It is n + 1 when that is there.
LEMMA MaxWithTop ==
    ASSUME NEW n \in Nat, NEW s \in SUBSET (1..(n + 1)), n + 1 \in s
    PROVE  Max(s) = n + 1
<1>1. \A y \in s : n + 1 >= y
  OBVIOUS
<1>2. \A x \in s : (\A y \in s : x >= y) => x = n + 1
  OBVIOUS
<1> QED BY <1>1, <1>2, Zenon DEF Max

\* The recursion of a fold has a solution.
LEMMA FoldExists ==
    ASSUME NEW B, NEW base \in B, NEW N \in Nat, NEW G \in [B \X (1..N) -> B]
    PROVE  \E f \in [SUBSET (1..N) -> B] : FoldsTo(f, N, base, G)
<1> DEFINE S == {n \in Nat : n <= N =>
                     \E f \in [SUBSET (1..n) -> B] : FoldsTo(f, n, base, G)}
<1>1. 0 \in S
  <2> DEFINE f == [s \in SUBSET (1..0) |-> base]
  <2>1. f \in [SUBSET (1..0) -> B]
    OBVIOUS
  <2>2. ASSUME NEW s \in SUBSET (1..0) PROVE s = {} /\ f[s] = base
    OBVIOUS
  <2>3. FoldsTo(f, 0, base, G)
    BY <2>2 DEF FoldsTo
  <2> QED BY <2>1, <2>3
<1>2. ASSUME NEW n \in Nat, n \in S PROVE n + 1 \in S
  <2> HIDE DEF S
  <2>1. n + 1 \in Nat
    OBVIOUS
  <2> SUFFICES ASSUME n + 1 <= N
               PROVE  \E f \in [SUBSET (1..(n + 1)) -> B] :
                          FoldsTo(f, n + 1, base, G)
    BY <2>1, Zenon DEF S
  <2>2. n <= N
    OBVIOUS
  <2>3. PICK g \in [SUBSET (1..n) -> B] : FoldsTo(g, n, base, G)
    BY <1>2, <2>2, Zenon DEF S
  <2> DEFINE f == [s \in SUBSET (1..(n + 1)) |->
                      IF n + 1 \in s THEN G[<<g[s \ {n + 1}], n + 1>>]
                      ELSE g[s]]
  <2>4. ASSUME NEW s \in SUBSET (1..(n + 1))
        PROVE  /\ s \ {n + 1} \in SUBSET (1..n)
               /\ n + 1 \notin s => s \in SUBSET (1..n)
    OBVIOUS
  <2>5. n + 1 \in 1..N
    OBVIOUS
  <2>6. f \in [SUBSET (1..(n + 1)) -> B]
    <3> SUFFICES ASSUME NEW s \in SUBSET (1..(n + 1)) PROVE f[s] \in B
      OBVIOUS
    <3>1. CASE n + 1 \in s
      <4>1. g[s \ {n + 1}] \in B
        BY <2>3, <2>4
      <4>2. <<g[s \ {n + 1}], n + 1>> \in B \X (1..N)
        BY <2>5, <4>1
      <4>3. G[<<g[s \ {n + 1}], n + 1>>] \in B
        BY <4>2
      <4> QED BY <3>1, <4>3
    <3>2. CASE n + 1 \notin s
      BY <2>3, <2>4, <3>2
    <3> QED BY <3>1, <3>2
  <2>7. ASSUME NEW s \in SUBSET (1..n) PROVE f[s] = g[s]
    OBVIOUS
  <2>8. \A s \in SUBSET (1..(n + 1)) :
            n + 1 \in s => f[s] = G[<<g[s \ {n + 1}], n + 1>>]
    OBVIOUS
  <2> HIDE DEF f
  <2>9. FoldsTo(f, n + 1, base, G)
    <3> SUFFICES ASSUME NEW s \in SUBSET (1..(n + 1))
                 PROVE  f[s] = IF s = {} THEN base
                               ELSE G[<<f[s \ {Max(s)}], Max(s)>>]
      BY DEF FoldsTo
    <3>1. CASE n + 1 \in s
      <4>1. Max(s) = n + 1
        BY <3>1, MaxWithTop
      <4>2. f[s \ {n + 1}] = g[s \ {n + 1}]
        BY <2>4, <2>7
      <4>3. f[s] = G[<<f[s \ {Max(s)}], Max(s)>>]
        BY <2>8, <3>1, <4>1, <4>2, Zenon
      <4> QED BY <3>1, <4>3
    <3>2. CASE n + 1 \notin s
      <4>1. s \in SUBSET (1..n) /\ f[s] = g[s]
        BY <2>4, <2>7, <3>2
      <4>2. CASE s = {}
        BY <2>3, <4>1, <4>2 DEF FoldsTo
      <4>3. CASE s # {}
        <5>1. s \ {Max(s)} \in SUBSET (1..n)
          BY <4>1
        <5>2. f[s \ {Max(s)}] = g[s \ {Max(s)}]
          BY <2>7, <5>1
        <5>3. g[s] = G[<<g[s \ {Max(s)}], Max(s)>>]
          BY <2>3, <4>1, <4>3 DEF FoldsTo
        <5>4. f[s] = G[<<f[s \ {Max(s)}], Max(s)>>]
          BY <4>1, <5>2, <5>3, Zenon
        <5> QED BY <4>3, <5>4
      <4> QED BY <4>2, <4>3
    <3> QED BY <3>1, <3>2
  <2> QED BY <2>6, <2>9
<1> HIDE DEF S
<1>3. N \in S
  BY <1>1, <1>2, SetInduction
<1>4. N <= N
  OBVIOUS
<1> QED BY <1>3, <1>4, Zenon DEF S

\* it obeys the recursion as far as it stays within B.
Unfolds(it, N, B, base, G) ==
    /\ it[{}] = base
    /\ \A s \in SUBSET (1..N) :
           s # {} /\ it[s \ {Max(s)}] \in B =>
               it[s] = G[<<it[s \ {Max(s)}], Max(s)>>]

\* The values of it on the first n positions, from none to all: what a loop
\* over the sequence holds after n turns.
HasRun(it, N, B, base, G) ==
    \E r \in [0..N -> B] :
        /\ r[0] = base /\ r[N] = it[1..N]
        /\ \A n \in 1..N : r[n] = G[<<r[n - 1], n>>]

\* A fold is a loop, turn by turn.
LEMMA FoldRun ==
    ASSUME NEW B, NEW base, NEW N, NEW G, NEW it,
           base \in B, N \in Nat, G \in [B \X (1..N) -> B],
           Unfolds(it, N, B, base, G)
    PROVE  HasRun(it, N, B, base, G)
<1>1. it[1..0] = base
  <2>1. 1..0 = {}
    OBVIOUS
  <2> QED BY <2>1 DEF Unfolds
<1>2. ASSUME NEW n \in 1..N, it[1..(n - 1)] \in B
      PROVE  it[1..n] = G[<<it[1..(n - 1)], n>>]
  <2>1. 1..n \in SUBSET (1..N) /\ 1..n # {} /\ n \in Nat \ {0}
    <3>1. \A k \in 1..n : k \in 1..N
      OBVIOUS
    <3>2. n \in 1..n
      OBVIOUS
    <3> QED BY <3>1, <3>2
  <2>2. Max(1..n) = n /\ (1..n) \ {n} = 1..(n - 1)
    BY <2>1, MaxOfRun
  <2>3. it[(1..n) \ {Max(1..n)}] \in B
    BY <1>2, <2>2, Zenon
  <2>4. it[1..n] = G[<<it[(1..n) \ {Max(1..n)}], Max(1..n)>>]
    BY <2>1, <2>3 DEF Unfolds
  <2> QED BY <2>2, <2>4, Zenon
<1> DEFINE S == {n \in Nat : n <= N => it[1..n] \in B}
<1>3. 0 \in S
  BY <1>1
<1>4. ASSUME NEW n \in Nat, n \in S PROVE n + 1 \in S
  <2> SUFFICES ASSUME n + 1 <= N PROVE it[1..(n + 1)] \in B
    OBVIOUS
  <2>1. it[1..n] \in B
    BY <1>4
  <2>2. n + 1 \in 1..N /\ (n + 1) - 1 = n
    OBVIOUS
  <2>3. it[1..(n + 1)] = G[<<it[1..n], n + 1>>]
    BY <1>2, <2>1, <2>2
  <2>4. <<it[1..n], n + 1>> \in B \X (1..N)
    BY <2>1, <2>2
  <2> QED BY <2>3, <2>4
<1> HIDE DEF S
<1>5. \A n \in Nat : n \in S
  BY <1>3, <1>4, SetInduction
<1>6. \A n \in 0..N : it[1..n] \in B
  BY <1>5 DEF S
<1> DEFINE r == [n \in 0..N |-> it[1..n]]
<1>7. r \in [0..N -> B] /\ \A n \in 0..N : r[n] = it[1..n]
  BY <1>6
<1> HIDE DEF r
<1>8. r[0] = base /\ r[N] = it[1..N]
  BY <1>1, <1>7
<1>9. ASSUME NEW n \in 1..N PROVE r[n] = G[<<r[n - 1], n>>]
  <2>1. n \in 0..N /\ n - 1 \in 0..N
    OBVIOUS
  <2>2. r[n] = it[1..n] /\ r[n - 1] = it[1..(n - 1)]
    BY <1>7, <2>1
  <2>3. it[1..(n - 1)] \in B
    BY <1>6, <2>1
  <2>4. it[1..n] = G[<<it[1..(n - 1)], n>>]
    BY <1>2, <2>3
  <2> QED BY <2>2, <2>4, Zenon
<1> QED BY <1>7, <1>8, <1>9 DEF HasRun

-----------------------------------------------------------------------------
(* The preference, as a loop over the ladder.                              *)

\* What the loop of negotiate() may hold as its best.
Picks == [codec : {"none"} \cup STRING, w : Int, h : Int, rate : Int]

\* The loop starts within them.
LEMMA NoModeIsPick == NoMode \in Picks
<1>1. -1 \in Int
  OBVIOUS
<1>2. "none" \in {"none"} \cup STRING
  BY Zenon
<1> QED BY <1>1, <1>2, Zenon DEF NoMode, Picks

\* What CamerasAssumption says of a camera's modes.
Ladder(ladder) ==
    /\ ladder \in Seq(Modes)
    /\ \A n \in 1..Len(ladder) :
           Pixels(ladder[n]) >= 2 /\ IsFiniteSet(ladder[n].rates)

\* The fixated rate is one that the mode and the peer have.
LEMMA RateFixated ==
    ASSUME NEW peer, NEW m \in Modes, IsFiniteSet(m.rates), Compatible(peer, m)
    PROVE  Fixated(peer, m) \in m.rates /\ Fixated(peer, m) \in peer.rates
<1>1. Common(peer, m) \subseteq m.rates /\ Common(peer, m) # {}
      /\ Common(peer, m) \subseteq peer.rates
  BY DEF Compatible, Common
<1>2. Common(peer, m) \subseteq Nat
  BY <1>1 DEF Modes
<1>3. IsFiniteSet(Common(peer, m))
  BY <1>1, FS_Subset
<1>4. Max(Common(peer, m)) \in Common(peer, m)
  BY <1>1, <1>2, <1>3, MaxIsMember
<1>5. Min(Common(peer, m)) \in Common(peer, m)
  BY <1>1, <1>2, MinIsMember
<1> QED BY <1>1, <1>4, <1>5 DEF Fixated

\* A turn of the loop stays within Picks.
LEMMA BetterIsPick ==
    ASSUME NEW peer, NEW best \in Picks, NEW m \in Modes, IsFiniteSet(m.rates)
    PROVE  Better(peer, best, m) \in Picks
<1>1. CASE Compatible(peer, m) /\ Preferred(best, m)
  <2>1. Fixated(peer, m) \in Int
    <3>1. Fixated(peer, m) \in m.rates
      BY <1>1, RateFixated
    <3> QED BY <3>1 DEF Modes
  <2> QED BY <1>1, <2>1 DEF Better, Picks, Modes
<1>2. CASE ~(Compatible(peer, m) /\ Preferred(best, m))
  BY <1>2 DEF Better
<1> QED BY <1>1, <1>2

\* r[n] is what the loop holds after n modes of the ladder.
Picked(r, peer, ladder) ==
    /\ r[0] = NoMode
    /\ \A n \in 1..Len(ladder) : r[n] = Better(peer, r[n - 1], ladder[n])

\* The preference, turn by turn.
LEMMA SelectSteps ==
    ASSUME NEW peer, NEW ladder, Ladder(ladder)
    PROVE  \E r \in [0..Len(ladder) -> Picks] :
               Picked(r, peer, ladder) /\ Select(peer, ladder) = r[Len(ladder)]
<1> DEFINE N == Len(ladder)
           G == [x \in Picks \X (1..N) |-> Better(peer, x[1], ladder[x[2]])]
<1>1. N \in Nat /\ DOMAIN ladder = 1..N /\ \A n \in 1..N : ladder[n] \in Modes
  BY DEF Ladder
<1>2. G \in [Picks \X (1..N) -> Picks]
  <2> SUFFICES ASSUME NEW b \in Picks, NEW n \in 1..N
               PROVE  Better(peer, b, ladder[n]) \in Picks
    OBVIOUS
  <2>1. ladder[n] \in Modes /\ IsFiniteSet(ladder[n].rates)
    BY <1>1 DEF Ladder
  <2> QED BY <2>1, BetterIsPick
<1>3. \A b \in Picks, n \in 1..N : G[<<b, n>>] = Better(peer, b, ladder[n])
  OBVIOUS
<1> DEFINE Rec(f) == f = [s \in SUBSET DOMAIN ladder |->
               IF s = {} THEN NoMode
               ELSE Better(peer, f[s \ {Max(s)}], ladder[Max(s)])]
           it == CHOOSE f : Rec(f)
<1>4. Select(peer, ladder) = it[DOMAIN ladder]
  BY Zenon DEF Select, FoldLeft, MapThenFoldSet
<1> HIDE DEF G, N
<1>5. PICK g \in [SUBSET (1..N) -> Picks] : FoldsTo(g, N, NoMode, G)
  BY <1>1, <1>2, FoldExists, NoModeIsPick
<1>6. ASSUME NEW s \in SUBSET (1..N), s # {}
      PROVE  /\ Max(s) \in 1..N
             /\ s \ {Max(s)} \in SUBSET (1..N)
  <2>1. Max(s) \in s
    BY <1>1, <1>6, MaxInRun
  <2> QED BY <2>1
<1>7. Rec(g)
  <2>1. ASSUME NEW s \in SUBSET (1..N)
        PROVE  g[s] = IF s = {} THEN NoMode
                      ELSE Better(peer, g[s \ {Max(s)}], ladder[Max(s)])
    <3>1. CASE s = {}
      BY <1>5, <3>1 DEF FoldsTo
    <3>2. CASE s # {}
      <4>1. g[s] = G[<<g[s \ {Max(s)}], Max(s)>>]
        BY <1>5, <3>2 DEF FoldsTo
      <4>2. g[s \ {Max(s)}] \in Picks /\ Max(s) \in 1..N
        BY <1>5, <1>6, <3>2
      <4>3. g[s] = Better(peer, g[s \ {Max(s)}], ladder[Max(s)])
        BY <1>3, <4>1, <4>2
      <4> QED BY <3>2, <4>3
    <3> QED BY <3>1, <3>2
  <2>2. DOMAIN g = SUBSET DOMAIN ladder /\ SUBSET DOMAIN ladder = SUBSET (1..N)
    BY <1>1
  <2> QED BY <1>5, <2>1, <2>2
<1>8. Rec(it)
  <2> HIDE DEF Rec
  <2> QED BY <1>7, Zenon
<1>9. Unfolds(it, N, Picks, NoMode, G)
  <2>1. \A s \in SUBSET (1..N) :
            it[s] = IF s = {} THEN NoMode
                    ELSE Better(peer, it[s \ {Max(s)}], ladder[Max(s)])
    BY <1>1, <1>8
  <2> HIDE DEF it
  <2>2. {} \in SUBSET (1..N)
    OBVIOUS
  <2>3. it[{}] = NoMode
    BY <2>1, <2>2, Zenon
  <2>4. ASSUME NEW s \in SUBSET (1..N), s # {}, it[s \ {Max(s)}] \in Picks
        PROVE  it[s] = G[<<it[s \ {Max(s)}], Max(s)>>]
    BY <1>3, <1>6, <2>1, <2>4
  <2> QED BY <2>3, <2>4 DEF Unfolds
<1> HIDE DEF it
<1>10. HasRun(it, N, Picks, NoMode, G)
  BY <1>1, <1>2, <1>9, NoModeIsPick, FoldRun
<1>11. PICK r \in [0..N -> Picks] :
        /\ r[0] = NoMode /\ r[N] = it[1..N]
        /\ \A n \in 1..N : r[n] = G[<<r[n - 1], n>>]
  BY <1>10 DEF HasRun
<1>12. Picked(r, peer, ladder)
  <2>1. ASSUME NEW n \in 1..N PROVE r[n] = Better(peer, r[n - 1], ladder[n])
    <3>1. n - 1 \in 0..N
      BY <1>1
    <3>2. r[n - 1] \in Picks
      BY <3>1
    <3> QED BY <1>3, <1>11, <3>2
  <2> QED BY <1>11, <2>1 DEF Picked, N
<1>13. Select(peer, ladder) = r[N]
  BY <1>1, <1>4, <1>11
<1> QED BY <1>12, <1>13 DEF N

-----------------------------------------------------------------------------
(* The cap: a product and a quotient that agree.                           *)

\* The arithmetic of the pixel cap: products of naturals are naturals ...
LEMMA Product == \A p, a \in Nat : p * a \in Nat
OBVIOUS

\* ... grow with a factor ...
LEMMA ProductGrows ==
    ASSUME NEW p \in Nat, NEW a \in Nat, NEW b \in Nat, a <= b
    PROVE  p * a <= p * b
OBVIOUS

\* ... by as much as the other one ...
LEMMA ProductStep ==
    ASSUME NEW p \in Nat, NEW a \in Nat
    PROVE  p * (a + 1) = p * a + p
OBVIOUS

\* ... and bound the quotient from both sides.
LEMMA Quotient ==
    ASSUME NEW cap \in Nat, NEW p \in Nat \ {0}
    PROVE  /\ cap \div p \in Nat
           /\ p * (cap \div p) <= cap
           /\ cap < p * (cap \div p) + p
OBVIOUS

\* The two judgments of the filter agree: a range clamped to the quotient
\* keeps the rates that a list keeps by the product.
LEMMA CapsAgree ==
    ASSUME NEW cap \in Nat, NEW p \in Nat \ {0}, NEW a \in Nat
    PROVE  a <= cap \div p <=> p * a <= cap
<1> DEFINE q == cap \div p
<1>1. q \in Nat /\ p * q <= cap /\ cap < p * q + p
  BY Quotient
<1> HIDE DEF q
<1>2. ASSUME a <= q PROVE p * a <= cap
  <2>1. p * a <= p * q
    BY <1>1, <1>2, ProductGrows
  <2>2. p * a \in Nat /\ p * q \in Nat
    BY <1>1, Product
  <2> QED BY <1>1, <2>1, <2>2
<1>3. ASSUME ~(a <= q) PROVE ~(p * a <= cap)
  <2>1. p * (q + 1) <= p * a
    BY <1>1, <1>3, ProductGrows
  <2>2. p * (q + 1) = p * q + p
    BY <1>1, ProductStep
  <2>3. p * a \in Nat /\ p * q \in Nat
    BY <1>1, Product
  <2> QED BY <1>1, <2>1, <2>2, <2>3
<1>4. a <= q <=> p * a <= cap
  BY <1>2, <1>3
<1> QED BY <1>4 DEF q

-----------------------------------------------------------------------------
(* The ladder, as a loop over the advertised modes.                        *)

\* Sequences of well-formed modes.
Ladders == {ladder \in Seq(Modes) : Ladder(ladder)}

\* The ladder starts empty.
LEMMA NoneIsLadder == <<>> \in Ladders
<1>1. <<>> \in Seq(Modes) /\ Len(<<>>) = 0
  OBVIOUS
<1> QED BY <1>1 DEF Ladders, Ladder

\* The filter takes rates away from a mode and changes nothing else.
LEMMA FilterIsMode ==
    ASSUME NEW cap, NEW m \in Modes, Pixels(m) >= 2, IsFiniteSet(m.rates)
    PROVE  /\ Filter(cap, m) \in Modes
           /\ Filter(cap, m).codec = m.codec /\ Filter(cap, m).w = m.w
           /\ Filter(cap, m).h = m.h /\ Filter(cap, m).kind = m.kind
           /\ Filter(cap, m).rates = WithinCap(cap, m)
           /\ Pixels(Filter(cap, m)) = Pixels(m)
           /\ IsFiniteSet(Filter(cap, m).rates)
<1>1. WithinCap(cap, m) \subseteq m.rates
  BY DEF WithinCap
<1>2. IsFiniteSet(WithinCap(cap, m))
  BY <1>1, FS_Subset
<1>3. WithinCap(cap, m) \in SUBSET Nat
  BY <1>1 DEF Modes
<1>4. /\ Filter(cap, m) \in Modes
      /\ Filter(cap, m).codec = m.codec /\ Filter(cap, m).w = m.w
      /\ Filter(cap, m).h = m.h /\ Filter(cap, m).kind = m.kind
      /\ Filter(cap, m).rates = WithinCap(cap, m)
  BY <1>3 DEF Filter, Modes
<1>5. Pixels(Filter(cap, m)) = Pixels(m)
  BY <1>4, Zenon DEF Pixels
<1> QED BY <1>2, <1>4, <1>5

\* A turn of the loop keeps the ladder well-formed.
LEMMA PublishIsLadder ==
    ASSUME NEW cap, NEW ladder \in Ladders, NEW m \in Modes,
           Pixels(m) >= 2, IsFiniteSet(m.rates)
    PROVE  Publish(cap, ladder, m) \in Ladders
<1> DEFINE f == Filter(cap, m)
<1>1. f \in Modes /\ IsFiniteSet(f.rates) /\ Pixels(f) >= 2
  BY FilterIsMode
<1> HIDE DEF f
<1>2. Append(ladder, f) \in Ladders
  <2> DEFINE next == Append(ladder, f)
  <2>1. ladder \in Seq(Modes)
    BY DEF Ladders
  <2>2. /\ next \in Seq(Modes) /\ Len(next) = Len(ladder) + 1
        /\ next[Len(ladder) + 1] = f
        /\ \A n \in 1..Len(ladder) : next[n] = ladder[n]
        /\ Len(ladder) \in Nat
    BY <1>1, <2>1
  <2> HIDE DEF next
  <2>3. ASSUME NEW n \in 1..Len(next)
        PROVE  Pixels(next[n]) >= 2 /\ IsFiniteSet(next[n].rates)
    <3>1. CASE n = Len(ladder) + 1
      BY <1>1, <2>2, <3>1
    <3>2. CASE n # Len(ladder) + 1
      <4>1. n \in 1..Len(ladder)
        BY <2>2, <3>2
      <4>2. next[n] = ladder[n]
        BY <2>2, <4>1
      <4> QED BY <4>1, <4>2 DEF Ladders, Ladder
    <3> QED BY <3>1, <3>2
  <2>4. next \in Ladders
    BY <2>2, <2>3 DEF Ladders, Ladder
  <2> QED BY <2>4 DEF next
<1> QED BY <1>2 DEF Publish, f

\* r[n] is the ladder after n of the camera's modes.
Published(r, cap, modes) ==
    /\ r[0] = <<>>
    /\ \A n \in 1..Len(modes) : r[n] = Publish(cap, r[n - 1], modes[n])

\* The ladder, turn by turn.
LEMMA PublishSteps ==
    ASSUME NEW cap, NEW modes, Ladder(modes)
    PROVE  \E r \in [0..Len(modes) -> Ladders] :
               /\ Published(r, cap, modes)
               /\ Deliverable(cap, modes) = r[Len(modes)]
<1> DEFINE N == Len(modes)
           G == [x \in Ladders \X (1..N) |-> Publish(cap, x[1], modes[x[2]])]
<1>1. N \in Nat /\ DOMAIN modes = 1..N /\ \A n \in 1..N : modes[n] \in Modes
  BY DEF Ladder
<1>2. G \in [Ladders \X (1..N) -> Ladders]
  <2> SUFFICES ASSUME NEW b \in Ladders, NEW n \in 1..N
               PROVE  Publish(cap, b, modes[n]) \in Ladders
    OBVIOUS
  <2>1. modes[n] \in Modes /\ IsFiniteSet(modes[n].rates)
        /\ Pixels(modes[n]) >= 2
    BY <1>1 DEF Ladder
  <2> QED BY <2>1, PublishIsLadder
<1>3. \A b \in Ladders, n \in 1..N : G[<<b, n>>] = Publish(cap, b, modes[n])
  OBVIOUS
<1> DEFINE Rec(f) == f = [s \in SUBSET DOMAIN modes |->
               IF s = {} THEN <<>>
               ELSE Publish(cap, f[s \ {Max(s)}], modes[Max(s)])]
           it == CHOOSE f : Rec(f)
<1>4. Deliverable(cap, modes) = it[DOMAIN modes]
  BY Zenon DEF Deliverable, FoldLeft, MapThenFoldSet
<1> HIDE DEF G, N
<1>5. PICK g \in [SUBSET (1..N) -> Ladders] : FoldsTo(g, N, <<>>, G)
  BY <1>1, <1>2, FoldExists, NoneIsLadder
<1>6. ASSUME NEW s \in SUBSET (1..N), s # {}
      PROVE  /\ Max(s) \in 1..N
             /\ s \ {Max(s)} \in SUBSET (1..N)
  <2>1. Max(s) \in s
    BY <1>1, <1>6, MaxInRun
  <2> QED BY <2>1
<1>7. Rec(g)
  <2>1. ASSUME NEW s \in SUBSET (1..N)
        PROVE  g[s] = IF s = {} THEN <<>>
                      ELSE Publish(cap, g[s \ {Max(s)}], modes[Max(s)])
    <3>1. CASE s = {}
      BY <1>5, <3>1 DEF FoldsTo
    <3>2. CASE s # {}
      <4>1. g[s] = G[<<g[s \ {Max(s)}], Max(s)>>]
        BY <1>5, <3>2 DEF FoldsTo
      <4>2. g[s \ {Max(s)}] \in Ladders /\ Max(s) \in 1..N
        BY <1>5, <1>6, <3>2
      <4>3. g[s] = Publish(cap, g[s \ {Max(s)}], modes[Max(s)])
        BY <1>3, <4>1, <4>2
      <4> QED BY <3>2, <4>3
    <3> QED BY <3>1, <3>2
  <2>2. DOMAIN g = SUBSET DOMAIN modes /\ SUBSET DOMAIN modes = SUBSET (1..N)
    BY <1>1
  <2> QED BY <1>5, <2>1, <2>2
<1>8. Rec(it)
  <2> HIDE DEF Rec
  <2> QED BY <1>7, Zenon
<1>9. Unfolds(it, N, Ladders, <<>>, G)
  <2>1. \A s \in SUBSET (1..N) :
            it[s] = IF s = {} THEN <<>>
                    ELSE Publish(cap, it[s \ {Max(s)}], modes[Max(s)])
    BY <1>1, <1>8
  <2> HIDE DEF it
  <2>2. {} \in SUBSET (1..N)
    OBVIOUS
  <2>3. it[{}] = <<>>
    BY <2>1, <2>2, Zenon
  <2>4. ASSUME NEW s \in SUBSET (1..N), s # {}, it[s \ {Max(s)}] \in Ladders
        PROVE  it[s] = G[<<it[s \ {Max(s)}], Max(s)>>]
    BY <1>3, <1>6, <2>1, <2>4
  <2> QED BY <2>3, <2>4 DEF Unfolds
<1> HIDE DEF it
<1>10. HasRun(it, N, Ladders, <<>>, G)
  BY <1>1, <1>2, <1>9, NoneIsLadder, FoldRun
<1>11. PICK r \in [0..N -> Ladders] :
        /\ r[0] = <<>> /\ r[N] = it[1..N]
        /\ \A n \in 1..N : r[n] = G[<<r[n - 1], n>>]
  BY <1>10 DEF HasRun
<1>12. Published(r, cap, modes)
  <2>1. ASSUME NEW n \in 1..N PROVE r[n] = Publish(cap, r[n - 1], modes[n])
    <3>1. n - 1 \in 0..N
      BY <1>1
    <3>2. r[n - 1] \in Ladders
      BY <3>1
    <3> QED BY <1>3, <1>11, <3>2
  <2> QED BY <1>11, <2>1 DEF Published, N
<1>13. Deliverable(cap, modes) = r[N]
  BY <1>1, <1>4, <1>11
<1> QED BY <1>12, <1>13 DEF N

-----------------------------------------------------------------------------
(* What the two loops compute.                                             *)

\* The ladder has an entry for each mode that survives the filter, and no
\* other.
LEMMA LadderHolds ==
    ASSUME NEW cap, NEW modes, Ladder(modes)
    PROVE  LET ladder == Deliverable(cap, modes)
           IN  /\ ladder \in Ladders
               /\ \A k \in 1..Len(ladder) : \E n \in 1..Len(modes) :
                      /\ ladder[k] = Filter(cap, modes[n])
                      /\ Publishable(Filter(cap, modes[n]))
               /\ \A n \in 1..Len(modes) :
                      Publishable(Filter(cap, modes[n])) =>
                          \E k \in 1..Len(ladder) :
                              ladder[k] = Filter(cap, modes[n])
<1> DEFINE N == Len(modes)
           F(n) == Filter(cap, modes[n])
<1>1. N \in Nat
  BY DEF Ladder
<1>2. PICK r \in [0..N -> Ladders] :
          Published(r, cap, modes) /\ Deliverable(cap, modes) = r[N]
  BY PublishSteps
<1> DEFINE From(l, n) == \A k \in 1..Len(l) : \E i \in 1..n :
                             l[k] = F(i) /\ Publishable(F(i))
           All(l, n) == \A i \in 1..n :
                            Publishable(F(i)) =>
                                \E k \in 1..Len(l) : l[k] = F(i)
           S == {n \in Nat : n <= N => From(r[n], n) /\ All(r[n], n)}
<1>3. 0 \in S
  BY <1>2 DEF Published
<1>4. ASSUME NEW n \in Nat, n \in S PROVE n + 1 \in S
  <2> SUFFICES ASSUME n + 1 <= N
               PROVE  From(r[n + 1], n + 1) /\ All(r[n + 1], n + 1)
    OBVIOUS
  <2> DEFINE l == r[n]  x == r[n + 1]
  <2>1. From(l, n) /\ All(l, n)
    BY <1>1, <1>4
  <2>2. n + 1 \in 1..N /\ (n + 1) - 1 = n /\ n \in 0..N
    BY <1>1
  <2>3. x = Publish(cap, l, modes[n + 1])
    BY <1>2, <2>2 DEF Published
  <2>4. l \in Seq(Modes) /\ Len(l) \in Nat
    BY <1>2, <2>2 DEF Ladders
  <2> HIDE DEF l, x, F
  <2>5. CASE Publishable(F(n + 1))
    <3>1. x = Append(l, F(n + 1))
      BY <2>3, <2>5 DEF Publish, F
    <3>2. /\ Len(x) = Len(l) + 1 /\ x[Len(l) + 1] = F(n + 1)
          /\ \A k \in 1..Len(l) : x[k] = l[k]
      BY <2>4, <3>1
    <3> HIDE DEF From, All
    <3>3. From(x, n + 1)
      <4>1. ASSUME NEW k \in 1..Len(x)
            PROVE  \E i \in 1..(n + 1) : x[k] = F(i) /\ Publishable(F(i))
        <5>1. CASE k = Len(l) + 1
          <6>1. n + 1 \in 1..(n + 1)
            OBVIOUS
          <6> QED BY <2>5, <3>2, <5>1, <6>1
        <5>2. CASE k # Len(l) + 1
          <6>1. k \in 1..Len(l)
            BY <2>4, <3>2, <5>2
          <6>2. PICK i \in 1..n : l[k] = F(i) /\ Publishable(F(i))
            BY <2>1, <6>1 DEF From
          <6>3. i \in 1..(n + 1)
            OBVIOUS
          <6>4. x[k] = F(i)
            BY <3>2, <6>1, <6>2
          <6> QED BY <6>2, <6>3, <6>4
        <5> QED BY <5>1, <5>2
      <4> QED BY <4>1 DEF From
    <3>4. All(x, n + 1)
      <4>1. ASSUME NEW i \in 1..(n + 1), Publishable(F(i))
            PROVE  \E k \in 1..Len(x) : x[k] = F(i)
        <5>1. CASE i = n + 1
          <6>1. Len(l) + 1 \in 1..Len(x)
            BY <2>4, <3>2
          <6>2. x[Len(l) + 1] = F(i)
            BY <3>2, <5>1
          <6> QED BY <6>1, <6>2
        <5>2. CASE i # n + 1
          <6>1. i \in 1..n
            BY <5>2
          <6>2. PICK k \in 1..Len(l) : l[k] = F(i)
            BY <2>1, <4>1, <6>1 DEF All
          <6>3. k \in 1..Len(x)
            BY <2>4, <3>2
          <6> QED BY <3>2, <6>2, <6>3
        <5> QED BY <5>1, <5>2
      <4> QED BY <4>1 DEF All
    <3> QED BY <3>3, <3>4 DEF x
  <2>6. CASE ~Publishable(F(n + 1))
    <3>1. x = l
      BY <2>3, <2>6 DEF Publish, F
    <3>2. From(x, n + 1)
      <4>1. \A i \in 1..n : i \in 1..(n + 1)
        OBVIOUS
      <4> QED BY <2>1, <3>1, <4>1
    <3>3. All(x, n + 1)
      <4>1. \A i \in 1..(n + 1) : i = n + 1 \/ i \in 1..n
        OBVIOUS
      <4> QED BY <2>1, <2>6, <3>1, <4>1
    <3> QED BY <3>2, <3>3 DEF x
  <2> QED BY <2>5, <2>6
<1> HIDE DEF S
<1>5. N \in S
  BY <1>1, <1>3, <1>4, SetInduction
<1>6. From(r[N], N) /\ All(r[N], N)
  BY <1>1, <1>5 DEF S
<1>7. r[N] \in Ladders
  BY <1>1, <1>2
<1> QED BY <1>2, <1>6, <1>7

\* What a compatible mode is picked as.
Pick(peer, m) ==
    [codec |-> m.codec, w |-> m.w, h |-> m.h, rate |-> Fixated(peer, m)]

\* A picked mode is not the initial one, which every mode is preferred to.
LEMMA PickIsMode ==
    ASSUME NEW peer, NEW m \in Modes, Pixels(m) >= 2
    PROVE  /\ Pick(peer, m) # NoMode
           /\ Pixels(Pick(peer, m)) = Pixels(m) /\ Pixels(m) \in Nat
           /\ Preferred(NoMode, m)
<1>1. m.w \in Nat \ {0} /\ m.h \in Nat \ {0}
  BY DEF Modes
<1>2. Pick(peer, m).w = m.w /\ Pick(peer, m).h = m.h
  BY DEF Pick
<1>3. Pixels(Pick(peer, m)) = Pixels(m)
  BY <1>2, Zenon DEF Pixels
<1>4. Pixels(m) \in Nat
  BY <1>1, Product DEF Pixels
<1>5. NoMode.w = -1 /\ NoMode.h = -1
  BY DEF NoMode
<1>6. Pixels(NoMode) = 1
  BY <1>5 DEF Pixels
<1>7. Preferred(NoMode, m)
  BY <1>4, <1>6 DEF Preferred
<1>8. Pick(peer, m) # NoMode
  <2>1. m.w # -1
    BY <1>1
  <2> QED BY <1>2, <1>5, <2>1
<1> QED BY <1>3, <1>4, <1>7, <1>8

\* The preference finds none only if none is compatible, and otherwise one
\* of the largest.
LEMMA SelectLargest ==
    ASSUME NEW peer, NEW ladder, Ladder(ladder)
    PROVE  LET best == Select(peer, ladder)
           IN  \/ /\ best = NoMode
                  /\ \A k \in 1..Len(ladder) : ~Compatible(peer, ladder[k])
               \/ /\ best # NoMode
                  /\ \E k \in 1..Len(ladder) :
                         /\ Compatible(peer, ladder[k])
                         /\ best = Pick(peer, ladder[k])
                  /\ \A k \in 1..Len(ladder) : Compatible(peer, ladder[k]) =>
                         Pixels(ladder[k]) <= Pixels(best)
<1> DEFINE N == Len(ladder)
<1>1. N \in Nat
  BY DEF Ladder
<1>2. PICK r \in [0..N -> Picks] :
          Picked(r, peer, ladder) /\ Select(peer, ladder) = r[N]
  BY SelectSteps
<1>3. ASSUME NEW k \in 1..N
      PROVE  /\ Pick(peer, ladder[k]) # NoMode
             /\ Pixels(Pick(peer, ladder[k])) = Pixels(ladder[k])
             /\ Pixels(ladder[k]) \in Nat
             /\ Preferred(NoMode, ladder[k])
  <2>1. ladder[k] \in Modes /\ Pixels(ladder[k]) >= 2
    BY DEF Ladder
  <2> QED BY <2>1, PickIsMode
<1> DEFINE C(k) == Compatible(peer, ladder[k])
           P(k) == Pixels(ladder[k])
           None(best, n) == best = NoMode /\ \A k \in 1..n : ~C(k)
           Some(best, n) ==
               /\ best # NoMode
               /\ \E k \in 1..n : C(k) /\ best = Pick(peer, ladder[k])
               /\ \A k \in 1..n : C(k) => P(k) <= Pixels(best)
           S == {n \in Nat : n <= N => None(r[n], n) \/ Some(r[n], n)}
<1>4. 0 \in S
  BY <1>2 DEF Picked
<1>5. ASSUME NEW n \in Nat, n \in S PROVE n + 1 \in S
  <2> SUFFICES ASSUME n + 1 <= N
               PROVE  None(r[n + 1], n + 1) \/ Some(r[n + 1], n + 1)
    OBVIOUS
  <2> DEFINE b == r[n]  x == r[n + 1]
  <2>1. None(b, n) \/ Some(b, n)
    BY <1>1, <1>5
  <2>2. n + 1 \in 1..N /\ (n + 1) - 1 = n
    BY <1>1
  <2>3. x = Better(peer, b, ladder[n + 1])
    BY <1>2, <2>2 DEF Picked
  <2>4. \A k \in 1..n : k \in 1..(n + 1) /\ k \in 1..N
    BY <1>1
  <2>5. n + 1 \in 1..(n + 1) /\ \A k \in 1..(n + 1) : k = n + 1 \/ k \in 1..n
    OBVIOUS
  <2>6. \A k \in 1..N : P(k) \in Nat
    BY <1>3
  <2>7. Some(b, n) => Pixels(b) \in Nat
    <3>1. SUFFICES ASSUME Some(b, n) PROVE Pixels(b) \in Nat
      OBVIOUS
    <3>2. PICK k \in 1..n : b = Pick(peer, ladder[k])
      BY <3>1
    <3>3. k \in 1..N
      BY <2>4
    <3> QED BY <1>3, <3>2, <3>3
  <2>8. C(n + 1) <=> Compatible(peer, ladder[n + 1])
    BY Zenon
  <2>9. P(n + 1) = Pixels(ladder[n + 1])
    BY Zenon
  <2> HIDE DEF b, x, C, P
  <2>10. CASE C(n + 1) /\ Preferred(b, ladder[n + 1])
    <3>1. x = Pick(peer, ladder[n + 1])
      BY <2>3, <2>10, <2>8 DEF Better, Pick
    <3>2. x # NoMode /\ Pixels(x) = P(n + 1) /\ P(n + 1) \in Nat
      BY <1>3, <2>2, <2>9, <3>1
    <3>3. \A k \in 1..n : C(k) => P(k) <= P(n + 1)
      <4>1. CASE None(b, n)
        BY <4>1
      <4>2. CASE Some(b, n)
        <5>1. Pixels(b) <= P(n + 1)
          BY <2>10, <2>9, <2>7, <3>2, <4>2 DEF Preferred
        <5>2. \A k \in 1..n : P(k) \in Nat /\ (C(k) => P(k) <= Pixels(b))
          BY <2>4, <2>6, <4>2
        <5> HIDE DEF Some
        <5> QED BY <2>7, <3>2, <4>2, <5>1, <5>2
      <4> QED BY <2>1, <4>1, <4>2
    <3>4. \A k \in 1..(n + 1) : C(k) => P(k) <= Pixels(x)
      BY <2>5, <3>2, <3>3
    <3>5. Some(x, n + 1)
      BY <2>5, <2>10, <3>1, <3>2, <3>4
    <3> QED BY <3>5 DEF x
  <2>11. CASE ~(C(n + 1) /\ Preferred(b, ladder[n + 1]))
    <3>1. x = b
      BY <2>3, <2>11, <2>8 DEF Better
    <3>2. CASE None(b, n)
      <4>1. ~C(n + 1)
        BY <1>3, <2>2, <2>11, <3>2
      <4>2. None(x, n + 1)
        BY <2>5, <3>1, <3>2, <4>1
      <4> QED BY <4>2 DEF x
    <3>3. CASE Some(b, n)
      <4>1. C(n + 1) => P(n + 1) <= Pixels(b)
        BY <2>2, <2>11, <2>9, <2>6, <2>7, <3>3 DEF Preferred
      <4>2. \A k \in 1..(n + 1) : C(k) => P(k) <= Pixels(x)
        BY <2>5, <3>1, <3>3, <4>1
      <4>3. \E k \in 1..(n + 1) : C(k) /\ x = Pick(peer, ladder[k])
        BY <2>4, <3>1, <3>3
      <4>4. Some(x, n + 1)
        BY <3>1, <3>3, <4>2, <4>3
      <4> QED BY <4>4 DEF x
    <3> QED BY <2>1, <3>2, <3>3
  <2> QED BY <2>10, <2>11
<1> HIDE DEF S
<1>6. N \in S
  BY <1>1, <1>4, <1>5, SetInduction
<1>7. None(r[N], N) \/ Some(r[N], N)
  BY <1>1, <1>6 DEF S
<1> QED BY <1>2, <1>7

-----------------------------------------------------------------------------
(* The mode negotiate() chooses.                                           *)

\* The cap of a device, from the first row that names it, or none.
LEMMA LimitIsNat == ASSUME NEW id PROVE QuirkLimit(QuirkTable, id) \in Nat
<1> DEFINE rows == {n \in DOMAIN QuirkTable : QuirkTable[n].id = id}
<1>1. CASE rows = {}
  BY <1>1 DEF QuirkLimit
<1>2. CASE rows # {}
  <2>1. rows \subseteq Nat
    BY RowsAssumption
  <2>2. Min(rows) \in rows
    BY <1>2, <2>1, MinIsMember
  <2>3. QuirkTable[Min(rows)].max_pixel_rate \in Nat
    <3> DEFINE n == Min(rows)
    <3>1. n \in DOMAIN QuirkTable
      BY <2>2
    <3> HIDE DEF n
    <3> DEFINE Rows == [id : STRING, flagged : BOOLEAN, max_pixel_rate : Nat]
    <3>2. QuirkTable \in Seq(Rows)
      BY RowsAssumption
    <3>3. \A row \in Rows : row.max_pixel_rate \in Nat
      BY Zenon
    <3> HIDE DEF Rows
    <3>4. QuirkTable[n] \in Rows
      BY <3>1, <3>2
    <3> QED BY <3>3, <3>4 DEF n
  <2> HIDE DEF rows
  <2>4. \/ QuirkLimit(QuirkTable, id) = QuirkTable[Min(rows)].max_pixel_rate
        \/ QuirkLimit(QuirkTable, id) = 0
    BY Zenon DEF QuirkLimit, rows
  <2> QED BY <2>3, <2>4
<1> QED BY <1>1, <1>2

\* A list judges each rate by the product, a range clamps its top by the
\* quotient: both keep the rates within the cap, and no other.
LEMMA CapHolds ==
    ASSUME NEW cap \in Nat, NEW m \in Modes, Pixels(m) >= 2, NEW a
    PROVE  a \in WithinCap(cap, m) <=>
               a \in m.rates /\ (cap # 0 => Pixels(m) * a <= cap)
<1>1. Pixels(m) \in Nat \ {0}
  <2>1. m.w \in Nat /\ m.h \in Nat
    BY DEF Modes
  <2>2. Pixels(m) \in Nat
    BY <2>1, Product DEF Pixels
  <2> QED BY <2>2
<1>2. m.rates \subseteq Nat
  BY DEF Modes
<1>3. CASE a \in m.rates
  <2>1. CASE cap = 0
    BY <1>3, <2>1 DEF WithinCap, Selectable
  <2>2. CASE cap # 0
    <3>1. a <= MaxFps(cap, m) <=> Pixels(m) * a <= cap
      BY <1>1, <1>2, <1>3, CapsAgree DEF MaxFps
    <3>2. a \in WithinCap(cap, m) <=> Pixels(m) * a <= cap
      <4>1. CASE m.kind = "range"
        <5>1. a \in WithinCap(cap, m) <=> a <= MaxFps(cap, m)
          BY <1>3, <2>2, <4>1 DEF WithinCap
        <5> QED BY <3>1, <5>1
      <4>2. CASE m.kind # "range"
        BY <1>3, <2>2, <4>2 DEF WithinCap, Selectable
      <4> QED BY <4>1, <4>2
    <3> QED BY <1>3, <2>2, <3>2
  <2> QED BY <2>1, <2>2
<1>4. CASE a \notin m.rates
  BY <1>4 DEF WithinCap
<1> QED BY <1>3, <1>4

\* The members of Acceptable, by the position of the mode.
LEMMA AcceptableHolds ==
    ASSUME NEW limit, NEW camera, Ladder(camera.modes), NEW peer, NEW p
    PROVE  p \in Acceptable(limit, camera, peer) <=>
               \E n \in 1..Len(camera.modes) : \E a \in camera.modes[n].rates :
                   /\ p = <<camera.modes[n], a>>
                   /\ camera.modes[n].codec \in peer.codecs
                   /\ <<camera.modes[n].w, camera.modes[n].h>> \in peer.frames
                   /\ camera.modes[n].kind # "zero" /\ a \in peer.rates
                   /\ limit # 0 => Pixels(camera.modes[n]) * a <= limit
<1> DEFINE ms == camera.modes
           Fits(m, a) == /\ m.codec \in peer.codecs
                         /\ <<m.w, m.h>> \in peer.frames
                         /\ m.kind # "zero" /\ a \in peer.rates
                         /\ limit # 0 => Pixels(m) * a <= limit
<1>1. \A m : m \in ToSet(ms) <=> \E n \in 1..Len(ms) : m = ms[n]
  BY DEF ToSet, Ladder
<1>2. \A a : a \in UNION {m.rates : m \in ToSet(ms)} <=>
                 \E m \in ToSet(ms) : a \in m.rates
  BY Zenon
<1>3. p \in Acceptable(limit, camera, peer) <=>
          /\ p \in ToSet(ms) \X UNION {m.rates : m \in ToSet(ms)}
          /\ Fits(p[1], p[2]) /\ p[2] \in p[1].rates
  BY Zenon DEF Acceptable
<1> HIDE DEF Fits, ms
<1>4. ASSUME p \in Acceptable(limit, camera, peer)
      PROVE  \E n \in 1..Len(ms) : \E a \in ms[n].rates :
                 p = <<ms[n], a>> /\ Fits(ms[n], a)
  <2>1. p = <<p[1], p[2]>> /\ p[1] \in ToSet(ms)
    BY <1>3, <1>4
  <2>2. PICK n \in 1..Len(ms) : p[1] = ms[n]
    BY <1>1, <2>1
  <2> QED BY <1>3, <1>4, <2>1, <2>2
<1>5. ASSUME NEW n \in 1..Len(ms), NEW a \in ms[n].rates,
             p = <<ms[n], a>>, Fits(ms[n], a)
      PROVE  p \in Acceptable(limit, camera, peer)
  <2>1. ms[n] \in ToSet(ms)
    BY <1>1
  <2>2. a \in UNION {m.rates : m \in ToSet(ms)}
    BY <1>2, <2>1
  <2>3. p[1] = ms[n] /\ p[2] = a
    BY <1>5
  <2>4. p \in ToSet(ms) \X UNION {m.rates : m \in ToSet(ms)}
    BY <1>5, <2>1, <2>2
  <2> QED BY <1>3, <1>5, <2>3, <2>4, Zenon
<1>6. p \in Acceptable(limit, camera, peer) <=>
          \E n \in 1..Len(ms) : \E a \in ms[n].rates :
              p = <<ms[n], a>> /\ Fits(ms[n], a)
  BY <1>4, <1>5, Zenon
<1> QED BY <1>6, Zenon DEF Fits, ms

\* Whatever the camera and the peer, negotiate() chooses a largest of what is
\* acceptable.
LEMMA ChosenIsLargest ==
    ASSUME NEW camera \in Cameras, NEW peer \in Peers
    PROVE  LET limit == QuirkLimit(QuirkTable, camera.id)
               all   == Acceptable(limit, camera, peer)
               best  == Choose(camera, peer).best
           IN  IF best = NoMode THEN all = {}
               ELSE /\ \E p \in all : /\ p[1].codec = best.codec
                                      /\ p[1].w = best.w /\ p[1].h = best.h
                                      /\ p[2] = best.rate
                    /\ \A p \in all : Pixels(p[1]) <= Pixels(best)
<1> DEFINE limit == QuirkLimit(QuirkTable, camera.id)
           ms    == camera.modes
           all   == Acceptable(limit, camera, peer)
           L     == Deliverable(limit, ms)
           best  == Select(peer, L)
<1>1. Choose(camera, peer).best = best
  BY DEF Choose
<1>2. Ladder(ms)
  BY CamerasAssumption DEF Ladder
<1>3. limit \in Nat
  BY LimitIsNat
<1>4. peer.codecs \subseteq Codecs
  BY PeersAssumption
<1> DEFINE F(n) == Filter(limit, ms[n])
<1> HIDE DEF limit, L
<1>5. /\ L \in Ladders
      /\ \A k \in 1..Len(L) : \E n \in 1..Len(ms) :
             L[k] = F(n) /\ Publishable(F(n))
      /\ \A n \in 1..Len(ms) :
             Publishable(F(n)) => \E k \in 1..Len(L) : L[k] = F(n)
  BY <1>2, LadderHolds DEF L
<1>6. ASSUME NEW n \in 1..Len(ms)
      PROVE  /\ ms[n] \in Modes /\ Pixels(ms[n]) >= 2
             /\ F(n) \in Modes /\ F(n).codec = ms[n].codec
             /\ F(n).w = ms[n].w /\ F(n).h = ms[n].h
             /\ F(n).kind = ms[n].kind /\ Pixels(F(n)) = Pixels(ms[n])
             /\ IsFiniteSet(F(n).rates)
             /\ \A a : a \in F(n).rates <=>
                    /\ a \in ms[n].rates
                    /\ limit # 0 => Pixels(ms[n]) * a <= limit
  <2>1. ms[n] \in Modes /\ Pixels(ms[n]) >= 2 /\ IsFiniteSet(ms[n].rates)
    BY <1>2 DEF Ladder
  <2>2. /\ F(n) \in Modes /\ F(n).codec = ms[n].codec
        /\ F(n).w = ms[n].w /\ F(n).h = ms[n].h
        /\ F(n).kind = ms[n].kind /\ Pixels(F(n)) = Pixels(ms[n])
        /\ F(n).rates = WithinCap(limit, ms[n])
        /\ IsFiniteSet(F(n).rates)
    BY <2>1, FilterIsMode
  <2>3. \A a : a \in WithinCap(limit, ms[n]) <=>
                   /\ a \in ms[n].rates
                   /\ limit # 0 => Pixels(ms[n]) * a <= limit
    BY <1>3, <2>1, CapHolds
  <2> HIDE DEF F
  <2>4. \A a : a \in F(n).rates <=>
                   /\ a \in ms[n].rates
                   /\ limit # 0 => Pixels(ms[n]) * a <= limit
    BY <2>2, <2>3, Zenon
  <2> QED BY <2>1, <2>2, <2>4
<1> HIDE DEF F, ms
<1>7. \A p : p \in all <=>
          \E n \in 1..Len(ms) : \E a \in ms[n].rates :
              /\ p = <<ms[n], a>>
              /\ ms[n].codec \in peer.codecs
              /\ <<ms[n].w, ms[n].h>> \in peer.frames
              /\ ms[n].kind # "zero" /\ a \in peer.rates
              /\ limit # 0 => Pixels(ms[n]) * a <= limit
  BY <1>2, AcceptableHolds DEF ms
<1> HIDE DEF all, best
<1>8. ASSUME NEW p \in all
      PROVE  \E k \in 1..Len(L) : /\ Compatible(peer, L[k])
                                  /\ Pixels(L[k]) = Pixels(p[1])
  <2>1. PICK n \in 1..Len(ms) : \E a \in ms[n].rates :
            /\ p = <<ms[n], a>>
            /\ ms[n].codec \in peer.codecs
            /\ <<ms[n].w, ms[n].h>> \in peer.frames
            /\ ms[n].kind # "zero" /\ a \in peer.rates
            /\ limit # 0 => Pixels(ms[n]) * a <= limit
    BY <1>7
  <2>2. PICK a \in ms[n].rates :
            /\ p = <<ms[n], a>>
            /\ ms[n].codec \in peer.codecs
            /\ <<ms[n].w, ms[n].h>> \in peer.frames
            /\ ms[n].kind # "zero" /\ a \in peer.rates
            /\ limit # 0 => Pixels(ms[n]) * a <= limit
    BY <2>1
  <2>3. a \in F(n).rates
    BY <1>6, <2>2
  <2>4. Publishable(F(n))
    BY <1>4, <1>6, <2>2, <2>3 DEF Publishable
  <2>5. PICK k \in 1..Len(L) : L[k] = F(n)
    BY <1>5, <2>4
  <2>6. Compatible(peer, F(n))
    <3>1. a \in Common(peer, F(n))
      BY <2>2, <2>3 DEF Common
    <3>2. F(n).codec \in peer.codecs /\ <<F(n).w, F(n).h>> \in peer.frames
      BY <1>6, <2>2
    <3> QED BY <3>1, <3>2 DEF Compatible
  <2>7. p[1] = ms[n]
    BY <2>2
  <2>8. Pixels(L[k]) = Pixels(p[1])
    BY <1>6, <2>5, <2>7, Zenon
  <2> QED BY <2>5, <2>6, <2>8
<1>9. ASSUME NEW k \in 1..Len(L), Compatible(peer, L[k])
      PROVE  \E p \in all : /\ p[1].codec = L[k].codec
                            /\ p[1].w = L[k].w /\ p[1].h = L[k].h
                            /\ p[2] = Fixated(peer, L[k])
  <2>1. PICK n \in 1..Len(ms) : L[k] = F(n) /\ Publishable(F(n))
    BY <1>5
  <2> DEFINE a == Fixated(peer, L[k])  p == <<ms[n], a>>
  <2>2. L[k] \in Modes /\ IsFiniteSet(L[k].rates)
    BY <1>6, <2>1
  <2>3. a \in L[k].rates /\ a \in peer.rates
    BY <1>9, <2>2, RateFixated
  <2> HIDE DEF a
  <2>4. a \in ms[n].rates /\ (limit # 0 => Pixels(ms[n]) * a <= limit)
    BY <1>6, <2>1, <2>3
  <2>5. /\ ms[n].codec \in peer.codecs /\ <<ms[n].w, ms[n].h>> \in peer.frames
        /\ ms[n].kind # "zero"
    BY <1>6, <1>9, <2>1 DEF Compatible, Publishable
  <2>6. p \in all
    BY <1>7, <2>3, <2>4, <2>5
  <2>7. p[1] = ms[n] /\ p[2] = a
    OBVIOUS
  <2>8. p[1].codec = L[k].codec /\ p[1].w = L[k].w /\ p[1].h = L[k].h
    BY <1>6, <2>1, <2>7
  <2> QED BY <2>6, <2>7, <2>8 DEF a
<1>10. Ladder(L)
  BY <1>5 DEF Ladders
<1>11. \/ /\ best = NoMode
          /\ \A k \in 1..Len(L) : ~Compatible(peer, L[k])
       \/ /\ best # NoMode
          /\ \E k \in 1..Len(L) :
                 Compatible(peer, L[k]) /\ best = Pick(peer, L[k])
          /\ \A k \in 1..Len(L) :
                 Compatible(peer, L[k]) => Pixels(L[k]) <= Pixels(best)
  BY <1>10, SelectLargest DEF best
<1>12. CASE best = NoMode
  <2>1. all = {}
    BY <1>8, <1>11, <1>12
  <2> QED BY <1>1, <1>12, <2>1, Zenon DEF all, limit, best
<1>13. CASE best # NoMode
  <2>1. PICK k \in 1..Len(L) :
            Compatible(peer, L[k]) /\ best = Pick(peer, L[k])
    BY <1>11, <1>13
  <2>2. /\ best.codec = L[k].codec /\ best.w = L[k].w /\ best.h = L[k].h
        /\ best.rate = Fixated(peer, L[k])
    BY <2>1 DEF Pick
  <2>3. \E p \in all : /\ p[1].codec = best.codec
                       /\ p[1].w = best.w /\ p[1].h = best.h
                       /\ p[2] = best.rate
    BY <1>9, <2>1, <2>2
  <2>4. \A p \in all : Pixels(p[1]) <= Pixels(best)
    BY <1>8, <1>11, <1>13
  <2> QED BY <1>1, <1>13, <2>3, <2>4, Zenon DEF all, limit, best
<1> QED BY <1>12, <1>13

-----------------------------------------------------------------------------
(* The modes it offers.                                                    *)

\* A single rate is the greatest and the least.
LEMMA OneRate == ASSUME NEW a \in Nat PROVE Max({a}) = a /\ Min({a}) = a
<1>1. {a} \subseteq Nat /\ {a} # {}
  OBVIOUS
<1>2. IsFiniteSet({a})
  BY FS_Singleton
<1>3. Max({a}) \in {a} /\ Min({a}) \in {a}
  BY <1>1, <1>2, MaxIsMember, MinIsMember
<1> QED BY <1>3

\* A caller that pins a mode and a rate leaves one record to pick.
LEMMA PinnedPick ==
    ASSUME NEW m \in Modes, NEW a \in m.rates, NEW other \in Modes,
           Compatible(Pinned(m, a), other)
    PROVE  Pick(Pinned(m, a), other) =
               [codec |-> m.codec, w |-> m.w, h |-> m.h, rate |-> a]
<1> DEFINE peer == Pinned(m, a)
<1>1. /\ peer.codecs = {m.codec} /\ peer.frames = {<<m.w, m.h>>}
      /\ peer.rates = {a}
  BY DEF Pinned
<1> HIDE DEF peer
<1>2. Compatible(peer, other)
  BY DEF peer
<1>3. other.codec = m.codec
  BY <1>1, <1>2 DEF Compatible
<1>4. other.w = m.w /\ other.h = m.h
  <2>1. <<other.w, other.h>> = <<m.w, m.h>>
    BY <1>1, <1>2 DEF Compatible
  <2> QED BY <2>1
<1>5. Common(peer, other) = {a}
  BY <1>1, <1>2 DEF Compatible, Common
<1>6. a \in Nat
  BY DEF Modes
<1>7. Max(Common(peer, other)) = a /\ Min(Common(peer, other)) = a
  BY <1>5, <1>6, OneRate
<1>8. Fixated(peer, other) = a
  BY <1>7 DEF Fixated
<1> QED BY <1>3, <1>4, <1>8, Zenon DEF Pick, peer

\* An entry of the ladder that is pinned is picked.
LEMMA PinnedIsPicked ==
    ASSUME NEW ladder \in Ladders, NEW j \in 1..Len(ladder),
           NEW a \in ladder[j].rates
    PROVE  Select(Pinned(ladder[j], a), ladder) =
               [codec |-> ladder[j].codec, w |-> ladder[j].w,
                h |-> ladder[j].h, rate |-> a]
<1> DEFINE m == ladder[j]
           peer == Pinned(m, a)
           best == Select(peer, ladder)
<1>1. Ladder(ladder) /\ m \in Modes
  BY DEF Ladders, Ladder
<1>2. Compatible(peer, m)
  <2>1. peer.codecs = {m.codec} /\ peer.frames = {<<m.w, m.h>>}
        /\ peer.rates = {a}
    BY DEF Pinned
  <2> HIDE DEF peer, m
  <2>2. a \in Common(peer, m)
    BY <2>1 DEF Common, m
  <2> QED BY <2>1, <2>2 DEF Compatible
<1> HIDE DEF peer, m
<1>3. \/ /\ best = NoMode
         /\ \A k \in 1..Len(ladder) : ~Compatible(peer, ladder[k])
      \/ /\ best # NoMode
         /\ \E k \in 1..Len(ladder) :
                Compatible(peer, ladder[k]) /\ best = Pick(peer, ladder[k])
  BY <1>1, SelectLargest
<1>4. PICK k \in 1..Len(ladder) :
          Compatible(peer, ladder[k]) /\ best = Pick(peer, ladder[k])
  BY <1>2, <1>3 DEF m
<1>5. ladder[k] \in Modes
  BY <1>1 DEF Ladder
<1>6. a \in m.rates
  BY DEF m
<1>7. Pick(peer, ladder[k]) =
          [codec |-> m.codec, w |-> m.w, h |-> m.h, rate |-> a]
  BY <1>1, <1>4, <1>5, <1>6, PinnedPick DEF peer
<1> QED BY <1>4, <1>7, Zenon DEF peer, m

\* Whatever the camera and the peer, all that is offered is accepted.
LEMMA ChosenIsOffered ==
    ASSUME NEW camera \in Cameras, NEW peer \in Peers
    PROVE  LET ladder == Choose(camera, peer).ladder
           IN  \A m \in ToSet(ladder) : \A r \in m.rates \ {0} :
                   Select(Pinned(m, r), ladder) =
                       [codec |-> m.codec, w |-> m.w, h |-> m.h, rate |-> r]
<1> DEFINE ladder == Choose(camera, peer).ladder
<1>1. ladder \in Ladders
  <2> DEFINE cap == QuirkLimit(QuirkTable, camera.id)
  <2>1. ladder = Deliverable(cap, camera.modes)
    BY DEF Choose
  <2>2. Ladder(camera.modes)
    BY CamerasAssumption DEF Ladder
  <2> HIDE DEF cap, ladder
  <2>3. Deliverable(cap, camera.modes) \in Ladders
    BY <2>2, LadderHolds
  <2> QED BY <2>1, <2>3 DEF ladder
<1> HIDE DEF ladder
<1>2. ASSUME NEW m \in ToSet(ladder), NEW r \in m.rates \ {0}
      PROVE  Select(Pinned(m, r), ladder) =
                 [codec |-> m.codec, w |-> m.w, h |-> m.h, rate |-> r]
  <2>1. ladder \in Seq(Modes)
    BY <1>1 DEF Ladders
  <2>2. PICK j \in 1..Len(ladder) : m = ladder[j]
    BY <2>1 DEF ToSet
  <2>3. r \in ladder[j].rates
    BY <2>2
  <2>4. Select(Pinned(ladder[j], r), ladder) =
            [codec |-> ladder[j].codec, w |-> ladder[j].w,
             h |-> ladder[j].h, rate |-> r]
    BY <1>1, <2>3, PinnedIsPicked
  <2> QED BY <2>2, <2>4, Zenon
<1> QED BY <1>2 DEF ladder

-----------------------------------------------------------------------------
(* Theorems.                                                               *)

\* From an open handle to a running stream, and through recoveries and live
\* renegotiations, the control block, the count of the handle and the two
\* effective values keep in step with what was asked and what was proved.
THEOREM ArmingIsKept == Spec => []ArmingInv
<1>1. Init => ArmingInv
  <2> SUFFICES ASSUME Init PROVE ArmingInv
    OBVIOUS
  <2>1. TypeOK
    <3>1. 0 \in Payloads /\ 0 \in Buffers
      BY BandsAssumption DEF Payloads, Buffers
    <3>2. asked \in Asked
      BY DEF Init, Asked
    <3> QED
      BY <3>1, <3>2 DEF Init, TypeOK
  <2> QED
    BY <2>1 DEF Init, ArmingInv, Arming, QuietInv, CountInv, BlockInv,
                FailInv, StartSurvivesHint, StreamInv
<1>2. ArmingInv /\ [Next]_vars => ArmingInv'
  <2> SUFFICES ASSUME ArmingInv, [Next]_vars PROVE ArmingInv'
    OBVIOUS
  <2>1. CASE Next
    BY <2>1, TypeStep, ArmedStep DEF ArmingInv, Armed
  <2>2. CASE UNCHANGED vars
    BY <2>2 DEF vars, app, hints, history, ArmingInv, TypeOK, Arming,
                QuietInv, CountInv, BlockInv, FailInv, StartSurvivesHint,
                StreamInv, Payloads, Negotiations
  <2> QED
    BY <2>1, <2>2
<1> QED
  BY <1>1, <1>2, PTL DEF Spec

\* A hint never keeps create() from starting a stream that would start without
\* it: the one fallback of the start is enough unless the clean re-negotiation
\* itself failed, or the app took the request back in between.
THEOREM HintsNeverRefuse == Spec => []StartSurvivesHint
<1>1. ArmingInv => StartSurvivesHint
  BY DEF ArmingInv, FailInv
<1> QED
  BY <1>1, ArmingIsKept, PTL

\* What streams was read back from the device first, unless the clean
\* re-negotiation failed, and what was not asked for is left alone: nothing of
\* an earlier session or handle reaches a start.
THEOREM StreamsAreVerified == Spec => []StreamIsVerified
<1>1. ArmingInv => StreamIsVerified
  BY DEF ArmingInv, StreamInv, StreamIsVerified
<1> QED
  BY <1>1, ArmingIsKept, PTL

\* get_property() of the two hints answers what the stream runs with, whatever
\* the app wrote to them since.
THEOREM ReadBacksAreHonest == Spec => []ReadBackHonest
<1>1. ArmingInv => ReadBackHonest
  <2> SUFFICES ASSUME ArmingInv, pc = "running", goal # "live"
               PROVE  /\ ~stream.unclean => ReadMaxPayload = stream.payload
                      /\ stream.buffers # 0 =>
                             ReadTransferBuffers = stream.buffers
    BY DEF ReadBackHonest
  <2>1. ~stream.unclean => ReadMaxPayload = stream.payload
    BY DEF ArmingInv, StreamInv, ReadMaxPayload
  <2>2. stream.buffers # 0 => ReadTransferBuffers = stream.buffers
    BY PayloadsAreNumbers
       DEF ArmingInv, TypeOK, StreamInv, ReadTransferBuffers
  <2> QED
    BY <2>1, <2>2
<1> QED
  BY <1>1, ArmingIsKept, PTL

\* The mode in the element's hand is a largest of those that the camera
\* advertises, its quirk row lets it deliver and downstream accepts; none is
\* found only when there is none.
THEOREM LargestIsChosen == Spec => []LargestDeliverable
<1>1. ArmingInv => LargestDeliverable
  <2> SUFFICES ASSUME ArmingInv, choice # NoChoice PROVE LargestDeliverable
    BY Zenon DEF LargestDeliverable
  <2>1. PICK camera \in Cameras, peer \in Peers : choice = Choose(camera, peer)
    BY DEF ArmingInv, TypeOK, Negotiations
  <2>2. choice.camera = camera /\ choice.peer = peer
    BY <2>1 DEF Choose
  <2> QED
    BY <2>1, <2>2, ChosenIsLargest, Zenon DEF LargestDeliverable
<1> QED
  BY <1>1, ArmingIsKept, PTL

\* The published ladder and the choice cannot drift apart: a caller that pins
\* any mode and rate of it gets exactly that.
THEOREM OfferedAreAccepted == Spec => []OfferedIsAccepted
<1>1. ArmingInv => OfferedIsAccepted
  <2> SUFFICES ASSUME ArmingInv, choice # NoChoice PROVE OfferedIsAccepted
    BY Zenon DEF OfferedIsAccepted
  <2>1. PICK camera \in Cameras, peer \in Peers : choice = Choose(camera, peer)
    BY DEF ArmingInv, TypeOK, Negotiations
  <2> QED
    BY <2>1, ChosenIsOffered, Zenon DEF OfferedIsAccepted
<1> QED
  BY <1>1, ArmingIsKept, PTL
=============================================================================
