------------------------- MODULE FrameCallbackProofs -------------------------
(***************************************************************************)
(* Two parts of frame_callback(), each for every value of its constants:   *)
(* the cut of a delivery into NAL units (NalScan), and the time an access  *)
(* unit is given (PtsStamping).  They share no variable, and each theorem  *)
(* speaks of one of the two specifications.                                *)
(*                                                                         *)
(* The scan.  Deliveries of any length over any byte values, and any room  *)
(* for units.  The run compares the finished scan with the set of Annex-B  *)
(* starts.  The invariant compares every turn of the loop with the part of *)
(* that set the scan has passed.                                           *)
(*                                                                         *)
(* The time.  Any clocks, any offset between them, any length of a         *)
(* behaviour and of a delivery, and any width of a time.  HonestStamp      *)
(* speaks of the stamp alone.  What makes it true is what each position of *)
(* frame_callback() knows of the two latches, with the object lock         *)
(* released between them.                                                  *)
(***************************************************************************)
EXTENDS NalScan, PtsStamping, SequenceTheorems, TLAPS

-----------------------------------------------------------------------------
(* The scan: what each turn of the loop keeps.                             *)

Unit == [at : Nat, sc : {3, 4}, len : Nat]

TypeInv ==
    /\ buf \in Seq(Byte)
    /\ i \in 0..buflen
    /\ open \in {<<>>} \cup ((0..buflen) \X {3, 4})
    /\ units \in Seq(Unit) /\ Len(units) <= Max
    /\ done \in BOOLEAN
    /\ ~done => Len(units) < Max

\* A start code of length sc at k, as the scan sees it.
CodeAt(k, sc) ==
    /\ At(k) = 0 /\ At(k + 1) = 0
    /\ IF sc = 4 THEN At(k + 2) = 0 /\ At(k + 3) = 1 ELSE At(k + 2) = 1

\* The open unit lies behind the scan with its start code, and each stored
\* one has room for its own.
UnitInv ==
    /\ open # <<>> => open[1] + open[2] <= i /\ CodeAt(open[1], open[2])
    /\ \A k \in 1..Len(units) :
           /\ units[k].len >= units[k].sc
           /\ \/ units[k].at + units[k].len <= i
              \/ done /\ open = <<>>
           /\ units[k].at + units[k].len <= buflen
           /\ CodeAt(units[k].at, units[k].sc)
    /\ ~done /\ open = <<>> => units = <<>>
    /\ done => open = <<>> \/ Len(units) = Max

\* Where the units found so far begin.
Found_at == {units[k].at : k \in 1..Len(units)}
Open_at  == IF open = <<>> THEN {} ELSE {open[1]}

\* The starts behind the scan are the units found; the byte it stands on does
\* not continue a code that began one byte before.
PassedInv ==
    /\ Found_at \cup Open_at \subseteq Starts
    /\ \A s \in Starts : s < i \/ (done /\ open = <<>>) =>
                             s \in Found_at \cup Open_at
    /\ \A a \in Found_at : a < i /\ (open # <<>> => a < open[1])
    /\ i > 0 /\ i + 3 <= buflen => ~Code4(i - 1)

ScanInv == TypeInv /\ UnitInv /\ UnitsTile /\ PassedInv

-----------------------------------------------------------------------------
(* Start codes.                                                            *)

\* Offsets are counted in naturals.
LEMMA Lengths ==
    ASSUME TypeInv
    PROVE  /\ buflen \in Nat /\ i \in Nat /\ Len(units) \in Nat
           /\ open # <<>> => open[1] \in 0..buflen /\ open[2] \in {3, 4}
BY LenProperties DEF TypeInv, buflen

\* Where the scan finds a code with room for a header, Annex B has a unit, if
\* the byte before did not begin the longer code.
LEMMA FoundIsStart ==
    ASSUME TypeInv, ~Exhausted,
           i > 0 /\ i + 3 <= buflen => ~Code4(i - 1)
    PROVE  /\ Code4(i) /\ i + 4 < buflen => i \in Starts
           /\ Code3(i) => i \in Starts
<1>1. buflen \in Nat /\ i \in Nat
  BY Lengths
<1>2. Code4(i) /\ i + 4 < buflen => i \in Starts
  BY <1>1 DEF Starts
<1>3. ASSUME Code3(i), i > 0
      PROVE  At(i - 1) # 0
  <2>1. ~Code4(i - 1)
    BY <1>1, <1>3 DEF Exhausted
  <2>2. /\ At((i - 1) + 1) = At(i) /\ At((i - 1) + 2) = At(i + 1)
        /\ At((i - 1) + 3) = At(i + 2)
    BY <1>1
  <2>3. QED
    BY <1>3, <2>1, <2>2 DEF Code3, Code4
<1>4. Code3(i) => i \in Starts
  BY <1>1, <1>3 DEF Exhausted, Starts
<1>5. QED
  BY <1>2, <1>4

\* The other way round: what is neither code is no start, and none lies where
\* there is no room.
LEMMA StartIsCode ==
    ASSUME TypeInv, NEW s \in Starts
    PROVE  /\ s \in Nat /\ s + 4 <= buflen
           /\ \/ Code4(s) /\ s + 4 < buflen
              \/ Code3(s) /\ (s > 0 => At(s - 1) # 0)
BY Lengths DEF Starts

\* No start lies inside a start code: the zero before a three-byte code is
\* counted in.
LEMMA NoStartInsideCode ==
    ASSUME TypeInv, NEW k \in Nat, NEW sc \in {3, 4}, CodeAt(k, sc),
           NEW s \in Starts, k < s
    PROVE  s >= k + sc
<1> SUFFICES ASSUME s < k + sc PROVE FALSE
  BY StartIsCode
<1>1. /\ s \in Nat
      /\ Code4(s) \/ (Code3(s) /\ At(s - 1) # 0)
  BY StartIsCode
<1>2. 0 # 1
  OBVIOUS
<1>3. CASE s = k + 1
  <2>1. /\ s - 1 = k /\ At(s) = At(k + 1)
        /\ At(s + 1) = At(k + 2) /\ At(s + 2) = At(k + 3)
    BY <1>3
  <2>2. sc = 4
    BY <1>1, <2>1 DEF CodeAt, Code3, Code4
  <2>3. QED
    BY <1>1, <2>1, <2>2 DEF CodeAt, Code3, Code4
<1>4. CASE s = k + 2
  <2>1. At(s) = At(k + 2) /\ At(s + 1) = At(k + 3)
    BY <1>4
  <2>2. QED
    BY <1>1, <2>1 DEF CodeAt, Code3, Code4
<1>5. CASE s = k + 3
  <2>1. At(s) = At(k + 3) /\ sc = 4
    BY <1>5
  <2>2. QED
    BY <1>1, <2>1 DEF CodeAt, Code3, Code4
<1>6. QED
  BY <1>1, <1>3, <1>4, <1>5

\* A code ends in a one, so no longer code begins on its last byte.
LEMMA NoCodeOnLastByte ==
    ASSUME NEW k \in Nat, NEW sc \in {3, 4}, CodeAt(k, sc)
    PROVE  ~Code4(k + sc - 1)
<1>1. CASE sc = 3
  <2>1. k + sc - 1 = k + 2
    BY <1>1
  <2>2. QED
    BY <1>1, <2>1 DEF CodeAt, Code4
<1>2. CASE sc = 4
  <2>1. k + sc - 1 = k + 3
    BY <1>2
  <2>2. QED
    BY <1>2, <2>1 DEF CodeAt, Code4
<1>3. QED
  BY <1>1, <1>2

-----------------------------------------------------------------------------
(* The step.                                                               *)

\* What a turn that ends the open unit at some offset makes of the array.
Closed(end) == IF open = <<>> THEN units ELSE CloseUnit(end)

\* The array grows by the open unit, which begins where the last one ends:
\* the whole of the delivery behind the new end is tiled.
LEMMA Closing ==
    ASSUME ScanInv, ~done, NEW end \in i..buflen
    PROVE  LET w == Closed(end)
           IN  /\ w \in Seq(Unit)
               /\ Len(w) = Len(units) + (IF open = <<>> THEN 0 ELSE 1)
               /\ \A k \in 1..Len(w) : /\ w[k].len >= w[k].sc
                                       /\ w[k].at + w[k].len <= end
                                       /\ w[k].at + w[k].len \in 0..buflen
                                       /\ CodeAt(w[k].at, w[k].sc)
               /\ {w[k].at : k \in 1..Len(w)} = Found_at \cup Open_at
               /\ \A k \in 1..(Len(w) - 1) :
                      w[k].at + w[k].len = w[k + 1].at
               /\ w # <<>> => w[Len(w)].at + w[Len(w)].len = end
<1> DEFINE w == Closed(end)
<1>1. /\ buflen \in Nat /\ i \in Nat /\ Len(units) \in Nat /\ end \in Nat
      /\ open # <<>> => open[1] \in 0..buflen /\ open[2] \in {3, 4}
      /\ units \in Seq(Unit)
  BY Lengths DEF ScanInv, TypeInv
<1>2. CASE open = <<>>
  <2>1. units = <<>> /\ w = units /\ Len(units) = 0
    BY <1>2, EmptySeq DEF ScanInv, UnitInv, Closed
  <2>2. Found_at = {} /\ Open_at = {}
    BY <1>2, <2>1 DEF Found_at, Open_at
  <2>3. QED
    BY <1>1, <1>2, <2>1, <2>2
<1>3. CASE open # <<>>
  <2> DEFINE u == [at |-> open[1], sc |-> open[2], len |-> end - open[1]]
             n == Len(units)
  <2>1. /\ open[1] \in Nat /\ open[2] \in {3, 4}
        /\ open[1] + open[2] <= i /\ CodeAt(open[1], open[2])
    BY <1>1, <1>3 DEF ScanInv, UnitInv
  <2>2. u \in Unit /\ w = Append(units, u)
    BY <1>1, <1>3, <2>1, SMTT(20) DEF Unit, Closed, CloseUnit
  <2>3. /\ w \in Seq(Unit) /\ Len(w) = n + 1
        /\ \A k \in 1..n : w[k] = units[k]
        /\ w[n + 1] = u
    <3> HIDE DEF u
    <3>1. QED
      BY <1>1, <2>2, AppendProperties
  <2>4. \A k \in 1..n : units[k] \in Unit
    BY <1>1, ElementOfSeq
  <2>5. \A k \in 1..(n - 1) : units[k].at + units[k].len = units[k + 1].at
    BY DEF ScanInv, UnitsTile
  <2>6. n # 0 => units[n].at + units[n].len = open[1]
    BY <1>1, <1>3, EmptySeq DEF ScanInv, UnitsTile
  <2>7. ASSUME NEW k \in 1..n
        PROVE  /\ w[k].len >= w[k].sc
               /\ w[k].at + w[k].len <= end
               /\ w[k].at + w[k].len \in 0..buflen
               /\ CodeAt(w[k].at, w[k].sc)
    <3>1. /\ units[k].len >= units[k].sc
          /\ units[k].at + units[k].len <= i
          /\ units[k].at + units[k].len <= buflen
          /\ CodeAt(units[k].at, units[k].sc)
      BY DEF ScanInv, UnitInv
    <3>2. units[k].at \in Nat /\ units[k].len \in Nat
      BY <2>4 DEF Unit
    <3>3. /\ units[k].at + units[k].len <= end
          /\ units[k].at + units[k].len \in 0..buflen
      BY <1>1, <3>1, <3>2, SMTT(20)
    <3>4. w[k] = units[k]
      BY <2>3
    <3> HIDE DEF u, n
    <3>5. QED
      BY <3>1, <3>3, <3>4
  <2>8. /\ u.len >= u.sc /\ u.at + u.len = end /\ CodeAt(u.at, u.sc)
    BY <1>1, <2>1
  <2>9. {w[k].at : k \in 1..(n + 1)} = Found_at \cup {open[1]}
    <3>1. \A k \in 1..(n + 1) : k \in 1..n \/ k = n + 1
      BY <1>1
    <3>2. 1..n \subseteq 1..(n + 1) /\ n + 1 \in 1..(n + 1)
      BY <1>1
    <3>3. w[n + 1].at = open[1]
      BY <2>3
    <3> HIDE DEF u, n
    <3>4. Found_at = {units[k].at : k \in 1..n}
      BY DEF Found_at, n
    <3>5. QED
      BY <2>3, <3>1, <3>2, <3>3, <3>4
  <2>10. ASSUME NEW k \in 1..n
         PROVE  w[k].at + w[k].len = w[k + 1].at
    <3>1. CASE k = n
      BY <1>1, <2>3, <2>6, <3>1
    <3>2. CASE k < n
      <4>1. k \in 1..(n - 1) /\ k + 1 \in 1..n
        BY <1>1, <3>2
      <4>2. QED
        BY <2>3, <2>5, <4>1
    <3>3. QED
      BY <1>1, <3>1, <3>2
  <2>11. \A k \in 1..Len(w) : k \in 1..n \/ k = n + 1
    BY <1>1, <2>3
  <2>12. \A k \in 1..Len(w) : /\ w[k].len >= w[k].sc
                              /\ w[k].at + w[k].len <= end
                              /\ w[k].at + w[k].len \in 0..buflen
                              /\ CodeAt(w[k].at, w[k].sc)
    BY <1>1, <2>3, <2>7, <2>8, <2>11, SMTT(20)
  <2>13. Open_at = {open[1]}
    BY <1>3 DEF Open_at
  <2>14. \A k \in 1..(Len(w) - 1) : k \in 1..n
    BY <1>1, <2>3
  <2>15. w[Len(w)].at + w[Len(w)].len = end
    BY <1>1, <2>3, <2>8
  <2> HIDE DEF u, n
  <2>16. {w[k].at : k \in 1..Len(w)} = Found_at \cup Open_at
    BY <2>3, <2>9, <2>13
  <2>17. \A k \in 1..(Len(w) - 1) : w[k].at + w[k].len = w[k + 1].at
    BY <2>10, <2>14
  <2>18. Len(w) = Len(units) + (IF open = <<>> THEN 0 ELSE 1)
    BY <1>3, <2>3 DEF n
  <2>19. QED
    BY <2>3, <2>12, <2>15, <2>16, <2>17, <2>18
<1>4. QED
  BY <1>2, <1>3

\* A turn that finds a code: it ends the unit before, opens its own, and has
\* stepped over no start.
LEMMA FoundStep ==
    ASSUME ScanInv, ~done, NEW sc \in {3, 4}, CodeAt(i, sc), i \in Starts,
           i + sc <= buflen, Found(sc)
    PROVE  ScanInv'
<1>1. /\ buf' = buf /\ i' = i + sc /\ open' = <<i, sc>>
      /\ units' = Closed(i) /\ done' = (Len(units') = Max)
  BY DEF Found, ScanFrom, Closed
<1>2. buflen' = buflen /\ Starts' = Starts
  BY <1>1 DEF buflen, Starts, Code4, Code3, At
<1>3. /\ buflen \in Nat /\ i \in Nat /\ Len(units) \in Nat
      /\ open # <<>> => open[1] \in 0..buflen /\ open[2] \in {3, 4}
      /\ i \in i..buflen
  BY Lengths DEF ScanInv, TypeInv
<1>4. /\ units' \in Seq(Unit)
      /\ Len(units') = Len(units) + (IF open = <<>> THEN 0 ELSE 1)
      /\ \A k \in 1..Len(units') :
             /\ units'[k].len >= units'[k].sc
             /\ units'[k].at + units'[k].len <= i
             /\ units'[k].at + units'[k].len \in 0..buflen
             /\ CodeAt(units'[k].at, units'[k].sc)
      /\ {units'[k].at : k \in 1..Len(units')} = Found_at \cup Open_at
      /\ \A k \in 1..(Len(units') - 1) :
             units'[k].at + units'[k].len = units'[k + 1].at
      /\ units' # <<>> =>
             units'[Len(units')].at + units'[Len(units')].len = i
  <2> DEFINE w == Closed(i)
  <2>1. /\ w \in Seq(Unit)
        /\ Len(w) = Len(units) + (IF open = <<>> THEN 0 ELSE 1)
        /\ \A k \in 1..Len(w) : /\ w[k].len >= w[k].sc
                                /\ w[k].at + w[k].len <= i
                                /\ w[k].at + w[k].len \in 0..buflen
                                /\ CodeAt(w[k].at, w[k].sc)
        /\ {w[k].at : k \in 1..Len(w)} = Found_at \cup Open_at
        /\ \A k \in 1..(Len(w) - 1) : w[k].at + w[k].len = w[k + 1].at
        /\ w # <<>> => w[Len(w)].at + w[Len(w)].len = i
    BY <1>3, Closing
  <2>2. units' = w
    BY <1>1
  <2> HIDE DEF w
  <2>3. QED
    BY <2>1, <2>2
<1>5. Len(units) < Max /\ Len(units') <= Max /\ Max \in Nat
  BY <1>3, <1>4, SizesAssumption DEF ScanInv, TypeInv
<1>6. open'[1] = i /\ open'[2] = sc /\ open' # <<>>
  BY <1>1
<1>7. TypeInv'
  <2>1. i' \in 0..buflen /\ open' \in (0..buflen) \X {3, 4}
    BY <1>1, <1>3
  <2>2. ~done' => Len(units') < Max
    <3>1. Len(units') \in Nat
      BY <1>4, LenProperties
    <3>2. ~done' => Len(units') # Max
      BY <1>1, Zenon
    <3>3. QED
      BY <1>5, <3>1, <3>2
  <2>3. QED
    BY <1>1, <1>2, <1>4, <1>5, <2>1, <2>2 DEF ScanInv, TypeInv
<1>8. UnitInv'
  <2>1. ASSUME NEW k \in 1..Len(units')
        PROVE  /\ units'[k].len >= units'[k].sc
               /\ units'[k].at + units'[k].len <= i'
               /\ units'[k].at + units'[k].len <= buflen'
               /\ CodeAt(units'[k].at, units'[k].sc)
    <3>1. /\ units'[k].len >= units'[k].sc
          /\ units'[k].at + units'[k].len <= i
          /\ units'[k].at + units'[k].len \in 0..buflen
          /\ CodeAt(units'[k].at, units'[k].sc)
      BY <1>4
    <3>2. units'[k].at + units'[k].len <= i'
      <4>1. /\ i \in Nat /\ i' = i + sc
            /\ units'[k].at + units'[k].len \in Nat
        BY <1>1, <1>3, <3>1
      <4>2. QED
        BY <3>1, <4>1
    <3>3. units'[k].at + units'[k].len <= buflen'
      BY <1>2, <1>3, <3>1
    <3>4. QED
      BY <3>1, <3>2, <3>3
  <2>2. open'[1] + open'[2] <= i' /\ CodeAt(open'[1], open'[2])
    BY <1>1, <1>3, <1>6
  <2>3. done' => Len(units') = Max
    BY <1>1
  <2>4. QED
    BY <1>1, <1>6, <2>1, <2>2, <2>3 DEF UnitInv, CodeAt, At
<1>9. UnitsTile'
  <2>1. ScanTypeOK'
    <3>1. DOMAIN units' = 1..Len(units')
      BY <1>4, LenProperties
    <3>2. QED
      BY <1>2, <1>4, <1>5, <1>7, <3>1 DEF TypeInv, ScanTypeOK
  <2>2. QED
    BY <1>4, <1>6, <2>1 DEF UnitsTile
<1>10. PassedInv'
  <2>1. Found_at' = Found_at \cup Open_at /\ Open_at' = {i}
    BY <1>4, <1>6 DEF Found_at, Open_at
  <2>2. Found_at \cup Open_at \subseteq Starts /\ \A a \in Found_at : a < i
    BY DEF ScanInv, PassedInv
  <2>3. \A a \in Open_at : a < i
    BY <1>3 DEF Open_at, ScanInv, UnitInv
  <2>4. ASSUME NEW s \in Starts, s < i'
        PROVE  s \in Found_at' \cup Open_at'
    <3>1. s \in Nat
      BY StartIsCode DEF ScanInv
    <3>2. CASE s < i
      BY <2>1, <3>2 DEF ScanInv, PassedInv
    <3>3. CASE s = i
      BY <2>1, <3>3
    <3>4. CASE i < s
      <4>1. s >= i + sc
        BY <1>3, <3>4, NoStartInsideCode DEF ScanInv
      <4>2. QED
        BY <1>1, <1>3, <2>4, <3>1, <4>1
    <3>5. QED
      BY <1>3, <3>1, <3>2, <3>3, <3>4
  <2>5. ~Code4(i + sc - 1)
    BY <1>3, NoCodeOnLastByte
  <2>6. \A a \in Found_at' : a < i' /\ a < open'[1]
    <3>1. \A a \in Found_at \cup Open_at : a \in Nat
      BY <2>2, StartIsCode DEF ScanInv
    <3>2. QED
      BY <1>1, <1>3, <1>6, <2>1, <2>2, <2>3, <3>1
  <2>7. Found_at' \cup Open_at' \subseteq Starts'
    BY <1>2, <2>1, <2>2
  <2>8. \A s \in Starts' : s < i' \/ (done' /\ open' = <<>>) =>
                               s \in Found_at' \cup Open_at'
    BY <1>2, <1>6, <2>4
  <2>9. (i > 0 /\ i + 3 <= buflen => ~Code4(i - 1))'
    <3>1. i' - 1 = i + sc - 1 /\ buf' = buf
      BY <1>1, <1>3
    <3>2. QED
      BY <2>5, <3>1 DEF Code4, At
  <2>10. QED
    BY <2>6, <2>7, <2>8, <2>9 DEF PassedInv
<1>11. QED
  BY <1>7, <1>8, <1>9, <1>10 DEF ScanInv

\* A turn that finds none stands on no start.
LEMMA SkipStep ==
    ASSUME ScanInv, Skip
    PROVE  ScanInv'
<1>1. /\ UNCHANGED <<buf, open, units, done>> /\ i' = i + 1
      /\ ~done /\ ~Exhausted /\ ~Code4(i) /\ ~Code3(i)
  BY DEF Skip
<1>2. buflen' = buflen /\ Starts' = Starts
  BY <1>1 DEF buflen, Starts, Code4, Code3, At
<1>3. /\ buflen \in Nat /\ i \in Nat /\ i + 4 <= buflen
      /\ open # <<>> => open[1] \in 0..buflen /\ open[2] \in {3, 4}
      /\ \A k \in 1..Len(units) : units[k] \in Unit
  BY <1>1, Lengths, ElementOfSeq DEF ScanInv, TypeInv, Exhausted
<1>4. TypeInv'
  BY <1>1, <1>2, <1>3 DEF ScanInv, TypeInv
<1>5. UnitInv'
  <2>1. /\ open # <<>> => open[1] + open[2] <= i'
                          /\ CodeAt(open[1], open[2])
        /\ open = <<>> => units = <<>>
    BY <1>1, <1>3 DEF ScanInv, UnitInv
  <2>2. \A k \in 1..Len(units) :
            /\ units[k].len >= units[k].sc
            /\ units[k].at + units[k].len <= i'
            /\ units[k].at + units[k].len <= buflen
            /\ CodeAt(units[k].at, units[k].sc)
    BY <1>1, <1>3 DEF ScanInv, UnitInv, Unit
  <2>3. QED
    BY <1>1, <1>2, <2>1, <2>2 DEF UnitInv, CodeAt, At
<1>6. UnitsTile'
  <2>1. ScanTypeOK'
    BY <1>1, <1>2, <1>4 DEF ScanInv, UnitsTile, TypeInv, ScanTypeOK
  <2>2. QED
    BY <1>1, <1>2, <2>1 DEF ScanInv, UnitsTile
<1>7. PassedInv'
  <2>1. Found_at' = Found_at /\ Open_at' = Open_at
    BY <1>1 DEF Found_at, Open_at
  <2>2. ASSUME NEW s \in Starts, s < i'
        PROVE  s \in Found_at \cup Open_at
    <3>1. s \in Nat /\ (Code4(s) \/ Code3(s))
      BY StartIsCode DEF ScanInv
    <3>2. s < i
      BY <1>1, <1>3, <2>2, <3>1
    <3>3. QED
      BY <3>2 DEF ScanInv, PassedInv
  <2>3. \A a \in Found_at : a < i' /\ (open # <<>> => a < open[1])
    <3>1. \A a \in Found_at : a \in Nat
      BY <1>3 DEF Found_at, Unit
    <3>2. QED
      BY <1>1, <1>3, <3>1 DEF ScanInv, PassedInv
  <2>4. (i > 0 /\ i + 3 <= buflen => ~Code4(i - 1))'
    <3>1. i' - 1 = i /\ buf' = buf
      BY <1>1, <1>3
    <3>2. QED
      BY <1>1, <3>1 DEF Code4, At
  <2>5. QED
    BY <1>1, <1>2, <2>1, <2>2, <2>3, <2>4 DEF ScanInv, PassedInv
<1>8. QED
  BY <1>4, <1>5, <1>6, <1>7 DEF ScanInv

\* The scan ends where no start is left, and gives the last unit the rest.
LEMMA FinishStep ==
    ASSUME ScanInv, Finish
    PROVE  ScanInv'
<1>1. /\ UNCHANGED <<buf, i>> /\ open' = <<>> /\ done' = TRUE /\ ~done
      /\ units' = Closed(buflen)
      /\ ~Exhausted => Code4(i) /\ i + 4 >= buflen
  BY DEF Finish, NoMore, Closed
<1>2. buflen' = buflen /\ Starts' = Starts
  BY <1>1 DEF buflen, Starts, Code4, Code3, At
<1>3. /\ buflen \in Nat /\ i \in Nat /\ Len(units) \in Nat
      /\ open # <<>> => open[1] \in 0..buflen /\ open[2] \in {3, 4}
      /\ buflen \in i..buflen
  BY Lengths DEF ScanInv, TypeInv
<1>4. /\ units' \in Seq(Unit)
      /\ Len(units') = Len(units) + (IF open = <<>> THEN 0 ELSE 1)
      /\ \A k \in 1..Len(units') :
             /\ units'[k].len >= units'[k].sc
             /\ units'[k].at + units'[k].len <= buflen
             /\ units'[k].at + units'[k].len \in 0..buflen
             /\ CodeAt(units'[k].at, units'[k].sc)
      /\ {units'[k].at : k \in 1..Len(units')} = Found_at \cup Open_at
      /\ \A k \in 1..(Len(units') - 1) :
             units'[k].at + units'[k].len = units'[k + 1].at
      /\ units' # <<>> =>
             units'[Len(units')].at + units'[Len(units')].len = buflen
  <2> DEFINE w == Closed(buflen)
  <2>1. /\ w \in Seq(Unit)
        /\ Len(w) = Len(units) + (IF open = <<>> THEN 0 ELSE 1)
        /\ \A k \in 1..Len(w) : /\ w[k].len >= w[k].sc
                                /\ w[k].at + w[k].len <= buflen
                                /\ w[k].at + w[k].len \in 0..buflen
                                /\ CodeAt(w[k].at, w[k].sc)
        /\ {w[k].at : k \in 1..Len(w)} = Found_at \cup Open_at
        /\ \A k \in 1..(Len(w) - 1) : w[k].at + w[k].len = w[k + 1].at
        /\ w # <<>> => w[Len(w)].at + w[Len(w)].len = buflen
    BY <1>1, <1>3, Closing
  <2>2. units' = w
    BY <1>1
  <2> HIDE DEF w
  <2>3. QED
    BY <2>1, <2>2
<1>5. Len(units) < Max /\ Len(units') <= Max /\ Max \in Nat
  BY <1>1, <1>3, <1>4, SizesAssumption DEF ScanInv, TypeInv
<1>6. TypeInv'
  BY <1>1, <1>2, <1>4, <1>5 DEF ScanInv, TypeInv
<1>7. UnitInv'
  BY <1>1, <1>2, <1>4 DEF UnitInv, CodeAt, At
<1>8. UnitsTile'
  <2>1. DOMAIN units' = 1..Len(units')
    BY <1>4, LenProperties
  <2>2. ScanTypeOK'
    BY <1>2, <1>4, <1>5, <1>6, <2>1 DEF TypeInv, ScanTypeOK
  <2>3. QED
    BY <1>1, <1>2, <1>4, <2>2 DEF UnitsTile
<1>9. PassedInv'
  <2>1. Found_at' = Found_at \cup Open_at /\ Open_at' = {}
    BY <1>1, <1>4 DEF Found_at, Open_at
  <2>2. ASSUME NEW s \in Starts
        PROVE  s < i
    <3>1. /\ s \in Nat /\ s + 4 <= buflen
          /\ \/ Code4(s) /\ s + 4 < buflen
             \/ Code3(s) /\ (s > 0 => At(s - 1) # 0)
      BY StartIsCode DEF ScanInv
    <3>2. CASE Exhausted
      BY <1>3, <3>1, <3>2 DEF Exhausted
    <3>3. CASE Code4(i) /\ i + 4 >= buflen
      <4>1. ~Code3(i)
        BY <3>3 DEF Code3, Code4
      <4>2. QED
        BY <1>3, <3>1, <3>3, <4>1
    <3>4. QED
      BY <1>1, <3>2, <3>3
  <2>3. \A a \in Found_at \cup Open_at : a \in Starts
    BY DEF ScanInv, PassedInv
  <2>4. (i > 0 /\ i + 3 <= buflen => ~Code4(i - 1))'
    BY <1>1, <1>2 DEF ScanInv, PassedInv, Code4, At
  <2>5. \A s \in Starts : s \in Found_at \cup Open_at
    BY <2>2 DEF ScanInv, PassedInv
  <2>6. QED
    BY <1>1, <1>2, <2>1, <2>2, <2>3, <2>4, <2>5 DEF PassedInv
<1>10. QED
  BY <1>6, <1>7, <1>8, <1>9 DEF ScanInv

\* The invariant, from the first byte to the last.
THEOREM ScanIsKept == ScanSpec => []ScanInv
<1>1. ScanInit => ScanInv
  <2> SUFFICES ASSUME ScanInit PROVE ScanInv
    OBVIOUS
  <2>1. i = 0 /\ open = <<>> /\ units = <<>> /\ done = FALSE
    BY DEF ScanInit
  <2>2. PICK n \in 0..MaxLen : buf \in [1..n -> Byte]
    BY DEF ScanInit
  <2>3. n \in Nat /\ Max \in Nat \ {0}
    BY SizesAssumption
  <2>4. buf \in Seq(Byte)
    BY <2>2, <2>3, SeqDef
  <2>5. units \in Seq(Unit) /\ Len(units) = 0 /\ buflen \in Nat
    BY <2>1, <2>4, EmptySeq, LenProperties DEF buflen
  <2>6. TypeInv
    <3>1. 0 <= Max /\ 0 < Max /\ 0 \in 0..buflen
      BY <2>3, <2>5
    <3>2. QED
      BY <2>1, <2>4, <2>5, <3>1 DEF TypeInv
  <2>7. UnitInv
    BY <2>1, <2>5 DEF UnitInv
  <2>8. DOMAIN units = {}
    BY <2>5, LenProperties
  <2>9. UnitsTile
    <3>1. ScanTypeOK
      BY <2>1, <2>3, <2>5, <2>6, <2>8 DEF TypeInv, ScanTypeOK
    <3>2. QED
      BY <2>1, <2>5, <3>1 DEF UnitsTile
  <2>10. PassedInv
    <3>1. Found_at = {} /\ Open_at = {}
      BY <2>1, <2>5 DEF Found_at, Open_at
    <3>2. \A s \in Starts : s \in Nat
      BY <2>6, StartIsCode
    <3>3. QED
      BY <2>1, <3>1, <3>2 DEF PassedInv
  <2>11. QED
    BY <2>6, <2>7, <2>9, <2>10 DEF ScanInv
<1>2. ScanInv /\ [ScanNext]_scanVars => ScanInv'
  <2> SUFFICES ASSUME ScanInv, [ScanNext]_scanVars PROVE ScanInv'
    OBVIOUS
  <2>1. buflen \in Nat /\ i \in Nat
    BY Lengths DEF ScanInv
  <2>2. TypeInv /\ (i > 0 /\ i + 3 <= buflen => ~Code4(i - 1))
    BY DEF ScanInv, PassedInv
  <2>3. CASE Long
    <3>1. ~Exhausted /\ ~done /\ Code4(i) /\ i + 4 < buflen /\ Found(4)
      BY <2>3 DEF Long
    <3>2. i \in Starts
      BY <2>2, <3>1, FoundIsStart
    <3>3. CodeAt(i, 4)
      BY <3>1 DEF Code4, CodeAt
    <3>4. QED
      BY <2>1, <3>1, <3>2, <3>3, FoundStep
  <2>4. CASE Short
    <3>1. ~Exhausted /\ ~done /\ Code3(i) /\ Found(3) /\ i + 3 <= buflen
      BY <2>1, <2>4 DEF Short, Exhausted
    <3>2. i \in Starts
      BY <2>2, <3>1, FoundIsStart
    <3>3. CodeAt(i, 3)
      BY <3>1 DEF Code3, CodeAt
    <3>4. QED
      BY <2>1, <3>1, <3>2, <3>3, FoundStep
  <2>5. CASE Skip
    BY <2>5, SkipStep
  <2>6. CASE Finish
    BY <2>6, FinishStep
  <2>7. CASE UNCHANGED scanVars
    <3>1. UNCHANGED <<buf, i, open, units, done>>
      BY <2>7 DEF scanVars
    <3>2. TypeInv' /\ ScanTypeOK'
      BY <3>1 DEF ScanInv, TypeInv, UnitsTile, ScanTypeOK, buflen
    <3>3. UnitInv'
      BY <3>1 DEF ScanInv, UnitInv, CodeAt, At, buflen
    <3>4. UnitsTile'
      BY <3>1, <3>2 DEF ScanInv, UnitsTile, buflen
    <3>5. Starts' = Starts /\ Found_at' = Found_at /\ Open_at' = Open_at
      BY <3>1 DEF Starts, Found_at, Open_at, Code4, Code3, At, buflen
    <3>6. PassedInv'
      BY <3>1, <3>5 DEF ScanInv, PassedInv, Code4, At, buflen
    <3>7. QED
      BY <3>2, <3>3, <3>4, <3>6 DEF ScanInv
  <2>8. QED
    BY <2>3, <2>4, <2>5, <2>6, <2>7 DEF ScanNext
<1>3. QED
  BY <1>1, <1>2, PTL DEF ScanSpec

\* parse_nal_units() cuts a delivery into units that leave no gap and do not
\* overlap, up to the open one or the end of the bytes.
THEOREM UnitsAreTiled == ScanSpec => []UnitsTile
BY ScanIsKept, PTL DEF ScanInv

\* The units of a finished scan are the first ones of the Annex-B reference,
\* all of them where the array has room.
THEOREM NoUnitIsMissed == ScanSpec => []NoUnitMissed
<1>1. ScanInv => NoUnitMissed
  <2> SUFFICES ASSUME ScanInv, done PROVE NoUnitMissed
    BY DEF NoUnitMissed
  <2>1. DOMAIN units = 1..Len(units) /\ i \in Nat
    BY Lengths, LenProperties DEF ScanInv, TypeInv
  <2>2. {units[k].at : k \in DOMAIN units} = Found_at
    BY <2>1 DEF Found_at
  <2>3. Found_at \subseteq Starts
    BY DEF ScanInv, PassedInv
  <2>4. CASE open = <<>>
    <3>1. Found_at = Starts
      BY <2>3, <2>4 DEF ScanInv, PassedInv, Open_at
    <3>2. QED
      BY <2>2, <3>1 DEF NoUnitMissed
  <2>5. CASE open # <<>>
    <3>1. Len(units) = Max
      BY <2>5 DEF ScanInv, UnitInv
    <3>2. ASSUME NEW s \in Starts \ Found_at, NEW f \in Found_at
          PROVE  f < s
      <4>1. s \in Nat /\ f \in Nat
        BY <2>3, StartIsCode DEF ScanInv
      <4>2. s >= i \/ s = open[1]
        BY <2>1, <2>5, <3>2, <4>1 DEF ScanInv, PassedInv, Open_at
      <4>3. f < i /\ f < open[1]
        BY <2>5 DEF ScanInv, PassedInv
      <4>4. QED
        BY <2>1, <4>1, <4>2, <4>3
    <3>3. Len(units) \in Nat /\ ~(Len(units) < Max)
      BY <3>1, Lengths DEF ScanInv
    <3>4. QED
      BY <2>2, <2>3, <3>2, <3>3 DEF NoUnitMissed
  <2>6. QED
    BY <2>4, <2>5
<1>2. QED
  BY <1>1, ScanIsKept, PTL

\* nal_header_offset() works out of a unit's bytes the length of the start
\* code that the scan found.
THEOREM HeadersAgree == ScanSpec => []HeaderAgrees
<1>1. ScanInv => HeaderAgrees
  <2> SUFFICES ASSUME ScanInv, NEW k \in DOMAIN units
               PROVE  nal_header_offset(units[k]) = units[k].sc
    BY DEF HeaderAgrees
  <2>1. k \in 1..Len(units) /\ units[k] \in Unit
    BY LenProperties, ElementOfSeq DEF ScanInv, TypeInv
  <2>2. units[k].len >= units[k].sc /\ CodeAt(units[k].at, units[k].sc)
    BY <2>1 DEF ScanInv, UnitInv
  <2>3. units[k].sc \in {3, 4} /\ units[k].len \in Nat
    BY <2>1 DEF Unit
  <2>4. QED
    BY <2>2, <2>3 DEF CodeAt, nal_header_offset
<1>2. QED
  BY <1>1, ScanIsKept, PTL

-----------------------------------------------------------------------------
(* The time: what the two latches hold at each position of the callback.   *)

\* A delivery in hand has a unit left to stamp, and a clock; so has a
\* pipeline that has been through set_clock().
WorkInv ==
    /\ cb # "idle" => cbUnits >= 1 /\ cbClock \in Clocks
    /\ app \in {"base", "relatch", "PLAYING"} => clock \in Clocks

\* Between the assignment of a base time and change_state() the latch may
\* still hold the one before; elsewhere it is unset, or the pipeline's,
\* unless a disturbed delivery wrote it.
LatchInv ==
    ~raced /\ app # "relatch" => base_time \in {G_MAXUINT64, element_base}

\* What an undisturbed delivery holds: the latch it found, then, if that was
\* unset, the pipeline's own base time.
LocalInv ==
    /\ cb = "commit" /\ ~touched => cbBase = element_base
    /\ ~touched /\ ~raced /\ app # "relatch" =>
           /\ cb = "now" => cbBase \in {G_MAXUINT64, element_base}
           /\ cb = "stamp" => cbBase = element_base

StampInv == HonestStamp /\ WorkInv /\ LatchInv /\ LocalInv

-----------------------------------------------------------------------------
(* Times modulo Width.                                                     *)

\* Whatever GstClockTime arithmetic comes to, it is a time again.
LEMMA WrapTypes ==
    ASSUME NEW a \in Int
    PROVE  a % Width \in Times
BY WidthAssumption DEF Times, G_MAXUINT64

\* One tick more than a PTS does not wrap: G_MAXUINT64 is no PTS but "unset".
LEMMA NoWrap ==
    ASSUME NEW ts \in Times, ts # G_MAXUINT64
    PROVE  (ts + 1) % Width = ts + 1
BY WidthAssumption DEF Times, G_MAXUINT64

\* The sentinel is a time, and every time is an integer.
LEMMA TimeTypes == G_MAXUINT64 \in Times /\ 0 \in Times /\ Times \subseteq Int
BY WidthAssumption DEF Times, G_MAXUINT64

\* The bounds are naturals, and so is what a clock shows at tick zero.
LEMMA BoundTypes ==
    /\ MaxTick \in Nat /\ MaxUnits \in Nat
    /\ ClockOffset \in [Clocks -> Nat]
BY WidthAssumption

\* A difference of times, and what a clock shows, are times.
LEMMA ClockTypes ==
    ASSUME TypeOK
    PROVE  /\ \A a, b \in Times : Minus(a, b) \in Times
           /\ \A c \in Clocks : Reading(c) \in Times
<1>1. \A a, b \in Times : a - b \in Int
  BY TimeTypes
<1>2. \A c \in Clocks : ClockOffset[c] + tick \in Int
  BY BoundTypes DEF TypeOK
<1>3. QED
  BY <1>1, <1>2, WrapTypes DEF Minus, Reading

-----------------------------------------------------------------------------
(* Types.                                                                  *)

\* Every step keeps the types, and a delivery keeps its clock and its units.
LEMMA TypeStep ==
    ASSUME TypeOK, WorkInv, [Next]_vars
    PROVE  TypeOK' /\ WorkInv'
<1> USE ClocksAssumption, TimeTypes
    DEF TypeOK, WorkInv, latches, locals, pipeline, history, ResetLatches
<1>1. CASE Pause
  BY <1>1, ClockTypes DEF Pause
<1>2. CASE Resume
  BY <1>2 DEF Resume
<1>3. CASE SetClock
  BY <1>3 DEF SetClock, Touch
<1>4. CASE AssignBase
  BY <1>4, ClockTypes DEF AssignBase, Touch
<1>5. CASE ChangeState
  BY <1>5 DEF ChangeState, Relatch
<1>6. CASE StartStream
  BY <1>6 DEF StartStream
<1>7. CASE Snapshot
  <2>1. cbUnits' \in 0 .. MaxUnits /\ cbUnits' >= 1 /\ tick' \in 0 .. MaxTick
    BY <1>7, BoundTypes DEF Snapshot
  <2>2. cbClock' \in Clocks /\ cbBase' \in Times
    BY <1>7 DEF Snapshot
  <2>3. QED
    BY <1>7, <2>1, <2>2 DEF Snapshot
<1>8. CASE ReadClock
  BY <1>8, ClockTypes DEF ReadClock
<1>9. CASE ReadBase
  BY <1>9 DEF ReadBase
<1>10. CASE Commit
  BY <1>10 DEF Commit
<1>11. CASE Stamp
  <2> DEFINE pts == Clamped(Minus(cbNow, cbBase))
  <2>1. Minus(cbNow, cbBase) \in Times /\ (prev_pts + 1) % Width \in Times
    BY ClockTypes, WrapTypes
  <2>2. pts \in Times /\ Minus(cbNow, element_base) \in Times
    BY <2>1, ClockTypes DEF Clamped
  <2>3. stamped' \in Stamps /\ prev_pts' \in Times
    BY <1>11, <2>2 DEF Stamp, Stamps
  <2>4. cbUnits' \in 0 .. MaxUnits /\ (cb' # "idle" => cbUnits' >= 1)
    BY <1>11, BoundTypes DEF Stamp
  <2>5. QED
    BY <1>11, <2>3, <2>4 DEF Stamp
<1>12. CASE Tick
  BY <1>12, BoundTypes DEF Tick
<1>13. CASE UNCHANGED vars
  BY <1>13 DEF vars
<1>14. QED
  BY <1>1, <1>2, <1>3, <1>4, <1>5, <1>6, <1>7, <1>8, <1>9, <1>10, <1>11,
     <1>12, <1>13 DEF Next

-----------------------------------------------------------------------------
(* The latches.                                                            *)

\* set_clock() and change_state() unset the latch, a commit writes what the
\* pipeline says now: only a disturbed delivery can leave an older base.
LEMMA LatchStep ==
    ASSUME LatchInv, LocalInv, [Next]_vars
    PROVE  LatchInv'
<1> USE DEF LatchInv, latches, pipeline, history, ResetLatches
<1>1. CASE Commit
  BY <1>1 DEF Commit, LocalInv
<1>2. CASE Stamp
  BY <1>2 DEF Stamp
<1>3. CASE SetClock
  BY <1>3 DEF SetClock, Touch
<1>4. CASE AssignBase
  BY <1>4 DEF AssignBase
<1>5. CASE ChangeState
  BY <1>5 DEF ChangeState, Relatch
<1>6. CASE StartStream
  BY <1>6 DEF StartStream
<1>7. CASE Pause \/ Resume \/ Snapshot \/ ReadClock \/ ReadBase \/ Tick
  BY <1>7 DEF Pause, Resume, Snapshot, ReadClock, ReadBase, Tick
<1>8. CASE UNCHANGED vars
  BY <1>8 DEF vars
<1>9. QED
  BY <1>1, <1>2, <1>3, <1>4, <1>5, <1>6, <1>7, <1>8 DEF Next

\* A delivery whose base time is swapped under it is a disturbed one.
LEMMA LocalStep ==
    ASSUME TypeOK, LatchInv, LocalInv, [Next]_vars
    PROVE  LocalInv'
<1> USE DEF LocalInv, locals, pipeline, history
<1>1. CASE Snapshot
  BY <1>1 DEF Snapshot, LatchInv
<1>2. CASE ReadClock
  BY <1>2 DEF ReadClock
<1>3. CASE ReadBase
  BY <1>3 DEF ReadBase
<1>4. CASE Commit
  BY <1>4 DEF Commit
<1>5. CASE Stamp
  BY <1>5 DEF Stamp, TypeOK
<1>6. CASE SetClock
  BY <1>6 DEF SetClock, Touch, TypeOK
<1>7. CASE AssignBase
  BY <1>7 DEF AssignBase, Touch, TypeOK
<1>8. CASE ChangeState
  BY <1>8 DEF ChangeState, TypeOK
<1>9. CASE StartStream
  BY <1>9 DEF StartStream
<1>10. CASE Pause \/ Resume \/ Tick
  BY <1>10 DEF Pause, Resume, Tick
<1>11. CASE UNCHANGED vars
  BY <1>11 DEF vars
<1>12. QED
  BY <1>1, <1>2, <1>3, <1>4, <1>5, <1>6, <1>7, <1>8, <1>9, <1>10, <1>11
     DEF Next

\* The stamp of an undisturbed delivery is made of the pipeline's base time,
\* and the clamp adds one without a wrap.
LEMMA StampStep ==
    ASSUME HonestStamp, WorkInv, LatchInv, LocalInv, [Next]_vars
    PROVE  HonestStamp'
<1>1. TypeOK'
  BY TypeStep DEF HonestStamp
<1>2. CASE Stamp
  <2> SUFFICES ASSUME stamped'.clean
               PROVE  stamped'.pts = IF stamped'.prev # G_MAXUINT64
                                        /\ stamped'.due <= stamped'.prev
                                     THEN stamped'.prev + 1
                                     ELSE stamped'.due
    BY <1>1 DEF HonestStamp
  <2>1. /\ stamped'.pts = Clamped(Minus(cbNow, cbBase))
        /\ stamped'.prev = prev_pts
        /\ stamped'.due = Minus(cbNow, element_base)
        /\ stamped'.clean = (~touched /\ ~raced
                             /\ app \in {"PLAYING", "PAUSED"})
    BY <1>2 DEF Stamp
  <2>2. cbBase = element_base
    BY <1>2, <2>1 DEF Stamp, LocalInv
  <2>3. prev_pts # G_MAXUINT64 => (prev_pts + 1) % Width = prev_pts + 1
    BY NoWrap DEF HonestStamp, TypeOK
  <2>4. QED
    BY <2>1, <2>2, <2>3 DEF Clamped
<1>3. CASE stamped' = stamped
  BY <1>1, <1>3 DEF HonestStamp
<1>4. QED
  BY <1>2, <1>3 DEF Next, vars, history, Touch, Pause, Resume, SetClock,
                    AssignBase, ChangeState, StartStream, Snapshot,
                    ReadClock, ReadBase, Commit, Tick

-----------------------------------------------------------------------------

\* The invariant, and with it types.
THEOREM LatchesAreKept == Spec => []StampInv
<1>1. Init => StampInv
  <2> SUFFICES ASSUME Init PROVE StampInv
    OBVIOUS
  <2>1. TypeOK
    <3>1. stamped \in Stamps
      BY TimeTypes DEF Init, Stamps
    <3>2. tick \in 0 .. MaxTick /\ cbUnits \in 0 .. MaxUnits
      BY BoundTypes DEF Init
    <3>3. QED
      BY <3>1, <3>2, TimeTypes DEF Init, TypeOK
  <2>2. HonestStamp
    BY <2>1 DEF Init, HonestStamp
  <2>3. QED
    BY <2>2 DEF Init, StampInv, WorkInv, LatchInv, LocalInv
<1>2. StampInv /\ [Next]_vars => StampInv'
  BY TypeStep, LatchStep, LocalStep, StampStep DEF StampInv, HonestStamp
<1>3. QED
  BY <1>1, <1>2, PTL DEF Spec

\* A delivery that no clock change and no resume overlapped is stamped with
\* the running time it arrived at, or one tick past the PTS before it.
THEOREM StampsAreHonest == Spec => []HonestStamp
BY LatchesAreKept, PTL DEF StampInv
=============================================================================
