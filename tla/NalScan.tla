-------------------------------- MODULE NalScan --------------------------------
(***************************************************************************)
(* parse_nal_units() over find_nal_unit(): one pass over the bytes of a    *)
(* delivery that cuts it at its Annex-B start codes, three or four bytes   *)
(* long.  One action per turn of the scanning loop, for any delivery of at *)
(* most MaxLen bytes; count_nal_units() makes the same pass and keeps only *)
(* the number.  Offsets are those of the code, counted from 0.             *)
(***************************************************************************)
EXTENDS Integers, Sequences

CONSTANTS
    Byte,       \* byte values the scan tells apart: 0, 1 and another
    MaxLen,     \* bound: bytes in a delivery
    Max         \* units the caller has room for

ASSUME ByteAssumption == {0, 1} \subseteq Byte
ASSUME SizesAssumption == MaxLen \in Nat /\ Max \in Nat \ {0}

VARIABLES
    buf,        \* the delivery
    i,          \* where the scan stands
    open,       \* the unit being measured: <<>>, or <<its start, code length>>
    units,      \* the units stored
    done

scanVars == <<buf, i, open, units, done>>

buflen == Len(buf)
At(k)  == buf[k + 1]

ScanInit ==
    /\ buf \in UNION {[1..n -> Byte] : n \in 0..MaxLen}
    /\ i = 0 /\ open = <<>> /\ units = <<>> /\ done = FALSE

\* There is no room left for a 3-byte code and a header byte.
Exhausted == i + 4 > buflen

Code4(k) == At(k) = 0 /\ At(k + 1) = 0 /\ At(k + 2) = 0 /\ At(k + 3) = 1
Code3(k) == At(k) = 0 /\ At(k + 1) = 0 /\ At(k + 2) = 1

F_CloseLate(end) == Append(units, [at |-> open[1], sc |-> open[2],
                                   len |-> end - open[1] + 1])

\* The open unit ends where the next code, or the delivery, does.
CloseUnit(end) == Append(units, [at |-> open[1], sc |-> open[2],
                                 len |-> end - open[1]])

F_FromPastHeader(at, sc) == at + sc + 1

\* The scan resumes right past this code: the next may follow at once.
ScanFrom(at, sc) == at + sc

\* A code at i opens a unit and closes the one before it; a full array stops
\* the scan there, and the unit just found is dropped.
Found(sc) ==
    /\ units' = IF open = <<>> THEN units ELSE CloseUnit(i)
    /\ open' = <<i, sc>>
    /\ i' = ScanFrom(i, sc)
    /\ done' = (Len(units') = Max)
    /\ buf' = buf

NoMore ==
    /\ units' = IF open = <<>> THEN units ELSE CloseUnit(buflen)
    /\ open' = <<>>
    /\ done' = TRUE
    /\ UNCHANGED <<buf, i>>

Long  == ~done /\ ~Exhausted /\ Code4(i) /\ i + 4 < buflen /\ Found(4)
Short == ~done /\ ~Exhausted /\ ~Code4(i) /\ Code3(i) /\ Found(3)
Skip  ==
    /\ ~done /\ ~Exhausted /\ ~Code4(i) /\ ~Code3(i)
    /\ i' = i + 1
    /\ UNCHANGED <<buf, open, units, done>>

\* The end, or a 4-byte code that no header byte follows.
Finish ==
    /\ ~done
    /\ ~Exhausted => Code4(i) /\ i + 4 >= buflen
    /\ NoMore

ScanNext == Long \/ Short \/ Skip \/ Finish

ScanSpec == ScanInit /\ [][ScanNext]_scanVars

\* The header's offset inside a unit, worked out again from its bytes.
F_ByFourth(u) == IF At(u.at + 3) = 1 THEN 4 ELSE 3

nal_header_offset(u) == IF u.len >= 3 /\ At(u.at + 2) = 1 THEN 3 ELSE 4

-----------------------------------------------------------------------------
(* Properties.                                                             *)

\* Types: every position the scan holds lies inside the delivery, and the
\* array of units is never overrun.
ScanTypeOK ==
    /\ i \in 0..buflen
    /\ open \in {<<>>} \cup ((0..buflen) \X {3, 4})
    /\ \A k \in DOMAIN units : units[k].at + units[k].len \in 0..buflen
    /\ Len(units) <= Max

\* Where Annex B puts a unit: at a start code, the zero before a 3-byte code
\* counted in, with at least a header byte after it.
Starts ==
    {k \in 0..(buflen - 5) : Code4(k)} \cup
    {k \in 0..(buflen - 4) : Code3(k) /\ (k > 0 => At(k - 1) # 0)}

\* The units stored tile the delivery: each ends where the next begins, and
\* the last one ends at the open unit, or at the end of the bytes.
UnitsTile ==
    /\ ScanTypeOK
    /\ \A k \in 1..(Len(units) - 1) :
           units[k].at + units[k].len = units[k + 1].at
    /\ units # <<>> =>
           LET last == units[Len(units)]
           IN  last.at + last.len = IF open = <<>> THEN buflen ELSE open[1]

\* No start code is missed or invented, whatever surrounds it: the units
\* found are the first Max of the reference, in order.
NoUnitMissed ==
    done => LET found == {units[k].at : k \in DOMAIN units}
            IN  /\ found \subseteq Starts
                /\ Len(units) < Max => found = Starts
                /\ \A s \in Starts \ found, f \in found : f < s

\* nal_opens_new_picture() looks for the header where the scan saw it.
HeaderAgrees ==
    \A k \in DOMAIN units : nal_header_offset(units[k]) = units[k].sc
=============================================================================
