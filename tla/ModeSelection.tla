--------------------------- MODULE ModeSelection ---------------------------
(***************************************************************************)
(* How negotiate() picks a mode from what the camera advertises, what its  *)
(* quirk row allows and what the peer accepts.  Constant operators only:   *)
(* StreamArming runs them.                                                 *)
(*                                                                         *)
(* A mode is one frame descriptor: [codec, w, h, kind, rates].  kind is    *)
(* "list" for discrete intervals, "range" for a continuous one, and "zero" *)
(* for a range with a zero interval.  Rates are whole frames per second,   *)
(* as the code makes them; a range is the set of the rates between its     *)
(* ends, and holds two or more, under the cap too: GStreamer refuses a     *)
(* range of one.  The peer is [codecs, frames, rates], the sets it accepts.*)
(***************************************************************************)
EXTENDS Integers, Sequences, FiniteSets, FiniteSetsExt, SequencesExt

Codecs == {"h264", "h265"}
Pixels(m) == m.w * m.h

Modes == [codec : STRING, w : Nat \ {0}, h : Nat \ {0},
          kind : {"list", "range", "zero"}, rates : SUBSET Nat]

-----------------------------------------------------------------------------
(* The quirk table: rows [id, flagged, max_pixel_rate], 0 for no cap.      *)

\* Only a row that carries the flag limits its device, at its own rate.
QuirkLimit(table, id) ==
    LET rows == {n \in DOMAIN table : table[n].id = id}
        row  == table[Min(rows)]
    IN  IF rows # {} /\ row.flagged THEN row.max_pixel_rate ELSE 0

\* uvc_quirk_mode_selectable() judges one rate of a list; a range has its top
\* clamped to uvc_quirk_max_fps() instead.
Selectable(cap, m, r) == cap = 0 \/ Pixels(m) * r <= cap
MaxFps(cap, m) == cap \div Pixels(m)

F_Truncated(cap, m) == {r \in m.rates : cap = 0 \/ r <= cap \div m.w}

WithinCap(cap, m) ==
    IF m.kind = "range" THEN {r \in m.rates : cap = 0 \/ r <= MaxFps(cap, m)}
    ELSE {r \in m.rates : Selectable(cap, m, r)}

Filter(cap, m) == [m EXCEPT !.rates = WithinCap(cap, m)]

\* Neither degenerate nor emptied by the filter.
Publishable(m) == m.codec \in Codecs /\ m.kind # "zero" /\ m.rates # {}

Publish(cap, ladder, m) ==
    IF Publishable(Filter(cap, m)) THEN Append(ladder, Filter(cap, m))
    ELSE ladder

\* What "filter-deliverable-caps" answers, and what negotiate() selects from
\* and publishes.
Deliverable(cap, modes) ==
    FoldLeft(LAMBDA ladder, m : Publish(cap, ladder, m), <<>>, modes)

-----------------------------------------------------------------------------
(* The preference: the largest picture, then the highest rate.             *)

\* -1 for a range: it loses every tie of size, and fixates to its lowest rate.
TopRate(m) == IF m.kind = "range" THEN -1 ELSE Max(m.rates)

Common(peer, m) == m.rates \cap peer.rates

Compatible(peer, m) ==
    /\ m.codec \in peer.codecs /\ <<m.w, m.h>> \in peer.frames
    /\ Common(peer, m) # {}

F_OwnRate(peer, m) == IF m.kind = "range" THEN Min(m.rates) ELSE Max(m.rates)

\* The rate of the common caps nearest to the mode's own top rate.
Fixated(peer, m) ==
    IF m.kind = "range" THEN Min(Common(peer, m)) ELSE Max(Common(peer, m))

NoMode == [codec |-> "none", w |-> -1, h |-> -1, rate |-> -1]

\* The top rate of the new mode, before the peer's restriction, against the
\* fixated rate of the best so far.  (The initial -1 by -1 counts as one
\* pixel.)
Preferred(best, m) ==
    \/ Pixels(m) > Pixels(best)
    \/ Pixels(m) = Pixels(best) /\ TopRate(m) > best.rate

Better(peer, best, m) ==
    IF Compatible(peer, m) /\ Preferred(best, m)
    THEN [codec |-> m.codec, w |-> m.w, h |-> m.h, rate |-> Fixated(peer, m)]
    ELSE best

Select(peer, ladder) ==
    FoldLeft(LAMBDA best, m : Better(peer, best, m), NoMode, ladder)

\* A rate of zero would divide by zero: it fails the negotiation.
Usable(best) == best # NoMode /\ best.rate > 0
=============================================================================
