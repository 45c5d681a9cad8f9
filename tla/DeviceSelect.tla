---------------------------- MODULE DeviceSelect ----------------------------
(***************************************************************************)
(* The "index" property: how its text is parsed into a device selector,    *)
(* and which enumerated device the selector finds.  Constant operators     *)
(* only.                                                                   *)
(*                                                                         *)
(* A text is [prefix |-> "serial", sn] or [prefix, fields] with prefix     *)
(* "bus" or "none", split at its colons.  A field is [dec, hex]: what it   *)
(* reads as in each base, -1 when strtol() leaves a byte of it unread.  A  *)
(* device is [vid, pid, serial, bus, addr, readable]; readable is whether  *)
(* its descriptor can be had.                                              *)
(***************************************************************************)
EXTENDS Integers, Sequences, FiniteSetsExt

INT_MAX == 2147483647

Malformed == [type |-> "malformed"]

BusSelector(f) ==
    IF Len(f) = 2 /\ f[1].dec \in 0..255 /\ f[2].dec \in 0..255
    THEN [type |-> "bus", bus |-> f[1].dec, addr |-> f[2].dec]
    ELSE Malformed

\* A colon without a known prefix makes it the hex form.
VidPidSelector(f) ==
    IF Len(f) = 2 /\ f[1].hex \in 0..65535 /\ f[2].hex \in 0..65535
    THEN [type |-> "vidpid", vid |-> f[1].hex, pid |-> f[2].hex]
    ELSE Malformed

OrdinalSelector(f) ==
    IF f.dec \in 0..INT_MAX THEN [type |-> "ordinal", ordinal |-> f.dec]
    ELSE Malformed

parse_selector(text) ==
    CASE text.prefix = "serial" ->
             IF text.sn = "" THEN Malformed
             ELSE [type |-> "serial", serial |-> text.sn]
      [] text.prefix = "bus" -> BusSelector(text.fields)
      [] OTHER -> IF Len(text.fields) > 1 THEN VidPidSelector(text.fields)
                  ELSE OrdinalSelector(text.fields[1])

\* ordinal is the position in the list, from 0.
selector_matches(sel, dev, ordinal) ==
    CASE sel.type = "ordinal" -> ordinal = sel.ordinal
      [] sel.type = "vidpid" ->
             dev.readable /\ dev.vid = sel.vid /\ dev.pid = sel.pid
      [] sel.type = "serial" -> dev.readable /\ dev.serial = sel.serial
      [] sel.type = "bus" -> dev.bus = sel.bus /\ dev.addr = sel.addr
      [] OTHER -> FALSE

\* The first match of one enumeration, as a set: empty when none matches.
resolve_device(text, list) ==
    LET hits == {i \in DOMAIN list :
                     selector_matches(parse_selector(text), list[i], i - 1)}
    IN  IF hits = {} THEN {} ELSE {list[Min(hits)]}
=============================================================================
