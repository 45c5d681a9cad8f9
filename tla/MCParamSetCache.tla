-------------------------- MODULE MCParamSetCache --------------------------
(* Two cameras, the ways to name them and the modes for ParamSetCache.      *)
EXTENDS ParamSetCache

Number(n) == [dec |-> n, hex |-> n]

ByOrdinal == [prefix |-> "none", fields |-> <<Number(0)>>]
ByVidPid  == [prefix |-> "none", fields |-> <<Number(1), Number(1)>>]
BySerial  == [prefix |-> "serial", sn |-> "B"]

CamA(addr) == [vid |-> 1, pid |-> 1, serial |-> "A", bus |-> 1, addr |-> addr,
               readable |-> TRUE]
CamB(addr) == [vid |-> 1, pid |-> 2, serial |-> "B", bus |-> 1, addr |-> addr,
               readable |-> TRUE]

AllIndexes == {ByOrdinal, BySerial}
AllBuses == {<<CamA(1), CamB(2)>>, <<CamB(2), CamA(3)>>}
AllModes == {[codec |-> "h264", size |-> 1], [codec |-> "h264", size |-> 2],
             [codec |-> "h265", size |-> 1]}

AllOrNone == {{}, Kinds("h264"), Kinds("h265")}
SomeOrAll == AllOrNone \cup {{"sps"}}

\* In H.265, the camera with the serial has an SPS too long to keep.
LongSps == {[model |-> <<1, 2>>, codec |-> "h265", kind |-> "sps"]}

-----------------------------------------------------------------------------
(* The other selectors, over every order of three devices, two of a model. *)

Hex(n)  == [dec |-> -1, hex |-> n]
Junk    == [dec |-> -1, hex |-> -1]
Text(p, f) == [prefix |-> p, fields |-> f]

Twin == [vid |-> 1, pid |-> 1, serial |-> "none", bus |-> 2, addr |-> 1,
         readable |-> TRUE]
Mute == [CamB(2) EXCEPT !.readable = FALSE]

Orders == {<<CamA(1), CamB(2), Twin>>, <<Twin, CamB(2), CamA(1)>>,
           <<CamB(2), Twin, CamA(1)>>, <<Mute, CamA(1), Twin>>}

\* A malformed text finds nothing, whatever is plugged in.
ASSUME MalformedFindsNothing ==
    \A list \in Orders, t \in
        {[prefix |-> "serial", sn |-> ""],
         Text("bus", <<Number(1)>>), Text("bus", <<Number(1), Number(256)>>),
         Text("bus", <<Hex(10), Number(1)>>),
         Text("none", <<Number(1), Number(65536)>>),
         Text("none", <<Number(1), Number(1), Number(1)>>),
         Text("none", <<Hex(10)>>), Text("none", <<Junk>>)} :
        resolve_device(t, list) = {}

\* A vid:pid or a serial finds a camera of the same model in every order, and
\* no device whose descriptor cannot be read.
ASSUME StableFindsItsModel ==
    \A list \in Orders :
        /\ {Model(d) : d \in resolve_device(ByVidPid, list)} = {<<1, 1>>}
        /\ resolve_device(BySerial, list) \subseteq {CamB(2)}

\* A bus address finds what is there, an ordinal what is listed there.
ASSUME PlaceFindsWhatIsThere ==
    \A list \in Orders :
        /\ resolve_device(Text("bus", <<Number(2), Number(1)>>), list) = {Twin}
        /\ \A n \in 0..2 :
              resolve_device(Text("none", <<Number(n)>>), list) = {list[n + 1]}
=============================================================================
