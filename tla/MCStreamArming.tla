--------------------------- MODULE MCStreamArming ---------------------------
(* Small cameras, peers and links for StreamArming.  Only camera "dji" has *)
(* a quirk row that limits it; "tv" has one without the flag.              *)
EXTENDS StreamArming

Mode(c, w, h, k, r) == [codec |-> c, w |-> w, h |-> h, kind |-> k, rates |-> r]

Big    == Mode("h264", 4, 2, "list", {2, 4})
BigHi  == Mode("h265", 2, 4, "list", {1, 3, 4})
BigAny == Mode("h265", 4, 2, "range", 1..4)
Small  == Mode("h264", 2, 1, "list", {2, 4})
Slow   == Mode("h264", 4, 2, "list", {0, 1})
Faulty == Mode("h264", 4, 4, "zero", {})
Huge   == Mode("h264", 4, 4, "list", {2, 4})
Mjpeg  == Mode("mjpeg", 4, 4, "list", {4})

Ladders == {<<a, b>> : a, b \in {Big, BigHi, BigAny, Small}}
           \cup {<<Small, Faulty, BigAny>>, <<Huge, Mjpeg, Slow>>}

AllCameras == {[id |-> "dji", modes |-> l] : l \in Ladders}
              \cup {[id |-> "tv", modes |-> <<Faulty, BigHi, Big>>]}
Rows == <<[id |-> "tv", flagged |-> FALSE, max_pixel_rate |-> 1],
          [id |-> "dji", flagged |-> TRUE, max_pixel_rate |-> 16],
          [id |-> "dji", flagged |-> TRUE, max_pixel_rate |-> 64]>>

AnyFrame == {<<4, 4>>, <<4, 2>>, <<2, 4>>, <<2, 1>>}
AllPeers == {[codecs |-> Codecs, frames |-> AnyFrame, rates |-> 0..4],
             [codecs |-> Codecs, frames |-> AnyFrame, rates |-> 0..3],
             [codecs |-> {"h264"}, frames |-> {<<4, 2>>}, rates |-> {2, 4}]}

\* The device's own payload fits, fits only just, or does not fit.
AllLinks == {[default |-> 3, limit |-> 5], [default |-> 3, limit |-> 3],
             [default |-> 2, limit |-> 1]}
=============================================================================
