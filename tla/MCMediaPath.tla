----------------------------- MODULE MCMediaPath -----------------------------
(* Streams in which something can go wrong; a keyframe fills 17 packets.       *)
EXTENDS MediaPath

\* The packets of these kinds, each with its last cell.
MCStream(kinds) ==
    LET end[i \in 0 .. Len(kinds)] == IF i = 0 THEN 0 ELSE end[i - 1] + Length(kinds[i])
    IN  [i \in 1 .. Len(kinds) |-> [kind |-> kinds[i], end |-> end[i]]]
MCStreams == {MCStream(kinds) : kinds \in {
    <<"iframe", "aac", "pframe", "aac">>,
    <<"pframe", "aac", "iframe", "pframe">>,
    <<"adpcm", "info", "iframe">>,
    <<"junk", "iframe", "aac">>,
    <<"pframe", "broken", "iframe">>,
    <<"iframe", "junk", "aac">> }}
MCData == [k \in Kind |-> CASE k = "info" -> 0 [] k \in {"iframe", "junk"} -> 2 [] OTHER -> 1]
MCBytes == [iframe |-> 3000, pframe |-> 100, aac |-> 200]
MCBytesEdge == [iframe |-> 3000, pframe |-> 100, aac |-> 169]
=============================================================================
