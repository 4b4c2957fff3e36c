----------------------------- MODULE MCSdLibrary -----------------------------
(* Two days of ten times each: recordings of one day and of both, of both      *)
(* streams, of one name, of unknown size, and more than the pages hold.       *)
EXTENDS SdLibrary

Rec(name, start, end, stream, size) ==
    [name |-> name, start |-> start, end |-> end, stream |-> stream, size |-> size]
MCCards ==
    {<<Rec(1, 11, 12, "main", 2), Rec(2, 18, 21, "main", 1), Rec(3, 25, 26, "main", 2)>>,
     <<Rec(1, 13, 14, "main", 1), Rec(3, 13, 14, "sub", 1), Rec(1, 22, 23, "sub", Unknown)>>,
     <<Rec(1, 11, 12, "sub", 1), Rec(2, 13, 14, "sub", 1), Rec(3, 15, 16, "sub", 1), Rec(4, 17, 18, "sub", 2)>>}
MCCameras == [handle : BOOLEAN, ext : BOOLEAN, ending : {"empty", "repeat", "refuse"}]
=============================================================================
