----------------------------- MODULE MCSdPreview -----------------------------
(* Recordings of which mdat is the last box, is followed by another mdat, or is open *)
(* and longer than what is asked for.                                              *)
EXTENDS SdPreview

MCBox(type, end) == [type |-> type, end |-> end, sized |-> TRUE]
MCLayouts ==
    {[pre |-> 1, boxes |-> <<MCBox("ftyp", 3), MCBox("mdat", 4)>>],
     [pre |-> 0, boxes |-> <<MCBox("ftyp", 2), MCBox("mdat", 3), MCBox("mdat", 4)>>],
     [pre |-> 0, boxes |-> <<MCBox("ftyp", 2), [type |-> "mdat", end |-> 5, sized |-> FALSE]>>]}
=============================================================================
