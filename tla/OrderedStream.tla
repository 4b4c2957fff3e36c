---------------------------- MODULE OrderedStream ----------------------------
(***************************************************************************)
(* What one direction of a Baichuan byte channel promises, whatever         *)
(* datagrams carry it: the reader is handed the chunks the writer wrote, in *)
(* the order they were written and each of them once.  A message is written *)
(* whole, so its chunks are adjacent in the stream.  A channel told to limit *)
(* its reordering buffer (max_pending_chunks) is `lossy': the reader may    *)
(* then miss chunks, but what it is handed still moves forward.             *)
(***************************************************************************)
EXTENDS Naturals, Sequences

CONSTANT Message    \* the non-empty sequences of chunks a writer may write

VARIABLES
    written,        \* every chunk written so far
    position,       \* how many of them the reader has been taken past
    delivered,      \* what the reader has been handed
    lossy           \* may chunks be skipped?

vars == <<written, position, delivered, lossy>>

Init ==
    /\ written = <<>>
    /\ position = 0
    /\ delivered = <<>>
    /\ lossy \in BOOLEAN

Write ==
    /\ \E m \in Message : written' = written \o m
    /\ UNCHANGED <<position, delivered, lossy>>

Deliver ==
    \E from, to \in position .. Len(written) :
        /\ from < to
        /\ ~ lossy => from = position
        /\ delivered' = delivered \o SubSeq(written, from + 1, to)
        /\ position' = to
        /\ UNCHANGED <<written, lossy>>

Next == Write \/ Deliver

Spec == Init /\ [][Next]_vars

=============================================================================
