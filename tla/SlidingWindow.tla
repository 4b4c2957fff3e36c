---------------------------- MODULE SlidingWindow ----------------------------
(***************************************************************************)
(* What an HLS timeshift buffer promises its viewers: the video is cut into  *)
(* segments numbered once and for all in the order they were cut, and those  *)
(* that can be fetched are always the newest ones, as many as fit into the   *)
(* buffer.  A segment's data is a range of the bytes cut so far.             *)
(***************************************************************************)
EXTENDS Naturals, Sequences

CONSTANTS
    Capacity,       \* bytes the buffer may hold
    Size            \* the sizes a segment may have

VARIABLES
    offsets,        \* segment n is the bytes offsets[n + 1] .. offsets[n + 2]
    window          \* the segments that can be fetched: their data, by number

vars == <<offsets, window>>

\* The newest segments from number `oldest' on, given where the segments start.
Newest(starts, oldest) ==
    [n \in oldest .. Len(starts) - 2 |-> [from |-> starts[n + 1], to |-> starts[n + 2]]]

Fits(starts, oldest) == starts[Len(starts)] - starts[oldest + 1] <= Capacity

Init ==
    /\ offsets = <<0>>
    /\ window = Newest(offsets, 0)

\* One more segment; no more of the old ones go than have to.
Cut ==
    \E size \in Size :
        /\ offsets' = Append(offsets, offsets[Len(offsets)] + size)
        /\ \E oldest \in 0 .. Len(offsets) :
              /\ Fits(offsets', oldest)
              /\ \A n \in 0 .. oldest - 1 : ~ Fits(offsets', n)
              /\ window' = Newest(offsets', oldest)

Spec == Init /\ [][Cut]_vars

=============================================================================
