------------------------------- MODULE Filter -------------------------------
(***************************************************************************)
(* What a loop over a queue of messages keeps of it, for the subscriptions  *)
(* of CameraSession and SdDownload.                                         *)
(***************************************************************************)
EXTENDS Integers, Sequences, FiniteSets

\* The elements of `s' that are in S, in their order.
Kept(s, S) ==
    LET kept     == {i \in 1 .. Len(s) : s[i] \in S}
        place(k) == CHOOSE i \in kept : Cardinality({j \in kept : j <= i}) = k
    IN  [k \in 1 .. Cardinality(kept) |-> s[place(k)]]

=============================================================================
