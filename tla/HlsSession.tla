------------------------------ MODULE HlsSession ------------------------------
(***************************************************************************)
(* HlsSession (stream_server.py): the background thread that opens a Camera, *)
(* cuts its stream into segments and starts again when it fails, and the     *)
(* HTTP handlers of the viewers, which share the session's segments.         *)
(*                                                                         *)
(* A segment's bytes are abstracted to the range they occupy among all the   *)
(* bytes cut and to the kind of the packet they begin with; every packet     *)
(* counts as one byte.  Whether segment_seconds have passed when a keyframe  *)
(* arrives is left open.  The camera and the viewers are external.           *)
(***************************************************************************)
EXTENDS Integers, Sequences

CONSTANTS
    Viewer,
    BufferBytes,    \* buffer_bytes
    MaxBytes,       \* bound: bytes of one segment
    MaxSegments,    \* bound: segments cut
    None            \* no segment

ASSUME HlsAssumption ==
    /\ BufferBytes \in Nat /\ MaxBytes \in Nat \ {0} /\ MaxSegments \in Nat

Number == 0 .. MaxSegments - 1
Kind == {"iframe", "pframe", "aac"}
Segment == [sequence : Number, first : Kind, from : Nat, to : Nat]

ASSUME NoneAssumption == None \notin Segment

VARIABLES
    segments, total_bytes, next_sequence, started,
    error,          \* is self.error an exception?
    thread,         \* where _run is
    current,        \* the packets of the segment being filled
    offsets,        \* history: where each segment cut starts, and the end of the last
    viewer,         \* is the viewer waiting in playlist()?
    playlist,       \* the segment numbers of each viewer's last playlist
    fetched         \* and the segment it fetched with it, under the number it asked for

windowVars == <<segments, total_bytes, next_sequence, offsets>>
viewerVars == <<viewer, playlist, fetched>>
vars == <<windowVars, started, error, thread, current, viewerVars>>

TypeOK ==
    /\ segments \in Seq(Segment)
    /\ total_bytes \in Nat
    /\ next_sequence \in 0 .. MaxSegments
    /\ started \in BOOLEAN /\ error \in BOOLEAN
    /\ thread \in {"none", "run", "open", "keyframe", "stream", "sleep"}
    /\ started <=> thread # "none"
    /\ current \in Seq(Kind) /\ Len(current) <= MaxBytes
    /\ offsets \in Seq(Nat)
    /\ viewer \in [Viewer -> {"idle", "waiting"}]
    /\ playlist \in [Viewer -> Seq(Number)]
    /\ fetched \in [Viewer -> {None} \cup [asked : Number, segment : Segment \cup {None}]]

Init ==
    /\ segments = <<>> /\ total_bytes = 0 /\ next_sequence = 0
    /\ started = FALSE /\ error = FALSE
    /\ thread = "none" /\ current = <<>>
    /\ offsets = <<0>>
    /\ viewer = [v \in Viewer |-> "idle"]
    /\ playlist = [v \in Viewer |-> <<>>]
    /\ fetched = [v \in Viewer |-> None]

(***************************************************************************)
(* The background thread.                                                   *)
(***************************************************************************)

RunStream ==
    /\ thread = "run"
    /\ error' = FALSE
    /\ thread' = "open"
    /\ UNCHANGED <<windowVars, started, current, viewerVars>>

OpenStream ==
    /\ thread = "open"
    /\ thread' = "keyframe"
    /\ UNCHANGED <<windowVars, started, error, current, viewerVars>>

\* _packets_from_first_keyframe
FromFirstKeyframe(packets) ==
    IF \A i \in DOMAIN packets : packets[i] # "iframe" THEN packets
    ELSE LET first == CHOOSE i \in DOMAIN packets :
                 packets[i] = "iframe" /\ \A j \in 1 .. i - 1 : packets[j] # "iframe"
         IN  SubSeq(packets, first, Len(packets))

\* _read_until_keyframe returns what audio preceded the keyframe, and the keyframe.
ReadUntilKeyframe ==
    /\ thread = "keyframe"
    /\ \E audio \in {<<>>, <<"aac">>} : current' = FromFirstKeyframe(Append(audio, "iframe"))
    /\ thread' = "stream"
    /\ UNCHANGED <<windowVars, started, error, viewerVars>>

AddPacket(kind) ==
    /\ thread = "stream"
    /\ Len(current) < MaxBytes
    /\ current' = Append(current, kind)
    /\ UNCHANGED <<windowVars, started, error, thread, viewerVars>>

\* Mutant: what is subtracted is the size of the new segment.
LeftOfNewest(all, bytes, k) == bytes - k * (all[Len(all)].to - all[Len(all)].from)

\* total_bytes once the oldest `k' of the segments `all', which hold `bytes', are gone.
Left(all, bytes, k) == IF k = 0 THEN bytes ELSE bytes - (all[k].to - all[1].from)

\* The loop that removes old segments while they exceed the buffer ends after `k'.
EvictionStops(all, bytes, k) ==
    /\ k = Len(all) \/ Left(all, bytes, k) <= BufferBytes
    /\ \A j \in 0 .. k - 1 : Left(all, bytes, j) > BufferBytes

NewSegment ==
    LET start == offsets[Len(offsets)]
    IN  [sequence |-> next_sequence, first |-> current[1],
         from |-> start, to |-> start + Len(current)]

\* A keyframe after segment_seconds: _append_segment, and a new segment begins.
AppendSegment ==
    /\ thread = "stream"
    /\ next_sequence < MaxSegments
    /\ LET all   == Append(segments, NewSegment)
           bytes == total_bytes + Len(current)
       IN  \E k \in 0 .. Len(all) :
              /\ EvictionStops(all, bytes, k)
              /\ segments' = SubSeq(all, k + 1, Len(all))
              /\ total_bytes' = Left(all, bytes, k)
    /\ offsets' = Append(offsets, NewSegment.to)
    /\ next_sequence' = next_sequence + 1
    /\ current' = <<"iframe">>
    /\ UNCHANGED <<started, error, thread, viewerVars>>

\* Mutants: the numbers start again with the new stream; the thread ends with it.
StreamFailsRenumbering ==
    /\ thread \in {"open", "keyframe", "stream"}
    /\ error' = (segments = <<>>)
    /\ thread' = "sleep"
    /\ current' = <<>>
    /\ next_sequence' = 0
    /\ UNCHANGED <<segments, total_bytes, offsets, started, viewerVars>>

StreamFailsForGood ==
    /\ thread \in {"open", "keyframe", "stream"}
    /\ error' = (segments = <<>>)
    /\ thread' = "none"
    /\ current' = <<>>
    /\ UNCHANGED <<windowVars, started, viewerVars>>

\* The camera could not be opened, or its stream failed: the except clause of _run.
StreamFails ==
    /\ thread \in {"open", "keyframe", "stream"}
    /\ error' = (segments = <<>>)
    /\ thread' = "sleep"
    /\ current' = <<>>
    /\ UNCHANGED <<windowVars, started, viewerVars>>

Retry ==
    /\ thread = "sleep"
    /\ thread' = "run"
    /\ UNCHANGED <<windowVars, started, error, current, viewerVars>>

(***************************************************************************)
(* The viewers' requests.                                                   *)
(***************************************************************************)
Start ==
    /\ started' = TRUE
    /\ thread' = IF started THEN thread ELSE "run"

RequestPlaylist(v) ==
    /\ viewer[v] = "idle"
    /\ viewer' = [viewer EXCEPT ![v] = "waiting"]
    /\ Start
    /\ UNCHANGED <<windowVars, error, current, playlist, fetched>>

\* Without segments, an empty playlist once the deadline has passed.
PlaylistReturns(v) ==
    /\ viewer[v] = "waiting"
    /\ segments # <<>> \/ ~ error
    /\ viewer' = [viewer EXCEPT ![v] = "idle"]
    /\ playlist' = [playlist EXCEPT ![v] = [k \in DOMAIN segments |-> segments[k].sequence]]
    /\ fetched' = [fetched EXCEPT ![v] = None]
    /\ UNCHANGED <<windowVars, started, error, thread, current>>

PlaylistRaises(v) ==
    /\ viewer[v] = "waiting"
    /\ error /\ segments = <<>>
    /\ viewer' = [viewer EXCEPT ![v] = "idle"]
    /\ UNCHANGED <<windowVars, started, error, thread, current, playlist, fetched>>

\* Mutant: the number is taken for the place in the list.
LookupByPlace(sequence) == IF sequence + 1 \in DOMAIN segments THEN segments[sequence + 1] ELSE None

Lookup(sequence) ==
    IF \E k \in DOMAIN segments : segments[k].sequence = sequence
    THEN segments[CHOOSE k \in DOMAIN segments : segments[k].sequence = sequence]
    ELSE None

FetchSegment(v, k) ==
    /\ viewer[v] = "idle"
    /\ fetched' = [fetched EXCEPT ![v] =
          [asked |-> playlist[v][k], segment |-> Lookup(playlist[v][k])]]
    /\ UNCHANGED <<windowVars, started, error, thread, current, viewer, playlist>>

Run == RunStream \/ OpenStream \/ ReadUntilKeyframe \/ (\E kind \in Kind : AddPacket(kind))
       \/ AppendSegment \/ StreamFails \/ Retry

Views(v) ==
    \/ RequestPlaylist(v) \/ PlaylistReturns(v) \/ PlaylistRaises(v)
    \/ \E k \in DOMAIN playlist[v] : FetchSegment(v, k)

Next == Run \/ \E v \in Viewer : Views(v)

Spec == Init /\ [][Next]_vars

(***************************************************************************)
(* Fairness: the thread runs, and a camera that is asked again and again     *)
(* does open and send a keyframe in the end.                                *)
(***************************************************************************)
Fairness ==
    /\ WF_vars(RunStream)
    /\ WF_vars(Retry)
    /\ WF_vars(OpenStream \/ StreamFails)
    /\ SF_vars(OpenStream)
    /\ SF_vars(ReadUntilKeyframe)

FairSpec == Spec /\ Fairness

-----------------------------------------------------------------------------
(***************************************************************************)
(* Properties.                                                              *)
(***************************************************************************)

Data(segment) == [from |-> segment.from, to |-> segment.to]

\* The data that can be fetched now, by number.
Shown == [n \in {segments[k].sequence : k \in DOMAIN segments} |-> Data(Lookup(n))]

\* The segments are a sliding window over everything cut: "keeps a sliding memory
\* buffer up to hls_buffer_bytes" (docs/07).  They are the newest ones under their own
\* numbers, across reconnections, and no more is dropped than the limit asks for.
Window == INSTANCE SlidingWindow WITH
    Capacity <- BufferBytes,
    Size     <- 1 .. MaxBytes,
    window   <- Shown

ImplementsWindow == Window!Spec

\* A viewer's playlists never go back: neither end of a playlist that lists segments
\* is older than the same end of the one before.
PlaylistsAdvance ==
    [][\A v \in Viewer :
          playlist[v] # <<>> /\ playlist'[v] # <<>> =>
             /\ playlist'[v][1] >= playlist[v][1]
             /\ playlist'[v][Len(playlist'[v])] >= playlist[v][Len(playlist[v])]]_playlist

\* The segment fetched under a number is the one cut under that number, and a listed
\* one is only missing when the window has moved past it.
FetchedAsListed ==
    \A v \in Viewer : fetched[v] # None =>
        LET n == fetched[v].asked
        IN  IF fetched[v].segment = None
            THEN \A k \in DOMAIN segments : segments[k].sequence > n
            ELSE Data(fetched[v].segment) = [from |-> offsets[n + 1], to |-> offsets[n + 2]]

\* "EXT-X-INDEPENDENT-SEGMENTS": every segment can be decoded on its own, so it begins
\* with a keyframe, also the first one after a reconnection.
SegmentsIndependent == \A k \in DOMAIN segments : segments[k].first = "iframe"

\* A viewer is refused with an error only while the session waits to retry and has
\* nothing to show: an outage that is over leaves no error behind.
ErrorOnlyInOutage == error => segments = <<>> /\ thread \in {"sleep", "run"}

\* What a viewer is given: the segment it asked for or none, one that can be decoded on
\* its own, and no error of an outage that is over.
ViewerInv == TypeOK /\ FetchedAsListed /\ SegmentsIndependent /\ ErrorOnlyInOutage

\* However often the stream fails, the session starts it again.
StreamResumes == started ~> thread = "stream"

=============================================================================
