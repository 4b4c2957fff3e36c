------------------------- MODULE HlsSession_proofs -------------------------
(***************************************************************************)
(* Machine-checked proofs about HlsSession, for any set of viewers, any size *)
(* of the buffer and of a segment, and any number of segments.               *)
(***************************************************************************)
EXTENDS HlsSession, SequenceTheorems, TLAPS

(***************************************************************************)
(* The inductive invariant.                                                 *)
(***************************************************************************)

\* The number of the oldest segment kept, or the next number when none is kept.
Low == next_sequence - Len(segments)

\* The number of bytes cut so far.
Last == offsets[Len(offsets)]

\* Every segment cut has its range, and the ranges follow each other.
OffsetsInv ==
    /\ Len(offsets) = next_sequence + 1
    /\ \A i, j \in 1 .. Len(offsets) : i <= j => offsets[i] <= offsets[j]

\* The segments are the newest ones, each under its number, and total_bytes is their size.
SegmentsInv ==
    /\ Len(segments) <= next_sequence
    /\ \A k \in 1 .. Len(segments) :
          /\ segments[k].sequence = Low + k - 1
          /\ segments[k].from = offsets[Low + k]
          /\ segments[k].to = offsets[Low + k + 1]
    /\ total_bytes = Last - offsets[Low + 1]

\* They fit into the buffer, and would not with one more of the old ones.
WindowInv ==
    /\ Last - offsets[Low + 1] <= BufferBytes
    /\ \A n \in 0 .. Low - 1 : Last - offsets[n + 1] > BufferBytes

\* What is being cut begins with a keyframe.
CurrentInv == thread = "stream" => Len(current) >= 1 /\ current[1] = "iframe"

\* A playlist lists segments that have been cut, and the window has only moved on since.
PlaylistsInv ==
    \A v \in Viewer : \A k \in DOMAIN playlist[v] :
        /\ playlist[v][k] < next_sequence
        /\ k = 1 => playlist[v][k] <= Low

AskedInv == \A v \in Viewer : fetched[v] # None => fetched[v].asked < next_sequence

IInv ==
    /\ TypeOK /\ OffsetsInv /\ SegmentsInv /\ WindowInv /\ CurrentInv /\ PlaylistsInv
    /\ AskedInv /\ FetchedAsListed /\ SegmentsIndependent /\ ErrorOnlyInOutage

USE HlsAssumption

LEMMA InitIInv == Init => IInv
<1> SUFFICES ASSUME Init PROVE IInv
  OBVIOUS
<1>1. /\ total_bytes = 0 /\ next_sequence = 0 /\ started = FALSE /\ error = FALSE
      /\ thread = "none" /\ offsets = <<0>>
      /\ viewer = [v \in Viewer |-> "idle"]
      /\ playlist = [v \in Viewer |-> <<>>]
      /\ fetched = [v \in Viewer |-> None]
  BY DEF Init
<1>2. /\ segments \in Seq(Segment) /\ Len(segments) = 0 /\ DOMAIN segments = {} /\ segments = <<>>
      /\ current \in Seq(Kind) /\ Len(current) = 0
  BY EmptySeq DEF Init
<1>3. offsets \in Seq(Nat) /\ Len(offsets) = 1 /\ offsets[1] = 0
  BY <1>1
<1>4. Low = 0 /\ Last = 0
  BY <1>1, <1>2, <1>3 DEF Low, Last
<1>5. playlist \in [Viewer -> Seq(Number)]
  <2>1. <<>> \in Seq(Number)
    BY EmptySeq
  <2> QED BY <1>1, <2>1
<1>6. TypeOK
  <2>1. /\ total_bytes \in Nat /\ next_sequence \in 0 .. MaxSegments
        /\ thread \in {"none", "run", "open", "keyframe", "stream", "sleep"}
        /\ viewer \in [Viewer -> {"idle", "waiting"}]
        /\ Len(current) <= MaxBytes
    BY <1>1, <1>2
  <2>2. started \in BOOLEAN /\ error \in BOOLEAN /\ started = (thread # "none")
    BY <1>1
  <2> QED BY <1>1, <1>2, <1>3, <1>5, <2>1, <2>2 DEF TypeOK
<1>7. OffsetsInv /\ SegmentsInv /\ WindowInv
  BY <1>1, <1>2, <1>3, <1>4 DEF OffsetsInv, SegmentsInv, WindowInv
<1>8. CurrentInv /\ AskedInv /\ FetchedAsListed /\ ErrorOnlyInOutage
  BY <1>1 DEF CurrentInv, AskedInv, FetchedAsListed, ErrorOnlyInOutage
<1>9. PlaylistsInv /\ SegmentsIndependent
  <2>1. DOMAIN <<>> = {}
    OBVIOUS
  <2>2. \A v \in Viewer : playlist[v] = <<>>
    BY <1>1
  <2>3. \A v \in Viewer : DOMAIN playlist[v] = {}
    BY <2>1, <2>2, Zenon
  <2> QED BY <1>2, <2>3 DEF PlaylistsInv, SegmentsIndependent
<1> QED BY <1>6, <1>7, <1>8, <1>9 DEF IInv

(***************************************************************************)
(* What the operators of the model yield.                                   *)
(***************************************************************************)

\* The bounds in the invariant, as plain arithmetic.
LEMMA Bounds ==
  ASSUME IInv
  PROVE  /\ next_sequence \in Nat /\ Len(segments) \in Nat /\ Low \in Nat
         /\ Low + Len(segments) = next_sequence
         /\ offsets \in Seq(Nat) /\ Len(offsets) = next_sequence + 1
         /\ \A i \in 1 .. next_sequence + 1 : offsets[i] \in Nat
         /\ Last = offsets[next_sequence + 1] /\ Last \in Nat
<1>1. /\ next_sequence \in Nat /\ Len(segments) \in Nat /\ Len(segments) <= next_sequence
      /\ offsets \in Seq(Nat) /\ Len(offsets) = next_sequence + 1
  BY LenProperties DEF IInv, TypeOK, SegmentsInv, OffsetsInv
<1>2. Low \in Nat /\ Low + Len(segments) = next_sequence
  BY <1>1 DEF Low
<1>3. \A i \in 1 .. next_sequence + 1 : offsets[i] \in Nat
  BY <1>1, ElementOfSeq
<1>4. Last = offsets[next_sequence + 1] /\ Last \in Nat
  BY <1>1, <1>3 DEF Last
<1> QED BY <1>1, <1>2, <1>3, <1>4

\* The segments are found under the numbers from Low on, and no other.
LEMMA Numbers ==
  ASSUME IInv
  PROVE  /\ DOMAIN segments = 1 .. Len(segments)
         /\ \A k \in 1 .. Len(segments) : segments[k].sequence = Low + k - 1
         /\ {segments[k].sequence : k \in DOMAIN segments} = Low .. next_sequence - 1
<1>1. DOMAIN segments = 1 .. Len(segments)
  BY LenProperties DEF IInv, TypeOK
<1>2. \A k \in 1 .. Len(segments) : segments[k].sequence = Low + k - 1
  BY DEF IInv, SegmentsInv
<1>3. {segments[k].sequence : k \in 1 .. Len(segments)} \subseteq Low .. next_sequence - 1
  <2>1. \A k \in 1 .. Len(segments) : Low + k - 1 \in Low .. next_sequence - 1
    BY Bounds
  <2> QED BY <1>2, <2>1
<1>4. ASSUME NEW n \in Low .. next_sequence - 1
      PROVE  n \in {segments[k].sequence : k \in 1 .. Len(segments)}
  <2>1. n - Low + 1 \in 1 .. Len(segments) /\ Low + (n - Low + 1) - 1 = n
    BY Bounds
  <2>2. segments[n - Low + 1].sequence = n
    BY <1>2, <2>1
  <2> QED BY <2>1, <2>2
<1>5. {segments[k].sequence : k \in 1 .. Len(segments)} = Low .. next_sequence - 1
  BY <1>3, <1>4
<1> QED BY <1>1, <1>2, <1>5

\* segment() finds what was cut under the number, and nothing that the window has left.
LEMMA LookupFinds ==
  ASSUME IInv, NEW n \in Number
  PROVE  IF n \in Low .. next_sequence - 1
         THEN Lookup(n) \in Segment /\ Data(Lookup(n)) = [from |-> offsets[n + 1], to |-> offsets[n + 2]]
         ELSE Lookup(n) = None
<1>1. CASE n \in Low .. next_sequence - 1
  <2>1. \E k \in DOMAIN segments : segments[k].sequence = n
    BY <1>1, Numbers
  <2>2. PICK k \in DOMAIN segments : segments[k].sequence = n /\ Lookup(n) = segments[k]
    BY <2>1 DEF Lookup
  <2>3. k \in 1 .. Len(segments) /\ n = Low + k - 1
    BY <2>2, Numbers
  <2>4. n + 1 = Low + k /\ n + 2 = Low + k + 1
    <3>1. Low \in Nat /\ k \in Nat /\ n = Low + k - 1
      BY <2>3, Bounds
    <3> QED BY <3>1
  <2>5. segments[k].from = offsets[n + 1] /\ segments[k].to = offsets[n + 2]
    BY <2>3, <2>4 DEF IInv, SegmentsInv
  <2>6. segments[k] \in Segment
    BY <2>3, ElementOfSeq DEF IInv, TypeOK
  <2> QED BY <1>1, <2>2, <2>5, <2>6 DEF Data
<1>2. CASE n \notin Low .. next_sequence - 1
  <2>1. ~ \E k \in DOMAIN segments : segments[k].sequence = n
    BY <1>2, Numbers
  <2> QED BY <1>2, <2>1 DEF Lookup
<1> QED BY <1>1, <1>2

LEMMA SubSeqOfOne ==
  ASSUME NEW p, NEW m \in Int, p[m] \in Kind
  PROVE  SubSeq(p, m, m) = <<p[m]>>
<1>1. \A i \in m .. m : p[i] \in Kind
  OBVIOUS
<1>2. /\ SubSeq(p, m, m) \in Seq(Kind) /\ Len(SubSeq(p, m, m)) = 1
      /\ \A i \in 1 .. m - m + 1 : SubSeq(p, m, m)[i] = p[m + i - 1]
  BY <1>1, SubSeqProperties
<1>3. SubSeq(p, m, m)[1] = p[m]
  BY <1>2
<1>4. <<p[m]>> \in Seq(Kind) /\ Len(<<p[m]>>) = 1 /\ <<p[m]>>[1] = p[m]
  OBVIOUS
<1> DEFINE s == SubSeq(p, m, m)
           t == <<p[m]>>
<1>5. s \in Seq(Kind) /\ t \in Seq(Kind) /\ Len(s) = 1 /\ Len(t) = 1 /\ s[1] = t[1]
  BY <1>2, <1>3, <1>4
<1> HIDE DEF s, t
<1>6. \A i \in 1 .. Len(s) : s[i] = t[i]
  BY <1>5
<1>7. s = t
  BY <1>5, <1>6, SeqEqual
<1> QED BY <1>7 DEF s, t

\* A stream is cut from its first keyframe on.
LEMMA FirstKeyframe ==
  /\ FromFirstKeyframe(Append(<<>>, "iframe")) = <<"iframe">>
  /\ FromFirstKeyframe(Append(<<"aac">>, "iframe")) = <<"iframe">>
<1>1. ASSUME NEW p, p = <<"iframe">> PROVE FromFirstKeyframe(p) = <<"iframe">>
  <2>1. DOMAIN p = {1} /\ p[1] = "iframe" /\ Len(p) = 1
    BY <1>1
  <2> DEFINE first == CHOOSE i \in DOMAIN p : p[i] = "iframe" /\ \A j \in 1 .. i - 1 : p[j] # "iframe"
  <2>2. \E i \in DOMAIN p : p[i] = "iframe" /\ \A j \in 1 .. i - 1 : p[j] # "iframe"
    BY <2>1
  <2>3. first \in {1}
    BY <2>1, <2>2
  <2>4. FromFirstKeyframe(p) = SubSeq(p, first, Len(p))
    BY <2>1 DEF FromFirstKeyframe
  <2>5. SubSeq(p, 1, 1) = <<"iframe">>
    BY <2>1, SubSeqOfOne DEF Kind
  <2> QED BY <2>1, <2>3, <2>4, <2>5
<1>2. ASSUME NEW p, p = <<"aac", "iframe">> PROVE FromFirstKeyframe(p) = <<"iframe">>
  <2>1. DOMAIN p = {1, 2} /\ p[1] = "aac" /\ p[2] = "iframe" /\ Len(p) = 2
    BY <1>2
  <2> DEFINE first == CHOOSE i \in DOMAIN p : p[i] = "iframe" /\ \A j \in 1 .. i - 1 : p[j] # "iframe"
  <2>2. \E i \in DOMAIN p : p[i] = "iframe" /\ \A j \in 1 .. i - 1 : p[j] # "iframe"
    <3>1. \A j \in 1 .. 2 - 1 : p[j] # "iframe"
      BY <2>1
    <3> QED BY <2>1, <3>1
  <2>3. first \in {1, 2} /\ p[first] = "iframe"
    BY <2>1, <2>2
  <2>4. first = 2
    BY <2>1, <2>3
  <2>5. FromFirstKeyframe(p) = SubSeq(p, first, Len(p))
    BY <2>1 DEF FromFirstKeyframe
  <2>6. SubSeq(p, 2, 2) = <<"iframe">>
    BY <2>1, SubSeqOfOne DEF Kind
  <2> QED BY <2>1, <2>4, <2>5, <2>6
<1>3. Append(<<>>, "iframe") = <<"iframe">>
  <2>1. Append(<<>>, "iframe") = <<>> \o <<"iframe">>
    BY EmptySeq, AppendIsConcat
  <2>2. <<"iframe">> \in Seq({"iframe"})
    OBVIOUS
  <2> QED BY <2>1, <2>2, ConcatEmptySeq
<1>4. Append(<<"aac">>, "iframe") = <<"aac", "iframe">>
  <2>1. <<"aac">> \in Seq(Kind) /\ Len(<<"aac">>) = 1 /\ "iframe" \in Kind
    BY DEF Kind
  <2>2. /\ Append(<<"aac">>, "iframe") \in Seq(Kind) /\ Len(Append(<<"aac">>, "iframe")) = 2
        /\ Append(<<"aac">>, "iframe")[1] = "aac" /\ Append(<<"aac">>, "iframe")[2] = "iframe"
    BY <2>1, AppendProperties
  <2> DEFINE s == Append(<<"aac">>, "iframe")
             t == <<"aac", "iframe">>
  <2>3. /\ s \in Seq(Kind) /\ t \in Seq(Kind) /\ Len(s) = 2 /\ Len(t) = 2
        /\ s[1] = t[1] /\ s[2] = t[2]
    BY <2>2 DEF Kind
  <2> HIDE DEF s, t
  <2>4. \A i \in 1 .. Len(s) : s[i] = t[i]
    BY <2>3
  <2>5. s = t
    BY <2>3, <2>4, SeqEqual
  <2> QED BY <2>5 DEF s, t
<1> QED BY <1>1, <1>2, <1>3, <1>4

(***************************************************************************)
(* The steps that leave the window alone.                                   *)
(***************************************************************************)

LEMMA WindowStays ==
  ASSUME IInv, UNCHANGED windowVars
  PROVE  /\ OffsetsInv' /\ SegmentsInv' /\ WindowInv' /\ SegmentsIndependent'
         /\ Low' = Low /\ UNCHANGED <<segments, total_bytes, next_sequence, offsets>>
<1>1. UNCHANGED <<segments, total_bytes, next_sequence, offsets>>
  BY DEF windowVars
<1>2. Low' = Low /\ Last' = Last
  BY <1>1 DEF Low, Last
<1> QED BY <1>1, <1>2 DEF IInv, OffsetsInv, SegmentsInv, WindowInv, SegmentsIndependent

\* What the viewers have stays true as long as neither they nor the window move.
LEMMA ViewersStay ==
  ASSUME IInv, UNCHANGED windowVars, UNCHANGED <<playlist, fetched>>
  PROVE  PlaylistsInv' /\ AskedInv' /\ FetchedAsListed'
<1>1. Low' = Low /\ UNCHANGED <<segments, next_sequence, offsets>>
  BY WindowStays
<1>2. PlaylistsInv'
  BY <1>1 DEF IInv, PlaylistsInv
<1>3. AskedInv' /\ FetchedAsListed'
  BY <1>1 DEF IInv, AskedInv, FetchedAsListed, Data
<1> QED BY <1>2, <1>3

\* The background thread keeps to its stream: what it cuts begins with a keyframe, and
\* it leaves an error behind only with nothing to show.
LEMMA ThreadIInv ==
  ASSUME IInv, \/ RunStream \/ OpenStream \/ ReadUntilKeyframe \/ StreamFails \/ Retry
               \/ \E kind \in Kind : AddPacket(kind)
  PROVE  IInv'
<1>1. UNCHANGED windowVars /\ UNCHANGED <<started, viewer, playlist, fetched>>
  BY DEF RunStream, OpenStream, ReadUntilKeyframe, StreamFails, Retry, AddPacket, viewerVars
<1>2. UNCHANGED <<segments, total_bytes, next_sequence, offsets>>
  BY <1>1 DEF windowVars
<1>3. current' \in Seq(Kind) /\ Len(current') <= MaxBytes /\ CurrentInv'
  <2>1. current \in Seq(Kind) /\ Len(current) \in Nat /\ Len(current) <= MaxBytes /\ CurrentInv
    BY LenProperties DEF IInv, TypeOK
  <2>2. CASE RunStream \/ OpenStream \/ Retry
    BY <2>1, <2>2 DEF RunStream, OpenStream, Retry, CurrentInv
  <2>3. CASE StreamFails
    <3>1. current' \in Seq(Kind) /\ Len(current') = 0 /\ thread' = "sleep"
      BY <2>3, EmptySeq DEF StreamFails
    <3> QED BY <3>1 DEF CurrentInv
  <2>4. CASE ReadUntilKeyframe
    <3>1. current' = <<"iframe">>
      BY <2>4, FirstKeyframe DEF ReadUntilKeyframe
    <3>2. <<"iframe">> \in Seq(Kind) /\ Len(<<"iframe">>) = 1 /\ <<"iframe">>[1] = "iframe"
      BY DEF Kind
    <3> QED BY <3>1, <3>2 DEF CurrentInv
  <2>5. ASSUME NEW kind \in Kind, AddPacket(kind) PROVE
           current' \in Seq(Kind) /\ Len(current') <= MaxBytes /\ CurrentInv'
    <3>1. current' = Append(current, kind) /\ thread = "stream" /\ Len(current) < MaxBytes
      BY <2>5 DEF AddPacket
    <3>2. /\ current' \in Seq(Kind) /\ Len(current') = Len(current) + 1
          /\ \A i \in 1 .. Len(current) : current'[i] = current[i]
      BY <2>1, <3>1, AppendProperties
    <3>3. Len(current) >= 1 /\ current[1] = "iframe"
      BY <2>1, <3>1 DEF CurrentInv
    <3>4. Len(current') <= MaxBytes /\ Len(current') >= 1 /\ 1 \in 1 .. Len(current)
      BY <2>1, <3>1, <3>2, <3>3
    <3> QED BY <3>2, <3>3, <3>4 DEF CurrentInv
  <2> QED BY <2>2, <2>3, <2>4, <2>5
<1>4. /\ thread # "none" /\ thread' # "none"
      /\ thread' \in {"none", "run", "open", "keyframe", "stream", "sleep"}
  BY DEF RunStream, OpenStream, ReadUntilKeyframe, StreamFails, Retry, AddPacket
<1>5. error' \in BOOLEAN
  <2>1. error' = error \/ error' = FALSE \/ error' = (segments = <<>>)
    BY DEF RunStream, OpenStream, ReadUntilKeyframe, StreamFails, Retry, AddPacket
  <2>2. error \in BOOLEAN
    BY DEF IInv, TypeOK
  <2> QED BY <2>1, <2>2
<1>6. ErrorOnlyInOutage'
  <2>1. error => segments = <<>> /\ thread \in {"sleep", "run"}
    BY DEF IInv, ErrorOnlyInOutage
  <2>2. error' => segments = <<>> /\ thread' \in {"sleep", "run"}
    <3>1. CASE RunStream
      BY <3>1 DEF RunStream
    <3>2. CASE StreamFails
      BY <3>2 DEF StreamFails
    <3>3. CASE Retry
      BY <2>1, <3>3 DEF Retry
    <3>4. CASE OpenStream
      BY <2>1, <3>4 DEF OpenStream
    <3>5. CASE ReadUntilKeyframe
      BY <2>1, <3>5 DEF ReadUntilKeyframe
    <3>6. CASE \E kind \in Kind : AddPacket(kind)
      BY <2>1, <3>6 DEF AddPacket
    <3> QED BY <3>1, <3>2, <3>3, <3>4, <3>5, <3>6
  <2> QED BY <1>2, <2>2 DEF ErrorOnlyInOutage
<1>7. TypeOK'
  <2>1. started' \in BOOLEAN /\ (started' <=> thread' # "none")
    BY <1>1, <1>4 DEF IInv, TypeOK
  <2> QED BY <1>1, <1>2, <1>3, <1>4, <1>5, <2>1 DEF IInv, TypeOK
<1> QED BY <1>1, <1>3, <1>6, <1>7, WindowStays, ViewersStay DEF IInv

\* A playlist request starts the thread at most once.
LEMMA RequestIInv ==
  ASSUME IInv, NEW v \in Viewer, RequestPlaylist(v) \/ PlaylistRaises(v)
  PROVE  IInv'
<1>1. UNCHANGED windowVars /\ UNCHANGED <<error, current, playlist, fetched>>
  BY DEF RequestPlaylist, PlaylistRaises
<1>2. UNCHANGED <<segments, total_bytes, next_sequence, offsets>>
  BY <1>1 DEF windowVars
<1>3. viewer' \in [Viewer -> {"idle", "waiting"}]
  BY DEF IInv, TypeOK, RequestPlaylist, PlaylistRaises
<1>4. \/ started' = TRUE /\ thread' = IF started THEN thread ELSE "run"
      \/ started' = started /\ thread' = thread
  BY DEF RequestPlaylist, PlaylistRaises, Start
<1>5. /\ started \in BOOLEAN /\ (started <=> thread # "none")
      /\ thread \in {"none", "run", "open", "keyframe", "stream", "sleep"}
  BY DEF IInv, TypeOK
<1>6. /\ started' \in BOOLEAN /\ (started' <=> thread' # "none")
      /\ thread' \in {"none", "run", "open", "keyframe", "stream", "sleep"}
      /\ thread' = thread \/ (thread = "none" /\ thread' = "run")
  <2>1. CASE started' = started /\ thread' = thread
    BY <1>5, <2>1
  <2>2. CASE started' = TRUE /\ thread' = IF started THEN thread ELSE "run"
    BY <1>5, <2>2
  <2> QED BY <1>4, <2>1, <2>2
<1>7. TypeOK'
  BY <1>1, <1>2, <1>3, <1>6 DEF IInv, TypeOK
<1>8. CurrentInv' /\ ErrorOnlyInOutage'
  BY <1>1, <1>2, <1>6 DEF IInv, CurrentInv, ErrorOnlyInOutage
<1> QED BY <1>1, <1>7, <1>8, WindowStays, ViewersStay DEF IInv

\* A playlist lists the whole window.
LEMMA PlaylistIInv ==
  ASSUME IInv, NEW v \in Viewer, PlaylistReturns(v)
  PROVE  IInv'
<1> DEFINE listed == [k \in DOMAIN segments |-> segments[k].sequence]
<1>1. /\ UNCHANGED windowVars /\ UNCHANGED <<started, error, thread, current>>
      /\ viewer' = [viewer EXCEPT ![v] = "idle"]
      /\ playlist' = [playlist EXCEPT ![v] = listed]
      /\ fetched' = [fetched EXCEPT ![v] = None]
  BY DEF PlaylistReturns
<1>2. UNCHANGED <<segments, total_bytes, next_sequence, offsets>>
  BY <1>1 DEF windowVars
<1>3. /\ listed \in Seq(Number) /\ DOMAIN listed = 1 .. Len(segments)
      /\ \A k \in DOMAIN listed : listed[k] = Low + k - 1
  <2>1. ASSUME NEW k \in 1 .. Len(segments) PROVE segments[k].sequence \in Number
    <3>1. segments[k] \in Segment
      BY ElementOfSeq DEF IInv, TypeOK
    <3> QED BY <3>1 DEF Segment
  <2>2. Len(segments) \in Nat
    BY Bounds
  <2> QED BY <2>1, <2>2, Numbers
<1>4. \A k \in DOMAIN listed : listed[k] < next_sequence /\ (k = 1 => listed[k] <= Low)
  BY <1>3, Bounds
<1>5. playlist \in [Viewer -> Seq(Number)] /\ viewer \in [Viewer -> {"idle", "waiting"}]
  BY DEF IInv, TypeOK
<1> HIDE DEF listed
<1>6. /\ playlist' \in [Viewer -> Seq(Number)]
      /\ \A u \in Viewer : playlist'[u] = IF u = v THEN listed ELSE playlist[u]
  BY <1>1, <1>3, <1>5
<1>7. \A u \in Viewer : fetched'[u] # None => fetched'[u] = fetched[u]
  <2>1. \A u \in Viewer : fetched'[u] = None \/ fetched'[u] = fetched[u]
    BY <1>1 DEF IInv, TypeOK
  <2> QED BY <2>1
<1>8. TypeOK'
  <2>1. viewer' \in [Viewer -> {"idle", "waiting"}]
    BY <1>1, <1>5
  <2>2. fetched' \in [Viewer -> {None} \cup [asked : Number, segment : Segment \cup {None}]]
    BY <1>1 DEF IInv, TypeOK
  <2> QED BY <1>1, <1>2, <1>6, <2>1, <2>2 DEF IInv, TypeOK
<1>9. PlaylistsInv'
  <2>1. Low' = Low
    BY <1>1, WindowStays
  <2> QED BY <1>2, <1>4, <1>6, <2>1 DEF IInv, PlaylistsInv
<1>10. AskedInv' /\ FetchedAsListed'
  BY <1>2, <1>7 DEF IInv, AskedInv, FetchedAsListed, Data
<1>11. CurrentInv' /\ ErrorOnlyInOutage'
  BY <1>1, <1>2 DEF IInv, CurrentInv, ErrorOnlyInOutage
<1> QED BY <1>1, <1>8, <1>9, <1>10, <1>11, WindowStays DEF IInv

\* A segment fetched under a listed number is the one cut under it.
LEMMA FetchIInv ==
  ASSUME IInv, NEW v \in Viewer, NEW k \in DOMAIN playlist[v], FetchSegment(v, k)
  PROVE  IInv'
<1> DEFINE n == playlist[v][k]
           answer == [asked |-> n, segment |-> Lookup(n)]
<1>1. /\ UNCHANGED windowVars /\ UNCHANGED <<started, error, thread, current, viewer, playlist>>
      /\ fetched' = [fetched EXCEPT ![v] = answer]
  BY DEF FetchSegment
<1>2. UNCHANGED <<segments, total_bytes, next_sequence, offsets>>
  BY <1>1 DEF windowVars
<1>3. n \in Number /\ n < next_sequence
  BY LenProperties, ElementOfSeq DEF IInv, TypeOK, PlaylistsInv
<1>4. /\ answer \in [asked : Number, segment : Segment \cup {None}]
      /\ answer.asked = n /\ answer.segment = Lookup(n)
  BY <1>3, LookupFinds
<1>5. IF Lookup(n) = None THEN \A i \in DOMAIN segments : segments[i].sequence > n
      ELSE Data(Lookup(n)) = [from |-> offsets[n + 1], to |-> offsets[n + 2]]
  <2>1. CASE n \in Low .. next_sequence - 1
    BY <1>3, <2>1, LookupFinds, NoneAssumption
  <2>2. CASE n \notin Low .. next_sequence - 1
    <3>1. n < Low
      BY <1>3, <2>2, Bounds DEF Number
    <3>2. ASSUME NEW i \in DOMAIN segments PROVE segments[i].sequence > n
      <4>1. i \in 1 .. Len(segments) /\ segments[i].sequence = Low + i - 1
        BY Numbers
      <4>2. Low \in Nat /\ n \in Int
        BY <1>3, Bounds DEF Number
      <4> QED BY <3>1, <4>1, <4>2
    <3> QED BY <1>3, <2>2, <3>2, LookupFinds
  <2> QED BY <2>1, <2>2
<1> HIDE DEF answer, n
<1>6. \A u \in Viewer : fetched'[u] = IF u = v THEN answer ELSE fetched[u]
  BY <1>1 DEF IInv, TypeOK
<1>7. TypeOK'
  <2>1. fetched' \in [Viewer -> {None} \cup [asked : Number, segment : Segment \cup {None}]]
    BY <1>1, <1>4 DEF IInv, TypeOK
  <2> QED BY <1>1, <1>2, <2>1 DEF IInv, TypeOK
<1>8. AskedInv'
  BY <1>2, <1>3, <1>4, <1>6 DEF IInv, AskedInv
<1>9. FetchedAsListed'
  BY <1>2, <1>4, <1>5, <1>6 DEF IInv, FetchedAsListed, Data
<1>10. CurrentInv' /\ ErrorOnlyInOutage' /\ PlaylistsInv'
  <2>1. Low' = Low
    BY <1>1, WindowStays
  <2> QED BY <1>1, <1>2, <2>1 DEF IInv, CurrentInv, ErrorOnlyInOutage, PlaylistsInv
<1> QED BY <1>1, <1>7, <1>8, <1>9, <1>10, WindowStays DEF IInv

(***************************************************************************)
(* A segment is cut.                                                        *)
(***************************************************************************)

\* The new segment follows the bytes cut so far, under the next number.
LEMMA NewSegmentFollows ==
  ASSUME IInv, AppendSegment
  PROVE  /\ next_sequence' = next_sequence + 1 /\ next_sequence < MaxSegments
         /\ Len(current) \in 1 .. MaxBytes
         /\ offsets' \in Seq(Nat) /\ Len(offsets') = next_sequence + 2
         /\ \A i \in 1 .. next_sequence + 1 : offsets'[i] = offsets[i]
         /\ offsets'[next_sequence + 2] = Last + Len(current)
         /\ Last' = offsets'[next_sequence + 2] /\ Last' \in Nat
         /\ NewSegment \in Segment
         /\ NewSegment.sequence = next_sequence /\ NewSegment.first = "iframe"
         /\ NewSegment.from = offsets'[next_sequence + 1]
         /\ NewSegment.to = offsets'[next_sequence + 2]
<1>1. /\ next_sequence < MaxSegments /\ next_sequence' = next_sequence + 1 /\ thread = "stream"
      /\ offsets' = Append(offsets, NewSegment.to)
  BY DEF AppendSegment
<1>2. /\ next_sequence \in Nat /\ offsets \in Seq(Nat) /\ Len(offsets) = next_sequence + 1
      /\ Last \in Nat /\ Last = offsets[next_sequence + 1]
  BY Bounds
<1>3. Len(current) \in 1 .. MaxBytes /\ current[1] = "iframe"
  BY <1>1, LenProperties DEF IInv, TypeOK, CurrentInv
<1>4. NewSegment = [sequence |-> next_sequence, first |-> "iframe",
                    from |-> Last, to |-> Last + Len(current)]
  BY <1>3 DEF NewSegment, Last
<1>5. /\ NewSegment \in Segment /\ NewSegment.sequence = next_sequence
      /\ NewSegment.first = "iframe" /\ NewSegment.from = Last
      /\ NewSegment.to = Last + Len(current) /\ NewSegment.to \in Nat
  <2>1. next_sequence \in Number
    BY <1>1, <1>2 DEF Number
  <2>2. Last + Len(current) \in Nat
    BY <1>2, <1>3
  <2> QED BY <1>2, <1>4, <2>1, <2>2 DEF Segment, Kind
<1>6. /\ offsets' \in Seq(Nat) /\ Len(offsets') = next_sequence + 2
      /\ \A i \in 1 .. next_sequence + 1 : offsets'[i] = offsets[i]
      /\ offsets'[next_sequence + 2] = NewSegment.to
  <2>1. /\ offsets' \in Seq(Nat) /\ Len(offsets') = Len(offsets) + 1
        /\ \A i \in 1 .. Len(offsets) : offsets'[i] = offsets[i]
        /\ offsets'[Len(offsets) + 1] = NewSegment.to
    BY <1>1, <1>2, <1>5, AppendProperties
  <2>2. Len(offsets) + 1 = next_sequence + 2
    BY <1>2
  <2> QED BY <1>2, <2>1, <2>2
<1>7. Last' = offsets'[next_sequence + 2] /\ Last' \in Nat
  BY <1>2, <1>5, <1>6 DEF Last
<1>8. next_sequence + 1 \in 1 .. next_sequence + 1
  BY <1>2
<1>9. NewSegment.from = offsets'[next_sequence + 1]
  BY <1>2, <1>5, <1>6, <1>8
<1> QED BY <1>1, <1>3, <1>5, <1>6, <1>7, <1>9

\* Where the segments would start and end if nothing were removed.
LEMMA AllFollow ==
  ASSUME IInv, AppendSegment,
         NEW all, all = Append(segments, NewSegment)
  PROVE  /\ all \in Seq(Segment) /\ Len(all) = Len(segments) + 1
         /\ \A i \in 1 .. Len(segments) + 1 :
               /\ all[i] \in Segment /\ all[i].sequence = Low + i - 1 /\ all[i].first = "iframe"
               /\ all[i].from = offsets'[Low + i] /\ all[i].to = offsets'[Low + i + 1]
<1>1. /\ segments \in Seq(Segment) /\ Len(segments) \in Nat /\ Low \in Nat
      /\ Low + Len(segments) = next_sequence /\ next_sequence \in Nat
  BY Bounds DEF IInv, TypeOK
<1>2. /\ all \in Seq(Segment) /\ Len(all) = Len(segments) + 1
      /\ \A i \in 1 .. Len(segments) : all[i] = segments[i]
      /\ all[Len(segments) + 1] = NewSegment
  BY <1>1, NewSegmentFollows, AppendProperties
<1>3. ASSUME NEW i \in 1 .. Len(segments) + 1
      PROVE  /\ all[i] \in Segment /\ all[i].sequence = Low + i - 1 /\ all[i].first = "iframe"
             /\ all[i].from = offsets'[Low + i] /\ all[i].to = offsets'[Low + i + 1]
  <2>1. CASE i <= Len(segments)
    <3>1. i \in 1 .. Len(segments) /\ i \in DOMAIN segments
      BY <1>1, <2>1, Numbers
    <3>2. /\ segments[i].sequence = Low + i - 1 /\ segments[i].from = offsets[Low + i]
          /\ segments[i].to = offsets[Low + i + 1]
      BY <3>1 DEF IInv, SegmentsInv
    <3>3. segments[i].first = "iframe"
      BY <3>1 DEF IInv, SegmentsIndependent
    <3>4. Low + i \in 1 .. next_sequence + 1 /\ Low + i + 1 \in 1 .. next_sequence + 1
      BY <1>1, <3>1
    <3>5. offsets'[Low + i] = offsets[Low + i] /\ offsets'[Low + i + 1] = offsets[Low + i + 1]
      BY <3>4, NewSegmentFollows
    <3>6. all[i] = segments[i] /\ all[i] \in Segment
      BY <1>1, <1>2, <3>1, ElementOfSeq
    <3> QED BY <3>2, <3>3, <3>5, <3>6
  <2>2. CASE ~ (i <= Len(segments))
    <3>1. i = Len(segments) + 1
      BY <1>1, <2>2
    <3>2. Low + i - 1 = next_sequence /\ Low + i = next_sequence + 1 /\ Low + i + 1 = next_sequence + 2
      BY <1>1, <3>1
    <3> QED BY <1>2, <3>1, <3>2, NewSegmentFollows
  <2> QED BY <2>1, <2>2
<1> QED BY <1>2, <1>3

\* What is left once the oldest `k' are removed.
LEMMA LeftIs ==
  ASSUME IInv, AppendSegment,
         NEW all, all = Append(segments, NewSegment), NEW k \in 0 .. Len(segments) + 1
  PROVE  Left(all, total_bytes + Len(current), k) = Last' - offsets'[Low + k + 1]
<1>1. /\ Len(segments) \in Nat /\ Low \in Nat /\ Low + Len(segments) = next_sequence
      /\ next_sequence \in Nat /\ Last \in Nat
  BY Bounds
<1>2. /\ Low + 1 \in 1 .. next_sequence + 1 /\ Low + k + 1 \in 1 .. next_sequence + 2
  BY <1>1
<1>3. offsets'[Low + 1] \in Nat /\ offsets'[Low + k + 1] \in Nat
  <2>1. offsets' \in Seq(Nat) /\ Len(offsets') = next_sequence + 2
    BY NewSegmentFollows
  <2>2. Low + 1 \in 1 .. Len(offsets') /\ Low + k + 1 \in 1 .. Len(offsets')
    BY <1>1, <1>2, <2>1
  <2> QED BY <2>1, <2>2, ElementOfSeq
<1>4. total_bytes + Len(current) = Last' - offsets'[Low + 1]
  <2>1. total_bytes = Last - offsets[Low + 1]
    BY DEF IInv, SegmentsInv
  <2>2. offsets'[Low + 1] = offsets[Low + 1] /\ Last' = Last + Len(current) /\ Len(current) \in Nat
    BY <1>2, NewSegmentFollows
  <2> QED BY <1>1, <1>3, <2>1, <2>2
<1>5. Last' \in Nat
  BY NewSegmentFollows
<1>6. CASE k = 0
  <2>1. Low + k + 1 = Low + 1
    BY <1>1, <1>6
  <2> QED BY <1>4, <1>6, <2>1 DEF Left
<1>7. CASE k # 0
  <2>1. k \in 1 .. Len(segments) + 1 /\ 1 \in 1 .. Len(segments) + 1
    BY <1>1, <1>7
  <2>2. all[k].to = offsets'[Low + k + 1] /\ all[1].from = offsets'[Low + 1]
    BY <2>1, AllFollow
  <2>3. Left(all, total_bytes + Len(current), k) =
           (total_bytes + Len(current)) - (all[k].to - all[1].from)
    BY <1>7, Zenon DEF Left
  <2> DEFINE left == Left(all, total_bytes + Len(current), k)
             bytes == total_bytes + Len(current)
             a == offsets'[Low + 1]
             b == offsets'[Low + k + 1]
  <2>4. left = bytes - (b - a) /\ bytes = Last' - a /\ a \in Nat /\ b \in Nat
    BY <1>3, <1>4, <2>2, <2>3
  <2> HIDE DEF left, bytes, a, b
  <2>5. left = Last' - b
    BY <1>5, <2>4
  <2> QED BY <2>5 DEF left, b
<1> QED BY <1>6, <1>7

\* The window moves on to the first number from which everything fits.
LEMMA WindowMoves ==
  ASSUME IInv, AppendSegment
  PROVE  /\ segments' \in Seq(Segment) /\ Low' \in Low .. next_sequence' /\ Len(segments') \in Nat
         /\ Len(segments') = next_sequence' - Low'
         /\ \A i \in 1 .. Len(segments') :
               /\ segments'[i].sequence = Low' + i - 1 /\ segments'[i].first = "iframe"
               /\ segments'[i].from = offsets'[Low' + i] /\ segments'[i].to = offsets'[Low' + i + 1]
         /\ total_bytes' = Last' - offsets'[Low' + 1]
         /\ Last' - offsets'[Low' + 1] <= BufferBytes
         /\ \A n \in Low .. Low' - 1 : Last' - offsets'[n + 1] > BufferBytes
<1> DEFINE all == Append(segments, NewSegment)
           bytes == total_bytes + Len(current)
<1>1. PICK k \in 0 .. Len(all) :
         /\ EvictionStops(all, bytes, k)
         /\ segments' = SubSeq(all, k + 1, Len(all))
         /\ total_bytes' = Left(all, bytes, k)
  BY DEF AppendSegment
<1>2. /\ all \in Seq(Segment) /\ Len(all) = Len(segments) + 1
      /\ \A i \in 1 .. Len(segments) + 1 :
            /\ all[i] \in Segment /\ all[i].sequence = Low + i - 1 /\ all[i].first = "iframe"
            /\ all[i].from = offsets'[Low + i] /\ all[i].to = offsets'[Low + i + 1]
  BY AllFollow
<1>3. \A j \in 0 .. Len(segments) + 1 : Left(all, bytes, j) = Last' - offsets'[Low + j + 1]
  BY LeftIs
<1> HIDE DEF all, bytes
<1>4. /\ Len(segments) \in Nat /\ Low \in Nat /\ Low + Len(segments) = next_sequence
      /\ next_sequence \in Nat
  BY Bounds
<1>5. next_sequence' = next_sequence + 1 /\ Last' = offsets'[next_sequence + 2] /\ Last' \in Nat
  BY NewSegmentFollows
<1>6. k \in Nat /\ k <= Len(segments) + 1
  BY <1>1, <1>2, <1>4
<1>7. /\ segments' \in Seq(Segment) /\ Len(segments') = Len(segments) + 1 - k
      /\ \A i \in 1 .. Len(segments') : segments'[i] = all[k + i]
  <2>1. \A i \in k + 1 .. Len(all) : all[i] \in Segment
    BY <1>2, <1>4, <1>6
  <2>2. /\ segments' \in Seq(Segment)
        /\ Len(segments') = IF k + 1 <= Len(all) THEN Len(all) - (k + 1) + 1 ELSE 0
        /\ \A i \in 1 .. Len(all) - (k + 1) + 1 : segments'[i] = all[k + 1 + i - 1]
    <3>1. k + 1 \in Int /\ Len(all) \in Int
      BY <1>2, <1>4, <1>6
    <3> QED BY <1>1, <2>1, <3>1, SubSeqProperties
  <2>3. Len(segments') = Len(segments) + 1 - k
    BY <1>2, <1>4, <1>6, <2>2
  <2>4. ASSUME NEW i \in 1 .. Len(segments') PROVE segments'[i] = all[k + i]
    <3>1. i \in 1 .. Len(all) - (k + 1) + 1 /\ k + 1 + i - 1 = k + i
      BY <1>2, <1>4, <1>6, <2>3
    <3> QED BY <2>2, <3>1
  <2> QED BY <2>2, <2>3, <2>4
<1>8. /\ Low' = Low + k /\ Low' \in Low .. next_sequence' /\ Len(segments') = next_sequence' - Low'
      /\ Len(segments') \in Nat
  BY <1>4, <1>5, <1>6, <1>7 DEF Low
<1>9. ASSUME NEW i \in 1 .. Len(segments')
      PROVE  /\ segments'[i].sequence = Low' + i - 1 /\ segments'[i].first = "iframe"
             /\ segments'[i].from = offsets'[Low' + i] /\ segments'[i].to = offsets'[Low' + i + 1]
  <2>1. /\ k + i \in 1 .. Len(segments) + 1 /\ Low + (k + i) = Low' + i
        /\ Low + (k + i) - 1 = Low' + i - 1 /\ Low + (k + i) + 1 = Low' + i + 1
    BY <1>4, <1>6, <1>7, <1>8
  <2> QED BY <1>2, <1>7, <2>1
<1>10. Low' + 1 = Low + k + 1
  BY <1>4, <1>6, <1>8
<1>11. total_bytes' = Last' - offsets'[Low' + 1]
  <2>1. k \in 0 .. Len(segments) + 1
    BY <1>4, <1>6
  <2> QED BY <1>1, <1>3, <1>10, <2>1
<1>12. Last' - offsets'[Low' + 1] <= BufferBytes
  <2>1. k = Len(all) \/ Left(all, bytes, k) <= BufferBytes
    BY <1>1 DEF EvictionStops
  <2>2. CASE k = Len(all)
    <3>1. Low' + 1 = next_sequence + 2
      BY <1>2, <1>4, <1>8, <2>2
    <3> QED BY <1>5, <3>1
  <2>3. CASE Left(all, bytes, k) <= BufferBytes
    BY <1>1, <1>11, <2>3
  <2> QED BY <2>1, <2>2, <2>3
<1>13. ASSUME NEW n \in Low .. Low' - 1 PROVE Last' - offsets'[n + 1] > BufferBytes
  <2>1. /\ n - Low \in 0 .. k - 1 /\ n - Low \in 0 .. Len(segments) + 1
        /\ Low + (n - Low) + 1 = n + 1
    BY <1>4, <1>6, <1>8
  <2>2. Left(all, bytes, n - Low) > BufferBytes
    BY <1>1, <2>1 DEF EvictionStops
  <2> QED BY <1>3, <2>1, <2>2
<1> QED BY <1>7, <1>8, <1>9, <1>11, <1>12, <1>13

LEMMA AppendIInv ==
  ASSUME IInv, AppendSegment
  PROVE  IInv'
<1>1. /\ next_sequence \in Nat /\ Low \in Nat /\ Low + Len(segments) = next_sequence
      /\ Last \in Nat /\ \A i \in 1 .. next_sequence + 1 : offsets[i] \in Nat
      /\ Len(offsets) = next_sequence + 1
  BY Bounds
<1>2. /\ next_sequence' = next_sequence + 1 /\ next_sequence < MaxSegments
      /\ offsets' \in Seq(Nat) /\ Len(offsets') = next_sequence + 2
      /\ \A i \in 1 .. next_sequence + 1 : offsets'[i] = offsets[i]
      /\ offsets'[next_sequence + 2] = Last' /\ Last' \in Nat /\ Last' >= Last
      /\ Last = offsets[next_sequence + 1]
  <2>1. Len(current) \in Nat /\ offsets'[next_sequence + 2] = Last + Len(current)
    BY NewSegmentFollows
  <2>2. offsets'[next_sequence + 2] >= Last
    BY <1>1, <2>1
  <2> QED BY <2>2, NewSegmentFollows, Bounds
<1>3. UNCHANGED <<started, error, thread, viewer, playlist, fetched>> /\ current' = <<"iframe">>
      /\ thread = "stream"
  BY DEF AppendSegment, viewerVars
<1>4. /\ Low' \in Nat /\ Low <= Low' /\ Low' <= next_sequence' /\ Len(segments') \in Nat
      /\ Len(segments') = next_sequence' - Low' /\ next_sequence' \in Nat
  <2>1. Low' \in Low .. next_sequence' /\ Len(segments') \in Nat
        /\ Len(segments') = next_sequence' - Low'
    BY WindowMoves
  <2>2. next_sequence' \in Nat /\ Low \in Nat
    BY <1>1, <1>2
  <2> DEFINE low == Low'
             next == next_sequence'
  <2>3. low \in Low .. next /\ next \in Nat
    BY <2>1, <2>2
  <2> HIDE DEF low, next
  <2>4. low \in Nat /\ Low <= low /\ low <= next
    BY <2>2, <2>3
  <2> QED BY <2>1, <2>2, <2>4 DEF low, next
<1>5. /\ current' \in Seq(Kind) /\ Len(current') = 1 /\ current'[1] = "iframe"
  BY <1>3 DEF Kind
<1>6. ASSUME NEW i \in 1 .. Len(offsets'), NEW j \in 1 .. Len(offsets'), i <= j
      PROVE  offsets'[i] <= offsets'[j]
  <2>1. CASE j = next_sequence + 2
    <3>1. CASE i = next_sequence + 2
      <4>1. offsets'[i] = Last' /\ offsets'[j] = Last'
        BY <1>2, <2>1, <3>1
      <4> QED BY <1>2, <4>1
    <3>2. CASE i # next_sequence + 2
      <4>1. i \in 1 .. next_sequence + 1 /\ next_sequence + 1 \in 1 .. next_sequence + 1
            /\ i <= next_sequence + 1
        BY <1>1, <1>2, <3>2
      <4>2. offsets[i] <= Last
        BY <1>1, <1>2, <4>1 DEF IInv, OffsetsInv
      <4>3. offsets'[i] = offsets[i] /\ offsets'[j] = Last' /\ offsets[i] \in Nat
        BY <1>1, <1>2, <2>1, <4>1
      <4> QED BY <1>1, <1>2, <4>2, <4>3
    <3> QED BY <3>1, <3>2
  <2>2. CASE j # next_sequence + 2
    <3>1. i \in 1 .. next_sequence + 1 /\ j \in 1 .. next_sequence + 1
      BY <1>1, <1>2, <1>6, <2>2
    <3>2. offsets[i] <= offsets[j]
      BY <1>1, <1>6, <3>1 DEF IInv, OffsetsInv
    <3> QED BY <1>2, <3>1, <3>2
  <2> QED BY <2>1, <2>2
<1>7. OffsetsInv'
  BY <1>1, <1>2, <1>6 DEF OffsetsInv
<1>8. SegmentsInv' /\ SegmentsIndependent'
  <2>1. Len(segments') <= next_sequence'
    <3>1. \A a, b \in Nat : b - a <= b
      OBVIOUS
    <3> QED BY <1>4, <3>1
  <2>2. DOMAIN segments' = 1 .. Len(segments')
    BY WindowMoves, LenProperties
  <2> QED BY <2>1, <2>2, WindowMoves DEF SegmentsInv, SegmentsIndependent
<1>9. WindowInv'
  <2>1. Last' - offsets'[Low' + 1] <= BufferBytes
    BY WindowMoves
  <2>2. ASSUME NEW n \in 0 .. Low' - 1 PROVE Last' - offsets'[n + 1] > BufferBytes
    <3>1. CASE n < Low
      <4>1. n \in 0 .. Low - 1 /\ n + 1 \in 1 .. next_sequence + 1
        BY <1>1, <1>4, <3>1
      <4>2. Last - offsets[n + 1] > BufferBytes
        BY <4>1 DEF IInv, WindowInv
      <4>3. offsets'[n + 1] = offsets[n + 1] /\ offsets[n + 1] \in Nat
        BY <1>1, <1>2, <4>1
      <4> QED BY <1>1, <1>2, <4>2, <4>3
    <3>2. CASE ~ (n < Low)
      <4>1. n \in Low .. Low' - 1
        <5> DEFINE low == Low'
        <5>1. Low \in Nat /\ low \in Nat /\ n \in 0 .. low - 1
          BY <1>1, <1>4
        <5> HIDE DEF low
        <5>2. n \in Low .. low - 1
          BY <3>2, <5>1
        <5> QED BY <5>2 DEF low
      <4> QED BY <4>1, WindowMoves
    <3> QED BY <3>1, <3>2
  <2> QED BY <2>1, <2>2 DEF WindowInv
<1>10. CurrentInv' /\ ErrorOnlyInOutage'
  <2>1. ~ error
    BY <1>3 DEF IInv, ErrorOnlyInOutage
  <2> QED BY <1>3, <1>5, <2>1 DEF CurrentInv, ErrorOnlyInOutage
<1>11. PlaylistsInv'
  <2> SUFFICES ASSUME NEW v \in Viewer, NEW k \in DOMAIN playlist[v]
               PROVE  playlist[v][k] < next_sequence' /\ (k = 1 => playlist[v][k] <= Low')
    BY <1>3 DEF PlaylistsInv
  <2>1. playlist[v][k] < next_sequence /\ (k = 1 => playlist[v][k] <= Low)
    BY DEF IInv, PlaylistsInv
  <2>2. playlist[v][k] \in Int
    <3>1. playlist[v][k] \in Number
      BY LenProperties, ElementOfSeq DEF IInv, TypeOK
    <3> QED BY <3>1 DEF Number
  <2> QED BY <1>1, <1>2, <1>4, <2>1, <2>2
<1>12. ASSUME NEW v \in Viewer, fetched[v] # None
       PROVE  /\ fetched[v].asked \in Nat /\ fetched[v].asked < next_sequence
  <2>1. fetched[v] \in [asked : Number, segment : Segment \cup {None}]
    BY <1>12 DEF IInv, TypeOK
  <2> QED BY <1>12, <2>1 DEF IInv, AskedInv, Number
<1>13. AskedInv'
  BY <1>1, <1>2, <1>3, <1>12 DEF AskedInv
<1>14. FetchedAsListed'
  <2> SUFFICES ASSUME NEW v \in Viewer, fetched[v] # None
               PROVE  IF fetched[v].segment = None
                      THEN \A k \in DOMAIN segments' : segments'[k].sequence > fetched[v].asked
                      ELSE Data(fetched[v].segment) = [from |-> offsets'[fetched[v].asked + 1],
                                                       to |-> offsets'[fetched[v].asked + 2]]
    BY <1>3 DEF FetchedAsListed, Data
  <2>1. fetched[v].asked \in Nat /\ fetched[v].asked < next_sequence
    BY <1>12
  <2>2. CASE fetched[v].segment # None
    <3>1. /\ fetched[v].asked + 1 \in 1 .. next_sequence + 1
          /\ fetched[v].asked + 2 \in 1 .. next_sequence + 1
      BY <1>1, <2>1
    <3>2. Data(fetched[v].segment) = [from |-> offsets[fetched[v].asked + 1],
                                      to |-> offsets[fetched[v].asked + 2]]
      BY <2>2 DEF IInv, FetchedAsListed
    <3> QED BY <1>2, <2>2, <3>1, <3>2
  <2>3. CASE fetched[v].segment = None
    <3>1. \A k \in DOMAIN segments : segments[k].sequence > fetched[v].asked
      BY <2>3 DEF IInv, FetchedAsListed
    <3>2. fetched[v].asked < Low
      <4>1. CASE Len(segments) = 0
        BY <1>1, <2>1, <4>1
      <4>2. CASE Len(segments) # 0
        <5>1. 1 \in 1 .. Len(segments)
          BY <4>2, Bounds
        <5>2. segments[1].sequence = Low + 1 - 1 /\ 1 \in DOMAIN segments
          BY <5>1, Numbers
        <5> QED BY <1>1, <3>1, <5>2
      <4> QED BY <4>1, <4>2
    <3>3. ASSUME NEW k \in DOMAIN segments' PROVE segments'[k].sequence > fetched[v].asked
      <4>1. k \in 1 .. Len(segments')
        BY WindowMoves, LenProperties
      <4>2. segments'[k].sequence = Low' + k - 1
        BY <4>1, WindowMoves
      <4> QED BY <1>1, <1>4, <2>1, <3>2, <4>1, <4>2
    <3> QED BY <2>3, <3>3
  <2> QED BY <2>2, <2>3
<1>15. TypeOK'
  <2>1. next_sequence' \in 0 .. MaxSegments
    BY <1>1, <1>2
  <2>2. total_bytes' \in Nat
    <3>1. /\ Low' + 1 \in 1 .. Len(offsets') /\ Len(offsets') \in 1 .. Len(offsets')
          /\ Low' + 1 <= Len(offsets')
      <4>1. Low' \in Nat /\ Low' <= next_sequence + 1 /\ next_sequence \in Nat
        BY <1>1, <1>2, <1>4
      <4>2. Len(offsets') = next_sequence + 2
        BY <1>2
      <4> DEFINE low == Low'
                 len == Len(offsets')
      <4>3. low \in Nat /\ low <= next_sequence + 1 /\ next_sequence \in Nat /\ len = next_sequence + 2
        BY <4>1, <4>2
      <4> HIDE DEF low, len
      <4>4. low + 1 \in 1 .. len /\ len \in 1 .. len /\ low + 1 <= len
        BY <4>3
      <4> QED BY <4>4 DEF low, len
    <3>2. offsets'[Low' + 1] \in Nat /\ offsets'[Low' + 1] <= Last'
      BY <1>2, <1>6, <3>1, ElementOfSeq
    <3>3. total_bytes' = Last' - offsets'[Low' + 1]
      BY WindowMoves
    <3> QED BY <1>2, <3>2, <3>3
  <2>3. segments' \in Seq(Segment)
    BY WindowMoves
  <2> QED BY <1>2, <1>3, <1>5, <2>1, <2>2, <2>3 DEF IInv, TypeOK
<1> QED BY <1>7, <1>8, <1>9, <1>10, <1>11, <1>13, <1>14, <1>15 DEF IInv

LEMMA NextIInv == IInv /\ [Next]_vars => IInv'
<1> SUFFICES ASSUME IInv, [Next]_vars PROVE IInv'
  OBVIOUS
<1>1. CASE RunStream \/ OpenStream \/ ReadUntilKeyframe \/ StreamFails \/ Retry
           \/ \E kind \in Kind : AddPacket(kind)
  BY <1>1, ThreadIInv
<1>2. CASE AppendSegment
  BY <1>2, AppendIInv
<1>3. ASSUME NEW v \in Viewer, Views(v) PROVE IInv'
  <2>1. CASE RequestPlaylist(v) \/ PlaylistRaises(v)
    BY <2>1, RequestIInv
  <2>2. CASE PlaylistReturns(v)
    BY <2>2, PlaylistIInv
  <2>3. ASSUME NEW k \in DOMAIN playlist[v], FetchSegment(v, k) PROVE IInv'
    BY <2>3, FetchIInv
  <2> QED BY <1>3, <2>1, <2>2, <2>3 DEF Views
<1>4. CASE UNCHANGED vars
  <2>1. UNCHANGED windowVars /\ UNCHANGED <<started, error, thread, current, viewer, playlist, fetched>>
    BY <1>4 DEF vars, viewerVars
  <2>2. UNCHANGED <<segments, total_bytes, next_sequence, offsets>>
    BY <2>1 DEF windowVars
  <2>3. TypeOK' /\ CurrentInv' /\ ErrorOnlyInOutage'
    BY <2>1, <2>2 DEF IInv, TypeOK, CurrentInv, ErrorOnlyInOutage
  <2> QED BY <2>1, <2>3, WindowStays, ViewersStay DEF IInv
<1> QED BY <1>1, <1>2, <1>3, <1>4 DEF Next, Run

LEMMA AlwaysIInv == Spec => []IInv
BY InitIInv, NextIInv, PTL DEF Spec

(***************************************************************************)
(* The theorems.                                                            *)
(***************************************************************************)

\* A viewer is given the segment cut under the number it asked for, or none once the
\* window has moved past it; each can be decoded on its own; and an error only in an
\* outage with nothing to show.
THEOREM ViewersServed == Spec => []ViewerInv
<1>1. IInv => ViewerInv
  BY DEF IInv, ViewerInv
<1> QED BY <1>1, AlwaysIInv, PTL

\* A viewer's playlists never go back, however often the stream starts again.
THEOREM PlaylistsGoOn == Spec => PlaylistsAdvance
<1> DEFINE Advance == \A v \in Viewer :
              playlist[v] # <<>> /\ playlist'[v] # <<>> =>
                 /\ playlist'[v][1] >= playlist[v][1]
                 /\ playlist'[v][Len(playlist'[v])] >= playlist[v][Len(playlist[v])]
<1>1. ASSUME IInv, [Next]_vars PROVE [Advance]_playlist
  <2>1. ASSUME NEW v \in Viewer, PlaylistReturns(v) PROVE Advance
    <3> SUFFICES ASSUME NEW u \in Viewer, playlist[u] # <<>>, playlist'[u] # <<>>
                 PROVE  /\ playlist'[u][1] >= playlist[u][1]
                        /\ playlist'[u][Len(playlist'[u])] >= playlist[u][Len(playlist[u])]
      OBVIOUS
    <3> DEFINE old == playlist[u]
               listed == [k \in DOMAIN segments |-> segments[k].sequence]
    <3>1. old \in Seq(Number) /\ Len(old) \in Nat /\ Len(old) >= 1
      BY <1>1, EmptySeq, LenProperties DEF IInv, TypeOK
    <3>2. 1 \in DOMAIN old /\ Len(old) \in DOMAIN old
      BY <3>1, LenProperties
    <3>3. old[1] \in Int /\ old[Len(old)] \in Int
      <4>1. old[1] \in Number /\ old[Len(old)] \in Number
        BY <3>1, ElementOfSeq
      <4> QED BY <4>1 DEF Number
    <3>4. old[1] <= Low /\ old[Len(old)] < next_sequence
      BY <1>1, <3>2 DEF IInv, PlaylistsInv
    <3>5. playlist'[u] = IF u = v THEN listed ELSE old
      BY <1>1, <2>1 DEF PlaylistReturns, IInv, TypeOK
    <3>6. CASE u # v
      BY <3>3, <3>5, <3>6
    <3>7. CASE u = v
      <4>1. /\ DOMAIN listed = 1 .. Len(segments) /\ Len(segments) \in Nat
            /\ \A k \in 1 .. Len(segments) : listed[k] = Low + k - 1
        BY <1>1, Numbers, Bounds
      <4>2. playlist'[u] = listed
        BY <3>5, <3>7
      <4>3. Len(segments) # 0
        <5>1. segments \in Seq(Segment) /\ listed = [k \in 1 .. Len(segments) |-> segments[k].sequence]
          BY <1>1, <4>1, Numbers DEF IInv, TypeOK
        <5>2. SUFFICES ASSUME Len(segments) = 0 PROVE FALSE
          OBVIOUS
        <5>3. 1 .. Len(segments) = {}
          BY <5>2
        <5>4. Len(listed) = 0 /\ listed \in Seq(Number)
          BY <1>1, <3>7, <4>1, <4>2, <5>1, <5>2, PlaylistIInv DEF IInv, TypeOK
        <5>5. listed = <<>>
          BY <5>4, EmptySeq
        <5> QED BY <4>2, <5>5
      <4>4. /\ Len(listed) = Len(segments) /\ listed[1] = Low /\ listed[Len(listed)] = next_sequence - 1
        <5>1. Len(listed) = Len(segments)
          BY <4>1
        <5>2. 1 \in 1 .. Len(segments) /\ Len(segments) \in 1 .. Len(segments)
          BY <4>1, <4>3
        <5>3. Low + 1 - 1 = Low /\ Low + Len(segments) - 1 = next_sequence - 1
          BY <1>1, Bounds
        <5> QED BY <4>1, <5>1, <5>2, <5>3
      <4>5. Low \in Nat /\ next_sequence \in Nat
        BY <1>1, Bounds
      <4> HIDE DEF listed, old
      <4>6. listed[1] >= old[1] /\ listed[Len(listed)] >= old[Len(old)]
        BY <3>3, <3>4, <4>4, <4>5
      <4> QED BY <4>2, <4>6 DEF old
    <3> QED BY <3>6, <3>7
  <2>2. ASSUME ~ \E v \in Viewer : PlaylistReturns(v) PROVE UNCHANGED playlist
    BY <1>1, <2>2 DEF Next, Run, Views, RunStream, OpenStream, ReadUntilKeyframe, AddPacket,
       AppendSegment, StreamFails, Retry, RequestPlaylist, PlaylistRaises, FetchSegment, vars,
       viewerVars
  <2> QED BY <2>1, <2>2
<1> QED BY <1>1, AlwaysIInv, PTL DEF Spec, PlaylistsAdvance

(***************************************************************************)
(* The refinement of SlidingWindow.                                         *)
(***************************************************************************)

\* Shown, as a function of the segments.
ShownOf(segs) ==
    [n \in {segs[k].sequence : k \in DOMAIN segs} |->
        Data(IF \E k \in DOMAIN segs : segs[k].sequence = n
             THEN segs[CHOOSE k \in DOMAIN segs : segs[k].sequence = n]
             ELSE None)]

\* The `len' segments are the ranges from the one numbered `low' on, up to the last.
Ranges(segs, starts, low, len) ==
    /\ DOMAIN segs = 1 .. len /\ low + len - 1 = Len(starts) - 2
    /\ \A k \in 1 .. len : /\ segs[k].sequence = low + k - 1
                           /\ segs[k].from = starts[low + k]
                           /\ segs[k].to = starts[low + k + 1]

\* Segments that follow each other are shown under the numbers from the first one's on.
LEMMA ShowsRange ==
  ASSUME NEW segs, NEW starts, NEW low \in Nat, NEW len \in Nat, Ranges(segs, starts, low, len)
  PROVE  ShownOf(segs) = Window!Newest(starts, low)
<1> DEFINE numbers == {segs[k].sequence : k \in DOMAIN segs}
           place(n) == CHOOSE k \in DOMAIN segs : segs[k].sequence = n
<1>1. numbers = low .. low + len - 1
  <2>1. ASSUME NEW k \in 1 .. len PROVE segs[k].sequence \in low .. low + len - 1
    <3>1. low + k - 1 \in low .. low + len - 1
      OBVIOUS
    <3> QED BY <3>1 DEF Ranges
  <2>2. ASSUME NEW n \in low .. low + len - 1 PROVE n \in numbers
    <3>1. n - low + 1 \in 1 .. len /\ low + (n - low + 1) - 1 = n
      OBVIOUS
    <3>2. segs[n - low + 1].sequence = n
      BY <3>1 DEF Ranges
    <3>3. n - low + 1 \in DOMAIN segs
      BY <3>1 DEF Ranges
    <3> QED BY <3>2, <3>3
  <2> QED BY <2>1, <2>2 DEF Ranges
<1>2. ASSUME NEW n \in numbers
      PROVE  /\ \E k \in DOMAIN segs : segs[k].sequence = n
             /\ Data(segs[place(n)]) = [from |-> starts[n + 1], to |-> starts[n + 2]]
  <2>1. \E k \in DOMAIN segs : segs[k].sequence = n
    OBVIOUS
  <2>2. place(n) \in DOMAIN segs /\ segs[place(n)].sequence = n
    BY <2>1
  <2> HIDE DEF place
  <2>3. place(n) \in 1 .. len /\ n = low + place(n) - 1
    BY <2>2 DEF Ranges
  <2>4. n + 1 = low + place(n) /\ n + 2 = low + place(n) + 1
    BY <2>3
  <2>5. segs[place(n)].from = starts[n + 1] /\ segs[place(n)].to = starts[n + 2]
    BY <2>3, <2>4 DEF Ranges
  <2> QED BY <2>1, <2>5 DEF Data
<1>3. low + len - 1 = Len(starts) - 2
  BY DEF Ranges
<1> QED BY <1>1, <1>2, <1>3 DEF ShownOf, Window!Newest

\* What can be fetched is the data of the newest segments.
LEMMA ShownIsNewest ==
  ASSUME IInv
  PROVE  Shown = Window!Newest(offsets, Low)
<1>1. /\ Low \in Nat /\ Len(segments) \in Nat /\ DOMAIN segments = 1 .. Len(segments)
      /\ \A k \in 1 .. Len(segments) :
            /\ segments[k].sequence = Low + k - 1
            /\ segments[k].from = offsets[Low + k] /\ segments[k].to = offsets[Low + k + 1]
  BY Bounds, Numbers DEF IInv, SegmentsInv
<1>2. Low + Len(segments) - 1 = Len(offsets) - 2
  BY Bounds
<1>3. Ranges(segments, offsets, Low, Len(segments))
  BY <1>1, <1>2 DEF Ranges
<1>4. Shown = ShownOf(segments)
  BY Zenon DEF Shown, ShownOf, Lookup
<1> QED BY <1>1, <1>3, <1>4, ShowsRange

\* A cut moves the window as far as it has to, and no further.
LEMMA AppendRefines ==
  ASSUME IInv, AppendSegment
  PROVE  Window!Cut
<1>1. IInv'
  BY AppendIInv
<1>2. /\ Len(offsets) = next_sequence + 1 /\ Last = offsets[Len(offsets)] /\ next_sequence \in Nat
  BY Bounds
<1>3. Len(current) \in 1 .. MaxBytes /\ offsets' = Append(offsets, offsets[Len(offsets)] + Len(current))
  BY NewSegmentFollows DEF AppendSegment, NewSegment
<1>4. /\ next_sequence' = next_sequence + 1 /\ Len(offsets') = next_sequence + 2
      /\ Last' = offsets'[Len(offsets')]
  BY NewSegmentFollows
<1>5. Low' \in 0 .. Len(offsets)
  BY <1>2, <1>4, WindowMoves, Bounds
<1>6. Window!Fits(offsets', Low')
  BY <1>1, <1>4 DEF Window!Fits, IInv, WindowInv
<1>7. ASSUME NEW n \in 0 .. Low' - 1 PROVE ~ Window!Fits(offsets', n)
  <2>1. Last' - offsets'[n + 1] > BufferBytes
    BY <1>1 DEF IInv, WindowInv
  <2>2. Last' - offsets'[n + 1] \in Int
    <3>1. Last' \in Nat /\ offsets' \in Seq(Nat)
      BY NewSegmentFollows
    <3>3. n + 1 \in 1 .. Len(offsets')
      <4> DEFINE low == Low'
                 len == Len(offsets')
      <4>1. /\ n \in 0 .. low - 1 /\ low \in 0 .. next_sequence + 1 /\ next_sequence \in Nat
            /\ len = next_sequence + 2
        BY <1>2, <1>4, <1>5
      <4> HIDE DEF low, len
      <4>2. n + 1 \in 1 .. len
        BY <4>1
      <4> QED BY <4>2 DEF len
    <3>2. offsets'[n + 1] \in Nat
      BY <3>1, <3>3, ElementOfSeq
    <3> QED BY <3>1, <3>2
  <2> QED BY <1>4, <2>1, <2>2 DEF Window!Fits
<1>8. Shown' = Window!Newest(offsets', Low')
  <2>1. /\ Low' \in Nat /\ Len(segments') \in Nat /\ DOMAIN segments' = 1 .. Len(segments')
        /\ \A k \in 1 .. Len(segments') :
              /\ segments'[k].sequence = Low' + k - 1
              /\ segments'[k].from = offsets'[Low' + k] /\ segments'[k].to = offsets'[Low' + k + 1]
    BY <1>5, WindowMoves, LenProperties
  <2>2. Low' + Len(segments') - 1 = Len(offsets') - 2
    <3> DEFINE low == Low'
               len == Len(segments')
               end == Len(offsets')
               next == next_sequence'
    <3>1. low \in Nat /\ next_sequence \in Nat /\ end = next_sequence + 2 /\ next = next_sequence + 1
      BY <1>2, <1>4, <2>1
    <3>3. len = next - low
      BY WindowMoves
    <3> HIDE DEF low, len, end, next
    <3>2. low + len - 1 = end - 2
      BY <3>1, <3>3
    <3> QED BY <3>2 DEF low, len, end
  <2>3. Ranges(segments', offsets', Low', Len(segments'))
    BY <2>1, <2>2 DEF Ranges
  <2>4. Shown' = ShownOf(segments')
    BY Zenon DEF Shown, ShownOf, Lookup, Data
  <2> QED BY <2>1, <2>3, <2>4, ShowsRange
<1> QED BY <1>3, <1>5, <1>6, <1>7, <1>8 DEF Window!Cut

\* The segments are a sliding window over everything cut, whatever fails in between: the
\* newest ones under the numbers they were cut with, and no more is dropped than the
\* limit asks for.
THEOREM Refinement == Spec => ImplementsWindow
<1>1. Init => Window!Init
  <2> SUFFICES ASSUME Init PROVE Window!Init
    OBVIOUS
  <2>1. IInv
    BY InitIInv
  <2>2. offsets = <<0>> /\ next_sequence = 0 /\ Len(segments) = 0
    BY EmptySeq DEF Init
  <2>3. Low = 0
    BY <2>2 DEF Low
  <2> QED BY <2>1, <2>2, <2>3, ShownIsNewest DEF Window!Init
<1>2. IInv /\ [Next]_vars => [Window!Cut]_(Window!vars)
  <2> SUFFICES ASSUME IInv, [Next]_vars PROVE [Window!Cut]_(Window!vars)
    OBVIOUS
  <2>1. CASE AppendSegment
    BY <2>1, AppendRefines
  <2>2. CASE ~ AppendSegment
    <3>1. UNCHANGED windowVars
      BY <2>2 DEF Next, Run, Views, RunStream, OpenStream, ReadUntilKeyframe, AddPacket,
         StreamFails, Retry, RequestPlaylist, PlaylistReturns, PlaylistRaises, FetchSegment, vars
    <3>2. UNCHANGED <<segments, offsets>>
      BY <3>1 DEF windowVars
    <3>3. Shown' = Shown
      BY <3>2 DEF Shown, Lookup, Data
    <3> QED BY <3>2, <3>3 DEF Window!vars
  <2> QED BY <2>1, <2>2
<1> QED BY <1>1, <1>2, AlwaysIInv, PTL DEF Spec, ImplementsWindow, Window!Spec

=============================================================================
