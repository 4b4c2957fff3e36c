------------------------------ MODULE MediaPath ------------------------------
(***************************************************************************)
(* From the payloads of a live stream to MPEG-TS: MediaParser, which cuts  *)
(* BCMedia packets out of payloads whose ends need not be theirs,          *)
(* MpegTsMuxer, and its consumers: StreamRecorder with its thread          *)
(* (recorder.py), the viewer's path of _read_until_keyframe,               *)
(* _buffer_initial_video and _produce_mpegts_chunks (stream_server.py),    *)
(* and bcmedia_to_mp4, which reads the same packets from a file            *)
(* (core/media.py).                                                        *)
(*                                                                         *)
(* Bytes are cells, numbered as they leave the camera: of a packet two are *)
(* its magic, one the four bytes behind it, for video and stream           *)
(* information one the rest of the header, then comes the data.  Data      *)
(* never looks like a magic; only that of AAC looks like ADTS, where it    *)
(* begins, and one cell of it is long enough to tell.  Payloads are lost   *)
(* when the subscription's queue is full or the stream is restarted by a   *)
(* reconnection.                                                           *)
(***************************************************************************)
EXTENDS Integers, Sequences, SequencesExt, FiniteSetsExt

CONSTANTS
    Streams,        \* bound: what the camera may send, packets with their last cells
    Longest,        \* bound: packets of a stream
    Data,           \* cells of data of a packet of each kind
    Bytes,          \*   and their bytes, as the muxer counts them
    Garbage,        \* sizes read from a header that two packets share
    TargetFrames,   \* of _buffer_initial_video
    Wrap,           \* the width of timestamp_us, in packets
    AacDuration,    \* _aac_duration_90k, in packets
    MaxLosses       \* bound: packets hit by lost payloads, before the last loss

Video == {"iframe", "pframe"}
Media == Video \cup {"aac"}
Kind  == Media \cup {"info", "adpcm", "broken", "junk"}

Class(kind) ==
    CASE kind = "info" -> "info" [] kind \in Video \cup {"broken"} -> "video"
      [] kind \in {"aac", "adpcm"} -> "audio" [] OTHER -> "none"
Header(class) == CASE class = "none" -> 0 [] class = "audio" -> 3 [] OTHER -> 4
Length(kind) == Header(Class(kind)) + Data[kind]

\* The cells in front of a packet.
Before(s, i) == IF i = 1 THEN 0 ELSE s[i - 1].end

ASSUME MediaAssumption ==
    /\ Data \in [Kind -> Nat] /\ Data["info"] = 0 /\ Data["junk"] > 0 /\ Data["aac"] > 0
    /\ \A s \in Streams :
          /\ s \in Seq([kind : Kind, end : Nat]) /\ Len(s) \in 1 .. Longest
          /\ \A i \in DOMAIN s : s[i].end = Before(s, i) + Length(s[i].kind)
    /\ Longest \in Nat
    /\ Bytes \in [Media -> Nat \ {0}]
    /\ Garbage \subseteq Nat /\ Garbage # {} /\ TargetFrames \in Nat
    /\ Wrap \in Nat \ {0} /\ AacDuration \in Nat \ {0} /\ MaxLosses \in Nat

VARIABLES
    sent, faulty,       \* the camera's packets; may anything be lost or be wrong?
    passed, lost,       \* cells that have left the camera; packets that lost some
    garbage,            \* the size such a header happens to give
    buf,                \* MediaParser._buf
    thread, phase,      \* the consumer: where its thread is, and how far in its work
    first,              \* the packets of _read_until_keyframe and _buffer_initial_video
    mux,                \* the MpegTsMuxer, with the chunks it has made
    consumer,           \* viewer, recorder or converter
    stop,               \* StreamRecorder._stop, or its deadline is over
    error, streaming,   \* StreamRecorder.error; does the camera stream? (external)
    out, excused        \* history: packets parsed; packets whose start was cut or swallowed

streamVars == <<sent, faulty, passed, lost, garbage>>
parseVars  == <<buf, out, excused>>
workVars   == <<phase, first, mux>>
ctlVars    == <<consumer, stop, error, streaming>>
mediaVars == <<streamVars, parseVars, thread, workVars, ctlVars>>

---------------------------------------------------------------------------
\* The camera's cells, and the packet each belongs to.

Size == sent[Len(sent)].end
Of(cell) == CHOOSE i \in DOMAIN sent : cell \in Before(sent, i) + 1 .. sent[i].end
KindOf(cell) == sent[Of(cell)].kind
At(cell) == cell - Before(sent, Of(cell))
Cells(from, to) == [k \in 1 .. to - from |-> from + k]

Is(cell, class, at) == Class(KindOf(cell)) = class /\ At(cell) = at

MagicAt(b, j) ==
    /\ j < Len(b)
    /\ \E class \in {"info", "video", "audio"} : Is(b[j], class, 1) /\ Is(b[j + 1], class, 2)

\* _try_one: is there a packet, must it wait for more, or is this no packet at all?
Known(b) ==
    LET class == Class(KindOf(b[1]))
    IN  CASE class = "info"  -> Is(b[3], "info", 3)
          [] class = "video" -> Is(b[3], "video", 3) /\ KindOf(b[3]) # "broken"
          [] OTHER           -> TRUE

Total(b) ==
    LET class == Class(KindOf(b[1]))  size == IF class = "audio" THEN b[3] ELSE b[4]
    IN  CASE class = "info" -> 4
          [] OTHER -> Header(class) +
                      IF Is(size, class, Header(class)) THEN Data[KindOf(size)] ELSE garbage

TryOne(b) ==
    IF Len(b) < 3 THEN "wait"
    ELSE IF ~MagicAt(b, 1) THEN "resync"
    ELSE IF Len(b) < Header(Class(KindOf(b[1]))) THEN "wait"
    ELSE IF ~Known(b) THEN "resync"
    ELSE IF Len(b) < Total(b) THEN "wait" ELSE "packet"

Magics(b) == {j \in 2 .. Len(b) : MagicAt(b, j)}
ResyncToLast(b) == IF Magics(b) = {} THEN <<>> ELSE SubSeq(b, Max(Magics(b)), Len(b))    \* mutant
Resync(b) == IF Magics(b) = {} THEN <<>> ELSE SubSeq(b, Min(Magics(b)), Len(b))

\* The packets that have their first cell among these.
Starts(b) == {Of(b[j]) : j \in {k \in DOMAIN b : At(b[k]) = 1}}
\* A magic of which only one half has come.
Halves(b) == {Of(b[j]) : j \in {k \in DOMAIN b : At(b[k]) = 1 /\ ~MagicAt(b, k)}}

---------------------------------------------------------------------------
\* MpegTsMuxer.

PAT == "pat"  PMT == "pmt"  VIDEO == "video"  AUDIO == "audio"
Pid == {PAT, PMT, VIDEO, AUDIO}

TsChunk == [pid : Pid, of : Nat, pts : Nat, continuity : 0 .. 15, packets : Nat, bytes : SUBSET Nat]
Muxer == [continuity : [Pid -> 0 .. 15], tables_written : BOOLEAN,
          video_pts : 0 .. Wrap - 1, audio_pts : Nat, chunks : Seq(TsChunk)]

NewMuxer == [continuity |-> [p \in Pid |-> 0], tables_written |-> FALSE,
             video_pts |-> 0, audio_pts |-> 0, chunks |-> <<>>]

\* _packetize: the parts of a payload, and the bytes of the packet that carries each.
Room(pcr) == IF pcr THEN 176 ELSE 184
Count(size, pcr) == IF size <= Room(pcr) THEN 1 ELSE 1 + (size - Room(pcr) + 183) \div 184
Part(size, pcr, i) ==
    IF i = 1 THEN Min({size, Room(pcr)}) ELSE Min({184, size - Room(pcr) - (i - 2) * 184})
Adaptation(part, pcr) ==
    LET body == IF pcr THEN 7 ELSE 1
    IN  IF part = 184 THEN 0 ELSE 1 + body + Max({184 - part - 1 - body, 0})
PacketBytes(part, pcr) == Max({188, 4 + Adaptation(part, pcr) + part})

Packetize(m, pid, size, pcr, of, pts) ==
    [m EXCEPT !.continuity[pid] = (@ + Count(size, pcr)) % 16,
              !.chunks = Append(@, [pid |-> pid, of |-> of, pts |-> pts,
                  continuity |-> m.continuity[pid], packets |-> Count(size, pcr),
                  bytes |-> {PacketBytes(Part(size, pcr, i), pcr /\ i = 1) : i \in 1 .. Count(size, pcr)}])]

\* The bytes of the two tables: header, programs or streams, checksum.
PatSection == 8 + 4 + 4
PmtSection == 12 + 2 * 5 + 4

Tables(m) ==
    IF m.tables_written THEN m
    ELSE [Packetize(Packetize(m, PAT, 1 + PatSection, FALSE, 0, 0), PMT, 1 + PmtSection, FALSE, 0, 0)
             EXCEPT !.tables_written = TRUE]

PesHeader == 14

MuxVideo(m, packet) ==
    LET pts == packet.of % Wrap
    IN  [Packetize(m, VIDEO, PesHeader + Bytes[packet.kind], TRUE, packet.of, pts)
            EXCEPT !.video_pts = pts]

MuxAudioAtVideo(m, packet) ==   \* mutant: without the maximum
    [Packetize(m, AUDIO, PesHeader + Bytes["aac"], FALSE, packet.of, m.video_pts)
        EXCEPT !.audio_pts = m.video_pts + AacDuration]

MuxAudio(m, packet) ==
    LET pts == Max({m.audio_pts, m.video_pts})
    IN  [Packetize(m, AUDIO, PesHeader + Bytes["aac"], FALSE, packet.of, pts)
            EXCEPT !.audio_pts = pts + AacDuration]

\* What feed makes chunks of: frames, and audio that looks like ADTS.
Muxable(packet) == packet.kind \in Video \/ (packet.kind = "aac" /\ packet.adts)

Mux(m, packet) ==
    CASE ~Muxable(packet)        -> Tables(m)
      [] packet.kind \in Video -> MuxVideo(Tables(m), packet)
      [] OTHER                 -> MuxAudio(Tables(m), packet)

---------------------------------------------------------------------------
MediaTypeOK ==
    /\ sent \in Streams /\ faulty \in BOOLEAN /\ garbage \in Garbage
    /\ passed \in 0 .. Size /\ lost \subseteq DOMAIN sent
    /\ buf \in Seq(1 .. passed)
    /\ thread \in {"none", "next", "parse", "mux", "close", "ended"}
    /\ phase \in {"keyframe", "buffer", "write"}
    /\ first \in Seq([of : DOMAIN sent, kind : Kind, adts : BOOLEAN])
    /\ mux \in Muxer
    /\ consumer \in {"viewer", "recorder", "converter"}
    /\ stop \in BOOLEAN /\ error \in BOOLEAN /\ streaming \in BOOLEAN
    /\ out \in Seq([of : DOMAIN sent, kind : Kind, adts : BOOLEAN, whole : BOOLEAN])
    /\ excused \subseteq DOMAIN sent

MediaInit ==
    /\ sent \in Streams /\ faulty \in BOOLEAN
    /\ ~faulty => \A i \in DOMAIN sent : sent[i].kind \notin {"broken", "junk"}
    /\ passed = 0 /\ lost = {} /\ garbage \in Garbage
    /\ buf = <<>> /\ thread = "none" /\ phase = "keyframe" /\ first = <<>> /\ mux = NewMuxer
    /\ consumer \in {"viewer", "recorder", "converter"}
    /\ stop = FALSE /\ error = FALSE /\ streaming = FALSE
    /\ out = <<>> /\ excused = {}

\* The camera, and the queue in front of the consumer.

Deliver(n) == passed' = passed + n /\ UNCHANGED <<sent, faulty, garbage>>

PayloadLost ==
    /\ faulty /\ consumer # "converter" /\ thread # "none" /\ Cardinality(lost) < MaxLosses
    /\ \E n \in 1 .. Size - passed :
          /\ Deliver(n)
          /\ lost' = lost \cup {Of(k) : k \in passed + 1 .. passed + n}
    /\ UNCHANGED <<parseVars, thread, workVars, ctlVars>>

---------------------------------------------------------------------------
\* The consumer's thread.

\* start(); the stream is started by the first payload the generator is asked for.
Start ==
    /\ thread = "none"
    /\ thread' = "next" /\ streaming' = (consumer # "converter")
    /\ UNCHANGED <<streamVars, parseVars, workVars, consumer, stop, error>>

FeedPayloadUnchecked ==     \* mutant: _stop and the deadline are looked at between packets only
    /\ thread = "next"
    /\ \E n \in 1 .. Size - passed :
          Deliver(n) /\ UNCHANGED lost /\ buf' = buf \o Cells(passed, passed + n)
    /\ thread' = "parse"
    /\ UNCHANGED <<out, excused, workVars, ctlVars>>

\* The next payload, at which a recorder looks whether it is to go on.  What comes
\* behind the bound of the stream completes no packet.
FeedPayload ==
    /\ thread = "next"
    /\ IF stop
         THEN thread' = "close" /\ UNCHANGED <<streamVars, buf>>
         ELSE /\ \E n \in 1 .. Size - passed :
                    /\ Deliver(n) /\ UNCHANGED lost
                    /\ buf' = buf \o Cells(passed, passed + n)
              /\ thread' = "parse"
    /\ UNCHANGED <<out, excused, workVars, ctlVars>>

\* The generator raises: a reconnection failed.
PayloadsFail ==
    /\ faulty /\ thread = "next" /\ consumer # "converter"
    /\ error' = TRUE /\ thread' = "close"
    /\ UNCHANGED <<streamVars, parseVars, workVars, consumer, stop, streaming>>

\* _try_one finds no complete packet, or gives up its place in the stream.
ParseWait ==
    /\ thread = "parse" /\ TryOne(buf) = "wait"
    /\ thread' = "next"
    /\ UNCHANGED <<streamVars, parseVars, workVars, ctlVars>>

ParseResync ==
    /\ thread = "parse" /\ TryOne(buf) = "resync"
    /\ buf' = Resync(buf)
    /\ excused' = excused \cup Halves(buf)
    /\ thread' = "next"     \* feed() returns, whatever is left in the buffer
    /\ UNCHANGED <<streamVars, out, workVars, ctlVars>>

\* Does the data of AAC begin as such data does, if with that of another packet?
LooksLikeAdts(b) ==
    LET data == Header("audio") + 1
    IN  /\ KindOf(b[1]) = "aac" /\ data <= Total(b)
        /\ KindOf(b[data]) = "aac" /\ At(b[data]) = data

Packet == [of |-> Of(buf[1]),
           kind |-> IF KindOf(buf[1]) = "broken" THEN "iframe" ELSE KindOf(buf[1]),
           adts |-> LooksLikeAdts(buf)]

Parsed ==
    LET taken == SubSeq(buf, 1, Total(buf))  p == Packet
    IN  /\ out' = Append(out, [of |-> p.of, kind |-> p.kind, adts |-> p.adts,
                               whole |-> taken = Cells(Before(sent, p.of), sent[p.of].end)])
        /\ excused' = excused \cup Starts(Tail(taken))

ForgetRest == buf' = <<>>       \* mutant: what is behind the packet goes
KeepRest == buf' = SubSeq(buf, Total(buf) + 1, Len(buf))

Frames(packets) == Cardinality({j \in DOMAIN packets : packets[j].kind \in Video})

\* A packet for the recorder: nothing is written before the first keyframe.
Record ==
    /\ thread = "parse" /\ TryOne(buf) = "packet" /\ consumer = "recorder"
    /\ Parsed /\ KeepRest
    /\ IF phase = "write" \/ Packet.kind = "iframe"
         THEN mux' = Mux(mux, Packet) /\ phase' = "write"
         ELSE UNCHANGED <<mux, phase>>
    /\ UNCHANGED <<streamVars, thread, first, ctlVars>>

\* _read_until_keyframe returns in the middle of the packets of a payload.
ReadUntilKeyframe ==
    /\ thread = "parse" /\ TryOne(buf) = "packet" /\ consumer = "viewer" /\ phase = "keyframe"
    /\ Parsed /\ KeepRest
    /\ first' = IF Packet.kind = "pframe" THEN first ELSE Append(first, Packet)
    /\ IF Packet.kind # "iframe" THEN UNCHANGED <<phase, thread>>
       ELSE phase' = "buffer" /\ thread' = IF TargetFrames <= 1 THEN "mux" ELSE "next"
    /\ UNCHANGED <<streamVars, mux, ctlVars>>

\* So does _buffer_initial_video.
InitialVideo ==
    /\ thread = "parse" /\ TryOne(buf) = "packet" /\ consumer = "viewer" /\ phase = "buffer"
    /\ Parsed /\ KeepRest
    /\ first' = Append(first, Packet)
    /\ thread' = IF Frames(first') < TargetFrames THEN "parse" ELSE "mux"
    /\ UNCHANGED <<streamVars, phase, mux, ctlVars>>

\* _produce_mpegts_chunks goes through what they read before it asks for more.
ProduceFirst ==
    /\ thread = "mux"
    /\ mux' = Mux(mux, Head(first)) /\ first' = Tail(first)
    /\ IF Len(first) = 1 THEN phase' = "write" /\ thread' = "next" ELSE UNCHANGED <<phase, thread>>
    /\ UNCHANGED <<streamVars, parseVars, ctlVars>>

Produce ==
    /\ thread = "parse" /\ TryOne(buf) = "packet" /\ consumer = "viewer" /\ phase = "write"
    /\ Parsed /\ KeepRest
    /\ mux' = Mux(mux, Packet)
    /\ UNCHANGED <<streamVars, thread, phase, first, ctlVars>>

\* _extract_media_streams copies frames and audio to a file each.
Extract ==
    /\ thread = "parse" /\ TryOne(buf) = "packet" /\ consumer = "converter"
    /\ Parsed /\ KeepRest
    /\ first' = IF Packet.kind \in Media THEN Append(first, Packet) ELSE first
    /\ UNCHANGED <<streamVars, thread, phase, mux, ctlVars>>

\* The end of the file; ffmpeg may refuse what it is given.
EndOfFile ==
    /\ thread = "next" /\ consumer = "converter" /\ passed = Size
    /\ error' \in (IF Frames(first) = 0 THEN {TRUE} ELSE BOOLEAN)
    /\ thread' = "close"
    /\ UNCHANGED <<streamVars, parseVars, workVars, consumer, stop, streaming>>

\* payloads.close(), which stops the stream.
Close ==
    /\ thread = "close"
    /\ streaming' = FALSE /\ thread' = "ended"
    /\ UNCHANGED <<streamVars, parseVars, workVars, consumer, stop, error>>

---------------------------------------------------------------------------
\* stop(), or the end of the duration.
Stop ==
    /\ consumer = "recorder" /\ ~stop
    /\ stop' = TRUE
    /\ UNCHANGED <<streamVars, parseVars, thread, workVars, consumer, error, streaming>>

Work ==
    \/ FeedPayload \/ ParseWait \/ ParseResync
    \/ Record \/ ReadUntilKeyframe \/ InitialVideo \/ ProduceFirst \/ Produce
    \/ Extract \/ EndOfFile \/ Close

MediaNext == Start \/ Work \/ PayloadsFail \/ PayloadLost \/ Stop

MediaSpec == MediaInit /\ [][MediaNext]_mediaVars

\* A stream that has been started carries payloads: when it stalls it is replaced.
FairMediaSpec == MediaSpec /\ WF_mediaVars(Work)

---------------------------------------------------------------------------
\* However the camera's bytes are cut into payloads, and whichever stage has the parser,
\* packets come out in the order in which they were sent and once each; all of them when
\* nothing was lost or malformed.  (MediaParser.feed, which buffers between payloads.)
Begun == IF passed = 0 THEN 0 ELSE Of(passed)
Runs == {[k \in 1 .. n |-> from + k] : from \in 0 .. Longest, n \in 1 .. Longest}
Packets == INSTANCE OrderedStream WITH
    Message   <- Runs,
    written   <- [k \in 1 .. Begun |-> k],
    position  <- IF out = <<>> THEN 0 ELSE Last(out).of,
    delivered <- [k \in DOMAIN out |-> out[k].of],
    lossy     <- faulty

ParsesInOrder == Packets!Spec

\* A sound packet all of which reached the parser is missing from its output only when its
\* magic was cut while the parser was out of step, or its start was taken for the data of
\* a packet that lost its own.  (_resync, which looks for the next magic.)
NothingSkipped ==
    \A i \in DOMAIN sent :
        \/ sent[i].kind \in {"broken", "junk"} \/ i \in lost \cup excused
        \/ \E j \in DOMAIN out : out[j].of = i /\ out[j].whole
        \/ \E j \in DOMAIN buf : buf[j] = Before(sent, i) + 1
        \/ passed <= Before(sent, i)
ParserInv == MediaTypeOK /\ NothingSkipped

\* What has been muxed can be played from its start: the tables, once; then packets as
\* they were parsed, in order, no frame without a keyframe before it; every one parsed since
\* the keyframe that feed() makes chunks of, and what it passes over is no whole packet, but
\* audio that lost data; continuity counters without a jump; audio whose time never goes back,
\* also when the camera's clock wraps.  What has been converted is everything the file holds.
PidOf(kind) == IF kind \in Video THEN VIDEO ELSE AUDIO
Keyed(of) == \E j \in DOMAIN out : out[j].kind = "iframe" /\ out[j].of <= of
Follows(chunks, j, k) ==
    /\ j < k /\ chunks[j].pid = chunks[k].pid
    /\ \A x \in j + 1 .. k - 1 : chunks[x].pid # chunks[k].pid
HasChunk(p) == \E k \in DOMAIN mux.chunks : mux.chunks[k].of = p.of /\ mux.chunks[k].pid = PidOf(p.kind)
Playable ==
    LET chunks == mux.chunks
    IN  /\ \A k \in DOMAIN chunks :
              /\ (k = 1 <=> chunks[k].pid = PAT) /\ (k = 2 <=> chunks[k].pid = PMT)
              /\ k > 2 => \E j \in DOMAIN out :
                              /\ out[j].of = chunks[k].of /\ Muxable(out[j])
                              /\ chunks[k].pid = PidOf(out[j].kind)
              /\ chunks[k].pid = VIDEO => Keyed(chunks[k].of)
        /\ \A j, k \in DOMAIN chunks :
              /\ 2 < j /\ j < k => chunks[j].of < chunks[k].of
              /\ Follows(chunks, j, k) =>
                    chunks[k].continuity = (chunks[j].continuity + chunks[j].packets) % 16
              /\ j < k /\ chunks[j].pid = AUDIO /\ chunks[k].pid = AUDIO => chunks[j].pts < chunks[k].pts
        /\ phase = "write" =>
              \A j \in DOMAIN out : Muxable(out[j]) /\ Keyed(out[j].of) => HasChunk(out[j])
        /\ \A j \in DOMAIN out : out[j].whole /\ out[j].kind \in Media => Muxable(out[j])
        /\ consumer = "converter" /\ thread = "ended" /\ ~error /\ ~faulty =>
              /\ {first[j].of : j \in DOMAIN first} = {i \in DOMAIN sent : sent[i].kind \in Media}
              /\ \A j, k \in DOMAIN first : j < k => first[j].of < first[k].of

\* A recorder that is told to stop, or whose time is over, ends, with its stream stopped.
RecordingEnds == stop /\ thread # "none" ~> thread = "ended" /\ ~streaming

\* assert all(len(chunk) == 188 ...) (tests/test_protocol.py:810)
PacketsAre188 == \A j \in DOMAIN mux.chunks : mux.chunks[j].bytes = {188}

=============================================================================
