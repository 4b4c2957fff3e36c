---------------------------- MODULE DirectStream ----------------------------
(***************************************************************************)
(* One client of the direct MPEG-TS stream (stream_server.py): the handler  *)
(* thread of do_GET and _serve_mpegts, the producer thread that muxes        *)
(* payloads into a bounded queue, the stop event between the two, and the    *)
(* generator of Camera.read_stream_payloads with the Camera it reads.       *)
(*                                                                         *)
(* Chunks of the MPEG-TS stream are numbered in the order they are muxed.    *)
(* Inside the generator only what the handler and the producer can tell     *)
(* apart is kept: a payload, a reconnection, a failed reconnection.  It is   *)
(* not closed by anyone: Python closes it when its last reference goes.     *)
(* The camera and the client are external.                                  *)
(***************************************************************************)
EXTENDS Integers, Sequences

CONSTANTS
    QueueSize,      \* _stream_queue_size
    BurstSize,      \* bound: chunks muxed from one payload
    MaxChunks,      \* bound: chunks muxed
    End,            \* _STREAM_END
    Fault           \* an exception put into the queue

ASSUME DirectAssumption ==
    /\ QueueSize \in Nat \ {0} /\ BurstSize \in Nat \ {0}
    /\ MaxChunks \in Nat /\ BurstSize <= MaxChunks
    /\ {End, Fault} \cap Nat = {} /\ End # Fault

VARIABLES
    handler,        \* where the handler is
    producer,       \* where the producer is
    chunks,         \* the queue between them
    stop_event, started,
    made,           \* chunks muxed so far
    queued,         \*   and how many of them have been offered to the queue
    written,        \* history: the chunks written to the client
    payloads,       \* the generator: not created, live, or finished
    session,        \* is the Camera connected?
    routed,         \*   and does the generator's subscription receive its video?
    client          \* here, stalled (connected, but it reads no more), gone (external)

handlerVars  == <<handler, started, written>>
producerVars == <<producer, made, queued>>
cameraVars   == <<payloads, session, routed>>
vars == <<handlerVars, producerVars, chunks, stop_event, cameraVars, client>>

Chunk == 1 .. MaxChunks

TypeOK ==
    /\ handler \in {"open", "buffer", "headers", "serve", "stop", "join", "close", "done"}
    /\ producer \in {"none", "feed", "next", "fail", "end", "dead"}
    /\ chunks \in Seq(Chunk \cup {End, Fault}) /\ Len(chunks) <= QueueSize
    /\ stop_event \in BOOLEAN /\ started \in BOOLEAN
    /\ made \in 0 .. MaxChunks /\ queued \in 0 .. made
    /\ written \in Seq(Chunk)
    /\ payloads \in {"none", "live", "finished"}
    /\ session \in BOOLEAN /\ routed \in BOOLEAN
    /\ client \in {"here", "stalled", "gone"}

Init ==
    /\ handler = "open" /\ producer = "none"
    /\ chunks = <<>> /\ stop_event = FALSE /\ started = FALSE
    /\ made = 0 /\ queued = 0 /\ written = <<>>
    /\ payloads = "none" /\ session = FALSE /\ routed = FALSE
    /\ client = "here"

(***************************************************************************)
(* The handler.                                                             *)
(***************************************************************************)
OpenCamera ==
    /\ handler = "open"
    /\ session' = TRUE
    /\ handler' = "buffer"
    /\ UNCHANGED <<started, written, producerVars, chunks, stop_event, payloads, routed, client>>

\* connect() or login() raised.
OpenFails ==
    /\ handler = "open"
    /\ session' \in BOOLEAN
    /\ handler' = "close"
    /\ UNCHANGED <<started, written, producerVars, chunks, stop_event, payloads, routed, client>>

\* _read_until_keyframe and _buffer_initial_video, then the start of the producer.
BufferInitialVideo ==
    /\ handler = "buffer"
    /\ payloads' = "live" /\ session' = TRUE /\ routed' = TRUE
    /\ made' \in 1 .. BurstSize
    /\ producer' = "feed"
    /\ handler' = "headers"
    /\ UNCHANGED <<started, written, queued, chunks, stop_event, client>>

BufferingFails ==
    /\ handler = "buffer"
    /\ payloads' = "finished" /\ session' \in BOOLEAN
    /\ handler' = "close"
    /\ UNCHANGED <<started, written, producerVars, chunks, stop_event, routed, client>>

\* The headers are written outside the try whose finally stops the producer.
SendHeaders ==
    /\ handler = "headers"
    /\ handler' = IF client # "gone" THEN "serve" ELSE "close"
    /\ UNCHANGED <<started, written, producerVars, chunks, stop_event, cameraVars, client>>

\* An item taken from the queue, by get() or by the get_nowait() that follow it.  The socket
\* has no timeout: when the client reads no more a write waits once the buffers are full.
ServeItem ==
    /\ handler = "serve"
    /\ chunks # <<>>
    /\ chunks' = Tail(chunks)
    /\ LET item == Head(chunks)
       IN  IF item \in Chunk /\ client # "gone"
           THEN written' = Append(written, item) /\ UNCHANGED handler
           ELSE handler' = "stop" /\ UNCHANGED written
    /\ started' = (started \/ Head(chunks) \in Chunk)
    /\ UNCHANGED <<producerVars, stop_event, cameraVars, client>>

\* get() times out: a null packet is written, which fails if the client has gone.
ServeNull ==
    /\ handler = "serve"
    /\ chunks = <<>> /\ started /\ client = "gone"
    /\ handler' = "stop"
    /\ UNCHANGED <<started, written, producerVars, chunks, stop_event, cameraVars, client>>

StopProducer ==
    /\ handler = "stop"
    /\ stop_event' = TRUE
    /\ handler' = "join"
    /\ UNCHANGED <<started, written, producerVars, chunks, cameraVars, client>>

\* join(timeout=2.0) expires only on a producer that waits for a payload: put()
\* looks at the stop event every 0.25 s.
JoinProducer ==
    /\ handler = "join"
    /\ producer \in {"dead", "next"}
    /\ handler' = "close"
    /\ UNCHANGED <<started, written, producerVars, chunks, stop_event, cameraVars, client>>

CloseCamera ==
    /\ handler = "close"
    /\ session' = FALSE /\ routed' = FALSE
    /\ handler' = "done"
    /\ UNCHANGED <<started, written, producerVars, chunks, stop_event, payloads, client>>

(***************************************************************************)
(* The producer: _produce_mpegts_chunks and _put_stream_item.               *)
(***************************************************************************)
\* Mutants: a full queue loses the item; the stop event is not looked at.
PutOrLose(item, reached) ==
    /\ producer' = IF stop_event THEN "end" ELSE reached
    /\ chunks' = IF stop_event \/ Len(chunks) = QueueSize THEN chunks ELSE Append(chunks, item)

PutUnstoppable(item, reached) ==
    /\ Len(chunks) < QueueSize
    /\ chunks' = Append(chunks, item)
    /\ producer' = reached

\* _put_stream_item, retried while the queue is full: the producer goes on to
\* `reached', or towards its end once stopped.
Put(item, reached) ==
    \/ /\ stop_event
       /\ producer' = IF reached = "dead" THEN "dead" ELSE "end"
       /\ UNCHANGED chunks
    \/ /\ ~ stop_event
       /\ Len(chunks) < QueueSize
       /\ chunks' = Append(chunks, item)
       /\ producer' = reached

PutChunk ==
    /\ producer = "feed"
    /\ queued < made
    /\ Put(queued + 1, "feed")
    /\ queued' = queued + 1
    /\ UNCHANGED <<handlerVars, made, stop_event, cameraVars, client>>

NextPayload ==
    /\ producer = "feed"
    /\ queued = made
    /\ producer' = "next"
    /\ UNCHANGED <<handlerVars, made, queued, chunks, stop_event, cameraVars, client>>

\* Mutant: the failure overtakes the chunks that are queued.
PutFaultFirst ==
    /\ producer = "fail"
    /\ Len(chunks) < QueueSize
    /\ chunks' = <<Fault>> \o chunks
    /\ producer' = "end"
    /\ UNCHANGED <<handlerVars, made, queued, stop_event, cameraVars, client>>

PutFault ==
    /\ producer = "fail"
    /\ Put(Fault, "end")
    /\ UNCHANGED <<handlerVars, made, queued, stop_event, cameraVars, client>>

PutEnd ==
    /\ producer = "end"
    /\ Put(End, "dead")
    /\ UNCHANGED <<handlerVars, made, queued, stop_event, cameraVars, client>>

(***************************************************************************)
(* The generator, as the producer runs it.                                  *)
(***************************************************************************)
\* A payload the parser may need more of before it can mux a chunk.
Payload ==
    /\ producer = "next"
    /\ session /\ routed
    /\ IF stop_event
       THEN producer' = "end" /\ UNCHANGED made
       ELSE /\ producer' = "feed"
            /\ made' \in {m \in made .. made + BurstSize : m <= MaxChunks}
    /\ UNCHANGED <<handlerVars, queued, chunks, stop_event, cameraVars, client>>

\* send() of the keepalive, every 0.75 s, calls ensure_connected().
KeepaliveReopens ==
    /\ producer = "next"
    /\ ~ session
    /\ session' = TRUE
    /\ UNCHANGED <<handlerVars, producerVars, chunks, stop_event, payloads, routed, client>>

\* A stalled or failed stream: reconnect() and a new exchange.
StreamReconnects ==
    /\ producer = "next"
    /\ session' = TRUE /\ routed' = TRUE
    /\ UNCHANGED <<handlerVars, producerVars, chunks, stop_event, payloads, client>>

\* reconnect() raised.
StreamFails ==
    /\ producer = "next"
    /\ payloads' = "finished" /\ session' \in BOOLEAN /\ routed' = FALSE
    /\ producer' = "fail"
    /\ UNCHANGED <<handlerVars, made, queued, chunks, stop_event, client>>

\* The frames that hold the generator are gone: its finally runs stop_stream(), whose
\* exchange calls ensure_connected(); what that raises is dropped.
FinalizeGenerator ==
    /\ payloads = "live"
    /\ handler = "done" /\ producer = "dead"
    /\ payloads' = "finished"
    /\ session' \in {session, TRUE}
    /\ UNCHANGED <<handlerVars, producerVars, chunks, stop_event, routed, client>>

ClientStalls ==
    /\ client = "here"
    /\ client' = "stalled"
    /\ UNCHANGED <<handlerVars, producerVars, chunks, stop_event, cameraVars>>

ClientLeaves ==
    /\ client # "gone"
    /\ client' = "gone"
    /\ UNCHANGED <<handlerVars, producerVars, chunks, stop_event, cameraVars>>

Handler ==
    \/ OpenCamera \/ OpenFails \/ BufferInitialVideo \/ BufferingFails \/ SendHeaders
    \/ ServeItem \/ ServeNull \/ StopProducer \/ JoinProducer \/ CloseCamera

Producer == PutChunk \/ NextPayload \/ PutFault \/ PutEnd

Generator == Payload \/ KeepaliveReopens \/ StreamReconnects \/ StreamFails

Next == Handler \/ Producer \/ Generator \/ FinalizeGenerator \/ ClientStalls \/ ClientLeaves

Spec == Init /\ [][Next]_vars

(***************************************************************************)
(* Fairness.  Both threads run, and their waits have timeouts but for the    *)
(* one for a keyframe and that of a write to a client which reads no more;   *)
(* a stream without payloads is replaced after stall_timeout, and an open    *)
(* one carries payloads.                                                    *)
(***************************************************************************)
Fairness ==
    /\ WF_vars(handler # "buffer" /\ ~ (handler = "serve" /\ client = "stalled") /\ Handler)
    /\ WF_vars(Producer)
    /\ WF_vars(Payload)
    /\ WF_vars((~ routed \/ ~ session) /\ (StreamReconnects \/ StreamFails))

FairSpec == Spec /\ Fairness

-----------------------------------------------------------------------------
(***************************************************************************)
(* Properties.                                                              *)
(***************************************************************************)

\* The abstract stream: the chunks muxed so far, and the bursts it may grow by.
Muxed == [k \in 1 .. made |-> k]
Bursts == {[k \in 1 .. n |-> from + k] : from \in 0 .. MaxChunks, n \in 1 .. BurstSize}

\* What the client is sent is the muxed stream: no chunk is lost in a full queue,
\* repeated or reordered, however the two threads interleave.
Stream == INSTANCE OrderedStream WITH
    Message   <- Bursts,
    written   <- Muxed,
    position  <- Len(written),
    delivered <- written,
    lossy     <- FALSE

ImplementsStream == Stream!Spec

\* A failure of the camera is reported behind the video that preceded it: a client that
\* stayed has been sent every chunk muxed before the stream ended.
NothingCutOff ==
    client # "gone" /\ handler \in {"stop", "join", "close", "done"} => Len(written) = made

\* The handler's end leaves nothing unsent, and the queue keeps to its bound.
HandlerInv == TypeOK /\ NothingCutOff

\* A client that leaves, or whose producer has died, does not hold its thread: even
\* while the camera is silent the null packets find out.  One that stays connected and
\* reads no more does, until it goes.
HandlerEnds ==
    (handler = "serve" /\ started /\ client = "gone") \/ producer = "dead"
        ~> handler = "done" \/ client = "stalled"

\* Once told to stop, the producer ends, also when it is blocked on a full queue or
\* the camera has been closed under it.
ProducerStops == stop_event ~> producer = "dead"

\* Both threads end.
ThreadsEnd == HandlerEnds /\ ProducerStops

\* "opens a `Camera` context" (docs/07-media-and-streaming.md:82): when the handler, its
\* producer and its generator are all done, the camera is not left connected.
CameraReleased ==
    handler = "done" /\ producer \in {"none", "dead"} /\ payloads # "live" => ~ session

=============================================================================
