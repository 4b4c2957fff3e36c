----------------------------- MODULE UdpReceiver -----------------------------
(***************************************************************************)
(* The inbound half of UdpBcConnection (core/udp_transport.py): the receive *)
(* worker that drains the UDP socket, reorders chunks and drops duplicates, *)
(* the ACKs sent back to the camera, and the reader blocked in recv() on    *)
(* the condition variable _data_ready.                                      *)
(*                                                                         *)
(* A chunk's bytes are abstracted to the datagram that carried them, so two *)
(* chunks with different ids or of different connections have different     *)
(* contents.  recv() cuts the buffer at a chunk boundary here.              *)
(*                                                                         *)
(* The camera is external: it numbers its chunks from 0, keeps a chunk until *)
(* an ACK covers it and may send it again until then.  The network loses,   *)
(* duplicates and reorders datagrams, and may deliver datagrams of another  *)
(* connection.                                                              *)
(***************************************************************************)
EXTENDS Integers, Sequences, FiniteSets

CONSTANTS
    ConnId,         \* connection ids carried by data packets
    ClientId,       \* self.client_id
    ForeignIds,     \* bound: ids of the other connections' chunks that turn up here
    MaxChunks,      \* bound: chunks the camera sends
    MaxAcks,        \* bound: ACKs in flight at a time
    NoAck,          \* the packet id 0xFFFFFFFF, larger than every real id
    NoLimit,        \* max_pending_chunks = None
    Limits          \* the values given to set_max_pending_chunks

ASSUME ReceiverAssumption ==
    /\ ClientId \in ConnId
    /\ ForeignIds \subseteq 0 .. MaxChunks - 1
    /\ MaxChunks \in Nat
    /\ MaxAcks \in Nat
    /\ NoAck \in Nat /\ NoAck > MaxChunks
    /\ NoLimit \notin Nat
    /\ Limits \subseteq Nat \cup {NoLimit}

VARIABLES
    \* UdpBcConnection
    next_recv_id, recv_chunks, buffer, max_pending_chunks,
    max_data_packet_id,         \* -1 stands for None
    closed, receive_stop, receive_error,
    worker,                     \* the receive thread
    reader,                     \* the thread inside recv()
    consumed,                   \* history: what recv() has returned
    \* the network and the camera (external)
    datagrams, acks, cam_next, cam_unacked

connVars == <<next_recv_id, recv_chunks, buffer, max_pending_chunks, max_data_packet_id>>
lifeVars == <<closed, receive_stop, receive_error, worker>>
readVars == <<reader, consumed>>
envVars  == <<datagrams, acks, cam_next, cam_unacked>>
vars     == <<connVars, lifeVars, readVars, envVars>>

ChunkId == 0 .. MaxChunks - 1
Packet  == [conn : ConnId, id : ChunkId]
Ack     == [cum : ChunkId \cup {NoAck}, sel : SUBSET ChunkId]

Chunk(i) == [conn |-> ClientId, id |-> i]

TypeOK ==
    /\ next_recv_id \in 0 .. MaxChunks
    /\ DOMAIN recv_chunks \subseteq ChunkId
    /\ \A i \in DOMAIN recv_chunks : recv_chunks[i] \in Packet
    /\ buffer \in Seq(Packet)
    /\ max_pending_chunks \in Limits
    /\ max_data_packet_id \in -1 .. MaxChunks - 1
    /\ closed \in BOOLEAN
    /\ receive_stop \in BOOLEAN
    /\ receive_error \in {"none", "timeout", "os"}
    /\ worker \in {"none", "loop", "recv", "timeout", "os"}
    /\ reader \in {"idle", "ready", "asleep"}
    /\ consumed \in Seq(Packet)
    /\ datagrams \subseteq Packet
    /\ acks \subseteq Ack
    /\ cam_next \in 0 .. MaxChunks
    /\ cam_unacked \subseteq ChunkId

Init ==
    /\ next_recv_id = 0
    /\ recv_chunks = [i \in {} |-> Chunk(i)]
    /\ buffer = <<>>
    /\ max_pending_chunks \in Limits
    /\ max_data_packet_id = -1
    /\ closed = FALSE
    /\ receive_stop = FALSE
    /\ receive_error = "none"
    /\ worker = "loop"
    /\ reader = "idle"
    /\ consumed = <<>>
    /\ datagrams = {}
    /\ acks = {}
    /\ cam_next = 0
    /\ cam_unacked = {}

(***************************************************************************)
(* _data_ready.notify_all(): the thread waiting in recv() runs again.       *)
(***************************************************************************)
NotifyAll == reader' = IF reader = "asleep" THEN "ready" ELSE reader
NotifyNone == reader' = reader

(***************************************************************************)
(* The receive worker.  _receive_loop tests the stop event and `closed',    *)
(* then calls _recv_one; an exception of _recv_one ends the thread.         *)
(***************************************************************************)
ReceiveLoopEnter ==
    /\ worker = "loop"
    /\ worker' = IF receive_stop \/ closed THEN "none" ELSE "recv"
    /\ UNCHANGED <<connVars, closed, receive_stop, receive_error, readVars, envVars>>

ReceiveNothing ==       \* recvfrom timed out
    /\ worker = "recv"
    /\ worker' = "loop"
    /\ UNCHANGED <<connVars, closed, receive_stop, receive_error, readVars, envVars>>

ReceiveFails ==         \* recvfrom raised OSError
    /\ worker = "recv"
    /\ worker' = "os"
    /\ UNCHANGED <<connVars, closed, receive_stop, receive_error, readVars, envVars>>

\* The datagram leaves the network, or a duplicate of it stays behind.
Take(p) == datagrams' \in {datagrams, datagrams \ {p}}

\* Mutant: the next expected id counts as already passed.
IsDuplicateOffByOne(i) == i \in DOMAIN recv_chunks \/ i <= next_recv_id

IsDuplicate(i) == i \in DOMAIN recv_chunks \/ i < next_recv_id

\* Mutant: the connection id is not compared.
IsIgnoredAnyConnection(p) == IsDuplicate(p.id)

IsIgnored(p) == p.conn # ClientId \/ IsDuplicate(p.id)

ReceiveIgnored(p) ==
    /\ worker = "recv"
    /\ IsIgnored(p)
    /\ Take(p)
    /\ worker' = "loop"
    /\ UNCHANGED <<connVars, closed, receive_stop, receive_error, readVars,
                   acks, cam_next, cam_unacked>>

Held == DOMAIN recv_chunks

WithChunk(p) ==
    [i \in Held \cup {p.id} |-> IF i = p.id THEN p ELSE recv_chunks[i]]

Overflows(p) ==
    /\ max_pending_chunks # NoLimit
    /\ Cardinality(Held \cup {p.id}) > max_pending_chunks

\* The loop that stops at the first id from `first' on that is not held.
IsFirstMissing(m, first, held) ==
    /\ m >= first
    /\ m \notin held
    /\ first .. m - 1 \subseteq held

\* Moves the contiguous chunks to the buffer: next_recv_id becomes `m'.
Drain(chunks, m) ==
    /\ buffer' = buffer \o [k \in 1 .. m - next_recv_id |-> chunks[next_recv_id + k - 1]]
    /\ recv_chunks' = [i \in DOMAIN chunks \ (next_recv_id .. m - 1) |-> chunks[i]]
    /\ next_recv_id' = m

ReceiveChunk(p) ==
    /\ worker = "recv"
    /\ ~ IsIgnored(p)
    /\ ~ Overflows(p)
    /\ Take(p)
    /\ max_data_packet_id' = IF p.id > max_data_packet_id THEN p.id ELSE max_data_packet_id
    /\ \E m \in next_recv_id .. MaxChunks :
          /\ IsFirstMissing(m, next_recv_id, Held \cup {p.id})
          /\ Drain(WithChunk(p), m)
    /\ IF buffer' # <<>> THEN NotifyAll ELSE NotifyNone
    /\ worker' = "loop"
    /\ UNCHANGED <<max_pending_chunks, closed, receive_stop, receive_error, consumed,
                   acks, cam_next, cam_unacked>>

\* _raise_if_pending_overflow, called before the drain.
ReceiveOverflow(p) ==
    /\ worker = "recv"
    /\ ~ IsIgnored(p)
    /\ Overflows(p)
    /\ Take(p)
    /\ max_data_packet_id' = IF p.id > max_data_packet_id THEN p.id ELSE max_data_packet_id
    /\ recv_chunks' = [i \in {} |-> p]
    /\ buffer' = <<>>
    /\ next_recv_id' = max_data_packet_id' + 1
    /\ worker' = "timeout"
    /\ UNCHANGED <<max_pending_chunks, closed, receive_stop, receive_error, readVars,
                   acks, cam_next, cam_unacked>>

\* Mutant: the error is recorded without waking the reader.
ReceiveLoopFailsSilently ==
    /\ worker \in {"timeout", "os"}
    /\ receive_error' = IF closed \/ receive_stop THEN receive_error ELSE worker
    /\ worker' = "none"
    /\ UNCHANGED <<connVars, closed, receive_stop, readVars, envVars>>

\* The except clause of _receive_loop.
ReceiveLoopFails ==
    /\ worker \in {"timeout", "os"}
    /\ IF closed \/ receive_stop
       THEN UNCHANGED <<receive_error, reader>>
       ELSE receive_error' = worker /\ NotifyAll
    /\ worker' = "none"
    /\ UNCHANGED <<connVars, closed, receive_stop, consumed, envVars>>

StartReceiver ==
    /\ ~ closed
    /\ worker = "none"
    /\ receive_error' = "none"
    /\ receive_stop' = FALSE
    /\ worker' = "loop"
    /\ UNCHANGED <<connVars, closed, readVars, envVars>>

StopReceiver ==
    /\ ~ receive_stop
    /\ receive_stop' = TRUE
    /\ NotifyAll
    /\ UNCHANGED <<connVars, closed, receive_error, worker, consumed, envVars>>

\* close() up to stop_receiver; closing the socket is external.
Close ==
    /\ ~ closed
    /\ closed' = TRUE
    /\ receive_stop' = TRUE
    /\ NotifyAll
    /\ UNCHANGED <<connVars, receive_error, worker, consumed, envVars>>

(***************************************************************************)
(* The reader: _recv_buffered.  Every test is made with the state lock      *)
(* held, wait() releases it.                                                *)
(***************************************************************************)
Recv ==
    /\ reader = "idle"
    /\ reader' = "ready"
    /\ UNCHANGED <<connVars, lifeVars, consumed, envVars>>

RecvReturns ==
    /\ reader = "ready"
    /\ \E n \in 1 .. Len(buffer) :
          /\ consumed' = consumed \o SubSeq(buffer, 1, n)
          /\ buffer' = SubSeq(buffer, n + 1, Len(buffer))
    /\ reader' = "idle"
    /\ UNCHANGED <<next_recv_id, recv_chunks, max_pending_chunks, max_data_packet_id,
                   lifeVars, envVars>>

\* Raises _receive_error, or TimeoutError once the deadline has passed.
RecvRaises ==
    /\ reader = "ready"
    /\ buffer = <<>>
    /\ reader' = "idle"
    /\ UNCHANGED <<connVars, lifeVars, consumed, envVars>>

RecvWaits ==
    /\ reader = "ready"
    /\ buffer = <<>>
    /\ receive_error = "none"
    /\ reader' = "asleep"
    /\ UNCHANGED <<connVars, lifeVars, consumed, envVars>>

RecvWaitExpires ==
    /\ reader = "asleep"
    /\ reader' = "ready"
    /\ UNCHANGED <<connVars, lifeVars, consumed, envVars>>

(***************************************************************************)
(* ACKs.  _send_ack takes the ACK state under the lock and sends it after   *)
(* releasing the lock, from the worker or from the maintenance thread;      *)
(* since the network reorders ACKs, sending in the same step loses nothing. *)
(***************************************************************************)
\* Mutants: no sentinel while nothing has arrived; the first missing id acknowledged.
AckStateNoSentinel(first_missing) ==
    [cum |-> first_missing - 1, sel |-> {i \in Held : i >= first_missing}]

AckStateOffByOne(first_missing) ==
    [cum |-> first_missing, sel |-> {i \in Held : i >= first_missing}]

AckState(first_missing) ==
    IF next_recv_id = 0
    THEN [cum |-> NoAck, sel |-> {}]
    ELSE [cum |-> first_missing - 1, sel |-> {i \in Held : i >= first_missing}]

SendAck ==
    /\ ~ closed
    /\ Cardinality(acks) < MaxAcks
    /\ \E m \in next_recv_id .. MaxChunks :
          /\ IsFirstMissing(m, next_recv_id, Held)
          /\ acks' = acks \cup {AckState(m)}
    /\ UNCHANGED <<connVars, lifeVars, readVars, datagrams, cam_next, cam_unacked>>

(***************************************************************************)
(* The camera and the network.  A copy the network loses is one that never  *)
(* enters `datagrams'; an ACK in `acks' is consumed, repeated or lost.      *)
(***************************************************************************)
CameraSend ==
    /\ cam_next < MaxChunks
    /\ datagrams' \in {datagrams, datagrams \cup {Chunk(cam_next)}}
    /\ cam_unacked' = cam_unacked \cup {cam_next}
    /\ cam_next' = cam_next + 1
    /\ UNCHANGED <<connVars, lifeVars, readVars, acks>>

CameraResend(i) ==
    /\ i \in cam_unacked
    /\ datagrams' = datagrams \cup {Chunk(i)}
    /\ UNCHANGED <<connVars, lifeVars, readVars, acks, cam_next, cam_unacked>>

Covered(a) ==
    IF a.cum = NoAck THEN {} ELSE (0 .. a.cum) \cup a.sel

CameraAck(a) ==
    /\ cam_unacked' = cam_unacked \ Covered(a)
    /\ acks' \in {acks, acks \ {a}}
    /\ UNCHANGED <<connVars, lifeVars, readVars, datagrams, cam_next>>

ForeignData(p) ==
    /\ p.conn # ClientId
    /\ p.id \in ForeignIds
    /\ datagrams' = datagrams \cup {p}
    /\ UNCHANGED <<connVars, lifeVars, readVars, acks, cam_next, cam_unacked>>

LoseAck(a) ==
    /\ acks' = acks \ {a}
    /\ UNCHANGED <<connVars, lifeVars, readVars, datagrams, cam_next, cam_unacked>>

Worker ==
    \/ ReceiveLoopEnter
    \/ ReceiveNothing
    \/ ReceiveFails
    \/ \E p \in datagrams : ReceiveIgnored(p) \/ ReceiveChunk(p) \/ ReceiveOverflow(p)
    \/ ReceiveLoopFails

Reader == Recv \/ RecvReturns \/ RecvRaises \/ RecvWaits \/ RecvWaitExpires

\* Once the connection is closed nothing the camera does can be observed.
Environment ==
    /\ ~ closed
    /\ \/ CameraSend
       \/ \E i \in ChunkId : CameraResend(i)
       \/ \E a \in acks : CameraAck(a) \/ LoseAck(a)
       \/ \E p \in Packet : ForeignData(p)

Next == Worker \/ Reader \/ StartReceiver \/ StopReceiver \/ Close \/ SendAck \/ Environment

Spec == Init /\ [][Next]_vars

(***************************************************************************)
(* Fairness.  The worker and a reader are threads the OS runs; the reader's *)
(* caller (the dispatcher) calls recv() again; the camera repeats what is   *)
(* not acknowledged, and the network does not lose every copy of it.        *)
(***************************************************************************)
Fairness ==
    /\ WF_vars(ReceiveLoopEnter)
    /\ WF_vars(ReceiveLoopFails)
    /\ WF_vars(Reader)
    /\ \A i \in ChunkId : WF_vars(~ closed /\ CameraResend(i))
    /\ \A i \in ChunkId : SF_vars(Chunk(i) \in datagrams /\ ReceiveChunk(Chunk(i)))

FairSpec == Spec /\ Fairness

-----------------------------------------------------------------------------
(***************************************************************************)
(* Properties.                                                              *)
(***************************************************************************)

\* The inbound half is an ordered stream of the camera's chunks: recv() hands
\* them out in order, once each, none of another connection, and with no
\* gap unless max_pending_chunks is set (docs/05: "recv() reassembles chunks
\* in order using next_recv_id").
Stream == INSTANCE OrderedStream WITH
    Message   <- {<<Chunk(i)>> : i \in ChunkId},
    written   <- [k \in 1 .. cam_next |-> Chunk(k - 1)],
    position  <- IF consumed = <<>> THEN 0 ELSE consumed[Len(consumed)].id + 1,
    delivered <- consumed,
    lossy     <- max_pending_chunks # NoLimit

ImplementsStream == Stream!Spec

\* The camera drops a chunk once an ACK covers it, so an ACK, however late or
\* reordered, may only cover chunks this side holds or has passed: every chunk
\* sent is still with the camera or already here.
NoChunkForgotten ==
    \A i \in 0 .. cam_next - 1 : i \in cam_unacked \/ i \in Held \/ i < next_recv_id

\* A thread asleep in recv() has nothing to wake up for: every step that fills
\* the buffer or ends the worker with an error notifies it.
NoLostWakeup == reader = "asleep" => buffer = <<>> /\ receive_error = "none"

\* The reordering buffer never holds more chunks than max_pending_chunks.
PendingBounded ==
    max_pending_chunks # NoLimit => Cardinality(Held) <= max_pending_chunks

\* Whatever datagrams are lost, the reader catches up with the camera again and
\* again, unless the worker was stopped, failed, or may skip chunks.
Interrupted ==
    closed \/ receive_stop \/ receive_error # "none" \/ max_pending_chunks # NoLimit

CaughtUp == consumed = [k \in 1 .. cam_next |-> Chunk(k - 1)]

ReaderCatchesUp == []<>(Interrupted \/ CaughtUp)

=============================================================================
