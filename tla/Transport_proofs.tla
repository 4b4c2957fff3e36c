--------------------------- MODULE Transport_proofs ---------------------------
(***************************************************************************)
(* Machine-checked proofs about UdpReceiver, for every number of chunks,    *)
(* every limit and every choice of connection ids, and about                *)
(* ConnectionSetup, for any number of processes, names, attempts and faults: *)
(* whom a socket reaches, and what the state file holds.                    *)
(***************************************************************************)
EXTENDS UdpReceiver, ConnectionSetup, SequenceTheorems, FiniteSetTheorems, TLAPS

(***************************************************************************)
(* The inductive invariant.                                                 *)
(***************************************************************************)

\* Only chunks the camera has sent are in the network under this connection id,
\* or repeated by the camera.
DataSent ==
    /\ \A p \in datagrams : p.conn = ClientId => p.id < cam_next
    /\ \A i \in cam_unacked : i < cam_next

\* The reordering buffer holds chunks under their own ids, all of them beyond
\* next_recv_id, and max_data_packet_id bounds them.
PendingInv ==
    /\ \A i \in Held : recv_chunks[i] = Chunk(i) /\ i > next_recv_id /\ i <= max_data_packet_id
    /\ max_data_packet_id < cam_next
    /\ next_recv_id <= max_data_packet_id + 1

\* The assembled buffer is the run of chunks that ends just before next_recv_id.
BufferInv ==
    /\ Len(buffer) <= next_recv_id
    /\ \A k \in 1 .. Len(buffer) : buffer[k] = Chunk(next_recv_id - Len(buffer) + k - 1)

\* An ACK in flight covers only chunks that have arrived here.
AcksInv ==
    \A a \in acks :
        /\ a.cum # NoAck => a.cum < next_recv_id
        /\ \A i \in a.sel : i \in Held \/ i < next_recv_id

IInv == TypeOK /\ DataSent /\ PendingInv /\ BufferInv /\ AcksInv /\ NoChunkForgotten

USE ReceiverAssumption

LEMMA InitIInv == Init => IInv
<1> SUFFICES ASSUME Init PROVE IInv
  OBVIOUS
<1>1. Held = {}
  BY DEF Init, Held
<1>2. TypeOK
  <2>1. recv_chunks = [i \in {} |-> Chunk(i)] /\ DOMAIN recv_chunks = {}
    BY DEF Init
  <2>2. <<>> \in Seq(Packet)
    BY EmptySeq
  <2>3. max_data_packet_id \in -1 .. MaxChunks - 1 /\ next_recv_id \in 0 .. MaxChunks
        /\ cam_next \in 0 .. MaxChunks
    BY DEF Init
  <2>4. buffer \in Seq(Packet) /\ consumed \in Seq(Packet)
    BY <2>2 DEF Init
  <2>5. DOMAIN recv_chunks \subseteq ChunkId /\ \A i \in DOMAIN recv_chunks : recv_chunks[i] \in Packet
    BY <2>1
  <2> QED BY <2>3, <2>4, <2>5 DEF Init, TypeOK
<1>3. BufferInv
  BY DEF Init, BufferInv
<1> QED BY <1>1, <1>2, <1>3 DEF Init, IInv, DataSent, PendingInv, AcksInv, NoChunkForgotten

LEMMA ReceiveChunkIInv ==
  ASSUME IInv, NEW p \in datagrams, ReceiveChunk(p)
  PROVE  IInv' /\ next_recv_id' - Len(buffer') = next_recv_id - Len(buffer)
<1> USE DEF IInv
<1> PICK m \in next_recv_id .. MaxChunks :
        /\ IsFirstMissing(m, next_recv_id, Held \cup {p.id})
        /\ Drain(WithChunk(p), m)
  BY DEF ReceiveChunk
<1>1. /\ p \in Packet /\ p.conn = ClientId /\ p.id \in ChunkId /\ p.id < cam_next
      /\ p = Chunk(p.id) /\ p.id \notin Held /\ p.id >= next_recv_id
      /\ next_recv_id \in 0 .. MaxChunks /\ m \in 0 .. MaxChunks
      /\ cam_next \in 0 .. MaxChunks /\ max_data_packet_id \in -1 .. MaxChunks - 1
  BY DEF ReceiveChunk, IsIgnored, IsDuplicate, TypeOK, DataSent, Packet, Chunk, ChunkId, Held
<1>2. /\ UNCHANGED <<max_pending_chunks, closed, receive_stop, receive_error, consumed,
                     acks, cam_next, cam_unacked>>
      /\ datagrams' \subseteq datagrams
      /\ worker' = "loop"
      /\ reader' \in {"idle", "ready", "asleep"}
      /\ max_data_packet_id' = IF p.id > max_data_packet_id THEN p.id ELSE max_data_packet_id
      /\ next_recv_id' = m
  BY DEF ReceiveChunk, Take, NotifyAll, NotifyNone, TypeOK, Drain
<1>3. /\ m \notin Held \cup {p.id}
      /\ \A i \in next_recv_id .. m - 1 : i \in Held \cup {p.id}
  BY DEF IsFirstMissing
<1>4. \A i \in Held \cup {p.id} : WithChunk(p)[i] = Chunk(i)
  BY <1>1 DEF WithChunk, PendingInv
<1>5. /\ Held' = (Held \cup {p.id}) \ (next_recv_id .. m - 1)
      /\ \A i \in Held' : recv_chunks'[i] = Chunk(i)
  BY <1>4 DEF Drain, Held, WithChunk
<1>6. Held \subseteq ChunkId
  BY DEF TypeOK, Held
<1>7. \A i \in ChunkId : Chunk(i) \in Packet
  BY DEF Chunk, Packet
<1>8. \A i \in Held' : i > m /\ i \in ChunkId
  BY <1>1, <1>3, <1>5, <1>6 DEF PendingInv, ChunkId
<1>9. m <= max_data_packet_id' + 1
  BY <1>1, <1>2, <1>3, <1>6 DEF PendingInv, ChunkId
<1>10. TypeOK'
  <2>1. buffer' \in Seq(Packet)
    <3> DEFINE more == [k \in 1 .. m - next_recv_id |-> WithChunk(p)[next_recv_id + k - 1]]
    <3>1. \A k \in 1 .. m - next_recv_id : more[k] \in Packet
      BY <1>1, <1>3, <1>4, <1>6, <1>7 DEF ChunkId
    <3>2. m - next_recv_id \in Nat
      BY <1>1
    <3>3. more \in Seq(Packet)
      BY <3>1, <3>2
    <3> QED BY <3>3 DEF Drain, TypeOK
  <2>2. \A i \in DOMAIN recv_chunks' : recv_chunks'[i] \in Packet
    BY <1>5, <1>7, <1>8 DEF Held
  <2> QED BY <1>1, <1>2, <1>5, <1>8, <2>1, <2>2 DEF TypeOK, Held, ChunkId
<1>11. DataSent'
  BY <1>2 DEF DataSent
<1>12. PendingInv'
  <2>1. max_data_packet_id' < cam_next'
    BY <1>1, <1>2 DEF PendingInv
  <2>2. \A i \in Held' : i <= max_data_packet_id'
    BY <1>1, <1>2, <1>5, <1>6 DEF PendingInv, ChunkId
  <2> QED BY <1>2, <1>5, <1>8, <1>9, <2>1, <2>2 DEF PendingInv
<1>13. BufferInv' /\ next_recv_id' - Len(buffer') = next_recv_id - Len(buffer)
  <2> DEFINE more == [k \in 1 .. m - next_recv_id |-> WithChunk(p)[next_recv_id + k - 1]]
  <2>1. more \in Seq(Packet) /\ Len(more) = m - next_recv_id
    <3>1. \A k \in 1 .. m - next_recv_id : more[k] \in Packet
      BY <1>1, <1>3, <1>4, <1>6, <1>7 DEF ChunkId
    <3>2. m - next_recv_id \in Nat
      BY <1>1
    <3>3. more \in [1 .. m - next_recv_id -> Packet]
      BY <3>1
    <3> QED BY <3>2, <3>3
  <2>2. \A k \in 1 .. Len(more) : more[k] = Chunk(next_recv_id + k - 1)
    BY <1>1, <1>3, <1>4, <2>1
  <2>3. buffer' = buffer \o more /\ buffer \in Seq(Packet)
    BY DEF Drain, TypeOK
  <2> HIDE DEF more
  <2>4. Len(buffer') = Len(buffer) + Len(more)
    BY <2>1, <2>3, ConcatProperties
  <2>5. \A k \in 1 .. Len(buffer') :
           buffer'[k] = IF k <= Len(buffer) THEN buffer[k] ELSE more[k - Len(buffer)]
    BY <2>1, <2>3, <2>4, ConcatProperties
  <2>6. Len(buffer) \in Nat
    BY <2>3
  <2>7. next_recv_id' - Len(buffer') = next_recv_id - Len(buffer)
    BY <1>1, <1>2, <2>1, <2>4, <2>6
  <2> QED BY <1>1, <1>2, <2>1, <2>2, <2>4, <2>5, <2>6, <2>7 DEF BufferInv
<1>14. \A i \in ChunkId : i \in Held \/ i < next_recv_id => i \in Held' \/ i < next_recv_id'
  BY <1>1, <1>2, <1>5 DEF ChunkId
<1>15. AcksInv'
  BY <1>1, <1>2, <1>14 DEF AcksInv, TypeOK, Ack, ChunkId
<1>16. NoChunkForgotten'
  BY <1>1, <1>2, <1>14 DEF NoChunkForgotten, TypeOK, ChunkId
<1> QED BY <1>10, <1>11, <1>12, <1>13, <1>15, <1>16

LEMMA ReceiveOverflowIInv ==
  ASSUME IInv, NEW p \in datagrams, ReceiveOverflow(p)
  PROVE  /\ IInv'
         /\ max_pending_chunks # NoLimit
         /\ next_recv_id' - Len(buffer') >= next_recv_id - Len(buffer)
<1> USE DEF IInv
<1>1. /\ p \in Packet /\ p.conn = ClientId /\ p.id \in ChunkId /\ p.id < cam_next
      /\ p.id >= next_recv_id
      /\ next_recv_id \in 0 .. MaxChunks
      /\ cam_next \in 0 .. MaxChunks /\ max_data_packet_id \in -1 .. MaxChunks - 1
  BY DEF ReceiveOverflow, IsIgnored, IsDuplicate, TypeOK, DataSent, Packet, ChunkId, Held
<1>2. /\ UNCHANGED <<max_pending_chunks, closed, receive_stop, receive_error, reader, consumed,
                     acks, cam_next, cam_unacked>>
      /\ datagrams' \subseteq datagrams
      /\ worker' = "timeout"
      /\ max_data_packet_id' = IF p.id > max_data_packet_id THEN p.id ELSE max_data_packet_id
      /\ next_recv_id' = max_data_packet_id' + 1
      /\ buffer' = <<>>
      /\ Held' = {} /\ DOMAIN recv_chunks' = {}
  BY DEF ReceiveOverflow, Take, readVars, Held
<1>3. TypeOK'
  <2>1. <<>> \in Seq(Packet)
    BY EmptySeq
  <2> QED BY <1>1, <1>2, <2>1 DEF TypeOK, ChunkId
<1>4. DataSent'
  BY <1>2 DEF DataSent
<1>5. PendingInv'
  BY <1>1, <1>2 DEF PendingInv
<1>6. BufferInv'
  BY <1>1, <1>2, EmptySeq DEF BufferInv, ChunkId
<1>7. \A i \in ChunkId : i \in Held \/ i < next_recv_id => i < next_recv_id'
  BY <1>1, <1>2 DEF PendingInv, ChunkId
<1>8. AcksInv'
  BY <1>1, <1>2, <1>7 DEF AcksInv, TypeOK, Ack, ChunkId
<1>9. NoChunkForgotten'
  BY <1>1, <1>2, <1>7 DEF NoChunkForgotten, TypeOK, ChunkId
<1>10. next_recv_id' - Len(buffer') >= next_recv_id - Len(buffer)
  <2>1. Len(buffer') = 0 /\ Len(buffer) \in Nat
    BY <1>2, EmptySeq DEF TypeOK
  <2>2. next_recv_id' >= next_recv_id
    BY <1>1, <1>2 DEF PendingInv, ChunkId
  <2>3. next_recv_id' \in Int
    BY <1>3 DEF TypeOK
  <2> QED BY <1>1, <2>1, <2>2, <2>3
<1>11. max_pending_chunks # NoLimit
  BY DEF ReceiveOverflow, Overflows
<1> QED BY <1>3, <1>4, <1>5, <1>6, <1>8, <1>9, <1>10, <1>11

\* What recv() returns and what it leaves in the buffer.
LEMMA RecvReturnsSplit ==
  ASSUME TypeOK, NEW n \in 1 .. Len(buffer)
  PROVE  LET front == SubSeq(buffer, 1, n)
             rest  == SubSeq(buffer, n + 1, Len(buffer))
         IN  /\ front \in Seq(Packet) /\ Len(front) = n
             /\ \A k \in 1 .. n : front[k] = buffer[k]
             /\ rest \in Seq(Packet) /\ Len(rest) = Len(buffer) - n
             /\ \A k \in 1 .. Len(buffer) - n : rest[k] = buffer[n + k]
<1>1. /\ buffer \in Seq(Packet) /\ Len(buffer) \in Nat
      /\ \A i \in 1 .. Len(buffer) : buffer[i] \in Packet
  BY DEF TypeOK
<1>2. /\ SubSeq(buffer, 1, n) \in Seq(Packet)
      /\ Len(SubSeq(buffer, 1, n)) = n
      /\ \A k \in 1 .. n : SubSeq(buffer, 1, n)[k] = buffer[k]
  <2>1. \A i \in 1 .. n : buffer[i] \in Packet
    BY <1>1
  <2> QED BY <1>1, <2>1, SubSeqProperties
<1>3. /\ SubSeq(buffer, n + 1, Len(buffer)) \in Seq(Packet)
      /\ Len(SubSeq(buffer, n + 1, Len(buffer))) = Len(buffer) - n
      /\ \A k \in 1 .. Len(buffer) - n : SubSeq(buffer, n + 1, Len(buffer))[k] = buffer[n + k]
  <2>1. \A i \in n + 1 .. Len(buffer) : buffer[i] \in Packet
    BY <1>1
  <2>2. n + 1 \in Int /\ Len(buffer) \in Int
    BY <1>1
  <2> HIDE <1>1
  <2>3. /\ SubSeq(buffer, n + 1, Len(buffer)) \in Seq(Packet)
        /\ Len(SubSeq(buffer, n + 1, Len(buffer)))
             = IF n + 1 <= Len(buffer) THEN Len(buffer) - (n + 1) + 1 ELSE 0
        /\ \A k \in 1 .. Len(buffer) - (n + 1) + 1 :
               SubSeq(buffer, n + 1, Len(buffer))[k] = buffer[n + 1 + k - 1]
    BY <2>1, <2>2, SubSeqProperties
  <2> QED BY <1>1, <2>3
<1> QED BY <1>2, <1>3

LEMMA RecvReturnsIInv == IInv /\ RecvReturns => IInv'
<1> SUFFICES ASSUME IInv, RecvReturns PROVE IInv'
  OBVIOUS
<1> USE DEF IInv
<1>0. PICK n \in 1 .. Len(buffer) :
        /\ consumed' = consumed \o SubSeq(buffer, 1, n)
        /\ buffer' = SubSeq(buffer, n + 1, Len(buffer))
  BY DEF RecvReturns
<1>1. UNCHANGED <<next_recv_id, recv_chunks, max_pending_chunks, max_data_packet_id,
                  lifeVars, envVars>> /\ reader' = "idle"
  BY DEF RecvReturns
<1>2. /\ SubSeq(buffer, 1, n) \in Seq(Packet)
      /\ buffer' \in Seq(Packet) /\ Len(buffer') = Len(buffer) - n
      /\ \A k \in 1 .. Len(buffer) - n : buffer'[k] = buffer[n + k]
  BY <1>0, RecvReturnsSplit
<1>3. consumed' \in Seq(Packet)
  BY <1>0, <1>2, ConcatProperties DEF TypeOK
<1>4. TypeOK'
  BY <1>1, <1>2, <1>3 DEF TypeOK, lifeVars, envVars
<1>5. BufferInv'
  <2>1. Len(buffer) \in Nat /\ next_recv_id \in Nat
    BY DEF TypeOK
  <2>2. ASSUME NEW k \in 1 .. Len(buffer')
        PROVE  buffer'[k] = Chunk(next_recv_id - Len(buffer') + k - 1)
    <3>1. n + k \in 1 .. Len(buffer) /\ buffer'[k] = buffer[n + k]
      BY <1>2, <2>1
    <3>2. buffer[n + k] = Chunk(next_recv_id - Len(buffer) + (n + k) - 1)
      BY <3>1 DEF BufferInv
    <3>3. next_recv_id - Len(buffer) + (n + k) - 1 = next_recv_id - Len(buffer') + k - 1
      BY <1>2, <2>1
    <3> QED BY <3>1, <3>2, <3>3
  <2>3. next_recv_id' = next_recv_id /\ Len(buffer') <= next_recv_id
    BY <1>1, <1>2, <2>1 DEF BufferInv
  <2> QED BY <2>2, <2>3 DEF BufferInv
<1> QED BY <1>1, <1>4, <1>5 DEF DataSent, PendingInv, AcksInv, NoChunkForgotten, Held, envVars

LEMMA SendAckIInv == IInv /\ SendAck => IInv'
<1> SUFFICES ASSUME IInv, SendAck PROVE IInv'
  OBVIOUS
<1> USE DEF IInv
<1> PICK m \in next_recv_id .. MaxChunks :
        /\ IsFirstMissing(m, next_recv_id, Held)
        /\ acks' = acks \cup {AckState(m)}
  BY DEF SendAck
<1>1. UNCHANGED <<connVars, lifeVars, readVars, datagrams, cam_next, cam_unacked>>
  BY DEF SendAck
<1>2. next_recv_id \in 0 .. MaxChunks /\ Held \subseteq ChunkId
  BY DEF TypeOK, Held
\* next_recv_id itself is never held, so nothing beyond it is acknowledged cumulatively.
<1>3. m = next_recv_id
  BY <1>2 DEF IsFirstMissing, PendingInv
<1>4. /\ AckState(m) \in Ack
      /\ AckState(m).cum # NoAck => AckState(m).cum < next_recv_id
      /\ AckState(m).sel \subseteq Held
  <2>1. CASE next_recv_id = 0
    BY <2>1 DEF AckState, Ack
  <2>2. CASE next_recv_id # 0
    <3>1. m - 1 \in ChunkId /\ m - 1 < next_recv_id
      BY <1>2, <1>3, <2>2 DEF ChunkId
    <3>2. {i \in Held : i >= m} \in SUBSET ChunkId
      BY <1>2
    <3>3. AckState(m) = [cum |-> m - 1, sel |-> {i \in Held : i >= m}]
      BY <2>2 DEF AckState
    <3> QED BY <3>1, <3>2, <3>3 DEF Ack
  <2> QED BY <2>1, <2>2
<1>5. TypeOK'
  BY <1>1, <1>4 DEF TypeOK, connVars, lifeVars, readVars
<1>6. AcksInv'
  BY <1>1, <1>4 DEF AcksInv, connVars, Held
<1> QED BY <1>1, <1>5, <1>6 DEF DataSent, PendingInv, BufferInv, NoChunkForgotten, Held, connVars

LEMMA EnvironmentIInv == IInv /\ Environment => IInv'
<1> SUFFICES ASSUME IInv, Environment PROVE IInv'
  OBVIOUS
<1> USE DEF IInv
<1>1. ASSUME UNCHANGED <<connVars, lifeVars, readVars>>, TypeOK', DataSent',
             max_data_packet_id < cam_next', acks' \subseteq acks, NoChunkForgotten'
      PROVE  IInv'
  BY <1>1 DEF PendingInv, BufferInv, AcksInv, Held, connVars
<1>2. CASE CameraSend
  <2>1. cam_next \in ChunkId /\ cam_next' = cam_next + 1 /\ Chunk(cam_next) \in Packet
    BY <1>2 DEF CameraSend, TypeOK, ChunkId, Chunk, Packet
  <2>2. datagrams' \subseteq datagrams \cup {Chunk(cam_next)}
    BY <1>2 DEF CameraSend
  <2>3. TypeOK'
    BY <1>2, <2>1, <2>2 DEF CameraSend, TypeOK, connVars, lifeVars, readVars, ChunkId
  <2>4. DataSent'
    <3>1. \A p \in datagrams : p.id \in Int /\ (p.conn = ClientId => p.id < cam_next)
      BY DEF DataSent, TypeOK, Packet, ChunkId
    <3>2. \A i \in cam_unacked : i \in Int /\ i < cam_next
      BY DEF DataSent, TypeOK, ChunkId
    <3>3. cam_next \in Int /\ Chunk(cam_next).id = cam_next
      BY <2>1 DEF Chunk, ChunkId
    <3>4. cam_unacked' = cam_unacked \cup {cam_next}
      BY <1>2 DEF CameraSend
    <3> QED BY <2>1, <2>2, <3>1, <3>2, <3>3, <3>4 DEF DataSent
  <2>5. NoChunkForgotten'
    BY <1>2, <2>1 DEF CameraSend, NoChunkForgotten, connVars, Held, TypeOK, ChunkId
  <2>6. max_data_packet_id < cam_next'
    BY <2>1 DEF PendingInv, TypeOK, ChunkId
  <2> QED BY <1>1, <1>2, <2>3, <2>4, <2>5, <2>6 DEF CameraSend
<1>3. ASSUME NEW i \in ChunkId, CameraResend(i) PROVE IInv'
  <2>1. i \in cam_unacked /\ datagrams' = datagrams \cup {Chunk(i)} /\ Chunk(i) \in Packet
    BY <1>3 DEF CameraResend, Chunk, Packet
  <2>2. TypeOK'
    BY <1>3, <2>1 DEF CameraResend, TypeOK, connVars, lifeVars, readVars
  <2>3. DataSent'
    BY <1>3, <2>1 DEF CameraResend, DataSent, Chunk
  <2> QED BY <1>1, <1>3, <2>2, <2>3 DEF CameraResend, PendingInv, NoChunkForgotten, connVars, Held
<1>4. ASSUME NEW a \in acks, CameraAck(a) PROVE IInv'
  <2>1. TypeOK'
    BY <1>4 DEF CameraAck, TypeOK, connVars, lifeVars, readVars
  <2>2. \A i \in Covered(a) : i \in Held \/ i < next_recv_id
    BY DEF Covered, AcksInv, TypeOK, Ack, ChunkId
  <2>3. NoChunkForgotten'
    BY <1>4, <2>2 DEF CameraAck, NoChunkForgotten, connVars, Held
  <2>4. DataSent'
    BY <1>4 DEF CameraAck, DataSent
  <2> QED BY <1>1, <1>4, <2>1, <2>3, <2>4 DEF CameraAck, PendingInv
<1>5. ASSUME NEW a \in acks, LoseAck(a) PROVE IInv'
  <2>1. TypeOK'
    BY <1>5 DEF LoseAck, TypeOK, connVars, lifeVars, readVars
  <2> QED BY <1>1, <1>5, <2>1 DEF LoseAck, DataSent, PendingInv, NoChunkForgotten, connVars, Held
<1>6. ASSUME NEW p \in Packet, ForeignData(p) PROVE IInv'
  <2>1. TypeOK'
    BY <1>6 DEF ForeignData, TypeOK, connVars, lifeVars, readVars
  <2>2. DataSent'
    BY <1>6 DEF ForeignData, DataSent
  <2> QED BY <1>1, <1>6, <2>1, <2>2 DEF ForeignData, PendingInv, NoChunkForgotten, connVars, Held
<1> QED BY <1>2, <1>3, <1>4, <1>5, <1>6 DEF Environment

\* The steps of the worker's life cycle and of a reader that takes nothing touch
\* neither the chunks nor the network.
LEMMA QuietIInv ==
  ASSUME IInv,
         \/ ReceiveLoopEnter \/ ReceiveNothing \/ ReceiveFails \/ ReceiveLoopFails
         \/ StartReceiver \/ StopReceiver \/ Close
         \/ Recv \/ RecvRaises \/ RecvWaits \/ RecvWaitExpires
         \/ UNCHANGED vars
  PROVE  IInv' /\ UNCHANGED <<connVars, consumed, envVars>>
<1> USE DEF IInv
<1>1. UNCHANGED <<connVars, consumed, envVars>>
  BY DEF ReceiveLoopEnter, ReceiveNothing, ReceiveFails, ReceiveLoopFails, StartReceiver,
         StopReceiver, Close, Recv, RecvRaises, RecvWaits, RecvWaitExpires, readVars, vars
<1>2. /\ closed' \in BOOLEAN /\ receive_stop' \in BOOLEAN
      /\ receive_error' \in {"none", "timeout", "os"}
      /\ worker' \in {"none", "loop", "recv", "timeout", "os"}
      /\ reader' \in {"idle", "ready", "asleep"}
  BY DEF ReceiveLoopEnter, ReceiveNothing, ReceiveFails, ReceiveLoopFails, StartReceiver,
         StopReceiver, Close, Recv, RecvRaises, RecvWaits, RecvWaitExpires, readVars, lifeVars,
         vars, NotifyAll, TypeOK
<1>3. TypeOK'
  BY <1>1, <1>2 DEF TypeOK, connVars, envVars
<1> QED BY <1>1, <1>3 DEF DataSent, PendingInv, BufferInv, AcksInv, NoChunkForgotten, Held,
                          connVars, envVars

LEMMA ReceiveIgnoredIInv ==
  ASSUME IInv, NEW p \in datagrams, ReceiveIgnored(p)
  PROVE  IInv'
<1> USE DEF IInv
<1>1. TypeOK'
  BY DEF ReceiveIgnored, Take, TypeOK, connVars, readVars
<1> QED BY <1>1 DEF ReceiveIgnored, Take, DataSent, PendingInv, BufferInv, AcksInv,
                    NoChunkForgotten, Held, connVars

LEMMA NextIInv == IInv /\ [Next]_vars => IInv'
<1> SUFFICES ASSUME IInv, [Next]_vars PROVE IInv'
  OBVIOUS
<1>1. CASE Worker
  BY <1>1, QuietIInv, ReceiveIgnoredIInv, ReceiveChunkIInv, ReceiveOverflowIInv DEF Worker
<1>2. CASE Reader
  BY <1>2, QuietIInv, RecvReturnsIInv DEF Reader
<1>3. CASE StartReceiver \/ StopReceiver \/ Close \/ UNCHANGED vars
  BY <1>3, QuietIInv
<1>4. CASE SendAck
  BY <1>4, SendAckIInv
<1>5. CASE Environment
  BY <1>5, EnvironmentIInv
<1> QED BY <1>1, <1>2, <1>3, <1>4, <1>5 DEF Next

LEMMA AlwaysIInv == Spec => []IInv
<1>1. QED BY InitIInv, NextIInv, PTL DEF Spec

\* Every variable of the receive half keeps its type, whatever datagrams arrive.
THEOREM TypeCorrect == Spec => []TypeOK
<1>1. IInv => TypeOK
  BY DEF IInv
<1> QED BY <1>1, AlwaysIInv, PTL

\* ACKs never make the camera drop a chunk that has not arrived (_ack_state).
THEOREM ChunksKept == Spec => []NoChunkForgotten
<1>1. IInv => NoChunkForgotten
  BY DEF IInv
<1> QED BY <1>1, AlwaysIInv, PTL

\* No thread sleeps in recv() with data or an error to report (_recv_buffered).
THEOREM Wakeups == Spec => []NoLostWakeup
<1>1. Init => NoLostWakeup
  BY DEF Init, NoLostWakeup
<1>2. NoLostWakeup /\ [Next]_vars => NoLostWakeup'
  <2> SUFFICES ASSUME NoLostWakeup, [Next]_vars PROVE NoLostWakeup'
    OBVIOUS
  <2>1. CASE ReceiveLoopEnter \/ ReceiveNothing \/ ReceiveFails \/ ReceiveLoopFails
    BY <2>1 DEF ReceiveLoopEnter, ReceiveNothing, ReceiveFails, ReceiveLoopFails, NotifyAll,
                NoLostWakeup, readVars, connVars
  <2>2. ASSUME NEW p \in datagrams, ReceiveIgnored(p) \/ ReceiveChunk(p) \/ ReceiveOverflow(p)
        PROVE  NoLostWakeup'
    BY <2>2 DEF ReceiveIgnored, ReceiveChunk, ReceiveOverflow, NotifyAll, NotifyNone,
                NoLostWakeup, readVars, connVars
  <2>3. CASE Reader
    BY <2>3 DEF Reader, Recv, RecvReturns, RecvRaises, RecvWaits, RecvWaitExpires,
                NoLostWakeup, lifeVars, connVars
  <2>4. CASE StartReceiver \/ StopReceiver \/ Close
    BY <2>4 DEF StartReceiver, StopReceiver, Close, NotifyAll, NoLostWakeup, readVars, connVars
  <2>5. CASE SendAck \/ Environment
    BY <2>5 DEF SendAck, Environment, CameraSend, CameraResend, CameraAck, LoseAck, ForeignData,
                NoLostWakeup, connVars, lifeVars, readVars
  <2>6. CASE UNCHANGED vars
    BY <2>6 DEF vars, connVars, lifeVars, readVars, NoLostWakeup
  <2> QED BY <2>1, <2>2, <2>3, <2>4, <2>5, <2>6 DEF Next, Worker
<1> QED BY <1>1, <1>2, PTL DEF Spec

\* The reordering buffer stays within max_pending_chunks (_raise_if_pending_overflow).
THEOREM PendingLimit == Spec => []PendingBounded
<1>1. Init => PendingBounded
  BY FS_EmptySet DEF Init, PendingBounded, Held
<1>2. IInv /\ PendingBounded /\ [Next]_vars => PendingBounded'
  <2> SUFFICES ASSUME IInv, PendingBounded, [Next]_vars, max_pending_chunks' # NoLimit
               PROVE  Cardinality(Held') <= max_pending_chunks'
    BY DEF PendingBounded
  <2>1. max_pending_chunks' = max_pending_chunks /\ max_pending_chunks \in Nat
    <3>1. UNCHANGED max_pending_chunks
      BY DEF Next, Worker, ReceiveLoopEnter, ReceiveNothing, ReceiveFails, ReceiveIgnored,
             ReceiveChunk, ReceiveOverflow, ReceiveLoopFails, Reader, Recv, RecvReturns,
             RecvRaises, RecvWaits, RecvWaitExpires, StartReceiver, StopReceiver, Close, SendAck,
             Environment, CameraSend, CameraResend, CameraAck, LoseAck, ForeignData,
             vars, connVars
    <3> QED BY <3>1 DEF IInv, TypeOK
  <2>2. CASE \E p \in datagrams : ReceiveChunk(p)
    <3> PICK p \in datagrams : ReceiveChunk(p)
      BY <2>2
    <3>1. Held' \subseteq Held \cup {p.id}
      BY DEF ReceiveChunk, Drain, WithChunk, Held
    <3>2. IsFiniteSet(Held \cup {p.id})
      <4>1. Held \cup {p.id} \subseteq ChunkId
        BY DEF IInv, TypeOK, Held, Packet
      <4>2. IsFiniteSet(ChunkId)
        BY FS_Interval DEF ChunkId
      <4> QED BY <4>1, <4>2, FS_Subset
    <3>3. Cardinality(Held') <= Cardinality(Held \cup {p.id})
          /\ Cardinality(Held') \in Nat /\ Cardinality(Held \cup {p.id}) \in Nat
      BY <3>1, <3>2, FS_Subset, FS_CardinalityType
    <3>4. ~ (Cardinality(Held \cup {p.id}) > max_pending_chunks)
      BY <2>1 DEF ReceiveChunk, Overflows
    <3> QED BY <2>1, <3>3, <3>4
  <2>3. CASE \E p \in datagrams : ReceiveOverflow(p)
    <3>1. Held' = {}
      BY <2>3 DEF ReceiveOverflow, Held
    <3> QED BY <2>1, <3>1, FS_EmptySet
  <2>4. ASSUME UNCHANGED recv_chunks PROVE Cardinality(Held') <= max_pending_chunks'
    BY <2>1, <2>4 DEF Held, PendingBounded
  <2>5. CASE ReceiveLoopEnter \/ ReceiveNothing \/ ReceiveFails \/ ReceiveLoopFails
             \/ (\E p \in datagrams : ReceiveIgnored(p)) \/ StartReceiver \/ StopReceiver \/ Close
    BY <2>4, <2>5 DEF ReceiveLoopEnter, ReceiveNothing, ReceiveFails, ReceiveLoopFails,
                      ReceiveIgnored, StartReceiver, StopReceiver, Close, connVars
  <2>6. CASE Reader \/ SendAck \/ Environment \/ UNCHANGED vars
    BY <2>4, <2>6 DEF Reader, Recv, RecvReturns, RecvRaises, RecvWaits, RecvWaitExpires, SendAck,
                      Environment, CameraSend, CameraResend, CameraAck, LoseAck, ForeignData,
                      vars, connVars
  <2> QED BY <2>2, <2>3, <2>5, <2>6 DEF Next, Worker
<1> QED BY <1>1, <1>2, AlwaysIInv, PTL DEF Spec

-----------------------------------------------------------------------------
(***************************************************************************)
(* The refinement of OrderedStream.                                         *)
(***************************************************************************)

Written  == [k \in 1 .. cam_next |-> Chunk(k - 1)]
Position == IF consumed = <<>> THEN 0 ELSE consumed[Len(consumed)].id + 1

\* The reader has not been taken past the start of the buffer and, without a
\* limit on the reordering buffer, it is exactly there.
PositionInv ==
    /\ Position \in Nat
    /\ Position <= next_recv_id - Len(buffer)
    /\ max_pending_chunks = NoLimit => Position = next_recv_id - Len(buffer)

LEMMA InitPosition == Init => PositionInv
<1> SUFFICES ASSUME Init PROVE PositionInv
  OBVIOUS
<1>1. Position = 0 /\ next_recv_id = 0 /\ Len(buffer) = 0
  BY EmptySeq DEF Init, Position
<1> QED BY <1>1 DEF PositionInv

\* A call of recv() that returns is a Deliver step of the abstract stream.
LEMMA RecvReturnsDelivers ==
  ASSUME IInv, PositionInv, RecvReturns
  PROVE  PositionInv' /\ Stream!Deliver
<1>0. PICK n \in 1 .. Len(buffer) :
        /\ consumed' = consumed \o SubSeq(buffer, 1, n)
        /\ buffer' = SubSeq(buffer, n + 1, Len(buffer))
  BY DEF RecvReturns
<1>1. UNCHANGED <<next_recv_id, max_pending_chunks, cam_next>>
  BY DEF RecvReturns, envVars
<1> DEFINE from == next_recv_id - Len(buffer)
           to   == next_recv_id - Len(buffer) + n
<1>2. /\ Len(buffer) \in Nat /\ next_recv_id \in Nat /\ cam_next \in Nat /\ n \in Nat /\ n >= 1
      /\ from \in Nat /\ to \in Nat /\ from < to /\ to <= next_recv_id
      /\ to = from + n /\ next_recv_id <= cam_next
  <2>1. /\ Len(buffer) \in Nat /\ Len(buffer) <= next_recv_id
        /\ next_recv_id \in Nat /\ cam_next \in Nat /\ max_data_packet_id \in Int
    BY DEF IInv, TypeOK, BufferInv
  <2>2. next_recv_id <= cam_next
    BY <2>1 DEF IInv, PendingInv
  <2> QED BY <2>1, <2>2
<1>3. /\ SubSeq(buffer, 1, n) \in Seq(Packet)
      /\ Len(SubSeq(buffer, 1, n)) = n
      /\ \A k \in 1 .. n : SubSeq(buffer, 1, n)[k] = Chunk(from + k - 1)
      /\ Len(SubSeq(buffer, n + 1, Len(buffer))) = Len(buffer) - n
  <2>1. \A k \in 1 .. n : buffer[k] = Chunk(from + k - 1)
    BY <1>2 DEF IInv, BufferInv
  <2>2. TypeOK
    BY DEF IInv
  <2> HIDE DEF from
  <2> QED BY <2>1, <2>2, RecvReturnsSplit
<1>4. /\ Written \in Seq(Packet) /\ Len(Written) = cam_next
      /\ \A k \in 1 .. cam_next : Written[k] = Chunk(k - 1)
  BY <1>2 DEF Written, Chunk, Packet, IInv, TypeOK, ChunkId
<1>5. SubSeq(Written, from + 1, to) = SubSeq(buffer, 1, n)
  <2>1. \A i \in from + 1 .. to : Written[i] \in Packet
    BY <1>2, <1>4
  <2>2. from + 1 \in Int /\ to \in Int /\ from + 1 <= to /\ to - (from + 1) + 1 = n
    BY <1>2
  <2> HIDE DEF from, to
  <2>3. /\ SubSeq(Written, from + 1, to) \in Seq(Packet)
        /\ Len(SubSeq(Written, from + 1, to)) = n
        /\ \A k \in 1 .. n : SubSeq(Written, from + 1, to)[k] = Written[from + 1 + k - 1]
    BY <2>1, <2>2, SubSeqProperties
  <2>4. \A k \in 1 .. n : SubSeq(Written, from + 1, to)[k] = SubSeq(buffer, 1, n)[k]
    <3> TAKE k \in 1 .. n
    <3>1. from + k \in 1 .. cam_next /\ from + 1 + k - 1 = from + k
      BY <1>2
    <3>2. SubSeq(Written, from + 1, to)[k] = Written[from + k]
      BY <2>3, <3>1
    <3>3. Written[from + k] = Chunk(from + k - 1)
      BY <1>2, <1>4, <3>1
    <3> QED BY <1>3, <3>2, <3>3
  <2> QED BY <1>3, <2>3, <2>4, SeqEqual
<1>6. consumed \in Seq(Packet)
  BY DEF IInv, TypeOK
<1>7. Position' = to
  <2>1. /\ Len(consumed') = Len(consumed) + n
        /\ consumed'[Len(consumed) + n] = SubSeq(buffer, 1, n)[n]
    <3>1. Len(consumed) \in Nat /\ Len(consumed) + n \in 1 .. Len(consumed) + n
          /\ ~ (Len(consumed) + n <= Len(consumed)) /\ Len(consumed) + n - Len(consumed) = n
      BY <1>2, <1>6
    <3> DEFINE front == SubSeq(buffer, 1, n)
    <3>2. consumed' = consumed \o front /\ front \in Seq(Packet) /\ Len(front) = n
      BY <1>0, <1>3
    <3> HIDE <1>3 DEF front
    <3>3. /\ Len(consumed \o front) = Len(consumed) + n
          /\ \A i \in 1 .. Len(consumed) + n :
                (consumed \o front)[i]
                  = IF i <= Len(consumed) THEN consumed[i] ELSE front[i - Len(consumed)]
      BY <1>6, <3>2, ConcatProperties
    <3>4. (consumed \o front)[Len(consumed) + n] = front[n]
      BY <3>1, <3>3
    <3> QED BY <3>2, <3>3, <3>4 DEF front
  <2>2. consumed' # <<>>
    BY <1>2, <1>6, <2>1
  <2>3. SubSeq(buffer, 1, n)[n] = Chunk(from + n - 1)
    BY <1>2, <1>3
  <2>4. consumed'[Len(consumed')].id = from + n - 1
    BY <2>1, <2>3 DEF Chunk
  <2> QED BY <1>2, <2>2, <2>4 DEF Position
<1>8. Len(buffer') = Len(buffer) - n
  BY <1>0, <1>3
<1>9. PositionInv'
  BY <1>1, <1>2, <1>7, <1>8 DEF PositionInv
<1>10. Position \in Nat /\ Position <= from /\ (max_pending_chunks = NoLimit => from = Position)
  BY DEF PositionInv
<1>11. Stream!Deliver
  <2>1. from \in Position .. Len(Written) /\ to \in Position .. Len(Written)
    BY <1>2, <1>4, <1>10
  <2>2. consumed' = consumed \o SubSeq(Written, from + 1, to)
    BY <1>0, <1>5
  <2>3. Written' = Written /\ (max_pending_chunks # NoLimit)' = (max_pending_chunks # NoLimit)
    BY <1>1 DEF Written
  <2> HIDE DEF from, to
  <2> QED BY <1>2, <1>7, <1>10, <2>1, <2>2, <2>3 DEF Stream!Deliver, Written, Position
<1> QED BY <1>9, <1>11

\* The camera's next chunk is a Write step of the abstract stream.
LEMMA CameraSendWrites ==
  ASSUME IInv, PositionInv, CameraSend
  PROVE  PositionInv' /\ Stream!Write
<1>1. /\ cam_next \in Nat /\ cam_next \in ChunkId /\ cam_next' = cam_next + 1
      /\ UNCHANGED <<consumed, max_pending_chunks>>
  BY DEF CameraSend, IInv, TypeOK, ChunkId, connVars, readVars
<1> DEFINE one == <<Chunk(cam_next)>>
<1>2. one \in {<<Chunk(i)>> : i \in ChunkId}
  BY <1>1
<1>3. Written' = Written \o one
  <2>1. /\ Written \in Seq(Packet) /\ Len(Written) = cam_next
        /\ \A k \in 1 .. cam_next : Written[k] = Chunk(k - 1)
    BY <1>1 DEF Written, Chunk, Packet, ChunkId
  <2>2. one \in Seq(Packet) /\ Len(one) = 1 /\ one[1] = Chunk(cam_next)
    BY <1>1 DEF Chunk, Packet
  <2>3. /\ Written' \in Seq(Packet) /\ Len(Written') = cam_next + 1
        /\ \A k \in 1 .. cam_next + 1 : Written'[k] = Chunk(k - 1)
    <3>1. Written' = [k \in 1 .. cam_next + 1 |-> Chunk(k - 1)]
      BY <1>1 DEF Written
    <3>2. \A k \in 1 .. cam_next + 1 : Chunk(k - 1) \in Packet
      BY <1>1 DEF Chunk, Packet, ChunkId
    <3> QED BY <1>1, <3>1, <3>2
  <2> HIDE DEF one
  <2>4. /\ Written \o one \in Seq(Packet) /\ Len(Written \o one) = cam_next + 1
        /\ \A k \in 1 .. cam_next + 1 :
              (Written \o one)[k] = IF k <= cam_next THEN Written[k] ELSE one[k - cam_next]
    <3>1. /\ Written \o one \in Seq(Packet) /\ Len(Written \o one) = Len(Written) + Len(one)
          /\ \A k \in 1 .. Len(Written) + Len(one) :
                (Written \o one)[k] = IF k <= Len(Written) THEN Written[k] ELSE one[k - Len(Written)]
      BY <2>1, <2>2, ConcatProperties
    <3> QED BY <2>1, <2>2, <3>1
  <2>5. \A k \in 1 .. cam_next + 1 : Written'[k] = (Written \o one)[k]
    <3> TAKE k \in 1 .. cam_next + 1
    <3>1. CASE k <= cam_next
      BY <1>1, <2>1, <2>3, <2>4, <3>1
    <3>2. CASE k = cam_next + 1
      <4>1. ~ (k <= cam_next) /\ k - cam_next = 1 /\ k - 1 = cam_next
        BY <1>1, <3>2
      <4>2. Written'[k] = Chunk(k - 1)
        BY <2>3
      <4>3. (Written \o one)[k] = one[k - cam_next]
        BY <2>4, <4>1
      <4>4. one[k - cam_next] = Chunk(cam_next)
        BY <2>2, <4>1
      <4>5. Chunk(k - 1) = Chunk(cam_next)
        BY <4>1
      <4> QED BY <4>2, <4>3, <4>4, <4>5
    <3>3. k <= cam_next \/ k = cam_next + 1
      BY <1>1
    <3> QED BY <3>1, <3>2, <3>3
  <2> QED BY <2>3, <2>4, <2>5, SeqEqual
<1>4. Position' = Position /\ (max_pending_chunks # NoLimit)' = (max_pending_chunks # NoLimit)
  BY <1>1 DEF Position
<1>5. PositionInv'
  BY <1>4 DEF CameraSend, connVars, PositionInv
<1>6. Stream!Write
  BY <1>1, <1>2, <1>3, <1>4 DEF Stream!Write, Written, Position
<1> QED BY <1>5, <1>6

\* Every other step leaves the abstract stream as it is.
LEMMA OtherStepsStutter ==
  ASSUME IInv, PositionInv, [Next]_vars, ~ CameraSend, ~ RecvReturns
  PROVE  PositionInv' /\ UNCHANGED Stream!vars
<1>1. UNCHANGED <<cam_next, consumed, max_pending_chunks>>
  BY DEF Next, Worker, ReceiveLoopEnter, ReceiveNothing, ReceiveFails, ReceiveIgnored,
         ReceiveChunk, ReceiveOverflow, ReceiveLoopFails, Reader, Recv, RecvRaises, RecvWaits,
         RecvWaitExpires, StartReceiver, StopReceiver, Close, SendAck, Environment, CameraResend,
         CameraAck, LoseAck, ForeignData, vars, connVars, envVars, readVars
<1>2. Written' = Written /\ Position' = Position
  BY <1>1 DEF Written, Position
<1>3. UNCHANGED Stream!vars
  BY <1>1, <1>2 DEF Stream!vars, Written, Position
\* Only the arrival of chunks moves the end of the buffer.
<1>4. \/ next_recv_id' - Len(buffer') = next_recv_id - Len(buffer)
      \/ max_pending_chunks # NoLimit /\ next_recv_id' - Len(buffer') >= next_recv_id - Len(buffer)
  <2>1. ASSUME NEW p \in datagrams, ReceiveChunk(p)
        PROVE  next_recv_id' - Len(buffer') = next_recv_id - Len(buffer)
    BY <2>1, ReceiveChunkIInv
  <2>2. ASSUME NEW p \in datagrams, ReceiveOverflow(p)
        PROVE  max_pending_chunks # NoLimit
               /\ next_recv_id' - Len(buffer') >= next_recv_id - Len(buffer)
    BY <2>2, ReceiveOverflowIInv
  <2>3. CASE UNCHANGED <<next_recv_id, buffer>>
    BY <2>3
  <2>4. CASE Worker
    BY <2>1, <2>2, <2>3, <2>4 DEF Worker, ReceiveLoopEnter, ReceiveNothing, ReceiveFails,
              ReceiveIgnored, ReceiveLoopFails, connVars
  <2>5. CASE ~ Worker
    BY <2>3, <2>5 DEF Next, Reader, Recv, RecvRaises, RecvWaits, RecvWaitExpires, StartReceiver,
              StopReceiver, Close, SendAck, Environment, CameraResend, CameraAck, LoseAck,
              ForeignData, vars, connVars
  <2> QED BY <2>4, <2>5
<1>5. next_recv_id' - Len(buffer') \in Int /\ next_recv_id - Len(buffer) \in Int
  BY NextIInv DEF IInv, TypeOK
<1> QED BY <1>1, <1>2, <1>3, <1>4, <1>5 DEF PositionInv

\* The inbound half of UdpBcConnection implements an ordered stream: recv() hands
\* out the camera's chunks in order, once each, and without a gap unless
\* max_pending_chunks is set (sendall/recv of "a socket", docs/05).
THEOREM Refinement == Spec => ImplementsStream
<1>1. Init => Stream!Init
  <2> SUFFICES ASSUME Init PROVE Stream!Init
    OBVIOUS
  <2>1. Written = <<>> /\ Position = 0
    BY DEF Init, Written, Position
  <2> QED BY <2>1 DEF Init, Stream!Init, Written, Position
<1>2. IInv /\ PositionInv /\ [Next]_vars => PositionInv' /\ [Stream!Next]_(Stream!vars)
  <2> SUFFICES ASSUME IInv, PositionInv, [Next]_vars
               PROVE  PositionInv' /\ [Stream!Next]_(Stream!vars)
    OBVIOUS
  <2>1. CASE RecvReturns
    BY <2>1, RecvReturnsDelivers DEF Stream!Next
  <2>2. CASE CameraSend
    BY <2>2, CameraSendWrites DEF Stream!Next
  <2>3. CASE ~ RecvReturns /\ ~ CameraSend
    BY <2>3, OtherStepsStutter
  <2> QED BY <2>1, <2>2, <2>3
<1>3. IInv /\ PositionInv /\ [Next]_vars => PositionInv'
  BY <1>2
<1> QED BY <1>1, <1>2, InitPosition, AlwaysIInv, PTL DEF Spec, ImplementsStream, Stream!Spec

---------------------------------------------------------------------------
(***************************************************************************)
(* ConnectionSetup, which opens the connections the receiver reads from.     *)
(***************************************************************************)
HIDE ReceiverAssumption
USE SetupAssumption


(***************************************************************************)
(* The types, and what they rest on.                                        *)
(***************************************************************************)

\* A call that is under way has a number; one that is saving has a socket; one that opens
\* a relay channel has the sid of a registration; and the camera names a channel by the
\* cid it was asked with.
SetupInv ==
    /\ \A c \in Client : pc[c] \notin {"idle", "dead"} => attempt[c] # 0
    /\ \A c \in Client : pc[c] \in {"save", "write", "replace"} => sock[c] \in Sock
    /\ \A c \in Client : pc[c] = "open" => sid[c] \in Cid
    /\ \A cfm \in confirmed : cfm.did = cfm.cid

Inv == SetupTypeOK /\ SetupInv /\ Agreed

\* Numbers of calls.
LEMMA MeType ==
  ASSUME SetupTypeOK, NEW c \in Client, attempt[c] # 0
  PROVE  Me(c) \in Cid
<1>1. attempt[c] \in 1 .. MaxAttempts[c]
  BY DEF SetupTypeOK
<1>2. <<c, attempt[c]>> \in {c} \X (1 .. MaxAttempts[c])
  BY <1>1
<1> QED BY <1>2 DEF Me, Cid

LEMMA LoadType == SetupTypeOK => Load \in State /\ Empty \in State /\ Loaded \subseteq State
  BY DEF SetupTypeOK, Load, Loaded, State, Empty

LEMMA SockCases ==
  /\ \A s \in Sock : s # NoSock /\ s.transport \in Transport
  /\ \A t \in Transport : \A cid, did \in Cid : \A path \in Place :
        [transport |-> t, cid |-> cid, did |-> did, path |-> path] \in Sock
<1>1. NoSock.transport = "none"
  BY DEF NoSock, None
<1> QED BY <1>1 DEF Sock, Transport

LEMMA InitInv == SetupInit => Inv
<1> SUFFICES ASSUME SetupInit PROVE Inv
  OBVIOUS
<1>1. /\ Load \in State
      /\ file \in State \cup {Torn} /\ Empty \in State
  BY DEF SetupInit, Load, State, Empty, Transport
<1>2. SetupTypeOK
  <2>1. /\ attempt \in [Client -> Nat] /\ \A c \in Client : attempt[c] \in 0 .. MaxAttempts[c]
        /\ faults \in 0 .. MaxFaults
    BY DEF SetupInit
  <2>2. /\ sid \in [Client -> Cid \cup {NoSid}] /\ candidates \in [Client -> SUBSET Path]
        /\ sock \in [Client -> Sock \cup {NoSock}]
    BY DEF SetupInit
  <2>3. /\ data \in [Client -> State] /\ merged \in [Client -> State] /\ saved \in State
    BY <1>1 DEF SetupInit, Loaded
  <2> QED BY <1>1, <2>1, <2>2, <2>3 DEF SetupInit, SetupTypeOK
<1>3. SetupInv /\ Agreed
  BY DEF SetupInit, SetupInv, Agreed
<1> QED BY <1>2, <1>3 DEF Inv

(***************************************************************************)
(* Steps.                                                                   *)
(***************************************************************************)

Stage == {"idle", "local", "resolve", "tcp", "lookup", "register", "open",
          "save", "write", "replace", "connected", "failed", "dead"}

CallType ==
    /\ discovery \in Discovery /\ reach \subseteq Place
    /\ pc \in [Client -> Stage]
    /\ attempt \in [Client -> Nat] /\ \A c \in Client : attempt[c] \in 0 .. MaxAttempts[c]
    /\ faults \in 0 .. MaxFaults /\ excused \in [Client -> BOOLEAN]

NetType ==
    /\ sid \in [Client -> Cid \cup {NoSid}] /\ candidates \in [Client -> SUBSET Path]
    /\ registered \subseteq Cid
    /\ confirmed \subseteq [cid : Cid, sid : Cid, did : Cid, path : Path]

SockType == sock \in [Client -> Sock \cup {NoSock}]

FileType ==
    /\ file \in State \cup {Torn} /\ data \in [Client -> State] /\ merged \in [Client -> State]
    /\ saved \in State /\ overlapped \in BOOLEAN /\ unread \subseteq Names

LEMMA Types == SetupTypeOK <=> CallType /\ NetType /\ SockType /\ FileType
  BY DEF SetupTypeOK, CallType, NetType, SockType, FileType, Stage

\* What a step may do to the faults, and to the excuse of the process that makes it.
Costs == UNCHANGED faults \/ (faults < MaxFaults /\ faults' = faults + 1)

Excuses(c) == UNCHANGED excused \/ \E e \in BOOLEAN : excused' = [excused EXCEPT ![c] = e]

\* A step of one process that leaves the call's number alone.
LEMMA CallMoves ==
  ASSUME CallType, NEW c \in Client, NEW l \in Stage, Goto(c, l),
         UNCHANGED <<discovery, reach, attempt>>,
         Costs, Excuses(c)
  PROVE  CallType'
<1>1. faults' \in 0 .. MaxFaults
  BY DEF CallType, Costs
<1>2. excused' \in [Client -> BOOLEAN]
  BY DEF CallType, Excuses
<1>3. pc' \in [Client -> Stage]
  BY DEF CallType, Goto
<1> QED BY <1>1, <1>2, <1>3 DEF CallType

\* What has to be shown of the process that makes a step.
LEMMA OthersKept ==
  ASSUME Inv, NEW c \in Client,
         \A d \in Client \ {c} : /\ pc'[d] = pc[d] /\ sock'[d] = sock[d]
                                 /\ sid'[d] = sid[d] /\ attempt'[d] = attempt[d],
         \A cfm \in confirmed' : cfm \in confirmed \/ cfm.did = cfm.cid, confirmed \subseteq confirmed',
         pc'[c] \notin {"idle", "dead"} => attempt'[c] # 0,
         pc'[c] \in {"save", "write", "replace"} => sock'[c] \in Sock,
         pc'[c] = "open" => sid'[c] \in Cid,
         sock'[c] # NoSock =>
            \/ sock'[c] = sock[c] /\ attempt'[c] = attempt[c]
            \/ /\ sock'[c].cid = <<c, attempt'[c]>> /\ sock'[c].did = <<c, attempt'[c]>>
               /\ sock'[c].transport = "udp-relay" =>
                     \E cfm \in confirmed : cfm.cid = <<c, attempt'[c]>> /\ cfm.path = sock'[c].path
  PROVE  SetupInv' /\ Agreed'
<1>1. SetupInv'
  BY DEF Inv, SetupInv
<1>2. ASSUME NEW d \in Client, sock'[d] # NoSock
      PROVE  /\ sock'[d].cid = <<d, attempt'[d]>> /\ sock'[d].did = <<d, attempt'[d]>>
             /\ sock'[d].transport = "udp-relay" =>
                   \E cfm \in confirmed' : cfm.cid = <<d, attempt'[d]>> /\ cfm.path = sock'[d].path
  <2>1. CASE sock'[d] = sock[d] /\ attempt'[d] = attempt[d]
    <3>1. /\ sock[d].cid = <<d, attempt[d]>> /\ sock[d].did = <<d, attempt[d]>>
          /\ sock[d].transport = "udp-relay" =>
                \E cfm \in confirmed : cfm.cid = <<d, attempt[d]>> /\ cfm.path = sock[d].path
      BY <1>2, <2>1 DEF Inv, Agreed, Me
    <3> QED BY <2>1, <3>1
  <2>2. CASE d = c
    BY <1>2, <2>1, <2>2
  <2> QED BY <2>1, <2>2
<1> QED BY <1>1, <1>2 DEF Agreed, Me

\* All but the file.
CallInv == CallType /\ NetType /\ SockType /\ SetupInv /\ Agreed

\* A step that opens nothing and receives nothing.
LEMMA PlainMove ==
  ASSUME Inv, NEW c \in Client, NEW l \in Stage \ {"open"}, Goto(c, l),
         UNCHANGED <<discovery, reach, attempt, netVars, sock>>,
         Costs, Excuses(c),
         l = "idle" \/ pc[c] \notin {"idle", "dead"},
         l \in {"save", "write", "replace"} => pc[c] \in {"save", "write", "replace"}
  PROVE  CallInv'
<1>1. CallType /\ NetType /\ SockType /\ SetupInv
  BY Types DEF Inv
<1>2. CallType'
  BY <1>1, CallMoves
<1>3. NetType' /\ SockType'
  BY <1>1 DEF NetType, SockType, netVars
<1>4. pc' = [pc EXCEPT ![c] = l] /\ pc \in [Client -> Stage]
  BY <1>1 DEF Goto, CallType
<1>5. SetupInv' /\ Agreed'
  <2>1. \A d \in Client \ {c} : /\ pc'[d] = pc[d] /\ sock'[d] = sock[d]
                                /\ sid'[d] = sid[d] /\ attempt'[d] = attempt[d]
    BY <1>4 DEF netVars
  <2>2. /\ pc'[c] = l /\ sock'[c] = sock[c] /\ attempt'[c] = attempt[c] /\ confirmed' = confirmed
    BY <1>4 DEF netVars
  <2>3. /\ pc'[c] \notin {"idle", "dead"} => attempt'[c] # 0
        /\ pc'[c] \in {"save", "write", "replace"} => sock'[c] \in Sock
    BY <1>1, <2>2 DEF SetupInv
  <2> QED BY <2>1, <2>2, <2>3, OthersKept
<1> QED BY <1>2, <1>3, <1>5 DEF CallInv

\* A wait that ends costs a fault if the answer was only late.
LEMMA DeadlineCosts ==
  ASSUME NEW c \in Client, NEW answers, Deadline(c, answers)
  PROVE  Costs /\ Excuses(c)
  BY DEF Deadline, Costs, Excuses

LEMMA NoCost == ASSUME NEW c \in Client, UNCHANGED <<faults, excused>> PROVE Costs /\ Excuses(c)
  BY DEF Costs, Excuses

\* A handshake that ends with a socket of this call.
LEMMA Opens ==
  ASSUME Inv, NEW c \in Client, pc[c] \notin {"idle", "dead"},
         NEW t \in Transport, NEW path \in Place, Opened(c, t, Me(c), path),
         t = "udp-relay" => \E cfm \in confirmed : cfm.cid = Me(c) /\ cfm.path = path,
         UNCHANGED <<discovery, reach, attempt, registered, confirmed, faults, excused>>,
         UNCHANGED <<sid, candidates>> \/ Return(c)
  PROVE  CallInv'
<1>1. CallType /\ NetType /\ SockType /\ SetupInv /\ SetupTypeOK
  BY Types DEF Inv
<1>2. Me(c) \in Cid /\ attempt[c] # 0
  BY <1>1, MeType DEF SetupInv
<1> DEFINE s == [transport |-> t, cid |-> Me(c), did |-> Me(c), path |-> path]
<1>3. s \in Sock
  BY <1>2, SockCases
<1>4. /\ sock' = [sock EXCEPT ![c] = s] /\ Goto(c, "save")
      /\ sock \in [Client -> Sock \cup {NoSock}] /\ pc \in [Client -> Stage]
  BY <1>1 DEF Opened, SockType, CallType
<1>5. CallType'
  BY <1>1, <1>4, CallMoves, NoCost DEF Stage
<1>6. NetType'
  BY <1>1 DEF NetType, Return
<1>7. SockType'
  BY <1>3, <1>4 DEF SockType
<1>8. /\ s.cid = Me(c) /\ s.did = Me(c) /\ s.transport = t /\ s.path = path
  OBVIOUS
<1> HIDE DEF s
<1>9. SetupInv' /\ Agreed'
  <2>1. pc'[c] = "save" /\ sock'[c] = s /\ attempt'[c] = attempt[c]
    BY <1>4 DEF Goto
  <2>2. \A d \in Client \ {c} : /\ pc'[d] = pc[d] /\ sock'[d] = sock[d]
                                /\ sid'[d] = sid[d] /\ attempt'[d] = attempt[d]
    BY <1>1, <1>4 DEF Goto, Return, NetType
  <2> QED BY <1>2, <1>3, <1>8, <2>1, <2>2, OthersKept DEF Me
<1> QED BY <1>5, <1>6, <1>7, <1>9 DEF CallInv

LEMMA CallNext ==
  ASSUME Inv, NEW c \in Client,
         \/ Connect(c) \/ Answers(c) \/ Step(c) \/ SaveFails(c) \/ UseSocket(c) \/ Crash(c) \/ Restart(c)
  PROVE  CallInv'
<1>0. /\ CallType /\ NetType /\ SockType /\ SetupInv /\ SetupTypeOK
      /\ pc \in [Client -> Stage] /\ sock \in [Client -> Sock \cup {NoSock}]
      /\ attempt \in [Client -> Nat] /\ sid \in [Client -> Cid \cup {NoSid}]
  BY Types DEF Inv, CallType, SockType, NetType
<1> USE DEF Stage, At
<1>1. CASE Connect(c)
  <2>1. /\ sock' = [sock EXCEPT ![c] = NoSock] /\ attempt' = [attempt EXCEPT ![c] = @ + 1]
        /\ attempt[c] < MaxAttempts[c] /\ excused' = [excused EXCEPT ![c] = FALSE]
        /\ UNCHANGED <<discovery, reach, netVars, faults>>
    BY <1>1 DEF Connect
  <2>2. PICK l \in {"local", "resolve"} : pc' = [pc EXCEPT ![c] = l]
    BY <1>1 DEF Connect, Goto
  <2>3. attempt' \in [Client -> Nat] /\ \A d \in Client : attempt'[d] \in 0 .. MaxAttempts[d]
    <3>1. attempt[c] + 1 \in 0 .. MaxAttempts[c]
      BY <1>0, <2>1
    <3> QED BY <1>0, <2>1, <3>1 DEF CallType
  <2>4. CallType'
    BY <1>0, <2>1, <2>2, <2>3 DEF CallType
  <2>5. NetType' /\ SockType'
    BY <1>0, <2>1 DEF NetType, SockType, netVars
  <2>6. /\ pc'[c] = l /\ sock'[c] = NoSock /\ attempt'[c] # 0 /\ confirmed' = confirmed
        /\ \A d \in Client \ {c} : /\ pc'[d] = pc[d] /\ sock'[d] = sock[d]
                                   /\ sid'[d] = sid[d] /\ attempt'[d] = attempt[d]
    BY <1>0, <2>1, <2>2 DEF netVars
  <2>7. SetupInv' /\ Agreed'
    BY <2>6, OthersKept
  <2> QED BY <2>4, <2>5, <2>7 DEF CallInv
<1>2. CASE LocalReply(c)
  <2>1. "udp-local" \in Transport /\ "lan" \in Place
    BY DEF Transport, Place
  <2> QED BY <1>2, <2>1, Opens DEF LocalReply, netVars
<1>3. CASE LocalTimeout(c)
  <2>1. \E l \in {"failed", "resolve"} : Goto(c, l)
    BY <1>3 DEF LocalTimeout, LocalFailed
  <2> QED BY <1>3, <2>1, DeadlineCosts, PlainMove DEF LocalTimeout
<1>4. CASE ResolveAddress(c)
  <2>1. \E l \in {"tcp", "lookup", "failed"} : Goto(c, l)
    BY <1>4 DEF ResolveAddress
  <2>2. Costs /\ Excuses(c)
    BY <1>4, DeadlineCosts, NoCost DEF ResolveAddress
  <2> QED BY <1>4, <2>1, <2>2, PlainMove DEF ResolveAddress
<1>5. CASE CreateConnection(c)
  <2>1. "tcp" \in Transport /\ "tcp" \in Place
    BY DEF Transport, Place
  <2>2. CASE Opened(c, "tcp", Me(c), "tcp") /\ UNCHANGED <<faults, excused>>
    BY <1>5, <2>1, <2>2, Opens DEF CreateConnection, netVars
  <2>3. CASE Deadline(c, "tcp" \in reach) /\ Goto(c, "failed") /\ UNCHANGED sock
    BY <1>5, <2>3, DeadlineCosts, PlainMove DEF CreateConnection
  <2> QED BY <1>5, <2>2, <2>3 DEF CreateConnection
<1>6. CASE Lookup(c)
  <2>1. \E l \in {"register", "failed"} : Goto(c, l)
    BY <1>6 DEF Lookup
  <2>2. Costs /\ Excuses(c)
    BY <1>6, DeadlineCosts, NoCost DEF Lookup
  <2> QED BY <1>6, <2>1, <2>2, PlainMove DEF Lookup
<1>7. CASE Register(c)
  <2>1. Me(c) \in Cid
    BY <1>0, <1>7, MeType DEF Register, SetupInv
  <2>2. UNCHANGED <<discovery, reach, pc, attempt, sid, candidates, confirmed, sock, faults, excused>>
    BY <1>7 DEF Register
  <2>3. CallType' /\ NetType' /\ SockType'
    BY <1>0, <1>7, <2>1, <2>2 DEF Register, CallType, NetType, SockType
  <2>4. SetupInv' /\ Agreed'
    BY <2>2 DEF Inv, SetupInv, Agreed, Me
  <2> QED BY <2>3, <2>4 DEF CallInv
<1>8. CASE RegisterReply(c)
  <2>1. PICK r \in registered : /\ sid' = [sid EXCEPT ![c] = r]
                                /\ excused' = [excused EXCEPT ![c] = @ \/ r # Me(c)]
    BY <1>8 DEF RegisterReply
  <2>2. r \in Cid
    BY <1>0 DEF NetType
  <2>3. /\ UNCHANGED <<discovery, reach, attempt, registered, confirmed, sock, faults>>
        /\ candidates' = [candidates EXCEPT ![c] = {"relay"} \cup (reach \cap Path)]
        /\ Goto(c, "open") /\ pc[c] = "register"
    BY <1>8 DEF RegisterReply
  <2>4. CallType'
    <3>1. (excused[c] \/ r # Me(c)) \in BOOLEAN
      BY Zenon
    <3>2. Costs /\ Excuses(c)
      BY <2>1, <2>3, <3>1 DEF Costs, Excuses
    <3> QED BY <1>0, <2>3, <3>2, CallMoves
  <2>5. NetType' /\ SockType'
    BY <1>0, <2>1, <2>2, <2>3 DEF NetType, SockType
  <2>6. /\ pc'[c] = "open" /\ sid'[c] = r /\ attempt[c] # 0
        /\ \A d \in Client \ {c} : /\ pc'[d] = pc[d] /\ sock'[d] = sock[d]
                                   /\ sid'[d] = sid[d] /\ attempt'[d] = attempt[d]
    BY <1>0, <2>1, <2>3 DEF Goto, SetupInv
  <2>7. SetupInv' /\ Agreed'
    BY <2>2, <2>3, <2>6, OthersKept
  <2> QED BY <2>4, <2>5, <2>7 DEF CallInv
<1>9. CASE RegisterTimeout(c)
  BY <1>9, DeadlineCosts, PlainMove DEF RegisterTimeout
<1>10. CASE CameraConfirms(c)
  <2>1. Me(c) \in Cid /\ sid[c] \in Cid
    BY <1>0, <1>10, MeType DEF CameraConfirms, SetupInv
  <2>2. PICK path \in candidates[c] \cap reach :
           confirmed' = confirmed \cup {[cid |-> Me(c), sid |-> sid[c], did |-> Me(c), path |-> path]}
    BY <1>10 DEF CameraConfirms
  <2>3. path \in Path
    BY <1>0 DEF NetType
  <2>4. UNCHANGED <<discovery, reach, pc, attempt, sid, candidates, registered, sock, faults, excused>>
    BY <1>10 DEF CameraConfirms
  <2>5. CallType' /\ NetType' /\ SockType'
    BY <1>0, <2>1, <2>2, <2>3, <2>4 DEF CallType, NetType, SockType
  <2>6. SetupInv' /\ Agreed'
    BY <2>2, <2>4 DEF Inv, SetupInv, Agreed, Me
  <2> QED BY <2>5, <2>6 DEF CallInv
<1>11. CASE OpenRegisteredChannel(c)
  <2>1. PICK cfm \in confirmed : Accepts(c, cfm) /\ Opened(c, "udp-relay", cfm.did, cfm.path)
    BY <1>11 DEF OpenRegisteredChannel
  <2>2. cfm.cid = Me(c) /\ cfm.did = Me(c) /\ cfm.path \in Place
    BY <1>0, <2>1 DEF Accepts, SetupInv, NetType, Place
  <2>3. "udp-relay" \in Transport
    BY DEF Transport
  <2>4. Opened(c, "udp-relay", Me(c), cfm.path)
    BY <2>1, <2>2
  <2>5. /\ pc[c] = "open" /\ Return(c)
        /\ UNCHANGED <<discovery, reach, attempt, registered, confirmed, faults, excused>>
    BY <1>11 DEF OpenRegisteredChannel, Return
  <2> QED BY <2>2, <2>3, <2>4, <2>5, Opens
<1>12. ASSUME Goto(c, "dead") \/ (Goto(c, "failed") /\ pc[c] = "open" /\ UNCHANGED sock),
              UNCHANGED <<discovery, reach, attempt>>, Return(c),
              Costs, Excuses(c),
              UNCHANGED sock \/ sock' = [sock EXCEPT ![c] = NoSock]
       PROVE  CallInv'
  <2>1. CallType'
    BY <1>0, <1>12, CallMoves
  <2>2. NetType'
    BY <1>0, <1>12 DEF NetType, Return
  <2>3. SockType'
    BY <1>0, <1>12 DEF SockType
  <2>4. /\ pc'[c] \in {"dead", "failed"}
        /\ pc'[c] = "failed" => attempt'[c] # 0
        /\ sock'[c] = sock[c] \/ sock'[c] = NoSock
        /\ confirmed' = confirmed /\ attempt'[c] = attempt[c]
        /\ \A d \in Client \ {c} : /\ pc'[d] = pc[d] /\ sock'[d] = sock[d]
                                   /\ sid'[d] = sid[d] /\ attempt'[d] = attempt[d]
    BY <1>0, <1>12 DEF Goto, Return, SetupInv
  <2>5. SetupInv' /\ Agreed'
    <3>1. /\ pc'[c] \notin {"idle", "dead"} => attempt'[c] # 0
          /\ pc'[c] \notin {"save", "write", "replace", "open"}
      BY <2>4
    <3> QED BY <2>4, <3>1, OthersKept
  <2> QED BY <2>1, <2>2, <2>3, <2>5 DEF CallInv
<1>13. CASE OpenTimeout(c)
  BY <1>12, <1>13, DeadlineCosts DEF OpenTimeout
<1>14. CASE Crash(c)
  <2>1. Return(c)
    BY <1>14 DEF Crash, Return
  <2>2. Costs /\ Excuses(c)
    <3>1. excused' = [excused EXCEPT ![c] = TRUE] /\ TRUE \in BOOLEAN
      BY <1>14 DEF Crash
    <3> QED BY <1>14, <3>1 DEF Crash, Costs, Excuses
  <2> QED BY <1>12, <1>14, <2>1, <2>2 DEF Crash
<1>18. CASE SaveLoad(c)
  <2>1. Costs /\ Excuses(c)
    BY <1>18 DEF SaveLoad, Costs, Excuses
  <2> QED BY <1>18, <2>1, PlainMove DEF SaveLoad
<1>15. CASE WriteTemporary(c) \/ Replace(c)
  <2>1. \E l \in {"write", "replace", "connected"} : Goto(c, l)
    BY <1>15 DEF WriteTemporary, Replace
  <2>2. Costs /\ Excuses(c)
    BY <1>15, NoCost DEF WriteTemporary, Replace
  <2>3. /\ UNCHANGED <<discovery, reach, attempt, netVars, sock>>
        /\ pc[c] \in {"save", "write", "replace"}
    BY <1>15 DEF WriteTemporary, Replace
  <2> QED BY <2>1, <2>2, <2>3, PlainMove
<1>16. CASE SaveFails(c)
  <2>1. \E l \in {"failed", "resolve"} : Goto(c, l)
    BY <1>16 DEF SaveFails, LocalFailed
  <2>2. Costs /\ Excuses(c)
    <3>1. excused' = [excused EXCEPT ![c] = TRUE] /\ TRUE \in BOOLEAN
      BY <1>16 DEF SaveFails
    <3> QED BY <1>16, <3>1 DEF SaveFails, Costs, Excuses
  <2> QED BY <1>16, <2>1, <2>2, PlainMove DEF SaveFails
<1>17. CASE UseSocket(c) \/ Restart(c)
  <2>1. Costs /\ Excuses(c)
    BY <1>17, NoCost DEF UseSocket, Restart
  <2>2. /\ UNCHANGED <<discovery, reach, attempt, netVars, sock>>
        /\ Goto(c, "idle") \/ (Goto(c, "connected") /\ pc[c] = "failed")
    BY <1>17 DEF UseSocket, Restart
  <2> QED BY <2>1, <2>2, PlainMove
<1> QED
  BY <1>1, <1>2, <1>3, <1>4, <1>5, <1>6, <1>7, <1>8, <1>9, <1>10, <1>11, <1>13, <1>14, <1>15,
     <1>16, <1>17, <1>18
  DEF Answers, Step

(***************************************************************************)
(* The state file.                                                          *)
(***************************************************************************)

Saving == {"write", "replace"}

\* A process that saves alone goes on from what the file holds of other cameras.
SaveInv ==
    ~ overlapped =>
        \A c \in Client : pc[c] \in Saving =>
            /\ \A n \in Names \ (unread \cup {Name[c]}) : merged[c][n] = saved[n]
            /\ \A d \in Client : pc[d] \in Saving => d = c

LEMMA StateNotTorn ==
  ASSUME NEW c \in Client, NEW s \in State
  PROVE  s # Torn
<1>1. Name[c] \in Names
  BY DEF Names
<1>2. s[Name[c]] # "torn"
  BY <1>1 DEF State, Transport, None
<1> QED BY <1>1, <1>2 DEF Torn

LEMMA FileNext ==
  ASSUME Inv, NEW c \in Client,
         \/ Connect(c) \/ Answers(c) \/ Step(c) \/ SaveFails(c) \/ UseSocket(c) \/ Crash(c) \/ Restart(c)
  PROVE  FileType'
<1>1. FileType /\ Load \in State /\ Name[c] \in Names /\ Empty \in State
  BY Types, LoadType DEF Inv, Names, Empty, State
<1>2. CASE SaveLoad(c)
  <2>1. sock[c].transport \in Transport
    BY <1>2, SockCases DEF SaveLoad, At, Inv, SetupInv
  <2>2. data' \in [Client -> State]
    <3>1. data' = [data EXCEPT ![c][Name[c]] = sock[c].transport]
      BY <1>2 DEF SaveLoad, SaveCurrent
    <3> QED BY <1>1, <2>1, <3>1 DEF FileType, State
  <2>3. \A current \in State : Merge(c, current, data'[c]) \in State
    BY <1>1, <2>2 DEF Merge, State
  <2>4. merged' \in [Client -> State] /\ UNCHANGED <<file, saved>> /\ unread' \subseteq Names
    BY <1>1, <1>2, <2>3 DEF SaveLoad, SaveCurrent, FileType
  <2>5. overlapped' \in BOOLEAN
    BY <1>2, Zenon DEF SaveLoad
  <2> QED BY <1>1, <2>2, <2>4, <2>5 DEF FileType
<1>3. CASE Replace(c)
  <2>1. merged[c] \in State /\ merged[c][Name[c]] \in Transport \cup {None}
    BY <1>1 DEF FileType, State
  <2>2. saved' \in State
    BY <1>1, <1>3, <2>1 DEF Replace, FileType, State
  <2> QED BY <1>1, <1>3, <2>1, <2>2 DEF Replace, FileType
<1>4. CASE SaveFails(c) \/ Crash(c)
  BY <1>1, <1>4 DEF SaveFails, Crash, FileType, histVars
<1>5. CASE Restart(c)
  BY <1>1, <1>5, LoadType DEF Inv, Restart, FileType, histVars
<1>6. CASE Connect(c) \/ Answers(c) \/ UseSocket(c)
  BY <1>1, <1>6
  DEF Connect, Answers, Register, CameraConfirms, UseSocket, FileType, stateVars, histVars
<1>7. CASE \/ LocalReply(c) \/ LocalTimeout(c) \/ ResolveAddress(c) \/ CreateConnection(c)
           \/ Lookup(c) \/ RegisterReply(c) \/ RegisterTimeout(c) \/ OpenRegisteredChannel(c)
           \/ OpenTimeout(c) \/ WriteTemporary(c)
  BY <1>1, <1>7
  DEF LocalReply, LocalTimeout, ResolveAddress, CreateConnection, Lookup, RegisterReply,
      RegisterTimeout, OpenRegisteredChannel, OpenTimeout, WriteTemporary, FileType, stateVars, histVars
<1> QED BY <1>2, <1>3, <1>4, <1>5, <1>6, <1>7 DEF Step

\* Nothing of a save is changed: no process enters one.
LEMMA SaveUnmoved ==
  ASSUME SaveInv, StateKept, UNCHANGED <<file, saved, overlapped, unread>>,
         \A d \in Client : pc'[d] \in Saving => pc[d] \in Saving /\ merged'[d] = merged[d]
  PROVE  SaveInv' /\ StateKept'
  BY DEF SaveInv, StateKept, Load

LEMMA SaveNext ==
  ASSUME Inv, SaveInv, StateKept, NEW c \in Client,
         \/ Connect(c) \/ Answers(c) \/ Step(c) \/ SaveFails(c) \/ UseSocket(c) \/ Crash(c) \/ Restart(c)
  PROVE  SaveInv' /\ StateKept'
<1>1. /\ FileType /\ pc \in [Client -> Stage] /\ Name[c] \in Names
      /\ merged \in [Client -> State] /\ saved \in State
  BY Types DEF Inv, CallType, FileType, Names
<1>2. CASE SaveLoad(c)
  <2>1. /\ pc' = [pc EXCEPT ![c] = "write"] /\ UNCHANGED <<file, saved>> /\ pc[c] = "save"
        /\ ~ overlapped' => ~ overlapped /\ \A d \in Client \ {c} : pc[d] \notin Saving
        /\ unread \subseteq unread'
    BY <1>2 DEF SaveLoad, At, Goto, Overlap, Saving
  <2>2. StateKept'
    BY <2>1 DEF StateKept, Load
  <2>3. ASSUME NEW n \in Names \ (unread' \cup {Name[c]}) PROVE merged'[c][n] = Load[n]
    <3>1. SaveCurrent(c, Load) /\ n # Name[c]
      BY <1>2, <2>3 DEF SaveLoad
    <3> DEFINE own == data'[c]
    <3> HIDE DEF own
    <3>2. merged'[c] = [Load EXCEPT ![Name[c]] = own[Name[c]]]
      BY <1>1, <3>1 DEF SaveCurrent, Merge, own
    <3>3. Load \in [Names -> Transport \cup {None}]
      BY LoadType DEF Inv, State
    <3> QED BY <3>1, <3>2, <3>3
  <2>4. ASSUME ~ overlapped', NEW d \in Client, pc'[d] \in Saving
        PROVE  /\ \A n \in Names \ (unread' \cup {Name[d]}) : merged'[d][n] = saved'[n]
               /\ \A e \in Client : pc'[e] \in Saving => e = d
    <3>1. d = c /\ \A e \in Client : pc'[e] \in Saving => e = c
      BY <1>1, <2>1, <2>4
    <3>2. \A n \in Names \ unread' : Load[n] = saved[n]
      BY <2>1, <2>4 DEF StateKept
    <3> QED BY <2>1, <2>3, <3>1, <3>2
  <2> QED BY <2>2, <2>4 DEF SaveInv
<1>3. CASE Replace(c)
  <2>1. /\ pc' = [pc EXCEPT ![c] = "connected"] /\ pc[c] = "replace" /\ file' = merged[c]
        /\ saved' = [saved EXCEPT ![Name[c]] = merged[c][Name[c]]] /\ overlapped' = overlapped
        /\ unread' = unread \ {Name[c]}
    BY <1>3 DEF Replace, At, Goto
  <2>2. ASSUME ~ overlapped
        PROVE  /\ \A n \in Names \ unread' : merged[c][n] = saved'[n]
               /\ \A d \in Client : pc'[d] \notin Saving
    <3>1. /\ \A n \in Names \ (unread \cup {Name[c]}) : merged[c][n] = saved[n]
          /\ \A d \in Client : pc[d] \in Saving => d = c
      BY <2>1, <2>2 DEF SaveInv, Saving
    <3>2. saved \in [Names -> Transport \cup {None}]
      BY <1>1 DEF State
    <3>3. \A n \in Names : saved'[n] = IF n = Name[c] THEN merged[c][n] ELSE saved[n]
      BY <2>1, <3>2
    <3> QED BY <1>1, <2>1, <3>1, <3>3 DEF Saving
  <2>3. merged[c] # Torn
    BY <1>1, StateNotTorn
  <2> QED BY <2>1, <2>2, <2>3 DEF SaveInv, StateKept, Load
<1>4. CASE WriteTemporary(c)
  BY <1>1, <1>4, SaveUnmoved DEF WriteTemporary, At, Goto, stateVars, histVars, Saving
<1>5. CASE SaveFails(c) \/ Crash(c) \/ Restart(c)
  <2>1. \E l \in {"failed", "resolve", "dead", "idle"} : Goto(c, l)
    BY <1>5 DEF SaveFails, LocalFailed, Crash, Restart
  <2>2. /\ UNCHANGED <<file, saved, overlapped, unread>>
        /\ \A d \in Client : d # c => merged'[d] = merged[d]
    BY <1>1, <1>5 DEF SaveFails, Crash, Restart, histVars
  <2>3. \A d \in Client : pc'[d] \in Saving => pc[d] \in Saving /\ d # c
    BY <1>1, <2>1 DEF Goto, Saving
  <2> QED BY <2>2, <2>3, SaveUnmoved
<1>6. ASSUME UNCHANGED stateVars, UNCHANGED histVars,
             UNCHANGED pc \/ \E l \in Stage \ Saving : Goto(c, l)
      PROVE  SaveInv' /\ StateKept'
  <2>1. \A d \in Client : pc'[d] \in Saving => pc[d] \in Saving
    BY <1>1, <1>6 DEF Goto
  <2> QED BY <1>6, <2>1, SaveUnmoved DEF stateVars, histVars
<1>7. CASE \/ LocalReply(c) \/ LocalTimeout(c) \/ ResolveAddress(c) \/ CreateConnection(c)
           \/ Lookup(c) \/ RegisterReply(c) \/ RegisterTimeout(c) \/ OpenRegisteredChannel(c)
           \/ OpenTimeout(c) \/ Connect(c) \/ Answers(c) \/ UseSocket(c)
  <2>1. UNCHANGED stateVars /\ UNCHANGED histVars
    BY <1>7
    DEF LocalReply, LocalTimeout, ResolveAddress, CreateConnection, Lookup, RegisterReply,
        RegisterTimeout, OpenRegisteredChannel, OpenTimeout, Connect, Answers, Register,
        CameraConfirms, UseSocket
  <2>2. \/ UNCHANGED pc
        \/ \E l \in {"local", "resolve", "failed", "tcp", "lookup", "register", "open", "save",
                     "connected"} : Goto(c, l)
    BY <1>7
    DEF LocalReply, LocalTimeout, LocalFailed, ResolveAddress, CreateConnection, Opened, Lookup,
        RegisterReply, RegisterTimeout, OpenRegisteredChannel, OpenTimeout, Connect, Answers,
        Register, CameraConfirms, UseSocket
  <2>3. {"local", "resolve", "failed", "tcp", "lookup", "register", "open", "save", "connected"}
            \subseteq Stage \ Saving
    BY DEF Stage, Saving
  <2> QED BY <1>6, <2>1, <2>2, <2>3
<1> QED BY <1>2, <1>3, <1>4, <1>5, <1>7 DEF Step

LEMMA InvNext ==
  ASSUME Inv, SaveInv, StateKept, [SetupNext]_setupVars
  PROVE  Inv' /\ SaveInv' /\ StateKept'
<1>1. ASSUME NEW c \in Client,
             \/ Connect(c) \/ Answers(c) \/ Step(c) \/ SaveFails(c) \/ UseSocket(c) \/ Crash(c) \/ Restart(c)
      PROVE  Inv' /\ SaveInv' /\ StateKept'
  <2>1. CallInv' /\ FileType'
    BY <1>1, CallNext, FileNext
  <2>2. SetupTypeOK'
    BY <2>1
    DEF CallInv, SetupTypeOK, CallType, NetType, SockType, FileType, Stage
  <2>3. SaveInv' /\ StateKept'
    BY <1>1, SaveNext
  <2> QED BY <2>1, <2>2, <2>3 DEF Inv, CallInv
<1>2. CASE UNCHANGED setupVars
  <2> USE <1>2 DEF setupVars, netVars, stateVars, histVars
  <2>1. SetupTypeOK'
    BY DEF Inv, SetupTypeOK
  <2>2. SetupInv' /\ Agreed'
    BY DEF Inv, SetupInv, Agreed, Me
  <2>3. SaveInv' /\ StateKept'
    BY SaveUnmoved
  <2> QED BY <2>1, <2>2, <2>3 DEF Inv
<1> QED BY <1>1, <1>2 DEF SetupNext

LEMMA InitSave == SetupInit => SaveInv /\ StateKept
  BY DEF SetupInit, SaveInv, StateKept, Saving

\* Whatever answers of earlier attempts arrive, late or never, the camera knows the channel
\* that a process has opened by the number of this very call, and on the path it uses
\* (core/udp_transport.py: connect_local_direct, _open_registered_channel).
THEOREM ChannelAgreed == SetupSpec => []ChannelInv
<1> DEFINE SInv == Inv /\ SaveInv /\ StateKept
<1>1. SetupInit => SInv
  BY InitInv, InitSave
<1>2. SInv /\ [SetupNext]_setupVars => SInv'
  BY InvNext
<1>3. SInv => ChannelInv
  BY DEF Inv, ChannelInv
<1> QED BY <1>1, <1>2, <1>3, PTL DEF SetupSpec

\* Through crashes and failed writes the state file holds for each camera what was stored
\* last, unless two processes saved at the same time, or a save could not read the file and
\* dropped the others' entries (core/state.py: save, _load, _write_atomic): what a save
\* replaces the file by is what it read, with its own entry changed.
THEOREM FileKept == SetupSpec => []StateKept
<1> DEFINE SInv == Inv /\ SaveInv /\ StateKept
<1>1. SetupInit => SInv
  BY InitInv, InitSave
<1>2. SInv /\ [SetupNext]_setupVars => SInv'
  BY InvNext
<1>3. SInv => StateKept
  OBVIOUS
<1> QED BY <1>1, <1>2, <1>3, PTL DEF SetupSpec

=============================================================================
