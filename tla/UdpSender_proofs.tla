-------------------------- MODULE UdpSender_proofs --------------------------
(***************************************************************************)
(* Machine-checked proofs about UdpSender, for any set of calls, any lengths *)
(* of their messages and any number of ids and ACKs.                        *)
(***************************************************************************)
EXTENDS UdpSender, SequenceTheorems, TLAPS

(***************************************************************************)
(* The inductive invariant.                                                 *)
(***************************************************************************)

\* Every id below next_send_id was given to one written chunk.
WrittenInv == Len(written) = next_send_id

\* A packet carries the chunk that was written under its id.
Own(p) == p.id < next_send_id /\ p.chunk = written[p.id + 1]

\* So do the packets of the calls, of the network and of the camera, and the chunks
\* kept for resending.
PacketsInv ==
    /\ \A p \in data \cup cam_held : Own(p)
    /\ \A c \in Call : \A p \in packets[c] : Own(p)
    /\ \A i \in DOMAIN sent_chunks : i < next_send_id /\ sent_chunks[i] = written[i + 1]

\* The camera has delivered the chunks up to the one it expects, in the order of their
\* ids, and holds only later ones.
CameraInv ==
    /\ Expected <= next_send_id
    /\ \A k \in 1 .. Expected : cam_delivered[k] = written[k]
    /\ \A p \in cam_held : p.id > Expected

\* No ACK in flight, late or not, covers a chunk the camera does not have.
AcksInv == \A a \in acks : \A i \in Acknowledged(a) : Arrived(i)

IInv == TypeOK /\ WrittenInv /\ PacketsInv /\ CameraInv /\ AcksInv /\ KeptUntilArrived

LEMMA InitIInv == Init => IInv
<1> SUFFICES ASSUME Init PROVE IInv
  OBVIOUS
<1>1. /\ next_send_id = 0 /\ closed = FALSE /\ step = [c \in Call |-> "idle"]
      /\ packets = [c \in Call |-> {}] /\ data = {} /\ acks = {} /\ cam_held = {}
      /\ DOMAIN sent_chunks = {}
  BY DEF Init
<1>2. /\ written = <<>> /\ Len(written) = 0 /\ written \in Seq(Chunk)
      /\ cam_delivered = <<>> /\ Expected = 0 /\ cam_delivered \in Seq(Chunk)
  BY EmptySeq DEF Init, Expected
<1>3. 0 \in 0 .. MaxIds
  BY SenderAssumption
<1>4. TypeOK
  BY <1>1, <1>2, <1>3 DEF TypeOK
<1>5. WrittenInv /\ PacketsInv /\ AcksInv
  BY <1>1, <1>2 DEF WrittenInv, PacketsInv, AcksInv
<1>6. CameraInv
  <2>1. 1 .. Expected = {} /\ Expected <= next_send_id
    BY <1>1, <1>2
  <2> QED BY <1>1, <2>1 DEF CameraInv
<1>7. KeptUntilArrived
  <2>1. 0 .. next_send_id - 1 = {}
    BY <1>1
  <2> QED BY <2>1 DEF KeptUntilArrived
<1> QED BY <1>4, <1>5, <1>6, <1>7 DEF IInv

(***************************************************************************)
(* What the operators of the model yield.                                   *)
(***************************************************************************)

\* A call's message is the sequence of its parts.
LEMMA MessageParts ==
  ASSUME NEW c \in Call
  PROVE  /\ Parts[c] \in Nat /\ Parts[c] >= 1
         /\ MessageOf(c) \in Seq(Chunk) /\ Len(MessageOf(c)) = Parts[c]
         /\ \A k \in 1 .. Parts[c] : MessageOf(c)[k] = [call |-> c, part |-> k]
<1>1. Parts[c] \in Nat /\ Parts[c] >= 1
  BY SenderAssumption
<1>2. \A k \in 1 .. Parts[c] : [call |-> c, part |-> k] \in Chunk
  BY <1>1 DEF Chunk
<1> QED BY <1>1, <1>2 DEF MessageOf

\* An allocation appends the message under the next ids, and every packet it makes
\* carries the chunk written under its id.
LEMMA AllocateAppends ==
  ASSUME IInv, NEW c \in Call, Allocate(c)
  PROVE  /\ written' \in Seq(Chunk) /\ Len(written') = next_send_id'
         /\ next_send_id' = next_send_id + Parts[c] /\ next_send_id' \in 0 .. MaxIds
         /\ \A i \in 0 .. next_send_id - 1 : written'[i + 1] = written[i + 1]
         /\ IdsOf(c) = next_send_id .. next_send_id' - 1 /\ IdsOf(c) \subseteq Id
         /\ \A i \in IdsOf(c) : /\ i \in Id /\ i < next_send_id'
                                /\ written'[i + 1] = MessageOf(c)[i - next_send_id + 1]
                                /\ written'[i + 1] \in Chunk /\ written'[i + 1].call = c
         /\ \A p \in PacketsOf(c) : p \in Packet /\ Own(p)'
<1>1. /\ next_send_id' = Advance(c) /\ Advance(c) <= MaxIds /\ written' = written \o MessageOf(c)
  BY DEF Allocate
<1>2. /\ next_send_id \in Nat /\ MaxIds \in Nat /\ written \in Seq(Chunk)
      /\ Len(written) = next_send_id
  BY SenderAssumption DEF IInv, TypeOK, WrittenInv
<1>3. next_send_id' = next_send_id + Parts[c] /\ next_send_id' \in 0 .. MaxIds
  BY <1>1, <1>2, MessageParts DEF Advance
<1>4. /\ written' \in Seq(Chunk) /\ Len(written') = next_send_id'
      /\ \A k \in 1 .. next_send_id' : written'[k] =
             IF k <= next_send_id THEN written[k] ELSE MessageOf(c)[k - next_send_id]
  <2> DEFINE m == MessageOf(c)
  <2>1. m \in Seq(Chunk) /\ Len(m) = Parts[c]
    BY MessageParts
  <2>2. written' = written \o m
    BY <1>1
  <2> HIDE DEF m
  <2>3. /\ written \o m \in Seq(Chunk) /\ Len(written \o m) = Len(written) + Len(m)
        /\ \A k \in 1 .. Len(written) + Len(m) : (written \o m)[k] =
               IF k <= Len(written) THEN written[k] ELSE m[k - Len(written)]
    BY <1>2, <2>1, ConcatProperties
  <2>4. /\ written' \in Seq(Chunk) /\ Len(written') = next_send_id'
        /\ \A k \in 1 .. next_send_id' : written'[k] =
               IF k <= next_send_id THEN written[k] ELSE m[k - next_send_id]
    BY <1>2, <1>3, <2>1, <2>2, <2>3
  <2> QED BY <2>4 DEF m
<1>5. \A i \in 0 .. next_send_id - 1 : written'[i + 1] = written[i + 1]
  <2> TAKE i \in 0 .. next_send_id - 1
  <2>1. i + 1 \in 1 .. next_send_id' /\ i + 1 <= next_send_id
    BY <1>2, <1>3, MessageParts
  <2> QED BY <1>4, <2>1
<1>6. IdsOf(c) = next_send_id .. next_send_id' - 1 /\ IdsOf(c) \subseteq Id
  BY <1>2, <1>3, MessageParts DEF IdsOf, Id
<1>7. ASSUME NEW i \in IdsOf(c)
      PROVE  /\ i \in Id /\ i < next_send_id' /\ written'[i + 1] = MessageOf(c)[i - next_send_id + 1]
             /\ written'[i + 1] \in Chunk /\ written'[i + 1].call = c
  <2>1. /\ i \in Nat /\ i < next_send_id' /\ i - next_send_id + 1 \in 1 .. Parts[c]
        /\ i + 1 \in 1 .. next_send_id' /\ ~ (i + 1 <= next_send_id)
        /\ (i + 1) - next_send_id = i - next_send_id + 1
    <3>1. Parts[c] \in Nat
      BY MessageParts
    <3>2. i \in next_send_id .. next_send_id' - 1
      BY <1>6
    <3> QED BY <1>2, <1>3, <3>1, <3>2
  <2>2. written'[i + 1] = MessageOf(c)[i - next_send_id + 1]
    BY <1>4, <2>1
  <2>3. MessageOf(c)[i - next_send_id + 1] = [call |-> c, part |-> i - next_send_id + 1]
    BY <2>1, MessageParts
  <2>4. [call |-> c, part |-> i - next_send_id + 1] \in Chunk
    BY <2>1 DEF Chunk
  <2> QED BY <1>6, <2>1, <2>2, <2>3, <2>4
<1>8. ASSUME NEW p \in PacketsOf(c)
      PROVE  p \in Packet /\ Own(p)'
  <2>1. PICK i \in IdsOf(c) : p = [id |-> i, chunk |-> MessageOf(c)[i - next_send_id + 1]]
    BY DEF PacketsOf
  <2>2. p.id = i /\ p.chunk = written'[i + 1]
    BY <1>7, <2>1
  <2> QED BY <1>7, <2>1, <2>2 DEF Packet, Own
<1> QED BY <1>3, <1>4, <1>5, <1>6, <1>7, <1>8

\* What was written before keeps its id, so that packets in use stay what they were.
LEMMA OwnStays ==
  ASSUME IInv, NEW c \in Call, Allocate(c), NEW p \in Packet, Own(p)
  PROVE  Own(p)'
<1>1. p.id \in 0 .. next_send_id - 1 /\ next_send_id' >= next_send_id /\ next_send_id \in Nat
      /\ next_send_id' \in Nat
  BY AllocateAppends, MessageParts, SenderAssumption DEF Own, Packet, Id, IInv, TypeOK
<1>2. written'[p.id + 1] = written[p.id + 1]
  BY <1>1, AllocateAppends
<1> QED BY <1>1, <1>2 DEF Own

(***************************************************************************)
(* The calls preserve the invariant.                                        *)
(***************************************************************************)

\* What both kinds of call have in common: all but the chunks kept.
LEMMA AllocateIInv ==
  ASSUME IInv, NEW c \in Call, Allocate(c), UNCHANGED <<closed, envVars>>
  PROVE  /\ WrittenInv' /\ CameraInv' /\ AcksInv'
         /\ \A p \in data' \cup cam_held' : Own(p)'
         /\ \A d \in Call : \A p \in packets'[d] : Own(p)'
         /\ packets' \in [Call -> SUBSET Packet] /\ step' \in [Call -> {"idle", "sending", "done"}]
         /\ UNCHANGED <<data, acks, cam_held, cam_delivered, Expected>>
<1>1. UNCHANGED <<data, acks, cam_held, cam_delivered, Expected>>
  BY DEF envVars, Expected
<1>2. /\ packets \in [Call -> SUBSET Packet] /\ step \in [Call -> {"idle", "sending", "done"}]
      /\ data \subseteq Packet /\ cam_held \subseteq Packet /\ next_send_id \in Nat
      /\ cam_delivered \in Seq(Chunk) /\ Expected \in Nat
  BY DEF IInv, TypeOK, Expected
<1>3. /\ packets' = [packets EXCEPT ![c] = PacketsOf(c)]
      /\ step' = [step EXCEPT ![c] = "sending"]
  BY DEF Allocate
<1>4. \A p \in PacketsOf(c) : p \in Packet /\ Own(p)'
  BY AllocateAppends
<1>5. packets' \in [Call -> SUBSET Packet] /\ step' \in [Call -> {"idle", "sending", "done"}]
  BY <1>2, <1>3, <1>4
<1>6. \A p \in data' \cup cam_held' : Own(p)'
  BY <1>1, <1>2, OwnStays DEF IInv, PacketsInv
<1>7. ASSUME NEW d \in Call, NEW p \in packets'[d] PROVE Own(p)'
  <2>1. CASE d = c
    BY <1>2, <1>3, <1>4, <2>1
  <2>2. CASE d # c
    BY <1>2, <1>3, <2>2, OwnStays DEF IInv, PacketsInv
  <2> QED BY <2>1, <2>2
<1>8. WrittenInv'
  BY AllocateAppends DEF WrittenInv
<1>9. CameraInv'
  <2>1. /\ Expected <= next_send_id /\ \A k \in 1 .. Expected : cam_delivered[k] = written[k]
        /\ \A p \in cam_held : p.id > Expected
    BY DEF IInv, CameraInv
  <2>2. Expected <= next_send_id'
    BY <1>2, <2>1, AllocateAppends, MessageParts
  <2>3. ASSUME NEW k \in 1 .. Expected PROVE written'[k] = written[k]
    <3>1. k - 1 \in 0 .. next_send_id - 1 /\ (k - 1) + 1 = k
      BY <1>2, <2>1
    <3> QED BY <3>1, AllocateAppends
  <2> QED BY <1>1, <2>1, <2>2, <2>3 DEF CameraInv
<1>10. AcksInv'
  BY <1>1 DEF IInv, AcksInv, Arrived, Acknowledged
<1> QED BY <1>1, <1>5, <1>6, <1>7, <1>8, <1>9, <1>10

LEMMA SendAllIInv ==
  ASSUME IInv, NEW c \in Call, SendAll(c)
  PROVE  IInv'
<1>1. /\ Allocate(c) /\ UNCHANGED <<closed, envVars>>
      /\ sent_chunks' = [i \in DOMAIN sent_chunks \cup IdsOf(c) |->
                            IF i \in IdsOf(c) THEN MessageOf(c)[i - next_send_id + 1]
                                              ELSE sent_chunks[i]]
  BY DEF SendAll
<1>2. /\ next_send_id \in Nat /\ next_send_id' \in Nat /\ next_send_id' >= next_send_id
      /\ IdsOf(c) = next_send_id .. next_send_id' - 1 /\ IdsOf(c) \subseteq Id
      /\ \A i \in 0 .. next_send_id - 1 : written'[i + 1] = written[i + 1]
      /\ \A i \in IdsOf(c) : /\ written'[i + 1] = MessageOf(c)[i - next_send_id + 1]
                             /\ written'[i + 1] \in Chunk
  <2>1. next_send_id \in Nat
    BY DEF IInv, TypeOK
  <2>2. next_send_id' = next_send_id + Parts[c] /\ Parts[c] \in Nat
    BY <1>1, AllocateAppends, MessageParts
  <2>3. next_send_id' \in Nat /\ next_send_id' >= next_send_id
    BY <2>1, <2>2
  <2> QED BY <1>1, <2>1, <2>3, AllocateAppends
<1>3. DOMAIN sent_chunks' = DOMAIN sent_chunks \cup IdsOf(c)
  BY <1>1
<1>0. /\ DOMAIN sent_chunks \subseteq Id
      /\ \A i \in DOMAIN sent_chunks : /\ i < next_send_id /\ sent_chunks[i] = written[i + 1]
                                       /\ sent_chunks[i] \in Chunk
  BY DEF IInv, TypeOK, PacketsInv
<1>4. \A i \in IdsOf(c) : i \in Id /\ i < next_send_id'
  BY <1>1, AllocateAppends
<1>5. ASSUME NEW i \in DOMAIN sent_chunks'
      PROVE  i \in Id /\ i < next_send_id' /\ sent_chunks'[i] = written'[i + 1] /\ sent_chunks'[i] \in Chunk
  <2>1. CASE i \in IdsOf(c)
    <3>1. i \in Id /\ i < next_send_id'
      BY <1>4, <2>1, Zenon
    <3>2. sent_chunks'[i] = MessageOf(c)[i - next_send_id + 1]
      BY <1>1, <2>1
    <3> QED BY <1>2, <2>1, <3>1, <3>2
  <2>2. CASE i \notin IdsOf(c)
    <3>1. i \in DOMAIN sent_chunks /\ i \in 0 .. next_send_id - 1 /\ i \in Id /\ i < next_send_id'
      BY <1>0, <1>2, <1>3, <2>2 DEF Id
    <3> QED BY <1>0, <1>1, <1>2, <1>3, <2>2, <3>1
  <2> QED BY <2>1, <2>2
<1>6. TypeOK'
  BY <1>1, <1>5, AllocateAppends, AllocateIInv DEF IInv, TypeOK
<1>7. PacketsInv'
  BY <1>1, <1>5, AllocateIInv DEF PacketsInv
<1>8. KeptUntilArrived'
  <2> SUFFICES ASSUME NEW i \in 0 .. next_send_id' - 1, Tracked(i)'
               PROVE  Arrived(i)' \/ (i \in DOMAIN sent_chunks' /\ sent_chunks'[i] = written'[i + 1])
    BY DEF KeptUntilArrived
  <2>1. CASE i \in IdsOf(c)
    BY <1>3, <1>5, <2>1
  <2>2. CASE i \notin IdsOf(c)
    <3>1. i \in 0 .. next_send_id - 1
      BY <1>2, <2>2
    <3>2. Tracked(i) /\ (Arrived(i)' <=> Arrived(i))
      BY <1>1, <1>2, <3>1, AllocateIInv DEF Tracked, Arrived
    <3> QED BY <1>3, <1>5, <3>1, <3>2 DEF IInv, KeptUntilArrived
  <2> QED BY <2>1, <2>2
<1> QED BY <1>1, <1>6, <1>7, <1>8, AllocateIInv DEF IInv

\* What send_untracked() writes is not tracked, so that nothing more need be kept.
LEMMA SendUntrackedIInv ==
  ASSUME IInv, NEW c \in Call, SendUntracked(c)
  PROVE  IInv'
<1>1. /\ Allocate(c) /\ UNCHANGED <<closed, envVars>> /\ c \in Untracked /\ sent_chunks' = sent_chunks
  BY DEF SendUntracked
<1>2. /\ next_send_id \in Nat /\ next_send_id' \in Nat /\ next_send_id' >= next_send_id
      /\ IdsOf(c) = next_send_id .. next_send_id' - 1
      /\ \A i \in 0 .. next_send_id - 1 : written'[i + 1] = written[i + 1]
      /\ \A i \in IdsOf(c) : written'[i + 1].call = c
  <2>1. next_send_id \in Nat
    BY DEF IInv, TypeOK
  <2>2. next_send_id' = next_send_id + Parts[c] /\ Parts[c] \in Nat
    BY <1>1, AllocateAppends, MessageParts
  <2>3. next_send_id' \in Nat /\ next_send_id' >= next_send_id
    BY <2>1, <2>2
  <2> QED BY <1>1, <2>1, <2>3, AllocateAppends
<1>3. \A i \in DOMAIN sent_chunks : i \in 0 .. next_send_id - 1 /\ sent_chunks[i] = written[i + 1]
  BY <1>2 DEF IInv, TypeOK, PacketsInv, Id
<1>4. \A i \in DOMAIN sent_chunks' : i < next_send_id' /\ sent_chunks'[i] = written'[i + 1]
  BY <1>1, <1>2, <1>3
<1>5. TypeOK'
  BY <1>1, AllocateAppends, AllocateIInv DEF IInv, TypeOK
<1>6. PacketsInv'
  BY <1>1, <1>4, AllocateIInv DEF PacketsInv
<1>7. KeptUntilArrived'
  <2> SUFFICES ASSUME NEW i \in 0 .. next_send_id' - 1, Tracked(i)'
               PROVE  Arrived(i)' \/ (i \in DOMAIN sent_chunks' /\ sent_chunks'[i] = written'[i + 1])
    BY DEF KeptUntilArrived
  <2>1. i \notin IdsOf(c)
    BY <1>1, <1>2 DEF Tracked
  <2>2. i \in 0 .. next_send_id - 1
    BY <1>2, <2>1
  <2>3. Tracked(i) /\ (Arrived(i)' <=> Arrived(i))
    BY <1>1, <1>2, <2>2, AllocateIInv DEF Tracked, Arrived
  <2> QED BY <1>1, <1>2, <2>2, <2>3 DEF IInv, KeptUntilArrived
<1> QED BY <1>1, <1>5, <1>6, <1>7, AllocateIInv DEF IInv

(***************************************************************************)
(* Sending, resending and ACKs preserve the invariant.                      *)
(***************************************************************************)

\* Datagrams that carry what was written may enter the network, lost or not.
LEMMA TransmitIInv ==
  ASSUME IInv, NEW ps \in SUBSET Packet, \A p \in ps : Own(p), Transmit(ps),
         UNCHANGED <<next_send_id, sent_chunks, written, packets, acks, cam_held, cam_delivered>>
  PROVE  /\ data' \subseteq Packet /\ PacketsInv' /\ WrittenInv' /\ CameraInv' /\ AcksInv'
         /\ KeptUntilArrived'
<1>1. data' \subseteq data \cup ps
  BY DEF Transmit
<1>2. \A p : Own(p)' <=> Own(p)
  BY DEF Own
<1>3. PacketsInv'
  BY <1>1, <1>2 DEF IInv, PacketsInv
<1>4. WrittenInv' /\ CameraInv' /\ AcksInv' /\ KeptUntilArrived'
  BY DEF IInv, WrittenInv, CameraInv, Expected, AcksInv, Acknowledged, KeptUntilArrived, Arrived,
         Tracked, HeldIds
<1> QED BY <1>1, <1>3, <1>4 DEF IInv, TypeOK

LEMMA SendPacketsIInv ==
  ASSUME IInv, NEW c \in Call, SendPackets(c)
  PROVE  IInv'
<1>1. /\ UNCHANGED <<next_send_id, sent_chunks, closed, written, packets, acks, cam_held, cam_delivered>>
      /\ step' = [step EXCEPT ![c] = "done"]
      /\ Transmit(packets[c]) \/ UNCHANGED data
  BY DEF SendPackets, connVars
<1>2. step' \in [Call -> {"idle", "sending", "done"}]
  BY <1>1 DEF IInv, TypeOK
<1>3. packets[c] \in SUBSET Packet /\ \A p \in packets[c] : Own(p)
  BY DEF IInv, TypeOK, PacketsInv
<1>4. Transmit(packets[c])
  BY <1>1 DEF Transmit
<1> QED BY <1>1, <1>2, <1>3, <1>4, TransmitIInv DEF IInv, TypeOK

LEMMA ResendIInv ==
  ASSUME IInv, Resend
  PROVE  IInv'
<1>1. /\ UNCHANGED <<next_send_id, sent_chunks, closed, step, written, packets, acks, cam_held,
                     cam_delivered>>
      /\ Transmit(Unacknowledged)
  BY DEF Resend, connVars, callVars
<1>2. Unacknowledged \in SUBSET Packet /\ \A p \in Unacknowledged : Own(p)
  BY DEF Unacknowledged, Packet, Own, IInv, TypeOK, PacketsInv
<1> QED BY <1>1, <1>2, TransmitIInv DEF IInv, TypeOK

\* An ACK takes away only chunks that have arrived.
LEMMA HandleAckIInv ==
  ASSUME IInv, NEW a \in acks, HandleAck(a)
  PROVE  IInv'
<1>1. /\ UNCHANGED <<next_send_id, closed, step, packets, written, data, cam_held, cam_delivered>>
      /\ sent_chunks' = [i \in DOMAIN sent_chunks \ Acknowledged(a) |-> sent_chunks[i]]
      /\ acks' \subseteq acks
  BY DEF HandleAck, callVars
<1>2. DOMAIN sent_chunks' = DOMAIN sent_chunks \ Acknowledged(a)
      /\ \A i \in DOMAIN sent_chunks' : sent_chunks'[i] = sent_chunks[i]
  BY <1>1
<1>3. TypeOK'
  BY <1>1, <1>2 DEF IInv, TypeOK
<1>4. WrittenInv' /\ CameraInv'
  BY <1>1 DEF IInv, WrittenInv, CameraInv, Expected
<1>5. PacketsInv'
  BY <1>1, <1>2 DEF IInv, PacketsInv, Own
<1>6. \A i : Arrived(i)' <=> Arrived(i)
  BY <1>1 DEF Arrived, Expected, HeldIds
<1>7. AcksInv'
  BY <1>1, <1>6 DEF IInv, AcksInv, Acknowledged
<1>8. KeptUntilArrived'
  <2> SUFFICES ASSUME NEW i \in 0 .. next_send_id - 1, Tracked(i), ~ Arrived(i)
               PROVE  i \in DOMAIN sent_chunks' /\ sent_chunks'[i] = written[i + 1]
    BY <1>1, <1>6 DEF KeptUntilArrived, Tracked
  <2>1. i \in DOMAIN sent_chunks /\ sent_chunks[i] = written[i + 1]
    BY DEF IInv, KeptUntilArrived
  <2>2. i \notin Acknowledged(a)
    BY DEF IInv, AcksInv
  <2> QED BY <1>2, <2>1, <2>2
<1> QED BY <1>3, <1>4, <1>5, <1>7, <1>8 DEF IInv

(***************************************************************************)
(* The camera preserves the invariant.                                      *)
(***************************************************************************)

\* What the camera delivers next is the written stream up to the first gap.
LEMMA ReceiveDelivers ==
  ASSUME IInv, NEW p \in data, CameraReceive(p)
  PROVE  \E to \in Expected .. next_send_id :
            /\ Contiguous(to, cam_held \cup {p})
            /\ cam_delivered' = cam_delivered \o SubSeq(written, Expected + 1, to)
            /\ cam_held' = {q \in cam_held \cup {p} : q.id >= to}
<1> DEFINE held == cam_held \cup {p}
           at(i) == (CHOOSE q \in held : q.id = i).chunk
<1>1. PICK to \in Expected .. MaxIds :
         /\ Contiguous(to, held)
         /\ cam_delivered' = cam_delivered \o [k \in 1 .. to - Expected |-> at(Expected + k - 1)]
         /\ cam_held' = {q \in held : q.id >= to}
  BY DEF CameraReceive
<1>2. held \subseteq Packet /\ \A q \in held : Own(q)
  BY DEF IInv, TypeOK, PacketsInv
<1>3. /\ Expected \in Nat /\ to \in Nat /\ Expected <= to /\ next_send_id \in Nat
      /\ Expected <= next_send_id /\ written \in Seq(Chunk) /\ Len(written) = next_send_id
  BY SenderAssumption DEF IInv, TypeOK, CameraInv, WrittenInv, Expected
<1>4. Expected .. to - 1 \subseteq HeldIds(held)
  BY <1>1 DEF Contiguous
<1> HIDE DEF held
<1>5. ASSUME NEW i \in Expected .. to - 1
      PROVE  i < next_send_id /\ at(i) = written[i + 1]
  <2>1. \E q \in held : q.id = i
    BY <1>4 DEF HeldIds
  <2>2. (CHOOSE q \in held : q.id = i) \in held /\ (CHOOSE q \in held : q.id = i).id = i
    BY <2>1
  <2> QED BY <1>2, <2>2 DEF Own
<1>6. to <= next_send_id
  <2>1. CASE to = Expected
    BY <1>3, <2>1
  <2>2. CASE to # Expected
    <3>1. to - 1 \in Expected .. to - 1
      BY <1>3, <2>2
    <3>2. to - 1 < next_send_id
      BY <1>5, <3>1
    <3> QED BY <1>3, <3>2
  <2> QED BY <2>1, <2>2
<1>7. [k \in 1 .. to - Expected |-> at(Expected + k - 1)] = SubSeq(written, Expected + 1, to)
  <2> DEFINE run == [k \in 1 .. to - Expected |-> at(Expected + k - 1)]
             sub == SubSeq(written, Expected + 1, to)
  <2>1. ASSUME NEW k \in 1 .. to - Expected
        PROVE  /\ at(Expected + k - 1) = written[Expected + k] /\ written[Expected + k] \in Chunk
               /\ (Expected + 1) + k - 1 = Expected + k
    <3>1. Expected + k - 1 \in Expected .. to - 1 /\ (Expected + k - 1) + 1 = Expected + k
          /\ (Expected + 1) + k - 1 = Expected + k /\ Expected + k \in 1 .. next_send_id
      BY <1>3, <1>6
    <3>2. written[Expected + k] \in Chunk
      BY <1>3, <3>1
    <3>3. at(Expected + k - 1) = written[Expected + k - 1 + 1]
      BY <1>5, <3>1
    <3> HIDE DEF at
    <3> QED BY <3>1, <3>2, <3>3
  <2> HIDE DEF at
  <2>2. /\ run \in Seq(Chunk) /\ Len(run) = to - Expected
        /\ \A k \in 1 .. to - Expected : run[k] = written[Expected + k]
    <3>1. to - Expected \in Nat
      BY <1>3
    <3>2. \A k \in 1 .. to - Expected : at(Expected + k - 1) \in Chunk
      BY <2>1
    <3>3. run \in Seq(Chunk) /\ Len(run) = to - Expected
      BY <3>1, <3>2
    <3>4. \A k \in 1 .. to - Expected : run[k] = at(Expected + k - 1)
      BY Zenon
    <3> QED BY <2>1, <3>3, <3>4
  <2>3. /\ sub \in Seq(Chunk) /\ Len(sub) = to - Expected
        /\ \A k \in 1 .. to - Expected : sub[k] = written[Expected + k]
    <3>1. \A i \in Expected + 1 .. to : written[i] \in Chunk
      BY <1>3, <1>6
    <3>2. /\ sub \in Seq(Chunk)
          /\ Len(sub) = IF Expected + 1 <= to THEN to - (Expected + 1) + 1 ELSE 0
          /\ \A k \in 1 .. to - (Expected + 1) + 1 : sub[k] = written[(Expected + 1) + k - 1]
      BY <1>3, <3>1, SubSeqProperties
    <3>3. to - (Expected + 1) + 1 = to - Expected /\ Len(sub) = to - Expected
      BY <1>3, <3>2
    <3> QED BY <2>1, <3>2, <3>3
  <2> HIDE DEF run, sub
  <2>4. run = sub
    BY <2>2, <2>3, SeqEqual
  <2> QED BY <2>4 DEF run, sub
<1> HIDE DEF at
<1>8. to \in Expected .. next_send_id
  BY <1>3, <1>6
<1> QED BY <1>1, <1>7, <1>8 DEF held

\* The chunks delivered are those written, and none that had arrived is lost again.
LEMMA ReceiveIInv ==
  ASSUME IInv, NEW p \in data, CameraReceive(p)
  PROVE  IInv'
<1>1. PICK to \in Expected .. next_send_id :
         /\ Contiguous(to, cam_held \cup {p})
         /\ cam_delivered' = cam_delivered \o SubSeq(written, Expected + 1, to)
         /\ cam_held' = {q \in cam_held \cup {p} : q.id >= to}
  BY ReceiveDelivers
<1>2. /\ UNCHANGED <<next_send_id, sent_chunks, closed, step, packets, written, acks>>
      /\ data' \subseteq data
  BY DEF CameraReceive, connVars, callVars
<1>3. /\ Expected \in Nat /\ to \in Nat /\ Expected <= to /\ to <= next_send_id /\ next_send_id \in Nat
      /\ written \in Seq(Chunk) /\ Len(written) = next_send_id
      /\ cam_delivered \in Seq(Chunk) /\ Len(cam_delivered) = Expected
      /\ cam_held \subseteq Packet /\ p \in Packet
  BY <1>1 DEF IInv, TypeOK, CameraInv, WrittenInv, Expected
<1>4. /\ cam_delivered' \in Seq(Chunk) /\ Expected' = to
      /\ \A k \in 1 .. to : cam_delivered'[k] = written[k]
  <2> DEFINE sub == SubSeq(written, Expected + 1, to)
  <2>1. \A i \in Expected + 1 .. to : written[i] \in Chunk
    BY <1>3
  <2>2. /\ sub \in Seq(Chunk)
        /\ Len(sub) = IF Expected + 1 <= to THEN to - (Expected + 1) + 1 ELSE 0
        /\ \A k \in 1 .. to - (Expected + 1) + 1 : sub[k] = written[(Expected + 1) + k - 1]
    BY <1>3, <2>1, SubSeqProperties
  <2>3. /\ Len(sub) = to - Expected
        /\ \A k \in 1 .. to - Expected : sub[k] = written[Expected + k]
    <3>1. to - (Expected + 1) + 1 = to - Expected
      BY <1>3
    <3>2. ASSUME NEW k \in 1 .. to - Expected PROVE (Expected + 1) + k - 1 = Expected + k
      BY <1>3
    <3>3. Len(sub) = to - Expected
      BY <1>3, <2>2
    <3> HIDE DEF sub
    <3> QED BY <2>2, <3>1, <3>2, <3>3
  <2> HIDE DEF sub
  <2>4. /\ cam_delivered \o sub \in Seq(Chunk) /\ Len(cam_delivered \o sub) = Expected + Len(sub)
        /\ \A k \in 1 .. Expected + Len(sub) : (cam_delivered \o sub)[k] =
               IF k <= Expected THEN cam_delivered[k] ELSE sub[k - Expected]
    BY <1>3, <2>2, ConcatProperties
  <2>5. cam_delivered' = cam_delivered \o sub
    BY <1>1 DEF sub
  <2>6. Expected + Len(sub) = to
    BY <1>3, <2>3
  <2>7. ASSUME NEW k \in 1 .. to PROVE cam_delivered'[k] = written[k]
    <3>1. CASE k <= Expected
      <4>1. k \in 1 .. Expected
        BY <1>3, <3>1
      <4>2. cam_delivered[k] = written[k]
        BY <4>1 DEF IInv, CameraInv
      <4> QED BY <2>4, <2>5, <2>6, <3>1, <4>2
    <3>2. CASE ~ (k <= Expected)
      <4>1. k - Expected \in 1 .. to - Expected /\ Expected + (k - Expected) = k
        BY <1>3, <3>2
      <4> QED BY <2>3, <2>4, <2>5, <2>6, <3>2, <4>1
    <3> QED BY <3>1, <3>2
  <2> QED BY <2>4, <2>5, <2>6, <2>7 DEF Expected
<1>5. cam_held' \subseteq cam_held \cup {p} /\ cam_held' \subseteq Packet
  BY <1>1, <1>3
<1>6. TypeOK'
  BY <1>2, <1>4, <1>5 DEF IInv, TypeOK
<1>7. WrittenInv' /\ PacketsInv'
  BY <1>2, <1>5 DEF IInv, WrittenInv, PacketsInv, Own
<1>8. CameraInv'
  <2>1. ASSUME NEW q \in cam_held' PROVE q.id > to
    <3>1. q \in cam_held \cup {p} /\ q.id >= to /\ q.id \in Nat
      BY <1>1, <1>5 DEF Packet, Id
    <3>2. q.id # to
      BY <1>1, <3>1 DEF Contiguous, HeldIds
    <3> QED BY <1>3, <3>1, <3>2
  <2> QED BY <1>2, <1>3, <1>4, <2>1 DEF CameraInv
<1>9. ASSUME NEW i \in Nat, Arrived(i) PROVE Arrived(i)'
  <2>1. CASE i < Expected
    BY <1>3, <1>4, <2>1 DEF Arrived
  <2>2. CASE i \in HeldIds(cam_held)
    <3>1. PICK q \in cam_held : q.id = i
      BY <2>2 DEF HeldIds
    <3>2. CASE i < to
      BY <1>4, <3>2 DEF Arrived
    <3>3. CASE ~ (i < to)
      <4>1. q \in cam_held'
        BY <1>1, <1>3, <3>1, <3>3
      <4> QED BY <3>1, <4>1 DEF Arrived, HeldIds
    <3> QED BY <3>2, <3>3
  <2> QED BY <1>9, <2>1, <2>2 DEF Arrived
<1>10. AcksInv'
  <2>1. \A a \in acks : Acknowledged(a) \subseteq Nat
    BY DEF Acknowledged, Id
  <2> QED BY <1>2, <1>9, <2>1 DEF IInv, AcksInv, Acknowledged
<1>11. KeptUntilArrived'
  <2>1. \A i \in 0 .. next_send_id - 1 : i \in Nat
    OBVIOUS
  <2> QED BY <1>2, <1>9, <2>1 DEF IInv, KeptUntilArrived, Tracked
<1> QED BY <1>6, <1>7, <1>8, <1>10, <1>11 DEF IInv

\* The ACK the camera sends covers what it has.
LEMMA CameraAckIInv ==
  ASSUME IInv, CameraAck
  PROVE  IInv'
<1>1. /\ UNCHANGED <<next_send_id, sent_chunks, closed, step, packets, written, data, cam_held,
                     cam_delivered>>
      /\ acks' \subseteq acks \cup {CameraAckNow}
  BY DEF CameraAck, connVars, callVars
<1>2. /\ Expected \in Nat /\ MaxIds \in Nat /\ NoAck \in Nat /\ Expected <= MaxIds
      /\ cam_held \subseteq Packet /\ \A q \in cam_held : q.id > Expected /\ q.id \in 0 .. MaxIds - 1
  BY SenderAssumption DEF IInv, TypeOK, CameraInv, Expected, Packet, Id
<1>3. \A i \in HeldIds(cam_held) : i > Expected /\ i \in 0 .. MaxIds - 1
  BY <1>2 DEF HeldIds
<1>4. CameraAckNow \in Ack
  <2>1. CASE Expected = 0
    BY <2>1 DEF CameraAckNow, Ack
  <2>2. CASE Expected # 0
    <3>1. Expected - 1 \in Id
      BY <1>2, <2>2 DEF Id
    <3>2. {i - Expected : i \in HeldIds(cam_held)} \in SUBSET Id
      BY <1>2, <1>3 DEF Id
    <3> QED BY <2>2, <3>1, <3>2 DEF CameraAckNow, Ack
  <2> QED BY <2>1, <2>2
<1>5. ASSUME NEW i \in Acknowledged(CameraAckNow) PROVE Arrived(i)
  <2>1. CASE Expected = 0
    BY <2>1 DEF CameraAckNow, Acknowledged
  <2>2. CASE Expected # 0
    <3>1. /\ CameraAckNow.packet_id = Expected - 1
          /\ CameraAckNow.payload = {j - Expected : j \in HeldIds(cam_held)}
      BY <2>2 DEF CameraAckNow
    <3>2. /\ i \in Nat
          /\ i <= Expected - 1 \/ \E idx \in CameraAckNow.payload : i = Expected - 1 + 1 + idx
      BY <1>2, <2>2, <3>1 DEF Acknowledged, Id
    <3>3. CASE i <= Expected - 1
      BY <1>2, <3>2, <3>3 DEF Arrived
    <3>4. CASE \E idx \in CameraAckNow.payload : i = Expected - 1 + 1 + idx
      <4>1. PICK j \in HeldIds(cam_held) : i = Expected - 1 + 1 + (j - Expected)
        BY <3>1, <3>4
      <4>2. i = j
        BY <1>2, <1>3, <4>1
      <4> QED BY <4>2 DEF Arrived
    <3> QED BY <3>2, <3>3, <3>4
  <2> QED BY <2>1, <2>2
<1>6. TypeOK'
  BY <1>1, <1>4 DEF IInv, TypeOK
<1>7. WrittenInv' /\ CameraInv' /\ PacketsInv' /\ KeptUntilArrived'
  BY <1>1 DEF IInv, WrittenInv, CameraInv, Expected, PacketsInv, Own, KeptUntilArrived, Arrived,
         Tracked, HeldIds
<1>8. AcksInv'
  <2>1. \A i : Arrived(i)' <=> Arrived(i)
    BY <1>1 DEF Arrived, Expected, HeldIds
  <2> QED BY <1>1, <1>5, <2>1 DEF IInv, AcksInv, Acknowledged
<1> QED BY <1>6, <1>7, <1>8 DEF IInv

LEMMA OthersIInv ==
  ASSUME IInv, Close \/ (\E p \in data : CameraDuplicate(p)) \/ UNCHANGED vars
  PROVE  IInv'
<1>1. /\ UNCHANGED <<next_send_id, sent_chunks, step, packets, written, acks, cam_held, cam_delivered>>
      /\ data' \subseteq data /\ closed' \in {closed, TRUE}
  BY DEF Close, CameraDuplicate, vars, connVars, callVars, envVars
<1>2. TypeOK'
  <2>1. closed' \in BOOLEAN
    BY <1>1 DEF IInv, TypeOK
  <2> QED BY <1>1, <2>1 DEF IInv, TypeOK
<1> QED BY <1>1, <1>2 DEF IInv, WrittenInv, CameraInv, Expected, PacketsInv, Own, AcksInv,
        Acknowledged, KeptUntilArrived, Arrived, Tracked, HeldIds

LEMMA NextIInv == IInv /\ [Next]_vars => IInv'
<1> SUFFICES ASSUME IInv, [Next]_vars PROVE IInv'
  OBVIOUS
<1>1. ASSUME NEW c \in Call, SendAll(c) PROVE IInv'
  BY <1>1, SendAllIInv
<1>2. ASSUME NEW c \in Call, SendUntracked(c) PROVE IInv'
  BY <1>2, SendUntrackedIInv
<1>3. ASSUME NEW c \in Call, SendPackets(c) PROVE IInv'
  BY <1>3, SendPacketsIInv
<1>4. CASE Resend
  BY <1>4, ResendIInv
<1>5. ASSUME NEW a \in acks, HandleAck(a) PROVE IInv'
  BY <1>5, HandleAckIInv
<1>6. ASSUME NEW p \in data, CameraReceive(p) PROVE IInv'
  BY <1>6, ReceiveIInv
<1>7. CASE CameraAck
  BY <1>7, CameraAckIInv
<1>8. CASE Close \/ (\E p \in data : CameraDuplicate(p)) \/ UNCHANGED vars
  BY <1>8, OthersIInv
<1> QED BY <1>1, <1>2, <1>3, <1>4, <1>5, <1>6, <1>7, <1>8 DEF Next, Environment

LEMMA AlwaysIInv == Spec => []IInv
BY InitIInv, NextIInv, PTL DEF Spec

\* The connection keeps every chunk of sendall() until the camera has it: whatever is
\* lost, duplicated or late, no ACK takes a chunk that has not arrived out of
\* sent_chunks (_handle_ack, _resend_pending).
THEOREM KeptSafe == Spec => []SenderInv
<1>1. IInv => SenderInv
  BY DEF IInv, SenderInv
<1> QED BY <1>1, AlwaysIInv, PTL

(***************************************************************************)
(* The refinement of OrderedStream.                                         *)
(***************************************************************************)

\* A call is a Write of its whole message, whatever other calls do meanwhile.
LEMMA AllocateWrites ==
  ASSUME NEW c \in Call, SendAll(c) \/ SendUntracked(c)
  PROVE  Stream!Write
<1>1. written' = written \o MessageOf(c) /\ UNCHANGED <<Len(cam_delivered), cam_delivered, FALSE>>
  BY DEF SendAll, SendUntracked, Allocate, envVars
<1> QED BY <1>1 DEF Stream!Write

\* A datagram that closes a gap makes the camera read what follows, up to the next gap.
LEMMA ReceiveRefines ==
  ASSUME IInv, NEW p \in data, CameraReceive(p)
  PROVE  Stream!Deliver \/ UNCHANGED Stream!vars
<1>1. PICK to \in Expected .. next_send_id :
         cam_delivered' = cam_delivered \o SubSeq(written, Expected + 1, to)
  BY ReceiveDelivers
<1>2. written' = written
  BY DEF CameraReceive, callVars
<1>3. /\ Expected \in Nat /\ to \in Nat /\ Expected <= to /\ to <= Len(written)
      /\ next_send_id \in Nat /\ Len(written) = next_send_id
      /\ written \in Seq(Chunk) /\ cam_delivered \in Seq(Chunk) /\ Expected = Len(cam_delivered)
  BY <1>1 DEF IInv, TypeOK, CameraInv, WrittenInv, Expected
<1>4. CASE to = Expected
  <2>1. SubSeq(written, Expected + 1, to) = <<>>
    BY <1>3, <1>4, SubSeqEmpty
  <2>2. cam_delivered' = cam_delivered
    BY <1>1, <1>3, <2>1, ConcatEmptySeq
  <2> QED BY <1>2, <2>2 DEF Stream!vars
<1>5. CASE to # Expected
  <2>1. Expected < to
    BY <1>3, <1>5
  <2>2. Len(cam_delivered') = to
    <3>1. \A i \in Expected + 1 .. to : written[i] \in Chunk
      BY <1>3
    <3>2. /\ SubSeq(written, Expected + 1, to) \in Seq(Chunk)
          /\ Len(SubSeq(written, Expected + 1, to)) = to - Expected
      BY <1>3, <2>1, <3>1, SubSeqProperties
    <3> QED BY <1>1, <1>3, <3>2
  <2>3. Expected \in Expected .. Len(written) /\ to \in Expected .. Len(written)
    BY <1>3
  <2>4. cam_delivered' = cam_delivered \o SubSeq(written, Len(cam_delivered) + 1, to)
    BY <1>1, <1>3
  <2> QED BY <1>2, <1>3, <2>1, <2>2, <2>3, <2>4 DEF Stream!Deliver
<1> QED BY <1>4, <1>5

\* The outbound half of UdpBcConnection implements an ordered stream of whole messages:
\* calls of several threads do not mix their chunks, and the camera reads every chunk in
\* order, once, and without a gap ("a socket", docs/05).
THEOREM Refinement == Spec => ImplementsStream
<1>1. Init => Stream!Init
  BY DEF Init, Stream!Init
<1>2. IInv /\ [Next]_vars => [Stream!Next]_(Stream!vars)
  <2> SUFFICES ASSUME IInv, [Next]_vars PROVE [Stream!Next]_(Stream!vars)
    OBVIOUS
  <2>1. ASSUME NEW c \in Call, SendAll(c) \/ SendUntracked(c) PROVE Stream!Next
    BY <2>1, AllocateWrites DEF Stream!Next
  <2>2. ASSUME NEW p \in data, CameraReceive(p) PROVE [Stream!Next]_(Stream!vars)
    BY <2>2, ReceiveRefines DEF Stream!Next
  <2>3. CASE UNCHANGED <<written, cam_delivered>>
    BY <2>3 DEF Stream!vars
  <2>4. ASSUME (\E c \in Call : SendPackets(c)) \/ Close \/ Resend \/ (\E a \in acks : HandleAck(a))
               \/ (\E p \in data : CameraDuplicate(p)) \/ CameraAck \/ UNCHANGED vars
        PROVE  UNCHANGED <<written, cam_delivered>>
    BY <2>4 DEF SendPackets, Close, Resend, HandleAck, CameraDuplicate, CameraAck, vars, callVars, envVars
  <2> QED BY <2>1, <2>2, <2>3, <2>4 DEF Next, Environment
<1> QED BY <1>1, <1>2, AlwaysIInv, PTL DEF Spec, ImplementsStream, Stream!Spec

=============================================================================
