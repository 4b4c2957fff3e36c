------------------------------ MODULE UdpSender ------------------------------
(***************************************************************************)
(* The outbound half of UdpBcConnection (core/udp_transport.py): threads    *)
(* that call sendall() or send_untracked() on one connection, the chunks    *)
(* kept for resending until the camera acknowledges them, and the           *)
(* maintenance that resends them.                                           *)
(*                                                                         *)
(* Each call sends one Baichuan message, cut into chunks; it takes its ids  *)
(* with the state lock held and puts its datagrams on the socket after      *)
(* releasing it, so datagrams of two calls leave in any order.              *)
(*                                                                         *)
(* The camera is external.  It is taken to reassemble the stream as this    *)
(* client does: in id order, holding back what follows a gap, and           *)
(* acknowledging with a cumulative id and the offsets of later chunks.      *)
(***************************************************************************)
EXTENDS Integers, Sequences, FiniteSets

CONSTANTS
    Call,           \* the calls of sendall and send_untracked, one message each
    Untracked,      \* those that are send_untracked (keepalive replies)
    Parts,          \* the number of chunks of each call's message
    MaxIds,         \* bound: ids allocated
    MaxAcks,        \* bound: ACKs in flight at a time
    NoAck           \* the packet id 0xFFFFFFFF, larger than every real id

ASSUME SenderAssumption ==
    /\ Untracked \subseteq Call
    /\ Parts \in [Call -> Nat \ {0}]
    /\ MaxIds \in Nat
    /\ MaxAcks \in Nat
    /\ NoAck \in Nat /\ NoAck >= MaxIds

VARIABLES
    next_send_id, sent_chunks, closed,
    step,           \* how far each call is
    packets,        \* each call's local list of packets
    written,        \* history: the chunks in the order of their ids
    \* the network and the camera (external)
    data, acks, cam_held, cam_delivered

connVars == <<next_send_id, sent_chunks, closed>>
callVars == <<step, packets, written>>
envVars  == <<data, acks, cam_held, cam_delivered>>
vars     == <<connVars, callVars, envVars>>

Id      == 0 .. MaxIds - 1
Chunk   == [call : Call, part : Nat \ {0}]
Packet  == [id : Id, chunk : Chunk]
Ack     == [packet_id : Id \cup {NoAck}, payload : SUBSET Id]

MessageOf(c) == [k \in 1 .. Parts[c] |-> [call |-> c, part |-> k]]

TypeOK ==
    /\ next_send_id \in 0 .. MaxIds
    /\ DOMAIN sent_chunks \subseteq Id
    /\ \A i \in DOMAIN sent_chunks : sent_chunks[i] \in Chunk
    /\ closed \in BOOLEAN
    /\ step \in [Call -> {"idle", "sending", "done"}]
    /\ packets \in [Call -> SUBSET Packet]
    /\ written \in Seq(Chunk)
    /\ data \subseteq Packet
    /\ acks \subseteq Ack
    /\ cam_held \subseteq Packet
    /\ cam_delivered \in Seq(Chunk)

Init ==
    /\ next_send_id = 0
    /\ sent_chunks = [i \in {} |-> written[i]]
    /\ closed = FALSE
    /\ step = [c \in Call |-> "idle"]
    /\ packets = [c \in Call |-> {}]
    /\ written = <<>>
    /\ data = {}
    /\ acks = {}
    /\ cam_held = {}
    /\ cam_delivered = <<>>

(***************************************************************************)
(* The calls.                                                               *)
(***************************************************************************)
\* The ids a message takes, and its packets under them.
IdsOf(c) == next_send_id .. next_send_id + Parts[c] - 1

PacketsOf(c) == {[id |-> i, chunk |-> MessageOf(c)[i - next_send_id + 1]] : i \in IdsOf(c)}

\* Mutant: the id advances once per call instead of once per chunk.
AdvancePerCall(c) == next_send_id + 1

Advance(c) == next_send_id + Parts[c]

Allocate(c) ==
    /\ step[c] = "idle"
    /\ Advance(c) <= MaxIds
    /\ packets' = [packets EXCEPT ![c] = PacketsOf(c)]
    /\ next_send_id' = Advance(c)
    /\ written' = written \o MessageOf(c)
    /\ step' = [step EXCEPT ![c] = "sending"]

SendAll(c) ==
    /\ c \notin Untracked
    /\ Allocate(c)
    /\ sent_chunks' = [i \in DOMAIN sent_chunks \cup IdsOf(c) |->
                          IF i \in IdsOf(c) THEN MessageOf(c)[i - next_send_id + 1]
                                            ELSE sent_chunks[i]]
    /\ UNCHANGED <<closed, envVars>>

\* A keepalive is answered, so the camera has heard from this client before.
SendUntracked(c) ==
    /\ c \in Untracked
    /\ cam_delivered # <<>>
    /\ Allocate(c)
    /\ UNCHANGED <<sent_chunks, closed, envVars>>

\* A datagram the network loses is one that never enters `data'.
Transmit(ps) == \E lost \in SUBSET ps : data' = data \cup (ps \ lost)

\* _send_packets: nothing is sent, and nothing raised, once the connection is closed.
SendPackets(c) ==
    /\ step[c] = "sending"
    /\ IF closed THEN UNCHANGED data ELSE Transmit(packets[c])
    /\ step' = [step EXCEPT ![c] = "done"]
    /\ UNCHANGED <<connVars, packets, written, acks, cam_held, cam_delivered>>

Close ==
    /\ ~ closed
    /\ closed' = TRUE
    /\ UNCHANGED <<next_send_id, sent_chunks, callVars, envVars>>

(***************************************************************************)
(* Maintenance and ACKs.                                                    *)
(***************************************************************************)
Unacknowledged == {[id |-> i, chunk |-> sent_chunks[i]] : i \in DOMAIN sent_chunks}

\* _resend_pending: a snapshot of every chunk kept, sent after the lock is released.
Resend ==
    /\ ~ closed
    /\ sent_chunks # <<>>
    /\ Transmit(Unacknowledged)
    /\ UNCHANGED <<connVars, callVars, acks, cam_held, cam_delivered>>

\* Mutants: an offset counted from the cumulative id itself; the offsets ignored.
AcknowledgedShifted(a) ==
    IF a.packet_id = NoAck THEN {}
    ELSE {i \in Id : i <= a.packet_id \/ \E idx \in a.payload : i = a.packet_id + idx}

AcknowledgedCumulative(a) ==
    IF a.packet_id = NoAck THEN {} ELSE {i \in Id : i <= a.packet_id}

Acknowledged(a) ==
    IF a.packet_id = NoAck THEN {}
    ELSE {i \in Id : i <= a.packet_id \/ \E idx \in a.payload : i = a.packet_id + 1 + idx}

HandleAck(a) ==
    /\ ~ closed
    /\ sent_chunks' = [i \in DOMAIN sent_chunks \ Acknowledged(a) |-> sent_chunks[i]]
    /\ acks' \in {acks, acks \ {a}}
    /\ UNCHANGED <<next_send_id, closed, callVars, data, cam_held, cam_delivered>>

(***************************************************************************)
(* The camera and the network.                                              *)
(***************************************************************************)
Expected == Len(cam_delivered)

HeldIds(held) == {p.id : p \in held}

\* `to' is the first id from Expected on that is not held.
Contiguous(to, held) ==
    /\ to \notin HeldIds(held)
    /\ Expected .. to - 1 \subseteq HeldIds(held)

CameraReceive(p) ==
    /\ p.id >= Expected
    /\ p.id \notin HeldIds(cam_held)
    /\ data' \in {data, data \ {p}}
    /\ \E to \in Expected .. MaxIds :
          LET held == cam_held \cup {p}
              at(i) == (CHOOSE q \in held : q.id = i).chunk
          IN  /\ Contiguous(to, held)
              /\ cam_delivered' = cam_delivered \o [k \in 1 .. to - Expected |-> at(Expected + k - 1)]
              /\ cam_held' = {q \in held : q.id >= to}
    /\ UNCHANGED <<connVars, callVars, acks>>

CameraDuplicate(p) ==
    /\ p.id < Expected \/ p.id \in HeldIds(cam_held)
    /\ data' = data \ {p}
    /\ UNCHANGED <<connVars, callVars, acks, cam_held, cam_delivered>>

CameraAckNow ==
    IF Expected = 0
    THEN [packet_id |-> NoAck, payload |-> {}]
    ELSE [packet_id |-> Expected - 1,
          payload |-> {i - Expected : i \in HeldIds(cam_held)}]

\* The ACKs not in `late' have been lost by the time this one is sent.
CameraAck ==
    /\ \E late \in SUBSET acks :
          /\ Cardinality(late) < MaxAcks
          /\ acks' = late \cup {CameraAckNow}
    /\ UNCHANGED <<connVars, callVars, data, cam_held, cam_delivered>>

\* Once the connection is closed the camera's answers are not read any more.
Environment ==
    /\ ~ closed
    /\ \/ \E p \in data : CameraReceive(p) \/ CameraDuplicate(p)
       \/ CameraAck

Next ==
    \/ \E c \in Call : SendAll(c) \/ SendUntracked(c) \/ SendPackets(c)
    \/ Close
    \/ Resend
    \/ \E a \in acks : HandleAck(a)
    \/ Environment

Spec == Init /\ [][Next]_vars

(***************************************************************************)
(* Fairness.  A thread inside sendall() runs; the maintenance thread keeps   *)
(* resending, and while the camera lacks chunks that are resent the network *)
(* does not lose all of them for ever; the camera acknowledges, and not     *)
(* every ACK with news is lost.                                             *)
(***************************************************************************)
Missing(p) == p.id >= Expected /\ p.id \notin HeldIds(cam_held)

Fairness ==
    /\ \A c \in Call : WF_vars(SendPackets(c))
    /\ SF_vars(Resend /\ \E p \in data' \ data : Missing(p))
    /\ WF_vars(~ closed /\ \E p \in data : CameraReceive(p))
    /\ WF_vars(~ closed /\ CameraAck)
    /\ SF_vars(\E a \in acks : HandleAck(a) /\ sent_chunks' # sent_chunks)

FairSpec == Spec /\ Fairness

-----------------------------------------------------------------------------
(***************************************************************************)
(* Properties.                                                              *)
(***************************************************************************)

\* What the camera reads is an ordered stream of whole messages: concurrent calls
\* of sendall() never interleave their chunks, nothing is delivered twice, and
\* nothing is skipped.
Stream == INSTANCE OrderedStream WITH
    Message   <- {MessageOf(c) : c \in Call},
    position  <- Len(cam_delivered),
    delivered <- cam_delivered,
    lossy     <- FALSE

ImplementsStream == Stream!Spec

Arrived(i) == i < Expected \/ i \in HeldIds(cam_held)

Tracked(i) == written[i + 1].call \notin Untracked

\* sendall() keeps a chunk until the camera has it: no ACK, late or repeated, makes
\* the connection forget a chunk that has not arrived.
KeptUntilArrived ==
    \A i \in 0 .. next_send_id - 1 :
        Tracked(i) => Arrived(i) \/ (i \in DOMAIN sent_chunks /\ sent_chunks[i] = written[i + 1])

\* The queue of what is resent is well formed, and holds what has not arrived.
SenderInv == TypeOK /\ KeptUntilArrived

\* Every chunk of sendall() is acknowledged in the end and stops being resent,
\* whatever is lost, unless the connection is closed.
ResendQueueDrains == []<>(closed \/ DOMAIN sent_chunks = {})

\* "Socket-like reliable UDP channel for Baichuan bytes" (udp_transport.py:26): what
\* sendall() was given is read by the camera in the end.
SendAllDelivers ==
    \A i \in Id :
        i < next_send_id /\ Tracked(i) ~> (closed \/ i < Expected)

=============================================================================
