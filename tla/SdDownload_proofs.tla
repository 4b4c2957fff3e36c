------------------------- MODULE SdDownload_proofs -------------------------
(***************************************************************************)
(* Machine-checked proofs about SdDownload.  Four layers of one inductive  *)
(* invariant, each kept by every step once those before it are:            *)
(*   StateInv     the values, and the attempts counted (BudgetKept);       *)
(*   FinalInv     who holds the completed file at the end (OldKept);       *)
(*   ComingInv    nothing answers a request that is still to come;         *)
(*   TransferInv, FilesInv   the blocks of a clean transfer, from the      *)
(*                camera through the queue to the file (WholeFile).        *)
(***************************************************************************)
EXTENDS SdDownload, SequenceTheorems, FiniteSetTheorems, WellFoundedInduction, TLAPS

(***************************************************************************)
(* What a subscription takes of a queue.                                   *)
(***************************************************************************)

\* A set of numbers has a least one.
LEMMA LeastOf ==
  ASSUME NEW G, G \subseteq Nat, G # {}
  PROVE  \E m \in G : \A y \in G : ~ (y < m)
<1> DEFINE R == OpToRel(<, Nat)
<1>1. \E m \in G : \A y \in G : <<y, m>> \notin R
  <2>1. IsWellFoundedOn(R, Nat)
    BY NatLessThanWellFounded
  <2> HIDE DEF R
  <2> QED BY <2>1, WFMin
<1>2. \A y, m \in Nat : y < m => <<y, m>> \in R
  BY DEF OpToRel
<1> QED BY <1>1, <1>2

\* Of a finite set of numbers as many as it has elements can be counted off, from the
\* least on.
LEMMA Counted ==
  ASSUME NEW n \in Nat, NEW kept \in SUBSET (1 .. n), NEW k \in 1 .. Cardinality(kept)
  PROVE  \E i \in kept : Cardinality({j \in kept : j <= i}) = k
<1> DEFINE before(i) == {j \in kept : j <= i}
           G == {i \in Nat : Cardinality(before(i)) >= k}
<1>0. \A j \in kept : j \in Nat /\ 1 <= j /\ j <= n
  OBVIOUS
<1>1. IsFiniteSet(kept) /\ Cardinality(kept) \in Nat
  <2>1. IsFiniteSet(1 .. n)
    BY FS_Interval
  <2> QED BY <2>1, FS_Subset, FS_CardinalityType
<1>2. \A i \in Nat : IsFiniteSet(before(i)) /\ Cardinality(before(i)) \in Nat
  BY <1>1, FS_Subset, FS_CardinalityType
<1>3. n \in G
  <2>1. before(n) = kept
    BY <1>0
  <2> QED BY <1>1, <2>1
<1>4. 0 \notin G
  <2>1. \A j \in kept : ~ (j <= 0)
    BY <1>0
  <2>2. before(0) = {}
    BY <2>1, Zenon
  <2> HIDE DEF before
  <2>3. Cardinality(before(0)) = 0
    BY <2>2, FS_EmptySet
  <2>4. k \in Nat /\ k >= 1
    BY <1>1
  <2> QED BY <2>3, <2>4
<1>5. PICK m \in G : \A y \in G : ~ (y < m)
  <2> HIDE DEF G
  <2>1. G \subseteq Nat
    BY DEF G
  <2> QED BY <1>3, <2>1, LeastOf
<1>6. m \in Nat \ {0} /\ m - 1 \in Nat /\ m - 1 \notin G /\ Cardinality(before(m)) >= k
  <2>1. m \in Nat /\ Cardinality(before(m)) >= k
    OBVIOUS
  <2>2. m # 0
    BY <1>4
  <2> HIDE DEF G
  <2> QED BY <1>5, <2>1, <2>2
<1>7. ~ (Cardinality(before(m - 1)) >= k)
  BY <1>6
<1>8. before(m - 1) = before(m) \ {m}
  <2>1. \A j \in kept : j <= m - 1 <=> j <= m /\ j # m
    BY <1>0, <1>6
  <2> QED BY <2>1
<1>9. Cardinality(before(m) \ {m})
         = IF m \in before(m) THEN Cardinality(before(m)) - 1 ELSE Cardinality(before(m))
  <2>1. IsFiniteSet(before(m))
    BY <1>2, <1>6
  <2> HIDE DEF before
  <2> QED BY <2>1, FS_RemoveElement
<1> DEFINE c == Cardinality(before(m))
<1>10. c \in Nat /\ k \in Nat /\ c >= k
  <2>1. k \in Nat
    BY <1>1
  <2>2. m \in Nat => c \in Nat
    BY <1>2
  <2> QED BY <1>6, <2>1, <2>2
<1>11. m \in before(m) /\ c = k
  <2>1. Cardinality(before(m - 1)) = IF m \in before(m) THEN c - 1 ELSE c
    BY <1>8, <1>9
  <2>2. ~ ((IF m \in before(m) THEN c - 1 ELSE c) >= k)
    BY <1>7, <2>1
  <2> HIDE DEF before, c
  <2> QED BY <1>10, <2>2
<1> QED BY <1>11

\* What is kept of a queue are elements of the set, and no more than there were.
LEMMA KeptType ==
  ASSUME NEW T, NEW s \in Seq(T), NEW S
  PROVE  /\ Kept(s, S) \in Seq({x \in T : x \in S})
         /\ Len(Kept(s, S)) <= Len(s) /\ Len(Kept(s, S)) \in Nat
<1> DEFINE kept == {i \in 1 .. Len(s) : s[i] \in S}
           place(k) == CHOOSE i \in kept : Cardinality({j \in kept : j <= i}) = k
           U == {x \in T : x \in S}
<1>1. Len(s) \in Nat /\ kept \in SUBSET (1 .. Len(s))
  OBVIOUS
<1>2. Cardinality(kept) \in Nat /\ Cardinality(kept) <= Len(s)
  <2>1. IsFiniteSet(1 .. Len(s)) /\ Cardinality(1 .. Len(s)) = Len(s)
    <3>1. Cardinality(1 .. Len(s)) = IF 1 > Len(s) THEN 0 ELSE Len(s) - 1 + 1
      BY <1>1, FS_Interval
    <3> QED BY <1>1, <3>1, FS_Interval
  <2> HIDE DEF kept
  <2> QED BY <1>1, <2>1, FS_Subset, FS_CardinalityType
<1>3. ASSUME NEW k \in 1 .. Cardinality(kept) PROVE s[place(k)] \in U
  <2>1. \E i \in kept : Cardinality({j \in kept : j <= i}) = k
    <3> HIDE DEF kept
    <3> QED BY <1>1, Counted
  <2>2. place(k) \in kept
    BY <2>1
  <2>3. \A i \in kept : s[i] \in U
    BY ElementOfSeq
  <2> QED BY <2>2, <2>3
<1>4. Kept(s, S) = [k \in 1 .. Cardinality(kept) |-> s[place(k)]]
  BY DEF Kept
<1> HIDE DEF place, kept, U
<1>5. Kept(s, S) \in [1 .. Cardinality(kept) -> U]
  BY <1>3, <1>4
<1>6. Kept(s, S) \in Seq(U) /\ Len(Kept(s, S)) = Cardinality(kept)
  BY <1>2, <1>5
<1> QED BY <1>2, <1>6 DEF U

(***************************************************************************)
(* The inductive invariant.                                                *)
(***************************************************************************)

\* A data message carries a block.
Sent == {m \in Message : m.kind = "data" => m.n # 0}

Ready     == {"idle", "next", "reconnect"}
Finishing == {"convert", "converting", "unlink", "replace"}

\* The locals of a call: it is at one of its strategies, and counts its reconnections.
CallInv ==
    /\ pc \in Ready \cup {"transfer", "raw", "cleanup"} \cup Finishing
    /\ call \in 0 .. MaxCalls /\ index \in 1 .. Len(Strategy) + 1
    /\ next_reconnect_attempt \in 1 .. Retries + 1
    /\ next_delayed_reconnect_attempt \in 1 .. DelayedRetries + 1
    /\ tries = (next_reconnect_attempt - 1) + (next_delayed_reconnect_attempt - 1)
    /\ only_timeouts \in BOOLEAN /\ outcome \in {"none", "done", "failed"}
    /\ pc = "idle" => index = 1
    /\ pc # "idle" => call # 0
    /\ pc \notin Ready => index <= Len(Strategy)

QueueInv ==
    /\ queue \in Seq(Sent) /\ Len(queue) <= QueueSize
    /\ accepted_msg_nums \subseteq Request \cup {None} /\ resync \in BOOLEAN
    /\ pc # "transfer" => queue = <<>>

SessionInv ==
    /\ conn \in {"none", "up", "down"} /\ framing \in {"ok", "lost"}
    /\ fault \in {"none", "magic", "lost"}
    /\ unmatched \in Seq(Sent) /\ Len(unmatched) <= Unmatched
    /\ stream \in [Request -> 0 .. Size + 1] /\ mishaps \in 0 .. MaxMishaps

FileType ==
    /\ part \in [1 .. Len(Strategy) -> File]
    /\ converted \in File /\ raw_path \in File /\ output \in File

StateInv == CallInv /\ QueueInv /\ SessionInv /\ FileType

Converts == Mp4 /\ Kind(req) # "direct"

\* The file that is to take the name of the output is completed before the old one goes.
FinalInv ==
    /\ Exists(output) => output.by # None
    /\ pc \in {"convert", "converting"} => Converts /\ part[index].by # None
    /\ pc \in {"unlink", "replace"} =>
          IF Converts THEN converted.by # None ELSE part[index].by # None

\* The requests that are still to come.
Coming(r) ==
    \/ r[1] > call
    \/ pc = "next" /\ r[1] = call /\ r[2] >= index
    \/ pc \in {"transfer", "raw"} /\ r[1] = call /\ r[2] > index

Heard == {m \in Sent : ~ Coming(m.req)}

\* Nothing answers them yet.
ComingInv ==
    /\ \A r \in Request : Coming(r) => stream[r] = 0
    /\ unmatched \in Seq(Heard)

\* v is the next block of the request o after what is in front of place i of the queue q: the
\* w blocks written, or the last data there, if those are its own.
Follows(q, w, o, i, v) ==
    /\ (\A j \in 1 .. i - 1 : q[j].kind # "data") => v = w + 1
    /\ \A j \in 1 .. i - 1 :
          q[j].kind = "data" /\ q[j].req = o /\ (\A k \in j + 1 .. i - 1 : q[k].kind # "data")
             => v = q[j].n + 1

Position(m) == IF m.kind = "data" THEN m.n ELSE Size + 1

\* So is each of its messages in the queue, and what the camera sends next.
Chain(q, w, o, next) ==
    /\ \A i \in 1 .. Len(q) :
          q[i].req = o /\ q[i].kind \in {"data", "end"} /\ ~ q[i].resync
             => Follows(q, w, o, i, Position(q[i]))
    /\ next # 0 => Follows(q, w, o, Len(q) + 1, next)

\* A transfer that has lost, skipped or taken in nothing so far.
Clean ==
    /\ ~ part[index].lost /\ OnlyOwn(part[index])
    /\ Kind(req) = "playback" => ~ resync

\* Its file holds the first blocks, and each message of its own brings the next one.
CleanInv ==
    /\ \A i \in 1 .. written : part[index].data[i] = [req |-> req, n |-> i]
    /\ Chain(queue, written, req, stream[req])

TransferInv ==
    /\ pc \in {"transfer", "raw"} =>
          /\ part[index].of = req /\ part[index].by = None
    /\ pc = "transfer" =>
          /\ MsgNum(req) \in accepted_msg_nums
          /\ ~ Reached(written)
          /\ \A i \in 1 .. Len(queue) :
                queue[i].req = req /\ queue[i].resync => Kind(req) = "playback"
          /\ Clean => CleanInv
    /\ pc = "raw" => ~ Reached(written) \/ ~ OnlyOwn(part[index])

\* A file is the whole recording once it is said to be, except as Whole excepts.
FileOk(f) ==
    Exists(f) /\ ~ f.lost /\ f.by = f.of /\ OnlyOwn(f) => f.data = Blocks(f.of)

FilesInv ==
    /\ FileOk(output) /\ FileOk(converted)
    /\ \A i \in DOMAIN part : FileOk(part[i])

\* The file list does not tell less than the size: the code clips a download there.
ListedInFull == Listed = 0 \/ Listed >= Size

(***************************************************************************)
(* The strategies, and the values of the state.                            *)
(***************************************************************************)
USE DownloadAssumption

LEMMA StrategyLen == Len(Strategy) \in Nat \ {0}
<1> DEFINE Kinds == {"direct", "playback", "replay"}
<1>1. ASSUME NEW n \in Nat, NEW k \in Kinds
      PROVE  Times(n, k) \in Seq(Kinds) /\ Len(Times(n, k)) = n
  <2>1. Times(n, k) \in [1 .. n -> Kinds]
    BY DEF Times
  <2> QED BY <2>1
<1>2. Queries \in Seq(Kinds) /\ Len(Queries) \in Nat \ {0}
  <2> DEFINE P == Times(Ranges, "playback")
             R == IF Replay THEN <<"replay">> ELSE <<>>
             F == Times(6 + 8, "direct")
  <2>1. P \in Seq(Kinds) /\ F \in Seq(Kinds) /\ Times(2, "direct") \in Seq(Kinds)
        /\ Len(Times(2, "direct")) = 2
    <3>1. "playback" \in Kinds /\ "direct" \in Kinds /\ Ranges \in Nat /\ 14 \in Nat
      OBVIOUS
    <3> HIDE DEF Kinds
    <3>2. 6 + 8 = 14
      OBVIOUS
    <3> QED BY <1>1, <3>1, <3>2
  <2>2. R \in Seq(Kinds) /\ <<"direct">> \in Seq(Kinds) /\ Len(<<"direct">>) = 1
    OBVIOUS
  <2> HIDE DEF P, R, F, Kinds
  <2>3. P \o Times(2, "direct") \in Seq(Kinds) /\ Len(P \o Times(2, "direct")) = Len(P) + 2
        /\ Len(P) \in Nat
    BY <2>1, ConcatProperties, LenProperties
  <2>4. <<"direct">> \o P \in Seq(Kinds) /\ Len(<<"direct">> \o P) = 1 + Len(P)
    BY <2>1, <2>2, ConcatProperties
  <2>5. <<"direct">> \o P \o <<"direct">> \in Seq(Kinds)
        /\ Len(<<"direct">> \o P \o <<"direct">>) = 1 + Len(P) + 1
    BY <2>2, <2>4, ConcatProperties
  <2>6. <<"direct">> \o P \o <<"direct">> \o R \in Seq(Kinds)
        /\ Len(<<"direct">> \o P \o <<"direct">> \o R) = 1 + Len(P) + 1 + Len(R)
        /\ Len(R) \in Nat
    BY <2>2, <2>5, ConcatProperties, LenProperties
  <2>7. <<"direct">> \o P \o <<"direct">> \o R \o F \in Seq(Kinds)
        /\ Len(<<"direct">> \o P \o <<"direct">> \o R \o F) = 1 + Len(P) + 1 + Len(R) + Len(F)
        /\ Len(F) \in Nat
    BY <2>1, <2>6, ConcatProperties, LenProperties
  <2>8. Queries = IF Forced THEN P \o Times(2, "direct")
                  ELSE <<"direct">> \o P \o <<"direct">> \o R \o F
    BY DEF Queries, P, R, F
  <2>9. CASE Forced
    BY <2>3, <2>8, <2>9
  <2>10. CASE ~ Forced
    BY <2>3, <2>6, <2>7, <2>8, <2>10
  <2> QED BY <2>9, <2>10
<1> DEFINE upto == IF Attempts \in 1 .. Len(Queries) THEN Attempts ELSE Len(Queries)
<1> HIDE DEF Kinds
<1>3. upto \in 1 .. Len(Queries)
  BY <1>2
<1>4. Strategy = SubSeq(Queries, 1, upto)
  BY DEF Strategy
<1> HIDE DEF upto
<1>5. \A i \in 1 .. upto : Queries[i] \in Kinds
  BY <1>2, <1>3, ElementOfSeq
<1>6. Len(SubSeq(Queries, 1, upto)) = IF 1 <= upto THEN upto - 1 + 1 ELSE 0
  BY <1>2, <1>3, <1>5, SubSeqProperties
<1> QED BY <1>2, <1>3, <1>4, <1>6

LEMMA RequestCases ==
  /\ None \notin Request
  /\ call \in 1 .. MaxCalls /\ index \in 1 .. Len(Strategy) => req \in Request /\ req # None
  /\ \A r \in Request : MsgNum(r) \in Request \cup {None}
BY StrategyLen DEF Request, None, req, MsgNum

LEMMA NoFileType == NoFile \in File /\ ~ Exists(NoFile) /\ FileOk(NoFile)
BY DEF NoFile, File, Exists, FileOk

\* The part file of a new transfer.
NewPart == [NoFile EXCEPT !.of = req]

LEMMA NewFile ==
  ASSUME call \in 0 .. MaxCalls, index \in 1 .. Len(Strategy)
  PROVE  /\ NewPart \in File
         /\ NewPart.of = req /\ NewPart.data = <<>> /\ NewPart.by = None /\ ~ NewPart.lost
<1>1. req \in Request
  BY StrategyLen DEF req, Request
<1>2. NoFile \in File
  BY NoFileType
<1>3. NewPart \in File
  BY <1>1, <1>2 DEF NewPart, File
<1>4. NewPart.of = req /\ NewPart.data = NoFile.data /\ NewPart.by = NoFile.by
      /\ NewPart.lost = NoFile.lost
  BY <1>2 DEF NewPart, File
<1> QED BY <1>3, <1>4 DEF NoFile

LEMMA TypeIs == StateInv => TypeOK
<1> SUFFICES ASSUME StateInv PROVE TypeOK
  OBVIOUS
<1>1. queue \in Seq(Message) /\ unmatched \in Seq(Message)
  <2>1. Sent \subseteq Message
    BY DEF Sent
  <2> QED BY <2>1, SeqMonotonic DEF StateInv, QueueInv, SessionInv
<1>2. tries \in Nat
  BY DEF StateInv, CallInv
<1> QED BY <1>1, <1>2 DEF StateInv, CallInv, QueueInv, SessionInv, FileType, TypeOK, Ready,
            Finishing

(***************************************************************************)
(* The steps of the caller, by what they do to its locals and files.       *)
(***************************************************************************)

\* The part file of the strategy is replaced by f.
PartIs(f) == part' = [part EXCEPT ![index] = f]

LEMMA PartSet ==
  ASSUME FileType, index \in 1 .. Len(Strategy), NEW f \in File, PartIs(f)
  PROVE  /\ part' \in [1 .. Len(Strategy) -> File]
         /\ part'[index] = f
         /\ \A i \in 1 .. Len(Strategy) : i # index => part'[i] = part[i]
BY DEF FileType, PartIs

LEMMA CurrentType ==
  ASSUME StateInv, index \in 1 .. Len(Strategy)
  PROVE  /\ Current \in File /\ part[index] \in File /\ Current = part[index]
         /\ Current.data \in Seq(Block) /\ written \in Nat
         /\ [Current EXCEPT !.by = req] \in File
         /\ \A r \in Request : [Current EXCEPT !.by = r] \in File
<1>1. Current \in File /\ part[index] \in File /\ Current = part[index]
  BY DEF StateInv, FileType, Current
<1>2. Current.data \in Seq(Block) /\ written = Len(Current.data)
  BY <1>1 DEF File, written
<1>3. req \in Request \cup {None}
  BY StrategyLen DEF StateInv, CallInv, Request, req
<1>4. ASSUME NEW r \in Request \cup {None}
      PROVE  [Current EXCEPT !.by = r] \in File
  BY <1>1, <1>4 DEF File
<1> QED BY <1>1, <1>2, <1>3, <1>4, LenProperties

LEMMA EmptyQueue ==
  queue' = <<>> /\ accepted_msg_nums' = {} /\ resync' = FALSE => QueueInv'
<1> SUFFICES ASSUME queue' = <<>>, accepted_msg_nums' = {}, resync' = FALSE
             PROVE  QueueInv'
  OBVIOUS
<1>1. <<>> \in Seq(Sent) /\ Len(<<>>) = 0 /\ 0 <= QueueSize
  BY EmptySeq
<1>2. queue' \in Seq(Sent) /\ Len(queue') <= QueueSize
  BY <1>1
<1>3. accepted_msg_nums' \subseteq Request \cup {None} /\ resync' \in BOOLEAN
  OBVIOUS
<1> QED BY <1>2, <1>3 DEF QueueInv

LEMMA AtNext ==
  ASSUME StateInv, index \in 1 .. Len(Strategy), call # 0, UNCHANGED call,
         NextStrategy, only_timeouts' \in BOOLEAN
  PROVE  CallInv'
<1>1. index + 1 \in 1 .. Len(Strategy) + 1
  BY StrategyLen
<1>2. /\ pc' = "next" /\ index' = index + 1 /\ outcome' = outcome
      /\ next_reconnect_attempt' = next_reconnect_attempt
      /\ next_delayed_reconnect_attempt' = next_delayed_reconnect_attempt
      /\ tries' = tries
  BY DEF NextStrategy, callVars
<1> DEFINE i == index'
<1>3. i \in 1 .. Len(Strategy) + 1
  BY <1>1, <1>2
<1> HIDE DEF i
<1>4. CallInv
  BY DEF StateInv
<1> QED BY <1>2, <1>3, <1>4 DEF CallInv, Ready, i

\* The call returns.
LEMMA ReturnKeeps ==
  ASSUME StateInv, NEW o \in {"none", "done", "failed"}, Return(o), call' \in 0 .. MaxCalls
  PROVE  CallInv' /\ QueueInv' /\ pc' = "idle"
<1>1. Len(Strategy) \in Nat \ {0}
  BY StrategyLen
<1>2. /\ pc' = "idle" /\ outcome' = o /\ index' = 1 /\ only_timeouts' = TRUE
      /\ next_reconnect_attempt' = 1 /\ next_delayed_reconnect_attempt' = 1 /\ tries' = 0
      /\ queue' = <<>> /\ accepted_msg_nums' = {} /\ resync' = FALSE
  BY DEF Return, Close
<1>3. CallInv'
  BY <1>1, <1>2 DEF CallInv, Ready
<1>4. QueueInv'
  BY <1>2, EmptyQueue
<1> QED BY <1>2, <1>3, <1>4

\* The strategy raises: the next one, or out of the call.
LEMMA Raises ==
  ASSUME StateInv, index \in 1 .. Len(Strategy), call # 0, UNCHANGED call,
         NEW e, NEW f \in File, Raised(e, f)
  PROVE  /\ CallInv' /\ QueueInv'
         /\ \/ pc' = "next" /\ index' = index + 1
            \/ pc' = "idle"
         /\ PartIs(NoFile) \/ PartIs(f)
<1>1. PartIs(NoFile) \/ PartIs(f)
  BY DEF Raised, PartIs
<1>2. CASE Return("failed")
  BY <1>1, <1>2, ReturnKeeps DEF StateInv, CallInv
<1>3. CASE ~ Return("failed")
  <2>1. /\ NextStrategy /\ Close
        /\ only_timeouts' = (only_timeouts /\ e = "timeout")
    BY <1>3 DEF Raised
  <2>2. only_timeouts' \in BOOLEAN
    BY <2>1, Zenon
  <2>3. CallInv'
    BY <2>1, <2>2, AtNext
  <2>4. QueueInv'
    BY <2>1, EmptyQueue DEF Close
  <2> QED BY <1>1, <2>1, <2>3, <2>4 DEF NextStrategy
<1> QED BY <1>2, <1>3

\* The transfer ends: the next strategy, a reconnection, or the final steps with a
\* completed file.
LEMMA Ends ==
  ASSUME StateInv, index \in 1 .. Len(Strategy), call # 0, UNCHANGED call,
         NEW f \in File, NEW skips, End(f, skips)
  PROVE  /\ CallInv' /\ QueueInv'
         /\ \/ pc' = "next" /\ index' = index + 1 /\ PartIs(NoFile)
            \/ pc' = "reconnect" /\ index' = index /\ PartIs(NoFile)
            \/ /\ pc' = IF Converts THEN "convert" ELSE "unlink"
               /\ index' = index /\ PartIs(f)
               /\ f.data # <<>> /\ ~ Mismatch(f, skips)
<1>1. only_timeouts' = FALSE /\ Close
  BY DEF End
<1>2. QueueInv'
  BY <1>1, EmptyQueue DEF Close
<1>3. CASE f.data = <<>> /\ RemovePart /\ NextStrategy
  <2>1. CallInv'
    BY <1>1, <1>3, AtNext
  <2> QED BY <1>2, <1>3, <2>1 DEF RemovePart, PartIs, NextStrategy
<1>4. CASE /\ f.data # <<>> /\ Mismatch(f, skips)
           /\ RemovePart /\ pc' = "reconnect"
           /\ UNCHANGED <<index, outcome, callVars>>
  <2>1. CallInv'
    BY <1>1, <1>4 DEF StateInv, CallInv, callVars, Ready
  <2> QED BY <1>2, <1>4, <2>1 DEF RemovePart, PartIs
<1>5. CASE /\ f.data # <<>> /\ ~ Mismatch(f, skips)
           /\ part' = [part EXCEPT ![index] = f]
           /\ pc' = IF Mp4 /\ Kind(req) # "direct" THEN "convert" ELSE "unlink"
           /\ UNCHANGED <<index, outcome, callVars>>
  <2>1. CallInv'
    <3>1. pc' \in {"convert", "unlink"}
      BY <1>5
    <3>2. index' = index /\ index <= Len(Strategy) /\ outcome' = outcome
          /\ next_reconnect_attempt' = next_reconnect_attempt
          /\ next_delayed_reconnect_attempt' = next_delayed_reconnect_attempt
          /\ tries' = tries
      BY <1>5, StrategyLen DEF callVars
    <3> QED BY <1>1, <3>1, <3>2 DEF StateInv, CallInv, Ready, Finishing
  <2> QED BY <1>2, <1>5, <2>1 DEF PartIs, Converts
<1> QED BY <1>3, <1>4, <1>5 DEF End

\* The message at the head of the queue, and the file with its block written.
WithBlock(m) == [Current EXCEPT !.data = Append(@, [req |-> m.req, n |-> m.n])]

LEMMA HeadType ==
  ASSUME StateInv, queue # <<>>
  PROVE  /\ Head(queue) \in Sent /\ Head(queue) = queue[1] /\ Len(queue) \in Nat \ {0}
         /\ Tail(queue) \in Seq(Sent) /\ Len(Tail(queue)) = Len(queue) - 1
         /\ \A i \in 1 .. Len(queue) - 1 : Tail(queue)[i] = queue[i + 1]
BY HeadTailProperties, EmptySeq DEF StateInv, QueueInv

LEMMA BlockType ==
  ASSUME StateInv, index \in 1 .. Len(Strategy), NEW m \in Sent, m.kind = "data"
  PROVE  /\ WithBlock(m) \in File
         /\ [WithBlock(m) EXCEPT !.by = req] \in File
         /\ WithBlock(m).of = Current.of /\ WithBlock(m).by = Current.by
         /\ WithBlock(m).lost = Current.lost
         /\ WithBlock(m).data = Append(Current.data, [req |-> m.req, n |-> m.n])
<1>1. [req |-> m.req, n |-> m.n] \in Block
  BY DEF Sent, Message, Block
<1>2. Append(Current.data, [req |-> m.req, n |-> m.n]) \in Seq(Block)
  BY <1>1, CurrentType, AppendProperties
<1>3. Current \in File /\ req \in Request
  BY CurrentType, StrategyLen DEF StateInv, CallInv, Request, req
<1> DEFINE d == Append(Current.data, [req |-> m.req, n |-> m.n])
<1>4. WithBlock(m) = [Current EXCEPT !.data = d]
  BY <1>3 DEF WithBlock, File
<1> HIDE DEF d
<1> QED BY <1>2, <1>3, <1>4 DEF File, d

\* What a step of a transfer or of the raw tail is: it goes on after a message,
Continues ==
    LET m == Head(queue) IN
    /\ pc = "transfer" /\ queue # <<>> /\ Continue(m)
    /\ \/ m.kind = "data" /\ PartIs(WithBlock(m)) /\ ~ Reached(written + 1)
       \/ m.kind = "empty" /\ UNCHANGED part

\* ends with a completed file,
CompletedAs(f, skips) ==
    \/ /\ pc = "transfer" /\ queue # <<>>
       /\ LET m == Head(queue) IN
          /\ skips = (resync \/ m.resync)
          /\ \/ /\ m.kind = "data" /\ Reached(written + 1)
                /\ f = [WithBlock(m) EXCEPT !.by = req]
             \/ m.kind = "end" /\ f = [Current EXCEPT !.by = m.req]
    \/ pc = "raw" /\ Reached(written) /\ f = [Current EXCEPT !.by = req]

\* or with the file as it is, by an exception,
Raising == pc = "transfer" /\ \E e \in {"timeout", "protocol", "other"} : Raised(e, Current)

\* or goes over to the raw tail.
ToRaw ==
    /\ pc = "transfer" /\ pc' = "raw" /\ Close
    /\ UNCHANGED <<index, only_timeouts, outcome, callVars, part>>

TransferStep ==
    /\ UNCHANGED <<call, sessionVars, converted, raw_path, output>>
    /\ \/ Continues
       \/ \E f \in File : \E skips : End(f, skips) /\ (CompletedAs(f, skips) \/ f = Current)
       \/ Raising
       \/ ToRaw

LEMMA TransferSteps ==
  ASSUME StateInv, Receive \/ Idle \/ Fault \/ RawEnd
  PROVE  /\ pc \in {"transfer", "raw"} /\ index \in 1 .. Len(Strategy) /\ call # 0
         /\ TransferStep
<1>1. pc \in {"transfer", "raw"}
  BY DEF Receive, Idle, Fault, RawEnd
<1>2. index \in 1 .. Len(Strategy) /\ call # 0
  BY <1>1, StrategyLen DEF StateInv, CallInv, Ready
<1>3. Current \in File /\ [Current EXCEPT !.by = req] \in File
  BY <1>2, CurrentType
<1>4. UNCHANGED <<call, sessionVars, converted, raw_path, output>>
  BY DEF Receive, Idle, Fault, RawEnd
<1>5. CASE Receive
  <2> DEFINE m == Head(queue)
  <2>1. pc = "transfer" /\ queue # <<>> /\ m \in Sent
    BY <1>5, HeadType DEF Receive
  <2>2. m.req \in Request
    BY <2>1 DEF Sent, Message
  <2>3. CASE m.kind = "data" /\ WriteData(m)
    <3>1. [WithBlock(m) EXCEPT !.by = req] \in File
      BY <1>2, <2>1, <2>3, BlockType
    <3> DEFINE f == [WithBlock(m) EXCEPT !.by = req]
    <3>2. CASE Reached(written + 1)
      <4>1. End(f, resync \/ m.resync)
        BY <2>3, <3>2 DEF WriteData, Break, WithBlock
      <4>2. CompletedAs(f, resync \/ m.resync)
        BY <2>1, <2>3, <3>2 DEF CompletedAs
      <4> QED BY <1>1, <1>2, <1>4, <3>1, <4>1, <4>2 DEF TransferStep
    <3>3. CASE ~ Reached(written + 1)
      <4>1. Continues
        BY <2>1, <2>3, <3>3 DEF WriteData, Continues, PartIs, WithBlock
      <4> QED BY <1>1, <1>2, <1>4, <4>1 DEF TransferStep
    <3> QED BY <3>2, <3>3
  <2>4. CASE m.kind = "empty" /\ EmptyMessage(m)
    <3>1. CASE Continue(m) /\ UNCHANGED part
      <4>1. Continues
        BY <2>1, <2>4, <3>1 DEF Continues
      <4> QED BY <1>1, <1>2, <1>4, <4>1 DEF TransferStep
    <3>2. CASE End(Current, resync \/ m.resync)
      BY <1>1, <1>2, <1>3, <1>4, <3>2 DEF TransferStep
    <3> QED BY <2>4, <3>1, <3>2 DEF EmptyMessage, Break
  <2>5. CASE m.kind \in {"end", "error"} /\ Response(m)
    <3>1. CASE Completes(m) /\ End([Current EXCEPT !.by = m.req], resync \/ m.resync)
      <4>1. [Current EXCEPT !.by = m.req] \in File
        BY <1>2, <2>2, CurrentType
      <4> DEFINE f == [Current EXCEPT !.by = m.req]
      <4>2. CompletedAs(f, resync \/ m.resync)
        BY <2>1, <3>1 DEF CompletedAs, Completes
      <4> QED BY <1>1, <1>2, <1>4, <3>1, <4>1, <4>2 DEF TransferStep
    <3>2. CASE End(Current, resync \/ m.resync)
      BY <1>1, <1>2, <1>3, <1>4, <3>2 DEF TransferStep
    <3>3. CASE Raised("protocol", Current)
      BY <1>1, <1>2, <1>4, <2>1, <3>3 DEF TransferStep, Raising
    <3> QED BY <2>5, <3>1, <3>2, <3>3 DEF Response, Break
  <2> QED BY <1>5, <2>3, <2>4, <2>5 DEF Receive
<1>6. CASE Idle
  BY <1>1, <1>2, <1>3, <1>4, <1>6 DEF Idle, TransferStep, Raising
<1>7. CASE Fault
  BY <1>1, <1>2, <1>4, <1>7 DEF Fault, TransferStep, Raising, ToRaw
<1>8. CASE RawEnd
  <2> DEFINE f == [Current EXCEPT !.by = req]
  <2>1. CASE Reached(written)
    <3>1. CompletedAs(f, FALSE)
      BY <1>8, <2>1 DEF RawEnd, CompletedAs
    <3>2. End(f, FALSE)
      BY <1>8, <2>1 DEF RawEnd
    <3> QED BY <1>1, <1>2, <1>3, <1>4, <3>1, <3>2 DEF TransferStep
  <2>2. CASE ~ Reached(written)
    <3>1. End(Current, FALSE)
      BY <1>8, <2>2 DEF RawEnd
    <3> QED BY <1>1, <1>2, <1>3, <1>4, <3>1 DEF TransferStep
  <2> QED BY <2>1, <2>2
<1> QED BY <1>5, <1>6, <1>7, <1>8

(***************************************************************************)
(* Every step keeps the state well formed.                                 *)
(***************************************************************************)

otherFiles == <<converted, raw_path, output>>

LEMMA SessionUnchanged == SessionInv /\ UNCHANGED sessionVars => SessionInv'
  BY DEF SessionInv, sessionVars

LEMMA FilesSet ==
  ASSUME FileType, index \in 1 .. Len(Strategy), NEW f \in File, PartIs(f),
         UNCHANGED otherFiles
  PROVE  FileType'
<1>1. converted' \in File /\ raw_path' \in File /\ output' \in File
  BY DEF FileType, otherFiles
<1> QED BY <1>1, PartSet DEF FileType

LEMMA StateTransfer ==
  ASSUME StateInv, Receive \/ Idle \/ Fault \/ RawEnd
  PROVE  StateInv'
<1>1. /\ pc \in {"transfer", "raw"} /\ index \in 1 .. Len(Strategy) /\ call # 0
      /\ TransferStep
  BY TransferSteps
<1>2. UNCHANGED call /\ UNCHANGED sessionVars /\ UNCHANGED otherFiles
  BY <1>1 DEF TransferStep, otherFiles
<1>3. SessionInv' /\ FileType
  BY <1>2, SessionUnchanged DEF StateInv
<1>4. Current \in File
  BY <1>1, CurrentType
<1>5. CASE Continues
  <2> DEFINE m == Head(queue)
  <2>1. /\ pc = "transfer" /\ queue # <<>> /\ Continue(m)
        /\ \/ m.kind = "data" /\ PartIs(WithBlock(m))
           \/ UNCHANGED part
    BY <1>5 DEF Continues
  <2>2. m \in Sent /\ Tail(queue) \in Seq(Sent) /\ Len(Tail(queue)) = Len(queue) - 1
        /\ Len(queue) \in Nat
    BY <2>1, HeadType
  <2>3. FileType'
    <3>1. CASE UNCHANGED part
      BY <1>2, <1>3, <3>1 DEF FileType, otherFiles
    <3>2. CASE m.kind = "data" /\ PartIs(WithBlock(m))
      BY <1>1, <1>2, <1>3, <2>2, <3>2, BlockType, FilesSet
    <3> QED BY <2>1, <3>1, <3>2
  <2>4. CallInv'
    BY <1>2, <2>1 DEF StateInv, CallInv, Continue, callVars, Ready, Finishing
  <2>5. QueueInv'
    <3>1. queue' = Tail(queue) /\ pc' = pc /\ resync' = (resync \/ m.resync)
          /\ accepted_msg_nums' = accepted_msg_nums \cup {MsgNum(m.req)}
      BY <2>1 DEF Continue
    <3>2. resync' \in BOOLEAN
      BY <3>1, Zenon
    <3>3. MsgNum(m.req) \in Request \cup {None}
      BY <2>2, RequestCases DEF Sent, Message
    <3>4. queue' \in Seq(Sent) /\ Len(queue') <= QueueSize
      BY <2>2, <3>1 DEF StateInv, QueueInv
    <3> QED BY <2>1, <3>1, <3>2, <3>3, <3>4 DEF StateInv, QueueInv
  <2> QED BY <1>3, <2>3, <2>4, <2>5 DEF StateInv
<1>6. ASSUME NEW f \in File, NEW skips, End(f, skips) PROVE StateInv'
  <2>1. CallInv' /\ QueueInv' /\ (PartIs(NoFile) \/ PartIs(f))
    BY <1>1, <1>2, <1>6, Ends
  <2>2. FileType'
    BY <1>1, <1>2, <1>3, <2>1, FilesSet, NoFileType
  <2> QED BY <1>3, <2>1, <2>2 DEF StateInv
<1>7. ASSUME NEW e, Raised(e, Current) PROVE StateInv'
  <2>1. CallInv' /\ QueueInv' /\ (PartIs(NoFile) \/ PartIs(Current))
    BY <1>1, <1>2, <1>4, <1>7, Raises
  <2>2. FileType'
    BY <1>1, <1>2, <1>3, <1>4, <2>1, FilesSet, NoFileType
  <2> QED BY <1>3, <2>1, <2>2 DEF StateInv
<1>8. CASE ToRaw
  <2>1. QueueInv'
    BY <1>8, EmptyQueue DEF ToRaw, Close
  <2>2. CallInv'
    BY <1>2, <1>8 DEF StateInv, CallInv, ToRaw, callVars, Ready
  <2>3. FileType'
    BY <1>2, <1>3, <1>8 DEF FileType, ToRaw, otherFiles
  <2> QED BY <1>3, <2>1, <2>2, <2>3 DEF StateInv
<1> QED BY <1>1, <1>5, <1>6, <1>7, <1>8 DEF TransferStep, Raising

LEMMA StreamNone == [r \in Request |-> 0] \in [Request -> 0 .. Size + 1]
  OBVIOUS

LEMMA MishapType == SessionInv /\ (Mishap \/ UNCHANGED mishaps) => mishaps' \in 0 .. MaxMishaps
<1>1. SessionInv /\ Mishap => mishaps + 1 \in 0 .. MaxMishaps /\ mishaps' = mishaps + 1
  BY DEF SessionInv, Mishap
<1> QED BY <1>1 DEF SessionInv

\* The steps of the call between its transfers.
LEMMA StateCall ==
  ASSUME StateInv,
         \/ \E b \in BOOLEAN : Start(b)
         \/ \E ok \in BOOLEAN : TryDownloadReconnect(ok)
         \/ GiveUp \/ Exhausted
         \/ \E e \in {"timeout", "protocol", "other"} : RequestFails(e)
  PROVE  StateInv'
<1>0. /\ CallInv /\ QueueInv /\ SessionInv /\ FileType /\ Len(Strategy) \in Nat \ {0}
  BY StrategyLen DEF StateInv
<1>1. ASSUME NEW b \in BOOLEAN, Start(b) PROVE StateInv'
  <2>1. /\ pc = "idle" /\ call' = call + 1 /\ call' \in 0 .. MaxCalls /\ call' # 0
        /\ UNCHANGED <<sessionVars, converted, raw_path, output>>
    <3>1. call + 1 \in 0 .. MaxCalls /\ call + 1 # 0
      <4>1. call < MaxCalls /\ call \in 0 .. MaxCalls
        BY <1>0, <1>1 DEF Start, CallInv
      <4> QED BY <4>1
    <3> QED BY <1>1, <3>1 DEF Start
  <2>2. SessionInv'
    BY <1>0, <2>1, SessionUnchanged
  <2>3. CASE Return("done") /\ part' = [i \in DOMAIN part |-> NoFile]
    <3>1. CallInv' /\ QueueInv'
      BY <2>1, <2>3, ReturnKeeps
    <3>2. FileType'
      BY <1>0, <2>1, <2>3, NoFileType DEF FileType
    <3> QED BY <2>2, <3>1, <3>2 DEF StateInv
  <2>4. CASE pc' = "next" /\ outcome' = "none"
             /\ UNCHANGED <<part, index, only_timeouts, callVars, transferVars>>
    <3>1. CallInv'
      BY <1>0, <2>1, <2>4 DEF CallInv, callVars, Ready
    <3>2. QueueInv' /\ FileType'
      BY <1>0, <2>1, <2>4 DEF QueueInv, FileType, transferVars
    <3> QED BY <2>2, <3>1, <3>2 DEF StateInv
  <2> QED BY <1>1, <2>3, <2>4 DEF Start
<1>2. ASSUME NEW ok \in BOOLEAN, TryDownloadReconnect(ok) PROVE StateInv'
  <2>1. pc = "reconnect" /\ Count(ok) /\ UNCHANGED <<call, outcome, transferVars, fileVars>>
    BY <1>2 DEF TryDownloadReconnect
  <2>2. /\ next_reconnect_attempt' \in 1 .. Retries + 1
        /\ next_delayed_reconnect_attempt' \in 1 .. DelayedRetries + 1
        /\ tries' = (next_reconnect_attempt' - 1) + (next_delayed_reconnect_attempt' - 1)
    <3> DEFINE a == next_reconnect_attempt
               d == next_delayed_reconnect_attempt
    <3>1. a \in 1 .. Retries + 1 /\ d \in 1 .. DelayedRetries + 1
          /\ tries = (a - 1) + (d - 1)
      BY <1>0 DEF CallInv
    <3>2. CASE a <= Retries
      <4>1. tries' = tries + 1 /\ a' = a + 1 /\ d' = d
        BY <2>1, <3>2 DEF Count
      <4>2. a + 1 \in 1 .. Retries + 1 /\ tries + 1 = (a + 1 - 1) + (d - 1)
        BY <3>1, <3>2
      <4> QED BY <3>1, <4>1, <4>2
    <3>3. CASE ~ (a <= Retries)
      <4>1. tries' = tries + 1 /\ a' = a /\ d' = d + 1 /\ d <= DelayedRetries
        BY <2>1, <3>3 DEF Count
      <4>2. d + 1 \in 1 .. DelayedRetries + 1 /\ tries + 1 = (a - 1) + (d + 1 - 1)
        BY <3>1, <4>1
      <4> QED BY <3>1, <4>1, <4>2
    <3> QED BY <3>2, <3>3
  <2>3. /\ pc' \in {"next", "reconnect"} /\ index' \in {1, index}
        /\ only_timeouts' \in {TRUE, only_timeouts}
    BY <1>2 DEF TryDownloadReconnect, NewConnection
  <2>4. index' \in 1 .. Len(Strategy) + 1 /\ only_timeouts' \in BOOLEAN
    <3>1. /\ 1 \in 1 .. Len(Strategy) + 1 /\ index \in 1 .. Len(Strategy) + 1
          /\ TRUE \in BOOLEAN /\ only_timeouts \in BOOLEAN
      BY <1>0 DEF CallInv
    <3> QED BY <2>3, <3>1, Zenon
  <2>5. CallInv'
    BY <1>0, <2>1, <2>2, <2>3, <2>4 DEF CallInv, Ready
  <2>6. QueueInv' /\ FileType'
    BY <1>0, <2>1, <2>3 DEF QueueInv, FileType, transferVars, fileVars
  <2>7. /\ conn' \in {"none", "up"} /\ framing' = "ok" /\ fault' = "none" /\ unmatched' = <<>>
        /\ stream' = [r \in Request |-> 0] /\ UNCHANGED mishaps
    BY <1>2 DEF TryDownloadReconnect, NewConnection
  <2>8. unmatched' \in Seq(Sent) /\ Len(unmatched') <= Unmatched
    BY <2>7, EmptySeq
  <2>9. SessionInv'
    BY <1>0, <2>7, <2>8, StreamNone DEF SessionInv
  <2> QED BY <2>5, <2>6, <2>9 DEF StateInv
<1>3. CASE GiveUp
  <2>1. Return("failed") /\ UNCHANGED <<call, sessionVars, fileVars>>
    BY <1>3 DEF GiveUp
  <2>2. CallInv' /\ QueueInv'
    BY <1>0, <2>1, ReturnKeeps DEF CallInv
  <2> QED BY <1>0, <2>1, <2>2, SessionUnchanged DEF StateInv, FileType, fileVars
<1>4. CASE Exhausted
  <2>1. UNCHANGED <<call, sessionVars, fileVars>> /\ pc = "next"
    BY <1>4 DEF Exhausted
  <2>2. CallInv' /\ QueueInv'
    <3>1. CASE Return("failed")
      BY <1>0, <2>1, <3>1, ReturnKeeps DEF CallInv
    <3>2. CASE pc' = "reconnect"
               /\ UNCHANGED <<index, only_timeouts, outcome, callVars, transferVars>>
      BY <1>0, <2>1, <3>2 DEF CallInv, QueueInv, callVars, transferVars, Ready
    <3> QED BY <1>4, <3>1, <3>2 DEF Exhausted
  <2> QED BY <1>0, <2>1, <2>2, SessionUnchanged DEF StateInv, FileType, fileVars
<1>5. ASSUME NEW e, RequestFails(e) PROVE StateInv'
  <2>1. /\ pc = "next" /\ index \in 1 .. Len(Strategy) /\ call # 0 /\ Raised(e, NoFile)
        /\ UNCHANGED <<call, sessionVars, converted, raw_path, output>>
    BY <1>0, <1>5 DEF RequestFails, CallInv
  <2>2. CallInv' /\ QueueInv' /\ PartIs(NoFile)
    BY <2>1, Raises, NoFileType
  <2>3. FileType'
    BY <1>0, <2>1, <2>2, FilesSet, NoFileType DEF otherFiles
  <2> QED BY <1>0, <2>1, <2>2, <2>3, SessionUnchanged DEF StateInv
<1> QED BY <1>1, <1>2, <1>3, <1>4, <1>5

\* The final steps.
LEMMA StateFinal ==
  ASSUME StateInv,
         Convert \/ Converted \/ ConversionFails \/ UnlinkOutput \/ ReplaceOutput \/ Cleanup
  PROVE  StateInv'
<1>1. /\ pc \in Finishing \cup {"cleanup"} /\ UNCHANGED <<call, sessionVars>>
  BY DEF Convert, Converted, ConversionFails, UnlinkOutput, ReplaceOutput, Cleanup, Finishing
<1>2. /\ CallInv /\ QueueInv /\ SessionInv /\ FileType /\ SessionInv'
      /\ index \in 1 .. Len(Strategy) /\ call # 0
  BY <1>1, SessionUnchanged, StrategyLen DEF StateInv, CallInv, Ready, Finishing
<1>3. Current \in File /\ NoFile \in File
  BY <1>2, CurrentType, NoFileType
<1>4. ASSUME pc' \in Finishing \cup {"cleanup"}, UNCHANGED <<call, locals>>
      PROVE  CallInv' /\ QueueInv'
  BY <1>1, <1>2, <1>4 DEF CallInv, QueueInv, locals, callVars, transferVars, Ready, Finishing
<1>5. ASSUME NEW o \in {"none", "done", "failed"}, Return(o)
      PROVE  CallInv' /\ QueueInv'
  BY <1>1, <1>2, <1>5, ReturnKeeps DEF CallInv
<1>6. CASE Convert
  <2>1. [NoFile EXCEPT !.of = req] \in File
    BY <1>2, NewFile DEF CallInv, NewPart
  <2> QED BY <1>2, <1>4, <1>6, <2>1 DEF Convert, StateInv, FileType, Finishing
<1>7. CASE Converted
  BY <1>2, <1>3, <1>4, <1>7 DEF Converted, StateInv, FileType, Finishing
<1>8. CASE ConversionFails
  <2>1. PartIs(NoFile)
    BY <1>8 DEF ConversionFails, RemovePart, PartIs
  <2> QED BY <1>2, <1>3, <1>5, <1>8, <2>1, PartSet DEF ConversionFails, StateInv, FileType
<1>9. CASE UnlinkOutput
  BY <1>2, <1>3, <1>4, <1>9 DEF UnlinkOutput, StateInv, FileType, Finishing
<1>10. CASE ReplaceOutput
  <2>1. CASE /\ output' = converted /\ converted' = NoFile
             /\ pc' = "cleanup" /\ UNCHANGED <<part, locals>>
    BY <1>1, <1>2, <1>3, <1>4, <1>10, <2>1 DEF ReplaceOutput, StateInv, FileType
  <2>2. CASE output' = Current /\ RemovePart /\ Return("done") /\ UNCHANGED converted
    <3>1. PartIs(NoFile)
      BY <2>2 DEF RemovePart, PartIs
    <3> QED BY <1>2, <1>3, <1>5, <1>10, <2>2, <3>1, PartSet DEF ReplaceOutput, StateInv, FileType
  <2> QED BY <1>10, <2>1, <2>2 DEF ReplaceOutput
<1>11. CASE Cleanup
  <2>1. PartIs(NoFile)
    BY <1>11 DEF Cleanup, RemovePart, PartIs
  <2> QED BY <1>2, <1>3, <1>5, <1>11, <2>1, PartSet DEF Cleanup, StateInv, FileType
<1> QED BY <1>6, <1>7, <1>8, <1>9, <1>10, <1>11

\* The request is sent: the queue holds what the subscription took of the unmatched messages.
LEMMA Requested ==
  ASSUME StateInv, DoRequest
  PROVE  /\ pc = "next" /\ index \in 1 .. Len(Strategy) /\ call # 0 /\ UNCHANGED call
         /\ pc' = "transfer" /\ index' = index /\ resync' = FALSE
         /\ accepted_msg_nums' = {MsgNum(req)} /\ req \in Request /\ req # None
         /\ \A T : unmatched \in Seq(T) => queue' \in Seq(T) /\ unmatched' \in Seq(T)
         /\ Len(queue') <= QueueSize /\ Len(unmatched') <= Unmatched
         /\ stream' = [stream EXCEPT ![req] = 1]
         /\ PartIs(NewPart) /\ UNCHANGED otherFiles
<1>1. /\ pc = "next" /\ index \in 1 .. Len(Strategy) /\ call # 0 /\ call \in 1 .. MaxCalls
  <2>1. pc = "next" /\ index <= Len(Strategy)
    BY DEF DoRequest
  <2>2. /\ call # 0 /\ call \in 0 .. MaxCalls /\ index \in 1 .. Len(Strategy) + 1
        /\ Len(Strategy) \in Nat
    BY <2>1, StrategyLen DEF StateInv, CallInv
  <2> QED BY <2>1, <2>2
<1>2. req \in Request /\ req # None
  BY <1>1, RequestCases
<1>3. /\ pc' = "transfer" /\ index' = index /\ resync' = FALSE /\ UNCHANGED call
      /\ accepted_msg_nums' = {MsgNum(req)} /\ UNCHANGED otherFiles
      /\ stream' = [stream EXCEPT ![req] = 1] /\ PartIs(NewPart)
  BY DEF DoRequest, otherFiles, PartIs, NewPart
<1>4. unmatched \in Seq(Sent) /\ Len(unmatched) \in Nat /\ Len(unmatched) <= Unmatched
  BY LenProperties DEF StateInv, SessionInv
<1>5. CASE conn = "none"
  <2>1. queue' = <<>> /\ unmatched' = <<>>
    BY <1>5 DEF DoRequest, NewConnection
  <2>2. \A T : <<>> \in Seq(T)
    BY EmptySeq
  <2>3. Len(<<>>) = 0 /\ 0 <= QueueSize /\ 0 <= Unmatched
    OBVIOUS
  <2> QED BY <1>1, <1>2, <1>3, <2>1, <2>2, <2>3
<1>6. CASE conn # "none"
  <2> DEFINE B == Backlog({MsgNum(req)})
             C == Message \ B
  <2>1. queue' = Kept(unmatched, B) /\ unmatched' = Kept(unmatched, C)
    BY <1>6 DEF DoRequest
  <2> HIDE DEF B, C
  <2>2. /\ Len(Kept(unmatched, B)) <= Len(unmatched) /\ Len(Kept(unmatched, B)) \in Nat
        /\ Len(Kept(unmatched, C)) <= Len(unmatched) /\ Len(Kept(unmatched, C)) \in Nat
    BY <1>4, KeptType
  <2>3. ASSUME NEW T, unmatched \in Seq(T), NEW S
        PROVE  Kept(unmatched, S) \in Seq(T)
    <3>1. Kept(unmatched, S) \in Seq({x \in T : x \in S})
      BY <2>3, KeptType
    <3>2. {x \in T : x \in S} \subseteq T
      OBVIOUS
    <3> QED BY <3>1, <3>2, SeqMonotonic
  <2>4. \A T : unmatched \in Seq(T) => queue' \in Seq(T) /\ unmatched' \in Seq(T)
    BY <2>1, <2>3
  <2> DEFINE b == Len(Kept(unmatched, B))
             c == Len(Kept(unmatched, C))
             u == Len(unmatched)
  <2>5. b \in Nat /\ c \in Nat /\ u \in Nat /\ b <= u /\ c <= u /\ u <= Unmatched
    BY <1>4, <2>2
  <2> HIDE DEF b, c, u
  <2>6. b <= QueueSize /\ c <= Unmatched
    BY <2>5
  <2>7. Len(queue') <= QueueSize /\ Len(unmatched') <= Unmatched
    BY <2>1, <2>6 DEF b, c
  <2> QED BY <1>1, <1>2, <1>3, <2>4, <2>7
<1> QED BY <1>5, <1>6

\* A message is put into a queue: at its end, or for its oldest.
LEMMA PutType ==
  ASSUME NEW T, NEW q \in Seq(T), NEW m \in T, NEW n \in Nat \ {0}, Len(q) <= n
  PROVE  LET p == IF Len(q) < n THEN Append(q, m) ELSE Append(Tail(q), m)
         IN  p \in Seq(T) /\ Len(p) <= n
<1>1. Len(q) \in Nat
  BY LenProperties
<1>2. CASE Len(q) < n
  <2>1. Append(q, m) \in Seq(T) /\ Len(Append(q, m)) = Len(q) + 1
    BY AppendProperties
  <2> QED BY <1>1, <1>2, <2>1
<1>3. CASE ~ (Len(q) < n)
  <2>1. q # <<>> /\ Len(q) = n
    BY <1>1, <1>3
  <2>2. Tail(q) \in Seq(T) /\ Len(Tail(q)) = Len(q) - 1
    BY <2>1, HeadTailProperties
  <2>3. Append(Tail(q), m) \in Seq(T) /\ Len(Append(Tail(q), m)) = Len(q) - 1 + 1
    BY <2>2, AppendProperties
  <2> QED BY <1>1, <1>3, <2>1, <2>3
<1> QED BY <1>2, <1>3

\* The part file after a message was put into the queue of its transfer.
Dropping == [Current EXCEPT !.lost = @ \/ Len(queue) = QueueSize]

Routed(m) ==
    /\ pc = "transfer" /\ Matches(m, req, accepted_msg_nums, written > 0)
    /\ queue' = Put(queue, m) /\ PartIs(Dropping) /\ UNCHANGED unmatched

Unrouted(m) ==
    /\ ~ (pc = "transfer" /\ Matches(m, req, accepted_msg_nums, written > 0))
    /\ UNCHANGED <<queue, part>>
    /\ \/ UNCHANGED unmatched
       \/ unmatched' = IF Len(unmatched) < Unmatched THEN Append(unmatched, m)
                        ELSE Append(Tail(unmatched), m)

\* What a step of the camera brings.
Brings(r, m) ==
    /\ m \in Sent /\ m.req = r /\ stream[r] # 0
    /\ m.kind = "data" => m.n >= stream[r] /\ (~ m.resync => m.n = stream[r])
    /\ m.kind = "end" /\ ~ m.resync => stream[r] = Size + 1
    /\ m.resync => pc = "transfer" /\ Kind(req) = "playback"
    /\ stream' = [stream EXCEPT ![r] = IF m.kind = "data" THEN m.n + 1 ELSE 0]
    /\ Routed(m) \/ Unrouted(m)
    /\ Mishap \/ UNCHANGED mishaps
    /\ framing' = "ok"
    /\ UNCHANGED <<pc, call, index, only_timeouts, outcome, callVars, accepted_msg_nums,
                   resync, conn, fault, converted, raw_path, output>>

LEMMA Sends ==
  ASSUME StateInv, NEW r \in Request, NEW skipped \in {0, 1}, Send(r, skipped)
  PROVE  \E m \in Sent : Brings(r, m)
<1>1. /\ stream[r] # 0 /\ stream[r] + skipped <= Size + 1
      /\ framing = "ok" => skipped = 0
      /\ framing = "lost" => pc = "transfer" /\ Kind(req) = "playback"
      /\ Mishap \/ UNCHANGED mishaps
      /\ framing' = "ok"
      /\ UNCHANGED <<pc, call, index, only_timeouts, outcome, callVars, accepted_msg_nums,
                     resync, conn, fault, converted, raw_path, output>>
  BY DEF Send
<1>2. PICK m \in Answers(r, skipped) :
        /\ Dispatch(m)
        /\ stream' = [stream EXCEPT ![r] = IF m.kind = "data" THEN m.n + 1 ELSE 0]
  BY DEF Send
<1>3. stream[r] \in 1 .. Size + 1 /\ framing \in {"ok", "lost"}
  BY <1>1 DEF StateInv, SessionInv
<1> DEFINE n == stream[r] + skipped
<1>4. n \in 1 .. Size + 1 /\ n >= stream[r] /\ (framing = "ok" => n = stream[r])
  BY <1>1, <1>3
<1>5. \/ \E k \in {"error", "empty"} :
            m = [req |-> r, kind |-> k, n |-> 0, resync |-> framing = "lost"]
      \/ m = [req |-> r, kind |-> IF n <= Size THEN "data" ELSE "end",
              n |-> IF n <= Size THEN n ELSE 0, resync |-> framing = "lost"]
  BY DEF Answers
<1> HIDE DEF n
<1>6. (framing = "lost") \in BOOLEAN
  OBVIOUS
<1> DEFINE lost == framing = "lost"
<1>7. lost \in BOOLEAN /\ (lost <=> framing = "lost")
  OBVIOUS
<1>8. /\ m \in Sent /\ m.req = r /\ m.resync = lost
      /\ m.kind = "data" => m.n = n
      /\ m.kind = "end" => n = Size + 1
  <2> HIDE DEF lost
  <2>1. CASE \E k \in {"error", "empty"} : m = [req |-> r, kind |-> k, n |-> 0, resync |-> lost]
    BY <1>7, <2>1 DEF Sent, Message
  <2>2. CASE n <= Size /\ m = [req |-> r, kind |-> "data", n |-> n, resync |-> lost]
    BY <1>4, <1>7, <2>2 DEF Sent, Message
  <2>3. CASE n = Size + 1 /\ m = [req |-> r, kind |-> "end", n |-> 0, resync |-> lost]
    BY <1>4, <1>7, <2>3 DEF Sent, Message
  <2> QED BY <1>4, <1>5, <2>1, <2>2, <2>3 DEF lost
<1>9. Routed(m) \/ Unrouted(m)
  BY <1>2 DEF Dispatch, Routed, Unrouted, PartIs, Dropping, Current
<1>10. /\ m.resync => pc = "transfer" /\ Kind(req) = "playback"
       /\ m.kind = "data" => m.n >= stream[r] /\ (~ m.resync => m.n = stream[r])
       /\ m.kind = "end" /\ ~ m.resync => stream[r] = Size + 1
  BY <1>1, <1>3, <1>4, <1>8
<1> QED BY <1>1, <1>2, <1>8, <1>9, <1>10 DEF Brings

LEMMA RoutedFile ==
  ASSUME StateInv, index \in 1 .. Len(Strategy)
  PROVE  /\ Dropping \in File
         /\ Dropping.of = Current.of /\ Dropping.by = Current.by /\ Dropping.data = Current.data
         /\ Dropping.lost = (Current.lost \/ Len(queue) = QueueSize)
<1> DEFINE l == Current.lost \/ Len(queue) = QueueSize
<1>1. Current \in File
  BY CurrentType
<1>2. l \in BOOLEAN
  BY Zenon
<1>3. Dropping = [Current EXCEPT !.lost = l]
  BY <1>1 DEF Dropping, File
<1> HIDE DEF l
<1> QED BY <1>1, <1>2, <1>3 DEF File, l

LEMMA StateSends ==
  ASSUME StateInv, NEW r \in Request, NEW m \in Sent, Brings(r, m)
  PROVE  StateInv'
<1>0. /\ CallInv /\ QueueInv /\ SessionInv /\ FileType /\ Len(Strategy) \in Nat \ {0}
  BY StrategyLen DEF StateInv
<1>1. CallInv'
  BY <1>0 DEF Brings, CallInv, callVars
<1>2. stream' \in [Request -> 0 .. Size + 1]
  <2> DEFINE v == IF m.kind = "data" THEN m.n + 1 ELSE 0
  <2>1. m.n \in 0 .. Size
    BY DEF Sent, Message
  <2>2. v \in 0 .. Size + 1
    BY <2>1
  <2>3. stream' = [stream EXCEPT ![r] = v]
    BY DEF Brings
  <2> HIDE DEF v
  <2> QED BY <1>0, <2>2, <2>3 DEF SessionInv
<1>3. mishaps' \in 0 .. MaxMishaps
  BY <1>0, MishapType DEF Brings
<1>4. CASE Routed(m)
  <2>1. pc = "transfer" /\ index \in 1 .. Len(Strategy)
    BY <1>0, <1>4 DEF Routed, CallInv, Ready
  <2>2. queue' \in Seq(Sent) /\ Len(queue') <= QueueSize
    BY <1>0, <1>4, PutType DEF Routed, Put, QueueInv
  <2>3. QueueInv'
    BY <1>0, <2>1, <2>2 DEF QueueInv, Brings
  <2>4. FileType'
    BY <1>0, <1>4, <2>1, FilesSet, RoutedFile DEF Routed, Brings, otherFiles
  <2>5. SessionInv'
    BY <1>0, <1>2, <1>3, <1>4 DEF SessionInv, Brings, Routed
  <2> QED BY <1>1, <2>3, <2>4, <2>5 DEF StateInv
<1>5. CASE Unrouted(m)
  <2>1. QueueInv' /\ FileType'
    BY <1>0, <1>5 DEF QueueInv, FileType, Brings, Unrouted
  <2>2. unmatched' \in Seq(Sent) /\ Len(unmatched') <= Unmatched
    <3>1. Unmatched \in Nat \ {0} /\ unmatched \in Seq(Sent) /\ Len(unmatched) <= Unmatched
      BY <1>0 DEF SessionInv
    <3> QED BY <1>5, <3>1, PutType DEF Unrouted
  <2>3. SessionInv'
    BY <1>0, <1>2, <1>3, <2>2 DEF SessionInv, Brings
  <2> QED BY <1>1, <2>1, <2>3 DEF StateInv
<1> QED BY <1>4, <1>5 DEF Brings

\* What else happens to the connection.
LEMMA StateEnvironment ==
  ASSUME StateInv, Desync \/ InvalidMagic \/ Lose \/ Crash
  PROVE  StateInv'
<1>0. /\ CallInv /\ QueueInv /\ SessionInv /\ FileType
  BY DEF StateInv
<1>1. mishaps' \in 0 .. MaxMishaps
  BY <1>0, MishapType DEF Desync, InvalidMagic, Lose, Crash
<1>2. CASE Desync \/ InvalidMagic \/ Lose
  <2>1. UNCHANGED <<pc, call, index, only_timeouts, outcome, callVars, transferVars, fileVars,
                    unmatched>>
    BY <1>2 DEF Desync, InvalidMagic, Lose
  <2>2. CallInv' /\ QueueInv' /\ FileType'
    BY <1>0, <2>1 DEF CallInv, QueueInv, FileType, callVars, transferVars, fileVars
  <2>3. SessionInv'
    BY <1>0, <1>1, <1>2, <2>1, StreamNone DEF SessionInv, Desync, InvalidMagic, Lose
  <2> QED BY <2>2, <2>3 DEF StateInv
<1>3. CASE Crash
  <2>1. Return("none") /\ UNCHANGED <<call, fileVars>>
    BY <1>3 DEF Crash
  <2>2. CallInv' /\ QueueInv' /\ FileType'
    BY <1>0, <2>1, ReturnKeeps DEF CallInv, FileType, fileVars
  <2>3. unmatched' \in Seq(Sent) /\ Len(unmatched') <= Unmatched
    <3>1. unmatched' = <<>>
      BY <1>3 DEF Crash
    <3> QED BY <3>1, EmptySeq
  <2>4. SessionInv'
    BY <1>0, <1>1, <1>3, <2>3, StreamNone DEF SessionInv, Crash
  <2> QED BY <2>2, <2>4 DEF StateInv
<1> QED BY <1>2, <1>3

WithRaw == [Current EXCEPT !.data = Append(@, RawBlock)]

LEMMA RawFile ==
  ASSUME StateInv, index \in 1 .. Len(Strategy)
  PROVE  /\ WithRaw \in File /\ WithRaw.of = Current.of /\ WithRaw.by = Current.by
         /\ WithRaw.data = Append(Current.data, RawBlock)
<1> DEFINE d == Append(Current.data, RawBlock)
<1>1. Current \in File /\ Current.data \in Seq(Block)
  BY CurrentType
<1>2. d \in Seq(Block)
  BY <1>1, AppendProperties DEF RawBlock, Block
<1>3. WithRaw = [Current EXCEPT !.data = d]
  BY <1>1 DEF WithRaw, File
<1> HIDE DEF d
<1> QED BY <1>1, <1>2, <1>3 DEF File, d

LEMMA StateNext == StateInv /\ [Next]_vars => StateInv'
<1> SUFFICES ASSUME StateInv, [Next]_vars PROVE StateInv'
  OBVIOUS
<1>0. /\ CallInv /\ QueueInv /\ SessionInv /\ FileType /\ Len(Strategy) \in Nat \ {0}
  BY StrategyLen DEF StateInv
<1>1. CASE DoRequest
  <2>1. /\ pc = "next" /\ index \in 1 .. Len(Strategy) /\ call # 0 /\ UNCHANGED call
        /\ pc' = "transfer" /\ index' = index /\ resync' = FALSE
        /\ accepted_msg_nums' = {MsgNum(req)} /\ req \in Request
        /\ unmatched \in Seq(Sent) => queue' \in Seq(Sent) /\ unmatched' \in Seq(Sent)
        /\ Len(queue') <= QueueSize /\ Len(unmatched') <= Unmatched
        /\ stream' = [stream EXCEPT ![req] = 1]
        /\ PartIs(NewPart) /\ UNCHANGED otherFiles
    BY <1>1, Requested
  <2>2. CallInv'
    <3>1. UNCHANGED <<call, index, only_timeouts, outcome, callVars>>
      BY <1>1 DEF DoRequest
    <3> QED BY <1>0, <2>1, <3>1 DEF CallInv, callVars, Ready
  <2>3. QueueInv'
    <3>1. MsgNum(req) \in Request \cup {None}
      BY <2>1, RequestCases
    <3>2. queue' \in Seq(Sent)
      BY <1>0, <2>1 DEF SessionInv
    <3> QED BY <2>1, <3>1, <3>2 DEF QueueInv
  <2>4. FileType'
    BY <1>0, <2>1, FilesSet, NewFile DEF CallInv
  <2>5. SessionInv'
    <3>1. /\ conn' \in {"none", "up", "down"} /\ framing' \in {"ok", "lost"}
          /\ fault' \in {"none", "magic", "lost"} /\ UNCHANGED mishaps
      BY <1>0, <1>1 DEF DoRequest, NewConnection, SessionInv
    <3>2. stream' \in [Request -> 0 .. Size + 1]
      BY <1>0, <2>1 DEF SessionInv
    <3> QED BY <1>0, <2>1, <3>1, <3>2 DEF SessionInv
  <2> QED BY <2>2, <2>3, <2>4, <2>5 DEF StateInv
<1>2. CASE RawChunk
  <2>1. pc = "raw" /\ PartIs(WithRaw) /\ UNCHANGED otherFiles
        /\ UNCHANGED <<pc, call, index, only_timeouts, outcome, callVars, transferVars,
                       sessionVars>>
    BY <1>2 DEF RawChunk, PartIs, WithRaw, otherFiles, Current
  <2>2. index \in 1 .. Len(Strategy)
    BY <1>0, <2>1 DEF CallInv, Ready
  <2>3. FileType'
    BY <1>0, <2>1, <2>2, FilesSet, RawFile
  <2>4. CallInv' /\ QueueInv'
    BY <1>0, <2>1 DEF CallInv, QueueInv, callVars, transferVars
  <2> QED BY <1>0, <2>1, <2>3, <2>4, SessionUnchanged DEF StateInv
<1>3. CASE Environment
  <2>1. ASSUME NEW r \in Request, NEW skipped \in {0, 1}, Send(r, skipped) PROVE StateInv'
    BY <2>1, Sends, StateSends
  <2> QED BY <1>3, <2>1, StateEnvironment DEF Environment
<1>4. CASE Caller
  BY <1>1, <1>2, <1>4, StateCall, StateFinal, StateTransfer DEF Caller
<1>5. CASE \E b \in BOOLEAN : Start(b)
  BY <1>5, StateCall
<1>6. CASE UNCHANGED vars
  BY <1>0, <1>6 DEF vars, callVars, transferVars, sessionVars, fileVars, StateInv, CallInv,
       QueueInv, SessionInv, FileType
<1> QED BY <1>3, <1>4, <1>5, <1>6 DEF Next

LEMMA InitState == Init => StateInv
<1> SUFFICES ASSUME Init PROVE StateInv
  OBVIOUS
<1>1. Len(Strategy) \in Nat \ {0}
  BY StrategyLen
<1>2. CallInv
  BY <1>1 DEF Init, CallInv, Ready
<1>3. QueueInv /\ SessionInv
  <2>1. <<>> \in Seq(Sent) /\ Len(<<>>) = 0 /\ 0 <= QueueSize /\ 0 <= Unmatched
    BY EmptySeq
  <2>2. queue \in Seq(Sent) /\ Len(queue) <= QueueSize /\ queue = <<>>
        /\ unmatched \in Seq(Sent) /\ Len(unmatched) <= Unmatched
    BY <2>1 DEF Init
  <2>3. QueueInv
    BY <2>2 DEF Init, QueueInv
  <2>4. SessionInv
    BY <2>2, StreamNone DEF Init, SessionInv
  <2> QED BY <2>3, <2>4
<1>4. OldFile \in File
  <2>1. <<0, 1>> \in Request
    BY <1>1 DEF Request
  <2>2. Blocks(<<0, 1>>) \in [1 .. Size -> Block]
    BY <2>1 DEF Blocks, Block
  <2>3. Blocks(<<0, 1>>) \in Seq(Block)
    BY <2>2
  <2> QED BY <2>1, <2>3 DEF OldFile, File
<1>5. FileType
  BY <1>4, NoFileType DEF Init, FileType
<1> QED BY <1>2, <1>3, <1>5 DEF StateInv

\* The types hold, and a call, however often it reconnects and is cut again, tries no more
\* than reconnect_retries + delayed_reconnect_retries times (_reconnect_for_download).
THEOREM BudgetKept == Spec => []DownloadInv
<1>1. StateInv => DownloadInv
  <2> SUFFICES ASSUME StateInv PROVE DownloadInv
    OBVIOUS
  <2>1. RetryBudget
    BY DEF StateInv, CallInv, RetryBudget
  <2> QED BY <2>1, TypeIs DEF DownloadInv
<1> QED BY <1>1, InitState, StateNext, PTL DEF Spec

(***************************************************************************)
(* The old output.                                                         *)
(***************************************************************************)

LEMMA FinalElsewhere ==
  FinalInv /\ pc' \notin Finishing /\ UNCHANGED output => FinalInv'
BY DEF FinalInv, Finishing, Exists

LEMMA FinalSame ==
  FinalInv /\ UNCHANGED <<pc, call, index, part, converted, output>> => FinalInv'
BY DEF FinalInv, Exists, Converts, Kind, req

\* The final steps lead from one to the next with the completed file in their hands.
LEMMA FinalFinal ==
  ASSUME StateInv, FinalInv,
         Convert \/ Converted \/ ConversionFails \/ UnlinkOutput \/ ReplaceOutput \/ Cleanup
  PROVE  FinalInv'
<1>1. Current = part[index] /\ ~ Exists(NoFile)
  BY NoFileType DEF Current
<1>2. CASE Convert
  BY <1>2 DEF Convert, FinalInv, Exists, Converts, Kind, req, locals
<1>3. CASE Converted
  BY <1>1, <1>3 DEF Converted, FinalInv, Exists, Converts, Kind, req, locals
<1>4. CASE ConversionFails \/ Cleanup
  BY <1>4, FinalElsewhere DEF ConversionFails, Cleanup, Return, Finishing
<1>5. CASE UnlinkOutput
  BY <1>1, <1>5 DEF UnlinkOutput, FinalInv, Exists, Converts, Kind, req, locals
<1>6. CASE ReplaceOutput
  <2>1. pc' \in {"cleanup", "idle"} /\ output'.by # None
    BY <1>1, <1>6 DEF ReplaceOutput, Return, FinalInv, Converts
  <2> QED BY <2>1 DEF FinalInv, Finishing
<1> QED BY <1>2, <1>3, <1>4, <1>5, <1>6

LEMMA FinalNext == StateInv /\ FinalInv /\ [Next]_vars => FinalInv'
<1> SUFFICES ASSUME StateInv, FinalInv, [Next]_vars PROVE FinalInv'
  OBVIOUS
<1>1. CASE Receive \/ Idle \/ Fault \/ RawEnd
  <2>1. /\ pc \in {"transfer", "raw"} /\ index \in 1 .. Len(Strategy) /\ call # 0
        /\ TransferStep
    BY <1>1, TransferSteps
  <2>2. UNCHANGED <<call, converted, output>>
    BY <2>1 DEF TransferStep
  <2>3. CASE Continues \/ ToRaw
    BY <2>1, <2>2, <2>3, FinalElsewhere DEF Continues, Continue, ToRaw, Finishing
  <2>4. ASSUME NEW e, Raised(e, Current) PROVE FinalInv'
    <3>1. pc' \in {"next", "idle"}
      BY <2>1, <2>2, <2>4, Raises, CurrentType
    <3> QED BY <2>2, <3>1, FinalElsewhere DEF Finishing
  <2>5. ASSUME NEW f \in File, NEW skips, End(f, skips) PROVE FinalInv'
    <3>1. \/ pc' \in {"next", "reconnect"}
          \/ /\ pc' = IF Converts THEN "convert" ELSE "unlink"
             /\ index' = index /\ PartIs(f) /\ ~ Mismatch(f, skips)
      BY <2>1, <2>2, <2>5, Ends
    <3>2. CASE pc' \in {"next", "reconnect"}
      BY <2>2, <3>2, FinalElsewhere DEF Finishing
    <3>3. CASE /\ pc' = IF Converts THEN "convert" ELSE "unlink"
               /\ index' = index /\ PartIs(f) /\ ~ Mismatch(f, skips)
      <4>1. part'[index'].by # None
        BY <2>1, <3>3, PartSet DEF Mismatch, StateInv
      <4>2. Converts' = Converts
        BY <2>2, <3>3 DEF Converts, Kind, req
      <4> QED BY <2>2, <3>3, <4>1, <4>2 DEF FinalInv, Exists
    <3> QED BY <3>1, <3>2, <3>3
  <2> QED BY <2>1, <2>3, <2>4, <2>5 DEF TransferStep, Raising
<1>2. CASE \/ \E ok \in BOOLEAN : TryDownloadReconnect(ok)
           \/ \E b \in BOOLEAN : Start(b)
           \/ GiveUp \/ DoRequest \/ Exhausted \/ RawChunk
  <2>1. UNCHANGED output
    BY <1>2 DEF TryDownloadReconnect, GiveUp, DoRequest, Exhausted, RawChunk, Start, fileVars
  <2>2. pc' \in {"idle", "next", "reconnect", "transfer", "raw"}
    BY <1>2 DEF TryDownloadReconnect, GiveUp, DoRequest, Exhausted, RawChunk, Start, Return
  <2> QED BY <2>1, <2>2, FinalElsewhere DEF Finishing
<1>3. CASE \E e \in {"timeout", "protocol", "other"} : RequestFails(e)
  <2>1. pc' \in {"idle", "next"} /\ UNCHANGED output
    BY <1>3 DEF RequestFails, Raised, NextStrategy, Return
  <2> QED BY <2>1, FinalElsewhere DEF Finishing
<1>4. CASE Environment
  <2>1. CASE Desync \/ InvalidMagic \/ Lose
    BY <2>1, FinalSame DEF Desync, InvalidMagic, Lose, fileVars
  <2>2. CASE Crash
    BY <2>2, FinalElsewhere DEF Crash, Return, fileVars, Finishing
  <2>3. ASSUME NEW r \in Request, NEW skipped \in {0, 1}, Send(r, skipped) PROVE FinalInv'
    <3>1. PICK m \in Sent : Brings(r, m)
      BY <2>3, Sends
    <3>2. CASE Routed(m)
      BY <3>1, <3>2, FinalElsewhere DEF Brings, Routed, Finishing
    <3>3. CASE Unrouted(m)
      BY <3>1, <3>3, FinalSame DEF Brings, Unrouted
    <3> QED BY <3>1, <3>2, <3>3 DEF Brings
  <2> QED BY <1>4, <2>1, <2>2, <2>3 DEF Environment
<1>5. CASE UNCHANGED vars
  BY <1>5, FinalSame DEF vars, fileVars
<1> QED BY <1>1, <1>2, <1>3, <1>4, <1>5, FinalFinal DEF Next, Caller

LEMMA InitFinal == Init => FinalInv
<1>1. None # <<0, 1>>
  BY DEF None
<1> QED BY <1>1, NoFileType DEF Init, FinalInv, OldFile, Finishing

\* The output is given up by UnlinkOutput, when the file that replaces it is complete, and
\* gets its name from ReplaceOutput.
LEMMA OldFileStep ==
  ASSUME StateInv, FinalInv, FinalInv', [Next]_vars
  PROVE  /\ Exists(output) /\ ~ Exists(output') => \E f \in Playable : f.by # None
         /\ Exists(output') => output'.by # None
<1>1. Exists(output') => output'.by # None
  BY DEF FinalInv, Exists
<1>2. pc \in {"unlink", "replace"} => \E f \in Playable : f.by # None
  <2> SUFFICES ASSUME pc \in {"unlink", "replace"} PROVE \E f \in Playable : f.by # None
    OBVIOUS
  <2>1. index \in 1 .. Len(Strategy) /\ DOMAIN part = 1 .. Len(Strategy)
    BY StrategyLen DEF StateInv, CallInv, FileType, Ready
  <2>2. CASE Converts
    BY <2>2 DEF FinalInv, Playable
  <2>3. CASE ~ Converts
    <3>1. part[index].by # None
      BY <2>3 DEF FinalInv
    <3>2. Mp4 => Strategy[index] = "direct"
      BY <2>3 DEF Converts, Kind, req
    <3>3. part[index] \in Playable
      BY <2>1, <3>2 DEF Playable
    <3> QED BY <3>1, <3>3
  <2> QED BY <2>2, <2>3
<1>3. pc \notin {"unlink", "replace"} => UNCHANGED output
  <2> SUFFICES ASSUME pc \notin {"unlink", "replace"} PROVE UNCHANGED output
    OBVIOUS
  <2>1. CASE Caller
    BY <2>1 DEF Caller, TryDownloadReconnect, GiveUp, DoRequest, RequestFails, Exhausted, Receive,
         Idle, Fault, RawChunk, RawEnd, Convert, Converted, ConversionFails, UnlinkOutput,
         ReplaceOutput, Cleanup, fileVars
  <2>2. CASE Environment
    BY <2>2 DEF Environment, Send, Desync, InvalidMagic, Lose, Crash, fileVars
  <2>3. CASE UNCHANGED vars \/ \E b \in BOOLEAN : Start(b)
    BY <2>3 DEF Start, vars, fileVars
  <2> QED BY <2>1, <2>2, <2>3 DEF Next
<1> QED BY <1>1, <1>2, <1>3

\* The file a download replaces goes only when a completed one is beside it that can be
\* played as it is (_finalize_download): a crash in any step leaves one of the two.
THEOREM OldKept == Spec => OldFileKept
<1>1. Init => StateInv /\ FinalInv
  BY InitState, InitFinal
<1>2. StateInv /\ FinalInv /\ [Next]_vars => (StateInv /\ FinalInv)'
  BY StateNext, FinalNext
<1> DEFINE Step ==
    /\ Exists(output) /\ ~ Exists(output') => \E f \in Playable : f.by # None
    /\ Exists(output') => output'.by # None
<1>3. StateInv /\ FinalInv /\ (StateInv /\ FinalInv)' /\ [Next]_vars => [Step]_vars
  BY OldFileStep
<1>4. Spec => [][Step]_vars
  <2> HIDE DEF Step
  <2> QED BY <1>1, <1>2, <1>3, PTL DEF Spec
<1> QED BY <1>4 DEF OldFileKept

(***************************************************************************)
(* The requests that are still to come.                                    *)
(***************************************************************************)

\* A step that leaves the messages alone, and after which no more requests are to come.
LEMMA ComingLess ==
  ASSUME ComingInv, UNCHANGED unmatched, \A r \in Request : Coming(r)' => Coming(r),
         \A r \in Request : Coming(r)' => stream'[r] = stream[r] \/ stream'[r] = 0
  PROVE  ComingInv'
<1>1. Heard \subseteq Heard'
  BY DEF Heard, Sent, Message
<1>2. unmatched' \in Seq(Heard')
  BY <1>1, SeqMonotonic DEF ComingInv
<1>3. \A r \in Request : Coming(r)' => stream'[r] = 0
  BY DEF ComingInv
<1> QED BY <1>2, <1>3 DEF ComingInv

LEMMA ComingReset ==
  ASSUME unmatched' = <<>>, stream' = [r \in Request |-> 0]
  PROVE  ComingInv'
<1>1. unmatched' \in Seq(Heard')
  BY EmptySeq
<1> QED BY <1>1 DEF ComingInv

LEMMA ComingNext == StateInv /\ ComingInv /\ [Next]_vars => ComingInv'
<1> SUFFICES ASSUME StateInv, ComingInv, [Next]_vars PROVE ComingInv'
  OBVIOUS
<1>0. call \in Nat /\ index \in Nat /\ (pc = "idle" => index = 1)
  BY StrategyLen DEF StateInv, CallInv
<1>00. \A r \in Request : r[1] \in Nat /\ r[2] \in Nat /\ r[2] >= 1
  BY StrategyLen DEF Request
\* The strategy is over: the next one, or none of this call.
<1>1. ASSUME UNCHANGED <<call, unmatched, stream>>,
             \/ pc \in {"next", "transfer", "raw"} /\ pc' = "next" /\ index' = index + 1
             \/ pc' \notin {"next", "transfer", "raw"}
      PROVE  ComingInv'
  <2>1. \A r \in Request : Coming(r)' => Coming(r)
    <3>1. CASE pc \in {"next", "transfer", "raw"} /\ pc' = "next" /\ index' = index + 1
      <4>1. \A i \in Nat : i >= index + 1 => i > index /\ i >= index
        BY <1>0
      <4> QED BY <1>1, <1>00, <3>1, <4>1 DEF Coming
    <3>2. CASE pc' \notin {"next", "transfer", "raw"}
      BY <1>1, <3>2 DEF Coming
    <3> QED BY <1>1, <3>1, <3>2
  <2> QED BY <1>1, <2>1, ComingLess
<1>2. ASSUME UNCHANGED <<pc, call, index, unmatched>>,
             \A r \in Request : stream'[r] = stream[r] \/ stream'[r] = 0
      PROVE  ComingInv'
  <2>1. \A r \in Request : Coming(r)' => Coming(r)
    BY <1>2 DEF Coming
  <2> QED BY <1>2, <2>1, ComingLess
<1>3. CASE Receive \/ Idle \/ Fault \/ RawEnd
  <2>1. /\ pc \in {"transfer", "raw"} /\ index \in 1 .. Len(Strategy) /\ call # 0
        /\ TransferStep
    BY <1>3, TransferSteps
  <2>2. UNCHANGED <<call, unmatched, stream>>
    BY <2>1 DEF TransferStep, sessionVars
  <2>3. CASE Continues
    BY <1>2, <2>2, <2>3 DEF Continues, Continue
  <2>4. CASE ToRaw
    <3>1. \A r \in Request : Coming(r)' => Coming(r)
      BY <2>2, <2>4 DEF ToRaw, Coming
    <3> QED BY <2>2, <3>1, ComingLess
  <2>5. ASSUME NEW e, Raised(e, Current) PROVE ComingInv'
    <3>1. (pc' = "next" /\ index' = index + 1) \/ pc' = "idle"
      BY <2>1, <2>2, <2>5, Raises, CurrentType
    <3> QED BY <1>1, <2>1, <2>2, <3>1
  <2>6. ASSUME NEW f \in File, NEW skips, End(f, skips) PROVE ComingInv'
    <3>1. (pc' = "next" /\ index' = index + 1) \/ pc' \in {"reconnect", "convert", "unlink"}
      BY <2>1, <2>2, <2>6, Ends
    <3> QED BY <1>1, <2>1, <2>2, <3>1
  <2> QED BY <2>1, <2>3, <2>4, <2>5, <2>6 DEF TransferStep, Raising
<1>4. ASSUME NEW e, RequestFails(e) PROVE ComingInv'
  <2>1. /\ pc = "next" /\ ((pc' = "next" /\ index' = index + 1) \/ pc' = "idle")
        /\ UNCHANGED <<call, unmatched, stream>>
    BY <1>4 DEF RequestFails, Raised, NextStrategy, Return, sessionVars
  <2> QED BY <1>1, <2>1
<1>5. ASSUME NEW b \in BOOLEAN, Start(b) PROVE ComingInv'
  <2>1. /\ pc = "idle" /\ call' = call + 1 /\ UNCHANGED <<unmatched, stream>>
        /\ pc' \in {"idle", "next"}
    BY <1>5 DEF Start, sessionVars, Return
  <2>2. ASSUME NEW r \in Request, Coming(r)' PROVE Coming(r)
    <3>1. r[1] > call + 1 \/ r[1] = call + 1
      BY <2>1, <2>2 DEF Coming
    <3>2. r[1] > call
      BY <1>0, <1>00, <3>1
    <3> QED BY <3>2 DEF Coming
  <2> QED BY <2>1, <2>2, ComingLess
<1>6. CASE \/ GiveUp \/ Exhausted \/ Convert \/ Converted \/ ConversionFails
           \/ UnlinkOutput \/ ReplaceOutput \/ Cleanup
  <2>1. UNCHANGED <<call, unmatched, stream>>
    BY <1>6 DEF GiveUp, Exhausted, Convert, Converted, ConversionFails, UnlinkOutput,
         ReplaceOutput, Cleanup, sessionVars
  <2>2. pc' \notin {"next", "transfer", "raw"}
    BY <1>6 DEF GiveUp, Exhausted, Convert, Converted, ConversionFails, UnlinkOutput,
         ReplaceOutput, Cleanup, Return
  <2> QED BY <1>1, <2>1, <2>2
<1>7. CASE \/ \E ok \in BOOLEAN : TryDownloadReconnect(ok)
           \/ Crash
  BY <1>7, ComingReset DEF TryDownloadReconnect, NewConnection, Crash
<1>8. CASE RawChunk \/ Desync \/ InvalidMagic \/ Lose \/ UNCHANGED vars
  BY <1>2, <1>8 DEF RawChunk, Desync, InvalidMagic, Lose, vars, sessionVars
<1>9. CASE DoRequest
  <2>1. /\ pc = "next" /\ UNCHANGED call /\ pc' = "transfer" /\ index' = index
        /\ req \in Request /\ stream' = [stream EXCEPT ![req] = 1]
        /\ unmatched \in Seq(Heard) => unmatched' \in Seq(Heard)
    BY <1>9, Requested
  <2>2. \A r \in Request : Coming(r)' => Coming(r) /\ r # req
    <3>1. \A i \in Nat : i > index => i >= index /\ i # index
      BY <1>0
    <3>2. \A n \in Nat : n > call => n # call
      BY <1>0
    <3>3. req[1] = call /\ req[2] = index
      BY DEF req
    <3> QED BY <1>00, <2>1, <3>1, <3>2, <3>3 DEF Coming
  <2>3. \A r \in Request : Coming(r)' => stream'[r] = 0
    BY <2>1, <2>2 DEF ComingInv, StateInv, SessionInv
  <2>4. Heard \subseteq Heard'
    BY <2>2 DEF Heard, Sent, Message
  <2>5. unmatched' \in Seq(Heard')
    BY <2>1, <2>4, SeqMonotonic DEF ComingInv
  <2> QED BY <2>3, <2>5 DEF ComingInv
<1>10. ASSUME NEW r \in Request, NEW skipped \in {0, 1}, Send(r, skipped) PROVE ComingInv'
  <2>1. PICK m \in Sent : Brings(r, m)
    BY <1>10, Sends
  <2>2. \A q : Coming(q)' <=> Coming(q)
    BY <2>1 DEF Brings, Coming
  <2>3. ~ Coming(r)
    BY <2>1 DEF Brings, ComingInv
  <2>4. m \in Heard
    BY <2>1, <2>3 DEF Brings, Heard
  <2>5. unmatched' \in Seq(Heard)
    <3>1. Unmatched \in Nat \ {0} /\ Len(unmatched) <= Unmatched /\ unmatched \in Seq(Heard)
      BY DEF StateInv, SessionInv, ComingInv
    <3> QED BY <2>1, <2>4, <3>1, PutType DEF Brings, Routed, Unrouted
  <2>6. Heard' = Heard
    BY <2>2 DEF Heard
  <2>7. \A q \in Request : Coming(q)' => stream'[q] = 0
    BY <2>1, <2>2, <2>3 DEF Brings, ComingInv, StateInv, SessionInv
  <2> QED BY <2>5, <2>6, <2>7 DEF ComingInv
<1> QED BY <1>3, <1>4, <1>5, <1>6, <1>7, <1>8, <1>9, <1>10 DEF Next, Caller, Environment

LEMMA InitComing == Init => ComingInv
<1> SUFFICES ASSUME Init PROVE ComingInv
  OBVIOUS
<1>1. unmatched \in Seq(Heard)
  BY EmptySeq DEF Init
<1> QED BY <1>1 DEF Init, ComingInv

(***************************************************************************)
(* The blocks of a transfer, from the camera through the queue to the file.*)
(***************************************************************************)

\* The head of the queue is taken: what is behind it follows it, or what it followed.
LEMMA FollowsTail ==
  ASSUME NEW q \in Seq(Sent), q # <<>>, NEW w \in Nat, NEW o, NEW i \in Nat \ {0},
         i <= Len(q), NEW v, Follows(q, w, o, i + 1, v)
  PROVE  /\ q[1].kind = "data" /\ q[1].req = o => Follows(Tail(q), q[1].n, o, i, v)
         /\ q[1].kind # "data" => Follows(Tail(q), w, o, i, v)
<1> DEFINE t == Tail(q)
<1>1. Len(q) \in Nat /\ \A j \in 1 .. Len(q) - 1 : t[j] = q[j + 1]
  BY HeadTailProperties
<1>2. \A j \in 1 .. i - 1 : t[j] = q[j + 1]
  <2>1. \A j \in 1 .. i - 1 : j \in 1 .. Len(q) - 1
    BY <1>1
  <2> QED BY <1>1, <2>1
<1> HIDE DEF t
<1>3. /\ (\A j \in 1 .. i : q[j].kind # "data") => v = w + 1
      /\ \A j \in 1 .. i :
            q[j].kind = "data" /\ q[j].req = o /\ (\A k \in j + 1 .. i : q[k].kind # "data")
               => v = q[j].n + 1
  <2>1. i + 1 - 1 = i
    OBVIOUS
  <2> QED BY <2>1 DEF Follows
\* The same for the places of the tail.
<1>4. ASSUME NEW j \in 1 .. i - 1, t[j].kind = "data", t[j].req = o,
             \A k \in j + 1 .. i - 1 : t[k].kind # "data"
      PROVE  v = t[j].n + 1
  <2>1. j + 1 \in 1 .. i /\ t[j] = q[j + 1]
    BY <1>2
  <2>2. ASSUME NEW k \in j + 1 + 1 .. i PROVE q[k].kind # "data"
    <3>1. k - 1 \in j + 1 .. i - 1 /\ k - 1 \in 1 .. i - 1 /\ k - 1 + 1 = k
      OBVIOUS
    <3> QED BY <1>2, <1>4, <3>1
  <2> QED BY <1>3, <1>4, <2>1, <2>2
<1>5. ASSUME \A j \in 1 .. i - 1 : t[j].kind # "data"
      PROVE  \A k \in 2 .. i : q[k].kind # "data"
  <2>1. ASSUME NEW k \in 2 .. i PROVE q[k].kind # "data"
    <3>1. k - 1 \in 1 .. i - 1 /\ k - 1 + 1 = k
      OBVIOUS
    <3> QED BY <1>2, <1>5, <3>1
  <2> QED BY <2>1
<1>6. ASSUME q[1].kind = "data", q[1].req = o PROVE Follows(t, q[1].n, o, i, v)
  <2>1. (\A j \in 1 .. i - 1 : t[j].kind # "data") => v = q[1].n + 1
    <3>1. 1 \in 1 .. i /\ 1 + 1 = 2
      OBVIOUS
    <3> QED BY <1>3, <1>5, <1>6, <3>1
  <2> QED BY <1>4, <2>1 DEF Follows
<1>7. ASSUME q[1].kind # "data" PROVE Follows(t, w, o, i, v)
  <2>1. (\A j \in 1 .. i - 1 : t[j].kind # "data") => v = w + 1
    <3>1. \A k \in 1 .. i : k = 1 \/ k \in 2 .. i
      OBVIOUS
    <3> QED BY <1>3, <1>5, <1>7, <3>1
  <2> QED BY <1>4, <2>1 DEF Follows
<1> QED BY <1>6, <1>7 DEF t

LEMMA ChainTail ==
  ASSUME NEW q \in Seq(Sent), q # <<>>, NEW w \in Nat, NEW o, NEW next, Chain(q, w, o, next)
  PROVE  /\ q[1].kind = "data" /\ q[1].req = o => Chain(Tail(q), q[1].n, o, next)
         /\ q[1].kind # "data" => Chain(Tail(q), w, o, next)
<1> DEFINE t == Tail(q)
<1>1. /\ Len(q) \in Nat \ {0} /\ Len(t) = Len(q) - 1
      /\ \A j \in 1 .. Len(q) - 1 : t[j] = q[j + 1]
  BY HeadTailProperties, EmptySeq
<1>2. ASSUME NEW u \in Nat,
             \A i \in Nat \ {0} : \A v : i <= Len(q) /\ Follows(q, w, o, i + 1, v)
                 => Follows(t, u, o, i, v)
      PROVE  Chain(t, u, o, next)
  <2> HIDE DEF t
  <2>1. ASSUME NEW i \in 1 .. Len(t), t[i].req = o, t[i].kind \in {"data", "end"}, ~ t[i].resync
        PROVE  Follows(t, u, o, i, Position(t[i]))
    <3>1. i \in Nat \ {0} /\ i <= Len(q) /\ i + 1 \in 1 .. Len(q) /\ t[i] = q[i + 1]
      BY <1>1
    <3>2. Follows(q, w, o, i + 1, Position(q[i + 1]))
      BY <2>1, <3>1 DEF Chain
    <3> QED BY <1>2, <3>1, <3>2
  <2>2. ASSUME next # 0 PROVE Follows(t, u, o, Len(t) + 1, next)
    <3>1. Follows(q, w, o, Len(q) + 1, next)
      BY <2>2 DEF Chain
    <3>2. Len(t) + 1 = Len(q)
      BY <1>1
    <3> QED BY <1>1, <1>2, <3>1, <3>2
  <2> QED BY <2>1, <2>2 DEF Chain
<1>3. ASSUME q[1].kind = "data", q[1].req = o PROVE Chain(t, q[1].n, o, next)
  <2>1. q[1].n \in Nat
    <3>1. q[1] \in Sent
      BY <1>1, ElementOfSeq
    <3> QED BY <3>1 DEF Sent, Message
  <2>2. \A i \in Nat \ {0} : \A v : i <= Len(q) /\ Follows(q, w, o, i + 1, v)
           => Follows(t, q[1].n, o, i, v)
    BY <1>3, FollowsTail
  <2> HIDE DEF t
  <2> QED BY <1>2, <2>1, <2>2
<1>4. ASSUME q[1].kind # "data" PROVE Chain(t, w, o, next)
  <2>1. \A i \in Nat \ {0} : \A v : i <= Len(q) /\ Follows(q, w, o, i + 1, v)
           => Follows(t, w, o, i, v)
    BY <1>4, FollowsTail
  <2> HIDE DEF t
  <2> QED BY <1>2, <2>1
<1> QED BY <1>3, <1>4

\* A message is put at the end.  One of another request lets the own ones be; the next one
\* of its own follows what is in front of it, and then the next is the one after it.
LEMMA ChainAppend ==
  ASSUME NEW q \in Seq(Sent), NEW w \in Nat, NEW o, NEW next, NEW m \in Sent,
         Chain(q, w, o, next)
  PROVE  /\ m.req # o => Chain(Append(q, m), w, o, next)
         /\ /\ m.req = o /\ next # 0
            /\ m.kind \in {"data", "end"} /\ ~ m.resync => Position(m) = next
            => Chain(Append(q, m), w, o, IF m.kind = "data" THEN m.n + 1 ELSE 0)
<1> DEFINE t == Append(q, m)
           l == Len(q)
<1>1. l \in Nat /\ Len(t) = l + 1 /\ (\A j \in 1 .. l : t[j] = q[j]) /\ t[l + 1] = m
  BY AppendProperties, LenProperties
<1> HIDE DEF t, l
<1>2. ASSUME NEW i \in 1 .. l + 1, NEW v, Follows(q, w, o, i, v)
      PROVE  Follows(t, w, o, i, v)
  <2>1. \A j \in 1 .. i - 1 : t[j] = q[j]
    BY <1>1
  <2>2. ASSUME NEW j \in 1 .. i - 1, t[j].kind = "data", t[j].req = o,
               \A k \in j + 1 .. i - 1 : t[k].kind # "data"
        PROVE  v = t[j].n + 1
    <3>1. \A k \in j + 1 .. i - 1 : k \in 1 .. i - 1
      OBVIOUS
    <3> QED BY <1>2, <2>1, <2>2, <3>1 DEF Follows
  <2>3. (\A j \in 1 .. i - 1 : t[j].kind # "data") => v = w + 1
    BY <1>2, <2>1 DEF Follows
  <2> QED BY <2>2, <2>3 DEF Follows
<1>3. ASSUME NEW i \in 1 .. l, t[i].req = o, t[i].kind \in {"data", "end"}, ~ t[i].resync
      PROVE  Follows(t, w, o, i, Position(t[i]))
  <2>1. Follows(q, w, o, i, Position(q[i]))
    BY <1>1, <1>3 DEF Chain, l
  <2>2. i \in 1 .. l + 1
    BY <1>1
  <2> QED BY <1>1, <1>2, <2>1, <2>2
<1>4. next # 0 => Follows(t, w, o, l + 1, next)
  <2>1. next # 0 => Follows(q, w, o, l + 1, next)
    BY DEF Chain, l
  <2>2. l + 1 \in 1 .. l + 1
    BY <1>1
  <2> QED BY <1>2, <2>1, <2>2
<1>5. \A i \in 1 .. l + 1 : i \in 1 .. l \/ i = l + 1
  BY <1>1
\* Behind m.
<1>6. ASSUME NEW v,
             m.kind # "data" => Follows(t, w, o, l + 1, v),
             m.kind = "data" /\ m.req = o => v = m.n + 1
      PROVE  Follows(t, w, o, l + 1 + 1, v)
  <2>1. l + 1 + 1 - 1 = l + 1 /\ l + 1 - 1 = l /\ l + 1 \in 1 .. l + 1
    BY <1>1
  <2>2. (\A j \in 1 .. l + 1 : t[j].kind # "data") => v = w + 1
    <3>1. \A j \in 1 .. l : j \in 1 .. l + 1
      BY <1>1
    <3> QED BY <1>1, <1>6, <2>1, <3>1 DEF Follows
  <2>3. ASSUME NEW j \in 1 .. l + 1, t[j].kind = "data", t[j].req = o,
               \A k \in j + 1 .. l + 1 : t[k].kind # "data"
        PROVE  v = t[j].n + 1
    <3>1. CASE j = l + 1
      BY <1>1, <1>6, <2>3, <3>1
    <3>2. CASE j \in 1 .. l
      <4>1. l + 1 \in j + 1 .. l + 1 /\ \A k \in j + 1 .. l : k \in j + 1 .. l + 1
        BY <1>1, <3>2
      <4>2. m.kind # "data"
        BY <1>1, <2>3, <4>1
      <4> QED BY <1>6, <2>1, <2>3, <3>2, <4>1, <4>2 DEF Follows
    <3> QED BY <1>5, <3>1, <3>2
  <2> QED BY <2>1, <2>2, <2>3 DEF Follows
<1>7. ASSUME m.req # o PROVE Chain(t, w, o, next)
  <2>1. \A i \in 1 .. l + 1 : t[i].req = o => i \in 1 .. l
    BY <1>1, <1>5, <1>7
  <2>2. next # 0 => Follows(t, w, o, l + 1 + 1, next)
    BY <1>4, <1>6, <1>7
  <2> QED BY <1>1, <1>3, <2>1, <2>2 DEF Chain
<1>8. ASSUME m.req = o, next # 0,
             m.kind \in {"data", "end"} /\ ~ m.resync => Position(m) = next
      PROVE  Chain(t, w, o, IF m.kind = "data" THEN m.n + 1 ELSE 0)
  <2> DEFINE after == IF m.kind = "data" THEN m.n + 1 ELSE 0
  <2>1. ASSUME NEW i \in 1 .. l + 1, t[i].req = o, t[i].kind \in {"data", "end"}, ~ t[i].resync
        PROVE  Follows(t, w, o, i, Position(t[i]))
    <3>1. CASE i \in 1 .. l
      BY <1>3, <2>1, <3>1
    <3>2. CASE i = l + 1
      BY <1>1, <1>4, <1>8, <2>1, <3>2
    <3> QED BY <1>5, <3>1, <3>2
  <2>2. after # 0 => Follows(t, w, o, l + 1 + 1, after)
    BY <1>6
  <2> HIDE DEF after
  <2>3. Chain(t, w, o, after)
    BY <1>1, <2>1, <2>2 DEF Chain
  <2> QED BY <2>3 DEF after
<1> QED BY <1>7, <1>8 DEF t

(***************************************************************************)
(* What is presented as finished is whole.                                 *)
(***************************************************************************)

LEMMA OwnAppend ==
  ASSUME NEW f, f.data \in Seq(Block), NEW g, NEW b \in Block,
         g.of = f.of, g.data = Append(f.data, b)
  PROVE  OnlyOwn(g) <=> OnlyOwn(f) /\ b.req = f.of
<1> DEFINE l == Len(f.data)
<1>1. /\ l \in Nat /\ DOMAIN f.data = 1 .. l /\ DOMAIN g.data = 1 .. l + 1
      /\ (\A i \in 1 .. l : g.data[i] = f.data[i]) /\ g.data[l + 1] = b
  <2>1. /\ Append(f.data, b) \in Seq(Block) /\ Len(Append(f.data, b)) = l + 1
        /\ \A i \in 1 .. l : Append(f.data, b)[i] = f.data[i]
        /\ Append(f.data, b)[l + 1] = b
    BY AppendProperties
  <2> QED BY <2>1, LenProperties
<1> HIDE DEF l
<1>2. /\ l + 1 \in 1 .. l + 1
      /\ \A i \in 1 .. l : i \in 1 .. l + 1
      /\ \A i \in 1 .. l + 1 : i \in 1 .. l \/ i = l + 1
  BY <1>1
<1> QED BY <1>1, <1>2 DEF OnlyOwn

LEMMA ReachedIn ==
  ASSUME ListedInFull, NEW n \in Nat, n <= Size, Reached(n)
  PROVE  n = Size
<1>1. Expected # 0 /\ n >= Expected /\ Expected \in {0, Listed}
  BY DEF Reached, Expected
<1>2. Listed >= Size
  BY <1>1 DEF ListedInFull
<1> QED BY <1>1, <1>2

\* A completed file that is no mismatch is whole.
LEMMA CompletedOk ==
  ASSUME StateInv, TransferInv, ListedInFull, pc \in {"transfer", "raw"},
         NEW f \in File, NEW skips, CompletedAs(f, skips), ~ Mismatch(f, skips)
  PROVE  FileOk(f)
<1> SUFFICES ASSUME ~ f.lost, f.by = f.of, OnlyOwn(f)
             PROVE  f.data = Blocks(f.of)
  BY DEF FileOk
<1>0. /\ index \in 1 .. Len(Strategy) /\ call # 0
  BY StrategyLen DEF StateInv, CallInv, Ready
<1>1. req \in Request /\ req # None
  BY <1>0, RequestCases DEF StateInv, CallInv
<1>2. /\ Current \in File /\ Current = part[index] /\ Current.of = req
      /\ Current.data \in Seq(Block) /\ written \in Nat /\ written = Len(Current.data)
  BY <1>0, CurrentType DEF TransferInv, written
<1>3. Kind(req) = "playback" => ~ skips
  BY DEF Mismatch
<1> DEFINE m == Head(queue)
\* What a clean transfer knows of the message at the head of its queue.
<1>4. ASSUME pc = "transfer", queue # <<>>, m.kind \in {"data", "end"}, m.req = req,
             skips = (resync \/ m.resync), OnlyOwn(Current), ~ Current.lost
      PROVE  /\ Position(m) = written + 1
             /\ \A i \in 1 .. written : Current.data[i] = [req |-> req, n |-> i]
  <2>1. m \in Sent /\ m = queue[1] /\ 1 \in 1 .. Len(queue)
    BY <1>4, HeadType
  <2>2. Clean
    BY <1>2, <1>3, <1>4 DEF Clean
  <2>3. CleanInv
    BY <1>4, <2>2 DEF TransferInv
  <2>4. ~ m.resync
    BY <1>3, <1>4, <2>1 DEF TransferInv
  <2>5. Follows(queue, written, req, 1, Position(m))
    BY <1>4, <2>1, <2>3, <2>4 DEF CleanInv, Chain
  <2>6. Position(m) = written + 1
    <3>1. \A j \in 1 .. 1 - 1 : FALSE
      OBVIOUS
    <3> QED BY <2>5, <3>1 DEF Follows
  <2> QED BY <1>2, <2>3, <2>6 DEF CleanInv
\* Size blocks in their order are the recording.
<1>5. ASSUME NEW d \in Seq(Block), Len(d) = Size,
             \A i \in 1 .. Size : d[i] = [req |-> req, n |-> i]
      PROVE  d = Blocks(req)
  <2>1. d \in [1 .. Size -> Block]
    BY <1>5, LenProperties
  <2> QED BY <1>5, <2>1 DEF Blocks
<1>6. CASE /\ pc = "transfer" /\ queue # <<>> /\ skips = (resync \/ m.resync)
           /\ m.kind = "data" /\ Reached(written + 1)
           /\ f = [WithBlock(m) EXCEPT !.by = req]
  <2>1. m \in Sent /\ m.n \in 0 .. Size
    BY <1>6, HeadType DEF Sent, Message
  <2> DEFINE b == [req |-> m.req, n |-> m.n]
  <2>2. b \in Block
    BY <1>6, <2>1 DEF Sent, Message, Block
  <2>3. /\ WithBlock(m) \in File /\ WithBlock(m).of = req
        /\ WithBlock(m).lost = Current.lost /\ WithBlock(m).data = Append(Current.data, b)
    BY <1>0, <1>2, <1>6, <2>1, BlockType
  <2>4. f.of = req /\ f.lost = Current.lost /\ f.data = Append(Current.data, b)
    <3> HIDE DEF b
    <3>1. WithBlock(m) \in File
      BY <2>3
    <3>2. f.of = WithBlock(m).of /\ f.lost = WithBlock(m).lost /\ f.data = WithBlock(m).data
      BY <1>6, <3>1 DEF File
    <3> QED BY <2>3, <3>2
  <2>5. OnlyOwn(Current) /\ m.req = req
    <3>1. OnlyOwn(Current) /\ b.req = Current.of
      <4> HIDE DEF b
      <4> QED BY <1>2, <2>2, <2>4, OwnAppend
    <3> QED BY <1>2, <3>1
  <2>6. m.n = written + 1 /\ \A i \in 1 .. written : Current.data[i] = [req |-> req, n |-> i]
    BY <1>4, <1>6, <2>4, <2>5 DEF Position
  <2>7. written + 1 = Size
    <3>1. written + 1 \in Nat /\ written + 1 <= Size
      BY <1>2, <2>1, <2>6
    <3> QED BY <1>6, <3>1, ReachedIn
  <2>8. /\ Append(Current.data, b) \in Seq(Block) /\ Len(Append(Current.data, b)) = Size
        /\ (\A i \in 1 .. written : Append(Current.data, b)[i] = Current.data[i])
        /\ Append(Current.data, b)[Size] = b
    <3> HIDE DEF b
    <3> QED BY <1>2, <2>2, <2>7, AppendProperties
  <2>9. \A i \in 1 .. Size : Append(Current.data, b)[i] = [req |-> req, n |-> i]
    <3>1. \A i \in 1 .. Size : i \in 1 .. written \/ i = Size
      BY <1>2, <2>7
    <3>2. b = [req |-> req, n |-> Size]
      BY <2>5, <2>6, <2>7
    <3> HIDE DEF b
    <3> QED BY <2>6, <2>8, <3>1, <3>2
  <2> HIDE DEF b
  <2> QED BY <1>5, <2>4, <2>8, <2>9
<1>7. CASE /\ pc = "transfer" /\ queue # <<>> /\ skips = (resync \/ m.resync)
           /\ m.kind = "end" /\ f = [Current EXCEPT !.by = m.req]
  <2>1. f.of = req /\ f.lost = Current.lost /\ f.data = Current.data /\ f.by = m.req
    BY <1>2, <1>7 DEF File
  <2>2. m.req = req /\ OnlyOwn(Current) /\ ~ Current.lost
    BY <1>2, <2>1 DEF OnlyOwn
  <2>3. Size + 1 = written + 1 /\ \A i \in 1 .. written : Current.data[i] = [req |-> req, n |-> i]
    BY <1>4, <1>7, <2>2 DEF Position
  <2>4. written = Size
    BY <1>2, <2>3
  <2> QED BY <1>2, <1>5, <2>1, <2>3, <2>4
<1>8. CASE pc = "raw" /\ Reached(written) /\ f = [Current EXCEPT !.by = req]
  <2>1. f.of = Current.of /\ f.data = Current.data
    BY <1>2, <1>8 DEF File
  <2>2. ~ OnlyOwn(Current)
    BY <1>2, <1>8 DEF TransferInv
  <2> QED BY <2>1, <2>2 DEF OnlyOwn
<1> QED BY <1>6, <1>7, <1>8 DEF CompletedAs

LEMMA NotCompletedOk ==
  ASSUME StateInv, pc \in {"transfer", "raw"}, NEW f, f.of = req, f.by = None
  PROVE  FileOk(f)
<1>1. call # 0 /\ index \in 1 .. Len(Strategy)
  BY StrategyLen DEF StateInv, CallInv, Ready
<1>2. req # None
  BY <1>1, RequestCases DEF StateInv, CallInv
<1> QED BY <1>2 DEF FileOk

LEMMA FilesPart ==
  ASSUME FilesInv, FileType, index \in 1 .. Len(Strategy), NEW f \in File, PartIs(f), FileOk(f),
         UNCHANGED otherFiles
  PROVE  FilesInv'
<1>1. /\ part' \in [1 .. Len(Strategy) -> File] /\ part'[index] = f
      /\ \A i \in 1 .. Len(Strategy) : i # index => part'[i] = part[i]
  BY PartSet
<1>2. DOMAIN part = 1 .. Len(Strategy) /\ DOMAIN part' = 1 .. Len(Strategy)
  BY <1>1 DEF FileType
<1>3. \A i \in DOMAIN part' : FileOk(part'[i])
  BY <1>1, <1>2 DEF FilesInv
<1>4. FileOk(output') /\ FileOk(converted')
  BY DEF FilesInv, otherFiles
<1> QED BY <1>3, <1>4 DEF FilesInv, FileOk, Exists, OnlyOwn

LEMMA FilesSame == FilesInv /\ UNCHANGED <<part, converted, output>> => FilesInv'
  BY DEF FilesInv, FileOk, Exists, OnlyOwn

LEMMA TransferElsewhere == pc' \notin {"transfer", "raw"} => TransferInv'
  BY DEF TransferInv

\* A transfer goes on after a message.
LEMMA ContinuesTransfer ==
  ASSUME StateInv, TransferInv, FilesInv, Continues,
         UNCHANGED <<call, sessionVars, converted, raw_path, output>>
  PROVE  TransferInv' /\ FilesInv'
<1> DEFINE m == Head(queue)
           b == [req |-> m.req, n |-> m.n]
<1>1. /\ pc = "transfer" /\ queue # <<>> /\ pc' = "transfer" /\ index' = index
      /\ queue' = Tail(queue) /\ resync' = (resync \/ m.resync)
      /\ accepted_msg_nums' = accepted_msg_nums \cup {MsgNum(m.req)}
      /\ \/ m.kind = "data" /\ PartIs(WithBlock(m)) /\ ~ Reached(written + 1)
         \/ m.kind = "empty" /\ UNCHANGED part
  BY DEF Continues, Continue
<1>2. /\ req' = req /\ Kind(req') = Kind(req) /\ Expected' = Expected
      /\ UNCHANGED <<stream, converted, output>>
  BY <1>1 DEF req, Expected, Kind, sessionVars
<1>3. /\ m \in Sent /\ m = queue[1] /\ Len(queue) \in Nat \ {0} /\ Len(Tail(queue)) = Len(queue) - 1
      /\ \A i \in 1 .. Len(queue) - 1 : Tail(queue)[i] = queue[i + 1]
      /\ queue \in Seq(Sent)
  BY <1>1, HeadType DEF StateInv, QueueInv
<1>4. index \in 1 .. Len(Strategy) /\ Current \in File /\ Current = part[index]
      /\ Current.data \in Seq(Block) /\ written \in Nat /\ written = Len(Current.data)
  <2>1. index \in 1 .. Len(Strategy)
    BY <1>1, StrategyLen DEF StateInv, CallInv, Ready
  <2> QED BY <2>1, CurrentType DEF written
<1>5. /\ Current.of = req /\ Current.by = None /\ MsgNum(req) \in accepted_msg_nums
      /\ ~ Reached(written)
      /\ \A i \in 1 .. Len(queue) : queue[i].req = req /\ queue[i].resync => Kind(req) = "playback"
      /\ Clean => CleanInv
  BY <1>1, <1>4 DEF TransferInv
<1>6. \A i \in 1 .. Len(queue') :
         queue'[i].req = req' /\ queue'[i].resync => Kind(req') = "playback"
  <2>1. ASSUME NEW i \in 1 .. Len(queue')
        PROVE  queue'[i] = queue[i + 1] /\ i + 1 \in 1 .. Len(queue)
    <3>1. i \in 1 .. Len(queue) - 1
      BY <1>1, <1>3
    <3> QED BY <1>1, <1>3, <3>1
  <2> QED BY <1>2, <1>5, <2>1
<1>7. Kind(req) = "playback" /\ ~ resync' => ~ resync /\ ~ m.resync
  BY <1>1
<1>8. CASE m.kind = "data" /\ PartIs(WithBlock(m)) /\ ~ Reached(written + 1)
  <2>1. /\ WithBlock(m) \in File /\ WithBlock(m).of = req /\ WithBlock(m).by = None
        /\ WithBlock(m).lost = Current.lost /\ WithBlock(m).data = Append(Current.data, b)
    BY <1>3, <1>4, <1>5, <1>8, BlockType
  <2>2. b \in Block
    BY <1>3, <1>8 DEF Sent, Message, Block
  <2>3. part'[index'] = WithBlock(m)
    BY <1>1, <1>4, <1>8, <2>1, PartSet DEF StateInv
  <2>4. FilesInv'
    <3>1. FileOk(WithBlock(m))
      BY <1>1, <2>1, NotCompletedOk
    <3> QED BY <1>2, <1>4, <1>8, <2>1, <3>1, FilesPart DEF StateInv, otherFiles
  <2> HIDE DEF b
  <2>5. /\ Append(Current.data, b) \in Seq(Block) /\ Len(Append(Current.data, b)) = written + 1
        /\ \A i \in 1 .. written : Append(Current.data, b)[i] = Current.data[i]
        /\ Append(Current.data, b)[written + 1] = b
    BY <1>4, <2>2, AppendProperties
  <2>6. written' = written + 1
    BY <2>1, <2>3, <2>5 DEF written
  <2>7. ~ Reached(written)'
    BY <1>2, <1>8, <2>6 DEF Reached
  <2>8. Clean' => CleanInv'
    <3> SUFFICES ASSUME Clean' PROVE CleanInv'
      OBVIOUS
    <3>1. ~ WithBlock(m).lost /\ OnlyOwn(WithBlock(m)) /\ (Kind(req) = "playback" => ~ resync')
      <4>1. ~ part'[index'].lost /\ OnlyOwn(part'[index']) /\ (Kind(req') = "playback" => ~ resync')
        BY DEF Clean, OnlyOwn, Kind
      <4>2. OnlyOwn(WithBlock(m))
        BY <2>3, <4>1, Zenon
      <4>3. Kind(req) = "playback" => ~ resync'
        BY <1>2, <4>1, Zenon
      <4> QED BY <2>3, <4>1, <4>2, <4>3
    <3>2. OnlyOwn(Current) /\ b.req = req
      <4>1. WithBlock(m).of = Current.of
        BY <1>5, <2>1
      <4>2. OnlyOwn(Current) /\ b.req = Current.of
        BY <1>4, <2>1, <2>2, <3>1, <4>1, OwnAppend
      <4> QED BY <1>5, <4>2
    <3>3. Clean /\ m.req = req
      BY <1>4, <1>7, <2>1, <3>1, <3>2 DEF Clean, b
    <3>4. /\ \A i \in 1 .. written : Current.data[i] = [req |-> req, n |-> i]
          /\ Chain(queue, written, req, stream[req])
      BY <1>4, <1>5, <3>3 DEF CleanInv
    <3>5. ~ m.resync
      <4>1. 1 \in 1 .. Len(queue)
        BY <1>3
      <4> QED BY <1>3, <1>5, <1>7, <3>1, <3>3, <4>1
    <3>6. m.n = written + 1
      <4>1. 1 \in 1 .. Len(queue) /\ \A j \in 1 .. 1 - 1 : FALSE
        BY <1>3
      <4>2. Follows(queue, written, req, 1, Position(m))
        BY <1>3, <1>8, <3>3, <3>4, <3>5, <4>1 DEF Chain
      <4> QED BY <1>8, <4>1, <4>2 DEF Follows, Position
    <3>7. Chain(Tail(queue), written + 1, req, stream[req])
      BY <1>1, <1>3, <1>4, <1>8, <3>3, <3>4, <3>6, ChainTail
    <3>8. \A i \in 1 .. written + 1 : Append(Current.data, b)[i] = [req |-> req, n |-> i]
      <4>1. \A i \in 1 .. written + 1 : i \in 1 .. written \/ i = written + 1
        BY <1>4
      <4>2. b = [req |-> req, n |-> written + 1]
        BY <3>3, <3>6 DEF b
      <4> QED BY <2>5, <3>4, <4>1, <4>2
    <3>9. Chain(queue', written', req', stream'[req'])
      BY <1>1, <1>2, <2>6, <3>7
    <3>10. \A i \in 1 .. written' : part'[index'].data[i] = [req |-> req', n |-> i]
      BY <1>2, <2>1, <2>3, <2>6, <3>8
    <3> QED BY <3>9, <3>10 DEF CleanInv, Chain, Follows, Position
  <2> QED BY <1>1, <1>2, <1>5, <1>6, <2>1, <2>3, <2>4, <2>7, <2>8 DEF TransferInv, MsgNum
<1>9. CASE m.kind = "empty" /\ UNCHANGED part
  <2>1. FilesInv' /\ written' = written /\ part'[index'] = Current
    BY <1>1, <1>2, <1>4, <1>9, FilesSame DEF written
  <2>2. ~ Reached(written)'
    BY <1>2, <1>5, <2>1 DEF Reached
  <2>3. Clean' => CleanInv'
    <3> SUFFICES ASSUME Clean' PROVE CleanInv'
      OBVIOUS
    <3>1. Clean
      BY <1>1, <1>2, <1>4, <1>7, <2>1 DEF Clean, OnlyOwn
    <3>2. Chain(Tail(queue), written, req, stream[req])
      BY <1>1, <1>3, <1>4, <1>5, <1>9, <3>1, ChainTail DEF CleanInv
    <3>3. Chain(queue', written', req', stream'[req'])
      BY <1>1, <1>2, <2>1, <3>2
    <3>4. \A i \in 1 .. written' : part'[index'].data[i] = [req |-> req', n |-> i]
      BY <1>2, <1>4, <1>5, <2>1, <3>1 DEF CleanInv
    <3> QED BY <3>3, <3>4 DEF CleanInv, Chain, Follows, Position
  <2> QED BY <1>1, <1>2, <1>5, <1>6, <2>1, <2>2, <2>3 DEF TransferInv, MsgNum
<1> QED BY <1>1, <1>8, <1>9

\* Nothing of the transfer changes, at most what the camera would send next is over.
LEMMA TransferSame ==
  ASSUME TransferInv, UNCHANGED <<pc, call, index, queue, accepted_msg_nums, resync, part>>,
         pc = "transfer" => stream'[req] \in {stream[req], 0}
  PROVE  TransferInv'
<1>1. /\ req' = req /\ Kind(req') = Kind(req) /\ Expected' = Expected /\ written' = written
      /\ MsgNum(req') = MsgNum(req)
  BY DEF req, Expected, Kind, written, MsgNum
<1>2. Reached(written)' <=> Reached(written)
  BY <1>1 DEF Reached
<1>3. Clean' <=> Clean
  BY <1>1 DEF Clean, OnlyOwn
<1>4. ASSUME pc = "transfer", CleanInv PROVE CleanInv'
  <2>1. Chain(queue, written, req, stream'[req])
    BY <1>4 DEF CleanInv, Chain
  <2>2. Chain(queue', written', req', stream'[req'])
    BY <1>1, <2>1
  <2>3. \A i \in 1 .. written' : part'[index'].data[i] = [req |-> req', n |-> i]
    BY <1>1, <1>4 DEF CleanInv
  <2> QED BY <2>2, <2>3 DEF CleanInv, Chain, Follows, Position
<1> QED BY <1>1, <1>2, <1>3, <1>4 DEF TransferInv, OnlyOwn

\* A message, its end, or the tail of a transfer.
LEMMA WholeTransfer ==
  ASSUME StateInv, TransferInv, FilesInv, ListedInFull, Receive \/ Idle \/ Fault \/ RawEnd
  PROVE  TransferInv' /\ FilesInv'
<1>1. /\ pc \in {"transfer", "raw"} /\ index \in 1 .. Len(Strategy) /\ call # 0
      /\ TransferStep
  BY TransferSteps
<1>2. /\ UNCHANGED <<call, sessionVars, converted, raw_path, output>>
      /\ UNCHANGED call /\ UNCHANGED otherFiles /\ FileType
  BY <1>1 DEF TransferStep, otherFiles, StateInv
<1>3. Current \in File /\ Current.of = req /\ Current.by = None
  BY <1>1, CurrentType DEF TransferInv
<1>4. FileOk(Current) /\ NoFile \in File /\ FileOk(NoFile)
  BY <1>1, <1>3, NotCompletedOk, NoFileType
<1>5. CASE Continues
  BY <1>2, <1>5, ContinuesTransfer
<1>6. ASSUME NEW f \in File, NEW skips, End(f, skips), CompletedAs(f, skips) \/ f = Current
      PROVE  TransferInv' /\ FilesInv'
  <2>1. /\ pc' \in {"next", "reconnect", "convert", "unlink"}
        /\ PartIs(NoFile) \/ (PartIs(f) /\ ~ Mismatch(f, skips))
    BY <1>1, <1>2, <1>6, Ends
  <2>2. CASE PartIs(NoFile)
    BY <1>1, <1>2, <1>4, <2>1, <2>2, FilesPart, TransferElsewhere
  <2>3. CASE PartIs(f) /\ ~ Mismatch(f, skips)
    <3>1. f # Current
      BY <1>3, <2>3 DEF Mismatch
    <3>2. FileOk(f)
      BY <1>1, <1>6, <2>3, <3>1, CompletedOk
    <3> QED BY <1>1, <1>2, <2>1, <2>3, <3>2, FilesPart, TransferElsewhere
  <2> QED BY <2>1, <2>2, <2>3
<1>7. ASSUME NEW e, Raised(e, Current) PROVE TransferInv' /\ FilesInv'
  <2>1. pc' \in {"next", "idle"} /\ (PartIs(NoFile) \/ PartIs(Current))
    BY <1>1, <1>2, <1>3, <1>7, Raises
  <2> QED BY <1>1, <1>2, <1>3, <1>4, <2>1, FilesPart, TransferElsewhere
<1>8. CASE ToRaw
  <2>1. pc = "transfer" /\ pc' = "raw" /\ UNCHANGED <<index, part, converted, output>>
    BY <1>2, <1>8 DEF ToRaw, otherFiles
  <2>2. req' = req /\ Expected' = Expected /\ written' = written
    BY <1>2, <2>1 DEF req, Expected, Kind, written
  <2>3. ~ Reached(written)'
    BY <2>1, <2>2 DEF Reached, TransferInv
  <2>4. part'[index'].of = req' /\ part'[index'].by = None
    BY <2>1, <2>2 DEF TransferInv
  <2> QED BY <2>1, <2>3, <2>4, FilesSame DEF TransferInv
<1> QED BY <1>1, <1>5, <1>6, <1>7, <1>8 DEF TransferStep, Raising

LEMMA WholeRaw ==
  ASSUME StateInv, TransferInv, FilesInv, RawChunk
  PROVE  TransferInv' /\ FilesInv'
<1>1. /\ pc = "raw" /\ PartIs(WithRaw) /\ UNCHANGED otherFiles
      /\ UNCHANGED <<pc, call, index>>
  BY DEF RawChunk, PartIs, WithRaw, otherFiles, Current
<1>2. index \in 1 .. Len(Strategy) /\ call # 0 /\ FileType
  BY <1>1, StrategyLen DEF StateInv, CallInv, Ready
<1>3. req # None /\ req' = req
  BY <1>1, <1>2, RequestCases DEF StateInv, CallInv, req
<1>4. Current \in File /\ Current.of = req /\ Current.by = None /\ Current.data \in Seq(Block)
  BY <1>1, <1>2, CurrentType DEF TransferInv
<1>5. /\ WithRaw \in File /\ WithRaw.of = req /\ WithRaw.by = None
      /\ WithRaw.data = Append(Current.data, RawBlock) /\ WithRaw.of = Current.of
  BY <1>2, <1>4, RawFile
<1>6. ~ OnlyOwn(WithRaw)
  <2>1. RawBlock \in Block /\ RawBlock.req = None
    BY DEF RawBlock, Block
  <2>2. OnlyOwn(WithRaw) <=> OnlyOwn(Current) /\ RawBlock.req = Current.of
    BY <1>4, <1>5, <2>1, OwnAppend
  <2> QED BY <1>3, <1>4, <2>1, <2>2
<1>7. part'[index'] = WithRaw
  BY <1>1, <1>2, <1>5, PartSet
<1>8. FilesInv'
  BY <1>1, <1>2, <1>5, FilesPart, NotCompletedOk
<1>9. ~ OnlyOwn(part[index])'
  BY <1>6, <1>7 DEF OnlyOwn
<1> QED BY <1>1, <1>3, <1>5, <1>7, <1>8, <1>9 DEF TransferInv

\* The request is sent: it has no answer yet, so none is in the queue.
LEMMA WholeRequest ==
  ASSUME StateInv, ComingInv, FilesInv, DoRequest
  PROVE  TransferInv' /\ FilesInv'
<1>1. /\ pc = "next" /\ index \in 1 .. Len(Strategy) /\ call # 0 /\ UNCHANGED call
      /\ pc' = "transfer" /\ index' = index /\ resync' = FALSE
      /\ accepted_msg_nums' = {MsgNum(req)} /\ req \in Request
      /\ unmatched \in Seq(Heard) => queue' \in Seq(Heard)
      /\ stream' = [stream EXCEPT ![req] = 1]
      /\ PartIs(NewPart) /\ UNCHANGED otherFiles
  BY Requested
<1>2. req' = req /\ FileType /\ MsgNum(req') = MsgNum(req)
  BY <1>1 DEF req, StateInv, MsgNum, Kind
<1>3. /\ NewPart \in File /\ NewPart.of = req /\ NewPart.data = <<>> /\ NewPart.by = None
      /\ FileOk(NewPart)
  <2>1. /\ NewPart \in File /\ NewPart.of = req /\ NewPart.data = <<>> /\ NewPart.by = None
    BY <1>1, NewFile DEF StateInv, CallInv
  <2>2. req # None
    BY <1>1, RequestCases
  <2> QED BY <2>1, <2>2 DEF FileOk
<1>4. part'[index'] = NewPart /\ FilesInv'
  BY <1>1, <1>2, <1>3, PartSet, FilesPart
<1>5. written' = 0
  <2>1. Len(<<>>) = 0
    BY EmptySeq
  <2> QED BY <1>3, <1>4, <2>1 DEF written
<1>6. ~ Reached(written)'
  <2>1. Expected' \in Nat
    BY DEF Expected
  <2> DEFINE e == Expected'
  <2>2. e \in Nat /\ (e # 0 => ~ (0 >= e))
    BY <2>1
  <2> QED BY <1>5, <2>2 DEF Reached
<1>7. \A i \in 1 .. Len(queue') : queue'[i].req # req
  <2>1. queue' \in Seq(Heard)
    BY <1>1 DEF ComingInv
  <2>2. \A i \in 1 .. Len(queue') : queue'[i] \in Heard
    BY <2>1, ElementOfSeq
  <2>3. Coming(req)
    BY <1>1 DEF Coming, req
  <2> QED BY <2>2, <2>3 DEF Heard
<1>8. CleanInv'
  <2>1. stream'[req'] = 1 /\ Len(queue') \in Nat
    BY <1>1, <1>2, LenProperties DEF StateInv, SessionInv, ComingInv
  <2>2. \A i \in 1 .. Len(queue') + 1 - 1 : i \in 1 .. Len(queue')
    BY <2>1
  <2>3. Follows(queue', 0, req, Len(queue') + 1, 1)
    BY <1>7, <2>2 DEF Follows
  <2>4. Chain(queue', written', req', stream'[req'])
    BY <1>2, <1>5, <1>7, <2>1, <2>3 DEF Chain
  <2>5. \A i \in 1 .. written' : part'[index'].data[i] = [req |-> req', n |-> i]
    BY <1>5
  <2> QED BY <2>4, <2>5 DEF CleanInv, Chain, Follows, Position
<1> QED BY <1>1, <1>2, <1>3, <1>4, <1>6, <1>7, <1>8 DEF TransferInv

\* The camera sends a message, which the queue takes or nobody who waits for it.
LEMMA WholeSends ==
  ASSUME StateInv, TransferInv, FilesInv, NEW r \in Request, NEW m \in Sent, Brings(r, m)
  PROVE  TransferInv' /\ FilesInv'
<1>1. /\ m.req = r /\ stream[r] # 0 /\ UNCHANGED <<pc, call, index, accepted_msg_nums, resync>>
      /\ m.kind = "data" /\ ~ m.resync => m.n = stream[r]
      /\ m.kind = "end" /\ ~ m.resync => stream[r] = Size + 1
      /\ m.resync => pc = "transfer" /\ Kind(req) = "playback"
      /\ stream' = [stream EXCEPT ![r] = IF m.kind = "data" THEN m.n + 1 ELSE 0]
      /\ UNCHANGED otherFiles /\ UNCHANGED <<converted, output>>
      /\ Routed(m) \/ Unrouted(m)
  BY DEF Brings, otherFiles
<1>2. \A q \in Request :
         stream'[q] = IF q # r THEN stream[q] ELSE IF m.kind = "data" THEN m.n + 1 ELSE 0
  BY <1>1 DEF StateInv, SessionInv
<1>3. CASE Unrouted(m)
  <2>1. UNCHANGED <<queue, part>>
    BY <1>3 DEF Unrouted
  <2>2. ASSUME pc = "transfer" PROVE stream'[req] = stream[req]
    <3>1. MsgNum(req) \in accepted_msg_nums /\ MsgNum(r) \notin accepted_msg_nums
      BY <1>1, <1>3, <2>2 DEF TransferInv, Unrouted, Matches
    <3>2. req \in Request
      <4>1. call # 0 /\ index \in 1 .. Len(Strategy)
        BY <2>2, StrategyLen DEF StateInv, CallInv, Ready
      <4> QED BY <4>1, RequestCases DEF StateInv, CallInv
    <3> QED BY <1>2, <3>1, <3>2
  <2>3. TransferInv'
    BY <1>1, <2>1, <2>2, TransferSame
  <2> QED BY <1>1, <2>1, <2>3, FilesSame
<1>4. CASE Routed(m)
  <2>1. pc = "transfer" /\ queue' = Put(queue, m) /\ PartIs(Dropping)
    BY <1>4 DEF Routed
  <2>2. call # 0 /\ index \in 1 .. Len(Strategy) /\ FileType
    BY <2>1, StrategyLen DEF StateInv, CallInv, Ready
  <2>3. req \in Request
    BY <2>2, RequestCases DEF StateInv, CallInv
  <2>4. req' = req /\ Kind(req') = Kind(req) /\ Expected' = Expected /\ MsgNum(req') = MsgNum(req)
    BY <1>1 DEF req, Kind, Expected, MsgNum
  <2>5. /\ Current = part[index] /\ Current.of = req /\ Current.by = None
        /\ MsgNum(req) \in accepted_msg_nums /\ ~ Reached(written)
        /\ \A i \in 1 .. Len(queue) :
              queue[i].req = req /\ queue[i].resync => Kind(req) = "playback"
        /\ Clean => CleanInv
    BY <2>1, <2>2, CurrentType DEF TransferInv
  <2>6. /\ Dropping \in File /\ Dropping.of = req /\ Dropping.by = None
        /\ Dropping.data = Current.data
        /\ Dropping.lost = (Current.lost \/ Len(queue) = QueueSize)
    BY <2>2, <2>5, RoutedFile
  <2>7. part'[index'] = Dropping
    BY <1>1, <2>1, <2>2, <2>6, PartSet
  <2>8. FilesInv'
    BY <1>1, <2>1, <2>2, <2>6, FilesPart, NotCompletedOk
  <2>9. written' = written /\ ~ Reached(written)'
    <3>1. written' = written
      BY <2>5, <2>6, <2>7 DEF written
    <3> QED BY <2>4, <2>5, <3>1 DEF Reached
  <2>10. queue \in Seq(Sent) /\ Len(queue) \in Nat /\ Len(queue) <= QueueSize
    BY LenProperties DEF StateInv, QueueInv
  <2> DEFINE Plays(q) == \A i \in 1 .. Len(q) :
                            q[i].req = req /\ q[i].resync => Kind(req) = "playback"
  <2>11. ASSUME NEW q \in Seq(Sent), Plays(q) PROVE Plays(Append(q, m))
    <3>1. /\ Len(Append(q, m)) = Len(q) + 1 /\ Append(q, m)[Len(q) + 1] = m
          /\ \A i \in 1 .. Len(q) : Append(q, m)[i] = q[i]
      BY AppendProperties
    <3>2. \A i \in 1 .. Len(q) + 1 : i \in 1 .. Len(q) \/ i = Len(q) + 1
      BY LenProperties
    <3> QED BY <1>1, <2>11, <3>1, <3>2
  <2>12. Plays(queue')
    <3>1. CASE Len(queue) < QueueSize
      <4>1. queue' = Append(queue, m) /\ Plays(queue)
        BY <2>1, <2>5, <3>1 DEF Put
      <4> HIDE DEF Plays
      <4> QED BY <2>10, <2>11, <4>1
    <3>2. CASE ~ (Len(queue) < QueueSize)
      <4>1. queue' = Append(Tail(queue), m)
        BY <2>1, <3>2 DEF Put
      <4>2. queue # <<>>
        BY <2>10, <3>2, EmptySeq
      <4>3. /\ Tail(queue) \in Seq(Sent) /\ Len(Tail(queue)) = Len(queue) - 1
            /\ \A i \in 1 .. Len(queue) - 1 : Tail(queue)[i] = queue[i + 1]
        BY <4>2, HeadType
      <4>4. \A i \in 1 .. Len(queue) - 1 : i + 1 \in 1 .. Len(queue)
        BY <2>10
      <4>5. Plays(Tail(queue))
        BY <2>5, <4>3, <4>4
      <4> HIDE DEF Plays
      <4> QED BY <2>11, <4>1, <4>3, <4>5
    <3> QED BY <3>1, <3>2
  <2>13. Clean' => CleanInv'
    <3> SUFFICES ASSUME Clean' PROVE CleanInv'
      OBVIOUS
    <3>1. ~ part'[index'].lost /\ OnlyOwn(part'[index']) /\ (Kind(req') = "playback" => ~ resync')
      BY DEF Clean, OnlyOwn, Kind
    <3>2. OnlyOwn(Dropping) /\ ~ Dropping.lost
      BY <2>7, <3>1, Zenon
    <3>3. OnlyOwn(Current) /\ ~ Current.lost /\ Len(queue) # QueueSize
      BY <2>5, <2>6, <3>2 DEF OnlyOwn
    <3>4. Kind(req) = "playback" => ~ resync
      BY <1>1, <2>4, <3>1
    <3>5. CleanInv
      BY <2>5, <3>3, <3>4 DEF Clean
    <3>6. queue' = Append(queue, m)
      BY <2>1, <2>10, <3>3 DEF Put
    <3>7. Chain(queue, written, req, stream[req]) /\ written \in Nat
      BY <2>2, <3>5, CurrentType DEF CleanInv
    <3>8. Chain(Append(queue, m), written, req, stream'[req])
      <4>1. CASE r # req
        BY <1>1, <1>2, <2>3, <2>10, <3>7, <4>1, ChainAppend
      <4>2. CASE r = req
        <5>1. m.kind \in {"data", "end"} /\ ~ m.resync => Position(m) = stream[req]
          BY <1>1, <4>2 DEF Position
        <5>2. stream'[req] = IF m.kind = "data" THEN m.n + 1 ELSE 0
          BY <1>2, <2>3, <4>2
        <5> QED BY <1>1, <2>10, <3>7, <4>2, <5>1, <5>2, ChainAppend
      <4> QED BY <4>1, <4>2
    <3>9. Chain(queue', written', req', stream'[req'])
      BY <2>4, <2>9, <3>6, <3>8
    <3>10. \A i \in 1 .. written' : part'[index'].data[i] = [req |-> req', n |-> i]
      BY <2>4, <2>5, <2>6, <2>7, <2>9, <3>5 DEF CleanInv
    <3> QED BY <3>9, <3>10 DEF CleanInv, Chain, Follows, Position
  <2> QED BY <1>1, <2>1, <2>4, <2>5, <2>6, <2>7, <2>8, <2>9, <2>12, <2>13 DEF TransferInv
<1> QED BY <1>1, <1>3, <1>4

\* The steps outside of a transfer: files are removed, or take their place as they are.
LEMMA WholeElsewhere ==
  ASSUME StateInv, FilesInv,
         \/ \E b \in BOOLEAN : Start(b)
         \/ \E ok \in BOOLEAN : TryDownloadReconnect(ok)
         \/ GiveUp \/ Exhausted \/ Crash
         \/ \E e \in {"timeout", "protocol", "other"} : RequestFails(e)
         \/ Convert \/ Converted \/ ConversionFails \/ UnlinkOutput \/ ReplaceOutput \/ Cleanup
  PROVE  TransferInv' /\ FilesInv'
<1>0. FileType /\ NoFile \in File /\ FileOk(NoFile)
  BY NoFileType DEF StateInv
<1>1. CASE \/ \E ok \in BOOLEAN : TryDownloadReconnect(ok)
           \/ GiveUp \/ Exhausted \/ Crash
  <2>1. pc' \notin {"transfer", "raw"}
    BY <1>1 DEF TryDownloadReconnect, GiveUp, Exhausted, Crash, Return
  <2>2. UNCHANGED <<part, converted, output>>
    BY <1>1 DEF TryDownloadReconnect, GiveUp, Exhausted, Crash, fileVars
  <2> QED BY <2>1, <2>2, TransferElsewhere, FilesSame
<1>2. ASSUME NEW b \in BOOLEAN, Start(b) PROVE TransferInv' /\ FilesInv'
  <2>1. /\ pc' \in {"idle", "next"} /\ UNCHANGED <<converted, output>>
        /\ UNCHANGED part \/ part' = [i \in DOMAIN part |-> NoFile]
    BY <1>2 DEF Start, Return
  <2>2. CASE UNCHANGED part
    BY <2>1, <2>2, TransferElsewhere, FilesSame
  <2>3. CASE part' = [i \in DOMAIN part |-> NoFile]
    <3>1. \A i \in DOMAIN part' : FileOk(part'[i])
      BY <1>0, <2>3
    <3>2. FileOk(output') /\ FileOk(converted')
      BY <2>1 DEF FilesInv
    <3>3. FilesInv'
      BY <3>1, <3>2 DEF FilesInv, FileOk, Exists, OnlyOwn
    <3> QED BY <2>1, <3>3, TransferElsewhere
  <2> QED BY <2>1, <2>2, <2>3
<1>3. ASSUME NEW e, RequestFails(e) PROVE TransferInv' /\ FilesInv'
  <2>1. /\ index \in 1 .. Len(Strategy) /\ PartIs(NoFile) /\ pc' \in {"idle", "next"}
        /\ UNCHANGED otherFiles
    <3>1. pc = "next" /\ index <= Len(Strategy) /\ Raised(e, NoFile) /\ UNCHANGED otherFiles
          /\ UNCHANGED call
      BY <1>3 DEF RequestFails, otherFiles
    <3>2. index \in 1 .. Len(Strategy) /\ call # 0
      BY <3>1, StrategyLen DEF StateInv, CallInv
    <3> QED BY <1>0, <3>1, <3>2, Raises
  <2> QED BY <1>0, <2>1, FilesPart, TransferElsewhere
<1>4. CASE Convert \/ Converted \/ ConversionFails \/ UnlinkOutput \/ ReplaceOutput \/ Cleanup
  <2>1. pc' \notin {"transfer", "raw"}
    BY <1>4 DEF Convert, Converted, ConversionFails, UnlinkOutput, ReplaceOutput, Cleanup, Return
  <2>2. index \in 1 .. Len(Strategy) /\ call # 0
    <3>1. pc \in Finishing \cup {"cleanup"}
      BY <1>4 DEF Convert, Converted, ConversionFails, UnlinkOutput, ReplaceOutput, Cleanup,
           Finishing
    <3>2. pc \notin Ready
      BY <3>1 DEF Finishing, Ready
    <3> QED BY <3>2, StrategyLen DEF StateInv, CallInv, Ready
  <2>3. DOMAIN part = 1 .. Len(Strategy) /\ Current = part[index] /\ FileOk(Current)
    BY <1>0, <2>2 DEF FileType, FilesInv, Current
  <2>4. FileOk(converted') /\ FileOk(output')
    <3>1. FileOk([NoFile EXCEPT !.of = req])
      <4>1. /\ NewPart.of = req /\ NewPart.by = None
        BY <2>2, NewFile DEF StateInv, CallInv
      <4>2. req # None
        BY <2>2, RequestCases DEF StateInv, CallInv
      <4>3. FileOk(NewPart)
        BY <4>1, <4>2 DEF FileOk
      <4> QED BY <4>3 DEF NewPart
    <3>2. /\ converted' \in {converted, NoFile, Current, [NoFile EXCEPT !.of = req]}
          /\ output' \in {output, NoFile, Current, converted}
      BY <1>4 DEF Convert, Converted, ConversionFails, UnlinkOutput, ReplaceOutput, Cleanup
    <3>3. FileOk(converted) /\ FileOk(output)
      BY DEF FilesInv
    <3> HIDE DEF Current
    <3>4. FileOk(converted')
      BY <1>0, <2>3, <3>1, <3>2, <3>3, Zenon
    <3>5. FileOk(output')
      BY <1>0, <2>3, <3>2, <3>3, Zenon
    <3> QED BY <3>4, <3>5
  <2>5. \A i \in DOMAIN part' : FileOk(part'[i])
    <3>1. CASE UNCHANGED part
      BY <3>1 DEF FilesInv
    <3>2. CASE PartIs(NoFile)
      <4>1. /\ part' \in [1 .. Len(Strategy) -> File] /\ part'[index] = NoFile
            /\ \A i \in 1 .. Len(Strategy) : i # index => part'[i] = part[i]
        BY <1>0, <2>2, <3>2, PartSet
      <4> QED BY <1>0, <2>3, <4>1 DEF FilesInv
    <3> QED BY <1>4, <3>1, <3>2 DEF Convert, Converted, ConversionFails, UnlinkOutput,
                 ReplaceOutput, Cleanup, RemovePart, PartIs
  <2>6. FilesInv'
    BY <2>4, <2>5 DEF FilesInv, FileOk, Exists, OnlyOwn
  <2> QED BY <2>1, <2>6, TransferElsewhere
<1> QED BY <1>1, <1>2, <1>3, <1>4

LEMMA WholeNext ==
  ListedInFull /\ StateInv /\ ComingInv /\ TransferInv /\ FilesInv /\ [Next]_vars
     => TransferInv' /\ FilesInv'
<1> SUFFICES ASSUME ListedInFull, StateInv, ComingInv, TransferInv, FilesInv, [Next]_vars
             PROVE  TransferInv' /\ FilesInv'
  OBVIOUS
<1>1. CASE Caller
  BY <1>1, WholeElsewhere, WholeTransfer, WholeRaw, WholeRequest DEF Caller
<1>2. ASSUME NEW r \in Request, NEW skipped \in {0, 1}, Send(r, skipped)
      PROVE  TransferInv' /\ FilesInv'
  <2>1. PICK m \in Sent : Brings(r, m)
    BY <1>2, Sends
  <2> QED BY <2>1, WholeSends
<1>3. CASE Desync \/ InvalidMagic \/ Lose \/ UNCHANGED vars
  <2>1. UNCHANGED <<pc, call, index, queue, accepted_msg_nums, resync, part, converted, output>>
    BY <1>3 DEF Desync, InvalidMagic, Lose, vars, transferVars, fileVars
  <2>2. pc = "transfer" => stream'[req] \in {stream[req], 0}
    <3>1. pc = "transfer" => req \in Request
      BY RequestCases, StrategyLen DEF StateInv, CallInv, Ready
    <3> QED BY <1>3, <3>1 DEF Desync, InvalidMagic, Lose, vars, sessionVars
  <2> QED BY <2>1, <2>2, TransferSame, FilesSame
<1> QED BY <1>1, <1>2, <1>3, WholeElsewhere DEF Next, Environment

LEMMA InitWhole == Init => TransferInv /\ FilesInv
<1> SUFFICES ASSUME Init PROVE TransferInv /\ FilesInv
  OBVIOUS
<1>1. TransferInv
  BY DEF Init, TransferInv
<1>2. FileOk(OldFile) /\ FileOk(NoFile)
  BY NoFileType DEF FileOk, OldFile
<1>3. FilesInv
  BY <1>2 DEF Init, FilesInv
<1> QED BY <1>1, <1>3

\* A finished recording is the whole recording, block by block, however often the transfer
\* was cut, repeated or begun again by another strategy (_download_with_query, _download_once
\* and _finalize_download), when the queue dropped nothing and no answer to another request
\* took part.  The file list must not tell less than the size, at which a transfer is clipped.
THEOREM WholeFile ==
  ASSUME ListedInFull
  PROVE  Spec => []Whole
<1> DEFINE WholeInv == StateInv /\ ComingInv /\ TransferInv /\ FilesInv
<1>1. Init => WholeInv
  BY InitState, InitComing, InitWhole
<1>2. WholeInv /\ [Next]_vars => WholeInv'
  BY StateNext, ComingNext, WholeNext
<1>3. WholeInv => Whole
  BY DEF FilesInv, FileOk, Whole
<1> HIDE DEF WholeInv
<1> QED BY <1>1, <1>2, <1>3, PTL DEF Spec

=============================================================================
