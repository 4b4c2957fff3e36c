-------------------------- MODULE LiveStream_proofs --------------------------
(***************************************************************************)
(* Machine-checked proofs about the path of a live stream: MediaPath, for    *)
(* every stream of packets of every size, however payloads cut and lose it,  *)
(* and DirectStream, for every queue size, burst and length of the stream.   *)
(*                                                                         *)
(* MediaPath's invariant has four parts, each an operator on the values of   *)
(* the variables so that what keeps it can be stated without primes: Parser  *)
(* (the buffer is increasing, behind the last packet, and holds together),   *)
(* Orderly and Chunked (what the muxer has made, of what was parsed), Phases *)
(* (how far the consumer is) and Converted (the file's packets).             *)
(***************************************************************************)
EXTENDS MediaPath, DirectStream, SequenceTheorems, FiniteSetTheorems, WellFoundedInduction, TLAPS

(***************************************************************************)
(* Numbers and sequences.                                                   *)
(***************************************************************************)

\* A set of numbers has a least one.
LEMMA LeastOf ==
  ASSUME NEW G, G \subseteq Nat, G # {}
  PROVE  \E m \in G : \A y \in G : m <= y
<1> DEFINE R == OpToRel(<, Nat)
<1>1. \E m \in G : \A y \in G : <<y, m>> \notin R
  <2>1. IsWellFoundedOn(R, Nat)
    BY NatLessThanWellFounded
  <2> HIDE DEF R
  <2> QED BY <2>1, WFMin
<1>2. \A y, m \in Nat : y < m => <<y, m>> \in R
  BY DEF OpToRel
<1>3. PICK m \in G : \A y \in G : <<y, m>> \notin R
  BY <1>1
<1> HIDE DEF R
<1>4. \A y \in G : ~ (y < m)
  BY <1>2, <1>3
<1>5. \A y \in G : m <= y
  BY <1>4
<1> QED BY <1>3, <1>5

\* It is what Min gives.
LEMMA MinIn ==
  ASSUME NEW G, G \subseteq Nat, G # {}
  PROVE  Min(G) \in G /\ \A y \in G : Min(G) <= y
  BY LeastOf DEF Min

\* The larger and the smaller of two numbers.
LEMMA OfTwo ==
  ASSUME NEW a \in Int, NEW b \in Int
  PROVE  /\ Max({a, b}) = IF a >= b THEN a ELSE b
         /\ Min({a, b}) = IF a <= b THEN a ELSE b
<1> DEFINE m == IF a >= b THEN a ELSE b
           l == IF a <= b THEN a ELSE b
<1>1. /\ m \in {a, b} /\ \A y \in {a, b} : m >= y
      /\ l \in {a, b} /\ \A y \in {a, b} : l <= y
  OBVIOUS
<1>2. /\ \A x \in {a, b} : (\A y \in {a, b} : x >= y) => x = m
      /\ \A x \in {a, b} : (\A y \in {a, b} : x <= y) => x = l
  OBVIOUS
<1> HIDE DEF m, l
<1>3. Max({a, b}) = m /\ Min({a, b}) = l
  BY <1>1, <1>2 DEF Max, Min
<1> QED BY <1>3 DEF m, l

\* What is left of a sequence when its first elements are taken off, and what was taken.
LEMMA Cut ==
  ASSUME NEW S, NEW b \in Seq(S), NEW n \in 0 .. Len(b)
  PROVE  /\ SubSeq(b, n + 1, Len(b)) \in Seq(S)
         /\ Len(SubSeq(b, n + 1, Len(b))) = Len(b) - n
         /\ \A j \in 1 .. Len(b) - n : SubSeq(b, n + 1, Len(b))[j] = b[j + n]
         /\ SubSeq(b, 1, n) \in Seq(S)
         /\ Len(SubSeq(b, 1, n)) = n
         /\ \A j \in 1 .. n : SubSeq(b, 1, n)[j] = b[j]
<1> DEFINE l == Len(b)  k == n + 1  one == 1
<1>1. l \in Nat /\ n \in Nat /\ n <= l /\ k \in Int /\ k = n + 1 /\ one = 1 /\ one \in Int
  OBVIOUS
<1>2. \A j \in 1 .. l : b[j] \in S
  OBVIOUS
<1> HIDE DEF l, k, one
<1>3. (\A j \in k .. l : b[j] \in S) /\ (\A j \in one .. n : b[j] \in S)
  BY <1>1, <1>2
<1>4. /\ SubSeq(b, k, l) \in Seq(S)
      /\ Len(SubSeq(b, k, l)) = (IF k <= l THEN l - k + 1 ELSE 0)
      /\ \A j \in 1 .. l - k + 1 : SubSeq(b, k, l)[j] = b[k + j - 1]
  BY <1>1, <1>3, SubSeqProperties
<1>5. /\ SubSeq(b, one, n) \in Seq(S)
      /\ Len(SubSeq(b, one, n)) = (IF one <= n THEN n - one + 1 ELSE 0)
      /\ \A j \in 1 .. n - one + 1 : SubSeq(b, one, n)[j] = b[one + j - 1]
  BY <1>1, <1>3, SubSeqProperties
<1>6. Len(SubSeq(b, k, l)) = l - n /\ Len(SubSeq(b, one, n)) = n
  BY <1>1, <1>4, <1>5
<1>7. \A j \in 1 .. l - n : SubSeq(b, k, l)[j] = b[j + n]
  <2> SUFFICES ASSUME NEW j \in 1 .. l - n PROVE SubSeq(b, k, l)[j] = b[j + n]
    OBVIOUS
  <2>1. j \in 1 .. l - k + 1 /\ k + j - 1 = j + n
    BY <1>1
  <2> QED BY <2>1, <1>4
<1>8. \A j \in 1 .. n : SubSeq(b, one, n)[j] = b[j]
  <2> SUFFICES ASSUME NEW j \in 1 .. n PROVE SubSeq(b, one, n)[j] = b[j]
    OBVIOUS
  <2>1. j \in 1 .. n - one + 1 /\ one + j - 1 = j
    BY <1>1
  <2> QED BY <2>1, <1>5
<1>9. SubSeq(b, k, l) \in Seq(S) /\ SubSeq(b, one, n) \in Seq(S)
  BY <1>4, <1>5
<1> QED BY <1>6, <1>7, <1>8, <1>9 DEF l, k, one

\* An element more at the end.
LEMMA Longer ==
  ASSUME NEW S, NEW s \in Seq(S), NEW e \in S
  PROVE  /\ Append(s, e) \in Seq(S) /\ Len(Append(s, e)) = Len(s) + 1
         /\ \A j \in DOMAIN s : Append(s, e)[j] = s[j] /\ j <= Len(s)
         /\ Append(s, e)[Len(s) + 1] = e
         /\ DOMAIN Append(s, e) = DOMAIN s \cup {Len(s) + 1}
         /\ \A j \in DOMAIN s : j \in Nat /\ 1 <= j
         /\ Last(Append(s, e)) = e
  BY AppendProperties DEF Last

(***************************************************************************)
(* The camera's cells.                                                      *)
(***************************************************************************)

\* A packet has a cell at least, and its kind tells how many.
LEMMA Lengths ==
  ASSUME NEW kind \in Kind
  PROVE  /\ Length(kind) \in Nat \ {0} /\ Data[kind] \in Nat
         /\ Header(Class(kind)) \in {0, 3, 4}
         /\ Length(kind) = Header(Class(kind)) + Data[kind]
         /\ kind # "junk" => Class(kind) \in {"info", "video", "audio"} /\ Header(Class(kind)) >= 3
         /\ kind # "junk" => (Header(Class(kind)) = 3 <=> Class(kind) = "audio")
<1>1. Data[kind] \in Nat
  BY MediaAssumption
<1>2. CASE kind = "junk"
  <2>1. Class(kind) = "none"
    BY <1>2 DEF Class, Video
  <2>2. Header(Class(kind)) = 0
    BY <2>1 DEF Header
  <2>3. Data[kind] > 0
    BY <1>2, MediaAssumption
  <2> QED BY <1>1, <1>2, <2>2, <2>3 DEF Length
<1>3. CASE kind # "junk"
  <2>1. kind \in {"info"} \cup {"iframe", "pframe", "broken"} \cup {"aac", "adpcm"}
    BY <1>3 DEF Kind, Media, Video
  <2>2. /\ kind = "info" => Class(kind) = "info"
        /\ kind \in {"iframe", "pframe", "broken"} => Class(kind) = "video"
        /\ kind \in {"aac", "adpcm"} => Class(kind) = "audio"
    BY DEF Class, Video
  <2>3. Class(kind) \in {"info", "video", "audio"}
    BY <2>1, <2>2
  <2>4. Header("info") = 4 /\ Header("video") = 4 /\ Header("audio") = 3
    BY DEF Header
  <2>5. Header(Class(kind)) \in {3, 4} /\ (Header(Class(kind)) = 3 <=> Class(kind) = "audio")
    BY <2>3, <2>4
  <2> QED BY <1>1, <1>3, <2>3, <2>5 DEF Length
<1> QED BY <1>2, <1>3

\* Packets lie one behind the other.
LEMMA Places ==
  ASSUME NEW s \in Streams
  PROVE  /\ Len(s) \in Nat \ {0} /\ DOMAIN s = 1 .. Len(s)
         /\ \A i \in DOMAIN s :
               /\ s[i].kind \in Kind /\ s[i].end \in Nat /\ Before(s, i) \in Nat
               /\ s[i].end = Before(s, i) + Length(s[i].kind)
               /\ Before(s, i) < s[i].end
         /\ Before(s, 1) = 0
         /\ \A i \in 2 .. Len(s) : Before(s, i) = s[i - 1].end
<1>1. /\ Len(s) \in Nat \ {0} /\ DOMAIN s = 1 .. Len(s)
      /\ s \in Seq([kind : Kind, end : Nat])
      /\ \A i \in DOMAIN s : s[i].end = Before(s, i) + Length(s[i].kind)
  <2>1. /\ s \in Seq([kind : Kind, end : Nat]) /\ Len(s) \in 1 .. Longest
        /\ \A i \in DOMAIN s : s[i].end = Before(s, i) + Length(s[i].kind)
    BY MediaAssumption, Zenon
  <2>2. Len(s) \in Nat \ {0}
    BY <2>1, MediaAssumption
  <2>3. DOMAIN s = 1 .. Len(s)
    BY <2>1, LenProperties
  <2> QED BY <2>1, <2>2, <2>3
<1>2. \A i \in DOMAIN s : s[i].kind \in Kind /\ s[i].end \in Nat
  <2>1. \A i \in DOMAIN s : s[i] \in [kind : Kind, end : Nat]
    BY <1>1, ElementOfSeq
  <2> QED BY <2>1
<1>3. Before(s, 1) = 0 /\ \A i \in 2 .. Len(s) : Before(s, i) = s[i - 1].end
  BY <1>1 DEF Before
<1>4. \A i \in DOMAIN s : Before(s, i) \in Nat
  <2> SUFFICES ASSUME NEW i \in DOMAIN s PROVE Before(s, i) \in Nat
    OBVIOUS
  <2>1. CASE i = 1
    BY <2>1, <1>3
  <2>2. CASE i # 1
    <3>1. i \in 2 .. Len(s) /\ i - 1 \in DOMAIN s
      BY <1>1, <2>2
    <3> QED BY <3>1, <1>2, <1>3
  <2> QED BY <2>1, <2>2
<1>5. \A i \in DOMAIN s : Before(s, i) < s[i].end
  <2> SUFFICES ASSUME NEW i \in DOMAIN s PROVE Before(s, i) < s[i].end
    OBVIOUS
  <2> DEFINE l == Length(s[i].kind)  b == Before(s, i)  e == s[i].end
  <2>1. l \in Nat \ {0} /\ b \in Nat /\ e = b + l
    BY <1>1, <1>2, <1>4, Lengths
  <2> HIDE DEF l, b, e
  <2>2. b < e
    BY <2>1
  <2> QED BY <2>2 DEF b, e
<1> QED BY <1>1, <1>2, <1>3, <1>4, <1>5

LEMMA Rising ==
  ASSUME NEW s \in Streams, NEW i \in DOMAIN s, NEW j \in DOMAIN s, i < j
  PROVE  s[i].end <= Before(s, j)
<1> DEFINE G == {x \in DOMAIN s : i < x /\ ~ (s[i].end <= Before(s, x))}
<1> SUFFICES ASSUME G # {} PROVE FALSE
  OBVIOUS
<1>1. DOMAIN s = 1 .. Len(s) /\ Len(s) \in Nat
  BY Places
<1>2. PICK m \in G : \A y \in G : m <= y
  <2>1. G \subseteq Nat
    BY <1>1
  <2> HIDE DEF G
  <2> QED BY <2>1, LeastOf
<1>3. m \in DOMAIN s /\ i < m /\ ~ (s[i].end <= Before(s, m)) /\ i \in Nat /\ m \in Nat /\ i >= 1
  <2>1. m \in DOMAIN s /\ i < m /\ ~ (s[i].end <= Before(s, m))
    BY Zenon
  <2> QED BY <2>1, <1>1
<1> HIDE DEF G
<1>4. m - 1 \in DOMAIN s /\ m \in 2 .. Len(s) /\ m - 1 < m
  <2> DEFINE l == Len(s)
  <2>1. l \in Nat /\ m \in 1 .. l /\ i \in Nat /\ i >= 1 /\ i < m
    BY <1>1, <1>3
  <2> HIDE DEF l
  <2>2. m - 1 \in 1 .. l /\ m \in 2 .. l /\ m - 1 < m
    BY <2>1
  <2> QED BY <2>2, <1>1 DEF l
<1>5. Before(s, m) = s[m - 1].end
  BY <1>4, Places
<1>6. m - 1 # i
  <2>1. s[i].end \in Nat
    BY Places
  <2> QED BY <2>1, <1>3, <1>5
<1>7. i < m - 1
  BY <1>3, <1>4, <1>6
<1>8. m - 1 \notin G
  BY <1>2, <1>3, <1>4
<1>9. s[i].end <= Before(s, m - 1)
  BY <1>4, <1>7, <1>8 DEF G
<1> DEFINE a == s[i].end  b == Before(s, m - 1)  c == s[m - 1].end
<1>10. a \in Nat /\ b \in Nat /\ c \in Nat /\ b < c /\ a <= b
  BY <1>4, <1>9, Places
<1> HIDE DEF a, b, c
<1>11. a <= c
  BY <1>10
<1> QED BY <1>3, <1>5, <1>11 DEF a, c

\* Every cell is in one packet, and Of gives it.
LEMMA CellOf ==
  ASSUME sent \in Streams
  PROVE  /\ Size \in Nat
         /\ \A i \in DOMAIN sent : sent[i].end <= Size
         /\ \A c \in 1 .. Size : Of(c) \in DOMAIN sent /\ c \in Before(sent, Of(c)) + 1 .. sent[Of(c)].end
         /\ \A i \in DOMAIN sent : \A c \in Before(sent, i) + 1 .. sent[i].end :
               Of(c) = i /\ c \in 1 .. Size
<1>1. /\ Len(sent) \in Nat \ {0} /\ DOMAIN sent = 1 .. Len(sent)
      /\ \A i \in DOMAIN sent : /\ sent[i].end \in Nat /\ Before(sent, i) \in Nat
                                /\ Before(sent, i) < sent[i].end
  BY Places
<1>2. Len(sent) \in DOMAIN sent
  BY <1>1
<1>3. Size \in Nat
  BY <1>1, <1>2 DEF Size
<1>4. \A i \in DOMAIN sent : sent[i].end <= Size
  <2> SUFFICES ASSUME NEW i \in DOMAIN sent, i # Len(sent) PROVE sent[i].end <= Size
    BY <1>3, <1>2 DEF Size
  <2>1. i < Len(sent)
    BY <1>1
  <2>2. sent[i].end <= Before(sent, Len(sent))
    BY <1>2, <2>1, Rising
  <2> DEFINE a == sent[i].end  b == Before(sent, Len(sent))  c == sent[Len(sent)].end
  <2>3. a \in Nat /\ b \in Nat /\ c \in Nat /\ b < c /\ a <= b
    BY <1>1, <1>2, <2>2
  <2> HIDE DEF a, b, c
  <2>4. a <= c
    BY <2>3
  <2> QED BY <2>4 DEF a, c, Size
<1>5. \A c \in 1 .. Size : \E i \in DOMAIN sent : c \in Before(sent, i) + 1 .. sent[i].end
  <2> SUFFICES ASSUME NEW c \in 1 .. Size
               PROVE  \E i \in DOMAIN sent : c \in Before(sent, i) + 1 .. sent[i].end
    OBVIOUS
  <2> DEFINE G == {i \in DOMAIN sent : c <= sent[i].end}
  <2>1. Len(sent) \in G
    BY <1>2 DEF Size
  <2>2. PICK m \in G : \A y \in G : m <= y
    <3>1. G \subseteq Nat /\ G # {}
      BY <1>1, <2>1
    <3> HIDE DEF G
    <3> QED BY <3>1, LeastOf
  <2>3. m \in DOMAIN sent /\ c <= sent[m].end /\ c \in Nat /\ c >= 1
    BY <1>3
  <2>4. CASE m = 1
    <3>1. Before(sent, m) = 0
      BY <2>4, Places
    <3>2. c \in Before(sent, m) + 1 .. sent[m].end
      BY <2>3, <3>1, <1>1
    <3> QED BY <2>3, <3>2
  <2>5. CASE m # 1
    <3>1. m \in 2 .. Len(sent) /\ m - 1 \in DOMAIN sent
      BY <1>1, <2>3, <2>5
    <3>2. Before(sent, m) = sent[m - 1].end
      BY <3>1, Places
    <3>3. m - 1 \notin G
      BY <1>1, <2>2, <2>3
    <3>4. ~ (c <= sent[m - 1].end)
      BY <3>1, <3>3
    <3>5. c \in Before(sent, m) + 1 .. sent[m].end
      BY <1>1, <2>3, <3>1, <3>2, <3>4
    <3> QED BY <2>3, <3>5
  <2> QED BY <2>4, <2>5
<1>6. \A i, j \in DOMAIN sent : \A c \in Int :
         c \in Before(sent, i) + 1 .. sent[i].end =>
            (c \in Before(sent, j) + 1 .. sent[j].end => i = j)
  <2>1. ASSUME NEW i \in DOMAIN sent, NEW j \in DOMAIN sent, i < j, NEW c \in Int,
               c \in Before(sent, i) + 1 .. sent[i].end,
               c \in Before(sent, j) + 1 .. sent[j].end
        PROVE  FALSE
    <3>1. sent[i].end <= Before(sent, j)
      BY <2>1, Rising
    <3> QED BY <1>1, <2>1, <3>1
  <2>2. \A i, j \in Nat : i < j \/ j < i \/ i = j
    OBVIOUS
  <2>3. \A i \in DOMAIN sent : i \in Nat
    BY <1>1
  <2>4. SUFFICES ASSUME NEW i \in DOMAIN sent, NEW j \in DOMAIN sent, NEW c \in Int,
                        c \in Before(sent, i) + 1 .. sent[i].end,
                        c \in Before(sent, j) + 1 .. sent[j].end
                 PROVE  i = j
    BY Zenon
  <2> QED BY <2>1, <2>2, <2>3, <2>4
<1>7. \A c \in 1 .. Size : Of(c) \in DOMAIN sent /\ c \in Before(sent, Of(c)) + 1 .. sent[Of(c)].end
  BY <1>5 DEF Of
<1>8. ASSUME NEW i \in DOMAIN sent, NEW c \in Before(sent, i) + 1 .. sent[i].end
      PROVE  Of(c) = i /\ c \in 1 .. Size
  <2>1. c \in 1 .. Size /\ c \in Int
    BY <1>1, <1>3, <1>4
  <2> QED BY <2>1, <1>6, <1>7
<1> QED BY <1>3, <1>4, <1>7, <1>8

\* A cell is its packet's, at some place.
LEMMA CellAt ==
  ASSUME sent \in Streams, NEW c \in 1 .. Size
  PROVE  /\ Of(c) \in DOMAIN sent /\ KindOf(c) \in Kind /\ Before(sent, Of(c)) \in Nat
         /\ KindOf(c) = sent[Of(c)].kind
         /\ At(c) \in 1 .. Length(KindOf(c)) /\ c = Before(sent, Of(c)) + At(c)
<1>1. Of(c) \in DOMAIN sent /\ c \in Before(sent, Of(c)) + 1 .. sent[Of(c)].end
  BY CellOf
<1> DEFINE i == Of(c)  l == Length(sent[i].kind)  b == Before(sent, i)  e == sent[i].end
<1>2. /\ sent[i].kind \in Kind /\ e \in Nat /\ b \in Nat /\ e = b + l /\ l \in Nat
      /\ c \in Int /\ c \in b + 1 .. e
  BY <1>1, Places, Lengths
<1> HIDE DEF l, b, e
<1>3. c - b \in 1 .. l /\ c = b + (c - b)
  BY <1>2
<1>4. At(c) = c - b /\ KindOf(c) = sent[i].kind /\ Length(KindOf(c)) = l
  BY DEF At, KindOf, b, l
<1>5. At(c) \in 1 .. Length(KindOf(c)) /\ c = b + At(c)
  BY <1>3, <1>4
<1> QED BY <1>1, <1>2, <1>4, <1>5 DEF b

LEMMA CellFrom ==
  ASSUME sent \in Streams, NEW i \in DOMAIN sent, NEW k \in 1 .. Length(sent[i].kind)
  PROVE  LET c == Before(sent, i) + k
         IN  c \in 1 .. Size /\ Of(c) = i /\ KindOf(c) = sent[i].kind /\ At(c) = k
<1> DEFINE l == Length(sent[i].kind)  b == Before(sent, i)  e == sent[i].end  c == b + k
<1>1. sent[i].kind \in Kind /\ e \in Nat /\ b \in Nat /\ e = b + l
  BY Places
<1>2. l \in Nat
  BY <1>1, Lengths
<1>3. k \in 1 .. l
  OBVIOUS
<1> HIDE DEF l, b, e
<1>4. c \in b + 1 .. e /\ c - b = k
  BY <1>1, <1>2, <1>3
<1>5. c \in 1 .. Size /\ Of(c) = i
  BY <1>4, CellOf DEF b, e
<1>6. KindOf(c) = sent[i].kind /\ At(c) = c - b
  BY <1>5 DEF KindOf, At, b
<1> QED BY <1>4, <1>5, <1>6 DEF b

\* The cells of the buffer, in order.
Increasing(b) == \A j, k \in DOMAIN b : j < k => b[j] < b[k]

LEMMA CellsIn ==
  ASSUME NEW p \in Nat, p <= Size, NEW b \in Seq(1 .. p), sent \in Streams
  PROVE  /\ Len(b) \in Nat /\ DOMAIN b = 1 .. Len(b)
         /\ \A j \in 1 .. Len(b) : b[j] \in 1 .. Size /\ b[j] <= p /\ b[j] \in Nat
<1>1. Len(b) \in Nat /\ DOMAIN b = 1 .. Len(b)
  BY LenProperties
<1>2. \A j \in 1 .. Len(b) : b[j] \in 1 .. p
  BY <1>1, ElementOfSeq
<1>3. Size \in Nat
  BY CellOf
<1>4. \A x \in 1 .. p : x \in 1 .. Size /\ x <= p /\ x \in Nat
  BY <1>3
<1> QED BY <1>1, <1>2, <1>4

LEMMA ClassFirst ==
  ASSUME NEW kind \in Kind, Class(kind) \in {"info", "video", "audio"}
  PROVE  /\ kind # "junk"
         /\ Header(Class(kind)) \in {3, 4}
         /\ Class(kind) = "audio" => Header(Class(kind)) = 3
         /\ Class(kind) # "audio" => Header(Class(kind)) = 4
         /\ kind \notin {"broken"} \/ Class(kind) = "video"
         /\ Class(kind) = "info" => kind = "info"
<1>1. Class("junk") = "none" /\ Class("broken") = "video"
  BY DEF Class, Video
<1>2. kind # "junk"
  BY <1>1
<1>3. Header("info") = 4 /\ Header("video") = 4 /\ Header("audio") = 3
  BY DEF Header
<1>4. Class(kind) = "info" => kind = "info"
  BY DEF Class, Video
<1> QED BY <1>1, <1>2, <1>3, <1>4

\* What the parser has checked when it finds a packet.
LEMMA FoundPacket ==
  ASSUME sent \in Streams, garbage \in Nat, NEW p \in Nat, p <= Size,
         NEW b \in Seq(1 .. p), TryOne(b) = "packet"
  PROVE  /\ Len(b) >= 3 /\ MagicAt(b, 1)
         /\ Of(b[1]) \in DOMAIN sent /\ b[1] = Before(sent, Of(b[1])) + 1
         /\ KindOf(b[1]) \in Kind /\ KindOf(b[1]) = sent[Of(b[1])].kind
         /\ Len(b) >= Header(Class(KindOf(b[1])))
         /\ Total(b) \in 1 .. Len(b)
<1>1. Len(b) \in Nat /\ \A j \in 1 .. Len(b) : b[j] \in 1 .. Size
  BY CellsIn
<1>2. /\ ~ (Len(b) < 3) /\ MagicAt(b, 1) /\ ~ (Len(b) < Header(Class(KindOf(b[1]))))
      /\ ~ (Len(b) < Total(b))
  BY Zenon DEF TryOne
<1>3. /\ Class(KindOf(b[1])) \in {"info", "video", "audio"} /\ At(b[1]) = 1
  BY <1>2 DEF MagicAt, Is
<1>4. b[1] \in 1 .. Size
  BY <1>1, <1>2
<1>5. /\ Of(b[1]) \in DOMAIN sent /\ b[1] = Before(sent, Of(b[1])) + 1
      /\ KindOf(b[1]) \in Kind /\ KindOf(b[1]) = sent[Of(b[1])].kind
  BY <1>3, <1>4, CellAt
<1> DEFINE class == Class(KindOf(b[1]))  h == Header(class)
           size == IF class = "audio" THEN b[3] ELSE b[4]
<1>6. h \in {3, 4} /\ (class = "audio" => h = 3) /\ (class # "audio" => h = 4)
  BY <1>3, <1>5, ClassFirst
<1>7. class # "audio" => 4 \in 1 .. Len(b)
  BY <1>1, <1>2, <1>6
<1>8. 3 \in 1 .. Len(b)
  BY <1>1, <1>2
<1>9. size \in 1 .. Size
  BY <1>1, <1>7, <1>8
<1>10. Data[KindOf(size)] \in Nat
  BY <1>9, CellAt, Lengths
<1>11. Total(b) = IF class = "info" THEN 4
                  ELSE h + IF Is(size, class, h) THEN Data[KindOf(size)] ELSE garbage
  BY DEF Total
<1> HIDE DEF class, h, size
<1>12. Total(b) \in Nat /\ Total(b) >= 1
  BY <1>6, <1>10, <1>11
<1>13. Total(b) \in 1 .. Len(b) /\ Len(b) >= 3 /\ Len(b) >= h
  BY <1>1, <1>2, <1>6, <1>12 DEF h, class
<1> QED BY <1>2, <1>5, <1>13 DEF h, class

\* The cells of a packet that has lost none are next to each other.
Together(s, l, p, b) ==
    \A i \in DOMAIN s \ l : \A j \in DOMAIN b :
        b[j] = Before(s, i) + 1 =>
            \A c \in Before(s, i) + 1 .. s[i].end :
                c <= p => j + c - b[j] \in DOMAIN b /\ b[j + c - b[j]] = c

LEMMA InPlace ==
  ASSUME sent \in Streams, NEW p \in Nat, p <= Size, NEW b \in Seq(1 .. p), NEW l,
         Increasing(b), Together(sent, l, p, b),
         NEW i \in DOMAIN sent \ l, NEW j \in DOMAIN b, b[j] = Before(sent, i) + 1,
         NEW k \in Nat, k >= 1, k <= Length(sent[i].kind), j + k - 1 <= Len(b)
  PROVE  b[j + k - 1] = Before(sent, i) + k
<1> DEFINE f == Before(sent, i)  e == sent[i].end  n == Len(b)
<1>1. f \in Nat /\ e \in Nat /\ e = f + Length(sent[i].kind) /\ Length(sent[i].kind) \in Nat
  BY Places, Lengths
<1>2. n \in Nat /\ DOMAIN b = 1 .. n /\ \A x \in 1 .. n : b[x] <= p /\ b[x] \in Nat
  BY CellsIn
<1>3. f + k \in f + 1 .. e
  BY <1>1
<1>4. j \in 1 .. n /\ b[j] = f + 1 /\ f + 1 <= p /\ j + k - 1 <= n
  BY <1>2
<1>5. \A c \in f + 1 .. e : c <= p => j + c - (f + 1) \in 1 .. n /\ b[j + c - (f + 1)] = c
  BY <1>2, <1>4 DEF Together
<1>6. \A x, y \in 1 .. n : x < y => b[x] < b[y]
  BY <1>2 DEF Increasing
<1> HIDE DEF f, e, n
<1>7. CASE f + k <= p
  <2>1. b[j + (f + k) - (f + 1)] = f + k
    BY <1>3, <1>5, <1>7
  <2>2. j + (f + k) - (f + 1) = j + k - 1
    BY <1>1, <1>4
  <2> QED BY <2>1, <2>2 DEF f
<1>8. CASE ~ (f + k <= p)
  <2>1. p \in f + 1 .. e
    BY <1>1, <1>3, <1>4, <1>8
  <2>2. j + p - (f + 1) \in 1 .. n /\ b[j + p - (f + 1)] = p
    BY <1>5, <2>1
  <2>3. n \in Nat /\ j \in Nat /\ j >= 1 /\ j + k - 1 <= n /\ p < f + k
    BY <1>1, <1>2, <1>4, <1>8
  <2>5. j + k - 1 \in 1 .. n /\ j + p - (f + 1) < j + k - 1
    BY <1>1, <2>3
  <2>4. p < b[j + k - 1] /\ b[j + k - 1] <= p /\ b[j + k - 1] \in Nat
    BY <1>2, <1>6, <2>2, <2>5
  <2> QED BY <2>4
<1> QED BY <1>7, <1>8

Sound(kind) == kind \notin {"broken", "junk"}

\* At the start of a packet that is sound and has lost nothing the parser never gives up its
\* place, and when it takes the packet it takes all of it and no more.
LEMMA SoundFirst ==
  ASSUME sent \in Streams, NEW p \in Nat, p <= Size, NEW b \in Seq(1 .. p), NEW l,
         Increasing(b), Together(sent, l, p, b),
         NEW i \in DOMAIN sent \ l, Sound(sent[i].kind),
         Len(b) >= 3, b[1] = Before(sent, i) + 1
  PROVE  /\ Of(b[1]) = i /\ KindOf(b[1]) = sent[i].kind
         /\ MagicAt(b, 1)
         /\ TryOne(b) # "resync"
         /\ TryOne(b) = "packet" =>
               /\ Total(b) = Length(sent[i].kind)
               /\ \A k \in 1 .. Total(b) : b[k] = Before(sent, i) + k
         /\ TryOne(b) = "wait" => Len(b) < Length(sent[i].kind)
<1> DEFINE kind == sent[i].kind  class == Class(kind)  h == Header(class)
           f == Before(sent, i)  n == Len(b)  len == Length(kind)
<1>1. kind \in Kind /\ f \in Nat
  BY Places
<1>2. class \in {"info", "video", "audio"} /\ kind # "broken"
  BY <1>1, Lengths DEF Sound
<1>3. h \in {3, 4} /\ (class = "audio" => h = 3) /\ (class # "audio" => h = 4)
  BY <1>1, <1>2, ClassFirst
<1>4. len \in Nat /\ len >= h /\ len = h + Data[kind] /\ Data[kind] \in Nat
  BY <1>1, <1>3, Lengths
<1>5. n \in Nat /\ DOMAIN b = 1 .. n /\ n >= 3 /\ 1 \in DOMAIN b
  BY CellsIn
<1>6. ASSUME NEW k \in Nat, k >= 1, k <= len, k <= n
      PROVE  /\ b[k] = f + k
             /\ Of(b[k]) = i /\ KindOf(b[k]) = kind /\ At(b[k]) = k
  <2> DEFINE one == 1
  <2>1. one \in DOMAIN b /\ b[one] = Before(sent, i) + 1 /\ one + k - 1 <= Len(b)
    BY <1>5, <1>6
  <2>2. one + k - 1 = k
    OBVIOUS
  <2> HIDE DEF one
  <2>3. b[one + k - 1] = Before(sent, i) + k
    BY <1>6, <2>1, InPlace
  <2>4. b[k] = f + k
    BY <2>2, <2>3
  <2>5. k \in 1 .. Length(sent[i].kind)
    BY <1>4, <1>6
  <2>6. Of(f + k) = i /\ KindOf(f + k) = kind /\ At(f + k) = k
    BY <2>5, CellFrom
  <2> QED BY <2>4, <2>6
<1>7. /\ b[1] = f + 1 /\ Of(b[1]) = i /\ KindOf(b[1]) = kind /\ At(b[1]) = 1
      /\ KindOf(b[2]) = kind /\ At(b[2]) = 2
      /\ KindOf(b[3]) = kind /\ At(b[3]) = 3
  BY <1>3, <1>4, <1>5, <1>6
<1>8. MagicAt(b, 1)
  BY <1>2, <1>5, <1>7 DEF MagicAt, Is
<1>9. class # "audio" /\ n >= h => KindOf(b[4]) = kind /\ At(b[4]) = 4
  BY <1>3, <1>4, <1>5, <1>6
<1>10. Known(b)
  <2>1. /\ class = "info" => Is(b[3], "info", 3)
        /\ class = "video" => Is(b[3], "video", 3) /\ KindOf(b[3]) # "broken"
    BY <1>2, <1>7 DEF Is
  <2> HIDE DEF class, kind
  <2>2. Class(KindOf(b[1])) = class
    BY <1>7 DEF class
  <2> QED BY <2>1, <2>2, <1>2 DEF Known
<1>11. n >= h => Total(b) = len
  <2> SUFFICES ASSUME n >= h PROVE Total(b) = len
    OBVIOUS
  <2>1. CASE class = "info"
    <3>1. Total(b) = 4 /\ h = 4
      BY <1>3, <1>7, <2>1 DEF Total
    <3>2. kind = "info"
      BY <1>1, <1>2, <2>1, ClassFirst
    <3> QED BY <3>1, <3>2, <1>4, MediaAssumption
  <2>2. CASE class # "info"
    <3> DEFINE size == IF class = "audio" THEN b[3] ELSE b[4]
    <3>1. KindOf(size) = kind /\ At(size) = h
      BY <1>3, <1>7, <1>9
    <3>2. Is(size, class, h)
      BY <3>1 DEF Is
    <3>3. Total(b) = h + IF Is(size, class, h) THEN Data[KindOf(size)] ELSE garbage
      BY <1>7, <2>2 DEF Total
    <3> QED BY <3>1, <3>2, <3>3, <1>4
  <2> QED BY <2>1, <2>2
<1>12. Class(KindOf(b[1])) = class
  BY <1>7
<1> HIDE DEF class, n, len, kind, f, h
<1>13. TryOne(b) # "resync" /\ (TryOne(b) = "packet" => n >= h /\ ~ (n < Total(b)))
  <2>1. ~ (Len(b) < 3)
    BY <1>5 DEF n
  <2>2. n >= h \/ Len(b) < Header(Class(KindOf(b[1])))
    BY <1>3, <1>5, <1>12 DEF n, h
  <2>3. TryOne(b) \in {"wait", "packet"}
    BY <1>8, <1>10, <2>1, Zenon DEF TryOne
  <2>4. TryOne(b) = "packet" => /\ ~ (Len(b) < Header(Class(KindOf(b[1]))))
                               /\ ~ (Len(b) < Total(b))
    BY Zenon DEF TryOne
  <2> QED BY <2>2, <2>3, <2>4 DEF n
<1>14. TryOne(b) = "packet" => Total(b) = len /\ \A k \in 1 .. Total(b) : b[k] = f + k
  <2> SUFFICES ASSUME TryOne(b) = "packet"
               PROVE  Total(b) = len /\ \A k \in 1 .. Total(b) : b[k] = f + k
    OBVIOUS
  <2>1. Total(b) = len /\ len <= n /\ len \in Nat /\ n \in Nat
    BY <1>4, <1>5, <1>11, <1>13
  <2>2. \A k \in 1 .. len : k \in Nat /\ k >= 1 /\ k <= len /\ k <= n
    BY <2>1
  <2> QED BY <2>1, <2>2, <1>6
<1>15. TryOne(b) = "wait" => n < len
  <2> SUFFICES ASSUME TryOne(b) = "wait" PROVE n < len
    OBVIOUS
  <2>1. \/ Len(b) < 3
        \/ Len(b) < Header(Class(KindOf(b[1])))
        \/ Len(b) < Total(b)
    BY Zenon DEF TryOne
  <2>2. n < h \/ n < Total(b)
    BY <2>1, <1>3, <1>5, <1>12 DEF n, h
  <2>3. n < h \/ (n >= h /\ n < Total(b))
    BY <2>2, <1>3, <1>5
  <2> QED BY <2>3, <1>3, <1>4, <1>5, <1>11
<1> QED BY <1>7, <1>8, <1>13, <1>14, <1>15 DEF kind, f, len, n

(***************************************************************************)
(* The parser's invariant, as a property of the values of the variables.    *)
(***************************************************************************)

Position(o) == IF o = <<>> THEN 0 ELSE Last(o).of
Done(s, o) == IF Position(o) = 0 THEN 0 ELSE s[Position(o)].end

\* The buffer is behind the start of the last packet parsed, and packets came in order.
Buffered(s, p, b, o) ==
    /\ Increasing(b)
    /\ Position(o) # 0 => /\ Before(s, Position(o)) + 1 <= p
                          /\ \A j \in DOMAIN b : b[j] > Before(s, Position(o)) + 1
    /\ \A j, k \in DOMAIN o : j < k => o[j].of < o[k].of

\* When nothing goes wrong it is what the camera has sent since that packet.
Exact(s, p, b, o) ==
    /\ Done(s, o) <= p /\ Len(b) = p - Done(s, o)
    /\ \A j \in DOMAIN b : b[j] = Done(s, o) + j
Lossless(s, f, p, l, b, o) ==
    ~f => (\A i \in DOMAIN s : Sound(s[i].kind)) /\ l = {} /\ Exact(s, p, b, o)

\* NothingSkipped, of these values.
Accounted(s, p, l, b, o, x, i) ==
    \/ s[i].kind \in {"broken", "junk"} \/ i \in l \cup x
    \/ \E j \in DOMAIN o : o[j].of = i /\ o[j].whole
    \/ \E j \in DOMAIN b : b[j] = Before(s, i) + 1
    \/ p <= Before(s, i)
Skipless(s, p, l, b, o, x) == \A i \in DOMAIN s : Accounted(s, p, l, b, o, x, i)

Parser(s, f, p, l, b, o, x) ==
    /\ Buffered(s, p, b, o) /\ Lossless(s, f, p, l, b, o)
    /\ Together(s, l, p, b) /\ Skipless(s, p, l, b, o, x)

\* The back of a buffer.
LEMMA BackKeeps ==
  ASSUME sent \in Streams, NEW p \in Nat, p <= Size, NEW l,
         NEW b \in Seq(1 .. p), Increasing(b), Together(sent, l, p, b),
         NEW m \in 0 .. Len(b),
         NEW c \in Seq(1 .. p), Len(c) = Len(b) - m, \A j \in 1 .. Len(b) - m : c[j] = b[j + m]
  PROVE  Increasing(c) /\ Together(sent, l, p, c)
<1> DEFINE n == Len(b)
<1>1. /\ n \in Nat /\ DOMAIN b = 1 .. n /\ DOMAIN c = 1 .. n - m /\ m \in 0 .. n
      /\ \A j \in 1 .. n - m : c[j] = b[j + m]
      /\ \A j \in 1 .. n : b[j] \in Nat
  BY CellsIn
<1>2. \A x, y \in 1 .. n : x < y => b[x] < b[y]
  BY <1>1 DEF Increasing
<1> HIDE DEF n
<1>3. \A j \in 1 .. n - m : j + m \in 1 .. n
  BY <1>1
<1>4. \A x, y \in 1 .. n - m : x < y => x + m < y + m
  BY <1>1
<1>5. Increasing(c)
  BY <1>1, <1>2, <1>3, <1>4 DEF Increasing
<1>6. ASSUME NEW i \in DOMAIN sent \ l, NEW j \in DOMAIN c, c[j] = Before(sent, i) + 1,
             NEW d \in Before(sent, i) + 1 .. sent[i].end, d <= p
      PROVE  j + d - c[j] \in DOMAIN c /\ c[j + d - c[j]] = d
  <2> DEFINE f == Before(sent, i)  e == sent[i].end
  <2>1. f \in Nat /\ e \in Nat
    BY Places
  <2>2. j \in 1 .. n - m /\ j + m \in DOMAIN b /\ b[j + m] = f + 1
    BY <1>1, <1>3, <1>6
  <2>3. (j + m) + d - b[j + m] \in DOMAIN b /\ b[(j + m) + d - b[j + m]] = d
    BY <1>6, <2>2 DEF Together
  <2>4. d \in f + 1 .. e /\ c[j] = f + 1
    BY <1>6
  <2> HIDE DEF f, e
  <2>5. (j + m) + d - (f + 1) \in 1 .. n /\ b[(j + m) + d - (f + 1)] = d
    BY <1>1, <2>2, <2>3
  <2>6. /\ j + d - (f + 1) \in 1 .. n - m
        /\ (j + d - (f + 1)) + m = (j + m) + d - (f + 1)
    <3>1. n \in Nat /\ m \in Nat /\ f \in Nat /\ j \in Nat /\ j >= 1 /\ d \in Int /\ d >= f + 1
      BY <1>1, <2>1, <2>2, <2>4
    <3>2. (j + m) + d - (f + 1) <= n
      BY <2>5, <3>1
    <3>3. j + d - (f + 1) \in Int /\ j + d - (f + 1) >= 1
      BY <3>1
    <3>4. (j + d - (f + 1)) + m = (j + m) + d - (f + 1)
      BY <3>1
    <3>5. j + d - (f + 1) <= n - m
      BY <3>1, <3>2
    <3>6. n - m \in Int
      BY <3>1
    <3> QED BY <3>3, <3>4, <3>5, <3>6
  <2>7. c[j + d - (f + 1)] = d
    BY <1>1, <2>5, <2>6
  <2> QED BY <1>1, <2>4, <2>6, <2>7
<1>7. Together(sent, l, p, c)
  BY <1>6, Zenon DEF Together
<1> QED BY <1>5, <1>7

LEMMA CellsAre ==
  ASSUME NEW from \in Nat, NEW to \in Nat, from <= to
  PROVE  /\ Cells(from, to) \in Seq(1 .. to) /\ Len(Cells(from, to)) = to - from
         /\ DOMAIN Cells(from, to) = 1 .. to - from
         /\ \A k \in 1 .. to - from : Cells(from, to)[k] = from + k
<1> DEFINE n == to - from
<1>1. n \in Nat /\ \A k \in 1 .. n : from + k \in 1 .. to
  OBVIOUS
<1> HIDE DEF n
<1>2. [k \in 1 .. n |-> from + k] \in [1 .. n -> 1 .. to]
  BY <1>1
<1>3. Cells(from, to) = [k \in 1 .. n |-> from + k]
  BY DEF Cells, n
<1>4. Cells(from, to) \in Seq(1 .. to) /\ Len(Cells(from, to)) = n
  <2>1. Cells(from, to) \in Seq(1 .. to)
    <3>1. \A k \in 1 .. n : from + k \in 1 .. to
      BY <1>1
    <3>2. [k \in 1 .. n |-> from + k] \in Seq(1 .. to)
      BY <1>1, <3>1, IsASeq
    <3> QED BY <1>3, <3>2
  <2>2. Len(Cells(from, to)) \in Nat /\ 1 .. Len(Cells(from, to)) = 1 .. n
    BY <2>1, <1>3, LenProperties
  <2> QED BY <2>1, <2>2, <1>1
<1> QED BY <1>3, <1>4 DEF n

\* A payload more: its cells are behind all the others.
LEMMA PayloadKeeps ==
  ASSUME sent \in Streams, NEW f, NEW p \in Nat, NEW q \in Nat, p < q, q <= Size, NEW l,
         NEW b \in Seq(1 .. p), NEW o, NEW x, Position(o) \in DOMAIN sent \cup {0},
         Parser(sent, f, p, l, b, o, x)
  PROVE  /\ b \o Cells(p, q) \in Seq(1 .. q)
         /\ Parser(sent, f, q, l, b \o Cells(p, q), o, x)
<1> DEFINE n == Len(b)  c == b \o Cells(p, q)
<1>1. n \in Nat /\ DOMAIN b = 1 .. n /\ \A j \in 1 .. n : b[j] <= p /\ b[j] \in Nat
  BY CellsIn
<1>2. /\ Cells(p, q) \in Seq(1 .. q) /\ Len(Cells(p, q)) = q - p
      /\ \A k \in 1 .. q - p : Cells(p, q)[k] = p + k
  BY CellsAre
<1>3. b \in Seq(1 .. q)
  <2>1. 1 .. p \subseteq 1 .. q
    OBVIOUS
  <2> QED BY <2>1, SeqMonotonic
<1>4. /\ c \in Seq(1 .. q) /\ Len(c) = n + (q - p)
      /\ \A j \in 1 .. n + (q - p) :
            c[j] = IF j <= n THEN b[j] ELSE Cells(p, q)[j - n]
  <2> DEFINE r == Cells(p, q)  m == q - p
  <2>1. r \in Seq(1 .. q) /\ Len(r) = m /\ Len(b) = n
    BY <1>2
  <2> HIDE DEF r, m, n
  <2>2. /\ b \o r \in Seq(1 .. q) /\ Len(b \o r) = n + m
        /\ \A j \in 1 .. n + m : (b \o r)[j] = IF j <= n THEN b[j] ELSE r[j - n]
    BY <2>1, <1>3, ConcatProperties
  <2> QED BY <2>2 DEF r, m
<1>5. DOMAIN c = 1 .. n + (q - p)
  BY <1>4, LenProperties
<1> HIDE DEF n, c
<1>6. \A j \in 1 .. n : j \in DOMAIN c /\ j \in DOMAIN b /\ c[j] = b[j]
  <2>1. \A j \in 1 .. n : j \in 1 .. n + (q - p) /\ j <= n
    BY <1>1
  <2> QED BY <2>1, <1>1, <1>4, <1>5
<1>7. \A k \in 1 .. q - p : n + k \in DOMAIN c /\ c[n + k] = p + k
  <2> SUFFICES ASSUME NEW k \in 1 .. q - p PROVE n + k \in DOMAIN c /\ c[n + k] = p + k
    OBVIOUS
  <2>1. n + k \in 1 .. n + (q - p) /\ ~ (n + k <= n) /\ (n + k) - n = k
    BY <1>1
  <2> QED BY <2>1, <1>2, <1>4, <1>5
<1>8. \A j \in DOMAIN c : j \in 1 .. n \/ (j - n \in 1 .. q - p /\ j = n + (j - n) /\ c[j] = p + (j - n))
  <2> SUFFICES ASSUME NEW j \in DOMAIN c, ~ (j \in 1 .. n)
               PROVE  j - n \in 1 .. q - p /\ j = n + (j - n) /\ c[j] = p + (j - n)
    OBVIOUS
  <2>1. j \in 1 .. n + (q - p)
    BY <1>5
  <2>2. j - n \in 1 .. q - p /\ j = n + (j - n)
    BY <2>1, <1>1
  <2>3. c[n + (j - n)] = p + (j - n)
    BY <1>7, <2>2
  <2> QED BY <2>2, <2>3
<1>9. \A j \in DOMAIN c : j \in Nat /\ c[j] \in Nat
  BY <1>1, <1>6, <1>8
\* In order.
<1>10. Increasing(c)
  <2> SUFFICES ASSUME NEW j \in DOMAIN c, NEW k \in DOMAIN c, j < k PROVE c[j] < c[k]
    BY DEF Increasing
  <2>1. CASE k \in 1 .. n
    <3>1. j \in 1 .. n
      BY <1>1, <1>9, <1>8, <2>1
    <3> QED BY <1>1, <1>6, <2>1, <3>1 DEF Parser, Buffered, Increasing
  <2>2. CASE k \notin 1 .. n /\ j \in 1 .. n
    BY <1>1, <1>6, <1>8, <2>2
  <2>3. CASE k \notin 1 .. n /\ j \notin 1 .. n
    <3> DEFINE u == j - n  v == k - n
    <3>1. u \in Int /\ v \in Int /\ c[j] = p + u /\ c[k] = p + v
      BY <1>8, <2>3
    <3>2. u < v
      BY <1>1, <1>9
    <3> HIDE DEF u, v
    <3>3. p + u < p + v
      BY <3>1, <3>2
    <3> QED BY <3>1, <3>3
  <2> QED BY <2>1, <2>2, <2>3
<1>11. Buffered(sent, q, c, o)
  <2>1. ASSUME Position(o) # 0, NEW j \in DOMAIN c
        PROVE  c[j] > Before(sent, Position(o)) + 1 /\ Before(sent, Position(o)) + 1 <= q
    <3> DEFINE a == Before(sent, Position(o))
    <3>1. a \in Nat
      BY <2>1, Places
    <3>2. a + 1 <= p /\ \A y \in DOMAIN b : b[y] > a + 1
      BY <2>1 DEF Parser, Buffered
    <3> HIDE DEF a
    <3>3. c[j] > a + 1
      <4>1. CASE j \in 1 .. n
        BY <4>1, <1>6, <3>2
      <4>2. CASE j \notin 1 .. n
        <5> DEFINE u == j - n
        <5>1. u \in Int /\ u >= 1 /\ c[j] = p + u
          BY <1>8, <4>2
        <5> HIDE DEF u
        <5> QED BY <5>1, <3>1, <3>2
      <4> QED BY <4>1, <4>2
    <3>4. a + 1 <= q
      BY <3>1, <3>2
    <3> QED BY <3>3, <3>4 DEF a
  <2>2. Position(o) # 0 => Before(sent, Position(o)) + 1 <= q
    <3> SUFFICES ASSUME Position(o) # 0 PROVE Before(sent, Position(o)) + 1 <= q
      OBVIOUS
    <3> DEFINE a == Before(sent, Position(o))
    <3>1. a \in Nat
      BY Places
    <3>2. a + 1 <= p
      BY DEF Parser, Buffered
    <3> HIDE DEF a
    <3>3. a + 1 <= q
      BY <3>1, <3>2
    <3> QED BY <3>3 DEF a
  <2>3. \A j, k \in DOMAIN o : j < k => o[j].of < o[k].of
    BY DEF Parser, Buffered
  <2> QED BY <1>10, <2>1, <2>2, <2>3 DEF Buffered
\* Nothing lost.
<1>12. Lossless(sent, f, q, l, c, o)
  <2> SUFFICES ASSUME ~ f, Exact(sent, p, b, o) PROVE Exact(sent, q, c, o)
    BY DEF Parser, Lossless
  <2> DEFINE d == Done(sent, o)
  <2>1. d \in Nat
    BY Places DEF Done
  <2>2. d <= p /\ n = p - d /\ \A j \in DOMAIN b : b[j] = d + j
    BY DEF Exact, n
  <2> HIDE DEF d
  <2>3. d <= q /\ Len(c) = q - d
    BY <1>1, <1>4, <2>1, <2>2
  <2>4. ASSUME NEW j \in DOMAIN c PROVE c[j] = d + j
    <3>1. CASE j \in 1 .. n
      BY <3>1, <1>6, <2>2
    <3>2. CASE j \notin 1 .. n
      <4>1. c[j] = p + (j - n) /\ j \in Nat
        BY <1>8, <1>9, <3>2
      <4> QED BY <4>1, <2>1, <2>2
    <3> QED BY <3>1, <3>2
  <2> QED BY <2>3, <2>4 DEF Exact, d
\* Next to each other.
<1>13. Together(sent, l, q, c)
  <2> SUFFICES ASSUME NEW i \in DOMAIN sent \ l, NEW j \in DOMAIN c, c[j] = Before(sent, i) + 1,
                      NEW d \in Before(sent, i) + 1 .. sent[i].end, d <= q
               PROVE  j + d - c[j] \in DOMAIN c /\ c[j + d - c[j]] = d
    BY Zenon DEF Together
  <2> DEFINE a == Before(sent, i)  e == sent[i].end
  <2>1. a \in Nat /\ e \in Nat /\ d \in Int /\ d >= a + 1 /\ d <= e /\ c[j] = a + 1
    BY Places
  <2>2. \A y \in DOMAIN b : b[y] = a + 1 =>
          \A z \in a + 1 .. e : z <= p => y + z - b[y] \in DOMAIN b /\ b[y + z - b[y]] = z
    BY Zenon DEF Parser, Together
  <2> HIDE DEF a, e
  <2>3. CASE j \in 1 .. n /\ d <= p
    <3>1. d \in a + 1 .. e
      BY <2>1
    <3>2. c[j] = b[j] /\ j \in DOMAIN b
      BY <1>6, <2>3
    <3>3. j + d - b[j] \in DOMAIN b /\ b[j + d - b[j]] = d
      BY <2>1, <2>2, <2>3, <3>1, <3>2
    <3>4. j + d - c[j] \in 1 .. n
      BY <3>2, <3>3, <1>1
    <3> QED BY <3>2, <3>3, <3>4, <1>6
  <2>4. CASE j \in 1 .. n /\ ~ (d <= p)
    <3>1. c[j] = b[j] /\ j \in DOMAIN b /\ b[j] <= p
      BY <1>1, <1>6, <2>4
    <3>2. p \in a + 1 .. e
      BY <2>1, <2>4, <3>1
    <3>3. j + p - (a + 1) \in DOMAIN b /\ b[j + p - (a + 1)] = p
      BY <2>1, <2>2, <3>1, <3>2
    <3>4. j + p - (a + 1) = n
      <4>1. j + p - (a + 1) \in 1 .. n
        BY <1>1, <3>3
      <4>2. ~ (j + p - (a + 1) < n)
        <5> SUFFICES ASSUME j + p - (a + 1) < n PROVE FALSE
          OBVIOUS
        <5>1. n \in DOMAIN b
          BY <1>1, <4>1
        <5>2. b[j + p - (a + 1)] < b[n]
          BY <3>3, <5>1 DEF Parser, Buffered, Increasing
        <5>3. p < b[n] /\ b[n] <= p /\ b[n] \in Nat
          BY <1>1, <3>3, <5>1, <5>2
        <5> QED BY <5>3
      <4> QED BY <1>1, <4>1, <4>2
    <3> DEFINE k == d - p
    <3>5. k \in 1 .. q - p /\ d = p + k
      BY <2>1, <2>4
    <3>6. j + d - c[j] = n + k
      <4>1. j \in Int /\ c[j] = a + 1 /\ n \in Int
        BY <1>1, <2>1, <2>4
      <4> HIDE DEF k
      <4>2. j \in Int /\ n \in Int /\ a \in Int /\ d \in Int /\ p \in Int /\ k \in Int
        BY <4>1, <2>1, <3>5
      <4>3. j = n - p + a + 1
        BY <4>2, <3>4
      <4>4. d = p + k
        BY <3>5
      <4>5. j + d - (a + 1) = n + k
        BY <4>2, <4>3, <4>4
      <4> QED BY <4>1, <4>5
    <3> QED BY <3>5, <3>6, <1>7
  <2>5. CASE j \notin 1 .. n
    <3> DEFINE u == j - n  k == d - p
    <3>1. u \in 1 .. q - p /\ j = n + u /\ c[j] = p + u
      BY <1>8, <2>5
    <3> HIDE DEF u
    <3>2. k \in 1 .. q - p /\ d = p + k
      BY <2>1, <3>1
    <3>3. j + d - c[j] = n + k
      BY <1>1, <2>1, <3>1
    <3> QED BY <3>2, <3>3, <1>7
  <2> QED BY <2>3, <2>4, <2>5
\* Nothing skipped.
<1>14. Skipless(sent, q, l, c, o, x)
  <2> SUFFICES ASSUME NEW i \in DOMAIN sent, Accounted(sent, p, l, b, o, x, i)
               PROVE  Accounted(sent, q, l, c, o, x, i)
    BY DEF Parser, Skipless
  <2>1. (\E j \in DOMAIN b : b[j] = Before(sent, i) + 1) => \E j \in DOMAIN c : c[j] = Before(sent, i) + 1
    BY <1>1, <1>6
  <2>2. p <= Before(sent, i) =>
           q <= Before(sent, i) \/ \E j \in DOMAIN c : c[j] = Before(sent, i) + 1
    <3> DEFINE a == Before(sent, i)  k == a + 1 - p
    <3> SUFFICES ASSUME p <= a, ~ (q <= a) PROVE \E j \in DOMAIN c : c[j] = a + 1
      OBVIOUS
    <3>1. a \in Nat
      BY Places
    <3> HIDE DEF a
    <3>2. k \in 1 .. q - p /\ p + k = a + 1
      BY <3>1
    <3>3. n + k \in DOMAIN c /\ c[n + k] = a + 1
      BY <3>2, <1>7
    <3> QED BY <3>3
  <2> QED BY <2>1, <2>2 DEF Accounted
<1>15. c \in Seq(1 .. q) /\ Parser(sent, f, q, l, c, o, x)
  BY <1>4, <1>11, <1>12, <1>13, <1>14 DEF Parser
<1> QED BY <1>15 DEF c

\* Cells lost: their packets are in lost.
LEMMA LossKeeps ==
  ASSUME sent \in Streams, NEW f, f, NEW p \in Nat, NEW q \in Nat, p < q, q <= Size, NEW l,
         NEW b \in Seq(1 .. p), NEW o, NEW x, Position(o) \in DOMAIN sent \cup {0},
         Parser(sent, f, p, l, b, o, x)
  PROVE  /\ b \in Seq(1 .. q)
         /\ Parser(sent, f, q, l \cup {Of(k) : k \in p + 1 .. q}, b, o, x)
<1> DEFINE g == l \cup {Of(k) : k \in p + 1 .. q}
<1>1. b \in Seq(1 .. q)
  <2>1. 1 .. p \subseteq 1 .. q
    OBVIOUS
  <2> QED BY <2>1, SeqMonotonic
<1>2. Buffered(sent, q, b, o)
  <2>1. Position(o) # 0 => Before(sent, Position(o)) + 1 <= q
    <3> SUFFICES ASSUME Position(o) # 0 PROVE Before(sent, Position(o)) + 1 <= q
      OBVIOUS
    <3> DEFINE a == Before(sent, Position(o))
    <3>1. a \in Nat
      BY Places
    <3>2. a + 1 <= p
      BY DEF Parser, Buffered
    <3> HIDE DEF a
    <3>3. a + 1 <= q
      BY <3>1, <3>2
    <3> QED BY <3>3 DEF a
  <2> QED BY <2>1, Zenon DEF Parser, Buffered
<1>3. Lossless(sent, f, q, g, b, o)
  BY Zenon DEF Lossless
<1>4. \A i \in DOMAIN sent \ g : i \in DOMAIN sent \ l
  BY Zenon
<1>5. \A i \in DOMAIN sent : \A d \in Before(sent, i) + 1 .. sent[i].end :
        d \in p + 1 .. q => i \in g
  <2> SUFFICES ASSUME NEW i \in DOMAIN sent, NEW d \in Before(sent, i) + 1 .. sent[i].end,
                      d \in p + 1 .. q
               PROVE  i \in g
    BY Zenon
  <2>1. Of(d) = i
    BY CellOf
  <2> QED BY <2>1, Zenon
<1>6. Together(sent, g, q, b)
  <2> SUFFICES ASSUME NEW i \in DOMAIN sent \ g, NEW j \in DOMAIN b, b[j] = Before(sent, i) + 1,
                      NEW d \in Before(sent, i) + 1 .. sent[i].end, d <= q
               PROVE  j + d - b[j] \in DOMAIN b /\ b[j + d - b[j]] = d
    BY Zenon DEF Together
  <2>1. d \notin p + 1 .. q
    BY <1>5, Zenon
  <2>2. d \in Int
    BY Places
  <2> HIDE DEF g
  <2>3. d <= p
    BY <2>1, <2>2
  <2>4. i \in DOMAIN sent \ l
    BY <1>4, Zenon
  <2> QED BY <2>3, <2>4, Zenon DEF Parser, Together
<1>7. Skipless(sent, q, g, b, o, x)
  <2> SUFFICES ASSUME NEW i \in DOMAIN sent, Accounted(sent, p, l, b, o, x, i)
               PROVE  Accounted(sent, q, g, b, o, x, i)
    BY Zenon DEF Parser, Skipless
  <2>1. p <= Before(sent, i) => q <= Before(sent, i) \/ i \in g
    <3> DEFINE a == Before(sent, i)  e == sent[i].end
    <3>1. a \in Nat /\ e \in Nat /\ a < e
      BY Places
    <3>2. a + 1 \in p + 1 .. q /\ a + 1 \in a + 1 .. e => i \in g
      BY <1>5, Zenon
    <3> HIDE DEF a, e, g
    <3>3. p <= a => q <= a \/ i \in g
      BY <3>1, <3>2
    <3> QED BY <3>3 DEF a
  <2>2. i \in l => i \in g
    BY Zenon
  <2> HIDE DEF g
  <2> QED BY <2>1, <2>2, Zenon DEF Accounted
<1> QED BY <1>1, <1>2, <1>3, <1>6, <1>7, Zenon DEF Parser

\* While nothing has gone wrong, the buffer starts with the packet after the last.
LEMMA NextIsFirst ==
  ASSUME sent \in Streams, NEW f, ~ f, NEW p \in Nat, p <= Size, NEW l,
         NEW b \in Seq(1 .. p), NEW o, NEW x, Position(o) \in DOMAIN sent \cup {0},
         Parser(sent, f, p, l, b, o, x), Len(b) >= 1
  PROVE  /\ Position(o) + 1 \in DOMAIN sent \ l /\ Sound(sent[Position(o) + 1].kind)
         /\ Before(sent, Position(o) + 1) = Done(sent, o)
         /\ b[1] = Before(sent, Position(o) + 1) + 1
<1>1. /\ \A i \in DOMAIN sent : Sound(sent[i].kind)
      /\ l = {} /\ Done(sent, o) <= p /\ Len(b) = p - Done(sent, o)
      /\ \A j \in DOMAIN b : b[j] = Done(sent, o) + j
  BY Zenon DEF Parser, Lossless, Exact
<1>2. 1 \in DOMAIN b /\ Len(b) \in Nat
  BY CellsIn
<1>3. Len(sent) \in Nat \ {0} /\ DOMAIN sent = 1 .. Len(sent)
  BY Places
<1>4. CASE Position(o) = 0
  <2>1. Position(o) + 1 = 1 /\ 1 \in DOMAIN sent
    BY <1>3, <1>4
  <2>2. Before(sent, 1) = 0 /\ Done(sent, o) = 0
    BY <1>4, Places DEF Done
  <2> QED BY <1>1, <1>2, <2>1, <2>2
<1>5. CASE Position(o) # 0
  <2> DEFINE i == Position(o)
  <2>1. i \in DOMAIN sent /\ Done(sent, o) = sent[i].end /\ sent[i].end \in Nat
    BY <1>5, Places DEF Done
  <2>2. i # Len(sent)
    <3> DEFINE d == sent[i].end
    <3>1. p - d >= 1 /\ d \in Nat
      BY <1>1, <2>1
    <3> HIDE DEF d
    <3>2. d # Size
      BY <3>1, CellOf
    <3> QED BY <3>2 DEF d, Size
  <2>3. i + 1 \in 2 .. Len(sent) /\ (i + 1) - 1 = i
    BY <1>3, <2>1, <2>2
  <2>4. Before(sent, i + 1) = sent[i].end
    BY <2>3, Places
  <2>5. i + 1 \in DOMAIN sent
    BY <2>3, <1>3
  <2> QED BY <1>1, <1>2, <2>1, <2>4, <2>5
<1> QED BY <1>4, <1>5

\* After a resynchronization.
LEMMA ResyncKeeps ==
  ASSUME sent \in Streams, NEW f, NEW p \in Nat, p <= Size, NEW l,
         NEW b \in Seq(1 .. p), NEW o, NEW x, Position(o) \in DOMAIN sent \cup {0},
         Parser(sent, f, p, l, b, o, x), TryOne(b) = "resync"
  PROVE  /\ Resync(b) \in Seq(1 .. p)
         /\ Parser(sent, f, p, l, Resync(b), o, x \cup Halves(b))
<1> DEFINE n == Len(b)  c == Resync(b)
<1>1. n \in Nat /\ DOMAIN b = 1 .. n /\ n >= 3
  <2>1. ~ (Len(b) < 3)
    BY Zenon DEF TryOne
  <2> QED BY <2>1, CellsIn
\* What is left starts with the first magic behind the first cell.
<1>2. \E m \in 0 .. n :
         /\ c \in Seq(1 .. p) /\ Len(c) = n - m /\ \A j \in 1 .. n - m : c[j] = b[j + m]
         /\ \A j \in Magics(b) : m < j
  <2>1. CASE Magics(b) = {}
    <3>1. c = <<>> /\ c \in Seq(1 .. p) /\ Len(c) = 0
      BY <2>1, EmptySeq DEF Resync
    <3> HIDE DEF c, n
    <3>2. n \in 0 .. n /\ Len(c) = n - n /\ \A j \in 1 .. n - n : c[j] = b[j + n]
      BY <1>1, <3>1
    <3> QED BY <2>1, <3>1, <3>2
  <2>2. CASE Magics(b) # {}
    <3> DEFINE k == Min(Magics(b))  m == k - 1
    <3>1. Magics(b) \subseteq 2 .. n
      BY DEF Magics
    <3>2. k \in Magics(b) /\ \A y \in Magics(b) : k <= y
      <4>1. Magics(b) \subseteq Nat
        BY <1>1, <3>1
      <4> QED BY <2>2, <4>1, MinIn
    <3>3. c = SubSeq(b, k, n)
      BY <2>2 DEF Resync
    <3> HIDE DEF k, c, n
    <3>4. k \in 2 .. n /\ m \in 0 .. n /\ m + 1 = k
      BY <1>1, <3>1, <3>2
    <3>5. \A j \in Magics(b) : m < j
      BY <1>1, <3>1, <3>2, <3>4
    <3> HIDE DEF m
    <3>6. /\ SubSeq(b, m + 1, n) \in Seq(1 .. p) /\ Len(SubSeq(b, m + 1, n)) = n - m
          /\ \A j \in 1 .. n - m : SubSeq(b, m + 1, n)[j] = b[j + m]
      BY <3>4, Cut DEF n
    <3> QED BY <3>3, <3>4, <3>5, <3>6
  <2> QED BY <2>1, <2>2
<1>3. PICK m \in 0 .. n :
         /\ c \in Seq(1 .. p) /\ Len(c) = n - m /\ \A j \in 1 .. n - m : c[j] = b[j + m]
         /\ \A j \in Magics(b) : m < j
  BY <1>2
<1>4. DOMAIN c = 1 .. n - m
  BY <1>3, LenProperties
<1>5. Increasing(c) /\ Together(sent, l, p, c)
  BY <1>3, BackKeeps DEF Parser, Buffered
<1> HIDE DEF c, n
<1>6. \A j \in DOMAIN c : j + m \in DOMAIN b /\ c[j] = b[j + m]
  BY <1>1, <1>3, <1>4
<1>7. \A j \in DOMAIN b : m < j => j - m \in DOMAIN c /\ c[j - m] = b[j]
  <2> SUFFICES ASSUME NEW j \in DOMAIN b, m < j PROVE j - m \in DOMAIN c /\ c[j - m] = b[j]
    OBVIOUS
  <2>1. j - m \in 1 .. n - m /\ (j - m) + m = j
    BY <1>1
  <2> QED BY <2>1, <1>3, <1>4
<1>8. Buffered(sent, p, c, o)
  BY <1>5, <1>6 DEF Parser, Buffered
<1>9. Lossless(sent, f, p, l, c, o)
  <2> SUFFICES ASSUME ~ f PROVE FALSE
    BY DEF Lossless
  <2> DEFINE i == Position(o) + 1
  <2>1. i \in DOMAIN sent \ l /\ Sound(sent[i].kind) /\ b[1] = Before(sent, i) + 1
    BY <1>1, NextIsFirst DEF n
  <2> HIDE DEF i
  <2>2. Increasing(b) /\ Together(sent, l, p, b) /\ Len(b) >= 3
    BY <1>1 DEF Parser, Buffered, n
  <2>3. TryOne(b) # "resync"
    BY <2>1, <2>2, SoundFirst
  <2> QED BY <2>3
<1>10. Skipless(sent, p, l, c, o, x \cup Halves(b))
  <2> SUFFICES ASSUME NEW i \in DOMAIN sent, Accounted(sent, p, l, b, o, x, i)
               PROVE  Accounted(sent, p, l, c, o, x \cup Halves(b), i)
    BY Zenon DEF Parser, Skipless
  <2>1. ASSUME Sound(sent[i].kind), i \notin l,
               NEW j \in DOMAIN b, b[j] = Before(sent, i) + 1
        PROVE  \/ i \in Halves(b)
               \/ \E k \in DOMAIN c : c[k] = Before(sent, i) + 1
    <3> DEFINE one == 1
    <3>1. one \in 1 .. Length(sent[i].kind) /\ Before(sent, i) + one = b[j]
      <4>1. Length(sent[i].kind) \in Nat \ {0}
        BY Places, Lengths
      <4> QED BY <2>1, <4>1
    <3> HIDE DEF one
    <3>2. Of(b[j]) = i /\ At(b[j]) = one
      BY <3>1, CellFrom
    <3>3. CASE ~ MagicAt(b, j)
      <4>1. j \in {k \in DOMAIN b : At(b[k]) = 1 /\ ~ MagicAt(b, k)}
        BY <2>1, <3>2, <3>3 DEF one
      <4>2. i \in Halves(b)
        BY <3>2, <4>1, Zenon DEF Halves
      <4> QED BY <4>2
    <3>4. CASE MagicAt(b, j) /\ j # 1
      <4>1. j \in Magics(b)
        BY <1>1, <3>4 DEF Magics, n
      <4> QED BY <1>3, <1>7, <2>1, <4>1
    <3>5. CASE j = 1
      <4>1. Increasing(b) /\ Together(sent, l, p, b) /\ Len(b) >= 3
        BY <1>1 DEF Parser, Buffered, n
      <4>2. TryOne(b) # "resync"
        BY <2>1, <3>5, <4>1, SoundFirst
      <4> QED BY <4>2
    <3> QED BY <3>3, <3>4, <3>5
  <2>2. Sound(sent[i].kind) \/ sent[i].kind \in {"broken", "junk"}
    BY DEF Sound
  <2> QED BY <2>1, <2>2, Zenon DEF Accounted
<1> QED BY <1>3, <1>5, <1>8, <1>9, <1>10 DEF Parser, c

\* Packets whose first cells are in order are in order.
LEMMA InOrder ==
  ASSUME sent \in Streams, NEW i \in DOMAIN sent, NEW j \in DOMAIN sent,
         Before(sent, i) < Before(sent, j)
  PROVE  i < j
<1>1. i \in Nat /\ j \in Nat
  BY Places
<1>2. CASE i = j
  BY <1>2, Places
<1>3. CASE j < i
  <2> DEFINE a == Before(sent, i)  b == Before(sent, j)  e == sent[j].end
  <2>1. a \in Nat /\ b \in Nat /\ e \in Nat /\ b < e
    BY Places
  <2>2. e <= a /\ a < b
    BY <1>3, Rising
  <2> HIDE DEF a, b, e
  <2> QED BY <2>1, <2>2
<1> QED BY <1>1, <1>2, <1>3

\* A packet taken from the front of the buffer.
Entry == [of : DOMAIN sent, kind : Kind, adts : BOOLEAN, whole : BOOLEAN]
Whole(b) ==
    SubSeq(b, 1, Total(b)) = Cells(Before(sent, Of(b[1])), sent[Of(b[1])].end)

\* Is this the packet p, as far as the muxer can tell?
Same(q, p) == q.of = p.of /\ q.kind = p.kind /\ q.adts = p.adts
EntryOf(b, e) == e.of = Of(b[1]) /\ (Whole(b) => e.whole)

LEMMA LastOf ==
  ASSUME NEW S, NEW o \in Seq([of : S, kind : Kind, adts : BOOLEAN, whole : BOOLEAN])
  PROVE  /\ o # <<>> => /\ Len(o) \in DOMAIN o /\ Position(o) = o[Len(o)].of
                        /\ Position(o) \in S
         /\ Len(o) \in Nat /\ DOMAIN o = 1 .. Len(o)
         /\ \A j \in DOMAIN o : o[j].of \in S /\ o[j].kind \in Kind /\ o[j].whole \in BOOLEAN
         /\ o = <<>> => DOMAIN o = {} /\ Position(o) = 0
<1>1. Len(o) \in Nat /\ DOMAIN o = 1 .. Len(o)
  BY LenProperties
<1>2. \A j \in DOMAIN o : o[j].of \in S /\ o[j].kind \in Kind /\ o[j].whole \in BOOLEAN
  <2>1. \A j \in DOMAIN o : o[j] \in [of : S, kind : Kind, adts : BOOLEAN, whole : BOOLEAN]
    BY <1>1, ElementOfSeq
  <2> QED BY <2>1
<1>3. o # <<>> => Len(o) \in DOMAIN o
  <2>1. o # <<>> => Len(o) \in Nat \ {0}
    BY EmptySeq
  <2> QED BY <1>1, <2>1
<1>4. o # <<>> => Position(o) = o[Len(o)].of
  BY DEF Position, Last
<1>5. o = <<>> => DOMAIN o = {} /\ Position(o) = 0
  BY <1>1 DEF Position
<1> QED BY <1>1, <1>2, <1>3, <1>4, <1>5

LEMMA TakeKeeps ==
  ASSUME sent \in Streams, garbage \in Nat, passed \in Nat, passed <= Size,
         buf \in Seq(1 .. passed), out \in Seq(Entry),
         Parser(sent, faulty, passed, lost, buf, out, excused), TryOne(buf) = "packet",
         NEW e \in Entry, EntryOf(buf, e)
  PROVE  /\ SubSeq(buf, Total(buf) + 1, Len(buf)) \in Seq(1 .. passed)
         /\ Append(out, e) \in Seq(Entry)
         /\ Position(out) < e.of /\ (~ faulty => e.of = Position(out) + 1)
         /\ ~ faulty => Total(buf) = Length(sent[e.of].kind)
         /\ Parser(sent, faulty, passed, lost, SubSeq(buf, Total(buf) + 1, Len(buf)), Append(out, e),
                   excused \cup Starts(Tail(SubSeq(buf, 1, Total(buf)))))
<1> DEFINE n == Len(buf)  t == Total(buf)  c == SubSeq(buf, t + 1, n)  i == Of(buf[1])
           q == Append(out, e)  y == excused \cup Starts(Tail(SubSeq(buf, 1, t)))  a == Before(sent, i)
<1>1. /\ n >= 3 /\ MagicAt(buf, 1) /\ i \in DOMAIN sent /\ buf[1] = a + 1 /\ t \in 1 .. n
      /\ n \in Nat /\ DOMAIN buf = 1 .. n
  BY FoundPacket, CellsIn
<1>2. /\ c \in Seq(1 .. passed) /\ Len(c) = n - t
      /\ \A j \in 1 .. n - t : c[j] = buf[j + t]
      /\ SubSeq(buf, 1, t) \in Seq(1 .. passed) /\ Len(SubSeq(buf, 1, t)) = t
      /\ \A j \in 1 .. t : SubSeq(buf, 1, t)[j] = buf[j]
  <2>1. t \in 0 .. Len(buf)
    BY <1>1
  <2> HIDE DEF t
  <2> QED BY <2>1, Cut
<1>3. DOMAIN c = 1 .. n - t
  BY <1>2, LenProperties
<1>4. Increasing(c) /\ Together(sent, lost, passed, c)
  <2>1. t \in 0 .. Len(buf)
    BY <1>1
  <2> HIDE DEF t, c
  <2> QED BY <2>1, <1>2, BackKeeps DEF Parser, Buffered
<1>5. /\ q \in Seq(Entry) /\ Len(q) = Len(out) + 1
      /\ \A j \in DOMAIN out : q[j] = out[j] /\ j <= Len(out) /\ j \in Nat /\ 1 <= j
      /\ q[Len(out) + 1] = e /\ DOMAIN q = DOMAIN out \cup {Len(out) + 1} /\ Last(q) = e /\ q # <<>>
  BY Longer, AppendProperties
<1>6. Position(q) = i
  BY <1>5 DEF Position, EntryOf
<1>7. \A j \in 1 .. n : buf[j] \in 1 .. Size /\ buf[j] <= passed /\ buf[j] \in Nat
  BY CellsIn
<1>8. /\ Len(out) \in Nat /\ DOMAIN out = 1 .. Len(out)
      /\ out # <<>> => /\ Len(out) \in DOMAIN out /\ Position(out) = out[Len(out)].of /\ Position(out) \in DOMAIN sent
      /\ out = <<>> => DOMAIN out = {} /\ Position(out) = 0
      /\ \A j \in DOMAIN out : out[j].of \in DOMAIN sent
  BY LastOf DEF Entry
<1>9. i \in Nat \ {0} /\ \A j \in DOMAIN sent : j \in Nat \ {0}
  BY <1>1, Places
<1>10. a \in Nat
  BY <1>1, Places
<1> HIDE DEF n, t, c, i, q, y, a
<1>11. \A j \in DOMAIN c : j + t \in DOMAIN buf /\ c[j] = buf[j + t] /\ j + t > 1
  BY <1>1, <1>2, <1>3
<1>12. \A j \in DOMAIN buf : t < j => j - t \in DOMAIN c /\ c[j - t] = buf[j]
  <2> SUFFICES ASSUME NEW j \in DOMAIN buf, t < j PROVE j - t \in DOMAIN c /\ c[j - t] = buf[j]
    OBVIOUS
  <2>1. j - t \in 1 .. n - t /\ (j - t) + t = j
    BY <1>1
  <2> QED BY <2>1, <1>2, <1>3
\* The packet is behind the last one.
<1>13. Position(out) < i
  <2>1. CASE out = <<>>
    BY <2>1, <1>8, <1>9
  <2>2. CASE out # <<>>
    <3> DEFINE r == Before(sent, Position(out))
    <3>1. Position(out) \in DOMAIN sent /\ Position(out) # 0 /\ r \in Nat
      BY <2>2, <1>8, <1>9, Places
    <3>2. 1 \in DOMAIN buf
      BY <1>1
    <3>3. buf[1] > r + 1
      BY <3>1, <3>2 DEF Parser, Buffered
    <3> HIDE DEF r
    <3>4. r < a
      BY <3>1, <3>3, <1>1, <1>10
    <3>5. Before(sent, Position(out)) < Before(sent, i)
      BY <3>4 DEF r, a
    <3> QED BY <3>1, <3>5, <1>1, InOrder
  <2> QED BY <2>1, <2>2
<1>14. \A j \in DOMAIN out : out[j].of < i
  <2> SUFFICES ASSUME NEW j \in DOMAIN out PROVE out[j].of < i
    OBVIOUS
  <2>1. out # <<>> /\ Len(out) \in DOMAIN out /\ Position(out) = out[Len(out)].of
    BY <1>8
  <2>2. j = Len(out) \/ j < Len(out)
    BY <1>8
  <2>3. j < Len(out) => out[j].of < out[Len(out)].of
    BY <2>1 DEF Parser, Buffered
  <2>4. out[j].of \in Nat /\ out[Len(out)].of \in Nat
    BY <2>1, <1>8, <1>9
  <2> QED BY <2>1, <2>2, <2>3, <2>4, <1>9, <1>13
<1>15. Buffered(sent, passed, c, q)
  <2>1. \A j \in DOMAIN c : c[j] > a + 1
    <3> SUFFICES ASSUME NEW j \in DOMAIN c PROVE c[j] > a + 1
      OBVIOUS
    <3>1. j + t \in DOMAIN buf /\ c[j] = buf[j + t] /\ 1 < j + t /\ 1 \in DOMAIN buf
      BY <1>1, <1>11, <1>3
    <3>2. buf[1] < buf[j + t]
      BY <3>1 DEF Parser, Buffered, Increasing
    <3>3. buf[j + t] \in Nat /\ buf[1] \in Nat
      BY <1>1, <1>7, <3>1
    <3> QED BY <3>1, <3>2, <3>3, <1>1
  <2>2. a + 1 <= passed
    BY <1>1, <1>7
  <2>3. \A j, k \in DOMAIN q : j < k => q[j].of < q[k].of
    <3> SUFFICES ASSUME NEW j \in DOMAIN q, NEW k \in DOMAIN q, j < k
                 PROVE  q[j].of < q[k].of
      OBVIOUS
    <3>1. j \in DOMAIN out
      BY <1>5, <1>8
    <3>2. CASE k \in DOMAIN out
      <4>1. q[j] = out[j] /\ q[k] = out[k]
        BY <1>5, <3>1, <3>2
      <4>2. out[j].of < out[k].of
        BY <3>1, <3>2 DEF Parser, Buffered
      <4> QED BY <4>1, <4>2
    <3>3. CASE k = Len(out) + 1
      <4>1. q[j] = out[j] /\ q[k] = e
        BY <1>5, <3>1, <3>3
      <4>2. e.of = i
        BY DEF EntryOf, i
      <4> QED BY <4>1, <4>2, <3>1, <1>14
    <3> QED BY <3>2, <3>3, <1>5
  <2> QED BY <2>1, <2>2, <2>3, <1>4, <1>6 DEF Buffered, a
\* A sound packet that has lost nothing is taken whole.
<1>16. ASSUME i \notin lost, Sound(sent[i].kind)
       PROVE  t = Length(sent[i].kind) /\ e.whole
  <2>1. i \in DOMAIN sent \ lost /\ Len(buf) >= 3 /\ buf[1] = Before(sent, i) + 1
    BY <1>1, <1>16 DEF n, a
  <2>2. Increasing(buf) /\ Together(sent, lost, passed, buf)
    BY DEF Parser, Buffered
  <2>3. t = Length(sent[i].kind) /\ \A k \in 1 .. t : buf[k] = a + k
    BY <2>1, <2>2, <1>16, SoundFirst DEF t, a
  <2> DEFINE d == sent[i].end  g == Cells(a, d)  s == SubSeq(buf, 1, t)
  <2>4. d \in Nat /\ d = a + t /\ a <= d /\ t \in Nat
    BY <1>1, <1>10, <2>3, Places DEF a
  <2>5. g \in Seq(1 .. d) /\ Len(g) = d - a /\ \A k \in 1 .. d - a : g[k] = a + k
    BY <2>4, <1>10, CellsAre
  <2>6. d <= Size /\ Size \in Nat
    BY <1>1, CellOf
  <2>7. s \in Seq(1 .. passed) /\ Len(s) = t /\ \A k \in 1 .. t : s[k] = buf[k]
    BY <1>2
  <2> HIDE DEF d, g, s
  <2>8. d - a = t
    BY <2>4, <1>10
  <2>9. Len(s) = Len(g) /\ \A k \in 1 .. Len(s) : s[k] = g[k]
    BY <2>3, <2>5, <2>7, <2>8
  <2>10. s \in Seq(Nat) /\ g \in Seq(Nat)
    <3>1. 1 .. passed \subseteq Nat /\ 1 .. d \subseteq Nat
      BY <2>4
    <3> QED BY <3>1, <2>5, <2>7, SeqMonotonic
  <2>11. s = g
    BY <2>9, <2>10, SeqEqual
  <2>12. s = g => e.whole
    BY Zenon DEF EntryOf, Whole, s, g, d, a, t, i
  <2> QED BY <2>3, <2>11, <2>12
<1>17. ~ faulty => /\ i = Position(out) + 1 /\ t = Length(sent[i].kind)
              /\ Lossless(sent, faulty, passed, lost, c, q)
  <2> SUFFICES ASSUME ~ faulty
               PROVE  /\ i = Position(out) + 1 /\ t = Length(sent[i].kind)
                      /\ Lossless(sent, faulty, passed, lost, c, q)
    OBVIOUS
  <2> DEFINE j == Position(out) + 1  d == Done(sent, out)
  <2>1. Position(out) \in DOMAIN sent \cup {0}
    BY <1>8
  <2>2. /\ j \in DOMAIN sent \ lost
        /\ Sound(sent[j].kind)
        /\ Before(sent, j) = d
        /\ buf[1] = Before(sent, j) + 1
    BY <2>1, <1>1, NextIsFirst DEF n
  <2>3. i = j
    <3> DEFINE one == 1
    <3>1. one \in 1 .. Length(sent[j].kind) /\ Before(sent, j) + one = buf[1] /\ j \in DOMAIN sent
      <4>1. Length(sent[j].kind) \in Nat \ {0}
        BY <2>2, Places, Lengths
      <4> QED BY <2>2, <4>1
    <3> HIDE DEF one, j
    <3>2. Of(buf[1]) = j
      BY <3>1, CellFrom
    <3> QED BY <3>2 DEF i
  <2> HIDE DEF j, d
  <2>4. t = Length(sent[i].kind)
    BY <2>2, <2>3, <1>16
  <2>5. /\ \A k \in DOMAIN sent : Sound(sent[k].kind)
        /\ lost = {} /\ d <= passed /\ n = passed - d /\ \A k \in DOMAIN buf : buf[k] = d + k
    BY DEF Parser, Lossless, Exact, n, d
  <2>6. d \in Nat /\ d = a
    BY <2>2, <2>3, <1>10 DEF a
  <2>7. Done(sent, q) = a + t
    <3>1. Position(q) # 0
      BY <1>6, <1>9
    <3>2. sent[i].end = a + t
      BY <1>1, <2>4, Places DEF a
    <3> QED BY <3>1, <3>2, <1>6 DEF Done
  <2>8. a + t <= passed /\ Len(c) = passed - (a + t)
    BY <2>5, <2>6, <1>1, <1>2
  <2>9. ASSUME NEW k \in DOMAIN c PROVE c[k] = a + t + k
    <3>1. c[k] = d + (k + t) /\ k \in Nat /\ t \in Nat
      BY <1>1, <1>3, <1>11, <2>5
    <3> QED BY <3>1, <2>6
  <2>10. Exact(sent, passed, c, q)
    BY <2>7, <2>8, <2>9 DEF Exact
  <2>11. Lossless(sent, faulty, passed, lost, c, q)
    BY <2>5, <2>10 DEF Lossless
  <2> QED BY <2>3, <2>4, <2>11 DEF j
<1>18. Lossless(sent, faulty, passed, lost, c, q)
  BY <1>17 DEF Lossless
\* Nothing is skipped.
<1>19. Skipless(sent, passed, lost, c, q, y)
  <2> SUFFICES ASSUME NEW k \in DOMAIN sent, Accounted(sent, passed, lost, buf, out, excused, k)
               PROVE  Accounted(sent, passed, lost, c, q, y, k)
    BY Zenon DEF Parser, Skipless
  <2>1. (\E j \in DOMAIN out : out[j].of = k /\ out[j].whole) => \E j \in DOMAIN q : q[j].of = k /\ q[j].whole
    BY <1>5
  <2>2. ASSUME Sound(sent[k].kind), k \notin lost,
               NEW j \in DOMAIN buf, buf[j] = Before(sent, k) + 1
        PROVE  \/ k \in y
               \/ \E z \in DOMAIN q : q[z].of = k /\ q[z].whole
               \/ \E z \in DOMAIN c : c[z] = Before(sent, k) + 1
    <3> DEFINE one == 1
    <3>1. one \in 1 .. Length(sent[k].kind) /\ Before(sent, k) + one = buf[j]
      <4>1. Length(sent[k].kind) \in Nat \ {0}
        BY Places, Lengths
      <4> QED BY <2>2, <4>1
    <3> HIDE DEF one
    <3>2. Of(buf[j]) = k /\ At(buf[j]) = one
      BY <3>1, CellFrom
    <3>3. CASE t < j
      BY <1>12, <2>2, <3>3
    <3>4. CASE j = 1
      <4>1. i = k
        BY <3>2, <3>4 DEF i
      <4>2. e.of = k /\ e.whole
        BY <4>1, <1>16, <2>2 DEF EntryOf, i
      <4> QED BY <4>2, <1>5
    <3>5. CASE j # 1 /\ ~ (t < j)
      <4> DEFINE s == SubSeq(buf, 1, t)  m == j - 1
      <4>1. s \in Seq(1 .. passed) /\ Len(s) = t /\ s[j] = buf[j] /\ s # <<>>
        <5>1. j \in 1 .. t
          BY <1>1, <3>5
        <5>2. s \in Seq(1 .. passed) /\ Len(s) = t /\ s[j] = buf[j]
          BY <5>1, <1>2
        <5>3. t # 0 /\ Len(<<>>) = 0
          BY <1>1
        <5> HIDE DEF s
        <5>4. s # <<>>
          BY <5>2, <5>3
        <5> QED BY <5>2, <5>4
      <4>2. /\ Tail(s) \in Seq(1 .. passed) /\ Len(Tail(s)) = t - 1
            /\ \A z \in 1 .. t - 1 : Tail(s)[z] = s[z + 1]
        <5> HIDE DEF s
        <5> QED BY <4>1, HeadTailProperties
      <4>3. m \in 1 .. t - 1 /\ m + 1 = j
        BY <1>1, <3>5
      <4> HIDE DEF s, m
      <4>4. m \in DOMAIN Tail(s) /\ Tail(s)[m] = buf[j]
        BY <4>1, <4>2, <4>3, LenProperties
      <4>5. m \in {z \in DOMAIN Tail(s) : At(Tail(s)[z]) = 1}
        BY <4>4, <3>2 DEF one
      <4>6. k \in Starts(Tail(s))
        BY <4>4, <4>5, <3>2, Zenon DEF Starts
      <4>7. k \in y
        BY <4>6 DEF y, s
      <4> QED BY <4>7
    <3> QED BY <3>3, <3>4, <3>5
  <2>3. k \in excused => k \in y
    BY DEF y
  <2>4. Sound(sent[k].kind) \/ sent[k].kind \in {"broken", "junk"}
    BY DEF Sound
  <2> QED BY <2>1, <2>2, <2>3, <2>4, Zenon DEF Accounted
<1>20. Parser(sent, faulty, passed, lost, c, q, y)
  BY <1>4, <1>15, <1>18, <1>19 DEF Parser
<1>21. e.of = i
  BY DEF EntryOf, i
<1> QED BY <1>2, <1>5, <1>13, <1>17, <1>20, <1>21 DEF c, q, y, t, n

(***************************************************************************)
(* MpegTsMuxer.                                                             *)
(***************************************************************************)

Latest(ch, k) == \A x \in k + 1 .. Len(ch) : ch[x].pid # ch[k].pid

\* What Playable says of the chunks alone, and what the muxer's state has to do with them.
Orderly(ch, cont, apts) ==
    /\ \A k \in DOMAIN ch : (k = 1 <=> ch[k].pid = PAT) /\ (k = 2 <=> ch[k].pid = PMT)
    /\ \A j, k \in DOMAIN ch :
          /\ 2 < j /\ j < k => ch[j].of < ch[k].of
          /\ Follows(ch, j, k) => ch[k].continuity = (ch[j].continuity + ch[j].packets) % 16
          /\ j < k /\ ch[j].pid = AUDIO /\ ch[k].pid = AUDIO => ch[j].pts < ch[k].pts
    /\ \A k \in DOMAIN ch :
          /\ Latest(ch, k) => cont[ch[k].pid] = (ch[k].continuity + ch[k].packets) % 16
          /\ ch[k].pid = AUDIO => ch[k].pts < apts

LEMMA ChunkAt ==
  ASSUME NEW ch \in Seq(TsChunk)
  PROVE  /\ Len(ch) \in Nat /\ DOMAIN ch = 1 .. Len(ch)
         /\ \A k \in DOMAIN ch : /\ k \in Nat /\ ch[k] \in TsChunk /\ ch[k].pid \in Pid /\ ch[k].of \in Nat
                                 /\ ch[k].pts \in Nat
                                 /\ ch[k].continuity \in Nat
                                 /\ ch[k].packets \in Nat
<1>1. Len(ch) \in Nat /\ DOMAIN ch = 1 .. Len(ch)
  BY LenProperties
<1>2. \A k \in DOMAIN ch : ch[k] \in TsChunk
  BY <1>1, ElementOfSeq
<1>3. \A c \in TsChunk : c.pid \in Pid /\ c.of \in Nat /\ c.pts \in Nat /\ c.continuity \in 0 .. 15 /\ c.packets \in Nat
  BY DEF TsChunk
<1>4. \A n \in 0 .. 15 : n \in Nat
  OBVIOUS
<1>5. \A k \in DOMAIN ch : k \in Nat
  BY <1>1
<1> QED BY <1>1, <1>2, <1>3, <1>4, <1>5

LEMMA OrderlyKeeps ==
  ASSUME NEW ch \in Seq(TsChunk), NEW cont \in [Pid -> 0 .. 15], NEW apts \in Nat, NEW a \in Nat, apts <= a,
         Orderly(ch, cont, apts),
         NEW c \in TsChunk, c.continuity = cont[c.pid],
         Len(ch) = 0 <=> c.pid = PAT, Len(ch) = 1 <=> c.pid = PMT,
         Len(ch) >= 2 => \A j \in DOMAIN ch : 2 < j => ch[j].of < c.of,
         c.pid = AUDIO => apts <= c.pts /\ c.pts < a
  PROVE  Orderly(Append(ch, c), [cont EXCEPT ![c.pid] = (@ + c.packets) % 16], a)
<1> DEFINE n == Len(ch)  q == Append(ch, c)  d == [cont EXCEPT ![c.pid] = (@ + c.packets) % 16]
<1>1. /\ n \in Nat /\ DOMAIN ch = 1 .. n
      /\ \A k \in DOMAIN ch : /\ k \in Nat /\ ch[k].pid \in Pid /\ ch[k].of \in Nat /\ ch[k].pts \in Nat
  BY ChunkAt
<1>2. /\ q \in Seq(TsChunk) /\ Len(q) = n + 1 /\ q[n + 1] = c /\ DOMAIN q = 1 .. n \cup {n + 1}
      /\ \A k \in 1 .. n : q[k] = ch[k]
  BY <1>1, Longer
<1>3. c.pid \in Pid /\ c.pts \in Nat
  BY DEF TsChunk
<1>4. /\ d[c.pid] = (c.continuity + c.packets) % 16
      /\ \A pid \in Pid : pid # c.pid => d[pid] = cont[pid]
  BY <1>3
<1> HIDE DEF n, q, d
<1>5. \A k \in DOMAIN q : k \in 1 .. n \/ k = n + 1
  BY <1>2
<1>6. \A j \in 1 .. n : j < n + 1 /\ j \in Nat
  BY <1>1
<1>7. \A k \in DOMAIN q : (k = 1 <=> q[k].pid = PAT) /\ (k = 2 <=> q[k].pid = PMT)
  <2>1. \A k \in 1 .. n : (k = 1 <=> ch[k].pid = PAT) /\ (k = 2 <=> ch[k].pid = PMT)
    BY <1>1, Zenon DEF Orderly
  <2>2. (n + 1 = 1 <=> c.pid = PAT) /\ (n + 1 = 2 <=> c.pid = PMT)
    BY <1>1 DEF n
  <2> QED BY <2>1, <2>2, <1>2, <1>5
<1>8. \A j, k \in DOMAIN q : 2 < j /\ j < k => q[j].of < q[k].of
  <2> SUFFICES ASSUME NEW j \in DOMAIN q, NEW k \in DOMAIN q, 2 < j, j < k PROVE q[j].of < q[k].of
    OBVIOUS
  <2>1. j \in 1 .. n
    BY <1>1, <1>2
  <2>2. CASE k \in 1 .. n
    BY <2>1, <2>2, <1>1, <1>2 DEF Orderly
  <2>3. CASE k = n + 1
    <3>1. n >= 2 /\ j \in DOMAIN ch
      BY <2>1, <1>1
    <3>2. ch[j].of < c.of
      BY <3>1 DEF n
    <3> QED BY <3>2, <2>1, <2>3, <1>2
  <2> QED BY <2>2, <2>3, <1>5
<1>9. \A j \in 1 .. n : \A k \in 1 .. n : Follows(q, j, k) => Follows(ch, j, k)
  <2> SUFFICES ASSUME NEW j \in 1 .. n, NEW k \in 1 .. n, Follows(q, j, k) PROVE Follows(ch, j, k)
    OBVIOUS
  <2>1. \A x \in j + 1 .. k - 1 : x \in 1 .. n
    BY <1>1
  <2> QED BY <2>1, <1>2 DEF Follows
<1>10. \A j \in 1 .. n : Follows(q, j, n + 1) => Latest(ch, j) /\ ch[j].pid = c.pid
  <2> SUFFICES ASSUME NEW j \in 1 .. n, Follows(q, j, n + 1) PROVE Latest(ch, j) /\ ch[j].pid = c.pid
    OBVIOUS
  <2>1. \A x \in j + 1 .. n : x \in 1 .. n /\ x \in j + 1 .. (n + 1) - 1
    BY <1>1
  <2>2. \A x \in j + 1 .. (n + 1) - 1 : q[x].pid # q[j].pid
    BY DEF Follows
  <2>3. \A x \in j + 1 .. n : ch[x].pid # ch[j].pid
    BY <2>1, <2>2, <1>2
  <2>4. ch[j].pid = c.pid
    BY <1>2 DEF Follows
  <2> QED BY <2>3, <2>4 DEF Latest, n
<1>11. \A j, k \in DOMAIN q : Follows(q, j, k) => q[k].continuity = (q[j].continuity + q[j].packets) % 16
  <2> SUFFICES ASSUME NEW j \in DOMAIN q, NEW k \in DOMAIN q, Follows(q, j, k)
               PROVE  q[k].continuity = (q[j].continuity + q[j].packets) % 16
    OBVIOUS
  <2>1. j < k
    BY DEF Follows
  <2>2. j \in 1 .. n
    BY <2>1, <1>1, <1>2
  <2>3. CASE k \in 1 .. n
    <3>1. ch[k].continuity = (ch[j].continuity + ch[j].packets) % 16
      BY <2>2, <2>3, <1>1, <1>9, Zenon DEF Orderly
    <3> QED BY <3>1, <2>2, <2>3, <1>2
  <2>4. CASE k = n + 1
    <3>1. Latest(ch, j) /\ ch[j].pid = c.pid
      BY <2>2, <2>4, <1>10
    <3>2. cont[ch[j].pid] = (ch[j].continuity + ch[j].packets) % 16
      BY <3>1, <2>2, <1>1, Zenon DEF Orderly
    <3> QED BY <3>1, <3>2, <2>2, <2>4, <1>2
  <2> QED BY <2>3, <2>4, <1>5
<1>12. \A j, k \in DOMAIN q : j < k /\ q[j].pid = AUDIO /\ q[k].pid = AUDIO => q[j].pts < q[k].pts
  <2> SUFFICES ASSUME NEW j \in DOMAIN q, NEW k \in DOMAIN q, j < k, q[j].pid = AUDIO, q[k].pid = AUDIO
               PROVE  q[j].pts < q[k].pts
    OBVIOUS
  <2>1. j \in 1 .. n
    BY <1>1, <1>2
  <2>2. CASE k \in 1 .. n
    BY <2>1, <2>2, <1>1, <1>2 DEF Orderly
  <2>3. CASE k = n + 1
    <3>1. ch[j].pts < apts /\ ch[j].pts \in Nat
      BY <2>1, <1>1, <1>2 DEF Orderly
    <3>2. apts <= c.pts
      BY <2>3, <1>2
    <3>3. ch[j].pts < c.pts
      BY <3>1, <3>2, <1>3
    <3> QED BY <3>3, <2>1, <2>3, <1>2
  <2> QED BY <2>2, <2>3, <1>5
<1>13. \A k \in DOMAIN q : Latest(q, k) => d[q[k].pid] = (q[k].continuity + q[k].packets) % 16
  <2> SUFFICES ASSUME NEW k \in DOMAIN q, Latest(q, k)
               PROVE  d[q[k].pid] = (q[k].continuity + q[k].packets) % 16
    OBVIOUS
  <2>1. CASE k = n + 1
    BY <2>1, <1>2, <1>4
  <2>2. CASE k \in 1 .. n
    <3>1. n + 1 \in k + 1 .. n + 1 /\ \A x \in k + 1 .. n : x \in k + 1 .. n + 1 /\ x \in 1 .. n
      BY <2>2, <1>1
    <3>2. \A x \in k + 1 .. n + 1 : q[x].pid # q[k].pid
      BY <1>2 DEF Latest
    <3>3. c.pid # ch[k].pid /\ \A x \in k + 1 .. n : ch[x].pid # ch[k].pid
      BY <2>2, <3>1, <3>2, <1>2
    <3>4. Latest(ch, k)
      BY <3>3 DEF Latest, n
    <3>5. cont[ch[k].pid] = (ch[k].continuity + ch[k].packets) % 16
      BY <2>2, <3>4, <1>1, Zenon DEF Orderly
    <3>6. d[ch[k].pid] = cont[ch[k].pid]
      BY <2>2, <3>3, <1>1, <1>4
    <3> QED BY <2>2, <3>5, <3>6, <1>2
  <2> QED BY <2>1, <2>2, <1>5
<1>14. \A k \in DOMAIN q : q[k].pid = AUDIO => q[k].pts < a
  <2> SUFFICES ASSUME NEW k \in DOMAIN q, q[k].pid = AUDIO PROVE q[k].pts < a
    OBVIOUS
  <2>1. CASE k = n + 1
    BY <2>1, <1>2
  <2>2. CASE k \in 1 .. n
    <3>1. ch[k].pts < apts /\ ch[k].pts \in Nat
      BY <2>2, <1>1, <1>2 DEF Orderly
    <3>2. ch[k].pts < a
      BY <3>1
    <3> QED BY <2>2, <3>2, <1>2
  <2> QED BY <2>1, <2>2, <1>5
<1>15. Orderly(q, d, a)
  BY <1>7, <1>8, <1>11, <1>12, <1>13, <1>14, Zenon DEF Orderly
<1> QED BY <1>15 DEF q, d

\* A payload takes a number of packets, each with a number of bytes.
LEMMA PacketsOf ==
  ASSUME NEW size \in Nat, NEW pcr \in BOOLEAN
  PROVE  /\ Count(size, pcr) \in Nat
         /\ {PacketBytes(Part(size, pcr, i), pcr /\ i = 1) : i \in 1 .. Count(size, pcr)} \in SUBSET Nat
<1>1. Room(pcr) \in Nat /\ Room(pcr) \in {176, 184}
  BY DEF Room
<1>2. Count(size, pcr) \in Nat
  <2> DEFINE r == Room(pcr)
  <2>1. r \in Nat
    BY <1>1
  <2> HIDE DEF r
  <2>2. ~ (size <= r) => (size - r + 183) \div 184 \in Nat
    BY <2>1
  <2>3. Count(size, pcr) = IF size <= r THEN 1 ELSE 1 + (size - r + 183) \div 184
    BY DEF Count, r
  <2> QED BY <2>2, <2>3
<1>3. \A i \in Nat : Part(size, pcr, i) \in Int
  <2> SUFFICES ASSUME NEW i \in Nat PROVE Part(size, pcr, i) \in Int
    OBVIOUS
  <2> DEFINE r == Room(pcr)  b == 184  y == size - r - (i - 2) * 184
  <2>1. r \in Int /\ y \in Int /\ b \in Int
    BY <1>1
  <2> HIDE DEF r, y, b
  <2>2. Min({size, r}) \in Int /\ Min({b, y}) \in Int
    <3> DEFINE s == size
    <3>1. s \in Int
      OBVIOUS
    <3> HIDE DEF s
    <3>2. Min({s, r}) = IF s <= r THEN s ELSE r
      BY <2>1, <3>1, OfTwo
    <3>3. Min({b, y}) = IF b <= y THEN b ELSE y
      BY <2>1, OfTwo
    <3>4. Min({s, r}) \in Int
      BY <2>1, <3>1, <3>2
    <3>5. Min({b, y}) \in Int
      BY <2>1, <3>3
    <3> QED BY <3>4, <3>5 DEF s
  <2>3. Part(size, pcr, i) = IF i = 1 THEN Min({size, r}) ELSE Min({b, y})
    BY DEF Part, r, y, b
  <2> QED BY <2>2, <2>3
<1>4. \A part \in Int : \A q \in BOOLEAN : PacketBytes(part, q) \in Nat
  <2> SUFFICES ASSUME NEW part \in Int, NEW q \in BOOLEAN PROVE PacketBytes(part, q) \in Nat
    OBVIOUS
  <2> DEFINE body == IF q THEN 7 ELSE 1  y == 184 - part - 1 - body  zero == 0
             m == Max({y, zero})  all == 188
  <2>1. y \in Int /\ zero \in Int /\ body \in Int /\ all \in Nat
    OBVIOUS
  <2>2. m \in Int
    <3> HIDE DEF y, zero
    <3> QED BY <2>1, OfTwo
  <2>3. Adaptation(part, q) = IF part = 184 THEN 0 ELSE 1 + body + m
    BY DEF Adaptation
  <2> HIDE DEF body, m
  <2>4. Adaptation(part, q) \in Int
    BY <2>1, <2>2, <2>3
  <2> DEFINE z == 4 + Adaptation(part, q) + part
  <2>5. z \in Int
    BY <2>4
  <2>6. PacketBytes(part, q) = Max({all, z})
    BY DEF PacketBytes
  <2> HIDE DEF z, all
  <2>7. Max({all, z}) = IF all >= z THEN all ELSE z
    BY <2>1, <2>5, OfTwo
  <2> QED BY <2>1, <2>5, <2>6, <2>7
<1>5. \A i \in 1 .. Count(size, pcr) : PacketBytes(Part(size, pcr, i), pcr /\ i = 1) \in Nat
  <2> SUFFICES ASSUME NEW i \in 1 .. Count(size, pcr)
               PROVE  PacketBytes(Part(size, pcr, i), pcr /\ i = 1) \in Nat
    OBVIOUS
  <2>1. Part(size, pcr, i) \in Int
    <3>1. i \in Nat
      BY <1>2
    <3> QED BY <3>1, <1>3
  <2>2. (pcr /\ i = 1) \in BOOLEAN
    BY Zenon
  <2> QED BY <2>1, <2>2, <1>4, Zenon
<1> QED BY <1>2, <1>5, Zenon

\* A chunk that may come next.
Fits(m, pid, of, pts, a) ==
    /\ Orderly(m.chunks, m.continuity, m.audio_pts)
    /\ (Len(m.chunks) = 0) <=> (pid = PAT)
    /\ (Len(m.chunks) = 1) <=> (pid = PMT)
    /\ Len(m.chunks) >= 2 => \A j \in DOMAIN m.chunks : 2 < j => m.chunks[j].of < of
    /\ m.audio_pts <= a
    /\ pid = AUDIO => m.audio_pts <= pts /\ pts < a

\* What _packetize does to the muxer.
LEMMA PacketizeIs ==
  ASSUME NEW m \in Muxer, NEW pid \in Pid, NEW size \in Nat, NEW pcr \in BOOLEAN,
         NEW of \in Nat, NEW pts \in Nat, NEW a \in Nat, Fits(m, pid, of, pts, a)
  PROVE  LET r == Packetize(m, pid, size, pcr, of, pts)
         IN  /\ r \in Muxer
             /\ r.tables_written = m.tables_written /\ r.video_pts = m.video_pts
             /\ r.audio_pts = m.audio_pts
             /\ Orderly(r.chunks, r.continuity, a)
             /\ Len(r.chunks) = Len(m.chunks) + 1
             /\ \A k \in DOMAIN m.chunks : r.chunks[k] = m.chunks[k]
             /\ r.chunks[Len(m.chunks) + 1].pid = pid /\ r.chunks[Len(m.chunks) + 1].of = of
<1> DEFINE n == Count(size, pcr)
           bytes == {PacketBytes(Part(size, pcr, i), pcr /\ i = 1) : i \in 1 .. n}
           c == [pid |-> pid, of |-> of, pts |-> pts, continuity |-> m.continuity[pid],
                 packets |-> n, bytes |-> bytes]
           d == [m.continuity EXCEPT ![pid] = (@ + n) % 16]
           q == Append(m.chunks, c)
           r == Packetize(m, pid, size, pcr, of, pts)
<1>1. n \in Nat /\ bytes \in SUBSET Nat
  BY PacketsOf, Zenon
<1>2. r = [m EXCEPT !.continuity[pid] = (@ + n) % 16, !.chunks = Append(@, c)]
  BY Zenon DEF Packetize
<1> HIDE DEF n, bytes, r
<1>3. /\ m.continuity \in [Pid -> 0 .. 15] /\ m.tables_written \in BOOLEAN
      /\ m.video_pts \in 0 .. Wrap - 1 /\ m.audio_pts \in Nat /\ m.chunks \in Seq(TsChunk)
  BY DEF Muxer
<1>4. c \in TsChunk
  <2>1. m.continuity[pid] \in 0 .. 15
    BY <1>3
  <2> QED BY <2>1, <1>1 DEF TsChunk
<1>5. d \in [Pid -> 0 .. 15]
  <2>1. m.continuity[pid] \in 0 .. 15
    BY <1>3
  <2>2. (m.continuity[pid] + n) % 16 \in 0 .. 15
    <3> DEFINE x == m.continuity[pid]
    <3>1. x \in Nat
      BY <2>1
    <3> HIDE DEF x
    <3>2. (x + n) % 16 \in 0 .. 15
      BY <3>1, <1>1
    <3> QED BY <3>2 DEF x
  <2> QED BY <2>2, <1>3
<1>6. /\ c.pid = pid /\ c.of = of /\ c.pts = pts /\ c.packets = n
      /\ c.continuity = m.continuity[pid]
  OBVIOUS
<1> HIDE DEF c, q, d
<1>7. /\ r.continuity = d /\ r.chunks = q /\ r.tables_written = m.tables_written
      /\ r.video_pts = m.video_pts /\ r.audio_pts = m.audio_pts
      /\ r = [continuity |-> d, tables_written |-> m.tables_written, video_pts |-> m.video_pts,
              audio_pts |-> m.audio_pts, chunks |-> q]
  BY <1>2 DEF Muxer, d, q
<1>8. /\ q \in Seq(TsChunk) /\ Len(q) = Len(m.chunks) + 1 /\ q[Len(m.chunks) + 1] = c
      /\ \A k \in DOMAIN m.chunks : q[k] = m.chunks[k]
  BY <1>3, <1>4, Longer DEF q
<1>9. r \in Muxer
  BY <1>3, <1>5, <1>7, <1>8 DEF Muxer
<1>10. Orderly(q, d, a)
  <2> DEFINE ch == m.chunks  cont == m.continuity  apts == m.audio_pts
  <2>1. /\ ch \in Seq(TsChunk) /\ cont \in [Pid -> 0 .. 15] /\ apts \in Nat /\ apts <= a
        /\ Orderly(ch, cont, apts) /\ c.continuity = cont[c.pid]
        /\ (Len(ch) = 0) <=> (c.pid = PAT)
        /\ (Len(ch) = 1) <=> (c.pid = PMT)
        /\ Len(ch) >= 2 => \A j \in DOMAIN ch : 2 < j => ch[j].of < c.of
        /\ c.pid = AUDIO => apts <= c.pts /\ c.pts < a
    BY <1>3, <1>6 DEF Fits
  <2>2. d = [cont EXCEPT ![c.pid] = (@ + c.packets) % 16]
    BY <1>6 DEF d
  <2> HIDE DEF ch, cont, apts
  <2>3. Orderly(Append(ch, c), [cont EXCEPT ![c.pid] = (@ + c.packets) % 16], a)
    BY <2>1, <1>4, OrderlyKeeps
  <2> QED BY <2>2, <2>3 DEF q, ch
<1>11. r.chunks[Len(m.chunks) + 1].pid = pid /\ r.chunks[Len(m.chunks) + 1].of = of
  BY <1>6, <1>7, <1>8
<1> QED BY <1>7, <1>8, <1>9, <1>10, <1>11 DEF r

MuxOk(m) ==
    /\ Orderly(m.chunks, m.continuity, m.audio_pts)
    /\ m.tables_written => Len(m.chunks) >= 2
    /\ ~ m.tables_written => m.chunks = <<>>

LEMMA MuxerIs ==
  ASSUME NEW m \in Muxer
  PROVE  /\ m.continuity \in [Pid -> 0 .. 15] /\ m.tables_written \in BOOLEAN
         /\ m.video_pts \in Nat /\ m.audio_pts \in Nat
         /\ m.chunks \in Seq(TsChunk)
         /\ Len(m.chunks) \in Nat
         /\ DOMAIN m.chunks = 1 .. Len(m.chunks)
<1>1. /\ m.continuity \in [Pid -> 0 .. 15] /\ m.tables_written \in BOOLEAN
      /\ m.video_pts \in 0 .. Wrap - 1 /\ m.audio_pts \in Nat /\ m.chunks \in Seq(TsChunk)
  BY DEF Muxer
<1>2. Wrap \in Nat
  BY MediaAssumption
<1>3. m.video_pts \in Nat
  BY <1>1, <1>2
<1> QED BY <1>1, <1>3, LenProperties

LEMMA NewMuxerOk == NewMuxer \in Muxer /\ MuxOk(NewMuxer)
<1>1. Wrap \in Nat \ {0}
  BY MediaAssumption
<1>2. 0 \in 0 .. Wrap - 1 /\ 0 \in 0 .. 15
  BY <1>1
<1>3. <<>> \in Seq(TsChunk) /\ Len(<<>>) = 0 /\ DOMAIN <<>> = {}
  BY EmptySeq
<1>4. NewMuxer \in Muxer
  BY <1>2, <1>3 DEF NewMuxer, Muxer
<1>5. NewMuxer.chunks = <<>> /\ NewMuxer.tables_written = FALSE
  BY DEF NewMuxer
<1>6. Orderly(<<>>, NewMuxer.continuity, NewMuxer.audio_pts)
  BY <1>3, Zenon DEF Orderly
<1> QED BY <1>4, <1>5, <1>6 DEF MuxOk

\* The tables are there afterwards, and no packet more.
LEMMA TablesIs ==
  ASSUME NEW m \in Muxer, MuxOk(m)
  PROVE  LET t == Tables(m)
         IN  /\ t \in Muxer /\ MuxOk(t) /\ Len(t.chunks) >= 2 /\ t.tables_written = TRUE
             /\ \A k \in DOMAIN m.chunks : k \in DOMAIN t.chunks /\ t.chunks[k] = m.chunks[k]
             /\ \A k \in DOMAIN t.chunks : 2 < k => k \in DOMAIN m.chunks
<1>1. CASE m.tables_written
  <2>1. Tables(m) = m /\ m.tables_written = TRUE
    BY <1>1, MuxerIs DEF Tables
  <2> QED BY <1>1, <2>1 DEF MuxOk
<1>2. CASE ~ m.tables_written
  <2> DEFINE z == 0  no == FALSE  p == 1 + PatSection  u == Packetize(m, PAT, p, no, z, z)
             s == 1 + PmtSection  v == Packetize(u, PMT, s, no, z, z)
             t == [v EXCEPT !.tables_written = TRUE]
  <2>1. Tables(m) = t
    BY <1>2, Zenon DEF Tables
  <2>2. /\ PAT \in Pid /\ PMT \in Pid /\ PAT # PMT /\ PAT # AUDIO /\ PMT # AUDIO
        /\ no \in BOOLEAN /\ p \in Nat /\ s \in Nat /\ z \in Nat
    BY DEF PAT, PMT, VIDEO, AUDIO, Pid, PatSection, PmtSection
  <2>3. m.chunks = <<>> /\ Len(m.chunks) = 0 /\ DOMAIN m.chunks = {}
    BY <1>2 DEF MuxOk
  <2>4. /\ m.audio_pts \in Nat
        /\ m.audio_pts <= m.audio_pts
        /\ Orderly(m.chunks, m.continuity, m.audio_pts)
    BY MuxerIs DEF MuxOk
  <2> HIDE DEF z, p, s, u, no
  <2>5. /\ u \in Muxer /\ u.audio_pts = m.audio_pts
        /\ Orderly(u.chunks, u.continuity, m.audio_pts) /\ Len(u.chunks) = 1
    <3> DEFINE a == m.audio_pts
    <3>1. a \in Nat /\ Fits(m, PAT, z, z, a)
      BY <2>2, <2>3, <2>4 DEF Fits
    <3> HIDE DEF a
    <3>2. /\ u \in Muxer /\ u.audio_pts = m.audio_pts
          /\ Orderly(u.chunks, u.continuity, a) /\ Len(u.chunks) = Len(m.chunks) + 1
      BY <3>1, <2>2, <2>4, PacketizeIs DEF u
    <3> QED BY <3>2, <2>3 DEF a
  <2> HIDE DEF v
  <2>6. /\ v \in Muxer /\ v.audio_pts = m.audio_pts
        /\ Orderly(v.chunks, v.continuity, m.audio_pts) /\ Len(v.chunks) = 2
    <3> DEFINE a == u.audio_pts
    <3>1. a \in Nat /\ Fits(u, PMT, z, z, a)
      BY <2>2, <2>4, <2>5 DEF Fits
    <3> HIDE DEF a
    <3>3. /\ v \in Muxer /\ v.audio_pts = u.audio_pts
          /\ Orderly(v.chunks, v.continuity, a) /\ Len(v.chunks) = Len(u.chunks) + 1
      <4>1. u \in Muxer /\ PMT \in Pid /\ s \in Nat /\ no \in BOOLEAN /\ z \in Nat
        BY <2>2, <2>5
      <4> QED BY <4>1, <3>1, PacketizeIs DEF v
    <3> QED BY <3>3, <2>5 DEF a
  <2>7. /\ t \in Muxer /\ t.chunks = v.chunks /\ t.continuity = v.continuity
        /\ t.audio_pts = v.audio_pts /\ t.tables_written = TRUE
    BY <2>6 DEF Muxer
  <2> HIDE DEF t
  <2>11. Len(t.chunks) >= 2
    <3>1. Len(t.chunks) = 2
      BY <2>6, <2>7, Zenon
    <3> QED BY <3>1
  <2>8. MuxOk(t)
    <3>1. Orderly(t.chunks, t.continuity, t.audio_pts)
      BY <2>6, <2>7
    <3> QED BY <3>1, <2>11, <2>7 DEF MuxOk
  <2>9. DOMAIN t.chunks = 1 .. 2
    BY <2>6, <2>7, MuxerIs
  <2>10. \A k \in DOMAIN t.chunks : ~ (2 < k)
    BY <2>9
  <2> QED BY <2>1, <2>3, <2>7, <2>8, <2>10, <2>11
<1> QED BY <1>1, <1>2

\* Mux writes a chunk for a frame or audio, behind the tables.
LEMMA MuxIs ==
  ASSUME NEW m \in Muxer, MuxOk(m), NEW packet \in [of : Nat, kind : Kind, adts : BOOLEAN],
         \A k \in DOMAIN m.chunks : 2 < k => m.chunks[k].of < packet.of
  PROVE  LET r == Mux(m, packet)
         IN  /\ r \in Muxer /\ MuxOk(r)
             /\ \A k \in DOMAIN m.chunks : k \in DOMAIN r.chunks /\ r.chunks[k] = m.chunks[k]
             /\ \A k \in DOMAIN r.chunks : 2 < k =>
                   \/ k \in DOMAIN m.chunks
                   \/ /\ Muxable(packet) /\ r.chunks[k].of = packet.of
                      /\ r.chunks[k].pid = PidOf(packet.kind)
             /\ Muxable(packet) => \E k \in DOMAIN r.chunks :
                   r.chunks[k].of = packet.of /\ r.chunks[k].pid = PidOf(packet.kind)
<1> DEFINE t == Tables(m)  r == Mux(m, packet)  of == packet.of  kind == packet.kind
           n == Len(t.chunks)  is == Muxable(packet)
<1>1. /\ t \in Muxer /\ MuxOk(t) /\ n >= 2 /\ t.tables_written = TRUE
      /\ \A k \in DOMAIN m.chunks : k \in DOMAIN t.chunks /\ t.chunks[k] = m.chunks[k]
      /\ \A k \in DOMAIN t.chunks : 2 < k => k \in DOMAIN m.chunks
  BY TablesIs
<1>2. of \in Nat /\ kind \in Kind
  OBVIOUS
<1>3. n \in Nat /\ DOMAIN t.chunks = 1 .. n /\ t.video_pts \in Nat /\ t.audio_pts \in Nat
  BY <1>1, MuxerIs
<1>4. \A j \in DOMAIN t.chunks : 2 < j => t.chunks[j].of < of
  BY <1>1
<1>5. Orderly(t.chunks, t.continuity, t.audio_pts)
  BY <1>1 DEF MuxOk
<1>6. /\ VIDEO \in Pid /\ AUDIO \in Pid /\ VIDEO # AUDIO
      /\ VIDEO \notin {PAT, PMT} /\ AUDIO \notin {PAT, PMT} /\ n # 0 /\ n # 1
  <2>1. n # 0 /\ n # 1
    <3>1. n \in Nat /\ n >= 2
      BY <1>1, <1>3
    <3> HIDE DEF n
    <3> QED BY <3>1
  <2> QED BY <2>1 DEF PAT, PMT, VIDEO, AUDIO, Pid
<1>7. /\ Wrap \in Nat \ {0}
      /\ AacDuration \in Nat \ {0}
      /\ Bytes \in [Media -> Nat \ {0}]
      /\ PesHeader \in Nat
  BY MediaAssumption DEF PesHeader
<1>12. is => kind \in Media
  BY DEF Muxable, Media
<1> HIDE DEF t, r, of, kind, is
\* Any chunk behind the tables.
<1>8. ASSUME NEW u \in Muxer,
             u.tables_written = t.tables_written,
             Orderly(u.chunks, u.continuity, u.audio_pts), Len(u.chunks) = n + 1,
             \A k \in DOMAIN t.chunks : u.chunks[k] = t.chunks[k],
             u.chunks[n + 1].pid = PidOf(kind), u.chunks[n + 1].of = of, r = u
      PROVE  /\ r \in Muxer /\ MuxOk(r)
             /\ \A k \in DOMAIN m.chunks : k \in DOMAIN r.chunks /\ r.chunks[k] = m.chunks[k]
             /\ \A k \in DOMAIN r.chunks : 2 < k =>
                   k \in DOMAIN m.chunks \/ (r.chunks[k].of = of /\ r.chunks[k].pid = PidOf(kind))
             /\ \E k \in DOMAIN r.chunks : r.chunks[k].of = of /\ r.chunks[k].pid = PidOf(kind)
  <2>1. DOMAIN u.chunks = 1 .. n + 1
    BY <1>8, MuxerIs
  <2>2. MuxOk(u)
    <3>1. Len(u.chunks) >= 2 /\ u.tables_written = TRUE
      BY <1>1, <1>3, <1>8
    <3> QED BY <3>1, <1>8 DEF MuxOk
  <2>3. n + 1 \in DOMAIN u.chunks /\ \A k \in 1 .. n + 1 : k \in 1 .. n \/ k = n + 1
    BY <2>1, <1>3
  <2>4. \A k \in 1 .. n : k \in 1 .. n + 1
    BY <1>3
  <2> HIDE DEF n
  <2> QED BY <2>1, <2>2, <2>3, <2>4, <1>1, <1>3, <1>8
<1>9. CASE is /\ kind \in Video
  <2> DEFINE pts == of % Wrap  size == PesHeader + Bytes[kind]  a == t.audio_pts  yes == TRUE
             v == Packetize(t, VIDEO, size, yes, of, pts)  u == [v EXCEPT !.video_pts = pts]
  <2>1. r = u /\ kind \in Media /\ PidOf(kind) = VIDEO
    <3>0. kind # "aac"
      BY <1>9 DEF Video
    <3>1. r = MuxVideo(t, packet)
      BY <3>0, <1>9 DEF Mux, r, t, kind, is
    <3> QED BY <3>1, <1>9 DEF MuxVideo, Media, PidOf, of, kind
  <2>2. pts \in 0 .. Wrap - 1 /\ size \in Nat /\ a \in Nat /\ yes \in BOOLEAN /\ pts \in Nat
    <3>1. Bytes[kind] \in Nat
      BY <1>7, <2>1
    <3>2. of % Wrap \in 0 .. Wrap - 1 /\ of % Wrap \in Nat
      BY <1>2, <1>7
    <3> QED BY <3>1, <3>2, <1>3, <1>7
  <2> HIDE DEF pts, size, v, yes
  <2>3. /\ v \in Muxer
        /\ v.tables_written = t.tables_written /\ v.audio_pts = t.audio_pts
        /\ Orderly(v.chunks, v.continuity, a)
        /\ Len(v.chunks) = n + 1
        /\ \A k \in DOMAIN t.chunks : v.chunks[k] = t.chunks[k]
        /\ v.chunks[n + 1].pid = VIDEO /\ v.chunks[n + 1].of = of
    <3>1. t.audio_pts <= a
      BY <1>3
    <3>2. Fits(t, VIDEO, of, pts, a)
      BY <1>4, <1>5, <1>6, <3>1 DEF Fits
    <3> HIDE DEF a, n
    <3>3. /\ v \in Muxer
          /\ v.tables_written = t.tables_written /\ v.audio_pts = t.audio_pts
          /\ Orderly(v.chunks, v.continuity, a)
          /\ Len(v.chunks) = Len(t.chunks) + 1
          /\ \A k \in DOMAIN t.chunks : v.chunks[k] = t.chunks[k]
          /\ v.chunks[Len(t.chunks) + 1].pid = VIDEO /\ v.chunks[Len(t.chunks) + 1].of = of
      BY <3>2, <2>2, <1>1, <1>2, <1>6, PacketizeIs DEF v
    <3> QED BY <3>3 DEF n
  <2>4. /\ u \in Muxer /\ u.chunks = v.chunks /\ u.continuity = v.continuity
        /\ u.audio_pts = v.audio_pts /\ u.tables_written = v.tables_written
    BY <2>2, <2>3 DEF Muxer
  <2> HIDE DEF u, n
  <2>5. Orderly(u.chunks, u.continuity, u.audio_pts)
    BY <2>3, <2>4
  <2> QED BY <2>1, <2>3, <2>4, <2>5, <1>8, <1>9 DEF r, of, kind, is
<1>10. CASE is /\ kind = "aac"
  <2> DEFINE no == FALSE  x == t.audio_pts  y == t.video_pts  pts == Max({x, y})
             size == PesHeader + Bytes["aac"]  a == pts + AacDuration
             v == Packetize(t, AUDIO, size, no, of, pts)  u == [v EXCEPT !.audio_pts = a]
  <2>1. r = u /\ kind \in Media /\ PidOf(kind) = AUDIO
    <3>1. kind \notin Video
      BY <1>10 DEF Video
    <3>2. r = MuxAudio(t, packet)
      BY <3>1, <1>10 DEF Mux, r, t, kind, is
    <3> QED BY <3>1, <3>2, <1>10 DEF MuxAudio, Media, PidOf, of
  <2>2. size \in Nat /\ no \in BOOLEAN
    <3>1. Bytes["aac"] \in Nat
      BY <1>7 DEF Media
    <3> QED BY <3>1, <1>7
  <2>3. x \in Nat /\ y \in Nat
    BY <1>3
  <2> HIDE DEF x, y
  <2>4. pts = (IF x >= y THEN x ELSE y)
    BY <2>3, OfTwo
  <2> HIDE DEF pts
  <2>5. pts \in Nat /\ x <= pts /\ a \in Nat /\ pts < a /\ x <= a
    BY <2>3, <2>4, <1>7
  <2> HIDE DEF size, v, a, no
  <2>6. /\ v \in Muxer
        /\ v.tables_written = t.tables_written
        /\ Orderly(v.chunks, v.continuity, a)
        /\ Len(v.chunks) = n + 1
        /\ \A k \in DOMAIN t.chunks : v.chunks[k] = t.chunks[k]
        /\ v.chunks[n + 1].pid = AUDIO /\ v.chunks[n + 1].of = of
    <3>1. t.audio_pts <= a
      BY <2>5 DEF x
    <3>2. Fits(t, AUDIO, of, pts, a)
      BY <1>4, <1>5, <1>6, <2>5, <3>1 DEF x, Fits
    <3> HIDE DEF n
    <3>3. /\ v \in Muxer
          /\ v.tables_written = t.tables_written
          /\ Orderly(v.chunks, v.continuity, a)
          /\ Len(v.chunks) = Len(t.chunks) + 1
          /\ \A k \in DOMAIN t.chunks : v.chunks[k] = t.chunks[k]
          /\ v.chunks[Len(t.chunks) + 1].pid = AUDIO /\ v.chunks[Len(t.chunks) + 1].of = of
      BY <3>2, <2>2, <2>5, <1>1, <1>2, <1>6, PacketizeIs DEF v
    <3> QED BY <3>3 DEF n
  <2>7. /\ u \in Muxer /\ u.chunks = v.chunks /\ u.continuity = v.continuity
        /\ u.audio_pts = a /\ u.tables_written = v.tables_written
    BY <2>5, <2>6 DEF Muxer
  <2> HIDE DEF u, n
  <2>8. Orderly(u.chunks, u.continuity, u.audio_pts)
    BY <2>6, <2>7
  <2> QED BY <2>1, <2>6, <2>7, <2>8, <1>8, <1>10 DEF r, of, kind, is
<1>11. CASE ~ is
  <2>1. packet.kind \notin Video
    BY <1>11 DEF is, Muxable
  <2>2. r = t
    BY <1>11, <2>1 DEF Mux, r, t, is
  <2> QED BY <2>2, <1>1, <1>11 DEF r, is
<1>13. is => kind \in Video \/ kind = "aac"
  BY DEF is, kind, Muxable
<1> QED BY <1>9, <1>10, <1>11, <1>13

(***************************************************************************)
(* The steps, as far as the parser is concerned.                            *)
(***************************************************************************)

ParserOk == Parser(sent, faulty, passed, lost, buf, out, excused)

SameParser == passed' = passed /\ lost' = lost /\ buf' = buf /\ out' = out /\ excused' = excused
MorePayload ==
    \E n \in 1 .. Size - passed :
        /\ passed' = passed + n /\ buf' = buf \o Cells(passed, passed + n)
        /\ lost' = lost /\ out' = out /\ excused' = excused
LessPayload ==
    /\ faulty
    /\ \E n \in 1 .. Size - passed :
          /\ passed' = passed + n /\ lost' = lost \cup {Of(k) : k \in passed + 1 .. passed + n}
    /\ buf' = buf /\ out' = out /\ excused' = excused
GivenUp ==
    /\ TryOne(buf) = "resync" /\ buf' = Resync(buf) /\ excused' = excused \cup Halves(buf)
    /\ passed' = passed /\ lost' = lost /\ out' = out
Taken == TryOne(buf) = "packet" /\ Parsed /\ KeepRest /\ passed' = passed /\ lost' = lost

LEMMA ParserSteps ==
  ASSUME [MediaNext]_mediaVars
  PROVE  /\ sent' = sent /\ faulty' = faulty /\ garbage' = garbage /\ consumer' = consumer
         /\ SameParser \/ MorePayload \/ LessPayload \/ GivenUp \/ Taken
<1>1. CASE UNCHANGED mediaVars
  BY <1>1 DEF mediaVars, streamVars, parseVars, ctlVars, SameParser
<1>2. CASE Start
  BY <1>2 DEF Start, streamVars, parseVars, SameParser
<1>3. CASE FeedPayload
  BY <1>3 DEF FeedPayload, Deliver, streamVars, ctlVars, SameParser, MorePayload
<1>4. CASE ParseWait
  BY <1>4 DEF ParseWait, streamVars, parseVars, ctlVars, SameParser
<1>5. CASE ParseResync
  BY <1>5 DEF ParseResync, streamVars, ctlVars, GivenUp
<1>6. CASE Record
  BY <1>6 DEF Record, streamVars, ctlVars, Taken
<1>7. CASE ReadUntilKeyframe
  BY <1>7 DEF ReadUntilKeyframe, streamVars, ctlVars, Taken
<1>8. CASE InitialVideo
  BY <1>8 DEF InitialVideo, streamVars, ctlVars, Taken
<1>9. CASE ProduceFirst
  BY <1>9 DEF ProduceFirst, streamVars, parseVars, ctlVars, SameParser
<1>10. CASE Produce
  BY <1>10 DEF Produce, streamVars, ctlVars, Taken
<1>11. CASE Extract
  BY <1>11 DEF Extract, streamVars, ctlVars, Taken
<1>12. CASE EndOfFile
  BY <1>12 DEF EndOfFile, streamVars, parseVars, SameParser
<1>13. CASE Close
  BY <1>13 DEF Close, streamVars, parseVars, SameParser
<1>14. CASE PayloadsFail
  BY <1>14 DEF PayloadsFail, streamVars, parseVars, SameParser
<1>15. CASE PayloadLost
  BY <1>15 DEF PayloadLost, Deliver, parseVars, ctlVars, LessPayload
<1>16. CASE Stop
  BY <1>16 DEF Stop, streamVars, parseVars, SameParser
<1> QED BY <1>1, <1>2, <1>3, <1>4, <1>5, <1>6, <1>7, <1>8, <1>9, <1>10, <1>11, <1>12, <1>13,
           <1>14, <1>15, <1>16, Zenon DEF MediaNext, Work

\* The types the parser's lemmas need.
StreamType ==
    /\ sent \in Streams /\ faulty \in BOOLEAN /\ garbage \in Garbage
    /\ passed \in 0 .. Size /\ lost \subseteq DOMAIN sent
    /\ buf \in Seq(1 .. passed)
    /\ out \in Seq([of : DOMAIN sent, kind : Kind, adts : BOOLEAN, whole : BOOLEAN])
    /\ excused \subseteq DOMAIN sent

LEMMA StreamTypes ==
  ASSUME StreamType
  PROVE  /\ sent \in Streams /\ garbage \in Nat /\ Size \in Nat /\ passed \in Nat /\ passed <= Size
         /\ buf \in Seq(1 .. passed) /\ out \in Seq(Entry)
         /\ Position(out) \in DOMAIN sent \cup {0}
<1>1. Garbage \subseteq Nat
  BY MediaAssumption
<1>2. Size \in Nat
  BY CellOf DEF StreamType
<1>3. sent \in Streams /\ garbage \in Nat /\ buf \in Seq(1 .. passed) /\ out \in Seq(Entry)
  BY <1>1 DEF StreamType, Entry
<1>4. passed \in Nat /\ passed <= Size
  BY <1>2 DEF StreamType
<1>5. Position(out) \in DOMAIN sent \cup {0}
  BY <1>3, LastOf DEF Entry
<1> QED BY <1>2, <1>3, <1>4, <1>5

\* A packet taken out of the buffer.
LEMMA TakenIs ==
  ASSUME StreamType, ParserOk, Taken
  PROVE  /\ Packet.of \in DOMAIN sent /\ Packet.kind \in Kind
         /\ Packet \in [of : DOMAIN sent, kind : Kind, adts : BOOLEAN]
         /\ \E e \in Entry : /\ Same(e, Packet) /\ out' = Append(out, e)
                             /\ Whole(buf) <=> e.whole
         /\ out' \in Seq(Entry) /\ Position(out') = Packet.of
         /\ Position(out) < Packet.of /\ \A j \in DOMAIN out : out[j].of < Packet.of
         /\ ~ faulty => Packet.of = Position(out) + 1 /\ Packet.kind = sent[Packet.of].kind
         /\ buf' \in Seq(1 .. passed)
         /\ excused' \subseteq DOMAIN sent
         /\ Parser(sent, faulty, passed, lost, buf', out', excused')
<1>1. /\ sent \in Streams /\ garbage \in Nat /\ passed \in Nat /\ passed <= Size
      /\ buf \in Seq(1 .. passed) /\ out \in Seq(Entry)
  BY StreamTypes
<1>2. TryOne(buf) = "packet"
  BY DEF Taken
<1> DEFINE i == Of(buf[1])
           e == [of |-> Packet.of, kind |-> Packet.kind, adts |-> Packet.adts, whole |-> Whole(buf)]
           taken == SubSeq(buf, 1, Total(buf))
<1>3. /\ i \in DOMAIN sent /\ KindOf(buf[1]) \in Kind /\ KindOf(buf[1]) = sent[i].kind
      /\ Total(buf) \in 1 .. Len(buf) /\ Len(buf) \in Nat
  BY <1>1, <1>2, FoundPacket, CellsIn
<1>4. /\ Packet.of = i
      /\ (Packet.kind = IF KindOf(buf[1]) = "broken" THEN "iframe" ELSE KindOf(buf[1]))
  BY DEF Packet
<1>5. "iframe" \in Kind
  BY DEF Kind, Media, Video
<1>6. Packet.of \in DOMAIN sent /\ Packet.kind \in Kind
  BY <1>3, <1>4, <1>5
<1>7. Packet \in [of : DOMAIN sent, kind : Kind, adts : BOOLEAN]
  <2>1. Packet = [of |-> Packet.of, kind |-> Packet.kind, adts |-> Packet.adts]
    BY DEF Packet
  <2>2. Packet.adts \in BOOLEAN
    <3>1. LooksLikeAdts(buf) \in BOOLEAN
      BY Zenon DEF LooksLikeAdts
    <3> QED BY <3>1 DEF Packet
  <2> QED BY <2>1, <2>2, <1>6
<1>8. /\ out' = Append(out, e) /\ excused' = excused \cup Starts(Tail(taken))
      /\ buf' = SubSeq(buf, Total(buf) + 1, Len(buf))
  BY <1>4 DEF Taken, Parsed, KeepRest, Whole
<1>9. e \in Entry /\ e.of = i /\ e.of = Packet.of /\ Same(e, Packet)
      /\ (Whole(buf) <=> e.whole)
  <2>1. Whole(buf) \in BOOLEAN
    BY Zenon DEF Whole
  <2>2. \A v, w \in BOOLEAN, x \in DOMAIN sent, k \in Kind :
          [of |-> x, kind |-> k, adts |-> v, whole |-> w] \in Entry
    BY DEF Entry
  <2>3. e \in Entry
    <3>1. Packet.adts \in BOOLEAN
      BY <1>7
    <3> QED BY <3>1, <1>6, <2>1, <2>2, Zenon
  <2>4. Whole(buf) <=> e.whole
    BY Zenon
  <2> QED BY <2>3, <2>4, <1>4 DEF Same
<1> HIDE DEF e, taken
<1>18. EntryOf(buf, e)
  BY <1>9, Zenon DEF EntryOf
<1>10. /\ SubSeq(buf, Total(buf) + 1, Len(buf)) \in Seq(1 .. passed)
       /\ Append(out, e) \in Seq(Entry)
       /\ Position(out) < e.of /\ (~ faulty => e.of = Position(out) + 1)
       /\ Parser(sent, faulty, passed, lost, SubSeq(buf, Total(buf) + 1, Len(buf)), Append(out, e),
                 excused \cup Starts(Tail(SubSeq(buf, 1, Total(buf)))))
  <2>1. /\ sent \in Streams /\ garbage \in Nat /\ passed \in Nat /\ passed <= Size
        /\ buf \in Seq(1 .. passed) /\ out \in Seq(Entry) /\ e \in Entry
        /\ Parser(sent, faulty, passed, lost, buf, out, excused)
        /\ TryOne(buf) = "packet" /\ EntryOf(buf, e)
    BY <1>1, <1>2, <1>9, <1>18 DEF ParserOk
  <2> QED BY <2>1, TakeKeeps, Zenon
<1>11. Parser(sent, faulty, passed, lost, buf', out', excused')
  BY <1>8, <1>10 DEF taken
<1>12. Position(out') = Packet.of /\ Len(out') = Len(out) + 1
  BY <1>1, <1>8, <1>9, Longer, AppendProperties DEF Position
<1>13. \A j \in DOMAIN out : out[j].of < Packet.of
  <2> SUFFICES ASSUME NEW j \in DOMAIN out PROVE out[j].of < Packet.of
    OBVIOUS
  <2> DEFINE n == Len(out) + 1
  <2>1. /\ Len(out) \in Nat
        /\ j \in DOMAIN out'
        /\ out'[j] = out[j]
        /\ n \in DOMAIN out'
        /\ out'[n] = e
        /\ j <= Len(out) /\ j \in Nat
    BY <1>1, <1>8, <1>9, Longer, LenProperties
  <2>2. j < n
    BY <2>1
  <2> HIDE DEF n
  <2>3. out'[j].of < out'[n].of
    BY <2>1, <2>2, <1>11, Zenon DEF Parser, Buffered
  <2> QED BY <2>1, <2>3, <1>9
<1>14. ~ faulty => Packet.kind = sent[Packet.of].kind
  <2> SUFFICES ASSUME ~ faulty PROVE Packet.kind = sent[Packet.of].kind
    OBVIOUS
  <2>1. Sound(sent[i].kind)
    BY <1>3 DEF ParserOk, Parser, Lossless
  <2> QED BY <2>1, <1>3, <1>4 DEF Sound
<1>15. excused' \subseteq DOMAIN sent
  <2>1. taken \in Seq(1 .. passed) /\ taken # <<>>
    <3>1. Total(buf) \in 0 .. Len(buf) /\ Total(buf) # 0
      BY <1>3
    <3>2. taken \in Seq(1 .. passed) /\ Len(taken) = Total(buf)
      BY <1>1, <3>1, Cut DEF taken
    <3>3. Len(<<>>) = 0
      OBVIOUS
    <3> QED BY <3>1, <3>2, <3>3
  <2>2. Tail(taken) \in Seq(1 .. passed)
    BY <2>1, HeadTailProperties
  <2>3. \A j \in DOMAIN Tail(taken) : Tail(taken)[j] \in 1 .. Size
    BY <1>1, <2>2, CellsIn
  <2>4. \A j \in DOMAIN Tail(taken) : Of(Tail(taken)[j]) \in DOMAIN sent
    BY <1>1, <2>3, CellAt
  <2>5. Starts(Tail(taken)) \subseteq DOMAIN sent
    BY <2>4, Zenon DEF Starts
  <2> QED BY <2>5, <1>8 DEF StreamType
<1>16. buf' \in Seq(1 .. passed) /\ out' \in Seq(Entry)
  BY <1>8, <1>10
<1>17. Position(out) < Packet.of /\ (~ faulty => Packet.of = Position(out) + 1)
  BY <1>9, <1>10
<1> QED BY <1>6, <1>7, <1>8, <1>9, <1>11, <1>12, <1>13, <1>14, <1>15, <1>16, <1>17

\* The parser's invariant is one.
LEMMA ParserStep ==
  ASSUME StreamType, ParserOk, [MediaNext]_mediaVars
  PROVE  StreamType' /\ ParserOk'
<1>1. /\ sent' = sent /\ faulty' = faulty /\ garbage' = garbage
      /\ SameParser \/ MorePayload \/ LessPayload \/ GivenUp \/ Taken
  BY ParserSteps
<1>2. /\ sent \in Streams /\ garbage \in Nat /\ Size \in Nat /\ passed \in Nat /\ passed <= Size
      /\ buf \in Seq(1 .. passed) /\ out \in Seq(Entry)
      /\ Position(out) \in DOMAIN sent \cup {0}
  BY StreamTypes
<1>3. /\ faulty \in BOOLEAN /\ garbage \in Garbage /\ lost \subseteq DOMAIN sent
      /\ excused \subseteq DOMAIN sent
  BY DEF StreamType
<1>4. Size' = Size
  BY <1>1 DEF Size
<1>5. SUFFICES /\ passed' \in 0 .. Size /\ lost' \subseteq DOMAIN sent
               /\ buf' \in Seq(1 .. passed')
               /\ out' \in Seq(Entry)
               /\ excused' \subseteq DOMAIN sent
               /\ Parser(sent, faulty, passed', lost', buf', out', excused')
  BY <1>1, <1>2, <1>3, <1>4 DEF StreamType, ParserOk, Entry
<1>6. CASE SameParser
  BY <1>2, <1>3, <1>6 DEF SameParser, ParserOk
<1>7. CASE MorePayload
  <2>1. PICK n \in 1 .. Size - passed :
          /\ passed' = passed + n /\ buf' = buf \o Cells(passed, passed + n)
          /\ lost' = lost /\ out' = out /\ excused' = excused
    BY <1>7 DEF MorePayload
  <2> DEFINE q == passed + n
  <2>2. q \in Nat /\ passed < q /\ q <= Size /\ q \in 0 .. Size
    BY <1>2
  <2> HIDE DEF q
  <2>3. /\ buf \o Cells(passed, q) \in Seq(1 .. q)
        /\ Parser(sent, faulty, q, lost, buf \o Cells(passed, q), out, excused)
    BY <1>2, <2>2, PayloadKeeps DEF ParserOk
  <2> QED BY <2>1, <2>2, <2>3, <1>2, <1>3 DEF q
<1>8. CASE LessPayload
  <2>1. PICK n \in 1 .. Size - passed :
          /\ passed' = passed + n /\ lost' = lost \cup {Of(k) : k \in passed + 1 .. passed + n}
    BY <1>8 DEF LessPayload
  <2> DEFINE q == passed + n
  <2>2. q \in Nat /\ passed < q /\ q <= Size /\ q \in 0 .. Size
    BY <1>2
  <2>3. faulty /\ buf' = buf /\ out' = out /\ excused' = excused
    BY <1>8 DEF LessPayload
  <2>4. \A k \in passed + 1 .. q : Of(k) \in DOMAIN sent
    <3>1. \A k \in passed + 1 .. q : k \in 1 .. Size
      BY <1>2, <2>2
    <3> QED BY <3>1, <1>2, CellAt
  <2> HIDE DEF q
  <2>5. /\ buf \in Seq(1 .. q)
        /\ Parser(sent, faulty, q, lost \cup {Of(k) : k \in passed + 1 .. q}, buf, out, excused)
    BY <1>2, <2>2, <2>3, LossKeeps DEF ParserOk
  <2>6. lost' = lost \cup {Of(k) : k \in passed + 1 .. q} /\ passed' = q
    BY <2>1 DEF q
  <2>7. lost' \subseteq DOMAIN sent
    BY <2>4, <2>6, <1>3, Zenon
  <2> QED BY <2>2, <2>3, <2>5, <2>6, <2>7, <1>2, <1>3
<1>9. CASE GivenUp
  <2>1. /\ Resync(buf) \in Seq(1 .. passed)
        /\ Parser(sent, faulty, passed, lost, Resync(buf), out, excused \cup Halves(buf))
    BY <1>2, <1>9, ResyncKeeps DEF ParserOk, GivenUp
  <2>2. \A j \in DOMAIN buf : Of(buf[j]) \in DOMAIN sent
    BY <1>2, CellsIn, CellAt
  <2>3. Halves(buf) \subseteq DOMAIN sent
    BY <2>2, Zenon DEF Halves
  <2> QED BY <1>2, <1>3, <1>9, <2>1, <2>3 DEF GivenUp, StreamType
<1>10. CASE Taken
  <2>1. /\ out' \in Seq(Entry) /\ buf' \in Seq(1 .. passed)
        /\ excused' \subseteq DOMAIN sent
        /\ Parser(sent, faulty, passed, lost, buf', out', excused')
    BY <1>10, TakenIs
  <2>2. passed' = passed /\ lost' = lost
    BY <1>10 DEF Taken
  <2> QED BY <2>1, <2>2, <1>3 DEF StreamType
<1> QED BY <1>1, <1>6, <1>7, <1>8, <1>9, <1>10

(***************************************************************************)
(* What has been parsed, what waits in first, and what has been muxed.      *)
(***************************************************************************)

KeyedIn(o, of) == \E j \in DOMAIN o : o[j].kind = "iframe" /\ o[j].of <= of
MuxedIn(ch, p) == \E k \in DOMAIN ch : ch[k].of = p.of /\ ch[k].pid = PidOf(p.kind)
Among(fi, p) == \E k \in DOMAIN fi : Same(fi[k], p)
Comes(c, p) == c.of = p.of /\ Muxable(p) /\ c.pid = PidOf(p.kind)

\* The packets kept back: in order, parsed, and no frame without a keyframe.
Firsts(fi, o, co) ==
    /\ \A j, k \in DOMAIN fi : j < k => fi[j].of < fi[k].of
    /\ \A j \in DOMAIN fi : Among(o, fi[j])
    /\ co = "viewer" => \A j \in DOMAIN fi : fi[j].kind \in Video => KeyedIn(o, fi[j].of)

\* The chunks: parsed, keyed, before what is kept back, and all that has been parsed.
Chunked(ch, fi, o, co) ==
    /\ \A k \in DOMAIN ch : 2 < k => \E j \in DOMAIN o : Comes(ch[k], o[j])
    /\ \A k \in DOMAIN ch : ch[k].pid = VIDEO => KeyedIn(o, ch[k].of)
    /\ co = "viewer" => \A k \in DOMAIN ch : \A j \in DOMAIN fi : 2 < k => ch[k].of < fi[j].of
    /\ co # "converter" => \A j \in DOMAIN o :
          Muxable(o[j]) /\ KeyedIn(o, o[j].of) => MuxedIn(ch, o[j]) \/ Among(fi, o[j])

\* A packet more.
Grows(o, q, p) ==
    /\ \A j \in DOMAIN o : j \in DOMAIN q /\ q[j] = o[j] /\ o[j].of < p.of
    /\ \E n \in DOMAIN q : Same(q[n], p)
    /\ \A n \in DOMAIN q : n \in DOMAIN o \/ Same(q[n], p)

MuxGrows(ch, dh, p) ==
    /\ \A k \in DOMAIN ch : k \in DOMAIN dh /\ dh[k] = ch[k]
    /\ \A k \in DOMAIN dh : 2 < k => k \in DOMAIN ch \/ Comes(dh[k], p)
    /\ Muxable(p) => MuxedIn(dh, p)

Taking == [of : Nat, kind : Kind, adts : BOOLEAN]
Parsing == [of : Nat, kind : Kind, adts : BOOLEAN, whole : BOOLEAN]

LEMMA OfPacket ==
  /\ \A p \in Taking : p.of \in Nat /\ p.kind \in Kind
  /\ \A p \in Parsing : p.of \in Nat /\ p.kind \in Kind
  BY DEF Taking, Parsing

LEMMA OfSeq ==
  /\ \A fi \in Seq(Taking) : \A j \in DOMAIN fi : fi[j].of \in Nat
  /\ \A o \in Seq(Parsing) : \A j \in DOMAIN o : o[j].of \in Nat
<1>1. ASSUME NEW fi \in Seq(Taking), NEW j \in DOMAIN fi PROVE fi[j].of \in Nat
  <2>1. fi[j] \in Taking
    BY LenProperties, ElementOfSeq
  <2> QED BY <2>1, OfPacket
<1>2. ASSUME NEW o \in Seq(Parsing), NEW j \in DOMAIN o PROVE o[j].of \in Nat
  <2>1. o[j] \in Parsing
    BY LenProperties, ElementOfSeq
  <2> QED BY <2>1, OfPacket
<1> QED BY <1>1, <1>2

LEMMA KeyedGrows ==
  ASSUME NEW o \in Seq(Parsing), NEW q, NEW p \in Taking, Grows(o, q, p)
  PROVE  /\ \A of \in Nat : KeyedIn(o, of) => KeyedIn(q, of)
         /\ \A of \in Nat : of < p.of /\ KeyedIn(q, of) => KeyedIn(o, of)
         /\ p.kind = "iframe" => KeyedIn(q, p.of)
         /\ (\E j \in DOMAIN o : o[j].kind = "iframe") => KeyedIn(q, p.of)
<1>1. p.of \in Nat /\ \A j \in DOMAIN o : o[j].of \in Nat
  BY OfPacket, OfSeq
<1>2. /\ \A j \in DOMAIN o : j \in DOMAIN q /\ q[j] = o[j] /\ o[j].of < p.of
      /\ \E n \in DOMAIN q : q[n].of = p.of /\ q[n].kind = p.kind
      /\ \A n \in DOMAIN q : n \in DOMAIN o \/ (q[n].of = p.of /\ q[n].kind = p.kind)
  BY Zenon DEF Grows, Same
<1>3. \A of \in Nat : KeyedIn(o, of) => KeyedIn(q, of)
  BY <1>2, Zenon DEF KeyedIn
<1>4. ASSUME NEW of \in Nat, of < p.of, KeyedIn(q, of) PROVE KeyedIn(o, of)
  <2>1. PICK j \in DOMAIN q : q[j].kind = "iframe" /\ q[j].of <= of
    BY <1>4 DEF KeyedIn
  <2>2. q[j].of # p.of
    BY <2>1, <1>1, <1>4
  <2>3. j \in DOMAIN o /\ q[j] = o[j]
    BY <2>2, <1>2
  <2> QED BY <2>1, <2>3, Zenon DEF KeyedIn
<1>5. p.of <= p.of /\ \A j \in DOMAIN o : o[j].of <= p.of
  BY <1>1, <1>2
<1>6. p.kind = "iframe" => KeyedIn(q, p.of)
  BY <1>2, <1>5, Zenon DEF KeyedIn
<1>7. (\E j \in DOMAIN o : o[j].kind = "iframe") => KeyedIn(q, p.of)
  BY <1>2, <1>5, Zenon DEF KeyedIn
<1> QED BY <1>3, <1>4, <1>6, <1>7

\* Of the packets among these, and of their chunks, a packet more does not take any away.
LEMMA AmongGrows ==
  ASSUME NEW o, NEW q, NEW p, Grows(o, q, p)
  PROVE  /\ \A r : Among(o, r) => Among(q, r)
         /\ \A c : (\E j \in DOMAIN o : Comes(c, o[j])) => \E j \in DOMAIN q : Comes(c, q[j])
         /\ Among(q, p) /\ \A c : Comes(c, p) => \E j \in DOMAIN q : Comes(c, q[j])
<1>1. \A r : Among(o, r) => Among(q, r)
  BY Zenon DEF Among, Grows
<1>2. \A c : (\E j \in DOMAIN o : Comes(c, o[j])) => \E j \in DOMAIN q : Comes(c, q[j])
  BY Zenon DEF Grows
<1>3. Among(q, p)
  BY Zenon DEF Among, Grows
<1>4. \A c : Comes(c, p) => \E j \in DOMAIN q : Comes(c, q[j])
  <2> SUFFICES ASSUME NEW c, Comes(c, p) PROVE \E j \in DOMAIN q : Comes(c, q[j])
    OBVIOUS
  <2>1. PICK n \in DOMAIN q : Same(q[n], p)
    BY Zenon DEF Grows
  <2>2. Comes(c, q[n])
    BY <2>1 DEF Comes, Same, Muxable
  <2> QED BY <2>2
<1> QED BY <1>1, <1>2, <1>3, <1>4

LEMMA MuxedGrows ==
  ASSUME NEW ch, NEW dh, NEW p, MuxGrows(ch, dh, p)
  PROVE  \A r : MuxedIn(ch, r) => MuxedIn(dh, r)
  BY Zenon DEF MuxedIn, MuxGrows

\* A packet that is parsed and muxed at once.
LEMMA ChunkedMuxed ==
  ASSUME NEW o \in Seq(Parsing), NEW q, NEW p \in Taking, Grows(o, q, p),
         NEW ch, NEW dh \in Seq(TsChunk), MuxGrows(ch, dh, p), NEW co, NEW fi, fi = <<>>,
         NEW cont, NEW apts, Orderly(dh, cont, apts),
         Chunked(ch, fi, o, co), p.kind \in Video => KeyedIn(q, p.of)
  PROVE  Chunked(dh, fi, q, co)
<1>1. p.of \in Nat /\ \A j \in DOMAIN o : o[j].of \in Nat
  BY OfPacket, OfSeq
<1>2. /\ \A k \in DOMAIN ch : k \in DOMAIN dh /\ dh[k] = ch[k]
      /\ \A k \in DOMAIN dh : 2 < k => k \in DOMAIN ch \/ Comes(dh[k], p)
      /\ Muxable(p) => MuxedIn(dh, p)
  BY Zenon DEF MuxGrows
<1>3. DOMAIN fi = {}
  OBVIOUS
<1>4. \A k \in DOMAIN dh : 2 < k => \E j \in DOMAIN q : Comes(dh[k], q[j])
  <2> SUFFICES ASSUME NEW k \in DOMAIN dh, 2 < k PROVE \E j \in DOMAIN q : Comes(dh[k], q[j])
    OBVIOUS
  <2>1. CASE k \in DOMAIN ch
    <3>1. \E j \in DOMAIN o : Comes(dh[k], o[j])
      BY <2>1, <1>2 DEF Chunked
    <3> QED BY <3>1, AmongGrows, Zenon
  <2>2. CASE Comes(dh[k], p)
    BY <2>2, AmongGrows, Zenon
  <2> QED BY <2>1, <2>2, <1>2
<1>5. \A k \in DOMAIN dh : dh[k].pid = VIDEO => KeyedIn(q, dh[k].of)
  <2> SUFFICES ASSUME NEW k \in DOMAIN dh, dh[k].pid = VIDEO PROVE KeyedIn(q, dh[k].of)
    OBVIOUS
  <2>1. k \in Nat /\ dh[k].of \in Nat /\ k >= 1
    BY ChunkAt
  <2>2. k # 1 /\ k # 2
    BY DEF Orderly, PAT, PMT, VIDEO
  <2>3. 2 < k
    BY <2>1, <2>2
  <2>4. CASE k \in DOMAIN ch
    <3>1. KeyedIn(o, dh[k].of)
      BY <2>4, <1>2 DEF Chunked
    <3> QED BY <3>1, <2>1, KeyedGrows
  <2>5. CASE Comes(dh[k], p)
    <3>1. p.kind \in Video
      BY <2>5 DEF Comes, PidOf, VIDEO, AUDIO
    <3> QED BY <3>1, <2>5 DEF Comes
  <2> QED BY <2>3, <2>4, <2>5, <1>2
<1>6. ASSUME co # "converter", NEW j \in DOMAIN q, Muxable(q[j]), KeyedIn(q, q[j].of)
      PROVE  MuxedIn(dh, q[j])
  <2>1. CASE j \in DOMAIN o
    <3>1. q[j] = o[j] /\ o[j].of < p.of /\ o[j].of \in Nat
      BY <2>1, <1>1 DEF Grows
    <3>2. KeyedIn(o, o[j].of)
      BY <3>1, <1>6, KeyedGrows
    <3>3. MuxedIn(ch, o[j]) \/ Among(fi, o[j])
      BY <3>1, <3>2, <2>1, <1>6 DEF Chunked
    <3>4. ~ Among(fi, o[j])
      BY <1>3 DEF Among
    <3> QED BY <3>1, <3>3, <3>4, MuxedGrows
  <2>2. CASE j \notin DOMAIN o
    <3>1. Same(q[j], p)
      BY <2>2, Zenon DEF Grows
    <3>2. MuxedIn(dh, p)
      BY <3>1, <1>2, <1>6 DEF Same, Muxable
    <3> QED BY <3>1, <3>2 DEF MuxedIn, Same
  <2> QED BY <2>1, <2>2
<1>7. \A k \in DOMAIN dh : \A j \in DOMAIN fi : 2 < k => dh[k].of < fi[j].of
  BY <1>3
<1> QED BY <1>4, <1>5, <1>6, <1>7, Zenon DEF Chunked

\* A packet that is parsed, and kept back unless it is a frame without a keyframe.
LEMMA ChunkedKept ==
  ASSUME NEW o \in Seq(Parsing), NEW q, NEW p \in Taking, Grows(o, q, p),
         NEW ch \in Seq(TsChunk), NEW co, NEW fi \in Seq(Taking), NEW fj,
         \/ fj = Append(fi, p)
         \/ fj = fi /\ (co # "converter" /\ Muxable(p) => ~ KeyedIn(q, p.of)),
         Chunked(ch, fi, o, co)
  PROVE  Chunked(ch, fj, q, co)
<1>1. p.of \in Nat /\ \A j \in DOMAIN o : o[j].of \in Nat
  BY OfPacket, OfSeq
<1>2. /\ \A j \in DOMAIN fi : j \in DOMAIN fj /\ fj[j] = fi[j]
      /\ \A j \in DOMAIN fj : j \in DOMAIN fi \/ fj[j] = p
      /\ fj # fi => Among(fj, p)
  <2>1. CASE fj = fi
    BY <2>1
  <2>2. CASE fj = Append(fi, p)
    <3>1. /\ \A j \in DOMAIN fi : fj[j] = fi[j]
          /\ DOMAIN fj = DOMAIN fi \cup {Len(fi) + 1} /\ fj[Len(fi) + 1] = p
      BY <2>2, Longer
    <3> QED BY <3>1, Zenon DEF Among, Same
  <2> QED BY <2>1, <2>2
<1>3. \A k \in DOMAIN ch : 2 < k => \E j \in DOMAIN q : Comes(ch[k], q[j])
  BY AmongGrows, Zenon DEF Chunked
<1>4. \A k \in DOMAIN ch : ch[k].of \in Nat
  BY ChunkAt
<1>5. \A k \in DOMAIN ch : ch[k].pid = VIDEO => KeyedIn(q, ch[k].of)
  BY <1>4, KeyedGrows, Zenon DEF Chunked
<1>6. ASSUME co = "viewer", NEW k \in DOMAIN ch, NEW j \in DOMAIN fj, 2 < k
      PROVE  ch[k].of < fj[j].of
  <2>1. CASE j \in DOMAIN fi
    BY <2>1, <1>2, <1>6 DEF Chunked
  <2>2. CASE fj[j] = p
    <3>1. PICK i \in DOMAIN o : Comes(ch[k], o[i])
      BY <1>6 DEF Chunked
    <3>2. ch[k].of = o[i].of /\ o[i].of < p.of
      BY <3>1 DEF Comes, Grows
    <3> QED BY <2>2, <3>2
  <2> QED BY <2>1, <2>2, <1>2
<1>7. ASSUME co # "converter", NEW j \in DOMAIN q, Muxable(q[j]), KeyedIn(q, q[j].of)
      PROVE  MuxedIn(ch, q[j]) \/ Among(fj, q[j])
  <2>1. CASE j \in DOMAIN o
    <3>1. q[j] = o[j] /\ o[j].of < p.of /\ o[j].of \in Nat
      BY <2>1, <1>1 DEF Grows
    <3>2. KeyedIn(o, o[j].of)
      BY <3>1, <1>7, KeyedGrows
    <3>3. MuxedIn(ch, o[j]) \/ Among(fi, o[j])
      BY <3>1, <3>2, <2>1, <1>7 DEF Chunked
    <3>4. Among(fi, o[j]) => Among(fj, o[j])
      BY <1>2, Zenon DEF Among
    <3> QED BY <3>1, <3>3, <3>4
  <2>2. CASE j \notin DOMAIN o
    <3>1. Same(q[j], p)
      BY <2>2, Zenon DEF Grows
    <3>2. KeyedIn(q, p.of) /\ Muxable(p)
      BY <3>1, <1>7 DEF Same, Muxable
    <3>3. Among(fj, p)
      <4>1. CASE fj = Append(fi, p)
        <5>1. DOMAIN fj = DOMAIN fi \cup {Len(fi) + 1} /\ fj[Len(fi) + 1] = p
          BY <4>1, Longer
        <5> QED BY <5>1, Zenon DEF Among, Same
      <4>2. CASE fj = fi /\ (co # "converter" /\ Muxable(p) => ~ KeyedIn(q, p.of))
        BY <4>2, <3>2, <1>7
      <4> QED BY <4>1, <4>2
    <3> QED BY <3>1, <3>3 DEF Among, Same
  <2> QED BY <2>1, <2>2
<1> QED BY <1>3, <1>5, <1>6, <1>7, Zenon DEF Chunked

LEMMA FirstsKept ==
  ASSUME NEW o \in Seq(Parsing), NEW q, NEW p \in Taking, Grows(o, q, p),
         NEW co, NEW fi \in Seq(Taking), NEW fj,
         fj = fi \/ (fj = Append(fi, p) /\ (co = "viewer" /\ p.kind \in Video => KeyedIn(q, p.of))),
         Firsts(fi, o, co)
  PROVE  Firsts(fj, q, co) /\ fj \in Seq(Taking)
<1>1. p.of \in Nat /\ (\A j \in DOMAIN o : o[j].of \in Nat) /\ \A j \in DOMAIN fi : fi[j].of \in Nat
  BY OfPacket, OfSeq
<1>2. /\ \A j, k \in DOMAIN fi : j < k => fi[j].of < fi[k].of
      /\ \A j \in DOMAIN fi : Among(q, fi[j])
      /\ co = "viewer" => \A j \in DOMAIN fi : fi[j].kind \in Video => KeyedIn(q, fi[j].of)
  <2>1. \A j \in DOMAIN fi : Among(q, fi[j])
    BY AmongGrows, Zenon DEF Firsts
  <2>2. co = "viewer" => \A j \in DOMAIN fi : fi[j].kind \in Video => KeyedIn(q, fi[j].of)
    BY <1>1, KeyedGrows, Zenon DEF Firsts
  <2> QED BY <2>1, <2>2, Zenon DEF Firsts
<1>3. CASE fj = fi
  BY <1>2, <1>3, Zenon DEF Firsts
<1>4. CASE fj = Append(fi, p) /\ (co = "viewer" /\ p.kind \in Video => KeyedIn(q, p.of))
  <2>1. /\ fj \in Seq(Taking) /\ Len(fi) \in Nat /\ DOMAIN fi = 1 .. Len(fi)
        /\ \A j \in DOMAIN fi : fj[j] = fi[j] /\ j <= Len(fi) /\ j \in Nat
        /\ DOMAIN fj = DOMAIN fi \cup {Len(fi) + 1} /\ fj[Len(fi) + 1] = p
    BY <1>4, Longer, LenProperties
  <2>2. \A j \in DOMAIN fi : fi[j].of < p.of
    <3> SUFFICES ASSUME NEW j \in DOMAIN fi PROVE fi[j].of < p.of
      OBVIOUS
    <3>1. PICK n \in DOMAIN o : o[n].of = fi[j].of
      BY Zenon DEF Firsts, Among, Same
    <3> QED BY <3>1 DEF Grows
  <2>3. \A j, k \in DOMAIN fj : j < k => fj[j].of < fj[k].of
    <3> SUFFICES ASSUME NEW j \in DOMAIN fj, NEW k \in DOMAIN fj, j < k PROVE fj[j].of < fj[k].of
      OBVIOUS
    <3>1. j \in DOMAIN fi
      BY <2>1
    <3> QED BY <3>1, <2>1, <2>2, <1>2
  <2>4. \A j \in DOMAIN fj : Among(q, fj[j])
    BY <1>2, <2>1, AmongGrows, Zenon
  <2>5. co = "viewer" => \A j \in DOMAIN fj : fj[j].kind \in Video => KeyedIn(q, fj[j].of)
    BY <1>2, <1>4, <2>1, Zenon
  <2> QED BY <2>1, <2>3, <2>4, <2>5, Zenon DEF Firsts
<1> QED BY <1>3, <1>4

\* The first of the packets kept back is muxed.
LEMMA ChunkedNext ==
  ASSUME NEW o \in Seq(Parsing), NEW fi \in Seq(Taking), fi # <<>>, NEW co, co = "viewer",
         NEW ch \in Seq(TsChunk), NEW dh \in Seq(TsChunk), MuxGrows(ch, dh, Head(fi)),
         NEW cont, NEW apts, Orderly(dh, cont, apts),
         Firsts(fi, o, co), Chunked(ch, fi, o, co)
  PROVE  /\ Tail(fi) \in Seq(Taking)
         /\ Firsts(Tail(fi), o, co) /\ Chunked(dh, Tail(fi), o, co)
<1> DEFINE t == Tail(fi)  p == Head(fi)
<1>1. /\ t \in Seq(Taking) /\ p \in Taking /\ p = fi[1] /\ 1 \in DOMAIN fi
      /\ \A j \in DOMAIN t : j + 1 \in DOMAIN fi /\ t[j] = fi[j + 1] /\ 1 < j + 1 /\ j \in Nat
      /\ \A j \in DOMAIN fi : j \in Nat /\ (j = 1 \/ \E i \in DOMAIN t : j = i + 1)
  <2>1. t \in Seq(Taking) /\ p \in Taking /\ Len(t) = Len(fi) - 1 /\ Len(fi) \in Nat /\ Len(fi) # 0
    BY HeadTailProperties, EmptySeq, LenProperties
  <2>2. DOMAIN fi = 1 .. Len(fi) /\ DOMAIN t = 1 .. Len(fi) - 1
    BY <2>1, LenProperties
  <2>3. \A j \in 1 .. Len(fi) - 1 : t[j] = fi[j + 1]
    BY <2>1
  <2>4. \A j \in 1 .. Len(fi) : j = 1 \/ (j - 1 \in 1 .. Len(fi) - 1 /\ j = (j - 1) + 1)
    BY <2>1
  <2>5. \A j \in 1 .. Len(fi) : j = 1 \/ \E i \in 1 .. Len(fi) - 1 : j = i + 1
    BY <2>4, Zenon
  <2>6. \A j \in 1 .. Len(fi) - 1 : j + 1 \in 1 .. Len(fi) /\ 1 < j + 1 /\ j \in Nat
    BY <2>1
  <2>7. p = fi[1] /\ 1 \in 1 .. Len(fi) /\ \A j \in 1 .. Len(fi) : j \in Nat
    BY <2>1
  <2> QED BY <2>1, <2>2, <2>3, <2>5, <2>6, <2>7
<1>2. /\ \A k \in DOMAIN ch : k \in DOMAIN dh /\ dh[k] = ch[k]
      /\ \A k \in DOMAIN dh : 2 < k => k \in DOMAIN ch \/ Comes(dh[k], p)
      /\ Muxable(p) => MuxedIn(dh, p)
  BY Zenon DEF MuxGrows
<1>3. /\ \A j \in DOMAIN t : p.of < t[j].of
      /\ \A j, k \in DOMAIN t : j < k => t[j].of < t[k].of
      /\ \A j \in DOMAIN t : Among(o, t[j])
      /\ \A j \in DOMAIN t : t[j].kind \in Video => KeyedIn(o, t[j].of)
      /\ Among(o, p) /\ (p.kind \in Video => KeyedIn(o, p.of))
  <2>1. \A j, k \in DOMAIN t : j < k => j + 1 < k + 1
    BY <1>1
  <2>2. \A j, k \in DOMAIN fi : j < k => fi[j].of < fi[k].of
    BY Zenon DEF Firsts
  <2>3. \A j \in DOMAIN fi : Among(o, fi[j])
    BY Zenon DEF Firsts
  <2>4. \A j \in DOMAIN fi : fi[j].kind \in Video => KeyedIn(o, fi[j].of)
    BY Zenon DEF Firsts
  <2> HIDE DEF t, p
  <2> QED BY <2>1, <2>2, <2>3, <2>4, <1>1
<1> HIDE DEF t, p
<1>4. Firsts(t, o, co)
  BY <1>3, Zenon DEF Firsts
<1>5. \A k \in DOMAIN dh : 2 < k => \E j \in DOMAIN o : Comes(dh[k], o[j])
  <2> SUFFICES ASSUME NEW k \in DOMAIN dh, 2 < k PROVE \E j \in DOMAIN o : Comes(dh[k], o[j])
    OBVIOUS
  <2>1. CASE k \in DOMAIN ch
    BY <2>1, <1>2 DEF Chunked
  <2>2. CASE Comes(dh[k], p)
    <3>1. PICK n \in DOMAIN o : Same(o[n], p)
      BY <1>3, Zenon DEF Among
    <3>2. Comes(dh[k], o[n])
      BY <2>2, <3>1 DEF Comes, Same, Muxable
    <3> QED BY <3>2
  <2> QED BY <2>1, <2>2, <1>2
<1>6. \A k \in DOMAIN dh : dh[k].pid = VIDEO => KeyedIn(o, dh[k].of)
  <2> SUFFICES ASSUME NEW k \in DOMAIN dh, dh[k].pid = VIDEO PROVE KeyedIn(o, dh[k].of)
    OBVIOUS
  <2>1. k \in Nat /\ k >= 1
    BY ChunkAt
  <2>2. k # 1 /\ k # 2
    BY DEF Orderly, PAT, PMT, VIDEO
  <2>3. 2 < k
    BY <2>1, <2>2
  <2>4. CASE k \in DOMAIN ch
    BY <2>4, <1>2 DEF Chunked
  <2>5. CASE Comes(dh[k], p)
    <3>1. p.kind \in Video
      BY <2>5 DEF Comes, PidOf, VIDEO, AUDIO
    <3> QED BY <3>1, <2>5, <1>3 DEF Comes
  <2> QED BY <2>3, <2>4, <2>5, <1>2
<1>7. ASSUME NEW k \in DOMAIN dh, NEW j \in DOMAIN t, 2 < k PROVE dh[k].of < t[j].of
  <2>1. CASE k \in DOMAIN ch
    BY <2>1, <1>1, <1>2, <1>7 DEF Chunked
  <2>2. CASE Comes(dh[k], p)
    BY <2>2, <1>3 DEF Comes
  <2> QED BY <2>1, <2>2, <1>2, <1>7
<1>8. ASSUME NEW j \in DOMAIN o, Muxable(o[j]), KeyedIn(o, o[j].of)
      PROVE  MuxedIn(dh, o[j]) \/ Among(t, o[j])
  <2>1. MuxedIn(ch, o[j]) \/ Among(fi, o[j])
    BY <1>8 DEF Chunked
  <2>2. CASE MuxedIn(ch, o[j])
    BY <2>2, MuxedGrows
  <2>3. CASE Among(fi, o[j])
    <3>1. PICK k \in DOMAIN fi : Same(fi[k], o[j])
      BY <2>3 DEF Among
    <3>2. CASE k = 1
      <4>1. Same(p, o[j])
        BY <3>1, <3>2, <1>1
      <4>2. MuxedIn(dh, p)
        BY <4>1, <1>2, <1>8 DEF Same, Muxable
      <4> QED BY <4>1, <4>2 DEF MuxedIn, Same
    <3>3. CASE \E i \in DOMAIN t : k = i + 1
      <4>1. Among(t, o[j])
        BY <3>1, <3>3, <1>1, Zenon DEF Among
      <4> QED BY <4>1
    <3> QED BY <3>2, <3>3, <1>1
  <2> QED BY <2>1, <2>2, <2>3
<1>9. Chunked(dh, t, o, co)
  BY <1>5, <1>6, <1>7, <1>8, Zenon DEF Chunked
<1> QED BY <1>1, <1>4, <1>9 DEF t

\* Before the first keyframe no frame has one.
LEMMA KeyedNone ==
  ASSUME NEW o, NEW q, NEW p, Grows(o, q, p), p.kind # "iframe",
         \A j \in DOMAIN o : o[j].kind # "iframe"
  PROVE  (\A j \in DOMAIN q : q[j].kind # "iframe") /\ \A of : ~ KeyedIn(q, of)
<1>1. \A j \in DOMAIN q : q[j].kind # "iframe"
  <2> SUFFICES ASSUME NEW j \in DOMAIN q PROVE q[j].kind # "iframe"
    OBVIOUS
  <2>1. CASE j \in DOMAIN o
    BY <2>1 DEF Grows
  <2>2. CASE Same(q[j], p)
    BY <2>2 DEF Same
  <2> QED BY <2>1, <2>2, Zenon DEF Grows
<1> QED BY <1>1, Zenon DEF KeyedIn

\* What the muxer makes of a packet behind all those it has been given.
LEMMA MuxGrown ==
  ASSUME NEW m \in Muxer, MuxOk(m), NEW p \in Taking,
         \A k \in DOMAIN m.chunks : 2 < k => m.chunks[k].of < p.of
  PROVE  /\ Mux(m, p) \in Muxer /\ MuxOk(Mux(m, p))
         /\ MuxGrows(m.chunks, Mux(m, p).chunks, p)
<1>1. p \in [of : Nat, kind : Kind, adts : BOOLEAN]
  BY DEF Taking
<1> DEFINE r == Mux(m, p)
<1>2. /\ r \in Muxer /\ MuxOk(r)
      /\ \A k \in DOMAIN m.chunks : k \in DOMAIN r.chunks /\ r.chunks[k] = m.chunks[k]
      /\ \A k \in DOMAIN r.chunks : 2 < k =>
            \/ k \in DOMAIN m.chunks
            \/ Muxable(p) /\ r.chunks[k].of = p.of /\ r.chunks[k].pid = PidOf(p.kind)
      /\ Muxable(p) => \E k \in DOMAIN r.chunks :
            r.chunks[k].of = p.of /\ r.chunks[k].pid = PidOf(p.kind)
  BY <1>1, MuxIs, Zenon
<1> HIDE DEF r
<1>3. MuxGrows(m.chunks, r.chunks, p)
  BY <1>2, Zenon DEF MuxGrows, MuxedIn, Comes
<1> QED BY <1>2, <1>3 DEF r

(***************************************************************************)
(* The stages that consume the packets.                                     *)
(***************************************************************************)

Phases(th, ph, fi, m, co, st, o) ==
    /\ ph = "keyframe" /\ co # "converter" => \A j \in DOMAIN o : o[j].kind # "iframe"
    /\ ph # "keyframe" => \E j \in DOMAIN o : o[j].kind = "iframe"
    /\ ph = "write" \/ co = "recorder" => fi = <<>>
    /\ co = "recorder" => ph # "buffer"
    /\ th = "mux" => co = "viewer" /\ ph = "buffer" /\ fi # <<>>
    /\ co = "converter" => m.chunks = <<>> /\ ph = "keyframe" /\ st = FALSE

WorkType ==
    /\ thread \in {"none", "next", "parse", "mux", "close", "ended"}
    /\ phase \in {"keyframe", "buffer", "write"}
    /\ first \in Seq([of : DOMAIN sent, kind : Kind, adts : BOOLEAN])
    /\ mux \in Muxer
    /\ consumer \in {"viewer", "recorder", "converter"}
    /\ stop \in BOOLEAN /\ error \in BOOLEAN /\ streaming \in BOOLEAN

WorkOk ==
    /\ MuxOk(mux) /\ Firsts(first, out, consumer) /\ Chunked(mux.chunks, first, out, consumer)
    /\ Phases(thread, phase, first, mux, consumer, stop, out)

LEMMA Narrow ==
  ASSUME sent \in Streams
  PROVE  /\ Seq(Entry) \subseteq Seq(Parsing)
         /\ Seq([of : DOMAIN sent, kind : Kind, adts : BOOLEAN]) \subseteq Seq(Taking)
         /\ [of : DOMAIN sent, kind : Kind, adts : BOOLEAN] \subseteq Taking
<1>1. DOMAIN sent \subseteq Nat
  BY Places
<1>2. Entry \subseteq Parsing /\ [of : DOMAIN sent, kind : Kind, adts : BOOLEAN] \subseteq Taking
  BY <1>1 DEF Entry, Parsing, Taking
<1>3. Seq(Entry) \subseteq Seq(Parsing)
  <2>1. \A s \in Seq(Entry) : s \in Seq(Parsing)
    BY <1>2, SeqMonotonic
  <2> QED BY <2>1
<1>4. Seq([of : DOMAIN sent, kind : Kind, adts : BOOLEAN]) \subseteq Seq(Taking)
  <2>1. \A s \in Seq([of : DOMAIN sent, kind : Kind, adts : BOOLEAN]) : s \in Seq(Taking)
    BY <1>2, SeqMonotonic
  <2> QED BY <2>1
<1> QED BY <1>2, <1>3, <1>4

\* A packet more has been parsed.
LEMMA TakenGrows ==
  ASSUME StreamType, ParserOk, Taken, WorkType
  PROVE  /\ out \in Seq(Parsing) /\ out' \in Seq(Parsing) /\ Packet \in Taking
         /\ Packet \in [of : DOMAIN sent, kind : Kind, adts : BOOLEAN] /\ first \in Seq(Taking)
         /\ Grows(out, out', Packet)
<1>1. sent \in Streams /\ out \in Seq(Entry)
  BY StreamTypes
<1>2. /\ out' \in Seq(Entry) /\ Packet \in [of : DOMAIN sent, kind : Kind, adts : BOOLEAN]
      /\ \A j \in DOMAIN out : out[j].of < Packet.of
  BY TakenIs
<1>3. PICK e \in Entry : Same(e, Packet) /\ out' = Append(out, e)
  BY TakenIs
<1>4. /\ \A j \in DOMAIN out : out'[j] = out[j]
      /\ out'[Len(out) + 1] = e /\ DOMAIN out' = DOMAIN out \cup {Len(out) + 1}
  BY <1>1, <1>3, Longer
<1>5. Grows(out, out', Packet)
  <2>1. \A j \in DOMAIN out : j \in DOMAIN out' /\ out'[j] = out[j] /\ out[j].of < Packet.of
    BY <1>2, <1>4
  <2>2. \E n \in DOMAIN out' : Same(out'[n], Packet)
    BY <1>3, <1>4
  <2>3. \A n \in DOMAIN out' : n \in DOMAIN out \/ Same(out'[n], Packet)
    BY <1>3, <1>4
  <2> QED BY <2>1, <2>2, <2>3, Zenon DEF Grows
<1>6. first \in Seq(Taking)
  BY <1>1, Narrow DEF WorkType
<1> QED BY <1>1, <1>2, <1>5, <1>6, Narrow

\* The muxer is given a packet that has just been parsed.
LEMMA MuxTaken ==
  ASSUME StreamType, ParserOk, Taken, WorkType, WorkOk
  PROVE  /\ Mux(mux, Packet) \in Muxer /\ MuxOk(Mux(mux, Packet))
         /\ MuxGrows(mux.chunks, Mux(mux, Packet).chunks, Packet)
<1>1. mux \in Muxer /\ MuxOk(mux) /\ Packet \in Taking
  BY TakenGrows DEF WorkType, WorkOk
<1>2. \A k \in DOMAIN mux.chunks : 2 < k => mux.chunks[k].of < Packet.of
  <2> SUFFICES ASSUME NEW k \in DOMAIN mux.chunks, 2 < k PROVE mux.chunks[k].of < Packet.of
    OBVIOUS
  <2>1. PICK j \in DOMAIN out : Comes(mux.chunks[k], out[j])
    BY DEF WorkOk, Chunked
  <2>2. out[j].of < Packet.of
    BY TakenIs
  <2> QED BY <2>1, <2>2 DEF Comes
<1> QED BY <1>1, <1>2, MuxGrown

LEMMA Nothing ==
  /\ \A co, q : Firsts(<<>>, q, co)
  /\ \A S : <<>> \in Seq(S)
<1>1. DOMAIN <<>> = {}
  OBVIOUS
<1>2. \A co, q : Firsts(<<>>, q, co)
  BY <1>1, Zenon DEF Firsts
<1> QED BY <1>2, EmptySeq

LEMMA RecordStep ==
  ASSUME StreamType, ParserOk, WorkType, WorkOk, Record
  PROVE  WorkType' /\ WorkOk'
<1>1. /\ Taken /\ thread = "parse" /\ consumer = "recorder" /\ thread' = thread /\ first' = first
      /\ consumer' = consumer /\ stop' = stop /\ error' = error /\ streaming' = streaming
      /\ sent' = sent
      /\ IF phase = "write" \/ Packet.kind = "iframe"
           THEN mux' = Mux(mux, Packet) /\ phase' = "write"
           ELSE mux' = mux /\ phase' = phase
  BY DEF Record, Taken, streamVars, ctlVars
<1>2. /\ out \in Seq(Parsing) /\ out' \in Seq(Parsing) /\ Packet \in Taking
      /\ first \in Seq(Taking) /\ Grows(out, out', Packet)
  BY <1>1, TakenGrows
<1>3. /\ MuxOk(mux) /\ Firsts(first, out, consumer) /\ Chunked(mux.chunks, first, out, consumer)
      /\ first = <<>> /\ phase # "buffer"
      /\ phase = "keyframe" => \A j \in DOMAIN out : out[j].kind # "iframe"
      /\ phase # "keyframe" => \E j \in DOMAIN out : out[j].kind = "iframe"
      /\ phase \in {"keyframe", "buffer", "write"} /\ mux \in Muxer
  BY <1>1 DEF WorkType, WorkOk, Phases
<1>4. CASE phase = "write" \/ Packet.kind = "iframe"
  <2> DEFINE r == Mux(mux, Packet)
  <2>1. /\ r \in Muxer /\ MuxOk(r) /\ MuxGrows(mux.chunks, r.chunks, Packet)
    BY <1>1, MuxTaken
  <2>2. r.chunks \in Seq(TsChunk) /\ Orderly(r.chunks, r.continuity, r.audio_pts)
    BY <2>1, MuxerIs DEF MuxOk
  <2>3. KeyedIn(out', Packet.of)
    BY <1>2, <1>3, <1>4, KeyedGrows
  <2> HIDE DEF r
  <2>4. Chunked(r.chunks, first, out', consumer)
    BY <1>2, <1>3, <2>1, <2>2, <2>3, ChunkedMuxed
  <2>5. \E j \in DOMAIN out' : out'[j].kind = "iframe"
    BY <2>3, Zenon DEF KeyedIn
  <2>6. mux' = r /\ phase' = "write"
    BY <1>1, <1>4 DEF r
  <2>7. WorkOk'
    <3>1. /\ MuxOk(mux')
          /\ Firsts(first', out', consumer')
          /\ Chunked(mux'.chunks, first', out', consumer')
      BY <1>1, <1>3, <2>1, <2>4, <2>6, Nothing
    <3>2. Phases(thread', phase', first', mux', consumer', stop', out')
      BY <1>1, <1>3, <2>5, <2>6 DEF Phases
    <3> QED BY <3>1, <3>2 DEF WorkOk
  <2> QED BY <1>1, <2>1, <2>6, <2>7 DEF WorkType
<1>5. CASE ~ (phase = "write" \/ Packet.kind = "iframe")
  <2>1. mux' = mux /\ phase' = phase /\ phase = "keyframe" /\ Packet.kind # "iframe"
    BY <1>1, <1>3, <1>5
  <2>2. (\A j \in DOMAIN out' : out'[j].kind # "iframe") /\ ~ KeyedIn(out', Packet.of)
    BY <1>2, <1>3, <2>1, KeyedNone
  <2>3. Chunked(mux.chunks, first, out', consumer)
    <3>1. mux.chunks \in Seq(TsChunk)
      BY <1>3, MuxerIs
    <3> QED BY <1>2, <1>3, <2>2, <3>1, ChunkedKept
  <2>4. WorkOk'
    <3>1. /\ MuxOk(mux')
          /\ Firsts(first', out', consumer')
          /\ Chunked(mux'.chunks, first', out', consumer')
      BY <1>1, <1>3, <2>1, <2>3, Nothing
    <3>2. Phases(thread', phase', first', mux', consumer', stop', out')
      BY <1>1, <1>3, <2>1, <2>2 DEF Phases
    <3> QED BY <3>1, <3>2 DEF WorkOk
  <2> QED BY <1>1, <2>1, <2>4 DEF WorkType
<1> QED BY <1>4, <1>5

LEMMA ProduceStep ==
  ASSUME StreamType, ParserOk, WorkType, WorkOk, Produce
  PROVE  WorkType' /\ WorkOk'
<1>1. /\ Taken /\ thread = "parse" /\ consumer = "viewer" /\ thread' = thread /\ first' = first
      /\ consumer' = consumer /\ stop' = stop /\ error' = error /\ streaming' = streaming
      /\ sent' = sent /\ phase = "write" /\ mux' = Mux(mux, Packet) /\ phase' = phase
  BY DEF Produce, Taken, streamVars, ctlVars
<1>2. /\ out \in Seq(Parsing) /\ out' \in Seq(Parsing) /\ Packet \in Taking
      /\ first \in Seq(Taking) /\ Grows(out, out', Packet)
  BY <1>1, TakenGrows
<1>3. /\ Chunked(mux.chunks, first, out, consumer)
      /\ first = <<>>
      /\ \E j \in DOMAIN out : out[j].kind = "iframe"
  BY <1>1 DEF WorkType, WorkOk, Phases
<1> DEFINE r == Mux(mux, Packet)
<1>4. /\ r \in Muxer /\ MuxOk(r) /\ MuxGrows(mux.chunks, r.chunks, Packet)
  BY <1>1, MuxTaken
<1>5. r.chunks \in Seq(TsChunk) /\ Orderly(r.chunks, r.continuity, r.audio_pts)
  BY <1>4, MuxerIs DEF MuxOk
<1>6. KeyedIn(out', Packet.of)
  BY <1>2, <1>3, KeyedGrows
<1>7. mux' = r
  BY <1>1
<1> HIDE DEF r
<1>8. Chunked(r.chunks, first, out', consumer)
  BY <1>2, <1>3, <1>4, <1>5, <1>6, ChunkedMuxed
<1>9. \E j \in DOMAIN out' : out'[j].kind = "iframe"
  BY <1>6, Zenon DEF KeyedIn
<1>10. /\ MuxOk(mux')
       /\ Firsts(first', out', consumer')
       /\ Chunked(mux'.chunks, first', out', consumer')
  BY <1>1, <1>3, <1>4, <1>7, <1>8, Nothing
<1>11. Phases(thread', phase', first', mux', consumer', stop', out')
  BY <1>1, <1>3, <1>9 DEF Phases
<1>12. WorkOk'
  BY <1>10, <1>11 DEF WorkOk
<1> QED BY <1>1, <1>4, <1>7, <1>12 DEF WorkType

LEMMA KeyframeStep ==
  ASSUME StreamType, ParserOk, WorkType, WorkOk, ReadUntilKeyframe
  PROVE  WorkType' /\ WorkOk'
<1>1. /\ Taken /\ thread = "parse" /\ consumer = "viewer" /\ phase = "keyframe" /\ mux' = mux
      /\ consumer' = consumer /\ stop' = stop /\ error' = error /\ streaming' = streaming
      /\ sent' = sent
      /\ first' = (IF Packet.kind = "pframe" THEN first ELSE Append(first, Packet))
      /\ IF Packet.kind # "iframe" THEN phase' = phase /\ thread' = thread
         ELSE phase' = "buffer" /\ thread' = IF TargetFrames <= 1 THEN "mux" ELSE "next"
  BY DEF ReadUntilKeyframe, Taken, streamVars, ctlVars
<1>2. /\ out \in Seq(Parsing) /\ out' \in Seq(Parsing) /\ Packet \in Taking
      /\ Packet \in [of : DOMAIN sent, kind : Kind, adts : BOOLEAN]
      /\ first \in Seq(Taking) /\ Grows(out, out', Packet)
  BY <1>1, TakenGrows
<1>3. /\ MuxOk(mux) /\ Firsts(first, out, consumer) /\ Chunked(mux.chunks, first, out, consumer)
      /\ \A j \in DOMAIN out : out[j].kind # "iframe"
      /\ mux.chunks \in Seq(TsChunk) /\ mux \in Muxer
      /\ first \in Seq([of : DOMAIN sent, kind : Kind, adts : BOOLEAN])
  BY <1>1, MuxerIs DEF WorkType, WorkOk, Phases
<1>4. Packet.kind # "iframe" =>
        (\A j \in DOMAIN out' : out'[j].kind # "iframe") /\ ~ KeyedIn(out', Packet.of)
  BY <1>2, <1>3, KeyedNone
<1>5. Packet.kind = "iframe" => KeyedIn(out', Packet.of) /\ \E j \in DOMAIN out' : out'[j].kind = "iframe"
  <2>1. Packet.kind = "iframe" => KeyedIn(out', Packet.of)
    BY <1>2, KeyedGrows
  <2> QED BY <2>1, Zenon DEF KeyedIn
<1> DEFINE fj == IF Packet.kind = "pframe" THEN first ELSE Append(first, Packet)
<1>6. /\ fj = first \/ (fj = Append(first, Packet)
                         /\ (consumer = "viewer" /\ Packet.kind \in Video => KeyedIn(out', Packet.of)))
      /\ \/ fj = Append(first, Packet)
         \/ fj = first /\ (consumer # "converter" /\ Muxable(Packet) => ~ KeyedIn(out', Packet.of))
  BY <1>4, <1>5 DEF Video, Muxable
<1>7. /\ fj \in Seq([of : DOMAIN sent, kind : Kind, adts : BOOLEAN])
      /\ Packet.kind = "iframe" => fj # <<>>
  <2>1. fj = first \/ fj = Append(first, Packet)
    OBVIOUS
  <2>2. Append(first, Packet) \in Seq([of : DOMAIN sent, kind : Kind, adts : BOOLEAN])
    BY <1>2, <1>3, Longer
  <2>3. Packet.kind = "iframe" => fj = Append(first, Packet)
    OBVIOUS
  <2>4. Append(first, Packet) # <<>>
    BY <1>2, AppendProperties
  <2> QED BY <1>3, <2>1, <2>2, <2>3, <2>4
<1> HIDE DEF fj
<1>8. Firsts(fj, out', consumer)
  BY <1>2, <1>3, <1>6, FirstsKept
<1>9. Chunked(mux.chunks, fj, out', consumer)
  BY <1>2, <1>3, <1>6, ChunkedKept
<1>10. first' = fj
  BY <1>1 DEF fj
<1>11. /\ MuxOk(mux')
       /\ Firsts(first', out', consumer')
       /\ Chunked(mux'.chunks, first', out', consumer')
  BY <1>1, <1>3, <1>8, <1>9, <1>10
<1>12. Phases(thread', phase', first', mux', consumer', stop', out')
  BY <1>1, <1>4, <1>5, <1>7, <1>10 DEF Phases
<1>13. WorkOk'
  BY <1>11, <1>12 DEF WorkOk
<1>14. /\ thread' \in {"none", "next", "parse", "mux", "close", "ended"}
       /\ phase' \in {"keyframe", "buffer", "write"}
  BY <1>1
<1> QED BY <1>1, <1>3, <1>7, <1>10, <1>13, <1>14 DEF WorkType

LEMMA InitialStep ==
  ASSUME StreamType, ParserOk, WorkType, WorkOk, InitialVideo
  PROVE  WorkType' /\ WorkOk'
<1>1. /\ Taken /\ thread = "parse" /\ consumer = "viewer" /\ phase = "buffer" /\ mux' = mux
      /\ consumer' = consumer /\ stop' = stop /\ error' = error /\ streaming' = streaming
      /\ sent' = sent /\ phase' = phase
      /\ first' = Append(first, Packet)
      /\ thread' \in {"parse", "mux"}
  BY DEF InitialVideo, Taken, streamVars, ctlVars
<1>2. /\ out \in Seq(Parsing) /\ out' \in Seq(Parsing) /\ Packet \in Taking
      /\ Packet \in [of : DOMAIN sent, kind : Kind, adts : BOOLEAN]
      /\ first \in Seq(Taking) /\ Grows(out, out', Packet)
  BY <1>1, TakenGrows
<1>3. /\ MuxOk(mux) /\ Firsts(first, out, consumer) /\ Chunked(mux.chunks, first, out, consumer)
      /\ \E j \in DOMAIN out : out[j].kind = "iframe"
      /\ mux.chunks \in Seq(TsChunk) /\ mux \in Muxer
      /\ first \in Seq([of : DOMAIN sent, kind : Kind, adts : BOOLEAN])
  BY <1>1, MuxerIs DEF WorkType, WorkOk, Phases
<1>4. KeyedIn(out', Packet.of)
  BY <1>2, <1>3, KeyedGrows
<1>5. \E j \in DOMAIN out' : out'[j].kind = "iframe"
  BY <1>4, Zenon DEF KeyedIn
<1> DEFINE fj == Append(first, Packet)
<1>6. fj = Append(first, Packet)
  OBVIOUS
<1> HIDE DEF fj
<1>7. fj \in Seq([of : DOMAIN sent, kind : Kind, adts : BOOLEAN]) /\ fj # <<>>
  BY <1>2, <1>3, <1>6, Longer, AppendProperties
<1>8. Firsts(fj, out', consumer)
  BY <1>2, <1>3, <1>4, <1>6, FirstsKept
<1>9. Chunked(mux.chunks, fj, out', consumer)
  BY <1>2, <1>3, <1>6, ChunkedKept
<1>10. first' = fj
  BY <1>1, <1>6
<1>11. /\ MuxOk(mux')
       /\ Firsts(first', out', consumer')
       /\ Chunked(mux'.chunks, first', out', consumer')
  BY <1>1, <1>3, <1>8, <1>9, <1>10
<1>12. Phases(thread', phase', first', mux', consumer', stop', out')
  BY <1>1, <1>5, <1>7, <1>10 DEF Phases
<1>13. WorkOk'
  BY <1>11, <1>12 DEF WorkOk
<1> QED BY <1>1, <1>3, <1>7, <1>10, <1>13 DEF WorkType

LEMMA ProduceFirstStep ==
  ASSUME StreamType, WorkType, WorkOk, ProduceFirst
  PROVE  WorkType' /\ WorkOk'
<1>1. /\ thread = "mux" /\ mux' = Mux(mux, Head(first)) /\ first' = Tail(first)
      /\ IF Len(first) = 1 THEN phase' = "write" /\ thread' = "next" ELSE phase' = phase /\ thread' = thread
      /\ consumer' = consumer /\ stop' = stop /\ error' = error /\ streaming' = streaming
      /\ sent' = sent /\ out' = out
  BY DEF ProduceFirst, streamVars, parseVars, ctlVars
<1>2. /\ out \in Seq(Parsing)
      /\ first \in Seq(Taking)
      /\ first \in Seq([of : DOMAIN sent, kind : Kind, adts : BOOLEAN])
  BY StreamTypes, Narrow DEF WorkType
<1>3. /\ MuxOk(mux) /\ Firsts(first, out, consumer) /\ Chunked(mux.chunks, first, out, consumer)
      /\ mux.chunks \in Seq(TsChunk) /\ mux \in Muxer
      /\ consumer = "viewer" /\ phase = "buffer" /\ first # <<>>
      /\ \E j \in DOMAIN out : out[j].kind = "iframe"
  BY <1>1, MuxerIs DEF WorkType, WorkOk, Phases
<1> DEFINE r == Mux(mux, Head(first))
<1>4. Head(first) \in Taking /\ Head(first) = first[1] /\ 1 \in DOMAIN first
      /\ Tail(first) \in Seq([of : DOMAIN sent, kind : Kind, adts : BOOLEAN])
      /\ (Len(first) # 1 => Tail(first) # <<>>) /\ (Len(first) = 1 => Tail(first) = <<>>)
  <2>1. /\ Head(first) \in Taking /\ Tail(first) \in Seq([of : DOMAIN sent, kind : Kind, adts : BOOLEAN])
        /\ Len(Tail(first)) = Len(first) - 1 /\ Len(first) \in Nat /\ Len(first) # 0
    BY <1>2, <1>3, HeadTailProperties, EmptySeq, LenProperties
  <2>2. Head(first) = first[1] /\ 1 \in DOMAIN first
    BY <1>2, <2>1, LenProperties
  <2>3. Len(first) # 1 => Tail(first) # <<>>
    <3>1. Len(first) # 1 => Len(Tail(first)) # 0
      BY <2>1
    <3> QED BY <3>1, EmptySeq
  <2>4. Len(first) = 1 => Tail(first) = <<>>
    <3>1. Len(first) = 1 => Len(Tail(first)) = 0
      BY <2>1
    <3> QED BY <2>1, <3>1, EmptySeq
  <2> QED BY <2>1, <2>2, <2>3, <2>4
<1>5. \A k \in DOMAIN mux.chunks : 2 < k => mux.chunks[k].of < Head(first).of
  BY <1>3, <1>4 DEF Chunked
<1>6. r \in Muxer /\ MuxOk(r) /\ MuxGrows(mux.chunks, r.chunks, Head(first))
  BY <1>3, <1>4, <1>5, MuxGrown
<1>7. r.chunks \in Seq(TsChunk) /\ Orderly(r.chunks, r.continuity, r.audio_pts)
  BY <1>6, MuxerIs DEF MuxOk
<1>8. mux' = r
  BY <1>1
<1> HIDE DEF r
<1>9. Firsts(Tail(first), out, consumer) /\ Chunked(r.chunks, Tail(first), out, consumer)
  BY <1>2, <1>3, <1>6, <1>7, ChunkedNext
<1>10. /\ MuxOk(mux')
       /\ Firsts(first', out', consumer')
       /\ Chunked(mux'.chunks, first', out', consumer')
  BY <1>1, <1>6, <1>8, <1>9
<1>11. Phases(thread', phase', first', mux', consumer', stop', out')
  BY <1>1, <1>3, <1>4 DEF Phases
<1>12. WorkOk'
  BY <1>10, <1>11 DEF WorkOk
<1>13. /\ thread' \in {"none", "next", "parse", "mux", "close", "ended"}
       /\ phase' \in {"keyframe", "buffer", "write"}
  BY <1>1, <1>3
<1> QED BY <1>1, <1>4, <1>6, <1>8, <1>12, <1>13 DEF WorkType

LEMMA ExtractStep ==
  ASSUME StreamType, ParserOk, WorkType, WorkOk, Extract
  PROVE  WorkType' /\ WorkOk'
<1>1. /\ Taken /\ thread = "parse" /\ consumer = "converter" /\ mux' = mux
      /\ consumer' = consumer /\ stop' = stop /\ error' = error /\ streaming' = streaming
      /\ sent' = sent /\ phase' = phase /\ thread' = thread
      /\ first' = (IF Packet.kind \in Media THEN Append(first, Packet) ELSE first)
  BY DEF Extract, Taken, streamVars, ctlVars
<1>2. /\ out \in Seq(Parsing) /\ out' \in Seq(Parsing) /\ Packet \in Taking
      /\ Packet \in [of : DOMAIN sent, kind : Kind, adts : BOOLEAN]
      /\ first \in Seq(Taking) /\ Grows(out, out', Packet)
  BY <1>1, TakenGrows
<1>3. /\ MuxOk(mux) /\ Firsts(first, out, consumer) /\ Chunked(mux.chunks, first, out, consumer)
      /\ mux.chunks = <<>> /\ phase = "keyframe" /\ stop = FALSE
      /\ mux.chunks \in Seq(TsChunk) /\ mux \in Muxer
      /\ first \in Seq([of : DOMAIN sent, kind : Kind, adts : BOOLEAN])
  BY <1>1, MuxerIs DEF WorkType, WorkOk, Phases
<1> DEFINE fj == IF Packet.kind \in Media THEN Append(first, Packet) ELSE first
<1>6. fj = Append(first, Packet) \/ fj = first
  OBVIOUS
<1>7. first' = fj
  BY <1>1
<1> HIDE DEF fj
<1>8. fj \in Seq([of : DOMAIN sent, kind : Kind, adts : BOOLEAN])
  <2>1. Append(first, Packet) \in Seq([of : DOMAIN sent, kind : Kind, adts : BOOLEAN])
    BY <1>2, <1>3, Longer
  <2> QED BY <1>3, <1>6, <2>1
<1>9. Firsts(fj, out', consumer)
  BY <1>1, <1>2, <1>3, <1>6, FirstsKept
<1>10. Chunked(mux.chunks, fj, out', consumer)
  BY <1>1, <1>2, <1>3, <1>6, ChunkedKept
<1>11. /\ MuxOk(mux')
       /\ Firsts(first', out', consumer')
       /\ Chunked(mux'.chunks, first', out', consumer')
  BY <1>1, <1>3, <1>7, <1>9, <1>10
<1>12. Phases(thread', phase', first', mux', consumer', stop', out')
  BY <1>1, <1>3 DEF Phases
<1>13. WorkOk'
  BY <1>11, <1>12 DEF WorkOk
<1> QED BY <1>1, <1>3, <1>7, <1>8, <1>13 DEF WorkType

\* The steps that leave what has been parsed and made of it alone.
Idle ==
    /\ sent' = sent /\ out' = out /\ first' = first /\ mux' = mux /\ phase' = phase
    /\ consumer' = consumer
    /\ thread' \in {"none", "next", "parse", "mux", "close", "ended"}
    /\ thread' = "mux" => thread = "mux"
    /\ stop' \in BOOLEAN /\ (consumer = "converter" => stop' = stop)
    /\ error' \in BOOLEAN /\ streaming' \in BOOLEAN

LEMMA IdleStep ==
  ASSUME WorkType, WorkOk, Idle
  PROVE  WorkType' /\ WorkOk'
<1>1. Phases(thread', phase', first', mux', consumer', stop', out')
  BY DEF WorkOk, Idle, Phases
<1>2. WorkOk'
  BY <1>1 DEF WorkOk, Idle
<1> QED BY <1>2 DEF WorkType, Idle

\* What the stages keep of the packets is an invariant.
LEMMA WorkStep ==
  ASSUME StreamType, ParserOk, WorkType, WorkOk, [MediaNext]_mediaVars
  PROVE  WorkType' /\ WorkOk'
<1>0. /\ thread \in {"none", "next", "parse", "mux", "close", "ended"}
      /\ stop \in BOOLEAN /\ error \in BOOLEAN /\ streaming \in BOOLEAN
  BY DEF WorkType
<1>1. CASE UNCHANGED mediaVars
  <2>1. Idle
    BY <1>0, <1>1 DEF mediaVars, streamVars, parseVars, workVars, ctlVars, Idle
  <2> QED BY <2>1, IdleStep
<1>2. CASE Start
  <2>1. Idle
    BY <1>0, <1>2 DEF Start, streamVars, parseVars, workVars, Idle
  <2> QED BY <2>1, IdleStep
<1>3. CASE FeedPayload
  <2>1. Idle
    BY <1>0, <1>3 DEF FeedPayload, Deliver, streamVars, workVars, ctlVars, Idle
  <2> QED BY <2>1, IdleStep
<1>4. CASE ParseWait
  <2>1. Idle
    BY <1>0, <1>4 DEF ParseWait, streamVars, parseVars, workVars, ctlVars, Idle
  <2> QED BY <2>1, IdleStep
<1>5. CASE ParseResync
  <2>1. Idle
    BY <1>0, <1>5 DEF ParseResync, streamVars, workVars, ctlVars, Idle
  <2> QED BY <2>1, IdleStep
<1>6. CASE Record
  BY <1>6, RecordStep
<1>7. CASE ReadUntilKeyframe
  BY <1>7, KeyframeStep
<1>8. CASE InitialVideo
  BY <1>8, InitialStep
<1>9. CASE ProduceFirst
  BY <1>9, ProduceFirstStep
<1>10. CASE Produce
  BY <1>10, ProduceStep
<1>11. CASE Extract
  BY <1>11, ExtractStep
<1>12. CASE EndOfFile
  <2>1. error' \in BOOLEAN
    BY <1>12 DEF EndOfFile
  <2>2. Idle
    BY <1>0, <1>12, <2>1 DEF EndOfFile, streamVars, parseVars, workVars, Idle
  <2> QED BY <2>2, IdleStep
<1>13. CASE Close
  <2>1. Idle
    BY <1>0, <1>13 DEF Close, streamVars, parseVars, workVars, Idle
  <2> QED BY <2>1, IdleStep
<1>14. CASE PayloadsFail
  <2>1. Idle
    BY <1>0, <1>14 DEF PayloadsFail, streamVars, parseVars, workVars, Idle
  <2> QED BY <2>1, IdleStep
<1>15. CASE PayloadLost
  <2>1. Idle
    BY <1>0, <1>15 DEF PayloadLost, Deliver, parseVars, workVars, ctlVars, Idle
  <2> QED BY <2>1, IdleStep
<1>16. CASE Stop
  <2>1. Idle
    BY <1>0, <1>16 DEF Stop, streamVars, parseVars, workVars, Idle
  <2> QED BY <2>1, IdleStep
<1> QED BY <1>1, <1>2, <1>3, <1>4, <1>5, <1>6, <1>7, <1>8, <1>9, <1>10, <1>11, <1>12, <1>13,
           <1>14, <1>15, <1>16, Zenon DEF MediaNext, Work

(***************************************************************************)
(* bcmedia_to_mp4: what it copies is all that the file holds.               *)
(***************************************************************************)

\* The parser is at the end of the stream, or has not got the whole of the next packet.
Waits(s, b, o) == Position(o) = Len(s) \/ Len(b) < Length(s[Position(o) + 1].kind)

Copied(s, o, fi) ==
    /\ \A i \in DOMAIN s : i <= Position(o) /\ s[i].kind \in Media => \E j \in DOMAIN fi : fi[j].of = i
    /\ \A j \in DOMAIN fi : fi[j].of \in DOMAIN s /\ s[fi[j].of].kind \in Media

Converted(s, f, b, o, fi, co, th) ==
    co = "converter" /\ ~ f =>
        /\ Copied(s, o, fi)
        /\ th = "none" => b = <<>>
        /\ th = "next" => Waits(s, b, o)
        /\ th \in {"close", "ended"} => Position(o) = Len(s)

ConvertedOk == Converted(sent, faulty, buf, out, first, consumer, thread)

\* The length of the packet the parser is at.
LEMMA NextLength ==
  ASSUME sent \in Streams, NEW o, Position(o) \in DOMAIN sent \cup {0}, Position(o) # Len(sent)
  PROVE  /\ Position(o) + 1 \in DOMAIN sent
         /\ Length(sent[Position(o) + 1].kind) \in Nat \ {0}
         /\ Sound(sent[Position(o) + 1].kind) => Length(sent[Position(o) + 1].kind) >= 3
         /\ Before(sent, Position(o) + 1) = Done(sent, o)
<1> DEFINE i == Position(o) + 1
<1>1. /\ Len(sent) \in Nat \ {0} /\ DOMAIN sent = 1 .. Len(sent) /\ Before(sent, 1) = 0
      /\ \A k \in 2 .. Len(sent) : Before(sent, k) = sent[k - 1].end
  BY Places
<1>2. i \in 1 .. Len(sent)
  BY <1>1
<1>3. sent[i].kind \in Kind
  BY <1>1, <1>2, Places
<1>4. Length(sent[i].kind) \in Nat \ {0}
  BY <1>3, Lengths
<1>5. Sound(sent[i].kind) => Length(sent[i].kind) >= 3
  <2> SUFFICES ASSUME Sound(sent[i].kind) PROVE Length(sent[i].kind) >= 3
    OBVIOUS
  <2>1. sent[i].kind # "junk"
    BY DEF Sound
  <2>2. /\ Header(Class(sent[i].kind)) \in {0, 3, 4} /\ Header(Class(sent[i].kind)) >= 3
        /\ Data[sent[i].kind] \in Nat
        /\ Length(sent[i].kind) = Header(Class(sent[i].kind)) + Data[sent[i].kind]
    BY <1>3, <2>1, Lengths
  <2> QED BY <2>2
<1>6. Before(sent, i) = Done(sent, o)
  <2>1. CASE Position(o) = 0
    BY <2>1, <1>1 DEF Done
  <2>2. CASE Position(o) # 0
    <3>1. i \in 2 .. Len(sent) /\ i - 1 = Position(o)
      BY <2>2, <1>1, <1>2
    <3> QED BY <2>2, <3>1, <1>1 DEF Done
  <2> QED BY <2>1, <2>2
<1> QED BY <1>1, <1>2, <1>4, <1>5, <1>6

LEMMA EmptyWaits ==
  ASSUME sent \in Streams, NEW o, Position(o) \in DOMAIN sent \cup {0}
  PROVE  Waits(sent, <<>>, o)
<1>1. CASE Position(o) = Len(sent)
  BY <1>1 DEF Waits
<1>2. CASE Position(o) # Len(sent)
  <2>1. Length(sent[Position(o) + 1].kind) \in Nat \ {0}
    BY <1>2, NextLength
  <2>2. Len(<<>>) < Length(sent[Position(o) + 1].kind)
    BY <2>1
  <2> QED BY <2>2 DEF Waits
<1> QED BY <1>1, <1>2

\* Without a fault the parser keeps its place, and waits for a packet that is not complete.
LEMMA SoundWaits ==
  ASSUME StreamType, ParserOk, ~ faulty
  PROVE  /\ TryOne(buf) # "resync"
         /\ TryOne(buf) = "wait" => Waits(sent, buf, out)
<1>1. /\ sent \in Streams /\ passed \in Nat /\ passed <= Size /\ buf \in Seq(1 .. passed)
      /\ Position(out) \in DOMAIN sent \cup {0} /\ Len(buf) \in Nat
      /\ Parser(sent, faulty, passed, lost, buf, out, excused)
  BY StreamTypes, CellsIn DEF ParserOk
<1>2. /\ Increasing(buf) /\ Together(sent, lost, passed, buf)
      /\ \A i \in DOMAIN sent : Sound(sent[i].kind)
  BY <1>1, Zenon DEF Parser, Buffered, Lossless
<1>3. CASE Len(buf) >= 3
  <2> DEFINE i == Position(out) + 1
  <2>1. i \in DOMAIN sent \ lost /\ Sound(sent[i].kind) /\ buf[1] = Before(sent, i) + 1
    BY <1>1, <1>3, NextIsFirst
  <2> HIDE DEF i
  <2>2. TryOne(buf) # "resync" /\ (TryOne(buf) = "wait" => Len(buf) < Length(sent[i].kind))
    BY <1>1, <1>2, <1>3, <2>1, SoundFirst
  <2> QED BY <2>2 DEF Waits, i
<1>4. CASE Len(buf) < 3
  <2>1. TryOne(buf) = "wait"
    BY <1>4 DEF TryOne
  <2>2. CASE Position(out) = Len(sent)
    BY <2>1, <2>2 DEF Waits
  <2>3. CASE Position(out) # Len(sent)
    <3>1. /\ Position(out) + 1 \in DOMAIN sent
          /\ Length(sent[Position(out) + 1].kind) \in Nat
          /\ Length(sent[Position(out) + 1].kind) >= 3
      BY <1>1, <1>2, <2>3, NextLength
    <3>2. Len(buf) < Length(sent[Position(out) + 1].kind)
      BY <1>1, <1>4, <3>1
    <3> QED BY <2>1, <3>2 DEF Waits
  <2> QED BY <2>2, <2>3
<1> QED BY <1>1, <1>3, <1>4

\* At the end of the file nothing is left to wait for.
LEMMA EndWaits ==
  ASSUME StreamType, ParserOk, ~ faulty, passed = Size, Waits(sent, buf, out)
  PROVE  Position(out) = Len(sent)
<1> SUFFICES ASSUME Position(out) # Len(sent) PROVE FALSE
  OBVIOUS
<1>1. /\ sent \in Streams /\ Position(out) \in DOMAIN sent \cup {0}
      /\ Parser(sent, faulty, passed, lost, buf, out, excused)
  BY StreamTypes DEF ParserOk
<1>2. Len(buf) = passed - Done(sent, out)
  BY <1>1, Zenon DEF Parser, Lossless, Exact
<1> DEFINE i == Position(out) + 1
<1>3. i \in DOMAIN sent /\ Before(sent, i) = Done(sent, out) /\ Len(buf) < Length(sent[i].kind)
  BY <1>1, NextLength DEF Waits
<1>4. /\ sent[i].end = Before(sent, i) + Length(sent[i].kind) /\ Before(sent, i) \in Nat
      /\ sent[i].kind \in Kind
  BY <1>1, <1>3, Places
<1>5. Length(sent[i].kind) \in Nat
  BY <1>4, Lengths
<1>6. sent[i].end <= Size /\ Size \in Nat
  BY <1>1, <1>3, CellOf
<1> HIDE DEF i
<1> QED BY <1>2, <1>3, <1>4, <1>5, <1>6

LEMMA ExtractCopies ==
  ASSUME StreamType, ParserOk, WorkType, ~ faulty, Copied(sent, out, first), Extract
  PROVE  Copied(sent, out', first')
<1>1. /\ Taken /\ first' = (IF Packet.kind \in Media THEN Append(first, Packet) ELSE first)
  BY DEF Extract, Taken, streamVars
<1>2. /\ Packet.of \in DOMAIN sent /\ Packet \in [of : DOMAIN sent, kind : Kind, adts : BOOLEAN]
      /\ Position(out') = Packet.of
      /\ Packet.of = Position(out) + 1 /\ Packet.kind = sent[Packet.of].kind
  BY <1>1, TakenIs
<1>3. Position(out) \in Nat /\ sent \in Streams /\ DOMAIN sent \subseteq Nat
  BY StreamTypes, Places
<1>4. first \in Seq([of : DOMAIN sent, kind : Kind, adts : BOOLEAN])
  BY DEF WorkType
<1> DEFINE fj == IF Packet.kind \in Media THEN Append(first, Packet) ELSE first
<1>5. /\ \A j \in DOMAIN first : j \in DOMAIN fj /\ fj[j] = first[j]
      /\ \A j \in DOMAIN fj : j \in DOMAIN first \/ (fj[j] = Packet /\ Packet.kind \in Media)
      /\ Packet.kind \in Media => \E j \in DOMAIN fj : fj[j] = Packet
  <2>1. CASE Packet.kind \in Media
    <3>1. fj = Append(first, Packet)
      BY <2>1
    <3> HIDE DEF fj
    <3>2. /\ \A j \in DOMAIN first : fj[j] = first[j]
          /\ DOMAIN fj = DOMAIN first \cup {Len(first) + 1} /\ fj[Len(first) + 1] = Packet
      BY <1>2, <1>4, <3>1, Longer
    <3> QED BY <2>1, <3>2
  <2>2. CASE Packet.kind \notin Media
    BY <2>2
  <2> QED BY <2>1, <2>2
<1>6. first' = fj
  BY <1>1
<1> HIDE DEF fj
<1>7. ASSUME NEW i \in DOMAIN sent, i <= Position(out'), sent[i].kind \in Media
      PROVE  \E j \in DOMAIN fj : fj[j].of = i
  <2>1. CASE i <= Position(out)
    <3>1. PICK j \in DOMAIN first : first[j].of = i
      BY <2>1, <1>7 DEF Copied
    <3> QED BY <3>1, <1>5
  <2>2. CASE ~ (i <= Position(out))
    <3>1. i = Packet.of
      <4>1. i \in Nat
        BY <1>3
      <4>2. i <= Position(out) + 1
        BY <1>2, <1>7
      <4> QED BY <4>1, <4>2, <2>2, <1>2, <1>3
    <3> QED BY <3>1, <1>2, <1>5, <1>7
  <2> QED BY <2>1, <2>2
<1>8. ASSUME NEW j \in DOMAIN fj PROVE fj[j].of \in DOMAIN sent /\ sent[fj[j].of].kind \in Media
  <2>1. CASE j \in DOMAIN first
    BY <2>1, <1>5 DEF Copied
  <2>2. CASE fj[j] = Packet /\ Packet.kind \in Media
    BY <2>2, <1>2
  <2> QED BY <2>1, <2>2, <1>5
<1> QED BY <1>6, <1>7, <1>8 DEF Copied

LEMMA ConvertStep ==
  ASSUME StreamType, ParserOk, WorkType, WorkOk, ConvertedOk, [MediaNext]_mediaVars
  PROVE  ConvertedOk'
<1>1. sent' = sent /\ faulty' = faulty /\ consumer' = consumer
  BY ParserSteps
<1>2. SUFFICES ASSUME consumer = "converter", ~ faulty
               PROVE  /\ Copied(sent, out', first')
                      /\ thread' = "none" => buf' = <<>>
                      /\ thread' = "next" => Waits(sent, buf', out')
                      /\ thread' \in {"close", "ended"} => Position(out') = Len(sent)
  BY <1>1 DEF ConvertedOk, Converted
<1>3. /\ Copied(sent, out, first)
      /\ thread = "none" => buf = <<>>
      /\ thread = "next" => Waits(sent, buf, out)
      /\ thread \in {"close", "ended"} => Position(out) = Len(sent)
      /\ stop = FALSE /\ thread # "mux"
  BY <1>2 DEF ConvertedOk, Converted, WorkOk, Phases
<1>4. CASE UNCHANGED mediaVars
  BY <1>3, <1>4 DEF mediaVars, parseVars, workVars
<1>5. CASE Start
  <2>1. buf' = buf /\ out' = out /\ first' = first /\ thread' = "next" /\ thread = "none"
    BY <1>5 DEF Start, parseVars, workVars
  <2>2. Waits(sent, <<>>, out)
    BY EmptyWaits, StreamTypes
  <2> QED BY <1>3, <2>1, <2>2
<1>6. CASE FeedPayload
  BY <1>3, <1>6 DEF FeedPayload, workVars
<1>7. CASE ParseWait
  <2>1. buf' = buf /\ out' = out /\ first' = first /\ thread' = "next" /\ TryOne(buf) = "wait"
    BY <1>7 DEF ParseWait, parseVars, workVars
  <2> QED BY <1>2, <1>3, <2>1, SoundWaits
<1>8. CASE ParseResync
  BY <1>2, <1>8, SoundWaits DEF ParseResync
<1>9. CASE Record
  BY <1>2, <1>9 DEF Record
<1>10. CASE ReadUntilKeyframe
  BY <1>2, <1>10 DEF ReadUntilKeyframe
<1>11. CASE InitialVideo
  BY <1>2, <1>11 DEF InitialVideo
<1>12. CASE ProduceFirst
  BY <1>3, <1>12 DEF ProduceFirst
<1>13. CASE Produce
  BY <1>2, <1>13 DEF Produce
<1>14. CASE Extract
  <2>1. thread' = "parse"
    BY <1>14 DEF Extract
  <2> QED BY <1>2, <1>3, <1>14, <2>1, ExtractCopies
<1>15. CASE EndOfFile
  <2>1. /\ buf' = buf /\ out' = out /\ first' = first /\ thread' = "close" /\ thread = "next"
        /\ passed = Size
    BY <1>15 DEF EndOfFile, parseVars, workVars
  <2> QED BY <1>2, <1>3, <2>1, EndWaits
<1>16. CASE Close
  BY <1>3, <1>16 DEF Close, parseVars, workVars
<1>17. CASE PayloadsFail
  BY <1>2, <1>17 DEF PayloadsFail
<1>18. CASE PayloadLost
  BY <1>2, <1>18 DEF PayloadLost
<1>19. CASE Stop
  BY <1>2, <1>19 DEF Stop
<1> QED BY <1>4, <1>5, <1>6, <1>7, <1>8, <1>9, <1>10, <1>11, <1>12, <1>13, <1>14, <1>15, <1>16,
           <1>17, <1>18, <1>19, Zenon DEF MediaNext, Work

(***************************************************************************)
(* A packet whose cells are all its own begins with its own data.           *)
(***************************************************************************)

WholeOk == \A j \in DOMAIN out : out[j].whole /\ out[j].kind \in Media => Muxable(out[j])

LEMMA WholeLooks ==
  ASSUME StreamType, TryOne(buf) = "packet", Whole(buf), KindOf(buf[1]) = "aac"
  PROVE  LooksLikeAdts(buf)
<1> DEFINE i == Of(buf[1])  b == Before(sent, i)  e == sent[i].end  n == Total(buf)
           f == Header("audio") + 1  l == Length("aac")
<1>1. /\ sent \in Streams /\ garbage \in Nat /\ passed \in Nat /\ passed <= Size
      /\ buf \in Seq(1 .. passed)
  BY StreamTypes
<1>2. /\ i \in DOMAIN sent /\ sent[i].kind = "aac" /\ n \in 1 .. Len(buf) /\ Len(buf) \in Nat
  BY <1>1, FoundPacket, CellsIn
<1>3. /\ b \in Nat /\ e \in Nat /\ e = b + l
  BY <1>1, <1>2, Places
<1>4. f = 4 /\ l \in Nat /\ 4 <= l
  <2>1. Data["aac"] \in Nat /\ Data["aac"] > 0
    BY MediaAssumption DEF Kind, Media
  <2>2. Header("audio") = 3 /\ Class("aac") = "audio"
    BY DEF Header, Class, Video
  <2>3. l = 3 + Data["aac"]
    BY <2>2 DEF Length
  <2> HIDE DEF l
  <2> QED BY <2>1, <2>2, <2>3
<1> HIDE DEF b, e, n, f, l
<1>5. SubSeq(buf, 1, n) = Cells(b, e)
  BY DEF Whole, n, b, e, i
<1>6. b <= e /\ e - b = l
  BY <1>3, <1>4
<1>7. Len(Cells(b, e)) = l /\ \A k \in 1 .. l : Cells(b, e)[k] = b + k
  BY <1>3, <1>6, CellsAre
<1>8. Len(SubSeq(buf, 1, n)) = n /\ \A k \in 1 .. n : SubSeq(buf, 1, n)[k] = buf[k]
  <2>1. n \in 0 .. Len(buf)
    BY <1>2
  <2> QED BY <1>1, <2>1, Cut
<1>9. n = l
  BY <1>5, <1>7, <1>8
<1>10. 4 \in 1 .. l
  BY <1>4
<1>11. buf[4] = b + 4
  BY <1>5, <1>7, <1>8, <1>9, <1>10
<1>12. KindOf(b + 4) = "aac" /\ At(b + 4) = 4
  <2>1. 4 \in 1 .. Length(sent[i].kind)
    BY <1>2, <1>10 DEF l
  <2> HIDE DEF i
  <2> QED BY <2>1, <1>1, <1>2, CellFrom DEF b
<1>13. f <= n
  BY <1>4, <1>9
<1>14. KindOf(buf[f]) = "aac" /\ At(buf[f]) = f
  BY <1>4, <1>11, <1>12
<1> QED BY <1>13, <1>14, Zenon DEF LooksLikeAdts, f, n

LEMMA WholeStep ==
  ASSUME StreamType, ParserOk, WholeOk, [MediaNext]_mediaVars
  PROVE  WholeOk'
<1>1. CASE out' = out
  BY <1>1 DEF WholeOk, Muxable
<1>2. CASE Taken
  <2>1. PICK e \in Entry : Same(e, Packet) /\ out' = Append(out, e) /\ (Whole(buf) <=> e.whole)
    BY <1>2, TakenIs
  <2>2. out \in Seq(Entry)
    BY StreamTypes
  <2>3. /\ \A j \in DOMAIN out : out'[j] = out[j]
        /\ out'[Len(out) + 1] = e /\ DOMAIN out' = DOMAIN out \cup {Len(out) + 1}
    BY <2>1, <2>2, Longer
  <2>4. e.whole /\ e.kind \in Media => Muxable(e)
    <3> SUFFICES ASSUME e.whole, e.kind \in Media PROVE Muxable(e)
      OBVIOUS
    <3>1. CASE e.kind \in Video
      BY <3>1 DEF Muxable
    <3>2. CASE e.kind = "aac"
      <4>1. KindOf(buf[1]) = "aac"
        BY <2>1, <3>2 DEF Same, Packet
      <4>2. LooksLikeAdts(buf)
        BY <4>1, <2>1, <1>2, WholeLooks DEF Taken
      <4>3. Packet.adts = LooksLikeAdts(buf)
        BY DEF Packet
      <4> QED BY <2>1, <3>2, <4>2, <4>3 DEF Same, Muxable
    <3> QED BY <3>1, <3>2 DEF Media
  <2> QED BY <2>3, <2>4, Zenon DEF WholeOk
<1> QED BY <1>1, <1>2, ParserSteps, Zenon DEF SameParser, MorePayload, LessPayload, GivenUp

(***************************************************************************)
(* The invariant.                                                           *)
(***************************************************************************)

MediaIInv == MediaTypeOK /\ ParserOk /\ WorkOk /\ ConvertedOk /\ WholeOk

LEMMA MediaTypes == MediaTypeOK <=> StreamType /\ WorkType
  BY DEF MediaTypeOK, StreamType, WorkType

LEMMA MediaStart == MediaInit => MediaIInv
<1> SUFFICES ASSUME MediaInit PROVE MediaIInv
  OBVIOUS
<1>1. /\ sent \in Streams /\ faulty \in BOOLEAN /\ garbage \in Garbage
      /\ passed = 0 /\ lost = {} /\ buf = <<>> /\ out = <<>> /\ excused = {}
      /\ thread = "none" /\ phase = "keyframe" /\ first = <<>> /\ mux = NewMuxer
      /\ stop = FALSE /\ error = FALSE /\ streaming = FALSE
      /\ consumer \in {"viewer", "recorder", "converter"}
      /\ ~ faulty => \A i \in DOMAIN sent : sent[i].kind \notin {"broken", "junk"}
  BY DEF MediaInit
<1>2. DOMAIN <<>> = {} /\ Len(<<>>) = 0 /\ \A S : <<>> \in Seq(S)
  BY EmptySeq
<1>3. Size \in Nat
  BY <1>1, CellOf
<1>4. StreamType
  <2>1. passed \in 0 .. Size
    BY <1>1, <1>3
  <2> QED BY <1>1, <1>2, <2>1 DEF StreamType
<1>5. NewMuxer \in Muxer /\ MuxOk(NewMuxer) /\ NewMuxer.chunks = <<>>
  BY NewMuxerOk DEF NewMuxer
<1>6. WorkType
  BY <1>1, <1>2, <1>5 DEF WorkType
<1>7. Position(out) = 0 /\ Done(sent, out) = 0
  BY <1>1 DEF Position, Done
<1>8. ParserOk
  <2>1. Buffered(sent, passed, buf, out)
    BY <1>1, <1>2, <1>7, Zenon DEF Buffered, Increasing
  <2>2. Lossless(sent, faulty, passed, lost, buf, out)
    <3>1. Exact(sent, passed, buf, out)
      BY <1>1, <1>2, <1>7 DEF Exact
    <3> QED BY <1>1, <3>1 DEF Lossless, Sound
  <2>3. Together(sent, lost, passed, buf)
    BY <1>1, <1>2, Zenon DEF Together
  <2>4. Skipless(sent, passed, lost, buf, out, excused)
    <3>1. \A i \in DOMAIN sent : passed <= Before(sent, i)
      BY <1>1, Places
    <3> QED BY <3>1, Zenon DEF Skipless, Accounted
  <2> QED BY <2>1, <2>2, <2>3, <2>4 DEF ParserOk, Parser
<1>9. WorkOk
  <2>1. Firsts(first, out, consumer)
    BY <1>1, Nothing
  <2>2. Chunked(mux.chunks, first, out, consumer)
    BY <1>1, <1>2, <1>5, Zenon DEF Chunked
  <2>3. Phases(thread, phase, first, mux, consumer, stop, out)
    BY <1>1, <1>2, <1>5 DEF Phases
  <2> QED BY <1>1, <1>5, <2>1, <2>2, <2>3 DEF WorkOk
<1>10. ConvertedOk
  <2>1. \A i \in DOMAIN sent : ~ (i <= Position(out))
    BY <1>1, <1>7, Places
  <2>2. Copied(sent, out, first)
    BY <1>1, <1>2, <2>1 DEF Copied
  <2> QED BY <1>1, <2>2 DEF ConvertedOk, Converted
<1>11. WholeOk
  BY <1>1, <1>2 DEF WholeOk
<1> QED BY <1>4, <1>6, <1>8, <1>9, <1>10, <1>11, MediaTypes DEF MediaIInv

LEMMA MediaStep == MediaIInv /\ [MediaNext]_mediaVars => MediaIInv'
<1> SUFFICES ASSUME MediaIInv, [MediaNext]_mediaVars PROVE MediaIInv'
  OBVIOUS
<1>1. StreamType /\ ParserOk /\ WorkType /\ WorkOk /\ ConvertedOk /\ WholeOk
  BY MediaTypes DEF MediaIInv
<1>2. StreamType' /\ ParserOk'
  BY <1>1, ParserStep
<1>3. WorkType' /\ WorkOk'
  BY <1>1, WorkStep
<1>4. ConvertedOk'
  BY <1>1, ConvertStep
<1>5. MediaTypeOK'
  BY <1>2, <1>3 DEF MediaTypeOK, StreamType, WorkType
<1>6. WholeOk'
  BY <1>1, WholeStep
<1> QED BY <1>2, <1>3, <1>4, <1>5, <1>6 DEF MediaIInv

LEMMA MediaInvariant == MediaSpec => []MediaIInv
<1>1. MediaInit => MediaIInv
  BY MediaStart
<1>2. MediaIInv /\ [MediaNext]_mediaVars => MediaIInv'
  BY MediaStep
<1> QED BY <1>1, <1>2, PTL DEF MediaSpec

\* However the payloads are cut and lost, the variables have their types and a sound packet is
\* missing from what has been parsed only for a reason.
THEOREM ParserSkipsNothing == MediaSpec => []ParserInv
<1>1. MediaIInv => ParserInv
  <2> SUFFICES ASSUME MediaIInv PROVE ParserInv
    OBVIOUS
  <2>1. Skipless(sent, passed, lost, buf, out, excused) /\ MediaTypeOK
    BY DEF MediaIInv, ParserOk, Parser
  <2>2. NothingSkipped
    BY <2>1, Zenon DEF NothingSkipped, Skipless, Accounted
  <2> QED BY <2>1, <2>2 DEF ParserInv
<1> QED BY <1>1, MediaInvariant, PTL

\* What has been muxed can be played from its start, and what has been converted is all.
THEOREM MuxedPlays == MediaSpec => []Playable
<1>1. MediaIInv => Playable
  <2> SUFFICES ASSUME MediaIInv PROVE Playable
    OBVIOUS
  <2> DEFINE ch == mux.chunks
  <2>1. /\ Orderly(ch, mux.continuity, mux.audio_pts)
        /\ Firsts(first, out, consumer) /\ Chunked(ch, first, out, consumer)
        /\ Phases(thread, phase, first, mux, consumer, stop, out)
        /\ Converted(sent, faulty, buf, out, first, consumer, thread)
        /\ StreamType /\ WorkType
    BY MediaTypes DEF MediaIInv, WorkOk, MuxOk, ConvertedOk
  <2> HIDE DEF ch
  <2>2. ASSUME NEW k \in DOMAIN ch
        PROVE  /\ (k = 1 <=> ch[k].pid = PAT) /\ (k = 2 <=> ch[k].pid = PMT)
               /\ k > 2 => \E j \in DOMAIN out :
                               /\ out[j].of = ch[k].of /\ Muxable(out[j])
                               /\ ch[k].pid = PidOf(out[j].kind)
               /\ ch[k].pid = VIDEO => Keyed(ch[k].of)
    <3>1. (k = 1 <=> ch[k].pid = PAT) /\ (k = 2 <=> ch[k].pid = PMT)
      BY <2>1, <2>2, Zenon DEF Orderly
    <3>2. k > 2 => \E j \in DOMAIN out :
                      /\ out[j].of = ch[k].of /\ Muxable(out[j])
                      /\ ch[k].pid = PidOf(out[j].kind)
      <4>1. k > 2 => \E j \in DOMAIN out : Comes(ch[k], out[j])
        BY <2>1, <2>2 DEF Chunked
      <4> QED BY <4>1 DEF Comes
    <3>3. ch[k].pid = VIDEO => Keyed(ch[k].of)
      BY <2>1, <2>2 DEF Chunked, KeyedIn, Keyed
    <3> QED BY <3>1, <3>2, <3>3
  <2>3. ASSUME NEW j \in DOMAIN ch, NEW k \in DOMAIN ch
        PROVE  /\ 2 < j /\ j < k => ch[j].of < ch[k].of
               /\ Follows(ch, j, k) =>
                     ch[k].continuity = (ch[j].continuity + ch[j].packets) % 16
               /\ j < k /\ ch[j].pid = AUDIO /\ ch[k].pid = AUDIO => ch[j].pts < ch[k].pts
    BY <2>1, <2>3, Zenon DEF Orderly
  <2>4. ASSUME phase = "write", NEW j \in DOMAIN out, Muxable(out[j]), Keyed(out[j].of)
        PROVE  HasChunk(out[j])
    <3>1. consumer # "converter" /\ first = <<>>
      BY <2>1, <2>4 DEF Phases
    <3>2. KeyedIn(out, out[j].of)
      BY <2>4, Zenon DEF KeyedIn, Keyed
    <3>3. MuxedIn(ch, out[j]) \/ Among(first, out[j])
      BY <2>1, <2>4, <3>1, <3>2 DEF Chunked
    <3>4. ~ Among(first, out[j])
      <4>1. DOMAIN first = {}
        BY <3>1
      <4> QED BY <4>1, Zenon DEF Among
    <3>5. MuxedIn(mux.chunks, out[j])
      BY <3>3, <3>4 DEF ch
    <3> QED BY <3>5, Zenon DEF MuxedIn, HasChunk
  <2>5. ASSUME consumer = "converter", thread = "ended", ~ faulty
        PROVE  /\ {first[j].of : j \in DOMAIN first} = {i \in DOMAIN sent : sent[i].kind \in Media}
               /\ \A j, k \in DOMAIN first : j < k => first[j].of < first[k].of
    <3>1. Copied(sent, out, first) /\ Position(out) = Len(sent)
      BY <2>1, <2>5 DEF Converted
    <3>2. sent \in Streams
      BY <2>1 DEF StreamType
    <3>3. \A i \in DOMAIN sent : i <= Len(sent)
      BY <3>2, Places
    <3>4. \A i \in DOMAIN sent : sent[i].kind \in Media => \E j \in DOMAIN first : first[j].of = i
      BY <3>1, <3>3 DEF Copied
    <3>5. \A j \in DOMAIN first : first[j].of \in DOMAIN sent /\ sent[first[j].of].kind \in Media
      BY <3>1, Zenon DEF Copied
    <3>6. {first[j].of : j \in DOMAIN first} = {i \in DOMAIN sent : sent[i].kind \in Media}
      BY <3>4, <3>5
    <3> QED BY <3>6, <2>1, Zenon DEF Firsts
  <2>6. ch = mux.chunks
    BY DEF ch
  <2>7. \A j \in DOMAIN out : out[j].whole /\ out[j].kind \in Media => Muxable(out[j])
    BY DEF MediaIInv, WholeOk
  <2> QED BY <2>2, <2>3, <2>4, <2>5, <2>6, <2>7, Zenon DEF Playable
<1> QED BY <1>1, MediaInvariant, PTL

(***************************************************************************)
(* The refinement of OrderedStream.                                         *)
(***************************************************************************)

Numbers(from, n) == [k \in 1 .. n |-> from + k]
OfAll(o) == [k \in DOMAIN o |-> o[k].of]

\* The last packet of which a cell has left the camera.
IsBegun ==
    /\ passed = 0 => Begun = 0
    /\ passed # 0 => Begun \in DOMAIN sent /\ passed \in Before(sent, Begun) + 1 .. sent[Begun].end

LEMMA BegunIs == StreamType => IsBegun
<1> SUFFICES ASSUME StreamType, passed # 0
             PROVE  Begun \in DOMAIN sent /\ passed \in Before(sent, Begun) + 1 .. sent[Begun].end
  BY DEF IsBegun, Begun
<1>1. sent \in Streams /\ passed \in 1 .. Size
  BY StreamTypes
<1>2. Of(passed) \in DOMAIN sent /\ passed \in Before(sent, Of(passed)) + 1 .. sent[Of(passed)].end
  BY <1>1, CellOf
<1> QED BY <1>2 DEF Begun

LEMMA BegunOrder ==
  ASSUME sent \in Streams, NEW i \in DOMAIN sent, NEW j \in DOMAIN sent,
         NEW p, NEW q, p \in Before(sent, i) + 1 .. sent[i].end, q \in Before(sent, j) + 1 .. sent[j].end,
         p <= q
  PROVE  i <= j
<1> SUFFICES ASSUME ~ (i <= j) PROVE FALSE
  OBVIOUS
<1>1. i \in Nat /\ j \in Nat
  BY Places
<1>2. j < i
  BY <1>1
<1>3. sent[j].end <= Before(sent, i)
  BY <1>2, Rising
<1>4. /\ sent[j].end \in Nat
      /\ Before(sent, i) \in Nat
      /\ sent[i].end \in Nat
      /\ Before(sent, j) \in Nat
  BY Places
<1> QED BY <1>3, <1>4

\* It does not go back, and does not move without a cell.
LEMMA BegunMoves ==
  ASSUME StreamType, StreamType', sent' = sent, passed <= passed'
  PROVE  /\ Begun \in Nat
         /\ Begun' \in Nat
         /\ Begun <= Begun'
         /\ Begun <= Longest
         /\ Begun' <= Longest
         /\ passed' = passed => Begun' = Begun
<1>1. /\ sent \in Streams /\ passed \in Nat /\ Longest \in Nat /\ Len(sent) \in 1 .. Longest
      /\ DOMAIN sent = 1 .. Len(sent)
  <2>1. sent \in Streams /\ passed \in Nat
    BY StreamTypes
  <2>2. Longest \in Nat /\ Len(sent) \in 1 .. Longest
    BY <2>1, MediaAssumption
  <2> QED BY <2>1, <2>2, Places
<1>2. passed' \in Nat
  <2>1. Size \in Nat /\ Size' = Size
    BY <1>1, CellOf DEF Size
  <2> QED BY <2>1 DEF StreamType
<1>3. /\ passed = 0 => Begun = 0
      /\ passed # 0 => Begun \in DOMAIN sent /\ passed \in Before(sent, Begun) + 1 .. sent[Begun].end
  BY BegunIs DEF IsBegun
<1>4. /\ passed' = 0 => Begun' = 0
      /\ passed' # 0 => Begun' \in DOMAIN sent
                        /\ passed' \in Before(sent, Begun') + 1 .. sent[Begun'].end
  <2>1. StreamType' => IsBegun'
    BY BegunIs, PTL
  <2>2. /\ passed' = 0 => Begun' = 0
        /\ passed' # 0 => Begun' \in DOMAIN sent'
                          /\ passed' \in Before(sent', Begun') + 1 .. sent'[Begun'].end
    BY <2>1, Zenon DEF IsBegun, Before
  <2> QED BY <2>2
<1> DEFINE p == passed  q == passed'  b == Begun  c == Begun'
<1>5. /\ p \in Nat /\ q \in Nat /\ p <= q
      /\ p = 0 => b = 0
      /\ p # 0 => b \in DOMAIN sent /\ p \in Before(sent, b) + 1 .. sent[b].end
      /\ q = 0 => c = 0
      /\ q # 0 => c \in DOMAIN sent /\ q \in Before(sent, c) + 1 .. sent[c].end
  BY <1>1, <1>2, <1>3, <1>4
<1> HIDE DEF p, q, b, c
<1>6. b \in Nat /\ c \in Nat /\ b <= Longest /\ c <= Longest
  BY <1>1, <1>5
<1>7. b <= c
  <2>1. CASE p = 0
    BY <2>1, <1>5, <1>6
  <2>2. CASE p # 0
    <3>1. q # 0
      BY <2>2, <1>5
    <3> QED BY <2>2, <3>1, <1>1, <1>5, BegunOrder
  <2> QED BY <2>1, <2>2
<1>8. q = p => c = b
  <2> SUFFICES ASSUME q = p PROVE c = b
    OBVIOUS
  <2>1. CASE p = 0
    BY <2>1, <1>5
  <2>2. CASE p # 0
    <3>1. q <= p
      BY <1>5
    <3>2. c <= b
      BY <2>2, <3>1, <1>1, <1>5, BegunOrder
    <3> QED BY <3>2, <1>6, <1>7
  <2> QED BY <2>1, <2>2
<1> QED BY <1>6, <1>7, <1>8 DEF p, q, b, c

LEMMA NumbersAre ==
  ASSUME NEW from \in Nat, NEW n \in Nat
  PROVE  /\ Numbers(from, n) \in Seq(Nat) /\ Len(Numbers(from, n)) = n
         /\ \A k \in 1 .. n : Numbers(from, n)[k] = from + k
  BY DEF Numbers

LEMMA MoreNumbers ==
  ASSUME NEW b \in Nat, NEW c \in Nat, b < c
  PROVE  Numbers(0, c) = Numbers(0, b) \o Numbers(b, c - b)
<1> DEFINE n == c - b  s == Numbers(0, b)  t == Numbers(b, n)  u == Numbers(0, c)
<1>1. n \in Nat /\ b + n = c
  OBVIOUS
<1>2. /\ s \in Seq(Nat) /\ Len(s) = b /\ \A k \in 1 .. b : s[k] = 0 + k
      /\ t \in Seq(Nat) /\ Len(t) = n /\ \A k \in 1 .. n : t[k] = b + k
      /\ u \in Seq(Nat) /\ Len(u) = c /\ \A k \in 1 .. c : u[k] = 0 + k
  BY <1>1, NumbersAre
<1> HIDE DEF n, s, t, u
<1>3. /\ s \o t \in Seq(Nat) /\ Len(s \o t) = b + n
      /\ \A k \in 1 .. b + n : (s \o t)[k] = IF k <= b THEN s[k] ELSE t[k - b]
  <2>1. /\ s \o t \in Seq(Nat) /\ Len(s \o t) = Len(s) + Len(t)
        /\ \A k \in 1 .. Len(s) + Len(t) : (s \o t)[k] = IF k <= Len(s) THEN s[k] ELSE t[k - Len(s)]
    BY <1>2, ConcatProperties
  <2> QED BY <1>2, <2>1
<1>4. ASSUME NEW k \in 1 .. c PROVE u[k] = (s \o t)[k]
  <2>1. CASE k <= b
    BY <1>1, <1>2, <1>3, <2>1
  <2>2. CASE ~ (k <= b)
    <3>1. k - b \in 1 .. n /\ b + (k - b) = k
      BY <1>1, <2>2
    <3> QED BY <1>1, <1>2, <1>3, <2>2, <3>1
  <2> QED BY <2>1, <2>2
<1>5. u = s \o t
  BY <1>1, <1>2, <1>3, <1>4, SeqEqual
<1> QED BY <1>5 DEF n, s, t, u

\* The abstract stream, in these terms.
LEMMA AbstractIs ==
  /\ [k \in 1 .. Begun |-> k] = Numbers(0, Begun) \/ Begun \notin Nat
  /\ [k \in DOMAIN out |-> out[k].of] = OfAll(out)
  /\ (IF out = <<>> THEN 0 ELSE Last(out).of) = Position(out)
<1>1. ASSUME Begun \in Nat PROVE [k \in 1 .. Begun |-> k] = Numbers(0, Begun)
  <2>1. \A k \in 1 .. Begun : 0 + k = k
    BY <1>1
  <2> QED BY <2>1 DEF Numbers
<1> QED BY <1>1 DEF OfAll, Position

\* Cells of further packets are a Write: whole packets are what is written.
LEMMA PassingWrites ==
  ASSUME StreamType, StreamType', sent' = sent, faulty' = faulty, out' = out,
         passed <= passed', Begun' # Begun
  PROVE  Packets!Write
<1>1. /\ Begun \in Nat /\ Begun' \in Nat /\ Begun <= Begun' /\ Begun <= Longest /\ Begun' <= Longest
      /\ Longest \in Nat
  BY BegunMoves, MediaAssumption
<1> DEFINE b == Begun  c == Begun'  more == c - b
           w == [k \in 1 .. Begun |-> k]
<1>11. w = [k \in 1 .. b |-> k] /\ w' = [k \in 1 .. c |-> k]
  OBVIOUS
<1>9. b \in Nat /\ c \in Nat /\ b <= c /\ b <= Longest /\ c <= Longest /\ Longest \in Nat /\ c # b
  BY <1>1
<1> HIDE DEF b, c, w
<1>2. /\ b \in 0 .. Longest /\ more \in 1 .. Longest /\ b < c /\ b \in Nat /\ c \in Nat
  BY <1>9
<1>3. Numbers(0, c) = Numbers(0, b) \o Numbers(b, more)
  BY <1>2, MoreNumbers
<1>4. [k \in 1 .. b |-> k] = Numbers(0, b) /\ [k \in 1 .. c |-> k] = Numbers(0, c)
  <2>1. \A m \in Nat : \A k \in 1 .. m : 0 + k = k
    OBVIOUS
  <2>2. \A m \in Nat : [k \in 1 .. m |-> k] = Numbers(0, m)
    BY <2>1 DEF Numbers
  <2> QED BY <1>2, <2>2
<1> HIDE DEF more
<1>5. Numbers(b, more) \in Runs
  <2>1. Numbers(b, more) = [k \in 1 .. more |-> b + k]
    BY DEF Numbers
  <2> QED BY <1>2, <2>1 DEF Runs
<1>6. w' = w \o Numbers(b, more)
  BY <1>3, <1>4, <1>11
<1>7. /\ [k \in DOMAIN out' |-> out'[k].of] = [k \in DOMAIN out |-> out[k].of]
      /\ (IF out' = <<>> THEN 0 ELSE Last(out').of) = (IF out = <<>> THEN 0 ELSE Last(out).of)
  OBVIOUS
<1>8. \E m \in Runs : w' = w \o m
  BY <1>5, <1>6
<1> QED BY <1>7, <1>8 DEF Packets!Write, w

\* A packet parsed is a Deliver, of the next one when nothing is lost or malformed.
LEMMA ParsingDelivers ==
  ASSUME StreamType, StreamType', ParserOk, ParserOk', Taken, sent' = sent, faulty' = faulty
  PROVE  Packets!Deliver
<1>1. /\ Packet.of \in DOMAIN sent /\ out' \in Seq(Entry) /\ Position(out') = Packet.of
      /\ Position(out) < Packet.of
      /\ ~ faulty => Packet.of = Position(out) + 1
      /\ Parser(sent, faulty, passed, lost, buf', out', excused')
      /\ passed' = passed
  BY TakenIs DEF Taken
<1>2. PICK e \in Entry : e.of = Packet.of /\ out' = Append(out, e)
  BY TakenIs, Zenon DEF Same
<1>3. /\ sent \in Streams /\ passed \in Nat /\ out \in Seq(Entry) /\ Position(out) \in Nat
      /\ Packet.of \in Nat /\ Packet.of > 0 /\ passed \in 0 .. Size
  <2>1. /\ sent \in Streams
        /\ passed \in Nat
        /\ out \in Seq(Entry)
        /\ Position(out) \in DOMAIN sent \cup {0}
        /\ passed \in 0 .. Size
    BY StreamTypes DEF StreamType
  <2>2. DOMAIN sent \subseteq Nat \ {0}
    BY <2>1, Places
  <2>3. \A k \in Nat \ {0} : k \in Nat /\ k > 0
    OBVIOUS
  <2> QED BY <1>1, <2>1, <2>2, <2>3
<1>4. Begun \in Nat /\ Begun' = Begun
  <2>1. passed <= passed'
    BY <1>1, <1>3
  <2> QED BY <1>1, <2>1, BegunMoves
<1>5. Packet.of <= Begun
  <2> DEFINE i == Packet.of  a == Before(sent, i)
  <2>1. a + 1 <= passed
    <3>1. Position(out') # 0 => Before(sent, Position(out')) + 1 <= passed
      BY <1>1, Zenon DEF Parser, Buffered
    <3> QED BY <3>1, <1>1, <1>3
  <2>2. a \in Nat /\ sent[i].end \in Nat /\ a < sent[i].end
    BY <1>1, <1>3, Places
  <2>3. passed # 0 /\ a + 1 \in a + 1 .. sent[i].end
    BY <1>3, <2>1, <2>2
  <2>4. Begun \in DOMAIN sent /\ passed \in Before(sent, Begun) + 1 .. sent[Begun].end
    BY <2>3, BegunIs DEF IsBegun
  <2> HIDE DEF i, a
  <2>5. i <= Begun
    <3>1. i \in DOMAIN sent /\ a = Before(sent, i)
      BY <1>1 DEF i, a
    <3> QED BY <3>1, <1>3, <2>1, <2>3, <2>4, BegunOrder
  <2> QED BY <2>5 DEF i
<1> DEFINE to == Packet.of  from == to - 1  b == Begun
           w == [k \in 1 .. Begun |-> k]
           d == [k \in DOMAIN out |-> out[k].of]
<1>6. w \in Seq(Nat) /\ Len(w) = b /\ \A k \in 1 .. b : w[k] = k
  BY <1>4
<1>7. to \in 1 .. b /\ from \in 0 .. b /\ from < to /\ from + 1 = to
      /\ from \in Position(out) .. b /\ to \in Position(out) .. b
      /\ (~ faulty => from = Position(out))
  BY <1>1, <1>3, <1>4, <1>5
<1> HIDE DEF w, to, from, b
<1>8. SubSeq(w, from + 1, to) = <<to>>
  <2> DEFINE next == SubSeq(w, from + 1, to)
  <2>1. next \in Seq(Nat) /\ Len(next) = 1 /\ next[1] = to
    BY <1>3, <1>4, <1>6, <1>7 DEF b
  <2>2. <<to>> \in Seq(Nat) /\ Len(<<to>>) = 1 /\ <<to>>[1] = to
    BY <1>3 DEF to
  <2> HIDE DEF next
  <2>3. \A k \in 1 .. Len(next) : next[k] = <<to>>[k]
    BY <2>1, <2>2
  <2>4. next = <<to>>
    BY <2>1, <2>2, <2>3, SeqEqual
  <2> QED BY <2>4 DEF next
<1>9. [k \in DOMAIN out' |-> out'[k].of] = d \o SubSeq(w, from + 1, to)
  <2> DEFINE n == Len(out)  dd == [k \in DOMAIN out' |-> out'[k].of]
  <2>1. /\ n \in Nat /\ DOMAIN out = 1 .. n /\ DOMAIN out' = 1 .. n + 1
        /\ \A k \in 1 .. n : out'[k] = out[k]
        /\ out'[n + 1] = e
    <3>1. Len(out') = n + 1 /\ Len(out) \in Nat
      BY <1>2, <1>3, Longer, LenProperties
    <3>2. DOMAIN out = 1 .. n /\ DOMAIN out' = 1 .. Len(out')
      BY <1>1, <1>3, LenProperties
    <3>3. (\A k \in DOMAIN out : out'[k] = out[k]) /\ out'[n + 1] = e
      BY <1>2, <1>3, Longer
    <3> QED BY <3>1, <3>2, <3>3
  <2>2. \A k \in 1 .. n : out[k].of \in Nat
    <3>1. DOMAIN sent \subseteq Nat
      BY <1>3, Places
    <3>2. \A k \in DOMAIN out : out[k].of \in DOMAIN sent
      BY <1>3, LastOf DEF Entry
    <3> QED BY <3>1, <3>2, <2>1
  <2>3. d \in Seq(Nat) /\ Len(d) = n /\ \A k \in 1 .. n : d[k] = out[k].of
    <3>1. d = [k \in 1 .. n |-> out[k].of]
      BY <2>1
    <3> HIDE DEF d, n
    <3>2. d \in Seq(Nat)
      BY <2>1, <2>2, <3>1, IsASeq
    <3> QED BY <2>1, <3>1, <3>2
  <2>4. Append(d, to) = d \o <<to>> /\ Append(d, to) \in Seq(Nat) /\ Len(Append(d, to)) = n + 1
        /\ Append(d, to)[n + 1] = to /\ \A k \in 1 .. n : Append(d, to)[k] = d[k]
    <3>1. to \in Nat
      BY <1>3 DEF to
    <3> HIDE DEF d, n
    <3> QED BY <2>3, <3>1, AppendIsConcat, AppendProperties
  <2>5. dd \in Seq(Nat) /\ Len(dd) = n + 1 /\ dd[n + 1] = to /\ \A k \in 1 .. n : dd[k] = out[k].of
    <3>1. dd = [k \in 1 .. n + 1 |-> out'[k].of]
      BY <2>1
    <3>2. out'[n + 1].of = to
      BY <2>1, <1>2 DEF to
    <3>3. \A k \in 1 .. n + 1 : out'[k].of \in Nat
      <4>1. \A k \in 1 .. n + 1 : k \in 1 .. n \/ k = n + 1
        BY <2>1
      <4>2. to \in Nat
        BY <1>3 DEF to
      <4> QED BY <4>1, <4>2, <2>1, <2>2, <3>2
    <3> HIDE DEF dd, n
    <3>4. n + 1 \in Nat /\ \A k \in 1 .. n : k \in 1 .. n + 1
      BY <2>1
    <3>5. dd \in Seq(Nat)
      BY <3>1, <3>3, <3>4, IsASeq
    <3>6. Len(dd) = n + 1
      BY <3>1, <3>4, <3>5
    <3>7. dd[n + 1] = to /\ \A k \in 1 .. n : dd[k] = out[k].of
      <4>1. n + 1 \in 1 .. n + 1
        BY <2>1
      <4> QED BY <2>1, <3>1, <3>2, <3>4, <4>1
    <3> QED BY <3>5, <3>6, <3>7
  <2> HIDE DEF dd, d, n
  <2>6. ASSUME NEW k \in 1 .. n + 1 PROVE dd[k] = Append(d, to)[k]
    <3>1. k \in 1 .. n \/ k = n + 1
      BY <2>1
    <3> QED BY <3>1, <2>3, <2>4, <2>5
  <2>7. dd = Append(d, to)
    BY <2>1, <2>4, <2>5, <2>6, SeqEqual
  <2> QED BY <2>4, <2>7, <1>8 DEF dd
<1>10. [k \in 1 .. Begun' |-> k] = w
  BY <1>4 DEF w
<1>11. (IF out' = <<>> THEN 0 ELSE Last(out').of) = to
  BY <1>1 DEF Position, to
<1>12. (IF out = <<>> THEN 0 ELSE Last(out).of) = Position(out)
  BY DEF Position
<1>13. \E f, t \in Position(out) .. Len(w) :
         /\ f < t
         /\ ~ faulty => f = Position(out)
         /\ [k \in DOMAIN out' |-> out'[k].of] = d \o SubSeq(w, f + 1, t)
         /\ (IF out' = <<>> THEN 0 ELSE Last(out').of) = t
         /\ [k \in 1 .. Begun' |-> k] = w /\ faulty' = faulty
  BY <1>6, <1>7, <1>9, <1>10, <1>11
<1> QED BY <1>12, <1>13 DEF Packets!Deliver, w, d

\* MediaParser implements an ordered stream: packets come out in the order in which the camera
\* sent them and once each, and all of them when nothing is lost or malformed, however many
\* packets there are and however their bytes are cut into payloads (MediaParser.feed).
THEOREM MediaOrder == MediaSpec => ParsesInOrder
<1>1. MediaInit => Packets!Init
  <2> SUFFICES ASSUME MediaInit PROVE Packets!Init
    OBVIOUS
  <2>1. passed = 0 /\ out = <<>> /\ faulty \in BOOLEAN
    BY DEF MediaInit
  <2>2. [k \in 1 .. Begun |-> k] = <<>>
    BY <2>1 DEF Begun
  <2>3. [k \in DOMAIN out |-> out[k].of] = <<>>
    BY <2>1
  <2> QED BY <2>1, <2>2, <2>3 DEF Packets!Init
<1>2. MediaIInv /\ [MediaNext]_mediaVars => [Packets!Next]_(Packets!vars)
  <2> SUFFICES ASSUME MediaIInv, [MediaNext]_mediaVars PROVE [Packets!Next]_(Packets!vars)
    OBVIOUS
  <2>1. StreamType /\ ParserOk
    BY MediaTypes DEF MediaIInv
  <2>2. StreamType' /\ ParserOk'
    BY <2>1, ParserStep
  <2>3. /\ sent' = sent /\ faulty' = faulty
        /\ SameParser \/ MorePayload \/ LessPayload \/ GivenUp \/ Taken
    BY ParserSteps
  <2>4. CASE Taken
    BY <2>1, <2>2, <2>3, <2>4, ParsingDelivers DEF Packets!Next
  <2>5. CASE ~ Taken
    <3>1. out' = out
      BY <2>3, <2>5 DEF SameParser, MorePayload, LessPayload, GivenUp
    <3>2. passed <= passed' /\ passed' \in Nat
      <4>1. passed \in Nat /\ Size \in Nat
        BY <2>1, StreamTypes
      <4>2. passed' = passed \/ \E n \in 1 .. Size - passed : passed' = passed + n
        BY <2>3, <2>5 DEF SameParser, MorePayload, LessPayload, GivenUp
      <4> QED BY <4>1, <4>2
    <3>3. CASE Begun' = Begun
      <4>1. [k \in 1 .. Begun' |-> k] = [k \in 1 .. Begun |-> k]
        BY <3>3
      <4> QED BY <2>3, <3>1, <4>1 DEF Packets!vars
    <3>4. CASE Begun' # Begun
      BY <2>1, <2>2, <2>3, <3>1, <3>2, <3>4, PassingWrites DEF Packets!Next
    <3> QED BY <3>3, <3>4
  <2> QED BY <2>4, <2>5
<1> QED BY <1>1, <1>2, MediaInvariant, PTL DEF MediaSpec, ParsesInOrder, Packets!Spec

(***************************************************************************)
(* The inductive invariant.                                                 *)
(***************************************************************************)

\* The handler still writes what the producer queues, or is about to.
Serving == handler \in {"open", "buffer", "headers", "serve"}

\* Nothing is muxed before the producer starts, and it starts behind the first burst.
StartInv ==
    /\ producer = "none" => made = 0
    /\ handler \in {"open", "buffer"} => producer = "none"
    /\ Serving => ~ stop_event

\* The client has been written the first chunks of the stream.
WrittenInv ==
    /\ Len(written) <= queued
    /\ \A k \in 1 .. Len(written) : written[k] = k

\* While it is served, the queue holds the chunks that come next, and only what ends
\* the stream behind them.
QueueInv ==
    Serving =>
        /\ queued - Len(written) <= Len(chunks)
        /\ \A k \in 1 .. Len(chunks) :
              IF k <= queued - Len(written) THEN chunks[k] = Len(written) + k
                                            ELSE chunks[k] \in {End, Fault}
        /\ producer \in {"none", "feed", "next", "fail"} => Len(chunks) = queued - Len(written)
        /\ producer \in {"next", "fail", "end", "dead"} => queued = made

\* A handler that stops under a client that stayed was told so by the producer, which
\* muxes no more.
StoppedInv ==
    client # "gone" /\ ~ Serving => Len(written) = made /\ producer \in {"none", "end", "dead"}

IInv == TypeOK /\ StartInv /\ WrittenInv /\ QueueInv /\ StoppedInv

USE DirectAssumption

LEMMA InitIInv == Init => IInv
<1> SUFFICES ASSUME Init PROVE IInv
  OBVIOUS
<1>1. written = <<>> /\ chunks = <<>> /\ Len(written) = 0 /\ Len(chunks) = 0
  BY DEF Init
<1>2. TypeOK
  <2>1. <<>> \in Seq(Chunk) /\ <<>> \in Seq(Chunk \cup {End, Fault})
    BY EmptySeq
  <2>2. /\ chunks \in Seq(Chunk \cup {End, Fault}) /\ Len(chunks) <= QueueSize
        /\ written \in Seq(Chunk)
    BY <1>1, <2>1
  <2>3. made \in 0 .. MaxChunks /\ queued \in 0 .. made
    BY DEF Init
  <2>4. /\ handler \in {"open", "buffer", "headers", "serve", "stop", "join", "close", "done"}
        /\ producer \in {"none", "feed", "next", "fail", "end", "dead"}
        /\ stop_event \in BOOLEAN /\ started \in BOOLEAN
        /\ payloads \in {"none", "live", "finished"}
        /\ session \in BOOLEAN /\ routed \in BOOLEAN
        /\ client \in {"here", "stalled", "gone"}
    BY DEF Init
  <2> QED BY <2>2, <2>3, <2>4 DEF TypeOK
<1>3. made = 0 /\ queued = 0 /\ producer = "none"
  BY DEF Init
<1>4. StartInv /\ StoppedInv
  BY <1>1, <1>3 DEF Init, StartInv, StoppedInv, Serving
<1>5. WrittenInv /\ QueueInv
  <2>1. Len(written) = 0 /\ Len(chunks) = 0
    BY <1>1
  <2> QED BY <1>3, <2>1 DEF WrittenInv, QueueInv
<1> QED BY <1>2, <1>4, <1>5 DEF IInv

\* IInv does not depend on the camera, and survives a client that stalls or leaves.
LEMMA KeepsIInv ==
  ASSUME IInv, TypeOK', UNCHANGED <<handler, producer, chunks, stop_event, made, queued, written>>,
         client' = client \/ client' = "gone" \/ (client # "gone" /\ client' = "stalled")
  PROVE  IInv'
BY DEF IInv, TypeOK, StartInv, WrittenInv, QueueInv, StoppedInv, Serving

\* The steps of the handler that neither write nor begin the stream.
LEMMA HandlerIInv ==
  ASSUME IInv, \/ OpenCamera \/ OpenFails \/ BufferingFails \/ SendHeaders
               \/ ServeNull \/ StopProducer \/ JoinProducer \/ CloseCamera
  PROVE  IInv'
<1>1. UNCHANGED <<chunks, written, made, queued, producer, client>>
  BY DEF OpenCamera, OpenFails, BufferingFails, SendHeaders, ServeNull, StopProducer,
         JoinProducer, CloseCamera, producerVars, cameraVars
<1>2. TypeOK'
  <2>1. handler' \in {"open", "buffer", "headers", "serve", "stop", "join", "close", "done"}
    BY DEF OpenCamera, OpenFails, BufferingFails, SendHeaders, ServeNull, StopProducer,
           JoinProducer, CloseCamera
  <2>2. /\ started' = started /\ payloads' \in {payloads, "finished"}
        /\ stop_event' \in {stop_event, TRUE} /\ routed' \in {routed, FALSE}
    BY DEF OpenCamera, OpenFails, BufferingFails, SendHeaders, ServeNull, StopProducer,
           JoinProducer, CloseCamera, cameraVars
  <2>3. session' \in BOOLEAN
    <3>1. session \in BOOLEAN
      BY DEF IInv, TypeOK
    <3>2. CASE OpenCamera \/ OpenFails \/ BufferingFails \/ CloseCamera
      BY <3>2, Zenon DEF OpenCamera, OpenFails, BufferingFails, CloseCamera
    <3>3. CASE SendHeaders \/ ServeNull \/ StopProducer \/ JoinProducer
      BY <3>1, <3>3 DEF SendHeaders, ServeNull, StopProducer, JoinProducer, cameraVars
    <3> QED BY <3>2, <3>3
  <2>4. /\ started' \in BOOLEAN /\ stop_event' \in BOOLEAN /\ routed' \in BOOLEAN
        /\ payloads' \in {"none", "live", "finished"}
    BY <2>2 DEF IInv, TypeOK
  <2>5. /\ chunks' \in Seq(Chunk \cup {End, Fault}) /\ Len(chunks') <= QueueSize
        /\ made' \in 0 .. MaxChunks /\ queued' \in 0 .. made' /\ written' \in Seq(Chunk)
        /\ producer' \in {"none", "feed", "next", "fail", "end", "dead"}
        /\ client' \in {"here", "stalled", "gone"}
    BY <1>1 DEF IInv, TypeOK
  <2> QED BY <2>1, <2>3, <2>4, <2>5 DEF TypeOK
<1>3. Serving' => Serving /\ ~ stop_event'
  BY DEF IInv, StartInv, Serving, OpenCamera, OpenFails, BufferingFails, SendHeaders, ServeNull,
         StopProducer, JoinProducer, CloseCamera
<1>4. handler' \in {"open", "buffer"} => handler = "open"
  BY DEF OpenCamera, OpenFails, BufferingFails, SendHeaders, ServeNull,
         StopProducer, JoinProducer, CloseCamera
<1>5. client # "gone" /\ ~ Serving' => ~ Serving \/ handler \in {"open", "buffer"}
  BY DEF Serving, OpenCamera, OpenFails, BufferingFails, SendHeaders, ServeNull,
         StopProducer, JoinProducer, CloseCamera
<1>6. handler \in {"open", "buffer"} => producer = "none" /\ made = 0 /\ Len(written) = 0
  BY DEF IInv, TypeOK, StartInv, WrittenInv
<1>7. StartInv' /\ WrittenInv'
  BY <1>1, <1>3, <1>4 DEF IInv, StartInv, WrittenInv
<1>8. QueueInv'
  BY <1>1, <1>3 DEF IInv, QueueInv
<1>9. StoppedInv'
  BY <1>1, <1>5, <1>6 DEF IInv, StoppedInv
<1> QED BY <1>2, <1>7, <1>8, <1>9 DEF IInv

\* The first burst is muxed before the producer starts, and nothing of it is queued.
LEMMA BufferIInv ==
  ASSUME IInv, BufferInitialVideo
  PROVE  IInv'
<1>1. /\ handler = "buffer"
      /\ handler' = "headers"
      /\ producer' = "feed"
      /\ made' \in 1 .. BurstSize
      /\ payloads' = "live" /\ session' = TRUE /\ routed' = TRUE
      /\ UNCHANGED <<chunks, written, queued, stop_event, started, client>>
  BY DEF BufferInitialVideo
<1>2. producer = "none" /\ made = 0 /\ queued = 0 /\ Len(written) = 0
  BY <1>1 DEF IInv, TypeOK, StartInv, WrittenInv
<1>3. TypeOK'
  BY <1>1, <1>2 DEF IInv, TypeOK
<1> QED BY <1>1, <1>2, <1>3 DEF IInv, StartInv, WrittenInv, QueueInv, StoppedInv, Serving

\* What an item of the queue is: the next chunk, or the end behind the last of them.
LEMMA HeadOfQueue ==
  ASSUME IInv, handler = "serve", chunks # <<>>
  PROVE  /\ Len(chunks) >= 1 /\ Head(chunks) = chunks[1]
         /\ Head(chunks) \in Chunk => Head(chunks) = Len(written) + 1 /\ Len(written) < queued
         /\ Head(chunks) \notin Chunk =>
               Len(written) = queued /\ queued = made /\ producer \in {"end", "dead"}
<1>1. chunks \in Seq(Chunk \cup {End, Fault}) /\ written \in Seq(Chunk)
  BY DEF IInv, TypeOK
<1>2. Len(chunks) \in Nat /\ Len(chunks) >= 1 /\ Head(chunks) = chunks[1] /\ Len(written) \in Nat
  BY <1>1
<1>3. /\ Len(written) <= queued
      /\ queued \in Nat
      /\ queued <= made
      /\ made <= MaxChunks
      /\ made \in Nat
      /\ producer \in {"none", "feed", "next", "fail", "end", "dead"}
  BY DEF IInv, TypeOK, WrittenInv
<1>4. IF 1 <= queued - Len(written) THEN chunks[1] = Len(written) + 1 ELSE chunks[1] \in {End, Fault}
  BY <1>2 DEF IInv, QueueInv, Serving
<1>5. /\ producer \in {"none", "feed", "next", "fail"} => Len(chunks) = queued - Len(written)
      /\ producer \in {"next", "fail", "end", "dead"} => queued = made
  BY DEF IInv, QueueInv, Serving
<1>6. CASE 1 <= queued - Len(written)
  <2>1. chunks[1] \in Chunk
    BY <1>2, <1>3, <1>4, <1>6 DEF Chunk
  <2> QED BY <1>2, <1>3, <1>4, <1>6, <2>1
<1>7. CASE ~ (1 <= queued - Len(written))
  <2>1. chunks[1] \in {End, Fault} /\ Len(written) = queued
    BY <1>2, <1>3, <1>4, <1>7
  <2>2. chunks[1] \notin Chunk
    BY <2>1 DEF Chunk
  <2> QED BY <1>2, <1>3, <1>5, <2>1, <2>2
<1> QED BY <1>6, <1>7

LEMMA ServeIInv ==
  ASSUME IInv, ServeItem
  PROVE  IInv'
<1>1. /\ handler = "serve" /\ chunks # <<>> /\ chunks' = Tail(chunks)
      /\ UNCHANGED <<producer, made, queued, stop_event, payloads, session, routed, client>>
  BY DEF ServeItem, producerVars, cameraVars
<1>2. /\ chunks \in Seq(Chunk \cup {End, Fault}) /\ written \in Seq(Chunk)
      /\ Len(written) \in Nat /\ queued \in Nat /\ made \in Nat /\ Len(chunks) \in Nat
  BY DEF IInv, TypeOK
<1>3. /\ Len(chunks) >= 1 /\ Head(chunks) = chunks[1]
      /\ Head(chunks) \in Chunk => Head(chunks) = Len(written) + 1 /\ Len(written) < queued
      /\ Head(chunks) \notin Chunk =>
            Len(written) = queued /\ queued = made /\ producer \in {"end", "dead"}
  BY <1>1, HeadOfQueue
<1>4. /\ chunks' \in Seq(Chunk \cup {End, Fault}) /\ Len(chunks') = Len(chunks) - 1
      /\ \A k \in 1 .. Len(chunks') : chunks'[k] = chunks[k + 1]
  BY <1>1, <1>2, HeadTailProperties
<1>5. started' \in BOOLEAN
  BY DEF ServeItem
<1>6. CASE Head(chunks) \in Chunk /\ client # "gone"
  <2>1. written' = Append(written, Head(chunks)) /\ handler' = "serve"
    BY <1>1, <1>6 DEF ServeItem
  <2>2. /\ written' \in Seq(Chunk) /\ Len(written') = Len(written) + 1
        /\ written'[Len(written) + 1] = Head(chunks)
        /\ \A k \in 1 .. Len(written) : written'[k] = written[k]
    BY <1>2, <1>6, <2>1, AppendProperties
  <2>3. TypeOK'
    BY <1>1, <1>2, <1>4, <1>5, <2>1, <2>2 DEF IInv, TypeOK
  <2>4. StartInv' /\ StoppedInv'
    BY <1>1, <2>1 DEF IInv, StartInv, StoppedInv, Serving
  <2>5. WrittenInv'
    <3>1. ASSUME NEW k \in 1 .. Len(written) + 1 PROVE written'[k] = k
      <4>1. CASE k = Len(written) + 1
        BY <1>3, <1>6, <2>2, <4>1
      <4>2. CASE k \in 1 .. Len(written)
        BY <2>2, <4>2 DEF IInv, WrittenInv
      <4> QED BY <1>2, <4>1, <4>2
    <3> QED BY <1>1, <1>2, <1>3, <1>6, <2>2, <3>1 DEF WrittenInv
  <2>6. QueueInv'
    <3>1. /\ queued - Len(written) <= Len(chunks)
          /\ \A k \in 1 .. Len(chunks) :
                IF k <= queued - Len(written) THEN chunks[k] = Len(written) + k
                                              ELSE chunks[k] \in {End, Fault}
          /\ producer \in {"none", "feed", "next", "fail"} => Len(chunks) = queued - Len(written)
          /\ producer \in {"next", "fail", "end", "dead"} => queued = made
      BY <1>1 DEF IInv, QueueInv, Serving
    <3>2. ASSUME NEW k \in 1 .. Len(chunks')
          PROVE  IF k <= queued' - Len(written') THEN chunks'[k] = Len(written') + k
                                                 ELSE chunks'[k] \in {End, Fault}
      <4>1. k + 1 \in 1 .. Len(chunks) /\ chunks'[k] = chunks[k + 1] /\ k \in Nat
        BY <1>2, <1>4
      <4>2. IF k + 1 <= queued - Len(written) THEN chunks[k + 1] = Len(written) + (k + 1)
                                              ELSE chunks[k + 1] \in {End, Fault}
        BY <3>1, <4>1
      <4>3. /\ k + 1 <= queued - Len(written) <=> k <= queued' - Len(written')
            /\ Len(written) + (k + 1) = Len(written') + k
        BY <1>1, <1>2, <2>2, <4>1
      <4> QED BY <4>1, <4>2, <4>3
    <3>3. queued' - Len(written') <= Len(chunks')
      BY <1>1, <1>2, <1>4, <2>2, <3>1
    <3>4. producer' \in {"none", "feed", "next", "fail"} => Len(chunks') = queued' - Len(written')
      BY <1>1, <1>2, <1>4, <2>2, <3>1
    <3>5. producer' \in {"next", "fail", "end", "dead"} => queued' = made'
      BY <1>1, <3>1
    <3> QED BY <3>2, <3>3, <3>4, <3>5 DEF QueueInv
  <2> QED BY <2>3, <2>4, <2>5, <2>6 DEF IInv
<1>7. CASE ~ (Head(chunks) \in Chunk /\ client # "gone")
  <2>1. handler' = "stop" /\ written' = written
    BY <1>7 DEF ServeItem
  <2>2. TypeOK'
    BY <1>1, <1>2, <1>4, <1>5, <2>1 DEF IInv, TypeOK
  <2>3. StoppedInv'
    BY <1>1, <1>3, <1>7, <2>1 DEF StoppedInv
  <2> QED BY <1>1, <2>1, <2>2, <2>3 DEF IInv, StartInv, WrittenInv, QueueInv, Serving
<1> QED BY <1>6, <1>7

\* An item put into the queue goes behind what is there; a stopped producer puts none.
LEMMA PutAppends ==
  ASSUME IInv, NEW item \in Chunk \cup {End, Fault}, NEW reached, Put(item, reached)
  PROVE  /\ chunks' \in Seq(Chunk \cup {End, Fault}) /\ Len(chunks') <= QueueSize
         /\ Serving => /\ producer' = reached
                       /\ Len(chunks') = Len(chunks) + 1 /\ chunks'[Len(chunks) + 1] = item
                       /\ \A k \in 1 .. Len(chunks) : chunks'[k] = chunks[k]
         /\ producer' = reached \/ producer' = "end" \/ producer' = "dead"
<1>1. chunks \in Seq(Chunk \cup {End, Fault}) /\ Len(chunks) \in Nat /\ Len(chunks) <= QueueSize
  BY DEF IInv, TypeOK
<1>2. CASE stop_event
  BY <1>1, <1>2 DEF Put, IInv, StartInv
<1>3. CASE ~ stop_event
  <2>1. chunks' = Append(chunks, item) /\ Len(chunks) < QueueSize /\ producer' = reached
    BY <1>3 DEF Put
  <2>2. /\ chunks' \in Seq(Chunk \cup {End, Fault}) /\ Len(chunks') = Len(chunks) + 1
        /\ chunks'[Len(chunks) + 1] = item /\ \A k \in 1 .. Len(chunks) : chunks'[k] = chunks[k]
    BY <1>1, <2>1, AppendProperties
  <2> QED BY <1>1, <2>1, <2>2
<1> QED BY <1>2, <1>3

LEMMA PutChunkIInv ==
  ASSUME IInv, PutChunk
  PROVE  IInv'
<1>1. /\ producer = "feed" /\ queued < made /\ Put(queued + 1, "feed") /\ queued' = queued + 1
      /\ UNCHANGED <<handler, started, written, made, stop_event, cameraVars, client>>
  BY DEF PutChunk, handlerVars, cameraVars
<1>2. /\ queued \in Nat /\ made \in Nat /\ made <= MaxChunks /\ Len(written) \in Nat
      /\ Len(chunks) \in Nat /\ Len(written) <= queued
  BY DEF IInv, TypeOK, WrittenInv
<1>3. queued + 1 \in Chunk \cup {End, Fault}
  BY <1>1, <1>2 DEF Chunk
<1>4. /\ chunks' \in Seq(Chunk \cup {End, Fault}) /\ Len(chunks') <= QueueSize
      /\ Serving => /\ producer' = "feed"
                    /\ Len(chunks') = Len(chunks) + 1 /\ chunks'[Len(chunks) + 1] = queued + 1
                    /\ \A k \in 1 .. Len(chunks) : chunks'[k] = chunks[k]
      /\ producer' = "feed" \/ producer' = "end" \/ producer' = "dead"
  BY <1>1, <1>3, PutAppends
<1>5. TypeOK'
  BY <1>1, <1>2, <1>4 DEF IInv, TypeOK, cameraVars
<1>6. StartInv' /\ WrittenInv'
  BY <1>1, <1>2, <1>4 DEF IInv, StartInv, WrittenInv, Serving
<1>7. QueueInv'
  <2> SUFFICES ASSUME Serving'
               PROVE  /\ Len(chunks') = queued' - Len(written')
                      /\ producer' = "feed"
                      /\ \A k \in 1 .. Len(chunks') : chunks'[k] = Len(written') + k
    BY <1>1, <1>2 DEF QueueInv
  <2>1. Serving /\ Len(chunks) = queued - Len(written)
        /\ \A k \in 1 .. Len(chunks) : chunks[k] = Len(written) + k
    BY <1>1 DEF IInv, QueueInv, Serving
  <2>2. ASSUME NEW k \in 1 .. Len(chunks) + 1 PROVE chunks'[k] = Len(written) + k
    <3>1. CASE k = Len(chunks) + 1
      BY <1>2, <1>4, <2>1, <3>1
    <3>2. CASE k \in 1 .. Len(chunks)
      BY <1>4, <2>1, <3>2
    <3> QED BY <1>2, <3>1, <3>2
  <2> QED BY <1>1, <1>2, <1>4, <2>1, <2>2
<1>8. StoppedInv'
  BY <1>1 DEF IInv, StoppedInv, Serving
<1> QED BY <1>5, <1>6, <1>7, <1>8 DEF IInv

\* The end of the stream, or the failure in front of it.
LEMMA PutLastIInv ==
  ASSUME IInv, PutFault \/ PutEnd
  PROVE  IInv'
<1>1. /\ producer \in {"fail", "end"} /\ producer' \in {"end", "dead"}
      /\ \E item \in {End, Fault}, reached \in {"end", "dead"} : Put(item, reached)
      /\ UNCHANGED <<handler, started, written, made, queued, stop_event, cameraVars, client>>
  BY DEF PutFault, PutEnd, Put, handlerVars, cameraVars
<1>2. PICK item \in {End, Fault}, reached \in {"end", "dead"} : Put(item, reached)
  BY <1>1
<1>3. /\ queued \in Nat /\ made \in Nat /\ Len(written) \in Nat /\ Len(chunks) \in Nat
  BY DEF IInv, TypeOK
<1>4. /\ chunks' \in Seq(Chunk \cup {End, Fault}) /\ Len(chunks') <= QueueSize
      /\ Serving => /\ Len(chunks') = Len(chunks) + 1 /\ chunks'[Len(chunks) + 1] = item
                    /\ \A k \in 1 .. Len(chunks) : chunks'[k] = chunks[k]
  BY <1>2, PutAppends
<1>5. TypeOK'
  BY <1>1, <1>4 DEF IInv, TypeOK, cameraVars
<1>6. StartInv' /\ WrittenInv'
  BY <1>1 DEF IInv, StartInv, WrittenInv, Serving
<1>7. QueueInv'
  <2> SUFFICES ASSUME Serving'
               PROVE  /\ queued - Len(written) <= Len(chunks')
                      /\ queued = made
                      /\ \A k \in 1 .. Len(chunks') :
                            IF k <= queued - Len(written) THEN chunks'[k] = Len(written) + k
                                                          ELSE chunks'[k] \in {End, Fault}
    BY <1>1 DEF QueueInv
  <2>1. Serving /\ queued - Len(written) <= Len(chunks) /\ queued = made
        /\ \A k \in 1 .. Len(chunks) :
              IF k <= queued - Len(written) THEN chunks[k] = Len(written) + k
                                            ELSE chunks[k] \in {End, Fault}
    BY <1>1 DEF IInv, QueueInv, Serving
  <2>2. ASSUME NEW k \in 1 .. Len(chunks) + 1
        PROVE  IF k <= queued - Len(written) THEN chunks'[k] = Len(written) + k
                                             ELSE chunks'[k] \in {End, Fault}
    <3>1. CASE k = Len(chunks) + 1
      <4>1. ~ (k <= queued - Len(written)) /\ chunks'[k] = item
        BY <1>3, <1>4, <2>1, <3>1
      <4> QED BY <1>2, <4>1
    <3>2. CASE k \in 1 .. Len(chunks)
      BY <1>4, <2>1, <3>2
    <3> QED BY <1>3, <3>1, <3>2
  <2> QED BY <1>3, <1>4, <2>1, <2>2
<1>8. StoppedInv'
  BY <1>1 DEF IInv, StoppedInv, Serving
<1> QED BY <1>5, <1>6, <1>7, <1>8 DEF IInv

\* The producer's turn to the generator, and what the generator gives it.
LEMMA GeneratorIInv ==
  ASSUME IInv, NextPayload \/ Generator
  PROVE  IInv'
<1>1. /\ UNCHANGED <<handler, started, written, queued, chunks, stop_event, client>>
      /\ producer \in {"feed", "next"} /\ producer' # "none"
      /\ producer = "feed" => producer' = "next" /\ made' = made /\ queued = made
      /\ made' \in 0 .. MaxChunks /\ made <= made'
      /\ producer' \in {"feed", "next", "fail", "end"}
      /\ producer' \in {"next", "fail"} => made' = made
      /\ producer' = "end" => stop_event /\ made' = made
      /\ payloads' \in {payloads, "finished"} /\ session' \in BOOLEAN /\ routed' \in BOOLEAN
  <2>1. /\ made \in 0 .. MaxChunks /\ stop_event \in BOOLEAN /\ session \in BOOLEAN
        /\ routed \in BOOLEAN
    BY DEF IInv, TypeOK
  <2>2. CASE NextPayload
    BY <2>1, <2>2 DEF NextPayload, handlerVars, cameraVars
  <2>3. CASE Payload
    BY <2>1, <2>3 DEF Payload, handlerVars, cameraVars
  <2>4. CASE KeepaliveReopens
    BY <2>1, <2>4 DEF KeepaliveReopens, handlerVars, producerVars
  <2>5. CASE StreamReconnects
    BY <2>1, <2>5 DEF StreamReconnects, handlerVars, producerVars
  <2>6. CASE StreamFails
    <3>1. session' \in BOOLEAN /\ routed' \in BOOLEAN
      BY <2>6, Zenon DEF StreamFails
    <3>2. /\ UNCHANGED <<handler, started, written, queued, chunks, stop_event, client>>
          /\ producer = "next" /\ producer' = "fail" /\ made' = made /\ payloads' = "finished"
      BY <2>6 DEF StreamFails, handlerVars
    <3> QED BY <2>1, <3>1, <3>2
  <2> QED BY <2>2, <2>3, <2>4, <2>5, <2>6 DEF Generator
<1>2. TypeOK'
  BY <1>1 DEF IInv, TypeOK
<1>3. StartInv' /\ WrittenInv'
  BY <1>1 DEF IInv, StartInv, WrittenInv, Serving
<1>4. QueueInv'
  BY <1>1 DEF IInv, StartInv, QueueInv, Serving
<1>5. StoppedInv'
  BY <1>1 DEF IInv, StoppedInv, Serving
<1> QED BY <1>2, <1>3, <1>4, <1>5 DEF IInv

LEMMA NextIInv == IInv /\ [Next]_vars => IInv'
<1> SUFFICES ASSUME IInv, [Next]_vars PROVE IInv'
  OBVIOUS
<1>1. CASE BufferInitialVideo
  BY <1>1, BufferIInv
<1>2. CASE ServeItem
  BY <1>2, ServeIInv
<1>3. CASE Handler /\ ~ BufferInitialVideo /\ ~ ServeItem
  BY <1>3, HandlerIInv DEF Handler
<1>4. CASE PutChunk
  BY <1>4, PutChunkIInv
<1>5. CASE PutFault \/ PutEnd
  BY <1>5, PutLastIInv
<1>6. CASE NextPayload \/ Generator
  BY <1>6, GeneratorIInv
<1>7. CASE FinalizeGenerator \/ ClientStalls \/ ClientLeaves \/ UNCHANGED vars
  <2>1. /\ UNCHANGED <<handler, producer, chunks, stop_event, made, queued, written>>
        /\ client' = client \/ client' = "gone" \/ (client # "gone" /\ client' = "stalled")
    BY <1>7 DEF FinalizeGenerator, ClientStalls, ClientLeaves, vars, handlerVars, producerVars, cameraVars
  <2>2. TypeOK'
    <3>1. /\ UNCHANGED <<started, routed>>
          /\ payloads' \in {payloads, "finished"} /\ session' \in {session, TRUE}
      BY <1>7 DEF FinalizeGenerator, ClientStalls, ClientLeaves, vars, handlerVars, producerVars, cameraVars
    <3>2. /\ payloads' \in {"none", "live", "finished"} /\ session' \in BOOLEAN
          /\ client' \in {"here", "stalled", "gone"}
      BY <2>1, <3>1 DEF IInv, TypeOK
    <3>3. /\ chunks' \in Seq(Chunk \cup {End, Fault}) /\ Len(chunks') <= QueueSize
          /\ made' \in 0 .. MaxChunks /\ queued' \in 0 .. made' /\ written' \in Seq(Chunk)
      BY <2>1 DEF IInv, TypeOK
    <3>4. /\ handler' \in {"open", "buffer", "headers", "serve", "stop", "join", "close", "done"}
          /\ producer' \in {"none", "feed", "next", "fail", "end", "dead"}
          /\ stop_event' \in BOOLEAN /\ started' \in BOOLEAN /\ routed' \in BOOLEAN
      BY <2>1, <3>1 DEF IInv, TypeOK
    <3> QED BY <3>2, <3>3, <3>4 DEF TypeOK
  <2> QED BY <2>1, <2>2, KeepsIInv
<1> QED BY <1>1, <1>2, <1>3, <1>4, <1>5, <1>6, <1>7 DEF Next, Handler, Producer

LEMMA AlwaysIInv == Spec => []IInv
BY InitIInv, NextIInv, PTL DEF Spec

\* The handler never ends a client that stayed with muxed chunks unsent: a failure of
\* the camera, or the end, is taken from the queue behind the video (_serve_mpegts).
THEOREM NothingLost == Spec => []HandlerInv
<1>1. IInv => HandlerInv
  BY DEF IInv, StoppedInv, Serving, HandlerInv, NothingCutOff
<1> QED BY <1>1, AlwaysIInv, PTL

(***************************************************************************)
(* The refinement of OrderedStream.                                         *)
(***************************************************************************)
LEMMA MuxedSeq ==
  ASSUME IInv
  PROVE  Muxed \in Seq(Nat) /\ Len(Muxed) = made /\ \A k \in 1 .. made : Muxed[k] = k
BY DEF IInv, TypeOK, Muxed

\* Chunks muxed from one payload are a Write of the abstract stream.
LEMMA MuxWrites ==
  ASSUME IInv, NEW n \in 1 .. BurstSize, made' = made + n, UNCHANGED written
  PROVE  Stream!Write
<1> DEFINE burst == [k \in 1 .. n |-> made + k]
<1>1. made \in Nat /\ made \in 0 .. MaxChunks /\ n \in Nat
  BY DEF IInv, TypeOK
<1>2. burst \in Bursts
  BY <1>1 DEF Bursts
<1>3. burst \in Seq(Nat) /\ Len(burst) = n /\ \A k \in 1 .. n : burst[k] = made + k
  BY <1>1
<1> HIDE DEF burst
<1>4. Muxed' \in Seq(Nat) /\ Len(Muxed') = made + n /\ \A k \in 1 .. made + n : Muxed'[k] = k
  BY <1>1 DEF Muxed
<1>5. /\ Muxed \o burst \in Seq(Nat) /\ Len(Muxed \o burst) = made + n
      /\ \A k \in 1 .. made + n :
            (Muxed \o burst)[k] = IF k <= made THEN Muxed[k] ELSE burst[k - made]
  <2>1. Muxed \in Seq(Nat) /\ Len(Muxed) = made
    BY MuxedSeq
  <2>2. /\ Muxed \o burst \in Seq(Nat) /\ Len(Muxed \o burst) = Len(Muxed) + Len(burst)
        /\ \A k \in 1 .. Len(Muxed) + Len(burst) :
              (Muxed \o burst)[k] = IF k <= Len(Muxed) THEN Muxed[k] ELSE burst[k - Len(Muxed)]
    BY <1>3, <2>1, ConcatProperties
  <2> QED BY <1>3, <2>1, <2>2
<1>6. ASSUME NEW k \in 1 .. made + n PROVE Muxed'[k] = (Muxed \o burst)[k]
  <2>1. CASE k <= made
    BY <1>1, <1>4, <1>5, <2>1, MuxedSeq
  <2>2. CASE ~ (k <= made)
    <3>1. k - made \in 1 .. n /\ made + (k - made) = k
      BY <1>1, <2>2
    <3> QED BY <1>3, <1>4, <1>5, <2>2, <3>1
  <2> QED BY <2>1, <2>2
<1>7. Muxed' = Muxed \o burst
  BY <1>4, <1>5, <1>6, SeqEqual
<1> QED BY <1>2, <1>7 DEF Stream!Write

\* A chunk written to the client is a Deliver of the next one.
LEMMA ServeDelivers ==
  ASSUME IInv, ServeItem, written' # written
  PROVE  Stream!Deliver
<1>1. /\ handler = "serve" /\ chunks # <<>> /\ Head(chunks) \in Chunk
      /\ written' = Append(written, Head(chunks)) /\ made' = made
  BY DEF ServeItem, producerVars
<1>2. Head(chunks) = Len(written) + 1 /\ Len(written) < queued
  BY <1>1, HeadOfQueue
<1>3. /\ written \in Seq(Nat)
      /\ Len(written) \in Nat
      /\ made \in Nat
      /\ queued <= made
      /\ queued \in Nat
  BY DEF IInv, TypeOK, Chunk
<1> DEFINE from == Len(written)
           to == from + 1
<1>4. from \in 0 .. made /\ to \in 1 .. made /\ from < to
  BY <1>2, <1>3
<1>5. SubSeq(Muxed, from + 1, to) = <<to>>
  <2> DEFINE next == SubSeq(Muxed, from + 1, to)
  <2>1. next \in Seq(Nat) /\ Len(next) = 1 /\ next[1] = to
    BY <1>3, <1>4, MuxedSeq
  <2>2. <<to>> \in Seq(Nat) /\ Len(<<to>>) = 1 /\ <<to>>[1] = to
    BY <1>3
  <2> HIDE DEF from, to, next
  <2>3. \A k \in 1 .. Len(next) : next[k] = <<to>>[k]
    BY <2>1, <2>2
  <2>4. next = <<to>>
    BY <2>1, <2>2, <2>3, SeqEqual
  <2> QED BY <2>4 DEF next
<1>6. written' = written \o SubSeq(Muxed, from + 1, to) /\ Len(written') = to
  <2>1. written' = Append(written, to) /\ to \in Nat
    BY <1>1, <1>2, <1>3
  <2>2. Append(written, to) = written \o <<to>> /\ Len(Append(written, to)) = Len(written) + 1
    BY <1>3, <2>1, AppendIsConcat, AppendProperties
  <2> QED BY <1>5, <2>1, <2>2
<1>7. Muxed' = Muxed
  BY <1>1 DEF Muxed
<1>8. from \in from .. Len(Muxed) /\ to \in from .. Len(Muxed)
  BY <1>3, <1>4, MuxedSeq
<1> QED
  <2> SUFFICES \E f, t \in Len(written) .. Len(Muxed) :
                 /\ f < t
                 /\ ~ FALSE => f = Len(written)
                 /\ written' = written \o SubSeq(Muxed, f + 1, t)
                 /\ Len(written') = t
                 /\ Muxed' = Muxed
    BY DEF Stream!Deliver
  <2> QED BY <1>4, <1>6, <1>7, <1>8

\* Every other step leaves the abstract stream as it is.
LEMMA OthersStutter ==
  ASSUME IInv, [Next]_vars, ~ BufferInitialVideo, ~ Payload, ~ ServeItem
  PROVE  UNCHANGED <<written, made>>
BY DEF Next, Handler, Producer, Generator, OpenCamera, OpenFails, BufferingFails, SendHeaders,
       ServeNull, StopProducer, JoinProducer, CloseCamera, PutChunk, NextPayload, PutFault, PutEnd,
       KeepaliveReopens, StreamReconnects, StreamFails, FinalizeGenerator, ClientStalls, ClientLeaves,
       vars, handlerVars, producerVars, cameraVars

\* The direct stream implements an ordered stream: the client is written the chunks
\* in the order they were muxed, each once and none left out, whatever the sizes of
\* the queue and of the bursts (_put_stream_item, _serve_mpegts).
THEOREM Refinement == Spec => ImplementsStream
<1>1. Init => Stream!Init
  <2> SUFFICES ASSUME Init PROVE Stream!Init
    OBVIOUS
  <2>1. Muxed = <<>> /\ written = <<>>
    BY DEF Init, Muxed
  <2> QED BY <2>1 DEF Stream!Init
<1>2. IInv /\ [Next]_vars => [Stream!Next]_(Stream!vars)
  <2> SUFFICES ASSUME IInv, [Next]_vars PROVE [Stream!Next]_(Stream!vars)
    OBVIOUS
  <2>1. CASE UNCHANGED <<written, made>>
    <3>1. Muxed' = Muxed
      BY <2>1 DEF Muxed
    <3> QED BY <2>1, <3>1 DEF Stream!vars
  <2>2. CASE ServeItem /\ written' # written
    BY <2>2, ServeDelivers DEF Stream!Next
  <2>3. CASE ServeItem /\ written' = written
    BY <2>1, <2>3 DEF ServeItem, producerVars
  <2>4. CASE (BufferInitialVideo \/ Payload) /\ made' # made
    <3>1. UNCHANGED written /\ \E n \in 1 .. BurstSize : made' = made + n
      <4>1. CASE Payload
        <5>1. /\ UNCHANGED written
              /\ made' \in made .. made + BurstSize
              /\ made \in Nat
              /\ made' # made
          BY <2>4, <4>1 DEF IInv, TypeOK, Payload, handlerVars
        <5>2. \A a \in Nat : \A b \in a .. a + BurstSize :
                 b # a => \E n \in 1 .. BurstSize : b = a + n
          <6> SUFFICES ASSUME NEW a \in Nat, NEW b \in a .. a + BurstSize, b # a
                       PROVE  \E n \in 1 .. BurstSize : b = a + n
            OBVIOUS
          <6>1. b - a \in 1 .. BurstSize /\ b = a + (b - a)
            OBVIOUS
          <6> QED BY <6>1
        <5> QED BY <5>1, <5>2, Zenon
      <4>2. CASE BufferInitialVideo
        <5>1. UNCHANGED written /\ made = 0 /\ made' \in 1 .. BurstSize
          BY <4>2 DEF IInv, StartInv, BufferInitialVideo
        <5>2. \A n \in 1 .. BurstSize : n = 0 + n
          OBVIOUS
        <5> QED BY <5>1, <5>2, Zenon
      <4> QED BY <2>4, <4>1, <4>2
    <3> QED BY <3>1, MuxWrites DEF Stream!Next
  <2>5. CASE (BufferInitialVideo \/ Payload) /\ made' = made
    BY <2>1, <2>5 DEF BufferInitialVideo, Payload, handlerVars
  <2> QED BY <2>1, <2>2, <2>3, <2>4, <2>5, OthersStutter
<1> QED BY <1>1, <1>2, AlwaysIInv, PTL DEF Spec, ImplementsStream, Stream!Spec

=============================================================================
