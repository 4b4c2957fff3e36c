---------------------------- MODULE SdCard_proofs ----------------------------
(***************************************************************************)
(* Machine-checked proofs about SdLibrary and SdPreview.                    *)
(***************************************************************************)
EXTENDS SdLibrary, SdPreview, SequenceTheorems, FiniteSetTheorems, WellFoundedInduction, TLAPS

(***************************************************************************)
(* Numbers.                                                                 *)
(***************************************************************************)

\* The larger of two numbers.
LEMMA MaxOfTwo ==
  ASSUME NEW a \in Int, NEW b \in Int
  PROVE  Max({a, b}) = IF a >= b THEN a ELSE b
<1> DEFINE m == IF a >= b THEN a ELSE b
<1>1. m \in {a, b} /\ \A y \in {a, b} : m >= y
  OBVIOUS
<1>2. \A x \in {a, b} : (\A y \in {a, b} : x >= y) => x = m
  OBVIOUS
<1> HIDE DEF m
<1>3. Max({a, b}) = m
  BY <1>1, <1>2 DEF Max
<1> QED BY <1>3 DEF m

\* The smaller of two numbers.
LEMMA MinOfTwo ==
  ASSUME NEW a \in Int, NEW b \in Int
  PROVE  Min({a, b}) = IF a <= b THEN a ELSE b
<1> DEFINE m == IF a <= b THEN a ELSE b
<1>1. m \in {a, b} /\ \A y \in {a, b} : m <= y
  OBVIOUS
<1>2. \A x \in {a, b} : (\A y \in {a, b} : x <= y) => x = m
  OBVIOUS
<1> HIDE DEF m
<1>3. Min({a, b}) = m
  BY <1>1, <1>2 DEF Min
<1> QED BY <1>3 DEF m

\* The least of three numbers is at most each of them.
LEMMA MinOfThree ==
  ASSUME NEW a \in Int, NEW b \in Int, NEW c \in Int
  PROVE  Min({a, b, c}) \in Int /\ Min({a, b, c}) <= a /\ Min({a, b, c}) <= b /\ Min({a, b, c}) <= c
<1>1. PICK m \in {a, b, c} : \A y \in {a, b, c} : m <= y
  <2>1. CASE a <= b /\ a <= c
    BY <2>1
  <2>2. CASE b <= a /\ b <= c
    BY <2>2
  <2>3. CASE c <= a /\ c <= b
    BY <2>3
  <2> QED BY <2>1, <2>2, <2>3
<1>2. Min({a, b, c}) \in {a, b, c} /\ \A y \in {a, b, c} : Min({a, b, c}) <= y
  BY <1>1 DEF Min
<1> QED BY <1>2

\* A set of numbers up to n that is not empty has a greatest one.
LEMMA MaxIn ==
  ASSUME NEW n \in Nat, NEW G \in SUBSET (1 .. n), G # {}
  PROVE  Max(G) \in G /\ \A y \in G : Max(G) >= y
<1> DEFINE R == OpToRel(<, Nat)
           H == {n - y : y \in G}
<1>1. H \subseteq Nat /\ H # {}
  <2>1. \A y \in G : y \in Nat /\ n - y \in Nat
    OBVIOUS
  <2>2. PICK y \in G : TRUE
    OBVIOUS
  <2>3. n - y \in H
    BY <2>2, Zenon
  <2> QED BY <2>1, <2>3
<1>2. \E m \in H : \A y \in H : <<y, m>> \notin R
  <2>1. IsWellFoundedOn(R, Nat)
    BY NatLessThanWellFounded
  <2> HIDE DEF R, H
  <2> QED BY <2>1, <1>1, WFMin
<1>3. \A y, m \in Nat : y < m => <<y, m>> \in R
  BY DEF OpToRel
<1>4. PICK h \in H : \A y \in H : ~ (y < h)
  <2> HIDE DEF H, R
  <2> QED BY <1>1, <1>2, <1>3
<1>4a. PICK m \in G : h = n - m
  BY <1>4, Zenon
<1>5. \A y \in G : m >= y
  <2> SUFFICES ASSUME NEW y \in G PROVE m >= y
    OBVIOUS
  <2>1. n - y \in H
    BY Zenon
  <2>2. ~ (n - y < n - m)
    BY <2>1, <1>4, <1>4a
  <2> QED BY <2>2
<1> QED BY <1>5 DEF Max

(***************************************************************************)
(* Sequences.                                                               *)
(***************************************************************************)

\* Induction, of a set of counterexamples.
LEMMA Descent ==
  ASSUME NEW G, G \subseteq Nat, 0 \notin G, \A n \in Nat : n + 1 \in G => n \in G
  PROVE  G = {}
<1> SUFFICES ASSUME G # {} PROVE FALSE
  OBVIOUS
<1> DEFINE R == OpToRel(<, Nat)
<1>1. \E m \in G : \A y \in G : <<y, m>> \notin R
  <2>1. IsWellFoundedOn(R, Nat)
    BY NatLessThanWellFounded
  <2> HIDE DEF R
  <2> QED BY <2>1, WFMin
<1>2. \A y, m \in Nat : y < m => <<y, m>> \in R
  BY DEF OpToRel
<1> HIDE DEF R
<1>3. PICK m \in G : \A y \in G : ~ (y < m)
  BY <1>1, <1>2
<1>4. m \in Nat /\ m # 0
  OBVIOUS
<1>5. m - 1 \in Nat /\ (m - 1) + 1 = m /\ m - 1 < m
  BY <1>4
<1> QED BY <1>3, <1>5

\* Of a finite set of numbers as many as it has elements can be counted off.
LEMMA CountedOff ==
  ASSUME NEW n \in Nat, NEW kept \in SUBSET (1 .. n)
  PROVE  /\ IsFiniteSet(kept) /\ Cardinality(kept) \in Nat
         /\ \A i \in kept : Cardinality({j \in kept : j <= i}) \in 1 .. Cardinality(kept)
         /\ \A i, x \in kept : i < x =>
               Cardinality({j \in kept : j <= i}) < Cardinality({j \in kept : j <= x})
         /\ \A k \in 1 .. Cardinality(kept) : \E i \in kept : Cardinality({j \in kept : j <= i}) = k
<1> DEFINE before(i) == {j \in kept : j <= i}
           c(i) == Cardinality(before(i))
<1>1. IsFiniteSet(kept) /\ Cardinality(kept) \in Nat
  <2>1. IsFiniteSet(1 .. n)
    BY FS_Interval
  <2> QED BY <2>1, FS_Subset, FS_CardinalityType
<1>2. \A j \in kept : j \in Nat /\ 1 <= j /\ j <= n
  OBVIOUS
<1>3. \A i \in Nat : IsFiniteSet(before(i)) /\ c(i) \in Nat /\ c(i) <= Cardinality(kept)
  BY <1>1, FS_Subset, FS_CardinalityType
<1>4. \A i, x \in Nat : i <= x => c(i) <= c(x)
  <2> SUFFICES ASSUME NEW i \in Nat, NEW x \in Nat, i <= x PROVE c(i) <= c(x)
    OBVIOUS
  <2>0. \A j \in kept : j <= i => j <= x
    BY <1>2
  <2>1. before(i) \subseteq before(x)
    BY <2>0
  <2> HIDE DEF before
  <2> QED BY <2>1, <1>3, FS_Subset
<1>5. \A i \in Nat : c(i + 1) = IF i + 1 \in kept THEN c(i) + 1 ELSE c(i)
  <2> SUFFICES ASSUME NEW i \in Nat PROVE c(i + 1) = IF i + 1 \in kept THEN c(i) + 1 ELSE c(i)
    OBVIOUS
  <2>1. \A j \in kept : j <= i + 1 <=> j <= i \/ j = i + 1
    BY <1>2
  <2>2. i + 1 \notin before(i)
    OBVIOUS
  <2>3. CASE i + 1 \in kept
    <3>1. before(i + 1) = before(i) \cup {i + 1}
      BY <2>1, <2>3
    <3> HIDE DEF before
    <3> QED BY <3>1, <2>2, <2>3, <1>3, FS_AddElement
  <2>4. CASE i + 1 \notin kept
    <3>1. before(i + 1) = before(i)
      BY <2>1, <2>4
    <3> QED BY <3>1, <2>4
  <2> QED BY <2>3, <2>4
<1>6. c(0) = 0 /\ c(n) = Cardinality(kept)
  <2>1. before(0) = {} /\ before(n) = kept
    <3>1. \A j \in kept : ~ (j <= 0) /\ j <= n
      BY <1>2
    <3> QED BY <3>1
  <2> QED BY <2>1, FS_EmptySet
<1> HIDE DEF c
<1>7. \A i, x \in kept : i < x => c(i) < c(x)
  <2> SUFFICES ASSUME NEW i \in kept, NEW x \in kept, i < x PROVE c(i) < c(x)
    OBVIOUS
  <2>1. x - 1 \in Nat /\ i <= x - 1 /\ (x - 1) + 1 = x /\ i \in Nat /\ x \in Nat
    BY <1>2
  <2>2. c(i) <= c(x - 1)
    BY <2>1, <1>4
  <2>3. c((x - 1) + 1) = c(x - 1) + 1
    <3> DEFINE y == x - 1
    <3>1. y \in Nat /\ y + 1 \in kept
      BY <2>1
    <3> HIDE DEF y
    <3>2. c(y + 1) = c(y) + 1
      BY <3>1, <1>5
    <3> QED BY <3>2 DEF y
  <2>4. c(x) = c(x - 1) + 1
    BY <2>1, <2>3
  <2>5. c(i) \in Nat /\ c(x - 1) \in Nat
    BY <2>1, <1>3 DEF c
  <2> QED BY <2>2, <2>4, <2>5
<1>8. \A i \in kept : c(i) \in 1 .. Cardinality(kept)
  <2> SUFFICES ASSUME NEW i \in kept PROVE c(i) \in 1 .. Cardinality(kept)
    OBVIOUS
  <2>1. i - 1 \in Nat /\ (i - 1) + 1 = i /\ i \in Nat
    BY <1>2
  <2>2. c(i) = c(i - 1) + 1 /\ c(i - 1) \in Nat /\ c(i) <= Cardinality(kept)
    <3>1. c(i) = c(i - 1) + 1
      BY <2>1, <1>5
    <3>2. c(i - 1) \in Nat /\ c(i) <= Cardinality(kept)
      BY <2>1, <1>3 DEF c
    <3> QED BY <3>1, <3>2
  <2> QED BY <2>2, <1>1
<1>9. \A k \in 1 .. Cardinality(kept) : \E i \in kept : c(i) = k
  <2> SUFFICES ASSUME NEW k \in 1 .. Cardinality(kept), \A i \in kept : c(i) # k PROVE FALSE
    OBVIOUS
  <2> DEFINE G == {i \in Nat : c(i) >= k}
  <2>1. 0 \notin G
    BY <1>6
  <2>2. \A i \in Nat : i + 1 \in G => i \in G
    <3> SUFFICES ASSUME NEW i \in Nat, c(i + 1) >= k PROVE c(i) >= k
      OBVIOUS
    <3>1. c(i) \in Nat /\ c(i + 1) \in Nat
      BY <1>3 DEF c
    <3>2. CASE i + 1 \in kept
      <4>1. c(i + 1) # k /\ c(i + 1) = c(i) + 1
        BY <3>2, <1>5
      <4> QED BY <3>1, <4>1
    <3> QED BY <3>2, <1>5
  <2>3. n \in G
    BY <1>6, <1>1
  <2>4. G = {}
    <3> HIDE DEF G
    <3>1. G \subseteq Nat
      BY DEF G
    <3> QED BY <2>1, <2>2, <3>1, Descent
  <2> QED BY <2>3, <2>4
<1> QED BY <1>1, <1>7, <1>8, <1>9 DEF c

\* What is kept of a sequence: its elements in the set, all of them, and none twice that is
\* not twice there.
LEMMA KeptFacts ==
  ASSUME NEW T, NEW s \in Seq(T), NEW S
  PROVE  /\ Kept(s, S) \in Seq(T)
         /\ ToSet(Kept(s, S)) = ToSet(s) \cap S
         /\ (\A i, j \in DOMAIN s : s[i] = s[j] => i = j) =>
               \A i, j \in DOMAIN Kept(s, S) : Kept(s, S)[i] = Kept(s, S)[j] => i = j
<1> DEFINE kept == {i \in 1 .. Len(s) : s[i] \in S}
           count(i) == Cardinality({j \in kept : j <= i})
           place(k) == CHOOSE i \in kept : count(i) = k
           m == Cardinality(kept)
           q == Kept(s, S)
<1>1. Len(s) \in Nat /\ kept \in SUBSET (1 .. Len(s)) /\ DOMAIN s = 1 .. Len(s)
  OBVIOUS
<1>2. /\ m \in Nat /\ \A i \in kept : count(i) \in 1 .. m
      /\ \A i, x \in kept : i < x => count(i) < count(x)
      /\ \A k \in 1 .. m : \E i \in kept : count(i) = k
  <2> HIDE DEF kept
  <2> QED BY <1>1, CountedOff
<1>3. q = [k \in 1 .. m |-> s[place(k)]]
  BY DEF Kept
<1>4. \A i \in kept : i \in DOMAIN s /\ i \in Nat /\ s[i] \in S /\ s[i] \in T
  BY <1>1, ElementOfSeq
<1>5. \A i \in DOMAIN s : s[i] \in S => i \in kept
  BY <1>1
<1> HIDE DEF kept, count
<1>6. \A k \in 1 .. m : place(k) \in kept /\ count(place(k)) = k
  BY <1>2
<1>7. \A i \in kept : place(count(i)) = i
  <2> SUFFICES ASSUME NEW i \in kept PROVE place(count(i)) = i
    OBVIOUS
  <2>1. place(count(i)) \in kept /\ count(place(count(i))) = count(i)
    BY <1>2, <1>6
  <2> DEFINE x == place(count(i))
  <2> HIDE DEF place
  <2>2. x \in Nat /\ i \in Nat /\ count(i) \in Int /\ ~ (count(i) < count(i))
    BY <1>2, <1>4, <2>1
  <2>3. ~ (x < i) /\ ~ (i < x)
    BY <1>2, <2>1, <2>2
  <2> QED BY <2>2, <2>3
<1> HIDE DEF place, m
<1>8. \A k \in 1 .. m : s[place(k)] \in T /\ s[place(k)] \in S /\ place(k) \in DOMAIN s
  BY <1>4, <1>6
<1>9. q \in Seq(T) /\ DOMAIN q = 1 .. m
  <2>1. q \in [1 .. m -> T]
    BY <1>3, <1>8
  <2> HIDE DEF q
  <2> QED BY <1>2, <2>1
<1>10. ToSet(q) = ToSet(s) \cap S
  <2>1. ASSUME NEW x \in ToSet(q) PROVE x \in ToSet(s) \cap S
    <3>1. PICK k \in 1 .. m : x = q[k]
      BY <1>9 DEF ToSet
    <3> QED BY <3>1, <1>3, <1>8 DEF ToSet
  <2>2. ASSUME NEW x \in ToSet(s) \cap S PROVE x \in ToSet(q)
    <3>1. PICK i \in DOMAIN s : x = s[i]
      BY DEF ToSet
    <3>2. i \in kept /\ count(i) \in 1 .. m /\ place(count(i)) = i
      BY <3>1, <1>2, <1>5, <1>7
    <3>3. q[count(i)] = x
      BY <3>1, <3>2, <1>3
    <3> QED BY <3>2, <3>3, <1>9 DEF ToSet
  <2> QED BY <2>1, <2>2
<1>11. ASSUME \A i, j \in DOMAIN s : s[i] = s[j] => i = j, NEW i \in 1 .. m, NEW j \in 1 .. m, q[i] = q[j]
       PROVE  i = j
  <2>1. s[place(i)] = s[place(j)]
    BY <1>3, <1>11
  <2>2. place(i) = place(j)
    BY <2>1, <1>8, <1>11
  <2> QED BY <2>2, <1>6
<1> QED BY <1>9, <1>10, <1>11 DEF q

\* A sequence by its elements.
LEMMA InSeq ==
  ASSUME NEW T, NEW s \in Seq(T)
  PROVE  /\ Len(s) \in Nat /\ DOMAIN s = 1 .. Len(s)
         /\ \A i \in DOMAIN s : s[i] \in T
         /\ ToSet(s) \subseteq T /\ s \in Seq(ToSet(s))
         /\ s = <<>> <=> ToSet(s) = {}
         /\ s = <<>> <=> Len(s) = 0
<1>1. Len(s) \in Nat /\ DOMAIN s = 1 .. Len(s) /\ \A i \in DOMAIN s : s[i] \in T
  BY ElementOfSeq
<1>2. ToSet(s) = {s[i] : i \in DOMAIN s}
  BY DEF ToSet
<1>3. s \in [1 .. Len(s) -> ToSet(s)]
  BY <1>1, <1>2
<1>4. s \in Seq(ToSet(s))
  BY <1>1, <1>3
<1>5. s = <<>> <=> Len(s) = 0
  BY <1>1, EmptySeq
<1>6. Len(s) = 0 <=> ToSet(s) = {}
  BY <1>1, <1>2
<1> QED BY <1>1, <1>2, <1>4, <1>5, <1>6

\* No element twice.
Once(s) == \A i, j \in DOMAIN s : s[i] = s[j] => i = j

\* What is behind the first.
LEMMA TailFacts ==
  ASSUME NEW T, NEW s \in Seq(T), s # <<>>
  PROVE  /\ Head(s) \in T /\ Head(s) \in ToSet(s) /\ Tail(s) \in Seq(T)
         /\ Tail(s) = <<>> <=> Len(s) = 1
         /\ Once(s) => Once(Tail(s)) /\ ToSet(Tail(s)) = ToSet(s) \ {Head(s)}
<1>1. Len(s) \in Nat /\ Len(s) >= 1 /\ DOMAIN s = 1 .. Len(s) /\ \A i \in DOMAIN s : s[i] \in T
  BY InSeq
<1>2. /\ Head(s) = s[1] /\ Tail(s) \in Seq(T) /\ Len(Tail(s)) = Len(s) - 1
      /\ DOMAIN Tail(s) = 1 .. Len(s) - 1
      /\ \A i \in 1 .. Len(s) - 1 : Tail(s)[i] = s[i + 1]
  BY HeadTailProperties
<1> DEFINE t == Tail(s)  n == Len(s)
<1> HIDE DEF t, n
<1>3. /\ n \in Nat /\ n >= 1 /\ DOMAIN s = 1 .. n /\ Head(s) = s[1] /\ t \in Seq(T) /\ Len(t) = n - 1
      /\ DOMAIN t = 1 .. n - 1 /\ \A i \in 1 .. n - 1 : t[i] = s[i + 1]
  BY <1>1, <1>2 DEF t, n
<1>4. t = <<>> <=> n = 1
  <2>1. t = <<>> <=> Len(t) = 0
    BY <1>3, InSeq
  <2> QED BY <2>1, <1>3
<1>5. ASSUME Once(s) PROVE Once(t) /\ ToSet(t) = ToSet(s) \ {Head(s)}
  <2>0. \A i \in 1 .. n - 1 : i + 1 \in DOMAIN s /\ i + 1 # 1
    BY <1>3
  <2>1. Once(t)
    <3> SUFFICES ASSUME NEW i \in 1 .. n - 1, NEW j \in 1 .. n - 1, t[i] = t[j] PROVE i = j
      BY <1>3 DEF Once
    <3>1. s[i + 1] = s[j + 1]
      BY <1>3
    <3>2. i + 1 = j + 1
      BY <3>1, <2>0, <1>5 DEF Once
    <3> QED BY <3>2
  <2>2. \A i \in DOMAIN s : i # 1 => i - 1 \in 1 .. n - 1 /\ (i - 1) + 1 = i
    BY <1>3
  <2>3. ASSUME NEW x \in ToSet(t) PROVE x \in ToSet(s) \ {Head(s)}
    <3>1. PICK i \in 1 .. n - 1 : x = t[i]
      BY <1>3 DEF ToSet
    <3>2. x = s[i + 1] /\ i + 1 \in DOMAIN s /\ i + 1 # 1 /\ 1 \in DOMAIN s
      BY <3>1, <2>0, <1>3
    <3>3. x # s[1]
      BY <3>2, <1>5 DEF Once
    <3> QED BY <3>2, <3>3, <1>3 DEF ToSet
  <2>4. ASSUME NEW x \in ToSet(s), x # Head(s) PROVE x \in ToSet(t)
    <3>1. PICK i \in DOMAIN s : x = s[i]
      BY DEF ToSet
    <3>2. i # 1
      BY <3>1, <2>4, <1>3
    <3>3. i - 1 \in 1 .. n - 1 /\ t[i - 1] = s[i]
      BY <3>2, <2>2, <1>3
    <3> QED BY <3>1, <3>3, <1>3 DEF ToSet
  <2> QED BY <2>1, <2>3, <2>4
<1>6. Head(s) \in T /\ Head(s) \in ToSet(s)
  BY <1>1, <1>3 DEF ToSet
<1> QED BY <1>3, <1>4, <1>5, <1>6 DEF t, n

\* Two sequences behind each other.
LEMMA JoinFacts ==
  ASSUME NEW T, NEW s \in Seq(T), NEW t \in Seq(T)
  PROVE  /\ s \o t \in Seq(T) /\ Len(s \o t) = Len(s) + Len(t)
         /\ \A i \in DOMAIN s : i \in DOMAIN (s \o t) /\ (s \o t)[i] = s[i]
         /\ \A j \in DOMAIN t : Len(s) + j \in DOMAIN (s \o t) /\ (s \o t)[Len(s) + j] = t[j]
         /\ \A k \in DOMAIN (s \o t) : k \in DOMAIN s \/ \E j \in DOMAIN t : k = Len(s) + j
         /\ ToSet(s \o t) = ToSet(s) \cup ToSet(t)
<1> DEFINE q == s \o t  n == Len(s)  m == Len(t)
<1>1. n \in Nat /\ m \in Nat /\ DOMAIN s = 1 .. n /\ DOMAIN t = 1 .. m
  BY InSeq
<1>2. /\ q \in Seq(T) /\ Len(q) = n + m
      /\ \A k \in 1 .. n + m : q[k] = IF k <= n THEN s[k] ELSE t[k - n]
  BY ConcatProperties
<1> HIDE DEF q, n, m
<1>3. DOMAIN q = 1 .. n + m
  BY <1>2, InSeq
<1>4. \A i \in DOMAIN s : i \in DOMAIN q /\ q[i] = s[i]
  BY <1>1, <1>2, <1>3
<1>5. \A j \in DOMAIN t : n + j \in DOMAIN q /\ q[n + j] = t[j]
  <2> SUFFICES ASSUME NEW j \in DOMAIN t PROVE n + j \in DOMAIN q /\ q[n + j] = t[j]
    OBVIOUS
  <2>1. n + j \in 1 .. n + m /\ ~ (n + j <= n) /\ (n + j) - n = j
    BY <1>1
  <2> QED BY <2>1, <1>2, <1>3
<1>6. \A k \in DOMAIN q : k \in DOMAIN s \/ \E j \in DOMAIN t : k = n + j
  <2> SUFFICES ASSUME NEW k \in 1 .. n + m, k \notin 1 .. n PROVE \E j \in 1 .. m : k = n + j
    BY <1>1, <1>3
  <2>1. k - n \in 1 .. m /\ k = n + (k - n)
    BY <1>1
  <2> QED BY <2>1
<1>7. ToSet(q) = ToSet(s) \cup ToSet(t)
  <2>1. ASSUME NEW x \in ToSet(q) PROVE x \in ToSet(s) \cup ToSet(t)
    <3>1. PICK k \in DOMAIN q : x = q[k]
      BY DEF ToSet
    <3>2. CASE k \in DOMAIN s
      BY <3>1, <3>2, <1>4 DEF ToSet
    <3>3. CASE \E j \in DOMAIN t : k = n + j
      BY <3>1, <3>3, <1>5 DEF ToSet
    <3> QED BY <3>2, <3>3, <1>6
  <2>2. ToSet(s) \subseteq ToSet(q)
    BY <1>4 DEF ToSet
  <2>3. ToSet(t) \subseteq ToSet(q)
    BY <1>5 DEF ToSet
  <2> QED BY <2>1, <2>2, <2>3
<1> QED BY <1>2, <1>4, <1>5, <1>6, <1>7 DEF q, n, m

LEMMA JoinOnce ==
  ASSUME NEW T, NEW s \in Seq(T), NEW t \in Seq(T), Once(s), Once(t), ToSet(s) \cap ToSet(t) = {}
  PROVE  Once(s \o t)
<1> DEFINE q == s \o t  n == Len(s)
<1>1. /\ \A i \in DOMAIN s : q[i] = s[i]
      /\ \A j \in DOMAIN t : q[n + j] = t[j]
      /\ \A k \in DOMAIN q : k \in DOMAIN s \/ \E j \in DOMAIN t : k = n + j
  BY JoinFacts
<1>2. \A i \in DOMAIN s, j \in DOMAIN t : s[i] # t[j]
  BY DEF ToSet
<1> HIDE DEF q, n
<1>3. ASSUME NEW k \in DOMAIN q, NEW x \in DOMAIN q, q[k] = q[x] PROVE k = x
  <2>1. CASE k \in DOMAIN s /\ x \in DOMAIN s
    BY <2>1, <1>1, <1>3 DEF Once
  <2>2. CASE k \in DOMAIN s /\ \E j \in DOMAIN t : x = n + j
    BY <2>2, <1>1, <1>2, <1>3
  <2>3. CASE (\E j \in DOMAIN t : k = n + j) /\ x \in DOMAIN s
    BY <2>3, <1>1, <1>2, <1>3
  <2>4. CASE (\E j \in DOMAIN t : k = n + j) /\ (\E j \in DOMAIN t : x = n + j)
    BY <2>4, <1>1, <1>3 DEF Once
  <2> QED BY <2>1, <2>2, <2>3, <2>4, <1>1
<1> QED BY <1>3 DEF Once, q

\* How often something is in them.
LEMMA CountJoin ==
  ASSUME NEW T, NEW s \in Seq(T), NEW t \in Seq(T), Once(t), NEW r
  PROVE  /\ Count(s, r) \in Nat
         /\ Count(s \o t, r) = IF r \in ToSet(t) THEN Count(s, r) + 1 ELSE Count(s, r)
<1> DEFINE q == s \o t  n == Len(s)
           A == {i \in DOMAIN s : s[i] = r}
           B == {i \in DOMAIN q : q[i] = r}
<1>1. /\ q \in Seq(T)
      /\ \A i \in DOMAIN s : i \in DOMAIN q /\ q[i] = s[i]
      /\ \A j \in DOMAIN t : n + j \in DOMAIN q /\ q[n + j] = t[j]
      /\ \A k \in DOMAIN q : k \in DOMAIN s \/ \E j \in DOMAIN t : k = n + j
  BY JoinFacts
<1>2. n \in Nat /\ DOMAIN s = 1 .. n /\ \A j \in DOMAIN t : n + j \notin 1 .. n
  BY InSeq
<1>3. IsFiniteSet(A) /\ Cardinality(A) \in Nat
  <2>1. IsFiniteSet(1 .. n)
    BY <1>2, FS_Interval
  <2>2. A \subseteq 1 .. n
    BY <1>2
  <2> HIDE DEF A
  <2> QED BY <2>1, <2>2, FS_Subset, FS_CardinalityType
<1>4. Count(s, r) = Cardinality(A) /\ Count(q, r) = Cardinality(B)
  BY DEF Count
<1> HIDE DEF q, n
<1>5. CASE r \in ToSet(t)
  <2>1. PICK j \in DOMAIN t : t[j] = r
    BY <1>5 DEF ToSet
  <2>2. \A i \in DOMAIN t : t[i] = r => i = j
    BY <2>1 DEF Once
  <2>3. n + j \notin A
    BY <1>2
  <2>4. B = A \cup {n + j}
    <3>1. \A k \in B : k \in A \/ k = n + j
      BY <1>1, <2>2
    <3>2. \A k \in A : k \in B
      BY <1>1
    <3>3. n + j \in B
      BY <1>1, <2>1
    <3> HIDE DEF A, B
    <3> QED BY <3>1, <3>2, <3>3
  <2> HIDE DEF A, B
  <2>5. Cardinality(B) = Cardinality(A) + 1
    BY <2>3, <2>4, <1>3, FS_AddElement
  <2> QED BY <2>5, <1>3, <1>4, <1>5 DEF q
<1>6. CASE r \notin ToSet(t)
  <2>1. \A j \in DOMAIN t : t[j] # r
    BY <1>6 DEF ToSet
  <2>2. B = A
    BY <1>1, <2>1
  <2> QED BY <2>2, <1>3, <1>4, <1>6 DEF q
<1> QED BY <1>5, <1>6

LEMMA CountNone ==
  ASSUME NEW r
  PROVE  Count(<<>>, r) = 0
<1>1. {i \in DOMAIN <<>> : <<>>[i] = r} = {}
  OBVIOUS
<1> QED BY <1>1, FS_EmptySet DEF Count

(***************************************************************************)
(* limit_size().                                                            *)
(***************************************************************************)

\* A sequence of recordings of known size has the sums it is said to have.
SumsOf(fs, g, n) ==
    /\ g \in [0 .. n -> Nat] /\ g[0] = 0
    /\ \A i \in 1 .. n : g[i] = g[i - 1] + fs[i].size

LEMMA SumsExist ==
  ASSUME NEW fs, Len(fs) \in Nat, \A i \in 1 .. Len(fs) : fs[i].size \in Nat
  PROVE  SumsOf(fs, Sums(fs), Len(fs))
<1> DEFINE m == Len(fs)
           G == {n \in Nat : n <= m /\ ~ \E g : SumsOf(fs, g, n)}
           Rec(g) == [i \in 0 .. m |-> IF i = 0 THEN 0 ELSE g[i - 1] + fs[i].size]
<1>1. 0 \notin G
  <2>1. SumsOf(fs, [i \in 0 .. 0 |-> 0], 0)
    BY DEF SumsOf
  <2> QED BY <2>1
<1>2. \A n \in Nat : n + 1 \in G => n \in G
  <2> SUFFICES ASSUME NEW n \in Nat, n + 1 <= m, NEW g, SumsOf(fs, g, n)
               PROVE  \E h : SumsOf(fs, h, n + 1)
    OBVIOUS
  <2> DEFINE h == [i \in 0 .. n + 1 |-> IF i <= n THEN g[i] ELSE g[n] + fs[n + 1].size]
  <2>1. fs[n + 1].size \in Nat
    OBVIOUS
  <2>2. /\ \A i \in 0 .. n : g[i] \in Nat
        /\ g[0] = 0 /\ \A i \in 1 .. n : g[i] = g[i - 1] + fs[i].size
    BY DEF SumsOf
  <2>3. \A i \in 0 .. n + 1 : h[i] \in Nat
    BY <2>1, <2>2
  <2>4. h[0] = 0 /\ h \in [0 .. n + 1 -> Nat]
    BY <2>2, <2>3
  <2>5. \A i \in 1 .. n : h[i] = h[i - 1] + fs[i].size
    <3> SUFFICES ASSUME NEW i \in 1 .. n PROVE h[i] = h[i - 1] + fs[i].size
      OBVIOUS
    <3>1. h[i] = g[i] /\ h[i - 1] = g[i - 1]
      OBVIOUS
    <3> QED BY <3>1, <2>2
  <2>6. h[n + 1] = h[(n + 1) - 1] + fs[n + 1].size
    OBVIOUS
  <2>7. \A i \in 1 .. n + 1 : i \in 1 .. n \/ i = n + 1
    OBVIOUS
  <2> HIDE DEF h
  <2>8. \A i \in 1 .. n + 1 : h[i] = h[i - 1] + fs[i].size
    BY <2>5, <2>6, <2>7
  <2>9. SumsOf(fs, h, n + 1)
    BY <2>4, <2>8 DEF SumsOf
  <2> QED BY <2>9
<1>3. G = {}
  <2> HIDE DEF G
  <2>1. G \subseteq Nat
    BY DEF G
  <2> QED BY <1>1, <1>2, <2>1, Descent
<1>4. PICK g : SumsOf(fs, g, m)
  BY <1>3
<1>5. g = Rec(g)
  <2>1. g \in [0 .. m -> Nat] /\ \A i \in 0 .. m : g[i] = IF i = 0 THEN 0 ELSE g[i - 1] + fs[i].size
    BY <1>4 DEF SumsOf
  <2> QED BY <2>1
<1>6. Sums(fs) = CHOOSE h : h = Rec(h)
  BY DEF Sums
<1> DEFINE h == Sums(fs)
<1>7. h = Rec(h)
  <2> HIDE DEF Rec
  <2> QED BY <1>5, <1>6
<1> HIDE DEF h
<1>8. h[0] = 0 /\ \A i \in 1 .. m : h[i] = h[i - 1] + fs[i].size
  <2>1. \A i \in 0 .. m : h[i] = IF i = 0 THEN 0 ELSE h[i - 1] + fs[i].size
    BY <1>7
  <2>2. \A i \in 1 .. m : i \in 0 .. m /\ i # 0
    OBVIOUS
  <2> QED BY <2>1, <2>2
<1>9. \A i \in 0 .. m : h[i] \in Nat
  <2> DEFINE H == {n \in Nat : n <= m /\ h[n] \notin Nat}
  <2>1. 0 \notin H
    BY <1>8
  <2>2. \A n \in Nat : n + 1 \in H => n \in H
    <3>0. \A n \in Nat : n + 1 <= m => n <= m
      OBVIOUS
    <3> SUFFICES ASSUME NEW n \in Nat, n + 1 <= m, h[n] \in Nat PROVE h[n + 1] \in Nat
      BY <3>0, Zenon
    <3>1. h[n + 1] = h[(n + 1) - 1] + fs[n + 1].size /\ fs[n + 1].size \in Nat /\ (n + 1) - 1 = n
      BY <1>8
    <3> QED BY <3>1
  <2>3. H = {}
    <3> HIDE DEF H
    <3>1. H \subseteq Nat
      BY DEF H
    <3> QED BY <2>1, <2>2, <3>1, Descent
  <2> QED BY <2>3
<1>10. h \in [0 .. m -> Nat]
  <2>1. h = [i \in 0 .. m |-> h[i]]
    BY <1>7
  <2> QED BY <1>9, <2>1
<1> QED BY <1>8, <1>10 DEF SumsOf, h

LEMMA SizeNone == SizeOf(<<>>) = 0
<1>1. Len(<<>>) = 0
  OBVIOUS
<1>2. \A i \in 1 .. Len(<<>>) : <<>>[i].size \in Nat
  BY <1>1
<1>3. SumsOf(<<>>, Sums(<<>>), Len(<<>>))
  BY <1>1, <1>2, SumsExist
<1> QED BY <1>1, <1>3 DEF SumsOf, SizeOf

Sized(T) == {r \in T : r.size \in Nat}

\* A recording more.
LEMMA SizeAppend ==
  ASSUME NEW T, NEW fs \in Seq(Sized(T)), NEW r \in Sized(T)
  PROVE  /\ SizeOf(fs) \in Nat /\ SizeOf(<<>>) = 0
         /\ SizeOf(Append(fs, r)) = SizeOf(fs) + r.size
<1> DEFINE n == Len(fs)  q == Append(fs, r)  g == Sums(fs)  h == Sums(q)
<1>1. n \in Nat /\ \A i \in 1 .. n : fs[i] \in Sized(T)
  BY InSeq
<1>2. /\ q \in Seq(Sized(T)) /\ Len(q) = n + 1
      /\ \A i \in 1 .. n : q[i] = fs[i] /\ q[n + 1] = r
  BY AppendProperties
<1>2a. q[n + 1] = r
  BY AppendProperties
<1> HIDE DEF q, n
<1>3. SumsOf(fs, g, n)
  <2>1. \A i \in 1 .. n : fs[i].size \in Nat
    BY <1>1 DEF Sized
  <2> QED BY <1>1, <2>1, SumsExist DEF n
<1>4. SumsOf(q, h, n + 1)
  <2>1. \A i \in 1 .. n + 1 : q[i] \in Sized(T)
    BY <1>2, InSeq
  <2>2. \A i \in 1 .. n + 1 : q[i].size \in Nat
    BY <2>1 DEF Sized
  <2>3. Len(q) \in Nat /\ \A i \in 1 .. Len(q) : q[i].size \in Nat
    BY <1>1, <1>2, <2>2
  <2> QED BY <2>3, <1>2, SumsExist
<1>5. SizeOf(fs) = g[n] /\ SizeOf(q) = h[n + 1]
  BY <1>2 DEF SizeOf, n
<1> HIDE DEF g, h
<1>6. /\ \A i \in 0 .. n : g[i] \in Nat
      /\ g[0] = 0 /\ \A i \in 1 .. n : g[i] = g[i - 1] + fs[i].size
  BY <1>3 DEF SumsOf
<1>7. h[0] = 0 /\ \A i \in 1 .. n + 1 : h[i] = h[i - 1] + q[i].size
  BY <1>4 DEF SumsOf
<1>8. \A i \in 0 .. n : h[i] = g[i]
  <2> DEFINE H == {k \in Nat : k <= n /\ h[k] # g[k]}
  <2>1. 0 \notin H
    BY <1>6, <1>7
  <2>2. \A k \in Nat : k + 1 \in H => k \in H
    <3>0. \A k \in Nat : k + 1 <= n => k <= n
      BY <1>1
    <3> SUFFICES ASSUME NEW k \in Nat, k + 1 <= n, h[k] = g[k] PROVE h[k + 1] = g[k + 1]
      BY <3>0, Zenon
    <3>1. k + 1 \in 1 .. n /\ k + 1 \in 1 .. n + 1 /\ (k + 1) - 1 = k
      BY <1>1
    <3>2. h[k + 1] = h[(k + 1) - 1] + q[k + 1].size
      BY <3>1, <1>7
    <3>3. g[k + 1] = g[(k + 1) - 1] + fs[k + 1].size
      BY <3>1, <1>6
    <3>4. q[k + 1] = fs[k + 1]
      BY <3>1, <1>2
    <3> QED BY <3>1, <3>2, <3>3, <3>4
  <2>3. H = {}
    <3> HIDE DEF H
    <3>1. H \subseteq Nat
      BY DEF H
    <3> QED BY <2>1, <2>2, <3>1, Descent
  <2> QED BY <1>1, <2>3
<1>9. h[n + 1] = h[(n + 1) - 1] + q[n + 1].size /\ (n + 1) - 1 = n
  BY <1>1, <1>7
<1>10. h[n + 1] = g[n] + r.size /\ g[n] \in Nat
  BY <1>1, <1>2a, <1>6, <1>8, <1>9
<1> QED BY <1>5, <1>10, SizeNone DEF q

\* What is taken of a list keeps to the limit, and is of the list.
LEMMA LimitKept ==
  ASSUME NEW T, NEW fs \in Seq(Sized(T)), NEW max \in Nat
  PROVE  LimitSize(fs, max) \in Seq(Sized(T)) /\ SizeOf(LimitSize(fs, max)) <= max
<1> DEFINE m == Len(fs)
           Take(before, r) ==
              IF SizeOf(before) + r.size > max THEN before ELSE Append(before, r)
           Rec(g) == [i \in 0 .. m |-> IF i = 0 THEN <<>> ELSE Take(g[i - 1], fs[i])]
           Ok(g, n) == g = [i \in 0 .. n |-> IF i = 0 THEN <<>> ELSE Take(g[i - 1], fs[i])]
           G == {n \in Nat : n <= m /\ ~ \E g : Ok(g, n)}
<1>1. m \in Nat /\ \A i \in 1 .. m : fs[i] \in Sized(T)
  BY InSeq
<1>2. 0 \notin G
  <2> DEFINE g == [i \in 0 .. 0 |-> <<>>]
  <2> HIDE DEF Take
  <2>1. \A i \in 0 .. 0 : i = 0
    OBVIOUS
  <2>2. Ok(g, 0)
    BY <2>1
  <2> QED BY <2>2
<1>3. \A n \in Nat : n + 1 \in G => n \in G
  <2> HIDE DEF Take
  <2> SUFFICES ASSUME NEW n \in Nat, n + 1 <= m, NEW g, Ok(g, n) PROVE \E h : Ok(h, n + 1)
    OBVIOUS
  <2> DEFINE h == [i \in 0 .. n + 1 |-> IF i <= n THEN g[i] ELSE Take(g[n], fs[n + 1])]
  <2>1. \A i \in 0 .. n : g[i] = IF i = 0 THEN <<>> ELSE Take(g[i - 1], fs[i])
    OBVIOUS
  <2>2. \A i \in 0 .. n + 1 : h[i] = IF i = 0 THEN <<>> ELSE Take(h[i - 1], fs[i])
    <3> SUFFICES ASSUME NEW i \in 0 .. n + 1 PROVE h[i] = IF i = 0 THEN <<>> ELSE Take(h[i - 1], fs[i])
      OBVIOUS
    <3>1. CASE i = 0
      BY <3>1, <2>1
    <3>2. CASE i \in 1 .. n
      <4>1. h[i] = g[i] /\ h[i - 1] = g[i - 1] /\ i # 0 /\ i \in 0 .. n
        BY <3>2
      <4> QED BY <4>1, <2>1
    <3>3. CASE i = n + 1
      <4>1. h[i] = Take(g[n], fs[n + 1]) /\ h[i - 1] = g[n] /\ i # 0
        BY <3>3
      <4> QED BY <4>1, <3>3
    <3> QED BY <3>1, <3>2, <3>3
  <2>3. h = [i \in 0 .. n + 1 |-> h[i]]
    OBVIOUS
  <2> HIDE DEF h
  <2>4. Ok(h, n + 1)
    BY <2>2, <2>3
  <2> QED BY <2>4
<1>4. G = {}
  <2> HIDE DEF G
  <2>1. G \subseteq Nat
    BY DEF G
  <2> QED BY <1>2, <1>3, <2>1, Descent
<1>5. PICK g : g = Rec(g)
  <2> HIDE DEF Ok, m
  <2>1. m \in Nat /\ m <= m
    BY <1>1
  <2>2. m \notin G
    <3> HIDE DEF G
    <3> QED BY <1>4
  <2>3. \E g : Ok(g, m)
    BY <2>1, <2>2
  <2>4. PICK g : Ok(g, m)
    BY <2>3
  <2>5. g = Rec(g)
    BY <2>4 DEF Ok
  <2> QED BY <2>5
<1>6. Taken(fs, max) = CHOOSE h : h = Rec(h)
  BY DEF Taken
<1> DEFINE h == Taken(fs, max)
<1>7. h = Rec(h)
  <2> HIDE DEF Rec
  <2> QED BY <1>5, <1>6
<1> HIDE DEF h, Take
<1>8. \A i \in 0 .. m : h[i] = IF i = 0 THEN <<>> ELSE Take(h[i - 1], fs[i])
  BY <1>7
<1> DEFINE Fine(q) == q \in Seq(Sized(T)) /\ SizeOf(q) <= max
           H == {n \in Nat : n <= m /\ ~ Fine(h[n])}
<1>9. 0 \notin H
  <2>1. h[0] = <<>> /\ <<>> \in Seq(Sized(T))
    BY <1>1, <1>8
  <2>2. SizeOf(h[0]) = 0 /\ 0 <= max
    BY <2>1, SizeNone
  <2>3. Fine(h[0])
    BY <2>1, <2>2
  <2> HIDE DEF Fine
  <2> QED BY <2>3
<1>10. \A n \in Nat : n + 1 \in H => n \in H
  <2> SUFFICES ASSUME NEW n \in Nat, n + 1 <= m, Fine(h[n]) PROVE Fine(h[n + 1])
    OBVIOUS
  <2> DEFINE q == h[n]  r == fs[n + 1]
  <2>1. n + 1 \in 0 .. m /\ n + 1 # 0 /\ (n + 1) - 1 = n /\ n + 1 \in 1 .. m
    BY <1>1
  <2>2. h[n + 1] = Take(q, r) /\ r \in Sized(T) /\ q \in Seq(Sized(T)) /\ SizeOf(q) <= max
    BY <2>1, <1>1, <1>8
  <2> HIDE DEF q, r
  <2>3. r.size \in Nat
    BY <2>2 DEF Sized
  <2>4. /\ SizeOf(q) \in Nat /\ SizeOf(Append(q, r)) = SizeOf(q) + r.size
        /\ Append(q, r) \in Seq(Sized(T))
    BY <2>2, SizeAppend, AppendProperties
  <2>5. CASE SizeOf(q) + r.size > max
    BY <2>2, <2>5 DEF Take
  <2>6. CASE ~ (SizeOf(q) + r.size > max)
    <3>1. h[n + 1] = Append(q, r)
      BY <2>2, <2>6 DEF Take
    <3>2. SizeOf(q) + r.size <= max
      BY <2>3, <2>4, <2>6
    <3> QED BY <3>1, <3>2, <2>4
  <2> QED BY <2>5, <2>6
<1>11. H = {}
  <2> HIDE DEF H
  <2>1. H \subseteq Nat
    BY DEF H
  <2> QED BY <1>9, <1>10, <2>1, Descent
<1>12. Fine(h[m])
  BY <1>1, <1>11
<1> QED BY <1>12 DEF LimitSize, h

(***************************************************************************)
(* The camera.                                                              *)
(***************************************************************************)

LEMMA OnCard ==
  ASSUME card \in Cards
  PROVE  /\ card \in Seq(ToSet(card)) /\ Once(card) /\ ToSet(card) \subseteq Recording
         /\ Names = {r.name : r \in ToSet(card)}
<1>1. card \in Seq(Recording) /\ Once(card)
  BY LibraryAssumption DEF Once
<1>2. card \in Seq(ToSet(card)) /\ ToSet(card) \subseteq Recording
  BY <1>1, InSeq
<1>3. Names = {r.name : r \in ToSet(card)}
  BY DEF Names, ToSet
<1> QED BY <1>1, <1>2, <1>3

LEMMA DayFacts ==
  /\ Days \subseteq Int /\ IsFiniteSet(Days)
  /\ EveryDay \in Seq(Days) /\ EveryDay # <<>> /\ Once(EveryDay) /\ ToSet(EveryDay) = Days
<1> DEFINE a == DayOf(From)  b == DayOf(To)  n == b - a + 1
<1>1. a \in Nat /\ b \in Nat /\ a <= b
  BY LibraryAssumption DEF DayOf
<1>2. Days = a .. b /\ EveryDay = [i \in 1 .. n |-> a + i - 1]
  BY DEF Days, EveryDay
<1> HIDE DEF a, b
<1>3. Days \subseteq Int /\ IsFiniteSet(Days)
  BY <1>1, <1>2, FS_Interval
<1>4. n \in Nat /\ n >= 1
  BY <1>1
<1>5. \A i \in 1 .. n : a + i - 1 \in Days
  BY <1>1, <1>2
<1>6. EveryDay \in Seq(Days) /\ DOMAIN EveryDay = 1 .. n /\ EveryDay # <<>>
  <2>1. EveryDay \in [1 .. n -> Days]
    BY <1>2, <1>5
  <2>2. EveryDay \in Seq(Days) /\ Len(EveryDay) = n
    BY <1>4, <2>1
  <2> QED BY <1>2, <1>4, <2>2, InSeq
<1>7. \A i \in 1 .. n : EveryDay[i] = a + i - 1
  BY <1>2
<1>8. Once(EveryDay)
  BY <1>1, <1>6, <1>7 DEF Once
<1>9. ToSet(EveryDay) = Days
  <2>1. \A d \in Days : d - a + 1 \in 1 .. n /\ EveryDay[d - a + 1] = d
    BY <1>1, <1>2, <1>7
  <2>2. Days \subseteq ToSet(EveryDay)
    BY <2>1, <1>6 DEF ToSet
  <2> QED BY <2>2, <1>6, InSeq
<1> QED BY <1>3, <1>6, <1>8, <1>9

LEMMA AnswerFacts ==
  ASSUME card \in Cards, NEW stream \in {"main", "sub"}, NEW d \in Days
  PROVE  /\ Answer(stream, d) \in Seq(ToSet(card)) /\ Once(Answer(stream, d))
         /\ ToSet(Answer(stream, d)) \subseteq ToSet(card)
         /\ \A r \in ToSet(Answer(stream, d)) : During(r, Span(d))
<1> DEFINE S == Search(card, stream, d)
<1>1. Answer(stream, d) = Kept(card, S)
  BY DEF Answer, Answers
<1>2. \A r \in S : r \in ToSet(card) /\ During(r, Span(d))
  BY DEF Search
<1> HIDE DEF S
<1>3. /\ Kept(card, S) \in Seq(ToSet(card)) /\ Once(Kept(card, S))
      /\ ToSet(Kept(card, S)) = ToSet(card) \cap S
  BY OnCard, KeptFacts DEF Once
<1> QED BY <1>1, <1>2, <1>3

LEMMA StreamFacts ==
  /\ \A v \in 1 .. 2 * Len(Streams) : Stream(v) \in {"main", "sub"}
  /\ Stream(1) = StreamType /\ Stream(2) = StreamType
  /\ StreamType = "sub" => 2 * Len(Streams) = 2
  /\ StreamType = "main" => 2 * Len(Streams) = 4 /\ Stream(3) = "sub" /\ Stream(4) = "sub"
  /\ StreamType \in {"main", "sub"}
  /\ HasExt(2) /\ HasExt(4)
<1>1. StreamType \in {"main", "sub"}
  BY LibraryAssumption
<1>2. /\ (1 + 1) \div 2 = 1 /\ (2 + 1) \div 2 = 1 /\ (3 + 1) \div 2 = 2 /\ (4 + 1) \div 2 = 2
      /\ 2 % 2 = 0 /\ 4 % 2 = 0
  OBVIOUS
<1>3. HasExt(2) /\ HasExt(4)
  BY <1>2 DEF HasExt
<1>4. CASE StreamType = "sub"
  <2>1. Streams = <<"sub">>
    BY <1>4 DEF Streams
  <2>2. Len(Streams) = 1 /\ Streams[1] = "sub" /\ 2 * 1 = 2
    BY <2>1
  <2>3. Stream(1) = "sub" /\ Stream(2) = "sub"
    BY <2>2, <1>2 DEF Stream
  <2>4. \A v \in 1 .. 2 : v = 1 \/ v = 2
    OBVIOUS
  <2> QED BY <1>3, <1>4, <2>2, <2>3, <2>4
<1>5. CASE StreamType = "main"
  <2>1. Streams = <<"main", "sub">>
    BY <1>5 DEF Streams
  <2>2. Len(Streams) = 2 /\ Streams[1] = "main" /\ Streams[2] = "sub" /\ 2 * 2 = 4
    BY <2>1
  <2>3. Stream(1) = "main" /\ Stream(2) = "main" /\ Stream(3) = "sub" /\ Stream(4) = "sub"
    BY <2>2, <1>2 DEF Stream
  <2>4. \A v \in 1 .. 4 : v = 1 \/ v = 2 \/ v = 3 \/ v = 4
    OBVIOUS
  <2> QED BY <1>3, <1>5, <2>2, <2>3, <2>4
<1> QED BY <1>1, <1>4, <1>5

\* What the first pages hold.
Got(answer, k) == {answer[i] : i \in {j \in DOMAIN answer : j <= k * PageSize}}

LEMMA PageFacts ==
  ASSUME NEW T, NEW answer \in Seq(T), answer # <<>>, Once(answer)
  PROVE  /\ PagesOf(answer) \in Nat /\ PagesOf(answer) >= 1
         /\ Got(answer, 0) = {} /\ Got(answer, PagesOf(answer)) = ToSet(answer)
         /\ \A k \in 0 .. PagesOf(answer) - 1 :
               /\ PageOf(answer, k + 1) \in Seq(T) /\ Once(PageOf(answer, k + 1))
               /\ ToSet(PageOf(answer, k + 1)) \subseteq ToSet(answer)
               /\ Got(answer, k + 1) = Got(answer, k) \cup ToSet(PageOf(answer, k + 1))
               /\ ~ (ToSet(PageOf(answer, k + 1)) \subseteq Got(answer, k))
<1> DEFINE n == Len(answer)  s == PageSize  p == PagesOf(answer)
<1>1. n \in Nat \ {0} /\ s \in Nat \ {0} /\ DOMAIN answer = 1 .. n /\ \A i \in 1 .. n : answer[i] \in T
  BY InSeq, LibraryAssumption
<1>2. p = (n + s - 1) \div s
  BY DEF PagesOf
<1> HIDE DEF n, s, p
<1>3. p \in Nat /\ p >= 1 /\ p * s >= n /\ (p - 1) * s < n
  BY <1>1, <1>2
<1>4. Got(answer, 0) = {}
  <2>1. 0 * PageSize = 0 /\ \A i \in DOMAIN answer : ~ (i <= 0)
    BY <1>1 DEF s
  <2> QED BY <2>1 DEF Got
<1>5. Got(answer, p) = ToSet(answer)
  <2>1. \A i \in DOMAIN answer : i <= p * PageSize
    BY <1>1, <1>3 DEF s
  <2>2. {j \in DOMAIN answer : j <= p * PageSize} = DOMAIN answer
    BY <2>1
  <2> QED BY <2>2 DEF Got, ToSet
<1>6. ASSUME NEW k \in 0 .. p - 1
      PROVE  /\ PageOf(answer, k + 1) \in Seq(T) /\ Once(PageOf(answer, k + 1))
             /\ ToSet(PageOf(answer, k + 1)) \subseteq ToSet(answer)
             /\ Got(answer, k + 1) = Got(answer, k) \cup ToSet(PageOf(answer, k + 1))
             /\ ~ (ToSet(PageOf(answer, k + 1)) \subseteq Got(answer, k))
  <2> DEFINE a == k * s  b == (k + 1) * s  e == IF b <= n THEN b ELSE n
             page1 == PageOf(answer, k + 1)
  <2>1. k \in Nat /\ k <= p - 1 /\ a \in Nat /\ b \in Nat /\ b = a + s
    BY <1>1, <1>3
  <2>2. a <= (p - 1) * s
    BY <2>1, <1>1, <1>3
  <2>3. a < n
    BY <2>1, <2>2, <1>1, <1>3
  <2>4. page1 = SubSeq(answer, a + 1, e)
    <3>1. ((k + 1) - 1) * PageSize = a /\ (k + 1) * PageSize = b
      BY <2>1, <1>1 DEF s
    <3>2. Min({b, n}) = e
      BY <2>1, <1>1, MinOfTwo
    <3> HIDE DEF a, b, e
    <3> QED BY <3>1, <3>2 DEF PageOf, n
  <2> HIDE DEF a, b, page1
  <2>5. e \in Nat /\ a < e /\ e <= n /\ e <= b /\ (e = b \/ e = n)
    BY <1>1, <2>1, <2>3
  <2> HIDE DEF e
  <2>6. /\ page1 \in Seq(T) /\ Len(page1) = e - a
        /\ \A i \in 1 .. e - a : page1[i] = answer[a + i]
    <3> DEFINE x == a + 1  z == SubSeq(answer, x, e)
    <3>1. x \in Int /\ x \in 1 .. n + 1 /\ e \in x - 1 .. n /\ e \in Int
      BY <1>1, <2>1, <2>5
    <3>2. \A i \in x .. e : answer[i] \in T
      BY <1>1, <2>1, <2>5
    <3>3. x <= e /\ e - x + 1 = e - a /\ \A i \in Int : x + i - 1 = a + i
      BY <2>1, <2>5
    <3>4. n = Len(answer)
      BY DEF n
    <3>5. page1 = z
      BY <2>4
    <3> HIDE DEF x
    <3>6. x \in 1 .. Len(answer) + 1 /\ e \in x - 1 .. Len(answer)
      BY <3>1, <3>4
    <3>7. /\ z \in Seq(T)
          /\ Len(z) = (IF x <= e THEN e - x + 1 ELSE 0)
          /\ \A i \in 1 .. e - x + 1 : z[i] = answer[x + i - 1]
      BY <3>1, <3>2, <3>6, SubSeqProperties
    <3> HIDE DEF z
    <3>8. \A i \in 1 .. e - a : x + i - 1 = a + i /\ i \in 1 .. e - x + 1
      BY <3>3
    <3>9. \A i \in 1 .. e - a : z[i] = answer[a + i]
      BY <3>7, <3>8
    <3>10. Len(z) = e - a
      BY <3>3, <3>7
    <3> QED BY <3>5, <3>7, <3>9, <3>10
  <2>7. DOMAIN page1 = 1 .. e - a
    BY <2>6, InSeq
  <2>8. \A i \in 1 .. e - a : a + i \in 1 .. n /\ ~ (a + i <= a) /\ a + i <= b
    BY <1>1, <2>1, <2>5
  <2>9. Once(page1)
    <3> SUFFICES ASSUME NEW i \in 1 .. e - a, NEW j \in 1 .. e - a, page1[i] = page1[j] PROVE i = j
      BY <2>7 DEF Once
    <3>1. a + i = a + j
      BY <2>6, <2>8, <1>1 DEF Once
    <3> QED BY <3>1, <2>1
  <2>10. ToSet(page1) \subseteq ToSet(answer)
    BY <1>1, <2>6, <2>7, <2>8 DEF ToSet
  <2>11. /\ Got(answer, k) = {answer[i] : i \in {j \in DOMAIN answer : j <= a}}
         /\ Got(answer, k + 1) = {answer[i] : i \in {j \in DOMAIN answer : j <= b}}
    BY DEF Got, a, b, s
  <2>12. \A j \in 1 .. n : j <= b => j <= a \/ (j - a \in 1 .. e - a /\ a + (j - a) = j)
    BY <1>1, <2>1, <2>5
  <2>13. \A j \in 1 .. n : j <= a => j <= b
    BY <1>1, <2>1
  <2>14. \A x \in Got(answer, k + 1) : x \in Got(answer, k) \cup ToSet(page1)
    <3> SUFFICES ASSUME NEW j \in 1 .. n, j <= b PROVE answer[j] \in Got(answer, k) \cup ToSet(page1)
      BY <2>11, <1>1
    <3>1. CASE j <= a
      BY <3>1, <2>11, <1>1
    <3>2. CASE j - a \in 1 .. e - a /\ a + (j - a) = j
      <4>1. page1[j - a] = answer[j]
        BY <3>2, <2>6
      <4> QED BY <3>2, <4>1, <2>7 DEF ToSet
    <3> QED BY <3>1, <3>2, <2>12
  <2>15. Got(answer, k) \subseteq Got(answer, k + 1)
    BY <2>11, <2>13, <1>1
  <2>16. ToSet(page1) \subseteq Got(answer, k + 1)
    BY <2>6, <2>7, <2>8, <2>11, <1>1 DEF ToSet
  <2>17. ~ (ToSet(page1) \subseteq Got(answer, k))
    <3>1. 1 \in 1 .. e - a /\ a + 1 \in 1 .. n /\ ~ (a + 1 <= a)
      BY <2>1, <2>5, <1>1
    <3>2. page1[1] \in ToSet(page1) /\ page1[1] = answer[a + 1]
      BY <3>1, <2>6, <2>7 DEF ToSet
    <3>3. answer[a + 1] \notin Got(answer, k)
      <4> SUFFICES ASSUME NEW j \in 1 .. n, j <= a, answer[a + 1] = answer[j] PROVE FALSE
        BY <2>11, <1>1
      <4>1. a + 1 = j
        BY <3>1, <1>1 DEF Once
      <4> QED BY <4>1, <3>1
    <3> QED BY <3>2, <3>3
  <2> QED BY <2>6, <2>9, <2>10, <2>14, <2>15, <2>16, <2>17 DEF page1
<1> QED BY <1>3, <1>4, <1>5, <1>6 DEF p

LEMMA UniqueFacts ==
  ASSUME NEW T, NEW fs \in Seq(T), Once(fs), NEW items \in Seq(T), Once(items)
  PROVE  /\ AppendUnique(fs, items) \in Seq(T) /\ Once(AppendUnique(fs, items))
         /\ ToSet(AppendUnique(fs, items)) = ToSet(fs) \cup ToSet(items)
         /\ Len(AppendUnique(fs, items)) = Len(fs) => ToSet(items) \subseteq ToSet(fs)
         /\ ToSet(items) \subseteq ToSet(fs) => AppendUnique(fs, items) = fs
<1> DEFINE q == Kept(items, ToSet(items) \ ToSet(fs))
<1>1. q \in Seq(T) /\ Once(q) /\ ToSet(q) = ToSet(items) \ ToSet(fs)
  <2>1. /\ q \in Seq(T) /\ Once(q) /\ ToSet(q) = ToSet(items) \cap (ToSet(items) \ ToSet(fs))
    BY KeptFacts DEF Once
  <2> HIDE DEF q
  <2> QED BY <2>1
<1>2. AppendUnique(fs, items) = fs \o q
  BY DEF AppendUnique
<1> HIDE DEF q
<1>3. /\ fs \o q \in Seq(T) /\ Len(fs \o q) = Len(fs) + Len(q) /\ ToSet(fs \o q) = ToSet(fs) \cup ToSet(q)
  BY <1>1, JoinFacts
<1>4. Once(fs \o q)
  <2>1. ToSet(fs) \cap ToSet(q) = {}
    BY <1>1
  <2> QED BY <1>1, <2>1, JoinOnce
<1>5. Len(fs) \in Nat /\ Len(q) \in Nat /\ (q = <<>> <=> Len(q) = 0) /\ (q = <<>> <=> ToSet(q) = {})
  BY <1>1, InSeq
<1>6. Len(fs \o q) = Len(fs) => ToSet(items) \subseteq ToSet(fs)
  <2>1. Len(fs \o q) = Len(fs) => Len(q) = 0
    BY <1>3, <1>5
  <2> QED BY <2>1, <1>1, <1>5
<1>7. ToSet(items) \subseteq ToSet(fs) => fs \o q = fs
  <2>1. fs \o <<>> = fs
    BY ConcatEmptySeq
  <2> QED BY <2>1, <1>1, <1>5
<1> QED BY <1>1, <1>2, <1>3, <1>4, <1>6, <1>7

(***************************************************************************)
(* The days of the list.                                                    *)
(***************************************************************************)

\* On how many days, but for those of ds, is r wanted?
Turns(want, ds, r) == Cardinality({d \in Days \ ds : r \in want[d]})
AtMost(T, want, ds, fs) == \A r \in T : Count(fs, r) <= Turns(want, ds, r)
Exactly(T, want, ds, fs) == \A r \in T : Count(fs, r) = Turns(want, ds, r)

Touches(T) == [d \in Days |-> {r \in T : During(r, Span(d))}]
Wanted(a) == [d \in Days |-> ToSet(IF a[StreamType][d] # <<>> THEN a[StreamType][d] ELSE a["sub"][d])]

\* The queries for a handle before v had nothing of the day d.
Tried(a, ext, d, v) ==
    \A w \in Nat \ {0} : w < v => a[Stream(w)][d] = <<>> \/ (ext /\ ~HasExt(w))

LEMMA TurnsFacts ==
  ASSUME NEW want, NEW ds \in SUBSET Days, NEW d0 \in ds, NEW r
  PROVE  /\ Turns(want, ds, r) \in Nat
         /\ Turns(want, ds \ {d0}, r) =
               IF r \in want[d0] THEN Turns(want, ds, r) + 1 ELSE Turns(want, ds, r)
<1> DEFINE A == {d \in Days \ ds : r \in want[d]}
           B == {d \in Days \ (ds \ {d0}) : r \in want[d]}
<1>1. IsFiniteSet(Days)
  BY DayFacts
<1>2. IsFiniteSet(A) /\ Cardinality(A) \in Nat /\ d0 \notin A
  <2>1. A \subseteq Days /\ d0 \notin A
    OBVIOUS
  <2> HIDE DEF A
  <2> QED BY <2>1, <1>1, FS_Subset, FS_CardinalityType
<1>3. Turns(want, ds, r) = Cardinality(A) /\ Turns(want, ds \ {d0}, r) = Cardinality(B)
  BY DEF Turns
<1>4. CASE r \in want[d0]
  <2>1. B = A \cup {d0}
    BY <1>4
  <2> HIDE DEF A, B
  <2>2. Cardinality(B) = Cardinality(A) + 1
    BY <2>1, <1>2, FS_AddElement
  <2> QED BY <2>2, <1>2, <1>3, <1>4
<1>5. CASE r \notin want[d0]
  <2>1. B = A
    BY <1>5
  <2> HIDE DEF A, B
  <2> QED BY <2>1, <1>2, <1>3, <1>5
<1> QED BY <1>4, <1>5

LEMMA TurnsNat ==
  ASSUME NEW want, NEW ds, NEW r
  PROVE  Turns(want, ds, r) \in Nat
<1> DEFINE A == {d \in Days \ ds : r \in want[d]}
<1>1. IsFiniteSet(Days) /\ A \subseteq Days
  BY DayFacts
<1> HIDE DEF A
<1>2. Cardinality(A) \in Nat
  BY <1>1, FS_Subset, FS_CardinalityType
<1> QED BY <1>2 DEF Turns, A

\* A day and its recordings are added to the list.
LEMMA DayAdds ==
  ASSUME NEW T, NEW want, NEW ds \in SUBSET Days, NEW d0 \in ds,
         NEW fs \in Seq(T), NEW gs \in Seq(T), Once(gs)
  PROVE  /\ AtMost(T, want, ds, fs) /\ ToSet(gs) \subseteq want[d0] => AtMost(T, want, ds \ {d0}, fs \o gs)
         /\ Exactly(T, want, ds, fs) /\ ToSet(gs) = want[d0] => Exactly(T, want, ds \ {d0}, fs \o gs)
<1>0. \A r : /\ Turns(want, ds, r) \in Nat
            /\ Turns(want, ds \ {d0}, r) =
                  IF r \in want[d0] THEN Turns(want, ds, r) + 1 ELSE Turns(want, ds, r)
  BY TurnsFacts
<1>1. ASSUME NEW r \in T, Count(fs, r) <= Turns(want, ds, r), ToSet(gs) \subseteq want[d0]
      PROVE  Count(fs \o gs, r) <= Turns(want, ds \ {d0}, r)
  <2> DEFINE c == Count(fs, r)  t == Turns(want, ds, r)
             c2 == Count(fs \o gs, r)  t2 == Turns(want, ds \ {d0}, r)
  <2>1. c \in Nat /\ c2 = IF r \in ToSet(gs) THEN c + 1 ELSE c
    BY CountJoin
  <2>2. t \in Nat /\ t2 = IF r \in want[d0] THEN t + 1 ELSE t
    BY <1>0
  <2>3. c <= t
    BY <1>1
  <2> HIDE DEF c, t, c2, t2
  <2>4. c2 <= t2
    BY <2>1, <2>2, <2>3, <1>1
  <2> QED BY <2>4 DEF c2, t2
<1>2. ASSUME NEW r \in T, Count(fs, r) = Turns(want, ds, r), ToSet(gs) = want[d0]
      PROVE  Count(fs \o gs, r) = Turns(want, ds \ {d0}, r)
  <2>1. Count(fs \o gs, r) = IF r \in ToSet(gs) THEN Count(fs, r) + 1 ELSE Count(fs, r)
    BY CountJoin
  <2>2. Turns(want, ds \ {d0}, r) = IF r \in want[d0] THEN Turns(want, ds, r) + 1 ELSE Turns(want, ds, r)
    BY <1>0
  <2> QED BY <2>1, <2>2, <1>2
<1> QED BY <1>1, <1>2 DEF AtMost, Exactly

\* What the queries before have shown of the day.
LEMMA TriedFacts ==
  ASSUME NEW a, NEW ext \in BOOLEAN, NEW d \in Days, NEW v \in 1 .. 2 * Len(Streams), Tried(a, ext, d, v)
  PROVE  /\ a[Stream(v)][d] # <<>> /\ (ext => HasExt(v)) => Wanted(a)[d] = ToSet(a[Stream(v)][d])
         /\ a[Stream(v)][d] = <<>> \/ (ext /\ ~HasExt(v)) =>
               /\ Tried(a, ext, d, v + 1)
               /\ v = 2 * Len(Streams) => Wanted(a)[d] = {}
<1>0. Wanted(a)[d] = ToSet(IF a[StreamType][d] # <<>> THEN a[StreamType][d] ELSE a["sub"][d])
  BY DEF Wanted
<1>1. ToSet(<<>>) = {}
  BY DEF ToSet
<1>2. /\ Stream(1) = StreamType /\ Stream(2) = StreamType
      /\ StreamType = "sub" => 2 * Len(Streams) = 2
      /\ StreamType = "main" => 2 * Len(Streams) = 4 /\ Stream(3) = "sub" /\ Stream(4) = "sub"
      /\ StreamType \in {"main", "sub"} /\ HasExt(2) /\ HasExt(4)
  BY StreamFacts
<1> DEFINE n == 2 * Len(Streams)
<1>3. v \in 1 .. n
  OBVIOUS
<1> HIDE DEF n
<1>4. /\ StreamType = "sub" => n = 2 /\ (v = 1 \/ v = 2)
      /\ StreamType = "main" => n = 4 /\ (v = 1 \/ v = 2 \/ v = 3 \/ v = 4)
      /\ v \in Nat \ {0}
  BY <1>2, <1>3 DEF n
<1>5. v \in {3, 4} => a[StreamType][d] = <<>>
  <2> SUFFICES ASSUME v \in {3, 4} PROVE a[StreamType][d] = <<>>
    OBVIOUS
  <2>1. 2 \in Nat \ {0} /\ 2 < v
    OBVIOUS
  <2>2. a[Stream(2)][d] = <<>> \/ (ext /\ ~HasExt(2))
    BY <2>1 DEF Tried
  <2> QED BY <2>2, <1>2
<1>6. ASSUME a[Stream(v)][d] # <<>> PROVE Wanted(a)[d] = ToSet(a[Stream(v)][d])
  BY <1>0, <1>2, <1>4, <1>5, <1>6
<1>7. ASSUME a[Stream(v)][d] = <<>> \/ (ext /\ ~HasExt(v)) PROVE Tried(a, ext, d, v + 1)
  <2> SUFFICES ASSUME NEW w \in Nat \ {0}, w < v + 1 PROVE a[Stream(w)][d] = <<>> \/ (ext /\ ~HasExt(w))
    BY DEF Tried
  <2>1. w < v \/ w = v
    BY <1>4
  <2> QED BY <2>1, <1>7 DEF Tried
<1>8. ASSUME a[Stream(v)][d] = <<>> \/ (ext /\ ~HasExt(v)), v = n PROVE Wanted(a)[d] = {}
  <2>1. CASE StreamType = "sub"
    <3>1. v = 2 /\ HasExt(v) /\ Stream(v) = "sub"
      BY <2>1, <1>2, <1>4, <1>8
    <3> QED BY <3>1, <2>1, <1>0, <1>1, <1>8
  <2>2. CASE StreamType = "main"
    <3>1. v = 4 /\ HasExt(v) /\ Stream(v) = "sub"
      BY <2>2, <1>2, <1>4, <1>8
    <3> QED BY <3>1, <1>0, <1>1, <1>5, <1>8
  <2> QED BY <2>1, <2>2, <1>2
<1> QED BY <1>6, <1>7, <1>8 DEF n

\* The query and the pages of a day, of which `found' holds what the camera has sent.
AtPage(answer, ext, fs, way, pg, sent) ==
    /\ pg = sent + 1 /\ ToSet(fs) = Got(answer, sent)
    /\ way = 1 /\ ext => pg = 1
InPages ==
    LET answer == Answer(Stream(variant), Head(days))
    IN  /\ camera.handle /\ answer # <<>> /\ Understood(variant)
        /\ Once(found) /\ ToSet(found) \subseteq ToSet(answer)
        /\ cursor \in 0 .. PagesOf(answer)
        /\ Undisturbed => AtPage(answer, camera.ext, found, detail, page, cursor)

ListType ==
    /\ card \in Cards /\ camera \in Cameras
    /\ phase \in {"days", "handle", "page", "choose", "limit", "batch", "done", "raised"}
    /\ days \in Seq(Days) /\ files \in Seq(ToSet(card)) /\ found \in Seq(ToSet(card))
    /\ variant \in 1 .. 2 * Len(Streams) /\ detail \in 1 .. 2 /\ page \in 1 .. MaxPages /\ cursor \in Nat

\* The days that are over are in the list, each wanted recording as often as days want it.
ListInv ==
    /\ ListType
    /\ phase = "days" => days = <<>> /\ files = <<>> /\ variant = 1
    /\ phase \in {"days", "handle"} => found = <<>> /\ detail = 1 /\ page = 1
    /\ phase \in {"handle", "page"} =>
          /\ days # <<>> /\ Once(days)
          /\ Undisturbed => Tried(Answers[card], camera.ext, Head(days), variant)
    /\ phase = "page" => InPages
    /\ phase \in {"choose", "limit", "batch", "done"} => days = <<>>
    /\ phase \notin {"days", "raised"} =>
          /\ AtMost(ToSet(card), Touches(ToSet(card)), ToSet(days), files)
          /\ Undisturbed => Exactly(ToSet(card), Wanted(Answers[card]), ToSet(days), files)

LEMMA CameraFacts ==
  ASSUME camera \in Cameras
  PROVE  /\ camera.ext \in BOOLEAN /\ camera.handle \in BOOLEAN
         /\ \A v : Understood(v) <=> ~ (camera.ext /\ ~HasExt(v))
<1>1. camera \in [handle : BOOLEAN, ext : BOOLEAN, ending : {"empty", "repeat", "refuse"}]
  BY LibraryAssumption
<1> QED BY <1>1 DEF Understood

\* After a timeout nothing says that the list is complete.
LEMMA StillUndisturbed ==
  ASSUME UNCHANGED <<card, camera>>
  PROVE  /\ lost' = TRUE => ~ Undisturbed'
         /\ lost' = lost => (Undisturbed' <=> Undisturbed)
BY DEF Undisturbed, Fits, Want, Answer

\* A day is over with the recordings fs.
LEMMA DayEnds ==
  ASSUME ListInv, phase \in {"handle", "page"}, UNCHANGED <<card, camera>>, Undisturbed' => Undisturbed,
         NEW gs \in Seq(ToSet(card)), Once(gs),
         ToSet(gs) \subseteq Touches(ToSet(card))[Head(days)],
         Undisturbed' => ToSet(gs) = Wanted(Answers[card])[Head(days)],
         DayOver(gs), detail' = 1, page' = 1, cursor' \in Nat
  PROVE  ListInv' /\ phase' \in {"handle", "choose"}
<1> DEFINE T == ToSet(card)  a == Answers[card]  d == Head(days)
<1>1. /\ days \in Seq(Days) /\ files \in Seq(T) /\ days # <<>> /\ Once(days) /\ card \in Cards
      /\ camera \in Cameras
      /\ AtMost(T, Touches(T), ToSet(days), files)
      /\ Undisturbed => Exactly(T, Wanted(a), ToSet(days), files)
  BY DEF ListInv, ListType
<1>2. /\ d \in Days /\ d \in ToSet(days) /\ Tail(days) \in Seq(Days) /\ Once(Tail(days))
      /\ Tail(days) = <<>> <=> Len(days) = 1
      /\ ToSet(Tail(days)) = ToSet(days) \ {d}
      /\ ToSet(days) \subseteq Days
  BY <1>1, TailFacts, InSeq
<1>3. /\ files' = files \o gs /\ found' = <<>> /\ variant' = 1 /\ days' = Tail(days)
      /\ phase' = IF Len(days) = 1 THEN "choose" ELSE "handle"
  BY DEF DayOver
<1>4. files \o gs \in Seq(T)
  BY <1>1, JoinFacts
<1> HIDE DEF d, T, a
<1>5. AtMost(T, Touches(T), ToSet(days) \ {d}, files \o gs)
  <2>1. ToSet(gs) \subseteq Touches(T)[d] /\ gs \in Seq(T)
    BY DEF T, d
  <2> QED BY <1>1, <1>2, <2>1, DayAdds
<1>6. Undisturbed' => Exactly(T, Wanted(a), ToSet(days) \ {d}, files \o gs)
  <2> SUFFICES ASSUME Undisturbed' PROVE Exactly(T, Wanted(a), ToSet(days) \ {d}, files \o gs)
    OBVIOUS
  <2>1. ToSet(gs) = Wanted(a)[d] /\ gs \in Seq(T) /\ Exactly(T, Wanted(a), ToSet(days), files)
    BY <1>1 DEF T, a, d
  <2> QED BY <1>1, <1>2, <2>1, DayAdds
<1>7. T' = T /\ a' = a /\ card' = card /\ camera' = camera
  BY DEF T, a
<1>8. /\ AtMost(T', Touches(T'), ToSet(days'), files')
      /\ Undisturbed' => Exactly(T', Wanted(a'), ToSet(days'), files')
  BY <1>2, <1>3, <1>5, <1>6, <1>7
<1>9. ListType'
  <2>1. 1 \in 1 .. 2 * Len(Streams) /\ 1 \in 1 .. MaxPages /\ <<>> \in Seq(T)
    BY StreamFacts, LibraryAssumption
  <2>2. files' \in Seq(T') /\ found' \in Seq(T') /\ days' \in Seq(Days)
    BY <1>2, <1>3, <1>4, <1>7, <2>1
  <2>3. /\ card' \in Cards /\ camera' \in Cameras /\ variant' \in 1 .. 2 * Len(Streams)
        /\ detail' \in 1 .. 2 /\ page' \in 1 .. MaxPages
        /\ phase' \in {"days", "handle", "page", "choose", "limit", "batch", "done", "raised"}
    BY <1>1, <1>3, <1>7, <2>1
  <2> QED BY <2>2, <2>3 DEF ListType, T
<1>10. Tried(Answers[card'], camera'.ext, Head(days'), variant')
  <2>1. \A w \in Nat \ {0} : ~ (w < 1)
    OBVIOUS
  <2> QED BY <1>3, <2>1 DEF Tried
<1>11. phase' = "choose" => days' = <<>>
  BY <1>2, <1>3
<1>12. phase' = "handle" => days' # <<>> /\ Once(days')
  BY <1>2, <1>3
<1>13. phase' \in {"handle", "choose"}
  BY <1>3
<1> QED BY <1>3, <1>8, <1>9, <1>10, <1>11, <1>12, <1>13 DEF ListInv, T, a

\* A query for a handle is over, with the recordings fs.
LEMMA QueryEnds ==
  ASSUME ListInv, phase \in {"handle", "page"}, UNCHANGED <<card, camera>>, Undisturbed' => Undisturbed,
         NEW gs \in Seq(ToSet(card)), Once(gs),
         ToSet(gs) \subseteq ToSet(Answer(Stream(variant), Head(days))),
         Undisturbed' /\ gs # <<>> =>
             /\ ToSet(gs) = ToSet(Answer(Stream(variant), Head(days)))
             /\ Understood(variant),
         gs = <<>> => found = <<>>,
         Undisturbed' /\ gs = <<>> =>
             Answer(Stream(variant), Head(days)) = <<>> \/ ~Understood(variant),
         QueryOver(gs), detail' = 1, page' = 1, cursor' \in Nat
  PROVE  ListInv' /\ phase' \in {"handle", "choose"}
<1> DEFINE T == ToSet(card)  a == Answers[card]  d == Head(days)  ext == camera.ext
<1>1. /\ days \in Seq(Days) /\ files \in Seq(T) /\ days # <<>> /\ Once(days) /\ card \in Cards
      /\ camera \in Cameras /\ variant \in 1 .. 2 * Len(Streams)
      /\ Undisturbed => Tried(a, ext, d, variant)
      /\ AtMost(T, Touches(T), ToSet(days), files)
      /\ Undisturbed => Exactly(T, Wanted(a), ToSet(days), files)
  BY DEF ListInv, ListType
<1>2. d \in Days /\ Stream(variant) \in {"main", "sub"}
  BY <1>1, TailFacts, StreamFacts
<1>3. Answer(Stream(variant), d) = a[Stream(variant)][d]
  BY DEF Answer
<1>4. /\ ext \in BOOLEAN
      /\ Understood(variant) <=> ~ (ext /\ ~HasExt(variant))
  BY <1>1, CameraFacts
<1>5. ToSet(gs) \subseteq Touches(T)[d]
  <2>1. \A r \in ToSet(Answer(Stream(variant), d)) : r \in T /\ During(r, Span(d))
    BY <1>1, <1>2, AnswerFacts
  <2> QED BY <1>2, <2>1 DEF Touches
<1> HIDE DEF T, a, d, ext
<1>6. Undisturbed' /\ gs # <<>> => ToSet(gs) = Wanted(a)[d]
  <2> SUFFICES ASSUME Undisturbed', gs # <<>> PROVE ToSet(gs) = Wanted(a)[d]
    OBVIOUS
  <2>1. Tried(a, ext, d, variant) /\ ~ (ext /\ ~HasExt(variant)) /\ ToSet(gs) = ToSet(a[Stream(variant)][d])
    BY <1>1, <1>3, <1>4 DEF d
  <2>2. ToSet(gs) # {} /\ ToSet(<<>>) = {}
    <3>1. ToSet(<<>>) = {}
      BY DEF ToSet
    <3> QED BY <3>1, InSeq
  <2>3. a[Stream(variant)][d] # <<>>
    BY <2>1, <2>2
  <2> QED BY <1>1, <1>2, <1>4, <2>1, <2>3, TriedFacts
<1>7. Undisturbed' /\ gs = <<>> =>
        /\ Tried(a, ext, d, variant + 1)
        /\ variant = 2 * Len(Streams) => Wanted(a)[d] = {}
  <2> SUFFICES ASSUME Undisturbed', gs = <<>>
               PROVE  /\ Tried(a, ext, d, variant + 1)
                      /\ variant = 2 * Len(Streams) => Wanted(a)[d] = {}
    OBVIOUS
  <2>1. Tried(a, ext, d, variant) /\ (a[Stream(variant)][d] = <<>> \/ (ext /\ ~HasExt(variant)))
    BY <1>1, <1>3, <1>4 DEF d
  <2> QED BY <1>1, <1>2, <1>4, <2>1, TriedFacts
<1>8. CASE gs # <<>> \/ variant = 2 * Len(Streams)
  <2>1. DayOver(gs)
    BY <1>8 DEF QueryOver
  <2>2. Undisturbed' => ToSet(gs) = Wanted(a)[d]
    <3>1. gs = <<>> => ToSet(gs) = {}
      BY InSeq
    <3> QED BY <3>1, <1>6, <1>7, <1>8
  <2>3. ToSet(gs) \subseteq Touches(ToSet(card))[Head(days)]
    BY <1>5 DEF T, d
  <2>4. Undisturbed' => ToSet(gs) = Wanted(Answers[card])[Head(days)]
    BY <2>2 DEF a, d
  <2> QED BY <2>1, <2>3, <2>4, DayEnds
<1>9. CASE ~ (gs # <<>> \/ variant = 2 * Len(Streams))
  <2>1. phase' = "handle" /\ variant' = variant + 1 /\ UNCHANGED <<days, files, found>> /\ found = <<>>
    BY <1>9 DEF QueryOver
  <2>2. variant + 1 \in 1 .. 2 * Len(Streams)
    <3> DEFINE n == 2 * Len(Streams)
    <3>0. n \in Nat
      BY StreamFacts
    <3>1. variant \in 1 .. n /\ variant # n
      BY <1>1, <1>9
    <3> HIDE DEF n
    <3>2. variant + 1 \in 1 .. n
      BY <3>0, <3>1
    <3> QED BY <3>2 DEF n
  <2>3. T' = T /\ a' = a /\ ext' = ext /\ d' = d /\ days' = days /\ files' = files
    BY <2>1 DEF T, a, ext, d
  <2>4. Undisturbed' => Tried(a', ext', d', variant')
    BY <2>1, <2>3, <1>7, <1>9
  <2>5. /\ AtMost(T', Touches(T'), ToSet(days'), files')
        /\ Undisturbed' => Exactly(T', Wanted(a'), ToSet(days'), files')
    BY <2>3, <1>1
  <2>6. ListType'
    <3>1. /\ days' \in Seq(Days) /\ files' \in Seq(T') /\ found' \in Seq(T') /\ variant' \in 1 .. 2 * Len(Streams)
      BY <1>1, <2>1, <2>2, <2>3
    <3>2. /\ card' \in Cards /\ camera' \in Cameras /\ detail' \in 1 .. 2 /\ page' \in 1 .. MaxPages
          /\ phase' \in {"days", "handle", "page", "choose", "limit", "batch", "done", "raised"}
      BY <1>1, <2>1, LibraryAssumption
    <3> QED BY <3>1, <3>2 DEF ListType, T
  <2>7. days' # <<>> /\ Once(days')
    BY <1>1, <2>3
  <2> QED BY <2>1, <2>4, <2>5, <2>6, <2>7 DEF ListInv, T, a, ext, d
<1> QED BY <1>8, <1>9

LEMMA RecordedDaysKeeps ==
  ASSUME ListInv, RecordedDays
  PROVE  ListInv' /\ phase' = "handle"
<1> DEFINE T == ToSet(card)  a == Answers[card]
           S == {d \in Days : Answer("main", d) # <<>> \/ Answer("sub", d) # <<>>}
<1>1. /\ phase = "days" /\ phase' = "handle" /\ UNCHANGED <<card, camera, files, variant, found, detail, page, cursor>>
      /\ days' = EveryDay \/ (Recorded # <<>> /\ days' = Recorded)
  BY DEF RecordedDays
<1>2. /\ card \in Cards /\ camera \in Cameras /\ files = <<>> /\ variant = 1 /\ found = <<>> /\ detail = 1
      /\ page = 1 /\ cursor \in Nat /\ found \in Seq(T) /\ files \in Seq(T)
      /\ variant \in 1 .. 2 * Len(Streams) /\ page \in 1 .. MaxPages
  BY <1>1 DEF ListInv, ListType
<1>3. Recorded \in Seq(Days) /\ Once(Recorded) /\ ToSet(Recorded) = Days \cap S
  <2>1. Recorded = Kept(EveryDay, S)
    BY DEF Recorded
  <2> HIDE DEF S
  <2> QED BY <2>1, DayFacts, KeptFacts DEF Once
<1>4. \A d \in Days \ S : Wanted(a)[d] = {}
  <2> SUFFICES ASSUME NEW d \in Days, d \notin S PROVE Wanted(a)[d] = {}
    OBVIOUS
  <2>1. a["main"][d] = <<>> /\ a["sub"][d] = <<>>
    BY DEF Answer
  <2>2. Wanted(a)[d] = ToSet(IF a[StreamType][d] # <<>> THEN a[StreamType][d] ELSE a["sub"][d])
    BY DEF Wanted
  <2>3. Wanted(a)[d] = ToSet(<<>>)
    <3>1. StreamType \in {"main", "sub"}
      BY StreamFacts
    <3> HIDE DEF a
    <3> QED BY <2>1, <2>2, <3>1
  <2> QED BY <2>3 DEF ToSet
<1>5. \A d \in Days \ ToSet(days') : Wanted(a)[d] = {}
  <2>1. CASE days' = EveryDay
    BY <2>1, DayFacts
  <2>2. CASE days' = Recorded
    <3> HIDE DEF S, a
    <3> QED BY <2>2, <1>3, <1>4
  <2> QED BY <2>1, <2>2, <1>1
<1>6. days' \in Seq(Days) /\ Once(days') /\ days' # <<>>
  BY <1>1, <1>3, DayFacts
<1> DEFINE ds == ToSet(days')
<1> HIDE DEF S, a, T, ds
<1>7. \A r : Count(files, r) = 0
  BY <1>2, CountNone
<1>8. AtMost(T, Touches(T), ds, files)
  <2> SUFFICES ASSUME NEW r \in T PROVE Count(files, r) <= Turns(Touches(T), ds, r)
    BY DEF AtMost
  <2>1. Turns(Touches(T), ds, r) \in Nat
    BY TurnsNat
  <2> QED BY <2>1, <1>7
<1>9. Exactly(T, Wanted(a), ds, files)
  <2> SUFFICES ASSUME NEW r \in T PROVE Count(files, r) = Turns(Wanted(a), ds, r)
    BY DEF Exactly
  <2>1. {d \in Days \ ds : r \in Wanted(a)[d]} = {}
    BY <1>5 DEF ds
  <2>2. Turns(Wanted(a), ds, r) = 0
    BY <2>1, FS_EmptySet DEF Turns
  <2> QED BY <2>2, <1>7
<1>10. T' = T /\ a' = a /\ files' = files
  BY <1>1 DEF T, a
<1>11. AtMost(T', Touches(T'), ToSet(days'), files') /\ Exactly(T', Wanted(a'), ToSet(days'), files')
  BY <1>8, <1>9, <1>10 DEF ds
<1>12. Tried(Answers[card'], camera'.ext, Head(days'), variant')
  <2>1. variant' = 1 /\ \A w \in Nat \ {0} : ~ (w < 1)
    BY <1>1, <1>2
  <2> QED BY <2>1 DEF Tried
<1>13. ListType'
  <2>1. files' \in Seq(T') /\ found' \in Seq(T') /\ days' \in Seq(Days)
    BY <1>1, <1>2, <1>6, <1>10
  <2> QED BY <1>1, <1>2, <2>1 DEF ListType, T
<1> QED BY <1>1, <1>2, <1>6, <1>11, <1>12, <1>13 DEF ListInv, T, a

LEMMA RaiseKeeps ==
  ASSUME ListInv, Raise
  PROVE  ListInv' /\ phase' = "raised"
<1>1. phase' = "raised" /\ UNCHANGED <<card, camera, days, files, variant, found, detail, page, cursor>>
  BY DEF Raise, listVars
<1>2. ListType
  BY DEF ListInv
<1>3. ListType'
  BY <1>1, <1>2 DEF ListType
<1> QED BY <1>1, <1>3 DEF ListInv

LEMMA HandleQueryKeeps ==
  ASSUME ListInv, HandleQuery
  PROVE  ListInv' /\ phase' \in {"handle", "page", "choose"}
<1> DEFINE answer == Answer(Stream(variant), Head(days))
           good   == answer # <<>> /\ Understood(variant)
           T == ToSet(card)
<1>1. /\ phase = "handle" /\ UNCHANGED <<card, camera, detail, page>>
      /\ \/ TimesOut /\ QueryOver(<<>>) /\ UNCHANGED cursor
         \/ Answered /\ ~good /\ QueryOver(<<>>) /\ UNCHANGED cursor
         \/ Answered /\ good /\ ~camera.handle /\ QueryOver(answer) /\ UNCHANGED cursor
         \/ /\ Answered /\ good /\ camera.handle
            /\ phase' = "page" /\ cursor' = 0 /\ UNCHANGED <<days, files, variant, found>>
  BY DEF HandleQuery
<1>2. /\ found = <<>> /\ detail = 1 /\ page = 1 /\ detail' = 1 /\ page' = 1 /\ cursor \in Nat
      /\ card \in Cards /\ camera \in Cameras /\ days \in Seq(Days) /\ days # <<>>
      /\ variant \in 1 .. 2 * Len(Streams)
  BY <1>1 DEF ListInv, ListType
<1>3. lost' = TRUE => ~ Undisturbed'
  BY <1>1, StillUndisturbed
<1>4. Answered => (Undisturbed' <=> Undisturbed)
  BY <1>1, StillUndisturbed DEF Answered
<1>5. /\ answer \in Seq(T) /\ Once(answer)
      /\ <<>> \in Seq(T) /\ Once(<<>>) /\ ToSet(<<>>) = {}
  <2>1. Head(days) \in Days /\ Stream(variant) \in {"main", "sub"}
    BY <1>2, TailFacts, StreamFacts
  <2> QED BY <1>2, <2>1, AnswerFacts DEF Once, ToSet
<1> HIDE DEF answer, T
<1>6. CASE TimesOut /\ QueryOver(<<>>) /\ UNCHANGED cursor
  <2>1. ~ Undisturbed'
    BY <1>3, <1>6 DEF TimesOut
  <2>2. cursor' \in Nat
    BY <1>2, <1>6
  <2>3. ToSet(<<>>) \subseteq ToSet(Answer(Stream(variant), Head(days))) /\ <<>> \in Seq(ToSet(card))
    BY <1>5 DEF T
  <2> QED BY <1>1, <1>2, <1>5, <1>6, <2>1, <2>2, <2>3, QueryEnds
<1>7. CASE Answered /\ ~good /\ QueryOver(<<>>) /\ UNCHANGED cursor
  <2>1. (Undisturbed' <=> Undisturbed) /\ cursor' \in Nat
    BY <1>2, <1>4, <1>7
  <2>2. answer = <<>> \/ ~Understood(variant)
    BY <1>7
  <2>3. ToSet(<<>>) \subseteq ToSet(Answer(Stream(variant), Head(days))) /\ <<>> \in Seq(ToSet(card))
    BY <1>5 DEF T
  <2> QED BY <1>1, <1>2, <1>5, <1>7, <2>1, <2>2, <2>3, QueryEnds DEF answer
<1>8. CASE Answered /\ good /\ ~camera.handle /\ QueryOver(answer) /\ UNCHANGED cursor
  <2>1. (Undisturbed' <=> Undisturbed) /\ cursor' \in Nat
    BY <1>2, <1>4, <1>8
  <2>2. answer # <<>> /\ Understood(variant)
    BY <1>8
  <2>3. answer \in Seq(ToSet(card)) /\ ToSet(answer) = ToSet(Answer(Stream(variant), Head(days)))
    BY <1>5 DEF T, answer
  <2> QED BY <1>1, <1>2, <1>5, <1>8, <2>1, <2>2, <2>3, QueryEnds
<1>9. CASE /\ Answered /\ good /\ camera.handle
           /\ phase' = "page" /\ cursor' = 0 /\ UNCHANGED <<days, files, variant, found>>
  <2>1. (Undisturbed' <=> Undisturbed) /\ answer # <<>> /\ Understood(variant)
    BY <1>4, <1>9
  <2>2. answer' = answer /\ (Understood(variant) => Understood(variant)')
    <3>1. card' = card /\ days' = days /\ variant' = variant /\ camera' = camera
      BY <1>1, <1>9
    <3> QED BY <3>1 DEF answer, Answer, Understood
  <2>3. PagesOf(answer) \in Nat /\ Got(answer, 0) = {}
    BY <1>5, <2>1, PageFacts
  <2>4. AtPage(answer, camera.ext, found, 1, 1, 0)
    <3>1. ToSet(found) = Got(answer, 0)
      BY <1>2, <1>5, <2>3
    <3>2. 1 = 0 + 1
      OBVIOUS
    <3> QED BY <3>1, <3>2 DEF AtPage
  <2>5. AtPage(answer', camera'.ext, found', detail', page', cursor')
    <3>1. camera'.ext = camera.ext /\ found' = found /\ cursor' = 0
      BY <1>1, <1>2, <1>9
    <3> QED BY <3>1, <2>2, <2>4, <1>2
  <2>6. Once(found') /\ ToSet(found') \subseteq ToSet(answer') /\ cursor' \in 0 .. PagesOf(answer')
    BY <1>2, <1>5, <1>9, <2>2, <2>3
  <2>7. InPages'
    BY <1>1, <1>9, <2>1, <2>2, <2>5, <2>6 DEF InPages, answer
  <2>8. ListType'
    <3>1. /\ ListType /\ cursor' \in Nat /\ phase' = "page"
          /\ UNCHANGED <<card, camera, days, files, variant, found, detail, page>>
      BY <1>1, <1>9 DEF ListInv
    <3> QED BY <3>1 DEF ListType
  <2>9. /\ days' # <<>> /\ Once(days')
        /\ Undisturbed' => Tried(Answers[card'], camera'.ext, Head(days'), variant')
        /\ AtMost(ToSet(card'), Touches(ToSet(card')), ToSet(days'), files')
        /\ Undisturbed' => Exactly(ToSet(card'), Wanted(Answers[card']), ToSet(days'), files')
    <3>1. card' = card /\ days' = days /\ variant' = variant /\ camera' = camera /\ files' = files
      BY <1>1, <1>9
    <3>2. /\ days # <<>> /\ Once(days)
          /\ Undisturbed => Tried(Answers[card], camera.ext, Head(days), variant)
          /\ AtMost(ToSet(card), Touches(ToSet(card)), ToSet(days), files)
          /\ Undisturbed => Exactly(ToSet(card), Wanted(Answers[card]), ToSet(days), files)
      BY <1>1 DEF ListInv
    <3> QED BY <3>1, <3>2, <2>1
  <2> QED BY <1>9, <2>7, <2>8, <2>9 DEF ListInv
<1> QED BY <1>1, <1>6, <1>7, <1>8, <1>9

\* A page that comes adds what is new in it; that of a handle that is over adds nothing.
LEMMA PageQueryKeeps ==
  ASSUME ListInv, PageQuery
  PROVE  ListInv' /\ phase' \in {"handle", "page", "choose"}
<1> DEFINE answer  == Answer(Stream(variant), Head(days))
           pages   == PagesOf(answer)
           over    == cursor = pages
           refused == ~Understood(detail) \/ (over /\ camera.ending = "refuse")
           items   == IF ~over THEN PageOf(answer, cursor + 1)
                      ELSE IF camera.ending = "repeat" THEN PageOf(answer, pages) ELSE <<>>
           counted == IF refused \/ over THEN cursor ELSE cursor + 1
           T  == ToSet(card)
           fs == AppendUnique(found, items)
<1>1. /\ phase = "page" /\ UNCHANGED <<card, camera>>
      /\ \/ Answered /\ ~refused /\ PageComes(items) /\ cursor' = counted
         \/ Answered /\ refused /\ PageFails /\ cursor' = cursor
         \/ TimesOut /\ PageFails /\ cursor' \in {cursor, counted}
  BY DEF PageQuery
<1>2. /\ ListType /\ days # <<>> /\ Once(days)
      /\ camera.handle /\ answer # <<>> /\ Understood(variant)
      /\ Once(found) /\ ToSet(found) \subseteq ToSet(answer) /\ cursor \in 0 .. pages
      /\ Undisturbed => AtPage(answer, camera.ext, found, detail, page, cursor)
      /\ Undisturbed => Tried(Answers[card], camera.ext, Head(days), variant)
      /\ AtMost(ToSet(card), Touches(ToSet(card)), ToSet(days), files)
      /\ Undisturbed => Exactly(ToSet(card), Wanted(Answers[card]), ToSet(days), files)
  BY <1>1 DEF ListInv, InPages
<1>3. /\ card \in Cards /\ camera \in Cameras /\ days \in Seq(Days) /\ found \in Seq(T)
      /\ files \in Seq(T)
      /\ variant \in 1 .. 2 * Len(Streams) /\ detail \in 1 .. 2 /\ page \in 1 .. MaxPages /\ cursor \in Nat
  BY <1>2 DEF ListType
<1>4. answer \in Seq(T) /\ Once(answer) /\ Head(days) \in Days /\ ToSet(answer) # {}
  <2>1. Head(days) \in Days /\ Stream(variant) \in {"main", "sub"}
    BY <1>2, <1>3, TailFacts, StreamFacts
  <2>2. answer \in Seq(T) /\ Once(answer)
    BY <1>3, <2>1, AnswerFacts
  <2> HIDE DEF answer
  <2> QED BY <2>1, <2>2, <1>2, InSeq
<1>5. lost' = TRUE => ~ Undisturbed'
  BY <1>1, StillUndisturbed
<1>6. Answered => (Undisturbed' <=> Undisturbed)
  BY <1>1, StillUndisturbed DEF Answered
<1>7. TimesOut \/ Answered
  BY <1>1
<1>8. Undisturbed' => Undisturbed
  BY <1>5, <1>6, <1>7 DEF TimesOut
<1>9. Undisturbed => pages <= MaxPages
  <2> SUFFICES ASSUME Undisturbed PROVE pages <= MaxPages
    OBVIOUS
  <2>1. Fits(Head(days)) /\ Tried(Answers[card], camera.ext, Head(days), variant)
    BY <1>2, <1>4 DEF Undisturbed
  <2>2. Answer(Stream(variant), Head(days)) = Want(Head(days))
    <3> DEFINE d == Head(days)
    <3>1. d \in Days /\ (Understood(2) /\ StreamType = "main" /\ variant \in {3, 4} => Answer("main", d) = <<>>)
      <4>1. ASSUME StreamType = "main", variant \in {3, 4} PROVE Answer("main", d) = <<>>
        <5>1. 2 \in Nat \ {0} /\ 2 < variant
          BY <4>1
        <5>2. Answers[card][Stream(2)][d] = <<>> \/ (camera.ext /\ ~HasExt(2))
          BY <2>1, <5>1 DEF Tried
        <5> QED BY <4>1, <5>2, StreamFacts DEF Answer
      <4> QED BY <4>1, <1>4
    <3>2. StreamType = "main" => variant \in {1, 2, 3, 4}
      <4> DEFINE n == 2 * Len(Streams)
      <4>1. variant \in 1 .. n /\ (StreamType = "main" => n = 4)
        BY <1>3, StreamFacts
      <4> HIDE DEF n
      <4> QED BY <4>1
    <3>3. StreamType = "sub" => variant \in {1, 2}
      <4> DEFINE n == 2 * Len(Streams)
      <4>1. variant \in 1 .. n /\ (StreamType = "sub" => n = 2)
        BY <1>3, StreamFacts
      <4> HIDE DEF n
      <4> QED BY <4>1
    <3>4. Understood(2) /\ StreamType \in {"main", "sub"}
      BY StreamFacts DEF Understood
    <3>5. CASE variant \in {1, 2}
      <4>1. Stream(variant) = StreamType
        BY <3>5, StreamFacts
      <4> QED BY <4>1, <1>2 DEF Want
    <3>6. CASE variant \in {3, 4} /\ StreamType = "main"
      <4>1. Stream(variant) = "sub"
        BY <3>6, StreamFacts
      <4>2. Answer(StreamType, d) = <<>>
        BY <3>1, <3>4, <3>6
      <4> QED BY <4>1, <4>2 DEF Want
    <3> QED BY <3>2, <3>3, <3>4, <3>5, <3>6
  <2> QED BY <2>1, <2>2, <1>2 DEF Fits
<1>10. camera.ext \in BOOLEAN /\ HasExt(2) /\ (Understood(detail) <=> ~ (camera.ext /\ ~HasExt(detail)))
  BY <1>3, CameraFacts, StreamFacts
<1>11. Understood(detail) \/ detail = 1
  BY <1>3, <1>10
<1>12. ~ HasExt(1)
  <2>1. 1 % 2 = 1
    OBVIOUS
  <2> QED BY <2>1 DEF HasExt
<1> HIDE DEF answer, T, pages
<1>13. /\ pages \in Nat /\ pages >= 1 /\ Got(answer, 0) = {} /\ Got(answer, pages) = ToSet(answer)
       /\ \A k \in 0 .. pages - 1 :
             /\ PageOf(answer, k + 1) \in Seq(T) /\ Once(PageOf(answer, k + 1))
             /\ ToSet(PageOf(answer, k + 1)) \subseteq ToSet(answer)
             /\ Got(answer, k + 1) = Got(answer, k) \cup ToSet(PageOf(answer, k + 1))
             /\ ~ (ToSet(PageOf(answer, k + 1)) \subseteq Got(answer, k))
  BY <1>2, <1>4, PageFacts DEF pages
<1>14. /\ items \in Seq(T) /\ Once(items) /\ ToSet(items) \subseteq ToSet(answer)
  <2>1. CASE ~over
    <3>1. cursor \in 0 .. pages - 1
      BY <2>1, <1>2, <1>13
    <3> QED BY <2>1, <3>1, <1>13
  <2>2. CASE over /\ camera.ending = "repeat"
    <3>1. pages - 1 \in 0 .. pages - 1 /\ (pages - 1) + 1 = pages
      BY <1>13
    <3>2. PageOf(answer, pages) \in Seq(T) /\ Once(PageOf(answer, pages)) /\ ToSet(PageOf(answer, pages)) \subseteq ToSet(answer)
      <4> DEFINE k == pages - 1
      <4>1. k \in 0 .. pages - 1 /\ k + 1 = pages
        BY <3>1
      <4> HIDE DEF k
      <4> QED BY <4>1, <1>13
    <3> QED BY <2>2, <3>2
  <2>3. CASE over /\ camera.ending # "repeat"
    <3>1. items = <<>>
      BY <2>3
    <3>2. <<>> \in Seq(T) /\ Once(<<>>) /\ ToSet(<<>>) = {}
      BY DEF Once, ToSet
    <3> QED BY <3>1, <3>2
  <2> QED BY <2>1, <2>2, <2>3
<1> HIDE DEF items
<1>15. /\ fs \in Seq(T) /\ Once(fs) /\ ToSet(fs) = ToSet(found) \cup ToSet(items)
       /\ Len(fs) = Len(found) => ToSet(items) \subseteq ToSet(found)
       /\ ToSet(items) \subseteq ToSet(found) => fs = found
  BY <1>2, <1>3, <1>14, UniqueFacts
<1>16. counted \in 0 .. pages
  BY <1>2, <1>13
<1>17. cursor' \in 0 .. pages /\ cursor' \in Nat
  BY <1>1, <1>2, <1>16
<1>18. ASSUME NEW gs \in Seq(T), Once(gs), ToSet(gs) \subseteq ToSet(answer), gs = <<>> => found = <<>>,
              Undisturbed' => ToSet(gs) = ToSet(answer), HandleOver(gs)
       PROVE  ListInv' /\ phase' \in {"handle", "choose"}
  <2>1. QueryOver(gs) /\ detail' = 1 /\ page' = 1
    BY <1>18 DEF HandleOver
  <2>2. gs = <<>> => ToSet(gs) = {}
    BY <1>18, InSeq
  <2>3. gs \in Seq(ToSet(card)) /\ ToSet(gs) \subseteq ToSet(Answer(Stream(variant), Head(days)))
    BY <1>18 DEF T, answer
  <2>4. Undisturbed' /\ gs # <<>> =>
            ToSet(gs) = ToSet(Answer(Stream(variant), Head(days))) /\ Understood(variant)
    BY <1>18, <1>2 DEF answer
  <2>5. ~ (Undisturbed' /\ gs = <<>>)
    BY <2>2, <1>18, <1>4
  <2> QED BY <1>1, <1>8, <1>17, <1>18, <2>1, <2>3, <2>4, <2>5, QueryEnds
<1>19. ASSUME UNCHANGED <<phase, days, files, variant>>, detail' \in 1 .. 2, page' \in 1 .. MaxPages,
              found' \in Seq(T), Once(found'), ToSet(found') \subseteq ToSet(answer),
              Undisturbed' => AtPage(answer, camera.ext, found', detail', page', cursor')
       PROVE  ListInv' /\ phase' = "page"
  <2>1. /\ card' = card /\ camera' = camera /\ days' = days /\ files' = files /\ variant' = variant
        /\ phase' = "page" /\ T' = T /\ answer' = answer
    BY <1>1, <1>19 DEF T, answer, Answer
  <2>2. InPages'
    <3>1. PagesOf(answer') = pages /\ Understood(variant)'
      BY <2>1, <1>2 DEF pages, Understood
    <3>2. /\ camera'.handle /\ answer' # <<>> /\ Understood(variant)'
          /\ Once(found') /\ ToSet(found') \subseteq ToSet(answer') /\ cursor' \in 0 .. PagesOf(answer')
          /\ Undisturbed' => AtPage(answer', camera'.ext, found', detail', page', cursor')
      BY <2>1, <3>1, <1>2, <1>17, <1>19
    <3> QED BY <3>2 DEF InPages, answer
  <2>3. ListType'
    <3>1. files' \in Seq(T') /\ found' \in Seq(T') /\ days' \in Seq(Days)
      BY <1>3, <1>19, <2>1
    <3>2. /\ card' \in Cards /\ camera' \in Cameras /\ variant' \in 1 .. 2 * Len(Streams)
          /\ phase' \in {"days", "handle", "page", "choose", "limit", "batch", "done", "raised"}
      BY <1>3, <2>1
    <3> QED BY <3>1, <3>2, <1>17, <1>19 DEF ListType, T
  <2>4. /\ days' # <<>> /\ Once(days')
        /\ Undisturbed' => Tried(Answers[card'], camera'.ext, Head(days'), variant')
        /\ AtMost(ToSet(card'), Touches(ToSet(card')), ToSet(days'), files')
        /\ Undisturbed' => Exactly(ToSet(card'), Wanted(Answers[card']), ToSet(days'), files')
    BY <2>1, <1>2, <1>8
  <2> QED BY <2>1, <2>2, <2>3, <2>4 DEF ListInv
<1>20. CASE Answered /\ ~refused /\ PageComes(items) /\ cursor' = counted
  <2>1. (Undisturbed' <=> Undisturbed) /\ Understood(detail)
    BY <1>6, <1>20
  <2>2. Undisturbed => ToSet(found) = Got(answer, cursor) /\ page = cursor + 1
    BY <1>2 DEF AtPage
  <2>3. CASE Len(fs) = Len(found) \/ page = MaxPages
    <3>1. HandleOver(fs)
      BY <1>20, <2>3 DEF PageComes
    <3>2. ToSet(fs) \subseteq ToSet(answer)
      BY <1>2, <1>14, <1>15
    <3>3. fs = <<>> => found = <<>>
      <4>1. fs = <<>> => ToSet(found) = {}
        BY <1>15, InSeq
      <4> QED BY <4>1, <1>3, InSeq
    <3>4. Undisturbed' => ToSet(fs) = ToSet(answer)
      <4> SUFFICES ASSUME Undisturbed PROVE ToSet(fs) = ToSet(answer)
        BY <2>1
      <4>1. ToSet(found) = Got(answer, cursor) /\ page = cursor + 1 /\ pages <= MaxPages
        BY <2>2, <1>9
      <4>2. CASE over
        BY <4>1, <4>2, <3>2, <1>13, <1>15
      <4>3. CASE ~over
        <5>1. cursor \in 0 .. pages - 1 /\ items = PageOf(answer, cursor + 1)
          BY <4>3, <1>2, <1>13 DEF items
        <5>2. /\ ToSet(fs) = Got(answer, cursor + 1)
              /\ ~ (ToSet(items) \subseteq ToSet(found))
          BY <4>1, <5>1, <1>13, <1>15
        <5>3. page = MaxPages
          BY <5>2, <2>3, <1>15
        <5>4. cursor + 1 = pages
          BY <4>1, <5>1, <5>3, <1>13, LibraryAssumption
        <5> QED BY <5>2, <5>4, <1>13
      <4> QED BY <4>2, <4>3
    <3> QED BY <3>1, <3>2, <3>3, <3>4, <1>15, <1>18
  <2>4. CASE ~ (Len(fs) = Len(found) \/ page = MaxPages)
    <3>1. page' = page + 1 /\ found' = fs /\ UNCHANGED <<phase, days, files, variant, detail>>
      BY <1>20, <2>4 DEF PageComes
    <3>2. page + 1 \in 1 .. MaxPages
      BY <2>4, <1>3, LibraryAssumption
    <3>3. ToSet(fs) \subseteq ToSet(answer)
      BY <1>2, <1>14, <1>15
    <3>4. Undisturbed => cursor' = cursor + 1 /\ AtPage(answer, camera.ext, fs, detail, page + 1, cursor + 1)
      <4> SUFFICES ASSUME Undisturbed PROVE cursor' = cursor + 1 /\ AtPage(answer, camera.ext, fs, detail, page + 1, cursor + 1)
        OBVIOUS
      <4>1. ToSet(found) = Got(answer, cursor) /\ page = cursor + 1
        BY <2>2
      <4>2. ~over
        <5> SUFFICES ASSUME over PROVE FALSE
          OBVIOUS
        <5>1. ToSet(items) \subseteq ToSet(found)
          BY <4>1, <1>13, <1>14
        <5> QED BY <5>1, <1>15, <2>4
      <4>3. cursor \in 0 .. pages - 1 /\ items = PageOf(answer, cursor + 1)
        BY <4>2, <1>2, <1>13 DEF items
      <4>4. ToSet(fs) = Got(answer, cursor + 1)
        BY <4>1, <4>3, <1>13, <1>15
      <4>5. cursor' = cursor + 1
        BY <4>2, <1>20
      <4>6. ~ (detail = 1 /\ camera.ext)
        BY <2>1, <1>10, <1>12
      <4>7. page + 1 = (cursor + 1) + 1
        BY <4>1
      <4> QED BY <4>4, <4>5, <4>6, <4>7 DEF AtPage
    <3>5. Undisturbed' => AtPage(answer, camera.ext, found', detail', page', cursor')
      BY <3>1, <3>4, <2>1
    <3>6. detail' \in 1 .. 2 /\ page' \in 1 .. MaxPages /\ found' \in Seq(T) /\ Once(found')
      BY <3>1, <3>2, <1>3, <1>15
    <3> QED BY <3>1, <3>3, <3>5, <3>6, <1>19
  <2> QED BY <2>3, <2>4
<1>21. CASE PageFails /\ (Undisturbed' => refused /\ cursor' = cursor)
  <2>1. CASE page = 1 /\ detail = 1
    <3>1. detail' = 2 /\ UNCHANGED <<phase, days, files, variant, found, page>>
      BY <1>21, <2>1 DEF PageFails
    <3>2. Undisturbed' => AtPage(answer, camera.ext, found, 2, page, cursor) /\ cursor' = cursor
      BY <1>2, <1>8, <1>21 DEF AtPage
    <3>3. Undisturbed' => AtPage(answer, camera.ext, found', detail', page', cursor')
      BY <3>1, <3>2
    <3>4. detail' \in 1 .. 2 /\ page' \in 1 .. MaxPages /\ found' \in Seq(T) /\ Once(found')
      BY <3>1, <1>2, <1>3
    <3> QED BY <3>1, <3>3, <3>4, <1>2, <1>19
  <2>2. CASE ~ (page = 1 /\ detail = 1)
    <3>1. HandleOver(found)
      BY <1>21, <2>2 DEF PageFails
    <3>2. Undisturbed' => ToSet(found) = ToSet(answer)
      <4> SUFFICES ASSUME Undisturbed' PROVE ToSet(found) = ToSet(answer)
        OBVIOUS
      <4>1. /\ refused /\ ToSet(found) = Got(answer, cursor)
            /\ detail = 1 /\ camera.ext => page = 1
        BY <1>2, <1>8, <1>21 DEF AtPage
      <4>2. Understood(detail)
        BY <4>1, <2>2, <1>10, <1>11
      <4>3. over
        BY <4>1, <4>2
      <4> QED BY <4>1, <4>3, <1>13
    <3> QED BY <3>1, <3>2, <1>2, <1>3, <1>18
  <2> QED BY <2>1, <2>2
<1>22. CASE Answered /\ refused /\ PageFails /\ cursor' = cursor
  BY <1>21, <1>22
<1>23. CASE TimesOut /\ PageFails /\ cursor' \in {cursor, counted}
  <2>1. ~ Undisturbed'
    BY <1>5, <1>23 DEF TimesOut
  <2> QED BY <2>1, <1>21, <1>23
<1> QED BY <1>1, <1>20, <1>22, <1>23

(***************************************************************************)
(* What is chosen and downloaded.                                           *)
(***************************************************************************)

LEMMA SortedKeeps ==
  ASSUME NEW T, NEW fs \in Seq(T), NEW order, NEW s \in Sorted(fs, order)
  PROVE  s \in Seq(T)
<1>1. CASE order = "none"
  BY <1>1 DEF Sorted
<1>2. CASE order # "none"
  <2>1. PICK p \in [DOMAIN fs -> DOMAIN fs] : s = [i \in DOMAIN fs |-> fs[p[i]]]
    BY <1>2 DEF Sorted
  <2>2. Len(fs) \in Nat /\ DOMAIN fs = 1 .. Len(fs) /\ \A i \in DOMAIN fs : fs[i] \in T
    BY InSeq
  <2>3. s \in [1 .. Len(fs) -> T]
    BY <2>1, <2>2
  <2> QED BY <2>2, <2>3
<1> QED BY <1>1, <1>2

Outcome(T) == [file : T, status : {"completed", "skipped", "failed"}]

\* The results, one by one, of the files of the batch.
ResultsOf(T, b, rs) ==
    /\ rs \in Seq(Outcome(T)) /\ Len(rs) <= Len(b)
    /\ \A i \in DOMAIN rs : rs[i].file = b[i]

\* The file r is still to come, or has failed.
Due(b, rs, r) == \E i \in DOMAIN b : b[i] = r /\ (i > Len(rs) \/ rs[i].status = "failed")
Stored(c, dk, rw, r) == dk[r.name] \in ToSet(c) \/ (~rw /\ dk[r.name] \in Older /\ Matches(dk[r.name], r))

LEMMA FailedFacts ==
  ASSUME NEW T, NEW b \in Seq(T), NEW rs, ResultsOf(T, b, rs), Len(rs) = Len(b)
  PROVE  /\ FailedList(rs) \in Seq(T) /\ ToSet(FailedList(rs)) \subseteq ToSet(b)
         /\ \A r : Due(b, rs, r) => r \in ToSet(FailedList(rs))
<1> DEFINE R == Outcome(T)
           S == {x \in ToSet(rs) : x.status \in {"failed"}}
           those == Kept(rs, S)
           q == [i \in DOMAIN those |-> those[i].file]
<1>1. rs \in Seq(R) /\ Len(b) \in Nat /\ DOMAIN rs = 1 .. Len(b) /\ DOMAIN b = 1 .. Len(b)
  BY InSeq DEF ResultsOf
<1>2. those \in Seq(R) /\ ToSet(those) = ToSet(rs) \cap S
  <2> HIDE DEF S, R
  <2> QED BY <1>1, KeptFacts
<1>3. \A x \in S : x \in ToSet(rs) /\ x.status = "failed"
  OBVIOUS
<1>4. \A x \in ToSet(rs) : x.status = "failed" => x \in S
  OBVIOUS
<1> HIDE DEF S, those, R
<1>5. Len(those) \in Nat /\ DOMAIN those = 1 .. Len(those) /\ \A i \in DOMAIN those : those[i] \in R
  BY <1>2, InSeq
<1>6. q \in Seq(T) /\ DOMAIN q = DOMAIN those
  <2>1. \A i \in 1 .. Len(those) : those[i].file \in T
    BY <1>5 DEF R, Outcome
  <2>2. q \in [1 .. Len(those) -> T]
    BY <1>5, <2>1
  <2> QED BY <1>5, <2>2
<1>7. \A i \in DOMAIN q : q[i] \in ToSet(b)
  <2> SUFFICES ASSUME NEW i \in DOMAIN those PROVE those[i].file \in ToSet(b)
    BY <1>6
  <2>1. those[i] \in ToSet(rs)
    BY <1>2 DEF ToSet
  <2>2. PICK j \in DOMAIN rs : those[i] = rs[j]
    BY <2>1 DEF ToSet
  <2>3. those[i].file = b[j] /\ j \in DOMAIN b
    BY <2>2, <1>1 DEF ResultsOf
  <2> QED BY <2>3 DEF ToSet
<1>8. ASSUME NEW r, Due(b, rs, r) PROVE r \in ToSet(q)
  <2>1. PICK i \in DOMAIN b : b[i] = r /\ (i > Len(rs) \/ rs[i].status = "failed")
    BY <1>8 DEF Due
  <2>2. i \in DOMAIN rs /\ rs[i].status = "failed" /\ rs[i].file = r
    <3>1. i \in 1 .. Len(b) /\ ~ (i > Len(b))
      BY <1>1
    <3>2. Len(rs) = Len(b)
      OBVIOUS
    <3>3. rs[i].status = "failed"
      BY <2>1, <3>1, <3>2
    <3> QED BY <2>1, <3>1, <3>3, <1>1 DEF ResultsOf
  <2>3. rs[i] \in ToSet(those)
    BY <2>2, <1>2, <1>4 DEF ToSet
  <2>4. PICK j \in DOMAIN those : those[j] = rs[i]
    BY <2>3 DEF ToSet
  <2>5. q[j] = r /\ j \in DOMAIN q
    BY <2>2, <2>4, <1>6
  <2> HIDE DEF q
  <2> QED BY <2>5 DEF ToSet
<1>9. FailedList(rs) = q
  BY DEF FailedList, WithStatus, those, S
<1>10. ToSet(q) \subseteq ToSet(b)
  <2> HIDE DEF q
  <2> QED BY <1>7 DEF ToSet
<1> HIDE DEF q
<1> QED BY <1>6, <1>8, <1>9, <1>10

\* One result more.
LEMMA OneMore ==
  ASSUME NEW T, NEW b \in Seq(T), NEW rs, ResultsOf(T, b, rs), Len(rs) < Len(b),
         NEW k, k = Len(rs) + 1, NEW st \in {"completed", "skipped", "failed"}
  PROVE  LET q == Append(rs, Result(b[k], st))
         IN  /\ ResultsOf(T, b, q) /\ Len(q) = k /\ k \in 1 .. Len(b)
             /\ \A r : Due(b, rs, r) => Due(b, q, r) \/ (r = b[k] /\ st # "failed")
<1> DEFINE x == Result(b[k], st)  q == Append(rs, x)  n == Len(rs)
<1>1. /\ rs \in Seq(Outcome(T)) /\ n \in Nat /\ n < Len(b) /\ Len(b) \in Nat /\ DOMAIN b = 1 .. Len(b)
      /\ DOMAIN rs = 1 .. n /\ k = n + 1
      /\ \A i \in DOMAIN rs : rs[i].file = b[i]
      /\ \A i \in DOMAIN b : b[i] \in T
  BY InSeq DEF ResultsOf
<1>2. k \in 1 .. Len(b)
  BY <1>1
<1>3. x \in Outcome(T) /\ x.file = b[k] /\ x.status = st
  BY <1>1, <1>2 DEF Result, Outcome
<1> HIDE DEF x, n
<1>4. /\ q \in Seq(Outcome(T)) /\ Len(q) = n + 1 /\ q[n + 1] = x
      /\ \A i \in 1 .. n : q[i] = rs[i]
  BY <1>1, <1>3, AppendProperties DEF n
<1> HIDE DEF q
<1>5. DOMAIN q = 1 .. n + 1
  BY <1>4, InSeq
<1>6. \A i \in DOMAIN q : q[i].file = b[i]
  <2> SUFFICES ASSUME NEW i \in 1 .. n + 1 PROVE q[i].file = b[i]
    BY <1>5
  <2>1. i \in 1 .. n \/ i = n + 1
    BY <1>1
  <2> QED BY <2>1, <1>1, <1>3, <1>4
<1>7. ResultsOf(T, b, q) /\ Len(q) = k
  BY <1>1, <1>4, <1>6 DEF ResultsOf
<1>8. ASSUME NEW r, Due(b, rs, r), ~ (r = b[k] /\ st # "failed") PROVE Due(b, q, r)
  <2>1. PICK i \in DOMAIN b : b[i] = r /\ (i > n \/ rs[i].status = "failed")
    BY <1>8 DEF Due, n
  <2>2. i \in Nat /\ i >= 1
    BY <1>1
  <2>3. CASE i > k
    <3>1. i > Len(q)
      BY <2>3, <1>7
    <3> QED BY <2>1, <3>1 DEF Due
  <2>4. CASE i = k
    <3>1. q[i].status = "failed"
      BY <2>1, <2>4, <1>1, <1>3, <1>4, <1>8
    <3> QED BY <2>1, <3>1 DEF Due
  <2>5. CASE i < k
    <3>1. i \in 1 .. n /\ ~ (i > n)
      BY <2>2, <2>5, <1>1
    <3>2. q[i].status = "failed"
      BY <2>1, <3>1, <1>4
    <3> QED BY <2>1, <3>2 DEF Due
  <2>6. i > k \/ i = k \/ i < k
    BY <1>1, <2>2
  <2> QED BY <2>3, <2>4, <2>5, <2>6
<1> QED BY <1>2, <1>7, <1>8 DEF q, x

\* What is not attempted after a failure has failed.
LEMMA TheRest ==
  ASSUME NEW T, batch \in Seq(T), NEW rs, ResultsOf(T, batch, rs), NEW k, k = Len(rs)
  PROVE  LET q == rs \o Pending(k)
         IN  /\ ResultsOf(T, batch, q) /\ Len(q) = Len(batch)
             /\ \A r : Due(batch, rs, r) => Due(batch, q, r)
<1> DEFINE b == batch  n == Len(b)  p == Pending(k)  q == rs \o p  R == Outcome(T)
<1>1. /\ rs \in Seq(R) /\ k \in Nat /\ k <= n /\ n \in Nat /\ DOMAIN b = 1 .. n
      /\ DOMAIN rs = 1 .. k /\ \A i \in DOMAIN rs : rs[i].file = b[i]
      /\ \A i \in DOMAIN b : b[i] \in T
  BY InSeq DEF ResultsOf
<1>2. p = [i \in 1 .. n - k |-> Result(b[k + i], "failed")]
  BY DEF Pending
<1> HIDE DEF b, n, p
<1>3. \A i \in 1 .. n - k : /\ k + i \in 1 .. n /\ p[i] = Result(b[k + i], "failed")
                            /\ p[i] \in R /\ p[i].file = b[k + i] /\ p[i].status = "failed"
  <2> SUFFICES ASSUME NEW i \in 1 .. n - k
               PROVE  /\ k + i \in 1 .. n /\ p[i] = Result(b[k + i], "failed")
                      /\ p[i] \in R /\ p[i].file = b[k + i] /\ p[i].status = "failed"
    OBVIOUS
  <2>1. k + i \in 1 .. n
    BY <1>1
  <2>2. p[i] = Result(b[k + i], "failed") /\ b[k + i] \in T
    BY <1>1, <1>2, <2>1
  <2> QED BY <2>1, <2>2 DEF Result, Outcome
<1> HIDE DEF R
<1>4. p \in Seq(R) /\ Len(p) = n - k /\ DOMAIN p = 1 .. n - k
  <2>1. n - k \in Nat
    BY <1>1
  <2>2. p \in [1 .. n - k -> R]
    BY <1>2, <1>3
  <2> QED BY <2>1, <2>2
<1>5. /\ q \in Seq(R) /\ Len(q) = k + (n - k)
      /\ \A i \in DOMAIN rs : q[i] = rs[i]
      /\ \A j \in DOMAIN p : q[k + j] = p[j]
      /\ \A i \in DOMAIN q : i \in DOMAIN rs \/ \E j \in DOMAIN p : i = k + j
  <2>0. rs \in Seq(R) /\ p \in Seq(R)
    BY <1>1, <1>4
  <2>1. /\ q \in Seq(R) /\ Len(q) = Len(rs) + Len(p)
        /\ \A i \in DOMAIN rs : i \in DOMAIN q /\ q[i] = rs[i]
        /\ \A j \in DOMAIN p : Len(rs) + j \in DOMAIN q /\ q[Len(rs) + j] = p[j]
        /\ \A i \in DOMAIN q : i \in DOMAIN rs \/ \E j \in DOMAIN p : i = Len(rs) + j
    BY <2>0, JoinFacts
  <2>2. Len(rs) = k /\ Len(p) = n - k
    BY <1>4
  <2> HIDE DEF q
  <2> QED BY <2>1, <2>2
<1> HIDE DEF q
<1>6. Len(q) = n /\ DOMAIN q = 1 .. n
  <2>1. k + (n - k) = n
    BY <1>1
  <2> QED BY <2>1, <1>5, InSeq
<1>7. \A i \in DOMAIN q : q[i].file = b[i]
  <2> SUFFICES ASSUME NEW i \in DOMAIN q PROVE q[i].file = b[i]
    OBVIOUS
  <2>1. CASE i \in DOMAIN rs
    BY <2>1, <1>1, <1>5
  <2>2. CASE \E j \in DOMAIN p : i = k + j
    BY <2>2, <1>3, <1>4, <1>5
  <2> QED BY <2>1, <2>2, <1>5
<1>8. ResultsOf(T, b, q)
  BY <1>1, <1>5, <1>6, <1>7 DEF ResultsOf, n, R
<1>9. ASSUME NEW r, Due(b, rs, r) PROVE Due(b, q, r)
  <2>1. PICK i \in DOMAIN b : b[i] = r /\ (i > k \/ rs[i].status = "failed")
    BY <1>9 DEF Due
  <2>2. CASE i \in DOMAIN rs
    <3>1. ~ (i > k)
      BY <2>2, <1>1
    <3>2. q[i].status = "failed"
      BY <2>1, <2>2, <3>1, <1>5
    <3> QED BY <2>1, <3>2 DEF Due
  <2>3. CASE \E j \in DOMAIN p : i = k + j
    <3>1. q[i].status = "failed"
      BY <2>3, <1>3, <1>4, <1>5
    <3> QED BY <2>1, <3>1 DEF Due
  <2> QED BY <2>2, <2>3, <1>1, <1>5, <1>6
<1> QED BY <1>6, <1>8, <1>9 DEF b, n, q, p

BatchType ==
    /\ rewrite \in BOOLEAN /\ continue \in BOOLEAN
    /\ batch \in Seq(ToSet(card)) /\ chosen \in Seq(ToSet(card)) /\ limit \in Limits \cup {Unknown}
    /\ results \in Seq(Outcome(ToSet(card)))
    /\ disk \in [Names -> {Nothing} \cup Older \cup ToSet(card)]
    /\ lost \in BOOLEAN /\ faults \in 0 .. MaxFaults

\* What was chosen is stored, or it is still to be downloaded.
BatchState ==
    /\ BatchType
    /\ phase \in {"days", "handle", "page", "choose", "limit"} =>
          /\ batch = <<>> /\ results = <<>> /\ limit = Unknown
          /\ \A n \in Names : disk[n] \in {Nothing} \cup Older
    /\ phase = "batch" =>
          /\ ResultsOf(ToSet(card), batch, results) /\ Len(results) < Len(batch)
          /\ ToSet(batch) \subseteq ToSet(chosen)
          /\ \A n \in Names : disk[n] \in {Nothing} \cup Older \cup ToSet(chosen)
          /\ \A r \in ToSet(chosen) : Stored(chosen, disk, rewrite, r) \/ Due(batch, results, r)
    /\ phase = "done" => \A r \in ToSet(chosen) : Stored(chosen, disk, rewrite, r)
    /\ limit # Unknown => SizeOf(chosen) <= limit

LibraryInv == ListInv /\ BatchState

LEMMA InvSuffices ==
  ASSUME LibraryInv
  PROVE  LibraryTypeOK /\ Saved /\ Listed
<1>1. ListInv /\ BatchState /\ ListType /\ BatchType
  BY DEF LibraryInv, ListInv, BatchState
<1>2. LibraryTypeOK
  BY <1>1 DEF LibraryTypeOK, ListType, BatchType, Outcome
<1>3. Saved
  BY <1>1 DEF Saved, BatchState, Stored
<1>4. Listed
  <2> SUFFICES ASSUME phase \in {"choose", "limit", "batch", "done"}, NEW r \in ToSet(card) \cup ToSet(files)
               PROVE  /\ Count(files, r) <= Cardinality({d \in Days : During(r, Span(d))})
                      /\ Undisturbed => Count(files, r) = Cardinality({d \in Days : r \in ToSet(Want(d))})
    BY DEF Listed
  <2> DEFINE T == ToSet(card)  a == Answers[card]
  <2>1. r \in T
    <3>1. files \in Seq(ToSet(card))
      BY <1>1 DEF ListType
    <3>2. ToSet(files) \subseteq ToSet(card)
      BY <3>1, InSeq
    <3> QED BY <3>2
  <2>2. /\ AtMost(T, Touches(T), ToSet(days), files) /\ days = <<>>
        /\ Undisturbed => Exactly(T, Wanted(a), ToSet(days), files)
    BY <1>1 DEF ListInv
  <2>3. Days \ ToSet(days) = Days
    BY <2>2 DEF ToSet
  <2>4. {d \in Days : r \in Touches(T)[d]} = {d \in Days : During(r, Span(d))}
    <3> HIDE DEF T
    <3> QED BY <2>1 DEF Touches
  <2>5. {d \in Days : r \in Wanted(a)[d]} = {d \in Days : r \in ToSet(Want(d))}
    <3>1. \A d \in Days : Wanted(a)[d] = ToSet(Want(d))
      BY DEF Wanted, Want, Answer
    <3> HIDE DEF a
    <3> QED BY <3>1
  <2> HIDE DEF T, a
  <2>6. Count(files, r) <= Turns(Touches(T), ToSet(days), r)
    BY <2>1, <2>2 DEF AtMost
  <2>7. Undisturbed => Count(files, r) = Turns(Wanted(a), ToSet(days), r)
    BY <2>1, <2>2 DEF Exactly
  <2>8. Turns(Touches(T), ToSet(days), r) = Cardinality({d \in Days : During(r, Span(d))})
    BY <2>3, <2>4 DEF Turns
  <2>9. Turns(Wanted(a), ToSet(days), r) = Cardinality({d \in Days : r \in ToSet(Want(d))})
    BY <2>3, <2>5 DEF Turns
  <2> QED BY <2>6, <2>7, <2>8, <2>9
<1> QED BY <1>2, <1>3, <1>4

LEMMA InitLibrary ==
  ASSUME LibraryInit
  PROVE  LibraryInv
<1>1. /\ card \in Cards /\ camera \in Cameras /\ phase = "days"
      /\ days = <<>> /\ files = <<>> /\ variant = 1 /\ found = <<>> /\ detail = 1 /\ page = 1 /\ cursor = 0
      /\ rewrite \in BOOLEAN /\ continue \in BOOLEAN /\ batch = <<>> /\ results = <<>>
      /\ disk \in [Names -> {Nothing} \cup Older]
      /\ chosen = <<>> /\ limit = Unknown /\ lost = FALSE /\ faults = 0
  BY DEF LibraryInit
<1>2. <<>> \in Seq(ToSet(card)) /\ <<>> \in Seq(Days) /\ <<>> \in Seq(Outcome(ToSet(card)))
  OBVIOUS
<1>3. 1 \in 1 .. 2 * Len(Streams) /\ 1 \in 1 .. 2 /\ 1 \in 1 .. MaxPages /\ 0 \in 0 .. MaxFaults
  BY StreamFacts, LibraryAssumption
<1>4. ListType
  BY <1>1, <1>2, <1>3 DEF ListType
<1>5. BatchType
  BY <1>1, <1>2, <1>3 DEF BatchType
<1>6. ListInv
  BY <1>1, <1>4 DEF ListInv
<1>7. \A n \in Names : disk[n] \in {Nothing} \cup Older
  BY <1>1
<1>8. BatchState
  BY <1>1, <1>5, <1>7 DEF BatchState
<1> QED BY <1>6, <1>8 DEF LibraryInv

\* The list leaves the batch alone.
LEMMA ListLeaves ==
  ASSUME BatchState, phase \in {"days", "handle", "page"}, phase' \in {"handle", "page", "choose", "raised"},
         UNCHANGED <<card, batchVars>>, lost' \in BOOLEAN, faults' \in 0 .. MaxFaults
  PROVE  BatchState'
<1>1. /\ card' = card /\ rewrite' = rewrite /\ continue' = continue /\ batch' = batch
      /\ results' = results /\ disk' = disk /\ chosen' = chosen /\ limit' = limit
  BY DEF batchVars
<1>2. Names' = Names
  BY <1>1 DEF Names
<1>3. /\ BatchType /\ batch = <<>> /\ results = <<>> /\ limit = Unknown
      /\ \A n \in Names : disk[n] \in {Nothing} \cup Older
  BY DEF BatchState
<1>4. BatchType'
  BY <1>1, <1>2, <1>3 DEF BatchType
<1>5. \A n \in Names' : disk'[n] \in {Nothing} \cup Older
  BY <1>1, <1>2, <1>3
<1>6. batch' = <<>> /\ results' = <<>> /\ limit' = Unknown
  BY <1>1, <1>3
<1> QED BY <1>4, <1>5, <1>6 DEF BatchState

\* The batch leaves the list alone.
LEMMA BatchLeaves ==
  ASSUME ListInv, phase \in {"choose", "limit", "batch"}, phase' \in {"limit", "batch", "done", "raised"},
         UNCHANGED <<card, camera, listVars>>
  PROVE  ListInv'
<1>1. /\ card' = card /\ camera' = camera /\ days' = days /\ files' = files /\ variant' = variant
      /\ found' = found /\ detail' = detail /\ page' = page /\ cursor' = cursor /\ lost' = lost
  BY DEF listVars
<1>2. /\ ListType /\ days = <<>>
      /\ AtMost(ToSet(card), Touches(ToSet(card)), ToSet(days), files)
      /\ Undisturbed => Exactly(ToSet(card), Wanted(Answers[card]), ToSet(days), files)
  BY DEF ListInv
<1>3. Undisturbed' <=> Undisturbed
  BY <1>1, StillUndisturbed
<1>4. ListType'
  BY <1>1, <1>2 DEF ListType
<1>5. /\ AtMost(ToSet(card'), Touches(ToSet(card')), ToSet(days'), files')
      /\ Undisturbed' => Exactly(ToSet(card'), Wanted(Answers[card']), ToSet(days'), files')
      /\ days' = <<>>
  BY <1>1, <1>2, <1>3
<1> QED BY <1>4, <1>5 DEF ListInv

LEMMA ListSteps ==
  ASSUME LibraryInv, Raise \/ RecordedDays \/ HandleQuery \/ PageQuery
  PROVE  LibraryInv'
<1>1. ListInv /\ BatchState /\ lost \in BOOLEAN /\ faults \in 0 .. MaxFaults
  BY DEF LibraryInv, BatchState, BatchType
<1>2. TimesOut \/ Answered => lost' \in BOOLEAN /\ faults' \in 0 .. MaxFaults
  <2>1. CASE TimesOut
    <3>1. faults < MaxFaults /\ faults' = faults + 1 /\ lost' = TRUE
      BY <2>1 DEF TimesOut
    <3>2. faults' \in 0 .. MaxFaults
      BY <3>1, <1>1, LibraryAssumption
    <3> QED BY <3>1, <3>2
  <2>2. CASE Answered
    <3>1. lost' = lost /\ faults' = faults
      BY <2>2 DEF Answered
    <3> QED BY <3>1, <1>1
  <2> QED BY <2>1, <2>2
<1>3. CASE Raise
  <2>1. /\ phase \in {"days", "handle", "page"} /\ UNCHANGED <<card, batchVars>> /\ lost' = lost
        /\ faults < MaxFaults /\ faults' = faults + 1
    BY <1>3 DEF Raise, listVars
  <2>2. faults' \in 0 .. MaxFaults
    BY <2>1, <1>1, LibraryAssumption
  <2> QED BY <1>1, <1>3, <2>1, <2>2, RaiseKeeps, ListLeaves DEF LibraryInv
<1>4. CASE RecordedDays
  <2>1. phase = "days" /\ UNCHANGED <<card, batchVars>> /\ (TimesOut \/ Answered)
    BY <1>4 DEF RecordedDays
  <2> QED BY <1>1, <1>2, <1>4, <2>1, RecordedDaysKeeps, ListLeaves DEF LibraryInv
<1>5. CASE HandleQuery
  <2>1. phase = "handle" /\ UNCHANGED <<card, batchVars>> /\ (TimesOut \/ Answered)
    BY <1>5 DEF HandleQuery
  <2> QED BY <1>1, <1>2, <1>5, <2>1, HandleQueryKeeps, ListLeaves DEF LibraryInv
<1>6. CASE PageQuery
  <2>1. phase = "page" /\ UNCHANGED <<card, batchVars>> /\ (TimesOut \/ Answered)
    BY <1>6 DEF PageQuery
  <2> QED BY <1>1, <1>2, <1>6, <2>1, PageQueryKeeps, ListLeaves DEF LibraryInv
<1> QED BY <1>3, <1>4, <1>5, <1>6

LEMMA ChooseStep ==
  ASSUME LibraryInv, Choose
  PROVE  LibraryInv'
<1>1. /\ ListInv /\ BatchState /\ ListType /\ BatchType
  BY DEF LibraryInv, ListInv, BatchState
<1>2. /\ phase = "choose" /\ phase' = "limit"
      /\ UNCHANGED <<card, camera, listVars, rewrite, continue, batch, results, disk, limit, faults>>
      /\ \E order, names : \E sorted \in Sorted(files, order), d \in Days :
            chosen' = FilterFiles(sorted, names, d * DayLength)
  BY DEF Choose
<1>3. ListInv'
  BY <1>1, <1>2, BatchLeaves
<1>4. chosen' \in Seq(ToSet(card))
  <2>1. PICK order, names : \E sorted \in Sorted(files, order), d \in Days :
                                chosen' = FilterFiles(sorted, names, d * DayLength)
    BY <1>2
  <2>2. PICK sorted \in Sorted(files, order), d \in Days : chosen' = FilterFiles(sorted, names, d * DayLength)
    BY <2>1
  <2>3. files \in Seq(ToSet(card))
    BY <1>1 DEF ListType
  <2>4. sorted \in Seq(ToSet(card))
    BY <2>3, SortedKeeps
  <2> DEFINE S == {r \in ToSet(sorted) : r.name \in names /\ r.end >= d * DayLength}
  <2>5. chosen' = Kept(sorted, S)
    BY <2>2 DEF FilterFiles
  <2> HIDE DEF S
  <2> QED BY <2>4, <2>5, KeptFacts
<1>5. /\ card' = card /\ rewrite' = rewrite /\ continue' = continue /\ batch' = batch
      /\ results' = results /\ disk' = disk /\ limit' = limit /\ lost' = lost /\ faults' = faults
  BY <1>2 DEF listVars
<1>6. Names' = Names
  BY <1>5 DEF Names
<1>7. /\ batch = <<>> /\ results = <<>> /\ limit = Unknown
      /\ \A n \in Names : disk[n] \in {Nothing} \cup Older
  BY <1>1, <1>2 DEF BatchState
<1>8. BatchType'
  BY <1>1, <1>4, <1>5, <1>6 DEF BatchType
<1>9. /\ batch' = <<>> /\ results' = <<>> /\ limit' = Unknown
      /\ \A n \in Names' : disk'[n] \in {Nothing} \cup Older
  BY <1>5, <1>6, <1>7
<1> QED BY <1>2, <1>3, <1>8, <1>9 DEF LibraryInv, BatchState

LEMMA LimitStep ==
  ASSUME LibraryInv, Limit
  PROVE  LibraryInv'
<1>1. /\ ListInv /\ BatchState /\ ListType /\ BatchType
  BY DEF LibraryInv, ListInv, BatchState
<1>2. /\ phase = "limit" /\ batch' = chosen'
      /\ UNCHANGED <<card, camera, listVars, rewrite, continue, results, disk, faults>>
  BY DEF Limit
<1>3. /\ chosen' \in Seq(ToSet(card)) /\ limit' \in Limits \cup {Unknown}
      /\ phase' = "done" => chosen' = <<>>
      /\ phase' = "batch" => chosen' # <<>>
      /\ phase' \in {"done", "batch", "raised"}
      /\ limit' # Unknown => SizeOf(chosen') <= limit'
  <2>0. chosen \in Seq(ToSet(card)) /\ limit = Unknown /\ card \in Cards
    BY <1>1, <1>2 DEF BatchType, BatchState, ListType
  <2>1. CASE /\ UNCHANGED <<chosen, limit>>
             /\ phase' = IF chosen = <<>> THEN "done" ELSE "batch"
    BY <2>0, <2>1
  <2>2. CASE /\ limit' \in Limits /\ \E i \in DOMAIN chosen : chosen[i].size = Unknown
             /\ chosen' = <<>> /\ phase' = "raised"
    <3>1. SizeOf(<<>>) = 0 /\ limit' \in Nat /\ <<>> \in Seq(ToSet(card))
      BY <2>2, SizeNone, LibraryAssumption
    <3>2. 0 <= limit'
      BY <3>1
    <3> QED BY <2>2, <3>1, <3>2
  <2>3. CASE /\ limit' \in Limits /\ ~ (\E i \in DOMAIN chosen : chosen[i].size = Unknown)
             /\ chosen' = LimitSize(chosen, limit')
             /\ phase' = IF chosen' = <<>> THEN "done" ELSE "batch"
    <3> DEFINE T == ToSet(card)  max == limit'
    <3>1. max \in Nat
      BY <2>3, LibraryAssumption
    <3>2. Len(chosen) \in Nat /\ DOMAIN chosen = 1 .. Len(chosen) /\ \A i \in DOMAIN chosen : chosen[i] \in T
      BY <2>0, InSeq
    <3>3. \A i \in DOMAIN chosen : chosen[i].size \in Nat
      <4>1. T \subseteq Recording
        BY <2>0, OnCard
      <4>2. \A i \in DOMAIN chosen : chosen[i].size \in Nat \cup {Unknown}
        <5> HIDE DEF T
        <5> QED BY <4>1, <3>2 DEF Recording
      <4> QED BY <4>2, <2>3
    <3>4. chosen \in Seq(Sized(T))
      <4>1. \A i \in DOMAIN chosen : chosen[i] \in Sized(T)
        BY <3>2, <3>3 DEF Sized
      <4>2. chosen \in [1 .. Len(chosen) -> Sized(T)]
        BY <2>0, <3>2, <4>1
      <4> QED BY <3>2, <4>2
    <3> HIDE DEF T, max
    <3>5. LimitSize(chosen, max) \in Seq(Sized(T)) /\ SizeOf(LimitSize(chosen, max)) <= max
      BY <3>1, <3>4, LimitKept
    <3>6. LimitSize(chosen, max) \in Seq(T)
      <4> DEFINE q == LimitSize(chosen, max)
      <4>1. q \in Seq(Sized(T))
        BY <3>5
      <4> HIDE DEF q
      <4>2. Len(q) \in Nat /\ DOMAIN q = 1 .. Len(q) /\ \A i \in DOMAIN q : q[i] \in Sized(T)
        BY <4>1, InSeq
      <4>3. \A i \in DOMAIN q : q[i] \in T
        BY <4>2 DEF Sized
      <4>4. q \in Seq(Sized(T)) /\ q = [i \in DOMAIN q |-> q[i]]
        BY <4>1
      <4>5. q \in [1 .. Len(q) -> T]
        BY <4>2, <4>3, <4>4
      <4>6. q \in Seq(T)
        BY <4>2, <4>5
      <4> QED BY <4>6 DEF q
    <3> QED BY <2>3, <3>5, <3>6 DEF T, max
  <2> QED BY <2>1, <2>2, <2>3 DEF Limit
<1>4. ListInv'
  BY <1>1, <1>2, <1>3, BatchLeaves
<1>5. /\ card' = card /\ rewrite' = rewrite /\ continue' = continue
      /\ results' = results /\ disk' = disk /\ lost' = lost /\ faults' = faults
  BY <1>2 DEF listVars
<1>6. Names' = Names
  BY <1>5 DEF Names
<1>7. results = <<>> /\ \A n \in Names : disk[n] \in {Nothing} \cup Older
  BY <1>1, <1>2 DEF BatchState
<1>8. BatchType'
  <2>1. batch' \in Seq(ToSet(card)) /\ chosen' \in Seq(ToSet(card)) /\ limit' \in Limits \cup {Unknown}
    BY <1>2, <1>3
  <2> QED BY <2>1, <1>1, <1>5, <1>6 DEF BatchType
<1>9. phase' = "batch" =>
          /\ ResultsOf(ToSet(card'), batch', results') /\ Len(results') < Len(batch')
          /\ ToSet(batch') \subseteq ToSet(chosen')
          /\ \A n \in Names' : disk'[n] \in {Nothing} \cup Older \cup ToSet(chosen')
          /\ \A r \in ToSet(chosen') : Stored(chosen', disk', rewrite', r) \/ Due(batch', results', r)
  <2> SUFFICES ASSUME phase' = "batch"
               PROVE  /\ ResultsOf(ToSet(card'), batch', results') /\ Len(results') < Len(batch')
                      /\ ToSet(batch') \subseteq ToSet(chosen')
                      /\ \A n \in Names' : disk'[n] \in {Nothing} \cup Older \cup ToSet(chosen')
                      /\ \A r \in ToSet(chosen') : Stored(chosen', disk', rewrite', r) \/ Due(batch', results', r)
    OBVIOUS
  <2> DEFINE b == batch'  T == ToSet(card)
  <2>1. b \in Seq(T) /\ b # <<>> /\ b = chosen'
    BY <1>2, <1>3
  <2> HIDE DEF b, T
  <2>2. Len(b) \in Nat /\ Len(b) # 0 /\ DOMAIN b = 1 .. Len(b)
    BY <2>1, InSeq
  <2>3. ResultsOf(T, b, <<>>) /\ Len(<<>>) < Len(b) /\ Len(<<>>) = 0
    BY <2>2 DEF ResultsOf
  <2>4. \A r \in ToSet(b) : Due(b, <<>>, r)
    <3> SUFFICES ASSUME NEW i \in DOMAIN b PROVE Due(b, <<>>, b[i])
      BY DEF ToSet
    <3>1. i > Len(<<>>)
      BY <2>2, <2>3
    <3> QED BY <3>1 DEF Due
  <2>5. results' = <<>> /\ ToSet(card') = T /\ batch' = b /\ chosen' = b
    BY <1>5, <1>7, <2>1 DEF b, T
  <2>6. \A n \in Names' : disk'[n] \in {Nothing} \cup Older
    BY <1>5, <1>6, <1>7
  <2> QED BY <2>3, <2>4, <2>5, <2>6
<1>10. phase' = "done" => \A r \in ToSet(chosen') : Stored(chosen', disk', rewrite', r)
  BY <1>3 DEF ToSet
<1> QED BY <1>3, <1>4, <1>8, <1>9, <1>10 DEF LibraryInv, BatchState

\* A result is noted; with the last one the files that failed are the next batch.
LEMMA RecordKeeps ==
  ASSUME ListInv, BatchState, phase = "batch", NEW rs, NEW over \in BOOLEAN, Record(rs, over),
         ResultsOf(ToSet(card), batch, rs),
         ~over => Len(rs) < Len(batch), over => Len(rs) = Len(batch),
         UNCHANGED <<card, camera, listVars, rewrite, continue, chosen, limit>>,
         faults' \in 0 .. MaxFaults,
         disk' \in [Names -> {Nothing} \cup Older \cup ToSet(card)],
         \A n \in Names : disk'[n] \in {Nothing} \cup Older \cup ToSet(chosen),
         \A r \in ToSet(chosen) : Stored(chosen, disk', rewrite, r) \/ Due(batch, rs, r)
  PROVE  LibraryInv'
<1> DEFINE T == ToSet(card)  dk == disk'
<1>1. /\ BatchType /\ batch \in Seq(T) /\ ToSet(batch) \subseteq ToSet(chosen)
      /\ limit # Unknown => SizeOf(chosen) <= limit
  BY DEF BatchState, BatchType
<1>2. /\ card' = card /\ T' = T /\ rewrite' = rewrite /\ continue' = continue /\ chosen' = chosen
      /\ limit' = limit /\ lost' = lost
  BY DEF listVars
<1>3. Names' = Names
  BY <1>2 DEF Names
<1>4. /\ batch' \in Seq(T) /\ results' \in Seq(Outcome(T)) /\ phase' \in {"batch", "done"}
      /\ phase' = "batch" =>
            /\ ResultsOf(T, batch', results') /\ Len(results') < Len(batch')
            /\ ToSet(batch') \subseteq ToSet(chosen)
            /\ \A r \in ToSet(chosen) : Stored(chosen, dk, rewrite, r) \/ Due(batch', results', r)
      /\ phase' = "done" => \A r \in ToSet(chosen) : Stored(chosen, dk, rewrite, r)
  <2> HIDE DEF dk, T
  <2>0. /\ ResultsOf(T, batch, rs) /\ rs \in Seq(Outcome(T))
        /\ \A r \in ToSet(chosen) : Stored(chosen, dk, rewrite, r) \/ Due(batch, rs, r)
    BY DEF ResultsOf, T, dk
  <2>1. CASE ~over
    <3>1. results' = rs /\ batch' = batch /\ phase' = "batch"
      BY <2>1 DEF Record
    <3> QED BY <3>1, <2>0, <2>1, <1>1
  <2>2. CASE over
    <3> DEFINE b == FailedList(rs)
    <3>1. results' = <<>> /\ batch' = b /\ phase' = IF b = <<>> THEN "done" ELSE "batch"
      BY <2>2 DEF Record
    <3>2. b \in Seq(T) /\ ToSet(b) \subseteq ToSet(batch) /\ \A r : Due(batch, rs, r) => r \in ToSet(b)
      BY <2>0, <2>2, <1>1, FailedFacts
    <3> HIDE DEF b
    <3>3. Len(b) \in Nat /\ DOMAIN b = 1 .. Len(b) /\ (b = <<>> <=> Len(b) = 0) /\ (b = <<>> <=> ToSet(b) = {})
      BY <3>2, InSeq
    <3>4. CASE b = <<>>
      <4>1. \A r \in ToSet(chosen) : Stored(chosen, dk, rewrite, r)
        BY <2>0, <3>2, <3>3, <3>4
      <4>2. results' \in Seq(Outcome(T)) /\ phase' = "done" /\ batch' \in Seq(T)
        BY <3>1, <3>2, <3>4
      <4> QED BY <4>1, <4>2
    <3>5. CASE b # <<>>
      <4>1. ResultsOf(T, b, <<>>) /\ Len(<<>>) < Len(b) /\ Len(<<>>) = 0 /\ <<>> \in Seq(Outcome(T))
        BY <3>3, <3>5 DEF ResultsOf
      <4>2. \A r \in ToSet(b) : Due(b, <<>>, r)
        <5> SUFFICES ASSUME NEW i \in DOMAIN b PROVE Due(b, <<>>, b[i])
          BY DEF ToSet
        <5>1. i > Len(<<>>)
          BY <3>3, <4>1
        <5> QED BY <5>1 DEF Due
      <4>3. \A r \in ToSet(chosen) : Stored(chosen, dk, rewrite, r) \/ Due(b, <<>>, r)
        BY <2>0, <3>2, <4>2
      <4>4. ToSet(b) \subseteq ToSet(chosen)
        BY <3>2, <1>1
      <4>5. results' = <<>> /\ batch' = b /\ phase' = "batch"
        BY <3>1, <3>5
      <4> QED BY <3>2, <4>1, <4>3, <4>4, <4>5
    <3> QED BY <3>4, <3>5
  <2> QED BY <2>1, <2>2
<1>5. ListInv'
  BY <1>4, BatchLeaves
<1>6. BatchType'
  <2>1. disk' \in [Names' -> {Nothing} \cup Older \cup ToSet(card')]
    BY <1>2, <1>3
  <2> QED BY <2>1, <1>1, <1>2, <1>4 DEF BatchType
<1>7. phase' = "batch" => \A n \in Names' : disk'[n] \in {Nothing} \cup Older \cup ToSet(chosen')
  BY <1>2, <1>3
<1>8. limit' # Unknown => SizeOf(chosen') <= limit'
  BY <1>1, <1>2
<1> QED BY <1>2, <1>4, <1>5, <1>6, <1>7, <1>8 DEF LibraryInv, BatchState

LEMMA DownloadStep ==
  ASSUME LibraryInv, DownloadNext
  PROVE  LibraryInv'
<1> DEFINE T == ToSet(card)  k == Len(results) + 1  item == batch[k]
           last == k = Len(batch)
           skip == ~rewrite /\ Matches(disk[item.name], item)
           with(st) == Append(results, Result(item, st))
<1>1. /\ phase = "batch"
      /\ UNCHANGED <<card, camera, listVars, rewrite, continue, chosen, limit>>
      /\ \/ skip /\ Record(with("skipped"), last) /\ UNCHANGED <<disk, faults>>
         \/ /\ ~skip /\ Record(with("completed"), last)
            /\ disk' = [disk EXCEPT ![item.name] = item] /\ UNCHANGED faults
         \/ /\ ~skip /\ faults < MaxFaults /\ faults' = faults + 1 /\ UNCHANGED disk
            /\ IF continue THEN Record(with("failed"), last)
               ELSE Record(with("failed") \o Pending(k), TRUE)
  BY DEF DownloadNext
<1>2. /\ ListInv /\ BatchState /\ BatchType /\ batch \in Seq(T) /\ card \in Cards
      /\ ResultsOf(T, batch, results) /\ Len(results) < Len(batch)
      /\ ToSet(batch) \subseteq ToSet(chosen)
      /\ \A n \in Names : disk[n] \in {Nothing} \cup Older \cup ToSet(chosen)
      /\ \A r \in ToSet(chosen) : Stored(chosen, disk, rewrite, r) \/ Due(batch, results, r)
      /\ faults \in 0 .. MaxFaults /\ disk \in [Names -> {Nothing} \cup Older \cup T]
      /\ chosen \in Seq(T)
  BY <1>1 DEF LibraryInv, BatchState, BatchType, ListInv, ListType
<1> HIDE DEF k
<1>3. \A st \in {"completed", "skipped", "failed"} :
         /\ ResultsOf(T, batch, with(st)) /\ Len(with(st)) = k /\ k \in 1 .. Len(batch)
         /\ \A r : Due(batch, results, r) => Due(batch, with(st), r) \/ (r = item /\ st # "failed")
  <2> SUFFICES ASSUME NEW st \in {"completed", "skipped", "failed"}
               PROVE  /\ ResultsOf(T, batch, with(st)) /\ Len(with(st)) = k /\ k \in 1 .. Len(batch)
                      /\ \A r : Due(batch, results, r) => Due(batch, with(st), r) \/ (r = item /\ st # "failed")
    OBVIOUS
  <2>1. k = Len(results) + 1
    BY DEF k
  <2> QED BY <1>2, <2>1, OneMore
<1>4. /\ Len(batch) \in Nat /\ DOMAIN batch = 1 .. Len(batch) /\ k \in 1 .. Len(batch)
      /\ item \in ToSet(batch) /\ item \in ToSet(chosen) /\ item \in T /\ item.name \in Names
  <2>1. k \in 1 .. Len(batch) /\ Len(batch) \in Nat /\ DOMAIN batch = 1 .. Len(batch)
    BY <1>2, <1>3, InSeq
  <2>2. item \in ToSet(batch)
    BY <2>1 DEF ToSet
  <2>3. item \in ToSet(chosen) /\ item \in T
    <3>1. ToSet(chosen) \subseteq T
      BY <1>2, InSeq
    <3> QED BY <3>1, <2>2, <1>2
  <2>4. item.name \in Names
    BY <2>3, <1>2, OnCard
  <2> QED BY <2>1, <2>2, <2>3, <2>4
<1>5. /\ last \in BOOLEAN
      /\ \A st \in {"completed", "skipped", "failed"} :
            (~last => Len(with(st)) < Len(batch)) /\ (last => Len(with(st)) = Len(batch))
  <2>1. last <=> k = Len(batch)
    OBVIOUS
  <2>2. k # Len(batch) => k < Len(batch)
    <3> DEFINE n == Len(batch)
    <3>1. k \in 1 .. n /\ n \in Nat
      BY <1>4
    <3> HIDE DEF n
    <3>2. k # n => k < n
      BY <3>1
    <3> QED BY <3>2 DEF n
  <2> QED BY <2>1, <2>2, <1>3
<1> HIDE DEF item, last, T, with
<1>6. CASE skip /\ Record(with("skipped"), last) /\ UNCHANGED <<disk, faults>>
  <2>1. Stored(chosen, disk, rewrite, item)
    <3>1. /\ disk[item.name] \in {Nothing} \cup Older \cup ToSet(chosen)
          /\ Matches(disk[item.name], item) /\ ~rewrite
      BY <1>2, <1>4, <1>6
    <3>2. disk[item.name] # Nothing
      BY <3>1 DEF Matches
    <3> QED BY <3>1, <3>2 DEF Stored
  <2>2. /\ ResultsOf(T, batch, with("skipped"))
        /\ \A r : Due(batch, results, r) => Due(batch, with("skipped"), r) \/ r = item
        /\ (~last => Len(with("skipped")) < Len(batch)) /\ (last => Len(with("skipped")) = Len(batch))
    BY <1>3, <1>5
  <2>3. \A r \in ToSet(chosen) : Stored(chosen, disk', rewrite, r) \/ Due(batch, with("skipped"), r)
    BY <1>2, <1>6, <2>1, <2>2
  <2>4. /\ faults' \in 0 .. MaxFaults /\ disk' \in [Names -> {Nothing} \cup Older \cup ToSet(card)]
        /\ \A n \in Names : disk'[n] \in {Nothing} \cup Older \cup ToSet(chosen)
    BY <1>2, <1>6 DEF T
  <2> QED BY <1>1, <1>2, <1>5, <1>6, <2>2, <2>3, <2>4, RecordKeeps DEF T
<1>7. CASE /\ ~skip /\ Record(with("completed"), last)
           /\ disk' = [disk EXCEPT ![item.name] = item] /\ UNCHANGED faults
  <2>1. /\ disk'[item.name] = item /\ \A n \in Names : n # item.name => disk'[n] = disk[n]
        /\ disk' \in [Names -> {Nothing} \cup Older \cup T]
    BY <1>2, <1>4, <1>7
  <2>2. Stored(chosen, disk', rewrite, item)
    BY <1>4, <2>1 DEF Stored
  <2>3. \A r \in ToSet(chosen) : Stored(chosen, disk, rewrite, r) => Stored(chosen, disk', rewrite, r)
    <3> SUFFICES ASSUME NEW r \in ToSet(chosen), Stored(chosen, disk, rewrite, r)
                 PROVE  Stored(chosen, disk', rewrite, r)
      OBVIOUS
    <3>1. r.name \in Names
      <4>1. ToSet(chosen) \subseteq T
        BY <1>2, InSeq
      <4>2. r \in ToSet(card)
        BY <4>1 DEF T
      <4> QED BY <4>2, <1>2, OnCard
    <3>2. disk'[r.name] = item \/ disk'[r.name] = disk[r.name]
      BY <2>1, <3>1
    <3> QED BY <3>2, <1>4 DEF Stored
  <2>4. /\ ResultsOf(T, batch, with("completed"))
        /\ \A r : Due(batch, results, r) => Due(batch, with("completed"), r) \/ r = item
        /\ (~last => Len(with("completed")) < Len(batch)) /\ (last => Len(with("completed")) = Len(batch))
    BY <1>3, <1>5
  <2>5. \A r \in ToSet(chosen) : Stored(chosen, disk', rewrite, r) \/ Due(batch, with("completed"), r)
    BY <1>2, <2>2, <2>3, <2>4
  <2>6. \A n \in Names : disk'[n] \in {Nothing} \cup Older \cup ToSet(chosen)
    BY <1>2, <1>4, <2>1
  <2>7. faults' \in 0 .. MaxFaults /\ disk' \in [Names -> {Nothing} \cup Older \cup ToSet(card)]
    BY <1>2, <1>7, <2>1 DEF T
  <2> QED BY <1>1, <1>2, <1>5, <1>7, <2>4, <2>5, <2>6, <2>7, RecordKeeps DEF T
<1>8. CASE /\ ~skip /\ faults < MaxFaults /\ faults' = faults + 1 /\ UNCHANGED disk
           /\ IF continue THEN Record(with("failed"), last)
              ELSE Record(with("failed") \o Pending(k), TRUE)
  <2>1. faults' \in 0 .. MaxFaults
    BY <1>2, <1>8, LibraryAssumption
  <2>2. /\ disk' \in [Names -> {Nothing} \cup Older \cup ToSet(card)]
        /\ \A n \in Names : disk'[n] \in {Nothing} \cup Older \cup ToSet(chosen)
    BY <1>2, <1>8 DEF T
  <2>3. /\ ResultsOf(T, batch, with("failed")) /\ Len(with("failed")) = k
        /\ \A r : Due(batch, results, r) => Due(batch, with("failed"), r)
        /\ (~last => Len(with("failed")) < Len(batch)) /\ (last => Len(with("failed")) = Len(batch))
    BY <1>3, <1>5
  <2>4. CASE continue
    <3>1. Record(with("failed"), last)
      BY <1>8, <2>4
    <3>2. \A r \in ToSet(chosen) : Stored(chosen, disk', rewrite, r) \/ Due(batch, with("failed"), r)
      BY <1>2, <1>8, <2>3
    <3> QED BY <1>1, <1>2, <1>5, <2>1, <2>2, <2>3, <3>1, <3>2, RecordKeeps DEF T
  <2>5. CASE ~continue
    <3> DEFINE q == with("failed") \o Pending(k)
    <3>1. Record(q, TRUE)
      BY <1>8, <2>5
    <3>2. /\ ResultsOf(T, batch, q) /\ Len(q) = Len(batch)
          /\ \A r : Due(batch, with("failed"), r) => Due(batch, q, r)
      <4> DEFINE w == with("failed")
      <4>1. batch \in Seq(T) /\ ResultsOf(T, batch, w) /\ k = Len(w)
        BY <1>2, <2>3
      <4> HIDE DEF w
      <4>2. /\ ResultsOf(T, batch, w \o Pending(k)) /\ Len(w \o Pending(k)) = Len(batch)
            /\ \A r : Due(batch, w, r) => Due(batch, w \o Pending(k), r)
        BY <4>1, TheRest
      <4> QED BY <4>2 DEF w
    <3> HIDE DEF q
    <3>3. \A r \in ToSet(chosen) : Stored(chosen, disk', rewrite, r) \/ Due(batch, q, r)
      BY <1>2, <1>8, <2>3, <3>2
    <3>4. TRUE \in BOOLEAN
      OBVIOUS
    <3> QED BY <1>1, <1>2, <2>1, <2>2, <3>1, <3>2, <3>3, <3>4, RecordKeeps DEF T
  <2> QED BY <2>4, <2>5
<1> QED BY <1>1, <1>6, <1>7, <1>8 DEF item, last, T, with

LEMMA LibraryStep ==
  ASSUME LibraryInv, [LibraryNext]_libraryVars
  PROVE  LibraryInv'
<1>1. CASE Raise \/ RecordedDays \/ HandleQuery \/ PageQuery
  BY <1>1, ListSteps
<1>2. CASE Choose
  BY <1>2, ChooseStep
<1>3. CASE Limit
  BY <1>3, LimitStep
<1>4. CASE DownloadNext
  BY <1>4, DownloadStep
<1>5. CASE UNCHANGED libraryVars
  BY <1>5 DEF libraryVars, listVars, batchVars, LibraryInv, ListInv, ListType, InPages, BatchState,
              BatchType, Undisturbed, Fits, Want, Answer, Understood, Names
<1> QED BY <1>1, <1>2, <1>3, <1>4, <1>5 DEF LibraryNext

\* The inductive invariant of the library.
THEOREM LibraryStays == LibrarySpec => []LibraryInv
<1>1. LibraryInit => LibraryInv
  BY InitLibrary
<1>2. LibraryInv /\ [LibraryNext]_libraryVars => LibraryInv'
  BY LibraryStep
<1> QED BY <1>1, <1>2, PTL DEF LibrarySpec

\* Every recording of the range is in the list once for every day it touches, whichever of
\* its forms the camera answers and however the pages end.  (list, _list_handle_files)
THEOREM ListedOnce == LibrarySpec => []Listed
<1>1. LibraryInv => Listed
  BY InvSuffices
<1> QED BY <1>1, LibraryStays, PTL

\* The loop over failed_list() ends only when every chosen recording has its file, and the
\* first batch keeps to its limit.  (SDFileCollection.download, limit_size)
THEOREM BatchSaved == LibrarySpec => []BatchInv
<1>1. LibraryInv => BatchInv
  BY InvSuffices DEF BatchInv
<1> QED BY <1>1, LibraryStays, PTL

(***************************************************************************)
(* SdPreview: prefixes of the cells of a recording.                         *)
(***************************************************************************)

USE PreviewAssumption

\* A prefix, element by element.
LEMMA PrefixAt ==
  ASSUME NEW S, NEW s \in Seq(S), NEW t \in Seq(S)
  PROVE  IsPrefix(s, t) <=> Len(s) <= Len(t) /\ \A i \in 1 .. Len(s) : s[i] = t[i]
<1>1. SubSeq(s, 1, Len(s)) = s
  BY SubSeqFull
<1>2. ASSUME Len(s) <= Len(t)
      PROVE  /\ SubSeq(t, 1, Len(s)) \in Seq(S) /\ Len(SubSeq(t, 1, Len(s))) = Len(s)
             /\ \A i \in 1 .. Len(s) : SubSeq(t, 1, Len(s))[i] = t[i]
  <2> DEFINE n == Len(s)
  <2>1. n \in Nat /\ \A i \in 1 .. n : t[i] \in S
    BY <1>2
  <2> HIDE DEF n
  <2> DEFINE m == 1
  <2>a. m = 1 /\ m \in Int /\ n \in Int
    BY <2>1
  <2> HIDE DEF m
  <2>b. \A i \in m .. n : t[i] \in S
    BY <2>1, <2>a
  <2>c. /\ SubSeq(t, m, n) \in Seq(S)
        /\ Len(SubSeq(t, m, n)) = (IF m <= n THEN n - m + 1 ELSE 0)
        /\ \A i \in 1 .. n - m + 1 : SubSeq(t, m, n)[i] = t[m + i - 1]
    BY <2>a, <2>b, SubSeqProperties
  <2>2. /\ SubSeq(t, 1, n) \in Seq(S)
        /\ Len(SubSeq(t, 1, n)) = (IF 1 <= n THEN n - 1 + 1 ELSE 0)
        /\ \A i \in 1 .. n - 1 + 1 : SubSeq(t, 1, n)[i] = t[1 + i - 1]
    BY <2>a, <2>c
  <2>3. Len(SubSeq(t, 1, n)) = n /\ \A i \in 1 .. n : SubSeq(t, 1, n)[i] = t[i]
    BY <2>1, <2>2
  <2> QED BY <2>2, <2>3 DEF n
<1>3. ASSUME Len(s) <= Len(t), \A i \in 1 .. Len(s) : s[i] = t[i]
      PROVE  s = SubSeq(t, 1, Len(s))
  <2> DEFINE u == SubSeq(t, 1, Len(s))
  <2>1. u \in Seq(S) /\ Len(u) = Len(s) /\ \A i \in 1 .. Len(s) : s[i] = u[i]
    BY <1>2, <1>3
  <2> HIDE DEF u
  <2>2. s = u
    BY <2>1, SeqEqual
  <2> QED BY <2>2 DEF u
<1> QED BY <1>1, <1>2, <1>3 DEF IsPrefix

\* The prefix of a prefix; and one that is as long as the whole is the whole.
LEMMA PrefixFacts ==
  ASSUME NEW S, NEW s \in Seq(S), NEW t \in Seq(S), IsPrefix(s, t)
  PROVE  /\ \A u \in Seq(S) : IsPrefix(t, u) => IsPrefix(s, u)
         /\ \A u \in Seq(S) : IsPrefix(s, t \o u)
         /\ Len(s) >= Len(t) => s = t
         /\ s \o SubSeq(t, Len(s) + 1, Len(t)) = t
<1>1. Len(s) \in Nat /\ Len(t) \in Nat /\ Len(s) <= Len(t) /\ \A i \in 1 .. Len(s) : s[i] = t[i]
  BY PrefixAt
<1>2. ASSUME NEW u \in Seq(S), IsPrefix(t, u) PROVE IsPrefix(s, u)
  <2>1. Len(t) <= Len(u) /\ \A i \in 1 .. Len(t) : t[i] = u[i]
    BY <1>2, PrefixAt
  <2>2. Len(s) <= Len(u) /\ \A i \in 1 .. Len(s) : s[i] = u[i]
    BY <1>1, <2>1
  <2> QED BY <2>2, PrefixAt
<1>3. ASSUME NEW u \in Seq(S) PROVE IsPrefix(s, t \o u)
  <2>1. t \o u \in Seq(S) /\ Len(t \o u) = Len(t) + Len(u) /\ Len(u) \in Nat
        /\ \A i \in 1 .. Len(t) : (t \o u)[i] = t[i]
    BY ConcatProperties
  <2> DEFINE w == t \o u
  <2>2. w \in Seq(S) /\ Len(s) <= Len(w) /\ \A i \in 1 .. Len(s) : s[i] = w[i]
    BY <1>1, <2>1
  <2> HIDE DEF w
  <2>3. IsPrefix(s, w)
    BY <2>2, PrefixAt
  <2> QED BY <2>3 DEF w
<1>4. Len(s) >= Len(t) => s = t
  BY <1>1, SeqEqual
<1>5. s \o SubSeq(t, Len(s) + 1, Len(t)) = t
  <2> DEFINE r == SubSeq(t, Len(s) + 1, Len(t))
  <2>1. \A i \in Len(s) + 1 .. Len(t) : t[i] \in S
    BY <1>1
  <2>2. r \in Seq(S) /\ Len(r) = (IF Len(s) + 1 <= Len(t) THEN Len(t) - (Len(s) + 1) + 1 ELSE 0)
        /\ \A i \in 1 .. Len(t) - (Len(s) + 1) + 1 : r[i] = t[(Len(s) + 1) + i - 1]
    BY <1>1, <2>1, SubSeqProperties
  <2>3. Len(r) = Len(t) - Len(s) /\ \A i \in 1 .. Len(t) - Len(s) : r[i] = t[Len(s) + i]
    BY <1>1, <2>2
  <2> HIDE DEF r
  <2>4. s \o r \in Seq(S) /\ Len(s \o r) = Len(t)
        /\ \A i \in 1 .. Len(t) : (s \o r)[i] = IF i <= Len(s) THEN s[i] ELSE r[i - Len(s)]
    BY <1>1, <2>2, <2>3, ConcatProperties
  <2> DEFINE w == s \o r
  <2>4a. \A i \in 1 .. Len(t) : w[i] = IF i <= Len(s) THEN s[i] ELSE r[i - Len(s)]
    BY <2>4
  <2> HIDE DEF w
  <2>5. \A i \in 1 .. Len(t) : w[i] = t[i]
    <3> SUFFICES ASSUME NEW i \in 1 .. Len(t) PROVE w[i] = t[i]
      OBVIOUS
    <3>1. CASE i <= Len(s)
      BY <3>1, <1>1, <2>4a
    <3>2. CASE i > Len(s)
      <4>1. i - Len(s) \in 1 .. Len(t) - Len(s) /\ Len(s) + (i - Len(s)) = i
        BY <3>2, <1>1
      <4>2. r[i - Len(s)] = t[i]
        BY <4>1, <2>3
      <4> QED BY <3>2, <4>2, <2>4a, <1>1
    <3> QED BY <3>1, <3>2, <1>1
  <2>6. s \o r = t
    BY <2>4, <2>5, SeqEqual DEF w
  <2> QED BY <2>6 DEF r
<1> QED BY <1>2, <1>3, <1>4, <1>5

LEMMA EmptyPrefix ==
  ASSUME NEW S, NEW t \in Seq(S)
  PROVE  IsPrefix(<<>>, t)
<1>1. <<>> \in Seq(S) /\ Len(<<>>) = 0 /\ Len(t) \in Nat
  BY EmptySeq
<1>2. Len(<<>>) <= Len(t) /\ \A i \in 1 .. Len(<<>>) : <<>>[i] = t[i]
  BY <1>1
<1> QED BY <1>1, <1>2, PrefixAt

(***************************************************************************)
(* The inductive invariant.                                                 *)
(***************************************************************************)

Viewing == {"copy", "stuck", "check", "leave"} \cup Closing

\* What the file holds when r cells have come.
TakenIn(r) == IF Found(r) THEN Cells(layout.pre, r) ELSE <<>>

\* A dump has no players, and no file.
ModeInv ==
    mode = "dump" => /\ ~cleanup /\ ~linked /\ ~stop /\ user = "out" /\ file = NoFile
                     /\ \A v \in Viewer : pc[v] = "away"

\* The locals of the thread: what has been written is what was found, and a size
\* that is expected is that of the file if the code can know it.
LoopInv ==
    /\ worker \in {"request", "first", "ended"} => raw_seen = 0 /\ ~mp4_started /\ expected_total = 0
    /\ mp4_started => Found(raw_seen)
    /\ Found(raw_seen) => mp4_started
    /\ Plain /\ expected_total # 0 => expected_total = Size
    /\ ready => mp4_started \/ worker = "ended"
    /\ done => worker = "ended"
    /\ error => done /\ cut

\* The file the thread has opened is its own until close() removes it.
Opened == linked \/ (removed /\ ~file.here)
FileInv ==
    /\ linked => file.here
    /\ mode = "cache" /\ (worker \in {"first", "loop"} \/ (worker = "ended" /\ ~error)) => Opened
    /\ linked /\ worker \in {"first", "loop"} => file.cells = TakenIn(raw_seen)
    /\ linked /\ worker = "ended" => IsPrefix(file.cells, Mp4) /\ (cut \/ file.cells = Mp4)
    /\ worker = "request" => ~linked

\* What a player that was ready in time has been sent is the start of the file.
ReaderInv(v) ==
    /\ pc[v] \in {"away", "wait"} => got[v] = <<>>
    /\ v \notin hasty =>
          /\ pc[v] \in Viewing => worker \in {"loop", "ended"} /\ Opened
          /\ linked /\ pc[v] \in Viewing => IsPrefix(got[v], file.cells)
          /\ IsPrefix(got[v], Mp4)
          /\ pc[v] \in {"leave", "left"} \cup Closing => got[v] = Mp4 \/ v \in gone \/ cut \/ removed
ReadInv == \A v \in Viewer : ReaderInv(v)

DumpInv == mode = "dump" /\ worker = "ended" => dumped = Mp4 \/ cut

\* When the user is out the thread has ended and the file is gone.
OutInv == cleanup /\ user = "out" => expired \/ (worker = "ended" /\ ~file.here)

Rest == ModeInv /\ LoopInv /\ FileInv /\ ReadInv /\ DumpInv /\ OutInv
IInv == TypeOK /\ cut \in BOOLEAN /\ Rest

(***************************************************************************)
(* The answer and its cells.                                                *)
(***************************************************************************)

\* The boxes of an answer follow one another, and ftyp is longer than its header.
LEMMA LayoutFacts ==
  ASSUME layout \in Layouts
  PROVE  /\ layout.pre \in Nat /\ Start(1) = layout.pre
         /\ layout.boxes \in Seq(Box) /\ Len(layout.boxes) \in Nat /\ Len(layout.boxes) >= 1
         /\ DOMAIN layout.boxes = 1 .. Len(layout.boxes)
         /\ \A k \in 1 .. Len(layout.boxes) + 1 : Start(k) \in Nat
         /\ \A j, k \in 1 .. Len(layout.boxes) + 1 : j < k => Start(j) < Start(k)
         /\ Size \in Nat /\ Size >= layout.pre + 2
         /\ Start(2) >= layout.pre + 2
         /\ layout.boxes[1].type = "ftyp" /\ layout.boxes[1].sized
         /\ layout.pre + 1 + MaxPayload <= HeadLimit
<1> DEFINE n == Len(layout.boxes)
           end(k) == layout.boxes[k].end
<1>1. /\ layout.pre \in Nat /\ layout.boxes \in Seq(Box) /\ n \in 1 .. 12
      /\ layout.boxes[1].type = "ftyp" /\ layout.boxes[1].sized
      /\ end(1) > layout.pre + 1
      /\ \A j, k \in DOMAIN layout.boxes : j < k => end(j) < end(k)
      /\ layout.pre + 1 + MaxPayload <= HeadLimit
  OBVIOUS
<1>2. DOMAIN layout.boxes = 1 .. n /\ \A k \in 1 .. n : end(k) \in Nat
  <2>1. \A k \in 1 .. n : layout.boxes[k] \in Box
    BY <1>1, ElementOfSeq
  <2> QED BY <1>1, <2>1, LenProperties DEF Box
<1>3. \A k \in 1 .. n + 1 : Start(k) = IF k = 1 THEN layout.pre ELSE end(k - 1)
  BY DEF Start
<1> HIDE DEF n, end
<1>4. n \in Nat /\ n >= 1 /\ \A k \in 2 .. n : end(1) < end(k)
  <2>1. n \in Nat /\ n >= 1
    BY <1>1
  <2>2. ASSUME NEW k \in 2 .. n PROVE end(1) < end(k)
    <3>1. 1 \in 1 .. n /\ k \in 1 .. n /\ 1 < k
      BY <2>1, <2>2
    <3> QED BY <3>1, <1>1, <1>2
  <2> QED BY <2>1, <2>2
<1>5. \A k \in 1 .. n + 1 : Start(k) \in Nat /\ (k > 1 => Start(k) >= layout.pre + 2)
  <2> SUFFICES ASSUME NEW k \in 1 .. n + 1
               PROVE  Start(k) \in Nat /\ (k > 1 => Start(k) >= layout.pre + 2)
    OBVIOUS
  <2>1. CASE k = 1
    BY <2>1, <1>1, <1>3
  <2>2. CASE k > 1
    <3>1. k - 1 \in 1 .. n /\ Start(k) = end(k - 1)
      BY <2>2, <1>3, <1>4
    <3>2. end(k - 1) \in Nat /\ (k - 1 = 1 \/ end(1) < end(k - 1))
      BY <3>1, <1>2, <1>4
    <3>3. end(1) \in Nat
      BY <1>2, <1>4
    <3> QED BY <3>1, <3>2, <3>3, <1>1
  <2> QED BY <2>1, <2>2
<1>6. \A j, k \in 1 .. n + 1 : j < k => Start(j) < Start(k)
  <2> SUFFICES ASSUME NEW j \in 1 .. n + 1, NEW k \in 1 .. n + 1, j < k
               PROVE  Start(j) < Start(k)
    OBVIOUS
  <2>1. CASE j = 1
    BY <2>1, <1>1, <1>3, <1>5, <1>4
  <2>2. CASE j > 1
    <3>1. j - 1 \in 1 .. n /\ k - 1 \in 1 .. n /\ j - 1 < k - 1
      BY <2>2, <1>4
    <3>2. end(j - 1) < end(k - 1)
      BY <3>1, <1>1, <1>2
    <3>3. Start(j) = end(j - 1) /\ Start(k) = end(k - 1)
      BY <2>2, <1>3
    <3> QED BY <3>2, <3>3
  <2> QED BY <2>1, <2>2
<1>7. Size = Start(n + 1)
  BY DEF Size, n
<1>8. Start(1) = layout.pre /\ n + 1 \in 1 .. n + 1 /\ n + 1 > 1 /\ 2 \in 1 .. n + 1
  BY <1>3, <1>4
<1>9. Size \in Nat /\ Size >= layout.pre + 2 /\ Start(2) >= layout.pre + 2
  <2> HIDE <1>3, <1>6
  <2> QED BY <1>5, <1>7, <1>8
<1> QED BY <1>1, <1>2, <1>4, <1>5, <1>6, <1>8, <1>9 DEF n

\* Cells in a row.
LEMMA CellsFacts ==
  ASSUME NEW a \in Nat, NEW b \in Nat, NEW z \in Nat, a <= b, b <= z
  PROVE  /\ Cells(a, b) \in Seq(0 .. z) /\ Len(Cells(a, b)) = b - a
         /\ \A i \in 1 .. b - a : Cells(a, b)[i] = a + i
<1>1. Cells(a, b) \in [1 .. b - a -> 0 .. z] /\ b - a \in Nat
      /\ \A i \in 1 .. b - a : Cells(a, b)[i] = a + i
  BY DEF Cells
<1> HIDE DEF Cells
<1> QED BY <1>1

LEMMA Mp4Seq ==
  ASSUME layout \in Layouts
  PROVE  Mp4 \in Seq(0 .. Size) /\ IsPrefix(<<>>, Mp4)
<1> DEFINE a == layout.pre  b == Size
<1>1. a \in Nat /\ b \in Nat /\ a <= b /\ b <= b
  BY LayoutFacts
<1>2. Mp4 = Cells(a, b)
  BY DEF Mp4
<1> HIDE DEF a, b
<1>3. Cells(a, b) \in Seq(0 .. b)
  BY <1>1, CellsFacts
<1> QED BY <1>2, <1>3, EmptyPrefix DEF b

\* Two rows, the second where the first ends, make one.
LEMMA CellsJoin ==
  ASSUME NEW a \in Nat, NEW b \in Nat, NEW c \in Nat, a <= b, b <= c
  PROVE  Cells(a, b) \o Cells(b, c) = Cells(a, c) /\ IsPrefix(Cells(a, b), Cells(a, c))
<1> DEFINE s == Cells(a, b)  t == Cells(b, c)  u == Cells(a, c)
<1>1. s \in Seq(0 .. c) /\ t \in Seq(0 .. c) /\ u \in Seq(0 .. c)
      /\ Len(s) = b - a /\ Len(t) = c - b /\ Len(u) = c - a
      /\ (\A i \in 1 .. b - a : s[i] = a + i) /\ (\A i \in 1 .. c - b : t[i] = b + i)
      /\ (\A i \in 1 .. c - a : u[i] = a + i)
  <2>1. s \in Seq(0 .. c) /\ Len(s) = b - a /\ \A i \in 1 .. b - a : s[i] = a + i
    BY CellsFacts
  <2>2. t \in Seq(0 .. c) /\ Len(t) = c - b /\ \A i \in 1 .. c - b : t[i] = b + i
    BY CellsFacts
  <2>3. u \in Seq(0 .. c) /\ Len(u) = c - a /\ \A i \in 1 .. c - a : u[i] = a + i
    <3>1. a <= c
      OBVIOUS
    <3> QED BY <3>1, CellsFacts
  <2> QED BY <2>1, <2>2, <2>3
<1> HIDE DEF s, t, u
<1> DEFINE w == s \o t
<1>2. w \in Seq(0 .. c) /\ Len(w) = c - a
      /\ \A i \in 1 .. c - a : w[i] = IF i <= Len(s) THEN s[i] ELSE t[i - Len(s)]
  <2>1. w \in Seq(0 .. c) /\ Len(w) = Len(s) + Len(t)
        /\ \A i \in 1 .. Len(s) + Len(t) : w[i] = IF i <= Len(s) THEN s[i] ELSE t[i - Len(s)]
    BY <1>1, ConcatProperties
  <2>2. Len(s) + Len(t) = c - a
    BY <1>1
  <2> QED BY <2>1, <2>2
<1> HIDE DEF w
<1>3. \A i \in 1 .. c - a : w[i] = u[i]
  <2> SUFFICES ASSUME NEW i \in 1 .. c - a PROVE w[i] = a + i
    BY <1>1
  <2>1. CASE i <= b - a
    BY <2>1, <1>1, <1>2
  <2>2. CASE i > b - a
    <3>1. i - (b - a) \in 1 .. c - b
      BY <2>2
    <3>2. t[i - (b - a)] = b + (i - (b - a))
      BY <3>1, <1>1
    <3> QED BY <2>2, <3>2, <1>1, <1>2
  <2> QED BY <2>1, <2>2
<1>4. w = u
  BY <1>1, <1>2, <1>3, SeqEqual
<1>5. Len(s) <= Len(u) /\ \A i \in 1 .. Len(s) : s[i] = u[i]
  BY <1>1
<1>6. IsPrefix(s, u)
  BY <1>1, <1>5, PrefixAt
<1> QED BY <1>4, <1>6 DEF s, t, u, w

\* What is kept of the head is enough to find the MP4.
LEMMA HeadFacts ==
  ASSUME layout \in Layouts, NEW r \in 0 .. Size
  PROVE  /\ HeadCells(r) \in 0 .. r
         /\ Found(HeadCells(r)) <=> Found(r)
         /\ r <= layout.pre + 1 + MaxPayload => HeadCells(r) = r
<1>1. Size \in Nat /\ layout.pre \in Nat /\ layout.pre + 1 + MaxPayload <= HeadLimit
  BY LayoutFacts
<1>2. HeadCells(r) = r \/ HeadCells(r) = IF r <= HeadLimit THEN r ELSE HeadLimit
  <2>1. Min({r, HeadLimit}) = IF r <= HeadLimit THEN r ELSE HeadLimit
    BY MinOfTwo, <1>1
  <2> QED BY <2>1 DEF HeadCells
<1> QED BY <1>1, <1>2 DEF Found

\* The size that is read off the first cells.
LEMMA TotalFacts ==
  ASSUME layout \in Layouts, NEW h \in 0 .. Size
  PROVE  /\ Total(h) \in 0 .. Size /\ (Total(h) # 0 => Total(h) >= layout.pre)
         /\ Plain /\ Total(h) # 0 => Total(h) = Size
         /\ h = Size => Total(h) \in {0, Size}
<1> DEFINE n == Len(layout.boxes)
           G == {k \in DOMAIN layout.boxes : Start(k) < h /\ \A j \in 1 .. k - 1 : layout.boxes[j].sized}
           k == LastBox(h)
<1>1. /\ layout.pre \in Nat /\ Start(1) = layout.pre /\ n \in Nat /\ n >= 1 /\ Size \in Nat
      /\ DOMAIN layout.boxes = 1 .. n
      /\ \A i \in 1 .. n + 1 : Start(i) \in Nat
      /\ \A i, j \in 1 .. n + 1 : i < j => Start(i) < Start(j)
  BY LayoutFacts
<1>1a. Size = Start(n + 1)
  BY DEF Size
<1>2. CASE ~Found(h)
  BY <1>2, <1>1 DEF Total, Found
<1>3. CASE Found(h)
  <2>1. 1 \in G
    <3>1. Start(1) < h
      BY <1>3, <1>1 DEF Found
    <3>2. 1 .. 1 - 1 = {} /\ 1 \in 1 .. n
      BY <1>1
    <3> QED BY <3>1, <3>2, <1>1
  <2>2. k \in G /\ \A y \in G : k >= y
    <3>1. G \in SUBSET (1 .. n) /\ G # {}
      BY <2>1, <1>1
    <3> HIDE DEF G
    <3>2. Max(G) \in G /\ \A y \in G : Max(G) >= y
      BY <3>1, <1>1, MaxIn
    <3>3. k = Max(G)
      BY DEF LastBox, G
    <3> QED BY <3>2, <3>3
  <2>3. /\ k \in 1 .. n /\ Start(k) < h /\ \A j \in 1 .. k - 1 : layout.boxes[j].sized
        /\ k + 1 \in 1 .. n + 1
    BY <2>2, <1>1
  <2>4. h = Size /\ layout.boxes[k].sized => k = n
    <3> SUFFICES ASSUME h = Size, layout.boxes[k].sized, k < n PROVE FALSE
      BY <2>3, <1>1
    <3>1. k + 1 \in 1 .. n
      BY <2>3, <1>1
    <3>2. Start(k + 1) < Start(n + 1)
      BY <3>1, <1>1
    <3>3. \A j \in 1 .. (k + 1) - 1 : layout.boxes[j].sized
      <4>1. \A j \in 1 .. (k + 1) - 1 : j \in 1 .. k - 1 \/ j = k
        BY <2>3
      <4> HIDE DEF k
      <4> QED BY <4>1, <2>3
    <3>4. k + 1 \in G
      BY <3>1, <3>2, <3>3, <1>1, <1>1a
    <3> QED BY <3>4, <2>2, <2>3
  <2>5. Start(k + 1) \in Nat /\ Start(k + 1) <= Size /\ Start(k + 1) >= layout.pre
    <3> DEFINE m == k + 1
    <3>1. m \in 1 .. n + 1 /\ n + 1 \in 1 .. n + 1
      BY <2>3, <1>1
    <3>2. m \in Nat /\ (m = n + 1 \/ m < n + 1)
      BY <3>1, <1>1
    <3> HIDE DEF m, k, n
    <3>3. Start(m) \in Nat /\ Start(n + 1) \in Nat /\ (m = n + 1 \/ Start(m) < Start(n + 1))
      BY <3>1, <3>2, <1>1
    <3>4. Start(m) \in Nat /\ Start(m) <= Size
      BY <3>3, <1>1a
    <3>5. 1 \in 1 .. n + 1 /\ (m = 1 \/ 1 < m)
      BY <3>1, <1>1
    <3>6. Start(m) >= layout.pre
      BY <3>5, <3>1, <3>4, <1>1
    <3> QED BY <3>4, <3>6 DEF m
  <2>6. Plain /\ layout.boxes[k].type = "mdat" => k = n /\ layout.boxes[k].sized
    BY <2>3, <1>1 DEF Plain
  <2>7. Total(h) = IF layout.boxes[k].type # "mdat" THEN 0
                   ELSE IF layout.boxes[k].sized THEN Start(k + 1) ELSE h
    BY <1>3 DEF Total
  <2> HIDE DEF k, G, n
  <2>8. h >= layout.pre
    BY <1>3, <1>1 DEF Found
  <2> QED BY <2>3, <2>4, <2>5, <2>6, <2>7, <2>8, <1>1, <1>1a
<1> QED BY <1>2, <1>3

\* What the file holds after another payload.
LEMMA WrittenFacts ==
  ASSUME layout \in Layouts, raw_seen \in Nat, NEW n \in 0 .. MaxPayload, raw_seen + n <= Size,
         mp4_started \in BOOLEAN, mp4_started <=> Found(raw_seen)
  PROVE  /\ TakenIn(raw_seen) \in Seq(0 .. Size) /\ Written(n) \in Seq(0 .. Size)
         /\ TakenIn(raw_seen) \o Written(n) = TakenIn(raw_seen + n)
         /\ Written(n) # <<>> => Found(raw_seen + n)
         /\ Found(raw_seen + n) => mp4_started \/ Written(n) # <<>>
<1> DEFINE r == raw_seen + n
           pre == layout.pre
<1>1. /\ pre \in Nat
      /\ Size \in Nat
      /\ MaxPayload \in Nat
      /\ n \in Nat
      /\ n <= MaxPayload
      /\ r \in 0 .. Size
  BY LayoutFacts
<1>2. (Found(HeadCells(r)) <=> Found(r)) /\ (r <= pre + 1 + MaxPayload => HeadCells(r) = r)
  BY <1>1, HeadFacts
<1>3. <<>> \in Seq(0 .. Size)
  BY EmptySeq
<1>4. Max({pre - raw_seen, 0}) = IF pre - raw_seen >= 0 THEN pre - raw_seen ELSE 0
  <2> DEFINE a == pre - raw_seen
  <2>1. a \in Int /\ 0 \in Int
    BY <1>1
  <2> HIDE DEF a
  <2>2. Max({a, 0}) = IF a >= 0 THEN a ELSE 0
    BY <2>1, MaxOfTwo
  <2> QED BY <2>2 DEF a
<1>5. CASE ~Found(r)
  <2>1. Written(n) = <<>> /\ TakenIn(r) = <<>>
    BY <1>5, <1>2 DEF Written, TakenIn
  <2>2. ~Found(raw_seen)
    BY <1>5, <1>1 DEF Found
  <2>3. TakenIn(raw_seen) = <<>>
    BY <2>2 DEF TakenIn
  <2>4. <<>> \o <<>> = <<>>
    BY <1>3, ConcatEmptySeq
  <2> QED BY <2>1, <2>3, <2>4, <1>3, <1>5
<1>6. CASE Found(r) /\ ~Found(raw_seen)
  <2>1. raw_seen <= pre + 1 /\ r >= pre + 2 /\ ~mp4_started
    BY <1>6, <1>1 DEF Found
  <2>2. HeadCells(r) = r
    BY <2>1, <1>1, <1>2
  <2>3. Written(n) = Cells(pre, r)
    <3>1. CASE pre < raw_seen
      BY <3>1, <2>1, <2>2, <1>2, <1>6 DEF Written
    <3>2. CASE pre >= raw_seen
      <4>1. raw_seen + Max({pre - raw_seen, 0}) = pre
        BY <3>2, <1>4, <1>1
      <4>2. ~ (pre < raw_seen)
        BY <3>2, <1>1
      <4> QED BY <4>1, <4>2, <2>1, <1>2, <1>6 DEF Written
    <3> QED BY <3>1, <3>2, <1>1
  <2>4. TakenIn(raw_seen) = <<>> /\ TakenIn(r) = Cells(pre, r)
    BY <1>6 DEF TakenIn
  <2>5. Cells(pre, r) \in Seq(0 .. Size) /\ Len(Cells(pre, r)) = r - pre
    <3>1. r \in Nat /\ pre <= r /\ r <= Size
      BY <1>1, <2>1
    <3> QED BY <3>1, <1>1, CellsFacts
  <2>6. <<>> \o Cells(pre, r) = Cells(pre, r) /\ Cells(pre, r) # <<>>
    BY <2>5, <2>1, <1>1, ConcatEmptySeq, EmptySeq
  <2> QED BY <2>3, <2>4, <2>5, <2>6, <1>3, <1>6
<1>7. CASE Found(r) /\ Found(raw_seen)
  <2>1. raw_seen >= pre + 2 /\ mp4_started /\ r >= raw_seen
    BY <1>7, <1>1 DEF Found
  <2>2. raw_seen + Max({pre - raw_seen, 0}) = raw_seen
    BY <2>1, <1>4, <1>1
  <2>3. Written(n) = Cells(raw_seen, r)
    BY <2>1, <2>2, <1>2, <1>7 DEF Written
  <2>4. TakenIn(raw_seen) = Cells(pre, raw_seen) /\ TakenIn(r) = Cells(pre, r)
    BY <1>7 DEF TakenIn
  <2>a. r \in Nat /\ pre <= raw_seen /\ raw_seen <= r /\ r <= Size /\ raw_seen <= Size /\ pre <= r
    BY <1>1, <2>1
  <2> HIDE DEF r
  <2>5. Cells(pre, raw_seen) \in Seq(0 .. Size) /\ Cells(raw_seen, r) \in Seq(0 .. Size)
    BY <1>1, <2>a, CellsFacts
  <2>6. Cells(pre, raw_seen) \o Cells(raw_seen, r) = Cells(pre, r)
    <3> DEFINE b == raw_seen  a == pre
    <3>1. a \in Nat /\ b \in Nat /\ r \in Nat /\ a <= b /\ b <= r
      BY <1>1, <2>a
    <3> HIDE DEF a, b
    <3>2. Cells(a, b) \o Cells(b, r) = Cells(a, r)
      BY <3>1, CellsJoin
    <3> QED BY <3>2 DEF a, b
  <2> QED BY <2>1, <2>3, <2>4, <2>5, <2>6, <1>7 DEF r
<1> QED BY <1>5, <1>6, <1>7

(***************************************************************************)
(* What the thread does.                                                    *)
(***************************************************************************)

\* None of its steps touches what belongs to the players or to close().
LEMMA WorkerFrame ==
  ASSUME Worker
  PROVE  /\ layout' = layout /\ mode' = mode /\ cleanup' = cleanup /\ on_disconnect' = on_disconnect
         /\ pc' = pc /\ got' = got /\ gone' = gone /\ active' = active /\ hasty' = hasty
         /\ stop' = stop /\ user' = user /\ removed' = removed /\ expired' = expired
<1> USE DEF fixedVars, viewerVars, closeVars
<1>1. CASE Open
  BY <1>1 DEF Open
<1>2. CASE FirstReply
  BY <1>2 DEF FirstReply
<1>3. CASE LoopEnds
  BY <1>3 DEF LoopEnds, Finish
<1>4. CASE Reply
  BY <1>4 DEF Reply
<1>5. CASE Miss
  BY <1>5 DEF Miss
<1>6. CASE Idle
  BY <1>6 DEF Idle, Finish
<1>7. CASE Terminal
  BY <1>7 DEF Terminal, Finish
<1>8. CASE Fails
  BY <1>8 DEF Fails
<1> QED BY <1>1, <1>2, <1>3, <1>4, <1>5, <1>6, <1>7, <1>8 DEF Worker

\* The file is opened.
OpenEffect ==
    /\ worker = "request" /\ worker' = "first"
    /\ raw_seen' = raw_seen /\ mp4_started' = mp4_started /\ expected_total' = expected_total
    /\ misses' = misses
    /\ ready' = ready /\ done' = done /\ error' = error /\ dumped' = dumped /\ cut' = cut
    /\ mode = "cache" => file' = [here |-> TRUE, cells |-> <<>>] /\ linked' = TRUE
    /\ mode # "cache" => file' = file /\ linked' = linked

\* A payload is written.
PayloadEffect ==
    /\ worker \in {"first", "loop"} /\ worker' = "loop"
    /\ raw_seen' \in 0 .. Size /\ expected_total' \in 0 .. Size
    /\ Plain /\ expected_total' # 0 => expected_total' = Size
    /\ misses' \in 0 .. IdleTimeouts - 1
    /\ mp4_started' \in BOOLEAN
    /\ (mp4_started' => Found(raw_seen'))
    /\ (Found(raw_seen') => mp4_started')
    /\ ready' \in BOOLEAN /\ ((ready => mp4_started) => (ready' => mp4_started'))
    /\ done' = done /\ error' = error /\ dumped' = dumped /\ cut' = cut /\ linked' = linked
    /\ file'.here = file.here /\ file' \in [here : BOOLEAN, cells : Seq(0 .. Size)]
    /\ mode = "cache" /\ linked => IsPrefix(file.cells, file'.cells)
    /\ mode = "cache" /\ linked /\ file.cells = TakenIn(raw_seen) => file'.cells = TakenIn(raw_seen')
    /\ mode # "cache" => file' = file

\* The answer is waited for a little longer.
MissEffect ==
    /\ worker = "loop" /\ worker' = worker /\ misses' \in 0 .. IdleTimeouts - 1
    /\ raw_seen' = raw_seen /\ mp4_started' = mp4_started /\ expected_total' = expected_total
    /\ ready' = ready /\ done' = done /\ error' = error /\ dumped' = dumped /\ cut' = cut
    /\ file' = file /\ linked' = linked

\* The thread ends, with an exception or behind what it knows for the end of the answer.
EndEffect ==
    /\ worker # "ended" /\ worker' = "ended"
    /\ raw_seen' = 0 /\ mp4_started' = FALSE /\ expected_total' = 0 /\ misses' = 0
    /\ ready' = TRUE /\ done' = TRUE /\ file' = file /\ linked' = linked
    /\ cut' \in BOOLEAN /\ (cut => cut') /\ dumped' \in Seq(0 .. Size)
    /\ \/ error' = TRUE /\ cut' = TRUE
       \/ /\ worker = "loop" /\ error' = error /\ (cut' \/ raw_seen = Size)
          /\ mode = "dump" => dumped' = Mp4 \/ cut'

LEMMA PayloadHas ==
  ASSUME TypeOK, cut \in BOOLEAN, LoopInv, worker \in {"first", "loop"}, worker' = "loop",
         NEW n \in 0 .. MaxPayload, raw_seen + n <= Size, WritePayload(n),
         misses' \in 0 .. IdleTimeouts - 1,
         UNCHANGED <<linked, done, error, dumped, cut>>
  PROVE  PayloadEffect
<1> DEFINE r == raw_seen + n
<1>1. layout \in Layouts /\ raw_seen \in 0 .. Size /\ expected_total \in 0 .. Size
      /\ file \in [here : BOOLEAN, cells : Seq(0 .. Size)]
      /\ mp4_started \in BOOLEAN /\ ready \in BOOLEAN /\ linked \in BOOLEAN
  BY DEF TypeOK
<1>2. Size \in Nat /\ raw_seen \in Nat /\ r \in 0 .. Size
  BY <1>1, LayoutFacts
<1>3. (mp4_started => Found(raw_seen)) /\ (Found(raw_seen) => mp4_started)
      /\ (Plain /\ expected_total # 0 => expected_total = Size)
  BY DEF LoopInv
<1>4. /\ TakenIn(raw_seen) \in Seq(0 .. Size) /\ Written(n) \in Seq(0 .. Size)
      /\ TakenIn(raw_seen) \o Written(n) = TakenIn(r)
      /\ Written(n) # <<>> => Found(r)
      /\ Found(r) => mp4_started \/ Written(n) # <<>>
  BY <1>1, <1>2, <1>3, WrittenFacts
<1>5. /\ raw_seen' = r
      /\ mp4_started' = (mp4_started \/ Written(n) # <<>>)
      /\ expected_total' = IF expected_total # 0 THEN expected_total ELSE Total(HeadCells(r))
      /\ mode = "cache" => /\ ready' = (ready \/ Written(n) # <<>>)
                           /\ file' = IF linked THEN [file EXCEPT !.cells = @ \o Written(n)] ELSE file
      /\ mode # "cache" => ready' = ready /\ file' = file
  BY DEF WritePayload
<1>6. expected_total' \in 0 .. Size /\ (Plain /\ expected_total' # 0 => expected_total' = Size)
  <2>1. HeadCells(r) \in 0 .. Size
    BY <1>1, <1>2, HeadFacts
  <2>2. Total(HeadCells(r)) \in 0 .. Size
        /\ (Plain /\ Total(HeadCells(r)) # 0 => Total(HeadCells(r)) = Size)
    BY <1>1, <2>1, TotalFacts
  <2> QED BY <1>1, <1>3, <1>5, <2>2
<1>7. Found(raw_seen) => Found(r)
  BY <1>1, <1>2, LayoutFacts DEF Found
<1>8. mp4_started' \in BOOLEAN /\ (mp4_started' => Found(r)) /\ (Found(r) => mp4_started')
      /\ (mp4_started => mp4_started')
  BY <1>1, <1>3, <1>4, <1>5, <1>7, Zenon
<1>9. ready' \in BOOLEAN /\ ((ready => mp4_started) => (ready' => mp4_started'))
  <2>1. CASE mode = "cache"
    <3>1. ready' \in BOOLEAN /\ (ready' => ready \/ Written(n) # <<>>)
      BY <2>1, <1>5
    <3>2. Written(n) # <<>> => mp4_started'
      BY <1>4, <1>8, Zenon
    <3> QED BY <3>1, <3>2, <1>1, <1>8, Zenon
  <2>2. CASE mode # "cache"
    <3>1. ready' = ready
      BY <2>2, <1>5
    <3> QED BY <3>1, <1>1, <1>8, Zenon
  <2> QED BY <2>1, <2>2
<1>10. /\ file'.here = file.here /\ file' \in [here : BOOLEAN, cells : Seq(0 .. Size)]
       /\ mode = "cache" /\ linked => file'.cells = file.cells \o Written(n)
  <2>1. file.cells \in Seq(0 .. Size) /\ file.here \in BOOLEAN
    BY <1>1
  <2>2. file.cells \o Written(n) \in Seq(0 .. Size)
    BY <2>1, <1>4, ConcatProperties
  <2> QED BY <1>1, <1>5, <2>2
<1>11. mode = "cache" /\ linked => IsPrefix(file.cells, file'.cells)
  <2>1. file.cells \in Seq(0 .. Size)
    BY <1>1
  <2>2. IsPrefix(file.cells, file.cells)
    BY <2>1, PrefixAt
  <2>3. IsPrefix(file.cells, file.cells \o Written(n))
    BY <2>1, <2>2, <1>4, PrefixFacts
  <2> QED BY <2>3, <1>10
<1>12. mode = "cache" /\ linked /\ file.cells = TakenIn(raw_seen) => file'.cells = TakenIn(r)
  BY <1>4, <1>10
<1>13. done' = done /\ error' = error /\ dumped' = dumped /\ cut' = cut /\ linked' = linked
  OBVIOUS
<1> HIDE DEF TakenIn, Found, Plain, Size
<1> QED BY <1>2, <1>5, <1>6, <1>8, <1>9, <1>10, <1>11, <1>12, <1>13 DEF PayloadEffect

LEMMA FinishHas ==
  ASSUME TypeOK, cut \in BOOLEAN, worker = "loop", NEW early \in BOOLEAN, Finish(early),
         early \/ raw_seen = Size
  PROVE  EndEffect
<1> DEFINE total == Total(raw_seen)
           upto  == IF total # 0 THEN Min({total, raw_seen}) ELSE raw_seen
<1>1. layout \in Layouts /\ raw_seen \in 0 .. Size /\ dumped \in Seq(0 .. Size)
  BY DEF TypeOK
<1>2. Size \in Nat /\ layout.pre \in Nat /\ Size >= layout.pre + 2
  BY <1>1, LayoutFacts
<1>3. /\ worker' = "ended" /\ ready' = TRUE /\ done' = TRUE
      /\ cut' = (cut \/ (early /\ raw_seen < Size))
      /\ dumped' = IF mode # "dump" \/ ~Found(raw_seen) THEN dumped ELSE Cells(layout.pre, upto)
      /\ raw_seen' = 0 /\ mp4_started' = FALSE /\ expected_total' = 0 /\ misses' = 0
      /\ file' = file /\ linked' = linked /\ error' = error
  BY DEF Finish, Forget
<1>4. /\ total \in 0 .. Size
      /\ (total # 0 => total >= layout.pre)
      /\ (raw_seen = Size => total \in {0, Size})
  BY <1>1, TotalFacts
<1>5. Found(raw_seen) => raw_seen >= layout.pre + 2
  BY DEF Found
<1>6. Found(Size)
  BY <1>2 DEF Found
<1> HIDE DEF total
<1>7. Min({total, raw_seen}) = IF total <= raw_seen THEN total ELSE raw_seen
  <2>1. total \in Int /\ raw_seen \in Int
    BY <1>1, <1>2, <1>4
  <2> QED BY <2>1, MinOfTwo
<1>8. Found(raw_seen) => upto \in Nat /\ layout.pre <= upto /\ upto <= Size
  BY <1>1, <1>2, <1>4, <1>5, <1>7
<1>9. raw_seen = Size => upto = Size
  BY <1>1, <1>2, <1>4, <1>7
<1> HIDE DEF upto
<1>10. Found(raw_seen) => Cells(layout.pre, upto) \in Seq(0 .. Size)
  BY <1>2, <1>8, CellsFacts
<1>11. dumped' \in Seq(0 .. Size)
  BY <1>1, <1>3, <1>10
<1>12. cut' \/ raw_seen = Size
  BY <1>1, <1>2, <1>3
<1>13. mode = "dump" => dumped' = Mp4 \/ cut'
  BY <1>3, <1>6, <1>9, <1>12 DEF Mp4
<1>14. cut' \in BOOLEAN /\ (cut => cut')
  BY <1>3
<1> HIDE DEF Mp4
<1> QED BY <1>3, <1>11, <1>12, <1>13, <1>14 DEF EndEffect

\* Every step of the thread is one of the four.
LEMMA WorkerEffects ==
  ASSUME TypeOK, cut \in BOOLEAN, LoopInv, Worker
  PROVE  OpenEffect \/ PayloadEffect \/ MissEffect \/ EndEffect
<1> USE DEF fixedVars, viewerVars, closeVars, loopVars
<1>0. /\ layout \in Layouts /\ raw_seen \in 0 .. Size /\ misses \in 0 .. IdleTimeouts - 1
      /\ Size \in Nat /\ expected_total \in 0 .. Size /\ dumped \in Seq(0 .. Size)
      /\ stop \in BOOLEAN
  BY LayoutFacts DEF TypeOK
<1>1. CASE Open
  BY <1>1 DEF Open, OpenEffect
<1>2. CASE FirstReply
  <2>1. PICK n \in 0 .. Min({MaxPayload, Size}) : WritePayload(n)
    BY <1>2 DEF FirstReply
  <2>2. raw_seen = 0 /\ worker = "first" /\ worker' = "loop" /\ misses' = misses
        /\ UNCHANGED <<linked, done, error, dumped, cut>>
    BY <1>2 DEF FirstReply, LoopInv
  <2>3. Min({MaxPayload, Size}) = IF MaxPayload <= Size THEN MaxPayload ELSE Size
    BY <1>0, MinOfTwo
  <2>4. n \in 0 .. MaxPayload /\ raw_seen + n <= Size
    BY <2>2, <2>3, <1>0
  <2>5. worker \in {"first", "loop"} /\ misses' \in 0 .. IdleTimeouts - 1
    BY <2>2, <1>0
  <2>6. PayloadEffect
    BY <2>1, <2>2, <2>4, <2>5, PayloadHas
  <2> QED BY <2>6
<1>3. CASE LoopEnds
  <2> DEFINE early == stop \/ raw_seen >= MaxBytes \/ ~Plain
  <2>1. worker = "loop" /\ Finish(early) /\ (stop \/ Enough)
    BY <1>3 DEF LoopEnds
  <2>2. early \in BOOLEAN
    BY <1>0
  <2>3. early \/ raw_seen = Size
    <3> SUFFICES ASSUME ~early PROVE raw_seen = Size
      OBVIOUS
    <3>1. Plain /\ expected_total # 0 /\ raw_seen >= expected_total
      BY <2>1 DEF Enough
    <3>2. expected_total = Size
      BY <3>1 DEF LoopInv
    <3> QED BY <3>1, <3>2, <1>0
  <2> HIDE DEF early
  <2>4. EndEffect
    BY <2>1, <2>2, <2>3, FinishHas
  <2> QED BY <2>4
<1>4. CASE Reply
  <2>1. PICK n \in 1 .. Min({MaxPayload, Size - raw_seen, MaxBytes - raw_seen}) : WritePayload(n)
    BY <1>4 DEF Reply
  <2>2. worker = "loop" /\ worker' = worker /\ misses' = 0
        /\ UNCHANGED <<linked, done, error, dumped, cut>>
    BY <1>4 DEF Reply, Looping
  <2>3. n \in 0 .. MaxPayload /\ raw_seen + n <= Size
    <3> DEFINE m == Min({MaxPayload, Size - raw_seen, MaxBytes - raw_seen})
    <3>1. m \in Int /\ m <= MaxPayload /\ m <= Size - raw_seen
      <4>1. MaxPayload \in Int /\ Size - raw_seen \in Int /\ MaxBytes - raw_seen \in Int
        BY <1>0
      <4> QED BY <4>1, MinOfThree
    <3>2. n \in 1 .. m
      OBVIOUS
    <3> HIDE DEF m
    <3> QED BY <3>1, <3>2, <1>0
  <2>4. worker \in {"first", "loop"} /\ worker' = "loop" /\ misses' \in 0 .. IdleTimeouts - 1
    BY <2>2
  <2>5. PayloadEffect
    BY <2>1, <2>2, <2>3, <2>4, PayloadHas
  <2> QED BY <2>5
<1>5. CASE Miss
  BY <1>5, <1>0 DEF Miss, Looping, MissEffect
<1>6. CASE Idle
  <2>1. worker = "loop" /\ Finish(TRUE)
    BY <1>6 DEF Idle, Looping
  <2>2. EndEffect
    BY <2>1, FinishHas
  <2> QED BY <2>2
<1>7. CASE Terminal
  <2>1. worker = "loop" /\ Finish(TRUE)
    BY <1>7 DEF Terminal, Looping
  <2>2. EndEffect
    BY <2>1, FinishHas
  <2> QED BY <2>2
<1>8. CASE Fails
  BY <1>8, <1>0 DEF Fails, Forget, EndEffect
<1> QED BY <1>1, <1>2, <1>3, <1>4, <1>5, <1>6, <1>7, <1>8 DEF Worker

(***************************************************************************)
(* Every step keeps the values, and the number of players.                  *)
(***************************************************************************)

Connected(p) == {v \in Viewer : p[v] \in {"copy", "stuck", "check", "leave"}}

\* A handler comes in among those that copy, goes out from them, or does neither.
LEMMA ConnectedNext ==
  ASSUME NEW P, pc \in [Viewer -> P], NEW v \in Viewer, NEW to, pc' = [pc EXCEPT ![v] = to],
         active = Cardinality(Connected(pc))
  PROVE  /\ active \in Nat /\ active <= Viewers
         /\ Cardinality(Connected(pc')) \in 0 .. Cardinality(Viewer)
         /\ v \in Connected(pc) <=> to \in {"copy", "stuck", "check", "leave"}
               => Cardinality(Connected(pc')) = active
         /\ v \notin Connected(pc) /\ to \in {"copy", "stuck", "check", "leave"}
               => Cardinality(Connected(pc')) = active + 1
         /\ v \in Connected(pc) /\ to \notin {"copy", "stuck", "check", "leave"}
               => Cardinality(Connected(pc')) = active - 1
<1> DEFINE busy == {"copy", "stuck", "check", "leave"}
<1>1. IsFiniteSet(Viewer) /\ Cardinality(Viewer) = Viewers
  <2>1. 1 \in Int /\ Viewers \in Int
    OBVIOUS
  <2>2. /\ IsFiniteSet(1 .. Viewers)
        /\ Cardinality(1 .. Viewers) = IF 1 > Viewers THEN 0 ELSE Viewers - 1 + 1
    BY <2>1, FS_Interval
  <2> QED BY <2>1, <2>2 DEF Viewer
<1>2. \A p : /\ IsFiniteSet(Connected(p)) /\ Cardinality(Connected(p)) \in Nat
             /\ Cardinality(Connected(p)) <= Viewers
  <2> SUFFICES ASSUME NEW p
               PROVE  /\ IsFiniteSet(Connected(p)) /\ Cardinality(Connected(p)) \in Nat
                      /\ Cardinality(Connected(p)) <= Viewers
    OBVIOUS
  <2>1. Connected(p) \subseteq Viewer
    BY DEF Connected
  <2> QED BY <2>1, <1>1, FS_Subset, FS_CardinalityType
<1>3. \A w \in Viewer : pc'[w] = IF w = v THEN to ELSE pc[w]
  OBVIOUS
<1>4. (v \in Connected(pc) <=> pc[v] \in busy) /\ (v \in Connected(pc') <=> to \in busy)
  BY <1>3 DEF Connected
<1>5. \A w \in Viewer : w # v => (w \in Connected(pc') <=> w \in Connected(pc))
  BY <1>3 DEF Connected
<1>6. Connected(pc) \subseteq Viewer /\ Connected(pc') \subseteq Viewer
  BY DEF Connected
<1>7. CASE v \in Connected(pc) /\ to \in busy
  <2>0. \A w : w \in Connected(pc') <=> w \in Connected(pc)
    BY <1>4, <1>5, <1>6, <1>7, Zenon
  <2>1. Connected(pc') = Connected(pc)
    BY <2>0
  <2> QED BY <2>1, <1>1, <1>2, <1>7
<1>8. CASE v \notin Connected(pc) /\ to \notin busy
  <2>0. \A w : w \in Connected(pc') <=> w \in Connected(pc)
    BY <1>4, <1>5, <1>6, <1>8, Zenon
  <2>1. Connected(pc') = Connected(pc)
    BY <2>0
  <2> QED BY <2>1, <1>1, <1>2, <1>8
<1>9. CASE v \notin Connected(pc) /\ to \in busy
  <2>1. Connected(pc') = Connected(pc) \cup {v}
    BY <1>4, <1>5, <1>6, <1>9
  <2>2. Cardinality(Connected(pc')) = Cardinality(Connected(pc)) + 1
    BY <2>1, <1>2, <1>9, FS_AddElement
  <2> QED BY <2>2, <1>1, <1>2, <1>9
<1>10. CASE v \in Connected(pc) /\ to \notin busy
  <2>0. \A w : w \in Connected(pc') <=> w \in Connected(pc) \ {v}
    BY <1>4, <1>5, <1>6, <1>10, Zenon
  <2>1. Connected(pc') = Connected(pc) \ {v}
    BY <2>0
  <2>2. Cardinality(Connected(pc')) = Cardinality(Connected(pc)) - 1
    <3> DEFINE C == Connected(pc)
    <3>1. IsFiniteSet(C) /\ v \in C
      BY <1>2, <1>10
    <3> HIDE DEF C
    <3>2. Cardinality(C \ {v}) = Cardinality(C) - 1
      BY <3>1, FS_RemoveElement
    <3> QED BY <3>2, <2>1 DEF C
  <2> QED BY <2>2, <1>1, <1>2, <1>10
<1> QED BY <1>7, <1>8, <1>9, <1>10

LEMMA InitType == Init => TypeOK
<1> SUFFICES ASSUME Init PROVE TypeOK
  OBVIOUS
<1>1. layout \in Layouts
  BY DEF Init
<1>2. Size \in Nat
  BY <1>1, LayoutFacts
<1>3. <<>> \in Seq(0 .. Size) /\ <<0>> \in Seq(0 .. Size)
  BY <1>2, EmptySeq
<1>4. file \in [here : BOOLEAN, cells : Seq(0 .. Size)]
  <2>1. file = [here |-> FALSE, cells |-> <<>>] \/ file = [here |-> TRUE, cells |-> <<0>>]
    BY DEF Init, NoFile
  <2>2. \A b \in BOOLEAN, c \in Seq(0 .. Size) : 
          [here |-> b, cells |-> c] \in [here : BOOLEAN, cells : Seq(0 .. Size)]
    OBVIOUS
  <2>3. FALSE \in BOOLEAN /\ TRUE \in BOOLEAN
    OBVIOUS
  <2> QED BY <2>1, <2>2, <2>3, <1>3, Zenon
<1>5. got \in [Viewer -> Seq(0 .. Size)] /\ dumped \in Seq(0 .. Size)
  BY <1>3 DEF Init
<1>6. Connected(pc) = {}
  BY DEF Init, Connected
<1>7. active = 0 /\ active = Cardinality(Connected(pc))
  BY <1>6, FS_EmptySet DEF Init
<1>8. Cardinality(Viewer) \in Nat
  BY FS_Interval, FS_CardinalityType DEF Viewer
<1>9. IdleTimeouts \in Nat \ {0}
  OBVIOUS
<1>10. /\ mode \in {"cache", "dump"} /\ cleanup \in BOOLEAN /\ on_disconnect \in BOOLEAN
       /\ user \in {"serving", "join", "out"}
  BY DEF Init
<1>11. /\ worker \in {"request", "first", "loop", "ended"}
       /\ raw_seen \in 0 .. Size /\ mp4_started \in BOOLEAN /\ expected_total \in 0 .. Size
       /\ misses \in 0 .. IdleTimeouts - 1
       /\ linked \in BOOLEAN
       /\ ready \in BOOLEAN
       /\ done \in BOOLEAN
       /\ error \in BOOLEAN
       /\ stop \in BOOLEAN
       /\ gone \subseteq Viewer
  <2>1. /\ worker = "request"
        /\ raw_seen = 0
        /\ mp4_started = FALSE
        /\ expected_total = 0
        /\ misses = 0
        /\ linked = FALSE
        /\ ready = FALSE
        /\ done = FALSE
        /\ error = FALSE
        /\ stop = FALSE
        /\ gone = {}
    BY DEF Init
  <2>2. raw_seen \in 0 .. Size /\ expected_total \in 0 .. Size /\ misses \in 0 .. IdleTimeouts - 1
    BY <2>1, <1>2, <1>9
  <2> QED BY <2>1, <2>2, Zenon
<1>12. pc \in [Viewer -> {"away", "wait", "copy", "stuck", "check", "leave", "left"} \cup Closing]
  BY DEF Init
<1> QED BY <1>1, <1>4, <1>5, <1>7, <1>8, <1>10, <1>11, <1>12 DEF TypeOK, Connected

\* The part of the type invariant about the thread.
WorkerType ==
    /\ layout \in Layouts
    /\ mode \in {"cache", "dump"}
    /\ cleanup \in BOOLEAN
    /\ on_disconnect \in BOOLEAN
    /\ worker \in {"request", "first", "loop", "ended"}
    /\ raw_seen \in 0 .. Size /\ mp4_started \in BOOLEAN /\ expected_total \in 0 .. Size
    /\ misses \in 0 .. IdleTimeouts - 1
    /\ file \in [here : BOOLEAN, cells : Seq(0 .. Size)] /\ linked \in BOOLEAN
    /\ ready \in BOOLEAN /\ done \in BOOLEAN /\ error \in BOOLEAN
    /\ dumped \in Seq(0 .. Size)
ViewerType ==
    /\ stop \in BOOLEAN /\ user \in {"serving", "join", "out"}
    /\ pc \in [Viewer -> {"away", "wait", "copy", "stuck", "check", "leave", "left"} \cup Closing]
    /\ got \in [Viewer -> Seq(0 .. Size)]
    /\ gone \subseteq Viewer /\ active \in 0 .. Cardinality(Viewer)
    /\ active = Cardinality(Connected(pc))

LEMMA TypeParts == TypeOK <=> WorkerType /\ ViewerType
BY DEF TypeOK, WorkerType, ViewerType, Connected

LEMMA WorkerTypeNext ==
  ASSUME TypeOK, cut \in BOOLEAN, LoopInv, Worker
  PROVE  TypeOK' /\ cut' \in BOOLEAN
<1>1. WorkerType /\ ViewerType
  BY TypeParts
<1>2. layout \in Layouts /\ Size \in Nat
  BY <1>1, LayoutFacts DEF WorkerType
<1>3. /\ layout' = layout /\ mode' = mode /\ cleanup' = cleanup /\ on_disconnect' = on_disconnect
      /\ pc' = pc /\ got' = got /\ gone' = gone /\ active' = active
      /\ stop' = stop /\ user' = user
  BY WorkerFrame
<1>4. Size' = Size
  BY <1>3 DEF Size, Start
<1>5. ViewerType'
  BY <1>1, <1>3, <1>4 DEF ViewerType
<1>6. 0 \in 0 .. Size /\ 0 \in 0 .. IdleTimeouts - 1 /\ <<>> \in Seq(0 .. Size)
  BY <1>2, EmptySeq
<1> HIDE DEF Size
<1>7. WorkerType' /\ cut' \in BOOLEAN
  <2>1. CASE OpenEffect
    <3>1. file' \in [here : BOOLEAN, cells : Seq(0 .. Size)] /\ linked' \in BOOLEAN
      <4>1. \A b \in BOOLEAN, c \in Seq(0 .. Size) :
               
          [here |-> b, cells |-> c] \in [here : BOOLEAN, cells : Seq(0 .. Size)]
        OBVIOUS
      <4>2. TRUE \in BOOLEAN
        OBVIOUS
      <4>3. CASE mode = "cache"
        BY <2>1, <4>1, <4>2, <4>3, <1>6, Zenon DEF OpenEffect
      <4>4. CASE mode # "cache"
        BY <2>1, <4>4, <1>1, Zenon DEF OpenEffect, WorkerType
      <4> QED BY <4>3, <4>4
    <3>2. /\ worker' = "first" /\ raw_seen' = raw_seen /\ mp4_started' = mp4_started
          /\ expected_total' = expected_total /\ misses' = misses
          /\ ready' = ready /\ done' = done /\ error' = error /\ dumped' = dumped /\ cut' = cut
      BY <2>1 DEF OpenEffect
    <3> QED BY <3>1, <3>2, <1>1, <1>3, <1>4 DEF WorkerType
  <2>2. CASE PayloadEffect
    BY <2>2, <1>1, <1>3, <1>4 DEF PayloadEffect, WorkerType
  <2>3. CASE MissEffect
    BY <2>3, <1>1, <1>3, <1>4 DEF MissEffect, WorkerType
  <2>4. CASE EndEffect
    <3>1. /\ worker' = "ended" /\ raw_seen' = 0 /\ mp4_started' = FALSE
          /\ expected_total' = 0 /\ misses' = 0
          /\ ready' = TRUE /\ done' = TRUE /\ file' = file /\ linked' = linked
          /\ cut' \in BOOLEAN /\ dumped' \in Seq(0 .. Size)
      BY <2>4 DEF EndEffect
    <3>2. error' \in BOOLEAN
      BY <2>4, <1>1 DEF EndEffect, WorkerType
    <3>3. mp4_started' \in BOOLEAN /\ ready' \in BOOLEAN /\ done' \in BOOLEAN
      BY <3>1, Zenon
    <3>4. /\ raw_seen' \in 0 .. Size
          /\ expected_total' \in 0 .. Size
          /\ misses' \in 0 .. IdleTimeouts - 1
      BY <3>1, <1>6
    <3>5. /\ layout \in Layouts
          /\ mode \in {"cache", "dump"}
          /\ cleanup \in BOOLEAN
          /\ on_disconnect \in BOOLEAN
          /\ file \in [here : BOOLEAN, cells : Seq(0 .. Size)] /\ linked \in BOOLEAN
      BY <1>1 DEF WorkerType
    <3>6. worker' \in {"request", "first", "loop", "ended"}
      BY <3>1
    <3>7. file' \in [here : BOOLEAN, cells : Seq(0 .. Size)] /\ linked' \in BOOLEAN
          /\ cut' \in BOOLEAN /\ dumped' \in Seq(0 .. Size)
      BY <3>1, <3>5, Zenon
    <3>8. layout' \in Layouts /\ mode' \in {"cache", "dump"} /\ cleanup' \in BOOLEAN
          /\ on_disconnect' \in BOOLEAN
      BY <3>5, <1>3
    <3> HIDE <3>1
    <3> QED BY <3>2, <3>3, <3>4, <3>6, <3>7, <3>8, <1>4 DEF WorkerType
  <2> QED BY <2>1, <2>2, <2>3, <2>4, WorkerEffects
<1> QED BY <1>5, <1>7 DEF TypeOK, WorkerType, ViewerType, Connected

(***************************************************************************)
(* What a step of a player, of its handler or of the user does.             *)
(***************************************************************************)

\* A request comes, is refused, is copied to, or leaves; close() is called.
PlayerEffect(v, to) ==
    /\ pc' = [pc EXCEPT ![v] = to]
    /\ layout' = layout /\ mode' = mode /\ cleanup' = cleanup /\ on_disconnect' = on_disconnect
    /\ worker' = worker /\ raw_seen' = raw_seen /\ mp4_started' = mp4_started
    /\ expected_total' = expected_total /\ misses' = misses
    /\ linked' = linked /\ ready' = ready /\ done' = done /\ error' = error /\ dumped' = dumped
    /\ cut' = cut /\ file' = file /\ user' = user /\ removed' = removed /\ expired' = expired

\* The cache is removed, if it is there and is to be.
RemoveEffect ==
    /\ layout' = layout /\ mode' = mode /\ cleanup' = cleanup /\ on_disconnect' = on_disconnect
    /\ worker' = worker /\ raw_seen' = raw_seen /\ mp4_started' = mp4_started
    /\ expected_total' = expected_total /\ misses' = misses
    /\ ready' = ready /\ done' = done /\ error' = error /\ dumped' = dumped
    /\ cut' = cut
    /\ stop' = stop
    /\ got' = got
    /\ gone' = gone
    /\ active' = active
    /\ hasty' = hasty
    /\ expired' \in {expired, expired \/ worker \in {"request", "first"}}
    /\ worker = "ended" \/ expired'
    /\ \/ cleanup /\ file.here /\ file' = NoFile /\ linked' = FALSE /\ removed' = TRUE
       \/ ~(cleanup /\ file.here) /\ file' = file /\ linked' = linked /\ removed' = removed

LEMMA RemoveHas == ASSUME JoinAndRemove PROVE RemoveEffect
<1>1. /\ expired' \in {expired, expired \/ worker \in {"request", "first"}}
      /\ worker = "ended" \/ expired'
      /\ layout' = layout /\ mode' = mode /\ cleanup' = cleanup /\ on_disconnect' = on_disconnect
      /\ worker' = worker /\ raw_seen' = raw_seen /\ mp4_started' = mp4_started
      /\ expected_total' = expected_total /\ misses' = misses
      /\ ready' = ready /\ done' = done /\ error' = error /\ dumped' = dumped
      /\ cut' = cut
      /\ stop' = stop
      /\ got' = got
      /\ gone' = gone
      /\ active' = active
      /\ hasty' = hasty
  BY DEF JoinAndRemove, Joined, fixedVars, loopVars
<1>2. \/ cleanup /\ file.here /\ file' = NoFile /\ linked' = FALSE /\ removed' = TRUE
      \/ ~(cleanup /\ file.here) /\ file' = file /\ linked' = linked /\ removed' = removed
  BY DEF JoinAndRemove
<1> QED BY <1>1, <1>2 DEF RemoveEffect

\* The actions of a player and its handler, one by one.
LEMMA ArriveHas ==
  ASSUME NEW v \in Viewer, Arrive(v)
  PROVE  /\ PlayerEffect(v, "wait") /\ pc[v] = "away" /\ user = "serving" /\ stop' = stop
         /\ got' = got /\ gone' = gone /\ active' = active /\ hasty' = hasty
BY DEF Arrive, Step, PlayerEffect, workerVars, fixedVars, loopVars, closeVars

LEMMA WaitReadyHas ==
  ASSUME NEW v \in Viewer, WaitReady(v)
  PROVE  /\ pc[v] = "wait" /\ got' = got /\ gone' = gone /\ stop' = stop
         /\ (hasty' = hasty /\ ready) \/ hasty' = hasty \cup {v}
         /\ \/ PlayerEffect(v, "left") /\ error /\ active' = active
            \/ PlayerEffect(v, "copy") /\ ~error /\ active' = active + 1
BY DEF WaitReady, Step, PlayerEffect, workerVars, fixedVars, loopVars, closeVars

LEMMA CopyHas ==
  ASSUME NEW v \in Viewer, Copy(v)
  PROVE  /\ pc[v] = "copy" /\ active' = active /\ hasty' = hasty /\ stop' = stop
         /\ \/ PlayerEffect(v, "check") /\ got' = [got EXCEPT ![v] = @ \o New(v)] /\ gone' = gone
            \/ PlayerEffect(v, "leave") /\ got' = got /\ gone' = gone \cup {v}
            \/ PlayerEffect(v, "stuck") /\ got' = got /\ gone' = gone
BY DEF Copy, Sent, Broken, Step, PlayerEffect, workerVars, fixedVars, loopVars, closeVars

LEMMA DropHas ==
  ASSUME NEW v \in Viewer, Drop(v)
  PROVE  /\ pc[v] = "stuck" /\ active' = active /\ hasty' = hasty /\ stop' = stop
         /\ PlayerEffect(v, "leave") /\ got' = got /\ gone' = gone \cup {v}
BY DEF Drop, Broken, Step, PlayerEffect, workerVars, fixedVars, loopVars, closeVars

LEMMA CheckHas ==
  ASSUME NEW v \in Viewer, Check(v)
  PROVE  /\ pc[v] = "check" /\ active' = active /\ hasty' = hasty /\ stop' = stop
         /\ got' = got /\ gone' = gone
         /\ \/ PlayerEffect(v, "leave") /\ Copied(v)
            \/ PlayerEffect(v, "copy")
BY DEF Check, Step, PlayerEffect, workerVars, fixedVars, loopVars, closeVars

LEMMA LeaveHas ==
  ASSUME NEW v \in Viewer, Leave(v)
  PROVE  /\ pc[v] = "leave" /\ active' = active - 1 /\ hasty' = hasty /\ stop' = stop
         /\ got' = got /\ gone' = gone
         /\ PlayerEffect(v, "close") \/ PlayerEffect(v, "left")
BY DEF Leave, Step, PlayerEffect, workerVars, fixedVars, loopVars, closeVars

LEMMA CloseHas ==
  ASSUME NEW v \in Viewer, Close(v)
  PROVE  /\ pc[v] = "close" /\ PlayerEffect(v, "join") /\ stop' = TRUE
         /\ got' = got /\ gone' = gone /\ active' = active /\ hasty' = hasty
BY DEF Close, Step, PlayerEffect, workerVars, fixedVars, loopVars

LEMMA HandlerEndsHas ==
  ASSUME NEW v \in Viewer, HandlerEnds(v)
  PROVE  pc[v] = "join" /\ pc' = [pc EXCEPT ![v] = "left"] /\ RemoveEffect /\ user' = user
BY RemoveHas DEF HandlerEnds, Step

LEMMA UserClosesHas ==
  ASSUME UserCloses
  PROVE  /\ user = "serving" /\ user' = "join" /\ stop' = TRUE
         /\ layout' = layout /\ mode' = mode /\ cleanup' = cleanup /\ on_disconnect' = on_disconnect
         /\ worker' = worker /\ raw_seen' = raw_seen /\ mp4_started' = mp4_started
         /\ expected_total' = expected_total /\ misses' = misses
         /\ linked' = linked /\ ready' = ready /\ done' = done /\ error' = error /\ dumped' = dumped
         /\ cut' = cut /\ file' = file /\ removed' = removed /\ expired' = expired
         /\ pc' = pc /\ got' = got /\ gone' = gone /\ active' = active /\ hasty' = hasty
BY DEF UserCloses, workerVars, fixedVars, loopVars, viewerVars

LEMMA UserEndsHas ==
  ASSUME UserEnds
  PROVE  user = "join" /\ user' = "out" /\ RemoveEffect /\ pc' = pc
BY RemoveHas DEF UserEnds

\* The part of the type invariant a step of the others changes.
LEMMA OtherType ==
  ASSUME TypeOK, layout' = layout, mode' = mode, cleanup' = cleanup, on_disconnect' = on_disconnect,
         worker' = worker, raw_seen' = raw_seen, mp4_started' = mp4_started,
         expected_total' = expected_total, misses' = misses,
         ready' = ready, done' = done, error' = error, dumped' = dumped,
         file' \in [here : BOOLEAN, cells : Seq(0 .. Size)], linked' \in BOOLEAN,
         stop' \in BOOLEAN, user' \in {"serving", "join", "out"},
         pc' \in [Viewer -> {"away", "wait", "copy", "stuck", "check", "leave", "left"} \cup Closing],
         got' \in [Viewer -> Seq(0 .. Size)], gone' \subseteq Viewer,
         active' \in 0 .. Cardinality(Viewer), active' = Cardinality(Connected(pc'))
  PROVE  TypeOK'
<1>1. Size' = Size
  BY DEF Size, Start
<1>2. WorkerType
  BY TypeParts
<1> HIDE DEF Size
<1>3. WorkerType'
  BY <1>1, <1>2 DEF WorkerType
<1>4. ViewerType'
  BY <1>1 DEF ViewerType
<1> HIDE DEF Connected
<1> QED BY <1>3, <1>4 DEF TypeOK, WorkerType, ViewerType, Connected

LEMMA PlayerType ==
  ASSUME TypeOK, cut \in BOOLEAN, NEW v \in Viewer,
         NEW to \in {"away", "wait", "copy", "stuck", "check", "leave", "left"} \cup Closing,
         PlayerEffect(v, to), stop' \in BOOLEAN, gone' \subseteq Viewer,
         got' \in [Viewer -> Seq(0 .. Size)],
         \/ active' = active /\ (pc[v] \in {"copy", "stuck", "check", "leave"}
                                   <=> to \in {"copy", "stuck", "check", "leave"})
         \/ active' = active + 1 /\ pc[v] \notin {"copy", "stuck", "check", "leave"}
                                 /\ to \in {"copy", "stuck", "check", "leave"}
         \/ active' = active - 1 /\ pc[v] \in {"copy", "stuck", "check", "leave"}
                                 /\ to \notin {"copy", "stuck", "check", "leave"}
  PROVE  TypeOK' /\ cut' \in BOOLEAN
<1>1. WorkerType /\ ViewerType
  BY TypeParts
<1>2. /\ pc \in [Viewer -> {"away", "wait", "copy", "stuck", "check", "leave", "left"} \cup Closing]
      /\ active = Cardinality(Connected(pc))
      /\ active \in Int
  <2>1. Cardinality(Viewer) \in Nat
    BY FS_Interval, FS_CardinalityType DEF Viewer
  <2> QED BY <1>1, <2>1 DEF ViewerType
<1>3. pc' = [pc EXCEPT ![v] = to]
  BY DEF PlayerEffect
<1>4. v \in Connected(pc) <=> pc[v] \in {"copy", "stuck", "check", "leave"}
  BY DEF Connected
<1>5. /\ Cardinality(Connected(pc')) = active'
      /\ Cardinality(Connected(pc')) \in 0 .. Cardinality(Viewer)
  BY <1>2, <1>3, <1>4, ConnectedNext
<1>6. pc' \in [Viewer -> {"away", "wait", "copy", "stuck", "check", "leave", "left"} \cup Closing]
  BY <1>1, <1>3 DEF ViewerType
<1>7. active' = Cardinality(Connected(pc')) /\ active' \in 0 .. Cardinality(Viewer)
  BY <1>5
<1>8. /\ file' \in [here : BOOLEAN, cells : Seq(0 .. Size)] /\ linked' \in BOOLEAN
      /\ user' \in {"serving", "join", "out"} /\ cut' \in BOOLEAN
  BY <1>1 DEF PlayerEffect, WorkerType, ViewerType
<1>9. TypeOK'
  <2> HIDE <1>4, <1>5
  <2>1. /\ layout' = layout /\ mode' = mode /\ cleanup' = cleanup /\ on_disconnect' = on_disconnect
        /\ worker' = worker /\ raw_seen' = raw_seen /\ mp4_started' = mp4_started
        /\ expected_total' = expected_total /\ misses' = misses
        /\ ready' = ready /\ done' = done /\ error' = error /\ dumped' = dumped
    BY DEF PlayerEffect
  <2> QED BY <2>1, <1>6, <1>7, <1>8, OtherType
<1> QED BY <1>8, <1>9

\* What a player is sent are cells of the file.
LEMMA SentType ==
  ASSUME TypeOK, NEW v \in Viewer
  PROVE  got[v] \o New(v) \in Seq(0 .. Size)
<1>1. file.cells \in Seq(0 .. Size) /\ got[v] \in Seq(0 .. Size)
  BY DEF TypeOK
<1>2. New(v) \in Seq(0 .. Size)
  <2> DEFINE a == Len(got[v]) + 1  b == Len(file.cells)
  <2>1. a \in Int /\ b \in Int /\ a >= 1
    BY <1>1
  <2>2. \A i \in a .. b : file.cells[i] \in 0 .. Size
    <3>1. \A i \in a .. b : i \in 1 .. Len(file.cells)
      BY <2>1, <1>1
    <3> QED BY <3>1, <1>1, ElementOfSeq
  <2> HIDE DEF a, b
  <2>3. SubSeq(file.cells, a, b) \in Seq(0 .. Size)
    BY <2>1, <2>2, SubSeqProperties
  <2>4. <<>> \in Seq(0 .. Size)
    BY EmptySeq
  <2> QED BY <2>3, <2>4 DEF New, a, b
<1> QED BY <1>1, <1>2, ConcatProperties

LEMMA RemoveType ==
  ASSUME TypeOK, cut \in BOOLEAN, RemoveEffect, user' \in {"serving", "join", "out"},
         pc' = pc \/ \E v \in Viewer : pc[v] = "join" /\ pc' = [pc EXCEPT ![v] = "left"]
  PROVE  TypeOK' /\ cut' \in BOOLEAN
<1>1. WorkerType /\ ViewerType
  BY TypeParts
<1>2. /\ pc \in [Viewer -> {"away", "wait", "copy", "stuck", "check", "leave", "left"} \cup Closing]
      /\ active = Cardinality(Connected(pc))
      /\ active \in 0 .. Cardinality(Viewer)
  BY <1>1 DEF ViewerType
<1>3. active' = Cardinality(Connected(pc')) /\ active' \in 0 .. Cardinality(Viewer)
      /\ pc' \in [Viewer -> {"away", "wait", "copy", "stuck", "check", "leave", "left"} \cup Closing]
  <2>1. active' = active
    BY DEF RemoveEffect
  <2>2. CASE pc' = pc
    BY <2>1, <2>2, <1>1, <1>2 DEF ViewerType
  <2>3. ASSUME NEW v \in Viewer, pc[v] = "join", pc' = [pc EXCEPT ![v] = "left"]
        PROVE  /\ Cardinality(Connected(pc')) = active
               /\ pc' \in [Viewer -> {"away", "wait", "copy", "stuck", "check", "leave", "left"} \cup Closing]
    <3>1. ~(v \in Connected(pc)) /\ ~("left" \in {"copy", "stuck", "check", "leave"})
      BY <2>3 DEF Connected
    <3>2. Cardinality(Connected(pc')) = active
      BY <3>1, <2>3, <1>2, ConnectedNext
    <3> QED BY <3>2, <2>3, <1>1 DEF ViewerType
  <2> QED BY <2>1, <2>2, <2>3, <1>2
<1>4. file' \in [here : BOOLEAN, cells : Seq(0 .. Size)] /\ linked' \in BOOLEAN
  <2>1. \A b \in BOOLEAN, c \in Seq(0 .. Size) : 
          [here |-> b, cells |-> c] \in [here : BOOLEAN, cells : Seq(0 .. Size)]
    OBVIOUS
  <2>2. FALSE \in BOOLEAN /\ <<>> \in Seq(0 .. Size)
    BY EmptySeq
  <2>3. NoFile \in [here : BOOLEAN, cells : Seq(0 .. Size)]
    BY <2>1, <2>2, Zenon DEF NoFile
  <2>4. linked \in BOOLEAN /\ file \in [here : BOOLEAN, cells : Seq(0 .. Size)]
    BY <1>1 DEF WorkerType
  <2>5. \/ file' = NoFile /\ linked' = FALSE
        \/ file' = file /\ linked' = linked
    BY DEF RemoveEffect
  <2> QED BY <2>2, <2>3, <2>4, <2>5, Zenon
<1>5. /\ stop' \in BOOLEAN
      /\ got' \in [Viewer -> Seq(0 .. Size)]
      /\ gone' \subseteq Viewer
      /\ cut' \in BOOLEAN
  BY <1>1 DEF RemoveEffect, ViewerType
<1>6. /\ layout' = layout /\ mode' = mode /\ cleanup' = cleanup /\ on_disconnect' = on_disconnect
      /\ worker' = worker /\ raw_seen' = raw_seen /\ mp4_started' = mp4_started
      /\ expected_total' = expected_total /\ misses' = misses
      /\ ready' = ready /\ done' = done /\ error' = error /\ dumped' = dumped
  BY DEF RemoveEffect
<1> HIDE DEF RemoveEffect
<1> QED BY <1>3, <1>4, <1>5, <1>6, OtherType

LEMMA TypeNext ==
  ASSUME TypeOK, cut \in BOOLEAN, LoopInv, [Next]_vars
  PROVE  TypeOK' /\ cut' \in BOOLEAN
<1>1. ViewerType
  BY TypeParts
<1>2. /\ stop \in BOOLEAN /\ gone \subseteq Viewer /\ got \in [Viewer -> Seq(0 .. Size)]
      /\ user \in {"serving", "join", "out"}
  BY <1>1 DEF ViewerType
<1>3. CASE Worker
  BY <1>3, WorkerTypeNext
<1>4. ASSUME NEW v \in Viewer, Arrive(v) PROVE TypeOK' /\ cut' \in BOOLEAN
  <2>1. PlayerEffect(v, "wait") /\ pc[v] = "away" /\ stop' \in BOOLEAN /\ gone' \subseteq Viewer
        /\ got' \in [Viewer -> Seq(0 .. Size)] /\ active' = active
    BY <1>2, <1>4, ArriveHas
  <2> QED BY <2>1, PlayerType
<1>5. ASSUME NEW v \in Viewer, WaitReady(v) PROVE TypeOK' /\ cut' \in BOOLEAN
  <2>1. /\ pc[v] = "wait" /\ stop' \in BOOLEAN /\ gone' \subseteq Viewer
        /\ got' \in [Viewer -> Seq(0 .. Size)]
        /\ \/ PlayerEffect(v, "left") /\ active' = active
           \/ PlayerEffect(v, "copy") /\ active' = active + 1
    BY <1>2, <1>5, WaitReadyHas
  <2> QED BY <2>1, PlayerType
<1>6. ASSUME NEW v \in Viewer, Copy(v) PROVE TypeOK' /\ cut' \in BOOLEAN
  <2>1. /\ pc[v] = "copy" /\ stop' \in BOOLEAN /\ active' = active
        /\ \/ PlayerEffect(v, "check") /\ got' = [got EXCEPT ![v] = @ \o New(v)] /\ gone' = gone
           \/ PlayerEffect(v, "leave") /\ got' = got /\ gone' = gone \cup {v}
           \/ PlayerEffect(v, "stuck") /\ got' = got /\ gone' = gone
    BY <1>2, <1>6, CopyHas
  <2>2. got[v] \o New(v) \in Seq(0 .. Size)
    BY SentType
  <2>3. got' \in [Viewer -> Seq(0 .. Size)] /\ gone' \subseteq Viewer
    BY <2>1, <2>2, <1>2
  <2> QED BY <2>1, <2>3, PlayerType
<1>14. ASSUME NEW v \in Viewer, Drop(v) PROVE TypeOK' /\ cut' \in BOOLEAN
  <2>1. /\ pc[v] = "stuck" /\ stop' \in BOOLEAN /\ active' = active
        /\ PlayerEffect(v, "leave") /\ got' = got /\ gone' = gone \cup {v}
    BY <1>2, <1>14, DropHas
  <2>2. got' \in [Viewer -> Seq(0 .. Size)] /\ gone' \subseteq Viewer
    BY <2>1, <1>2
  <2> QED BY <2>1, <2>2, PlayerType
<1>7. ASSUME NEW v \in Viewer, Check(v) PROVE TypeOK' /\ cut' \in BOOLEAN
  <2>1. /\ pc[v] = "check" /\ stop' \in BOOLEAN /\ gone' \subseteq Viewer
        /\ got' \in [Viewer -> Seq(0 .. Size)] /\ active' = active
        /\ PlayerEffect(v, "leave") \/ PlayerEffect(v, "copy")
    BY <1>2, <1>7, CheckHas
  <2> QED BY <2>1, PlayerType
<1>8. ASSUME NEW v \in Viewer, Leave(v) PROVE TypeOK' /\ cut' \in BOOLEAN
  <2>1. /\ pc[v] = "leave" /\ stop' \in BOOLEAN /\ gone' \subseteq Viewer
        /\ got' \in [Viewer -> Seq(0 .. Size)] /\ active' = active - 1
        /\ PlayerEffect(v, "close") \/ PlayerEffect(v, "left")
    BY <1>2, <1>8, LeaveHas
  <2> QED BY <2>1, PlayerType DEF Closing
<1>9. ASSUME NEW v \in Viewer, Close(v) PROVE TypeOK' /\ cut' \in BOOLEAN
  <2>1. /\ pc[v] = "close" /\ stop' = TRUE /\ gone' \subseteq Viewer
        /\ got' \in [Viewer -> Seq(0 .. Size)] /\ active' = active /\ PlayerEffect(v, "join")
    BY <1>2, <1>9, CloseHas
  <2>2. stop' \in BOOLEAN
    BY <2>1, Zenon
  <2> QED BY <2>1, <2>2, PlayerType DEF Closing
<1>10. ASSUME NEW v \in Viewer, HandlerEnds(v) PROVE TypeOK' /\ cut' \in BOOLEAN
  <2>1. pc[v] = "join" /\ pc' = [pc EXCEPT ![v] = "left"] /\ RemoveEffect /\ user' = user
    BY <1>10, HandlerEndsHas
  <2> QED BY <2>1, <1>2, RemoveType
<1>11. CASE UserCloses
  <2>1. stop' \in BOOLEAN /\ cut' \in BOOLEAN
    BY <1>11, UserClosesHas, Zenon
  <2>2. /\ user' \in {"serving", "join", "out"}
        /\ pc' = pc
        /\ got' = got
        /\ gone' = gone
        /\ active' = active
        /\ file' = file /\ linked' = linked
    BY <1>11, UserClosesHas
  <2>3. file' \in [here : BOOLEAN, cells : Seq(0 .. Size)] /\ linked' \in BOOLEAN
    BY <2>2 DEF TypeOK
  <2>4. /\ pc' \in [Viewer -> {"away", "wait", "copy", "stuck", "check", "leave", "left"} \cup Closing]
        /\ active' \in 0 .. Cardinality(Viewer) /\ active' = Cardinality(Connected(pc'))
    BY <2>2, <1>1 DEF ViewerType
  <2>5. /\ layout' = layout /\ mode' = mode /\ cleanup' = cleanup /\ on_disconnect' = on_disconnect
        /\ worker' = worker /\ raw_seen' = raw_seen /\ mp4_started' = mp4_started
        /\ expected_total' = expected_total /\ misses' = misses
        /\ ready' = ready /\ done' = done /\ error' = error /\ dumped' = dumped
    BY <1>11, UserClosesHas
  <2> QED BY <2>1, <2>2, <2>3, <2>4, <2>5, <1>2, OtherType
<1>12. CASE UserEnds
  <2>1. user' = "out" /\ RemoveEffect /\ pc' = pc
    BY <1>12, UserEndsHas
  <2> QED BY <2>1, RemoveType
<1>13. CASE UNCHANGED vars
  <2>1. /\ layout' = layout /\ mode' = mode /\ cleanup' = cleanup /\ on_disconnect' = on_disconnect
        /\ worker' = worker /\ raw_seen' = raw_seen /\ mp4_started' = mp4_started
        /\ expected_total' = expected_total /\ misses' = misses
        /\ ready' = ready /\ done' = done /\ error' = error /\ dumped' = dumped
        /\ file' = file /\ linked' = linked /\ stop' = stop /\ user' = user /\ pc' = pc
        /\ got' = got /\ gone' = gone /\ active' = active /\ cut' = cut
    BY <1>13 DEF vars, fixedVars, loopVars, closeVars, viewerVars
  <2>2. file' \in [here : BOOLEAN, cells : Seq(0 .. Size)] /\ linked' \in BOOLEAN
    BY <2>1 DEF TypeOK
  <2>3. /\ pc' \in [Viewer -> {"away", "wait", "copy", "stuck", "check", "leave", "left"} \cup Closing]
        /\ active' \in 0 .. Cardinality(Viewer) /\ active' = Cardinality(Connected(pc'))
    BY <2>1, <1>1 DEF ViewerType
  <2> QED BY <2>1, <2>2, <2>3, <1>2, OtherType
<1> QED BY <1>3, <1>4, <1>5, <1>6, <1>7, <1>8, <1>9, <1>10, <1>11, <1>12, <1>13, <1>14 DEF Next, Handler

(***************************************************************************)
(* Every step keeps the rest of the invariant.                              *)
(***************************************************************************)

\* What a step of the others leaves of the invariants about the thread.
LEMMA SizesSame ==
  ASSUME layout' = layout
  PROVE  /\ Size' = Size /\ Mp4' = Mp4 /\ (Plain' <=> Plain)
         /\ \A r : TakenIn(r)' = TakenIn(r) /\ (Found(r)' <=> Found(r))
<1>1. Size' = Size
  BY DEF Size, Start
<1>2. Mp4' = Mp4
  BY <1>1 DEF Mp4, Cells
<1>3. Plain' <=> Plain
  BY DEF Plain
<1>4. ASSUME NEW r PROVE TakenIn(r)' = TakenIn(r) /\ (Found(r)' <=> Found(r))
  BY DEF TakenIn, Found, Cells
<1> QED BY <1>1, <1>2, <1>3, <1>4

LEMMA InitRest == Init => Rest /\ cut \in BOOLEAN
<1> SUFFICES ASSUME Init
             PROVE  Rest /\ cut \in BOOLEAN
  OBVIOUS
<1>1. /\ worker = "request" /\ raw_seen = 0 /\ expected_total = 0 /\ layout \in Layouts
      /\ ~mp4_started /\ ~linked /\ ~ready /\ ~done /\ ~error /\ ~stop /\ cut = FALSE
      /\ pc = [v \in Viewer |-> "away"] /\ got = [v \in Viewer |-> <<>>]
  BY DEF Init
<1>2. ModeInv
  BY DEF Init, ModeInv
<1>3. ~Found(raw_seen)
  BY <1>1, LayoutFacts DEF Found
<1>4. LoopInv
  BY <1>1, <1>3 DEF LoopInv
<1>5. FileInv
  BY <1>1 DEF FileInv
<1>6. ReadInv
  <2> SUFFICES ASSUME NEW v \in Viewer PROVE ReaderInv(v)
    BY DEF ReadInv
  <2>1. pc[v] = "away" /\ got[v] = <<>>
    BY <1>1
  <2>2. IsPrefix(<<>>, Mp4)
    BY <1>1, Mp4Seq
  <2> QED BY <2>1, <2>2 DEF ReaderInv, Viewing, Closing
<1>7. DumpInv
  BY <1>1 DEF DumpInv
<1>8. OutInv
  BY DEF Init, OutInv
<1>9. cut \in BOOLEAN
  BY <1>1
<1> QED BY <1>2, <1>4, <1>5, <1>6, <1>7, <1>8, <1>9 DEF Rest

LEMMA WorkerRest ==
  ASSUME IInv, Worker
  PROVE  Rest'
<1> USE DEF IInv, Rest
<1>0. /\ layout' = layout /\ mode' = mode /\ cleanup' = cleanup
      /\ pc' = pc /\ got' = got /\ gone' = gone /\ hasty' = hasty
      /\ stop' = stop /\ user' = user /\ removed' = removed /\ expired' = expired
  BY WorkerFrame
<1>1. OpenEffect \/ PayloadEffect \/ MissEffect \/ EndEffect
  BY WorkerEffects
<1>2. /\ Size' = Size /\ Mp4' = Mp4 /\ (Plain' <=> Plain)
      /\ \A r : TakenIn(r)' = TakenIn(r) /\ (Found(r)' <=> Found(r))
  BY <1>0, SizesSame
<1>3. layout \in Layouts /\ mode \in {"cache", "dump"} /\ raw_seen \in 0 .. Size
      /\ file \in [here : BOOLEAN, cells : Seq(0 .. Size)]
      /\ worker \in {"request", "first", "loop", "ended"}
  BY DEF TypeOK
<1>4. Size \in Nat /\ layout.pre \in Nat /\ layout.pre + 2 <= Size
  BY <1>3, LayoutFacts
<1>5. Mp4 \in Seq(0 .. Size) /\ <<>> \in Seq(0 .. Size)
  BY <1>3, Mp4Seq, EmptySeq
<1>6. ~Found(0)
  BY <1>4 DEF Found
<1> HIDE DEF Size, Mp4, Plain, TakenIn, Found
<1>7. ModeInv'
  <2>1. mode = "dump" => file' = file /\ linked' = linked
    BY <1>1 DEF OpenEffect, PayloadEffect, MissEffect, EndEffect
  <2> QED BY <2>1, <1>0 DEF ModeInv, NoFile
<1>8. LoopInv'
  <2>1. CASE OpenEffect
    BY <2>1, <1>2 DEF OpenEffect, LoopInv
  <2>2. CASE PayloadEffect
    BY <2>2, <1>2 DEF PayloadEffect, LoopInv
  <2>3. CASE MissEffect
    BY <2>3, <1>2 DEF MissEffect, LoopInv
  <2>4. CASE EndEffect
    BY <2>4, <1>2, <1>6 DEF EndEffect, LoopInv
  <2> QED BY <1>1, <2>1, <2>2, <2>3, <2>4
<1>9. \A v \in Viewer : v \notin hasty /\ pc[v] \in Viewing => worker # "request"
  BY DEF ReadInv, ReaderInv
<1>10. FileInv'
  <2>1. CASE OpenEffect
    <3>1. raw_seen' = raw_seen /\ raw_seen = 0 /\ worker' = "first"
      BY <2>1 DEF OpenEffect, LoopInv
    <3>2. TakenIn(0) = <<>>
      BY <1>6 DEF TakenIn
    <3>3. CASE mode = "cache"
      BY <2>1, <3>1, <3>2, <3>3, <1>2, <1>0 DEF OpenEffect, FileInv, Opened
    <3>4. CASE mode # "cache"
      <4>1. ~linked /\ linked' = linked /\ mode' # "cache"
        BY <2>1, <3>4, <1>0, <1>3 DEF OpenEffect, ModeInv
      <4> QED BY <4>1, <3>1 DEF FileInv
    <3> QED BY <3>3, <3>4
  <2>2. CASE PayloadEffect
    <3>1. linked => mode = "cache"
      BY <1>3 DEF ModeInv
    <3>2. /\ worker \in {"first", "loop"} /\ worker' = "loop" /\ linked' = linked
          /\ file'.here = file.here
          /\ linked /\ mode = "cache" /\ file.cells = TakenIn(raw_seen) => file'.cells = TakenIn(raw_seen')
      BY <2>2 DEF PayloadEffect
    <3>a. TakenIn(raw_seen') = TakenIn(raw_seen)'
      BY <1>0 DEF TakenIn, Found, Cells
    <3>3. linked => file'.cells = TakenIn(raw_seen)'
      BY <3>1, <3>2, <3>a DEF FileInv
    <3>4. Opened <=> Opened'
      BY <3>2, <1>0 DEF Opened
    <3> QED BY <3>2, <3>3, <3>4, <1>0 DEF FileInv
  <2>3. CASE MissEffect
    <3>1. /\ worker' = worker /\ worker = "loop" /\ raw_seen' = raw_seen /\ file' = file
          /\ linked' = linked /\ error' = error
      BY <2>3 DEF MissEffect
    <3>2. Opened <=> Opened'
      BY <3>1, <1>0 DEF Opened
    <3>3. TakenIn(raw_seen)' = TakenIn(raw_seen)
      BY <3>1, <1>0 DEF TakenIn, Found, Cells
    <3> QED BY <3>1, <3>2, <3>3, <1>0 DEF FileInv
  <2>4. CASE EndEffect
    <3>1. /\ worker # "ended" /\ worker' = "ended" /\ file' = file /\ linked' = linked
          /\ error' \/ (worker = "loop" /\ (cut' \/ raw_seen = Size))
          /\ error' => cut'
      BY <2>4 DEF EndEffect, LoopInv
    <3>2. Opened <=> Opened'
      BY <3>1, <1>0 DEF Opened
    <3>3. linked => mode = "cache" /\ worker \in {"first", "loop"}
      BY <3>1, <1>3 DEF ModeInv, FileInv
    <3>4. IsPrefix(TakenIn(raw_seen), Mp4) /\ TakenIn(Size) = Mp4
      <4>1. Found(Size)
        BY <1>4 DEF Found
      <4>2. TakenIn(Size) = Mp4
        BY <4>1 DEF TakenIn, Mp4
      <4>3. CASE ~Found(raw_seen)
        <5>1. TakenIn(raw_seen) = <<>>
          BY <4>3 DEF TakenIn
        <5> QED BY <5>1, <4>2, <1>3, Mp4Seq
      <4>4. CASE Found(raw_seen)
        <5>1. layout.pre <= raw_seen /\ raw_seen <= Size /\ raw_seen \in Nat
          BY <4>4, <1>3, <1>4 DEF Found
        <5>2. IsPrefix(Cells(layout.pre, raw_seen), Cells(layout.pre, Size))
          BY <5>1, <1>4, CellsJoin
        <5> QED BY <5>2, <4>2, <4>4 DEF TakenIn, Mp4
      <4> QED BY <4>3, <4>4
    <3>5. linked => IsPrefix(file.cells, Mp4) /\ (cut' \/ file.cells = Mp4)
      BY <3>1, <3>3, <3>4 DEF FileInv
    <3>6. linked' => IsPrefix(file'.cells, Mp4') /\ (cut' \/ file'.cells = Mp4')
      BY <3>1, <3>5, <1>2
    <3>7. mode = "cache" /\ ~error' => Opened
      BY <3>1 DEF FileInv
    <3> QED BY <3>1, <3>2, <3>6, <3>7, <1>0 DEF FileInv
  <2> QED BY <1>1, <2>1, <2>2, <2>3, <2>4
<1>11. ReadInv'
  <2> SUFFICES ASSUME NEW v \in Viewer PROVE ReaderInv(v)'
    BY DEF ReadInv
  <2>1. ReaderInv(v)
    BY DEF ReadInv
  <2>2. cut => cut'
    BY <1>1 DEF OpenEffect, PayloadEffect, MissEffect, EndEffect
  <2>3. worker \in {"loop", "ended"} =>
           /\ worker' \in {"loop", "ended"} /\ linked' = linked /\ file'.here = file.here
    BY <1>1 DEF OpenEffect, PayloadEffect, MissEffect, EndEffect
  <2>4. worker \in {"loop", "ended"} /\ linked => file' = file \/ (IsPrefix(file.cells, file'.cells)
           /\ file'.cells \in Seq(0 .. Size))
    <3>1. linked => mode = "cache"
      BY <1>3 DEF ModeInv
    <3> QED BY <3>1, <1>1 DEF OpenEffect, PayloadEffect, MissEffect, EndEffect
  <2>5. got[v] \in Seq(0 .. Size) /\ file.cells \in Seq(0 .. Size)
    BY <1>3 DEF TypeOK
  <2>6. v \notin hasty /\ pc[v] \in Viewing => worker \in {"loop", "ended"} /\ Opened
    BY <2>1 DEF ReaderInv
  <2>7. v \notin hasty /\ pc[v] \in Viewing => Opened'
    BY <2>3, <2>6, <1>0 DEF Opened
  <2>8. v \notin hasty /\ linked' /\ pc[v] \in Viewing => IsPrefix(got[v], file'.cells)
    <3> SUFFICES ASSUME v \notin hasty, linked', pc[v] \in Viewing PROVE IsPrefix(got[v], file'.cells)
      OBVIOUS
    <3>1. worker \in {"loop", "ended"} /\ linked
      BY <2>6, <2>3
    <3>2. IsPrefix(got[v], file.cells)
      BY <3>1, <2>1 DEF ReaderInv
    <3> QED BY <3>1, <3>2, <2>4, <2>5, PrefixFacts
  <2> QED BY <2>1, <2>2, <2>3, <2>6, <2>7, <2>8, <1>0, <1>2 DEF ReaderInv, Viewing
<1>12. DumpInv'
  <2>1. CASE EndEffect
    BY <2>1, <1>0, <1>2 DEF EndEffect, DumpInv
  <2>2. CASE OpenEffect \/ PayloadEffect \/ MissEffect
    BY <2>2 DEF OpenEffect, PayloadEffect, MissEffect, DumpInv
  <2> QED BY <1>1, <2>1, <2>2
<1>13. OutInv'
  <2>1. worker # "ended"
    BY <1>1 DEF OpenEffect, PayloadEffect, MissEffect, EndEffect
  <2> QED BY <2>1, <1>0 DEF OutInv
<1> QED BY <1>7, <1>8, <1>10, <1>11, <1>12, <1>13

\* A step of player v is kept by the rest when it is by what is known of v.
LEMMA PlayerRest ==
  ASSUME IInv, NEW v \in Viewer, NEW to, PlayerEffect(v, to), mode # "dump",
         \A w \in Viewer \ {v} : got'[w] = got[w],
         gone \subseteq gone', hasty \subseteq hasty',
         ReaderInv(v)'
  PROVE  Rest'
<1> USE DEF IInv, Rest
<1>1. /\ layout' = layout /\ mode' = mode /\ cleanup' = cleanup
      /\ worker' = worker /\ raw_seen' = raw_seen /\ mp4_started' = mp4_started
      /\ expected_total' = expected_total /\ linked' = linked /\ ready' = ready /\ done' = done
      /\ error' = error /\ dumped' = dumped /\ cut' = cut /\ file' = file /\ user' = user
      /\ removed' = removed /\ expired' = expired
      /\ pc' = [pc EXCEPT ![v] = to]
  BY DEF PlayerEffect
<1>2. /\ Size' = Size /\ Mp4' = Mp4 /\ (Plain' <=> Plain) /\ (Found(raw_seen)' <=> Found(raw_seen))
  BY <1>1, SizesSame DEF Found
<1>3. TakenIn(raw_seen)' = TakenIn(raw_seen)
  BY <1>1 DEF TakenIn, Found, Cells
<1>4. Opened' <=> Opened
  BY <1>1 DEF Opened
<1>5. ModeInv'
  BY <1>1 DEF ModeInv
<1> HIDE DEF Size, Mp4, Plain, TakenIn, Found, Opened
<1>6. LoopInv'
  BY <1>1, <1>2 DEF LoopInv
<1>7. FileInv'
  BY <1>1, <1>2, <1>3, <1>4 DEF FileInv
<1>8. DumpInv' /\ OutInv'
  BY <1>1, <1>2 DEF DumpInv, OutInv
<1>9. ASSUME NEW w \in Viewer, w # v PROVE ReaderInv(w)'
  <2>1. ReaderInv(w)
    BY DEF ReadInv
  <2>2. pc'[w] = pc[w]
    BY <1>1, <1>9 DEF TypeOK
  <2>3. got'[w] = got[w] /\ (w \in gone => w \in gone') /\ (w \notin hasty' => w \notin hasty)
    BY <1>9
  <2> QED BY <2>1, <2>2, <2>3, <1>1, <1>2, <1>4 DEF ReaderInv, Viewing
<1>10. ReadInv'
  BY <1>9 DEF ReadInv
<1> QED BY <1>5, <1>6, <1>7, <1>8, <1>10

LEMMA RemoveRest ==
  ASSUME IInv, RemoveEffect, mode # "dump",
         user' = user \/ user' = "out",
         pc' = pc \/ \E v \in Viewer : pc[v] = "join" /\ pc' = [pc EXCEPT ![v] = "left"]
  PROVE  Rest'
<1> USE DEF IInv, Rest
<1>1. /\ layout' = layout /\ mode' = mode /\ cleanup' = cleanup
      /\ worker' = worker /\ raw_seen' = raw_seen /\ mp4_started' = mp4_started
      /\ expected_total' = expected_total /\ ready' = ready /\ done' = done
      /\ error' = error /\ dumped' = dumped /\ cut' = cut /\ stop' = stop
      /\ got' = got /\ gone' = gone /\ hasty' = hasty
      /\ expired' \in {expired, expired \/ worker \in {"request", "first"}}
      /\ worker = "ended" \/ expired'
  BY DEF RemoveEffect
<1>2. /\ Size' = Size /\ Mp4' = Mp4 /\ (Plain' <=> Plain) /\ (Found(raw_seen)' <=> Found(raw_seen))
  BY <1>1, SizesSame DEF Found
<1>3. TakenIn(raw_seen)' = TakenIn(raw_seen)
  BY <1>1 DEF TakenIn, Found, Cells
<1>4. \/ cleanup /\ file.here /\ file' = NoFile /\ linked' = FALSE /\ removed' = TRUE
      \/ ~(cleanup /\ file.here) /\ file' = file /\ linked' = linked /\ removed' = removed
  BY DEF RemoveEffect
<1>4a. ~NoFile.here
  BY DEF NoFile
<1>4b. \/ ~linked' /\ removed' /\ ~file'.here
       \/ file' = file /\ linked' = linked /\ removed' = removed
  BY <1>4, <1>4a
<1>5. (Opened => Opened') /\ (removed => removed')
  BY <1>4b DEF Opened
<1>6. ModeInv'
  BY <1>1 DEF ModeInv
<1> HIDE DEF Size, Mp4, Plain, TakenIn, Found, Opened
<1>7. LoopInv'
  BY <1>1, <1>2 DEF LoopInv
<1>8. FileInv'
  BY <1>1, <1>2, <1>3, <1>4b, <1>5 DEF FileInv
<1>9. DumpInv'
  BY <1>1, <1>2 DEF DumpInv
<1>10. OutInv'
  <2> SUFFICES ASSUME cleanup, user' = "out" PROVE expired' \/ (worker = "ended" /\ ~file'.here)
    BY <1>1 DEF OutInv
  <2>1. ~file'.here
    BY <1>4, <1>4a
  <2> QED BY <2>1, <1>1
<1>11. ASSUME NEW w \in Viewer PROVE ReaderInv(w)'
  <2>1. ReaderInv(w)
    BY DEF ReadInv
  <2>2. pc'[w] = pc[w] \/ (pc[w] = "join" /\ pc'[w] = "left")
    BY DEF TypeOK
  <2>3. linked' => linked /\ file' = file
    BY <1>4b
  <2> HIDE <1>4, <1>4b
  <2> QED BY <2>1, <2>2, <2>3, <1>1, <1>2, <1>5 DEF ReaderInv, Viewing, Closing
<1>12. ReadInv'
  BY <1>11 DEF ReadInv
<1> QED BY <1>6, <1>7, <1>8, <1>9, <1>10, <1>12

\* A step that leaves all but `user' and `stop' as they are.
LEMMA UserRest ==
  ASSUME IInv, layout' = layout, mode' = mode, cleanup' = cleanup,
         worker' = worker, raw_seen' = raw_seen, mp4_started' = mp4_started,
         expected_total' = expected_total, linked' = linked, ready' = ready, done' = done,
         error' = error, dumped' = dumped, cut' = cut, file' = file,
         removed' = removed, expired' = expired,
         pc' = pc, got' = got, gone' = gone, hasty' = hasty,
         \/ user' = user /\ stop' = stop
         \/ user = "serving" /\ user' = "join"
  PROVE  Rest'
<1> USE DEF IInv, Rest
<1>1. /\ Mp4' = Mp4 /\ (Opened' <=> Opened)
      /\ Size' = Size /\ (Plain' <=> Plain) /\ (Found(raw_seen)' <=> Found(raw_seen))
      /\ TakenIn(raw_seen)' = TakenIn(raw_seen)
  <2>1. Size' = Size /\ (Plain' <=> Plain) /\ Mp4' = Mp4
    BY SizesSame
  <2> QED BY <2>1 DEF Opened, Found, TakenIn, Cells
<1>2. ModeInv'
  BY DEF ModeInv
<1> HIDE DEF TakenIn, Found, Plain, Opened
<1>3. LoopInv'
  BY <1>1 DEF LoopInv
<1>4. FileInv'
  BY <1>1 DEF FileInv
<1>5. ReadInv'
  BY <1>1 DEF ReadInv, ReaderInv, Viewing
<1>6. DumpInv' /\ OutInv'
  BY <1>1 DEF DumpInv, OutInv
<1> QED BY <1>2, <1>3, <1>4, <1>5, <1>6

\* What the reader of a file that was ready knows.
LEMMA ReadyFile ==
  ASSUME IInv, mode = "cache", ready, ~error
  PROVE  worker \in {"loop", "ended"} /\ Opened
<1> USE DEF IInv, Rest
<1>1. worker \in {"request", "first", "loop", "ended"}
  BY DEF TypeOK
<1>2. worker \in {"loop", "ended"}
  BY <1>1 DEF LoopInv
<1> QED BY <1>2 DEF FileInv

LEMMA RestNext ==
  ASSUME IInv, [Next]_vars
  PROVE  Rest'
<1> USE DEF IInv, Rest
<1>1. /\ pc \in [Viewer -> {"away", "wait", "copy", "stuck", "check", "leave", "left"} \cup Closing]
      /\ got \in [Viewer -> Seq(0 .. Size)] /\ mode \in {"cache", "dump"} /\ layout \in Layouts
      /\ file \in [here : BOOLEAN, cells : Seq(0 .. Size)]
  BY DEF TypeOK
<1>2. ASSUME NEW v \in Viewer PROVE ReaderInv(v) /\ (pc[v] # "away" => mode = "cache")
  BY <1>1 DEF ReadInv, ModeInv
<1>3. Mp4 \in Seq(0 .. Size) /\ IsPrefix(<<>>, Mp4) /\ IsPrefix(<<>>, file.cells)
  BY <1>1, Mp4Seq, EmptyPrefix
<1>4. layout' = layout => Mp4' = Mp4
  BY SizesSame
<1> HIDE DEF Size, Mp4
<1>5. ASSUME NEW v \in Viewer, NEW to, PlayerEffect(v, to)
      PROVE  /\ pc'[v] = to /\ (Opened' <=> Opened) /\ Mp4' = Mp4
             /\ worker' = worker /\ file' = file /\ linked' = linked
             /\ cut' = cut /\ removed' = removed
  BY <1>1, <1>4, <1>5 DEF PlayerEffect, Opened
<1>6. CASE Worker
  BY <1>6, WorkerRest
<1>7. ASSUME NEW v \in Viewer, Arrive(v) PROVE Rest'
  <2>1. /\ PlayerEffect(v, "wait") /\ pc[v] = "away" /\ user = "serving"
        /\ got' = got /\ gone' = gone /\ hasty' = hasty
    BY <1>7, ArriveHas
  <2>2. mode # "dump"
    BY <2>1 DEF ModeInv
  <2>3. ReaderInv(v)'
    BY <2>1, <1>2, <1>3, <1>5 DEF ReaderInv, Viewing, Closing
  <2> QED BY <2>1, <2>2, <2>3, PlayerRest
<1>8. ASSUME NEW v \in Viewer, WaitReady(v) PROVE Rest'
  <2>1. /\ pc[v] = "wait" /\ got' = got /\ gone' = gone
        /\ (hasty' = hasty /\ ready) \/ hasty' = hasty \cup {v}
        /\ \/ PlayerEffect(v, "left") /\ error
           \/ PlayerEffect(v, "copy") /\ ~error
    BY <1>8, WaitReadyHas
  <2>2. mode = "cache" /\ ReaderInv(v) /\ got[v] = <<>>
    BY <2>1, <1>2 DEF ReaderInv
  <2>3. error => cut
    BY DEF LoopInv
  <2>4. ready /\ ~error => worker \in {"loop", "ended"} /\ Opened
    BY <2>2, ReadyFile
  <2>5. ReaderInv(v)'
    <3>1. CASE PlayerEffect(v, "left") /\ error
      <4>1. pc'[v] = "left" /\ Mp4' = Mp4 /\ cut' = cut
        BY <3>1, <1>5
      <4>2. got'[v] = <<>> /\ cut' /\ IsPrefix(got'[v], Mp4')
        BY <3>1, <4>1, <2>1, <2>2, <2>3, <1>3
      <4> QED BY <4>1, <4>2 DEF ReaderInv, Viewing, Closing
    <3>2. CASE PlayerEffect(v, "copy") /\ ~error
      <4>1. /\ pc'[v] = "copy" /\ (Opened' <=> Opened) /\ Mp4' = Mp4
            /\ worker' = worker /\ file' = file /\ linked' = linked
        BY <3>2, <1>5
      <4>2. v \notin hasty' => worker \in {"loop", "ended"} /\ Opened
        BY <2>1, <2>4, <3>2
      <4> QED BY <4>1, <4>2, <2>1, <2>2, <1>3 DEF ReaderInv, Viewing, Closing
    <3> QED BY <2>1, <3>1, <3>2
  <2>6. hasty \subseteq hasty' /\ gone \subseteq gone' /\ \A w \in Viewer \ {v} : got'[w] = got[w]
    BY <2>1
  <2> QED BY <2>1, <2>2, <2>5, <2>6, PlayerRest
<1>9. ASSUME NEW v \in Viewer, Copy(v) PROVE Rest'
  <2>1. /\ pc[v] = "copy" /\ hasty' = hasty
        /\ \/ PlayerEffect(v, "check") /\ got' = [got EXCEPT ![v] = @ \o New(v)] /\ gone' = gone
           \/ PlayerEffect(v, "leave") /\ got' = got /\ gone' = gone \cup {v}
           \/ PlayerEffect(v, "stuck") /\ got' = got /\ gone' = gone
    BY <1>9, CopyHas
  <2>2. mode = "cache" /\ ReaderInv(v)
    BY <2>1, <1>2
  <2>5. CASE PlayerEffect(v, "stuck") /\ got' = got /\ gone' = gone
    <3>1. ReaderInv(v)'
      BY <2>1, <2>2, <2>5, <1>5 DEF ReaderInv, Viewing, Closing
    <3> QED BY <2>1, <2>2, <2>5, <3>1, PlayerRest
  <2>3. CASE PlayerEffect(v, "leave") /\ got' = got /\ gone' = gone \cup {v}
    <3>1. v \in gone' /\ gone \subseteq gone'
      BY <2>3
    <3>2. ReaderInv(v)'
      BY <2>1, <2>2, <2>3, <3>1, <1>5 DEF ReaderInv, Viewing, Closing
    <3> QED BY <2>1, <2>2, <2>3, <3>1, <3>2, PlayerRest
  <2>4. CASE PlayerEffect(v, "check") /\ got' = [got EXCEPT ![v] = @ \o New(v)] /\ gone' = gone
    <3>1. got'[v] = got[v] \o New(v) /\ \A w \in Viewer \ {v} : got'[w] = got[w]
      BY <2>4, <1>1
    <3>2. /\ pc'[v] = "check" /\ (Opened' <=> Opened) /\ Mp4' = Mp4
          /\ worker' = worker /\ file' = file /\ linked' = linked
          /\ cut' = cut /\ removed' = removed
      BY <2>4, <1>5
    <3>3. got[v] \in Seq(0 .. Size) /\ file.cells \in Seq(0 .. Size)
      BY <1>1
    <3>4. ASSUME v \notin hasty
          PROVE  /\ worker \in {"loop", "ended"} /\ Opened
                 /\ linked => IsPrefix(got'[v], file.cells)
                 /\ IsPrefix(got'[v], Mp4)
      <4>1. /\ worker \in {"loop", "ended"} /\ Opened /\ IsPrefix(got[v], Mp4)
            /\ linked => IsPrefix(got[v], file.cells)
        BY <3>4, <2>1, <2>2 DEF ReaderInv, Viewing
      <4>2. CASE linked
        <5>1. file.here
          BY <4>2 DEF FileInv
        <5>2. got[v] \o New(v) = file.cells
          <6>1. New(v) = SubSeq(file.cells, Len(got[v]) + 1, Len(file.cells))
            BY <5>1 DEF New
          <6>2. IsPrefix(got[v], file.cells)
            BY <4>1, <4>2
          <6> DEFINE s == got[v]  t == file.cells
          <6>3. s \in Seq(0 .. Size) /\ t \in Seq(0 .. Size) /\ IsPrefix(s, t)
            BY <3>3, <6>2
          <6> HIDE DEF s, t
          <6>4. s \o SubSeq(t, Len(s) + 1, Len(t)) = t
            BY <6>3, PrefixFacts
          <6> QED BY <6>1, <6>4 DEF s, t
        <5>3. IsPrefix(file.cells, file.cells)
          BY <3>3, PrefixAt
        <5>4. IsPrefix(file.cells, Mp4)
          <6>1. CASE worker = "ended"
            BY <6>1, <4>2 DEF FileInv
          <6>2. CASE worker = "loop"
            <7>1. file.cells = TakenIn(raw_seen)
              BY <6>2, <4>2 DEF FileInv
            <7>2. CASE ~Found(raw_seen)
              BY <7>1, <7>2, <1>3 DEF TakenIn
            <7>3. CASE Found(raw_seen)
              <8>1. Size \in Nat /\ raw_seen \in 0 .. Size /\ layout.pre \in Nat
                BY <1>1, LayoutFacts DEF TypeOK
              <8>2. raw_seen \in Nat /\ layout.pre <= raw_seen /\ raw_seen <= Size
                BY <8>1, <7>3 DEF Found
              <8>3. IsPrefix(Cells(layout.pre, raw_seen), Cells(layout.pre, Size))
                BY <8>1, <8>2, CellsJoin
              <8> QED BY <8>3, <7>1, <7>3 DEF TakenIn, Mp4
            <7> QED BY <7>2, <7>3
          <6> QED BY <6>1, <6>2, <4>1
        <5> QED BY <5>2, <5>3, <5>4, <4>1, <3>1
      <4>3. CASE ~linked
        <5>1. ~file.here
          BY <4>1, <4>3 DEF Opened
        <5>2. New(v) = <<>>
          BY <5>1 DEF New
        <5>3. got[v] \o New(v) = got[v]
          BY <5>2, <3>3, ConcatEmptySeq
        <5> QED BY <5>3, <4>1, <4>3, <3>1
      <4> QED BY <4>2, <4>3
    <3>5. ReaderInv(v)'
      BY <3>2, <3>4, <2>1 DEF ReaderInv, Viewing, Closing
    <3> QED BY <2>1, <2>2, <2>4, <3>1, <3>5, PlayerRest
  <2> QED BY <2>1, <2>3, <2>4, <2>5
<1>16. ASSUME NEW v \in Viewer, Drop(v) PROVE Rest'
  <2>1. /\ pc[v] = "stuck" /\ hasty' = hasty
        /\ PlayerEffect(v, "leave") /\ got' = got /\ gone' = gone \cup {v}
    BY <1>16, DropHas
  <2>2. mode = "cache" /\ ReaderInv(v)
    BY <2>1, <1>2
  <2>3. v \in gone' /\ gone \subseteq gone'
    BY <2>1
  <2>4. ReaderInv(v)'
    BY <2>1, <2>2, <2>3, <1>5 DEF ReaderInv, Viewing, Closing
  <2> QED BY <2>1, <2>2, <2>3, <2>4, PlayerRest
<1>10. ASSUME NEW v \in Viewer, Check(v) PROVE Rest'
  <2>1. /\ pc[v] = "check" /\ hasty' = hasty /\ got' = got /\ gone' = gone
        /\ \/ PlayerEffect(v, "leave") /\ Copied(v)
           \/ PlayerEffect(v, "copy")
    BY <1>10, CheckHas
  <2>2. mode = "cache" /\ ReaderInv(v)
    BY <2>1, <1>2
  <2>3. CASE PlayerEffect(v, "copy")
    <3>1. ReaderInv(v)'
      BY <2>1, <2>2, <2>3, <1>5 DEF ReaderInv, Viewing, Closing
    <3> QED BY <2>1, <2>2, <2>3, <3>1, PlayerRest
  <2>4. CASE PlayerEffect(v, "leave") /\ Copied(v)
    <3>1. v \notin hasty => got[v] = Mp4 \/ cut \/ removed
      <4> SUFFICES ASSUME v \notin hasty PROVE got[v] = Mp4 \/ cut \/ removed
        OBVIOUS
      <4>1. Opened /\ (linked => IsPrefix(got[v], file.cells))
        BY <2>1, <2>2 DEF ReaderInv, Viewing
      <4>2. done /\ (~file.here \/ Len(got[v]) >= Len(file.cells))
        BY <2>4 DEF Copied
      <4>3. CASE ~linked
        BY <4>1, <4>3 DEF Opened
      <4>4. CASE linked
        <5>1. file.here /\ worker = "ended"
          BY <4>2, <4>4 DEF FileInv, LoopInv
        <5>2. got[v] = file.cells
          <6>1. got[v] \in Seq(0 .. Size) /\ file.cells \in Seq(0 .. Size)
            BY <1>1
          <6> QED BY <6>1, <4>1, <4>2, <4>4, <5>1, PrefixFacts
        <5> QED BY <5>1, <5>2, <4>4 DEF FileInv
      <4> QED BY <4>3, <4>4
    <3>2. ReaderInv(v)'
      BY <2>1, <2>2, <2>4, <3>1, <1>5 DEF ReaderInv, Viewing, Closing
    <3> QED BY <2>1, <2>2, <2>4, <3>2, PlayerRest
  <2> QED BY <2>1, <2>3, <2>4
<1>11. ASSUME NEW v \in Viewer, NEW to \in {"close", "left", "join"},
              pc[v] \in {"leave", "close"}, PlayerEffect(v, to),
              hasty' = hasty, got' = got, gone' = gone
       PROVE  Rest'
  <2>1. mode = "cache" /\ ReaderInv(v)
    BY <1>2, <1>11
  <2>2. /\ pc'[v] = to /\ (Opened' <=> Opened) /\ Mp4' = Mp4
        /\ worker' = worker /\ file' = file /\ linked' = linked
        /\ cut' = cut /\ removed' = removed
    BY <1>11, <1>5
  <2>3. ReaderInv(v)'
    BY <2>1, <2>2, <1>11 DEF ReaderInv, Viewing, Closing
  <2> QED BY <2>1, <2>3, <1>11, PlayerRest
<1>12. ASSUME NEW v \in Viewer, Leave(v) PROVE Rest'
  <2>1. /\ pc[v] = "leave" /\ hasty' = hasty /\ got' = got /\ gone' = gone
        /\ PlayerEffect(v, "close") \/ PlayerEffect(v, "left")
    BY <1>12, LeaveHas
  <2> QED BY <2>1, <1>11
<1>13. ASSUME NEW v \in Viewer, Close(v) PROVE Rest'
  <2>1. /\ pc[v] = "close"
        /\ hasty' = hasty
        /\ got' = got
        /\ gone' = gone
        /\ PlayerEffect(v, "join")
    BY <1>13, CloseHas
  <2> QED BY <2>1, <1>11
<1>14. ASSUME NEW v \in Viewer, HandlerEnds(v) PROVE Rest'
  <2>1. pc[v] = "join" /\ pc' = [pc EXCEPT ![v] = "left"] /\ RemoveEffect /\ user' = user
    BY <1>14, HandlerEndsHas
  <2>2. mode # "dump"
    BY <2>1, <1>2
  <2> QED BY <2>1, <2>2, RemoveRest
<1>15. CASE UserEnds
  <2>1. user = "join" /\ user' = "out" /\ RemoveEffect /\ pc' = pc
    BY <1>15, UserEndsHas
  <2>2. mode # "dump"
    BY <2>1 DEF ModeInv
  <2> QED BY <2>1, <2>2, RemoveRest
<1>17. CASE UserCloses
  <2> QED BY <1>17, UserRest, UserClosesHas
<1>18. CASE UNCHANGED vars
  <2>1. /\ layout' = layout /\ mode' = mode /\ cleanup' = cleanup
        /\ worker' = worker /\ raw_seen' = raw_seen /\ mp4_started' = mp4_started
        /\ expected_total' = expected_total /\ linked' = linked /\ ready' = ready /\ done' = done
        /\ error' = error /\ dumped' = dumped /\ cut' = cut /\ file' = file
        /\ removed' = removed /\ expired' = expired
        /\ pc' = pc /\ got' = got /\ gone' = gone /\ hasty' = hasty /\ user' = user /\ stop' = stop
    BY <1>18 DEF vars, fixedVars, loopVars, closeVars, viewerVars
  <2> QED BY <2>1, UserRest
<1> HIDE DEF Rest, IInv
<1>19. Rest'
  BY <1>6, <1>7, <1>8, <1>9, <1>10, <1>12, <1>13, <1>14, <1>15, <1>16, <1>17, <1>18 DEF Next, Handler
<1> QED BY <1>19

(***************************************************************************)
(* The theorems.                                                            *)
(***************************************************************************)

\* IInv holds in every reachable state.
THEOREM Invariant == Spec => []IInv
<1>1. Init => IInv
  BY InitType, InitRest DEF IInv
<1>2. IInv /\ [Next]_vars => IInv'
  <2> SUFFICES ASSUME IInv, [Next]_vars PROVE IInv'
    OBVIOUS
  <2>1. TypeOK' /\ cut' \in BOOLEAN
    BY TypeNext DEF IInv, Rest
  <2>2. Rest'
    BY RestNext DEF IInv
  <2> QED BY <2>1, <2>2 DEF IInv
<1> QED BY <1>1, <1>2, PTL DEF Spec

\* The values stay what they are meant to be, active_clients counts the handlers that copy,
\* and when the context has been left and the thread has ended nothing remains of the cache,
\* unless close() gave up waiting for a thread that was still to open it.
THEOREM PreviewTidy == Spec => []PreviewInv
<1>1. IInv => PreviewInv
  BY DEF IInv, Rest, OutInv, PreviewInv, CleanedUp
<1> QED BY <1>1, Invariant, PTL

\* A player that was ready in time gets nothing but the MP4 from its start, for every row of
\* boxes, every limit and every alternation of the thread with any number of handlers;
\* the whole of it, unless the answer was cut or the file removed; and so does a dump.
THEOREM PreviewServes == Spec => []Served
<1>1. IInv => Served
  BY DEF IInv, Rest, ReadInv, ReaderInv, DumpInv, Served
<1> QED BY <1>1, Invariant, PTL

=============================================================================
