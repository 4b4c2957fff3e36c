------------------------ MODULE CameraSession_proofs ------------------------
(***************************************************************************)
(* Machine-checked proofs about CameraSession, for any number of callers,    *)
(* attempts, dispatcher threads and connections.                            *)
(*                                                                         *)
(* The invariant is built in layers: who holds the lock and which numbers    *)
(* are taken (ControlInv), what the messages in transit are (RoutesInv),     *)
(* which threads read the connection (ThreadsInv), and the readiness event   *)
(* of the session (EventInv).  A dispatcher that a join gave up is bound by  *)
(* none of what ThreadsInv says of the others.                              *)
(***************************************************************************)
EXTENDS CameraSession, SequenceTheorems, FiniteSetTheorems, TLAPS

USE SessionAssumption

(***************************************************************************)
(* The lock, the callers and the message numbers.                           *)
(***************************************************************************)

\* Where a caller is inside _reconnect_lock.
LockedAt == {"stop", "join", "closing", "connect", "login", "login_recv", "direct", "poll",
             "dispatch", "ready"}

\* Where it is outside, in the exchange of its attempt or past it.
ExchangeAt == {"check", "send", "wait", "done", "failed"}

OutsideAt == {"start", "reconnect", "subscribe"} \cup ExchangeAt

ControlType ==
    /\ lock \in Caller \cup {None}
    /\ section \in {"none", "ensure", "reconnect", "close"}
    /\ restart \in BOOLEAN
    /\ pc \in [Caller -> LockedAt \cup OutsideAt]
    /\ attempt \in [Caller -> Nat] /\ \A c \in Caller : attempt[c] \in 1 .. Attempts[c]
    /\ num \in [Caller -> Num \cup {0}]
    /\ msg_num \in Num \cup {0}

LockInv ==
    /\ \A c \in Caller : pc[c] \in LockedAt <=> lock = c
    /\ section = "none" <=> lock = None
    /\ lock # None => (section = "close" <=> lock \in Closer)

\* close() neither connects nor sends anything.
CloserInv == \A c \in Closer : pc[c] \in {"start", "stop", "join", "closing", "done", "failed"}

NumInv ==
    \A c \in Caller \ Closer :
        /\ num[c] <= msg_num
        /\ pc[c] \in {"check", "send", "wait", "done"} => num[c] \in Num

\* The attempts that may have taken a message number.
Tried ==
    {x \in Exchange : \/ x[2] < attempt[x[1]]
                      \/ x[2] = attempt[x[1]] /\ pc[x[1]] \in ExchangeAt}

CountInv == msg_num <= Cardinality(Tried)

ControlInv == ControlType /\ LockInv /\ CloserInv /\ NumInv /\ CountInv

controlVars == <<lock, section, restart, pc, attempt, num, msg_num>>

\* The attempts of all commands are finitely many.
LEMMA ExchangeFinite ==
  /\ IsFiniteSet(Exchange) /\ Cardinality(Exchange) \in Nat
  /\ \A x : x \in Exchange <=>
        \E c \in Caller \ Closer : \E i \in 1 .. Attempts[c] : x = <<c, i>>
<1> DEFINE Command == Caller \ Closer
           Of == [c \in Command |-> {c} \X (1 .. Attempts[c])]
           Each == {{c} \X (1 .. Attempts[c]) : c \in Command}
<1>1. IsFiniteSet(Command)
  BY FS_Subset
<1>2. IsFiniteSet(Each)
  <2>1. Of \in Surjection(Command, Each)
    BY DEF Surjection
  <2> QED BY <1>1, <2>1, FS_Surjection
<1>3. ASSUME NEW c \in Command PROVE IsFiniteSet({c} \X (1 .. Attempts[c]))
  <2>1. IsFiniteSet({c})
    BY FS_Singleton
  <2>2. IsFiniteSet(1 .. Attempts[c])
    BY FS_Interval
  <2> QED BY <2>1, <2>2, FS_Product
<1>4. IsFiniteSet(UNION Each)
  BY <1>2, <1>3, FS_UNION
<1>5. IsFiniteSet(Exchange)
  BY <1>4 DEF Exchange
<1>6. ASSUME NEW x
      PROVE  x \in Exchange <=>
                \E c \in Caller \ Closer : \E i \in 1 .. Attempts[c] : x = <<c, i>>
  BY DEF Exchange
<1> QED BY <1>5, <1>6, FS_CardinalityType

LEMMA TriedFinite ==
  /\ IsFiniteSet(Tried) /\ Cardinality(Tried) \in Nat
  /\ Cardinality(Tried) <= Cardinality(Exchange)
<1>1. Tried \in SUBSET Exchange
  BY DEF Tried
<1> QED BY <1>1, ExchangeFinite, FS_Subset, FS_CardinalityType

LEMMA InitControl == Init => ControlInv
<1> SUFFICES ASSUME Init PROVE ControlInv
  OBVIOUS
<1>1. /\ lock = None /\ section = "none" /\ restart = FALSE /\ msg_num = 0
      /\ pc \in [Caller -> {"start", "failed"}] /\ attempt = [c \in Caller |-> 1]
      /\ num = [c \in Caller |-> 0]
  BY DEF Init
<1>2. ControlType
  <2>1. \A c \in Caller : attempt[c] \in 1 .. Attempts[c]
    BY <1>1
  <2>2. pc \in [Caller -> LockedAt \cup OutsideAt]
    BY <1>1 DEF OutsideAt, ExchangeAt
  <2>3. attempt \in [Caller -> Nat] /\ num \in [Caller -> Num \cup {0}] /\ msg_num \in Num \cup {0}
    BY <1>1
  <2> QED BY <1>1, <2>1, <2>2, <2>3 DEF ControlType
<1>3. LockInv /\ CloserInv
  BY <1>1 DEF LockInv, CloserInv, LockedAt
<1>4. NumInv
  BY <1>1 DEF NumInv
<1>5. CountInv
  BY <1>1, TriedFinite DEF CountInv
<1> QED BY <1>2, <1>3, <1>4, <1>5 DEF ControlInv

\* An attempt that may have taken a number stays so.
LEMMA TriedStays ==
  ASSUME ControlInv, NEW c \in Caller, NEW l, Goto(c, l),
         \/ attempt' = attempt /\ (pc[c] \in ExchangeAt => l \in ExchangeAt)
         \/ attempt' = [attempt EXCEPT ![c] = @ + 1]
  PROVE  /\ Tried \subseteq Tried' /\ Cardinality(Tried) <= Cardinality(Tried')
         /\ Cardinality(Tried') \in Nat /\ IsFiniteSet(Tried') /\ Tried' \subseteq Exchange
<1>1. ASSUME NEW x \in Tried PROVE x \in Tried'
  <2>0. PICK d \in Caller \ Closer : \E i \in 1 .. Attempts[d] : x = <<d, i>>
    BY ExchangeFinite DEF Tried
  <2>1. PICK i \in 1 .. Attempts[d] : x = <<d, i>>
    BY <2>0
  <2>2. x \in Exchange /\ x[1] = d /\ x[2] = i
        /\ (i < attempt[d] \/ (i = attempt[d] /\ pc[d] \in ExchangeAt))
    BY <2>1 DEF Tried
  <2>3. /\ attempt \in [Caller -> Nat] /\ i \in Int
        /\ pc' = [pc EXCEPT ![c] = l] /\ pc \in [Caller -> LockedAt \cup OutsideAt]
    BY <2>1 DEF ControlInv, ControlType, Goto
  <2>4. i < attempt'[d] \/ (i = attempt'[d] /\ pc'[d] \in ExchangeAt)
    <3>1. CASE d = c
      BY <2>2, <2>3, <3>1
    <3>2. CASE d # c
      BY <2>2, <2>3, <3>2
    <3> QED BY <3>1, <3>2
  <2> QED BY <2>2, <2>4 DEF Tried
<1>2. Tried' \in SUBSET Exchange
  BY DEF Tried
<1>3. IsFiniteSet(Tried') /\ Cardinality(Tried') \in Nat
  BY <1>2, ExchangeFinite, FS_Subset, FS_CardinalityType
<1>4. Cardinality(Tried) <= Cardinality(Tried')
  BY <1>1, <1>3, FS_Subset
<1> QED BY <1>1, <1>2, <1>3, <1>4

(* The four ways a caller moves: into the lock, inside it, out of it, and outside. *)

LEMMA Enters ==
  ASSUME ControlInv, NEW c \in Caller, NEW what, Acquire(c, what), NEW l \in LockedAt, Goto(c, l),
         what \in {"ensure", "reconnect", "close"}, what = "close" <=> c \in Closer,
         c \in Closer => l \in {"stop", "join", "closing"},
         pc[c] \in {"start", "reconnect"}, restart' \in BOOLEAN, UNCHANGED <<attempt, num, msg_num>>
  PROVE  ControlInv'
<1>1. /\ lock = None /\ lock' = c /\ section' = what /\ pc' = [pc EXCEPT ![c] = l]
      /\ pc \in [Caller -> LockedAt \cup OutsideAt] /\ \A d \in Caller : pc[d] \notin LockedAt
  BY DEF Acquire, Goto, ControlInv, ControlType, LockInv
<1>2. \A d \in Caller : pc'[d] = IF d = c THEN l ELSE pc[d]
  BY <1>1
<1>3. ControlType'
  BY <1>1 DEF ControlInv, ControlType
<1>4. LockInv'
  BY <1>1, <1>2 DEF LockInv
<1>5. CloserInv'
  BY <1>2 DEF ControlInv, CloserInv
<1>6. NumInv'
  BY <1>2 DEF ControlInv, NumInv, LockedAt
<1>7. CountInv'
  <2>1. pc[c] \notin ExchangeAt
    BY DEF ExchangeAt
  <2>2. Cardinality(Tried) <= Cardinality(Tried') /\ Cardinality(Tried') \in Nat
    BY <2>1, TriedStays
  <2>3. msg_num \in Int /\ msg_num <= Cardinality(Tried)
    BY DEF ControlInv, ControlType, CountInv, Num
  <2> QED BY <2>2, <2>3, TriedFinite DEF CountInv
<1> QED BY <1>3, <1>4, <1>5, <1>6, <1>7 DEF ControlInv

LEMMA StaysInside ==
  ASSUME ControlInv, NEW c \in Caller, pc[c] \in LockedAt, NEW l \in LockedAt, Goto(c, l),
         c \in Closer => l \in {"stop", "join", "closing"},
         UNCHANGED <<lock, section, restart, attempt, num, msg_num>>
  PROVE  ControlInv'
<1>1. /\ pc' = [pc EXCEPT ![c] = l] /\ pc \in [Caller -> LockedAt \cup OutsideAt] /\ lock = c
  BY DEF Goto, ControlInv, ControlType, LockInv
<1>2. \A d \in Caller : pc'[d] = IF d = c THEN l ELSE pc[d]
  BY <1>1
<1>3. ControlType'
  BY <1>1 DEF ControlInv, ControlType
<1>4. LockInv'
  BY <1>1, <1>2 DEF ControlInv, LockInv
<1>5. CloserInv'
  BY <1>2 DEF ControlInv, CloserInv
<1>6. NumInv'
  BY <1>2 DEF ControlInv, NumInv, LockedAt
<1>7. CountInv'
  <2>1. pc[c] \notin ExchangeAt
    BY DEF ExchangeAt, LockedAt
  <2>2. Cardinality(Tried) <= Cardinality(Tried') /\ Cardinality(Tried') \in Nat
    BY <2>1, TriedStays
  <2>3. msg_num \in Int /\ msg_num <= Cardinality(Tried)
    BY DEF ControlInv, ControlType, CountInv, Num
  <2> QED BY <2>2, <2>3, TriedFinite DEF CountInv
<1> QED BY <1>3, <1>4, <1>5, <1>6, <1>7 DEF ControlInv

\* An attempt ends, or goes to the next one.
NextAttempt(c, l) ==
    \/ attempt' = attempt
    \/ attempt[c] < Attempts[c] /\ l = "reconnect" /\ attempt' = [attempt EXCEPT ![c] = @ + 1]

LEMMA NextAttemptType ==
  ASSUME ControlInv, NEW c \in Caller, NEW l, NextAttempt(c, l)
  PROVE  attempt' \in [Caller -> Nat] /\ \A d \in Caller : attempt'[d] \in 1 .. Attempts[d]
<1>1. attempt \in [Caller -> Nat] /\ \A d \in Caller : attempt[d] \in 1 .. Attempts[d]
  BY DEF ControlInv, ControlType
<1>2. CASE attempt' = attempt
  BY <1>1, <1>2
<1>3. CASE attempt[c] < Attempts[c] /\ attempt' = [attempt EXCEPT ![c] = @ + 1]
  <2>1. attempt' \in [Caller -> Nat]
    BY <1>1, <1>3
  <2>2. ASSUME NEW d \in Caller PROVE attempt'[d] \in 1 .. Attempts[d]
    <3>1. CASE d = c
      <4>1. attempt[c] + 1 \in 1 .. Attempts[c]
        BY <1>1, <1>3
      <4> QED BY <1>1, <1>3, <3>1, <4>1
    <3>2. CASE d # c
      BY <1>1, <1>3, <3>2
    <3> QED BY <3>1, <3>2
  <2> QED BY <2>1, <2>2
<1> QED BY <1>2, <1>3 DEF NextAttempt

LEMMA Leaves ==
  ASSUME ControlInv, NEW c \in Caller, pc[c] \in LockedAt, Unlock,
         NEW l \in {"start", "reconnect", "subscribe", "failed", "done"}, Goto(c, l),
         IF c \in Closer THEN l = "done" ELSE l # "done",
         NextAttempt(c, l), UNCHANGED <<num, msg_num>>
  PROVE  ControlInv'
<1>1. /\ pc' = [pc EXCEPT ![c] = l] /\ pc \in [Caller -> LockedAt \cup OutsideAt] /\ lock = c
      /\ lock' = None /\ section' = "none" /\ restart' = FALSE
      /\ \A d \in Caller : d # c => pc[d] \notin LockedAt
  BY DEF Goto, Unlock, ControlInv, ControlType, LockInv
<1>2. /\ \A d \in Caller : pc'[d] = IF d = c THEN l ELSE pc[d]
      /\ l \in OutsideAt /\ l \notin LockedAt
  BY <1>1 DEF OutsideAt, ExchangeAt, LockedAt
<1>3. ControlType'
  <2>1. attempt' \in [Caller -> Nat] /\ \A d \in Caller : attempt'[d] \in 1 .. Attempts[d]
    BY NextAttemptType
  <2>2. pc' \in [Caller -> LockedAt \cup OutsideAt]
    BY <1>1, <1>2
  <2>3. num' \in [Caller -> Num \cup {0}] /\ msg_num' \in Num \cup {0}
    BY DEF ControlInv, ControlType
  <2> QED BY <1>1, <2>1, <2>2, <2>3 DEF ControlType
<1>4. LockInv'
  BY <1>1, <1>2 DEF LockInv
<1>5. CloserInv'
  BY <1>2 DEF ControlInv, CloserInv
<1>6. NumInv'
  BY <1>2 DEF ControlInv, NumInv
<1>7. CountInv'
  <2>1. pc[c] \notin ExchangeAt
    BY DEF ExchangeAt, LockedAt
  <2>2. Cardinality(Tried) <= Cardinality(Tried') /\ Cardinality(Tried') \in Nat
    BY <2>1, TriedStays DEF NextAttempt
  <2>3. msg_num \in Int /\ msg_num <= Cardinality(Tried)
    BY DEF ControlInv, ControlType, CountInv, Num
  <2> QED BY <2>2, <2>3, TriedFinite DEF CountInv
<1> QED BY <1>3, <1>4, <1>5, <1>6, <1>7 DEF ControlInv

LEMMA StaysOutside ==
  ASSUME ControlInv, NEW c \in Caller \ Closer, pc[c] \in {"check", "send", "wait"},
         NEW l \in {"send", "wait", "reconnect", "done", "failed"}, Goto(c, l),
         NextAttempt(c, l), l = "reconnect" => attempt' # attempt,
         UNCHANGED <<lock, section, restart, num, msg_num>>
  PROVE  ControlInv'
<1>1. /\ pc' = [pc EXCEPT ![c] = l] /\ pc \in [Caller -> LockedAt \cup OutsideAt]
  BY DEF Goto, ControlInv, ControlType
<1>2. /\ \A d \in Caller : pc'[d] = IF d = c THEN l ELSE pc[d]
      /\ l \in OutsideAt /\ l \notin LockedAt /\ pc[c] \notin LockedAt
  BY <1>1 DEF OutsideAt, ExchangeAt, LockedAt
<1>3. ControlType'
  <2>1. attempt' \in [Caller -> Nat] /\ \A d \in Caller : attempt'[d] \in 1 .. Attempts[d]
    BY NextAttemptType
  <2>2. pc' \in [Caller -> LockedAt \cup OutsideAt]
    BY <1>1, <1>2
  <2>3. /\ num' \in [Caller -> Num \cup {0}] /\ msg_num' \in Num \cup {0}
        /\ lock' \in Caller \cup {None} /\ section' \in {"none", "ensure", "reconnect", "close"}
        /\ restart' \in BOOLEAN
    BY DEF ControlInv, ControlType
  <2> QED BY <2>1, <2>2, <2>3 DEF ControlType
<1>4. LockInv'
  BY <1>2 DEF ControlInv, LockInv
<1>5. CloserInv'
  BY <1>2 DEF ControlInv, CloserInv
<1>6. NumInv'
  BY <1>2 DEF ControlInv, NumInv
<1>7. CountInv'
  <2>1. \/ attempt' = attempt /\ (pc[c] \in ExchangeAt => l \in ExchangeAt)
        \/ attempt' = [attempt EXCEPT ![c] = @ + 1]
    BY DEF ExchangeAt, NextAttempt
  <2>2. Cardinality(Tried) <= Cardinality(Tried') /\ Cardinality(Tried') \in Nat
    BY <2>1, TriedStays
  <2>3. msg_num \in Int /\ msg_num <= Cardinality(Tried)
    BY DEF ControlInv, ControlType, CountInv, Num
  <2> QED BY <2>2, <2>3, TriedFinite DEF CountInv
<1> QED BY <1>3, <1>4, <1>5, <1>6, <1>7 DEF ControlInv

\* A number is left for every attempt that has not taken one.
LEMMA Subscribes ==
  ASSUME ControlInv, NEW c \in Caller, Subscribe(c)
  PROVE  ControlInv' /\ msg_num' = msg_num + 1 /\ msg_num' \in Num /\ c \notin Closer
<1>1. /\ pc' = [pc EXCEPT ![c] = "check"] /\ pc \in [Caller -> LockedAt \cup OutsideAt]
      /\ num' = [num EXCEPT ![c] = msg_num'] /\ num \in [Caller -> Num \cup {0}]
      /\ msg_num' = msg_num + 1 /\ pc[c] = "subscribe"
      /\ attempt \in [Caller -> Nat] /\ \A d \in Caller : attempt[d] \in 1 .. Attempts[d]
      /\ UNCHANGED <<lock, section, restart, attempt>>
  BY DEF Subscribe, Goto, ControlInv, ControlType, lockVars
<1>2. \A d \in Caller : /\ pc'[d] = IF d = c THEN "check" ELSE pc[d]
                        /\ num'[d] = IF d = c THEN msg_num' ELSE num[d]
  BY <1>1
<1>3. c \in Caller \ Closer
  BY <1>1 DEF ControlInv, CloserInv
<1>4. msg_num \in Nat /\ msg_num <= Cardinality(Tried)
  BY ExchangeFinite DEF ControlInv, ControlType, CountInv, Num
<1> DEFINE x == <<c, attempt[c]>>
<1>5. x \in Exchange /\ x \notin Tried /\ x \in Tried'
  <2>1. x \in Exchange
    BY <1>1, <1>3, ExchangeFinite
  <2>2. x[1] = c /\ x[2] = attempt[c] /\ pc[c] \notin ExchangeAt /\ pc'[c] \in ExchangeAt
    BY <1>1, <1>2 DEF ExchangeAt
  <2>3. ~ (attempt[c] < attempt[c])
    BY <1>1
  <2> QED BY <1>1, <2>1, <2>2, <2>3 DEF Tried
<1>6. /\ Tried \cup {x} \subseteq Tried' /\ IsFiniteSet(Tried') /\ Tried' \subseteq Exchange
      /\ Cardinality(Tried') \in Nat
  <2>1. pc[c] \notin ExchangeAt /\ Goto(c, "check")
    BY <1>1 DEF ExchangeAt, Goto
  <2> QED BY <1>1, <1>5, <2>1, TriedStays
<1>7. Cardinality(Tried \cup {x}) = Cardinality(Tried) + 1
  BY <1>5, TriedFinite, FS_AddElement
<1>8. Cardinality(Tried \cup {x}) <= Cardinality(Tried') /\ Cardinality(Tried') <= Cardinality(Exchange)
  BY <1>6, ExchangeFinite, FS_Subset
<1>9. msg_num' <= Cardinality(Tried') /\ msg_num' \in Num
  <2> DEFINE tried == Cardinality(Tried')
             next == msg_num'
  <2>1. /\ next = msg_num + 1 /\ Cardinality(Tried) + 1 <= tried /\ tried <= Cardinality(Exchange)
        /\ tried \in Nat
    BY <1>1, <1>6, <1>7, <1>8
  <2> HIDE DEF tried, next
  <2>2. next <= tried /\ next \in 1 .. Cardinality(Exchange)
    BY <1>4, <2>1, ExchangeFinite, TriedFinite
  <2> QED BY <2>2 DEF tried, next, Num
<1>10. ControlType'
  <2>1. pc' \in [Caller -> LockedAt \cup OutsideAt]
    BY <1>1 DEF OutsideAt, ExchangeAt
  <2>2. num' \in [Caller -> Num \cup {0}]
    BY <1>1, <1>9
  <2> QED BY <1>1, <1>9, <2>1, <2>2 DEF ControlInv, ControlType
<1>11. LockInv'
  BY <1>1, <1>2 DEF ControlInv, LockInv, LockedAt
<1>12. CloserInv'
  BY <1>2, <1>3 DEF ControlInv, CloserInv
<1>13. NumInv'
  <2> SUFFICES ASSUME NEW d \in Caller \ Closer
               PROVE  /\ num'[d] <= msg_num'
                      /\ pc'[d] \in {"check", "send", "wait", "done"} => num'[d] \in Num
    BY DEF NumInv
  <2>1. CASE d = c
    <3>1. msg_num' <= msg_num'
      BY <1>1, <1>4
    <3> QED BY <1>2, <1>9, <2>1, <3>1
  <2>2. CASE d # c
    <3>1. /\ num[d] <= msg_num /\ num[d] \in Int
          /\ pc[d] \in {"check", "send", "wait", "done"} => num[d] \in Num
      BY <1>1 DEF ControlInv, NumInv, Num
    <3>2. num[d] <= msg_num'
      BY <1>1, <1>4, <3>1
    <3> QED BY <1>2, <2>2, <3>1, <3>2
  <2> QED BY <2>1, <2>2
<1> QED BY <1>1, <1>3, <1>9, <1>10, <1>11, <1>12, <1>13 DEF ControlInv, CountInv

LEMMA Releases ==
  ASSUME ControlInv, NEW c \in Caller, pc[c] \in LockedAt, Release(c), UNCHANGED <<attempt, num, msg_num>>
  PROVE  ControlInv'
<1>1. /\ lock = c /\ section \in {"ensure", "reconnect", "close"} /\ lock # None
      /\ section = "close" <=> c \in Closer
  BY DEF ControlInv, ControlType, LockInv
<1>2. Unlock /\ NextAttempt(c, "start") /\ NextAttempt(c, "subscribe") /\ NextAttempt(c, "done")
  BY DEF Release, NextAttempt
<1>3. CASE section = "ensure"
  <2>1. Goto(c, "subscribe")
    BY <1>3 DEF Release
  <2> QED BY <1>1, <1>2, <1>3, <2>1, Leaves
<1>4. CASE section = "reconnect"
  <2>1. Goto(c, "start")
    BY <1>4 DEF Release
  <2> QED BY <1>1, <1>2, <1>4, <2>1, Leaves
<1>5. CASE section = "close"
  <2>1. Goto(c, "done")
    BY <1>5 DEF Release
  <2> QED BY <1>1, <1>2, <1>5, <2>1, Leaves
<1> QED BY <1>1, <1>3, <1>4, <1>5

\* What raising does to the control of a caller.
LEMMA RaiseGoes ==
  ASSUME NEW c \in Caller, NEW error, Raise(c, error)
  PROVE  \/ Goto(c, "failed") /\ NextAttempt(c, "failed")
         \/ Goto(c, "reconnect") /\ NextAttempt(c, "reconnect")
            /\ attempt[c] < Attempts[c] /\ attempt' = [attempt EXCEPT ![c] = @ + 1]
  BY DEF Raise, Catch, NextAttempt

LEMMA RaisesLocked ==
  ASSUME ControlInv, NEW c \in Caller \ Closer, pc[c] \in LockedAt, NEW error, RaiseLocked(c, error),
         UNCHANGED <<num, msg_num>>
  PROVE  ControlInv'
<1>1. Unlock
  BY DEF RaiseLocked
<1>2. \/ Goto(c, "failed") /\ NextAttempt(c, "failed")
      \/ Goto(c, "reconnect") /\ NextAttempt(c, "reconnect")
  <2>1. CASE section = "ensure"
    BY <2>1, RaiseGoes DEF RaiseLocked
  <2>2. CASE section # "ensure"
    BY <2>2 DEF RaiseLocked, NextAttempt
  <2> QED BY <2>1, <2>2
<1> QED BY <1>1, <1>2, Leaves

LEMMA RaisesOutside ==
  ASSUME ControlInv, NEW c \in Caller \ Closer, pc[c] \in {"check", "send", "wait"}, NEW error,
         Raise(c, error), UNCHANGED <<lock, section, restart, num, msg_num>>
  PROVE  ControlInv'
<1>1. CASE Goto(c, "failed") /\ NextAttempt(c, "failed")
  BY <1>1, StaysOutside
<1>2. CASE Goto(c, "reconnect") /\ NextAttempt(c, "reconnect")
           /\ attempt[c] < Attempts[c] /\ attempt' = [attempt EXCEPT ![c] = @ + 1]
  <2>1. attempt' # attempt
    <3>1. attempt[c] \in Nat /\ attempt'[c] = attempt[c] + 1
      BY <1>2 DEF ControlInv, ControlType
    <3> QED BY <3>1
  <2> QED BY <1>2, <2>1, StaysOutside
<1> QED BY <1>1, <1>2, RaiseGoes

\* The rest of login() leaves the lock or goes on to the dispatcher.
LEMMA LoginReplies ==
  ASSUME ControlInv, NEW c \in Caller, pc[c] \in {"direct", "poll"}, NEW m, LoginReplied(c, m),
         UNCHANGED <<num, msg_num>>
  PROVE  ControlInv'
<1>1. c \notin Closer /\ pc[c] \in LockedAt
  BY DEF ControlInv, CloserInv, LockedAt
<1>2. CASE m # LoginReply(sock)
  BY <1>1, <1>2, RaisesLocked DEF LoginReplied
<1>3. CASE m = LoginReply(sock) /\ (section = "ensure" \/ restart)
  <2>1. Goto(c, "dispatch") /\ UNCHANGED <<lock, section, restart, attempt>>
    BY <1>3 DEF LoginReplied, lockVars
  <2> QED BY <1>1, <2>1, StaysInside DEF LockedAt
<1>4. CASE m = LoginReply(sock) /\ ~ (section = "ensure" \/ restart)
  BY <1>1, <1>4, Releases DEF LoginReplied
<1> QED BY <1>2, <1>3, <1>4

LEMMA ControlCaller ==
  ASSUME ControlInv, NEW c \in Caller, CallerStep(c)
  PROVE  ControlInv'
<1> USE DEF LockedAt, callVars, lockVars
<1>1. CASE EnsureConnected(c)
  <2>1. PICK l \in {"connect", "login", "dispatch"} : Goto(c, l)
    BY <1>1 DEF EnsureConnected
  <2>2. restart' \in BOOLEAN
    BY <1>1 DEF EnsureConnected, ControlInv, ControlType
  <2> QED BY <1>1, <2>1, <2>2, Enters DEF EnsureConnected
<1>2. CASE Reconnect(c)
  <2>1. c \notin Closer
    BY <1>2 DEF Reconnect, ControlInv, CloserInv
  <2>2. restart' \in BOOLEAN
    BY <1>2 DEF Reconnect
  <2> QED BY <1>2, <2>1, <2>2, Enters DEF Reconnect
<1>3. CASE Close(c)
  <2>1. restart' \in BOOLEAN
    BY <1>3 DEF Close, ControlInv, ControlType
  <2> QED BY <1>3, <2>1, Enters DEF Close
<1>4. CASE StopDispatcher(c)
  <2>1. PICK l \in {"closing", "join"} : Goto(c, l)
    BY <1>4 DEF StopDispatcher
  <2> QED BY <1>4, <2>1, StaysInside DEF StopDispatcher
<1>5. CASE JoinDispatcher(c)
  BY <1>5, StaysInside DEF JoinDispatcher
<1>6. CASE CloseSession(c)
  <2>1. CASE section = "close"
    <3>1. Release(c) /\ UNCHANGED <<attempt, num, msg_num>> /\ pc[c] \in LockedAt
      BY <1>6, <2>1 DEF CloseSession
    <3> QED BY <3>1, Releases
  <2>2. CASE section # "close"
    <3>1. c \notin Closer
      BY <1>6, <2>2 DEF CloseSession, ControlInv, LockInv
    <3>2. /\ Goto(c, "connect") /\ UNCHANGED <<lock, section, restart, attempt, num, msg_num>>
          /\ pc[c] \in LockedAt
      BY <1>6, <2>2 DEF CloseSession
    <3> QED BY <3>1, <3>2, StaysInside
  <2> QED BY <2>1, <2>2
<1>7. ASSUME pc[c] \in {"connect", "login", "login_recv", "direct", "poll", "dispatch", "ready",
                        "check", "send", "wait"}
      PROVE  c \in Caller \ Closer
  BY <1>7 DEF ControlInv, CloserInv
<1>8. CASE Connect(c)
  BY <1>7, <1>8, StaysInside DEF Connect
<1>9. CASE ConnectFails(c)
  BY <1>7, <1>9, RaisesLocked DEF ConnectFails
<1>10. CASE Login(c)
  BY <1>7, <1>10, StaysInside DEF Login
<1>11. CASE LoginRecv(c)
  <2>1. PICK l \in {"poll", "direct"} : Goto(c, l)
    BY <1>11 DEF LoginRecv
  <2> QED BY <1>7, <1>11, <2>1, StaysInside DEF LoginRecv
<1>12. CASE LoginReadsSocket(c)
  BY <1>12, LoginReplies DEF LoginReadsSocket
<1>13. CASE LoginReadsUnmatched(c)
  BY <1>13, LoginReplies DEF LoginReadsUnmatched
<1>14. CASE LoginRaises(c)
  <2>1. PICK error : RaiseLocked(c, error)
    BY <1>14 DEF LoginRaises
  <2> QED BY <1>7, <1>14, <2>1, RaisesLocked DEF LoginRaises
<1>15. CASE StartDispatching(c)
  BY <1>7, <1>15, StaysInside DEF StartDispatching
<1>16. CASE SessionReady(c)
  BY <1>16, Releases DEF SessionReady
<1>17. CASE SessionReadyTimeout(c)
  BY <1>7, <1>17, RaisesLocked DEF SessionReadyTimeout
<1>18. CASE Subscribe(c)
  BY <1>18, Subscribes
<1>19. CASE EnsureDispatcherActive(c)
  <2>1. NextAttempt(c, "send")
    BY <1>19 DEF EnsureDispatcherActive, NextAttempt
  <2> QED BY <1>7, <1>19, <2>1, StaysOutside DEF EnsureDispatcherActive
<1>20. CASE Send(c)
  <2>1. NextAttempt(c, "wait")
    BY <1>20 DEF Send, NextAttempt
  <2> QED BY <1>7, <1>20, <2>1, StaysOutside DEF Send
<1>21. CASE SendRaises(c)
  <2>1. PICK error : Raise(c, error)
    BY <1>21 DEF SendRaises
  <2> QED BY <1>7, <1>21, <2>1, RaisesOutside DEF SendRaises
<1>22. CASE RecvReply(c)
  <2>1. NextAttempt(c, "done")
    BY <1>22 DEF RecvReply, NextAttempt
  <2> QED BY <1>7, <1>22, <2>1, StaysOutside DEF RecvReply
<1>23. CASE RecvRaises(c)
  BY <1>7, <1>23, RaisesOutside DEF RecvRaises
<1> QED
  BY <1>1, <1>2, <1>3, <1>4, <1>5, <1>6, <1>8, <1>9, <1>10, <1>11, <1>12, <1>13, <1>14, <1>15,
     <1>16, <1>17, <1>18, <1>19, <1>20, <1>21, <1>22, <1>23
  DEF CallerStep, LockedStep

LEMMA ControlUnchanged == ControlInv /\ UNCHANGED controlVars => ControlInv'
  BY DEF controlVars, ControlInv, ControlType, LockInv, CloserInv, NumInv, CountInv, Tried

LEMMA ControlNext == ControlInv /\ [Next]_vars => ControlInv'
<1> SUFFICES ASSUME ControlInv, [Next]_vars PROVE ControlInv'
  OBVIOUS
<1>1. ASSUME NEW c \in Caller, CallerStep(c) PROVE ControlInv'
  BY <1>1, ControlCaller
<1>2. ASSUME NEW t \in Thread, DispatcherStep(t) PROVE UNCHANGED controlVars
  BY <1>2
  DEF DispatcherStep, DispatchLoop, DispatchRecv, DispatchTimeout, DispatchEof, DispatchMessage,
      DispatchFails, DispatcherUnchanged, controlVars, lockVars, callVars
<1>3. CASE Environment
  <2>1. UNCHANGED Outside
    BY <1>3 DEF Environment, CameraAnswersLogin, CameraReportsBattery, CameraAnswers, ConnectionBreaks
  <2> QED BY <2>1, ControlUnchanged DEF Outside, controlVars, lockVars, callVars
<1>4. CASE UNCHANGED vars
  BY <1>4, ControlUnchanged DEF vars, controlVars, lockVars, callVars
<1> QED BY <1>1, <1>2, <1>3, <1>4, ControlUnchanged DEF Next

(***************************************************************************)
(* The messages in transit, and the rest of the types.                      *)
(***************************************************************************)

SessionType ==
    /\ sock \in Session /\ opened \in Session
    /\ login_xml \in BOOLEAN /\ readiness_required \in BOOLEAN /\ session_ready \in BOOLEAN
    /\ dispatcher_requested \in BOOLEAN /\ dispatch_stop \in BOOLEAN
    /\ dispatch_error \in Error \cup {"none"}
    /\ dispatch_thread \in Thread \cup {0}
    /\ broken \in BOOLEAN /\ cam_login \in {"none", "asked", "ok"} /\ cam_reported \in BOOLEAN
    /\ mixed \in BOOLEAN /\ expired \in BOOLEAN /\ late_report \in BOOLEAN
    /\ survivors \subseteq Thread \cup {0}

DispatcherType ==
    dispatcher \in [Thread -> [at : {"loop", "read", "have", "lost", "fatal", "dead"},
                               session : Session, message : Message \cup {NoMessage}]]

RouteType ==
    /\ waiters \subseteq Num
    /\ sub \in [Num -> {"none", "active", "closed"} \cup Error]
    /\ taken \subseteq Num
    /\ result \in [Caller -> Message \cup {NoMessage}]
    /\ cam_requests \subseteq Num

Numbered == {"reply", "torn"}

\* No reply carries a number that was not taken yet, and none is torn before a join gave up,
Known ==
    {m \in Message : /\ m.kind \in Numbered => m.num <= msg_num
                     /\ m.kind = "torn" => expired}

Answer(n) == {m \in [kind : Numbered, num : {n}] : m.kind = "torn" => expired}

\* and a subscription's queue holds answers to its own request.
RoutesInv ==
    /\ unmatched \in Seq(Known) /\ wire \in Seq(Known)
    /\ \A t \in Thread : dispatcher[t].at = "have" => dispatcher[t].message \in Known
    /\ \A n \in cam_requests : n <= msg_num
    /\ queue \in [Num -> Seq(Message)]
    /\ \A n \in Num : queue[n] \in Seq(Answer(n))

TransitInv == SessionType /\ DispatcherType /\ RouteType /\ RoutesInv

LEMMA MessageCases ==
  /\ \A k \in Session : LoginReply(k) \in Message /\ LoginReply(k).kind = "login"
  /\ BatteryList \in Message /\ BatteryList.kind = "battery_list"
  /\ \A n \in Num : [kind |-> "reply", num |-> n] \in Message
  /\ \A m \in Message : m.kind \in Numbered => m.num \in Num \cup {0}
  /\ \A m \in Message : \A n \in Num : Matches(m, n) => m \in [kind : Numbered, num : {n}]
<1>1. /\ \A k \in Session : LoginReply(k) \in Message /\ LoginReply(k).kind = "login"
      /\ BatteryList \in Message /\ BatteryList.kind = "battery_list"
  BY DEF LoginReply, BatteryList, Message
<1>2. \A n \in Num : [kind |-> "reply", num |-> n] \in Message
  BY DEF Message
<1>3. ASSUME NEW m \in Message
      PROVE  \/ m.kind \in {"login", "battery_list"}
             \/ m \in [kind : Numbered, num : Num \cup {0}]
  BY DEF Message, Numbered
<1>4. ASSUME NEW m \in Message, NEW n \in Num, Matches(m, n)
      PROVE  m \in [kind : Numbered, num : {n}]
  BY <1>3, <1>4 DEF Matches, Numbered
<1>5. \A m \in Message : m.kind \in Numbered => m.num \in Num \cup {0}
  BY <1>3 DEF Numbered
<1> QED BY <1>1, <1>2, <1>4, <1>5

\* A torn message is of those in transit once a join gave up.
LEMMA TornKnown ==
  ASSUME NEW m \in Known, ControlInv, expired
  PROVE  Torn(m) \in Known /\ (Torn(m) = BatteryList <=> m = BatteryList)
<1>1. msg_num \in Nat
  BY ExchangeFinite DEF ControlInv, ControlType, Num
<1>2. /\ m \in Message /\ (m.kind \in Numbered => m.num <= msg_num)
      /\ \/ m.kind = "login" \/ m = BatteryList
         \/ m.kind \in Numbered /\ m.num \in Num \cup {0}
  BY DEF Known, Message, Numbered, BatteryList
<1>3. CASE m = BatteryList
  BY <1>3 DEF Torn
<1>4. CASE m # BatteryList
  <2> DEFINE k == IF m.kind = "login" THEN 0 ELSE m.num
  <2>1. Torn(m) = [kind |-> "torn", num |-> k]
    BY <1>4 DEF Torn
  <2>2. k \in Num \cup {0} /\ k <= msg_num
    BY <1>1, <1>2, <1>4 DEF Numbered
  <2> HIDE DEF k
  <2>3. Torn(m) \in Message /\ Torn(m).kind = "torn" /\ Torn(m).num = k
    BY <2>1, <2>2 DEF Message
  <2>4. Torn(m) # BatteryList
    BY <2>3 DEF BatteryList
  <2> QED BY <1>4, <2>2, <2>3, <2>4 DEF Known
<1> QED BY <1>3, <1>4

\* Nothing is kept of a sequence without an element of the set,
LEMMA KeptNone ==
  ASSUME NEW s, NEW S, \A i \in 1 .. Len(s) : s[i] \notin S
  PROVE  Kept(s, S) = <<>>
<1> DEFINE kept == {i \in 1 .. Len(s) : s[i] \in S}
           place(k) == CHOOSE i \in kept : Cardinality({j \in kept : j <= i}) = k
           places == 1 .. Cardinality(kept)
<1>1. kept = {}
  OBVIOUS
<1>2. Cardinality(kept) = 0
  BY <1>1, FS_EmptySet
<1>3. Kept(s, S) = [k \in places |-> s[place(k)]]
  BY DEF Kept
<1> HIDE DEF place, kept
<1>4. places = {}
  BY <1>2
<1> HIDE DEF places
<1>5. [k \in places |-> s[place(k)]] = <<>>
  BY <1>4
<1> QED BY <1>3, <1>5

LEMMA UpTo ==
  ASSUME NEW n \in Nat
  PROVE  Cardinality(1 .. n) = n
<1>1. Cardinality(1 .. n) = IF 1 > n THEN 0 ELSE n - 1 + 1
  BY FS_Interval
<1> QED BY <1>1

\* and all of a sequence of such elements, in its order.
LEMMA KeptAll ==
  ASSUME NEW T, NEW s \in Seq(T), NEW S, \A i \in 1 .. Len(s) : s[i] \in S
  PROVE  Kept(s, S) = s
<1> DEFINE kept == {i \in 1 .. Len(s) : s[i] \in S}
           place(k) == CHOOSE i \in kept : Cardinality({j \in kept : j <= i}) = k
<1>1. Len(s) \in Nat
  OBVIOUS
<1>2. kept = 1 .. Len(s)
  OBVIOUS
<1>3. Cardinality(kept) = Len(s)
  <2>1. Cardinality(1 .. Len(s)) = Len(s)
    BY <1>1, UpTo
  <2> QED BY <1>2, <2>1
<1>4. ASSUME NEW i \in kept PROVE Cardinality({j \in kept : j <= i}) = i
  <2>1. i \in Nat /\ {j \in 1 .. Len(s) : j <= i} = 1 .. i
    BY <1>1
  <2>2. Cardinality(1 .. i) = i
    BY <2>1, UpTo
  <2> HIDE DEF kept
  <2>3. {j \in kept : j <= i} = 1 .. i
    BY <1>2, <2>1
  <2> QED BY <2>2, <2>3
<1>5. ASSUME NEW k \in 1 .. Len(s) PROVE place(k) = k
  <2>1. \E i \in kept : Cardinality({j \in kept : j <= i}) = k
    BY <1>2, <1>4
  <2>2. place(k) \in kept /\ Cardinality({j \in kept : j <= place(k)}) = k
    BY <2>1
  <2> QED BY <1>4, <2>2
<1>6. Kept(s, S) = [k \in 1 .. Cardinality(kept) |-> s[place(k)]]
  BY DEF Kept
<1> HIDE DEF place, kept
<1>7. Kept(s, S) = [k \in 1 .. Len(s) |-> s[k]]
  BY <1>3, <1>5, <1>6
<1>8. s = [k \in 1 .. Len(s) |-> s[k]]
  OBVIOUS
<1> QED BY <1>7, <1>8

sessionVars == <<sockVars, flagVars, opened, broken, cam_login, cam_reported, mixed>>

LEMMA SessionUnchanged == SessionType /\ UNCHANGED sessionVars => SessionType'
  BY DEF SessionType, sessionVars, sockVars, flagVars

\* Starting a dispatcher gives the number of a thread, and changes where that thread is.
LEMMA Starts ==
  ASSUME SessionType, StartThread
  PROVE  /\ dispatch_thread' \in Thread /\ dispatch_stop' = FALSE /\ dispatch_error' = "none"
         /\ dispatcher[dispatch_thread'].at = "dead"
         /\ dispatcher' = [dispatcher EXCEPT ![dispatch_thread'].at = "loop"]
         /\ survivors' = survivors \ {dispatch_thread'} /\ expired' = expired
  BY DEF StartThread

LEMMA SessionStarts ==
  ASSUME SessionType, StartThread \/ UNCHANGED threadVars,
         dispatcher_requested' \in BOOLEAN, UNCHANGED <<sockVars, opened, broken, cam_login, cam_reported, mixed>>
  PROVE  SessionType'
<1>1. /\ dispatch_thread' \in Thread \cup {0} /\ dispatch_stop' \in BOOLEAN
      /\ dispatch_error' \in Error \cup {"none"}
      /\ expired' \in BOOLEAN /\ survivors' \subseteq Thread \cup {0}
  BY Starts DEF SessionType, threadVars
<1> QED BY <1>1 DEF SessionType, sockVars

LEMMA SessionCaller ==
  ASSUME ControlInv, SessionType, NEW c \in Caller, CallerStep(c)
  PROVE  SessionType'
<1> USE DEF envVars
<1>1. CASE \/ EnsureConnected(c) \/ Reconnect(c) \/ Close(c)
           \/ ConnectFails(c) \/ LoginRaises(c) \/ SessionReady(c) \/ SessionReadyTimeout(c)
           \/ Send(c) \/ SendRaises(c) \/ RecvReply(c) \/ RecvRaises(c)
  <2>1. UNCHANGED sessionVars
    BY <1>1
    DEF EnsureConnected, Reconnect, Close, ConnectFails, LoginRaises, SessionReady,
        SessionReadyTimeout, Send, SendRaises, RecvReply, RecvRaises, sessionVars
  <2> QED BY <2>1, SessionUnchanged
<1>2. CASE StopDispatcher(c)
  <2>1. dispatcher_requested' \in BOOLEAN /\ dispatch_stop' \in BOOLEAN
    <3>1. dispatcher_requested' = (dispatcher_requested /\ restart)
      BY <1>2 DEF StopDispatcher
    <3>2. dispatch_stop' = dispatch_stop \/ dispatch_stop' = TRUE
      BY <1>2 DEF StopDispatcher
    <3> QED BY <3>1, <3>2 DEF SessionType
  <2>2. dispatch_error' \in Error \cup {"none"}
    BY <1>2 DEF StopDispatcher, SessionType
  <2>3. /\ UNCHANGED <<sockVars, dispatch_thread, expired, survivors, opened, broken, cam_login>>
        /\ UNCHANGED <<cam_reported, mixed>>
    BY <1>2 DEF StopDispatcher
  <2> QED BY <2>1, <2>2, <2>3 DEF SessionType, sockVars
<1>3. CASE JoinDispatcher(c)
  <2>1. /\ expired' = expired \/ expired' = TRUE
        /\ survivors' = survivors \/ survivors' = survivors \cup {dispatch_thread}
    BY <1>3 DEF JoinDispatcher
  <2>2. expired' \in BOOLEAN /\ survivors' \subseteq Thread \cup {0}
    BY <2>1 DEF SessionType
  <2>3. /\ dispatch_thread' = 0 /\ dispatch_error' = "none"
        /\ UNCHANGED <<sockVars, dispatcher_requested, dispatch_stop, opened, broken, cam_login,
                       cam_reported, mixed>>
    BY <1>3 DEF JoinDispatcher
  <2> QED BY <2>2, <2>3 DEF SessionType, sockVars
<1>4. CASE CloseSession(c)
  <2>1. dispatcher_requested' \in BOOLEAN
    <3>1. CASE section = "close"
      BY <1>4, <3>1 DEF CloseSession, SessionType
    <3>2. CASE section # "close"
      BY <1>4, <3>2 DEF CloseSession, ControlInv, ControlType
    <3> QED BY <3>1, <3>2
  <2>2. 0 \in Session
    BY DEF Session
  <2> QED BY <1>4, <2>1, <2>2 DEF CloseSession, SessionType
<1>5. CASE Connect(c)
  <2>1. opened + 1 \in Session
    BY <1>5 DEF Connect, SessionType, Session
  <2> QED BY <1>5, <2>1 DEF Connect, SessionType, flagVars
<1>6. CASE Login(c)
  BY <1>6 DEF Login, SessionType, sockVars, flagVars
<1>7. CASE LoginRecv(c)
  <2>1. StartThread \/ UNCHANGED threadVars
    BY <1>7 DEF LoginRecv, StartDispatcher
  <2> QED BY <1>7, <2>1, SessionStarts DEF LoginRecv, SessionType
<1>8. ASSUME NEW m, LoginReplied(c, m), UNCHANGED <<sock, flagVars, opened, broken, cam_login, cam_reported, mixed>>
      PROVE  SessionType'
  <2>1. /\ login_xml' \in BOOLEAN /\ readiness_required' \in BOOLEAN
        /\ session_ready' \in BOOLEAN /\ late_report' \in BOOLEAN
    <3>1. CASE m = LoginReply(sock)
      <4>1. /\ login_xml' = TRUE /\ readiness_required' = BatteryCamera
            /\ session_ready' = ~ BatteryCamera /\ late_report' = FALSE
        BY <1>8, <3>1 DEF LoginReplied, LoggedIn
      <4> QED BY <4>1
    <3>2. CASE m # LoginReply(sock)
      BY <1>8, <3>2 DEF LoginReplied, SessionType
    <3> QED BY <3>1, <3>2
  <2> QED BY <1>8, <2>1 DEF SessionType, flagVars
<1>9. CASE LoginReadsSocket(c)
  BY <1>8, <1>9 DEF LoginReadsSocket
<1>10. CASE LoginReadsUnmatched(c)
  BY <1>8, <1>10 DEF LoginReadsUnmatched
<1>11. CASE StartDispatching(c)
  <2>1. StartThread \/ UNCHANGED threadVars
    BY <1>11 DEF StartDispatching, StartDispatcher
  <2> QED BY <1>11, <2>1, SessionStarts DEF StartDispatching
<1>12. CASE Subscribe(c)
  BY <1>12 DEF Subscribe, SessionType, sockVars
<1>13. CASE EnsureDispatcherActive(c)
  <2>1. StartThread \/ UNCHANGED threadVars
    BY <1>13 DEF EnsureDispatcherActive
  <2> QED BY <1>13, <2>1, SessionStarts DEF EnsureDispatcherActive, SessionType
<1> QED
  BY <1>1, <1>2, <1>3, <1>4, <1>5, <1>6, <1>7, <1>9, <1>10, <1>11, <1>12, <1>13
  DEF CallerStep, LockedStep

LEMMA SessionNext == ControlInv /\ SessionType /\ [Next]_vars => SessionType'
<1> SUFFICES ASSUME ControlInv, SessionType, [Next]_vars PROVE SessionType'
  OBVIOUS
<1>1. ASSUME NEW c \in Caller, CallerStep(c) PROVE SessionType'
  BY <1>1, SessionCaller
<1>2. ASSUME NEW t \in Thread, DispatcherStep(t) PROVE SessionType'
  <2> USE DEF envVars, flagVars, sockVars, DispatcherUnchanged
  <2>1. CASE DispatchRecv(t) \/ DispatchTimeout(t) \/ DispatchEof(t)
    <3>1. UNCHANGED sessionVars
      BY <2>1 DEF DispatchRecv, DispatchTimeout, DispatchEof, sessionVars
    <3> QED BY <3>1, SessionUnchanged
  <2>4. CASE DispatchLoop(t)
    <3>1. mixed' \in BOOLEAN
      BY <2>4, Zenon DEF DispatchLoop
    <3> QED BY <2>4, <3>1 DEF DispatchLoop, SessionType
  <2>2. CASE DispatchMessage(t)
    <3>1. session_ready' \in BOOLEAN /\ late_report' \in BOOLEAN
      BY <2>2, Zenon DEF DispatchMessage
    <3> QED BY <2>2, <3>1 DEF DispatchMessage, SessionType
  <2>3. CASE DispatchFails(t)
    BY <2>3 DEF DispatchFails, SessionType
  <2> QED BY <1>2, <2>1, <2>2, <2>3, <2>4 DEF DispatcherStep
<1>3. CASE Environment
  <2>1. UNCHANGED <<sockVars, flagVars, opened, mixed>>
    BY <1>3
    DEF Environment, CameraAnswersLogin, CameraReportsBattery, CameraAnswers, ConnectionBreaks,
        Outside
  <2>2. /\ broken' = broken \/ broken' = TRUE
        /\ cam_login' = cam_login \/ cam_login' = "ok"
        /\ cam_reported' = cam_reported \/ cam_reported' = TRUE
    BY <1>3
    DEF Environment, CameraAnswersLogin, CameraReportsBattery, CameraAnswers, ConnectionBreaks
  <2>3. broken' \in BOOLEAN /\ cam_login' \in {"none", "asked", "ok"} /\ cam_reported' \in BOOLEAN
    BY <2>2 DEF SessionType
  <2> QED BY <2>1, <2>3 DEF SessionType, sockVars, flagVars
<1>4. CASE UNCHANGED vars
  BY <1>4, SessionUnchanged DEF vars, sessionVars, envVars
<1> QED BY <1>1, <1>2, <1>3, <1>4 DEF Next

LEMMA SeqMono ==
  ASSUME NEW S, NEW T, S \subseteq T, NEW s \in Seq(S)
  PROVE  s \in Seq(T)
  OBVIOUS

\* What a step may do to the messages in transit: take the first, drop all, or add one.
Passes(s, t) ==
    \/ t = s \/ t = <<>>
    \/ s # <<>> /\ t = Tail(s)
    \/ \E m \in Known : t = Append(s, m)

LEMMA PassesKnown ==
  ASSUME NEW s \in Seq(Known), NEW t, Passes(s, t)
  PROVE  t \in Seq(Known)
<1>1. CASE t = <<>>
  BY <1>1, EmptySeq
<1>2. CASE s # <<>> /\ t = Tail(s)
  BY <1>2, HeadTailProperties
<1>3. CASE \E m \in Known : t = Append(s, m)
  BY <1>3, AppendProperties
<1> QED BY <1>1, <1>2, <1>3 DEF Passes

\* A step that takes no message number.
LEMMA RoutesStep ==
  ASSUME TransitInv, UNCHANGED msg_num, expired => expired',
         Passes(unmatched, unmatched'), Passes(wire, wire'),
         \A t \in Thread : dispatcher'[t].at = "have" =>
             dispatcher'[t].message \in Known \/ dispatcher'[t] = dispatcher[t],
         cam_requests' \subseteq cam_requests \cup {n \in Num : n <= msg_num},
         queue' \in [Num -> Seq(Message)], \A n \in Num : queue'[n] \in Seq(Answer(n))
  PROVE  RoutesInv' /\ cam_requests' \subseteq Num
<1>1. unmatched \in Seq(Known) /\ wire \in Seq(Known) /\ Known \subseteq Known'
  BY DEF TransitInv, RoutesInv, Known
<1>2. unmatched' \in Seq(Known') /\ wire' \in Seq(Known')
  BY <1>1, PassesKnown, SeqMono
<1>3. \A t \in Thread : dispatcher'[t].at = "have" => dispatcher'[t].message \in Known'
  BY <1>1 DEF TransitInv, RoutesInv
<1>4. \A n \in cam_requests' : n <= msg_num' /\ n \in Num
  BY DEF TransitInv, RoutesInv, RouteType
<1>5. \A n \in Num : queue'[n] \in Seq(Answer(n)')
  <2>1. \A n \in Num : Answer(n) \subseteq Answer(n)'
    BY DEF Answer
  <2> QED BY <2>1, SeqMono
<1> QED BY <1>2, <1>3, <1>4, <1>5 DEF RoutesInv

LEMMA QueuesKept ==
  TransitInv /\ UNCHANGED queue =>
      queue' \in [Num -> Seq(Message)] /\ \A n \in Num : queue'[n] \in Seq(Answer(n))
  BY DEF TransitInv, RoutesInv

LEMMA QueueDropped ==
  ASSUME TransitInv, NEW k, queue' = [queue EXCEPT ![k] = <<>>]
  PROVE  queue' \in [Num -> Seq(Message)] /\ \A n \in Num : queue'[n] \in Seq(Answer(n))
<1>1. queue \in [Num -> Seq(Message)] /\ \A n \in Num : queue[n] \in Seq(Answer(n))
  BY DEF TransitInv, RoutesInv
<1>2. <<>> \in Seq(Message) /\ \A n \in Num : <<>> \in Seq(Answer(n))
  BY EmptySeq
<1> QED BY <1>1, <1>2

\* A subscription's new number is ahead of every message in transit, so that its
\* backlog is empty.
LEMMA BacklogEmpty ==
  ASSUME TransitInv, ControlInv, NEW n \in Num, n = msg_num + 1
  PROVE  LET backlog == {m \in Message : Matches(m, n)}
         IN  Kept(unmatched, backlog) = <<>> /\ Kept(unmatched, Message \ backlog) = unmatched
<1> DEFINE backlog == {m \in Message : Matches(m, n)}
<1>1. unmatched \in Seq(Known)
  BY DEF TransitInv, RoutesInv
<1>2. ASSUME NEW i \in 1 .. Len(unmatched)
      PROVE  unmatched[i] \in Message /\ unmatched[i] \notin backlog
  <2>1. unmatched[i] \in Known
    BY <1>1
  <2>2. unmatched[i] \in Message /\ (unmatched[i].kind \in Numbered => unmatched[i].num <= msg_num)
    BY <2>1 DEF Known
  <2>3. msg_num \in Nat
    BY ExchangeFinite DEF ControlInv, ControlType, Num
  <2>4. unmatched[i].kind \in Numbered => unmatched[i].num # n
    BY <2>2, <2>3
  <2> QED BY <2>2, <2>4 DEF Matches, Numbered
<1>3. Kept(unmatched, backlog) = <<>>
  BY <1>2, KeptNone
<1>4. Kept(unmatched, Message \ backlog) = unmatched
  BY <1>1, <1>2, KeptAll
<1> QED BY <1>3, <1>4

LEMMA SubscribeRoutes ==
  ASSUME ControlInv, TransitInv, NEW c \in Caller, Subscribe(c)
  PROVE  RouteType' /\ DispatcherType' /\ RoutesInv'
<1>1. msg_num' = msg_num + 1 /\ msg_num' \in Num
  BY Subscribes
<1>2. /\ unmatched' = Kept(unmatched, Message \ {m \in Message : Matches(m, msg_num')})
      /\ queue' = [queue EXCEPT ![msg_num'] = Kept(unmatched, {m \in Message : Matches(m, msg_num')})]
  BY DEF Subscribe
<1>3. unmatched' = unmatched /\ queue' = [queue EXCEPT ![msg_num'] = <<>>]
  BY <1>1, <1>2, BacklogEmpty
<1>4. Known \subseteq Known' /\ msg_num \in Nat
  <2>1. msg_num \in Nat
    BY ExchangeFinite DEF ControlInv, ControlType, Num
  <2>2. ASSUME NEW m \in Known PROVE m \in Known'
    <3>1. /\ m \in Message /\ (m.kind = "torn" => expired)
          /\ m.kind \in Numbered => m.num <= msg_num /\ m.num \in Nat
      BY MessageCases DEF Known, Num
    <3>2. m.kind \in Numbered => m.num <= msg_num'
      BY <1>1, <2>1, <3>1
    <3>3. expired' = expired
      BY DEF Subscribe
    <3> QED BY <3>1, <3>2, <3>3 DEF Known
  <2> QED BY <2>1, <2>2
<1>5. unmatched' \in Seq(Known') /\ wire' \in Seq(Known')
  <2>1. unmatched \in Seq(Known) /\ wire \in Seq(Known) /\ wire' = wire
    BY DEF TransitInv, RoutesInv, Subscribe, envVars
  <2> QED BY <1>3, <1>4, <2>1, SeqMono
<1>6. \A t \in Thread : dispatcher'[t].at = "have" => dispatcher'[t].message \in Known'
  BY <1>4 DEF TransitInv, RoutesInv, Subscribe
<1>7. \A n \in cam_requests' : n <= msg_num'
  <2>1. \A n \in cam_requests : n <= msg_num /\ n \in Nat
    BY DEF TransitInv, RoutesInv, RouteType, Num
  <2>2. cam_requests' = cam_requests
    BY DEF Subscribe, envVars
  <2>3. ASSUME NEW n \in cam_requests PROVE n <= msg_num'
    BY <1>1, <1>4, <2>1
  <2> QED BY <2>2, <2>3
<1>8. queue' \in [Num -> Seq(Message)] /\ \A n \in Num : queue'[n] \in Seq(Answer(n))
  BY <1>3, QueueDropped
<1>9. RouteType' /\ DispatcherType'
  BY <1>1 DEF TransitInv, RouteType, DispatcherType, Subscribe, lockVars, envVars
<1>10. \A n \in Num : Answer(n)' = Answer(n)
  BY DEF Answer, Subscribe
<1> QED BY <1>5, <1>6, <1>7, <1>8, <1>9, <1>10 DEF RoutesInv

\* A caller's exchange ends.
LEMMA UnsubscribeRoutes ==
  ASSUME TransitInv, NEW c \in Caller, Unsubscribe(c),
         UNCHANGED <<msg_num, unmatched, dispatcher, lockVars, envVars, expired>>,
         result' \in [Caller -> Message \cup {NoMessage}]
  PROVE  RouteType' /\ DispatcherType' /\ RoutesInv'
<1>1. queue' \in [Num -> Seq(Message)] /\ \A n \in Num : queue'[n] \in Seq(Answer(n))
  BY QueueDropped DEF Unsubscribe
<1>2. RoutesInv' /\ cam_requests' \subseteq Num
  BY <1>1, RoutesStep DEF Passes, envVars
<1>3. sub' \in [Num -> {"none", "active", "closed"} \cup Error] /\ waiters' \subseteq Num
  BY DEF Unsubscribe, TransitInv, RouteType
<1>4. taken' \subseteq Num /\ DispatcherType'
  BY DEF TransitInv, RouteType, DispatcherType, lockVars
<1> QED BY <1>2, <1>3, <1>4 DEF RouteType

LEMMA StartRoutes ==
  ASSUME TransitInv, StartThread \/ UNCHANGED threadVars,
         UNCHANGED <<msg_num, routeVars, lockVars, result, envVars>>
  PROVE  RouteType' /\ DispatcherType' /\ RoutesInv'
<1>1. /\ DispatcherType'
      /\ \A t \in Thread : dispatcher'[t].at = "have" => dispatcher'[t] = dispatcher[t]
  <2>1. CASE StartThread
    BY <2>1 DEF StartThread, TransitInv, DispatcherType
  <2>2. CASE UNCHANGED dispatcher
    BY <2>2 DEF TransitInv, DispatcherType
  <2> QED BY <2>1, <2>2 DEF threadVars
<1>2. queue' \in [Num -> Seq(Message)] /\ \A n \in Num : queue'[n] \in Seq(Answer(n))
  BY QueuesKept DEF routeVars
<1>4. expired => expired'
  BY DEF StartThread, threadVars
<1>3. RoutesInv' /\ cam_requests' \subseteq Num
  BY <1>1, <1>2, <1>4, RoutesStep DEF Passes, envVars, routeVars
<1> QED BY <1>1, <1>3 DEF TransitInv, RouteType, routeVars, lockVars

LEMMA ExpiredStays ==
  ASSUME NEW c \in Caller, CallerStep(c)
  PROVE  expired => expired'
<1>1. ASSUME JoinDispatcher(c) \/ StartThread \/ UNCHANGED threadVars \/ UNCHANGED expired
      PROVE  expired => expired'
  BY <1>1 DEF JoinDispatcher, StartThread, threadVars
<1>2. CASE LoginRecv(c) \/ StartDispatching(c) \/ EnsureDispatcherActive(c)
  BY <1>1, <1>2 DEF LoginRecv, StartDispatching, EnsureDispatcherActive, StartDispatcher
<1>3. CASE StopDispatcher(c) \/ CloseSession(c) \/ Subscribe(c)
  BY <1>3 DEF StopDispatcher, CloseSession, Subscribe
<1>4. CASE \/ EnsureConnected(c) \/ Reconnect(c) \/ Close(c) \/ Connect(c) \/ ConnectFails(c)
           \/ Login(c) \/ LoginReadsSocket(c) \/ LoginReadsUnmatched(c) \/ LoginRaises(c)
           \/ SessionReady(c) \/ SessionReadyTimeout(c)
           \/ Send(c) \/ SendRaises(c) \/ RecvReply(c) \/ RecvRaises(c)
  BY <1>4
  DEF EnsureConnected, Reconnect, Close, Connect, ConnectFails, Login, LoginReadsSocket,
      LoginReadsUnmatched, LoginRaises, SessionReady, SessionReadyTimeout,
      Send, SendRaises, RecvReply, RecvRaises, flagVars
<1> QED BY <1>1, <1>2, <1>3, <1>4 DEF CallerStep, LockedStep

LEMMA RoutesCaller ==
  ASSUME ControlInv, TransitInv, NEW c \in Caller, CallerStep(c)
  PROVE  RouteType' /\ DispatcherType' /\ RoutesInv'
<1> DEFINE Goal == RouteType' /\ DispatcherType' /\ RoutesInv'
<1>0. expired => expired'
  BY ExpiredStays
<1>1. ASSUME UNCHANGED <<dispatcher, msg_num, sub, queue, result>>, waiters' \subseteq waiters,
             Passes(unmatched, unmatched'), Passes(wire, wire'), cam_requests' \subseteq cam_requests,
             taken' \subseteq Num
      PROVE  Goal
  <2>1. RoutesInv' /\ cam_requests' \subseteq Num
    BY <1>0, <1>1, RoutesStep, QueuesKept
  <2> QED BY <1>1, <2>1 DEF TransitInv, RouteType, DispatcherType
<1>2. waiters \subseteq Num /\ taken \subseteq Num /\ {} \subseteq Num
  BY DEF TransitInv, RouteType
<1>3. ASSUME NEW error, RaiseLocked(c, error) PROVE taken' = {}
  BY <1>3 DEF RaiseLocked, Unlock
<1>4. ASSUME NEW m, LoginReplied(c, m) PROVE taken' = {} \/ taken' = taken
  BY <1>3, <1>4 DEF LoginReplied, Release, Unlock, lockVars
<1>5. CASE EnsureConnected(c) \/ Reconnect(c) \/ Close(c) \/ Connect(c) \/ Login(c)
  <2>1. /\ UNCHANGED <<dispatcher, msg_num, routeVars, result, wire, cam_requests, taken>>
    BY <1>5 DEF EnsureConnected, Reconnect, Close, Connect, Login, envVars, lockVars, callVars
  <2> QED BY <1>1, <1>2, <2>1 DEF routeVars, Passes
<1>6. CASE ConnectFails(c) \/ LoginRaises(c) \/ SessionReady(c) \/ SessionReadyTimeout(c)
  <2>1. taken' = {}
    BY <1>3, <1>6 DEF ConnectFails, LoginRaises, SessionReady, Release, Unlock, SessionReadyTimeout
  <2>2. UNCHANGED <<dispatcher, msg_num, routeVars, result, wire, cam_requests>>
    BY <1>6 DEF ConnectFails, LoginRaises, SessionReady, SessionReadyTimeout, envVars, callVars
  <2> QED BY <1>1, <1>2, <2>1, <2>2 DEF routeVars, Passes
<1>7. CASE StopDispatcher(c)
  BY <1>1, <1>2, <1>7 DEF StopDispatcher, Passes, envVars, lockVars, callVars
<1>8. CASE JoinDispatcher(c)
  BY <1>1, <1>2, <1>8 DEF JoinDispatcher, Passes, envVars
<1>9. CASE CloseSession(c)
  <2>1. taken' = {}
    BY <1>9 DEF CloseSession, Release, Unlock
  <2>2. sub' \in [Num -> {"none", "active", "closed"} \cup Error]
    BY <1>9 DEF CloseSession, TransitInv, RouteType
  <2>3. /\ UNCHANGED <<dispatcher, msg_num, waiters, unmatched, queue, result>>
        /\ wire' = <<>> /\ cam_requests' = {}
    BY <1>9 DEF CloseSession
  <2>4. RoutesInv' /\ cam_requests' \subseteq Num
    BY <1>0, <2>3, RoutesStep, QueuesKept DEF Passes
  <2> QED BY <2>1, <2>2, <2>3, <2>4 DEF TransitInv, RouteType, DispatcherType
<1>10. CASE LoginReadsSocket(c)
  BY <1>1, <1>2, <1>4, <1>10 DEF LoginReadsSocket, routeVars, Passes
<1>11. CASE LoginReadsUnmatched(c)
  BY <1>1, <1>2, <1>4, <1>11 DEF LoginReadsUnmatched, Passes, envVars
<1>12. CASE LoginRecv(c) \/ StartDispatching(c) \/ EnsureDispatcherActive(c)
  <2>1. StartThread \/ UNCHANGED threadVars
    BY <1>12 DEF LoginRecv, StartDispatching, EnsureDispatcherActive, StartDispatcher
  <2>2. UNCHANGED <<msg_num, routeVars, lockVars, result, envVars>>
    BY <1>12 DEF LoginRecv, StartDispatching, EnsureDispatcherActive, callVars
  <2> QED BY <2>1, <2>2, StartRoutes
<1>13. CASE Subscribe(c)
  BY <1>13, SubscribeRoutes
<1>14. CASE Send(c)
  <2>1. num[c] \in Num /\ num[c] <= msg_num
    BY <1>14 DEF Send, ControlInv, CloserInv, NumInv
  <2>2. cam_requests' \subseteq cam_requests \cup {n \in Num : n <= msg_num}
    BY <1>14, <2>1 DEF Send
  <2>3. UNCHANGED <<dispatcher, msg_num, routeVars, wire, lockVars, result>>
    BY <1>14 DEF Send, callVars
  <2>4. RoutesInv' /\ cam_requests' \subseteq Num
    BY <1>0, <2>2, <2>3, RoutesStep, QueuesKept DEF Passes, routeVars
  <2> QED BY <2>3, <2>4 DEF TransitInv, RouteType, DispatcherType, routeVars, lockVars
<1>15. CASE SendRaises(c) \/ RecvRaises(c)
  <2>1. Unsubscribe(c) /\ UNCHANGED <<msg_num, unmatched, dispatcher, lockVars, envVars, expired, result>>
    BY <1>15 DEF SendRaises, RecvRaises, flagVars
  <2> QED BY <2>1, UnsubscribeRoutes DEF TransitInv, RouteType
<1>16. CASE RecvReply(c)
  <2>1. num[c] \in Num
    BY <1>16 DEF RecvReply, ControlInv, CloserInv, NumInv
  <2>2. queue[num[c]] \in Seq(Message) /\ queue[num[c]] # <<>>
    BY <1>16, <2>1 DEF RecvReply, TransitInv, RoutesInv
  <2>3. Head(queue[num[c]]) \in Message
    BY <2>2, HeadTailProperties
  <2>4. result' \in [Caller -> Message \cup {NoMessage}]
    BY <1>16, <2>3 DEF RecvReply, TransitInv, RouteType
  <2>5. Unsubscribe(c) /\ UNCHANGED <<msg_num, unmatched, dispatcher, lockVars, envVars, expired>>
    BY <1>16 DEF RecvReply, flagVars
  <2> QED BY <2>4, <2>5, UnsubscribeRoutes
<1> QED
  BY <1>5, <1>6, <1>7, <1>8, <1>9, <1>10, <1>11, <1>12, <1>13, <1>14, <1>15, <1>16
  DEF CallerStep, LockedStep

LEMMA RoutesDispatcher ==
  ASSUME ControlInv, TransitInv, mixed => expired, NEW t \in Thread, DispatcherStep(t)
  PROVE  RouteType' /\ DispatcherType' /\ RoutesInv'
<1> USE DEF DispatcherUnchanged, routeVars, callVars, lockVars, envVars
<1>0. expired' = expired
  BY DEF DispatcherStep, DispatchLoop, DispatchRecv, DispatchTimeout, DispatchEof, DispatchMessage,
         DispatchFails, flagVars
<1>1. ASSUME UNCHANGED <<msg_num, waiters, unmatched, sub, queue, taken, result, cam_requests>>,
             Passes(wire, wire'), DispatcherType',
             \A u \in Thread : dispatcher'[u].at = "have" =>
                 dispatcher'[u].message \in Known \/ dispatcher'[u] = dispatcher[u]
      PROVE  RouteType' /\ DispatcherType' /\ RoutesInv'
  <2>1. RoutesInv' /\ cam_requests' \subseteq Num
    BY <1>0, <1>1, RoutesStep, QueuesKept DEF Passes
  <2> QED BY <1>1, <2>1 DEF TransitInv, RouteType
<1>2. CASE DispatchLoop(t) \/ DispatchTimeout(t) \/ DispatchEof(t)
  <2>1. 0 \in Session /\ sock \in Session
    BY DEF Session, TransitInv, SessionType
  <2> DEFINE Where == [at : {"loop", "read", "have", "lost", "fatal", "dead"},
                       session : Session, message : Message \cup {NoMessage}]
  <2>2. dispatcher \in [Thread -> Where]
    BY DEF TransitInv, DispatcherType
  <2>3. PICK d : dispatcher' = [dispatcher EXCEPT ![t] = d] /\ d \in Where /\ d.at # "have"
    <3>1. Dead = [at |-> "dead", session |-> 0, message |-> NoMessage]
      BY DEF Dead
    <3>2. CASE DispatchLoop(t)
      <4>1. [Dead EXCEPT !.at = IF sock = 0 THEN "fatal" ELSE "read", !.session = sock] \in Where
        BY <2>1, <3>1
      <4>2. [Dead EXCEPT !.at = IF sock = 0 THEN "fatal" ELSE "read", !.session = sock].at # "have"
        BY <3>1
      <4>3. Dead \in Where /\ Dead.at # "have"
        BY <2>1, <3>1
      <4> HIDE DEF Where
      <4> QED BY <3>2, <4>1, <4>2, <4>3 DEF DispatchLoop
    <3>3. CASE DispatchTimeout(t)
      <4>1. [Dead EXCEPT !.at = "loop"] \in Where /\ [Dead EXCEPT !.at = "loop"].at # "have"
        BY <2>1, <3>1
      <4> HIDE DEF Where
      <4> QED BY <3>3, <4>1 DEF DispatchTimeout
    <3>4. CASE DispatchEof(t)
      <4>1. dispatcher' = [dispatcher EXCEPT ![t] = [dispatcher[t] EXCEPT !.at = "lost"]]
        BY <3>4 DEF DispatchEof
      <4>2. /\ [dispatcher[t] EXCEPT !.at = "lost"] \in Where
            /\ [dispatcher[t] EXCEPT !.at = "lost"].at # "have"
        BY <2>2
      <4> HIDE DEF Where
      <4> QED BY <4>1, <4>2
    <3> QED BY <1>2, <3>2, <3>3, <3>4
  <2>5. DispatcherType'
    BY <2>2, <2>3 DEF DispatcherType
  <2>6. \A u \in Thread : dispatcher'[u].at = "have" => dispatcher'[u] = dispatcher[u]
    BY <2>2, <2>3
  <2>4. UNCHANGED <<msg_num, waiters, unmatched, sub, queue, taken, result, cam_requests, wire>>
    BY <1>2 DEF DispatchLoop, DispatchTimeout, DispatchEof
  <2> QED BY <1>1, <2>4, <2>5, <2>6 DEF Passes
<1>3. CASE DispatchRecv(t)
  <2>1. Head(wire) \in Known /\ (mixed => Torn(Head(wire)) \in Known)
    <3>1. Head(wire) \in Known
      BY <1>3, HeadTailProperties DEF DispatchRecv, TransitInv, RoutesInv
    <3> QED BY <3>1, TornKnown
  <2> DEFINE Where == [at : {"loop", "read", "have", "lost", "fatal", "dead"},
                       session : Session, message : Message \cup {NoMessage}]
  <2>5. dispatcher \in [Thread -> Where]
    BY DEF TransitInv, DispatcherType
  <2>6. PICK l \in {"have", "fatal"}, m \in Message \cup {NoMessage} :
           /\ dispatcher' = [dispatcher EXCEPT ![t] = [dispatcher[t] EXCEPT !.at = l, !.message = m]]
           /\ l = "have" => m \in Known
    <3>1. ASSUME NEW m \in Known,
                 dispatcher' = [dispatcher EXCEPT ![t].at = "have", ![t].message = m]
          PROVE  /\ m \in Message
                 /\ dispatcher' = [dispatcher EXCEPT ![t] =
                                     [dispatcher[t] EXCEPT !.at = "have", !.message = m]]
      BY <2>5, <3>1 DEF Known
    <3>2. ASSUME dispatcher' = [dispatcher EXCEPT ![t].at = "fatal"]
          PROVE  /\ dispatcher[t].message \in Message \cup {NoMessage}
                 /\ dispatcher' = [dispatcher EXCEPT ![t] =
                       [dispatcher[t] EXCEPT !.at = "fatal", !.message = dispatcher[t].message]]
      BY <2>5, <3>2
    <3> HIDE DEF Where
    <3>3. CASE dispatcher' = [dispatcher EXCEPT ![t].at = "have", ![t].message = Head(wire)]
      BY <2>1, <3>1, <3>3
    <3>4. CASE mixed /\ dispatcher' = [dispatcher EXCEPT ![t].at = "have",
                                                         ![t].message = Torn(Head(wire))]
      BY <2>1, <3>1, <3>4
    <3>5. CASE dispatcher' = [dispatcher EXCEPT ![t].at = "fatal"]
      BY <3>2, <3>5
    <3> QED BY <1>3, <3>3, <3>4, <3>5 DEF DispatchRecv
  <2>7. dispatcher' = [dispatcher EXCEPT ![t] = [dispatcher[t] EXCEPT !.at = l, !.message = m]]
        /\ [dispatcher[t] EXCEPT !.at = l, !.message = m] \in Where
        /\ [dispatcher[t] EXCEPT !.at = l, !.message = m].at = l
        /\ [dispatcher[t] EXCEPT !.at = l, !.message = m].message = m
    BY <2>5, <2>6
  <2> DEFINE d == [dispatcher[t] EXCEPT !.at = l, !.message = m]
  <2> HIDE DEF Where, d
  <2>8. dispatcher' = [dispatcher EXCEPT ![t] = d] /\ d \in Where /\ d.at = l /\ d.message = m
    BY <2>7 DEF d
  <2>2. DispatcherType'
    <3>1. dispatcher' \in [Thread -> Where]
      BY <2>5, <2>8
    <3> QED BY <3>1 DEF DispatcherType, Where
  <2>3. \A u \in Thread : dispatcher'[u].at = "have" =>
            dispatcher'[u].message \in Known \/ dispatcher'[u] = dispatcher[u]
    BY <2>5, <2>6, <2>8
  <2>4. /\ UNCHANGED <<msg_num, waiters, unmatched, sub, queue, taken, result, cam_requests>>
        /\ Passes(wire, wire')
    BY <1>3 DEF DispatchRecv, Passes
  <2> QED BY <1>1, <2>2, <2>3, <2>4
<1>4. CASE DispatchMessage(t)
  <2> DEFINE m == dispatcher[t].message
             to == {n \in waiters : sub[n] = "active" /\ Matches(m, n)}
  <2>1. m \in Known /\ m \in Message
    BY <1>4 DEF DispatchMessage, TransitInv, RoutesInv, Known
  <2>2. /\ queue' = [n \in Num |-> IF n \in to THEN Append(queue[n], m) ELSE queue[n]]
        /\ unmatched' = IF to = {} THEN Append(unmatched, m) ELSE unmatched
    BY <1>4 DEF DispatchMessage
  <2>3. ASSUME NEW n \in Num PROVE queue'[n] \in Seq(Message) /\ queue'[n] \in Seq(Answer(n))
    <3>1. queue[n] \in Seq(Message) /\ queue[n] \in Seq(Answer(n))
      BY DEF TransitInv, RoutesInv
    <3>2. CASE n \in to
      <4>1. m \in Answer(n)
        BY <2>1, <3>2, MessageCases DEF Answer, Known
      <4>2. queue'[n] = Append(queue[n], m)
        BY <2>2, <3>2
      <4> QED BY <2>1, <3>1, <4>1, <4>2, AppendProperties
    <3>3. CASE n \notin to
      BY <2>2, <3>1, <3>3
    <3> QED BY <3>2, <3>3
  <2>4. queue' \in [Num -> Seq(Message)]
    BY <2>2, <2>3
  <2>5. Passes(unmatched, unmatched')
    BY <2>1, <2>2 DEF Passes
  <2>6. /\ DispatcherType'
        /\ \A u \in Thread : dispatcher'[u].at = "have" => dispatcher'[u] = dispatcher[u]
    <3>1. 0 \in Session
      BY DEF Session
    <3> QED BY <1>4, <3>1 DEF DispatchMessage, Dead, TransitInv, DispatcherType
  <2>7. UNCHANGED <<msg_num, waiters, sub, taken, result, cam_requests, wire>>
    BY <1>4 DEF DispatchMessage
  <2> HIDE DEF m, to
  <2>8. RoutesInv' /\ cam_requests' \subseteq Num
    BY <1>0, <2>3, <2>4, <2>5, <2>6, <2>7, RoutesStep DEF Passes
  <2> QED BY <2>6, <2>7, <2>8 DEF TransitInv, RouteType
<1>5. CASE DispatchFails(t)
  <2>1. /\ DispatcherType'
        /\ \A u \in Thread : dispatcher'[u].at = "have" => dispatcher'[u] = dispatcher[u]
    <3>1. 0 \in Session
      BY DEF Session
    <3> QED BY <1>5, <3>1 DEF DispatchFails, Dead, TransitInv, DispatcherType
  <2>2. UNCHANGED <<msg_num, unmatched, queue, taken, result, cam_requests, wire>>
    BY <1>5 DEF DispatchFails
  <2>3. RoutesInv' /\ cam_requests' \subseteq Num
    BY <1>0, <2>1, <2>2, RoutesStep, QueuesKept DEF Passes
  <2>4. sub' \in [Num -> {"none", "active", "closed"} \cup Error] /\ waiters' \subseteq Num
    BY <1>5 DEF DispatchFails, TransitInv, RouteType
  <2> QED BY <2>1, <2>2, <2>3, <2>4 DEF TransitInv, RouteType
<1> QED BY <1>2, <1>3, <1>4, <1>5 DEF DispatcherStep

LEMMA RoutesEnvironment ==
  ASSUME ControlInv, TransitInv, Environment
  PROVE  RouteType' /\ DispatcherType' /\ RoutesInv'
<1>1. UNCHANGED <<dispatcher, msg_num, waiters, unmatched, sub, queue, taken, result, sock, expired>>
  BY DEF Environment, CameraAnswersLogin, CameraReportsBattery, CameraAnswers, ConnectionBreaks,
         Outside, routeVars, lockVars, callVars, sockVars, flagVars
<1>2. cam_requests' \subseteq cam_requests
  BY DEF Environment, CameraAnswersLogin, CameraReportsBattery, CameraAnswers, ConnectionBreaks
<1>3. msg_num \in Nat
  BY ExchangeFinite DEF ControlInv, ControlType, Num
<1>4. LoginReply(sock) \in Known /\ BatteryList \in Known
  BY <1>3, MessageCases DEF Known, Numbered, TransitInv, SessionType
<1>5. ASSUME NEW n \in cam_requests PROVE [kind |-> "reply", num |-> n] \in Known
  <2>1. n \in Num /\ n <= msg_num
    BY DEF TransitInv, RouteType, RoutesInv
  <2> QED BY <2>1, MessageCases DEF Known
<1>6. Passes(wire, wire')
  BY <1>4, <1>5
  DEF Environment, CameraAnswersLogin, CameraReportsBattery, CameraAnswers, ConnectionBreaks,
      CameraSends, Passes
<1>7. RoutesInv' /\ cam_requests' \subseteq Num
  BY <1>1, <1>2, <1>6, RoutesStep, QueuesKept DEF Passes
<1> QED BY <1>1, <1>7 DEF TransitInv, RouteType, DispatcherType

\* Two dispatchers read a connection only if a join gave one of them up.
MixedInv == mixed => expired

LEMMA TransitNext == ControlInv /\ TransitInv /\ MixedInv /\ [Next]_vars => TransitInv'
<1> SUFFICES ASSUME ControlInv, TransitInv, MixedInv, [Next]_vars PROVE TransitInv'
  OBVIOUS
<1>1. SessionType'
  BY SessionNext DEF TransitInv
<1>2. RouteType' /\ DispatcherType' /\ RoutesInv'
  <2>1. CASE UNCHANGED vars
    BY <2>1
    DEF vars, flagVars, routeVars, lockVars, callVars, envVars, TransitInv, RouteType,
        DispatcherType, RoutesInv, Known, Answer
  <2> QED BY <2>1, RoutesCaller, RoutesDispatcher, RoutesEnvironment DEF Next, MixedInv
<1> QED BY <1>1, <1>2 DEF TransitInv

LEMMA InitTransit == Init => TransitInv
<1> SUFFICES ASSUME Init PROVE TransitInv
  OBVIOUS
<1>1. 0 \in Session
  BY DEF Session
<1>2. SessionType
  BY <1>1 DEF Init, SessionType
<1>3. /\ DispatcherType
      /\ \A t \in Thread : dispatcher[t].at = "dead"
  BY <1>1 DEF Init, DispatcherType, Dead
<1>4. RouteType
  BY DEF Init, RouteType
<1>5. RoutesInv
  <2>1. unmatched \in Seq(Known) /\ wire \in Seq(Known)
    BY EmptySeq DEF Init
  <2>2. \A n \in Num : <<>> \in Seq(Message) /\ <<>> \in Seq(Answer(n))
    BY EmptySeq
  <2>3. queue = [n \in Num |-> <<>>] /\ cam_requests = {}
    BY DEF Init
  <2> QED BY <1>3, <2>1, <2>2, <2>3 DEF RoutesInv
<1> QED BY <1>2, <1>3, <1>4, <1>5 DEF TransitInv

LEMMA TypesHold == ControlInv /\ TransitInv /\ 0 \notin survivors => TypeOK
<1> SUFFICES ASSUME ControlInv, TransitInv, 0 \notin survivors PROVE TypeOK
  OBVIOUS
<1>1. pc \in [Caller -> {"start", "reconnect", "stop", "join", "closing", "connect", "login",
                         "login_recv", "direct", "poll", "dispatch", "ready",
                         "subscribe", "check", "send", "wait", "done", "failed"}]
  BY DEF ControlInv, ControlType, LockedAt, OutsideAt, ExchangeAt
<1>2. unmatched \in Seq(Message) /\ wire \in Seq(Message)
  <2>1. Known \subseteq Message
    BY DEF Known
  <2>2. unmatched \in Seq(Known) /\ wire \in Seq(Known)
    BY DEF TransitInv, RoutesInv
  <2> QED BY <2>1, <2>2, SeqMono
<1>3. /\ lock \in Caller \cup {None} /\ section \in {"none", "ensure", "reconnect", "close"}
      /\ restart \in BOOLEAN /\ num \in [Caller -> Num \cup {0}] /\ msg_num \in Num \cup {0}
      /\ attempt \in [Caller -> Nat] /\ \A c \in Caller : attempt[c] \in 1 .. Attempts[c]
  BY DEF ControlInv, ControlType
<1>4. /\ waiters \subseteq Num /\ sub \in [Num -> {"none", "active", "closed"} \cup Error]
      /\ taken \subseteq Num /\ result \in [Caller -> Message \cup {NoMessage}]
      /\ cam_requests \subseteq Num /\ queue \in [Num -> Seq(Message)]
  BY DEF TransitInv, RouteType, RoutesInv
<1>5. SessionType /\ DispatcherType
  BY DEF TransitInv
<1> QED BY <1>1, <1>2, <1>3, <1>4, <1>5 DEF SessionType, DispatcherType, TypeOK

(***************************************************************************)
(* A command returns the reply to its own request.                          *)
(***************************************************************************)

\* Where the parts of the steps under the lock lead.
LEMMA LockedGoes ==
  ASSUME ControlInv, NEW c \in Caller, lock = c
  PROVE  /\ Release(c) => \/ Goto(c, "start") \/ Goto(c, "subscribe")
                          \/ Goto(c, "done") /\ c \in Closer
         /\ \A error : RaiseLocked(c, error) => Goto(c, "failed") \/ Goto(c, "reconnect")
         /\ \A m : LoginReplied(c, m) =>
               \E l : Goto(c, l) /\ l \in {"dispatch", "start", "subscribe", "failed", "reconnect", "done"}
                      /\ (l = "done" => c \in Closer)
<1>1. /\ section \in {"ensure", "reconnect", "close"}
      /\ section = "close" => c \in Closer
  BY DEF ControlInv, ControlType, LockInv
<1>2. ASSUME Release(c)
      PROVE  Goto(c, "start") \/ Goto(c, "subscribe") \/ (Goto(c, "done") /\ c \in Closer)
  BY <1>1, <1>2 DEF Release
<1>3. ASSUME NEW error, RaiseLocked(c, error) PROVE Goto(c, "failed") \/ Goto(c, "reconnect")
  BY <1>3 DEF RaiseLocked, Raise, Catch
<1>4. ASSUME NEW m, LoginReplied(c, m)
      PROVE  \/ Goto(c, "dispatch") \/ Release(c)
             \/ \E error : RaiseLocked(c, error)
  BY <1>4 DEF LoginReplied
<1> QED BY <1>2, <1>3, <1>4

LEMMA LockedOwner ==
  ASSUME ControlInv, NEW c \in Caller, LockedStep(c)
  PROVE  lock = c
<1>1. pc[c] \in LockedAt
  BY DEF LockedStep, StopDispatcher, JoinDispatcher, CloseSession, Connect, ConnectFails, Login,
         LoginRecv, LoginReadsSocket, LoginReadsUnmatched, LoginRaises, StartDispatching,
         SessionReady, SessionReadyTimeout, LockedAt
<1> QED BY <1>1 DEF ControlInv, LockInv

\* The steps of a caller that leave the socket and the dispatchers alone.
Elsewhere(c) ==
    \/ EnsureConnected(c) \/ Reconnect(c) \/ Close(c)
    \/ ConnectFails(c) \/ Login(c) \/ LoginReadsSocket(c) \/ LoginReadsUnmatched(c) \/ LoginRaises(c)
    \/ SessionReady(c) \/ SessionReadyTimeout(c)
    \/ Subscribe(c) \/ Send(c) \/ SendRaises(c) \/ RecvReply(c) \/ RecvRaises(c)

LEMMA ElsewhereGoes ==
  ASSUME ControlInv, NEW c \in Caller, Elsewhere(c)
  PROVE  /\ pc[c] \notin {"stop", "join", "closing"}
         /\ \E l : /\ Goto(c, l) /\ l \notin {"join", "closing", "direct"}
                   /\ l = "connect" => sock = 0
                   /\ l = "done" /\ c \notin Closer => RecvReply(c)
<1>1. CASE EnsureConnected(c) \/ Reconnect(c) \/ Close(c)
  BY <1>1 DEF EnsureConnected, Reconnect, Close
<1>2. CASE Login(c) \/ Subscribe(c) \/ Send(c) \/ RecvReply(c)
  BY <1>2 DEF Login, Subscribe, Send, RecvReply
<1>3. CASE SendRaises(c) \/ RecvRaises(c)
  <2>1. pc[c] \notin {"stop", "join", "closing"} /\ \E error : Raise(c, error)
    BY <1>3 DEF SendRaises, RecvRaises
  <2> QED BY <2>1 DEF Raise, Catch
<1>4. CASE ConnectFails(c) \/ LoginRaises(c) \/ SessionReadyTimeout(c) \/ SessionReady(c)
  <2>1. lock = c
    BY <1>4, LockedOwner DEF LockedStep
  <2>2. /\ pc[c] \notin {"stop", "join", "closing"}
        /\ (\E error : RaiseLocked(c, error)) \/ (Release(c) /\ pc[c] = "ready")
    BY <1>4 DEF ConnectFails, LoginRaises, SessionReadyTimeout, SessionReady
  <2>3. pc[c] = "ready" => c \notin Closer
    BY DEF ControlInv, CloserInv
  <2> QED BY <2>1, <2>2, <2>3, LockedGoes
<1>5. CASE LoginReadsSocket(c) \/ LoginReadsUnmatched(c)
  <2>1. lock = c
    BY <1>5, LockedOwner DEF LockedStep
  <2>2. pc[c] \notin {"stop", "join", "closing"} /\ \E m : LoginReplied(c, m)
    BY <1>5 DEF LoginReadsSocket, LoginReadsUnmatched
  <2> QED BY <2>1, <2>2, LockedGoes
<1> QED BY <1>1, <1>2, <1>3, <1>4, <1>5 DEF Elsewhere

\* A caller of command() is done only by a reply from its subscription's queue.
LEMMA DoneByReply ==
  ASSUME ControlInv, NEW c \in Caller, CallerStep(c), ~ RecvReply(c)
  PROVE  /\ UNCHANGED result
         /\ \A d \in Caller \ Closer :
               pc'[d] = "done" => pc[d] = "done" /\ num'[d] = num[d]
<1> USE DEF callVars
<1>1. pc \in [Caller -> LockedAt \cup OutsideAt] /\ num \in [Caller -> Num \cup {0}]
  BY DEF ControlInv, ControlType
<1>2. /\ UNCHANGED result
      /\ num' = num \/ (pc[c] = "subscribe" /\ num' = [num EXCEPT ![c] = msg_num'])
  BY DEF CallerStep, LockedStep, EnsureConnected, Reconnect, Close, StopDispatcher, JoinDispatcher,
         CloseSession, Connect, ConnectFails, Login, LoginRecv, LoginReadsSocket,
         LoginReadsUnmatched, LoginRaises, StartDispatching, SessionReady, SessionReadyTimeout,
         Subscribe, EnsureDispatcherActive, Send, SendRaises, RecvRaises
<1>3. PICK l : Goto(c, l) /\ (l = "done" => c \in Closer)
  <2>1. CASE Elsewhere(c)
    BY <2>1, ElsewhereGoes
  <2>2. CASE CloseSession(c)
    <3>1. lock = c
      BY <2>2, LockedOwner DEF LockedStep
    <3> QED BY <2>2, <3>1, LockedGoes DEF CloseSession
  <2>3. CASE \/ StopDispatcher(c) \/ JoinDispatcher(c) \/ Connect(c) \/ LoginRecv(c)
             \/ StartDispatching(c) \/ EnsureDispatcherActive(c)
    BY <2>3
    DEF StopDispatcher, JoinDispatcher, Connect, LoginRecv, StartDispatching, EnsureDispatcherActive
  <2> QED BY <2>1, <2>2, <2>3 DEF CallerStep, LockedStep, Elsewhere
<1> QED BY <1>1, <1>2, <1>3 DEF Goto

LEMMA OwnNext ==
  ControlInv /\ TransitInv /\ ReplyIsOwn /\ [Next]_vars => ReplyIsOwn'
<1> SUFFICES ASSUME ControlInv, TransitInv, ReplyIsOwn, [Next]_vars PROVE ReplyIsOwn'
  OBVIOUS
<1>1. ASSUME NEW c \in Caller, CallerStep(c) PROVE ReplyIsOwn'
  <2>1. CASE RecvReply(c)
    <3>1. c \notin Closer /\ num[c] \in Num
      BY <2>1 DEF RecvReply, ControlInv, CloserInv, NumInv
    <3>2. Head(queue[num[c]]) \in Answer(num[c])
      BY <2>1, <3>1, HeadTailProperties DEF RecvReply, TransitInv, RoutesInv
    <3>3. /\ result' = [result EXCEPT ![c] = Head(queue[num[c]])]
          /\ pc' = [pc EXCEPT ![c] = "done"] /\ num' = num
          /\ result \in [Caller -> Message \cup {NoMessage}] /\ pc \in [Caller -> LockedAt \cup OutsideAt]
      BY <2>1 DEF RecvReply, Goto, TransitInv, RouteType, ControlInv, ControlType
    <3>4. \/ Head(queue[num[c]]) = [kind |-> "reply", num |-> num[c]]
          \/ expired /\ Head(queue[num[c]]) = [kind |-> "torn", num |-> num[c]]
      BY <3>2 DEF Answer, Numbered
    <3>5. expired => expired'
      BY <1>1, ExpiredStays
    <3> QED BY <3>3, <3>4, <3>5 DEF ReplyIsOwn
  <2>2. CASE ~ RecvReply(c)
    BY <1>1, <2>2, DoneByReply, ExpiredStays DEF ReplyIsOwn
  <2> QED BY <2>1, <2>2
<1>2. ASSUME NEW t \in Thread, DispatcherStep(t) PROVE UNCHANGED <<pc, num, result, expired>>
  BY <1>2
  DEF DispatcherStep, DispatchLoop, DispatchRecv, DispatchTimeout, DispatchEof, DispatchMessage,
      DispatchFails, DispatcherUnchanged, callVars, flagVars
<1>3. CASE Environment
  <2>1. UNCHANGED <<pc, num, result, expired>>
    BY <1>3
    DEF Environment, CameraAnswersLogin, CameraReportsBattery, CameraAnswers, ConnectionBreaks,
        Outside, callVars, flagVars
  <2> QED BY <2>1 DEF ReplyIsOwn
<1>4. CASE UNCHANGED vars
  BY <1>4 DEF vars, callVars, flagVars, ReplyIsOwn
<1>5. ASSUME NEW t \in Thread, DispatcherStep(t) PROVE ReplyIsOwn'
  <2>1. UNCHANGED <<pc, num, result, expired>>
    BY <1>2, <1>5
  <2> QED BY <2>1 DEF ReplyIsOwn
<1> QED BY <1>1, <1>3, <1>4, <1>5 DEF Next

(***************************************************************************)
(* The dispatcher threads and the connection.                               *)
(***************************************************************************)

\* Every dispatcher that is not dead is the one of dispatch_thread, and what it reads, has or
\* lost is the current connection's; but for those that a join gave up, whose connections are
\* among those opened.
CurrentInv ==
    /\ \A t \in Thread \ survivors :
          /\ dispatcher[t].at # "dead" => dispatch_thread = t
          /\ dispatcher[t].at \in {"read", "have", "lost"} => dispatcher[t].session = sock
    /\ \A t \in Thread :
          dispatcher[t].at \in {"read", "have", "lost"} => dispatcher[t].session \in 1 .. opened
    /\ sock <= opened

\* While a connection is replaced, or a login reads it itself, there is no dispatch_thread; the
\* caller that reads it itself knows so because a dispatcher is there only if one was asked
\* for, or while it is being joined.
LocalsInv ==
    /\ \A c \in Caller : /\ pc[c] \in {"closing", "direct"} => dispatch_thread = 0
                         /\ pc[c] = "connect" => sock = 0
    /\ dispatch_thread # 0 => dispatcher_requested \/ \E c \in Caller : pc[c] = "join"

\* Those that a join gave up see the stop event until the next one is started; before that
\* they do not come to read the next connection.
SurvivorInv ==
    /\ survivors # {} => expired
    /\ 0 \notin survivors /\ dispatch_thread \notin survivors
    /\ \A c \in Caller : pc[c] = "join" => dispatch_stop /\ dispatch_thread # 0
    /\ dispatch_thread = 0 /\ survivors # {} => dispatch_stop
    /\ dispatch_thread = 0 /\ (\A c \in Caller : pc[c] # "closing") =>
          ~ mixed /\ \A t \in Thread : ~ ReadsSession(t)

ThreadsInv == CurrentInv /\ LocalsInv /\ SurvivorInv /\ MixedInv

\* Nobody reads a connection whose threads are as they were.
LEMMA ThreadsMoved ==
  ASSUME ControlInv, ThreadsInv, NEW c \in Caller, NEW l, Goto(c, l),
         l \notin {"join", "closing", "direct"}, l = "connect" => sock = 0,
         pc[c] \notin {"join", "closing"},
         UNCHANGED <<sock, opened, mixed, threadVars>>,
         dispatcher_requested' = dispatcher_requested \/ dispatcher_requested' = TRUE
  PROVE  ThreadsInv'
<1>1. /\ pc' = [pc EXCEPT ![c] = l] /\ pc \in [Caller -> LockedAt \cup OutsideAt]
      /\ UNCHANGED <<dispatch_thread, dispatcher, dispatch_stop, expired, survivors>>
  BY DEF Goto, ControlInv, ControlType, threadVars
<1>2. LocalsInv'
  <2>1. dispatch_thread' # 0 => dispatcher_requested' \/ \E d \in Caller : pc'[d] = "join"
    BY <1>1 DEF ThreadsInv, LocalsInv
  <2>2. \A d \in Caller : /\ pc'[d] \in {"closing", "direct"} => dispatch_thread' = 0
                          /\ pc'[d] = "connect" => sock' = 0
    BY <1>1 DEF ThreadsInv, LocalsInv
  <2> QED BY <2>1, <2>2 DEF LocalsInv
<1>3. CurrentInv'
  BY <1>1 DEF ThreadsInv, CurrentInv
<1>4. SurvivorInv'
  <2>1. \A t \in Thread : ReadsSession(t)' <=> ReadsSession(t)
    BY <1>1 DEF ReadsSession
  <2>2. \A d \in Caller : pc'[d] \in {"join", "closing"} <=> pc[d] \in {"join", "closing"} /\ pc'[d] = pc[d]
    BY <1>1
  <2> QED BY <1>1, <2>1, <2>2 DEF ThreadsInv, SurvivorInv
<1> QED BY <1>1, <1>2, <1>3, <1>4 DEF ThreadsInv, MixedInv

\* A dispatcher is started only when every other but those given up is dead, no connection is
\* being replaced and no login reads the connection itself.
LEMMA ThreadsStarted ==
  ASSUME ControlInv, TransitInv, ThreadsInv, NEW c \in Caller, NEW l, Goto(c, l),
         l \notin {"join", "closing", "direct", "connect"},
         UNCHANGED <<sock, opened, mixed>>, dispatcher_requested' = TRUE,
         \A d \in Caller : pc'[d] \notin {"join", "closing", "direct"},
         ~ DispatcherActive, StartThread
  PROVE  ThreadsInv'
<1>1. /\ pc' = [pc EXCEPT ![c] = l] /\ pc \in [Caller -> LockedAt \cup OutsideAt]
      /\ dispatcher \in [Thread -> [at : {"loop", "read", "have", "lost", "fatal", "dead"},
                                    session : Session, message : Message \cup {NoMessage}]]
  BY DEF Goto, ControlInv, ControlType, TransitInv, DispatcherType
<1>2. \A t \in Thread \ survivors : dispatcher[t].at = "dead"
  BY DEF ThreadsInv, CurrentInv, DispatcherActive
<1>3. PICK u \in Thread : /\ dispatch_thread' = u /\ dispatcher[u].at = "dead"
                          /\ dispatcher' = [dispatcher EXCEPT ![u].at = "loop"]
                          /\ survivors' = survivors \ {u} /\ expired' = expired
  BY DEF StartThread
<1>4. \A t \in Thread : /\ t = u => dispatcher'[t].at = "loop"
                        /\ t # u => dispatcher'[t] = dispatcher[t]
  BY <1>1, <1>3
<1>5. LocalsInv'
  BY <1>1, <1>3 DEF ThreadsInv, LocalsInv
<1>6. CurrentInv'
  BY <1>2, <1>3, <1>4 DEF ThreadsInv, CurrentInv
<1>7. SurvivorInv'
  <2>1. u # 0
    OBVIOUS
  <2> QED BY <1>3, <2>1 DEF ThreadsInv, SurvivorInv
<1> QED BY <1>3, <1>5, <1>6, <1>7 DEF ThreadsInv, MixedInv

\* The other callers are outside the lock while its owner moves.
LEMMA OthersOutside ==
  ASSUME ControlInv, NEW c \in Caller, lock = c, NEW l, Goto(c, l)
  PROVE  \A d \in Caller : d # c => pc'[d] = pc[d] /\ pc'[d] \notin LockedAt
  BY DEF ControlInv, ControlType, LockInv, Goto

LEMMA ThreadsCaller ==
  ASSUME ControlInv, TransitInv, ThreadsInv, NEW c \in Caller, CallerStep(c)
  PROVE  ThreadsInv'
<1> USE DEF envVars
<1>0. pc \in [Caller -> LockedAt \cup OutsideAt] /\ sock \in Nat /\ opened \in Nat
  BY DEF ControlInv, ControlType, TransitInv, SessionType, Session
<1>10. ASSUME lock = c PROVE \A d \in Caller : d # c => pc[d] \notin LockedAt
  BY <1>10 DEF ControlInv, LockInv
<1>1. CASE Elsewhere(c)
  <2>1. PICK l : Goto(c, l) /\ l \notin {"join", "closing", "direct"} /\ (l = "connect" => sock = 0)
    BY <1>1, ElsewhereGoes
  <2>2. pc[c] \notin {"join", "closing"}
    BY <1>1, ElsewhereGoes
  <2>3. UNCHANGED <<sock, opened, mixed, threadVars>>
        /\ (dispatcher_requested' = dispatcher_requested \/ dispatcher_requested' = TRUE)
    BY <1>1
    DEF Elsewhere, EnsureConnected, Reconnect, Close, ConnectFails, Login, LoginReadsSocket,
        LoginReadsUnmatched, LoginRaises, SessionReady, SessionReadyTimeout, Subscribe, Send,
        SendRaises, RecvReply, RecvRaises, sockVars, flagVars, threadVars
  <2> QED BY <2>1, <2>2, <2>3, ThreadsMoved
<1>2. CASE StopDispatcher(c)
  <2>1. lock = c /\ pc[c] = "stop" /\ \E l \in {"closing", "join"} : Goto(c, l)
    BY <1>2, LockedOwner DEF LockedStep, StopDispatcher
  <2>2. \A d \in Caller : d # c => pc'[d] \notin LockedAt
    BY <2>1, OthersOutside
  <2>3. /\ UNCHANGED <<sock, opened, mixed, dispatcher, dispatch_thread, expired, survivors>>
        /\ IF dispatch_thread = 0 THEN pc' = [pc EXCEPT ![c] = "closing"] /\ UNCHANGED dispatch_stop
                                  ELSE pc' = [pc EXCEPT ![c] = "join"] /\ dispatch_stop' = TRUE
    BY <1>2 DEF StopDispatcher, Goto, sockVars
  <2>4. LocalsInv'
    <3>1. /\ dispatch_thread' # 0 => \E d \in Caller : pc'[d] = "join"
          /\ \A d \in Caller : /\ pc'[d] \in {"closing", "direct"} => dispatch_thread' = 0
                               /\ pc'[d] # "connect"
      BY <1>0, <2>2, <2>3 DEF LockedAt
    <3> QED BY <3>1 DEF LocalsInv
  <2>5. CurrentInv'
    BY <2>3 DEF ThreadsInv, CurrentInv
  <2>6. SurvivorInv'
    <3>1. \A d \in Caller : pc'[d] = "join" => dispatch_stop' /\ dispatch_thread' # 0
      BY <1>0, <2>2, <2>3 DEF LockedAt
    <3>2. dispatch_thread' = 0 => \E d \in Caller : pc'[d] = "closing"
      BY <1>0, <2>3
    <3>3. dispatch_thread' = 0 /\ survivors' # {} => dispatch_stop'
      BY <2>3 DEF ThreadsInv, SurvivorInv
    <3>4. /\ survivors' # {} => expired'
          /\ 0 \notin survivors' /\ dispatch_thread' \notin survivors'
      BY <2>3 DEF ThreadsInv, SurvivorInv
    <3> QED BY <3>1, <3>2, <3>3, <3>4 DEF ThreadsInv, SurvivorInv
  <2> QED BY <2>3, <2>4, <2>5, <2>6 DEF ThreadsInv, MixedInv
<1>3. CASE JoinDispatcher(c)
  <2>1. lock = c /\ Goto(c, "closing") /\ pc[c] = "join"
    BY <1>3, LockedOwner DEF LockedStep, JoinDispatcher
  <2>2. \A d \in Caller : d # c => pc'[d] \notin LockedAt
    BY <2>1, OthersOutside
  <2>3. /\ dispatch_thread' = 0 /\ pc' = [pc EXCEPT ![c] = "closing"]
        /\ UNCHANGED <<dispatcher, dispatch_stop, sock, opened, mixed>>
        /\ \/ dispatcher[dispatch_thread].at = "dead" /\ UNCHANGED <<expired, survivors>>
           \/ expired' = TRUE /\ survivors' = survivors \cup {dispatch_thread}
    BY <1>3 DEF JoinDispatcher, Goto, sockVars
  <2>8. dispatch_thread # 0
    BY <2>1 DEF ThreadsInv, SurvivorInv
  <2>4. /\ \A t \in Thread \ survivors' : dispatcher'[t].at = "dead"
        /\ expired => expired'
        /\ survivors' # {} => expired'
    BY <2>3 DEF ThreadsInv, CurrentInv, SurvivorInv
  <2>5. LocalsInv'
    <3>1. \A d \in Caller : pc'[d] # "connect"
      BY <1>0, <2>2, <2>3 DEF LockedAt
    <3> QED BY <2>3, <3>1 DEF LocalsInv
  <2>6. CurrentInv'
    BY <2>3, <2>4 DEF ThreadsInv, CurrentInv
  <2>7. SurvivorInv'
    <3>1. dispatch_stop' /\ \E d \in Caller : pc'[d] = "closing"
      BY <1>0, <2>1, <2>3 DEF ThreadsInv, SurvivorInv
    <3>2. 0 \notin survivors'
      BY <2>3, <2>8 DEF ThreadsInv, SurvivorInv
    <3>3. \A d \in Caller : pc'[d] # "join"
      BY <1>0, <2>2, <2>3 DEF LockedAt
    <3>4. dispatch_thread' = 0
      BY <2>3
    <3>5. survivors' # {} => expired'
      BY <2>4
    <3> QED BY <3>1, <3>2, <3>3, <3>4, <3>5 DEF SurvivorInv
  <2> QED BY <2>3, <2>4, <2>5, <2>6, <2>7 DEF ThreadsInv, MixedInv
<1>4. CASE CloseSession(c)
  <2>1. /\ dispatch_thread = 0 /\ sock' = 0 /\ mixed' = FALSE
        /\ UNCHANGED <<dispatcher, dispatch_thread, dispatch_stop, expired, survivors, opened>>
    BY <1>4 DEF CloseSession, ThreadsInv, LocalsInv
  <2>2. lock = c /\ pc[c] = "closing" /\ \E l : Goto(c, l) /\ l # "join"
    <3>1. lock = c /\ pc[c] = "closing"
      BY <1>4, LockedOwner DEF LockedStep, CloseSession
    <3> QED BY <1>4, <3>1, LockedGoes DEF CloseSession
  <2>3. \A t \in Thread \ survivors : dispatcher[t].at = "dead"
    BY <2>1 DEF ThreadsInv, CurrentInv
  <2>4. \A t \in Thread : ~ ReadsSession(t)'
    <3>1. 0 \notin 1 .. opened
      OBVIOUS
    <3> QED BY <2>1, <3>1 DEF ThreadsInv, CurrentInv, ReadsSession
  <2>5. \A d \in Caller : pc'[d] # "join"
    BY <1>0, <1>10, <2>2 DEF Goto, LockedAt
  <2>6. CurrentInv'
    <3>1. sock' <= opened'
      BY <1>0, <2>1
    <3>2. \A t \in Thread \ survivors' : dispatcher'[t].at = "dead"
      BY <2>1, <2>3
    <3>3. \A t \in Thread : dispatcher'[t].at \in {"read", "have", "lost"}
                                 => dispatcher'[t].session \in 1 .. opened'
      BY <2>1 DEF ThreadsInv, CurrentInv
    <3> QED BY Zenon, <3>1, <3>2, <3>3 DEF CurrentInv
  <2>7. LocalsInv' /\ SurvivorInv' /\ MixedInv'
    BY <2>1, <2>4, <2>5 DEF ThreadsInv, LocalsInv, SurvivorInv, MixedInv
  <2> QED BY <2>6, <2>7 DEF ThreadsInv
<1>5. CASE Connect(c)
  <2>1. lock = c /\ Goto(c, "login") /\ pc[c] = "connect"
    BY <1>5, LockedOwner DEF LockedStep, Connect
  <2>2. \A d \in Caller : d # c => pc'[d] \notin LockedAt
    BY <2>1, OthersOutside
  <2>3. sock = 0 /\ sock' = opened + 1 /\ opened' = opened + 1
        /\ UNCHANGED <<mixed, threadVars, dispatcher_requested>>
    BY <1>5 DEF Connect, ThreadsInv, LocalsInv, flagVars, threadVars
  <2>4. \A t \in Thread \ survivors : dispatcher[t].at \notin {"read", "have", "lost"}
    BY <1>0, <2>3 DEF ThreadsInv, CurrentInv
  <2>5. \A d \in Caller : pc'[d] \notin {"closing", "direct", "connect", "join"}
    BY <1>0, <2>1, <2>2 DEF Goto, LockedAt
  <2>6. dispatch_thread # 0 => dispatcher_requested
    <3>1. \A d \in Caller : pc[d] # "join"
      BY <1>10, <2>1 DEF LockedAt
    <3> QED BY <3>1 DEF ThreadsInv, LocalsInv
  <2>7. LocalsInv'
    BY <2>3, <2>5, <2>6 DEF LocalsInv, threadVars
  <2>8. /\ \A n \in 1 .. opened : n \in 1 .. opened' /\ n # sock'
        /\ sock' <= opened'
    BY <1>0, <2>3
  <2>9. CurrentInv'
    BY <2>3, <2>4, <2>8 DEF ThreadsInv, CurrentInv, threadVars
  <2>10. SurvivorInv'
    <3>1. \A t \in Thread : ~ ReadsSession(t)'
      BY <2>3, <2>8 DEF ThreadsInv, CurrentInv, ReadsSession, threadVars
    <3>2. dispatch_thread = 0 => ~ mixed
      <4>1. \A d \in Caller : pc[d] # "closing"
        BY <1>10, <2>1 DEF LockedAt
      <4> QED BY <4>1 DEF ThreadsInv, SurvivorInv
    <3> QED BY <2>3, <2>5, <3>1, <3>2 DEF ThreadsInv, SurvivorInv, threadVars
  <2> QED BY <2>3, <2>7, <2>9, <2>10 DEF ThreadsInv, MixedInv, threadVars
<1>6. ASSUME LockedStep(c), pc[c] # "join" PROVE dispatch_thread # 0 => dispatcher_requested
  <2>1. \A d \in Caller : pc[d] = "join" => lock = d
    BY DEF ControlInv, LockInv, LockedAt
  <2>2. lock = c
    BY <1>6, LockedOwner
  <2> QED BY <1>6, <2>1, <2>2 DEF ThreadsInv, LocalsInv
<1>7. CASE LoginRecv(c)
  <2>1. /\ lock = c /\ UNCHANGED <<sock, opened, mixed, dispatcher_requested>>
        /\ pc[c] = "login_recv"
    BY <1>7, LockedOwner DEF LockedStep, LoginRecv, sockVars
  <2>2. CASE ~ dispatcher_requested
    <3>1. dispatch_thread = 0
      BY <1>6, <1>7, <2>1, <2>2 DEF LockedStep
    <3>2. UNCHANGED threadVars /\ Goto(c, "direct")
      BY <1>7, <2>2 DEF LoginRecv
    <3>3. \A d \in Caller : pc'[d] \notin {"connect", "join", "closing"}
      <4>1. \A d \in Caller : d # c => pc'[d] \notin LockedAt
        BY <2>1, <3>2, OthersOutside
      <4> QED BY <1>0, <3>2, <4>1 DEF Goto, LockedAt
    <3>4. LocalsInv' /\ CurrentInv' /\ MixedInv'
      BY <2>1, <3>1, <3>2, <3>3 DEF ThreadsInv, LocalsInv, CurrentInv, MixedInv, threadVars
    <3>5. SurvivorInv'
      <4>1. \A d \in Caller : pc[d] # "closing"
        BY <1>10, <2>1 DEF LockedAt
      <4>2. \A t \in Thread : ReadsSession(t)' <=> ReadsSession(t)
        BY <2>1, <3>2 DEF ReadsSession, threadVars
      <4> QED BY <2>1, <3>2, <3>3, <4>1, <4>2 DEF ThreadsInv, SurvivorInv, threadVars
    <3> QED BY <3>4, <3>5 DEF ThreadsInv
  <2>3. CASE dispatcher_requested
    <3>1. StartDispatcher /\ Goto(c, "poll")
      BY <1>7, <2>3 DEF LoginRecv
    <3>2. CASE DispatcherActive
      BY <2>1, <2>3, <3>1, <3>2, ThreadsMoved DEF StartDispatcher
    <3>3. CASE ~ DispatcherActive
      <4>1. \A d \in Caller : pc'[d] \notin {"join", "closing", "direct"}
        <5>1. \A d \in Caller : d # c => pc'[d] \notin LockedAt
          BY <2>1, <3>1, OthersOutside
        <5> QED BY <1>0, <3>1, <5>1 DEF Goto, LockedAt
      <4> QED BY <2>1, <2>3, <3>1, <3>3, <4>1, ThreadsStarted DEF StartDispatcher
    <3> QED BY <3>2, <3>3
  <2> QED BY <2>2, <2>3
<1>8. CASE StartDispatching(c)
  <2>1. /\ lock = c /\ UNCHANGED <<sock, opened, mixed>> /\ dispatcher_requested' = TRUE /\ pc[c] = "dispatch"
        /\ StartDispatcher /\ Goto(c, "ready")
    BY <1>8, LockedOwner DEF LockedStep, StartDispatching, sockVars
  <2>2. CASE DispatcherActive
    BY <2>1, <2>2, ThreadsMoved DEF StartDispatcher
  <2>3. CASE ~ DispatcherActive
    <3>1. \A d \in Caller : pc'[d] \notin {"join", "closing", "direct"}
      <4>1. \A d \in Caller : d # c => pc'[d] \notin LockedAt
        BY <2>1, OthersOutside
      <4> QED BY <1>0, <2>1, <4>1 DEF Goto, LockedAt
    <3> QED BY <2>1, <2>3, <3>1, ThreadsStarted DEF StartDispatcher
  <2> QED BY <2>2, <2>3
<1>9. CASE EnsureDispatcherActive(c)
  <2>1. /\ UNCHANGED <<sock, opened, mixed, dispatcher_requested>> /\ pc[c] = "check" /\ Goto(c, "send")
    BY <1>9 DEF EnsureDispatcherActive, sockVars
  <2>2. CASE dispatcher_requested /\ ~ DispatcherActive
    <3>1. lock = None /\ StartThread
      BY <1>9, <2>2 DEF EnsureDispatcherActive
    <3>2. \A d \in Caller : pc'[d] \notin {"join", "closing", "direct"}
      <4>1. \A d \in Caller : pc[d] \notin LockedAt
        BY <3>1 DEF ControlInv, LockInv
      <4> QED BY <1>0, <2>1, <4>1 DEF Goto, LockedAt
    <3> QED BY <2>1, <2>2, <3>1, <3>2, ThreadsStarted
  <2>3. CASE ~ (dispatcher_requested /\ ~ DispatcherActive)
    <3>1. UNCHANGED threadVars
      BY <1>9, <2>3 DEF EnsureDispatcherActive
    <3> QED BY <2>1, <3>1, ThreadsMoved
  <2> QED BY <2>2, <2>3
<1> QED
  BY <1>1, <1>2, <1>3, <1>4, <1>5, <1>7, <1>8, <1>9 DEF CallerStep, LockedStep, Elsewhere

LEMMA ThreadsDispatcher ==
  ASSUME TransitInv, ThreadsInv, NEW t \in Thread, DispatcherStep(t)
  PROVE  ThreadsInv'
<1>1. /\ dispatcher \in [Thread -> [at : {"loop", "read", "have", "lost", "fatal", "dead"},
                                    session : Session, message : Message \cup {NoMessage}]]
      /\ sock \in Nat /\ opened \in Nat
  BY DEF TransitInv, DispatcherType, SessionType, Session
<1>2. UNCHANGED <<sock, opened, dispatch_thread, dispatch_stop, dispatcher_requested,
                  expired, survivors, pc>>
  BY DEF DispatcherStep, DispatchLoop, DispatchRecv, DispatchTimeout, DispatchEof, DispatchMessage,
         DispatchFails, DispatcherUnchanged, sockVars, flagVars, envVars
<1>3. PICK d : /\ dispatcher' = [dispatcher EXCEPT ![t] = d]
               /\ d.at \in {"read", "have", "lost"} =>
                     \/ d.session = sock /\ sock # 0
                     \/ dispatcher[t].at = "read" /\ d.session = dispatcher[t].session
               /\ d.at = "read" => dispatcher[t].at = "loop" /\ ~ dispatch_stop
  <2>1. Dead = [at |-> "dead", session |-> 0, message |-> NoMessage]
    BY DEF Dead
  <2>2. CASE DispatchLoop(t)
    <3> DEFINE d == IF dispatch_stop THEN Dead
                    ELSE [Dead EXCEPT !.at = IF sock = 0 THEN "fatal" ELSE "read", !.session = sock]
    <3>1. dispatcher' = [dispatcher EXCEPT ![t] = d] /\ dispatcher[t].at = "loop"
      BY <2>2 DEF DispatchLoop
    <3>2. /\ d.at \in {"read", "have", "lost"} => d.session = sock /\ sock # 0
          /\ d.at = "read" => ~ dispatch_stop
      BY <2>1
    <3> HIDE DEF d
    <3> QED BY <3>1, <3>2
  <2>3. CASE DispatchTimeout(t) \/ DispatchMessage(t) \/ DispatchFails(t)
    BY <2>1, <2>3 DEF DispatchTimeout, DispatchMessage, DispatchFails
  <2>4. ASSUME NEW l \in {"have", "fatal", "lost"}, NEW m, dispatcher[t].at = "read",
               dispatcher' = [dispatcher EXCEPT ![t] = [dispatcher[t] EXCEPT !.at = l, !.message = m]]
        PROVE  \E d : /\ dispatcher' = [dispatcher EXCEPT ![t] = d]
                      /\ d.session = dispatcher[t].session /\ d.at # "read"
    <3> DEFINE d == [dispatcher[t] EXCEPT !.at = l, !.message = m]
    <3>1. d.session = dispatcher[t].session /\ d.at # "read"
      BY <1>1
    <3>2. dispatcher' = [dispatcher EXCEPT ![t] = d]
      BY <2>4
    <3> HIDE DEF d
    <3> QED BY <3>1, <3>2
  <2>5. CASE DispatchRecv(t)
    <3>1. \E l \in {"have", "fatal"} : \E m :
             dispatcher' = [dispatcher EXCEPT ![t] = [dispatcher[t] EXCEPT !.at = l, !.message = m]]
      <4>1. ASSUME NEW m, dispatcher' = [dispatcher EXCEPT ![t].at = "have", ![t].message = m]
            PROVE  dispatcher' = [dispatcher EXCEPT ![t] =
                                    [dispatcher[t] EXCEPT !.at = "have", !.message = m]]
        BY <1>1, <4>1
      <4>2. ASSUME dispatcher' = [dispatcher EXCEPT ![t].at = "fatal"]
            PROVE  dispatcher' = [dispatcher EXCEPT ![t] =
                       [dispatcher[t] EXCEPT !.at = "fatal", !.message = dispatcher[t].message]]
        BY <1>1, <4>2
      <4> QED BY <2>5, <4>1, <4>2 DEF DispatchRecv
    <3>2. dispatcher[t].at = "read"
      BY <2>5 DEF DispatchRecv, ReadsSession
    <3> QED BY <2>4, <3>1, <3>2
  <2>6. CASE DispatchEof(t)
    <3>1. dispatcher[t].at = "read"
          /\ dispatcher' = [dispatcher EXCEPT ![t] =
                 [dispatcher[t] EXCEPT !.at = "lost", !.message = dispatcher[t].message]]
      BY <1>1, <2>6 DEF DispatchEof
    <3> QED BY <2>4, <3>1
  <2> QED BY <2>2, <2>3, <2>5, <2>6 DEF DispatcherStep
<1>4. dispatcher[t].at # "dead"
  BY DEF DispatcherStep, DispatchLoop, DispatchRecv, DispatchTimeout, DispatchEof, DispatchMessage,
         DispatchFails, Error, ReadsSession
<1>5. t \notin survivors => dispatch_thread = t
  BY <1>4 DEF ThreadsInv, CurrentInv
<1>6. \A u \in Thread : dispatcher'[u] = IF u = t THEN d ELSE dispatcher[u]
  BY <1>1, <1>3
<1>7. CurrentInv'
  <2>1. /\ sock # 0 => sock \in 1 .. opened
        /\ d.at \in {"read", "have", "lost"} =>
             d.session \in 1 .. opened /\ (t \notin survivors => d.session = sock)
    BY <1>1, <1>3 DEF ThreadsInv, CurrentInv
  <2> QED BY <1>2, <1>5, <1>6, <2>1 DEF ThreadsInv, CurrentInv
<1>8. LocalsInv'
  BY <1>2 DEF ThreadsInv, LocalsInv
<1>9. ASSUME NEW u \in Thread, ReadsSession(u)'
      PROVE  ReadsSession(u) \/ (u = t /\ dispatcher[t].at = "loop" /\ ~ dispatch_stop)
  BY <1>2, <1>3, <1>6, <1>9 DEF ReadsSession
<1>10. mixed' => mixed \/ (dispatcher[t].at = "loop" /\ ~ dispatch_stop
                              /\ \E u \in Thread : ReadsSession(u))
  <2>1. CASE DispatchLoop(t)
    BY <2>1, Zenon DEF DispatchLoop
  <2>2. CASE ~ DispatchLoop(t)
    <3>1. UNCHANGED mixed
      BY <2>2 DEF DispatcherStep, DispatchRecv, DispatchTimeout, DispatchEof, DispatchMessage,
         DispatchFails, DispatcherUnchanged, envVars
    <3> QED BY <3>1
  <2> QED BY <2>1, <2>2
<1>11. MixedInv'
  <2>1. CASE mixed
    BY <1>2, <2>1 DEF ThreadsInv, MixedInv
  <2>2. CASE ~ mixed
    <3> SUFFICES ASSUME mixed' PROVE survivors # {}
      BY <1>2 DEF ThreadsInv, SurvivorInv, MixedInv
    <3>1. PICK u \in Thread : dispatcher[t].at = "loop" /\ ReadsSession(u)
      BY <1>10, <2>2
    <3>2. u # t /\ dispatcher[u].at # "dead"
      BY <3>1 DEF ReadsSession
    <3> QED BY <1>5, <3>2 DEF ThreadsInv, CurrentInv
  <2> QED BY <2>1, <2>2
<1>12. SurvivorInv'
  <2>1. dispatch_thread = 0 => dispatch_stop
    BY <1>5 DEF ThreadsInv, SurvivorInv
  <2>2. /\ dispatch_thread = 0 => (mixed' => mixed)
        /\ \A u \in Thread : dispatch_thread = 0 /\ ReadsSession(u)' => ReadsSession(u)
    BY <1>9, <1>10, <2>1
  <2> QED BY <1>2, <2>2 DEF ThreadsInv, SurvivorInv
<1> QED BY <1>7, <1>8, <1>11, <1>12 DEF ThreadsInv

LEMMA ThreadsNext == ControlInv /\ TransitInv /\ ThreadsInv /\ [Next]_vars => ThreadsInv'
<1> SUFFICES ASSUME ControlInv, TransitInv, ThreadsInv, [Next]_vars PROVE ThreadsInv'
  OBVIOUS
<1>1. CASE Environment \/ UNCHANGED vars
  <2>1. UNCHANGED <<sock, opened, mixed, dispatch_thread, dispatch_stop, dispatcher_requested,
                    dispatcher, expired, survivors, pc>>
    BY <1>1
    DEF Environment, CameraAnswersLogin, CameraReportsBattery, CameraAnswers, ConnectionBreaks,
        Outside, vars, sockVars, flagVars, envVars
  <2> QED
    BY <2>1 DEF ThreadsInv, CurrentInv, LocalsInv, SurvivorInv, MixedInv, ReadsSession
<1> QED BY <1>1, ThreadsCaller, ThreadsDispatcher DEF Next

LEMMA InitThreads == Init => ThreadsInv
<1> SUFFICES ASSUME Init PROVE ThreadsInv
  OBVIOUS
<1>1. \A t \in Thread : dispatcher[t].at = "dead"
  BY DEF Init, Dead
<1> QED
  BY <1>1 DEF Init, ThreadsInv, CurrentInv, LocalsInv, SurvivorInv, MixedInv, ReadsSession

\* With at most one live dispatcher besides those given up, and none while a login reads, a
\* connection has one reader.
LEMMA ReadersOne == ControlInv /\ TransitInv /\ ThreadsInv => OneReader
<1> SUFFICES ASSUME ControlInv, TransitInv, ThreadsInv PROVE OneReader
  OBVIOUS
<1> DEFINE Threads == {t \in Thread \ survivors : ReadsSession(t)}
           Callers == {c \in Caller : pc[c] = "direct"}
<1>1. \A t \in Threads : t = dispatch_thread /\ dispatch_thread # 0
  BY DEF ReadsSession, ThreadsInv, CurrentInv
<1>2. \A c \in Callers : c = lock /\ dispatch_thread = 0
  BY DEF ControlInv, LockInv, LockedAt, ThreadsInv, LocalsInv
<1>3. PICK x : Threads \cup Callers \subseteq {x}
  <2> HIDE DEF Threads, Callers
  <2>1. CASE Threads = {}
    BY <1>2, <2>1
  <2>2. CASE Threads # {}
    <3>1. PICK y \in Threads : TRUE
      BY <2>2
    <3>2. Callers = {}
      BY <1>1, <1>2, <3>1
    <3> QED BY <1>1, <3>2
  <2> QED BY <2>1, <2>2
<1>4. IsFiniteSet({x}) /\ Cardinality({x}) = 1
  BY FS_Singleton
<1>5. Cardinality(Threads \cup Callers) <= Cardinality({x})
  <2> HIDE DEF Threads, Callers
  <2> QED BY <1>3, <1>4, FS_Subset
<1>6. ASSUME NEW c \in Caller, pc[c] = "direct"
      PROVE  ~ mixed /\ ~ \E t \in Thread : ReadsSession(t)
  <2>1. dispatch_thread = 0 /\ lock = c
    BY <1>2, <1>6
  <2>2. \A d \in Caller : pc[d] # "closing"
    BY <1>6, <2>1 DEF ControlInv, LockInv, LockedAt
  <2> QED BY <2>1, <2>2 DEF ThreadsInv, SurvivorInv
<1> QED BY <1>4, <1>5, <1>6 DEF OneReader

LEMMA NoneStale == ThreadsInv => OnlySurvivorsAreStale
  BY DEF ThreadsInv, CurrentInv, OnlySurvivorsAreStale

\* The invariant of all that does not concern the readiness of a session.
SafeInv == ControlInv /\ TransitInv /\ ThreadsInv

LEMMA SafeNext == SafeInv /\ [Next]_vars => SafeInv'
  BY ControlNext, TransitNext, ThreadsNext DEF SafeInv, ThreadsInv

LEMMA InitSafe == Init => SafeInv
  BY InitControl, InitTransit, InitThreads DEF SafeInv

\* Whichever threads stop, start and replace dispatchers and connections, and whether or not a
\* dispatcher ends within the two seconds stop_dispatcher() waits for it (camera.py:
\* stop_dispatcher, _dispatch_loop): a connection has one reader, and no dispatcher of an earlier
\* one is left, but for those that the join gave up in the middle of a message.
THEOREM OneReaderEver == Spec => []SessionInv
<1>1. SafeInv => SessionInv
  BY TypesHold, ReadersOne, NoneStale DEF SessionInv, SafeInv, ThreadsInv, SurvivorInv
<1> QED BY <1>1, InitSafe, SafeNext, PTL DEF Spec

\* However commands of several threads, late replies and reconnects mix, command() returns
\* the reply to its own request (camera.py, _MessageExchange over the dispatcher's routes):
\* its number is new when it subscribes, so that nothing already received can match it.  The
\* reply is whole unless a join gave up before.
THEOREM OwnReply == Spec => []ReplyIsOwn
<1> DEFINE Inv == SafeInv /\ ReplyIsOwn
<1>1. Init => Inv
  BY InitSafe DEF Init, ReplyIsOwn
<1>2. Inv /\ [Next]_vars => Inv'
  BY SafeNext, OwnNext DEF SafeInv
<1>3. Inv => ReplyIsOwn
  OBVIOUS
<1> QED BY <1>1, <1>2, <1>3, PTL DEF Spec

\* The types hold whatever happens, and the lock with what its owner does: a thread is
\* between the acquisition of _reconnect_lock and its release exactly while it holds it,
\* and no more message numbers are taken than there are attempts.
THEOREM LockHeld == Spec => [](TypeOK /\ LockInv /\ CountInv)
<1>1. SafeInv => TypeOK /\ LockInv /\ CountInv
  BY TypesHold DEF SafeInv, ControlInv, ThreadsInv, SurvivorInv
<1> QED BY <1>1, InitSafe, SafeNext, PTL DEF Spec

(***************************************************************************)
(* The BatteryList that makes a battery camera ready.                       *)
(***************************************************************************)

NoReport(w) == \A i \in 1 .. Len(w) : w[i] # BatteryList

AtMostOneReport(w) ==
    \A i, j \in 1 .. Len(w) : w[i] = BatteryList /\ w[j] = BatteryList => i = j

\* A dispatcher has the current connection's BatteryList.
HasReport(t) ==
    dispatcher[t].at = "have" /\ dispatcher[t].message = BatteryList /\ dispatcher[t].session = sock

\* A connection carries one BatteryList at most: still in transit, in the hands of a
\* dispatcher of it, or read.
EventInv ==
    /\ AtMostOneReport(wire)
    /\ ~ cam_reported => NoReport(wire)
    /\ \A t \in Thread : HasReport(t) => cam_reported /\ NoReport(wire)

Ready == login_xml /\ readiness_required /\ session_ready /\ ~ late_report

LEMMA ReportTail ==
  ASSUME NEW w \in Seq(Known), w # <<>>
  PROVE  /\ NoReport(w) => NoReport(Tail(w)) /\ Head(w) # BatteryList
         /\ AtMostOneReport(w) => AtMostOneReport(Tail(w))
         /\ AtMostOneReport(w) /\ Head(w) = BatteryList => NoReport(Tail(w))
<1>1. /\ Len(w) \in Nat /\ Len(w) # 0 /\ Head(w) = w[1] /\ Len(Tail(w)) = Len(w) - 1
      /\ \A i \in 1 .. Len(Tail(w)) : Tail(w)[i] = w[i + 1]
  BY HeadTailProperties, EmptySeq
<1> DEFINE n == Len(w)
           v == Tail(w)
<1> HIDE DEF n, v
<1>2. n \in Nat /\ n # 0 /\ Len(v) = n - 1 /\ \A i \in 1 .. n - 1 : v[i] = w[i + 1]
  BY <1>1 DEF n, v
<1>3. \A i \in 1 .. n - 1 : i \in Int /\ i + 1 \in 1 .. n /\ i + 1 # 1 /\ 1 \in 1 .. n
  BY <1>2
<1>4. NoReport(w) => NoReport(v) /\ w[1] # BatteryList
  <2>1. 1 \in 1 .. n
    BY <1>2
  <2> QED BY <1>2, <1>3, <2>1 DEF NoReport, n
<1>5. ASSUME AtMostOneReport(w) PROVE AtMostOneReport(v)
  <2> SUFFICES ASSUME NEW i \in 1 .. n - 1, NEW j \in 1 .. n - 1,
                      v[i] = BatteryList, v[j] = BatteryList
               PROVE  i = j
    BY <1>2 DEF AtMostOneReport
  <2>1. w[i + 1] = BatteryList /\ w[j + 1] = BatteryList
    BY <1>2
  <2>2. i + 1 = j + 1
    BY <1>3, <1>5, <2>1 DEF AtMostOneReport, n
  <2> QED BY <1>3, <2>2
<1>6. ASSUME AtMostOneReport(w), w[1] = BatteryList PROVE NoReport(v)
  <2> SUFFICES ASSUME NEW i \in 1 .. n - 1, v[i] = BatteryList PROVE FALSE
    BY <1>2 DEF NoReport
  <2>1. w[i + 1] = BatteryList
    BY <1>2
  <2>2. i + 1 = 1
    BY <1>3, <1>6, <2>1 DEF AtMostOneReport, n
  <2> QED BY <1>3, <2>2
<1> QED BY <1>1, <1>4, <1>5, <1>6 DEF v

LEMMA ReportAppend ==
  ASSUME NEW w \in Seq(Known), NEW m \in Known
  PROVE  /\ NoReport(w) => AtMostOneReport(Append(w, m))
         /\ NoReport(w) /\ m # BatteryList => NoReport(Append(w, m))
         /\ AtMostOneReport(w) /\ m # BatteryList => AtMostOneReport(Append(w, m))
<1> DEFINE n == Len(w)
           v == Append(w, m)
<1>1. n \in Nat /\ Len(v) = n + 1 /\ v[n + 1] = m /\ \A i \in 1 .. n : v[i] = w[i]
  BY AppendProperties, LenProperties
<1> HIDE DEF v, n
<1>2. \A i \in 1 .. n + 1 : i = n + 1 \/ i \in 1 .. n
  BY <1>1
<1>3. NoReport(w) /\ m # BatteryList => NoReport(v)
  BY <1>1, <1>2 DEF NoReport, n
<1>4. NoReport(w) => AtMostOneReport(v)
  BY <1>1, <1>2 DEF NoReport, AtMostOneReport, n
<1>5. AtMostOneReport(w) /\ m # BatteryList => AtMostOneReport(v)
  BY <1>1, <1>2 DEF AtMostOneReport, n
<1> QED BY <1>3, <1>4, <1>5 DEF v

LEMMA ReportNone == NoReport(<<>>) /\ AtMostOneReport(<<>>)
  BY EmptySeq DEF NoReport, AtMostOneReport

LEMMA FreshIs ==
  ReadyIsFresh <=> (Ready => cam_reported /\ NoReport(wire))
  BY DEF ReadyIsFresh, NoReport, Ready

\* Steps that neither read nor add a message.
LEMMA EventUnmoved ==
  ASSUME EventInv, ReadyIsFresh, UNCHANGED <<wire, cam_reported>>,
         \A t \in Thread : HasReport(t)' => HasReport(t),
         Ready' => Ready \/ (cam_reported /\ NoReport(wire))
  PROVE  EventInv' /\ ReadyIsFresh'
<1>1. EventInv'
  BY DEF EventInv
<1>2. Ready' => cam_reported' /\ NoReport(wire)
  BY FreshIs
<1> QED BY <1>1, <1>2 DEF ReadyIsFresh, NoReport, Ready

\* Threads and a connection as they were.
LEMMA ReportsUnmoved ==
  ASSUME TransitInv,
         UNCHANGED <<login_xml, readiness_required, session_ready, late_report>>,
         UNCHANGED sock, StartThread \/ UNCHANGED dispatcher
  PROVE  (\A t \in Thread : HasReport(t)' => HasReport(t)) /\ (Ready' => Ready)
<1>1. Ready' => Ready
  BY DEF Ready
<1>2. ASSUME NEW t \in Thread, HasReport(t)' PROVE HasReport(t)
  BY <1>2 DEF StartThread, TransitInv, DispatcherType, HasReport
<1> QED BY <1>1, <1>2

LEMMA EventCaller ==
  ASSUME ControlInv, TransitInv, ThreadsInv, EventInv, ReadyIsFresh, NEW c \in Caller, CallerStep(c)
  PROVE  EventInv' /\ ReadyIsFresh'
<1>0. BatteryCamera \in BOOLEAN /\ login_xml \in BOOLEAN /\ readiness_required \in BOOLEAN
      /\ session_ready \in BOOLEAN /\ late_report \in BOOLEAN
      /\ sock \in Nat /\ opened \in Nat
  BY DEF TransitInv, SessionType, Session
<1>1. CASE CloseSession(c)
  <2>1. wire' = <<>> /\ login_xml' = FALSE /\ dispatcher' = dispatcher /\ sock' = 0
    BY <1>1 DEF CloseSession
  <2>2. \A t \in Thread : ~ HasReport(t)'
    BY <1>0, <2>1 DEF ThreadsInv, CurrentInv, HasReport
  <2> QED BY <2>1, <2>2, ReportNone DEF EventInv, ReadyIsFresh
<1>2. ASSUME NEW m, LoginReplied(c, m) PROVE Ready' => Ready
  BY <1>0, <1>2, Zenon DEF LoginReplied, LoggedIn, Ready
<1>3. CASE LoginReadsSocket(c)
  <2>1. wire \in Seq(Known) /\ wire # <<>> /\ wire' = Tail(wire) /\ UNCHANGED <<cam_reported, dispatcher, sock>>
    BY <1>3 DEF TransitInv, RoutesInv, LoginReadsSocket
  <2>2. \A t \in Thread : HasReport(t)' => HasReport(t)
    BY <2>1 DEF HasReport
  <2>3. EventInv'
    BY <2>1, <2>2, ReportTail DEF EventInv
  <2>4. Ready' => cam_reported' /\ NoReport(wire')
    BY <1>2, <1>3, <2>1, ReportTail, FreshIs DEF LoginReadsSocket
  <2> QED BY <2>3, <2>4 DEF ReadyIsFresh, NoReport, Ready
<1>4. CASE LoginReadsUnmatched(c)
  <2>1. \A t \in Thread : HasReport(t)' => HasReport(t)
    BY <1>4 DEF LoginReadsUnmatched, HasReport
  <2>2. Ready' => Ready
    BY <1>2, <1>4 DEF LoginReadsUnmatched
  <2> QED BY <1>4, <2>1, <2>2, EventUnmoved DEF LoginReadsUnmatched, envVars
<1>5. CASE LoginRecv(c) \/ StartDispatching(c) \/ EnsureDispatcherActive(c)
  <2>1. StartThread \/ UNCHANGED dispatcher
    BY <1>5 DEF LoginRecv, StartDispatching, EnsureDispatcherActive, StartDispatcher, threadVars
  <2>2. UNCHANGED <<sock, wire, cam_reported, login_xml, readiness_required, session_ready, late_report>>
    BY <1>5 DEF LoginRecv, StartDispatching, EnsureDispatcherActive, envVars, sockVars
  <2> QED BY <2>1, <2>2, ReportsUnmoved, EventUnmoved
<1>6. CASE Connect(c)
  <2>1. /\ UNCHANGED <<wire, cam_reported, dispatcher>> /\ sock' = opened + 1
        /\ UNCHANGED <<login_xml, readiness_required, session_ready, late_report>>
    BY <1>6 DEF Connect
  <2>2. \A n \in 1 .. opened : n # sock'
    BY <1>0, <2>1
  <2>3. \A t \in Thread : ~ HasReport(t)'
    BY <2>1, <2>2 DEF HasReport, ThreadsInv, CurrentInv
  <2> QED BY <2>1, <2>3, EventUnmoved DEF Ready
<1>7. CASE \/ EnsureConnected(c) \/ Reconnect(c) \/ Close(c) \/ ConnectFails(c) \/ Login(c)
           \/ LoginRaises(c) \/ SessionReady(c) \/ SessionReadyTimeout(c)
           \/ StopDispatcher(c) \/ JoinDispatcher(c)
           \/ Subscribe(c) \/ Send(c) \/ SendRaises(c) \/ RecvReply(c) \/ RecvRaises(c)
  <2>1. UNCHANGED <<sock, wire, cam_reported, dispatcher, login_xml, readiness_required,
                    session_ready, late_report>>
    BY <1>7
    DEF EnsureConnected, Reconnect, Close, ConnectFails, Login, LoginRaises, SessionReady,
        SessionReadyTimeout, StopDispatcher, JoinDispatcher, Subscribe, Send, SendRaises,
        RecvReply, RecvRaises, envVars, sockVars
  <2> QED BY <2>1, ReportsUnmoved, EventUnmoved
<1> QED
  BY <1>1, <1>3, <1>4, <1>5, <1>6, <1>7 DEF CallerStep, LockedStep

LEMMA EventDispatcher ==
  ASSUME ControlInv, TransitInv, ThreadsInv, EventInv, ReadyIsFresh, NEW t \in Thread, DispatcherStep(t)
  PROVE  EventInv' /\ ReadyIsFresh'
<1> USE DEF DispatcherUnchanged, sockVars, envVars
<1>1. /\ dispatcher \in [Thread -> [at : {"loop", "read", "have", "lost", "fatal", "dead"},
                                    session : Session, message : Message \cup {NoMessage}]]
      /\ session_ready \in BOOLEAN
  BY DEF TransitInv, DispatcherType, SessionType
<1>2. CASE DispatchLoop(t) \/ DispatchTimeout(t) \/ DispatchEof(t) \/ DispatchFails(t)
  <2>1. Dead = [at |-> "dead", session |-> 0, message |-> NoMessage]
    BY DEF Dead
  <2>2. PICK d : dispatcher' = [dispatcher EXCEPT ![t] = d] /\ d.at # "have"
    <3>1. CASE DispatchLoop(t)
      <4> DEFINE d == IF dispatch_stop THEN Dead
                      ELSE [Dead EXCEPT !.at = IF sock = 0 THEN "fatal" ELSE "read", !.session = sock]
      <4>1. dispatcher' = [dispatcher EXCEPT ![t] = d]
        BY <3>1 DEF DispatchLoop
      <4>2. d.at # "have"
        BY <2>1
      <4> HIDE DEF d
      <4> QED BY <4>1, <4>2
    <3>2. CASE DispatchTimeout(t) \/ DispatchFails(t)
      BY <2>1, <3>2 DEF DispatchTimeout, DispatchFails
    <3>3. CASE DispatchEof(t)
      <4>1. [dispatcher[t] EXCEPT !.at = "lost"].at # "have"
        BY <1>1
      <4> QED BY <3>3, <4>1 DEF DispatchEof
    <3> QED BY <1>2, <3>1, <3>2, <3>3
  <2>3. UNCHANGED <<sock, wire, cam_reported, login_xml, readiness_required, session_ready, late_report>>
    BY <1>2 DEF DispatchLoop, DispatchTimeout, DispatchEof, DispatchFails
  <2>4. \A u \in Thread : HasReport(u)' => HasReport(u)
    BY <1>1, <2>2, <2>3 DEF HasReport
  <2> QED BY <2>3, <2>4, EventUnmoved DEF Ready
<1>3. CASE DispatchRecv(t)
  <2>1. /\ wire \in Seq(Known) /\ wire # <<>> /\ wire' = Tail(wire)
        /\ UNCHANGED <<sock, cam_reported, login_xml, readiness_required, session_ready, late_report>>
    BY <1>3 DEF TransitInv, RoutesInv, DispatchRecv
  <2>2. ASSUME NEW u \in Thread, HasReport(u)' PROVE HasReport(u) \/ Head(wire) = BatteryList
    <3>1. Head(wire) \in Known /\ (mixed => expired)
      BY <2>1, HeadTailProperties DEF ThreadsInv, MixedInv
    <3>2. mixed => (Torn(Head(wire)) = BatteryList <=> Head(wire) = BatteryList)
      BY <3>1, TornKnown
    <3>3. CASE u = t
      <4>1. dispatcher'[t].at = "have" /\ dispatcher'[t].message = BatteryList
        BY <2>2, <3>3 DEF HasReport
      <4>2. \/ dispatcher'[t].message = Head(wire)
            \/ mixed /\ dispatcher'[t].message = Torn(Head(wire))
            \/ dispatcher'[t].at = "fatal"
        <5>1. ASSUME NEW m, dispatcher' = [dispatcher EXCEPT ![t].at = "have", ![t].message = m]
              PROVE  dispatcher'[t].message = m
          BY <1>1, <5>1
        <5>2. ASSUME dispatcher' = [dispatcher EXCEPT ![t].at = "fatal"]
              PROVE  dispatcher'[t].at = "fatal"
          BY <1>1, <5>2
        <5> QED BY <1>3, <5>1, <5>2 DEF DispatchRecv
      <4> QED BY <3>2, <4>1, <4>2
    <3>4. CASE u # t
      <4>1. dispatcher'[u] = dispatcher[u]
        BY <1>1, <1>3, <3>4 DEF DispatchRecv
      <4> QED BY <2>1, <2>2, <4>1 DEF HasReport
    <3> QED BY <3>3, <3>4
  <2>3. Head(wire) = BatteryList => cam_reported /\ NoReport(Tail(wire))
    BY <2>1, ReportTail DEF EventInv
  <2>4. EventInv'
    BY <2>1, <2>2, <2>3, ReportTail DEF EventInv
  <2>5. Ready' => cam_reported' /\ NoReport(wire')
    BY <2>1, ReportTail, FreshIs DEF Ready
  <2> QED BY <2>4, <2>5 DEF ReadyIsFresh, NoReport, Ready
<1>4. CASE DispatchMessage(t)
  <2>1. /\ session_ready' = (session_ready \/ dispatcher[t].message = BatteryList)
        /\ late_report' = (late_report \/ (dispatcher[t].message = BatteryList
                                             /\ dispatcher[t].session # sock))
        /\ UNCHANGED <<sock, wire, cam_reported, login_xml, readiness_required>>
        /\ dispatcher[t].at = "have"
    BY <1>4 DEF DispatchMessage
  <2>2. HasReport(t) => cam_reported /\ NoReport(wire)
    BY DEF EventInv
  <2>3. Dead = [at |-> "dead", session |-> 0, message |-> NoMessage]
    BY DEF Dead
  <2>4. ASSUME NEW u \in Thread, HasReport(u)' PROVE HasReport(u)
    BY <1>1, <1>4, <2>1, <2>3, <2>4 DEF DispatchMessage, HasReport
  <2>5. Ready' => Ready \/ HasReport(t)
    BY <2>1, Zenon DEF Ready, HasReport
  <2> QED BY <2>1, <2>2, <2>4, <2>5, EventUnmoved
<1> QED BY <1>2, <1>3, <1>4 DEF DispatcherStep

LEMMA EventEnvironment ==
  ASSUME ControlInv, TransitInv, EventInv, ReadyIsFresh, Environment
  PROVE  EventInv' /\ ReadyIsFresh'
<1>1. /\ UNCHANGED <<dispatcher, sock, login_xml, readiness_required, session_ready, late_report>>
      /\ wire \in Seq(Known)
  BY DEF Environment, CameraAnswersLogin, CameraReportsBattery, CameraAnswers, ConnectionBreaks,
         Outside, sockVars, TransitInv, RoutesInv
<1>2. msg_num \in Nat
  BY ExchangeFinite DEF ControlInv, ControlType, Num
<1>8. (\A t \in Thread : HasReport(t)' => HasReport(t)) /\ (Ready' => Ready)
  BY <1>1 DEF HasReport, Ready
<1>3. /\ LoginReply(sock) \in Known /\ LoginReply(sock) # BatteryList /\ BatteryList \in Known
      /\ \A n \in cam_requests : /\ [kind |-> "reply", num |-> n] \in Known
                                 /\ [kind |-> "reply", num |-> n] # BatteryList
  BY <1>2, MessageCases
  DEF Known, Numbered, LoginReply, BatteryList, TransitInv, SessionType, RouteType, RoutesInv
<1>4. CASE CameraReportsBattery
  <2>1. /\ ~ cam_reported /\ cam_reported' = TRUE /\ wire' = Append(wire, BatteryList)
    BY <1>4 DEF CameraReportsBattery, CameraSends
  <2>2. NoReport(wire) /\ \A t \in Thread : ~ HasReport(t)
    BY <2>1 DEF EventInv
  <2>3. EventInv'
    BY <1>1, <1>3, <1>8, <2>1, <2>2, ReportAppend DEF EventInv
  <2>4. ~ Ready
    BY <2>1, FreshIs
  <2> QED BY <1>1, <1>8, <2>3, <2>4 DEF ReadyIsFresh, Ready
<1>5. ASSUME NEW m \in Known, m # BatteryList, wire' = Append(wire, m), UNCHANGED cam_reported
      PROVE  EventInv' /\ ReadyIsFresh'
  <2>1. EventInv'
    BY <1>1, <1>5, <1>8, ReportAppend DEF EventInv
  <2>2. Ready' => cam_reported' /\ NoReport(wire')
    BY <1>1, <1>5, <1>8, ReportAppend, FreshIs
  <2> QED BY <2>1, <2>2 DEF ReadyIsFresh, NoReport, Ready
<1>6. CASE CameraAnswersLogin \/ \E n \in cam_requests : CameraAnswers(n)
  BY <1>3, <1>5, <1>6 DEF CameraAnswersLogin, CameraAnswers, CameraSends
<1>7. CASE ConnectionBreaks
  <2>1. (wire' = wire \/ wire' = <<>>) /\ UNCHANGED cam_reported
    BY <1>7 DEF ConnectionBreaks
  <2>2. EventInv'
    BY <1>1, <1>8, <2>1, ReportNone DEF EventInv
  <2>3. Ready' => cam_reported' /\ NoReport(wire')
    BY <1>1, <1>8, <2>1, ReportNone, FreshIs
  <2> QED BY <2>2, <2>3 DEF ReadyIsFresh, NoReport, Ready
<1> QED BY <1>4, <1>6, <1>7 DEF Environment

\* A battery camera counts as ready only by the BatteryList of this very connection (camera.py:
\* login, _dispatch_message, _wait_for_session_ready): the event is cleared by the login, and after
\* it set by another connection's only if a dispatcher left from that one hands it out then.
THEOREM ReadinessFresh == Spec => []ReadyIsFresh
<1> DEFINE Inv == SafeInv /\ EventInv /\ ReadyIsFresh
<1>1. Init => Inv
  <2>1. Init => EventInv /\ ReadyIsFresh
    BY ReportNone DEF Init, Dead, EventInv, HasReport, ReadyIsFresh
  <2> QED BY <2>1, InitSafe
<1>2. Inv /\ [Next]_vars => Inv'
  <2> SUFFICES ASSUME Inv, [Next]_vars PROVE Inv'
    OBVIOUS
  <2>1. EventInv' /\ ReadyIsFresh'
    <3>1. CASE UNCHANGED vars
      BY <3>1 DEF vars, envVars, sockVars, EventInv, HasReport, ReadyIsFresh, NoReport, AtMostOneReport
    <3> QED BY <3>1, EventCaller, EventDispatcher, EventEnvironment DEF Next, SafeInv
  <2> QED BY <2>1, SafeNext
<1>3. Inv => ReadyIsFresh
  OBVIOUS
<1> QED BY <1>1, <1>2, <1>3, PTL DEF Spec

=============================================================================
