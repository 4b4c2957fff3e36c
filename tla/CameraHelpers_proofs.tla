------------------------ MODULE CameraHelpers_proofs ------------------------
(***************************************************************************)
(* Machine-checked proofs about CameraHelpers, for any number of listeners, *)
(* pollers, talkers and faults.  The lease and the talk channel are apart:  *)
(*   Steps      what every step does to the places and the lease;           *)
(*   LeaseInv   the counter against those who have entered (LeasesCounted); *)
(*   SeenInv    what a poller that closes has seen (SeenLeasesKept);        *)
(*   TalkInv    what the owner of the talk channel has (ChannelReleased).   *)
(***************************************************************************)
EXTENDS CameraHelpers, FiniteSetTheorems, TLAPS

USE HelpersAssumption

(***************************************************************************)
(* The values of the state.                                                 *)
(***************************************************************************)

Fate == {"none", "routed", "unrouted", "closed", "lost", "fatal"}

CamType ==
    /\ sock \in {"none", "up", "dead"} /\ dispatcher \in {"off", "requested", "on"}
    /\ sub \in [Sub -> Fate]

LeaseType ==
    /\ online_required \in Nat
    /\ lease \in [Helper -> BOOLEAN] /\ loaded \in [Helper -> Nat]
    /\ overlapped \in BOOLEAN /\ late \in [Poller -> SUBSET Helper]

PollType ==
    /\ effective_online \in [Poller -> BOOLEAN] /\ tries \in [Poller -> 0 .. 2]
    /\ seen \in [Poller -> 0 .. Count]

TalkType ==
    /\ entered \in [Listener -> BOOLEAN] /\ started \in [Talker -> BOOLEAN]
    /\ cam_talk \in {"free", "busy"} \cup Talker /\ faults \in 0 .. MaxFaults
    /\ harmed \in [Talker -> BOOLEAN]

PcType == pc \in [Helper -> At] /\ attempt \in [Helper -> 0 .. 1]

\* Where a poller is, and from where it asks no more.
PollerAt == {"enter", "poll", "close", "command", "reply", "reconnect", "finally", "wait",
             "wait_reconnect", "release", "store", "done"}
Over == {"release", "store", "done"}

PollInv ==
    \A p \in Poller :
        /\ pc[p] \in PollerAt
        /\ pc[p] \notin Over => seen[p] < Count
        /\ pc[p] = "close" => ~ effective_online[p]

StateInv ==
    /\ CamType /\ LeaseType /\ PollType /\ TalkType /\ PcType /\ PollInv
    /\ \A t \in Talker : pc[t] # "reconnect"

(***************************************************************************)
(* The camera's operations and the subscriptions.                           *)
(***************************************************************************)

Own(t) == sub[<<t, "own">>]
Broken == {"lost", "fatal"}

\* No own subscription appears, and none fails.
Calm ==
    /\ \A h \in Helper : Own(h) = "none" => Own(h)' = "none"
    /\ \A h \in Helper : Own(h)' \in Broken => Own(h) \in Broken

\* What the camera's operations do: a connection does not break quietly.
Milder ==
    /\ sock' \in {"none", "up", "dead"} /\ dispatcher' \in {"off", "requested", "on"}
    /\ sock' = "dead" => sock = "dead"
    /\ faults' \in 0 .. MaxFaults /\ harmed' \in [Talker -> BOOLEAN]
    /\ \A t \in Talker : harmed[t] => harmed'[t]

LEMMA Subs ==
  /\ \A h \in Helper : <<h, "reply">> \in Sub /\ <<h, "own">> \in Sub
  /\ \A g, h \in Helper : <<g, "reply">> # <<h, "own">>
  /\ \A g, h \in Helper : <<g, "own">> = <<h, "own">> => g = h
BY DEF Sub

LEMMA Fates ==
  ASSUME CamType
  PROVE  /\ \A h \in Helper, fate \in Fate :
                [sub EXCEPT ![<<h, "reply">>] = fate] \in [Sub -> Fate]
         /\ \A s \in Sub : Without(s) \in [Sub -> Fate]
BY DEF CamType, Without, Fate

LEMMA Setting ==
  ASSUME CamType, NEW h \in Helper, NEW fate \in Fate,
         sub' = [sub EXCEPT ![<<h, "reply">>] = fate]
  PROVE  sub' \in [Sub -> Fate] /\ Calm
<1>1. \A g \in Helper : sub'[<<g, "own">>] = sub[<<g, "own">>]
  BY Subs DEF CamType
<1>2. sub' \in [Sub -> Fate]
  BY DEF CamType
<1> QED BY <1>1, <1>2 DEF Calm, Own

LEMMA Removing ==
  ASSUME CamType, NEW s \in Sub, sub' = Without(s)
  PROVE  sub' \in [Sub -> Fate] /\ Calm
<1>1. sub' \in [Sub -> Fate]
  BY DEF CamType, Without, Fate
<1>2. \A r \in Sub : sub'[r] = sub[r] \/ sub'[r] = "none"
  BY DEF CamType, Without
<1> QED BY <1>1, <1>2, Subs DEF Calm, Own, Broken

LEMMA Dropping ==
  ASSUME CamType, NEW subs \in [Sub -> Fate], \A s \in Sub : subs[s] = sub[s] \/ subs[s] = "none",
         sub' = Dropped(subs)
  PROVE  sub' \in [Sub -> Fate] /\ Calm
<1>1. sub' \in [Sub -> Fate]
  BY DEF Dropped, Fate
<1>2. \A s \in Sub : sub'[s] = subs[s] \/ (subs[s] = "routed" /\ sub'[s] \in {"closed", "unrouted"})
  BY DEF Dropped
<1>3. \A s \in Sub : /\ sub[s] = "none" => sub'[s] = "none"
                     /\ sub'[s] \in Broken => sub[s] \in Broken
  BY <1>2 DEF Broken
<1> QED BY <1>1, <1>3, Subs DEF Calm, Own

LEMMA Harming ==
  ASSUME TalkType, (Fault /\ Harm) \/ UNCHANGED <<faults, harmed>>
  PROVE  /\ faults' \in 0 .. MaxFaults /\ harmed' \in [Talker -> BOOLEAN]
         /\ \A t \in Talker : harmed[t] => harmed'[t]
<1>1. faults \in 0 .. MaxFaults /\ MaxFaults \in Nat /\ harmed \in [Talker -> BOOLEAN]
  BY DEF TalkType
<1>2. faults' \in 0 .. MaxFaults
  BY <1>1 DEF Fault
<1>3. harmed' \in [Talker -> BOOLEAN] /\ \A t \in Talker : harmed[t] => harmed'[t]
  BY <1>1, Zenon DEF Harm
<1> QED BY <1>2, <1>3

LEMMA Connecting ==
  ASSUME CamType, TalkType, Connects \/ ConnectFails
  PROVE  Milder
<1>1. (Fault /\ Harm) \/ UNCHANGED <<faults, harmed>>
  BY DEF Connects, ConnectFails
<1>2. /\ sock' \in {"none", "up", "dead"} /\ dispatcher' \in {"off", "requested", "on"}
      /\ sock' = "dead" => sock = "dead"
  BY DEF CamType, Connects, ConnectFails
<1> QED BY <1>1, <1>2, Harming DEF Milder

LEMMA Sending ==
  ASSUME CamType, TalkType, NEW h, NEW place, Send(h, place)
  PROVE  Milder /\ (UNCHANGED pc \/ Goto(h, place))
<1>1. UNCHANGED pc \/ Goto(h, place)
  BY DEF Send
<1>2. CASE Connects \/ ConnectFails
  BY <1>1, <1>2, Connecting DEF Send
<1>3. CASE sock = "dead" /\ UNCHANGED <<camVars, faults, harmed>>
  <2>1. UNCHANGED <<sock, dispatcher>> /\ UNCHANGED <<faults, harmed>>
    BY <1>3 DEF camVars
  <2>2. /\ faults' \in 0 .. MaxFaults /\ harmed' \in [Talker -> BOOLEAN]
        /\ \A t \in Talker : harmed[t] => harmed'[t]
    BY <2>1, Harming
  <2>3. /\ sock' \in {"none", "up", "dead"} /\ dispatcher' \in {"off", "requested", "on"}
        /\ sock' = "dead" => sock = "dead"
    BY <2>1 DEF CamType
  <2> QED BY <1>1, <2>2, <2>3 DEF Milder
<1> QED BY <1>2, <1>3 DEF Send

LEMMA Reconnecting ==
  ASSUME CamType, TalkType, NEW subs \in [Sub -> Fate],
         \A s \in Sub : subs[s] = sub[s] \/ subs[s] = "none",
         Reconnected(subs) \/ ReconnectFails(subs)
  PROVE  Milder /\ sub' \in [Sub -> Fate] /\ Calm
<1>1. sub' \in [Sub -> Fate] /\ Calm
  BY Dropping DEF Reconnected, ReconnectFails
<1>2. (Fault /\ Harm) \/ UNCHANGED <<faults, harmed>>
  BY DEF Reconnected, ReconnectFails
<1>3. /\ sock' \in {"none", "up", "dead"} /\ dispatcher' \in {"off", "requested", "on"}
      /\ sock' = "dead" => sock = "dead"
  BY DEF CamType, Reconnected, ReconnectFails
<1>4. Milder
  BY <1>2, <1>3, Harming DEF Milder
<1> QED BY <1>1, <1>4

LEMMA Closing ==
  ASSUME CamType, TalkType, CloseCamera, UNCHANGED <<faults, harmed>>
  PROVE  Milder /\ sub' \in [Sub -> Fate] /\ Calm
<1>1. sub' \in [Sub -> Fate] /\ Calm
  BY Dropping DEF CloseCamera, CamType
<1>2. Milder
  BY DEF CamType, TalkType, CloseCamera, Milder
<1> QED BY <1>1, <1>2

\* A break, or the end of the dispatcher, harms the talker that is speaking.
LEMMA Breaking ==
  ASSUME CamType, TalkType, Break \/ DispatcherDies
  PROVE  /\ sock' \in {"none", "up", "dead"} /\ sub' \in [Sub -> Fate]
         /\ UNCHANGED dispatcher /\ faults' \in 0 .. MaxFaults /\ harmed' \in [Talker -> BOOLEAN]
         /\ \A t \in Talker : (harmed[t] => harmed'[t]) /\ (cam_talk = t => harmed'[t])
         /\ \A h \in Helper : Own(h) = "none" => Own(h)' = "none"
<1>1. ASSUME NEW why \in Fate
      PROVE  /\ Failed(why) \in [Sub -> Fate]
             /\ \A s \in Sub : sub[s] = "none" => Failed(why)[s] = "none"
  BY <1>1 DEF Failed, CamType
<1>2. Harm /\ (sub' = sub \/ sub' = Failed("lost") \/ sub' = Failed("fatal"))
  BY DEF Break, DispatcherDies
<1>3. "lost" \in Fate /\ "fatal" \in Fate
  BY DEF Fate
<1>4. sub' \in [Sub -> Fate] /\ \A h \in Helper : Own(h) = "none" => Own(h)' = "none"
  BY <1>1, <1>2, <1>3, Subs DEF Own, CamType
<1>5. /\ harmed' \in [Talker -> BOOLEAN]
      /\ \A t \in Talker : (harmed[t] => harmed'[t]) /\ (cam_talk = t => harmed'[t])
  BY <1>2 DEF Harm, TalkType
<1>6. sock' \in {"none", "up", "dead"} /\ UNCHANGED dispatcher /\ faults' \in 0 .. MaxFaults
  BY DEF Break, DispatcherDies, CamType, TalkType, Fault, camVars
<1> QED BY <1>4, <1>5, <1>6

LEMMA Waiting ==
  /\ Waits["command"] = "reply" /\ Waits["config"] = "config_reply"
  /\ Waits["again"] = "again_reply"
BY Zenon DEF Waits, Sends

(***************************************************************************)
(* What the steps do to the control state.                                  *)
(***************************************************************************)

\* A helper begins: with the lease, or a poller without it.
Begins(h) ==
    /\ pc[h] = "enter"
    /\ EnterLease(h) \/ (h \in Poller /\ UNCHANGED <<leaseVars, overlapped, late>>)
    /\ \E to \in {"ensure", "poll", "command"} : Goto(h, to) /\ (h \in Poller <=> to = "poll")
    /\ UNCHANGED <<effective_online, seen>>

Asking    == {"close", "command", "reply", "reconnect"}
Beginning == {"enter", "command", "reply", "config", "config_reply", "again", "again_reply"}

\* Between its beginning, its looks at the lease and its end.
Passes(h, to) ==
    /\ Goto(h, to) /\ to \in At \ {"store"}
    /\ pc[h] \notin {"enter", "poll", "release", "store", "done"}
    /\ to = "enter" => h \in Listener
    /\ h \in Poller => \/ pc[h] \in Asking /\ to \in {"command", "reply", "reconnect", "finally"}
                       \/ /\ pc[h] \in {"wait", "wait_reconnect"}
                          /\ to \in {"poll", "wait", "wait_reconnect", "release"}
    /\ h \in Talker => /\ to # "reconnect"
                       /\ to \in Beginning => pc[h] \in Beginning \cup {"stop_again"}

Ordinary(h) ==
    /\ UNCHANGED <<leaseVars, overlapped, late, effective_online, seen>>
    /\ UNCHANGED pc \/ \E to \in At : Passes(h, to)

Control ==
    /\ attempt' \in [Helper -> 0 .. 1] /\ tries' \in [Poller -> 0 .. 2]
    /\ entered' \in [Listener -> BOOLEAN]

LEMMA Kinds ==
  ASSUME NEW h \in Helper
  PROVE  /\ h \in Listener \/ h \in Poller \/ h \in Talker
         /\ ~ (h \in Listener /\ h \in Poller) /\ ~ (h \in Listener /\ h \in Talker)
         /\ ~ (h \in Poller /\ h \in Talker)
BY DEF Helper

LEMMA Raising ==
  ASSUME StateInv, NEW h \in Helper, NEW lost, Raises(h, lost), h \in Poller => pc[h] \in Asking,
         pc[h] \notin {"enter", "poll", "release", "store", "done"}
  PROVE  /\ \E to \in At : Passes(h, to)
         /\ Control /\ UNCHANGED <<effective_online, seen, started, cam_talk>>
<1>1. \E to \in At : Passes(h, to)
  <2>1. CASE h \in Listener
    BY <2>1, Kinds DEF Raises, Passes, At
  <2>2. CASE h \in Talker
    BY <2>2, Kinds DEF Raises, Passes, At, Beginning
  <2>3. CASE h \in Poller
    BY <2>3, Kinds DEF Raises, Passes, At
  <2> QED BY <2>1, <2>2, <2>3, Kinds
<1>2. Control /\ UNCHANGED <<effective_online, seen, started, cam_talk>>
  BY DEF Raises, Control, StateInv, PcType, PollType, TalkType
<1> QED BY <1>1, <1>2

LEMMA Answered ==
  ASSUME StateInv, NEW h \in Helper, Accepted(h) \/ Refused(h), \E at \in Sends : pc[h] = Waits[at]
  PROVE  /\ \E to \in At : Passes(h, to)
         /\ Control /\ UNCHANGED <<effective_online, seen>>
<1>1. pc[h] \in {"reply", "config_reply", "again_reply"} /\ (h \in Poller => pc[h] = "reply")
  BY Waiting DEF Sends, StateInv, PollInv, PollerAt
<1>2. \E to \in At : Passes(h, to)
  <2>1. CASE h \in Listener
    BY <1>1, <2>1, Kinds DEF Accepted, Refused, Passes, At
  <2>2. CASE h \in Talker
    BY <1>1, <2>2, Kinds DEF Accepted, Refused, Passes, At, Beginning
  <2>3. CASE h \in Poller
    BY <1>1, <2>3, Kinds DEF Accepted, Refused, Passes, At, Asking
  <2> QED BY <2>1, <2>2, <2>3, Kinds
<1>3. attempt' \in [Helper -> 0 .. 1]
  BY DEF Accepted, Refused, StateInv, PcType
<1>4. tries' \in [Poller -> 0 .. 2] /\ UNCHANGED <<effective_online, seen>>
  BY DEF Accepted, Refused, StateInv, PollType, pollVars
<1>5. entered' \in [Listener -> BOOLEAN]
  BY Zenon DEF Accepted, Refused, StateInv, TalkType
<1> QED BY <1>2, <1>3, <1>4, <1>5 DEF Control

LEMMA Holding ==
  ASSUME StateInv, UNCHANGED <<attempt, tries, entered>>
  PROVE  Control
<1>1. UNCHANGED attempt /\ UNCHANGED tries /\ UNCHANGED entered
  OBVIOUS
<1> QED BY <1>1, Zenon DEF Control, StateInv, PcType, PollType, TalkType

\* One step of a helper that Goto makes, between the places it may.
LEMMA Going ==
  ASSUME StateInv, NEW h \in Helper, NEW to \in At \ {"store"}, Goto(h, to),
         UNCHANGED <<leaseVars, overlapped, late, attempt, pollVars, entered>>,
         pc[h] \notin {"enter", "poll", "release", "store", "done"},
         to = "enter" => h \in Listener,
         h \in Poller => \/ pc[h] \in Asking /\ to \in {"command", "reply", "reconnect", "finally"}
                         \/ /\ pc[h] \in {"wait", "wait_reconnect"}
                            /\ to \in {"poll", "wait", "wait_reconnect", "release"},
         h \in Talker => /\ to # "reconnect"
                         /\ to \in Beginning => pc[h] \in Beginning \cup {"stop_again"}
  PROVE  Ordinary(h) /\ Control
<1>1. UNCHANGED <<leaseVars, overlapped, late, effective_online, seen>>
      /\ UNCHANGED <<attempt, tries, entered>>
  BY DEF pollVars
<1>2. Passes(h, to)
  BY DEF Passes
<1> QED BY <1>1, <1>2, Holding DEF Ordinary

LEMMA Staying ==
  ASSUME StateInv, NEW h \in Helper, UNCHANGED pc,
         UNCHANGED <<leaseVars, overlapped, late, attempt, pollVars, entered>>
  PROVE  Ordinary(h) /\ Control
<1>1. UNCHANGED <<leaseVars, overlapped, late, effective_online, seen>>
      /\ UNCHANGED <<attempt, tries, entered>>
  BY DEF pollVars
<1> QED BY <1>1, Holding DEF Ordinary

Course(h) == Begins(h) \/ ExitLease(h) \/ ExitLeaseStore(h) \/ Ordinary(h)

LEMMA Stepping ==
  ASSUME StateInv, NEW h \in Helper, Step(h)
  PROVE  Course(h) /\ Control
<1>1. CASE ExitLease(h) \/ ExitLeaseStore(h)
  <2>1. UNCHANGED <<attempt, tries, entered>>
    BY <1>1 DEF ExitLease, ExitLeaseStore, pollVars
  <2> QED BY <1>1, <2>1, Holding DEF Course
<1>2. CASE CommandSend(h)
  <2>1. pc[h] \in Sends /\ Waits[pc[h]] \in {"reply", "config_reply", "again_reply"}
    BY <1>2, Waiting DEF CommandSend, Sends
  <2>2. h \in Poller => pc[h] = "command"
    BY <2>1 DEF StateInv, PollInv, PollerAt, Sends
  <2>3. Goto(h, Waits[pc[h]])
        /\ UNCHANGED <<leaseVars, overlapped, late, attempt, pollVars, entered>>
    BY <1>2 DEF CommandSend
  <2>4. Waits[pc[h]] \in At \ {"store"}
    BY <2>1 DEF At
  <2>5. h \in Poller => Waits[pc[h]] = "reply"
    BY <2>2, Waiting
  <2> HIDE <1>2
  <2>6. Ordinary(h) /\ Control
    BY <2>1, <2>2, <2>3, <2>4, <2>5, Going DEF Sends, Asking, Beginning
  <2> QED BY <2>6 DEF Course
<1>3. CASE CommandReply(h)
  <2>1. /\ \E to \in At : Passes(h, to)
        /\ Control /\ UNCHANGED <<effective_online, seen>>
    BY <1>3, Answered DEF CommandReply
  <2>2. UNCHANGED <<leaseVars, overlapped, late>>
    BY <1>3 DEF CommandReply, histVars
  <2> QED BY <2>1, <2>2 DEF Course, Ordinary
<1>4. CASE CommandFails(h)
  <2>1. PICK at \in Sends :
            /\ pc[h] = Waits[at]
            /\ \/ \E lost : Raises(h, lost)
               \/ /\ attempt' = [attempt EXCEPT ![h] = 1] /\ Goto(h, at)
                  /\ UNCHANGED <<pollVars, entered, started, cam_talk>>
    BY <1>4 DEF CommandFails
  <2>2. UNCHANGED <<leaseVars, overlapped, late>>
    BY <1>4 DEF CommandFails
  <2>3. pc[h] \in {"reply", "config_reply", "again_reply"} /\ (h \in Poller => pc[h] = "reply")
    BY <2>1, Waiting DEF Sends, StateInv, PollInv, PollerAt
  <2>4. h \in Poller => at = "command"
    BY <2>1, <2>3, Waiting DEF Sends
  <2>5. CASE \E lost : Raises(h, lost)
    <3>1. /\ \E to \in At : Passes(h, to)
          /\ Control /\ UNCHANGED <<effective_online, seen>>
      BY <2>3, <2>5, Raising DEF Asking
    <3> QED BY <2>2, <3>1 DEF Course, Ordinary
  <2>6. CASE /\ attempt' = [attempt EXCEPT ![h] = 1] /\ Goto(h, at)
             /\ UNCHANGED <<pollVars, entered, started, cam_talk>>
    <3>1. UNCHANGED <<effective_online, tries, seen, entered>>
      BY <2>6 DEF pollVars
    <3>2. Passes(h, at)
      BY <2>3, <2>4, <2>6 DEF Passes, At, Sends, Asking, Beginning
    <3>3. Control
      BY <2>6, <3>1 DEF Control, StateInv, PcType, PollType, TalkType
    <3>4. at \in At
      BY DEF At, Sends
    <3> QED BY <2>2, <3>1, <3>2, <3>3, <3>4 DEF Course, Ordinary
  <2> QED BY <2>1, <2>5, <2>6
<1>5. CASE Subscribe(h) \/ EnsureDispatcherActive(h)
  <2>1. /\ h \notin Poller
        /\ pc[h] \in {"subscribe", "dispatcher"}
        /\ \E to \in {"dispatcher", "command", "blocks"} :
              Goto(h, to) /\ (to = "command" => h \in Listener)
        /\ UNCHANGED <<leaseVars, overlapped, late, attempt, pollVars, entered>>
    BY <1>5 DEF Subscribe, EnsureDispatcherActive, StateInv, PollInv, PollerAt, histVars
  <2> HIDE <1>5
  <2>2. Ordinary(h) /\ Control
    BY <2>1, Going, Kinds DEF At, Beginning
  <2> QED BY <2>2 DEF Course
<1>6. CASE Reconnect(h)
  <2>1. pc[h] = "reconnect" /\ h \notin Talker
    BY <1>6 DEF Reconnect, StateInv
  <2>2. \E to \in At : Passes(h, to)
    BY <1>6, <2>1, Kinds DEF Reconnect, Passes, At, Asking
  <2>3. tries' \in [Poller -> 0 .. 2]
    BY <1>6 DEF Reconnect, StateInv, PollType
  <2>4. /\ UNCHANGED <<leaseVars, overlapped, late, effective_online, seen>>
        /\ UNCHANGED attempt /\ UNCHANGED entered
    BY <1>6 DEF Reconnect
  <2>5. Control
    BY <2>3, <2>4, Zenon DEF Control, StateInv, PcType, TalkType
  <2> QED BY <2>2, <2>4, <2>5 DEF Course, Ordinary
<1> QED BY <1>1, <1>2, <1>3, <1>4, <1>5, <1>6 DEF Step

LEMMA Listening ==
  ASSUME StateInv, NEW l \in Listener, ListenerStep(l) \/ Leave(l)
  PROVE  Course(l) /\ Control
<1> l \in Helper /\ l \notin Poller /\ l \notin Talker
  BY Kinds DEF Helper
<1>1. CASE Step(l)
  BY <1>1, Stepping
<1>2. CASE StartListening(l)
  <2>1. Begins(l)
    BY <1>2 DEF StartListening, Begins, pollVars
  <2>2. UNCHANGED <<attempt, tries, entered>>
    BY <1>2 DEF StartListening, pollVars
  <2> QED BY <2>1, <2>2, Holding DEF Course
<1>3. CASE EnsureConnected(l)
  <2>1. pc[l] = "ensure" /\ UNCHANGED <<leaseVars, overlapped, late>>
    BY <1>3 DEF EnsureConnected
  <2>2. CASE Goto(l, "subscribe") /\ UNCHANGED <<attempt, pollVars, entered, started, cam_talk>>
    <3>1. UNCHANGED <<leaseVars, overlapped, late, attempt, pollVars, entered>>
      BY <2>1, <2>2
    <3>2. Goto(l, "subscribe")
      BY <2>2
    <3>3. Ordinary(l) /\ Control
      BY <2>1, <3>1, <3>2, Going DEF At
    <3> QED BY <3>3 DEF Course
  <2>3. CASE Raises(l, TRUE)
    <3>1. /\ \E to \in At : Passes(l, to)
          /\ Control /\ UNCHANGED <<effective_online, seen>>
      BY <2>1, <2>3, Raising
    <3> QED BY <2>1, <3>1 DEF Course, Ordinary
  <2> QED BY <1>3, <2>2, <2>3 DEF EnsureConnected
<1>4. CASE \/ ListenKeepalive(l) \/ RestartClosedSubscription(l) \/ ListenFails(l) \/ Leave(l)
           \/ CloseListener(l)
  <2>1. /\ pc[l] \in {"listen", "close"}
        /\ UNCHANGED <<leaseVars, overlapped, late, attempt, pollVars, entered>>
    BY <1>4
    DEF ListenKeepalive, RestartClosedSubscription, ListenFails, Leave, CloseListener, histVars
  <2>2. UNCHANGED pc \/ \E to \in {"close", "reconnect", "release"} : Goto(l, to)
    BY <1>4 DEF ListenKeepalive, Send, RestartClosedSubscription, ListenFails, Leave, CloseListener
  <2> HIDE <1>4
  <2>3. Ordinary(l) /\ Control
    BY <2>1, <2>2, Going, Staying DEF At
  <2> QED BY <2>3 DEF Course
<1> QED BY <1>1, <1>2, <1>3, <1>4 DEF ListenerStep

LEMMA Polling ==
  ASSUME StateInv, NEW p \in Poller, PollerStep(p)
  PROVE  (Course(p) \/ Request(p) \/ RequestFinally(p)) /\ Control
<1> p \in Helper /\ p \notin Listener /\ p \notin Talker
  BY Kinds DEF Helper
<1>1. CASE Step(p)
  BY <1>1, Stepping
<1>2. CASE StartPolling(p)
  <2>1. Begins(p)
    BY <1>2 DEF StartPolling, Begins, pollVars
  <2>2. UNCHANGED <<attempt, tries, entered>>
    BY <1>2 DEF StartPolling, pollVars
  <2> QED BY <2>1, <2>2, Holding DEF Course
<1>3. CASE Request(p) \/ RequestFinally(p)
  <2>1. tries' = [tries EXCEPT ![p] = 0] /\ UNCHANGED attempt /\ UNCHANGED entered
    BY <1>3 DEF Request, RequestFinally
  <2>2. tries' \in [Poller -> 0 .. 2]
    BY <2>1 DEF StateInv, PollType
  <2> HIDE <1>3
  <2>3. Control
    BY <2>1, <2>2, Zenon DEF Control, StateInv, PcType, TalkType
  <2> QED BY <1>3, <2>3
<1>4. CASE CloseFirst(p) \/ Wait(p) \/ WaitReconnect(p)
  <2>1. UNCHANGED <<leaseVars, overlapped, late, attempt, pollVars, entered>>
    BY <1>4 DEF CloseFirst, Wait, WaitReconnect, histVars
  <2>2. \/ UNCHANGED pc
        \/ pc[p] = "close" /\ Goto(p, "command")
        \/ /\ pc[p] \in {"wait", "wait_reconnect"}
           /\ \E to \in {"poll", "wait", "wait_reconnect", "release"} : Goto(p, to)
    BY <1>4 DEF CloseFirst, Wait, Keepalive, Send, WaitReconnect
  <2> HIDE <1>4
  <2>3. Ordinary(p) /\ Control
    <3>1. CASE UNCHANGED pc
      BY <2>1, <3>1, Staying
    <3>2. CASE pc[p] = "close" /\ Goto(p, "command")
      BY <2>1, <3>2, Going DEF At, Asking
    <3>3. CASE /\ pc[p] \in {"wait", "wait_reconnect"}
               /\ \E to \in {"poll", "wait", "wait_reconnect", "release"} : Goto(p, to)
      BY <2>1, <3>3, Going DEF At
    <3> QED BY <2>2, <3>1, <3>2, <3>3
  <2> QED BY <2>3 DEF Course
<1> QED BY <1>1, <1>2, <1>3, <1>4 DEF PollerStep

LEMMA Talking ==
  ASSUME StateInv, NEW t \in Talker, TalkerStep(t)
  PROVE  Course(t) /\ Control
<1> t \in Helper /\ t \notin Listener /\ t \notin Poller
  BY Kinds DEF Helper
<1>1. CASE Step(t)
  BY <1>1, Stepping
<1>2. CASE StartPlaying(t)
  <2>1. Begins(t)
    BY <1>2 DEF StartPlaying, Begins, pollVars
  <2>2. UNCHANGED <<attempt, tries, entered>>
    BY <1>2 DEF StartPlaying, pollVars
  <2> QED BY <2>1, <2>2, Holding DEF Course
<1>3. CASE OnReady(t) \/ SendBlock(t) \/ BlocksEnd(t) \/ Stop(t)
  <2>1. UNCHANGED <<leaseVars, overlapped, late, attempt, pollVars, entered>>
    BY <1>3 DEF OnReady, SendBlock, BlocksEnd, Stop, histVars
  <2>2. \/ UNCHANGED pc
        \/ /\ pc[t] \in {"ready", "blocks", "stop", "stop_again"}
           /\ \/ \E to \in {"subscribe", "release", "stop"} : Goto(t, to)
              \/ pc[t] = "stop_again" /\ Goto(t, "again")
    BY <1>3 DEF OnReady, SendBlock, Send, BlocksEnd, Stop
  <2> HIDE <1>3
  <2>3. Ordinary(t) /\ Control
    <3>1. CASE UNCHANGED pc
      BY <2>1, <3>1, Staying
    <3>2. CASE pc[t] = "stop_again" /\ Goto(t, "again")
      BY <2>1, <3>2, Going DEF At
    <3>3. CASE /\ pc[t] \in {"ready", "blocks", "stop", "stop_again"}
               /\ \E to \in {"subscribe", "release", "stop"} : Goto(t, to)
      BY <2>1, <3>3, Going DEF At, Beginning
    <3> QED BY <2>2, <3>1, <3>2, <3>3
  <2> QED BY <2>3 DEF Course
<1> QED BY <1>1, <1>2, <1>3 DEF TalkerStep

\* Every step, as the lease and the looks at it see it.
LEMMA Steps ==
  ASSUME StateInv, Next
  PROVE  /\ Control
         /\ \/ \E h \in Helper : Course(h)
            \/ \E p \in Poller : Request(p) \/ RequestFinally(p)
            \/ UNCHANGED <<leaseVars, overlapped, late, effective_online, seen, pc>>
<1>1. CASE \E h \in Helper : ReplyLost(h)
  <2>1. /\ UNCHANGED <<attempt, tries, entered>>
        /\ UNCHANGED <<leaseVars, overlapped, late, effective_online, seen, pc>>
    BY <1>1 DEF ReplyLost, pollVars, histVars
  <2> QED BY <2>1, Holding
<1>2. CASE Break \/ DispatcherDies
  <2>1. /\ UNCHANGED <<attempt, tries, entered>>
        /\ UNCHANGED <<leaseVars, overlapped, late, effective_online, seen, pc>>
    BY <1>2 DEF Break, DispatcherDies, pollVars
  <2> QED BY <2>1, Holding
<1>3. CASE \E l \in Listener : ListenerStep(l) \/ Leave(l)
  BY <1>3, Listening DEF Helper
<1>4. CASE \E p \in Poller : PollerStep(p)
  BY <1>4, Polling DEF Helper
<1>5. CASE \E t \in Talker : TalkerStep(t)
  BY <1>5, Talking DEF Helper
<1> QED BY <1>1, <1>2, <1>3, <1>4, <1>5 DEF Next

(***************************************************************************)
(* The lease.  The counter, and what an __exit__ is about to store, is at   *)
(* most the number of helpers that have entered it; and until two threads   *)
(* meet in a change of it, whoever is between the load and the store holds  *)
(* a lease and is about to store one less than the counter.                 *)
(***************************************************************************)

Came == {h \in Helper : pc[h] # "enter" \/ lease[h]}
Leases == {h \in Helper : lease[h]}

Bounded ==
    /\ online_required <= Cardinality(Came)
    /\ \A h \in Helper : loaded[h] <= Cardinality(Came)

ListenersHold == \A l \in Listener : pc[l] \notin {"enter", "done"} => lease[l]

ExitsAlone ==
    overlapped \/ \A h \in Exiting : lease[h] /\ loaded[h] = online_required - 1

LeaseInv == Bounded /\ ListenersHold /\ ExitsAlone

LEMMA Sizes ==
  ASSUME NEW S \in SUBSET Helper, NEW T \in SUBSET Helper, S \subseteq T
  PROVE  /\ Cardinality(S) \in Nat /\ Cardinality(T) \in Nat /\ Cardinality(Helper) \in Nat
         /\ Cardinality(S) <= Cardinality(T) /\ Cardinality(T) <= Cardinality(Helper)
<1>1. IsFiniteSet(T) /\ IsFiniteSet(S)
  BY FS_Subset
<1> QED BY <1>1, FS_Subset, FS_CardinalityType

LEMMA Counting ==
  ASSUME NEW S \in SUBSET Helper, NEW h \in Helper
  PROVE  /\ Cardinality(S) \in Nat
         /\ h \notin S => Cardinality(S \cup {h}) = Cardinality(S) + 1
         /\ h \in S => Cardinality(S \ {h}) = Cardinality(S) - 1 /\ Cardinality(S) > 0
<1>1. IsFiniteSet(S) /\ Cardinality(S) \in Nat
  BY FS_Subset, FS_CardinalityType
<1>2. h \notin S => Cardinality(S \cup {h}) = Cardinality(S) + 1
  BY <1>1, FS_AddElement
<1>3. h \in S => Cardinality(S \ {h}) = Cardinality(S) - 1 /\ Cardinality(S) > 0
  BY <1>1, FS_RemoveElement, FS_EmptySet, FS_CardinalityType
<1> QED BY <1>1, <1>2, <1>3

\* A step that leaves the lease alone.
LEMMA LeaseLeft ==
  ASSUME StateInv, LeaseCounted, LeaseInv, NEW h \in Helper, NEW to \in At \ {"store"},
         Goto(h, to), pc[h] # "store", to = "enter" => lease[h],
         h \in Listener => pc[h] \notin {"enter", "done"} \/ lease[h] \/ to = "done",
         UNCHANGED <<online_required, lease, loaded, overlapped>>
  PROVE  LeaseCounted' /\ LeaseInv'
<1>1. /\ online_required' = online_required /\ lease' = lease /\ loaded' = loaded
      /\ overlapped' = overlapped
      /\ pc \in [Helper -> At] /\ pc' = [pc EXCEPT ![h] = to]
  BY DEF StateInv, PcType, Goto
<1>2. Came \subseteq Came' /\ Came \in SUBSET Helper /\ Came' \in SUBSET Helper
  BY <1>1 DEF Came
<1>3. Exiting' = Exiting
  BY <1>1 DEF Exiting
<1>4. ListenersHold'
  BY <1>1 DEF ListenersHold, LeaseInv, Helper
<1>5. /\ Cardinality(Came) \in Nat /\ Cardinality(Came') \in Nat
      /\ Cardinality(Came) <= Cardinality(Came')
  BY <1>2, Sizes
<1>6. online_required <= Cardinality(Came') /\ \A g \in Helper : loaded[g] <= Cardinality(Came')
  BY <1>5 DEF LeaseInv, Bounded, StateInv, LeaseType
<1>7. Bounded'
  BY <1>1, <1>6, Zenon DEF Bounded
<1>8. ExitsAlone'
  <2>1. ExitsAlone
    BY DEF LeaseInv
  <2> QED BY <1>1, <1>3, <2>1 DEF ExitsAlone
<1>9. LeaseCounted'
  <2>1. online_required' = online_required /\ lease' = lease /\ overlapped' = overlapped
    BY <1>1
  <2>2. {g \in Helper : lease'[g]} = {g \in Helper : lease[g]}
    BY <2>1
  <2>3. overlapped \/ online_required = Cardinality({g \in Helper : lease[g]})
    BY Zenon DEF LeaseCounted
  <2>4. overlapped' \/ online_required' = Cardinality({g \in Helper : lease'[g]})
    BY <2>1, <2>2, <2>3
  <2> QED BY <2>4, Zenon DEF LeaseCounted
<1> QED BY <1>4, <1>7, <1>8, <1>9 DEF LeaseInv

LEMMA LeaseTaken ==
  ASSUME StateInv, LeaseCounted, LeaseInv, NEW h \in Helper, CountUp(h), UNCHANGED loaded,
         ~ lease[h], pc[h] = "enter", NEW to \in At \ {"enter", "store"}, Goto(h, to)
  PROVE  /\ LeaseCounted' /\ LeaseInv'
         /\ online_required' \in Nat /\ lease' \in [Helper -> BOOLEAN]
<1>1. /\ online_required \in Nat /\ lease \in [Helper -> BOOLEAN] /\ loaded \in [Helper -> Nat]
      /\ pc \in [Helper -> At] /\ pc' = [pc EXCEPT ![h] = to] /\ loaded' = loaded
      /\ online_required' = online_required + 1 /\ lease' = [lease EXCEPT ![h] = TRUE]
  BY DEF StateInv, LeaseType, PcType, Goto, CountUp
<1>2. /\ Came' = Came \cup {h} /\ h \notin Came /\ Came \in SUBSET Helper
      /\ Leases' = Leases \cup {h} /\ h \notin Leases /\ Leases \in SUBSET Helper
  BY <1>1 DEF Came, Leases
<1>3. /\ Cardinality(Came') = Cardinality(Came) + 1 /\ Cardinality(Came) \in Nat
      /\ Cardinality(Leases') = Cardinality(Leases) + 1 /\ Cardinality(Leases) \in Nat
  BY <1>2, Counting
<1>4. ListenersHold'
  BY <1>1 DEF ListenersHold, LeaseInv, Helper
<1>5. Bounded'
  <2>1. /\ online_required + 1 <= Cardinality(Came')
        /\ \A g \in Helper : loaded[g] <= Cardinality(Came')
    BY <1>1, <1>3 DEF LeaseInv, Bounded
  <2> QED BY <1>1, <2>1 DEF Bounded
<1>6. (overlapped => overlapped') /\ (Exiting # {} => overlapped')
  BY Zenon DEF CountUp
<1>7. Exiting' = Exiting /\ (overlapped' \/ Exiting' = {})
  <2>1. Exiting' = Exiting
    BY <1>1 DEF Exiting
  <2> QED BY <1>6, <2>1
<1>8. ExitsAlone'
  BY <1>7 DEF ExitsAlone
<1>9. LeaseCounted'
  <2>1. overlapped' \/ online_required = Cardinality(Leases)
    BY <1>6, Zenon DEF LeaseCounted, Leases
  <2>2. overlapped' \/ online_required' = Cardinality(Leases')
    BY <1>1, <1>3, <2>1
  <2> QED BY <2>2, Zenon DEF LeaseCounted, Leases
<1> QED BY <1>1, <1>4, <1>5, <1>8, <1>9 DEF LeaseInv

LEMMA LeaseLoaded ==
  ASSUME StateInv, LeaseCounted, LeaseInv, NEW h \in Helper, ExitLease(h)
  PROVE  LeaseCounted' /\ LeaseInv' /\ loaded' \in [Helper -> Nat]
<1>1. CASE ~ lease[h]
  <2>1. /\ Goto(h, "done") /\ pc[h] = "release"
        /\ UNCHANGED <<online_required, lease, loaded, overlapped>>
    BY <1>1 DEF ExitLease, histVars
  <2>2. LeaseCounted' /\ LeaseInv'
    BY <2>1, LeaseLeft DEF At
  <2> QED BY <2>1, <2>2 DEF StateInv, LeaseType
<1>2. CASE lease[h]
  <2> DEFINE less == IF online_required > 0 THEN online_required - 1 ELSE 0
  <2>1. /\ pc[h] = "release" /\ pc' = [pc EXCEPT ![h] = "store"]
        /\ online_required' = online_required /\ lease' = lease /\ overlapped' = overlapped
        /\ loaded' = [loaded EXCEPT ![h] = less]
    BY <1>2 DEF ExitLease, histVars, Goto
  <2>2. /\ online_required \in Nat /\ lease \in [Helper -> BOOLEAN] /\ loaded \in [Helper -> Nat]
        /\ pc \in [Helper -> At] /\ less \in Nat /\ less <= online_required
    BY DEF StateInv, LeaseType, PcType
  <2>3. Came' = Came /\ Exiting' = Exiting \cup {h} /\ Came \in SUBSET Helper
    BY <2>1, <2>2 DEF Came, Exiting
  <2>4. ListenersHold'
    BY <2>1, <2>2 DEF ListenersHold, LeaseInv, Helper
  <2>5. overlapped \/ less = online_required - 1
    <3>1. Leases \in SUBSET Helper /\ h \in Leases
      BY <1>2 DEF Leases
    <3>2. Cardinality(Leases) \in Nat /\ Cardinality(Leases) > 0
      BY <3>1, Counting
    <3>3. overlapped \/ online_required = Cardinality(Leases)
      BY Zenon DEF LeaseCounted, Leases
    <3> QED BY <2>2, <3>2, <3>3
  <2> HIDE DEF less
  <2>6. Cardinality(Came) \in Nat
    BY <2>3, Counting
  <2>7. Bounded'
    <3>1. \A g \in Helper : loaded'[g] = (IF g = h THEN less ELSE loaded[g])
      BY <2>1, <2>2
    <3>2. \A g \in Helper : (IF g = h THEN less ELSE loaded[g]) <= Cardinality(Came)
      BY <2>2, <2>6 DEF LeaseInv, Bounded
    <3>3. /\ online_required <= Cardinality(Came)
          /\ \A g \in Helper : loaded'[g] <= Cardinality(Came)
      BY <3>1, <3>2 DEF LeaseInv, Bounded
    <3> QED BY <2>1, <2>3, <3>3 DEF Bounded
  <2>8. ExitsAlone'
    <3>1. \A g \in Helper : loaded'[g] = (IF g = h THEN less ELSE loaded[g])
      BY <2>1, <2>2
    <3>2. ASSUME ~ overlapped, NEW g \in Exiting'
          PROVE  lease[g] /\ loaded'[g] = online_required - 1
      BY <1>2, <2>3, <2>5, <3>1, <3>2 DEF ExitsAlone, LeaseInv, Exiting
    <3>3. overlapped \/ \A g \in Exiting' : lease[g] /\ loaded'[g] = online_required - 1
      BY <3>2
    <3> QED BY <2>1, <3>3 DEF ExitsAlone
  <2>9. LeaseCounted'
    BY <2>1, Zenon DEF LeaseCounted
  <2>10. loaded' \in [Helper -> Nat]
    BY <2>1, <2>2
  <2> QED BY <2>4, <2>7, <2>8, <2>9, <2>10 DEF LeaseInv
<1> QED BY <1>1, <1>2

LEMMA LeaseStored ==
  ASSUME StateInv, LeaseCounted, LeaseInv, NEW h \in Helper, ExitLeaseStore(h)
  PROVE  /\ LeaseCounted' /\ LeaseInv'
         /\ online_required' \in Nat /\ lease' \in [Helper -> BOOLEAN]
         /\ loaded' \in [Helper -> Nat]
<1>1. /\ pc[h] = "store" /\ pc' = [pc EXCEPT ![h] = "done"]
      /\ online_required' = loaded[h] /\ lease' = [lease EXCEPT ![h] = FALSE]
      /\ loaded' = [loaded EXCEPT ![h] = 0] /\ overlapped' = (overlapped \/ Exiting # {h})
  BY DEF ExitLeaseStore, Goto
<1>2. /\ online_required \in Nat /\ lease \in [Helper -> BOOLEAN] /\ loaded \in [Helper -> Nat]
      /\ pc \in [Helper -> At]
  BY DEF StateInv, LeaseType, PcType
<1>3. /\ Came' = Came /\ Exiting' = Exiting \ {h} /\ h \in Exiting /\ Came \in SUBSET Helper
      /\ Leases' = Leases \ {h} /\ Leases \in SUBSET Helper
  BY <1>1, <1>2 DEF Came, Exiting, Leases
<1>4. ListenersHold'
  BY <1>1, <1>2 DEF ListenersHold, LeaseInv, Helper
<1>5. Cardinality(Came) \in Nat
  BY <1>3, Counting
<1>6. Bounded'
  <2>1. \A g \in Helper : loaded'[g] = (IF g = h THEN 0 ELSE loaded[g])
    BY <1>1, <1>2
  <2>2. loaded[h] <= Cardinality(Came) /\ \A g \in Helper : loaded'[g] <= Cardinality(Came)
    BY <1>2, <1>5, <2>1 DEF LeaseInv, Bounded
  <2> QED BY <1>1, <1>3, <2>2 DEF Bounded
<1>7. overlapped' \/ (~ overlapped /\ Exiting = {h})
  BY <1>1, Zenon DEF StateInv, LeaseType
<1>8. ExitsAlone'
  BY <1>3, <1>7 DEF ExitsAlone
<1>9. LeaseCounted'
  <2>1. overlapped' \/ online_required' = Cardinality(Leases')
    <3>1. SUFFICES ASSUME ~ overlapped, Exiting = {h}
                   PROVE  loaded[h] = Cardinality(Leases \ {h})
      BY <1>1, <1>3, <1>7
    <3>2. lease[h] /\ loaded[h] = online_required - 1
      BY <1>3, <3>1 DEF ExitsAlone, LeaseInv
    <3>3. online_required = Cardinality(Leases)
      BY <3>1, Zenon DEF LeaseCounted, Leases
    <3>4. h \in Leases
      BY <3>2 DEF Leases
    <3> QED BY <1>3, <3>2, <3>3, <3>4, Counting
  <2> QED BY <2>1, Zenon DEF LeaseCounted, Leases
<1>10. online_required' \in Nat /\ lease' \in [Helper -> BOOLEAN] /\ loaded' \in [Helper -> Nat]
  BY <1>1, <1>2
<1> QED BY <1>4, <1>6, <1>8, <1>9, <1>10 DEF LeaseInv

(***************************************************************************)
(* Where the helpers get to, and what a poller knows there.                 *)
(***************************************************************************)

Places ==
    /\ pc \in [Helper -> At] /\ effective_online \in [Poller -> BOOLEAN]
    /\ seen \in [Poller -> 0 .. Count] /\ PollInv
    /\ \A t \in Talker : pc[t] # "reconnect"

LEMMA Placed ==
  ASSUME StateInv
  PROVE  Places /\ Poller \subseteq Helper /\ Talker \subseteq Helper /\ Listener \subseteq Helper
BY DEF Places, StateInv, PcType, PollType, Helper

\* A step that goes on leaves every poller where it may be.
LEMMA PlaceReached ==
  ASSUME Places, NEW h \in Helper, NEW to \in At, Goto(h, to),
         UNCHANGED <<effective_online, seen>>,
         h \in Poller => /\ to \in PollerAt /\ to # "close"
                         /\ to \notin Over => pc[h] \notin Over,
         h \in Talker => to # "reconnect"
  PROVE  Places'
<1>1. /\ pc' \in [Helper -> At] /\ effective_online' = effective_online /\ seen' = seen
      /\ \A g \in Helper : pc'[g] = IF g = h THEN to ELSE pc[g]
  BY DEF Goto, Places
<1>2. PollInv'
  BY <1>1 DEF Places, PollInv, Helper
<1>3. \A t \in Talker : pc'[t] # "reconnect"
  BY <1>1 DEF Places, Helper
<1> QED BY <1>1, <1>2, <1>3 DEF Places

LEMMA PlaceKept ==
  ASSUME Places, UNCHANGED <<effective_online, seen, pc>>
  PROVE  Places'
<1>1. effective_online' = effective_online /\ seen' = seen /\ pc' = pc
  OBVIOUS
<1> QED BY <1>1, Zenon DEF Places, PollInv

LEMMA PlacesStep ==
  ASSUME StateInv, NEW h \in Helper, Course(h)
  PROVE  Places'
<1> Places
  BY Placed
<1>1. CASE Begins(h)
  <2>1. PICK to \in {"ensure", "poll", "command"} : Goto(h, to) /\ (h \in Poller <=> to = "poll")
    BY <1>1 DEF Begins
  <2>2. pc[h] = "enter" /\ UNCHANGED <<effective_online, seen>>
    BY <1>1 DEF Begins
  <2> QED BY <2>1, <2>2, PlaceReached DEF At, PollerAt, Over
<1>2. CASE ExitLease(h) \/ ExitLeaseStore(h)
  <2>1. PICK to \in {"store", "done"} : Goto(h, to)
    BY <1>2 DEF ExitLease, ExitLeaseStore
  <2>2. UNCHANGED <<effective_online, seen>>
    BY <1>2 DEF ExitLease, ExitLeaseStore, pollVars
  <2> QED BY <2>1, <2>2, PlaceReached DEF At, PollerAt, Over
<1>3. CASE Ordinary(h)
  <2>1. UNCHANGED <<effective_online, seen>>
    BY <1>3 DEF Ordinary
  <2>2. CASE UNCHANGED pc
    BY <2>1, <2>2, PlaceKept
  <2>3. CASE \E to \in At : Passes(h, to)
    <3>1. PICK to \in At : Passes(h, to)
      BY <2>3
    <3> QED BY <2>1, <3>1, PlaceReached DEF Passes, PollerAt, Over, Asking
  <2> QED BY <1>3, <2>2, <2>3 DEF Ordinary
<1> QED BY <1>1, <1>2, <1>3 DEF Course

LEMMA PlacesPoll ==
  ASSUME StateInv, NEW p \in Poller, Request(p) \/ RequestFinally(p)
  PROVE  /\ Places'
         /\ \E to \in At \ {"enter", "store", "done"} : Goto(p, to) /\ pc[p] \in {"poll", "finally"}
         /\ UNCHANGED <<online_required, lease, loaded, overlapped>>
         /\ late' = [late EXCEPT ![p] = {}]
<1> Places /\ p \in Helper /\ p \notin Talker
  BY Placed, Kinds
<1>1. /\ Goto(p, pc'[p]) /\ pc'[p] \in {"command", "close", "wait", "release"}
      /\ pc[p] \in {"poll", "finally"}
  BY DEF Request, RequestFinally, Goto, Places
<1>2. /\ effective_online' \in [Poller -> BOOLEAN]
      /\ \A q \in Poller : q # p => effective_online'[q] = effective_online[q]
      /\ pc'[p] = "close" => ~ effective_online'[p]
  <2>1. CASE Request(p)
    BY <2>1 DEF Request, Goto, Places
  <2>2. CASE RequestFinally(p)
    BY <2>2 DEF RequestFinally, Goto, Places
  <2> QED BY <2>1, <2>2
<1>3. /\ seen' \in [Poller -> 0 .. Count]
      /\ \A q \in Poller : q # p => seen'[q] = seen[q]
      /\ pc'[p] # "release" => seen'[p] < Count
  <2>1. seen[p] \in 0 .. Count /\ Count \in Nat /\ seen[p] < Count
    BY <1>1 DEF Places, PollInv, Over
  <2>2. CASE UNCHANGED seen
    BY <2>1, <2>2 DEF Places
  <2>3. CASE seen' = [seen EXCEPT ![p] = @ + 1] /\ Goto(p, IF More(p) THEN "wait" ELSE "release")
    <3>1. seen[p] + 1 \in 0 .. Count
      BY <2>1
    <3>2. seen'[p] = seen[p] + 1 /\ seen' \in [Poller -> 0 .. Count]
      BY <2>3, <3>1 DEF Places
    <3>3. pc'[p] = IF seen[p] + 1 < Count THEN "wait" ELSE "release"
      BY <2>3 DEF Goto, Places, More
    <3>4. pc'[p] # "release" => seen[p] + 1 < Count
      BY <3>3
    <3> QED BY <2>3, <3>2, <3>4 DEF Places
  <2> QED BY <2>2, <2>3 DEF Request, RequestFinally
<1>4. pc' \in [Helper -> At] /\ \A g \in Helper : g # p => pc'[g] = pc[g]
  BY <1>1 DEF Goto, Places, At
<1>5. PollInv'
  <2>1. \A q \in Poller : q # p => /\ pc'[q] \in PollerAt
                                   /\ pc'[q] \notin Over => seen'[q] < Count
                                   /\ pc'[q] = "close" => ~ effective_online'[q]
    BY <1>2, <1>3, <1>4, Placed DEF Places, PollInv
  <2>2. pc'[p] \in PollerAt /\ (pc'[p] \notin Over => seen'[p] < Count)
    BY <1>1, <1>3 DEF PollerAt, Over
  <2> QED BY <1>2, <2>1, <2>2 DEF PollInv
<1>6. \A t \in Talker : pc'[t] # "reconnect"
  BY <1>4, Placed DEF Places
<1>7. /\ UNCHANGED <<online_required, lease, loaded, overlapped>>
      /\ late' = [late EXCEPT ![p] = {}]
  BY DEF Request, RequestFinally, leaseVars
<1>8. pc'[p] \in At \ {"enter", "store", "done"}
  BY <1>1 DEF At
<1> QED BY <1>1, <1>2, <1>3, <1>4, <1>5, <1>6, <1>7, <1>8 DEF Places

(***************************************************************************)
(* What a poller may have seen: while it holds that nobody needs the camera *)
(* online, every lease in force has been taken since it looked.             *)
(***************************************************************************)

SeenInv ==
    \A p \in Poller :
        InRequest(p) /\ ~ effective_online[p] => overlapped \/ Leases \subseteq late[p]

LeaseSafe == StateInv /\ LeaseCounted /\ LeaseInv /\ SeenInv

LEMMA LeaseStep ==
  ASSUME StateInv, LeaseCounted, LeaseInv, NEW h \in Helper, Course(h)
  PROVE  /\ LeaseCounted' /\ LeaseInv'
         /\ online_required' \in Nat /\ lease' \in [Helper -> BOOLEAN]
         /\ loaded' \in [Helper -> Nat]
<1>1. online_required \in Nat /\ lease \in [Helper -> BOOLEAN] /\ loaded \in [Helper -> Nat]
  BY DEF StateInv, LeaseType
<1>2. CASE ExitLease(h)
  <2>1. UNCHANGED <<online_required, lease>>
    BY <1>2 DEF ExitLease
  <2> QED BY <1>1, <1>2, <2>1, LeaseLoaded
<1>3. CASE ExitLeaseStore(h)
  BY <1>3, LeaseStored
<1>4. CASE Begins(h)
  <2>1. pc[h] = "enter" /\ \E to \in At \ {"enter", "store"} : Goto(h, to)
    BY <1>4 DEF Begins, At
  <2>2. CASE ~ lease[h] /\ CountUp(h) /\ UNCHANGED loaded
    <3>1. loaded' = loaded
      BY <2>2
    <3> QED BY <1>1, <2>1, <2>2, <3>1, LeaseTaken
  <2>3. CASE UNCHANGED <<online_required, lease, loaded, overlapped>> /\ (lease[h] \/ h \in Poller)
    <3>1. h \in Listener => lease[h]
      BY <2>3, Kinds
    <3>2. LeaseCounted' /\ LeaseInv'
      BY <2>1, <2>3, <3>1, LeaseLeft
    <3> QED BY <1>1, <2>3, <3>2
  <2> QED BY <1>4, <2>2, <2>3 DEF Begins, EnterLease, leaseVars
<1>5. CASE Ordinary(h)
  <2>1. UNCHANGED <<online_required, lease, loaded, overlapped>>
    BY <1>5 DEF Ordinary, leaseVars
  <2>2. CASE UNCHANGED pc
    <3>1. Goto(h, pc[h]) \/ pc[h] = "store"
      BY <2>2 DEF Goto, StateInv, PcType
    <3>2. LeaseCounted' /\ LeaseInv'
      <4>1. /\ online_required' = online_required /\ lease' = lease /\ loaded' = loaded
            /\ overlapped' = overlapped /\ pc' = pc
        BY <2>1, <2>2
      <4>2. Came' = Came /\ Exiting' = Exiting /\ Leases' = Leases
        BY <4>1 DEF Came, Exiting, Leases
      <4>3. Bounded' /\ ListenersHold'
        BY <4>1, <4>2 DEF LeaseInv, Bounded, ListenersHold
      <4>4. ExitsAlone'
        BY <4>1, <4>2 DEF LeaseInv, ExitsAlone
      <4>5. overlapped \/ online_required = Cardinality(Leases)
        BY Zenon DEF LeaseCounted, Leases
      <4>6. overlapped' \/ online_required' = Cardinality(Leases')
        BY <4>1, <4>2, <4>5
      <4>7. LeaseCounted'
        BY <4>6, Zenon DEF LeaseCounted, Leases
      <4> QED BY <4>3, <4>4, <4>7 DEF LeaseInv
    <3> QED BY <1>1, <2>1, <3>2
  <2>3. CASE \E to \in At : Passes(h, to)
    <3>1. PICK to \in At \ {"store"} : Passes(h, to)
      BY <2>3 DEF Passes
    <3>2. /\ Goto(h, to) /\ pc[h] \notin {"enter", "store", "done"}
          /\ to = "enter" => h \in Listener
      BY <3>1 DEF Passes
    <3>3. h \in Listener => lease[h]
      BY <3>2 DEF LeaseInv, ListenersHold
    <3>4. LeaseCounted' /\ LeaseInv'
      BY <2>1, <3>2, <3>3, LeaseLeft
    <3> QED BY <1>1, <2>1, <3>4
  <2> QED BY <1>5, <2>2, <2>3 DEF Ordinary
<1> QED BY <1>2, <1>3, <1>4, <1>5 DEF Course

LEMMA SeenStep ==
  ASSUME LeaseSafe, NEW h \in Helper, Course(h)
  PROVE  /\ SeenInv'
         /\ overlapped' \in BOOLEAN /\ late' \in [Poller -> SUBSET Helper]
<1>1. /\ overlapped \in BOOLEAN /\ late \in [Poller -> SUBSET Helper]
      /\ lease \in [Helper -> BOOLEAN]
      /\ pc \in [Helper -> At] /\ Poller \subseteq Helper
  BY DEF LeaseSafe, StateInv, LeaseType, PcType, Helper
<1>2. effective_online' = effective_online
  BY DEF Course, Begins, ExitLease, ExitLeaseStore, Ordinary, pollVars
<1>3. \A p \in Poller : InRequest(p)' => InRequest(p)
  <2>1. PICK to : Goto(h, to) \/ UNCHANGED pc
    BY DEF Course, Begins, ExitLease, ExitLeaseStore, Ordinary, Passes
  <2>2. \A p \in Poller : p # h => InRequest(p)' = InRequest(p)
    BY <1>1, <2>1 DEF InRequest, Goto
  <2>3. h \in Poller /\ InRequest(h)' => InRequest(h)
    BY <1>1 DEF Course, Begins, ExitLease, ExitLeaseStore, Ordinary, Passes, InRequest, Goto, Asking
  <2> QED BY <2>2, <2>3
<1>4. CASE CountUp(h)
  <2>1. Leases' \subseteq Leases \cup {h}
    BY <1>1, <1>4 DEF CountUp, Leases
  <2>2. late' \in [Poller -> SUBSET Helper]
    BY <1>1, <1>4 DEF CountUp
  <2>3. \A p \in Poller : InRequest(p) => late'[p] = late[p] \cup {h}
    BY <1>4 DEF CountUp
  <2>4. overlapped' \in BOOLEAN /\ (overlapped => overlapped')
    BY <1>1, <1>4, Zenon DEF CountUp
  <2>5. SeenInv'
    BY <1>2, <1>3, <2>1, <2>3, <2>4 DEF SeenInv, LeaseSafe
  <2> QED BY <2>2, <2>4, <2>5
<1>5. CASE /\ UNCHANGED late /\ Leases' \subseteq Leases
           /\ overlapped' \in BOOLEAN /\ (overlapped => overlapped')
  BY <1>1, <1>2, <1>3, <1>5 DEF SeenInv, LeaseSafe
<1>6. CountUp(h) \/ (UNCHANGED late /\ Leases' \subseteq Leases /\ overlapped' \in BOOLEAN
                     /\ (overlapped => overlapped'))
  <2>1. CASE ExitLeaseStore(h)
    <3>1. UNCHANGED late /\ Leases' \subseteq Leases
      BY <1>1, <2>1 DEF ExitLeaseStore, Leases
    <3>2. overlapped' \in BOOLEAN /\ (overlapped => overlapped')
      BY <1>1, <2>1, Zenon DEF ExitLeaseStore
    <3> QED BY <3>1, <3>2
  <2>2. CASE UNCHANGED <<late, lease, overlapped>>
    BY <1>1, <2>2 DEF Leases
  <2>3. CountUp(h) \/ ExitLeaseStore(h) \/ UNCHANGED <<late, lease, overlapped>>
    BY DEF Course, Begins, EnterLease, ExitLease, Ordinary, histVars, leaseVars
  <2> QED BY <2>1, <2>2, <2>3
<1> QED BY <1>4, <1>5, <1>6

LEMMA SeenAsked ==
  ASSUME LeaseSafe, NEW p \in Poller, Request(p) \/ RequestFinally(p)
  PROVE  SeenInv' /\ late' \in [Poller -> SUBSET Helper]
<1>1. /\ overlapped \in BOOLEAN /\ late \in [Poller -> SUBSET Helper]
      /\ lease \in [Helper -> BOOLEAN]
      /\ pc \in [Helper -> At] /\ Poller \subseteq Helper /\ online_required \in Nat
      /\ effective_online \in [Poller -> BOOLEAN]
  BY DEF LeaseSafe, StateInv, LeaseType, PcType, PollType, Helper
<1>2. /\ overlapped' = overlapped /\ lease' = lease /\ late' = [late EXCEPT ![p] = {}]
      /\ \E to : Goto(p, to)
      /\ \A q \in Poller : q # p => effective_online'[q] = effective_online[q]
  BY <1>1 DEF Request, RequestFinally, leaseVars
<1>3. Leases' = Leases /\ late' \in [Poller -> SUBSET Helper]
  BY <1>1, <1>2 DEF Leases
<1>4. \A q \in Poller : q # p => InRequest(q)' = InRequest(q) /\ late'[q] = late[q]
  BY <1>1, <1>2 DEF InRequest, Goto
<1>5. CASE Request(p)
  <2>1. ~ effective_online'[p] => ~ (online_required > 0)
    BY <1>1, <1>5, Zenon DEF Request
  <2>2. ~ effective_online'[p] => online_required = 0
    BY <1>1, <2>1
  <2>3. ASSUME online_required = 0, ~ overlapped
        PROVE  Leases = {}
    <3>1. Cardinality(Leases) = 0
      BY <2>3, Zenon DEF LeaseSafe, LeaseCounted, Leases
    <3>2. IsFiniteSet(Leases)
      BY FS_Subset DEF Leases
    <3> QED BY <3>1, <3>2, FS_EmptySet
  <2>4. ~ effective_online'[p] => overlapped \/ Leases = {}
    BY <2>2, <2>3
  <2> QED BY <1>1, <1>2, <1>3, <1>4, <2>4 DEF SeenInv, LeaseSafe
<1>6. CASE RequestFinally(p)
  <2>1. ~ InRequest(p)'
    BY <1>1, <1>6 DEF RequestFinally, Goto, InRequest
  <2> QED BY <1>1, <1>2, <1>3, <1>4, <2>1 DEF SeenInv, LeaseSafe
<1> QED BY <1>5, <1>6

(***************************************************************************)
(* The talk channel.  The talker whose it is has started and finds a        *)
(* connection and replies that let it close the channel, unless it has been *)
(* harmed; and a talker that is still beginning has no subscription of its  *)
(* own yet.                                                                 *)
(***************************************************************************)

OwnerCanStop ==
    \A t \in Talker : cam_talk = t =>
        /\ harmed[t] \/ started[t]
        /\ sock = "dead" => harmed[t]
        /\ Own(t) \in Broken => harmed[t]

BeginningBare == \A t \in Talker : pc[t] \in Beginning => Own(t) = "none"

TalkInv == OwnerCanStop /\ BeginningBare

\* A step that harms no talker.
Gently ==
    /\ Milder /\ sub' \in [Sub -> Fate] /\ Calm
    /\ UNCHANGED cam_talk /\ UNCHANGED started

TalkTypes == CamType' /\ TalkType'

LEMMA TalkGently ==
  ASSUME StateInv, TalkInv, Control, Gently,
         \A t \in Talker : pc'[t] \in Beginning => pc[t] \in Beginning
  PROVE  TalkInv' /\ TalkTypes
<1>1. /\ cam_talk' = cam_talk /\ started' = started /\ (sock' = "dead" => sock = "dead")
      /\ \A t \in Talker : harmed[t] => harmed'[t]
      /\ \A h \in Helper : Own(h) = "none" => Own(h)' = "none"
      /\ \A h \in Helper : Own(h)' \in Broken => Own(h) \in Broken
      /\ Talker \subseteq Helper
  BY DEF Gently, Milder, Calm, Helper
<1>2. OwnerCanStop'
  BY <1>1, Zenon DEF TalkInv, OwnerCanStop
<1>3. BeginningBare'
  BY <1>1 DEF TalkInv, BeginningBare
<1>4. CamType'
  BY DEF CamType, Gently, Milder
<1>5. TalkType'
  BY DEF TalkType, StateInv, Gently, Milder, Control
<1> QED BY <1>2, <1>3, <1>4, <1>5 DEF TalkInv, TalkTypes

LEMMA Quietly ==
  ASSUME StateInv, UNCHANGED <<sock, dispatcher, sub, faults, harmed, cam_talk, started>>
  PROVE  Gently
<1>1. /\ sock' = sock /\ dispatcher' = dispatcher /\ sub' = sub /\ faults' = faults
      /\ harmed' = harmed /\ cam_talk' = cam_talk /\ started' = started
  OBVIOUS
<1>2. Milder
  BY <1>1, Zenon DEF Milder, StateInv, CamType, TalkType
<1>3. sub' \in [Sub -> Fate] /\ Calm
  BY <1>1, Zenon DEF StateInv, CamType, Calm, Own
<1> QED BY <1>1, <1>2, <1>3 DEF Gently

\* The camera is asked for a connection, and no subscription changes.
LEMMA Politely ==
  ASSUME StateInv, Milder, UNCHANGED <<sub, cam_talk, started>>
  PROVE  Gently
<1>1. sub' = sub /\ cam_talk' = cam_talk /\ started' = started
  OBVIOUS
<1>2. sub' \in [Sub -> Fate] /\ Calm
  BY <1>1, Zenon DEF StateInv, CamType, Calm, Own
<1> QED BY <1>1, <1>2 DEF Gently

\* Subscriptions change, and the camera does not.
LEMMA Silently ==
  ASSUME StateInv, sub' \in [Sub -> Fate], Calm,
         UNCHANGED <<sock, dispatcher, faults, harmed, cam_talk, started>>
  PROVE  Gently
<1>1. /\ sock' = sock /\ dispatcher' = dispatcher /\ faults' = faults
      /\ harmed' = harmed /\ cam_talk' = cam_talk /\ started' = started
  OBVIOUS
<1>2. Milder
  BY <1>1, Zenon DEF Milder, StateInv, CamType, TalkType
<1> QED BY <1>1, <1>2 DEF Gently

LEMMA ReplyLostGently ==
  ASSUME StateInv, NEW h \in Helper, ReplyLost(h)
  PROVE  Gently /\ UNCHANGED pc
<1>1. sub' = [sub EXCEPT ![<<h, "reply">>] = "lost"] /\ "lost" \in Fate
  BY DEF ReplyLost, Fate
<1>2. sub' \in [Sub -> Fate] /\ Calm
  BY <1>1, Setting DEF StateInv
<1>3. faults' \in 0 .. MaxFaults
  BY DEF ReplyLost, Fault, StateInv, TalkType
<1>4. /\ sock' = sock /\ dispatcher' = dispatcher /\ harmed' = harmed /\ cam_talk' = cam_talk
      /\ started' = started /\ pc' = pc
  BY DEF ReplyLost, camVars, histVars
<1>5. Milder
  BY <1>3, <1>4, Zenon DEF Milder, StateInv, CamType, TalkType
<1> QED BY <1>2, <1>4, <1>5 DEF Gently

LEMMA SendGently ==
  ASSUME StateInv, NEW h \in Helper, CommandSend(h)
  PROVE  Gently /\ pc[h] # "stop_again"
<1>1. Milder
  BY Connecting DEF CommandSend, StateInv
<1>2. \E fate \in Fate : sub' = [sub EXCEPT ![<<h, "reply">>] = fate]
  BY DEF CommandSend, Fate
<1>3. sub' \in [Sub -> Fate] /\ Calm
  BY <1>2, Setting DEF StateInv
<1>4. UNCHANGED cam_talk /\ UNCHANGED started /\ pc[h] # "stop_again"
  BY DEF CommandSend, Sends
<1> QED BY <1>1, <1>3, <1>4 DEF Gently

LEMMA FailGently ==
  ASSUME StateInv, NEW h \in Helper, CommandFails(h)
  PROVE  Gently /\ pc[h] # "stop_again"
<1>1. pc[h] # "stop_again" /\ <<h, "reply">> \in Sub
  BY Waiting, Subs DEF CommandFails, Sends
<1>2. UNCHANGED <<cam_talk, started>>
  BY DEF CommandFails, Raises
<1> DEFINE left == Without(<<h, "reply">>)
<1>3. left \in [Sub -> Fate] /\ \A s \in Sub : left[s] = sub[s] \/ left[s] = "none"
  BY <1>1, Fates DEF Without, StateInv, CamType
<1>4. \/ sub' = left /\ UNCHANGED <<camVars, faults, harmed>>
      \/ Reconnected(left) \/ ReconnectFails(left)
  BY DEF CommandFails
<1>5. CASE sub' = left /\ UNCHANGED <<camVars, faults, harmed>>
  <2>1. sub' \in [Sub -> Fate] /\ Calm
    BY <1>1, <1>5, Removing DEF StateInv
  <2>2. UNCHANGED <<sock, dispatcher, faults, harmed, cam_talk, started>>
    BY <1>2, <1>5 DEF camVars
  <2> QED BY <1>1, <2>1, <2>2, Silently
<1> HIDE DEF left
<1>6. CASE Reconnected(left) \/ ReconnectFails(left)
  BY <1>1, <1>2, <1>3, <1>6, Reconnecting DEF Gently, StateInv
<1> QED BY <1>4, <1>5, <1>6

LEMMA ReconnectGently ==
  ASSUME StateInv, Reconnected(sub) \/ ReconnectFails(sub), UNCHANGED <<cam_talk, started>>
  PROVE  Gently
BY Reconnecting DEF Gently, StateInv, CamType

\* An answer, unless it opens the channel.
LEMMA ReplyGently ==
  ASSUME StateInv, NEW h \in Helper, CommandReply(h)
  PROVE  /\ Gently \/ h \in Talker
         /\ UNCHANGED <<cam_talk, started>> => Gently
         /\ sub' \in [Sub -> Fate] /\ Calm /\ UNCHANGED <<sock, dispatcher, faults, harmed>>
         /\ pc[h] \in {"reply", "config_reply", "again_reply"} /\ sock = "up"
<1>1. sub' \in [Sub -> Fate] /\ Calm
  BY Subs, Removing DEF CommandReply, StateInv
<1>2. UNCHANGED <<sock, dispatcher, faults, harmed>> /\ sock = "up"
  BY DEF CommandReply, camVars, histVars
<1>3. pc[h] \in {"reply", "config_reply", "again_reply"}
  BY Waiting DEF CommandReply, Sends
<1>4. UNCHANGED <<cam_talk, started>> \/ h \in Talker
  BY DEF CommandReply, Accepted, Refused
<1>5. ASSUME UNCHANGED <<cam_talk, started>>
      PROVE  Gently
  BY <1>1, <1>2, <1>5, Silently
<1> QED BY <1>1, <1>2, <1>3, <1>4, <1>5

\* The channel opens for a talker whose own subscription is yet to come.
LEMMA ChannelOpens ==
  ASSUME StateInv, TalkInv, Control, NEW h \in Talker, CommandReply(h),
         ~ UNCHANGED <<cam_talk, started>>
  PROVE  TalkInv' /\ TalkTypes
<1>1. h \in Helper /\ h \notin Listener /\ h \notin Poller /\ Talker \subseteq Helper
  BY Kinds DEF Helper
<1>2. /\ sub' \in [Sub -> Fate] /\ Calm
      /\ sock' = sock /\ dispatcher' = dispatcher /\ faults' = faults /\ harmed' = harmed
      /\ pc[h] \in Beginning /\ sock = "up"
  BY <1>1, ReplyGently DEF Beginning
<1>3. cam_talk' = h /\ started' = [started EXCEPT ![h] = TRUE] /\ Goto(h, "ready")
  BY <1>1 DEF CommandReply, Accepted, Refused
<1>4. pc \in [Helper -> At] /\ started \in [Talker -> BOOLEAN]
  BY DEF StateInv, PcType, TalkType
<1>5. \A t \in Talker : pc'[t] \in Beginning => pc[t] \in Beginning
  BY <1>1, <1>3, <1>4 DEF Goto, Beginning
<1>6. BeginningBare'
  BY <1>1, <1>2, <1>5 DEF BeginningBare, TalkInv, Calm
<1>7. Own(h)' \notin Broken
  <2>1. Own(h) = "none"
    BY <1>2 DEF TalkInv, BeginningBare
  <2>2. Own(h)' = "none"
    BY <1>1, <1>2, <2>1 DEF Calm
  <2> QED BY <2>2 DEF Broken
<1>8. OwnerCanStop'
  <2>1. started'[h] /\ sock' # "dead"
    BY <1>2, <1>3, <1>4
  <2> QED BY <1>3, <1>7, <2>1 DEF OwnerCanStop
<1>9. CamType'
  BY <1>2, Zenon DEF CamType, StateInv
<1>10. TalkType'
  <2>1. started' \in [Talker -> BOOLEAN] /\ cam_talk' \in {"free", "busy"} \cup Talker
    BY <1>3, <1>4
  <2> QED BY <1>2, <2>1, Zenon DEF TalkType, StateInv, Control
<1> QED BY <1>6, <1>8, <1>9, <1>10 DEF TalkInv, TalkTypes

LEMMA SubscribeTalk ==
  ASSUME StateInv, TalkInv, Control, NEW h \in Helper, Subscribe(h)
  PROVE  TalkInv' /\ TalkTypes
<1>1. /\ sub' = [sub EXCEPT ![<<h, "own">>] = "routed"] /\ sub \in [Sub -> Fate]
      /\ pc' = [pc EXCEPT ![h] = "dispatcher"] /\ pc \in [Helper -> At]
      /\ Talker \subseteq Helper
  BY DEF Subscribe, StateInv, CamType, PcType, Goto, Helper
<1>2. /\ sock' = sock /\ faults' = faults /\ harmed' = harmed /\ cam_talk' = cam_talk
      /\ started' = started
  BY DEF Subscribe, histVars
<1>3. /\ sub' \in [Sub -> Fate]
      /\ \A g \in Helper : Own(g)' = IF g = h THEN "routed" ELSE Own(g)
  BY <1>1, Subs DEF Own, Fate
<1>4. BeginningBare'
  BY <1>1, <1>3 DEF BeginningBare, TalkInv, Beginning
<1>5. \A t \in Talker : Own(t)' \in Broken => Own(t) \in Broken
  BY <1>1, <1>3 DEF Broken
<1>6. OwnerCanStop'
  BY <1>2, <1>5, Zenon DEF OwnerCanStop, TalkInv
<1>7. CamType'
  BY <1>2, <1>3 DEF Subscribe, CamType, StateInv
<1>8. TalkType'
  BY <1>2, Zenon DEF TalkType, StateInv, Control
<1> QED BY <1>4, <1>6, <1>7, <1>8 DEF TalkInv, TalkTypes

LEMMA StopTalk ==
  ASSUME StateInv, TalkInv, Control, NEW t \in Talker, Stop(t)
  PROVE  TalkInv' /\ TalkTypes
<1>1. t \in Helper /\ <<t, "own">> \in Sub /\ Talker \subseteq Helper
  BY Subs DEF Helper
<1>2. /\ sub' = Without(<<t, "own">>) /\ started' = [started EXCEPT ![t] = FALSE]
      /\ \E to \in {"release", "again"} : Goto(t, to)
      /\ pc \in [Helper -> At] /\ sub \in [Sub -> Fate] /\ started \in [Talker -> BOOLEAN]
  BY DEF Stop, StateInv, CamType, PcType, TalkType
<1>3. sub' \in [Sub -> Fate] /\ Calm
  BY <1>1, <1>2, Removing DEF StateInv
<1>4. /\ Milder
      /\ cam_talk' = cam_talk \/ cam_talk' = "free"
  <2>1. CASE Connects \/ ConnectFails
    BY <2>1, Connecting DEF Stop, StateInv
  <2>2. CASE UNCHANGED <<camVars, faults, harmed, cam_talk>>
    <3>1. /\ sock' = sock /\ dispatcher' = dispatcher /\ faults' = faults /\ harmed' = harmed
          /\ cam_talk' = cam_talk
      BY <2>2 DEF camVars
    <3> QED BY <3>1, Zenon DEF Milder, StateInv, CamType, TalkType
  <2> QED BY <2>1, <2>2 DEF Stop
<1>5. cam_talk = t => cam_talk' = "free" \/ harmed'[t]
  <2>1. CASE Drains(t) /\ Connects /\ cam_talk' = IF sock = "dead" THEN cam_talk ELSE "free"
    <3>1. cam_talk = t /\ sock = "dead" => harmed[t]
      BY DEF TalkInv, OwnerCanStop
    <3> QED BY <1>4, <2>1, <3>1 DEF Milder
  <2>2. CASE ConnectFails
    BY <2>2 DEF ConnectFails, Harm
  <2>3. CASE ~ Drains(t)
    <3>1. cam_talk = t => harmed[t]
      BY <2>3 DEF Drains, TalkInv, OwnerCanStop, Own, Broken
    <3> QED BY <1>4, <3>1 DEF Milder
  <2> QED BY <2>1, <2>2, <2>3 DEF Stop
<1>6. Own(t)' = "none"
  BY <1>1, <1>2 DEF Own, Without
<1>7. "free" \notin Talker
  OBVIOUS
<1>8. OwnerCanStop'
  <2> SUFFICES ASSUME NEW u \in Talker, cam_talk' = u
               PROVE  /\ harmed'[u] \/ started'[u]
                      /\ sock' = "dead" => harmed'[u]
                      /\ Own(u)' \in Broken => harmed'[u]
    BY DEF OwnerCanStop
  <2>1. cam_talk = u
    BY <1>4, <1>7
  <2>2. CASE u = t
    BY <1>5, <1>7, <2>1, <2>2
  <2>3. CASE u # t
    <3>1. /\ harmed[u] \/ started[u]
          /\ sock = "dead" => harmed[u]
          /\ Own(u) \in Broken => harmed[u]
      BY <2>1 DEF TalkInv, OwnerCanStop
    <3>2. started'[u] = started[u]
      BY <1>2, <2>3
    <3>3. /\ harmed[u] => harmed'[u]
          /\ sock' = "dead" => sock = "dead"
          /\ Own(u)' \in Broken => Own(u) \in Broken
      BY <1>1, <1>3, <1>4 DEF Milder, Calm
    <3> QED BY <3>1, <3>2, <3>3, Zenon
  <2> QED BY <2>2, <2>3
<1>9. BeginningBare'
  BY <1>1, <1>2, <1>3, <1>6 DEF BeginningBare, TalkInv, Goto, Calm
<1>10. CamType'
  BY <1>3, <1>4 DEF CamType, Milder
<1>11. TalkType'
  <2>1. started' \in [Talker -> BOOLEAN] /\ cam_talk' \in {"free", "busy"} \cup Talker
    BY <1>2, <1>4 DEF StateInv, TalkType
  <2> QED BY <1>4, <2>1, Zenon DEF TalkType, Milder, Control
<1> QED BY <1>8, <1>9, <1>10, <1>11 DEF TalkInv, TalkTypes

LEMMA BreakTalk ==
  ASSUME StateInv, TalkInv, Control, Break \/ DispatcherDies
  PROVE  TalkInv' /\ TalkTypes
<1>1. /\ sock' \in {"none", "up", "dead"} /\ sub' \in [Sub -> Fate]
      /\ dispatcher' = dispatcher /\ faults' \in 0 .. MaxFaults /\ harmed' \in [Talker -> BOOLEAN]
      /\ \A t \in Talker : (harmed[t] => harmed'[t]) /\ (cam_talk = t => harmed'[t])
      /\ \A h \in Helper : Own(h) = "none" => Own(h)' = "none"
  BY Breaking DEF StateInv
<1>2. cam_talk' = cam_talk /\ started' = started /\ pc' = pc /\ Talker \subseteq Helper
  BY DEF Break, DispatcherDies, Helper
<1>3. OwnerCanStop'
  BY <1>1, <1>2, Zenon DEF OwnerCanStop
<1>4. BeginningBare'
  BY <1>1, <1>2 DEF BeginningBare, TalkInv
<1>5. CamType'
  BY <1>1 DEF CamType, StateInv
<1>6. TalkType'
  BY <1>1, <1>2, Zenon DEF TalkType, StateInv, Control
<1> QED BY <1>3, <1>4, <1>5, <1>6 DEF TalkInv, TalkTypes

\* Who goes gently does not come back to a beginning.
LEMMA BeginningKept ==
  ASSUME StateInv, NEW h \in Helper, Course(h), pc[h] # "stop_again"
  PROVE  \A t \in Talker : pc'[t] \in Beginning => pc[t] \in Beginning
<1>1. pc \in [Helper -> At] /\ Talker \subseteq Helper
  BY DEF StateInv, PcType, Helper
<1>2. CASE Begins(h)
  BY <1>1, <1>2 DEF Begins, Goto, Beginning
<1>3. CASE ExitLease(h) \/ ExitLeaseStore(h)
  <2>1. Goto(h, "store") \/ Goto(h, "done")
    BY <1>3 DEF ExitLease, ExitLeaseStore
  <2> QED BY <1>1, <2>1 DEF Goto, Beginning
<1>4. CASE Ordinary(h)
  <2>1. CASE UNCHANGED pc
    BY <2>1
  <2>2. CASE \E to \in At : Passes(h, to)
    BY <1>1, <2>2 DEF Passes, Goto
  <2> QED BY <1>4, <2>1, <2>2 DEF Ordinary
<1> QED BY <1>2, <1>3, <1>4 DEF Course

LEMMA GentleStep ==
  ASSUME StateInv, TalkInv, NEW h \in Helper, Course(h), Control, Gently, pc[h] # "stop_again"
  PROVE  TalkInv' /\ TalkTypes
BY BeginningKept, TalkGently

LEMMA StepTalk ==
  ASSUME StateInv, TalkInv, NEW h \in Helper, Step(h)
  PROVE  TalkInv' /\ TalkTypes
<1> Course(h) /\ Control
  BY Stepping
<1>1. CASE ExitLease(h) \/ ExitLeaseStore(h)
  <2>1. /\ UNCHANGED <<sock, dispatcher, sub, faults, harmed, cam_talk, started>>
        /\ pc[h] # "stop_again"
    BY <1>1 DEF ExitLease, ExitLeaseStore, camVars, histVars
  <2> QED BY <2>1, Quietly, GentleStep
<1>2. CASE CommandSend(h)
  BY <1>2, SendGently, GentleStep
<1>3. CASE CommandReply(h)
  <2>1. CASE Gently
    <3>1. pc[h] # "stop_again"
      BY <1>3, ReplyGently
    <3> QED BY <2>1, <3>1, GentleStep
  <2>2. CASE ~ Gently
    <3>1. h \in Talker /\ ~ UNCHANGED <<cam_talk, started>>
      BY <1>3, <2>2, ReplyGently
    <3> QED BY <1>3, <3>1, ChannelOpens
  <2> QED BY <2>1, <2>2
<1>4. CASE CommandFails(h)
  BY <1>4, FailGently, GentleStep
<1>5. CASE Subscribe(h)
  BY <1>5, SubscribeTalk
<1>6. CASE EnsureDispatcherActive(h)
  <2>1. /\ UNCHANGED <<sub, cam_talk, started>> /\ pc[h] # "stop_again"
        /\ sock' = sock /\ faults' = faults /\ harmed' = harmed
        /\ dispatcher' \in {"on", dispatcher}
    BY <1>6 DEF EnsureDispatcherActive, histVars
  <2>2. Milder
    BY <2>1 DEF Milder, StateInv, CamType, TalkType
  <2> QED BY <2>1, <2>2, Politely, GentleStep
<1>7. CASE Reconnect(h)
  <2>1. /\ pc[h] # "stop_again" /\ UNCHANGED <<cam_talk, started>>
        /\ Reconnected(sub) \/ ReconnectFails(sub)
    BY <1>7 DEF Reconnect
  <2> QED BY <2>1, ReconnectGently, GentleStep
<1> QED BY <1>1, <1>2, <1>3, <1>4, <1>5, <1>6, <1>7 DEF Step

LEMMA ListenTalk ==
  ASSUME StateInv, TalkInv, NEW l \in Listener, ListenerStep(l) \/ Leave(l)
  PROVE  TalkInv' /\ TalkTypes
<1> l \in Helper /\ <<l, "own">> \in Sub /\ Course(l) /\ Control
  BY Listening, Subs DEF Helper
<1>1. CASE Step(l)
  BY <1>1, StepTalk
<1>2. CASE StartListening(l) \/ ListenFails(l) \/ Leave(l)
  <2>1. /\ UNCHANGED <<sock, dispatcher, sub, faults, harmed, cam_talk, started>>
        /\ pc[l] # "stop_again"
    BY <1>2 DEF StartListening, ListenFails, Leave, camVars, histVars
  <2> QED BY <2>1, Quietly, GentleStep
<1>3. CASE EnsureConnected(l) \/ ListenKeepalive(l)
  <2>1. UNCHANGED <<sub, cam_talk, started>> /\ pc[l] # "stop_again"
    BY <1>3 DEF EnsureConnected, Raises, ListenKeepalive
  <2>2. Milder
    BY <1>3, Connecting, Sending DEF EnsureConnected, ListenKeepalive, StateInv
  <2> QED BY <2>1, <2>2, Politely, GentleStep
<1>4. CASE RestartClosedSubscription(l) \/ CloseListener(l)
  <2>1. /\ UNCHANGED <<sock, dispatcher, faults, harmed, cam_talk, started>>
        /\ pc[l] # "stop_again" /\ sub' = Without(<<l, "own">>)
    BY <1>4 DEF RestartClosedSubscription, CloseListener, camVars, histVars
  <2>2. sub' \in [Sub -> Fate] /\ Calm
    BY <2>1, Removing DEF StateInv
  <2> QED BY <2>1, <2>2, Silently, GentleStep
<1> QED BY <1>1, <1>2, <1>3, <1>4 DEF ListenerStep

\* The camera is closed, or left as it is.
LEMMA ClosesGently ==
  ASSUME StateInv, UNCHANGED <<faults, harmed, cam_talk, started>>,
         CloseCamera \/ UNCHANGED <<camVars, sub>>
  PROVE  Gently
<1>1. CASE CloseCamera
  <2>1. UNCHANGED <<faults, harmed>> /\ UNCHANGED cam_talk /\ UNCHANGED started
    OBVIOUS
  <2> QED BY <1>1, <2>1, Closing DEF Gently, StateInv
<1>2. CASE UNCHANGED <<camVars, sub>>
  <2>1. UNCHANGED <<sock, dispatcher, sub, faults, harmed, cam_talk, started>>
    BY <1>2 DEF camVars
  <2> QED BY <2>1, Quietly
<1> QED BY <1>1, <1>2

LEMMA PollTalk ==
  ASSUME StateInv, TalkInv, NEW p \in Poller, PollerStep(p)
  PROVE  TalkInv' /\ TalkTypes
<1> p \in Helper /\ p \notin Talker /\ Talker \subseteq Helper /\ Control
  BY Polling, Kinds DEF Helper
<1>1. CASE Step(p)
  BY <1>1, StepTalk
<1>2. ASSUME Gently, \E to : Goto(p, to) \/ UNCHANGED pc
      PROVE  TalkInv' /\ TalkTypes
  <2>1. \A t \in Talker : pc'[t] \in Beginning => pc[t] \in Beginning
    BY <1>2 DEF Goto, StateInv, PcType
  <2> QED BY <1>2, <2>1, TalkGently
<1>3. CASE StartPolling(p) \/ Request(p)
  <2>1. UNCHANGED <<sock, dispatcher, sub, faults, harmed, cam_talk, started>>
    BY <1>3 DEF StartPolling, Request, camVars
  <2>2. \E to : Goto(p, to) \/ UNCHANGED pc
    BY <1>3 DEF StartPolling, Request
  <2> QED BY <1>2, <2>1, <2>2, Quietly
<1>4. CASE CloseFirst(p) \/ RequestFinally(p)
  <2>1. /\ UNCHANGED <<faults, harmed, cam_talk, started>>
        /\ CloseCamera \/ UNCHANGED <<camVars, sub>>
    BY <1>4 DEF CloseFirst, RequestFinally, histVars
  <2>2. \E to : Goto(p, to) \/ UNCHANGED pc
    BY <1>4 DEF CloseFirst, RequestFinally
  <2> QED BY <1>2, <2>1, <2>2, ClosesGently
<1>5. CASE Wait(p)
  <2>1. /\ UNCHANGED <<sub, cam_talk, started>>
        /\ Send(p, "wait_reconnect") \/ UNCHANGED <<camVars, faults, harmed>>
        /\ \E to : Goto(p, to) \/ UNCHANGED pc
    BY <1>5 DEF Wait, Keepalive, Send
  <2>2. CASE Send(p, "wait_reconnect")
    <3>1. Milder
      BY <2>2, Sending DEF StateInv
    <3> QED BY <1>2, <2>1, <3>1, Politely
  <2>3. CASE UNCHANGED <<camVars, faults, harmed>>
    <3>1. UNCHANGED <<sock, dispatcher, sub, faults, harmed, cam_talk, started>>
      BY <2>1, <2>3 DEF camVars
    <3> QED BY <1>2, <2>1, <3>1, Quietly
  <2> QED BY <2>1, <2>2, <2>3
<1>6. CASE WaitReconnect(p)
  <2>1. /\ UNCHANGED <<cam_talk, started>>
        /\ Reconnected(sub) \/ ReconnectFails(sub)
        /\ \E to : Goto(p, to) \/ UNCHANGED pc
    BY <1>6 DEF WaitReconnect
  <2> QED BY <1>2, <2>1, ReconnectGently
<1> QED BY <1>1, <1>3, <1>4, <1>5, <1>6 DEF PollerStep

LEMMA TalkerTalk ==
  ASSUME StateInv, TalkInv, NEW t \in Talker, TalkerStep(t)
  PROVE  TalkInv' /\ TalkTypes
<1> t \in Helper /\ Course(t) /\ Control
  BY Talking DEF Helper
<1>1. CASE Step(t)
  BY <1>1, StepTalk
<1>2. CASE StartPlaying(t) \/ OnReady(t) \/ BlocksEnd(t)
  <2>1. /\ UNCHANGED <<sock, dispatcher, sub, faults, harmed, cam_talk, started>>
        /\ pc[t] # "stop_again"
    BY <1>2 DEF StartPlaying, OnReady, BlocksEnd, camVars, histVars
  <2> QED BY <2>1, Quietly, GentleStep
<1>3. CASE SendBlock(t)
  <2>1. UNCHANGED <<sub, cam_talk, started>> /\ pc[t] # "stop_again"
    BY <1>3 DEF SendBlock
  <2>2. Milder
    BY <1>3, Sending DEF SendBlock, StateInv
  <2> QED BY <2>1, <2>2, Politely, GentleStep
<1>4. CASE Stop(t)
  BY <1>4, StopTalk
<1> QED BY <1>1, <1>2, <1>3, <1>4 DEF TalkerStep

LEMMA TalkStep ==
  ASSUME StateInv, TalkInv, Next
  PROVE  TalkInv' /\ TalkTypes
<1> Control
  BY Steps
<1>1. CASE \E h \in Helper : ReplyLost(h)
  <2>1. Gently /\ UNCHANGED pc
    BY <1>1, ReplyLostGently
  <2>2. \A t \in Talker : pc'[t] \in Beginning => pc[t] \in Beginning
    BY <2>1
  <2> QED BY <2>1, <2>2, TalkGently
<1>2. CASE Break \/ DispatcherDies
  BY <1>2, BreakTalk
<1>3. CASE \E l \in Listener : ListenerStep(l) \/ Leave(l)
  BY <1>3, ListenTalk
<1>4. CASE \E p \in Poller : PollerStep(p)
  BY <1>4, PollTalk
<1>5. CASE \E t \in Talker : TalkerStep(t)
  BY <1>5, TalkerTalk
<1> QED BY <1>1, <1>2, <1>3, <1>4, <1>5 DEF Next

(***************************************************************************)
(* The inductive invariant, and what follows from it.                       *)
(***************************************************************************)

Safe == LeaseSafe /\ TalkInv

LEMMA SafeInit ==
  ASSUME Init
  PROVE  Safe
<1>1. CamType
  BY DEF Init, CamType, Fate
<1>2. LeaseType
  BY DEF Init, LeaseType
<1>3. PollType
  <2>1. 0 \in 0 .. Count /\ 0 \in 0 .. 2
    OBVIOUS
  <2> QED BY <2>1 DEF Init, PollType
<1>4. TalkType
  <2>1. 0 \in 0 .. MaxFaults
    OBVIOUS
  <2> QED BY <2>1 DEF Init, TalkType
<1>5. \A h \in Helper : pc[h] \in {"enter", "done"}
  BY DEF Init
<1>6. PcType
  BY DEF Init, PcType, At
<1>7. PollInv
  <2>1. \A p \in Poller : seen[p] < Count
    BY DEF Init
  <2> QED BY <1>5, <2>1 DEF PollInv, PollerAt, Helper
<1>8. \A t \in Talker : pc[t] # "reconnect"
  BY <1>5 DEF Helper
<1>9. Leases = {} /\ Exiting = {} /\ Cardinality({}) = 0 /\ Cardinality(Came) \in Nat
  <2>1. Came \in SUBSET Helper
    BY DEF Came
  <2> QED BY <1>5, <2>1, Sizes, FS_EmptySet DEF Init, Leases, Exiting
<1>10. LeaseCounted
  <2>1. online_required = 0
    BY DEF Init
  <2>2. online_required = Cardinality(Leases)
    BY <1>9, <2>1
  <2> QED BY <2>2, Zenon DEF LeaseCounted, Leases
<1>11. LeaseInv
  <2>1. Bounded
    BY <1>9 DEF Init, Bounded
  <2>2. ListenersHold /\ ExitsAlone
    BY <1>5, <1>9 DEF ListenersHold, ExitsAlone, Helper
  <2> QED BY <2>1, <2>2 DEF LeaseInv
<1>12. SeenInv
  BY <1>9 DEF SeenInv
<1>13. TalkInv
  <2>1. cam_talk \in {"free", "busy"} /\ \A h \in Helper : Own(h) = "none"
    BY Subs DEF Init, Own
  <2> QED BY <2>1 DEF TalkInv, OwnerCanStop, BeginningBare, Helper
<1> QED
  BY <1>1, <1>2, <1>3, <1>4, <1>6, <1>7, <1>8, <1>10, <1>11, <1>12, <1>13
  DEF Safe, LeaseSafe, StateInv

LEMMA SafeStep ==
  ASSUME Safe, Next
  PROVE  Safe'
<1>1. Control /\ TalkInv' /\ CamType' /\ TalkType'
  BY Steps, TalkStep DEF Safe, LeaseSafe, TalkTypes
<1>2. /\ Places' /\ LeaseCounted' /\ LeaseInv' /\ SeenInv' /\ LeaseType'
  <2>1. ASSUME NEW h \in Helper, Course(h)
        PROVE  Places' /\ LeaseCounted' /\ LeaseInv' /\ SeenInv' /\ LeaseType'
    <3>1. Places'
      BY <2>1, PlacesStep DEF Safe, LeaseSafe
    <3>2. /\ LeaseCounted' /\ LeaseInv' /\ online_required' \in Nat
          /\ lease' \in [Helper -> BOOLEAN] /\ loaded' \in [Helper -> Nat]
      BY <2>1, LeaseStep DEF Safe, LeaseSafe
    <3>3. SeenInv' /\ overlapped' \in BOOLEAN /\ late' \in [Poller -> SUBSET Helper]
      BY <2>1, SeenStep DEF Safe
    <3> QED BY <3>1, <3>2, <3>3 DEF LeaseType
  <2>2. ASSUME NEW p \in Poller, Request(p) \/ RequestFinally(p)
        PROVE  Places' /\ LeaseCounted' /\ LeaseInv' /\ SeenInv' /\ LeaseType'
    <3>1. p \in Helper /\ p \notin Listener
      BY Kinds DEF Helper
    <3>2. /\ Places'
          /\ \E to \in At \ {"enter", "store", "done"} :
                 Goto(p, to) /\ pc[p] \in {"poll", "finally"}
          /\ UNCHANGED <<online_required, lease, loaded, overlapped>>
      BY <2>2, PlacesPoll DEF Safe, LeaseSafe
    <3>3. LeaseCounted' /\ LeaseInv'
      BY <3>1, <3>2, LeaseLeft DEF Safe, LeaseSafe
    <3>4. SeenInv' /\ late' \in [Poller -> SUBSET Helper]
      BY <2>2, SeenAsked DEF Safe
    <3> QED BY <3>2, <3>3, <3>4 DEF LeaseType, Safe, LeaseSafe, StateInv
  <2>3. CASE UNCHANGED <<leaseVars, overlapped, late, effective_online, seen, pc>>
    <3>1. /\ online_required' = online_required /\ lease' = lease /\ loaded' = loaded
          /\ overlapped' = overlapped /\ late' = late
          /\ effective_online' = effective_online /\ pc' = pc
      BY <2>3 DEF leaseVars
    <3>2. Places'
      BY <2>3, PlaceKept, Placed DEF Safe, LeaseSafe
    <3>3. Came' = Came /\ Exiting' = Exiting /\ Leases' = Leases
          /\ \A p \in Poller : InRequest(p)' = InRequest(p)
      BY <3>1 DEF Came, Exiting, Leases, InRequest
    <3>4. Bounded' /\ ListenersHold'
      BY <3>1, <3>3 DEF Safe, LeaseSafe, LeaseInv, Bounded, ListenersHold
    <3>5. ExitsAlone'
      BY <3>1, <3>3 DEF Safe, LeaseSafe, LeaseInv, ExitsAlone
    <3>6. LeaseCounted'
      <4>1. overlapped \/ online_required = Cardinality(Leases)
        BY Zenon DEF Safe, LeaseSafe, LeaseCounted, Leases
      <4>2. overlapped' \/ online_required' = Cardinality(Leases')
        BY <3>1, <3>3, <4>1
      <4> QED BY <4>2, Zenon DEF LeaseCounted, Leases
    <3>7. SeenInv'
      BY <3>1, <3>3 DEF SeenInv, Safe, LeaseSafe
    <3>8. LeaseType'
      BY <3>1 DEF LeaseType, Safe, LeaseSafe, StateInv
    <3> QED BY <3>2, <3>4, <3>5, <3>6, <3>7, <3>8 DEF LeaseInv
  <2>4. \/ \E h \in Helper : Course(h)
        \/ \E p \in Poller : Request(p) \/ RequestFinally(p)
        \/ UNCHANGED <<leaseVars, overlapped, late, effective_online, seen, pc>>
    BY Steps DEF Safe, LeaseSafe
  <2> QED BY <2>1, <2>2, <2>3, <2>4
<1>3. PollType' /\ PcType'
  BY <1>1, <1>2 DEF Places, Control, PollType, PcType
<1>4. PollInv' /\ \A t \in Talker : pc'[t] # "reconnect"
  BY <1>2 DEF Places
<1> QED BY <1>1, <1>2, <1>3, <1>4 DEF Safe, LeaseSafe, StateInv

LEMMA SafeStays ==
  ASSUME Safe, UNCHANGED vars
  PROVE  Safe'
<1>1. /\ sock' = sock /\ dispatcher' = dispatcher /\ sub' = sub
      /\ online_required' = online_required /\ lease' = lease /\ loaded' = loaded
      /\ pc' = pc /\ attempt' = attempt /\ effective_online' = effective_online
      /\ tries' = tries /\ seen' = seen /\ entered' = entered /\ started' = started
      /\ cam_talk' = cam_talk /\ faults' = faults
      /\ overlapped' = overlapped /\ late' = late /\ harmed' = harmed
  BY DEF vars, leaseVars, pollVars, histVars
<1>2. StateInv'
  <2>1. CamType' /\ TalkType'
    BY <1>1 DEF CamType, TalkType, Safe, LeaseSafe, StateInv
  <2>2. LeaseType' /\ PollType' /\ PcType'
    BY <1>1 DEF LeaseType, PollType, PcType, Safe, LeaseSafe, StateInv
  <2>3. PollInv' /\ \A t \in Talker : pc'[t] # "reconnect"
    BY <1>1 DEF PollInv, Safe, LeaseSafe, StateInv
  <2> QED BY <2>1, <2>2, <2>3 DEF StateInv
<1>3. Came' = Came /\ Exiting' = Exiting /\ Leases' = Leases
      /\ \A p \in Poller : InRequest(p)' = InRequest(p)
  BY <1>1 DEF Came, Exiting, Leases, InRequest
<1>4. Bounded' /\ ListenersHold'
  BY <1>1, <1>3 DEF Safe, LeaseSafe, LeaseInv, Bounded, ListenersHold
<1>5. ExitsAlone'
  BY <1>1, <1>3 DEF Safe, LeaseSafe, LeaseInv, ExitsAlone
<1>6. LeaseCounted'
  <2>1. overlapped \/ online_required = Cardinality(Leases)
    BY Zenon DEF Safe, LeaseSafe, LeaseCounted, Leases
  <2>2. overlapped' \/ online_required' = Cardinality(Leases')
    BY <1>1, <1>3, <2>1
  <2> QED BY <2>2, Zenon DEF LeaseCounted, Leases
<1>7. SeenInv'
  BY <1>1, <1>3 DEF SeenInv, Safe, LeaseSafe
<1>8. TalkInv'
  BY <1>1 DEF TalkInv, OwnerCanStop, BeginningBare, Own, Safe
<1> QED BY <1>2, <1>4, <1>5, <1>6, <1>7, <1>8 DEF Safe, LeaseSafe, LeaseInv

THEOREM Safety == Spec => []Safe
<1>1. Safe /\ [Next]_vars => Safe'
  BY SafeStep, SafeStays
<1> QED BY SafeInit, <1>1, PTL DEF Spec

\* The counter of Camera._online_required is the number of leases in force, for any
\* number of helpers that enter and leave, fail, are refused and start again, until
\* two threads meet in a change of it.  (CameraOnlineLease.)
THEOREM LeasesCounted == Spec => []HelpersInv
<1>1. Safe => HelpersInv
  <2> SUFFICES ASSUME Safe
               PROVE  HelpersInv
    OBVIOUS
  <2>1. Came \in SUBSET Helper
    BY DEF Came
  <2>2. /\ Cardinality(Came) \in Nat /\ Cardinality(Helper) \in Nat
        /\ Cardinality(Came) <= Cardinality(Helper)
    BY <2>1, Sizes
  <2>3. /\ online_required \in 0 .. Cardinality(Helper)
        /\ \A h \in Helper : loaded[h] \in 0 .. Cardinality(Helper)
    BY <2>2 DEF Safe, LeaseSafe, StateInv, LeaseType, LeaseInv, Bounded
  <2>4. loaded \in [Helper -> 0 .. Cardinality(Helper)]
    BY <2>3 DEF Safe, LeaseSafe, StateInv, LeaseType
  <2>5. TypeOK
    BY <2>3, <2>4
    DEF Safe, LeaseSafe, StateInv, CamType, LeaseType, PollType, TalkType, PcType, Fate, TypeOK
  <2> QED BY <2>5 DEF HelpersInv, Safe, LeaseSafe
<1> QED BY <1>1, Safety, PTL

\* A poller that closes the session closes it under no lease that it could have seen.
\* (Battery._request.)
THEOREM SeenLeasesKept == Spec => SeenLeaseKept
<1>1. Safe => (\A p \in Poller :
                   Closes(p) => \A h \in Helper : lease[h] => overlapped \/ h \in late[p])
  <2> SUFFICES ASSUME Safe, NEW p \in Poller, Closes(p), NEW h \in Helper, lease[h]
               PROVE  overlapped \/ h \in late[p]
    OBVIOUS
  <2>1. InRequest(p) /\ ~ effective_online[p]
    BY DEF Closes, InRequest, Safe, LeaseSafe, StateInv, PollInv
  <2>2. h \in Leases
    BY DEF Leases
  <2> QED BY <2>1, <2>2 DEF Safe, LeaseSafe, SeenInv
<1> QED BY <1>1, Safety, PTL DEF SeenLeaseKept

\* A talker that has ended leaves no talk channel of its own open, whatever the other
\* helpers do to the session meanwhile, unless a fault took the way to close it or
\* the caller's on_ready raised.  (Voice.play and its stop.)
THEOREM ChannelReleased == Spec => []TalkReleased
<1>1. Safe => TalkReleased
  BY DEF Safe, TalkInv, OwnerCanStop, TalkReleased
<1> QED BY <1>1, Safety, PTL

=============================================================================
