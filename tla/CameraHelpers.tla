---------------------------- MODULE CameraHelpers ----------------------------
(***************************************************************************)
(* The helpers that share one Camera: motion listeners (motion.py), pollers *)
(* of the battery (battery.py) and talkers (voice.py), each in a thread of  *)
(* its own, with the online lease by which one asks the others not to       *)
(* close the session (internal/camera.py).                                  *)
(*                                                                         *)
(* The Camera is what CameraSession shows of it: close(), reconnect() and   *)
(* ensure_connected() are one step each, since they hold _reconnect_lock,   *)
(* and what they do to the others is done through their subscriptions.     *)
(* Losing a connection, a reply or an attempt to connect is a fault; there  *)
(* are at most MaxFaults.  A step of a thread lies between two points at    *)
(* which the interpreter may switch to another.                             *)
(***************************************************************************)
EXTENDS Integers, FiniteSetsExt

CONSTANTS
    Listener, Poller, Talker,   \* threads
    Mode,                       \* [Poller -> {"online", "reconnect"}], the mode argument
    Count,                      \* updates a poller asks for
    AtOnce,                     \* bound: how many of the threads take part
    MaxFaults                   \* bound: breaks, lost replies, failed connects

Helper == Listener \cup Poller \cup Talker

ASSUME HelpersAssumption ==
    /\ IsFiniteSet(Helper)
    /\ Listener \cap Poller = {} /\ Listener \cap Talker = {} /\ Poller \cap Talker = {}
    /\ {"free", "busy"} \cap Talker = {}
    /\ Mode \in [Poller -> {"online", "reconnect"}]
    /\ Count \in Nat \ {0} /\ AtOnce \in Nat /\ MaxFaults \in Nat

VARIABLES
    sock,               \* Camera.sock: none, up, or dead, which is a broken connection
    dispatcher,         \* off, requested (_dispatcher_requested alone), on
    sub,                \* the subscriptions: of a helper's exchange, and its own one
    online_required,    \* Camera._online_required
    lease, loaded,      \* CameraOnlineLease.active; what __exit__ is about to store
    pc, attempt,        \* where each helper is, and the attempt of its command()
    effective_online, tries, seen,  \* pollers: locals of _request, updates given
    entered,            \* listeners: has the first start() returned?
    started,            \* talkers: _started
    cam_talk, faults,   \* whose the camera's talk channel is (external); faults so far
    overlapped, late, harmed    \* history, see the properties

camVars    == <<sock, dispatcher>>
leaseVars  == <<online_required, lease, loaded>>
pollVars   == <<effective_online, tries, seen>>
histVars   == <<overlapped, late, harmed>>
vars == <<sock, dispatcher, sub, leaseVars, pc, attempt, pollVars, entered, started,
          cam_talk, faults, histVars>>

Sub == Helper \X {"reply", "own"}
At == {"enter", "ensure", "subscribe", "dispatcher", "command", "reply", "reconnect", "listen",
       "poll", "close", "finally", "wait", "wait_reconnect", "config", "config_reply", "again",
       "again_reply", "ready", "blocks", "stop", "stop_again", "release", "store", "done"}
Sends == {"command", "config", "again"}     \* where command() starts; it waits at Waits[here]
Waits == [at \in Sends |-> CASE at = "command" -> "reply" [] at = "config" -> "config_reply"
                               [] at = "again" -> "again_reply"]

TypeOK ==
    /\ sock \in {"none", "up", "dead"} /\ dispatcher \in {"off", "requested", "on"}
    /\ sub \in [Sub -> {"none", "routed", "unrouted", "closed", "lost", "fatal"}]
    /\ online_required \in 0 .. Cardinality(Helper)
    /\ lease \in [Helper -> BOOLEAN] /\ loaded \in [Helper -> 0 .. Cardinality(Helper)]
    /\ pc \in [Helper -> At] /\ attempt \in [Helper -> 0 .. 1]
    /\ effective_online \in [Poller -> BOOLEAN] /\ tries \in [Poller -> 0 .. 2]
    /\ seen \in [Poller -> 0 .. Count]
    /\ entered \in [Listener -> BOOLEAN] /\ started \in [Talker -> BOOLEAN]
    /\ cam_talk \in {"free", "busy"} \cup Talker /\ faults \in 0 .. MaxFaults
    /\ overlapped \in BOOLEAN /\ late \in [Poller -> SUBSET Helper]
    /\ harmed \in [Talker -> BOOLEAN]

Init ==
    /\ sock = "none" /\ dispatcher = "off"
    /\ sub = [s \in Sub |-> "none"]
    /\ online_required = 0
    /\ lease = [h \in Helper |-> FALSE] /\ loaded = [h \in Helper |-> 0]
    /\ \E group \in kSubset(AtOnce, Helper) :
           pc = [h \in Helper |-> IF h \in group THEN "enter" ELSE "done"]
    /\ attempt = [h \in Helper |-> 0]
    /\ effective_online = [p \in Poller |-> FALSE] /\ tries = [p \in Poller |-> 0]
    /\ seen = [p \in Poller |-> 0]
    /\ entered = [l \in Listener |-> FALSE] /\ started = [t \in Talker |-> FALSE]
    /\ cam_talk \in {"free", "busy"} /\ faults = 0
    /\ overlapped = FALSE /\ late = [p \in Poller |-> {}]
    /\ harmed = [t \in Talker |-> FALSE]

Goto(h, place) == pc' = [pc EXCEPT ![h] = place]

---------------------------------------------------------------------------
\* The Camera.

\* stop_dispatcher closes every subscription, but without a thread it only forgets
\* them: they stay active, and nothing is ever delivered to them.
Dropped(subs) ==
    [s \in Sub |-> IF subs[s] # "routed" THEN subs[s]
                   ELSE IF dispatcher = "on" THEN "closed" ELSE "unrouted"]

Failed(why) == [s \in Sub |-> IF sub[s] = "routed" THEN why ELSE sub[s]]
Without(s)  == [sub EXCEPT ![s] = "none"]

Fault == faults < MaxFaults /\ faults' = faults + 1

\* A talker whose channel is open now may find no way to close it.
Harm == harmed' = [t \in Talker |-> harmed[t] \/ cam_talk = t]

\* ensure_connected()
Connects ==
    /\ sock' = (IF sock = "none" THEN "up" ELSE sock)
    /\ dispatcher' = "on"
    /\ UNCHANGED <<faults, harmed>>
ConnectFails ==
    /\ sock = "none" /\ Fault /\ Harm
    /\ UNCHANGED <<sock, dispatcher>>

\* reconnect(), which restarts the dispatcher if one was wanted.
Reconnected(subs) ==
    /\ sock' = "up"
    /\ dispatcher' = (IF dispatcher = "off" THEN "off" ELSE "on")
    /\ sub' = Dropped(subs)
    /\ UNCHANGED <<faults, harmed>>
ReconnectFails(subs) ==
    /\ Fault /\ Harm
    /\ sock' = "none"
    /\ dispatcher' = (IF dispatcher = "off" THEN "off" ELSE "requested")
    /\ sub' = Dropped(subs)

\* close()
CloseCamera ==
    /\ sock' = "none" /\ dispatcher' = "off"
    /\ sub' = Dropped(sub)

\* The connection breaks; the dispatcher finds out and fails every subscription.
Break ==
    /\ sock = "up" /\ Fault /\ Harm
    /\ sock' = "dead"
    /\ sub' = (IF dispatcher = "on" THEN Failed("lost") ELSE sub)
    /\ UNCHANGED <<dispatcher, leaseVars, pc, attempt, pollVars, entered, started, cam_talk,
                   overlapped, late>>

\* A dispatcher that was started on a broken connection, or on none.
DispatcherDies ==
    /\ dispatcher = "on" /\ sock # "up" /\ Harm
    /\ \E s \in Sub : sub[s] = "routed"
    /\ sub' = Failed(IF sock = "none" THEN "fatal" ELSE "lost")
    /\ UNCHANGED <<camVars, leaseVars, pc, attempt, pollVars, entered, started, cam_talk, faults,
                   overlapped, late>>

---------------------------------------------------------------------------
\* The online lease.  __enter__ adds one in a single step of the interpreter; in
\* __exit__ the call of max() lets another thread run between the load and the store.

Exiting == {h \in Helper : pc[h] = "store"}

InRequest(p) == pc[p] \in {"close", "command", "reply", "reconnect", "finally"}

CountUp(h) ==
    /\ online_required' = online_required + 1
    /\ lease' = [lease EXCEPT ![h] = TRUE]
    /\ overlapped' = (overlapped \/ Exiting # {})
    /\ late' = [p \in Poller |-> IF InRequest(p) THEN late[p] \cup {h} ELSE {}]

EnterLeaseAgain(h) ==   \* mutant: start() enters the lease it already holds
    CountUp(h) /\ UNCHANGED loaded

EnterLease(h) ==
    /\ \/ ~lease[h] /\ CountUp(h)
       \/ lease[h] /\ UNCHANGED <<online_required, lease, overlapped, late>>
    /\ UNCHANGED loaded

ExitLease(h) ==
    /\ pc[h] = "release"
    /\ IF lease[h]
         THEN /\ loaded' = [loaded EXCEPT ![h] = IF online_required > 0 THEN online_required - 1 ELSE 0]
              /\ Goto(h, "store")
         ELSE Goto(h, "done") /\ UNCHANGED loaded
    /\ UNCHANGED <<camVars, sub, online_required, lease, attempt, pollVars, entered, started,
                   cam_talk, faults, histVars>>

ExitLeaseStore(h) ==
    /\ pc[h] = "store"
    /\ online_required' = loaded[h]
    /\ lease' = [lease EXCEPT ![h] = FALSE]
    /\ loaded' = [loaded EXCEPT ![h] = 0]
    /\ overlapped' = (overlapped \/ Exiting # {h})
    /\ Goto(h, "done")
    /\ UNCHANGED <<camVars, sub, attempt, pollVars, entered, started, cam_talk, faults,
                   late, harmed>>

---------------------------------------------------------------------------
\* command(): one exchange, and after a failure one reconnection and another.

\* Where an exception of command() takes each helper, and a reply that refuses.
Raises(h, lost) ==
    /\ attempt' = [attempt EXCEPT ![h] = 0]
    /\ \/ h \in Listener /\ Goto(h, IF entered[h] THEN "close" ELSE "done") /\ UNCHANGED tries
       \/ h \in Talker /\ Goto(h, "release") /\ UNCHANGED tries
       \/ /\ h \in Poller
          /\ IF lost /\ tries[h] = 0
               THEN tries' = [tries EXCEPT ![h] = 1] /\ Goto(h, "reconnect")
               ELSE tries' = [tries EXCEPT ![h] = 2] /\ Goto(h, "finally")
    /\ UNCHANGED <<effective_online, seen, entered, started, cam_talk>>

Refused(h) ==
    /\ attempt' = [attempt EXCEPT ![h] = 0]
    /\ Goto(h, IF h \in Listener THEN "close" ELSE IF h \in Talker THEN "release" ELSE "finally")
    /\ tries' = [p \in Poller |-> IF p = h THEN 2 ELSE tries[p]]
    /\ UNCHANGED <<effective_online, seen, entered, started, cam_talk>>

Accepted(h) ==
    /\ attempt' = [attempt EXCEPT ![h] = 0]
    /\ UNCHANGED pollVars
    /\ \/ h \in Listener /\ Goto(h, "listen") /\ entered' = [entered EXCEPT ![h] = TRUE]
          /\ UNCHANGED <<started, cam_talk>>
       \/ h \in Poller /\ Goto(h, "finally") /\ UNCHANGED <<entered, started, cam_talk>>
       \/ /\ h \in Talker /\ UNCHANGED entered
          /\ \/ pc[h] = "reply" /\ Goto(h, "config") /\ UNCHANGED <<started, cam_talk>>
             \/ /\ pc[h] # "reply" /\ cam_talk = "free"
                /\ cam_talk' = h /\ started' = [started EXCEPT ![h] = TRUE] /\ Goto(h, "ready")
             \/ /\ pc[h] # "reply" /\ cam_talk # "free"        \* response 422
                /\ Goto(h, IF pc[h] = "config_reply" THEN "stop_again" ELSE "release")
                /\ UNCHANGED <<started, cam_talk>>

CommandSend(h) ==
    /\ pc[h] \in Sends
    /\ \/ Connects /\ sub' = [sub EXCEPT ![<<h, "reply">>] = "routed"]
       \/ ConnectFails /\ sub' = [sub EXCEPT ![<<h, "reply">>] = "lost"]
    /\ Goto(h, Waits[pc[h]])
    /\ UNCHANGED <<leaseVars, attempt, pollVars, entered, started, cam_talk, overlapped, late>>

CommandReply(h) ==
    /\ \E at \in Sends : pc[h] = Waits[at]
    /\ sub[<<h, "reply">>] = "routed" /\ sock = "up" /\ dispatcher = "on"
    /\ sub' = Without(<<h, "reply">>)
    /\ Accepted(h) \/ Refused(h)
    /\ UNCHANGED <<camVars, leaseVars, faults, histVars>>

\* No reply before the timeout.
ReplyLost(h) ==
    /\ sub[<<h, "reply">>] = "routed" /\ Fault
    /\ sub' = [sub EXCEPT ![<<h, "reply">>] = "lost"]
    /\ UNCHANGED <<camVars, leaseVars, pc, attempt, pollVars, entered, started, cam_talk, histVars>>

CommandFails(h) ==
    \E at \in Sends :
        /\ pc[h] = Waits[at]
        /\ LET why == sub[<<h, "reply">>]  left == Without(<<h, "reply">>) IN
           \/ /\ why = "fatal" \/ (attempt[h] = 1 /\ why \in {"closed", "lost", "unrouted"})
              /\ Raises(h, why # "fatal")
              /\ sub' = left /\ UNCHANGED <<camVars, faults, harmed>>
           \/ /\ attempt[h] = 0 /\ why \in {"closed", "lost", "unrouted"}
              /\ \/ /\ Reconnected(left)
                    /\ attempt' = [attempt EXCEPT ![h] = 1] /\ Goto(h, at)
                    /\ UNCHANGED <<pollVars, entered, started, cam_talk>>
                 \/ ReconnectFails(left) /\ Raises(h, TRUE)
        /\ UNCHANGED <<leaseVars, overlapped, late>>

---------------------------------------------------------------------------
\* A motion listener: with watch() as events: for event in events.

StartListening(l) ==
    /\ pc[l] = "enter" /\ EnterLease(l)
    /\ Goto(l, "ensure")
    /\ UNCHANGED <<camVars, sub, attempt, pollVars, entered, started, cam_talk, faults, harmed>>

EnsureConnected(l) ==
    /\ pc[l] = "ensure"
    /\ \/ Connects /\ Goto(l, "subscribe") /\ UNCHANGED <<attempt, pollVars, entered, started, cam_talk>>
       \/ ConnectFails /\ Raises(l, TRUE)
    /\ UNCHANGED <<sub, leaseVars, overlapped, late>>

\* subscribe_messages() registers the rule, and then sees that a dispatcher runs.
Subscribe(h) ==
    /\ pc[h] = "subscribe"
    /\ sub' = [sub EXCEPT ![<<h, "own">>] = "routed"]
    /\ dispatcher' = (IF dispatcher = "off" THEN "requested" ELSE dispatcher)
    /\ Goto(h, "dispatcher")
    /\ UNCHANGED <<sock, leaseVars, attempt, pollVars, entered, started, cam_talk, faults, histVars>>

EnsureDispatcherActive(h) ==
    /\ pc[h] = "dispatcher"
    /\ dispatcher' = (IF dispatcher = "requested" THEN "on" ELSE dispatcher)
    /\ Goto(h, IF h \in Listener THEN "command" ELSE "blocks")
    /\ UNCHANGED <<sock, sub, leaseVars, attempt, pollVars, entered, started, cam_talk, faults,
                   histVars>>

\* send(), and where an exception of it leads.
Send(h, place) ==
    \/ sock # "dead" /\ Connects /\ UNCHANGED pc
    \/ ConnectFails /\ Goto(h, place)
    \/ sock = "dead" /\ Goto(h, place) /\ UNCHANGED <<camVars, faults, harmed>>

\* The keepalive of __next__ is sent outside its try.
ListenKeepalive(l) ==
    /\ pc[l] = "listen" /\ Send(l, "close")
    /\ UNCHANGED <<sub, leaseVars, attempt, pollVars, entered, started, cam_talk, overlapped, late>>

RestartOnlyFailed(l) ==     \* mutant: a closed subscription is taken for a quiet one
    /\ pc[l] = "listen" /\ sub[<<l, "own">>] = "lost"
    /\ sub' = Without(<<l, "own">>) /\ Goto(l, "reconnect")
    /\ UNCHANGED <<camVars, leaseVars, attempt, pollVars, entered, started, cam_talk, faults, histVars>>

RestartClosedSubscription(l) ==
    /\ pc[l] = "listen" /\ sub[<<l, "own">>] \in {"closed", "lost"}
    /\ sub' = Without(<<l, "own">>) /\ Goto(l, "reconnect")
    /\ UNCHANGED <<camVars, leaseVars, attempt, pollVars, entered, started, cam_talk, faults, histVars>>

ListenFails(l) ==
    /\ pc[l] = "listen" /\ sub[<<l, "own">>] = "fatal"
    /\ Goto(l, "close")
    /\ UNCHANGED <<camVars, sub, leaseVars, attempt, pollVars, entered, started, cam_talk, faults,
                   histVars>>

\* The duration is over or the caller has seen enough, as status() has after one event.
Leave(l) ==
    /\ pc[l] = "listen" /\ Goto(l, "close")
    /\ UNCHANGED <<camVars, sub, leaseVars, attempt, pollVars, entered, started, cam_talk, faults,
                   histVars>>

CloseListener(l) ==
    /\ l \in Listener /\ pc[l] = "close"
    /\ sub' = Without(<<l, "own">>)
    /\ Goto(l, "release")
    /\ UNCHANGED <<camVars, leaseVars, attempt, pollVars, entered, started, cam_talk, faults, histVars>>

Reconnect(h) ==
    /\ pc[h] = "reconnect"
    /\ \/ Reconnected(sub) /\ Goto(h, IF h \in Listener THEN "enter" ELSE "command")
          /\ UNCHANGED tries
       \/ ReconnectFails(sub) /\ Goto(h, IF h \in Listener THEN "close" ELSE "finally")
          /\ tries' = [p \in Poller |-> IF p = h THEN 2 ELSE tries[p]]
    /\ UNCHANGED <<leaseVars, attempt, effective_online, seen, entered, started, cam_talk,
                   overlapped, late>>

---------------------------------------------------------------------------
\* A poller of the battery: with info(interval, count, mode) as updates.

StartPolling(p) ==
    /\ p \in Poller /\ pc[p] = "enter"
    /\ IF Mode[p] = "online" THEN EnterLease(p) ELSE UNCHANGED <<leaseVars, overlapped, late>>
    /\ Goto(p, "poll")
    /\ UNCHANGED <<camVars, sub, attempt, pollVars, entered, started, cam_talk, faults, harmed>>

\* _request; tries = 2 says that it unwinds.
RequestOwnMode(p) ==    \* mutant: the lease of the others is not looked at
    /\ pc[p] = "poll"
    /\ effective_online' = [effective_online EXCEPT ![p] = Mode[p] = "online"]
    /\ late' = [late EXCEPT ![p] = {}]
    /\ tries' = [tries EXCEPT ![p] = 0]
    /\ Goto(p, IF effective_online'[p] THEN "command" ELSE "close")
    /\ UNCHANGED <<camVars, sub, leaseVars, attempt, seen, entered, started, cam_talk, faults,
                   overlapped, harmed>>

Request(p) ==
    /\ pc[p] = "poll"
    /\ effective_online' = [effective_online EXCEPT ![p] = Mode[p] = "online" \/ online_required > 0]
    /\ late' = [late EXCEPT ![p] = {}]
    /\ tries' = [tries EXCEPT ![p] = 0]
    /\ Goto(p, IF effective_online'[p] THEN "command" ELSE "close")
    /\ UNCHANGED <<camVars, sub, leaseVars, attempt, seen, entered, started, cam_talk, faults,
                   overlapped, harmed>>

CloseFirst(p) ==
    /\ p \in Poller /\ pc[p] = "close"
    /\ CloseCamera /\ Goto(p, "command")
    /\ UNCHANGED <<leaseVars, attempt, pollVars, entered, started, cam_talk, faults, histVars>>

More(p) == seen[p] + 1 < Count

RequestFinally(p) ==
    /\ pc[p] = "finally"
    /\ IF effective_online[p] THEN UNCHANGED <<camVars, sub>> ELSE CloseCamera
    /\ IF tries[p] = 2 THEN Goto(p, "release") /\ UNCHANGED seen
       ELSE /\ seen' = [seen EXCEPT ![p] = @ + 1]
            /\ Goto(p, IF More(p) THEN "wait" ELSE "release")
    /\ effective_online' = [effective_online EXCEPT ![p] = FALSE]
    /\ tries' = [tries EXCEPT ![p] = 0] /\ late' = [late EXCEPT ![p] = {}]
    /\ UNCHANGED <<leaseVars, attempt, entered, started, cam_talk, faults, overlapped, harmed>>

Keepalive(p) == Send(p, "wait_reconnect")   \* Camera.keepalive()

\* _wait: only the longer form of it sends keepalives, and reconnects when they fail.
Wait(p) ==
    /\ pc[p] = "wait"
    /\ \/ Goto(p, "poll") /\ UNCHANGED <<camVars, faults, harmed>>
       \/ (Mode[p] = "online" \/ online_required > 0) /\ Keepalive(p)
    /\ UNCHANGED <<sub, leaseVars, attempt, pollVars, entered, started, cam_talk, overlapped, late>>

WaitReconnect(p) ==
    /\ pc[p] = "wait_reconnect"
    /\ \/ Reconnected(sub) /\ Goto(p, "wait")
       \/ ReconnectFails(sub) /\ Goto(p, "release")
    /\ UNCHANGED <<leaseVars, attempt, pollVars, entered, started, cam_talk, overlapped, late>>

---------------------------------------------------------------------------
\* A talker: play(), tone() or microphone(), which differ in where the blocks come from.

StartPlaying(t) ==
    /\ t \in Talker /\ pc[t] = "enter" /\ EnterLease(t)
    /\ Goto(t, "command")
    /\ UNCHANGED <<camVars, sub, attempt, pollVars, entered, started, cam_talk, faults, harmed>>

\* on_ready, a callback of the caller, runs before the try.
OnReady(t) ==
    /\ pc[t] = "ready"
    /\ \E place \in {"subscribe", "release"} : Goto(t, place)
    /\ UNCHANGED <<camVars, sub, leaseVars, attempt, pollVars, entered, started, cam_talk, faults,
                   histVars>>

\* _send_blocks, which may end at any block, with an exception or without.
SendBlock(t) ==
    /\ pc[t] = "blocks" /\ Send(t, "stop")
    /\ UNCHANGED <<sub, leaseVars, attempt, pollVars, entered, started, cam_talk, overlapped, late>>

BlocksEnd(t) ==
    /\ pc[t] = "blocks" /\ Goto(t, "stop")
    /\ UNCHANGED <<camVars, sub, leaseVars, attempt, pollVars, entered, started, cam_talk, faults,
                   histVars>>

\* Is TALKRESET sent?  Draining the replies raises what the dispatcher died of.
DrainsAlways(t) == sub[<<t, "own">>] \notin {"lost", "fatal", "closed"}  \* mutant: a timeout is not caught

Drains(t) == sub[<<t, "own">>] \notin {"lost", "fatal"}

Stop(t) ==
    /\ pc[t] \in {"stop", "stop_again"}
    /\ \/ Drains(t) /\ Connects /\ cam_talk' = IF sock = "dead" THEN cam_talk ELSE "free"
       \/ Drains(t) /\ ConnectFails /\ UNCHANGED cam_talk
       \/ ~Drains(t) /\ UNCHANGED <<camVars, faults, harmed, cam_talk>>
    /\ sub' = Without(<<t, "own">>)
    /\ started' = [started EXCEPT ![t] = FALSE]
    /\ Goto(t, IF pc[t] = "stop" THEN "release" ELSE "again")
    /\ UNCHANGED <<leaseVars, attempt, pollVars, entered, overlapped, late>>

---------------------------------------------------------------------------
\* What a thread does on its own; Leave is left to the caller.
Step(h) ==
    \/ ExitLease(h) \/ ExitLeaseStore(h) \/ CommandSend(h) \/ CommandReply(h) \/ CommandFails(h)
    \/ Subscribe(h) \/ EnsureDispatcherActive(h) \/ Reconnect(h)

ListenerStep(l) ==
    \/ Step(l) \/ StartListening(l) \/ EnsureConnected(l) \/ ListenKeepalive(l)
    \/ RestartClosedSubscription(l) \/ ListenFails(l) \/ CloseListener(l)

PollerStep(p) ==
    \/ Step(p) \/ StartPolling(p) \/ Request(p) \/ CloseFirst(p) \/ RequestFinally(p)
    \/ Wait(p) \/ WaitReconnect(p)

TalkerStep(t) ==
    Step(t) \/ StartPlaying(t) \/ OnReady(t) \/ SendBlock(t) \/ BlocksEnd(t) \/ Stop(t)

Next ==
    \/ \E l \in Listener : ListenerStep(l) \/ Leave(l)
    \/ \E p \in Poller : PollerStep(p)
    \/ \E t \in Talker : TalkerStep(t)
    \/ \E h \in Helper : ReplyLost(h)
    \/ Break \/ DispatcherDies

Spec == Init /\ [][Next]_vars
Fairness ==
    /\ \A l \in Listener : WF_vars(ListenerStep(l))
    /\ \A p \in Poller : WF_vars(PollerStep(p))
    /\ \A t \in Talker : WF_vars(TalkerStep(t))
    /\ WF_vars(DispatcherDies)
FairSpec == Spec /\ Fairness

---------------------------------------------------------------------------
\* The counter is the number of leases in force, through restarts, refusals and
\* failures of every helper, unless two threads met in a change of it.
\* (CameraOnlineLease, and who enters and leaves it.)
LeaseCounted ==
    overlapped \/ online_required = Cardinality({h \in Helper : lease[h]})
HelpersInv == TypeOK /\ LeaseCounted

\* A poller closes the session under a lease only if that lease was taken after the
\* poller looked: it keeps the sessions of all whom it could have seen.
\* (Battery._request, which looks once and closes twice.)
Closes(p) ==
    \/ pc[p] = "close" /\ pc'[p] # "close"
    \/ pc[p] = "finally" /\ pc'[p] # "finally" /\ ~effective_online[p]
SeenLeaseKept ==
    [][\A p \in Poller :
          Closes(p) => \A h \in Helper : lease[h] => overlapped \/ h \in late[p]]_vars

\* When nothing fails any more, a listener hears the camera or has told its caller
\* that it does not, unless its route was dropped by a thread that found no
\* dispatcher to stop.  (CameraEvents against every close() and reconnect().)
Hears(l) == pc[l] = "listen" /\ sub[<<l, "own">>] = "routed" /\ sock = "up" /\ dispatcher = "on"
ListenerRecovers ==
    \A l \in Listener : <>[](Hears(l) \/ pc[l] = "done" \/ sub[<<l, "own">>] = "unrouted")

\* A talker that has ended has closed the camera's talk channel, whatever other
\* helpers did to the session, unless a connection failed while it was open or the
\* caller's on_ready raised.  (Voice.play with its finally, stop.)
TalkReleased ==
    \A t \in Talker :
        pc[t] \in {"release", "store", "done"} /\ cam_talk = t => harmed[t] \/ started[t]

=============================================================================
