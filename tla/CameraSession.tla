---------------------------- MODULE CameraSession ----------------------------
(***************************************************************************)
(* The managed session of a Camera (camera.py): threads that call command() *)
(* and close() on one Camera, the reconnection they do under               *)
(* _reconnect_lock, the dispatcher thread that reads the socket for all of  *)
(* them, and the subscriptions through which it hands out replies.          *)
(*                                                                         *)
(* All commands have the same message id, so that only the message number   *)
(* tells their replies apart.  The two round trips of login() are one here. *)
(* A session is one transport connection; its number stands for the socket. *)
(* The camera and the network are external: a request may stay unanswered,  *)
(* a connection may break at any time, and any wait may time out.           *)
(*                                                                         *)
(* stop_dispatcher() gives a dispatcher up after two seconds; one that has   *)
(* part of a message is then still there when the connection is replaced,   *)
(* and may come to read the next one beside its successor.                  *)
(***************************************************************************)
EXTENDS Filter, FiniteSetsExt

CONSTANTS
    Caller,         \* threads; each calls command() or close() once
    Closer,         \* those that call close()
    AtOnce,         \* bound: how many of the threads take part
    Thread,         \* dispatcher threads, numbered
    Attempts,       \* of each command, reconnect_retries + 1
    MaxSessions,    \* bound: connections opened
    Fragile,        \* bound: those that may break, any of them may fall silent
    BatteryCamera,  \* is the device type one of BATTERY_CAMERA_TYPES?
    None            \* no thread holds the lock

ASSUME SessionAssumption ==
    /\ IsFiniteSet(Caller) /\ Closer \subseteq Caller
    /\ Thread \subseteq Nat \ {0} /\ Thread # {}
    /\ Attempts \in [Caller -> Nat \ {0}]
    /\ AtOnce \in Nat /\ MaxSessions \in Nat
    /\ BatteryCamera \in BOOLEAN
    /\ None \notin Caller

VARIABLES
    \* Camera; sock = 0 stands for None, dispatch_thread = 0 too
    sock, login_xml, readiness_required, session_ready,
    dispatcher_requested, dispatch_stop, dispatch_error, dispatch_thread,
    dispatcher,                 \* the dispatcher threads
    msg_num, waiters, unmatched,
    sub, queue,                 \* _MessageSubscription, by message number
    lock,                       \* who holds _reconnect_lock,
    section, restart, taken,    \*   and the locals of the method that took it
    pc, attempt, num, result,   \* the callers
    \* the connection and the camera (external)
    opened, wire, broken, cam_login, cam_reported, cam_requests,
    mixed,                      \* did two dispatchers read it, each some of its bytes?
    \* history, which no step looks at
    expired,                    \* did a join ever give up?
    survivors,                  \* the threads given up by a join, until started anew
    late_report                 \* since the login, was an earlier session's BatteryList handed out?

sockVars  == <<sock, login_xml, readiness_required, session_ready, late_report>>
flagVars  == <<dispatcher_requested, dispatch_stop, dispatch_error, dispatch_thread,
               expired, survivors>>
routeVars == <<waiters, unmatched, sub, queue>>
lockVars  == <<lock, section, restart, taken>>
callVars  == <<attempt, num, result>>
envVars   == <<opened, wire, broken, cam_login, cam_reported, cam_requests, mixed>>
vars      == <<sockVars, flagVars, dispatcher, msg_num, routeVars, lockVars, pc, callVars, envVars>>

\* A message number is taken at most once in each attempt of a command.
Exchange == UNION {{c} \X (1 .. Attempts[c]) : c \in Caller \ Closer}

Num     == 1 .. Cardinality(Exchange)
Session == 0 .. MaxSessions
Message ==
    [kind : {"login"}, num : Session] \cup [kind : {"battery_list"}, num : {0}]
        \cup [kind : {"reply", "torn"}, num : Num \cup {0}]
NoMessage == [kind |-> "none", num |-> 0]
BatteryList == [kind |-> "battery_list", num |-> 0]

\* A reply to a login is good for the session whose nonce it answers.
LoginReply(s) == [kind |-> "login", num |-> s]

\* A message whose header one dispatcher read and whose body another cut into: the header
\* still routes it, and makes a BatteryList an event.
Torn(m) ==
    IF m = BatteryList THEN m
    ELSE [kind |-> "torn", num |-> IF m.kind = "login" THEN 0 ELSE m.num]

\* What is raised: "lost" for TimeoutError, EOFError and OSError, which command()
\* catches, "fatal" for RuntimeError and ProtocolError.
Error == {"lost", "fatal"}

TypeOK ==
    /\ sock \in Session /\ opened \in Session
    /\ login_xml \in BOOLEAN /\ readiness_required \in BOOLEAN /\ session_ready \in BOOLEAN
    /\ dispatcher_requested \in BOOLEAN /\ dispatch_stop \in BOOLEAN
    /\ dispatch_error \in Error \cup {"none"}
    /\ dispatch_thread \in Thread \cup {0}
    /\ dispatcher \in [Thread -> [at : {"loop", "read", "have", "lost", "fatal", "dead"},
                                  session : Session, message : Message \cup {NoMessage}]]
    /\ msg_num \in Num \cup {0} /\ waiters \subseteq Num
    /\ unmatched \in Seq(Message)
    /\ sub \in [Num -> {"none", "active", "closed"} \cup Error]
    /\ queue \in [Num -> Seq(Message)]
    /\ lock \in Caller \cup {None}
    /\ pc \in [Caller -> {"start", "reconnect", "stop", "join", "closing", "connect", "login",
                          "login_recv", "direct", "poll", "dispatch", "ready",
                          "subscribe", "check", "send", "wait", "done", "failed"}]
    /\ section \in {"none", "ensure", "reconnect", "close"}
    /\ attempt \in [Caller -> Nat] /\ \A c \in Caller : attempt[c] \in 1 .. Attempts[c]
    /\ restart \in BOOLEAN
    /\ num \in [Caller -> Num \cup {0}]
    /\ taken \subseteq Num
    /\ result \in [Caller -> Message \cup {NoMessage}]
    /\ wire \in Seq(Message) /\ broken \in BOOLEAN
    /\ cam_login \in {"none", "asked", "ok"} /\ cam_reported \in BOOLEAN
    /\ cam_requests \subseteq Num
    /\ mixed \in BOOLEAN /\ expired \in BOOLEAN /\ late_report \in BOOLEAN
    /\ survivors \subseteq Thread

Dead == [at |-> "dead", session |-> 0, message |-> NoMessage]

Init ==
    /\ sock = 0 /\ opened = 0
    /\ login_xml = FALSE /\ readiness_required = FALSE /\ session_ready = TRUE
    /\ dispatcher_requested = FALSE /\ dispatch_stop = FALSE
    /\ dispatch_error = "none" /\ dispatch_thread = 0
    /\ dispatcher = [t \in Thread |-> Dead]
    /\ msg_num = 0 /\ waiters = {} /\ unmatched = <<>>
    /\ sub = [n \in Num |-> "none"] /\ queue = [n \in Num |-> <<>>]
    /\ lock = None /\ section = "none" /\ restart = FALSE /\ taken = {}
    /\ \E group \in kSubset(AtOnce, Caller) :
           pc = [c \in Caller |-> IF c \in group THEN "start" ELSE "failed"]
    /\ attempt = [c \in Caller |-> 1] /\ num = [c \in Caller |-> 0]
    /\ result = [c \in Caller |-> NoMessage]
    /\ wire = <<>> /\ broken = FALSE
    /\ cam_login = "none" /\ cam_reported = FALSE /\ cam_requests = {}
    /\ mixed = FALSE /\ expired = FALSE /\ survivors = {} /\ late_report = FALSE

(***************************************************************************)
(* Control of a caller.                                                     *)
(***************************************************************************)
Goto(c, l) == pc' = [pc EXCEPT ![c] = l]

\* The except clause of command(): reconnect() and try again, or give up.
Catch(c) ==
    IF attempt[c] < Attempts[c]
    THEN Goto(c, "reconnect") /\ attempt' = [attempt EXCEPT ![c] = @ + 1]
    ELSE Goto(c, "failed") /\ UNCHANGED attempt

Unlock == lock' = None /\ section' = "none" /\ restart' = FALSE /\ taken' = {}

\* An exception outside the lock.
Raise(c, error) ==
    IF error = "lost" THEN Catch(c) ELSE Goto(c, "failed") /\ UNCHANGED attempt


\* An exception under the lock.  command() does not catch what its own
\* reconnect() raises.
RaiseLocked(c, error) ==
    /\ Unlock
    /\ IF section = "ensure" THEN Raise(c, error) ELSE Goto(c, "failed") /\ UNCHANGED attempt

\* ensure_connected() goes on to the exchange, reconnect() to the next attempt.
Release(c) ==
    /\ Unlock
    /\ Goto(c, CASE section = "ensure"    -> "subscribe"
                 [] section = "reconnect" -> "start"
                 [] section = "close"     -> "done")

Acquire(c, what) ==
    /\ lock = None
    /\ lock' = c
    /\ section' = what

EnsureConnected(c) ==
    /\ pc[c] = "start" /\ c \notin Closer
    /\ Acquire(c, "ensure")
    /\ Goto(c, IF sock = 0 THEN "connect" ELSE IF ~ login_xml THEN "login" ELSE "dispatch")
    /\ UNCHANGED <<sockVars, flagVars, dispatcher, msg_num, routeVars,
                   attempt, num, result, restart, taken, envVars>>

Reconnect(c) ==
    /\ pc[c] = "reconnect"
    /\ Acquire(c, "reconnect")
    /\ restart' = (dispatcher_requested \/ dispatch_thread # 0)
    /\ Goto(c, "stop")
    /\ UNCHANGED <<sockVars, flagVars, dispatcher, msg_num, routeVars,
                   attempt, num, result, taken, envVars>>

Close(c) ==
    /\ pc[c] = "start" /\ c \in Closer
    /\ Acquire(c, "close")
    /\ Goto(c, "stop")
    /\ UNCHANGED <<sockVars, flagVars, dispatcher, msg_num, routeVars,
                   attempt, num, result, restart, taken, envVars>>

(***************************************************************************)
(* stop_dispatcher.                                                         *)
(***************************************************************************)
\* Without a thread the routes are dropped at once, and nobody closes them.
StopDispatcher(c) ==
    /\ pc[c] = "stop"
    /\ dispatcher_requested' = (dispatcher_requested /\ restart)
    /\ IF dispatch_thread = 0
       THEN /\ waiters' = {} /\ unmatched' = <<>> /\ dispatch_error' = "none"
            /\ Goto(c, "closing")
            /\ UNCHANGED dispatch_stop
       ELSE /\ dispatch_stop' = TRUE
            /\ Goto(c, "join")
            /\ UNCHANGED <<waiters, unmatched, dispatch_error>>
    /\ UNCHANGED <<sockVars, dispatch_thread, expired, survivors, dispatcher, msg_num, sub, queue,
                   lockVars, callVars, envVars>>

\* join(timeout=2.0): the dispatcher tests the stop event every 0.5 s, unless it has
\* part of a message: recv_exact then tolerates 20 s of silence, and join gives up.
GivesUp(t) == dispatcher[t].at = "read" /\ wire # <<>>

JoinDispatcher(c) ==
    /\ pc[c] = "join"
    /\ \/ dispatcher[dispatch_thread].at = "dead" /\ UNCHANGED <<expired, survivors>>
       \/ /\ GivesUp(dispatch_thread)
          /\ expired' = TRUE /\ survivors' = survivors \cup {dispatch_thread}
    /\ dispatch_thread' = 0
    /\ taken' = waiters
    /\ waiters' = {} /\ unmatched' = <<>> /\ dispatch_error' = "none"
    /\ Goto(c, "closing")
    /\ UNCHANGED <<sockVars, dispatcher_requested, dispatch_stop, dispatcher, msg_num,
                   sub, queue, lock, section, restart, attempt, num, result, envVars>>

\* The subscriptions taken are closed, then the socket.
CloseSession(c) ==
    /\ pc[c] = "closing"
    /\ sub' = [n \in Num |-> IF n \in taken /\ sub[n] = "active" THEN "closed" ELSE sub[n]]
    /\ sock' = 0 /\ login_xml' = FALSE
    /\ readiness_required' = FALSE /\ session_ready' = TRUE /\ late_report' = FALSE
    /\ wire' = <<>> /\ broken' = FALSE /\ mixed' = FALSE
    /\ cam_login' = "none" /\ cam_reported' = FALSE /\ cam_requests' = {}
    /\ IF section = "close"
       THEN Release(c) /\ UNCHANGED dispatcher_requested
       ELSE /\ dispatcher_requested' = restart
            /\ Goto(c, "connect")
            /\ taken' = {}
            /\ UNCHANGED <<lock, section, restart>>
    /\ UNCHANGED <<dispatch_stop, dispatch_error, dispatch_thread, expired, survivors,
                   dispatcher, msg_num, waiters, unmatched, queue, attempt, num, result, opened>>

(***************************************************************************)
(* connect, login, start_dispatcher and _wait_for_session_ready, all under   *)
(* the lock.                                                                *)
(***************************************************************************)
Connect(c) ==
    /\ pc[c] = "connect"
    /\ opened < MaxSessions
    /\ opened' = opened + 1 /\ sock' = opened + 1
    /\ Goto(c, "login")
    /\ UNCHANGED <<login_xml, readiness_required, session_ready, late_report, flagVars,
                   dispatcher, msg_num, routeVars, lockVars, callVars,
                   wire, broken, cam_login, cam_reported, cam_requests, mixed>>

ConnectFails(c) ==
    /\ pc[c] = "connect"
    /\ RaiseLocked(c, "lost")
    /\ UNCHANGED <<sockVars, flagVars, dispatcher, msg_num, routeVars,
                   num, result, envVars>>

Login(c) ==
    /\ pc[c] = "login"
    /\ IF broken THEN UNCHANGED cam_login ELSE cam_login' = "asked"
    /\ Goto(c, "login_recv")
    /\ UNCHANGED <<sockVars, flagVars, dispatcher, msg_num, routeVars, lockVars, callVars,
                   opened, wire, broken, cam_reported, cam_requests, mixed>>

threadVars == <<dispatch_thread, dispatcher, dispatch_stop, dispatch_error, expired, survivors>>

DispatcherActive == dispatch_thread # 0 /\ dispatcher[dispatch_thread].at # "dead"

\* start_dispatcher with no active thread.
StartThread ==
    \E t \in Thread :
        /\ dispatcher[t].at = "dead"
        /\ \A u \in Thread : u < t => dispatcher[u].at # "dead"
        /\ dispatch_thread' = t
        /\ dispatcher' = [dispatcher EXCEPT ![t].at = "loop"]
        /\ dispatch_stop' = FALSE /\ dispatch_error' = "none"
        /\ survivors' = survivors \ {t} /\ UNCHANGED expired

\* Mutant: every call starts a thread.
StartDispatcherAlways == StartThread

StartDispatcher ==
    IF DispatcherActive
    THEN UNCHANGED threadVars
    ELSE StartThread

\* _recv: once a dispatcher was asked for, login() reads through it.
LoginRecv(c) ==
    /\ pc[c] = "login_recv"
    /\ IF dispatcher_requested
       THEN StartDispatcher /\ Goto(c, "poll")
       ELSE /\ Goto(c, "direct")
            /\ UNCHANGED threadVars
    /\ UNCHANGED <<sockVars, dispatcher_requested, msg_num, routeVars, lockVars, callVars, envVars>>

\* Mutant: a readiness event left set by the session before is not cleared.
LoggedInStaleEvent(c) ==
    /\ login_xml' = TRUE
    /\ readiness_required' = BatteryCamera
    /\ UNCHANGED <<session_ready, late_report>>

LoggedIn(c) ==
    /\ login_xml' = TRUE
    /\ readiness_required' = BatteryCamera
    /\ session_ready' = ~ BatteryCamera
    /\ late_report' = FALSE

\* The rest of login(), given the message _recv returned.
LoginReplied(c, m) ==
    IF m = LoginReply(sock)
    THEN /\ LoggedIn(c)
         /\ IF section = "ensure" \/ restart
            THEN Goto(c, "dispatch") /\ UNCHANGED lockVars
            ELSE Release(c)
         /\ UNCHANGED attempt
    ELSE /\ RaiseLocked(c, "fatal")
         /\ UNCHANGED <<login_xml, readiness_required, session_ready, late_report>>

LoginReadsSocket(c) ==
    /\ pc[c] = "direct"
    /\ wire # <<>>
    /\ wire' = Tail(wire)
    /\ LoginReplied(c, Head(wire))
    /\ UNCHANGED <<sock, flagVars, dispatcher, msg_num, routeVars,
                   num, result,
                   opened, broken, cam_login, cam_reported, cam_requests, mixed>>

\* _recv_dispatched takes whatever no subscription wanted.
LoginReadsUnmatched(c) ==
    /\ pc[c] = "poll"
    /\ dispatch_error = "none"
    /\ unmatched # <<>>
    /\ unmatched' = Tail(unmatched)
    /\ LoginReplied(c, Head(unmatched))
    /\ UNCHANGED <<sock, flagVars, dispatcher, msg_num, waiters, sub, queue,
                   num, result, envVars>>

LoginRaises(c) ==
    /\ \/ pc[c] = "direct" /\ RaiseLocked(c, "lost")
       \/ pc[c] = "poll" /\ dispatch_error # "none" /\ RaiseLocked(c, dispatch_error)
       \/ pc[c] = "poll" /\ unmatched = <<>> /\ RaiseLocked(c, "lost")
    /\ UNCHANGED <<sockVars, flagVars, dispatcher, msg_num, routeVars,
                   num, result, envVars>>

StartDispatching(c) ==
    /\ pc[c] = "dispatch"
    /\ dispatcher_requested' = TRUE
    /\ StartDispatcher
    /\ Goto(c, "ready")
    /\ UNCHANGED <<sockVars, msg_num, routeVars, lockVars, callVars, envVars>>

SessionReady(c) ==
    /\ pc[c] = "ready"
    /\ ~ readiness_required \/ session_ready
    /\ Release(c)
    /\ UNCHANGED <<sockVars, flagVars, dispatcher, msg_num, routeVars, callVars, envVars>>

SessionReadyTimeout(c) ==
    /\ pc[c] = "ready"
    /\ readiness_required /\ ~ session_ready
    /\ RaiseLocked(c, IF dispatch_error # "none" THEN dispatch_error ELSE "lost")
    /\ UNCHANGED <<sockVars, flagVars, dispatcher, msg_num, routeVars,
                   num, result, envVars>>

(***************************************************************************)
(* _MessageExchange: subscribe, send, wait for the reply.  Only the          *)
(* dispatch lock is taken from here on.                                     *)
(***************************************************************************)
\* Mutant: the message number is not compared.
MatchesIdOnly(m, n) == m.kind \in {"reply", "torn"}

Matches(m, n) == m.kind \in {"reply", "torn"} /\ m.num = n

Subscribe(c) ==
    /\ pc[c] = "subscribe"
    /\ msg_num' = msg_num + 1
    /\ num' = [num EXCEPT ![c] = msg_num']
    /\ dispatcher_requested' = TRUE
    /\ sub' = [sub EXCEPT ![msg_num'] = "active"]
    /\ waiters' = waiters \cup {msg_num'}
    /\ LET backlog == {m \in Message : Matches(m, msg_num')}
       IN  /\ queue' = [queue EXCEPT ![msg_num'] = Kept(unmatched, backlog)]
           /\ unmatched' = Kept(unmatched, Message \ backlog)
    /\ Goto(c, "check")
    /\ UNCHANGED <<sockVars, dispatch_stop, dispatch_error, dispatch_thread, expired, survivors,
                   dispatcher, lockVars, attempt, result, envVars>>

EnsureDispatcherActive(c) ==
    /\ pc[c] = "check"
    /\ IF dispatcher_requested /\ ~ DispatcherActive
       THEN lock = None /\ StartThread
       ELSE UNCHANGED threadVars
    /\ Goto(c, "send")
    /\ UNCHANGED <<sockVars, dispatcher_requested, msg_num, routeVars, lockVars, callVars, envVars>>

\* close() of the exchange's subscription; its queue is not read any more.
Unsubscribe(c) ==
    /\ waiters' = waiters \ {num[c]}
    /\ sub' = [sub EXCEPT ![num[c]] = "closed"]
    /\ queue' = [queue EXCEPT ![num[c]] = <<>>]

\* The camera takes no request before the login.
Send(c) ==
    /\ pc[c] = "send"
    /\ sock # 0
    /\ cam_requests' = IF ~ broken /\ cam_login = "ok" THEN cam_requests \cup {num[c]}
                                                         ELSE cam_requests
    /\ Goto(c, "wait")
    /\ UNCHANGED <<sockVars, flagVars, dispatcher, msg_num, routeVars, lockVars, callVars,
                   opened, wire, broken, cam_login, cam_reported, mixed>>

SendRaises(c) ==
    /\ pc[c] = "send"
    /\ \/ sock = 0 /\ Raise(c, "fatal")
       \/ sock # 0 /\ broken /\ Raise(c, "lost")
    /\ Unsubscribe(c)
    /\ UNCHANGED <<sockVars, flagVars, dispatcher, msg_num, unmatched, lockVars,
                   num, result, envVars>>

\* What is queued comes first, then the error, then the timeout.
RecvReply(c) ==
    /\ pc[c] = "wait"
    /\ queue[num[c]] # <<>>
    /\ result' = [result EXCEPT ![c] = Head(queue[num[c]])]
    /\ Unsubscribe(c)
    /\ Goto(c, "done")
    /\ UNCHANGED <<sockVars, flagVars, dispatcher, msg_num, unmatched, lockVars,
                   attempt, num, envVars>>

RecvRaises(c) ==
    /\ pc[c] = "wait"
    /\ queue[num[c]] = <<>>
    /\ Raise(c, IF sub[num[c]] = "fatal" THEN "fatal" ELSE "lost")
    /\ Unsubscribe(c)
    /\ UNCHANGED <<sockVars, flagVars, dispatcher, msg_num, unmatched, lockVars,
                   num, result, envVars>>

(***************************************************************************)
(* _dispatch_loop.                                                          *)
(***************************************************************************)
DispatcherUnchanged == <<sockVars, flagVars, msg_num, routeVars, lockVars, pc, callVars, envVars>>

ReadsSession(t) == dispatcher[t].at = "read" /\ dispatcher[t].session = sock

\* The loop's test, and _recv_direct reading self.sock.
DispatchLoop(t) ==
    /\ dispatcher[t].at = "loop"
    /\ dispatcher' = [dispatcher EXCEPT ![t] =
          IF dispatch_stop THEN Dead
          ELSE [Dead EXCEPT !.at = IF sock = 0 THEN "fatal" ELSE "read", !.session = sock]]
    /\ mixed' = (mixed \/ (~ dispatch_stop /\ \E u \in Thread : ReadsSession(u)))
    /\ UNCHANGED <<sockVars, flagVars, msg_num, routeVars, lockVars, pc, callVars,
                   opened, wire, broken, cam_login, cam_reported, cam_requests>>

\* What of the next message two readers leave: whole, torn, or its bytes read as a header,
\* which is an InvalidMagicError.
DispatchRecv(t) ==
    /\ ReadsSession(t)
    /\ wire # <<>>
    /\ wire' = Tail(wire)
    /\ \/ dispatcher' = [dispatcher EXCEPT ![t].at = "have", ![t].message = Head(wire)]
       \/ /\ mixed
          /\ dispatcher' = [dispatcher EXCEPT ![t].at = "have", ![t].message = Torn(Head(wire))]
       \/ mixed /\ dispatcher' = [dispatcher EXCEPT ![t].at = "fatal"]
    /\ UNCHANGED <<sockVars, flagVars, msg_num, routeVars, lockVars, pc, callVars,
                   opened, broken, cam_login, cam_reported, cam_requests, mixed>>

DispatchTimeout(t) ==
    /\ dispatcher[t].at = "read"
    /\ dispatcher' = [dispatcher EXCEPT ![t] = [Dead EXCEPT !.at = "loop"]]
    /\ UNCHANGED DispatcherUnchanged

DispatchEof(t) ==
    /\ dispatcher[t].at = "read"
    /\ (broken /\ wire = <<>>) \/ dispatcher[t].session # sock
    /\ dispatcher' = [dispatcher EXCEPT ![t].at = "lost"]
    /\ UNCHANGED DispatcherUnchanged

\* _dispatch_message.
DispatchMessage(t) ==
    /\ dispatcher[t].at = "have"
    /\ LET m    == dispatcher[t].message
           to   == {n \in waiters : sub[n] = "active" /\ Matches(m, n)}
       IN  /\ session_ready' = (session_ready \/ m = BatteryList)
           /\ late_report' = (late_report \/ (m = BatteryList /\ dispatcher[t].session # sock))
           /\ queue' = [n \in Num |-> IF n \in to THEN Append(queue[n], m) ELSE queue[n]]
           /\ unmatched' = IF to = {} THEN Append(unmatched, m) ELSE unmatched
    /\ dispatcher' = [dispatcher EXCEPT ![t] = [Dead EXCEPT !.at = "loop"]]
    /\ UNCHANGED <<sock, login_xml, readiness_required, flagVars, msg_num, waiters, sub,
                   lockVars, pc, callVars, envVars>>

\* The except clause: every subscription fails with the error.
DispatchFails(t) ==
    /\ dispatcher[t].at \in Error
    /\ dispatch_error' = dispatcher[t].at
    /\ sub' = [n \in Num |-> IF n \in waiters /\ sub[n] = "active" THEN dispatcher[t].at ELSE sub[n]]
    /\ waiters' = {}
    /\ dispatcher' = [dispatcher EXCEPT ![t] = Dead]
    /\ UNCHANGED <<sockVars, dispatcher_requested, dispatch_stop, dispatch_thread, expired,
                   survivors, msg_num, unmatched, queue, lockVars, pc, callVars, envVars>>

(***************************************************************************)
(* The camera and the connection.                                           *)
(***************************************************************************)
CameraSends(m) == wire' = Append(wire, m)

Outside == <<sockVars, flagVars, dispatcher, msg_num, routeVars, lockVars, pc, callVars, opened, mixed>>

CameraAnswersLogin ==
    /\ cam_login = "asked"
    /\ cam_login' = "ok"
    /\ CameraSends(LoginReply(sock))
    /\ UNCHANGED <<Outside, broken, cam_reported, cam_requests>>

CameraReportsBattery ==
    /\ BatteryCamera /\ cam_login = "ok" /\ ~ cam_reported
    /\ cam_reported' = TRUE
    /\ CameraSends(BatteryList)
    /\ UNCHANGED <<Outside, broken, cam_login, cam_requests>>

CameraAnswers(n) ==
    /\ n \in cam_requests
    /\ cam_requests' = cam_requests \ {n}
    /\ CameraSends([kind |-> "reply", num |-> n])
    /\ UNCHANGED <<Outside, broken, cam_login, cam_reported>>

ConnectionBreaks ==
    /\ sock \in Fragile \ {0}
    /\ broken' = TRUE
    /\ wire' \in {wire, <<>>}
    /\ UNCHANGED <<Outside, cam_login, cam_reported, cam_requests>>

Environment ==
    /\ ~ broken
    /\ \/ CameraAnswersLogin
       \/ CameraReportsBattery
       \/ \E n \in cam_requests : CameraAnswers(n)
       \/ ConnectionBreaks

LockedStep(c) ==
    \/ StopDispatcher(c) \/ JoinDispatcher(c) \/ CloseSession(c)
    \/ Connect(c) \/ ConnectFails(c)
    \/ Login(c) \/ LoginRecv(c) \/ LoginReadsSocket(c) \/ LoginReadsUnmatched(c) \/ LoginRaises(c)
    \/ StartDispatching(c) \/ SessionReady(c) \/ SessionReadyTimeout(c)

CallerStep(c) ==
    \/ EnsureConnected(c) \/ Reconnect(c) \/ Close(c)
    \/ LockedStep(c)
    \/ Subscribe(c) \/ EnsureDispatcherActive(c)
    \/ Send(c) \/ SendRaises(c) \/ RecvReply(c) \/ RecvRaises(c)

DispatcherStep(t) ==
    \/ DispatchLoop(t) \/ DispatchRecv(t) \/ DispatchTimeout(t) \/ DispatchEof(t)
    \/ DispatchMessage(t) \/ DispatchFails(t)

Next ==
    \/ \E c \in Caller : CallerStep(c)
    \/ \E t \in Thread : DispatcherStep(t)
    \/ Environment

Spec == Init /\ [][Next]_vars

(***************************************************************************)
(* Fairness: threads run, and every wait of theirs has a timeout.  Nothing   *)
(* is assumed of the camera or of the connection.                           *)
(***************************************************************************)
Fairness ==
    /\ \A c \in Caller : WF_vars(CallerStep(c))
    /\ \A t \in Thread : WF_vars(DispatcherStep(t))

FairSpec == Spec /\ Fairness

-----------------------------------------------------------------------------
(***************************************************************************)
(* Properties.                                                              *)
(***************************************************************************)

\* A connection has one reader besides the threads a join gave up: two would tear each
\* other's messages apart.  A login that reads the connection itself has it for itself.
OneReader ==
    /\ Cardinality({t \in Thread \ survivors : ReadsSession(t)}
                       \cup {c \in Caller : pc[c] = "direct"}) <= 1
    /\ \A c \in Caller : pc[c] = "direct" => ~ mixed /\ ~ \E t \in Thread : ReadsSession(t)

\* A thread that reads, or fails subscriptions on behalf of, a connection that is not the
\* current one is one that a join gave up.
OnlySurvivorsAreStale ==
    \A t \in Thread \ survivors :
        dispatcher[t].at \in {"read", "have", "lost"} => dispatcher[t].session = sock

\* Whichever threads stop, start and replace dispatchers and sessions, the session has one
\* dispatcher, and none of an earlier session is left but those whose join gave up.
SessionInv == TypeOK /\ OneReader /\ OnlySurvivorsAreStale

\* "Stop the background message dispatcher if it is running" (camera.py:227): the dispatcher
\* of a session is gone before the session is replaced.
NoStaleDispatcher ==
    \A t \in Thread : dispatcher[t].at \in {"read", "have", "lost"} => dispatcher[t].session = sock

\* However commands of several threads, late replies and reconnects mix, command()
\* returns the reply to its own request: whole, unless a join gave up before, after which
\* two dispatchers may have read it.
ReplyIsOwn ==
    \A c \in Caller : pc[c] = "done" /\ c \notin Closer =>
        \/ result[c] = [kind |-> "reply", num |-> num[c]]
        \/ expired /\ result[c] = [kind |-> "torn", num |-> num[c]]

\* A battery camera counts as ready only once the BatteryList of this very session has
\* been read, never because of one of an earlier session, unless a dispatcher that was left
\* from that session hands it out now.
ReadyIsFresh ==
    login_xml /\ readiness_required /\ session_ready /\ ~ late_report =>
        /\ cam_reported
        /\ \A i \in 1 .. Len(wire) : wire[i] # BatteryList


\* "waits for the first unsolicited `BatteryList` ... The same wait happens after
\* `reconnect()`" (docs/02-connection-flow.md:112): while a caller waits for a BatteryList
\* the camera has sent, it is still to be handed out.
BatteryListSeen ==
    \A c \in Caller :
        pc[c] = "ready" /\ readiness_required /\ ~ session_ready /\ cam_reported /\ ~ broken =>
            \/ \E i \in 1 .. Len(wire) : wire[i] = BatteryList
            \/ \E t \in Thread : dispatcher[t].message = BatteryList

=============================================================================
