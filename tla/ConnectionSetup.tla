--------------------------- MODULE ConnectionSetup ---------------------------
(***************************************************************************)
(* Camera.connect() in processes that share a connection state file: the     *)
(* choice of a transport (camera.py), the handshakes of connect_local_direct  *)
(* and connect_relay (core/udp_transport.py), the look-ups before them        *)
(* (core/discovery.py), and the file (core/state.py).                       *)
(*                                                                         *)
(* A call of connect() is known by its cid, the random number its handshake  *)
(* sends, taken to be unique: <<process, attempt>>.  Requests are repeated   *)
(* every half second, so that a lost datagram is a late one; a wait ends     *)
(* without an answer when its peer cannot be reached or, which is a fault,   *)
(* answers too late.  A relay socket is bound to the same port in every      *)
(* attempt, so late answers reach the next one; a local one is not.          *)
(***************************************************************************)
EXTENDS Integers, FiniteSets

CONSTANTS
    Client,         \* processes, each with a Camera
    HasAddress,     \* those whose configuration gives an address, not a uid
    Name,           \* [Client -> the camera's name, its key in the file]
    Path,           \* candidate ways to the camera that a relay look-up can give
    MaxAttempts,    \* bound: [Client -> calls of connect()]
    MaxFaults       \* bound: late answers, errors of the disk, crashes

Names == {Name[c] : c \in Client}
Cid   == UNION {{c} \X (1 .. MaxAttempts[c]) : c \in Client}
Place == Path \cup {"lan", "servers", "tcp"}    \* what may be reachable
None  == "none"

ASSUME SetupAssumption ==
    /\ HasAddress \subseteq Client /\ DOMAIN Name = Client
    /\ Path \subseteq {"local", "map", "relay"} /\ "relay" \in Path
    /\ MaxAttempts \in [Client -> Nat \ {0}] /\ MaxFaults \in Nat


VARIABLES
    discovery, reach,   \* CameraConfig.discovery of all; what can be reached
    pc, attempt,
    sid, candidates,    \* connect_relay: locals
    sock,               \* Camera.sock: its transport, cid and the camera's did
    registered, confirmed,  \* external: registrations, and D2C_CFM messages sent
    file,               \* the state file: a transport for each name; torn, if cut off
    data, merged,       \* ConnectionState.data of each process; save's `current'
    faults,
    saved, overlapped, unread, excused  \* history, see the properties

netVars   == <<sid, candidates, registered, confirmed>>
stateVars == <<file, data, merged>>
histVars  == <<saved, overlapped, unread>>
setupVars == <<discovery, reach, pc, attempt, netVars, sock, stateVars, faults, histVars, excused>>

Transport == {"tcp", "udp-local", "udp-relay"}
State == [Names -> Transport \cup {None}]
Empty == [n \in Names |-> None]
Torn  == [n \in Names |-> "torn"]
Sock  == [transport : Transport, cid : Cid, did : Cid, path : Place]
NoSock == [transport |-> None]
NoSid  == <<>>

\* "map" is treated as "remote" is, everywhere.
Discovery == {"local", "remote", "relay", "cellular"}

SetupTypeOK ==
    /\ discovery \in Discovery /\ reach \subseteq Place
    /\ pc \in [Client -> {"idle", "local", "resolve", "tcp", "lookup", "register", "open",
                          "save", "write", "replace", "connected", "failed", "dead"}]
    /\ attempt \in [Client -> Nat] /\ \A c \in Client : attempt[c] \in 0 .. MaxAttempts[c]
    /\ sid \in [Client -> Cid \cup {NoSid}] /\ candidates \in [Client -> SUBSET Path]
    /\ sock \in [Client -> Sock \cup {NoSock}]
    /\ registered \subseteq Cid
    /\ confirmed \subseteq [cid : Cid, sid : Cid, did : Cid, path : Path]
    /\ file \in State \cup {Torn} /\ data \in [Client -> State] /\ merged \in [Client -> State]
    /\ faults \in 0 .. MaxFaults
    /\ saved \in State /\ overlapped \in BOOLEAN /\ unread \subseteq Names /\ excused \in [Client -> BOOLEAN]

\* _load: a file that cannot be parsed counts as empty,
Load == IF file = Torn THEN Empty ELSE file

\* and so does one that the disk fails to give.
Loaded == {Load, Empty}

SetupInit ==
    /\ discovery \in Discovery /\ reach \in SUBSET Place
    /\ pc = [c \in Client |-> "idle"] /\ attempt = [c \in Client |-> 0]
    /\ sid = [c \in Client |-> NoSid] /\ candidates = [c \in Client |-> {}]
    /\ sock = [c \in Client |-> NoSock]
    /\ registered = {} /\ confirmed = {}
    /\ file \in {Empty, Torn, [n \in Names |-> "tcp"]}   \* the last: of an earlier set-up
    /\ \E read \in Loaded : data = [c \in Client |-> read]
    /\ merged = [c \in Client |-> Empty]
    /\ faults = 0 /\ saved = Load /\ overlapped = FALSE /\ unread = {} /\ excused = [c \in Client |-> FALSE]

Goto(c, place) == pc' = [pc EXCEPT ![c] = place]
At(c, place)   == pc[c] = place /\ UNCHANGED <<discovery, reach>>
Me(c)          == <<c, attempt[c]>>

\* A wait ends: nobody is there, or the answer is too late.
Deadline(c, answers) ==
    \/ ~answers /\ UNCHANGED <<faults, excused>>
    \/ answers /\ faults < MaxFaults /\ faults' = faults + 1 /\ excused' = [excused EXCEPT ![c] = TRUE]

---------------------------------------------------------------------------
\* connect(), and connect_local_direct, which is tried first when there is a uid, in
\* every mode but "cellular".

Connect(c) ==
    /\ pc[c] \in {"idle", "connected", "failed"} /\ attempt[c] < MaxAttempts[c]
    /\ attempt' = [attempt EXCEPT ![c] = @ + 1]
    /\ sock' = [sock EXCEPT ![c] = NoSock]        \* reconnect() closes the old one
    /\ excused' = [excused EXCEPT ![c] = FALSE]
    /\ Goto(c, IF c \notin HasAddress /\ discovery # "cellular" THEN "local" ELSE "resolve")
    /\ UNCHANGED <<discovery, reach, netVars, stateVars, faults, histVars>>

Opened(c, transport, did, path) ==
    /\ sock' = [sock EXCEPT ![c] = [transport |-> transport, cid |-> Me(c), did |-> did, path |-> path]]
    /\ Goto(c, "save")

\* D2C_C_R with this cid, a did, and a rsp other than -1 and -3.
LocalReply(c) ==
    /\ At(c, "local") /\ "lan" \in reach
    /\ Opened(c, "udp-local", Me(c), "lan")
    /\ UNCHANGED <<attempt, netVars, stateVars, faults, histVars, excused>>

LocalRaises(c) == Goto(c, "failed")     \* mutant: the relay is not tried

\* Where an exception leads that connect_local_direct or the save behind it raises.
LocalFailed(c) == Goto(c, IF discovery = "local" THEN "failed" ELSE "resolve")

LocalTimeout(c) ==
    /\ At(c, "local") /\ Deadline(c, "lan" \in reach)
    /\ LocalFailed(c)
    /\ UNCHANGED <<attempt, netVars, sock, stateVars, histVars>>

\* local_discover, and remote_uid_lookup behind it: the caller looks no further than
\* whether there are any.
Hits == reach \cap {"lan", "servers"} # {}

ByRelay == discovery \in {"relay", "cellular"}

\* _resolve_address
ResolveAddress(c) ==
    /\ At(c, "resolve")
    /\ IF c \in HasAddress \/ data[c][Name[c]] = "tcp"
       THEN Goto(c, "tcp") /\ UNCHANGED <<faults, excused>>
       ELSE \/ (ByRelay \/ Hits) /\ Goto(c, "lookup") /\ UNCHANGED <<faults, excused>>
            \/ ~ ByRelay /\ Deadline(c, Hits) /\ Goto(c, "failed")
    /\ UNCHANGED <<attempt, netVars, sock, stateVars, histVars>>

CreateConnection(c) ==
    /\ At(c, "tcp")
    /\ \/ "tcp" \in reach /\ Opened(c, "tcp", Me(c), "tcp") /\ UNCHANGED <<faults, excused>>
       \/ Deadline(c, "tcp" \in reach) /\ Goto(c, "failed") /\ UNCHANGED sock
    /\ UNCHANGED <<attempt, netVars, stateVars, histVars>>

---------------------------------------------------------------------------
\* connect_relay.

\* M2C_Q_R with reg and relay; what lacks one of them is passed over.
Lookup(c) ==
    /\ At(c, "lookup")
    /\ \/ "servers" \in reach /\ Goto(c, "register") /\ UNCHANGED <<faults, excused>>
       \/ Deadline(c, "servers" \in reach) /\ Goto(c, "failed")
    /\ UNCHANGED <<attempt, netVars, sock, stateVars, histVars>>

\* The register server takes note of C2R_C and tells the camera (external).
Register(c) ==
    /\ At(c, "register") /\ registered' = registered \cup {Me(c)}
    /\ UNCHANGED <<pc, attempt, sid, candidates, confirmed, sock, stateVars, faults, histVars, excused>>

\* Any R2C_C_R is accepted, that of an earlier attempt too.
RegisterReply(c) ==
    /\ At(c, "register")
    /\ \E r \in registered :
          /\ r[1] = c
          /\ sid' = [sid EXCEPT ![c] = r]
          /\ excused' = [excused EXCEPT ![c] = @ \/ r # Me(c)]
    /\ candidates' = [candidates EXCEPT ![c] = {"relay"} \cup (reach \cap Path)]
    /\ Goto(c, "open")
    /\ UNCHANGED <<attempt, registered, confirmed, sock, stateVars, faults, histVars>>

RegisterTimeout(c) ==
    /\ At(c, "register") /\ Deadline(c, TRUE)
    /\ Goto(c, "failed")
    /\ UNCHANGED <<attempt, netVars, sock, stateVars, histVars>>

\* The camera answers a C2D_T on the path it came by, or refuses a sid that is not
\* that of the cid (external).
CameraConfirms(c) ==
    /\ At(c, "open")
    /\ \E path \in candidates[c] \cap reach :
          confirmed' = confirmed \cup {[cid |-> Me(c), sid |-> sid[c], did |-> Me(c), path |-> path]}
    /\ UNCHANGED <<pc, attempt, sid, candidates, registered, sock, stateVars, faults, histVars, excused>>

\* The locals of connect_relay go with it.
Return(c) ==
    /\ sid' = [sid EXCEPT ![c] = NoSid] /\ candidates' = [candidates EXCEPT ![c] = {}]
    /\ UNCHANGED <<registered, confirmed>>

AcceptsSid(c, cfm) == cfm.cid[1] = c /\ cfm.sid = sid[c]   \* mutant: the cid is not looked at
Accepts(c, cfm) == cfm.cid = Me(c) /\ cfm.sid = sid[c]

OpenRegisteredChannel(c) ==
    /\ At(c, "open")
    /\ \E cfm \in confirmed :
          Accepts(c, cfm) /\ Opened(c, "udp-relay", cfm.did, cfm.path)
    /\ Return(c)
    /\ UNCHANGED <<attempt, stateVars, faults, histVars, excused>>

OpenTimeout(c) ==
    /\ At(c, "open")
    /\ Deadline(c, candidates[c] \cap reach # {} /\ sid[c] = Me(c))
    /\ Goto(c, "failed") /\ Return(c)
    /\ UNCHANGED <<attempt, sock, stateVars, histVars>>

---------------------------------------------------------------------------
\* ConnectionState.update_address and save.

\* Is another process in the middle of a save?
Overlap(c) == \E d \in Client \ {c} : pc[d] \in {"write", "replace"}

\* mutant: what this process knows replaces the file
MergeOwn(c, current, own) == own
Merge(c, current, own) == [current EXCEPT ![Name[c]] = own[Name[c]]]

SaveCurrent(c, current) ==
    /\ data' = [data EXCEPT ![c][Name[c]] = sock[c].transport]
    /\ merged' = [merged EXCEPT ![c] = Merge(c, current, data'[c])]

SaveLoad(c) ==
    /\ At(c, "save")
    /\ \/ SaveCurrent(c, Load) /\ UNCHANGED <<faults, unread>>
       \/ /\ SaveCurrent(c, Empty)
          /\ faults < MaxFaults /\ faults' = faults + 1
          /\ unread' = unread \cup (Names \ {Name[c]})
    /\ overlapped' = (overlapped \/ Overlap(c))
    /\ Goto(c, "write")
    /\ UNCHANGED <<attempt, netVars, sock, file, saved, excused>>

\* json.dumps into a temporary file beside the state file.
WriteTemporary(c) ==
    /\ At(c, "write")
    /\ Goto(c, "replace")
    /\ UNCHANGED <<attempt, netVars, sock, stateVars, faults, histVars, excused>>

Replace(c) ==
    /\ At(c, "replace")
    /\ file' = merged[c]
    /\ data' = [data EXCEPT ![c] = merged[c]]
    /\ saved' = [saved EXCEPT ![Name[c]] = merged[c][Name[c]]]
    /\ unread' = unread \ {Name[c]}
    /\ merged' = [merged EXCEPT ![c] = Empty]     \* a local
    /\ Goto(c, "connected")
    /\ UNCHANGED <<attempt, netVars, sock, faults, overlapped, excused>>

\* An error of the disk raises out of connect(), with the socket in place; that of a
\* local connection is taken for a failure of the handshake.
SaveFails(c) ==
    /\ pc[c] \in {"write", "replace"} /\ faults < MaxFaults
    /\ faults' = faults + 1 /\ excused' = [excused EXCEPT ![c] = TRUE]
    /\ IF sock[c].transport = "udp-local" THEN LocalFailed(c) ELSE Goto(c, "failed")
    /\ merged' = [merged EXCEPT ![c] = Empty]
    /\ UNCHANGED <<discovery, reach, attempt, netVars, sock, file, data, histVars>>

\* ensure_connected() after that: there is a socket, so connect() is not called again.
UseSocket(c) ==
    /\ At(c, "failed") /\ sock[c] # NoSock
    /\ Goto(c, "connected")
    /\ UNCHANGED <<attempt, netVars, sock, stateVars, faults, histVars, excused>>

\* The process dies, and a new one reads the file.
Crash(c) ==
    /\ pc[c] # "dead" /\ faults < MaxFaults
    /\ faults' = faults + 1
    /\ Goto(c, "dead") /\ sock' = [sock EXCEPT ![c] = NoSock]
    /\ excused' = [excused EXCEPT ![c] = TRUE]
    /\ sid' = [sid EXCEPT ![c] = NoSid] /\ candidates' = [candidates EXCEPT ![c] = {}]
    /\ merged' = [merged EXCEPT ![c] = Empty]
    /\ UNCHANGED <<discovery, reach, attempt, registered, confirmed, file, data, histVars>>

Restart(c) ==
    /\ At(c, "dead")
    /\ \E read \in Loaded : data' = [data EXCEPT ![c] = read]
    /\ Goto(c, "idle")
    /\ UNCHANGED <<attempt, netVars, sock, file, merged, faults, histVars, excused>>

---------------------------------------------------------------------------
Answers(c) == Register(c) \/ CameraConfirms(c)

Step(c) ==
    \/ LocalReply(c) \/ LocalTimeout(c) \/ ResolveAddress(c) \/ CreateConnection(c)
    \/ Lookup(c) \/ RegisterReply(c) \/ RegisterTimeout(c) \/ OpenRegisteredChannel(c) \/ OpenTimeout(c)
    \/ SaveLoad(c) \/ WriteTemporary(c) \/ Replace(c)

SetupNext ==
    \E c \in Client :
        Connect(c) \/ Answers(c) \/ Step(c) \/ SaveFails(c) \/ UseSocket(c) \/ Crash(c) \/ Restart(c)

SetupSpec == SetupInit /\ [][SetupNext]_setupVars

\* A thread runs, and every wait of it has a deadline; those who can be reached answer.
FairSetupSpec ==
    /\ SetupSpec
    /\ \A c \in Client : WF_setupVars(Step(c)) /\ WF_setupVars(Answers(c))

---------------------------------------------------------------------------
\* Whatever answers of earlier attempts arrive, the camera knows the channel that has been
\* opened by the number this call gave it, and on the path the call uses.
\* (The checks of cid and sid in connect_local_direct and _open_registered_channel.)
Agreed ==
    \A c \in Client :
        sock[c] # NoSock =>
            /\ sock[c].cid = Me(c) /\ sock[c].did = Me(c)
            /\ sock[c].transport = "udp-relay" =>
                  \E cfm \in confirmed : cfm.cid = Me(c) /\ cfm.path = sock[c].path
ChannelInv == SetupTypeOK /\ Agreed

\* Through crashes and failed writes the file holds for each camera what was stored last,
\* unless two processes saved at the same time.  A save that could not read the file
\* (`unread`) may have dropped the other cameras, but never what it was called to store.
\* (save, _load, _write_atomic)
StateKept == overlapped \/ \A n \in Names \ unread : Load[n] = saved[n]

\* "Merge changed cameras into the on-disk state and write atomically." (state.py:66):
\* a process that saves alone keeps what the file has of other cameras.
SaveMerges == overlapped \/ Load = saved

\* A call of connect() ends, and with a connection if there is a way that discovery
\* allows, unless an answer was late, one of an earlier call was taken, or the disk failed.
Reachable(c) ==
    LET relay == "servers" \in reach /\ reach \cap Path # {}
    IN  IF c \in HasAddress THEN "tcp" \in reach
        ELSE CASE discovery = "local"  -> "lan" \in reach
               [] discovery \in {"remote", "relay"} -> "lan" \in reach \/ (relay /\ data[c][Name[c]] # "tcp")
               [] discovery = "cellular" -> relay /\ data[c][Name[c]] # "tcp"
Connects ==
    []<>(\A c \in Client :
            /\ pc[c] \in {"connected", "failed", "idle", "dead"}
            /\ pc[c] = "failed" /\ Reachable(c) => excused[c])

=============================================================================
