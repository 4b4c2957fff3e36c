------------------------------ MODULE SdPreview ------------------------------
(***************************************************************************)
(* The preview of a recording (sd_card.py): a thread that takes the MP4 out   *)
(* of the camera's answer into a cache file (SDFilePreview, _cache_preview,  *)
(* _write_preview_cache_payload), an HTTP server whose handlers copy the file *)
(* while it grows (SDFilePreviewServer, _PreviewHttpHandler), and close(),   *)
(* called by the user and by the handler of the last player that leaves.     *)
(* preview_dump() reads the same answer without file, thread or server.      *)
(*                                                                         *)
(* The answer is a row of numbered cells: some in front of the MP4, then its  *)
(* boxes, each a cell of header and cells of data; the first, ftyp, has its   *)
(* size in one cell and its name in the next.  A queue of 1024 replies is     *)
(* taken to be long enough, and a file, once removed, to live on for those   *)
(* who have it open.                                                        *)
(***************************************************************************)
EXTENDS Integers, Sequences, SequencesExt, FiniteSetsExt

CONSTANTS
    Viewers,        \* bound: HTTP requests, in threads of their own, numbered as they come
    Layouts,        \* bound: answers of the camera, [pre |-> cells, boxes |-> <<box, ...>>],
                    \*   each box with the cell at which it ends
    HeadLimit,      \* cells of `head' that are kept: 2 MiB
    MaxBytes,       \* max_bytes, in cells
    MaxPayload,     \* bound: cells of one reply
    IdleTimeouts    \* idle_timeouts

Box == [type : {"ftyp", "moov", "mdat"}, end : Nat, sized : BOOLEAN]

Viewer == 1 .. Viewers

ASSUME PreviewAssumption ==
    /\ Viewers \in Nat
    /\ \A l \in Layouts : /\ l.pre \in Nat /\ l.boxes \in Seq(Box) /\ Len(l.boxes) \in 1 .. 12
                          /\ l.boxes[1].type = "ftyp" /\ l.boxes[1].sized
                          /\ l.boxes[1].end > l.pre + 1
                          /\ \A j, k \in DOMAIN l.boxes : j < k => l.boxes[j].end < l.boxes[k].end
                          /\ l.pre + 1 + MaxPayload <= HeadLimit   \* the MP4 starts within it
    /\ HeadLimit \in Nat /\ MaxBytes \in Nat
    /\ MaxPayload \in Nat \ {0} /\ IdleTimeouts \in Nat \ {0}

VARIABLES
    layout, mode, cleanup, on_disconnect,   \* the answer; cache or dump; arguments
    worker, raw_seen, mp4_started, expected_total, misses,  \* _cache_preview
    file, linked,           \* the cache file; is it the one the thread writes to?
    ready, done, error, stop,
    user, pc,               \* the user's thread; each handler's
    got,                    \* what the player was sent; `pos' is its length
    gone, active,           \* players that broke the connection; active_clients
    dumped,                 \* what preview_dump() returns
    cut, removed, hasty, expired    \* history, see the properties

fixedVars   == <<layout, mode, cleanup, on_disconnect>>
loopVars    == <<raw_seen, mp4_started, expected_total, misses>>
viewerVars  == <<pc, got, gone, active, hasty>>
closeVars   == <<stop, user, removed, expired>>
vars == <<fixedVars, worker, loopVars, file, linked, ready, done, error, closeVars, viewerVars,
          dumped, cut>>

Closing == {"close", "join"}
NoFile  == [here |-> FALSE, cells |-> <<>>]

---------------------------------------------------------------------------
\* _embedded_mp4_info and _embedded_mp4_total_size, of the first h cells.

Start(k) == IF k = 1 THEN layout.pre ELSE layout.boxes[k - 1].end
Size     == Start(Len(layout.boxes) + 1)
Cells(from, to) == [i \in 1 .. to - from |-> from + i]     \* those behind `from'
Mp4      == Cells(layout.pre, Size)

Found(h) == h >= layout.pre + 2
LastBox(h) ==
    Max({k \in DOMAIN layout.boxes : Start(k) < h /\ \A j \in 1 .. k - 1 : layout.boxes[j].sized})

Total(h) ==
    IF ~Found(h) \/ layout.boxes[LastBox(h)].type # "mdat" THEN 0
    ELSE IF layout.boxes[LastBox(h)].sized THEN Start(LastBox(h) + 1) ELSE h

\* What the code looks for: the one mdat is the last box, and every box has a size.
Plain == \A k \in DOMAIN layout.boxes :
    layout.boxes[k].sized /\ (layout.boxes[k].type = "mdat" <=> k = Len(layout.boxes))

---------------------------------------------------------------------------
TypeOK ==
    /\ layout \in Layouts /\ mode \in {"cache", "dump"}
    /\ cleanup \in BOOLEAN /\ on_disconnect \in BOOLEAN
    /\ worker \in {"request", "first", "loop", "ended"}
    /\ raw_seen \in 0 .. Size /\ mp4_started \in BOOLEAN /\ expected_total \in 0 .. Size
    /\ misses \in 0 .. IdleTimeouts - 1
    /\ file \in [here : BOOLEAN, cells : Seq(0 .. Size)] /\ linked \in BOOLEAN
    /\ ready \in BOOLEAN /\ done \in BOOLEAN /\ error \in BOOLEAN /\ stop \in BOOLEAN
    /\ user \in {"serving", "join", "out"}
    /\ pc \in [Viewer -> {"away", "wait", "copy", "stuck", "check", "leave", "left"} \cup Closing]
    /\ got \in [Viewer -> Seq(0 .. Size)]
    /\ gone \subseteq Viewer /\ active \in 0 .. Cardinality(Viewer)
    /\ active = Cardinality({v \in Viewer : pc[v] \in {"copy", "stuck", "check", "leave"}})
    /\ dumped \in Seq(0 .. Size)

Init ==
    /\ layout \in Layouts
    /\ \/ mode = "cache" /\ cleanup \in BOOLEAN /\ on_disconnect \in BOOLEAN /\ user = "serving"
          /\ file \in {NoFile, [here |-> TRUE, cells |-> <<0>>]}     \* that of an earlier preview
       \/ mode = "dump" /\ cleanup = FALSE /\ on_disconnect = FALSE /\ user = "out"
          /\ file = NoFile
    /\ worker = "request" /\ raw_seen = 0 /\ mp4_started = FALSE /\ expected_total = 0 /\ misses = 0
    /\ linked = FALSE /\ ready = FALSE /\ done = FALSE /\ error = FALSE /\ stop = FALSE
    /\ pc = [v \in Viewer |-> "away"] /\ got = [v \in Viewer |-> <<>>]
    /\ gone = {} /\ active = 0
    /\ dumped = <<>> /\ cut = FALSE /\ removed = FALSE /\ hasty = {} /\ expired = FALSE

---------------------------------------------------------------------------
\* The thread: _run, _cache_preview; in mode dump, _read_preview_dump.

\* request_messages(), which connects if need be, and the file is opened for writing.
Open ==
    /\ worker = "request" /\ worker' = "first"
    /\ IF mode = "cache" THEN file' = [here |-> TRUE, cells |-> <<>>] /\ linked' = TRUE
                         ELSE UNCHANGED <<file, linked>>
    /\ UNCHANGED <<fixedVars, loopVars, ready, done, error, closeVars, viewerVars, dumped, cut>>

\* `head': in a dump all that has come.
HeadCells(raw) == IF mode = "dump" THEN raw ELSE Min({raw, HeadLimit})

\* _write_preview_cache_payload: the cells it writes of a payload of n cells.
Written(n) ==
    LET start == Max({layout.pre - raw_seen, 0})
    IN  IF ~Found(HeadCells(raw_seen + n)) THEN <<>>
        ELSE IF ~mp4_started /\ layout.pre < raw_seen THEN Cells(layout.pre, HeadCells(raw_seen + n))
        ELSE Cells(raw_seen + start, raw_seen + n)

WritePayload(n) ==
    /\ raw_seen' = raw_seen + n
    /\ expected_total' = IF expected_total # 0 THEN expected_total ELSE Total(HeadCells(raw_seen + n))
    /\ mp4_started' = (mp4_started \/ Written(n) # <<>>)
    /\ IF mode = "cache"
       THEN /\ ready' = (ready \/ Written(n) # <<>>)
            /\ file' = IF linked THEN [file EXCEPT !.cells = @ \o Written(n)] ELSE file
       ELSE UNCHANGED <<ready, file>>

\* The first reply, which is taken whole.
FirstReply ==
    /\ worker = "first" /\ worker' = "loop"
    /\ \E n \in 0 .. Min({MaxPayload, Size}) : WritePayload(n)
    /\ UNCHANGED <<fixedVars, misses, linked, done, error, closeVars, viewerVars, dumped, cut>>

\* The locals go.
Forget == raw_seen' = 0 /\ mp4_started' = FALSE /\ expected_total' = 0 /\ misses' = 0

\* The answer ends: with the reason, was it too early?
Finish(early) ==
    /\ worker' = "ended" /\ ready' = TRUE /\ done' = TRUE
    /\ cut' = (cut \/ (early /\ raw_seen < Size))
    /\ dumped' = IF mode # "dump" \/ ~Found(raw_seen) THEN dumped
                 ELSE Cells(layout.pre, IF Total(raw_seen) = 0 THEN raw_seen
                                          ELSE Min({Total(raw_seen), raw_seen}))
    /\ Forget /\ UNCHANGED <<fixedVars, file, linked, error, closeVars, viewerVars>>

Enough == \/ expected_total # 0 /\ raw_seen >= expected_total
          \/ raw_seen >= MaxBytes
Looping == worker = "loop" /\ ~stop /\ ~Enough

LoopEnds ==
    /\ worker = "loop" /\ (stop \/ Enough)
    /\ Finish(stop \/ raw_seen >= MaxBytes \/ ~Plain)

Reply ==
    /\ Looping /\ misses' = 0
    /\ \E n \in 1 .. Min({MaxPayload, Size - raw_seen, MaxBytes - raw_seen}) : WritePayload(n)
    /\ UNCHANGED <<fixedVars, worker, linked, done, error, closeVars, viewerVars, dumped, cut>>

\* recv() times out: the camera has sent everything, or is late.
Miss ==
    /\ Looping /\ misses + 1 < IdleTimeouts
    /\ misses' = misses + 1
    /\ UNCHANGED <<fixedVars, worker, raw_seen, mp4_started, expected_total, file, linked, ready, done,
                   error, closeVars, viewerVars, dumped, cut>>
Idle == Looping /\ misses + 1 >= IdleTimeouts /\ Finish(TRUE)

\* A response other than 0 and 200: the terminal one, or an error of the camera.
Terminal == Looping /\ Finish(TRUE)

\* An exception: no answer, a bad first response, or the session ends.
FailsSilently ==   \* mutant: the thread ends without `finally'
    /\ worker # "ended" /\ worker' = "ended"
    /\ error' = TRUE /\ ready' = TRUE /\ cut' = TRUE
    /\ Forget /\ UNCHANGED <<fixedVars, file, linked, done, closeVars, viewerVars, dumped>>
Fails ==
    /\ worker # "ended" /\ worker' = "ended"
    /\ error' = TRUE /\ ready' = TRUE /\ done' = TRUE /\ cut' = TRUE
    /\ Forget /\ UNCHANGED <<fixedVars, file, linked, closeVars, viewerVars, dumped>>

Worker == Open \/ FirstReply \/ LoopEnds \/ Reply \/ Miss \/ Idle \/ Terminal \/ Fails

---------------------------------------------------------------------------
\* A handler: do_GET and _copy_cache_from_start.

workerVars == <<fixedVars, worker, loopVars, linked, ready, done, error, dumped, cut>>
Step(v, from, to) == pc[v] = from /\ pc' = [pc EXCEPT ![v] = to]

Arrive(v) ==
    /\ Step(v, "away", "wait") /\ user = "serving" /\ \A w \in 1 .. v - 1 : pc[w] # "away"
    /\ UNCHANGED <<workerVars, file, closeVars, got, gone, active, hasty>>

\* wait_ready(30.0), of which the result is not looked at, and the lock.
WaitReady(v) ==
    /\ \/ ready /\ UNCHANGED hasty
       \/ ~ready /\ hasty' = hasty \cup {v}
    /\ \/ error /\ Step(v, "wait", "left") /\ UNCHANGED active       \* 502
       \/ ~error /\ Step(v, "wait", "copy") /\ active' = active + 1
    /\ UNCHANGED <<workerVars, file, closeVars, got, gone>>

New(v) == IF file.here THEN SubSeq(file.cells, Len(got[v]) + 1, Len(file.cells)) ELSE <<>>
Sent(v) ==
    /\ Step(v, "copy", "check") /\ got' = [got EXCEPT ![v] = @ \o New(v)] /\ UNCHANGED gone

\* A write to a player that has gone.
Broken(v, at) == Step(v, at, "leave") /\ gone' = gone \cup {v} /\ UNCHANGED got

\* Up to the end of the file, unless the player has gone, or stays connected and reads no
\* more: the socket has no timeout, and the write waits until its buffers have room.
Copy(v) ==
    /\ \/ Sent(v)
       \/ New(v) # <<>> /\ Broken(v, "copy")      \* BrokenPipeError
       \/ New(v) # <<>> /\ Step(v, "copy", "stuck") /\ UNCHANGED <<got, gone>>
    /\ UNCHANGED <<workerVars, file, closeVars, active, hasty>>

\* Such a player goes.
Drop(v) == Broken(v, "stuck") /\ UNCHANGED <<workerVars, file, closeVars, active, hasty>>

CopiedAtDone(v) == done     \* mutant: what came since the last read is not looked for
Copied(v) == done /\ (~file.here \/ Len(got[v]) >= Len(file.cells))

Check(v) ==
    /\ IF Copied(v) THEN Step(v, "check", "leave") ELSE Step(v, "check", "copy")
    /\ UNCHANGED <<workerVars, file, closeVars, got, gone, active, hasty>>

Leave(v) ==
    /\ active' = active - 1
    /\ IF on_disconnect /\ active' = 0 THEN Step(v, "leave", "close") ELSE Step(v, "leave", "left")
    /\ UNCHANGED <<workerVars, file, closeVars, got, gone, hasty>>

---------------------------------------------------------------------------
\* SDFilePreview.close(), by a handler and by the user when the contexts are left.

Close(v) ==
    /\ Step(v, "close", "join") /\ stop' = TRUE
    /\ UNCHANGED <<workerVars, file, user, removed, expired, got, gone, active, hasty>>

UserCloses ==
    /\ user = "serving" /\ user' = "join" /\ stop' = TRUE
    /\ UNCHANGED <<workerVars, file, removed, expired, viewerVars>>

\* join(), whose timeout is twice that of recv() in the loop, but nothing to connect with.
JoinedAtOnce == TRUE    \* mutant: the thread is not waited for
Joined == worker = "ended" \/ expired'
JoinAndRemove ==
    /\ expired' \in {expired, expired \/ worker \in {"request", "first"}}
    /\ Joined
    /\ IF cleanup /\ file.here
       THEN file' = NoFile /\ linked' = FALSE /\ removed' = TRUE
       ELSE UNCHANGED <<file, linked, removed>>
    /\ UNCHANGED <<fixedVars, worker, loopVars, ready, done, error, dumped, cut, stop,
                   got, gone, active, hasty>>

HandlerEnds(v) == Step(v, "join", "left") /\ JoinAndRemove /\ UNCHANGED user
UserEnds == user = "join" /\ user' = "out" /\ JoinAndRemove /\ UNCHANGED pc

---------------------------------------------------------------------------
Handler(v) == WaitReady(v) \/ Copy(v) \/ Check(v) \/ Leave(v) \/ Close(v) \/ HandlerEnds(v)

Next ==
    \/ Worker \/ UserCloses \/ UserEnds
    \/ \E v \in Viewer : Arrive(v) \/ Drop(v) \/ Handler(v)

Spec == Init /\ [][Next]_vars

\* Threads run, and every wait of them has a timeout but that for a player which reads no
\* more; players and the user come and go.
FairSpec == Spec /\ WF_vars(Worker) /\ WF_vars(UserEnds) /\ \A v \in Viewer : WF_vars(Handler(v))

---------------------------------------------------------------------------
\* A player that was ready in time gets nothing but the MP4 from its start, however the
\* thread and the handler alternate; when the response ends of itself the player has the
\* whole of it, unless the camera's answer was cut or the file was removed meanwhile.
\* So has preview_dump().  (_write_preview_cache_payload, _copy_cache_from_start)
Served ==
    /\ \A v \in Viewer \ hasty :
          /\ IsPrefix(got[v], Mp4)
          /\ pc[v] \in Closing \cup {"left"} => got[v] = Mp4 \/ v \in gone \/ cut \/ removed
    /\ mode = "dump" /\ worker = "ended" => dumped = Mp4 \/ cut

\* When the context has been left and the thread has ended nothing remains of the cache,
\* unless close() gave up waiting for a thread that was still to open it.  (close)
CleanedUp ==
    cleanup /\ user = "out" /\ worker = "ended" => ~file.here \/ expired
PreviewInv == TypeOK /\ CleanedUp
CacheRemoved == cleanup /\ user = "out" /\ worker = "ended" => ~file.here

\* The cache is not closed on a player's behalf while another is connected.  (do_GET)
LastPlayerCloses == [][\A v \in Viewer : pc[v] = "close" /\ pc'[v] = "join" => active = 0]_vars

\* Every request ends, with an error, with the file, or when its player has gone, but that of
\* a player which stays connected and reads no more; and such a one holds up no other, also
\* when another closes the preview and removes the file.  (do_GET, _copy_cache_from_start)
RequestsEnd == []<>(\A v \in Viewer : pc[v] \in {"away", "stuck", "left"})

=============================================================================
