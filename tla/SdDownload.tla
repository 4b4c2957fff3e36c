----------------------------- MODULE SdDownload -----------------------------
(***************************************************************************)
(* Downloading one SD-card recording (sd_card.py): _download_file with its *)
(* reconnections, the strategies _download_once tries one after the other,  *)
(* the messages each collects into a part file, and the steps by which      *)
(* _finalize_download puts the result in place.                             *)
(*                                                                         *)
(* The camera sends a recording as Size blocks, then a terminal response;   *)
(* it may begin late, break off, answer an error or nothing, and go on with *)
(* an answer nobody waits for any more.  The program may crash at any step. *)
(* Files hold blocks; the fields by and lost of a file are history.         *)
(***************************************************************************)
EXTENDS Filter

CONSTANTS
    Size,           \* blocks of the recording
    Listed,         \* its size in the file list; 0 when the list has none
    Forced,         \* high quality asked for explicitly?
    Ranges,         \* playback requests that can be built from the metadata
    Replay,         \* can a replay request be built?
    MaxAttempts,    \* max_attempts: strategies tried on one connection; 0 for all
    Retries, DelayedRetries,  \* reconnect_retries, delayed_reconnect_retries
    Mp4,            \* has the output file the suffix .mp4?
    QueueSize,      \* of the subscription; 1024 in the code
    Unmatched,      \* of the dispatcher's queue of unmatched messages; 200 in the code
    MaxCalls,       \* bound: calls of _download_file
    MaxMishaps      \* bound: lost connections or framing, crashes, late messages

ASSUME DownloadAssumption ==
    /\ Size \in Nat \ {0} /\ Listed \in Nat
    /\ Forced \in BOOLEAN /\ Replay \in BOOLEAN /\ Mp4 \in BOOLEAN
    /\ Ranges \in Nat /\ MaxAttempts \in Nat
    /\ Retries \in Nat /\ DelayedRetries \in Nat
    /\ QueueSize \in Nat \ {0} /\ Unmatched \in 1 .. QueueSize /\ MaxCalls \in Nat \ {0}
    /\ MaxMishaps \in Nat

VARIABLES
    pc, call, index,                    \* where the caller is; the strategy it is at
    next_reconnect_attempt, next_delayed_reconnect_attempt, only_timeouts,
    tries,                              \* history: reconnections tried in this call
    outcome,                            \* of the last call
    queue, accepted_msg_nums, resync,   \* of the transfer
    conn, framing, fault, unmatched,    \* the camera's session and its dispatcher
    stream, mishaps,                    \* external: what the camera sends next, by request
    part, converted, raw_path, output   \* files

callVars    == <<next_reconnect_attempt, next_delayed_reconnect_attempt, tries>>
transferVars == <<queue, accepted_msg_nums, resync>>
sessionVars == <<conn, framing, fault, unmatched, stream, mishaps>>
fileVars    == <<part, converted, raw_path, output>>
vars == <<pc, call, index, only_timeouts, outcome,
          callVars, transferVars, sessionVars, fileVars>>

(***************************************************************************)
(* Strategies and requests.                                                 *)
(***************************************************************************)
Times(n, kind) == [i \in 1 .. n |-> kind]

\* _download_queries: the kinds of its requests, in order.
Queries ==
    IF Forced
    THEN Times(Ranges, "playback") \o Times(2, "direct")
    ELSE <<"direct">> \o Times(Ranges, "playback") \o <<"direct">>
         \o (IF Replay THEN <<"replay">> ELSE <<>>) \o Times(6 + 8, "direct")

\* effective_max_attempts
Attempts == IF Forced /\ MaxAttempts < 5 THEN 5 ELSE MaxAttempts

Strategy == SubSeq(Queries, 1, IF Attempts \in 1 .. Len(Queries) THEN Attempts ELSE Len(Queries))

\* A request is named by its call, 0 for those of an earlier run of the program, and
\* its strategy.
Request == (0 .. MaxCalls) \X (1 .. Len(Strategy))
None    == <<0, 0>>
Kind(r) == Strategy[r[2]]

\* The message number of a request: playback requests all have number 0.
MsgNum(r) == IF Kind(r) = "playback" THEN None ELSE r

Message == [req : Request, kind : {"data", "end", "error", "empty"},
            n : 0 .. Size, resync : BOOLEAN]

Block == [req : Request, n : 1 .. Size] \cup {[req |-> None, n |-> 0]}

\* What _copy_raw_download_tail finds on a socket whose framing is lost.
RawBlock == [req |-> None, n |-> 0]

File   == [of : Request \cup {None}, data : Seq(Block), by : Request \cup {None}, lost : BOOLEAN]
NoFile == [of |-> None, data |-> <<>>, by |-> None, lost |-> FALSE]
Exists(f) == f.of # None

Blocks(r) == [n \in 1 .. Size |-> [req |-> r, n |-> n]]

\* What an earlier run may have downloaded.
OldFile == [of |-> <<0, 1>>, data |-> Blocks(<<0, 1>>), by |-> <<0, 1>>, lost |-> FALSE]

TypeOK ==
    /\ pc \in {"idle", "next", "transfer", "raw", "reconnect",
               "convert", "converting", "unlink", "replace", "cleanup"}
    /\ call \in 0 .. MaxCalls /\ index \in 1 .. Len(Strategy) + 1
    /\ next_reconnect_attempt \in 1 .. Retries + 1
    /\ next_delayed_reconnect_attempt \in 1 .. DelayedRetries + 1
    /\ only_timeouts \in BOOLEAN /\ tries \in Nat
    /\ outcome \in {"none", "done", "failed"}
    /\ queue \in Seq(Message) /\ Len(queue) <= QueueSize
    /\ accepted_msg_nums \subseteq Request \cup {None} /\ resync \in BOOLEAN
    /\ conn \in {"none", "up", "down"} /\ framing \in {"ok", "lost"}
    /\ fault \in {"none", "magic", "lost"}
    /\ unmatched \in Seq(Message) /\ Len(unmatched) <= Unmatched
    /\ stream \in [Request -> 0 .. Size + 1] /\ mishaps \in 0 .. MaxMishaps
    /\ part \in [1 .. Len(Strategy) -> File]
    /\ converted \in File /\ raw_path \in File /\ output \in File

Init ==
    /\ pc = "idle" /\ call = 0 /\ index = 1
    /\ next_reconnect_attempt = 1 /\ next_delayed_reconnect_attempt = 1
    /\ only_timeouts = TRUE /\ tries = 0 /\ outcome = "none"
    /\ queue = <<>> /\ accepted_msg_nums = {} /\ resync = FALSE
    /\ conn = "none" /\ framing = "ok" /\ fault = "none" /\ unmatched = <<>>
    /\ stream = [r \in Request |-> 0] /\ mishaps = 0
    /\ part = [i \in 1 .. Len(Strategy) |-> NoFile]
    /\ converted = NoFile /\ raw_path = NoFile /\ output \in {NoFile, OldFile}

req     == <<call, index>>              \* the request of the transfer
written == Len(part[index].data)

\* expected_size of a transfer: none for playback, whose size the list does not tell.
Expected == IF Kind(req) = "playback" THEN 0 ELSE Listed

Reached(n) == Expected # 0 /\ n >= Expected

(***************************************************************************)
(* The dispatcher and the subscription of a transfer.                       *)
(***************************************************************************)
\* _is_download_message: by its number, or as the continuation of a download.
\* Data of a direct download continue any download, whoever asked for them.
Matches(m, q, accepted, started) ==
    \/ MsgNum(m.req) \in accepted
    \/ /\ Kind(m.req) = "direct" /\ m.kind \in {"data", "empty"}
    \/ /\ Kind(m.req) = "replay" /\ m.kind = "data" /\ started

\* _MessageSubscription.put: a full queue loses its oldest message.
Put(q, m) == IF Len(q) < QueueSize THEN Append(q, m) ELSE Append(Tail(q), m)

\* What a new subscription takes of the unmatched messages.
Backlog(accepted) == {m \in Message : Matches(m, req, accepted, FALSE)}

\* Is there a subscription that would take m from the unmatched messages?  Those for
\* which there is none are left out of them.
Reusable(m) == MsgNum(m.req) = None \/ (Kind(m.req) = "direct" /\ m.kind \in {"data", "empty"})

\* _dispatch_message
Dispatch(m) ==
    IF pc = "transfer" /\ Matches(m, req, accepted_msg_nums, written > 0)
    THEN /\ queue' = Put(queue, m)
         /\ part' = [part EXCEPT ![index].lost = @ \/ Len(queue) = QueueSize]
         /\ UNCHANGED unmatched
    ELSE /\ unmatched' = IF ~ Reusable(m) THEN unmatched
                        ELSE IF Len(unmatched) < Unmatched THEN Append(unmatched, m)
                        ELSE Append(Tail(unmatched), m)
         /\ UNCHANGED <<queue, part>>

\* The next message of the camera in answer to r: a block, the end after the last
\* block, or a response with which it breaks off.  skipped blocks were lost with
\* the framing.
Answers(r, skipped) ==
    LET n == stream[r] + skipped IN
    {[req |-> r, kind |-> k, n |-> 0, resync |-> framing = "lost"] : k \in {"error", "empty"}}
    \cup {[req |-> r, kind  |-> IF n <= Size THEN "data" ELSE "end",
           n |-> IF n <= Size THEN n ELSE 0, resync |-> framing = "lost"]}

\* Counts what is bounded by MaxMishaps.
Mishap == mishaps < MaxMishaps /\ mishaps' = mishaps + 1

\* The camera sends, to the transfer that waits for it or late.
Send(r, skipped) ==
    /\ IF r = req /\ pc = "transfer" THEN UNCHANGED mishaps ELSE Mishap
    /\ conn = "up" /\ fault = "none" /\ stream[r] # 0 /\ stream[r] + skipped <= Size + 1
    /\ framing = "ok" => skipped = 0
    /\ framing = "lost" => pc = "transfer" /\ Kind(req) = "playback"   \* _resync_header
    /\ \E m \in Answers(r, skipped) :
          /\ Dispatch(m)
          /\ stream' = [stream EXCEPT ![r] = IF m.kind = "data" THEN m.n + 1 ELSE 0]
    /\ framing' = "ok"
    /\ UNCHANGED <<pc, call, index, only_timeouts, outcome, callVars, accepted_msg_nums,
                   resync, conn, fault, converted, raw_path, output>>

\* Bytes that are no Baichuan message reach the dispatcher.  It recovers only when
\* a playback had been asked for before it began to read.
Desync ==
    /\ conn = "up" /\ framing = "ok" /\ pc = "transfer" /\ fault = "none"
    /\ framing' = "lost" /\ Mishap
    /\ UNCHANGED <<pc, call, index, only_timeouts, outcome, callVars, transferVars,
                   conn, fault, unmatched, stream, fileVars>>

InvalidMagic ==
    /\ conn = "up" /\ framing = "lost" /\ pc = "transfer" /\ fault = "none"
    /\ fault' = "magic"
    /\ UNCHANGED <<pc, call, index, only_timeouts, outcome, callVars, transferVars,
                   conn, framing, unmatched, stream, mishaps, fileVars>>

\* The connection ends; the dispatcher ends with it.
Lose ==
    /\ conn = "up" /\ Mishap
    /\ conn' = "down" /\ fault' = "lost" /\ stream' = [r \in Request |-> 0]
    /\ UNCHANGED <<pc, call, index, only_timeouts, outcome, callVars, transferVars,
                   framing, unmatched, fileVars>>

(***************************************************************************)
(* _download_file: a call, and the reconnections between its attempts.      *)
(***************************************************************************)
\* The subscription is closed; what is in its queue is lost.
Close == queue' = <<>> /\ accepted_msg_nums' = {} /\ resync' = FALSE

\* The call returns, and with it go the locals.
Return(o) ==
    /\ pc' = "idle" /\ outcome' = o
    /\ index' = 1 /\ only_timeouts' = TRUE
    /\ next_reconnect_attempt' = 1 /\ next_delayed_reconnect_attempt' = 1 /\ tries' = 0
    /\ Close

\* _existing_download_matches
ExistingDownloadMatches ==
    /\ Exists(output)
    /\ IF Listed = 0 \/ Mp4 THEN output.data # <<>> ELSE Len(output.data) = Listed

Start(rewrite_exists) ==
    /\ pc = "idle" /\ call < MaxCalls
    /\ call' = call + 1
    /\ IF ~ rewrite_exists /\ ExistingDownloadMatches
       THEN /\ Return("done")
            /\ part' = [i \in DOMAIN part |-> NoFile]     \* _remove_stale_part_files
       ELSE /\ pc' = "next" /\ outcome' = "none"
            /\ UNCHANGED <<part, index, only_timeouts, callVars, transferVars>>
    /\ UNCHANGED <<sessionVars, converted, raw_path, output>>

\* A new connection has new queues and none of the old answers.
NewConnection ==
    /\ conn' = "up" /\ framing' = "ok" /\ fault' = "none" /\ unmatched' = <<>>

\* Mutant: a reconnection that succeeds gives the attempts back.
CountAfresh(ok) ==
    /\ tries' = tries + 1
    /\ IF next_reconnect_attempt <= Retries
       THEN /\ next_reconnect_attempt' = IF ok THEN 1 ELSE next_reconnect_attempt + 1
            /\ UNCHANGED next_delayed_reconnect_attempt
       ELSE /\ next_delayed_reconnect_attempt <= DelayedRetries
            /\ next_delayed_reconnect_attempt' = next_delayed_reconnect_attempt + 1
            /\ UNCHANGED next_reconnect_attempt

\* One attempt of _reconnect_for_download: a regular one while there are any left.
Count(ok) ==
    /\ tries' = tries + 1
    /\ IF next_reconnect_attempt <= Retries
       THEN /\ next_reconnect_attempt' = next_reconnect_attempt + 1
            /\ UNCHANGED next_delayed_reconnect_attempt
       ELSE /\ next_delayed_reconnect_attempt <= DelayedRetries
            /\ next_delayed_reconnect_attempt' = next_delayed_reconnect_attempt + 1
            /\ UNCHANGED next_reconnect_attempt

\* _try_download_reconnect; then _download_once begins anew, with its first strategy.
TryDownloadReconnect(ok) ==
    /\ pc = "reconnect"
    /\ Count(ok)
    /\ stream' = [r \in Request |-> 0] /\ UNCHANGED mishaps
    /\ IF ok
       THEN NewConnection /\ pc' = "next" /\ index' = 1 /\ only_timeouts' = TRUE
       ELSE /\ conn' = "none" /\ framing' = "ok" /\ fault' = "none" /\ unmatched' = <<>>
            /\ UNCHANGED <<pc, index, only_timeouts>>
    /\ UNCHANGED <<call, outcome, transferVars, fileVars>>

\* CameraConnectionError
GiveUp ==
    /\ pc = "reconnect"
    /\ next_reconnect_attempt > Retries /\ next_delayed_reconnect_attempt > DelayedRetries
    /\ Return("failed")
    /\ UNCHANGED <<call, sessionVars, fileVars>>

(***************************************************************************)
(* _download_once: the strategies, and what ends a transfer.                *)
(***************************************************************************)
RemovePart == part' = [part EXCEPT ![index] = NoFile]

NextStrategy == pc' = "next" /\ index' = index + 1 /\ UNCHANGED <<outcome, callVars>>

\* Exceptions of a strategy.  f is its part file at that moment: an empty one is
\* removed, one with data stays until the strategy is tried again.
Raised(error, f) ==
    LET caught == error \in {"timeout", "protocol"} \/ Kind(req) = "replay"
    IN  /\ part' = [part EXCEPT ![index] = IF caught /\ f.data = <<>> THEN NoFile ELSE f]
        /\ IF caught
           THEN /\ NextStrategy /\ Close
                /\ only_timeouts' = (only_timeouts /\ error = "timeout")
           ELSE Return("failed")

\* The request is on its way: the part file is new, the answers are routed here.
DoRequest ==
    /\ pc = "next" /\ index <= Len(Strategy)
    /\ conn # "down"
    /\ IF conn = "none" THEN NewConnection /\ queue' = <<>>
       ELSE /\ fault' = "none"           \* start_dispatcher
            /\ queue' = Kept(unmatched, Backlog({MsgNum(req)}))
            /\ unmatched' = Kept(unmatched, Message \ Backlog({MsgNum(req)}))
            /\ UNCHANGED <<conn, framing>>
    /\ stream' = [stream EXCEPT ![req] = 1] /\ UNCHANGED mishaps
    /\ accepted_msg_nums' = {MsgNum(req)} /\ resync' = FALSE
    /\ part' = [part EXCEPT ![index] = [NoFile EXCEPT !.of = req]]
    /\ pc' = "transfer"
    /\ UNCHANGED <<call, index, only_timeouts, outcome, callVars,
                   converted, raw_path, output>>

\* ensure_connected, _prepare_replay_download or sending fails.
RequestFails(error) ==
    /\ pc = "next" /\ index <= Len(Strategy)
    /\ Raised(error, NoFile)
    /\ UNCHANGED <<call, sessionVars, converted, raw_path, output>>

\* Every strategy tried, none has written anything.
Exhausted ==
    /\ pc = "next" /\ index > Len(Strategy)
    /\ IF only_timeouts
       THEN pc' = "reconnect"
            /\ UNCHANGED <<index, only_timeouts, outcome, callVars, transferVars>>
       ELSE Return("failed")
    /\ UNCHANGED <<call, sessionVars, fileVars>>

\* Mutant: bytes skipped in a playback are forgotten.
MismatchBySize(f, skips) == f.by = None

Mismatch(f, skips) == f.by = None \/ (Kind(req) = "playback" /\ skips)

\* The transfer has ended with the part file f, completed when f.by is set.  One
\* that wrote nothing leaves the word to the next strategy, one that was cut short
\* or skipped bytes of a playback is a mismatch, the others are finalised.
End(f, skips) ==
    /\ only_timeouts' = FALSE /\ Close
    /\ \/ /\ f.data = <<>>
          /\ RemovePart /\ NextStrategy
       \/ /\ f.data # <<>> /\ Mismatch(f, skips)
          /\ RemovePart /\ pc' = "reconnect"
          /\ UNCHANGED <<index, outcome, callVars>>
       \/ /\ f.data # <<>> /\ ~ Mismatch(f, skips)
          /\ part' = [part EXCEPT ![index] = f]
          /\ pc' = IF Mp4 /\ Kind(req) # "direct" THEN "convert" ELSE "unlink"
          /\ UNCHANGED <<index, outcome, callVars>>

(***************************************************************************)
(* _download_with_query: the messages of one transfer.                      *)
(***************************************************************************)
Current == part[index]

\* The loop goes on after message m.
Continue(m) ==
    /\ accepted_msg_nums' = accepted_msg_nums \cup {MsgNum(m.req)}
    /\ resync' = (resync \/ m.resync)
    /\ queue' = Tail(queue)
    /\ UNCHANGED <<pc, index, only_timeouts, outcome, callVars>>

\* The loop is left after message m, with the part file f.
Break(m, f) == End(f, resync \/ m.resync)

\* The response codes that complete: 300, for replay 201.  A direct download is
\* completed by 300 only when it has written something.
Completes(m) ==
    /\ m.kind = "end"
    /\ IF Kind(req) = "replay" /\ Kind(m.req) = "replay" THEN TRUE
       ELSE Kind(m.req) # "replay" /\ (Kind(req) = "playback" \/ written > 0)

WriteData(m) ==
    LET f == [Current EXCEPT !.data = Append(@, [req |-> m.req, n |-> m.n])]
    IN  IF Reached(written + 1) THEN Break(m, [f EXCEPT !.by = req])
        ELSE part' = [part EXCEPT ![index] = f] /\ Continue(m)

\* An empty message is waited out while the listed size is not reached, or when it
\* is an intermediate response of a playback.
EmptyMessage(m) ==
    \/ (Kind(req) = "playback" \/ Expected # 0) /\ Continue(m) /\ UNCHANGED part
    \/ Break(m, Current)

Response(m) ==
    IF Completes(m) THEN Break(m, [Current EXCEPT !.by = m.req])
    ELSE IF written > 0 THEN Break(m, Current)
    ELSE Raised("protocol", Current)

Receive ==
    /\ pc = "transfer" /\ queue # <<>>
    /\ LET m == Head(queue)
       IN  \/ m.kind = "data" /\ WriteData(m)
           \/ m.kind = "empty" /\ EmptyMessage(m)
           \/ m.kind \in {"end", "error"} /\ Response(m)
    /\ UNCHANGED <<call, sessionVars, converted, raw_path, output>>


\* Nothing has come for recv_timeout, or for active_idle_seconds once data came.
Idle ==
    /\ pc = "transfer" /\ queue = <<>> /\ fault = "none"
    /\ IF written > 0 THEN End(Current, resync) ELSE Raised("timeout", Current)
    /\ UNCHANGED <<call, sessionVars, converted, raw_path, output>>

\* recv() raises what ended the dispatcher.
Fault ==
    /\ pc = "transfer" /\ queue = <<>>
    /\ \/ /\ fault = "magic" /\ Kind(req) # "playback"
          /\ pc' = "raw" /\ Close
          /\ UNCHANGED <<index, only_timeouts, outcome, callVars, part>>
       \/ fault = "magic" /\ Kind(req) = "playback" /\ Raised("protocol", Current)
       \/ fault = "lost" /\ Raised("other", Current)
    /\ UNCHANGED <<call, sessionVars, converted, raw_path, output>>

\* _copy_raw_download_tail: what comes is written as it is, up to the listed size.
RawChunk ==
    /\ pc = "raw" /\ conn = "up"
    /\ written <= Size              \* bound, when the list has no size
    /\ Expected = 0 \/ written < Expected
    /\ part' = [part EXCEPT ![index].data = Append(@, RawBlock)]
    /\ UNCHANGED <<pc, call, index, only_timeouts, outcome, callVars, transferVars,
                   sessionVars, converted, raw_path, output>>

RawEnd ==
    /\ pc = "raw"
    /\ End(IF Reached(written) THEN [Current EXCEPT !.by = req] ELSE Current, FALSE)
    /\ UNCHANGED <<call, sessionVars, converted, raw_path, output>>

(***************************************************************************)
(* _finalize_download, a step for each change of the file system.  A        *)
(* bcmedia part is converted beside the output first; then the old output   *)
(* goes and the new one takes its name.                                     *)
(***************************************************************************)
locals == <<index, only_timeouts, outcome, callVars, transferVars>>

\* Mutant: the old output is removed before the conversion.
ConvertOverwriting ==
    /\ pc = "convert" /\ pc' = "converting"
    /\ converted' = [NoFile EXCEPT !.of = req]
    /\ output' = NoFile
    /\ UNCHANGED <<call, locals, sessionVars, part, raw_path>>

Convert ==
    /\ pc = "convert" /\ pc' = "converting"
    /\ converted' = [NoFile EXCEPT !.of = req]
    /\ UNCHANGED <<call, locals, sessionVars, part, raw_path, output>>

\* By bcmedia_to_mp4, or by extract_embedded_mp4 when that fails.
Converted ==
    /\ pc = "converting" /\ pc' = "unlink"
    /\ converted' = Current
    /\ UNCHANGED <<call, locals, sessionVars, part, raw_path, output>>

\* Both fail: the part file is kept under the name raw_path.
ConversionFails ==
    /\ pc = "converting"
    /\ converted' = NoFile /\ raw_path' = Current /\ RemovePart
    /\ Return("failed")
    /\ UNCHANGED <<call, sessionVars, output>>

UnlinkOutput ==
    /\ pc = "unlink" /\ pc' = "replace"
    /\ output' = NoFile
    /\ UNCHANGED <<call, locals, sessionVars, part, converted, raw_path>>

\* A part file of a direct download takes the name itself.
ReplaceOutput ==
    /\ pc = "replace"
    /\ IF Mp4 /\ Kind(req) # "direct"
       THEN /\ output' = converted /\ converted' = NoFile
            /\ pc' = "cleanup" /\ UNCHANGED <<part, locals>>
       ELSE /\ output' = Current /\ RemovePart
            /\ Return("done") /\ UNCHANGED converted
    /\ UNCHANGED <<call, sessionVars, raw_path>>

Cleanup ==
    /\ pc = "cleanup"
    /\ RemovePart
    /\ Return("done")
    /\ UNCHANGED <<call, sessionVars, converted, raw_path, output>>

\* The process ends and is started again: only the files are left.
Crash ==
    /\ pc # "idle" /\ Mishap
    /\ Return("none")
    /\ conn' = "none" /\ framing' = "ok" /\ fault' = "none" /\ unmatched' = <<>>
    /\ stream' = [r \in Request |-> 0]
    /\ UNCHANGED <<call, fileVars>>

(***************************************************************************)
(* The specification.                                                       *)
(***************************************************************************)
Caller ==
    \/ \E ok \in BOOLEAN : TryDownloadReconnect(ok)
    \/ GiveUp
    \/ DoRequest
    \/ \E e \in {"timeout", "protocol", "other"} : RequestFails(e)
    \/ Exhausted
    \/ Receive \/ Idle \/ Fault \/ RawChunk \/ RawEnd
    \/ Convert \/ Converted \/ ConversionFails
    \/ UnlinkOutput \/ ReplaceOutput \/ Cleanup

Environment ==
    \/ \E r \in Request, skipped \in {0, 1} : Send(r, skipped)
    \/ Desync \/ InvalidMagic \/ Lose \/ Crash

Next == Caller \/ Environment \/ \E rewrite_exists \in BOOLEAN : Start(rewrite_exists)

Spec == Init /\ [][Next]_vars

\* Every wait of the caller has a timeout, so a caller that is not stopped goes on.
FairSpec == Spec /\ WF_vars(Caller)

(***************************************************************************)
(* Properties.                                                              *)
(***************************************************************************)
OnlyOwn(f) == \A i \in DOMAIN f.data : f.data[i].req = f.of

\* A finished recording is the whole recording, block by block, although answers are
\* cut short, repeated after a reconnection or begun again by another strategy: at
\* least when the queue dropped nothing and no answer to an older request took part.
Whole ==
    Exists(output) /\ ~ output.lost /\ output.by = output.of /\ OnlyOwn(output)
        => output.data = Blocks(output.of)

\* The files beside the output that could take its name as they are: a bcmedia part
\* could not.
Playable == {converted} \cup {part[i] : i \in {j \in DOMAIN part : Mp4 => Strategy[j] = "direct"}}

\* The file a call replaces is given up only when a completed one, already converted,
\* is on the disk beside it; so a crash leaves one of the two, and a conversion that
\* fails leaves the old.
OldFileKept ==
    [][/\ Exists(output) /\ ~ Exists(output') => \E f \in Playable : f.by # None
       /\ Exists(output') => output'.by # None]_vars

\* reconnect_retries and delayed_reconnect_retries bound the reconnections of a whole
\* call, also of one whose reconnections succeed and whose transfers are cut again.
RetryBudget == tries <= Retries + DelayedRetries

\* The call keeps to its attempts, and its queue and files to their form.
DownloadInv == TypeOK /\ RetryBudget

\* "An interrupted transfer [...] is never presented as a completed recording"
\* (docs/06-sd-card-downloads.md): a finished file lacks no block.
NeverPartial ==
    Exists(output) => \A n \in 1 .. Size : \E i \in DOMAIN output.data : output.data[i].n = n

=============================================================================
