------------------------------ MODULE SdLibrary ------------------------------
(***************************************************************************)
(* Listing the SD card and downloading what is listed (sd_card.py): list()  *)
(* asks for the recorded days, for each of them for a handle, in up to four  *)
(* ways, and then for the handle's pages, of which the camera keeps count;   *)
(* files(), filter() and limit_size() choose; SDFileCollection.download()    *)
(* downloads one after the other, and the user downloads failed_list() until *)
(* it is empty, as the documents have it.                                   *)
(*                                                                         *)
(* A recording is the record of what the camera says of it, which is what    *)
(* identifies it; its name stands for the local file it is downloaded to.    *)
(* A download of one file, SdDownload, succeeds or fails here in one step.   *)
(***************************************************************************)
EXTENDS Integers, Sequences, FiniteSets, SequencesExt, FiniteSetsExt, Filter

CONSTANTS
    Cards,          \* bound: what may be on the card, sequences of recordings
    Cameras,        \* bound: how the camera answers: [handle, ext, ending]
    StreamType,     \* stream_type: "main" or "sub"
    From, To,       \* start and end, as times
    DayLength,      \* times in a day
    PageSize,       \* bound: recordings in a page of the camera
    MaxPages,       \* 64
    Movies,         \* names of .mp4 files
    Leftover,       \* bound: sizes of files of earlier downloads
    Limits,         \* bound: values of max_bytes of limit_size()
    MaxFaults       \* bound: queries that time out and downloads that fail

Unknown == -1       \* the size of a recording of which the camera says none

Recording ==
    [name : Nat, start : Nat, end : Nat, stream : {"main", "sub"}, size : Nat \cup {Unknown}]

ASSUME LibraryAssumption ==
    /\ \A c \in Cards : /\ c \in Seq(Recording) /\ \A i \in DOMAIN c : c[i].start <= c[i].end
                       /\ \A i, j \in DOMAIN c : i # j => c[i] # c[j]
    /\ Cameras \subseteq
           [handle : BOOLEAN, ext : BOOLEAN, ending : {"empty", "repeat", "refuse"}]
    /\ StreamType \in {"main", "sub"} /\ From \in Nat /\ To \in Nat /\ From <= To
    /\ DayLength \in Nat \ {0} /\ PageSize \in Nat \ {0} /\ MaxPages \in Nat \ {0}
    /\ Leftover \subseteq Nat /\ Limits \subseteq Nat /\ MaxFaults \in Nat

VARIABLES
    card, camera,           \* what is on the card, and how the camera answers
    phase,                  \* of the user's thread: days, handle, page, choose, limit, batch, done, raised
    days, files,            \* list(): the days to come, the recordings so far
    variant, found,         \* _list_day_files: the query; its files, whose set is `seen'
    detail, page,           \* _list_handle_files: the query and page
    cursor,                 \* the camera: pages sent for the handle
    rewrite, continue,      \* rewrite_exists and continue_on_error
    batch, results, disk,   \* the collection, its results so far, the files in `output'
    chosen, limit,          \* history: the first batch, and its limit
    lost, faults            \* history: did a query of the list time out?

listVars  == <<days, files, variant, found, detail, page, cursor, lost>>
batchVars == <<rewrite, continue, batch, results, disk, chosen, limit>>
libraryVars == <<card, camera, phase, listVars, batchVars, faults>>

Nothing == [name |-> 0]     \* no file of that name
Older   == {[name |-> -1, size |-> n] : n \in Leftover}  \* those of earlier downloads
Names   == {card[i].name : i \in DOMAIN card}

---------------------------------------------------------------------------
\* The camera.

DayOf(t)     == t \div DayLength
Span(d)      == [from |-> Max({From, d * DayLength}), to |-> Min({To, d * DayLength + DayLength - 1})]
During(r, x) == r.start <= x.to /\ r.end >= x.from
Days         == DayOf(From) .. DayOf(To)

Search(c, stream, d) == {r \in ToSet(c) : r.stream = stream /\ During(r, Span(d))}
Answers == [c \in Cards |-> [stream \in {"main", "sub"} |->
               [d \in Days |-> Kept(c, Search(c, stream, d))]]]
Answer(stream, d) == Answers[card][stream][d]
EveryDay == [i \in 1 .. DayOf(To) - DayOf(From) + 1 |-> DayOf(From) + i - 1]
Recorded == Kept(EveryDay, {d \in Days : Answer("main", d) # <<>> \/ Answer("sub", d) # <<>>})
PagesOf(answer) == (Len(answer) + PageSize - 1) \div PageSize
PageOf(answer, k) == SubSeq(answer, (k - 1) * PageSize + 1, Min({k * PageSize, Len(answer)}))

---------------------------------------------------------------------------
LibraryInit ==
    /\ card \in Cards /\ camera \in Cameras /\ phase = "days"
    /\ days = <<>> /\ files = <<>> /\ variant = 1 /\ found = <<>> /\ detail = 1 /\ page = 1 /\ cursor = 0
    /\ rewrite \in BOOLEAN /\ continue \in BOOLEAN /\ batch = <<>> /\ results = <<>>
    /\ disk \in [Names -> {Nothing} \cup Older]
    /\ chosen = <<>> /\ limit = Unknown /\ lost = FALSE /\ faults = 0

\* _send_query: the answer, or its timeout.
Answered == UNCHANGED <<lost, faults>>
TimesOut == faults < MaxFaults /\ faults' = faults + 1 /\ lost' = TRUE

\* Any other exception ends the list.
Raise ==
    /\ phase \in {"days", "handle", "page"} /\ faults < MaxFaults
    /\ phase' = "raised" /\ faults' = faults + 1
    /\ UNCHANGED <<card, camera, listVars, batchVars>>

\* _recorded_days; without an answer, or with one that refuses or is empty, every day is
\* asked for.
RecordedDays ==
    /\ phase = "days" /\ phase' = "handle"
    /\ \/ Answered /\ Recorded # <<>> /\ days' = Recorded
       \/ (Answered \/ TimesOut) /\ days' = EveryDay
    /\ UNCHANGED <<card, camera, files, variant, found, detail, page, cursor, batchVars>>

---------------------------------------------------------------------------
\* _list_day_files

\* _handle_queries: each stream without and with the extension.
Streams == IF StreamType = "sub" THEN <<"sub">> ELSE <<StreamType, "sub">>
Stream(query) == Streams[(query + 1) \div 2]
HasExt(query) == query % 2 = 0
Understood(query) == camera.ext => HasExt(query)

\* The day is over, with the recordings fs.
DayOver(fs) ==
    /\ files' = files \o fs /\ found' = <<>> /\ variant' = 1 /\ days' = Tail(days)
    /\ phase' = IF Len(days) = 1 THEN "choose" ELSE "handle"

\* `if files: break', or on to the next query for a handle.
QueryOver(fs) ==
    IF fs # <<>> \/ variant = 2 * Len(Streams)
    THEN DayOver(fs)
    ELSE phase' = "handle" /\ variant' = variant + 1 /\ UNCHANGED <<days, files, found>>

HandleQuery ==
    LET answer == Answer(Stream(variant), Head(days))
        good   == answer # <<>> /\ Understood(variant)
    IN  /\ phase = "handle"
        /\ \/ TimesOut /\ QueryOver(<<>>) /\ UNCHANGED cursor
           \/ Answered /\ ~good /\ QueryOver(<<>>) /\ UNCHANGED cursor
           \/ Answered /\ good /\ ~camera.handle /\ QueryOver(answer) /\ UNCHANGED cursor
           \/ /\ Answered /\ good /\ camera.handle
              /\ phase' = "page" /\ cursor' = 0 /\ UNCHANGED <<days, files, variant, found>>
        /\ UNCHANGED <<card, camera, detail, page, batchVars>>

---------------------------------------------------------------------------
\* _list_handle_files

\* _append_unique_files
AppendAll(fs, items) == fs \o items     \* mutant: `seen' is not looked at
AppendUnique(fs, items) == fs \o Kept(items, ToSet(items) \ ToSet(fs))

HandleOver(fs) == detail' = 1 /\ page' = 1 /\ QueryOver(fs)

\* Is the page, which added some recordings, the last that is asked for?
PageComes(items) ==
    LET fs == AppendUnique(found, items)
    IN  IF Len(fs) = Len(found) \/ page = MaxPages
        THEN HandleOver(fs)
        ELSE page' = page + 1 /\ found' = fs /\ UNCHANGED <<phase, days, files, variant, detail>>

\* Without an answer the first page is asked for in the other way; no later one is.
PageFails ==
    IF page = 1 /\ detail = 1
    THEN detail' = 2 /\ UNCHANGED <<phase, days, files, variant, found, page>>
    ELSE HandleOver(found)

\* A query that times out may have reached the camera, which then counts a page.
PageQuery ==
    LET answer  == Answer(Stream(variant), Head(days))
        pages   == PagesOf(answer)
        over    == cursor = pages
        refused == ~Understood(detail) \/ (over /\ camera.ending = "refuse")
        items   == IF ~over THEN PageOf(answer, cursor + 1)
                   ELSE IF camera.ending = "repeat" THEN PageOf(answer, pages) ELSE <<>>
        counted == IF refused \/ over THEN cursor ELSE cursor + 1
    IN  /\ phase = "page"
        /\ \/ Answered /\ ~refused /\ PageComes(items) /\ cursor' = counted
           \/ Answered /\ refused /\ PageFails /\ UNCHANGED cursor
           \/ TimesOut /\ PageFails /\ cursor' \in {cursor, counted}
        /\ UNCHANGED <<card, camera, batchVars>>

---------------------------------------------------------------------------
\* _sort_recordings, files(), filter() and limit_size().

Earlier(a, b) == a.end < b.end \/ (a.end = b.end /\ a.name < b.name)
Precedes(a, b, order) == IF order = "desc" THEN Earlier(b, a) ELSE Earlier(a, b)

\* Python's sort keeps what is equal in its order, also in reverse.
Sorted(fs, order) ==
    IF order = "none" THEN {fs}
    ELSE {[i \in DOMAIN fs |-> fs[p[i]]] : p \in {q \in Permutations(DOMAIN fs) :
             q \in [DOMAIN fs -> DOMAIN fs] /\ \A i, j \in DOMAIN fs : i < j =>
                 LET a == fs[q[i]]  b == fs[q[j]]
                 IN  Precedes(a, b, order) \/ (~Precedes(b, a, order) /\ q[i] < q[j])}}

FilterFiles(fs, names, since) == Kept(fs, {r \in ToSet(fs) : r.name \in names /\ r.end >= since})

Sums(fs) ==
    LET sum[i \in 0 .. Len(fs)] == IF i = 0 THEN 0 ELSE sum[i - 1] + fs[i].size
    IN  sum
SizeOf(fs) == Sums(fs)[Len(fs)]

Taken(fs, max) ==
    LET taken[i \in 0 .. Len(fs)] ==
            IF i = 0 THEN <<>>
            ELSE LET before == taken[i - 1]
                 IN  IF SizeOf(before) + fs[i].size > max THEN before ELSE Append(before, fs[i])
    IN  taken
LimitSize(fs, max) == Taken(fs, max)[Len(fs)]

Choose ==
    /\ phase = "choose" /\ phase' = "limit"
    /\ \E order \in {"asc", "desc", "none"} : \E sorted \in Sorted(files, order) :
       \E names \in {Names} \cup {{n} : n \in Names}, d \in Days :
          chosen' = FilterFiles(sorted, names, d * DayLength)
    /\ UNCHANGED <<card, camera, listVars, rewrite, continue, batch, results, disk, limit, faults>>

Limit ==
    /\ phase = "limit"
    /\ \/ /\ UNCHANGED <<chosen, limit>>
          /\ phase' = IF chosen = <<>> THEN "done" ELSE "batch"
       \/ /\ limit' \in Limits
          /\ IF \E i \in DOMAIN chosen : chosen[i].size = Unknown
               THEN chosen' = <<>> /\ phase' = "raised"
               ELSE /\ chosen' = LimitSize(chosen, limit')
                    /\ phase' = IF chosen' = <<>> THEN "done" ELSE "batch"
    /\ batch' = chosen'
    /\ UNCHANGED <<card, camera, listVars, rewrite, continue, results, disk, faults>>

---------------------------------------------------------------------------
\* SDFileCollection.download(), and again of failed_list().

Result(file, status) == [file |-> file, status |-> status]
WithStatus(rs, S) ==
    LET those == Kept(rs, {r \in ToSet(rs) : r.status \in S}) IN [i \in DOMAIN those |-> those[i].file]
NotCompleted(rs) == WithStatus(rs, {"failed", "skipped"})   \* mutant: what was skipped is failed, too
FailedList(rs) == WithStatus(rs, {"failed"})

\* The results so far; is the batch over?
Record(rs, over) ==
    IF ~over THEN results' = rs /\ UNCHANGED <<batch, phase>>
    ELSE /\ results' = <<>> /\ batch' = FailedList(rs)
         /\ phase' = IF batch' = <<>> THEN "done" ELSE "batch"

\* What is not attempted after a failure.
NonePending(k) == <<>>      \* mutant: it has no result
Pending(k) == [i \in 1 .. Len(batch) - k |-> Result(batch[k + i], "failed")]

\* _existing_download_matches: of a movie it is enough that there is something; any other
\* file has the size which the camera gives, if it gives one.  (One without has another.)
Matches(there, file) ==
    /\ there # Nothing /\ there.size # 0
    /\ file.name \in Movies \/ file.size \in {Unknown, there.size}

DownloadNext ==
    LET k    == Len(results) + 1
        file == batch[k]
        last == k = Len(batch)
        skip == ~rewrite /\ Matches(disk[file.name], file)
    IN  /\ phase = "batch"
        /\ \/ /\ skip /\ Record(Append(results, Result(file, "skipped")), last)
              /\ UNCHANGED <<disk, faults>>
           \/ /\ ~skip /\ Record(Append(results, Result(file, "completed")), last)
              /\ disk' = [disk EXCEPT ![file.name] = file] /\ UNCHANGED faults
           \/ /\ ~skip /\ faults < MaxFaults /\ faults' = faults + 1 /\ UNCHANGED disk
              /\ IF continue THEN Record(Append(results, Result(file, "failed")), last)
                 ELSE Record(Append(results, Result(file, "failed")) \o Pending(k), TRUE)
        /\ UNCHANGED <<card, camera, listVars, rewrite, continue, chosen, limit>>

---------------------------------------------------------------------------
LibraryNext == Raise \/ RecordedDays \/ HandleQuery \/ PageQuery \/ Choose \/ Limit \/ DownloadNext

LibrarySpec == LibraryInit /\ [][LibraryNext]_libraryVars

\* The user's thread runs on: every query and download has an end.
FairLibrarySpec == LibrarySpec /\ WF_libraryVars(LibraryNext)

---------------------------------------------------------------------------
LibraryTypeOK ==
    /\ card \in Cards /\ camera \in Cameras
    /\ phase \in {"days", "handle", "page", "choose", "limit", "batch", "done", "raised"}
    /\ days \in Seq(Days) /\ files \in Seq(ToSet(card)) /\ found \in Seq(ToSet(card))
    /\ variant \in 1 .. 2 * Len(Streams) /\ detail \in 1 .. 2 /\ page \in 1 .. MaxPages /\ cursor \in Nat
    /\ rewrite \in BOOLEAN /\ continue \in BOOLEAN
    /\ batch \in Seq(ToSet(card)) /\ chosen \in Seq(ToSet(card)) /\ limit \in Limits \cup {Unknown}
    /\ results \in Seq([file : ToSet(card), status : {"completed", "skipped", "failed"}])
    /\ disk \in [Names -> {Nothing} \cup Older \cup ToSet(card)]
    /\ lost \in BOOLEAN /\ faults \in 0 .. MaxFaults

\* The recordings a day is listed with, when the camera answers every query.
Want(d) == IF Answer(StreamType, d) # <<>> THEN Answer(StreamType, d) ELSE Answer("sub", d)
Fits(d) == camera.handle => PagesOf(Want(d)) <= MaxPages
Count(fs, r) == Cardinality({i \in DOMAIN fs : fs[i] = r})

\* The list holds every recording of the range once for every day it touches, also those of
\* a camera that wants the extension, has handles or none, and after the last page sends
\* it again, an empty one or an error.  When queries time out there may be fewer, and
\* nothing says so, but none is there twice for a day.  (list, _list_handle_files)
Undisturbed == ~lost /\ \A d \in Days : Fits(d)
Listed ==
    phase \in {"choose", "limit", "batch", "done"} =>
        \A r \in ToSet(card) \cup ToSet(files) :
            LET touched == {d \in Days : During(r, Span(d))}
                wanted  == {d \in Days : r \in ToSet(Want(d))}
            IN  /\ Count(files, r) <= Cardinality(touched)
                /\ Undisturbed => Count(files, r) = Cardinality(wanted)

\* When the user's loop over failed_list() is done every recording that was chosen has
\* its file, downloaded from a recording of this name or, if that is to be kept, found to
\* match it;
\* what was chosen keeps to the limit.  (SDFileCollection.download, limit_size)
Saved ==
    /\ limit # Unknown => SizeOf(chosen) <= limit
    /\ phase = "done" => \A r \in ToSet(chosen) :
          \/ disk[r.name] \in ToSet(chosen)
          \/ ~rewrite /\ disk[r.name] \in Older /\ Matches(disk[r.name], r)
BatchInv == LibraryTypeOK /\ Saved

\* Every call ends, though pages come again and downloads fail.
LibraryEnds == <>(phase \in {"done", "raised"})

=============================================================================
