------------------------------ MODULE RemoteFiles -----------------------------
(***************************************************************************)
(* Reading remote objects: the segments of a log, or the files of a        *)
(* snapshot, are planned and downloaded by jobs that a scheduler starts in *)
(* order within the limits on concurrent reads and bytes.  Every job reads *)
(* a range of one object into its own part of the result, and retries.     *)
(* The objects are read through one of the adapters.  A byte is the object *)
(* it is from and its position in it; an error is the set of what it is.   *)
(***************************************************************************)
EXTENDS Integers, Sequences, FiniteSets, FiniteSetsExt, Functions, TLC

CONSTANTS
    Infos,       \* the reads: a mode, the first start position and the objects
    Adapters,    \* the readers: "local", "object" (S3, OSS), "hdfs", "legacy"
    Faults,      \* errors of the storage besides those of wrong sizes
    MaxAttempts, MaxFileBytes, MaxTotalBytes, MaxFiles, MaxConcurrentReads, MaxConcurrentBytes

ASSUME FilesAssumption ==
    /\ MaxAttempts \in 1 .. 10 /\ MaxFileBytes \in Nat \ {0} /\ MaxTotalBytes \in Nat \ {0}
    /\ MaxFiles \in Nat \ {0} /\ MaxConcurrentReads \in 1 .. 1024 /\ MaxConcurrentBytes \in Nat \ {0}
    /\ (\A i \in Infos : i.objects \in Seq(Range(i.objects))) /\ {} \notin Faults

VARIABLES
    info,       \* the read that is made
    plan,       \* its objects in order, none when it is refused
    adapter,    \* the reader it is made through
    download,      \* the scheduler: where it is, next, active, activeBytes, firstErr, contextDone
    job,        \* job[j]: where the goroutine is, its attempt, its error
    completed,  \* the channel of results
    canceled,   \* the contexts that are done: the caller's, and that of the run
    buffer,     \* the bytes of the result, of every job
    result      \* what the read returned: nothing yet, an error, or the bytes

fileVars == <<info, plan, adapter, download, job, completed, canceled, buffer, result>>

-----------------------------------------------------------------------------
(* The plan: a read is refused, or its objects are put in order *)

\* The objects sorted by their start offsets.
byStartOffset(objects) ==
    LET order == CHOOSE p \in Permutations(DOMAIN objects) :
                   \A m, n \in DOMAIN objects : m < n => objects[p[m]].start <= objects[p[n]].start
    IN  [n \in DOMAIN objects |-> objects[order[n]]]

startOf(i, n) == IF i.mode = "log" /\ n = 1 THEN i.first ELSE 0

\* What is to be read of the n-th object.
lengthOf(i, objects, n) == objects[n].size - startOf(i, n)

retained(i, objects, n) == FoldFunctionOnSet(+, 0, [m \in DOMAIN objects |-> lengthOf(i, objects, m)], 1 .. n)

\* Mutant: adjacent segments are not compared.
contiguousNot(objects, n) == TRUE

contiguous(objects, n) == n = 1 \/ objects[n - 1].end = objects[n].start

planRemoteLogSegments(i) ==
    LET objects == byStartOffset(i.objects)
        valid(n) == /\ objects[n].id # "" /\ objects[n].start >= 0 /\ objects[n].end > objects[n].start
                    /\ objects[n].size \in 1 .. MaxFileBytes /\ contiguous(objects, n)
                    /\ startOf(i, n) <= objects[n].size /\ retained(i, objects, n) <= MaxTotalBytes
    IN  IF i.first >= 0 /\ Len(objects) <= MaxFiles /\ \A n \in DOMAIN objects : valid(n) THEN objects ELSE <<>>

validateRemoteSnapshotFiles(i) ==
    LET valid(n) == /\ i.objects[n].id # "" /\ i.objects[n].size \in 1 .. MaxFileBytes
                    /\ retained(i, i.objects, n) <= MaxTotalBytes
    IN  IF Len(i.objects) <= MaxFiles /\ \A n \in DOMAIN i.objects : valid(n) THEN i.objects ELSE <<>>

planOf(i) == IF i.mode = "log" THEN planRemoteLogSegments(i) ELSE validateRemoteSnapshotFiles(i)

Jobs == DOMAIN plan

sizeOf(j) == lengthOf(info, plan, j)

\* The bytes of the jobs, one after the other in the one result they are read into.
joined(parts) ==
    LET upTo[n \in 0 .. Len(parts)] == IF n = 0 THEN <<>> ELSE upTo[n - 1] \o parts[n]
    IN  upTo[Len(parts)]

-----------------------------------------------------------------------------
(* The adapters: the error of opening a range of an object, {} if it is opened *)

NoErr == {}

OpenLocalFile(r, stored) ==
    LET length == IF r.length = 0 THEN stored - r.offset ELSE r.length
    IN  IF r.expected > 0 /\ stored # r.expected THEN {"validation", "eof"}
        ELSE IF r.offset > stored \/ length < 0 \/ length > stored - r.offset \/ length > r.max THEN {"validation"}
        ELSE NoErr

\* The adapters of object stores and HDFS refuse a range that is empty.
ValidateRange(r) ==
    LET length == IF r.length = 0 THEN r.expected - r.offset ELSE r.length
        max == IF r.max = 0 THEN r.expected ELSE r.max
    IN  /\ r.offset >= 0 /\ r.expected > 0 /\ r.offset < r.expected
        /\ length > 0 /\ max > 0 /\ length <= max /\ length <= r.expected - r.offset

\* The answer names the range it has and the size of the object.
validateResponse(r, stored) == IF stored = r.expected THEN NoErr ELSE {"validation"}

OpenObject(r, stored) == IF ~ValidateRange(r) THEN {"config"} ELSE validateResponse(r, stored)

OpenHdfsFile(r, stored) == IF ~ValidateRange(r) THEN {"config"} ELSE IF stored # r.expected THEN {"validation"} ELSE NoErr

\* A reader without streams returns the whole object.
ReadLegacy(r, stored) == IF stored # r.expected THEN {"validation", "eof"} ELSE NoErr

OpenRemoteFile(r, stored) ==
    CASE adapter = "local" -> OpenLocalFile(r, stored)
      [] adapter = "object" -> OpenObject(r, stored)
      [] adapter = "hdfs" -> OpenHdfsFile(r, stored)
      [] adapter = "legacy" -> ReadLegacy(r, stored)

remoteReadTemporary(err) ==
    IF err \intersect {"canceled", "config", "validation", "unsupported", "notExist", "permission"} # {}
      THEN "eof" \in err
      ELSE "eof" \in err \/ "temporary" \in err \/ ("notTemporary" \notin err /\ "timeout" \in err)

-----------------------------------------------------------------------------
\* The read was refused before it began: its plan is not valid, or it is of a snapshot
\* without files.  A log without segments is read, and empty.
refused == plan = <<>> /\ (info.objects # <<>> \/ info.mode = "snapshot")

FilesInit ==
    /\ info \in Infos /\ plan = planOf(info) /\ adapter \in Adapters
    /\ download = [pc |-> IF refused THEN "returned" ELSE "start", next |-> 1, active |-> 0, activeBytes |-> 0,
                   firstErr |-> NoErr, contextDone |-> FALSE]
    /\ job = [j \in Jobs |-> [pc |-> "new", attempt |-> 0, err |-> NoErr]]
    /\ completed = <<>> /\ canceled = {}
    /\ buffer = [j \in Jobs |-> <<>>]
    /\ result = IF refused THEN [err |-> {"validation"}, bytes |-> <<>>, returned |-> TRUE]
                ELSE [err |-> NoErr, bytes |-> <<>>, returned |-> FALSE]

\* The caller's context is done, and with it that of the run.
CancelRead ==
    /\ "caller" \notin canceled /\ ~result.returned
    /\ canceled' = {"caller", "run"}
    /\ UNCHANGED <<info, plan, adapter, download, job, completed, buffer, result>>

-----------------------------------------------------------------------------
(* The scheduler *)

\* Mutant: the bytes of the active reads are not counted.
fitsAlone(s) == s.active < MaxConcurrentReads /\ sizeOf(s.next) <= MaxConcurrentBytes

fits(s) == s.active < MaxConcurrentReads /\ sizeOf(s.next) <= MaxConcurrentBytes - s.activeBytes

ready == download.firstErr = NoErr /\ download.next \in Jobs /\ fits(download)

startReady ==
    /\ download.pc = "start" /\ ready
    /\ download' = [download EXCEPT !.next = @ + 1, !.active = @ + 1, !.activeBytes = @ + sizeOf(download.next)]
    /\ job' = [job EXCEPT ![download.next].pc = "reading", ![download.next].attempt = 1]
    /\ UNCHANGED <<info, plan, adapter, completed, canceled, buffer, result>>

\* The read returns; an error leaves nothing in the result.
Return(err) ==
    /\ download' = [download EXCEPT !.pc = "returned"]
    /\ result' = [err |-> err, bytes |-> IF err = NoErr THEN joined(buffer) ELSE <<>>, returned |-> TRUE]
    /\ buffer' = IF err = NoErr THEN buffer ELSE [j \in Jobs |-> <<>>]
    /\ canceled' = canceled \union {"run"}
    /\ UNCHANGED <<info, plan, adapter, job, completed>>

\* Nothing can be started and nothing is active: firstErr, or the next object is larger
\* than the budget.
idleError ==
    /\ download.pc = "start" /\ download.next \in Jobs /\ ~ready /\ download.active = 0
    /\ Return(IF download.firstErr # NoErr THEN download.firstErr ELSE {"validation"})

AllDone == download.pc = "start" /\ download.next \notin Jobs /\ download.active = 0 /\ Return(download.firstErr)

Await ==
    /\ download.pc = "start" /\ ~ready /\ download.active > 0
    /\ download' = [download EXCEPT !.pc = "await"]
    /\ UNCHANGED <<info, plan, adapter, job, completed, canceled, buffer, result>>

\* Mutant: an error does not cancel the run.
FailedUncanceled(s, err) ==
    /\ download' = [s EXCEPT !.firstErr = IF download.firstErr = NoErr THEN err ELSE @]
    /\ UNCHANGED canceled

\* The first error is kept and cancels the run.
Failed(s, err) ==
    /\ download' = [s EXCEPT !.firstErr = IF download.firstErr = NoErr THEN err ELSE @]
    /\ canceled' = IF err # NoErr /\ download.firstErr = NoErr THEN canceled \union {"run"} ELSE canceled

awaitResult ==
    /\ download.pc = "await" /\ completed # <<>>
    /\ completed' = Tail(completed)
    /\ Failed([download EXCEPT !.pc = "start", !.active = @ - 1, !.activeBytes = @ - sizeOf(Head(completed))], job[Head(completed)].err)
    /\ UNCHANGED <<info, plan, adapter, job, buffer, result>>

\* Mutant: the read returns as soon as the caller's context is done.
awaitContextReturns == download.pc = "await" /\ "caller" \in canceled /\ Return({"canceled"})

awaitContext ==
    /\ download.pc = "await" /\ "caller" \in canceled /\ ~download.contextDone
    /\ Failed([download EXCEPT !.pc = "start", !.contextDone = TRUE], {"canceled"})
    /\ UNCHANGED <<info, plan, adapter, job, completed, buffer, result>>

-----------------------------------------------------------------------------
(* A job *)

requestOf(j) == [offset |-> startOf(info, j), length |-> sizeOf(j), expected |-> plan[j].size, max |-> MaxFileBytes]

bytesOf(j) == [n \in 1 .. sizeOf(j) |-> <<plan[j].id, startOf(info, j) + n>>]

JobEnds(j, err) ==
    /\ job' = [job EXCEPT ![j].pc = "ended", ![j].err = err]
    /\ completed' = Append(completed, j)

\* A range is opened and read into the job's part of the result.
AttemptReads(j) ==
    /\ job[j].pc = "reading" /\ OpenRemoteFile(requestOf(j), plan[j].stored) = NoErr
    /\ buffer' = [buffer EXCEPT ![j] = bytesOf(j)]
    /\ JobEnds(j, NoErr)
    /\ UNCHANGED <<info, plan, adapter, download, canceled, result>>

\* An attempt fails, maybe after some bytes: the job's part of the result is cleared.
\* A context that is done by now ends the job, as does an error that will not pass or
\* the last attempt.
AttemptFails(j, err) ==
    /\ job[j].pc = "reading" /\ buffer' = [buffer EXCEPT ![j] = <<>>]
    /\ IF "run" \notin canceled /\ remoteReadTemporary(err) /\ job[j].attempt < MaxAttempts
         THEN job' = [job EXCEPT ![j].pc = "backoff"] /\ UNCHANGED completed
         ELSE JobEnds(j, IF "run" \in canceled THEN {"canceled"} ELSE err)
    /\ UNCHANGED <<info, plan, adapter, download, canceled, result>>

\* The errors of an attempt: of the object, of the storage, of the context.
attemptErrors(j) ==
    LET opened == OpenRemoteFile(requestOf(j), plan[j].stored)
    IN  (IF opened = NoErr THEN {} ELSE {opened}) \union Faults \union (IF "run" \in canceled THEN {{"canceled"}} ELSE {})

\* waitContext: the timer fires or the context is done.
BackoffEnds(j) ==
    /\ job[j].pc = "backoff"
    /\ \/ /\ job' = [job EXCEPT ![j].pc = "reading", ![j].attempt = @ + 1]
          /\ UNCHANGED completed
       \/ "run" \in canceled /\ JobEnds(j, {"canceled"})
    /\ UNCHANGED <<info, plan, adapter, download, canceled, buffer, result>>

-----------------------------------------------------------------------------
FilesIdle == result.returned /\ UNCHANGED fileVars

ReadStep == startReady \/ idleError \/ AllDone \/ Await \/ awaitResult \/ awaitContext

\* A reader that is called with a context returns when that is done.
CanceledReads == \E j \in Jobs : AttemptFails(j, {"canceled"}) /\ "run" \in canceled

FilesNext ==
    \/ ReadStep \/ CancelRead \/ FilesIdle
    \/ \E j \in Jobs : AttemptReads(j) \/ BackoffEnds(j) \/ \E err \in attemptErrors(j) : AttemptFails(j, err)

FilesSpec == FilesInit /\ [][FilesNext]_fileVars

FilesFairness == WF_fileVars(ReadStep) /\ WF_fileVars(\E j \in Jobs : BackoffEnds(j))

FilesFairSpec == FilesSpec /\ FilesFairness

-----------------------------------------------------------------------------
running == {j \in Jobs : job[j].pc \in {"reading", "backoff"}}

\* The reads that are running, whatever the scheduler's counters say, are within the
\* limits on their number and on their bytes.
WithinLimits ==
    /\ Cardinality(running) <= MaxConcurrentReads
    /\ FoldFunctionOnSet(+, 0, [j \in Jobs |-> sizeOf(j)], running) <= MaxConcurrentBytes

\* A read returns every byte or none: without an error the result is the bytes of
\* objects that follow each other without a gap (the first from the start position),
\* whatever the order they arrived in and whatever was retried, and when the read has
\* returned no goroutine is left that writes to the result.
WholeResult ==
    result.returned =>
        /\ running = {}
        /\ result.err = NoErr =>
             /\ result.bytes = joined([j \in Jobs |-> bytesOf(j)])
             /\ info.mode = "log" => \A j \in Jobs : j > 1 => plan[j].start = plan[j - 1].end
        /\ result.err # NoErr => \A j \in Jobs : buffer[j] = <<>>

\* A read ends when its context is done, an error was reported or nothing is left that
\* could be started, also if an object is larger than the budget, provided that readers
\* return when their context is done.
ReadEnds ==
    WF_fileVars(CanceledReads) =>
        (("caller" \in canceled \/ download.firstErr # NoErr \/ (download.active = 0 /\ ~ready)) ~> result.returned)
===============================================================================
