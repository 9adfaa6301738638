---------------------------- MODULE StreamUpload ----------------------------
(***************************************************************************)
(* ManagedMultipartBuilder::upload_stream and run_stream                   *)
(* (src/src/managed.rs): a spawned reader task cuts a source of unknown    *)
(* behaviour into parts and sends them through a bounded channel; the task *)
(* that awaits upload_stream takes them from the channel and uploads up to *)
(* `concurrency` of them at once.                                          *)
(*                                                                         *)
(* Memory is counted in part buffers.  What one part upload does, retries  *)
(* included, is ManagedUpload's matter; here it succeeds or fails.  R2 is  *)
(* external: it handles a completion or an abort atomically, its answer is *)
(* in transit until the caller takes it, and a request whose connection    *)
(* was given up before may still be handled later, or never.               *)
(***************************************************************************)
EXTENDS Naturals, Sequences, FiniteSets

CONSTANTS
    Declared,       \* parts of the declared file_size
    Concurrency,    \* ManagedMultipartBuilder::concurrency
    Budget          \* max_buffered_bytes / part_size

\* validate(): part_size * concurrency fits the budget.
ASSUME StreamAssumption ==
    /\ Declared \in Nat \ {0}
    /\ Concurrency \in Nat \ {0}
    /\ Budget \in Nat
    /\ Concurrency <= Budget

VARIABLES
    pc,             \* where upload_stream stands
    cancelled,      \* ManagedUploadCancellation's signal
    reader,         \* state of the reader task
    next,           \* number of the part the reader is at
    channel,        \* the mpsc channel's queue
    inFlight,       \* parts buffer_unordered is uploading
    uploaded,       \* parts try_collect has collected
    session,        \* R2: state of the multipart session
    answer,         \* R2's answer to the current session request, in transit
    late,           \* session requests given up before R2 handled them
    error,          \* the error after_start_error was given
    result          \* what upload_stream returned

pipeVars == <<reader, next, channel, inFlight, uploaded>>
remoteVars == <<session, answer, late>>
vars == <<pc, cancelled, pipeVars, remoteVars, error, result>>

Parts == 1..Declared

\* max_parts.saturating_sub(concurrency).max(1)
ChannelSize == IF Budget - Concurrency >= 1 THEN Budget - Concurrency ELSE 1

\* The reader allocates a part's buffer before it reads, and keeps it while send waits.
ReaderHolds == IF reader \in {"reading", "sending"} THEN 1 ELSE 0
Buffered == ReaderHolds + Len(channel) + Cardinality(inFlight)

----------------------------------------------------------------------------
Init ==
    /\ pc = "idle"
    /\ cancelled = FALSE
    /\ reader = "unborn"
    /\ next = 1
    /\ channel = <<>>
    /\ inFlight = {}
    /\ uploaded = {}
    /\ session = "none"
    /\ answer = "none"
    /\ late = {}
    /\ error = "none"
    /\ result = "none"

Cancel ==
    /\ ~cancelled
    /\ pc # "done"
    /\ cancelled' = TRUE
    /\ UNCHANGED <<pc, pipeVars, remoteVars, error, result>>

\* The application awaits upload_stream.
CallStream ==
    /\ pc = "idle"
    /\ pc' = "create"
    /\ UNCHANGED <<cancelled, pipeVars, remoteVars, error, result>>

\* validate(), the check of the signal, a snapshot to resume, or create() failing.
RefuseToStart ==
    /\ pc = "create"
    /\ pc' = "done"
    /\ result' = "error"
    /\ error' \in {"service"} \union (IF cancelled THEN {"cancelled"} ELSE {})
    /\ UNCHANGED <<cancelled, pipeVars, remoteVars>>

\* create() succeeds and run_stream spawns the reader, which allocates a buffer.
StartStream ==
    /\ pc = "create"
    /\ session' = "open"
    /\ pc' = "run"
    /\ reader' = "reading"
    /\ UNCHANGED <<cancelled, next, channel, inFlight, uploaded, answer, late, error, result>>

----------------------------------------------------------------------------
(* The reader task *)

\* read_exact fills the buffer.
SourceYields ==
    /\ reader = "reading"
    /\ reader' = "sending"
    /\ UNCHANGED <<pc, cancelled, next, channel, inFlight, uploaded, remoteVars, error, result>>

\* The source ends before the declared size, or fails: the task returns Err(Io).
SourceFails ==
    /\ reader = "reading"
    /\ reader' = "failed"
    /\ UNCHANGED <<pc, cancelled, next, channel, inFlight, uploaded, remoteVars, error, result>>

\* Mutant: the last part is not the end of the loop.
ReaderSendsOn ==
    /\ reader = "sending"
    /\ pc = "run"
    /\ Len(channel) < ChannelSize
    /\ channel' = Append(channel, next)
    /\ next' = next + 1
    /\ reader' = IF next = Declared + 1 THEN "finished" ELSE "reading"
    /\ UNCHANGED <<pc, cancelled, inFlight, uploaded, remoteVars, error, result>>

\* Mutant: a part that finds the channel full is dropped.
ReaderDropsWhenFull ==
    /\ reader = "sending"
    /\ pc = "run"
    /\ channel' = IF Len(channel) < ChannelSize THEN Append(channel, next) ELSE channel
    /\ next' = next + 1
    /\ reader' = IF next = Declared THEN "finished" ELSE "reading"
    /\ UNCHANGED <<pc, cancelled, inFlight, uploaded, remoteVars, error, result>>

\* tx.send gets a slot; the loop goes on until `remaining` is 0.
ReaderSends ==
    /\ reader = "sending"
    /\ pc = "run"
    /\ Len(channel) < ChannelSize
    /\ channel' = Append(channel, next)
    /\ next' = next + 1
    /\ reader' = IF next = Declared THEN "finished" ELSE "reading"
    /\ UNCHANGED <<pc, cancelled, inFlight, uploaded, remoteVars, error, result>>

\* Mutant: the task is detached, and only ends when it next sends.
DetachedReaderStops ==
    /\ pc \in {"cleanup", "done"}
    /\ reader = "sending"
    /\ reader' = "stopped"
    /\ UNCHANGED <<pc, cancelled, next, channel, inFlight, uploaded, remoteVars, error, result>>

\* Once run_stream is dropped: its JoinSet aborts the task, and send finds no receiver.
ReaderStops ==
    /\ pc \in {"cleanup", "done"}
    /\ reader \in {"reading", "sending"}
    /\ reader' = "stopped"
    /\ UNCHANGED <<pc, cancelled, next, channel, inFlight, uploaded, remoteVars, error, result>>

ReaderEnded == reader \in {"failed", "finished"}

----------------------------------------------------------------------------
(* run_stream's consumer: unfold, buffer_unordered, try_collect *)

\* The request on the wire that R2 has not handled when its future is dropped.
Unhandled ==
    (IF pc = "complete" /\ answer = "none" THEN {"complete"} ELSE {})
    \union (IF pc = "cleanup" /\ answer = "none" THEN {"abort"} ELSE {})

\* The futures of the current step are dropped, with the receiver, the parts in
\* flight and the connection they own.
DropFutures ==
    /\ channel' = <<>>
    /\ inFlight' = {}
    /\ late' = late \union Unhandled
    /\ answer' = "none"

\* run_stream is dropped or returns an error, and after_start_error begins.
FailStream(kind) ==
    /\ pc' = "cleanup"
    /\ error' = kind
    /\ DropFutures
    /\ UNCHANGED <<cancelled, reader, next, uploaded, session, result>>

\* Mutant: one part too many in flight.
TakeOnePartMore ==
    /\ pc = "run"
    /\ channel # <<>>
    /\ Cardinality(inFlight) <= Concurrency
    /\ inFlight' = inFlight \union {Head(channel)}
    /\ channel' = Tail(channel)
    /\ UNCHANGED <<pc, cancelled, reader, next, uploaded, remoteVars, error, result>>

TakePart ==
    /\ pc = "run"
    /\ channel # <<>>
    /\ Cardinality(inFlight) < Concurrency
    /\ inFlight' = inFlight \union {Head(channel)}
    /\ channel' = Tail(channel)
    /\ UNCHANGED <<pc, cancelled, reader, next, uploaded, remoteVars, error, result>>

PartUploaded ==
    /\ pc = "run"
    /\ \E p \in inFlight :
          /\ inFlight' = inFlight \ {p}
          /\ uploaded' = uploaded \union {p}
    /\ UNCHANGED <<pc, cancelled, reader, next, channel, remoteVars, error, result>>

PartFails ==
    /\ pc = "run"
    /\ inFlight # {}
    /\ FailStream("service")

\* The manifest and complete()'s own check that no planned part is missing.
BeginComplete ==
    IF uploaded = Parts
    THEN /\ pc' = "complete"
         /\ UNCHANGED <<cancelled, pipeVars, remoteVars, error, result>>
    ELSE FailStream("manifest")

Drained == channel = <<>> /\ inFlight = {}

\* Mutant: the reader's own result is not looked at.
JoinIgnoresReader ==
    /\ pc = "run"
    /\ ReaderEnded
    /\ Drained
    /\ BeginComplete

\* Mutant: a reader that fails leaves the channel open.
JoinWaitsForLastPart ==
    /\ pc = "run"
    /\ reader = "finished"
    /\ Drained
    /\ BeginComplete

\* The channel is closed and drained: join_next() gives the reader's own result.
JoinReader ==
    /\ pc = "run"
    /\ ReaderEnded
    /\ Drained
    /\ IF reader = "failed" THEN FailStream("io") ELSE BeginComplete

\* R2 handles CompleteMultipartUpload.  The SDK resends a request whose answer is
\* lost, so R2 may see it again.
HandleComplete ==
    /\ pc = "complete"
    /\ answer = "none"
    /\ \/ /\ session = "open"
          /\ session' = "completed"
          /\ answer' \in {"ok", "none"}
       \/ /\ session # "open"
          /\ answer' = "rejected"
          /\ UNCHANGED session
    /\ UNCHANGED <<pc, cancelled, pipeVars, late, error, result>>

CompleteSucceeds ==
    /\ pc = "complete"
    /\ answer = "ok"
    /\ answer' = "none"
    /\ pc' = "done"
    /\ result' = "ok"
    /\ UNCHANGED <<cancelled, pipeVars, session, late, error>>

\* The request fails or its answer is lost, whether or not R2 published the object.
CompleteFails ==
    /\ pc = "complete"
    /\ FailStream("service")

\* Mutant: the signal is only looked at between parts.
CancelWinsWhenIdle ==
    /\ pc \in {"run", "complete"}
    /\ cancelled
    /\ channel # <<>>
    /\ FailStream("cancelled")

\* `select` drops run_stream.
CancelWins ==
    /\ pc \in {"run", "complete"}
    /\ cancelled
    /\ FailStream("cancelled")

----------------------------------------------------------------------------
(* after_start_error *)

\* R2 handles AbortMultipartUpload.
HandleAbort ==
    /\ pc = "cleanup"
    /\ answer = "none"
    /\ \/ /\ session = "open"
          /\ session' = "aborted"
          /\ answer' \in {"ok", "none"}
       \/ /\ session # "open"
          /\ answer' = "rejected"
          /\ UNCHANGED session
    /\ UNCHANGED <<pc, cancelled, pipeVars, late, error, result>>

\* Mutant: the abort is sent and not waited for.
AbortNotAwaited ==
    /\ pc = "cleanup"
    /\ pc' = "done"
    /\ result' = "aborted"
    /\ DropFutures
    /\ UNCHANGED <<cancelled, reader, next, uploaded, session, error>>

AbortSucceeds ==
    /\ pc = "cleanup"
    /\ answer = "ok"
    /\ answer' = "none"
    /\ pc' = "done"
    /\ result' = "aborted"
    /\ UNCHANGED <<cancelled, pipeVars, session, late, error>>

\* abort() failed, or was not asked for (then it never reaches R2).
KeepSnapshot ==
    /\ pc = "cleanup"
    /\ pc' = "done"
    /\ result' = "snapshot"
    /\ DropFutures
    /\ UNCHANGED <<cancelled, reader, next, uploaded, session, error>>

----------------------------------------------------------------------------
(* Dropped calls and late requests *)

\* The caller drops the future of upload_stream: it learns nothing.
DropCall ==
    /\ pc \notin {"idle", "done"}
    /\ pc' = "done"
    /\ DropFutures
    /\ UNCHANGED <<cancelled, reader, next, uploaded, session, error, result>>

\* R2 handles a request nobody waits for any more.
HandleLate ==
    /\ session = "open"
    /\ \/ /\ "complete" \in late
          /\ session' = "completed"
          /\ late' = late \ {"complete"}
       \/ /\ "abort" \in late
          /\ session' = "aborted"
          /\ late' = late \ {"abort"}
    /\ UNCHANGED <<pc, cancelled, pipeVars, answer, error, result>>

----------------------------------------------------------------------------
SourceStep == SourceYields \/ SourceFails

ReaderStep == ReaderSends \/ ReaderStops

UploadStep ==
    \/ RefuseToStart
    \/ StartStream
    \/ TakePart
    \/ PartUploaded
    \/ PartFails
    \/ JoinReader
    \/ CompleteSucceeds
    \/ CompleteFails
    \/ CancelWins
    \/ AbortSucceeds
    \/ KeepSnapshot

RemoteStep == HandleComplete \/ HandleAbort \/ HandleLate

ApplicationStep == CallStream \/ Cancel \/ DropCall

Next == SourceStep \/ ReaderStep \/ UploadStep \/ RemoteStep \/ ApplicationStep

Spec == Init /\ [][Next]_vars

\* The runtime polls both tasks, and each request is answered or its timeout fires.
\* Nothing is assumed of the source, which may stall for ever, or of R2.
FairSpec == Spec /\ WF_vars(ReaderStep) /\ WF_vars(UploadStep) /\ WF_vars(CancelWins)

----------------------------------------------------------------------------
(* Properties *)

TypeOK ==
    /\ pc \in {"idle", "create", "run", "complete", "cleanup", "done"}
    /\ cancelled \in BOOLEAN
    /\ reader \in {"unborn", "reading", "sending", "failed", "finished", "stopped"}
    /\ next \in 1..(Declared + 1)
    /\ channel \in Seq(Parts)
    /\ inFlight \in SUBSET Parts
    /\ uploaded \in SUBSET Parts
    /\ session \in {"none", "open", "completed", "aborted"}
    /\ answer \in {"none", "ok", "rejected"}
    /\ late \in SUBSET {"complete", "abort"}
    /\ error \in {"none", "cancelled", "service", "io", "manifest"}
    /\ result \in {"none", "ok", "error", "aborted", "snapshot"}

\* The pipeline's real bound on part buffers: the channel, the parts in flight
\* and the one the reader is filling.
BuffersBounded == Buffered <= ChannelSize + Concurrency + 1

\* "Sets the maximum memory used by in-flight part buffers."
\* (ManagedMultipartBuilder::max_buffered_bytes)
MemoryWithinBudget == Buffered <= Budget

\* Each part is at exactly one place of the pipeline, in order and without gaps:
\* nothing the reader cut off is lost or uploaded twice.
NoPartLost ==
    pc = "run" =>
        /\ 1..(next - 1) = uploaded \union inFlight \union {channel[i] : i \in DOMAIN channel}
        /\ next - 1 = Cardinality(uploaded) + Cardinality(inFlight) + Len(channel)

\* A source that ends early or fails is reported as such, never as a defective
\* manifest, and never published: run_stream joins the reader before it completes.
ShortSourceIsReported ==
    /\ error # "manifest"
    /\ session = "completed" => reader = "finished" /\ uploaded = Parts

\* Cancellation ends the upload even while the source stalls.
CancelEnds == cancelled /\ pc # "idle" ~> pc = "done"

\* Whatever fails, upload_stream returns once its source makes progress: neither
\* side of the channel waits for the other for ever.
StreamEnds == WF_vars(SourceStep) => (pc = "run" ~> pc = "done")

\* No reader task outlives its upload for long, blocked on a full channel or on
\* a source that stalls.
ReaderIsReaped == pc = "done" ~> reader \notin {"reading", "sending"}

SessionNow ==
    CASE session \in {"none", "open"} -> session
      [] session = "completed"        -> "published"
      [] session = "aborted"          -> "discarded"

ReportNow ==
    CASE result = "none"    -> "nothing"
      [] result = "ok"      -> "published"
      [] result = "aborted" -> "discarded"
      [] result \in {"error", "snapshot"} -> "unsettled"

Contract == INSTANCE UploadContract WITH
    session <- SessionNow,
    report  <- ReportNow,
    calling <- pc \notin {"idle", "done"},
    handle  <- result = "snapshot"

\* upload_stream keeps the contract of a resumable upload, as upload_file does: Ok
\* and was_aborted are true of the session when they are said, although a cancelled
\* or failed completion may still reach R2, before or after the abort, and no other
\* error leaves an open session without a snapshot.
KeepsContract == Contract!Spec
=============================================================================
