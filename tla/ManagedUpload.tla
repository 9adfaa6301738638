--------------------------- MODULE ManagedUpload ---------------------------
(***************************************************************************)
(* ManagedMultipartBuilder::upload_file (src/src/managed.rs) against one   *)
(* R2 multipart session.                                                   *)
(*                                                                         *)
(* One caller uploads a local file in parts, may be cancelled, may crash,  *)
(* and may later resume the session from a snapshot an earlier error       *)
(* returned.  The file can be rewritten at any moment.  R2 is external: it *)
(* handles each request atomically.  A request whose connection was given  *)
(* up before R2 handled it (a timeout, a dropped future, a crash) becomes  *)
(* a stray, which R2 may still handle later, or never.                     *)
(*                                                                         *)
(* The content of the file is its version number, bumped by each rewrite,  *)
(* so the version is also what SourceFileFingerprint compares; the length  *)
(* of the file is counted in parts.  R2's ETag of a part is the version of *)
(* the bytes the part was uploaded with, and NoPart stands for no ETag.    *)
(***************************************************************************)
EXTENDS Naturals, FiniteSets

CONSTANTS
    MaxParts,       \* the longest file, in parts
    Concurrency,    \* ManagedMultipartBuilder::concurrency
    MaxAttempts,    \* ManagedMultipartBuilder::max_attempts
    MaxVersion,     \* bound on the versions of the source file
    MaxRuns         \* bound on the calls of upload_file on the session

ASSUME MaxPartsAssumption == MaxParts \in Nat \ {0}
ASSUME ConcurrencyAssumption == Concurrency \in Nat \ {0}
ASSUME MaxAttemptsAssumption == MaxAttempts \in Nat \ {0}
ASSUME MaxVersionAssumption == MaxVersion \in Nat \ {0}
ASSUME MaxRunsAssumption == MaxRuns \in Nat \ {0}

VARIABLES
    file,           \* the source on disk: its version and length in parts
    upload,         \* R2: state of the session
    stored,         \* R2: ETag of each part the session holds
    object,         \* R2: content of the object the session published
    orphan,         \* R2: a session was created that no caller heard of
    strays,         \* requests given up before R2 handled them
    pc,             \* where upload_file stands
    run,            \* number of the current call of upload_file
    resume,         \* the builder holds a snapshot
    abortOnError,   \* ManagedMultipartBuilder::abort_on_error
    cancelled,      \* ManagedUploadCancellation's signal
    plan,           \* number of parts of the session's MultipartPlan
    fingerprint,    \* SourceFileFingerprint taken before the session opens
    reused,         \* existing_numbers: the parts ListParts returned
    manifest,       \* ETag of each part the caller holds
    completed,      \* completed_parts, the counter behind progress reports
    task,           \* state of the future of each part
    buffer,         \* version of the bytes read_part returned
    attempt,        \* attempt of upload_part_with_retry
    reply,          \* R2's answer to the part's current request, in transit
    answer,         \* R2's answer to the current session request, in transit
    outcome,        \* what upload_file returned
    saved           \* the caller keeps a MultipartSessionSnapshot

sourceVars == file
remoteVars == <<upload, stored, object, orphan>>
callVars   == <<run, resume, abortOnError>>
jobVars    == <<plan, fingerprint, reused>>
partVars   == <<task, buffer, attempt, reply>>
resultVars == <<outcome, saved>>
vars == <<sourceVars, remoteVars, strays, pc, callVars, cancelled, jobVars,
          manifest, completed, partVars, answer, resultVars>>

Parts    == 1..MaxParts
Versions == 1..MaxVersion
NoPart   == 0
Etags    == Versions \union {NoPart}
Manifest == [Parts -> Etags]
Empty    == [p \in Parts |-> NoPart]
Planned  == 1..plan

Requests == [op : {"UploadPart"}, part : Parts, etag : Versions]
              \union [op : {"Complete"}, manifest : Manifest]
              \union [op : {"Abort"}]

Outcomes == [result : {"none", "ok", "error"}, snapshot : BOOLEAN, aborted : BOOLEAN]
NoOutcome == [result |-> "none", snapshot |-> FALSE, aborted |-> FALSE]

\* The steps of `run`, during which `select` also polls the cancellation.
Running == {"list", "parts", "complete"}
\* Mutant: a future that sleeps between attempts gives its slot away.
SleepersGiveUpSlot == {p \in Parts : task[p] \in {"reading", "sending"}}

\* A part's future between being started by buffer_unordered and resolving.
Active == {p \in Parts : task[p] \in {"reading", "sending", "sleeping"}}
\* The parts the caller can name in a CompletionManifest.
Held == {p \in Parts : manifest[p] # NoPart}

----------------------------------------------------------------------------
(* The source file and the caller's environment *)

RewriteFile ==
    /\ file.version < MaxVersion
    /\ \E n \in Parts : file' = [version |-> file.version + 1, parts |-> n]
    /\ UNCHANGED <<remoteVars, strays, pc, callVars, cancelled, jobVars,
                   manifest, completed, partVars, answer, resultVars>>

\* ManagedUploadCancellation::cancel from another task.
Cancel ==
    /\ pc \notin {"idle", "done"}
    /\ ~cancelled
    /\ cancelled' = TRUE
    /\ UNCHANGED <<sourceVars, remoteVars, strays, pc, callVars, jobVars,
                   manifest, completed, partVars, answer, resultVars>>

----------------------------------------------------------------------------
(* Giving up connections *)

\* Requests on the wire that R2 has not handled when their future is dropped.
Unhandled ==
    {[op |-> "UploadPart", part |-> p, etag |-> buffer[p]] :
        p \in {q \in Parts : task[q] = "sending" /\ reply[q] = "none"}}
    \union (IF pc = "complete" /\ answer = "none"
            THEN {[op |-> "Complete", manifest |-> manifest]} ELSE {})
    \union (IF pc = "cleanup" /\ abortOnError /\ answer = "none"
            THEN {[op |-> "Abort"]} ELSE {})

\* Dropping the futures of `run`, with the buffers and connections they own.
DropFutures ==
    /\ strays' = strays \union Unhandled
    /\ task' = [p \in Parts |-> "waiting"]
    /\ buffer' = Empty
    /\ attempt' = [p \in Parts |-> 0]
    /\ reply' = [p \in Parts |-> "none"]
    /\ answer' = "none"

\* `run` resolves to an error: its local state goes and after_start_error begins.
FailRun ==
    /\ DropFutures
    /\ pc' = "cleanup"
    /\ manifest' = Empty
    /\ completed' = 0
    /\ UNCHANGED <<sourceVars, remoteVars, callVars, cancelled, jobVars, resultVars>>

\* upload_file returns.
Return(result, snapshot, aborted) ==
    /\ pc' = "done"
    /\ answer' = "none"
    /\ outcome' = [result |-> result, snapshot |-> snapshot, aborted |-> aborted]
    /\ saved' = (saved \/ snapshot)

\* An error before the session is known: ManagedUploadError::before_start.
BeforeStart == Return("error", FALSE, FALSE)

----------------------------------------------------------------------------
(* Calling upload_file *)

StartCall(resuming) ==
    /\ run < MaxRuns
    /\ run' = run + 1
    /\ resume' = resuming
    /\ abortOnError' \in BOOLEAN
    /\ cancelled' = FALSE
    /\ pc' = "stat"
    /\ fingerprint' = NoPart
    /\ reused' = {}
    /\ manifest' = Empty
    /\ completed' = 0
    /\ outcome' = NoOutcome
    /\ UNCHANGED <<sourceVars, remoteVars, strays, plan, partVars, answer, saved>>

\* Bucket::managed_multipart
CallFresh ==
    /\ pc = "idle"
    /\ run = 0
    /\ StartCall(FALSE)

\* Bucket::resume_managed_multipart with the snapshot the caller kept.
CallResume ==
    /\ pc \in {"idle", "done"}
    /\ saved
    /\ StartCall(TRUE)

\* validate(), metadata(), is_file(), is_cancelled() or the comparison with the snapshot.
StatRejects ==
    /\ pc = "stat"
    /\ BeforeStart
    /\ UNCHANGED <<sourceVars, remoteVars, strays, callVars, cancelled, jobVars,
                   manifest, completed, partVars>>

StatSource ==
    /\ pc = "stat"
    /\ ~cancelled
    /\ resume => file.parts = plan
    /\ fingerprint' = file.version
    /\ plan' = file.parts
    /\ pc' = IF resume THEN "list" ELSE "create"
    /\ UNCHANGED <<sourceVars, remoteVars, strays, callVars, cancelled, reused,
                   manifest, completed, partVars, answer, resultVars>>

----------------------------------------------------------------------------
(* Opening the session: create() or, on resume, reconcile() *)

\* The answer may be to a request the SDK resent, after one whose session is lost.
CreateSession ==
    /\ pc = "create"
    /\ upload' = "open"
    /\ orphan' \in {orphan, TRUE}
    /\ pc' = "parts"
    /\ UNCHANGED <<sourceVars, stored, object, strays, callVars, cancelled,
                   jobVars, manifest, completed, partVars, answer, resultVars>>

\* create() fails; R2 may have opened a session all the same, then or later.
CreateFails ==
    /\ pc = "create"
    /\ orphan' \in {orphan, TRUE}
    /\ BeforeStart
    /\ UNCHANGED <<sourceVars, upload, stored, object, strays, callVars, cancelled,
                   jobVars, manifest, completed, partVars>>

\* Mutant: the parts found are counted but not taken into the manifest.
ListPartsForgetsParts ==
    /\ pc = "list"
    /\ upload = "open"
    /\ manifest' = Empty
    /\ reused' = {p \in Parts : stored[p] # NoPart}
    /\ completed' = Cardinality(reused')
    /\ pc' = "parts"
    /\ UNCHANGED <<sourceVars, remoteVars, strays, callVars, cancelled, plan,
                   fingerprint, partVars, answer, resultVars>>

ListParts ==
    /\ pc = "list"
    /\ upload = "open"
    /\ manifest' = stored
    /\ reused' = {p \in Parts : stored[p] # NoPart}
    /\ completed' = Cardinality(reused')
    /\ pc' = "parts"
    /\ UNCHANGED <<sourceVars, remoteVars, strays, callVars, cancelled, plan,
                   fingerprint, partVars, answer, resultVars>>

\* A transient failure or NoSuchUpload: reconcile() has no retry of its own.
ListFails ==
    /\ pc = "list"
    /\ FailRun

----------------------------------------------------------------------------
(* Uploading the missing parts: buffer_unordered(concurrency) *)

StartPart(p) ==
    /\ pc = "parts"
    /\ p \in Planned
    /\ task[p] = "waiting"
    /\ p \notin Held
    /\ \A q \in 1..(p - 1) : q \in Held \/ task[q] # "waiting"
    /\ Cardinality(Active) < Concurrency
    /\ task' = [task EXCEPT ![p] = "reading"]
    /\ UNCHANGED <<sourceVars, remoteVars, strays, pc, callVars, cancelled, jobVars,
                   manifest, completed, buffer, attempt, reply, answer, resultVars>>

\* read_part: opens the file anew, so it sees whatever version is there.  The step is
\* the end of read_exact: a part torn by a rewrite within the read counts as the newer
\* version, which no part the fingerprint vouches for can be.
ReadPart(p) ==
    /\ task[p] = "reading"
    /\ p <= file.parts
    /\ task' = [task EXCEPT ![p] = "sending"]
    /\ buffer' = [buffer EXCEPT ![p] = file.version]
    /\ attempt' = [attempt EXCEPT ![p] = 1]
    /\ UNCHANGED <<sourceVars, remoteVars, strays, pc, callVars, cancelled, jobVars,
                   manifest, completed, reply, answer, resultVars>>

\* open, seek or read_exact fails; try_collect drops every other future.
ReadFails(p) ==
    /\ task[p] = "reading"
    /\ FailRun

\* R2 handles an UploadPart whose connection is still up.
HandlePart(p) ==
    /\ task[p] = "sending"
    /\ reply[p] = "none"
    /\ IF upload = "open"
       THEN /\ stored' = [stored EXCEPT ![p] = buffer[p]]
            /\ reply' = [reply EXCEPT ![p] = "ok"]
       ELSE /\ reply' = [reply EXCEPT ![p] = "gone"]
            /\ UNCHANGED stored
    /\ UNCHANGED <<sourceVars, upload, object, orphan, strays, pc, callVars, cancelled,
                   jobVars, manifest, completed, task, buffer, attempt, answer, resultVars>>

\* The counter and the progress callback move with no await in between.
PartUploaded(p) ==
    /\ task[p] = "sending"
    /\ reply[p] = "ok"
    /\ task' = [task EXCEPT ![p] = "uploaded"]
    /\ buffer' = [buffer EXCEPT ![p] = NoPart]
    /\ attempt' = [attempt EXCEPT ![p] = 0]
    /\ reply' = [reply EXCEPT ![p] = "none"]
    /\ manifest' = [manifest EXCEPT ![p] = buffer[p]]
    /\ completed' = completed + 1
    /\ UNCHANGED <<sourceVars, remoteVars, strays, pc, callVars, cancelled, jobVars,
                   answer, resultVars>>

\* Mutant: one attempt more than max_attempts.
PartRetriesOnceMore(p) ==
    /\ task[p] = "sending"
    /\ attempt[p] <= MaxAttempts
    /\ task' = [task EXCEPT ![p] = "sleeping"]
    /\ attempt' = [attempt EXCEPT ![p] = @ + 1]
    /\ reply' = [reply EXCEPT ![p] = "none"]
    /\ strays' = IF reply[p] = "none"
                 THEN strays \union {[op |-> "UploadPart", part |-> p, etag |-> buffer[p]]}
                 ELSE strays
    /\ UNCHANGED <<sourceVars, remoteVars, pc, callVars, cancelled, jobVars,
                   manifest, completed, buffer, answer, resultVars>>

\* Mutant: retries are not counted.
PartRetriesForEver(p) ==
    /\ task[p] = "sending"
    /\ attempt[p] < MaxAttempts
    /\ task' = [task EXCEPT ![p] = "sleeping"]
    /\ reply' = [reply EXCEPT ![p] = "none"]
    /\ strays' = IF reply[p] = "none"
                 THEN strays \union {[op |-> "UploadPart", part |-> p, etag |-> buffer[p]]}
                 ELSE strays
    /\ UNCHANGED <<sourceVars, remoteVars, pc, callVars, cancelled, jobVars,
                   manifest, completed, buffer, attempt, answer, resultVars>>

\* A retryable failure (timeout, lost answer, 408, 429, 5xx) with attempts left.
PartRetries(p) ==
    /\ task[p] = "sending"
    /\ attempt[p] < MaxAttempts
    /\ task' = [task EXCEPT ![p] = "sleeping"]
    /\ attempt' = [attempt EXCEPT ![p] = @ + 1]
    /\ reply' = [reply EXCEPT ![p] = "none"]
    /\ strays' = IF reply[p] = "none"
                 THEN strays \union {[op |-> "UploadPart", part |-> p, etag |-> buffer[p]]}
                 ELSE strays
    /\ UNCHANGED <<sourceVars, remoteVars, pc, callVars, cancelled, jobVars,
                   manifest, completed, buffer, answer, resultVars>>

PartWakes(p) ==
    /\ task[p] = "sleeping"
    /\ task' = [task EXCEPT ![p] = "sending"]
    /\ UNCHANGED <<sourceVars, remoteVars, strays, pc, callVars, cancelled, jobVars,
                   manifest, completed, buffer, attempt, reply, answer, resultVars>>

\* A terminal failure, or any failure of the last attempt.
PartFails(p) ==
    /\ task[p] = "sending"
    /\ FailRun

----------------------------------------------------------------------------
(* The final metadata() and CompleteMultipartUpload *)

\* Mutant: no second look at the file.
SourceNotRechecked ==
    /\ pc = "parts"
    /\ Planned \subseteq Held
    /\ pc' = "complete"
    /\ UNCHANGED <<sourceVars, remoteVars, strays, callVars, cancelled, jobVars,
                   manifest, completed, partVars, answer, resultVars>>

\* Mutant: completion does not wait for the parts in flight.
CompletesEarly ==
    /\ pc = "parts"
    /\ Held # {}
    /\ file.version = fingerprint
    /\ pc' = "complete"
    /\ UNCHANGED <<sourceVars, remoteVars, strays, callVars, cancelled, jobVars,
                   manifest, completed, partVars, answer, resultVars>>

SourceUnchanged ==
    /\ pc = "parts"
    /\ Planned \subseteq Held
    /\ file.version = fingerprint
    /\ pc' = "complete"
    /\ UNCHANGED <<sourceVars, remoteVars, strays, callVars, cancelled, jobVars,
                   manifest, completed, partVars, answer, resultVars>>

\* metadata() fails or the fingerprint differs: "file changed during upload".
SourceChanged ==
    /\ pc = "parts"
    /\ Planned \subseteq Held
    /\ FailRun

\* CompleteMultipartUpload at R2: every listed ETag must be the stored one.
Accepts(m) == upload = "open" /\ \A p \in Planned : stored[p] = m[p]
Publish(m) ==
    /\ upload' = "completed"
    /\ object' = m

\* The SDK resends a request whose answer is lost, so R2 may see it again.
HandleComplete ==
    /\ pc = "complete"
    /\ answer = "none"
    /\ \/ /\ Accepts(manifest)
          /\ Publish(manifest)
          /\ answer' \in {"ok", "none"}
       \/ /\ ~Accepts(manifest)
          /\ answer' = "rejected"
          /\ UNCHANGED <<upload, object>>
    /\ UNCHANGED <<sourceVars, stored, orphan, strays, pc, callVars, cancelled,
                   jobVars, manifest, completed, partVars, resultVars>>

CompleteSucceeds ==
    /\ pc = "complete"
    /\ answer = "ok"
    /\ Return("ok", FALSE, FALSE)
    /\ UNCHANGED <<sourceVars, remoteVars, strays, callVars, cancelled, jobVars,
                   manifest, completed, partVars>>

CompleteFails ==
    /\ pc = "complete"
    /\ FailRun

\* `select` takes the cancellation while `run` is pending, and drops `run`.
CancelWins ==
    /\ pc \in Running
    /\ cancelled
    /\ FailRun

----------------------------------------------------------------------------
(* after_start_error *)

HandleAbort ==
    /\ pc = "cleanup"
    /\ abortOnError
    /\ answer = "none"
    /\ \/ /\ upload = "open"
          /\ upload' = "aborted"
          /\ stored' = Empty
          /\ answer' \in {"ok", "none"}
       \/ /\ upload # "open"
          /\ answer' = "rejected"
          /\ UNCHANGED <<upload, stored>>
    /\ UNCHANGED <<sourceVars, object, orphan, strays, pc, callVars, cancelled,
                   jobVars, manifest, completed, partVars, resultVars>>

AbortSucceeds ==
    /\ pc = "cleanup"
    /\ abortOnError
    /\ answer = "ok"
    /\ Return("error", FALSE, TRUE)
    /\ UNCHANGED <<sourceVars, remoteVars, strays, callVars, cancelled, jobVars,
                   manifest, completed, partVars>>

\* Mutant: a failed abort() loses the snapshot.
AbortFailureLosesSnapshot ==
    /\ pc = "cleanup"
    /\ Return("error", ~abortOnError, FALSE)
    /\ DropFutures
    /\ UNCHANGED <<sourceVars, remoteVars, callVars, cancelled, jobVars,
                   manifest, completed>>

\* abort() failed or was not asked for: the session goes back to the caller.
KeepSnapshot ==
    /\ pc = "cleanup"
    /\ Return("error", TRUE, FALSE)
    /\ DropFutures
    /\ UNCHANGED <<sourceVars, remoteVars, callVars, cancelled, jobVars,
                   manifest, completed>>

----------------------------------------------------------------------------
(* Crashes and late requests *)

\* The process dies, or the caller drops the future of upload_file.
Crash ==
    /\ pc \notin {"idle", "done"}
    /\ pc' = "idle"
    /\ DropFutures
    /\ orphan' \in (IF pc = "create" THEN {orphan, TRUE} ELSE {orphan})
    /\ manifest' = Empty
    /\ completed' = 0
    /\ UNCHANGED <<sourceVars, upload, stored, object, callVars, cancelled, jobVars,
                   resultVars>>

\* R2 handles a request nobody waits for any more.
LatePart ==
    \E r \in strays :
        /\ r.op = "UploadPart"
        /\ upload = "open"
        /\ stored' = [stored EXCEPT ![r.part] = r.etag]
        /\ strays' = strays \ {r}
        /\ UNCHANGED <<sourceVars, upload, object, orphan, pc, callVars, cancelled,
                       jobVars, manifest, completed, partVars, answer, resultVars>>

LateComplete ==
    \E r \in strays :
        /\ r.op = "Complete"
        /\ Accepts(r.manifest)
        /\ Publish(r.manifest)
        /\ strays' = strays \ {r}
        /\ UNCHANGED <<sourceVars, stored, orphan, pc, callVars, cancelled,
                       jobVars, manifest, completed, partVars, answer, resultVars>>

LateAbort ==
    \E r \in strays :
        /\ r.op = "Abort"
        /\ upload = "open"
        /\ upload' = "aborted"
        /\ stored' = Empty
        /\ strays' = strays \ {r}
        /\ UNCHANGED <<sourceVars, object, orphan, pc, callVars, cancelled,
                       jobVars, manifest, completed, partVars, answer, resultVars>>

----------------------------------------------------------------------------
Init ==
    /\ \E n \in Parts : file = [version |-> 1, parts |-> n]
    /\ upload = "none"
    /\ stored = Empty
    /\ object = Empty
    /\ orphan = FALSE
    /\ strays = {}
    /\ pc = "idle"
    /\ run = 0
    /\ resume = FALSE
    /\ abortOnError = TRUE
    /\ cancelled = FALSE
    /\ plan = 0
    /\ fingerprint = NoPart
    /\ reused = {}
    /\ manifest = Empty
    /\ completed = 0
    /\ task = [p \in Parts |-> "waiting"]
    /\ buffer = Empty
    /\ attempt = [p \in Parts |-> 0]
    /\ reply = [p \in Parts |-> "none"]
    /\ answer = "none"
    /\ outcome = NoOutcome
    /\ saved = FALSE

\* What the future of upload_file does when polled.
PartStep(p) ==
    \/ StartPart(p)
    \/ ReadPart(p)
    \/ ReadFails(p)
    \/ PartUploaded(p)
    \/ PartRetries(p)
    \/ PartWakes(p)
    \/ PartFails(p)

ClientStep ==
    \/ StatRejects
    \/ StatSource
    \/ CreateSession
    \/ CreateFails
    \/ ListParts
    \/ ListFails
    \/ \E p \in Parts : PartStep(p)
    \/ SourceUnchanged
    \/ SourceChanged
    \/ CompleteSucceeds
    \/ CompleteFails
    \/ CancelWins
    \/ AbortSucceeds
    \/ KeepSnapshot

\* What R2 does.
RemoteStep ==
    \/ \E p \in Parts : HandlePart(p)
    \/ HandleComplete
    \/ HandleAbort
    \/ LatePart
    \/ LateComplete
    \/ LateAbort

\* What the application and the machine around it do.
EnvironmentStep ==
    \/ RewriteFile
    \/ Cancel
    \/ CallFresh
    \/ CallResume
    \/ Crash

Next == ClientStep \/ RemoteStep \/ EnvironmentStep

Spec == Init /\ [][Next]_vars

\* One task polls the whole upload, and every await of it ends: R2 answers or
\* a configured timeout fires.  Nothing is assumed of R2 or of the application.
FairSpec == Spec /\ WF_vars(ClientStep)

----------------------------------------------------------------------------
(* Properties *)

TypeOK ==
    /\ file \in [version : Versions, parts : Parts]
    /\ upload \in {"none", "open", "completed", "aborted"}
    /\ stored \in Manifest
    /\ object \in Manifest
    /\ orphan \in BOOLEAN
    /\ strays \subseteq Requests
    /\ pc \in {"idle", "stat", "create", "list", "parts", "complete", "cleanup", "done"}
    /\ run \in 0..MaxRuns
    /\ resume \in BOOLEAN
    /\ abortOnError \in BOOLEAN
    /\ cancelled \in BOOLEAN
    /\ plan \in 0..MaxParts
    /\ fingerprint \in Etags
    /\ reused \in SUBSET Parts
    /\ manifest \in Manifest
    /\ completed \in 0..MaxParts
    /\ task \in [Parts -> {"waiting", "reading", "sending", "sleeping", "uploaded"}]
    /\ buffer \in Manifest
    /\ attempt \in [Parts -> 0..MaxAttempts]
    /\ reply \in [Parts -> {"none", "ok", "gone"}]
    /\ answer \in {"none", "ok", "rejected"}
    /\ outcome \in Outcomes
    /\ saved \in BOOLEAN

\* A session that was never resumed publishes all planned parts, all read from the
\* version its first metadata() saw, however the file is rewritten meanwhile and
\* however late R2 handles the requests (the two metadata() calls of upload_file
\* and run, and the manifest of exact ETags).
ObjectIsOneVersion ==
    upload = "completed" /\ run = 1 =>
        \A p \in Planned : object[p] = fingerprint /\ object[p] # NoPart

\* When run asks for completion, every planned part is in the manifest and the
\* parts this call read itself are of the version it started from; and Ok means
\* that this very manifest was published, not one of an earlier call.
CompletionIsSound ==
    /\ pc = "complete" =>
           \A p \in Planned : /\ manifest[p] # NoPart
                              /\ p \in reused \/ manifest[p] = fingerprint
    /\ outcome.result = "ok" => upload = "completed" /\ object = manifest

\* was_aborted is only reported of a session that is gone and published nothing,
\* although a cancelled CompleteMultipartUpload may still reach R2.
AbortedIsGone ==
    outcome.aborted => upload = "aborted" /\ object = Empty

\* upload_file never returns an error that leaves a session open without the
\* caller holding a snapshot of it (after_start_error).
NoSilentLeak ==
    pc = "done" /\ outcome.result = "error" /\ upload = "open" => saved

\* The progress a caller has been shown is true: the counter is the number of
\* parts in the manifest, and R2 holds a part for each while the session is open.
ProgressIsTrue ==
    /\ completed = Cardinality(Held)
    /\ upload = "open" => \A p \in Held : stored[p] # NoPart

\* No more than `concurrency` parts are buffered, sleeping retries included.
BuffersWithinBudget ==
    Cardinality({p \in Parts : buffer[p] # NoPart}) <= Concurrency

\* Within one call progress never goes back and never skips a report: each step
\* that moves the counter after the initial report adds one part.
ProgressMovesByOne ==
    [][pc = "parts" /\ pc' = "parts" => completed' \in {completed, completed + 1}]_vars

SessionNow == CASE upload = "none"      -> "none"
                [] upload = "open"      -> "open"
                [] upload = "completed" -> "published"
                [] upload = "aborted"   -> "discarded"

ReportNow == CASE outcome.result = "none" -> "nothing"
               [] outcome.result = "ok"   -> "published"
               [] outcome.result = "error" /\ outcome.aborted  -> "discarded"
               [] outcome.result = "error" /\ ~outcome.aborted -> "unsettled"

Contract == INSTANCE UploadContract WITH
    session <- SessionNow,
    report  <- ReportNow,
    calling <- pc \notin {"idle", "done"},
    handle  <- saved

\* upload_file keeps the contract of a resumable upload: a session settles at
\* most once, what the caller is told of it is true when it is told, and no
\* failed call leaves an open session the caller cannot name.
KeepsContract == Contract!Spec

\* Every call returns, whatever R2 does with the requests (liveness of run and
\* after_start_error: attempts are finite and no future waits for another).
CallReturns == pc = "stat" ~> pc \in {"done", "idle"}

\* "Returns resumable state when the upload may still exist remotely."
\* (ManagedUploadError::snapshot)
SnapshotWheneverRemote ==
    pc = "done" /\ outcome.result = "error" /\ orphan => outcome.snapshot
=============================================================================
