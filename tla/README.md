# r2kit: verification project

r2kit is a Rust client library for Cloudflare R2. It has no server and no
storage of its own: what it adds to the AWS SDK is a handful of *protocols* that
move large files into a bucket in several requests, survive failure in the
middle, and tell their caller the truth about what is left behind. This
directory holds TLA+ models of those protocols, the TLC configurations that
check them on small instances, and proofs that TLAPS checks for every value of
the constants.

Paths below are those of the repository under `src/`; the code is in
`src/src/*.rs`.

## 1. Inventory

| Component | Code | State it keeps | Operations | Hard behaviour |
|---|---|---|---|---|
| Managed file upload | `managed.rs` `upload_file`, `run`, `read_part`, `upload_part_with_retry`, `retry_with_policy`, `after_start_error` | manifest, progress counters, one future per part, snapshot in the error | start, resume, upload parts with retries, complete, abort | parts out of order; file rewritten under way; requests that reach R2 after their connection was given up; cancellation racing completion; crash and resumption |
| Managed stream upload | `managed.rs` `upload_stream`, `run_stream` | reader task, bounded channel, parts in flight | read, send, upload, join, complete, abort | two tasks and a full channel; short or stalled source; cancellation; memory |
| Multipart plan | `multipart.rs` `MultipartPlan`, `managed.rs` 621-646, 809-832, 1238-1266, 1402-1411, `object.rs` 1758-1784 | file size, part size, part count, memory budget | plan, length of a part, effective part size, validation of both builders, countdown of the stream reader | limits, rounding, the last part, the cast to `u16`; a part size raised after it was validated |
| Adaptive upload | `managed.rs` `UploadFileBuilder::send` | fingerprint of the file | single PUT with rollback, or the multipart leg | check *after* publication; delete on a key shared with other writers; requests that land late |
| Retry policy | `managed.rs` 1550-1643 | attempt | classify, delay, sleep | exact number of attempts |
| Cancellation signal | `managed.rs` 48-82 | `watch` channel with one flag | cancel, is_cancelled, cancelled | a signal sent between the check and the subscription |
| Presigned multipart sessions | `multipart.rs` 878-1193 | upload ID and plan; parts at R2 | create, restore, presign_part, reconcile, complete, complete_verified, abort | clients upload while the server lists and completes; paging; a crash with the completion on the wire |
| Listings | `object.rs` 966-1110, `multipart.rs` 1525-1674 | continuation token or markers | send, into_pages, into_stream | truncated pages, repeated tokens, changes between pages |
| Object operations | `object.rs` | none, but for the batches of `delete_objects` and the file of `download_file` | put, get, head, copy, delete, delete_objects, download_file | conditions that R2 evaluates late or twice; partial failure between batches; partial local file |
| Presigned object requests | `object.rs` 1650-1800 | none | presign_get, presign_put, presign_delete, presign_upload | used several times, while they are valid |
| Client and configuration | `client.rs`, `config.rs` | settings | build, validate | zero timeouts; attempt timeout above operation timeout |
| Errors, value types, observability | `error.rs`, `types.rs`, `observability.rs` | none | classify, validate, trace | none |

The components meet in three places. `UploadFileBuilder::send` calls
`ManagedMultipartBuilder::upload_file` and drops all of its error but the cause.
Both managed uploads drive a `PresignedMultipart` session (create, reconcile,
complete, abort), which cuts the file with `MultipartPlan`. And everything talks to
R2, which other programs write to as well, and the file to be uploaded can change
at any moment.

Nothing here is multithreaded in the sense of shared mutable memory: an upload is
one future, its parts are futures polled by the same task (`buffer_unordered`),
and only `run_stream` spawns a second task. The interleavings that matter are
those of the parts with each other, of the client with R2 and with the file, and
of both with cancellation, a crash, and requests whose connection is gone.

### What makes each component correct

* **Managed file upload.** What is published is one version of the file. `Ok` means
  this call's manifest was published; `was_aborted` means the session is gone
  and published nothing; any other error leaves the caller a snapshot if the
  session is open. Progress is true and never jumps. Buffers stay within
  `concurrency`. Every call returns.
* **Managed stream upload.** No part is lost or uploaded twice between the tasks. A
  short source is an `Io` error and nothing is published. Neither side waits for
  the other for ever, cancellation works with a stalled source, and the reader
  does not outlive the call.
* **Multipart plan.** Parts tile the file; all three pieces of code that cut agree;
  a file R2 can hold always has an adaptive part size; no part size that gets as
  far as a plan lets the parts in flight exceed the memory budget.
* **Adaptive upload.** `Ok` means one version of the file is all this call put under
  the key. The rollback removes no good object of this call, and what it reports
  as rolled back is gone. A cancelled PUT returns, whenever `cancel()` was called.
* **Presigned sessions.** What is published has every part of the plan; `Ok` of
  `complete_verified` means the planned lengths and what R2 listed; a session only
  ever completed that way publishes nothing else, late completions and crashes
  included. `reconcile` sees all that was there when it was called, and ends.
* **Listings.** What was there all the time is listed; an error means that a request
  failed or R2 misbehaved; the stream ends.
* **Object operations.** Every answer and every error was true of the object while the
  call was under way, however often a request is sent and whenever it arrives; a put
  that is acknowledged took effect then, on an object that met its condition. A
  download is one whole version or no file, and what a dropped one leaves is of one
  version. A batch
  deletion says what it did whichever batch fails, and one that reports no failure
  has emptied what was listed.

The hazards these properties answer are listed with their lines in `PROJECT.json`.

## 2. Modules

| Module | What it is |
|---|---|
| `UploadContract` | abstract specification: what a resumable upload promises its caller about one session |
| `UploadContractProofs` | what the caller may conclude from it |
| `ManagedUpload` | `upload_file` against one session; implements `UploadContract` |
| `ManagedUploadProofs` | inductive invariant of `ManagedUpload`, its safety theorems, the refinement, progress |
| `StreamUpload` | `upload_stream` and `run_stream`: reader task, channel, uploads, the session; implements `UploadContract` |
| `StreamUploadProofs` | its safety for every declared size, concurrency and budget, the refinement, progress |
| `MultipartPlan` | the ways a file is cut into parts, and what the builders validate before |
| `MultipartPlanProofs` | its five invariants for all limits and sizes |
| `AdaptiveUpload` | `UploadFileBuilder::send` and the `watch` channel of its cancellation; its multipart leg is `UploadContract` |
| `AdaptiveUploadProofs` | its safety for any number of versions, reads and signals; cancellation |
| `PresignedSession` | a session that a server creates, loses in a crash and restores, whose parts clients upload with signed requests while servers list, complete and abort it |
| `PresignedSessionProofs` | its safety for any number of parts, bodies and restarts, and any size of page |
| `Listing` | `into_pages` of objects and of multipart uploads, and `into_stream`, over a bucket that changes |
| `Cleanup` | `Listing` composed with `delete_objects` and `abort_multipart_upload`: what is listed is deleted |
| `CleanupProofs` | safety of `Listing` and `Cleanup` for any number of keys and uploads and any size of page and batch |
| `ObjectCalls` | the calls on one object: conditions, errors, presigned writes, `download_file` |
| `ObjectCallsProofs` | their safety for any number of writers, writes, requests on the wire and chunks |
| `MC...` | the bounds TLC runs with, and why they are enough |

`ManagedUpload` and `StreamUpload` are both shown to implement `UploadContract`
(checked by TLC as `KeepsContract`, proved as `ImplementsContract`): the contract is
what a caller of either may rely on. `AdaptiveUpload` composes with `ManagedUpload`
through it: it uses `UploadContract` for its multipart leg
(`Leg == INSTANCE UploadContract`). `Cleanup` extends `Listing`: the
stream's steps and the other writers are the same actions, and its runs check the
properties of the listing too.

### How the models stand for the code

**One action per step between two awaits.** What the future does between two
awaits is one action (the counter and the progress callback of a part move
together, for instance); an await is a state to be in (`pc`, or `task[p]` for the
future of part p). `try_collect` returning early, `select` choosing the
cancellation and a dropped future all drop every part at once: `DropFutures`.

**R2 is external and atomic.** A request is handled in one step and its answer is
in transit until the client takes it, so the answer can be lost. A request that
R2 had not handled when its connection was given up (a timeout, a dropped
future, a crash) becomes a *stray*, which R2 may still handle at any later
time, or never. That is the most a client can assume of a TCP connection it
closed. SDK retries of `CreateMultipartUpload`, `CompleteMultipartUpload` and
`AbortMultipartUpload` are folded into these steps: R2 may handle the request
again while the client waits.

**Data.** The content of a file is its version number, bumped by each rewrite; the
version is also the fingerprint (`SourceFileFingerprint` compares length,
modification time and identity; a rewrite it cannot see is out of scope, as
`docs/design.md` says callers own the immutability of the source). The ETag
of a part is the version of its bytes. Lengths are counted in parts, except in
`MultipartPlan`, which is about lengths. `transferred_bytes` moves in the same
step as `completed_parts` and is not kept apart. `ListParts` is one page in
`ManagedUpload`; the paging of `reconcile` is `PresignedSession`'s.

**Reading a part.** `read_part` opens, seeks and reads in several awaits, and the file
may be rewritten between them: a part can be torn within itself. `ReadPart` is the
end of the read and notes the version at that moment. The fingerprint was taken
before, and versions only grow, so whenever the bytes of a part are not all of the
fingerprint's version, what is noted is newer than the fingerprint, as it would be
for a part read whole after the rewrite. The properties compare parts with the
fingerprint and nothing else: they count a torn part as wrong.

**One session per behaviour.** `ManagedUpload` follows one session over several
calls of `upload_file`. A session whose creation was lost is only remembered as
`orphan`.

| `ManagedUpload` | code (`managed.rs`) |
|---|---|
| `CallFresh`, `CallResume` | `managed_multipart`, `resume_managed_multipart` |
| `StatSource`, `StatRejects` | 734-769 |
| `CreateSession`, `CreateFails` | 770-779, `PresignedMultipartBuilder::create` |
| `ListParts`, `ListFails` | 864-899, `reconcile` |
| `StartPart`, `ReadPart`, `ReadFails` | `buffer_unordered`, `read_part` |
| `PartRetries`, `PartWakes`, `PartFails`, `PartUploaded` | `upload_part_with_retry`, `retry_with_policy`, 933-943 |
| `SourceUnchanged`, `SourceChanged` | 956-964 |
| `CompleteSucceeds`, `CompleteFails` | 966-974, `complete` |
| `CancelWins` | `select`, 782-794 |
| `AbortSucceeds`, `KeepSnapshot` | `after_start_error` |
| `HandlePart`, `HandleComplete`, `HandleAbort`, `Late...` | R2 |
| `RewriteFile`, `Cancel`, `Crash` | the application and its machine |

In `StreamUpload`, `SourceYields`, `SourceFails`, `ReaderSends` and `ReaderStops` are
the reader task (620-648), `TakePart`, `PartUploaded` and `PartFails` the consumer
(662-702), and `JoinReader` is 704-710. `CallStream`, `StartStream` and `RefuseToStart` are
the call before there is a transfer; `CompleteSucceeds`, `CompleteFails`, `CancelWins`,
`AbortSucceeds` and `KeepSnapshot` its end, as in `ManagedUpload`. R2 handles the completion
(`HandleComplete`) and the abort (`HandleAbort`) once, and the answer waits in `answer`
until it is taken or lost; a request that was given up before R2 had handled it is
`late`, and `HandleLate` may carry it out at any later time. `DropCall` is the caller
dropping the future in the middle, which ends the reader too. Memory is counted in part buffers: one
for the reader from its allocation to its `send`, one for each place of the
channel that is taken, one for each part in flight.

In `MultipartPlan` the reader is a loop of one step per part; the constants are the
five limits of the code, so that TLC can try all sizes around small limits and
the proofs cover the real ones. `asker` says who asks for the plan: the plan itself,
`presign_upload` (which raises a part size that is too small), the managed
multipart upload (which does not, and validates the budget) or the adaptive upload
(which validates, raises, and starts a managed upload that validates again).

In `AdaptiveUpload` the content of an object is the *set* of versions its bytes were
read from, so that a torn object is visible. A single PUT goes through `open`,
`put`, `recheck` and, if the file changed, `rollback`. The SDK can resend the
empty body but not a file stream. `signal` is the version of the watched value:
`Subscribe` is `subscribe()`, `FirstLook` the `borrow_and_update` before the loop
waits, and `SignalChanged` is `changed()`, which only a version the receiver has not
seen can wake. The other upload models await the same `cancelled()` and take it as
one latching flag.

In `PresignedSession` a part's body is a model value; `Exact` are those of the planned
length. One server process is followed through `reconcile`, `complete` and
`complete_verified` (`pc`); clients, and other processes with the same session,
act at any time. Each page of `ListParts` is read when it is asked for, and begins after
the marker or, if R2 goes back, after an earlier part (`from`); `reconcile` refuses a part
that was listed before (`PageIsValid`). Receipts are
arbitrary manifests, because they come from clients. R2 completes a session if it
holds the listed parts under their ETags, and may refuse parts of other lengths.
`Restore` is a crash of the server at any point after the record of the session was
kept: what its call knew is lost, what it sent may still arrive.

In `Listing` an entry is a key and the rank of one of its uploads; objects are the
entries of rank 1. A token or pair of markers stands for the entry a page ends
with. The two `into_pages` differ in what they compare (`Repeats`), and share the
rest. Besides answering honestly R2 may fail or repeat the token it was asked with
(`faulty` remembers it).

In `Cleanup` the consumer collects the listing (`try_collect`) and hands it to
`delete_objects`, a chunk at a time; uploads are aborted one by one, which is a chunk
of one where a missing upload counts as done (`is_not_found`). R2 may refuse keys,
leave keys out of its answer or report an error without a key, and a batch whose
attempt the SDK gave up may be handled late, after later batches or after the call.

In `ObjectCalls` one application makes its calls one after the other and conditions
them on the metadata it read last (`known`); others write the key. A request is its
operation, its condition and the metadata that the condition names. R2 evaluates the
condition when it handles the request, which may be late or twice; time is the count of
writes. Two histories are what "true while the call was under way" is measured against:
`seen` collects every value of the object since the call began, `replaced` those that a
put of the application replaced, whichever call or presigned request it belongs to.

## 3. Runs

| Run | What it asks | Bounds |
|---|---|---|
| `upload_safety` | all safety properties of `ManagedUpload` and that it implements `UploadContract` | 3 parts, 2 slots, 2 attempts, 2 versions, 2 calls: 2.2 million states |
| `upload_returns` | does every call return? | 2 parts, 1 slot, 2 attempts, 2 versions, 2 calls, under fairness |
| `upload_orphan` | *violation:* is there a snapshot whenever the upload may exist? | 1 of everything |
| `stream_upload` | order, loss, deadlock, cancellation, reaping in `run_stream`, and does `upload_stream` implement `UploadContract`? | 6 parts, 2 slots, a channel of 2: 6,391 states |
| `stream_budget` | *violation:* is `max_buffered_bytes` the maximum memory? | 4 parts, 2 slots, budget 2 |
| `multipart_plan` | do plan, adaptive size and reader agree, and do the buffers fit the budget? | every file size up to 25 and part size up to 7, limits 24, 2..6, 5 parts, counts modulo 8; 2 parts in flight, budgets up to 13 |
| `adaptive_upload` | what `Ok`, "file changed" and a rollback mean, and is a cancellation ever missed? | 3 versions, 2 reads of the body, 2 signals |
| `presigned_session` | what is listed, verified and published while clients go on uploading and R2 may repeat a page | 3 parts on pages of 1, bodies: one of the planned length, one not; 1 restart |
| `presigned_length` | *violation:* does a signed request fix the length of its part? | 1 part suffices; those of `presigned_session` |
| `cleanup` | is everything that stayed listed and deleted, is what the caller is told true, and does the listing end? | 3 keys, 2 uploads each, pages of 1, batches of 2 |
| `batch_complete` | *violation:* does `is_complete()` mean that every key was reported as deleted? | those of `cleanup` |
| `object_calls` | were answers and errors true, and what does a download leave? | 2 ETags of others and 1 of the application, 4 writes, 1 write on the wire or signed, bodies of 2 chunks |

Why the bounds are enough. *Parts and slots:* with three parts and two slots one
part waits while one sleeps and one is acknowledged; a fourth adds no new
relation. *Attempts:* two give a first attempt, a retry, a last attempt, and a
stray of the first that lands after the second. *Versions:* properties compare a
version with the fingerprint, so two suffice; `AdaptiveUpload` needs three, to
change the file once before and once after the handle is opened. *Calls:* a
second call meets everything the first left behind; a third meets the same.
*Channel:* six parts fill every place of the pipeline and leave one behind.
*Pages:* three pages of one part have a first, a middle and a last; with pages of one
and two uploads of a key, a page ends within a key, so only one marker moves.
*Batches:* three keys in batches of two make a full batch and one that is not, and
an answer can say different things of the two keys of one request. *Writes:* with
four, another writer can put the same content again after a different one, before
a late write arrives. *Signals:* two calls of `cancel()` put one before and one
after the subscription. *Restarts:* one leaves a completion behind that meets a later
call. *Budget:* up to 13, more than two parts of the largest size need.
*Plan:* the limits keep the order of the real ones (the largest object needs
more parts of the smallest size than can be counted, and no more than the largest
number of the largest parts). The theorems of section 5 are free of all these
bounds, except that `MaxVersion` and `MaxRuns` stay parameters.

`CHECK_DEADLOCK FALSE` is set everywhere because an upload ends.

### Properties

`ManagedUpload`: `ObjectIsOneVersion` (a session never resumed publishes the one version
it started from), `CompletionIsSound` (completion is asked for with a full manifest,
of the version the call started from but for reused parts, and `Ok` means that this
manifest was published), `ProgressIsTrue`, `BuffersWithinBudget`, `KeepsContract`, `CallReturns`. Three more are
proved and not run on their own: `AbortedIsGone` and `NoSilentLeak`, which the
contract implies, and `ProgressMovesByOne`.

A resumed session may publish parts of different versions: the snapshot holds
sizes only, and parts an earlier call uploaded are reused as they are.
`ObjectIsOneVersion` is therefore stated for `run = 1`, and `CompletionIsSound`
says what a resumed call does guarantee.

`StreamUpload`: `BuffersBounded` (the real bound), `NoPartLost`,
`ShortSourceIsReported`, `KeepsContract` (what is reported of the session is true although
a cancelled or failed completion may still reach R2, before or after the abort),
`CancelEnds` (a cancelled call returns, with a source that stalls too), `StreamEnds`,
`ReaderIsReaped`.

`MultipartPlan`: `ReaderFollowsPlan`, `PlanTilesFile`, `AdaptiveSizeAlwaysFits`,
`BuffersFitBudget` (the raised part size pays for the parts in flight as well, only
because the managed upload validates what `send` had validated before raising it).

`AdaptiveUpload`: `OkIsOneVersion`, `RolledBackIsGone` (for a streamed PUT: an empty
PUT the SDK sent twice may come late), `GoodObjectStays`, `CancelReturns` (a signal
sent before the subscription, between it and the first look, or later).

`PresignedSession`: `ObjectIsWhole` (for any receipts), `VerifiedIsExact` (although
clients replace parts after the check: the ETags of the completion close that
gap, also for a completion that a crash left behind), `ReconcileSeesAll`, `ListingEnds`
(although R2 goes back to an earlier marker: `reconcile` has no guard against that as
the listings have, and ends because it refuses a part that was listed before).

`Listing` and `Cleanup`, in one run: `ListsWhatStayed`, `FailsForAReason`,
`ListingEnds`, `ResultIsTrue` (what an `Ok` or a `BatchDeleteError` says of each key, and
that a key of which nothing is said is one of the failed batch or one R2 left out),
`CleanupIsThorough` (an `Ok` without a failure emptied what was there all the time).

`ObjectCalls`: `AnswerWasTrue` (every answer and every error was true while the call was
under way, and an acknowledged put took effect then on an object that met its
condition), `DownloadIsWhole` (a whole version or no file; an error before the body
leaves the old file, and what a dropped future leaves is of one version).

Each has a mutant in the module it is about, next to the definition it replaces:
a plausible bug (`\* Mutant: ...`) with which TLC finds the property violated.

### Fairness

*`ManagedUpload` (`CallReturns`).* Weak fairness on `ClientStep`: one task polls the
whole upload, and every await of it ends, because R2 answers or a timeout of the
client configuration fires, or the file system answers. Fairness is not asked of
R2: a request that is never handled ends as `PartFails`, `PartRetries` or
`CompleteFails`. (`config.rs` leaves timeouts to the caller; without any, and with
an R2 that never answers, only cancellation ends a call.)

*`StreamUpload`.* Weak fairness on the reader's steps, the upload's and, since
cancellation must win although others are enabled too, on `CancelWins`. Nothing is
assumed of R2, which may leave every request unhandled, of the caller, who need not
call or cancel, or of the source: `CancelEnds` and `ReaderIsReaped` hold with a source that
stalls for ever, and `StreamEnds` assumes its progress in its own statement.

*`AdaptiveUpload` (`CancelReturns`).* Weak fairness on the local steps and on
`SignalChanged`, which is what a `watch` receiver guarantees: a version it has not seen
wakes it. Nothing is assumed of R2.

*`PresignedSession` and `Cleanup` (`ListingEnds`).* Weak fairness on the steps of the
listing: the caller awaits the call or polls the stream, and each request is
answered or fails. Nothing is assumed of clients, of other writers or of the
honesty of R2's token. That a listing ends relies on there being finitely many
names; a writer that adds names ahead of the listing faster than it is read
could keep it going. In `PresignedSession` R2 may repeat pages for ever, but calls a page
truncated only if parts remain: `reconcile` would follow an empty truncated page with
the same marker without end (`multipart.rs:1077`).

## 4. Findings

* `stream_budget`: `max_buffered_bytes` "sets the maximum memory used by in-flight part
  buffers" (`managed.rs:500`), but `run_stream` holds `budget / part_size -
  concurrency` parts, at least one, in its channel and one in the reader on top of
  `concurrency` in flight. With the budget at `part_size * concurrency`, which
  `validate` accepts, that is two buffers too many; with more, one too many.
  `BuffersBounded` is the bound that does hold.
* `upload_orphan`: `ManagedUploadError::snapshot` "returns resumable state when the
  upload may still exist remotely" (`managed.rs:334`). After a
  `CreateMultipartUpload` whose answer is lost an upload exists and there is no
  snapshot. Nothing can be done without the upload ID but to list uploads, but the
  sentence promises more.
* `presigned_length`: `file_size` "signs exact content lengths" (`multipart.rs:847`), but
  `presign_part_inner` (989-1001) gives the signed `UploadPart` no length; it is only
  returned beside the request. `presign_put` does sign it (`object.rs:1708`). A part
  of another length is therefore stored, and found by the next `reconcile` or
  `complete_verified`, which then fail until it is replaced.

* `batch_complete`: `DeleteObjectsResult::is_complete` "returns whether every requested
  key was reported as deleted" (`object.rs:860`), but returns `failures.is_empty()`.
  When a batch fails, the `partial_result` of the error holds no failure, so
  `is_complete()` is true although the keys of that batch and of the ones after it
  were not deleted. A key that R2 leaves out of its answer has the same effect with
  `Ok`. `ResultIsTrue` is what does hold.

Smaller disagreements, met on the way and not worth a run:

* `docs/limits.md` gives 1 to 16 attempts, `MAX_ATTEMPTS` is 10 (`managed.rs:38`).
* `docs/design.md:75` has the memory budget checked before file or network I/O; `send`
  checks it for the requested part size, and for the raised one only after
  `metadata()`. No request is sent before either check.
* `ServiceErrorKind::InvalidResponse` is only reached by a response error without a
  status (`error.rs:246-332`).
* The size in the metadata of a ranged `get` is the length of the range, as R2's
  `Content-Length` is.

## 5. Proofs

**`ManagedUploadProofs`.** The properties are not inductive: that the manifest holds
one version at completion depends on which buffers are in flight, and that an
aborted session published nothing depends on what a completion in transit may
still do. `IInv` is the conjunction of six named parts, each proved to be kept by
every action:

* `TypeOK`, the types;
* `TaskInv`: which part futures can be in which state, and what they then hold;
* `CountInv`: no more futures than slots, the counter equals the manifest's size;
* `VersionInv`: what the manifest holds R2 holds, and what this call read itself
  before the second `metadata()` is no older than the fingerprint;
* `FirstRunInv`: in a first call every completion on the wire, waited for or
  stray, is of one version;
* `SessionInv`: what the caller has been told of the session agrees with R2.

The proofs follow the grouping of actions into calls, uploads, ends and outside
steps, with one lemma for each part of `IInv` and each group. `Invariance` puts
them together; `TypeCorrect`, `PublishesOneVersion`, `CompletesSoundly`,
`AbortedIsTrue`, `NothingLeaks`, `ProgressTells` and `BudgetHolds` are its
consequences. `ProgressIsGradual` is the action property. They assume only that
the five constants are positive.

**The contract.** `ImplementsContract` of `ManagedUploadProofs` and of
`StreamUploadProofs` shows that every step of `upload_file` and of `upload_stream` maps to
a step of `UploadContract` or a stutter. `UploadContractProofs` proves what follows
from the contract alone: a report stays true until the next call, whatever requests
of earlier calls do in between, and an open session behind a failed call has a
handle (`ReportStaysTrue`); no call and no late request ends a session twice or
reopens it, and no handle is lost (`SessionEndsOnce`). `PromiseHolds` carries both
through the refinement to each upload. `LegKeepsContract` closes the composition from the
other side: `send()` does nothing to its leg that the contract does not allow.

**`MultipartPlanProofs`.** The plan multiplies and divides variables, beyond the
prover's linear arithmetic, so a few lemmas about products and rounding
(`ProductOrder`, `DivCeilRange`, `DivCeilLeast`) come first. The
invariant ties the countdown to the plan: `remaining` is the file less the parts
cut so far. `AdaptiveFits` needs the assumption `LargestObjectFits`, which the
real limits satisfy (10,000 parts of 5 GiB - 5 MiB hold 5 TiB - 5 GiB).
`BudgetHolds` follows from `Accepts`, which the invariant keeps from the moment a plan
exists.

**`AdaptiveUploadProofs`.** `RolledBackIsGone` is about requests still on the wire, so
`RollbackInv` follows them: a delete is only on its way if the file has changed, and
a streamed PUT is never on its way together with one. `PutInv` says what a single
PUT stored or may store, `VersionInv` puts all bytes read between the
fingerprint and the file, and `LegInv` keeps the multipart leg, known only through
`UploadContract`, apart from the single PUT. `GoodObjectStays` is an action property
and follows from the same invariant. `TypeInv` spells out the contract's types,
because the provers do not open an instance's definitions by themselves.

**`StreamUploadProofs`.** `QueueInv` carries the argument: while `run_stream` runs, the
channel holds exactly the parts before the reader's next one, in order, and all
before those are in flight or uploaded. `ReaderInv` says where the reader is,
`StageInv` what completion, success and the cleanup know of both, and `SessionInv` what
answers in transit and requests given up say of the session at R2. `BuffersBounded` needs the
budget's arithmetic and finite cardinalities on top.

**`PresignedSessionProofs`.** `LifeInv` says that what was listed stays until the
session is aborted, `FoundInv` what the pages read so far hold (`PageIsPrefix`: a page has
all remaining parts up to its last one), `WholeInv` and `ExactInv` what is true of the
completion under way and of those a crash left behind.

**`CleanupProofs`.** `PageInv` is the same argument for a bucket that changes: what
stayed is yielded, on the page or after the marker. `PhaseInv` says what each phase
leaves to do. `DeletionInv` accounts for every requested key (deleted, failed, left
out, in flight or to be sent) and keeps late batches apart from the keys still to
be sent. `CountInv` bounds the requests by the keys; it is needed for the type of
`result.requests` alone.

**`ObjectCallsProofs`.** `ReplyInv` says of which value seen during the call each status
in transit is true, and for a put which object it replaced; `CallInv` that the call's
condition is one its operation can have, `CopyInv` what the file holds while it is
written, and `IdleInv` is the property itself, once the call has returned.
`StatusIsTrue` and `ApplyInv` are the two lemmas about R2 on which they rest.

The assumptions are those the modules declare, and TLC evaluates them in every run:
the constants are positive (restarts and requests on the wire may be none); bodies
of the planned length are bodies (`SessionAssumption`); the budget pays for at least the parts in flight
(`StreamAssumption`, what `validate` refuses otherwise); the limits of a plan are in
order (`LimitsAssumption`, and `LargestObjectFits` for `AdaptiveFits` only); the content
the application puts is not that of another writer (`ObjectAssumption`).

### Progress

The liveness properties rest on two facts: the steps of a call are bounded, and
until it ends there is always another one to come. Both are proved, for every value
of the constants.

*Bounded.* `StepsAreBounded` (`StreamUpload`) and `ListingIsBounded` (`Cleanup`) give a rank, a
natural number, that each step of the work lowers and no other step touches. In
`ManagedUpload` the rank is a stage of the call and one rank per part
(`CallsAreBounded`): `Nearer` lowers the stage, or keeps it, lowers the rank of a part and
raises that of none. In `PresignedSession` it is the number of parts found, to which each
page that is accepted adds, up to `PartCount` (`PagesAdvance`); the marker may go back.

*Another to come.* `WorkGoesOn` (`ManagedUpload`, `StreamUpload`, `PresignedSession`) and
`ListingGoesOn` (`Cleanup`) say that under the fairness stated above a call that has not
ended takes a step that lowers its rank. Their core is `SomethingIsReady`: no
future waits for a slot that another holds while it waits itself, and reader and
uploads do not wait for each other over the channel.

Three liveness properties need no induction and are proved whole: `CancelIsHeard`
(`CancelEnds`) and `ReaderEnds` (`ReaderIsReaped`) of `StreamUpload`, `CancelIsHeard`
(`CancelReturns`) of `AdaptiveUpload`.

All of these but the bounds have the hypothesis `[]GuardsEnable` beside the fair
specification. `GuardsEnable` says that when the guard of an action, written out
without primes (`ReaderReady`, `ListingReady`, ...), is true the action is enabled. That is
a fact about the actions alone, but no prover here computes `ENABLED`. TLC does: it
was checked as an invariant of each of these specifications, with the constants of
the runs, and the hypothesis excludes none of their behaviours.

**Only model-checked.** `CallReturns`, `StreamEnds` and the two `ListingEnds`: from a bounded
rank that is always lowered again to "it ends" is an induction over the natural
numbers with a temporal formula, which the installed provers cannot instantiate. TLC
checks them as they stand. Every invariant and every action property of the passing
runs is proved. That each property can fail at all is what the mutants show, which
only TLC runs. No module declares a recursive operator.

## 6. Not modelled

* Client construction and configuration, value types and tracing: computations
  without state that a unit test reaches. `validate_part_size` is the exception and
  part of `MultipartPlan`. Of the errors only the categories that callers branch on
  are modelled, not their wording.
* Digests of signed requests, the fields of a session's record other than the plan and
  the upload, and delimiters and common prefixes of listings: values passed through.
* Validation of single options (ranges, headers, dates): each is one comparison, and
  appears as an action that may refuse (`Refuse`, `RefuseKeys`).
* What a source longer than the declared size means to `upload_stream`: the reader
  stops at `file_size` (`managed.rs:621`), and no doc or test says what a caller may
  expect.
* The snapshot of an open session that `send` drops (`managed.rs:1429`):
  `SessionFails` models it, but `Error` has no place for a snapshot and no doc
  promises one.
* The delays of the retry policy: no step depends on how long a future sleeps.
* Bytes, headers and metadata of objects.
* R2 itself beyond what the code relies on: atomic requests, ETags that identify the
  bytes of a part, and sessions that end once.

## 7. Plan

In order:

1. *(done)* `UploadContract`, `ManagedUpload` and its proofs: the core of the library.
2. *(done)* `StreamUpload`, `MultipartPlan` with proofs, `AdaptiveUpload`.
3. *(done)* `PresignedSession`: `reconcile` page by page while signed uploads arrive,
   `complete_verified` between its `ListParts` and its completion, several servers
   on one session.
4. *(done)* `Listing`: `into_pages` of objects and of uploads, the guard against
   repeated tokens, keys that come and go between pages.
5. *(done)* `Cleanup`: the batches of `delete_objects` behind a listing. `ObjectCalls`:
   conditions, errors, presigned writes and `download_file`.
6. *(done)* Validation and memory budget in `MultipartPlan`, the watch channel in
   `AdaptiveUpload`, creation, crash and restoration in `PresignedSession`.
7. *(done)* Proofs of every invariant the runs check.
8. *(done)* `StreamUpload` as a second implementation of the contract; what follows from
   the contract, and its use by `AdaptiveUpload`.
9. *(done)* Progress: bounded ranks, the next step, cancellation and reaping.

What is left: an abstract specification of a listing over a changing bucket, which the
two paginations would implement; delimiters and common
prefixes in `Listing`; the expiry of signed part requests in `PresignedSession`.
