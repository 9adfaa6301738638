------------------------------ MODULE Cleanup ------------------------------
(***************************************************************************)
(* Emptying a prefix the way the repository's README does: list it to the  *)
(* end, collect the keys, delete them.  Objects are deleted by             *)
(* Bucket::delete_objects (src/src/object.rs), in sequential batches, and  *)
(* multipart uploads by Bucket::abort_multipart_upload, one by one, where  *)
(* an error that is_not_found() counts as done.                            *)
(*                                                                         *)
(* Listing supplies the bucket, the stream and the other writers.  R2 is   *)
(* external: it may refuse to delete a key, leave a key out of its answer, *)
(* or report an error without saying for which key.  A request that the    *)
(* SDK gave up may reach R2 late.                                          *)
(***************************************************************************)
EXTENDS Listing

CONSTANT BatchSize      \* MAX_DELETE_KEYS

ASSUME BatchAssumption == BatchSize \in Nat \ {0}

VARIABLES
    phase,          \* "list", "delete" or "done"
    todo,           \* keys of the batches that were not sent yet
    batch,          \* keys of the request in flight
    response,       \* R2's answer to it, in transit
    late,           \* batches of attempts given up before R2 handled them
    result,         \* DeleteObjectsResult, of Ok or of BatchDeleteError
    outcome,        \* what the last call returned
    requested,      \* history: the keys that delete_objects was given
    removed,        \* history: keys that requests of this call removed
    omitted         \* history: keys R2 left out of an answer

listingVars == vars
deletionVars == <<phase, todo, batch, response, late, result, outcome, requested>>
cleanupVars == <<listingVars, deletionVars, removed, omitted>>

NoAnswer == [deleted |-> {}, failed |-> {}, keyless |-> FALSE, answered |-> FALSE]
Answer(deleted, failed, keyless) ==
    [deleted |-> deleted, failed |-> failed, keyless |-> keyless, answered |-> TRUE]

NoResult == [deleted |-> {}, failures |-> {}, requests |-> 0]

ChunkSize == IF kind = "objects" THEN BatchSize ELSE 1

\* Mutant: a chunk takes one key more than it sends.
ChunkDropsKey(keys) ==
    {e \in keys : Cardinality({d \in keys : ~Before(e, d)}) <= ChunkSize + 1}

\* delete_batches: the first of keys.chunks(MAX_DELETE_KEYS).
Chunk(keys) == {e \in keys : Cardinality({d \in keys : ~Before(e, d)}) <= ChunkSize}

----------------------------------------------------------------------------
(* The listing, and the other writers throughout *)

ListingStep ==
    /\ StreamStep
    /\ UNCHANGED <<deletionVars, removed, omitted>>

OthersStep ==
    \E e \in Entries :
        /\ PutEntry(e) \/ DeleteEntry(e)
        /\ UNCHANGED <<deletionVars, removed, omitted>>

----------------------------------------------------------------------------
(* delete_objects *)

InFlight == phase = "delete" /\ batch # {}

Finish(how) ==
    /\ phase' = "done"
    /\ outcome' = how

\* try_collect gives the error of the listing: nothing is deleted.
ListingFailed ==
    /\ phase = "list"
    /\ pc = "failed"
    /\ Finish("error")
    /\ UNCHANGED <<listingVars, todo, batch, response, late, result, requested, removed,
                   omitted>>

\* One of the keys is invalid: nothing is sent.
RefuseKeys ==
    /\ phase = "list"
    /\ pc = "ended"
    /\ requested' = yielded
    /\ Finish("invalid")
    /\ UNCHANGED <<listingVars, todo, batch, response, late, result, removed, omitted>>

TakeKeys ==
    /\ phase = "list"
    /\ pc = "ended"
    /\ requested' = yielded
    /\ todo' = yielded
    /\ IF yielded = {} THEN Finish("ok") ELSE phase' = "delete" /\ UNCHANGED outcome
    /\ UNCHANGED <<listingVars, batch, response, late, result, removed, omitted>>

\* Mutant: the chunk sent is smaller than the chunk taken off.
SendShortBatch ==
    /\ phase = "delete"
    /\ batch = {}
    /\ batch' = Chunk(todo)
    /\ todo' = todo \ ChunkDropsKey(todo)
    /\ UNCHANGED <<listingVars, phase, response, late, result, outcome, requested,
                   removed, omitted>>

SendBatch ==
    /\ phase = "delete"
    /\ batch = {}
    /\ batch' = Chunk(todo)
    /\ todo' = todo \ batch'
    /\ UNCHANGED <<listingVars, phase, response, late, result, outcome, requested,
                   removed, omitted>>

Remove(entries) ==
    /\ bucket' = bucket \ entries
    /\ stable' = stable \ entries
    /\ removed' = removed \union entries
    /\ UNCHANGED <<kind, pc, marker, page, yielded, faulty>>

\* R2 deletes what it does not refuse; a key that is not there counts as deleted.
HandleDelete ==
    /\ InFlight
    /\ ~response.answered
    /\ \E refused \in SUBSET batch, silent \in SUBSET batch, keyless \in BOOLEAN :
          /\ kind = "uploads" => refused = {} /\ silent = {} /\ ~keyless
          /\ keyless => refused \intersect silent # {}
          /\ Remove(batch \ refused)
          /\ response' = Answer(batch \ (refused \union silent), refused \ silent, keyless)
          /\ omitted' = omitted \union silent
    /\ UNCHANGED <<phase, todo, batch, late, result, outcome, requested>>

\* The SDK gives an attempt up, handled or not, and sends the batch again.
ResendBatch ==
    /\ InFlight
    /\ late' = IF response.answered THEN late ELSE late \union {batch}
    /\ response' = NoAnswer
    /\ UNCHANGED <<listingVars, phase, todo, batch, result, outcome, requested,
                   removed, omitted>>

HandleLate ==
    \E b \in late, refused \in SUBSET Entries :
        /\ refused \subseteq b
        /\ kind = "uploads" => refused = {}
        /\ Remove(b \ refused)
        /\ late' = late \ {b}
        /\ UNCHANGED <<phase, todo, batch, response, result, outcome, requested, omitted>>

\* What the answer says is added to what the batches before it said.
Record ==
    [result EXCEPT !.deleted = @ \union response.deleted,
                   !.failures = @ \union response.failed,
                   !.requests = @ + 1]

TakeAnswer ==
    /\ InFlight
    /\ response.answered
    /\ ~response.keyless
    /\ result' = Record
    /\ batch' = {}
    /\ response' = NoAnswer
    /\ IF todo = {} THEN Finish("ok") ELSE UNCHANGED <<phase, outcome>>
    /\ UNCHANGED <<listingVars, todo, late, requested, removed, omitted>>

\* An error without a key ends the call: the keys deleted and the failures that
\* came before it in the answer are recorded.
TakeKeylessAnswer ==
    /\ InFlight
    /\ response.answered
    /\ response.keyless
    /\ \E before \in SUBSET response.failed :
          result' = [Record EXCEPT !.failures = result.failures \union before]
    /\ response' = NoAnswer
    /\ Finish("error")
    /\ UNCHANGED <<listingVars, todo, batch, late, requested, removed, omitted>>

\* Mutant: the error carries the default result.
RequestFailsBlank ==
    /\ InFlight
    /\ late' = IF response.answered THEN late ELSE late \union {batch}
    /\ result' = NoResult
    /\ response' = NoAnswer
    /\ Finish("error")
    /\ UNCHANGED <<listingVars, todo, batch, requested, removed, omitted>>

\* The request fails, or its answer is lost: the error carries the result so far.
RequestFails ==
    /\ InFlight
    /\ late' = IF response.answered THEN late ELSE late \union {batch}
    /\ response' = NoAnswer
    /\ Finish("error")
    /\ UNCHANGED <<listingVars, todo, batch, result, requested, removed,
                   omitted>>

----------------------------------------------------------------------------
CleanupInit ==
    /\ Init
    /\ phase = "list"
    /\ todo = {}
    /\ batch = {}
    /\ response = NoAnswer
    /\ late = {}
    /\ result = NoResult
    /\ outcome = "none"
    /\ requested = {}
    /\ removed = {}
    /\ omitted = {}

DeletionStep ==
    \/ ListingFailed
    \/ RefuseKeys
    \/ TakeKeys
    \/ SendBatch
    \/ ResendBatch
    \/ TakeAnswer
    \/ TakeKeylessAnswer
    \/ RequestFails

RemoteStep == HandleDelete \/ HandleLate

CleanupNext == ListingStep \/ OthersStep \/ DeletionStep \/ RemoteStep

CleanupSpec == CleanupInit /\ [][CleanupNext]_cleanupVars

\* The consumer polls the stream, and each request ends.
FairCleanupSpec == CleanupSpec /\ WF_cleanupVars(ListingStep)
----------------------------------------------------------------------------
(* Properties *)

CleanupTypeOK ==
    /\ TypeOK
    /\ phase \in {"list", "delete", "done"}
    /\ todo \subseteq Entries
    /\ batch \subseteq Entries
    /\ response \in [deleted : SUBSET Entries, failed : SUBSET Entries,
                     keyless : BOOLEAN, answered : BOOLEAN]
    /\ late \subseteq SUBSET Entries
    /\ result \in [deleted : SUBSET Entries, failures : SUBSET Entries,
                   requests : 0..Cardinality(Entries)]
    /\ outcome \in {"none", "ok", "invalid", "error"}
    /\ requested \subseteq Entries
    /\ removed \subseteq Entries
    /\ omitted \subseteq Entries

\* Whatever fails in whichever batch, what the caller is told is true and nearly
\* all there is to tell: a key reported deleted was deleted, no key of a later
\* batch was, and a key of which nothing is said was in the batch that failed or
\* was left out by R2.  Attempts of the SDK that arrive late change none of it.
ResultIsTrue ==
    /\ result.deleted \subseteq removed
    /\ removed \intersect todo = {}
    /\ outcome # "invalid" =>
          requested \subseteq UNION {result.deleted, result.failures, omitted, todo, batch}

\* A clean-up that returns Ok without a failure has removed every entry that was
\* there all the time: the pages, the batches and the answers lose none.
CleanupIsThorough ==
    outcome = "ok" /\ result.failures = {} /\ omitted = {} => stable = {}

\* DeleteObjectsResult::is_complete
IsComplete == result.failures = {}

\* "Returns whether every requested key was reported as deleted."
\* (DeleteObjectsResult::is_complete), of the result of an Ok and of the
\* partial_result of a request that failed.
CompleteMeansDeleted ==
    kind = "objects" /\ outcome \in {"ok", "error"} /\ IsComplete =>
        requested \subseteq result.deleted
=============================================================================
