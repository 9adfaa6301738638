--------------------------- MODULE AdaptiveUpload ---------------------------
(***************************************************************************)
(* UploadFileBuilder::send (src/src/managed.rs): one call that uploads a   *)
(* file under a key, by a single PutObject or, from the threshold on, by   *)
(* the managed multipart upload.                                           *)
(*                                                                         *)
(* A single PUT is checked after the fact: the object is published first   *)
(* and deleted again if the file turns out to have changed.  The multipart *)
(* leg is UploadContract, which ManagedUpload implements; that it          *)
(* publishes the version its own metadata() saw and no other is            *)
(* ManagedUpload's ObjectIsOneVersion.                                     *)
(*                                                                         *)
(* The key is shared with other writers.  The content of the file is its   *)
(* version number; an object's content is the set of versions its bytes    *)
(* were read from, so a torn object has several.                           *)
(***************************************************************************)
EXTENDS Naturals

CONSTANTS
    MaxVersion,     \* bound on the versions of the source file
    Chunks,         \* reads it takes the body stream to read the file
    MaxSignals      \* bound on the calls of cancel()

ASSUME MaxVersionAssumption == MaxVersion \in Nat \ {0}
ASSUME ChunksAssumption == Chunks \in Nat \ {0}
ASSUME MaxSignalsAssumption == MaxSignals \in Nat \ {0}

VARIABLES
    file,           \* the source on disk: its version and size class
    key,            \* R2: who wrote the object under the key, and its content
    stored,         \* R2: contents that requests of this call put under the key
    late,           \* requests given up before R2 handled them
    pc,             \* where send stands
    signal,         \* ManagedUploadCancellation: version of the watched value, which
                    \* is false in version 0 and true in every later one
    waiter,         \* cancelled(): "idle", "subscribed" or "waiting"
    seen,           \* version its receiver has marked as seen
    fingerprint,    \* version at the last metadata() before the transfer
    opened,         \* version behind the file handle of the body
    body,           \* versions the body has been read from so far
    unread,         \* reads the body still has to make
    reply,          \* R2's answer to the current request, in transit
    outcome,        \* what send returned
    session, report, calling, handle    \* the multipart leg: UploadContract's

Leg == INSTANCE UploadContract

legVars  == <<session, report, calling, handle>>
putVars  == <<opened, body, unread>>
watch    == <<signal, waiter, seen>>
vars == <<file, key, stored, late, pc, watch, fingerprint, putVars, reply,
          outcome, legVars>>

Versions == 1..MaxVersion
Sizes    == {"empty", "small", "large"}
NoObject == [writer |-> "nobody", content |-> {}]
Ours(content) == [writer |-> "send", content |-> content]
cancelled == signal > 0
Others   == [writer |-> "other", content |-> {}]

----------------------------------------------------------------------------
(* The environment *)

RewriteFile ==
    /\ file.version < MaxVersion
    /\ \E s \in Sizes : file' = [version |-> file.version + 1, size |-> s]
    /\ UNCHANGED <<key, stored, late, pc, watch, fingerprint, putVars, reply,
                   outcome, legVars>>

OtherWriterPuts ==
    /\ key' = Others
    /\ UNCHANGED <<file, stored, late, pc, watch, fingerprint, putVars, reply,
                   outcome, legVars>>

\* cancel() again is harmless, but a new version all the same.
Cancel ==
    /\ pc # "done"
    /\ signal < MaxSignals
    /\ signal' = signal + 1
    /\ UNCHANGED <<file, key, stored, late, pc, waiter, seen, fingerprint, putVars, reply,
                   outcome, legVars>>

----------------------------------------------------------------------------
(* Choosing the strategy *)

Return(result) ==
    /\ pc' = "done"
    /\ outcome' = result

\* validate(), is_cancelled(), metadata() or is_file() says no.
Refuse ==
    /\ pc = "stat"
    /\ Return("error")
    /\ UNCHANGED <<file, key, stored, late, watch, fingerprint, putVars, reply, legVars>>

\* An empty body needs no file; a small one is opened; multipart stats anew.
StatSource ==
    /\ pc = "stat"
    /\ ~cancelled
    /\ fingerprint' = file.version
    /\ CASE file.size = "empty" -> /\ pc' = "put"
                                   /\ body' = {file.version}
                                   /\ UNCHANGED legVars
         [] file.size = "small" -> /\ pc' = "open"
                                   /\ UNCHANGED <<body, legVars>>
         [] file.size = "large" -> /\ pc' = "multipart"
                                   /\ UNCHANGED body
                                   /\ Leg!Begin
    /\ UNCHANGED <<file, key, stored, late, watch, opened, unread, reply, outcome>>

----------------------------------------------------------------------------
(* The single PUT *)

OpenSource ==
    /\ pc = "open"
    /\ opened' = file.version
    /\ unread' = Chunks
    /\ pc' = "put"
    /\ UNCHANGED <<file, key, stored, late, watch, fingerprint, body, reply,
                   outcome, legVars>>

OpenFails ==
    /\ pc = "open"
    /\ Return("error")
    /\ UNCHANGED <<file, key, stored, late, watch, fingerprint, putVars, reply, legVars>>

\* Mutant: the stream is polled once more after its last chunk.
ReadsPastEnd ==
    /\ pc = "put"
    /\ \E v \in {opened, file.version} : body' = body \union {v}
    /\ unread' = unread - 1
    /\ UNCHANGED <<file, key, stored, late, pc, watch, fingerprint, opened, reply,
                   outcome, legVars>>

\* The handle sees a rewrite in place, but not one that renames a new file over it.
ReadChunk ==
    /\ pc = "put"
    /\ unread > 0
    /\ \E v \in {opened, file.version} : body' = body \union {v}
    /\ unread' = unread - 1
    /\ UNCHANGED <<file, key, stored, late, pc, watch, fingerprint, opened, reply,
                   outcome, legVars>>

\* R2 handles PutObject.
HandlePut ==
    /\ pc = "put"
    /\ unread = 0
    /\ reply = "none"
    /\ key' = Ours(body)
    /\ stored' = stored \union {body}
    /\ reply' = "ok"
    /\ UNCHANGED <<file, late, pc, watch, fingerprint, putVars, outcome, legVars>>

\* The SDK gives an attempt up, handled or not, and sends the request again.  It
\* can do so with the empty body, which needs no file, but not with a file stream.
ResendPut ==
    /\ pc = "put"
    /\ opened = 0
    /\ late' = late \union (IF reply = "none" THEN {[op |-> "Put", content |-> body]} ELSE {})
    /\ reply' = "none"
    /\ UNCHANGED <<file, key, stored, pc, watch, fingerprint, putVars, outcome, legVars>>

PutSucceeds ==
    /\ pc = "put"
    /\ reply = "ok"
    /\ reply' = "none"
    /\ pc' = "recheck"
    /\ waiter' = "idle"
    /\ UNCHANGED <<file, key, stored, late, signal, seen, fingerprint, putVars, outcome,
                   legVars>>

\* A PUT whose bytes are all sent may reach R2 although nobody waits for it.
GiveUpPut ==
    /\ Return("error")
    /\ late' = late \union (IF unread = 0 /\ reply = "none"
                            THEN {[op |-> "Put", content |-> body]} ELSE {})
    /\ reply' = "none"
    /\ UNCHANGED <<file, key, stored, fingerprint, putVars, legVars>>

\* The request fails, its answer is lost, or the file is too short for its length.
PutFails ==
    /\ pc = "put"
    /\ GiveUpPut
    /\ waiter' = "idle"
    /\ UNCHANGED <<signal, seen>>

\* cancelled(), first polled with the PUT: what is already sent counts as seen.
Subscribe ==
    /\ pc = "put"
    /\ waiter = "idle"
    /\ waiter' = "subscribed"
    /\ seen' = signal
    /\ UNCHANGED <<file, key, stored, late, pc, signal, fingerprint, putVars, reply,
                   outcome, legVars>>

\* borrow_and_update: the value as it is now, from now on seen.  If it is true
\* then `select` drops the PUT.
Look ==
    /\ seen' = signal
    /\ \/ /\ cancelled
          /\ waiter' = "idle"
          /\ GiveUpPut
       \/ /\ ~cancelled
          /\ waiter' = "waiting"
          /\ UNCHANGED <<file, key, stored, late, pc, fingerprint, putVars, reply,
                         outcome, legVars>>
    /\ UNCHANGED signal

\* Mutant: cancelled() waits for a change without a look at the value first.
WaitsForChange ==
    /\ pc = "put"
    /\ waiter = "subscribed"
    /\ waiter' = "waiting"
    /\ UNCHANGED <<file, key, stored, late, pc, signal, seen, fingerprint, putVars,
                   reply, outcome, legVars>>

FirstLook ==
    /\ pc = "put"
    /\ waiter = "subscribed"
    /\ Look

\* changed() is only woken by a version that the receiver has not seen.
SignalChanged ==
    /\ pc = "put"
    /\ waiter = "waiting"
    /\ seen # signal
    /\ Look

\* Mutant: the second metadata() is not compared.
AcceptsAnyFile ==
    /\ pc = "recheck"
    /\ Return("ok")
    /\ UNCHANGED <<file, key, stored, late, watch, fingerprint, putVars, reply, legVars>>

SourceUnchanged ==
    /\ pc = "recheck"
    /\ file.version = fingerprint
    /\ Return("ok")
    /\ UNCHANGED <<file, key, stored, late, watch, fingerprint, putVars, reply, legVars>>

\* The second metadata() fails: the error leaves the object where it is.
RestatFails ==
    /\ pc = "recheck"
    /\ Return("error")
    /\ UNCHANGED <<file, key, stored, late, watch, fingerprint, putVars, reply, legVars>>

\* Mutant: a cancelled upload is rolled back without a look at the file.
CancelRollsBack ==
    /\ pc = "recheck"
    /\ cancelled \/ file.version # fingerprint
    /\ pc' = "rollback"
    /\ UNCHANGED <<file, key, stored, late, watch, fingerprint, putVars, reply,
                   outcome, legVars>>

SourceChanged ==
    /\ pc = "recheck"
    /\ file.version # fingerprint
    /\ pc' = "rollback"
    /\ UNCHANGED <<file, key, stored, late, watch, fingerprint, putVars, reply,
                   outcome, legVars>>

\* R2 handles DeleteObject, whoever wrote the object.
HandleDelete ==
    /\ pc = "rollback"
    /\ reply = "none"
    /\ key' = NoObject
    /\ reply' = "ok"
    /\ UNCHANGED <<file, stored, late, pc, watch, fingerprint, putVars, outcome, legVars>>

ResendDelete ==
    /\ pc = "rollback"
    /\ late' = late \union (IF reply = "none" THEN {[op |-> "Delete"]} ELSE {})
    /\ reply' = "none"
    /\ UNCHANGED <<file, key, stored, pc, watch, fingerprint, putVars, outcome, legVars>>

\* Mutant: the call returns before its delete is answered.
RollbackInBackground ==
    /\ pc = "rollback"
    /\ Return("changed")
    /\ late' = late \union {[op |-> "Delete"]}
    /\ reply' = "none"
    /\ UNCHANGED <<file, key, stored, watch, fingerprint, putVars, legVars>>

RolledBack ==
    /\ pc = "rollback"
    /\ reply = "ok"
    /\ reply' = "none"
    /\ Return("changed")
    /\ UNCHANGED <<file, key, stored, late, watch, fingerprint, putVars, legVars>>

\* The result of delete() is ignored: a failed one gives the very same error.
RollbackFails ==
    /\ pc = "rollback"
    /\ Return("not_deleted")
    /\ late' = late \union {[op |-> "Delete"]}
    /\ reply' = "none"
    /\ UNCHANGED <<file, key, stored, watch, fingerprint, putVars, legVars>>

\* R2 handles a request nobody waits for any more.
HandleLate ==
    \E r \in late :
        /\ late' = late \ {r}
        /\ IF r.op = "Put"
           THEN key' = Ours(r.content) /\ stored' = stored \union {r.content}
           ELSE key' = NoObject /\ UNCHANGED stored
        /\ UNCHANGED <<file, pc, watch, fingerprint, putVars, reply, outcome, legVars>>

----------------------------------------------------------------------------
(* The multipart leg *)

\* upload_file looks at the file anew: what it uploads may not be what send saw.
OpenSession ==
    /\ pc = "multipart"
    /\ file.size # "empty"
    /\ fingerprint' = file.version
    /\ Leg!Open
    /\ UNCHANGED <<file, key, stored, late, pc, watch, putVars, reply, outcome>>

SettleSession ==
    /\ \/ /\ Leg!Settle("published")
          /\ key' = Ours({fingerprint})
          /\ stored' = stored \union {{fingerprint}}
       \/ /\ Leg!Settle("discarded")
          /\ UNCHANGED <<key, stored>>
    /\ UNCHANGED <<file, late, pc, watch, fingerprint, putVars, reply, outcome>>

SessionPublished ==
    /\ pc = "multipart"
    /\ Leg!Confirm("published")
    /\ Return("ok")
    /\ UNCHANGED <<file, key, stored, late, watch, fingerprint, putVars, reply>>

\* map_err(|err| err.error): the caller is not given the snapshot of an open session.
SessionFails ==
    /\ pc = "multipart"
    /\ Leg!Confirm("discarded") \/ Leg!Fail
    /\ Return("error")
    /\ UNCHANGED <<file, key, stored, late, watch, fingerprint, putVars, reply>>

----------------------------------------------------------------------------
Init ==
    /\ \E s \in Sizes : file = [version |-> 1, size |-> s]
    /\ key \in {NoObject, Others}
    /\ stored = {}
    /\ late = {}
    /\ pc = "stat"
    /\ signal = 0
    /\ waiter = "idle"
    /\ seen = 0
    /\ fingerprint = 0
    /\ opened = 0
    /\ body = {}
    /\ unread = 0
    /\ reply = "none"
    /\ outcome = "none"
    /\ Leg!Init

SinglePutStep ==
    \/ Refuse
    \/ StatSource
    \/ OpenSource
    \/ OpenFails
    \/ ReadChunk
    \/ ResendPut
    \/ PutSucceeds
    \/ PutFails
    \/ Subscribe
    \/ FirstLook
    \/ SignalChanged
    \/ SourceUnchanged
    \/ RestatFails
    \/ SourceChanged
    \/ ResendDelete
    \/ RolledBack
    \/ RollbackFails

MultipartStep == OpenSession \/ SettleSession \/ SessionPublished \/ SessionFails

RemoteStep == HandlePut \/ HandleDelete \/ HandleLate

EnvironmentStep == RewriteFile \/ OtherWriterPuts \/ Cancel

Next == SinglePutStep \/ MultipartStep \/ RemoteStep \/ EnvironmentStep

Spec == Init /\ [][Next]_vars

\* The caller polls send, and awaiting the file system ends.  Nothing is assumed
\* of R2: its answer to the PUT may never come, with no timeout configured.
LocalStep ==
    \/ Refuse \/ StatSource \/ OpenSource \/ OpenFails \/ Subscribe \/ FirstLook
    \/ PutSucceeds \/ SourceUnchanged \/ RestatFails \/ SourceChanged
FairSpec == Spec /\ WF_vars(LocalStep) /\ WF_vars(SignalChanged)

----------------------------------------------------------------------------
(* Properties *)

TypeOK ==
    /\ file \in [version : Versions, size : Sizes]
    /\ key \in {NoObject, Others} \union {Ours(c) : c \in SUBSET Versions}
    /\ stored \subseteq SUBSET Versions
    /\ late \subseteq {[op |-> "Delete"]} \union [op : {"Put"}, content : SUBSET Versions]
    /\ pc \in {"stat", "open", "put", "recheck", "rollback", "multipart", "done"}
    /\ signal \in 0..MaxSignals
    /\ waiter \in {"idle", "subscribed", "waiting"}
    /\ seen \in 0..signal
    /\ fingerprint \in 0..MaxVersion
    /\ opened \in 0..MaxVersion
    /\ body \in SUBSET Versions
    /\ unread \in 0..Chunks
    /\ reply \in {"none", "ok"}
    /\ outcome \in {"none", "ok", "changed", "not_deleted", "error"}
    /\ Leg!TypeOK

\* Ok means that one version of the file, the one the size and the strategy were
\* taken from, is all this call ever put under the key: the PUT is checked after
\* it is published, and the multipart leg stats the file for itself.
OkIsOneVersion == outcome = "ok" => stored = {{fingerprint}}

\* A delete of the rollback never removes a faithful copy of the file as it is:
\* only after a change of the file, which no later version undoes.
GoodObjectStays ==
    [][key.writer = "send" /\ key'.writer = "nobody" => file.version # fingerprint]_vars

\* "file changed during upload" with an answered delete leaves nothing of a
\* streamed PUT under the key, not even later.  (An empty PUT that the SDK sent
\* twice may still come late.)
RolledBackIsGone ==
    outcome = "changed" /\ opened # 0 =>
        key.writer # "send" /\ \A r \in late : r.op # "Put"

\* A cancelled PUT returns even if R2 never answers, unless its answer came first
\* and the file changed, when the call waits for its own delete: cancel() before
\* the subscription, between it and the first look, or after, is never missed.
CancelReturns == cancelled /\ pc = "put" ~> pc \in {"done", "rollback"}
=============================================================================
