---------------------------- MODULE ObjectCalls ----------------------------
(***************************************************************************)
(* The operations of Bucket on one object (src/src/object.rs): get, head,  *)
(* put, copy, delete, download_file and the presigned requests, with the   *)
(* conditions they carry and the errors they return (src/src/error.rs).    *)
(*                                                                         *)
(* One application makes its calls one after the other, each on a key that *)
(* other writers share, and conditions them on the metadata it read last.  *)
(* The SDK may give an attempt up and send the request again; an attempt   *)
(* given up may reach R2 late, and whoever has a presigned request uses it *)
(* as often as it is valid.  R2 is external: it evaluates conditions when  *)
(* it handles a request.                                                   *)
(*                                                                         *)
(* The content of an object is its ETag; lengths, ranges, the metadata     *)
(* that R2 stores for the application and the destination of a copy are    *)
(* left out.                                                               *)
(***************************************************************************)
EXTENDS Naturals, FiniteSets

CONSTANTS
    Theirs,         \* ETags of what other writers put
    Mine,           \* ETag of what the application puts
    MaxTime,        \* bound on the writes to the key
    MaxWire,        \* bound on the writes that may still reach R2 at one time
    Chunks          \* chunks of a body

ASSUME ObjectAssumption ==
    /\ Mine \notin Theirs
    /\ MaxTime \in Nat \ {0}
    /\ MaxWire \in Nat
    /\ Chunks \in Nat \ {0}

VARIABLES
    object,         \* R2: ETag and last_modified of the object, or NoObject
    clock,          \* R2: time of the last write
    late,           \* writes whose attempt was given up before R2 handled it
    signed,         \* presigned writes that are still valid
    pc,             \* where the call stands
    call,           \* the operation, its condition and the metadata it names
    reply,          \* R2's response, in transit
    known,          \* metadata the application read last
    outcome,        \* what the call returned
    file,           \* target of download_file: what was there, or what is now
    unremoved,      \* history: remove_file failed
    seen,           \* history: the object's values since the call began
    replaced        \* history: what the application's puts replaced since the call began

remoteVars == <<object, clock, seen>>
fileVars == <<file, unremoved>>
vars == <<remoteVars, late, signed, pc, call, reply, known, outcome, fileVars, replaced>>

Etags == Theirs \union {Mine}
Object == [etag : Etags, time : 1..MaxTime]
NoObject == [etag |-> "none", time |-> 0]
\* What the path held when the call began, nothing, or chunks of a version.
Earlier == [is |-> "earlier", etag |-> "none", chunks |-> 0]
NoFile == [is |-> "absent", etag |-> "none", chunks |-> 0]
FileOf(etag, chunks) == [is |-> "download", etag |-> etag, chunks |-> chunks]

\* get stands for get, get_bytes and head, which differ in what they return of it.
Reads == {"get", "download"}
Writes == {"put", "delete"}
Ops == Reads \union Writes \union {"copy"}
Conditions == {"none", "if_match", "if_none_match", "if_modified_since", "if_unmodified_since"}

\* The conditions the builder of an operation can be given.
ConditionsOf(op) ==
    CASE op \in {"get", "copy"} -> Conditions
      [] op = "put"                     -> {"none", "if_match", "if_none_match"}
      [] op \in {"delete", "download"}  -> {"none"}

Call == [op : Ops, condition : Conditions, base : Object \union {NoObject}]

\* Mutant: the builder of PutObject forgets if_match.
RequestWithoutMatch(c) ==
    [op |-> c.op, base |-> c.base,
     condition |-> IF c.op = "put" /\ c.condition = "if_match" THEN "none" ELSE c.condition]

\* The request that send() builds, with the condition the application asked for.
Request(c) ==
    [op |-> c.op, base |-> c.base, condition |-> c.condition]

----------------------------------------------------------------------------
(* R2 *)

Satisfies(o, condition, base) ==
    CASE condition = "none"                -> TRUE
      [] condition = "if_match"            -> o.etag = base.etag
      [] condition = "if_none_match"       -> o.etag # base.etag
      [] condition = "if_modified_since"   -> o.time > base.time
      [] condition = "if_unmodified_since" -> o.time <= base.time

\* The HTTP status of R2's response to a request.
Status(r) ==
    IF r.op = "delete" THEN 204
    ELSE IF r.op # "put" /\ object = NoObject THEN 404
    ELSE IF Satisfies(object, r.condition, r.base) THEN 200
    ELSE IF r.op \in Reads /\ r.condition \in {"if_none_match", "if_modified_since"} THEN 304
    ELSE 412

SetObject(o) ==
    /\ object' = o
    /\ seen' = IF pc = "idle" THEN seen ELSE seen \union {o}

\* A write that R2 carries out.
Write(r) ==
    /\ clock < MaxTime
    /\ clock' = clock + 1
    /\ SetObject(IF r.op = "put" THEN [etag |-> Mine, time |-> clock'] ELSE NoObject)
    /\ replaced' = IF r.op = "put" /\ pc # "idle" THEN replaced \union {object} ELSE replaced

Apply(r) ==
    IF r.op \in Writes /\ Status(r) # 412 THEN Write(r)
    ELSE UNCHANGED <<remoteVars, replaced>>

OtherWriterPuts ==
    /\ clock < MaxTime
    /\ clock' = clock + 1
    /\ \E e \in Theirs : SetObject([etag |-> e, time |-> clock'])
    /\ UNCHANGED <<late, signed, pc, call, reply, known, outcome, fileVars, replaced>>

OtherWriterDeletes ==
    /\ object # NoObject
    /\ SetObject(NoObject)
    /\ UNCHANGED <<clock, late, signed, pc, call, reply, known, outcome, fileVars, replaced>>

NoReply == [status |-> 0, object |-> NoObject]

HandleRequest ==
    /\ pc = "sent"
    /\ reply = NoReply
    /\ \/ /\ Apply(Request(call))
          /\ reply' = [status |-> Status(Request(call)), object |-> object]
       \/ /\ reply' = [status |-> 503, object |-> NoObject]
          /\ UNCHANGED <<remoteVars, replaced>>
    /\ UNCHANGED <<late, signed, pc, call, known, outcome, fileVars>>

HandleLate ==
    \E r \in late :
        /\ Apply(r)
        /\ late' = late \ {r}
        /\ UNCHANGED <<signed, pc, call, reply, known, outcome, fileVars>>

\* A presigned request is used, and can be used again.
UseSigned ==
    \E r \in signed :
        /\ Apply(r)
        /\ UNCHANGED <<late, signed, pc, call, reply, known, outcome, fileVars>>

ExpireSigned ==
    /\ \E r \in signed : signed' = signed \ {r}
    /\ UNCHANGED <<remoteVars, late, pc, call, reply, known, outcome, fileVars, replaced>>

----------------------------------------------------------------------------
(* Errors *)

NoError == [is |-> "none", kind |-> "none"]
Error(is) == [is |-> is, kind |-> "none"]

\* ServiceErrorKind of a status; 0 stands for no response at all.
KindOf(status) ==
    CASE status = 404 -> "NotFound"
      [] status = 412 -> "Conflict"
      [] status = 503 -> "Unavailable"
      [] status = 0   -> "Network"
      [] OTHER        -> "Unknown"

Remote(status) == [is |-> "Remote", kind |-> KindOf(status)]

\* Mutant: a condition that fails and one that says "not modified" are swapped.
MapErrorSwapped(op, status) ==
    CASE op \in Reads \union {"copy"} /\ status = 404 -> Error("NotFound")
      [] op \in Reads \union {"copy"} /\ status = 412 -> Error("NotModified")
      [] op \notin {"delete"} /\ status = 412         -> Error("PreconditionFailed")
      [] OTHER -> Remote(status)

\* map_object_error! of the reads and of copy, and the map_err of put and delete.
MapError(op, status) ==
    CASE op \in Reads \union {"copy"} /\ status = 404 -> Error("NotFound")
      [] op \in Reads \union {"copy"} /\ status = 304 -> Error("NotModified")
      [] op # "delete" /\ status = 412                -> Error("PreconditionFailed")
      [] OTHER -> Remote(status)

\* Error::is_not_found
IsNotFound(e) == e.is = "NotFound" \/ (e.is = "Remote" /\ e.kind = "NotFound")

----------------------------------------------------------------------------
(* The application's calls *)

Returned(error, o) == [error |-> error, object |-> o]
Pending == Returned(Error("pending"), NoObject)

Return(error, o) ==
    /\ pc' = "idle"
    /\ outcome' = Returned(error, o)

StartCall ==
    /\ pc = "idle"
    /\ \E op \in Ops : \E condition \in ConditionsOf(op) :
          /\ condition # "none" => known # NoObject
          /\ call' = [op |-> op, condition |-> condition,
                      base |-> IF condition = "none" THEN NoObject ELSE known]
    /\ pc' = "sent"
    /\ outcome' = Pending
    /\ seen' = {object}
    /\ replaced' = {}
    /\ file' = Earlier
    /\ unremoved' = FALSE
    /\ UNCHANGED <<object, clock, late, signed, reply, known>>

\* A request that is signed now may reach R2 later.
Sign(c) ==
    /\ pc = "idle"
    /\ Cardinality(late) + Cardinality(signed) < MaxWire
    /\ signed' = signed \union {Request(c)}
    /\ UNCHANGED <<remoteVars, late, pc, call, reply, known, outcome, fileVars, replaced>>

PresignPut ==
    \E condition \in ConditionsOf("put") :
        /\ condition # "none" => known # NoObject
        /\ Sign([op |-> "put", condition |-> condition,
                 base |-> IF condition = "none" THEN NoObject ELSE known])

PresignDelete == Sign([op |-> "delete", condition |-> "none", base |-> NoObject])

\* A key, a range or a header is invalid: nothing is sent.
Refuse ==
    /\ pc = "sent"
    /\ reply = NoReply
    /\ seen = {object}
    /\ Return(Error("InvalidInput"), NoObject)
    /\ UNCHANGED <<remoteVars, late, signed, call, reply, known, fileVars, replaced>>

\* A write that R2 has not handled is left on the wire when nobody waits for it.
Abandon ==
    /\ late' = IF pc = "sent" /\ reply = NoReply /\ call.op \in Writes
               THEN late \union {Request(call)} ELSE late
    /\ Cardinality(late') + Cardinality(signed) <= MaxWire

ResendRequest ==
    /\ pc = "sent"
    /\ Abandon
    /\ reply' = NoReply
    /\ UNCHANGED <<remoteVars, signed, pc, call, known, outcome, fileVars, replaced>>

\* The response to anything but download_file ends the call.
TakeReply ==
    /\ pc = "sent"
    /\ reply.status \in {200, 204}
    /\ call.op # "download"
    /\ Return(NoError, reply.object)
    /\ known' = IF call.op \in Reads THEN reply.object ELSE known
    /\ reply' = NoReply
    /\ UNCHANGED <<remoteVars, late, signed, call, fileVars, replaced>>

\* A response without a size, with a bad date, or of a copy without its result.
TakeMalformed ==
    /\ pc = "sent"
    /\ reply.status = 200
    /\ call.op # "put"
    /\ Return(Error("Service"), NoObject)
    /\ reply' = NoReply
    /\ UNCHANGED <<remoteVars, late, signed, call, known, fileVars, replaced>>

TakeError ==
    /\ pc = "sent"
    /\ reply.status \notin {0, 200, 204}
    /\ Return(MapError(call.op, reply.status), NoObject)
    /\ reply' = NoReply
    /\ UNCHANGED <<remoteVars, late, signed, call, known, fileVars, replaced>>

\* No response: a timeout, or no connection.
NoResponse ==
    /\ pc = "sent"
    /\ Return(Remote(0), NoObject)
    /\ Abandon
    /\ reply' = NoReply
    /\ UNCHANGED <<remoteVars, signed, call, known, fileVars, replaced>>

\* The application drops the future; no branch of the code runs any more.
DropCall ==
    /\ pc # "idle"
    /\ Return(Error("dropped"), NoObject)
    /\ Abandon
    /\ reply' = NoReply
    /\ UNCHANGED <<remoteVars, signed, call, known, fileVars, replaced>>

----------------------------------------------------------------------------
(* download_file *)

\* File::create truncates what was there, now that R2 has the object.
CreateFile ==
    /\ pc = "sent"
    /\ call.op = "download"
    /\ reply.status = 200
    /\ \/ /\ file' = FileOf(reply.object.etag, 0)
          /\ pc' = "copy"
          /\ UNCHANGED <<outcome, reply>>
       \/ /\ Return(Error("Io"), NoObject)
          /\ reply' = NoReply
          /\ UNCHANGED file
    /\ UNCHANGED <<remoteVars, late, signed, call, known, unremoved, replaced>>

\* Mutant: the copy does not stop at the end of the body.
CopyPastEnd ==
    /\ pc = "copy"
    /\ file' = [file EXCEPT !.chunks = @ + 1]
    /\ UNCHANGED <<remoteVars, late, signed, pc, call, reply, known, outcome, unremoved, replaced>>

CopyChunk ==
    /\ pc = "copy"
    /\ file.chunks < Chunks
    /\ file' = [file EXCEPT !.chunks = @ + 1]
    /\ UNCHANGED <<remoteVars, late, signed, pc, call, reply, known, outcome, unremoved, replaced>>

\* Mutant: the partial file is left where it is.
LeaveFile ==
    /\ pc = "copy"
    /\ Return(Error("Io"), NoObject)
    /\ reply' = NoReply
    /\ UNCHANGED <<remoteVars, late, signed, call, known, file, unremoved, replaced>>

\* The body breaks off, or a write or sync_all fails: the result of remove_file
\* is ignored.
CopyFails ==
    /\ pc = "copy"
    /\ Return(Error("Io"), NoObject)
    /\ reply' = NoReply
    /\ \/ file' = NoFile /\ UNCHANGED unremoved
       \/ unremoved' = TRUE /\ UNCHANGED file
    /\ UNCHANGED <<remoteVars, late, signed, call, known, replaced>>

DownloadSucceeds ==
    /\ pc = "copy"
    /\ file.chunks = Chunks
    /\ Return(NoError, reply.object)
    /\ known' = reply.object
    /\ reply' = NoReply
    /\ UNCHANGED <<remoteVars, late, signed, call, fileVars, replaced>>

----------------------------------------------------------------------------
Init ==
    /\ object = NoObject
    /\ clock = 0
    /\ late = {}
    /\ signed = {}
    /\ pc = "idle"
    /\ call = [op |-> "get", condition |-> "none", base |-> NoObject]
    /\ reply = NoReply
    /\ known = NoObject
    /\ outcome = Pending
    /\ file = Earlier
    /\ unremoved = FALSE
    /\ seen = {NoObject}
    /\ replaced = {}

CallStep ==
    \/ StartCall
    \/ PresignPut
    \/ PresignDelete
    \/ Refuse
    \/ ResendRequest
    \/ TakeReply
    \/ TakeMalformed
    \/ TakeError
    \/ NoResponse
    \/ DropCall

DownloadStep == CreateFile \/ CopyChunk \/ CopyFails \/ DownloadSucceeds

RemoteStep == HandleRequest \/ HandleLate \/ UseSigned \/ ExpireSigned

OthersStep == OtherWriterPuts \/ OtherWriterDeletes

Next == CallStep \/ DownloadStep \/ RemoteStep \/ OthersStep

Spec == Init /\ [][Next]_vars

----------------------------------------------------------------------------
(* Properties *)

TypeOK ==
    /\ object \in Object \union {NoObject}
    /\ clock \in 0..MaxTime
    /\ late \union signed \subseteq
          [op : Writes, base : Object \union {NoObject}, condition : Conditions]
    /\ pc \in {"idle", "sent", "copy"}
    /\ call \in Call
    /\ reply \in [status : {0, 200, 204, 304, 404, 412, 503},
                  object : Object \union {NoObject}]
    /\ known \in Object \union {NoObject}
    /\ outcome.object \in Object \union {NoObject}
    /\ file \in {Earlier, NoFile} \union {FileOf(e, n) : e \in Etags, n \in 0..Chunks}
    /\ unremoved \in BOOLEAN
    /\ seen \subseteq Object \union {NoObject}
    /\ replaced \subseteq Object \union {NoObject}

Done(op) == pc = "idle" /\ call.op = op

\* What a call returns was true of the object while the call was under way, although
\* writers come and go and attempts are repeated: a read names a version that was
\* there and met its condition; a put that is acknowledged took effect during the call,
\* on an object that met its condition; each error names its reason.  (The version
\* that fails a condition may be the call's own, put by an attempt whose response was
\* lost.)
AnswerWasTrue ==
    pc = "idle" =>
        LET here == {o \in seen : o # NoObject}
            meets(o) == Satisfies(o, call.condition, call.base)
            e == outcome.error
        IN  /\ e = NoError /\ call.op \in Reads \union {"copy"} =>
                  outcome.object \in here /\ meets(outcome.object)
            /\ e = NoError /\ call.op = "put" =>
                  /\ \E o \in here : o.etag = Mine
                  /\ \E o \in replaced : meets(o)
            /\ e = NoError /\ call.op = "delete" => NoObject \in seen
            /\ IsNotFound(e) => NoObject \in seen
            /\ e.is = "NotModified" =>
                  call.condition \in {"if_none_match", "if_modified_since"}
            /\ e.is \in {"NotModified", "PreconditionFailed"} =>
                  \E o \in (IF call.op = "put" THEN seen ELSE here) : ~meets(o)

\* download_file delivers the whole of one version, the one whose metadata it
\* returns.  An error of the request or from R2 leaves the file that was there; one of
\* the disk or in the body leaves that file or none, unless remove_file fails.  What such
\* a failure or a dropped future leaves of a download is the beginning of a single
\* version that R2 held during the call.
DownloadIsWhole ==
    Done("download") =>
        LET is == outcome.error.is
        IN  /\ outcome.error = NoError =>
                  file = FileOf(outcome.object.etag, Chunks)
            /\ is \notin {"none", "Io", "dropped"} => file = Earlier
            /\ is = "Io" /\ ~unremoved => file \in {Earlier, NoFile}
            /\ file.is = "download" => \E o \in seen : o.etag = file.etag
=============================================================================
